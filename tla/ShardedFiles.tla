---------------------------- MODULE ShardedFiles ----------------------------
(***************************************************************************)
(* Two lives of a sharded collection: in memory, where it is built and     *)
(* searched (ShardedIndex), and on disk, where it and the other kinds of   *)
(* index are saved, damaged and loaded (StoredFile).                       *)
(***************************************************************************)
EXTENDS ShardedIndex

CONSTANTS
  Collections, MaxShards, BlockPostings, MaxItems, MaxStreams, MaxBlock, MaxPayload,
  MaxShard, MaxContainer, MaxDamages,  \* as in StoredFile
  SavedShardCounts                     \* its ShardCounts

VARIABLES
  fileState,  \* StoredFile's state, or "none" while the collection is in memory
  file, goal, saved, loaded, damages, reading, other  \* those of StoredFile

disk == <<fileState, file, goal, saved, loaded, damages, reading, other>>

Stored == INSTANCE StoredFile WITH state <- fileState, ShardCounts <- SavedShardCounts

FilesInit ==
  /\ Init
  /\ \/ /\ fileState = "none"
        /\ file = <<>> /\ goal = <<>> /\ saved = <<>> /\ loaded = <<>> /\ damages = 0
        /\ reading = <<>> /\ other = <<>>
     \/ Stored!Init /\ shardCount = Min(ShardCounts)

FilesNext ==
  \/ fileState = "none" /\ Next /\ UNCHANGED disk
  \/ fileState /= "none" /\ Stored!Next /\ UNCHANGED vars

FilesSpec == FilesInit /\ [][FilesNext]_<<vars, disk>>
-----------------------------------------------------------------------------
\* StoredFile's promise: what is loaded from disk is what was saved, whole, or it is
\* refused (persistence.rs:112, shard.rs:344).
WholeOrRefused == fileState /= "none" => Stored!WholeOrRefused
=============================================================================
