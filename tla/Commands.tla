------------------------------- MODULE Commands -------------------------------
(***************************************************************************)
(* cli.rs: what each command does with files: which it checks, reads and   *)
(* replaces, and in which order.  A file system has entries in canonical   *)
(* places: regular files, several of which may be one file (hard links),   *)
(* symbolic links and directories; a path reaches a place directly,        *)
(* through a directory that is a link, or has no parent.                   *)
(*                                                                         *)
(* What a command reads and writes is abstracted to whether it is old, new *)
(* or a part; a failure of a parser, a conversion or a call may happen at  *)
(* every step.  A transaction is what OutputTransaction shows of it: all   *)
(* outputs are replaced or none, unless the rollback fails or the process  *)
(* is killed.                                                              *)
(***************************************************************************)
EXTENDS Naturals, Sequences, FiniteSets

VARIABLES
  command,    \* the name of the command
  arguments,  \* the path of each role the command knows
  entry,      \* what is in each place
  content,    \* what each file holds: "old", "part" or "new"
  todo,       \* the steps that are left
  verdict,    \* "running", or how it ended
  before      \* the entries at first (history)

commandVars == <<command, arguments, entry, content, todo, verdict, before>>

-----------------------------------------------------------------------------
\* The steps of a command.
Paths(strict, inputs, outputs) ==  \* compare the paths; strict: outputs are validated as well
  [do |-> "paths", strict |-> strict, inputs |-> inputs, outputs |-> outputs]
On(do, outputs) == [do |-> do, strict |-> FALSE, inputs |-> {}, outputs |-> outputs]
Load(role) == [do |-> "load", strict |-> FALSE, inputs |-> {role}, outputs |-> {}]
Compute == On("compute", {})          \* options, conversions, evaluation, serialization to memory
Replace(outputs) == On("replace", outputs)  \* atomic.rs
Truncate(role) == On("truncate", {role})    \* File::create
Fill(role) == On("fill", {role})
Tell == On("tell", {})                \* the lines on standard output

Query == <<Compute, Load("index"), Compute, Tell>>  \* search, inspect, lexicon and their likes

CiffExport ==
  <<Paths(FALSE, {"index"}, {"output"}), Load("index"), Compute, Replace({"output"}), Tell>>

BatchPaths == Paths(TRUE, {"index", "topics", "qrels"}, {"run", "report"})

CiffBatch ==
  <<Compute, BatchPaths, Load("index"), Load("topics"), Load("qrels"), Compute,
    Replace({"run", "report"}), Tell>>

\* Mutant of Batch: the run is written before the report is serialized.
BatchRunFirst ==
  <<BatchPaths, Load("topics"), Load("qrels"), Compute, Load("index"), Compute,
    Replace({"run"}), Compute, Replace({"report"}), Tell>>

Batch ==
  <<BatchPaths, Load("topics"), Load("qrels"), Compute, Load("index"), Compute,
    Replace({"run", "report"}), Tell>>

Index ==
  <<Paths(FALSE, {"input"}, {"output"}), Compute, Load("input"), Compute,
    Truncate("output"), Fill("output"), Tell>>

ForwardBuild ==
  <<Paths(FALSE, {"input"}, {"output"}), Compute, Load("input"), Compute,
    Replace({"output"}), Tell>>

ForwardInvert ==
  <<Paths(FALSE, {"input"}, {"output"}), Load("input"), Compute, Replace({"output"}), Tell>>

Orders == {"forward_output", "index_output", "old_to_new", "new_to_old"}

Reorder ==
  <<Compute, Paths(TRUE, {"input", "feature", "mapping"}, Orders), Load("input"), Compute,
    Load("feature"), Load("mapping"), Compute, Replace(Orders), Tell>>

Benchmark == <<Compute, Paths(TRUE, {}, {"json"}), Compute, Replace({"json"}), Tell>>

Plans == [
  query |-> Query, ciff_export |-> CiffExport, ciff_batch |-> CiffBatch, batch |-> Batch,
  index |-> Index, forward_build |-> ForwardBuild, forward_invert |-> ForwardInvert,
  reorder |-> Reorder, benchmark |-> Benchmark]

InputsOf(c) == UNION {Plans[c][i].inputs : i \in DOMAIN Plans[c]}
OutputsOf(c) == UNION {Plans[c][i].outputs : i \in DOMAIN Plans[c]}
InPlace(c) == \E i \in DOMAIN Plans[c] : Plans[c][i].do = "truncate"

\* Which of a command's roles may have no path, together.
Optional(c) ==
  CASE c \in {"batch", "ciff_batch"} -> SUBSET {"qrels", "report"}
    [] c = "reorder" -> {{"feature", "mapping"}, {"feature"}, {"mapping"}}
    [] c = "benchmark" -> {{}, {"json"}}
    [] OTHER -> {{}}

-----------------------------------------------------------------------------
\* The file system.  Places are named after the roles whose usual paths they have.
File(place, age) == <<"file", place, age>>
Link(place) == <<"link", place, "">>
Dir(place) == <<"dir", place, "">>
Absent(place) == <<"absent", place, "">>

Usual(role) == <<"direct", role>>
Names(places) == ({"direct", "alias"} \X places) \union {<<"orphan", "">>}
NoPath == <<"none", "">>

NodeIn(entries, name) ==  \* what the name leads to, through a symbolic link
  IF name[1] = "orphan" THEN Absent("")
  ELSE LET e == entries[name[2]] IN IF e[1] = "link" THEN entries[e[2]] ELSE e

Node(name) == NodeIn(entry, name)
Exists(name) == Node(name)[1] \in {"file", "dir"}

SameExistingFile(left, right) == Exists(left) /\ Exists(right) /\ Node(left) = Node(right)

\* canonicalize, or canonicalize of the parent and the last component.
Normalized(name) ==
  IF Exists(name) /\ entry[name[2]][1] = "link" THEN entry[name[2]][2] ELSE name[2]

\* Mutant of PathsConflict: only the normalized paths are compared.
PathsConflictByName(left, right) == Normalized(left) = Normalized(right)

PathsConflict(left, right) ==
  SameExistingFile(left, right) \/ Normalized(left) = Normalized(right)

\* prevalidate_output_path: the parent exists, and a file or nothing is there.
IsOutput(name) == name[1] /= "orphan" /\ entry[name[2]][1] \in {"file", "absent"}

Given(roles) == {r \in roles : arguments[r] /= NoPath}

\* The pairs of paths a step compares; a path without a parent has no normal form.
Distinct(step) ==
  LET inputs == Given(step.inputs)
      outputs == Given(step.outputs)
  IN  /\ step.strict => \A o \in outputs : IsOutput(arguments[o])
      /\ \A o \in outputs, r \in inputs \union outputs :
           r /= o => /\ "orphan" \notin {arguments[o][1], arguments[r][1]}
                     /\ ~PathsConflict(arguments[r], arguments[o])

-----------------------------------------------------------------------------
\* Every role has its usual path but at most one, and every place is plain but at most
\* one: if a path is odd, one of its two places.  The outputs exist, or none does.
Start(c) ==
  LET roles == InputsOf(c) \union OutputsOf(c)
      Odd(p) == {Dir(p), Absent(p)} \union UNION {{File(q, "first"), Link(q)} : q \in roles \ {p}}
  IN  \E without \in Optional(c), exist \in BOOLEAN :
        LET usual == [r \in roles |-> IF r \in without THEN NoPath ELSE Usual(r)]
            plain == [p \in roles |->
                        IF p \in InputsOf(c) \/ exist THEN File(p, "first") ELSE Absent(p)]
            Entries(places) ==
              {plain} \union UNION {{[plain EXCEPT ![p] = e] : e \in Odd(p)} : p \in places}
        IN  \/ arguments = usual /\ entry \in Entries(roles)
            \/ \E r \in roles \ without : \E n \in Names(roles) \ {usual[r]} :
                 /\ arguments = [usual EXCEPT ![r] = n]
                 /\ entry \in Entries({r, n[2]} \intersect roles)

CommandInit ==
  /\ command \in DOMAIN Plans
  /\ Start(command)
  /\ before = entry
  /\ content = [f \in {File(p, age) : p \in DOMAIN entry, age \in {"first", "made"}} |-> "old"]
  /\ todo = Plans[command]
  /\ verdict = "running"

IsDue(do) == verdict = "running" /\ Head(todo).do = do
Proceed == todo' = Tail(todo)
End(value) == verdict' = value /\ UNCHANGED todo
Continue == /\ Proceed
            /\ UNCHANGED <<command, arguments, entry, content, verdict, before>>

\* Any step may be refused before the outputs are touched, and `tell` after they were.
Refuse ==
  /\ IsDue("paths") \/ IsDue("load") \/ IsDue("compute") \/ IsDue("truncate") \/ IsDue("tell")
  /\ End(IF IsDue("tell") THEN "untold" ELSE "error")
  /\ UNCHANGED <<command, arguments, entry, content, before>>

ComparePaths == IsDue("paths") /\ Distinct(Head(todo)) /\ Continue

\* Only a regular file can be read.
LoadInput ==
  /\ IsDue("load")
  /\ \A r \in Given(Head(todo).inputs) : Node(arguments[r])[1] = "file"
  /\ Continue

DoCompute == IsDue("compute") /\ Continue

\* File::create follows a link, and empties a file that is there.
TruncateOutput ==
  /\ IsDue("truncate")
  /\ \E r \in Head(todo).outputs :
       LET name == arguments[r]
           place == IF entry[name[2]][1] = "link" THEN entry[name[2]][2] ELSE name[2]
           file == IF Exists(name) THEN Node(name) ELSE File(place, "made")
       IN  /\ name[1] /= "orphan" /\ file[1] = "file"
           /\ entry' = [entry EXCEPT ![place] = file]
           /\ content' = [content EXCEPT ![file] = "part"]
  /\ Proceed
  /\ UNCHANGED <<command, arguments, verdict, before>>

FillOutput ==
  /\ IsDue("fill")
  /\ \/ /\ \E r \in Head(todo).outputs :
             content' = [content EXCEPT ![Node(arguments[r])] = "new"]
        /\ Proceed /\ UNCHANGED verdict
     \/ End("partial") /\ UNCHANGED content
  /\ UNCHANGED <<command, arguments, entry, before>>

\* atomic_write_many and its variants: validated, and then replaced, kept, or left in
\* between with an error that says so.
ReplaceOutputs ==
  /\ IsDue("replace")
  /\ LET outputs == Given(Head(todo).outputs)
         places == {arguments[o][2] : o \in outputs}
         ready == Distinct([Head(todo) EXCEPT !.strict = TRUE])
         Put(choice) ==  \* what each place gets
           /\ entry' = [p \in DOMAIN entry |-> IF p \in places THEN choice[p] ELSE entry[p]]
           /\ content' = [f \in DOMAIN content |->
                            IF f \in {choice[p] : p \in places} \ {entry[p] : p \in places}
                            THEN "new" ELSE content[f]]
     IN  \/ /\ ready
            /\ Put([p \in places |-> File(p, "made")])
            /\ Proceed /\ UNCHANGED verdict
         \/ /\ outputs /= {}
            /\ End("error")
            /\ UNCHANGED <<entry, content>>
         \/ /\ outputs /= {} /\ ready
            /\ \E choice \in [places -> {"kept", "made", "gone"}] :
                 Put([p \in places |-> CASE choice[p] = "kept" -> entry[p]
                                         [] choice[p] = "made" -> File(p, "made")
                                         [] OTHER -> Absent(p)])
            /\ End("half_done")
  /\ UNCHANGED <<command, arguments, before>>

TellOutcome ==
  /\ IsDue("tell")
  /\ End("ok")
  /\ UNCHANGED <<command, arguments, entry, content, before>>

CommandNext ==
  \/ ComparePaths \/ LoadInput \/ DoCompute \/ TruncateOutput \/ FillOutput \/ ReplaceOutputs
  \/ TellOutcome \/ Refuse

-----------------------------------------------------------------------------
\* However a command ends, what the path of an input leads to is the file it was, with
\* what it held: no spelling of a path, hard link or symbolic link lets an output be one
\* of the inputs.
InputsSurvive ==
  \A r \in Given(InputsOf(command)) :
    LET node == Node(arguments[r])
    IN  /\ node = NodeIn(before, arguments[r])
        /\ node[1] = "file" => content[node] = "old"

\* A command that fails leaves the files as they were, also if a later output could not be
\* made; only indexing, which writes in place, may leave a part, and only in its output.
\* A command that says nothing of an error before its last lines has made all outputs.
AllOrNothing ==
  /\ verdict = "error" => entry = before /\ \A p \in DOMAIN entry :
                            entry[p][1] = "file" => content[entry[p]] = "old"
  /\ verdict = "partial" => InPlace(command)
  /\ verdict \in {"ok", "untold"} =>
       \A o \in Given(OutputsOf(command)) :
         Node(arguments[o])[1] = "file" /\ content[Node(arguments[o])] = "new"
=============================================================================
