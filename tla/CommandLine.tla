----------------------------- MODULE CommandLine -----------------------------
(***************************************************************************)
(* The command line: what commands do with files (Commands), what they     *)
(* make of their options (CommandOptions), how a batch or a benchmark      *)
(* becomes a report (BatchEvaluation), and how outputs are replaced        *)
(* (OutputTransaction).  A behaviour is one of them: a command waits for   *)
(* each, and what it waits for is an abstract step of the other modules.   *)
(***************************************************************************)
EXTENDS OutputTransaction, Commands, CommandOptions, BatchEvaluation

\* No step of a parked component is enabled.
TransactionParked ==
  /\ original = Everywhere("absent") /\ target = original
  /\ stage = Everywhere("none") /\ saved = stage
  /\ temporary = Everywhere(FALSE) /\ backup = temporary /\ installed = temporary
  /\ phase = "returned" /\ at = 1 /\ undo = {} /\ committing = FALSE
  /\ outcome = "ok" /\ undoFailed = FALSE /\ result = "crashed"
  /\ littered = FALSE /\ raced = {}

CommandParked ==
  /\ command = "query" /\ arguments = [r \in {"index"} |-> NoPath]
  /\ entry = <<>> /\ content = <<>> /\ todo = <<>> /\ verdict = "parked" /\ before = <<>>

OptionsParked ==
  /\ handler = "none" /\ index = 0 /\ parsed = <<>> /\ request = Refused

BatchParked ==
  /\ case = <<>>
  /\ step = "parked" /\ position = 0 /\ queries = <<>> /\ aggregate = "none"
  /\ sums = [wand |-> <<>>, sharded |-> <<>>]

CommandLineInit ==
  \/ Init /\ CommandParked /\ OptionsParked /\ BatchParked
  \/ TransactionParked /\ CommandInit /\ OptionsParked /\ BatchParked
  \/ TransactionParked /\ CommandParked /\ OptionsInit /\ BatchParked
  \/ TransactionParked /\ CommandParked /\ OptionsParked /\ BatchInit

CommandLineNext ==
  \/ Next /\ UNCHANGED <<commandVars, optionVars, batchVars>>
  \/ CommandNext /\ UNCHANGED <<vars, optionVars, batchVars>>
  \/ OptionsNext /\ UNCHANGED <<vars, commandVars, batchVars>>
  \/ BatchNext /\ UNCHANGED <<vars, commandVars, optionVars>>

commandLineVars == <<vars, commandVars, optionVars, batchVars>>

CommandLineSpec == CommandLineInit /\ [][CommandLineNext]_commandLineVars /\ WF_vars(Run)
=============================================================================
