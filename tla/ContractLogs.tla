---------------------------- MODULE ContractLogs ----------------------------
(***************************************************************************)
(* The log store of src/helpers/contract-logs.ts: hooks called while runs  *)
(* go on change `written` at once and put the file operations on a queue,  *)
(* one promise chain, that works them off in the background.  Every run    *)
(* that logs to the same folder in the same mode shares one store.         *)
(*                                                                         *)
(* Operations of one store never overlap, so an operation is one step; one *)
(* that fails may have done a part of its work.                            *)
(***************************************************************************)
EXTENDS Naturals, Sequences, FiniteSets

CONSTANTS
  LogChecks,                \* the checks that may have a log
  Absent,                   \* no file
  Unknown                   \* a file's content that is no run's evidence

VARIABLES
  mode,                     \* "all", "failing" or "off"
  written,                  \* the checks `has` is true of
  reported,                 \* a problem has been reported since `begin`
  queue,                    \* the operations asked for and not yet done
  files                     \* the folder: Absent, or whose evidence under which verdict

vars == <<mode, written, reported, queue, files>>

(* A log holds the evidence of one run and, above it, at most one verdict. *)
Log(r, v) == [evidence |-> r, verdict |-> v]

Init ==
  /\ mode \in {"all", "failing", "off"}
  /\ written = {}
  /\ reported = FALSE
  /\ queue = <<>>
  /\ files \in [LogChecks -> {Absent, Log(Unknown, "none")}]

(* The queue after an operation was put on it. *)
Asked(op) == queue' = Append(queue, op)

BeginMutant ==
  /\ written' = {}
  /\ reported' = FALSE
  /\ UNCHANGED <<mode, files, queue>>

(* begin: the logs of an earlier run are to go. *)
Begin ==
  /\ written' = {}
  /\ reported' = FALSE
  /\ IF mode = "off" THEN UNCHANGED queue ELSE Asked([kind |-> "begin"])
  /\ UNCHANGED <<mode, files>>

SaveEvidenceMutant(c, r) ==
  /\ written' = written \cup {c}
  /\ IF mode = "off" THEN UNCHANGED queue
     ELSE Asked([kind |-> "save", check |-> c, run |-> r])
  /\ UNCHANGED <<mode, reported, files>>

(* saveEvidence of run r. *)
SaveEvidence(c, r) ==
  /\ IF mode = "off" THEN UNCHANGED <<written, queue>>
     ELSE /\ written' = written \cup {c}
          /\ Asked([kind |-> "save", check |-> c, run |-> r])
  /\ UNCHANGED <<mode, reported, files>>

PrependVerdictMutant(c, o) ==
  /\ IF c \notin written THEN UNCHANGED <<written, queue>>
     ELSE IF mode = "failing" /\ o = "pass"
          THEN UNCHANGED written /\ Asked([kind |-> "remove", check |-> c])
          ELSE UNCHANGED written /\ Asked([kind |-> "prepend", check |-> c, verdict |-> o])
  /\ UNCHANGED <<mode, reported, files>>

(* prependVerdict: the log of a check that passed may be removed instead.  *)
PrependVerdict(c, o) ==
  /\ IF c \notin written THEN UNCHANGED <<written, queue>>
     ELSE IF mode = "failing" /\ o = "pass"
          THEN written' = written \ {c} /\ Asked([kind |-> "remove", check |-> c])
          ELSE UNCHANGED written /\ Asked([kind |-> "prepend", check |-> c, verdict |-> o])
  /\ UNCHANGED <<mode, reported, files>>

----------------------------------------------------------------------------
Put(c, content) == files' = [files EXCEPT ![c] = content]

(* The first operation of the queue does its work.  A verdict replaces the *)
(* one above the evidence, which needs the file to be there.               *)
Does(op) ==
  \/ op.kind = "begin" /\ files' = [c \in LogChecks |-> Absent]
  \/ op.kind = "save" /\ Put(op.check, Log(op.run, "none"))
  \/ op.kind = "remove" /\ Put(op.check, Absent)
  \/ /\ op.kind = "prepend"
     /\ files[op.check] # Absent
     /\ Put(op.check, [files[op.check] EXCEPT !.verdict = op.verdict])

(* It fails: begin may have removed some logs, a write may have left the   *)
(* file cut off.                                                           *)
Fails(op) ==
  \/ op.kind = "begin" /\ \E gone \in SUBSET LogChecks :
       files' = [c \in LogChecks |-> IF c \in gone THEN Absent ELSE files[c]]
  \/ op.kind # "begin" /\ UNCHANGED files
  \/ /\ op.kind \in {"save", "prepend"}
     /\ op.kind = "prepend" => files[op.check] # Absent
     /\ Put(op.check, Log(Unknown, "none"))

OperationDone ==
  /\ queue # <<>>
  /\ Does(Head(queue))
  /\ queue' = Tail(queue)
  /\ UNCHANGED <<mode, written, reported>>

(* The catch at the end of the chain: the operations after it still run,   *)
(* and only the first problem since begin is told.                         *)
OperationFailed ==
  /\ queue # <<>>
  /\ Fails(Head(queue))
  /\ reported' = TRUE
  /\ queue' = Tail(queue)
  /\ UNCHANGED <<mode, written>>

Work == OperationDone \/ OperationFailed
=============================================================================
