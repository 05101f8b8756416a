---------------------------- MODULE RunPipeline ----------------------------
(***************************************************************************)
(* One run after another of runRepoContract (src/run-repo-contract.ts):    *)
(* checks run, their outputs are parsed (buildEvidence), their policies    *)
(* judge (runPolicies), and the caller gets a verdict or an error.  How    *)
(* checks are scheduled is RunChecks' concern; here each of them produces  *)
(* its evidence at any time, or its worker throws.                         *)
(*                                                                         *)
(* The entries of a run are in declaration order, and `stage`, `results`   *)
(* and the verdict are arrays over their positions, as in the code.        *)
(***************************************************************************)
EXTENDS Naturals, Sequences, FiniteSets

CONSTANTS
  N,                        \* the number of configured checks, in declaration order
  MaxRuns                   \* a bound on the number of runs

Checks == 1 .. N

ASSUME PipelineAssumption == N \in Nat \ {0} /\ MaxRuns \in Nat

VARIABLES
  run,                      \* the number of runs begun
  entries,                  \* the checks of the current run, in declaration order
  graph,                    \* the run has edges, so that the graph scheduler runs it
  phase,                    \* where the current run is
  stage,                    \* how far the check at each position has come
  results,                  \* checkResults of runPolicies: <<check, outcome>> or Hole
  thrown,                   \* the checks whose policies failed, in that order
  answer,                   \* the promise: "none", "resolved" or "rejected"
  passed,                   \* verdict.passed, once resolved
  strays                    \* <<run, check>>: workers in flight when their run was rejected

vars == <<run, entries, graph, phase, stage, results, thrown, answer, passed, strays>>

(* A position of checkResults not assigned yet. *)
Hole == <<0, "none">>

Positions == DOMAIN entries
Entries   == {entries[k] : k \in Positions}

Init ==
  /\ run = 0
  /\ entries = <<>>
  /\ graph = FALSE
  /\ phase = "over"
  /\ stage = <<>>
  /\ results = <<>>
  /\ thrown = <<>>
  /\ answer = "none"
  /\ passed = FALSE
  /\ strays = {}

(* A run of some of the checks, or of none; the caller awaits the one before. *)
Ascending == {q \in UNION {[1 .. n -> Checks] : n \in 0 .. N} :
                \A x, y \in DOMAIN q : x < y => q[x] < q[y]}

BeginRun ==
  /\ phase = "over"
  /\ run < MaxRuns
  /\ run' = run + 1
  /\ entries' \in Ascending
  /\ graph' \in BOOLEAN
  /\ phase' = "running"
  /\ stage' = [k \in DOMAIN entries' |-> "running"]
  /\ results' = [k \in DOMAIN entries' |-> Hole]
  /\ thrown' = <<>>
  /\ answer' = "none"
  /\ passed' = FALSE
  /\ UNCHANGED strays

Finish(how, verdict) ==
  /\ phase' = "over"
  /\ answer' = how
  /\ passed' = verdict

----------------------------------------------------------------------------
(* The worker of a check resolves, and onEvidence is told. *)
EvidenceArrives(k) ==
  /\ phase = "running"
  /\ stage[k] = "running"
  /\ stage' = [stage EXCEPT ![k] = "evident"]
  /\ UNCHANGED <<run, entries, graph, phase, results, thrown, answer, passed, strays>>

(* The worker of a check throws: checks not launched yet never will be. *)
WorkerThrows(k) ==
  /\ phase = "running"
  /\ stage[k] = "running"
  /\ \E dropped \in SUBSET {j \in Positions \ {k} : stage[j] = "running"} :
       stage' = [j \in Positions |-> IF j = k THEN "threw"
                                     ELSE IF j \in dropped THEN "dropped" ELSE stage[j]]
  /\ UNCHANGED <<run, entries, graph, phase, results, thrown, answer, passed, strays>>

RunRejectsMutant ==
  /\ phase = "running"
  /\ \E k \in Positions : stage[k] = "threw"
  /\ graph \/ \A k \in Positions : stage[k] \in {"evident", "threw"}
  /\ Finish("rejected", FALSE)
  /\ strays' = strays \cup {<<run, entries[k]>> : k \in {j \in Positions : stage[j] = "running"}}
  /\ UNCHANGED <<run, entries, graph, stage, results, thrown>>

(* The graph scheduler rejects at once, the pool when no worker is left. *)
RunRejects ==
  /\ phase = "running"
  /\ \E k \in Positions : stage[k] = "threw"
  /\ graph \/ \A k \in Positions : stage[k] # "running"
  /\ Finish("rejected", FALSE)
  /\ strays' = strays \cup {<<run, entries[k]>> : k \in {j \in Positions : stage[j] = "running"}}
  /\ UNCHANGED <<run, entries, graph, stage, results, thrown>>

(* A worker left in flight by a run that was rejected resolves after all. *)
StrayEvidence(r, c) ==
  /\ <<r, c>> \in strays
  /\ strays' = strays \ {<<r, c>>}
  /\ stage' = IF r = run THEN [k \in Positions |-> IF entries[k] = c THEN "evident" ELSE stage[k]]
                         ELSE stage
  /\ UNCHANGED <<run, entries, graph, phase, results, thrown, answer, passed>>

EvidenceComplete ==
  /\ phase = "running"
  /\ \A k \in Positions : stage[k] = "evident"
  /\ phase' = "parsing"
  /\ UNCHANGED <<run, entries, graph, stage, results, thrown, answer, passed, strays>>

----------------------------------------------------------------------------
(* An output that does not parse, or that its schema rejects, is evidence  *)
(* too; only a schema that throws is "unparsed".                           *)
ParseEnds(k) ==
  /\ phase = "parsing"
  /\ stage[k] = "evident"
  /\ \E how \in {"parsed", "unparsed"} : stage' = [stage EXCEPT ![k] = how]
  /\ UNCHANGED <<run, entries, graph, phase, results, thrown, answer, passed, strays>>

Failed == {entries[k] : k \in {j \in Positions : stage[j] = "unparsed"}}

ParsingFailsMutant ==
  /\ phase = "parsing"
  /\ \E k \in Positions : stage[k] = "unparsed"
  /\ Finish("rejected", FALSE)
  /\ UNCHANGED <<run, entries, graph, stage, results, thrown, strays>>

(* Promise.allSettled: every parse has ended before a failure is reported. *)
ParsingFails ==
  /\ phase = "parsing"
  /\ \A k \in Positions : stage[k] # "evident"
  /\ Failed # {}
  /\ Finish("rejected", FALSE)
  /\ UNCHANGED <<run, entries, graph, stage, results, thrown, strays>>

(* The evidence is assembled, and every policy is called. *)
EvidenceBuilt ==
  /\ phase = "parsing"
  /\ \A k \in Positions : stage[k] = "parsed"
  /\ phase' = "judging"
  /\ UNCHANGED <<run, entries, graph, stage, results, thrown, answer, passed, strays>>

----------------------------------------------------------------------------
Outcomes == {"pass", "warn", "fail"}

PolicyReturnsMutant(k, o) ==
  /\ phase = "judging"
  /\ stage[k] = "parsed"
  /\ stage' = [stage EXCEPT ![k] = o]
  /\ results' = [results EXCEPT ![1 + Cardinality({j \in Positions : results[j] # Hole})] = <<entries[k], o>>]
  /\ UNCHANGED <<run, entries, graph, phase, thrown, answer, passed, strays>>

(* A policy settles with a valid result, which is stored by position, and  *)
(* onVerdict is told.                                                      *)
PolicyReturns(k, o) ==
  /\ phase = "judging"
  /\ stage[k] = "parsed"
  /\ stage' = [stage EXCEPT ![k] = o]
  /\ results' = [results EXCEPT ![k] = <<entries[k], o>>]
  /\ UNCHANGED <<run, entries, graph, phase, thrown, answer, passed, strays>>

(* It throws, rejects, or returns something that is no PolicyResult. *)
PolicyThrows(k) ==
  /\ phase = "judging"
  /\ stage[k] = "parsed"
  /\ stage' = [stage EXCEPT ![k] = "threw"]
  /\ thrown' = Append(thrown, entries[k])
  /\ UNCHANGED <<run, entries, graph, phase, results, answer, passed, strays>>

(* Promise.all over the policies, none of whose promises rejects. *)
PoliciesDone ==
  /\ phase = "judging"
  /\ \A k \in Positions : stage[k] # "parsed"
  /\ IF thrown # <<>> THEN Finish("rejected", FALSE)
     ELSE Finish("resolved", \A k \in Positions : results[k][2] # "fail")
  /\ UNCHANGED <<run, entries, graph, stage, results, thrown, strays>>

Next ==
  \/ BeginRun
  \/ RunRejects
  \/ EvidenceComplete
  \/ ParsingFails
  \/ EvidenceBuilt
  \/ PoliciesDone
  \/ \E k \in Positions :
       \/ EvidenceArrives(k)
       \/ WorkerThrows(k)
       \/ ParseEnds(k)
       \/ \E o \in Outcomes : PolicyReturns(k, o)
       \/ PolicyThrows(k)
  \/ \E r \in 1 .. MaxRuns, c \in Checks : StrayEvidence(r, c)

Spec == Init /\ [][Next]_vars
=============================================================================
