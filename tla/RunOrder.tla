------------------------------ MODULE RunOrder ------------------------------
(***************************************************************************)
(* What the two bounded-parallelism primitives of src/execution promise    *)
(* their caller, whatever data structures they keep:                       *)
(*                                                                         *)
(*   - at most `limit` workers are in flight at once;                      *)
(*   - an item starts at most once, and only when everything it depends on *)
(*     has settled;                                                        *)
(*   - nothing starts after a worker rejected or after the promise         *)
(*     settled;                                                            *)
(*   - the promise resolves only when every item has settled, rejects only *)
(*     when a worker rejected, and reports a stall only when no unsettled  *)
(*     item could ever start.                                              *)
(*                                                                         *)
(* A step is described by what it may change, so that a primitive may      *)
(* settle one item and launch several others in one callback.              *)
(* DependencyScheduler and ConcurrencyPool implement this specification.   *)
(***************************************************************************)
EXTENDS Naturals, FiniteSets

CONSTANT Items              \* the items, one worker call each

VARIABLES
  deps,                     \* deps[i]: the items that must settle before i starts
  limit,                    \* the number of workers allowed in flight
  status,                   \* the worker call of each item
  outcome                   \* the promise returned to the caller

vars == <<deps, limit, status, outcome>>

Waiting  == {i \in Items : status[i] = "waiting"}
InFlight == {i \in Items : status[i] = "running"}
Settled  == {i \in Items : status[i] = "settled"}
Rejected == {i \in Items : status[i] = "rejected"}

Init ==
  /\ deps \in [Items -> SUBSET Items]
  /\ limit \in Nat \ {0}
  /\ status = [i \in Items |-> "waiting"]
  /\ outcome = "pending"

(* A worker call only moves forward. *)
Forward ==
  \A i \in Items :
    \/ status'[i] = status[i]
    \/ status[i] = "waiting" /\ status'[i] = "running"
    \/ status[i] = "running" /\ status'[i] \in {"settled", "rejected"}

(* What a step that starts workers must respect. *)
Starts ==
  LET started == Waiting \ Waiting'
  IN  /\ \A i \in started : deps[i] \subseteq Settled'
      /\ started # {} =>
           /\ outcome' = "pending"
           /\ Rejected' = {}
           /\ Cardinality(InFlight') <= limit

(* What a step that answers the caller must respect. *)
Answers ==
  outcome' # outcome =>
    /\ outcome = "pending"
    /\ \/ outcome' = "resolved" /\ Settled' = Items
       \/ outcome' = "rejected" /\ Rejected' # {}
       \/ /\ outcome' = "stalled"
          /\ InFlight' = {}
          /\ Waiting' # {}
          /\ \A i \in Waiting' : ~ (deps[i] \subseteq Settled')

Next ==
  /\ status' \in [Items -> {"waiting", "running", "settled", "rejected"}]
  /\ UNCHANGED <<deps, limit>>
  /\ Forward
  /\ Starts
  /\ Answers

Spec == Init /\ [][Next]_vars
=============================================================================
