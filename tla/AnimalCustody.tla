---------------------------- MODULE AnimalCustody ----------------------------
(***************************************************************************)
(* What the worker handshake promises about the Animal, the wasm guest     *)
(* with its threads: it has one holder at a time, which is the only one    *)
(* who may destroy it, custody passes from the utility worker to the       *)
(* lifecycle worker at most once and never back, and the disposal promise  *)
(* resolves only when there is no Animal left.  One case is excepted, as   *)
(* the code excepts it: a utility worker whose own cleanup fails before    *)
(* the Animal changed hands.                                               *)
(***************************************************************************)

VARIABLES holder,  \* who may destroy the Animal, or what became of it
          outcome  \* the disposal promise

Holders == {"nobody", "utility", "lifecycle", "gone", "lost", "abandoned"}
Outcomes == {"pending", "resolved", "rejected"}

TypeOK == holder \in Holders /\ outcome \in Outcomes

Init == holder = "nobody" /\ outcome = "pending"

Open == outcome = "pending"

Create == /\ Open /\ holder = "nobody"
          /\ holder' = "utility"
          /\ UNCHANGED outcome

HandOver == /\ Open /\ holder = "utility"
            /\ holder' = "lifecycle"
            /\ UNCHANGED outcome

\* A destroyer that rejects leaves an Animal nobody can account for.
Destroy == /\ Open /\ holder \in {"utility", "lifecycle"}
           /\ holder' \in {"gone", "lost"}
           /\ UNCHANGED outcome

\* The utility worker could not destroy the Animal it still held.
Abandon == /\ Open /\ holder = "utility"
           /\ holder' = "abandoned"
           /\ UNCHANGED outcome

ReportClean == /\ Open /\ holder \in {"nobody", "gone", "abandoned"}
               /\ outcome' = "resolved"
               /\ UNCHANGED holder

ReportFailure == /\ Open
                 /\ outcome' = "rejected"
                 /\ UNCHANGED holder

Next == Create \/ HandOver \/ Destroy \/ Abandon \/ ReportClean \/ ReportFailure

Spec == Init /\ [][Next]_<<holder, outcome>>
=============================================================================
