-------------------------- MODULE ChildTransaction --------------------------
(***************************************************************************)
(* What the child process bridge promises about the file system the child  *)
(* shares with everybody else: a child runs in a transaction.  Between its *)
(* beginning and its end only the child writes, and the end either keeps   *)
(* all it wrote or puts back exactly what was there before.                *)
(***************************************************************************)
EXTENDS Naturals
CONSTANTS Paths, Contents

VARIABLES disk,     \* what each path holds
          owner,    \* the transaction under way, 0 when there is none
          before,   \* what the disk held when it began; the disk itself outside
          last,     \* the newest transaction that began
          kept      \* the transactions that committed

TransactionInit == /\ disk \in [Paths -> Contents] /\ before = disk
                   /\ owner = 0 /\ last = 0 /\ kept = {}

Begin == /\ owner = 0 /\ owner' = last + 1 /\ last' = owner'
         /\ before' = disk /\ UNCHANGED <<disk, kept>>

Write == /\ owner # 0 /\ disk' \in [Paths -> Contents]
         /\ UNCHANGED <<owner, before, last, kept>>

Commit == /\ owner # 0 /\ owner' = 0 /\ before' = disk /\ kept' = kept \cup {owner}
          /\ UNCHANGED <<disk, last>>

Rollback == /\ owner # 0 /\ owner' = 0 /\ disk' = before
            /\ UNCHANGED <<before, last, kept>>

\* Somebody else writes: never during a transaction.
Replace == /\ owner = 0 /\ disk' \in [Paths -> Contents] /\ before' = disk'
           /\ UNCHANGED <<owner, last, kept>>

TransactionNext == Begin \/ Write \/ Commit \/ Rollback \/ Replace

TransactionSpec ==
  TransactionInit /\ [][TransactionNext]_<<disk, owner, before, last, kept>>
=============================================================================
