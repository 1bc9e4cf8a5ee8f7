---------------------------- MODULE GenerationSlot ----------------------------
(***************************************************************************)
(* What RuntimeSupervisor promises about the generations of the runtime:   *)
(* there is one slot; a generation takes it once, when nobody holds it and *)
(* nobody uses the resources of an earlier one; it returns the slot with   *)
(* everything it used, or closes it for the rest of the page's life.       *)
(***************************************************************************)
CONSTANTS Gens, Nobody

VARIABLES owner,  \* the generation in the slot, or Nobody
          busy,   \* generations that hold resources
          used,   \* generations that have been in the slot
          closed  \* is a reload required?

Init == owner = Nobody /\ busy = {} /\ used = {} /\ closed = FALSE

Take(g) ==
  /\ ~ closed /\ owner = Nobody /\ busy = {} /\ g \notin used
  /\ owner' = g /\ busy' = {g} /\ used' = used \cup {g}
  /\ UNCHANGED closed

Return ==
  /\ ~ closed /\ owner # Nobody
  /\ owner' = Nobody /\ busy' = {}
  /\ UNCHANGED <<used, closed>>

Close ==
  /\ ~ closed /\ owner # Nobody
  /\ closed' = TRUE
  /\ UNCHANGED <<owner, busy, used>>

Next == (\E g \in Gens : Take(g)) \/ Return \/ Close

Spec == Init /\ [][Next]_<<owner, busy, used, closed>>
=============================================================================
