--------------------------------- MODULE Handoff -------------------------------
(***************************************************************************)
(* What the batch writer promises to those who submit: the records it has  *)
(* accepted are delivered in the order of acceptance, each once, any       *)
(* number of them at a time, and while the writer is open none is left.    *)
(***************************************************************************)
EXTENDS Naturals, Sequences

CONSTANT Items

VARIABLES accepted, delivered, closed

handoffVars == <<accepted, delivered, closed>>

HandoffInit == accepted = <<>> /\ delivered = <<>> /\ closed = FALSE

Accept ==
  /\ \E r \in Items : /\ \A i \in DOMAIN accepted : accepted[i] # r
                      /\ accepted' = Append(accepted, r)
  /\ UNCHANGED <<delivered, closed>>

Deliver ==
  /\ \E n \in (Len(delivered) + 1)..Len(accepted) : delivered' = SubSeq(accepted, 1, n)
  /\ UNCHANGED <<accepted, closed>>

Close == ~closed /\ closed' = TRUE /\ UNCHANGED <<accepted, delivered>>

HandoffNext == Accept \/ Deliver \/ Close

HandoffSpec == HandoffInit /\ [][HandoffNext]_handoffVars

FairHandoffSpec == HandoffSpec /\ WF_handoffVars(~closed /\ Deliver)
===============================================================================
