------------------------------ MODULE Delivery ------------------------------
(***************************************************************************)
(* What the outbox, the topic and the consumer promise together about a    *)
(* job.submitted event, with no table, batch or offset: once its job is    *)
(* committed the event is owed to the scheduler, and its fate is sealed    *)
(* once: either a handler ran to its end, or it never will.  An event that *)
(* was given up on does not come back, and a delivered one is not forgotten*)
(* (it may be delivered again, which changes nothing here).                *)
(* JobSubmission implements it.                                            *)
(***************************************************************************)
CONSTANT Events

VARIABLE fate   \* what became of each event

Fates == {"absent", "owed", "done", "lost"}

DeliveryInit == fate = [e \in Events |-> "absent"]

Seal(e, from, to) == fate[e] = from /\ fate' = [fate EXCEPT ![e] = to]

Owe(e)     == Seal(e, "absent", "owed")
Deliver(e) == Seal(e, "owed", "done")
Lose(e)    == Seal(e, "owed", "lost")

DeliveryNext == \E e \in Events : Owe(e) \/ Deliver(e) \/ Lose(e)

DeliverySpec == DeliveryInit /\ [][DeliveryNext]_fate
=============================================================================
