----------------------------- MODULE MCRenderers -----------------------------
(* TLC instances of Renderers. *)
EXTENDS Renderers

CONSTANTS phone, pc, song, none, nothing

OnlyPhone == {phone}
PhoneAndPc == {phone, pc}
Nobody == {}
OneSong == {song}
AgentStarts == {[kind |-> "start", owner |-> FALSE]}
NoPosts == {}
NoReports == {}
\* Where two devices may play, nothing is left for NoDuet to say.
NotCrossed == ~crossed

Remember1 == [d \in Devices |-> 1]
Remember2 == [d \in Devices |-> 2]
=============================================================================
