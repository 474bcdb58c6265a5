---------------------------- MODULE MCPlaybackBus ----------------------------
(* TLC instances of PlaybackBus.  A tick stands for about 25 s: a long-poll   *)
(* lasts one, a delivery is retried and a device goes stale after two.        *)
EXTENDS PlaybackBus

CONSTANTS phone, pc, song, none, nothing

OnlyPhone == {phone}
OneSong == {song}
\* What a DJ agent posts, and a start of Todd's own.
AgentStarts == {[kind |-> "start", owner |-> FALSE]}
\* What a renderer reports: music playing.
Playing == {[playing |-> TRUE, item |-> song]}
NoReports == {}
=============================================================================
