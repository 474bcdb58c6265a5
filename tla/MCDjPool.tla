------------------------------ MODULE MCDjPool ------------------------------
(* The TLC instance of DjPool: two lanes, of two songs and of one, a queue   *)
(* two songs deep sent in commands of one, and a cue on the first song.      *)
EXTENDS DjPool

CONSTANTS a1, a2, b1, b2, song

FourTracks == {a1, a2, b1, song}
TwoLanes == 1 .. 2
TwoAndOne == <<{a1, a2}, {b1}>>
JustB == {b1}
OneCue == {[when |-> "track_end", of |-> song, play |-> b1]}

\* Enough songs for a second top-up, and no cue.
FiveTracks == {a1, a2, b1, b2, song}
TwoEach == <<{a1, a2}, {b1, b2}>>
NoCues == {}

\* Which song of a lane is picked makes no difference.
WithinLane == Permutations({a1, a2})
=============================================================================
