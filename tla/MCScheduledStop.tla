--------------------------- MODULE MCScheduledStop ---------------------------
(* TLC instances of ScheduledStop.  A tick stands for about 20 s: the trim's  *)
(* answer and the verification are waited for one tick, a delivery two, and  *)
(* the second before a song's end or the five after it round to none and one.*)
EXTENDS ScheduledStop

BothModes == {"after_current", "fade"}
OnlyAfterCurrent == {"after_current"}
AllRequests == {"clear", "queue", "play"}
=============================================================================
