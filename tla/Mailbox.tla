------------------------------- MODULE Mailbox -------------------------------
(***************************************************************************)
(* What the playback bus promises, without devices, threads or time: a box *)
(* of numbered commands.  Each waits, is offered, perhaps more than once,  *)
(* and is settled; the box may drop any of them.  One command at a time is *)
(* in hand: picked and about to be offered.  While Todd's stop holds, no   *)
(* start is picked and every new one is settled at once.                   *)
(***************************************************************************)
EXTENDS Naturals

VARIABLES
  last,     \* the last number given to a command
  box,      \* the commands the box knows
  hand,     \* the number of the command in hand, 0 for none
  handed,   \* it is a start
  stopped,
  slipped   \* starts offered since the stop

vars == <<last, box, hand, handed, stopped, slipped>>

Open == {"waiting", "offered"}
Command == [id : Nat, stage : Open \cup {"settled"}, start : BOOLEAN]

Numbered(cmds) == \A c, e \in cmds : c.id = e.id => c = e

TypeOK ==
  /\ last \in Nat /\ hand \in 0 .. last
  /\ box \subseteq Command /\ Numbered(box) /\ \A c \in box : c.id \in 1 .. last
  /\ handed \in BOOLEAN /\ stopped \in BOOLEAN /\ slipped \in Nat

Init ==
  /\ last = 0 /\ box = {} /\ hand = 0 /\ handed = FALSE
  /\ stopped = FALSE /\ slipped = 0

Settled(c) == [c EXCEPT !.stage = "settled"]
Offered(c) == [c EXCEPT !.stage = "offered"]
OpenIn(cmds) == {c \in cmds : c.stage \in Open}
Refused(c) == stopped /\ c.start

\* One command may be posted; any are settled, and any are dropped.
Posted(c) == /\ c.id = last' /\ last' = last + 1
             /\ c.stage = "settled" \/ (c.stage = "waiting" /\ ~Refused(c))

Work ==
  /\ UNCHANGED <<hand, handed, stopped, slipped>>
  /\ last' \in {last, last + 1}
  /\ \A c \in box' : \/ c \in box
                     \/ c.stage = "settled" /\ \E e \in OpenIn(box) : c = Settled(e)
                     \/ Posted(c)
  /\ Numbered(box')

\* A command is picked; starts passed over while stopped are settled.
Pick ==
  /\ hand = 0 /\ hand' # 0
  /\ UNCHANGED <<last, stopped, slipped>>
  /\ \E c \in OpenIn(box) :
       /\ c.id = hand' /\ ~Refused(c)
       /\ handed' = c.start
  /\ \E S \in SUBSET {c \in box : Refused(c)} :
       box' = (box \ S) \cup {Settled(c) : c \in S}

\* It is offered, settled meanwhile or not, unless it was dropped.
Offer ==
  /\ hand # 0
  /\ hand' = 0 /\ handed' = FALSE
  /\ slipped' = IF stopped /\ handed THEN slipped + 1 ELSE slipped
  /\ UNCHANGED <<last, stopped>>
  /\ box' = {IF c.id = hand THEN Offered(c) ELSE c : c \in box}

Stop ==
  /\ stopped' = TRUE /\ slipped' = 0
  /\ UNCHANGED <<last, hand, handed, box>>

Lift ==
  /\ stopped /\ stopped' = FALSE
  /\ UNCHANGED <<last, hand, handed, slipped, box>>

\* The stop outlives the box.
Crash ==
  /\ hand' = 0 /\ handed' = FALSE
  /\ UNCHANGED <<last, stopped, slipped>>
  /\ box' = {}

Next == Work \/ Pick \/ Offer \/ Stop \/ Lift \/ Crash

Spec == Init /\ [][Next]_vars
=============================================================================
