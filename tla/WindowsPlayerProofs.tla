-------------------------- MODULE WindowsPlayerProofs --------------------------
(* The Windows player's queue moves on once for every end, a pause leaves      *)
(* nothing sounding and only the last sleep timer touches the volume, for any  *)
(* number of items, media and timers.                                          *)
EXTENDS WindowsPlayer, SequenceTheorems, TLAPS

-----------------------------------------------------------------------------
(* The player: its media, its flags and the threads its events started *)

\* A paused handoff, and a pause, have no song fading out beside them.
Alone == st.paused \/ st.hold => old = 0

MInv == PlayerOK /\ OneEndOneAdvance /\ Alone

player == <<gen, st, vlc, handlers, overlap>>

\* The thread that an event starts carries the generation it read.
LEMMA CallbackType ==
  ASSUME PlayerOK, NEW g \in {gen, gen + 1}, NEW h \in Callback(g)
  PROVE  /\ h \in Handler /\ h.gen = g /\ h.of = vlc.media /\ vlc.raised
         /\ h.late <=> g # gen
<1>1. /\ vlc.raised /\ vlc.media \in Nat /\ gen \in Nat /\ g \in Nat
      /\ h = [kind |-> IF vlc.state = "ended" THEN "end" ELSE "error", gen |-> g,
              of |-> vlc.media, late |-> g # gen]
  BY PlayerAssumption DEF PlayerOK, Callback
<1> QED
  BY <1>1 DEF Handler

\* Once the media has changed, an end that waits to be handled is of the past,
\* or its callback ran late.
LEMMA HandlersAfterBump ==
  ASSUME MInv, NEW hs \in SUBSET handlers, Bump,
         \E g \in {gen, gen + 1} : handlers' = hs \cup Callback(g)
  PROVE  /\ gen' \in 0..MaxStarts /\ gen' = gen + 1 /\ gen \in Nat
         /\ handlers' \subseteq Handler
         /\ \A h \in handlers' : h.gen <= gen'
         /\ \A h \in handlers' : h.gen = gen' => h.late
<1>1. gen \in Nat /\ gen' = gen + 1 /\ gen' \in 0..MaxStarts
  BY PlayerAssumption DEF Bump, MInv, PlayerOK
<1>2. PICK g \in {gen, gen + 1} : handlers' = hs \cup Callback(g)
  OBVIOUS
<1>3. \A h \in hs : h \in Handler /\ h.gen \in Nat /\ h.gen <= gen
  BY DEF MInv, PlayerOK, Handler
<1>4. \A h \in Callback(g) : h \in Handler /\ h.gen = g /\ (h.late <=> g # gen)
  BY CallbackType DEF MInv
<1>5. g # gen <=> g = gen'
  BY <1>1
<1> QED
  BY <1>1, <1>2, <1>3, <1>4, <1>5

LEMMA KillType ==
  ASSUME PlayerOK, Kill
  PROVE  old' = 0 /\ xgen' \in Nat
BY DEF PlayerOK, Kill

LEMMA StartKeeps ==
  ASSUME MInv, NEW i, NEW hold \in BOOLEAN, NEW hs \in SUBSET handlers, Start(i, hold, hs)
  PROVE  MInv' /\ index' = i
<1>1. Load(i, hold) /\ Kill /\ Bump
  BY DEF Start, Load
<1>2. /\ gen' \in 0..MaxStarts /\ gen' = gen + 1 /\ gen \in Nat
      /\ handlers' \subseteq Handler
      /\ \A h \in handlers' : h.gen <= gen'
      /\ \A h \in handlers' : h.gen = gen' => h.late
  BY <1>1, HandlersAfterBump DEF Start
<1>3. old' = 0 /\ xgen' \in Nat
  BY <1>1, KillType DEF MInv
<1>4. /\ index' = i /\ st' = Flags(TRUE, FALSE, FALSE, hold)
      /\ vlc' = [media |-> gen', state |-> "opening", raised |-> FALSE]
  BY <1>1 DEF Load
<1>5. PlayerOK'
  BY <1>2, <1>3, <1>4 DEF PlayerOK, Flags
<1> QED
  BY <1>2, <1>3, <1>4, <1>5 DEF MInv, OneEndOneAdvance, Alone

LEMMA StopKeeps ==
  ASSUME MInv, NEW hs \in SUBSET handlers, StopPlayer(hs)
  PROVE  MInv'
<1>1. Kill /\ Bump
  BY DEF StopPlayer
<1>2. /\ gen' \in 0..MaxStarts /\ gen' = gen + 1 /\ gen \in Nat
      /\ handlers' \subseteq Handler
      /\ \A h \in handlers' : h.gen <= gen'
      /\ \A h \in handlers' : h.gen = gen' => h.late
  BY <1>1, HandlersAfterBump DEF StopPlayer
<1>3. old' = 0 /\ xgen' \in Nat
  BY <1>1, KillType DEF MInv
<1>4. /\ st' = Flags(FALSE, FALSE, TRUE, st.hold) /\ st.hold \in BOOLEAN
      /\ vlc' = [media |-> vlc.media, state |-> "stopped", raised |-> FALSE]
      /\ vlc.media \in 0..gen'
  BY <1>2 DEF StopPlayer, MInv, PlayerOK
<1>5. PlayerOK'
  BY <1>2, <1>3, <1>4 DEF PlayerOK, Flags
<1> QED
  BY <1>2, <1>3, <1>4, <1>5 DEF MInv, OneEndOneAdvance, Alone

\* What VLC does of itself, or is told, to the media it has: a media that is over
\* stays over.
Vlc == [media : 0..gen, raised : BOOLEAN,
        state : {"stopped", "opening", "playing", "paused", "ended", "failed"}]

LEMMA VlcMoves ==
  ASSUME MInv, vlc' \in Vlc, vlc'.media = vlc.media, gen' = gen, overlap' = overlap,
         vlc.state \in {"ended", "failed"} => vlc'.state = vlc.state,
         vlc'.raised => vlc'.state \in {"ended", "failed"},
         st' \in [playing : BOOLEAN, paused : BOOLEAN, ended : BOOLEAN, hold : BOOLEAN],
         ~(st'.playing /\ (st'.paused \/ st'.ended)),
         st'.paused \/ st'.hold => st.paused \/ st.hold,
         handlers' \subseteq Handler,
         \A h \in handlers' \ handlers :
           h.gen = gen /\ (h.kind # "playing" => h.of = vlc.media /\ vlc.raised)
  PROVE  MInv'
<1>1. PlayerOK'
  <2>1. \A h \in handlers' : h.gen <= gen
    BY PlayerAssumption DEF MInv, PlayerOK
  <2>2. gen \in 0..MaxStarts /\ old' \in 0..gen /\ xgen' \in Nat
    BY DEF MInv, PlayerOK, overlap
  <2> QED
    BY <2>1, <2>2 DEF PlayerOK, Vlc
<1>2. OneEndOneAdvance'
  <2> SUFFICES ASSUME NEW h \in handlers', h.kind # "playing", h.gen = gen, ~h.late
               PROVE  h.of = vlc.media /\ vlc'.state \in {"ended", "failed"}
    BY DEF OneEndOneAdvance
  <2>1. CASE h \in handlers
    BY <2>1 DEF MInv, OneEndOneAdvance
  <2>2. CASE h \notin handlers
    BY <2>2 DEF MInv, PlayerOK
  <2> QED
    BY <2>1, <2>2
<1>3. Alone'
  BY DEF MInv, Alone, overlap
<1> QED
  BY <1>1, <1>2, <1>3 DEF MInv

LEMMA StaySame ==
  ASSUME MInv, UNCHANGED player
  PROVE  MInv'
BY DEF MInv, PlayerOK, OneEndOneAdvance, Alone, player, overlap

LEMMA VlcPausesKeeps ==
  ASSUME PlayerOK, VlcPauses
  PROVE  /\ vlc' \in Vlc /\ vlc'.media = vlc.media /\ vlc'.raised = vlc.raised
         /\ vlc.state \in {"ended", "failed"} => vlc'.state = vlc.state
BY DEF PlayerOK, VlcPauses, Vlc

LEMMA BeganType ==
  ASSUME PlayerOK
  PROVE  Began \in Handler /\ Began.gen = gen /\ Began.kind = "playing"
BY PlayerAssumption DEF PlayerOK, Began, Handler

LEMMA PausesKeeps ==
  ASSUME MInv, Pauses
  PROVE  MInv' /\ index' = index
<1>1. CASE index = 0 \/ st.ended
  BY <1>1, StaySame DEF Pauses, Stay, player
<1>2. CASE ~(index = 0 \/ st.ended)
  <2>1. /\ Kill /\ VlcPauses /\ st' = [st EXCEPT !.playing = FALSE, !.paused = TRUE]
        /\ index' = index /\ gen' = gen /\ handlers' = handlers /\ runners' = runners
    BY <1>2 DEF Pauses
  <2>2. old' = 0 /\ xgen' \in Nat
    BY <2>1, KillType DEF MInv
  <2>3. vlc' \in Vlc /\ vlc'.media = vlc.media /\ vlc'.raised = vlc.raised
        /\ (vlc.state \in {"ended", "failed"} => vlc'.state = vlc.state)
    BY <2>1, VlcPausesKeeps DEF MInv
  <2>4. PlayerOK'
    <3>1. PlayerOK /\ gen \in 0..MaxStarts
      BY DEF MInv, PlayerOK
    <3>2. /\ st' \in [playing : BOOLEAN, paused : BOOLEAN, ended : BOOLEAN, hold : BOOLEAN]
          /\ ~(st'.playing /\ (st'.paused \/ st'.ended))
      BY <2>1, <3>1 DEF PlayerOK
    <3>3. /\ vlc' \in Vlc /\ (vlc'.raised => vlc'.state \in {"ended", "failed"})
          /\ handlers' \subseteq Handler /\ (\A h \in handlers' : h.gen <= gen)
      BY <2>1, <2>3, <3>1 DEF PlayerOK
    <3>4. old' \in 0..gen
      BY <2>2, <3>1, PlayerAssumption
    <3> QED
      BY <2>1, <2>2, <3>1, <3>2, <3>3, <3>4 DEF PlayerOK, Vlc
  <2>5. OneEndOneAdvance' /\ Alone'
    BY <2>1, <2>2, <2>3 DEF MInv, OneEndOneAdvance, Alone
  <2> QED
    BY <2>1, <2>4, <2>5 DEF MInv
<1> QED
  BY <1>1, <1>2

LEMMA ResumeKeeps ==
  ASSUME MInv, Resume
  PROVE  MInv' /\ index' = index
<1>1. CASE st.ended
  BY <1>1, StartKeeps DEF Resume
<1>2. CASE ~st.ended
  <2>1. /\ st' = [st EXCEPT !.playing = TRUE, !.paused = FALSE]
        /\ vlc' = [vlc EXCEPT !.state = IF @ = "paused" THEN "playing" ELSE @]
        /\ handlers' = handlers \cup IF vlc.state = "paused" THEN {Began} ELSE {}
        /\ index' = index /\ gen' = gen /\ overlap' = overlap
    BY <1>2 DEF Resume
  <2>2. PlayerOK
    BY DEF MInv
  <2>3. vlc' \in Vlc /\ vlc'.media = vlc.media /\ vlc'.raised = vlc.raised
        /\ (vlc.state \in {"ended", "failed"} => vlc'.state = vlc.state)
    BY <2>1, <2>2 DEF PlayerOK, Vlc
  <2>4. handlers' \subseteq Handler
        /\ \A h \in handlers' \ handlers : h.gen = gen /\ h.kind = "playing"
    BY <2>1, <2>2, BeganType DEF PlayerOK
  <2>5. /\ st' \in [playing : BOOLEAN, paused : BOOLEAN, ended : BOOLEAN, hold : BOOLEAN]
        /\ ~(st'.playing /\ (st'.paused \/ st'.ended))
        /\ st'.hold = st.hold /\ ~st'.paused
    BY <1>2, <2>1, <2>2 DEF PlayerOK
  <2>6. vlc'.raised => vlc'.state \in {"ended", "failed"}
    BY <2>2, <2>3 DEF PlayerOK
  <2> QED
    BY <2>1, <2>3, <2>4, <2>5, <2>6, VlcMoves
<1> QED
  BY <1>1, <1>2

LEMMA VlcPlaysKeeps ==
  ASSUME MInv, VlcPlays
  PROVE  MInv'
<1>1. /\ vlc.state = "opening" /\ vlc' = [vlc EXCEPT !.state = "playing"]
      /\ handlers' = handlers \cup {Began} /\ gen' = gen /\ st' = st /\ overlap' = overlap
  BY DEF VlcPlays
<1>2. PlayerOK
  BY DEF MInv
<1>3. vlc' \in Vlc /\ vlc'.media = vlc.media /\ ~vlc'.raised
  BY <1>1, <1>2 DEF PlayerOK, Vlc
<1>4. handlers' \subseteq Handler
      /\ \A h \in handlers' \ handlers : h.gen = gen /\ h.kind = "playing"
  BY <1>1, <1>2, BeganType DEF PlayerOK
<1>5. /\ st' \in [playing : BOOLEAN, paused : BOOLEAN, ended : BOOLEAN, hold : BOOLEAN]
      /\ ~(st'.playing /\ (st'.paused \/ st'.ended))
  BY <1>1, <1>2 DEF PlayerOK
<1> QED
  BY <1>1, <1>3, <1>4, <1>5, VlcMoves

LEMMA VlcEndsKeeps ==
  ASSUME MInv, VlcEnds
  PROVE  MInv'
<1>1. /\ vlc.state \in {"opening", "playing"}
      /\ \/ vlc' = [vlc EXCEPT !.state = "ended", !.raised = TRUE]
         \/ vlc' = [vlc EXCEPT !.state = "failed", !.raised = TRUE]
      /\ handlers' = handlers /\ gen' = gen /\ st' = st /\ overlap' = overlap
  BY DEF VlcEnds
<1>2. PlayerOK
  BY DEF MInv
<1>3. vlc' \in Vlc /\ vlc'.media = vlc.media /\ vlc'.state \in {"ended", "failed"}
  BY <1>1, <1>2 DEF PlayerOK, Vlc
<1>4. /\ st' \in [playing : BOOLEAN, paused : BOOLEAN, ended : BOOLEAN, hold : BOOLEAN]
      /\ ~(st'.playing /\ (st'.paused \/ st'.ended))
      /\ handlers' \subseteq Handler
  BY <1>1, <1>2 DEF PlayerOK
<1> QED
  BY <1>1, <1>3, <1>4, VlcMoves

LEMMA DispatchKeeps ==
  ASSUME MInv, Dispatch
  PROVE  MInv'
<1>1. /\ vlc.raised /\ vlc' = [vlc EXCEPT !.raised = FALSE]
      /\ handlers' = handlers \cup Callback(gen) /\ gen' = gen /\ st' = st /\ overlap' = overlap
  BY DEF Dispatch
<1>2. PlayerOK
  BY DEF MInv
<1>3. vlc' \in Vlc /\ vlc'.media = vlc.media /\ vlc'.state = vlc.state /\ ~vlc'.raised
  BY <1>1, <1>2 DEF PlayerOK, Vlc
<1>4. handlers' \subseteq Handler
      /\ \A h \in handlers' \ handlers : h.gen = gen /\ h.of = vlc.media /\ vlc.raised
  BY <1>1, <1>2, CallbackType DEF PlayerOK
<1>5. /\ st' \in [playing : BOOLEAN, paused : BOOLEAN, ended : BOOLEAN, hold : BOOLEAN]
      /\ ~(st'.playing /\ (st'.paused \/ st'.ended))
  BY <1>1, <1>2 DEF PlayerOK
<1> QED
  BY <1>1, <1>3, <1>4, <1>5, VlcMoves

\* A handler that finds another generation, or the end of the queue.
LEMMA HandlerLeaves ==
  ASSUME MInv, NEW h \in handlers, handlers' = handlers \ {h}, gen' = gen, vlc' = vlc,
         overlap' = overlap, st' = st \/ st' = Flags(FALSE, FALSE, TRUE, st.hold)
  PROVE  MInv'
<1>1. PlayerOK
  BY DEF MInv
<1>2. vlc' \in Vlc /\ (vlc'.raised => vlc'.state \in {"ended", "failed"})
  BY <1>1 DEF PlayerOK, Vlc
<1>3. /\ st' \in [playing : BOOLEAN, paused : BOOLEAN, ended : BOOLEAN, hold : BOOLEAN]
      /\ ~(st'.playing /\ (st'.paused \/ st'.ended))
      /\ (st'.paused \/ st'.hold => st.paused \/ st.hold)
  <2>1. CASE st' = st
    BY <1>1, <2>1 DEF PlayerOK
  <2>2. CASE st' = Flags(FALSE, FALSE, TRUE, st.hold)
    BY <1>1, <2>2 DEF PlayerOK, Flags
  <2> QED
    BY <2>1, <2>2
<1>4. handlers' \subseteq Handler
  BY <1>1 DEF PlayerOK
<1> QED
  BY <1>2, <1>3, <1>4, VlcMoves

LEMMA OnEndKeeps ==
  ASSUME MInv, NEW h \in handlers, OnEnd(h)
  PROVE  MInv' /\ (index' = index \/ (HasNext /\ index' = index + 1))
<1>1. CASE h.gen = gen /\ HasNext
  BY <1>1, StartKeeps DEF OnEnd
<1>2. CASE ~(h.gen = gen /\ HasNext)
  BY <1>2, HandlerLeaves DEF OnEnd
<1> QED
  BY <1>1, <1>2

LEMMA OnErrorKeeps ==
  ASSUME MInv, NEW h \in handlers, OnError(h)
  PROVE  MInv' /\ (index' = index \/ (HasNext /\ index' = index + 1))
<1>1. CASE h.gen = gen /\ HasNext
  BY <1>1, StartKeeps DEF OnError
<1>2. CASE h.gen = gen /\ ~HasNext
  BY <1>2, StopKeeps DEF OnError
<1>3. CASE h.gen # gen
  BY <1>3, HandlerLeaves DEF OnError
<1> QED
  BY <1>1, <1>2, <1>3

LEMMA OnPlayingKeeps ==
  ASSUME MInv, NEW h \in handlers, OnPlaying(h)
  PROVE  MInv'
<1>1. PlayerOK /\ gen' = gen /\ overlap' = overlap /\ handlers' = handlers \ {h}
  BY DEF MInv, OnPlaying
<1>2. CASE st.hold
  <2>1. VlcPauses /\ st' = [st EXCEPT !.hold = FALSE, !.playing = FALSE, !.paused = TRUE]
    BY <1>2 DEF OnPlaying
  <2>2. vlc' \in Vlc /\ vlc'.media = vlc.media /\ vlc'.raised = vlc.raised
        /\ (vlc.state \in {"ended", "failed"} => vlc'.state = vlc.state)
    BY <1>1, <2>1, VlcPausesKeeps
  <2>3. /\ st' \in [playing : BOOLEAN, paused : BOOLEAN, ended : BOOLEAN, hold : BOOLEAN]
        /\ ~st'.playing
    BY <1>1, <2>1 DEF PlayerOK
  <2>4. ~st'.playing /\ handlers' \subseteq Handler
        /\ (vlc'.raised => vlc'.state \in {"ended", "failed"})
    BY <1>1, <2>1, <2>2 DEF PlayerOK
  <2> QED
    BY <1>1, <1>2, <2>2, <2>3, <2>4, VlcMoves
<1>3. CASE ~st.hold
  <2>1. st' = [st EXCEPT !.playing = @ \/ (~st.paused /\ ~st.ended)] /\ vlc' = vlc
    BY <1>3 DEF OnPlaying
  <2>2. /\ st' \in [playing : BOOLEAN, paused : BOOLEAN, ended : BOOLEAN, hold : BOOLEAN]
        /\ ~(st'.playing /\ (st'.paused \/ st'.ended))
        /\ st'.paused = st.paused /\ st'.hold = st.hold
    BY <1>1, <2>1 DEF PlayerOK
  <2>3. vlc' \in Vlc /\ handlers' \subseteq Handler
        /\ (vlc'.raised => vlc'.state \in {"ended", "failed"})
    BY <1>1, <2>1 DEF PlayerOK, Vlc
  <2> QED
    BY <1>1, <2>1, <2>2, <2>3, VlcMoves
<1> QED
  BY <1>2, <1>3

LEMMA WatchKeeps ==
  ASSUME MInv, Watch
  PROVE  MInv' /\ (index' = index \/ (HasNext /\ index' = index + 1))
<1>1. CASE ~crossfade
  BY <1>1, StaySame DEF Watch, Stay, player
<1>2. CASE crossfade
  <2>1. /\ Load(index + 1, FALSE) /\ Bump /\ handlers' = handlers
        /\ old' = vlc.media /\ xgen' = xgen + 1 /\ HasNext
    BY <1>2 DEF Watch, FromTheOld, ShouldCrossfade, Load
  <2>2. gen' = gen + 1 /\ gen \in Nat /\ gen' \in 0..MaxStarts
    BY <2>1, PlayerAssumption DEF Bump, MInv, PlayerOK
  <2>3. /\ index' = index + 1 /\ st' = Flags(TRUE, FALSE, FALSE, FALSE)
        /\ vlc' = [media |-> gen', state |-> "opening", raised |-> FALSE]
    BY <2>1 DEF Load
  <2>4. /\ handlers' \subseteq Handler /\ \A h \in handlers' : h.gen \in Nat /\ h.gen <= gen
        /\ old' \in 0..gen' /\ xgen' \in Nat
    BY <2>1, <2>2 DEF MInv, PlayerOK, Handler
  <2>5. PlayerOK'
    BY <2>2, <2>3, <2>4 DEF PlayerOK, Flags
  <2>6. OneEndOneAdvance'
    BY <2>2, <2>4 DEF OneEndOneAdvance
  <2>7. Alone'
    BY <2>3 DEF Alone, Flags
  <2> QED
    BY <2>1, <2>3, <2>5, <2>6, <2>7 DEF MInv
<1> QED
  BY <1>1, <1>2

LEMMA LastStepKeeps ==
  ASSUME MInv, NEW g \in runners, LastStep(g)
  PROVE  MInv'
<1>1. /\ gen' = gen /\ st' = st /\ vlc' = vlc /\ handlers' = handlers
      /\ old' \in {0, old} /\ xgen' \in Nat
  BY DEF LastStep, Kill, MInv, PlayerOK
<1> QED
  BY <1>1 DEF MInv, PlayerOK, OneEndOneAdvance, Alone
-----------------------------------------------------------------------------
(* The queue and the current item *)

LEMMA ItemsAreSequences ==
  ASSUME NEW items \in Items
  PROVE  items \in Seq(Kinds) /\ Len(items) \in 0..MaxQueue /\ (items = <<>> <=> Len(items) = 0)
<1>1. PICK n \in 0..MaxQueue : items \in [1..n -> Kinds]
  BY DEF Items
<1>2. n \in Nat /\ items \in Seq(Kinds)
  BY <1>1, PlayerAssumption, SeqDef
<1>3. Len(items) = n
  BY <1>1, <1>2, LenProperties
<1> QED
  BY <1>1, <1>2, <1>3, EmptySeq

LEMMA InsertAtType ==
  ASSUME NEW s \in Seq(Kinds), NEW i \in 1..(Len(s) + 1), NEW e \in Kinds
  PROVE  InsertAt(s, i, e) \in Seq(Kinds) /\ Len(InsertAt(s, i, e)) = Len(s) + 1
<1> DEFINE a == SubSeq(s, 1, i - 1)
           b == SubSeq(s, i, Len(s))
<1>1. Len(s) \in Nat /\ \A k \in 1..Len(s) : s[k] \in Kinds
  BY LenProperties, ElementOfSeq
<1>2. a \in Seq(Kinds) /\ Len(a) = i - 1
  BY <1>1, SubSeqProperties
<1>3. b \in Seq(Kinds) /\ Len(b) = Len(s) - i + 1
  BY <1>1, SubSeqProperties
<1>4. <<e>> \in Seq(Kinds) /\ Len(<<e>>) = 1
  OBVIOUS
<1> HIDE DEF a, b
<1>5. a \o <<e>> \in Seq(Kinds) /\ Len(a \o <<e>>) = i
  BY <1>2, <1>4, ConcatProperties
<1>6. (a \o <<e>>) \o b \in Seq(Kinds) /\ Len((a \o <<e>>) \o b) = Len(s) + 1
  <2>1. /\ (a \o <<e>>) \o b \in Seq(Kinds)
        /\ Len((a \o <<e>>) \o b) = Len(a \o <<e>>) + Len(b)
    BY <1>3, <1>5, ConcatProperties
  <2>2. i + (Len(s) - i + 1) = Len(s) + 1
    BY <1>1
  <2> QED
    BY <2>1, <2>2, <1>3, <1>5
<1> QED
  BY <1>6 DEF InsertAt, a, b

LEMMA RemoveAtType ==
  ASSUME NEW s \in Seq(Kinds), NEW i \in 1..Len(s)
  PROVE  RemoveAt(s, i) \in Seq(Kinds) /\ Len(RemoveAt(s, i)) = Len(s) - 1
<1> DEFINE a == SubSeq(s, 1, i - 1)
           b == SubSeq(s, i + 1, Len(s))
<1>1. Len(s) \in Nat /\ \A k \in 1..Len(s) : s[k] \in Kinds
  BY LenProperties, ElementOfSeq
<1>2. a \in Seq(Kinds) /\ Len(a) = i - 1
  BY <1>1, SubSeqProperties
<1>3. b \in Seq(Kinds) /\ Len(b) = Len(s) - i
  BY <1>1, SubSeqProperties
<1> HIDE DEF a, b
<1>4. a \o b \in Seq(Kinds) /\ Len(a \o b) = Len(s) - 1
  <2>1. a \o b \in Seq(Kinds) /\ Len(a \o b) = Len(a) + Len(b)
    BY <1>2, <1>3, ConcatProperties
  <2>2. (i - 1) + (Len(s) - i) = Len(s) - 1
    BY <1>1
  <2> QED
    BY <2>1, <2>2, <1>2, <1>3
<1> QED
  BY <1>4 DEF RemoveAt, a, b

\* What a queue is, by its length.
LEMMA QueueByLength ==
  ASSUME NEW q \in Seq(Kinds), NEW i, q = queue', i = index', Len(q) <= MaxQueue,
         i \in 0..Len(q), i = 0 <=> Len(q) = 0
  PROVE  QueueOK'
BY EmptySeq DEF QueueOK

LEMMA QueueFacts ==
  ASSUME QueueOK
  PROVE  /\ queue \in Seq(Kinds) /\ Len(queue) \in 0..MaxQueue /\ index \in 0..Len(queue)
         /\ index = 0 <=> Len(queue) = 0
         /\ queue = <<>> <=> Len(queue) = 0
BY PlayerAssumption, LenProperties, EmptySeq DEF QueueOK

LEMMA SameQueue ==
  ASSUME QueueOK, queue' = queue, index' = index \/ (HasNext /\ index' = index + 1)
  PROVE  QueueOK'
BY QueueFacts, QueueByLength DEF HasNext

\* Both parts of the invariant that a command on the queue can disturb.
QInv == QueueOK /\ MInv

LEMMA PlayNowKeeps ==
  ASSUME QInv, NEW items \in Items, NEW paused \in BOOLEAN, PlayNow(items, paused)
  PROVE  QInv'
<1>1. items \in Seq(Kinds) /\ Len(items) \in 0..MaxQueue /\ (items = <<>> <=> Len(items) = 0)
  BY ItemsAreSequences
<1>2. CASE items = <<>>
  <2>1. MInv' /\ index' = 0 /\ queue' = items
    BY <1>2, StopKeeps DEF PlayNow, QInv
  <2>2. /\ queue' \in Seq(Kinds) /\ Len(queue') <= MaxQueue /\ Len(queue') = 0
        /\ index' \in 0..Len(queue')
    BY <1>1, <1>2, <2>1, PlayerAssumption
  <2> QED
    BY <2>1, <2>2, QueueByLength DEF QInv
<1>3. CASE items # <<>>
  <2>1. MInv' /\ index' = 1 /\ queue' = items
    BY <1>3, StartKeeps DEF PlayNow, QInv
  <2> QED
    BY <1>1, <1>3, <2>1, QueueByLength DEF QInv
<1> QED
  BY <1>2, <1>3

LEMMA EnqueueKeeps ==
  ASSUME QInv, NEW kind \in Kinds, Enqueue(kind)
  PROVE  QInv'
<1>1. /\ queue \in Seq(Kinds) /\ Len(queue) \in 0..MaxQueue /\ index \in 0..Len(queue)
      /\ index = 0 <=> Len(queue) = 0
      /\ queue = <<>> <=> Len(queue) = 0
  BY QueueFacts DEF QInv
<1>2. queue' \in Seq(Kinds) /\ Len(queue') = Len(queue) + 1 /\ Len(queue) < MaxQueue
  BY <1>1, AppendProperties DEF Enqueue
<1>3. CASE queue = <<>> \/ EndedAtTail
  <2>1. MInv' /\ index' = Len(queue')
    BY <1>3, StartKeeps DEF Enqueue, QInv
  <2> QED
    BY <1>1, <1>2, <2>1, QueueByLength, PlayerAssumption DEF QInv
<1>4. CASE ~(queue = <<>> \/ EndedAtTail)
  <2>1. MInv' /\ index' = index
    BY <1>4, StaySame DEF Enqueue, QInv, Stay, player
  <2> QED
    BY <1>1, <1>2, <1>4, <2>1, QueueByLength, PlayerAssumption DEF QInv
<1> QED
  BY <1>3, <1>4

LEMMA ReplaceUpcomingKeeps ==
  ASSUME QInv, NEW items \in Items, ReplaceUpcoming(items)
  PROVE  QInv'
<1>1. /\ queue \in Seq(Kinds) /\ Len(queue) \in 0..MaxQueue /\ index \in 0..Len(queue)
      /\ index = 0 <=> Len(queue) = 0
      /\ queue = <<>> <=> Len(queue) = 0
  BY QueueFacts DEF QInv
<1>2. items \in Seq(Kinds) /\ Len(items) \in 0..MaxQueue /\ (items = <<>> <=> Len(items) = 0)
  BY ItemsAreSequences
<1>3. queue' \in Seq(Kinds) /\ Len(queue') = index + Len(items) /\ index + Len(items) <= MaxQueue
  <2> DEFINE a == SubSeq(queue, 1, index)
  <2>1. \A k \in 1..index : queue[k] \in Kinds
    BY <1>1, ElementOfSeq
  <2>2. a \in Seq(Kinds) /\ Len(a) = index
    BY <1>1, <2>1, SubSeqProperties
  <2> HIDE DEF a
  <2>3. a \o items \in Seq(Kinds) /\ Len(a \o items) = index + Len(items)
    BY <1>2, <2>2, ConcatProperties
  <2> QED
    BY <2>3 DEF ReplaceUpcoming, a
<1>4. CASE items # <<>> /\ (queue = <<>> \/ EndedAtTail)
  <2>1. MInv' /\ index' = index + 1
    BY <1>4, StartKeeps DEF ReplaceUpcoming, QInv
  <2> QED
    BY <1>1, <1>2, <1>3, <1>4, <2>1, QueueByLength DEF QInv
<1>5. CASE ~(items # <<>> /\ (queue = <<>> \/ EndedAtTail))
  <2>1. MInv' /\ index' = index
    BY <1>5, StaySame DEF ReplaceUpcoming, QInv, Stay, player
  <2> QED
    BY <1>1, <1>2, <1>3, <1>5, <2>1, QueueByLength DEF QInv
<1> QED
  BY <1>4, <1>5

LEMMA InsertNextKeeps ==
  ASSUME QInv, NEW kind \in Kinds, NEW now \in BOOLEAN, InsertNext(kind, now)
  PROVE  QInv'
<1>1. /\ queue \in Seq(Kinds) /\ Len(queue) \in 0..MaxQueue /\ index \in 0..Len(queue)
      /\ index = 0 <=> Len(queue) = 0
      /\ queue = <<>> <=> Len(queue) = 0
  BY QueueFacts DEF QInv
<1>2. index + 1 \in 1..(Len(queue) + 1)
  BY <1>1
<1>3. queue' \in Seq(Kinds) /\ Len(queue') = Len(queue) + 1 /\ Len(queue) < MaxQueue
  BY <1>1, <1>2, InsertAtType DEF InsertNext
<1> DEFINE starts == queue = <<>> \/ (kind = "clip" /\ (now \/ EndedAtTail))
<1>4. CASE starts
  <2>1. MInv' /\ index' = index + 1
    BY <1>4, StartKeeps DEF InsertNext, QInv
  <2> QED
    BY <1>1, <1>3, <2>1, QueueByLength, PlayerAssumption DEF QInv
<1>5. CASE ~starts
  <2>1. MInv' /\ index' = index
    BY <1>5, StaySame DEF InsertNext, QInv, Stay, player
  <2> QED
    BY <1>1, <1>3, <1>5, <2>1, QueueByLength, PlayerAssumption DEF QInv
<1> QED
  BY <1>4, <1>5

LEMMA MoveKeeps ==
  ASSUME QInv, NEW from \in DOMAIN queue, NEW to \in DOMAIN queue, Move(from, to)
  PROVE  QInv'
<1>1. /\ queue \in Seq(Kinds) /\ Len(queue) \in 0..MaxQueue /\ index \in 0..Len(queue)
      /\ index = 0 <=> Len(queue) = 0
  BY QueueFacts DEF QInv
<1>2. from \in 1..Len(queue) /\ to \in 1..Len(queue) /\ queue[from] \in Kinds
  BY <1>1, LenProperties, ElementOfSeq
<1> DEFINE rest == RemoveAt(queue, from)
<1>3. rest \in Seq(Kinds) /\ Len(rest) = Len(queue) - 1
  BY <1>1, <1>2, RemoveAtType
<1> HIDE DEF rest
<1>4. to \in 1..(Len(rest) + 1)
  BY <1>1, <1>2, <1>3
<1>5. /\ InsertAt(rest, to, queue[from]) \in Seq(Kinds)
      /\ Len(InsertAt(rest, to, queue[from])) = Len(rest) + 1
  BY <1>2, <1>3, <1>4, InsertAtType
<1>6. queue' \in Seq(Kinds) /\ Len(queue') = Len(queue)
  BY <1>1, <1>3, <1>5 DEF Move, rest
<1>7. index' \in 1..Len(queue)
  BY <1>1, <1>2 DEF Move
<1>8. MInv'
  BY StaySame DEF Move, QInv, player, overlap
<1> QED
  BY <1>1, <1>6, <1>7, <1>8, QueueByLength DEF QInv

LEMMA SkipKeeps ==
  ASSUME QInv, Skip
  PROVE  QInv'
<1>1. CASE HasNext
  BY <1>1, StartKeeps, SameQueue DEF Skip, QInv
<1>2. CASE ~HasNext
  BY <1>2, StopKeeps, SameQueue DEF Skip, QInv
<1> QED
  BY <1>1, <1>2

LEMMA PreviousKeeps ==
  ASSUME QInv, Previous
  PROVE  QInv'
<1> DEFINE i == IF index = 1 THEN 1 ELSE index - 1
<1> HIDE DEF i
<1>1. /\ MInv /\ handlers \in SUBSET handlers /\ FALSE \in BOOLEAN
      /\ Start(i, FALSE, handlers) /\ queue' = queue /\ index # 0
  BY DEF Previous, QInv, i
<1>2. MInv' /\ index' = i
  BY ONLY <1>1, StartKeeps
<1> QED
  BY <1>1, <1>2, QueueFacts, QueueByLength DEF i, QInv
-----------------------------------------------------------------------------
(* The sleep timers *)

\* The last timer set is the one that the player holds, and every other one that
\* still runs has been cancelled.
Newest(t) == t \in Timers /\ pc[t] # "unset" /\ \A u \in Timers : pc[u] # "unset" => u <= t

Held ==
  /\ timer # 0 => Newest(timer) /\ timer \notin cancelled
  /\ \A t \in Timers : pc[t] \in {"waiting", "ramp", "hook"} /\ t \notin cancelled => timer = t
  /\ \A t \in cancelled : pc[t] # "unset"
  /\ \A t \in Timers : pc[t] # "unset" => \A u \in 1..(t - 1) : pc[u] # "unset"

SInv == TimersOK /\ FadeIsTheLastTimers /\ Held

LEMMA SleepSame ==
  ASSUME SInv, UNCHANGED sleep
  PROVE  SInv'
BY DEF SInv, TimersOK, FadeIsTheLastTimers, Held, Newest, sleep

LEMMA FadeCleared ==
  ASSUME SInv, fade' = "none", timer' = timer, cancelled' = cancelled, pc' = pc
  PROVE  SInv'
BY DEF SInv, TimersOK, FadeIsTheLastTimers, Held, Newest

LEMMA SetTimerKeeps ==
  ASSUME SInv, NEW t \in Timers, SetTimer(t)
  PROVE  SInv'
<1>1. /\ pc[t] = "unset" /\ (\A u \in 1..(t - 1) : pc[u] # "unset")
      /\ cancelled' = cancelled \cup ({timer} \ {0})
      /\ timer' = t /\ fade' = "none" /\ pc' = [pc EXCEPT ![t] = "waiting"]
  BY DEF SetTimer
<1>2. /\ timer \in 0..MaxTimers /\ cancelled \subseteq Timers /\ t \in Nat /\ t # 0
      /\ pc \in [Timers -> {"unset", "waiting", "ramp", "hook", "done"}]
      /\ Timers \subseteq Nat /\ MaxTimers \in Nat
  BY PlayerAssumption DEF SInv, TimersOK, Timers
<1>3. Held
  BY DEF SInv
<1>4. TimersOK'
  BY <1>1, <1>2 DEF TimersOK, Timers
<1>5. \A u \in Timers : pc[u] # "unset" => u < t
  <2> SUFFICES ASSUME NEW u \in Timers, pc[u] # "unset", ~(u < t)
               PROVE  FALSE
    OBVIOUS
  <2>1. u # t /\ u \in Nat
    BY <1>1, <1>2
  <2>2. t \in 1..(u - 1)
    BY <1>2, <2>1
  <2> QED
    BY <1>1, <1>3, <2>2 DEF Held
<1>6. /\ pc'[t] = "waiting"
      /\ \A u \in Timers : u # t => pc'[u] = pc[u]
      /\ \A u \in Timers : pc[u] # "unset" => pc'[u] # "unset"
  BY <1>1, <1>2
<1>7. \A u \in Timers : pc'[u] # "unset" => u <= t
  BY <1>2, <1>5, <1>6
<1>8. t \notin cancelled'
  BY <1>1, <1>3 DEF Held, Newest
<1>9. \A u \in Timers : pc'[u] \in {"waiting", "ramp", "hook"} /\ u \notin cancelled' => u = t
  <2> SUFFICES ASSUME NEW u \in Timers, pc'[u] \in {"waiting", "ramp", "hook"}, u \notin cancelled',
                      u # t
               PROVE  FALSE
    OBVIOUS
  <2>1. pc[u] \in {"waiting", "ramp", "hook"} /\ u \notin cancelled
    BY <1>1, <1>6
  <2>2. timer = u
    BY <1>3, <2>1 DEF Held
  <2>3. u # 0
    BY PlayerAssumption DEF Timers
  <2> QED
    BY <1>1, <2>2, <2>3
<1>10. \A u \in cancelled' : pc'[u] # "unset"
  BY <1>1, <1>2, <1>3, <1>6 DEF Held, Newest
<1>11. \A u \in Timers : pc'[u] # "unset" => \A v \in 1..(u - 1) : pc'[v] # "unset"
  <2> SUFFICES ASSUME NEW u \in Timers, pc'[u] # "unset", NEW v \in 1..(u - 1)
               PROVE  pc'[v] # "unset"
    OBVIOUS
  <2>1. v \in Timers
    BY <1>2 DEF Timers
  <2>2. CASE u = t
    BY <1>1, <1>6, <2>1, <2>2
  <2>3. CASE u # t
    BY <1>3, <1>6, <2>1, <2>3 DEF Held
  <2> QED
    BY <2>2, <2>3
<1>12. Held'
  BY <1>1, <1>6, <1>7, <1>8, <1>9, <1>10, <1>11 DEF Held, Newest
<1> QED
  BY <1>1, <1>4, <1>12 DEF SInv, FadeIsTheLastTimers

LEMMA CancelTimerKeeps ==
  ASSUME SInv, CancelTimer
  PROVE  SInv'
<1>1. /\ cancelled' = cancelled \cup ({timer} \ {0})
      /\ timer' = 0 /\ fade' = "none" /\ pc' = pc
  BY DEF CancelTimer
<1>2. TimersOK /\ Held
  BY DEF SInv
<1>3. TimersOK'
  BY <1>1, <1>2, PlayerAssumption DEF TimersOK, Timers
<1>4. \A t \in Timers : ~(pc[t] \in {"waiting", "ramp", "hook"} /\ t \notin cancelled')
  BY <1>1, <1>2, PlayerAssumption DEF Held, Timers
<1>5. \A t \in cancelled' : pc'[t] # "unset"
  BY <1>1, <1>2 DEF Held, Newest
<1>6. \A t \in Timers : pc'[t] # "unset" => \A u \in 1..(t - 1) : pc'[u] # "unset"
  BY <1>1, <1>2 DEF Held
<1>7. Held'
  BY <1>1, <1>4, <1>5, <1>6 DEF Held
<1> QED
  BY <1>1, <1>3, <1>7 DEF SInv, FadeIsTheLastTimers

\* A timer's thread moves on, never back to where it had not been set.
LEMMA ThreadMoves ==
  ASSUME SInv, NEW t \in Timers, pc[t] # "unset",
         NEW to \in {"ramp", "hook", "done"}, Goes(t, to), cancelled' = cancelled,
         to # "done" => timer' = timer /\ pc[t] \in {"waiting", "ramp", "hook"},
         to = "done" => \/ timer' = timer
                        \/ timer = t /\ timer' = 0,
         \/ fade' = fade
         \/ fade' \in {"down", "silent"} /\ t \notin cancelled /\ timer = t
  PROVE  SInv'
<1>1. /\ TimersOK /\ Held /\ FadeIsTheLastTimers
      /\ pc' = [pc EXCEPT ![t] = to]
      /\ pc \in [Timers -> {"unset", "waiting", "ramp", "hook", "done"}]
  BY DEF SInv, TimersOK, Goes
<1>2. /\ pc'[t] = to /\ \A u \in Timers : u # t => pc'[u] = pc[u]
      /\ \A u \in Timers : pc'[u] # "unset" <=> pc[u] # "unset"
      /\ pc' \in [Timers -> {"unset", "waiting", "ramp", "hook", "done"}]
  BY <1>1
<1>3. TimersOK'
  BY <1>1, <1>2, PlayerAssumption DEF TimersOK, Timers
<1>4. timer' # 0 => timer' = timer
  OBVIOUS
<1>5. timer' # 0 => Newest(timer)'
  BY <1>1, <1>2, <1>4 DEF Held, Newest
<1>6. timer' # 0 => timer' \notin cancelled'
  BY <1>1, <1>4 DEF Held
<1>7. \A u \in Timers : pc'[u] \in {"waiting", "ramp", "hook"} /\ u \notin cancelled' => timer' = u
  <2> SUFFICES ASSUME NEW u \in Timers, pc'[u] \in {"waiting", "ramp", "hook"}, u \notin cancelled
               PROVE  timer' = u
    OBVIOUS
  <2>1. timer = u
    BY <1>1, <1>2 DEF Held
  <2>2. CASE u = t
    BY <1>2, <2>1, <2>2
  <2>3. CASE u # t
    BY <2>1, <2>3
  <2> QED
    BY <2>2, <2>3
<1>8. \A u \in cancelled' : pc'[u] # "unset"
  BY <1>1, <1>2 DEF Held, TimersOK
<1>9. \A u \in Timers : pc'[u] # "unset" => \A v \in 1..(u - 1) : pc'[v] # "unset"
  <2> SUFFICES ASSUME NEW u \in Timers, pc'[u] # "unset", NEW v \in 1..(u - 1)
               PROVE  pc'[v] # "unset"
    OBVIOUS
  <2>1. v \in Timers
    BY PlayerAssumption DEF Timers
  <2> QED
    BY <1>1, <1>2, <2>1 DEF Held
<1>10. Held'
  BY <1>5, <1>6, <1>7, <1>8, <1>9, <1>4 DEF Held
<1>11. FadeIsTheLastTimers'
  <2> SUFFICES ASSUME fade' # "none"
               PROVE  \E w \in Timers \ cancelled :
                        /\ pc'[w] \in {"ramp", "hook", "done"}
                        /\ \A u \in Timers : pc[u] # "unset" => u <= w
    BY <1>2 DEF FadeIsTheLastTimers
  <2>1. CASE fade' = fade
    <3>1. PICK w \in Timers \ cancelled : /\ pc[w] \in {"ramp", "hook", "done"}
                                          /\ \A u \in Timers : pc[u] # "unset" => u <= w
      BY <1>1, <2>1 DEF FadeIsTheLastTimers
    <3>2. pc'[w] \in {"ramp", "hook", "done"}
      BY <1>2, <3>1
    <3> QED
      BY <3>1, <3>2
  <2>2. CASE fade' # fade
    <3>1. t \in Timers \ cancelled /\ timer = t /\ t # 0
      BY <2>2, PlayerAssumption DEF Timers
    <3>2. \A u \in Timers : pc[u] # "unset" => u <= t
      BY <1>1, <3>1 DEF Held, Newest
    <3> QED
      BY <1>2, <3>1, <3>2
  <2> QED
    BY <2>1, <2>2
<1> QED
  BY <1>3, <1>10, <1>11 DEF SInv

LEMMA TimerFiresKeeps ==
  ASSUME SInv, NEW t \in Timers, TimerFires(t)
  PROVE  SInv'
<1>1. /\ pc[t] = "waiting" /\ Goes(t, IF t \in cancelled THEN "done" ELSE "ramp")
      /\ fade' = fade /\ timer' = timer /\ cancelled' = cancelled
  BY DEF TimerFires, WokenEarly
<1>2. CASE t \in cancelled
  BY <1>1, <1>2, ThreadMoves
<1>3. CASE t \notin cancelled
  BY <1>1, <1>3, ThreadMoves
<1> QED
  BY <1>2, <1>3

LEMMA RampKeeps ==
  ASSUME SInv, NEW t \in Timers, NEW to \in {"down", "silent"}, Ramp(t, to)
  PROVE  SInv'
<1>1. pc[t] = "ramp" /\ timer' = timer /\ cancelled' = cancelled
  BY DEF Ramp
<1>2. CASE t \in cancelled
  <2>1. Goes(t, "done") /\ fade' = fade
    BY <1>2 DEF Ramp, Superseded
  <2> QED
    BY <1>1, <2>1, ThreadMoves
<1>3. CASE t \notin cancelled
  <2>1. fade' = to /\ Goes(t, IF to = "silent" THEN "hook" ELSE "ramp")
    BY <1>3 DEF Ramp, Superseded
  <2>2. timer = t
    BY <1>1, <1>3 DEF SInv, Held
  <2> QED
    BY <1>1, <1>3, <2>1, <2>2, ThreadMoves
<1> QED
  BY <1>2, <1>3

LEMMA SleepPauseKeeps ==
  ASSUME QInv, SInv, NEW t \in Timers, SleepPause(t)
  PROVE  QInv' /\ SInv'
<1>1. /\ pc[t] = "hook" /\ Goes(t, "done") /\ fade' = fade /\ cancelled' = cancelled
      /\ queue' = queue
  BY DEF SleepPause
<1>2. CASE t \in cancelled
  <2>1. timer' = timer /\ MInv' /\ index' = index
    BY <1>2, StaySame DEF SleepPause, Superseded, Stay, player, QInv
  <2> QED
    BY <1>1, <2>1, ThreadMoves, SameQueue DEF QInv
<1>3. CASE t \notin cancelled
  <2>1. Pauses /\ timer' = (IF timer = t THEN 0 ELSE timer)
    BY <1>3 DEF SleepPause, Superseded
  <2>2. MInv' /\ index' = index
    BY <2>1, PausesKeeps DEF QInv
  <2> QED
    BY <1>1, <2>1, <2>2, ThreadMoves, SameQueue DEF QInv
<1> QED
  BY <1>2, <1>3
-----------------------------------------------------------------------------
(* The theorems *)

WatcherOK == watcher \in {"gone", "watching", "leaving"}

IInv == QInv /\ SInv /\ WatcherOK

LEMMA InitHolds ==
  ASSUME Init
  PROVE  IInv
<1>1. QueueOK
  BY PlayerAssumption, EmptySeq DEF Init, QueueOK
<1>2. MInv
  BY PlayerAssumption DEF Init, MInv, PlayerOK, OneEndOneAdvance, Alone, Flags
<1>3. SInv
  BY PlayerAssumption DEF Init, SInv, TimersOK, FadeIsTheLastTimers, Held, Newest, Timers
<1> QED
  BY <1>1, <1>2, <1>3 DEF Init, IInv, QInv, WatcherOK

LEMMA CommandsKeep ==
  ASSUME IInv, Commands
  PROVE  IInv'
<1>1. QInv /\ SInv /\ WatcherOK
  BY DEF IInv
<1>2. CASE \E items \in Items, paused \in BOOLEAN : PlayNow(items, paused)
  <2>1. QInv'
    BY <1>1, <1>2, PlayNowKeeps
  <2>2. SInv' /\ WatcherOK'
    BY <1>1, <1>2, FadeCleared DEF PlayNow, Others, WatcherOK
  <2> QED
    BY <2>1, <2>2 DEF IInv
<1>3. CASE \E items \in Items : ReplaceUpcoming(items)
  <2>1. QInv'
    BY <1>1, <1>3, ReplaceUpcomingKeeps
  <2>2. SInv' /\ WatcherOK'
    BY <1>1, <1>3, SleepSame DEF ReplaceUpcoming, Others, WatcherOK
  <2> QED
    BY <2>1, <2>2 DEF IInv
<1>4. CASE \E kind \in Kinds : Enqueue(kind)
  <2>1. QInv'
    BY <1>1, <1>4, EnqueueKeeps
  <2>2. SInv' /\ WatcherOK'
    BY <1>1, <1>4, SleepSame DEF Enqueue, Others, WatcherOK
  <2> QED
    BY <2>1, <2>2 DEF IInv
<1>5. CASE \E kind \in Kinds, now \in BOOLEAN : InsertNext(kind, now)
  <2>1. QInv'
    BY <1>1, <1>5, InsertNextKeeps
  <2>2. SInv' /\ WatcherOK'
    BY <1>1, <1>5, SleepSame DEF InsertNext, Others, WatcherOK
  <2> QED
    BY <2>1, <2>2 DEF IInv
<1>6. CASE \E from, to \in DOMAIN queue : Move(from, to)
  <2>1. QInv'
    BY <1>1, <1>6, MoveKeeps
  <2>2. SInv' /\ WatcherOK'
    BY <1>1, <1>6, SleepSame DEF Move, Others, WatcherOK
  <2> QED
    BY <2>1, <2>2 DEF IInv
<1>7. CASE Skip
  <2>1. QInv'
    BY <1>1, <1>7, SkipKeeps
  <2>2. SInv' /\ WatcherOK'
    BY <1>1, <1>7, SleepSame DEF Skip, Others, WatcherOK
  <2> QED
    BY <2>1, <2>2 DEF IInv
<1>8. CASE Previous
  <2>1. QInv'
    BY <1>1, <1>8, PreviousKeeps
  <2>2. SInv' /\ WatcherOK'
    BY <1>1, <1>8, SleepSame DEF Previous, Others, WatcherOK
  <2> QED
    BY <2>1, <2>2 DEF IInv
<1>9. CASE Pause
  <2>1. QInv'
    BY <1>1, <1>9, PausesKeeps, SameQueue DEF Pause, QInv
  <2>2. SInv' /\ WatcherOK'
    BY <1>1, <1>9, SleepSame DEF Pause, Others, WatcherOK
  <2> QED
    BY <2>1, <2>2 DEF IInv
<1>10. CASE Resume
  <2>1. QInv'
    BY <1>1, <1>10, ResumeKeeps, SameQueue DEF Resume, QInv
  <2>2. SInv' /\ WatcherOK'
    BY <1>1, <1>10, FadeCleared DEF Resume, Others, WatcherOK
  <2> QED
    BY <2>1, <2>2 DEF IInv
<1>11. CASE Stop
  <2>1. QInv'
    BY <1>1, <1>11, StopKeeps, SameQueue DEF Stop, QInv
  <2>2. SInv' /\ WatcherOK'
    BY <1>1, <1>11, SleepSame DEF Stop, Others, WatcherOK
  <2> QED
    BY <2>1, <2>2 DEF IInv
<1>12. CASE SetCrossfade
  <2>1. QInv'
    BY <1>1, <1>12, StaySame, SameQueue DEF SetCrossfade, QInv, Stay, player
  <2>2. SInv' /\ WatcherOK'
    BY <1>1, <1>12, SleepSame DEF SetCrossfade, WatcherOK
  <2> QED
    BY <2>1, <2>2 DEF IInv
<1>13. CASE CancelTimer
  <2>1. QInv'
    BY <1>1, <1>13, StaySame, SameQueue DEF CancelTimer, QInv, Stay, player
  <2>2. SInv' /\ WatcherOK'
    BY <1>1, <1>13, CancelTimerKeeps DEF CancelTimer, Others, WatcherOK
  <2> QED
    BY <2>1, <2>2 DEF IInv
<1>14. CASE \E t \in Timers : SetTimer(t)
  <2>1. QInv'
    BY <1>1, <1>14, StaySame, SameQueue DEF SetTimer, QInv, Stay, player
  <2>2. SInv' /\ WatcherOK'
    BY <1>1, <1>14, SetTimerKeeps DEF SetTimer, Others, WatcherOK
  <2> QED
    BY <2>1, <2>2 DEF IInv
<1> QED
  BY <1>2, <1>3, <1>4, <1>5, <1>6, <1>7, <1>8, <1>9, <1>10, <1>11, <1>12, <1>13, <1>14
  DEF Commands

LEMMA OnItsOwnKeeps ==
  ASSUME IInv, OnItsOwn
  PROVE  IInv'
<1>1. QInv /\ SInv /\ WatcherOK /\ MInv /\ QueueOK
  BY DEF IInv, QInv
<1>2. CASE VlcPlays \/ VlcEnds \/ Dispatch
  <2>1. MInv'
    BY <1>1, <1>2, VlcPlaysKeeps, VlcEndsKeeps, DispatchKeeps
  <2>2. UNCHANGED <<queue, index, watcher, sleep>>
    BY <1>2 DEF VlcPlays, VlcEnds, Dispatch, Others
  <2> QED
    BY <1>1, <2>1, <2>2, SameQueue, SleepSame DEF IInv, QInv, WatcherOK
<1>3. CASE \E h \in handlers : OnEnd(h) \/ OnError(h) \/ OnPlaying(h)
  <2>1. PICK h \in handlers : OnEnd(h) \/ OnError(h) \/ OnPlaying(h)
    BY <1>3
  <2>2. MInv' /\ (index' = index \/ (HasNext /\ index' = index + 1))
    BY <1>1, <2>1, OnEndKeeps, OnErrorKeeps, OnPlayingKeeps DEF OnPlaying
  <2>3. UNCHANGED <<queue, watcher, sleep>>
    BY <2>1 DEF OnEnd, OnError, OnPlaying, Others
  <2> QED
    BY <1>1, <2>2, <2>3, SameQueue, SleepSame DEF IInv, QInv, WatcherOK
<1>4. CASE Watch
  <2>1. MInv' /\ (index' = index \/ (HasNext /\ index' = index + 1))
    BY <1>1, <1>4, WatchKeeps
  <2>2. UNCHANGED <<queue, sleep>> /\ WatcherOK'
    BY <1>1, <1>4 DEF Watch, WatcherOK
  <2> QED
    BY <1>1, <2>1, <2>2, SameQueue, SleepSame DEF IInv, QInv
<1>5. CASE WatcherGone
  <2>1. MInv' /\ UNCHANGED <<queue, index, sleep>> /\ WatcherOK'
    BY <1>1, <1>5, StaySame DEF WatcherGone, Stay, player, WatcherOK
  <2> QED
    BY <1>1, <2>1, SameQueue, SleepSame DEF IInv, QInv
<1>6. CASE \E g \in runners : LastStep(g)
  <2>1. MInv'
    BY <1>1, <1>6, LastStepKeeps
  <2>2. UNCHANGED <<queue, index, watcher, sleep>>
    BY <1>6 DEF LastStep, Others
  <2> QED
    BY <1>1, <2>1, <2>2, SameQueue, SleepSame DEF IInv, QInv, WatcherOK
<1>7. CASE \E t \in Timers : TimerRuns(t)
  <2>1. PICK t \in Timers : TimerRuns(t)
    BY <1>7
  <2>2. CASE TimerFires(t) \/ \E to \in {"down", "silent"} : Ramp(t, to)
    <3>1. SInv'
      BY <1>1, <2>2, TimerFiresKeeps, RampKeeps
    <3>2. UNCHANGED <<queue, watcher>> /\ Stay
      BY <2>2 DEF TimerFires, Ramp, Others
    <3>3. MInv' /\ index' = index
      BY <1>1, <3>2, StaySame DEF Stay, player
    <3> QED
      BY <1>1, <3>1, <3>2, <3>3, SameQueue DEF IInv, QInv, WatcherOK
  <2>3. CASE SleepPause(t)
    <3>1. QInv' /\ SInv' /\ watcher' = watcher
      BY <1>1, <2>3, SleepPauseKeeps DEF SleepPause, Others
    <3> QED
      BY <1>1, <3>1 DEF IInv, WatcherOK
  <2> QED
    BY <2>1, <2>2, <2>3 DEF TimerRuns
<1> QED
  BY <1>2, <1>3, <1>4, <1>5, <1>6, <1>7 DEF OnItsOwn

LEMMA NextKeeps ==
  ASSUME IInv, [Next]_vars
  PROVE  IInv'
<1>1. CASE UNCHANGED vars
  <2>1. UNCHANGED <<queue, index, player, sleep, watcher>>
    BY <1>1 DEF vars, player, overlap, sleep
  <2> QED
    BY <2>1, SameQueue, StaySame, SleepSame DEF IInv, QInv, WatcherOK
<1>2. CASE Next
  BY <1>2, CommandsKeep, OnItsOwnKeeps DEF Next
<1> QED
  BY <1>1, <1>2

THEOREM Inductive == Spec => []IInv
<1>1. Init => IInv
  BY InitHolds
<1>2. IInv /\ [Next]_vars => IInv'
  BY NextKeeps
<1> QED
  BY <1>1, <1>2, PTL DEF Spec

(* The queue's current item exists whenever there are items, the player is  *)
(* never at once playing and paused or over, and a thread never carries a   *)
(* generation that is yet to come.                                          *)
THEOREM TypeCorrect == Spec => []TypeOK
<1>1. IInv => TypeOK
  BY DEF IInv, QInv, MInv, SInv, WatcherOK, TypeOK
<1> QED
  BY <1>1, Inductive, PTL

(* An end that is still to be handled and that would move the queue on is   *)
(* of the song that VLC holds, and that song is over: a skip, a stop or a   *)
(* crossfade has made every older one void.                                 *)
THEOREM EndsAreOfTheSong == Spec => []OneEndOneAdvance
<1>1. IInv => OneEndOneAdvance
  BY DEF IInv, QInv, MInv
<1> QED
  BY <1>1, Inductive, PTL

(* Whatever was fading out when the player paused, by a command, a timer or *)
(* a handoff that arrives paused, no longer sounds.                         *)
THEOREM PausedIsSilent == Spec => []PauseSilences
<1>1. IInv => PauseSilences
  BY DEF IInv, QInv, MInv, Alone, PauseSilences
<1> QED
  BY <1>1, Inductive, PTL

(* Of all the timers ever set, only the last one, uncancelled, has its hand *)
(* on the volume.                                                           *)
THEOREM OnlyTheLastTimerFades == Spec => []FadeIsTheLastTimers
<1>1. IInv => FadeIsTheLastTimers
  BY DEF IInv, SInv
<1> QED
  BY <1>1, Inductive, PTL
=============================================================================
