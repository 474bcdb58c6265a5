--------------------------- MODULE RenderersProofs ---------------------------
(* First the bus alone: type correctness, the stop latch's guarantee and the  *)
(* command ids; that a settled command is revived by nothing but the claim    *)
(* under way; and that the bus implements the Mailbox.  Then with its         *)
(* renderers: an outcome on record is one the phone had, a client that        *)
(* forgets nothing runs a command once, and the transfer handshake keeps the  *)
(* music on one device until commands cross.  All for every set of devices,   *)
(* every bound and timeout, and any number of losses, kills and restarts.     *)
EXTENDS Renderers, FiniteSetTheorems, TLAPS

-----------------------------------------------------------------------------
(* What the helpers return *)

\* A registry rewritten record by record is a registry of the same length.
LEMMA RewriteType ==
  ASSUME NEW S, NEW cmds \in Seq(S), NEW new \in [DOMAIN cmds -> S]
  PROVE  new \in Seq(S) /\ Len(new) = Len(cmds)
<1>1. DOMAIN cmds = 1 .. Len(cmds) /\ Len(cmds) \in Nat
  OBVIOUS
<1>2. new \in [1 .. Len(cmds) -> S]
  BY <1>1
<1>3. new \in Seq(S)
  BY <1>1, <1>2
<1> QED
  BY <1>1, <1>2, <1>3

\* _enqueue's eviction keeps the registry within its capacity.
LEMMA InsertType ==
  ASSUME NEW cmds \in Seq(Command), Len(cmds) <= Capacity, NEW c \in Command
  PROVE  Insert(cmds, c) \in Seq(Command) /\ Len(Insert(cmds, c)) <= Capacity
<1>1. Capacity \in Nat \ {0}
  BY BusAssumption
<1> DEFINE longer == Append(cmds, c)
<1>2. longer \in Seq(Command) /\ Len(longer) = Len(cmds) + 1
  OBVIOUS
<1>3. Len(longer) > Capacity => Len(longer) = Capacity + 1
  BY <1>1, <1>2
<1>4. Tail(longer) \in Seq(Command) /\ Len(Tail(longer)) = Len(longer) - 1
  BY <1>2
<1> HIDE DEF longer
<1>5. Insert(cmds, c) = IF Len(longer) > Capacity THEN Tail(longer) ELSE longer
  BY DEF Insert, longer
<1> QED
  BY <1>1, <1>2, <1>3, <1>4, <1>5

\* A new record, a refused record and a gated record are records.
LEMMA BlankType ==
  ASSUME NEW id \in Nat, NEW kind \in Kinds, NEW owner \in BOOLEAN
  PROVE  Blank(id, kind, owner) \in Command
BY BusAssumption DEF Blank, Command, Outstanding

LEMMA NextBlankType ==
  ASSUME seq \in Nat, NEW kind \in Kinds, NEW owner \in BOOLEAN
  PROVE  Blank(seq + 1, kind, owner) \in Command
<1>1. seq + 1 \in Nat
  OBVIOUS
<1> QED
  BY <1>1, BlankType, Zenon

LEMMA RefusedType ==
  ASSUME NEW c \in Command
  PROVE  Refused(c) \in Command
<1>1. {"failed"} \subseteq Outstanding \cup Terminal /\ 0 \in 0 .. RedeliverAfter
  BY BusAssumption DEF Outstanding, Terminal
<1> QED
  BY <1>1, Zenon DEF Refused, Command

LEMMA GateType ==
  ASSUME NEW c \in Command
  PROVE  Gate(c) \in Command
BY RefusedType DEF Gate, Refuses

LEMMA HandoffType ==
  ASSUME seq \in Nat, report \in [Devices -> Report],
         NEW from \in Devices, NEW to \in Devices,
         NEW was \in BOOLEAN, NEW cause \in Nat
  PROVE  Handoff(from, to, was, cause) \in Command
<1> DEFINE blank == Blank(seq + 1, "activate", FALSE)
<1>1. blank \in Command
  BY NextBlankType, Zenon DEF Kinds
<1>2. report[from].item \in Items \cup {Nothing}
  BY DEF Report
<1> DEFINE plays == was /\ report[from].item # Nothing
<1>3. plays \in BOOLEAN
  OBVIOUS
<1> DEFINE handoff == [blank EXCEPT !.target = to, !.cause = cause,
                                    !.item = report[from].item, !.playing = plays]
<1>4. handoff \in Command
  <2> HIDE DEF blank, plays
  <2> QED
    BY <1>1, <1>2, <1>3, Zenon DEF Command
<1> QED
  BY <1>4 DEF Handoff

\* The renderer asked to stop by a transfer.
LEMMA AskType ==
  ASSUME seq \in Nat, NEW prev \in Devices, NEW d \in Devices, NEW was \in BOOLEAN
  PROVE  [Blank(seq + 1, "deactivate", FALSE) EXCEPT
            !.target = prev, !.to = d, !.playing = was] \in Command
<1> DEFINE blank == Blank(seq + 1, "deactivate", FALSE)
<1>1. blank \in Command
  BY NextBlankType, Zenon DEF Kinds
<1> HIDE DEF blank
<1>2. [blank EXCEPT !.target = prev, !.to = d, !.playing = was] \in Command
  BY <1>1, Zenon DEF Command
<1> QED
  BY <1>2 DEF blank

\* A record that was handed out, one that was answered, one that has aged.
LEMMA DeliveredType ==
  ASSUME NEW c \in Command, NEW d \in Devices
  PROVE  [c EXCEPT !.status = "delivered", !.handedTo = @ \cup {d}, !.age = 0]
           \in Command
<1>1. {"delivered"} \subseteq Outstanding \cup Terminal /\ 0 \in 0 .. RedeliverAfter
  BY BusAssumption DEF Outstanding, Terminal
<1>2. c.handedTo \cup {d} \in SUBSET Devices
  BY Zenon DEF Command
<1> QED
  BY <1>1, <1>2, Zenon DEF Command

LEMMA AnsweredType ==
  ASSUME NEW c \in Command, NEW answer \in Answers
  PROVE  [c EXCEPT !.status = IF answer = "ok" THEN "acked" ELSE "failed",
                   !.ack = answer, !.age = 0] \in Command
<1>1. (IF answer = "ok" THEN "acked" ELSE "failed") \in Outstanding \cup Terminal
  BY DEF Terminal
<1>2. 0 \in 0 .. RedeliverAfter /\ answer \in {"none", "ok", "failed", "refused"}
  BY BusAssumption DEF Answers
<1> QED
  BY <1>1, <1>2, Zenon DEF Command

LEMMA AgedType ==
  ASSUME NEW c \in Command, c.age < RedeliverAfter
  PROVE  [c EXCEPT !.age = @ + 1] \in Command
<1>1. c.age + 1 \in 0 .. RedeliverAfter
  <2>1. c.age \in 0 .. RedeliverAfter
    BY Zenon DEF Command
  <2> QED
    BY <2>1, BusAssumption
<1> QED
  BY <1>1, Zenon DEF Command

LEMMA BeginEnqueueType ==
  ASSUME seq \in Nat, threads \subseteq Command, NEW c \in Command, BeginEnqueue(c)
  PROVE  seq' \in Nat /\ threads' \subseteq Command
BY GateType DEF BeginEnqueue

\* What the event loop is in the middle of.
LEMMA LoopType ==
  ASSUME loop \in LoopStep
  PROVE  /\ loop.op = "insert" => loop.rec \in Command
         /\ loop.op = "claim" => loop.rec \in Command /\ loop.dev \in Devices
BY DEF LoopStep, Free

LEMMA CommandsType ==
  ASSUME TypeOK, NEW k \in DOMAIN commands
  PROVE  commands[k] \in Command
BY DEF TypeOK
-----------------------------------------------------------------------------
(* Type correctness *)

LEMMA InitType == Init => TypeOK
<1> SUFFICES ASSUME Init PROVE TypeOK
  OBVIOUS
<1>1. commands \in Seq(Command) /\ Len(commands) <= Capacity
  BY BusAssumption DEF Init
<1>2. silent \in [Devices -> {Unseen} \cup 0 .. StaleAfter + 1]
  BY DEF Init
<1>3. report \in [Devices -> Report]
  BY DEF Init, NoReport, Report
<1>4. polling \in [Devices -> {Idle} \cup 0 .. PollTimeout]
  BY DEF Init
<1> QED
  BY <1>1, <1>2, <1>3, <1>4 DEF Init, TypeOK, LoopStep

LEMMA LoopNextType ==
  ASSUME TypeOK, LoopNext
  PROVE  TypeOK'
<1>1. ASSUME NEW p \in Postable, PostCommand(p)
      PROVE  TypeOK'
  <2>1. p.kind \in Kinds /\ p.owner \in BOOLEAN
    <3>1. p \in [kind: {"start", "queue", "control"}, owner: BOOLEAN]
      BY BusAssumption, Zenon
    <3>2. {"start", "queue", "control"} \subseteq Kinds
      BY DEF Kinds
    <3> QED
      BY <3>1, <3>2, Zenon
  <2>2. Blank(seq + 1, p.kind, p.owner) \in Command
    BY <2>1, NextBlankType, Zenon DEF TypeOK
  <2>3. loop' \in LoopStep
    BY <1>1, <2>2, Zenon DEF PostCommand, LoopStep
  <2>4. seq' \in Nat
    BY <1>1 DEF PostCommand, TypeOK
  <2> QED
    BY <1>1, <2>3, <2>4 DEF PostCommand, devVars, stopVars, TypeOK
<1>2. CASE LoopInsert
  <2>1. loop.rec \in Command
    BY <1>2, LoopType DEF LoopInsert, TypeOK
  <2>2. commands' \in Seq(Command) /\ Len(commands') <= Capacity
    BY <1>2, <2>1, InsertType DEF LoopInsert, TypeOK
  <2> QED
    BY <1>2, <2>2 DEF LoopInsert, LoopStep, devVars, stopVars, TypeOK
<1>3. CASE ClaimCommit
  <2>1. loop.dev \in Devices
    BY <1>3, LoopType DEF ClaimCommit, TypeOK
  <2>2. commands' \in [DOMAIN commands -> Command]
    BY <1>3, <2>1, CommandsType, DeliveredType DEF ClaimCommit
  <2>3. commands' \in Seq(Command) /\ Len(commands') <= Capacity
    BY <2>2, RewriteType DEF TypeOK
  <2>4. slipped' \in Nat
    <3>1. slipped' = slipped + 1 \/ slipped' = slipped
      BY <1>3, Zenon DEF ClaimCommit
    <3> QED
      BY <3>1 DEF TypeOK
  <2>5. polling' \in [Devices -> {Idle} \cup 0 .. PollTimeout]
    BY <1>3 DEF ClaimCommit, TypeOK
  <2> QED
    BY <1>3, <2>3, <2>4, <2>5
    DEF ClaimCommit, LoopStep, devVars, stopVars, TypeOK
<1>4. ASSUME NEW d \in Devices, PollBegin(d)
      PROVE  TypeOK'
  BY <1>4, BusAssumption DEF PollBegin, stopVars, TypeOK
<1>5. ASSUME NEW d \in Devices, PollTimesOut(d)
      PROVE  TypeOK'
  BY <1>5 DEF PollTimesOut, devVars, stopVars, TypeOK
<1>6. ASSUME NEW d \in Devices, ClaimCheck(d)
      PROVE  TypeOK'
  <2>1. commands' \in [DOMAIN commands -> Command]
    BY <1>6, CommandsType, RefusedType DEF ClaimCheck
  <2>2. commands' \in Seq(Command) /\ Len(commands') <= Capacity
    BY <2>1, RewriteType DEF TypeOK
  <2>3. loop' \in LoopStep
    BY <1>6, CommandsType DEF ClaimCheck, LoopStep
  <2> QED
    BY <1>6, <2>2, <2>3 DEF ClaimCheck, devVars, stopVars, TypeOK
<1>7. ASSUME NEW d \in Devices, ClaimDies(d)
      PROVE  TypeOK'
  <2>1. PICK k \in 0 .. Len(commands) - 1, c \in threads :
          /\ commands' = Insert([j \in DOMAIN commands |->
                                  IF /\ j \in {i \in DOMAIN commands :
                                               Owed(commands[i], d)}
                                     /\ j <= k
                                  THEN Refused(commands[j]) ELSE commands[j]], c)
          /\ threads' = threads \ {c}
    BY <1>7 DEF ClaimDies
  <2> DEFINE upTo == [j \in DOMAIN commands |->
                       IF /\ j \in {i \in DOMAIN commands : Owed(commands[i], d)}
                          /\ j <= k
                       THEN Refused(commands[j]) ELSE commands[j]]
  <2>2. upTo \in [DOMAIN commands -> Command]
    BY CommandsType, RefusedType
  <2>3. upTo \in Seq(Command) /\ Len(upTo) <= Capacity
    BY <2>2, RewriteType DEF TypeOK
  <2>4. c \in Command
    BY DEF TypeOK
  <2>5. commands' \in Seq(Command) /\ Len(commands') <= Capacity
    BY <2>1, <2>3, <2>4, InsertType
  <2>6. polling' \in [Devices -> {Idle} \cup 0 .. PollTimeout]
    BY <1>7 DEF ClaimDies, TypeOK
  <2> QED
    BY <1>7, <2>1, <2>5, <2>6 DEF ClaimDies, devVars, stopVars, TypeOK
<1> QED
  BY <1>1, <1>2, <1>3, <1>4, <1>5, <1>6, <1>7 DEF LoopNext

LEMMA ThreadNextType ==
  ASSUME TypeOK, ThreadNext
  PROVE  TypeOK'
<1>1. CASE ThreadInsert
  <2>1. PICK c \in threads : /\ commands' = Insert(commands, c)
                             /\ threads' = threads \ {c}
    BY <1>1 DEF ThreadInsert
  <2>2. commands' \in Seq(Command) /\ Len(commands') <= Capacity
    BY <2>1, InsertType DEF TypeOK
  <2> QED
    BY <1>1, <2>1, <2>2 DEF ThreadInsert, devVars, stopVars, TypeOK
<1>2. ASSUME NEW d \in Devices, NEW k \in DOMAIN commands, NEW a \in Answers,
             Ack(d, k, a)
      PROVE  TypeOK'
  <2> DEFINE c == [commands[k] EXCEPT
                     !.status = IF a = "ok" THEN "acked" ELSE "failed",
                     !.ack = a, !.age = 0]
  <2>1. c \in Command
    BY CommandsType, AnsweredType
  <2>2. commands' = [commands EXCEPT ![k] = c]
    BY <1>2, Zenon DEF Ack
  <2>3. commands' \in [DOMAIN commands -> Command]
    BY <2>1, <2>2, CommandsType
  <2>4. commands' \in Seq(Command) /\ Len(commands') <= Capacity
    BY <2>3, RewriteType DEF TypeOK
  <2>5. \/ /\ None \notin {c.target, c.to}
           /\ BeginEnqueue(Handoff(c.target, c.to, c.playing, c.id))
        \/ UNCHANGED <<seq, threads>>
    BY <1>2, Zenon DEF Ack
  <2>6. CASE /\ None \notin {c.target, c.to}
             /\ BeginEnqueue(Handoff(c.target, c.to, c.playing, c.id))
    <3>1. /\ c.target \in Devices \cup {None} /\ c.to \in Devices \cup {None}
          /\ c.playing \in BOOLEAN /\ c.id \in Nat
      <4> HIDE DEF c
      <4> QED
        BY <2>1, Zenon DEF Command
    <3>2. Handoff(c.target, c.to, c.playing, c.id) \in Command
      <4> HIDE DEF c
      <4> QED
        BY <2>6, <3>1, HandoffType, Zenon DEF TypeOK
    <3>3. seq' \in Nat /\ threads' \subseteq Command
      BY <2>6, <3>2, BeginEnqueueType DEF TypeOK
    <3> QED
      BY <1>2, <2>4, <3>3 DEF Ack, devVars, stopVars, TypeOK
  <2>7. CASE UNCHANGED <<seq, threads>>
    BY <1>2, <2>4, <2>7 DEF Ack, devVars, stopVars, TypeOK
  <2> QED
    BY <2>5, <2>6, <2>7
<1>3. ASSUME NEW d \in Devices, NEW r \in Reports, PostState(d, r)
      PROVE  TypeOK'
  <2>1. report' \in [Devices -> Report]
    BY <1>3, BusAssumption DEF PostState, TypeOK, Report
  <2>2. silent' \in [Devices -> {Unseen} \cup 0 .. StaleAfter + 1]
    BY <1>3, BusAssumption DEF PostState, TypeOK
  <2>3. seq' \in Nat /\ threads' \subseteq Command
    <3>1. Blank(seq + 1, "queue", FALSE) \in Command
      BY NextBlankType, Zenon DEF TypeOK, Kinds
    <3> QED
      BY <1>3, <3>1, BeginEnqueueType DEF PostState, TypeOK
  <2> QED
    BY <1>3, <2>1, <2>2, <2>3 DEF PostState, stopVars, TypeOK
<1>4. ASSUME NEW d \in Devices, Transfer(d)
      PROVE  TypeOK'
  <2> DEFINE prev == IF active = None THEN Phone ELSE active
             was == report[prev].playing
             ask == [Blank(seq + 1, "deactivate", FALSE) EXCEPT
                       !.target = prev, !.to = d, !.playing = was]
  <2>1. prev \in Devices
    BY BusAssumption DEF TypeOK
  <2>2. was \in BOOLEAN
    <3>1. report[prev] \in Report
      BY <2>1 DEF TypeOK
    <3> QED
      BY <3>1, Zenon DEF Report
  <2>3. \/ UNCHANGED <<seq, threads>>
        \/ BeginEnqueue(IF Live(prev)
                        THEN ask ELSE Handoff(prev, d, was, 0))
    BY <1>4, Zenon DEF Transfer
  <2>4. ask \in Command
    <3> HIDE DEF prev, was
    <3> QED
      BY <2>1, <2>2, AskType, Zenon DEF TypeOK
  <2>5. Handoff(prev, d, was, 0) \in Command
    <3> HIDE DEF prev, was
    <3>1. 0 \in Nat
      OBVIOUS
    <3> QED
      BY <2>1, <2>2, <3>1, HandoffType, Zenon DEF TypeOK
  <2>6. seq' \in Nat /\ threads' \subseteq Command
    <3> HIDE DEF prev, was, ask
    <3> QED
      BY <2>3, <2>4, <2>5, BeginEnqueueType DEF TypeOK
  <2>7. silent' \in [Devices -> {Unseen} \cup 0 .. StaleAfter + 1]
    BY <1>4, BusAssumption DEF Transfer, TypeOK
  <2> QED
    BY <1>4, <2>6, <2>7 DEF Transfer, stopVars, TypeOK
<1>5. CASE StopLatch
  BY <1>5 DEF StopLatch, devVars, TypeOK
<1>6. CASE CancelStarts
  <2>1. commands' \in [DOMAIN commands -> Command]
    BY <1>6, CommandsType, RefusedType DEF CancelStarts
  <2>2. commands' \in Seq(Command) /\ Len(commands') <= Capacity
    BY <2>1, RewriteType DEF TypeOK
  <2> QED
    BY <1>6, <2>2 DEF CancelStarts, devVars, TypeOK
<1>7. CASE CancelDies
  <2> DEFINE UpTo(k) == [j \in DOMAIN commands |->
                          IF j \in ToCancel /\ j <= k
                          THEN Refused(commands[j]) ELSE commands[j]]
  <2>1. PICK k \in 1 .. Len(commands) - 1,
             c \in threads \cup (IF loop.op = "insert" THEN {loop.rec} ELSE {}) :
          /\ commands' = Insert(UpTo(k), c)
          /\ threads' = threads \ {c}
          /\ loop' = IF c \in threads THEN loop ELSE Free
    BY <1>7 DEF CancelDies
  <2>2. c \in Command
    BY LoopType DEF TypeOK
  <2>3. UpTo(k) \in [DOMAIN commands -> Command]
    BY CommandsType, RefusedType
  <2>4. UpTo(k) \in Seq(Command) /\ Len(UpTo(k)) <= Capacity
    BY <2>3, RewriteType DEF TypeOK
  <2>5. commands' \in Seq(Command) /\ Len(commands') <= Capacity
    BY <2>1, <2>2, <2>4, InsertType
  <2>6. loop' \in LoopStep
    BY <2>1 DEF LoopStep, TypeOK
  <2> QED
    BY <1>7, <2>1, <2>5, <2>6 DEF CancelDies, devVars, TypeOK
<1>8. CASE StopPause
  <2>1. Blank(seq + 1, "control", FALSE) \in Command
    BY NextBlankType, Zenon DEF TypeOK, Kinds
  <2>2. seq' \in Nat /\ threads' \subseteq Command
    BY <1>8, <2>1, BeginEnqueueType DEF StopPause, TypeOK
  <2> QED
    BY <1>8, <2>2 DEF StopPause, devVars, TypeOK
<1>9. CASE LiftLatch
  BY <1>9 DEF LiftLatch, devVars, TypeOK
<1> QED
  BY <1>1, <1>2, <1>3, <1>4, <1>5, <1>6, <1>7, <1>8, <1>9 DEF ThreadNext

LEMMA ClockNextType ==
  ASSUME TypeOK, Tick \/ Restart
  PROVE  TypeOK'
<1>1. CASE Tick
  <2>1. commands' \in [DOMAIN commands -> Command]
    <3>1. \A k \in DOMAIN commands :
            commands[k].status = "delivered" /\ commands[k].age < RedeliverAfter
            => [commands[k] EXCEPT !.age = @ + 1] \in Command
      BY CommandsType, AgedType
    <3> QED
      BY <1>1, <3>1, CommandsType DEF Tick
  <2>2. commands' \in Seq(Command) /\ Len(commands') <= Capacity
    BY <2>1, RewriteType DEF TypeOK
  <2>3. polling' \in [Devices -> {Idle} \cup 0 .. PollTimeout]
    BY <1>1, BusAssumption DEF Tick, TypeOK, Idle
  <2>4. silent' \in [Devices -> {Unseen} \cup 0 .. StaleAfter + 1]
    <3>1. \A d \in Devices : silent[d] \in 0 .. StaleAfter
                             => silent[d] + 1 \in 0 .. StaleAfter + 1
      BY BusAssumption
    <3> QED
      BY <1>1, <3>1 DEF Tick, TypeOK
  <2> QED
    BY <1>1, <2>2, <2>3, <2>4 DEF Tick, stopVars, TypeOK
<1>2. CASE Restart
  <2>1. commands' \in Seq(Command) /\ Len(commands') <= Capacity
    BY <1>2, BusAssumption DEF Restart
  <2>2. report' \in [Devices -> Report]
    BY <1>2 DEF Restart, NoReport, Report
  <2> QED
    BY <1>2, <2>1, <2>2 DEF Restart, LoopStep, TypeOK
<1> QED
  BY <1>1, <1>2

\* Every state of the bus is well typed: in particular the registry never holds
\* more than Capacity records, whichever thread inserts.
THEOREM TypeCorrect == Spec => []TypeOK
<1>1. TypeOK /\ [Next]_vars => TypeOK'
  <2> SUFFICES ASSUME TypeOK, [Next]_vars PROVE TypeOK'
    OBVIOUS
  <2>1. CASE Next
    BY <2>1, LoopNextType, ThreadNextType, ClockNextType DEF Next
  <2>2. CASE UNCHANGED vars
    BY <2>2 DEF vars, devVars, stopVars, TypeOK
  <2> QED
    BY <2>1, <2>2
<1> QED
  BY InitType, <1>1, PTL DEF Spec

-----------------------------------------------------------------------------
(* The stop latch *)

\* A claim that read the latch file before it said "stop" and has yet to mark.
Exposed == IF loop.op = "claim" /\ Gated(loop.rec) THEN 1 ELSE 0

\* While the latch is set: what has slipped and what still can make one at most.
SlipBudget == latch => slipped + Exposed <= 1

\* The budget is inductive: setting the latch resets the count while at most one
\* claim is past its check, and under the latch no new claim is of a gated start.
LEMMA SlipBudgetStep ==
  ASSUME TypeOK, SlipBudget, AtMostOneStartSlips, [Next]_vars
  PROVE  SlipBudget' /\ AtMostOneStartSlips'
<1>1. Exposed \in {0, 1} /\ slipped \in Nat
  BY DEF Exposed, TypeOK
<1>2. ASSUME UNCHANGED <<latch, slipped>>, loop' = loop \/ loop'.op # "claim"
      PROVE  SlipBudget' /\ AtMostOneStartSlips'
  <2>1. Exposed' \in {0, 1} /\ Exposed' <= Exposed
    BY <1>2 DEF Exposed, Gated, Start
  <2>2. slipped' = slipped /\ latch' = latch
    BY <1>2
  <2>3. AtMostOneStartSlips'
    BY <2>2 DEF AtMostOneStartSlips
  <2>4. ASSUME latch' PROVE slipped' + Exposed' <= 1
    <3>1. slipped + Exposed <= 1
      BY <2>2, <2>4, Zenon DEF SlipBudget
    <3>2. \A s, e, f \in Int : s + e <= 1 /\ f <= e => s + f <= 1
      OBVIOUS
    <3>3. slipped \in Int /\ Exposed \in Int /\ Exposed' \in Int
      BY <1>1, <2>1
    <3> QED
      BY <2>1, <2>2, <3>1, <3>2, <3>3, Zenon
  <2> QED
    BY <2>3, <2>4, Zenon DEF SlipBudget
<1>3. CASE LoopNext
  <2>1. ASSUME NEW p \in Postable, PostCommand(p)
        PROVE  SlipBudget' /\ AtMostOneStartSlips'
    BY <1>2, <2>1 DEF PostCommand, stopVars
  <2>2. CASE LoopInsert
    BY <1>2, <2>2 DEF LoopInsert, stopVars, Free
  <2>3. CASE ClaimCommit
    <3>1. Exposed' = 0
      BY <2>3 DEF ClaimCommit, Exposed, Free
    <3>2. latch' = latch
      BY <2>3 DEF ClaimCommit, stopVars
    <3>3. CASE latch /\ Gated(loop.rec)
      <4>1. Exposed = 1
        BY <2>3, <3>3 DEF ClaimCommit, Exposed
      <4>2. slipped' = slipped + 1
        BY <2>3, <3>3 DEF ClaimCommit
      <4> QED
        BY <1>1, <3>1, <3>3, <4>1, <4>2 DEF SlipBudget, AtMostOneStartSlips
    <3>4. CASE ~(latch /\ Gated(loop.rec))
      <4>1. slipped' = slipped
        BY <2>3, <3>4 DEF ClaimCommit
      <4> QED
        BY <1>1, <3>1, <3>2, <4>1 DEF SlipBudget, AtMostOneStartSlips
    <3> QED
      BY <3>3, <3>4
  <2>4. ASSUME NEW d \in Devices,
               PollBegin(d) \/ PollTimesOut(d) \/ ClaimDies(d)
        PROVE  SlipBudget' /\ AtMostOneStartSlips'
    BY <1>2, <2>4 DEF PollBegin, PollTimesOut, ClaimDies, stopVars
  <2>5. ASSUME NEW d \in Devices, ClaimCheck(d)
        PROVE  SlipBudget' /\ AtMostOneStartSlips'
    <3>1. UNCHANGED <<latch, slipped>>
      BY <2>5 DEF ClaimCheck, stopVars
    <3>2. \/ loop' = Free
          \/ \E k \in DOMAIN commands :
               /\ ~Refuses(commands[k])
               /\ loop' = [op |-> "claim", dev |-> d, rec |-> commands[k]]
      BY <2>5 DEF ClaimCheck
    <3>3. latch => Exposed' = 0
      BY <3>2 DEF Exposed, Refuses, Gated, Start, Free
    <3> QED
      BY <1>1, <3>1, <3>3 DEF SlipBudget, AtMostOneStartSlips
  <2> QED
    BY <1>3, <2>1, <2>2, <2>3, <2>4, <2>5 DEF LoopNext
<1>4. CASE ThreadNext
  <2>1. CASE ThreadInsert
    BY <1>2, <2>1 DEF ThreadInsert, stopVars
  <2>2. ASSUME NEW d \in Devices, NEW k \in DOMAIN commands, NEW a \in Answers,
               Ack(d, k, a)
        PROVE  SlipBudget' /\ AtMostOneStartSlips'
    BY <1>2, <2>2 DEF Ack, stopVars
  <2>3. ASSUME NEW d \in Devices, NEW r \in Reports, PostState(d, r)
        PROVE  SlipBudget' /\ AtMostOneStartSlips'
    BY <1>2, <2>3 DEF PostState, stopVars
  <2>4. ASSUME NEW d \in Devices, Transfer(d)
        PROVE  SlipBudget' /\ AtMostOneStartSlips'
    BY <1>2, <2>4 DEF Transfer, stopVars
  <2>5. CASE StopLatch
    <3>1. slipped' = 0 /\ Exposed' = Exposed
      BY <2>5 DEF StopLatch, Exposed, Gated, Start
    <3> QED
      BY <1>1, <3>1 DEF SlipBudget, AtMostOneStartSlips
  <2>6. CASE CancelStarts \/ StopPause
    BY <1>2, <2>6 DEF CancelStarts, StopPause
  <2>7. CASE CancelDies
    BY <1>2, <2>7 DEF CancelDies, Free
  <2>8. CASE LiftLatch
    BY <2>8 DEF LiftLatch, SlipBudget, AtMostOneStartSlips
  <2> QED
    BY <1>4, <2>1, <2>2, <2>3, <2>4, <2>5, <2>6, <2>7, <2>8 DEF ThreadNext
<1>5. CASE Tick
  BY <1>2, <1>5 DEF Tick, stopVars
<1>6. CASE Restart
  BY <1>2, <1>6 DEF Restart, Free
<1>7. CASE UNCHANGED vars
  BY <1>2, <1>7 DEF vars, stopVars
<1> QED
  BY <1>3, <1>4, <1>5, <1>6, <1>7 DEF Next

\* What has slipped since the latch was set and what still can never exceed one.
THEOREM BudgetHolds == Spec => [](SlipBudget /\ AtMostOneStartSlips)
<1>1. Init => SlipBudget /\ AtMostOneStartSlips
  BY DEF Init, SlipBudget, AtMostOneStartSlips, Exposed, Free
<1> QED
  BY <1>1, SlipBudgetStep, TypeCorrect, PTL DEF Spec

\* However many starts were queued, half inserted or due for a retry when Todd
\* stopped the DJ, at most one still reaches a device while the latch holds.
THEOREM StopHolds == Spec => []AtMostOneStartSlips
BY BudgetHolds, PTL

-----------------------------------------------------------------------------
(* Command ids *)

\* Rewriting kept records leaves their ids alone.
LEMMA IdsKept ==
  ASSUME IdsAreUnique, DOMAIN commands' = DOMAIN commands,
         \A k \in DOMAIN commands : commands'[k].id = commands[k].id,
         UNCHANGED <<seq, threads>>, loop' = loop \/ loop'.op # "insert"
  PROVE  IdsAreUnique'
<1>1. Unborn' \subseteq Unborn
  BY DEF Unborn
<1>2. \A c \in Records' : c.id \in 1 .. seq'
  BY <1>1 DEF IdsAreUnique, Records
<1> QED
  BY <1>1, <1>2 DEF IdsAreUnique

LEMMA RefusedId ==
  ASSUME NEW c \in Command
  PROVE  Refused(c).id = c.id
BY Zenon DEF Refused, Command

\* A record made now has the next id.
LEMMA NextBlankId ==
  ASSUME TypeOK, NEW kind \in Kinds, NEW owner \in BOOLEAN
  PROVE  /\ Blank(seq + 1, kind, owner) \in Command
         /\ Blank(seq + 1, kind, owner).id = seq + 1
<1>1. Blank(seq + 1, kind, owner).id = seq + 1
  BY DEF Blank
<1> QED
  BY <1>1, NextBlankType, Zenon DEF TypeOK

LEMMA HandoffId ==
  ASSUME NEW from, NEW to, NEW was, NEW cause
  PROVE  Handoff(from, to, was, cause).id = seq + 1
BY DEF Handoff, Blank

\* A new record takes an id nobody has.
LEMMA IdsBegin ==
  ASSUME TypeOK, IdsAreUnique, NEW c \in Command, c.id = seq + 1, BeginEnqueue(c),
         DOMAIN commands' = DOMAIN commands,
         \A k \in DOMAIN commands : commands'[k].id = commands[k].id,
         UNCHANGED loop
  PROVE  IdsAreUnique'
<1>1. Gate(c).id = seq + 1
  BY Zenon DEF Gate, Refused, Command
<1>2. PICK g : g.id = seq + 1 /\ threads' = threads \cup {g} /\ seq' = seq + 1
  BY <1>1 DEF BeginEnqueue
<1>3. \A e \in Records : e.id # seq + 1 /\ e.id \in 1 .. seq'
  BY <1>2 DEF IdsAreUnique, TypeOK
<1>4. \A k \in DOMAIN commands : commands[k] \in Records
  BY DEF Records
<1>5. Unborn \subseteq Records /\ threads \subseteq Unborn
  BY DEF Records, Unborn
<1>6. loop.op = "insert" => loop.rec \in Records
  BY DEF Records, Unborn
<1>7. Unborn' = Unborn \cup {g}
  BY <1>2 DEF Unborn
<1>8. \A e \in Records' : e.id \in 1 .. seq'
  <2>1. seq + 1 \in 1 .. seq'
    BY <1>2 DEF TypeOK
  <2>2. ASSUME NEW k \in DOMAIN commands PROVE commands'[k].id \in 1 .. seq'
    BY <1>3, <1>4
  <2>3. ASSUME NEW e \in Unborn' PROVE e.id \in 1 .. seq'
    BY <1>2, <1>3, <1>5, <1>7, <2>1
  <2> QED
    BY <2>2, <2>3 DEF Records
<1>9. \A k \in DOMAIN commands', e \in Unborn' : commands'[k].id # e.id
  BY <1>2, <1>3, <1>4, <1>7 DEF IdsAreUnique
<1>10. \A e, f \in threads' : e.id = f.id => e = f
  BY <1>2, <1>3, <1>5 DEF IdsAreUnique
<1>11. loop'.op = "insert" => \A e \in threads' : e.id # loop'.rec.id
  BY <1>2, <1>3, <1>6 DEF IdsAreUnique
<1> QED
  BY <1>8, <1>9, <1>10, <1>11 DEF IdsAreUnique

\* An insertion moves a record into the registry, and may drop the oldest.
LEMMA IdsInsert ==
  ASSUME TypeOK, IdsAreUnique, NEW cmds \in Seq(Command), NEW c \in Unborn,
         DOMAIN cmds = DOMAIN commands,
         \A k \in DOMAIN commands : cmds[k].id = commands[k].id,
         commands' = Insert(cmds, c), threads' = threads \ {c}, seq' = seq,
         \/ c \in threads /\ loop' = loop
         \/ c \notin threads /\ loop'.op # "insert"
  PROVE  IdsAreUnique'
<1> DEFINE longer == Append(cmds, c)
<1>1. /\ Len(cmds) \in Nat
      /\ DOMAIN cmds = 1 .. Len(cmds)
      /\ Len(longer) = Len(cmds) + 1
      /\ DOMAIN longer = 1 .. Len(cmds) + 1
      /\ longer[Len(cmds) + 1] = c
      /\ \A k \in 1 .. Len(cmds) : longer[k] = cmds[k]
  OBVIOUS
<1>2. c \in Command
  BY LoopType DEF Unborn, TypeOK
<1>3. longer \in Seq(Command) /\ longer # <<>>
  BY <1>2
<1>4. /\ DOMAIN Tail(longer) = 1 .. Len(cmds)
      /\ \A k \in 1 .. Len(cmds) : Tail(longer)[k] = longer[k + 1]
  BY <1>1, <1>3
<1>5. \A j, k \in DOMAIN longer : longer[j].id = longer[k].id => j = k
  BY <1>1 DEF IdsAreUnique
<1>6. \A k \in DOMAIN longer : longer[k].id \in 1 .. seq
  BY <1>1 DEF IdsAreUnique, Records
<1>7. \A e \in Unborn' : e \in Unborn /\ e # c
  BY DEF Unborn, IdsAreUnique
<1>8. \A e \in Unborn : e # c => e.id # c.id
  BY DEF Unborn, IdsAreUnique
<1>9. \A k \in DOMAIN longer, e \in Unborn' : longer[k].id # e.id
  BY <1>1, <1>7, <1>8 DEF IdsAreUnique
<1> HIDE DEF longer
<1>10. PICK m \in {0, 1} :
         /\ \A k \in DOMAIN commands' :
               k \in Int /\ k + m \in DOMAIN longer /\ commands'[k] = longer[k + m]
  <2>1. commands' = IF Len(longer) > Capacity THEN Tail(longer) ELSE longer
    BY DEF Insert, longer
  <2>2. CASE commands' = Tail(longer)
    <3>1. \A k \in DOMAIN commands' :
            k \in Int /\ k + 1 \in DOMAIN longer /\ commands'[k] = longer[k + 1]
      BY <1>1, <1>4, <2>2
    <3> QED
      BY <3>1
  <2>3. CASE commands' = longer
    <3>1. \A k \in DOMAIN commands' :
            k \in Int /\ k + 0 \in DOMAIN longer /\ commands'[k] = longer[k + 0]
      BY <1>1, <2>3
    <3> QED
      BY <3>1
  <2> QED
    BY <2>1, <2>2, <2>3
<1>11. \A j, k \in DOMAIN commands' : commands'[j].id = commands'[k].id => j = k
  BY <1>5, <1>10
<1>12. \A k \in DOMAIN commands', e \in Unborn' : commands'[k].id # e.id
  BY <1>9, <1>10
<1>13. \A e \in Records' : e.id \in 1 .. seq'
  <2>1. \A k \in DOMAIN commands' : commands'[k].id \in 1 .. seq'
    BY <1>6, <1>10
  <2>2. \A e \in Unborn' : e.id \in 1 .. seq'
    BY <1>7 DEF IdsAreUnique, Records
  <2> QED
    BY <2>1, <2>2 DEF Records
<1>14. /\ \A e, f \in threads' : e.id = f.id => e = f
       /\ loop'.op = "insert" => \A e \in threads' : e.id # loop'.rec.id
  BY DEF IdsAreUnique
<1> QED
  BY <1>11, <1>12, <1>13, <1>14 DEF IdsAreUnique

LEMMA IdsLoopStep ==
  ASSUME TypeOK, IdsAreUnique, LoopNext
  PROVE  IdsAreUnique'
<1>1. ASSUME NEW p \in Postable, PostCommand(p)
      PROVE  IdsAreUnique'
  <2> DEFINE c == Blank(seq + 1, p.kind, p.owner)
  <2>1. c.id = seq + 1
    BY DEF Blank
  <2> HIDE DEF c
  <2>2. /\ seq' = seq + 1
        /\ loop' = [op |-> "insert", rec |-> c]
        /\ UNCHANGED <<commands, threads>>
        /\ loop = Free
    BY <1>1 DEF PostCommand, c
  <2>3. \A e \in Records : e.id # seq + 1 /\ e.id \in 1 .. seq'
    BY <2>2 DEF IdsAreUnique, TypeOK
  <2>4. threads \subseteq Records /\ \A k \in DOMAIN commands : commands[k] \in Records
    BY DEF Records, Unborn
  <2>5. Unborn' = threads \cup {c}
    BY <2>2 DEF Unborn
  <2>6. \A e \in Records' : e.id \in 1 .. seq'
    <3>1. seq + 1 \in 1 .. seq'
      BY <2>2 DEF TypeOK
    <3> QED
      BY <2>1, <2>2, <2>3, <2>4, <2>5, <3>1 DEF Records
  <2>7. \A k \in DOMAIN commands', e \in Unborn' : commands'[k].id # e.id
    <3>1. threads \subseteq Unborn
      BY DEF Unborn
    <3> QED
      BY <2>1, <2>2, <2>3, <2>4, <2>5, <3>1 DEF IdsAreUnique
  <2> QED
    BY <2>1, <2>2, <2>3, <2>4, <2>6, <2>7 DEF IdsAreUnique
<1>2. CASE LoopInsert
  <2>1. loop.op = "insert" /\ loop.rec \in Unborn /\ loop.rec \notin threads
    BY <1>2 DEF LoopInsert, Unborn, IdsAreUnique
  <2>2. threads' = threads \ {loop.rec} /\ loop'.op # "insert" /\ seq' = seq
    BY <1>2, <2>1 DEF LoopInsert, Free
  <2> QED
    BY <1>2, <2>1, <2>2, IdsInsert DEF LoopInsert, TypeOK
<1>3. CASE ClaimCommit
  <2>1. DOMAIN commands' = DOMAIN commands
    BY <1>3 DEF ClaimCommit
  <2>2. ASSUME NEW k \in DOMAIN commands PROVE commands'[k].id = commands[k].id
    <3>1. commands[k] \in Command
      BY CommandsType
    <3>2. commands'[k] = IF commands[k].id = loop.rec.id
                         THEN [commands[k] EXCEPT !.status = "delivered",
                                                  !.handedTo = @ \cup {loop.dev},
                                                  !.age = 0]
                         ELSE commands[k]
      BY <1>3, Zenon DEF ClaimCommit
    <3> QED
      BY <3>1, <3>2, Zenon DEF Command
  <2> QED
    BY <1>3, <2>1, <2>2, IdsKept DEF ClaimCommit, Free
<1>4. ASSUME NEW d \in Devices, PollBegin(d) \/ PollTimesOut(d)
      PROVE  IdsAreUnique'
  BY <1>4, IdsKept DEF PollBegin, PollTimesOut
<1>5. ASSUME NEW d \in Devices, ClaimCheck(d)
      PROVE  IdsAreUnique'
  <2>1. DOMAIN commands' = DOMAIN commands
    BY <1>5 DEF ClaimCheck
  <2>2. ASSUME NEW k \in DOMAIN commands PROVE commands'[k].id = commands[k].id
    <3>1. commands'[k] \in {commands[k], Refused(commands[k])}
      BY <1>5 DEF ClaimCheck
    <3> QED
      BY <3>1, CommandsType, RefusedId
  <2>3. loop'.op # "insert"
    BY <1>5 DEF ClaimCheck, Free
  <2> QED
    BY <1>5, <2>1, <2>2, <2>3, IdsKept DEF ClaimCheck
<1>6. ASSUME NEW d \in Devices, ClaimDies(d)
      PROVE  IdsAreUnique'
  <2> DEFINE UpTo(k) == [j \in DOMAIN commands |->
                          IF /\ j \in {i \in DOMAIN commands : Owed(commands[i], d)}
                             /\ j <= k
                          THEN Refused(commands[j]) ELSE commands[j]]
  <2>1. PICK k \in 0 .. Len(commands) - 1, c \in threads :
          commands' = Insert(UpTo(k), c) /\ threads' = threads \ {c}
    BY <1>6 DEF ClaimDies
  <2>2. UpTo(k) \in Seq(Command)
    <3>1. UpTo(k) \in [DOMAIN commands -> Command]
      BY CommandsType, RefusedType
    <3> QED
      BY <3>1, RewriteType DEF TypeOK
  <2>3. /\ DOMAIN UpTo(k) = DOMAIN commands
        /\ \A j \in DOMAIN commands : UpTo(k)[j].id = commands[j].id
    BY CommandsType, RefusedId
  <2>4. c \in Unborn /\ seq' = seq /\ loop' = loop
    BY <1>6, <2>1 DEF ClaimDies, Unborn
  <2> HIDE DEF UpTo
  <2> QED
    BY <2>1, <2>2, <2>3, <2>4, IdsInsert
<1> QED
  BY <1>1, <1>2, <1>3, <1>4, <1>5, <1>6 DEF LoopNext

LEMMA IdsThreadStep ==
  ASSUME TypeOK, IdsAreUnique, ThreadNext
  PROVE  IdsAreUnique'
<1>1. CASE ThreadInsert
  <2>1. PICK c \in threads : /\ commands' = Insert(commands, c)
                             /\ threads' = threads \ {c}
                             /\ UNCHANGED <<seq, loop>>
    BY <1>1 DEF ThreadInsert
  <2>2. c \in Unborn
    BY DEF Unborn
  <2> QED
    BY <2>1, <2>2, IdsInsert DEF TypeOK
<1>2. ASSUME NEW d \in Devices, NEW k \in DOMAIN commands, NEW a \in Answers,
             Ack(d, k, a)
      PROVE  IdsAreUnique'
  <2> DEFINE c == [commands[k] EXCEPT
                     !.status = IF a = "ok" THEN "acked" ELSE "failed",
                     !.ack = a, !.age = 0]
             h == Handoff(c.target, c.to, c.playing, c.id)
  <2>1. c \in Command /\ c.id = commands[k].id
    <3>1. commands[k] \in Command
      BY CommandsType
    <3>2. c.id = commands[k].id
      BY <3>1, Zenon DEF Command
    <3> QED
      BY <3>1, <3>2, AnsweredType
  <2>2. commands' = [commands EXCEPT ![k] = c]
    BY <1>2, Zenon DEF Ack
  <2>3. /\ DOMAIN commands' = DOMAIN commands
        /\ \A j \in DOMAIN commands : commands'[j].id = commands[j].id
    <3> HIDE DEF c
    <3> QED
      BY <2>1, <2>2
  <2>4. \/ UNCHANGED <<seq, threads>>
        \/ None \notin {c.target, c.to} /\ BeginEnqueue(h)
    BY <1>2, Zenon DEF Ack
  <2>5. CASE None \notin {c.target, c.to} /\ BeginEnqueue(h)
    <3>1. /\ c.target \in Devices /\ c.to \in Devices
          /\ c.playing \in BOOLEAN /\ c.id \in Nat
      <4>1. /\ c.target \in Devices \cup {None} /\ c.to \in Devices \cup {None}
            /\ c.playing \in BOOLEAN /\ c.id \in Nat
        <5> HIDE DEF c
        <5> QED
          BY <2>1, Zenon DEF Command
      <4> QED
        BY <2>5, <4>1, Zenon
    <3>2. h \in Command /\ h.id = seq + 1
      <4> HIDE DEF c
      <4>1. seq \in Nat /\ report \in [Devices -> Report]
        BY DEF TypeOK
      <4>2. h \in Command
        BY <3>1, <4>1, HandoffType, Zenon
      <4>3. h.id = seq + 1
        BY HandoffId, Zenon
      <4> QED
        BY <4>2, <4>3
    <3>3. loop' = loop
      BY <1>2 DEF Ack
    <3> HIDE DEF h, c
    <3> QED
      BY <2>3, <2>5, <3>2, <3>3, IdsBegin
  <2>6. CASE UNCHANGED <<seq, threads>>
    BY <1>2, <2>3, <2>6, IdsKept DEF Ack
  <2> QED
    BY <2>4, <2>5, <2>6
<1>3. ASSUME NEW d \in Devices, NEW r \in Reports, PostState(d, r)
      PROVE  IdsAreUnique'
  <2>1. CASE UNCHANGED <<seq, threads>>
    BY <1>3, <2>1, IdsKept DEF PostState
  <2>2. CASE BeginEnqueue(Blank(seq + 1, "queue", FALSE))
    <3>1. "queue" \in Kinds
      BY DEF Kinds
    <3>2. /\ Blank(seq + 1, "queue", FALSE) \in Command
          /\ Blank(seq + 1, "queue", FALSE).id = seq + 1
      BY <3>1, NextBlankId
    <3>3. UNCHANGED <<commands, loop>>
      BY <1>3 DEF PostState
    <3> QED
      BY <2>2, <3>2, <3>3, IdsBegin
  <2> QED
    BY <1>3, <2>1, <2>2 DEF PostState
<1>4. ASSUME NEW d \in Devices, Transfer(d)
      PROVE  IdsAreUnique'
  <2> DEFINE prev == IF active = None THEN Phone ELSE active
             was == report[prev].playing
             ask == [Blank(seq + 1, "deactivate", FALSE) EXCEPT
                       !.target = prev, !.to = d, !.playing = was]
             new == IF Live(prev)
                    THEN ask ELSE Handoff(prev, d, was, 0)
  <2>1. prev \in Devices
    BY BusAssumption DEF TypeOK
  <2>2. was \in BOOLEAN
    <3>1. report[prev] \in Report
      BY <2>1 DEF TypeOK
    <3> QED
      BY <3>1, Zenon DEF Report
  <2>3. UNCHANGED <<seq, threads>> \/ BeginEnqueue(new)
    BY <1>4, Zenon DEF Transfer
  <2>4. ask \in Command /\ ask.id = seq + 1
    <3>1. ask.id = seq + 1
      BY DEF Blank
    <3> HIDE DEF prev, was
    <3> QED
      BY <2>1, <2>2, <3>1, AskType, Zenon DEF TypeOK
  <2>5. Handoff(prev, d, was, 0) \in Command /\ Handoff(prev, d, was, 0).id = seq + 1
    <3> HIDE DEF prev, was
    <3>1. 0 \in Nat
      OBVIOUS
    <3> QED
      BY <2>1, <2>2, <3>1, HandoffType, HandoffId, Zenon DEF TypeOK
  <2>6. new \in Command /\ new.id = seq + 1
    <3> HIDE DEF prev, was, ask
    <3> QED
      BY <2>4, <2>5
  <2> HIDE DEF new
  <2>7. CASE BeginEnqueue(new)
    BY <1>4, <2>6, <2>7, IdsBegin DEF Transfer
  <2>8. CASE UNCHANGED <<seq, threads>>
    BY <1>4, <2>8, IdsKept DEF Transfer
  <2> QED
    BY <2>3, <2>7, <2>8
<1>5. CASE StopLatch \/ LiftLatch
  BY <1>5, IdsKept DEF StopLatch, LiftLatch
<1>6. CASE CancelStarts
  <2>1. /\ DOMAIN commands' = DOMAIN commands
        /\ \A k \in DOMAIN commands : commands'[k].id = commands[k].id
    BY <1>6, CommandsType, RefusedId DEF CancelStarts
  <2> QED
    BY <1>6, <2>1, IdsKept DEF CancelStarts
<1>7. CASE CancelDies
  <2> DEFINE UpTo(k) == [j \in DOMAIN commands |->
                          IF j \in ToCancel /\ j <= k
                          THEN Refused(commands[j]) ELSE commands[j]]
  <2>1. PICK k \in 1 .. Len(commands) - 1,
             c \in threads \cup (IF loop.op = "insert" THEN {loop.rec} ELSE {}) :
          /\ commands' = Insert(UpTo(k), c)
          /\ threads' = threads \ {c}
          /\ loop' = IF c \in threads THEN loop ELSE Free
    BY <1>7 DEF CancelDies
  <2>2. UpTo(k) \in Seq(Command)
    <3>1. UpTo(k) \in [DOMAIN commands -> Command]
      BY CommandsType, RefusedType
    <3> QED
      BY <3>1, RewriteType DEF TypeOK
  <2>3. /\ DOMAIN UpTo(k) = DOMAIN commands
        /\ \A j \in DOMAIN commands : UpTo(k)[j].id = commands[j].id
    BY CommandsType, RefusedId
  <2>4. c \in Unborn /\ seq' = seq
    BY <1>7, <2>1 DEF CancelDies, Unborn
  <2>5. \/ c \in threads /\ loop' = loop
        \/ c \notin threads /\ loop'.op # "insert"
    BY <2>1 DEF Free
  <2> HIDE DEF UpTo
  <2> QED
    BY <2>1, <2>2, <2>3, <2>4, <2>5, IdsInsert
<1>8. CASE StopPause
  <2>1. "control" \in Kinds
    BY DEF Kinds
  <2> QED
    BY <1>8, <2>1, NextBlankId, IdsBegin DEF StopPause
<1> QED
  BY <1>1, <1>2, <1>3, <1>4, <1>5, <1>6, <1>7, <1>8 DEF ThreadNext

\* Time, and the death of the server.
LEMMA IdsClockStep ==
  ASSUME TypeOK, IdsAreUnique, Tick \/ Restart
  PROVE  IdsAreUnique'
<1>1. CASE Tick
  <2>1. DOMAIN commands' = DOMAIN commands
    BY <1>1 DEF Tick
  <2>2. ASSUME NEW k \in DOMAIN commands PROVE commands'[k].id = commands[k].id
    <3>1. commands'[k] \in {commands[k], [commands[k] EXCEPT !.age = @ + 1]}
      BY <1>1 DEF Tick
    <3>2. [commands[k] EXCEPT !.age = @ + 1].id = commands[k].id
      BY CommandsType, Zenon DEF Command
    <3> QED
      BY <3>1, <3>2
  <2> QED
    BY <1>1, <2>1, <2>2, IdsKept DEF Tick
<1>2. CASE Restart
  BY <1>2 DEF Restart, IdsAreUnique, Records, Unborn, Free
<1> QED
  BY <1>1, <1>2

\* No two commands ever share an id, though event loop and worker threads number
\* and insert them in any order and a full registry forgets the oldest.
THEOREM IdsNameCommands == Spec => []IdsAreUnique
<1>1. Init => IdsAreUnique
  BY DEF Init, IdsAreUnique, Records, Unborn, Free
<1>2. TypeOK /\ IdsAreUnique /\ [Next]_vars => IdsAreUnique'
  <2> SUFFICES ASSUME TypeOK, IdsAreUnique, [Next]_vars PROVE IdsAreUnique'
    OBVIOUS
  <2>1. CASE Tick \/ Restart
    BY <2>1, IdsClockStep
  <2>2. CASE UNCHANGED vars
    BY <2>2, IdsKept DEF vars
  <2> QED
    BY <2>1, <2>2, IdsLoopStep, IdsThreadStep DEF Next
<1> QED
  BY <1>1, <1>2, TypeCorrect, PTL DEF Spec

-----------------------------------------------------------------------------
(* Steps that only add, settle and forget *)

\* Record c is record e, perhaps settled.
Follows(c, e) ==
  /\ c.id = e.id /\ c.kind = e.kind /\ c.owner = e.owner
  /\ c.status = e.status \/ c.status \in Terminal

\* Record c is new, and refused if the latch says so.
Fresh(c) ==
  /\ c.id = seq + 1
  /\ c.status = "failed" \/ (c.status = "queued" /\ ~Refuses(c))

Quiet ==
  /\ seq' \in {seq, seq + 1}
  /\ \A c \in Records' : \/ \E e \in Records : Follows(c, e)
                         \/ seq' = seq + 1 /\ Fresh(c)
  /\ \A c \in Unborn' : c \in Unborn \/ (seq' = seq + 1 /\ c.id = seq + 1)

LEMMA FollowsItself ==
  ASSUME NEW c
  PROVE  Follows(c, c)
BY DEF Follows

LEMMA RefusedFollows ==
  ASSUME NEW c \in Command
  PROVE  Follows(Refused(c), c)
<1>1. /\ Refused(c).id = c.id /\ Refused(c).kind = c.kind
      /\ Refused(c).owner = c.owner /\ Refused(c).status = "failed"
  BY Zenon DEF Refused, Command
<1> QED
  BY <1>1 DEF Follows, Terminal

\* An insertion brings in one record.
LEMMA InsertFrom ==
  ASSUME NEW cmds \in Seq(Command), NEW c \in Command,
         NEW k \in DOMAIN Insert(cmds, c)
  PROVE  Insert(cmds, c)[k] = c \/ \E j \in DOMAIN cmds : Insert(cmds, c)[k] = cmds[j]
<1> DEFINE longer == Append(cmds, c)
<1>1. /\ longer \in Seq(Command) /\ longer # <<>>
      /\ Len(cmds) \in Nat /\ DOMAIN cmds = 1 .. Len(cmds)
      /\ Len(longer) = Len(cmds) + 1 /\ DOMAIN longer = 1 .. Len(cmds) + 1
      /\ longer[Len(cmds) + 1] = c
      /\ \A j \in 1 .. Len(cmds) : longer[j] = cmds[j]
  OBVIOUS
<1>2. \A i \in DOMAIN longer : longer[i] = c \/ \E j \in DOMAIN cmds : longer[i] = cmds[j]
  BY <1>1
<1>3. \A i \in DOMAIN Tail(longer) : i + 1 \in DOMAIN longer /\ Tail(longer)[i] = longer[i + 1]
  BY <1>1
<1>4. Insert(cmds, c) \in {longer, Tail(longer)}
  BY DEF Insert
<1> HIDE DEF longer
<1> QED
  BY <1>2, <1>3, <1>4

LEMMA QuietKept ==
  ASSUME DOMAIN commands' = DOMAIN commands, seq' = seq, Unborn' \subseteq Unborn,
         \A k \in DOMAIN commands : Follows(commands'[k], commands[k])
  PROVE  Quiet
BY FollowsItself DEF Quiet, Records

LEMMA QuietInsert ==
  ASSUME NEW cmds \in Seq(Command), NEW c \in Unborn, c \in Command,
         DOMAIN cmds = DOMAIN commands,
         \A k \in DOMAIN commands : Follows(cmds[k], commands[k]),
         commands' = Insert(cmds, c), seq' = seq, Unborn' \subseteq Unborn
  PROVE  Quiet
<1>1. ASSUME NEW k \in DOMAIN commands'
      PROVE  \E e \in Records : Follows(commands'[k], e)
  <2>1. commands'[k] = c \/ \E j \in DOMAIN cmds : commands'[k] = cmds[j]
    BY <1>1, InsertFrom
  <2> QED
    BY <2>1, FollowsItself DEF Records
<1> QED
  BY <1>1, FollowsItself DEF Quiet, Records

LEMMA GateFresh ==
  ASSUME NEW c \in Command, c.id = seq + 1, c.status = "queued"
  PROVE  Fresh(Gate(c))
<1>1. CASE Refuses(c)
  <2>1. Refused(c).id = c.id /\ Refused(c).status = "failed"
    BY Zenon DEF Refused, Command
  <2> QED
    BY <1>1, <2>1 DEF Gate, Fresh
<1>2. CASE ~Refuses(c)
  BY <1>2 DEF Gate, Fresh
<1> QED
  BY <1>1, <1>2

LEMMA QuietBegin ==
  ASSUME NEW c \in Command, c.id = seq + 1, c.status = "queued", BeginEnqueue(c),
         DOMAIN commands' = DOMAIN commands, loop' = loop,
         \A k \in DOMAIN commands : Follows(commands'[k], commands[k])
  PROVE  Quiet
<1> DEFINE g == Gate(c)
<1>1. Fresh(g) /\ g.id = seq + 1
  BY GateFresh DEF Fresh
<1>2. seq' = seq + 1 /\ Unborn' = Unborn \cup {g}
  BY DEF BeginEnqueue, Unborn
<1> HIDE DEF g
<1>3. \A e \in Unborn' : e \in Unborn \/ (seq' = seq + 1 /\ e.id = seq + 1)
  BY <1>1, <1>2
<1>4. ASSUME NEW e \in Records'
      PROVE  (\E f \in Records : Follows(e, f)) \/ Fresh(e)
  BY <1>1, <1>2, FollowsItself DEF Records
<1> QED
  BY <1>2, <1>3, <1>4 DEF Quiet

\* Records rewritten by a scan that refuses some of them.
LEMMA ScanFollows ==
  ASSUME TypeOK, NEW S, NEW new,
         new = [k \in DOMAIN commands |->
                  IF k \in S THEN Refused(commands[k]) ELSE commands[k]]
  PROVE  /\ new \in Seq(Command) /\ DOMAIN new = DOMAIN commands
         /\ \A k \in DOMAIN commands : Follows(new[k], commands[k])
<1>1. new \in [DOMAIN commands -> Command]
  BY CommandsType, RefusedType
<1>2. \A k \in DOMAIN commands : Follows(new[k], commands[k])
  BY CommandsType, RefusedFollows, FollowsItself
<1> QED
  BY <1>1, <1>2, RewriteType DEF TypeOK

LEMMA LoopQuiet ==
  ASSUME TypeOK, LoopNext
  PROVE  ClaimCommit \/ Quiet
<1>1. ASSUME NEW p \in Postable, PostCommand(p)
      PROVE  Quiet
  <2> DEFINE c == Blank(seq + 1, p.kind, p.owner)
  <2>1. c.id = seq + 1 /\ c.status = "queued"
    BY DEF Blank
  <2> HIDE DEF c
  <2>2. /\ ~Refuses(c) /\ seq' = seq + 1 /\ loop = Free
        /\ UNCHANGED <<commands, threads>>
        /\ loop' = [op |-> "insert", rec |-> c]
    BY <1>1 DEF PostCommand, c
  <2>3. Unborn' = Unborn \cup {c}
    BY <2>2 DEF Unborn, Free
  <2> QED
    BY <2>1, <2>2, <2>3, FollowsItself DEF Quiet, Records, Fresh
<1>2. CASE LoopInsert
  <2>1. loop.rec \in Unborn /\ loop.rec \in Command
    BY <1>2, LoopType DEF LoopInsert, Unborn, TypeOK
  <2>2. Unborn' \subseteq Unborn /\ seq' = seq
    BY <1>2 DEF LoopInsert, Unborn, Free
  <2> QED
    BY <1>2, <2>1, <2>2, QuietInsert, FollowsItself DEF LoopInsert, TypeOK
<1>3. ASSUME NEW d \in Devices, PollBegin(d) \/ PollTimesOut(d)
      PROVE  Quiet
  BY <1>3, QuietKept, FollowsItself DEF PollBegin, PollTimesOut, Unborn
<1>4. ASSUME NEW d \in Devices, ClaimCheck(d)
      PROVE  Quiet
  <2>1. PICK S : commands' = [k \in DOMAIN commands |->
                                IF k \in S THEN Refused(commands[k]) ELSE commands[k]]
    BY <1>4 DEF ClaimCheck
  <2>2. Unborn' \subseteq Unborn /\ seq' = seq
    BY <1>4 DEF ClaimCheck, Unborn, Free
  <2> QED
    BY <2>1, <2>2, ScanFollows, QuietKept
<1>5. ASSUME NEW d \in Devices, ClaimDies(d)
      PROVE  Quiet
  <2>1. PICK k \in 0 .. Len(commands) - 1, c \in threads :
          /\ commands' = Insert([j \in DOMAIN commands |->
                                  IF /\ j \in {i \in DOMAIN commands :
                                               Owed(commands[i], d)}
                                     /\ j <= k
                                  THEN Refused(commands[j]) ELSE commands[j]], c)
          /\ threads' = threads \ {c}
    BY <1>5 DEF ClaimDies
  <2> DEFINE S == {j \in DOMAIN commands :
                     j \in {i \in DOMAIN commands : Owed(commands[i], d)} /\ j <= k}
             upTo == [j \in DOMAIN commands |->
                        IF j \in S THEN Refused(commands[j]) ELSE commands[j]]
  <2>2. commands' = Insert(upTo, c)
    BY <2>1
  <2>3. /\ upTo \in Seq(Command) /\ DOMAIN upTo = DOMAIN commands
        /\ \A j \in DOMAIN commands : Follows(upTo[j], commands[j])
    <3> HIDE DEF S
    <3> QED
      BY ScanFollows
  <2>4. c \in Unborn /\ c \in Command /\ Unborn' \subseteq Unborn /\ seq' = seq
    BY <1>5, <2>1 DEF ClaimDies, Unborn, TypeOK
  <2> HIDE DEF upTo
  <2> QED
    BY <2>2, <2>3, <2>4, QuietInsert
<1> QED
  BY <1>1, <1>2, <1>3, <1>4, <1>5 DEF LoopNext

LEMMA ThreadQuiet ==
  ASSUME TypeOK, ThreadNext
  PROVE  Quiet
<1>1. CASE ThreadInsert
  <2>1. PICK c \in threads : /\ commands' = Insert(commands, c)
                             /\ threads' = threads \ {c}
                             /\ UNCHANGED <<seq, loop>>
    BY <1>1 DEF ThreadInsert
  <2>2. c \in Unborn /\ c \in Command /\ Unborn' \subseteq Unborn
    BY <2>1 DEF Unborn, TypeOK
  <2> QED
    BY <2>1, <2>2, QuietInsert, FollowsItself DEF TypeOK
<1>2. ASSUME NEW d \in Devices, NEW k \in DOMAIN commands, NEW a \in Answers,
             Ack(d, k, a)
      PROVE  Quiet
  <2> DEFINE c == [commands[k] EXCEPT
                     !.status = IF a = "ok" THEN "acked" ELSE "failed",
                     !.ack = a, !.age = 0]
             h == Handoff(c.target, c.to, c.playing, c.id)
  <2>1. c \in Command /\ Follows(c, commands[k])
    <3>1. commands[k] \in Command
      BY CommandsType
    <3>2. /\ c.id = commands[k].id /\ c.kind = commands[k].kind
          /\ c.owner = commands[k].owner
          /\ c.status = IF a = "ok" THEN "acked" ELSE "failed"
      BY <3>1, Zenon DEF Command
    <3>3. c \in Command
      BY <3>1, AnsweredType
    <3> QED
      BY <3>2, <3>3 DEF Follows, Terminal
  <2>2. commands' = [commands EXCEPT ![k] = c] /\ loop' = loop
    BY <1>2, Zenon DEF Ack
  <2>3. /\ DOMAIN commands' = DOMAIN commands
        /\ \A j \in DOMAIN commands : Follows(commands'[j], commands[j])
    <3> HIDE DEF c
    <3> QED
      BY <2>1, <2>2, FollowsItself
  <2>4. \/ UNCHANGED <<seq, threads>>
        \/ None \notin {c.target, c.to} /\ BeginEnqueue(h)
    BY <1>2, Zenon DEF Ack
  <2>5. CASE None \notin {c.target, c.to} /\ BeginEnqueue(h)
    <3>1. c.target \in Devices /\ c.to \in Devices /\ c.playing \in BOOLEAN /\ c.id \in Nat
      <4>1. /\ c.target \in Devices \cup {None} /\ c.to \in Devices \cup {None}
            /\ c.playing \in BOOLEAN /\ c.id \in Nat
        <5> HIDE DEF c
        <5> QED
          BY <2>1, Zenon DEF Command
      <4> QED
        BY <2>5, <4>1, Zenon
    <3>2. h \in Command
      <4> HIDE DEF c
      <4> QED
        BY <3>1, HandoffType, Zenon DEF TypeOK
    <3>3. h.id = seq + 1 /\ h.status = "queued"
      <4> HIDE DEF c
      <4> QED
        BY DEF Handoff, Blank
    <3> HIDE DEF h, c
    <3> QED
      BY <2>2, <2>3, <2>5, <3>2, <3>3, QuietBegin
  <2>6. CASE UNCHANGED <<seq, threads>>
    BY <2>2, <2>3, <2>6, QuietKept DEF Unborn
  <2> QED
    BY <2>4, <2>5, <2>6
<1>3. ASSUME NEW d \in Devices, NEW r \in Reports, PostState(d, r)
      PROVE  Quiet
  <2>1. CASE UNCHANGED <<seq, threads>>
    BY <1>3, <2>1, QuietKept, FollowsItself DEF PostState, Unborn
  <2>2. CASE BeginEnqueue(Blank(seq + 1, "queue", FALSE))
    <3>1. Blank(seq + 1, "queue", FALSE) \in Command
      BY NextBlankType, Zenon DEF TypeOK, Kinds
    <3>2. /\ Blank(seq + 1, "queue", FALSE).id = seq + 1
          /\ Blank(seq + 1, "queue", FALSE).status = "queued"
      BY DEF Blank
    <3>3. UNCHANGED <<commands, loop>>
      BY <1>3 DEF PostState
    <3> QED
      BY <2>2, <3>1, <3>2, <3>3, QuietBegin, FollowsItself
  <2> QED
    BY <1>3, <2>1, <2>2 DEF PostState
<1>4. ASSUME NEW d \in Devices, Transfer(d)
      PROVE  Quiet
  <2> DEFINE prev == IF active = None THEN Phone ELSE active
             was == report[prev].playing
             ask == [Blank(seq + 1, "deactivate", FALSE) EXCEPT
                       !.target = prev, !.to = d, !.playing = was]
             new == IF Live(prev)
                    THEN ask ELSE Handoff(prev, d, was, 0)
  <2>1. prev \in Devices
    BY BusAssumption DEF TypeOK
  <2>2. was \in BOOLEAN
    <3>1. report[prev] \in Report
      BY <2>1 DEF TypeOK
    <3> QED
      BY <3>1, Zenon DEF Report
  <2>3. UNCHANGED <<seq, threads>> \/ BeginEnqueue(new)
    BY <1>4, Zenon DEF Transfer
  <2>4. ask \in Command /\ ask.id = seq + 1 /\ ask.status = "queued"
    <3>1. ask.id = seq + 1 /\ ask.status = "queued"
      BY DEF Blank
    <3> HIDE DEF prev, was
    <3> QED
      BY <2>1, <2>2, <3>1, AskType, Zenon DEF TypeOK
  <2>5. /\ Handoff(prev, d, was, 0) \in Command
        /\ Handoff(prev, d, was, 0).id = seq + 1
        /\ Handoff(prev, d, was, 0).status = "queued"
    <3> HIDE DEF prev, was
    <3>1. 0 \in Nat
      OBVIOUS
    <3>2. Handoff(prev, d, was, 0) \in Command
      BY <2>1, <2>2, <3>1, HandoffType, Zenon DEF TypeOK
    <3> QED
      BY <3>2 DEF Handoff, Blank
  <2>6. new \in Command /\ new.id = seq + 1 /\ new.status = "queued"
    <3> HIDE DEF prev, was, ask
    <3> QED
      BY <2>4, <2>5
  <2> HIDE DEF new
  <2>7. CASE BeginEnqueue(new)
    BY <1>4, <2>6, <2>7, QuietBegin, FollowsItself DEF Transfer
  <2>8. CASE UNCHANGED <<seq, threads>>
    BY <1>4, <2>8, QuietKept, FollowsItself DEF Transfer, Unborn
  <2> QED
    BY <2>3, <2>7, <2>8
<1>5. CASE StopLatch \/ LiftLatch
  BY <1>5, QuietKept, FollowsItself DEF StopLatch, LiftLatch, Unborn
<1>6. CASE CancelStarts
  <2>1. /\ DOMAIN commands' = DOMAIN commands
        /\ \A k \in DOMAIN commands : Follows(commands'[k], commands[k])
    BY <1>6, ScanFollows DEF CancelStarts
  <2> QED
    BY <1>6, <2>1, QuietKept DEF CancelStarts, Unborn
<1>7. CASE CancelDies
  <2>1. PICK k \in 1 .. Len(commands) - 1,
             c \in threads \cup (IF loop.op = "insert" THEN {loop.rec} ELSE {}) :
          /\ commands' = Insert([j \in DOMAIN commands |->
                                   IF j \in ToCancel /\ j <= k
                                   THEN Refused(commands[j]) ELSE commands[j]], c)
          /\ threads' = threads \ {c}
          /\ loop' = IF c \in threads THEN loop ELSE Free
    BY <1>7 DEF CancelDies
  <2> DEFINE S == {j \in DOMAIN commands : j \in ToCancel /\ j <= k}
             upTo == [j \in DOMAIN commands |->
                        IF j \in S THEN Refused(commands[j]) ELSE commands[j]]
  <2>2. commands' = Insert(upTo, c)
    BY <2>1
  <2>3. /\ upTo \in Seq(Command) /\ DOMAIN upTo = DOMAIN commands
        /\ \A j \in DOMAIN commands : Follows(upTo[j], commands[j])
    <3> HIDE DEF S
    <3> QED
      BY ScanFollows
  <2>4. c \in Unborn /\ c \in Command /\ Unborn' \subseteq Unborn /\ seq' = seq
    BY <1>7, <2>1, LoopType DEF CancelDies, Unborn, TypeOK, Free
  <2> HIDE DEF upTo
  <2> QED
    BY <2>2, <2>3, <2>4, QuietInsert
<1>8. CASE StopPause
  <2>1. Blank(seq + 1, "control", FALSE) \in Command
    BY NextBlankType, Zenon DEF TypeOK, Kinds
  <2>2. /\ Blank(seq + 1, "control", FALSE).id = seq + 1
        /\ Blank(seq + 1, "control", FALSE).status = "queued"
    BY DEF Blank
  <2> QED
    BY <1>8, <2>1, <2>2, QuietBegin, FollowsItself DEF StopPause
<1> QED
  BY <1>1, <1>2, <1>3, <1>4, <1>5, <1>6, <1>7, <1>8 DEF ThreadNext

\* Every step is quiet but the one that hands a command out.
LEMMA StepQuiet ==
  ASSUME TypeOK, [Next]_vars
  PROVE  ClaimCommit \/ Quiet
<1>1. CASE Tick
  <2>1. DOMAIN commands' = DOMAIN commands
    BY <1>1 DEF Tick
  <2>2. ASSUME NEW k \in DOMAIN commands PROVE Follows(commands'[k], commands[k])
    <3>1. commands'[k] \in {commands[k], [commands[k] EXCEPT !.age = @ + 1]}
      BY <1>1 DEF Tick
    <3> DEFINE aged == [commands[k] EXCEPT !.age = @ + 1]
    <3>2. /\ aged.id = commands[k].id /\ aged.kind = commands[k].kind
          /\ aged.owner = commands[k].owner /\ aged.status = commands[k].status
      BY CommandsType, Zenon DEF Command
    <3> QED
      BY <3>1, <3>2 DEF Follows
  <2> QED
    BY <1>1, <2>1, <2>2, QuietKept DEF Tick, Unborn
<1>2. CASE Restart
  BY <1>2 DEF Restart, Quiet, Records, Unborn, Free
<1>3. CASE UNCHANGED vars
  BY <1>3, QuietKept, FollowsItself DEF vars, Unborn
<1> QED
  BY <1>1, <1>2, <1>3, LoopQuiet, ThreadQuiet DEF Next

-----------------------------------------------------------------------------
(* The claim under way *)

\* What a claim holds: a command that was open when it was picked, and whose id
\* nobody is about to insert.
Holds ==
  Claimed => /\ loop.rec.status \in Outstanding
             /\ loop.rec.id \in 1 .. seq
             /\ \A c \in Unborn : c.id # loop.rec.id

LEMMA OnlyClaimCheckPicks ==
  ASSUME [Next]_vars
  PROVE  loop' = loop \/ ~Claimed' \/ \E d \in Devices : ClaimCheck(d)
<1>1. CASE LoopNext
  <2>1. ASSUME NEW p \in Postable, PostCommand(p) PROVE ~Claimed'
    BY <2>1 DEF PostCommand, Claimed
  <2>2. ASSUME LoopInsert \/ ClaimCommit PROVE ~Claimed'
    <3>1. loop' = Free
      BY <2>2, Zenon DEF LoopInsert, ClaimCommit
    <3> QED
      BY <3>1 DEF Claimed, Free
  <2>3. ASSUME NEW d \in Devices, PollBegin(d) \/ PollTimesOut(d) \/ ClaimDies(d)
        PROVE  loop' = loop
    BY <2>3 DEF PollBegin, PollTimesOut, ClaimDies
  <2> QED
    BY <1>1, <2>1, <2>2, <2>3 DEF LoopNext
<1>2. CASE ThreadNext
  <2>1. CASE ThreadInsert
    BY <2>1 DEF ThreadInsert
  <2>2. ASSUME NEW d \in Devices, NEW k \in DOMAIN commands, NEW a \in Answers,
               Ack(d, k, a)
        PROVE  loop' = loop
    BY <2>2 DEF Ack
  <2>3. ASSUME NEW d \in Devices, NEW r \in Reports, PostState(d, r)
        PROVE  loop' = loop
    BY <2>3 DEF PostState
  <2>4. ASSUME NEW d \in Devices, Transfer(d) PROVE loop' = loop
    BY <2>4 DEF Transfer
  <2>5. CASE StopLatch \/ CancelStarts \/ StopPause \/ LiftLatch
    BY <2>5 DEF StopLatch, CancelStarts, StopPause, LiftLatch
  <2>6. CASE CancelDies
    BY <2>6 DEF CancelDies, Claimed, Free
  <2> QED
    BY <1>2, <2>1, <2>2, <2>3, <2>4, <2>5, <2>6 DEF ThreadNext
<1>3. CASE Tick \/ Restart \/ UNCHANGED vars
  BY <1>3 DEF Tick, Restart, vars, Claimed, Free
<1> QED
  BY <1>1, <1>2, <1>3 DEF Next

\* What ClaimCheck picks, if anything.
LEMMA ClaimPicks ==
  ASSUME NEW d \in Devices, ClaimCheck(d)
  PROVE  /\ loop = Free
         /\ \/ loop' = Free
            \/ \E k \in DOMAIN commands :
                 /\ commands[k].status \in Outstanding
                 /\ ~Refuses(commands[k])
                 /\ loop' = [op |-> "claim", dev |-> d, rec |-> commands[k]]
BY DEF ClaimCheck, Owed, Outstanding

LEMMA HoldsStep ==
  ASSUME TypeOK, IdsAreUnique, Holds, [Next]_vars
  PROVE  Holds'
<1>1. CASE loop' = loop
  <2>1. CASE ~Claimed
    BY <1>1, <2>1 DEF Holds, Claimed
  <2>2. CASE ClaimCommit
    BY <2>2 DEF ClaimCommit, Free, Holds, Claimed
  <2>3. CASE Claimed /\ Quiet
    <3>1. seq \in Nat /\ seq' \in {seq, seq + 1}
      BY <2>3 DEF Quiet, TypeOK
    <3>2. \A c \in Unborn' : c.id # loop.rec.id
      BY <2>3, <3>1 DEF Holds, Quiet
    <3> QED
      BY <1>1, <2>3, <3>1, <3>2 DEF Holds
  <2> QED
    BY <2>1, <2>2, <2>3, StepQuiet
<1>2. ASSUME NEW d \in Devices, ClaimCheck(d)
      PROVE  Holds'
  <2>1. CASE loop' = Free
    BY <2>1 DEF Holds, Claimed, Free
  <2>2. ASSUME NEW k \in DOMAIN commands, commands[k].status \in Outstanding,
               loop' = [op |-> "claim", dev |-> d, rec |-> commands[k]]
        PROVE  Holds'
    <3>1. /\ Unborn' \subseteq Unborn
          /\ seq' = seq
      BY <1>2, <2>2 DEF ClaimCheck, Unborn
    <3>2. commands[k].id \in 1 .. seq /\ \A c \in Unborn : c.id # commands[k].id
      BY DEF IdsAreUnique, Records
    <3> QED
      BY <2>2, <3>1, <3>2 DEF Holds
  <2> QED
    BY <1>2, <2>1, <2>2, ClaimPicks
<1>3. CASE ~Claimed'
  BY <1>3 DEF Holds
<1> QED
  BY <1>1, <1>2, <1>3, OnlyClaimCheckPicks

THEOREM HoldsAlways == Spec => []Holds
<1>1. Init => Holds
  BY DEF Init, Holds, Claimed, Free
<1> QED
  BY <1>1, HoldsStep, TypeCorrect, IdsNameCommands, PTL DEF Spec

\* No two records have one id.
LEMMA IdsDetermine ==
  ASSUME IdsAreUnique, NEW c \in Records, NEW e \in Records, c.id = e.id
  PROVE  c = e
BY DEF IdsAreUnique, Records, Unborn

\* A settled command is offered again by nothing but a claim that had picked it
\* while it was open: not by a retry, an ack, a transfer or a late insertion.
THEOREM SettledStays == Spec => OnlyAPendingClaimRevives
<1> DEFINE Revives(j, k) ==
             /\ commands[j].id = commands'[k].id
             /\ commands[j].status \in Terminal
             /\ commands'[k].status \in Outstanding
           ByTheClaim(j) ==
             /\ loop.op = "claim" /\ loop.rec.id = commands[j].id
             /\ loop.rec.status \in Outstanding
<1>1. ASSUME TypeOK, IdsAreUnique, Holds, [Next]_vars,
             NEW j \in DOMAIN commands, NEW k \in DOMAIN commands', Revives(j, k)
      PROVE  ByTheClaim(j)
  <2>1. CASE ClaimCommit
    <3>1. DOMAIN commands' = DOMAIN commands /\ loop.op = "claim"
      BY <2>1 DEF ClaimCommit
    <3>2. commands'[k] = IF commands[k].id = loop.rec.id
                         THEN [commands[k] EXCEPT !.status = "delivered",
                                                  !.handedTo = @ \cup {loop.dev},
                                                  !.age = 0]
                         ELSE commands[k]
      BY <2>1, <3>1, Zenon DEF ClaimCommit
    <3>3. commands'[k].id = commands[k].id
      <4>1. commands[k] \in Command
        BY <1>1, <3>1, CommandsType
      <4> QED
        BY <3>2, <4>1, Zenon DEF Command
    <3>4. j = k
      BY <1>1, <3>1, <3>3 DEF IdsAreUnique
    <3>5. commands[k].id = loop.rec.id
      BY <1>1, <3>2, <3>4 DEF Outstanding, Terminal
    <3> QED
      BY <1>1, <3>1, <3>4, <3>5 DEF Holds, Claimed
  <2>2. CASE Quiet
    <3>1. commands[j] \in Records /\ commands'[k] \in Records'
      BY DEF Records
    <3>2. commands[j].id # seq + 1
      BY <1>1, <3>1 DEF IdsAreUnique, TypeOK
    <3>3. PICK e \in Records : Follows(commands'[k], e)
      BY <1>1, <2>2, <3>1, <3>2 DEF Quiet, Fresh
    <3>4. e = commands[j]
      BY <1>1, <3>1, <3>3, IdsDetermine DEF Follows
    <3> QED
      BY <1>1, <3>3, <3>4 DEF Follows, Outstanding, Terminal
  <2> QED
    BY <1>1, <2>1, <2>2, StepQuiet
<1>2. TypeOK /\ IdsAreUnique /\ Holds /\ [Next]_vars
      => [\A j \in DOMAIN commands, k \in DOMAIN commands' :
            /\ commands[j].id = commands'[k].id
            /\ commands[j].status \in Terminal
            /\ commands'[k].status \in Outstanding
            => /\ loop.op = "claim" /\ loop.rec.id = commands[j].id
               /\ loop.rec.status \in Outstanding]_vars
  BY <1>1
<1> QED
  BY <1>2, TypeCorrect, IdsNameCommands, HoldsAlways, PTL
  DEF Spec, OnlyAPendingClaimRevives

-----------------------------------------------------------------------------
(* The bus is a Mailbox *)

LEMMA ViewOf ==
  ASSUME NEW c
  PROVE  /\ View(c).id = c.id /\ View(c).stage = Stage(c)
         /\ View(c).start = Gated(c)
         /\ View(c) = [id |-> c.id, stage |-> Stage(c), start |-> Gated(c)]
BY DEF View

\* Kind and owner make a gated command.
LEMMA FollowsView ==
  ASSUME NEW c, NEW e, Follows(c, e)
  PROVE  \/ View(c) = View(e)
         \/ /\ e.status \notin Terminal
            /\ View(c) = [View(e) EXCEPT !.stage = "settled"]
<1>1. c.id = e.id /\ Gated(c) = Gated(e)
  BY DEF Follows, Gated, Start
<1>2. CASE c.status = e.status
  <2>1. Stage(c) = Stage(e)
    BY <1>2 DEF Stage
  <2> QED
    BY <1>1, <2>1 DEF View
<1>3. CASE c.status \in Terminal /\ e.status \in Terminal
  <2>1. Stage(c) = "settled" /\ Stage(e) = "settled"
    BY <1>3 DEF Stage, Terminal
  <2> QED
    BY <1>1, <2>1 DEF View
<1>4. CASE c.status \in Terminal /\ e.status \notin Terminal
  <2>1. Stage(c) = "settled"
    BY <1>4 DEF Stage, Terminal
  <2>2. View(c) = [View(e) EXCEPT !.stage = "settled"]
    BY <1>1, <2>1 DEF View
  <2> QED
    BY <1>4, <2>2
<1> QED
  BY <1>2, <1>3, <1>4 DEF Follows

LEMMA OpenStage ==
  ASSUME NEW c \in Command
  PROVE  /\ c.status \in Outstanding <=> Stage(c) \in {"waiting", "offered"}
         /\ c.status \notin Terminal <=> c.status \in Outstanding
         /\ c.status \in Terminal <=> Stage(c) = "settled"
<1>1. c.status \in Outstanding \cup Terminal
  BY Zenon DEF Command
<1> QED
  BY <1>1 DEF Stage, Outstanding, Terminal

LEMMA RecordsType ==
  ASSUME TypeOK, NEW c \in Records
  PROVE  c \in Command
BY LoopType, CommandsType DEF Records, Unborn, TypeOK

\* Views are numbered as their records are.
LEMMA ViewsNumbered ==
  ASSUME NEW S, \A c, e \in S : c.id = e.id => c = e
  PROVE  Box!Numbered({View(c) : c \in S})
<1>1. \A c \in S : View(c).id = c.id
  BY ViewOf
<1> QED
  BY <1>1 DEF Box!Numbered

\* A quiet step that leaves the claim and the latch as they are is the Mailbox's
\* Work.
LEMMA QuietIsWork ==
  ASSUME TypeOK, IdsAreUnique', Quiet, UNCHANGED <<latch, slipped>>,
         loop' = loop \/ (~Claimed /\ ~Claimed')
  PROVE  Box!Work
<1> DEFINE box == {View(c) : c \in Records}
<1>1. UNCHANGED <<IF Claimed THEN loop.rec.id ELSE 0, Claimed /\ Gated(loop.rec),
                  latch, slipped>>
  BY DEF Claimed, Gated, Start
<1> DEFINE Worked(v) == \/ v \in box
                        \/ /\ v.stage = "settled"
                           /\ \E e \in Box!OpenIn(box) : v = Box!Settled(e)
                        \/ Box!Posted(v)
<1>2. ASSUME NEW r \in Records'
      PROVE  Worked(View(r))
  <2>1. ASSUME NEW e \in Records, Follows(r, e)
        PROVE  Worked(View(r))
    <3>1. CASE View(r) = View(e)
      BY <3>1
    <3>2. CASE /\ e.status \notin Terminal
               /\ View(r) = [View(e) EXCEPT !.stage = "settled"]
      <4>1. View(e) \in Box!OpenIn(box)
        BY <3>2, RecordsType, OpenStage, ViewOf DEF Box!OpenIn, Box!Open
      <4>2. View(r) = Box!Settled(View(e))
        BY <3>2 DEF Box!Settled
      <4>3. View(r).stage = "settled"
        BY <3>2, ViewOf
      <4> HIDE DEF box
      <4> QED
        BY <4>1, <4>2, <4>3
    <3> QED
      BY <2>1, <3>1, <3>2, FollowsView
  <2>2. CASE seq' = seq + 1 /\ Fresh(r)
    <3>1. r.id = seq' /\ (r.status = "failed" \/ (r.status = "queued" /\ ~Refuses(r)))
      BY <2>2 DEF Fresh
    <3>2. \/ View(r).stage = "settled"
          \/ View(r).stage = "waiting" /\ ~Box!Refused(View(r))
      BY <3>1, ViewOf DEF Stage, Terminal, Refuses, Box!Refused
    <3>3. Box!Posted(View(r))
      BY <2>2, <3>1, <3>2, ViewOf DEF Box!Posted
    <3> QED
      BY <3>3
  <2> QED
    BY <2>1, <2>2 DEF Quiet
<1>3. \A v \in box' : Worked(v)
  BY <1>2
<1>4. Box!Numbered(box')
  <2>1. \A c, e \in Records' : c.id = e.id => c = e
    BY DEF IdsAreUnique, Records, Unborn
  <2> QED
    BY <2>1, ViewsNumbered
<1>5. seq' \in {seq, seq + 1}
  BY DEF Quiet
<1> QED
  BY <1>1, <1>3, <1>4, <1>5 DEF Box!Work

LEMMA RefusedView ==
  ASSUME NEW c \in Command
  PROVE  View(Refused(c)) = Box!Settled(View(c))
<1>1. /\ Refused(c).id = c.id /\ Refused(c).kind = c.kind
      /\ Refused(c).owner = c.owner /\ Refused(c).status = "failed"
  BY Zenon DEF Refused, Command
<1>2. Stage(Refused(c)) = "settled" /\ Gated(Refused(c)) = Gated(c)
  BY <1>1 DEF Stage, Terminal, Gated, Start
<1> QED
  BY <1>1, <1>2 DEF View, Box!Settled

LEMMA DeliveredView ==
  ASSUME NEW c \in Command, NEW e \in Command,
         e = [c EXCEPT !.status = "delivered", !.handedTo = @ \cup {loop.dev}, !.age = 0]
  PROVE  View(e) = Box!Offered(View(c))
<1>1. /\ e.id = c.id /\ e.kind = c.kind /\ e.owner = c.owner
      /\ e.status = "delivered"
  BY Zenon DEF Command
<1>2. Stage(e) = "offered" /\ Gated(e) = Gated(c)
  BY <1>1 DEF Stage, Terminal, Gated, Start
<1> QED
  BY <1>1, <1>2 DEF View, Box!Offered

\* A claim that finds a command it may deliver is the Mailbox's Pick.
LEMMA ClaimIsPick ==
  ASSUME TypeOK, IdsAreUnique, NEW d \in Devices, ClaimCheck(d), loop' # Free
  PROVE  Box!Pick
<1> DEFINE box == {View(c) : c \in Records}
<1>1. PICK k \in DOMAIN commands :
        /\ commands[k].status \in Outstanding
        /\ ~Refuses(commands[k])
        /\ loop' = [op |-> "claim", dev |-> d, rec |-> commands[k]]
  BY ClaimPicks
<1>2. PICK skipped \in SUBSET DOMAIN commands :
        /\ \A j \in skipped : Refuses(commands[j])
        /\ commands' = [j \in DOMAIN commands |->
                          IF j \in skipped THEN Refused(commands[j])
                                           ELSE commands[j]]
  BY DEF ClaimCheck
<1>3. UNCHANGED <<seq, latch, slipped, threads>> /\ loop = Free
  BY ClaimPicks DEF ClaimCheck, stopVars
<1>4. commands[k].id \in 1 .. seq /\ commands[k] \in Records
  BY DEF IdsAreUnique, Records
<1>5. /\ (IF Claimed THEN loop.rec.id ELSE 0) = 0
      /\ (IF Claimed' THEN loop'.rec.id ELSE 0) = commands[k].id
      /\ (Claimed' /\ Gated(loop'.rec)) = Gated(commands[k])
      /\ commands[k].id # 0
  BY <1>1, <1>3, <1>4 DEF Claimed, Free, Gated, Start, TypeOK
<1>6. /\ View(commands[k]) \in Box!OpenIn(box)
      /\ View(commands[k]).id = commands[k].id
      /\ View(commands[k]).start = Gated(commands[k])
      /\ ~Box!Refused(View(commands[k]))
  <2>1. Stage(commands[k]) \in {"waiting", "offered"}
    BY <1>1, CommandsType, OpenStage
  <2> QED
    BY <1>1, <1>4, <2>1, ViewOf DEF Box!OpenIn, Box!Open, Box!Refused, Refuses
<1> DEFINE S == {View(commands[j]) : j \in skipped}
<1>7. S \in SUBSET {c \in box : Box!Refused(c)}
  <2>1. \A j \in skipped : commands[j] \in Records /\ Box!Refused(View(commands[j]))
    BY <1>2, ViewOf DEF Records, Box!Refused, Refuses
  <2> QED
    BY <2>1
<1>8. box' = (box \ S) \cup {Box!Settled(c) : c \in S}
  <2>1. Records' = {commands'[j] : j \in DOMAIN commands} \cup Unborn
    BY <1>1, <1>2, <1>3 DEF Records, Unborn, Free
  <2>2. \A j \in skipped : View(commands'[j]) = Box!Settled(View(commands[j]))
    BY <1>2, CommandsType, RefusedView
  <2>3. \A j \in DOMAIN commands \ skipped :
          commands'[j] = commands[j] /\ View(commands[j]) \notin S
    BY <1>2, ViewOf DEF IdsAreUnique
  <2>4. \A c \in Unborn : View(c) \notin S
    BY <1>2, ViewOf DEF IdsAreUnique
  <2>5. ASSUME NEW r \in Records'
        PROVE  View(r) \in (box \ S) \cup {Box!Settled(c) : c \in S}
    <3>1. CASE r \in Unborn
      BY <2>4, <3>1 DEF Records
    <3>2. ASSUME NEW j \in skipped, r = commands'[j]
          PROVE  View(r) \in {Box!Settled(c) : c \in S}
      BY <2>2, <3>2
    <3>3. ASSUME NEW j \in DOMAIN commands \ skipped, r = commands'[j]
          PROVE  View(r) \in box \ S
      BY <2>3, <3>3 DEF Records
    <3> QED
      BY <2>1, <3>1, <3>2, <3>3
  <2>6. ASSUME NEW r \in Records, View(r) \notin S
        PROVE  View(r) \in box'
    <3>1. r \in Unborn \/ \E j \in DOMAIN commands \ skipped : r = commands[j]
      BY <2>6 DEF Records
    <3>2. r \in Records'
      BY <2>1, <2>3, <3>1
    <3> QED
      BY <3>2
  <2>7. ASSUME NEW j \in skipped
        PROVE  Box!Settled(View(commands[j])) \in box'
    <3>1. commands'[j] \in Records'
      BY <2>1
    <3> QED
      BY <2>2, <3>1
  <2> QED
    BY <2>5, <2>6, <2>7
<1> HIDE DEF box, S
<1> QED
  BY <1>3, <1>5, <1>6, <1>7, <1>8 DEF Box!Pick, box

\* The hand-out is the Mailbox's Offer: the mark goes by the id alone, and the
\* id is nobody else's.
LEMMA CommitIsOffer ==
  ASSUME TypeOK, IdsAreUnique, Holds, ClaimCommit
  PROVE  Box!Offer
<1> DEFINE box == {View(c) : c \in Records}
           held == loop.rec.id
<1>1. Claimed /\ held # 0
  <2>1. Claimed
    BY DEF ClaimCommit, Claimed
  <2>2. held \in 1 .. seq /\ seq \in Nat
    BY <2>1 DEF Holds, TypeOK
  <2> QED
    BY <2>1, <2>2
<1>2. loop' = Free /\ UNCHANGED <<seq, latch, threads>>
  BY DEF ClaimCommit, stopVars
<1>3. ~Claimed'
  BY <1>2 DEF Claimed, Free
<1>4. slipped' = IF latch /\ Gated(loop.rec) THEN slipped + 1 ELSE slipped
  BY DEF ClaimCommit
<1>5. Unborn' = Unborn
  BY <1>1, <1>2 DEF Unborn, Claimed, Free
<1>6. DOMAIN commands' = DOMAIN commands
  BY DEF ClaimCommit
<1> DEFINE Marked(v) == IF v.id = held THEN Box!Offered(v) ELSE v
<1>7. ASSUME NEW k \in DOMAIN commands
      PROVE  View(commands'[k]) = Marked(View(commands[k]))
  <2> DEFINE e == [commands[k] EXCEPT !.status = "delivered",
                                      !.handedTo = @ \cup {loop.dev}, !.age = 0]
  <2>1. commands'[k] = IF commands[k].id = held THEN e ELSE commands[k]
    BY Zenon DEF ClaimCommit
  <2>2. e \in Command
    BY <1>1, LoopType, CommandsType, DeliveredType DEF TypeOK, Claimed
  <2>3. View(e) = Box!Offered(View(commands[k]))
    BY <2>2, CommandsType, DeliveredView
  <2> HIDE DEF e
  <2> QED
    BY <2>1, <2>3, ViewOf
<1>8. \A c \in Unborn : View(c) = Marked(View(c))
  BY <1>1, ViewOf DEF Holds
<1>9. box' = {Marked(v) : v \in box}
  <2> HIDE DEF Marked
  <2> QED
    BY <1>5, <1>6, <1>7, <1>8 DEF Records
<1> QED
  BY <1>1, <1>2, <1>3, <1>4, <1>9 DEF Box!Offer

LEMMA StepRefines ==
  ASSUME TypeOK, IdsAreUnique, IdsAreUnique', Holds, [Next]_vars
  PROVE  [Box!Next]_(Box!vars)
<1>1. ASSUME UNCHANGED <<latch, slipped>>, ~ClaimCommit,
             loop' = loop \/ (~Claimed /\ ~Claimed')
      PROVE  Box!Next
  BY <1>1, StepQuiet, QuietIsWork DEF Box!Next
<1>2. CASE ClaimCommit
  BY <1>2, CommitIsOffer DEF Box!Next
<1>3. CASE LoopNext /\ ~ClaimCommit
  <2>1. UNCHANGED <<latch, slipped>>
    BY <1>3 DEF LoopNext, PostCommand, LoopInsert, PollBegin, PollTimesOut,
                ClaimCheck, ClaimDies, stopVars
  <2>2. ASSUME NEW d \in Devices, ClaimCheck(d), loop' # Free PROVE Box!Next
    BY <2>2, ClaimIsPick DEF Box!Next
  <2>3. CASE \A d \in Devices : ClaimCheck(d) => loop' = Free
    <3>1. loop' = loop \/ (~Claimed /\ ~Claimed')
      <4>1. ASSUME NEW p \in Postable, PostCommand(p) PROVE ~Claimed /\ ~Claimed'
        BY <4>1 DEF PostCommand, Claimed, Free
      <4>2. ASSUME LoopInsert PROVE ~Claimed /\ ~Claimed'
        BY <4>2 DEF LoopInsert, Claimed, Free
      <4>3. ASSUME NEW d \in Devices,
                   PollBegin(d) \/ PollTimesOut(d) \/ ClaimDies(d)
            PROVE  loop' = loop
        BY <4>3 DEF PollBegin, PollTimesOut, ClaimDies
      <4>4. ASSUME NEW d \in Devices, ClaimCheck(d) PROVE loop' = loop
        BY <2>3, <4>4, ClaimPicks
      <4> QED
        BY <1>3, <4>1, <4>2, <4>3, <4>4 DEF LoopNext
    <3> QED
      BY <1>1, <1>3, <2>1, <3>1
  <2> QED
    BY <2>2, <2>3
<1>4. CASE ThreadNext
  <2>1. CASE StopLatch
    <3>1. UNCHANGED <<seq, commands, loop, threads>> /\ latch' = TRUE /\ slipped' = 0
      BY <2>1 DEF StopLatch
    <3>2. UNCHANGED <<{View(c) : c \in Records}, IF Claimed THEN loop.rec.id ELSE 0,
                      Claimed /\ Gated(loop.rec)>>
      BY <3>1 DEF Records, Unborn, Claimed, Gated, Start, View, Stage
    <3> QED
      BY <3>1, <3>2 DEF Box!Next, Box!Stop
  <2>2. CASE LiftLatch
    <3>1. /\ UNCHANGED <<seq, commands, loop, threads, slipped>>
          /\ latch /\ latch' = FALSE
      BY <2>2 DEF LiftLatch
    <3>2. UNCHANGED <<{View(c) : c \in Records}, IF Claimed THEN loop.rec.id ELSE 0,
                      Claimed /\ Gated(loop.rec)>>
      BY <3>1 DEF Records, Unborn, Claimed, Gated, Start, View, Stage
    <3> QED
      BY <3>1, <3>2 DEF Box!Next, Box!Lift
  <2>3. CASE ~StopLatch /\ ~LiftLatch
    <3>1. UNCHANGED <<latch, slipped>>
      BY <1>4, <2>3 DEF ThreadNext, ThreadInsert, Ack, PostState, Transfer,
                        CancelStarts, CancelDies, StopPause, stopVars
    <3>2. loop' = loop \/ (~Claimed /\ ~Claimed')
      <4>1. ASSUME CancelDies PROVE loop' = loop \/ (~Claimed /\ ~Claimed')
        BY <4>1 DEF CancelDies, Claimed, Free
      <4> QED
        BY <1>4, <2>3, <4>1 DEF ThreadNext, ThreadInsert, Ack, PostState,
                                Transfer, CancelStarts, StopPause
    <3> QED
      BY <1>1, <1>2, <3>1, <3>2
  <2> QED
    BY <2>1, <2>2, <2>3
<1>5. CASE Tick
  BY <1>1, <1>2, <1>5 DEF Tick, stopVars
<1>6. CASE Restart
  <2>1. /\ UNCHANGED <<seq, latch, slipped>> /\ loop' = Free
        /\ commands' = <<>> /\ threads' = {}
    BY <1>6 DEF Restart
  <2>2. Records' = {} /\ ~Claimed'
    BY <2>1 DEF Records, Unborn, Claimed, Free
  <2> QED
    BY <2>1, <2>2 DEF Box!Next, Box!Crash
<1>7. CASE UNCHANGED vars
  <2>1. UNCHANGED <<seq, commands, loop, threads, latch, slipped>>
    BY <1>7 DEF vars, stopVars
  <2> QED
    BY <2>1 DEF Box!vars, Records, Unborn, Claimed, Gated, Start, View, Stage
<1> QED
  BY <1>2, <1>3, <1>4, <1>5, <1>6, <1>7 DEF Next

\* The bus, with its devices, threads, retries and evictions, implements the
\* Mailbox: every command waits, is offered and is settled in the box's order,
\* and while the stop holds no start is picked.
THEOREM BusIsAMailbox == Spec => IsAMailbox
<1>1. Init => Box!Init
  <2> SUFFICES ASSUME Init PROVE Box!Init
    OBVIOUS
  <2>1. Records = {} /\ ~Claimed
    BY DEF Init, Records, Unborn, Claimed, Free
  <2> QED
    BY <2>1 DEF Init, Box!Init
<1> QED
  BY <1>1, StepRefines, TypeCorrect, IdsNameCommands, HoldsAlways, PTL
  DEF Spec, IsAMailbox, Box!Spec

-----------------------------------------------------------------------------
(* What a server step does to the answers *)

\* Record c is record e, with an answer of A if it has a new one.
Continues(c, e, A) ==
  /\ c.id = e.id
  /\ c.ack \in Answers => c.ack = e.ack \/ [id |-> c.id, answer |-> c.ack] \in A

Unanswered(c) == c.id = seq + 1 /\ c.ack \notin Answers

\* The step brings in no answers but those of A, and at most one record.
Answering(A) ==
  /\ seq' = seq \/ (seq' = seq + 1 /\ seq < MaxSeq)
  /\ \A c \in Records' : \/ \E e \in Records : Continues(c, e, A)
                         \/ seq' = seq + 1 /\ Unanswered(c)
  /\ Claimed' => \/ Claimed /\ loop'.rec = loop.rec
                 \/ loop'.rec \in Records

LEMMA ContinuesItself ==
  ASSUME NEW c, NEW A
  PROVE  Continues(c, c, A)
BY DEF Continues

LEMMA RefusedContinues ==
  ASSUME NEW c \in Command, NEW A
  PROVE  Continues(Refused(c), c, A)
<1>1. Refused(c).id = c.id /\ Refused(c).ack = "refused"
  BY Zenon DEF Refused, Command
<1> QED
  BY <1>1 DEF Continues, Answers

LEMMA AnswersKept ==
  ASSUME NEW A, DOMAIN commands' = DOMAIN commands, seq' = seq, Unborn' \subseteq Unborn,
         \A k \in DOMAIN commands : Continues(commands'[k], commands[k], A),
         Claimed' => \/ Claimed /\ loop'.rec = loop.rec
                     \/ loop'.rec \in Records
  PROVE  Answering(A)
BY ContinuesItself DEF Answering, Records

LEMMA AnswersInsert ==
  ASSUME TypeOK, NEW c \in Unborn, c \in Command, NEW A,
         commands' = Insert(commands, c), seq' = seq, Unborn' \subseteq Unborn,
         Claimed' => Claimed /\ loop'.rec = loop.rec
  PROVE  Answering(A)
<1>1. ASSUME NEW k \in DOMAIN commands'
      PROVE  \E e \in Records : Continues(commands'[k], e, A)
  <2>1. commands'[k] = c \/ \E j \in DOMAIN commands : commands'[k] = commands[j]
    BY <1>1, InsertFrom DEF TypeOK
  <2> QED
    BY <2>1, ContinuesItself DEF Records
<1> QED
  BY <1>1, ContinuesItself DEF Answering, Records

\* A record just built, whatever the latch says of it.
LEMMA GateUnanswered ==
  ASSUME NEW c \in Command, Unanswered(c)
  PROVE  Unanswered(Gate(c))
<1>1. Refused(c).id = c.id /\ Refused(c).ack = "refused"
  BY Zenon DEF Refused, Command
<1> QED
  BY <1>1 DEF Gate, Unanswered, Answers

LEMMA AnswersBegin ==
  ASSUME NEW c \in Command, Unanswered(c), BeginEnqueue(c), NEW A,
         DOMAIN commands' = DOMAIN commands, loop' = loop,
         \A k \in DOMAIN commands : Continues(commands'[k], commands[k], A)
  PROVE  Answering(A)
<1> DEFINE g == Gate(c)
<1>1. Unanswered(g)
  BY GateUnanswered
<1>2. seq' = seq + 1 /\ seq < MaxSeq /\ Unborn' = Unborn \cup {g}
  BY DEF BeginEnqueue, Unborn
<1> HIDE DEF g
<1>3. ASSUME NEW e \in Records'
      PROVE  (\E f \in Records : Continues(e, f, A)) \/ Unanswered(e)
  BY <1>1, <1>2, ContinuesItself DEF Records
<1> QED
  BY <1>2, <1>3 DEF Answering, Claimed

LEMMA NewBlank ==
  ASSUME TypeOK, NEW kind \in Kinds, NEW owner \in BOOLEAN
  PROVE  /\ Blank(seq + 1, kind, owner) \in Command
         /\ Unanswered(Blank(seq + 1, kind, owner))
<1>1. Unanswered(Blank(seq + 1, kind, owner))
  BY DEF Blank, Unanswered, Answers
<1> QED
  BY <1>1, NextBlankId

LEMMA NewHandoff ==
  ASSUME TypeOK, NEW from \in Devices, NEW to \in Devices, NEW was \in BOOLEAN,
         NEW cause \in Nat
  PROVE  /\ Handoff(from, to, was, cause) \in Command
         /\ Unanswered(Handoff(from, to, was, cause))
<1>1. Unanswered(Handoff(from, to, was, cause))
  BY DEF Handoff, Blank, Unanswered, Answers
<1>2. Handoff(from, to, was, cause) \in Command
  BY HandoffType, Zenon DEF TypeOK
<1> QED
  BY <1>1, <1>2

-----------------------------------------------------------------------------
(* Every server step a client takes part in *)

LEMMA PostCommandAnswers ==
  ASSUME TypeOK, NEW p \in Postable, PostCommand(p)
  PROVE  Answering({})
<1>1. p.kind \in Kinds /\ p.owner \in BOOLEAN
  <2>1. p \in [kind: {"start", "queue", "control"}, owner: BOOLEAN]
    BY BusAssumption
  <2> QED
    BY <2>1 DEF Kinds
<1> DEFINE c == Blank(seq + 1, p.kind, p.owner)
<1>2. Unanswered(c)
  BY <1>1, NewBlank
<1> HIDE DEF c
<1>3. /\ seq' = seq + 1 /\ seq < MaxSeq /\ loop = Free
      /\ UNCHANGED <<commands, threads>>
      /\ loop' = [op |-> "insert", rec |-> c]
  BY DEF PostCommand, c
<1>4. Unborn' = Unborn \cup {c} /\ ~Claimed'
  BY <1>3 DEF Unborn, Free, Claimed
<1> QED
  BY <1>2, <1>3, <1>4, ContinuesItself DEF Answering, Records

LEMMA InsertAnswers ==
  ASSUME TypeOK, LoopInsert \/ ThreadInsert
  PROVE  Answering({})
<1>1. CASE LoopInsert
  <2>1. loop.rec \in Unborn /\ loop.rec \in Command
    BY <1>1, LoopType DEF LoopInsert, Unborn, TypeOK
  <2>2. Unborn' \subseteq Unborn /\ seq' = seq /\ ~Claimed'
    BY <1>1 DEF LoopInsert, Unborn, Free, Claimed
  <2> QED
    BY <1>1, <2>1, <2>2, AnswersInsert DEF LoopInsert
<1>2. CASE ThreadInsert
  <2>1. PICK c \in threads : /\ commands' = Insert(commands, c)
                             /\ threads' = threads \ {c}
                             /\ UNCHANGED <<seq, loop>>
    BY <1>2 DEF ThreadInsert
  <2>2. c \in Unborn /\ c \in Command /\ Unborn' \subseteq Unborn
    BY <2>1 DEF Unborn, TypeOK
  <2> QED
    BY <2>1, <2>2, AnswersInsert DEF Claimed
<1> QED
  BY <1>1, <1>2

LEMMA ClaimCheckAnswers ==
  ASSUME TypeOK, NEW d \in Devices, ClaimCheck(d)
  PROVE  Answering({})
<1>1. PICK S : commands' = [k \in DOMAIN commands |->
                              IF k \in S THEN Refused(commands[k]) ELSE commands[k]]
  BY DEF ClaimCheck
<1>2. \A k \in DOMAIN commands : Continues(commands'[k], commands[k], {})
  BY <1>1, CommandsType, RefusedContinues, ContinuesItself
<1>3. Unborn' \subseteq Unborn /\ seq' = seq
  BY DEF ClaimCheck, Unborn, Free
<1>4. ~Claimed' \/ loop'.rec \in Records
  BY DEF ClaimCheck, Claimed, Free, Records
<1>5. DOMAIN commands' = DOMAIN commands
  BY <1>1
<1> QED
  BY <1>2, <1>3, <1>4, <1>5, AnswersKept

LEMMA ClaimCommitAnswers ==
  ASSUME TypeOK, ClaimCommit
  PROVE  Answering({})
<1>1. ASSUME NEW k \in DOMAIN commands
      PROVE  Continues(commands'[k], commands[k], {})
  <2> DEFINE given == [commands[k] EXCEPT !.status = "delivered",
                                          !.handedTo = @ \cup {loop.dev}, !.age = 0]
  <2>1. commands'[k] \in {commands[k], given}
    BY DEF ClaimCommit
  <2>2. given.id = commands[k].id /\ given.ack = commands[k].ack
    BY CommandsType, Zenon DEF Command
  <2> QED
    BY <2>1, <2>2 DEF Continues
<1>2. DOMAIN commands' = DOMAIN commands /\ seq' = seq
  BY DEF ClaimCommit
<1>3. Unborn' \subseteq Unborn /\ ~Claimed'
  BY DEF ClaimCommit, Unborn, Claimed, Free
<1> QED
  BY <1>1, <1>2, <1>3, AnswersKept

LEMMA AckAnswers ==
  ASSUME TypeOK, NEW d \in Devices, NEW k \in DOMAIN commands, NEW a \in Answers,
         Ack(d, k, a)
  PROVE  Answering({[id |-> commands[k].id, answer |-> a]})
<1> DEFINE c == [commands[k] EXCEPT
                   !.status = IF a = "ok" THEN "acked" ELSE "failed",
                   !.ack = a, !.age = 0]
           A == {[id |-> commands[k].id, answer |-> a]}
           h == Handoff(c.target, c.to, c.playing, c.id)
<1>1. c \in Command /\ Continues(c, commands[k], A)
  <2>1. c.id = commands[k].id /\ c.ack = a
    BY CommandsType, Zenon DEF Command
  <2>2. c \in Command
    BY CommandsType, AnsweredType
  <2> QED
    BY <2>1, <2>2 DEF Continues
<1>2. commands' = [commands EXCEPT ![k] = c] /\ loop' = loop
  BY Zenon DEF Ack
<1>3. /\ DOMAIN commands' = DOMAIN commands
      /\ \A j \in DOMAIN commands : Continues(commands'[j], commands[j], A)
  <2> HIDE DEF c, A
  <2> QED
    BY <1>1, <1>2, ContinuesItself
<1>4. \/ UNCHANGED <<seq, threads>>
      \/ None \notin {c.target, c.to} /\ BeginEnqueue(h)
  BY Zenon DEF Ack
<1>5. CASE None \notin {c.target, c.to} /\ BeginEnqueue(h)
  <2>1. c.target \in Devices /\ c.to \in Devices /\ c.playing \in BOOLEAN /\ c.id \in Nat
    <3>1. /\ c.target \in Devices \cup {None} /\ c.to \in Devices \cup {None}
          /\ c.playing \in BOOLEAN /\ c.id \in Nat
      <4> HIDE DEF c
      <4> QED
        BY <1>1, Zenon DEF Command
    <3> QED
      BY <1>5, <3>1, Zenon
  <2>2. h \in Command /\ Unanswered(h)
    <3> HIDE DEF c
    <3> QED
      BY <2>1, NewHandoff
  <2> HIDE DEF h, c, A
  <2> QED
    BY <1>2, <1>3, <1>5, <2>2, AnswersBegin DEF A
<1>6. CASE UNCHANGED <<seq, threads>>
  <2> HIDE DEF c, A
  <2> QED
    BY <1>2, <1>3, <1>6, AnswersKept DEF Unborn, Claimed, A
<1> QED
  BY <1>4, <1>5, <1>6

LEMMA PostStateAnswers ==
  ASSUME TypeOK, NEW d \in Devices, NEW r \in Report, PostState(d, r)
  PROVE  TypeOK' /\ Answering({})
<1>1. /\ Blank(seq + 1, "queue", FALSE) \in Command
      /\ Unanswered(Blank(seq + 1, "queue", FALSE))
  BY NewBlank DEF Kinds
<1>2. TypeOK'
  <2>1. report' \in [Devices -> Report]
    BY DEF PostState, TypeOK
  <2>2. silent' \in [Devices -> {Unseen} \cup 0 .. StaleAfter + 1]
    BY BusAssumption DEF PostState, TypeOK
  <2>3. seq' \in Nat /\ threads' \subseteq Command
    BY <1>1, BeginEnqueueType DEF PostState, TypeOK
  <2> QED
    BY <2>1, <2>2, <2>3 DEF PostState, stopVars, TypeOK
<1>3. UNCHANGED <<commands, loop>>
  BY DEF PostState
<1>4. CASE UNCHANGED <<seq, threads>>
  BY <1>2, <1>3, <1>4, AnswersKept, ContinuesItself DEF Unborn, Claimed
<1>5. CASE BeginEnqueue(Blank(seq + 1, "queue", FALSE))
  BY <1>1, <1>2, <1>3, <1>5, AnswersBegin, ContinuesItself
<1> QED
  BY <1>4, <1>5, <1>2 DEF PostState

LEMMA TransferAnswers ==
  ASSUME TypeOK, NEW d \in Devices, Transfer(d)
  PROVE  Answering({})
<1> DEFINE prev == IF active = None THEN Phone ELSE active
           was == report[prev].playing
           ask == [Blank(seq + 1, "deactivate", FALSE) EXCEPT
                     !.target = prev, !.to = d, !.playing = was]
           new == IF Live(prev) THEN ask ELSE Handoff(prev, d, was, 0)
<1>1. prev \in Devices
  BY BusAssumption DEF TypeOK
<1>2. was \in BOOLEAN
  <2>1. report[prev] \in Report
    BY <1>1 DEF TypeOK
  <2> QED
    BY <2>1, Zenon DEF Report
<1>3. UNCHANGED <<seq, threads>> \/ BeginEnqueue(new)
  BY Zenon DEF Transfer
<1>4. ask \in Command /\ Unanswered(ask)
  <2>1. ask.id = seq + 1 /\ ask.ack = "none"
    BY DEF Blank
  <2> HIDE DEF prev, was
  <2>2. ask \in Command
    BY <1>1, <1>2, AskType, Zenon DEF TypeOK
  <2> QED
    BY <2>1, <2>2 DEF Unanswered, Answers
<1>5. Handoff(prev, d, was, 0) \in Command /\ Unanswered(Handoff(prev, d, was, 0))
  <2> HIDE DEF prev, was
  <2> QED
    BY <1>1, <1>2, NewHandoff
<1>6. new \in Command /\ Unanswered(new)
  <2> HIDE DEF prev, was, ask
  <2> QED
    BY <1>4, <1>5
<1>7. UNCHANGED <<commands, loop>>
  BY DEF Transfer
<1> HIDE DEF new
<1>8. CASE BeginEnqueue(new)
  BY <1>6, <1>7, <1>8, AnswersBegin, ContinuesItself
<1>9. CASE UNCHANGED <<seq, threads>>
  BY <1>7, <1>9, AnswersKept, ContinuesItself DEF Unborn, Claimed
<1> QED
  BY <1>3, <1>8, <1>9

LEMMA TickAnswers ==
  ASSUME TypeOK, Tick
  PROVE  Answering({})
<1>1. ASSUME NEW k \in DOMAIN commands
      PROVE  Continues(commands'[k], commands[k], {})
  <2> DEFINE aged == [commands[k] EXCEPT !.age = @ + 1]
  <2>1. commands'[k] \in {commands[k], aged}
    BY DEF Tick
  <2>2. aged.id = commands[k].id /\ aged.ack = commands[k].ack
    BY CommandsType, Zenon DEF Command
  <2> QED
    BY <2>1, <2>2 DEF Continues
<1>2. DOMAIN commands' = DOMAIN commands /\ UNCHANGED <<seq, loop, threads>>
  BY DEF Tick
<1> QED
  BY <1>1, <1>2, AnswersKept DEF Unborn, Claimed

LEMMA StillAnswers ==
  ASSUME UNCHANGED <<seq, commands, loop, threads>>
  PROVE  Answering({})
BY AnswersKept, ContinuesItself DEF Unborn, Claimed

-----------------------------------------------------------------------------
(* What the clients hold *)

Entry == [id: Ids, answer: Answers]

ClientOK ==
  /\ player \in [Devices -> Report]
  /\ inbox \in [Devices -> Seq(Command)]
  /\ done \in [Devices -> Seq(Entry)]
  /\ ackOut \in [Devices -> Entry \cup {NoAck}]
  /\ snap \in [Devices -> Report \cup {NoSnap}]
  /\ ran \in [Devices -> [Ids -> Nat]]
  /\ told \in [Ids -> SUBSET Answers]

\* Ids are of commands created so far, wherever a command has got to.
Numbered ==
  /\ seq \in 0 .. MaxSeq
  /\ \A c \in Records : c.id \in 1 .. seq
  /\ Claimed => loop.rec.id \in 1 .. seq
  /\ \A d \in Devices : \A n \in DOMAIN inbox[d] : inbox[d][n].id \in Ids

LEMMA NumberedKept ==
  ASSUME Numbered, NEW A, Answering(A),
         \A d \in Devices : \A n \in DOMAIN inbox'[d] : inbox'[d][n].id \in Ids
  PROVE  Numbered'
<1>1. seq' \in 0 .. MaxSeq /\ seq' \in {seq, seq + 1}
  BY BusAssumption DEF Numbered, Answering
<1>2. 1 .. seq \subseteq 1 .. seq'
  BY <1>1 DEF Numbered
<1>3. ASSUME NEW c \in Records' PROVE c.id \in 1 .. seq'
  <2>1. CASE \E e \in Records : Continues(c, e, A)
    BY <1>2, <2>1 DEF Numbered, Continues
  <2>2. CASE seq' = seq + 1 /\ Unanswered(c)
    BY <1>1, <2>2 DEF Numbered, Unanswered
  <2> QED
    BY <2>1, <2>2 DEF Answering
<1>4. Claimed' => loop'.rec.id \in 1 .. seq'
  BY <1>2 DEF Numbered, Answering
<1> QED
  BY <1>1, <1>3, <1>4 DEF Numbered

\* The steps that leave the clients alone.
LEMMA ServerOnly ==
  ASSUME TypeOK,
         \/ Requests \/ Inserts \/ ResponseLost \/ ServerDies \/ Clock
         \/ \E d \in Devices : Claims(d) \/ Empty(d) \/ Poll(d)
         \/ UNCHANGED rvars
  PROVE  UNCHANGED clientVars /\ TypeOK' /\ Answering({})
<1>1. ASSUME NEW p \in Postable, Alone(PostCommand(p))
      PROVE  UNCHANGED clientVars /\ TypeOK' /\ Answering({})
  BY <1>1, PostCommandAnswers, LoopNextType DEF Alone, LoopNext
<1>2. ASSUME NEW d \in Devices, Alone(Transfer(d))
      PROVE  UNCHANGED clientVars /\ TypeOK' /\ Answering({})
  BY <1>2, TransferAnswers, ThreadNextType DEF Alone, ThreadNext
<1>3. CASE Inserts
  BY <1>3, InsertAnswers, LoopNextType, ThreadNextType
     DEF Inserts, Alone, LoopNext, ThreadNext
<1>4. CASE ResponseLost
  BY <1>4, ClaimCommitAnswers, LoopNextType DEF ResponseLost, Alone, LoopNext
<1>5. CASE ServerDies
  <2>1. Answering({})
    BY <1>5 DEF ServerDies, Alone, Restart, Answering, Records, Unborn, Free, Claimed
  <2> QED
    BY <1>5, <2>1, ClockNextType DEF ServerDies, Alone
<1>6. CASE Clock
  BY <1>6, TickAnswers, ClockNextType DEF Clock, Alone
<1>7. ASSUME NEW d \in Devices, Claims(d) \/ Empty(d) \/ Poll(d)
      PROVE  UNCHANGED clientVars /\ TypeOK' /\ Answering({})
  <2>1. CASE Claims(d)
    BY <2>1, ClaimCheckAnswers, LoopNextType DEF Claims, Alone, LoopNext
  <2>2. CASE Empty(d) \/ Poll(d)
    <3>1. UNCHANGED clientVars /\ (PollTimesOut(d) \/ PollBegin(d))
      BY <2>2 DEF Empty, Poll, Alone
    <3>2. UNCHANGED <<seq, commands, loop, threads>>
      BY <3>1 DEF PollTimesOut, PollBegin
    <3>3. TypeOK'
      BY <3>1, LoopNextType DEF LoopNext
    <3> QED
      BY <3>1, <3>2, <3>3, StillAnswers
  <2> QED
    BY <1>7, <2>1, <2>2
<1>8. CASE UNCHANGED rvars
  <2>1. UNCHANGED clientVars /\ UNCHANGED vars
    BY <1>8 DEF rvars
  <2> QED
    BY <2>1, StillAnswers DEF vars, devVars, stopVars, TypeOK
<1> QED
  BY <1>1, <1>2, <1>3, <1>4, <1>5, <1>6, <1>7, <1>8 DEF Requests

LEMMA PlayedType ==
  ASSUME NEW d \in Devices, NEW c \in Command, player \in [Devices -> Report]
  PROVE  Played(d, c) \subseteq Report
<1>1. c.playing \in BOOLEAN /\ c.item \in Items \cup {Nothing}
  BY Zenon DEF Command
<1>2. [playing |-> c.playing, item |-> c.item] \in Report
  BY <1>1, Zenon DEF Report
<1>3. [playing: {TRUE}, item: Items] \subseteq Report
  BY DEF Report
<1>4. player[d] \in Report
  OBVIOUS
<1>5. [player[d] EXCEPT !.playing = FALSE] \in Report
  BY <1>4, Zenon DEF Report
<1> QED
  BY <1>2, <1>3, <1>4, <1>5 DEF Played

\* What Execute does, in one place.
LEMMA ExecuteDoes ==
  ASSUME TypeOK, ClientOK, Numbered, NEW d \in Devices, Execute(d)
  PROVE  \E a \in Answers :
           LET id == inbox[d][1].id
               entry == [id |-> id, answer |-> a]
           IN  /\ inbox[d] # <<>> /\ id \in Ids /\ entry \in Entry /\ ~Remembered(d, id)
               /\ player' \in [Devices -> Report] /\ player'[d] \in Report
               /\ done' = [done EXCEPT ![d] = Recall(d, entry)]
               /\ ackOut' = [ackOut EXCEPT ![d] = entry]
               /\ ran' = [ran EXCEPT ![d][id] = IF @ < 2 THEN @ + 1 ELSE @]
               /\ told' = [told EXCEPT ![id] = @ \cup {a}]
               /\ inbox' = [inbox EXCEPT ![d] = Tail(@)]
               /\ UNCHANGED snap
               /\ PostState(d, player'[d]) \/ UNCHANGED vars
<1> DEFINE c == inbox[d][1]
<1>1. inbox[d] # <<>> /\ inbox[d] \in Seq(Command)
  BY DEF Execute, ClientOK
<1>2. c = Head(inbox[d]) /\ c \in Command /\ 1 \in DOMAIN inbox[d]
  BY <1>1
<1>3. c.id \in Ids
  BY <1>2 DEF Numbered
<1> HIDE DEF c
<1>4. PICK a \in (IF c.kind = "deactivate" THEN {"ok"} ELSE Answers) :
        LET entry == [id |-> c.id, answer |-> a]
        IN  /\ \E p \in Played(d, c) \cup (IF a = "ok" THEN {} ELSE {player[d]}) :
                 player' = [player EXCEPT ![d] = p]
            /\ done' = [done EXCEPT ![d] = Recall(d, entry)]
            /\ ackOut' = [ackOut EXCEPT ![d] = entry]
            /\ ran' = [ran EXCEPT ![d][c.id] = IF @ < 2 THEN @ + 1 ELSE @]
            /\ told' = [told EXCEPT ![c.id] = @ \cup {a}]
  BY <1>2, Zenon DEF Execute
<1>5. a \in Answers
  BY <1>4 DEF Answers
<1>6. [id |-> c.id, answer |-> a] \in Entry
  BY <1>3, <1>5 DEF Entry
<1>7. player' \in [Devices -> Report] /\ player'[d] \in Report
  <2>1. PICK p \in Played(d, c) \cup (IF a = "ok" THEN {} ELSE {player[d]}) :
          player' = [player EXCEPT ![d] = p]
    BY <1>4
  <2>2. p \in Report
    BY <1>2, <2>1, PlayedType DEF ClientOK
  <2> QED
    BY <2>1, <2>2 DEF ClientOK
<1>8. /\ ~Remembered(d, c.id)
      /\ inbox' = [inbox EXCEPT ![d] = Tail(@)]
      /\ UNCHANGED snap
      /\ PostState(d, player'[d]) \/ UNCHANGED vars
  BY <1>2, Zenon DEF Execute
<1> QED
  BY <1>1, <1>3, <1>4, <1>5, <1>6, <1>7, <1>8 DEF c

LEMMA RecallType ==
  ASSUME NEW d \in Devices, done \in [Devices -> Seq(Entry)], NEW e \in Entry
  PROVE  Recall(d, e) \in Seq(Entry)
<1>1. done[d] \in Seq(Entry) /\ Memory[d] \in Nat \ {0}
  BY RendererAssumption
<1>2. Len(done[d]) = Memory[d] => Tail(done[d]) \in Seq(Entry)
  BY <1>1
<1> QED
  BY <1>1, <1>2 DEF Recall

\* A command leaves the inbox.
LEMMA TailInbox ==
  ASSUME ClientOK, Numbered, NEW d \in Devices, inbox[d] # <<>>,
         inbox' = [inbox EXCEPT ![d] = Tail(@)]
  PROVE  /\ inbox' \in [Devices -> Seq(Command)]
         /\ \A e \in Devices : \A n \in DOMAIN inbox'[e] : inbox'[e][n].id \in Ids
<1>1. inbox[d] \in Seq(Command)
  BY DEF ClientOK
<1>2. /\ Tail(inbox[d]) \in Seq(Command)
      /\ \A n \in DOMAIN Tail(inbox[d]) :
           n + 1 \in DOMAIN inbox[d] /\ Tail(inbox[d])[n] = inbox[d][n + 1]
  BY <1>1
<1> QED
  BY <1>2 DEF ClientOK, Numbered

LEMMA EmptyInbox ==
  ASSUME ClientOK, Numbered, NEW d \in Devices, inbox' = [inbox EXCEPT ![d] = <<>>]
  PROVE  /\ inbox' \in [Devices -> Seq(Command)]
         /\ \A e \in Devices : \A n \in DOMAIN inbox'[e] : inbox'[e][n].id \in Ids
BY DEF ClientOK, Numbered

LEMMA ReceiveStep ==
  ASSUME TypeOK, ClientOK, Numbered, NEW d \in Devices, Receive(d)
  PROVE  TypeOK' /\ ClientOK' /\ Numbered' /\ Answering({})
<1>1. TypeOK' /\ Answering({})
  BY LoopNextType, ClaimCommitAnswers DEF Receive, LoopNext
<1>2. loop.rec \in Command /\ loop.rec.id \in Ids
  <2>1. loop.op = "claim"
    BY DEF Receive
  <2>2. loop.rec.id \in 1 .. seq /\ seq \in 0 .. MaxSeq
    BY <2>1 DEF Numbered, Claimed
  <2> QED
    BY <2>1, <2>2, LoopType, BusAssumption DEF TypeOK, Ids
<1>3. inbox' = [inbox EXCEPT ![d] = Append(@, loop.rec)]
  BY DEF Receive
<1> DEFINE more == Append(inbox[d], loop.rec)
<1>4. inbox[d] \in Seq(Command)
  BY DEF ClientOK
<1>5. /\ more \in Seq(Command)
      /\ \A n \in DOMAIN more : more[n] = loop.rec \/ (n \in DOMAIN inbox[d] /\ more[n] = inbox[d][n])
  BY <1>2, <1>4
<1> HIDE DEF more
<1>6. inbox' = [inbox EXCEPT ![d] = more]
  BY <1>3 DEF more
<1>7. /\ inbox' \in [Devices -> Seq(Command)]
      /\ \A e \in Devices : \A n \in DOMAIN inbox'[e] : inbox'[e][n].id \in Ids
  BY <1>2, <1>5, <1>6 DEF ClientOK, Numbered
<1>8. ClientOK'
  BY <1>7 DEF Receive, ClientOK
<1> QED
  BY <1>1, <1>7, <1>8, NumberedKept

LEMMA ExecuteStep ==
  ASSUME TypeOK, ClientOK, Numbered, NEW d \in Devices, Execute(d)
  PROVE  TypeOK' /\ ClientOK' /\ Numbered' /\ Answering({})
<1> DEFINE id == inbox[d][1].id
<1>1. PICK a \in Answers :
        LET entry == [id |-> id, answer |-> a]
        IN  /\ inbox[d] # <<>> /\ id \in Ids /\ entry \in Entry
            /\ player' \in [Devices -> Report] /\ player'[d] \in Report
            /\ done' = [done EXCEPT ![d] = Recall(d, entry)]
            /\ ackOut' = [ackOut EXCEPT ![d] = entry]
            /\ ran' = [ran EXCEPT ![d][id] = IF @ < 2 THEN @ + 1 ELSE @]
            /\ told' = [told EXCEPT ![id] = @ \cup {a}]
            /\ inbox' = [inbox EXCEPT ![d] = Tail(@)]
            /\ UNCHANGED snap
            /\ PostState(d, player'[d]) \/ UNCHANGED vars
  BY ExecuteDoes
<1> HIDE DEF id
<1>2. TypeOK' /\ Answering({})
  <2>1. CASE PostState(d, player'[d])
    BY <1>1, <2>1, PostStateAnswers
  <2>2. CASE UNCHANGED vars
    BY <2>2, StillAnswers DEF vars, devVars, stopVars, TypeOK
  <2> QED
    BY <1>1, <2>1, <2>2
<1>3. /\ inbox' \in [Devices -> Seq(Command)]
      /\ \A e \in Devices : \A n \in DOMAIN inbox'[e] : inbox'[e][n].id \in Ids
  BY <1>1, TailInbox
<1>4. done' \in [Devices -> Seq(Entry)]
  BY <1>1, RecallType DEF ClientOK
<1>5. ackOut' \in [Devices -> Entry \cup {NoAck}]
  BY <1>1 DEF ClientOK
<1>6. ran' \in [Devices -> [Ids -> Nat]]
  <2>1. ran[d] \in [Ids -> Nat]
    BY DEF ClientOK
  <2>2. [ran[d] EXCEPT ![id] = IF @ < 2 THEN @ + 1 ELSE @] \in [Ids -> Nat]
    BY <1>1, <2>1
  <2>3. ran' = [ran EXCEPT ![d] = [ran[d] EXCEPT ![id] = IF @ < 2 THEN @ + 1 ELSE @]]
    BY <1>1
  <2> QED
    BY <2>2, <2>3 DEF ClientOK
<1>7. told' \in [Ids -> SUBSET Answers]
  BY <1>1 DEF ClientOK
<1>8. ClientOK'
  BY <1>1, <1>3, <1>4, <1>5, <1>6, <1>7 DEF ClientOK
<1> QED
  BY <1>2, <1>3, <1>8, NumberedKept

\* The entry a replay repeats.
LEMMA OutcomeOfEntry ==
  ASSUME ClientOK, NEW d \in Devices, NEW i, Remembered(d, i)
  PROVE  \E n \in DOMAIN done[d] :
           /\ done[d][n].id = i /\ Outcome(d, i) = done[d][n].answer
           /\ done[d][n] \in Entry
<1> DEFINE n == CHOOSE k \in DOMAIN done[d] : done[d][k].id = i
<1>1. n \in DOMAIN done[d] /\ done[d][n].id = i
  BY DEF Remembered
<1>2. Outcome(d, i) = done[d][n].answer
  BY DEF Outcome
<1>3. done[d] \in Seq(Entry)
  BY DEF ClientOK
<1> HIDE DEF n
<1> QED
  BY <1>1, <1>2, <1>3

LEMMA ReplayStep ==
  ASSUME TypeOK, ClientOK, Numbered, NEW d \in Devices, Replay(d)
  PROVE  TypeOK' /\ ClientOK' /\ Numbered' /\ Answering({})
<1> DEFINE c == Head(inbox[d])
           entry == [id |-> c.id, answer |-> IF d = Phone THEN Outcome(d, c.id) ELSE "ok"]
<1>1. inbox[d] # <<>> /\ inbox[d] \in Seq(Command) /\ Remembered(d, c.id)
  BY DEF Replay, ClientOK
<1>2. c = inbox[d][1] /\ 1 \in DOMAIN inbox[d]
  BY <1>1
<1>3. c.id \in Ids
  BY <1>2 DEF Numbered
<1>4. entry \in Entry
  <2>1. PICK n \in DOMAIN done[d] : /\ Outcome(d, c.id) = done[d][n].answer
                                    /\ done[d][n] \in Entry
    <3> HIDE DEF c
    <3> QED
      BY <1>1, OutcomeOfEntry
  <2>2. Outcome(d, c.id) \in Answers /\ "ok" \in Answers
    BY <2>1 DEF Entry, Answers
  <2> HIDE DEF c
  <2> QED
    BY <1>3, <2>2 DEF Entry
<1>5. ackOut' = [ackOut EXCEPT ![d] = entry]
  BY DEF Replay
<1> HIDE DEF entry
<1>6. /\ inbox' \in [Devices -> Seq(Command)]
      /\ \A e \in Devices : \A n \in DOMAIN inbox'[e] : inbox'[e][n].id \in Ids
  BY <1>1, TailInbox DEF Replay
<1>7. ClientOK'
  BY <1>4, <1>5, <1>6 DEF Replay, ClientOK
<1>8. TypeOK' /\ Answering({})
  BY StillAnswers DEF Replay, vars, devVars, stopVars, TypeOK
<1> QED
  BY <1>6, <1>7, <1>8, NumberedKept

LEMMA AckArrivesStep ==
  ASSUME TypeOK, ClientOK, Numbered, NEW d \in Devices, AckArrives(d)
  PROVE  TypeOK' /\ ClientOK' /\ Numbered' /\ Answering({ackOut[d]})
<1> DEFINE m == ackOut[d]
<1>1. m \in Entry
  BY DEF AckArrives, ClientOK
<1>2. m.answer \in Answers /\ m = [id |-> m.id, answer |-> m.answer]
  BY <1>1 DEF Entry
<1>3. TypeOK' /\ Answering({m})
  <2>1. ASSUME NEW k \in DOMAIN commands, commands[k].id = m.id, Ack(d, k, m.answer)
        PROVE  TypeOK' /\ Answering({m})
    <3>1. Answering({[id |-> commands[k].id, answer |-> m.answer]})
      BY <1>2, <2>1, AckAnswers
    <3>2. TypeOK'
      BY <1>2, <2>1, ThreadNextType DEF ThreadNext
    <3> QED
      BY <1>2, <2>1, <3>1, <3>2
  <2>2. CASE UNCHANGED vars
    <3>1. Answering({m})
      BY <2>2, AnswersKept, ContinuesItself DEF vars, Unborn, Claimed
    <3> QED
      BY <2>2, <3>1 DEF vars, devVars, stopVars, TypeOK
  <2> QED
    BY <2>1, <2>2 DEF AckArrives
<1>4. ClientOK'
  BY DEF AckArrives, ClientOK
<1>5. UNCHANGED inbox
  BY DEF AckArrives
<1> QED
  BY <1>3, <1>4, <1>5, NumberedKept DEF Numbered

\* A report, a lost ack and a kill.
LEMMA OtherStep ==
  ASSUME TypeOK, ClientOK, Numbered, NEW d \in Devices,
         AckLost(d) \/ Sample(d) \/ Post(d) \/ Kill(d)
  PROVE  TypeOK' /\ ClientOK' /\ Numbered' /\ Answering({})
<1>1. CASE AckLost(d) \/ Sample(d) \/ Kill(d)
  <2>1. UNCHANGED vars
    BY <1>1 DEF AckLost, Sample, Kill
  <2>2. TypeOK' /\ Answering({})
    BY <2>1, StillAnswers DEF vars, devVars, stopVars, TypeOK
  <2>3. CASE AckLost(d) \/ Sample(d)
    <3>1. UNCHANGED inbox /\ ClientOK'
      BY <2>3 DEF AckLost, Sample, ClientOK
    <3> QED
      BY <2>2, <3>1, NumberedKept DEF Numbered
  <2>4. CASE Kill(d)
    <3>1. /\ inbox' \in [Devices -> Seq(Command)]
          /\ \A e \in Devices : \A n \in DOMAIN inbox'[e] : inbox'[e][n].id \in Ids
      BY <2>4, EmptyInbox DEF Kill
    <3>2. NoReport \in Report /\ [i \in Ids |-> 0] \in [Ids -> Nat]
      BY DEF NoReport, Report
    <3>3. done' \in [Devices -> Seq(Entry)]
      BY <2>4 DEF Kill, ClientOK
    <3>4. ran' \in [Devices -> [Ids -> Nat]] /\ player' \in [Devices -> Report]
      BY <2>4, <3>2 DEF Kill, ClientOK
    <3>5. ClientOK'
      BY <2>4, <3>1, <3>3, <3>4 DEF Kill, ClientOK
    <3> QED
      BY <2>2, <3>1, <3>5, NumberedKept
  <2> QED
    BY <1>1, <2>3, <2>4
<1>2. CASE Post(d)
  <2>1. snap[d] \in Report
    BY <1>2 DEF Post, ClientOK
  <2>2. TypeOK' /\ Answering({})
    <3>1. CASE PostState(d, snap[d])
      BY <2>1, <3>1, PostStateAnswers
    <3>2. CASE UNCHANGED vars
      BY <3>2, StillAnswers DEF vars, devVars, stopVars, TypeOK
    <3> QED
      BY <1>2, <3>1, <3>2 DEF Post
  <2>3. UNCHANGED inbox /\ ClientOK'
    BY <1>2 DEF Post, ClientOK
  <2> QED
    BY <2>2, <2>3, NumberedKept DEF Numbered
<1> QED
  BY <1>1, <1>2

\* A step of the composed system brings in no answers but an ack's that arrives.
NewAnswers ==
  Answering({}) \/ \E d \in Devices : AckArrives(d) /\ Answering({ackOut[d]})

LEMMA TypeStep ==
  ASSUME TypeOK, ClientOK, Numbered, [RNext]_rvars
  PROVE  TypeOK' /\ ClientOK' /\ Numbered' /\ NewAnswers
<1>1. ASSUME \/ Requests \/ Inserts \/ ResponseLost \/ ServerDies \/ Clock
             \/ \E d \in Devices : Claims(d) \/ Empty(d) \/ Poll(d)
             \/ UNCHANGED rvars
      PROVE  TypeOK' /\ ClientOK' /\ Numbered' /\ NewAnswers
  <2>1. UNCHANGED clientVars /\ TypeOK' /\ Answering({})
    BY <1>1, ServerOnly
  <2>2. ClientOK'
    BY <2>1 DEF clientVars, ClientOK
  <2>3. \A d \in Devices : \A n \in DOMAIN inbox'[d] : inbox'[d][n].id \in Ids
    BY <2>1 DEF clientVars, Numbered
  <2> QED
    BY <2>1, <2>2, <2>3, NumberedKept DEF NewAnswers
<1>2. ASSUME NEW d \in Devices,
             \/ Receive(d) \/ Execute(d) \/ Replay(d) \/ AckArrives(d)
             \/ AckLost(d) \/ Sample(d) \/ Post(d) \/ Kill(d)
      PROVE  TypeOK' /\ ClientOK' /\ Numbered' /\ NewAnswers
  BY <1>2, ReceiveStep, ExecuteStep, ReplayStep, AckArrivesStep, OtherStep DEF NewAnswers
<1> QED
  BY <1>1, <1>2 DEF RNext, Client

LEMMA TypeStart ==
  RInit => TypeOK /\ ClientOK /\ Numbered
<1> SUFFICES ASSUME RInit PROVE TypeOK /\ ClientOK /\ Numbered
  OBVIOUS
<1>1. commands \in Seq(Command) /\ Len(commands) <= Capacity
  BY BusAssumption DEF RInit
<1>2. NoReport \in Report /\ \A i \in Items : [playing |-> TRUE, item |-> i] \in Report
  BY DEF NoReport, Report
<1>3. player \in [Devices -> Report] /\ report = player
  BY <1>2 DEF RInit
<1>4. silent \in [Devices -> {Unseen} \cup 0 .. StaleAfter + 1]
  BY BusAssumption DEF RInit
<1>5. loop \in LoopStep
  BY DEF RInit, LoopStep
<1>6. TypeOK
  BY <1>1, <1>3, <1>4, <1>5, BusAssumption DEF RInit, TypeOK
<1>7. inbox \in [Devices -> Seq(Command)] /\ done \in [Devices -> Seq(Entry)]
  BY DEF RInit
<1>8. ran \in [Devices -> [Ids -> Nat]] /\ told \in [Ids -> SUBSET Answers]
  BY DEF RInit
<1>9. ClientOK
  BY <1>3, <1>7, <1>8 DEF RInit, ClientOK
<1>10. Numbered
  BY BusAssumption DEF RInit, Numbered, Records, Unborn, Free, Claimed
<1> QED
  BY <1>6, <1>9, <1>10

\* The history that RSpec keeps adds nothing to what the system does.
LEMMA HistoryOnly == [HNext]_<<rvars, crossed>> => [RNext]_rvars
BY DEF HNext

LEMMA RTypeCorrect ==
  RSpec => [](TypeOK /\ ClientOK /\ Numbered)
<1>1. TypeOK /\ ClientOK /\ Numbered /\ [RNext]_rvars => (TypeOK /\ ClientOK /\ Numbered)'
  BY TypeStep
<1> QED
  BY <1>1, TypeStart, HistoryOnly, PTL DEF RSpec

-----------------------------------------------------------------------------
(* The outcome on record *)

\* Wherever an answer is kept, the device had it.
Truthful ==
  /\ \A c \in Records : c.ack \in Answers => c.ack \in told[c.id]
  /\ \A d \in Devices : /\ ackOut[d] # NoAck => ackOut[d].answer \in told[ackOut[d].id]
                        /\ \A n \in DOMAIN done[d] : done[d][n].answer \in told[done[d][n].id]

LEMMA RecordsTruthful ==
  ASSUME Numbered, Truthful, NEW A, Answering(A), \A i \in Ids : told[i] \subseteq told'[i],
         \A m \in A : m.answer \in told[m.id] /\ m.id \in Ids
  PROVE  \A c \in Records' : c.ack \in Answers => c.ack \in told'[c.id]
<1> SUFFICES ASSUME NEW c \in Records', c.ack \in Answers PROVE c.ack \in told'[c.id]
  OBVIOUS
<1>1. PICK e \in Records : Continues(c, e, A)
  BY DEF Answering, Unanswered
<1>2. e.id \in Ids
  BY BusAssumption DEF Numbered, Ids
<1>3. c.ack \in told[c.id]
  <2>1. CASE c.ack = e.ack
    BY <1>1, <2>1 DEF Truthful, Continues
  <2>2. CASE [id |-> c.id, answer |-> c.ack] \in A
    BY <2>2
  <2> QED
    BY <1>1, <2>1, <2>2 DEF Continues
<1> QED
  BY <1>1, <1>2, <1>3 DEF Continues

\* A client's memory after a command has run.
LEMMA RecallFrom ==
  ASSUME NEW d \in Devices, done \in [Devices -> Seq(Entry)], NEW e \in Entry,
         NEW n \in DOMAIN Recall(d, e)
  PROVE  Recall(d, e)[n] = e \/ \E k \in DOMAIN done[d] : Recall(d, e)[n] = done[d][k]
<1> DEFINE old == IF Len(done[d]) = Memory[d] THEN Tail(done[d]) ELSE done[d]
<1>1. done[d] \in Seq(Entry) /\ Memory[d] \in Nat \ {0}
  BY RendererAssumption
<1>2. /\ old \in Seq(Entry)
      /\ \A k \in DOMAIN old : \E j \in DOMAIN done[d] : old[k] = done[d][j]
  <2>1. Len(done[d]) = Memory[d] =>
          /\ Tail(done[d]) \in Seq(Entry)
          /\ \A k \in DOMAIN Tail(done[d]) :
               k + 1 \in DOMAIN done[d] /\ Tail(done[d])[k] = done[d][k + 1]
    BY <1>1
  <2> QED
    BY <1>1, <2>1
<1>3. Recall(d, e) = Append(old, e)
  BY DEF Recall
<1> HIDE DEF old
<1>4. n \in DOMAIN old \/ n = Len(old) + 1
  BY <1>2, <1>3
<1>5. /\ n \in DOMAIN old => Recall(d, e)[n] = old[n]
      /\ n = Len(old) + 1 => Recall(d, e)[n] = e
  BY <1>2, <1>3
<1> QED
  BY <1>2, <1>4, <1>5

LEMMA ExecuteTruthful ==
  ASSUME TypeOK, ClientOK, Numbered, Truthful, NEW d \in Devices, Execute(d)
  PROVE  Truthful'
<1> DEFINE id == inbox[d][1].id
<1>1. PICK a \in Answers :
        LET entry == [id |-> id, answer |-> a]
        IN  /\ id \in Ids /\ entry \in Entry
            /\ done' = [done EXCEPT ![d] = Recall(d, entry)]
            /\ ackOut' = [ackOut EXCEPT ![d] = entry]
            /\ told' = [told EXCEPT ![id] = @ \cup {a}]
  BY ExecuteDoes
<1> HIDE DEF id
<1> DEFINE entry == [id |-> id, answer |-> a]
<1>2. told \in [Ids -> SUBSET Answers]
  BY DEF ClientOK
<1>3. \A i \in Ids : told[i] \subseteq told'[i]
  BY <1>1, <1>2
<1>4. entry.answer \in told'[entry.id] /\ entry.id \in Ids /\ entry \in Entry
  BY <1>1, <1>2
<1>5. \A c \in Records' : c.ack \in Answers => c.ack \in told'[c.id]
  BY <1>3, ExecuteStep, RecordsTruthful
<1>6. ASSUME NEW e \in Devices
      PROVE  /\ ackOut'[e] # NoAck => ackOut'[e].answer \in told'[ackOut'[e].id]
             /\ \A n \in DOMAIN done'[e] : done'[e][n].answer \in told'[done'[e][n].id]
  <2>1. done[e] \in Seq(Entry) /\ ackOut[e] \in Entry \cup {NoAck}
    BY DEF ClientOK
  <2>2. \A n \in DOMAIN done[e] : done[e][n].id \in Ids
                                  /\ done[e][n].answer \in told'[done[e][n].id]
    <3>1. \A n \in DOMAIN done[e] : done[e][n] \in Entry
      BY <2>1
    <3>2. \A n \in DOMAIN done[e] : done[e][n].id \in Ids
      BY <3>1, Zenon DEF Entry
    <3> QED
      BY <1>3, <3>2 DEF Truthful
  <2>3. ackOut[e] # NoAck => ackOut[e].answer \in told'[ackOut[e].id]
    <3>1. ackOut[e] # NoAck => ackOut[e].id \in Ids
      BY <2>1 DEF Entry
    <3> QED
      BY <1>3, <3>1 DEF Truthful
  <2>4. CASE e # d
    <3>1. done'[e] = done[e] /\ ackOut'[e] = ackOut[e]
      BY <1>1, <2>4 DEF ClientOK
    <3> QED
      BY <2>2, <2>3, <3>1
  <2>5. CASE e = d
    <3>1. done'[e] = Recall(d, entry) /\ ackOut'[e] = entry
      BY <1>1, <2>5 DEF ClientOK
    <3>2. \A n \in DOMAIN Recall(d, entry) :
            \/ Recall(d, entry)[n] = entry
            \/ \E k \in DOMAIN done[d] : Recall(d, entry)[n] = done[d][k]
      BY <1>4, RecallFrom DEF ClientOK
    <3> HIDE DEF entry
    <3> QED
      BY <1>4, <2>2, <2>5, <3>1, <3>2
  <2> QED
    BY <2>4, <2>5
<1> QED
  BY <1>5, <1>6 DEF Truthful

\* The phone repeats what it remembers; nothing else changes what is told.
LEMMA TruthfulStep ==
  ASSUME Devices = {Phone}, TypeOK, ClientOK, Numbered, Truthful, [RNext]_rvars
  PROVE  Truthful'
<1>1. ASSUME NEW d \in Devices, Execute(d) PROVE Truthful'
  BY <1>1, ExecuteTruthful
<1>2. ASSUME told' = told,
             \A d \in Devices : /\ ackOut'[d] \in {ackOut[d], NoAck}
                                /\ done'[d] \in {done[d], <<>>}
      PROVE  Truthful'
  <2>1. \A c \in Records' : c.ack \in Answers => c.ack \in told'[c.id]
    <3>1. CASE Answering({})
      BY <1>2, <3>1, RecordsTruthful
    <3>2. ASSUME NEW d \in Devices, AckArrives(d), Answering({ackOut[d]})
          PROVE  \A c \in Records' : c.ack \in Answers => c.ack \in told'[c.id]
      <4>1. ackOut[d] # NoAck
        BY <3>2 DEF AckArrives
      <4>2. ackOut[d].id \in Ids /\ ackOut[d].answer \in told[ackOut[d].id]
        BY <4>1 DEF ClientOK, Entry, Truthful
      <4> QED
        BY <1>2, <3>2, <4>2, RecordsTruthful
    <3> QED
      BY <3>1, <3>2, TypeStep DEF NewAnswers
  <2> QED
    BY <1>2, <2>1 DEF Truthful
<1>3. ASSUME NEW d \in Devices, Replay(d) PROVE Truthful'
  <2> DEFINE c == Head(inbox[d])
  <2>1. d = Phone /\ Remembered(d, c.id)
    BY <1>3 DEF Replay
  <2>2. PICK n \in DOMAIN done[d] : /\ done[d][n].id = c.id
                                    /\ Outcome(d, c.id) = done[d][n].answer
    <3> HIDE DEF c
    <3> QED
      BY <2>1, OutcomeOfEntry
  <2>3. ackOut' = [ackOut EXCEPT ![d] = [id |-> c.id, answer |-> Outcome(d, c.id)]]
    BY <1>3, <2>1 DEF Replay
  <2>4. Outcome(d, c.id) \in told[c.id]
    BY <2>2 DEF Truthful
  <2> HIDE DEF c
  <2>5. UNCHANGED <<done, told>> /\ Answering({})
    BY <1>3, ReplayStep DEF Replay
  <2>6. \A e \in Records' : e.ack \in Answers => e.ack \in told'[e.id]
    BY <2>5, RecordsTruthful
  <2>7. ASSUME NEW e \in Devices, ackOut'[e] # NoAck
        PROVE  ackOut'[e].answer \in told'[ackOut'[e].id]
    BY <2>3, <2>4, <2>5, <2>7 DEF Truthful, ClientOK
  <2> QED
    BY <2>5, <2>6, <2>7 DEF Truthful
<1>4. ASSUME NEW d \in Devices,
             Receive(d) \/ AckArrives(d) \/ AckLost(d) \/ Sample(d) \/ Post(d) \/ Kill(d)
      PROVE  Truthful'
  <2>1. told' = told /\ \A e \in Devices : /\ ackOut'[e] \in {ackOut[e], NoAck}
                                           /\ done'[e] \in {done[e], <<>>}
    BY <1>4 DEF Receive, AckArrives, AckLost, Sample, Post, Kill, ClientOK
  <2> QED
    BY <1>2, <2>1
<1>5. ASSUME \/ Requests \/ Inserts \/ ResponseLost \/ ServerDies \/ Clock
             \/ \E d \in Devices : Claims(d) \/ Empty(d) \/ Poll(d)
             \/ UNCHANGED rvars
      PROVE  Truthful'
  <2>1. UNCHANGED clientVars
    BY <1>5, ServerOnly
  <2> QED
    BY <1>2, <2>1 DEF clientVars
<1> QED
  BY <1>1, <1>3, <1>4, <1>5 DEF RNext, Client

\* The answer the bus keeps for a command is one the phone gave when it ran it,
\* whatever the phone has forgotten, lost or repeated: dedupe in handle() and
\* the outcome it re-acks.
THEOREM AcksAreTruthful ==
  ASSUME Devices = {Phone}
  PROVE  RSpec => []AckIsTruthful
<1>1. RInit => Truthful
  BY DEF RInit, Truthful, Records, Unborn, Free
<1>2. TypeOK /\ ClientOK /\ Numbered /\ Truthful /\ [RNext]_rvars => Truthful'
  BY TruthfulStep
<1>3. Truthful => AckIsTruthful
  BY DEF Truthful, AckIsTruthful, Records
<1> QED
  BY <1>1, <1>2, <1>3, RTypeCorrect, HistoryOnly, PTL DEF RSpec

-----------------------------------------------------------------------------
(* A command runs once *)

Distinct(d) ==
  \A m, n \in DOMAIN done[d] : done[d][m].id = done[d][n].id => m = n

\* What ran is remembered, so it does not run again.
OnceRun ==
  \A d \in Devices :
    /\ Distinct(d)
    /\ \A i \in Ids : ran[d][i] = 0 \/ (ran[d][i] = 1 /\ Remembered(d, i))

\* A memory with room for every id is not full when a new one comes.
LEMMA RoomForOne ==
  ASSUME ClientOK, NEW d \in Devices, Distinct(d), Memory[d] >= MaxSeq,
         NEW i \in Ids, ~Remembered(d, i)
  PROVE  Len(done[d]) # Memory[d]
<1> SUFFICES ASSUME Len(done[d]) = Memory[d] PROVE FALSE
  OBVIOUS
<1> DEFINE S == 1 .. Memory[d]
           T == Ids \ {i}
           f == [n \in S |-> done[d][n].id]
<1>1. Memory[d] \in Nat /\ MaxSeq \in Nat
  BY RendererAssumption, BusAssumption
<1>2. IsFiniteSet(S) /\ Cardinality(S) = Memory[d]
  BY <1>1, FS_Interval
<1>3. IsFiniteSet(Ids) /\ Cardinality(Ids) = MaxSeq
  BY <1>1, FS_Interval DEF Ids
<1>4. IsFiniteSet(T) /\ Cardinality(T) = MaxSeq - 1
  BY <1>3, FS_RemoveElement
<1>5. done[d] \in Seq(Entry) /\ DOMAIN done[d] = S
  BY DEF ClientOK
<1>6. \A n \in S : done[d][n] \in Entry
  BY <1>5
<1>7. \A n \in S : done[d][n].id \in Ids
  BY <1>6, Zenon DEF Entry
<1>8. \A n \in S : done[d][n].id # i
  BY <1>5 DEF Remembered
<1>9. f \in [S -> T]
  BY <1>7, <1>8
<1>10. Cardinality(T) < Cardinality(S)
  BY <1>1, <1>2, <1>4
<1>11. \E x, y \in S : x # y /\ f[x] = f[y]
  <2> HIDE DEF S, T, f
  <2> QED
    BY <1>2, <1>4, <1>9, <1>10, FS_PigeonHole
<1> QED
  BY <1>5, <1>11 DEF Distinct

LEMMA ExecuteOnce ==
  ASSUME TypeOK, ClientOK, Numbered, OnceRun, NEW d \in Devices, Memory[d] >= MaxSeq,
         Execute(d)
  PROVE  OnceRun'
<1> DEFINE id == inbox[d][1].id
<1>1. PICK a \in Answers :
        LET entry == [id |-> id, answer |-> a]
        IN  /\ id \in Ids /\ entry \in Entry /\ ~Remembered(d, id)
            /\ done' = [done EXCEPT ![d] = Recall(d, entry)]
            /\ ran' = [ran EXCEPT ![d][id] = IF @ < 2 THEN @ + 1 ELSE @]
  BY ExecuteDoes
<1> HIDE DEF id
<1> DEFINE entry == [id |-> id, answer |-> a]
           more == Append(done[d], entry)
<1>2. Recall(d, entry) = more
  BY <1>1, RoomForOne DEF OnceRun, Recall
<1>3. done[d] \in Seq(Entry) /\ entry \in Entry /\ entry.id = id
  BY <1>1 DEF ClientOK
<1>4. ran[d] \in [Ids -> Nat] /\ ran[d][id] = 0
  BY <1>1 DEF ClientOK, OnceRun
<1>5. done' = [done EXCEPT ![d] = more] /\ ran' = [ran EXCEPT ![d] = [ran[d] EXCEPT ![id] = 1]]
  <2>1. done' = [done EXCEPT ![d] = more]
    <3> HIDE DEF more
    <3> QED
      BY <1>1, <1>2
  <2>2. ran' = [ran EXCEPT ![d] = [ran[d] EXCEPT ![id] = IF @ < 2 THEN @ + 1 ELSE @]]
    BY <1>1
  <2>3. [ran[d] EXCEPT ![id] = IF @ < 2 THEN @ + 1 ELSE @] = [ran[d] EXCEPT ![id] = 1]
    BY <1>1, <1>4
  <2> QED
    BY <2>1, <2>2, <2>3
<1> HIDE DEF entry
<1>6. /\ DOMAIN more = DOMAIN done[d] \cup {Len(done[d]) + 1}
      /\ more[Len(done[d]) + 1] = entry
      /\ \A n \in DOMAIN done[d] : more[n] = done[d][n]
  BY <1>3
<1> HIDE DEF more
<1>7. \A n \in DOMAIN done[d] : done[d][n].id # id
  BY <1>1 DEF Remembered
<1>8. Distinct(d) /\ \A i \in Ids : ran[d][i] = 0 \/ (ran[d][i] = 1 /\ Remembered(d, i))
  BY DEF OnceRun
<1>9. ASSUME NEW e \in Devices
      PROVE  /\ \A m, n \in DOMAIN done'[e] : done'[e][m].id = done'[e][n].id => m = n
             /\ \A i \in Ids : \/ ran'[e][i] = 0
                               \/ /\ ran'[e][i] = 1
                                  /\ \E n \in DOMAIN done'[e] : done'[e][n].id = i
  <2>1. CASE e # d
    <3>1. done'[e] = done[e] /\ ran'[e] = ran[e]
      BY <1>5, <2>1 DEF ClientOK
    <3> QED
      BY <3>1 DEF OnceRun, Distinct, Remembered
  <2>2. CASE e = d
    <3>1. done'[e] = more /\ ran'[e] = [ran[d] EXCEPT ![id] = 1]
      BY <1>5, <2>2 DEF ClientOK
    <3>2. \A m, n \in DOMAIN more : more[m].id = more[n].id => m = n
      BY <1>3, <1>6, <1>7, <1>8 DEF Distinct
    <3>3. ASSUME NEW i \in Ids
          PROVE  \/ ran'[e][i] = 0
                 \/ ran'[e][i] = 1 /\ \E n \in DOMAIN more : more[n].id = i
      BY <1>3, <1>4, <1>6, <1>8, <3>1 DEF Remembered
    <3> QED
      BY <3>1, <3>2, <3>3
  <2> QED
    BY <2>1, <2>2
<1> QED
  BY <1>9 DEF OnceRun, Distinct, Remembered

LEMMA OnceStep ==
  ASSUME \A d \in Devices : Memory[d] >= MaxSeq,
         TypeOK, ClientOK, Numbered, OnceRun, [RNext]_rvars
  PROVE  OnceRun'
<1>1. ASSUME NEW d \in Devices, Execute(d) PROVE OnceRun'
  BY <1>1, ExecuteOnce
<1>2. CASE UNCHANGED <<done, ran>>
  BY <1>2 DEF OnceRun, Distinct, Remembered
<1>3. ASSUME NEW d \in Devices, Kill(d) PROVE OnceRun'
  <2>1. \A e \in Devices : \/ done'[e] = done[e] /\ ran'[e] = ran[e]
                           \/ done'[e] = <<>> /\ ran'[e] = [i \in Ids |-> 0]
    BY <1>3 DEF Kill, ClientOK
  <2> QED
    BY <2>1 DEF OnceRun, Distinct, Remembered
<1>4. ASSUME NEW d \in Devices,
             \/ Receive(d) \/ Replay(d) \/ AckArrives(d) \/ AckLost(d)
             \/ Sample(d) \/ Post(d)
      PROVE  OnceRun'
  BY <1>2, <1>4 DEF Receive, Replay, AckArrives, AckLost, Sample, Post
<1>5. ASSUME \/ Requests \/ Inserts \/ ResponseLost \/ ServerDies \/ Clock
             \/ \E d \in Devices : Claims(d) \/ Empty(d) \/ Poll(d)
             \/ UNCHANGED rvars
      PROVE  OnceRun'
  BY <1>2, <1>5, ServerOnly DEF clientVars
<1> QED
  BY <1>1, <1>3, <1>4, <1>5 DEF RNext, Client

\* However often a command is offered, a client that remembers every id runs it
\* once in its app's lifetime, over lost responses, lost acks and restarts of
\* the server, which never hand out an id again: EXECUTED_MEMORY and the seed.
THEOREM RunsAtMostOnce ==
  ASSUME \A d \in Devices : Memory[d] >= MaxSeq
  PROVE  RSpec => []RunsOnce
<1>1. RInit => OnceRun
  BY DEF RInit, OnceRun, Distinct
<1>2. TypeOK /\ ClientOK /\ Numbered /\ OnceRun /\ [RNext]_rvars => OnceRun'
  BY OnceStep
<1>3. OnceRun => RunsOnce
  BY DEF OnceRun, RunsOnce
<1> QED
  BY <1>1, <1>2, <1>3, RTypeCorrect, HistoryOnly, PTL DEF RSpec

-----------------------------------------------------------------------------
(* Between the devices: what a step does to the commands that can make one *)
(* start or stop *)

\* c and e are one command, perhaps at different moments.
Twin(c, e) == c.id = e.id /\ c.kind = e.kind /\ c.target = e.target /\ c.to = e.to

\* Record c is record e after the step.  It is unsettled only if e was, or if the
\* claim under way is of it; and it is settled only if it is command i.
Carries(c, e, i) ==
  /\ Twin(c, e)
  /\ c.status \in Outstanding =>
       e.status \in Outstanding \/ (Claimed /\ loop.rec.id = e.id)
  /\ e.status \in Outstanding /\ e.id # i => c.status \in Outstanding

\* A claim that begins is of an unsettled command, by the device it is for.
Picks ==
  Claimed' => \/ Claimed /\ loop' = loop
              \/ /\ ~Claimed /\ loop'.dev \in Devices
                 /\ loop'.rec \in Records /\ loop'.rec.status \in Outstanding
                 /\ loop'.rec.target # None => loop'.dev = loop'.rec.target

\* The step builds the commands of N, at most one, and settles at most command i.
Passing(N, i) ==
  /\ ~latch' /\ seq' \in {seq, seq + 1}
  /\ \A c \in Records' : (\E e \in Records : Carries(c, e, i)) \/ c \in N
  /\ \A c \in N : c.id = seq + 1 /\ seq' = seq + 1 /\ c \in Unborn'
  /\ \A c, e \in N : c = e
  /\ Picks

LEMMA TwinItself ==
  ASSUME NEW c
  PROVE  Twin(c, c)
BY DEF Twin

LEMMA CarriesItself ==
  ASSUME NEW c, NEW i
  PROVE  Carries(c, c, i)
BY DEF Carries, Twin

LEMMA PassKept ==
  ASSUME NEW i, ~latch, latch' = latch, seq' = seq, DOMAIN commands' = DOMAIN commands,
         Unborn' \subseteq Unborn, Picks,
         \A k \in DOMAIN commands : Carries(commands'[k], commands[k], i)
  PROVE  Passing({}, i)
<1>1. ASSUME NEW c \in Records' PROVE \E e \in Records : Carries(c, e, i)
  <2>1. CASE c \in Unborn'
    BY <2>1, CarriesItself DEF Records
  <2>2. CASE \E k \in DOMAIN commands' : c = commands'[k]
    BY <2>2 DEF Records
  <2> QED
    BY <2>1, <2>2 DEF Records
<1> QED
  BY <1>1 DEF Passing

LEMMA PassInsert ==
  ASSUME TypeOK, ~latch, latch' = latch, seq' = seq, NEW c \in Unborn, c \in Command,
         commands' = Insert(commands, c), Unborn' \subseteq Unborn, Picks
  PROVE  Passing({}, 0)
<1>1. ASSUME NEW k \in DOMAIN commands'
      PROVE  \E e \in Records : Carries(commands'[k], e, 0)
  <2>1. commands'[k] = c \/ \E j \in DOMAIN commands : commands'[k] = commands[j]
    BY <1>1, InsertFrom DEF TypeOK
  <2> QED
    BY <2>1, CarriesItself DEF Records
<1>2. ASSUME NEW e \in Records' PROVE \E f \in Records : Carries(e, f, 0)
  <2>1. CASE e \in Unborn'
    BY <2>1, CarriesItself DEF Records
  <2>2. CASE \E k \in DOMAIN commands' : e = commands'[k]
    BY <1>1, <2>2
  <2> QED
    BY <2>1, <2>2 DEF Records
<1> QED
  BY <1>2 DEF Passing

LEMMA PassBegin ==
  ASSUME ~latch, latch' = latch, NEW c, c.id = seq + 1, BeginEnqueue(c), NEW i,
         DOMAIN commands' = DOMAIN commands, loop' = loop,
         \A k \in DOMAIN commands : Carries(commands'[k], commands[k], i)
  PROVE  Passing({c}, i)
<1>1. Gate(c) = c
  BY DEF Gate, Refuses
<1>2. seq' = seq + 1 /\ Unborn' = Unborn \cup {c}
  BY <1>1 DEF BeginEnqueue, Unborn
<1>3. ASSUME NEW e \in Records' PROVE (\E f \in Records : Carries(e, f, i)) \/ e = c
  <2>1. CASE e \in Unborn'
    BY <1>2, <2>1, CarriesItself DEF Records
  <2>2. CASE \E k \in DOMAIN commands' : e = commands'[k]
    BY <2>2 DEF Records
  <2> QED
    BY <2>1, <2>2 DEF Records
<1>4. Picks
  BY DEF Picks, Claimed
<1> QED
  BY <1>2, <1>3, <1>4 DEF Passing

LEMMA PassStill ==
  ASSUME ~latch, latch' = latch, UNCHANGED <<seq, commands, loop, threads>>
  PROVE  Passing({}, 0)
<1>1. Picks /\ Unborn' = Unborn
  BY DEF Picks, Claimed, Unborn
<1> QED
  BY <1>1, PassKept, CarriesItself

LEMMA PassPost ==
  ASSUME ~latch, NEW p \in Postable, PostCommand(p)
  PROVE  Passing({Blank(seq + 1, p.kind, p.owner)}, 0)
<1> DEFINE c == Blank(seq + 1, p.kind, p.owner)
<1>1. c.id = seq + 1
  BY DEF Blank
<1> HIDE DEF c
<1>2. /\ seq' = seq + 1 /\ loop = Free
      /\ UNCHANGED <<commands, threads, latch>>
      /\ loop' = [op |-> "insert", rec |-> c]
  BY DEF PostCommand, stopVars, c
<1>3. Unborn' = Unborn \cup {c} /\ Picks
  BY <1>2 DEF Unborn, Free, Picks, Claimed
<1>4. \A e \in Records' : (\E f \in Records : Carries(e, f, 0)) \/ e = c
  BY <1>2, <1>3, CarriesItself DEF Records
<1> QED
  BY <1>1, <1>2, <1>3, <1>4 DEF Passing, c

LEMMA PassInserts ==
  ASSUME TypeOK, ~latch, LoopInsert \/ ThreadInsert
  PROVE  Passing({}, 0)
<1>1. CASE LoopInsert
  <2>1. loop.rec \in Unborn /\ loop.rec \in Command
    BY <1>1, LoopType DEF LoopInsert, Unborn, TypeOK
  <2>2. Unborn' \subseteq Unborn /\ seq' = seq /\ latch' = latch /\ Picks
    BY <1>1 DEF LoopInsert, Unborn, Free, Picks, Claimed, stopVars
  <2> QED
    BY <1>1, <2>1, <2>2, PassInsert DEF LoopInsert
<1>2. CASE ThreadInsert
  <2>1. PICK c \in threads : /\ commands' = Insert(commands, c)
                             /\ threads' = threads \ {c}
                             /\ UNCHANGED <<seq, loop, latch>>
    BY <1>2 DEF ThreadInsert, stopVars
  <2>2. c \in Unborn /\ c \in Command /\ Unborn' \subseteq Unborn /\ Picks
    BY <2>1 DEF Unborn, TypeOK, Picks, Claimed
  <2> QED
    BY <2>1, <2>2, PassInsert
<1> QED
  BY <1>1, <1>2

LEMMA PassClaimCheck ==
  ASSUME TypeOK, ~latch, NEW d \in Devices, ClaimCheck(d)
  PROVE  Passing({}, 0)
<1>1. \A k \in DOMAIN commands : ~Refuses(commands[k])
  BY DEF Refuses
<1>2. commands' = commands
  <2> DEFINE owed == {k \in DOMAIN commands : Owed(commands[k], d)}
             clear == {k \in owed : ~Refuses(commands[k])}
             skipped == {k \in owed \ clear : \A j \in clear : k < j}
  <2>1. commands' = [k \in DOMAIN commands |->
                       IF k \in skipped THEN Refused(commands[k]) ELSE commands[k]]
    BY Zenon DEF ClaimCheck
  <2>2. clear = owed
    BY <1>1
  <2>3. skipped = {}
    BY <2>2
  <2> HIDE DEF skipped
  <2> QED
    BY <2>1, <2>3 DEF TypeOK
<1>3. Unborn' \subseteq Unborn /\ seq' = seq /\ latch' = latch
  BY DEF ClaimCheck, Unborn, Free, stopVars
<1>4. Picks
  <2>1. loop = Free
    BY DEF ClaimCheck
  <2>2. \/ loop' = Free
        \/ \E k \in DOMAIN commands :
             /\ Owed(commands[k], d)
             /\ loop' = [op |-> "claim", dev |-> d, rec |-> commands[k]]
    BY DEF ClaimCheck
  <2> QED
    BY <2>1, <2>2 DEF Picks, Claimed, Free, Owed, Records, Outstanding
<1> QED
  BY <1>2, <1>3, <1>4, CarriesItself, PassKept

LEMMA PassClaimCommit ==
  ASSUME TypeOK, ~latch, ClaimCommit
  PROVE  Passing({}, 0)
<1>1. ASSUME NEW k \in DOMAIN commands
      PROVE  Carries(commands'[k], commands[k], 0)
  <2> DEFINE given == [commands[k] EXCEPT !.status = "delivered",
                                          !.handedTo = @ \cup {loop.dev}, !.age = 0]
  <2>1. \/ commands'[k] = commands[k]
        \/ commands'[k] = given /\ commands[k].id = loop.rec.id
    BY DEF ClaimCommit
  <2>2. Twin(given, commands[k]) /\ given.status = "delivered"
    BY CommandsType, Zenon DEF Command, Twin
  <2> HIDE DEF given
  <2> QED
    BY <2>1, <2>2, CarriesItself DEF Carries, Outstanding, Claimed, ClaimCommit
<1>2. DOMAIN commands' = DOMAIN commands /\ seq' = seq /\ latch' = latch
  BY DEF ClaimCommit, stopVars
<1>3. Unborn' \subseteq Unborn /\ Picks
  BY DEF ClaimCommit, Unborn, Claimed, Free, Picks
<1> QED
  BY <1>1, <1>2, <1>3, PassKept

\* An ack settles its command, and that of a handshake's deactivate builds the
\* activate for the device it was to make room for.
LEMMA PassAck ==
  ASSUME TypeOK, ~latch, NEW d \in Devices, NEW k \in DOMAIN commands, NEW a \in Answers,
         Ack(d, k, a)
  PROVE  \/ Passing({}, commands[k].id)
         \/ \E h : /\ Passing({h}, commands[k].id)
                   /\ h.kind = "activate" /\ commands[k].kind = "deactivate"
                   /\ h.target = commands[k].to
<1> DEFINE c == [commands[k] EXCEPT
                   !.status = IF a = "ok" THEN "acked" ELSE "failed",
                   !.ack = a, !.age = 0]
           i == commands[k].id
           h == Handoff(c.target, c.to, c.playing, c.id)
<1>1. Carries(c, commands[k], i) /\ c.kind = commands[k].kind /\ c.to = commands[k].to
  <2>1. Twin(c, commands[k]) /\ c.status \in {"acked", "failed"}
    BY CommandsType, Zenon DEF Command, Twin
  <2> HIDE DEF c
  <2> QED
    BY <2>1 DEF Carries, Twin, Outstanding
<1>2. commands' = [commands EXCEPT ![k] = c] /\ loop' = loop /\ latch' = latch
  BY Zenon DEF Ack, stopVars
<1>3. /\ DOMAIN commands' = DOMAIN commands
      /\ \A j \in DOMAIN commands : Carries(commands'[j], commands[j], i)
  <2> HIDE DEF c, i
  <2> QED
    BY <1>1, <1>2, CarriesItself
<1>4. \/ UNCHANGED <<seq, threads>>
      \/ c.kind = "deactivate" /\ BeginEnqueue(h)
  BY Zenon DEF Ack
<1>5. CASE c.kind = "deactivate" /\ BeginEnqueue(h)
  <2>1. h.id = seq + 1 /\ h.kind = "activate" /\ h.target = c.to
    BY DEF Handoff, Blank
  <2> HIDE DEF h, c, i
  <2>2. Passing({h}, i)
    BY <1>2, <1>3, <1>5, <2>1, PassBegin
  <2>3. h.target = commands[k].to /\ commands[k].kind = "deactivate"
    BY <1>1, <1>5, <2>1
  <2> QED
    BY <2>1, <2>2, <2>3 DEF i
<1>6. CASE UNCHANGED <<seq, threads>>
  <2> HIDE DEF c, i
  <2>1. Picks /\ Unborn' = Unborn
    BY <1>2, <1>6 DEF Picks, Claimed, Unborn
  <2> QED
    BY <1>2, <1>3, <1>6, <2>1, PassKept DEF i
<1> QED
  BY <1>4, <1>5, <1>6

LEMMA PassPostState ==
  ASSUME ~latch, NEW d \in Devices, NEW r, PostState(d, r)
  PROVE  \/ Passing({}, 0)
         \/ \E c : Passing({c}, 0) /\ c.kind = "queue" /\ c.target = None
<1> DEFINE c == Blank(seq + 1, "queue", FALSE)
<1>1. c.id = seq + 1 /\ c.kind = "queue" /\ c.target = None
  BY DEF Blank
<1>2. UNCHANGED <<commands, loop, latch>>
  BY DEF PostState, stopVars
<1>3. CASE UNCHANGED <<seq, threads>>
  BY <1>2, <1>3, PassStill
<1>4. CASE BeginEnqueue(c)
  <2> HIDE DEF c
  <2>1. Passing({c}, 0)
    BY <1>1, <1>2, <1>4, PassBegin, CarriesItself
  <2> QED
    BY <1>1, <2>1
<1> QED
  BY <1>3, <1>4 DEF PostState

\* A transfer asks the old renderer to stop, if it is there to be asked.
LEMMA PassTransfer ==
  ASSUME ~latch, NEW d \in Devices, Transfer(d)
  PROVE  /\ active' = d
         /\ Holder = d => Passing({}, 0)
         /\ Holder # d /\ Live(Holder) =>
              \E ask : /\ Passing({ask}, 0) /\ ask \in Records'
                       /\ ask.kind = "deactivate" /\ ask.status = "queued"
                       /\ ask.target = Holder /\ ask.to = d
<1> DEFINE was == report[Holder].playing
           ask == [Blank(seq + 1, "deactivate", FALSE) EXCEPT
                     !.target = Holder, !.to = d, !.playing = was]
<1>1. UNCHANGED <<commands, loop, latch>> /\ active' = d
  BY DEF Transfer, stopVars
<1>2. Holder = d => UNCHANGED <<seq, threads>>
  BY DEF Transfer, Holder
<1>3. Holder # d /\ Live(Holder) => BeginEnqueue(ask)
  BY DEF Transfer, Holder
<1>4. /\ ask.id = seq + 1 /\ ask.kind = "deactivate" /\ ask.status = "queued"
      /\ ask.target = Holder /\ ask.to = d
  BY DEF Blank
<1> HIDE DEF ask
<1>5. ASSUME BeginEnqueue(ask) PROVE Passing({ask}, 0) /\ ask \in Records'
  <2>1. Passing({ask}, 0)
    BY <1>1, <1>4, <1>5, PassBegin, CarriesItself
  <2> QED
    BY <2>1 DEF Passing, Records
<1> QED
  BY <1>1, <1>2, <1>3, <1>4, <1>5, PassStill

LEMMA PassTick ==
  ASSUME TypeOK, ~latch, Tick
  PROVE  Passing({}, 0)
<1>1. ASSUME NEW k \in DOMAIN commands
      PROVE  Carries(commands'[k], commands[k], 0)
  <2> DEFINE aged == [commands[k] EXCEPT !.age = @ + 1]
  <2>1. commands'[k] \in {commands[k], aged}
    BY DEF Tick
  <2>2. Twin(aged, commands[k]) /\ aged.status = commands[k].status
    BY CommandsType, Zenon DEF Command, Twin
  <2> HIDE DEF aged
  <2> QED
    BY <2>1, <2>2, CarriesItself DEF Carries
<1>2. DOMAIN commands' = DOMAIN commands /\ UNCHANGED <<seq, loop, threads, latch>>
  BY DEF Tick, stopVars
<1>3. Picks /\ Unborn' = Unborn
  BY <1>2 DEF Picks, Claimed, Unborn
<1> QED
  BY <1>1, <1>2, <1>3, PassKept

LEMMA PassRestart ==
  ASSUME ~latch, Restart
  PROVE  Passing({}, 0)
BY DEF Restart, Passing, Records, Unborn, Free, Picks, Claimed

-----------------------------------------------------------------------------
(* What holds until commands cross *)

Known == Records \cup InHand

\* One id, one command, wherever it has got to.
Alike == \A c, e \in Known : c.id = e.id => Twin(c, e)

\* Whatever anybody has heard of was built before.
Older ==
  /\ \A c \in Known : c.id \in 1 .. seq
  /\ \A d \in Devices : /\ ackOut[d].id \in 0 .. seq
                        /\ \A n \in DOMAIN done[d] : done[d][n].id \in 1 .. seq

\* With h the renderer: a deactivate makes room for h, an activate is for h,
\* and a start is for whoever the renderer is.
AimedAt(c, h) ==
  /\ c.kind = "deactivate" => c.target \in Devices /\ c.to = h
  /\ c.kind = "activate" => c.target = h
  /\ c.kind \in {"start", "queue"} => c.target = None

Aimed == \A c \in Open : AimedAt(c, Holder)

\* Only the renderer holds starts, and a deactivate is with the device it is for.
Delivered ==
  \A d \in Devices : \A c \in HeldBy(d) : /\ Start(c) => d = Holder
                                          /\ c.kind = "deactivate" => d = c.target

Only(h) == \A d \in Devices : player[d].playing => d = h

\* p is on its way out: it alone may play, its deactivate is unsettled, p has
\* not run it, and until it has nothing open can start anybody.
Handing(p) ==
  /\ p # Holder /\ Only(p)
  /\ \E c \in Records : /\ c.kind = "deactivate" /\ c.target = p
                        /\ c.status \in Outstanding
  /\ \A c \in Open : /\ ~Start(c)
                     /\ c.kind = "deactivate" => c.target = p /\ ~Remembered(p, c.id)
  /\ \A c \in Records : c.kind = "deactivate" => ~AckDue(c)

OneAtMost == Only(Holder) \/ \E p \in Devices : Handing(p)

Apart == Alike /\ Older /\ Aimed /\ Delivered /\ OneAtMost

\* The clients hold nothing they were not given, and their acks and memories
\* are of commands of X, which the step runs or answers again, or old.
Moves(X) ==
  /\ \A d \in Devices : \A c \in HeldBy(d)' :
        c \in HeldBy(d) \/ (~Claimed /\ Claimed' /\ loop'.dev = d /\ loop'.rec = c)
  /\ \A c \in X : c \in InHand
  /\ \A d \in Devices :
        /\ ackOut'[d].id = 0 \/ ackOut'[d].id = ackOut[d].id \/ \E c \in X : ackOut'[d].id = c.id
        /\ \A n \in DOMAIN done'[d] : \/ \E k \in DOMAIN done[d] : done'[d][n].id = done[d][k].id
                                      \/ \E c \in X : done'[d][n].id = c.id

LEMMA HeldIsKnown ==
  ASSUME NEW d \in Devices, NEW c \in HeldBy(d)
  PROVE  c \in InHand /\ c \in Open /\ c \in Known
BY DEF InHand, Open, Known

LEMMA OpenIsKnown ==
  ASSUME NEW c \in Open
  PROVE  c \in Known
BY DEF Open, Known

LEMMA HandNext ==
  ASSUME NEW N, NEW i, Passing(N, i), NEW X, Moves(X), NEW c \in InHand'
  PROVE  c \in InHand \/ (c \in Records /\ c.status \in Outstanding)
<1>1. PICK d \in Devices : c \in HeldBy(d)'
  BY DEF InHand
<1>2. CASE c \in HeldBy(d)
  BY <1>2, HeldIsKnown
<1>3. CASE ~Claimed /\ Claimed' /\ loop'.dev = d /\ loop'.rec = c
  BY <1>3 DEF Passing, Picks
<1> QED
  BY <1>1, <1>2, <1>3 DEF Moves

LEMMA KnownNext ==
  ASSUME NEW N, NEW i, Passing(N, i), NEW X, Moves(X), NEW c \in Known'
  PROVE  c \in N \/ \E e \in Known : Twin(c, e)
<1>1. CASE c \in Records'
  BY <1>1 DEF Passing, Carries, Known
<1>2. CASE c \in InHand'
  BY <1>2, HandNext, TwinItself DEF Known
<1> QED
  BY <1>1, <1>2 DEF Known

LEMMA OpenNext ==
  ASSUME TypeOK, Alike, Older, NEW N, NEW i, Passing(N, i), NEW X, Moves(X),
         NEW c \in Open'
  PROVE  c \in N \/ \E e \in Open : Twin(c, e)
<1>1. CASE c \in InHand'
  BY <1>1, HandNext, TwinItself DEF Open
<1>2. ASSUME c \in Records', NEW e \in Records, Carries(c, e, i), c.status \in Outstanding
      PROVE  \E f \in Open : Twin(c, f)
  <2>1. CASE e.status \in Outstanding
    BY <1>2, <2>1 DEF Open, Carries
  <2>2. ASSUME NEW d \in Devices, loop.rec \in HeldBy(d), loop.rec.id = e.id
        PROVE  \E f \in Open : Twin(c, f)
    <3>1. loop.rec \in Open /\ loop.rec \in Known
      BY <2>2, HeldIsKnown
    <3>2. Twin(loop.rec, e)
      BY <2>2, <3>1 DEF Alike, Known
    <3> QED
      BY <1>2, <3>1, <3>2 DEF Twin, Carries
  <2>3. Claimed => \E d \in Devices : loop.rec \in HeldBy(d)
    BY LoopType DEF TypeOK, Claimed, HeldBy
  <2> QED
    BY <1>2, <2>1, <2>2, <2>3 DEF Carries
<1>3. ASSUME c \in Records', NEW e \in Records, Carries(c, e, i), c.kind = "deactivate",
             NEW d \in Devices, ackOut'[d].id = c.id
      PROVE  \E f \in Open : Twin(c, f)
  <2>1. Twin(c, e) /\ e.kind = "deactivate" /\ e.id = c.id /\ e \in Known
    BY <1>3 DEF Carries, Twin, Known
  <2>2. c.id \in 1 .. seq
    BY <2>1 DEF Older
  <2>3. CASE ackOut'[d].id = 0
    BY <1>3, <2>2, <2>3
  <2>4. CASE ackOut'[d].id = ackOut[d].id
    BY <1>3, <2>1, <2>4 DEF Open, AckDue
  <2>5. ASSUME NEW x \in X, ackOut'[d].id = x.id
        PROVE  \E f \in Open : Twin(c, f)
    <3>1. x \in InHand
      BY DEF Moves
    <3>2. x \in Open /\ x \in Known
      BY <3>1 DEF Open, Known
    <3>3. Twin(x, e)
      BY <1>3, <2>1, <2>5, <3>2 DEF Alike
    <3> QED
      BY <2>1, <3>2, <3>3 DEF Twin
  <2> QED
    BY <2>3, <2>4, <2>5 DEF Moves
<1> QED
  BY <1>1, <1>2, <1>3 DEF Open, Passing, AckDue

LEMMA AlikeKept ==
  ASSUME TypeOK, Alike, Older, NEW N, NEW i, Passing(N, i), NEW X, Moves(X)
  PROVE  Alike'
<1> SUFFICES ASSUME NEW c \in Known', NEW e \in Known', c.id = e.id PROVE Twin(c, e)
  BY DEF Alike
<1>1. c \in N \/ \E f \in Known : Twin(c, f)
  BY KnownNext
<1>2. e \in N \/ \E f \in Known : Twin(e, f)
  BY KnownNext
<1>3. \A f \in Known : f.id # seq + 1
  BY DEF Older, TypeOK
<1>4. CASE c \in N /\ e \in N
  BY <1>4, TwinItself DEF Passing
<1>5. ASSUME NEW f \in Known, Twin(c, f), NEW g \in Known, Twin(e, g)
      PROVE  Twin(c, e)
  BY <1>5 DEF Alike, Twin
<1> QED
  BY <1>1, <1>2, <1>3, <1>4, <1>5 DEF Passing, Twin

LEMMA OlderKept ==
  ASSUME TypeOK, ClientOK, Older, NEW N, NEW i, Passing(N, i), NEW X, Moves(X)
  PROVE  Older'
<1>1. seq \in Nat /\ seq' \in {seq, seq + 1}
  BY DEF TypeOK, Passing
<1>2. ASSUME NEW c \in Known' PROVE c.id \in 1 .. seq'
  <2>1. c \in N \/ \E e \in Known : Twin(c, e)
    BY <1>2, KnownNext
  <2> QED
    BY <1>1, <2>1 DEF Passing, Twin, Older
<1>3. \A c \in X : c.id \in 1 .. seq
  BY DEF Moves, Older, Known
<1>4. ASSUME NEW d \in Devices PROVE ackOut'[d].id \in 0 .. seq'
  BY <1>1, <1>3 DEF Moves, Older
<1>5. ASSUME NEW d \in Devices, NEW n \in DOMAIN done'[d] PROVE done'[d][n].id \in 1 .. seq'
  <2>1. \/ \E k \in DOMAIN done[d] : done'[d][n].id = done[d][k].id
        \/ \E c \in X : done'[d][n].id = c.id
    BY DEF Moves
  <2> QED
    BY <1>1, <1>3, <2>1 DEF Older
<1> QED
  BY <1>2, <1>4, <1>5 DEF Older

LEMMA AimedKept ==
  ASSUME TypeOK, Alike, Older, NEW N, NEW i, Passing(N, i), NEW X, Moves(X),
         NEW h, Holder' = h, \A c \in Open \cup N : AimedAt(c, h)
  PROVE  Aimed'
<1> SUFFICES ASSUME NEW c \in Open' PROVE AimedAt(c, h)
  BY DEF Aimed, AimedAt
<1>1. c \in N \/ \E e \in Open : Twin(c, e)
  BY OpenNext
<1>2. \A e \in Open : Twin(c, e) => AimedAt(c, h)
  BY DEF Twin, AimedAt
<1> QED
  BY <1>1, <1>2

LEMMA DeliveredKept ==
  ASSUME TypeOK, Aimed, Delivered, ~StartStrayed, Holder' = Holder,
         NEW N, NEW i, Passing(N, i), NEW X, Moves(X)
  PROVE  Delivered'
<1> SUFFICES ASSUME NEW d \in Devices, NEW c \in HeldBy(d)'
             PROVE  (Start(c) => d = Holder) /\ (c.kind = "deactivate" => d = c.target)
  BY DEF Delivered, Start
<1>1. CASE c \in HeldBy(d)
  BY <1>1 DEF Delivered
<1>2. CASE ~Claimed /\ Claimed' /\ loop'.dev = d /\ loop'.rec = c
  <2>1. c \in Records /\ c.status \in Outstanding /\ (c.target # None => d = c.target)
    BY <1>2 DEF Passing, Picks
  <2>2. c \in Open
    BY <2>1 DEF Open
  <2>3. c.kind = "deactivate" => c.target # None
    BY <2>2, BusAssumption DEF Aimed, AimedAt
  <2>4. Start(c) => d = Holder
    BY <1>2 DEF StartStrayed, Start
  <2> QED
    BY <2>1, <2>3, <2>4
<1> QED
  BY <1>1, <1>2 DEF Moves

-----------------------------------------------------------------------------
(* What a step does, and that nobody else starts *)

\* A device starts only by running a start, and a deactivate that runs stops it.
Plays(X) ==
  /\ \A d \in Devices : player'[d].playing =>
        player[d].playing \/ \E c \in X : c \in HeldBy(d) /\ Start(c)
  /\ \A c \in X : c.kind = "deactivate" =>
        \E d \in Devices : c \in HeldBy(d) /\ (~player'[d].playing \/ Remembered(d, c.id))

\* A new command is a pause, a start or the activate an arriving ack makes.
Brings(N) ==
  \A c \in N :
    \/ c.kind = "control"
    \/ c.kind \in {"start", "queue"} /\ c.target = None
    \/ /\ c.kind = "activate"
       /\ \E e \in Records : e.kind = "deactivate" /\ AckDue(e) /\ c.target = e.to

\* Only an arriving ack settles a command.
Settles(i) == i = 0 \/ \E d \in Devices : ackOut[d].id = i

Does(N, i, X) ==
  Passing(N, i) /\ Moves(X) /\ Plays(X) /\ Brings(N) /\ Settles(i) /\ Holder' = Holder

\* The device on its way out goes on, or is out.
LEMMA HandingStep ==
  ASSUME TypeOK, IdsAreUnique, Alike, Older, Delivered, NEW p \in Devices, Handing(p),
         NEW N, NEW i, NEW X, Does(N, i, X), ~Crossing
  PROVE  OneAtMost'
<1> USE DEF Does
<1>1. PICK e \in Records : /\ e.kind = "deactivate" /\ e.target = p
                           /\ e.status \in Outstanding
  BY DEF Handing
<1>2. Stopping
  BY <1>1 DEF Stopping, Open
<1>3. \A c \in X : c \in Open /\ c \in Known
  BY DEF Moves, Open, Known
<1>4. \A c \in Open : ~Start(c) /\ (c.kind = "deactivate" => c.target = p /\ ~Remembered(p, c.id))
  BY DEF Handing
<1>5. Only(p)'
  <2>1. \A d \in Devices : player'[d].playing => player[d].playing
    BY <1>3, <1>4 DEF Plays
  <2> QED
    BY <2>1 DEF Only, Handing
<1>6. ASSUME NEW x \in X, x.kind = "deactivate"
      PROVE  OneAtMost'
  <2>1. PICK d \in Devices : x \in HeldBy(d) /\ (~player'[d].playing \/ Remembered(d, x.id))
    BY <1>6 DEF Plays
  <2>2. d = p /\ ~Remembered(p, x.id)
    BY <1>3, <1>4, <1>6, <2>1 DEF Delivered
  <2>3. Only(Holder)'
    BY <1>5, <2>1, <2>2 DEF Only
  <2> QED
    BY <2>3 DEF OneAtMost
<1>7. ASSUME \A x \in X : x.kind # "deactivate"
      PROVE  Handing(p)'
  <2>1. ASSUME NEW c \in N PROVE c.kind = "control"
    <3>1. c \in Unborn' \ Unborn
      <4>1. c \in Unborn' /\ c.id = seq + 1
        BY DEF Passing
      <4>2. \A f \in Unborn : f.id \in 1 .. seq
        BY DEF IdsAreUnique, Records
      <4> QED
        BY <4>1, <4>2 DEF TypeOK
    <3>2. c.kind \notin {"start", "queue"}
      BY <1>2, <3>1 DEF Crossing, StartedTooSoon
    <3> QED
      BY <3>2 DEF Brings, Handing
  <2>2. e.id # i
    <3>1. ~AckDue(e) /\ e.id \in 1 .. seq
      BY <1>1 DEF Handing, Older, Known
    <3> QED
      BY <3>1 DEF Settles, AckDue
  <2>3. \E c \in Records' : /\ c.kind = "deactivate" /\ c.target = p
                            /\ c.status \in Outstanding
    <3>1. PICK c \in Records' : c.id = e.id
      BY <1>1 DEF Crossing, StopDropped
    <3>2. e.id \in 1 .. seq
      BY DEF IdsAreUnique
    <3>3. c \notin N
      BY <3>1, <3>2 DEF Passing, TypeOK
    <3>4. PICK f \in Records : Carries(c, f, i)
      BY <3>3 DEF Passing
    <3>5. f = e
      BY <3>1, <3>4, IdsDetermine DEF Carries, Twin
    <3> QED
      BY <1>1, <2>2, <3>4, <3>5 DEF Carries, Twin
  <2>4. ASSUME NEW c, NEW f \in Known, Twin(c, f), c.kind = "deactivate", NEW x \in X
        PROVE  x.id # c.id
    BY <1>3, <1>7, <2>4 DEF Alike, Twin
  <2>5. ASSUME NEW c \in Open'
        PROVE  ~Start(c) /\ (c.kind = "deactivate" => c.target = p /\ ~Remembered(p, c.id)')
    <3>1. CASE c \in N
      BY <2>1, <3>1 DEF Start
    <3>2. ASSUME NEW f \in Open, Twin(c, f)
          PROVE  ~Start(c) /\ (c.kind = "deactivate" => c.target = p)
      BY <1>4, <3>2 DEF Twin, Start
    <3>3. ASSUME NEW f \in Open, Twin(c, f), c.kind = "deactivate"
          PROVE  ~Remembered(p, c.id)'
      <4>1. ~Remembered(p, c.id)
        BY <1>4, <3>3 DEF Twin
      <4>2. \A x \in X : x.id # c.id
        BY <2>4, <3>3, OpenIsKnown
      <4> QED
        BY <4>1, <4>2 DEF Moves, Remembered
    <3> QED
      BY <3>1, <3>2, <3>3, OpenNext
  <2>6. ASSUME NEW c \in Records', c.kind = "deactivate", NEW d \in Devices, ackOut'[d].id = c.id
        PROVE  FALSE
    <3>1. PICK f \in Records : Carries(c, f, i)
      BY <2>1, <2>6 DEF Passing
    <3>2. f \in Known /\ Twin(c, f) /\ f.kind = "deactivate" /\ f.id = c.id
      BY <2>6, <3>1 DEF Carries, Twin, Known
    <3>3. c.id # 0 /\ ackOut[d].id # c.id
      BY <3>2 DEF Older, Handing, AckDue
    <3>4. \A x \in X : x.id # c.id
      BY <2>4, <2>6, <3>2
    <3> QED
      BY <2>6, <3>3, <3>4 DEF Moves
  <2> QED
    BY <1>5, <2>3, <2>5, <2>6 DEF Handing, AckDue, Start
<1> QED
  BY <1>6, <1>7 DEF OneAtMost

LEMMA OneAtMostKept ==
  ASSUME TypeOK, IdsAreUnique, Apart, NEW N, NEW i, NEW X, Does(N, i, X), ~Crossing
  PROVE  OneAtMost'
<1>1. CASE Only(Holder)
  <2>1. ASSUME NEW d \in Devices, player'[d].playing PROVE d = Holder
    BY <1>1, <2>1 DEF Does, Plays, Only, Apart, Delivered
  <2> QED
    BY <2>1 DEF OneAtMost, Only, Does
<1> QED
  BY <1>1, HandingStep DEF Apart, OneAtMost

\* A step after which the renderer is who it was.
LEMMA SameHolderStep ==
  ASSUME TypeOK, ClientOK, IdsAreUnique, Apart,
         NEW N, NEW i, NEW X, Does(N, i, X), ~Crossing
  PROVE  Apart'
<1>1. Alike' /\ Older'
  BY AlikeKept, OlderKept DEF Apart, Does
<1>2. ASSUME NEW c \in N PROVE AimedAt(c, Holder)
  <2>1. CASE c.kind = "control"
    BY <2>1 DEF AimedAt
  <2>2. CASE c.kind \in {"start", "queue"} /\ c.target = None
    BY <2>2 DEF AimedAt
  <2>3. ASSUME c.kind = "activate", NEW e \in Records, e.kind = "deactivate", AckDue(e),
               c.target = e.to
        PROVE  AimedAt(c, Holder)
    <3>1. e \in Open
      BY <2>3 DEF Open
    <3> QED
      BY <2>3, <3>1 DEF AimedAt, Apart, Aimed
  <2> QED
    BY <2>1, <2>2, <2>3 DEF Does, Brings
<1>3. Aimed'
  <2>1. \A c \in Open \cup N : AimedAt(c, Holder)
    BY <1>2 DEF Apart, Aimed
  <2> HIDE DEF Holder
  <2> QED
    BY <2>1, AimedKept DEF Apart, Does
<1>4. Delivered'
  BY DeliveredKept DEF Apart, Does, Crossing
<1> QED
  BY <1>1, <1>3, <1>4, OneAtMostKept DEF Apart

-----------------------------------------------------------------------------
(* Every step, told in those terms *)

\* A client holds what it held, and the claim that begins.
LEMMA HeldFrom ==
  ASSUME Picks, \A d \in Devices : \A n \in DOMAIN inbox'[d] : inbox'[d][n] \in HeldBy(d)
  PROVE  \A d \in Devices : \A c \in HeldBy(d)' :
           c \in HeldBy(d) \/ (~Claimed /\ Claimed' /\ loop'.dev = d /\ loop'.rec = c)
<1> SUFFICES ASSUME NEW d \in Devices, NEW c \in HeldBy(d)'
             PROVE  c \in HeldBy(d) \/ (~Claimed /\ Claimed' /\ loop'.dev = d /\ loop'.rec = c)
  OBVIOUS
<1>1. (\E n \in DOMAIN inbox'[d] : c = inbox'[d][n]) \/ (Claimed' /\ loop'.dev = d /\ loop'.rec = c)
  BY DEF HeldBy
<1>2. CASE Claimed' /\ loop'.dev = d /\ loop'.rec = c
  BY <1>2 DEF Picks, HeldBy
<1> QED
  BY <1>1, <1>2

LEMMA InboxIsHeld ==
  ASSUME NEW d, NEW n \in DOMAIN inbox[d]
  PROVE  inbox[d][n] \in HeldBy(d)
BY DEF HeldBy

\* The server's steps leave the clients alone.
LEMMA ServerMoves ==
  ASSUME UNCHANGED clientVars, NEW N, NEW i, Passing(N, i)
  PROVE  Moves({}) /\ Plays({})
<1>1. \A d \in Devices : \A c \in HeldBy(d)' :
           c \in HeldBy(d) \/ (~Claimed /\ Claimed' /\ loop'.dev = d /\ loop'.rec = c)
  BY HeldFrom, InboxIsHeld DEF clientVars, Passing
<1>2. UNCHANGED <<player, done, ackOut>>
  BY DEF clientVars
<1> QED
  BY <1>1, <1>2 DEF Moves, Plays

LEMMA DoesNothingNew ==
  ASSUME NEW X, Passing({}, 0), Moves(X), Plays(X), active' = active
  PROVE  Does({}, 0, X)
BY DEF Does, Brings, Settles, Holder

\* Every step of the server but a transfer and its death.
LEMMA ServerDoes ==
  ASSUME TypeOK, ~latch,
         \/ Inserts \/ ResponseLost \/ Clock
         \/ \E p \in Postable : Alone(PostCommand(p))
         \/ \E d \in Devices : Claims(d) \/ Empty(d) \/ Poll(d)
         \/ UNCHANGED rvars
  PROVE  \E N, i, X : Does(N, i, X)
<1>1. ASSUME Passing({}, 0), UNCHANGED clientVars, active' = active
      PROVE  \E N, i, X : Does(N, i, X)
  BY <1>1, ServerMoves, DoesNothingNew
<1>2. CASE Inserts
  <2>1. UNCHANGED clientVars /\ active' = active /\ (LoopInsert \/ ThreadInsert)
    BY <1>2 DEF Inserts, Alone, LoopInsert, ThreadInsert, devVars
  <2> QED
    BY <1>1, <2>1, PassInserts
<1>3. CASE ResponseLost
  <2>1. UNCHANGED clientVars /\ active' = active /\ ClaimCommit
    BY <1>3 DEF ResponseLost, Alone, ClaimCommit, devVars
  <2> QED
    BY <1>1, <2>1, PassClaimCommit
<1>4. CASE Clock
  <2>1. UNCHANGED clientVars /\ active' = active /\ Tick
    BY <1>4 DEF Clock, Alone, Tick
  <2> QED
    BY <1>1, <2>1, PassTick
<1>5. ASSUME NEW p \in Postable, Alone(PostCommand(p))
      PROVE  \E N, i, X : Does(N, i, X)
  <2> DEFINE c == Blank(seq + 1, p.kind, p.owner)
  <2>1. PostCommand(p) /\ UNCHANGED clientVars /\ active' = active
    BY <1>5 DEF Alone, PostCommand, devVars
  <2>2. Passing({c}, 0)
    BY <2>1, PassPost
  <2>3. Moves({}) /\ Plays({})
    BY <2>1, <2>2, ServerMoves
  <2>4. c.target = None /\ c.kind \in {"start", "queue", "control"}
    <3>1. p \in [kind: {"start", "queue", "control"}, owner: BOOLEAN]
      BY BusAssumption
    <3> QED
      BY <3>1 DEF Blank
  <2> HIDE DEF c
  <2>5. Does({c}, 0, {})
    BY <2>1, <2>2, <2>3, <2>4 DEF Does, Brings, Settles, Holder
  <2> QED
    BY <2>5
<1>6. ASSUME NEW d \in Devices, Claims(d) \/ Empty(d) \/ Poll(d)
      PROVE  \E N, i, X : Does(N, i, X)
  <2>1. CASE Claims(d)
    <3>1. UNCHANGED clientVars /\ active' = active /\ ClaimCheck(d)
      BY <2>1 DEF Claims, Alone, ClaimCheck, devVars
    <3> QED
      BY <1>1, <3>1, PassClaimCheck
  <2>2. CASE Empty(d) \/ Poll(d)
    <3>1. UNCHANGED clientVars /\ active' = active /\ latch' = latch
            /\ UNCHANGED <<seq, commands, loop, threads>>
      BY <2>2 DEF Empty, Poll, Alone, PollTimesOut, PollBegin, devVars, stopVars
    <3> QED
      BY <1>1, <3>1, PassStill
  <2> QED
    BY <1>6, <2>1, <2>2
<1>7. CASE UNCHANGED rvars
  <2>1. UNCHANGED clientVars /\ active' = active /\ latch' = latch
          /\ UNCHANGED <<seq, commands, loop, threads>>
    BY <1>7 DEF rvars, vars, devVars, stopVars
  <2> QED
    BY <1>1, <2>1, PassStill
<1> QED
  BY <1>2, <1>3, <1>4, <1>5, <1>6, <1>7

LEMMA ReceiveDoes ==
  ASSUME TypeOK, ClientOK, ~latch, NEW d \in Devices, Receive(d)
  PROVE  Does({}, 0, {})
<1>1. Passing({}, 0)
  BY PassClaimCommit DEF Receive
<1>2. inbox[d] \in Seq(Command) /\ inbox' = [inbox EXCEPT ![d] = Append(@, loop.rec)]
  BY DEF Receive, ClientOK
<1>3. loop.rec \in HeldBy(d)
  BY DEF Receive, Claimed, HeldBy
<1>4. ASSUME NEW e \in Devices, NEW n \in DOMAIN inbox'[e]
      PROVE  inbox'[e][n] \in HeldBy(e)
  <2>1. CASE e = d
    <3> DEFINE more == Append(inbox[d], loop.rec)
    <3>1. \A m \in DOMAIN more : more[m] = loop.rec \/ (m \in DOMAIN inbox[d] /\ more[m] = inbox[d][m])
      BY <1>2
    <3>2. inbox'[d] = more
      BY <1>2 DEF ClientOK
    <3> QED
      BY <1>3, <1>4, <2>1, <3>1, <3>2, InboxIsHeld
  <2>2. CASE e # d
    BY <1>2, <1>4, <2>2, InboxIsHeld DEF ClientOK
  <2> QED
    BY <2>1, <2>2
<1>5. UNCHANGED <<player, done, ackOut, active>>
  BY DEF Receive, ClaimCommit, devVars
<1>6. \A e \in Devices : \A c \in HeldBy(e)' :
           c \in HeldBy(e) \/ (~Claimed /\ Claimed' /\ loop'.dev = e /\ loop'.rec = c)
  BY <1>1, <1>4, HeldFrom DEF Passing
<1>7. Moves({}) /\ Plays({})
  BY <1>5, <1>6 DEF Moves, Plays
<1> QED
  BY <1>1, <1>5, <1>7, DoesNothingNew

\* The head of an inbox leaves it.
LEMMA TailMoves ==
  ASSUME ClientOK, NEW d \in Devices, inbox[d] # <<>>, Picks,
         inbox' = [inbox EXCEPT ![d] = Tail(@)]
  PROVE  /\ Head(inbox[d]) \in HeldBy(d)
         /\ \A e \in Devices : \A c \in HeldBy(e)' :
              c \in HeldBy(e) \/ (~Claimed /\ Claimed' /\ loop'.dev = e /\ loop'.rec = c)
<1>1. inbox[d] \in Seq(Command)
  BY DEF ClientOK
<1>2. /\ Head(inbox[d]) = inbox[d][1] /\ 1 \in DOMAIN inbox[d]
      /\ \A n \in DOMAIN Tail(inbox[d]) :
           n + 1 \in DOMAIN inbox[d] /\ Tail(inbox[d])[n] = inbox[d][n + 1]
  BY <1>1
<1>3. ASSUME NEW e \in Devices, NEW n \in DOMAIN inbox'[e]
      PROVE  inbox'[e][n] \in HeldBy(e)
  <2>1. CASE e = d
    <3>1. inbox'[d] = Tail(inbox[d])
      BY DEF ClientOK
    <3> QED
      BY <1>2, <1>3, <2>1, <3>1, InboxIsHeld
  <2>2. CASE e # d
    BY <1>3, <2>2, InboxIsHeld DEF ClientOK
  <2> QED
    BY <2>1, <2>2
<1>4. Head(inbox[d]) \in HeldBy(d)
  BY <1>2, InboxIsHeld
<1> QED
  BY <1>3, <1>4, HeldFrom

\* What a start or anything else leaves playing.
LEMMA PlayedPlays ==
  ASSUME ClientOK, NEW d \in Devices, NEW c \in Command, NEW p \in Played(d, c)
  PROVE  /\ p.playing => player[d].playing \/ Start(c)
         /\ c.kind = "deactivate" => ~p.playing
<1>1. player[d] \in Report
  BY DEF ClientOK
<1>2. [player[d] EXCEPT !.playing = FALSE].playing = FALSE
  BY <1>1, Zenon DEF Report
<1>3. CASE c.kind = "control"
  BY <1>2, <1>3 DEF Played
<1>4. CASE c.kind = "deactivate"
  BY <1>2, <1>4 DEF Played
<1>5. c.kind \in Kinds
  BY Zenon DEF Command
<1> QED
  BY <1>3, <1>4, <1>5 DEF Start, Kinds

LEMMA ExecuteDoesIt ==
  ASSUME TypeOK, ClientOK, Numbered, ~latch, NEW d \in Devices, Execute(d)
  PROVE  \E N : Does(N, 0, {Head(inbox[d])})
<1> DEFINE c == Head(inbox[d])
<1>1. inbox[d] # <<>> /\ inbox[d] \in Seq(Command) /\ c \in Command
  BY DEF Execute, ClientOK
<1>0. c.id \in Ids
  BY <1>1 DEF Numbered
<1> HIDE DEF c
<1>2. PICK a \in (IF c.kind = "deactivate" THEN {"ok"} ELSE Answers) :
        /\ \E p \in Played(d, c) \cup (IF a = "ok" THEN {} ELSE {player[d]}) :
             player' = [player EXCEPT ![d] = p]
        /\ done' = [done EXCEPT ![d] = Recall(d, [id |-> c.id, answer |-> a])]
        /\ ackOut' = [ackOut EXCEPT ![d] = [id |-> c.id, answer |-> a]]
  BY Zenon DEF Execute, c
<1>3. /\ inbox' = [inbox EXCEPT ![d] = Tail(@)]
      /\ PostState(d, player'[d]) \/ UNCHANGED vars
  BY Zenon DEF Execute, c
<1>4. active' = active
  BY <1>3 DEF PostState, vars, devVars
<1>5. PICK N : Passing(N, 0) /\ Brings(N)
  <2>1. CASE PostState(d, player'[d])
    <3>1. \/ Passing({}, 0)
          \/ \E e : Passing({e}, 0) /\ e.kind = "queue" /\ e.target = None
      BY <2>1, PassPostState
    <3>2. Brings({}) /\ \A e : e.kind = "queue" /\ e.target = None => Brings({e})
      BY DEF Brings
    <3> QED
      BY <3>1, <3>2
  <2>2. CASE UNCHANGED vars
    BY <2>2, PassStill DEF vars, stopVars, Brings
  <2> QED
    BY <1>3, <2>1, <2>2
<1>6. /\ c \in HeldBy(d) /\ c \in InHand
      /\ \A e \in Devices : \A f \in HeldBy(e)' :
           f \in HeldBy(e) \/ (~Claimed /\ Claimed' /\ loop'.dev = e /\ loop'.rec = f)
  BY <1>1, <1>3, <1>5, TailMoves, HeldIsKnown DEF Passing, c
<1>7. Moves({c})
  <2>1. \A e \in Devices : ackOut'[e].id = ackOut[e].id \/ ackOut'[e].id = c.id
    BY <1>2 DEF ClientOK
  <2>2. ASSUME NEW e \in Devices, NEW n \in DOMAIN done'[e]
        PROVE  (\E k \in DOMAIN done[e] : done'[e][n].id = done[e][k].id) \/ done'[e][n].id = c.id
    <3>1. CASE e = d
      <4> DEFINE entry == [id |-> c.id, answer |-> a]
      <4>1. entry.id = c.id /\ done'[d] = Recall(d, entry)
        BY <1>2 DEF ClientOK
      <4>2. Recall(d, entry)[n] = entry \/ \E k \in DOMAIN done[d] : Recall(d, entry)[n] = done[d][k]
        <5>1. entry \in Entry
          BY <1>0, <1>2 DEF Entry, Answers
        <5> HIDE DEF entry
        <5>2. n \in DOMAIN Recall(d, entry) /\ done \in [Devices -> Seq(Entry)]
          BY <2>2, <3>1, <4>1 DEF ClientOK
        <5> QED
          BY <5>1, <5>2, RecallFrom
      <4> HIDE DEF entry
      <4> QED
        BY <3>1, <4>1, <4>2
    <3>2. CASE e # d
      BY <1>2, <2>2, <3>2 DEF ClientOK
    <3> QED
      BY <3>1, <3>2
  <2> QED
    BY <1>6, <2>1, <2>2 DEF Moves
<1>8. Plays({c})
  <2>1. PICK p \in Played(d, c) \cup (IF a = "ok" THEN {} ELSE {player[d]}) :
          player' = [player EXCEPT ![d] = p]
    BY <1>2
  <2>2. /\ p.playing => player[d].playing \/ Start(c)
        /\ c.kind = "deactivate" => ~p.playing
    BY <1>1, <1>2, <2>1, PlayedPlays
  <2> QED
    BY <1>6, <2>1, <2>2 DEF Plays, ClientOK
<1>9. Does(N, 0, {c})
  BY <1>4, <1>5, <1>7, <1>8 DEF Does, Settles, Holder
<1> QED
  BY <1>9 DEF c

LEMMA ReplayDoes ==
  ASSUME TypeOK, ClientOK, ~latch, NEW d \in Devices, Replay(d)
  PROVE  Does({}, 0, {Head(inbox[d])})
<1> DEFINE c == Head(inbox[d])
<1>1. /\ inbox[d] # <<>> /\ Remembered(d, c.id)
      /\ inbox' = [inbox EXCEPT ![d] = Tail(@)]
      /\ ackOut' = [ackOut EXCEPT ![d] =
           [id |-> c.id, answer |-> IF d = Phone THEN Outcome(d, c.id) ELSE "ok"]]
      /\ UNCHANGED <<vars, player, done>>
  BY DEF Replay
<1>2. Passing({}, 0) /\ active' = active
  BY <1>1, PassStill DEF vars, devVars, stopVars
<1>3. /\ c \in HeldBy(d) /\ c \in InHand
      /\ \A e \in Devices : \A f \in HeldBy(e)' :
           f \in HeldBy(e) \/ (~Claimed /\ Claimed' /\ loop'.dev = e /\ loop'.rec = f)
  BY <1>1, <1>2, TailMoves, HeldIsKnown DEF Passing
<1> HIDE DEF c
<1>4. Moves({c})
  <2>1. \A e \in Devices : ackOut'[e].id = ackOut[e].id \/ ackOut'[e].id = c.id
    BY <1>1 DEF ClientOK
  <2> QED
    BY <1>1, <1>3, <2>1 DEF Moves
<1>5. Plays({c})
  BY <1>1, <1>3 DEF Plays
<1> QED
  BY <1>2, <1>4, <1>5, DoesNothingNew DEF c

LEMMA AckArrivesDoes ==
  ASSUME TypeOK, ClientOK, ~latch, NEW d \in Devices, AckArrives(d)
  PROVE  \E N, i : Does(N, i, {})
<1>1. /\ ackOut' = [ackOut EXCEPT ![d] = NoAck]
      /\ UNCHANGED <<player, inbox, done>>
  BY DEF AckArrives
<1>2. active' = active
  BY DEF AckArrives, Ack, vars, devVars
<1>3. ASSUME NEW N, NEW i, Passing(N, i)
      PROVE  Moves({}) /\ Plays({})
  <2>1. \A e \in Devices : \A c \in HeldBy(e)' :
           c \in HeldBy(e) \/ (~Claimed /\ Claimed' /\ loop'.dev = e /\ loop'.rec = c)
    BY <1>1, <1>3, HeldFrom, InboxIsHeld DEF Passing
  <2>2. \A e \in Devices : ackOut'[e].id = ackOut[e].id \/ ackOut'[e].id = 0
    BY <1>1 DEF NoAck, ClientOK
  <2> QED
    BY <1>1, <2>1, <2>2 DEF Moves, Plays
<1>4. CASE UNCHANGED vars
  <2>1. Passing({}, 0)
    BY <1>4, PassStill DEF vars, stopVars
  <2> QED
    BY <1>2, <1>3, <2>1, DoesNothingNew
<1>5. ASSUME NEW k \in DOMAIN commands, commands[k].id = ackOut[d].id,
             Ack(d, k, ackOut[d].answer)
      PROVE  \E N, i : Does(N, i, {})
  <2>1. ackOut[d].answer \in Answers
    BY DEF AckArrives, ClientOK, Entry
  <2>2. commands[k] \in Records /\ AckDue(commands[k])
    BY <1>5 DEF Records, AckDue
  <2>3. Settles(commands[k].id)
    BY <1>5 DEF Settles
  <2>4. CASE Passing({}, commands[k].id)
    BY <1>2, <1>3, <2>3, <2>4 DEF Does, Brings, Holder
  <2>5. ASSUME NEW h, Passing({h}, commands[k].id), h.kind = "activate",
               commands[k].kind = "deactivate", h.target = commands[k].to
        PROVE  \E N, i : Does(N, i, {})
    <3>1. Brings({h})
      BY <2>2, <2>5 DEF Brings
    <3> QED
      BY <1>2, <1>3, <2>3, <2>5, <3>1 DEF Does, Holder
  <2> QED
    BY <1>5, <2>1, <2>4, <2>5, PassAck
<1> QED
  BY <1>4, <1>5 DEF AckArrives

LEMMA OtherDoes ==
  ASSUME TypeOK, ClientOK, ~latch, NEW d \in Devices,
         AckLost(d) \/ Sample(d) \/ Post(d) \/ Kill(d)
  PROVE  \E N, i, X : Does(N, i, X)
<1>1. \A e \in Devices : \/ inbox'[e] = inbox[e] /\ ackOut'[e] = ackOut[e]
                            /\ player'[e] = player[e] /\ done'[e] = done[e]
                         \/ inbox'[e] = inbox[e] /\ ackOut'[e] = NoAck
                            /\ player'[e] = player[e] /\ done'[e] = done[e]
                         \/ inbox'[e] = <<>> /\ ackOut'[e] = NoAck
                            /\ player'[e] = NoReport /\ done'[e] = <<>>
  BY DEF AckLost, Sample, Post, Kill, ClientOK
<1>2. ASSUME NEW N, NEW i, Passing(N, i)
      PROVE  Moves({}) /\ Plays({})
  <2>1. \A e \in Devices : \A n \in DOMAIN inbox'[e] : inbox'[e][n] \in HeldBy(e)
    BY <1>1, InboxIsHeld
  <2>2. \A e \in Devices : \A c \in HeldBy(e)' :
           c \in HeldBy(e) \/ (~Claimed /\ Claimed' /\ loop'.dev = e /\ loop'.rec = c)
    BY <1>2, <2>1, HeldFrom DEF Passing
  <2>3. \A e \in Devices : ackOut'[e].id = ackOut[e].id \/ ackOut'[e].id = 0
    BY <1>1 DEF NoAck
  <2>4. \A e \in Devices : \A n \in DOMAIN done'[e] : n \in DOMAIN done[e] /\ done'[e][n] = done[e][n]
    BY <1>1
  <2>5. \A e \in Devices : player'[e].playing => player[e].playing
    BY <1>1 DEF NoReport
  <2> QED
    BY <2>2, <2>3, <2>4, <2>5 DEF Moves, Plays
<1>3. active' = active /\ (UNCHANGED vars \/ PostState(d, snap[d]))
  BY DEF AckLost, Sample, Post, Kill, PostState, vars, devVars
<1>4. CASE UNCHANGED vars
  <2>1. Passing({}, 0)
    BY <1>4, PassStill DEF vars, stopVars
  <2> QED
    BY <1>2, <1>3, <2>1, DoesNothingNew
<1>5. CASE PostState(d, snap[d])
  <2>1. \/ Passing({}, 0)
        \/ \E c : Passing({c}, 0) /\ c.kind = "queue" /\ c.target = None
    BY <1>5, PassPostState
  <2>2. CASE Passing({}, 0)
    BY <1>2, <1>3, <2>2, DoesNothingNew
  <2>3. ASSUME NEW c, Passing({c}, 0), c.kind = "queue", c.target = None
        PROVE  \E N, i, X : Does(N, i, X)
    <3>1. Does({c}, 0, {})
      BY <1>2, <1>3, <2>3 DEF Does, Brings, Settles, Holder
    <3> QED
      BY <3>1
  <2> QED
    BY <2>1, <2>2, <2>3
<1> QED
  BY <1>3, <1>4, <1>5

-----------------------------------------------------------------------------
(* Ids, and the latch, in the composed system *)

LEMMA IdsRStep ==
  ASSUME TypeOK, ClientOK, IdsAreUnique, [RNext]_rvars
  PROVE  IdsAreUnique'
<1>1. ASSUME UNCHANGED vars PROVE IdsAreUnique'
  BY <1>1 DEF vars, IdsAreUnique, Records, Unborn
<1>2. ASSUME NEW d, NEW r, PostState(d, r) PROVE IdsAreUnique'
  <2>1. /\ Blank(seq + 1, "queue", FALSE) \in Command
        /\ Blank(seq + 1, "queue", FALSE).id = seq + 1
    BY NextBlankId DEF Kinds
  <2>2. UNCHANGED <<commands, loop>>
    BY <1>2 DEF PostState
  <2>3. CASE UNCHANGED <<seq, threads>>
    BY <2>2, <2>3, IdsKept
  <2>4. CASE BeginEnqueue(Blank(seq + 1, "queue", FALSE))
    BY <2>1, <2>2, <2>4, IdsBegin
  <2> QED
    BY <1>2, <2>3, <2>4 DEF PostState
<1>3. ASSUME \/ Requests \/ Inserts \/ ResponseLost \/ ServerDies \/ Clock
             \/ \E d \in Devices : Claims(d) \/ Empty(d) \/ Poll(d) \/ Receive(d)
      PROVE  IdsAreUnique'
  BY <1>3, IdsLoopStep, IdsThreadStep, IdsClockStep
     DEF Requests, Inserts, ResponseLost, ServerDies, Clock, Claims, Empty, Poll,
         Receive, Alone, LoopNext, ThreadNext
<1>4. ASSUME NEW d \in Devices, AckArrives(d)
      PROVE  IdsAreUnique'
  <2>1. ackOut[d].answer \in Answers
    BY <1>4 DEF AckArrives, ClientOK, Entry
  <2> QED
    BY <1>1, <1>4, <2>1, IdsThreadStep DEF AckArrives, ThreadNext
<1>5. ASSUME NEW d \in Devices,
             Execute(d) \/ Replay(d) \/ AckLost(d) \/ Sample(d) \/ Post(d) \/ Kill(d)
      PROVE  IdsAreUnique'
  <2>1. UNCHANGED vars \/ PostState(d, player'[d]) \/ PostState(d, snap[d])
    BY <1>5 DEF Execute, Replay, AckLost, Sample, Post, Kill
  <2> QED
    BY <1>1, <1>2, <2>1
<1> QED
  BY <1>1, <1>3, <1>4, <1>5 DEF RNext, Client, rvars

-----------------------------------------------------------------------------
(* The renderer changes *)

\* With nothing under way and the old renderer there to be asked, a transfer
\* leaves the old renderer alone playing and its deactivate to be run.
LEMMA TransferStep ==
  ASSUME TypeOK, ClientOK, IdsAreUnique, ~latch, Apart,
         NEW d \in Devices, Alone(Transfer(d)), ~Crossing
  PROVE  Apart'
<1>1. UNCHANGED clientVars /\ Transfer(d)
  BY DEF Alone
<1>2. active' = d /\ Holder' = d
  BY <1>1, PassTransfer, BusAssumption DEF Holder
<1>3. CASE Holder = d
  <2>1. Passing({}, 0)
    BY <1>1, <1>3, PassTransfer
  <2>2. Does({}, 0, {})
    BY <1>1, <1>2, <1>3, <2>1, ServerMoves DEF Does, Brings, Settles
  <2> QED
    BY <2>2, SameHolderStep
<1>4. CASE Holder # d
  <2>1. ~UnderWay /\ Live(Holder)
    BY <1>2, <1>4 DEF Crossing, HandedOverBlindly
  <2>2. PICK ask : /\ Passing({ask}, 0) /\ ask \in Records'
                   /\ ask.kind = "deactivate" /\ ask.status = "queued"
                   /\ ask.target = Holder /\ ask.to = d
    BY <1>1, <1>4, <2>1, PassTransfer
  <2>3. Moves({}) /\ ask.id = seq + 1
    BY <1>1, <2>2, ServerMoves DEF Passing
  <2>4. PICK p \in Devices : p = Holder
    BY BusAssumption DEF Holder, TypeOK
  <2>5. \A c \in Open : c.kind = "control"
    BY <2>1 DEF UnderWay
  <2>6. Alike' /\ Older'
    BY <2>2, <2>3, AlikeKept, OlderKept DEF Apart
  <2>7. Aimed'
    <3>1. \A c \in Open \cup {ask} : AimedAt(c, d)
      BY <2>2, <2>4, <2>5 DEF AimedAt
    <3> QED
      BY <1>2, <2>2, <2>3, <3>1, AimedKept DEF Apart
  <2>8. Delivered'
    <3>1. ASSUME NEW e \in Devices, NEW c \in HeldBy(e)'
          PROVE  c \in HeldBy(e)
      <4>1. loop' = loop
        BY <1>1 DEF Transfer
      <4> QED
        BY <2>3, <3>1, <4>1 DEF Moves, Claimed
    <3>2. \A e \in Devices : \A c \in HeldBy(e)' : c.kind = "control"
      BY <2>5, <3>1, HeldIsKnown
    <3> QED
      BY <3>2 DEF Delivered, Start
  <2>9. Only(Holder)
    BY <2>1 DEF Apart, OneAtMost, Handing, UnderWay, Open
  <2>10. Only(p)'
    BY <1>1, <2>4, <2>9 DEF Only, clientVars
  <2>11. ASSUME NEW c \in Open'
         PROVE  c = ask \/ c.kind = "control"
    <3>1. c = ask \/ \E e \in Open : Twin(c, e)
      BY <2>2, <2>3, OpenNext DEF Apart
    <3> QED
      BY <2>5, <3>1 DEF Twin
  <2>12. UNCHANGED <<done, ackOut>> /\ seq \in Nat
    BY <1>1 DEF clientVars, TypeOK
  <2>13. ~Remembered(p, ask.id)'
    BY <2>3, <2>4, <2>12 DEF Remembered, Apart, Older
  <2>14. ASSUME NEW c \in Records', c.kind = "deactivate", NEW e \in Devices, ackOut[e].id = c.id
         PROVE  FALSE
    <3>1. CASE c = ask
      BY <2>3, <2>12, <2>14, <3>1 DEF Apart, Older
    <3>2. ASSUME NEW f \in Records, Carries(c, f, 0)
          PROVE  FALSE
      <4>1. f.kind = "deactivate" /\ AckDue(f)
        BY <2>14, <3>2 DEF Carries, Twin, AckDue
      <4> QED
        BY <2>5, <4>1 DEF Open
    <3> QED
      BY <2>2, <3>1, <3>2 DEF Passing
  <2>15. /\ p # Holder'
         /\ \E c \in Records' : /\ c.kind = "deactivate" /\ c.target = p
                               /\ c.status \in Outstanding
    BY <1>2, <1>4, <2>2, <2>4 DEF Outstanding
  <2>16. ASSUME NEW c \in Open'
         PROVE  ~Start(c) /\ (c.kind = "deactivate" => c.target = p /\ ~Remembered(p, c.id)')
    BY <2>2, <2>4, <2>11, <2>13, <2>16 DEF Start
  <2>17. \A c \in Records' : c.kind = "deactivate" => ~AckDue(c)'
    BY <2>12, <2>14 DEF AckDue
  <2>18. Handing(p)'
    BY <2>10, <2>15, <2>16, <2>17 DEF Handing, Start
  <2>19. OneAtMost'
    BY <2>18 DEF OneAtMost
  <2> QED
    BY <2>6, <2>7, <2>8, <2>19 DEF Apart
<1> QED
  BY <1>3, <1>4

\* A server that dies forgets the renderer, unless that was the phone.
LEMMA RestartStep ==
  ASSUME TypeOK, ClientOK, IdsAreUnique, ~latch, Apart, ServerDies, ~Crossing
  PROVE  Apart'
<1>1. UNCHANGED clientVars /\ Restart
  BY DEF ServerDies, Alone
<1>2. active' = None
  BY <1>1 DEF Restart
<1>3. Holder' = Holder
  BY <1>2 DEF Crossing, HandedOverBlindly
<1>4. Passing({}, 0)
  BY <1>1, PassRestart
<1>5. Does({}, 0, {})
  BY <1>1, <1>3, <1>4, ServerMoves DEF Does, Brings, Settles
<1> QED
  BY <1>5, SameHolderStep

LEMMA ApartStep ==
  ASSUME TypeOK, ClientOK, Numbered, IdsAreUnique, ~latch, Apart, [RNext]_rvars, ~Crossing
  PROVE  Apart'
<1>1. ASSUME \E N, i, X : Does(N, i, X) PROVE Apart'
  BY <1>1, SameHolderStep
<1>2. ASSUME NEW d \in Devices, Alone(Transfer(d)) PROVE Apart'
  BY <1>2, TransferStep
<1>3. CASE ServerDies
  BY <1>3, RestartStep
<1>4. ASSUME \/ Inserts \/ ResponseLost \/ Clock
             \/ \E p \in Postable : Alone(PostCommand(p))
             \/ \E d \in Devices : Claims(d) \/ Empty(d) \/ Poll(d)
             \/ UNCHANGED rvars
      PROVE  Apart'
  BY <1>1, <1>4, ServerDoes
<1>5. ASSUME NEW d \in Devices,
             \/ Receive(d) \/ Execute(d) \/ Replay(d) \/ AckArrives(d)
             \/ AckLost(d) \/ Sample(d) \/ Post(d) \/ Kill(d)
      PROVE  Apart'
  <2>1. \E N, i, X : Does(N, i, X)
    BY <1>5, ReceiveDoes, ExecuteDoesIt, ReplayDoes, AckArrivesDoes, OtherDoes
  <2> QED
    BY <1>1, <2>1
<1> QED
  BY <1>2, <1>3, <1>4, <1>5 DEF RNext, Client, Requests

\* No run of the composed system stops the DJ.
LEMMA StaysUnlatched ==
  ASSUME ~latch, [RNext]_rvars
  PROVE  ~latch'
<1>1. ASSUME NEW d \in Devices, NEW r, PostState(d, r) PROVE latch' = latch
  BY <1>1 DEF PostState, stopVars
<1>2. ASSUME \/ Requests \/ Inserts \/ ResponseLost \/ ServerDies \/ Clock
      PROVE  latch' = latch
  BY <1>2 DEF Requests, Inserts, ResponseLost, ServerDies, Clock, Alone, PostCommand,
     Transfer, LoopInsert, ThreadInsert, ClaimCommit, Restart, Tick, stopVars
<1>3. ASSUME NEW d \in Devices, Claims(d) \/ Empty(d) \/ Poll(d) \/ Receive(d)
      PROVE  latch' = latch
  BY <1>3 DEF Claims, Empty, Poll, Receive, Alone, ClaimCheck, PollTimesOut, PollBegin,
     ClaimCommit, stopVars
<1>4. ASSUME NEW d \in Devices, AckArrives(d) PROVE latch' = latch
  BY <1>4 DEF AckArrives, Ack, vars, stopVars
<1>5. ASSUME NEW d \in Devices,
             Execute(d) \/ Replay(d) \/ AckLost(d) \/ Sample(d) \/ Post(d) \/ Kill(d)
      PROVE  latch' = latch
  <2>1. UNCHANGED vars \/ PostState(d, player'[d]) \/ PostState(d, snap[d])
    BY <1>5 DEF Execute, Replay, AckLost, Sample, Post, Kill
  <2> QED
    BY <1>1, <2>1 DEF vars, stopVars
<1> QED
  BY <1>2, <1>3, <1>4, <1>5 DEF RNext, Client, rvars, vars, stopVars

\* The inductive invariant.
Whole == IdsAreUnique /\ ~latch /\ (crossed \/ Apart)

LEMMA WholeStart == RInit => Whole
<1> SUFFICES ASSUME RInit PROVE Whole
  OBVIOUS
<1>1. Records = {} /\ ~Claimed /\ seq = 0
  BY DEF RInit, Records, Unborn, Claimed, Free
<1>2. \A d \in Devices : HeldBy(d) = {}
  BY <1>1 DEF RInit, HeldBy
<1>3. InHand = {}
  BY <1>2 DEF InHand
<1>4. Open = {} /\ Known = {}
  BY <1>1, <1>3 DEF Open, Known
<1>5. Alike /\ Aimed /\ Delivered
  BY <1>2, <1>4 DEF Alike, Aimed, Delivered
<1>6. Older
  BY <1>1, <1>4 DEF Older, RInit, NoAck
<1>7. OneAtMost
  BY DEF OneAtMost, Only, Holder, RInit, NoReport
<1>8. IdsAreUnique
  BY DEF RInit, IdsAreUnique, Records, Unborn, Free
<1> QED
  BY <1>5, <1>6, <1>7, <1>8 DEF Whole, Apart, RInit

LEMMA WholeStep ==
  ASSUME TypeOK, ClientOK, Numbered, Whole, [HNext]_<<rvars, crossed>>
  PROVE  Whole'
<1>1. [RNext]_rvars
  BY HistoryOnly
<1>2. IdsAreUnique' /\ ~latch'
  BY <1>1, IdsRStep, StaysUnlatched DEF Whole
<1>3. CASE HNext
  <2>1. crossed' = (crossed \/ Crossing)
    BY <1>3 DEF HNext
  <2>2. CASE crossed \/ Crossing
    BY <1>2, <2>1, <2>2 DEF Whole
  <2>3. CASE ~crossed /\ ~Crossing
    BY <1>1, <1>2, <2>3, ApartStep DEF Whole
  <2> QED
    BY <2>2, <2>3
<1>4. CASE UNCHANGED <<rvars, crossed>>
  <2>1. CASE crossed
    BY <1>2, <1>4, <2>1 DEF Whole
  <2>2. CASE ~crossed
    <3>1. Holder' = Holder /\ Records' = Records /\ Unborn' = Unborn /\ (Claimed' => Claimed)
      BY <1>4 DEF rvars, vars, devVars, Holder, Records, Unborn, Claimed
    <3>2. ~Crossing
      BY <3>1 DEF Crossing, HandedOverBlindly, StartedTooSoon, StopDropped, StartStrayed
    <3> QED
      BY <1>1, <1>2, <2>2, <3>2, ApartStep DEF Whole
  <2> QED
    BY <2>1, <2>2
<1> QED
  BY <1>3, <1>4

\* However many devices, transfers, starts and top-ups there are, whatever is
\* lost, redelivered, forgotten, killed or restarted: the handshake of transfer()
\* and ack() leaves two devices playing only after one of the four crossings.
THEOREM PlaysOnOne == RSpec => []NoDuet
<1>1. Whole => NoDuet
  BY DEF Whole, Apart, OneAtMost, Handing, Only, NoDuet
<1> QED
  BY <1>1, WholeStart, WholeStep, RTypeCorrect, PTL DEF RSpec

=============================================================================
