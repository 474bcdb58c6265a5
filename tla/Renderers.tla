------------------------------ MODULE Renderers ------------------------------
(***************************************************************************)
(* The bus composed with its clients: the Android phone                    *)
(* (DjCommandClient.kt) and PC renderers (windows_client/audiplex_pc/bus). *)
(* A client long-polls, executes what it is handed once per command id,    *)
(* answers with an ack, and reports its now-playing state.  Responses,     *)
(* acks and reports can be lost, and an app can be killed at any moment.   *)
(*                                                                         *)
(* The phone polls on while a command runs and queues what it receives     *)
(* (CommandPump); a PC polls again only when it has acked.  The phone      *)
(* re-acks a redelivery with the original outcome, a PC with "ok".  The    *)
(* phone's two reporters share a mutex, a PC's do not.                     *)
(***************************************************************************)
EXTENDS PlaybackBus

CONSTANTS
  Memory,      \* EXECUTED_MEMORY / the deque's maxlen: ids a client remembers
  MaxInbox,    \* bound: commands received and not yet executed
  Losses,      \* bound: whether responses, acks and reports get lost
  Kills,       \* bound: whether apps get killed
  Brisk        \* bound: the clients that have run and acked all they were handed
               \* before a tick is over (the phone gives a start 8 s, a tick is 30)

ASSUME RendererAssumption ==
  /\ Memory \in [Devices -> Nat \ {0}]
  /\ MaxInbox \in Nat \ {0}
  /\ {Losses, Kills} \subseteq BOOLEAN
  /\ Brisk \subseteq Devices

VARIABLES
  player,  \* what each device is playing
  inbox,   \* commands received and not yet executed, oldest first
  done,    \* the executed ids a client remembers, with their outcome
  ackOut,  \* the ack a client is waiting to get through, NoAck if none
  snap,    \* a state the report loop sampled and is still posting, or NoSnap
  ran,     \* history: outcomes of each command id in the app's lifetime
  told,    \* history: every outcome any device had for a command id
  crossed  \* history: commands have crossed each other, or one went astray

clientVars == <<player, inbox, done, ackOut, snap, ran, told>>
rvars == <<vars, clientVars>>

NoAck == [id |-> 0, answer |-> "ok"]
NoSnap == [playing |-> FALSE, item |-> None]
AckMsg == [id: Nat, answer: Answers]
Ids == 1 .. MaxSeq

-----------------------------------------------------------------------------
(* Server steps the clients only listen to *)

Alone(A) == A /\ UNCHANGED clientVars

Requests ==
  \/ \E p \in Postable : Alone(PostCommand(p))
  \/ \E d \in Devices : Alone(Transfer(d))

Inserts == Alone(LoopInsert) \/ Alone(ThreadInsert)
Claims(d) == Alone(ClaimCheck(d))
Empty(d) == Alone(PollTimesOut(d))
ServerDies == Alone(Restart)

\* Time passes, and no brisk client leaves a command undone.
Clock ==
  /\ \A d \in Brisk : inbox[d] = <<>> /\ ackOut[d] = NoAck
  /\ Alone(Tick)

-----------------------------------------------------------------------------
(* Polling *)

Poll(d) ==
  /\ d # Phone => inbox[d] = <<>> /\ ackOut[d] = NoAck
  /\ Alone(PollBegin(d))

\* The server hands a command out and the client gets it.
Receive(d) ==
  /\ loop.op = "claim" /\ loop.dev = d
  /\ Len(inbox[d]) < MaxInbox
  /\ ClaimCommit
  /\ inbox' = [inbox EXCEPT ![d] = Append(@, loop.rec)]
  /\ UNCHANGED <<player, done, ackOut, snap, ran, told>>

\* ... or the connection is gone by then.
ResponseLost ==
  /\ Losses
  /\ Alone(ClaimCommit)

-----------------------------------------------------------------------------
(* Executing *)

RememberedIfOk(d, id) ==
  \E n \in DOMAIN done[d] : done[d][n].id = id /\ done[d][n].answer = "ok"

Remembered(d, id) == \E n \in DOMAIN done[d] : done[d][n].id = id

AlwaysOk(d, id) == "ok"

Outcome(d, id) ==
  done[d][CHOOSE n \in DOMAIN done[d] : done[d][n].id = id].answer

\* `executed` forgets the oldest outcome when it is full.
Recall(d, entry) ==
  Append(IF Len(done[d]) = Memory[d] THEN Tail(done[d]) ELSE done[d], entry)

PlayedOn(d, c) ==
  CASE c.kind = "activate" /\ c.item # Nothing ->
         {[playing |-> c.playing, item |-> c.item]}
    [] OTHER -> {player[d]}

\* What a command that succeeds may leave playing.
Played(d, c) ==
  CASE c.kind = "start" -> [playing: {TRUE}, item: Items]
    [] c.kind = "queue" /\ player[d].item = Nothing ->
         [playing: {TRUE}, item: Items]
    [] c.kind = "activate" /\ c.item # Nothing ->
         {[playing |-> c.playing, item |-> c.item]}
    [] c.kind = "control" -> {player[d], [player[d] EXCEPT !.playing = FALSE]}
    [] c.kind = "deactivate" -> {[player[d] EXCEPT !.playing = FALSE]}
    [] OTHER -> {player[d]}

\* handle / command_loop on an id not seen before: dispatch, remember, ack.
\* A pause cannot fail; anything that resolves tracks can, and a start the phone
\* calls failed after 8 s may still play later.  deactivate reports
\* the player's state before it is acked, if the report gets through.
Execute(d) ==
  LET c == Head(inbox[d]) IN
  /\ inbox[d] # <<>>
  /\ ackOut[d] = NoAck
  /\ ~Remembered(d, c.id)
  /\ \E answer \in IF c.kind = "deactivate" THEN {"ok"} ELSE Answers :
       LET entry == [id |-> c.id, answer |-> answer]
       IN  /\ \E p \in Played(d, c) \cup (IF answer = "ok" THEN {} ELSE {player[d]}) :
                player' = [player EXCEPT ![d] = p]
           /\ done' = [done EXCEPT ![d] = Recall(d, entry)]
           /\ ackOut' = [ackOut EXCEPT ![d] = entry]
           /\ ran' = [ran EXCEPT ![d][c.id] = IF @ < 2 THEN @ + 1 ELSE @]
           /\ told' = [told EXCEPT ![c.id] = @ \cup {answer}]
  /\ inbox' = [inbox EXCEPT ![d] = Tail(@)]
  /\ \/ /\ c.kind = "deactivate"
        /\ d = Phone => snap[d] = NoSnap
        /\ PostState(d, player'[d])
     \/ /\ c.kind # "deactivate" \/ Losses
        /\ UNCHANGED vars
  /\ UNCHANGED snap

\* An id already executed is acked again and nothing else.
Replay(d) ==
  LET c == Head(inbox[d]) IN
  /\ inbox[d] # <<>>
  /\ ackOut[d] = NoAck
  /\ Remembered(d, c.id)
  /\ ackOut' = [ackOut EXCEPT ![d] =
       [id |-> c.id, answer |-> IF d = Phone THEN Outcome(d, c.id) ELSE "ok"]]
  /\ inbox' = [inbox EXCEPT ![d] = Tail(@)]
  /\ UNCHANGED <<vars, player, done, snap, ran, told>>

\* The ack reaches the server; for an id it no longer knows that is a 404.
AckArrives(d) ==
  LET m == ackOut[d] IN
  /\ m # NoAck
  /\ \/ \E k \in DOMAIN commands : commands[k].id = m.id /\ Ack(d, k, m.answer)
     \/ /\ \A k \in DOMAIN commands : commands[k].id # m.id
        /\ UNCHANGED vars
  /\ ackOut' = [ackOut EXCEPT ![d] = NoAck]
  /\ UNCHANGED <<player, inbox, done, snap, ran, told>>

AckLost(d) ==
  /\ Losses
  /\ ackOut[d] # NoAck
  /\ ackOut' = [ackOut EXCEPT ![d] = NoAck]
  /\ UNCHANGED <<vars, player, inbox, done, snap, ran, told>>

-----------------------------------------------------------------------------
(* Reporting, and the operating system *)

\* The report loop samples the player, then posts what it sampled.
Sample(d) ==
  /\ snap[d] = NoSnap
  /\ report[d] # player[d]
  /\ snap' = [snap EXCEPT ![d] = player[d]]
  /\ UNCHANGED <<vars, player, inbox, done, ackOut, ran, told>>

Post(d) ==
  /\ snap[d] # NoSnap
  /\ \/ PostState(d, snap[d])
     \/ Losses /\ UNCHANGED vars
  /\ snap' = [snap EXCEPT ![d] = NoSnap]
  /\ UNCHANGED <<player, inbox, done, ackOut, ran, told>>

\* The app is killed: everything it held in memory is gone.
Kill(d) ==
  /\ Kills
  /\ player' = [player EXCEPT ![d] = NoReport]
  /\ inbox' = [inbox EXCEPT ![d] = <<>>]
  /\ done' = [done EXCEPT ![d] = <<>>]
  /\ ackOut' = [ackOut EXCEPT ![d] = NoAck]
  /\ snap' = [snap EXCEPT ![d] = NoSnap]
  /\ ran' = [ran EXCEPT ![d] = [i \in Ids |-> 0]]
  /\ UNCHANGED <<vars, told>>

-----------------------------------------------------------------------------
\* The phone is up and playing, as its last report says; nothing else is.
RInit ==
  /\ seq = 0
  /\ commands = <<>>
  /\ silent = [d \in Devices |-> IF d = Phone THEN 0 ELSE Unseen]
  /\ active = None
  /\ \E i \in Items :
       player = [d \in Devices |->
                   IF d = Phone THEN [playing |-> TRUE, item |-> i]
                                ELSE NoReport]
  /\ report = player
  /\ polling = [d \in Devices |-> Idle]
  /\ loop = Free
  /\ threads = {}
  /\ latch = FALSE
  /\ stopper = "idle"
  /\ slipped = 0
  /\ paused = FALSE
  /\ inbox = [d \in Devices |-> <<>>]
  /\ done = [d \in Devices |-> <<>>]
  /\ ackOut = [d \in Devices |-> NoAck]
  /\ snap = [d \in Devices |-> NoSnap]
  /\ ran = [d \in Devices |-> [i \in Ids |-> 0]]
  /\ told = [i \in Ids |-> {}]
  /\ crossed = FALSE

Client(d) ==
  \/ Poll(d)
  \/ Receive(d)
  \/ Execute(d)
  \/ Replay(d)
  \/ AckArrives(d)
  \/ AckLost(d)
  \/ Sample(d)
  \/ Post(d)
  \/ Kill(d)

RNext ==
  \/ Requests
  \/ Inserts
  \/ \E d \in Devices : Claims(d) \/ Empty(d) \/ Client(d)
  \/ ResponseLost
  \/ ServerDies
  \/ Clock

-----------------------------------------------------------------------------
(* The history of a transfer: what can go wrong between the devices *)

\* Who transfer() takes to be playing: the declared renderer, or the phone.
Holder == IF active = None THEN Phone ELSE active

\* What a client has, or is being given.
HeldBy(d) ==
  {inbox[d][n] : n \in DOMAIN inbox[d]}
    \cup (IF Claimed /\ loop.dev = d THEN {loop.rec} ELSE {})

InHand == UNION {HeldBy(d) : d \in Devices}

\* An ack of c, the first or one more, may still reach the server.
AckDue(c) == \E d \in Devices : ackOut[d].id = c.id

\* Commands that may still make a device start or stop: unsettled, held by a
\* client, or a deactivate whose ack is yet to make an activate.
Open ==
  {c \in Records : \/ c.status \in Outstanding
                   \/ c.kind = "deactivate" /\ AckDue(c)} \cup InHand

Stopping == \E c \in Open : c.kind = "deactivate"
UnderWay == \E c \in Open : c.kind # "control"

\* The renderer changes while something is under way, while the old one is too
\* silent to be asked to stop, or because the server forgot who it was.
HandedOverBlindly ==
  /\ Holder' # Holder
  /\ UnderWay \/ ~Live(Holder) \/ active' = None

\* A start is built while the old renderer has yet to stop.
StartedTooSoon ==
  Stopping /\ \E c \in Unborn' \ Unborn : c.kind \in {"start", "queue"}

\* The registry drops a deactivate that nobody answered for.
StopDropped ==
  \E c \in Records : /\ c.kind = "deactivate" /\ c.status \in Outstanding
                     /\ \A e \in Records' : e.id # c.id

\* The renderer is so silent that the phone gets its starts.
StartStrayed == ~Claimed /\ Claimed' /\ Start(loop'.rec) /\ loop'.dev # Holder

Crossing == HandedOverBlindly \/ StartedTooSoon \/ StopDropped \/ StartStrayed

HNext == RNext /\ crossed' = (crossed \/ Crossing)

RSpec == RInit /\ [][HNext]_<<rvars, crossed>>

\* The server's loop and threads keep running and time passes.  Clients poll
\* again and again, and a network that loses messages does not lose every copy
\* of the same one.
Fairness ==
  /\ WF_rvars(Inserts)
  /\ WF_rvars(ResponseLost \/ \E d \in Devices : Receive(d))
  /\ SF_rvars(Clock)
  /\ \A d \in Devices :
       /\ WF_rvars(Empty(d))
       /\ SF_rvars(Claims(d))
       /\ SF_rvars(Poll(d))
       /\ WF_rvars(Post(d))
       /\ SF_rvars(Execute(d) \/ Replay(d))
       /\ \A i \in Ids :
            /\ SF_rvars(loop.op = "claim" /\ loop.rec.id = i /\ Receive(d))
            /\ SF_rvars(ackOut[d].id = i /\ AckArrives(d))

LiveSpec == RSpec /\ Fairness

-----------------------------------------------------------------------------
(* Properties *)

\* The handshake of transfer() and ack() never leaves two devices playing,
\* whatever is lost, redelivered, forgotten by a client or acked again, until one
\* of the four crossings: no other order of events makes two devices play.
NoDuet ==
  crossed \/ \A d, e \in Devices : player[d].playing /\ player[e].playing => d = e

\* At-least-once delivery is run at most once in an app's lifetime, because the
\* client dedupes on ids that no restart of the server ever hands out again.
RunsOnce == \A d \in Devices, i \in Ids : ran[d][i] <= 1

\* What the ack route's docstring says: the outcome the bus holds for a command
\* is one a device actually had.
AckIsTruthful ==
  \A k \in DOMAIN commands :
    commands[k].ack \in Answers => commands[k].ack \in told[commands[k].id]

\* Every command the bus takes on is eventually settled (or dropped by a restart
\* of the server), through lost responses and lost acks.
Drains ==
  \A i \in Ids :
    (\E c \in Records : c.id = i /\ c.status \in Outstanding)
      ~> []~(\E c \in Records : c.id = i /\ c.status \in Outstanding)
=============================================================================
