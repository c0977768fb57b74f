------------------------------ MODULE IotLink ------------------------------
(***************************************************************************)
(* The remote link.  AwsIot holds one MQTT connection and publishes the    *)
(* commands of the program and of the p2p library to the current device;   *)
(* until its subscription is confirmed they wait in a queue.  Three        *)
(* threads run its code, and nothing keeps them apart: the main thread,    *)
(* the thread of the p2p library, which calls pub(), and the thread of the *)
(* MQTT runtime, which calls back.  A step ends where a thread has read a  *)
(* member that it goes on to rely on.                                      *)
(***************************************************************************)
EXTENDS Naturals, Sequences, FiniteSets

CONSTANTS
  Devices,  \* macs
  Cmds,     \* commands, each published once
  None,     \* no device, no command
  MaxMoves  \* bound on the changes of device

ASSUME NoneIsNothing == None \notin Devices \cup Cmds
ASSUME MovesNatural == MaxMoves \in Nat

Threads == {"main", "p2p", "mqtt"}

VARIABLES
  curr,       \* dbDevices.curr.mac
  pulled,     \* awsDbService.success()
  conn,       \* m_connection, see Connections
  timer,      \* a restart is due
  subscribed, \* m_bSubscribed
  subtopic,   \* the device of m_currSubtopic
  queue,      \* m_pendingCmds
  asked,      \* devices subscribed to on this connection, and not taken back
  acks,       \* subscriptions of this connection that are not answered
  pubs,       \* commands of this connection that are not confirmed
  pc,         \* where each thread is
  sent,       \* how often each command has been published
  crashed,    \* the threads that have used m_connection when it was NULL
  hist        \* history, see History

member == <<curr, pulled, subtopic>>
net == <<asked, acks, pubs>>
vars == <<curr, pulled, conn, timer, subscribed, subtopic, queue, asked, acks,
          pubs, pc, sent, crashed, hist>>

(***************************************************************************)
(* "dead" is a connection whose Connect() returned false: it never calls   *)
(* back, and the pointer stays.                                            *)
(***************************************************************************)
Connections == {"none", "dialing", "up", "closing", "dead"}

(***************************************************************************)
(* A thread is idle, in resub() before it unsubscribes, in sub() with the  *)
(* topic it has put together, in processPendingCmds(), or in pub() with    *)
(* the command and what it has found about the link.                       *)
(***************************************************************************)
Places ==
  [at : {"idle", "resub", "flush"}]
    \cup [at : {"sub"}, topic : Devices]
    \cup [at : {"pub"}, cmd : Cmds, ready : BOOLEAN]

Idle == [at |-> "idle"]

(***************************************************************************)
(* raced: threads that found a connection which restart() has let go since *)
(* (they are about to use it); clash: two threads were in sub() at once,   *)
(* or a topic had been asked for while the connection was dialing;         *)
(* given: commands given to pub(); late: those of them that were queued    *)
(* when the link was subscribed again; refused: Subscribe() has refused a  *)
(* topic on a live connection; moves: changes of device left.            *)
(***************************************************************************)
History == [raced : SUBSET Threads, clash : BOOLEAN, given : SUBSET Cmds,
            late : SUBSET Cmds, refused : BOOLEAN, moves : 0..MaxMoves]

TypeOK ==
  /\ curr \in Devices \cup {None}
  /\ pulled \in BOOLEAN
  /\ conn \in Connections
  /\ timer \in BOOLEAN
  /\ subscribed \in BOOLEAN
  /\ subtopic \in Devices \cup {None}
  /\ queue \in Seq(Cmds)
  /\ asked \subseteq Devices
  /\ acks \in Nat
  /\ pubs \in Nat
  /\ pc \in [Threads -> Places]
  /\ sent \in [Cmds -> Nat]
  /\ crashed \subseteq Threads
  /\ hist \in History

Init ==
  /\ curr = None
  /\ pulled = FALSE
  /\ conn = "none"
  /\ timer = FALSE
  /\ subscribed = FALSE
  /\ subtopic = None
  /\ queue = <<>>
  /\ asked = {}
  /\ acks = 0
  /\ pubs = 0
  /\ pc = [t \in Threads |-> Idle]
  /\ sent = [c \in Cmds |-> 0]
  /\ crashed = {}
  /\ hist = [raced |-> {}, clash |-> FALSE, given |-> {},
             late |-> {}, refused |-> FALSE, moves |-> MaxMoves]

-----------------------------------------------------------------------------
(* Threads *)

\* The program is alive and t is between two calls.
Free(t) == crashed = {} /\ pc[t] = Idle

Waiting(c) == {i \in DOMAIN queue : queue[i] = c}

InHand(c) == {t \in Threads : pc[t].at = "pub" /\ pc[t].cmd = c}

\* t relies on m_connection not being NULL.
Holding(t) ==
  \/ pc[t].at \in {"resub", "sub"}
  \/ pc[t].at = "pub" /\ pc[t].ready

\* Threads in sub()
Subscribing == {t \in Threads : pc[t].at = "sub"}

\* The history when t goes on at place p: what it holds it has just checked.
Noted(t, p) ==
  [hist EXCEPT !.raced = IF p.at = "sub" THEN @ ELSE @ \ {t},
               !.clash = @ \/ (p.at = "sub" /\ Subscribing # {})]

GoTo(t, p) ==
  /\ pc' = [pc EXCEPT ![t] = p]
  /\ hist' = Noted(t, p)

\* After a call of pub() or sub(): the callback goes back to its loop.
Returned(t) == IF t = "mqtt" /\ pc[t].at = "pub" THEN [at |-> "flush"] ELSE Idle

\* A member function is called on NULL, and the program ends.
Crash(t) ==
  /\ crashed' = crashed \cup {t}
  /\ UNCHANGED <<member, conn, timer, subscribed, queue, net, pc, sent, hist>>

-----------------------------------------------------------------------------
(* The connection *)

\* Mutant of Dials: it does not ask for a current device.
DialsAnyway(d) == conn = "none"

\* The check of connIot()
Dials(d) == d # None /\ conn = "none"

(***************************************************************************)
(* connIot() with device d: the connection is dialing, or Connect()        *)
(* failed at once, or no provider or configuration came about, or the new  *)
(* connection is void and restart() sets the timer.                        *)
(***************************************************************************)
ConnIot(d, due) ==
  IF ~Dials(d) THEN conn' = conn /\ timer' = due
  ELSE \/ conn' = "dialing" /\ timer' = due
       \/ conn' = "dead" /\ timer' = due
       \/ conn' = "none" /\ timer' \in {due, TRUE}

\* Mutant of LetGoOf: the pointer is kept.
LetGoOfNothing(c) == c

\* m_connection = NULL
LetGoOf(c) == "none"

\* restart(), in a callback of the runtime.
Restart ==
  /\ conn' = LetGoOf(conn)
  /\ timer' = TRUE
  /\ asked' = {}
  /\ acks' = 0
  /\ pubs' = 0
  /\ hist' = [hist EXCEPT !.raced = @ \cup {t \in Threads : Holding(t)}]
  /\ UNCHANGED <<member, queue, pc, sent, crashed>>

\* disconnIot()
DisconnIot ==
  /\ subscribed' = FALSE
  /\ conn' = IF conn \in {"dialing", "up"} THEN "closing" ELSE conn

\* currDeviceChanged() after its check: a device was subscribed to before.
Resubscribes == subtopic # None

\* Mutant of ConnectsAfterMove: the topic is renewed in any case.
NeverConnects == FALSE

\* The check of currDeviceChanged()
ConnectsAfterMove == conn = "none" /\ pulled

\* intoDevice(): a device that is not set up yet is entered without a signal.
IntoDevice(d) ==
  /\ Free("main")
  /\ hist.moves > 0
  /\ d # curr
  /\ curr' = d
  /\ \E signal \in BOOLEAN :
       LET resub == signal /\ ~ConnectsAfterMove /\ Resubscribes
       IN /\ IF signal /\ ConnectsAfterMove THEN ConnIot(d, timer)
                                            ELSE UNCHANGED <<conn, timer>>
          /\ pc' = [pc EXCEPT !["main"] = IF resub THEN [at |-> "resub"] ELSE Idle]
  /\ hist' = [hist EXCEPT !.moves = @ - 1]
  /\ UNCHANGED <<pulled, subscribed, subtopic, queue, net, sent, crashed>>

\* onSigninSuccess(), whenever the login check finds valid credentials.
SignedIn ==
  /\ Free("main")
  /\ ConnIot(curr, timer)
  /\ UNCHANGED <<member, subscribed, queue, net, pc, sent, crashed, hist>>

TimerFires ==
  /\ Free("main")
  /\ timer
  /\ ConnIot(curr, FALSE)
  /\ UNCHANGED <<member, subscribed, queue, net, pc, sent, crashed, hist>>

\* The answer of AwsDbService::all()
Pulled ==
  /\ Free("main")
  /\ ~pulled
  /\ pulled' = TRUE
  /\ UNCHANGED <<curr, subtopic, conn, timer, subscribed, queue, net, pc, sent,
                 crashed, hist>>

-----------------------------------------------------------------------------
(* Subscriptions *)

\* Mutant of TakenBack: resub() does not unsubscribe.
TakenBackNever(S, d) == S

\* Unsubscribe(), served in the order of the requests.
TakenBack(S, d) == S \ {d}

\* resub(): unsubscribe, then put the new topic together.
Resub ==
  /\ crashed = {}
  /\ pc["main"].at = "resub"
  /\ IF conn = "none" THEN Crash("main")
     ELSE /\ asked' = TakenBack(asked, subtopic)
          /\ subtopic' = curr
          /\ GoTo("main", [at |-> "sub", topic |-> curr])
          /\ UNCHANGED <<curr, pulled, conn, timer, subscribed, queue, acks, pubs,
                         sent, crashed>>

\* sub(): Subscribe() takes the request or refuses it.
Subscribe(t) ==
  /\ crashed = {}
  /\ pc[t].at = "sub"
  /\ IF conn = "none" THEN Crash(t)
     ELSE /\ pc' = [pc EXCEPT ![t] = Idle]
          /\ \/ /\ asked' = asked \cup {pc[t].topic}
                /\ acks' = acks + 1
                /\ hist' = Noted(t, Idle)
                /\ UNCHANGED <<conn, subscribed>>
             \/ /\ DisconnIot
                /\ hist' = [Noted(t, Idle) EXCEPT
                     !.refused = @ \/ conn \in {"dialing", "up"}]
                /\ UNCHANGED <<asked, acks>>
          /\ UNCHANGED <<member, timer, queue, pubs, sent, crashed>>

\* onConnectionCompleted() without an error, up to subTopic() in sub().
ConnUp ==
  /\ Free("mqtt")
  /\ conn = "dialing"
  /\ conn' = "up"
  /\ subtopic' = curr
  /\ LET p == [at |-> "sub", topic |-> curr]
     IN /\ pc' = [pc EXCEPT !["mqtt"] = p]
        /\ hist' = [Noted("mqtt", p) EXCEPT !.clash = @ \/ asked # {}]
  /\ UNCHANGED <<curr, pulled, timer, subscribed, queue, net, sent, crashed>>

\* onConnectionCompleted() with an error.
ConnFailed ==
  /\ Free("mqtt")
  /\ conn \in {"dialing", "closing"}
  /\ Restart
  /\ UNCHANGED subscribed

\* onDisconnect(): after disconnIot(), or on its own.
Disconnected ==
  /\ Free("mqtt")
  /\ conn \in {"up", "closing"}
  /\ Restart
  /\ UNCHANGED subscribed

\* Mutant of Confirmed: the commands are taken up before the flag is set.
ConfirmedLate(flag) == flag

\* m_bSubscribed when processPendingCmds() starts.
Confirmed(flag) == TRUE

\* Mutant of AfterSuback: the queue is not looked at.
AfterSubackIdle == Idle

\* What onSub() goes on with.
AfterSuback == [at |-> "flush"]

SubAcked ==
  /\ Free("mqtt")
  /\ conn = "up"
  /\ acks > 0
  /\ acks' = acks - 1
  /\ subscribed' = Confirmed(subscribed)
  /\ GoTo("mqtt", AfterSuback)
  /\ UNCHANGED <<member, conn, timer, queue, asked, pubs, sent, crashed>>

SubFailed ==
  /\ Free("mqtt")
  /\ conn \in {"up", "closing"}
  /\ acks > 0
  /\ acks' = acks - 1
  /\ DisconnIot
  /\ UNCHANGED <<member, timer, queue, asked, pubs, pc, sent, crashed, hist>>

-----------------------------------------------------------------------------
(* Commands *)

\* pub() up to its check of the connection and of the flag.
EnterPub(t, c) ==
  LET p == [at |-> "pub", cmd |-> c, ready |-> conn # "none" /\ subscribed]
  IN /\ pc' = [pc EXCEPT ![t] = p]
     /\ hist' = [Noted(t, p) EXCEPT !.given = @ \cup {c}]

\* pub() from CmdService or iot_send().
Issue(t, c) ==
  /\ Free(t)
  /\ curr # None
  /\ c \notin hist.given
  /\ EnterPub(t, c)
  /\ UNCHANGED <<member, conn, timer, subscribed, queue, net, sent, crashed>>

\* pub() with a link that is ready.
Publish(t) ==
  /\ crashed = {}
  /\ pc[t].at = "pub"
  /\ pc[t].ready
  /\ IF conn = "none" THEN Crash(t)
     ELSE /\ sent' = [sent EXCEPT ![pc[t].cmd] = @ + 1]
          /\ pubs' = pubs + 1
          /\ GoTo(t, Returned(t))
          /\ UNCHANGED <<member, conn, timer, subscribed, queue, asked, acks, crashed>>

\* Mutant of Queued: without a connection the command is dropped.
QueuedIfConnected(q, c) == IF conn = "none" THEN q ELSE Append(q, c)

Queued(q, c) == Append(q, c)

\* pub() with a link that is not: "iot not ready, queueing cmd".
Enqueue(t) ==
  LET c == pc[t].cmd
  IN /\ crashed = {}
     /\ pc[t].at = "pub"
     /\ ~pc[t].ready
     /\ queue' = Queued(queue, c)
     /\ ConnIot(curr, timer)
     /\ pc' = [pc EXCEPT ![t] = Returned(t)]
     /\ hist' = [Noted(t, Returned(t)) EXCEPT
          !.late = IF subscribed /\ conn # "none" THEN @ \cup {c} ELSE @ \ {c}]
     /\ UNCHANGED <<member, subscribed, net, sent, crashed>>

\* processPendingCmds(): the next command, or the end of the callback.
Flush ==
  /\ crashed = {}
  /\ pc["mqtt"].at = "flush"
  /\ IF queue = <<>> THEN GoTo("mqtt", Idle) /\ UNCHANGED queue
     ELSE EnterPub("mqtt", Head(queue)) /\ queue' = Tail(queue)
  /\ UNCHANGED <<member, conn, timer, subscribed, net, sent, crashed>>

\* onPubCompleate()
PubCompleted ==
  /\ Free("mqtt")
  /\ pubs > 0
  /\ pubs' = pubs - 1
  /\ \/ conn = "up" /\ UNCHANGED <<conn, subscribed>>
     \/ conn \in {"up", "closing"} /\ DisconnIot
  /\ UNCHANGED <<member, timer, queue, asked, acks, pc, sent, crashed, hist>>

-----------------------------------------------------------------------------
Step(t) ==
  \/ t = "main" /\ Resub
  \/ Subscribe(t)
  \/ Publish(t)
  \/ Enqueue(t)
  \/ t = "mqtt" /\ Flush

Next ==
  \/ \E d \in Devices : IntoDevice(d)
  \/ \E t \in {"main", "p2p"}, c \in Cmds : Issue(t, c)
  \/ \E t \in Threads : Step(t)
  \/ SignedIn
  \/ TimerFires
  \/ Pulled
  \/ ConnUp
  \/ ConnFailed
  \/ Disconnected
  \/ SubAcked
  \/ SubFailed
  \/ PubCompleted

Spec == Init /\ [][Next]_vars

\* connIot() gets as far as dialing.
Dialed == (SignedIn \/ TimerFires) /\ conn' = "dialing"

(***************************************************************************)
(* Threads go on, the login check and the timer come round, dialing,       *)
(* disconnecting and subscribing come to an end, and not all attempts are  *)
(* in vain.                                                                *)
(***************************************************************************)
FairSpec ==
  /\ Spec
  /\ \A t \in Threads : WF_vars(Step(t))
  /\ SF_vars(Dialed)
  /\ SF_vars(ConnUp)
  /\ SF_vars(SubAcked)
  /\ WF_vars(ConnFailed \/ ConnUp)
  /\ WF_vars(conn = "closing" /\ Disconnected)

-----------------------------------------------------------------------------
(* What the link is for *)

(***************************************************************************)
(* A command given to pub() is in one place: queued, in the hand of one    *)
(* thread, or published, once (awsIot.cpp, pub and processPendingCmds).    *)
(***************************************************************************)
OnePlace ==
  \A c \in hist.given :
    sent[c] + Cardinality(Waiting(c)) + Cardinality(InHand(c)) = 1

(***************************************************************************)
(* A NULL connection is used only when restart() comes between a thread's  *)
(* look at m_connection and its use, or when the device changes before the *)
(* first pull (awsIot.cpp, currDeviceChanged, resub, pub).                 *)
(***************************************************************************)
NullUse == crashed \subseteq hist.raced \/ ~pulled

(***************************************************************************)
(* A connection is subscribed to no device but the one of m_currSubtopic,  *)
(* unless a change of device overlapped the making of a connection         *)
(* (awsIot.cpp, resub and sub).                                            *)
(***************************************************************************)
OneSubscription == asked \subseteq {subtopic} \/ hist.clash

\* The program ended, or the runtime returned false from Connect() or Subscribe().
GivenUp == crashed # {} \/ conn = "dead" \/ hist.refused

(***************************************************************************)
(* A callback that works off the queue comes to its end, unless the        *)
(* runtime refused a topic (awsIot.cpp, processPendingCmds, whose pub()    *)
(* may put a command back).                                                *)
(***************************************************************************)
FlushEnds ==
  pc["mqtt"].at \in {"flush", "pub"} ~> (pc["mqtt"] = Idle \/ GivenUp)

Linked == conn = "up" /\ subscribed /\ subtopic \in asked

(***************************************************************************)
(* With a device chosen the link is subscribed again and again, whatever   *)
(* is lost, unless the runtime refused (awsIot.cpp, restart and connIot).  *)
(***************************************************************************)
LinkComesBack ==
  curr # None ~>
    (Linked \/ GivenUp)

(***************************************************************************)
(* A command that is queued is published in the end, unless the link was   *)
(* subscribed between the look at m_bSubscribed and the append, or the     *)
(* runtime refused (awsIot.cpp, pub: "iot not ready, queueing cmd").       *)
(***************************************************************************)
QueuedIsSent ==
  \A c \in Cmds : Waiting(c) # {} ~>
                    (sent[c] > 0 \/ c \in hist.late \/ GivenUp)
=============================================================================
