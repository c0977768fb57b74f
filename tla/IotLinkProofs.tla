--------------------------- MODULE IotLinkProofs ---------------------------
(* Theorems about the remote link, for all devices, commands and bounds. *)
EXTENDS IotLink, FiniteSetTheorems, TLAPS

TypeInv ==
  /\ TypeOK
  /\ conn # "none" => curr # None
  /\ pc["main"].at = "resub" => curr # None

LEMMA PlacesType ==
  /\ Idle \in Places
  /\ \A t \in Threads : TypeOK => Returned(t) \in Places
  /\ \A d \in Devices : [at |-> "sub", topic |-> d] \in Places
  /\ \A c \in Cmds, r \in BOOLEAN : [at |-> "pub", cmd |-> c, ready |-> r] \in Places
BY DEF Places, Idle, Returned

LEMMA InitType == Init => TypeInv
<1> SUFFICES ASSUME Init PROVE TypeInv
  OBVIOUS
<1>1. hist \in History
  BY MovesNatural DEF Init, History
<1>2. pc \in [Threads -> Places]
  BY PlacesType DEF Init
<1>3. pc["main"].at # "resub"
  BY DEF Init, Idle, Threads
<1>4. queue \in Seq(Cmds)
  BY DEF Init
<1>5. sent \in [Cmds -> Nat] /\ asked \subseteq Devices /\ crashed \subseteq Threads
  BY DEF Init
<1> QED
  BY <1>1, <1>2, <1>3, <1>4, <1>5 DEF Init, TypeInv, TypeOK, Connections

LEMMA DialsType ==
  ASSUME NEW d \in Devices \cup {None}, NEW due \in BOOLEAN,
         conn \in Connections, ConnIot(d, due), conn # "none" => d # None
  PROVE  /\ conn' \in Connections
         /\ timer' \in BOOLEAN
         /\ conn' # "none" => d # None
         /\ conn # "none" => conn' = conn
  BY DEF ConnIot, Dials, Connections

LEMMA NotedType ==
  ASSUME NEW t \in Threads, NEW p \in Places, hist \in History
  PROVE  /\ Noted(t, p) \in History
         /\ p.at # "sub" => Noted(t, p).raced = hist.raced \ {t}
         /\ p.at = "sub" => Noted(t, p).raced = hist.raced
         /\ hist.clash => Noted(t, p).clash
  BY DEF Noted, History

\* The variables that TypeInv is about, all of them with their types.
LEMMA TypeFacts ==
  ASSUME TypeInv
  PROVE  /\ pc \in [Threads -> Places]
         /\ hist \in History
         /\ conn \in Connections
         /\ curr \in Devices \cup {None}
         /\ curr # None => curr \in Devices
BY DEF TypeInv, TypeOK

(* Steps of the user and of the account. *)
LEMMA UserType ==
  ASSUME TypeInv,
         (\E d \in Devices : IntoDevice(d)) \/ SignedIn \/ TimerFires \/ Pulled
  PROVE  TypeInv'
<1>1. ASSUME NEW d \in Devices, IntoDevice(d) PROVE TypeInv'
  <2>1. d # None
    BY NoneIsNothing
  <2>2. conn' \in Connections /\ timer' \in BOOLEAN
    BY <1>1, <2>1, DialsType DEF IntoDevice, TypeInv, TypeOK
  <2>3. pc' \in [Threads -> Places]
    <3>1. [at |-> "resub"] \in Places
      BY DEF Places
    <3>2. "main" \in Threads
      BY DEF Threads
    <3> QED
      BY <1>1, <3>1, <3>2, PlacesType DEF IntoDevice, TypeInv, TypeOK
  <2>4. hist' \in History
    <3>1. hist' = [hist EXCEPT !.moves = @ - 1] /\ hist.moves > 0
      BY <1>1 DEF IntoDevice
    <3>2. hist \in History
      BY TypeFacts
    <3>3. hist.moves \in 0..MaxMoves /\ hist.moves - 1 \in 0..MaxMoves
      BY <3>1, <3>2, MovesNatural DEF History
    <3> QED
      BY <3>1, <3>2, <3>3 DEF History
  <2>5. curr' = d
    BY <1>1 DEF IntoDevice
  <2> QED
    BY <1>1, <2>1, <2>2, <2>3, <2>4, <2>5 DEF IntoDevice, TypeInv, TypeOK, net
<1>2. CASE SignedIn
  <2>1. conn' \in Connections /\ timer' \in BOOLEAN /\ (conn' # "none" => curr # None)
    BY <1>2, DialsType DEF SignedIn, TypeInv, TypeOK
  <2> QED
    BY <1>2, <2>1 DEF SignedIn, TypeInv, TypeOK, member, net
<1>3. CASE TimerFires
  <2>1. conn' \in Connections /\ timer' \in BOOLEAN /\ (conn' # "none" => curr # None)
    BY <1>3, DialsType DEF TimerFires, TypeInv, TypeOK
  <2> QED
    BY <1>3, <2>1 DEF TimerFires, TypeInv, TypeOK, member, net
<1>4. CASE Pulled
  BY <1>4 DEF Pulled, TypeInv, TypeOK, net
<1> QED
  BY <1>1, <1>2, <1>3, <1>4

(* restart() and disconnIot() *)
LEMMA RestartType ==
  ASSUME TypeInv, Restart, UNCHANGED subscribed
  PROVE  TypeInv'
<1>1. hist' \in History
  BY TypeFacts DEF Restart, History
<1>2. conn' = "none"
  BY DEF Restart, LetGoOf
<1> QED
  BY <1>1, <1>2 DEF Restart, TypeInv, TypeOK, member, Connections

LEMMA DisconnType ==
  ASSUME TypeInv, DisconnIot
  PROVE  /\ conn' \in Connections /\ subscribed' \in BOOLEAN
         /\ conn' # "none" => curr # None
         /\ conn # "none" => conn' # "none"
BY DEF DisconnIot, TypeInv, TypeOK, Connections

(* Callbacks of the runtime *)
LEMMA CallbackType ==
  ASSUME TypeInv,
         ConnUp \/ ConnFailed \/ Disconnected \/ SubAcked \/ SubFailed \/ PubCompleted
  PROVE  TypeInv'
<1>0. "mqtt" \in Threads /\ "mqtt" # "main"
  BY DEF Threads
<1>1. CASE ConnUp
  <2> DEFINE p == [at |-> "sub", topic |-> curr]
  <2>1. curr \in Devices
    BY <1>1, TypeFacts DEF ConnUp, TypeInv
  <2>2. p \in Places
    BY <2>1, PlacesType
  <2>3. Noted("mqtt", p) \in History
    BY <1>0, <2>2, NotedType, TypeFacts
  <2>4. hist' = [Noted("mqtt", p) EXCEPT !.clash = @ \/ asked # {}]
    BY <1>1 DEF ConnUp
  <2>5. hist' \in History
    BY <2>3, <2>4 DEF History
  <2>6. pc' \in [Threads -> Places] /\ pc'["main"] = pc["main"]
    BY <1>0, <1>1, <2>2, TypeFacts DEF ConnUp
  <2> QED
    BY <1>1, <2>1, <2>5, <2>6 DEF ConnUp, TypeInv, TypeOK, Connections, net
<1>2. CASE ConnFailed \/ Disconnected
  BY <1>2, RestartType DEF ConnFailed, Disconnected
<1>3. CASE SubAcked
  <2>1. AfterSuback \in Places
    BY DEF AfterSuback, Places
  <2>2. hist' \in History
    BY <1>0, <1>3, <2>1, NotedType, TypeFacts DEF SubAcked, GoTo
  <2>3. pc' \in [Threads -> Places] /\ pc'["main"] = pc["main"]
    BY <1>0, <1>3, <2>1, TypeFacts DEF SubAcked, GoTo
  <2>4. acks' \in Nat
    BY <1>3 DEF SubAcked, TypeInv, TypeOK
  <2> QED
    BY <1>3, <2>2, <2>3, <2>4 DEF SubAcked, TypeInv, TypeOK, Confirmed, member
<1>4. CASE SubFailed
  <2>1. acks' \in Nat
    BY <1>4 DEF SubFailed, TypeInv, TypeOK
  <2> QED
    BY <1>4, <2>1, DisconnType DEF SubFailed, TypeInv, TypeOK, member
<1>5. CASE PubCompleted
  <2>1. pubs' \in Nat
    BY <1>5 DEF PubCompleted, TypeInv, TypeOK
  <2>2. /\ conn' \in Connections /\ subscribed' \in BOOLEAN
        /\ conn' # "none" => curr # None
    BY <1>5, DisconnType DEF PubCompleted, TypeInv, TypeOK
  <2> QED
    BY <1>5, <2>1, <2>2 DEF PubCompleted, TypeInv, TypeOK, member
<1> QED
  BY <1>1, <1>2, <1>3, <1>4, <1>5

(* What a thread carries at a place *)
LEMMA CarriedType ==
  ASSUME TypeInv, NEW t \in Threads
  PROVE  /\ pc[t].at = "sub" => pc[t].topic \in Devices
         /\ pc[t].at = "pub" => pc[t].cmd \in Cmds
BY TypeFacts DEF Places

LEMMA EnterPubType ==
  ASSUME TypeInv, NEW t \in Threads, NEW c \in Cmds, EnterPub(t, c)
  PROVE  /\ pc' \in [Threads -> Places] /\ hist' \in History
         /\ pc'["main"].at = "resub" => pc["main"].at = "resub"
<1> DEFINE p == [at |-> "pub", cmd |-> c, ready |-> conn # "none" /\ subscribed]
<1>1. (conn # "none" /\ subscribed) \in BOOLEAN
  BY DEF TypeInv, TypeOK
<1>2. p \in Places
  BY <1>1, PlacesType
<1>3. Noted(t, p) \in History
  BY <1>2, NotedType, TypeFacts
<1>4. pc' = [pc EXCEPT ![t] = p] /\ hist' = [Noted(t, p) EXCEPT !.given = @ \cup {c}]
  BY DEF EnterPub
<1>5. hist' \in History
  BY <1>3, <1>4 DEF History
<1> QED
  BY <1>2, <1>4, <1>5, TypeFacts DEF Threads

(* A thread that goes on to a place other than resub() *)
LEMMA GoesOnType ==
  ASSUME TypeInv, NEW t \in Threads, NEW p \in Places, p.at # "resub",
         pc' = [pc EXCEPT ![t] = p]
  PROVE  /\ pc' \in [Threads -> Places]
         /\ pc'["main"].at = "resub" => pc["main"].at = "resub"
BY TypeFacts DEF Threads

LEMMA StepType ==
  ASSUME TypeInv, NEW t \in Threads,
         Step(t) \/ (\E c \in Cmds : Issue(t, c))
  PROVE  TypeInv'
<1>0. Idle \in Places /\ Idle.at # "resub" /\ Returned(t) \in Places /\ Returned(t).at # "resub"
  BY PlacesType DEF TypeInv, Idle, Returned
<1>1. ASSUME NEW c \in Cmds, Issue(t, c) PROVE TypeInv'
  BY <1>1, EnterPubType DEF Issue, TypeInv, TypeOK, member, net
<1>2. ASSUME NEW u \in Threads, Crash(u) PROVE TypeInv'
  BY <1>2 DEF Crash, TypeInv, TypeOK, member, net
<1>3. CASE t = "main" /\ Resub
  <2>1. CASE conn = "none"
    BY <1>2, <1>3, <2>1 DEF Resub
  <2>2. CASE conn # "none"
    <3> DEFINE p == [at |-> "sub", topic |-> curr]
    <3>1. curr \in Devices
      BY <2>2, TypeFacts DEF TypeInv
    <3>2. p \in Places /\ p.at # "resub"
      BY <3>1, PlacesType
    <3>3. GoTo("main", p)
      BY <1>3, <2>2 DEF Resub
    <3>4. pc' \in [Threads -> Places] /\ hist' \in History
      BY <1>3, <3>2, <3>3, GoesOnType, NotedType, TypeFacts DEF GoTo
    <3>5. asked' \subseteq Devices
      BY <1>3, <2>2 DEF Resub, TakenBack, TypeInv, TypeOK
    <3> QED
      BY <1>3, <2>2, <3>1, <3>4, <3>5 DEF Resub, TypeInv, TypeOK
  <2> QED
    BY <2>1, <2>2
<1>4. CASE Subscribe(t)
  <2>1. CASE conn = "none"
    BY <1>2, <1>4, <2>1 DEF Subscribe
  <2>2. CASE conn # "none"
    <3>1. pc[t].topic \in Devices
      BY <1>4, CarriedType DEF Subscribe
    <3>2. /\ pc' \in [Threads -> Places]
          /\ pc'["main"].at = "resub" => pc["main"].at = "resub"
      BY <1>0, <1>4, <2>2, GoesOnType DEF Subscribe
    <3>3. Noted(t, Idle) \in History
      BY <1>0, NotedType, TypeFacts
    <3>4. \A b \in BOOLEAN : [Noted(t, Idle) EXCEPT !.refused = b] \in History
      BY <3>3 DEF History
    <3>6. CASE asked' = asked \cup {pc[t].topic} /\ acks' = acks + 1
               /\ hist' = Noted(t, Idle) /\ UNCHANGED <<conn, subscribed>>
      BY <1>4, <2>2, <3>1, <3>2, <3>3, <3>6 DEF Subscribe, TypeInv, TypeOK, member
    <3>7. CASE DisconnIot /\ UNCHANGED <<asked, acks>>
      <4> DEFINE n == Noted(t, Idle)
                 b == n.refused \/ conn \in {"dialing", "up"}
      <4>1. hist' = n \/ hist' = [n EXCEPT !.refused = b]
        BY <1>4, <2>2 DEF Subscribe
      <4>2. b \in BOOLEAN
        OBVIOUS
      <4>3. hist' \in History
        BY <3>3, <3>4, <4>1, <4>2
      <4> QED
        BY <1>4, <2>2, <3>2, <3>7, <4>3, DisconnType
           DEF Subscribe, TypeInv, TypeOK, member
    <3> QED
      BY <1>4, <2>2, <3>6, <3>7 DEF Subscribe
  <2> QED
    BY <2>1, <2>2
<1>5. CASE Publish(t)
  <2>1. CASE conn = "none"
    BY <1>2, <1>5, <2>1 DEF Publish
  <2>2. CASE conn # "none"
    <3>1. pc[t].cmd \in Cmds
      BY <1>5, CarriedType DEF Publish
    <3>2. /\ pc' \in [Threads -> Places] /\ hist' \in History
          /\ pc'["main"].at = "resub" => pc["main"].at = "resub"
      BY <1>0, <1>5, <2>2, GoesOnType, NotedType, TypeFacts DEF Publish, GoTo
    <3>3. sent' \in [Cmds -> Nat] /\ pubs' \in Nat
      BY <1>5, <2>2, <3>1 DEF Publish, TypeInv, TypeOK
    <3> QED
      BY <1>5, <2>2, <3>2, <3>3 DEF Publish, TypeInv, TypeOK, member
  <2> QED
    BY <2>1, <2>2
<1>6. CASE Enqueue(t)
  <2>1. pc[t].cmd \in Cmds
    BY <1>6, CarriedType DEF Enqueue
  <2>2. queue' \in Seq(Cmds)
    BY <1>6, <2>1 DEF Enqueue, Queued, TypeInv, TypeOK
  <2>3. conn' \in Connections /\ timer' \in BOOLEAN /\ (conn' # "none" => curr # None)
    BY <1>6, DialsType DEF Enqueue, TypeInv, TypeOK
  <2>4. /\ pc' \in [Threads -> Places]
        /\ pc'["main"].at = "resub" => pc["main"].at = "resub"
    BY <1>0, <1>6, GoesOnType DEF Enqueue
  <2>5. Noted(t, Returned(t)) \in History
    BY <1>0, NotedType, TypeFacts
  <2>6. hist.late \subseteq Cmds
    BY TypeFacts DEF History
  <2>7. hist' \in History
    <3>1. \A S \in SUBSET Cmds : [Noted(t, Returned(t)) EXCEPT !.late = S] \in History
      BY <2>5 DEF History
    <3>2. Noted(t, Returned(t)).late \subseteq Cmds
      BY <2>5 DEF History
    <3>3. \E S \in SUBSET Cmds : hist' = [Noted(t, Returned(t)) EXCEPT !.late = S]
      BY <1>6, <2>1, <3>2 DEF Enqueue
    <3> QED
      BY <3>1, <3>3
  <2> QED
    BY <1>6, <2>2, <2>3, <2>4, <2>7 DEF Enqueue, TypeInv, TypeOK, member, net
<1>7. CASE t = "mqtt" /\ Flush
  <2>1. CASE queue = <<>>
    <3>1. GoTo("mqtt", Idle)
      BY <1>7, <2>1 DEF Flush
    <3>2. /\ pc' \in [Threads -> Places] /\ hist' \in History
          /\ pc'["main"].at = "resub" => pc["main"].at = "resub"
      BY <1>0, <1>7, <3>1, GoesOnType, NotedType, TypeFacts DEF GoTo
    <3> QED
      BY <1>7, <2>1, <3>2 DEF Flush, TypeInv, TypeOK, member, net
  <2>2. CASE queue # <<>>
    <3>1. Head(queue) \in Cmds /\ Tail(queue) \in Seq(Cmds)
      BY <2>2 DEF TypeInv, TypeOK
    <3>2. EnterPub(t, Head(queue)) /\ queue' = Tail(queue)
      BY <1>7, <2>2 DEF Flush
    <3> QED
      BY <1>7, <3>1, <3>2, EnterPubType DEF Flush, TypeInv, TypeOK, member, net
  <2> QED
    BY <2>1, <2>2
<1> QED
  BY <1>1, <1>3, <1>4, <1>5, <1>6, <1>7 DEF Step

LEMMA TypeStep == TypeInv /\ [Next]_vars => TypeInv'
<1>1. TypeInv /\ UNCHANGED vars => TypeInv'
  BY DEF vars, member, TypeInv, TypeOK
<1>2. TypeInv /\ Next => TypeInv'
  BY UserType, StepType, CallbackType DEF Next, Threads
<1> QED
  BY <1>1, <1>2

(***************************************************************************)
(* The state of the remote link stays well typed: above all, no topic is   *)
(* put together without a device (awsIot.cpp, connIot).                    *)
(***************************************************************************)
THEOREM TypeCorrect == Spec => []TypeOK
<1>1. TypeInv /\ [Next]_vars => TypeInv'
  BY TypeStep
<1>2. TypeInv => TypeOK
  BY DEF TypeInv
<1> QED
  BY <1>1, <1>2, InitType, PTL DEF Spec

-----------------------------------------------------------------------------
(***************************************************************************)
(* A thread that relies on a connection and finds none has been overtaken  *)
(* by restart(), but for the main thread in resub() before the first pull. *)
(***************************************************************************)
Overtaken(t) ==
  \/ t \in hist.raced
  \/ t = "main" /\ pc[t].at = "resub" /\ ~pulled

HeldInv == \A t \in Threads : Holding(t) /\ conn = "none" => Overtaken(t)

NullInv == TypeInv /\ HeldInv /\ NullUse

(* One thread goes on, and the connection is not let go.                   *)
LEMMA HeldStep ==
  ASSUME NullInv, NEW t \in Threads, NEW p \in Places,
         conn' = "none" => conn = "none",
         pc' = [pc EXCEPT ![t] = p],
         hist.raced \ {t} \subseteq hist'.raced,
         UNCHANGED pulled,
         p.at # "resub",
         p.at = "sub" => conn' # "none",
         p.at = "pub" /\ p.ready => conn' # "none"
  PROVE  HeldInv'
<1> SUFFICES ASSUME NEW u \in Threads, Holding(u)', conn' = "none"
             PROVE  Overtaken(u)'
  BY DEF HeldInv
<1>1. u # t
  BY TypeFacts DEF Holding, NullInv
<1>2. pc'[u] = pc[u]
  BY <1>1, TypeFacts DEF NullInv
<1>3. Holding(u)
  BY <1>2 DEF Holding
<1> QED
  BY <1>1, <1>2, <1>3 DEF NullInv, HeldInv, Overtaken

LEMMA HeldSame ==
  ASSUME NullInv, conn' = "none" => conn = "none", UNCHANGED <<pc, pulled>>,
         hist'.raced = hist.raced
  PROVE  HeldInv'
BY DEF NullInv, HeldInv, Overtaken, Holding

LEMMA HeldRestart ==
  ASSUME NullInv, Restart
  PROVE  HeldInv'
<1>1. hist'.raced = hist.raced \cup {t \in Threads : Holding(t)}
  BY TypeFacts DEF Restart, History, NullInv
<1> QED
  BY <1>1 DEF Restart, HeldInv, Overtaken, Holding

LEMMA DialsHeld ==
  ASSUME NEW d, NEW due, ConnIot(d, due)
  PROVE  conn' = "none" => conn = "none"
BY DEF ConnIot, Dials

LEMMA DisconnHeld == DisconnIot /\ conn' = "none" => conn = "none"
BY DEF DisconnIot

(* No thread does anything once one has used NULL.                         *)
LEMMA AliveStep ==
  ASSUME Next
  PROVE  crashed = {}
BY DEF Next, Step, Resub, Subscribe, Publish, Enqueue, Flush, Issue, IntoDevice,
       SignedIn, TimerFires, Pulled, ConnUp, ConnFailed, Disconnected, SubAcked,
       SubFailed, PubCompleted, Free

LEMMA UserHeld ==
  ASSUME NullInv, (\E d \in Devices : IntoDevice(d)) \/ SignedIn \/ TimerFires \/ Pulled
  PROVE  HeldInv' /\ crashed' = crashed
<1>1. ASSUME NEW d \in Devices, IntoDevice(d) PROVE HeldInv' /\ crashed' = crashed
  <2>1. hist'.raced = hist.raced /\ UNCHANGED <<pulled, crashed>>
    BY <1>1, TypeFacts DEF IntoDevice, History, NullInv
  <2>2. conn' = "none" => conn = "none"
    BY <1>1, DialsHeld DEF IntoDevice
  <2>3. CASE pc' = [pc EXCEPT !["main"] = Idle]
    BY <2>1, <2>2, <2>3, HeldStep, PlacesType DEF Idle, Threads
  <2>4. CASE pc' = [pc EXCEPT !["main"] = [at |-> "resub"]] /\ ~ConnectsAfterMove
             /\ UNCHANGED conn
    <3> SUFFICES ASSUME NEW u \in Threads, Holding(u)', conn' = "none"
                 PROVE  Overtaken(u)'
      BY <2>1 DEF HeldInv
    <3>1. CASE u = "main"
      BY <2>1, <2>4, <3>1, TypeFacts DEF Overtaken, ConnectsAfterMove, NullInv
    <3>2. CASE u # "main"
      BY <2>1, <2>4, <3>2, TypeFacts DEF Overtaken, Holding, HeldInv, NullInv
    <3> QED
      BY <3>1, <3>2
  <2> QED
    BY <1>1, <2>1, <2>3, <2>4 DEF IntoDevice
<1>2. CASE SignedIn \/ TimerFires
  BY <1>2, DialsHeld, HeldSame DEF SignedIn, TimerFires, member
<1>3. CASE Pulled
  <2>1. ~Holding("main")
    BY <1>3 DEF Pulled, Free, Idle, Holding
  <2> QED
    BY <1>3, <2>1 DEF Pulled, HeldInv, Overtaken, Holding, NullInv
<1> QED
  BY <1>1, <1>2, <1>3

LEMMA CallbackHeld ==
  ASSUME NullInv,
         ConnUp \/ ConnFailed \/ Disconnected \/ SubAcked \/ SubFailed \/ PubCompleted
  PROVE  HeldInv' /\ crashed' = crashed
<1>0. "mqtt" \in Threads
  BY DEF Threads
<1>1. CASE ConnUp
  <2> DEFINE p == [at |-> "sub", topic |-> curr]
  <2>1. p \in Places /\ hist \in History
    BY <1>1, PlacesType, TypeFacts DEF ConnUp, NullInv, TypeInv
  <2>2. Noted("mqtt", p) \in History /\ Noted("mqtt", p).raced = hist.raced
    BY <1>0, <2>1, NotedType
  <2>3. hist'.raced = hist.raced
    BY <1>1, <2>2 DEF ConnUp, History
  <2> QED
    BY <1>0, <1>1, <2>1, <2>3, HeldStep DEF ConnUp
<1>2. CASE ConnFailed \/ Disconnected
  BY <1>2, HeldRestart DEF ConnFailed, Disconnected, Restart
<1>3. CASE SubAcked
  <2>1. AfterSuback \in Places /\ AfterSuback.at = "flush"
    BY DEF AfterSuback, Places
  <2>2. hist'.raced = hist.raced \ {"mqtt"}
    BY <1>0, <1>3, <2>1, NotedType, TypeFacts DEF SubAcked, GoTo, NullInv
  <2> QED
    BY <1>0, <1>3, <2>1, <2>2, HeldStep DEF SubAcked, GoTo, member
<1>4. CASE SubFailed \/ PubCompleted
  BY <1>4, HeldSame, DisconnHeld DEF SubFailed, PubCompleted, member
<1> QED
  BY <1>1, <1>2, <1>3, <1>4

(* The use of NULL ends the program and changes nothing else.              *)
LEMMA CrashHeld ==
  ASSUME NullInv, NEW t \in Threads, Holding(t), conn = "none", crashed = {}, Crash(t)
  PROVE  HeldInv' /\ NullUse'
<1>1. Overtaken(t)
  BY DEF NullInv, HeldInv
<1>2. UNCHANGED <<hist, pulled, conn, pc>> /\ crashed' = {t}
  BY DEF Crash, member
<1> QED
  BY <1>1, <1>2 DEF NullInv, HeldInv, NullUse, Overtaken, Holding

LEMMA EnterPubHeld ==
  ASSUME NullInv, NEW t \in Threads, NEW c \in Cmds, EnterPub(t, c),
         UNCHANGED <<conn, pulled>>
  PROVE  HeldInv'
<1> DEFINE p == [at |-> "pub", cmd |-> c, ready |-> conn # "none" /\ subscribed]
<1>1. p \in Places
  BY PlacesType DEF NullInv, TypeInv, TypeOK
<1>2. Noted(t, p) \in History /\ Noted(t, p).raced = hist.raced \ {t}
  BY <1>1, NotedType, TypeFacts DEF NullInv
<1>3. hist'.raced = hist.raced \ {t}
  BY <1>2 DEF EnterPub, History
<1> QED
  BY <1>1, <1>3, HeldStep DEF EnterPub

LEMMA StepHeld ==
  ASSUME NullInv, NEW t \in Threads, crashed = {},
         Step(t) \/ (\E c \in Cmds : Issue(t, c))
  PROVE  HeldInv' /\ NullUse'
<1>0. Idle \in Places /\ Idle.at = "idle" /\ Returned(t) \in Places
      /\ Returned(t).at \in {"idle", "flush"}
  BY PlacesType DEF NullInv, TypeInv, Idle, Returned
<1>a. crashed' = {} => NullUse'
  BY DEF NullUse
<1>b. Noted(t, Idle).raced = hist.raced \ {t} /\ Noted(t, Returned(t)).raced = hist.raced \ {t}
      /\ Noted(t, Idle) \in History /\ Noted(t, Returned(t)) \in History
  BY <1>0, NotedType, TypeFacts DEF NullInv
<1>1. ASSUME NEW c \in Cmds, Issue(t, c) PROVE HeldInv' /\ NullUse'
  BY <1>1, <1>a, EnterPubHeld DEF Issue, member
<1>2. CASE t = "main" /\ Resub
  <2>1. CASE conn = "none"
    BY <1>2, <2>1, CrashHeld DEF Resub, Holding
  <2>2. CASE conn # "none"
    <3> DEFINE p == [at |-> "sub", topic |-> curr]
    <3>1. p \in Places
      BY <2>2, PlacesType, TypeFacts DEF NullInv, TypeInv
    <3>2. GoTo(t, p) /\ UNCHANGED <<conn, pulled, crashed>>
      BY <1>2, <2>2 DEF Resub
    <3>3. hist'.raced = hist.raced
      BY <3>1, <3>2, NotedType, TypeFacts DEF GoTo, NullInv
    <3> QED
      BY <1>a, <2>2, <3>1, <3>2, <3>3, HeldStep DEF GoTo
  <2> QED
    BY <2>1, <2>2
<1>3. CASE Subscribe(t)
  <2>1. CASE conn = "none"
    BY <1>3, <2>1, CrashHeld DEF Subscribe, Holding
  <2>2. CASE conn # "none"
    <3>1. hist'.raced = hist.raced \ {t}
      BY <1>3, <1>b, <2>2 DEF Subscribe, History
    <3>2. conn' = "none" => conn = "none"
      BY <1>3, <2>2, DisconnHeld DEF Subscribe
    <3> QED
      BY <1>0, <1>3, <1>a, <2>2, <3>1, <3>2, HeldStep DEF Subscribe, member
  <2> QED
    BY <2>1, <2>2
<1>4. CASE Publish(t)
  <2>1. CASE conn = "none"
    BY <1>4, <2>1, CrashHeld DEF Publish, Holding
  <2>2. CASE conn # "none"
    BY <1>0, <1>4, <1>a, <1>b, <2>2, HeldStep DEF Publish, GoTo, member
  <2> QED
    BY <2>1, <2>2
<1>5. CASE Enqueue(t)
  <2>1. hist'.raced = hist.raced \ {t}
    BY <1>5, <1>b DEF Enqueue, History
  <2>2. conn' = "none" => conn = "none"
    BY <1>5, DialsHeld DEF Enqueue
  <2> QED
    BY <1>0, <1>5, <1>a, <2>1, <2>2, HeldStep DEF Enqueue, member
<1>6. CASE t = "mqtt" /\ Flush
  <2>1. CASE queue = <<>>
    BY <1>0, <1>6, <1>a, <1>b, <2>1, HeldStep DEF Flush, GoTo, member
  <2>2. CASE queue # <<>>
    <3>1. Head(queue) \in Cmds
      BY <2>2 DEF NullInv, TypeInv, TypeOK
    <3> QED
      BY <1>6, <1>a, <2>2, <3>1, EnterPubHeld DEF Flush, member
  <2> QED
    BY <2>1, <2>2
<1> QED
  BY <1>1, <1>2, <1>3, <1>4, <1>5, <1>6 DEF Step

(***************************************************************************)
(* Whatever three threads and the network do, NULL is used in place of a   *)
(* connection only by a thread that restart() has overtaken since it       *)
(* looked, or when the device changes before the first pull.               *)
(***************************************************************************)
THEOREM NullIsUsedByRaceOnly == Spec => []NullUse
<1>1. Init => NullInv
  <2>1. Init => HeldInv /\ NullUse
    BY DEF Init, HeldInv, Holding, Idle, NullUse
  <2> QED
    BY <2>1, InitType DEF NullInv
<1>2. NullInv /\ [Next]_vars => NullInv'
  <2> SUFFICES ASSUME NullInv, [Next]_vars PROVE HeldInv' /\ NullUse'
    BY TypeStep DEF NullInv
  <2>1. CASE UNCHANGED vars
    BY <2>1 DEF vars, NullInv, HeldInv, Overtaken, Holding, NullUse
  <2>2. CASE Next
    <3>1. crashed = {}
      BY <2>2, AliveStep
    <3>2. crashed' = {} => NullUse'
      BY DEF NullUse
    <3> QED
      BY <2>2, <3>1, <3>2, UserHeld, CallbackHeld, StepHeld DEF Next, Threads
  <2> QED
    BY <2>1, <2>2
<1> QED
  BY <1>1, <1>2, PTL DEF Spec, NullInv

-----------------------------------------------------------------------------
(***************************************************************************)
(* Subscriptions.  Unless making a connection and changing the device have *)
(* overlapped, what is asked for and what sub() is about to ask for is the *)
(* topic that m_currSubtopic names, so that resub() takes it back.         *)
(***************************************************************************)
TopicInv ==
  hist.clash \/ /\ asked \subseteq {subtopic}
                /\ \A t \in Threads : pc[t].at = "sub" => pc[t].topic = subtopic

SubInv == TypeInv /\ TopicInv

(* Steps that put no topic together and ask for none.                      *)
LEMMA TopicSame ==
  ASSUME SubInv, UNCHANGED subtopic, asked' \subseteq asked,
         hist'.clash = hist.clash,
         \A t \in Threads : pc'[t].at = "sub" => pc'[t] = pc[t]
  PROVE  TopicInv'
BY DEF SubInv, TopicInv

(* A thread that does not go on to sub() *)
LEMMA TopicStep ==
  ASSUME SubInv, NEW t \in Threads, NEW p \in Places, p.at # "sub",
         pc' = [pc EXCEPT ![t] = p], UNCHANGED subtopic, asked' \subseteq asked,
         hist'.clash = hist.clash \/ hist'.clash
  PROVE  TopicInv'
<1>1. CASE hist'.clash = hist.clash
  BY <1>1, TopicSame, TypeFacts DEF SubInv
<1> QED
  BY <1>1 DEF TopicInv

(* The history keeps a clash.                                              *)
LEMMA NotedClash ==
  ASSUME SubInv, NEW t \in Threads, NEW p \in Places
  PROVE  /\ Noted(t, p) \in History
         /\ p.at # "sub" => Noted(t, p).clash = hist.clash
         /\ hist.clash => Noted(t, p).clash
         /\ p.at = "sub" /\ ~Noted(t, p).clash => Subscribing = {}
<1>1. hist \in History /\ hist.clash \in BOOLEAN
  BY TypeFacts DEF SubInv, History
<1>2. Noted(t, p) \in History
  BY <1>1, NotedType
<1>3. Noted(t, p).clash = (hist.clash \/ (p.at = "sub" /\ Subscribing # {}))
  BY <1>1 DEF Noted, History
<1> QED
  BY <1>1, <1>2, <1>3

LEMMA EnterPubTopic ==
  ASSUME SubInv, NEW t \in Threads, NEW c \in Cmds, EnterPub(t, c),
         UNCHANGED <<subtopic, asked>>
  PROVE  TopicInv'
<1> DEFINE p == [at |-> "pub", cmd |-> c, ready |-> conn # "none" /\ subscribed]
<1>1. p \in Places
  BY PlacesType DEF SubInv, TypeInv, TypeOK
<1>2. hist'.clash = hist.clash
  BY <1>1, NotedClash DEF EnterPub, History
<1> QED
  BY <1>1, <1>2, TopicStep DEF EnterPub

LEMMA ThreadTopic ==
  ASSUME SubInv, NEW t \in Threads, Step(t) \/ (\E c \in Cmds : Issue(t, c))
  PROVE  TopicInv'
<1>0. Idle \in Places /\ Idle.at = "idle" /\ Returned(t) \in Places
      /\ Returned(t).at \in {"idle", "flush"}
  BY PlacesType DEF SubInv, TypeInv, Idle, Returned
<1>1. ASSUME NEW u \in Threads, Crash(u) PROVE TopicInv'
  BY <1>1 DEF Crash, member, net, SubInv, TopicInv
<1>2. ASSUME NEW c \in Cmds, Issue(t, c) PROVE TopicInv'
  BY <1>2, EnterPubTopic DEF Issue, member, net
<1>3. CASE t = "main" /\ Resub
  <2>1. CASE conn = "none"
    BY <1>1, <1>3, <2>1 DEF Resub
  <2>2. CASE conn # "none"
    <3> DEFINE p == [at |-> "sub", topic |-> curr]
    <3>1. p \in Places
      BY <2>2, PlacesType, TypeFacts DEF SubInv, TypeInv
    <3>2. /\ pc' = [pc EXCEPT ![t] = p] /\ hist' = Noted(t, p)
          /\ asked' = asked \ {subtopic} /\ subtopic' = curr
      BY <1>3, <2>2 DEF Resub, GoTo, TakenBack
    <3>3. CASE hist'.clash
      BY <3>3 DEF TopicInv
    <3>4. CASE ~hist'.clash
      <4>1. ~hist.clash /\ Subscribing = {}
        BY <3>1, <3>2, <3>4, NotedClash
      <4>2. asked' = {}
        BY <3>2, <4>1 DEF SubInv, TopicInv
      <4>3. ASSUME NEW u \in Threads, pc'[u].at = "sub" PROVE pc'[u].topic = subtopic'
        BY <3>2, <4>1, <4>3, TypeFacts DEF Subscribing, SubInv
      <4> QED
        BY <4>2, <4>3 DEF TopicInv
    <3> QED
      BY <3>3, <3>4
  <2> QED
    BY <2>1, <2>2
<1>4. CASE Subscribe(t)
  <2>1. CASE conn = "none"
    BY <1>1, <1>4, <2>1 DEF Subscribe
  <2>2. CASE conn # "none"
    <3>1. /\ pc' = [pc EXCEPT ![t] = Idle] /\ UNCHANGED subtopic
          /\ asked' \subseteq asked \cup {pc[t].topic} /\ pc[t].at = "sub"
      BY <1>4, <2>2 DEF Subscribe, member
    <3>2. hist'.clash = hist.clash
      BY <1>0, <1>4, <2>2, NotedClash DEF Subscribe, History
    <3>3. hist.clash \/ pc[t].topic = subtopic
      BY <3>1 DEF SubInv, TopicInv
    <3> QED
      BY <1>0, <3>1, <3>2, <3>3, TypeFacts DEF SubInv, TopicInv
  <2> QED
    BY <2>1, <2>2
<1>5. CASE Publish(t)
  <2>1. CASE conn = "none"
    BY <1>1, <1>5, <2>1 DEF Publish
  <2>2. CASE conn # "none"
    BY <1>0, <1>5, <2>2, NotedClash, TopicStep DEF Publish, GoTo, member
  <2> QED
    BY <2>1, <2>2
<1>6. CASE Enqueue(t)
  <2>1. hist'.clash = hist.clash
    BY <1>0, <1>6, NotedClash DEF Enqueue, History
  <2> QED
    BY <1>0, <1>6, <2>1, TopicStep DEF Enqueue, member, net
<1>7. CASE t = "mqtt" /\ Flush
  <2>1. CASE queue = <<>>
    BY <1>0, <1>7, <2>1, NotedClash, TopicStep DEF Flush, GoTo, member, net
  <2>2. CASE queue # <<>>
    <3>1. Head(queue) \in Cmds
      BY <2>2 DEF SubInv, TypeInv, TypeOK
    <3> QED
      BY <1>7, <2>2, <3>1, EnterPubTopic DEF Flush, member, net
  <2> QED
    BY <2>1, <2>2
<1> QED
  BY <1>2, <1>3, <1>4, <1>5, <1>6, <1>7 DEF Step

LEMMA OtherTopic ==
  ASSUME SubInv,
         \/ (\E d \in Devices : IntoDevice(d)) \/ SignedIn \/ TimerFires \/ Pulled
         \/ ConnUp \/ ConnFailed \/ Disconnected
         \/ SubAcked \/ SubFailed \/ PubCompleted
  PROVE  TopicInv'
<1>0. "mqtt" \in Threads /\ "main" \in Threads
  BY DEF Threads
<1>1. ASSUME NEW d \in Devices, IntoDevice(d) PROVE TopicInv'
  <2>1. hist'.clash = hist.clash
    BY <1>1, TypeFacts DEF IntoDevice, History, SubInv
  <2>2. \E p \in {Idle, [at |-> "resub"]} : pc' = [pc EXCEPT !["main"] = p]
    BY <1>1 DEF IntoDevice
  <2>3. \A p \in {Idle, [at |-> "resub"]} : p \in Places /\ p.at # "sub"
    BY DEF Idle, Places
  <2> QED
    BY <1>0, <1>1, <2>1, <2>2, <2>3, TopicStep DEF IntoDevice, net
<1>2. CASE SignedIn \/ TimerFires \/ Pulled \/ SubFailed \/ PubCompleted
  BY <1>2, TopicSame DEF SignedIn, TimerFires, Pulled, SubFailed, PubCompleted,
                         member, net
<1>3. CASE ConnFailed \/ Disconnected
  <2>1. hist'.clash = hist.clash
    BY <1>3, TypeFacts DEF ConnFailed, Disconnected, Restart, History, SubInv
  <2> QED
    BY <1>3, <2>1, TopicSame DEF ConnFailed, Disconnected, Restart, member
<1>4. CASE SubAcked
  <2>1. AfterSuback \in Places /\ AfterSuback.at # "sub"
    BY DEF AfterSuback, Places
  <2> QED
    BY <1>0, <1>4, <2>1, NotedClash, TopicStep DEF SubAcked, GoTo, member
<1>5. CASE ConnUp
  <2> DEFINE p == [at |-> "sub", topic |-> curr]
             n == Noted("mqtt", p)
  <2>1. p \in Places
    BY <1>5, PlacesType, TypeFacts DEF ConnUp, SubInv, TypeInv
  <2>2. n \in History
    BY <1>0, <2>1, NotedClash
  <2>3. hist'.clash = (n.clash \/ asked # {})
    BY <1>5, <2>2 DEF ConnUp, History
  <2>4. CASE hist'.clash
    BY <2>4 DEF TopicInv
  <2>5. CASE ~hist'.clash
    <3>1. Subscribing = {} /\ asked = {}
      BY <1>0, <2>1, <2>3, <2>5, NotedClash
    <3>2. pc' = [pc EXCEPT !["mqtt"] = p] /\ subtopic' = curr /\ asked' = asked
      BY <1>5 DEF ConnUp, net
    <3> QED
      BY <3>1, <3>2, TypeFacts DEF Subscribing, SubInv, TopicInv
  <2> QED
    BY <2>4, <2>5
<1> QED
  BY <1>1, <1>2, <1>3, <1>4, <1>5

(***************************************************************************)
(* For any devices and threads, a connection is subscribed to no device    *)
(* but the one whose topic is kept, unless a change of device overlapped   *)
(* the making of the connection.                                           *)
(***************************************************************************)
THEOREM OneSubscriptionIsKept == Spec => []OneSubscription
<1>1. Init => SubInv
  <2>1. Init => TopicInv
    BY DEF Init, TopicInv, Idle
  <2> QED
    BY <2>1, InitType DEF SubInv
<1>2. SubInv /\ [Next]_vars => SubInv'
  <2> SUFFICES ASSUME SubInv, [Next]_vars PROVE TopicInv'
    BY TypeStep DEF SubInv
  <2>1. CASE UNCHANGED vars
    BY <2>1 DEF vars, member, net, SubInv, TopicInv
  <2>2. CASE Next
    BY <2>2, ThreadTopic, OtherTopic DEF Next, Threads
  <2> QED
    BY <2>1, <2>2
<1>3. SubInv => OneSubscription
  BY DEF SubInv, TopicInv, OneSubscription
<1> QED
  BY <1>1, <1>2, <1>3, PTL DEF Spec

-----------------------------------------------------------------------------
(***************************************************************************)
(* Commands.  A command that was not given is nowhere.  One that was given *)
(* is in exactly one of three places, and only once.  The three steps that *)
(* move it take it out of the place where it was.                          *)
(***************************************************************************)
Nowhere(c) == Waiting(c) = {} /\ InHand(c) = {} /\ sent[c] = 0

Published(c) == Waiting(c) = {} /\ InHand(c) = {} /\ sent[c] = 1

Queuing(c) == (\E i \in Nat : Waiting(c) = {i}) /\ InHand(c) = {} /\ sent[c] = 0

Handled(c, t) == Waiting(c) = {} /\ InHand(c) = {t} /\ sent[c] = 0

Placed(c) ==
  \/ c \notin hist.given /\ Nowhere(c)
  \/ c \in hist.given /\ (Published(c) \/ Queuing(c) \/ \E t \in Threads : Handled(c, t))

PlaceInv == TypeInv /\ \A c \in Cmds : Placed(c)

\* The positions of c in q
At(q, c) == {i \in DOMAIN q : q[i] = c}

LEMMA AppendedAt ==
  ASSUME NEW q \in Seq(Cmds), NEW c \in Cmds, NEW d \in Cmds
  PROVE  At(Append(q, c), d) = IF d = c THEN At(q, d) \cup {Len(q) + 1} ELSE At(q, d)
<1>1. /\ Append(q, c) \in Seq(Cmds) /\ Len(Append(q, c)) = Len(q) + 1
      /\ Append(q, c)[Len(q) + 1] = c
      /\ \A i \in 1..Len(q) : Append(q, c)[i] = q[i]
  OBVIOUS
<1>2. DOMAIN q = 1..Len(q) /\ DOMAIN Append(q, c) = 1..(Len(q) + 1) /\ Len(q) \in Nat
  BY <1>1
<1> QED
  BY <1>1, <1>2 DEF At

LEMMA TailAt ==
  ASSUME NEW q \in Seq(Cmds), q # <<>>, NEW d \in Cmds
  PROVE  /\ At(q, d) = {} => d # Head(q) /\ At(Tail(q), d) = {}
         /\ \A i \in Nat : At(q, d) = {i} =>
              IF d = Head(q) THEN At(Tail(q), d) = {} ELSE At(Tail(q), d) = {i - 1}
<1>1. /\ Len(q) \in Nat /\ Len(q) > 0 /\ Head(q) = q[1]
      /\ Len(Tail(q)) = Len(q) - 1
      /\ \A i \in 1..(Len(q) - 1) : Tail(q)[i] = q[i + 1]
  OBVIOUS
<1>2. DOMAIN q = 1..Len(q) /\ DOMAIN Tail(q) = 1..(Len(q) - 1) /\ 1 \in 1..Len(q)
  BY <1>1
<1>3. ASSUME At(q, d) = {} PROVE d # Head(q) /\ At(Tail(q), d) = {}
  BY <1>1, <1>2, <1>3 DEF At
<1>4. ASSUME NEW i \in Nat, At(q, d) = {i}, d = Head(q) PROVE At(Tail(q), d) = {}
  <2>1. i = 1
    BY <1>1, <1>2, <1>4 DEF At
  <2>2. \A j \in 1..Len(q) : q[j] = d => j = 1
    BY <1>2, <1>4, <2>1 DEF At
  <2> QED
    BY <1>1, <1>2, <2>2 DEF At
<1>5. ASSUME NEW i \in Nat, At(q, d) = {i}, d # Head(q) PROVE At(Tail(q), d) = {i - 1}
  <2>1. i \in 1..Len(q) /\ q[i] = d /\ \A j \in 1..Len(q) : q[j] = d => j = i
    BY <1>2, <1>5 DEF At
  <2>2. i # 1
    BY <1>1, <1>5, <2>1
  <2>3. i - 1 \in 1..(Len(q) - 1) /\ Tail(q)[i - 1] = d
    BY <1>1, <2>1, <2>2
  <2>4. \A j \in 1..(Len(q) - 1) : Tail(q)[j] = d => j = i - 1
    BY <1>1, <2>1
  <2> QED
    BY <1>2, <2>3, <2>4 DEF At
<1> QED
  BY <1>3, <1>4, <1>5

(* What is in hand when t goes on.                                         *)
LEMMA HandStep ==
  ASSUME TypeInv, NEW t \in Threads, NEW p, pc' = [pc EXCEPT ![t] = p], NEW c
  PROVE  InHand(c)' = IF p.at = "pub" /\ p.cmd = c THEN InHand(c) \cup {t}
                                                  ELSE InHand(c) \ {t}
<1>1. \A u \in Threads : pc'[u] = IF u = t THEN p ELSE pc[u]
  BY TypeFacts
<1> QED
  BY <1>1 DEF InHand

(* A step that moves no command.                                           *)
LEMMA PlaceSame ==
  ASSUME PlaceInv, UNCHANGED <<queue, sent>>, hist'.given = hist.given,
         \/ UNCHANGED pc
         \/ \E t \in Threads, p \in Places :
              pc' = [pc EXCEPT ![t] = p] /\ p.at # "pub" /\ pc[t].at # "pub"
  PROVE  \A c \in Cmds : Placed(c)'
<1> SUFFICES ASSUME NEW c \in Cmds PROVE Placed(c)'
  OBVIOUS
<1>1. InHand(c)' = InHand(c)
  <2>1. CASE UNCHANGED pc
    BY <2>1 DEF InHand
  <2>2. ASSUME NEW t \in Threads, NEW p \in Places, pc' = [pc EXCEPT ![t] = p],
               p.at # "pub", pc[t].at # "pub"
        PROVE  InHand(c)' = InHand(c)
    BY <2>2, HandStep DEF PlaceInv, InHand
  <2> QED
    BY <2>1, <2>2
<1>2. Waiting(c)' = Waiting(c)
  BY DEF Waiting
<1> QED
  BY <1>1, <1>2 DEF PlaceInv, Placed, Nowhere, Published, Queuing, Handled

\* The history that is not about commands keeps those that were given.
LEMMA NotedGiven ==
  ASSUME TypeInv, NEW t \in Threads, NEW p
  PROVE  Noted(t, p).given = hist.given
BY TypeFacts DEF Noted, History

(* pub() is entered with a command that is nowhere else now.               *)
LEMMA EnterPubPlace ==
  ASSUME PlaceInv, NEW t \in Threads, pc[t].at # "pub", NEW c \in Cmds, EnterPub(t, c),
         UNCHANGED sent, InHand(c) = {}, sent[c] = 0, Waiting(c)' = {},
         \A d \in Cmds \ {c} : Waiting(d)' = Waiting(d) \/
                              (\E i, j \in Nat : Waiting(d) = {i} /\ Waiting(d)' = {j})
  PROVE  \A d \in Cmds : Placed(d)'
<1> DEFINE p == [at |-> "pub", cmd |-> c, ready |-> conn # "none" /\ subscribed]
<1>1. pc' = [pc EXCEPT ![t] = p] /\ hist'.given = hist.given \cup {c}
  <2>1. p \in Places
    BY PlacesType DEF PlaceInv, TypeInv, TypeOK
  <2>2. Noted(t, p) \in History /\ Noted(t, p).given = hist.given
    BY <2>1, NotedType, NotedGiven, TypeFacts DEF PlaceInv
  <2> QED
    BY <2>2 DEF EnterPub, History
<1>2. p.at = "pub" /\ p.cmd = c
  OBVIOUS
<1> HIDE DEF p
<1>3. InHand(c)' = {t}
  BY <1>1, <1>2, HandStep DEF PlaceInv
<1>4. \A d \in Cmds \ {c} : InHand(d)' = InHand(d)
  <2> TAKE d \in Cmds \ {c}
  <2>1. t \notin InHand(d)
    BY DEF InHand
  <2>2. InHand(d)' = IF p.at = "pub" /\ p.cmd = d THEN InHand(d) \cup {t}
                                                   ELSE InHand(d) \ {t}
    BY <1>1, HandStep DEF PlaceInv
  <2>3. InHand(d)' = InHand(d) \ {t}
    BY <1>2, <2>2
  <2> QED
    BY <2>1, <2>3
<1>5. Placed(c)'
  BY <1>1, <1>3 DEF Placed, Handled
<1>6. ASSUME NEW d \in Cmds \ {c} PROVE Placed(d)'
  <2>1. Placed(d) /\ (d \in hist'.given <=> d \in hist.given)
    BY <1>1 DEF PlaceInv
  <2>2. \A i : {i} # {}
    OBVIOUS
  <2> QED
    BY <1>4, <2>1, <2>2 DEF Placed, Nowhere, Published, Queuing, Handled
<1> QED
  BY <1>5, <1>6

(* pub() is left: the command is published or put at the end of the queue. *)
LEMMA LeavePubPlace ==
  ASSUME PlaceInv, NEW t \in Threads, pc[t].at = "pub", NEW c \in Cmds, c = pc[t].cmd,
         NEW p \in Places, p.at # "pub",
         pc' = [pc EXCEPT ![t] = p], hist'.given = hist.given,
         \/ /\ sent' = [sent EXCEPT ![c] = @ + 1]
            /\ UNCHANGED queue
         \/ /\ queue' = Append(queue, c)
            /\ UNCHANGED sent
  PROVE  \A d \in Cmds : Placed(d)'
<1>1. t \in InHand(c)
  BY DEF InHand
<1>2. c \in hist.given /\ Handled(c, t)
  BY <1>1 DEF PlaceInv, Placed, Nowhere, Published, Queuing, Handled
<1>3. queue \in Seq(Cmds) /\ sent \in [Cmds -> Nat]
  BY DEF PlaceInv, TypeInv, TypeOK
<1>4. \A d : InHand(d)' = InHand(d) \ {t}
  BY HandStep DEF PlaceInv
<1>5. \A d \in Cmds \ {c} : t \notin InHand(d) /\ InHand(d)' = InHand(d)
  <2> TAKE d \in Cmds \ {c}
  <2>1. t \notin InHand(d)
    BY DEF InHand
  <2> QED
    BY <1>4, <2>1
<1>6. \A d \in Cmds : Waiting(d) = At(queue, d) /\ Waiting(d)' = At(queue', d)
  BY DEF Waiting, At
<1>7. InHand(c)' = {} /\ sent[c] = 0 /\ Waiting(c) = {}
  BY <1>2, <1>4 DEF Handled
<1>8. CASE sent' = [sent EXCEPT ![c] = @ + 1] /\ UNCHANGED queue
  <2>1. Placed(c)'
    <3>1. sent'[c] = 1 /\ Waiting(c)' = {}
      BY <1>1, <1>3, <1>6, <1>7, <1>8
    <3> QED
      BY <1>2, <1>7, <3>1 DEF Placed, Published
  <2>2. ASSUME NEW d \in Cmds \ {c} PROVE Placed(d)'
    <3>1. sent'[d] = sent[d] /\ Waiting(d)' = Waiting(d) /\ InHand(d)' = InHand(d)
      BY <1>3, <1>4, <1>5, <1>6, <1>8
    <3> QED
      BY <3>1 DEF PlaceInv, Placed, Nowhere, Published, Queuing, Handled
  <2> QED
    BY <2>1, <2>2
<1>9. CASE queue' = Append(queue, c) /\ UNCHANGED sent
  <2>1. Placed(c)'
    <3>1. Waiting(c)' = {Len(queue) + 1} /\ Len(queue) + 1 \in Nat
      BY <1>1, <1>3, <1>6, <1>7, <1>9, AppendedAt
    <3> QED
      BY <1>2, <1>7, <1>9, <3>1 DEF Placed, Queuing
  <2>2. ASSUME NEW d \in Cmds \ {c} PROVE Placed(d)'
    <3>1. sent'[d] = sent[d] /\ InHand(d)' = InHand(d)
      BY <1>4, <1>5, <1>9
    <3>2. Waiting(d)' = Waiting(d)
      BY <1>1, <1>3, <1>6, <1>9, AppendedAt
    <3> QED
      BY <3>1, <3>2 DEF PlaceInv, Placed, Nowhere, Published, Queuing, Handled
  <2> QED
    BY <2>1, <2>2
<1> QED
  BY <1>8, <1>9

LEMMA ThreadPlace ==
  ASSUME PlaceInv, NEW t \in Threads, Step(t) \/ (\E c \in Cmds : Issue(t, c))
  PROVE  \A c \in Cmds : Placed(c)'
<1>0. /\ TypeInv /\ queue \in Seq(Cmds)
      /\ Idle \in Places /\ Idle.at = "idle" /\ Returned(t) \in Places
      /\ Returned(t).at \in {"idle", "flush"}
  BY PlacesType DEF PlaceInv, TypeInv, TypeOK, Idle, Returned
<1>a. \A d \in Cmds : Waiting(d) = At(queue, d) /\ Waiting(d)' = At(queue', d)
  BY DEF Waiting, At
<1>b. \A p : Noted(t, p).given = hist.given
  BY <1>0, NotedGiven
<1>1. ASSUME NEW u \in Threads, Crash(u) PROVE \A c \in Cmds : Placed(c)'
  BY <1>1, PlaceSame DEF Crash
<1>2. ASSUME NEW c \in Cmds, Issue(t, c) PROVE \A d \in Cmds : Placed(d)'
  <2>1. Nowhere(c)
    BY <1>2 DEF Issue, PlaceInv, Placed
  <2>2. \A d \in Cmds : Waiting(d)' = Waiting(d)
    BY <1>2 DEF Issue, Waiting
  <2>3. pc[t].at # "pub"
    BY <1>0, <1>2 DEF Issue, Free
  <2>4. Waiting(c)' = {} /\ InHand(c) = {} /\ sent[c] = 0
    BY <2>1, <2>2 DEF Nowhere
  <2> QED
    BY <1>2, <2>2, <2>3, <2>4, EnterPubPlace DEF Issue
<1>3. CASE t = "main" /\ Resub
  <2>1. CASE conn = "none"
    BY <1>1, <1>3, <2>1 DEF Resub
  <2>2. CASE conn # "none"
    <3> DEFINE p == [at |-> "sub", topic |-> curr]
    <3>1. p \in Places
      BY <1>0, <2>2, PlacesType, TypeFacts DEF TypeInv
    <3>2. GoTo(t, p) /\ UNCHANGED <<queue, sent>> /\ pc[t].at = "resub"
      BY <1>3, <2>2 DEF Resub
    <3>3. hist'.given = hist.given /\ pc' = [pc EXCEPT ![t] = p]
      BY <1>b, <3>2 DEF GoTo
    <3> QED
      BY <3>1, <3>2, <3>3, PlaceSame
  <2> QED
    BY <2>1, <2>2
<1>4. CASE Subscribe(t)
  <2>1. CASE conn = "none"
    BY <1>1, <1>4, <2>1 DEF Subscribe
  <2>2. CASE conn # "none"
    <3>1. Noted(t, Idle) \in History
      BY <1>0, NotedType, TypeFacts
    <3>2. hist'.given = hist.given
      BY <1>4, <1>b, <2>2, <3>1 DEF Subscribe, History
    <3> QED
      BY <1>0, <1>4, <2>2, <3>2, PlaceSame DEF Subscribe
  <2> QED
    BY <2>1, <2>2
<1>5. CASE Publish(t)
  <2>1. CASE conn = "none"
    BY <1>1, <1>5, <2>1 DEF Publish
  <2>2. CASE conn # "none"
    <3>1. PICK c \in Cmds : c = pc[t].cmd
      BY <1>0, <1>5, CarriedType DEF Publish
    <3>2. /\ pc' = [pc EXCEPT ![t] = Returned(t)] /\ hist'.given = hist.given
          /\ sent' = [sent EXCEPT ![c] = @ + 1] /\ UNCHANGED queue /\ pc[t].at = "pub"
      BY <1>5, <1>b, <2>2, <3>1 DEF Publish, GoTo
    <3> QED
      BY <1>0, <3>1, <3>2, LeavePubPlace
  <2> QED
    BY <2>1, <2>2
<1>6. CASE Enqueue(t)
  <2>1. Noted(t, Returned(t)) \in History
    BY <1>0, NotedType, TypeFacts
  <2>2. hist'.given = hist.given
    BY <1>6, <1>b, <2>1 DEF Enqueue, History
  <2>3. PICK c \in Cmds : c = pc[t].cmd
    BY <1>0, <1>6, CarriedType DEF Enqueue
  <2>4. /\ pc' = [pc EXCEPT ![t] = Returned(t)] /\ pc[t].at = "pub"
        /\ queue' = Append(queue, c) /\ UNCHANGED sent
    BY <1>6, <2>3 DEF Enqueue, Queued
  <2> QED
    BY <1>0, <2>2, <2>3, <2>4, LeavePubPlace
<1>7. CASE t = "mqtt" /\ Flush
  <2>1. CASE queue = <<>>
    BY <1>0, <1>7, <1>b, <2>1, PlaceSame DEF Flush, GoTo
  <2>2. CASE queue # <<>>
    <3>0. PICK c \in Cmds : c = Head(queue)
      BY <1>0, <2>2
    <3>1. /\ EnterPub(t, c) /\ queue' = Tail(queue) /\ UNCHANGED sent
          /\ pc[t].at = "flush"
      BY <1>0, <1>7, <2>2, <3>0 DEF Flush
    <3>2. \E i \in Nat : Waiting(c) = {i}
      <4>1. Waiting(c) # {}
        BY <1>0, <1>a, <2>2, <3>0, TailAt
      <4> QED
        BY <3>1, <4>1 DEF PlaceInv, Placed, Nowhere, Published, Queuing, Handled
    <3>3. InHand(c) = {} /\ sent[c] = 0
      <4>1. \A i : {i} # {}
        OBVIOUS
      <4> QED
        BY <3>1, <3>2, <4>1 DEF PlaceInv, Placed, Nowhere, Published, Queuing, Handled
    <3>4. Waiting(c)' = {}
      BY <1>0, <1>a, <2>2, <3>0, <3>1, <3>2, TailAt
    <3>5. ASSUME NEW d \in Cmds \ {c}
          PROVE  \/ Waiting(d)' = Waiting(d)
                 \/ \E i, j \in Nat : Waiting(d) = {i} /\ Waiting(d)' = {j}
      <4>1. CASE Waiting(d) = {}
        BY <1>0, <1>a, <2>2, <3>0, <3>1, <4>1, TailAt
      <4>2. ASSUME NEW i \in Nat, Waiting(d) = {i}
            PROVE  \E j \in Nat : Waiting(d)' = {j}
        <5>1. Waiting(d)' = {i - 1}
          BY <1>0, <1>a, <2>2, <3>0, <3>1, <4>2, TailAt
        <5>2. i \in 1..Len(queue) /\ Len(queue) \in Nat
          <6>1. i \in DOMAIN queue
            BY <4>2 DEF Waiting
          <6> QED
            BY <1>0, <6>1
        <5> QED
          BY <5>1, <5>2
      <4> QED
        BY <4>1, <4>2 DEF PlaceInv, Placed, Nowhere, Published, Queuing, Handled
    <3> QED
      BY <3>1, <3>3, <3>4, <3>5, EnterPubPlace
  <2> QED
    BY <2>1, <2>2
<1> QED
  BY <1>2, <1>3, <1>4, <1>5, <1>6, <1>7 DEF Step

LEMMA OtherPlace ==
  ASSUME PlaceInv,
         \/ (\E d \in Devices : IntoDevice(d)) \/ SignedIn \/ TimerFires \/ Pulled
         \/ ConnUp \/ ConnFailed \/ Disconnected
         \/ SubAcked \/ SubFailed \/ PubCompleted
  PROVE  \A c \in Cmds : Placed(c)'
<1>0. /\ "mqtt" \in Threads /\ "main" \in Threads /\ TypeInv /\ hist \in History
      /\ Idle.at = "idle"
  BY TypeFacts DEF Threads, PlaceInv, Idle
<1>1. ASSUME NEW d \in Devices, IntoDevice(d) PROVE \A c \in Cmds : Placed(c)'
  <2>1. hist'.given = hist.given
    BY <1>0, <1>1 DEF IntoDevice, History
  <2>2. \E p \in {Idle, [at |-> "resub"]} : pc' = [pc EXCEPT !["main"] = p]
    BY <1>1 DEF IntoDevice
  <2>3. \A p \in {Idle, [at |-> "resub"]} : p \in Places /\ p.at # "pub"
    BY DEF Idle, Places
  <2>4. pc["main"].at # "pub"
    BY <1>0, <1>1 DEF IntoDevice, Free
  <2> QED
    BY <1>0, <1>1, <2>1, <2>2, <2>3, <2>4, PlaceSame DEF IntoDevice
<1>2. CASE SignedIn \/ TimerFires \/ Pulled \/ SubFailed \/ PubCompleted
  BY <1>2, PlaceSame DEF SignedIn, TimerFires, Pulled, SubFailed, PubCompleted
<1>3. CASE ConnFailed \/ Disconnected
  <2>1. hist'.given = hist.given
    BY <1>0, <1>3 DEF ConnFailed, Disconnected, Restart, History
  <2> QED
    BY <1>3, <2>1, PlaceSame DEF ConnFailed, Disconnected, Restart
<1>4. CASE SubAcked
  <2>1. AfterSuback \in Places /\ AfterSuback.at # "pub"
    BY DEF AfterSuback, Places
  <2>2. hist'.given = hist.given
    BY <1>0, <1>4, NotedGiven DEF SubAcked, GoTo
  <2>3. pc["mqtt"].at # "pub"
    BY <1>0, <1>4 DEF SubAcked, Free
  <2> QED
    BY <1>0, <1>4, <2>1, <2>2, <2>3, PlaceSame DEF SubAcked, GoTo
<1>5. CASE ConnUp
  <2> DEFINE p == [at |-> "sub", topic |-> curr]
  <2>1. p \in Places
    BY <1>0, <1>5, PlacesType, TypeFacts DEF ConnUp, TypeInv
  <2>2. Noted("mqtt", p) \in History /\ Noted("mqtt", p).given = hist.given
    BY <1>0, <2>1, NotedType, NotedGiven
  <2>3. hist'.given = hist.given
    BY <1>5, <2>2 DEF ConnUp, History
  <2>4. pc["mqtt"].at # "pub"
    BY <1>0, <1>5 DEF ConnUp, Free
  <2> QED
    BY <1>0, <1>5, <2>1, <2>3, <2>4, PlaceSame DEF ConnUp
<1> QED
  BY <1>1, <1>2, <1>3, <1>4, <1>5

(* One place is one place when counted.                                    *)
LEMMA PlacedIsOne ==
  ASSUME NEW c \in Cmds, c \in hist.given, Placed(c)
  PROVE  sent[c] + Cardinality(Waiting(c)) + Cardinality(InHand(c)) = 1
<1>1. Cardinality({}) = 0 /\ \A x : Cardinality({x}) = 1
  BY FS_EmptySet, FS_Singleton
<1>2. CASE Published(c)
  BY <1>1, <1>2 DEF Published
<1>3. CASE Queuing(c)
  <2>1. Cardinality(Waiting(c)) = 1 /\ Cardinality(InHand(c)) = 0 /\ sent[c] = 0
    BY <1>1, <1>3 DEF Queuing
  <2> QED
    BY <2>1
<1>4. ASSUME NEW t \in Threads, Handled(c, t)
      PROVE  sent[c] + Cardinality(Waiting(c)) + Cardinality(InHand(c)) = 1
  <2>1. Cardinality(Waiting(c)) = 0 /\ Cardinality(InHand(c)) = 1 /\ sent[c] = 0
    BY <1>1, <1>4 DEF Handled
  <2> QED
    BY <2>1
<1> QED
  BY <1>2, <1>3, <1>4 DEF Placed

(***************************************************************************)
(* No command is lost or published twice: with any number of devices and   *)
(* commands, and however the threads, the callbacks and the restarts of    *)
(* the connection interleave, a command that was given to pub() waits in   *)
(* the queue once, or is in the hand of one thread, or has been published  *)
(* once.                                                                   *)
(***************************************************************************)
THEOREM CommandsAreInOnePlace == Spec => []OnePlace
<1>1. Init => PlaceInv
  <2> SUFFICES ASSUME Init PROVE \A c \in Cmds : Placed(c)
    BY InitType DEF PlaceInv
  <2> QED
    BY DEF Init, Placed, Nowhere, Waiting, InHand, Idle
<1>2. PlaceInv /\ [Next]_vars => PlaceInv'
  <2> SUFFICES ASSUME PlaceInv, [Next]_vars PROVE \A c \in Cmds : Placed(c)'
    BY TypeStep DEF PlaceInv
  <2>1. CASE UNCHANGED vars
    BY <2>1, PlaceSame DEF vars
  <2>2. CASE Next
    BY <2>2, ThreadPlace, OtherPlace DEF Next, Threads
  <2> QED
    BY <2>1, <2>2
<1>3. PlaceInv => OnePlace
  <2> SUFFICES ASSUME PlaceInv, NEW c \in hist.given
               PROVE  sent[c] + Cardinality(Waiting(c)) + Cardinality(InHand(c)) = 1
    BY DEF OnePlace
  <2>1. c \in Cmds
    BY TypeFacts DEF PlaceInv, History
  <2> QED
    BY <2>1, PlacedIsOne DEF PlaceInv
<1> QED
  BY <1>1, <1>2, <1>3, PTL DEF Spec

-----------------------------------------------------------------------------
(***************************************************************************)
(* What is left when a connection is up and nothing is under way.  What    *)
(* LinkComesBack and QueuedIsSent promise in the end has then been done.   *)
(***************************************************************************)

(* The flag is set, or what sets it is to come.                            *)
Flagged == subscribed \/ acks > 0 \/ pc["mqtt"].at = "sub"

(* The topic is subscribed to, or a thread is about to do so.              *)
Kept ==
  \/ subtopic \in asked
  \/ \E t \in Threads : pc[t].at = "sub" /\ pc[t].topic = subtopic

(* The queue has nothing but late commands, or its turn is to come.        *)
Turned ==
  \/ acks > 0 \/ pc["mqtt"] # Idle
  \/ \A c \in Cmds : Waiting(c) # {} => c \in hist.late

UpInv == conn = "up" => Flagged /\ Kept /\ Turned

ReadyInv == TypeInv /\ UpInv

(***************************************************************************)
(* A connection that is up, whose subscriptions are answered and which no  *)
(* thread is subscribing, is subscribed to the topic that is kept, and     *)
(* pub() may use it (awsIot.cpp, onSub).                                   *)
(***************************************************************************)
ReadyWhenQuiet == conn = "up" /\ acks = 0 /\ Subscribing = {} => Linked

(***************************************************************************)
(* Once the subscriptions of a connection are answered and the callback    *)
(* has ended, no command waits but those that were queued after the link   *)
(* had become ready (awsIot.cpp, processPendingCmds).                      *)
(***************************************************************************)
WorkedOff ==
  conn = "up" /\ acks = 0 /\ pc["mqtt"] = Idle =>
    \A c \in Cmds : Waiting(c) # {} => c \in hist.late

(* Steps that leave the link and the queue as they are.                    *)
LEMMA UpSame ==
  ASSUME ReadyInv, conn' = "up" => conn = "up",
         UNCHANGED <<subscribed, subtopic, asked, acks, queue>>,
         hist'.late = hist.late,
         \A t \in Threads : pc[t].at = "sub" => pc'[t] = pc[t],
         pc["mqtt"] # Idle => pc'["mqtt"] # Idle
  PROVE  UpInv'
BY DEF ReadyInv, UpInv, Flagged, Kept, Turned, Waiting, Threads

LEMMA NotedLate ==
  ASSUME TypeInv, NEW t \in Threads, NEW p
  PROVE  Noted(t, p).late = hist.late
BY TypeFacts DEF Noted, History

(* connIot() brings no connection up.                                      *)
LEMMA DialsUp ==
  ASSUME NEW d, NEW due, ConnIot(d, due), conn' = "up"
  PROVE  conn = "up"
BY DEF ConnIot, Dials

LEMMA DisconnUp == TypeInv /\ DisconnIot => conn' # "up"
BY TypeFacts DEF DisconnIot

LEMMA ThreadUp ==
  ASSUME ReadyInv, NEW t \in Threads,
         Step(t) \/ (t # "mqtt" /\ \E c \in Cmds : Issue(t, c))
  PROVE  UpInv'
<1>0. TypeInv /\ pc \in [Threads -> Places] /\ hist \in History /\ "mqtt" \in Threads
  BY TypeFacts DEF ReadyInv, Threads
<1>a. Idle.at = "idle" /\ (Returned(t).at \in {"idle", "flush"})
  BY DEF Idle, Returned
<1>1. ASSUME NEW u \in Threads, Crash(u) PROVE UpInv'
  BY <1>1, UpSame DEF Crash, member, net
<1>2. ASSUME NEW c \in Cmds, Issue(t, c), t # "mqtt" PROVE UpInv'
  <2> DEFINE p == [at |-> "pub", cmd |-> c, ready |-> conn # "none" /\ subscribed]
  <2>1. pc' = [pc EXCEPT ![t] = p] /\ pc[t] = Idle
        /\ hist' = [Noted(t, p) EXCEPT !.given = @ \cup {c}]
    BY <1>2 DEF Issue, EnterPub, Free
  <2>2. hist'.late = hist.late
    BY <1>0, <2>1, TypeFacts DEF Noted, History
  <2> HIDE DEF p
  <2>3. \A u \in Threads : pc[u].at = "sub" => pc'[u] = pc[u]
    BY <1>0, <1>a, <2>1
  <2>4. pc'["mqtt"] = pc["mqtt"]
    BY <1>0, <1>2, <2>1
  <2> QED
    BY <1>2, <2>2, <2>3, <2>4, UpSame DEF Issue, member, net
<1>3. CASE t = "main" /\ Resub
  <2>1. CASE conn = "none"
    BY <1>1, <1>3, <2>1 DEF Resub
  <2>2. CASE conn # "none"
    <3> DEFINE p == [at |-> "sub", topic |-> curr]
    <3>1. /\ pc' = [pc EXCEPT ![t] = p] /\ hist' = Noted(t, p) /\ subtopic' = curr
          /\ UNCHANGED <<conn, subscribed, acks, queue>>
      BY <1>3, <2>2 DEF Resub, GoTo
    <3>2. hist'.late = hist.late /\ pc'["mqtt"] = pc["mqtt"]
      BY <1>0, <1>3, <3>1, NotedLate
    <3>3. pc'[t].at = "sub" /\ pc'[t].topic = subtopic'
      BY <1>0, <3>1
    <3>4. Kept'
      BY <3>3 DEF Kept
    <3> QED
      BY <3>1, <3>2, <3>4 DEF ReadyInv, UpInv, Flagged, Turned, Waiting
  <2> QED
    BY <2>1, <2>2
<1>4. CASE Subscribe(t)
  <2>1. CASE conn = "none"
    BY <1>1, <1>4, <2>1 DEF Subscribe
  <2>2. CASE conn # "none" /\ ~DisconnIot
    <3>1. /\ pc' = [pc EXCEPT ![t] = Idle] /\ asked' = asked \cup {pc[t].topic}
          /\ acks' = acks + 1 /\ UNCHANGED <<subtopic, conn>>
      BY <1>4, <2>2 DEF Subscribe, member
    <3>2. acks' > 0
      BY <3>1 DEF ReadyInv, TypeInv, TypeOK
    <3>3. Kept => Kept'
      BY <1>0, <3>1 DEF Kept
    <3> QED
      BY <3>1, <3>2, <3>3 DEF ReadyInv, UpInv, Flagged, Turned
  <2>3. CASE DisconnIot
    BY <1>0, <2>3, DisconnUp DEF UpInv
  <2> QED
    BY <2>1, <2>2, <2>3
<1>5. CASE Publish(t)
  <2>1. CASE conn = "none"
    BY <1>1, <1>5, <2>1 DEF Publish
  <2>2. CASE conn # "none"
    <3>1. /\ pc' = [pc EXCEPT ![t] = Returned(t)] /\ hist' = Noted(t, Returned(t))
          /\ pc[t].at = "pub"
          /\ UNCHANGED <<conn, subscribed, subtopic, asked, acks, queue>>
      BY <1>5, <2>2 DEF Publish, GoTo, member
    <3>2. hist'.late = hist.late
      BY <1>0, <3>1, NotedLate
    <3>3. \A u \in Threads : pc[u].at = "sub" => pc'[u] = pc[u]
      BY <1>0, <3>1
    <3>4. pc["mqtt"] # Idle => pc'["mqtt"] # Idle
      BY <1>0, <3>1 DEF Returned, Idle
    <3> QED
      BY <3>1, <3>2, <3>3, <3>4, UpSame
  <2> QED
    BY <2>1, <2>2
<1>6. CASE Enqueue(t)
  <2> DEFINE c == pc[t].cmd
  <2>1. /\ pc' = [pc EXCEPT ![t] = Returned(t)] /\ pc[t].at = "pub"
        /\ queue' = Append(queue, c) /\ ConnIot(curr, timer)
        /\ hist' = [Noted(t, Returned(t)) EXCEPT
             !.late = IF subscribed /\ conn # "none" THEN @ \cup {c} ELSE @ \ {c}]
        /\ UNCHANGED <<subscribed, subtopic, asked, acks>>
    BY <1>6 DEF Enqueue, Queued, member, net
  <2> SUFFICES ASSUME conn' = "up" PROVE Flagged' /\ Kept' /\ Turned'
    BY DEF UpInv
  <2>2. conn = "up" /\ Flagged /\ Kept /\ Turned
    BY <2>1, DialsUp DEF ReadyInv, UpInv
  <2>3. \A u \in Threads : pc[u].at = "sub" => pc'[u] = pc[u]
    BY <1>0, <2>1
  <2>4. Flagged' /\ Kept'
    BY <1>0, <2>1, <2>2, <2>3 DEF Flagged, Kept
  <2>5. Turned'
    <3>1. CASE t = "mqtt"
      BY <1>0, <2>1, <3>1 DEF Turned, Returned, Idle
    <3>2. CASE t # "mqtt" /\ ~subscribed
      <4>1. acks > 0 \/ pc["mqtt"].at = "sub"
        BY <2>2, <3>2 DEF Flagged
      <4> QED
        BY <1>0, <1>a, <2>1, <2>3, <4>1 DEF Turned
    <3>3. CASE t # "mqtt" /\ subscribed
      <4>1. hist'.late = hist.late \cup {c}
        BY <1>0, <2>1, <2>2, <3>3 DEF Noted, History
      <4>2. pc'["mqtt"] = pc["mqtt"] /\ acks' = acks
        BY <1>0, <2>1, <3>3
      <4>3. queue \in Seq(Cmds) /\ c \in Cmds
        <5>1. pc[t] \in Places
          BY <1>0
        <5> QED
          BY <1>0, <2>1, <5>1 DEF TypeInv, TypeOK, Places
      <4> HIDE DEF c
      <4>4. \A d \in Cmds : Waiting(d)' # {} => d = c \/ Waiting(d) # {}
        BY <2>1, <4>3 DEF Waiting
      <4> QED
        BY <2>2, <4>1, <4>2, <4>4 DEF Turned
    <3> QED
      BY <3>1, <3>2, <3>3
  <2> QED
    BY <2>4, <2>5
<1>7. CASE t = "mqtt" /\ Flush
  <2>1. /\ pc[t].at = "flush" /\ UNCHANGED <<conn, subscribed, subtopic, asked, acks>>
    BY <1>7 DEF Flush, member, net
  <2>2. PICK p : pc' = [pc EXCEPT ![t] = p] /\ (queue = <<>> \/ p # Idle)
        /\ (queue = <<>> => queue' = <<>>)
    BY <1>7 DEF Flush, GoTo, EnterPub, Idle
  <2>3. \A u \in Threads : pc[u].at = "sub" => pc'[u] = pc[u]
    BY <1>0, <2>1, <2>2
  <2>4. (Flagged => Flagged') /\ (Kept => Kept')
    BY <1>0, <2>1, <2>3 DEF Flagged, Kept
  <2>5. Turned'
    <3>1. CASE queue = <<>>
      BY <2>2, <3>1 DEF Turned, Waiting
    <3>2. CASE queue # <<>>
      BY <1>0, <1>7, <2>2, <3>2 DEF Turned
    <3> QED
      BY <3>1, <3>2
  <2> QED
    BY <2>1, <2>4, <2>5 DEF ReadyInv, UpInv
<1> QED
  BY <1>2, <1>3, <1>4, <1>5, <1>6, <1>7 DEF Step

LEMMA OtherUp ==
  ASSUME ReadyInv,
         \/ (\E d \in Devices : IntoDevice(d)) \/ SignedIn \/ TimerFires \/ Pulled
         \/ ConnUp \/ ConnFailed \/ Disconnected
         \/ SubAcked \/ SubFailed \/ PubCompleted
  PROVE  UpInv'
<1>0. /\ TypeInv /\ pc \in [Threads -> Places] /\ hist \in History
      /\ "mqtt" \in Threads /\ "main" \in Threads /\ Idle.at = "idle"
  BY TypeFacts DEF ReadyInv, Threads, Idle
<1>1. ASSUME NEW d \in Devices, IntoDevice(d) PROVE UpInv'
  <2>1. hist'.late = hist.late
    BY <1>0, <1>1 DEF IntoDevice, History
  <2>2. /\ pc["main"] = Idle /\ UNCHANGED <<subscribed, subtopic, queue, net>>
        /\ \E p : pc' = [pc EXCEPT !["main"] = p]
    BY <1>1 DEF IntoDevice, Free
  <2>3. \A u \in Threads : pc[u].at = "sub" => pc'[u] = pc[u]
    BY <1>0, <2>2
  <2>4. pc'["mqtt"] = pc["mqtt"]
    BY <1>0, <2>2
  <2>5. conn' = "up" => conn = "up"
    BY <1>1, DialsUp DEF IntoDevice
  <2> QED
    BY <2>1, <2>2, <2>3, <2>4, <2>5, UpSame DEF net
<1>2. CASE SignedIn \/ TimerFires \/ Pulled
  <2>1. conn' = "up" => conn = "up"
    BY <1>2, DialsUp DEF SignedIn, TimerFires, Pulled
  <2> QED
    BY <1>2, <2>1, UpSame DEF SignedIn, TimerFires, Pulled, member, net
<1>3. CASE ConnFailed \/ Disconnected
  BY <1>3 DEF ConnFailed, Disconnected, Restart, LetGoOf, UpInv
<1>4. CASE SubFailed
  BY <1>0, <1>4, DisconnUp DEF SubFailed, UpInv
<1>5. CASE PubCompleted
  <2>1. CASE DisconnIot
    BY <1>0, <2>1, DisconnUp DEF UpInv
  <2>2. CASE ~DisconnIot
    BY <1>5, <2>2, UpSame DEF PubCompleted, member
  <2> QED
    BY <2>1, <2>2
<1>6. CASE SubAcked
  <2>1. /\ pc' = [pc EXCEPT !["mqtt"] = AfterSuback] /\ pc["mqtt"] = Idle
        /\ subscribed' /\ UNCHANGED <<conn, subtopic, asked>>
    BY <1>6 DEF SubAcked, GoTo, Free, Confirmed, member
  <2>2. \A u \in Threads : pc[u].at = "sub" => pc'[u] = pc[u]
    BY <1>0, <2>1
  <2>3. Kept => Kept'
    BY <2>1, <2>2 DEF Kept
  <2>4. pc'["mqtt"] # Idle
    BY <1>0, <2>1 DEF AfterSuback, Idle
  <2> QED
    BY <2>1, <2>3, <2>4 DEF ReadyInv, UpInv, Flagged, Turned
<1>7. CASE ConnUp
  <2>1. /\ pc' = [pc EXCEPT !["mqtt"] = [at |-> "sub", topic |-> curr]]
        /\ subtopic' = curr
    BY <1>7 DEF ConnUp
  <2>2. pc'["mqtt"] = [at |-> "sub", topic |-> curr]
    BY <1>0, <2>1
  <2> QED
    BY <1>0, <2>1, <2>2 DEF UpInv, Flagged, Kept, Turned, Idle
<1> QED
  BY <1>1, <1>2, <1>3, <1>4, <1>5, <1>6, <1>7

LEMMA ReadyInvariance == Spec => []ReadyInv
<1>1. Init => ReadyInv
  BY InitType DEF Init, ReadyInv, UpInv
<1>2. ReadyInv /\ [Next]_vars => ReadyInv'
  <2> SUFFICES ASSUME ReadyInv, [Next]_vars PROVE UpInv'
    BY TypeStep DEF ReadyInv
  <2>1. CASE UNCHANGED vars
    BY <2>1, UpSame DEF vars
  <2>2. CASE Next
    BY <2>2, ThreadUp, OtherUp DEF Next, Threads
  <2> QED
    BY <2>1, <2>2
<1> QED
  BY <1>1, <1>2, PTL DEF Spec

(***************************************************************************)
(* However devices, threads and connections change, a connection that is   *)
(* up and has its answers is subscribed to the topic that is kept, and     *)
(* commands are published on it (awsIot.cpp, onSub, resub).                *)
(***************************************************************************)
THEOREM LinkIsSubscribed == Spec => []ReadyWhenQuiet
<1>1. ReadyInv => ReadyWhenQuiet
  <2> SUFFICES ASSUME ReadyInv, conn = "up", acks = 0, Subscribing = {} PROVE Linked
    BY DEF ReadyWhenQuiet
  <2>1. \A t \in Threads : pc[t].at # "sub"
    BY DEF Subscribing
  <2>2. Flagged /\ Kept /\ "mqtt" \in Threads
    BY DEF ReadyInv, UpInv, Threads
  <2> QED
    BY <2>1, <2>2 DEF Flagged, Kept, Linked
<1> QED
  BY <1>1, ReadyInvariance, PTL

(***************************************************************************)
(* On a connection that is up, with no subscription to be answered and the *)
(* callback at its end, every command that waits was queued after its      *)
(* thread had looked at a link that was not ready and the link had become  *)
(* so: nothing else is left behind, whatever the other threads append, put *)
(* back or clear in between.  Of those commands, and of a queue without a  *)
(* connection or with a dead one, it says nothing (awsIot.cpp, pub and     *)
(* processPendingCmds).                                                    *)
(***************************************************************************)
THEOREM QueueIsWorkedOff == Spec => []WorkedOff
<1>1. ReadyInv => WorkedOff
  BY DEF ReadyInv, UpInv, Turned, WorkedOff
<1> QED
  BY <1>1, ReadyInvariance, PTL
=============================================================================
