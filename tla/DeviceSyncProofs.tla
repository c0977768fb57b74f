-------------------------- MODULE DeviceSyncProofs --------------------------
(***************************************************************************)
(* Proofs about DeviceSync, for any devices and bounds: the types, that    *)
(* what is pending is posted, and that what is settled is in the cloud and *)
(* what is removed is gone from it.                                        *)
(***************************************************************************)
EXTENDS DeviceSync, TLAPS

-----------------------------------------------------------------------------
(* Requests *)

LEMMA RequestsOf ==
  ASSUME NEW m \in Devices, NEW st \in Stages
  PROVE  /\ [kind |-> "add", dev |-> m, st |-> st] \in Request
         /\ [kind |-> "del", dev |-> m, st |-> st] \in Request
  BY DEF Request

LEMMA Posts ==
  /\ Pulling \in Request
  /\ \A m \in Devices : Adding(m) \in Request /\ Deleting(m) \in Request
  BY DEF Request, Stages, Pulling, Adding, Deleting

LEMMA RequestParts ==
  ASSUME NEW q \in Request
  PROVE  /\ q.kind \in {"add", "del", "all"}
         /\ q.st \in Stages
         /\ q.kind = "all" => q.seen \subseteq Devices
         /\ q.kind # "all" => /\ q.dev \in Devices
                              /\ q = [kind |-> q.kind, dev |-> q.dev, st |-> q.st]
  BY DEF Request

(* The answer to a request.                                                *)
LEMMA AnswersOf ==
  ASSUME NEW q \in Request, NEW st \in Stages
  PROVE  /\ [q EXCEPT !.st = st] \in Request
         /\ [q EXCEPT !.st = st].kind = q.kind
         /\ [q EXCEPT !.st = st].st = st
         /\ q.kind # "all" => [q EXCEPT !.st = st].dev = q.dev
<1>1. CASE q.kind = "all"
  <2>1. q \in [kind : {"all"}, seen : SUBSET Devices, st : Stages]
    BY <1>1 DEF Request
  <2> QED
    BY <1>1, <2>1 DEF Request
<1>2. CASE q.kind # "all"
  <2>1. q \in [kind : {"add", "del"}, dev : Devices, st : Stages]
    BY <1>2 DEF Request
  <2> QED
    BY <1>2, <2>1 DEF Request
<1> QED
  BY <1>1, <1>2

(* Some request of this kind about m, in the form the proofs use.          *)
Some(o, kind, m) ==
  \E q \in Request : q.kind = kind /\ q.dev = m /\ o[q] > 0

LEMMA SomeIsUnderWay ==
  ASSUME NEW o, NEW m \in Devices, NEW kind \in {"add", "del"}
  PROVE  UnderWay(o, kind, m) <=> Some(o, kind, m)
<1>1. ASSUME NEW q \in Request, q.kind = kind, q.dev = m
      PROVE  q.st \in Stages /\ q = [kind |-> kind, dev |-> m, st |-> q.st]
  BY <1>1, RequestParts
<1>2. ASSUME NEW st \in Stages
      PROVE  /\ [kind |-> kind, dev |-> m, st |-> st] \in Request
             /\ [kind |-> kind, dev |-> m, st |-> st].kind = kind
             /\ [kind |-> kind, dev |-> m, st |-> st].dev = m
  BY RequestsOf
<1>3. ASSUME UnderWay(o, kind, m) PROVE Some(o, kind, m)
  BY <1>2, <1>3 DEF UnderWay, Some
<1>4. ASSUME Some(o, kind, m) PROVE UnderWay(o, kind, m)
  BY <1>1, <1>4 DEF UnderWay, Some
<1> QED
  BY <1>3, <1>4

(* Fewer requests under way race less.                                     *)
LEMMA FewerRaceLess ==
  ASSUME NEW o \in [Request -> Nat], NEW s \in [Request -> Nat],
         \A q \in Request : o[q] > 0 => s[q] > 0
  PROVE  Racing(o) \subseteq Racing(s)
<1>1. \A kind \in {"add", "del"}, m \in Devices : Some(o, kind, m) => Some(s, kind, m)
  BY DEF Some
<1>2. PullUnderWay(o) => PullUnderWay(s)
  BY DEF PullUnderWay
<1>3. \A kind \in {"add", "del"}, m \in Devices : UnderWay(o, kind, m) => UnderWay(s, kind, m)
  BY <1>1, SomeIsUnderWay
<1> QED
  BY <1>2, <1>3 DEF Racing

(* The counts that are sent.                                               *)
LEMMA OnceTyped ==
  ASSUME NEW S
  PROVE  /\ Once(S) \in [Request -> Nat]
         /\ \A q \in Request : Once(S)[q] > 0 <=> q \in S
         /\ \A q \in Request : q \notin S => Once(S)[q] = 0
  BY DEF Once

(***************************************************************************)
(* What invoke() does: nothing that is under way is lost, and what is new  *)
(* is what was to be posted; a device whose request could not be posted,   *)
(* and no other, has failed.                                               *)
(***************************************************************************)
LEMMA Invoked ==
  ASSUME NEW o \in [Request -> Nat], NEW n \in [Request -> Nat], NEW valid \in BOOLEAN,
         raced \subseteq Devices, failed \subseteq Devices, Invoke(o, n, valid)
  PROVE  /\ out' \in [Request -> Nat]
         /\ raced \subseteq raced' /\ raced' \subseteq Devices
         /\ failed' \subseteq Devices
         /\ Racing(out') \subseteq raced'
         /\ \A q \in Request : o[q] > 0 => out'[q] > 0
         /\ \A q \in Request : out'[q] > 0 => o[q] > 0 \/ n[q] > 0
         /\ \A m \in Devices : m \notin failed' /\ n[Adding(m)] > 0 => out'[Adding(m)] > 0
         /\ \A m \in Devices : m \notin failed' /\ n[Deleting(m)] > 0 => out'[Deleting(m)] > 0
         /\ \A m \in Devices : n[Adding(m)] = 0 /\ n[Deleting(m)] = 0 =>
                               (m \in failed' <=> m \in failed)
<1> DEFINE about == {m \in Devices : n[Adding(m)] + n[Deleting(m)] > 0}
<1>1. \A q \in Request : o[q] \in Nat /\ n[q] \in Nat
  OBVIOUS
<1>2. \A m \in Devices : n[Adding(m)] \in Nat /\ n[Deleting(m)] \in Nat
  BY <1>1, Posts
<1>3. \A m \in Devices : /\ n[Adding(m)] > 0 => m \in about
                         /\ n[Deleting(m)] > 0 => m \in about
                         /\ n[Adding(m)] = 0 /\ n[Deleting(m)] = 0 => m \notin about
  <2> SUFFICES ASSUME NEW m \in Devices
             PROVE  /\ n[Adding(m)] > 0 => m \in about
                    /\ n[Deleting(m)] > 0 => m \in about
                    /\ n[Adding(m)] = 0 /\ n[Deleting(m)] = 0 => m \notin about
    OBVIOUS
  <2>1. n[Adding(m)] \in Nat /\ n[Deleting(m)] \in Nat
    BY <1>2
  <2>2. m \in about <=> n[Adding(m)] + n[Deleting(m)] > 0
    OBVIOUS
  <2> HIDE DEF about
  <2> QED
    BY <2>1, <2>2
<1>4. Racing(out') \subseteq Devices
  BY DEF Racing
<1>5. raced' = raced \cup Racing(out')
  BY DEF Invoke
<1>6. failed' = IF valid THEN failed \ about ELSE failed \cup about
  BY DEF Invoke
<1>7. out' = IF valid THEN [q \in Request |-> o[q] + n[q]] ELSE o
  BY DEF Invoke
<1> HIDE DEF about
<1>8. about \subseteq Devices
  BY DEF about
<1>9. CASE valid
  <2>1. out' \in [Request -> Nat] /\ \A q \in Request : out'[q] = o[q] + n[q]
    BY <1>1, <1>7, <1>9
  <2>2. \A m \in Devices : /\ out'[Adding(m)] = o[Adding(m)] + n[Adding(m)]
                           /\ out'[Deleting(m)] = o[Deleting(m)] + n[Deleting(m)]
                           /\ o[Adding(m)] \in Nat /\ o[Deleting(m)] \in Nat
    BY <2>1, <1>1, Posts
  <2> QED
    BY <1>1, <1>2, <1>3, <1>4, <1>5, <1>6, <1>8, <1>9, <2>1, <2>2
<1>10. CASE ~valid
  BY <1>1, <1>2, <1>3, <1>4, <1>5, <1>6, <1>7, <1>8, <1>10
<1> QED
  BY <1>9, <1>10

-----------------------------------------------------------------------------
(* Types *)

LEMMA RowsTyped ==
  /\ \A ip \in BOOLEAN, p \in {"none", "add", "del"} :
       [ip |-> ip, pending |-> p] \in Row /\ [ip |-> ip, pending |-> p] # None
  /\ \A r \in Row : /\ r # None
                   /\ \A p \in {"none", "add", "del"} :
                        /\ [r EXCEPT !.pending = p] \in Row
                        /\ [r EXCEPT !.pending = p].pending = p
                   /\ \A ip \in BOOLEAN :
                        /\ [r EXCEPT !.ip = ip] \in Row
                        /\ [r EXCEPT !.ip = ip].pending = r.pending
<1>1. \A ip \in BOOLEAN, p \in {"none", "add", "del"} :
       [ip |-> ip, pending |-> p] \in Row /\ [ip |-> ip, pending |-> p] # None
  BY NoneIsNoDevice DEF Row
<1>2. \A r \in Row : r = [ip |-> r.ip, pending |-> r.pending]
                    /\ r.ip \in BOOLEAN /\ r.pending \in {"none", "add", "del"}
  BY DEF Row
<1>3. \A r \in Row : r # None
  BY <1>1, <1>2
<1> QED
  BY <1>1, <1>3 DEF Row

LEMMA InitTyped == Init => TypeOK
<1> SUFFICES ASSUME Init PROVE TypeOK
  OBVIOUS
<1>1. ops \in 0..MaxOps
  BY BoundsNatural DEF Init
<1>2. row \in [Devices -> Row \cup {None}] /\ out \in [Request -> Nat]
  BY DEF Init
<1>3. cloud \subseteq Devices /\ cred \in BOOLEAN /\ pulled \in BOOLEAN
  BY DEF Init
<1>4. failed \subseteq Devices /\ raced \subseteq Devices
  BY DEF Init
<1> QED
  BY <1>1, <1>2, <1>3, <1>4 DEF TypeOK

LEMMA UserTyped == ops \in 0..MaxOps /\ User => ops' \in 0..MaxOps
  BY BoundsNatural DEF User

(* An answer that is taken, and a request that is served.                  *)
LEMMA WithoutTyped ==
  ASSUME TypeOK, NEW q \in Request, out[q] > 0
  PROVE  /\ Without(q) \in [Request -> Nat]
         /\ \A p \in Request : Without(q)[p] > 0 => out[p] > 0
         /\ \A p \in Request : p # q => Without(q)[p] = out[p]
  BY DEF TypeOK, Without

LEMMA Served ==
  ASSUME TypeOK, NEW q \in Request, NEW st \in {"ok", "error"}, NEW effect \in BOOLEAN,
         CloudTakes(q, st, effect)
  PROVE  /\ out' \in [Request -> Nat]
         /\ cloud' \subseteq Devices
         /\ raced' \subseteq Devices /\ raced \subseteq raced'
         /\ Racing(out') \subseteq raced'
         /\ q.st = "sent" /\ out[q] > 0 /\ (st = "ok" => effect)
         /\ \E a \in Request :
              /\ a.kind = q.kind /\ a.st = st /\ out'[a] > 0
              /\ q.kind # "all" => a.dev = q.dev
              /\ q.kind = "all" /\ st = "ok" => a.seen = cloud
              /\ \A p \in Request : out'[p] > 0 => out[p] > 0 \/ p = a
              /\ \A p \in Request : p # q /\ out[p] > 0 => out'[p] > 0
<1> DEFINE a == IF q.kind = "all" /\ st = "ok" THEN [q EXCEPT !.st = st, !.seen = cloud]
                                              ELSE [q EXCEPT !.st = st]
<1>1. cloud \in SUBSET Devices /\ st \in Stages
  BY DEF TypeOK, Stages
<1>2. /\ a \in Request /\ a.kind = q.kind /\ a.st = st
      /\ q.kind # "all" => a.dev = q.dev
      /\ q.kind = "all" /\ st = "ok" => a.seen = cloud
  <2>1. CASE q.kind = "all" /\ st = "ok"
    <3>1. a = [q EXCEPT !.st = st, !.seen = cloud]
      BY <2>1
    <3>2. q \in [kind : {"all"}, seen : SUBSET Devices, st : Stages]
      BY <2>1 DEF Request
    <3>3. /\ [q EXCEPT !.st = st, !.seen = cloud] \in Request
          /\ [q EXCEPT !.st = st, !.seen = cloud].kind = "all"
          /\ [q EXCEPT !.st = st, !.seen = cloud].st = st
          /\ [q EXCEPT !.st = st, !.seen = cloud].seen = cloud
      BY <1>1, <3>2 DEF Request
    <3> HIDE DEF a
    <3> QED
      BY <2>1, <3>1, <3>3
  <2>2. CASE ~(q.kind = "all" /\ st = "ok")
    <3>1. a = [q EXCEPT !.st = st]
      BY <2>2
    <3> HIDE DEF a
    <3> QED
      BY <1>1, <2>2, <3>1, AnswersOf
  <2> QED
    BY <2>1, <2>2
<1>3. out' = [out EXCEPT ![q] = @ - 1, ![a] = @ + 1]
  BY DEF CloudTakes
<1>4. q.st = "sent" /\ out[q] > 0 /\ (st = "ok" => effect)
  BY DEF CloudTakes
<1> HIDE DEF a
<1>5. a # q
  BY <1>2, <1>4
<1>6. /\ out' \in [Request -> Nat] /\ out'[a] > 0
      /\ \A p \in Request : out'[p] > 0 => out[p] > 0 \/ p = a
      /\ \A p \in Request : p # q /\ out[p] > 0 => out'[p] > 0
  BY <1>2, <1>3, <1>4, <1>5 DEF TypeOK
<1>7. cloud' \subseteq Devices
  BY RequestParts DEF CloudTakes, TypeOK
<1>8. raced' = raced \cup Racing(out')
  BY DEF CloudTakes
<1> QED
  BY <1>2, <1>4, <1>6, <1>7, <1>8 DEF TypeOK, Racing

(* What a pull posts.                                                      *)
Again(q) == {Adding(m) : m \in {d \in q.seen : Is(row, d, "add")}}
PullPosts(q) ==
  [p \in Request |-> Once(Again(q))[p] + Once(SyncLocal(PullAdd(row, q.seen)))[p]]

LEMMA PullPostsTyped ==
  ASSUME NEW q \in Request
  PROVE  /\ PullPosts(q) \in [Request -> Nat]
         /\ \A p \in Request : PullPosts(q)[p] > 0 =>
              p \in Again(q) \/ p \in SyncLocal(PullAdd(row, q.seen))
         /\ \A p \in SyncLocal(PullAdd(row, q.seen)) \cap Request : PullPosts(q)[p] > 0
         /\ \A p \in Request :
              p \notin Again(q) \cup SyncLocal(PullAdd(row, q.seen)) => PullPosts(q)[p] = 0
<1> DEFINE a == Once(Again(q))
           b == Once(SyncLocal(PullAdd(row, q.seen)))
<1>1. a \in [Request -> Nat] /\ b \in [Request -> Nat]
  BY OnceTyped
<1>2. \A p \in Request : /\ PullPosts(q)[p] = a[p] + b[p]
                         /\ a[p] \in Nat /\ b[p] \in Nat
                         /\ a[p] > 0 <=> p \in Again(q)
                         /\ b[p] > 0 <=> p \in SyncLocal(PullAdd(row, q.seen))
  BY <1>1, OnceTyped DEF PullPosts
<1>3. PullPosts(q) = [p \in Request |-> a[p] + b[p]]
  BY DEF PullPosts
<1> HIDE DEF a, b
<1> QED
  BY <1>1, <1>2, <1>3

LEMMA PullDoneIs ==
  ASSUME NEW q \in Request, PullDone(q)
  PROVE  /\ q.st = "ok" /\ pulled' = TRUE /\ row' = PullAdd(row, q.seen)
         /\ Invoke(Without(q), PullPosts(q), cred)
         /\ UNCHANGED <<cloud, cred, ops>>
  BY DEF PullDone, PullPosts, Again

LEMMA PullAddTyped ==
  ASSUME TypeOK, NEW S, S \subseteq Devices
  PROVE  /\ PullAdd(row, S) \in [Devices -> Row \cup {None}]
         /\ \A m \in Devices :
              \/ PullAdd(row, S)[m] = row[m]
              \/ m \in S /\ PullAdd(row, S)[m] = [ip |-> FALSE, pending |-> "none"]
                 /\ ~Shown(row, m)
  BY RowsTyped DEF TypeOK, PullAdd

(* The actions that post, one by one.                                      *)
LEMMA NextTyped == TypeOK /\ [Next]_vars => TypeOK'
<1> SUFFICES ASSUME TypeOK, [Next]_vars PROVE TypeOK'
  OBVIOUS
<1> USE BoundsNatural
<1>0. /\ row \in [Devices -> Row \cup {None}] /\ out \in [Request -> Nat] /\ cred \in BOOLEAN
      /\ raced \subseteq Devices /\ failed \subseteq Devices
  BY DEF TypeOK
<1>1. ASSUME NEW m \in Devices, Add(m) PROVE TypeOK'
  <2>1. row' \in [Devices -> Row \cup {None}]
    BY <1>0, <1>1, RowsTyped DEF Add
  <2>2. out' \in [Request -> Nat] /\ raced' \subseteq Devices /\ failed' \subseteq Devices
    BY <1>0, <1>1, OnceTyped, Invoked DEF Add
  <2> QED
    BY <1>1, <2>1, <2>2, UserTyped DEF Add, TypeOK
<1>2. ASSUME NEW m \in Devices, Del(m) PROVE TypeOK'
  <2>1. row' \in [Devices -> Row \cup {None}]
    <3>1. row' = [row EXCEPT ![m] = [row[m] EXCEPT !.pending = "del"]] /\ row[m] # None
      BY <1>0, <1>2 DEF Del, Shown, Is
    <3>2. row[m] \in Row
      BY <1>0, <3>1
    <3>3. [row[m] EXCEPT !.pending = "del"] \in Row
      BY <3>2, RowsTyped
    <3> QED
      BY <1>0, <3>1, <3>3
  <2>2. out' \in [Request -> Nat] /\ raced' \subseteq Devices /\ failed' \subseteq Devices
    BY <1>0, <1>2, OnceTyped, Invoked DEF Del
  <2> QED
    BY <1>2, <2>1, <2>2, UserTyped DEF Del, TypeOK
<1>3. ASSUME NEW m \in Devices, UpdateIp(m) PROVE TypeOK'
  <2>1. row' \in [Devices -> Row \cup {None}]
    <3>1. row' = [row EXCEPT ![m] = [row[m] EXCEPT !.ip = TRUE]] /\ row[m] # None
      BY <1>0, <1>3 DEF UpdateIp, Shown, Is
    <3>2. row[m] \in Row
      BY <1>0, <3>1
    <3>3. [row[m] EXCEPT !.ip = TRUE] \in Row
      BY <3>2, RowsTyped
    <3> QED
      BY <1>0, <3>1, <3>3
  <2>2. out' \in [Request -> Nat] /\ raced' \subseteq Devices /\ failed' \subseteq Devices
    BY <1>0, <1>3, OnceTyped, Invoked DEF UpdateIp
  <2> QED
    BY <1>3, <2>1, <2>2 DEF UpdateIp, TypeOK
<1>4. CASE ClearIp
  <2>1. row' \in [Devices -> Row \cup {None}]
    BY <1>0, <1>4, RowsTyped DEF ClearIp, Shown, Is
  <2>2. out' \in [Request -> Nat] /\ raced' \subseteq Devices /\ failed' \subseteq Devices
    BY <1>0, <1>4, OnceTyped, Invoked DEF ClearIp
  <2> QED
    BY <1>4, <2>1, <2>2, UserTyped DEF ClearIp, TypeOK
<1>5. CASE EmptyDevices
  BY <1>5, UserTyped DEF EmptyDevices, TypeOK
<1>6. CASE Refresh
  <2>1. out' \in [Request -> Nat] /\ raced' \subseteq Devices /\ failed' \subseteq Devices
    BY <1>0, <1>6, OnceTyped, Invoked DEF Refresh
  <2> QED
    BY <1>6, <2>1, UserTyped DEF Refresh, TypeOK
<1>7. CASE Restart
  <2>1. out' \in [Request -> Nat]
    BY <1>7 DEF Restart
  <2> QED
    BY <1>7, <2>1, UserTyped DEF Restart, TypeOK
<1>8. CASE SignIn
  <2>1. out' \in [Request -> Nat] /\ raced' \subseteq Devices /\ failed' \subseteq Devices
    BY <1>0, <1>8, OnceTyped, Invoked DEF SignIn
  <2> QED
    BY <1>8, <2>1 DEF SignIn, TypeOK
<1>9. CASE Expire
  BY <1>9 DEF Expire, TypeOK
<1>10. ASSUME NEW q \in Request, NEW st \in {"ok", "error"}, NEW effect \in BOOLEAN,
              CloudTakes(q, st, effect)
       PROVE  TypeOK'
  <2>1. UNCHANGED <<row, cred, pulled, failed, ops>>
    BY <1>10 DEF CloudTakes
  <2> QED
    BY <1>10, <2>1, Served DEF TypeOK
<1>11. ASSUME NEW q \in Request, Answered(q) PROVE TypeOK'
  <2>0. out[q] > 0 /\ Without(q) \in [Request -> Nat]
    BY <1>11, WithoutTyped DEF Answered
  <2>1. CASE q.kind # "all" /\ Changed(q)
    <3>1. q.dev \in Devices
      BY <2>1, RequestParts
    <3>2. row' \in [Devices -> Row \cup {None}]
      <4>1. row[q.dev] # None => [row[q.dev] EXCEPT !.pending = "none"] \in Row
        <5>1. row[q.dev] # None => row[q.dev] \in Row
          BY <1>0, <3>1
        <5> QED
          BY <5>1, RowsTyped
      <4>2. row' = AddDone(row, q.dev) \/ row' = DelDone(row, q.dev)
        BY <2>1 DEF Changed
      <4>3. CASE row' = AddDone(row, q.dev)
        BY <1>0, <3>1, <4>1, <4>3 DEF AddDone
      <4>4. CASE row' = DelDone(row, q.dev)
        BY <1>0, <3>1, <4>4 DEF DelDone
      <4> QED
        BY <4>2, <4>3, <4>4
    <3> QED
      BY <2>0, <2>1, <3>2 DEF Changed, TypeOK
  <2>2. CASE q.kind = "all" /\ PullDone(q)
    <3>1. row' \in [Devices -> Row \cup {None}]
      <4>1. q.seen \subseteq Devices /\ row' = PullAdd(row, q.seen)
        BY <2>2, RequestParts, PullDoneIs
      <4> QED
        BY <4>1, PullAddTyped
    <3>2. out' \in [Request -> Nat] /\ raced' \subseteq Devices /\ failed' \subseteq Devices
      BY <1>0, <2>0, <2>2, PullDoneIs, PullPostsTyped, Invoked
    <3> QED
      BY <2>2, <3>1, <3>2, PullDoneIs DEF TypeOK
  <2>3. CASE Failed(q)
    BY <2>0, <2>3, RequestParts DEF Failed, TypeOK
  <2> QED
    BY <1>11, <2>1, <2>2, <2>3 DEF Answered
<1>12. CASE UNCHANGED vars
  BY <1>12 DEF vars, TypeOK
<1> QED
  BY <1>1, <1>2, <1>3, <1>4, <1>5, <1>6, <1>7, <1>8, <1>9, <1>10, <1>11, <1>12
  DEF Next, Network

(***************************************************************************)
(* The table, the cloud and the requests stay well typed, for any devices  *)
(* and bounds: no answer leaves a row with an empty column pending         *)
(* (dbDevices.cpp, awsPullAdd).                                            *)
(***************************************************************************)
THEOREM TypeCorrect == Spec => []TypeOK
<1> QED
  BY InitTyped, NextTyped, PTL DEF Spec

-----------------------------------------------------------------------------
(***************************************************************************)
(* The rows and the cloud.  raced holds every race there is, an answer     *)
(* that is under way is still true of the cloud unless its device raced,   *)
(* and a row whose device is being deleted does not claim to be settled.   *)
(***************************************************************************)
AnswersTrue ==
  \A q \in Request : out[q] > 0 /\ q.st = "ok" =>
    /\ q.kind = "add" => q.dev \in cloud \cup raced
    /\ q.kind = "all" => q.seen \subseteq cloud \cup raced
    /\ q.kind = "del" => q.dev \notin cloud \/ q.dev \in raced

DeletionsShown ==
  \A q \in Request : out[q] > 0 /\ q.kind = "del" =>
    ~Is(row, q.dev, "none") \/ q.dev \in raced

SyncInv ==
  /\ Racing(out) \subseteq raced
  /\ AnswersTrue
  /\ DeletionsShown
  /\ SettledIsInCloud

(* Two requests about a device that race.                                  *)
LEMMA Races ==
  ASSUME NEW o, NEW q \in Request, NEW p \in Request,
         q.kind = "del", o[q] > 0, o[p] > 0,
         p.kind = "all" \/ (p.kind = "add" /\ p.dev = q.dev)
  PROVE  q.dev \in Racing(o)
<1>1. q.dev \in Devices
  BY RequestParts
<1>2. Some(o, "del", q.dev)
  BY DEF Some
<1>3. p.kind = "add" => Some(o, "add", q.dev)
  BY DEF Some
<1>4. p.kind = "all" => PullUnderWay(o)
  BY DEF PullUnderWay
<1> QED
  BY <1>1, <1>2, <1>3, <1>4, SomeIsUnderWay DEF Racing

(***************************************************************************)
(* A step that posts.  No row becomes settled by it, but those that a pull *)
(* has found, and what is posted to be deleted is not settled.             *)
(***************************************************************************)
LEMMA PostKeeps ==
  ASSUME TypeOK, SyncInv,
         NEW o \in [Request -> Nat], NEW n \in [Request -> Nat],
         \A q \in Request : o[q] > 0 => out[q] > 0,
         \A q \in Request : n[q] > 0 => q.st = "sent",
         \A q \in Request : n[q] > 0 /\ q.kind = "del" => ~Is(row', q.dev, "none"),
         \A m \in Devices : Is(row', m, "none") =>
            \/ Is(row, m, "none")
            \/ m \in cloud \cup raced /\ (m \in raced \/ ~Some(out, "del", m)),
         NEW valid \in BOOLEAN, Invoke(o, n, valid), UNCHANGED cloud
  PROVE  SyncInv'
<1>0. raced \subseteq Devices /\ failed \subseteq Devices
  BY DEF TypeOK
<1>1. /\ raced \subseteq raced'
      /\ Racing(out') \subseteq raced'
      /\ \A q \in Request : out'[q] > 0 => out[q] > 0 \/ n[q] > 0
  BY <1>0, Invoked
<1>2. AnswersTrue'
  BY <1>1 DEF AnswersTrue, SyncInv
<1>3. DeletionsShown'
  <2> SUFFICES ASSUME NEW q \in Request, out'[q] > 0, q.kind = "del", Is(row', q.dev, "none")
               PROVE  q.dev \in raced'
    BY DEF DeletionsShown
  <2>1. out[q] > 0 /\ q.dev \in Devices
    BY <1>1, RequestParts
  <2>2. Some(out, "del", q.dev)
    BY <2>1 DEF Some
  <2>3. Is(row, q.dev, "none") => q.dev \in raced
    BY <2>1 DEF SyncInv, DeletionsShown
  <2> QED
    BY <1>1, <2>1, <2>2, <2>3
<1>4. SettledIsInCloud'
  BY <1>1 DEF SettledIsInCloud, SyncInv
<1> QED
  BY <1>1, <1>2, <1>3, <1>4 DEF SyncInv

(* The cloud serves a request.                                             *)
LEMMA ServeKeeps ==
  ASSUME TypeOK, SyncInv, NEW q \in Request, NEW st \in {"ok", "error"},
         NEW effect \in BOOLEAN, CloudTakes(q, st, effect)
  PROVE  SyncInv'
<1>1. PICK a \in Request :
        /\ a.kind = q.kind /\ a.st = st /\ out'[a] > 0
        /\ q.kind # "all" => a.dev = q.dev
        /\ q.kind = "all" /\ st = "ok" => a.seen = cloud
        /\ \A p \in Request : out'[p] > 0 => out[p] > 0 \/ p = a
        /\ \A p \in Request : p # q /\ out[p] > 0 => out'[p] > 0
  BY Served
<1>2. /\ raced \subseteq raced' /\ Racing(out') \subseteq raced'
      /\ q.st = "sent" /\ out[q] > 0 /\ (st = "ok" => effect)
  BY Served
<1>3. /\ effect /\ q.kind = "add" => cloud' = cloud \cup {q.dev}
      /\ effect /\ q.kind = "del" => cloud' = cloud \ {q.dev}
      /\ ~effect \/ q.kind = "all" => cloud' = cloud
      /\ row' = row
  BY RequestParts DEF CloudTakes
<1>4. AnswersTrue'
  <2> SUFFICES ASSUME NEW p \in Request, out'[p] > 0, p.st = "ok"
               PROVE  /\ p.kind = "add" => p.dev \in cloud' \cup raced'
                      /\ p.kind = "all" => p.seen \subseteq cloud' \cup raced'
                      /\ p.kind = "del" => p.dev \notin cloud' \/ p.dev \in raced'
    BY DEF AnswersTrue
  <2>1. CASE p = a
    BY <1>1, <1>2, <1>3, <2>1
  <2>2. CASE p # a
    <3>1. out[p] > 0
      BY <1>1, <2>2
    <3>2. /\ p.kind = "add" => p.dev \in cloud \cup raced
          /\ p.kind = "all" => p.seen \subseteq cloud \cup raced
          /\ p.kind = "del" => p.dev \notin cloud \/ p.dev \in raced
      BY <3>1 DEF SyncInv, AnswersTrue
    <3>3. CASE effect /\ q.kind = "del"
      <4>1. p.kind = "all" \/ (p.kind = "add" /\ p.dev = q.dev) => q.dev \in raced'
        BY <1>1, <1>2, <3>3, Races
      <4> QED
        BY <1>2, <1>3, <3>2, <3>3, <4>1
    <3>4. CASE effect /\ q.kind = "add"
      <4>1. p.kind = "del" /\ p.dev = q.dev => q.dev \in raced'
        BY <1>1, <1>2, <3>4, Races
      <4> QED
        BY <1>2, <1>3, <3>2, <3>4, <4>1
    <3>5. CASE ~effect \/ q.kind = "all"
      BY <1>2, <1>3, <3>2, <3>5
    <3> QED
      BY <3>3, <3>4, <3>5, RequestParts
  <2> QED
    BY <2>1, <2>2
<1>5. DeletionsShown'
  BY <1>1, <1>2, <1>3 DEF DeletionsShown, SyncInv, Is
<1>6. SettledIsInCloud'
  <2> SUFFICES ASSUME NEW m \in Devices, Is(row, m, "none")
               PROVE  m \in cloud' \cup raced'
    BY <1>3 DEF SettledIsInCloud, Is
  <2>1. q.kind = "del" /\ q.dev = m => m \in raced
    BY <1>2 DEF SyncInv, DeletionsShown
  <2>2. m \in cloud \cup raced
    BY DEF SyncInv, SettledIsInCloud
  <2> QED
    BY <1>2, <1>3, <2>1, <2>2, RequestParts
<1> QED
  BY <1>2, <1>4, <1>5, <1>6 DEF SyncInv

(* Fewer requests, the same cloud, and rows that do not get settled.       *)
LEMMA LessKeeps ==
  ASSUME TypeOK, SyncInv, out' \in [Request -> Nat],
         \A q \in Request : out'[q] > 0 => out[q] > 0,
         UNCHANGED <<cloud, raced>>,
         \A m \in Devices : Is(row', m, "none") =>
            \/ Is(row, m, "none")
            \/ m \in cloud \cup raced /\ (m \in raced \/ ~Some(out, "del", m))
  PROVE  SyncInv'
<1>1. Racing(out') \subseteq raced'
  BY FewerRaceLess DEF TypeOK, SyncInv
<1>2. AnswersTrue'
  BY DEF SyncInv, AnswersTrue
<1>3. DeletionsShown'
  <2> SUFFICES ASSUME NEW q \in Request, out'[q] > 0, q.kind = "del", Is(row', q.dev, "none")
               PROVE  q.dev \in raced
    BY DEF DeletionsShown
  <2>1. out[q] > 0 /\ q.dev \in Devices
    BY RequestParts
  <2>2. Some(out, "del", q.dev)
    BY <2>1 DEF Some
  <2> QED
    BY <2>1, <2>2 DEF SyncInv, DeletionsShown
<1>4. SettledIsInCloud'
  BY DEF SettledIsInCloud, SyncInv
<1> QED
  BY <1>1, <1>2, <1>3, <1>4 DEF SyncInv

(* The answer to an addition or a deletion.                                *)
LEMMA ChangeKeeps ==
  ASSUME TypeOK, SyncInv, NEW q \in Request, out[q] > 0, q.kind # "all", Changed(q)
  PROVE  SyncInv'
<1>1. q.dev \in Devices /\ q.kind \in {"add", "del"}
  BY RequestParts
<1>2. out' = Without(q) /\ UNCHANGED <<cloud, raced>> /\ q.st = "ok"
  BY DEF Changed
<1>3. ASSUME NEW m \in Devices, Is(row', m, "none"), ~Is(row, m, "none")
      PROVE  m \in cloud \cup raced /\ (m \in raced \/ ~Some(out, "del", m))
  <2>1. m = q.dev /\ q.kind = "add"
    BY <1>1, <1>3 DEF Changed, AddDone, DelDone, Is, TypeOK
  <2>2. m \in cloud \cup raced
    BY <1>2, <2>1 DEF SyncInv, AnswersTrue
  <2>3. Some(out, "del", m) => m \in Racing(out)
    BY <2>1, Races DEF Some
  <2> QED
    BY <2>2, <2>3 DEF SyncInv
<1> QED
  BY <1>2, <1>3, WithoutTyped, LessKeeps

(* The answer to a pull.                                                   *)
LEMMA PullKeeps ==
  ASSUME TypeOK, SyncInv, NEW q \in Request, out[q] > 0, q.kind = "all", PullDone(q)
  PROVE  SyncInv'
<1>1. /\ q.st = "ok" /\ row' = PullAdd(row, q.seen) /\ UNCHANGED cloud
      /\ Invoke(Without(q), PullPosts(q), cred) /\ q.seen \subseteq Devices
      /\ cred \in BOOLEAN
  BY PullDoneIs, RequestParts DEF TypeOK
<1>2. ASSUME NEW m \in Devices, Is(row', m, "none"), ~Is(row, m, "none")
      PROVE  m \in cloud \cup raced /\ (m \in raced \/ ~Some(out, "del", m))
  <2>1. m \in q.seen
    BY <1>1, <1>2, PullAddTyped DEF Is
  <2>2. m \in cloud \cup raced
    BY <1>1, <2>1 DEF SyncInv, AnswersTrue
  <2>3. Some(out, "del", m) => m \in Racing(out)
    BY Races DEF Some
  <2> QED
    BY <2>2, <2>3 DEF SyncInv
<1>3. ASSUME NEW p \in Request, PullPosts(q)[p] > 0
      PROVE  /\ p.st = "sent"
             /\ p.kind = "del" => ~Is(row', p.dev, "none")
  <2>1. p \in Again(q) \/ p \in SyncLocal(row')
    BY <1>1, <1>3, PullPostsTyped
  <2>2. CASE p \in Again(q)
    BY <2>2 DEF Again, Adding
  <2>3. CASE p \in SyncLocal(row')
    BY <2>3 DEF SyncLocal, Adding, Deleting, Is
  <2> QED
    BY <2>1, <2>2, <2>3
<1> QED
  BY <1>1, <1>2, <1>3, WithoutTyped, PullPostsTyped, PostKeeps

(* What Add and Del, and the addresses of the devices, do to the rows.     *)
LEMMA OneSent ==
  /\ \A m \in Devices : \A p \in Request :
       /\ Once({Adding(m)})[p] > 0 => p = Adding(m) /\ p.st = "sent" /\ p.kind = "add"
       /\ Once({Deleting(m)})[p] > 0 =>
            p = Deleting(m) /\ p.st = "sent" /\ p.kind = "del" /\ p.dev = m
  /\ \A p \in Request :
       /\ Once({Pulling})[p] > 0 => p = Pulling /\ p.st = "sent" /\ p.kind = "all"
       /\ ~(Once({})[p] > 0)
  BY OnceTyped DEF Adding, Deleting, Pulling

LEMMA SyncStep == TypeOK /\ SyncInv /\ [Next]_vars => SyncInv'
<1> SUFFICES ASSUME TypeOK, SyncInv, [Next]_vars PROVE SyncInv'
  OBVIOUS
<1>0. /\ row \in [Devices -> Row \cup {None}] /\ out \in [Request -> Nat] /\ cred \in BOOLEAN
      /\ \A q \in Request : out[q] > 0 => out[q] > 0
  BY DEF TypeOK
<1>1. ASSUME NEW m \in Devices, Add(m) PROVE SyncInv'
  <2>1. \A d \in Devices : Is(row', d, "none") => Is(row, d, "none")
    BY <1>0, <1>1 DEF Add, Is
  <2>2. Invoke(out, Once({Adding(m)}), cred) /\ UNCHANGED cloud
    BY <1>1 DEF Add
  <2>3. Once({Adding(m)}) \in [Request -> Nat]
    BY OnceTyped
  <2>4. \A p \in Request : Once({Adding(m)})[p] > 0 => p.st = "sent" /\ p.kind = "add"
    BY OneSent
  <2> QED
    BY <1>0, <2>1, <2>2, <2>3, <2>4, PostKeeps
<1>2. ASSUME NEW m \in Devices, Del(m) PROVE SyncInv'
  <2>1. /\ \A d \in Devices : Is(row', d, "none") => Is(row, d, "none")
        /\ ~Is(row', m, "none")
    BY <1>0, <1>2 DEF Del, Is
  <2>2. Invoke(out, Once({Deleting(m)}), cred) /\ UNCHANGED cloud
    BY <1>2 DEF Del
  <2>3. Once({Deleting(m)}) \in [Request -> Nat]
    BY OnceTyped
  <2>4. \A p \in Request : Once({Deleting(m)})[p] > 0 => p.st = "sent" /\ p.dev = m
    BY OneSent
  <2> QED
    BY <1>0, <2>1, <2>2, <2>3, <2>4, PostKeeps
<1>3. ASSUME NEW m \in Devices, UpdateIp(m) PROVE SyncInv'
  <2> DEFINE S == IF Is(row, m, "add") THEN {Adding(m)} ELSE {}
  <2>1. \A d \in Devices : Is(row', d, "none") => Is(row, d, "none")
    BY <1>0, <1>3 DEF UpdateIp, Is, Shown
  <2>2. Invoke(out, Once(S), cred) /\ UNCHANGED cloud
    BY <1>3 DEF UpdateIp
  <2>3. \A p \in Request : Once(S)[p] > 0 => p.st = "sent" /\ p.kind = "add"
    BY OneSent
  <2> QED
    BY <1>0, <2>1, <2>2, <2>3, OnceTyped, PostKeeps
<1>4. CASE ClearIp
  <2>1. \A d \in Devices : Is(row', d, "none") => Is(row, d, "none")
    BY <1>0, <1>4 DEF ClearIp, Is, Shown
  <2>2. PICK S \in SUBSET Devices :
          Invoke(out, Once({Adding(m) : m \in S}), cred) /\ UNCHANGED cloud
    BY <1>4 DEF ClearIp
  <2>3. \A p \in Request : Once({Adding(m) : m \in S})[p] > 0 => p.st = "sent" /\ p.kind = "add"
    BY OnceTyped DEF Adding
  <2> QED
    BY <1>0, <2>1, <2>2, <2>3, OnceTyped, PostKeeps
<1>5. CASE EmptyDevices
  <2>1. \A d \in Devices : ~Is(row', d, "none")
    BY <1>5 DEF EmptyDevices, Is
  <2> QED
    BY <1>0, <1>5, <2>1, LessKeeps DEF EmptyDevices
<1>6. CASE Refresh
  <2>1. Invoke(out, Once({Pulling}), cred) /\ UNCHANGED <<row, cloud>>
    BY <1>6 DEF Refresh
  <2> QED
    BY <1>0, <2>1, OnceTyped, OneSent, PostKeeps
<1>7. CASE Restart
  <2>1. out' \in [Request -> Nat] /\ \A q \in Request : ~(out'[q] > 0)
    BY <1>7 DEF Restart
  <2> QED
    BY <1>7, <2>1, LessKeeps DEF Restart
<1>8. CASE SignIn
  <2> DEFINE S == IF pulled THEN {} ELSE {Pulling}
  <2>1. Invoke(out, Once(S), TRUE) /\ UNCHANGED <<row, cloud>>
    BY <1>8 DEF SignIn
  <2>2. \A p \in Request : Once(S)[p] > 0 => p.st = "sent" /\ p.kind = "all"
    BY OneSent
  <2> QED
    BY <1>0, <2>1, <2>2, OnceTyped, PostKeeps
<1>9. CASE Expire
  BY <1>0, <1>9, LessKeeps DEF Expire
<1>10. ASSUME NEW q \in Request, NEW st \in {"ok", "error"}, NEW effect \in BOOLEAN,
              CloudTakes(q, st, effect)
       PROVE  SyncInv'
  BY <1>10, ServeKeeps
<1>11. ASSUME NEW q \in Request, Answered(q) PROVE SyncInv'
  <2>1. CASE q.kind # "all" /\ Changed(q)
    BY <1>11, <2>1, ChangeKeeps DEF Answered
  <2>2. CASE q.kind = "all" /\ PullDone(q)
    BY <1>11, <2>2, PullKeeps DEF Answered
  <2>3. CASE Failed(q)
    BY <1>11, <2>3, WithoutTyped, LessKeeps DEF Failed, Answered
  <2> QED
    BY <1>11, <2>1, <2>2, <2>3 DEF Answered
<1>12. CASE UNCHANGED vars
  BY <1>0, <1>12, LessKeeps DEF vars
<1> QED
  BY <1>1, <1>2, <1>3, <1>4, <1>5, <1>6, <1>7, <1>8, <1>9, <1>10, <1>11, <1>12
  DEF Next, Network

LEMMA SyncInvariance == Spec => [](TypeOK /\ SyncInv)
<1>1. Init => TypeOK /\ SyncInv
  <2> SUFFICES ASSUME Init PROVE SyncInv
    BY InitTyped
  <2>1. \A q \in Request : ~(out[q] > 0)
    BY DEF Init
  <2>2. \A m \in Devices : ~Some(out, "del", m)
    BY <2>1 DEF Some
  <2>3. Racing(out) = {}
    BY <2>2, SomeIsUnderWay DEF Racing
  <2>4. \A m \in Devices : ~Is(row, m, "none")
    BY DEF Init, Is
  <2> QED
    BY <2>1, <2>3, <2>4 DEF SyncInv, AnswersTrue, DeletionsShown, SettledIsInCloud
<1> QED
  BY <1>1, NextTyped, SyncStep, PTL DEF Spec

(***************************************************************************)
(* A row that claims to be settled is in the cloud unless its device       *)
(* raced, for any devices and any number of requests that are lost,        *)
(* repeated or overtaken (dbDevices.cpp, add_done, awsPullAdd).            *)
(***************************************************************************)
THEOREM SettledStaysInCloud == Spec => []SettledIsInCloud
<1>1. TypeOK /\ SyncInv => SettledIsInCloud
  BY DEF SyncInv
<1> QED
  BY <1>1, SyncInvariance, PTL

(* What a step does to the rows: their column pending, and the row itself. *)
LEMMA RowSteps ==
  ASSUME TypeOK, NEW m \in Devices
  PROVE  /\ \A d \in Devices : Add(d) =>
              IF m = d THEN Is(row', m, "add") ELSE row'[m] = row[m]
         /\ \A d \in Devices : Del(d) =>
              IF m = d THEN Is(row', m, "del") ELSE row'[m] = row[m]
         /\ (ClearIp \/ \E d \in Devices : UpdateIp(d)) =>
              /\ row'[m] = None <=> row[m] = None
              /\ row[m] # None => row'[m].pending = row[m].pending
<1>0. row[m] # None => row[m] \in Row
  BY DEF TypeOK
<1>1. ASSUME NEW d \in Devices, Add(d)
      PROVE  IF m = d THEN Is(row', m, "add") ELSE row'[m] = row[m]
  <2>1. row' = [row EXCEPT ![d] = [ip |-> TRUE, pending |-> "add"]]
    BY <1>1 DEF Add
  <2>2. [ip |-> TRUE, pending |-> "add"] # None
    BY RowsTyped
  <2> QED
    BY <2>1, <2>2 DEF TypeOK, Is
<1>2. ASSUME NEW d \in Devices, Del(d)
      PROVE  IF m = d THEN Is(row', m, "del") ELSE row'[m] = row[m]
  <2>1. row' = [row EXCEPT ![d] = [row[d] EXCEPT !.pending = "del"]] /\ row[d] # None
    BY <1>2 DEF Del, Shown, Is
  <2>2. row[d] \in Row
    BY <2>1 DEF TypeOK
  <2>3. [row[d] EXCEPT !.pending = "del"] # None /\ [row[d] EXCEPT !.pending = "del"].pending = "del"
    BY <2>2, RowsTyped
  <2> QED
    BY <2>1, <2>3 DEF TypeOK, Is
<1>3. \A ip \in BOOLEAN : row[m] # None =>
        [row[m] EXCEPT !.ip = ip] # None /\ [row[m] EXCEPT !.ip = ip].pending = row[m].pending
  BY <1>0, RowsTyped
<1>4. ASSUME ClearIp \/ \E d \in Devices : UpdateIp(d)
      PROVE  row'[m] = row[m] \/ \E ip \in BOOLEAN : row[m] # None /\ row'[m] = [row[m] EXCEPT !.ip = ip]
  BY <1>4 DEF ClearIp, UpdateIp, Shown, Is, TypeOK
<1> QED
  BY <1>1, <1>2, <1>3, <1>4

LEMMA RemovalStep ==
  ASSUME TypeOK, SyncInv, [Next]_vars, NEW m \in Devices,
         row[m] # None, row'[m] = None, out' # out
  PROVE  m \notin cloud \/ m \in raced
<1>1. ASSUME NEW q \in Request, Answered(q)
      PROVE  m \notin cloud \/ m \in raced
  <2>1. CASE q.kind # "all" /\ Changed(q)
    <3>1. q.kind = "del" /\ q.dev = m
      <4>1. q.kind = "add" => row'[m] # None
        <5>1. row[m] \in Row
          BY DEF TypeOK
        <5>2. [row[m] EXCEPT !.pending = "none"] # None
          BY <5>1, RowsTyped
        <5> QED
          BY <2>1, <5>2 DEF Changed, AddDone, TypeOK
      <4> QED
        BY <2>1, <4>1, RequestParts DEF Changed, DelDone, TypeOK
    <3> QED
      BY <1>1, <2>1, <3>1 DEF Changed, Answered, SyncInv, AnswersTrue
  <2>2. CASE q.kind = "all" /\ PullDone(q)
    <3>1. q.seen \subseteq Devices /\ row' = PullAdd(row, q.seen)
      BY <2>2, PullDoneIs, RequestParts
    <3>2. [ip |-> FALSE, pending |-> "none"] # None
      BY RowsTyped
    <3>3. row'[m] = row[m] \/ row'[m] = [ip |-> FALSE, pending |-> "none"]
      BY <3>1, PullAddTyped
    <3> QED
      BY <3>2, <3>3
  <2>3. CASE Failed(q)
    BY <2>3 DEF Failed
  <2> QED
    BY <1>1, <2>1, <2>2, <2>3 DEF Answered
<1>2. ASSUME NEW d \in Devices, Add(d) \/ Del(d) \/ UpdateIp(d) PROVE FALSE
  BY <1>2, RowSteps DEF Is
<1>3. ~ClearIp
  BY RowSteps
<1>4. ~(EmptyDevices \/ Refresh \/ Restart \/ SignIn \/ Expire \/ UNCHANGED vars)
  BY DEF EmptyDevices, Refresh, Restart, SignIn, Expire, vars
<1>5. ~\E q \in Request, st \in {"ok", "error"}, effect \in BOOLEAN : CloudTakes(q, st, effect)
  BY DEF CloudTakes
<1> QED
  BY <1>1, <1>2, <1>3, <1>4, <1>5 DEF Next, Network

(***************************************************************************)
(* An answer takes a row away only when the device has left the cloud, or  *)
(* raced (dbDevices.cpp, del_done).                                        *)
(***************************************************************************)
THEOREM RemovedHasGone == Spec => RemovedIsGone
<1>1. TypeOK /\ SyncInv /\ [Next]_vars =>
        [\A m \in Devices : row[m] # None /\ row'[m] = None /\ out' # out =>
           m \notin cloud \/ m \in raced]_vars
  BY RemovalStep
<1> QED
  BY <1>1, SyncInvariance, PTL DEF Spec, RemovedIsGone

-----------------------------------------------------------------------------
(***************************************************************************)
(* What is pending is posted.                                              *)
(***************************************************************************)
Covered(m) ==
  pulled /\ Pending(m) /\ m \notin failed => Some(out, row[m].pending, m)

LEMMA CoveredIs ==
  (\A m \in Devices : Covered(m)) <=> PendingIsCovered
<1>1. \A m \in Devices : Pending(m) => row[m].pending \in {"add", "del"}
  BY DEF Pending, Is
<1> QED
  BY <1>1, SomeIsUnderWay DEF Covered, PendingIsCovered

(* A request that is under way goes on to cover its row.                   *)
LEMMA StaysCovered ==
  ASSUME NEW m \in Devices, Covered(m), pulled' => pulled,
         Pending(m)' => Pending(m) /\ row'[m].pending = row[m].pending,
         m \in failed => m \in failed',
         \A q \in Request : q.kind \in {"add", "del"} /\ q.dev = m /\ out[q] > 0 =>
            Some(out', q.kind, m)
  PROVE  Covered(m)'
<1> SUFFICES ASSUME pulled', Pending(m)', m \notin failed'
             PROVE  Some(out', row'[m].pending, m)
  BY DEF Covered
<1>1. Some(out, row[m].pending, m) /\ row[m].pending \in {"add", "del"}
  BY DEF Covered, Pending, Is
<1>2. PICK q \in Request : q.kind = row[m].pending /\ q.dev = m /\ out[q] > 0
  BY <1>1 DEF Some
<1> QED
  BY <1>1, <1>2

(* A step that posts covers what it posts for.                             *)
LEMMA PostCovers ==
  ASSUME TypeOK, NEW o \in [Request -> Nat], NEW n \in [Request -> Nat],
         NEW valid \in BOOLEAN, Invoke(o, n, valid), NEW m \in Devices, Covered(m),
         \A q \in Request : q.kind # "all" /\ out[q] > 0 => o[q] > 0,
         Pending(m)' /\ pulled' =>
           \/ /\ pulled /\ Pending(m) /\ row'[m].pending = row[m].pending
              /\ n[Adding(m)] = 0 /\ n[Deleting(m)] = 0
           \/ row'[m].pending = "add" /\ n[Adding(m)] > 0
           \/ row'[m].pending = "del" /\ n[Deleting(m)] > 0
  PROVE  Covered(m)'
<1> SUFFICES ASSUME pulled', Pending(m)', m \notin failed'
             PROVE  Some(out', row'[m].pending, m)
  BY DEF Covered
<1>1. /\ \A q \in Request : o[q] > 0 => out'[q] > 0
      /\ n[Adding(m)] > 0 => out'[Adding(m)] > 0
      /\ n[Deleting(m)] > 0 => out'[Deleting(m)] > 0
      /\ n[Adding(m)] = 0 /\ n[Deleting(m)] = 0 => m \notin failed
  BY Invoked DEF TypeOK
<1>2. Adding(m) \in Request /\ Deleting(m) \in Request
  BY Posts
<1>3. CASE row'[m].pending = "add" /\ n[Adding(m)] > 0
  BY <1>1, <1>2, <1>3 DEF Some, Adding
<1>4. CASE row'[m].pending = "del" /\ n[Deleting(m)] > 0
  BY <1>1, <1>2, <1>4 DEF Some, Deleting
<1>5. CASE /\ pulled /\ Pending(m) /\ row'[m].pending = row[m].pending
           /\ n[Adding(m)] = 0 /\ n[Deleting(m)] = 0
  <2>1. Some(out, row[m].pending, m) /\ row[m].pending \in {"add", "del"}
    BY <1>1, <1>5 DEF Covered, Pending, Is
  <2>2. PICK q \in Request : q.kind = row[m].pending /\ q.dev = m /\ out[q] > 0
    BY <2>1 DEF Some
  <2>3. out'[q] > 0
    BY <1>1, <2>1, <2>2
  <2> QED
    BY <1>5, <2>2, <2>3 DEF Some
<1> QED
  BY <1>3, <1>4, <1>5

(* What a pull posts covers every row that is pending by then.             *)
LEMMA PullCovers ==
  ASSUME TypeOK, NEW q \in Request, out[q] > 0, q.kind = "all", PullDone(q),
         NEW m \in Devices, Covered(m)
  PROVE  Covered(m)'
<1>1. /\ row' = PullAdd(row, q.seen) /\ q.seen \subseteq Devices /\ cred \in BOOLEAN
      /\ Invoke(Without(q), PullPosts(q), cred)
  BY PullDoneIs, RequestParts DEF TypeOK
<1>2. \A p \in Request : p.kind # "all" /\ out[p] > 0 => Without(q)[p] > 0
  BY WithoutTyped
<1>3. ASSUME Is(row', m, "add") PROVE PullPosts(q)[Adding(m)] > 0
  <2>1. Adding(m) \in SyncLocal(PullAdd(row, q.seen)) \cap Request
    BY <1>1, <1>3, Posts DEF SyncLocal
  <2> QED
    BY <2>1, PullPostsTyped
<1>4. ASSUME Is(row', m, "del") PROVE PullPosts(q)[Deleting(m)] > 0
  <2>1. Deleting(m) \in SyncLocal(PullAdd(row, q.seen)) \cap Request
    BY <1>1, <1>4, Posts DEF SyncLocal
  <2> QED
    BY <2>1, PullPostsTyped
<1>5. Pending(m)' =>
        \/ row'[m].pending = "add" /\ PullPosts(q)[Adding(m)] > 0
        \/ row'[m].pending = "del" /\ PullPosts(q)[Deleting(m)] > 0
  BY <1>3, <1>4 DEF Pending, Is
<1> QED
  BY <1>1, <1>2, <1>5, WithoutTyped, PullPostsTyped, PostCovers

LEMMA CoveredStep ==
  ASSUME TypeOK, [Next]_vars, NEW m \in Devices, Covered(m)
  PROVE  Covered(m)'
<1>0. /\ out \in [Request -> Nat] /\ cred \in BOOLEAN
      /\ \A q \in Request : q.kind # "all" /\ out[q] > 0 => out[q] > 0
      /\ \A q \in Request : q.dev = m /\ out[q] > 0 => Some(out, q.kind, m)
  BY DEF TypeOK, Some
<1>00. \A d \in Devices :
         /\ Adding(m) \in Request /\ Deleting(m) \in Request
         /\ Adding(m) # Deleting(d) /\ Deleting(m) # Adding(d) /\ Adding(m) # Pulling /\ Deleting(m) # Pulling
         /\ Adding(m) = Adding(d) => m = d
         /\ Deleting(m) = Deleting(d) => m = d
  <2>1. /\ Adding(m).kind = "add" /\ Deleting(m).kind = "del" /\ Pulling.kind = "all"
        /\ \A d \in Devices : /\ Adding(d).dev = d /\ Deleting(d).dev = d
                              /\ Deleting(d).kind = "del" /\ Adding(d).kind = "add"
    BY DEF Adding, Deleting, Pulling
  <2>2. Adding(m).dev = m /\ Deleting(m).dev = m
    BY DEF Adding, Deleting
  <2> QED
    BY <2>1, <2>2, Posts
<1>1. ASSUME NEW d \in Devices, Add(d) PROVE Covered(m)'
  <2>1. Invoke(out, Once({Adding(d)}), cred) /\ pulled' = pulled
    BY <1>1 DEF Add
  <2>2. IF m = d THEN Is(row', m, "add") ELSE row'[m] = row[m]
    BY <1>1, RowSteps
  <2>3. /\ m = d => Once({Adding(d)})[Adding(m)] > 0
        /\ m # d => Once({Adding(d)})[Adding(m)] = 0 /\ Once({Adding(d)})[Deleting(m)] = 0
    BY <1>00, OnceTyped
  <2>4. Once({Adding(d)}) \in [Request -> Nat]
    BY OnceTyped
  <2>5. Pending(m)' /\ m # d => Pending(m) /\ row'[m].pending = row[m].pending
    BY <2>2 DEF Pending, Is
  <2>6. m = d => row'[m].pending = "add"
    BY <2>2 DEF Is
  <2> QED
    BY <1>0, <2>1, <2>3, <2>4, <2>5, <2>6, PostCovers
<1>2. ASSUME NEW d \in Devices, Del(d) PROVE Covered(m)'
  <2>1. Invoke(out, Once({Deleting(d)}), cred) /\ pulled' = pulled
    BY <1>2 DEF Del
  <2>2. IF m = d THEN Is(row', m, "del") ELSE row'[m] = row[m]
    BY <1>2, RowSteps
  <2>3. /\ m = d => Once({Deleting(d)})[Deleting(m)] > 0
        /\ m # d => Once({Deleting(d)})[Adding(m)] = 0 /\ Once({Deleting(d)})[Deleting(m)] = 0
    BY <1>00, OnceTyped
  <2>4. Once({Deleting(d)}) \in [Request -> Nat]
    BY OnceTyped
  <2>5. Pending(m)' /\ m # d => Pending(m) /\ row'[m].pending = row[m].pending
    BY <2>2 DEF Pending, Is
  <2>6. m = d => row'[m].pending = "del"
    BY <2>2 DEF Is
  <2> QED
    BY <1>0, <2>1, <2>3, <2>4, <2>5, <2>6, PostCovers
<1>3. ASSUME ClearIp \/ \E d \in Devices : UpdateIp(d) PROVE Covered(m)'
  <2>1. /\ row'[m] = None <=> row[m] = None
        /\ row[m] # None => row'[m].pending = row[m].pending
    BY <1>3, RowSteps
  <2>2. PICK S \in SUBSET Devices :
          /\ Invoke(out, Once({Adding(d) : d \in S}), cred) /\ pulled' = pulled
          /\ m \in S => Is(row, m, "add")
    <3>1. ASSUME NEW d \in Devices, UpdateIp(d)
          PROVE  \E S \in SUBSET Devices :
                   /\ Invoke(out, Once({Adding(e) : e \in S}), cred) /\ pulled' = pulled
                   /\ m \in S => Is(row, m, "add")
      <4> DEFINE S == IF Is(row, d, "add") THEN {d} ELSE {}
      <4>1. {Adding(e) : e \in S} = IF Is(row, d, "add") THEN {Adding(d)} ELSE {}
        OBVIOUS
      <4>2. Invoke(out, Once({Adding(e) : e \in S}), cred) /\ pulled' = pulled
        BY <3>1, <4>1 DEF UpdateIp
      <4>3. S \in SUBSET Devices /\ (m \in S => Is(row, m, "add"))
        OBVIOUS
      <4> QED
        BY <4>2, <4>3
    <3>2. ASSUME ClearIp
          PROVE  \E S \in SUBSET Devices :
                   /\ Invoke(out, Once({Adding(e) : e \in S}), cred) /\ pulled' = pulled
                   /\ m \in S => Is(row, m, "add")
      <4> DEFINE S == {e \in {d \in Devices : Shown(row, d) /\ row[d].ip} : Is(row, e, "add")}
      <4>1. Invoke(out, Once({Adding(e) : e \in S}), cred) /\ pulled' = pulled
        BY <3>2 DEF ClearIp
      <4>2. S \in SUBSET Devices /\ (m \in S => Is(row, m, "add"))
        OBVIOUS
      <4> QED
        BY <4>1, <4>2
    <3> QED
      BY <1>3, <3>1, <3>2
  <2> DEFINE n == Once({Adding(d) : d \in S})
  <2>3. n \in [Request -> Nat]
    BY OnceTyped
  <2>4. m \in S => n[Adding(m)] > 0
    BY <1>00, OnceTyped
  <2>5. m \notin S => n[Adding(m)] = 0
    BY <1>00, OnceTyped
  <2>6. n[Deleting(m)] = 0
    BY <1>00, OnceTyped
  <2>7. Pending(m)' => Pending(m) /\ row'[m].pending = row[m].pending
    BY <2>1 DEF Pending, Is
  <2>8. Pending(m)' /\ m \in S => row'[m].pending = "add"
    BY <2>2, <2>7 DEF Is
  <2> HIDE DEF n
  <2>9. Invoke(out, n, cred) /\ pulled' = pulled
    BY <2>2 DEF n
  <2> QED
    BY <1>0, <2>3, <2>4, <2>5, <2>6, <2>7, <2>8, <2>9, PostCovers
<1>4. CASE EmptyDevices
  BY <1>4 DEF EmptyDevices, Covered, Pending, Is
<1>5. CASE Refresh \/ SignIn
  <2>1. PICK S \in SUBSET {Pulling}, valid \in BOOLEAN :
          Invoke(out, Once(S), valid) /\ pulled' = pulled /\ row' = row
    <3>1. CASE Refresh
      BY <1>0, <3>1 DEF Refresh
    <3>2. CASE SignIn
      <4>1. (IF pulled THEN {} ELSE {Pulling}) \in SUBSET {Pulling}
        OBVIOUS
      <4> QED
        BY <3>2, <4>1 DEF SignIn
    <3> QED
      BY <1>5, <3>1, <3>2
  <2>2. Once(S) \in [Request -> Nat] /\ Once(S)[Adding(m)] = 0 /\ Once(S)[Deleting(m)] = 0
    BY <1>00, OnceTyped
  <2>3. Pending(m)' => Pending(m) /\ row'[m].pending = row[m].pending
    BY <2>1 DEF Pending
  <2> QED
    BY <1>0, <2>1, <2>2, <2>3, PostCovers
<1>6. CASE Restart
  BY <1>6 DEF Restart, Covered
<1>7. CASE Expire \/ UNCHANGED vars
  BY <1>0, <1>7, StaysCovered DEF Expire, vars, Pending
<1>8. ASSUME NEW q \in Request, NEW st \in {"ok", "error"}, NEW effect \in BOOLEAN,
             CloudTakes(q, st, effect)
      PROVE  Covered(m)'
  <2>1. PICK a \in Request :
          /\ a.kind = q.kind /\ out'[a] > 0
          /\ q.kind # "all" => a.dev = q.dev
          /\ \A p \in Request : p # q /\ out[p] > 0 => out'[p] > 0
    BY <1>8, Served
  <2>2. \A p \in Request : p.kind \in {"add", "del"} /\ p.dev = m /\ out[p] > 0 =>
          Some(out', p.kind, m)
    BY <2>1 DEF Some
  <2>3. UNCHANGED <<row, pulled, failed>>
    BY <1>8 DEF CloudTakes
  <2> QED
    BY <2>2, <2>3, StaysCovered DEF Pending
<1>9. ASSUME NEW q \in Request, Answered(q) PROVE Covered(m)'
  <2>0. out[q] > 0
    BY <1>9 DEF Answered
  <2>1. CASE q.kind # "all" /\ Changed(q)
    <3>1. /\ UNCHANGED <<pulled, failed>> /\ out' = Without(q) /\ q.dev \in Devices
          /\ row' = AddDone(row, q.dev) \/ row' = DelDone(row, q.dev)
      BY <2>1, RequestParts DEF Changed
    <3>2. CASE q.dev = m
      <4>1. ~Pending(m)'
        <5>1. CASE row' = DelDone(row, q.dev)
          BY <3>1, <3>2, <5>1 DEF DelDone, Pending, Is, TypeOK
        <5>2. CASE row' = AddDone(row, q.dev)
          <6>1. row[m] # None => row'[m] = [row[m] EXCEPT !.pending = "none"]
            BY <3>1, <3>2, <5>2 DEF AddDone, TypeOK
          <6>2. row[m] # None => row[m] \in Row
            BY DEF TypeOK
          <6>3. row[m] # None => [row[m] EXCEPT !.pending = "none"].pending = "none"
            BY <6>2, RowsTyped
          <6>4. row[m] = None => row'[m] = None
            BY <3>1, <3>2, <5>2 DEF AddDone, TypeOK
          <6> QED
            BY <6>1, <6>3, <6>4 DEF Pending, Is
        <5> QED
          BY <3>1, <5>1, <5>2
      <4> QED
        BY <4>1 DEF Covered
    <3>3. CASE q.dev # m
      <4>1. row'[m] = row[m]
        BY <3>1, <3>3 DEF AddDone, DelDone, TypeOK
      <4>2. \A p \in Request : p.dev = m /\ out[p] > 0 => out'[p] > 0
        BY <2>0, <3>1, <3>3, WithoutTyped
      <4> QED
        BY <3>1, <4>1, <4>2, StaysCovered DEF Pending, Is, Some
    <3> QED
      BY <3>2, <3>3
  <2>2. CASE q.kind = "all" /\ PullDone(q)
    BY <2>0, <2>2, PullCovers
  <2>3. CASE Failed(q)
    <3>1. /\ UNCHANGED <<row, pulled>> /\ out' = Without(q)
          /\ failed \subseteq failed'
          /\ q.kind # "all" => q.dev \in failed'
      BY <2>3 DEF Failed
    <3>2. CASE q.kind # "all" /\ q.dev = m
      BY <3>1, <3>2 DEF Covered
    <3>3. CASE ~(q.kind # "all" /\ q.dev = m)
      <4>1. \A p \in Request : p.kind \in {"add", "del"} /\ p.dev = m /\ out[p] > 0 => out'[p] > 0
        BY <2>0, <3>1, <3>3, WithoutTyped
      <4> QED
        BY <3>1, <4>1, StaysCovered DEF Pending, Some
    <3> QED
      BY <3>2, <3>3
  <2> QED
    BY <1>9, <2>1, <2>2, <2>3 DEF Answered
<1> QED
  BY <1>1, <1>2, <1>3, <1>4, <1>5, <1>6, <1>7, <1>8, <1>9 DEF Next, Network

(***************************************************************************)
(* Once the list has been pulled, a pending row has its request under way  *)
(* or has failed, for any devices and any requests that overtake one       *)
(* another (awsDbService.cpp, syncLocal).                                  *)
(***************************************************************************)
THEOREM PendingStaysCovered == Spec => []PendingIsCovered
<1> DEFINE Inv == \A m \in Devices : Covered(m)
<1>1. Init => Inv
  BY DEF Init, Covered
<1>2. TypeOK /\ Inv /\ [Next]_vars => Inv'
  BY CoveredStep
<1>3. Inv => PendingIsCovered
  BY CoveredIs
<1> HIDE DEF Inv
<1> QED
  BY <1>1, <1>2, <1>3, TypeCorrect, PTL DEF Spec
=============================================================================
