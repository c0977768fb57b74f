------------------------- MODULE TransferQueueProofs -------------------------
(***************************************************************************)
(* What TransferQueue guarantees for every value of its constants.  The    *)
(* type invariant needs the members of a service to agree a little: a      *)
(* request that is out has a path.                                         *)
(***************************************************************************)
EXTENDS TransferQueue, TLAPS

Table == [Paths -> Row \cup {None}]

\* The services whose request, if one is out, is for a path.
Sound == {s \in Service : InFlight(s) => s.path \in Paths}

TypeInv == TypeOK /\ srv \in [Types -> Sound]

(* The least path of a list is in the list. *)
LEMMA FirstIsListed ==
  ASSUME NEW S \in SUBSET Paths, S # {}
  PROVE  First(S) \in S
BY PathsOrdered DEF First

(* What is noted of an answer keeps its type. *)
LEMMA AnsweredTyped ==
  ASSUME NEW t, NEW via \in {"none", "local", "p2p", "due", "lost"},
         NEW link, NEW deletes, NEW next
  PROVE  Answered(t, via, link, deletes, next) \in {via, next, "lost"}
BY DEF Answered

(* stop() leaves a service without a request. *)
LEMMA StopSound ==
  ASSUME NEW s \in Sound
  PROVE  Stop(s) \in Sound /\ ~InFlight(Stop(s)) /\ Stop(s).url = None
<1>1. Posted(s) \in SUBSET Answer
  BY DEF Posted, Sound, Service, Answer, InFlight
<1>2. Stop(s) \in Service
  BY <1>1, Zenon, SMT DEF Stop, Sound, Service
<1>3. Stop(s).st = "null" /\ Stop(s).url = None
  BY DEF Stop, Sound, Service
<1> QED
  BY <1>2, <1>3 DEF Sound, InFlight

(* The library ends the file of a service.                                 *)
LibEnded(s, ok) ==
  [s EXCEPT !.lib = None, !.cb = s.cb \cup {[path |-> s.lib, ok |-> ok]}]

LEMMA LibFinishIs ==
  ASSUME NEW t \in Types, NEW ok \in BOOLEAN, srv \in [Types -> Service], LibFinish(t, ok)
  PROVE  /\ srv' = [srv EXCEPT ![t] = LibEnded(srv[t], ok)]
         /\ srv'[t] = LibEnded(srv[t], ok)
<1>1. srv' = [srv EXCEPT ![t] = LibEnded(srv[t], ok)]
  BY Zenon DEF LibFinish, LibEnded
<1> QED
  BY <1>1

LEMMA LibEndedIs ==
  ASSUME NEW s \in Service, NEW ok \in BOOLEAN, s.lib # None
  PROVE  /\ LibEnded(s, ok) \in Service
         /\ LibEnded(s, ok).url = s.url
         /\ LibEnded(s, ok).via = s.via
         /\ LibEnded(s, ok).path = s.path
         /\ LibEnded(s, ok).st = s.st
         /\ LibEnded(s, ok).late = s.late
         /\ LibEnded(s, ok).lib = None
         /\ LibEnded(s, ok).posted = s.posted
         /\ LibEnded(s, ok).cb = s.cb \cup {[path |-> s.lib, ok |-> ok]}
<1>1. [path |-> s.lib, ok |-> ok] \in Answer
  BY DEF Service, Answer
<1> QED
  BY <1>1 DEF LibEnded, Service

(* upload() and download() start the file they are given. *)
LEMMA StartSound ==
  ASSUME NEW s \in Sound, NEW p \in Paths, local \in BOOLEAN,
         NEW s2 \in StartFile(s, p)
  PROVE  s2 \in Sound
<1>0. s \in Service /\ (InFlight(s) => s.path \in Paths)
  BY DEF Sound
<1>1. CASE s2 = [s EXCEPT !.url = p, !.via = "local", !.path = p, !.st = "running"]
  <2>1. s2 \in Service /\ s2.path = p
    BY <1>0, <1>1 DEF Service
  <2> QED
    BY <2>1 DEF Sound
<1>2. CASE s2 = [s EXCEPT !.url = p, !.via = "lost"]
  <2>1. s2 \in Service /\ s2.path = s.path /\ s2.st = s.st
    BY <1>0, <1>2 DEF Service
  <2> QED
    BY <1>0, <2>1 DEF Sound, InFlight
<1>3. CASE s2 = [s EXCEPT !.url = p, !.via = "p2p", !.lib = p]
  <2>1. s2 \in Service /\ s2.path = s.path /\ s2.st = s.st
    BY <1>0, <1>3 DEF Service
  <2> QED
    BY <1>0, <2>1 DEF Sound, InFlight
<1> QED
  BY <1>1, <1>2, <1>3, Zenon DEF StartFile

(* dbDataChanged() keeps a service sound. *)
LEMMA DataChangedSound ==
  ASSUME NEW s \in Sound, NEW l \in SUBSET Paths, NEW run, local \in BOOLEAN,
         NEW s2 \in DataChanged(s, l, run)
  PROVE  s2 \in Sound
<1> DEFINE stopped == IF local /\ s.url # None THEN Stop(s) ELSE s
<1>1. stopped \in Sound
  BY StopSound
<1>2. CASE s2 = s
  BY <1>2
<1>3. CASE s2 = stopped
  BY <1>1, <1>3
<1>4. CASE l # {} /\ s2 \in StartFile(stopped, First(l))
  <2>1. First(l) \in Paths
    BY <1>4, FirstIsListed
  <2> QED
    BY <1>1, <1>4, <2>1, StartSound
<1>5. s2 = s \/ s2 = stopped \/ (l # {} /\ s2 \in StartFile(stopped, First(l)))
  BY DEF DataChanged
<1> QED
  BY <1>2, <1>3, <1>4, <1>5

(* A signal keeps every service sound. *)
LEMMA ReactionsSound ==
  ASSUME NEW s \in Sound, NEW l \in SUBSET Paths, NEW runs, local \in BOOLEAN,
         NEW s2 \in Reactions(s, l, runs)
  PROVE  s2 \in Sound
<1>1. PICK run \in runs : s2 \in DataChanged(s, l, run)
  BY DEF Reactions
<1> QED
  BY <1>1, DataChangedSound

(* postDataChanged() of a well typed table. *)
LEMMA CommitTyped ==
  ASSUME TypeInv, db # None, NEW t \in Types, NEW r \in Table, NEW s \in Sound,
         NEW runs, Commit(t, r, s, runs)
  PROVE  /\ rows' \in [Devices -> Table]
         /\ list' \in [Types -> SUBSET Paths]
         /\ srv' \in [Types -> Sound]
<1>1. Active(r, t) \in SUBSET Paths
  BY DEF Active
<1>2. PICK s2 \in Reactions(s, Active(r, t), runs) : srv' = [srv EXCEPT ![t] = s2]
  BY DEF Commit
<1>3. s2 \in Sound
  BY <1>1, ReactionsSound DEF TypeInv, TypeOK
<1> QED
  BY <1>1, <1>2, <1>3 DEF Commit, TypeInv, TypeOK, Table

(* What the UPDATE and DELETE statements leave is a table. *)
LEMMA TablesTyped ==
  ASSUME NEW r \in Table, NEW t \in Types
  PROVE  /\ \A u : Without(r, t, u) \in Table
         /\ \A S, on : on \in BOOLEAN => Switched(r, t, S, on) \in Table
         /\ [p \in Paths |-> IF r[p] \in [type : {t}, on : BOOLEAN]
                               THEN None ELSE r[p]] \in Table
         /\ \A p \in Paths : [r EXCEPT ![p] = [type |-> t, on |-> TRUE]] \in Table
         /\ NoRows \in Table
BY DEF Table, Without, Switched, NoRows, Row

(* deleteFromDb() keeps the types. *)
LEMMA DeleteFromDbTyped ==
  ASSUME TypeInv, NEW t \in Types, NEW s \in Sound, NEW runs,
         DeleteFromDb(t, s, runs) \/ Become(t, s)
  PROVE  /\ rows' \in [Devices -> Table]
         /\ list' \in [Types -> SUBSET Paths]
         /\ srv' \in [Types -> Sound]
<1>1. CASE Become(t, s)
  BY <1>1 DEF Become, TypeInv, TypeOK, Table
<1>2. CASE db # None /\ Commit(t, Without(rows[db], t, Text(s.url)), s, runs)
  <2>1. rows[db] \in Table
    BY <1>2 DEF TypeInv, TypeOK, Table
  <2> QED
    BY <1>2, <2>1, TablesTyped, CommitTyped
<1> QED
  BY <1>1, <1>2 DEF DeleteFromDb

(***************************************************************************)
(* A callback of the library's thread takes one answer and leaves the      *)
(* request of the service alone.  It notes the answer, and when that has   *)
(* deleted a row and left others, the change is posted.                    *)
(***************************************************************************)
SameRequest(s, s2) ==
  s2.url = s.url /\ s2.path = s.path /\ s2.st = s.st /\ s2.lib = s.lib

Heard(s, a, s2) ==
  /\ SameRequest(s, s2) /\ s2.cb = s.cb \ {a} /\ s2.posted >= s.posted
  /\ \/ s2.via = s.via /\ (a.path # s.url \/ s.via # "p2p")
     \/ s2.via = "due" /\ s2.posted > 0
     \/ s2.via = "lost"

LEMMA CallbackIs ==
  ASSUME NEW t \in Types, srv[t] \in Service, LibCallback(t)
  PROVE  \E a \in srv[t].cb, s \in Service :
           /\ Heard(srv[t], a, s)
           /\ srv' = [srv EXCEPT ![t] = s]
           /\ \/ UNCHANGED <<rows, list>>
              \/ /\ db # None /\ ~local /\ s.posted > 0
                 /\ rows' = [rows EXCEPT ![db] = Without(rows[db], t, Text(s.url))]
                 /\ list' = [list EXCEPT ![t] =
                              Active(Without(rows[db], t, Text(s.url)), t)]
<1> DEFINE via(a) == IF a.path = srv[t].url
                       THEN Answered(t, srv[t].via, "p2p", ~local /\ a.ok, "due")
                       ELSE srv[t].via
           s(a) == [srv[t] EXCEPT !.cb = @ \ {a}, !.via = via(a)]
           more(a) == [s(a) EXCEPT !.posted = @ + 1]
<1>1. PICK a \in srv[t].cb : IF ~local /\ a.ok THEN DeleteAndPost(t, s(a))
                                               ELSE Become(t, s(a))
  BY Zenon DEF LibCallback
<1>2. \/ via(a) = srv[t].via /\ (a.path # srv[t].url \/ srv[t].via # "p2p")
      \/ via(a) = "due" /\ ~local /\ a.ok /\ db # None
      \/ via(a) = "lost"
  BY DEF Answered
<1>3. via(a) \in {"none", "local", "p2p", "due", "lost"}
  BY <1>2 DEF Service
<1> HIDE DEF via
<1>4. /\ s(a) \in Service /\ SameRequest(srv[t], s(a)) /\ s(a).via = via(a)
      /\ s(a).cb = srv[t].cb \ {a} /\ s(a).posted = srv[t].posted
  BY <1>3 DEF Service, SameRequest
<1> HIDE DEF s
<1>5. /\ more(a) \in Service /\ SameRequest(srv[t], more(a)) /\ more(a).via = via(a)
      /\ more(a).cb = srv[t].cb \ {a} /\ more(a).posted = srv[t].posted + 1
      /\ more(a).url = s(a).url
  BY <1>4 DEF Service, SameRequest
<1> HIDE DEF more
<1>6. srv[t].posted \in Nat
  BY DEF Service
<1>7. CASE Become(t, s(a)) /\ (~local /\ a.ok => db = None)
  <2>1. Heard(srv[t], a, s(a))
    BY <1>2, <1>4, <1>6, <1>7 DEF Heard
  <2> QED
    BY <1>4, <1>7, <2>1 DEF Become
<1>8. CASE ~local /\ a.ok /\ db # None /\ DeleteAndPost(t, s(a))
  <2>1. Heard(srv[t], a, more(a))
    BY <1>2, <1>5, <1>6 DEF Heard
  <2>2. /\ srv' = [srv EXCEPT ![t] = more(a)]
        /\ rows' = [rows EXCEPT ![db] = Without(rows[db], t, Text(s(a).url))]
        /\ list' = [list EXCEPT ![t] = Active(Without(rows[db], t, Text(s(a).url)), t)]
    BY <1>8, Zenon DEF DeleteAndPost, more
  <2>3. more(a).posted > 0
    BY <1>5, <1>6
  <2> QED
    BY <1>5, <1>8, <2>1, <2>2, <2>3, Zenon
<1> QED
  BY <1>1, <1>7, <1>8 DEF DeleteAndPost

(* A posted signal is handled like any other, by the service of then.      *)
LEMMA HandleIs ==
  ASSUME TypeInv, NEW t \in Types, HandleChange(t)
  PROVE  \E s \in Sound, s2 \in Sound :
           /\ SameRequest(srv[t], s) /\ s.via = srv[t].via /\ s.cb = srv[t].cb
           /\ s2 \in Reactions(s, list[t], Reads(s))
           /\ srv' = [srv EXCEPT ![t] = Settled(s2)]
<1> DEFINE s == [srv[t] EXCEPT !.posted = @ - 1]
<1>1. srv[t] \in Sound /\ srv[t].posted > 0 /\ local \in BOOLEAN /\ list[t] \in SUBSET Paths
  BY DEF HandleChange, TypeInv, TypeOK
<1>2. /\ s \in Sound /\ SameRequest(srv[t], s) /\ s.via = srv[t].via
      /\ s.cb = srv[t].cb
  BY <1>1 DEF Sound, Service, InFlight, SameRequest
<1>3. PICK s2 \in Reactions(s, list[t], Reads(s)) :
        srv' = [srv EXCEPT ![t] = Settled(s2)]
  BY DEF HandleChange
<1> HIDE DEF s
<1>4. s2 \in Sound
  BY <1>1, <1>2, <1>3, ReactionsSound
<1> QED
  BY <1>2, <1>3, <1>4

LEMMA SettledIs ==
  ASSUME NEW s \in Sound
  PROVE  /\ Settled(s) \in Sound /\ SameRequest(s, Settled(s))
         /\ Settled(s).cb = s.cb /\ Settled(s).posted = s.posted
         /\ Settled(s).via = IF s.via = "due" THEN "lost" ELSE s.via
<1> DEFINE via == IF s.via = "due" THEN "lost" ELSE s.via
<1>1. s \in Service /\ via \in {"none", "local", "p2p", "due", "lost"}
  BY DEF Sound, Service
<1>2. Settled(s) = [s EXCEPT !.via = via]
  BY DEF Settled
<1> HIDE DEF via
<1>3. /\ Settled(s) \in Service /\ SameRequest(s, Settled(s))
      /\ Settled(s).cb = s.cb /\ Settled(s).posted = s.posted /\ Settled(s).via = via
  BY <1>1, <1>2 DEF Service, SameRequest
<1> QED
  BY <1>3 DEF Sound, InFlight, SameRequest, via

LEMMA InitTyped == Init => TypeInv
<1> SUFFICES ASSUME Init PROVE TypeInv
  OBVIOUS
<1>1. FreshService \in Sound /\ Sound \subseteq Service
  BY DEF FreshService, Sound, Service, InFlight
<1>2. srv \in [Types -> Sound] /\ srv \in [Types -> Service]
  BY <1>1 DEF Init
<1>3. rows \in [Devices -> [Paths -> Row \cup {None}]]
  BY DEF Init, NoRows
<1>4. /\ list \in [Types -> SUBSET Paths]
      /\ ops \in 0..MaxOps
  BY OpsBounded DEF Init
<1>5. /\ mac \in Devices \cup {None} /\ db \in Devices \cup {None}
      /\ local \in BOOLEAN /\ dirs \in SUBSET Devices
      /\ moved \in SUBSET Jobs /\ said \in [ask : SUBSET Jobs, back : SUBSET Jobs]
  BY DEF Init, Silence
<1> QED
  BY <1>2, <1>3, <1>4, <1>5 DEF TypeInv, TypeOK

(* Every step of the user keeps the types. *)
LEMMA UserTyped == TypeInv /\ (UserStep \/ Crash) => TypeInv'
<1> SUFFICES ASSUME TypeInv, UserStep \/ Crash
             PROVE  TypeInv'
  OBVIOUS
<1> DEFINE Typed == /\ rows' \in [Devices -> Table]
                    /\ list' \in [Types -> SUBSET Paths]
                    /\ srv' \in [Types -> Sound]
<1>a. \A op : Step(op) => ops' \in 0..MaxOps
  BY OpsBounded DEF Step, TypeInv, TypeOK
<1>b. ASSUME db # None PROVE rows[db] \in Table
  BY <1>b DEF TypeInv, TypeOK, Table
<1>c. \A t \in Types : srv[t] \in Sound
  BY DEF TypeInv
<1>d. Sound \subseteq Service
  BY DEF Sound
<1>e. FreshService \in Sound
  BY DEF FreshService, Sound, Service, InFlight
<1>f. Opened \in Devices \cup {None}
  BY DEF Opened, TypeInv, TypeOK
<1>1. ASSUME NEW t \in Types, NEW p \in Paths, Add(t, p) PROVE TypeInv'
  <2>1. Typed
    BY <1>1, <1>b, <1>c, TablesTyped, CommitTyped DEF Add
  <2>2. ops' \in 0..MaxOps
    BY <1>1, <1>a DEF Add
  <2> QED
    BY <1>1, <1>d, <2>1, <2>2 DEF Add, TypeInv, TypeOK, Table, Jobs
<1>2. ASSUME NEW t \in Types, NEW p \in Paths, Del(t, p) PROVE TypeInv'
  <2>1. Typed
    BY <1>2, <1>b, <1>c, TablesTyped, CommitTyped DEF Del
  <2> QED
    BY <1>2, <1>a, <1>d, <2>1 DEF Del, TypeInv, TypeOK, Table, TakesBack, Jobs
<1>3. ASSUME NEW t \in Types, NEW S, NEW on \in BOOLEAN, StartStop(t, S, on)
      PROVE  TypeInv'
  <2>1. Typed
    BY <1>3, <1>b, <1>c, TablesTyped, CommitTyped DEF StartStop
  <2> QED
    BY <1>3, <1>a, <1>d, <2>1 DEF StartStop, TypeInv, TypeOK, Table, Silence
<1>4. ASSUME NEW t \in Types, Empty(t) PROVE TypeInv'
  <2>1. Typed
    BY <1>4, <1>b, <1>c, TablesTyped, CommitTyped DEF Empty
  <2> QED
    BY <1>4, <1>a, <1>d, <2>1 DEF Empty, TypeInv, TypeOK, Table, TakesBack, Jobs
<1>5. CASE EmptyAll
  <2>1. rows' \in [Devices -> Table]
    BY <1>5, TablesTyped DEF EmptyAll, TypeInv, TypeOK, Table, NoRows
  <2>2. list' \in [Types -> SUBSET Paths]
    BY <1>5 DEF EmptyAll, Active
  <2>3. PICK up \in Reactions(srv["upload"], list'["upload"], Reads(srv["upload"])),
             down \in Reactions(srv["download"], list'["download"], Reads(srv["download"])) :
          srv' = [t \in Types |-> IF t = "upload" THEN up ELSE down]
    BY <1>5 DEF EmptyAll
  <2>4. up \in Sound /\ down \in Sound
    BY <1>c, <2>2, <2>3, ReactionsSound DEF Types, TypeInv, TypeOK
  <2>5. srv' \in [Types -> Sound]
    BY <2>3, <2>4
  <2> QED
    BY <1>5, <1>a, <1>d, <1>f, <2>1, <2>2, <2>5
       DEF EmptyAll, TypeInv, TypeOK, Table, TakesBack
<1>6. ASSUME NEW d \in Devices, NEW cfg \in BOOLEAN, NEW loc \in BOOLEAN,
             IntoDevice(d, cfg, loc)
      PROVE  TypeInv'
  BY <1>6, <1>a DEF IntoDevice, TypeInv, TypeOK, Silence
<1>7. ASSUME Forget, rows' \in [Devices -> Table], ops' \in 0..MaxOps PROVE TypeInv'
  BY <1>7, <1>d, <1>e DEF Forget, TypeInv, TypeOK, Table, Silence
<1>8. CASE Exit
  <2>1. rows' \in [Devices -> Table]
    <3>1. "upload" \in Types /\ "download" \in Types
      BY DEF Types
    <3> QED
      BY <1>8, <1>b, <3>1, TablesTyped DEF Exit, TypeInv, TypeOK, Table
  <2> QED
    BY <1>8, <1>7, <1>a, <2>1 DEF Exit
<1>9. CASE Crash
  BY <1>9, <1>7, OpsBounded DEF Crash, TypeInv, TypeOK, Table
<1> QED
  BY <1>1, <1>2, <1>3, <1>4, <1>5, <1>6, <1>8, <1>9 DEF UserStep

(* Every answer keeps the types. *)
LEMMA AnswersTyped ==
  ASSUME TypeInv, NEW t \in Types, Answers(t)
  PROVE  TypeInv'
<1>a. srv[t] \in Sound /\ Sound \subseteq Service
  BY DEF TypeInv, Sound
<1>1. ASSUME NEW ok \in BOOLEAN, NetFinish(t, ok) PROVE TypeInv'
  <2>1. srv[t].path \in Paths
    BY <1>a, <1>1 DEF NetFinish, Sound, InFlight
  <2>2. [srv[t] EXCEPT !.st = IF ok THEN "ok" ELSE "err"] \in Sound
    BY <1>a, <2>1 DEF Sound, Service, InFlight
  <2>3. srv' \in [Types -> Sound]
    BY <1>1, <2>2 DEF NetFinish, TypeInv
  <2> QED
    BY <1>a, <1>1, <2>1, <2>3 DEF NetFinish, TypeInv, TypeOK, Silence, Jobs
<1>2. ASSUME NEW ok \in BOOLEAN, LibFinish(t, ok) PROVE TypeInv'
  <2>1. srv[t].lib \in Paths
    BY <1>a, <1>2 DEF LibFinish, Service
  <2>2. srv[t].lib # None
    BY <1>2 DEF LibFinish
  <2>3. LibEnded(srv[t], ok) \in Sound
    BY <1>a, <2>2, LibEndedIs DEF Sound, InFlight
  <2>4. srv' \in [Types -> Sound]
    BY <1>2, <2>3, LibFinishIs DEF TypeInv, TypeOK
  <2> QED
    BY <1>a, <1>2, <2>1, <2>4 DEF LibFinish, TypeInv, TypeOK, Silence, Jobs
<1>3. ASSUME NEW s \in Sound, NEW runs, DeleteFromDb(t, s, runs) \/ Become(t, s),
             UNCHANGED <<mac, db, local, dirs, moved, ops>>, said' = Silence
      PROVE  TypeInv'
  BY <1>a, <1>3, DeleteFromDbTyped DEF TypeInv, TypeOK, Table, Silence
<1>4. CASE Deliver(t)
  <2> DEFINE via == Answered(t, srv[t].via, "local", local => srv[t].st = "ok", srv[t].via)
  <2>0. via \in {"none", "local", "p2p", "due", "lost"}
    BY <1>a, AnsweredTyped DEF Service
  <2> HIDE DEF via
  <2>1. [srv[t] EXCEPT !.st = "freed", !.via = via] \in Sound
    BY <1>a, <2>0 DEF Sound, Service, InFlight
  <2> QED
    BY <1>3, <1>4, <2>1 DEF Deliver, via
<1>5. CASE DeliverLate(t)
  <2>1. \A a : [srv[t] EXCEPT !.late = @ \ {a}] \in Sound
    BY <1>a DEF Sound, Service, InFlight
  <2> QED
    BY <1>3, <1>5, <2>1 DEF DeliverLate
<1>6. CASE LibCallback(t)
  <2>1. PICK a \in srv[t].cb, s \in Service :
          /\ Heard(srv[t], a, s)
          /\ srv' = [srv EXCEPT ![t] = s]
          /\ \/ UNCHANGED <<rows, list>>
             \/ /\ db # None
                /\ rows' = [rows EXCEPT ![db] = Without(rows[db], t, Text(s.url))]
                /\ list' = [list EXCEPT ![t] =
                              Active(Without(rows[db], t, Text(s.url)), t)]
    BY <1>a, <1>6, CallbackIs
  <2>2. s \in Sound
    BY <1>a, <2>1 DEF Heard, SameRequest, Sound, InFlight
  <2>3. /\ rows' \in [Devices -> Table] /\ list' \in [Types -> SUBSET Paths]
        /\ srv' \in [Types -> Sound]
    <3>1. \A r : Active(r, t) \in SUBSET Paths
      BY DEF Active
    <3>2. db # None => Without(rows[db], t, Text(s.url)) \in Table
      <4>1. db # None => rows[db] \in Table
        BY DEF TypeInv, TypeOK, Table
      <4> QED
        BY <4>1, TablesTyped
    <3>3. /\ rows \in [Devices -> Table] /\ list \in [Types -> SUBSET Paths]
          /\ srv \in [Types -> Sound]
      BY DEF TypeInv, TypeOK, Table
    <3> QED
      BY <2>1, <2>2, <3>1, <3>2, <3>3
  <2> QED
    BY <1>6, <1>a, <2>3 DEF LibCallback, TypeInv, TypeOK, Table, Silence
<1>7. CASE HandleChange(t)
  <2>1. PICK s2 \in Sound : srv' = [srv EXCEPT ![t] = Settled(s2)]
    BY <1>7, HandleIs
  <2>2. srv' \in [Types -> Sound]
    BY <2>1, SettledIs DEF TypeInv
  <2> QED
    BY <1>7, <1>a, <2>2 DEF HandleChange, TypeInv, TypeOK, Silence
<1> QED
  BY <1>1, <1>2, <1>4, <1>5, <1>6, <1>7 DEF Answers

LEMMA TypeInvariance == Spec => []TypeInv
<1>1. TypeInv /\ [Next]_vars => TypeInv'
  <2>1. TypeInv /\ UNCHANGED vars => TypeInv'
    BY DEF TypeInv, TypeOK, vars
  <2> QED
    BY <2>1, UserTyped, AnswersTyped DEF Next
<1> QED
  BY <1>1, InitTyped, PTL DEF Spec

(***************************************************************************)
(* The members of the two services, the lists and the tables keep their    *)
(* types: no answer, however late, makes a service point to a path that is *)
(* none, whatever the devices, the paths and the faults.                   *)
(***************************************************************************)
THEOREM TypeCorrect == Spec => []TypeOK
<1>1. TypeInv => TypeOK
  BY DEF TypeInv
<1> QED
  BY <1>1, TypeInvariance, PTL

-----------------------------------------------------------------------------
(***************************************************************************)
(* Over the local link.  Without p2p, a device that was entered is always  *)
(* reached over the local link; before that there is no table and no       *)
(* request.                                                                *)
(***************************************************************************)
Agrees(s) == InFlight(s) => s.url = s.path

Entered ==
  /\ local <=> mac # None
  /\ mac = None => db = None /\ \A t \in Types : ~InFlight(srv[t])

LinkInv == TypeInv /\ Entered /\ RunningIsListed

(* The files that dbDataChanged() starts or goes on with are in the list.  *)
LEMMA DataChangedListed ==
  ASSUME NEW s \in Sound, Agrees(s), local, NEW l \in SUBSET Paths, NEW run,
         NEW s2 \in DataChanged(s, l, run), InFlight(s2)
  PROVE  s2.url = s2.path /\ s2.path \in l
<1> DEFINE stopped == IF s.url # None THEN Stop(s) ELSE s
<1>1. stopped \in Sound /\ ~InFlight(stopped)
  BY StopSound, NoneIsNothing DEF Sound, Agrees
<1>2. CASE s2 = s /\ s.url # None /\ Text(s.url) \in l
  <2>1. Text(s.url) = s.url
    BY <1>2, NoneIsNothing DEF Text
  <2> QED
    BY <1>2, <2>1 DEF Agrees
<1>3. CASE s2 = stopped
  BY <1>1, <1>3
<1>4. CASE l # {} /\ s2 \in StartFile(stopped, First(l))
  <2>1. First(l) \in l
    BY <1>4, FirstIsListed
  <2>2. \/ s2 = [stopped EXCEPT !.url = First(l), !.via = "local",
                               !.path = First(l), !.st = "running"]
        \/ s2 = [stopped EXCEPT !.url = First(l), !.via = "lost"]
    BY <1>4 DEF StartFile
  <2>3. CASE s2 = [stopped EXCEPT !.url = First(l), !.via = "local",
                                 !.path = First(l), !.st = "running"]
    BY <1>1, <2>1, <2>3 DEF Sound, Service
  <2>4. CASE s2 = [stopped EXCEPT !.url = First(l), !.via = "lost"]
    BY <1>1, <2>4 DEF Sound, Service, InFlight
  <2> QED
    BY <2>2, <2>3, <2>4
<1>5. \/ s2 = s /\ s.url # None /\ Text(s.url) \in l
      \/ s2 = stopped
      \/ l # {} /\ s2 \in StartFile(stopped, First(l))
  BY DEF DataChanged
<1> QED
  BY <1>2, <1>3, <1>4, <1>5

(* The same for a signal whose read of isRunning() may be anything. *)
LEMMA ReactionsListed ==
  ASSUME NEW s \in Sound, Agrees(s), local, NEW l \in SUBSET Paths, NEW runs,
         NEW s2 \in Reactions(s, l, runs), InFlight(s2)
  PROVE  s2.url = s2.path /\ s2.path \in l
<1>1. PICK run \in runs : s2 \in DataChanged(s, l, run)
  BY DEF Reactions
<1> QED
  BY <1>1, DataChangedListed

LEMMA CommitListed ==
  ASSUME LinkInv, local, NEW t \in Types, NEW r, NEW s \in Sound, Agrees(s),
         NEW runs, Commit(t, r, s, runs)
  PROVE  RunningIsListed'
<1>1. Active(r, t) \in SUBSET Paths
  BY DEF Active
<1>2. PICK s2 \in Reactions(s, Active(r, t), runs) : srv' = [srv EXCEPT ![t] = s2]
  BY DEF Commit
<1>3. InFlight(s2) => s2.url = s2.path /\ s2.path \in Active(r, t)
  BY <1>1, ReactionsListed
<1>4. list' = [list EXCEPT ![t] = Active(r, t)]
  BY DEF Commit
<1> SUFFICES ASSUME NEW u \in Types, InFlight(srv'[u])
             PROVE  srv'[u].url = srv'[u].path /\ srv'[u].path \in list'[u]
  BY DEF RunningIsListed
<1>5. CASE u = t
  BY <1>2, <1>3, <1>4, <1>5 DEF LinkInv, TypeInv, TypeOK
<1>6. CASE u # t
  BY <1>2, <1>4, <1>6 DEF LinkInv, TypeInv, TypeOK, RunningIsListed
<1> QED
  BY <1>5, <1>6

(* An answer handled by a service that is as busy as before, or less.      *)
LEMMA DeleteFromDbListed ==
  ASSUME LinkInv, NEW t \in Types, NEW s \in Sound, NEW runs,
         InFlight(s) => /\ InFlight(srv[t])
                        /\ s.url = srv[t].url
                        /\ s.path = srv[t].path,
         DeleteFromDb(t, s, runs) \/ Become(t, s)
  PROVE  RunningIsListed'
<1>1. Agrees(s)
  BY DEF LinkInv, RunningIsListed, Agrees
<1>2. CASE Become(t, s)
  BY <1>2 DEF Become, LinkInv, TypeInv, RunningIsListed
<1>3. CASE db # None /\ Commit(t, Without(rows[db], t, Text(s.url)), s, runs)
  BY <1>1, <1>3, CommitListed DEF LinkInv, Entered
<1> QED
  BY <1>2, <1>3 DEF DeleteFromDb

LEMMA InitLink == Init => LinkInv
<1> SUFFICES ASSUME Init PROVE LinkInv
  OBVIOUS
<1>1. \A t \in Types : ~InFlight(srv[t])
  BY DEF Init, FreshService, InFlight
<1> QED
  BY <1>1, InitTyped DEF Init, LinkInv, Entered, RunningIsListed

LEMMA UserLink ==
  ASSUME "p2p" \notin Ops, LinkInv, UserStep \/ Crash
  PROVE  LinkInv'
<1>a. TypeInv'
  BY UserTyped DEF LinkInv
<1>b. \A t \in Types : srv[t] \in Sound /\ Agrees(srv[t])
  BY DEF LinkInv, TypeInv, RunningIsListed, Agrees
<1>c. db # None => local
  BY DEF LinkInv, Entered
<1>d. ASSUME UNCHANGED <<mac, db, local>>, RunningIsListed', mac # None
      PROVE  LinkInv'
  BY <1>a, <1>d DEF LinkInv, Entered
<1>e. db # None => mac # None
  BY DEF LinkInv, Entered
<1>1. ASSUME NEW t \in Types, NEW p \in Paths, Add(t, p) PROVE LinkInv'
  BY <1>1, <1>b, <1>c, <1>d, <1>e, CommitListed DEF Add
<1>2. ASSUME NEW t \in Types, NEW p \in Paths, Del(t, p) PROVE LinkInv'
  BY <1>2, <1>b, <1>c, <1>d, <1>e, CommitListed DEF Del
<1>3. ASSUME NEW t \in Types, NEW S, NEW on, StartStop(t, S, on) PROVE LinkInv'
  BY <1>3, <1>b, <1>c, <1>d, <1>e, CommitListed DEF StartStop
<1>4. ASSUME NEW t \in Types, Empty(t) PROVE LinkInv'
  BY <1>4, <1>b, <1>c, <1>d, <1>e, CommitListed DEF Empty
<1>5. CASE EmptyAll
  <2>1. PICK up \in Reactions(srv["upload"], list'["upload"], Reads(srv["upload"])),
             down \in Reactions(srv["download"], list'["download"], Reads(srv["download"])) :
          srv' = [t \in Types |-> IF t = "upload" THEN up ELSE down]
    BY <1>5 DEF EmptyAll
  <2>2. \A t \in Types : list'[t] \in SUBSET Paths
    BY <1>a DEF TypeInv, TypeOK
  <2>3. CASE local
    <3>1. InFlight(up) => up.url = up.path /\ up.path \in list'["upload"]
      BY <1>b, <2>1, <2>2, <2>3, ReactionsListed DEF Types
    <3>2. InFlight(down) => down.url = down.path /\ down.path \in list'["download"]
      BY <1>b, <2>1, <2>2, <2>3, ReactionsListed DEF Types
    <3>3. RunningIsListed'
      BY <2>1, <3>1, <3>2 DEF RunningIsListed, Types
    <3> QED
      BY <1>5, <1>a, <2>3, <3>3 DEF EmptyAll, LinkInv, Entered
  <2>4. CASE ~local
    <3>1. mac = None /\ db' = None
      BY <1>5, <2>4, NoneIsNothing DEF EmptyAll, Opened, LinkInv, Entered, TypeInv, TypeOK
    <3>2. \A t \in Types : list'[t] = {}
      BY <1>5, <3>1 DEF EmptyAll
    <3>3. \A s, run : DataChanged(s, {}, run) = {s}
      BY <2>4 DEF DataChanged
    <3>4. \A t \in Types : \A s \in Reactions(srv[t], list'[t], Reads(srv[t])) : s = srv[t]
      <4> TAKE t \in Types
      <4> TAKE s \in Reactions(srv[t], list'[t], Reads(srv[t]))
      <4>1. PICK run : s \in DataChanged(srv[t], {}, run)
        BY <3>2 DEF Reactions
      <4> QED
        BY <3>3, <4>1
    <3>5. \A t \in Types : srv'[t] = srv[t]
      BY <2>1, <3>4 DEF Types
    <3>6. \A t \in Types : ~InFlight(srv'[t])
      BY <3>1, <3>5 DEF LinkInv, Entered
    <3> QED
      BY <1>5, <1>a, <2>4, <3>1, <3>6 DEF EmptyAll, LinkInv, Entered, RunningIsListed
  <2> QED
    BY <2>3, <2>4
<1>6. ASSUME NEW d \in Devices, NEW cfg, NEW loc \in BOOLEAN, IntoDevice(d, cfg, loc)
      PROVE  LinkInv'
  <2>1. mac' # None /\ local'
    BY <1>6, NoneIsNothing DEF IntoDevice
  <2>2. RunningIsListed'
    BY <1>6 DEF IntoDevice, LinkInv, RunningIsListed
  <2> QED
    BY <1>a, <2>1, <2>2 DEF LinkInv, Entered
<1>7. ASSUME Forget PROVE LinkInv'
  <2>1. \A t \in Types : ~InFlight(srv'[t])
    BY <1>7 DEF Forget, FreshService, InFlight
  <2> QED
    BY <1>7, <1>a, <2>1 DEF Forget, LinkInv, Entered, RunningIsListed
<1>8. CASE Exit \/ Crash
  BY <1>7, <1>8 DEF Exit, Crash
<1> QED
  BY <1>1, <1>2, <1>3, <1>4, <1>5, <1>6, <1>8 DEF UserStep

LEMMA AnswersLink ==
  ASSUME LinkInv, NEW t \in Types, Answers(t)
  PROVE  LinkInv'
<1>a. TypeInv'
  BY AnswersTyped DEF LinkInv
<1>b. UNCHANGED <<mac, db, local>>
  BY Zenon DEF Answers, NetFinish, LibFinish, Deliver, DeliverLate, LibCallback, HandleChange
<1>c. srv[t] \in Sound /\ srv[t] \in Service /\ srv \in [Types -> Service]
  BY DEF LinkInv, TypeInv, Sound
<1>d. ASSUME RunningIsListed', \A u \in Types : InFlight(srv'[u]) => local
      PROVE  LinkInv'
  BY <1>a, <1>b, <1>d DEF LinkInv, Entered
<1>e. \A u \in Types : InFlight(srv[u]) => local
  BY DEF LinkInv, Entered
<1>1. ASSUME NEW s, srv' = [srv EXCEPT ![t] = s], UNCHANGED list,
             InFlight(s) => /\ InFlight(srv[t])
                            /\ s.url = srv[t].url
                            /\ s.path = srv[t].path
      PROVE  LinkInv'
  <2>1. RunningIsListed'
    BY <1>1, <1>c DEF LinkInv, RunningIsListed
  <2>2. \A u \in Types : InFlight(srv'[u]) => local
    BY <1>1, <1>c, <1>e
  <2> QED
    BY <1>d, <2>1, <2>2
<1>2. ASSUME NEW ok \in BOOLEAN, NetFinish(t, ok) PROVE LinkInv'
  <2> DEFINE s == [srv[t] EXCEPT !.st = IF ok THEN "ok" ELSE "err"]
  <2>1. s.url = srv[t].url /\ s.path = srv[t].path /\ InFlight(srv[t])
    BY <1>2, <1>c DEF NetFinish, Service, InFlight
  <2> QED
    BY <1>1, <1>2, <2>1 DEF NetFinish
<1>3. ASSUME NEW ok \in BOOLEAN, LibFinish(t, ok) PROVE LinkInv'
  <2> DEFINE s == LibEnded(srv[t], ok)
  <2>1. s.url = srv[t].url /\ s.path = srv[t].path /\ s.st = srv[t].st
    BY <1>c, <1>3, LibEndedIs DEF LibFinish
  <2>2. srv' = [srv EXCEPT ![t] = s]
    BY <1>c, <1>3, LibFinishIs
  <2>3. UNCHANGED list
    BY <1>3, Zenon DEF LibFinish
  <2> QED
    BY <1>1, <2>1, <2>2, <2>3 DEF InFlight
<1>4. ASSUME NEW s \in Sound, NEW runs, DeleteFromDb(t, s, runs) \/ Become(t, s),
             InFlight(s) => /\ InFlight(srv[t])
                            /\ s.url = srv[t].url
                            /\ s.path = srv[t].path
      PROVE  LinkInv'
  <2>1. RunningIsListed'
    BY <1>4, DeleteFromDbListed
  <2>2. CASE Become(t, s)
    BY <1>1, <1>4, <2>2 DEF Become
  <2>3. CASE db # None
    <3>1. local
      BY <2>3 DEF LinkInv, Entered
    <3> QED
      BY <1>d, <2>1, <3>1
  <2> QED
    BY <1>4, <2>2, <2>3 DEF DeleteFromDb
<1>5. CASE Deliver(t)
  <2> DEFINE via == Answered(t, srv[t].via, "local", local => srv[t].st = "ok", srv[t].via)
             s == [srv[t] EXCEPT !.st = "freed", !.via = via]
  <2>0. via \in {"none", "local", "p2p", "due", "lost"}
    BY <1>c, AnsweredTyped DEF Service
  <2> HIDE DEF via
  <2>1. s \in Sound /\ ~InFlight(s)
    BY <1>c, <2>0 DEF Sound, Service, InFlight
  <2> QED
    BY <1>4, <1>5, <2>1 DEF Deliver, via
<1>6. CASE DeliverLate(t)
  <2>1. PICK a \in srv[t].late :
          LET s == [srv[t] EXCEPT !.late = @ \ {a}]
          IN DeleteFromDb(t, s, Reads(s)) \/ Become(t, s)
    BY <1>6 DEF DeliverLate
  <2> DEFINE s == [srv[t] EXCEPT !.late = @ \ {a}]
  <2>2. s \in Sound /\ s.url = srv[t].url /\ s.path = srv[t].path /\ s.st = srv[t].st
    BY <1>c DEF Sound, Service, InFlight
  <2> QED
    BY <1>4, <2>1, <2>2 DEF InFlight
<1>7. CASE LibCallback(t)
  <2>1. PICK s : SameRequest(srv[t], s) /\ srv' = [srv EXCEPT ![t] = s] /\ UNCHANGED list
    <3>1. db # None => local
      BY DEF LinkInv, Entered
    <3> QED
      BY <1>c, <1>7, <3>1, CallbackIs DEF Heard
  <2> QED
    BY <1>1, <2>1 DEF SameRequest, InFlight
<1>8. CASE HandleChange(t)
  <2>1. PICK s \in Sound, s2 \in Sound :
          /\ SameRequest(srv[t], s) /\ s2 \in Reactions(s, list[t], Reads(s))
          /\ srv' = [srv EXCEPT ![t] = Settled(s2)]
    BY <1>8, HandleIs DEF LinkInv
  <2>2. Agrees(s)
    BY <2>1 DEF LinkInv, RunningIsListed, Agrees, SameRequest, InFlight
  <2>3. SameRequest(s2, Settled(s2)) /\ UNCHANGED list /\ list[t] \in SUBSET Paths
    BY <1>8, SettledIs DEF HandleChange, LinkInv, TypeInv, TypeOK
  <2>4. CASE local
    <3>1. InFlight(s2) => s2.url = s2.path /\ s2.path \in list[t]
      BY <2>1, <2>2, <2>3, <2>4, ReactionsListed
    <3>2. RunningIsListed'
      BY <1>c, <2>1, <2>3, <3>1 DEF LinkInv, RunningIsListed, SameRequest, InFlight
    <3> QED
      BY <1>d, <2>4, <3>2
  <2>5. CASE ~local
    <3>1. s2.st = s.st /\ ~InFlight(s)
      <4>1. PICK run : s2 \in DataChanged(s, list[t], run)
        BY <2>1 DEF Reactions
      <4>2. s2 = s \/ s2 \in StartFile(s, First(list[t]))
        BY <2>5, <4>1 DEF DataChanged
      <4>3. s2.st = s.st
        BY <2>5, <4>2 DEF StartFile, Sound, Service
      <4> QED
        BY <1>e, <2>1, <2>5, <4>3 DEF SameRequest, InFlight
    <3>2. ~InFlight(Settled(s2))
      BY <2>3, <3>1 DEF SameRequest, InFlight
    <3> QED
      BY <1>1, <2>1, <2>3, <3>2
  <2> QED
    BY <2>4, <2>5, <1>b DEF LinkInv, TypeInv, TypeOK
<1> QED
  BY <1>2, <1>3, <1>5, <1>6, <1>7, <1>8 DEF Answers

LEMMA LinkInvariance ==
  ASSUME "p2p" \notin Ops
  PROVE  Spec => []LinkInv
<1>1. LinkInv /\ UNCHANGED vars => LinkInv'
  <2>1. TypeInv /\ UNCHANGED vars => TypeInv'
    BY DEF TypeInv, TypeOK, vars
  <2> QED
    BY <2>1 DEF LinkInv, Entered, RunningIsListed, vars
<1>2. LinkInv /\ [Next]_vars => LinkInv'
  BY <1>1, UserLink, AnswersLink DEF Next
<1> QED
  BY <1>2, InitLink, PTL DEF Spec

(***************************************************************************)
(* As long as the devices are reached over the local link, the request     *)
(* that is out belongs to a file of the list and to the members of its     *)
(* service: for every number of devices, paths, changes and faults, with   *)
(* devices switched and rows replaced, and with whatever a read of a freed *)
(* reply gives.                                                            *)
(***************************************************************************)
THEOREM LocalRequestsAreListed ==
  ASSUME "p2p" \notin Ops
  PROVE  Spec => []RunningIsListed
<1>1. LinkInv => RunningIsListed
  BY DEF LinkInv
<1> QED
  BY <1>1, LinkInvariance, PTL

-----------------------------------------------------------------------------
(***************************************************************************)
(* Paused, deleted and foreign files.  The lists hold started rows of the  *)
(* open table.  Two things would break it: a row that is replaced by one   *)
(* of the other direction stays in its old list, and a switch of device    *)
(* opens another table without rebuilding the lists.                       *)
(***************************************************************************)
ListsStarted ==
  \A t \in Types : list[t] \subseteq IF db = None THEN {} ELSE Active(rows[db], t)

QueueInv == LinkInv /\ ListsStarted

(* The table r takes no started row of another direction away.             *)
Spares(r, t) == \A u \in Types \ {t} : Active(rows[db], u) \subseteq Active(r, u)

LEMMA CommitStarted ==
  ASSUME QueueInv, db # None, NEW t \in Types, NEW r \in Table, Spares(r, t),
         NEW s, NEW runs, Commit(t, r, s, runs), UNCHANGED db
  PROVE  ListsStarted'
<1>1. rows'[db] = r /\ list' = [list EXCEPT ![t] = Active(r, t)]
  BY DEF Commit, QueueInv, LinkInv, TypeInv, TypeOK
<1> SUFFICES ASSUME NEW u \in Types
             PROVE  list'[u] \subseteq Active(r, u)
  BY <1>1 DEF ListsStarted
<1>2. CASE u = t
  BY <1>1, <1>2 DEF QueueInv, LinkInv, TypeInv, TypeOK
<1>3. CASE u # t
  <2>1. list'[u] = list[u]
    BY <1>1, <1>3
  <2> QED
    BY <1>3, <2>1 DEF QueueInv, ListsStarted, Spares
<1> QED
  BY <1>2, <1>3

(* UPDATE and DELETE name the direction they are about. *)
LEMMA StatementsSpare ==
  ASSUME NEW t \in Types
  PROVE  /\ \A v : Spares(Without(rows[db], t, v), t)
         /\ \A S, on : Spares(Switched(rows[db], t, S, on), t)
         /\ Spares([p \in Paths |-> IF rows[db][p] \in [type : {t}, on : BOOLEAN]
                                    THEN None ELSE rows[db][p]], t)
<1>1. \A u \in Types \ {t} : [type |-> u, on |-> TRUE] \notin [type : {t}, on : BOOLEAN]
  OBVIOUS
<1> QED
  BY <1>1 DEF Spares, Without, Switched, Active

LEMMA QueueStep ==
  ASSUME {"p2p", "replace", "switch"} \cap Ops = {}, QueueInv, Next
  PROVE  ListsStarted'
<1>a. db # None => rows[db] \in Table
  BY DEF QueueInv, LinkInv, TypeInv, TypeOK, Table
<1>b. ASSUME UNCHANGED <<db, rows, list>> PROVE ListsStarted'
  BY <1>b DEF QueueInv, ListsStarted
<1>1. ASSUME NEW t \in Types, NEW p \in Paths, Add(t, p) PROVE ListsStarted'
  <2>1. rows[db][p] = None
    BY <1>1 DEF Add, Step
  <2> DEFINE r == [rows[db] EXCEPT ![p] = [type |-> t, on |-> TRUE]]
  <2>2. r \in Table
    BY <1>1, <1>a, TablesTyped DEF Add
  <2>3. Spares(r, t)
    <3> SUFFICES ASSUME NEW u \in Types \ {t}, NEW q \in Active(rows[db], u)
                 PROVE  q \in Active(r, u)
      BY DEF Spares
    <3>1. q \in Paths /\ rows[db][q] = [type |-> u, on |-> TRUE]
      BY DEF Active
    <3>2. CASE q # p
      BY <1>1, <1>a, <3>1, <3>2 DEF Active, Add, Table
    <3>3. CASE q = p
      BY <2>1, <3>1, <3>3, NoneIsNoRow DEF Types
    <3> QED
      BY <3>2, <3>3
  <2> QED
    BY <1>1, <2>2, <2>3, CommitStarted DEF Add
<1>2. ASSUME NEW t \in Types, NEW p \in Paths, Del(t, p) PROVE ListsStarted'
  BY <1>2, <1>a, TablesTyped, StatementsSpare, CommitStarted DEF Del
<1>3. ASSUME NEW t \in Types, NEW S, NEW on \in BOOLEAN, StartStop(t, S, on)
      PROVE  ListsStarted'
  BY <1>3, <1>a, TablesTyped, StatementsSpare, CommitStarted DEF StartStop
<1>4. ASSUME NEW t \in Types, Empty(t) PROVE ListsStarted'
  BY <1>4, <1>a, TablesTyped, StatementsSpare, CommitStarted DEF Empty
<1>5. CASE EmptyAll
  BY <1>5 DEF EmptyAll, ListsStarted
<1>6. ASSUME NEW d \in Devices, NEW cfg, NEW loc, IntoDevice(d, cfg, loc)
      PROVE  ListsStarted'
  <2>1. CASE mac = None
    <3>1. \A t \in Types : list[t] = {}
      BY <2>1 DEF QueueInv, LinkInv, Entered, ListsStarted
    <3> QED
      BY <1>6, <3>1 DEF IntoDevice, ListsStarted
  <2>2. CASE mac = d
    BY <1>6, <1>b, <2>2 DEF IntoDevice
  <2> QED
    BY <1>6, <2>1, <2>2 DEF IntoDevice, Step
<1>7. CASE Exit \/ Crash
  BY <1>7 DEF Exit, Crash, Forget, ListsStarted
<1>8. ASSUME NEW t \in Types, NEW s, NEW runs, UNCHANGED db,
             DeleteFromDb(t, s, runs) \/ Become(t, s)
      PROVE  ListsStarted'
  <2>1. CASE Become(t, s)
    BY <1>8, <1>b, <2>1 DEF Become
  <2>2. CASE db # None /\ Commit(t, Without(rows[db], t, Text(s.url)), s, runs)
    BY <1>8, <1>a, <2>2, TablesTyped, StatementsSpare, CommitStarted
  <2> QED
    BY <1>8, <2>1, <2>2 DEF DeleteFromDb
<1>9. ASSUME NEW t \in Types, Answers(t) PROVE ListsStarted'
  <2>1. CASE Deliver(t)
    BY <1>8, <2>1 DEF Deliver
  <2>2. CASE DeliverLate(t)
    BY <1>8, <2>2 DEF DeliverLate
  <2>3. CASE LibCallback(t)
    <3>1. db # None => local
      BY DEF QueueInv, LinkInv, Entered
    <3>2. srv[t] \in Service
      BY DEF QueueInv, LinkInv, TypeInv, Sound
    <3>3. UNCHANGED <<rows, list>>
      BY <2>3, <3>1, <3>2, CallbackIs
    <3> QED
      BY <1>b, <2>3, <3>3 DEF LibCallback
  <2>4. ASSUME NEW ok, NetFinish(t, ok) \/ LibFinish(t, ok) PROVE ListsStarted'
    BY <1>b, <2>4 DEF NetFinish, LibFinish
  <2>5. CASE HandleChange(t)
    BY <1>b, <2>5 DEF HandleChange
  <2> QED
    BY <1>9, <2>1, <2>2, <2>3, <2>4, <2>5 DEF Answers
<1> QED
  BY <1>1, <1>2, <1>3, <1>4, <1>5, <1>6, <1>7, <1>9 DEF Next, UserStep

(***************************************************************************)
(* What is on its way is a started row of the open table: a file that was  *)
(* paused or deleted is never sent, nor is one of another direction, with  *)
(* any number of devices and paths, as long as no row is replaced and the  *)
(* device is entered once in a session.                                    *)
(***************************************************************************)
THEOREM PausedFilesAreNotSent ==
  ASSUME {"p2p", "replace", "switch"} \cap Ops = {}
  PROVE  Spec => []PausedNeverSent
<1>1. Init => QueueInv
  BY InitLink DEF Init, QueueInv, ListsStarted
<1>2. QueueInv /\ [Next]_vars => ListsStarted'
  <2>1. CASE UNCHANGED vars
    BY <2>1 DEF vars, QueueInv, ListsStarted
  <2> QED
    BY <2>1, QueueStep
<1>3. QueueInv => PausedNeverSent
  <2> SUFFICES ASSUME QueueInv, NEW t \in Types, InFlight(srv[t])
               PROVE  db # None /\ rows[db][srv[t].path] = [type |-> t, on |-> TRUE]
    BY DEF PausedNeverSent
  <2>1. srv[t].path \in list[t]
    BY DEF QueueInv, LinkInv, RunningIsListed
  <2>2. list[t] \subseteq IF db = None THEN {} ELSE Active(rows[db], t)
    BY DEF QueueInv, ListsStarted
  <2> QED
    BY <2>1, <2>2 DEF Active
<1>4. Spec => []LinkInv
  BY LinkInvariance
<1> QED
  BY <1>1, <1>2, <1>3, <1>4, PTL DEF Spec, QueueInv

-----------------------------------------------------------------------------
(***************************************************************************)
(* Queues that stand still.  With every operation and every fault: what a  *)
(* list without a table is, and what a service remembers of its last file. *)
(* A file stays under way while its list is empty, so the second part does *)
(* not depend on the list.                                                 *)
(***************************************************************************)
Served(s) == s.url # None => UnderWay(s)

Pursued(l, s) == l # {} => s.url # None \/ s.posted > 0

\* The handler that is about to react has a file under way, or starts one.
Spurred(s, l, runs) == Served(s) \/ (l # {} /\ (local => runs = {FALSE}))

StallInv ==
  /\ TypeInv
  /\ db = None => \A t \in Types : list[t] = {}
  /\ \A t \in Types : Served(srv[t]) /\ Pursued(list[t], srv[t])

(* upload() and download() put the file they are given under way.          *)
LEMMA StartServed ==
  ASSUME NEW s \in Sound, NEW p \in Paths, local \in BOOLEAN,
         NEW s2 \in StartFile(s, p)
  PROVE  s2.url = p /\ UnderWay(s2)
<1>1. CASE s2 = [s EXCEPT !.url = p, !.via = "local", !.path = p, !.st = "running"]
  <2>1. s2.url = p /\ s2.via = "local" /\ s2.path = p /\ s2.st = "running"
    BY <1>1 DEF Sound, Service
  <2> QED
    BY <2>1 DEF UnderWay, InFlight
<1>2. CASE s2 = [s EXCEPT !.url = p, !.via = "lost"]
  BY <1>2 DEF Sound, Service, UnderWay
<1>3. CASE s2 = [s EXCEPT !.url = p, !.via = "p2p", !.lib = p]
  <2>1. s2.url = p /\ s2.via = "p2p" /\ s2.lib = p
    BY <1>3 DEF Sound, Service
  <2> QED
    BY <2>1 DEF UnderWay
<1> QED
  BY <1>1, <1>2, <1>3 DEF StartFile

(* dbDataChanged() leaves a file under way when there is one.  It may go   *)
(* on with what a service does; otherwise it starts something, or there is *)
(* nothing to start.                                                       *)
LEMMA DataChangedServed ==
  ASSUME NEW s \in Sound, NEW l \in SUBSET Paths, NEW run, local \in BOOLEAN,
         NEW s2 \in DataChanged(s, l, run),
         Served(s) \/ (l # {} /\ ~(local /\ run))
  PROVE  Served(s2) /\ Pursued(l, s2)
<1> DEFINE stopped == IF local /\ s.url # None THEN Stop(s) ELSE s
<1>1. CASE s2 = s /\ local /\ run /\ s.url # None
  BY <1>1 DEF Pursued
<1>2. CASE s2 = stopped /\ l = {}
  <2>1. stopped.url = None \/ stopped = s
    BY StopSound
  <2> QED
    BY <1>2, <2>1 DEF Served, Pursued
<1>3. CASE l # {} /\ s2 \in StartFile(stopped, First(l))
  <2>1. stopped \in Sound /\ First(l) \in Paths
    BY <1>3, StopSound, FirstIsListed
  <2>2. s2.url = First(l) /\ UnderWay(s2)
    BY <1>3, <2>1, StartServed
  <2> QED
    BY <2>1, <2>2, NoneIsNothing DEF Served, Pursued
<1> QED
  BY <1>1, <1>2, <1>3 DEF DataChanged

(* The same for a signal whose read of isRunning() may be anything.        *)
LEMMA ReactionsServed ==
  ASSUME NEW s \in Sound, NEW l \in SUBSET Paths, NEW runs, local \in BOOLEAN,
         NEW s2 \in Reactions(s, l, runs), Spurred(s, l, runs)
  PROVE  Served(s2) /\ Pursued(l, s2)
<1>1. PICK run \in runs : s2 \in DataChanged(s, l, run)
  BY DEF Reactions
<1>2. Served(s) \/ (l # {} /\ ~(local /\ run))
  BY <1>1 DEF Spurred
<1> QED
  BY <1>1, <1>2, DataChangedServed

(***************************************************************************)
(* A posted signal, now handled, need not start anything; but it does when *)
(* the service has no file.                                                *)
(***************************************************************************)
LEMMA HandleServed ==
  ASSUME NEW s \in Sound, NEW l \in SUBSET Paths, NEW runs, local \in BOOLEAN,
         NEW s2 \in Sound, s2 \in Reactions(s, l, runs), Served(Settled(s))
  PROVE  Served(Settled(s2)) /\ Pursued(l, Settled(s2))
<1>1. PICK run \in runs : s2 \in DataChanged(s, l, run)
  BY DEF Reactions
<1> DEFINE stopped == IF local /\ s.url # None THEN Stop(s) ELSE s
<1>2. Settled(s2).url = s2.url
  BY SettledIs DEF SameRequest
<1>3. CASE s2 = s /\ local /\ run /\ s.url # None
  BY <1>2, <1>3 DEF Pursued
<1>4. CASE s2 = stopped /\ l = {}
  <2>1. stopped.url = None \/ stopped = s
    BY StopSound
  <2> QED
    BY <1>2, <1>4, <2>1 DEF Served, Pursued
<1>5. CASE l # {} /\ s2 \in StartFile(stopped, First(l))
  <2>1. stopped \in Sound /\ First(l) \in Paths
    BY <1>5, StopSound, FirstIsListed
  <2>2. s2.url = First(l) /\ UnderWay(s2)
    BY <1>5, <2>1, StartServed
  <2>3. UnderWay(Settled(s2))
    BY <2>2, SettledIs DEF UnderWay, InFlight, SameRequest
  <2> QED
    BY <1>2, <2>1, <2>2, <2>3, NoneIsNothing DEF Served, Pursued
<1> QED
  BY <1>1, <1>3, <1>4, <1>5 DEF DataChanged

LEMMA CommitServed ==
  ASSUME StallInv, db # None, UNCHANGED db, NEW t \in Types, NEW r \in Table,
         NEW s \in Sound, NEW runs, Commit(t, r, s, runs),
         Spurred(s, Active(r, t), runs),
         TypeInv'
  PROVE  StallInv'
<1>1. Active(r, t) \in SUBSET Paths
  BY DEF Active
<1>2. PICK s2 \in Reactions(s, Active(r, t), runs) : srv' = [srv EXCEPT ![t] = s2]
  BY DEF Commit
<1>a. local \in BOOLEAN
  BY DEF StallInv, TypeInv, TypeOK
<1>3. Served(s2) /\ Pursued(Active(r, t), s2)
  <2> DEFINE l == Active(r, t)
  <2>1. s2 \in Reactions(s, l, runs) /\ l \in SUBSET Paths
    BY <1>1, <1>2
  <2>2. Spurred(s, l, runs)
    OBVIOUS
  <2> HIDE DEF l
  <2>3. Served(s2) /\ Pursued(l, s2)
    BY <1>a, <2>1, <2>2, ReactionsServed
  <2> QED
    BY <2>3 DEF l
<1>4. list' = [list EXCEPT ![t] = Active(r, t)]
  BY DEF Commit
<1>5. \A u \in Types : Served(srv'[u]) /\ Pursued(list'[u], srv'[u])
  BY <1>2, <1>3, <1>4 DEF StallInv, TypeInv, TypeOK
<1> QED
  BY <1>5 DEF StallInv

(***************************************************************************)
(* An answer: the service is as well served as before, or the handler      *)
(* deletes the row and something is left to start.                         *)
(***************************************************************************)
LEMMA AnswerServed ==
  ASSUME StallInv, NEW t \in Types, NEW s \in Sound, NEW runs,
         s.url = srv[t].url, s.posted = srv[t].posted,
         \/ Served(s) /\ (DeleteFromDb(t, s, runs) \/ Become(t, s))
         \/ /\ db # None /\ DeleteFromDb(t, s, runs)
            /\ Active(Without(rows[db], t, Text(s.url)), t) # {}
            /\ local => runs = {FALSE},
         UNCHANGED <<db, local>>, TypeInv'
  PROVE  StallInv'
<1>1. CASE Become(t, s) /\ Served(s)
  BY <1>1 DEF Become, StallInv, TypeInv, Pursued
<1>2. CASE db # None /\ Commit(t, Without(rows[db], t, Text(s.url)), s, runs)
  <2>1. rows[db] \in Table
    BY <1>2 DEF StallInv, TypeInv, TypeOK, Table
  <2>2. Without(rows[db], t, Text(s.url)) \in Table
    BY <2>1, TablesTyped
  <2>3. Spurred(s, Active(Without(rows[db], t, Text(s.url)), t), runs)
    BY DEF Spurred
  <2> QED
    BY <1>2, <2>2, <2>3, CommitServed
<1> QED
  BY <1>1, <1>2 DEF DeleteFromDb

LEMMA UserServed ==
  ASSUME StallInv, UserStep \/ Crash
  PROVE  StallInv'
<1>a. TypeInv'
  BY UserTyped DEF StallInv
<1>b. \A t \in Types : srv[t] \in Sound /\ Served(srv[t])
  BY DEF StallInv, TypeInv
<1>c. db # None => rows[db] \in Table
  BY DEF StallInv, TypeInv, TypeOK, Table
<1>1. ASSUME NEW t \in Types, NEW p \in Paths, Add(t, p) PROVE StallInv'
  BY <1>1, <1>a, <1>b, <1>c, TablesTyped, CommitServed DEF Add, Spurred
<1>2. ASSUME NEW t \in Types, NEW p \in Paths, Del(t, p) PROVE StallInv'
  BY <1>2, <1>a, <1>b, <1>c, TablesTyped, CommitServed DEF Del, Spurred
<1>3. ASSUME NEW t \in Types, NEW S, NEW on \in BOOLEAN, StartStop(t, S, on)
      PROVE  StallInv'
  BY <1>3, <1>a, <1>b, <1>c, TablesTyped, CommitServed DEF StartStop, Spurred
<1>4. ASSUME NEW t \in Types, Empty(t) PROVE StallInv'
  BY <1>4, <1>a, <1>b, <1>c, TablesTyped, CommitServed DEF Empty, Spurred
<1>5. CASE EmptyAll
  <2>1. PICK up \in Reactions(srv["upload"], list'["upload"], Reads(srv["upload"])),
             down \in Reactions(srv["download"], list'["download"], Reads(srv["download"])) :
          srv' = [t \in Types |-> IF t = "upload" THEN up ELSE down]
    BY <1>5 DEF EmptyAll
  <2>2. \A t \in Types : list'[t] \in SUBSET Paths
    BY <1>a DEF TypeInv, TypeOK
  <2>3. local \in BOOLEAN /\ "upload" \in Types /\ "download" \in Types
    BY DEF StallInv, TypeInv, TypeOK, Types
  <2>a. ASSUME NEW t \in Types,
               NEW s \in Reactions(srv[t], list'[t], Reads(srv[t]))
        PROVE  Served(s) /\ Pursued(list'[t], s)
    <3> DEFINE l == list'[t]
               runs == Reads(srv[t])
    <3>1. s \in Reactions(srv[t], l, runs) /\ l \in SUBSET Paths
      BY <2>2, <2>a
    <3>a. srv[t] \in Sound /\ Spurred(srv[t], l, runs)
      BY <1>b DEF Spurred
    <3> HIDE DEF l, runs
    <3>2. Served(s) /\ Pursued(l, s)
      BY <2>3, <3>1, <3>a, ReactionsServed
    <3> QED
      BY <3>2 DEF l
  <2>4. Served(up) /\ Pursued(list'["upload"], up)
    BY <2>1, <2>3, <2>a
  <2>5. Served(down) /\ Pursued(list'["download"], down)
    BY <2>1, <2>3, <2>a
  <2>6. \A t \in Types : Served(srv'[t]) /\ Pursued(list'[t], srv'[t])
    BY <2>1, <2>4, <2>5 DEF Types
  <2>7. db' = None => \A t \in Types : list'[t] = {}
    BY <1>5 DEF EmptyAll
  <2> QED
    BY <1>a, <2>6, <2>7 DEF StallInv
<1>6. ASSUME NEW d \in Devices, NEW cfg, NEW loc, IntoDevice(d, cfg, loc)
      PROVE  StallInv'
  <2>1. db' = None => db = None
    BY <1>6, NoneIsNothing DEF IntoDevice
  <2> QED
    BY <1>6, <1>a, <2>1 DEF IntoDevice, StallInv
<1>7. CASE Exit \/ Crash
  <2>1. Forget
    BY <1>7 DEF Exit, Crash
  <2> QED
    BY <1>a, <2>1 DEF Forget, FreshService, StallInv, Served, Pursued
<1> QED
  BY <1>1, <1>2, <1>3, <1>4, <1>5, <1>6, <1>7 DEF UserStep

LEMMA AnswersServed ==
  ASSUME StallInv, NEW t \in Types, Answers(t)
  PROVE  StallInv'
<1>a. TypeInv'
  BY AnswersTyped DEF StallInv
<1>b. srv[t] \in Sound /\ srv[t] \in Service /\ Served(srv[t])
  BY DEF StallInv, TypeInv, Sound
<1>c. UNCHANGED <<db, local>>
  BY Zenon DEF Answers, NetFinish, LibFinish, Deliver, DeliverLate, LibCallback, HandleChange
<1>1. ASSUME NEW s, srv' = [srv EXCEPT ![t] = s], UNCHANGED list, Served(s),
             s.url = srv[t].url, s.posted = srv[t].posted
      PROVE  StallInv'
  BY <1>1, <1>a, <1>c DEF StallInv, TypeInv, Pursued
<1>2. ASSUME NEW ok \in BOOLEAN, NetFinish(t, ok) PROVE StallInv'
  <2> DEFINE s == [srv[t] EXCEPT !.st = IF ok THEN "ok" ELSE "err"]
  <2>1. /\ s.url = srv[t].url /\ s.via = srv[t].via /\ s.path = srv[t].path
        /\ s.lib = srv[t].lib /\ s.cb = srv[t].cb /\ s.posted = srv[t].posted
        /\ InFlight(s)
    BY <1>b DEF Service, InFlight
  <2>2. Served(s)
    BY <1>b, <2>1 DEF Served, UnderWay
  <2> QED
    BY <1>1, <1>2, <2>1, <2>2 DEF NetFinish
<1>3. ASSUME NEW ok \in BOOLEAN, LibFinish(t, ok) PROVE StallInv'
  <2> DEFINE a == [path |-> srv[t].lib, ok |-> ok]
             s == LibEnded(srv[t], ok)
  <2>1. /\ s.url = srv[t].url /\ s.via = srv[t].via /\ s.path = srv[t].path
        /\ s.st = srv[t].st /\ s.cb = srv[t].cb \cup {a} /\ s.posted = srv[t].posted
    BY <1>b, <1>3, LibEndedIs DEF LibFinish
  <2>4. srv' = [srv EXCEPT ![t] = s]
    BY <1>3, LibFinishIs DEF StallInv, TypeInv, TypeOK
  <2>5. UNCHANGED list
    BY <1>3, Zenon DEF LibFinish
  <2>2. a \in s.cb /\ a.path = srv[t].lib
    BY <2>1
  <2> HIDE DEF a, s
  <2>3. Served(s)
    BY <1>b, <2>1, <2>2 DEF Served, UnderWay, InFlight
  <2> QED
    BY <1>1, <2>1, <2>3, <2>4, <2>5
<1>4. CASE Deliver(t)
  <2> DEFINE rest == IF db = None THEN {}
                     ELSE Active(Without(rows[db], t, Text(srv[t].url)), t)
             deletes == local => srv[t].st = "ok"
             via == Answered(t, srv[t].via, "local", deletes, srv[t].via)
             s == [srv[t] EXCEPT !.st = "freed", !.via = via]
  <2>1. via \in {"none", "local", "p2p", "due", "lost"}
    BY <1>b, AnsweredTyped DEF Service
  <2>2. /\ IF srv[t].via # "local" \/ (deletes /\ rest # {})
              THEN via = srv[t].via ELSE via = "lost"
        /\ IF deletes THEN DeleteFromDb(t, s, {FALSE}) ELSE Become(t, s)
    BY <1>4 DEF Deliver, Answered
  <2> HIDE DEF via, deletes, rest
  <2>3. /\ s \in Sound /\ s.url = srv[t].url /\ s.via = via
        /\ s.lib = srv[t].lib /\ s.cb = srv[t].cb /\ s.posted = srv[t].posted
    BY <1>b, <2>1 DEF Sound, Service, InFlight
  <2>4. CASE srv[t].via # "local" \/ ~(deletes /\ rest # {})
    <3>1. Served(s)
      BY <1>b, <2>2, <2>3, <2>4 DEF Served, UnderWay
    <3> QED
      BY <1>a, <1>c, <2>2, <2>3, <3>1, AnswerServed
  <2>5. CASE deletes /\ rest # {}
    BY <1>a, <1>c, <2>2, <2>3, <2>5, AnswerServed DEF rest
  <2> QED
    BY <2>4, <2>5
<1>5. CASE DeliverLate(t)
  <2>1. PICK a \in srv[t].late :
          LET s == [srv[t] EXCEPT !.late = @ \ {a}]
          IN DeleteFromDb(t, s, Reads(s)) \/ Become(t, s)
    BY <1>5 DEF DeliverLate
  <2> DEFINE s == [srv[t] EXCEPT !.late = @ \ {a}]
  <2>2. /\ s \in Sound /\ s.url = srv[t].url /\ s.path = srv[t].path
        /\ s.st = srv[t].st /\ s.via = srv[t].via /\ s.lib = srv[t].lib
        /\ s.cb = srv[t].cb /\ s.posted = srv[t].posted
    BY <1>b DEF Sound, Service, InFlight
  <2>3. Served(s)
    BY <1>b, <2>2 DEF Served, UnderWay, InFlight
  <2> QED
    BY <1>a, <1>c, <2>1, <2>2, <2>3, AnswerServed
<1>6. CASE LibCallback(t)
  <2>1. PICK a \in srv[t].cb, s \in Service :
          /\ Heard(srv[t], a, s)
          /\ srv' = [srv EXCEPT ![t] = s]
          /\ \/ UNCHANGED <<rows, list>>
             \/ /\ db # None /\ s.posted > 0
                /\ list' = [list EXCEPT ![t] =
                              Active(Without(rows[db], t, Text(s.url)), t)]
    BY <1>b, <1>6, CallbackIs
  <2>2. Served(s)
    <3>1. ASSUME s.url # None, s.via = srv[t].via, a.path # srv[t].url \/ s.via # "p2p"
          PROVE  UnderWay(s)
      <4>1. UnderWay(srv[t])
        BY <1>b, <2>1, <3>1 DEF Served, Heard, SameRequest
      <4>2. srv[t].posted > 0 => s.posted > 0
        BY <1>b, <2>1 DEF Heard, Service
      <4> QED
        BY <2>1, <3>1, <4>1, <4>2 DEF Heard, SameRequest, UnderWay, InFlight
    <3>2. s.via = "lost" \/ (s.via = "due" /\ s.posted > 0) => UnderWay(s)
      BY DEF UnderWay
    <3> QED
      BY <2>1, <3>1, <3>2 DEF Heard, Served
  <2>3. \A u \in Types : Served(srv'[u])
    BY <2>1, <2>2 DEF StallInv, TypeInv
  <2>4. Pursued(list'[t], s)
    <3>1. CASE UNCHANGED list
      <4>1. list[t] # {} => s.url # None \/ srv[t].posted > 0
        BY <2>1 DEF StallInv, Pursued, Heard, SameRequest
      <4>2. srv[t].posted > 0 => s.posted > 0
        BY <1>b, <2>1 DEF Heard, Service
      <4> QED
        BY <3>1, <4>1, <4>2 DEF Pursued
    <3> QED
      BY <2>1, <3>1 DEF Pursued
  <2> QED
    BY <1>a, <1>c, <2>1, <2>3, <2>4 DEF StallInv, TypeInv, TypeOK, Pursued
<1>7. CASE HandleChange(t)
  <2>1. PICK s \in Sound, s2 \in Sound :
          /\ SameRequest(srv[t], s) /\ s.via = srv[t].via /\ s.cb = srv[t].cb
          /\ s2 \in Reactions(s, list[t], Reads(s))
          /\ srv' = [srv EXCEPT ![t] = Settled(s2)]
    BY <1>7, HandleIs DEF StallInv
  <2>2. Served(Settled(s))
    BY <1>b, <2>1, SettledIs DEF SameRequest, Served, UnderWay, InFlight
  <2>3. UNCHANGED list /\ local \in BOOLEAN /\ list[t] \in SUBSET Paths
    BY <1>7 DEF HandleChange, StallInv, TypeInv, TypeOK
  <2>4. Served(Settled(s2)) /\ Pursued(list[t], Settled(s2))
    BY <2>1, <2>2, <2>3, HandleServed
  <2> QED
    BY <1>a, <1>c, <2>1, <2>3, <2>4 DEF StallInv, TypeInv
<1> QED
  BY <1>2, <1>3, <1>4, <1>5, <1>6, <1>7 DEF Answers

(***************************************************************************)
(* A queue never stands still of itself: with any number of devices and    *)
(* paths, every operation, every change of link and device, every fault,   *)
(* urls that do not come back from QUrl, and whatever a read of a freed    *)
(* reply gives, a service with a list has a file, and that file or its     *)
(* answer is on the way unless the answer found nothing to start.          *)
(***************************************************************************)
THEOREM QueuesDoNotStall == Spec => []NoSilentStall
<1>1. Init => StallInv
  BY InitTyped DEF Init, FreshService, StallInv, Served, Pursued
<1>2. StallInv /\ [Next]_vars => StallInv'
  <2>1. StallInv /\ UNCHANGED vars => StallInv'
    <3>1. TypeInv /\ UNCHANGED vars => TypeInv'
      BY DEF TypeInv, TypeOK, vars
    <3> QED
      BY <3>1 DEF StallInv, vars
  <2> QED
    BY <2>1, UserServed, AnswersServed DEF Next
<1>3. StallInv => NoSilentStall
  BY DEF StallInv, Served, Pursued, NoSilentStall
<1> QED
  BY <1>1, <1>2, <1>3, PTL DEF Spec

-----------------------------------------------------------------------------
(***************************************************************************)
(* The promise.  TransferQueue implements TransferPromise: its rows are    *)
(* the transfers that are wanted.  A request that has ended well has moved *)
(* its file since that was added, and a path has a row of the device it is *)
(* a url of and of no other, so that the answer of a file settles that     *)
(* file and the asking for one asks for that one.  Two things would break  *)
(* it: a row that is replaced while the answer of the first file is        *)
(* posted, and a table that is not the one of the current device.          *)
(***************************************************************************)
OwnUrls == \A p \in Paths : \A d, e \in Reach[p] : d = e

OwnTable == db \in {None, mac}

RowsReach == \A d \in Devices, p \in Paths : rows[d][p] # None => d \in Reach[p]

EndedIsMoved == \A t \in Types : srv[t].st = "ok" => <<t, srv[t].path>> \in moved

PromiseInv == QueueInv /\ OwnTable /\ RowsReach /\ EndedIsMoved

\* If s2 has a request that has ended well, it is one that s had.
EndOf(s, s2) == s2.st = "ok" => s.st = "ok" /\ s2.path = s.path

\* The tables lose rows, or rows are started and stopped.
Shrinks(r, r2) ==
  \A d \in Devices, p \in Paths : r2[d][p] # None =>
    r[d][p] # None /\ r2[d][p].type = r[d][p].type

LEMMA NoneHasNoType ==
  ASSUME NEW t \in Types, NEW r \in Row \cup {None}
  PROVE  r \in [type : {t}, on : BOOLEAN] <=> r # None /\ r.type = t
BY NoneIsNoRow DEF Row, Types

(* What a service has ended, a signal does not change.                     *)
LEMMA ReactionsEnd ==
  ASSUME NEW s \in Sound, NEW l \in SUBSET Paths, NEW runs,
         NEW s2 \in Reactions(s, l, runs)
  PROVE  EndOf(s, s2)
<1>1. PICK run \in runs : s2 \in DataChanged(s, l, run)
  BY DEF Reactions
<1> DEFINE stopped == IF local /\ s.url # None THEN Stop(s) ELSE s
<1>2. stopped \in Sound /\ EndOf(s, stopped)
  BY StopSound DEF EndOf, InFlight
<1>3. ASSUME NEW u \in Sound, NEW p, s2 \in StartFile(u, p), EndOf(s, u)
      PROVE  EndOf(s, s2)
  <2>1. \/ s2 = [u EXCEPT !.url = p, !.via = "local", !.path = p, !.st = "running"]
        \/ s2 = [u EXCEPT !.url = p, !.via = "lost"]
        \/ s2 = [u EXCEPT !.url = p, !.via = "p2p", !.lib = p]
    BY <1>3 DEF StartFile
  <2>2. s2.st = "running" \/ (s2.st = u.st /\ s2.path = u.path)
    BY <2>1 DEF Sound, Service
  <2> QED
    BY <1>3, <2>2 DEF EndOf
<1>4. s2 = s \/ s2 = stopped \/ s2 \in StartFile(stopped, First(l))
  BY <1>1 DEF DataChanged
<1> QED
  BY <1>2, <1>3, <1>4 DEF EndOf

LEMMA CommitEnd ==
  ASSUME TypeInv, NEW t \in Types, NEW r, NEW s \in Sound, NEW runs,
         Commit(t, r, s, runs), EndOf(srv[t], s)
  PROVE  \A u \in Types : EndOf(srv[u], srv'[u])
<1>1. Active(r, t) \in SUBSET Paths
  BY DEF Active
<1>2. PICK s2 \in Reactions(s, Active(r, t), runs) : srv' = [srv EXCEPT ![t] = s2]
  BY DEF Commit
<1>3. EndOf(s, s2)
  BY <1>1, ReactionsEnd
<1> QED
  BY <1>2, <1>3 DEF EndOf, TypeInv

(* Rows that come from others mean transfers that were wanted before.      *)
LEMMA ShrinkWanted ==
  ASSUME TypeInv, TypeInv'
  PROVE  /\ Shrinks(rows, rows') => Wanted' \in SUBSET Wanted
         /\ Shrinks(rows', rows) => Wanted \in SUBSET Wanted'
<1>1. \A d \in Devices, q \in Paths :
        rows[d][q] \in Row \cup {None} /\ rows'[d][q] \in Row \cup {None}
  BY DEF TypeInv, TypeOK
<1>2. ASSUME Shrinks(rows, rows'), NEW t \in Types, NEW d \in Devices, NEW q \in Paths,
             rows'[d][q] \in [type : {t}, on : BOOLEAN]
      PROVE  rows[d][q] \in [type : {t}, on : BOOLEAN]
  BY <1>1, <1>2, NoneHasNoType DEF Shrinks
<1>3. ASSUME Shrinks(rows', rows), NEW t \in Types, NEW d \in Devices, NEW q \in Paths,
             rows[d][q] \in [type : {t}, on : BOOLEAN]
      PROVE  rows'[d][q] \in [type : {t}, on : BOOLEAN]
  BY <1>1, <1>3, NoneHasNoType DEF Shrinks
<1> QED
  BY <1>2, <1>3 DEF Wanted, Jobs

LEMMA StatementsShrink ==
  ASSUME NEW r \in [Devices -> Table], NEW t \in Types, NEW d \in Devices
  PROVE  /\ \A u : Shrinks(r, [r EXCEPT ![d] = Without(r[d], t, u)])
         /\ \A S, on : on \in BOOLEAN =>
              LET r2 == [r EXCEPT ![d] = Switched(r[d], t, S, on)]
              IN Shrinks(r, r2) /\ Shrinks(r2, r)
         /\ Shrinks(r, [r EXCEPT ![d] =
              [p \in Paths |-> IF r[d][p] \in [type : {t}, on : BOOLEAN]
                                 THEN None ELSE r[d][p]]])
         /\ Shrinks(r, [r EXCEPT ![d] = NoRows])
<1>1. \A p \in Paths : r[d][p] \in Row \cup {None}
  BY DEF Table
<1>2. \A p \in Paths : r[d][p] \in [type : {t}, on : BOOLEAN] <=>
                       r[d][p] # None /\ r[d][p].type = t
  BY <1>1, NoneHasNoType
<1>3. \A on \in BOOLEAN : [type |-> t, on |-> on].type = t /\ [type |-> t, on |-> on] # None
  BY NoneIsNoRow DEF Types
<1>4. ASSUME NEW S, NEW on \in BOOLEAN
      PROVE  LET r2 == [r EXCEPT ![d] = Switched(r[d], t, S, on)]
             IN Shrinks(r, r2) /\ Shrinks(r2, r)
  <2> DEFINE r2 == [r EXCEPT ![d] = Switched(r[d], t, S, on)]
  <2>1. \A e \in Devices, p \in Paths :
          \/ r2[e][p] = r[e][p]
          \/ /\ r[e][p] # None /\ r[e][p].type = t
             /\ r2[e][p] # None /\ r2[e][p].type = t
    <3> SUFFICES ASSUME NEW e \in Devices, NEW p \in Paths
                 PROVE  \/ r2[e][p] = r[e][p]
                        \/ /\ r[e][p] # None /\ r[e][p].type = t
                           /\ r2[e][p] # None /\ r2[e][p].type = t
      OBVIOUS
    <3>1. CASE e # d
      BY <3>1
    <3>2. CASE e = d
      <4>1. r2[e][p] = Switched(r[d], t, S, on)[p]
        BY <3>2
      <4>2. \/ r2[e][p] = r[d][p]
            \/ /\ r[d][p] \in [type : {t}, on : BOOLEAN]
               /\ r2[e][p] = [type |-> t, on |-> on]
        BY <4>1 DEF Switched
      <4> QED
        BY <1>2, <1>3, <3>2, <4>2
    <3> QED
      BY <3>1, <3>2
  <2> HIDE DEF r2
  <2>2. Shrinks(r, r2) /\ Shrinks(r2, r)
    BY <2>1 DEF Shrinks
  <2> QED
    BY <2>2 DEF r2
<1>5. /\ \A u : Shrinks(r, [r EXCEPT ![d] = Without(r[d], t, u)])
      /\ Shrinks(r, [r EXCEPT ![d] =
           [p \in Paths |-> IF r[d][p] \in [type : {t}, on : BOOLEAN]
                              THEN None ELSE r[d][p]]])
      /\ Shrinks(r, [r EXCEPT ![d] = NoRows])
  BY Zenon DEF Shrinks, Without, NoRows, Table
<1> QED
  BY <1>4, <1>5, Zenon

(* One row of one device: the transfer is forgotten, or there was none.    *)
LEMMA WithoutWanted ==
  ASSUME PromiseInv, OwnUrls, db # None, NEW t \in Types, NEW u \in Paths \cup {None},
         rows' = [rows EXCEPT ![db] = Without(rows[db], t, u)]
  PROVE  \/ Wanted' = Wanted
         \/ /\ u \in Paths
            /\ <<t, u>> \in Wanted
            /\ Wanted' = Wanted \ {<<t, u>>}
<1>1. db \in Devices /\ rows \in [Devices -> Table] /\ rows[db] \in Table
  BY DEF PromiseInv, QueueInv, LinkInv, TypeInv, TypeOK, Table
<1> DEFINE Of(k) == [type : {k}, on : BOOLEAN]
<1>2. CASE u \in Paths /\ rows[db][u] \in Of(t)
  <2>1. \A d \in Devices \ {db} : rows[d][u] = None
    BY <1>1, <1>2, NoneIsNoRow DEF PromiseInv, RowsReach, OwnUrls, Types
  <2>2. \A d \in Devices, q \in Paths :
          rows'[d][q] = IF d = db /\ q = u THEN None ELSE rows[d][q]
    BY <1>1, <1>2 DEF Without, Table
  <2>3. \A k \in Types : None \notin Of(k)
    BY NoneIsNoRow DEF Types
  <2>4. <<t, u>> \in Wanted
    BY <1>1, <1>2 DEF Wanted, Jobs
  <2>5. ASSUME NEW k \in Types, NEW q \in Paths
        PROVE  <<k, q>> \in Wanted' <=> <<k, q>> \in Wanted /\ <<k, q>> # <<t, u>>
    <3>1. <<k, q>> \in Wanted <=> \E d \in Devices : rows[d][q] \in Of(k)
      BY DEF Wanted, Jobs
    <3>2. <<k, q>> \in Wanted' <=> \E d \in Devices : rows'[d][q] \in Of(k)
      BY DEF Wanted, Jobs
    <3>3. CASE q # u
      BY <2>2, <3>1, <3>2, <3>3
    <3>4. CASE q = u
      <4>1. \A d \in Devices : rows'[d][u] = None
        BY <2>1, <2>2, <1>2
      <4>2. <<k, q>> \notin Wanted'
        BY <2>3, <3>2, <3>4, <4>1
      <4>3. <<k, q>> \in Wanted => k = t
        BY <1>1, <1>2, <2>1, <2>3, <3>1, <3>4
      <4> QED
        BY <3>4, <4>2, <4>3
    <3> QED
      BY <3>3, <3>4
  <2>6. Wanted' = Wanted \ {<<t, u>>}
    <3>1. Wanted \subseteq Types \X Paths /\ Wanted' \subseteq Types \X Paths
      BY DEF Wanted, Jobs
    <3> QED
      BY <2>5, <3>1
  <2> QED
    BY <1>2, <2>4, <2>6
<1>3. CASE ~(u \in Paths /\ rows[db][u] \in Of(t))
  <2>1. Without(rows[db], t, u) = rows[db]
    BY <1>1, <1>3 DEF Without, Table
  <2>2. rows' = rows
    BY <1>1, <2>1
  <2> QED
    BY <2>2 DEF Wanted
<1> QED
  BY <1>2, <1>3

(***************************************************************************)
(* How a step shows in TransferPromise.  A step of the user takes rows     *)
(* back, or asks for one; an answer moves a file, settles a row or does    *)
(* nothing.                                                                *)
(***************************************************************************)
LEMMA ShrinkKeeps ==
  ASSUME PromiseInv, QueueInv', Shrinks(rows, rows'), OwnTable',
         moved \subseteq moved',
         \A t \in Types : EndOf(srv[t], srv'[t])
  PROVE  PromiseInv'
<1>1. RowsReach'
  BY DEF PromiseInv, RowsReach, Shrinks
<1>2. EndedIsMoved'
  BY DEF PromiseInv, EndedIsMoved, EndOf
<1> QED
  BY <1>1, <1>2 DEF PromiseInv

Keeps == UNCHANGED <<Wanted, moved>> /\ said' = Promise!Silence

(* A step of the user other than add(): it takes back what it says, or     *)
(* nothing is forgotten.                                                   *)
LEMMA UserShows ==
  ASSUME PromiseInv, QueueInv', OwnUrls, UserStep \/ Crash,
         \A t \in Types, p \in Paths : ~Add(t, p),
         "switch" \notin Ops
  PROVE  /\ PromiseInv'
         /\ (\E jobs \in SUBSET Jobs : Promise!TakeBack(jobs)) \/ Keeps
<1>a. TypeInv /\ TypeInv' /\ rows \in [Devices -> Table]
  BY DEF PromiseInv, QueueInv, LinkInv, TypeInv, TypeOK, Table
<1>b. \A t \in Types : srv[t] \in Sound /\ EndOf(srv[t], srv[t])
  BY <1>a DEF TypeInv, EndOf
<1>c. db # None => db \in Devices
  BY <1>a DEF TypeInv, TypeOK
<1>d. ASSUME NEW jobs \in SUBSET Jobs, Shrinks(rows, rows'), OwnTable', UNCHANGED moved,
             TakesBack(jobs), Wanted \ jobs \subseteq Wanted',
             \A t \in Types : EndOf(srv[t], srv'[t])
      PROVE  PromiseInv' /\ Promise!TakeBack(jobs)
  <2>1. PromiseInv'
    BY <1>d, ShrinkKeeps
  <2>2. Wanted' \subseteq Wanted
    BY <1>a, <1>d, ShrinkWanted
  <2> QED
    BY <1>d, <2>1, <2>2 DEF Promise!TakeBack, TakesBack
<1>e. Shrinks(rows, rows)
  BY DEF Shrinks
<1>f. ASSUME Shrinks(rows, rows'), Shrinks(rows', rows), OwnTable', UNCHANGED moved,
             said' = Silence, \A t \in Types : EndOf(srv[t], srv'[t])
      PROVE  PromiseInv' /\ Keeps
  <2>1. PromiseInv'
    BY <1>f, ShrinkKeeps
  <2>2. Wanted' = Wanted
    BY <1>a, <1>f, ShrinkWanted
  <2> QED
    BY <1>f, <2>1, <2>2 DEF Keeps, Silence, Promise!Silence
<1>g. ASSUME NEW t \in Types, NEW r, Commit(t, r, srv[t], Reads(srv[t])), db # None,
             UNCHANGED <<mac, db>>
      PROVE  /\ rows' = [rows EXCEPT ![db] = r] /\ OwnTable'
             /\ \A u \in Types : EndOf(srv[u], srv'[u])
  <2>1. rows' = [rows EXCEPT ![db] = r]
    BY <1>g DEF Commit
  <2>2. OwnTable'
    BY <1>g DEF PromiseInv, OwnTable
  <2>3. \A u \in Types : EndOf(srv[u], srv'[u])
    BY <1>a, <1>b, <1>g, CommitEnd
  <2> QED
    BY <2>1, <2>2, <2>3
<1>1. ASSUME NEW t \in Types, NEW p \in Paths, Del(t, p)
      PROVE  PromiseInv' /\ \E jobs \in SUBSET Jobs : Promise!TakeBack(jobs)
  <2>1. /\ db # None /\ Commit(t, Without(rows[db], t, p), srv[t], Reads(srv[t]))
        /\ TakesBack({<<t, p>>}) /\ UNCHANGED <<mac, db, moved>>
    BY <1>1 DEF Del
  <2>2. /\ rows' = [rows EXCEPT ![db] = Without(rows[db], t, p)] /\ OwnTable'
        /\ \A u \in Types : EndOf(srv[u], srv'[u])
    BY <1>g, <2>1
  <2>3. Shrinks(rows, rows')
    BY <1>a, <1>c, <2>1, <2>2, StatementsShrink
  <2>4. Wanted \ {<<t, p>>} \subseteq Wanted'
    <3>1. Wanted' = Wanted \/ Wanted' = Wanted \ {<<t, p>>}
      BY <2>1, <2>2, WithoutWanted
    <3> QED
      BY <3>1
  <2>5. {<<t, p>>} \in SUBSET Jobs
    BY DEF Jobs
  <2> QED
    BY <1>d, <2>1, <2>2, <2>3, <2>4, <2>5
<1>2. ASSUME NEW t \in Types, NEW S, NEW on \in BOOLEAN, StartStop(t, S, on)
      PROVE  PromiseInv' /\ Keeps
  <2>1. /\ db # None /\ Commit(t, Switched(rows[db], t, S, on), srv[t], Reads(srv[t]))
        /\ said' = Silence /\ UNCHANGED <<mac, db, moved>>
    BY <1>2 DEF StartStop
  <2>2. /\ rows' = [rows EXCEPT ![db] = Switched(rows[db], t, S, on)] /\ OwnTable'
        /\ \A u \in Types : EndOf(srv[u], srv'[u])
    BY <1>g, <2>1
  <2>3. Shrinks(rows, rows') /\ Shrinks(rows', rows)
    BY <1>a, <1>c, <2>1, <2>2, StatementsShrink
  <2> QED
    BY <1>f, <2>1, <2>2, <2>3
<1>3. ASSUME NEW t \in Types, Empty(t)
      PROVE  PromiseInv' /\ \E jobs \in SUBSET Jobs : Promise!TakeBack(jobs)
  <2> DEFINE r == [p \in Paths |-> IF rows[db][p] \in [type : {t}, on : BOOLEAN]
                                     THEN None ELSE rows[db][p]]
             jobs == {t} \X Paths
  <2>1. /\ db # None /\ Commit(t, r, srv[t], Reads(srv[t]))
        /\ TakesBack(jobs) /\ UNCHANGED <<mac, db, moved>>
    BY <1>3 DEF Empty
  <2>2. /\ rows' = [rows EXCEPT ![db] = r] /\ OwnTable'
        /\ \A u \in Types : EndOf(srv[u], srv'[u])
    BY <1>g, <2>1
  <2>3. Shrinks(rows, rows')
    BY <1>a, <1>c, <2>1, <2>2, StatementsShrink
  <2>4. Wanted \ jobs \subseteq Wanted'
    <3> SUFFICES ASSUME NEW k \in Types \ {t}, NEW q \in Paths, NEW d \in Devices,
                        rows[d][q] \in [type : {k}, on : BOOLEAN]
                 PROVE  rows'[d][q] \in [type : {k}, on : BOOLEAN]
      BY DEF Wanted, Jobs
    <3>1. rows[d][q] \notin [type : {t}, on : BOOLEAN]
      OBVIOUS
    <3>2. CASE d = db
      BY <1>a, <2>2, <3>1, <3>2
    <3>3. CASE d # db
      BY <1>a, <2>2, <3>3
    <3> QED
      BY <3>2, <3>3
  <2>5. jobs \in SUBSET Jobs
    BY DEF Jobs
  <2> HIDE DEF jobs
  <2> QED
    BY <1>d, <2>1, <2>2, <2>3, <2>4, <2>5
<1>4. ASSUME EmptyAll
      PROVE  PromiseInv' /\ \E jobs \in SUBSET Jobs : Promise!TakeBack(jobs)
  <2>1. Shrinks(rows, rows')
    <3>1. "upload" \in Types
      BY DEF Types
    <3> QED
      BY <1>4, <1>a, <1>c, <1>e, <3>1, StatementsShrink DEF EmptyAll
  <2>2. OwnTable'
    BY <1>4 DEF EmptyAll, Opened, OwnTable
  <2>3. PICK up \in Reactions(srv["upload"], list'["upload"], Reads(srv["upload"])),
             down \in Reactions(srv["download"], list'["download"], Reads(srv["download"])) :
          srv' = [t \in Types |-> IF t = "upload" THEN up ELSE down]
    BY <1>4 DEF EmptyAll
  <2>4. \A t \in Types : list'[t] \in SUBSET Paths
    BY <1>a DEF TypeInv, TypeOK
  <2>5. EndOf(srv["upload"], up) /\ EndOf(srv["download"], down)
    BY <1>b, <2>3, <2>4, ReactionsEnd DEF Types
  <2>6. \A t \in Types : EndOf(srv[t], srv'[t])
    BY <2>3, <2>5 DEF Types
  <2>7. Wanted \ Jobs \subseteq Wanted' /\ Jobs \in SUBSET Jobs
    BY DEF Wanted
  <2>8. TakesBack(Jobs) /\ UNCHANGED moved
    BY <1>4 DEF EmptyAll
  <2> QED
    BY <1>d, <2>1, <2>2, <2>6, <2>7, <2>8
<1>5. ASSUME NEW d \in Devices, NEW cfg, NEW loc, IntoDevice(d, cfg, loc)
      PROVE  PromiseInv' /\ Keeps
  <2>1. mac = None \/ mac = d
    BY <1>5 DEF IntoDevice, Step
  <2>2. mac = None => db = None
    BY DEF PromiseInv, QueueInv, LinkInv, Entered
  <2>3. OwnTable'
    BY <1>5, <2>1, <2>2 DEF IntoDevice, PromiseInv, OwnTable
  <2> QED
    BY <1>5, <1>b, <1>e, <1>f, <2>3 DEF IntoDevice
<1>6. ASSUME Exit \/ Crash
      PROVE  PromiseInv' /\ Keeps
  <2>1. Shrinks(rows, rows') /\ Shrinks(rows', rows)
    <3>1. CASE rows' = rows
      BY <1>e, <3>1
    <3>2. CASE Exit /\ db # None
      <4> DEFINE up == [rows EXCEPT ![db] = Switched(rows[db], "upload", Paths, FALSE)]
                 both == [up EXCEPT ![db] = Switched(up[db], "download", Paths, FALSE)]
      <4>1. "upload" \in Types /\ "download" \in Types /\ FALSE \in BOOLEAN
        BY DEF Types
      <4>2. up[db] = Switched(rows[db], "upload", Paths, FALSE)
        BY <1>a, <1>c, <3>2
      <4>3. up \in [Devices -> Table]
        BY <1>a, <1>c, <3>2, <4>1, TablesTyped
      <4>4. Shrinks(rows, up) /\ Shrinks(up, rows)
        BY <1>a, <1>c, <3>2, <4>1, StatementsShrink
      <4>b. both = [rows EXCEPT ![db] = Switched(up[db], "download", Paths, FALSE)]
        BY <1>a, <1>c, <3>2, <4>3
      <4>5. rows' = both
        BY <3>2, <4>2, <4>b DEF Exit
      <4> HIDE DEF up
      <4>6. Shrinks(up, both) /\ Shrinks(both, up)
        BY <1>c, <3>2, <4>1, <4>3, StatementsShrink
      <4> HIDE DEF both
      <4>7. Shrinks(rows, both)
        BY <4>4, <4>6 DEF Shrinks
      <4>8. Shrinks(both, rows)
        BY <4>4, <4>6 DEF Shrinks
      <4> QED
        BY <4>5, <4>7, <4>8
    <3> QED
      BY <1>6, <3>1, <3>2 DEF Exit, Crash
  <2>2. /\ OwnTable' /\ UNCHANGED moved /\ said' = Silence
        /\ \A t \in Types : EndOf(srv[t], srv'[t])
    <3>1. Forget
      BY <1>6 DEF Exit, Crash
    <3>2. \A t \in Types : srv'[t].st = "null"
      BY <3>1 DEF Forget, FreshService
    <3> QED
      BY <3>1, <3>2 DEF Forget, OwnTable, EndOf
  <2> QED
    BY <1>f, <2>1, <2>2
<1> QED
  BY <1>1, <1>2, <1>3, <1>4, <1>5, <1>6 DEF UserStep

(* add() asks for a path that has no row anywhere.                         *)
LEMMA AddAsks ==
  ASSUME PromiseInv, QueueInv', OwnUrls, "replace" \notin Ops,
         NEW t \in Types, NEW p \in Paths, Add(t, p)
  PROVE  PromiseInv' /\ Promise!Ask(<<t, p>>)
<1>1. TypeInv /\ rows \in [Devices -> Table] /\ srv[t] \in Sound
  BY DEF PromiseInv, QueueInv, LinkInv, TypeInv, TypeOK, Table
<1>2. /\ db # None /\ mac \in Reach[p] /\ rows[db][p] = None
      /\ said' = [ask |-> {<<t, p>>}, back |-> {}] /\ moved' = moved \ {<<t, p>>}
      /\ UNCHANGED <<mac, db>>
  BY Zenon DEF Add, Step
<1>3. db = mac /\ db \in Devices
  BY <1>1, <1>2 DEF PromiseInv, OwnTable, TypeInv, TypeOK
<1> DEFINE new == [type |-> t, on |-> TRUE]
<1>4. \A d \in Devices, q \in Paths :
        rows'[d][q] = IF d = db /\ q = p THEN new ELSE rows[d][q]
  BY <1>1, <1>3 DEF Add, Commit, Table
<1>5. \A d \in Devices : rows[d][p] = None
  BY <1>2, <1>3 DEF PromiseInv, RowsReach, OwnUrls
<1>6. \A u \in Types : EndOf(srv[u], srv'[u])
  BY <1>1, CommitEnd DEF Add, EndOf
<1>7. RowsReach'
  BY <1>2, <1>3, <1>4 DEF PromiseInv, RowsReach
<1>8. EndedIsMoved'
  <2> SUFFICES ASSUME NEW u \in Types, srv'[u].st = "ok"
               PROVE  <<u, srv'[u].path>> \in moved'
    BY DEF EndedIsMoved
  <2>1. srv[u].st = "ok" /\ srv'[u].path = srv[u].path
    BY <1>6 DEF EndOf
  <2>2. <<u, srv[u].path>> \in moved
    BY <2>1 DEF PromiseInv, EndedIsMoved
  <2>3. InFlight(srv[u])
    BY <2>1 DEF InFlight
  <2>4. srv[u].path \in Active(rows[db], u)
    BY <1>2, <2>3 DEF PromiseInv, QueueInv, LinkInv, RunningIsListed, ListsStarted
  <2>5. rows[db][srv[u].path] # None
    BY <2>4, NoneIsNoRow DEF Active, Types
  <2>6. srv[u].path # p
    BY <1>2, <2>5
  <2> QED
    BY <1>2, <2>1, <2>2, <2>6
<1>9. PromiseInv'
  BY <1>2, <1>7, <1>8 DEF PromiseInv, OwnTable
<1>10. Wanted' = {k \in Wanted : k[2] # p} \cup {<<t, p>>}
  <2> DEFINE Of(k) == [type : {k}, on : BOOLEAN]
  <2>1. \A k \in Types : None \notin Of(k) /\ (new \in Of(k) <=> k = t)
    BY NoneIsNoRow DEF Types
  <2>2. ASSUME NEW k \in Types, NEW q \in Paths
        PROVE  <<k, q>> \in Wanted' <=> IF q = p THEN k = t ELSE <<k, q>> \in Wanted
    <3>1. <<k, q>> \in Wanted <=> \E d \in Devices : rows[d][q] \in Of(k)
      BY DEF Wanted, Jobs
    <3>2. <<k, q>> \in Wanted' <=> \E d \in Devices : rows'[d][q] \in Of(k)
      BY DEF Wanted, Jobs
    <3>3. CASE q # p
      BY <1>4, <3>1, <3>2, <3>3
    <3>4. CASE q = p
      <4>1. \A d \in Devices : rows'[d][p] = IF d = db THEN new ELSE None
        BY <1>4, <1>5
      <4> HIDE DEF new, Of
      <4> QED
        BY <1>3, <2>1, <3>2, <3>4, <4>1
    <3> QED
      BY <3>3, <3>4
  <2>3. Wanted \subseteq Types \X Paths /\ Wanted' \subseteq Types \X Paths
    BY DEF Wanted, Jobs
  <2> QED
    BY <2>2, <2>3
<1> QED
  BY <1>2, <1>9, <1>10 DEF Promise!Ask

(* An answer moves, settles, or does not show.                             *)
LEMMA AnswerShows ==
  ASSUME PromiseInv, QueueInv', OwnUrls, NEW t \in Types, Answers(t)
  PROVE  /\ PromiseInv'
         /\ \/ \E j \in Promise!Jobs : Promise!Move(j) \/ Promise!Settle(j)
            \/ UNCHANGED <<Wanted, moved>>
         /\ said' = Promise!Silence
<1>a. /\ TypeInv /\ srv[t] \in Sound /\ srv[t] \in Service
      /\ srv \in [Types -> Service]
  BY DEF PromiseInv, QueueInv, LinkInv, TypeInv, Sound
<1>b. InFlight(srv[t]) => local
  BY DEF PromiseInv, QueueInv, LinkInv, Entered
<1>c. db # None => local
  BY DEF PromiseInv, QueueInv, LinkInv, Entered
<1>d. UNCHANGED <<mac, db, local>> /\ said' = Silence
  BY Zenon DEF Answers, NetFinish, LibFinish, Deliver, DeliverLate, LibCallback, HandleChange
<1>g. said' = Promise!Silence
  BY <1>d DEF Silence, Promise!Silence
<1>e. Shrinks(rows, rows)
  BY DEF Shrinks
<1>f. OwnTable'
  BY <1>d DEF PromiseInv, OwnTable
<1>1. ASSUME NEW ok \in BOOLEAN, NetFinish(t, ok)
      PROVE  /\ PromiseInv'
             /\ \/ \E j \in Promise!Jobs : Promise!Move(j)
                \/ UNCHANGED <<Wanted, moved>>
  <2>1. srv[t].path \in Paths
    BY <1>1, <1>a DEF NetFinish, Sound, InFlight
  <2>2. EndedIsMoved'
    BY <1>1, <1>a DEF NetFinish, PromiseInv, EndedIsMoved, Service
  <2>3. PromiseInv'
    BY <1>1, <1>f, <2>2 DEF NetFinish, PromiseInv, RowsReach
  <2>4. UNCHANGED Wanted
    BY <1>1 DEF NetFinish, Wanted
  <2>5. <<t, srv[t].path>> \in Promise!Jobs
    BY <2>1 DEF Promise!Jobs
  <2>6. ok => Promise!Move(<<t, srv[t].path>>)
    BY <1>1, <2>4 DEF NetFinish, Promise!Move
  <2> QED
    BY <1>1, <2>3, <2>4, <2>5, <2>6 DEF NetFinish
<1>2. ASSUME NEW ok \in BOOLEAN, LibFinish(t, ok)
      PROVE  /\ PromiseInv'
             /\ \/ \E j \in Promise!Jobs : Promise!Move(j)
                \/ UNCHANGED <<Wanted, moved>>
  <2>1. srv[t].lib \in Paths
    BY <1>2, <1>a DEF LibFinish, Service
  <2>2. \A u \in Types : EndOf(srv[u], srv'[u])
    BY <1>2, <1>a DEF LibFinish, EndOf, Service
  <2>3. PromiseInv'
    BY <1>2, <1>e, <1>f, <2>2, ShrinkKeeps DEF LibFinish
  <2>4. UNCHANGED Wanted
    BY <1>2 DEF LibFinish, Wanted
  <2>5. <<t, srv[t].lib>> \in Promise!Jobs
    BY <2>1 DEF Promise!Jobs
  <2>6. ok => Promise!Move(<<t, srv[t].lib>>)
    BY <1>2, <2>4 DEF LibFinish, Promise!Move
  <2> QED
    BY <1>2, <2>3, <2>4, <2>5, <2>6 DEF LibFinish
<1>3. ASSUME NEW s \in Sound, NEW runs, EndOf(srv[t], s), s.url = srv[t].url,
             UNCHANGED moved,
             \/ Become(t, s)
             \/ /\ DeleteFromDb(t, s, runs)
                /\ local => Adrift \/ <<t, Text(s.url)>> \in moved
      PROVE  /\ PromiseInv'
             /\ \/ \E j \in Promise!Jobs : Promise!Settle(j)
                \/ UNCHANGED <<Wanted, moved>>
  <2>1. CASE Become(t, s)
    <3>1. \A u \in Types : EndOf(srv[u], srv'[u])
      BY <1>3, <1>a, <2>1 DEF Become, EndOf
    <3>2. Shrinks(rows, rows')
      BY <1>e, <2>1 DEF Become
    <3>3. PromiseInv'
      BY <1>3, <1>f, <3>1, <3>2, ShrinkKeeps
    <3> QED
      BY <1>3, <1>d, <2>1, <3>3 DEF Become, Wanted
  <2>2. CASE /\ db # None /\ Commit(t, Without(rows[db], t, Text(s.url)), s, runs)
             /\ Adrift \/ <<t, Text(s.url)>> \in moved
    <3> DEFINE u == Text(s.url)
    <3>1. rows' = [rows EXCEPT ![db] = Without(rows[db], t, u)]
      BY <2>2 DEF Commit
    <3>2. u \in Paths \cup {None}
      BY <1>a, <1>3 DEF Text, Service
    <3>3. rows \in [Devices -> Table] /\ db \in Devices
      BY <1>a, <2>2 DEF TypeInv, TypeOK, Table
    <3>4. \A v \in Types : EndOf(srv[v], srv'[v])
      BY <1>3, <1>a, <2>2, CommitEnd
    <3> HIDE DEF u
    <3>5. Shrinks(rows, rows')
      BY <3>1, <3>3, StatementsShrink
    <3>6. PromiseInv'
      BY <1>3, <1>f, <3>4, <3>5, ShrinkKeeps
    <3>7. \/ Wanted' = Wanted
          \/ /\ u \in Paths
             /\ <<t, u>> \in Wanted
             /\ Wanted' = Wanted \ {<<t, u>>}
      BY <2>2, <3>1, <3>2, WithoutWanted
    <3>8. CASE Wanted' = Wanted
      BY <1>3, <1>d, <3>6, <3>8
    <3>9. CASE u \in Paths /\ <<t, u>> \in Wanted /\ Wanted' = Wanted \ {<<t, u>>}
      <4>1. <<t, u>> \in Promise!Jobs
        BY <3>9 DEF Promise!Jobs
      <4>2. Promise!Settle(<<t, u>>)
        BY <1>3, <1>d, <2>2, <3>9 DEF Promise!Settle, u
      <4> QED
        BY <3>6, <4>1, <4>2
    <3> QED
      BY <3>7, <3>8, <3>9
  <2> QED
    BY <1>3, <1>c, <2>1, <2>2 DEF DeleteFromDb
<1>4. CASE Deliver(t)
  <2> DEFINE via == Answered(t, srv[t].via, "local", local => srv[t].st = "ok", srv[t].via)
             s == [srv[t] EXCEPT !.st = "freed", !.via = via]
  <2>1. via \in {"none", "local", "p2p", "due", "lost"}
    BY <1>a, AnsweredTyped DEF Service
  <2>2. /\ srv[t].st \in {"ok", "err"} /\ UNCHANGED moved
        /\ IF srv[t].st = "ok" \/ ~local THEN DeleteFromDb(t, s, {FALSE}) ELSE Become(t, s)
    BY <1>4 DEF Deliver
  <2> HIDE DEF via
  <2>3. s \in Sound /\ s.url = srv[t].url /\ s.st = "freed"
    BY <1>a, <2>1 DEF Sound, Service, InFlight
  <2>4. InFlight(srv[t]) /\ srv[t].url = srv[t].path /\ srv[t].path \in Paths
    BY <1>a, <2>2 DEF InFlight, PromiseInv, QueueInv, LinkInv, RunningIsListed, Sound
  <2>5. CASE srv[t].st = "ok"
    <3>1. <<t, srv[t].path>> \in moved
      BY <2>5 DEF PromiseInv, EndedIsMoved
    <3>2. local /\ db # None
      BY <1>b, <2>4 DEF PromiseInv, QueueInv, LinkInv, RunningIsListed, ListsStarted
    <3>3. CASE Text(s.url) = srv[t].path
      <4>1. <<t, Text(s.url)>> \in moved
        BY <3>1, <3>3
      <4> QED
        BY <1>3, <1>g, <2>2, <2>3, <2>5, <4>1 DEF EndOf
    <3>4. CASE Text(s.url) = None
      <4>1. Without(rows[db], t, None) = rows[db] /\ rows \in [Devices -> Table]
        BY <1>a, <3>2, NoneIsNothing DEF Without, TypeInv, TypeOK, Table
      <4>2. Commit(t, rows[db], s, {FALSE})
        BY <2>2, <2>5, <3>2, <3>4, <4>1 DEF DeleteFromDb
      <4>3. rows' = rows
        BY <1>a, <3>2, <4>1, <4>2 DEF Commit, TypeInv, TypeOK
      <4>4. \A v \in Types : EndOf(srv[v], srv'[v])
        BY <1>a, <2>3, <4>2, CommitEnd DEF EndOf
      <4>5. PromiseInv'
        BY <1>e, <1>f, <2>2, <4>3, <4>4, ShrinkKeeps
      <4> QED
        BY <1>g, <2>2, <4>3, <4>5 DEF Wanted
    <3> QED
      BY <2>3, <2>4, <3>3, <3>4 DEF Text
  <2>6. CASE srv[t].st = "err"
    <3>1. Become(t, s)
      BY <1>b, <2>2, <2>4, <2>6
    <3> QED
      BY <1>3, <1>g, <2>2, <2>3, <3>1 DEF EndOf
  <2> QED
    BY <2>2, <2>5, <2>6
<1>5. CASE DeliverLate(t)
  <2>1. PICK a \in srv[t].late :
          /\ LET s == [srv[t] EXCEPT !.late = @ \ {a}]
             IN DeleteFromDb(t, s, Reads(s)) \/ Become(t, s)
          /\ UNCHANGED moved
    BY <1>5 DEF DeliverLate
  <2> DEFINE s == [srv[t] EXCEPT !.late = @ \ {a}]
  <2>2. /\ s \in Sound /\ s.url = srv[t].url /\ s.path = srv[t].path
        /\ s.st = srv[t].st
    BY <1>a DEF Sound, Service, InFlight
  <2>3. Adrift /\ EndOf(srv[t], s)
    BY <2>2 DEF Adrift, EndOf
  <2> QED
    BY <1>3, <1>g, <2>1, <2>2, <2>3
<1>6. CASE LibCallback(t)
  <2>1. PICK s \in Service : /\ SameRequest(srv[t], s) /\ srv' = [srv EXCEPT ![t] = s]
                             /\ UNCHANGED rows
    BY <1>a, <1>c, <1>6, CallbackIs DEF Heard
  <2>2. \A u \in Types : EndOf(srv[u], srv'[u])
    BY <1>a, <2>1 DEF EndOf, SameRequest
  <2>3. PromiseInv'
    BY <1>6, <1>e, <1>f, <2>1, <2>2, ShrinkKeeps DEF LibCallback
  <2> QED
    BY <1>6, <1>g, <2>1, <2>3 DEF LibCallback, Wanted
<1>7. CASE HandleChange(t)
  <2>1. PICK s \in Sound, s2 \in Sound :
          /\ SameRequest(srv[t], s) /\ s2 \in Reactions(s, list[t], Reads(s))
          /\ srv' = [srv EXCEPT ![t] = Settled(s2)]
    BY <1>a, <1>7, HandleIs
  <2>2. list[t] \in SUBSET Paths
    BY <1>a DEF TypeInv, TypeOK
  <2>3. EndOf(s, s2) /\ SameRequest(s2, Settled(s2))
    BY <2>1, <2>2, ReactionsEnd, SettledIs
  <2>4. \A u \in Types : EndOf(srv[u], srv'[u])
    BY <1>a, <2>1, <2>3 DEF EndOf, SameRequest
  <2>5. PromiseInv'
    BY <1>7, <1>e, <1>f, <2>4, ShrinkKeeps DEF HandleChange
  <2> QED
    BY <1>7, <1>g, <2>5 DEF HandleChange, Wanted
<1> QED
  BY <1>1, <1>2, <1>3, <1>4, <1>5, <1>6, <1>7, <1>g DEF Answers

(***************************************************************************)
(* The queues keep the promise: a transfer that was asked for is forgotten *)
(* only once its file has been moved or in the step of the user that takes *)
(* back this very transfer.  No pause, crash, error, restart or entry of a *)
(* device forgets one; the answer of a transfer that was taken back while  *)
(* the answer was on its way may.  The urls are those of the local link,   *)
(* each of one device; no row is replaced and a device is left only by     *)
(* ending the program.                                                     *)
(***************************************************************************)
THEOREM QueuesKeepThePromise ==
  ASSUME {"p2p", "replace", "switch"} \cap Ops = {},
         \A p \in Paths : \A d, e \in Reach[p] : d = e
  PROVE  Spec => PromiseKept
<1>a. OwnUrls
  BY DEF OwnUrls
<1>1. Init => QueueInv
  BY InitLink DEF Init, QueueInv, ListsStarted
<1>2. QueueInv /\ [Next]_vars => ListsStarted'
  <2>1. CASE UNCHANGED vars
    BY <2>1 DEF vars, QueueInv, ListsStarted
  <2> QED
    BY <2>1, QueueStep
<1>3. Spec => []LinkInv
  BY LinkInvariance
<1>4. Spec => []QueueInv
  BY <1>1, <1>2, <1>3, PTL DEF Spec, QueueInv
<1>5. Init => PromiseInv
  <2>1. Init => OwnTable /\ EndedIsMoved
    BY DEF Init, OwnTable, EndedIsMoved, FreshService
  <2>2. Init => RowsReach
    BY DEF Init, RowsReach, NoRows
  <2> QED
    BY <1>1, <2>1, <2>2 DEF PromiseInv
<1>6. Init => Promise!Init
  <2>1. Init => Wanted = {} /\ Adrift = FALSE
    BY NoneIsNoRow DEF Init, Wanted, Jobs, Adrift, NoRows, FreshService, Types
  <2> QED
    BY <2>1 DEF Init, Promise!Init, Silence, Promise!Silence
<1>7. ASSUME PromiseInv, QueueInv', [Next]_vars
      PROVE  PromiseInv' /\ [Promise!Next]_<<Wanted, moved, said, Adrift>>
  <2>0. Adrift' \in BOOLEAN
    BY DEF Adrift
  <2>1. CASE UNCHANGED vars
    BY <1>7, <2>1 DEF vars, PromiseInv, OwnTable, RowsReach, EndedIsMoved, Wanted, Adrift
  <2>2. CASE \E t \in Types, p \in Paths : Add(t, p)
    <3>1. PICK t \in Types, p \in Paths : Add(t, p)
      BY <2>2
    <3>2. PromiseInv' /\ Promise!Ask(<<t, p>>)
      BY <1>7, <1>a, <3>1, AddAsks
    <3>3. <<t, p>> \in Promise!Jobs
      BY DEF Promise!Jobs
    <3> QED
      BY <2>0, <3>2, <3>3 DEF Promise!Next
  <2>3. CASE (UserStep \/ Crash) /\ \A t \in Types, p \in Paths : ~Add(t, p)
    <3>1. PromiseInv' /\ ((\E jobs \in SUBSET Jobs : Promise!TakeBack(jobs)) \/ Keeps)
      BY <1>7, <1>a, <2>3, UserShows
    <3>2. Jobs = Promise!Jobs
      BY DEF Jobs, Promise!Jobs
    <3> QED
      BY <2>0, <3>1, <3>2 DEF Promise!Next, Promise!Work, Keeps
  <2>4. CASE \E t \in Types : Answers(t)
    BY <1>7, <1>a, <2>0, <2>4, AnswerShows DEF Promise!Next, Promise!Work
  <2> QED
    BY <1>7, <2>1, <2>2, <2>3, <2>4 DEF Next
<1> QED
  BY <1>4, <1>5, <1>6, <1>7, PTL DEF Spec, PromiseKept, Promise!Spec
=============================================================================
