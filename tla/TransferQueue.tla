---------------------------- MODULE TransferQueue ----------------------------
(***************************************************************************)
(* The upload and download queues of one client.  DbFileTransfer keeps a   *)
(* table of rows in the transfer.db of the current device and, in memory,  *)
(* the list of started rows of each direction.  Every change of the table  *)
(* rebuilds one list and signals it to the LocalFileService of that        *)
(* direction, which sends the first file of the list: as an HTTP request   *)
(* over the local link, or through the p2p library.  A finished file is    *)
(* deleted from the table, and that change starts the next one.            *)
(*                                                                         *)
(* The network thread answers asynchronously: what it answers is posted    *)
(* and handled later, against the members the service has by then.  The    *)
(* thread of the p2p library handles its answers itself, up to the signal, *)
(* which Qt posts to the main thread.                                      *)
(***************************************************************************)
EXTENDS Naturals, FiniteSets

CONSTANTS
  Devices,   \* macs; each has a transfer.db of its own
  Paths,     \* remote urls (column fpath), numbered in the ORDER BY of all()
  Escaped,   \* the paths that QUrl(fpath).toString() does not give back
  Reach,     \* Reach[p]: the devices for which p is the url of a file; a
             \* url of the local link names the ip, one of p2p no host at all
  None,      \* no device, no row, an empty QUrl
  Ops,       \* what the user does in this instance, see AllOps
  Faults,    \* what goes wrong in this instance, see AllFaults
  MaxOps     \* bound on the steps of the user, the crashes included

AllOps == {"add", "replace", "del", "pause", "empty", "emptyall",
           "link", "switch", "exit", "p2p"}
AllFaults == {"neterr", "openfail", "crash"}

ASSUME PathsOrdered ==
  /\ Paths \subseteq Nat
  /\ \A S \in SUBSET Paths : S # {} => \E p \in S : \A q \in S : p <= q
ASSUME NoneIsNothing == None \notin Devices \cup Paths
ASSUME NoneIsNoRow == \A t \in {"upload", "download"}, on \in BOOLEAN :
                        None # [type |-> t, on |-> on]
ASSUME PathFacts == Escaped \subseteq Paths /\ Reach \in [Paths -> SUBSET Devices]
ASSUME KnownOps == Ops \subseteq AllOps /\ Faults \subseteq AllFaults
ASSUME OpsBounded == MaxOps \in Nat

VARIABLES
  mac,    \* DbDevices.curr.mac
  db,     \* the device whose transfer.db is open
  local,  \* useLocalLink()
  dirs,   \* devices whose directory was made, so that their db can be opened
  rows,   \* the tables on disk
  list,   \* uploadList and downloadList, ordered by path
  srv,    \* the two LocalFileServices
  moved,  \* history: what really reached its destination since it was added
  said,   \* history: what the user asked for, or took back, in the last step
  ops     \* steps left to the user

vars == <<mac, db, local, dirs, rows, list, srv, moved, said, ops>>

Types == {"upload", "download"}
Row == [type : Types, on : BOOLEAN]
Answer == [path : Paths, ok : BOOLEAN]

(***************************************************************************)
(* A service: url is m_urlRemote; path and st describe the QNetworkReply   *)
(* behind m_replyPut or m_replyGet, where "ok" and "err" say that its end  *)
(* is posted and not yet delivered, and "freed" that the reply has been    *)
(* deleted and the pointer has not.  late holds the posted ends of replies *)
(* that stop() let go of.  lib is the file the p2p library is moving and   *)
(* cb the answers its thread is about to hand over; posted counts the      *)
(* signals of that thread that the main thread has not handled.  via is    *)
(* history: the link the last file was started on; "due" when its answer   *)
(* has posted the signal that starts the next; or "lost" once it could not *)
(* be opened or its answer has come and there was nothing to start.        *)
(***************************************************************************)
Service == [url : Paths \cup {None},
            via : {"none", "local", "p2p", "due", "lost"},
            path : Paths \cup {None},
            st : {"null", "running", "ok", "err", "freed"},
            late : SUBSET Answer,
            lib : Paths \cup {None}, cb : SUBSET Answer, posted : Nat]

FreshService == [url |-> None, via |-> "none", path |-> None, st |-> "null",
                 late |-> {}, lib |-> None, cb |-> {}, posted |-> 0]

NoRows == [p \in Paths |-> None]

Jobs == Types \X Paths

Silence == [ask |-> {}, back |-> {}]

TypeOK ==
  /\ mac \in Devices \cup {None}
  /\ db \in Devices \cup {None}
  /\ local \in BOOLEAN
  /\ dirs \in SUBSET Devices
  /\ rows \in [Devices -> [Paths -> Row \cup {None}]]
  /\ list \in [Types -> SUBSET Paths]
  /\ srv \in [Types -> Service]
  /\ moved \in SUBSET Jobs
  /\ said \in [ask : SUBSET Jobs, back : SUBSET Jobs]
  /\ ops \in 0..MaxOps

Init ==
  /\ mac = None
  /\ db = None
  /\ local = FALSE
  /\ dirs = {}
  /\ rows = [d \in Devices |-> NoRows]
  /\ list = [t \in Types |-> {}]
  /\ srv = [t \in Types |-> FreshService]
  /\ moved = {}
  /\ said = Silence
  /\ ops = MaxOps

-----------------------------------------------------------------------------
(* Rows *)

\* Mutant of Active: the paused rows are listed too.
ActiveOrPaused(r, t) == {p \in Paths : r[p] \in [type : {t}, on : BOOLEAN]}

\* The started rows of a direction: what postDataChanged puts in its list.
Active(r, t) == {p \in Paths : r[p] = [type |-> t, on |-> TRUE]}

\* DELETE ... WHERE ftype = t AND fpath = u
Without(r, t, u) ==
  [p \in Paths |-> IF p = u /\ r[p] \in [type : {t}, on : BOOLEAN]
                     THEN None ELSE r[p]]

\* UPDATE ... SET fstatus WHERE ftype = t, for the paths of S
Switched(r, t, S, on) ==
  [p \in Paths |-> IF p \in S /\ r[p] \in [type : {t}, on : BOOLEAN]
                     THEN [type |-> t, on |-> on] ELSE r[p]]

First(S) == CHOOSE p \in S : \A q \in S : p <= q

\* m_urlRemote.toString(), compared with fpath and used in WHERE clauses
Text(u) == IF u \in Escaped THEN None ELSE u

-----------------------------------------------------------------------------
(* LocalFileService *)

\* What a read through the reply pointer may find: isRunning() and, for an
\* answer of another reply, error() = NoError.  Reading a freed reply gives
\* anything.
Reads(s) ==
  CASE s.st \in {"running", "ok", "err"} -> {TRUE}
    [] s.st = "freed" -> {TRUE, FALSE}
    [] OTHER -> {FALSE}

\* Mutant of Posted: an answer that does not say how the request ended.
PostedPath(s) == IF s.st \in {"ok", "err"} THEN {[path |-> s.path]} ELSE {}

Posted(s) == IF s.st \in {"ok", "err"}
               THEN {[path |-> s.path, ok |-> s.st = "ok"]} ELSE {}

\* stop(): the replies die with the old manager, what they posted does not.
Stop(s) == [s EXCEPT !.url = None, !.path = None, !.st = "null",
                     !.late = @ \cup Posted(s)]

\* upload() and download(): a request over the local link unless the local
\* file cannot be opened, or a call of the p2p library, which drops what it
\* was moving.
StartFile(s, p) ==
  IF local
    THEN {[s EXCEPT !.url = p, !.via = "local", !.path = p, !.st = "running"]}
         \cup IF "openfail" \in Faults
                THEN {[s EXCEPT !.url = p, !.via = "lost"]} ELSE {}
    ELSE {[s EXCEPT !.url = p, !.via = "p2p", !.lib = p]}

\* Mutants of DataChanged: the old request is not stopped, or it is and the
\* handler returns.
DataChangedNoStop(s, l, run) ==
  CASE local /\ run /\ s.url # None /\ Text(s.url) \in l -> {s}
    [] OTHER -> IF l = {} THEN {s} ELSE StartFile(s, First(l))

DataChangedOnlyStops(s, l, run) ==
  CASE local /\ run /\ s.url # None /\ Text(s.url) \in l -> {s}
    [] local /\ run /\ s.url # None /\ Text(s.url) \notin l -> {Stop(s)}
    [] OTHER -> IF l = {} THEN {s} ELSE StartFile(s, First(l))

\* dbDataChanged(): the states the service may be in after the signal, when
\* its list is l and isTransfering() reads run.
DataChanged(s, l, run) ==
  LET stopped == IF local /\ s.url # None THEN Stop(s) ELSE s
  IN CASE local /\ run /\ s.url # None /\ Text(s.url) \in l -> {s}
       [] OTHER -> IF l = {} THEN {stopped} ELSE StartFile(stopped, First(l))

Reactions(s, l, runs) == UNION {DataChanged(s, l, run) : run \in runs}

\* postDataChanged(t) with the table r, the service being in state s.
Commit(t, r, s, runs) ==
  /\ rows' = [rows EXCEPT ![db] = r]
  /\ list' = [list EXCEPT ![t] = Active(r, t)]
  /\ \E s2 \in Reactions(s, Active(r, t), runs) : srv' = [srv EXCEPT ![t] = s2]

Become(t, s) ==
  /\ srv' = [srv EXCEPT ![t] = s]
  /\ UNCHANGED <<rows, list>>

\* Mutant of DeleteFromDb: the change is not signalled.
DeleteQuietly(t, s, runs) ==
  IF db = None THEN Become(t, s)
  ELSE /\ rows' = [rows EXCEPT ![db] = Without(@, t, Text(s.url))]
       /\ srv' = [srv EXCEPT ![t] = s]
       /\ UNCHANGED list

\* deleteFromDb() of a service in state s: del() does nothing without a db.
DeleteFromDb(t, s, runs) ==
  IF db = None THEN Become(t, s)
               ELSE Commit(t, Without(rows[db], t, Text(s.url)), s, runs)

\* deleteFromDb() on the thread of the library: the row and the list change
\* at once, and the signal is posted.
DeleteAndPost(t, s) ==
  IF db = None THEN Become(t, s)
  ELSE LET r == Without(rows[db], t, Text(s.url))
       IN /\ rows' = [rows EXCEPT ![db] = r]
          /\ list' = [list EXCEPT ![t] = Active(r, t)]
          /\ srv' = [srv EXCEPT ![t] = [s EXCEPT !.posted = @ + 1]]

\* History: what via is when a file started on link has its answer taken, by
\* a handler that deletes its row, and then goes on as next says, or does
\* nothing.
Answered(t, via, link, deletes, next) ==
  LET rest == IF db = None THEN {}
              ELSE Active(Without(rows[db], t, Text(srv[t].url)), t)
  IN IF via # link THEN via
     ELSE IF deletes /\ rest # {} THEN next ELSE "lost"

-----------------------------------------------------------------------------
(* The user *)

Step(op) ==
  /\ op \in Ops
  /\ ops > 0
  /\ ops' = ops - 1

\* add(): INSERT OR REPLACE, over a row of either direction.
Add(t, p) ==
  /\ db # None
  /\ mac \in Reach[p]
  /\ Step(IF rows[db][p] = None THEN "add" ELSE "replace")
  /\ Commit(t, [rows[db] EXCEPT ![p] = [type |-> t, on |-> TRUE]],
            srv[t], Reads(srv[t]))
  /\ moved' = moved \ {<<t, p>>}
  /\ said' = [ask |-> {<<t, p>>}, back |-> {}]
  /\ UNCHANGED <<mac, db, local, dirs>>

TakesBack(jobs) == said' = [ask |-> {}, back |-> jobs]

Del(t, p) ==
  /\ db # None
  /\ Step("del")
  /\ rows[db][p] # None
  /\ Commit(t, Without(rows[db], t, p), srv[t], Reads(srv[t]))
  /\ TakesBack({<<t, p>>})
  /\ UNCHANGED <<mac, db, local, dirs, moved>>

\* start() and stop() of one path, or of all of a direction.
StartStop(t, S, on) ==
  /\ db # None
  /\ Step("pause")
  /\ \E p \in S : rows[db][p] # None
  /\ Commit(t, Switched(rows[db], t, S, on), srv[t], Reads(srv[t]))
  /\ said' = Silence
  /\ UNCHANGED <<mac, db, local, dirs, moved>>

\* empty()
Empty(t) ==
  /\ db # None
  /\ Step("empty")
  /\ Commit(t, [p \in Paths |-> IF rows[db][p] \in [type : {t}, on : BOOLEAN]
                                  THEN None ELSE rows[db][p]],
            srv[t], Reads(srv[t]))
  /\ TakesBack({t} \X Paths)
  /\ UNCHANGED <<mac, db, local, dirs, moved>>

\* opendb() of the current mac: without its directory there is no db.
Opened == IF mac \in dirs THEN mac ELSE None

\* empty_all(): close, remove the file, open the current mac's, signal twice.
EmptyAll ==
  /\ Step("emptyall")
  /\ db' = Opened
  /\ rows' = IF db = None THEN rows ELSE [rows EXCEPT ![db] = NoRows]
  /\ list' = [t \in Types |-> IF db' = None THEN {} ELSE Active(rows'[db'], t)]
  /\ LET After(t) == Reactions(srv[t], list'[t], Reads(srv[t]))
     IN \E up \in After("upload"), down \in After("download") :
          srv' = [t \in Types |-> IF t = "upload" THEN up ELSE down]
  /\ TakesBack(Jobs)
  /\ UNCHANGED <<mac, local, dirs, moved>>

\* intoDevice(): reset() follows only when the mac changed and the device is
\* configured; the lists are not rebuilt.
IntoDevice(d, cfg, loc) ==
  /\ Step(IF mac = None THEN "add"
          ELSE IF mac # d THEN "switch" ELSE "link")
  /\ loc \/ "p2p" \in Ops
  /\ mac = d => loc # local
  /\ mac' = d
  /\ local' = loc
  /\ IF mac # d /\ cfg
       THEN dirs' = dirs \cup {d} /\ db' = d
       ELSE UNCHANGED <<dirs, db>>
  /\ said' = Silence
  /\ UNCHANGED <<rows, list, srv, moved>>

\* The memory of the process is gone; only the tables and directories stay.
Forget ==
  /\ mac' = None
  /\ db' = None
  /\ local' = FALSE
  /\ list' = [t \in Types |-> {}]
  /\ srv' = [t \in Types |-> FreshService]
  /\ said' = Silence
  /\ UNCHANGED <<dirs, moved>>

\* ~DbFileTransfer: both directions of the open db are stopped.
Exit ==
  /\ Step("exit")
  /\ mac # None
  /\ rows' = IF db = None THEN rows
             ELSE [rows EXCEPT ![db] =
                     Switched(Switched(@, "upload", Paths, FALSE),
                              "download", Paths, FALSE)]
  /\ Forget

Crash ==
  /\ "crash" \in Faults
  /\ mac # None
  /\ ops > 0
  /\ ops' = ops - 1
  /\ UNCHANGED rows
  /\ Forget

-----------------------------------------------------------------------------
(* The network and the p2p library *)

\* The network thread ends a request and posts its end.
NetFinish(t, ok) ==
  /\ srv[t].st = "running"
  /\ ok \/ "neterr" \in Faults
  /\ srv' = [srv EXCEPT ![t].st = IF ok THEN "ok" ELSE "err"]
  /\ moved' = IF ok THEN moved \cup {<<t, srv[t].path>>} ELSE moved
  /\ said' = Silence
  /\ UNCHANGED <<mac, db, local, dirs, rows, list, ops>>

\* The library ends a file; its thread has not called p2p_recv_cb yet.
LibFinish(t, ok) ==
  LET s == [srv[t] EXCEPT !.lib = None,
                          !.cb = @ \cup {[path |-> srv[t].lib, ok |-> ok]}]
  IN /\ srv[t].lib # None
     /\ ok \/ "neterr" \in Faults
     /\ srv' = [srv EXCEPT ![t] = s]
     /\ moved' = IF ok THEN moved \cup {<<t, srv[t].lib>>} ELSE moved
     /\ said' = Silence
     /\ UNCHANGED <<mac, db, local, dirs, rows, list, ops>>

\* Mutant of Deliver: the finished slot does not look at the error.
DeliverUnchecked(t) ==
  LET s == [srv[t] EXCEPT !.st = "freed"]
  IN /\ srv[t].st \in {"ok", "err"}
     /\ srv[t].late = {}
     /\ DeleteFromDb(t, s, {FALSE})
     /\ said' = Silence
     /\ UNCHANGED <<mac, db, local, dirs, moved, ops>>

\* uploadErrorSlot() and uploadFinishedSlot(), or their download twins, for
\* the reply of the service.  Off the local link the second one does not look
\* at the error.  The reply is freed afterwards.
Deliver(t) ==
  LET s == [srv[t] EXCEPT !.st = "freed",
                          !.via = Answered(t, @, "local",
                                           local => srv[t].st = "ok", @)]
  IN /\ srv[t].st \in {"ok", "err"}
     /\ srv[t].late = {}
     /\ IF srv[t].st = "ok" \/ ~local
          THEN DeleteFromDb(t, s, {FALSE}) ELSE Become(t, s)
     /\ said' = Silence
     /\ UNCHANGED <<mac, db, local, dirs, moved, ops>>

\* The same slots for the end of a reply that stop() let go of: they look at
\* the error of the reply the service has by now, and at its url.
DeliverLate(t) ==
  \E a \in srv[t].late :
    LET s == [srv[t] EXCEPT !.late = @ \ {a}]
    IN /\ \E fine \in IF local THEN Reads(s) ELSE {TRUE} :
            IF fine THEN DeleteFromDb(t, s, Reads(s)) ELSE Become(t, s)
       /\ said' = Silence
       /\ UNCHANGED <<mac, db, local, dirs, moved, ops>>

\* p2p_recv_cb(), on the thread of the library: ignored over the local link; a
\* success runs the finished slot, which takes it for its own url, up to the
\* signal of the deletion, and a failure only closes the file.
LibCallback(t) ==
  \E a \in srv[t].cb :
    LET s == [srv[t] EXCEPT !.cb = @ \ {a},
                            !.via = IF a.path = srv[t].url
                                      THEN Answered(t, @, "p2p", ~local /\ a.ok, "due")
                                      ELSE @]
    IN /\ IF ~local /\ a.ok THEN DeleteAndPost(t, s) ELSE Become(t, s)
       /\ said' = Silence
       /\ UNCHANGED <<mac, db, local, dirs, moved, ops>>

\* History: the posted signal has been handled, and may have started a file.
Settled(s) == [s EXCEPT !.via = IF @ = "due" THEN "lost" ELSE @]

\* dbDataChanged() for a posted signal, with the link and list of now.
HandleChange(t) ==
  LET s == [srv[t] EXCEPT !.posted = @ - 1]
  IN /\ srv[t].posted > 0
     /\ \E s2 \in Reactions(s, list[t], Reads(s)) :
          srv' = [srv EXCEPT ![t] = Settled(s2)]
     /\ said' = Silence
     /\ UNCHANGED <<mac, db, local, dirs, rows, list, moved, ops>>

-----------------------------------------------------------------------------

UserStep ==
  \/ \E t \in Types, p \in Paths : Add(t, p) \/ Del(t, p)
  \/ \E t \in Types, on \in BOOLEAN :
       \/ StartStop(t, Paths, on)
       \/ \E p \in Paths : StartStop(t, {p}, on)
  \/ \E t \in Types : Empty(t)
  \/ EmptyAll
  \/ \E d \in Devices, cfg, loc \in BOOLEAN : IntoDevice(d, cfg, loc)
  \/ Exit

Answers(t) ==
  \/ \E ok \in BOOLEAN : NetFinish(t, ok) \/ LibFinish(t, ok)
  \/ Deliver(t)
  \/ DeliverLate(t)
  \/ LibCallback(t)
  \/ HandleChange(t)

Next == UserStep \/ Crash \/ \E t \in Types : Answers(t)

Spec == Init /\ [][Next]_vars

\* The network and the event loop do not stand still.
FairSpec == Spec /\ \A t \in Types : WF_vars(Answers(t))

-----------------------------------------------------------------------------
(* What the queues are for *)

InFlight(s) == s.st \in {"running", "ok", "err"}

(***************************************************************************)
(* Over the local link a service works on a file of its list, and its      *)
(* members agree with the request that is out: dbDataChanged() has stopped *)
(* whatever the last change of the table took away (localFileService.cpp,  *)
(* dbDataChanged, stop).                                                   *)
(***************************************************************************)
RunningIsListed ==
  \A t \in Types : InFlight(srv[t]) =>
    srv[t].url = srv[t].path /\ srv[t].path \in list[t]

(***************************************************************************)
(* What is on its way to or from the device is a started row of its table: *)
(* a paused, deleted or never queued file is not transferred.              *)
(***************************************************************************)
PausedNeverSent ==
  \A t \in Types : InFlight(srv[t]) =>
    db # None /\ rows[db][srv[t].path] = [type |-> t, on |-> TRUE]

\* The file the service started last, or its answer, is on the way; or its
\* answer has come, and the change it posted is not handled yet or there was
\* nothing to start.
UnderWay(s) ==
  \/ s.via = "local" /\ InFlight(s) /\ s.path = s.url
  \/ s.via = "p2p" /\ (s.lib = s.url \/ \E a \in s.cb : a.path = s.url)
  \/ s.via = "due" /\ s.posted > 0
  \/ s.via = "lost"

(***************************************************************************)
(* A queue with files in it never stands still of itself: a signal of the  *)
(* library's thread is posted that will start one; or its service has a    *)
(* file, and that file or its answer is on the way, unless the answer came *)
(* when there was nothing to start.  Every handler that leaves files in a  *)
(* list has started one of them, found one running or posted the change    *)
(* (localFileService.cpp, dbDataChanged; awsIot.cpp, p2p_recv_cb).         *)
(* Nothing is started after a failure, after an answer that p2p_recv_cb    *)
(* drops because the link has changed, and after the last file of a queue; *)
(* the next file, and the handler of the posted change, may then find the  *)
(* reply of an older one, and isTransfering() takes that for its own.      *)
(***************************************************************************)
NoSilentStall ==
  \A t \in Types : list[t] # {} =>
    srv[t].posted > 0 \/ (srv[t].url # None /\ UnderWay(srv[t]))

(***************************************************************************)
(* A listed file leaves the list (transferred, deleted or paused), or its  *)
(* queue meets a failure.                                                  *)
(***************************************************************************)
Drains ==
  \A t \in Types, p \in Paths : (p \in list[t]) ~> (p \notin list[t] \/ srv[t].via = "lost")

(***************************************************************************)
(* An answer takes a row from the table only when the file of that row has *)
(* been moved: the answer of the file that was replaced or stopped is not  *)
(* taken for the one that is on its way now (localFileService.cpp: "stop   *)
(* old one or ignore same one", "p2p will auto stop old link before new"). *)
(***************************************************************************)
SettledByOwnAnswer ==
  [][\A t \in Types : Answers(t) =>
       \A d \in Devices, p \in Paths :
         rows[d][p] # None /\ rows'[d][p] = None => <<t, p>> \in moved]_vars

(***************************************************************************)
(* The rows of all devices, as TransferPromise sees them: a row leaves the *)
(* table when its file has been moved or in the step of the user that      *)
(* takes it back, and else only by the answer of a request that stop() let *)
(* go of after it had been posted (dbFileTransfer.cpp, del;                *)
(* localFileService.cpp, stop).                                            *)
(***************************************************************************)
Wanted == {j \in Jobs :
             \E d \in Devices : rows[d][j[2]] \in [type : {j[1]}, on : BOOLEAN]}
Adrift == \E t \in Types : srv[t].late # {}
Promise == INSTANCE TransferPromise
             WITH want <- Wanted, adrift <- Adrift
PromiseKept == Promise!Spec
=============================================================================
