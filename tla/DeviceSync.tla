----------------------------- MODULE DeviceSync -----------------------------
(***************************************************************************)
(* The list of the user's devices and its copy in the cloud.  DbDevices    *)
(* keeps one row per device, which tells what the cloud has not confirmed  *)
(* yet: an addition, a deletion, or nothing.  AwsDbService posts a request *)
(* for each change, pulls the list of the cloud once after the sign-in and *)
(* whenever the user asks, merges it into the rows and then posts again    *)
(* what is still pending.  The requests are independent of one another:    *)
(* the cloud may serve them, and the answers may come, in any order.       *)
(***************************************************************************)
EXTENDS Naturals

CONSTANTS
  Devices,  \* macs
  None,     \* no row
  MaxOps,   \* bound on the steps of the user, the restarts included
  MaxPulls  \* bound on the identical pulls under way at a time

ASSUME NoneIsNoDevice == \A ip \in BOOLEAN, p \in {"none", "add", "del"} :
                           None # [ip |-> ip, pending |-> p]
ASSUME BoundsNatural == {MaxOps, MaxPulls} \subseteq Nat

VARIABLES
  row,     \* the table of devices: column pending, and whether ip is set
  cloud,   \* the devices the cloud knows
  cred,    \* hasValidCredentials()
  pulled,  \* m_bPullAll
  out,     \* how many copies of each request are under way
  failed,  \* history: devices whose last request failed
  raced,   \* history: devices with a deletion under way beside an addition of
           \* the same device, or beside a pull
  ops      \* steps left to the user

vars == <<row, cloud, cred, pulled, out, failed, raced, ops>>

Row == [ip : BOOLEAN, pending : {"none", "add", "del"}]

(***************************************************************************)
(* A request: sent, or answered with success ("ok") or an error, with the  *)
(* answer not handled yet.  A pull that was served carries what the cloud  *)
(* listed by then.                                                         *)
(***************************************************************************)
Stages == {"sent", "ok", "error"}
Request == [kind : {"add", "del"}, dev : Devices, st : Stages]
             \cup [kind : {"all"}, seen : SUBSET Devices, st : Stages]

Adding(m) == [kind |-> "add", dev |-> m, st |-> "sent"]
Deleting(m) == [kind |-> "del", dev |-> m, st |-> "sent"]
Pulling == [kind |-> "all", seen |-> {}, st |-> "sent"]

TypeOK ==
  /\ row \in [Devices -> Row \cup {None}]
  /\ cloud \subseteq Devices
  /\ cred \in BOOLEAN
  /\ pulled \in BOOLEAN
  /\ out \in [Request -> Nat]
  /\ failed \subseteq Devices
  /\ raced \subseteq Devices
  /\ ops \in 0..MaxOps

\* A new installation, whose account may have devices already.
Init ==
  /\ row = [m \in Devices |-> None]
  /\ cloud \in SUBSET Devices
  /\ cred \in BOOLEAN
  /\ pulled = FALSE
  /\ out = [q \in Request |-> 0]
  /\ failed = {}
  /\ raced = {}
  /\ ops = MaxOps

-----------------------------------------------------------------------------
(* Rows and requests *)

\* all(p) holds m
Is(r, m, p) == r[m] # None /\ r[m].pending = p

\* getAll(): a row that waits for its deletion is not shown.
Shown(r, m) == Is(r, m, "none") \/ Is(r, m, "add")

\* Some request of this kind about m is under way.
UnderWay(o, kind, m) ==
  \E st \in Stages : o[[kind |-> kind, dev |-> m, st |-> st]] > 0

PullUnderWay(o) == \E q \in Request : q.kind = "all" /\ o[q] > 0

Racing(o) ==
  {m \in Devices : /\ UnderWay(o, "del", m)
                   /\ UnderWay(o, "add", m) \/ PullUnderWay(o)}

\* The requests for which P holds once, as a count per request.
Once(S) == [q \in Request |-> IF q \in S THEN 1 ELSE 0]

(***************************************************************************)
(* invoke() for each request that n counts, with o under way already.      *)
(* Without valid credentials it fails on the spot and onError() finds no   *)
(* login to clear.                                                         *)
(***************************************************************************)
Invoke(o, n, valid) ==
  LET about == {m \in Devices : n[Adding(m)] + n[Deleting(m)] > 0}
      now == IF valid THEN [q \in Request |-> o[q] + n[q]] ELSE o
  IN /\ out' = now
     /\ raced' = raced \cup Racing(now)
     /\ failed' = IF valid THEN failed \ about ELSE failed \cup about

User == ops > 0 /\ ops' = ops - 1

-----------------------------------------------------------------------------
(* The user and the local network *)

\* add() with PendingStatus::Add, from the pages that find a device.
Add(m) ==
  /\ User
  /\ row' = [row EXCEPT ![m] = [ip |-> TRUE, pending |-> "add"]]
  /\ Invoke(out, Once({Adding(m)}), cred)
  /\ UNCHANGED <<cloud, cred, pulled>>

\* del() of a device that the list shows.
Del(m) ==
  /\ User
  /\ Shown(row, m)
  /\ row' = [row EXCEPT ![m].pending = "del"]
  /\ Invoke(out, Once({Deleting(m)}), cred)
  /\ UNCHANGED <<cloud, cred, pulled>>

\* clearIp() writes the rows with an ip again, and so posts the new ones again.
ClearIp ==
  LET S == {m \in Devices : Shown(row, m) /\ row[m].ip}
  IN /\ User
     /\ row' = [m \in Devices |->
                  IF m \in S THEN [row[m] EXCEPT !.ip = FALSE] ELSE row[m]]
     /\ Invoke(out, Once({Adding(m) : m \in {d \in S : Is(row, d, "add")}}), cred)
     /\ UNCHANGED <<cloud, cred, pulled>>

\* updateIp(): a device of the list announced another ip.
UpdateIp(m) ==
  /\ Shown(row, m)
  /\ ~row[m].ip
  /\ row' = [row EXCEPT ![m].ip = TRUE]
  /\ Invoke(out, Once(IF Is(row, m, "add") THEN {Adding(m)} ELSE {}), cred)
  /\ UNCHANGED <<cloud, cred, pulled, ops>>

\* empty_devices() removes the database; what is under way goes on.
EmptyDevices ==
  /\ User
  /\ row' = [m \in Devices |-> None]
  /\ UNCHANGED <<cloud, cred, pulled, out, failed, raced>>

CanPull == \A q \in Request : q.kind = "all" => out[q] < MaxPulls

\* all(), from the menu of the list.
Refresh ==
  /\ User
  /\ CanPull
  /\ Invoke(out, Once({Pulling}), cred)
  /\ UNCHANGED <<row, cloud, cred, pulled>>

\* Everything under way is lost, and what the cloud had not served with it.
Restart ==
  /\ User
  /\ pulled' = FALSE
  /\ out' = [q \in Request |-> 0]
  /\ failed' = {}
  /\ UNCHANGED <<row, cloud, cred, raced>>

-----------------------------------------------------------------------------
(* The account *)

\* loginChecker() of every 15 s finds or gets credentials, and signInSuccess
\* leads to pullAll().
SignIn ==
  /\ CanPull
  /\ cred' = TRUE
  /\ Invoke(out, Once(IF pulled THEN {} ELSE {Pulling}), TRUE)
  /\ UNCHANGED <<row, cloud, pulled, ops>>

\* The credentials come within five minutes of their end, or the user signs out.
Expire ==
  /\ cred
  /\ cred' = FALSE
  /\ UNCHANGED <<row, cloud, pulled, out, failed, raced, ops>>

-----------------------------------------------------------------------------
(* The cloud and its answers *)

(***************************************************************************)
(* The cloud serves a request, or the request or its answer is lost.       *)
(***************************************************************************)
CloudTakes(q, st, effect) ==
  LET answer == IF q.kind = "all" /\ st = "ok"
                  THEN [q EXCEPT !.st = st, !.seen = cloud]
                  ELSE [q EXCEPT !.st = st]
      now == [out EXCEPT ![q] = @ - 1, ![answer] = @ + 1]
  IN /\ out[q] > 0
     /\ q.st = "sent"
     /\ st = "ok" => effect
     /\ out' = now
     /\ raced' = raced \cup Racing(now)
     /\ cloud' = CASE effect /\ q.kind = "add" -> cloud \cup {q.dev}
                   [] effect /\ q.kind = "del" -> cloud \ {q.dev}
                   [] OTHER -> cloud
     /\ UNCHANGED <<row, cred, pulled, failed, ops>>

\* The answer to q is taken off the network.
Without(q) == [out EXCEPT ![q] = @ - 1]

\* Mutant of AddDone: the row is taken out.
AddDoneRemoves(r, m) == [r EXCEPT ![m] = None]

\* add_done(): pending() of whatever row there is.
AddDone(r, m) ==
  [r EXCEPT ![m] = IF r[m] = None THEN None ELSE [r[m] EXCEPT !.pending = "none"]]

\* Mutant of DelDone: the row is settled and stays.
DelDoneKeeps(r, m) == AddDone(r, m)

\* del_done()
DelDone(r, m) == [r EXCEPT ![m] = None]

Changed(q) ==
  /\ q.st = "ok"
  /\ row' = IF q.kind = "add" THEN AddDone(row, q.dev) ELSE DelDone(row, q.dev)
  /\ out' = Without(q)
  /\ UNCHANGED <<cloud, cred, pulled, failed, raced, ops>>

\* Mutant of PullAdd: a row it did not find keeps an empty column.
PullAddBlank(r, seen) ==
  [m \in Devices |-> IF m \in seen /\ ~Shown(r, m)
                       THEN [ip |-> FALSE, pending |-> ""] ELSE r[m]]

(***************************************************************************)
(* awsPullAdd() for every device of the answer: it looks for a row among   *)
(* the settled and the new ones and keeps what that row says.              *)
(***************************************************************************)
PullAdd(r, seen) ==
  [m \in Devices |-> IF m \in seen /\ ~Shown(r, m)
                       THEN [ip |-> FALSE, pending |-> "none"] ELSE r[m]]

\* Mutant of SyncLocal: the pending deletions are left out.
SyncLocalAdds(r) == {Adding(m) : m \in {d \in Devices : Is(r, d, "add")}}

\* syncLocal()
SyncLocal(r) ==
  {Adding(m) : m \in {d \in Devices : Is(r, d, "add")}}
    \cup {Deleting(m) : m \in {d \in Devices : Is(r, d, "del")}}

\* all() has its answer: each new row of the answer is posted by its add(),
\* and then once more by syncLocal().
PullDone(q) ==
  LET r == PullAdd(row, q.seen)
      again == {Adding(m) : m \in {d \in q.seen : Is(row, d, "add")}}
      n == [p \in Request |-> Once(again)[p] + Once(SyncLocal(r))[p]]
  IN /\ q.st = "ok"
     /\ pulled' = TRUE
     /\ row' = r
     /\ Invoke(Without(q), n, cred)
     /\ UNCHANGED <<cloud, cred, ops>>

\* onError(): clearCurrLogin() clears the credentials unless the last sign-in
\* succeeded in this run of the program.
Failed(q) ==
  /\ q.st = "error"
  /\ out' = Without(q)
  /\ failed' = IF q.kind = "all" THEN failed ELSE failed \cup {q.dev}
  /\ cred' \in {cred, FALSE}
  /\ UNCHANGED <<row, cloud, pulled, raced, ops>>

Answered(q) ==
  /\ out[q] > 0
  /\ \/ q.kind # "all" /\ Changed(q)
     \/ q.kind = "all" /\ PullDone(q)
     \/ Failed(q)

PullServed == CloudTakes(Pulling, "ok", TRUE)
PullAnswered == \E seen \in SUBSET Devices :
                  Answered([kind |-> "all", seen |-> seen, st |-> "ok"])

Network ==
  \E q \in Request :
    \/ \E st \in {"ok", "error"}, effect \in BOOLEAN : CloudTakes(q, st, effect)
    \/ Answered(q)

Next ==
  \/ \E m \in Devices : Add(m) \/ Del(m) \/ UpdateIp(m)
  \/ ClearIp
  \/ EmptyDevices
  \/ Refresh
  \/ Restart
  \/ SignIn
  \/ Expire
  \/ Network

Spec == Init /\ [][Next]_vars

\* The login check is a timer, every request comes to an end, and not all of
\* the pulls that are repeated for ever are in vain.
FairSpec ==
  /\ Spec
  /\ WF_vars(SignIn)
  /\ WF_vars(Network)
  /\ SF_vars(PullServed)
  /\ SF_vars(PullAnswered)

-----------------------------------------------------------------------------
(* What the table is for *)

Pending(m) == Is(row, m, "add") \/ Is(row, m, "del")

(***************************************************************************)
(* Once the list of the cloud has been pulled, a row that waits for the    *)
(* cloud has a request of its kind under way, unless its last one failed   *)
(* (awsDbService.cpp, syncLocal).                                          *)
(***************************************************************************)
PendingIsCovered ==
  \A m \in Devices : pulled /\ Pending(m) /\ m \notin failed =>
    UnderWay(out, row[m].pending, m)

(***************************************************************************)
(* A row that claims to be settled is in the cloud, unless a deletion of   *)
(* the device overlapped an addition or a pull (dbDevices.cpp, add_done,   *)
(* awsPullAdd).                                                            *)
(***************************************************************************)
SettledIsInCloud ==
  \A m \in Devices : Is(row, m, "none") => m \in cloud \cup raced

(***************************************************************************)
(* A row leaves the table by an answer only when the device has left the   *)
(* cloud, under the same proviso (dbDevices.cpp, del_done).                *)
(***************************************************************************)
RemovedIsGone ==
  [][\A m \in Devices : row[m] # None /\ row'[m] = None /\ out' # out =>
       m \notin cloud \/ m \in raced]_vars

(***************************************************************************)
(* What waits for the cloud is settled in the end, or a request about it   *)
(* fails (awsDbService.cpp, pullAll and syncLocal).                        *)
(***************************************************************************)
Syncs ==
  \A m \in Devices : Pending(m) ~> (~Pending(m) \/ m \in failed)

(***************************************************************************)
(* The answer of a pull makes the pending deletions be posted again        *)
(* (awsDbService.cpp, syncLocal: "2 Del padding").                         *)
(***************************************************************************)
DeletionsResent ==
  [][PullAnswered /\ cred => \A m \in Devices :
       Is(row, m, "del") => UnderWay(out', "del", m)]_vars
=============================================================================
