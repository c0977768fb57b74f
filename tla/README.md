# ZHome Qt: a TLA+ model of the client's queues and mirrors

ZHome Qt is the desktop and phone client of a home NAS (C++/Qt under `cpp/`,
QML pages under `qml/`). It talks to a NAS over HTTP when both are in one
network (the *local link*) and over MQTT and a p2p library otherwise (the
*remote link*), and it keeps the list of the user's devices in step with a REST
service. There are no tests in the repository; what is stated here is read from
the code and its comments.

## 1. Inventory

All objects live in one `GlobalCpp` (`globalCpp.h`). Their slots run on the main
thread; network replies are posted to it, while the p2p library, the MQTT
runtime and the AWS SDK call back on threads of their own.

| Part | State | Operations | Talks to |
|---|---|---|---|
| Transfer queues (`dbFileTransfer`, `localFileService`) | table `transfer` in the `transfer.db` of the current device; `uploadList`, `downloadList`; per direction `m_urlRemote`, the reply and the file | add, del, start/stop, empty, empty_all, reset; finished and error slots; stop, start | signal `transferDataChanged`; `uploadFinish` to `DbFiles`; p2p library through `AwsIot` |
| Upload index (`dbFiles` 69-229) | `m_pendingUploadIndex`, `m_uploadIndexBusy`, `m_awaitingAddOneFile`, a timer | enqueue, send, retry, finalise, reset | `CmdService`, the local mirror |
| Local mirror (`dbFiles` 231-931) | `file.db`, `shared.db`, the downloaded `file.db~` | download, replace, optimistic rename/delete/status, queries | `LocalFileService`, `CmdService` |
| Command service (`cmdService`) | `m_cmd`, its id | send, answers over both links | HTTP, `AwsIot` |
| Device list (`dbDevices`) | table `device` with `ip` and `pending`; `curr` | add, del, updateIp, clearIp, intoDevice, merge of a pull, confirmations | `AwsDbService`, everybody through `currDeviceChanged` |
| Cloud copy (`awsDbService`) | `m_bPullAll`, requests under way | add, del, all, syncLocal | REST service, account |
| Account (`awsAccount`, `AwsLoginPage`, `LoginPage`) | tokens, `m_login_status`; saved name and password | sign-in, refresh, sign-out, login check every 15 s; the pages save what is typed | Cognito; `signInSuccess`, `signOutSuccess` to the pages |
| Remote link (`awsIot`) | `m_connection`, `m_bSubscribed`, `m_currSubtopic`, `m_pendingCmds` | connect, subscribe, publish, restart; callback of the p2p library | MQTT, p2p library |
| Local search (`searchLocalIdevice`, `DevicesPage`, `DevicesSearchPage`) | TCP server, UDP socket, single shots; per page a timer and its counter, `discoveredDevices`, `idBusy` | start, stop, read an announcement; search again, connect, leave | `DbDevices::updateIp`, `add`; signals to both pages |
| NAS protocol (`nasApi`) | none | builds commands and urls, reads answers | everybody |
| Administrator (`DeviceManagmentPage.qml`) and disk wizard (`DiskReplaceWizardPage.qml`) | `loginSuccess`, `gHddStatus` and a timer; `step`, `busy`, `pendingStep`, the error | log in, look at the disk, format it; the steps of a disk replacement | one `CmdService`, whose answers both pages take |
| Other pages, themes, audio, screen, platform code, `qzxing`, `samegame`, `icons` | | | not modelled: interface, wrappers and vendored code |

What is hard here: answers that are posted before a queue changes and handled
after it; answers that do not say what they answer; a link, a device or an
account that changes under work in flight; requests that overtake each other;
crashes between the table and the memory; and three threads that nobody
synchronises. What makes each part correct:

- *Transfer queues*: a file is forgotten only when it has been moved; only
  started rows are transferred; a queue does not stop by itself.
- *Upload index*: every uploaded file gets its turn; a file leaves the queue
  indexed or after all attempts.
- *Local mirror*: it is never the part of a list, shows nothing the NAS has not
  done, loses no finished change to an older download, and catches up.
- *Device list*: a pending change is posted until the cloud confirms it; what is
  settled agrees with the cloud.
- *Remote link*: a command goes to the device it was meant for, after the
  subscription that brings its answer; a lost connection comes back.
- *Account*: one sign-in at a time; what is saved is of the user who is in.
- *Local search*: the server of a search is open for a second, and closed after
  it; the page does not stay busy.
- *Disk wizard*: it tells the user to unplug a disk only when the NAS has finished
  copying; the pages go on asking, and a wizard that waits gets on or says why
  not.

`PROJECT.json` lists every hazard at its line, with the property that covers it.

## 2. Plan

1. **TransferQueue** (done), with the abstract **TransferPromise** it implements
   and **TransferQueueProofs**.
2. **UploadIndex** (done): the index queue over `CmdService`, with
   **UploadIndexProofs**.
3. **DeviceSync** (done): the device list and its cloud copy, with
   **DeviceSyncProofs**.
4. **IotLink** (done): connection, subscription, queued commands and change of
   device on three threads, with **IotLinkProofs**. Left: which device a
   published command reaches, composed with DeviceSync.
5. **FileMirror** (done): download and replacement of the mirror against
   optimistic updates and finished uploads, with **FileMirrorProofs**. Left: its
   composition with UploadIndex, whose queue it has only the outline of.
6. **AccountLogin** (done): sign-in, refresh, sign-out and saved tokens, with
   **AccountLoginProofs**. Left: its composition with DeviceSync for two users,
   where `m_bPullAll`, never reset, matters.
7. **LanSearch** (done): the server of the search, the greetings of the devices
   and the timers of two pages, with **LanSearchProofs**.
8. **DiskWizard** (done): the two administrator pages on one `CmdService`, with
   **DiskWizardProofs**.
9. **PathOps** (left): the mapping of paths in `nasApi` and `dbFiles` and the
   filters of the queries as operators, checked against a reference definition.

Type correctness is proved of each module, and so is every invariant, every action
property and the refinement that the runs check, three of them with fewer
operations (section 6). Other theorems say what the liveness properties rest
on, in the links, the account, the mirror, the search and the wizard: as long as
something is owed, something is there that will end it.

## 3. Modules

### TransferQueue
One action per operation of `DbFileTransfer` (`Add`, `Del`, `StartStop`, `Empty`,
`EmptyAll`, `IntoDevice` with the `reset()` it causes, `Exit`) and per callback of
`LocalFileService`. Every write of the table ends in `postDataChanged()`, whose
signal runs `dbDataChanged()` before the write returns; so `Commit` is part of
each such action and rebuilds the list, and `DataChanged` gives the states the
service may be in afterwards. A request ends in two steps: the network ends it
(`NetFinish`) and posts its end, and the slot takes it later (`Deliver`), or, when
`stop()` has let go of the reply in between, `DeliverLate`, which reads the
members of whatever the service does by then. The p2p library ends a file
(`LibFinish`) and calls back later on its own thread (`LibCallback`): `del()`
changes the table and the list there, and the signal, sent from a thread that is
not the receiver's, is posted (`DeleteAndPost`). The main thread handles it in a
step of its own (`HandleChange`), with whatever list, link and reply it finds by
then, and anything may come between. The reply is freed after its slot while the
pointer stays: what is read through it then is any value (`Reads`). A crash or an
exit keeps tables and directories.

Abstracted: a path is a number in the order of the list; local paths, progress,
authentication and the move into a gallery are left out; `Escaped` holds the
paths that `QUrl::toString()` does not give back; `Reach` tells for which devices
a path is a url (a url of the local link names the ip, a p2p url has no host).
`moved`, `via` and `said` are history: what has arrived since it was added, on
which link the last file was started, and what the last step asked for or took
back. Adding a path again forgets that it was moved. `via` becomes `"lost"` when
the file cannot be opened, and when its answer has come and its handler had
nothing to start (`Answered`): it did not delete the row, or the list was empty by
then. Between a deletion by the p2p library and its signal it is `"due"`.
`UnderWay` reads it. That two threads read and write `m_urlRemote` and the lists
at the same time is undefined and is not modelled: a callback is one step.
`signinSuccess()` and `loginSuccess()` of the login pages also call `reset()`,
for the same device: the same table is opened again and the lists stay, so there
is no action of its own for it.

### TransferPromise
The promise to a user of the table. Transfers are asked for, taken back, moved
and settled. Asking for a path in one direction replaces the request for the
other, and a step that deletes or empties takes back the requests that it names;
`said` is what the user has said in this step. Apart from that a request is
forgotten (`Settle`) only once its data has been moved. In a crash, an exit, a
pause or a change of device the user says nothing (`Silence`), and neither these
nor errors are an excuse. The one excuse is `adrift`:
an answer is on its way whose transfer was taken back, and it may be taken for
that of another. `PromiseKept` says that TransferQueue implements the promise,
with the rows of all devices for the requests (`Wanted`) and the answers that
`stop()` has let go of for the excuse (`Adrift`). A row that a crash or an exit
dropped would break it.

### UploadIndex
`link` is the members of `DbFiles` and the last command of its `CmdService`; `out`
counts the commands on their way by kind, file, link and stage; the file counts
for `add_one_file` only. Which link the next command goes over (`local`) may
change under the same device, when its ip comes or goes or p2p is forced
(`FlipLink`), and nothing is reset then; a change of device (`Reset`) may bring
either link. The handlers are functions of members and `out`, because they call
one another: `Finalize` ends in `TryStart`, and that in `SendHead`. An answer is
`Answered`: `Matches` is the condition of the code, so the answer of another
command may be taken. `m_cmd` is set by the local link only and survives a change
of link. Over p2p a message may be lost (`Lose`) and there are no transport
errors; `lost` is history, the files whose `add_one_file` was lost and not sent
again. Delays are not modelled: a timer that runs may fire at any time.

### DeviceSync
`row` is the table, `cloud` what the REST service has, `out` counts the requests
under way. A request is posted, then served (or lost, or served with its answer
lost), then its answer is handled; requests are independent, so everything
overtakes everything. `PullDone` is the whole callback of `all()`: the merge of
each device by `awsPullAdd()`, with the request that re-adding a new row posts,
and `syncLocal()`. Without credentials a request fails on the spot. `failed` and
`raced` are history: devices whose last request failed, and devices that had a
deletion under way beside an addition or a pull.

Abstracted: names, serial numbers, the online column, ips other than set or not.
No other client changes the cloud while the program runs; the cloud may have
devices at the start. A request that a restart finds unserved is not served.

### IotLink
`AwsIot` with its three threads: `main` (slots, timers, `CmdService`), `p2p` (the
library, which calls `pub()`) and `mqtt` (the runtime, which calls back). A
thread may go on between any two steps of another, and a step of a thread ends
where it has read a member that it goes on to rely on: the topic of `sub()`, the
look at `m_connection` and `m_bSubscribed` in `pub()`, the check before
`resub()`. `pc` says where each thread is and what it has read. `connIot()` and
the operations of `m_pendingCmds` are single steps: what two threads do to one
`QList` at once is undefined, and is not modelled.

`conn` is `m_connection`: NULL, dialing, up, closing (after `Disconnect()`), or
`"dead"`, when `Connect()` returned false and the pointer stays, so that no
`connIot()` dials again. A use of NULL ends the program (`Crash`); nothing starts
it again. `asked` holds the topics subscribed to on this connection in the order
they were served. Timers of `restart()` that overlap fire as one: the second finds
the connection that the first has made. The history (`hist`) serves the provisos
of the properties: threads that hold a connection `restart()` has let go of,
subscriptions that overlapped, commands queued after the link had become ready,
topics the runtime refused. Left out: `m_bConnected`, which nothing reads,
certificates and topics as strings, and the p2p library behind `iot_send()`.

### AccountLogin
A sign-in is three requests in a row, so a call in `calls` waits for its tokens,
its identity or its credentials, and each callback (`TokensCome`,
`IdentityComes`, `CredentialsCome`, or the failures) is one step that writes
members and sends the next request. The callbacks run on threads of the AWS SDK;
one is taken as a step, so two sign-ins interleave between callbacks and not
within one. `AutoSignIn` is shared by the check of every 15 s (`LoginChecker`),
which starts nothing while one is running, and the button of the login page
(`Press`), which always does; pressed before the clients are made, it ends the
program. A refresh token goes before what the user has typed, as in the code.

While the login page is open (`page`), it answers every `signInSuccess`, whoever
began the sign-in, by saving the name and the password in its fields and going on
to the devices (`SignedIn`). `autoSignIn()` with valid credentials emits the
signal on the main thread, so that this is part of the step; a callback emits it
on a thread of the SDK, so that it is `told` and handled later (`SignInTold`),
with what is typed by then. After the button the fields are those of the button;
after a check they are any of `Fields`, the empty ones included. `LoginPage` saves
the account of a NAS under the same two names (`SaveLocal`). A sign-out is
answered later (`RevokeAnswered`), and its signal, like that of a check that finds
nothing to sign in with, takes the user to the login page.

An error of the REST service (`RestError`) and `SignOut` clear members and stop
nothing; a REST error between `IdentityComes` and `CredentialsCome` lets
credentials be saved that have no identity.

Abstracted: a token is whose it is; credentials are fresh or not; why the service
refuses is a choice. Sign-up, confirmation and the changes of a password change no
member and are left out. `home` stands for all pages behind the login. A page that
is replaced gets no signal any more: the animation of the transition, in which
the old page still lives, is left out. `hist` serves the provisos: a sign-in begun
beside another (`overlap`), members cleared under one (`cut`), signed out (`out`,
and `late` when a sign-in was under way), the password taken back or refused
(`gone`), the password lost without that (`swept`): `loadTokensFromStorage(true)`
takes it when a refresh token is refused, or the password of another name, and a
page may save an empty one; and a name that a page saved over the one that had
signed in (`renamed`).
`SignedInAgain` needs the first: two sign-ins that overlap may clear each other's
tokens for ever, since the failure of one lets the check begin another.

### FileMirror
One action per handler. A download has a target (`tmp`, the file `file.db~`), and
nothing else ties its end to it: `get` holds the members that the slots read
(`m_replyGet`, `m_fileGet`), the replies that are still running and no longer
pointed at, the file the p2p library moves, and the ends its thread has posted.
A mirror or a temporary file is what it shows and whether it is all of a list;
100 bytes are the limit between an empty list file and a part of one. What a list
shows is fixed when it begins to come. `updateDbFile(false)` is left out: it does
nothing once `opendb()` has created the mirror.

A command is `<<kind, paths>>`. The NAS carries it out or refuses (`Serve`), and
its answer is applied with the paths of `m_cmd` (`Shown`), the last command sent
over the local link, which over p2p is an old one; so the mirror may show a kind
with the paths of another, and `NothingInvented` says when it does not. An answer
may also be taken for the one of `add_one_file` (`TakenForAdd`): the row of the
upload is then written, indexed or not (`Finalize`). The queue of uploads is in
outline, an attempt being one of the user's bounded steps; UploadIndex has it in
full.

`hist` names what the provisos need: downloads that overlap or are cut, commands
that cross, a list made stale by a change after it began to come, a row written
for an upload that was not indexed, an answer swallowed, a failure, a crash. Each
was tried without, and the property then fails. The comment at `dbFiles.cpp:285`
("Keep optimistic local edits visible even when NAS mirror re-download fails.")
thus holds of the download that fails (`EditsStay`) and not of one that succeeds
with an older list.

Left out: the shared list, a second instance which reacts to sharing only;
devices that are not configured, which have no mirror; queries and filters; how
paths are mapped; a directory that cannot be written to.

### LanSearch
The clock is a variable of the model: `Tick` is half a second, `stops` counts the
single shots of `delay1SStopServer()` by the ticks they have left, and a page has
the ticks its timer has left. A timer that is due is served before time passes.
`StartServer` closes a server that is open, opens it again, adds a single shot
and broadcasts; which devices hear the broadcast is a choice, and they are
`asked` until they call back, to an open server or in vain. `ReadClient` is
`readClient()` with the slots of the signals it emits: a known device gets its
ip and stops the timer of `DevicesPage`, another one ends the search of
`DevicesSearchPage`; a greeting that comes in pieces is not understood.
`AddAnswered` is the end of the addition that a click on a device has begun: an
error reaches no slot of the page. History: `age`, the ticks since the server was
opened; `overlap`, whether single shots of earlier searches were left by then;
`failed`, an addition has failed.

Abstracted: interfaces, addresses and ports; the dialog of a device that is not
configured, which leads to a page that is not modelled. A device that has heard
two broadcasts calls once.

### DiskWizard
Two pages take every answer of one `CmdService`, and neither answers nor errors
name their command. A message is a command, whether it is asked or what was
answered, and whether it is `old`: sent before the last prepare or start of the
wizard. `net` counts the copies under way; they overtake one another. An answer
is handed to both pages in one step (`Deliver`): `AdminTakes` is the handler of
`DeviceManagmentPage`, `WizardTakes` those of the wizard, and
`HandleReplaceResult` dispatches on `pendingStep` alone, as the code does. What
the parsers of `nasApi` make of an answer that is not meant for them is part of
`ReplyOk`, `ErrorCode` and `ReplyStatus`. The NAS is external: it serves a
command with any of the answers the pages tell apart, truthful about the disk and
the copy, and comes to the end of a copy or of formatting by itself.

`mishaps` holds what the properties excuse: an old answer, or one to a command of
the other page, that the wizard took (`crossed`); a message that got lost over
p2p (`lost`), where no timeout notices; a log-in or query of the disk that failed
(`cut`). Leaving the wizard by the toolbar, Cancel, Stop or Done is one action.
Left out: the password and the name of the device, the list of users, the texts.

## 4. Runs

| Run | Shows |
|---|---|
| `tq_use` | with additions, deletions, pauses, emptying, errors, crashes and restarts on two devices: `TypeOK`, `RunningIsListed`, `PausedNeverSent`, `PromiseKept`, `Drains` |
| `tq_wild` | with everything, deletions on the p2p library's thread included: `NoSilentStall` |
| `tq_p2p` | `SettledByOwnAnswer` fails: an answer is taken for the file started after it |
| `ui_index` | both links, which change under a device, lost p2p messages, a change of device: `TypeOK`, `NeverWedged`, `LeavesIndexedByP2p`, `QueueRunsEmpty` |
| `ui_mixed` | `LeavesIndexed` fails over the local link: a wrong answer is taken |
| `ds_sync` | with lost requests and answers, expiring credentials and restarts: `TypeOK`, `PendingIsCovered`, `SettledIsInCloud`, `RemovedIsGone`, `Syncs` |
| `ds_del` | `DeletionsResent` fails: a pull overwrites a pending deletion |
| `iot_link` | `TypeOK`, `OnePlace`, `NullUse`, `OneSubscription`, `FlushEnds`, `LinkComesBack`, `QueuedIsSent` |
| `al_login` | sign-ins that overlap, pages that save what is typed, late answers, REST errors, restarts: `TypeOK`, `OneSignIn`, `OneUser`, `StaysOut`, `SignInEnds`, `SignedInAgain` |
| `fm_mirror` | `TypeOK`, `MirrorWhole`, `NothingInvented`, `EditsStay`, `CatchesUp` |
| `ls_search` | two pages, searches that overlap, a port in use, split greetings, additions that fail: `TypeOK`, `OpenForASecond`, `SearchEnds` |
| `dw_wizard` | refusals, transport errors, lost messages, failed copies, a wizard left and opened again: `TypeOK`, `StepsAreTrue`, `AsksUntilGood`, `GetsOn` |

**Bounds.** Two or three paths: one on its way, one that sorts before it, one
behind it. `tq_use` has two devices whose files are urls of their own, and six
steps of the user, crashes and restarts: two files can be added, changed and
started again around an answer, and the program started again with the other
device. `tq_wild` has everything at once, changes of device included, in five
steps. The upload index has two files, one large, two attempts for the five of the
code (the first and the last; `ui_mixed` has three), and two of these three: one
other command, one change of device (`MaxSwitches`), one change of link
(`MaxFlips`; the two together with the other command are bounded by `MaxTurns`).
`NeverWedged` and `LeavesIndexedByP2p` are proved without these bounds. DeviceSync
has one device (devices meet only in pulls and credentials, and its safety is
proved for any number), four steps of the user, and one pull of a kind under way
at a time: a second one is the same request again. IotLink has two devices, two
commands (one may be in hand while the other is queued) and two changes of device:
one to choose a device and one under a connection. A third change adds overlaps of
`resub()` with itself over a new connection; that is covered for `NullUse` and
`OneSubscription` by the proofs. AccountLogin has two users, two sign-ins at once
(the check and the button) and three acts: sign in, out and in as another, or with
an error or a restart between; what the pages save at a `signInSuccess` is not
counted. The fields of a page hold one of four things (`Typed`): either account, a
password without a name, nothing. Its safety is proved without these bounds.
FileMirror has two devices, an edit that is applied to the mirror and one that is
not, one upload and four acts, of which the first enters a device: a download, a
command and a change of link or device meet in any order. Its safety is proved
without these bounds. LanSearch has one device, half seconds (so two ticks until
the server is closed and four of the timers of the pages) and five steps of the
user: open the page, search, search again within the second, choose the device,
leave. DiskWizard has five steps (log in, open, start, and two to go back, leave
or open again), one status query of an age under way at a time (`MaxPolls`: its
answer is there before the next one, or is old) and one log-in (`MaxLogIns`; the
code sends another at every click, and its answer is like that of the first). The
safety of both is proved without these bounds. Only steps of the user, crashes and
restarts are counted; the network is not bounded. The runs do not check for
deadlock: a user who does nothing more is a legal end.

**Fairness.** TransferQueue: the network ends its requests and the event loop
delivers (`WF` of `Answers` per direction); there is no fairness on the user.
UploadIndex: timers fire and requests over the local link end; p2p messages may be
lost for ever. DeviceSync: the login check is a timer of 15 s whose sign-in
succeeds as long as the user stays signed in, every request ends, and of the pulls
that the timer repeats until one succeeds not all are in vain (`SF`).
AccountLogin: the clients get ready, the check runs, requests end (`WF`), and of
the answers to the three requests, whichever sign-in they are of, not all are
failures (`SF` of `TokensCome`, `IdentityComes`, `CredentialsCome`). LanSearch:
time passes, timers and single shots fire, and the cloud answers an addition or
fails (`WF`). DiskWizard: the status timer fires, of what is under way something
always goes on, if only by being lost, and the NAS ends a copy (`WF` of
`StatusTimer`, `Network`, `NasEnds`); nothing is assumed of the user or of the
timer of the disk. FileMirror: timers fire, requests end and their ends are taken
(`WF` of `Works`); whether they succeed is open, and `CatchesUp` excuses failures.
IotLink: threads go on (`WF` of `Step`), dialing and disconnecting come to an end
(`WF`), and of the dials, which the login check every 15 s and the timer of
`restart()` repeat, of the connections made and of the subscriptions sent, not all
are in vain (`SF` of `Dialed`, `ConnUp`, `SubAcked`). The program ending,
`Connect()` returning false and a topic refused are exits of the formulas
(`GivenUp`): the code has no way back from them.

## 5. Findings

The three runs that expect a violation, each with the comment it contradicts,
are in `PROJECT.json`: answers are not matched with what they answer (`tq_p2p`,
`ui_mixed`), and a pull forgets pending deletions (`ds_del`). `Drains` is
checked for urls that `QUrl::toString()` gives back; a row whose url is
rewritten (`Escaped`, in `tq_wild`) is never deleted, since `deleteFromDb()`
looks for the rewritten text, and would be transferred again and again.

`NoSilentStall` has one excuse, `via = "lost"`, and the code needs all of it. That
a queue stands still only after a failure, or after p2p has dropped an answer, is
not so, as runs with two more steps of the user show and as the proof found: when
a queue has run empty the service keeps its url and a pointer to the reply that
was freed; when the next file is added, `isTransfering()` may read a running
request there, and nothing is started. So an answer that had nothing to start is
excused, whatever the reason, and nothing else is.

What a page saves can leave an account that nobody typed together. Name and
password of one user may stand beside the tokens of another, when a page saves
them at a `signInSuccess` that its button has not begun; a password may be lost to
an empty field, when the answer to a sign-out comes late and a check signs in
under the empty page, or with a refresh token that is refused
(`awsAccount.cpp:222`). `OneUser` excuses the first by `renamed`, for the name and
only for the name; `SignedInAgain` excuses the others by `swept`.

`NeverWedged` and `QueueRunsEmpty` (which is stated of the bounded uploads of a
run: the queue as a whole runs empty) excuse the one message whose loss the code
does not survive, the `add_one_file` that is awaited, if it goes over p2p: a
change to the local link does not send it again.

`SettledIsInCloud`, `RemovedIsGone` and the properties of IotLink, AccountLogin,
FileMirror, LanSearch and DiskWizard state their provisos in the formula, and
`PromiseKept` has its own in TransferPromise: they do not hold beyond them. So an
answer that crossed another makes the wizard tell the user to unplug a disk that
is being written; a search begun within a second of another may find its server
closed; and an answer adrift may settle a file that was not moved. In IotLink the
provisos are the races themselves: `m_connection` used after another thread has
set it to NULL, two threads in `sub()`, a command appended after the queue was
worked off.

## 6. Proofs

**TransferQueueProofs**, for every set of devices, paths, operations, faults and
every bound:

- `TypeCorrect`: `Spec => []TypeOK`, by `TypeInv`, which adds that lists and
  services are over the paths. Lemmas say what stopping, starting and
  `DataChanged` do to a well-typed service; they are cited per action.
- `LocalRequestsAreListed`: without `"p2p"` in `Ops`, `Spec => []RunningIsListed`.
  The invariant is not inductive by itself: `LinkInv` adds that the link is
  local whenever there is a device, so that `dbDataChanged()` does stop what was
  taken away.
- `PausedFilesAreNotSent`: without p2p, replaced directions and changes of device,
  `Spec => []PausedNeverSent`. `QueueInv` adds that every list holds exactly
  started rows of the open table, which is where the three exclusions are used.
- `QueuesDoNotStall`: `Spec => []NoSilentStall`, with no exclusion. `StallInv`
  says more: a service that has a file has it, or its answer, under way, whether
  or not its queue is empty (`Served`), and a queue with files has a service with
  a file or a posted signal (`Pursued`); without a device the lists are empty, for
  `dbDataChanged()` is not reached then. A handler either finds both or starts the
  file at the head; the one of a posted signal may find the reply of an older file
  and start nothing (`HandleServed`), which is what `"lost"` then says.
- `QueuesKeepThePromise`: `Spec => PromiseKept`, the refinement of
  TransferPromise, without p2p, replaced directions and changes of device under
  way, and for urls of one device each. `PromiseInv` adds to `QueueInv` that the
  open table is the one of the device that `mac` names, that rows are only of
  paths that reach their device, and that a request that ended well has moved its
  file (`EndedIsMoved`). The exclusions are where the code breaks the promise or
  where one url names files of two devices; `tq_use` checks the refinement under
  the same ones. Of a crash, an exit and a change of device the proof shows that
  no row goes, since nothing was said.

The assumptions are the named ASSUMEs of TransferQueue: paths are numbers of
which every nonempty set has a least one, and `None` is no path, device or row.

**IotLinkProofs**, for every set of devices and commands and every bound:

- `TypeCorrect`: `Spec => []TypeOK`, by `TypeInv`, which adds that there is a
  device whenever there is a connection or `resub()` is under way.
- `NullIsUsedByRaceOnly`: `Spec => []NullUse`. `NullUse` speaks of threads that
  have crashed and says nothing of one that is about to; `NullInv` adds `HeldInv`,
  that a thread which relies on the connection and finds none has been overtaken
  by `restart()`.
- `OneSubscriptionIsKept`: `Spec => []OneSubscription`. `SubInv` adds `TopicInv`,
  which says what a thread in `sub()` is about to ask for.
- `CommandsAreInOnePlace`: `Spec => []OnePlace`. `PlaceInv` names the places: a
  command not given is nowhere, and a given one is published once, or queued once,
  or in the hand of one thread. The proof goes through the three steps that move a
  command, and through the callback that takes the queue command by command.
- `LinkIsSubscribed` (`ReadyWhenQuiet`) and `QueueIsWorkedOff` (`WorkedOff`): a
  connection that is up and has all its answers is subscribed to the topic that is
  kept, and once the callback has ended every command that waits is in
  `hist.late`: queued by a thread that had found the link not ready when the link
  had become so. Those stay until the next subscription, and of a queue whose
  connection is gone or dead the theorem says nothing. `ReadyInv` adds what a
  thread in `sub()` or in the callback still owes.

The assumptions are that `None` is no device and no command, and that the bound
is a natural number.

**AccountLoginProofs**, for every set of users and every bound:

- `TypeCorrect`: `Spec => []TypeOK`, inductive as it stands: `TypeOK` says of a
  sign-in that it asks with the password of a user or with a refresh token.
- `SignedOutStaysOut`: `Spec => []StaysOut`. `OutInv` adds that a `signInSuccess`
  waits for an open login page only, and for none of who is out: the page would
  save an account again.
- `OneSignInAtATime`: `Spec => []OneSignIn`. `OneInv` adds that a sign-in under
  way keeps `m_login_status` at running, and that none is before the clients are
  made.
- `TokensOfOneUser`: `Spec => []OneUser`. `UserInv` says in addition, of each
  sign-in under way, that what it asked for and what is kept are of one user, and
  that a refresh token is of the named user unless a page renamed it (`Named`).
- `NoSignInIsStuck` (`RunningHasCall`): `m_login_status` is running only while a
  call is under way. `SignInEnds` is this and the fairness of the callbacks.

The assumptions are that `None` is no user, that what is typed is a user or
nothing, and that the bound is a natural number.

**FileMirrorProofs**, for every set of devices, edits, uploads and every bound:

- `TypeCorrect`: `Spec => []TypeOK`, by `TypeInv`, which adds that no command is
  under way without a device.
- `MirrorStaysWhole`: `Spec => []MirrorWhole`. `WholeInv` adds `OneDownload`:
  undisturbed there is at most one download, it writes the file of the current
  device, and an end that is posted finds no part of a list.
- `NothingIsInvented`: `Spec => []NothingInvented`. `CoverInv` adds that what
  lists show and what was answered well is done, and that, as long as no commands
  cross, the pending one is the last that was sent.
- `EditsStayShown`: `Spec => EditsStay`, from all of these and `ListsKeepUp`: a
  list that has begun to come shows what its mirror shows.
- `QuietMirrorShowsAll`: `Spec => []QuietShowsAll`. With no timer, command or
  download left, the mirror shows what the NAS carried out for the user, unless a
  fault, an overlap or a cut came between. `CatchInv` says where each such edit is
  sought: a timer is due, its answer is pending, a download is about to list it
  or has listed it, or the mirror shows it. `CatchesUp` rests on this.

The assumptions are that edits are of the kinds of the code, that `None` is no
device and no path, and that the bound is a natural number.

**UploadIndexProofs**, for every set of files and every bound:

- `TypeCorrect`: `Spec => []TypeOK`, with the bound on attempts. The handlers are
  functions of members and messages, so lemmas say what each makes of a state
  that is `Sound`; `Between` is what `tryStartNextUploadIndex()` finds.
- `QueueIsNeverWedged`: `Spec => []NeverWedged`. `Sound` says more: a queue that
  is not empty is being worked on, by the timer or by an answer that is awaited
  and not by both; the awaited one is on its way or was lost; and the head is sent
  again only while it has attempts left. No handler looks at the link again, so
  `FlipLink` keeps it.
- `FilesLeaveIndexedByP2p`: `Spec => LeavesIndexedByP2p`, an action property.
  `P2pInv` adds `Alone`, as long as no command has gone over the local link and
  the device is the first: `CmdService` remembers no command, none under way is of
  the local link, and at most one `add_one_file` is under way, for the head,
  awaited, and answered well only by a NAS that has the file.

The assumptions are those of UploadIndex: the large files are files, `NoFile` is
none of them, and the bounds are natural numbers.

**DeviceSyncProofs**, for every set of devices and every bound:

- `TypeCorrect`: `Spec => []TypeOK`.
- `SettledStaysInCloud`: `Spec => []SettledIsInCloud`. `SyncInv` adds that `raced`
  holds every race there is, that an answer under way is still true of the cloud
  unless its device raced (`AnswersTrue`), and that a device being deleted does
  not claim to be settled (`DeletionsShown`).
- `RemovedHasGone`: `Spec => RemovedIsGone`, an action property, from `SyncInv`.
- `PendingStaysCovered`: `Spec => []PendingIsCovered`: each step leaves a pending
  row with a request that covers it; a pull posts for all rows pending by then.

The assumptions are that `None` is no device and that the bounds are natural
numbers.

**LanSearchProofs**, for every set of devices, all delays, faults and bounds:

- `TypeCorrect`: `Spec => []TypeOK`. `TimerInv` adds that a timer that runs is
  that of an open page and has been triggered once at most, so that no counter
  passes 2.
- `ServerStaysOpen`: `Spec => []OpenForASecond`. `ServerInv` adds `OwnShot`: until
  the next search the single shots left are that of the search itself, which has
  as many ticks left as the second has.
- `SearchPageIsNotStuck` (`BusyEnds`): a busy page is open, and its timer runs, an
  addition is under way, or one has failed. `SearchEnds` is this and time.

The assumptions are that configured devices are devices, delays are positive and
the faults are the two of the module.

**DiskWizardProofs**, for any number of messages under way and any faults:

- `TypeCorrect`: `Spec => []TypeOK`.
- `PageGoesOnAsking`: `Spec => []AsksUntilGood`, inductive together with the
  types.
- `WizardTellsTheTruth`: `Spec => []StepsAreTrue`. `TruthInv` says of a wizard
  that no message has crossed: the message sent after its last prepare or start is
  the one it waits for and is under way once, what it answers is so, and no later
  step is reached before its answer.
- `WizardWaitsForItsOwn`: `Spec => []WaitsForOwn`. As long as no message is lost
  or crosses another, a wizard that waits is owed the answer to what it sent last,
  under way and new, and a copy that it shows has been begun by the NAS. `WaitInv`
  adds that an answer to a start is still true of the copy when it comes. `GetsOn`
  rests on this.

The assumptions are the faults of the module and that the bounds are natural
numbers.

Only model-checked: liveness (`Drains`, `QueueRunsEmpty`, `Syncs`, `FlushEnds`,
`LinkComesBack`, `QueuedIsSent`, `SignInEnds`, `SignedInAgain`, `CatchesUp`,
`SearchEnds`, `GetsOn`) and everything with ENABLED, which are out of the prover's
reach, as is induction over data and anything with RECURSIVE operators (there are
none here).

Two forms of TLA+ are kept out of the modules because the SMT translation of the
prover (1.4.5) makes a contradiction of them, from which anything follows: an
EXCEPT that updates one element of a function twice (`![p].a = u, ![p].b = v`,
where a record is written whole instead), and a bound variable in a set of
computed numbers (`s \in {n - 1, n + 1}`, written as equations instead). The
obligations sent to the solver were searched for both and for hypotheses that
contradict each other without the goal; those left are the ones of cases that
cannot arise. The invariant of LanSearch's timers above is one that had passed
without being inductive before this was done.

## 7. Not modelled

See `components` in `PROJECT.json`. More than half of the source lines are the
vendored bar code reader `qzxing`, and most of the rest are pages, themes, icons
and a game that came with the framework: what they show and how it looks. They
have no protocol of their own. The wrappers of platform code, audio, screen and
orientation keep no state that a step of another part relies on. Of the NAS
protocol the models have the commands about files and the disk and what tells
their answers apart; the rest builds and parses JSON and urls. Of the local mirror
the queries, filters and the mapping of paths are planned (section 2), and so are
the compositions: two accounts over one device list, the queue of uploads over the
mirror, the remote link over the device list.
