----------------------------- MODULE DiskWizard -----------------------------
(***************************************************************************)
(* The two pages of the administrator that talk to the NAS through one     *)
(* CmdService: DeviceManagmentPage, which logs in and polls the state of   *)
(* the disk, and DiskReplaceWizardPage, which lies over it and leads       *)
(* through the replacement of the disk: prepare, start, poll the copy, and *)
(* tell the user to unplug.  Neither an answer nor an error says which     *)
(* command it belongs to.  Both pages look at all of them, and the wizard  *)
(* takes one for the answer to the step it waits for (pendingStep).        *)
(* The NAS is external: its answers are those that the pages tell apart.   *)
(***************************************************************************)
EXTENDS Naturals, FiniteSets

CONSTANTS
  Faults,    \* what may happen to a command: "error" (a transport error is
             \* reported), "lost" (nothing is reported: the remote link)
  MaxOps,    \* bound on the steps of the user
  MaxPolls,  \* bound on the status queries under way at a time
  MaxLogIns  \* bound on the log-ins under way at a time

ASSUME KnownFaults == Faults \subseteq {"error", "lost"}
ASSUME Bounds == {MaxOps, MaxPolls, MaxLogIns} \subseteq Nat

VARIABLES
  nas,     \* hdd: the disk; copy: the replacement
  admin,   \* DeviceManagmentPage: loginSuccess, gHddStatus and its timer
  wizard,  \* DiskReplaceWizardPage, if it is open
  net,     \* how many copies of each message are under way
  mishaps, \* history, see below
  prepared,\* history: the NAS has prepared for this wizard
  ops      \* steps left to the user

vars == <<nas, admin, wizard, net, mishaps, prepared, ops>>

(***************************************************************************)
(* A message: a command that is asked, or its answer.  old says that the   *)
(* wizard has sent a prepare or a start since the command was sent.        *)
(***************************************************************************)
Answers(cmd) ==
  CASE cmd = "login"   -> {"yes", "no"}
    [] cmd = "hdd"     -> {"uninit", "formatting", "ok"}
    [] cmd = "init"    -> {"done"}
    [] cmd = "prepare" -> {"yes", "no"}
    [] cmd = "start"   -> {"copy", "no_usb", "format_failed"}
    [] cmd = "status"  -> {"idle", "copy", "finish", "copy_failed"}

Replacing == {"prepare", "start", "status"}
Commands == Replacing \cup {"login", "hdd", "init"}

Message == UNION {[cmd : {c}, old : BOOLEAN,
                   body : Answers(c) \cup {"asked", "error"}] : c \in Commands}

Asked(c) == [cmd |-> c, old |-> FALSE, body |-> "asked"]

(***************************************************************************)
(* mishaps holds "crossed" once an old command was served, or an old       *)
(* answer or one to a command of the other page was taken by the wizard;   *)
(* "lost" once a message got lost; "cut" once a query of the disk or the   *)
(* log-in failed.                                                          *)
(***************************************************************************)
Nas == [hdd : {"uninit", "formatting", "ok"},
        copy : {"idle", "copy", "finish", "copy_failed"}]

Admin == [in : BOOLEAN, hdd : {"none", "uninit", "formatting", "ok"},
          timer : BOOLEAN]

\* step, busy and pendingStep; err is errorText # "".
Wizard == [open : BOOLEAN, step : 1..8, busy : BOOLEAN, err : BOOLEAN,
           code : {"", "no_usb", "format_failed", "copy_failed"},
           pending : {"", "prepare", "start", "status"}]

TypeOK ==
  /\ nas \in Nas
  /\ admin \in Admin
  /\ wizard \in Wizard
  /\ net \in [Message -> Nat]
  /\ mishaps \subseteq {"crossed", "lost", "cut"}
  /\ prepared \in BOOLEAN
  /\ ops \in 0..MaxOps

Closed == [open |-> FALSE, step |-> 1, busy |-> FALSE, err |-> FALSE,
           code |-> "", pending |-> ""]

Init ==
  /\ nas \in [hdd : {"uninit", "ok"}, copy : {"idle"}]
  /\ admin = [in |-> FALSE, hdd |-> "none", timer |-> FALSE]
  /\ wizard = Closed
  /\ net = [m \in Message |-> 0]
  /\ mishaps = {}
  /\ prepared = FALSE
  /\ ops = MaxOps

-----------------------------------------------------------------------------
(* Messages *)

\* CmdService.send()
Send(n, c) == [n EXCEPT ![Asked(c)] = @ + 1]

Fresh(m) == [m EXCEPT !.old = FALSE]

\* Everything under way has become old.
Aged(n) == [m \in Message |-> IF m.old THEN n[m] + n[Fresh(m)] ELSE 0]

UnderWay(c) == \E m \in Message : m.cmd = c /\ net[m] > 0

Copies(c) == {m \in Message : m.cmd = c /\ net[m] > 0}

User == ops > 0 /\ ops' = ops - 1

-----------------------------------------------------------------------------
(* DeviceManagmentPage *)

\* idDialogConfirmLogin, again and again if the user likes.
LogIn ==
  /\ User
  /\ ~admin.in
  /\ \A m \in Copies("login") : net[m] < MaxLogIns
  /\ net' = Send(net, "login")
  /\ UNCHANGED <<nas, admin, wizard, mishaps, prepared>>

\* getAdminDeviceStatus(), from the menu.
Refresh ==
  /\ User
  /\ admin.in /\ ~wizard.open
  /\ net' = Send(net, "hdd")
  /\ UNCHANGED <<nas, admin, wizard, mishaps, prepared>>

\* The button and its dialog.
InitHdd ==
  /\ User
  /\ admin.in /\ admin.hdd = "uninit" /\ ~wizard.open
  /\ net' = Send(net, "init")
  /\ UNCHANGED <<nas, admin, wizard, mishaps, prepared>>

\* idTimerGetHddFormatingProgress
HddTimer ==
  /\ admin.timer
  /\ admin' = [admin EXCEPT !.timer = FALSE]
  /\ net' = IF admin.in THEN Send(net, "hdd") ELSE net
  /\ UNCHANGED <<nas, wizard, mishaps, prepared, ops>>

\* Mutant of AdminTakes: the timer is started while the disk is formatted only.
AdminTakesOnce(a, m) ==
  CASE ~a.in -> [a EXCEPT !.in = m.cmd = "login" /\ m.body = "yes"]
    [] a.in /\ m.cmd = "hdd" -> [a EXCEPT !.hdd = m.body,
                                         !.timer = @ \/ m.body = "formatting"]
    [] OTHER -> a

\* onDataReceived(): until it is logged in the page takes every answer for
\* that of the log-in, and later it picks the keys it knows.
AdminTakes(a, m) ==
  CASE ~a.in -> [a EXCEPT !.in = m.cmd = "login" /\ m.body = "yes"]
    [] a.in /\ m.cmd = "hdd" -> [a EXCEPT !.hdd = m.body,
                                         !.timer = @ \/ m.body # "ok"]
    [] OTHER -> a

-----------------------------------------------------------------------------
(* The buttons and timers of DiskReplaceWizardPage *)

\* step3FatalError
Fatal(w) == w.step = 3 /\ w.err /\ w.code \in {"format_failed", "copy_failed"}

ClearError(w) == [w EXCEPT !.err = FALSE, !.code = ""]

\* The button, shown for a good disk, and Component.onCompleted.
Open ==
  /\ User
  /\ admin.in /\ admin.hdd = "ok" /\ ~wizard.open
  /\ wizard' = [Closed EXCEPT !.open = TRUE, !.busy = TRUE, !.pending = "prepare"]
  /\ net' = Send(Aged(net), "prepare")
  /\ prepared' = FALSE
  /\ UNCHANGED <<nas, admin, mishaps>>

\* The arrow of the toolbar, Cancel, Stop and Done: the page is popped.
Leave ==
  /\ User
  /\ wizard.open
  /\ wizard' = Closed
  /\ UNCHANGED <<nas, admin, net, mishaps, prepared>>

\* Next of step 2: runStart().
RunStart ==
  /\ User
  /\ wizard.open /\ wizard.step = 2 /\ ~wizard.busy
  /\ wizard' = [ClearError(wizard) EXCEPT !.busy = TRUE, !.pending = "start"]
  /\ net' = Send(Aged(net), "start")
  /\ UNCHANGED <<nas, admin, mishaps, prepared>>

\* Back, of either kind.
Back ==
  /\ User
  /\ wizard.open /\ wizard.step = 3 /\ wizard.err
  /\ wizard.code # "copy_failed"
  /\ wizard' = [ClearError(wizard) EXCEPT !.step = 2]
  /\ UNCHANGED <<nas, admin, net, mishaps, prepared>>

\* Mutant of Turn: Next of the last step.
TurnPast ==
  /\ wizard.open /\ wizard.step >= 4
  /\ \E s \in {wizard.step - 1, wizard.step + 1} :
       wizard' = [wizard EXCEPT !.step = s, !.err = FALSE]
  /\ UNCHANGED <<nas, admin, net, mishaps, prepared, ops>>

\* Previous and Next of the steps after the copy.
Turn ==
  /\ wizard.open /\ wizard.step >= 4
  /\ \E s \in 1..8 :
       /\ s = wizard.step - 1 \/ s = wizard.step + 1
       /\ wizard' = [wizard EXCEPT !.step = s, !.err = FALSE]
  /\ UNCHANGED <<nas, admin, net, mishaps, prepared, ops>>

\* idStatusTimer
StatusTimer ==
  /\ wizard.open /\ wizard.step = 3 /\ ~Fatal(wizard)
  /\ \A m \in Copies("status") : net[m] < MaxPolls
  /\ wizard' = [wizard EXCEPT !.pending = "status"]
  /\ net' = Send(net, "status")
  /\ UNCHANGED <<nas, admin, mishaps, prepared, ops>>

-----------------------------------------------------------------------------
(* What the wizard makes of an answer *)

\* parseReplaceHardDiskOk(): also true of an answer that has no such key.
ReplyOk(m) == m.cmd \notin Replacing \/ m.body # "no"

\* parseReplaceHardDiskErrorCode()
ErrorCode(m) ==
  IF m.body \in {"no_usb", "format_failed", "copy_failed"} THEN m.body ELSE ""

\* parseReplaceHardDiskStatus(): "error" comes with a code.
ReplyStatus(m) ==
  CASE ErrorCode(m) # "" -> "error"
    [] ErrorCode(m) = "" /\ m.cmd \in {"start", "status"} -> m.body
    [] OTHER -> ""

Failing(w, m) == [w EXCEPT !.err = TRUE, !.code = ErrorCode(m)]

\* Mutant of PrepareAnswered: a refusal is not looked at.
PrepareTakenAsDone(w, m) == [w EXCEPT !.step = 2]

PrepareAnswered(w, m) ==
  IF ReplyOk(m) THEN [w EXCEPT !.step = 2] ELSE [w EXCEPT !.err = TRUE]

StartAnswered(w, m) ==
  IF ReplyStatus(m) = "error" THEN Failing(w, m) ELSE [w EXCEPT !.step = 3]

\* Mutants of StatusAnswered: what is not copying any more has been copied,
\* and an error of the copy is not looked at.
StatusNotCopying(w, m) ==
  IF ReplyStatus(m) # "copy" THEN [ClearError(w) EXCEPT !.step = 4] ELSE w

StatusWithoutError(w, m) ==
  IF ReplyStatus(m) = "finish" THEN [ClearError(w) EXCEPT !.step = 4] ELSE w

\* A poll, or an answer nobody waits for.
StatusAnswered(w, m) ==
  CASE ReplyStatus(m) = "finish" -> [ClearError(w) EXCEPT !.step = 4]
    [] ReplyStatus(m) = "error" -> Failing(w, m)
    [] OTHER -> w

\* handleReplaceResult()
HandleReplaceResult(w, m) ==
  LET idle == [w EXCEPT !.pending = "", !.busy = FALSE]
  IN CASE w.pending = "prepare" -> PrepareAnswered(idle, m)
       [] w.pending = "start" -> StartAnswered(idle, m)
       [] OTHER -> StatusAnswered(idle, m)

\* onDataReceived() and onErrorOccurred() of the wizard
Ignores(w, m) ==
  \/ ~w.open
  \/ w.pending = "" /\ (m.cmd \notin Replacing \/ m.body = "error")

WizardTakes(w, m) ==
  CASE Ignores(w, m) -> w
    [] ~Ignores(w, m) /\ m.body = "error" ->
         [w EXCEPT !.busy = FALSE, !.err = TRUE, !.pending = ""]
    [] OTHER -> HandleReplaceResult(w, m)

-----------------------------------------------------------------------------
(* The NAS and the links *)

\* What a command makes of the NAS when it answers with b.
Effect(c, b) ==
  CASE c = "prepare" /\ b = "yes" -> [nas EXCEPT !.copy = "idle"]
    [] c = "start" /\ b = "copy" -> [nas EXCEPT !.copy = "copy"]
    [] c = "init" /\ nas.hdd = "uninit" -> [nas EXCEPT !.hdd = "formatting"]
    [] OTHER -> nas

Truthful(c, b) == /\ c = "hdd" => b = nas.hdd
                  /\ c = "status" => b = nas.copy

\* The NAS serves m with the answer b; a transport error may hide it.
Serve(m, b) ==
  /\ m.body = "asked" /\ net[m] > 0
  /\ b \in Answers(m.cmd) /\ Truthful(m.cmd, b)
  /\ nas' = Effect(m.cmd, b)
  /\ \E body \in {b} \cup (Faults \cap {"error"}) :
       net' = [net EXCEPT ![m] = @ - 1, ![[m EXCEPT !.body = body]] = @ + 1]
  /\ mishaps' = mishaps \cup (IF m.old THEN {"crossed"} ELSE {})
  /\ prepared' = (prepared \/ (m = Asked("prepare") /\ b = "yes"))
  /\ UNCHANGED <<admin, wizard, ops>>

Cut(c) == IF c \in {"hdd", "login"} THEN {"cut"} ELSE {}

\* A command or an answer is lost, or the command fails on its way.
Fail(m) ==
  /\ net[m] > 0
  /\ \/ /\ "lost" \in Faults
        /\ net' = [net EXCEPT ![m] = @ - 1]
        /\ mishaps' = mishaps \cup {"lost"} \cup Cut(m.cmd)
     \/ /\ "error" \in Faults /\ m.body = "asked"
        /\ net' = [net EXCEPT ![m] = @ - 1, ![[m EXCEPT !.body = "error"]] = @ + 1]
        /\ mishaps' = mishaps
  /\ UNCHANGED <<nas, admin, wizard, prepared, ops>>

\* An answer or an error is handed to both pages.
Deliver(m) ==
  LET gone == [net EXCEPT ![m] = @ - 1]
      a == IF m.body = "error" THEN admin ELSE AdminTakes(admin, m)
  IN /\ m.body # "asked" /\ net[m] > 0
     /\ admin' = a
     /\ net' = IF a.in /\ ~admin.in THEN Send(gone, "hdd") ELSE gone
     /\ wizard' = WizardTakes(wizard, m)
     /\ mishaps' = mishaps
          \cup (IF ~Ignores(wizard, m) /\ (m.old \/ m.cmd \notin Replacing)
                  THEN {"crossed"} ELSE {})
          \cup (IF m.body = "error" THEN Cut(m.cmd) ELSE {})
     /\ UNCHANGED <<nas, prepared, ops>>

\* The NAS comes to the end of what it is at.
NasEnds ==
  /\ \/ /\ nas.copy = "copy"
        /\ \E e \in {"finish", "copy_failed"} : nas' = [nas EXCEPT !.copy = e]
     \/ /\ nas.hdd = "formatting"
        /\ nas' = [nas EXCEPT !.hdd = "ok"]
  /\ UNCHANGED <<admin, wizard, net, mishaps, prepared, ops>>

Network ==
  \E m \in {x \in Message : net[x] > 0} :
    \/ \E b \in Answers(m.cmd) : Serve(m, b)
    \/ Fail(m)
    \/ Deliver(m)

Timers == HddTimer \/ StatusTimer

Next ==
  \/ LogIn \/ Refresh \/ InitHdd
  \/ Open \/ Leave \/ RunStart \/ Back \/ Turn
  \/ Timers
  \/ Network
  \/ NasEnds

Spec == Init /\ [][Next]_vars

\* The timer of the polls fires, a command comes to its end, and so does a copy.
FairSpec ==
  /\ Spec
  /\ WF_vars(StatusTimer)
  /\ WF_vars(Network)
  /\ WF_vars(NasEnds)

-----------------------------------------------------------------------------
(* What the pages are for *)

(***************************************************************************)
(* What the wizard tells the user is so: it offers the copy only once the  *)
(* NAS has prepared for it, tells the user to unplug the new disk, power   *)
(* off and swap the disks only when the NAS has finished the copy, and     *)
(* reports a failed copy only when it has failed; unless a command or an   *)
(* answer from before the last prepare or start was still under way        *)
(* (DiskReplaceWizardPage.qml, handleReplaceResult).                       *)
(***************************************************************************)
StepsAreTrue ==
  wizard.open /\ "crossed" \notin mishaps =>
    /\ wizard.step >= 2 => prepared
    /\ wizard.step >= 4 => nas.copy = "finish"
    /\ wizard.err /\ wizard.code = "copy_failed" => nas.copy = "copy_failed"

(***************************************************************************)
(* The page of the device goes on asking until the disk is good: while it  *)
(* shows another state, its timer runs or a query is under way, unless one *)
(* has failed, and then nothing asks again (DeviceManagmentPage.qml,       *)
(* onErrorOccurred).                                                       *)
(***************************************************************************)
AsksUntilGood ==
  admin.in /\ admin.hdd # "ok" /\ "cut" \notin mishaps =>
    admin.timer \/ UnderWay("hdd")

(***************************************************************************)
(* A wizard that waits, for the answer to a prepare or a start or for the  *)
(* end of the copy, gets on or shows an error, unless a message was lost,  *)
(* which no timeout notices, or crossed another (idStatusTimer).           *)
(***************************************************************************)
Waiting == wizard.open /\ (wizard.busy \/ wizard.step = 3) /\ ~wizard.err
GetsOn == Waiting ~> (~Waiting \/ mishaps \cap {"lost", "crossed"} # {})
=============================================================================
