----------------------------- MODULE UploadIndex -----------------------------
(***************************************************************************)
(* After a file has been uploaded, DbFiles asks the NAS to index it        *)
(* (add_one_file), file by file, with retries, then writes the row of the  *)
(* file into the local mirror and sends the file's date.  The commands go  *)
(* through the CmdService that every other command about files uses.  It   *)
(* remembers the last command it sent over the local link and hands that   *)
(* one out with every answer, whichever command the answer is for.  Which  *)
(* link the next command goes over may change at any time, and the answers *)
(* of both links are taken.                                                *)
(***************************************************************************)
EXTENDS Naturals, Sequences

CONSTANTS
  Files,       \* uploaded files
  Large,       \* those of 100 MB or more
  NoFile,      \* stands for the file of a command that no answer names
  MaxAttempts, \* ADD_ONE_FILE_MAX_ATTEMPTS
  MaxUploads,  \* bound on the uploads that finish
  MaxOthers,   \* bound on the other commands of the user
  MaxSwitches, \* bound on the changes of device
  MaxFlips,    \* bound on the changes of link to the same device
  MaxTurns     \* bound on these three together

ASSUME FileFacts == Large \subseteq Files /\ NoFile \notin Files
ASSUME AttemptsPositive == MaxAttempts \in Nat \ {0}
ASSUME BoundsNatural ==
  {MaxUploads, MaxOthers, MaxSwitches, MaxFlips, MaxTurns} \subseteq Nat

Kinds == {"add", "date", "other"}
Timers == {"off", "settle", "retry"}

(***************************************************************************)
(* A command on its way, the link it went over (lan is the local one), and *)
(* what has become of it: ok and refused are answers of the NAS, error is  *)
(* one of the transport.  The file of a date is left out: nothing that     *)
(* takes its answer looks at it.                                           *)
(***************************************************************************)
Stages == {"sent", "ok", "refused", "error"}
Command ==
  [kind : {"add"}, file : Files, lan : BOOLEAN, st : Stages]
    \cup [kind : {"date", "other"}, file : {NoFile}, lan : BOOLEAN, st : Stages]

VARIABLES
  link,   \* the members of DbFiles and of its CmdService, see Members
  local,  \* useLocalLink(): the next command goes over the local link
  out,    \* how many copies of each command are on their way
  nas,    \* the files that their NAS has in its index
  rows,   \* the files that have a row in the local mirror of their NAS
  lost,   \* history: files whose add_one_file p2p has lost since the last one
  left    \* steps left to the user

vars == <<link, local, out, nas, rows, lost, left>>

(***************************************************************************)
(* queue is m_pendingUploadIndex, whose entries count the attempts sent;   *)
(* busy is m_uploadIndexBusy, awaiting m_awaitingAddOneFile, timer the     *)
(* m_uploadIndexTimer and cmd the kind of CmdService::m_cmd.               *)
(***************************************************************************)
Entry == [file : Files, sent : 0..MaxAttempts]
Members == [queue : Seq(Entry), busy : BOOLEAN, awaiting : BOOLEAN,
            timer : Timers, cmd : Kinds \cup {"none"}]

TypeOK ==
  /\ link \in Members
  /\ local \in BOOLEAN
  /\ out \in [Command -> Nat]
  /\ nas \subseteq Files
  /\ rows \subseteq Files
  /\ lost \subseteq Files
  /\ left \in [uploads : 0..MaxUploads, others : 0..MaxOthers,
               switches : 0..MaxSwitches, flips : 0..MaxFlips,
               turns : 0..MaxTurns]

Idle == [queue |-> <<>>, busy |-> FALSE, awaiting |-> FALSE, timer |-> "off",
         cmd |-> "none"]

Init ==
  /\ link = Idle
  /\ local \in BOOLEAN
  /\ out = [c \in Command |-> 0]
  /\ nas = {}
  /\ rows = {}
  /\ lost = {}
  /\ left = [uploads |-> MaxUploads, others |-> MaxOthers,
             switches |-> MaxSwitches, flips |-> MaxFlips,
             turns |-> MaxTurns]

-----------------------------------------------------------------------------
(* The handlers, as functions of the members and the commands on their way *)

State == [m |-> link, out |-> out]

Message(kind, f) == [kind |-> kind, file |-> f, lan |-> local, st |-> "sent"]

\* CmdService::send(): only the local link remembers the command.
Sent(s, kind, f) ==
  [m |-> IF local THEN [s.m EXCEPT !.cmd = kind] ELSE s.m,
   out |-> [s.out EXCEPT ![Message(kind, f)] = @ + 1]]

\* sendAddOneFileForHead()
SendHead(s) ==
  IF s.m.queue = <<>>
    THEN [s EXCEPT !.m.busy = FALSE, !.m.awaiting = FALSE]
    ELSE Sent([s EXCEPT !.m.queue[1].sent = @ + 1, !.m.awaiting = TRUE],
              "add", Head(s.m.queue).file)

\* Mutant of TryStart: it does not look whether an index run is under way.
TryStartAnyway(s) ==
  IF s.m.queue = <<>> THEN s ELSE SendHead([s EXCEPT !.m.busy = TRUE])

\* tryStartNextUploadIndex(): a large file is given a second to settle.
TryStart(s) ==
  LET taken == [s EXCEPT !.m.busy = TRUE]
      head == Head(s.m.queue)
  IN CASE s.m.busy \/ s.m.queue = <<>> -> s
       [] ~s.m.busy /\ s.m.queue # <<>> /\ head.file \in Large /\ head.sent = 0 ->
            [taken EXCEPT !.m.timer = "settle"]
       [] OTHER -> SendHead(taken)

\* Mutant of Finalize: busy is left set.
FinalizeBusy(s) ==
  TryStart(Sent([s EXCEPT !.m.queue = Tail(@), !.m.awaiting = FALSE],
                "date", NoFile))

\* finalizeUploadIndexHead() of a queue that is not empty.
Finalize(s) ==
  TryStart(Sent([s EXCEPT !.m.queue = Tail(@), !.m.awaiting = FALSE,
                          !.m.busy = FALSE],
                "date", NoFile))

\* Mutant of Attempted: one attempt too many.
AttemptedLate(s) == s.m.queue[1].sent > MaxAttempts

\* Mutant of Attempted: one attempt too few.
AttemptedEarly(s) == s.m.queue[1].sent >= MaxAttempts - 1

Attempted(s) == s.m.queue[1].sent >= MaxAttempts

\* An attempt that failed: wait and try again, unless it was the last one.
Missed(s) == [s EXCEPT !.m.awaiting = FALSE, !.m.timer = "retry"]

\* Mutant of Matches: an answer of p2p is taken by whoever waits.
MatchesAny(s, c) == s.m.awaiting /\ s.m.queue # <<>>

\* The first condition of cmdServiceDataFinished().
Matches(s, c) ==
  /\ s.m.awaiting
  /\ s.m.queue # <<>>
  /\ c.kind = "add" \/ s.m.cmd = "add"

\* History: an add_one_file for f is on its way in s that was not before.
Resent(s, f) ==
  \E c \in Command : c.kind = "add" /\ c.file = f /\ s.out[c] > out[c]

\* The state becomes s, and the file at the head gets its row if it leaves.
Become(s, done) ==
  /\ link' = s.m
  /\ out' = s.out
  /\ lost' = {f \in lost : ~Resent(s, f)}
  /\ rows' = IF done THEN rows \cup {Head(link.queue).file} ELSE rows

-----------------------------------------------------------------------------
(* Actions *)

\* uploadedListFileFinished()
Uploaded(f) ==
  /\ left.uploads > 0
  /\ left' = [left EXCEPT !.uploads = @ - 1]
  /\ Become(TryStart([State EXCEPT !.m.queue =
                        Append(@, [file |-> f, sent |-> 0])]), FALSE)
  /\ UNCHANGED <<local, nas>>

\* A command about files from a page: rename, delete, share, and so on.
OtherCommand ==
  /\ left.turns > 0
  /\ left.others > 0
  /\ left' = [left EXCEPT !.turns = @ - 1, !.others = @ - 1]
  /\ Become(Sent(State, "other", NoFile), FALSE)
  /\ UNCHANGED <<local, nas>>

TimerFires ==
  /\ link.timer # "off"
  /\ Become(SendHead([State EXCEPT !.m.timer = "off"]), FALSE)
  /\ UNCHANGED <<local, nas, left>>

\* intoDevice() of another mac, and its currDeviceChanged: reset() forgets the
\* queue and opens another mirror; the answers of the old device still come.
Reset ==
  /\ left.turns > 0
  /\ left.switches > 0
  /\ left' = [left EXCEPT !.turns = @ - 1, !.switches = @ - 1]
  /\ local' \in BOOLEAN
  /\ link' = [Idle EXCEPT !.cmd = link.cmd]
  /\ lost' = {}
  /\ UNCHANGED <<out, nas, rows>>

\* intoDevice() of the same mac with an ip that came or went, or the p2p
\* switch of the settings: nothing is reset.
FlipLink ==
  /\ left.turns > 0
  /\ left.flips > 0
  /\ left' = [left EXCEPT !.turns = @ - 1, !.flips = @ - 1]
  /\ local' = ~local
  /\ UNCHANGED <<link, out, nas, rows, lost>>

Moved(c, st) ==
  [out EXCEPT ![c] = @ - 1, ![[c EXCEPT !.st = st]] = @ + 1]

\* The NAS carries out a command, or refuses to index a file that has not
\* settled; over the local link the transport may fail before or after.
NasTakes(c, st, effect) ==
  /\ c.st = "sent"
  /\ st = "ok" => effect
  /\ st = "refused" => c.kind = "add" /\ ~effect
  /\ st = "error" => c.lan
  /\ out' = Moved(c, st)
  /\ nas' = IF effect /\ c.kind = "add" THEN nas \cup {c.file} ELSE nas
  /\ UNCHANGED <<link, local, rows, lost, left>>

\* p2p gives no answer at all when a message is lost.
Lose(c) ==
  /\ ~c.lan
  /\ out[c] > 0
  /\ out' = [out EXCEPT ![c] = @ - 1]
  /\ lost' = IF c.kind = "add" THEN lost \cup {c.file} ELSE lost
  /\ UNCHANGED <<link, local, nas, rows, left>>

\* onFinished() and onP2pCmdFinished(), with cmdServiceDataFinished() or
\* cmdServiceError() behind them.
Answered(c) ==
  LET s == [State EXCEPT !.out[c] = @ - 1]
      taken == IF c.st = "error" THEN s.m.awaiting /\ s.m.queue # <<>>
                                 ELSE Matches(s, c)
      indexed == c.kind = "add" /\ c.st = "ok"
      done == taken /\ (indexed \/ Attempted(s))
  IN /\ c.st # "sent"
     /\ Become(CASE done -> Finalize(s)
                 [] taken /\ ~done -> Missed(s)
                 [] OTHER -> s, done)
     /\ UNCHANGED <<local, nas, left>>

Network ==
  \E c \in {d \in Command : out[d] > 0} :
    \/ \E st \in {"ok", "refused", "error"}, effect \in BOOLEAN :
         NasTakes(c, st, effect)
    \/ Answered(c)

Next ==
  \/ \E f \in Files : Uploaded(f)
  \/ OtherCommand
  \/ TimerFires
  \/ Reset
  \/ FlipLink
  \/ Network
  \/ \E c \in Command : Lose(c)

Spec == Init /\ [][Next]_vars

\* Timers fire, and a command that is not lost comes to its end.
FairSpec == Spec /\ WF_vars(TimerFires) /\ WF_vars(Network)

-----------------------------------------------------------------------------
(* What the queue is for *)

(***************************************************************************)
(* The queue is never wedged, whichever links it has gone over: whenever a *)
(* file waits in it, the timer runs or an answer is awaited, and never     *)
(* both; and what is awaited is on its way, an add_one_file for the head   *)
(* whose answer will be looked at, unless p2p has lost it.  Nothing sends  *)
(* that again, not even after a change of the link (dbFiles.cpp,           *)
(* tryStartNextUploadIndex, m_uploadIndexBusy, m_awaitingAddOneFile;       *)
(* dbDevices.cpp, intoDevice).                                             *)
(***************************************************************************)
NeverWedged ==
  link.queue # <<>> =>
    /\ link.busy
    /\ link.awaiting <=> link.timer = "off"
    /\ link.awaiting =>
         \/ \E c \in Command :
              out[c] > 0 /\ c.kind = "add" /\ c.file = Head(link.queue).file
         \/ Head(link.queue).file \in lost

(***************************************************************************)
(* With no end of uploads the queue might never be empty; with MaxUploads  *)
(* of them it runs empty, so every file leaves it, unless p2p loses the    *)
(* add_one_file that is awaited: wrong answers, refusals, transport errors *)
(* and changes of the link are survived (dbFiles.cpp, cmdServiceError and  *)
(* finalizeUploadIndexHead).                                               *)
(***************************************************************************)
QueueRunsEmpty ==
  link.queue # <<>>
    ~> link.queue = <<>> \/ (link.awaiting /\ Head(link.queue).file \in lost)

\* The head leaves the queue in this step, and not by a change of device.
Leaves == Len(link'.queue) < Len(link.queue) /\ left' = left

(***************************************************************************)
(* A file leaves the queue only when the NAS has indexed it, or after all  *)
(* the attempts (dbFiles.cpp: "may interleave with other dbFiles cmds;     *)
(* match by response keys").                                               *)
(***************************************************************************)
LeavesIndexed ==
  [][Leaves => \/ Head(link.queue).file \in nas
               \/ Head(link.queue).sent = MaxAttempts]_vars

(***************************************************************************)
(* The same as long as no command has gone over the local link, so that    *)
(* CmdService remembers none and the answers are matched by their keys     *)
(* alone, whatever becomes of the link, until the first change of device.  *)
(***************************************************************************)
LeavesIndexedByP2p ==
  [][Leaves /\ link.cmd = "none" /\ left.switches = MaxSwitches =>
       \/ Head(link.queue).file \in nas
       \/ Head(link.queue).sent = MaxAttempts]_vars
=============================================================================
