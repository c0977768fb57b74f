----------------------------- MODULE FileMirror -----------------------------
(***************************************************************************)
(* The local mirror of the file list of a NAS (file.db, one per device).   *)
(* A command about files that the NAS has carried out is applied to the    *)
(* mirror at once, with the data of the last command that was sent; half a *)
(* second later the list is downloaded into a temporary file, which        *)
(* replaces the mirror when the download ends.  Nothing ties the end of a  *)
(* download to the file it has written: a slot takes whatever file is      *)
(* there.  UploadIndex has the details of add_one_file.                    *)
(***************************************************************************)
EXTENDS Naturals

CONSTANTS
  Devices, \* macs; each has a mirror of its own
  Paths,   \* what a command is about
  Edits,   \* what the user may ask for: kinds with their paths
  Uploads, \* the paths of files that were uploaded and wait to be indexed
  None,    \* no device, no file
  MaxActs  \* bound on the steps of the user, the uploads and the crashes

Kinds == {"remove", "recover", "delete", "move", "rename", "mkdir", "share",
          "repair"}

ASSUME EditsOfKinds == Edits \subseteq Kinds \X Paths /\ Uploads \subseteq Paths
ASSUME NoneIsNothing == None \notin Devices \cup Paths
ASSUME ActsNatural == MaxActs \in Nat

VARIABLES
  curr,   \* DbDevices.curr.mac, whose mirror is open
  local,  \* useLocalLink()
  nas,    \* nas[d]: what the NAS has carried out, as its own list shows it
  mirror, \* the mirrors on disk
  tmp,    \* the temporary files on disk
  pend,   \* the commands on their way
  cmd,    \* CmdService::m_cmd
  await,  \* the upload that m_awaitingAddOneFile waits for
  timer,  \* singleShotTimer runs
  get,    \* the download, see Download
  acts,   \* acts left
  hist    \* history, see Events

vars == <<curr, local, nas, mirror, tmp, pend, cmd, await, timer, get, acts, hist>>
commands == <<pend, cmd, await>>

\* What a list may show: an edit with the paths of another may be among it.
Adds == {"add"} \X Uploads
Effects == (Kinds \X Paths) \cup Adds

NoCmd == <<"none", None>>
DateCmd == <<"date", None>>
Sendable == Edits \cup Adds \cup {DateCmd}

Command == [dev : Devices, of : Sendable, local : BOOLEAN,
            st : {"sent", "ok", "refused"}]

(***************************************************************************)
(* A mirror is empty as opendb() creates it, whole, or broken: the part of *)
(* a list.  A temporary file is small when it has less than 100 bytes.     *)
(***************************************************************************)
Mirror == [st : {"empty", "whole", "broken"}, shows : SUBSET Effects]
Temp == [size : {"none", "small", "part", "full"}, shows : SUBSET Effects]

Blank == [st |-> "empty", shows |-> {}]
NoFile == [size |-> "none", shows |-> {}]
NewFile == [size |-> "small", shows |-> {}]

(***************************************************************************)
(* reply is m_replyGet: running, or freed and still pointed at; file is    *)
(* the device whose temporary file m_fileGet has open, old counts replies  *)
(* still running that m_replyGet no longer points at; lib is the device    *)
(* whose list the p2p library moves, and ends counts the downloadFinish    *)
(* signals its thread has posted.                                          *)
(***************************************************************************)
Download == [reply : {"none", "running", "freed"}, file : Devices \cup {None},
             old : Nat, lib : Devices \cup {None}, ends : Nat]

Idle == [reply |-> "none", file |-> None, old |-> 0, lib |-> None, ends |-> 0]

(***************************************************************************)
(* overlap: a download was started while one was under way; cut: the link  *)
(* or the device changed under a download; left: a device was left for     *)
(* another; crossed: a command was sent while another was under way, or    *)
(* over p2p, or its device was left; stale: a list that was on its way     *)
(* when the mirror was changed; unindexed: a row was written for an upload *)
(* that is not indexed; swallowed: an answer was taken for another one;    *)
(* failed: a command or a download; crash.                                 *)
(***************************************************************************)
Events == {"overlap", "cut", "left", "crossed", "stale", "unindexed",
           "swallowed", "failed", "crash"}

TypeOK ==
  /\ curr \in Devices \cup {None}
  /\ local \in BOOLEAN
  /\ nas \in [Devices -> SUBSET Effects]
  /\ mirror \in [Devices -> Mirror]
  /\ tmp \in [Devices -> Temp]
  /\ pend \subseteq Command
  /\ cmd \in Sendable \cup {NoCmd}
  /\ await \in Uploads \cup {None}
  /\ timer \in BOOLEAN
  /\ get \in Download
  /\ acts \in 0..MaxActs
  /\ hist \subseteq Events

Init ==
  /\ curr = None
  /\ local = FALSE
  /\ nas = [d \in Devices |-> {}]
  /\ mirror = [d \in Devices |-> Blank]
  /\ tmp = [d \in Devices |-> NoFile]
  /\ pend = {}
  /\ cmd = NoCmd
  /\ await = None
  /\ timer = FALSE
  /\ get = Idle
  /\ acts = MaxActs
  /\ hist = {}

Happened(e, when) == hist' = hist \cup (IF when THEN {e} ELSE {})

Act == acts > 0 /\ acts' = acts - 1

\* A download, or the end of one, is under way.
Downloading == get.reply = "running" \/ get.old > 0 \/ get.lib # None \/ get.ends > 0

-----------------------------------------------------------------------------
(* Downloads *)

(***************************************************************************)
(* updateDbFile(true) and download().  Over the local link the temporary   *)
(* file is truncated, and a new reply takes the place of the old one,      *)
(* which is not stopped.  Over p2p the file is removed, also from under    *)
(* m_fileGet, and the library drops what it was moving.  Without force     *)
(* nothing happens: opendb() has created the mirror.                       *)
(***************************************************************************)
UpdateDbFile ==
  /\ tmp' = [tmp EXCEPT ![curr] = IF local THEN NewFile ELSE NoFile]
  /\ get' = IF local
              THEN [get EXCEPT !.reply = "running", !.file = curr,
                               !.old = IF get.reply = "running" THEN @ + 1 ELSE @]
              ELSE [get EXCEPT !.lib = curr,
                               !.file = IF @ = curr THEN None ELSE @]
  /\ Happened("overlap", get.reply = "running" \/ get.old > 0 \/ get.ends > 0
                           \/ (local /\ get.lib # None))

\* Mutant of TimerUpdates: the timer does not force the download.
TimerUpdatesNothing == UNCHANGED <<tmp, get, hist>>

\* updateDatabase()
TimerUpdates == UpdateDbFile

TimerFires ==
  /\ timer
  /\ timer' = FALSE
  /\ TimerUpdates
  /\ UNCHANGED <<curr, local, nas, mirror, commands, acts>>

\* A page asks for the list: the refresh button, or a device was connected.
Refresh ==
  /\ curr # None
  /\ Act
  /\ UpdateDbFile
  /\ UNCHANGED <<curr, local, nas, mirror, commands, timer>>

\* Mutant of Replaced: a missing file is not noticed.
ReplacedByMissing(m, f) ==
  CASE f.size \in {"small", "none"} -> Blank
    [] f.size = "part" -> [st |-> "broken", shows |-> {}]
    [] f.size = "full" -> [st |-> "whole", shows |-> f.shows]

\* dbFileDownloadFinished(): the mirror m after it has met the file f.
Replaced(m, f) ==
  CASE f.size \in {"small", "none"} -> m
    [] f.size = "part" -> [st |-> "broken", shows |-> {}]
    [] f.size = "full" -> [st |-> "whole", shows |-> f.shows]

DownloadFinished ==
  /\ mirror' = [mirror EXCEPT ![curr] = Replaced(@, tmp[curr])]
  /\ tmp' = [tmp EXCEPT ![curr] = NoFile]

NoFinish == UNCHANGED <<mirror, tmp>>

\* What arrives is written: the list as the NAS has it when it begins to come.
Grown(d) ==
  CASE tmp[d].size = "part" -> [tmp[d] EXCEPT !.size = "full"]
    [] OTHER -> [size |-> "part", shows |-> nas[d]]

\* downloadProgressSlot() writes over the local link only, the library by itself.
Written == ({get.lib} \cup (IF local THEN {get.file} ELSE {})) \ {None}

Progress ==
  \E d \in Written :
    /\ tmp[d].size # "full"
    /\ tmp' = [tmp EXCEPT ![d] = Grown(d)]
    /\ UNCHANGED <<curr, local, nas, mirror, commands, timer, get, acts, hist>>

\* Mutant of Succeeds: the error of the reply is not asked for.
SucceedsAnyway(ok) == TRUE

\* The condition of downloadFinishedSlot(), for a reply whose error() is ok.
Succeeds(ok) == ~local \/ ok

\* The reply of the service ends: downloadErrorSlot(), downloadFinishedSlot().
ReplyEnds(ok) ==
  /\ get.reply = "running"
  /\ ok /\ local /\ get.file # None => tmp[get.file].size = "full"
  /\ get' = [get EXCEPT !.reply = "freed", !.file = None]
  /\ IF Succeeds(ok) THEN DownloadFinished ELSE NoFinish
  /\ Happened("failed", ~ok)
  /\ UNCHANGED <<curr, local, nas, commands, timer, acts>>

\* An older reply ends, well or not: the slots look at the newest, which has
\* no error as long as it runs and holds anything once it is freed.
OldReplyEnds ==
  /\ get.old > 0
  /\ \E fine \in IF get.reply = "freed" THEN BOOLEAN ELSE {TRUE} :
       /\ get' = [get EXCEPT !.old = @ - 1, !.file = None]
       /\ IF Succeeds(fine) THEN DownloadFinished ELSE NoFinish
  /\ UNCHANGED <<curr, local, nas, commands, timer, acts, hist>>

(***************************************************************************)
(* The library ends: with the list, with the success of an empty file, or  *)
(* terminated.  p2p_recv_cb() runs on its thread and ignores it over the   *)
(* local link; downloadFinish is posted to the main thread.                *)
(***************************************************************************)
LibEnds(how) ==
  /\ get.lib # None
  /\ how = "list" => tmp[get.lib].size = "full"
  /\ how = "empty" => tmp[get.lib].size = "none"
  /\ tmp' = IF how = "empty" THEN [tmp EXCEPT ![get.lib] = NewFile] ELSE tmp
  /\ get' = [get EXCEPT !.lib = None,
                        !.file = IF local THEN @ ELSE None,
                        !.ends = IF local \/ how = "terminated" THEN @ ELSE @ + 1]
  /\ Happened("failed", how # "list" \/ local)
  /\ UNCHANGED <<curr, local, nas, mirror, commands, timer, acts>>

TakeEnd ==
  /\ get.ends > 0
  /\ get' = [get EXCEPT !.ends = @ - 1]
  /\ DownloadFinished
  /\ UNCHANGED <<curr, local, nas, commands, timer, acts, hist>>

-----------------------------------------------------------------------------
(* Commands *)

\* CmdService::send(): only the local link remembers the command.
Sent(e, others) ==
  /\ cmd' = IF local THEN e ELSE cmd
  /\ pend' = others \cup {[dev |-> curr, of |-> e, local |-> local, st |-> "sent"]}

Send(e) ==
  /\ curr # None
  /\ Act
  /\ Sent(e, pend)
  /\ Happened("crossed", pend # {} \/ ~local)

SendEdit(e) ==
  /\ Send(e)
  /\ UNCHANGED <<curr, local, nas, mirror, tmp, await, timer, get>>

\* sendAddOneFileForHead(), at once, later or again: see UploadIndex.
SendAdd(n) ==
  /\ await = None
  /\ await' = n
  /\ Send(<<"add", n>>)
  /\ UNCHANGED <<curr, local, nas, mirror, tmp, timer, get>>

\* The NAS carries a command out, or refuses to.
Serve(c, ok) ==
  /\ c.st = "sent"
  /\ nas' = IF ok THEN [nas EXCEPT ![c.dev] = @ \cup ({c.of} \cap Effects)] ELSE nas
  /\ pend' = (pend \ {c}) \cup {[c EXCEPT !.st = IF ok THEN "ok" ELSE "refused"]}
  /\ UNCHANGED <<curr, local, mirror, tmp, cmd, await, timer, get, acts, hist>>

\* The keys that an answer of kind k looks for are in a command of kind l.
Fits(k, l) ==
  CASE k \in {"remove", "recover", "delete"} ->
         l \in {"remove", "recover", "delete", "move", "share"}
    [] k \in {"move", "rename", "mkdir"} -> l = k
    [] OTHER -> FALSE

\* Mutant of Shown: it is not asked whether the keys are there.
ShownUnasked(c) == {<<c.of[1], cmd[2]>>}

\* applyOptimisticLocalUpdate(): the answer to c, with the paths of m_cmd.
Shown(c) ==
  IF Fits(c.of[1], cmd[1]) THEN {<<c.of[1], cmd[2]>>} ELSE {}

\* A mirror that is not whole has no table to write to.
With(m, E) == IF m.st = "whole" THEN [m EXCEPT !.shows = @ \cup E] ELSE m

\* A list that is on its way does not know of what is written now.
Missed(E) == E # {} /\ tmp[curr].size \in {"part", "full"}

\* Mutant of Applies: a refused command is applied like any other.
AppliesAnyway(c) == c.of \in Edits

Applies(c) == c.of \in Edits /\ c.st = "ok"

\* The rest of cmdServiceDataFinished()
EditAnswered(c) ==
  /\ IF Applies(c)
       THEN /\ mirror' = [mirror EXCEPT ![curr] = With(@, Shown(c))]
            /\ timer' = TRUE
            /\ Happened("stale", Missed(Shown(c)))
       ELSE UNCHANGED <<mirror, timer, hist>>
  /\ pend' = pend \ {c}
  /\ UNCHANGED <<cmd, await>>

\* finalizeUploadIndexHead(): the row, and the command for the date.
Finalize(c, failures) ==
  LET row == <<"add", await>>
  IN /\ mirror' = [mirror EXCEPT ![curr] = With(@, {row})]
     /\ Sent(DateCmd, pend \ {c})
     /\ hist' = hist \cup failures
                     \cup (IF Missed({row}) THEN {"stale"} ELSE {})
                     \cup (IF row \in nas[curr] THEN {} ELSE {"unindexed"})
                     \cup (IF pend = {c} THEN {} ELSE {"crossed"})
                     \cup (IF c.of \in Adds THEN {} ELSE {"swallowed"})

\* Its first branch: an answer is taken for the one to add_one_file.  Unless it
\* is a good one the attempt is repeated, or was the last.
AddAnswered(c) ==
  /\ await' = None
  /\ \/ Finalize(c, {})
     \/ /\ ~(c.of \in Adds /\ c.st = "ok")
        /\ Happened("swallowed", c.of \notin Adds)
        /\ pend' = pend \ {c}
        /\ UNCHANGED <<mirror, cmd>>
  /\ UNCHANGED timer

TakenForAdd(c) == await # None /\ (c.of \in Adds \/ cmd \in Adds)

Answered(c) ==
  /\ c.st # "sent"
  /\ IF TakenForAdd(c) THEN AddAnswered(c) ELSE EditAnswered(c)
  /\ UNCHANGED <<curr, local, nas, tmp, get, acts>>

\* A request over the local link ends in an error, which cmdServiceError()
\* takes for one of add_one_file, perhaps the last; a message of p2p is lost.
CommandFails(c) ==
  /\ \/ c.local /\ await # None /\ Finalize(c, {"failed"})
     \/ /\ pend' = pend \ {c}
        /\ Happened("failed", TRUE)
        /\ UNCHANGED <<mirror, cmd>>
  /\ await' = IF c.local THEN None ELSE await
  /\ UNCHANGED <<curr, local, nas, tmp, timer, get, acts>>

-----------------------------------------------------------------------------
(* Around it *)

\* intoDevice() of a configured device, and reset() if it is another one.
IntoDevice(d, loc) ==
  /\ <<d, loc>> # <<curr, local>>
  /\ Act
  /\ curr' = d
  /\ local' = loc
  /\ await' = IF d = curr THEN await ELSE None
  /\ hist' = hist \cup (IF Downloading THEN {"cut"} ELSE {})
                  \cup (IF curr \notin {d, None} THEN {"left"} ELSE {})
                  \cup (IF curr # d /\ pend # {} THEN {"crossed"} ELSE {})
  /\ UNCHANGED <<nas, mirror, tmp, pend, cmd, timer, get>>

\* The program ends, perhaps between removing the mirror and renaming the
\* temporary file (replaceDbFile), and is started again.
Crash ==
  /\ curr # None
  /\ Act
  /\ mirror' \in {mirror} \cup
       (IF Downloading /\ tmp[curr].size \in {"part", "full"}
          THEN {[mirror EXCEPT ![curr] = Blank]} ELSE {})
  /\ curr' = None
  /\ local' = FALSE
  /\ pend' = {}
  /\ cmd' = NoCmd
  /\ await' = None
  /\ timer' = FALSE
  /\ get' = Idle
  /\ Happened("crash", TRUE)
  /\ UNCHANGED <<nas, tmp>>

-----------------------------------------------------------------------------
Works ==
  \/ TimerFires
  \/ Progress
  \/ \E ok \in BOOLEAN : ReplyEnds(ok)
  \/ OldReplyEnds
  \/ \E how \in {"list", "empty", "terminated"} : LibEnds(how)
  \/ TakeEnd
  \/ \E c \in pend : Answered(c) \/ CommandFails(c) \/ \E ok \in BOOLEAN : Serve(c, ok)

Next ==
  \/ Works
  \/ Refresh
  \/ \E e \in Edits : SendEdit(e)
  \/ \E n \in Uploads : SendAdd(n)
  \/ \E d \in Devices, loc \in BOOLEAN : IntoDevice(d, loc)
  \/ Crash

Spec == Init /\ [][Next]_vars

\* Timers fire, requests end and their ends are taken.
FairSpec == Spec /\ WF_vars(Works)

-----------------------------------------------------------------------------
(* What the mirror promises *)

Never(E) == hist \cap E = {}

(***************************************************************************)
(* A mirror is never the part of a list, unless downloads overlapped or    *)
(* were cut by a change of link or device (localFileService.cpp,           *)
(* downloadFinishedSlot; dbFiles.cpp, dbFileDownloadFinished).             *)
(***************************************************************************)
MirrorWhole ==
  Never({"overlap", "cut"}) => \A d \in Devices : mirror[d].st # "broken"

(***************************************************************************)
(* A mirror shows nothing that its NAS has not carried out, unless         *)
(* commands crossed or an upload was given up (dbFiles.cpp,                *)
(* cmdServiceDataFinished and applyOptimisticLocalUpdate).                 *)
(***************************************************************************)
NothingInvented ==
  Never({"crossed", "unindexed"}) =>
    \A d \in Devices : mirror[d].shows \subseteq nas[d]

(***************************************************************************)
(* What a mirror shows it goes on to show, unless a list that was on its   *)
(* way replaces it, or one of the above happened (dbFiles.cpp: "Keep       *)
(* optimistic local edits visible even when NAS mirror re-download         *)
(* fails.").                                                               *)
(***************************************************************************)
EditsStay ==
  [][Never({"overlap", "cut", "crossed", "unindexed", "stale"}) /\ "crash" \notin hist' =>
       \A d \in Devices : mirror[d].shows \subseteq mirror'[d].shows]_vars

(***************************************************************************)
(* What the NAS has carried out for the user, the mirror shows in the end, *)
(* unless something failed, was taken for something else, overlapped, was  *)
(* cut or left (dbFiles.cpp, updateDatabase).                              *)
(***************************************************************************)
CatchesUp ==
  \A d \in Devices, e \in Edits :
    e \in nas[d] ~>
      (e \in mirror[d].shows
         \/ ~Never({"overlap", "cut", "left", "swallowed", "failed", "crash"}))
=============================================================================
