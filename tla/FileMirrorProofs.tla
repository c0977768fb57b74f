-------------------------- MODULE FileMirrorProofs --------------------------
(* Theorems about FileMirror, for all devices, edits, uploads and bounds.  *)
EXTENDS FileMirror, TLAPS

LEMMA KindsApart ==
  /\ \A e \in Edits : e[1] \in Kinds /\ e[2] \in Paths /\ e \in Effects
  /\ \A a \in Adds : a[1] = "add" /\ a \notin Edits /\ a \in Effects
  /\ DateCmd[1] = "date" /\ NoCmd[1] = "none"
  /\ DateCmd \notin Effects /\ DateCmd \notin Edits /\ DateCmd \notin Adds
  /\ NoCmd \notin Edits /\ NoCmd \notin Adds
BY EditsOfKinds DEF Kinds, Effects, Adds, DateCmd, NoCmd

(* What is applied is something a list can show, and if the command is the *)
(* one that was sent last, it is the edit itself.                          *)
LEMMA ShownEffects ==
  ASSUME NEW c, c.of \in Sendable, cmd \in Sendable \cup {NoCmd}
  PROVE  /\ Shown(c) \subseteq Effects
         /\ cmd = c.of => Shown(c) \subseteq {c.of}
<1>1. CASE Fits(c.of[1], cmd[1])
  <2>1. c.of[1] \in Kinds /\ cmd[1] \in Kinds
    BY <1>1 DEF Fits, Kinds
  <2>2. c.of \in Edits /\ cmd \in Edits
    BY <2>1, KindsApart DEF Sendable, Kinds
  <2>3. <<c.of[1], cmd[2]>> \in Effects
    BY <2>1, <2>2, KindsApart DEF Effects
  <2>4. c.of = <<c.of[1], c.of[2]>>
    BY <2>2, EditsOfKinds
  <2> QED
    BY <2>3, <2>4 DEF Shown
<1>2. CASE ~Fits(c.of[1], cmd[1])
  BY <1>2 DEF Shown
<1> QED
  BY <1>1, <1>2

LEMMA MirrorTypes ==
  /\ Blank \in Mirror /\ NoFile \in Temp /\ NewFile \in Temp
  /\ \A m \in Mirror, f \in Temp : Replaced(m, f) \in Mirror
  /\ \A m \in Mirror, E \in SUBSET Effects :
       /\ With(m, E) \in Mirror
       /\ With(m, E).st = m.st
       /\ m.shows \subseteq With(m, E).shows
       /\ With(m, E).shows \subseteq m.shows \cup E
BY DEF Blank, NoFile, NewFile, Replaced, With, Mirror, Temp

(* Functions that keep their type where they are changed in one place.     *)
LEMMA Except ==
  /\ \A f \in [Devices -> Temp], v \in Temp : \A d : [f EXCEPT ![d] = v] \in [Devices -> Temp]
  /\ \A f \in [Devices -> Mirror] : \A d, v :
       (d \in Devices => v \in Mirror) => [f EXCEPT ![d] = v] \in [Devices -> Mirror]
OBVIOUS

LEMMA HappenedType ==
  ASSUME NEW e \in Events, NEW when, hist \subseteq Events, Happened(e, when)
  PROVE  hist' \subseteq Events /\ hist \subseteq hist'
BY DEF Happened

(* Nothing is on its way without a device.                                 *)
TypeInv == TypeOK /\ (pend # {} => curr # None)

-----------------------------------------------------------------------------
(* Types, one lemma per part of the step *)

LEMMA UpdateDbFileType ==
  ASSUME TypeInv, UpdateDbFile
  PROVE  tmp' \in [Devices -> Temp] /\ get' \in Download
         /\ hist' \subseteq Events /\ hist \subseteq hist'
<1>0. NewFile \in Temp /\ NoFile \in Temp /\ tmp \in [Devices -> Temp]
  BY MirrorTypes DEF TypeInv, TypeOK
<1>1. tmp' \in [Devices -> Temp]
  <2>1. tmp' = [tmp EXCEPT ![curr] = NewFile] \/ tmp' = [tmp EXCEPT ![curr] = NoFile]
    BY DEF UpdateDbFile
  <2> QED
    BY <1>0, <2>1, Except
<1>2. get' \in Download
  <2>1. get \in Download /\ curr \in Devices \cup {None}
    BY DEF TypeInv, TypeOK
  <2>2. get.old \in Nat /\ get.old + 1 \in Nat /\ get.file \in Devices \cup {None}
    BY <2>1 DEF Download
  <2>3. CASE local
    <3>1. PICK n \in Nat : get' = [get EXCEPT !.reply = "running", !.file = curr, !.old = n]
      BY <2>2, <2>3 DEF UpdateDbFile
    <3> QED
      BY <2>1, <3>1 DEF Download
  <2>4. CASE ~local
    <3>1. PICK f \in Devices \cup {None} : get' = [get EXCEPT !.lib = curr, !.file = f]
      BY <2>2, <2>4 DEF UpdateDbFile
    <3> QED
      BY <2>1, <3>1 DEF Download
  <2> QED
    BY <2>3, <2>4
<1>3. hist' \subseteq Events /\ hist \subseteq hist'
  BY HappenedType DEF UpdateDbFile, TypeInv, TypeOK, Events
<1> QED
  BY <1>1, <1>2, <1>3

LEMMA DownloadFinishedType ==
  ASSUME TypeInv, DownloadFinished \/ NoFinish
  PROVE  mirror' \in [Devices -> Mirror] /\ tmp' \in [Devices -> Temp]
<1>0. NoFile \in Temp /\ tmp \in [Devices -> Temp] /\ mirror \in [Devices -> Mirror]
  BY MirrorTypes DEF TypeInv, TypeOK
<1>1. curr \in Devices => Replaced(mirror[curr], tmp[curr]) \in Mirror
  BY <1>0, MirrorTypes
<1>2. CASE DownloadFinished
  <2>1. tmp' \in [Devices -> Temp]
    BY <1>0, <1>2, Except DEF DownloadFinished
  <2>2. mirror' = [mirror EXCEPT ![curr] = Replaced(mirror[curr], tmp[curr])]
    BY <1>2 DEF DownloadFinished
  <2> QED
    BY <1>0, <1>1, <2>1, <2>2, Except
<1>3. CASE NoFinish
  BY <1>0, <1>3 DEF NoFinish
<1> QED
  BY <1>2, <1>3

LEMMA GrownType ==
  ASSUME TypeInv, NEW d \in Devices
  PROVE  Grown(d) \in Temp
BY DEF Grown, TypeInv, TypeOK, Temp

(* The downloads.                                                          *)
LEMMA DownloadType ==
  ASSUME TypeInv,
         \/ TimerFires \/ Refresh \/ Progress \/ \E ok \in BOOLEAN : ReplyEnds(ok)
         \/ OldReplyEnds \/ \E how \in {"list", "empty", "terminated"} : LibEnds(how)
         \/ TakeEnd
  PROVE  TypeInv' /\ hist \subseteq hist'
<1> USE DEF TypeInv
<1>1. CASE TimerFires
  <2>1. UpdateDbFile
    BY <1>1 DEF TimerFires, TimerUpdates
  <2> QED
    BY <1>1, <2>1, UpdateDbFileType DEF TimerFires, TypeOK, commands
<1>2. CASE Refresh
  <2>1. UpdateDbFile
    BY <1>2 DEF Refresh
  <2>2. acts' \in 0..MaxActs
    BY <1>2, ActsNatural DEF Refresh, Act, TypeOK
  <2> QED
    BY <1>2, <2>1, <2>2, UpdateDbFileType DEF Refresh, TypeOK, commands
<1>3. CASE Progress
  <2>1. PICK d \in Written : tmp' = [tmp EXCEPT ![d] = Grown(d)]
    BY <1>3 DEF Progress
  <2>2. d \in Devices
    BY <2>1 DEF Written, TypeOK, Download
  <2> QED
    BY <1>3, <2>1, <2>2, GrownType DEF Progress, TypeOK, commands
<1>4. ASSUME NEW ok \in BOOLEAN, ReplyEnds(ok)
      PROVE  TypeInv' /\ hist \subseteq hist'
  <2>1. get' \in Download
    BY <1>4 DEF ReplyEnds, TypeOK, Download
  <2>2. hist' \subseteq Events /\ hist \subseteq hist'
    BY <1>4, HappenedType DEF ReplyEnds, TypeOK, Events
  <2>3. DownloadFinished \/ NoFinish
    BY <1>4 DEF ReplyEnds
  <2> QED
    BY <1>4, <2>1, <2>2, <2>3, DownloadFinishedType DEF ReplyEnds, TypeOK, commands
<1>5. CASE OldReplyEnds
  <2>0. get \in Download /\ get.old > 0
    BY <1>5 DEF OldReplyEnds, TypeOK
  <2>a. get.old - 1 \in Nat
    BY <2>0 DEF Download
  <2>b. get' = [get EXCEPT !.old = get.old - 1, !.file = None]
    BY <1>5 DEF OldReplyEnds
  <2>1. get' \in Download
    BY <2>0, <2>a, <2>b DEF Download
  <2>2. DownloadFinished \/ NoFinish
    BY <1>5 DEF OldReplyEnds
  <2> QED
    BY <1>5, <2>1, <2>2, DownloadFinishedType DEF OldReplyEnds, TypeOK, commands
<1>6. ASSUME NEW how \in {"list", "empty", "terminated"}, LibEnds(how)
      PROVE  TypeInv' /\ hist \subseteq hist'
  <2>0. get \in Download /\ get.ends \in Nat /\ get.ends + 1 \in Nat
        /\ get.file \in Devices \cup {None}
    BY DEF TypeOK, Download
  <2>c. PICK f \in Devices \cup {None}, n \in Nat :
          get' = [get EXCEPT !.lib = None, !.file = f, !.ends = n]
    BY <1>6, <2>0 DEF LibEnds
  <2>1. get' \in Download
    BY <2>0, <2>c DEF Download
  <2>2. hist' \subseteq Events /\ hist \subseteq hist'
    BY <1>6, HappenedType DEF LibEnds, TypeOK, Events
  <2>a. NewFile \in Temp /\ tmp \in [Devices -> Temp]
    BY MirrorTypes DEF TypeOK
  <2>b. tmp' = tmp \/ tmp' = [tmp EXCEPT ![get.lib] = NewFile]
    BY <1>6 DEF LibEnds
  <2>3. tmp' \in [Devices -> Temp]
    BY <2>a, <2>b, Except
  <2> QED
    BY <1>6, <2>1, <2>2, <2>3 DEF LibEnds, TypeOK, commands
<1>7. CASE TakeEnd
  <2>1. get' \in Download
    BY <1>7 DEF TakeEnd, TypeOK, Download
  <2>2. DownloadFinished
    BY <1>7 DEF TakeEnd
  <2>3. mirror' \in [Devices -> Mirror] /\ tmp' \in [Devices -> Temp]
    BY <2>2, DownloadFinishedType
  <2> QED
    BY <1>7, <2>1, <2>3 DEF TakeEnd, TypeOK, commands
<1> QED
  BY <1>1, <1>2, <1>3, <1>4, <1>5, <1>6, <1>7

LEMMA SentType ==
  ASSUME TypeInv, curr # None, NEW e \in Sendable, NEW others,
         others \subseteq Command, Sent(e, others)
  PROVE  pend' \subseteq Command /\ cmd' \in Sendable \cup {NoCmd}
<1>1. [dev |-> curr, of |-> e, local |-> local, st |-> "sent"] \in Command
  BY DEF TypeInv, TypeOK, Command
<1> QED
  BY <1>1 DEF Sent, TypeInv, TypeOK

(* What the user and the upload queue send.                                *)
LEMMA SendType ==
  ASSUME TypeInv,
         (\E e \in Edits : SendEdit(e)) \/ (\E n \in Uploads : SendAdd(n))
  PROVE  TypeInv' /\ hist \subseteq hist'
<1>1. ASSUME NEW e \in Sendable, Send(e)
      PROVE  /\ pend' \subseteq Command /\ cmd' \in Sendable \cup {NoCmd}
             /\ acts' \in 0..MaxActs /\ curr # None
             /\ hist' \subseteq Events /\ hist \subseteq hist'
  <2>1. acts' \in 0..MaxActs
    BY <1>1, ActsNatural DEF Send, Act, TypeInv, TypeOK
  <2>2. hist' \subseteq Events /\ hist \subseteq hist'
    BY <1>1, HappenedType DEF Send, TypeInv, TypeOK, Events
  <2> QED
    BY <1>1, <2>1, <2>2, SentType DEF Send, TypeInv, TypeOK
<1>2. ASSUME NEW e \in Edits, SendEdit(e)
      PROVE  TypeInv' /\ hist \subseteq hist'
  BY <1>1, <1>2 DEF SendEdit, Sendable, TypeInv, TypeOK
<1>3. ASSUME NEW n \in Uploads, SendAdd(n)
      PROVE  TypeInv' /\ hist \subseteq hist'
  <2>1. <<"add", n>> \in Sendable
    BY DEF Sendable, Adds
  <2> QED
    BY <1>1, <1>3, <2>1 DEF SendAdd, TypeInv, TypeOK
<1> QED
  BY <1>2, <1>3

(* The row of an upload, and what is sent after it.                        *)
LEMMA FinalizeType ==
  ASSUME TypeInv, NEW c \in pend, NEW failures \in SUBSET Events, await # None,
         Finalize(c, failures)
  PROVE  /\ mirror' \in [Devices -> Mirror]
         /\ pend' \subseteq Command /\ cmd' \in Sendable \cup {NoCmd}
         /\ hist' \subseteq Events /\ hist \subseteq hist'
<1>0. curr # None /\ pend \ {c} \subseteq Command
  BY DEF TypeInv, TypeOK
<1>1. <<"add", await>> \in Effects
  BY DEF TypeInv, TypeOK, Effects, Adds
<1>2. mirror' \in [Devices -> Mirror]
  <2>1. curr \in Devices => With(mirror[curr], {<<"add", await>>}) \in Mirror
    BY <1>1, MirrorTypes DEF TypeInv, TypeOK
  <2>2. mirror' = [mirror EXCEPT ![curr] = With(mirror[curr], {<<"add", await>>})]
    BY DEF Finalize
  <2> QED
    BY <2>1, <2>2, Except DEF TypeInv, TypeOK
<1>3. pend' \subseteq Command /\ cmd' \in Sendable \cup {NoCmd}
  BY <1>0, SentType DEF Finalize, Sendable
<1>4. hist' \subseteq Events /\ hist \subseteq hist'
  BY DEF Finalize, TypeInv, TypeOK, Events
<1> QED
  BY <1>2, <1>3, <1>4

(* The answer to a command.                                                *)
LEMMA AnsweredType ==
  ASSUME TypeInv, NEW c \in pend, Answered(c)
  PROVE  TypeInv' /\ hist \subseteq hist'
<1>0. c \in Command /\ c.of \in Sendable /\ curr # None /\ pend \ {c} \subseteq Command
  BY DEF TypeInv, TypeOK, Command
<1>1. CASE TakenForAdd(c) /\ Finalize(c, {}) /\ await' = None /\ UNCHANGED timer
  <2>1. await # None
    BY <1>1 DEF TakenForAdd
  <2> QED
    BY <1>0, <1>1, <2>1, FinalizeType DEF Answered, TypeInv, TypeOK
<1>2. CASE TakenForAdd(c) /\ ~Finalize(c, {})
  <2>1. Happened("swallowed", c.of \notin Adds) /\ pend' = pend \ {c} /\ await' = None
        /\ UNCHANGED <<mirror, cmd, timer>>
    BY <1>2 DEF Answered, AddAnswered
  <2>2. hist' \subseteq Events /\ hist \subseteq hist'
    BY <2>1, HappenedType DEF TypeInv, TypeOK, Events
  <2> QED
    BY <1>0, <1>2, <2>1, <2>2 DEF Answered, TypeInv, TypeOK
<1>3. CASE ~TakenForAdd(c) /\ Applies(c)
  <2>1. mirror' \in [Devices -> Mirror]
    <3>1. Shown(c) \subseteq Effects
      BY <1>0, ShownEffects DEF TypeInv, TypeOK
    <3>2. curr \in Devices => With(mirror[curr], Shown(c)) \in Mirror
      BY <3>1, MirrorTypes DEF TypeInv, TypeOK
    <3>3. mirror' = [mirror EXCEPT ![curr] = With(mirror[curr], Shown(c))]
      BY <1>3 DEF Answered, EditAnswered
    <3> QED
      BY <3>2, <3>3, Except DEF TypeInv, TypeOK
  <2>2. hist' \subseteq Events /\ hist \subseteq hist'
    BY <1>3, HappenedType DEF Answered, EditAnswered, TypeInv, TypeOK, Events
  <2> QED
    BY <1>0, <1>3, <2>1, <2>2 DEF Answered, EditAnswered, TypeInv, TypeOK
<1>4. CASE ~TakenForAdd(c) /\ ~Applies(c)
  BY <1>0, <1>4 DEF Answered, EditAnswered, TypeInv, TypeOK
<1> QED
  BY <1>1, <1>2, <1>3, <1>4 DEF Answered, AddAnswered

(* The NAS, and what gets lost.                                            *)
LEMMA ServeType ==
  ASSUME TypeInv, NEW c \in pend,
         CommandFails(c) \/ \E ok \in BOOLEAN : Serve(c, ok)
  PROVE  TypeInv' /\ hist \subseteq hist'
<1>0. c \in Command /\ pend \ {c} \subseteq Command /\ curr # None
  BY DEF TypeInv, TypeOK
<1>1. CASE CommandFails(c)
  <2>1. CASE c.local /\ await # None /\ Finalize(c, {"failed"})
    <3>1. {"failed"} \in SUBSET Events
      BY DEF Events
    <3> QED
      BY <1>0, <1>1, <2>1, <3>1, FinalizeType DEF CommandFails, TypeInv, TypeOK
  <2>2. CASE pend' = pend \ {c} /\ Happened("failed", TRUE) /\ UNCHANGED <<mirror, cmd>>
    <3>1. hist' \subseteq Events /\ hist \subseteq hist'
      BY <2>2, HappenedType DEF TypeInv, TypeOK, Events
    <3> QED
      BY <1>0, <1>1, <2>2, <3>1 DEF CommandFails, TypeInv, TypeOK
  <2> QED
    BY <1>1, <2>1, <2>2 DEF CommandFails
<1>2. ASSUME NEW ok \in BOOLEAN, Serve(c, ok)
      PROVE  TypeInv' /\ hist \subseteq hist'
  <2>1. [c EXCEPT !.st = IF ok THEN "ok" ELSE "refused"] \in Command
    BY <1>0 DEF Command
  <2>2. nas' \in [Devices -> SUBSET Effects]
    BY <1>2 DEF Serve, TypeInv, TypeOK
  <2> QED
    BY <1>0, <1>2, <2>1, <2>2 DEF Serve, TypeInv, TypeOK
<1> QED
  BY <1>1, <1>2

(* Changes of device and link, and the end of the program.                 *)
LEMMA AroundType ==
  ASSUME TypeInv,
         Crash \/ \E d \in Devices, loc \in BOOLEAN : IntoDevice(d, loc)
  PROVE  TypeInv' /\ hist \subseteq hist'
<1>1. CASE Crash
  <2>1. hist' \subseteq Events /\ hist \subseteq hist'
    BY <1>1, HappenedType DEF Crash, TypeInv, TypeOK, Events
  <2>2. acts' \in 0..MaxActs
    BY <1>1, ActsNatural DEF Crash, Act, TypeInv, TypeOK
  <2>3. mirror' \in [Devices -> Mirror]
    <3>1. Blank \in Mirror /\ mirror \in [Devices -> Mirror]
      BY MirrorTypes DEF TypeInv, TypeOK
    <3>2. mirror' = mirror \/ mirror' = [mirror EXCEPT ![curr] = Blank]
      BY <1>1 DEF Crash
    <3> QED
      BY <3>1, <3>2, Except
  <2>4. get' \in Download
    BY <1>1 DEF Crash, Idle, Download
  <2> QED
    BY <1>1, <2>1, <2>2, <2>3, <2>4 DEF Crash, TypeInv, TypeOK
<1>2. ASSUME NEW d \in Devices, NEW loc \in BOOLEAN, IntoDevice(d, loc)
      PROVE  TypeInv' /\ hist \subseteq hist'
  <2>1. hist' \subseteq Events /\ hist \subseteq hist'
    BY <1>2 DEF IntoDevice, TypeInv, TypeOK, Events
  <2>2. acts' \in 0..MaxActs
    BY <1>2, ActsNatural DEF IntoDevice, Act, TypeInv, TypeOK
  <2>3. d # None
    BY NoneIsNothing
  <2> QED
    BY <1>2, <2>1, <2>2, <2>3 DEF IntoDevice, TypeInv, TypeOK
<1> QED
  BY <1>1, <1>2

LEMMA TypeInit == Init => TypeInv
<1> SUFFICES ASSUME Init PROVE TypeInv
  OBVIOUS
<1>1. Idle \in Download
  BY DEF Idle, Download
<1>2. mirror \in [Devices -> Mirror] /\ tmp \in [Devices -> Temp]
  BY MirrorTypes DEF Init
<1>3. acts \in 0..MaxActs /\ nas \in [Devices -> SUBSET Effects] /\ hist \subseteq Events
  BY ActsNatural DEF Init
<1> QED
  BY <1>1, <1>2, <1>3 DEF Init, TypeInv, TypeOK

LEMMA TypeStep == TypeInv /\ [Next]_vars => TypeInv' /\ hist \subseteq hist'
<1> SUFFICES ASSUME TypeInv, [Next]_vars PROVE TypeInv' /\ hist \subseteq hist'
  OBVIOUS
<1>1. CASE Next
  BY <1>1, DownloadType, SendType, AnsweredType, ServeType, AroundType DEF Next, Works
<1>2. CASE UNCHANGED vars
  BY <1>2 DEF vars, TypeInv, TypeOK
<1> QED
  BY <1>1, <1>2

(***************************************************************************)
(* The mirrors, the temporary files, the commands and the download always  *)
(* have the types of the code (dbFiles.h, localFileService.h).             *)
(***************************************************************************)
THEOREM TypeCorrect == Spec => []TypeOK
<1>1. Spec => []TypeInv
  BY TypeInit, TypeStep, PTL DEF Spec
<1>2. TypeInv => TypeOK
  BY DEF TypeInv
<1> QED
  BY <1>1, <1>2, PTL

-----------------------------------------------------------------------------
(* A mirror is never the part of a list *)

Undisturbed == Never({"overlap", "cut"})

(***************************************************************************)
(* Where no download has met another or been cut, at most one is under     *)
(* way, it writes the file of the current device, and an end that is       *)
(* posted finds no part of a list.                                         *)
(***************************************************************************)
OneDownload ==
  /\ get.old = 0
  /\ get.file # None => get.reply = "running"
  /\ get.reply = "running" => local /\ get.file = curr /\ get.lib = None /\ get.ends = 0
  /\ get.lib # None => ~local /\ get.lib = curr /\ get.ends = 0
  /\ get.ends > 0 => tmp[curr].size # "part"

WholeInv == Undisturbed => OneDownload /\ \A d \in Devices : mirror[d].st # "broken"

LEMMA NeverBefore ==
  ASSUME NEW E, hist \subseteq hist', Never(E)'
  PROVE  Never(E)
BY DEF Never

(* What is taken for a finished download is a whole list, or nothing.      *)
LEMMA TakenIsWhole ==
  ASSUME TypeInv, Undisturbed, OneDownload, curr \in Devices,
         (\E ok \in BOOLEAN : ReplyEnds(ok)) \/ OldReplyEnds \/ TakeEnd,
         DownloadFinished
  PROVE  tmp[curr].size # "part"
<1>1. ASSUME NEW ok \in BOOLEAN, ReplyEnds(ok) PROVE tmp[curr].size # "part" \/ NoFinish
  <2>1. local /\ get.file = curr /\ curr # None
    BY <1>1, NoneIsNothing DEF ReplyEnds, OneDownload
  <2>2. ok => tmp[curr].size = "full"
    BY <1>1, <2>1 DEF ReplyEnds
  <2>3. ~ok => NoFinish
    BY <1>1, <2>1 DEF ReplyEnds, Succeeds
  <2> QED
    BY <2>2, <2>3
<1>2. NoFinish => tmp[curr].size # "part"
  <2>1. tmp \in [Devices -> Temp]
    BY DEF TypeInv, TypeOK
  <2> QED
    BY <2>1 DEF NoFinish, DownloadFinished, NoFile
<1>3. ~OldReplyEnds
  BY DEF OldReplyEnds, OneDownload
<1>4. TakeEnd => tmp[curr].size # "part"
  BY DEF TakeEnd, OneDownload
<1> QED
  BY <1>1, <1>2, <1>3, <1>4

LEMMA UpdateDbFileWhole ==
  ASSUME TypeInv, WholeInv, UpdateDbFile, UNCHANGED <<curr, local, mirror>>, Undisturbed'
  PROVE  WholeInv'
<1>1. hist \subseteq hist'
  BY UpdateDbFileType
<1>2. OneDownload /\ \A d \in Devices : mirror[d].st # "broken"
  BY <1>1, NeverBefore DEF WholeInv, Undisturbed
<1>3. get.reply # "running" /\ get.old = 0 /\ ~(get.ends > 0) /\ (local => get.lib = None)
  <2>1. "overlap" \notin hist'
    BY DEF Undisturbed, Never
  <2>2. Happened("overlap", get.reply = "running" \/ get.old > 0 \/ get.ends > 0
                              \/ (local /\ get.lib # None))
    BY DEF UpdateDbFile
  <2>3. ~(get.reply = "running" \/ get.old > 0 \/ get.ends > 0
            \/ (local /\ get.lib # None))
    BY <2>1, <2>2 DEF Happened
  <2>4. get.old = 0
    BY <1>2 DEF OneDownload
  <2> QED
    BY <2>3, <2>4
<1>4. get \in Download /\ get.file = None
  BY <1>2, <1>3 DEF OneDownload, TypeInv, TypeOK
<1>5. get.ends = 0
  BY <1>3, <1>4 DEF Download
<1>6. get' = IF local THEN [get EXCEPT !.reply = "running", !.file = curr, !.old = get.old]
             ELSE [get EXCEPT !.lib = curr, !.file = IF get.file = curr THEN None ELSE get.file]
  BY <1>3 DEF UpdateDbFile
<1>7. OneDownload'
  <2>1. CASE local
    <3>1. /\ get'.reply = "running" /\ get'.file = curr /\ get'.old = 0
          /\ get'.lib = None /\ get'.ends = 0
      BY <1>3, <1>4, <1>5, <1>6, <2>1 DEF Download
    <3> QED
      BY <2>1, <3>1 DEF OneDownload
  <2>2. CASE ~local
    <3>1. /\ get'.reply # "running" /\ get'.file = None /\ get'.old = 0
          /\ get'.lib = curr /\ get'.ends = 0
      BY <1>3, <1>4, <1>5, <1>6, <2>2 DEF Download
    <3> QED
      BY <2>2, <3>1 DEF OneDownload
  <2> QED
    BY <2>1, <2>2
<1> QED
  BY <1>2, <1>7 DEF WholeInv

(* The end of a download takes a whole list or leaves the mirror alone.    *)
LEMMA FinishWhole ==
  ASSUME TypeInv, WholeInv, Undisturbed, UNCHANGED curr,
         (\E ok \in BOOLEAN : ReplyEnds(ok)) \/ OldReplyEnds \/ TakeEnd
  PROVE  \A d \in Devices : mirror'[d].st # "broken"
<1>1. OneDownload /\ mirror \in [Devices -> Mirror] /\ tmp \in [Devices -> Temp]
      /\ \A d \in Devices : mirror[d].st # "broken"
  BY DEF WholeInv, TypeInv, TypeOK
<1>2. CASE DownloadFinished
  <2>1. mirror' = [mirror EXCEPT ![curr] = Replaced(mirror[curr], tmp[curr])]
    BY <1>2 DEF DownloadFinished
  <2>2. curr \in Devices => Replaced(mirror[curr], tmp[curr]).st # "broken"
    BY <1>1, <1>2, TakenIsWhole DEF Replaced, Temp
  <2> QED
    BY <1>1, <2>1, <2>2
<1>3. CASE NoFinish
  BY <1>1, <1>3 DEF NoFinish
<1> QED
  BY <1>2, <1>3 DEF ReplyEnds, OldReplyEnds, TakeEnd

LEMMA WholeInit == Init => WholeInv
BY DEF Init, WholeInv, OneDownload, Idle, Blank

LEMMA WholeStep == TypeInv /\ WholeInv /\ [Next]_vars => WholeInv'
<1> SUFFICES ASSUME TypeInv, WholeInv, [Next]_vars, Undisturbed'
             PROVE  WholeInv'
  BY DEF WholeInv
<1>0. hist \subseteq hist' /\ Undisturbed
  BY TypeStep, NeverBefore DEF Undisturbed
<1>1. OneDownload /\ \A d \in Devices : mirror[d].st # "broken"
  BY <1>0 DEF WholeInv
<1>2. get \in Download /\ tmp \in [Devices -> Temp] /\ mirror \in [Devices -> Mirror]
  BY DEF TypeInv, TypeOK
<1>3. CASE TimerFires
  BY <1>3, UpdateDbFileWhole DEF TimerFires, TimerUpdates
<1>4. CASE Refresh
  BY <1>4, UpdateDbFileWhole DEF Refresh
<1>5. CASE Progress
  <2>1. ~(get.ends > 0) /\ UNCHANGED <<curr, local, mirror, get>>
    BY <1>1, <1>5 DEF Progress, Written, OneDownload
  <2> QED
    BY <1>1, <2>1 DEF OneDownload, WholeInv
<1>6. ASSUME NEW ok \in BOOLEAN, ReplyEnds(ok) PROVE WholeInv'
  <2>1. \A d \in Devices : mirror'[d].st # "broken"
    BY <1>0, <1>6, FinishWhole DEF ReplyEnds
  <2>2. get.old = 0 /\ get.lib = None /\ get.ends = 0
    BY <1>1, <1>6 DEF ReplyEnds, OneDownload
  <2>3. /\ get'.reply = "freed" /\ get'.file = None /\ get'.old = 0
        /\ get'.lib = None /\ get'.ends = 0
    BY <1>2, <1>6, <2>2 DEF ReplyEnds, Download
  <2> QED
    BY <2>1, <2>3 DEF OneDownload, WholeInv
<1>7. CASE OldReplyEnds
  BY <1>1, <1>7 DEF OldReplyEnds, OneDownload
<1>8. ASSUME NEW how \in {"list", "empty", "terminated"}, LibEnds(how) PROVE WholeInv'
  <2>1. ~local /\ get.lib = curr /\ get.ends = 0 /\ get.reply # "running" /\ get.file = None
    BY <1>1, <1>8 DEF LibEnds, OneDownload
  <2>2. /\ get'.reply # "running" /\ get'.file = None /\ get'.old = 0 /\ get'.lib = None
        /\ get'.ends = IF how = "terminated" THEN 0 ELSE 1
    BY <1>1, <1>2, <1>8, <2>1 DEF LibEnds, Download, OneDownload
  <2>3. curr \in Devices
    BY <1>2, <1>8, <2>1 DEF LibEnds, Download
  <2>4. how # "terminated" => tmp'[curr].size # "part"
    BY <1>2, <1>8, <2>1, <2>3 DEF LibEnds, NewFile
  <2> QED
    BY <1>1, <1>8, <2>2, <2>4 DEF LibEnds, OneDownload, WholeInv
<1>9. CASE TakeEnd
  <2>1. \A d \in Devices : mirror'[d].st # "broken"
    BY <1>0, <1>9, FinishWhole DEF TakeEnd
  <2>2. get' = [get EXCEPT !.ends = get.ends - 1] /\ get.ends > 0
    BY <1>9 DEF TakeEnd
  <2>3. get.reply # "running" /\ get.file = None /\ get.lib = None /\ get.old = 0
    BY <1>1, <2>2 DEF OneDownload
  <2>4. /\ get'.reply # "running" /\ get'.file = None /\ get'.lib = None /\ get'.old = 0
    BY <1>2, <2>2, <2>3 DEF Download
  <2>5. tmp'[curr].size # "part"
    BY <1>1, <1>2, <1>9, <2>2 DEF TakeEnd, DownloadFinished, NoFile, OneDownload
  <2>6. curr' = curr
    BY <1>9 DEF TakeEnd
  <2> QED
    BY <2>1, <2>4, <2>5, <2>6 DEF OneDownload, WholeInv
<1>10. ASSUME NEW c \in pend, Answered(c) \/ CommandFails(c) PROVE WholeInv'
  <2>1. UNCHANGED <<curr, local, tmp, get>>
    BY <1>10 DEF Answered, CommandFails
  <2>2. mirror' = mirror \/ \E E \in SUBSET Effects :
          mirror' = [mirror EXCEPT ![curr] = With(mirror[curr], E)]
    <3>1. c.of \in Sendable
      BY DEF TypeInv, TypeOK, Command
    <3>2. Shown(c) \in SUBSET Effects
      BY <3>1, ShownEffects DEF TypeInv, TypeOK
    <3>3. await # None => {<<"add", await>>} \in SUBSET Effects
      BY DEF TypeInv, TypeOK, Effects, Adds
    <3>4. \/ mirror' = mirror
          \/ mirror' = [mirror EXCEPT ![curr] = With(mirror[curr], Shown(c))]
          \/ /\ await # None
             /\ mirror' = [mirror EXCEPT ![curr] = With(mirror[curr], {<<"add", await>>})]
      BY <1>10 DEF Answered, AddAnswered, TakenForAdd, EditAnswered, CommandFails, Finalize
    <3> QED
      BY <3>2, <3>3, <3>4
  <2>3. \A d \in Devices : mirror'[d].st = mirror[d].st
    <3>1. ASSUME NEW E \in SUBSET Effects, curr \in Devices
          PROVE  With(mirror[curr], E).st = mirror[curr].st
      <4>1. mirror[curr] \in Mirror
        BY <1>2, <3>1
      <4> QED
        BY <4>1 DEF With, Mirror
    <3>2. ASSUME NEW E \in SUBSET Effects,
                 mirror' = [mirror EXCEPT ![curr] = With(mirror[curr], E)],
                 NEW d \in Devices
          PROVE  mirror'[d].st = mirror[d].st
      <4>1. CASE d = curr
        BY <1>2, <3>1, <3>2, <4>1
      <4>2. CASE d # curr
        BY <1>2, <3>2, <4>2
      <4> QED
        BY <4>1, <4>2
    <3> QED
      BY <2>2, <3>2
  <2> QED
    BY <1>1, <2>1, <2>3 DEF OneDownload, WholeInv
<1>11. ASSUME NEW c \in pend, NEW ok \in BOOLEAN, Serve(c, ok) PROVE WholeInv'
  BY <1>1, <1>11 DEF Serve, OneDownload, WholeInv
<1>12. ASSUME (\E e \in Edits : SendEdit(e)) \/ (\E n \in Uploads : SendAdd(n))
       PROVE  WholeInv'
  BY <1>1, <1>12 DEF SendEdit, SendAdd, OneDownload, WholeInv
<1>13. ASSUME NEW d \in Devices, NEW loc \in BOOLEAN, IntoDevice(d, loc) PROVE WholeInv'
  <2>1. ~Downloading
    BY <1>13 DEF IntoDevice, Undisturbed, Never
  <2>2. get.reply # "running" /\ get.file = None /\ get.lib = None /\ ~(get.ends > 0)
    BY <1>1, <2>1 DEF Downloading, OneDownload
  <2> QED
    BY <1>1, <1>13, <2>2 DEF IntoDevice, OneDownload, WholeInv
<1>14. CASE Crash
  <2>1. \A d \in Devices : mirror'[d].st # "broken"
    <3>1. mirror' = mirror \/ mirror' = [mirror EXCEPT ![curr] = Blank]
      BY <1>14 DEF Crash
    <3> QED
      BY <1>1, <1>2, <3>1 DEF Blank
  <2>2. OneDownload'
    BY <1>14 DEF Crash, Idle, OneDownload
  <2> QED
    BY <2>1, <2>2 DEF WholeInv
<1>15. CASE UNCHANGED vars
  BY <1>1, <1>15 DEF vars, OneDownload, WholeInv
<1> QED
  BY <1>3, <1>4, <1>5, <1>6, <1>7, <1>8, <1>9, <1>10, <1>11, <1>12, <1>13, <1>14, <1>15
     DEF Next, Works

(***************************************************************************)
(* A mirror is the part of a list only after downloads have overlapped or  *)
(* were cut by a change of link or device (localFileService.cpp,           *)
(* downloadFinishedSlot; dbFiles.cpp, dbFileDownloadFinished).             *)
(***************************************************************************)
THEOREM MirrorStaysWhole == Spec => []MirrorWhole
<1>1. Spec => [](TypeInv /\ WholeInv)
  BY TypeInit, TypeStep, WholeInit, WholeStep, PTL DEF Spec
<1>2. WholeInv => MirrorWhole
  BY DEF WholeInv, MirrorWhole, Undisturbed
<1> QED
  BY <1>1, <1>2, PTL
-----------------------------------------------------------------------------
(* A mirror shows nothing that its NAS has not carried out *)

(***************************************************************************)
(* What is written into a mirror comes from a list or from the answer to a *)
(* command, so both must be covered by the NAS; and as long as no commands *)
(* cross, the answer is to the command that was sent last.                 *)
(***************************************************************************)
ListsCovered == \A d \in Devices : tmp[d].shows \subseteq nas[d]

OkIsDone == \A c \in pend : c.st = "ok" /\ c.of \in Edits => c.of \in nas[c.dev]

LastIsPending ==
  Never({"crossed"}) =>
    /\ \A c \in pend : pend = {c} /\ c.dev = curr
    /\ \A c \in pend : c.of \in Edits => cmd = c.of

CoverInv == ListsCovered /\ OkIsDone /\ LastIsPending /\ NothingInvented

(* One action of the download: the lists stay covered.                     *)
Moves ==
  \/ TimerFires \/ Refresh \/ Progress \/ OldReplyEnds \/ TakeEnd
  \/ \E ok \in BOOLEAN : ReplyEnds(ok)
  \/ \E how \in {"list", "empty", "terminated"} : LibEnds(how)

LEMMA CoverMoves ==
  ASSUME TypeInv, CoverInv, hist \subseteq hist', Moves
  PROVE  CoverInv'
<1>1. UNCHANGED <<curr, nas, pend, cmd>>
  BY DEF Moves, TimerFires, Refresh, Progress, OldReplyEnds, TakeEnd, ReplyEnds, LibEnds,
         commands
<1>2. mirror \in [Devices -> Mirror] /\ tmp \in [Devices -> Temp]
  BY DEF TypeInv, TypeOK
<1>3. \A d \in Devices :
        /\ tmp'[d].shows \subseteq tmp[d].shows \cup nas[d]
        /\ mirror'[d].shows \subseteq mirror[d].shows \cup tmp[d].shows
  <2>1. ASSUME UpdateDbFile, mirror' = mirror
        PROVE  \A d \in Devices : /\ tmp'[d].shows \subseteq tmp[d].shows
                                  /\ mirror'[d] = mirror[d]
    <3>1. tmp' = [tmp EXCEPT ![curr] = IF local THEN NewFile ELSE NoFile]
      BY <2>1 DEF UpdateDbFile
    <3> QED
      BY <1>2, <2>1, <3>1 DEF NewFile, NoFile
  <2>2. DownloadFinished =>
          \A d \in Devices : /\ tmp'[d].shows \subseteq tmp[d].shows
                             /\ mirror'[d].shows \subseteq mirror[d].shows \cup tmp[d].shows
    <3>1. \A d \in Devices :
            Replaced(mirror[d], tmp[d]).shows \subseteq mirror[d].shows \cup tmp[d].shows
      BY <1>2 DEF Replaced, Mirror, Temp
    <3>2. NoFile.shows = {}
      BY DEF NoFile
    <3> QED
      BY <1>2, <3>1, <3>2 DEF DownloadFinished
  <2>3. CASE TimerFires
    BY <2>1, <2>3 DEF TimerFires, TimerUpdates
  <2>4. CASE Refresh
    BY <2>1, <2>4 DEF Refresh
  <2>5. CASE Progress
    <3>1. PICK d \in Written :
            tmp' = [tmp EXCEPT ![d] = Grown(d)] /\ mirror' = mirror
      BY <2>5 DEF Progress
    <3>2. d \in Devices
      BY DEF Written, TypeInv, TypeOK, Download
    <3>3. Grown(d).shows \subseteq tmp[d].shows \cup nas[d]
      BY <1>2, <3>2 DEF Grown, Temp
    <3> QED
      BY <1>2, <3>1, <3>2, <3>3
  <2>6. CASE OldReplyEnds \/ TakeEnd \/ \E ok \in BOOLEAN : ReplyEnds(ok)
    BY <2>2, <2>6 DEF OldReplyEnds, TakeEnd, ReplyEnds, NoFinish
  <2>7. ASSUME NEW how \in {"list", "empty", "terminated"}, LibEnds(how)
        PROVE  \A d \in Devices : tmp'[d].shows \subseteq tmp[d].shows /\ mirror'[d] = mirror[d]
    <3>1. mirror' = mirror /\ (tmp' = tmp \/ tmp' = [tmp EXCEPT ![get.lib] = NewFile])
      BY <2>7 DEF LibEnds
    <3> QED
      BY <1>2, <3>1 DEF NewFile
  <2> QED
    BY <2>3, <2>4, <2>5, <2>6, <2>7 DEF Moves
<1>4. ListsCovered'
  BY <1>1, <1>3 DEF CoverInv, ListsCovered
<1>5. OkIsDone' /\ LastIsPending'
  BY <1>1, NeverBefore DEF CoverInv, OkIsDone, LastIsPending
<1>6. NothingInvented'
  BY <1>1, <1>3, NeverBefore DEF CoverInv, ListsCovered, NothingInvented
<1> QED
  BY <1>4, <1>5, <1>6 DEF CoverInv

(* The row of an upload is done, unless the upload was given up.           *)
LEMMA CoverFinalize ==
  ASSUME TypeInv, CoverInv, hist \subseteq hist', NEW c \in pend, NEW failures,
         Finalize(c, failures), await # None, UNCHANGED <<curr, nas, tmp>>
  PROVE  CoverInv'
<1>a. UNCHANGED <<curr, nas, tmp>>
  OBVIOUS
<1>b. mirror \in [Devices -> Mirror]
  BY DEF TypeInv, TypeOK
<1> DEFINE row == <<"add", await>>
           date == [dev |-> curr, of |-> DateCmd, local |-> local, st |-> "sent"]
<1>1. /\ pend' = (pend \ {c}) \cup {date}
      /\ mirror' = [mirror EXCEPT ![curr] = With(mirror[curr], {row})]
      /\ row \in nas[curr] \/ "unindexed" \in hist'
      /\ pend = {c} \/ "crossed" \in hist'
  BY DEF Finalize, Sent
<1>2. date.dev = curr /\ date.of \notin Edits /\ date.st = "sent"
  BY KindsApart
<1>3. ListsCovered' /\ OkIsDone'
  BY <1>a, <1>1, <1>2 DEF CoverInv, ListsCovered, OkIsDone
<1>4. LastIsPending'
  <2>1. Never({"crossed"})' => pend' = {date}
    BY <1>1 DEF Never
  <2> HIDE DEF date
  <2>2. Never({"crossed"})' => \A x \in pend' : x = date
    BY <2>1
  <2> QED
    BY <1>a, <1>2, <2>1, <2>2 DEF LastIsPending
<1>5. {row} \in SUBSET Effects
  BY DEF Effects, Adds, TypeInv, TypeOK
<1>6. \A d \in Devices : mirror'[d].shows \subseteq
        mirror[d].shows \cup (IF d = curr THEN {row} ELSE {})
  BY <1>b, <1>1, <1>5, MirrorTypes
<1>7. Never({"crossed", "unindexed"})' =>
        Never({"crossed", "unindexed"}) /\ row \in nas[curr]
  BY <1>1 DEF Never
<1>8. NothingInvented'
  BY <1>a, <1>6, <1>7 DEF NothingInvented, CoverInv
<1> QED
  BY <1>3, <1>4, <1>8 DEF CoverInv

(* What an answer writes is done, as far as commands have not crossed.     *)
LEMMA CoverAnswered ==
  ASSUME TypeInv, CoverInv, hist \subseteq hist', NEW c \in pend, Answered(c)
  PROVE  CoverInv'
<1>1. UNCHANGED <<curr, nas, tmp>> /\ c.st # "sent"
  BY DEF Answered
<1>2. mirror \in [Devices -> Mirror] /\ c \in Command /\ cmd \in Sendable \cup {NoCmd}
  BY DEF TypeInv, TypeOK
<1>3. CASE EditAnswered(c)
  <2>1. pend' = pend \ {c} /\ cmd' = cmd
    BY <1>3 DEF EditAnswered
  <2>2. LastIsPending' /\ OkIsDone' /\ ListsCovered'
    BY <1>1, <2>1, NeverBefore DEF CoverInv, LastIsPending, OkIsDone, ListsCovered
  <2>3. CASE Applies(c)
    <3>1. mirror' = [mirror EXCEPT ![curr] = With(mirror[curr], Shown(c))]
      BY <1>3, <2>3 DEF EditAnswered
    <3>2. Never({"crossed"}) => Shown(c) \subseteq nas[curr]
      <4>1. c.of \in Edits /\ c.st = "ok" /\ c.of \in nas[c.dev]
        BY <2>3 DEF Applies, CoverInv, OkIsDone
      <4>2. Never({"crossed"}) => c.dev = curr /\ cmd = c.of
        BY <4>1 DEF CoverInv, LastIsPending
      <4>3. Never({"crossed"}) => Shown(c) \subseteq {c.of}
        BY <1>2, <4>2, ShownEffects DEF Command
      <4> QED
        BY <4>1, <4>2, <4>3
    <3>3. Shown(c) \in SUBSET Effects
      BY <1>2, ShownEffects DEF Command
    <3>4. \A d \in Devices : mirror'[d].shows \subseteq
            mirror[d].shows \cup (IF d = curr THEN Shown(c) ELSE {})
      BY <1>2, <3>1, <3>3, MirrorTypes
    <3>5. Never({"crossed", "unindexed"})' => Never({"crossed", "unindexed"}) /\ Never({"crossed"})
      BY DEF Never
    <3>6. NothingInvented'
      BY <1>1, <3>2, <3>4, <3>5 DEF NothingInvented, CoverInv
    <3> QED
      BY <2>2, <3>6 DEF CoverInv
  <2>4. CASE ~Applies(c)
    <3>1. mirror' = mirror
      BY <1>3, <2>4 DEF EditAnswered
    <3>2. NothingInvented'
      BY <1>1, <3>1, NeverBefore DEF NothingInvented, CoverInv
    <3> QED
      BY <2>2, <3>2 DEF CoverInv
  <2> QED
    BY <2>3, <2>4
<1>4. ASSUME Finalize(c, {}), await # None PROVE CoverInv'
  BY <1>1, <1>4, CoverFinalize
<1>5. ASSUME pend' = pend \ {c}, UNCHANGED <<mirror, cmd>> PROVE CoverInv'
  BY <1>1, <1>5, NeverBefore
     DEF CoverInv, ListsCovered, OkIsDone, LastIsPending, NothingInvented
<1> QED
  BY <1>3, <1>4, <1>5 DEF Answered, AddAnswered, TakenForAdd

(* A command is sent, while none is under way or with the mark of one.     *)
LEMMA CoverSend ==
  ASSUME TypeInv, CoverInv, hist \subseteq hist', NEW e \in Sendable, Send(e),
         UNCHANGED <<curr, local, nas, mirror, tmp>>
  PROVE  CoverInv'
<1> DEFINE new == [dev |-> curr, of |-> e, local |-> local, st |-> "sent"]
<1>1. /\ pend' = pend \cup {new}
      /\ cmd' = IF local THEN e ELSE cmd
      /\ (pend = {} /\ local) \/ "crossed" \in hist'
  BY DEF Send, Sent, Happened
<1>2. new.st = "sent" /\ new.dev = curr /\ new.of = e
  OBVIOUS
<1> HIDE DEF new
<1>3. OkIsDone' /\ ListsCovered' /\ NothingInvented'
  BY <1>1, <1>2, NeverBefore DEF CoverInv, OkIsDone, ListsCovered, NothingInvented
<1>4. LastIsPending'
  <2>1. Never({"crossed"})' => pend' = {new} /\ cmd' = e
    BY <1>1 DEF Never
  <2>2. Never({"crossed"})' => \A x \in pend' : x = new
    BY <2>1
  <2> QED
    BY <1>2, <2>1, <2>2 DEF LastIsPending
<1> QED
  BY <1>3, <1>4 DEF CoverInv

LEMMA CoverServe ==
  ASSUME TypeInv, CoverInv, hist \subseteq hist', NEW c \in pend, NEW ok \in BOOLEAN,
         Serve(c, ok)
  PROVE  CoverInv'
<1> DEFINE new == [c EXCEPT !.st = IF ok THEN "ok" ELSE "refused"]
<1>1. /\ pend' = (pend \ {c}) \cup {new}
      /\ nas' = IF ok THEN [nas EXCEPT ![c.dev] = nas[c.dev] \cup ({c.of} \cap Effects)]
                ELSE nas
      /\ UNCHANGED <<curr, mirror, tmp, cmd, hist>>
  BY DEF Serve
<1>2. c \in Command /\ nas \in [Devices -> SUBSET Effects] /\ pend \subseteq Command
  BY DEF TypeInv, TypeOK
<1>3. new.of = c.of /\ new.dev = c.dev /\ (new.st = "ok" => ok)
  BY <1>2 DEF Command
<1> HIDE DEF new
<1>4. c.dev \in Devices /\ \A x \in pend : x.dev \in Devices
  BY <1>2 DEF Command
<1>5. \A d \in Devices : nas[d] \subseteq nas'[d]
  BY <1>1, <1>2, <1>4
<1>6. ok /\ c.of \in Edits => c.of \in nas'[c.dev]
  BY <1>1, <1>2, <1>4, KindsApart
<1>7. ListsCovered' /\ NothingInvented'
  BY <1>1, <1>5 DEF CoverInv, ListsCovered, NothingInvented, Never
<1>8. OkIsDone'
  <2>1. ASSUME NEW x \in pend', x.st = "ok", x.of \in Edits PROVE x.of \in nas'[x.dev]
    <3>1. CASE x = new
      BY <1>3, <1>6, <2>1, <3>1
    <3>2. CASE x \in pend
      BY <1>4, <1>5, <2>1, <3>2 DEF CoverInv, OkIsDone
    <3> QED
      BY <1>1, <2>1, <3>1, <3>2
  <2> QED
    BY <2>1 DEF OkIsDone
<1>9. LastIsPending'
  <2>1. SUFFICES ASSUME Never({"crossed"})'
                 PROVE  pend' = {new} /\ c.dev = curr /\ (c.of \in Edits => cmd = c.of)
    BY <1>1, <1>3 DEF LastIsPending
  <2>2. Never({"crossed"})
    BY <2>1, NeverBefore
  <2> QED
    BY <1>1, <2>2 DEF CoverInv, LastIsPending
<1> QED
  BY <1>7, <1>8, <1>9 DEF CoverInv

LEMMA CoverAround ==
  ASSUME TypeInv, CoverInv, hist \subseteq hist',
         Crash \/ \E d \in Devices, loc \in BOOLEAN : IntoDevice(d, loc)
  PROVE  CoverInv'
<1>1. CASE Crash
  <2>1. mirror \in [Devices -> Mirror]
    BY DEF TypeInv, TypeOK
  <2>2. mirror' = mirror \/ mirror' = [mirror EXCEPT ![curr] = Blank]
    BY <1>1 DEF Crash
  <2>3. \A d \in Devices : mirror'[d].shows \subseteq mirror[d].shows
    BY <2>1, <2>2 DEF Blank
  <2>4. pend' = {} /\ UNCHANGED <<nas, tmp>>
    BY <1>1 DEF Crash
  <2> QED
    BY <2>3, <2>4, NeverBefore
       DEF CoverInv, ListsCovered, OkIsDone, LastIsPending, NothingInvented
<1>2. ASSUME NEW d \in Devices, NEW loc \in BOOLEAN, IntoDevice(d, loc) PROVE CoverInv'
  <2>1. /\ UNCHANGED <<nas, mirror, tmp, pend, cmd>> /\ curr' = d
        /\ curr = d \/ pend = {} \/ "crossed" \in hist'
    BY <1>2 DEF IntoDevice
  <2>2. LastIsPending'
    BY <2>1, NeverBefore DEF CoverInv, LastIsPending, Never
  <2> QED
    BY <2>1, <2>2, NeverBefore DEF CoverInv, ListsCovered, OkIsDone, NothingInvented
<1> QED
  BY <1>1, <1>2

LEMMA CoverStep == TypeInv /\ CoverInv /\ [Next]_vars => CoverInv'
<1> SUFFICES ASSUME TypeInv, CoverInv, [Next]_vars PROVE CoverInv'
  OBVIOUS
<1>0. hist \subseteq hist'
  BY TypeStep
<1>1. CASE Moves
  BY <1>0, <1>1, CoverMoves
<1>2. ASSUME NEW c \in pend, Answered(c) PROVE CoverInv'
  BY <1>0, <1>2, CoverAnswered
<1>3. ASSUME NEW c \in pend, CommandFails(c) PROVE CoverInv'
  <2>1. UNCHANGED <<curr, nas, tmp>>
    BY <1>3 DEF CommandFails
  <2>2. CASE await # None /\ Finalize(c, {"failed"})
    BY <1>0, <2>1, <2>2, CoverFinalize
  <2>3. CASE pend' = pend \ {c} /\ UNCHANGED <<mirror, cmd>>
    BY <1>0, <2>1, <2>3, NeverBefore
       DEF CoverInv, ListsCovered, OkIsDone, LastIsPending, NothingInvented
  <2> QED
    BY <1>3, <2>2, <2>3 DEF CommandFails
<1>4. ASSUME NEW c \in pend, NEW ok \in BOOLEAN, Serve(c, ok) PROVE CoverInv'
  BY <1>0, <1>4, CoverServe
<1>5. ASSUME NEW e \in Edits, SendEdit(e) PROVE CoverInv'
  <2>1. e \in Sendable
    BY DEF Sendable
  <2> QED
    BY <1>0, <1>5, <2>1, CoverSend DEF SendEdit
<1>6. ASSUME NEW n \in Uploads, SendAdd(n) PROVE CoverInv'
  <2>1. <<"add", n>> \in Sendable
    BY DEF Sendable, Adds
  <2> QED
    BY <1>0, <1>6, <2>1, CoverSend DEF SendAdd
<1>7. CASE Crash \/ \E d \in Devices, loc \in BOOLEAN : IntoDevice(d, loc)
  BY <1>0, <1>7, CoverAround
<1>8. CASE UNCHANGED vars
  BY <1>8 DEF vars, commands, CoverInv, ListsCovered, OkIsDone, LastIsPending,
              NothingInvented, Never
<1> QED
  BY <1>1, <1>2, <1>3, <1>4, <1>5, <1>6, <1>7, <1>8 DEF Next, Works, Moves

LEMMA CoverInit == Init => CoverInv
BY DEF Init, CoverInv, ListsCovered, OkIsDone, LastIsPending, NothingInvented, Blank, NoFile

(***************************************************************************)
(* A mirror shows nothing that its NAS has not carried out, as long as no  *)
(* commands cross and no upload is given up (dbFiles.cpp,                  *)
(* cmdServiceDataFinished and applyOptimisticLocalUpdate).                 *)
(***************************************************************************)
THEOREM NothingIsInvented == Spec => []NothingInvented
<1>1. Spec => [](TypeInv /\ CoverInv)
  BY TypeInit, TypeStep, CoverInit, CoverStep, PTL DEF Spec
<1>2. CoverInv => NothingInvented
  BY DEF CoverInv
<1> QED
  BY <1>1, <1>2, PTL
-----------------------------------------------------------------------------
(* What a mirror shows it goes on to show *)

(***************************************************************************)
(* A list that has begun to come shows what its mirror shows: it began     *)
(* with all the NAS had carried out, which covers the mirror, and what was *)
(* written meanwhile makes it stale.                                       *)
(***************************************************************************)
Trouble == {"overlap", "cut", "crossed", "unindexed", "stale"}

Calm == Never(Trouble \cup {"crash"})

Coming(d) == tmp[d].size \in {"part", "full"}

ListsKeepUp ==
  Calm => \A d \in Devices : Coming(d) => mirror[d].shows \subseteq tmp[d].shows

LEMMA CalmBefore ==
  ASSUME hist \subseteq hist', Calm' PROVE Calm
BY DEF Calm, Never

LEMMA CalmMeans == Calm => Undisturbed /\ Never({"crossed", "unindexed"})
BY DEF Calm, Trouble, Undisturbed, Never

(* What the mirrors and the lists on their way do in one step: the mirrors *)
(* only grow, and what they grow by is in the list or makes it stale.      *)
LEMMA KeepsUp ==
  ASSUME TypeInv, WholeInv, CoverInv, ListsKeepUp, Calm, Next, "crash" \notin hist'
  PROVE  /\ \A d \in Devices : mirror[d].shows \subseteq mirror'[d].shows
         /\ "stale" \notin hist' =>
              \A d \in Devices : Coming(d)' => mirror'[d].shows \subseteq tmp'[d].shows
<1> DEFINE Grows == \A d \in Devices : mirror[d].shows \subseteq mirror'[d].shows
           Keeps == \A d \in Devices : Coming(d)' => mirror'[d].shows \subseteq tmp'[d].shows
<1> SUFFICES Grows /\ ("stale" \notin hist' => Keeps)
  OBVIOUS
<1>0. /\ mirror \in [Devices -> Mirror] /\ tmp \in [Devices -> Temp]
      /\ Undisturbed /\ OneDownload
      /\ \A d \in Devices : Coming(d) => mirror[d].shows \subseteq tmp[d].shows
      /\ \A d \in Devices : mirror[d].shows \subseteq nas[d]
      /\ cmd \in Sendable \cup {NoCmd} /\ pend \subseteq Command /\ await \in Uploads \cup {None}
  BY CalmMeans DEF ListsKeepUp, WholeInv, CoverInv, NothingInvented, TypeInv, TypeOK
<1>a. ASSUME mirror' = mirror, tmp' = tmp PROVE Grows /\ Keeps
  BY <1>0, <1>a DEF Coming
<1>b. ASSUME mirror' = mirror, NEW d, NEW f \in {NewFile, NoFile},
             tmp' = [tmp EXCEPT ![d] = f]
      PROVE  Grows /\ Keeps
  BY <1>0, <1>b DEF Coming, NewFile, NoFile
<1>c. ASSUME UpdateDbFile, mirror' = mirror PROVE Grows /\ Keeps
  BY <1>b, <1>c DEF UpdateDbFile
<1>d. ASSUME DownloadFinished, tmp[curr].size # "part" PROVE Grows /\ Keeps
  <2>1. /\ mirror' = [mirror EXCEPT ![curr] = Replaced(mirror[curr], tmp[curr])]
        /\ tmp' = [tmp EXCEPT ![curr] = NoFile]
    BY <1>d DEF DownloadFinished
  <2>2. curr \in Devices => mirror[curr].shows \subseteq Replaced(mirror[curr], tmp[curr]).shows
    BY <1>0, <1>d DEF Replaced, Temp, Coming
  <2> QED
    BY <1>0, <2>1, <2>2 DEF Coming, NoFile
<1>e. ASSUME NEW E \in SUBSET Effects,
             mirror' = [mirror EXCEPT ![curr] = With(mirror[curr], E)], tmp' = tmp
      PROVE  Grows /\ (~Missed(E) => Keeps)
  <2>1. \A d \in Devices : /\ mirror[d].shows \subseteq mirror'[d].shows
                           /\ mirror'[d].shows \subseteq mirror[d].shows \cup E
                           /\ d # curr => mirror'[d] = mirror[d]
    BY <1>0, <1>e, MirrorTypes
  <2> QED
    BY <1>0, <1>e, <2>1 DEF Missed, Coming
<1>1. CASE TimerFires
  BY <1>c, <1>1 DEF TimerFires, TimerUpdates
<1>2. CASE Refresh
  BY <1>c, <1>2 DEF Refresh
<1>3. CASE Progress
  <2>1. PICK d \in Written :
          tmp' = [tmp EXCEPT ![d] = Grown(d)] /\ mirror' = mirror
    BY <1>3 DEF Progress
  <2>2. d \in Devices
    BY DEF Written, TypeInv, TypeOK, Download
  <2>3. mirror[d].shows \subseteq Grown(d).shows
    BY <1>0, <2>2 DEF Grown, Coming, Temp
  <2> QED
    BY <1>0, <2>1, <2>2, <2>3 DEF Coming
<1>4. CASE OldReplyEnds \/ TakeEnd \/ \E ok \in BOOLEAN : ReplyEnds(ok)
  <2>1. CASE DownloadFinished
    <3>1. CASE curr \in Devices
      <4>1. tmp[curr].size # "part"
        BY <1>0, <1>4, <2>1, <3>1, TakenIsWhole
      <4> QED
        BY <1>d, <2>1, <4>1
    <3>2. CASE curr \notin Devices
      <4>1. mirror' = mirror /\ tmp' = tmp
        BY <1>0, <2>1, <3>2 DEF DownloadFinished
      <4> QED
        BY <1>a, <4>1
    <3> QED
      BY <3>1, <3>2
  <2>2. CASE NoFinish
    BY <1>a, <2>2 DEF NoFinish
  <2> QED
    BY <1>4, <2>1, <2>2 DEF OldReplyEnds, TakeEnd, ReplyEnds
<1>5. ASSUME NEW how \in {"list", "empty", "terminated"}, LibEnds(how) PROVE Grows /\ Keeps
  <2>1. mirror' = mirror /\ (tmp' = tmp \/ tmp' = [tmp EXCEPT ![get.lib] = NewFile])
    BY <1>5 DEF LibEnds
  <2> QED
    BY <1>a, <1>b, <2>1
<1>6. ASSUME NEW c \in pend, Answered(c) \/ CommandFails(c)
      PROVE  Grows /\ ("stale" \notin hist' => Keeps)
  <2>1. tmp' = tmp /\ c.of \in Sendable
    BY <1>0, <1>6 DEF Answered, CommandFails, Command
  <2>2. CASE mirror' = mirror
    BY <1>a, <2>1, <2>2
  <2>3. CASE EditAnswered(c) /\ mirror' # mirror
    <3>1. /\ mirror' = [mirror EXCEPT ![curr] = With(mirror[curr], Shown(c))]
          /\ Happened("stale", Missed(Shown(c)))
      BY <2>3 DEF EditAnswered
    <3>2. Shown(c) \in SUBSET Effects
      BY <1>0, <2>1, ShownEffects
    <3>3. Missed(Shown(c)) => "stale" \in hist'
      BY <3>1 DEF Happened
    <3> QED
      BY <1>e, <2>1, <3>1, <3>2, <3>3
  <2>4. ASSUME NEW failures, Finalize(c, failures), await # None
        PROVE  Grows /\ ("stale" \notin hist' => Keeps)
    <3> DEFINE E == {<<"add", await>>}
    <3>1. /\ mirror' = [mirror EXCEPT ![curr] = With(mirror[curr], E)]
          /\ Missed(E) => "stale" \in hist'
      BY <2>4 DEF Finalize
    <3>2. E \in SUBSET Effects
      BY <1>0, <2>4 DEF Effects, Adds
    <3> QED
      BY <1>e, <2>1, <3>1, <3>2
  <2> QED
    BY <1>6, <2>2, <2>3, <2>4 DEF Answered, AddAnswered, TakenForAdd, CommandFails
<1>7. ASSUME NEW c \in pend, NEW ok \in BOOLEAN, Serve(c, ok)
      PROVE  Grows /\ Keeps
  BY <1>a, <1>7 DEF Serve
<1>8. ASSUME (\E e \in Edits : SendEdit(e)) \/ (\E n \in Uploads : SendAdd(n))
             \/ \E d \in Devices, loc \in BOOLEAN : IntoDevice(d, loc)
      PROVE  Grows /\ Keeps
  BY <1>a, <1>8 DEF SendEdit, SendAdd, IntoDevice
<1>9. ~Crash
  BY DEF Crash, Happened
<1> HIDE DEF Grows, Keeps
<1> QED
  BY <1>1, <1>2, <1>3, <1>4, <1>5, <1>6, <1>7, <1>8, <1>9 DEF Next, Works

LEMMA KeepsUpStep ==
  TypeInv /\ WholeInv /\ CoverInv /\ ListsKeepUp /\ [Next]_vars => ListsKeepUp'
<1> SUFFICES ASSUME TypeInv, WholeInv, CoverInv, ListsKeepUp, [Next]_vars, Calm'
             PROVE  ListsKeepUp'
  BY DEF ListsKeepUp
<1>1. Calm
  BY TypeStep, CalmBefore
<1>2. "crash" \notin hist' /\ "stale" \notin hist'
  BY DEF Calm, Trouble, Never
<1>3. CASE Next
  BY <1>1, <1>2, <1>3, KeepsUp DEF ListsKeepUp
<1>4. CASE UNCHANGED vars
  BY <1>1, <1>4 DEF ListsKeepUp, Coming, vars
<1> QED
  BY <1>3, <1>4

(* EditsStay in one step.                                                  *)
LEMMA StaysStep ==
  TypeInv /\ WholeInv /\ CoverInv /\ ListsKeepUp /\ [Next]_vars =>
    [Never(Trouble) /\ "crash" \notin hist' =>
       \A d \in Devices : mirror[d].shows \subseteq mirror'[d].shows]_vars
<1> SUFFICES ASSUME TypeInv, WholeInv, CoverInv, ListsKeepUp, Next,
                    Never(Trouble), "crash" \notin hist'
             PROVE  \A d \in Devices : mirror[d].shows \subseteq mirror'[d].shows
  OBVIOUS
<1>1. hist \subseteq hist'
  BY TypeStep
<1>2. Calm
  BY <1>1 DEF Calm, Never
<1> QED
  BY <1>2, KeepsUp

LEMMA KeepsUpInit == Init => ListsKeepUp
BY DEF Init, ListsKeepUp, Coming, NoFile

(***************************************************************************)
(* What a mirror shows it goes on to show, unless a list that was on its   *)
(* way replaces it, or one of the other events happened (dbFiles.cpp:      *)
(* "Keep optimistic local edits visible even when NAS mirror re-download   *)
(* fails.").                                                               *)
(***************************************************************************)
THEOREM EditsStayShown == Spec => EditsStay
<1>1. Spec => [](TypeInv /\ WholeInv /\ CoverInv /\ ListsKeepUp)
  BY TypeInit, TypeStep, WholeInit, WholeStep, CoverInit, CoverStep,
     KeepsUpInit, KeepsUpStep, PTL DEF Spec
<1>2. TypeInv /\ WholeInv /\ CoverInv /\ ListsKeepUp /\ [Next]_vars =>
        [Never({"overlap", "cut", "crossed", "unindexed", "stale"}) /\ "crash" \notin hist' =>
           \A d \in Devices : mirror[d].shows \subseteq mirror'[d].shows]_vars
  BY StaysStep DEF Trouble
<1> QED
  BY <1>1, <1>2, PTL DEF Spec, EditsStay

-----------------------------------------------------------------------------
(* What a quiet mirror shows *)

Quiet == ~timer /\ pend = {} /\ ~Downloading

Smooth == Never({"overlap", "cut", "left", "swallowed", "failed", "crash"})

(***************************************************************************)
(* With nothing left to come, no timer, command or download, the mirror    *)
(* shows all that the NAS has carried out for the user, unless something   *)
(* failed, was taken for something else, overlapped, was cut or left       *)
(* (dbFiles.cpp, cmdServiceDataFinished and updateDatabase).  CatchesUp    *)
(* rests on it.                                                            *)
(***************************************************************************)
QuietShowsAll ==
  Smooth /\ Quiet =>
    \A d \in Devices, e \in Edits : e \in nas[d] => e \in mirror[d].shows

Fetching == get.reply = "running" \/ get.lib # None

\* What will make the mirror show e, or does so.
Sought(e) ==
  \/ timer
  \/ \E c \in pend : c.of = e /\ c.st = "ok"
  \/ Fetching /\ (Coming(curr) => e \in tmp[curr].shows)
  \/ get.ends > 0 /\ e \in tmp[curr].shows
  \/ ~Downloading /\ e \in mirror[curr].shows

OnlyHere ==
  /\ \A d \in Devices : d # curr => nas[d] \cap Edits = {}
  /\ \A c \in pend : c.dev = curr

EndIsWhole ==
  get.ends > 0 => get.ends = 1 /\ get.lib = None /\ tmp[curr].size = "full"

AllSought == curr # None => \A e \in Edits : e \in nas[curr] => Sought(e)

CatchInv == Smooth => OnlyHere /\ EndIsWhole /\ AllSought

LEMMA SmoothMeans == Smooth => Undisturbed
BY DEF Smooth, Undisturbed, Never

(* What is sought stays so while no download begins or ends.               *)
LEMMA SoughtStays ==
  ASSUME NEW e, Sought(e), UNCHANGED <<curr, tmp, get>>,
         timer => timer',
         \A c \in pend : c.of = e /\ c.st = "ok" =>
           timer' \/ \E b \in pend' : b.of = e /\ b.st = "ok",
         mirror[curr].shows \subseteq mirror'[curr].shows
  PROVE  Sought(e)'
BY DEF Sought, Fetching, Coming, Downloading

LEMMA FetchSeeks ==
  ASSUME TypeInv, OnlyHere, UpdateDbFile, "overlap" \notin hist',
         UNCHANGED <<curr, nas, pend>>
  PROVE  OnlyHere' /\ EndIsWhole' /\ AllSought'
<1>0. get \in Download /\ tmp \in [Devices -> Temp] /\ curr \in Devices \cup {None}
  BY DEF TypeInv, TypeOK
<1>1. ~(get.ends > 0)
  BY DEF UpdateDbFile, Happened
<1>2. get' = IF local
               THEN [get EXCEPT !.reply = "running", !.file = curr,
                                !.old = IF get.reply = "running" THEN get.old + 1 ELSE get.old]
               ELSE [get EXCEPT !.lib = curr,
                                !.file = IF get.file = curr THEN None ELSE get.file]
  BY DEF UpdateDbFile
<1>3. get'.ends = get.ends /\ (local => get'.reply = "running")
      /\ (~local => get'.lib = curr)
  BY <1>0, <1>2 DEF Download
<1>4. ASSUME curr # None PROVE Fetching' /\ ~Coming(curr)'
  <2>1. Fetching'
    BY <1>3, <1>4 DEF Fetching
  <2>2. tmp'[curr] \in {NewFile, NoFile}
    BY <1>0, <1>4 DEF UpdateDbFile
  <2>3. curr' = curr /\ ~(tmp'[curr].size \in {"part", "full"})
    BY <2>2 DEF NewFile, NoFile
  <2> QED
    BY <2>1, <2>3 DEF Coming
<1>5. AllSought'
  BY <1>4 DEF AllSought, Sought
<1>6. OnlyHere'
  BY DEF OnlyHere
<1> QED
  BY <1>1, <1>3, <1>5, <1>6 DEF EndIsWhole

LEMMA GrownSeeks ==
  ASSUME TypeInv, OneDownload, OnlyHere, AllSought, Progress
  PROVE  OnlyHere' /\ EndIsWhole' /\ AllSought'
<1>0. /\ get \in Download /\ tmp \in [Devices -> Temp]
      /\ UNCHANGED <<curr, nas, mirror, pend, timer, get>>
  BY DEF TypeInv, TypeOK, Progress, commands
<1>1. PICK d \in Written : tmp' = [tmp EXCEPT ![d] = Grown(d)] /\ tmp[d].size # "full"
  BY DEF Progress
<1>2. d = curr /\ d \in Devices /\ Fetching /\ ~(get.ends > 0)
  BY <1>0 DEF Written, OneDownload, Fetching, Download
<1>3. tmp'[curr] = Grown(curr) /\ Downloading
  BY <1>0, <1>1, <1>2 DEF Downloading, Fetching
<1>4. ASSUME NEW e \in Edits, e \in nas[curr] PROVE Sought(e)'
  <2>1. Sought(e)
    BY <1>2, <1>4, NoneIsNothing DEF AllSought
  <2>2. CASE timer \/ \E c \in pend : c.of = e /\ c.st = "ok"
    BY <1>0, <2>2 DEF Sought
  <2>3. CASE Fetching /\ (Coming(curr) => e \in tmp[curr].shows)
    <3>1. e \in Grown(curr).shows
      BY <1>0, <1>2, <1>4, <2>3 DEF Grown, Coming, Temp
    <3> QED
      BY <1>0, <1>2, <1>3, <3>1 DEF Sought, Fetching
  <2> QED
    BY <1>2, <1>3, <2>1, <2>2, <2>3 DEF Sought
<1>5. AllSought'
  BY <1>0, <1>4 DEF AllSought
<1>6. OnlyHere'
  BY <1>0 DEF OnlyHere
<1> QED
  BY <1>0, <1>2, <1>5, <1>6 DEF EndIsWhole

(* A download that ends well has all that was sought in it.                *)
LEMMA TakenSeeks ==
  ASSUME TypeInv, OnlyHere, AllSought, DownloadFinished, Downloading,
         UNCHANGED <<curr, nas, pend, timer>>,
         curr # None => tmp[curr].size = "full", ~Downloading'
  PROVE  OnlyHere' /\ EndIsWhole' /\ AllSought'
<1>0. /\ mirror \in [Devices -> Mirror] /\ tmp \in [Devices -> Temp]
      /\ curr \in Devices \cup {None}
  BY DEF TypeInv, TypeOK
<1>1. ASSUME curr # None, NEW e \in Edits, e \in nas[curr] PROVE Sought(e)'
  <2>1. Sought(e) /\ Coming(curr)
    BY <1>1 DEF AllSought, Coming
  <2>2. timer \/ (\E c \in pend : c.of = e /\ c.st = "ok") \/ e \in tmp[curr].shows
    BY <2>1 DEF Sought
  <2>3. mirror'[curr] = Replaced(mirror[curr], tmp[curr])
    BY <1>0, <1>1 DEF DownloadFinished
  <2>4. Replaced(mirror[curr], tmp[curr]) = [st |-> "whole", shows |-> tmp[curr].shows]
    BY <1>1 DEF Replaced
  <2>5. mirror'[curr].shows = tmp[curr].shows
    BY <2>3, <2>4
  <2> QED
    BY <2>2, <2>5 DEF Sought
<1>2. AllSought'
  BY <1>1 DEF AllSought
<1>3. OnlyHere'
  BY DEF OnlyHere
<1>4. EndIsWhole'
  BY DEF EndIsWhole, Downloading
<1> QED
  BY <1>2, <1>3, <1>4

(* An answer to an edit sets the timer; one that is taken for the answer   *)
(* to add_one_file is one.                                                 *)
LEMMA AnsweredSeeks ==
  ASSUME TypeInv, OnlyHere, EndIsWhole, AllSought, NEW c \in pend, Answered(c),
         "swallowed" \notin hist'
  PROVE  OnlyHere' /\ EndIsWhole' /\ AllSought'
<1>0. /\ mirror \in [Devices -> Mirror] /\ curr \in Devices /\ c.dev = curr
      /\ c.of \in Sendable /\ UNCHANGED <<curr, local, nas, tmp, get>>
      /\ cmd \in Sendable \cup {NoCmd} /\ await \in Uploads \cup {None}
  BY DEF TypeInv, TypeOK, Command, OnlyHere, Answered
<1>1. EndIsWhole'
  BY <1>0 DEF EndIsWhole
<1>2. ASSUME timer', pend' = pend \ {c} PROVE OnlyHere' /\ AllSought'
  BY <1>0, <1>2 DEF OnlyHere, AllSought, Sought
<1>3. ASSUME ~(c.of \in Edits /\ c.st = "ok"), timer' = timer,
             pend \ {c} \subseteq pend', \A b \in pend' : b \in pend \/ b.dev = curr,
             mirror[curr].shows \subseteq mirror'[curr].shows
      PROVE  OnlyHere' /\ AllSought'
  <2>1. OnlyHere'
    BY <1>0, <1>3 DEF OnlyHere
  <2>2. ASSUME NEW e \in Edits, e \in nas[curr] PROVE Sought(e)'
    <3>1. Sought(e)
      BY <1>0, <2>2, NoneIsNothing DEF AllSought
    <3>2. \A b \in pend : b.of = e /\ b.st = "ok" => b \in pend'
      BY <1>3, <2>2
    <3> QED
      BY <1>0, <1>3, <3>1, <3>2, SoughtStays
  <2> QED
    BY <1>0, <2>1, <2>2 DEF AllSought
<1>4. ASSUME NEW E \in SUBSET Effects,
             mirror' = [mirror EXCEPT ![curr] = With(mirror[curr], E)]
      PROVE  mirror[curr].shows \subseteq mirror'[curr].shows
  BY <1>0, <1>4, MirrorTypes
<1>5. CASE ~TakenForAdd(c) /\ Applies(c)
  BY <1>1, <1>2, <1>5 DEF Answered, EditAnswered
<1>6. CASE ~TakenForAdd(c) /\ ~Applies(c)
  <2>1. mirror' = mirror /\ timer' = timer /\ pend' = pend \ {c}
    BY <1>6 DEF Answered, EditAnswered
  <2> QED
    BY <1>1, <1>3, <1>6, <2>1 DEF Applies
<1>7. CASE TakenForAdd(c)
  <2>1. AddAnswered(c) /\ await # None /\ timer' = timer
    BY <1>7 DEF Answered, TakenForAdd, AddAnswered
  <2>2. CASE Finalize(c, {})
    <3>1. c.of \in Adds
      BY <2>2 DEF Finalize
    <3>2. c.of \notin Edits
      BY <3>1, KindsApart
    <3>3. {<<"add", await>>} \in SUBSET Effects
      BY <1>0, <2>1 DEF Effects, Adds
    <3>4. mirror' = [mirror EXCEPT ![curr] = With(mirror[curr], {<<"add", await>>})]
      BY <2>2 DEF Finalize
    <3>5. pend' = (pend \ {c}) \cup {[dev |-> curr, of |-> DateCmd, local |-> local,
                                      st |-> "sent"]}
      BY <2>2 DEF Finalize, Sent
    <3>6. mirror[curr].shows \subseteq mirror'[curr].shows
      BY <1>4, <3>3, <3>4
    <3>7. pend \ {c} \subseteq pend' /\ \A b \in pend' : b \in pend \/ b.dev = curr
      BY <3>5
    <3> QED
      BY <1>1, <1>3, <2>1, <3>2, <3>6, <3>7
  <2>3. CASE pend' = pend \ {c} /\ mirror' = mirror /\ Happened("swallowed", c.of \notin Adds)
    <3>1. c.of \in Adds
      BY <2>3 DEF Happened
    <3>2. c.of \notin Edits
      BY <3>1, KindsApart
    <3> QED
      BY <1>1, <1>3, <2>1, <2>3, <3>2
  <2> QED
    BY <2>1, <2>2, <2>3 DEF AddAnswered
<1> QED
  BY <1>5, <1>6, <1>7

LEMMA ServedSeeks ==
  ASSUME TypeInv, OnlyHere, EndIsWhole, AllSought, NEW c \in pend, NEW ok \in BOOLEAN,
         Serve(c, ok)
  PROVE  OnlyHere' /\ EndIsWhole' /\ AllSought'
<1> DEFINE b == [c EXCEPT !.st = IF ok THEN "ok" ELSE "refused"]
<1>0. /\ nas \in [Devices -> SUBSET Effects] /\ curr \in Devices /\ c.dev = curr
      /\ c.st = "sent" /\ UNCHANGED <<curr, mirror, tmp, timer, get>>
      /\ pend' = (pend \ {c}) \cup {b}
  BY DEF TypeInv, TypeOK, Command, OnlyHere, Serve
<1>1. b.dev = curr /\ b.of = c.of /\ (ok => b.st = "ok")
  BY <1>0 DEF TypeInv, TypeOK, Command
<1> HIDE DEF b
<1>2. \A d \in Devices : d # curr => nas'[d] = nas[d]
  BY <1>0 DEF Serve
<1>3. nas'[curr] = nas[curr] \/ (ok /\ nas'[curr] \subseteq nas[curr] \cup {c.of})
  BY <1>0 DEF Serve
<1>4. EndIsWhole'
  BY <1>0 DEF EndIsWhole
<1>5. OnlyHere'
  BY <1>0, <1>1, <1>2 DEF OnlyHere
<1>6. ASSUME NEW e \in Edits, e \in nas'[curr] PROVE Sought(e)'
  <2>1. CASE e \in nas[curr]
    <3>1. Sought(e)
      BY <1>0, <2>1, NoneIsNothing DEF AllSought
    <3>2. \A x \in pend : x.of = e /\ x.st = "ok" => x \in pend'
      BY <1>0
    <3> QED
      BY <1>0, <3>1, <3>2, SoughtStays
  <2>2. CASE e \notin nas[curr]
    <3>1. ok /\ e = c.of
      BY <1>3, <1>6, <2>2
    <3> QED
      BY <1>0, <1>1, <3>1 DEF Sought
  <2> QED
    BY <2>1, <2>2
<1> QED
  BY <1>0, <1>4, <1>5, <1>6 DEF AllSought

LEMMA CatchInit == Init => CatchInv
<1> SUFFICES ASSUME Init PROVE OnlyHere /\ EndIsWhole /\ AllSought
  BY DEF CatchInv
<1>1. get.ends = 0
  BY DEF Init, Idle
<1> QED
  BY <1>1 DEF Init, OnlyHere, EndIsWhole, AllSought

LEMMA CatchStep == TypeInv /\ WholeInv /\ CatchInv /\ [Next]_vars => CatchInv'
<1> SUFFICES ASSUME TypeInv, WholeInv, CatchInv, [Next]_vars, Smooth'
             PROVE  OnlyHere' /\ EndIsWhole' /\ AllSought'
  BY DEF CatchInv
<1>0. hist \subseteq hist' /\ Smooth /\ OneDownload
  BY TypeStep, NeverBefore, SmoothMeans DEF Smooth, WholeInv
<1>1. OnlyHere /\ EndIsWhole /\ AllSought
  BY <1>0 DEF CatchInv
<1>2. /\ get \in Download /\ tmp \in [Devices -> Temp] /\ curr \in Devices \cup {None}
      /\ (pend # {} => curr # None)
  BY DEF TypeInv, TypeOK
<1>3. /\ "overlap" \notin hist' /\ "cut" \notin hist' /\ "left" \notin hist'
      /\ "swallowed" \notin hist' /\ "failed" \notin hist' /\ "crash" \notin hist'
  BY DEF Smooth, Never
<1>4. CASE TimerFires \/ Refresh
  <2>1. UpdateDbFile /\ UNCHANGED <<curr, nas, pend>>
    BY <1>4 DEF TimerFires, TimerUpdates, Refresh, commands
  <2> QED
    BY <1>1, <1>3, <2>1, FetchSeeks
<1>5. CASE Progress
  BY <1>0, <1>1, <1>5, GrownSeeks
<1>6. ASSUME NEW ok \in BOOLEAN, ReplyEnds(ok) PROVE OnlyHere' /\ EndIsWhole' /\ AllSought'
  <2>1. ok
    BY <1>3, <1>6 DEF ReplyEnds, Happened
  <2>2. /\ get.reply = "running" /\ local /\ get.file = curr /\ get.lib = None
        /\ get.ends = 0 /\ get.old = 0 /\ Downloading
    BY <1>0, <1>6 DEF ReplyEnds, OneDownload, Downloading
  <2>3. DownloadFinished /\ UNCHANGED <<curr, nas, pend, timer>>
    BY <1>6, <2>1 DEF ReplyEnds, Succeeds, commands
  <2>4. curr # None => tmp[curr].size = "full"
    BY <1>6, <2>1, <2>2 DEF ReplyEnds
  <2>5. get'.reply = "freed" /\ get'.old = 0 /\ get'.lib = None /\ get'.ends = 0
    BY <1>2, <1>6, <2>2 DEF ReplyEnds, Download
  <2>6. ~Downloading'
    BY <2>5 DEF Downloading
  <2> QED
    BY <1>1, <2>2, <2>3, <2>4, <2>6, TakenSeeks
<1>7. CASE OldReplyEnds
  BY <1>0, <1>7 DEF OldReplyEnds, OneDownload
<1>8. ASSUME NEW how \in {"list", "empty", "terminated"}, LibEnds(how)
      PROVE  OnlyHere' /\ EndIsWhole' /\ AllSought'
  <2>1. how = "list" /\ ~local
    BY <1>3, <1>8 DEF LibEnds, Happened
  <2>2. /\ get.lib = curr /\ curr \in Devices /\ get.ends = 0 /\ get.reply # "running"
        /\ Downloading
    BY <1>0, <1>2, <1>8 DEF LibEnds, OneDownload, Downloading
  <2>3. /\ tmp' = tmp /\ tmp[curr].size = "full"
        /\ UNCHANGED <<curr, nas, mirror, pend, timer>>
    BY <1>8, <2>1, <2>2 DEF LibEnds, commands
  <2>4. get'.ends = 1 /\ get'.lib = None
    BY <1>2, <1>8, <2>1, <2>2 DEF LibEnds, Download
  <2>5. ASSUME NEW e \in Edits, e \in nas[curr] PROVE Sought(e)'
    <3>1. Sought(e)
      BY <1>1, <2>2, <2>5, NoneIsNothing DEF AllSought
    <3>2. timer \/ (\E c \in pend : c.of = e /\ c.st = "ok") \/ e \in tmp[curr].shows
      BY <2>2, <2>3, <3>1 DEF Sought, Coming
    <3> QED
      BY <2>3, <2>4, <3>2 DEF Sought
  <2>6. AllSought'
    BY <2>3, <2>5 DEF AllSought
  <2>7. OnlyHere' /\ EndIsWhole'
    BY <1>1, <2>3, <2>4 DEF OnlyHere, EndIsWhole
  <2> QED
    BY <2>6, <2>7
<1>9. CASE TakeEnd
  <2>1. /\ get.ends > 0 /\ get' = [get EXCEPT !.ends = get.ends - 1]
        /\ DownloadFinished /\ UNCHANGED <<curr, nas, pend, timer>>
    BY <1>9 DEF TakeEnd, commands
  <2>2. /\ get.ends = 1 /\ get.lib = None /\ tmp[curr].size = "full"
        /\ get.reply # "running" /\ get.old = 0 /\ Downloading
    BY <1>0, <1>1, <2>1 DEF EndIsWhole, OneDownload, Downloading
  <2>3. get'.ends = 0 /\ get'.lib = None /\ get'.reply # "running" /\ get'.old = 0
    BY <1>2, <2>1, <2>2 DEF Download
  <2>4. ~Downloading'
    BY <2>3 DEF Downloading
  <2> QED
    BY <1>1, <2>1, <2>2, <2>4, TakenSeeks
<1>10. ASSUME NEW c \in pend, Answered(c) PROVE OnlyHere' /\ EndIsWhole' /\ AllSought'
  BY <1>1, <1>3, <1>10, AnsweredSeeks
<1>11. ASSUME NEW c \in pend, CommandFails(c) PROVE FALSE
  BY <1>3, <1>11 DEF CommandFails, Finalize, Happened
<1>12. ASSUME NEW c \in pend, NEW ok \in BOOLEAN, Serve(c, ok)
       PROVE  OnlyHere' /\ EndIsWhole' /\ AllSought'
  BY <1>1, <1>12, ServedSeeks
<1>13. ASSUME (\E e \in Edits : SendEdit(e)) \/ (\E n \in Uploads : SendAdd(n))
       PROVE  OnlyHere' /\ EndIsWhole' /\ AllSought'
  <2>1. PICK e : Send(e)
    BY <1>13 DEF SendEdit, SendAdd
  <2>2. UNCHANGED <<curr, nas, mirror, tmp, timer, get>>
    BY <1>13 DEF SendEdit, SendAdd
  <2>3. pend' = pend \cup {[dev |-> curr, of |-> e, local |-> local, st |-> "sent"]}
    BY <2>1 DEF Send, Sent
  <2>4. OnlyHere' /\ EndIsWhole'
    BY <1>1, <2>2, <2>3 DEF OnlyHere, EndIsWhole
  <2>5. ASSUME NEW x \in Edits, Sought(x) PROVE Sought(x)'
    BY <2>2, <2>3, <2>5, SoughtStays
  <2> QED
    BY <1>1, <2>2, <2>4, <2>5 DEF AllSought
<1>14. ASSUME NEW d \in Devices, NEW loc \in BOOLEAN, IntoDevice(d, loc)
       PROVE  OnlyHere' /\ EndIsWhole' /\ AllSought'
  <2>1. ~Downloading /\ curr \in {d, None} /\ curr' = d
    BY <1>3, <1>14 DEF IntoDevice
  <2>2. UNCHANGED <<nas, mirror, tmp, pend, timer, get>>
    BY <1>14 DEF IntoDevice
  <2>3. ~(get.ends > 0)
    BY <2>1 DEF Downloading
  <2>4. EndIsWhole'
    BY <2>2, <2>3 DEF EndIsWhole
  <2>5. CASE curr = d
    <3>1. ASSUME NEW x \in Edits, Sought(x) PROVE Sought(x)'
      BY <2>1, <2>2, <2>5, <3>1, SoughtStays
    <3> QED
      BY <1>1, <2>1, <2>2, <2>4, <2>5, <3>1 DEF OnlyHere, AllSought
  <2>6. CASE curr = None
    <3>1. pend = {} /\ \A x \in Devices : nas[x] \cap Edits = {}
      BY <1>1, <1>2, <2>6, NoneIsNothing DEF OnlyHere
    <3> QED
      BY <2>1, <2>2, <2>4, <3>1 DEF OnlyHere, AllSought
  <2> QED
    BY <2>1, <2>5, <2>6
<1>15. ~Crash
  BY <1>3 DEF Crash, Happened
<1>16. CASE UNCHANGED vars
  BY <1>1, <1>16, SoughtStays
     DEF vars, commands, OnlyHere, EndIsWhole, AllSought
<1> QED
  BY <1>4, <1>5, <1>6, <1>7, <1>8, <1>9, <1>10, <1>11, <1>12, <1>13, <1>14, <1>15, <1>16
     DEF Next, Works

(* A quiet mirror shows all that the NAS has carried out for the user:     *)
(* whatever the order of answers, timers and downloads, over either link,  *)
(* and also when a list was stale; unless there was a fault, downloads     *)
(* crossed, or the device was left or the program ended meanwhile          *)
(* (dbFiles.cpp, updateDatabase).                                          *)
THEOREM QuietMirrorShowsAll == Spec => []QuietShowsAll
<1>1. Spec => [](TypeInv /\ WholeInv /\ CatchInv)
  BY TypeInit, TypeStep, WholeInit, WholeStep, CatchInit, CatchStep, PTL DEF Spec
<1>2. CatchInv => QuietShowsAll
  <2> SUFFICES ASSUME CatchInv, Smooth, Quiet, NEW d \in Devices, NEW e \in Edits,
                      e \in nas[d]
               PROVE  e \in mirror[d].shows
    BY DEF QuietShowsAll
  <2>1. d = curr /\ Sought(e)
    BY NoneIsNothing DEF CatchInv, OnlyHere, AllSought
  <2>2. ~timer /\ pend = {} /\ ~Downloading
    BY DEF Quiet
  <2> QED
    BY <2>1, <2>2 DEF Sought, Fetching, Downloading
<1> QED
  BY <1>1, <1>2, PTL

=============================================================================
