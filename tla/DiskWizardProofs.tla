-------------------------- MODULE DiskWizardProofs --------------------------
(***************************************************************************)
(* Proofs about DiskWizard, for any number of messages under way and any   *)
(* faults: the types, that what the wizard tells the user is so, and that  *)
(* the page of the device goes on asking.                                  *)
(***************************************************************************)
EXTENDS DiskWizard, TLAPS

-----------------------------------------------------------------------------
(* Messages *)

Bodies(c) == Answers(c) \cup {"asked", "error"}

LEMMA CommandsAre ==
  /\ Commands = {"login", "hdd", "init", "prepare", "start", "status"}
  /\ \A c \in Commands : "asked" \notin Answers(c) /\ "error" \notin Answers(c)
  BY DEF Commands, Replacing, Answers

LEMMA MessageParts ==
  ASSUME NEW m \in Message
  PROVE  /\ m.cmd \in Commands
         /\ m.old \in BOOLEAN
         /\ m.body \in Bodies(m.cmd)
         /\ m = [cmd |-> m.cmd, old |-> m.old, body |-> m.body]
<1>1. PICK c \in Commands : m \in [cmd : {c}, old : BOOLEAN, body : Bodies(c)]
  BY DEF Message, Bodies
<1> QED
  BY <1>1

LEMMA MessageOf ==
  ASSUME NEW c \in Commands, NEW o \in BOOLEAN, NEW b \in Bodies(c)
  PROVE  [cmd |-> c, old |-> o, body |-> b] \in Message
<1>1. [cmd |-> c, old |-> o, body |-> b] \in [cmd : {c}, old : BOOLEAN, body : Bodies(c)]
  OBVIOUS
<1> QED
  BY <1>1 DEF Message, Bodies

LEMMA AskedTyped ==
  ASSUME NEW c \in Commands
  PROVE  /\ Asked(c) \in Message
         /\ Asked(c).cmd = c /\ ~Asked(c).old /\ Asked(c).body = "asked"
<1>1. "asked" \in Bodies(c) /\ FALSE \in BOOLEAN
  BY DEF Bodies
<1>2. Asked(c) \in Message
  BY <1>1, MessageOf DEF Asked
<1> QED
  BY <1>2 DEF Asked

(* What becomes of a message that is answered.                             *)
LEMMA BodyTyped ==
  ASSUME NEW m \in Message, NEW b \in Answers(m.cmd) \cup {"error"}
  PROVE  /\ [m EXCEPT !.body = b] \in Message
         /\ m.body = "asked" => [m EXCEPT !.body = b] # m
         /\ [m EXCEPT !.body = b].cmd = m.cmd
         /\ [m EXCEPT !.body = b].old = m.old
         /\ [m EXCEPT !.body = b].body = b
<1>1. /\ m.cmd \in Commands /\ m.old \in BOOLEAN /\ b \in Bodies(m.cmd)
      /\ m = [cmd |-> m.cmd, old |-> m.old, body |-> m.body]
  BY MessageParts DEF Bodies
<1>2. [m EXCEPT !.body = b] = [cmd |-> m.cmd, old |-> m.old, body |-> b]
  BY <1>1
<1>3. [cmd |-> m.cmd, old |-> m.old, body |-> b] \in Message
  BY <1>1, MessageOf
<1>4. b # "asked"
  BY <1>1, CommandsAre
<1> QED
  BY <1>2, <1>3, <1>4

LEMMA AgeTyped ==
  ASSUME NEW m \in Message, NEW o \in BOOLEAN
  PROVE  /\ [m EXCEPT !.old = o] \in Message
         /\ [m EXCEPT !.old = o].cmd = m.cmd
<1>1. /\ m.cmd \in Commands /\ m.old \in BOOLEAN /\ m.body \in Bodies(m.cmd)
      /\ m = [cmd |-> m.cmd, old |-> m.old, body |-> m.body]
  BY MessageParts
<1>2. [m EXCEPT !.old = o] = [cmd |-> m.cmd, old |-> o, body |-> m.body]
  BY <1>1
<1>3. [cmd |-> m.cmd, old |-> o, body |-> m.body] \in Message
  BY <1>1, MessageOf
<1> QED
  BY <1>2, <1>3

LEMMA SendTyped ==
  ASSUME NEW n \in [Message -> Nat], NEW c \in Commands
  PROVE  /\ Send(n, c) \in [Message -> Nat]
         /\ Send(n, c)[Asked(c)] = n[Asked(c)] + 1
         /\ \A m \in Message : m # Asked(c) => Send(n, c)[m] = n[m]
         /\ \A m \in Message : n[m] > 0 => Send(n, c)[m] > 0
  BY AskedTyped DEF Send

LEMMA AgedTyped ==
  ASSUME NEW n \in [Message -> Nat]
  PROVE  /\ Aged(n) \in [Message -> Nat]
         /\ \A m \in Message : ~m.old => Aged(n)[m] = 0
         /\ \A m \in Message : n[m] > 0 =>
              \E d \in Message : d.cmd = m.cmd /\ Aged(n)[d] > 0
<1>1. \A m \in Message : Fresh(m) \in Message
  BY AgeTyped DEF Fresh
<1>2. Aged(n) \in [Message -> Nat]
  BY <1>1 DEF Aged
<1>3. \A m \in Message : ~m.old => Aged(n)[m] = 0
  BY DEF Aged
<1>4. ASSUME NEW m \in Message, n[m] > 0
      PROVE  \E d \in Message : d.cmd = m.cmd /\ Aged(n)[d] > 0
  <2>1. CASE m.old
    <3>1. Aged(n)[m] = n[m] + n[Fresh(m)] /\ n[Fresh(m)] \in Nat /\ n[m] \in Nat
      BY <1>1, <2>1 DEF Aged
    <3> QED
      BY <1>4, <3>1
  <2>2. CASE ~m.old
    <3> DEFINE d == [cmd |-> m.cmd, old |-> TRUE, body |-> m.body]
    <3>1. m.cmd \in Commands /\ m.body \in Bodies(m.cmd)
          /\ m = [cmd |-> m.cmd, old |-> FALSE, body |-> m.body]
      BY <2>2, MessageParts
    <3>2. d \in Message
      BY <3>1, MessageOf, TRUE \in BOOLEAN
    <3>3. d.cmd = m.cmd /\ d.old = TRUE
      OBVIOUS
    <3>4. d = [cmd |-> m.cmd, old |-> TRUE, body |-> m.body]
      OBVIOUS
    <3> HIDE DEF d
    <3>5. Fresh(d) = m
      BY <3>1, <3>4 DEF Fresh
    <3>6. Aged(n)[d] = n[d] + n[m] /\ n[d] \in Nat /\ n[m] \in Nat
      BY <3>2, <3>3, <3>5 DEF Aged
    <3> QED
      BY <1>4, <3>2, <3>3, <3>6
  <2> QED
    BY <2>1, <2>2
<1> QED
  BY <1>2, <1>3, <1>4

-----------------------------------------------------------------------------
(* Types *)

LEMMA AdminTyped ==
  ASSUME NEW a \in Admin, NEW m \in Message, m.body \notin {"asked", "error"}
  PROVE  AdminTakes(a, m) \in Admin
<1>1. m.body \in Answers(m.cmd)
  BY MessageParts DEF Bodies
<1>2. m.cmd = "hdd" => m.body \in {"uninit", "formatting", "ok"}
  BY <1>1 DEF Answers
<1>3. (m.cmd = "login" /\ m.body = "yes") \in BOOLEAN
      /\ (a.timer \/ m.body # "ok") \in BOOLEAN
  OBVIOUS
<1> QED
  BY <1>2, <1>3 DEF AdminTakes, Admin

LEMMA WizardOf ==
  ASSUME NEW o \in BOOLEAN, NEW s \in 1..8, NEW y \in BOOLEAN, NEW e \in BOOLEAN,
         NEW c \in {"", "no_usb", "format_failed", "copy_failed"},
         NEW p \in {"", "prepare", "start", "status"}
  PROVE  [open |-> o, step |-> s, busy |-> y, err |-> e, code |-> c, pending |-> p]
           \in Wizard
  BY DEF Wizard

(* What the pages write to the members of the wizard.                      *)
WithStep(w, s) == [w EXCEPT !.step = s]
WithErr(w) == [w EXCEPT !.err = TRUE]
Stepped(w, s) == [w EXCEPT !.step = s, !.err = FALSE]
Coded(w, c) == [w EXCEPT !.err = TRUE, !.code = c]
Idle(w) == [w EXCEPT !.pending = "", !.busy = FALSE]
Broken(w) == [w EXCEPT !.busy = FALSE, !.err = TRUE, !.pending = ""]
Asking(w, c) == [w EXCEPT !.busy = TRUE, !.pending = c]
Polling(w) == [w EXCEPT !.pending = "status"]
Opened(w) == [w EXCEPT !.open = TRUE, !.busy = TRUE, !.pending = "prepare"]

Codes == {"", "no_usb", "format_failed", "copy_failed"}

LEMMA StepWritten ==
  ASSUME NEW w \in Wizard, NEW s \in 1..8
  PROVE  /\ WithStep(w, s) \in Wizard
         /\ WithStep(w, s).open = w.open
         /\ WithStep(w, s).step = s
         /\ WithStep(w, s).err = w.err
         /\ WithStep(w, s).code = w.code
         /\ WithStep(w, s).pending = w.pending
  BY DEF WithStep, Wizard

LEMMA ErrWritten ==
  ASSUME NEW w \in Wizard
  PROVE  /\ WithErr(w) \in Wizard
         /\ WithErr(w).open = w.open
         /\ WithErr(w).step = w.step
         /\ WithErr(w).code = w.code
         /\ WithErr(w).pending = w.pending
  BY DEF WithErr, Wizard

LEMMA SteppedWritten ==
  ASSUME NEW w \in Wizard, NEW s \in 1..8
  PROVE  /\ Stepped(w, s) \in Wizard
         /\ Stepped(w, s).open = w.open
         /\ Stepped(w, s).step = s
         /\ Stepped(w, s).code = w.code
         /\ Stepped(w, s).pending = w.pending
  BY DEF Stepped, Wizard

LEMMA CodeWritten ==
  ASSUME NEW w \in Wizard, NEW c \in Codes
  PROVE  /\ Coded(w, c) \in Wizard
         /\ Coded(w, c).open = w.open
         /\ Coded(w, c).step = w.step
         /\ Coded(w, c).code = c
         /\ Coded(w, c).pending = w.pending
  BY DEF Coded, Codes, Wizard

LEMMA ErrorCleared ==
  ASSUME NEW w \in Wizard
  PROVE  /\ ClearError(w) \in Wizard
         /\ ClearError(w).open = w.open
         /\ ClearError(w).step = w.step
         /\ ClearError(w).err = FALSE
         /\ ClearError(w).code # "copy_failed"
         /\ ClearError(w).pending = w.pending
<1>1. /\ ClearError(w) \in Wizard
      /\ ClearError(w).open = w.open
      /\ ClearError(w).step = w.step
      /\ ClearError(w).err = FALSE
      /\ ClearError(w).code = ""
      /\ ClearError(w).pending = w.pending
  BY DEF ClearError, Wizard
<1>2. ClearError(w).code # "copy_failed"
  BY <1>1, Zenon
<1> QED
  BY <1>1, <1>2, Zenon

LEMMA IdleWritten ==
  ASSUME NEW w \in Wizard
  PROVE  /\ Idle(w) \in Wizard
         /\ Idle(w).open = w.open
         /\ Idle(w).step = w.step
         /\ Idle(w).code = w.code
         /\ Idle(w).pending \notin {"prepare", "start"}
<1>1. /\ Idle(w) \in Wizard
      /\ Idle(w).open = w.open
      /\ Idle(w).step = w.step
      /\ Idle(w).code = w.code
      /\ Idle(w).pending = ""
  BY DEF Idle, Wizard
<1>2. Idle(w).pending \notin {"prepare", "start"}
  BY <1>1, Zenon
<1> QED
  BY <1>1, <1>2, Zenon

LEMMA BrokenWritten ==
  ASSUME NEW w \in Wizard
  PROVE  /\ Broken(w) \in Wizard
         /\ Broken(w).open = w.open
         /\ Broken(w).step = w.step
         /\ Broken(w).code = w.code
         /\ Broken(w).pending \notin {"prepare", "start"}
<1>1. /\ Broken(w) \in Wizard
      /\ Broken(w).open = w.open
      /\ Broken(w).step = w.step
      /\ Broken(w).code = w.code
      /\ Broken(w).pending = ""
  BY DEF Broken, Wizard
<1>2. Broken(w).pending \notin {"prepare", "start"}
  BY <1>1, Zenon
<1> QED
  BY <1>1, <1>2, Zenon

LEMMA AskingWritten ==
  ASSUME NEW w \in Wizard, NEW c \in {"prepare", "start"}
  PROVE  /\ Asking(w, c) \in Wizard
         /\ Asking(w, c).open = w.open
         /\ Asking(w, c).step = w.step
         /\ Asking(w, c).code = w.code
         /\ Asking(w, c).pending = c
  BY DEF Asking, Wizard

LEMMA PollingWritten ==
  ASSUME NEW w \in Wizard
  PROVE  /\ Polling(w) \in Wizard
         /\ Polling(w).open = w.open
         /\ Polling(w).step = w.step
         /\ Polling(w).code = w.code
         /\ Polling(w).pending = "status"
  BY DEF Polling, Wizard

LEMMA OpenedWritten ==
  ASSUME NEW w \in Wizard
  PROVE  /\ Opened(w) \in Wizard
         /\ Opened(w).step = w.step
         /\ Opened(w).code = w.code
         /\ Opened(w).pending = "prepare"
  BY DEF Opened, Wizard

LEMMA ClosedTyped ==
  /\ Closed \in Wizard
  /\ Closed.open = FALSE
  /\ Closed.step = 1
  /\ Closed.code # "copy_failed"
<1>1. TRUE \in BOOLEAN /\ FALSE \in BOOLEAN /\ 1 \in 1..8
  OBVIOUS
<1>2. Closed \in Wizard
  BY <1>1, WizardOf DEF Closed
<1> QED
  BY <1>2 DEF Closed

(* The handlers in those terms.                                            *)
LEMMA HandlersAre ==
  ASSUME NEW w, NEW m
  PROVE  /\ PrepareAnswered(w, m) = IF ReplyOk(m) THEN WithStep(w, 2) ELSE WithErr(w)
         /\ StartAnswered(w, m) = IF ReplyStatus(m) = "error" THEN Coded(w, ErrorCode(m))
                                                              ELSE WithStep(w, 3)
         /\ StatusAnswered(w, m) =
              CASE ReplyStatus(m) = "finish" -> WithStep(ClearError(w), 4)
                [] ReplyStatus(m) = "error" -> Coded(w, ErrorCode(m))
                [] OTHER -> w
         /\ HandleReplaceResult(w, m) =
              CASE w.pending = "prepare" -> PrepareAnswered(Idle(w), m)
                [] w.pending = "start" -> StartAnswered(Idle(w), m)
                [] OTHER -> StatusAnswered(Idle(w), m)
         /\ WizardTakes(w, m) =
              CASE Ignores(w, m) -> w
                [] ~Ignores(w, m) /\ m.body = "error" -> Broken(w)
                [] OTHER -> HandleReplaceResult(w, m)
<1>1. PrepareAnswered(w, m) = IF ReplyOk(m) THEN WithStep(w, 2) ELSE WithErr(w)
  BY Zenon DEF PrepareAnswered, WithStep, WithErr
<1>2. StartAnswered(w, m) = IF ReplyStatus(m) = "error" THEN Coded(w, ErrorCode(m))
                                                       ELSE WithStep(w, 3)
  BY Zenon DEF StartAnswered, WithStep, Coded, Failing
<1>3. StatusAnswered(w, m) =
        CASE ReplyStatus(m) = "finish" -> WithStep(ClearError(w), 4)
          [] ReplyStatus(m) = "error" -> Coded(w, ErrorCode(m))
          [] OTHER -> w
  BY Zenon DEF StatusAnswered, WithStep, Coded, Failing
<1>4. HandleReplaceResult(w, m) =
        CASE w.pending = "prepare" -> PrepareAnswered(Idle(w), m)
          [] w.pending = "start" -> StartAnswered(Idle(w), m)
          [] OTHER -> StatusAnswered(Idle(w), m)
  BY Zenon DEF HandleReplaceResult, Idle
<1>5. WizardTakes(w, m) =
        CASE Ignores(w, m) -> w
          [] ~Ignores(w, m) /\ m.body = "error" -> Broken(w)
          [] OTHER -> HandleReplaceResult(w, m)
  BY Zenon DEF WizardTakes, Broken
<1> QED
  BY <1>1, <1>2, <1>3, <1>4, <1>5

LEMMA CodeTyped ==
  ASSUME NEW m
  PROVE  ErrorCode(m) \in Codes
  BY DEF ErrorCode, Codes

LEMMA WizardTyped ==
  ASSUME NEW w \in Wizard, NEW m \in Message
  PROVE  WizardTakes(w, m) \in Wizard
<1>1. ASSUME NEW v \in Wizard
      PROVE  /\ PrepareAnswered(v, m) \in Wizard
             /\ StartAnswered(v, m) \in Wizard
             /\ StatusAnswered(v, m) \in Wizard
  <2>1. 2 \in 1..8 /\ 3 \in 1..8 /\ 4 \in 1..8
    OBVIOUS
  <2>2. /\ WithStep(v, 2) \in Wizard /\ WithStep(v, 3) \in Wizard
        /\ WithErr(v) \in Wizard
    BY <2>1, StepWritten, ErrWritten
  <2>3. Coded(v, ErrorCode(m)) \in Wizard
    BY CodeWritten, CodeTyped
  <2>4. WithStep(ClearError(v), 4) \in Wizard
    BY <2>1, StepWritten, ErrorCleared
  <2>5. PrepareAnswered(v, m) \in Wizard
    BY <2>2, HandlersAre, Zenon
  <2>6. StartAnswered(v, m) \in Wizard
    BY <2>2, <2>3, HandlersAre, Zenon
  <2>7. StatusAnswered(v, m) \in Wizard
    BY <2>3, <2>4, HandlersAre
  <2> QED
    BY <2>5, <2>6, <2>7
<1>2. Idle(w) \in Wizard /\ Broken(w) \in Wizard
  BY IdleWritten, BrokenWritten
<1>3. /\ PrepareAnswered(Idle(w), m) \in Wizard
      /\ StartAnswered(Idle(w), m) \in Wizard
      /\ StatusAnswered(Idle(w), m) \in Wizard
  BY <1>1, <1>2
<1>4. HandleReplaceResult(w, m) \in Wizard
  BY <1>3, HandlersAre, Zenon
<1> QED
  BY <1>2, <1>4, HandlersAre, Zenon

LEMMA MoveTyped ==
  ASSUME NEW n \in [Message -> Nat], NEW m \in Message, n[m] > 0
  PROVE  /\ [n EXCEPT ![m] = @ - 1] \in [Message -> Nat]
         /\ \A d \in Message : d # m =>
              [n EXCEPT ![m] = @ - 1, ![d] = @ + 1] \in [Message -> Nat]
<1>1. n[m] \in Nat /\ n[m] - 1 \in Nat
  OBVIOUS
<1>2. [n EXCEPT ![m] = @ - 1] \in [Message -> Nat]
  BY <1>1
<1>3. ASSUME NEW d \in Message, d # m
      PROVE  [n EXCEPT ![m] = @ - 1, ![d] = @ + 1] \in [Message -> Nat]
  BY <1>1, <1>3
<1> QED
  BY <1>2, <1>3

LEMMA EffectTyped ==
  ASSUME nas \in Nas, NEW c, NEW b
  PROVE  Effect(c, b) \in Nas
  BY DEF Effect, Nas

LEMMA TypeInit == Init => TypeOK
<1> SUFFICES ASSUME Init PROVE TypeOK
  OBVIOUS
<1>1. nas \in Nas /\ admin \in Admin
  BY DEF Init, Nas, Admin
<1>2. wizard \in Wizard
  BY ClosedTyped DEF Init
<1>3. net \in [Message -> Nat]
  BY DEF Init
<1>4. ops \in 0..MaxOps
  BY Bounds DEF Init
<1> QED
  BY <1>1, <1>2, <1>3, <1>4 DEF Init, TypeOK

LEMMA TypeNext == TypeOK /\ [Next]_vars => TypeOK'
<1> SUFFICES ASSUME TypeOK, [Next]_vars PROVE TypeOK'
  OBVIOUS
<1> USE DEF TypeOK
<1>user. ASSUME User PROVE ops' \in 0..MaxOps
  BY <1>user, Bounds DEF User
<1>cmds. {"login", "hdd", "init", "prepare", "start", "status"} \subseteq Commands
  BY CommandsAre
<1>send. \A c \in Commands : Send(net, c) \in [Message -> Nat]
                           /\ Send(Aged(net), c) \in [Message -> Nat]
  BY SendTyped, AgedTyped
<1>1. CASE LogIn
  BY <1>1, <1>user, <1>cmds, <1>send DEF LogIn
<1>2. CASE Refresh
  BY <1>2, <1>user, <1>cmds, <1>send DEF Refresh
<1>3. CASE InitHdd
  BY <1>3, <1>user, <1>cmds, <1>send DEF InitHdd
<1>4. CASE Open
  <2>1. wizard' \in Wizard
    BY <1>4, ClosedTyped, OpenedWritten DEF Open, Opened
  <2> QED
    BY <1>4, <2>1, <1>user, <1>cmds, <1>send DEF Open
<1>5. CASE Leave
  <2>1. wizard' \in Wizard
    BY <1>5, ClosedTyped DEF Leave
  <2> QED
    BY <1>5, <2>1, <1>user DEF Leave
<1>6. CASE RunStart
  <2>1. wizard' \in Wizard
    <3>1. wizard' = Asking(ClearError(wizard), "start")
      BY <1>6, Zenon DEF RunStart, Asking
    <3> QED
      BY <3>1, ErrorCleared, AskingWritten
  <2> QED
    BY <1>6, <2>1, <1>user, <1>cmds, <1>send DEF RunStart
<1>7. CASE Back
  <2>1. wizard' \in Wizard
    <3>1. wizard' = WithStep(ClearError(wizard), 2)
      BY <1>7, Zenon DEF Back, WithStep
    <3>2. 2 \in 1..8
      OBVIOUS
    <3> QED
      BY <3>1, <3>2, ErrorCleared, StepWritten
  <2> QED
    BY <1>7, <2>1, <1>user DEF Back
<1>8. CASE Turn
  <2>1. wizard' \in Wizard
    BY <1>8 DEF Turn, Wizard
  <2> QED
    BY <1>8, <2>1 DEF Turn
<1>9. CASE HddTimer
  <2>1. admin' \in Admin
    BY <1>9 DEF HddTimer, Admin
  <2> QED
    BY <1>9, <2>1, <1>cmds, <1>send DEF HddTimer
<1>10. CASE StatusTimer
  <2>1. wizard' \in Wizard
    BY <1>10 DEF StatusTimer, Wizard
  <2> QED
    BY <1>10, <2>1, <1>cmds, <1>send DEF StatusTimer
<1>11. ASSUME NEW m \in Message, NEW b \in Answers(m.cmd), Serve(m, b)
       PROVE  TypeOK'
  <2>1. PICK body \in {b} \cup (Faults \cap {"error"}) :
          net' = [net EXCEPT ![m] = @ - 1, ![[m EXCEPT !.body = body]] = @ + 1]
    BY <1>11 DEF Serve
  <2>2. [m EXCEPT !.body = body] \in Message /\ [m EXCEPT !.body = body] # m
    BY <1>11, BodyTyped DEF Serve
  <2>3. net' \in [Message -> Nat]
    BY <1>11, <2>1, <2>2, MoveTyped DEF Serve
  <2>4. nas' \in Nas
    BY <1>11, EffectTyped DEF Serve
  <2>5. prepared' \in BOOLEAN
    BY <1>11 DEF Serve
  <2>6. mishaps' \subseteq {"crossed", "lost", "cut"}
    BY <1>11 DEF Serve
  <2> QED
    BY <1>11, <2>3, <2>4, <2>5, <2>6 DEF Serve
<1>12. ASSUME NEW m \in Message, Fail(m) PROVE TypeOK'
  <2>1. /\ [m EXCEPT !.body = "error"] \in Message
        /\ m.body = "asked" => [m EXCEPT !.body = "error"] # m
    BY BodyTyped
  <2>2. net' \in [Message -> Nat]
    BY <1>12, <2>1, MoveTyped DEF Fail
  <2>3. mishaps' \subseteq {"crossed", "lost", "cut"}
    BY <1>12 DEF Fail, Cut
  <2> QED
    BY <1>12, <2>2, <2>3 DEF Fail
<1>13. ASSUME NEW m \in Message, Deliver(m) PROVE TypeOK'
  <2>1. admin' \in Admin
    BY <1>13, AdminTyped DEF Deliver
  <2>2. wizard' \in Wizard
    BY <1>13, WizardTyped DEF Deliver
  <2>3. [net EXCEPT ![m] = @ - 1] \in [Message -> Nat]
    BY <1>13, MoveTyped DEF Deliver
  <2>4. net' \in [Message -> Nat]
    BY <1>13, <2>3, <1>cmds, SendTyped DEF Deliver
  <2>5. mishaps' \subseteq {"crossed", "lost", "cut"}
    BY <1>13 DEF Deliver, Cut
  <2> QED
    BY <1>13, <2>1, <2>2, <2>4, <2>5 DEF Deliver
<1>14. CASE NasEnds
  <2>1. nas' \in Nas
    BY <1>14 DEF NasEnds, Nas
  <2> QED
    BY <1>14, <2>1 DEF NasEnds
<1>15. CASE UNCHANGED vars
  BY <1>15 DEF vars
<1> QED
  BY <1>1, <1>2, <1>3, <1>4, <1>5, <1>6, <1>7, <1>8, <1>9, <1>10, <1>11, <1>12,
     <1>13, <1>14, <1>15 DEF Next, Timers, Network

(* The state has the types of the module, whatever is lost or crossed.     *)
THEOREM TypeCorrect == Spec => []TypeOK
<1> QED
  BY TypeInit, TypeNext, PTL DEF Spec

-----------------------------------------------------------------------------
(* The queries of the disk *)

Some(n, c) == \E m \in Message : m.cmd = c /\ n[m] > 0

LEMMA SomeKept ==
  ASSUME NEW n \in [Message -> Nat], NEW c, Some(n, c)
  PROVE  /\ \A x \in Commands : Some(Send(n, x), c)
         /\ Some(Aged(n), c)
<1>1. PICK m \in Message : m.cmd = c /\ n[m] > 0
  BY DEF Some
<1>2. \A x \in Commands : Some(Send(n, x), c)
  BY <1>1, SendTyped DEF Some
<1>3. Some(Aged(n), c)
  BY <1>1, AgedTyped DEF Some
<1> QED
  BY <1>2, <1>3

LEMMA SomeSent ==
  ASSUME NEW n \in [Message -> Nat], NEW c \in Commands
  PROVE  Some(Send(n, c), c)
<1>1. n[Asked(c)] \in Nat /\ Asked(c) \in Message /\ Asked(c).cmd = c
  BY AskedTyped
<1>2. Send(n, c)[Asked(c)] > 0
  BY <1>1, SendTyped
<1> QED
  BY <1>1, <1>2 DEF Some

(* One message goes, or becomes an answer.                                 *)
LEMMA SomeGone ==
  ASSUME NEW n \in [Message -> Nat], NEW c, Some(n, c), NEW m \in Message, m.cmd # c
  PROVE  Some([n EXCEPT ![m] = @ - 1], c)
  BY DEF Some

LEMMA SomeMoved ==
  ASSUME NEW n \in [Message -> Nat], NEW c, Some(n, c),
         NEW m \in Message, NEW d \in Message, d # m, d.cmd = m.cmd, n[m] > 0
  PROVE  Some([n EXCEPT ![m] = @ - 1, ![d] = @ + 1], c)
<1>1. PICK x \in Message : x.cmd = c /\ n[x] > 0
  BY DEF Some
<1> DEFINE k == [n EXCEPT ![m] = @ - 1]
<1>2. k \in [Message -> Nat] /\ (x # m => k[x] = n[x])
  BY MoveTyped
<1>3. [n EXCEPT ![m] = @ - 1, ![d] = @ + 1] = [k EXCEPT ![d] = @ + 1]
  OBVIOUS
<1> HIDE DEF k
<1>4. [k EXCEPT ![d] = @ + 1][d] > 0
  BY <1>2
<1>5. \A y \in Message : k[y] > 0 => [k EXCEPT ![d] = @ + 1][y] > 0
  BY <1>2
<1>6. CASE x = m
  BY <1>1, <1>3, <1>4, <1>6 DEF Some
<1>7. CASE x # m
  BY <1>1, <1>2, <1>3, <1>5, <1>7 DEF Some
<1> QED
  BY <1>6, <1>7

LEMMA AsksInit == Init => AsksUntilGood
<1> SUFFICES ASSUME Init PROVE AsksUntilGood
  OBVIOUS
<1>1. admin.in = FALSE
  BY DEF Init
<1> QED
  BY <1>1 DEF AsksUntilGood

LEMMA AsksNext == TypeOK /\ AsksUntilGood /\ [Next]_vars => AsksUntilGood'
<1> SUFFICES ASSUME TypeOK, AsksUntilGood, [Next]_vars,
                    admin'.in, admin'.hdd # "ok", "cut" \notin mishaps'
             PROVE  admin'.timer \/ Some(net', "hdd")
  BY DEF AsksUntilGood, UnderWay, Some
<1>net. net \in [Message -> Nat] /\ Aged(net) \in [Message -> Nat]
  BY AgedTyped DEF TypeOK
<1>cmds. {"login", "hdd", "init", "prepare", "start", "status"} \subseteq Commands
  BY CommandsAre
<1>same. ASSUME admin' = admin, "cut" \notin mishaps
         PROVE  admin'.timer \/ Some(net, "hdd")
  BY <1>same DEF AsksUntilGood, UnderWay, Some
<1>1. CASE LogIn
  BY <1>1, <1>same, <1>net, <1>cmds, SomeKept DEF LogIn
<1>2. CASE Refresh
  BY <1>2, <1>same, <1>net, <1>cmds, SomeKept DEF Refresh
<1>3. CASE InitHdd
  BY <1>3, <1>same, <1>net, <1>cmds, SomeKept DEF InitHdd
<1>4. CASE Open
  BY <1>4, <1>same, <1>net, <1>cmds, SomeKept DEF Open
<1>5. CASE Leave
  BY <1>5, <1>same DEF Leave
<1>6. CASE RunStart
  BY <1>6, <1>same, <1>net, <1>cmds, SomeKept DEF RunStart
<1>7. CASE Back
  BY <1>7, <1>same DEF Back
<1>8. CASE Turn
  BY <1>8, <1>same DEF Turn
<1>9. CASE HddTimer
  <2>1. admin'.in = admin.in
    BY <1>9 DEF HddTimer, TypeOK, Admin
  <2>2. net' = Send(net, "hdd")
    BY <1>9, <2>1 DEF HddTimer
  <2> QED
    BY <2>2, <1>net, <1>cmds, SomeSent
<1>10. CASE StatusTimer
  BY <1>10, <1>same, <1>net, <1>cmds, SomeKept DEF StatusTimer
<1>11. ASSUME NEW m \in Message, NEW b \in Answers(m.cmd), Serve(m, b)
       PROVE  admin'.timer \/ Some(net', "hdd")
  <2>1. PICK body \in {b} \cup (Faults \cap {"error"}) :
          net' = [net EXCEPT ![m] = @ - 1, ![[m EXCEPT !.body = body]] = @ + 1]
    BY <1>11 DEF Serve
  <2>2. /\ [m EXCEPT !.body = body] \in Message /\ [m EXCEPT !.body = body].cmd = m.cmd
        /\ [m EXCEPT !.body = body] # m
    BY <1>11, BodyTyped DEF Serve
  <2>3. admin' = admin /\ "cut" \notin mishaps /\ net[m] > 0
    BY <1>11 DEF Serve
  <2> QED
    BY <2>1, <2>2, <2>3, <1>same, <1>net, SomeMoved
<1>12. ASSUME NEW m \in Message, Fail(m)
       PROVE  admin'.timer \/ Some(net', "hdd")
  <2>1. admin' = admin /\ "cut" \notin mishaps /\ net[m] > 0
    BY <1>12 DEF Fail
  <2>2. CASE net' = [net EXCEPT ![m] = @ - 1] /\ mishaps' = mishaps \cup {"lost"} \cup Cut(m.cmd)
    <3>1. m.cmd # "hdd"
      BY <2>2 DEF Cut
    <3> QED
      BY <2>1, <2>2, <3>1, <1>same, <1>net, SomeGone
  <2>3. CASE m.body = "asked"
             /\ net' = [net EXCEPT ![m] = @ - 1, ![[m EXCEPT !.body = "error"]] = @ + 1]
    <3>1. /\ [m EXCEPT !.body = "error"] \in Message
          /\ [m EXCEPT !.body = "error"].cmd = m.cmd
          /\ [m EXCEPT !.body = "error"] # m
      BY <2>3, BodyTyped
    <3> QED
      BY <2>1, <2>3, <3>1, <1>same, <1>net, SomeMoved
  <2> QED
    BY <1>12, <2>2, <2>3 DEF Fail
<1>13. ASSUME NEW m \in Message, Deliver(m)
       PROVE  admin'.timer \/ Some(net', "hdd")
  <2> DEFINE gone == [net EXCEPT ![m] = @ - 1]
             a == IF m.body = "error" THEN admin ELSE AdminTakes(admin, m)
  <2>1. /\ m.body # "asked" /\ net[m] > 0
        /\ admin' = a
        /\ net' = IF a.in /\ ~admin.in THEN Send(gone, "hdd") ELSE gone
        /\ "cut" \notin mishaps
        /\ m.body = "error" => m.cmd # "hdd"
    BY <1>13 DEF Deliver, Cut
  <2>2. gone \in [Message -> Nat]
    BY <1>net, <2>1, MoveTyped
  <2>3. m.cmd # "hdd" /\ Some(net, "hdd") => Some(gone, "hdd")
    BY <1>net, SomeGone
  <2> HIDE DEF gone
  <2>4. CASE ~admin.in
    <3>1. a.in /\ ~admin.in
      BY <2>1, <2>4
    <3> QED
      BY <2>1, <2>2, <3>1, <1>cmds, SomeSent
  <2>5. CASE admin.in
    <3>1. net' = gone
      BY <2>1, <2>5
    <3>2. CASE m.cmd # "hdd"
      <4>1. a = admin
        BY <2>5, <3>2 DEF AdminTakes
      <4> QED
        BY <2>1, <2>3, <3>1, <3>2, <4>1, <1>same
    <3>3. CASE m.cmd = "hdd"
      <4>1. a = [admin EXCEPT !.hdd = m.body, !.timer = @ \/ m.body # "ok"]
        BY <2>1, <2>5, <3>3 DEF AdminTakes
      <4>2. admin'.hdd = m.body /\ (m.body # "ok" => admin'.timer)
        BY <2>1, <4>1 DEF TypeOK, Admin
      <4> QED
        BY <4>2
    <3> QED
      BY <3>2, <3>3
  <2> QED
    BY <2>4, <2>5
<1>14. CASE NasEnds
  BY <1>14, <1>same DEF NasEnds
<1>15. CASE UNCHANGED vars
  BY <1>15, <1>same DEF vars
<1> QED
  BY <1>1, <1>2, <1>3, <1>4, <1>5, <1>6, <1>7, <1>8, <1>9, <1>10, <1>11, <1>12,
     <1>13, <1>14, <1>15 DEF Next, Timers, Network

(* While the page of the device shows a disk that is not good, it asks:    *)
(* whatever the NAS, the links and the wizard do meanwhile.                *)
THEOREM PageGoesOnAsking == Spec => []AsksUntilGood
<1>1. TypeOK /\ AsksUntilGood /\ [Next]_vars => (TypeOK /\ AsksUntilGood)'
  BY TypeNext, AsksNext
<1> QED
  BY <1>1, TypeInit, AsksInit, PTL DEF Spec

-----------------------------------------------------------------------------
(* What the wizard tells.  While nothing has crossed, a message that was   *)
(* sent after the last prepare or start is the one the wizard waits for,   *)
(* and what it says is so.                                                 *)

New(n, m) == m.old = FALSE /\ n[m] > 0

\* A prepare or a start is under way once, and awaited.
Awaited(n, w) ==
  \A m \in Message : New(n, m) /\ m.cmd \in {"prepare", "start"} =>
                     w.pending = m.cmd /\ n[m] = 1

Once(n) ==
  \A m, d \in Message : New(n, m) /\ New(n, d) /\ m.cmd = d.cmd
                         /\ m.cmd \in {"prepare", "start"} => m = d

\* No poll is under way while a prepare or a start is.
Polled(n, w) ==
  \A m \in Message : New(n, m) /\ m.cmd = "status" =>
                     w.pending \notin {"prepare", "start"}

AnswersHold(n, c, p) ==
  \A m \in Message : New(n, m) =>
    /\ m.cmd = "prepare" /\ m.body = "yes" => p = TRUE
    /\ m.cmd = "status" => p = TRUE
    /\ m.cmd = "status" /\ m.body \in {"finish", "copy_failed"} => c = m.body

StepsWait(w) ==
  /\ w.pending = "prepare" => w.step = 1 /\ w.code # "copy_failed"
  /\ w.pending = "start" => w.step = 2 /\ w.code # "copy_failed"

Told(w, c, p) ==
  /\ w.step >= 2 => p = TRUE
  /\ w.step >= 4 => c = "finish"
  /\ w.code = "copy_failed" => c = "copy_failed"

InOrder(n, w) == Awaited(n, w) /\ Once(n) /\ Polled(n, w)

Truth(n, w, c, p) ==
  InOrder(n, w) /\ AnswersHold(n, c, p) /\ StepsWait(w) /\ Told(w, c, p)

TruthInv ==
  wizard.open /\ "crossed" \notin mishaps =>
    Truth(net, wizard, nas.copy, prepared)

(* Fewer messages of the replacement, or none new.                         *)
LEMMA FewerInOrder ==
  ASSUME NEW n \in [Message -> Nat], NEW k \in [Message -> Nat], NEW w,
         \A m \in Message : New(k, m) /\ m.cmd \in Replacing => New(n, m) /\ k[m] <= n[m]
  PROVE  /\ InOrder(n, w) => InOrder(k, w)
         /\ \A c, p : AnswersHold(n, c, p) => AnswersHold(k, c, p)
<1>1. Awaited(n, w) => Awaited(k, w)
  <2> SUFFICES ASSUME Awaited(n, w), NEW m \in Message, New(k, m),
                      m.cmd \in {"prepare", "start"}
               PROVE  w.pending = m.cmd /\ k[m] = 1
    BY DEF Awaited
  <2>1. New(n, m) /\ k[m] <= n[m]
    BY DEF Replacing
  <2>2. w.pending = m.cmd /\ n[m] = 1
    BY <2>1 DEF Awaited
  <2>3. k[m] \in Nat /\ k[m] > 0
    BY DEF New
  <2> QED
    BY <2>1, <2>2, <2>3
<1>2. Once(n) => Once(k)
  BY DEF Once, Replacing
<1>3. Polled(n, w) => Polled(k, w)
  BY DEF Polled, Replacing
<1>4. \A c, p : AnswersHold(n, c, p) => AnswersHold(k, c, p)
  BY DEF AnswersHold, Replacing
<1> QED
  BY <1>1, <1>2, <1>3, <1>4 DEF InOrder

LEMMA SentOtherFewer ==
  ASSUME NEW n \in [Message -> Nat], NEW c \in Commands \ Replacing, NEW m \in Message,
         New(Send(n, c), m), m.cmd \in Replacing
  PROVE  New(n, m) /\ Send(n, c)[m] <= n[m]
<1>1. m # Asked(c)
  BY AskedTyped
<1>2. Send(n, c)[m] = n[m] /\ n[m] \in Nat
  BY <1>1, SendTyped
<1> QED
  BY <1>2 DEF New

LEMMA GoneFewer ==
  ASSUME NEW n \in [Message -> Nat], NEW x \in Message, n[x] > 0, NEW m \in Message,
         New([n EXCEPT ![x] = @ - 1], m)
  PROVE  New(n, m) /\ [n EXCEPT ![x] = @ - 1][m] <= n[m]
<1>1. n[x] \in Nat /\ n[m] \in Nat
  OBVIOUS
<1>2. [n EXCEPT ![x] = @ - 1][m] = IF m = x THEN n[m] - 1 ELSE n[m]
  OBVIOUS
<1> QED
  BY <1>1, <1>2 DEF New

(* A command becomes its answer.                                           *)
Moved(n, m, d) == [n EXCEPT ![m] = @ - 1, ![d] = @ + 1]

LEMMA MovedNew ==
  ASSUME NEW n \in [Message -> Nat], NEW m \in Message, NEW d \in Message, d # m,
         n[m] > 0, d.cmd = m.cmd, d.old = m.old,
         NEW x \in Message, New(Moved(n, m, d), x)
  PROVE  /\ x = d => New(n, m) /\ Moved(n, m, d)[d] = n[d] + 1
         /\ x # d => New(n, x) /\ Moved(n, m, d)[x] <= n[x]
         /\ x = m => n[m] > 1
<1>1. n[m] \in Nat /\ n[d] \in Nat /\ n[x] \in Nat
  OBVIOUS
<1>2. Moved(n, m, d)[x] = IF x = d THEN n[d] + 1 ELSE IF x = m THEN n[m] - 1 ELSE n[x]
  BY <1>1 DEF Moved
<1> QED
  BY <1>1, <1>2 DEF New

LEMMA MovedInOrder ==
  ASSUME NEW n \in [Message -> Nat], NEW m \in Message, NEW d \in Message, d # m,
         n[m] > 0, d.cmd = m.cmd, d.old = m.old,
         NEW w, InOrder(n, w)
  PROVE  InOrder(Moved(n, m, d), w)
<1> DEFINE k == Moved(n, m, d)
<1>new. ASSUME NEW x \in Message, New(k, x)
        PROVE  /\ x = d => New(n, m) /\ k[d] = n[d] + 1
               /\ x # d => New(n, x) /\ k[x] <= n[x]
               /\ x = m => n[m] > 1
  BY <1>new, MovedNew
<1>nat. k \in [Message -> Nat]
  BY MoveTyped DEF Moved
<1> HIDE DEF k
<1>1. ASSUME NEW x \in Message, New(k, x), x.cmd \in {"prepare", "start"}
      PROVE  w.pending = x.cmd /\ k[x] = 1
  <2>1. CASE x = d
    <3>1. New(n, m) /\ k[d] = n[d] + 1
      BY <1>1, <2>1, <1>new
    <3>2. w.pending = m.cmd
      BY <1>1, <2>1, <3>1 DEF InOrder, Awaited
    <3>3. ~New(n, d)
      BY <1>1, <2>1, <3>1 DEF InOrder, Once
    <3>4. n[d] = 0
      BY <1>1, <2>1, <3>3 DEF New
    <3> QED
      BY <2>1, <3>1, <3>2, <3>4
  <2>2. CASE x # d
    <3>1. New(n, x) /\ k[x] <= n[x]
      BY <1>1, <2>2, <1>new
    <3>2. w.pending = x.cmd /\ n[x] = 1
      BY <1>1, <3>1 DEF InOrder, Awaited
    <3>3. k[x] \in Nat /\ k[x] > 0
      BY <1>1, <1>nat DEF New
    <3> QED
      BY <3>1, <3>2, <3>3
  <2> QED
    BY <2>1, <2>2
<1>2. ASSUME NEW x \in Message, NEW y \in Message, New(k, x), New(k, y), x.cmd = y.cmd,
             x.cmd \in {"prepare", "start"}, x # y, y # d
      PROVE  FALSE
  <2>1. New(n, y) /\ (y = m => n[m] > 1)
    BY <1>2, <1>new
  <2>2. n[y] = 1
    BY <1>2, <2>1 DEF InOrder, Awaited
  <2>3. y # m
    BY <2>1, <2>2
  <2>4. CASE x = d
    <3>1. New(n, m)
      BY <1>2, <2>4, <1>new
    <3> QED
      BY <1>2, <2>1, <2>3, <2>4, <3>1 DEF InOrder, Once
  <2>5. CASE x # d
    <3>1. New(n, x)
      BY <1>2, <2>5, <1>new
    <3> QED
      BY <1>2, <2>1, <3>1 DEF InOrder, Once
  <2> QED
    BY <2>4, <2>5
<1>3. Once(k)
  BY <1>2 DEF Once
<1>4. Awaited(k, w)
  BY <1>1 DEF Awaited
<1>5. ASSUME NEW x \in Message, New(k, x), x.cmd = "status"
      PROVE  w.pending \notin {"prepare", "start"}
  <2>1. CASE x = d
    BY <1>5, <2>1, <1>new DEF InOrder, Polled
  <2>2. CASE x # d
    BY <1>5, <2>2, <1>new DEF InOrder, Polled
  <2> QED
    BY <2>1, <2>2
<1>6. Polled(k, w)
  BY <1>5 DEF Polled
<1> QED
  BY <1>3, <1>4, <1>6 DEF InOrder, k

(* After everything has aged only the new message is new.                  *)
LEMMA OnlyAsked ==
  ASSUME NEW n \in [Message -> Nat], NEW c \in Commands, NEW m \in Message,
         New(Send(Aged(n), c), m)
  PROVE  m = Asked(c) /\ Send(Aged(n), c)[m] = 1
<1>1. Aged(n) \in [Message -> Nat] /\ Aged(n)[m] = 0
  BY AgedTyped DEF New
<1>2. m # Asked(c) => Send(Aged(n), c)[m] = 0
  BY <1>1, SendTyped
<1>3. m = Asked(c)
  BY <1>2 DEF New
<1> QED
  BY <1>1, <1>3, SendTyped

LEMMA BegunTruth ==
  ASSUME NEW n \in [Message -> Nat], NEW c \in {"prepare", "start"}, NEW w,
         w.pending = c, NEW k, NEW p
  PROVE  /\ InOrder(Send(Aged(n), c), w)
         /\ AnswersHold(Send(Aged(n), c), k, p)
<1>1. c \in Commands
  BY CommandsAre
<1>2. \A m \in Message : New(Send(Aged(n), c), m) =>
        m = Asked(c) /\ Send(Aged(n), c)[m] = 1
  BY <1>1, OnlyAsked
<1>3. Asked(c).cmd = c /\ Asked(c).body = "asked"
  BY <1>1, AskedTyped
<1>4. Awaited(Send(Aged(n), c), w)
  BY <1>2, <1>3 DEF Awaited
<1>5. Once(Send(Aged(n), c))
  BY <1>2 DEF Once
<1>6. Polled(Send(Aged(n), c), w)
  BY <1>2, <1>3 DEF Polled
<1>7. AnswersHold(Send(Aged(n), c), k, p)
  BY <1>2, <1>3 DEF AnswersHold
<1> QED
  BY <1>4, <1>5, <1>6, <1>7 DEF InOrder

LEMMA EffectCopy ==
  ASSUME nas \in Nas, NEW c, NEW b
  PROVE  \/ Effect(c, b).copy = nas.copy
         \/ c = "prepare" /\ b = "yes"
         \/ c = "start" /\ b = "copy"
<1> SUFFICES ASSUME ~(c = "prepare" /\ b = "yes"), ~(c = "start" /\ b = "copy")
             PROVE  Effect(c, b).copy = nas.copy
  OBVIOUS
<1>1. Effect(c, b) \in {nas, [nas EXCEPT !.hdd = "formatting"]}
  BY Zenon DEF Effect
<1>2. [nas EXCEPT !.hdd = "formatting"].copy = nas.copy
  BY DEF Nas
<1> QED
  BY <1>1, <1>2

(* What the buttons and the timer do to a wizard that tells the truth.     *)
LEMMA TurnTruth ==
  ASSUME NEW w \in Wizard, NEW n \in [Message -> Nat], NEW c, NEW p \in BOOLEAN,
         Truth(n, w, c, p), w.step >= 4, NEW s \in 1..8,
         s = w.step - 1 \/ s = w.step + 1
  PROVE  Truth(n, Stepped(w, s), c, p)
<1>0. w.step \in 1..8
  BY DEF Wizard
<1>1. s >= 3
  BY <1>0
<1>2. w.pending \notin {"prepare", "start"}
  <2>1. w.step # 1 /\ w.step # 2
    BY <1>0
  <2>2. StepsWait(w)
    BY DEF Truth
  <2> QED
    BY <2>1, <2>2 DEF StepsWait
<1>3. Stepped(w, s).step = s /\ Stepped(w, s).code = w.code
      /\ Stepped(w, s).pending = w.pending
  BY SteppedWritten
<1>4. InOrder(n, Stepped(w, s))
  BY <1>3 DEF Truth, InOrder, Awaited, Polled
<1>5. StepsWait(Stepped(w, s))
  BY <1>2, <1>3 DEF StepsWait
<1>6. Told(Stepped(w, s), c, p)
  <2>1. w.step >= 2
    BY <1>0
  <2> QED
    BY <2>1, <1>3 DEF Truth, Told
<1> QED
  BY <1>4, <1>5, <1>6 DEF Truth

LEMMA BackTruth ==
  ASSUME NEW w \in Wizard, NEW n \in [Message -> Nat], NEW c, NEW p \in BOOLEAN,
         Truth(n, w, c, p), w.step = 3
  PROVE  Truth(n, WithStep(ClearError(w), 2), c, p)
<1> DEFINE v == WithStep(ClearError(w), 2)
<1>1. 2 \in 1..8
  OBVIOUS
<1>2. v.step = 2 /\ v.code # "copy_failed" /\ v.pending = w.pending
  <2>1. /\ ClearError(w) \in Wizard /\ ClearError(w).code # "copy_failed"
        /\ ClearError(w).pending = w.pending
    BY ErrorCleared
  <2> QED
    BY <1>1, <2>1, StepWritten
<1>3. w.pending \notin {"prepare", "start"} /\ p = TRUE
  BY DEF Truth, StepsWait, Told
<1> HIDE DEF v
<1>4. InOrder(n, v)
  BY <1>2 DEF Truth, InOrder, Awaited, Polled
<1>5. StepsWait(v)
  BY <1>2, <1>3 DEF StepsWait
<1>6. Told(v, c, p)
  BY <1>2, <1>3 DEF Told
<1>7. Truth(n, v, c, p)
  BY <1>4, <1>5, <1>6 DEF Truth
<1> QED
  BY <1>7 DEF v

LEMMA PollTruth ==
  ASSUME NEW w \in Wizard, NEW n \in [Message -> Nat], NEW c, NEW p \in BOOLEAN,
         Truth(n, w, c, p), w.step = 3
  PROVE  Truth(Send(n, "status"), Polling(w), c, p)
<1> DEFINE v == Polling(w)
           k == Send(n, "status")
<1>1. v.step = 3 /\ v.code = w.code /\ v.pending = "status"
  BY PollingWritten
<1>2. w.pending \notin {"prepare", "start"} /\ p = TRUE
  BY DEF Truth, StepsWait, Told
<1>3. "status" \in Commands
  BY CommandsAre
<1>4. /\ Asked("status").cmd = "status" /\ Asked("status").body = "asked"
      /\ \A m \in Message : m # Asked("status") => k[m] = n[m]
  BY <1>3, AskedTyped, SendTyped
<1> HIDE DEF v, k
<1>5. ASSUME NEW m \in Message, New(k, m)
      PROVE  m.cmd \notin {"prepare", "start"}
  <2>1. CASE m = Asked("status")
    BY <2>1, <1>4
  <2>2. CASE m # Asked("status")
    <3>1. New(n, m)
      BY <1>4, <1>5, <2>2 DEF New
    <3> QED
      BY <1>2, <3>1 DEF Truth, InOrder, Awaited
  <2> QED
    BY <2>1, <2>2
<1>6. InOrder(k, v)
  BY <1>1, <1>5 DEF InOrder, Awaited, Once, Polled
<1>7. ASSUME NEW m \in Message, New(k, m)
      PROVE  /\ m.cmd = "prepare" /\ m.body = "yes" => p = TRUE
             /\ m.cmd = "status" => p = TRUE
             /\ m.cmd = "status" /\ m.body \in {"finish", "copy_failed"} => c = m.body
  <2>1. CASE m = Asked("status")
    BY <2>1, <1>2, <1>4
  <2>2. CASE m # Asked("status")
    <3>1. New(n, m)
      BY <1>4, <1>7, <2>2 DEF New
    <3> QED
      BY <1>2, <3>1 DEF Truth, AnswersHold
  <2> QED
    BY <2>1, <2>2
<1>8. AnswersHold(k, c, p)
  BY <1>7 DEF AnswersHold
<1>9. StepsWait(v)
  BY <1>1 DEF StepsWait
<1>10. Told(v, c, p)
  BY <1>1, <1>2 DEF Truth, Told
<1>11. Truth(k, v, c, p)
  BY <1>6, <1>8, <1>9, <1>10 DEF Truth
<1> QED
  BY <1>11 DEF k, v

(* An answer that is taken, and has not crossed another.                   *)
LEMMA CodeIs ==
  ASSUME NEW m, ErrorCode(m) = "copy_failed"
  PROVE  m.body = "copy_failed"
<1>1. CASE m.body \in {"no_usb", "format_failed", "copy_failed"}
  BY <1>1, Zenon DEF ErrorCode
<1>2. CASE m.body \notin {"no_usb", "format_failed", "copy_failed"}
  <2>1. ErrorCode(m) = ""
    BY <1>2, Zenon DEF ErrorCode
  <2> QED
    BY <2>1, Zenon
<1> QED
  BY <1>1, <1>2

LEMMA FinishIs ==
  ASSUME NEW m, m.cmd = "status", ReplyStatus(m) = "finish"
  PROVE  m.body = "finish"
<1>1. CASE ErrorCode(m) # ""
  <2>1. ReplyStatus(m) = "error"
    BY <1>1, Zenon DEF ReplyStatus
  <2> QED
    BY <2>1
<1>2. CASE ~(ErrorCode(m) # "")
  <2>1. m.cmd \in {"start", "status"}
    OBVIOUS
  <2>2. ReplyStatus(m) = m.body
    BY <1>2, <2>1, Zenon DEF ReplyStatus
  <2> QED
    BY <2>2
<1> QED
  BY <1>1, <1>2

LEMMA PrepareToldTrue ==
  ASSUME NEW w \in Wizard, NEW c, NEW p \in BOOLEAN, Told(w, c, p), StepsWait(w),
         w.pending = "prepare",
         NEW m \in Message, m.cmd = "prepare", m.body \notin {"asked", "error"},
         m.body = "yes" => p = TRUE
  PROVE  /\ Told(PrepareAnswered(Idle(w), m), c, p)
         /\ PrepareAnswered(Idle(w), m).pending \notin {"prepare", "start"}
<1> DEFINE v == Idle(w)
<1>1. /\ v \in Wizard /\ v.step = 1 /\ v.code # "copy_failed"
      /\ v.pending \notin {"prepare", "start"}
  BY IdleWritten DEF StepsWait
<1> HIDE DEF v
<1>2. CASE ReplyOk(m)
  <2>1. m.body = "yes"
    BY <1>2, MessageParts DEF Bodies, Answers, ReplyOk, Replacing
  <2>2. PrepareAnswered(v, m) = WithStep(v, 2)
    BY <1>2, HandlersAre, Zenon
  <2>3. 2 \in 1..8 /\ 2 < 4
    OBVIOUS
  <2>4. /\ WithStep(v, 2).step = 2 /\ WithStep(v, 2).code = v.code
        /\ WithStep(v, 2).pending = v.pending
    BY <1>1, <2>3, StepWritten
  <2>5. Told(WithStep(v, 2), c, p)
    BY <1>1, <2>1, <2>3, <2>4 DEF Told
  <2> QED
    BY <1>1, <2>2, <2>4, <2>5 DEF v
<1>3. CASE ~ReplyOk(m)
  <2>1. PrepareAnswered(v, m) = WithErr(v)
    BY <1>3, HandlersAre, Zenon
  <2>2. /\ WithErr(v).step = 1 /\ WithErr(v).code = v.code
        /\ WithErr(v).pending = v.pending
    BY <1>1, ErrWritten
  <2>3. Told(WithErr(v), c, p)
    BY <1>1, <2>2 DEF Told
  <2> QED
    BY <1>1, <2>1, <2>2, <2>3 DEF v
<1> QED
  BY <1>2, <1>3

LEMMA StartToldTrue ==
  ASSUME NEW w \in Wizard, NEW c, NEW p \in BOOLEAN, Told(w, c, p), StepsWait(w),
         w.pending = "start",
         NEW m \in Message, m.cmd = "start", m.body \notin {"asked", "error"}
  PROVE  /\ Told(StartAnswered(Idle(w), m), c, p)
         /\ StartAnswered(Idle(w), m).pending \notin {"prepare", "start"}
<1> DEFINE v == Idle(w)
<1>1. /\ v \in Wizard /\ v.step = 2 /\ v.code # "copy_failed"
      /\ v.pending \notin {"prepare", "start"}
  BY IdleWritten DEF StepsWait
<1>2. p = TRUE
  BY DEF Told, StepsWait
<1> HIDE DEF v
<1>3. CASE ReplyStatus(m) = "error"
  <2>1. StartAnswered(v, m) = Coded(v, ErrorCode(m))
    BY <1>3, HandlersAre, Zenon
  <2>2. m.body # "copy_failed"
    BY MessageParts DEF Bodies, Answers
  <2>3. ErrorCode(m) \in Codes /\ ErrorCode(m) # "copy_failed"
    BY <2>2, CodeTyped, CodeIs
  <2>4. /\ Coded(v, ErrorCode(m)).step = 2 /\ Coded(v, ErrorCode(m)).code = ErrorCode(m)
        /\ Coded(v, ErrorCode(m)).pending = v.pending
    BY <1>1, <2>3, CodeWritten
  <2>5. Told(Coded(v, ErrorCode(m)), c, p)
    BY <1>2, <2>3, <2>4 DEF Told
  <2> QED
    BY <1>1, <2>1, <2>4, <2>5 DEF v
<1>4. CASE ReplyStatus(m) # "error"
  <2>1. StartAnswered(v, m) = WithStep(v, 3)
    BY <1>4, HandlersAre, Zenon
  <2>2. 3 \in 1..8 /\ 3 < 4
    OBVIOUS
  <2>3. /\ WithStep(v, 3).step = 3 /\ WithStep(v, 3).code = v.code
        /\ WithStep(v, 3).pending = v.pending
    BY <1>1, <2>2, StepWritten
  <2>4. Told(WithStep(v, 3), c, p)
    BY <1>1, <1>2, <2>2, <2>3 DEF Told
  <2> QED
    BY <1>1, <2>1, <2>3, <2>4 DEF v
<1> QED
  BY <1>3, <1>4

LEMMA StatusToldTrue ==
  ASSUME NEW w \in Wizard, NEW c, NEW p \in BOOLEAN, Told(w, c, p), p = TRUE,
         NEW m \in Message, m.cmd = "status",
         m.body \in {"finish", "copy_failed"} => c = m.body
  PROVE  /\ Told(StatusAnswered(Idle(w), m), c, p)
         /\ StatusAnswered(Idle(w), m).pending \notin {"prepare", "start"}
<1> DEFINE v == Idle(w)
<1>1. /\ v \in Wizard /\ v.step = w.step /\ v.code = w.code
      /\ v.pending \notin {"prepare", "start"}
  BY IdleWritten
<1> HIDE DEF v
<1>2. CASE ReplyStatus(m) = "finish"
  <2> DEFINE u == ClearError(v)
  <2>1. StatusAnswered(v, m) = WithStep(u, 4)
    BY <1>2, HandlersAre, Zenon
  <2>2. u \in Wizard /\ u.code # "copy_failed" /\ u.pending = v.pending
    BY <1>1, ErrorCleared
  <2> HIDE DEF u
  <2>3. 4 \in 1..8
    OBVIOUS
  <2>4. /\ WithStep(u, 4).step = 4 /\ WithStep(u, 4).code = u.code
        /\ WithStep(u, 4).pending = u.pending
    BY <2>2, <2>3, StepWritten
  <2>5. c = "finish"
    BY <1>2, FinishIs
  <2>6. Told(WithStep(u, 4), c, p)
    BY <2>2, <2>4, <2>5 DEF Told
  <2> QED
    BY <1>1, <2>1, <2>2, <2>4, <2>6 DEF v
<1>3. CASE ReplyStatus(m) = "error"
  <2>1. StatusAnswered(v, m) = Coded(v, ErrorCode(m))
    <3>1. ReplyStatus(m) # "finish"
      BY <1>3
    <3> QED
      BY <1>3, <3>1, HandlersAre, Zenon
  <2>2. ErrorCode(m) \in Codes /\ (ErrorCode(m) = "copy_failed" => c = "copy_failed")
    BY CodeTyped, CodeIs
  <2>3. /\ Coded(v, ErrorCode(m)).step = v.step /\ Coded(v, ErrorCode(m)).code = ErrorCode(m)
        /\ Coded(v, ErrorCode(m)).pending = v.pending
    BY <1>1, <2>2, CodeWritten
  <2>4. Told(Coded(v, ErrorCode(m)), c, p)
    BY <1>1, <2>2, <2>3 DEF Told
  <2> QED
    BY <1>1, <2>1, <2>3, <2>4 DEF v
<1>4. CASE ReplyStatus(m) \notin {"finish", "error"}
  <2>1. StatusAnswered(v, m) = v
    BY <1>4, HandlersAre, Zenon
  <2>2. Told(v, c, p)
    BY <1>1 DEF Told
  <2> QED
    BY <1>1, <2>1, <2>2 DEF v
<1> QED
  BY <1>2, <1>3, <1>4

LEMMA TakenTruth ==
  ASSUME NEW w \in Wizard, NEW n \in [Message -> Nat], NEW c, NEW p \in BOOLEAN,
         Truth(n, w, c, p), NEW m \in Message, n[m] > 0, m.body # "asked",
         Ignores(w, m) \/ (m.old = FALSE /\ m.cmd \in Replacing)
  PROVE  Truth([n EXCEPT ![m] = @ - 1], WizardTakes(w, m), c, p)
<1> DEFINE k == [n EXCEPT ![m] = @ - 1]
           v == WizardTakes(w, m)
<1>0. k \in [Message -> Nat]
  BY MoveTyped
<1>k. k[m] = n[m] - 1 /\ n[m] \in Nat
  OBVIOUS
<1>1. \A x \in Message : New(k, x) => New(n, x) /\ k[x] <= n[x]
  BY GoneFewer
<1> HIDE DEF k, v
<1>2. (\A u : InOrder(n, u) => InOrder(k, u)) /\ AnswersHold(k, c, p)
  BY <1>0, <1>1, FewerInOrder DEF Truth
<1>3. CASE Ignores(w, m)
  <2>1. v = w
    BY <1>3, HandlersAre, Zenon DEF v
  <2>2. Truth(k, v, c, p)
    BY <1>2, <2>1 DEF Truth
  <2> QED
    BY <2>2 DEF k, v
<1>4. CASE ~Ignores(w, m)
  <2>1. New(n, m) /\ m.cmd \in Replacing
    BY <1>4 DEF New
  <2>2. ASSUME NEW x \in Message, New(k, x)
        PROVE  x.cmd \notin {"prepare", "start"}
    <3> SUFFICES ASSUME x.cmd \in {"prepare", "start"} PROVE FALSE
      OBVIOUS
    <3>1. New(n, x)
      BY <1>1, <2>2
    <3>2. w.pending = x.cmd /\ n[x] = 1
      BY <3>1 DEF Truth, InOrder, Awaited
    <3>3. m.cmd # "status"
      BY <2>1, <3>2 DEF Truth, InOrder, Polled
    <3>4. m.cmd \in {"prepare", "start"}
      BY <2>1, <3>3 DEF Replacing
    <3>5. w.pending = m.cmd
      BY <2>1, <3>4 DEF Truth, InOrder, Awaited
    <3>6. m = x
      BY <2>1, <3>1, <3>2, <3>4, <3>5 DEF Truth, InOrder, Once
    <3>7. k[x] = 0
      BY <1>k, <3>2, <3>6
    <3> QED
      BY <2>2, <3>7 DEF New
  <2>3. Told(w, c, p) /\ StepsWait(w)
    BY DEF Truth
  <2>4. /\ m.cmd = "prepare" /\ m.body = "yes" => p = TRUE
        /\ m.cmd = "status" => p = TRUE
        /\ m.cmd = "status" /\ m.body \in {"finish", "copy_failed"} => c = m.body
    BY <2>1 DEF Truth, AnswersHold
  <2>5. /\ m.cmd \in {"prepare", "start"} => w.pending = m.cmd
        /\ m.cmd = "status" => w.pending \notin {"prepare", "start"}
    BY <2>1 DEF Truth, InOrder, Awaited, Polled
  <2>6. Told(v, c, p) /\ v.pending \notin {"prepare", "start"}
    <3>1. CASE m.body = "error"
      <4>1. v = Broken(w)
        BY <1>4, <3>1, HandlersAre, Zenon DEF v
      <4>2. /\ Broken(w).step = w.step /\ Broken(w).code = w.code
            /\ Broken(w).pending \notin {"prepare", "start"}
        BY BrokenWritten
      <4> QED
        BY <2>3, <4>1, <4>2 DEF Told
    <3>2. CASE m.body # "error"
      <4>1. v = HandleReplaceResult(w, m)
        BY <1>4, <3>2, HandlersAre, Zenon DEF v
      <4>2. CASE m.cmd = "prepare"
        <5>1. w.pending = "prepare"
          BY <2>5, <4>2
        <5>2. v = PrepareAnswered(Idle(w), m)
          BY <4>1, <5>1, HandlersAre, Zenon
        <5> QED
          BY <2>3, <2>4, <3>2, <4>2, <5>1, <5>2, PrepareToldTrue
      <4>3. CASE m.cmd = "start"
        <5>1. w.pending = "start" /\ w.pending # "prepare"
          BY <2>5, <4>3
        <5>2. v = StartAnswered(Idle(w), m)
          BY <4>1, <5>1, HandlersAre, Zenon
        <5> QED
          BY <2>3, <3>2, <4>3, <5>1, <5>2, StartToldTrue
      <4>4. CASE m.cmd = "status"
        <5>1. w.pending # "prepare" /\ w.pending # "start"
          BY <2>5, <4>4
        <5>2. v = StatusAnswered(Idle(w), m)
          BY <4>1, <5>1, HandlersAre, Zenon
        <5> QED
          BY <2>3, <2>4, <4>4, <5>2, StatusToldTrue
      <4> QED
        BY <2>1, <4>2, <4>3, <4>4 DEF Replacing
    <3> QED
      BY <3>1, <3>2
  <2>7. InOrder(k, v)
    BY <2>2, <2>6 DEF InOrder, Awaited, Once, Polled
  <2>8. StepsWait(v)
    BY <2>6 DEF StepsWait
  <2>9. Truth(k, v, c, p)
    BY <1>2, <2>6, <2>7, <2>8 DEF Truth
  <2> QED
    BY <2>9 DEF k, v
<1> QED
  BY <1>3, <1>4

(* The NAS answers a command that is new, or one that is nobody's here.    *)
LEMMA ServedTruth ==
  ASSUME TypeOK, NEW w \in Wizard, Truth(net, w, nas.copy, prepared),
         NEW m \in Message, NEW b \in Answers(m.cmd),
         Serve(m, b), m.old = FALSE
  PROVE  Truth(net', w, nas'.copy, prepared')
<1>1. PICK body \in {b} \cup (Faults \cap {"error"}) :
        net' = [net EXCEPT ![m] = @ - 1, ![[m EXCEPT !.body = body]] = @ + 1]
  BY DEF Serve
<1> DEFINE d == [m EXCEPT !.body = body]
<1>2. /\ d \in Message /\ d.cmd = m.cmd /\ d.old = m.old /\ d.body = body /\ d # m
  BY BodyTyped DEF Serve
<1>3. net' = Moved(net, m, d) /\ net[m] > 0 /\ net \in [Message -> Nat]
  BY <1>1 DEF Moved, Serve, TypeOK
<1> HIDE DEF d
<1>4. New(net, m)
  BY <1>3 DEF New
<1>5. InOrder(net, w) /\ AnswersHold(net, nas.copy, prepared) /\ StepsWait(w)
      /\ Told(w, nas.copy, prepared)
  BY DEF Truth
<1>6. InOrder(net', w)
  BY <1>2, <1>3, <1>5, MovedInOrder
<1>7. prepared' = TRUE <=> (prepared = TRUE \/ (m = Asked("prepare") /\ b = "yes"))
  BY DEF Serve, TypeOK
<1>8. m.cmd = "prepare" => m = Asked("prepare")
  <2> SUFFICES ASSUME m.cmd = "prepare" PROVE m = Asked("prepare")
    OBVIOUS
  <2>1. m = [cmd |-> m.cmd, old |-> m.old, body |-> m.body]
    BY MessageParts
  <2>2. m.body = "asked" /\ m.old = FALSE /\ m.cmd = "prepare"
    BY DEF Serve
  <2> QED
    BY <2>1, <2>2 DEF Asked
<1>9. nas'.copy = nas.copy \/ w.pending \in {"prepare", "start"}
  <2>1. nas' = Effect(m.cmd, b) /\ nas \in Nas
    BY DEF Serve, TypeOK
  <2>2. m.cmd \in {"prepare", "start"} => w.pending = m.cmd
    BY <1>4, <1>5 DEF InOrder, Awaited
  <2> QED
    BY <2>1, <2>2, EffectCopy
<1>10. nas'.copy # nas.copy => w.step < 4 /\ w.code # "copy_failed"
  BY <1>5, <1>9 DEF StepsWait
<1>11. Told(w, nas'.copy, prepared')
  <2>1. w.step \in 1..8
    BY DEF Wizard
  <2>2. w.step >= 2 => prepared' = TRUE
    BY <1>5, <1>7 DEF Told
  <2>3. CASE nas'.copy = nas.copy
    BY <1>5, <2>2, <2>3 DEF Told
  <2>4. CASE nas'.copy # nas.copy
    BY <1>10, <2>1, <2>2, <2>4 DEF Told
  <2> QED
    BY <2>3, <2>4
<1>12. ASSUME NEW x \in Message, New(net', x), x # d
       PROVE  /\ x.cmd = "prepare" /\ x.body = "yes" => prepared' = TRUE
              /\ x.cmd = "status" => prepared' = TRUE
              /\ x.cmd = "status" /\ x.body \in {"finish", "copy_failed"} =>
                   nas'.copy = x.body
  <2>1. New(net, x)
    BY <1>2, <1>3, <1>12, MovedNew
  <2>2. x.cmd = "status" => nas'.copy = nas.copy
    BY <1>5, <1>9, <2>1 DEF InOrder, Polled
  <2> QED
    BY <1>5, <1>7, <2>1, <2>2 DEF AnswersHold
<1>13. /\ d.cmd = "prepare" /\ d.body = "yes" => prepared' = TRUE
       /\ d.cmd = "status" => prepared' = TRUE
       /\ d.cmd = "status" /\ d.body \in {"finish", "copy_failed"} => nas'.copy = d.body
  <2>1. d.cmd = "prepare" /\ d.body = "yes" => prepared' = TRUE
    BY <1>2, <1>7, <1>8
  <2>2. d.cmd = "status" => prepared = TRUE
    BY <1>2, <1>4, <1>5 DEF AnswersHold
  <2>3. d.cmd = "status" => nas'.copy = nas.copy
    BY <1>2, <1>4, <1>5, <1>9 DEF InOrder, Polled
  <2>4. d.cmd = "status" => b = nas.copy
    BY <1>2 DEF Serve, Truthful
  <2>5. body = b \/ body = "error"
    OBVIOUS
  <2> QED
    BY <1>2, <1>7, <2>1, <2>2, <2>3, <2>4, <2>5
<1>14. AnswersHold(net', nas'.copy, prepared')
  BY <1>12, <1>13 DEF AnswersHold
<1> QED
  BY <1>5, <1>6, <1>11, <1>14 DEF Truth

LEMMA TruthInit == Init => TruthInv
<1> SUFFICES ASSUME Init PROVE ~wizard.open
  BY DEF TruthInv
<1> QED
  BY ClosedTyped DEF Init

LEMMA TruthNext == TypeOK /\ TruthInv /\ [Next]_vars => TruthInv'
<1> SUFFICES ASSUME TypeOK, TruthInv, [Next]_vars,
                    wizard'.open, "crossed" \notin mishaps'
             PROVE  Truth(net', wizard', nas'.copy, prepared')
  BY DEF TruthInv
<1>typ. /\ net \in [Message -> Nat] /\ wizard \in Wizard /\ prepared \in BOOLEAN
        /\ nas \in Nas
  BY DEF TypeOK
<1>other. {"login", "hdd", "init"} \subseteq Commands \ Replacing
  BY CommandsAre DEF Replacing
<1>inv. wizard.open /\ "crossed" \notin mishaps => Truth(net, wizard, nas.copy, prepared)
  BY DEF TruthInv
<1>sent. ASSUME NEW n \in [Message -> Nat], NEW c \in Commands \ Replacing,
                NEW w, NEW k, NEW p, Truth(n, w, k, p)
         PROVE  Truth(Send(n, c), w, k, p)
  <2>1. Send(n, c) \in [Message -> Nat]
    BY SendTyped
  <2>2. \A m \in Message : New(Send(n, c), m) /\ m.cmd \in Replacing =>
          New(n, m) /\ Send(n, c)[m] <= n[m]
    BY SentOtherFewer
  <2>3. InOrder(Send(n, c), w) /\ AnswersHold(Send(n, c), k, p)
    BY <1>sent, <2>1, <2>2, FewerInOrder DEF Truth
  <2> QED
    BY <1>sent, <2>3 DEF Truth
<1>1. CASE LogIn
  BY <1>1, <1>typ, <1>inv, <1>other, <1>sent DEF LogIn
<1>2. CASE Refresh
  BY <1>2, <1>typ, <1>inv, <1>other, <1>sent DEF Refresh
<1>3. CASE InitHdd
  BY <1>3, <1>typ, <1>inv, <1>other, <1>sent DEF InitHdd
<1>4. CASE Open
  <2>1. wizard' = Opened(Closed) /\ net' = Send(Aged(net), "prepare")
    BY <1>4 DEF Open, Opened
  <2>2. /\ wizard'.step = 1 /\ wizard'.code # "copy_failed"
        /\ wizard'.pending = "prepare"
    BY <2>1, ClosedTyped, OpenedWritten
  <2>3. InOrder(net', wizard') /\ AnswersHold(net', nas'.copy, prepared')
    BY <2>1, <2>2, <1>typ, BegunTruth
  <2>4. StepsWait(wizard')
    BY <2>2 DEF StepsWait
  <2>5. Told(wizard', nas'.copy, prepared')
    BY <2>2 DEF Told
  <2> QED
    BY <2>3, <2>4, <2>5 DEF Truth
<1>5. CASE Leave
  BY <1>5, ClosedTyped DEF Leave
<1>6. CASE RunStart
  <2> DEFINE w == ClearError(wizard)
  <2>1. wizard' = Asking(w, "start")
    BY <1>6, Zenon DEF RunStart, Asking
  <2>2. /\ net' = Send(Aged(net), "start") /\ prepared' = prepared /\ nas' = nas
        /\ wizard.open /\ wizard.step = 2 /\ "crossed" \notin mishaps
    BY <1>6 DEF RunStart
  <2>3. w \in Wizard /\ w.step = 2 /\ w.code # "copy_failed"
    BY <2>2, <1>typ, ErrorCleared
  <2> HIDE DEF w
  <2>4. /\ wizard'.step = 2 /\ wizard'.code # "copy_failed"
        /\ wizard'.pending = "start"
    BY <2>1, <2>3, AskingWritten
  <2>5. InOrder(net', wizard') /\ AnswersHold(net', nas'.copy, prepared')
    BY <2>2, <2>4, <1>typ, BegunTruth
  <2>6. prepared' = TRUE
    BY <2>2, <1>inv DEF Truth, Told
  <2>7. StepsWait(wizard')
    BY <2>4 DEF StepsWait
  <2>8. Told(wizard', nas'.copy, prepared')
    BY <2>4, <2>6 DEF Told
  <2> QED
    BY <2>5, <2>7, <2>8 DEF Truth
<1>7. CASE Back
  <2>1. wizard' = WithStep(ClearError(wizard), 2)
    BY <1>7, Zenon DEF Back, WithStep
  <2>2. /\ net' = net /\ prepared' = prepared /\ nas' = nas
        /\ wizard.open /\ wizard.step = 3 /\ "crossed" \notin mishaps
    BY <1>7 DEF Back
  <2> QED
    BY <2>1, <2>2, <1>typ, <1>inv, BackTruth
<1>8. CASE Turn
  <2>1. PICK s \in 1..8 : /\ s = wizard.step - 1 \/ s = wizard.step + 1
                          /\ wizard' = Stepped(wizard, s)
    BY <1>8, Zenon DEF Turn, Stepped
  <2>2. /\ net' = net /\ prepared' = prepared /\ nas' = nas
        /\ wizard.open /\ wizard.step >= 4 /\ "crossed" \notin mishaps
    BY <1>8 DEF Turn
  <2> QED
    BY <2>1, <2>2, <1>typ, <1>inv, TurnTruth
<1>9. CASE HddTimer
  <2>1. /\ net' = Send(net, "hdd") \/ net' = net
        /\ nas' = nas /\ wizard' = wizard /\ prepared' = prepared
        /\ "crossed" \notin mishaps
    BY <1>9 DEF HddTimer
  <2> QED
    BY <2>1, <1>typ, <1>inv, <1>other, <1>sent
<1>10. CASE StatusTimer
  <2>1. wizard' = Polling(wizard)
    BY <1>10, Zenon DEF StatusTimer, Polling
  <2>2. /\ net' = Send(net, "status") /\ prepared' = prepared /\ nas' = nas
        /\ wizard.open /\ wizard.step = 3 /\ "crossed" \notin mishaps
    BY <1>10 DEF StatusTimer
  <2> QED
    BY <2>1, <2>2, <1>typ, <1>inv, PollTruth
<1>11. ASSUME NEW m \in Message, NEW b \in Answers(m.cmd), Serve(m, b)
       PROVE  Truth(net', wizard', nas'.copy, prepared')
  <2>1. wizard' = wizard /\ m.old = FALSE /\ "crossed" \notin mishaps
    <3>1. m.old \in BOOLEAN
      BY MessageParts
    <3> QED
      BY <1>11, <3>1 DEF Serve
  <2>2. Truth(net, wizard, nas.copy, prepared)
    BY <2>1, <1>inv
  <2> QED
    BY <1>11, <2>1, <2>2, <1>typ, ServedTruth
<1>12. ASSUME NEW m \in Message, Fail(m)
       PROVE  Truth(net', wizard', nas'.copy, prepared')
  <2>1. /\ wizard' = wizard /\ nas' = nas /\ prepared' = prepared
        /\ "crossed" \notin mishaps /\ net[m] > 0
    BY <1>12 DEF Fail
  <2>2. Truth(net, wizard, nas.copy, prepared)
    BY <2>1, <1>inv
  <2>3. CASE net' = [net EXCEPT ![m] = @ - 1]
    <3>1. net' \in [Message -> Nat]
      BY <2>1, <2>3, <1>typ, MoveTyped
    <3>2. \A x \in Message : New(net', x) => New(net, x) /\ net'[x] <= net[x]
      BY <2>1, <2>3, <1>typ, GoneFewer
    <3>3. InOrder(net', wizard) /\ AnswersHold(net', nas.copy, prepared)
      BY <2>2, <3>1, <3>2, <1>typ, FewerInOrder DEF Truth
    <3> QED
      BY <2>1, <2>2, <3>3 DEF Truth
  <2>4. CASE m.body = "asked"
             /\ net' = [net EXCEPT ![m] = @ - 1, ![[m EXCEPT !.body = "error"]] = @ + 1]
    <3> DEFINE d == [m EXCEPT !.body = "error"]
    <3>1. /\ d \in Message /\ d.cmd = m.cmd /\ d.old = m.old /\ d.body = "error" /\ d # m
      BY <2>4, BodyTyped
    <3>2. net' = Moved(net, m, d)
      BY <2>4 DEF Moved
    <3> HIDE DEF d
    <3>3. InOrder(net', wizard)
      BY <2>1, <2>2, <3>1, <3>2, <1>typ, MovedInOrder DEF Truth
    <3>4. ASSUME NEW x \in Message, New(net', x)
          PROVE  /\ x.cmd = "prepare" /\ x.body = "yes" => prepared = TRUE
                 /\ x.cmd = "status" => prepared = TRUE
                 /\ x.cmd = "status" /\ x.body \in {"finish", "copy_failed"} =>
                      nas.copy = x.body
      <4>1. AnswersHold(net, nas.copy, prepared)
        BY <2>2 DEF Truth
      <4>2. CASE x = d
        <5>1. New(net, m)
          BY <2>1, <3>1, <3>2, <3>4, <4>2, <1>typ, MovedNew
        <5> QED
          BY <3>1, <4>1, <4>2, <5>1 DEF AnswersHold
      <4>3. CASE x # d
        <5>1. New(net, x)
          BY <2>1, <3>1, <3>2, <3>4, <4>3, <1>typ, MovedNew
        <5> QED
          BY <4>1, <5>1 DEF AnswersHold
      <4> QED
        BY <4>2, <4>3
    <3>5. AnswersHold(net', nas.copy, prepared)
      BY <3>4 DEF AnswersHold
    <3> QED
      BY <2>1, <2>2, <3>3, <3>5 DEF Truth
  <2> QED
    BY <1>12, <2>3, <2>4 DEF Fail
<1>13. ASSUME NEW m \in Message, Deliver(m)
       PROVE  Truth(net', wizard', nas'.copy, prepared')
  <2> DEFINE gone == [net EXCEPT ![m] = @ - 1]
  <2>1. /\ wizard' = WizardTakes(wizard, m) /\ nas' = nas /\ prepared' = prepared
        /\ m.body # "asked" /\ net[m] > 0 /\ "crossed" \notin mishaps
        /\ net' = Send(gone, "hdd") \/ net' = gone
    BY <1>13 DEF Deliver
  <2>2. Ignores(wizard, m) \/ (m.old = FALSE /\ m.cmd \in Replacing)
    <3>1. m.old \in BOOLEAN
      BY MessageParts
    <3> QED
      BY <1>13, <3>1 DEF Deliver
  <2>3. wizard.open
    <3> SUFFICES ASSUME ~wizard.open PROVE FALSE
      OBVIOUS
    <3>1. Ignores(wizard, m)
      BY DEF Ignores
    <3>2. wizard' = wizard
      BY <2>1, <3>1, HandlersAre, Zenon
    <3> QED
      BY <3>2
  <2>4. Truth(net, wizard, nas.copy, prepared)
    BY <2>1, <2>3, <1>inv
  <2>5. Truth(gone, wizard', nas.copy, prepared)
    BY <2>1, <2>2, <2>4, <1>typ, TakenTruth
  <2>6. gone \in [Message -> Nat]
    BY <2>1, <1>typ, MoveTyped
  <2> HIDE DEF gone
  <2>7. Truth(Send(gone, "hdd"), wizard', nas.copy, prepared)
    BY <2>5, <2>6, <1>other, <1>sent
  <2> QED
    BY <2>1, <2>5, <2>7
<1>14. CASE NasEnds
  <2>1. /\ wizard' = wizard /\ net' = net /\ prepared' = prepared
        /\ "crossed" \notin mishaps
        /\ nas'.copy = nas.copy \/ nas.copy = "copy"
    BY <1>14, <1>typ DEF NasEnds, Nas
  <2>2. Truth(net, wizard, nas.copy, prepared)
    BY <2>1, <1>inv
  <2>3. AnswersHold(net, nas'.copy, prepared)
    BY <2>1, <2>2 DEF Truth, AnswersHold
  <2>4. Told(wizard, nas'.copy, prepared)
    BY <2>1, <2>2 DEF Truth, Told
  <2> QED
    BY <2>1, <2>2, <2>3, <2>4 DEF Truth
<1>15. CASE UNCHANGED vars
  BY <1>15, <1>inv DEF vars
<1> QED
  BY <1>1, <1>2, <1>3, <1>4, <1>5, <1>6, <1>7, <1>8, <1>9, <1>10, <1>11, <1>12,
     <1>13, <1>14, <1>15 DEF Next, Timers, Network

(* What the wizard tells the user is so, as long as nothing has crossed:   *)
(* whatever is lost or fails, and however often the user leaves the page.  *)
THEOREM WizardTellsTheTruth == Spec => []StepsAreTrue
<1>1. TypeOK /\ TruthInv /\ [Next]_vars => (TypeOK /\ TruthInv)'
  BY TypeNext, TruthNext
<1>2. TruthInv => StepsAreTrue
  BY DEF TruthInv, Truth, Told, StepsAreTrue
<1> QED
  BY <1>1, <1>2, TypeInit, TruthInit, PTL DEF Spec

-----------------------------------------------------------------------------
(* What a wizard waits for. *)

(***************************************************************************)
(* A wizard that waits for the answer to a prepare or a start is owed it,  *)
(* and one that shows the copy has begun it: the polls have something to   *)
(* come to an end; unless a message was lost or crossed another            *)
(* (DiskReplaceWizardPage.qml, handleReplaceResult).  GetsOn rests on it.  *)
(***************************************************************************)
Begun == {"copy", "finish", "copy_failed"}

WaitsForOwn ==
  wizard.open /\ mishaps \cap {"lost", "crossed"} = {} =>
    /\ wizard.busy = TRUE =>
         /\ wizard.pending \in {"prepare", "start"}
         /\ \E m \in Message : New(net, m) /\ m.cmd = wizard.pending
    /\ wizard.step = 3 /\ wizard.err = FALSE => nas.copy \in Begun

Owed(n, w) ==
  w.busy = TRUE => \E m \in Message : /\ New(n, m) /\ m.cmd = w.pending
                                      /\ m.cmd \in {"prepare", "start"}

Copying(w, c) == w.step = 3 /\ w.err = FALSE => c \in Begun

\* The NAS that answered so has begun.
StartsHold(n, c) ==
  \A m \in Message : New(n, m) /\ m.cmd = "start" /\ m.body = "copy" => c \in Begun

Waits(n, w, c) == Owed(n, w) /\ Copying(w, c) /\ StartsHold(n, c)

WaitInv ==
  wizard.open /\ mishaps \cap {"lost", "crossed"} = {} => Waits(net, wizard, nas.copy)

LEMMA BusyWritten ==
  ASSUME NEW w \in Wizard, NEW s \in 1..8, NEW c \in Codes
  PROVE  /\ WithStep(w, s).busy = w.busy /\ WithErr(w).busy = w.busy
         /\ Stepped(w, s).busy = w.busy /\ Coded(w, c).busy = w.busy
         /\ ClearError(w).busy = w.busy /\ Polling(w).busy = w.busy
         /\ Idle(w).busy = FALSE /\ Broken(w).busy = FALSE
  BY DEF WithStep, WithErr, Stepped, Coded, ClearError, Polling, Idle, Broken, Wizard

LEMMA ErrKept ==
  ASSUME NEW w \in Wizard, NEW c \in Codes
  PROVE  /\ Coded(w, c).err = TRUE /\ Broken(w).err = TRUE
         /\ Idle(w).err = w.err /\ Polling(w).err = w.err
  BY DEF Coded, Broken, Idle, Polling, Wizard

(* What is under way to be answered stays so.                              *)
LEMMA OwedStays ==
  ASSUME NEW n, NEW k, NEW w, NEW v, Owed(n, w), v.pending = w.pending, v.busy = w.busy,
         \A m \in Message : New(n, m) => New(k, m)
  PROVE  Owed(k, v)
  BY DEF Owed

LEMMA SentStays ==
  ASSUME NEW n \in [Message -> Nat], NEW c \in Commands, NEW m \in Message, New(n, m)
  PROVE  New(Send(n, c), m)
  BY SendTyped DEF New

LEMMA SentWaits ==
  ASSUME NEW n \in [Message -> Nat], NEW c \in Commands \ Replacing, NEW w, NEW k,
         Waits(n, w, k)
  PROVE  Waits(Send(n, c), w, k)
<1>1. Owed(Send(n, c), w)
  BY SentStays, OwedStays DEF Waits
<1>2. StartsHold(Send(n, c), k)
  BY SentOtherFewer DEF Waits, StartsHold, Replacing
<1> QED
  BY <1>1, <1>2 DEF Waits

LEMMA BegunWaits ==
  ASSUME NEW n \in [Message -> Nat], NEW c \in {"prepare", "start"}, NEW w, NEW k,
         w.pending = c, w.step \in {1, 2}
  PROVE  Waits(Send(Aged(n), c), w, k)
<1>1. c \in Commands
  BY CommandsAre
<1>2. Asked(c) \in Message /\ Asked(c).cmd = c /\ Asked(c).body = "asked"
      /\ Asked(c).old = FALSE
  BY <1>1, AskedTyped
<1>3. Aged(n) \in [Message -> Nat]
  BY AgedTyped
<1>4. Send(Aged(n), c)[Asked(c)] > 0
  <2>1. Aged(n)[Asked(c)] \in Nat
    BY <1>2, <1>3
  <2>2. Send(Aged(n), c)[Asked(c)] = Aged(n)[Asked(c)] + 1
    BY <1>1, <1>2, <1>3, SendTyped
  <2> QED
    BY <2>1, <2>2
<1>5. Owed(Send(Aged(n), c), w)
  BY <1>2, <1>4 DEF Owed, New
<1>6. StartsHold(Send(Aged(n), c), k)
  BY <1>1, <1>2, OnlyAsked DEF StartsHold
<1>7. Copying(w, k)
  BY DEF Copying
<1> QED
  BY <1>5, <1>6, <1>7 DEF Waits

(* An answer that is taken, and has not crossed another, ends the waiting. *)
LEMMA CopyStatus ==
  ASSUME NEW m \in Message, m.cmd = "start", m.body \notin {"asked", "error"},
         ReplyStatus(m) # "error"
  PROVE  m.body = "copy"
<1>1. m.body \in {"copy", "no_usb", "format_failed"}
  BY MessageParts DEF Bodies, Answers
<1>2. ASSUME m.body \in {"no_usb", "format_failed"} PROVE FALSE
  <2>1. ErrorCode(m) = m.body
    BY <1>2, Zenon DEF ErrorCode
  <2>2. ErrorCode(m) # ""
    BY <1>2, <2>1
  <2>3. ReplyStatus(m) = "error"
    BY <2>2, Zenon DEF ReplyStatus
  <2> QED
    BY <2>3
<1> QED
  BY <1>1, <1>2

LEMMA TakenWaits ==
  ASSUME NEW w \in Wizard, NEW n, NEW c, StepsWait(w), Copying(w, c), StartsHold(n, c),
         NEW m \in Message, New(n, m), m.body # "asked", ~Ignores(w, m),
         m.cmd \in Replacing,
         m.cmd \in {"prepare", "start"} => w.pending = m.cmd,
         m.cmd = "status" => w.pending \notin {"prepare", "start"}
  PROVE  WizardTakes(w, m).busy = FALSE /\ Copying(WizardTakes(w, m), c)
<1> DEFINE v == Idle(w)
<1>2. ErrorCode(m) \in Codes /\ 1 \in 1..8
  BY CodeTyped
<1>1. v \in Wizard /\ v.busy = FALSE /\ v.step = w.step /\ v.err = w.err
  BY <1>2, IdleWritten, BusyWritten, ErrKept
<1>3. CASE m.body = "error"
  <2>1. WizardTakes(w, m) = Broken(w)
    BY <1>3, HandlersAre, Zenon
  <2> QED
    BY <1>2, <2>1, BusyWritten, ErrKept DEF Copying
<1> HIDE DEF v
<1>c. Coded(v, ErrorCode(m)).busy = FALSE /\ Coded(v, ErrorCode(m)).err = TRUE
  <2>1. Coded(v, ErrorCode(m)).busy = v.busy
    BY <1>1, <1>2, BusyWritten
  <2>2. Coded(v, ErrorCode(m)).err = TRUE
    BY <1>1, <1>2, ErrKept
  <2> QED
    BY <1>1, <2>1, <2>2
<1>4. CASE m.body # "error" /\ m.cmd = "prepare"
  <2>1. w.pending = "prepare" /\ w.step = 1
    BY <1>4 DEF StepsWait
  <2>2. WizardTakes(w, m) = PrepareAnswered(v, m)
    BY <1>4, <2>1, HandlersAre, Zenon DEF v
  <2>3. 1 \in 1..8 /\ 2 \in 1..8
    OBVIOUS
  <2>4. /\ WithStep(v, 2).step = 2 /\ WithStep(v, 2).busy = FALSE
        /\ WithErr(v).step = 1 /\ WithErr(v).busy = FALSE
    BY <1>1, <1>2, <2>1, <2>3, StepWritten, ErrWritten, BusyWritten
  <2>5. PrepareAnswered(v, m) \in {WithStep(v, 2), WithErr(v)}
    BY HandlersAre, Zenon
  <2> QED
    BY <2>2, <2>4, <2>5 DEF Copying
<1>5. CASE m.body # "error" /\ m.cmd = "start"
  <2>1. w.pending = "start" /\ w.pending # "prepare"
    BY <1>5
  <2>2. WizardTakes(w, m) = StartAnswered(v, m)
    BY <1>5, <2>1, HandlersAre, Zenon DEF v
  <2>3. CASE ReplyStatus(m) = "error"
    <3>1. StartAnswered(v, m) = Coded(v, ErrorCode(m))
      BY <2>3, HandlersAre, Zenon
    <3> QED
      BY <1>c, <2>2, <3>1 DEF Copying
  <2>4. CASE ReplyStatus(m) # "error"
    <3>1. StartAnswered(v, m) = WithStep(v, 3)
      BY <2>4, HandlersAre, Zenon
    <3>2. c \in Begun
      BY <1>5, <2>4, CopyStatus DEF StartsHold
    <3>3. 3 \in 1..8
      OBVIOUS
    <3>4. WithStep(v, 3).busy = FALSE
      BY <1>1, <1>2, <3>3, BusyWritten
    <3> QED
      BY <2>2, <3>1, <3>2, <3>4 DEF Copying
  <2> QED
    BY <2>3, <2>4
<1>6. CASE m.body # "error" /\ m.cmd = "status"
  <2>1. w.pending # "prepare" /\ w.pending # "start"
    BY <1>6
  <2>2. WizardTakes(w, m) = StatusAnswered(v, m)
    <3>1. WizardTakes(w, m) = HandleReplaceResult(w, m)
      BY <1>6, HandlersAre, Zenon
    <3> QED
      BY <2>1, <3>1, HandlersAre, Zenon DEF v
  <2>3. CASE ReplyStatus(m) = "finish"
    <3> DEFINE u == ClearError(v)
    <3>1. StatusAnswered(v, m) = WithStep(u, 4)
      BY <2>3, HandlersAre, Zenon
    <3>2. 1 \in 1..8 /\ 4 \in 1..8
      OBVIOUS
    <3>3. u \in Wizard /\ u.busy = FALSE
      BY <1>1, <1>2, <3>2, ErrorCleared, BusyWritten
    <3> HIDE DEF u
    <3>4. WithStep(u, 4).step = 4 /\ WithStep(u, 4).busy = FALSE
      BY <1>2, <3>2, <3>3, StepWritten, BusyWritten
    <3> QED
      BY <2>2, <3>1, <3>4 DEF Copying
  <2>4. CASE ReplyStatus(m) = "error"
    <3>1. ReplyStatus(m) # "finish"
      BY <2>4
    <3>2. StatusAnswered(v, m) = Coded(v, ErrorCode(m))
      BY <2>4, <3>1, HandlersAre, Zenon
    <3> QED
      BY <1>c, <2>2, <3>2 DEF Copying
  <2>5. CASE ReplyStatus(m) \notin {"finish", "error"}
    <3>1. StatusAnswered(v, m) = v
      BY <2>5, HandlersAre, Zenon
    <3> QED
      BY <1>1, <2>2, <3>1 DEF Copying
  <2> QED
    BY <2>3, <2>4, <2>5
<1> QED
  BY <1>3, <1>4, <1>5, <1>6 DEF Replacing

(* A message that becomes another of its command is still the one owed.    *)
LEMMA MovedOwed ==
  ASSUME NEW n \in [Message -> Nat], NEW m \in Message, NEW d \in Message, d # m,
         n[m] > 0, d.cmd = m.cmd, d.old = m.old, NEW w, Owed(n, w)
  PROVE  Owed(Moved(n, m, d), w)
<1> DEFINE k == Moved(n, m, d)
<1>1. n[m] \in Nat /\ n[d] \in Nat
  OBVIOUS
<1>2. k[d] = n[d] + 1 /\ \A x \in Message : x # m /\ x # d => k[x] = n[x]
  BY <1>1 DEF Moved
<1> HIDE DEF k
<1>3. k[d] > 0
  BY <1>1, <1>2
<1>4. \A x \in Message : New(n, x) =>
        \E y \in Message : New(k, y) /\ y.cmd = x.cmd
  BY <1>2, <1>3 DEF New
<1>5. Owed(k, w)
  BY <1>4 DEF Owed
<1> QED
  BY <1>5 DEF k

LEMMA ServedWaits ==
  ASSUME TypeOK, NEW w \in Wizard, Truth(net, w, nas.copy, prepared),
         Waits(net, w, nas.copy),
         NEW m \in Message, NEW b \in Answers(m.cmd), Serve(m, b), m.old = FALSE
  PROVE  Waits(net', w, nas'.copy)
<1>1. PICK body \in {b} \cup (Faults \cap {"error"}) :
        net' = [net EXCEPT ![m] = @ - 1, ![[m EXCEPT !.body = body]] = @ + 1]
  BY DEF Serve
<1> DEFINE d == [m EXCEPT !.body = body]
<1>2. /\ d \in Message /\ d.cmd = m.cmd /\ d.old = m.old /\ d.body = body /\ d # m
  BY BodyTyped DEF Serve
<1>3. net' = Moved(net, m, d) /\ net[m] > 0 /\ net \in [Message -> Nat]
  BY <1>1 DEF Moved, Serve, TypeOK
<1> HIDE DEF d
<1>4. New(net, m)
  BY <1>3 DEF New
<1>5. Owed(net', w)
  BY <1>2, <1>3, MovedOwed DEF Waits
<1>6. nas' = Effect(m.cmd, b) /\ nas \in Nas
  BY DEF Serve, TypeOK
<1>7. CASE m.cmd = "start" /\ b = "copy"
  <2>1. nas' = [nas EXCEPT !.copy = "copy"]
    <3>1. ~(m.cmd = "prepare" /\ b = "yes")
      BY <1>7
    <3> QED
      BY <1>6, <1>7, <3>1 DEF Effect
  <2>2. nas'.copy \in Begun
    BY <1>6, <2>1 DEF Nas, Begun
  <2> QED
    BY <1>5, <2>2 DEF Waits, Copying, StartsHold
<1>8. CASE m.cmd = "prepare" /\ b = "yes"
  <2>1. w.pending = "prepare"
    BY <1>4, <1>8 DEF Truth, InOrder, Awaited
  <2>2. w.step = 1
    BY <2>1 DEF Truth, StepsWait
  <2>3. ASSUME NEW x \in Message, New(net', x) PROVE x.cmd # "start"
    <3>1. CASE x = d
      BY <1>2, <1>8, <3>1
    <3>2. CASE x # d
      <4>1. New(net, x)
        BY <1>2, <1>3, <2>3, <3>2, MovedNew
      <4> QED
        BY <2>1, <4>1 DEF Truth, InOrder, Awaited
    <3> QED
      BY <3>1, <3>2
  <2> QED
    BY <1>5, <2>2, <2>3 DEF Waits, Copying, StartsHold
<1>9. CASE ~(m.cmd = "start" /\ b = "copy") /\ ~(m.cmd = "prepare" /\ b = "yes")
  <2>1. nas'.copy = nas.copy
    BY <1>6, <1>9, EffectCopy
  <2>2. ASSUME NEW x \in Message, New(net', x), x.cmd = "start", x.body = "copy"
        PROVE  nas.copy \in Begun
    <3>1. CASE x = d
      <4>1. body = b \/ body = "error"
        OBVIOUS
      <4> QED
        BY <1>2, <1>9, <2>2, <3>1, <4>1
    <3>2. CASE x # d
      <4>1. New(net, x)
        BY <1>2, <1>3, <2>2, <3>2, MovedNew
      <4> QED
        BY <2>2, <4>1 DEF Waits, StartsHold
    <3> QED
      BY <3>1, <3>2
  <2> QED
    BY <1>5, <2>1, <2>2 DEF Waits, StartsHold
<1> QED
  BY <1>7, <1>8, <1>9

LEMMA WaitInit == Init => WaitInv
<1> SUFFICES ASSUME Init PROVE ~wizard.open
  BY DEF WaitInv
<1> QED
  BY ClosedTyped DEF Init

LEMMA WaitNext == TypeOK /\ TruthInv /\ WaitInv /\ [Next]_vars => WaitInv'
<1> SUFFICES ASSUME TypeOK, TruthInv, WaitInv, [Next]_vars, wizard'.open,
                    "crossed" \notin mishaps', "lost" \notin mishaps'
             PROVE  Waits(net', wizard', nas'.copy)
  BY DEF WaitInv
<1>typ. /\ net \in [Message -> Nat] /\ wizard \in Wizard /\ prepared \in BOOLEAN
        /\ nas \in Nas
  BY DEF TypeOK
<1>other. {"login", "hdd", "init"} \subseteq Commands \ Replacing
  BY CommandsAre DEF Replacing
<1>inv. wizard.open /\ "crossed" \notin mishaps /\ "lost" \notin mishaps =>
          /\ Truth(net, wizard, nas.copy, prepared)
          /\ Waits(net, wizard, nas.copy)
  BY DEF TruthInv, WaitInv
<1>num. 1 \in 1..8 /\ 2 \in 1..8
  OBVIOUS
<1>code. "" \in Codes
  BY DEF Codes
<1>1. CASE LogIn
  BY <1>1, <1>typ, <1>inv, <1>other, SentWaits DEF LogIn
<1>2. CASE Refresh
  BY <1>2, <1>typ, <1>inv, <1>other, SentWaits DEF Refresh
<1>3. CASE InitHdd
  BY <1>3, <1>typ, <1>inv, <1>other, SentWaits DEF InitHdd
<1>4. CASE Open
  <2>1. wizard' = Opened(Closed) /\ net' = Send(Aged(net), "prepare")
    BY <1>4 DEF Open, Opened
  <2>2. wizard'.step = 1 /\ wizard'.pending = "prepare"
    BY <2>1, ClosedTyped, OpenedWritten
  <2> QED
    BY <2>1, <2>2, <1>typ, BegunWaits
<1>5. CASE Leave
  BY <1>5, ClosedTyped DEF Leave
<1>6. CASE RunStart
  <2> DEFINE w == ClearError(wizard)
  <2>1. wizard' = Asking(w, "start")
    BY <1>6, Zenon DEF RunStart, Asking
  <2>2. net' = Send(Aged(net), "start") /\ wizard.step = 2
    BY <1>6 DEF RunStart
  <2>3. w \in Wizard /\ w.step = 2
    BY <2>2, <1>typ, ErrorCleared
  <2> HIDE DEF w
  <2>4. wizard'.step = 2 /\ wizard'.pending = "start"
    BY <2>1, <2>3, AskingWritten
  <2> QED
    BY <2>2, <2>4, <1>typ, BegunWaits
<1>7. CASE Back
  <2> DEFINE w == ClearError(wizard)
  <2>1. wizard' = WithStep(w, 2)
    BY <1>7, Zenon DEF Back, WithStep
  <2>2. /\ net' = net /\ nas' = nas /\ wizard.open
        /\ "crossed" \notin mishaps /\ "lost" \notin mishaps
    BY <1>7 DEF Back
  <2>3. w \in Wizard /\ w.pending = wizard.pending /\ w.busy = wizard.busy
    BY <1>typ, <1>num, <1>code, ErrorCleared, BusyWritten
  <2> HIDE DEF w
  <2>4. /\ wizard'.step = 2 /\ wizard'.pending = wizard.pending
        /\ wizard'.busy = wizard.busy
    <3>1. WithStep(w, 2).step = 2 /\ WithStep(w, 2).pending = w.pending
      BY <2>3, <1>num, StepWritten
    <3>2. WithStep(w, 2).busy = w.busy
      BY <2>3, <1>num, <1>code, BusyWritten
    <3> QED
      BY <2>1, <2>3, <3>1, <3>2
  <2>5. Copying(wizard', nas'.copy)
    BY <2>4 DEF Copying
  <2>6. Owed(net', wizard')
    BY <2>2, <2>4, <1>inv DEF Waits, Owed
  <2> QED
    BY <2>2, <2>5, <2>6, <1>inv DEF Waits
<1>8. CASE Turn
  <2>1. PICK s \in 1..8 : /\ s = wizard.step - 1 \/ s = wizard.step + 1
                          /\ wizard' = Stepped(wizard, s)
    BY <1>8, Zenon DEF Turn, Stepped
  <2>2. /\ net' = net /\ nas' = nas /\ wizard.open /\ wizard.step >= 4
        /\ "crossed" \notin mishaps /\ "lost" \notin mishaps
    BY <1>8 DEF Turn
  <2>3. wizard'.pending = wizard.pending /\ wizard'.busy = wizard.busy
    <3>1. Stepped(wizard, s).pending = wizard.pending
      BY <1>typ, SteppedWritten
    <3>2. Stepped(wizard, s).busy = wizard.busy
      BY <1>typ, <1>code, BusyWritten
    <3> QED
      BY <2>1, <3>1, <3>2
  <2>4. nas.copy \in Begun
    BY <2>2, <1>inv DEF Truth, Told, Begun
  <2>5. Owed(net', wizard')
    BY <2>2, <2>3, <1>inv DEF Waits, Owed
  <2> QED
    BY <2>2, <2>4, <2>5, <1>inv DEF Waits, Copying
<1>9. CASE HddTimer
  <2>1. /\ net' = Send(net, "hdd") \/ net' = net
        /\ nas' = nas /\ wizard' = wizard
        /\ "crossed" \notin mishaps /\ "lost" \notin mishaps
    BY <1>9 DEF HddTimer
  <2> QED
    BY <2>1, <1>typ, <1>inv, <1>other, SentWaits
<1>10. CASE StatusTimer
  <2>1. wizard' = Polling(wizard)
    BY <1>10, Zenon DEF StatusTimer, Polling
  <2>2. /\ net' = Send(net, "status") /\ nas' = nas /\ wizard.open /\ wizard.step = 3
        /\ "crossed" \notin mishaps /\ "lost" \notin mishaps
    BY <1>10 DEF StatusTimer
  <2>3. /\ wizard'.step = wizard.step /\ wizard'.err = wizard.err
        /\ wizard'.busy = wizard.busy
    BY <2>1, <1>typ, <1>num, <1>code, PollingWritten, BusyWritten, ErrKept
  <2>4. wizard.busy # TRUE
    <3>1. wizard.pending \notin {"prepare", "start"}
      BY <2>2, <1>inv DEF Truth, StepsWait
    <3> QED
      BY <2>2, <3>1, <1>inv DEF Waits, Owed
  <2>5. "status" \in Commands
    BY CommandsAre
  <2>6. StartsHold(net', nas.copy)
    <3> SUFFICES ASSUME NEW m \in Message, New(net', m), m.cmd = "start", m.body = "copy"
                 PROVE  nas.copy \in Begun
      BY DEF StartsHold
    <3>1. m # Asked("status")
      BY <2>5, AskedTyped
    <3>2. New(net, m)
      BY <2>2, <2>5, <3>1, <1>typ, SendTyped DEF New
    <3> QED
      BY <2>2, <3>2, <1>inv DEF Waits, StartsHold
  <2> QED
    BY <2>2, <2>3, <2>4, <2>6, <1>inv DEF Waits, Owed, Copying
<1>11. ASSUME NEW m \in Message, NEW b \in Answers(m.cmd), Serve(m, b)
       PROVE  Waits(net', wizard', nas'.copy)
  <2>1. /\ wizard' = wizard /\ m.old = FALSE
        /\ "crossed" \notin mishaps /\ "lost" \notin mishaps
    <3>1. m.old \in BOOLEAN
      BY MessageParts
    <3> QED
      BY <1>11, <3>1 DEF Serve
  <2> QED
    BY <1>11, <2>1, <1>inv, <1>typ, ServedWaits
<1>12. ASSUME NEW m \in Message, Fail(m)
       PROVE  Waits(net', wizard', nas'.copy)
  <2>1. /\ wizard' = wizard /\ nas' = nas /\ net[m] > 0
        /\ "crossed" \notin mishaps /\ "lost" \notin mishaps
        /\ m.body = "asked"
        /\ net' = [net EXCEPT ![m] = @ - 1, ![[m EXCEPT !.body = "error"]] = @ + 1]
    BY <1>12 DEF Fail
  <2> DEFINE d == [m EXCEPT !.body = "error"]
  <2>2. /\ d \in Message /\ d.cmd = m.cmd /\ d.old = m.old /\ d.body = "error" /\ d # m
    BY <2>1, BodyTyped
  <2>3. net' = Moved(net, m, d)
    BY <2>1 DEF Moved
  <2> HIDE DEF d
  <2>4. Waits(net, wizard, nas.copy)
    BY <2>1, <1>inv
  <2>5. Owed(net', wizard)
    <3>1. Owed(net, wizard)
      BY <2>4 DEF Waits
    <3>2. Owed(Moved(net, m, d), wizard)
      BY <2>1, <2>2, <3>1, <1>typ, MovedOwed
    <3> QED
      BY <2>3, <3>2
  <2>6. ASSUME NEW x \in Message, New(net', x), x.cmd = "start", x.body = "copy"
        PROVE  nas.copy \in Begun
    <3>1. x # d
      BY <2>2, <2>6
    <3>2. New(Moved(net, m, d), x)
      BY <2>3, <2>6
    <3>3. New(net, x)
      BY <2>1, <2>2, <3>1, <3>2, <1>typ, MovedNew
    <3> QED
      BY <2>4, <2>6, <3>3 DEF Waits, StartsHold
  <2> QED
    BY <2>1, <2>4, <2>5, <2>6 DEF Waits, StartsHold
<1>13. ASSUME NEW m \in Message, Deliver(m)
       PROVE  Waits(net', wizard', nas'.copy)
  <2> DEFINE gone == [net EXCEPT ![m] = @ - 1]
  <2>1. /\ wizard' = WizardTakes(wizard, m) /\ nas' = nas
        /\ m.body # "asked" /\ net[m] > 0
        /\ "crossed" \notin mishaps /\ "lost" \notin mishaps
        /\ net' = Send(gone, "hdd") \/ net' = gone
    BY <1>13 DEF Deliver
  <2>2. Ignores(wizard, m) \/ (m.old = FALSE /\ m.cmd \in Replacing)
    <3>1. m.old \in BOOLEAN
      BY MessageParts
    <3> QED
      BY <1>13, <3>1 DEF Deliver
  <2>3. wizard.open
    <3> SUFFICES ASSUME ~wizard.open PROVE FALSE
      OBVIOUS
    <3>1. Ignores(wizard, m)
      BY DEF Ignores
    <3>2. wizard' = wizard
      BY <2>1, <3>1, HandlersAre, Zenon
    <3> QED
      BY <3>2
  <2>4. Truth(net, wizard, nas.copy, prepared) /\ Waits(net, wizard, nas.copy)
    BY <2>1, <2>3, <1>inv
  <2>5. gone \in [Message -> Nat]
    BY <2>1, <1>typ, MoveTyped
  <2>6. \A x \in Message : New(gone, x) => New(net, x)
    BY <2>1, <1>typ, GoneFewer
  <2> HIDE DEF gone
  <2>7. StartsHold(gone, nas.copy)
    BY <2>4, <2>6 DEF Waits, StartsHold
  <2>8. Owed(gone, wizard') /\ Copying(wizard', nas.copy)
    <3>1. CASE Ignores(wizard, m)
      <4>1. wizard' = wizard
        BY <2>1, <3>1, HandlersAre, Zenon
      <4>2. wizard.pending = ""
        BY <2>3, <3>1 DEF Ignores
      <4>3. wizard.busy # TRUE
        BY <2>4, <4>2 DEF Waits, Owed
      <4> QED
        BY <2>4, <4>1, <4>3 DEF Waits, Owed, Copying
    <3>2. CASE ~Ignores(wizard, m)
      <4>1. New(net, m) /\ m.cmd \in Replacing
        BY <2>1, <2>2, <3>2 DEF New
      <4>2. /\ m.cmd \in {"prepare", "start"} => wizard.pending = m.cmd
            /\ m.cmd = "status" => wizard.pending \notin {"prepare", "start"}
        BY <2>4, <4>1 DEF Truth, InOrder, Awaited, Polled
      <4>3. /\ StepsWait(wizard) /\ Copying(wizard, nas.copy)
            /\ StartsHold(net, nas.copy)
        BY <2>4 DEF Truth, Waits
      <4>4. wizard'.busy = FALSE /\ Copying(wizard', nas.copy)
        BY <2>1, <3>2, <4>1, <4>2, <4>3, <1>typ, TakenWaits
      <4> QED
        BY <4>4 DEF Owed
    <3> QED
      BY <3>1, <3>2
  <2>9. Waits(gone, wizard', nas.copy)
    BY <2>7, <2>8 DEF Waits
  <2> QED
    BY <2>1, <2>5, <2>9, <1>other, SentWaits
<1>14. CASE NasEnds
  <2>1. /\ wizard' = wizard /\ net' = net
        /\ "crossed" \notin mishaps /\ "lost" \notin mishaps
        /\ nas'.copy = nas.copy \/ nas'.copy \in Begun
    BY <1>14, <1>typ DEF NasEnds, Nas, Begun
  <2> QED
    BY <2>1, <1>inv DEF Waits, Copying, StartsHold
<1>15. CASE UNCHANGED vars
  BY <1>15, <1>inv DEF vars
<1> QED
  BY <1>1, <1>2, <1>3, <1>4, <1>5, <1>6, <1>7, <1>8, <1>9, <1>10, <1>11, <1>12,
     <1>13, <1>14, <1>15 DEF Next, Timers, Network

(* A wizard that waits is owed the answer it waits for, and a copy that is *)
(* shown has been begun, whatever fails with an error and however often    *)
(* the user leaves the page or goes back.                                  *)
THEOREM WizardWaitsForItsOwn == Spec => []WaitsForOwn
<1>1. TypeOK /\ TruthInv /\ WaitInv /\ [Next]_vars => (TypeOK /\ TruthInv /\ WaitInv)'
  BY TypeNext, TruthNext, WaitNext
<1>2. WaitInv => WaitsForOwn
  BY DEF WaitInv, Waits, Owed, Copying, WaitsForOwn
<1> QED
  BY <1>1, <1>2, TypeInit, TruthInit, WaitInit, PTL DEF Spec

=============================================================================
