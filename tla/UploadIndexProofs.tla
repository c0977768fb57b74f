------------------------- MODULE UploadIndexProofs -------------------------
(***************************************************************************)
(* Proofs about UploadIndex, for any files, sizes, attempts and links: the *)
(* types, that the queue is never wedged while p2p loses nothing it waits  *)
(* for, and that a file leaves it indexed or after all its attempts as     *)
(* long as CmdService has no command of the local link to remember.        *)
(***************************************************************************)
EXTENDS UploadIndex, TLAPS

-----------------------------------------------------------------------------
(* The members while a handler runs *)

States == [m : Members, out : [Command -> Nat]]

(* Only the head of the queue has been sent.                               *)
TailsUnsent(q) == \A i \in 1..Len(q) : i > 1 => q[i].sent = 0

(* The answer that is awaited will come.                                   *)
HeadComing(s) ==
  \E c \in Command : s.out[c] > 0 /\ c.kind = "add" /\ c.file = Head(s.m.queue).file

(***************************************************************************)
(* What a handler leaves behind: a queue that is not empty is being worked *)
(* on, by the timer or by an answer that is awaited and not by both; and   *)
(* the head is sent again only while it has attempts left.                 *)
(***************************************************************************)
Sound(s) ==
  /\ s \in States
  /\ TailsUnsent(s.m.queue)
  /\ s.m.queue = <<>> => ~s.m.busy /\ ~s.m.awaiting /\ s.m.timer = "off"
  /\ s.m.queue # <<>> =>
       /\ s.m.busy
       /\ s.m.awaiting <=> s.m.timer = "off"
       /\ s.m.timer # "off" => s.m.queue[1].sent < MaxAttempts
       /\ s.m.awaiting => HeadComing(s) \/ Head(s.m.queue).file \in lost

(* Between two heads: what tryStartNextUploadIndex() finds.                *)
Between(s) ==
  /\ s \in States
  /\ TailsUnsent(s.m.queue)
  /\ ~s.m.busy /\ ~s.m.awaiting /\ s.m.timer = "off"
  /\ s.m.queue # <<>> => s.m.queue[1].sent = 0

LEMMA Sending ==
  ASSUME local \in BOOLEAN, NEW f \in Files
  PROVE  /\ Message("add", f) \in Command
         /\ Message("add", f).kind = "add"
         /\ Message("add", f).file = f
         /\ Message("add", f).lan = local
         /\ Message("add", f).st = "sent"
<1> QED
  BY DEF Message, Command, Stages

LEMMA SendingOther ==
  ASSUME local \in BOOLEAN, NEW kind \in {"date", "other"}
  PROVE  /\ Message(kind, NoFile) \in Command
         /\ Message(kind, NoFile).kind = kind
         /\ Message(kind, NoFile).lan = local
         /\ Message(kind, NoFile).st = "sent"
<1> QED
  BY DEF Message, Command, Stages

(* send() adds a command and may note its kind.                            *)
LEMMA SentTyped ==
  ASSUME NEW s \in States, NEW kind \in Kinds, NEW f, NEW c \in Command,
         c = Message(kind, f)
  PROVE  /\ Sent(s, kind, f) \in States
         /\ Sent(s, kind, f).m.queue = s.m.queue
         /\ Sent(s, kind, f).m.busy = s.m.busy
         /\ Sent(s, kind, f).m.awaiting = s.m.awaiting
         /\ Sent(s, kind, f).m.timer = s.m.timer
         /\ Sent(s, kind, f).out[c] > 0
         /\ \A d \in Command : s.out[d] > 0 => Sent(s, kind, f).out[d] > 0
<1> DEFINE mm == IF local THEN [s.m EXCEPT !.cmd = kind] ELSE s.m
           oo == [s.out EXCEPT ![c] = @ + 1]
<1>1. s.m \in Members /\ s.out \in [Command -> Nat] /\ c \in Command
  BY DEF States
<1>2. /\ mm \in Members /\ mm.queue = s.m.queue /\ mm.busy = s.m.busy
      /\ mm.awaiting = s.m.awaiting /\ mm.timer = s.m.timer
  BY <1>1 DEF Members
<1>3. /\ oo \in [Command -> Nat] /\ oo[c] > 0
      /\ \A d \in Command : s.out[d] > 0 => oo[d] > 0
  BY <1>1
<1>4. Sent(s, kind, f) = [m |-> mm, out |-> oo]
  BY DEF Sent
<1> HIDE DEF mm, oo
<1>5. Sent(s, kind, f) \in States
  BY <1>2, <1>3, <1>4 DEF States
<1> QED
  BY <1>2, <1>3, <1>4, <1>5

(* The attempt that sendAddOneFileForHead() counts.                        *)
LEMMA Counted ==
  ASSUME NEW s \in States, TailsUnsent(s.m.queue), s.m.queue # <<>>,
         s.m.queue[1].sent < MaxAttempts,
         NEW t, t = [s EXCEPT !.m.queue[1].sent = @ + 1, !.m.awaiting = TRUE]
  PROVE  /\ t \in States
         /\ TailsUnsent(t.m.queue)
         /\ t.m.queue # <<>> /\ Head(t.m.queue).file = Head(s.m.queue).file
         /\ t.m.busy = s.m.busy /\ t.m.awaiting /\ t.m.timer = s.m.timer
         /\ t.out = s.out
<1> DEFINE q == s.m.queue
           e == [q[1] EXCEPT !.sent = @ + 1]
           r == [q EXCEPT ![1] = e]
<1>1. s.m \in Members /\ s.out \in [Command -> Nat] /\ q \in Seq(Entry)
  BY DEF States, Members
<1>2. 1 \in 1..Len(q) /\ q[1] \in Entry
  BY <1>1
<1>3. e \in Entry /\ e.file = q[1].file
  BY <1>2, AttemptsPositive DEF Entry
<1>4. /\ r \in Seq(Entry) /\ r # <<>> /\ Len(r) = Len(q) /\ r[1] = e
      /\ \A i \in 1..Len(q) : i > 1 => r[i] = q[i]
  BY <1>1, <1>2, <1>3
<1>5. t.m = [[s.m EXCEPT !.queue = r] EXCEPT !.awaiting = TRUE] /\ t.out = s.out
  BY <1>1 DEF States, Members
<1>6. t = [m |-> t.m, out |-> t.out]
  BY DEF States
<1> HIDE DEF r, e
<1>7. /\ t.m \in Members /\ t.m.queue = r
      /\ t.m.busy = s.m.busy /\ t.m.awaiting = TRUE /\ t.m.timer = s.m.timer
  <2> DEFINE n == [s.m EXCEPT !.queue = r]
  <2>1. n \in Members /\ n.queue = r /\ n.busy = s.m.busy /\ n.timer = s.m.timer
    BY <1>1, <1>4 DEF Members
  <2>2. t.m = [n EXCEPT !.awaiting = TRUE]
    BY <1>5
  <2> HIDE DEF n
  <2>3. \A x \in Members : [x EXCEPT !.awaiting = TRUE] \in Members
    BY DEF Members
  <2>4. \A x \in Members : /\ [x EXCEPT !.awaiting = TRUE].queue = x.queue
                           /\ [x EXCEPT !.awaiting = TRUE].busy = x.busy
                           /\ [x EXCEPT !.awaiting = TRUE].awaiting = TRUE
                           /\ [x EXCEPT !.awaiting = TRUE].timer = x.timer
    BY DEF Members
  <2> QED
    BY <2>1, <2>2, <2>3, <2>4
<1>8. Head(r).file = Head(q).file
  BY <1>1, <1>3, <1>4
<1>9. TailsUnsent(r)
  BY <1>4 DEF TailsUnsent
<1>10. t \in States
  BY <1>1, <1>5, <1>6, <1>7 DEF States
<1> QED
  BY <1>4, <1>5, <1>7, <1>8, <1>9, <1>10

(* The members that the handlers set.                                      *)
LEMMA Setting ==
  ASSUME NEW x \in Members
  PROVE  /\ [x EXCEPT !.busy = TRUE] \in Members
         /\ [x EXCEPT !.busy = TRUE].queue = x.queue
         /\ [x EXCEPT !.busy = TRUE].busy
         /\ [x EXCEPT !.busy = TRUE].awaiting = x.awaiting
         /\ [x EXCEPT !.busy = TRUE].timer = x.timer
         /\ [x EXCEPT !.busy = FALSE] \in Members
         /\ [x EXCEPT !.busy = FALSE].queue = x.queue
         /\ ~[x EXCEPT !.busy = FALSE].busy
         /\ [x EXCEPT !.busy = FALSE].awaiting = x.awaiting
         /\ [x EXCEPT !.busy = FALSE].timer = x.timer
         /\ [x EXCEPT !.awaiting = TRUE] \in Members
         /\ [x EXCEPT !.awaiting = TRUE].queue = x.queue
         /\ [x EXCEPT !.awaiting = TRUE].busy = x.busy
         /\ [x EXCEPT !.awaiting = TRUE].awaiting
         /\ [x EXCEPT !.awaiting = TRUE].timer = x.timer
         /\ [x EXCEPT !.awaiting = FALSE] \in Members
         /\ [x EXCEPT !.awaiting = FALSE].queue = x.queue
         /\ [x EXCEPT !.awaiting = FALSE].busy = x.busy
         /\ ~[x EXCEPT !.awaiting = FALSE].awaiting
         /\ [x EXCEPT !.awaiting = FALSE].timer = x.timer
<1>1. /\ [x EXCEPT !.busy = TRUE] \in Members
      /\ [x EXCEPT !.busy = TRUE].queue = x.queue
      /\ [x EXCEPT !.busy = TRUE].busy
      /\ [x EXCEPT !.busy = TRUE].awaiting = x.awaiting
      /\ [x EXCEPT !.busy = TRUE].timer = x.timer
  <2>1. [x EXCEPT !.busy = TRUE] \in Members
    BY DEF Members
  <2>2. [x EXCEPT !.busy = TRUE].queue = x.queue
    BY DEF Members
  <2>3. [x EXCEPT !.busy = TRUE].busy
    BY DEF Members
  <2>4. [x EXCEPT !.busy = TRUE].awaiting = x.awaiting
    BY DEF Members
  <2>5. [x EXCEPT !.busy = TRUE].timer = x.timer
    BY DEF Members
  <2> QED
    BY <2>1, <2>2, <2>3, <2>4, <2>5
<1>2. /\ [x EXCEPT !.busy = FALSE] \in Members
      /\ [x EXCEPT !.busy = FALSE].queue = x.queue
      /\ ~[x EXCEPT !.busy = FALSE].busy
      /\ [x EXCEPT !.busy = FALSE].awaiting = x.awaiting
      /\ [x EXCEPT !.busy = FALSE].timer = x.timer
  <2>1. [x EXCEPT !.busy = FALSE] \in Members
    BY DEF Members
  <2>2. [x EXCEPT !.busy = FALSE].queue = x.queue
    BY DEF Members
  <2>3. ~[x EXCEPT !.busy = FALSE].busy
    BY DEF Members
  <2>4. [x EXCEPT !.busy = FALSE].awaiting = x.awaiting
    BY DEF Members
  <2>5. [x EXCEPT !.busy = FALSE].timer = x.timer
    BY DEF Members
  <2> QED
    BY <2>1, <2>2, <2>3, <2>4, <2>5
<1>3. /\ [x EXCEPT !.awaiting = TRUE] \in Members
      /\ [x EXCEPT !.awaiting = TRUE].queue = x.queue
      /\ [x EXCEPT !.awaiting = TRUE].busy = x.busy
      /\ [x EXCEPT !.awaiting = TRUE].awaiting
      /\ [x EXCEPT !.awaiting = TRUE].timer = x.timer
  <2>1. [x EXCEPT !.awaiting = TRUE] \in Members
    BY DEF Members
  <2>2. [x EXCEPT !.awaiting = TRUE].queue = x.queue
    BY DEF Members
  <2>3. [x EXCEPT !.awaiting = TRUE].busy = x.busy
    BY DEF Members
  <2>4. [x EXCEPT !.awaiting = TRUE].awaiting
    BY DEF Members
  <2>5. [x EXCEPT !.awaiting = TRUE].timer = x.timer
    BY DEF Members
  <2> QED
    BY <2>1, <2>2, <2>3, <2>4, <2>5
<1>4. /\ [x EXCEPT !.awaiting = FALSE] \in Members
      /\ [x EXCEPT !.awaiting = FALSE].queue = x.queue
      /\ [x EXCEPT !.awaiting = FALSE].busy = x.busy
      /\ ~[x EXCEPT !.awaiting = FALSE].awaiting
      /\ [x EXCEPT !.awaiting = FALSE].timer = x.timer
  <2>1. [x EXCEPT !.awaiting = FALSE] \in Members
    BY DEF Members
  <2>2. [x EXCEPT !.awaiting = FALSE].queue = x.queue
    BY DEF Members
  <2>3. [x EXCEPT !.awaiting = FALSE].busy = x.busy
    BY DEF Members
  <2>4. ~[x EXCEPT !.awaiting = FALSE].awaiting
    BY DEF Members
  <2>5. [x EXCEPT !.awaiting = FALSE].timer = x.timer
    BY DEF Members
  <2> QED
    BY <2>1, <2>2, <2>3, <2>4, <2>5
<1> QED
  BY <1>1, <1>2, <1>3, <1>4

(* The members are set in a state as they are by themselves.               *)
LEMMA Fields ==
  ASSUME NEW s \in States
  PROVE  /\ s.m \in Members /\ s.out \in [Command -> Nat]
         /\ \A v : [s EXCEPT !.m.queue = v] = [m |-> [s.m EXCEPT !.queue = v], out |-> s.out]
         /\ \A v : [s EXCEPT !.m.busy = v] = [m |-> [s.m EXCEPT !.busy = v], out |-> s.out]
         /\ \A v : [s EXCEPT !.m.awaiting = v] = [m |-> [s.m EXCEPT !.awaiting = v], out |-> s.out]
         /\ \A v : [s EXCEPT !.m.timer = v] = [m |-> [s.m EXCEPT !.timer = v], out |-> s.out]
<1>1. s = [m |-> s.m, out |-> s.out]
  BY DEF States
<1>2. \A v : [s EXCEPT !.m.queue = v] = [m |-> [s.m EXCEPT !.queue = v], out |-> s.out]
  BY <1>1
<1>3. \A v : [s EXCEPT !.m.busy = v] = [m |-> [s.m EXCEPT !.busy = v], out |-> s.out]
  BY <1>1
<1>4. \A v : [s EXCEPT !.m.awaiting = v] = [m |-> [s.m EXCEPT !.awaiting = v], out |-> s.out]
  BY <1>1
<1>5. \A v : [s EXCEPT !.m.timer = v] = [m |-> [s.m EXCEPT !.timer = v], out |-> s.out]
  BY <1>1
<1> QED
  BY <1>2, <1>3, <1>4, <1>5 DEF States

LEMMA StateSetting ==
  ASSUME NEW s \in States
  PROVE  /\ [s EXCEPT !.m.busy = TRUE] \in States
         /\ [s EXCEPT !.m.busy = TRUE].out = s.out
         /\ [s EXCEPT !.m.busy = TRUE].m.queue = s.m.queue
         /\ [s EXCEPT !.m.busy = TRUE].m.busy
         /\ [s EXCEPT !.m.busy = TRUE].m.awaiting = s.m.awaiting
         /\ [s EXCEPT !.m.busy = TRUE].m.timer = s.m.timer
         /\ [s EXCEPT !.m.busy = FALSE] \in States
         /\ [s EXCEPT !.m.busy = FALSE].out = s.out
         /\ [s EXCEPT !.m.busy = FALSE].m.queue = s.m.queue
         /\ ~[s EXCEPT !.m.busy = FALSE].m.busy
         /\ [s EXCEPT !.m.busy = FALSE].m.awaiting = s.m.awaiting
         /\ [s EXCEPT !.m.busy = FALSE].m.timer = s.m.timer
         /\ [s EXCEPT !.m.awaiting = FALSE] \in States
         /\ [s EXCEPT !.m.awaiting = FALSE].out = s.out
         /\ [s EXCEPT !.m.awaiting = FALSE].m.queue = s.m.queue
         /\ [s EXCEPT !.m.awaiting = FALSE].m.busy = s.m.busy
         /\ ~[s EXCEPT !.m.awaiting = FALSE].m.awaiting
         /\ [s EXCEPT !.m.awaiting = FALSE].m.timer = s.m.timer
<1>0. s.m \in Members /\ s.out \in [Command -> Nat]
  BY Fields
<1>1. /\ [s EXCEPT !.m.busy = TRUE] \in States
      /\ [s EXCEPT !.m.busy = TRUE].out = s.out
      /\ [s EXCEPT !.m.busy = TRUE].m.queue = s.m.queue
      /\ [s EXCEPT !.m.busy = TRUE].m.busy
      /\ [s EXCEPT !.m.busy = TRUE].m.awaiting = s.m.awaiting
      /\ [s EXCEPT !.m.busy = TRUE].m.timer = s.m.timer
  <2> DEFINE x == [s.m EXCEPT !.busy = TRUE]
  <2>1. [s EXCEPT !.m.busy = TRUE] = [m |-> x, out |-> s.out]
    BY Fields
  <2>2. /\ x \in Members /\ x.queue = s.m.queue /\ x.busy /\ x.awaiting = s.m.awaiting /\ x.timer = s.m.timer
    BY <1>0, Setting
  <2> HIDE DEF x
  <2> QED
    BY <1>0, <2>1, <2>2 DEF States
<1>2. /\ [s EXCEPT !.m.busy = FALSE] \in States
      /\ [s EXCEPT !.m.busy = FALSE].out = s.out
      /\ [s EXCEPT !.m.busy = FALSE].m.queue = s.m.queue
      /\ ~[s EXCEPT !.m.busy = FALSE].m.busy
      /\ [s EXCEPT !.m.busy = FALSE].m.awaiting = s.m.awaiting
      /\ [s EXCEPT !.m.busy = FALSE].m.timer = s.m.timer
  <2> DEFINE x == [s.m EXCEPT !.busy = FALSE]
  <2>1. [s EXCEPT !.m.busy = FALSE] = [m |-> x, out |-> s.out]
    BY Fields
  <2>2. /\ x \in Members /\ x.queue = s.m.queue /\ ~x.busy /\ x.awaiting = s.m.awaiting /\ x.timer = s.m.timer
    BY <1>0, Setting
  <2> HIDE DEF x
  <2> QED
    BY <1>0, <2>1, <2>2 DEF States
<1>3. /\ [s EXCEPT !.m.awaiting = FALSE] \in States
      /\ [s EXCEPT !.m.awaiting = FALSE].out = s.out
      /\ [s EXCEPT !.m.awaiting = FALSE].m.queue = s.m.queue
      /\ [s EXCEPT !.m.awaiting = FALSE].m.busy = s.m.busy
      /\ ~[s EXCEPT !.m.awaiting = FALSE].m.awaiting
      /\ [s EXCEPT !.m.awaiting = FALSE].m.timer = s.m.timer
  <2> DEFINE x == [s.m EXCEPT !.awaiting = FALSE]
  <2>1. [s EXCEPT !.m.awaiting = FALSE] = [m |-> x, out |-> s.out]
    BY Fields
  <2>2. /\ x \in Members /\ x.queue = s.m.queue /\ x.busy = s.m.busy /\ ~x.awaiting /\ x.timer = s.m.timer
    BY <1>0, Setting
  <2> HIDE DEF x
  <2> QED
    BY <1>0, <2>1, <2>2 DEF States
<1> QED
  BY <1>1, <1>2, <1>3

LEMMA TimerSet ==
  ASSUME NEW s \in States, NEW v \in Timers, NEW t, t = [m |-> [s.m EXCEPT !.timer = v], out |-> s.out]
  PROVE  /\ t \in States
         /\ t.out = s.out
         /\ t.m.queue = s.m.queue
         /\ t.m.busy = s.m.busy
         /\ t.m.awaiting = s.m.awaiting
         /\ t.m.timer = v
<1> DEFINE x == [s.m EXCEPT !.timer = v]
<1>0. s.m \in Members /\ s.out \in [Command -> Nat]
  BY Fields
<1>1. t = [m |-> x, out |-> s.out]
  OBVIOUS
<1>2. /\ x \in Members /\ x.queue = s.m.queue /\ x.busy = s.m.busy /\ x.awaiting = s.m.awaiting /\ x.timer = v
  BY <1>0 DEF Members
<1> HIDE DEF x
<1> QED
  BY <1>0, <1>1, <1>2 DEF States

LEMMA QueueSet ==
  ASSUME NEW s \in States, NEW v \in Seq(Entry), NEW t, t = [m |-> [s.m EXCEPT !.queue = v], out |-> s.out]
  PROVE  /\ t \in States
         /\ t.out = s.out
         /\ t.m.queue = v
         /\ t.m.busy = s.m.busy
         /\ t.m.awaiting = s.m.awaiting
         /\ t.m.timer = s.m.timer
<1> DEFINE x == [s.m EXCEPT !.queue = v]
<1>0. s.m \in Members /\ s.out \in [Command -> Nat]
  BY Fields
<1>1. t = [m |-> x, out |-> s.out]
  OBVIOUS
<1>2. /\ x \in Members /\ x.queue = v /\ x.busy = s.m.busy /\ x.awaiting = s.m.awaiting /\ x.timer = s.m.timer
  BY <1>0 DEF Members
<1> HIDE DEF x
<1> QED
  BY <1>0, <1>1, <1>2 DEF States

(* sendAddOneFileForHead() of a queue that is not empty.                   *)
LEMMA SendHeadSound ==
  ASSUME local \in BOOLEAN, NEW s \in States, TailsUnsent(s.m.queue), s.m.queue # <<>>,
         s.m.queue[1].sent < MaxAttempts, s.m.busy, s.m.timer = "off"
  PROVE  Sound(SendHead(s))
<1> DEFINE t == [s EXCEPT !.m.queue[1].sent = @ + 1, !.m.awaiting = TRUE]
           f == Head(s.m.queue).file
           u == Sent(t, "add", f)
           c == Message("add", f)
<1>1. SendHead(s) = u
  BY DEF SendHead
<1>2. f \in Files
  <2>1. s.m.queue \in Seq(Entry)
    BY DEF States, Members
  <2>2. Head(s.m.queue) \in Entry
    BY <2>1
  <2> QED
    BY <2>2 DEF Entry
<1>3. c \in Command /\ c.kind = "add" /\ c.file = f
  BY <1>2, Sending
<1>4. /\ t \in States
      /\ TailsUnsent(t.m.queue)
      /\ t.m.queue # <<>> /\ Head(t.m.queue).file = f
      /\ t.m.busy = s.m.busy /\ t.m.awaiting /\ t.m.timer = s.m.timer
  BY Counted
<1> HIDE DEF t, f
<1>5. /\ u \in States /\ u.m.queue = t.m.queue /\ u.m.busy = t.m.busy
      /\ u.m.awaiting = t.m.awaiting /\ u.m.timer = t.m.timer
      /\ u.out[c] > 0
  <2>1. "add" \in Kinds /\ c \in Command
        /\ c = Message("add", f)
    BY <1>3 DEF Kinds
  <2> HIDE DEF c
  <2> QED
    BY <1>4, <2>1, SentTyped, Zenon
<1> HIDE DEF u, c
<1>6. HeadComing(u)
  BY <1>3, <1>4, <1>5 DEF HeadComing
<1> QED
  BY <1>1, <1>4, <1>5, <1>6 DEF Sound

(* tryStartNextUploadIndex() between two heads.                            *)
LEMMA TryStartSound ==
  ASSUME local \in BOOLEAN, NEW s, Between(s)
  PROVE  Sound(TryStart(s))
<1> DEFINE t == [s EXCEPT !.m.busy = TRUE]
           u == [t EXCEPT !.m.timer = "settle"]
<1>0. s \in States /\ s.m \in Members /\ s.out \in [Command -> Nat]
  BY DEF Between, States
<1>1. CASE s.m.queue = <<>>
  BY <1>1 DEF TryStart, Between, Sound
<1>2. CASE s.m.queue # <<>>
  <2>1. s.m.queue[1].sent = 0 /\ 0 < MaxAttempts
    BY <1>2, AttemptsPositive DEF Between
  <2>2. /\ t \in States /\ t.m.queue = s.m.queue /\ t.m.busy
        /\ t.m.awaiting = s.m.awaiting /\ t.m.timer = s.m.timer
    BY <1>0, StateSetting
  <2> HIDE DEF t
  <2>3. /\ u \in States /\ u.m.queue = t.m.queue /\ u.m.busy = t.m.busy
        /\ u.m.awaiting = t.m.awaiting /\ u.m.timer = "settle"
    <3>1. "settle" \in Timers
      BY DEF Timers
    <3>2. u = [m |-> [t.m EXCEPT !.timer = "settle"], out |-> t.out]
      BY <2>2, Fields
    <3>3. t \in States
      BY <2>2
    <3> HIDE DEF u
    <3> QED
      BY <3>1, <3>2, <3>3, TimerSet
  <2> HIDE DEF u
  <2>4. Sound(u)
    BY <1>2, <2>1, <2>2, <2>3 DEF Sound, Between
  <2>5. Sound(SendHead(t))
    BY <1>2, <2>1, <2>2, SendHeadSound DEF Between
  <2>6. TryStart(s) = u \/ TryStart(s) = SendHead(t)
    BY <1>2 DEF TryStart, Between, t, u
  <2> QED
    BY <2>4, <2>5, <2>6
<1> QED
  BY <1>1, <1>2

(* send() of a command of another kind.                                    *)
LEMMA SentSound ==
  ASSUME NEW s \in States, NEW kind \in Kinds, NEW f, NEW c \in Command,
         c = Message(kind, f)
  PROVE  /\ Sound(s) => Sound(Sent(s, kind, f))
         /\ Between(s) => Between(Sent(s, kind, f))
<1> DEFINE u == Sent(s, kind, f)
<1>1. /\ u \in States /\ u.m.queue = s.m.queue /\ u.m.busy = s.m.busy
      /\ u.m.awaiting = s.m.awaiting /\ u.m.timer = s.m.timer
      /\ \A d \in Command : s.out[d] > 0 => u.out[d] > 0
  BY SentTyped
<1> HIDE DEF u
<1>2. HeadComing(s) => HeadComing(u)
  BY <1>1 DEF HeadComing
<1>3. Sound(s) => Sound(u)
  BY <1>1, <1>2 DEF Sound
<1>4. Between(s) => Between(u)
  BY <1>1 DEF Between
<1> QED
  BY <1>3, <1>4 DEF u

(* The head of a queue that is not empty, and the rest of it.              *)
LEMMA Queues ==
  ASSUME NEW q \in Seq(Entry), q # <<>>
  PROVE  /\ Head(q) = q[1] /\ q[1] \in Entry /\ q[1].file \in Files
         /\ Tail(q) \in Seq(Entry)
         /\ TailsUnsent(q) => TailsUnsent(Tail(q))
         /\ TailsUnsent(q) /\ Tail(q) # <<>> => Tail(q)[1].sent = 0
<1>1. Head(q) = q[1] /\ q[1] \in Entry
  OBVIOUS
<1>2. q[1].file \in Files
  BY <1>1 DEF Entry
<1>3. /\ Tail(q) \in Seq(Entry) /\ Len(Tail(q)) = Len(q) - 1
      /\ \A i \in 1..Len(Tail(q)) : Tail(q)[i] = q[i + 1] /\ i + 1 \in 1..Len(q)
  OBVIOUS
<1>4. ASSUME TailsUnsent(q)
      PROVE  \A i \in 1..Len(Tail(q)) : Tail(q)[i].sent = 0
  BY <1>3, <1>4 DEF TailsUnsent
<1>5. Tail(q) # <<>> => 1 \in 1..Len(Tail(q))
  BY <1>3
<1> QED
  BY <1>1, <1>2, <1>3, <1>4, <1>5 DEF TailsUnsent

(* finalizeUploadIndexHead()                                               *)
LEMMA FinalizeSound ==
  ASSUME local \in BOOLEAN, NEW s \in States, TailsUnsent(s.m.queue), s.m.queue # <<>>, s.m.timer = "off"
  PROVE  Sound(Finalize(s))
<1> DEFINE t1 == [s EXCEPT !.m.queue = Tail(@)]
           t2 == [t1 EXCEPT !.m.awaiting = FALSE]
           t3 == [t2 EXCEPT !.m.busy = FALSE]
<1>0. s.m.queue \in Seq(Entry)
  BY DEF States, Members
<1>1. Finalize(s) = TryStart(Sent(t3, "date", NoFile))
  BY DEF Finalize
<1>2. /\ t1 \in States /\ t1.m.queue = Tail(s.m.queue) /\ t1.m.timer = s.m.timer
  <2> DEFINE v == Tail(s.m.queue)
  <2>1. v \in Seq(Entry)
    BY <1>0, Queues
  <2>2. t1 = [m |-> [s.m EXCEPT !.queue = v], out |-> s.out]
    BY Fields
  <2> HIDE DEF t1, v
  <2>3. t1 \in States /\ t1.m.queue = v /\ t1.m.timer = s.m.timer
    BY <2>1, <2>2, QueueSet
  <2> QED
    BY <2>3 DEF v
<1> HIDE DEF t1
<1>3. /\ t2 \in States /\ t2.m.queue = Tail(s.m.queue) /\ t2.m.timer = s.m.timer
      /\ ~t2.m.awaiting
  BY <1>2, StateSetting
<1> HIDE DEF t2
<1>4. /\ t3 \in States /\ t3.m.queue = Tail(s.m.queue) /\ t3.m.timer = s.m.timer
      /\ ~t3.m.awaiting /\ ~t3.m.busy
  BY <1>3, StateSetting
<1> HIDE DEF t3
<1>5. Between(t3)
  <2>1. TailsUnsent(t3.m.queue) /\ (t3.m.queue # <<>> => t3.m.queue[1].sent = 0)
    <3>1. /\ TailsUnsent(Tail(s.m.queue))
          /\ Tail(s.m.queue) # <<>> => Tail(s.m.queue)[1].sent = 0
      <4> DEFINE q == s.m.queue
      <4>1. q \in Seq(Entry) /\ q # <<>> /\ TailsUnsent(q)
        BY <1>0
      <4> HIDE DEF q
      <4>2. TailsUnsent(Tail(q)) /\ (Tail(q) # <<>> => Tail(q)[1].sent = 0)
        BY <4>1, Queues
      <4> QED
        BY <4>2 DEF q
    <3> QED
      BY <1>4, <3>1
  <2> QED
    BY <1>4, <2>1 DEF Between
<1>6. Message("date", NoFile) \in Command /\ "date" \in Kinds
  BY SendingOther DEF Kinds
<1>7. Between(Sent(t3, "date", NoFile))
  BY <1>4, <1>5, <1>6, SentSound
<1> QED
  BY <1>1, <1>7, TryStartSound

(* An attempt that failed.                                                 *)
LEMMA MissedSound ==
  ASSUME NEW s \in States, TailsUnsent(s.m.queue), s.m.queue # <<>>,
         s.m.busy, s.m.queue[1].sent < MaxAttempts
  PROVE  Sound(Missed(s))
<1> DEFINE t1 == [s EXCEPT !.m.awaiting = FALSE]
           t2 == [t1 EXCEPT !.m.timer = "retry"]
<1>1. Missed(s) = t2
  BY DEF Missed
<1>2. t1 \in States /\ t1.m.queue = s.m.queue /\ t1.m.busy = s.m.busy /\ ~t1.m.awaiting
  BY StateSetting
<1> HIDE DEF t1
<1>3. /\ t2 \in States /\ t2.m.queue = s.m.queue /\ t2.m.busy = s.m.busy
      /\ ~t2.m.awaiting /\ t2.m.timer = "retry"
  <2>1. "retry" \in Timers
    BY DEF Timers
  <2>2. /\ t2 \in States /\ t2.m.queue = t1.m.queue /\ t2.m.busy = t1.m.busy
        /\ t2.m.awaiting = t1.m.awaiting /\ t2.m.timer = "retry"
    <3>1. t1 \in States /\ t2 = [m |-> [t1.m EXCEPT !.timer = "retry"], out |-> t1.out]
      BY <1>2, Fields
    <3> HIDE DEF t2
    <3> QED
      BY <2>1, <3>1, TimerSet
  <2> QED
    BY <1>2, <2>2
<1> HIDE DEF t2
<1> QED
  BY <1>1, <1>3 DEF Sound

-----------------------------------------------------------------------------
(* The actions *)

Lefts == [uploads : 0..MaxUploads, others : 0..MaxOthers,
          switches : 0..MaxSwitches, flips : 0..MaxFlips, turns : 0..MaxTurns]

Others ==
  /\ local \in BOOLEAN
  /\ nas \subseteq Files
  /\ rows \subseteq Files
  /\ lost \subseteq Files
  /\ left \in Lefts

Inv == Sound(State) /\ Others

LEMMA StateIs ==
  /\ State.m = link /\ State.out = out
  /\ State \in States <=> link \in Members /\ out \in [Command -> Nat]
  BY DEF State, States

LEMMA InvImplies == Inv => TypeOK /\ NeverWedged
<1> SUFFICES ASSUME Inv PROVE TypeOK /\ NeverWedged
  OBVIOUS
<1>1. TypeOK
  BY StateIs DEF Inv, Others, Lefts, Sound, TypeOK
<1>2. NeverWedged
  BY StateIs DEF Inv, Sound, HeadComing, NeverWedged
<1> QED
  BY <1>1, <1>2

(* A handler that ends in s.                                               *)
LEMMA Becomes ==
  ASSUME Inv, NEW s, Sound(s), NEW done, Become(s, done)
  PROVE  Sound(State)' /\ lost' \subseteq Files
<1>1. s = [m |-> s.m, out |-> s.out] /\ s.out \in [Command -> Nat]
  BY DEF Sound, States
<1>2. State' = s
  BY <1>1 DEF Become, State
<1>3. out \in [Command -> Nat] /\ lost' = {f \in lost : ~Resent(s, f)}
  BY StateIs DEF Inv, Sound, Become
<1>4. ASSUME s.m.queue # <<>>, s.m.awaiting
      PROVE  HeadComing(s) \/ Head(s.m.queue).file \in lost'
  <2> DEFINE f == Head(s.m.queue).file
  <2>1. SUFFICES ASSUME ~HeadComing(s) PROVE f \in lost'
    OBVIOUS
  <2>2. f \in lost
    BY <1>4, <2>1 DEF Sound
  <2>3. ~Resent(s, f)
    <3>1. SUFFICES ASSUME NEW c \in Command, c.kind = "add", c.file = f, s.out[c] > out[c]
                   PROVE  FALSE
      BY DEF Resent
    <3>2. s.out[c] > 0
      BY <1>1, <1>3, <3>1
    <3> QED
      BY <2>1, <3>1, <3>2 DEF HeadComing
  <2> QED
    BY <1>3, <2>2, <2>3
<1>5. lost' \subseteq Files
  BY <1>3 DEF Inv, Others
<1> QED
  BY <1>2, <1>4, <1>5 DEF Sound, HeadComing

LEMMA InitInv == Init => Inv
<1> SUFFICES ASSUME Init PROVE Inv
  OBVIOUS
<1>1. Idle \in Members
  BY DEF Idle, Members, Timers
<1>2. /\ Idle.queue = <<>> /\ ~Idle.busy /\ ~Idle.awaiting /\ Idle.timer = "off"
  BY DEF Idle
<1>3. out \in [Command -> Nat] /\ link = Idle
  BY DEF Init
<1>4. Sound(State)
  BY <1>1, <1>2, <1>3, StateIs DEF Sound, TailsUnsent
<1>5. left \in Lefts
  BY BoundsNatural DEF Init, Lefts
<1> QED
  BY <1>4, <1>5 DEF Init, Inv, Others

(* Fewer steps are left.                                                   *)
LEMMA FewerLeft ==
  ASSUME Others
  PROVE  /\ left.uploads > 0 => [left EXCEPT !.uploads = @ - 1] \in Lefts
         /\ left.turns > 0 /\ left.others > 0 =>
              [left EXCEPT !.turns = @ - 1, !.others = @ - 1] \in Lefts
         /\ left.turns > 0 /\ left.switches > 0 =>
              [left EXCEPT !.turns = @ - 1, !.switches = @ - 1] \in Lefts
         /\ left.turns > 0 /\ left.flips > 0 =>
              [left EXCEPT !.turns = @ - 1, !.flips = @ - 1] \in Lefts
<1>1. left \in Lefts
  BY DEF Others
<1>2. /\ left.uploads > 0 => left.uploads - 1 \in 0..MaxUploads
      /\ left.others > 0 => left.others - 1 \in 0..MaxOthers
      /\ left.switches > 0 => left.switches - 1 \in 0..MaxSwitches
      /\ left.flips > 0 => left.flips - 1 \in 0..MaxFlips
      /\ left.turns > 0 => left.turns - 1 \in 0..MaxTurns
  BY <1>1, BoundsNatural DEF Lefts
<1> QED
  BY <1>1, <1>2 DEF Lefts

LEMMA UploadedSound ==
  ASSUME Inv, NEW f \in Files, Uploaded(f)
  PROVE  Sound(State)' /\ lost' \subseteq Files
<1> DEFINE e == [file |-> f, sent |-> 0]
           t == [State EXCEPT !.m.queue = Append(@, e)]
           q == link.queue
           r == Append(q, e)
<1>1. State \in States /\ State.m = link /\ TailsUnsent(q)
  BY StateIs DEF Inv, Sound
<1>2. q \in Seq(Entry) /\ e \in Entry /\ e.sent = 0
  BY <1>1, StateIs, AttemptsPositive DEF Members, Entry
<1>3. /\ r \in Seq(Entry) /\ r # <<>> /\ TailsUnsent(r)
      /\ q # <<>> => r[1] = q[1] /\ Head(r) = Head(q)
      /\ q = <<>> => r[1].sent = 0
  <2>1. r \in Seq(Entry) /\ Len(r) = Len(q) + 1 /\ r[Len(r)] = e
        /\ \A i \in 1..Len(q) : r[i] = q[i]
    BY <1>2
  <2>2. TailsUnsent(r)
    BY <1>1, <1>2, <2>1 DEF TailsUnsent
  <2>3. q # <<>> => 1 \in 1..Len(q)
    BY <1>2
  <2>4. q = <<>> => r[1].sent = 0
    BY <1>2, <2>1
  <2>5. r # <<>> /\ Head(r) = r[1] /\ (q # <<>> => Head(q) = q[1])
    <3>1. \A z \in Seq(Entry) : z # <<>> => Head(z) = z[1]
      OBVIOUS
    <3>2. r # <<>>
      BY <1>2
    <3> QED
      BY <1>2, <2>1, <3>1, <3>2
  <2> QED
    BY <2>1, <2>2, <2>3, <2>4, <2>5
<1>4. t = [m |-> [link EXCEPT !.queue = r], out |-> State.out]
  BY <1>1, Fields
<1> HIDE DEF r, e, t
<1>5. /\ t \in States /\ t.m.queue = r /\ t.out = State.out
      /\ t.m.busy = link.busy /\ t.m.awaiting = link.awaiting /\ t.m.timer = link.timer
  BY <1>1, <1>3, <1>4, QueueSet
<1>6. Sound(TryStart(t))
  <2>1. CASE q = <<>>
    <3>1. Between(t)
      BY <1>1, <1>3, <1>5, <2>1 DEF Inv, Sound, Between
    <3> QED
      BY <3>1, TryStartSound DEF Inv, Others
  <2>2. CASE q # <<>>
    <3>1. HeadComing(State) => HeadComing(t)
      BY <1>1, <1>3, <1>5, <2>2 DEF HeadComing
    <3>2. Sound(t) /\ t.m.busy
      BY <1>1, <1>3, <1>5, <2>2, <3>1 DEF Inv, Sound
    <3>3. TryStart(t) = t
      BY <3>2 DEF TryStart
    <3> QED
      BY <3>2, <3>3
  <2> QED
    BY <2>1, <2>2
<1> QED
  BY <1>6, Becomes DEF Uploaded, t, e

LEMMA OtherSound ==
  ASSUME Inv, OtherCommand
  PROVE  Sound(State)' /\ lost' \subseteq Files
<1>1. State \in States /\ Sound(State) /\ "other" \in Kinds
  BY DEF Inv, Sound, Kinds
<1>2. Message("other", NoFile) \in Command
  BY SendingOther DEF Inv, Others
<1>3. Sound(Sent(State, "other", NoFile))
  BY <1>1, <1>2, SentSound
<1> QED
  BY <1>3, Becomes DEF OtherCommand

LEMMA TimerSound ==
  ASSUME Inv, TimerFires
  PROVE  Sound(State)' /\ lost' \subseteq Files
<1> DEFINE t == [State EXCEPT !.m.timer = "off"]
<1>1. /\ State \in States /\ State.m = link /\ link.timer # "off" /\ link.queue # <<>>
      /\ TailsUnsent(link.queue) /\ link.busy /\ link.queue[1].sent < MaxAttempts
  BY StateIs DEF Inv, Sound, TimerFires
<1>2. "off" \in Timers /\ State \in States
  BY <1>1 DEF Timers
<1>3. t = [m |-> [State.m EXCEPT !.timer = "off"], out |-> State.out]
  BY <1>2, Fields
<1> HIDE DEF t
<1>4. /\ t \in States /\ t.m.queue = State.m.queue
      /\ t.m.busy = State.m.busy /\ t.m.timer = "off"
  BY <1>2, <1>3, TimerSet
<1>5. Sound(SendHead(t))
  BY <1>1, <1>4, SendHeadSound DEF Inv, Others
<1> QED
  BY <1>5, Becomes DEF TimerFires, t

LEMMA ResetSound ==
  ASSUME Inv, Reset
  PROVE  Sound(State)'
<1>1. link \in Members /\ out \in [Command -> Nat]
  BY StateIs DEF Inv, Sound
<1>2. link.cmd \in Kinds \cup {"none"}
  BY <1>1 DEF Members
<1>3. link' \in Members
  <2>1. Idle \in Members
    BY DEF Idle, Members, Timers
  <2>2. \A v \in Kinds \cup {"none"} : [Idle EXCEPT !.cmd = v] \in Members
    BY <2>1 DEF Members
  <2> QED
    BY <1>2, <2>2 DEF Reset
<1>4. link'.queue = <<>> /\ ~link'.busy /\ ~link'.awaiting /\ link'.timer = "off"
  BY DEF Reset, Idle
<1>5. (State \in States)' /\ State'.m = link'
  BY <1>1, <1>3 DEF Reset, State, States
<1> QED
  BY <1>4, <1>5 DEF Sound, TailsUnsent

(* The commands on their way change, the members do not.                   *)
LEMMA OutSound ==
  ASSUME Inv, out' \in [Command -> Nat], UNCHANGED link,
         HeadComing(State) \/ Head(link.queue).file \in lost =>
           (HeadComing(State) \/ Head(link.queue).file \in lost)'
  PROVE  Sound(State)'
<1>1. link \in Members /\ State'.m = link /\ State.m = link /\ (State \in States)'
  BY StateIs DEF Inv, Sound, State, States
<1> QED
  BY <1>1 DEF Inv, Sound

LEMMA Answers ==
  ASSUME NEW c \in Command, NEW st \in Stages
  PROVE  /\ [c EXCEPT !.st = st] \in Command
         /\ [c EXCEPT !.st = st].st = st
         /\ [c EXCEPT !.st = st].kind = c.kind
         /\ [c EXCEPT !.st = st].file = c.file
         /\ [c EXCEPT !.st = st].lan = c.lan
<1>1. CASE c \in [kind : {"add"}, file : Files, lan : BOOLEAN, st : Stages]
  BY <1>1 DEF Command
<1>2. CASE c \in [kind : {"date", "other"}, file : {NoFile}, lan : BOOLEAN, st : Stages]
  BY <1>2 DEF Command
<1> QED
  BY <1>1, <1>2 DEF Command

LEMMA TakenSound ==
  ASSUME Inv, NEW c \in Command, out[c] > 0, NEW st \in {"ok", "refused", "error"},
         NEW effect \in BOOLEAN, NasTakes(c, st, effect)
  PROVE  Sound(State)' /\ nas' \subseteq Files
<1> DEFINE a == [c EXCEPT !.st = st]
<1>0. State.out = out /\ out \in [Command -> Nat] /\ out[c] > 0 /\ c.st = "sent" /\ st \in Stages
  BY StateIs DEF Inv, Sound, NasTakes, Stages
<1>1. a \in Command /\ a.st = st /\ a.kind = c.kind /\ a.file = c.file
  BY <1>0, Answers
<1>2. out' = [out EXCEPT ![c] = @ - 1, ![a] = @ + 1]
  BY DEF NasTakes, Moved
<1> HIDE DEF a
<1>3. /\ out' \in [Command -> Nat] /\ out'[a] > 0
      /\ \A d \in Command : d # c /\ out[d] > 0 => out'[d] > 0
  BY <1>0, <1>1, <1>2
<1>4. HeadComing(State) => HeadComing(State)'
  <2>1. State' = [m |-> link, out |-> out'] /\ State = [m |-> link, out |-> out]
    BY DEF State, NasTakes
  <2> QED
    BY <1>1, <1>3, <2>1 DEF HeadComing
<1>5. Sound(State)'
  BY <1>3, <1>4, OutSound DEF NasTakes
<1>6. nas' \subseteq Files
  <2>1. c.kind = "add" => c.file \in Files
    BY DEF Command
  <2> QED
    BY <2>1 DEF NasTakes, Inv, Others
<1> QED
  BY <1>5, <1>6

LEMMA LoseSound ==
  ASSUME Inv, NEW c \in Command, Lose(c)
  PROVE  Sound(State)' /\ lost' \subseteq Files
<1> DEFINE f == Head(link.queue).file
<1>1. out \in [Command -> Nat] /\ out[c] > 0
  BY StateIs DEF Inv, Sound, Lose
<1>2. out' \in [Command -> Nat] /\ (\A d \in Command : d # c => out'[d] = out[d])
  BY <1>1 DEF Lose
<1>3. lost \subseteq lost' /\ (c.kind = "add" => c.file \in lost') /\ link' = link
  BY DEF Lose
<1>4. HeadComing(State) => HeadComing(State)' \/ f \in lost'
  <2>1. State = [m |-> link, out |-> out] /\ State' = [m |-> link, out |-> out']
    BY <1>3 DEF State
  <2>2. SUFFICES ASSUME NEW d \in Command, out[d] > 0, d.kind = "add", d.file = f
                 PROVE  HeadComing(State)' \/ f \in lost'
    BY <2>1 DEF HeadComing
  <2>3. CASE d = c
    BY <1>3, <2>2, <2>3
  <2>4. CASE d # c
    BY <1>2, <2>1, <2>2, <2>4 DEF HeadComing
  <2> QED
    BY <2>3, <2>4
<1>5. lost' \subseteq Files
  <2>1. c.kind = "add" => c.file \in Files
    BY DEF Command
  <2> QED
    BY <2>1 DEF Lose, Inv, Others
<1> QED
  BY <1>2, <1>3, <1>4, <1>5, OutSound

LEMMA AnsweredSound ==
  ASSUME Inv, NEW c \in Command, out[c] > 0, Answered(c)
  PROVE  Sound(State)' /\ rows' \subseteq Files /\ lost' \subseteq Files
<1> DEFINE s == [State EXCEPT !.out[c] = @ - 1]
           taken == IF c.st = "error" THEN s.m.awaiting /\ s.m.queue # <<>>
                                      ELSE Matches(s, c)
           indexed == c.kind = "add" /\ c.st = "ok"
           done == taken /\ (indexed \/ Attempted(s))
<1>0. /\ State = [m |-> link, out |-> out] /\ link \in Members
      /\ out \in [Command -> Nat] /\ out[c] > 0
  BY StateIs DEF Inv, Sound, State, Answered
<1>1. s = [m |-> link, out |-> [out EXCEPT ![c] = @ - 1]]
  BY <1>0
<1>2. Become(CASE done -> Finalize(s) [] taken /\ ~done -> Missed(s) [] OTHER -> s, done)
      /\ UNCHANGED <<local, nas, left>>
  BY DEF Answered
<1>3. taken => s.m.awaiting /\ s.m.queue # <<>>
  BY DEF Matches
<1>4. done <=> taken /\ (indexed \/ Attempted(s))
  OBVIOUS
<1>5. s.m.awaiting /\ s.m.queue # <<>> /\ ~taken => c.kind # "add"
  BY DEF Matches
<1> HIDE DEF s, taken, done
<1>6. /\ s \in States /\ s.m = link /\ State.m = link
      /\ \A d \in Command : d # c => s.out[d] = State.out[d]
  BY <1>0, <1>1 DEF States
<1>7. CASE ~taken
  <2>1. HeadComing(State) /\ link.awaiting /\ link.queue # <<>> => HeadComing(s)
    BY <1>5, <1>6, <1>7 DEF HeadComing
  <2>2. Sound(s)
    BY <1>6, <2>1 DEF Inv, Sound
  <2>3. Become(s, done) /\ ~done
    BY <1>2, <1>4, <1>7
  <2> QED
    BY <1>2, <2>2, <2>3, Becomes DEF Become, Inv, Others
<1>8. CASE taken
  <2>0. /\ s.m.queue # <<>> /\ s.m.awaiting /\ s.m.busy /\ s.m.timer = "off"
        /\ TailsUnsent(s.m.queue)
    BY <1>3, <1>6, <1>8 DEF Inv, Sound
  <2>1. CASE done
    <3>1. Sound(Finalize(s)) /\ Become(Finalize(s), done)
      BY <1>2, <1>6, <2>0, <2>1, FinalizeSound DEF Inv, Others
    <3>2. rows' \subseteq Files
      <4>1. link.queue \in Seq(Entry) /\ link.queue # <<>>
        BY <1>0, <1>6, <2>0 DEF Members
      <4>2. Head(link.queue).file \in Files
        BY <4>1, Queues
      <4> QED
        BY <3>1, <4>2 DEF Become, Inv, Others
    <3> QED
      BY <1>2, <3>1, <3>2, Becomes
  <2>2. CASE ~done
    <3>1. s.m.queue[1].sent < MaxAttempts
      <4>1. ~(s.m.queue[1].sent >= MaxAttempts)
        BY <1>4, <1>8, <2>2 DEF Attempted
      <4>2. s.m.queue \in Seq(Entry)
        BY <1>0, <1>6 DEF Members
      <4>3. s.m.queue[1] \in Entry
        BY <2>0, <4>2, Queues
      <4> QED
        BY <4>1, <4>3, AttemptsPositive DEF Entry
    <3>2. Sound(Missed(s))
      BY <1>6, <2>0, <3>1, MissedSound
    <3>3. Become(Missed(s), done)
      BY <1>2, <1>8, <2>2
    <3> QED
      BY <1>2, <2>2, <3>2, <3>3, Becomes DEF Become, Inv, Others
  <2> QED
    BY <2>1, <2>2
<1> QED
  BY <1>7, <1>8

LEMMA NextInv == Inv /\ [Next]_vars => Inv'
<1> SUFFICES ASSUME Inv, [Next]_vars PROVE Inv'
  OBVIOUS
<1>0. Others
  BY DEF Inv
<1>1. ASSUME NEW f \in Files, Uploaded(f) PROVE Inv'
  BY <1>0, <1>1, UploadedSound, FewerLeft DEF Uploaded, Become, Inv, Others
<1>2. CASE OtherCommand
  BY <1>0, <1>2, OtherSound, FewerLeft DEF OtherCommand, Become, Inv, Others
<1>3. CASE TimerFires
  BY <1>0, <1>3, TimerSound DEF TimerFires, Become, Inv, Others
<1>4. CASE Reset
  BY <1>0, <1>4, ResetSound, FewerLeft DEF Reset, Inv, Others
<1>5. CASE FlipLink
  <2>1. Sound(State)'
    BY <1>5 DEF FlipLink, Inv, Sound, State, HeadComing
  <2> QED
    BY <1>0, <1>5, <2>1, FewerLeft DEF FlipLink, Inv, Others
<1>6. ASSUME NEW c \in Command, out[c] > 0, NEW st \in {"ok", "refused", "error"},
             NEW effect \in BOOLEAN, NasTakes(c, st, effect)
      PROVE  Inv'
  BY <1>0, <1>6, TakenSound DEF NasTakes, Inv, Others
<1>7. ASSUME NEW c \in Command, out[c] > 0, Answered(c) PROVE Inv'
  BY <1>0, <1>7, AnsweredSound DEF Answered, Inv, Others
<1>8. ASSUME NEW c \in Command, Lose(c) PROVE Inv'
  BY <1>0, <1>8, LoseSound DEF Lose, Inv, Others
<1>9. CASE UNCHANGED vars
  BY <1>9 DEF vars, Inv, Others, Sound, State, HeadComing
<1> QED
  BY <1>1, <1>2, <1>3, <1>4, <1>5, <1>6, <1>7, <1>8, <1>9 DEF Next, Network

LEMMA Invariance == Spec => []Inv
<1> QED
  BY InitInv, NextInv, PTL DEF Spec

(***************************************************************************)
(* The queue and the commands stay well typed, for any files and bounds:   *)
(* no file is sent more often than ADD_ONE_FILE_MAX_ATTEMPTS allows        *)
(* (dbFiles.cpp, sendAddOneFileForHead).                                   *)
(***************************************************************************)
THEOREM TypeCorrect == Spec => []TypeOK
<1> QED
  BY InvImplies, Invariance, PTL

(***************************************************************************)
(* The queue is never wedged, for any uploads, sizes, attempts, answers    *)
(* and changes of the link: it waits for the timer or for the answer of an *)
(* add_one_file for the head that is on its way, unless p2p has lost that  *)
(* one (dbFiles.cpp, m_uploadIndexBusy, m_awaitingAddOneFile;              *)
(* dbDevices.cpp, intoDevice).                                             *)
(***************************************************************************)
THEOREM QueueIsNeverWedged == Spec => []NeverWedged
<1> QED
  BY InvImplies, Invariance, PTL

-----------------------------------------------------------------------------
(* Which answers come while no command has gone over the local link, until *)
(* the first change of device.                                             *)

NoAdd(s) == \A c \in Command : c.kind = "add" => s.out[c] = 0

NoError(s) == \A c \in Command : c.st = "error" => s.out[c] = 0

NoLan(s) == \A c \in Command : c.lan => s.out[c] = 0

(***************************************************************************)
(* The one add_one_file on its way is the one that is awaited, for the     *)
(* head, and when it says ok the NAS N has that file in its index.         *)
(***************************************************************************)
OwnAdd(s, N) ==
  \A c \in Command : c.kind = "add" /\ s.out[c] > 0 =>
    /\ s.m.awaiting
    /\ s.m.queue # <<>>
    /\ c.file = Head(s.m.queue).file
    /\ c.st = "ok" => c.file \in N
    /\ s.out[c] = 1
    /\ \A d \in Command : d.kind = "add" /\ s.out[d] > 0 => d = c

Clear(s) == s.m.cmd = "none" /\ NoError(s) /\ NoLan(s)

Alone(s, N) == Clear(s) /\ OwnAdd(s, N)

FirstP2p == link.cmd = "none" /\ left.switches = MaxSwitches

P2pInv == Inv /\ (FirstP2p => Alone(State, nas))

(* None of the members that the handlers set is cmd.                       *)
LEMMA CmdKept ==
  ASSUME NEW s \in States
  PROVE  /\ \A v : [s EXCEPT !.m.queue = v].m.cmd = s.m.cmd
         /\ \A v : [s EXCEPT !.m.busy = v].m.cmd = s.m.cmd
         /\ \A v : [s EXCEPT !.m.awaiting = v].m.cmd = s.m.cmd
         /\ \A v : [s EXCEPT !.m.timer = v].m.cmd = s.m.cmd
<1>1. s.m \in Members
  BY Fields
<1>2. \A v : [s.m EXCEPT !.queue = v].cmd = s.m.cmd
  BY <1>1 DEF Members
<1>3. \A v : [s.m EXCEPT !.busy = v].cmd = s.m.cmd
  BY <1>1 DEF Members
<1>4. \A v : [s.m EXCEPT !.awaiting = v].cmd = s.m.cmd
  BY <1>1 DEF Members
<1>5. \A v : [s.m EXCEPT !.timer = v].cmd = s.m.cmd
  BY <1>1 DEF Members
<1> QED
  BY <1>2, <1>3, <1>4, <1>5, Fields

(* send() leaves no command remembered only if it goes over p2p and there  *)
(* was none before; and so it is with the handlers.                        *)
LEMMA SentNoted ==
  ASSUME NEW s \in States, NEW kind \in Kinds, NEW f, Sent(s, kind, f).m.cmd = "none"
  PROVE  ~local /\ s.m.cmd = "none"
<1>1. s.m \in Members /\ kind # "none"
  BY DEF States, Kinds
<1>2. CASE local
  <2> DEFINE x == [s.m EXCEPT !.cmd = kind]
  <2>1. x.cmd = kind
    BY <1>1 DEF Members
  <2>2. Sent(s, kind, f).m = x
    BY <1>2 DEF Sent
  <2> HIDE DEF x
  <2> QED
    BY <1>1, <2>1, <2>2
<1>3. CASE ~local
  BY <1>3 DEF Sent
<1> QED
  BY <1>2, <1>3

(* The attempt that sendAddOneFileForHead() counts is no command.          *)
LEMMA CountedNoted ==
  ASSUME NEW s \in States, s.m.queue # <<>>,
         NEW t, t = [s EXCEPT !.m.queue[1].sent = @ + 1, !.m.awaiting = TRUE]
  PROVE  t.m.cmd = s.m.cmd /\ Len(t.m.queue) = Len(s.m.queue)
<1> DEFINE r == [s.m.queue EXCEPT ![1].sent = @ + 1]
<1>0. s.m \in Members /\ s.m.queue \in Seq(Entry)
  BY DEF States, Members
<1>1. t.m = [[s.m EXCEPT !.queue = r] EXCEPT !.awaiting = TRUE]
  BY <1>0 DEF States, Members
<1>2. Len(r) = Len(s.m.queue)
  BY <1>0
<1> HIDE DEF r
<1>3. t.m.cmd = s.m.cmd /\ t.m.queue = r
  BY ONLY <1>0, <1>1 DEF Members
<1> QED
  BY <1>2, <1>3

LEMMA SendHeadNoted ==
  ASSUME NEW s \in States, TailsUnsent(s.m.queue), s.m.queue # <<>>,
         s.m.queue[1].sent < MaxAttempts
  PROVE  /\ SendHead(s).m.cmd = "none" => ~local /\ s.m.cmd = "none"
         /\ Len(SendHead(s).m.queue) = Len(s.m.queue)
<1> DEFINE f == Head(s.m.queue).file
<1>0. PICK t : t = [s EXCEPT !.m.queue[1].sent = @ + 1, !.m.awaiting = TRUE]
  OBVIOUS
<1>1. SendHead(s) = Sent(t, "add", f) /\ "add" \in Kinds
  BY <1>0 DEF SendHead, Kinds
<1>2. t \in States
  BY <1>0, Counted, Zenon
<1>3. t.m.cmd = s.m.cmd /\ Len(t.m.queue) = Len(s.m.queue)
  BY <1>0, CountedNoted, Zenon
<1> HIDE DEF f
<1>4. Sent(t, "add", f).m.queue = t.m.queue
  <2>1. t.m \in Members
    BY <1>2 DEF States
  <2>2. [t.m EXCEPT !.cmd = "add"].queue = t.m.queue
    BY <2>1 DEF Members
  <2> QED
    BY <2>2 DEF Sent
<1>5. Sent(t, "add", f).m.cmd = "none" => ~local /\ t.m.cmd = "none"
  BY <1>1, <1>2, SentNoted
<1> QED
  BY <1>1, <1>3, <1>4, <1>5

LEMMA TryStartNoted ==
  ASSUME NEW s, Between(s)
  PROVE  TryStart(s).m.cmd = "none" => s.m.cmd = "none"
<1> DEFINE t == [s EXCEPT !.m.busy = TRUE]
           u == [t EXCEPT !.m.timer = "settle"]
<1>0. s \in States
  BY DEF Between
<1>1. CASE s.m.queue = <<>>
  BY <1>1 DEF TryStart
<1>2. CASE s.m.queue # <<>>
  <2>1. s.m.queue[1].sent = 0 /\ 0 < MaxAttempts
    BY <1>2, AttemptsPositive DEF Between
  <2>2. t \in States /\ t.m.queue = s.m.queue /\ t.m.cmd = s.m.cmd
    <3>1. t \in States /\ t.m.queue = s.m.queue
      BY <1>0, StateSetting
    <3>2. t.m.cmd = s.m.cmd
      BY <1>0, CmdKept
    <3> QED
      BY <3>1, <3>2
  <2>3. TryStart(s) = u \/ TryStart(s) = SendHead(t)
    BY <1>2 DEF TryStart, Between
  <2> HIDE DEF t
  <2>4. u.m.cmd = t.m.cmd
    BY <2>2, CmdKept
  <2> HIDE DEF u
  <2>5. SendHead(t).m.cmd = "none" => t.m.cmd = "none"
    BY <1>2, <2>1, <2>2, SendHeadNoted DEF Between
  <2> QED
    BY <2>2, <2>3, <2>4, <2>5
<1> QED
  BY <1>1, <1>2

LEMMA FinalizeNoted ==
  ASSUME local \in BOOLEAN, NEW s \in States, TailsUnsent(s.m.queue),
         s.m.queue # <<>>, s.m.timer = "off"
  PROVE  Finalize(s).m.cmd = "none" => ~local /\ s.m.cmd = "none"
<1> DEFINE v == Tail(s.m.queue)
           t1 == [s EXCEPT !.m.queue = v]
           t2 == [t1 EXCEPT !.m.awaiting = FALSE]
           t3 == [t2 EXCEPT !.m.busy = FALSE]
           u == Sent(t3, "date", NoFile)
           c == Message("date", NoFile)
<1>0. s.m.queue \in Seq(Entry)
  BY DEF States, Members
<1>1. Finalize(s) = TryStart(u)
  BY DEF Finalize
<1>2. v \in Seq(Entry) /\ TailsUnsent(v) /\ (v # <<>> => v[1].sent = 0)
  <2> DEFINE q == s.m.queue
  <2>1. q \in Seq(Entry) /\ q # <<>> /\ TailsUnsent(q)
    BY <1>0
  <2> HIDE DEF q
  <2>2. /\ Tail(q) \in Seq(Entry) /\ TailsUnsent(Tail(q))
        /\ Tail(q) # <<>> => Tail(q)[1].sent = 0
    BY <2>1, Queues
  <2> QED
    BY <2>2 DEF q
<1>3. t1 = [m |-> [s.m EXCEPT !.queue = v], out |-> s.out] /\ t1.m.cmd = s.m.cmd
  BY Fields, CmdKept
<1> HIDE DEF t1, v
<1>4. t1 \in States /\ t1.m.queue = v /\ t1.m.timer = "off"
  BY <1>2, <1>3, QueueSet
<1>5. /\ t2 \in States /\ t2.m.queue = v /\ t2.m.timer = "off" /\ ~t2.m.awaiting
      /\ t2.m.cmd = s.m.cmd
  <2>1. /\ t2 \in States /\ t2.m.queue = t1.m.queue /\ t2.m.timer = t1.m.timer
        /\ ~t2.m.awaiting
    BY <1>4, StateSetting
  <2>2. t2.m.cmd = t1.m.cmd
    BY <1>4, CmdKept
  <2> QED
    BY <1>3, <1>4, <2>1, <2>2
<1> HIDE DEF t2
<1>6. /\ t3 \in States /\ t3.m.queue = v /\ t3.m.timer = "off"
      /\ ~t3.m.awaiting /\ ~t3.m.busy /\ t3.m.cmd = s.m.cmd
  <2>1. /\ t3 \in States /\ t3.m.queue = v /\ t3.m.timer = "off"
        /\ ~t3.m.awaiting /\ ~t3.m.busy
    BY <1>5, StateSetting
  <2>2. t3.m.cmd = t2.m.cmd
    BY <1>5, CmdKept
  <2> QED
    BY <1>5, <2>1, <2>2
<1> HIDE DEF t3
<1>7. Between(t3)
  BY <1>2, <1>6 DEF Between
<1>8. /\ c \in Command /\ "date" \in Kinds
      /\ c = Message("date", NoFile)
  BY SendingOther DEF Kinds
<1> HIDE DEF c
<1>9. Between(u)
  BY <1>6, <1>7, <1>8, SentSound
<1>10. Finalize(s).m.cmd = "none" => u.m.cmd = "none"
  BY <1>1, <1>9, TryStartNoted
<1>11. u.m.cmd = "none" => ~local /\ t3.m.cmd = "none"
  BY <1>6, <1>8, SentNoted
<1> QED
  BY <1>6, <1>10, <1>11

LEMMA MissedNoted ==
  ASSUME NEW s \in States
  PROVE  Missed(s).m.cmd = s.m.cmd
<1> DEFINE t1 == [s EXCEPT !.m.awaiting = FALSE]
           t2 == [t1 EXCEPT !.m.timer = "retry"]
<1>1. Missed(s) = t2
  BY DEF Missed
<1>2. t1 \in States
  BY StateSetting
<1>3. t1.m.cmd = s.m.cmd
  BY CmdKept
<1> HIDE DEF t1
<1>4. t2.m.cmd = t1.m.cmd
  BY <1>2, CmdKept
<1> QED
  BY <1>1, <1>3, <1>4

(* No command on its way is an error, nor an add_one_file, after send() of *)
(* a command of another kind.                                              *)
LEMMA SentOver ==
  ASSUME ~local, NEW s \in States, NEW kind \in Kinds, NEW f, NEW c \in Command,
         c = Message(kind, f)
  PROVE  /\ Sent(s, kind, f).m = s.m
         /\ Sent(s, kind, f).out = [s.out EXCEPT ![c] = @ + 1]
         /\ Clear(s) => Clear(Sent(s, kind, f))
         /\ kind # "add" /\ NoAdd(s) => NoAdd(Sent(s, kind, f))
<1> DEFINE u == Sent(s, kind, f)
<1>1. /\ s.out \in [Command -> Nat] /\ c \in Command /\ c.st = "sent" /\ c.kind = kind
      /\ ~c.lan
  BY DEF States, Message
<1>2. u.m = s.m /\ u.out = [s.out EXCEPT ![c] = @ + 1]
  BY DEF Sent
<1> HIDE DEF u
<1>3. \A d \in Command : d # c => u.out[d] = s.out[d]
  BY <1>1, <1>2
<1>4. Clear(s) => Clear(u)
  BY <1>1, <1>2, <1>3 DEF Clear, NoError, NoLan
<1>5. kind # "add" /\ NoAdd(s) => NoAdd(u)
  BY <1>1, <1>3 DEF NoAdd
<1> QED
  BY <1>2, <1>4, <1>5 DEF u

(* sendAddOneFileForHead() while no add_one_file is on its way.            *)
LEMMA SendHeadAlone ==
  ASSUME local \in BOOLEAN, NEW s \in States, TailsUnsent(s.m.queue),
         s.m.queue # <<>>, s.m.queue[1].sent < MaxAttempts, Clear(s), NoAdd(s), NEW N
  PROVE  SendHead(s).m.cmd = "none" => Alone(SendHead(s), N)
<1> DEFINE f == Head(s.m.queue).file
           c == Message("add", f)
<1>0. s.m \in Members /\ s.m.queue \in Seq(Entry) /\ s.out \in [Command -> Nat]
  BY DEF States, Members
<1>1. PICK t : t = [s EXCEPT !.m.queue[1].sent = @ + 1, !.m.awaiting = TRUE]
  OBVIOUS
<1> DEFINE u == Sent(t, "add", f)
<1>2. SendHead(s) = u /\ "add" \in Kinds
  BY <1>1 DEF SendHead, Kinds
<1>3. /\ t \in States /\ t.m.queue # <<>> /\ Head(t.m.queue).file = f
      /\ t.m.awaiting /\ t.out = s.out
  BY <1>1, Counted, Zenon
<1>4. t.m.cmd = s.m.cmd
  BY <1>1, CountedNoted, Zenon
<1>7. f \in Files
  BY <1>0, Queues
<1> HIDE DEF f
<1>8. /\ c \in Command /\ c.kind = "add" /\ c.file = f /\ c.st = "sent"
      /\ c = Message("add", f)
  BY <1>7, Sending
<1> HIDE DEF c
<1>5. Clear(t) /\ NoAdd(t)
  BY <1>3, <1>4 DEF Clear, NoError, NoLan, NoAdd
<1>6. ASSUME ~local PROVE Alone(u, N)
  <2>1. u.m = t.m /\ u.out = [t.out EXCEPT ![c] = @ + 1] /\ Clear(u)
    BY <1>2, <1>3, <1>5, <1>6, <1>8, SentOver
  <2> HIDE DEF u
  <2>2. u.out[c] = 1 /\ \A d \in Command : d.kind = "add" /\ u.out[d] > 0 => d = c
    BY <1>0, <1>3, <1>5, <1>8, <2>1 DEF NoAdd
  <2>3. OwnAdd(u, N)
    BY <1>3, <1>8, <2>1, <2>2 DEF OwnAdd
  <2> QED
    BY <2>1, <2>3 DEF Alone
<1> HIDE DEF u
<1> QED
  BY <1>2, <1>6, SendHeadNoted

(* Nothing to be awaited, nothing to be alone.                             *)
LEMMA AloneQuiet ==
  ASSUME NEW s \in States, NEW N
  PROVE  /\ Clear(s) /\ NoAdd(s) => Alone(s, N)
         /\ Alone(s, N) /\ (~s.m.awaiting \/ s.m.queue = <<>>) => Clear(s) /\ NoAdd(s)
<1>1. s.out \in [Command -> Nat]
  BY DEF States
<1> QED
  BY <1>1 DEF Alone, OwnAdd, NoAdd

(* tryStartNextUploadIndex() while no add_one_file is on its way.          *)
LEMMA TryStartAlone ==
  ASSUME local \in BOOLEAN, NEW s, Between(s), Clear(s), NoAdd(s), NEW N
  PROVE  TryStart(s).m.cmd = "none" => Alone(TryStart(s), N)
<1> DEFINE t == [s EXCEPT !.m.busy = TRUE]
           u == [t EXCEPT !.m.timer = "settle"]
<1>0. s \in States
  BY DEF Between
<1>1. CASE s.m.queue = <<>>
  <2>1. TryStart(s) = s
    BY <1>1 DEF TryStart
  <2> QED
    BY <1>0, <2>1, AloneQuiet
<1>2. CASE s.m.queue # <<>>
  <2>1. s.m.queue[1].sent = 0 /\ 0 < MaxAttempts
    BY <1>2, AttemptsPositive DEF Between
  <2>2. t \in States /\ t.m.queue = s.m.queue /\ t.out = s.out /\ t.m.cmd = s.m.cmd
    <3>1. t \in States /\ t.m.queue = s.m.queue /\ t.out = s.out
      BY <1>0, StateSetting
    <3>2. t.m.cmd = s.m.cmd
      BY <1>0, CmdKept
    <3> QED
      BY <3>1, <3>2
  <2> HIDE DEF t
  <2>3. u \in States /\ u.m.queue = s.m.queue /\ u.out = s.out /\ u.m.cmd = s.m.cmd
    <3>1. "settle" \in Timers
      BY DEF Timers
    <3>2. u = [m |-> [t.m EXCEPT !.timer = "settle"], out |-> t.out] /\ u.m.cmd = t.m.cmd
      BY <2>2, Fields, CmdKept
    <3>3. t \in States
      BY <2>2
    <3> HIDE DEF u
    <3>4. u \in States /\ u.m.queue = t.m.queue /\ u.out = t.out
      BY <3>1, <3>2, <3>3, TimerSet
    <3> QED
      BY <2>2, <3>2, <3>4
  <2> HIDE DEF u
  <2>4. Clear(u) /\ NoAdd(u) /\ Clear(t) /\ NoAdd(t)
    BY <2>2, <2>3 DEF Clear, NoError, NoLan, NoAdd
  <2>5. Alone(u, N)
    BY <2>3, <2>4, AloneQuiet
  <2>6. SendHead(t).m.cmd = "none" => Alone(SendHead(t), N)
    BY <1>2, <2>1, <2>2, <2>4, SendHeadAlone DEF Between
  <2>7. TryStart(s) = u \/ TryStart(s) = SendHead(t)
    BY <1>2 DEF TryStart, Between, t, u
  <2> QED
    BY <2>5, <2>6, <2>7
<1> QED
  BY <1>1, <1>2

(* finalizeUploadIndexHead() once the answer of the head has come.         *)
LEMMA FinalizeAlone ==
  ASSUME local \in BOOLEAN, NEW s \in States, TailsUnsent(s.m.queue), s.m.queue # <<>>,
         s.m.timer = "off", Clear(s), NoAdd(s), NEW N
  PROVE  Finalize(s).m.cmd = "none" => Alone(Finalize(s), N)
<1> DEFINE t1 == [s EXCEPT !.m.queue = Tail(@)]
           t2 == [t1 EXCEPT !.m.awaiting = FALSE]
           t3 == [t2 EXCEPT !.m.busy = FALSE]
           u == Sent(t3, "date", NoFile)
<1>0. s.m.queue \in Seq(Entry)
  BY DEF States, Members
<1>1. Finalize(s) = TryStart(u)
  BY DEF Finalize
<1>2. /\ t1 \in States /\ t1.m.queue = Tail(s.m.queue) /\ t1.m.timer = "off"
      /\ t1.out = s.out /\ t1.m.cmd = s.m.cmd
  <2> DEFINE v == Tail(s.m.queue)
  <2>1. v \in Seq(Entry)
    BY <1>0, Queues
  <2>2. t1 = [m |-> [s.m EXCEPT !.queue = v], out |-> s.out] /\ t1.m.cmd = s.m.cmd
    BY Fields, CmdKept
  <2> HIDE DEF t1, v
  <2>3. t1 \in States /\ t1.m.queue = v /\ t1.m.timer = s.m.timer /\ t1.out = s.out
    BY <2>1, <2>2, QueueSet
  <2> QED
    BY <2>2, <2>3 DEF v
<1> HIDE DEF t1
<1>3. /\ t2 \in States /\ t2.m.queue = Tail(s.m.queue) /\ t2.m.timer = "off"
      /\ ~t2.m.awaiting /\ t2.out = s.out
  BY <1>2, StateSetting
<1>4. t2.m.cmd = s.m.cmd
  BY <1>2, CmdKept
<1> HIDE DEF t2
<1>5. /\ t3 \in States /\ t3.m.queue = Tail(s.m.queue) /\ t3.m.timer = "off"
      /\ ~t3.m.awaiting /\ ~t3.m.busy /\ t3.out = s.out
  BY <1>3, StateSetting
<1>6. t3.m.cmd = s.m.cmd
  BY <1>3, <1>4, CmdKept
<1> HIDE DEF t3
<1>7. Between(t3)
  <2> DEFINE q == s.m.queue
  <2>1. q \in Seq(Entry) /\ q # <<>> /\ TailsUnsent(q)
    BY <1>0
  <2> HIDE DEF q
  <2>2. TailsUnsent(Tail(q)) /\ (Tail(q) # <<>> => Tail(q)[1].sent = 0)
    BY <2>1, Queues
  <2> QED
    BY <1>5, <2>2 DEF Between, q
<1>8. Clear(t3) /\ NoAdd(t3)
  BY <1>5, <1>6 DEF Clear, NoError, NoLan, NoAdd
<1>9. Message("date", NoFile) \in Command /\ "date" \in Kinds
  BY SendingOther DEF Kinds
<1>10. Between(u)
  BY <1>5, <1>7, <1>9, SentSound
<1>11. Finalize(s).m.cmd = "none" => ~local
  BY FinalizeNoted
<1>12. ASSUME ~local PROVE Clear(u) /\ NoAdd(u)
  BY <1>5, <1>8, <1>9, <1>12, SentOver
<1> HIDE DEF u
<1> QED
  BY <1>1, <1>10, <1>11, <1>12, TryStartAlone

(* An attempt that failed leaves no add_one_file on its way.               *)
LEMMA MissedAlone ==
  ASSUME NEW s \in States, Clear(s), NoAdd(s), NEW N
  PROVE  Alone(Missed(s), N) /\ Missed(s).m.queue = s.m.queue
<1> DEFINE t1 == [s EXCEPT !.m.awaiting = FALSE]
           t2 == [t1 EXCEPT !.m.timer = "retry"]
<1>1. Missed(s) = t2
  BY DEF Missed
<1>2. t1 \in States /\ t1.m.queue = s.m.queue /\ t1.out = s.out
  BY StateSetting
<1>3. t1.m.cmd = s.m.cmd
  BY CmdKept
<1> HIDE DEF t1
<1>4. /\ t2 \in States /\ t2.m.queue = s.m.queue /\ t2.out = s.out
      /\ t2.m.cmd = s.m.cmd
  <2>1. "retry" \in Timers
    BY DEF Timers
  <2>2. t2 = [m |-> [t1.m EXCEPT !.timer = "retry"], out |-> t1.out] /\ t2.m.cmd = t1.m.cmd
    BY <1>2, Fields, CmdKept
  <2> HIDE DEF t2
  <2>3. t2 \in States /\ t2.m.queue = t1.m.queue /\ t2.out = t1.out
    BY <1>2, <2>1, <2>2, TimerSet
  <2> QED
    BY <1>2, <1>3, <2>2, <2>3
<1> HIDE DEF t2
<1>5. Clear(t2) /\ NoAdd(t2)
  BY <1>4 DEF Clear, NoError, NoLan, NoAdd
<1> QED
  BY <1>1, <1>4, <1>5, AloneQuiet

(* What remains on its way of a state that was alone, when the members and *)
(* the head have not changed and no command has been added.                *)
LEMMA FewerAlone ==
  ASSUME NEW s \in States, NEW t \in States, NEW N, Alone(s, N),
         t.m.cmd = s.m.cmd, t.m.awaiting = s.m.awaiting,
         s.m.queue # <<>> => t.m.queue # <<>> /\ Head(t.m.queue) = Head(s.m.queue),
         \A c \in Command : t.out[c] <= s.out[c]
  PROVE  Alone(t, N)
<1>1. s.out \in [Command -> Nat] /\ t.out \in [Command -> Nat]
  BY DEF States
<1>2. Clear(t)
  BY <1>1 DEF Alone, Clear, NoError, NoLan
<1>3. OwnAdd(t, N)
  <2> SUFFICES ASSUME NEW c \in Command, c.kind = "add", t.out[c] > 0
               PROVE  /\ t.m.awaiting /\ t.m.queue # <<>>
                      /\ c.file = Head(t.m.queue).file
                      /\ c.st = "ok" => c.file \in N
                      /\ t.out[c] = 1
                      /\ \A d \in Command : d.kind = "add" /\ t.out[d] > 0 => d = c
    BY DEF OwnAdd
  <2>1. s.out[c] > 0 /\ s.out[c] = 1
    BY <1>1 DEF Alone, OwnAdd
  <2>2. t.out[c] = 1
    BY <1>1, <2>1
  <2>3. \A d \in Command : t.out[d] > 0 => s.out[d] > 0
    BY <1>1
  <2> QED
    BY <2>1, <2>2, <2>3 DEF Alone, OwnAdd
<1> QED
  BY <1>2, <1>3 DEF Alone

-----------------------------------------------------------------------------
(* The actions, as long as no command has gone over the local link         *)

(* A handler that ends in s, and may not take the head away.               *)
LEMMA BecomesAlone ==
  ASSUME NEW s, s \in States, NEW done, Become(s, done), UNCHANGED nas,
         Alone(s, nas)
  PROVE  Alone(State, nas)' /\ link'.queue = s.m.queue
<1>1. s = [m |-> s.m, out |-> s.out]
  BY DEF States
<1>2. State' = s /\ link' = s.m
  BY <1>1 DEF Become, State
<1> QED
  BY <1>2 DEF Alone, Clear, NoError, NoLan, OwnAdd

LEMMA UploadedAlone ==
  ASSUME Inv, Alone(State, nas), NEW f \in Files, Uploaded(f), link'.cmd = "none"
  PROVE  Alone(State, nas)'
<1> DEFINE e == [file |-> f, sent |-> 0]
           t == [State EXCEPT !.m.queue = Append(@, e)]
           q == link.queue
           r == Append(q, e)
<1>0. /\ local \in BOOLEAN /\ UNCHANGED nas /\ Become(TryStart(t), FALSE)
      /\ TryStart(t).m.cmd = "none"
  BY DEF Inv, Others, Uploaded, Become
<1>1. State \in States /\ State.m = link /\ TailsUnsent(q)
  BY StateIs DEF Inv, Sound
<1>2. q \in Seq(Entry) /\ e \in Entry /\ e.sent = 0
  BY <1>1, StateIs, AttemptsPositive DEF Members, Entry
<1>3. /\ r \in Seq(Entry) /\ r # <<>>
      /\ q # <<>> => Head(r) = Head(q)
      /\ q = <<>> => TailsUnsent(r) /\ r[1].sent = 0
  <2>1. r \in Seq(Entry) /\ Len(r) = Len(q) + 1 /\ r[Len(r)] = e
        /\ \A i \in 1..Len(q) : r[i] = q[i]
    BY <1>2
  <2>2. r # <<>>
    BY <1>2, <2>1
  <2>3. \A z \in Seq(Entry) : z # <<>> => Head(z) = z[1]
    OBVIOUS
  <2>4. q # <<>> => Head(r) = Head(q)
    BY <1>2, <2>1, <2>2, <2>3
  <2>5. q = <<>> => TailsUnsent(r) /\ r[1].sent = 0
    BY <1>2, <2>1 DEF TailsUnsent
  <2> QED
    BY <2>1, <2>2, <2>4, <2>5
<1>4. t = [m |-> [link EXCEPT !.queue = r], out |-> State.out] /\ t.m.cmd = link.cmd
  BY <1>1, Fields, CmdKept
<1> HIDE DEF r, e, t
<1>5. /\ t \in States /\ t.m.queue = r /\ t.out = State.out
      /\ t.m.busy = link.busy /\ t.m.awaiting = link.awaiting /\ t.m.timer = link.timer
  BY <1>1, <1>3, <1>4, QueueSet
<1>6. Alone(TryStart(t), nas) /\ TryStart(t) \in States
  <2>1. CASE q = <<>>
    <3>1. Between(t)
      BY <1>1, <1>3, <1>5, <2>1 DEF Inv, Sound, Between
    <3>2. Clear(t) /\ NoAdd(t)
      <4>1. Clear(State) /\ NoAdd(State)
        BY <1>1, <2>1, AloneQuiet
      <4> QED
        BY <1>1, <1>4, <1>5, <4>1 DEF Clear, NoError, NoLan, NoAdd
    <3> QED
      BY <1>0, <3>1, <3>2, TryStartAlone, TryStartSound DEF Sound
  <2>2. CASE q # <<>>
    <3>1. \A c \in Command : t.out[c] <= State.out[c]
      BY <1>1, <1>5 DEF States
    <3>2. Alone(t, nas)
      BY <1>1, <1>3, <1>4, <1>5, <2>2, <3>1, FewerAlone
    <3>3. TryStart(t) = t
      BY <1>1, <1>5, <2>2 DEF TryStart, Inv, Sound
    <3> QED
      BY <1>5, <3>2, <3>3
  <2> QED
    BY <2>1, <2>2
<1> QED
  BY <1>0, <1>6, BecomesAlone

LEMMA OtherAlone ==
  ASSUME Inv, Alone(State, nas), OtherCommand, link'.cmd = "none"
  PROVE  Alone(State, nas)'
<1> DEFINE u == Sent(State, "other", NoFile)
           c == Message("other", NoFile)
<1>0. /\ State \in States /\ State.out \in [Command -> Nat] /\ local \in BOOLEAN
      /\ u.m.cmd = "none" /\ "other" \in Kinds
  BY DEF Inv, Others, Sound, States, OtherCommand, Become, Kinds
<1>1. ~local
  BY <1>0, SentNoted
<1>2. c \in Command /\ c.kind = "other"
  BY <1>0, SendingOther
<1>3. /\ u \in States /\ u.m = State.m /\ u.out = [State.out EXCEPT ![c] = @ + 1]
      /\ Clear(u)
  <2>1. c = Message("other", NoFile)
    OBVIOUS
  <2>2. Clear(State) /\ State \in States /\ "other" \in Kinds /\ c \in Command
    BY <1>0, <1>2 DEF Alone
  <2> HIDE DEF c
  <2>3. u \in States
    BY <2>1, <2>2, SentTyped
  <2>4. u.m = State.m /\ u.out = [State.out EXCEPT ![c] = @ + 1] /\ Clear(u)
    BY <1>1, <2>1, <2>2, SentOver
  <2> QED
    BY <2>3, <2>4
<1> HIDE DEF u, c
<1>5. \A d \in Command : d.kind = "add" => u.out[d] = State.out[d]
  BY <1>0, <1>2, <1>3
<1>6. OwnAdd(u, nas)
  BY <1>3, <1>5 DEF Alone, OwnAdd
<1> QED
  BY <1>3, <1>6, BecomesAlone DEF OtherCommand, Alone, u

LEMMA TimerAlone ==
  ASSUME Inv, Alone(State, nas), TimerFires
  PROVE  /\ link'.cmd = "none" => Alone(State, nas)'
         /\ Len(link'.queue) = Len(link.queue)
<1> DEFINE t == [State EXCEPT !.m.timer = "off"]
<1>1. /\ State \in States /\ State.m = link /\ link.timer # "off" /\ link.queue # <<>>
      /\ ~link.awaiting /\ TailsUnsent(link.queue) /\ link.busy
      /\ link.queue[1].sent < MaxAttempts /\ local \in BOOLEAN
  BY StateIs DEF Inv, Others, Sound, TimerFires
<1>2. "off" \in Timers
  BY DEF Timers
<1>3. t = [m |-> [State.m EXCEPT !.timer = "off"], out |-> State.out]
      /\ t.m.cmd = State.m.cmd
  BY <1>1, Fields, CmdKept
<1>4. Become(SendHead(t), FALSE) /\ UNCHANGED nas
  BY DEF TimerFires
<1> HIDE DEF t
<1>5. /\ t \in States /\ t.m.queue = link.queue /\ t.m.busy /\ t.m.timer = "off"
      /\ t.out = State.out
  BY <1>1, <1>2, <1>3, TimerSet
<1>6. Clear(t) /\ NoAdd(t)
  <2>1. Clear(State) /\ NoAdd(State)
    BY <1>1, AloneQuiet
  <2> QED
    BY <1>3, <1>5, <2>1 DEF Clear, NoError, NoLan, NoAdd
<1>7. SendHead(t).m.cmd = "none" => Alone(SendHead(t), nas)
  BY <1>1, <1>5, <1>6, SendHeadAlone
<1>8. SendHead(t) \in States
  BY <1>1, <1>5, SendHeadSound DEF Sound
<1>9. link' = SendHead(t).m
  BY <1>4 DEF Become
<1>10. Len(SendHead(t).m.queue) = Len(link.queue)
  BY <1>1, <1>5, SendHeadNoted
<1> QED
  BY <1>4, <1>7, <1>8, <1>9, <1>10, BecomesAlone

(* The answer of an add_one_file that says ok comes from a NAS that has    *)
(* indexed the file.                                                       *)
LEMMA TakenAlone ==
  ASSUME Inv, Alone(State, nas), NEW c \in Command, out[c] > 0,
         NEW st \in {"ok", "refused", "error"}, NEW effect \in BOOLEAN,
         NasTakes(c, st, effect)
  PROVE  Alone(State, nas)'
<1> DEFINE a == [c EXCEPT !.st = st]
<1>0. /\ State.out = out /\ out \in [Command -> Nat] /\ out[c] > 0 /\ c.st = "sent"
      /\ st \in Stages /\ ~c.lan /\ st # "error" /\ st # "sent" /\ (st = "ok" => effect)
  BY StateIs DEF Inv, Sound, NasTakes, Stages, Alone, Clear, NoLan
<1>1. a \in Command /\ a.st = st /\ a.kind = c.kind /\ a.file = c.file /\ ~a.lan
  BY <1>0, Answers
<1>2. out' = [out EXCEPT ![c] = @ - 1, ![a] = @ + 1] /\ link' = link
  BY DEF NasTakes, Moved
<1> HIDE DEF a
<1>3. /\ a # c
      /\ out'[a] = out[a] + 1 /\ out'[c] = out[c] - 1
      /\ \A d \in Command : d # c /\ d # a => out'[d] = out[d]
  BY <1>0, <1>1, <1>2
<1>4. State' = [m |-> link, out |-> out'] /\ State = [m |-> link, out |-> out]
  BY <1>2 DEF State
<1>5. Clear(State)'
  BY <1>0, <1>1, <1>3, <1>4 DEF Alone, Clear, NoError, NoLan
<1>6. nas \subseteq nas' /\ (a.kind = "add" /\ st = "ok" => a.file \in nas')
  BY <1>0, <1>1 DEF NasTakes
<1>7. OwnAdd(State, nas)'
  <2>1. OwnAdd(State, nas)
    BY DEF Alone
  <2>2. CASE c.kind # "add"
    <3>1. \A d \in Command : d.kind = "add" => out'[d] = out[d]
      BY <1>1, <1>3, <2>2
    <3> QED
      BY <1>4, <1>6, <2>1, <3>1 DEF OwnAdd
  <2>3. CASE c.kind = "add"
    <3>1. /\ link.awaiting /\ link.queue # <<>> /\ c.file = Head(link.queue).file
          /\ out[c] = 1
          /\ \A d \in Command : d.kind = "add" /\ out[d] > 0 => d = c
      BY <1>0, <1>4, <2>1, <2>3 DEF OwnAdd
    <3>2. \A d \in Command : d.kind = "add" /\ d # c => out[d] = 0
      BY <1>0, <3>1
    <3>3. \A d \in Command : d.kind = "add" /\ out'[d] > 0 => d = a
      BY <1>0, <1>3, <3>1, <3>2
    <3>4. out'[a] = 1
      BY <1>1, <1>3, <2>3, <3>2
    <3> QED
      BY <1>1, <1>4, <1>6, <3>1, <3>3, <3>4 DEF OwnAdd
  <2> QED
    BY <2>2, <2>3
<1> QED
  BY <1>5, <1>7 DEF Alone

LEMMA LoseAlone ==
  ASSUME Inv, Alone(State, nas), NEW c \in Command, Lose(c)
  PROVE  Alone(State, nas)'
<1>1. out \in [Command -> Nat] /\ out[c] > 0 /\ State \in States
  BY StateIs DEF Inv, Sound, Lose
<1> DEFINE t == [m |-> link, out |-> [out EXCEPT ![c] = @ - 1]]
<1>2. /\ State' = t /\ nas' = nas /\ State = [m |-> link, out |-> out]
  BY DEF Lose, State
<1>3. t \in States /\ \A d \in Command : t.out[d] <= State.out[d]
  BY <1>1, <1>2 DEF States
<1>4. t.m = link /\ State.m = link
  BY <1>2
<1> HIDE DEF t
<1>5. Alone(t, nas)
  BY <1>1, <1>3, <1>4, FewerAlone
<1> QED
  BY <1>2, <1>5 DEF Alone, Clear, NoError, NoLan, OwnAdd

LEMMA AnsweredAlone ==
  ASSUME Inv, Alone(State, nas), NEW c \in Command, out[c] > 0, Answered(c)
  PROVE  /\ link'.cmd = "none" => Alone(State, nas)'
         /\ Len(link'.queue) < Len(link.queue) =>
              \/ Head(link.queue).file \in nas
              \/ Head(link.queue).sent = MaxAttempts
<1> DEFINE s == [State EXCEPT !.out[c] = @ - 1]
           taken == IF c.st = "error" THEN s.m.awaiting /\ s.m.queue # <<>>
                                      ELSE Matches(s, c)
           indexed == c.kind = "add" /\ c.st = "ok"
           done == taken /\ (indexed \/ Attempted(s))
<1>0. /\ State = [m |-> link, out |-> out] /\ link \in Members
      /\ out \in [Command -> Nat] /\ out[c] > 0 /\ State.out = out
      /\ State \in States /\ local \in BOOLEAN
  BY StateIs DEF Inv, Others, Sound, State, Answered
<1>1. s = [m |-> link, out |-> [out EXCEPT ![c] = @ - 1]]
  BY <1>0
<1>2. Become(CASE done -> Finalize(s) [] taken /\ ~done -> Missed(s) [] OTHER -> s, done)
      /\ UNCHANGED <<local, nas, left>>
  BY DEF Answered
<1>3. c.st # "error"
  BY <1>0 DEF Alone, Clear, NoError
<1>4. taken <=> s.m.awaiting /\ s.m.queue # <<>> /\ c.kind = "add"
  <2>1. s.m = link /\ link.cmd = "none"
    BY <1>0, <1>1 DEF Alone, Clear
  <2> QED
    BY <1>3, <2>1 DEF Matches
<1>5. done <=> taken /\ (indexed \/ Attempted(s))
  OBVIOUS
<1>6. done => taken
  OBVIOUS
<1> HIDE DEF s, taken, done
<1>7. /\ s \in States /\ s.m = link /\ State.m = link
      /\ s.out[c] = State.out[c] - 1
      /\ \A d \in Command : d # c => s.out[d] = State.out[d]
  BY <1>0, <1>1 DEF States
<1>8. Alone(s, nas)
  <2>1. \A d \in Command : s.out[d] <= State.out[d]
    BY <1>0, <1>7
  <2> QED
    BY <1>0, <1>7, <2>1, FewerAlone
<1>9. CASE ~taken
  BY <1>2, <1>6, <1>7, <1>8, <1>9, BecomesAlone
<1>10. CASE taken
  <2>0. /\ link.queue # <<>> /\ link.busy /\ link.timer = "off" /\ TailsUnsent(link.queue)
        /\ c.kind = "add" /\ link.queue \in Seq(Entry)
    BY <1>0, <1>4, <1>7, <1>10 DEF Inv, Sound, Members
  <2>1. Clear(s) /\ NoAdd(s)
    <3>1. /\ out[c] = 1
          /\ \A d \in Command : d.kind = "add" /\ out[d] > 0 => d = c
      BY <1>0, <2>0 DEF Alone, OwnAdd
    <3>2. NoAdd(s)
      BY <1>0, <1>7, <3>1 DEF NoAdd
    <3> QED
      BY <1>8, <3>2 DEF Alone
  <2>2. CASE done
    <3>1. /\ Sound(Finalize(s))
          /\ Finalize(s).m.cmd = "none" => Alone(Finalize(s), nas)
      BY <1>0, <1>7, <2>0, <2>1, FinalizeSound, FinalizeAlone
    <3>2. link'.cmd = "none" => Alone(State, nas)'
      <4>1. Become(Finalize(s), done) /\ link' = Finalize(s).m /\ UNCHANGED nas
        BY <1>2, <2>2 DEF Become
      <4> QED
        BY <3>1, <4>1, BecomesAlone DEF Sound
    <3>3. Head(link.queue).file \in nas \/ Head(link.queue).sent = MaxAttempts
      <4>1. CASE indexed
        BY <1>0, <2>0, <4>1 DEF Alone, OwnAdd
      <4>2. CASE Attempted(s)
        <5>1. link.queue[1] \in Entry /\ Head(link.queue) = link.queue[1]
          BY <2>0, Queues
        <5> QED
          BY <1>7, <4>2, <5>1, AttemptsPositive DEF Attempted, Entry
      <4> QED
        BY <1>5, <2>2, <4>1, <4>2
    <3> QED
      BY <3>2, <3>3
  <2>3. CASE ~done
    <3>1. Alone(Missed(s), nas) /\ Missed(s).m.queue = link.queue
      BY <1>7, <2>1, MissedAlone
    <3>2. Missed(s) \in States
      <4>1. link.queue[1].sent < MaxAttempts
        <5>1. ~(link.queue[1].sent >= MaxAttempts)
          BY <1>5, <1>7, <1>10, <2>3 DEF Attempted
        <5>2. link.queue[1] \in Entry
          BY <2>0, Queues
        <5> QED
          BY <5>1, <5>2, AttemptsPositive DEF Entry
      <4> QED
        BY <1>7, <2>0, <4>1, MissedSound DEF Sound
    <3>3. Alone(State, nas)' /\ link'.queue = link.queue
      BY <1>2, <1>10, <2>3, <3>1, <3>2, BecomesAlone
    <3> QED
      BY <2>0, <3>3
  <2> QED
    BY <2>2, <2>3
<1> QED
  BY <1>9, <1>10

LEMMA P2pInit == Init => P2pInv
<1> SUFFICES ASSUME Init PROVE P2pInv
  OBVIOUS
<1>1. State.m.cmd = "none" /\ State.out = [c \in Command |-> 0]
  BY StateIs DEF Init, Idle
<1>2. Alone(State, nas)
  BY <1>1 DEF Alone, Clear, NoError, NoLan, OwnAdd
<1> QED
  BY <1>2, InitInv DEF P2pInv

(* The changes of device only get fewer.                                   *)
LEMMA SwitchesFewer ==
  ASSUME Inv, [Next]_vars, left'.switches = MaxSwitches
  PROVE  left.switches = MaxSwitches /\ ~Reset
<1>1. left.switches \in 0..MaxSwitches /\ MaxSwitches \in Nat
  BY BoundsNatural DEF Inv, Others, Lefts
<1>2. ~Reset
  <2> SUFFICES ASSUME Reset PROVE FALSE
    OBVIOUS
  <2>1. left'.switches = left.switches - 1
    BY DEF Reset, Inv, Others, Lefts
  <2> QED
    BY <1>1, <2>1
<1>3. left'.switches = left.switches
  <2>1. ASSUME NEW f \in Files, Uploaded(f) PROVE left'.switches = left.switches
    BY <2>1 DEF Uploaded, Inv, Others, Lefts
  <2>2. CASE OtherCommand
    BY <2>2 DEF OtherCommand, Inv, Others, Lefts
  <2>3. CASE FlipLink
    BY <2>3 DEF FlipLink, Inv, Others, Lefts
  <2>4. CASE UNCHANGED left
    BY <2>4
  <2> QED
    BY <1>2, <2>1, <2>2, <2>3, <2>4
    DEF Next, Network, TimerFires, NasTakes, Answered, Lose, vars
<1> QED
  BY <1>2, <1>3

(* What the members remember of a command, no handler forgets.             *)
LEMMA CmdIsKept ==
  ASSUME Inv, [Next]_vars, link'.cmd = "none", ~Reset
  PROVE  link.cmd = "none"
<1>0. /\ local \in BOOLEAN /\ State \in States /\ Sound(State)
      /\ State.m = link /\ link \in Members
  BY StateIs DEF Inv, Others, Sound
<1>1. ASSUME NEW f \in Files, Uploaded(f) PROVE link.cmd = "none"
  <2> DEFINE e == [file |-> f, sent |-> 0]
             r == Append(link.queue, e)
             t == [State EXCEPT !.m.queue = r]
  <2>1. link' = TryStart(t).m
    BY <1>0, <1>1 DEF Uploaded, Become
  <2>2. t = [m |-> [link EXCEPT !.queue = r], out |-> State.out] /\ t.m.cmd = link.cmd
    BY <1>0, Fields, CmdKept
  <2>3. /\ r \in Seq(Entry) /\ e.sent = 0
        /\ Len(r) = Len(link.queue) + 1 /\ r[Len(r)] = e
    <3>1. link.queue \in Seq(Entry) /\ e \in Entry /\ e.sent = 0
      BY <1>0, AttemptsPositive DEF Members, Entry
    <3> HIDE DEF e
    <3> QED
      BY <3>1
  <2> HIDE DEF r, t
  <2>4. /\ t \in States /\ t.m.queue = r /\ t.m.busy = link.busy
        /\ t.m.awaiting = link.awaiting /\ t.m.timer = link.timer
    BY <1>0, <2>2, <2>3, QueueSet
  <2>5. CASE link.queue = <<>>
    <3>1. TailsUnsent(r) /\ r[1].sent = 0
      <4>1. Len(r) = 1 /\ r[1].sent = 0
        BY <2>3, <2>5
      <4> QED
        BY <4>1 DEF TailsUnsent
    <3>2. Between(t)
      BY <1>0, <2>4, <2>5, <3>1 DEF Sound, Between
    <3> QED
      BY <2>1, <2>2, <3>2, TryStartNoted
  <2>6. CASE link.queue # <<>>
    BY <1>0, <2>1, <2>2, <2>4, <2>6 DEF TryStart, Sound
  <2> QED
    BY <2>5, <2>6
<1>2. CASE OtherCommand
  <2>1. link' = Sent(State, "other", NoFile).m /\ "other" \in Kinds
    BY <1>2 DEF OtherCommand, Become, Kinds
  <2> QED
    BY <1>0, <2>1, SentNoted
<1>3. CASE TimerFires
  <2> DEFINE t == [State EXCEPT !.m.timer = "off"]
  <2>1. link' = SendHead(t).m /\ "off" \in Timers
    BY <1>3 DEF TimerFires, Become, Timers
  <2>2. /\ link.queue # <<>> /\ TailsUnsent(link.queue)
        /\ link.queue[1].sent < MaxAttempts
    BY <1>0, <1>3 DEF Sound, TimerFires
  <2>3. t = [m |-> [State.m EXCEPT !.timer = "off"], out |-> State.out]
        /\ t.m.cmd = link.cmd
    BY <1>0, Fields, CmdKept
  <2> HIDE DEF t
  <2>4. t \in States /\ t.m.queue = link.queue
    BY <1>0, <2>1, <2>3, TimerSet
  <2> QED
    BY <2>1, <2>2, <2>3, <2>4, SendHeadNoted
<1>4. ASSUME NEW c \in Command, out[c] > 0, Answered(c) PROVE link.cmd = "none"
  <2> DEFINE s == [State EXCEPT !.out[c] = @ - 1]
             taken == IF c.st = "error" THEN s.m.awaiting /\ s.m.queue # <<>>
                                        ELSE Matches(s, c)
             indexed == c.kind = "add" /\ c.st = "ok"
             done == taken /\ (indexed \/ Attempted(s))
  <2>1. Become(CASE done -> Finalize(s) [] taken /\ ~done -> Missed(s) [] OTHER -> s, done)
    BY <1>4 DEF Answered
  <2>2. taken => s.m.awaiting /\ s.m.queue # <<>>
    BY DEF Matches
  <2>3. done => taken
    OBVIOUS
  <2>4. s.m = link /\ s \in States
    <3>1. State = [m |-> link, out |-> out] /\ out \in [Command -> Nat]
      BY <1>0, StateIs DEF State
    <3>2. s = [m |-> link, out |-> [out EXCEPT ![c] = @ - 1]]
      BY <3>1
    <3> HIDE DEF s
    <3> QED
      BY <1>0, <1>4, <3>1, <3>2 DEF States
  <2> HIDE DEF s, taken, done
  <2>5. CASE done
    <3>1. link' = Finalize(s).m
      BY <2>1, <2>5 DEF Become
    <3>2. /\ link.queue # <<>> /\ TailsUnsent(link.queue) /\ link.timer = "off"
      BY <1>0, <2>2, <2>3, <2>4, <2>5 DEF Sound
    <3> QED
      BY <1>0, <2>4, <3>1, <3>2, FinalizeNoted
  <2>6. CASE ~done /\ taken
    <3>1. link' = Missed(s).m
      BY <2>1, <2>6 DEF Become
    <3> QED
      BY <1>0, <2>4, <3>1, MissedNoted
  <2>7. CASE ~done /\ ~taken
    BY <2>1, <2>4, <2>7 DEF Become
  <2> QED
    BY <2>5, <2>6, <2>7
<1>5. CASE UNCHANGED link
  BY <1>5
<1> QED
  BY <1>1, <1>2, <1>3, <1>4, <1>5 DEF Next, Network, FlipLink, NasTakes, Lose, vars

LEMMA P2pNext ==
  ASSUME P2pInv, [Next]_vars
  PROVE  /\ P2pInv'
         /\ Leaves /\ FirstP2p => \/ Head(link.queue).file \in nas
                                  \/ Head(link.queue).sent = MaxAttempts
<1> DEFINE Gone == \/ Head(link.queue).file \in nas
                   \/ Head(link.queue).sent = MaxAttempts
<1>0. Inv /\ Inv' /\ link.queue \in Seq(Entry) /\ link'.queue \in Seq(Entry)
  <2>1. Inv /\ Inv'
    BY NextInv DEF P2pInv
  <2>2. link \in Members /\ link' \in Members
    BY <2>1 DEF Inv, Sound, State, States
  <2> QED
    BY <2>1, <2>2 DEF Members
<1>1. FirstP2p' => FirstP2p /\ ~Reset
  BY <1>0, SwitchesFewer, CmdIsKept DEF FirstP2p
<1>2. CASE ~FirstP2p
  BY <1>0, <1>1, <1>2 DEF P2pInv
<1>3. CASE FirstP2p
  <2>0. Alone(State, nas)
    BY <1>3 DEF P2pInv
  <2> DEFINE Safe == (link'.cmd = "none" => Alone(State, nas)') /\ (Leaves => Gone)
  <2>1. CASE Reset
    <3>1. left'.turns = left.turns - 1 /\ left.turns \in Nat
      BY <1>0, <2>1, BoundsNatural DEF Reset, Inv, Others, Lefts
    <3> QED
      BY <1>0, <1>1, <2>1, <3>1 DEF P2pInv, Leaves
  <2>2. ASSUME NEW f \in Files, Uploaded(f) PROVE Safe
    <3>1. left' # left
      BY <1>0, <2>2 DEF Uploaded, Inv, Others, Lefts
    <3> QED
      BY <1>0, <2>0, <2>2, <3>1, UploadedAlone DEF Leaves
  <2>3. ASSUME OtherCommand PROVE Safe
    <3>1. left'.turns = left.turns - 1 /\ left.turns \in Nat
      BY <1>0, <2>3, BoundsNatural DEF OtherCommand, Inv, Others, Lefts
    <3> QED
      BY <1>0, <2>0, <2>3, <3>1, OtherAlone DEF Leaves
  <2>4. ASSUME TimerFires PROVE Safe
    BY <1>0, <2>0, <2>4, TimerAlone DEF Leaves
  <2>5. ASSUME FlipLink PROVE Safe
    <3>1. Alone(State, nas)' /\ link' = link
      BY <2>0, <2>5 DEF FlipLink, State, Alone, Clear, NoError, NoLan, OwnAdd
    <3> QED
      BY <1>0, <3>1 DEF Leaves
  <2>6. ASSUME NEW c \in Command, out[c] > 0, NEW st \in {"ok", "refused", "error"},
               NEW effect \in BOOLEAN, NasTakes(c, st, effect)
        PROVE  Safe
    <3>1. Alone(State, nas)' /\ link' = link
      BY <1>0, <2>0, <2>6, TakenAlone DEF NasTakes
    <3> QED
      BY <1>0, <3>1 DEF Leaves
  <2>7. ASSUME NEW c \in Command, out[c] > 0, Answered(c) PROVE Safe
    BY <1>0, <2>0, <2>7, AnsweredAlone DEF Leaves
  <2>8. ASSUME NEW c \in Command, Lose(c) PROVE Safe
    <3>1. Alone(State, nas)' /\ link' = link
      BY <1>0, <2>0, <2>8, LoseAlone DEF Lose
    <3> QED
      BY <1>0, <3>1 DEF Leaves
  <2>9. ASSUME UNCHANGED vars PROVE Safe
    <3>1. Alone(State, nas)' /\ link' = link
      BY <2>0, <2>9 DEF vars, State, Alone, Clear, NoError, NoLan, OwnAdd
    <3> QED
      BY <1>0, <3>1 DEF Leaves
  <2>10. Safe => P2pInv' /\ (Leaves /\ FirstP2p => Gone)
    BY <1>0 DEF P2pInv, FirstP2p
  <2> HIDE DEF Gone, Safe
  <2>11. CASE Safe
    BY <2>10, <2>11 DEF Gone
  <2> QED
    BY <2>1, <2>2, <2>3, <2>4, <2>5, <2>6, <2>7, <2>8, <2>9, <2>11 DEF Next, Network
<1> QED
  BY <1>2, <1>3

(***************************************************************************)
(* As long as no command has gone over the local link, so that CmdService  *)
(* has none to hand out, no file leaves the queue before the NAS has       *)
(* indexed it or all the attempts have been made, whatever p2p loses and   *)
(* however the link changes, until the device is changed (dbFiles.cpp,     *)
(* cmdServiceDataFinished: the answers are matched by their keys).         *)
(***************************************************************************)
THEOREM FilesLeaveIndexedByP2p == Spec => LeavesIndexedByP2p
<1>1. P2pInv /\ [Next]_vars => P2pInv'
  BY P2pNext
<1>2. P2pInv /\ [Next]_vars =>
        [Leaves /\ link.cmd = "none" /\ left.switches = MaxSwitches =>
           \/ Head(link.queue).file \in nas
           \/ Head(link.queue).sent = MaxAttempts]_vars
  BY P2pNext DEF FirstP2p
<1> QED
  BY <1>1, <1>2, P2pInit, PTL DEF Spec, LeavesIndexedByP2p
=============================================================================
