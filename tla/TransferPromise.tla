--------------------------- MODULE TransferPromise ---------------------------
(***************************************************************************)
(* What the transfer table promises to its user: a file that was asked for *)
(* is forgotten only once it has been moved, or in the step in which the   *)
(* user takes it back.  Crashes, restarts, errors, pauses and changes of   *)
(* device are no excuse.  The one excuse is an answer that was cast        *)
(* adrift, because its transfer was taken back when the answer was on its  *)
(* way: it may be taken for that of another transfer.                      *)
(***************************************************************************)
CONSTANTS Types, Paths

VARIABLES
  want,   \* the transfers asked for and not yet forgotten
  moved,  \* the transfers whose data has arrived since they were asked for
  said,   \* what the user asked for, or took back, in the last step
  adrift  \* some answer is on its way that nobody waits for

Jobs == Types \X Paths

Silence == [ask |-> {}, back |-> {}]

Init == want = {} /\ moved = {} /\ said = Silence /\ adrift = FALSE

\* Asking for a path in one direction replaces the request for the other.
Ask(j) ==
  /\ said' = [ask |-> {j}, back |-> {}]
  /\ want' = {k \in want : k[2] # j[2]} \cup {j}
  /\ moved' = moved \ {j}

\* The user takes back some jobs; those of another device stay.
TakeBack(jobs) ==
  /\ said' = [ask |-> {}, back |-> jobs]
  /\ want' \subseteq want
  /\ want \ jobs \subseteq want'
  /\ UNCHANGED moved

Move(j) ==
  /\ moved' = moved \cup {j}
  /\ UNCHANGED want

Settle(j) ==
  /\ j \in want /\ (adrift \/ j \in moved)
  /\ want' = want \ {j}
  /\ UNCHANGED moved

\* What goes on without a word of the user.
Work == (\E j \in Jobs : Move(j) \/ Settle(j)) \/ UNCHANGED <<want, moved>>

Next ==
  /\ \/ \E j \in Jobs : Ask(j)
     \/ \E jobs \in SUBSET Jobs : TakeBack(jobs)
     \/ Work /\ said' = Silence
  /\ adrift' \in BOOLEAN

Spec == Init /\ [][Next]_<<want, moved, said, adrift>>
=============================================================================
