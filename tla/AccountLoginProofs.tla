------------------------- MODULE AccountLoginProofs -------------------------
(* Theorems about AccountLogin, for every set of users and every bound.    *)
EXTENDS AccountLogin, FiniteSetTheorems, TLAPS

LEMMA TokensType ==
  /\ Nothing \in Tokens
  /\ \A t : Wiped(t) = Nothing
  /\ NoCall \in Calls
  /\ \A u \in Users : [at |-> "auth", user |-> u, token |-> None] \in Calls
  /\ \A u \in Users : [at |-> "auth", user |-> None, token |-> u] \in Calls
  /\ \A u \in Users : [at |-> "id", token |-> u] \in Calls
  /\ \A u \in Users, v \in Nobody : [at |-> "cred", identity |-> u, token |-> v] \in Calls
BY DEF Nothing, Tokens, Wiped, NoCall, Calls, Nobody

(* What a call of each stage carries: a password sign-in is for a user,    *)
(* and a refresh for a token that is.                                      *)
LEMMA CallsType ==
  ASSUME TypeOK, NEW i \in Slots
  PROVE  /\ calls[i].at = "auth" =>
              \/ calls[i].user \in Users /\ calls[i].token = None
              \/ calls[i].user = None /\ calls[i].token \in Users
         /\ calls[i].at = "id" => calls[i].token \in Users
         /\ calls[i].at = "cred" => calls[i].identity \in Users /\ calls[i].token \in Nobody
BY DEF TypeOK, Calls, NoCall

(* The history that a page's saving leaves, and the part it does not touch.*)
LEMMA WrittenType ==
  ASSUME NEW h \in History, NEW w \in Fields, name \in Nobody
  PROVE  /\ Written(h, w) \in History
         /\ Written(h, w).overlap = h.overlap /\ Written(h, w).cut = h.cut
         /\ Written(h, w).out = h.out /\ Written(h, w).late = h.late
         /\ Written(h, w).renamed = (h.renamed \/ w.user # name)
BY FieldsType DEF Written, History

(* What autoSignIn() and the login page may do to name, page and history.  *)
LEMMA SignedInType ==
  ASSUME TypeOK, NEW typed \in SUBSET [user : Nobody, pass : BOOLEAN],
         NEW h \in History, SignedIn(typed, h)
  PROVE  /\ name' \in Nobody /\ pass' \in BOOLEAN
         /\ page' \in Pages /\ told' = FALSE
         /\ hist' \in History
         /\ hist'.overlap = h.overlap /\ hist'.cut = h.cut
         /\ hist'.out = h.out /\ hist'.late = h.late
         /\ h.renamed => hist'.renamed
         /\ name' # name => hist'.renamed
<1>1. name \in Nobody /\ pass \in BOOLEAN /\ page \in Pages
  BY DEF TypeOK
<1>2. ASSUME page = "login", page' = "home", NEW w \in typed,
             name' = w.user, pass' = w.pass, hist' = Written(h, w)
      PROVE  /\ name' \in Nobody /\ pass' \in BOOLEAN /\ page' \in Pages
             /\ hist' \in History
             /\ hist'.overlap = h.overlap /\ hist'.cut = h.cut
             /\ hist'.out = h.out /\ hist'.late = h.late
             /\ h.renamed => hist'.renamed
             /\ name' # name => hist'.renamed
  BY <1>1, <1>2 DEF Written, History, Pages
<1> QED
  BY <1>1, <1>2 DEF SignedIn

LEMMA SignedOutType ==
  ASSUME TypeOK, SignedOut
  PROVE  page' \in Pages /\ (page' # page => page = "home")
BY DEF TypeOK, SignedOut, Pages

(* autoSignIn() keeps the types, whatever tokens it finds.                 *)
LEMMA AutoSignInType ==
  ASSUME TypeOK, NEW t \in Tokens, NEW u \in Nobody,
         NEW typed \in SUBSET [user : Nobody, pass : BOOLEAN], NEW h \in History,
         AutoSignIn(t, u, typed, h)
  PROVE  /\ status' \in {"uninit", "running", "success", "error"}
         /\ calls' \in [Slots -> Calls]
         /\ name' \in Nobody /\ pass' \in BOOLEAN
         /\ page' \in Pages /\ told' \in BOOLEAN
         /\ hist' \in History
         /\ hist'.overlap = h.overlap /\ hist'.cut = h.cut
         /\ hist'.out = h.out /\ hist'.late = h.late
         /\ h.renamed => hist'.renamed
         /\ name' # name => hist'.renamed
<1>1. CASE Starts(t, u)
  <2>0. ~Valid(t)
    BY <1>1 DEF Starts
  <2>1. PICK i \in Slots \ UnderWay : calls' = [calls EXCEPT ![i] = Auth(t, u)]
    BY <1>1, <2>0 DEF AutoSignIn
  <2>2. t.refresh \in Nobody /\ name \in Nobody
    BY DEF Tokens, TypeOK
  <2>3. Auth(t, u) \in Calls
    BY <1>1, <2>2, TokensType, NoneIsNoUser DEF Auth, Starts, Refreshable, Nobody
  <2> QED
    BY <1>1, <2>0, <2>1, <2>3 DEF AutoSignIn, TypeOK, screen
<1>2. CASE Valid(t)
  <2>1. SignedIn(typed, h) /\ UNCHANGED <<status, calls>>
    BY <1>2 DEF AutoSignIn, Starts
  <2> QED
    BY <2>1, SignedInType DEF TypeOK
<1>3. CASE ~Valid(t) /\ ~Starts(t, u)
  BY <1>3, SignedOutType DEF AutoSignIn, TypeOK
<1> QED
  BY <1>1, <1>2, <1>3

(* The answers to a sign-in.                                               *)
LEMMA AnswerType ==
  ASSUME TypeOK, NEW i \in Slots, Answer(i)
  PROVE  TypeOK'
<1>1. /\ mem \in Tokens /\ saved \in Tokens /\ calls \in [Slots -> Calls]
      /\ hist \in History
  BY DEF TypeOK
<1>2. CASE TokensCome(i)
  <2> DEFINE c == calls[i]
             who == IF c.user # None THEN c.user ELSE c.token
  <2>1. c.at = "auth" /\ c.user \in Nobody /\ who \in Users
    BY <1>2, CallsType, NoneIsNoUser DEF TokensCome, Nobody
  <2>2. mem' \in Tokens
    <3>1. mem' = [mem EXCEPT !.refresh = IF c.user # None THEN c.user ELSE @, !.id = who]
      BY <1>2 DEF TokensCome
    <3> QED
      BY <3>1, <2>1, <1>1 DEF Tokens, Nobody
  <2>3. calls' \in [Slots -> Calls]
    <3>1. calls' = [calls EXCEPT ![i] = [at |-> "id", token |-> who]]
      BY <1>2 DEF TokensCome
    <3> QED
      BY <3>1, <2>1, <1>1, TokensType
  <2>4. name' \in Nobody /\ pass' \in BOOLEAN
    BY <1>2, <2>1 DEF TokensCome, TypeOK
  <2>5. hist' \in History
    BY <1>2, <1>1, <2>1 DEF TokensCome, History
  <2> QED
    BY <1>2, <2>2, <2>3, <2>4, <2>5 DEF TokensCome, TypeOK, screen
<1>3. CASE TokensRefused(i)
  <2>1. hist' \in History
    BY <1>3, <1>1 DEF TokensRefused, History
  <2> QED
    BY <1>3, <1>1, <2>1, TokensType DEF TokensRefused, Wipe, Ends, TypeOK, screen
<1>4. CASE TokensFail(i)
  BY <1>4, <1>1, TokensType DEF TokensFail, Ends, TypeOK, stored, screen
<1>5. CASE IdentityComes(i)
  <2>1. calls[i].token \in Users /\ mem.id \in Nobody
    BY <1>5, <1>1, CallsType DEF IdentityComes, Tokens
  <2>2. mem' \in Tokens
    BY <1>5, <1>1, <2>1 DEF IdentityComes, Tokens, Nobody
  <2>3. calls' \in [Slots -> Calls]
    BY <1>5, <1>1, <2>1, TokensType DEF IdentityComes
  <2> QED
    BY <1>5, <2>2, <2>3 DEF IdentityComes, TypeOK, stored, screen
<1>6. CASE CredentialsCome(i)
  <2>1. mem' \in Tokens
    BY <1>6, <1>1, CallsType DEF CredentialsCome, Tokens, Nobody
  <2> QED
    BY <1>6, <2>1, <1>1, TokensType DEF CredentialsCome, Ends, TypeOK
<1>7. CASE CredentialsFail(i)
  <2>1. hist' \in History
    BY <1>7, <1>1 DEF CredentialsFail, History
  <2> QED
    BY <1>7, <1>1, <2>1, TokensType
       DEF CredentialsFail, Wipe, Ends, TypeOK, Failed, PassKept, screen
<1> QED
  BY <1>2, <1>3, <1>4, <1>5, <1>6, <1>7 DEF Answer

(* The check and the button.                                               *)
LEMMA AskType ==
  ASSUME TypeOK, LoginChecker \/ InitDone \/ \E u \in Users : Press(u)
  PROVE  TypeOK'
<1>0. mem \in Tokens /\ saved \in Tokens /\ hist \in History /\ acts \in 0..MaxActs
  BY DEF TypeOK
<1>f. Fields \in SUBSET [user : Nobody, pass : BOOLEAN] /\ None \in Nobody
  BY FieldsType DEF Nobody
<1>1. CASE LoginChecker
  BY <1>1, <1>0, <1>f, AutoSignInType DEF LoginChecker, TypeOK
<1>2. CASE InitDone
  BY <1>2, <1>0, <1>f, AutoSignInType DEF InitDone, TypeOK
<1>3. ASSUME NEW u \in Users, Press(u) PROVE TypeOK'
  <2> DEFINE h == [hist EXCEPT !.overlap = @ \/ (Starts(mem, u) /\ UnderWay # {}),
                               !.out = FALSE, !.late = FALSE]
             typed == {[user |-> u, pass |-> TRUE]}
  <2>1. h \in History
    BY <1>0 DEF History
  <2>2. typed \in SUBSET [user : Nobody, pass : BOOLEAN] /\ u \in Nobody
    BY DEF Nobody
  <2>3. AutoSignIn(mem, u, typed, h)
    BY <1>3 DEF Press
  <2>4. acts' \in 0..MaxActs /\ revokes' \in 0..(MaxActs - acts')
    <3>1. revokes \in 0..(MaxActs - acts)
      BY DEF TypeOK
    <3>2. acts > 0 /\ acts' = acts - 1 /\ revokes' = revokes
      BY <1>3 DEF Press
    <3> QED
      BY <1>0, <3>1, <3>2, ActsNatural
  <2> HIDE DEF h, typed
  <2> QED
    BY <1>3, <1>0, <2>1, <2>2, <2>3, <2>4, AutoSignInType DEF Press, TypeOK
<1> QED
  BY <1>1, <1>2, <1>3

(* Steps of the user, the pages, the REST service and the clock.           *)
LEMMA AroundType ==
  ASSUME TypeOK,
         \/ RestError \/ SignOut \/ RevokeAnswered \/ SignInTold \/ LeaveWelcome
         \/ Logout \/ OpenLocal \/ \E w \in Fields : SaveLocal(w)
         \/ Expire \/ Crash
  PROVE  TypeOK'
<1>0. /\ mem \in Tokens /\ saved \in Tokens /\ hist \in History /\ name \in Nobody
      /\ acts \in 0..MaxActs /\ revokes \in 0..(MaxActs - acts)
  BY DEF TypeOK
<1>a. ASSUME acts > 0, acts' = acts - 1,
             revokes' = revokes \/ revokes' = revokes + 1 \/ revokes' = 0
      PROVE  acts' \in 0..MaxActs /\ revokes' \in 0..(MaxActs - acts')
  BY <1>0, <1>a, ActsNatural
<1>f. Fields \in SUBSET [user : Nobody, pass : BOOLEAN]
  BY FieldsType DEF Nobody
<1>1. CASE RestError
  <2>1. hist' \in History
    BY <1>1, <1>0 DEF RestError, History
  <2> QED
    BY <1>1, <1>a, <2>1, TokensType DEF RestError, Wipe, PassKept, TypeOK, screen
<1>2. CASE SignOut
  <2>1. hist' \in History
    BY <1>2, <1>0 DEF SignOut, History
  <2> QED
    BY <1>2, <1>a, <2>1, TokensType DEF SignOut, Wipe, PassAfterSignOut, TypeOK, screen
<1>3. CASE RevokeAnswered
  <2>1. revokes' \in 0..(MaxActs - acts) /\ acts' = acts
    BY <1>0, <1>3, ActsNatural DEF RevokeAnswered
  <2>2. page' \in Pages
    BY <1>3, SignedOutType DEF RevokeAnswered, TypeOK
  <2> QED
    BY <1>3, <2>1, <2>2 DEF RevokeAnswered, TypeOK, stored
<1>4. CASE SignInTold
  BY <1>4, <1>0, <1>f, SignedInType DEF SignInTold, TypeOK
<1>5. CASE LeaveWelcome
  BY <1>5 DEF LeaveWelcome, TypeOK, stored, Pages
<1>6. CASE Logout
  <2>1. hist' \in History
    BY <1>6, <1>0 DEF Logout, History
  <2> QED
    BY <1>6, <1>a, <2>1 DEF Logout, TypeOK, screen
<1>7. CASE OpenLocal
  BY <1>7 DEF OpenLocal, TypeOK, stored, Pages
<1>8. ASSUME NEW w \in Fields, SaveLocal(w) PROVE TypeOK'
  <2>1. Written(hist, w) \in History
    BY <1>0, WrittenType
  <2>2. hist' \in History
    BY <1>8, <2>1 DEF SaveLocal, History
  <2>3. w.user \in Nobody /\ w.pass \in BOOLEAN
    BY <1>f
  <2> QED
    BY <1>8, <1>a, <2>2, <2>3 DEF SaveLocal, TypeOK, Pages
<1>9. CASE Expire
  <2>1. mem' \in Tokens /\ saved' \in Tokens
    BY <1>9, <1>0 DEF Expire, Tokens
  <2> QED
    BY <1>9, <2>1 DEF Expire, TypeOK, screen
<1>10. CASE Crash
  BY <1>10, <1>a, TokensType DEF Crash, TypeOK, stored, Pages
<1> QED
  BY <1>1, <1>2, <1>3, <1>4, <1>5, <1>6, <1>7, <1>8, <1>9, <1>10

LEMMA InitType == Init => TypeOK
<1>1. Init => hist \in History /\ acts \in 0..MaxActs /\ revokes \in 0..(MaxActs - acts)
  BY ActsNatural DEF Init, History
<1> QED
  BY <1>1, TokensType DEF Init, TypeOK, Nobody, Pages

LEMMA NextType == TypeOK /\ [Next]_vars => TypeOK'
<1> SUFFICES ASSUME TypeOK, [Next]_vars PROVE TypeOK'
  OBVIOUS
<1>1. CASE UNCHANGED vars
  BY <1>1 DEF vars, TypeOK
<1>2. CASE Next
  BY <1>2, AskType, AnswerType, AroundType DEF Next
<1> QED
  BY <1>1, <1>2

(***************************************************************************)
(* Every variable keeps its type; a request for tokens has a user whose    *)
(* password it gives or a refresh token (awsAccount.cpp, autoSignIn).      *)
(***************************************************************************)
THEOREM TypeCorrect == Spec => []TypeOK
BY InitType, NextType, PTL DEF Spec

-----------------------------------------------------------------------------
(* Who has signed out. *)

(* What callbacks have posted is for the login page that is open; nothing  *)
(* is posted to who is out.                                                *)
OutInv ==
  /\ told => page = "login"
  /\ hist.out /\ ~hist.late => ~told
  /\ StaysOut

LEMMA ToldStep ==
  ASSUME TypeOK, OutInv, [Next]_vars
  PROVE  told' => page' = "login"
<1>0. told => page = "login"
  BY DEF OutInv
<1>1. ASSUME NEW t, NEW u, NEW typed, NEW h, AutoSignIn(t, u, typed, h)
      PROVE  told' => page' = "login"
  BY <1>0, <1>1 DEF AutoSignIn, SignedIn, SignedOut, screen
<1>2. CASE LoginChecker \/ InitDone \/ \E u \in Users : Press(u)
  BY <1>1, <1>2 DEF LoginChecker, InitDone, Press
<1>3. CASE \E i \in Slots : Answer(i)
  BY <1>0, <1>3 DEF Answer, TokensCome, TokensRefused, TokensFail, IdentityComes,
     CredentialsCome, CredentialsFail, screen
<1>4. CASE \/ RestError \/ SignOut \/ RevokeAnswered \/ SignInTold \/ LeaveWelcome
           \/ Logout \/ OpenLocal \/ (\E w \in Fields : SaveLocal(w))
           \/ Expire \/ Crash \/ UNCHANGED vars
  BY <1>0, <1>4 DEF RestError, SignOut, RevokeAnswered, SignInTold, SignedIn, SignedOut,
     LeaveWelcome, Logout, OpenLocal, SaveLocal, Expire, Crash, vars, screen
<1> QED
  BY <1>2, <1>3, <1>4 DEF Next

(* Out, with no sign-in under way: only the button and a page that saves   *)
(* an account for a NAS end that.                                          *)
LEMMA OutStep ==
  ASSUME TypeOK, OutInv, [Next]_vars
  PROVE  OutInv'
<1> DEFINE Clean == mem = Nothing /\ saved = Nothing /\ ~pass /\ UnderWay = {} /\ ~told
<1> SUFFICES ASSUME hist'.out, ~hist'.late
             PROVE  Clean'
  BY ToldStep DEF OutInv, StaysOut
<1>0. hist \in History
  BY DEF TypeOK
<1>s. ASSUME SignOut PROVE Clean'
  <2>1. hist'.late = (UnderWay # {})
    BY <1>s, <1>0 DEF SignOut, History
  <2>2. ~told
    BY <1>s DEF SignOut, OutInv
  <2> QED
    BY <1>s, <2>1, <2>2 DEF SignOut, Wipe, Wiped, PassAfterSignOut, UnderWay, screen
<1>p. ASSUME NEW u \in Users, Press(u) PROVE FALSE
  <2> DEFINE h == [hist EXCEPT !.overlap = @ \/ (Starts(mem, u) /\ UnderWay # {}),
                               !.out = FALSE, !.late = FALSE]
             typed == {[user |-> u, pass |-> TRUE]}
  <2>1. h \in History /\ ~h.out
    BY <1>0 DEF History
  <2>2. AutoSignIn(mem, u, typed, h)
    BY <1>p DEF Press
  <2>3. typed \in SUBSET [user : Nobody, pass : BOOLEAN] /\ u \in Nobody /\ mem \in Tokens
    BY DEF Nobody, TypeOK
  <2> HIDE DEF h, typed
  <2> QED
    BY <2>1, <2>2, <2>3, AutoSignInType
<1>l. ASSUME NEW w \in Fields, SaveLocal(w) PROVE FALSE
  <2>1. Written(hist, w) \in History
    BY <1>0, WrittenType DEF TypeOK
  <2> QED
    BY <1>l, <2>1 DEF SaveLocal, History
<1>o. ASSUME Next, ~SignOut PROVE hist.out /\ ~hist.late
  <2>f. Fields \in SUBSET [user : Nobody, pass : BOOLEAN] /\ None \in Nobody
    BY FieldsType DEF Nobody
  <2>1. CASE LoginChecker \/ InitDone
    BY <2>1, <1>0, <2>f, AutoSignInType DEF LoginChecker, InitDone, TypeOK
  <2>2. CASE SignInTold
    BY <2>2, <1>0, <2>f, SignedInType DEF SignInTold, TypeOK
  <2>3. CASE \E i \in Slots : Answer(i)
    <3>1. PICK i \in Slots : Answer(i)
      BY <2>3
    <3>2. CASE TokensCome(i)
      BY <3>2, <1>0 DEF TokensCome, History
    <3>3. CASE TokensRefused(i) \/ CredentialsFail(i)
      BY <3>3, <1>0 DEF TokensRefused, CredentialsFail, History
    <3>4. CASE TokensFail(i) \/ IdentityComes(i) \/ CredentialsCome(i)
      BY <3>4 DEF TokensFail, IdentityComes, CredentialsCome
    <3> QED
      BY <3>1, <3>2, <3>3, <3>4 DEF Answer
  <2>4. CASE RestError \/ RevokeAnswered \/ LeaveWelcome \/ Logout \/ OpenLocal \/ Expire \/ Crash
    BY <2>4, <1>0 DEF RestError, RevokeAnswered, LeaveWelcome, Logout, OpenLocal, Expire,
       Crash, History
  <2> QED
    BY <1>o, <1>p, <1>l, <2>1, <2>2, <2>3, <2>4 DEF Next
<1>n. ASSUME hist.out /\ ~hist.late, Next, ~SignOut PROVE Clean'
  <2>1. mem = Nothing /\ saved = Nothing /\ ~pass /\ UnderWay = {} /\ ~told
    BY <1>n DEF StaysOut, OutInv
  <2>2. \A i \in Slots : calls[i] = NoCall
    BY <2>1 DEF UnderWay
  <2>3. ~Starts(Nothing, None) /\ ~Nothing.fresh /\ ~Valid(Nothing)
    BY <2>1 DEF Starts, Refreshable, Nothing, Valid
  <2>4. CASE LoginChecker \/ InitDone
    BY <2>4, <2>1, <2>3 DEF LoginChecker, InitDone, AutoSignIn, UnderWay
  <2>5. CASE \E i \in Slots : Answer(i)
    BY <2>5, <2>2 DEF Answer, TokensCome, TokensRefused, TokensFail, IdentityComes,
       CredentialsCome, CredentialsFail, NoCall
  <2>6. CASE RestError
    BY <2>6, <2>1 DEF RestError, Wipe, Wiped, PassKept, UnderWay, screen
  <2>7. CASE Expire
    BY <2>7, <2>1, <2>3 DEF Expire
  <2>8. CASE Crash
    BY <2>8, <2>1 DEF Crash, stored, UnderWay
  <2>9. CASE SignInTold \/ RevokeAnswered \/ LeaveWelcome \/ Logout \/ OpenLocal
    BY <2>9, <2>1 DEF SignInTold, RevokeAnswered, LeaveWelcome, Logout, OpenLocal, UnderWay,
       stored, screen
  <2> QED
    BY <1>n, <1>p, <1>l, <2>4, <2>5, <2>6, <2>7, <2>8, <2>9 DEF Next
<1>u. ASSUME UNCHANGED vars PROVE Clean'
  BY <1>u DEF vars, OutInv, StaysOut, UnderWay
<1> QED
  BY <1>s, <1>o, <1>n, <1>u

(***************************************************************************)
(* Who has signed out stays out, unless a sign-in was under way            *)
(* (awsAccount.cpp, signOut and loginChecker).                             *)
(***************************************************************************)
THEOREM SignedOutStaysOut == Spec => []StaysOut
<1>1. Init => OutInv
  BY DEF Init, OutInv, StaysOut
<1>2. OutInv => StaysOut
  BY DEF OutInv
<1> QED
  BY <1>1, <1>2, OutStep, InitType, NextType, PTL DEF Spec

-----------------------------------------------------------------------------
(* One sign-in at a time. *)

AtMostOne == \A i, j \in UnderWay : i = j

Alone == AtMostOne /\ (UnderWay # {} => status = "running")

OneInv ==
  /\ TypeOK
  /\ ~ready => UnderWay = {}
  /\ ~hist.overlap => Alone

(* autoSignIn() with nothing under way.                                    *)
LEMMA AutoSignInAlone ==
  ASSUME TypeOK, NEW t, NEW u, NEW typed, NEW h, AutoSignIn(t, u, typed, h), UnderWay = {}
  PROVE  Alone'
<1>1. calls \in [Slots -> Calls]
  BY DEF TypeOK
<1>2. Auth(t, u).at = "auth" /\ Auth(t, u) # NoCall
  BY DEF Auth, NoCall
<1>3. CASE Starts(t, u)
  <2>0. ~Valid(t)
    BY <1>3 DEF Starts
  <2>1. status' = "running"
    BY <1>3, <2>0 DEF AutoSignIn
  <2>2. PICK i \in Slots : calls' = [calls EXCEPT ![i] = Auth(t, u)]
    BY <1>3, <2>0 DEF AutoSignIn
  <2>3. UnderWay' = {i}
    BY <2>2, <1>1, <1>2 DEF UnderWay
  <2> QED
    BY <2>1, <2>3 DEF Alone, AtMostOne
<1>4. CASE ~Starts(t, u)
  BY <1>4 DEF AutoSignIn, Alone, AtMostOne, UnderWay
<1> QED
  BY <1>3, <1>4

(* autoSignIn() that starts nothing.                                       *)
LEMMA AutoSignInIdle ==
  ASSUME NEW t, NEW u, NEW typed, NEW h, AutoSignIn(t, u, typed, h), ~Starts(t, u)
  PROVE  UNCHANGED <<status, calls>>
BY DEF AutoSignIn

(* A call that ends, or goes on to its next stage.                         *)
LEMMA AnswerUnderWay ==
  ASSUME TypeOK, NEW i \in Slots, Answer(i)
  PROVE  /\ i \in UnderWay
         /\ UnderWay' = UnderWay \/ UnderWay' = UnderWay \ {i}
         /\ UnderWay' = UnderWay => status' = status
         /\ hist'.overlap = hist.overlap
         /\ ready' = ready
<1>1. calls \in [Slots -> Calls] /\ hist \in History
  BY DEF TypeOK, TypeOK
<1>2. i \in UnderWay
  BY DEF Answer, TokensCome, TokensRefused, TokensFail, IdentityComes,
     CredentialsCome, CredentialsFail, UnderWay, NoCall
<1>3. CASE TokensCome(i) \/ IdentityComes(i)
  <2>1. PICK c : c # NoCall /\ calls' = [calls EXCEPT ![i] = c]
    BY <1>3 DEF TokensCome, IdentityComes, NoCall
  <2>2. UnderWay' = UnderWay
    BY <2>1, <1>1, <1>2 DEF UnderWay
  <2> QED
    BY <1>1, <1>2, <1>3, <2>2 DEF TokensCome, IdentityComes, History
<1>4. CASE TokensRefused(i) \/ TokensFail(i) \/ CredentialsCome(i) \/ CredentialsFail(i)
  <2>1. calls' = [calls EXCEPT ![i] = NoCall]
    BY <1>4 DEF TokensRefused, TokensFail, CredentialsCome, CredentialsFail, Ends
  <2>2. UnderWay' = UnderWay \ {i}
    BY <2>1, <1>1 DEF UnderWay
  <2> QED
    BY <1>1, <1>2, <1>4, <2>2
       DEF TokensRefused, TokensFail, CredentialsCome, CredentialsFail, History
<1> QED
  BY <1>3, <1>4 DEF Answer

(* What the button does to the history.                                    *)
LEMMA PressHistory ==
  ASSUME TypeOK, NEW u \in Users, Press(u)
  PROVE  /\ hist'.overlap = (hist.overlap \/ (Starts(mem, u) /\ UnderWay # {}))
         /\ hist'.cut = hist.cut
         /\ hist.renamed => hist'.renamed
         /\ name' # name => hist'.renamed
<1> DEFINE h == [hist EXCEPT !.overlap = @ \/ (Starts(mem, u) /\ UnderWay # {}),
                             !.out = FALSE, !.late = FALSE]
           typed == {[user |-> u, pass |-> TRUE]}
<1>1. /\ h \in History /\ h.cut = hist.cut /\ h.renamed = hist.renamed
      /\ h.overlap = (hist.overlap \/ (Starts(mem, u) /\ UnderWay # {}))
  BY DEF History, TypeOK
<1>2. AutoSignIn(mem, u, typed, h)
  BY DEF Press
<1>3. typed \in SUBSET [user : Nobody, pass : BOOLEAN] /\ u \in Nobody /\ mem \in Tokens
  BY DEF Nobody, TypeOK
<1> HIDE DEF h, typed
<1> QED
  BY <1>1, <1>2, <1>3, AutoSignInType

(* What every other step but an answer does to it.                         *)
LEMMA AroundHistory ==
  ASSUME TypeOK,
         \/ LoginChecker \/ InitDone \/ RestError \/ SignOut \/ RevokeAnswered
         \/ SignInTold \/ LeaveWelcome \/ Logout \/ OpenLocal
         \/ (\E w \in Fields : SaveLocal(w)) \/ Expire \/ Crash
  PROVE  /\ hist'.overlap = hist.overlap
         /\ hist.cut => hist'.cut
         /\ hist.renamed => hist'.renamed
         /\ name' # name => hist'.renamed
<1>0. hist \in History /\ mem \in Tokens /\ saved \in Tokens /\ name \in Nobody
  BY DEF TypeOK
<1>f. Fields \in SUBSET [user : Nobody, pass : BOOLEAN] /\ None \in Nobody
  BY FieldsType DEF Nobody
<1>1. CASE LoginChecker \/ InitDone
  BY <1>1, <1>0, <1>f, AutoSignInType DEF LoginChecker, InitDone
<1>2. CASE SignInTold
  BY <1>2, <1>0, <1>f, SignedInType DEF SignInTold
<1>3. ASSUME NEW w \in Fields, SaveLocal(w)
      PROVE  /\ hist'.overlap = hist.overlap
             /\ hist.cut => hist'.cut
             /\ hist.renamed => hist'.renamed
             /\ name' # name => hist'.renamed
  <2>1. hist' = [Written(hist, w) EXCEPT !.out = FALSE, !.late = FALSE]
    BY <1>3 DEF SaveLocal
  <2>2. /\ hist'.overlap = Written(hist, w).overlap /\ hist'.cut = Written(hist, w).cut
        /\ hist'.renamed = Written(hist, w).renamed
    BY <1>0, <2>1, WrittenType DEF History
  <2>3. name' = w.user
    BY <1>3 DEF SaveLocal
  <2> QED
    BY <1>0, <2>2, <2>3, WrittenType
<1>4. CASE RestError \/ SignOut \/ Logout
  BY <1>4, <1>0 DEF RestError, SignOut, Logout, History
<1>5. CASE RevokeAnswered \/ LeaveWelcome \/ OpenLocal \/ Expire \/ Crash
  BY <1>5 DEF RevokeAnswered, LeaveWelcome, OpenLocal, Expire, Crash, stored
<1> QED
  BY <1>1, <1>2, <1>3, <1>4, <1>5

LEMMA OneStep ==
  ASSUME OneInv, [Next]_vars
  PROVE  OneInv'
<1>0. TypeOK /\ TypeOK'
  BY NextType DEF OneInv
<1> SUFFICES (~ready' => UnderWay' = {}) /\ (~hist'.overlap => Alone')
  BY <1>0 DEF OneInv
<1>1. CASE \/ UNCHANGED vars \/ RestError \/ SignOut \/ RevokeAnswered \/ SignInTold
           \/ LeaveWelcome \/ Logout \/ OpenLocal \/ (\E w \in Fields : SaveLocal(w))
           \/ Expire
  <2>1. hist'.overlap = hist.overlap
    BY <1>0, <1>1, AroundHistory DEF vars
  <2>2. UNCHANGED <<ready, status, calls>>
    BY <1>1 DEF vars, RestError, SignOut, RevokeAnswered, SignInTold, LeaveWelcome, Logout,
       OpenLocal, SaveLocal, Expire
  <2> QED
    BY <2>1, <2>2 DEF OneInv, Alone, AtMostOne, UnderWay
<1>2. CASE LoginChecker
  <2>1. ~hist.overlap => UnderWay = {}
    BY <1>2 DEF LoginChecker, Checks, OneInv, Alone
  <2>2. hist'.overlap = hist.overlap /\ ready' = ready /\ ready
    BY <1>0, <1>2, AroundHistory DEF LoginChecker
  <2>3. ~hist.overlap => Alone'
    BY <1>0, <1>2, <2>1, AutoSignInAlone DEF LoginChecker
  <2> QED
    BY <2>2, <2>3
<1>3. CASE InitDone
  <2>1. UnderWay = {} /\ ready'
    BY <1>3 DEF InitDone, OneInv
  <2>2. Alone'
    BY <1>0, <1>3, <2>1, AutoSignInAlone DEF InitDone
  <2> QED
    BY <2>1, <2>2
<1>4. ASSUME NEW u \in Users, Press(u)
      PROVE  (~ready' => UnderWay' = {}) /\ (~hist'.overlap => Alone')
  <2>1. /\ hist'.overlap = (hist.overlap \/ (Starts(mem, u) /\ UnderWay # {}))
        /\ ready'
    BY <1>0, <1>4, PressHistory DEF Press
  <2>2. CASE Starts(mem, u)
    <3>1. ~hist'.overlap => UnderWay = {}
      BY <2>1, <2>2
    <3>2. UnderWay = {} => Alone'
      BY <1>0, <1>4, AutoSignInAlone DEF Press
    <3> QED
      BY <2>1, <3>1, <3>2
  <2>3. CASE ~Starts(mem, u)
    <3>1. UNCHANGED <<status, calls>>
      BY <1>4, <2>3, AutoSignInIdle DEF Press
    <3> QED
      BY <2>1, <2>3, <3>1 DEF OneInv, Alone, AtMostOne, UnderWay
  <2> QED
    BY <2>2, <2>3
<1>5. ASSUME NEW i \in Slots, Answer(i)
      PROVE  (~ready' => UnderWay' = {}) /\ (~hist'.overlap => Alone')
  <2>1. ready /\ ready'
    BY <1>0, <1>5, AnswerUnderWay DEF OneInv
  <2>2. ~hist.overlap => Alone'
    BY <1>0, <1>5, AnswerUnderWay DEF OneInv, Alone, AtMostOne
  <2> QED
    BY <1>0, <1>5, <2>1, <2>2, AnswerUnderWay DEF OneInv
<1>6. CASE Crash
  BY <1>6 DEF Crash, Alone, AtMostOne, UnderWay
<1> QED
  BY <1>1, <1>2, <1>3, <1>4, <1>5, <1>6 DEF Next

LEMMA InitOne == Init => OneInv
BY InitType DEF Init, OneInv, Alone, AtMostOne, UnderWay

LEMMA AtMostOneIsOne == AtMostOne => Cardinality(UnderWay) <= 1
<1> SUFFICES ASSUME AtMostOne PROVE Cardinality(UnderWay) <= 1
  OBVIOUS
<1>1. CASE UnderWay = {}
  BY <1>1, FS_EmptySet
<1>2. ASSUME NEW i \in UnderWay PROVE Cardinality(UnderWay) <= 1
  <2>1. UnderWay = {i}
    BY DEF AtMostOne
  <2> QED
    BY <2>1, FS_Singleton
<1> QED
  BY <1>1, <1>2

(***************************************************************************)
(* One sign-in is under way at a time, unless the button started another   *)
(* (awsAccount.cpp, loginChecker).                                         *)
(***************************************************************************)
THEOREM OneSignInAtATime == Spec => []OneSignIn
<1>1. OneInv => OneSignIn
  BY AtMostOneIsOne DEF OneInv, Alone, OneSignIn
<1> QED
  BY <1>1, InitOne, OneStep, PTL DEF Spec

-----------------------------------------------------------------------------
(* Everything is of one user. *)

(* Tokens of one user, from one sign-in.                                   *)
OfOne(t) ==
  /\ {t.id, t.identity, t.cred} \subseteq {None, t.refresh}
  /\ t.fresh => t.refresh # None /\ t.cred = t.refresh /\ t.identity = t.refresh

(* They are of the user who is named.                                      *)
Named(t) == t.refresh \in {None, name} \/ hist.renamed

(* What a call will bring fits what is in memory.                          *)
Fits(m, c) ==
  /\ c # NoCall => ~m.fresh
  /\ c.at = "auth" => IF c.user # None THEN m.refresh = None
                      ELSE c.token = m.refresh
  /\ c.at = "id" => c.token = m.refresh /\ m.id = m.refresh
  /\ c.at = "cred" => c.identity = m.refresh /\ m.identity = m.refresh

AllFit ==
  /\ OfOne(mem) /\ Named(mem)
  /\ OfOne(saved) /\ Named(saved)
  /\ ready /\ mem.refresh = None => saved.refresh = None
  /\ \A i \in Slots : Fits(mem, calls[i])

UserInv == OneInv /\ (~hist.overlap /\ ~hist.cut => AllFit)

(* A page that saves another name is remembered.                           *)
LEMMA NamedKept ==
  ASSUME NEW t, Named(t), hist.renamed => hist'.renamed, name' # name => hist'.renamed
  PROVE  t.refresh \in {None, name'} \/ hist'.renamed
BY DEF Named

(* autoSignIn() with nothing under way, for the tokens that are in memory  *)
(* after it.                                                               *)
LEMMA AutoSignInFits ==
  ASSUME TypeOK, NEW t \in Tokens, NEW u \in Nobody, NEW typed, NEW h,
         AutoSignIn(t, u, typed, h), UnderWay = {}, OfOne(t)
  PROVE  \A i \in Slots : Fits(t, calls'[i])
<1>1. calls \in [Slots -> Calls]
  BY DEF TypeOK
<1>2. \A i \in Slots : calls[i] = NoCall
  BY DEF UnderWay
<1>3. CASE Starts(t, u)
  <2>0. ~Valid(t)
    BY <1>3 DEF Starts
  <2>1. PICK i \in Slots : calls' = [calls EXCEPT ![i] = Auth(t, u)]
    BY <1>3, <2>0 DEF AutoSignIn
  <2>2. ~t.fresh
    BY <2>0 DEF OfOne, Valid
  <2>3. \/ t.refresh # None /\ Auth(t, u) = [at |-> "auth", user |-> None, token |-> t.refresh]
        \/ /\ t.refresh = None
           /\ Auth(t, u).at = "auth"
           /\ Auth(t, u).user # None
    BY <1>3, <2>2 DEF Auth, Starts, Refreshable
  <2>4. Fits(t, Auth(t, u)) /\ Fits(t, NoCall)
    BY <2>2, <2>3 DEF Fits, NoCall
  <2> QED
    BY <1>1, <1>2, <2>1, <2>4
<1>4. CASE ~Starts(t, u)
  <2>1. Fits(t, NoCall)
    BY DEF Fits, NoCall
  <2> QED
    BY <1>2, <1>4, <2>1, AutoSignInIdle
<1> QED
  BY <1>3, <1>4

LEMMA NoneFits ==
  ASSUME NEW m, UnderWay = {}
  PROVE  \A i \in Slots : Fits(m, calls[i])
BY DEF UnderWay, Fits, NoCall

(* The answers, to the only sign-in.                                       *)
LEMMA AnswerFits ==
  ASSUME UserInv, NEW i \in Slots, Answer(i), ~hist'.overlap, ~hist'.cut
  PROVE  AllFit'
<1>0. /\ TypeOK /\ calls \in [Slots -> Calls] /\ hist \in History
      /\ mem \in Tokens
  BY DEF UserInv, OneInv, TypeOK
<1>1. ~hist.overlap /\ ~hist.cut
  BY <1>0 DEF Answer, TokensCome, TokensRefused, TokensFail, IdentityComes,
     CredentialsCome, CredentialsFail, History
<1>2. AllFit /\ ready /\ UnderWay = {i}
  BY <1>0, <1>1, AnswerUnderWay DEF UserInv, OneInv, Alone, AtMostOne
<1>3. \A j \in Slots : j # i => calls[j] = NoCall
  BY <1>2 DEF UnderWay
<1>4. Fits(mem, calls[i]) /\ calls[i] # NoCall /\ ~mem.fresh
  BY <1>2 DEF AllFit, Fits, UnderWay
<1>n. \A m : Fits(m, NoCall)
  BY DEF Fits, NoCall
<1>5. CASE TokensCome(i)
  <2> DEFINE c == calls[i]
             who == IF c.user # None THEN c.user ELSE c.token
  <2>1. c.at = "auth" /\ who # None /\ (c.user = None => c.token # None)
    BY <1>0, <1>5, CallsType, NoneIsNoUser DEF TokensCome
  <2>2. IF c.user # None THEN mem.refresh = None ELSE c.token = mem.refresh
    BY <1>4, <2>1 DEF Fits
  <2>3. /\ mem'.refresh = who /\ mem'.id = who /\ ~mem'.fresh
        /\ mem'.identity = mem.identity /\ mem'.cred = mem.cred
    BY <1>0, <1>4, <1>5, <2>2 DEF TokensCome, Tokens
  <2>4. {mem.identity, mem.cred} \subseteq {None, who} /\ saved' = saved
    BY <1>2, <1>5, <2>1, <2>2 DEF TokensCome, AllFit, OfOne
  <2>5. OfOne(mem)' /\ OfOne(saved)'
    BY <1>2, <2>1, <2>3, <2>4 DEF AllFit, OfOne
  <2>6. Named(mem)' /\ Named(saved)'
    <3>1. CASE c.user # None
      BY <1>2, <1>5, <2>2, <2>3, <2>4, <3>1 DEF TokensCome, AllFit, Named
    <3>2. CASE c.user = None
      <4>1. name' = name /\ hist'.renamed = hist.renamed
        BY <1>0, <1>5, <3>2 DEF TokensCome, History
      <4> QED
        BY <1>2, <2>2, <2>3, <2>4, <3>2, <4>1 DEF AllFit, Named
    <3> QED
      BY <3>1, <3>2
  <2>7. \A j \in Slots : Fits(mem', calls'[j])
    <3>1. Fits(mem', [at |-> "id", token |-> who])
      BY <2>3 DEF Fits
    <3>2. calls' = [calls EXCEPT ![i] = [at |-> "id", token |-> who]]
      BY <1>5 DEF TokensCome
    <3> QED
      BY <1>0, <1>3, <1>n, <3>1, <3>2
  <2> QED
    BY <2>1, <2>3, <2>5, <2>6, <2>7 DEF AllFit
<1>6. CASE IdentityComes(i)
  <2>1. calls[i].token \in Users /\ calls[i].token = mem.refresh
    BY <1>0, <1>4, <1>6, CallsType DEF IdentityComes, Fits
  <2>2. mem' = [mem EXCEPT !.identity = mem.refresh]
    BY <1>6, <2>1 DEF IdentityComes
  <2>3. OfOne(mem)' /\ OfOne(saved)'
    BY <1>0, <1>2, <1>4, <1>6, <2>2 DEF IdentityComes, AllFit, OfOne, stored, Tokens
  <2>7. Named(mem)' /\ Named(saved)'
    BY <1>0, <1>2, <1>6, <2>2 DEF IdentityComes, AllFit, Named, stored, Tokens
  <2> DEFINE d == [at |-> "cred", identity |-> calls[i].token, token |-> mem.id]
  <2>4. Fits(mem', d)
    BY <1>0, <1>4, <2>1, <2>2 DEF Fits, Tokens
  <2>5. \A j \in Slots : Fits(mem', calls'[j])
    BY <1>0, <1>3, <1>6, <1>n, <2>4 DEF IdentityComes
  <2>6. mem'.refresh # None
    BY <1>0, <2>1, <2>2, NoneIsNoUser DEF Tokens
  <2> QED
    BY <2>3, <2>5, <2>6, <2>7 DEF AllFit
<1>7. CASE ~TokensCome(i) /\ ~IdentityComes(i)
  <2>1. calls' = [calls EXCEPT ![i] = NoCall]
    BY <1>7 DEF Answer, TokensRefused, TokensFail, CredentialsCome, CredentialsFail, Ends
  <2>2. \A j \in Slots : calls'[j] = NoCall
    BY <1>0, <1>3, <2>1
  <2>3. CASE CredentialsCome(i)
    <3>1. calls[i].identity \in Users /\ calls[i].identity = mem.refresh /\ mem.identity = mem.refresh
      BY <1>0, <1>4, <2>3, CallsType DEF CredentialsCome, Fits
    <3>2. mem' = [mem EXCEPT !.cred = mem.refresh, !.fresh = TRUE] /\ saved' = mem'
      BY <2>3, <3>1 DEF CredentialsCome
    <3>3. mem'.refresh # None /\ OfOne(mem)'
      BY <1>0, <1>2, <2>3, <3>1, <3>2, NoneIsNoUser DEF CredentialsCome, AllFit, OfOne, Tokens
    <3>4. OfOne(saved)'
      BY <3>2, <3>3 DEF OfOne
    <3>5. mem'.refresh = mem.refresh /\ UNCHANGED <<name, hist>>
      BY <1>0, <2>3, <3>2 DEF CredentialsCome, Tokens
    <3>6. Named(mem)' /\ Named(saved)'
      BY <1>2, <3>2, <3>5 DEF AllFit, Named
    <3> QED
      BY <1>n, <2>2, <3>2, <3>3, <3>4, <3>6 DEF AllFit
  <2>4. CASE TokensRefused(i) \/ CredentialsFail(i)
    <3>1. mem' = Nothing /\ saved' = Nothing
      BY <2>4 DEF TokensRefused, CredentialsFail, Wipe, Wiped
    <3>2. OfOne(mem)' /\ OfOne(saved)' /\ Named(mem)' /\ Named(saved)'
      BY <3>1 DEF OfOne, Named, Nothing
    <3> QED
      BY <1>n, <2>2, <3>1, <3>2 DEF AllFit
  <2>5. CASE TokensFail(i)
    BY <1>2, <1>n, <2>2, <2>5 DEF TokensFail, AllFit, OfOne, Named, stored
  <2> QED
    BY <1>7, <2>3, <2>4, <2>5 DEF Answer
<1> QED
  BY <1>5, <1>6, <1>7

(* Everything else, when nothing overlaps and nothing is cut.              *)
LEMMA AroundFits ==
  ASSUME UserInv, ~hist'.overlap, ~hist'.cut,
         \/ LoginChecker \/ InitDone \/ (\E u \in Users : Press(u))
         \/ RestError \/ SignOut \/ RevokeAnswered \/ SignInTold \/ LeaveWelcome
         \/ Logout \/ OpenLocal \/ (\E w \in Fields : SaveLocal(w))
         \/ Expire \/ Crash
  PROVE  AllFit'
<1>0. /\ TypeOK /\ hist \in History /\ calls \in [Slots -> Calls]
      /\ mem \in Tokens /\ saved \in Tokens
  BY DEF UserInv, OneInv, TypeOK
<1>h. /\ hist.overlap => hist'.overlap
      /\ hist.cut => hist'.cut
      /\ hist.renamed => hist'.renamed
      /\ name' # name => hist'.renamed
  BY <1>0, PressHistory, AroundHistory
<1>1. AllFit
  BY <1>h DEF UserInv
<1>k. /\ mem.refresh \in {None, name'} \/ hist'.renamed
      /\ saved.refresh \in {None, name'} \/ hist'.renamed
  BY <1>1, <1>h, NamedKept DEF AllFit
<1>n. OfOne(Nothing)' /\ Nothing.refresh = None
  BY DEF OfOne, Nothing
<1>2. CASE LoginChecker
  <2>1. UnderWay = {}
    BY <1>h, <1>2 DEF LoginChecker, Checks, UserInv, OneInv, Alone
  <2>2. \A i \in Slots : Fits(mem, calls'[i])
    BY <1>0, <1>1, <1>2, <2>1, AutoSignInFits DEF LoginChecker, AllFit, Nobody
  <2> QED
    BY <1>1, <1>2, <1>k, <2>2 DEF LoginChecker, AllFit, OfOne, Named
<1>3. CASE InitDone
  <2>1. UnderWay = {}
    BY <1>3 DEF InitDone, UserInv, OneInv
  <2>2. \A i \in Slots : Fits(saved, calls'[i])
    BY <1>0, <1>1, <1>3, <2>1, AutoSignInFits DEF InitDone, AllFit, Nobody
  <2> QED
    BY <1>1, <1>3, <1>k, <2>2 DEF InitDone, AllFit, OfOne, Named
<1>4. ASSUME NEW u \in Users, Press(u) PROVE AllFit'
  <2>1. Starts(mem, u) => UnderWay = {}
    BY <1>0, <1>4, PressHistory
  <2>2. \A i \in Slots : Fits(mem, calls'[i])
    <3>1. CASE Starts(mem, u)
      BY <1>0, <1>1, <1>4, <2>1, <3>1, AutoSignInFits DEF Press, AllFit, Nobody
    <3>2. CASE ~Starts(mem, u)
      <4>1. calls' = calls
        BY <1>4, <3>2, AutoSignInIdle DEF Press
      <4> QED
        BY <1>1, <4>1 DEF AllFit
    <3> QED
      BY <3>1, <3>2
  <2> QED
    BY <1>1, <1>4, <1>k, <2>2 DEF Press, AllFit, OfOne, Named
<1>5. CASE RestError \/ SignOut
  <2>1. UnderWay = {} /\ mem' = Nothing /\ saved' = Nothing /\ calls' = calls
    BY <1>0, <1>5 DEF RestError, SignOut, Wipe, Wiped, History
  <2> QED
    BY <1>n, <2>1, NoneFits DEF AllFit, OfOne, Named
<1>6. CASE Expire
  <2>1. /\ mem' = [mem EXCEPT !.fresh = FALSE]
        /\ saved' = [saved EXCEPT !.fresh = FALSE]
        /\ UNCHANGED <<ready, calls>>
    BY <1>6 DEF Expire
  <2>2. OfOne(mem)' /\ OfOne(saved)' /\ Named(mem)' /\ Named(saved)'
    BY <1>0, <1>1, <1>k, <2>1 DEF AllFit, OfOne, Named, Tokens
  <2>3. \A i \in Slots : Fits(mem', calls'[i])
    BY <1>0, <1>1, <2>1 DEF AllFit, Fits, Tokens
  <2> QED
    BY <1>0, <1>1, <2>1, <2>2, <2>3 DEF AllFit, Tokens
<1>7. CASE Crash
  <2>1. \A i \in Slots : Fits(mem', calls'[i])
    BY <1>7 DEF Crash, Fits, NoCall
  <2> QED
    BY <1>1, <1>7, <1>n, <1>k, <2>1 DEF Crash, AllFit, OfOne, Named, stored
<1>8. CASE \/ RevokeAnswered \/ SignInTold \/ LeaveWelcome \/ Logout \/ OpenLocal
           \/ \E w \in Fields : SaveLocal(w)
  <2>1. UNCHANGED <<ready, mem, saved, calls>>
    BY <1>8 DEF RevokeAnswered, SignInTold, LeaveWelcome, Logout, OpenLocal, SaveLocal, stored
  <2> QED
    BY <1>1, <1>k, <2>1 DEF AllFit, OfOne, Named
<1> QED
  BY <1>2, <1>3, <1>4, <1>5, <1>6, <1>7, <1>8

LEMMA UserStep ==
  ASSUME UserInv, [Next]_vars
  PROVE  UserInv'
<1>1. OneInv'
  BY OneStep DEF UserInv
<1>2. CASE UNCHANGED vars
  BY <1>1, <1>2 DEF vars, UserInv, AllFit, OfOne, Named, Fits
<1>3. CASE Next
  BY <1>1, <1>3, AnswerFits, AroundFits DEF Next, UserInv
<1> QED
  BY <1>2, <1>3

LEMMA InitUser == Init => UserInv
<1> SUFFICES ASSUME Init PROVE AllFit
  BY InitOne DEF UserInv
<1>1. OfOne(mem) /\ OfOne(saved) /\ Named(mem) /\ Named(saved)
  BY DEF Init, OfOne, Named, Nothing
<1> QED
  BY <1>1 DEF Init, AllFit, Fits, NoCall

LEMMA OfOneIsOne ==
  ASSUME NEW t \in Tokens, OfOne(t), Named(t)
  PROVE  /\ Cardinality(Whose(t)) <= 1
         /\ Valid(t) => t.identity = t.cred /\ (t.cred = name \/ hist.renamed)
<1>1. Whose(t) \subseteq {t.refresh}
  BY DEF OfOne, Whose
<1>2. Whose(t) = {} \/ Whose(t) = {t.refresh}
  BY <1>1
<1>3. Cardinality({}) = 0 /\ Cardinality({t.refresh}) = 1
  BY FS_EmptySet, FS_Singleton
<1>4. Cardinality(Whose(t)) <= 1
  BY <1>2, <1>3
<1> QED
  BY <1>4 DEF OfOne, Named, Valid

(***************************************************************************)
(* What is kept is of one user.  Valid credentials are of the user who is  *)
(* named, unless a page has saved another name since the password was      *)
(* accepted: the login page does, with what is typed in it, when a sign-in *)
(* succeeds that its button did not start (AwsLoginPage.qml, saveAccount). *)
(* Sign-ins that overlapped or were cut are excused (awsAccount.cpp,       *)
(* signIn and getAwsCredentials).                                          *)
(***************************************************************************)
THEOREM TokensOfOneUser == Spec => []OneUser
<1>1. UserInv => OneUser
  BY OfOneIsOne DEF UserInv, OneInv, TypeOK, AllFit, OneUser
<1> QED
  BY <1>1, InitUser, UserStep, PTL DEF Spec

-----------------------------------------------------------------------------
(* A sign-in that runs. *)

(***************************************************************************)
(* While m_login_status is running a request is under way: no callback     *)
(* leaves the status that stops every later check with nothing to end it   *)
(* (awsAccount.cpp, signIn and getAwsCredentials).  SignInEnds rests on it.*)
(***************************************************************************)
RunningHasCall == status = "running" => UnderWay # {}

LEMMA RunningStep ==
  ASSUME TypeOK, RunningHasCall, [Next]_vars
  PROVE  RunningHasCall'
<1>0. calls \in [Slots -> Calls]
  BY DEF TypeOK, TypeOK
<1>1. CASE UNCHANGED vars
  BY <1>1 DEF vars, RunningHasCall, UnderWay
<1>2. ASSUME NEW t, NEW u, NEW typed, NEW h, AutoSignIn(t, u, typed, h)
      PROVE  RunningHasCall'
  <2>1. CASE Starts(t, u)
    <3>1. PICK i \in Slots : calls' = [calls EXCEPT ![i] = Auth(t, u)]
      BY <1>2, <2>1 DEF AutoSignIn, Starts
    <3>2. Auth(t, u) # NoCall
      BY DEF Auth, NoCall
    <3> QED
      BY <1>0, <3>1, <3>2 DEF RunningHasCall, UnderWay
  <2>2. CASE ~Starts(t, u)
    BY <1>2, <2>2, AutoSignInIdle DEF RunningHasCall, UnderWay
  <2> QED
    BY <2>1, <2>2
<1>3. CASE LoginChecker \/ InitDone \/ \E u \in Users : Press(u)
  BY <1>2, <1>3 DEF LoginChecker, InitDone, Press
<1>4. ASSUME NEW i \in Slots, Answer(i) PROVE RunningHasCall'
  <2>1. CASE TokensCome(i) \/ IdentityComes(i)
    <3>1. PICK c : c # NoCall /\ calls' = [calls EXCEPT ![i] = c]
      BY <2>1 DEF TokensCome, IdentityComes, NoCall
    <3> QED
      BY <1>0, <3>1 DEF RunningHasCall, UnderWay
  <2>2. CASE TokensRefused(i) \/ TokensFail(i) \/ CredentialsCome(i) \/ CredentialsFail(i)
    BY <2>2 DEF TokensRefused, TokensFail, CredentialsCome, CredentialsFail, Failed,
       RunningHasCall
  <2> QED
    BY <1>4, <2>1, <2>2 DEF Answer
<1>5. CASE \/ RestError \/ SignOut \/ RevokeAnswered \/ SignInTold \/ LeaveWelcome
           \/ Logout \/ OpenLocal \/ (\E w \in Fields : SaveLocal(w)) \/ Expire
  <2>1. UNCHANGED <<status, calls>>
    BY <1>5 DEF RestError, SignOut, RevokeAnswered, SignInTold, LeaveWelcome, Logout,
       OpenLocal, SaveLocal, Expire
  <2> QED
    BY <2>1 DEF RunningHasCall, UnderWay
<1>6. CASE Crash
  BY <1>6 DEF Crash, RunningHasCall
<1> QED
  BY <1>1, <1>3, <1>4, <1>5, <1>6 DEF Next

(***************************************************************************)
(* No sign-in is stuck: the status is running only while a request is      *)
(* under way, also when sign-ins overlap or are cut by signing out or an   *)
(* error of the REST service (awsAccount.cpp, loginChecker).               *)
(***************************************************************************)
THEOREM NoSignInIsStuck == Spec => []RunningHasCall
<1>1. Init => RunningHasCall
  BY DEF Init, RunningHasCall
<1> QED
  BY <1>1, RunningStep, InitType, NextType, PTL DEF Spec
=============================================================================
