---------------------------- MODULE AccountLogin ----------------------------
(***************************************************************************)
(* The account.  A sign-in is three requests in a row: the tokens, the     *)
(* identity and the credentials of the identity; the callback of each      *)
(* writes members and sends the next.  A check every 15 s starts one when  *)
(* the credentials have expired, the button of the login page starts one   *)
(* whatever is under way, and signing out or an error of the REST service  *)
(* clears the members without stopping anything.  The login page, while it *)
(* is open, answers every successful sign-in by saving what is typed in it.*)
(***************************************************************************)
EXTENDS Naturals, FiniteSets

CONSTANTS
  Users,
  None,   \* no user: an empty string
  Fields, \* what may be typed in a page
  Slots,  \* bounds the sign-ins under way
  MaxActs \* bound on what the user does, REST errors and crashes

ASSUME NoneIsNoUser == None \notin Users
ASSUME FieldsType == Fields \subseteq [user : Users \cup {None}, pass : BOOLEAN]
ASSUME ActsNatural == MaxActs \in Nat

VARIABLES
  ready,  \* m_init_ready
  status, \* m_login_status, its three errors taken as one
  mem,    \* the tokens and credentials in memory
  saved,  \* the same, as saveTokensToStorage() left them
  name,   \* USER_NAME
  pass,   \* USER_PASSWD is not empty: it is the password of name
  calls,  \* sign-ins under way
  page,   \* the page that is open, see Pages
  told,   \* signInSuccess, emitted by a callback, waits for the login page
  revokes, \* revocations of a refresh token not answered yet
  acts,   \* acts left
  hist    \* history, see History

stored == <<saved, name, pass>>
screen == <<page, told>>
vars == <<ready, status, mem, saved, name, pass, calls, page, told, revokes,
          acts, hist>>

Nobody == Users \cup {None}

(***************************************************************************)
(* Whose each thing is: the refresh token, the access and id token, the    *)
(* identity and the credentials, which are fresh until five minutes before *)
(* they expire.                                                            *)
(***************************************************************************)
Tokens == [refresh : Nobody, id : Nobody, identity : Nobody, cred : Nobody,
           fresh : BOOLEAN]

Nothing == [refresh |-> None, id |-> None, identity |-> None, cred |-> None,
            fresh |-> FALSE]

NoCall == [at |-> "none"]

(***************************************************************************)
(* A sign-in waits for its tokens, asked for with the password of user or  *)
(* (user is None) with a refresh token; for the identity of a token; or    *)
(* for the credentials of an identity, asked for with a token.             *)
(***************************************************************************)
Calls ==
  {NoCall}
    \cup [at : {"auth"}, user : Users, token : {None}]
    \cup [at : {"auth"}, user : {None}, token : Users]
    \cup [at : {"id"}, token : Users]
    \cup [at : {"cred"}, identity : Users, token : Nobody]

(***************************************************************************)
(* The pages that matter: login is AwsLoginPage; local is LoginPage, for   *)
(* the account of a NAS; home stands for DevicesPage, ConnectDevicePage    *)
(* and the pages behind them.                                              *)
(***************************************************************************)
Pages == {"welcome", "login", "local", "home"}

(***************************************************************************)
(* overlap: the button started a sign-in while one was under way; cut: the *)
(* members were cleared under a sign-in, other than by its own end; out:   *)
(* the user has signed out, and pressed no button and saved no account     *)
(* since; late: a sign-in was under way then; gone: the password was taken *)
(* back by the user or refused since it was saved; swept: it was lost with *)
(* the refusal of something else, or to an empty field that a page saved;  *)
(* renamed: a page saved another name since the last sign-in by password.  *)
(***************************************************************************)
History == [overlap : BOOLEAN, cut : BOOLEAN, out : BOOLEAN, late : BOOLEAN,
            gone : BOOLEAN, swept : BOOLEAN, renamed : BOOLEAN]

TypeOK ==
  /\ ready \in BOOLEAN
  /\ status \in {"uninit", "running", "success", "error"}
  /\ mem \in Tokens
  /\ saved \in Tokens
  /\ name \in Nobody
  /\ pass \in BOOLEAN
  /\ calls \in [Slots -> Calls]
  /\ page \in Pages
  /\ told \in BOOLEAN
  /\ acts \in 0..MaxActs
  /\ revokes \in 0..(MaxActs - acts)
  /\ hist \in History

Init ==
  /\ ready = FALSE
  /\ status = "uninit"
  /\ mem = Nothing
  /\ saved = Nothing
  /\ name = None
  /\ pass = FALSE
  /\ calls = [i \in Slots |-> NoCall]
  /\ page = "welcome"
  /\ told = FALSE
  /\ revokes = 0
  /\ acts = MaxActs
  /\ hist = [overlap |-> FALSE, cut |-> FALSE, out |-> FALSE, late |-> FALSE,
             gone |-> FALSE, swept |-> FALSE, renamed |-> FALSE]

-----------------------------------------------------------------------------
(* What the pages do of themselves *)

\* The history after a page has saved the fields w.
Written(h, w) ==
  [h EXCEPT !.renamed = @ \/ w.user # name,
            !.swept = w.user = None \/ ~w.pass, !.gone = FALSE]

(***************************************************************************)
(* signInSuccess, with history h so far: the login page saves what is      *)
(* typed by then, one of typed, and gives way to the list of devices.      *)
(* What still waits for it goes with it.                                   *)
(***************************************************************************)
SignedIn(typed, h) ==
  /\ told' = FALSE
  /\ \/ /\ page = "login"
        /\ page' = "home"
        /\ \E w \in typed : name' = w.user /\ pass' = w.pass /\ hist' = Written(h, w)
     \/ /\ page # "login"
        /\ hist' = h
        /\ UNCHANGED <<name, pass, page>>

\* signOutSuccess: two of the pages called home give way to the login page.
SignedOut ==
  page' \in IF page = "home" THEN {"home", "login"} ELSE {page}

-----------------------------------------------------------------------------
(* Starting a sign-in *)

UnderWay == {i \in Slots : calls[i] # NoCall}

\* hasValidCredentials()
Valid(t) == t.cred # None /\ t.fresh

\* hasRefreshToken()
Refreshable(t) == t.refresh # None /\ ~t.fresh

\* Mutant of Starts: a password without a user will do.
StartsUnnamed(t, u) == ~Valid(t) /\ (Refreshable(t) \/ u # None \/ pass)

\* autoSignIn() gets to signIn(), with tokens t and a typed user u or None.
Starts(t, u) ==
  ~Valid(t) /\ (Refreshable(t) \/ u # None \/ (name # None /\ pass))

\* The request of signIn(): a refresh token goes before what was typed.
Auth(t, u) ==
  IF Refreshable(t) THEN [at |-> "auth", user |-> None, token |-> t.refresh]
  ELSE [at |-> "auth", user |-> IF u # None THEN u ELSE name, token |-> None]

(***************************************************************************)
(* autoSignIn() with tokens t and the user u of the button or None, while  *)
(* the login page, if it is open, has one of typed in its fields.          *)
(***************************************************************************)
AutoSignIn(t, u, typed, h) ==
  \/ /\ Starts(t, u)
     /\ status' = "running"
     /\ \E i \in Slots \ UnderWay : calls' = [calls EXCEPT ![i] = Auth(t, u)]
     /\ hist' = h
     /\ UNCHANGED <<name, pass, screen>>
  \/ /\ Valid(t)
     /\ SignedIn(typed, h)
     /\ UNCHANGED <<status, calls>>
  \/ /\ ~Valid(t) /\ ~Starts(t, u)
     /\ SignedOut
     /\ hist' = h
     /\ UNCHANGED <<status, calls, name, pass, told>>

\* Mutant of Checks: the check does not ask whether one is running.
ChecksAlways == TRUE

\* The guard of loginChecker()
Checks == status # "running"

LoginChecker ==
  /\ ready
  /\ Checks
  /\ AutoSignIn(mem, None, Fields, hist)
  /\ UNCHANGED <<ready, mem, saved, revokes, acts>>

\* The clients are ready: loadTokensFromStorage(), then the first check.
InitDone ==
  /\ ~ready
  /\ ready' = TRUE
  /\ mem' = saved
  /\ AutoSignIn(saved, None, Fields, hist)
  /\ UNCHANGED <<saved, revokes, acts>>

(***************************************************************************)
(* The button of the login page, with user and password typed.  Before the *)
(* clients are ready it ends the program: see Crash.                       *)
(***************************************************************************)
Press(u) ==
  /\ ready
  /\ page = "login"
  /\ acts > 0
  /\ acts' = acts - 1
  /\ AutoSignIn(mem, u, {[user |-> u, pass |-> TRUE]},
       [hist EXCEPT !.overlap = @ \/ (Starts(mem, u) /\ UnderWay # {}),
                    !.out = FALSE, !.late = FALSE])
  /\ UNCHANGED <<ready, mem, saved, revokes>>

-----------------------------------------------------------------------------
(* Its answers *)

Ends(i) == calls' = [calls EXCEPT ![i] = NoCall]

\* Mutant of Wiped: the identity stays.
WipedButIdentity(t) == [Nothing EXCEPT !.identity = t.identity]

\* The members after loadTokensFromStorage(true)
Wiped(t) == Nothing

\* loadTokensFromStorage(true, ...): memory and storage
Wipe == mem' = Wiped(mem) /\ saved' = Wiped(mem)

\* Mutant of PassKept: clearCurrLogin() takes the password as signing out does.
PassDropped(p) == FALSE

\* The password after clearCurrLogin()
PassKept(p) == p

TokensCome(i) ==
  LET c == calls[i]
      typed == c.user # None
      who == IF typed THEN c.user ELSE c.token
  IN /\ c.at = "auth"
     /\ name' = IF typed THEN c.user ELSE name
     /\ pass' = (pass \/ typed)
     /\ mem' = [mem EXCEPT !.refresh = IF typed THEN c.user ELSE @, !.id = who]
     /\ calls' = [calls EXCEPT ![i] = [at |-> "id", token |-> who]]
     /\ hist' = [hist EXCEPT !.gone = @ /\ ~typed, !.swept = @ /\ ~typed,
                             !.renamed = @ /\ ~typed]
     /\ UNCHANGED <<ready, status, saved, screen, revokes, acts>>

(***************************************************************************)
(* No such user, not confirmed, or not authorized.  The saved password     *)
(* goes with the tokens, whichever password or refresh token was refused.  *)
(***************************************************************************)
TokensRefused(i) ==
  LET refused == calls[i].user = name
  IN /\ calls[i].at = "auth"
     /\ status' = "error"
     /\ Wipe
     /\ pass' = FALSE
     /\ Ends(i)
     /\ hist' = [hist EXCEPT !.gone = @ \/ refused, !.swept = @ \/ ~refused,
                             !.cut = @ \/ UnderWay # {i}]
     /\ UNCHANGED <<ready, name, screen, revokes, acts>>

TokensFail(i) ==
  /\ calls[i].at = "auth"
  /\ status' = "error"
  /\ Ends(i)
  /\ UNCHANGED <<ready, mem, stored, screen, revokes, acts, hist>>

IdentityComes(i) ==
  /\ calls[i].at = "id"
  /\ mem' = [mem EXCEPT !.identity = calls[i].token]
  /\ calls' = [calls EXCEPT ![i] =
       [at |-> "cred", identity |-> calls[i].token, token |-> mem.id]]
  /\ UNCHANGED <<ready, status, stored, screen, revokes, acts, hist>>

\* The service gives the credentials of an identity to a token of its user.
CredentialsCome(i) ==
  /\ calls[i].at = "cred"
  /\ calls[i].token = calls[i].identity
  /\ status' = "success"
  /\ mem' = [mem EXCEPT !.cred = calls[i].identity, !.fresh = TRUE]
  /\ saved' = mem'
  /\ Ends(i)
  /\ told' = (page = "login")
  /\ UNCHANGED <<ready, name, pass, page, revokes, acts, hist>>

\* Mutant of Failed: the status stays as it is.
FailedQuietly(s) == s

\* The status that the callbacks of getAwsCredentials() leave behind.
Failed(s) == "error"

\* The identity or the credentials do not come: clearCurrLogin().
CredentialsFail(i) ==
  /\ calls[i].at \in {"id", "cred"}
  /\ status' = Failed(status)
  /\ Wipe
  /\ pass' = PassKept(pass)
  /\ Ends(i)
  /\ hist' = [hist EXCEPT !.cut = @ \/ UnderWay # {i}]
  /\ UNCHANGED <<ready, name, screen, revokes, acts>>

-----------------------------------------------------------------------------
(* Around it *)

\* AwsDbService::onError(), which calls clearCurrLogin().
RestError ==
  /\ acts > 0
  /\ acts' = acts - 1
  /\ status # "success"
  /\ Wipe
  /\ pass' = PassKept(pass)
  /\ hist' = [hist EXCEPT !.cut = @ \/ UnderWay # {}]
  /\ UNCHANGED <<ready, status, name, calls, screen, revokes>>

\* Mutant of PassAfterSignOut: the password stays.
PassStays(p) == p

PassAfterSignOut(p) == FALSE

\* signOut(), from a page that home stands for
SignOut ==
  /\ ready
  /\ page = "home"
  /\ acts > 0
  /\ acts' = acts - 1
  /\ Wipe
  /\ pass' = PassAfterSignOut(pass)
  /\ revokes' = revokes + 1
  /\ hist' = [hist EXCEPT !.cut = @ \/ UnderWay # {}, !.out = TRUE,
                          !.late = UnderWay # {}, !.gone = TRUE]
  /\ UNCHANGED <<ready, status, name, calls, screen>>

\* The answer to the revocation changes the page, if it is a good one.
RevokeAnswered ==
  /\ revokes > 0
  /\ revokes' = revokes - 1
  /\ SignedOut \/ UNCHANGED page
  /\ UNCHANGED <<ready, status, mem, stored, calls, told, acts, hist>>

\* The login page gets a signInSuccess that a callback has posted.
SignInTold ==
  /\ told
  /\ SignedIn(Fields, hist)
  /\ UNCHANGED <<ready, status, mem, saved, calls, revokes, acts>>

LeaveWelcome ==
  /\ page = "welcome"
  /\ page' = "login"
  /\ UNCHANGED <<ready, status, mem, stored, calls, told, revokes, acts, hist>>

\* "Logout" of the settings
Logout ==
  /\ page = "home"
  /\ acts > 0
  /\ acts' = acts - 1
  /\ pass' = FALSE
  /\ hist' = [hist EXCEPT !.gone = TRUE]
  /\ UNCHANGED <<ready, status, mem, saved, name, calls, screen, revokes>>

\* A NAS is opened without a password: the page for its account.
OpenLocal ==
  /\ page = "home"
  /\ ~pass
  /\ page' = "local"
  /\ UNCHANGED <<ready, status, mem, stored, calls, told, revokes, acts, hist>>

(***************************************************************************)
(* The account for the NAS is saved under the same names: in newLogin(),   *)
(* which opens the list of devices, or for a dialog about the password.    *)
(***************************************************************************)
SaveLocal(w) ==
  /\ page = "local"
  /\ acts > 0
  /\ acts' = acts - 1
  /\ page' \in {"local", "home"}
  /\ name' = w.user
  /\ pass' = w.pass
  /\ hist' = [Written(hist, w) EXCEPT !.out = FALSE, !.late = FALSE]
  /\ UNCHANGED <<ready, status, mem, saved, calls, told, revokes>>

\* The credentials, wherever they are kept, get old.
Expire ==
  /\ mem.fresh \/ saved.fresh
  /\ mem' = [mem EXCEPT !.fresh = FALSE]
  /\ saved' = [saved EXCEPT !.fresh = FALSE]
  /\ UNCHANGED <<ready, status, name, pass, calls, screen, revokes, acts, hist>>

\* The program ends, and starts again with the page for who is signed in.
Crash ==
  /\ acts > 0
  /\ acts' = acts - 1
  /\ ready' = FALSE
  /\ status' = "uninit"
  /\ mem' = Nothing
  /\ calls' = [i \in Slots |-> NoCall]
  /\ page' = IF pass THEN "home" ELSE "welcome"
  /\ told' = FALSE
  /\ revokes' = 0
  /\ UNCHANGED <<stored, hist>>

-----------------------------------------------------------------------------
Answer(i) ==
  \/ TokensCome(i)
  \/ TokensRefused(i)
  \/ TokensFail(i)
  \/ IdentityComes(i)
  \/ CredentialsCome(i)
  \/ CredentialsFail(i)

Next ==
  \/ LoginChecker
  \/ InitDone
  \/ \E u \in Users : Press(u)
  \/ \E i \in Slots : Answer(i)
  \/ RestError
  \/ SignOut
  \/ RevokeAnswered
  \/ SignInTold
  \/ LeaveWelcome
  \/ Logout
  \/ OpenLocal
  \/ \E w \in Fields : SaveLocal(w)
  \/ Expire
  \/ Crash

Spec == Init /\ [][Next]_vars

(***************************************************************************)
(* The clients get ready, the check comes round, requests end, and of the  *)
(* requests of each stage not all are in vain.                             *)
(***************************************************************************)
FairSpec ==
  /\ Spec
  /\ WF_vars(InitDone)
  /\ WF_vars(LoginChecker)
  /\ \A i \in Slots : WF_vars(Answer(i))
  /\ SF_vars(\E i \in Slots : TokensCome(i))
  /\ SF_vars(\E i \in Slots : IdentityComes(i))
  /\ SF_vars(\E i \in Slots : CredentialsCome(i))

-----------------------------------------------------------------------------
(* What the account promises *)

(***************************************************************************)
(* One sign-in is under way at a time, unless the button started another   *)
(* (awsAccount.cpp, loginChecker).                                         *)
(***************************************************************************)
OneSignIn == Cardinality(UnderWay) <= 1 \/ hist.overlap

Whose(t) == {t.refresh, t.id, t.identity, t.cred} \ {None}

(***************************************************************************)
(* Tokens, identity and credentials are of one user, in memory and saved,  *)
(* and valid ones have an identity.  They are of the user whose name is    *)
(* kept, unless a page has saved another name since the password was       *)
(* accepted.  Sign-ins that overlapped or were cut are excused             *)
(* (awsAccount.cpp, signIn and getAwsCredentials).                         *)
(***************************************************************************)
OneUser ==
  \/ hist.overlap \/ hist.cut
  \/ \A t \in {mem, saved} :
       /\ Cardinality(Whose(t)) <= 1
       /\ Valid(t) => t.identity = t.cred /\ (t.cred = name \/ hist.renamed)

(***************************************************************************)
(* Who has signed out stays out, over restarts too, unless a sign-in was   *)
(* under way (awsAccount.cpp, signOut and loginChecker).                   *)
(***************************************************************************)
StaysOut ==
  hist.out /\ ~hist.late =>
    mem = Nothing /\ saved = Nothing /\ ~pass /\ UnderWay = {}

(***************************************************************************)
(* A sign-in that runs comes to an end, so that the check goes on          *)
(* (awsAccount.cpp, signIn and getAwsCredentials).                         *)
(***************************************************************************)
SignInEnds == status = "running" ~> status # "running"

(***************************************************************************)
(* A saved password brings valid credentials in the end: requests without  *)
(* an answer, REST errors and crashes do not make the user type it again.  *)
(* The user may take it back and the service may refuse it; it may also be *)
(* swept away, with a refresh token that is refused or by a page with an   *)
(* empty field; and sign-ins that overlap may clear each other's tokens    *)
(* for ever (awsAccount.cpp, clearCurrLogin and autoSignIn).               *)
(***************************************************************************)
SignedInAgain ==
  name # None /\ pass
    ~> Valid(mem) \/ hist.gone \/ hist.swept \/ hist.overlap
=============================================================================
