--------------------------- MODULE LanSearchProofs ---------------------------
(***************************************************************************)
(* Proofs about LanSearch: its types, that a search that overlaps no other *)
(* keeps its server open for a second, and that the search page is never   *)
(* busy with nothing to end it, for any devices, delays and faults.        *)
(***************************************************************************)
EXTENDS LanSearch, TLAPS

-----------------------------------------------------------------------------
(***************************************************************************)
(* Types.  That a counter does not pass 2 needs to know that a timer that  *)
(* runs is that of an open page and has been triggered once at most.       *)
(***************************************************************************)
TimerInv ==
  \A p \in Pages : /\ page[p].on => page[p].open /\ page[p].count < 2
                   /\ ~page[p].open => page[p].count = 0

TypeInv == TypeOK /\ TimerInv

(* A page whose timer may run.                                             *)
Sound(p) == /\ p \in Page
            /\ p.on => p.open /\ p.count < 2
            /\ ~p.open => p.count = 0

(* The ends of the ranges of the timers.                                   *)
LEMMA Ranges ==
  /\ 0 \in 0..StopDelay /\ StopDelay \in 0..StopDelay
  /\ 0 \in 0..PagePeriod /\ PagePeriod \in 0..PagePeriod
  /\ \A n \in 0..PagePeriod : n > 0 => n - 1 \in 0..PagePeriod
  BY Delays

(* A search leaves the members of the server well typed.                   *)
LEMMA StartServerTyped ==
  ASSUME TypeOK, StartServer
  PROVE  /\ listening' \in BOOLEAN
         /\ stops' \in [0..StopDelay -> Nat]
         /\ asked' \subseteq Devices
         /\ age' \in 0..StopDelay
         /\ overlap' \in BOOLEAN
<1>1. DelayStop(stops) \in [0..StopDelay -> Nat]
  BY Ranges DEF TypeOK, DelayStop
<1> QED
  BY Ranges, <1>1 DEF TypeOK, StartServer

(* What is done to the timer of a page keeps it sound.                     *)
LEMMA TimersSound ==
  /\ Sound(NoPage)
  /\ [NoPage EXCEPT !.open = TRUE] \in Page
  /\ Sound(Restarted([NoPage EXCEPT !.open = TRUE]))
  /\ \A p \in Page :
       /\ Sound(p) => Sound(Stopped(p))
       /\ p.open => Sound(Restarted(p))
       /\ Sound(p) /\ ~p.open => Sound(Started([p EXCEPT !.open = TRUE]))
<1>0. \A p \in Page : [p EXCEPT !.open = TRUE] \in Page
  BY DEF Page
<1>1. NoPage \in Page /\ [NoPage EXCEPT !.open = TRUE] \in Page
  <2>1. NoPage \in Page
    BY Ranges DEF NoPage, Page
  <2> QED
    BY <2>1, <1>0
<1>2. Sound(NoPage)
  BY <1>1 DEF NoPage, Sound
<1>3. ASSUME NEW p \in Page, Sound(p) PROVE Sound(Stopped(p))
  <2>1. Stopped(p) \in Page
    BY Ranges DEF Stopped, Page
  <2> QED
    BY <1>3, <2>1 DEF Stopped, Sound, Page
<1>4. ASSUME NEW p \in Page PROVE Started(p) \in Page
  BY Ranges DEF Started, Page
<1>5. ASSUME NEW p \in Page, p.open PROVE Sound(Restarted(p))
  <2>1. [p EXCEPT !.count = 0] \in Page
    BY DEF Page
  <2>2. Restarted(p) \in Page
    BY <1>4, <2>1 DEF Restarted
  <2> QED
    BY <1>5, <2>2 DEF Restarted, Started, Sound, Page
<1>6. ASSUME NEW p \in Page, Sound(p), ~p.open
      PROVE  Sound(Started([p EXCEPT !.open = TRUE]))
  <2>1. [p EXCEPT !.open = TRUE] \in Page
    BY DEF Page
  <2>2. Started([p EXCEPT !.open = TRUE]) \in Page
    BY <1>4, <2>1
  <2> QED
    BY <1>6, <2>2 DEF Started, Sound, Page
<1>7. [NoPage EXCEPT !.open = TRUE].open
  BY DEF NoPage
<1> QED
  BY <1>1, <1>2, <1>3, <1>5, <1>6, <1>7

(* Changing one page of two, or both.                                      *)
LEMMA PagesSound ==
  ASSUME TypeInv
  PROVE  /\ \A p \in Pages : Sound(page[p])
         /\ \A p \in Pages : \A r : Sound(r) =>
              \A f : f = [page EXCEPT ![p] = r] =>
                f \in [Pages -> Page] /\ \A o \in Pages : Sound(f[o])
         /\ \A r, s : Sound(r) /\ Sound(s) =>
              \A f : f = [page EXCEPT !["home"] = r, !["search"] = s] =>
                f \in [Pages -> Page] /\ \A o \in Pages : Sound(f[o])
  BY DEF TypeInv, TypeOK, TimerInv, Sound, Pages

LEMMA InitTyped == Init => TypeInv
<1> SUFFICES ASSUME Init PROVE TypeInv
  OBVIOUS
<1>1. NoPage \in Page /\ ~NoPage.on /\ NoPage.count = 0
  BY Ranges DEF NoPage, Page
<1>2. TimerInv
  BY <1>1 DEF Init, TimerInv
<1>3. row \in [Devices -> {"none", "noip", "ip"}]
  BY DEF Init
<1>4. page \in [Pages -> Page]
  BY <1>1 DEF Init
<1>5. ops \in 0..MaxOps /\ age \in 0..StopDelay
  BY Ranges, OpsBounded DEF Init
<1>6. stops \in [0..StopDelay -> Nat] /\ socks \in [Devices -> Nat]
  BY DEF Init
<1> QED
  BY <1>2, <1>3, <1>4, <1>5, <1>6 DEF Init, TypeInv, TypeOK

(* The types of all but the pages, and the pages.                          *)
LEMMA PageTypes ==
  ASSUME \A p \in Pages : Sound(page'[p]), page' \in [Pages -> Page]
  PROVE  TimerInv'
  BY DEF TimerInv, Sound

(* The two forms of prepareSearch() of the search page.                    *)
LEMMA PrepareTyped ==
  ASSUME TypeInv, NEW p \in Page, Sound(Restarted(p)), User, PrepareSearch(p)
  PROVE  TypeInv'
<1>0. "home" \in Pages /\ "search" \in Pages
  BY DEF Pages
<1>1. Sound(Stopped(page["home"]))
  BY <1>0, PagesSound, TimersSound DEF Sound
<1>2. page' \in [Pages -> Page] /\ \A o \in Pages : Sound(page'[o])
  BY <1>1, PagesSound DEF PrepareSearch
<1>3. ops' \in 0..MaxOps
  BY OpsBounded DEF User, TypeInv, TypeOK
<1>4. row' \in [Devices -> {"none", "noip", "ip"}]
  BY DEF PrepareSearch, ClearIp, TypeInv, TypeOK
<1> QED
  BY <1>2, <1>3, <1>4, StartServerTyped, PageTypes DEF PrepareSearch, TypeInv, TypeOK, dialogs

(* Every action keeps the types.                                           *)
LEMMA NextTyped == TypeInv /\ [Next]_vars => TypeInv'
<1> SUFFICES ASSUME TypeInv, [Next]_vars PROVE TypeInv'
  OBVIOUS
<1> USE Delays, OpsBounded
<1>0. "home" \in Pages /\ "search" \in Pages
  BY DEF Pages
<1>1. CASE OpenHome
  <2>1. Sound(Started([page["home"] EXCEPT !.open = TRUE]))
    BY <1>0, <1>1, PagesSound, TimersSound DEF OpenHome, Sound
  <2>2. page' \in [Pages -> Page] /\ \A o \in Pages : Sound(page'[o])
    BY <1>0, <1>1, <2>1, PagesSound DEF OpenHome
  <2>3. row' \in [Devices -> {"none", "noip", "ip"}]
    BY <1>1 DEF OpenHome, ClearIp, TypeInv, TypeOK
  <2> QED
    BY <1>1, <2>2, <2>3, StartServerTyped, PageTypes DEF OpenHome, TypeInv, TypeOK, dialogs
<1>2. CASE OpenSearch
  <2>1. [NoPage EXCEPT !.open = TRUE] \in Page
    BY TimersSound
  <2> QED
    BY <1>2, <2>1, PrepareTyped, TimersSound DEF OpenSearch
<1>3. CASE SearchAgain
  <2>1. Sound(Restarted(page["search"])) /\ page["search"] \in Page
    BY <1>0, <1>3, PagesSound, TimersSound DEF SearchAgain, Sound
  <2> QED
    BY <1>3, <2>1, PrepareTyped DEF SearchAgain
<1>4. ASSUME NEW d \in Devices, ConnectDevice(d) PROVE TypeInv'
  BY <1>4 DEF ConnectDevice, User, TypeInv, TypeOK, TimerInv, server
<1>5. CASE Leave
  <2>1. page' \in [Pages -> Page] /\ \A o \in Pages : Sound(page'[o])
    BY <1>0, <1>5, PagesSound, TimersSound DEF Leave
  <2>2. TimerInv' /\ ops' \in 0..MaxOps
    BY <1>5, <2>1, PageTypes DEF Leave, User, TypeInv, TypeOK
  <2> QED
    BY <1>5, <2>1, <2>2 DEF Leave, TypeInv, TypeOK, server
<1>6. CASE StopServer
  <2>1. stops' \in [0..StopDelay -> Nat]
    BY <1>6, Ranges DEF StopServer, TypeInv, TypeOK
  <2>2. TimerInv'
    BY <1>6 DEF StopServer, TypeInv, TimerInv
  <2> QED
    BY <1>6, <2>1, <2>2 DEF StopServer, TypeInv, TypeOK, dialogs
<1>7. ASSUME NEW p \in Pages, PageTimer(p) PROVE TypeInv'
  <2> DEFINE n == page[p].count + 1
  <2>0. Sound(page[p]) /\ page[p].on /\ page[p].count \in 0..1 /\ page[p].open
    BY <1>7, PagesSound DEF PageTimer, Sound, Page
  <2>1. CASE n < 2
    <3>1. Sound([page[p] EXCEPT !.count = n, !.left = PagePeriod])
      <4>1. n \in 0..2 /\ PagePeriod \in 0..PagePeriod
        BY <2>0, Ranges
      <4>2. [page[p] EXCEPT !.count = n, !.left = PagePeriod] \in Page
        BY <2>0, <4>1 DEF Sound, Page
      <4> QED
        BY <2>0, <2>1, <4>1, <4>2 DEF Sound, Page
    <3>2. StartServer /\ page' = [page EXCEPT ![p] = [@ EXCEPT !.count = n, !.left = PagePeriod]]
      BY <1>7, <2>1 DEF PageTimer, TypeInv, TypeOK
    <3>3. page' \in [Pages -> Page] /\ \A o \in Pages : Sound(page'[o])
      BY <3>1, <3>2, PagesSound
    <3> QED
      BY <1>7, <2>1, <3>2, <3>3, StartServerTyped, PageTypes
      DEF PageTimer, TypeInv, TypeOK, dialogs
  <2>2. CASE ~(n < 2)
    <3>1. Sound(Stopped([page[p] EXCEPT !.count = n]))
      <4>1. [page[p] EXCEPT !.count = n] \in Page /\ n \in 0..2
        BY <2>0 DEF Sound, Page
      <4>2. Stopped([page[p] EXCEPT !.count = n]) \in Page
        BY <4>1, Ranges DEF Stopped, Page
      <4> QED
        BY <2>0, <4>1, <4>2 DEF Sound, Page, Stopped
    <3>2. page' \in [Pages -> Page] /\ \A o \in Pages : Sound(page'[o])
      BY <1>7, <2>2, <3>1, PagesSound DEF PageTimer
    <3> QED
      BY <1>7, <2>2, <3>2, PageTypes DEF PageTimer, Ends, TypeInv, TypeOK, dialogs, server
  <2> QED
    BY <2>1, <2>2
<1>8. ASSUME NEW d \in Devices, CallBack(d) PROVE TypeInv'
  BY <1>8 DEF CallBack, TypeInv, TypeOK, TimerInv, dialogs
<1>9. ASSUME NEW d \in Devices, ReadClient(d) PROVE TypeInv'
  <2>1. Sound(Stopped(page["home"])) /\ Sound(Stopped(page["search"]))
    BY <1>0, PagesSound, TimersSound DEF Sound
  <2>2. page' \in [Pages -> Page] /\ \A o \in Pages : Sound(page'[o])
    BY <1>0, <1>9, <2>1, PagesSound DEF ReadClient, TypeInv, TypeOK
  <2>3. socks' \in [Devices -> Nat]
    BY <1>9 DEF ReadClient, TypeInv, TypeOK
  <2>4. row' \in [Devices -> {"none", "noip", "ip"}] /\ busy' \in BOOLEAN /\ found' \subseteq Devices
    BY <1>9 DEF ReadClient, TypeInv, TypeOK
  <2> QED
    BY <1>9, <2>2, <2>3, <2>4, PageTypes DEF ReadClient, TypeInv, TypeOK, server, dialogs
<1>10. ASSUME NEW d \in Devices, AddAnswered(d) PROVE TypeInv'
  <2>1. page["search"].open \in BOOLEAN
    BY <1>0 DEF TypeInv, TypeOK, Page
  <2> QED
    BY <1>10, <2>1 DEF AddAnswered, TypeInv, TypeOK, TimerInv, server
<1>11. CASE Tick
  <2>1. \A p \in Pages : page[p].on => [page[p] EXCEPT !.left = @ - 1] \in Page
    BY <1>11, Ranges DEF Tick, TypeInv, TypeOK, Page
  <2>2. page' \in [Pages -> Page] /\ \A o \in Pages : Sound(page'[o])
    BY <1>11, <2>1, PagesSound DEF Tick, Sound, Page
  <2>3. stops' \in [0..StopDelay -> Nat]
    BY <1>11 DEF Tick, TypeInv, TypeOK
  <2>4. age' \in 0..StopDelay
    BY <1>11 DEF Tick, TypeInv, TypeOK
  <2> QED
    BY <1>11, <2>2, <2>3, <2>4, PageTypes DEF Tick, TypeInv, TypeOK, dialogs
<1>12. CASE UNCHANGED vars
  BY <1>12 DEF vars, TypeInv, TypeOK, TimerInv
<1> QED
  BY <1>1, <1>2, <1>3, <1>4, <1>5, <1>6, <1>7, <1>8, <1>9, <1>10, <1>11, <1>12 DEF Next

LEMMA TypeInvariance == Spec => []TypeInv
<1> QED
  BY InitTyped, NextTyped, PTL DEF Spec

(***************************************************************************)
(* The state of the search stays well typed, for any devices, delays and   *)
(* faults: in particular no timer of a page goes on after its second try   *)
(* (DevicesSearchPage.qml, idTimerSearch).                                 *)
(***************************************************************************)
THEOREM TypeCorrect == Spec => []TypeOK
<1>1. TypeInv => TypeOK
  BY DEF TypeInv
<1> QED
  BY <1>1, TypeInvariance, PTL

-----------------------------------------------------------------------------
(***************************************************************************)
(* The server.  Until the next search only one single shot is left, that   *)
(* of the search itself, which has as many ticks left as the second has.   *)
(***************************************************************************)
OwnShot ==
  age < StopDelay /\ ~overlap =>
    /\ listening
    /\ \A k \in 0..StopDelay : stops[k] > 0 => k + age = StopDelay

ServerInv ==
  /\ OwnShot
  /\ listening => \E k \in 0..StopDelay : stops[k] > 0

(* A search begins with its own single shot.                               *)
LEMMA StartServerOwn ==
  ASSUME TypeOK, StartServer
  PROVE  ServerInv'
<1>1. CASE listening' = TRUE /\ stops' = DelayStop(stops) /\ age' = 0
           /\ overlap' = \E k \in 0..StopDelay : stops[k] > 0
  <2>0. StopDelay \in 0..StopDelay /\ StopDelay \in Nat
    BY Delays
  <2>1. stops'[StopDelay] > 0
    BY <1>1, <2>0 DEF DelayStop, TypeOK
  <2>2. ~overlap' => \A k \in 0..StopDelay : stops'[k] > 0 => k = StopDelay
    BY <1>1, <2>0 DEF DelayStop, TypeOK
  <2> QED
    BY <1>1, <2>0, <2>1, <2>2 DEF ServerInv, OwnShot
<1>2. CASE ~listening' /\ age' = StopDelay
  BY <1>2, Delays DEF ServerInv, OwnShot
<1> QED
  BY <1>1, <1>2 DEF StartServer

LEMMA ServerStep == TypeInv /\ ServerInv /\ [Next]_vars => ServerInv'
<1> SUFFICES ASSUME TypeInv, ServerInv, [Next]_vars PROVE ServerInv'
  OBVIOUS
<1>0. TypeOK
  BY DEF TypeInv
<1>1. CASE StartServer
  BY <1>0, <1>1, StartServerOwn
<1>2. CASE UNCHANGED <<listening, stops, age, overlap>>
  BY <1>2 DEF ServerInv, OwnShot
<1>3. CASE StopServer
  <2>1. ~(age < StopDelay /\ ~overlap)
    BY <1>0, <1>3, Delays DEF StopServer, ServerInv, OwnShot, TypeOK
  <2> QED
    BY <1>3, <2>1 DEF StopServer, ServerInv, OwnShot
<1>4. CASE Tick
  <2>1. \A k \in 0..StopDelay : stops'[k] > 0 => k + 1 \in 0..StopDelay /\ stops[k + 1] > 0
    BY <1>0, <1>4, Delays DEF Tick, TypeOK
  <2>2. OwnShot'
    BY <1>0, <1>4, <2>1, Delays DEF Tick, TypeOK, ServerInv, OwnShot
  <2>3. ASSUME NEW k \in 0..StopDelay, stops[k] > 0
        PROVE  k - 1 \in 0..StopDelay /\ stops'[k - 1] > 0
    BY <1>0, <1>4, <2>3, Delays DEF Tick, TypeOK
  <2> QED
    BY <1>4, <2>2, <2>3 DEF Tick, ServerInv
<1>5. [Next]_vars => StartServer \/ StopServer \/ Tick \/ UNCHANGED <<listening, stops, age, overlap>>
  BY DEF Next, vars, OpenHome, OpenSearch, SearchAgain, PrepareSearch, Leave, PageTimer,
         ConnectDevice, CallBack, ReadClient, AddAnswered, server
<1> QED
  BY <1>1, <1>2, <1>3, <1>4, <1>5

(***************************************************************************)
(* A search that no single shot of an earlier one is left for keeps its    *)
(* server open for a second, and an open server is going to be closed, for *)
(* any delays (searchLocalIdevice.cpp, startServer, delay1SStopServer).    *)
(***************************************************************************)
THEOREM ServerStaysOpen == Spec => []OpenForASecond
<1>1. Init => ServerInv
  BY Delays DEF Init, ServerInv, OwnShot
<1>2. ServerInv => OpenForASecond
  BY DEF ServerInv, OwnShot, OpenForASecond
<1> QED
  BY <1>1, <1>2, ServerStep, TypeInvariance, PTL DEF Spec

-----------------------------------------------------------------------------
(***************************************************************************)
(* The search page.  While it shows that it is busy, its timer runs, the   *)
(* cloud owes it the answer to an addition, or an addition has failed.     *)
(***************************************************************************)
BusyEnds ==
  busy => /\ page["search"].open
          /\ page["search"].on \/ posts # {} \/ failed

(* What prepareSearch() and the end of a try leave of the page.            *)
LEMMA SearchPages ==
  ASSUME page \in [Pages -> Page]
  PROVE  /\ "home" \in Pages /\ "search" \in Pages
         /\ \A p \in Page : /\ Stopped(p).open = p.open
                           /\ Restarted(p).open = p.open
                           /\ Restarted(p).on = TRUE
                           /\ Started([p EXCEPT !.open = TRUE]).open = TRUE
         /\ \A r, s : [page EXCEPT !["home"] = r, !["search"] = s]["search"] = s
         /\ \A r : [page EXCEPT !["home"] = r]["search"] = page["search"]
         /\ \A r : [page EXCEPT !["search"] = r]["search"] = r
         /\ [NoPage EXCEPT !.open = TRUE].open
<1>1. "home" \in Pages /\ "search" \in Pages
  BY DEF Pages
<1>2. ASSUME NEW p \in Page
      PROVE  /\ Stopped(p).open = p.open
             /\ Restarted(p).open = p.open /\ Restarted(p).on = TRUE
             /\ Started([p EXCEPT !.open = TRUE]).open = TRUE
  BY DEF Page, Stopped, Restarted, Started
<1>3. [NoPage EXCEPT !.open = TRUE].open
  BY DEF NoPage
<1>4. /\ \A r, s : [page EXCEPT !["home"] = r, !["search"] = s]["search"] = s
      /\ \A r : [page EXCEPT !["home"] = r]["search"] = page["search"]
      /\ \A r : [page EXCEPT !["search"] = r]["search"] = r
  BY <1>1
<1> QED
  BY <1>1, <1>2, <1>3, <1>4

LEMMA BusyStep == TypeInv /\ BusyEnds /\ [Next]_vars => BusyEnds'
<1> SUFFICES ASSUME TypeInv, BusyEnds, [Next]_vars, busy'
             PROVE  /\ page["search"].open'
                    /\ page["search"].on' \/ posts' # {} \/ failed'
  BY DEF BusyEnds
<1> DEFINE Goal == /\ page["search"].open'
                   /\ page["search"].on' \/ posts' # {} \/ failed'
<1>0. page \in [Pages -> Page] /\ page["search"] \in Page /\ page["home"] \in Page
  BY SearchPages DEF TypeInv, TypeOK
<1>a. ASSUME NEW p \in Page, p.open, PrepareSearch(p) PROVE Goal
  BY <1>0, <1>a, SearchPages DEF PrepareSearch
<1>b. ASSUME page'["search"] = page["search"], busy' = busy,
             posts \subseteq posts', failed' = failed
      PROVE  Goal
  BY <1>b DEF BusyEnds
<1>1. CASE OpenHome
  BY <1>0, <1>1, <1>b, SearchPages DEF OpenHome, dialogs
<1>2. CASE OpenSearch
  BY <1>2, <1>a, TimersSound, SearchPages, <1>0 DEF OpenSearch
<1>3. CASE SearchAgain
  BY <1>0, <1>3, <1>a DEF SearchAgain
<1>4. CASE Leave
  BY <1>4 DEF Leave
<1>5. CASE StopServer
  BY <1>5, <1>b DEF StopServer, dialogs
<1>6. ASSUME NEW p \in Pages, PageTimer(p) PROVE Goal
  <2>1. CASE p = "search"
    <3>1. page[p].count + 1 < 2
      BY <1>6, <2>1 DEF PageTimer, Ends
    <3>2. page'[p] = [page[p] EXCEPT !.count = page[p].count + 1, !.left = PagePeriod]
      BY <1>0, <1>6, <2>1, <3>1, SearchPages DEF PageTimer
    <3>3. page'[p].on /\ page'[p].open
      BY <1>0, <1>6, <2>1, <3>2, PagesSound DEF PageTimer, Page, Sound
    <3> QED
      BY <2>1, <3>3
  <2>2. CASE p # "search"
    <3>1. page'["search"] = page["search"] /\ busy' = busy
      BY <1>0, <1>6, <2>2, SearchPages DEF PageTimer, Ends, TypeInv, TypeOK
    <3> QED
      BY <1>6, <1>b, <3>1 DEF PageTimer, dialogs
  <2> QED
    BY <2>1, <2>2
<1>7. ASSUME NEW d \in Devices, ConnectDevice(d) PROVE Goal
  BY <1>7 DEF ConnectDevice
<1>8. ASSUME NEW d \in Devices, CallBack(d) PROVE Goal
  BY <1>8, <1>b DEF CallBack, dialogs
<1>9. ASSUME NEW d \in Devices, ReadClient(d) PROVE Goal
  <2>1. page'["search"] = page["search"] /\ busy' = busy
    BY <1>0, <1>9, SearchPages DEF ReadClient
  <2> QED
    BY <1>9, <1>b, <2>1 DEF ReadClient, dialogs
<1>10. ASSUME NEW d \in Devices, AddAnswered(d) PROVE Goal
  BY <1>10 DEF AddAnswered, BusyEnds
<1>11. CASE Tick
  <2>1. page'["search"].on = page["search"].on /\ page'["search"].open = page["search"].open
    BY <1>0, <1>11, SearchPages DEF Tick, Page
  <2> QED
    BY <1>11, <2>1 DEF Tick, BusyEnds, dialogs
<1>12. CASE UNCHANGED vars
  BY <1>12, <1>b DEF vars, dialogs
<1> QED
  BY <1>1, <1>2, <1>3, <1>4, <1>5, <1>6, <1>7, <1>8, <1>9, <1>10, <1>11, <1>12 DEF Next

(***************************************************************************)
(* The search page never shows that it is busy with nothing left that      *)
(* would end it: its timer runs or the cloud owes an answer, unless an     *)
(* addition has failed; whatever is found, and however often the search is *)
(* repeated or the page left (DevicesSearchPage.qml, idBusy).  Only that   *)
(* the timer fires and the cloud answers is left to SearchEnds.            *)
(***************************************************************************)
THEOREM SearchPageIsNotStuck == Spec => []BusyEnds
<1>1. Init => BusyEnds
  BY DEF Init, BusyEnds
<1> QED
  BY <1>1, BusyStep, TypeInvariance, PTL DEF Spec
=============================================================================
