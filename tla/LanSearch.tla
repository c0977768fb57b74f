------------------------------ MODULE LanSearch ------------------------------
(***************************************************************************)
(* The search for devices in the local network.  SearchLocalIdevice opens  *)
(* a TCP server for a second and broadcasts a datagram; a device that      *)
(* hears it calls back and says who it is.  Two pages share the server:    *)
(* DevicesPage, which searches once when it is made, and, over it,         *)
(* DevicesSearchPage, which searches when it is made and whenever it is    *)
(* told to.  Each has a timer that repeats the search once, and a counter. *)
(* The single shots that close the server are never cancelled.             *)
(***************************************************************************)
EXTENDS Naturals

CONSTANTS
  Devices,     \* macs of the devices in the network
  Configured,  \* those that say cfg = 1
  StopDelay,   \* ticks of the single shot that closes the server
  PagePeriod,  \* ticks of the timers of the pages
  Faults,      \* what may go wrong, see KnownFaults
  MaxOps       \* bound on the steps of the user

ASSUME SomeConfigured == Configured \subseteq Devices
\* "busyport": listen() fails; "split": a greeting is read in pieces.
ASSUME KnownFaults == Faults \subseteq {"busyport", "split"}
ASSUME Delays == StopDelay \in Nat \ {0} /\ PagePeriod \in Nat \ {0}
ASSUME OpsBounded == MaxOps \in Nat

VARIABLES
  listening,  \* tcpServer->isListening()
  stops,      \* how many single shots have so many ticks left
  asked,      \* the devices that have heard a broadcast and not called yet
  socks,      \* how many of its connections wait to be read
  row,        \* the table of devices: no row, or whether its ip is set
  page,       \* the two pages, each with idTimerSearch and iCounter
  found,      \* discoveredDevices
  busy,       \* idBusy.running
  dialog,     \* idDialogAddSuccess is open
  posts,      \* the devices whose addition the cloud has not answered
  failed,     \* history: an addition has failed
  age,        \* history: ticks since the server was opened, up to StopDelay
  overlap,    \* history: single shots of earlier searches were left by then
  ops         \* steps left to the user

vars == <<listening, stops, asked, socks, row, page, found, busy, dialog,
          posts, failed, age, overlap, ops>>

server == <<listening, stops, asked, age, overlap>>
dialogs == <<dialog, posts, failed>>

Pages == {"home", "search"}
Page == [open : BOOLEAN, on : BOOLEAN, left : 0..PagePeriod, count : 0..2]

TypeOK ==
  /\ listening \in BOOLEAN
  /\ stops \in [0..StopDelay -> Nat]
  /\ asked \subseteq Devices
  /\ socks \in [Devices -> Nat]
  /\ row \in [Devices -> {"none", "noip", "ip"}]
  /\ page \in [Pages -> Page]
  /\ found \subseteq Devices
  /\ busy \in BOOLEAN
  /\ dialog \in BOOLEAN
  /\ posts \subseteq Devices
  /\ failed \in BOOLEAN
  /\ age \in 0..StopDelay
  /\ overlap \in BOOLEAN
  /\ ops \in 0..MaxOps

NoPage == [open |-> FALSE, on |-> FALSE, left |-> 0, count |-> 0]

\* The rows of earlier runs have lost their ips by the first search.
Init ==
  /\ listening = FALSE
  /\ stops = [k \in 0..StopDelay |-> 0]
  /\ asked = {}
  /\ socks = [d \in Devices |-> 0]
  /\ row \in [Devices -> {"none", "noip"}]
  /\ page = [p \in Pages |-> NoPage]
  /\ found = {}
  /\ busy = FALSE
  /\ dialog = FALSE
  /\ posts = {}
  /\ failed = FALSE
  /\ age = StopDelay
  /\ overlap = FALSE
  /\ ops = MaxOps

User == ops > 0 /\ ops' = ops - 1

-----------------------------------------------------------------------------
(* SearchLocalIdevice and its table *)

\* Mutant of DelayStop: the server is closed a tick too early.
DelayStopEarly(s) == [s EXCEPT ![StopDelay - 1] = @ + 1]

\* delay1SStopServer()
DelayStop(s) == [s EXCEPT ![StopDelay] = @ + 1]

\* startServer(): a server that is open is closed first.  The devices of S
\* hear the broadcast.
StartServer ==
  \/ /\ listening' = TRUE
     /\ \E S \in SUBSET Devices : asked' = asked \cup S
     /\ stops' = DelayStop(stops)
     /\ age' = 0
     /\ overlap' = \E k \in 0..StopDelay : stops[k] > 0
  \/ /\ "busyport" \in Faults
     /\ listening' = FALSE
     /\ age' = StopDelay
     /\ UNCHANGED <<asked, stops, overlap>>

\* The single shot of some search.
StopServer ==
  /\ stops[0] > 0
  /\ stops' = [stops EXCEPT ![0] = @ - 1]
  /\ listening' = FALSE
  /\ UNCHANGED <<asked, socks, row, page, found, busy, dialogs, age, overlap, ops>>

\* clearIp()
ClearIp == row' = [d \in Devices |-> IF row[d] = "ip" THEN "noip" ELSE row[d]]

\* Timer.start() lets a timer that runs run on.
Started(p) == IF p.on THEN p ELSE [p EXCEPT !.on = TRUE, !.left = PagePeriod]
Stopped(p) == [p EXCEPT !.on = FALSE, !.left = 0]

-----------------------------------------------------------------------------
(* The pages *)

\* DevicesPage is made: prepareSearch().
OpenHome ==
  /\ ~page["home"].open
  /\ page' = [page EXCEPT !["home"] = Started([@ EXCEPT !.open = TRUE])]
  /\ ClearIp
  /\ StartServer
  /\ UNCHANGED <<socks, found, busy, dialogs, ops>>

\* Mutant of Restarted: the tries of the last search count.
RestartedGoingOn(p) == Started(p)

\* The first and the last line of prepareSearch().
Restarted(p) == Started([p EXCEPT !.count = 0])

\* prepareSearch() of DevicesSearchPage, whose timer is p's.
PrepareSearch(p) ==
  /\ page' = [page EXCEPT !["home"] = Stopped(@),
                          !["search"] = Restarted(p)]
  /\ busy' = TRUE
  /\ found' = {}
  /\ ClearIp
  /\ StartServer
  /\ UNCHANGED <<socks, dialogs>>

\* "addNewDeviceAction": the timer of DevicesPage is stopped.
OpenSearch ==
  /\ User
  /\ page["home"].open /\ ~page["search"].open
  /\ PrepareSearch([NoPage EXCEPT !.open = TRUE])

\* "SearchLocalIdevice", from the menu.
SearchAgain ==
  /\ User
  /\ page["search"].open /\ ~dialog
  /\ PrepareSearch(page["search"])

\* A click on a configured device: add().
ConnectDevice(d) ==
  /\ User
  /\ page["search"].open /\ ~dialog
  /\ d \in found \cap Configured
  /\ busy' = TRUE
  /\ row' = [row EXCEPT ![d] = "ip"]
  /\ posts' = posts \cup {d}
  /\ UNCHANGED <<server, socks, page, found, dialog, failed>>

\* Back, or the button of the dialog.
Leave ==
  /\ User
  /\ page["search"].open
  /\ page' = [page EXCEPT !["search"] = NoPage]
  /\ found' = {}
  /\ busy' = FALSE
  /\ dialog' = FALSE
  /\ UNCHANGED <<server, socks, row, posts, failed>>

\* Mutant of Ends: the timer stops as that of DevicesPage does.
EndsQuietly(p) == busy' = busy

\* What the end of the timer of page p does besides.
Ends(p) == busy' = (busy /\ p # "search")

\* idTimerSearch of either page.
PageTimer(p) ==
  LET n == page[p].count + 1
  IN /\ page[p].on /\ page[p].left = 0
     /\ IF n < 2
          THEN /\ page' = [page EXCEPT ![p] = [@ EXCEPT !.count = n, !.left = PagePeriod]]
               /\ StartServer
               /\ UNCHANGED busy
          ELSE /\ page' = [page EXCEPT ![p] = Stopped([@ EXCEPT !.count = n])]
               /\ Ends(p)
               /\ UNCHANGED server
     /\ UNCHANGED <<socks, row, found, dialogs, ops>>

-----------------------------------------------------------------------------
(* The devices, the cloud and the clock *)

\* A device calls back; when the server is closed it is refused.
CallBack(d) ==
  /\ d \in asked
  /\ asked' = asked \ {d}
  /\ socks' = IF listening THEN [socks EXCEPT ![d] = @ + 1] ELSE socks
  /\ UNCHANGED <<listening, stops, row, page, found, busy, dialogs, age, overlap, ops>>

\* updateIp() finds it in the table.
Known(d) == d \in Configured /\ row[d] # "none"

(***************************************************************************)
(* readClient() and the signals it leads to: ipUpdated stops the timer of  *)
(* DevicesPage, and foundNewDevice ends the search of DevicesSearchPage.   *)
(***************************************************************************)
ReadClient(d) ==
  /\ socks[d] > 0
  /\ socks' = [socks EXCEPT ![d] = @ - 1]
  /\ \/ /\ Known(d)
        /\ row' = [row EXCEPT ![d] = "ip"]
        /\ page' = [page EXCEPT !["home"] = Stopped(@)]
        /\ UNCHANGED <<found, busy>>
     \/ /\ ~Known(d) /\ page["search"].open
        /\ found' = found \cup {d}
        /\ page' = [page EXCEPT !["search"] = Stopped(@)]
        /\ busy' = FALSE
        /\ UNCHANGED row
     \/ /\ "split" \in Faults \/ ~(Known(d) \/ page["search"].open)
        /\ UNCHANGED <<row, page, found, busy>>
  /\ UNCHANGED <<server, dialogs, ops>>

\* The cloud answers an addition: addSuccess, or an error nobody shows.
AddAnswered(d) ==
  /\ d \in posts
  /\ posts' = posts \ {d}
  /\ \/ /\ busy' = FALSE
        /\ dialog' = page["search"].open
        /\ UNCHANGED failed
     \/ /\ failed' = TRUE
        /\ UNCHANGED <<busy, dialog>>
  /\ UNCHANGED <<server, socks, row, page, found, ops>>

\* Half a second passes, in which the timers that are due were served.
Tick ==
  /\ stops[0] = 0
  /\ \A p \in Pages : page[p].on => page[p].left > 0
  /\ stops' = [k \in 0..StopDelay |-> IF k < StopDelay THEN stops[k + 1] ELSE 0]
  /\ page' = [p \in Pages |-> IF page[p].on THEN [page[p] EXCEPT !.left = @ - 1]
                                           ELSE page[p]]
  /\ age' = IF age < StopDelay THEN age + 1 ELSE age
  /\ UNCHANGED <<listening, asked, socks, row, found, busy, dialogs, overlap, ops>>

-----------------------------------------------------------------------------

Next ==
  \/ OpenHome \/ OpenSearch \/ SearchAgain \/ Leave
  \/ StopServer
  \/ \E p \in Pages : PageTimer(p)
  \/ \E d \in Devices :
       ConnectDevice(d) \/ CallBack(d) \/ ReadClient(d) \/ AddAnswered(d)
  \/ Tick

Spec == Init /\ [][Next]_vars

\* Time passes, the timers of Qt fire, and the cloud answers or fails.
FairSpec ==
  /\ Spec
  /\ WF_vars(Tick)
  /\ WF_vars(StopServer)
  /\ \A p \in Pages : WF_vars(PageTimer(p))
  /\ \A d \in Devices : WF_vars(AddAnswered(d))

-----------------------------------------------------------------------------
(* What a search is for *)

(***************************************************************************)
(* The server that a search has opened is open for a second, so that a     *)
(* device that calls back within it is not refused, unless a single shot   *)
(* of an earlier search was left; and an open server will be closed        *)
(* (searchLocalIdevice.cpp, startServer, delay1SStopServer).               *)
(***************************************************************************)
OpenForASecond ==
  /\ age < StopDelay /\ ~overlap => listening
  /\ listening => \E k \in 0..StopDelay : stops[k] > 0

(***************************************************************************)
(* The search page does not stay busy: the search ends after its second    *)
(* try, with the first new device, or, when the user has chosen a device,  *)
(* with the answer of the cloud; an addition that fails is the one excuse  *)
(* (DevicesSearchPage.qml, idTimerSearch, onAddSuccess).                   *)
(***************************************************************************)
SearchEnds == busy ~> (~busy \/ failed)
=============================================================================
