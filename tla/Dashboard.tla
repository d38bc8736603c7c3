----------------------------- MODULE Dashboard ------------------------------
(***************************************************************************)
(* One dashboard page: frontend/src/App.vue, with the backend it talks to. *)
(* What the page shows is abstracted to the number of changes it reflects. *)
(* The event loop of the browser runs one callback at a time: each is one  *)
(* action.                                                                 *)
(***************************************************************************)
EXTENDS Realtime

CONSTANTS
    Requests,    \* numbers of the GET /stores requests that may be outstanding
    NoSocket

ASSUME DashboardAssumption == NoSocket \notin Sockets /\ Requests \subseteq Nat

Free == -2       \* the request does not exist
Asked == -1      \* it is on its way to list_stores; otherwise: what it read

VARIABLES
    shown,          \* the changes reflected in stores
    error,          \* error.value is not null
    request,        \* the outstanding requests
    inFlight,       \* refreshInFlight
    pending,        \* refreshPending
    refreshTimer, reconnectTimer, polling,  \* the timers that are set
    socket,         \* the current WebSocket
    readyState,     \* its state, as its callbacks have told it
    wsConnected,
    stopped

page == <<shown, error>>
fetching == <<request, inFlight, pending>>
connection == <<socket, readyState, wsConnected, reconnectTimer>>
client == <<page, fetching, connection, refreshTimer, polling, stopped>>
vars == <<serverVars, netVars, client>>

(***************************************************************************)
(* refreshStores and scheduleRefresh                                       *)
(***************************************************************************)
(* A new request takes the lowest number that is free.                     *)
Fetch ==
    \E r \in Requests :
        /\ request[r] = Free
        /\ \A q \in Requests : request[q] = Free => r <= q
        /\ request' = [request EXCEPT ![r] = Asked]

\* Fault: requests overlap.
RefreshAnyway ==
    /\ Fetch
    /\ inFlight' = TRUE
    /\ UNCHANGED pending

\* Fault: a refresh that is asked for while one is in flight is dropped.
RefreshOrIgnore ==
    /\ IF inFlight THEN UNCHANGED request
       ELSE Fetch
    /\ inFlight' = TRUE
    /\ UNCHANGED pending

RefreshStores ==
    \/ /\ inFlight
       /\ pending' = TRUE
       /\ UNCHANGED <<request, inFlight>>
    \/ /\ ~ inFlight
       /\ inFlight' = TRUE
       /\ Fetch
       /\ UNCHANGED pending

\* Fault: a refresh that was asked for is made after the page has gone.
EndRefreshAlways(r) ==
    /\ request' = [request EXCEPT ![r] = Free]
    /\ inFlight' = FALSE
    /\ pending' = FALSE
    /\ refreshTimer' = (refreshTimer \/ pending)
    /\ UNCHANGED <<connection, polling, stopped, serverVars, netVars>>

(* The finally block of refreshStores.                                     *)
EndRefresh(r) ==
    /\ request' = [request EXCEPT ![r] = Free]
    /\ inFlight' = FALSE
    /\ IF pending /\ ~ stopped
       THEN pending' = FALSE /\ refreshTimer' = TRUE
       ELSE UNCHANGED <<pending, refreshTimer>>
    /\ UNCHANGED <<connection, polling, stopped, serverVars, netVars>>

Received(r) ==
    /\ request[r] \notin {Free, Asked}
    /\ shown' = request[r]
    /\ error' = FALSE
    /\ EndRefresh(r)

FetchFails(r) ==
    /\ request[r] # Free
    /\ error' = TRUE
    /\ EndRefresh(r)
    /\ UNCHANGED shown

RefreshTimerFires ==
    /\ refreshTimer
    /\ refreshTimer' = FALSE
    /\ RefreshStores
    /\ UNCHANGED <<page, connection, polling, stopped, serverVars, netVars>>

Poll ==
    /\ polling
    /\ RefreshStores
    /\ UNCHANGED <<page, connection, refreshTimer, polling, stopped, serverVars, netVars>>

(* list_stores of the backend reads the committed rows.                    *)
ListStores(r) ==
    /\ request[r] = Asked
    /\ request' = [request EXCEPT ![r] = version]
    /\ UNCHANGED <<page, inFlight, pending, connection, refreshTimer, polling, stopped,
                   serverVars, netVars>>

(***************************************************************************)
(* connectWebSocket                                                        *)
(***************************************************************************)
Dial(s) ==
    /\ Forgotten(s)
    /\ socket' = s
    /\ readyState' = "connecting"
    /\ link' = [link EXCEPT ![s] = "dialled"]
    /\ UNCHANGED mail

OnOpen ==
    /\ readyState = "connecting" /\ link[socket] \in {"open", "stalled"}
    /\ readyState' = "open"
    /\ wsConnected' = TRUE
    /\ UNCHANGED <<page, fetching, socket, reconnectTimer, refreshTimer, polling, stopped,
                   serverVars, netVars>>

OnMessage ==
    /\ readyState = "open" /\ mail[socket] > 0
    /\ mail' = [mail EXCEPT ![socket] = @ - 1]
    /\ refreshTimer' = TRUE
    /\ UNCHANGED <<page, fetching, connection, polling, stopped, serverVars, link>>

\* Fault: a socket that closes is not opened again.
OnCloseForgets ==
    /\ readyState \in {"connecting", "open"} /\ link[socket] = "cut"
    /\ readyState' = "closed"
    /\ wsConnected' = FALSE
    /\ UNCHANGED <<page, fetching, socket, reconnectTimer, refreshTimer, polling, stopped,
                   serverVars, netVars>>

(* onerror only closes the socket, and onclose follows.                    *)
OnClose ==
    /\ readyState \in {"connecting", "open"} /\ link[socket] = "cut"
    /\ readyState' = "closed"
    /\ wsConnected' = FALSE
    /\ reconnectTimer' = TRUE
    /\ UNCHANGED <<page, fetching, socket, refreshTimer, polling, stopped,
                   serverVars, netVars>>

Reconnect ==
    /\ reconnectTimer
    /\ reconnectTimer' = FALSE
    /\ IF stopped THEN UNCHANGED <<socket, readyState, netVars>>
       ELSE \E s \in Sockets : Dial(s)
    /\ UNCHANGED <<page, fetching, wsConnected, refreshTimer, polling, stopped, serverVars>>

(***************************************************************************)
(* onMounted and onBeforeUnmount                                           *)
(***************************************************************************)
Init ==
    /\ RealtimeInit
    /\ shown = 0 /\ error = FALSE
    /\ request = [r \in Requests |-> Free]
    /\ inFlight = FALSE /\ pending = FALSE
    /\ refreshTimer = FALSE /\ reconnectTimer = FALSE /\ polling = FALSE
    /\ socket = NoSocket /\ readyState = "none" /\ wsConnected = FALSE
    /\ stopped = FALSE

\* Fault: the page trusts the messages and does not poll.
MountAndListen ==
    /\ readyState = "none" /\ ~ stopped
    /\ RefreshStores
    /\ \E s \in Sockets : Dial(s)
    /\ UNCHANGED <<page, wsConnected, refreshTimer, reconnectTimer, polling, stopped,
                   serverVars>>

Mount ==
    /\ readyState = "none" /\ ~ stopped
    /\ RefreshStores
    /\ \E s \in Sockets : Dial(s)
    /\ polling' = TRUE
    /\ UNCHANGED <<page, wsConnected, refreshTimer, reconnectTimer, stopped, serverVars>>

(* The socket's onclose is taken off, so nothing reconnects.               *)
Unmount ==
    /\ readyState # "none" /\ ~ stopped
    /\ stopped' = TRUE
    /\ reconnectTimer' = FALSE /\ refreshTimer' = FALSE /\ polling' = FALSE
    /\ readyState' = "closed"
    /\ Sever({socket})
    /\ UNCHANGED <<page, fetching, socket, wsConnected, serverVars>>

Browser == RefreshTimerFires \/ OnOpen \/ OnMessage \/ OnClose \/ Reconnect

Next ==
    \/ RealtimeNext /\ UNCHANGED client
    \/ Mount \/ Unmount \/ Poll \/ Browser
    \/ \E r \in Requests : ListStores(r) \/ Received(r) \/ FetchFails(r)

Spec == Init /\ [][Next]_vars

(***************************************************************************)
(* Timers fire, callbacks and handlers run, a request ends.  A send that   *)
(* waits for a stalled socket goes on when the socket takes data again,    *)
(* even if it stalls again later.                                          *)
(***************************************************************************)
Fairness ==
    /\ WF_vars(RefreshTimerFires) /\ WF_vars(Reconnect)
    /\ WF_vars(OnOpen) /\ WF_vars(OnMessage) /\ WF_vars(OnClose)
    /\ \A s \in Sockets : /\ WF_vars(SocketStep(s) /\ UNCHANGED client)
                           /\ WF_vars(EndStall(s) /\ UNCHANGED client)
    /\ \A b \in Writers : SF_vars(WriterStep(b) /\ UNCHANGED client)
    /\ \A r \in Requests : WF_vars(ListStores(r) \/ Received(r) \/ FetchFails(r))
FairSpec == Spec /\ Fairness

(* The polling timer fires, and of the requests that are made again and    *)
(* again some are served: outages end.                                     *)
Polls ==
    /\ WF_vars(Poll)
    /\ SF_vars(\E r \in Requests : ListStores(r))
    /\ SF_vars(\E r \in Requests : Received(r))

-----------------------------------------------------------------------------
(***************************************************************************)
(* Properties                                                              *)
(***************************************************************************)
Versions == 0 .. MaxChanges

WriterStates ==
    [at : {"idle", "committed", "sending"}, todo : Seq(Sockets), stale : SUBSET Sockets]

(* Every variable has its type.                                            *)
TypeOK ==
    /\ version \in Versions /\ shown \in Versions
    /\ writer \in [Writers -> WriterStates]
    /\ connections \subseteq Sockets
    /\ handler \in [Sockets -> {"none", "accepted", "receiving"}]
    /\ link \in [Sockets -> {"cut", "dialled", "open", "stalled"}]
    /\ mail \in [Sockets -> Versions]
    /\ request \in [Requests -> Versions \cup {Free, Asked}]
    /\ {error, inFlight, pending, refreshTimer, reconnectTimer, polling,
        wsConnected, stopped} \subseteq BOOLEAN
    /\ socket \in Sockets \cup {NoSocket}
    /\ readyState \in {"none", "connecting", "open", "closed"}

(* "Never runs overlapping store refresh requests" (docs/ARCHITECTURE.md). *)
Outstanding == {r \in Requests : request[r] # Free}
SingleFlight == Cardinality(Outstanding) = IF inFlight THEN 1 ELSE 0

(* A response that is overtaken never takes the page back to older data.   *)
NeverBackwards == [][shown' >= shown]_shown

(* An unmounted page starts nothing again: it has no timer left that could *)
(* ask for a request, and no socket.                                       *)
QuietAfterUnmount ==
    stopped => /\ ~ (refreshTimer \/ reconnectTimer \/ polling)
               /\ \A s \in Sockets : link[s] = "cut"

(* While it is mounted the page has one socket or is about to dial one:    *)
(* reconnecting never leaves two, and never gives up.                      *)
OneSocket ==
    ~ stopped /\ readyState # "none" =>
        /\ reconnectTimer <=> readyState = "closed"
        /\ \A s \in Sockets \ {socket} : link[s] = "cut"

(* A refresh that is scheduled shows what was committed by then, also when *)
(* the timer fires while an older request is in flight; or it shows an     *)
(* error.                                                                  *)
RefreshCatchesUp ==
    \A v \in Versions \ {0} :
        refreshTimer /\ version = v ~> shown >= v \/ error \/ stopped

(* A change is pushed to a page that is registered when it commits: the    *)
(* page shows it without polling, whatever other sockets fail meanwhile.   *)
Up == socket # NoSocket /\ link[socket] # "cut"
Committed == \E b \in Writers : writer[b].at = "committed"
Pushed ==
    \A v \in Versions \ {0} :
        Committed /\ version = v /\ socket \in connections
            ~> shown >= v \/ error \/ stopped \/ ~ Up

(* A broadcast ends, and the handler that awaits it answers: a socket that *)
(* takes no data holds it up until the keepalive closes the socket.        *)
BroadcastEnds ==
    \A b \in Writers : writer[b].at # "idle" ~> writer[b].at = "idle"

(* Messages are only hints: whatever is lost, while the page stays mounted *)
(* polling brings it to the committed state.                               *)
Converges == Polls => <>[](version = shown \/ stopped \/ readyState = "none")

(***************************************************************************)
(* The inductive invariant of the page, of the parts of TypeOK it needs:   *)
(* what a request reads is never older than what is shown, and only the    *)
(* current socket has a link.                                              *)
(***************************************************************************)
PageTypes ==
    /\ version \in Nat /\ shown \in 0 .. version
    /\ request \in [Requests -> Int]
    /\ inFlight \in BOOLEAN /\ pending \in BOOLEAN /\ refreshTimer \in BOOLEAN
    /\ reconnectTimer \in BOOLEAN /\ polling \in BOOLEAN /\ stopped \in BOOLEAN
    /\ link \in [Sockets -> {"cut", "dialled", "open", "stalled"}]
    /\ socket \in Sockets \cup {NoSocket}
    /\ readyState \in {"none", "connecting", "open", "closed"}

FetchOK ==
    IF inFlight
    THEN \E r \in Requests : /\ Outstanding = {r}
                             /\ request[r] # Asked => request[r] \in shown .. version
    ELSE Outstanding = {}

SocketOK ==
    /\ readyState = "none" <=> socket = NoSocket
    /\ readyState = "none" => ~ reconnectTimer
    /\ stopped => readyState = "closed"
    /\ readyState = "closed" => link[socket] = "cut"
    /\ \A s \in Sockets \ {socket} : link[s] = "cut"

(* PageTypes, FetchOK and SocketOK are kept by every step together with    *)
(* the two properties they serve, of reconnecting and of unmounting.       *)
IInv == PageTypes /\ FetchOK /\ SocketOK /\ OneSocket /\ QuietAfterUnmount

(***************************************************************************)
(* The backend's side: a socket has got no more messages than there are    *)
(* changes whose handler has told it, and each of these tells it once.     *)
(***************************************************************************)
ServerTypes ==
    /\ version \in Versions
    /\ writer \in [Writers -> WriterStates]
    /\ connections \subseteq Sockets
    /\ handler \in [Sockets -> {"none", "accepted", "receiving"}]
    /\ mail \in [Sockets -> Nat]
    /\ error \in BOOLEAN /\ wsConnected \in BOOLEAN

Waits(s, b) == \E i \in DOMAIN writer[b].todo : writer[b].todo[i] = s
NoneTwice ==
    \A b \in Writers : \A i, j \in DOMAIN writer[b].todo :
        writer[b].todo[i] = writer[b].todo[j] => i = j

(* A page is told at most once of a change: what it has not read, and what *)
(* handlers are still to send to it, are no more than the changes.         *)
Telling(s) == {b \in Writers : writer[b].at = "committed" \/ Waits(s, b)}
ToldOnce ==
    \A s \in Sockets :
        IsFiniteSet(Telling(s)) /\ mail[s] + Cardinality(Telling(s)) <= version

TellingInv == ServerTypes /\ NoneTwice /\ ToldOnce
=============================================================================
