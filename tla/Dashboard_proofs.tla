------------------------- MODULE Dashboard_proofs -------------------------
(***************************************************************************)
(* Theorems about Dashboard, for every number of sockets, of handlers that *)
(* broadcast, of requests and of changes.                                  *)
(***************************************************************************)
EXTENDS Dashboard, FiniteSetTheorems, TLAPS

USE DashboardAssumption

(* Initially nothing is mounted.                                           *)
LEMMA InitIInv == Init => IInv
<1> SUFFICES ASSUME Init PROVE IInv
  OBVIOUS
<1>1. PageTypes
  <2>1. Free \in Int
    BY DEF Free
  <2>2. request \in [Requests -> Int]
    BY <2>1 DEF Init
  <2>3. version = 0 /\ shown = 0 /\ link \in [Sockets -> {"cut", "dialled", "open", "stalled"}]
    BY DEF Init, RealtimeInit
  <2>4. shown \in 0 .. version
    BY <2>3, SMT
  <2> QED BY <2>2, <2>3, <2>4, Zenon DEF Init, PageTypes
<1>3. FetchOK
  BY DEF Init, FetchOK, Outstanding
<1>2. SocketOK /\ OneSocket /\ QuietAfterUnmount
  BY DEF Init, RealtimeInit, SocketOK, OneSocket, QuietAfterUnmount
<1> QED BY <1>1, <1>2, <1>3 DEF IInv

-----------------------------------------------------------------------------
(* What the requests and the sockets need of a step.                       *)
(* A step that changes neither the requests nor what is shown keeps them,  *)
(* also if it commits a change.                                            *)
LEMMA FetchKept ==
    ASSUME PageTypes, FetchOK, UNCHANGED <<shown, request, inFlight>>,
           version' \in Nat, version' >= version
    PROVE  FetchOK' /\ shown' \in 0 .. version'
BY DEF PageTypes, FetchOK, Outstanding, Free, Asked

(* A refresh makes a request only if there is none.                        *)
LEMMA RefreshKept ==
    ASSUME PageTypes, FetchOK, RefreshStores, UNCHANGED <<version, shown>>
    PROVE  FetchOK' /\ request' \in [Requests -> Int] /\ inFlight' \in BOOLEAN /\ pending' \in BOOLEAN
<1>1. CASE inFlight
  BY <1>1 DEF PageTypes, FetchOK, RefreshStores, Outstanding
<1>2. CASE ~ inFlight
  <2>1. PICK r \in Requests : /\ request[r] = Free
                              /\ request' = [request EXCEPT ![r] = Asked]
    BY <1>2 DEF RefreshStores, Fetch
  <2>2. Outstanding' = {r}
    BY <1>2, <2>1 DEF PageTypes, FetchOK, Outstanding, Free, Asked
  <2>3. inFlight' = TRUE /\ UNCHANGED pending
    BY <1>2 DEF RefreshStores
  <2>4. request' \in [Requests -> Int] /\ request'[r] = Asked
    BY <2>1 DEF PageTypes, Asked
  <2>5. FetchOK'
    BY <2>2, <2>3, <2>4 DEF FetchOK
  <2> QED BY <2>3, <2>4, <2>5 DEF PageTypes
<1> QED BY <1>1, <1>2 DEF PageTypes

(* A request that ends was the only one.                                   *)
LEMMA EndRefreshKept ==
    ASSUME PageTypes, FetchOK, NEW r \in Requests, request[r] # Free, EndRefresh(r)
    PROVE  FetchOK' /\ request' \in [Requests -> Int] /\ ~ inFlight'
<1>1. inFlight /\ Outstanding = {r}
  BY DEF PageTypes, FetchOK, Outstanding
<1>2. Outstanding' = {}
  BY <1>1 DEF EndRefresh, PageTypes, Outstanding, Free
<1> QED BY <1>2 DEF EndRefresh, PageTypes, FetchOK, Free

(* A step of the network or the backend may cut a link, and open or stall  *)
(* only one that is not cut.                                               *)
LEMMA LinksKept ==
    ASSUME IInv, UNCHANGED client,
           link' \in [Sockets -> {"cut", "dialled", "open", "stalled"}],
           \A s \in Sockets : link[s] = "cut" => link'[s] = "cut"
    PROVE  SocketOK' /\ OneSocket' /\ QuietAfterUnmount'
BY DEF IInv, client, connection, PageTypes, SocketOK, OneSocket, QuietAfterUnmount

(* A dial gives the page its one link.                                     *)
LEMMA DialKept ==
    ASSUME IInv, NEW s \in Sockets, Dial(s), \A u \in Sockets : link[u] = "cut"
    PROVE  /\ socket' = s /\ readyState' = "connecting" /\ s # NoSocket
           /\ link' \in [Sockets -> {"cut", "dialled", "open", "stalled"}]
           /\ \A u \in Sockets \ {s} : link'[u] = "cut"
BY DEF IInv, PageTypes, Dial

-----------------------------------------------------------------------------
(* The steps of the backend and of the network.                            *)
LEMMA SeverLinks ==
    ASSUME PageTypes, NEW S, Sever(S)
    PROVE  /\ link' \in [Sockets -> {"cut", "dialled", "open", "stalled"}]
           /\ \A s \in Sockets : link[s] = "cut" => link'[s] = "cut"
           /\ \A s \in Sockets : s \in S => link'[s] = "cut"
BY DEF PageTypes, Sever

(* The backend and the network leave the page its invariant.               *)
LEMMA RealtimeKeeps ==
    ASSUME IInv, RealtimeNext, UNCHANGED client
    PROVE  IInv'
<1>1. PageTypes /\ FetchOK
  BY DEF IInv
<1> DEFINE Net == /\ version' \in Nat /\ version' >= version
                  /\ link' \in [Sockets -> {"cut", "dialled", "open", "stalled"}]
                  /\ \A s \in Sockets : link[s] = "cut" => link'[s] = "cut"
<1>2. Net
  <2>1. ASSUME NEW s \in Sockets, SocketStep(s) PROVE Net
    BY <1>1, <2>1 DEF SocketStep, Accept, Register, Disconnect, PageTypes, netVars
  <2>2. ASSUME NEW s \in Sockets, Cut(s) \/ EndStall(s) PROVE Net
    <3>1. CASE Sever({s}) /\ UNCHANGED serverVars
      BY <1>1, <3>1, SeverLinks DEF PageTypes, serverVars
    <3>2. CASE UNCHANGED serverVars /\ link[s] = "stalled"
               /\ link' = [link EXCEPT ![s] = "open"]
      BY <1>1, <3>2 DEF PageTypes, serverVars
    <3> QED BY <2>2, <3>1, <3>2 DEF Cut, EndStall
  <2>3. ASSUME NEW s \in Sockets, Stall(s) PROVE Net
    BY <1>1, <2>3 DEF Stall, PageTypes, serverVars
  <2>4. ASSUME NEW b \in Writers, Change(b) PROVE Net
    BY <1>1, <2>4 DEF Change, PageTypes, netVars
  <2>5. ASSUME NEW b \in Writers, WriterStep(b) PROVE Net
    <3>1. UNCHANGED <<version, link>>
      BY <2>5, Zenon DEF WriterStep, Snapshot, Send, Sweep, netVars
    <3> QED BY <1>1, <3>1 DEF PageTypes
  <2>6. ASSUME BackendRestart PROVE Net
    BY <1>1, <2>6, SeverLinks DEF BackendRestart, PageTypes
  <2> QED BY <2>1, <2>2, <2>3, <2>4, <2>5, <2>6 DEF RealtimeNext
<1>3. FetchOK' /\ shown' \in 0 .. version'
  BY <1>1, <1>2, FetchKept DEF client, page, fetching
<1>4. PageTypes'
  BY <1>1, <1>2, <1>3 DEF PageTypes, client, fetching, connection
<1>5. SocketOK' /\ OneSocket' /\ QuietAfterUnmount'
  BY <1>2, LinksKept
<1> QED BY <1>3, <1>4, <1>5 DEF IInv

-----------------------------------------------------------------------------
(* The callbacks of the page.                                              *)
LEMMA MountKeeps ==
    ASSUME IInv, Mount
    PROVE  IInv'
<1>1. PageTypes /\ FetchOK /\ SocketOK /\ QuietAfterUnmount
  BY DEF IInv
<1>2. \A u \in Sockets : link[u] = "cut"
  BY <1>1 DEF Mount, SocketOK
<1>3. PICK s \in Sockets : Dial(s)
  BY DEF Mount
<1>4. UNCHANGED <<version, shown, stopped, reconnectTimer, refreshTimer>> /\ polling' = TRUE
  BY DEF Mount, page, serverVars
<1>5. FetchOK' /\ request' \in [Requests -> Int] /\ inFlight' \in BOOLEAN /\ pending' \in BOOLEAN
  BY <1>1, <1>4, RefreshKept DEF Mount
<1>6. /\ socket' = s /\ readyState' = "connecting" /\ s # NoSocket
      /\ link' \in [Sockets -> {"cut", "dialled", "open", "stalled"}]
      /\ \A u \in Sockets \ {s} : link'[u] = "cut"
  BY <1>2, <1>3, DialKept
<1>7. ~ stopped /\ ~ reconnectTimer
  BY <1>1 DEF Mount, SocketOK
<1>8. PageTypes'
  BY <1>1, <1>4, <1>5, <1>6 DEF PageTypes
<1>9. SocketOK' /\ OneSocket' /\ QuietAfterUnmount'
  BY <1>4, <1>6, <1>7 DEF SocketOK, OneSocket, QuietAfterUnmount
<1> QED BY <1>5, <1>8, <1>9 DEF IInv

(* Unmounting closes the socket and clears the timers.                     *)
LEMMA UnmountKeeps ==
    ASSUME IInv, Unmount
    PROVE  IInv'
<1>1. PageTypes /\ FetchOK /\ SocketOK
  BY DEF IInv
<1>2. /\ UNCHANGED <<version, shown, request, inFlight, pending, socket>>
      /\ stopped' = TRUE /\ readyState' = "closed" /\ Sever({socket})
      /\ reconnectTimer' = FALSE /\ refreshTimer' = FALSE /\ polling' = FALSE
  BY DEF Unmount, page, fetching, serverVars
<1>3. /\ link' \in [Sockets -> {"cut", "dialled", "open", "stalled"}]
      /\ \A s \in Sockets : link'[s] = "cut"
  BY <1>1, <1>2, SeverLinks DEF SocketOK
<1>4. PageTypes'
  BY <1>1, <1>2, <1>3 DEF PageTypes
<1>5. FetchOK'
  BY <1>1, <1>2, FetchKept DEF PageTypes
<1>6. SocketOK' /\ OneSocket' /\ QuietAfterUnmount'
  BY <1>1, <1>2, <1>3 DEF Unmount, PageTypes, SocketOK, OneSocket, QuietAfterUnmount
<1> QED BY <1>4, <1>5, <1>6 DEF IInv

(* The reconnect timer dials a new socket, and not once it is unmounted.   *)
LEMMA ReconnectKeeps ==
    ASSUME IInv, Reconnect
    PROVE  IInv'
<1>1. PageTypes /\ FetchOK /\ SocketOK /\ OneSocket /\ QuietAfterUnmount
  BY DEF IInv
<1>2. /\ UNCHANGED <<version, shown, request, inFlight, pending, refreshTimer, polling, stopped>>
      /\ reconnectTimer' = FALSE /\ reconnectTimer /\ ~ stopped
  BY <1>1 DEF Reconnect, QuietAfterUnmount, page, fetching, serverVars
<1>3. readyState = "closed" /\ \A u \in Sockets : link[u] = "cut"
  BY <1>1, <1>2 DEF SocketOK, OneSocket
<1>4. PICK s \in Sockets : Dial(s)
  BY <1>2 DEF Reconnect
<1>5. /\ socket' = s /\ readyState' = "connecting" /\ s # NoSocket
      /\ link' \in [Sockets -> {"cut", "dialled", "open", "stalled"}]
      /\ \A u \in Sockets \ {s} : link'[u] = "cut"
  BY <1>3, <1>4, DialKept
<1>6. PageTypes'
  BY <1>1, <1>2, <1>5 DEF PageTypes
<1>7. FetchOK'
  BY <1>1, <1>2, FetchKept DEF PageTypes
<1>8. SocketOK' /\ OneSocket' /\ QuietAfterUnmount'
  BY <1>2, <1>5 DEF SocketOK, OneSocket, QuietAfterUnmount
<1> QED BY <1>6, <1>7, <1>8 DEF IInv

(* The callbacks of the socket.                                            *)
LEMMA CallbacksKeep ==
    ASSUME IInv, OnOpen \/ OnMessage \/ OnClose
    PROVE  IInv'
<1>1. PageTypes /\ FetchOK /\ SocketOK /\ OneSocket /\ QuietAfterUnmount
  BY DEF IInv
<1>2. UNCHANGED <<version, shown, request, inFlight, pending, polling, stopped, link, socket>>
  BY DEF OnOpen, OnMessage, OnClose, page, fetching, connection, serverVars, netVars
<1>3. FetchOK'
  BY <1>1, <1>2, FetchKept DEF PageTypes
<1>4. CASE OnOpen
  <2>1. readyState = "connecting" /\ readyState' = "open" /\ link[socket] # "cut"
        /\ UNCHANGED <<reconnectTimer, refreshTimer>>
    BY <1>4 DEF OnOpen
  <2>2. PageTypes'
    BY <1>1, <1>2, <2>1 DEF PageTypes
  <2>3. SocketOK' /\ OneSocket' /\ QuietAfterUnmount'
    BY <1>1, <1>2, <2>1 DEF SocketOK, OneSocket, QuietAfterUnmount
  <2> QED BY <1>3, <2>2, <2>3 DEF IInv
<1>5. CASE OnMessage
  <2>1. readyState = "open" /\ refreshTimer' = TRUE /\ UNCHANGED <<readyState, reconnectTimer>>
    BY <1>5 DEF OnMessage, connection
  <2>2. PageTypes'
    BY <1>1, <1>2, <2>1 DEF PageTypes
  <2>3. ~ stopped
    BY <1>1, <2>1 DEF SocketOK
  <2>4. SocketOK' /\ OneSocket' /\ QuietAfterUnmount'
    BY <1>1, <1>2, <2>1, <2>3 DEF SocketOK, OneSocket, QuietAfterUnmount
  <2> QED BY <1>3, <2>2, <2>4 DEF IInv
<1>6. CASE OnClose
  <2>1. readyState \in {"connecting", "open"} /\ readyState' = "closed" /\ link[socket] = "cut"
        /\ reconnectTimer' = TRUE /\ UNCHANGED refreshTimer
    BY <1>6 DEF OnClose
  <2>2. PageTypes'
    BY <1>1, <1>2, <2>1 DEF PageTypes
  <2>3. SocketOK' /\ OneSocket' /\ QuietAfterUnmount'
    BY <1>1, <1>2, <2>1 DEF SocketOK, OneSocket, QuietAfterUnmount
  <2> QED BY <1>3, <2>2, <2>3 DEF IInv
<1> QED BY <1>4, <1>5, <1>6

(* The timers, and the requests.                                           *)
LEMMA RefreshKeeps ==
    ASSUME IInv, RefreshTimerFires \/ Poll
    PROVE  IInv'
<1>1. PageTypes /\ FetchOK /\ SocketOK /\ OneSocket /\ QuietAfterUnmount
  BY DEF IInv
<1>2. /\ RefreshStores
      /\ UNCHANGED <<version, shown, polling, stopped, link, socket, readyState, reconnectTimer>>
      /\ refreshTimer' \in BOOLEAN /\ (refreshTimer' => refreshTimer)
  <2>1. CASE RefreshTimerFires
    BY <2>1 DEF RefreshTimerFires, page, connection, serverVars, netVars
  <2>2. CASE Poll
    BY <1>1, <2>2 DEF Poll, PageTypes, page, connection, serverVars, netVars
  <2> QED BY <2>1, <2>2
<1>3. FetchOK' /\ request' \in [Requests -> Int] /\ inFlight' \in BOOLEAN /\ pending' \in BOOLEAN
  BY <1>1, <1>2, RefreshKept
<1>4. PageTypes'
  BY <1>1, <1>2, <1>3 DEF PageTypes
<1>5. SocketOK' /\ OneSocket' /\ QuietAfterUnmount'
  BY <1>1, <1>2 DEF SocketOK, OneSocket, QuietAfterUnmount
<1> QED BY <1>3, <1>4, <1>5 DEF IInv

(* A request reads no less than what is shown.                             *)
LEMMA ListStoresKeeps ==
    ASSUME IInv, NEW r \in Requests, ListStores(r)
    PROVE  IInv'
<1>1. PageTypes /\ FetchOK /\ SocketOK /\ OneSocket /\ QuietAfterUnmount
  BY DEF IInv
<1>2. /\ UNCHANGED <<version, shown, inFlight, pending, polling, stopped, link, socket,
                     readyState, reconnectTimer, refreshTimer>>
      /\ request[r] = Asked /\ request' = [request EXCEPT ![r] = version]
  BY DEF ListStores, page, connection, serverVars, netVars
<1>3. inFlight /\ Outstanding = {r}
  BY <1>1, <1>2 DEF FetchOK, Outstanding, Free, Asked
<1>4. Outstanding' = {r} /\ request'[r] = version
  BY <1>1, <1>2, <1>3 DEF PageTypes, Outstanding, Free
<1>5. FetchOK'
  BY <1>1, <1>2, <1>3, <1>4 DEF PageTypes, FetchOK
<1>6. PageTypes'
  BY <1>1, <1>2 DEF PageTypes
<1>7. SocketOK' /\ OneSocket' /\ QuietAfterUnmount'
  BY <1>1, <1>2 DEF SocketOK, OneSocket, QuietAfterUnmount
<1> QED BY <1>5, <1>6, <1>7 DEF IInv

(* What is received is what the only request has read.                     *)
LEMMA ReceivedIsNewer ==
    ASSUME PageTypes, FetchOK, NEW r \in Requests, Received(r)
    PROVE  shown' \in shown .. version
BY DEF PageTypes, FetchOK, Outstanding, Received

(* The end of a request leaves none in flight.                             *)
LEMMA EndRefreshKeeps ==
    ASSUME IInv, NEW r \in Requests, Received(r) \/ FetchFails(r)
    PROVE  IInv'
<1>1. PageTypes /\ FetchOK /\ SocketOK /\ OneSocket /\ QuietAfterUnmount
  BY DEF IInv
<1>2. request[r] # Free /\ EndRefresh(r)
  BY DEF Received, FetchFails
<1>3. shown' \in 0 .. version
  BY <1>1, ReceivedIsNewer DEF FetchFails, PageTypes
<1>4. /\ UNCHANGED <<version, polling, stopped, link, socket, readyState, reconnectTimer>>
      /\ pending' \in BOOLEAN /\ refreshTimer' \in BOOLEAN
      /\ refreshTimer' => refreshTimer \/ ~ stopped
  BY <1>1, <1>2 DEF EndRefresh, PageTypes, connection, serverVars, netVars
<1>5. FetchOK' /\ request' \in [Requests -> Int] /\ inFlight' = FALSE
  BY <1>1, <1>2, EndRefreshKept DEF EndRefresh
<1>6. PageTypes'
  BY <1>1, <1>3, <1>4, <1>5 DEF PageTypes
<1>7. SocketOK' /\ OneSocket' /\ QuietAfterUnmount'
  BY <1>1, <1>4 DEF SocketOK, OneSocket, QuietAfterUnmount
<1> QED BY <1>5, <1>6, <1>7 DEF IInv

(* Nothing happens to the page.                                            *)
LEMMA StutterKeeps ==
    ASSUME IInv, UNCHANGED vars
    PROVE  IInv'
BY DEF vars, serverVars, netVars, client, page, fetching, connection, IInv, PageTypes,
       FetchOK, Outstanding, SocketOK, OneSocket, QuietAfterUnmount

(* Every step keeps the invariant of the page.                             *)
LEMMA NextIInv == IInv /\ [Next]_vars => IInv'
BY RealtimeKeeps, MountKeeps, UnmountKeeps, ReconnectKeeps, CallbacksKeep, RefreshKeeps,
   ListStoresKeeps, EndRefreshKeeps, StutterKeeps DEF Next, Browser

-----------------------------------------------------------------------------
(* What a socket is told.  Waits and Telling speak of one socket at a time *)
(* here, so that a step is seen by what it does to each.                   *)
LEMMA NumbersOfTelling ==
    ASSUME TellingInv, NEW s \in Sockets
    PROVE  /\ version \in Nat /\ mail[s] \in Nat
           /\ IsFiniteSet(Telling(s)) /\ Cardinality(Telling(s)) \in Nat
           /\ mail[s] + Cardinality(Telling(s)) <= version
BY RealtimeAssumption, FS_CardinalityType DEF TellingInv, ServerTypes, ToldOnce, Versions

(* A step that sends nothing, and gives no handler anything to send, keeps *)
(* what is told.                                                           *)
LEMMA FewerTold ==
    ASSUME TellingInv, version' \in Nat, version' >= version,
           \A s \in Sockets : /\ mail'[s] \in Nat /\ mail'[s] <= mail[s]
                              /\ Telling(s)' \subseteq Telling(s)
    PROVE  ToldOnce'
<1> SUFFICES ASSUME NEW s \in Sockets
             PROVE  IsFiniteSet(Telling(s)') /\ mail'[s] + Cardinality(Telling(s)') <= version'
  BY DEF ToldOnce
<1>1. IsFiniteSet(Telling(s)') /\ Cardinality(Telling(s)') <= Cardinality(Telling(s))
  BY NumbersOfTelling, FS_Subset
<1> QED BY <1>1, NumbersOfTelling, FS_CardinalityType

(* A handler takes its next state, and no other one changes.               *)
LEMMA StepTyped ==
    ASSUME TellingInv, NEW b \in Writers, NEW state \in WriterStates, Step(b, state)
    PROVE  /\ writer' \in [Writers -> WriterStates] /\ writer'[b] = state
           /\ \A c \in Writers \ {b} : writer'[c] = writer[c]
BY DEF TellingInv, ServerTypes, Step

(* The states of a handler that broadcasts nothing yet.                    *)
LEMMA RestingTyped ==
    /\ Resting \in WriterStates
    /\ Resting.at = "idle" /\ Resting.todo = <<>>
    /\ [at |-> "committed", todo |-> <<>>, stale |-> {}] \in WriterStates
    /\ [Resting EXCEPT !.at = "committed"] = [at |-> "committed", todo |-> <<>>, stale |-> {}]
<1>1. \A at \in {"idle", "committed"}, todo \in Seq(Sockets), stale \in SUBSET Sockets :
          [at |-> at, todo |-> todo, stale |-> stale] \in WriterStates
  BY DEF WriterStates
<1>2. <<>> \in Seq(Sockets) /\ {} \in SUBSET Sockets
  OBVIOUS
<1>3. \A at \in {"idle", "committed"} : [at |-> at, todo |-> <<>>, stale |-> {}] \in WriterStates
  BY <1>1, <1>2, Zenon
<1>4. Resting.at = "idle" /\ Resting.todo = <<>>
  BY DEF Resting
<1>5. [Resting EXCEPT !.at = "committed"] = [at |-> "committed", todo |-> <<>>, stale |-> {}]
  <2>1. ASSUME NEW todo, NEW stale
        PROVE  [[at |-> "idle", todo |-> todo, stale |-> stale] EXCEPT !.at = "committed"]
               = [at |-> "committed", todo |-> todo, stale |-> stale]
    OBVIOUS
  <2> QED BY <2>1, Zenon DEF Resting
<1> QED BY <1>3, <1>4, <1>5 DEF Resting

(* All steps of the page, and those of the network: the page takes its     *)
(* mail, and a link that is cut loses it.                                  *)
LEMMA MailTaken ==
    ASSUME TellingInv, UNCHANGED serverVars,
           mail' \in [Sockets -> Nat], \A s \in Sockets : mail'[s] <= mail[s],
           error' \in BOOLEAN /\ wsConnected' \in BOOLEAN
    PROVE  TellingInv'
<1>1. ServerTypes' /\ NoneTwice'
  BY DEF TellingInv, ServerTypes, NoneTwice, serverVars
<1>2. \A s \in Sockets : Telling(s)' = Telling(s)
  BY DEF Telling, Waits, serverVars
<1>3. version' \in Nat /\ version' >= version
  BY RealtimeAssumption DEF TellingInv, ServerTypes, Versions, serverVars
<1>4. ToldOnce'
  BY <1>2, <1>3, FewerTold
<1> QED BY <1>1, <1>4 DEF TellingInv

(* A link that is cut loses messages, and adds none.                       *)
LEMMA SeverMail ==
    ASSUME TellingInv, NEW S, Sever(S)
    PROVE  mail' \in [Sockets -> Nat] /\ \A s \in Sockets : mail'[s] <= mail[s]
BY DEF TellingInv, ServerTypes, Sever

(* A handler that commits is to tell every socket once more, of one more   *)
(* change.                                                                 *)
LEMMA ChangeTelling ==
    ASSUME TellingInv, NEW b \in Writers, Change(b), UNCHANGED client
    PROVE  TellingInv'
<1>1. writer'[b] = [at |-> "committed", todo |-> <<>>, stale |-> {}]
      /\ writer' \in [Writers -> WriterStates]
      /\ \A c \in Writers \ {b} : writer'[c] = writer[c]
  BY StepTyped, RestingTyped DEF Change
<1>2. version' = version + 1 /\ version \in Nat /\ version' \in Versions
      /\ UNCHANGED <<connections, handler, mail, error, wsConnected>>
  BY RealtimeAssumption DEF Change, netVars, client, page, connection, TellingInv, ServerTypes, Versions
<1>3. ServerTypes'
  BY <1>1, <1>2 DEF TellingInv, ServerTypes
<1>4. NoneTwice'
  BY <1>1 DEF TellingInv, NoneTwice
<1>5. ASSUME NEW s \in Sockets
      PROVE  IsFiniteSet(Telling(s)') /\ mail'[s] + Cardinality(Telling(s)') <= version'
  <2>1. Telling(s)' \subseteq Telling(s) \cup {b}
    BY <1>1 DEF Telling, Waits
  <2>2. /\ IsFiniteSet(Telling(s) \cup {b})
        /\ Cardinality(Telling(s) \cup {b}) <= Cardinality(Telling(s)) + 1
    <3> DEFINE T == Telling(s)
    <3>1. IsFiniteSet(T) /\ Cardinality(T) \in Nat
      BY NumbersOfTelling
    <3> HIDE DEF T
    <3>2. /\ IsFiniteSet(T \cup {b})
          /\ Cardinality(T \cup {b}) = IF b \in T THEN Cardinality(T) ELSE Cardinality(T) + 1
      BY <3>1, FS_AddElement
    <3>3. Cardinality(T \cup {b}) <= Cardinality(T) + 1
      BY <3>1, <3>2
    <3> QED BY <3>2, <3>3 DEF T
  <2>3. /\ IsFiniteSet(Telling(s)') /\ Cardinality(Telling(s)') \in Nat
        /\ Cardinality(Telling(s) \cup {b}) \in Nat
        /\ Cardinality(Telling(s)') <= Cardinality(Telling(s) \cup {b})
    BY <2>1, <2>2, FS_Subset, FS_CardinalityType
  <2> QED BY <1>2, <2>2, <2>3, NumbersOfTelling
<1>6. ToldOnce'
  BY <1>5 DEF ToldOnce
<1> QED BY <1>3, <1>4, <1>6 DEF TellingInv

(* The snapshot of the connections names each of them once.                *)
LEMMA SnapshotTelling ==
    ASSUME TellingInv, NEW b \in Writers, Snapshot(b), UNCHANGED client
    PROVE  TellingInv'
<1>1. PICK order \in Listings(connections) :
          writer' = [writer EXCEPT ![b] = [at |-> "sending", todo |-> order, stale |-> {}]]
  BY DEF Snapshot, Step, Resting
<1>2. order \in Seq(Sockets) /\ \A i, j \in DOMAIN order : order[i] = order[j] => i = j
  <2>1. connections \subseteq Sockets
    BY DEF TellingInv, ServerTypes
  <2>2. Cardinality(connections) \in Nat
    BY <2>1, RealtimeAssumption, FS_Subset, FS_CardinalityType
  <2>3. order \in [1 .. Cardinality(connections) -> Sockets]
    BY <2>1 DEF Listings
  <2> QED BY <2>2, <2>3 DEF Listings
<1>3. /\ writer'[b] = [at |-> "sending", todo |-> order, stale |-> {}]
      /\ writer' \in [Writers -> WriterStates]
      /\ \A c \in Writers \ {b} : writer'[c] = writer[c]
  BY <1>1, <1>2 DEF TellingInv, ServerTypes, WriterStates
<1>4. UNCHANGED <<version, connections, handler, mail, error, wsConnected>>
  BY DEF Snapshot, netVars, client, page, connection
<1>5. ServerTypes'
  BY <1>3, <1>4 DEF TellingInv, ServerTypes
<1>6. NoneTwice'
  BY <1>2, <1>3 DEF TellingInv, NoneTwice
<1>7. writer[b].at = "committed"
  BY DEF Snapshot
<1>8. \A s \in Sockets : Telling(s)' \subseteq Telling(s)
  BY <1>3, <1>7 DEF Telling, Waits
<1>9. ToldOnce'
  BY <1>4, <1>8, NumbersOfTelling, FewerTold DEF TellingInv, ServerTypes, Versions
<1> QED BY <1>5, <1>6, <1>9 DEF TellingInv

(* A message that is sent is one less to send.                             *)
LEMMA SendTelling ==
    ASSUME TellingInv, NEW b \in Writers, NEW s \in Sockets, Send(b, s), UNCHANGED client
    PROVE  TellingInv'
<1> DEFINE q == writer[b].todo
<1>1. /\ q \in Seq(Sockets) /\ q # <<>> /\ s = q[1] /\ writer[b].at = "sending"
      /\ \A i, j \in DOMAIN q : q[i] = q[j] => i = j
  BY DEF Send, Sending, TellingInv, ServerTypes, NoneTwice, WriterStates
<1>2. /\ Tail(q) \in Seq(Sockets) /\ 1 \in DOMAIN q
      /\ \A i \in DOMAIN Tail(q) : i \in Nat /\ i >= 1 /\ i + 1 \in DOMAIN q /\ Tail(q)[i] = q[i + 1]
  BY <1>1
<1>3. /\ writer'[b].at = "sending" /\ writer'[b].todo = Tail(q)
      /\ writer' \in [Writers -> WriterStates]
      /\ \A c \in Writers \ {b} : writer'[c] = writer[c]
  <2> DEFINE state == [writer[b] EXCEPT !.todo = Tail(@),
                                        !.stale = IF link[s] = "open" THEN @ ELSE @ \cup {s}]
  <2>1. state \in WriterStates /\ state.at = "sending" /\ state.todo = Tail(q)
    <3>1. writer[b] \in WriterStates
      BY DEF TellingInv, ServerTypes
    <3> QED BY <1>1, <1>2, <3>1 DEF WriterStates
  <2>2. Step(b, state)
    BY DEF Send
  <2> HIDE DEF state
  <2> QED BY <2>1, <2>2, StepTyped
<1>4. /\ UNCHANGED <<version, connections, handler, error, wsConnected>>
      /\ mail' \in [Sockets -> Nat] /\ mail'[s] <= mail[s] + 1
      /\ \A u \in Sockets \ {s} : mail'[u] = mail[u]
  BY DEF Send, client, page, connection, TellingInv, ServerTypes
<1>5. ServerTypes'
  BY <1>3, <1>4 DEF TellingInv, ServerTypes
<1> HIDE DEF q
<1>6. NoneTwice'
  <2>1. \A i, j \in DOMAIN Tail(q) : Tail(q)[i] = Tail(q)[j] => i = j
    BY <1>1, <1>2
  <2> QED BY <1>3, <2>1 DEF TellingInv, NoneTwice
<1>7. ASSUME NEW u \in Sockets PROVE Telling(u)' \subseteq Telling(u) \ (IF u = s THEN {b} ELSE {})
  <2>1. ASSUME NEW i \in DOMAIN Tail(q) PROVE Tail(q)[i] # s /\ \E j \in DOMAIN q : q[j] = Tail(q)[i]
    BY <1>1, <1>2
  <2>2. ASSUME b \in Telling(u)' PROVE b \in Telling(u) /\ u # s
    BY <1>3, <2>1, <2>2 DEF Telling, Waits, q
  <2>3. ASSUME NEW c \in Writers \ {b}, c \in Telling(u)' PROVE c \in Telling(u)
    BY <1>3, <2>3 DEF Telling, Waits
  <2> QED BY <2>2, <2>3 DEF Telling
<1>8. b \in Telling(s)
  BY <1>1, <1>2 DEF Telling, Waits, q
<1>9. ASSUME NEW u \in Sockets
      PROVE  IsFiniteSet(Telling(u)') /\ mail'[u] + Cardinality(Telling(u)') <= version'
  <2>1. CASE u = s
    <3>1. /\ IsFiniteSet(Telling(s) \ {b})
          /\ Cardinality(Telling(s) \ {b}) = Cardinality(Telling(s)) - 1
      BY <1>8, NumbersOfTelling, FS_RemoveElement
    <3>2. /\ IsFiniteSet(Telling(s)') /\ Cardinality(Telling(s)') \in Nat
          /\ Cardinality(Telling(s)') <= Cardinality(Telling(s)) - 1
      BY <1>7, <3>1, FS_Subset, FS_CardinalityType
    <3>3. mail'[s] \in Nat
      BY <1>4
    <3> QED BY <1>4, <2>1, <3>2, <3>3, NumbersOfTelling
  <2>2. CASE u # s
    <3>1. Telling(u)' \subseteq Telling(u)
      BY <1>7, <2>2
    <3>2. /\ IsFiniteSet(Telling(u)') /\ Cardinality(Telling(u)') \in Nat
          /\ Cardinality(Telling(u)') <= Cardinality(Telling(u))
      BY <3>1, NumbersOfTelling, FS_Subset, FS_CardinalityType
    <3> QED BY <1>4, <2>2, <3>2, NumbersOfTelling
  <2> QED BY <2>1, <2>2
<1>10. ToldOnce'
  BY <1>9 DEF ToldOnce
<1> QED BY <1>5, <1>6, <1>10 DEF TellingInv

(* Handlers that rest tell nothing.                                        *)
LEMMA RestTelling ==
    ASSUME TellingInv, NEW W \in SUBSET Writers,
           writer' = [b \in Writers |-> IF b \in W THEN Resting ELSE writer[b]],
           connections' \subseteq Sockets,
           handler' \in [Sockets -> {"none", "accepted", "receiving"}],
           mail' \in [Sockets -> Nat], \A s \in Sockets : mail'[s] <= mail[s],
           UNCHANGED <<version, client>>
    PROVE  TellingInv'
<1>1. Resting \in WriterStates /\ Resting.at = "idle" /\ Resting.todo = <<>>
  BY RestingTyped
<1>2. ServerTypes'
  <2>1. writer' \in [Writers -> WriterStates]
    BY <1>1 DEF TellingInv, ServerTypes
  <2> QED BY <2>1 DEF TellingInv, ServerTypes, client, page, connection
<1>3. NoneTwice'
  BY <1>1 DEF TellingInv, NoneTwice
<1>4. \A s \in Sockets : Telling(s)' \subseteq Telling(s)
  BY <1>1 DEF Telling, Waits
<1>5. ToldOnce'
  BY <1>4, NumbersOfTelling, FewerTold DEF TellingInv, ServerTypes, Versions
<1> QED BY <1>2, <1>3, <1>5 DEF TellingInv

(* The page reads its mail; nothing else it does is told to the backend.   *)
LEMMA PageTelling ==
    ASSUME IInv, TellingInv,
           \/ Mount \/ Unmount \/ Poll \/ Browser
           \/ \E r \in Requests : ListStores(r) \/ Received(r) \/ FetchFails(r)
    PROVE  TellingInv'
<1>1. UNCHANGED serverVars
  BY DEF Mount, Unmount, Poll, Browser, RefreshTimerFires, OnOpen, OnMessage, OnClose, Reconnect,
         ListStores, Received, FetchFails, EndRefresh
<1>2. error' \in BOOLEAN /\ wsConnected' \in BOOLEAN
  <2>1. error' \in {TRUE, FALSE, error} /\ wsConnected' \in {TRUE, FALSE, wsConnected}
    BY DEF Mount, Unmount, Poll, Browser, RefreshTimerFires, OnOpen, OnMessage, OnClose, Reconnect,
           ListStores, Received, FetchFails, EndRefresh, page, connection
  <2> QED BY <2>1 DEF TellingInv, ServerTypes
<1>3. mail' \in [Sockets -> Nat] /\ \A s \in Sockets : mail'[s] <= mail[s]
  <2>1. mail \in [Sockets -> Nat]
    BY DEF TellingInv, ServerTypes
  <2>2. CASE OnMessage
    <3>1. readyState = "open" /\ mail[socket] > 0 /\ mail' = [mail EXCEPT ![socket] = @ - 1]
      BY <2>2 DEF OnMessage
    <3>2. socket \in Sockets
      BY <3>1 DEF IInv, PageTypes, SocketOK
    <3> QED BY <2>1, <3>1, <3>2
  <2>3. CASE Unmount
    BY <2>3, SeverMail DEF Unmount
  <2>4. CASE ~ OnMessage /\ ~ Unmount
    <3>1. UNCHANGED mail
      BY <2>4 DEF Mount, Dial, Poll, Browser, RefreshTimerFires, OnOpen, OnClose, Reconnect,
                  ListStores, Received, FetchFails, EndRefresh, netVars
    <3> QED BY <2>1, <3>1
  <2> QED BY <2>2, <2>3, <2>4
<1> QED BY <1>1, <1>2, <1>3, MailTaken

(* The steps of the backend and the network.                               *)
LEMMA RealtimeTelling ==
    ASSUME TellingInv, RealtimeNext, UNCHANGED client
    PROVE  TellingInv'
<1>1. error' \in BOOLEAN /\ wsConnected' \in BOOLEAN /\ mail \in [Sockets -> Nat]
  BY DEF TellingInv, ServerTypes, client, page, connection
<1>2. ASSUME NEW s \in Sockets, Cut(s) \/ Stall(s) \/ EndStall(s) PROVE TellingInv'
  <2>1. UNCHANGED serverVars /\ (UNCHANGED mail \/ Sever({s}))
    BY <1>2 DEF Cut, Stall, EndStall
  <2>2. CASE UNCHANGED mail
    BY <1>1, <2>1, <2>2, MailTaken
  <2>3. CASE Sever({s})
    BY <1>1, <2>1, <2>3, SeverMail, MailTaken
  <2> QED BY <2>1, <2>2, <2>3
<1>3. ASSUME NEW s \in Sockets, SocketStep(s) PROVE TellingInv'
  <2>1. /\ UNCHANGED <<version, writer, mail>> /\ connections' \subseteq connections \cup {s}
        /\ \E at \in {"accepted", "receiving", "none"} : handler' = [handler EXCEPT ![s] = at]
    BY <1>3 DEF SocketStep, Accept, Register, Disconnect, netVars
  <2>2. ServerTypes' /\ NoneTwice'
    BY <1>1, <2>1 DEF TellingInv, ServerTypes, NoneTwice
  <2>3. \A u \in Sockets : Telling(u)' = Telling(u)
    BY <2>1 DEF Telling, Waits
  <2>4. ToldOnce'
    BY <1>1, <2>1, <2>3, NumbersOfTelling, FewerTold DEF TellingInv, ServerTypes, Versions
  <2> QED BY <2>2, <2>4 DEF TellingInv
<1>4. ASSUME NEW b \in Writers, Change(b) \/ Snapshot(b) \/ \E s \in Sockets : Send(b, s)
      PROVE  TellingInv'
  BY <1>4, ChangeTelling, SnapshotTelling, SendTelling
<1>5. ASSUME NEW b \in Writers, Sweep(b) PROVE TellingInv'
  <2>1. writer' = [c \in Writers |-> IF c \in {b} THEN Resting ELSE writer[c]]
    BY <1>5 DEF Sweep, Step, TellingInv, ServerTypes
  <2>2. connections' \subseteq Sockets /\ UNCHANGED <<version, handler, mail>>
        /\ handler \in [Sockets -> {"none", "accepted", "receiving"}]
    BY <1>5 DEF Sweep, netVars, TellingInv, ServerTypes
  <2>3. handler' \in [Sockets -> {"none", "accepted", "receiving"}]
        /\ mail' \in [Sockets -> Nat] /\ \A s \in Sockets : mail'[s] <= mail[s]
    BY <1>1, <2>2
  <2>4. {b} \in SUBSET Writers
    OBVIOUS
  <2> QED BY <2>1, <2>2, <2>3, <2>4, RestTelling
<1>6. CASE BackendRestart
  <2>1. /\ writer' = [b \in Writers |-> IF b \in Writers THEN Resting ELSE writer[b]]
        /\ connections' = {} /\ handler' = [s \in Sockets |-> "none"] /\ UNCHANGED version
    BY <1>6 DEF BackendRestart
  <2>2. mail' \in [Sockets -> Nat] /\ \A s \in Sockets : mail'[s] <= mail[s]
    BY <1>6, SeverMail DEF BackendRestart
  <2> QED BY <2>1, <2>2, RestTelling
<1> QED BY <1>2, <1>3, <1>4, <1>5, <1>6 DEF RealtimeNext, WriterStep

(* At first nobody has anything to tell.                                   *)
LEMMA InitTelling == Init => TellingInv
<1> SUFFICES ASSUME Init PROVE TellingInv
  OBVIOUS
<1>1. ServerTypes
  <2>1. writer \in [Writers -> WriterStates]
    BY RestingTyped DEF Init, RealtimeInit
  <2>2. version \in Versions
    BY RealtimeAssumption DEF Init, RealtimeInit, Versions
  <2> QED BY <2>1, <2>2 DEF Init, RealtimeInit, ServerTypes
<1>2. NoneTwice
  BY DEF Init, RealtimeInit, NoneTwice, Resting
<1>3. ASSUME NEW s \in Sockets PROVE Telling(s) = {}
  BY DEF Init, RealtimeInit, Telling, Waits, Resting
<1>4. ToldOnce
  BY <1>3, FS_EmptySet DEF Init, RealtimeInit, ToldOnce
<1> QED BY <1>1, <1>2, <1>4 DEF TellingInv

-----------------------------------------------------------------------------
(* Every step of the page, the network and the backend keeps the           *)
(* inductive invariant.                                                    *)
THEOREM PageInvariant == Spec => []IInv
BY InitIInv, NextIInv, PTL DEF Spec

(* Refreshes never overlap: refreshInFlight is true exactly while one      *)
(* request is outstanding, however timers and messages ask for more.       *)
THEOREM OneRequest == Spec => []SingleFlight
<1>1. IInv => SingleFlight
  BY FS_Singleton, FS_EmptySet DEF IInv, FetchOK, SingleFlight
<1> QED BY PageInvariant, <1>1, PTL

(* An unmounted page has no timer and no socket, and gets none.            *)
THEOREM Quiet == Spec => []QuietAfterUnmount
<1>1. IInv => QuietAfterUnmount
  BY DEF IInv
<1> QED BY PageInvariant, <1>1, PTL

(* A mounted page has one socket or a timer that will dial one.            *)
THEOREM SingleSocket == Spec => []OneSocket
<1>1. IInv => OneSocket
  BY DEF IInv
<1> QED BY PageInvariant, <1>1, PTL

(* What the page shows never goes back: because requests do not overlap,   *)
(* no answer overtakes a later one.                                        *)
THEOREM Monotone == Spec => NeverBackwards
<1>1. IInv /\ [Next]_vars => [shown' >= shown]_shown
  <2> SUFFICES ASSUME IInv, [Next]_vars, shown' # shown PROVE shown' >= shown
    OBVIOUS
  <2>1. PageTypes /\ FetchOK
    BY DEF IInv
  <2>2. PICK r \in Requests : Received(r)
    BY DEF Next, Browser, Mount, Unmount, Poll, RefreshTimerFires, OnOpen, OnMessage,
       OnClose, Reconnect, ListStores, FetchFails, vars, client, page
  <2> QED BY <2>1, <2>2, ReceivedIsNewer DEF PageTypes
<1> QED BY PageInvariant, <1>1, PTL DEF Spec, NeverBackwards

(* A page is told at most once of each change, whatever handlers broadcast *)
(* at the same time and whatever sockets are cut, stalled or used again.   *)
THEOREM TellsOnce == Spec => []TellingInv
<1>1. Init => TellingInv
  BY InitTelling
<1>2. IInv /\ TellingInv /\ [Next]_vars => TellingInv'
  <2> SUFFICES ASSUME IInv, TellingInv, [Next]_vars PROVE TellingInv'
    OBVIOUS
  <2>1. CASE UNCHANGED vars
    <3>1. UNCHANGED <<serverVars, mail, error, wsConnected>>
      BY <2>1 DEF vars, netVars, client, page, connection
    <3> QED BY <3>1, MailTaken DEF TellingInv, ServerTypes
  <2> QED BY <2>1, RealtimeTelling, PageTelling DEF Next
<1> QED BY <1>1, <1>2, PageInvariant, PTL DEF Spec

(* Every variable has its type: what is shown, read or not yet received is *)
(* never more than the changes.                                            *)
THEOREM DashboardTypes == Spec => []TypeOK
<1>1. IInv /\ TellingInv => TypeOK
  <2> SUFFICES ASSUME IInv, TellingInv PROVE TypeOK
    OBVIOUS
  <2>1. PageTypes /\ FetchOK /\ ServerTypes
    BY DEF IInv, TellingInv
  <2>2. MaxChanges \in Nat /\ version \in Nat /\ version <= MaxChanges /\ shown \in Nat /\ shown <= version
    BY <2>1, RealtimeAssumption DEF PageTypes, ServerTypes, Versions
  <2>3. mail \in [Sockets -> Versions]
    <3>1. ASSUME NEW s \in Sockets PROVE mail[s] \in Versions
      BY <2>2, NumbersOfTelling DEF Versions
    <3> QED BY <2>1, <3>1 DEF ServerTypes
  <2>4. request \in [Requests -> Versions \cup {Free, Asked}]
    <3>1. ASSUME NEW r \in Requests PROVE request[r] \in Versions \cup {Free, Asked}
      <4>1. CASE request[r] = Free
        BY <4>1
      <4>2. CASE request[r] # Free
        <5>1. request[r] # Asked => request[r] \in shown .. version
          BY <2>1, <4>2 DEF FetchOK, Outstanding
        <5> QED BY <2>2, <5>1 DEF Versions
      <4> QED BY <4>1, <4>2
    <3> QED BY <2>1, <3>1 DEF PageTypes
  <2>5. shown \in Versions
    BY <2>2 DEF Versions
  <2> QED BY <2>1, <2>3, <2>4, <2>5 DEF TypeOK, PageTypes, ServerTypes
<1> QED BY <1>1, PageInvariant, TellsOnce, PTL
=============================================================================
