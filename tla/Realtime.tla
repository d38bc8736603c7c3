------------------------------ MODULE Realtime ------------------------------
(***************************************************************************)
(* The backend's side of the dashboards' sockets: ConnectionManager of     *)
(* backend/app/realtime.py, the socket handler of main.py, and the         *)
(* handlers that commit a change and broadcast it.                         *)
(* The manager's asyncio.Lock protects sections without an await: each is  *)
(* one action.                                                             *)
(***************************************************************************)
EXTENDS Integers, FiniteSets, Sequences

CONSTANTS
    Sockets,     \* WebSocket objects; one that is forgotten is used again
    Writers,     \* handlers that commit changes at the same time
    MaxChanges   \* bound on the changes that are committed

ASSUME RealtimeAssumption == MaxChanges \in Nat /\ IsFiniteSet(Sockets)

VARIABLES
    version,      \* how many changes are committed
    writer,       \* the broadcast each handler is in
    connections,  \* ConnectionManager._connections
    handler,      \* dashboard_socket, per socket
    link,         \* the connection between the two ends of a socket; "stalled":
                  \* its buffers are full because the page does not read
    mail          \* messages sent and not yet received

serverVars == <<version, writer, connections, handler>>
netVars == <<link, mail>>

Resting == [at |-> "idle", todo |-> <<>>, stale |-> {}]

RealtimeInit ==
    /\ version = 0
    /\ writer = [b \in Writers |-> Resting]
    /\ connections = {}
    /\ handler = [s \in Sockets |-> "none"]
    /\ link = [s \in Sockets |-> "cut"]
    /\ mail = [s \in Sockets |-> 0]

(***************************************************************************)
(* connect, and the loop of dashboard_socket                               *)
(***************************************************************************)
Accept(s) ==
    /\ link[s] = "dialled" /\ handler[s] = "none"
    /\ link' = [link EXCEPT ![s] = "open"]
    /\ handler' = [handler EXCEPT ![s] = "accepted"]
    /\ UNCHANGED <<version, writer, connections, mail>>

Register(s) ==
    /\ handler[s] = "accepted"
    /\ handler' = [handler EXCEPT ![s] = "receiving"]
    /\ connections' = connections \cup {s}
    /\ UNCHANGED <<version, writer, netVars>>

(* receive_text raises WebSocketDisconnect.                                *)
Disconnect(s) ==
    /\ handler[s] = "receiving" /\ link[s] = "cut"
    /\ handler' = [handler EXCEPT ![s] = "none"]
    /\ connections' = connections \ {s}
    /\ UNCHANGED <<version, writer, netVars>>

(***************************************************************************)
(* A handler that commits a change, then broadcasts it                     *)
(***************************************************************************)
Step(b, state) == writer' = [writer EXCEPT ![b] = state]

Change(b) ==
    /\ writer[b].at = "idle" /\ version < MaxChanges
    /\ version' = version + 1
    /\ Step(b, [Resting EXCEPT !.at = "committed"])
    /\ UNCHANGED <<connections, handler, netVars>>

(* The elements of S in every order: a Python set promises none.           *)
Listings(S) ==
    {q \in [1 .. Cardinality(S) -> S] : \A i, j \in DOMAIN q : q[i] = q[j] => i = j}

Snapshot(b) ==
    /\ writer[b].at = "committed"
    /\ \E order \in Listings(connections) :
          Step(b, [Resting EXCEPT !.at = "sending", !.todo = order])
    /\ UNCHANGED <<version, connections, handler, netVars>>

Sending(b, s) ==
    /\ writer[b].at = "sending" /\ writer[b].todo # <<>>
    /\ s = Head(writer[b].todo) /\ link[s] # "stalled"

(* \* Fault marks a definition that no action uses: it shows that a        *)
(* property notices when the definition below it is wrong that way.        *)
\* Fault: the first socket that fails ends the broadcast.
SendOrStop(b, s) ==
    /\ Sending(b, s)
    /\ mail' = IF link[s] = "open" THEN [mail EXCEPT ![s] = @ + 1] ELSE mail
    /\ Step(b, IF link[s] = "open" THEN [writer[b] EXCEPT !.todo = Tail(@)] ELSE Resting)
    /\ UNCHANGED <<version, connections, handler, link>>

\* Fault: a socket that is listed twice is told twice.
SendTwice(b, s) ==
    /\ Sending(b, s)
    /\ mail' = IF link[s] = "open" THEN [mail EXCEPT ![s] = @ + 2] ELSE mail
    /\ Step(b, [writer[b] EXCEPT !.todo = Tail(@),
                                 !.stale = IF link[s] = "open" THEN @ ELSE @ \cup {s}])
    /\ UNCHANGED <<version, connections, handler, link>>

\* Fault: a send that fails is tried again.
SendUntilTaken(b, s) ==
    /\ Sending(b, s)
    /\ mail' = IF link[s] = "open" THEN [mail EXCEPT ![s] = @ + 1] ELSE mail
    /\ Step(b, [writer[b] EXCEPT !.todo = IF link[s] = "open" THEN Tail(@)
                                          ELSE Append(Tail(@), s)])
    /\ UNCHANGED <<version, connections, handler, link>>

(* The sockets are served one after the other: one that is stalled keeps   *)
(* the handler and all sockets behind it waiting.                          *)
Send(b, s) ==
    /\ Sending(b, s)
    /\ mail' = IF link[s] = "open" THEN [mail EXCEPT ![s] = @ + 1] ELSE mail
    /\ Step(b, [writer[b] EXCEPT !.todo = Tail(@),
                                 !.stale = IF link[s] = "open" THEN @ ELSE @ \cup {s}])
    /\ UNCHANGED <<version, connections, handler, link>>

(* The stale connections are dropped and the handler answers.              *)
Sweep(b) ==
    /\ writer[b].at = "sending" /\ writer[b].todo = <<>>
    /\ connections' = connections \ writer[b].stale
    /\ Step(b, Resting)
    /\ UNCHANGED <<version, handler, netVars>>

(***************************************************************************)
(* Failures                                                                *)
(***************************************************************************)
Sever(S) ==
    /\ link' = [s \in Sockets |-> IF s \in S THEN "cut" ELSE link[s]]
    /\ mail' = [s \in Sockets |-> IF s \in S THEN 0 ELSE mail[s]]

Cut(s) ==
    /\ link[s] # "cut"
    /\ Sever({s})
    /\ UNCHANGED serverVars

Stall(s) ==
    /\ link[s] = "open"
    /\ link' = [link EXCEPT ![s] = "stalled"]
    /\ UNCHANGED <<serverVars, mail>>

(* The page reads again, or the server's keepalive ping gets no answer and *)
(* ends the connection.                                                    *)
EndStall(s) ==
    /\ link[s] = "stalled"
    /\ \/ link' = [link EXCEPT ![s] = "open"] /\ UNCHANGED mail
       \/ Sever({s})
    /\ UNCHANGED serverVars

(* The backend dies or is stopped, and is started again by hand.           *)
BackendRestart ==
    /\ Sever(Sockets)
    /\ writer' = [b \in Writers |-> Resting]
    /\ connections' = {}
    /\ handler' = [s \in Sockets |-> "none"]
    /\ UNCHANGED version

(* The backend holds no reference to a socket.                             *)
Forgotten(s) ==
    /\ link[s] = "cut" /\ handler[s] = "none" /\ s \notin connections
    /\ \A b \in Writers : s \notin writer[b].stale
    /\ \A b \in Writers : \A i \in DOMAIN writer[b].todo : s # writer[b].todo[i]

SocketStep(s) == Accept(s) \/ Register(s) \/ Disconnect(s)
WriterStep(b) == Snapshot(b) \/ Sweep(b) \/ \E s \in Sockets : Send(b, s)

RealtimeNext ==
    \/ \E s \in Sockets : SocketStep(s) \/ Cut(s) \/ Stall(s) \/ EndStall(s)
    \/ \E b \in Writers : Change(b) \/ WriterStep(b)
    \/ BackendRestart
=============================================================================
