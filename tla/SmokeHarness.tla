---------------------------- MODULE SmokeHarness ----------------------------
(***************************************************************************)
(* scripts/verify_simulator_smoke.py: the harness starts the simulators    *)
(* under a run tag, looks for their traffic, then stops them and the       *)
(* backend, deletes the rows of the run, restores the stores and starts    *)
(* the backend again.  Every docker and psql command may fail.             *)
(*                                                                         *)
(* The model begins after snapshot_store_state.  Per store, one sale and   *)
(* one refund stand for the events of the run; a contact is a heartbeat,   *)
(* or an event of another run.                                             *)
(***************************************************************************)
EXTENDS FiniteSets

CONSTANTS
    Services,   \* the simulators, one per store
    Backend

ASSUME ServicesAssumption == Services # {} /\ Backend \notin Services

VARIABLES
    pc,             \* where the harness is
    failed,         \* it has recorded an error
    restartFailed,  \* one of them is "backend restart failed"
    running,        \* the containers that are not stopped
    tagged,         \* the simulators that were started by the harness
    request,        \* what the backend is asked by each simulator
    committing,     \* the stores with a handler whose COMMIT is sent
    rows,           \* the events of the run in pos_events
    moved,          \* the stores whose last_seen_at is not the snapshot's
    doomed          \* the rows deleted in the open cleanup transaction

harness == <<pc, failed, restartFailed>>
traffic == <<request, committing>>
database == <<rows, moved, doomed>>
vars == <<harness, running, tagged, traffic, database>>

NoRows == [s \in Services |-> {}]

Init ==
    /\ pc = "up" /\ failed = FALSE /\ restartFailed = FALSE
    /\ \E earlier \in SUBSET Services : running = earlier \cup {Backend}
    /\ tagged = {}
    /\ request = [s \in Services |-> "none"] /\ committing = {}
    /\ rows = NoRows /\ moved = {} /\ doomed = NoRows

(***************************************************************************)
(* Producers, handlers and PostgreSQL                                      *)
(***************************************************************************)
Events(s) ==
    IF s \notin tagged THEN {}
    ELSE (IF "SALE" \in rows[s] THEN {"REFUND"} ELSE {"SALE"}) \ rows[s]

Post(s) ==
    /\ {s, Backend} \subseteq running /\ request[s] = "none"
    /\ \E r \in Events(s) \cup {"contact"} : request' = [request EXCEPT ![s] = r]
    /\ UNCHANGED <<harness, running, tagged, committing, database>>

(* The transaction holds the row lock of its store, and of its sale.       *)
SendCommit(s) ==
    /\ Backend \in running /\ request[s] # "none" /\ s \notin committing
    /\ committing' = committing \cup {s}
    /\ UNCHANGED <<harness, running, tagged, request, database>>

EndRequest(s) ==
    /\ s \in committing
    /\ committing' = committing \ {s}
    /\ request' = [request EXCEPT ![s] = "none"]
    /\ UNCHANGED <<harness, running, tagged, doomed>>

(* PostgreSQL ends what was sent to it, also after the backend has gone.   *)
RunCommit(s) ==
    /\ EndRequest(s)
    /\ rows' = [rows EXCEPT ![s] = @ \cup ({request[s]} \ {"contact"})]
    /\ moved' = moved \cup {s}

Abort(s) == EndRequest(s) /\ UNCHANGED <<rows, moved>>

Lost == [s \in Services |-> IF s \in committing THEN request[s] ELSE "none"]

(* The backend dies and is started again by hand: it has no restart policy. *)
(* One that stays dead is one that takes no more steps.                    *)
BackendDies ==
    /\ Backend \in running
    /\ request' = Lost
    /\ UNCHANGED <<harness, running, tagged, committing, database>>

(***************************************************************************)
(* run_smoke                                                               *)
(***************************************************************************)
Goto(from, to) == pc = from /\ pc' = to

Up ==
    /\ Goto("up", "observe")
    /\ running' = running \cup Services /\ tagged' = Services
    /\ UNCHANGED <<failed, restartFailed, traffic, database>>

(* Some containers are recreated, some stopped, some left as they were.    *)
UpFails ==
    /\ Goto("up", "stopSimulators")
    /\ failed' = TRUE
    /\ \E on, off \in SUBSET Services :
          /\ on \cap off = {}
          /\ running' = (running \cup on) \ off /\ tagged' = on
    /\ UNCHANGED <<restartFailed, traffic, database>>

(* satisfies_contract                                                      *)
Evidence ==
    /\ \A s \in Services : "SALE" \in rows[s]
    /\ \E s \in Services : "REFUND" \in rows[s]

Observe ==
    /\ Evidence
    /\ Goto("observe", "stopSimulators")
    /\ UNCHANGED <<failed, restartFailed, running, tagged, traffic, database>>

Fail(from, to) ==
    /\ Goto(from, to)
    /\ failed' = TRUE
    /\ UNCHANGED restartFailed

(* The evidence is not complete at the deadline, or a command fails.       *)
ObserveFails ==
    /\ Fail("observe", "stopSimulators")
    /\ UNCHANGED <<running, tagged, traffic, database>>

(***************************************************************************)
(* _stop_services                                                          *)
(***************************************************************************)
(* \* Fault marks a definition that no action uses: it shows that a        *)
(* property notices when the definition below it is wrong that way.        *)
\* Fault: the exit code of docker compose is not looked at.
ListedOnly(left, ok, listed) == listed = {}

(* Confirmed by the exit code and by the containers ps lists.              *)
Confirmed(left, ok, listed) == ok /\ listed = {}

(* docker compose stop or kill leaves some containers.  A container that   *)
(* is restarting is not listed as running; exit code 0 means that none is. *)
(* The harness gives up when docker compose ps fails.                      *)
StopServices(services, from, stopped, otherwise) ==
    \E left \in SUBSET (running \cap services), ok \in BOOLEAN :
    \E listed \in SUBSET left :
        /\ ok => listed = left
        /\ running' = running \ (services \ left)
        /\ request' = IF Backend \in running' THEN request ELSE Lost
        /\ \E to \in {IF Confirmed(left, ok, listed) THEN stopped ELSE otherwise, "giveUp"} :
              Goto(from, to)
        /\ UNCHANGED <<failed, restartFailed, tagged, committing, database>>

StopSimulators == StopServices(Services, "stopSimulators", "stopBackend", "killSimulators")

\* Fault: the result of docker compose kill is not looked at.
KillAnyway == StopServices(Services, "killSimulators", "stopBackend", "stopBackend")

KillSimulators == StopServices(Services, "killSimulators", "stopBackend", "giveUp")

StopBackend == StopServices({Backend}, "stopBackend", "deleteRefunds", "killBackend")
KillBackend == StopServices({Backend}, "killBackend", "deleteRefunds", "giveUp")

(* VerificationError: nothing is cleaned up, and nothing started again.    *)
GiveUp ==
    /\ Fail("giveUp", "done")
    /\ UNCHANGED <<running, tagged, traffic, database>>

(***************************************************************************)
(* cleanup_verification_data: one transaction, then the check of it        *)
(***************************************************************************)
Cleaning == {"deleteRefunds", "deleteSales", "restore"}

DeleteRefunds ==
    /\ Goto("deleteRefunds", "deleteSales")
    /\ doomed' = [s \in Services |-> rows[s] \cap {"REFUND"}]
    /\ UNCHANGED <<failed, restartFailed, running, tagged, traffic, rows, moved>>

(* Waits for refunds that hold the row of their sale.                      *)
Referenced == \E s \in Services : "SALE" \in rows[s] /\ "REFUND" \in rows[s] \ doomed[s]

DeleteSales ==
    /\ Goto("deleteSales", "restore")
    /\ \A s \in committing : request[s] # "REFUND"
    /\ ~ Referenced
    /\ doomed' = [s \in Services |-> rows[s]]
    /\ UNCHANGED <<failed, restartFailed, running, tagged, traffic, rows, moved>>

(* UPDATE of every store in the snapshot waits for the handlers that hold  *)
(* one of them; then COMMIT.                                               *)
Restore ==
    /\ Goto("restore", "verify")
    /\ committing = {}
    /\ rows' = [s \in Services |-> rows[s] \ doomed[s]]
    /\ moved' = {} /\ doomed' = NoRows
    /\ UNCHANGED <<failed, restartFailed, running, tagged, traffic>>

\* Fault: the statements are not in one transaction.
AbandonCleanup(from) ==
    /\ Fail(from, "startBackend")
    /\ UNCHANGED <<running, tagged, traffic, database>>

\* Fault: the transaction is tried again until it succeeds.
RetryCleanup(from) ==
    /\ Fail(from, "deleteRefunds")
    /\ doomed' = NoRows
    /\ UNCHANGED <<running, tagged, traffic, rows, moved>>

RollbackCleanup(from) ==
    /\ Fail(from, "startBackend")
    /\ doomed' = NoRows
    /\ UNCHANGED <<running, tagged, traffic, rows, moved>>

(* The foreign key refuses to delete a sale whose refund is left.          *)
SaleReferenced ==
    /\ Referenced /\ \A s \in committing : request[s] # "REFUND"
    /\ RollbackCleanup("deleteSales")

CleanupFails == \E from \in Cleaning : RollbackCleanup(from)

Clean == rows = NoRows /\ moved = {}

Verify ==
    /\ Clean
    /\ Goto("verify", "startBackend")
    /\ UNCHANGED <<failed, restartFailed, running, tagged, traffic, database>>

(* Rows or mismatches are found, or psql fails.                            *)
VerifyFails ==
    /\ Fail("verify", "startBackend")
    /\ UNCHANGED <<running, tagged, traffic, database>>

(***************************************************************************)
(* start_backend and the last part of finalize_verification_run            *)
(***************************************************************************)
StartBackend ==
    /\ Goto("startBackend", "recheck")
    /\ running' = running \cup {Backend}
    /\ UNCHANGED <<failed, restartFailed, tagged, traffic, database>>

(* It is not started, or not ready within 30 seconds.                      *)
StartFails ==
    /\ Goto("startBackend", "done")
    /\ failed' = TRUE /\ restartFailed' = TRUE
    /\ running' \in {running, running \cup {Backend}}
    /\ UNCHANGED <<tagged, traffic, database>>

(* ps may not list a simulator that is restarting.                         *)
Recheck ==
    /\ Clean
    /\ Goto("recheck", "done")
    /\ UNCHANGED <<failed, restartFailed, running, tagged, traffic, database>>

RecheckFails ==
    /\ Fail("recheck", "done")
    /\ UNCHANGED <<running, tagged, traffic, database>>

Progress ==
    \/ Up \/ Observe \/ ObserveFails
    \/ StopSimulators \/ KillSimulators \/ StopBackend \/ KillBackend \/ GiveUp
    \/ DeleteRefunds \/ DeleteSales \/ SaleReferenced \/ Restore \/ Verify \/ VerifyFails
    \/ StartBackend \/ StartFails \/ Recheck \/ RecheckFails

Next ==
    \/ Progress \/ UpFails \/ CleanupFails
    \/ \E s \in Services : Post(s) \/ SendCommit(s) \/ RunCommit(s) \/ Abort(s)
    \/ BackendDies

Spec == Init /\ [][Next]_vars

(***************************************************************************)
(* Commands end, polling has a deadline, and PostgreSQL ends a COMMIT.     *)
(* Nothing ends a statement that waits for a lock: psql has no timeout.    *)
(***************************************************************************)
Fairness ==
    /\ WF_vars(Progress)
    /\ \A s \in Services : WF_vars(RunCommit(s) \/ Abort(s))
FairSpec == Spec /\ Fairness

-----------------------------------------------------------------------------
(***************************************************************************)
(* Properties                                                              *)
(***************************************************************************)
Steps == {"up", "observe", "stopSimulators", "killSimulators", "stopBackend", "killBackend",
          "giveUp", "deleteRefunds", "deleteSales", "restore", "verify", "startBackend",
          "recheck", "done"}
Kinds == {"SALE", "REFUND"}

(* Every variable has its type; only an open transaction dooms rows.       *)
TypeOK ==
    /\ pc \in Steps /\ failed \in BOOLEAN /\ restartFailed \in BOOLEAN
    /\ running \subseteq Services \cup {Backend} /\ tagged \subseteq Services
    /\ request \in [Services -> Kinds \cup {"none", "contact"}]
    /\ committing \subseteq {s \in Services : request[s] # "none"}
    /\ rows \in [Services -> SUBSET Kinds] /\ moved \subseteq Services
    /\ doomed \in [Services -> SUBSET Kinds]
    /\ pc \notin Cleaning => doomed = NoRows

(* "database cleanup is skipped rather than racing active writers"         *)
(* (docs/SIMULATOR.md): while the harness works on the tables, no          *)
(* simulator runs and no backend serves them.                              *)
WritersBarred == pc \in Cleaning \cup {"verify"} => running = {}

(* A run that passes leaves nothing behind, and nothing that could still   *)
(* write: not even a COMMIT that the stopped backend had sent.             *)
PassIsClean ==
    pc = "done" /\ ~ failed =>
        /\ Clean
        /\ running = {Backend}
        /\ committing = {} /\ \A s \in Services : request[s] = "none"

(* What the harness knows in each step.  It stops the backend only after   *)
(* the simulators, ends its transaction only without a handler, and starts *)
(* the backend without an error only if none of them could come back.      *)
SimulatorsStopped == pc \in {"stopBackend", "killBackend"} => running \cap Services = {}
LastWords == Backend \notin running => \A s \in Services : request[s] # "none" => s \in committing
Unattended == pc = "verify" => committing = {}
Quiet == committing = {} /\ \A s \in Services : request[s] = "none"
StaysQuiet ==
    ~ failed =>
        /\ pc = "startBackend" => Quiet /\ running = {}
        /\ pc \in {"recheck", "done"} => Quiet /\ running = {Backend}

IInv ==
    /\ TypeOK
    /\ SimulatorsStopped /\ WritersBarred /\ LastWords /\ Unattended /\ StaysQuiet
    /\ PassIsClean

(* The harness ends: what its cleanup waits for goes away.                 *)
HarnessEnds == <>(pc = "done")

(* The backend runs again after the harness, unless its restart failed.    *)
BackendRestored == pc = "done" /\ ~ restartFailed => Backend \in running
=============================================================================
