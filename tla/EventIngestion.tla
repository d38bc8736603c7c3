--------------------------- MODULE EventIngestion ---------------------------
(***************************************************************************)
(* POST /api/v1/events of the backend: backend/app/event_ingestion.py,     *)
(* called by create_event of backend/app/main.py, over PostgreSQL in READ  *)
(* COMMITTED.  A server task runs one request at a time; every SQL         *)
(* statement of the handler is one action, and so is each reply.           *)
(*                                                                         *)
(* PostgreSQL is modelled by what the handlers rely on: a statement sees   *)
(* the committed rows, SELECT ... FOR UPDATE and UPDATE hold a row lock to *)
(* the end of the transaction, INSERT ... ON CONFLICT waits for a          *)
(* transaction that has inserted the same key, now() is the time at which  *)
(* the transaction began.                                                  *)
(***************************************************************************)
EXTENDS RefundRules

CONSTANTS
    Tasks,        \* concurrent request handlers of the backend process
    Stores,       \* codes of the stores in the database
    Products,     \* SKUs of the products in the database
    Codes,        \* store codes a client may send, known or not
    Skus,         \* SKUs a client may send, known or not
    Infos,        \* occurred_at, source_instance, metadata and note, as one
    RoundTrip,    \* what the database gives back for an info that was stored
    PyValue,      \* what Python's == tells apart of an info
    Payloads,     \* the request bodies clients send
    PoolSize,     \* connections of the pool, overflow included
    MaxBigInt,    \* largest BIGINT
    MaxTime,      \* bound of the clock
    Nobody, NoEvent, NoPayload

ASSUME SentinelsAssumption ==
    /\ Nobody \notin Tasks
    /\ NoEvent \notin EventIds

ASSUME DatabaseAssumption ==
    /\ IsFiniteSet(EventIds) /\ IsFiniteSet(Tasks)
    /\ Stores \subseteq Codes /\ Products \subseteq Skus
    /\ RoundTrip \in [Infos -> Infos] /\ DOMAIN PyValue = Infos
    /\ PoolSize \in Nat \ {0} /\ MaxBigInt \in Nat \ {0} /\ MaxTime \in Nat

(* SaleEventCreate has no original event, RefundEventCreate has one.       *)
Body == [id : EventIds, store : Codes, sku : Skus, type : {"SALE", "REFUND"},
         quantity : Int, amount : Int,
         original : EventIds \cup {NoEvent}, info : Infos]

ASSUME PayloadsAssumption ==
    /\ Payloads \subseteq Body /\ NoRow \notin Body
    /\ \A p \in Payloads : p.type = "SALE" <=> p.original = NoEvent
    /\ NoPayload \notin Payloads

-----------------------------------------------------------------------------
VARIABLES
    pc,         \* where each handler is
    body,       \* the payload it works on
    began,      \* the start time of its transaction
    outcome,    \* the verdict it has reached
    receipt,    \* received_at of the answer, if it acknowledges the event
    rows,       \* table pos_events: the committed rows
    receivedAt, \* their column received_at
    lastSeen,   \* stores.last_seen_at
    rowLock,    \* FOR UPDATE locks on pos_events
    keyLock,    \* uncommitted inserts of an event_id
    storeLock,  \* row locks of UPDATE stores
    announced,  \* how often events.changed was broadcast for an event
    now

handlers == <<pc, body, began, outcome, receipt>>
locks == <<rowLock, keyLock, storeLock>>
tables == <<rows, receivedAt, lastSeen>>
vars == <<handlers, tables, locks, announced, now>>

Never == -1
Time == 0 .. MaxTime

Fits(p) == p.quantity <= MaxBigInt /\ p.amount <= MaxBigInt

IsRefund(t) == body[t].type = "REFUND"

(* The row INSERT writes, its JSONB as it will be read back.               *)
RowOf(p) == [p EXCEPT !.info = RoundTrip[@]]

\* Fault: the stores are not compared.
MatchesElsewhere(row, p) ==
    [row EXCEPT !.info = PyValue[@]] = [p EXCEPT !.info = PyValue[@], !.store = row.store]

(* _matches_event_payload and the store and product comparisons around it. *)
Matches(row, p) ==
    [row EXCEPT !.info = PyValue[@]] = [p EXCEPT !.info = PyValue[@]]

Init ==
    /\ pc = [t \in Tasks |-> "idle"]
    /\ body = [t \in Tasks |-> NoPayload]
    /\ began = [t \in Tasks |-> Never]
    /\ outcome = [t \in Tasks |-> "none"]
    /\ receipt = [t \in Tasks |-> Never]
    /\ rows = [e \in EventIds |-> NoRow]
    /\ receivedAt = [e \in EventIds |-> Never]
    /\ lastSeen = [s \in Stores |-> Never]
    /\ rowLock = [e \in EventIds |-> Nobody]
    /\ keyLock = [e \in EventIds |-> Nobody]
    /\ storeLock = [s \in Stores |-> Nobody]
    /\ announced = [e \in EventIds |-> 0]
    /\ now = 0

(***************************************************************************)
(* Steps of a handler                                                      *)
(***************************************************************************)
Goto(t, from, to) == pc[t] = from /\ pc' = [pc EXCEPT ![t] = to]

(* The handler knows its answer; the session still has to roll back.       *)
Decide(t, from, verdict, time) ==
    /\ Goto(t, from, "rollback")
    /\ outcome' = [outcome EXCEPT ![t] = verdict]
    /\ receipt' = [receipt EXCEPT ![t] = time]
    /\ UNCHANGED <<body, began>>

Reject(t, from, verdict) == Decide(t, from, verdict, Never)

(* The end of a transaction gives its locks back.                          *)
Freed(lock, t) == [x \in DOMAIN lock |-> IF lock[x] = t THEN Nobody ELSE lock[x]]

\* Fault: the transaction that held the original row is left open.
ReleaseLocksButRows(t) ==
    /\ keyLock' = Freed(keyLock, t)
    /\ storeLock' = Freed(storeLock, t)
    /\ UNCHANGED rowLock

ReleaseLocks(t) ==
    /\ rowLock' = Freed(rowLock, t)
    /\ keyLock' = Freed(keyLock, t)
    /\ storeLock' = Freed(storeLock, t)

(* The answer is sent and the task is free for another request.            *)
Answer(t, from) ==
    /\ Goto(t, from, "idle")
    /\ body' = [body EXCEPT ![t] = NoPayload]
    /\ began' = [began EXCEPT ![t] = Never]
    /\ outcome' = [outcome EXCEPT ![t] = "none"]
    /\ receipt' = [receipt EXCEPT ![t] = Never]

(* A connection is in use from the first statement to commit or rollback.  *)
Connected == {t \in Tasks : pc[t] \notin {"idle", "begin", "announce"}}

\* Fault: the schema does not ask for positive numbers.
ArriveUnchecked(t, p) ==
    /\ Goto(t, "idle", "begin")
    /\ body' = [body EXCEPT ![t] = p]
    /\ UNCHANGED <<began, outcome, receipt, tables, locks, announced, now>>

(* A body the schema refuses never reaches the handler: 422.               *)
Arrive(t, p) ==
    /\ WellFormed(p)
    /\ Goto(t, "idle", "begin")
    /\ body' = [body EXCEPT ![t] = p]
    /\ UNCHANGED <<began, outcome, receipt, tables, locks, announced, now>>

(* session.get(PosEvent, event_id): checks a connection out, begins the    *)
(* transaction, and looks for a row with this event_id.                    *)
Begin(t) ==
    /\ Cardinality(Connected) < PoolSize
    /\ Goto(t, "begin", IF rows[body[t].id] = NoRow THEN "resolve" ELSE "classify")
    /\ began' = [began EXCEPT ![t] = now]
    /\ UNCHANGED <<body, outcome, receipt, tables, locks, announced, now>>

(* _find_store, then _find_product.                                        *)
Resolve(t) ==
    /\ Goto(t, "resolve", IF IsRefund(t) THEN "lock" ELSE "insert")
    /\ body[t].store \in Stores /\ body[t].sku \in Products
    /\ UNCHANGED <<body, began, outcome, receipt, tables, locks, announced, now>>

UnknownStore(t) ==
    /\ pc[t] = "resolve" /\ body[t].store \notin Stores
    /\ Reject(t, "resolve", "unknown store")
    /\ UNCHANGED <<tables, locks, announced, now>>

UnknownProduct(t) ==
    /\ pc[t] = "resolve" /\ body[t].store \in Stores /\ body[t].sku \notin Products
    /\ Reject(t, "resolve", "unknown product")
    /\ UNCHANGED <<tables, locks, announced, now>>

(* _lock_original_sale: SELECT ... FOR UPDATE waits for the row lock.      *)
OriginalMissing(t) ==
    /\ pc[t] = "lock" /\ rows[body[t].original] = NoRow
    /\ Reject(t, "lock", "original not found")
    /\ UNCHANGED <<tables, locks, announced, now>>

\* Fault: SELECT without FOR UPDATE.
ReadOriginal(t) ==
    /\ pc[t] = "lock" /\ rows[body[t].original] # NoRow
    /\ UNCHANGED rowLock

TakeRowLock(t) ==
    LET o == body[t].original IN
    /\ pc[t] = "lock"
    /\ rows[o] # NoRow /\ rowLock[o] = Nobody
    /\ rowLock' = [rowLock EXCEPT ![o] = t]

OriginalNotSale(t) ==
    /\ TakeRowLock(t)
    /\ rows[body[t].original].type # "SALE"
    /\ Reject(t, "lock", "original not a sale")
    /\ UNCHANGED <<tables, keyLock, storeLock, announced, now>>

\* Fault: the type of the original row is not looked at.
LockAnyOriginal(t) ==
    /\ TakeRowLock(t)
    /\ Goto(t, "lock", "recheck")
    /\ UNCHANGED <<body, began, outcome, receipt, tables,
                   keyLock, storeLock, announced, now>>

LockOriginal(t) ==
    /\ TakeRowLock(t)
    /\ rows[body[t].original].type = "SALE"
    /\ Goto(t, "lock", "recheck")
    /\ UNCHANGED <<body, began, outcome, receipt, tables,
                   keyLock, storeLock, announced, now>>

\* Fault: no second look for the event once the lock is held.
NoRecheck(t) ==
    /\ Goto(t, "recheck", "validate")
    /\ UNCHANGED <<body, began, outcome, receipt, tables, locks, announced, now>>

(* existing_after_lock: the same refund may have committed meanwhile.      *)
Recheck(t) ==
    /\ Goto(t, "recheck", IF rows[body[t].id] = NoRow THEN "validate" ELSE "classify")
    /\ UNCHANGED <<body, began, outcome, receipt, tables, locks, announced, now>>

(* _validate_refund_reference                                              *)
ReferenceMismatch(t) ==
    /\ pc[t] = "validate" /\ ~ SameStoreAndProduct(rows, body[t])
    /\ Reject(t, "validate", "reference mismatch")
    /\ UNCHANGED <<tables, locks, announced, now>>

LimitExceeded(t) ==
    /\ pc[t] = "validate" /\ SameStoreAndProduct(rows, body[t]) /\ ~ WithinLimits(rows, body[t])
    /\ Reject(t, "validate", "limit exceeded")
    /\ UNCHANGED <<tables, locks, announced, now>>

\* Fault: only the limits are validated.
ValidateLimits(t) ==
    /\ pc[t] = "validate" /\ WithinLimits(rows, body[t])
    /\ Goto(t, "validate", "insert")
    /\ UNCHANGED <<body, began, outcome, receipt, tables, locks, announced, now>>

ValidateRefund(t) ==
    /\ pc[t] = "validate" /\ SameStoreAndProduct(rows, body[t]) /\ WithinLimits(rows, body[t])
    /\ Goto(t, "validate", "insert")
    /\ UNCHANGED <<body, began, outcome, receipt, tables, locks, announced, now>>

(* _insert_event: waits while another transaction has inserted the key.    *)
Insert(t) ==
    LET e == body[t].id IN
    /\ pc[t] = "insert" /\ Fits(body[t])
    /\ rows[e] = NoRow /\ keyLock[e] = Nobody
    /\ keyLock' = [keyLock EXCEPT ![e] = t]
    /\ Goto(t, "insert", "flush")
    /\ UNCHANGED <<body, began, outcome, receipt, tables,
                   rowLock, storeLock, announced, now>>

\* Fault: the event of a transaction in flight counts as recorded.
InsertConflictEarly(t) ==
    /\ pc[t] = "insert" /\ Fits(body[t])
    /\ rows[body[t].id] # NoRow \/ keyLock[body[t].id] # Nobody
    /\ Goto(t, "insert", "classify")
    /\ UNCHANGED <<body, began, outcome, receipt, tables, locks, announced, now>>

\* Fault: ON CONFLICT DO UPDATE.
InsertOrUpdate(t) ==
    /\ pc[t] = "insert" /\ Fits(body[t])
    /\ rows[body[t].id] # NoRow
    /\ Goto(t, "insert", "flush")
    /\ UNCHANGED <<body, began, outcome, receipt, tables, locks, announced, now>>

InsertConflict(t) ==
    /\ pc[t] = "insert" /\ Fits(body[t])
    /\ rows[body[t].id] # NoRow
    /\ Goto(t, "insert", "classify")
    /\ UNCHANGED <<body, began, outcome, receipt, tables, locks, announced, now>>

(* An integer BIGINT cannot hold fails the statement: 500.                 *)
InsertOverflow(t) ==
    /\ pc[t] = "insert" /\ ~ Fits(body[t])
    /\ Reject(t, "insert", "error")
    /\ UNCHANGED <<tables, locks, announced, now>>

(* session.commit() first flushes store.last_seen_at = received_at.        *)
Flush(t) ==
    LET s == body[t].store IN
    /\ pc[t] = "flush" /\ storeLock[s] = Nobody
    /\ storeLock' = [storeLock EXCEPT ![s] = t]
    /\ Goto(t, "flush", "commit")
    /\ UNCHANGED <<body, began, outcome, receipt, tables,
                   rowLock, keyLock, announced, now>>

\* Fault: last_seen_at is read from the clock, not taken from the event.
CommitRowNow(t) ==
    /\ rows' = [rows EXCEPT ![body[t].id] = RowOf(body[t])]
    /\ receivedAt' = [receivedAt EXCEPT ![body[t].id] = began[t]]
    /\ lastSeen' = [lastSeen EXCEPT ![body[t].store] = now]
    /\ ReleaseLocks(t)

(* COMMIT, as the database runs it.                                        *)
CommitRow(t) ==
    /\ rows' = [rows EXCEPT ![body[t].id] = RowOf(body[t])]
    /\ receivedAt' = [receivedAt EXCEPT ![body[t].id] = began[t]]
    /\ lastSeen' = [lastSeen EXCEPT ![body[t].store] = began[t]]
    /\ ReleaseLocks(t)

Commit(t) ==
    /\ Goto(t, "commit", "announce")
    /\ CommitRow(t)
    /\ outcome' = [outcome EXCEPT ![t] = "accepted"]
    /\ receipt' = [receipt EXCEPT ![t] = began[t]]
    /\ UNCHANGED <<body, began, announced, now>>

(* The connection breaks after COMMIT was sent: the handler answers 500,   *)
(* the database may still run the COMMIT, or abort.                        *)
LoseCommit(t) ==
    /\ Goto(t, "commit", "orphan")
    /\ outcome' = [outcome EXCEPT ![t] = "error"]
    /\ UNCHANGED <<body, began, receipt, tables, locks, announced, now>>

OrphanCommit(t) ==
    /\ Answer(t, "orphan")
    /\ CommitRow(t)
    /\ UNCHANGED <<announced, now>>

OrphanAbort(t) ==
    /\ Answer(t, "orphan")
    /\ ReleaseLocks(t)
    /\ UNCHANGED <<tables, announced, now>>

\* Fault: a duplicate is reported as accepted.
VerdictAccepted(row, p) ==
    CASE row = NoRow -> "error"
      [] row # NoRow /\ Matches(row, p) -> "accepted"
      [] OTHER -> "conflict"

(* _classify_existing_event; line 101 raises if the row is not visible.    *)
Verdict(row, p) ==
    CASE row = NoRow -> "error"
      [] row # NoRow /\ Matches(row, p) -> "duplicate"
      [] OTHER -> "conflict"

Classify(t) ==
    LET verdict == Verdict(rows[body[t].id], body[t]) IN
    /\ Decide(t, "classify", verdict,
              IF verdict = "duplicate" THEN receivedAt[body[t].id] ELSE Never)
    /\ UNCHANGED <<tables, locks, announced, now>>

\* Fault: a rejected request keeps its transaction.
AnswerOnly(t) ==
    /\ Answer(t, "rollback")
    /\ UNCHANGED <<tables, locks, announced, now>>

(* Rollback, explicit or by get_session on an exception, then the answer.  *)
Rollback(t) ==
    /\ Answer(t, "rollback")
    /\ ReleaseLocks(t)
    /\ UNCHANGED <<tables, announced, now>>

(* The broadcast of events.changed, then 201.                              *)
Broadcast(t) ==
    /\ Answer(t, "announce")
    /\ announced' = [announced EXCEPT ![body[t].id] = @ + 1]
    /\ UNCHANGED <<tables, locks, now>>

(* A statement fails, or no connection is free within the pool's timeout.  *)
DatabaseError(t) ==
    /\ pc[t] \in {"begin", "resolve", "lock", "recheck", "validate",
                  "insert", "flush", "classify"}
    /\ Reject(t, pc[t], "error")
    /\ UNCHANGED <<tables, locks, announced, now>>

(* The backend process dies.  The database aborts its transactions, except *)
(* that a COMMIT already sent may still be run.                            *)
Survives(t) == pc[t] \in {"commit", "orphan"}

Crash ==
    /\ \E t \in Tasks : pc[t] # "idle"
    /\ pc' = [t \in Tasks |-> IF Survives(t) THEN "orphan" ELSE "idle"]
    /\ body' = [t \in Tasks |-> IF Survives(t) THEN body[t] ELSE NoPayload]
    /\ began' = [t \in Tasks |-> IF Survives(t) THEN began[t] ELSE Never]
    /\ outcome' = [t \in Tasks |-> IF Survives(t) THEN "error" ELSE "none"]
    /\ receipt' = [t \in Tasks |-> Never]
    /\ LET Kept(lock) == [x \in DOMAIN lock |->
               IF lock[x] # Nobody /\ Survives(lock[x]) THEN lock[x] ELSE Nobody]
       IN /\ rowLock' = Kept(rowLock)
          /\ keyLock' = Kept(keyLock)
          /\ storeLock' = Kept(storeLock)
    /\ UNCHANGED <<tables, announced, now>>

Tick ==
    /\ now < MaxTime
    /\ now' = now + 1
    /\ UNCHANGED <<handlers, tables, locks, announced>>

(* What a handler does next unless something fails.                        *)
Proceed(t) ==
    \/ Begin(t) \/ Resolve(t) \/ UnknownStore(t) \/ UnknownProduct(t)
    \/ OriginalMissing(t) \/ OriginalNotSale(t) \/ LockOriginal(t) \/ Recheck(t)
    \/ ReferenceMismatch(t) \/ LimitExceeded(t) \/ ValidateRefund(t)
    \/ Insert(t) \/ InsertConflict(t) \/ InsertOverflow(t)
    \/ Flush(t) \/ Commit(t) \/ Classify(t) \/ Rollback(t) \/ Broadcast(t)

Fault(t) == DatabaseError(t) \/ LoseCommit(t)
EndOrphan(t) == OrphanCommit(t) \/ OrphanAbort(t)

Next ==
    \/ \E t \in Tasks : \/ \E p \in Payloads : Arrive(t, p)
                        \/ Proceed(t) \/ Fault(t) \/ EndOrphan(t)
    \/ Crash
    \/ Tick

Spec == Init /\ [][Next]_vars

(***************************************************************************)
(* The event loop runs every handler that is ready, PostgreSQL queues the  *)
(* transactions that wait for a lock and the pool the tasks that wait for  *)
(* a connection, first in first out: a handler that can move again and     *)
(* again does move.  Faults and crashes need never happen.                 *)
(***************************************************************************)
Fairness == \A t \in Tasks : SF_vars(Proceed(t)) /\ WF_vars(EndOrphan(t))
FairSpec == Spec /\ Fairness

-----------------------------------------------------------------------------
(***************************************************************************)
(* Properties                                                              *)
(***************************************************************************)
Locations == {"idle", "begin", "resolve", "lock", "recheck", "validate", "insert",
              "flush", "commit", "orphan", "classify", "rollback", "announce"}
Outcomes == {"none", "accepted", "duplicate", "conflict", "error", "unknown store",
             "unknown product", "original not found", "original not a sale",
             "reference mismatch", "limit exceeded"}
StoredBodies == {b \in Body : WellFormed(b) /\ Fits(b)}
Times == 0 .. MaxTime \cup {Never}

(* Every variable has its type; what is in the table fits its columns.     *)
TypeOK ==
    /\ pc \in [Tasks -> Locations]
    /\ body \in [Tasks -> Payloads \cup {NoPayload}]
    /\ began \in [Tasks -> Times]
    /\ outcome \in [Tasks -> Outcomes]
    /\ receipt \in [Tasks -> Times]
    /\ rows \in [EventIds -> StoredBodies \cup {NoRow}]
    /\ receivedAt \in [EventIds -> Times]
    /\ lastSeen \in [Stores -> Times]
    /\ rowLock \in [EventIds -> Tasks \cup {Nobody}]
    /\ keyLock \in [EventIds -> Tasks \cup {Nobody}]
    /\ storeLock \in [Stores -> Tasks \cup {Nobody}]
    /\ announced \in [EventIds -> Nat]
    /\ now \in Time

(* Whatever requests interleave, the refunds of a sale never add up to more *)
(* than its quantity or its amount (_validate_refund_reference).           *)
RefundLimits ==
    \A o \in EventIds : rows[o] # NoRow /\ rows[o].type = "SALE" =>
        /\ RefundedQuantity(rows, o) <= rows[o].quantity
        /\ RefundedAmount(rows, o) <= rows[o].amount

(* Every stored refund refers to a stored sale, another event, of the same *)
(* store and product: the foreign key and the check constraints of         *)
(* pos_events never have anything to refuse.                               *)
ReferencesHold ==
    \A e \in EventIds : rows[e] # NoRow =>
        /\ rows[e].id = e
        /\ rows[e].store \in Stores /\ rows[e].sku \in Products
        /\ rows[e].type = "SALE" <=> rows[e].original = NoEvent
        /\ rows[e].type = "REFUND" =>
              /\ rows[e].original # e
              /\ rows[rows[e].original] # NoRow
              /\ rows[rows[e].original].type = "SALE"
              /\ SameStoreAndProduct(rows, rows[e])

(* A handler that was told the event exists can see it: the RuntimeError   *)
(* of _classify_existing_event is never raised.                            *)
ConflictRowVisible ==
    \A t \in Tasks : pc[t] = "classify" => rows[body[t].id] # NoRow

(* A client that is told "accepted" or "duplicate" asked for what is in    *)
(* the table, and is told when it was received.                            *)
AcknowledgedIsStored ==
    \A t \in Tasks : outcome[t] \in {"accepted", "duplicate"} =>
        /\ rows[body[t].id] = RowOf(body[t])
        /\ receipt[t] = receivedAt[body[t].id]

(* At most one request is told that it recorded an event, and only events  *)
(* in the table are announced to the dashboards.                           *)
AcceptedOnce ==
    \A e \in EventIds :
        /\ announced[e] + Cardinality({t \in Tasks : /\ outcome[t] = "accepted"
                                                    /\ body[t].id = e})
              <= (IF rows[e] = NoRow THEN 0 ELSE 1)

(* A lock is held from the statement that takes it to the end of the       *)
(* transaction, and no longer: whatever way a request ends, those waiting  *)
(* for its locks get them.                                                 *)
WithRow == {"recheck", "validate", "insert", "flush", "commit", "orphan", "classify", "rollback"}
WithKey == {"flush", "commit", "orphan", "rollback"}
WithStore == {"commit", "orphan"}
LocksOK(t) ==
    /\ \A e \in EventIds : /\ rowLock[e] = t => pc[t] \in WithRow
                           /\ keyLock[e] = t => pc[t] \in WithKey
    /\ \A s \in Stores : storeLock[s] = t => pc[t] \in WithStore
LocksEnd == \A t \in Tasks : LocksOK(t)

(* No handlers wait for each other for ever: of any of them there is one   *)
(* that waits for no lock of these, and for no connection they all hold.   *)
WaitsFor(t, u) ==
    \/ pc[t] = "lock" /\ rowLock[body[t].original] = u
    \/ pc[t] = "insert" /\ keyLock[body[t].id] = u
    \/ pc[t] = "flush" /\ storeLock[body[t].store] = u
PoolTaken(S) == Cardinality(Connected) >= PoolSize /\ Connected \subseteq S
NoDeadlock ==
    \A S \in (SUBSET Tasks) \ {{}} : \E t \in S :
        /\ \A u \in S : ~ WaitsFor(t, u)
        /\ pc[t] = "begin" => ~ PoolTaken(S)

(* last_seen_at of a store is received_at of one of its events: no event   *)
(* that was rolled back shows a store as online.                           *)
LastSeenWitnessed ==
    \A s \in Stores : lastSeen[s] # Never =>
        \E e \in EventIds : /\ rows[e] # NoRow /\ rows[e].store = s
                            /\ receivedAt[e] = lastSeen[s]

(* The ledger is append-only: no request, conflict or retry changes a row. *)
RowsKept ==
    \A e \in EventIds : rows[e] # NoRow =>
        rows'[e] = rows[e] /\ receivedAt'[e] = receivedAt[e]
RowsImmutable == [][RowsKept]_vars

(* The retry of an event that is stored when the handler makes up its mind *)
(* is never refused, not even a refund that used up what was left of its   *)
(* sale: the re-check after the row lock.                                  *)
Answers == {"accepted", "duplicate", "error", "none"}
ExactRetryHonoured ==
    [][\A t \in Tasks : /\ pc[t] \notin {"idle", "rollback"}
                        /\ rows[body[t].id] # NoRow
                        /\ rows[body[t].id] = RowOf(body[t])
          => outcome'[t] \in Answers]_vars

(* Every request is answered, whatever locks and connections it waits for. *)
Finishes(t) == pc[t] # "idle" ~> pc[t] = "idle"
EveryRequestAnswered == \A t \in Tasks : Finishes(t)

(***************************************************************************)
(* The inductive invariant: what each step of a handler has established,   *)
(* kept true for it by the locks it holds while others run.                *)
(***************************************************************************)
Resolved == {"lock", "recheck", "validate", "insert", "flush", "commit", "orphan"}
Locked == {"recheck", "validate", "insert", "flush", "commit", "orphan"}
Validated == {"insert", "flush", "commit", "orphan"}
Inserted == {"flush", "commit", "orphan"}

(* Only a refund locks a row, and its store and product have been found.   *)
RequestOK(t) ==
    /\ pc[t] # "idle" => body[t] \in Payloads /\ WellFormed(body[t])
    /\ pc[t] \in {"lock", "recheck", "validate"} => IsRefund(t)
    /\ pc[t] \in Resolved => body[t].store \in Stores /\ body[t].sku \in Products
    /\ pc[t] = "classify" => rows[body[t].id] # NoRow

(* A refund that has its lock keeps it; once validated it stays valid.     *)
RefundOK(t) ==
    /\ pc[t] \in Locked /\ IsRefund(t) =>
          LET o == body[t].original IN
          rowLock[o] = t /\ rows[o] # NoRow /\ rows[o].type = "SALE"
    /\ pc[t] \in Validated /\ IsRefund(t) =>
          SameStoreAndProduct(rows, body[t]) /\ WithinLimits(rows, body[t])

(* The key an uncommitted insert holds is in no committed row.             *)
InsertOK(t) ==
    pc[t] \in Inserted =>
        /\ keyLock[body[t].id] = t
        /\ rows[body[t].id] = NoRow
        /\ Fits(body[t])

IInv ==
    /\ TypeOK
    /\ \A t \in Tasks : RequestOK(t) /\ RefundOK(t) /\ InsertOK(t)
    /\ ReferencesHold
    /\ RefundLimits

(***************************************************************************)
(* What the answers rest on: the outcome of a handler belongs to where it  *)
(* is, and what it acknowledges is in the table and stays there.           *)
(***************************************************************************)
Undecided == Locations \ {"announce", "rollback", "orphan"}

OutcomeOK(t) ==
    /\ outcome[t] = "none" <=> pc[t] \in Undecided
    /\ outcome[t] = "accepted" <=> pc[t] = "announce"
    /\ pc[t] = "orphan" => outcome[t] = "error"

ReceiptOK(t) ==
    LET row == rows[body[t].id] IN
    /\ outcome[t] = "accepted" => row = RowOf(body[t])
    /\ outcome[t] = "duplicate" => row # NoRow /\ Matches(row, body[t])
    /\ outcome[t] \in {"accepted", "duplicate"} => receipt[t] = receivedAt[body[t].id]

(* A refund that is about to be validated is not in the table itself: its  *)
(* copies need the lock of the same sale.                                  *)
RetryOK(t) == pc[t] = "validate" => rows[body[t].id] # RowOf(body[t])

RowsWereSent ==
    \A e \in EventIds : rows[e] # NoRow =>
        \E p \in Payloads : WellFormed(p) /\ rows[e] = RowOf(p)

(* Kept by every step from states in which IInv holds.                     *)
AnswersInv ==
    /\ \A t \in Tasks : OutcomeOK(t) /\ ReceiptOK(t) /\ RetryOK(t)
    /\ RowsWereSent
    /\ LocksEnd /\ AcceptedOnce /\ LastSeenWitnessed

(* Python's == and JSONB agree about the infos that are sent: an info       *)
(* matches what was read back of another iff both are stored alike.  It    *)
(* does not hold of True and 1, nor of the float 1e30.                     *)
Lossless ==
    \A i, j \in Infos : PyValue[RoundTrip[i]] = PyValue[j] <=> RoundTrip[i] = RoundTrip[j]

(***************************************************************************)
(* The handlers implement the ledger: an event is appended when COMMIT is  *)
(* run, every other verdict is right when it is reached.  The ledger holds *)
(* the events, and is asked for them, as the database records them.        *)
(***************************************************************************)
PhaseOf(t) ==
    CASE pc[t] = "idle" -> "idle"
      [] pc[t] \in {"rollback", "announce"} -> "decided"
      [] pc[t] = "orphan" -> "lost"
      [] OTHER -> "open"

Ledger == INSTANCE EventLedger WITH
    phase <- [t \in Tasks |-> PhaseOf(t)],
    request <- [t \in Tasks |-> IF body[t] = NoPayload THEN NoPayload ELSE RowOf(body[t])],
    Payloads <- {RowOf(p) : p \in Payloads},
    verdict <- outcome,
    ledger <- rows

ImplementsLedger == Ledger!LedgerSpec
=============================================================================
