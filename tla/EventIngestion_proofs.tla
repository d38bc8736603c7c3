----------------------- MODULE EventIngestion_proofs -----------------------
(***************************************************************************)
(* Theorems about EventIngestion, for every number of tasks, events,       *)
(* stores and payloads, and every pool size.                               *)
(***************************************************************************)
EXTENDS EventIngestion, RefundRules_proofs

USE SentinelsAssumption, DatabaseAssumption, PayloadsAssumption

(* The row that is inserted differs from the request in its info only.     *)
LEMMA RowOfBody ==
    ASSUME NEW p \in Payloads, WellFormed(p), Fits(p)
    PROVE  /\ RowOf(p) \in StoredBodies /\ RowOf(p) # NoRow
           /\ RowOf(p).id = p.id /\ RowOf(p).store = p.store /\ RowOf(p).sku = p.sku
           /\ RowOf(p).type = p.type /\ RowOf(p).original = p.original
           /\ RowOf(p).quantity = p.quantity /\ RowOf(p).amount = p.amount
BY DEF RowOf, Body, StoredBodies, WellFormed, Fits

(* The sums over a table of the right type are numbers.                    *)
LEMMA RowsCounted ==
    ASSUME TypeOK
    PROVE  CountedTable(rows)
BY DEF TypeOK, StoredBodies, Body, WellFormed, Fits, CountedTable, Counted

(* Initially nothing is stored and no request is in progress.              *)
LEMMA InitIInv == Init => IInv
<1> SUFFICES ASSUME Init PROVE IInv
  OBVIOUS
<1>1. TypeOK
  BY DEF Init, TypeOK, Locations, Outcomes, Times, Time, Never
<1>2. \A t \in Tasks : RequestOK(t) /\ RefundOK(t) /\ InsertOK(t)
  BY DEF Init, RequestOK, RefundOK, InsertOK, Resolved, Locked, Validated, Inserted
<1>3. ReferencesHold /\ RefundLimits
  BY DEF Init, ReferencesHold, RefundLimits
<1> QED BY <1>1, <1>2, <1>3 DEF IInv

-----------------------------------------------------------------------------
(* Steps that leave the tables alone.                                      *)
(* What a handler has established survives the steps of others that store  *)
(* no row, as no step takes a lock away from its holder.                   *)
LEMMA OthersUndisturbed ==
    ASSUME IInv, NEW u \in Tasks, UNCHANGED rows,
           pc'[u] = pc[u], body'[u] = body[u], began'[u] = began[u],
           \A e \in EventIds : rowLock[e] = u => rowLock'[e] = u,
           \A e \in EventIds : keyLock[e] = u => keyLock'[e] = u
    PROVE  RequestOK(u)' /\ RefundOK(u)' /\ InsertOK(u)'
<1>1. RequestOK(u) /\ RefundOK(u) /\ InsertOK(u)
  BY DEF IInv
<1>2. pc[u] # "idle" => body[u] \in Body
  BY <1>1 DEF RequestOK
<1>3. RequestOK(u)'
  BY <1>1 DEF RequestOK, IsRefund
<1>4. RefundOK(u)'
  <2>1. pc[u] \in Locked /\ IsRefund(u) => body[u].original \in EventIds
    BY <1>1, <1>2 DEF RequestOK, IsRefund, Locked, Body
  <2> QED BY <1>1, <2>1 DEF RefundOK, IsRefund, Locked, Validated
<1>5. InsertOK(u)'
  BY <1>1, <1>2 DEF InsertOK, Inserted, Body
<1> QED BY <1>3, <1>4, <1>5

(* Of a step of t that stores no row, only what concerns t is to be shown. *)
KeepsLocks(u) ==
    /\ \A e \in EventIds : rowLock[e] = u => rowLock'[e] = u
    /\ \A e \in EventIds : keyLock[e] = u => keyLock'[e] = u

(* A handler moves on and takes no lock of another: only its own part of   *)
(* the invariant is to be shown.                                           *)
LEMMA HandlerStep ==
    ASSUME IInv, NEW t \in Tasks, UNCHANGED rows,
           TypeOK', RequestOK(t)', RefundOK(t)', InsertOK(t)',
           \A u \in Tasks \ {t} :
               /\ pc'[u] = pc[u] /\ body'[u] = body[u] /\ began'[u] = began[u]
               /\ KeepsLocks(u)
    PROVE  IInv'
<1>1. \A u \in Tasks : RequestOK(u)' /\ RefundOK(u)' /\ InsertOK(u)'
  BY OthersUndisturbed DEF KeepsLocks
<1>2. ReferencesHold' /\ RefundLimits'
  BY DEF IInv, ReferencesHold, RefundLimits
<1> QED BY <1>1, <1>2 DEF IInv

(* A handler that decides: all that has to be known of it holds again.     *)
LEMMA DecideStep ==
    ASSUME IInv, NEW t \in Tasks, NEW from, NEW verdict \in Outcomes, NEW time \in Times,
           pc[t] # "idle", Decide(t, from, verdict, time),
           UNCHANGED <<tables, keyLock, storeLock, announced, now>>,
           rowLock' \in [EventIds -> Tasks \cup {Nobody}],
           \A u \in Tasks \ {t}, e \in EventIds : rowLock[e] = u => rowLock'[e] = u
    PROVE  IInv'
<1>1. TypeOK'
  BY DEF IInv, TypeOK, Decide, Goto, Locations, tables
<1>2. pc'[t] = "rollback" /\ body' = body /\ began' = began
  BY DEF IInv, TypeOK, Decide, Goto
<1>3. RequestOK(t)' /\ RefundOK(t)' /\ InsertOK(t)'
  BY <1>2 DEF IInv, RequestOK, RefundOK, InsertOK, Resolved, Locked, Validated, Inserted
<1>4. \A u \in Tasks \ {t} :
          /\ pc'[u] = pc[u] /\ body'[u] = body[u] /\ began'[u] = began[u]
          /\ KeepsLocks(u)
  BY <1>2 DEF IInv, TypeOK, Decide, Goto, KeepsLocks
<1> QED BY <1>1, <1>3, <1>4, HandlerStep DEF tables

(* A handler that answers without having stored a row.                     *)
LEMMA AnswerStep ==
    ASSUME IInv, NEW t \in Tasks, NEW from, Answer(t, from),
           UNCHANGED <<tables, now>>,
           announced' \in [EventIds -> Nat],
           ReleaseLocks(t) \/ UNCHANGED locks
    PROVE  IInv'
<1>1. /\ rowLock' \in [EventIds -> Tasks \cup {Nobody}]
      /\ keyLock' \in [EventIds -> Tasks \cup {Nobody}]
      /\ storeLock' \in [Stores -> Tasks \cup {Nobody}]
  BY DEF IInv, TypeOK, ReleaseLocks, Freed, locks
<1>2. TypeOK'
  BY <1>1 DEF IInv, TypeOK, Answer, Goto, Locations, Outcomes, Times, tables
<1>3. pc'[t] = "idle"
  BY DEF IInv, TypeOK, Answer, Goto
<1>4. RequestOK(t)' /\ RefundOK(t)' /\ InsertOK(t)'
  BY <1>3 DEF RequestOK, RefundOK, InsertOK, Resolved, Locked, Validated, Inserted
<1>5. \A u \in Tasks \ {t} :
          /\ pc'[u] = pc[u] /\ body'[u] = body[u] /\ began'[u] = began[u]
          /\ KeepsLocks(u)
  BY DEF IInv, TypeOK, Answer, Goto, KeepsLocks, ReleaseLocks, Freed, locks
<1> QED BY <1>2, <1>4, <1>5, HandlerStep DEF tables

-----------------------------------------------------------------------------
(* One lemma per kind of step.                                             *)

(* The first statement.                                                    *)
LEMMA BeginIInv ==
    ASSUME IInv, NEW t \in Tasks, Begin(t)
    PROVE  IInv'
<1>1. pc[t] = "begin" /\ pc' = [pc EXCEPT ![t] = pc'[t]]
  BY DEF IInv, TypeOK, Begin, Goto
<1>2. TypeOK'
  BY DEF IInv, TypeOK, Begin, Goto, Locations, Times, Time, tables, locks
<1>3. RequestOK(t)'
  BY <1>1 DEF IInv, TypeOK, Begin, Goto, RequestOK, IsRefund, Resolved, tables, locks
<1>4. RefundOK(t)'
  BY <1>1 DEF IInv, TypeOK, Begin, Goto, RequestOK, RefundOK, IsRefund, Body,
              Resolved, Locked, Validated, tables, locks
<1>5. InsertOK(t)'
  BY <1>1 DEF IInv, TypeOK, Begin, Goto, RequestOK, InsertOK, Inserted, Body,
              tables, locks
<1>6. \A u \in Tasks \ {t} :
          /\ pc'[u] = pc[u] /\ body'[u] = body[u] /\ began'[u] = began[u]
          /\ KeepsLocks(u)
  BY <1>1 DEF IInv, TypeOK, Begin, KeepsLocks, locks
<1> QED BY <1>2, <1>3, <1>4, <1>5, <1>6, HandlerStep DEF Begin, tables

(* Store and product are found.                                            *)
LEMMA ResolveIInv ==
    ASSUME IInv, NEW t \in Tasks, Resolve(t)
    PROVE  IInv'
<1>1. pc[t] = "resolve" /\ pc' = [pc EXCEPT ![t] = pc'[t]]
  BY DEF IInv, TypeOK, Resolve, Goto
<1>2. TypeOK'
  BY DEF IInv, TypeOK, Resolve, Goto, Locations, tables, locks
<1>3. RequestOK(t)'
  BY <1>1 DEF IInv, TypeOK, Resolve, Goto, RequestOK, IsRefund, Resolved, tables, locks
<1>4. RefundOK(t)'
  BY <1>1 DEF IInv, TypeOK, Resolve, Goto, RequestOK, RefundOK, IsRefund, Body,
              Resolved, Locked, Validated, tables, locks
<1>5. InsertOK(t)'
  BY <1>1 DEF IInv, TypeOK, Resolve, Goto, RequestOK, InsertOK, Inserted, Body,
              tables, locks
<1>6. \A u \in Tasks \ {t} :
          /\ pc'[u] = pc[u] /\ body'[u] = body[u] /\ began'[u] = began[u]
          /\ KeepsLocks(u)
  BY <1>1 DEF IInv, TypeOK, Resolve, KeepsLocks, locks
<1> QED BY <1>2, <1>3, <1>4, <1>5, <1>6, HandlerStep DEF Resolve, tables

(* The lock was free, so no other refund of the sale is past it.           *)
LEMMA LockOriginalIInv ==
    ASSUME IInv, NEW t \in Tasks, LockOriginal(t)
    PROVE  IInv'
<1>1. pc[t] = "lock" /\ pc' = [pc EXCEPT ![t] = pc'[t]]
  BY DEF IInv, TypeOK, LockOriginal, Goto, TakeRowLock
<1>2. TypeOK'
  BY DEF IInv, TypeOK, LockOriginal, Goto, Locations, tables, locks, TakeRowLock
<1>3. RequestOK(t)'
  BY <1>1 DEF IInv, TypeOK, LockOriginal, Goto, RequestOK, IsRefund, Resolved, tables, locks, TakeRowLock
<1>4. RefundOK(t)'
  BY <1>1 DEF IInv, TypeOK, LockOriginal, Goto, RequestOK, RefundOK, IsRefund, Body,
              Resolved, Locked, Validated, tables, locks, TakeRowLock
<1>5. InsertOK(t)'
  BY <1>1 DEF IInv, TypeOK, LockOriginal, Goto, RequestOK, InsertOK, Inserted, Body,
              tables, locks, TakeRowLock
<1>6. \A u \in Tasks \ {t} :
          /\ pc'[u] = pc[u] /\ body'[u] = body[u] /\ began'[u] = began[u]
          /\ KeepsLocks(u)
  BY <1>1 DEF IInv, TypeOK, LockOriginal, KeepsLocks, locks, TakeRowLock
<1> QED BY <1>2, <1>3, <1>4, <1>5, <1>6, HandlerStep DEF LockOriginal, tables, TakeRowLock

(* The second look at the event id.                                        *)
LEMMA RecheckIInv ==
    ASSUME IInv, NEW t \in Tasks, Recheck(t)
    PROVE  IInv'
<1>1. pc[t] = "recheck" /\ pc' = [pc EXCEPT ![t] = pc'[t]]
  BY DEF IInv, TypeOK, Recheck, Goto
<1>2. TypeOK'
  BY DEF IInv, TypeOK, Recheck, Goto, Locations, tables, locks
<1>3. RequestOK(t)'
  BY <1>1 DEF IInv, TypeOK, Recheck, Goto, RequestOK, IsRefund, Resolved, tables, locks
<1>4. RefundOK(t)'
  BY <1>1 DEF IInv, TypeOK, Recheck, Goto, RequestOK, RefundOK, IsRefund, Body,
              Resolved, Locked, Validated, tables, locks
<1>5. InsertOK(t)'
  BY <1>1 DEF IInv, TypeOK, Recheck, Goto, RequestOK, InsertOK, Inserted, Body,
              tables, locks
<1>6. \A u \in Tasks \ {t} :
          /\ pc'[u] = pc[u] /\ body'[u] = body[u] /\ began'[u] = began[u]
          /\ KeepsLocks(u)
  BY <1>1 DEF IInv, TypeOK, Recheck, KeepsLocks, locks
<1> QED BY <1>2, <1>3, <1>4, <1>5, <1>6, HandlerStep DEF Recheck, tables

(* The refund is valid, and its lock keeps it so.                          *)
LEMMA ValidateRefundIInv ==
    ASSUME IInv, NEW t \in Tasks, ValidateRefund(t)
    PROVE  IInv'
<1>1. pc[t] = "validate" /\ pc' = [pc EXCEPT ![t] = pc'[t]]
  BY DEF IInv, TypeOK, ValidateRefund, Goto
<1>2. TypeOK'
  BY DEF IInv, TypeOK, ValidateRefund, Goto, Locations, tables, locks
<1>3. RequestOK(t)'
  BY <1>1 DEF IInv, TypeOK, ValidateRefund, Goto, RequestOK, IsRefund, Resolved, tables, locks
<1>4. RefundOK(t)'
  BY <1>1 DEF IInv, TypeOK, ValidateRefund, Goto, RequestOK, RefundOK, IsRefund, Body,
              Resolved, Locked, Validated, tables, locks
<1>5. InsertOK(t)'
  BY <1>1 DEF IInv, TypeOK, ValidateRefund, Goto, RequestOK, InsertOK, Inserted, Body,
              tables, locks
<1>6. \A u \in Tasks \ {t} :
          /\ pc'[u] = pc[u] /\ body'[u] = body[u] /\ began'[u] = began[u]
          /\ KeepsLocks(u)
  BY <1>1 DEF IInv, TypeOK, ValidateRefund, KeepsLocks, locks
<1> QED BY <1>2, <1>3, <1>4, <1>5, <1>6, HandlerStep DEF ValidateRefund, tables

(* The key was free, and no committed row has it.                          *)
LEMMA InsertIInv ==
    ASSUME IInv, NEW t \in Tasks, Insert(t)
    PROVE  IInv'
<1>1. pc[t] = "insert" /\ pc' = [pc EXCEPT ![t] = pc'[t]]
  BY DEF IInv, TypeOK, Insert, Goto
<1>2. TypeOK'
  BY DEF IInv, TypeOK, Insert, Goto, Locations, tables, locks
<1>3. RequestOK(t)'
  BY <1>1 DEF IInv, TypeOK, Insert, Goto, RequestOK, IsRefund, Resolved, tables, locks
<1>4. RefundOK(t)'
  BY <1>1 DEF IInv, TypeOK, Insert, Goto, RequestOK, RefundOK, IsRefund, Body,
              Resolved, Locked, Validated, tables, locks
<1>5. InsertOK(t)'
  BY <1>1 DEF IInv, TypeOK, Insert, Goto, RequestOK, InsertOK, Inserted, Body,
              tables, locks
<1>6. \A u \in Tasks \ {t} :
          /\ pc'[u] = pc[u] /\ body'[u] = body[u] /\ began'[u] = began[u]
          /\ KeepsLocks(u)
  BY <1>1 DEF IInv, TypeOK, Insert, KeepsLocks, locks
<1> QED BY <1>2, <1>3, <1>4, <1>5, <1>6, HandlerStep DEF Insert, tables

(* A committed row has the key.                                            *)
LEMMA InsertConflictIInv ==
    ASSUME IInv, NEW t \in Tasks, InsertConflict(t)
    PROVE  IInv'
<1>1. pc[t] = "insert" /\ pc' = [pc EXCEPT ![t] = pc'[t]]
  BY DEF IInv, TypeOK, InsertConflict, Goto
<1>2. TypeOK'
  BY DEF IInv, TypeOK, InsertConflict, Goto, Locations, tables, locks
<1>3. RequestOK(t)'
  BY <1>1 DEF IInv, TypeOK, InsertConflict, Goto, RequestOK, IsRefund, Resolved, tables, locks
<1>4. RefundOK(t)'
  BY <1>1 DEF IInv, TypeOK, InsertConflict, Goto, RequestOK, RefundOK, IsRefund, Body,
              Resolved, Locked, Validated, tables, locks
<1>5. InsertOK(t)'
  BY <1>1 DEF IInv, TypeOK, InsertConflict, Goto, RequestOK, InsertOK, Inserted, Body,
              tables, locks
<1>6. \A u \in Tasks \ {t} :
          /\ pc'[u] = pc[u] /\ body'[u] = body[u] /\ began'[u] = began[u]
          /\ KeepsLocks(u)
  BY <1>1 DEF IInv, TypeOK, InsertConflict, KeepsLocks, locks
<1> QED BY <1>2, <1>3, <1>4, <1>5, <1>6, HandlerStep DEF InsertConflict, tables

(* The lock of the store is taken.                                         *)
LEMMA FlushIInv ==
    ASSUME IInv, NEW t \in Tasks, Flush(t)
    PROVE  IInv'
<1>1. pc[t] = "flush" /\ pc' = [pc EXCEPT ![t] = pc'[t]]
  BY DEF IInv, TypeOK, Flush, Goto
<1>2. TypeOK'
  BY DEF IInv, TypeOK, Flush, Goto, Locations, tables, locks
<1>3. RequestOK(t)'
  BY <1>1 DEF IInv, TypeOK, Flush, Goto, RequestOK, IsRefund, Resolved, tables, locks
<1>4. RefundOK(t)'
  BY <1>1 DEF IInv, TypeOK, Flush, Goto, RequestOK, RefundOK, IsRefund, Body,
              Resolved, Locked, Validated, tables, locks
<1>5. InsertOK(t)'
  BY <1>1 DEF IInv, TypeOK, Flush, Goto, RequestOK, InsertOK, Inserted, Body,
              tables, locks
<1>6. \A u \in Tasks \ {t} :
          /\ pc'[u] = pc[u] /\ body'[u] = body[u] /\ began'[u] = began[u]
          /\ KeepsLocks(u)
  BY <1>1 DEF IInv, TypeOK, Flush, KeepsLocks, locks
<1> QED BY <1>2, <1>3, <1>4, <1>5, <1>6, HandlerStep DEF Flush, tables

(* The COMMIT may still be run.                                            *)
LEMMA LoseCommitIInv ==
    ASSUME IInv, NEW t \in Tasks, LoseCommit(t)
    PROVE  IInv'
<1>1. pc[t] = "commit" /\ pc' = [pc EXCEPT ![t] = pc'[t]]
  BY DEF IInv, TypeOK, LoseCommit, Goto
<1>2. TypeOK'
  BY DEF IInv, TypeOK, LoseCommit, Goto, Locations, Outcomes, tables, locks
<1>3. RequestOK(t)'
  BY <1>1 DEF IInv, TypeOK, LoseCommit, Goto, RequestOK, IsRefund, Resolved, tables, locks
<1>4. RefundOK(t)'
  BY <1>1 DEF IInv, TypeOK, LoseCommit, Goto, RequestOK, RefundOK, IsRefund, Body,
              Resolved, Locked, Validated, tables, locks
<1>5. InsertOK(t)'
  BY <1>1 DEF IInv, TypeOK, LoseCommit, Goto, RequestOK, InsertOK, Inserted, Body,
              tables, locks
<1>6. \A u \in Tasks \ {t} :
          /\ pc'[u] = pc[u] /\ body'[u] = body[u] /\ began'[u] = began[u]
          /\ KeepsLocks(u)
  BY <1>1 DEF IInv, TypeOK, LoseCommit, KeepsLocks, locks
<1> QED BY <1>2, <1>3, <1>4, <1>5, <1>6, HandlerStep DEF LoseCommit, tables

-----------------------------------------------------------------------------
(* COMMIT.                                                                 *)

(* The lock of a handler is its own: no two of them are past the lock of   *)
(* one sale, and no two have inserted one key.                             *)
LEMMA LocksExclude ==
    ASSUME IInv, NEW t \in Tasks, NEW u \in Tasks, t # u
    PROVE  /\ ~ /\ pc[t] \in Locked /\ IsRefund(t) /\ pc[u] \in Locked /\ IsRefund(u)
                /\ body[t].original = body[u].original
           /\ ~ /\ pc[t] \in Inserted /\ pc[u] \in Inserted
                /\ body[t].id = body[u].id
BY DEF IInv, RefundOK, InsertOK

(* The event of t becomes a row of the table.                              *)
LEMMA CommitStep ==
    ASSUME IInv, NEW t \in Tasks, pc[t] \in {"commit", "orphan"}, CommitRow(t),
           pc'[t] \in {"announce", "idle"}, TypeOK',
           pc'[t] = "announce" => body'[t] = body[t],
           \A u \in Tasks \ {t} : pc'[u] = pc[u] /\ body'[u] = body[u]
    PROVE  IInv'
<1> DEFINE p == body[t]
           e == p.id
           r == RowOf(p)
<1>1. p \in Payloads /\ p \in Body /\ WellFormed(p) /\ Fits(p) /\ e \in EventIds
  BY DEF IInv, RequestOK, InsertOK, Inserted, Body
<1>2. rows[e] = NoRow /\ keyLock[e] = t
  BY DEF IInv, InsertOK, Inserted
<1>3. p.store \in Stores /\ p.sku \in Products
  BY DEF IInv, RequestOK, Resolved
<1>4. rows \in [EventIds -> StoredBodies \cup {NoRow}]
  BY DEF IInv, TypeOK
<1>5. /\ r \in StoredBodies /\ r # NoRow
      /\ r.id = e /\ r.store = p.store /\ r.sku = p.sku
      /\ r.type = p.type /\ r.original = p.original
      /\ r.quantity = p.quantity /\ r.amount = p.amount
  BY <1>1, RowOfBody
<1>6. rows' = [rows EXCEPT ![e] = r]
  BY DEF CommitRow
<1>7. rows'[e] = r /\ \A x \in EventIds \ {e} : rows'[x] = rows[x]
  BY <1>1, <1>4, <1>6
<1>8. CountedTable(rows) /\ Counted(r)
  BY <1>5, RowsCounted DEF IInv, StoredBodies, Body, WellFormed, Fits, Counted
<1>9. \A o \in EventIds :
        IF p.type = "REFUND" /\ p.original = o
          THEN /\ RefundedQuantity(rows', o) = RefundedQuantity(rows, o) + p.quantity
               /\ RefundedAmount(rows', o) = RefundedAmount(rows, o) + p.amount
          ELSE /\ RefundedQuantity(rows', o) = RefundedQuantity(rows, o)
               /\ RefundedAmount(rows', o) = RefundedAmount(rows, o)
  <2> TAKE o \in EventIds
  <2> HIDE DEF r, e
  <2>1. Appends(rows', rows, e, r)
    BY <1>1, <1>2, <1>5, <1>7 DEF Appends
  <2>2. IsFiniteSet(EventIds)
    OBVIOUS
  <2>3. IF r.type = "REFUND" /\ r.original = o
          THEN /\ RefundedQuantity(rows', o) = RefundedQuantity(rows, o) + r.quantity
               /\ RefundedAmount(rows', o) = RefundedAmount(rows, o) + r.amount
          ELSE /\ RefundedQuantity(rows', o) = RefundedQuantity(rows, o)
               /\ RefundedAmount(rows', o) = RefundedAmount(rows, o)
    BY ONLY <1>8, <2>1, <2>2, RefundedAppend
  <2> QED BY <1>5, <2>3
<1> HIDE DEF r, e
<1>10. p.type = "REFUND" =>
         /\ p.original \in EventIds \ {e}
         /\ rows[p.original] # NoRow /\ rows[p.original].type = "SALE"
         /\ SameStoreAndProduct(rows, p) /\ WithinLimits(rows, p)
  <2>1. p.type = "REFUND" => p.original \in EventIds
    BY <1>1 DEF Body
  <2> QED BY <1>2, <2>1 DEF IInv, RefundOK, IsRefund, Locked, Validated
<1>11. ReferencesHold'
  <2> SUFFICES ASSUME NEW x \in EventIds, rows'[x] # NoRow
               PROVE  /\ rows'[x].id = x
                      /\ rows'[x].store \in Stores /\ rows'[x].sku \in Products
                      /\ rows'[x].type = "SALE" <=> rows'[x].original = NoEvent
                      /\ rows'[x].type = "REFUND" =>
                           /\ rows'[x].original # x
                           /\ rows'[rows'[x].original] # NoRow
                           /\ rows'[rows'[x].original].type = "SALE"
                           /\ SameStoreAndProduct(rows', rows'[x])
    BY DEF ReferencesHold
  <2>1. CASE x = e
    <3>1. p.type = "SALE" <=> p.original = NoEvent
      BY <1>1
    <3>2. p.type = "REFUND" => rows'[p.original] = rows[p.original]
      BY <1>7, <1>10
    <3> QED BY <1>3, <1>5, <1>7, <1>10, <2>1, <3>1, <3>2 DEF SameStoreAndProduct
  <2>2. CASE x # e
    <3>1. rows'[x] = rows[x]
      BY <1>7, <2>2
    <3>2. /\ rows[x].type = "SALE" <=> rows[x].original = NoEvent
          /\ rows[x].type = "REFUND" =>
               /\ rows[x].original # x
               /\ rows[rows[x].original] # NoRow
               /\ rows[rows[x].original].type = "SALE"
               /\ SameStoreAndProduct(rows, rows[x])
          /\ rows[x].id = x /\ rows[x].store \in Stores /\ rows[x].sku \in Products
      BY <3>1 DEF IInv, ReferencesHold
    <3>3. rows[x].type = "REFUND" => rows[x].original \in EventIds
      BY <1>4, <3>1, <3>2 DEF StoredBodies, Body
    <3>4. rows[x].type = "REFUND" => rows'[rows[x].original] = rows[rows[x].original]
      BY <1>2, <1>7, <3>2, <3>3
    <3> QED BY <3>1, <3>2, <3>4 DEF SameStoreAndProduct
  <2> QED BY <2>1, <2>2
<1>12. RefundLimits'
  <2> SUFFICES ASSUME NEW o \in EventIds, rows'[o] # NoRow, rows'[o].type = "SALE"
               PROVE  /\ RefundedQuantity(rows', o) <= rows'[o].quantity
                      /\ RefundedAmount(rows', o) <= rows'[o].amount
    BY DEF RefundLimits
  <2>1. CASE o = e
    <3>1. RefundsOf(rows', e) = {}
      <4> SUFFICES ASSUME NEW x \in EventIds, rows'[x] # NoRow,
                          rows'[x].type = "REFUND", rows'[x].original = e
                   PROVE  FALSE
        BY DEF RefundsOf
      <4>1. x # e
        BY <2>1
      <4>2. rows[x] # NoRow /\ rows[x].type = "REFUND" /\ rows[x].original = e
        BY <1>7, <4>1
      <4> QED BY <1>2, <4>2 DEF IInv, ReferencesHold
    <3>2. RefundedQuantity(rows', e) = 0 /\ RefundedAmount(rows', e) = 0
      BY <3>1, RefundedNothing
    <3>3. rows'[o].quantity > 0 /\ rows'[o].amount > 0
          /\ rows'[o].quantity \in Int /\ rows'[o].amount \in Int
      BY <1>5, <1>7, <2>1 DEF StoredBodies, Body, WellFormed
    <3> QED BY <2>1, <3>2, <3>3
  <2>2. CASE o # e
    <3>1. rows'[o] = rows[o]
      BY <1>7, <2>2
    <3>2. /\ RefundedQuantity(rows, o) <= rows[o].quantity
          /\ RefundedAmount(rows, o) <= rows[o].amount
      BY <3>1 DEF IInv, RefundLimits
    <3> QED BY <1>9, <1>10, <3>1, <3>2 DEF WithinLimits
  <2> QED BY <2>1, <2>2
<1>13. \A u \in Tasks : RequestOK(u)' /\ RefundOK(u)' /\ InsertOK(u)'
  <2>1. RequestOK(t)' /\ RefundOK(t)' /\ InsertOK(t)'
    BY <1>1 DEF RequestOK, RefundOK, InsertOK, Resolved, Locked, Validated, Inserted
  <2>2. ASSUME NEW u \in Tasks, u # t
        PROVE  RequestOK(u)' /\ RefundOK(u)' /\ InsertOK(u)'
    <3>1. /\ pc'[u] = pc[u] /\ body'[u] = body[u]
          /\ RequestOK(u) /\ RefundOK(u) /\ InsertOK(u)
      BY <2>2 DEF IInv
    <3>2. pc[u] # "idle" =>
            body[u] \in Payloads /\ body[u] \in Body /\ body[u].id \in EventIds
      BY <3>1 DEF RequestOK, Body
    <3>3. RequestOK(u)'
      BY <1>2, <1>7, <3>1, <3>2 DEF RequestOK, IsRefund
    <3>4. RefundOK(u)'
      <4> DEFINE o == body[u].original
      <4>1. SUFFICES ASSUME pc[u] \in Locked, IsRefund(u)
                     PROVE  /\ rowLock'[o] = u /\ rows'[o] # NoRow /\ rows'[o].type = "SALE"
                            /\ pc[u] \in Validated =>
                                  /\ SameStoreAndProduct(rows', body[u])
                                  /\ WithinLimits(rows', body[u])
        BY <3>1 DEF RefundOK, IsRefund, Locked, Validated
      <4>2. o \in EventIds /\ rowLock[o] = u /\ rows[o] # NoRow /\ rows[o].type = "SALE"
        BY <3>1, <3>2, <4>1 DEF RefundOK, IsRefund, Locked, Body
      <4>3. rowLock'[o] = u
        BY <2>2, <4>2 DEF IInv, TypeOK, CommitRow, ReleaseLocks, Freed
      <4>4. rows'[o] = rows[o]
        BY <1>2, <1>7, <4>2
      <4>5. ~ (p.type = "REFUND" /\ p.original = o)
        BY <2>2, <4>1, LocksExclude DEF Locked, IsRefund
      <4>6. /\ RefundedQuantity(rows', o) = RefundedQuantity(rows, o)
            /\ RefundedAmount(rows', o) = RefundedAmount(rows, o)
        BY <1>9, <4>2, <4>5
      <4>7. pc[u] \in Validated =>
              SameStoreAndProduct(rows, body[u]) /\ WithinLimits(rows, body[u])
        BY <3>1, <4>1 DEF RefundOK
      <4> QED BY <4>2, <4>3, <4>4, <4>6, <4>7 DEF SameStoreAndProduct, WithinLimits
    <3>5. InsertOK(u)'
      <4> SUFFICES ASSUME pc[u] \in Inserted
                   PROVE  /\ keyLock'[body[u].id] = u /\ rows'[body[u].id] = NoRow
                          /\ Fits(body[u])
        BY <3>1 DEF InsertOK
      <4>1. body[u].id \in EventIds
        BY <3>2 DEF Inserted
      <4>2. keyLock[body[u].id] = u /\ rows[body[u].id] = NoRow /\ Fits(body[u])
        BY <3>1 DEF InsertOK
      <4>3. body[u].id # e
        BY <1>2, <2>2, <4>2
      <4>4. keyLock'[body[u].id] = u
        BY <2>2, <4>1, <4>2 DEF IInv, TypeOK, CommitRow, ReleaseLocks, Freed
      <4> QED BY <1>7, <4>1, <4>2, <4>3, <4>4
    <3> QED BY <3>3, <3>4, <3>5
  <2> QED BY <2>1, <2>2
<1> QED BY <1>11, <1>12, <1>13 DEF IInv

(* COMMIT leaves every variable its type.                                  *)
LEMMA CommitTypes ==
    ASSUME IInv, NEW t \in Tasks, pc[t] \in {"commit", "orphan"}, CommitRow(t)
    PROVE  /\ rows' \in [EventIds -> StoredBodies \cup {NoRow}]
           /\ receivedAt' \in [EventIds -> Times]
           /\ lastSeen' \in [Stores -> Times]
           /\ rowLock' \in [EventIds -> Tasks \cup {Nobody}]
           /\ keyLock' \in [EventIds -> Tasks \cup {Nobody}]
           /\ storeLock' \in [Stores -> Tasks \cup {Nobody}]
<1>1. /\ body[t] \in Payloads /\ WellFormed(body[t]) /\ Fits(body[t])
      /\ RowOf(body[t]) \in StoredBodies
  BY RowOfBody DEF IInv, RequestOK, InsertOK, Inserted
<1>2. rows' \in [EventIds -> StoredBodies \cup {NoRow}]
  BY <1>1 DEF IInv, TypeOK, CommitRow
<1>3. receivedAt' \in [EventIds -> Times] /\ lastSeen' \in [Stores -> Times]
  BY DEF IInv, TypeOK, CommitRow
<1>4. /\ rowLock' \in [EventIds -> Tasks \cup {Nobody}]
      /\ keyLock' \in [EventIds -> Tasks \cup {Nobody}]
      /\ storeLock' \in [Stores -> Tasks \cup {Nobody}]
  BY DEF IInv, TypeOK, CommitRow, ReleaseLocks, Freed
<1> QED BY <1>2, <1>3, <1>4

(* The COMMIT whose outcome the handler learns.                            *)
LEMMA CommitIInv ==
    ASSUME IInv, NEW t \in Tasks, Commit(t)
    PROVE  IInv'
<1>1. pc[t] = "commit" /\ CommitRow(t) /\ pc' = [pc EXCEPT ![t] = "announce"]
  BY DEF Commit, Goto
<1>2. TypeOK'
  BY <1>1, CommitTypes DEF IInv, TypeOK, Commit, Locations, Outcomes
<1>3. /\ pc'[t] = "announce" /\ body' = body
      /\ \A u \in Tasks \ {t} : pc'[u] = pc[u]
  BY <1>1 DEF IInv, TypeOK, Commit
<1> QED BY <1>1, <1>2, <1>3, CommitStep

(* The COMMIT whose outcome nobody learns.                                 *)
LEMMA OrphanCommitIInv ==
    ASSUME IInv, NEW t \in Tasks, OrphanCommit(t)
    PROVE  IInv'
<1>1. pc[t] = "orphan" /\ CommitRow(t) /\ Answer(t, "orphan")
  BY DEF OrphanCommit, Answer, Goto
<1>2. TypeOK'
  BY <1>1, CommitTypes
     DEF IInv, TypeOK, OrphanCommit, Answer, Goto, Locations, Outcomes, Times
<1>3. /\ pc'[t] = "idle"
      /\ \A u \in Tasks \ {t} : pc'[u] = pc[u] /\ body'[u] = body[u]
  BY <1>1 DEF IInv, TypeOK, Answer, Goto
<1> QED BY <1>1, <1>2, <1>3, CommitStep

-----------------------------------------------------------------------------
(* A request arrives at an idle handler.                                   *)
LEMMA ArriveIInv ==
    ASSUME IInv, NEW t \in Tasks, NEW p \in Payloads, Arrive(t, p)
    PROVE  IInv'
<1>1. /\ pc'[t] = "begin" /\ body'[t] = p /\ WellFormed(p)
      /\ UNCHANGED <<rows, rowLock, keyLock>>
  BY DEF IInv, TypeOK, Arrive, Goto, tables, locks
<1>2. TypeOK'
  BY DEF IInv, TypeOK, Arrive, Goto, Locations, tables, locks
<1>3. RequestOK(t)' /\ RefundOK(t)' /\ InsertOK(t)'
  BY <1>1 DEF RequestOK, RefundOK, InsertOK, Resolved, Locked, Validated, Inserted
<1>4. \A u \in Tasks \ {t} :
          /\ pc'[u] = pc[u] /\ body'[u] = body[u] /\ began'[u] = began[u]
          /\ KeepsLocks(u)
  BY <1>1 DEF IInv, TypeOK, Arrive, Goto, KeepsLocks
<1> QED BY <1>1, <1>2, <1>3, <1>4, HandlerStep

(* The steps in which a handler reaches a verdict other than "accepted".   *)
Deciding(t) ==
    \/ UnknownStore(t) \/ UnknownProduct(t) \/ OriginalMissing(t) \/ OriginalNotSale(t)
    \/ ReferenceMismatch(t) \/ LimitExceeded(t) \/ InsertOverflow(t)
    \/ Classify(t) \/ DatabaseError(t)

(* A handler that makes up its mind changes no table.                      *)
LEMMA DecidingIInv ==
    ASSUME IInv, NEW t \in Tasks, Deciding(t)
    PROVE  IInv'
<1>1. ASSUME NEW from, NEW verdict \in Outcomes, from # "idle",
             Reject(t, from, verdict), UNCHANGED <<tables, locks, announced, now>>
      PROVE  IInv'
  <2>1. Decide(t, from, verdict, Never) /\ Never \in Times /\ pc[t] # "idle"
    BY <1>1 DEF Reject, Decide, Goto, Times
  <2>2. /\ UNCHANGED <<tables, keyLock, storeLock, announced, now>>
        /\ rowLock' = rowLock /\ rowLock \in [EventIds -> Tasks \cup {Nobody}]
    BY <1>1 DEF IInv, TypeOK, locks
  <2> QED BY <1>1, <2>1, <2>2, DecideStep
<1>2. CASE UnknownStore(t)
  BY <1>1, <1>2 DEF UnknownStore, Outcomes
<1>3. CASE UnknownProduct(t)
  BY <1>1, <1>3 DEF UnknownProduct, Outcomes
<1>4. CASE OriginalMissing(t)
  BY <1>1, <1>4 DEF OriginalMissing, Outcomes
<1>5. CASE OriginalNotSale(t)
  <2>1. /\ Decide(t, "lock", "original not a sale", Never) /\ Never \in Times
        /\ pc[t] = "lock" /\ "original not a sale" \in Outcomes
        /\ UNCHANGED <<tables, keyLock, storeLock, announced, now>>
    BY <1>5 DEF OriginalNotSale, TakeRowLock, Reject, Outcomes, Times
  <2>2. /\ rowLock' \in [EventIds -> Tasks \cup {Nobody}]
        /\ \A u \in Tasks \ {t}, e \in EventIds : rowLock[e] = u => rowLock'[e] = u
    <3> DEFINE o == body[t].original
    <3>1. rowLock' = [rowLock EXCEPT ![o] = t] /\ rowLock[o] = Nobody
      BY <1>5 DEF OriginalNotSale, TakeRowLock
    <3>2. rowLock \in [EventIds -> Tasks \cup {Nobody}]
      BY DEF IInv, TypeOK
    <3> HIDE DEF o
    <3> QED BY <3>1, <3>2
  <2>3. pc[t] # "idle"
    BY <2>1
  <2> QED BY <2>1, <2>2, <2>3, DecideStep, Zenon
<1>6. CASE ReferenceMismatch(t)
  BY <1>1, <1>6 DEF ReferenceMismatch, Outcomes
<1>7. CASE LimitExceeded(t)
  BY <1>1, <1>7 DEF LimitExceeded, Outcomes
<1>8. CASE InsertOverflow(t)
  BY <1>1, <1>8 DEF InsertOverflow, Outcomes
<1>9. CASE Classify(t)
  <2> DEFINE verdict == Verdict(rows[body[t].id], body[t])
             time == IF verdict = "duplicate" THEN receivedAt[body[t].id] ELSE Never
  <2>1. verdict \in Outcomes
    BY DEF Verdict, Outcomes
  <2>2. pc[t] = "classify" /\ Decide(t, "classify", verdict, time)
        /\ UNCHANGED <<tables, locks, announced, now>>
    BY <1>9 DEF Classify, Decide, Goto
  <2>3. body[t].id \in EventIds
    BY <2>2 DEF IInv, RequestOK, Body
  <2>4. time \in Times
    BY <2>3 DEF IInv, TypeOK, Times
  <2>5. /\ UNCHANGED <<tables, keyLock, storeLock, announced, now>>
        /\ rowLock' = rowLock /\ rowLock \in [EventIds -> Tasks \cup {Nobody}]
    BY <2>2 DEF IInv, TypeOK, locks
  <2> HIDE DEF verdict, time
  <2> QED BY <2>1, <2>2, <2>4, <2>5, DecideStep
<1>10. CASE DatabaseError(t)
  BY <1>1, <1>10 DEF DatabaseError, Outcomes
<1> QED BY <1>2, <1>3, <1>4, <1>5, <1>6, <1>7, <1>8, <1>9, <1>10 DEF Deciding

(* The steps in which a request ends without a row being stored.           *)
LEMMA EndIInv ==
    ASSUME IInv, NEW t \in Tasks, Rollback(t) \/ OrphanAbort(t) \/ Broadcast(t)
    PROVE  IInv'
<1>1. CASE Rollback(t)
  BY <1>1, AnswerStep DEF Rollback, IInv, TypeOK
<1>2. CASE OrphanAbort(t)
  BY <1>2, AnswerStep DEF OrphanAbort, IInv, TypeOK, tables
<1>3. CASE Broadcast(t)
  <2>1. announced' \in [EventIds -> Nat]
    <3>1. announced \in [EventIds -> Nat] /\ body[t].id \in EventIds
      BY <1>3 DEF Broadcast, Answer, Goto, IInv, TypeOK, RequestOK, Body
    <3>2. announced' = [announced EXCEPT ![body[t].id] = announced[body[t].id] + 1]
      BY <1>3 DEF Broadcast
    <3> QED BY <3>1, <3>2
  <2>2. Answer(t, "announce") /\ UNCHANGED <<tables, now>> /\ UNCHANGED locks
    BY <1>3 DEF Broadcast
  <2> QED BY <2>1, <2>2, AnswerStep
<1> QED BY <1>1, <1>2, <1>3

(* A crash ends every transaction but those whose COMMIT was sent: they    *)
(* keep their locks.                                                       *)
LEMMA CrashIInv ==
    ASSUME IInv, Crash
    PROVE  IInv'
<1>1. /\ rowLock' \in [EventIds -> Tasks \cup {Nobody}]
      /\ keyLock' \in [EventIds -> Tasks \cup {Nobody}]
      /\ storeLock' \in [Stores -> Tasks \cup {Nobody}]
  BY DEF IInv, TypeOK, Crash
<1>2. TypeOK'
  BY <1>1 DEF IInv, TypeOK, Crash, Survives, Locations, Outcomes, Times, tables
<1>3. ASSUME NEW u \in Tasks
      PROVE  RequestOK(u)' /\ RefundOK(u)' /\ InsertOK(u)'
  <2>1. CASE Survives(u)
    <3>1. /\ pc'[u] = "orphan" /\ body'[u] = body[u] /\ rows' = rows
          /\ pc[u] \in {"commit", "orphan"}
      BY <2>1 DEF Crash, Survives, tables
    <3>2. \A e \in EventIds : /\ rowLock[e] = u => rowLock'[e] = u
                              /\ keyLock[e] = u => keyLock'[e] = u
      BY <2>1 DEF IInv, TypeOK, Crash
    <3>3. RequestOK(u) /\ RefundOK(u) /\ InsertOK(u)
      BY DEF IInv
    <3>4. body[u] \in Payloads /\ body[u] \in Body
      BY <3>1, <3>3 DEF RequestOK
    <3>5. RequestOK(u)'
      BY <3>1, <3>3 DEF RequestOK, Resolved, IsRefund
    <3>6. RefundOK(u)'
      <4>1. IsRefund(u) => body[u].original \in EventIds
        BY <3>4 DEF IsRefund, Body
      <4> QED BY <3>1, <3>2, <3>3, <4>1 DEF RefundOK, Locked, Validated, IsRefund
    <3>7. InsertOK(u)'
      BY <3>1, <3>2, <3>3, <3>4 DEF InsertOK, Inserted, Body
    <3> QED BY <3>5, <3>6, <3>7
  <2>2. CASE ~ Survives(u)
    <3>1. pc'[u] = "idle"
      BY <2>2 DEF Crash
    <3> QED BY <3>1 DEF RequestOK, RefundOK, InsertOK, Resolved, Locked, Validated, Inserted
  <2> QED BY <2>1, <2>2
<1>4. ReferencesHold' /\ RefundLimits'
  BY DEF IInv, Crash, ReferencesHold, RefundLimits, tables
<1> QED BY <1>2, <1>3, <1>4 DEF IInv

(* Time passes, or nothing happens.                                        *)
LEMMA TickIInv ==
    ASSUME IInv, Tick \/ UNCHANGED vars
    PROVE  IInv'
<1>1. UNCHANGED <<handlers, tables, locks, announced>>
  BY DEF Tick, vars
<1>2. TypeOK'
  <2>1. now' \in Time
    BY DEF IInv, TypeOK, Tick, Time, vars
  <2> QED BY <1>1, <2>1 DEF IInv, TypeOK, handlers, tables, locks
<1>3. \A u \in Tasks : RequestOK(u)' /\ RefundOK(u)' /\ InsertOK(u)'
  BY <1>1, OthersUndisturbed DEF handlers, tables, locks
<1>4. ReferencesHold' /\ RefundLimits'
  BY <1>1 DEF IInv, ReferencesHold, RefundLimits, tables
<1> QED BY <1>2, <1>3, <1>4 DEF IInv

-----------------------------------------------------------------------------
(* Every step preserves the invariant.                                     *)
LEMMA NextIInv == IInv /\ [Next]_vars => IInv'
<1> SUFFICES ASSUME IInv, [Next]_vars PROVE IInv'
  OBVIOUS
<1>1. ASSUME NEW t \in Tasks, NEW p \in Payloads, Arrive(t, p) PROVE IInv'
  BY <1>1, ArriveIInv
<1>2. ASSUME NEW t \in Tasks, Proceed(t) PROVE IInv'
  BY <1>2, BeginIInv, ResolveIInv, LockOriginalIInv, RecheckIInv, ValidateRefundIInv,
     InsertIInv, InsertConflictIInv, FlushIInv, CommitIInv, DecidingIInv, EndIInv
     DEF Proceed, Deciding
<1>3. ASSUME NEW t \in Tasks, Fault(t) PROVE IInv'
  BY <1>3, DecidingIInv, LoseCommitIInv DEF Fault, Deciding
<1>4. ASSUME NEW t \in Tasks, EndOrphan(t) PROVE IInv'
  BY <1>4, OrphanCommitIInv, EndIInv DEF EndOrphan
<1> QED BY <1>1, <1>2, <1>3, <1>4, CrashIInv, TickIInv DEF Next

(* The invariant: what every handler has established holds at any time.    *)
THEOREM InductiveInvariant == Spec => []IInv
BY InitIInv, NextIInv, PTL DEF Spec

(* Type correctness; what is in the table fits its columns.                *)
THEOREM TypeCorrect == Spec => []TypeOK
<1>1. IInv => TypeOK
  BY DEF IInv
<1> QED BY InductiveInvariant, <1>1, PTL

(* The refunds of a sale never exceed it, however requests interleave, and *)
(* whatever crashes, lost connections and lost replies there are.          *)
THEOREM RefundsWithinLimits == Spec => []RefundLimits
<1>1. IInv => RefundLimits
  BY DEF IInv
<1> QED BY InductiveInvariant, <1>1, PTL

(* Refunds refer to stored sales of the same store and product: the        *)
(* constraints of the table have nothing to refuse.                        *)
THEOREM ReferentialIntegrity == Spec => []ReferencesHold
<1>1. IInv => ReferencesHold
  BY DEF IInv
<1> QED BY InductiveInvariant, <1>1, PTL

(* The RuntimeError of _classify_existing_event cannot be reached.         *)
THEOREM ClassificationFindsRow == Spec => []ConflictRowVisible
<1>1. IInv => ConflictRowVisible
  BY DEF IInv, RequestOK, ConflictRowVisible
<1> QED BY InductiveInvariant, <1>1, PTL

(* The ledger is append-only: a row, once committed, is never changed.     *)
THEOREM AppendOnly == Spec => RowsImmutable
<1>1. ASSUME IInv, NEW t \in Tasks, pc[t] \in {"commit", "orphan"}, CommitRow(t)
      PROVE  RowsKept
  <2>1. rows[body[t].id] = NoRow
    BY <1>1 DEF IInv, InsertOK, Inserted
  <2>2. rows \in [EventIds -> StoredBodies \cup {NoRow}] /\ receivedAt \in [EventIds -> Times]
    BY <1>1 DEF IInv, TypeOK
  <2> QED BY <1>1, <2>1, <2>2 DEF CommitRow, RowsKept
<1>2. ASSUME UNCHANGED tables PROVE RowsKept
  BY <1>2 DEF tables, RowsKept
<1>3. ASSUME IInv, NEW t \in Tasks, Proceed(t) \/ Fault(t) \/ EndOrphan(t)
      PROVE  RowsKept
  <2>1. CASE Commit(t)
    BY <1>1, <1>3, <2>1 DEF Commit, Goto
  <2>2. CASE OrphanCommit(t)
    BY <1>1, <1>3, <2>2 DEF OrphanCommit, Answer, Goto
  <2>3. CASE ~ Commit(t) /\ ~ OrphanCommit(t)
    <3>1. UNCHANGED tables
      BY <1>3, <2>3 DEF Proceed, Fault, EndOrphan, Begin, Resolve, UnknownStore,
         UnknownProduct, OriginalMissing, OriginalNotSale, LockOriginal, Recheck,
         ReferenceMismatch, LimitExceeded, ValidateRefund, Insert, InsertConflict,
         InsertOverflow, Flush, Classify, Rollback, Broadcast, DatabaseError,
         LoseCommit, OrphanAbort
    <3> QED BY <1>2, <3>1
  <2> QED BY <2>1, <2>2, <2>3
<1>4. IInv /\ [Next]_vars => [RowsKept]_vars
  BY <1>2, <1>3 DEF Next, Arrive, Crash, Tick, vars
<1> QED BY InductiveInvariant, <1>4, PTL DEF Spec, RowsImmutable
=============================================================================
