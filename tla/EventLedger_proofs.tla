------------------------- MODULE EventLedger_proofs -------------------------
(***************************************************************************)
(* EventIngestion implements EventLedger, for every number of handlers,    *)
(* events, stores and payloads: every step of a handler is a step of the   *)
(* ledger or leaves it as it is.                                           *)
(***************************************************************************)
EXTENDS EventAnswers_proofs

USE SentinelsAssumption, DatabaseAssumption, PayloadsAssumption

(* The ledger is held to the same rules.                                   *)
LEMMA SameRules ==
    ASSUME NEW table, NEW p
    PROVE  /\ Ledger!WellFormed(p) <=> WellFormed(p)
           /\ Ledger!SameStoreAndProduct(table, p) <=> SameStoreAndProduct(table, p)
           /\ Ledger!WithinLimits(table, p) <=> WithinLimits(table, p)
<1>1. \A o : Ledger!RefundsOf(table, o) = RefundsOf(table, o)
  BY DEF Ledger!RefundsOf, RefundsOf
<1>2. \A f : Ledger!Total(f) = Total(f)
  <2>1. \A S : Ledger!Cardinality(S) = Cardinality(S)
    BY DEF Ledger!Cardinality, Cardinality
  <2> QED BY <2>1 DEF Ledger!Total, Total, Ledger!Units, Units
<1>3. \A o : /\ Ledger!RefundedQuantity(table, o) = RefundedQuantity(table, o)
             /\ Ledger!RefundedAmount(table, o) = RefundedAmount(table, o)
  BY <1>1, <1>2 DEF Ledger!RefundedQuantity, RefundedQuantity,
                    Ledger!RefundedAmount, RefundedAmount
<1> QED BY <1>3 DEF Ledger!WellFormed, WellFormed, Ledger!SameStoreAndProduct,
                    SameStoreAndProduct, Ledger!WithinLimits, WithinLimits

(* They say the same of a body and of what is recorded of it.              *)
LEMMA RulesOfRow ==
    ASSUME NEW p \in Payloads
    PROVE  /\ WellFormed(RowOf(p)) <=> WellFormed(p)
           /\ SameStoreAndProduct(rows, RowOf(p)) <=> SameStoreAndProduct(rows, p)
           /\ WithinLimits(rows, RowOf(p)) <=> WithinLimits(rows, p)
BY RecordedBody DEF WellFormed, SameStoreAndProduct, WithinLimits

-----------------------------------------------------------------------------
(***************************************************************************)
(* How the variables of the ledger follow those of the handlers            *)
(***************************************************************************)
Phase == [t \in Tasks |-> PhaseOf(t)]
Request == [t \in Tasks |-> IF body[t] = NoPayload THEN NoPayload ELSE RowOf(body[t])]

(* A handler that is not idle has a request before the ledger.             *)
LEMMA OpenRequest ==
    ASSUME IInv, NEW t \in Tasks, pc[t] # "idle"
    PROVE  Request[t] = RowOf(body[t]) /\ body[t] \in Payloads /\ body[t].id \in EventIds
BY WorksOnPayload DEF Request

(* A handler moves to another phase, or to another place in the same one.  *)
LEMMA PhaseMoves ==
    ASSUME IInv, NEW t \in Tasks, pc' = [pc EXCEPT ![t] = pc'[t]],
           NEW from, NEW to, PhaseOf(t) = from, PhaseOf(t)' = to
    PROVE  Ledger!Move(t, from, to)
<1>1. pc \in [Tasks -> Locations]
  BY DEF IInv, TypeOK
<1>2. \A u \in Tasks \ {t} : pc'[u] = pc[u]
  BY <1>1
<1>3. \A u \in Tasks \ {t} : PhaseOf(u)' = PhaseOf(u)
  BY <1>2 DEF PhaseOf
<1>4. Phase' = [Phase EXCEPT ![t] = to]
  BY <1>3 DEF Phase
<1>5. Phase[t] = from
  BY DEF Phase
<1> QED BY <1>4, <1>5 DEF Ledger!Move, Phase

(* The ledger sees another request only when a body changes.               *)
LEMMA RequestsKept ==
    ASSUME body' = body
    PROVE  Request' = Request
BY DEF Request, RowOf

(* The handler makes up its mind, and the ledger does not change.          *)
LEMMA DecidedMoves ==
    ASSUME IInv, NEW t \in Tasks, NEW v, NEW time, Decided(t, v, time)
    PROVE  /\ Ledger!Move(t, "open", "decided")
           /\ outcome' = [outcome EXCEPT ![t] = v]
           /\ UNCHANGED <<Request, rows>>
<1>1. pc \in [Tasks -> Locations]
  BY DEF IInv, TypeOK
<1>2. PhaseOf(t) = "open" /\ PhaseOf(t)' = "decided"
  BY <1>1 DEF Decided, PhaseOf, Working, Undecided, Locations
<1>3. pc' = [pc EXCEPT ![t] = pc'[t]]
  BY <1>1 DEF Decided
<1> QED BY <1>2, <1>3, PhaseMoves, RequestsKept DEF Decided, tables

(* The handler answers.                                                    *)
LEMMA AnswerCloses ==
    ASSUME IInv, NEW t \in Tasks, NEW from, Answer(t, from),
           NEW phase, PhaseOf(t) = phase
    PROVE  Ledger!Close(t, phase)
<1>1. /\ pc \in [Tasks -> Locations] /\ body \in [Tasks -> Payloads \cup {NoPayload}]
      /\ NoPayload \notin Payloads
  BY DEF IInv, TypeOK
<1>2. /\ pc' = [pc EXCEPT ![t] = "idle"] /\ body' = [body EXCEPT ![t] = NoPayload]
      /\ outcome' = [outcome EXCEPT ![t] = "none"]
  BY DEF Answer, Goto
<1>3. Ledger!Move(t, phase, "idle")
  <2>1. PhaseOf(t)' = "idle"
    BY <1>1, <1>2 DEF PhaseOf
  <2> QED BY <1>1, <1>2, <2>1, PhaseMoves
<1>4. Request' = [Request EXCEPT ![t] = NoPayload]
  BY <1>1, <1>2 DEF Request, RowOf
<1> QED BY <1>2, <1>3, <1>4 DEF Ledger!Close, Request

(* The event of a handler that runs COMMIT may be appended.                *)
LEMMA CommitAppends ==
    ASSUME IInv, NEW t \in Tasks, pc[t] \in {"commit", "orphan"}, CommitRow(t)
    PROVE  Ledger!Append(Request[t])
<1> DEFINE p == body[t]
           row == RowOf(p)
<1>1. p \in Payloads /\ p.id \in EventIds /\ Request[t] = row
  BY OpenRequest
<1>2. /\ p.store \in Stores /\ p.sku \in Products /\ rows[p.id] = NoRow
  BY DEF IInv, RequestOK, InsertOK, Resolved, Inserted
<1>3. p.type = "REFUND" =>
         /\ rows[p.original] # NoRow /\ rows[p.original].type = "SALE"
         /\ SameStoreAndProduct(rows, p) /\ WithinLimits(rows, p)
  BY DEF IInv, RefundOK, IsRefund, Locked, Validated
<1>4. /\ row.id = p.id /\ row.store = p.store /\ row.sku = p.sku
      /\ row.type = p.type /\ row.original = p.original
  BY <1>1, RecordedBody
<1>5. /\ SameStoreAndProduct(rows, row) <=> SameStoreAndProduct(rows, p)
      /\ WithinLimits(rows, row) <=> WithinLimits(rows, p)
  BY <1>1, RulesOfRow
<1>6. rows' = [rows EXCEPT ![row.id] = row]
  BY <1>4 DEF CommitRow
<1> HIDE DEF row, p
<1>7. Ledger!Admissible(row)
  BY <1>2, <1>3, <1>4, <1>5, SameRules DEF Ledger!Admissible, Ledger!IsSale
<1> QED BY <1>1, <1>6, <1>7 DEF Ledger!Append

-----------------------------------------------------------------------------
(***************************************************************************)
(* Each step is a step of the ledger, or none                              *)
(***************************************************************************)
LEMMA ArriveReceives ==
    ASSUME IInv, NEW t \in Tasks, NEW p \in Payloads, Arrive(t, p)
    PROVE  Ledger!LedgerNext
<1>1. /\ pc \in [Tasks -> Locations] /\ body \in [Tasks -> Payloads \cup {NoPayload}]
  BY DEF IInv, TypeOK
<1>2. /\ pc[t] = "idle" /\ pc' = [pc EXCEPT ![t] = "begin"] /\ WellFormed(p)
      /\ body' = [body EXCEPT ![t] = p] /\ UNCHANGED <<outcome, rows>>
  BY DEF Arrive, Goto, tables
<1>3. Ledger!Move(t, "idle", "open")
  <2>1. PhaseOf(t) = "idle" /\ PhaseOf(t)' = "open"
    BY <1>1, <1>2 DEF PhaseOf
  <2> QED BY <1>1, <1>2, <2>1, PhaseMoves
<1>4. Request' = [Request EXCEPT ![t] = RowOf(p)]
  BY <1>1, <1>2 DEF Request, RowOf
<1>5. Ledger!WellFormed(RowOf(p))
  BY <1>2, RulesOfRow, SameRules
<1>6. Ledger!Receive(t, RowOf(p))
  BY <1>2, <1>3, <1>4, <1>5 DEF Ledger!Receive, Request
<1> QED BY <1>6 DEF Ledger!LedgerNext

(* The statements between arrival and verdict are nothing to the ledger.   *)
LEMMA AdvanceStutters ==
    ASSUME IInv, NEW t \in Tasks, Advance(t)
    PROVE  UNCHANGED Ledger!ledgerVars
<1>1. /\ pc[t] \in Working /\ pc'[t] \in Working \ {"begin"}
      /\ pc' = [pc EXCEPT ![t] = pc'[t]]
      /\ UNCHANGED <<body, outcome, rows>>
  BY AdvanceEffect DEF tables
<1>2. Phase' = Phase
  <2>1. pc \in [Tasks -> Locations]
    BY DEF IInv, TypeOK
  <2>2. ASSUME NEW u \in Tasks PROVE PhaseOf(u)' = PhaseOf(u)
    BY <1>1, <2>1 DEF PhaseOf, Working, Undecided, Locations
  <2> QED BY <2>2 DEF Phase
<1> QED BY <1>1, <1>2, RequestsKept DEF Ledger!ledgerVars, Phase, Request

(* A refusal says what is true of the ledger, and not of an exact retry.   *)
LEMMA RefusingRefuses ==
    ASSUME Lossless, IInv, AnswersInv, NEW t \in Tasks, NEW v \in Ledger!Refusals, NEW time,
           Deciding(t), Decided(t, v, time), Ledger!Justified(v, RowOf(body[t]))
    PROVE  Ledger!LedgerNext
<1>1. pc[t] \notin {"idle", "rollback"}
  BY DEF Decided, Working, Undecided, Locations
<1>2. Request[t] = RowOf(body[t]) /\ body[t] \in Payloads
  BY <1>1, OpenRequest
<1>3. outcome'[t] = v /\ v \notin Answers
  BY DEF Decided, IInv, TypeOK, Ledger!Refusals, Answers
<1>4. rows[body[t].id] # RowOf(body[t])
  BY <1>1, <1>2, <1>3, RetryNotRefused, RecordedBody DEF Retrying
<1>5. RowOf(body[t]).id = body[t].id
  BY <1>2, RecordedBody
<1>6. Ledger!Refuse(t)
  BY <1>2, <1>4, <1>5, DecidedMoves DEF Ledger!Refuse, Request
<1> QED BY <1>6 DEF Ledger!LedgerNext

(* A 500 is a failure the ledger allows at any time.                       *)
LEMMA ErrorFails ==
    ASSUME IInv, NEW t \in Tasks, NEW time, Decided(t, "error", time)
    PROVE  Ledger!LedgerNext
<1>1. Ledger!Fail(t)
  BY DecidedMoves DEF Ledger!Fail, Request
<1> QED BY <1>1 DEF Ledger!LedgerNext

(* Every other verdict is justified by what is in the ledger when it is    *)
(* reached.                                                                *)
LEMMA DecidingRefines ==
    ASSUME Lossless, IInv, AnswersInv, NEW t \in Tasks, Deciding(t)
    PROVE  Ledger!LedgerNext
<1> DEFINE p == body[t]
           row == RowOf(p)
<1>1. pc[t] \notin {"idle", "rollback"}
  BY DecidingEffect DEF Decided, Working, Undecided, Locations
<1>2. /\ p \in Payloads /\ p.id \in EventIds
      /\ row.id = p.id /\ row.store = p.store /\ row.sku = p.sku
      /\ row.type = p.type /\ row.original = p.original /\ row # NoRow
  BY <1>1, WorksOnPayload, RecordedBody
<1>3. /\ SameStoreAndProduct(rows, row) <=> SameStoreAndProduct(rows, p)
      /\ WithinLimits(rows, row) <=> WithinLimits(rows, p)
  BY <1>2, RulesOfRow
<1>4. pc[t] \in {"lock", "validate"} => p.type = "REFUND"
  BY DEF IInv, RequestOK, IsRefund
<1>5. pc[t] = "validate" => rows[p.original] # NoRow /\ rows[p.original].type = "SALE"
  BY <1>4 DEF IInv, RefundOK, IsRefund, Locked
<1>6. ASSUME NEW from \in Working \ {"commit"}, NEW v, Reject(t, from, v),
             UNCHANGED <<tables, locks, announced, now>>
      PROVE  Decided(t, v, Never)
  BY <1>6 DEF Reject, Decide, Goto, Decided, Gains, locks
<1>7. {"resolve", "lock", "validate", "insert", "classify"}
         \subseteq Working \ {"commit"}
  BY DEF Working, Undecided, Locations
<1> HIDE DEF p, row
<1>8. CASE UnknownStore(t)
  <2>1. Decided(t, "unknown store", Never) /\ p.store \notin Stores
    BY <1>6, <1>7, <1>8 DEF UnknownStore, p
  <2>2. Ledger!Justified("unknown store", row) /\ "unknown store" \in Ledger!Refusals
    BY <1>2, <2>1 DEF Ledger!Justified, Ledger!Refusals
  <2> QED BY <2>1, <2>2, RefusingRefuses DEF row, p
<1>9. CASE UnknownProduct(t)
  <2>1. Decided(t, "unknown product", Never) /\ p.sku \notin Products
    BY <1>6, <1>7, <1>9 DEF UnknownProduct, p
  <2>2. Ledger!Justified("unknown product", row) /\ "unknown product" \in Ledger!Refusals
    BY <1>2, <2>1 DEF Ledger!Justified, Ledger!Refusals
  <2> QED BY <2>1, <2>2, RefusingRefuses DEF row, p
<1>10. CASE OriginalMissing(t)
  <2>1. Decided(t, "original not found", Never) /\ pc[t] = "lock" /\ rows[p.original] = NoRow
    BY <1>6, <1>7, <1>10 DEF OriginalMissing, p
  <2>2. /\ Ledger!Justified("original not found", row)
        /\ "original not found" \in Ledger!Refusals
    BY <1>2, <1>4, <2>1 DEF Ledger!Justified, Ledger!Refusals
  <2> QED BY <2>1, <2>2, RefusingRefuses DEF row, p
<1>11. CASE OriginalNotSale(t)
  <2>1. /\ pc[t] = "lock" /\ rows[p.original] # NoRow /\ rows[p.original].type # "SALE"
        /\ Decide(t, "lock", "original not a sale", Never)
    BY <1>11 DEF OriginalNotSale, TakeRowLock, Reject, p
  <2>2. Decided(t, "original not a sale", Never)
    <3>1. /\ rowLock' = [rowLock EXCEPT ![p.original] = t]
          /\ rowLock \in [EventIds -> Tasks \cup {Nobody}]
          /\ UNCHANGED <<tables, keyLock, storeLock, announced, now>>
      BY <1>11 DEF OriginalNotSale, TakeRowLock, IInv, TypeOK, p
    <3> QED BY <1>7, <2>1, <3>1 DEF Decide, Goto, Decided, Gains
  <2>3. /\ Ledger!Justified("original not a sale", row)
        /\ "original not a sale" \in Ledger!Refusals
    BY <1>2, <1>4, <2>1 DEF Ledger!Justified, Ledger!Refusals, Ledger!IsSale
  <2> QED BY <2>2, <2>3, RefusingRefuses DEF row, p
<1>12. CASE ReferenceMismatch(t)
  <2>1. /\ Decided(t, "reference mismatch", Never) /\ pc[t] = "validate"
        /\ ~ SameStoreAndProduct(rows, p)
    BY <1>6, <1>7, <1>12 DEF ReferenceMismatch, p
  <2>2. /\ Ledger!Justified("reference mismatch", row)
        /\ "reference mismatch" \in Ledger!Refusals
    BY <1>2, <1>3, <1>4, <1>5, <2>1, SameRules DEF Ledger!Justified, Ledger!Refusals, Ledger!IsSale
  <2> QED BY <2>1, <2>2, RefusingRefuses DEF row, p
<1>13. CASE LimitExceeded(t)
  <2>1. /\ Decided(t, "limit exceeded", Never) /\ pc[t] = "validate"
        /\ ~ WithinLimits(rows, p)
    BY <1>6, <1>7, <1>13 DEF LimitExceeded, p
  <2>2. /\ Ledger!Justified("limit exceeded", row)
        /\ "limit exceeded" \in Ledger!Refusals
    BY <1>2, <1>3, <1>4, <1>5, <2>1, SameRules DEF Ledger!Justified, Ledger!Refusals, Ledger!IsSale
  <2> QED BY <2>1, <2>2, RefusingRefuses DEF row, p
<1>14. CASE InsertOverflow(t) \/ DatabaseError(t)
  <2>1. Decided(t, "error", Never)
    BY <1>6, <1>14 DEF InsertOverflow, DatabaseError, Working, Undecided, Locations
  <2> QED BY <2>1, ErrorFails
<1>15. CASE Classify(t)
  <2> DEFINE time == IF Verdict(rows[p.id], p) = "duplicate" THEN receivedAt[p.id] ELSE Never
  <2>1. /\ pc[t] = "classify" /\ Decide(t, "classify", Verdict(rows[p.id], p), time)
        /\ UNCHANGED <<tables, locks, announced, now>>
    BY <1>15 DEF Classify, Decide, Goto, p
  <2> HIDE DEF time
  <2>2. Decided(t, Verdict(rows[p.id], p), time)
    BY <1>7, <2>1 DEF Decide, Goto, Decided, Gains, locks
  <2>3. rows[p.id] # NoRow
    BY <2>1 DEF IInv, RequestOK, p
  <2>4. CASE Matches(rows[p.id], p)
    <3>1. Verdict(rows[p.id], p) = "duplicate"
      BY <2>3, <2>4 DEF Verdict
    <3>2. rows[p.id] = row
      <4>1. PICK q \in Payloads : rows[p.id] = RowOf(q)
        BY <1>2, <2>3 DEF AnswersInv, RowsWereSent
      <4> QED BY <1>2, <2>4, <4>1, MatchingBodies DEF row
    <3>3. Request[t] = row
      BY <1>1, OpenRequest DEF row, p
    <3>4. Ledger!Recognise(t)
      BY <1>2, <2>2, <3>1, <3>2, <3>3, DecidedMoves DEF Ledger!Recognise, Request
    <3> QED BY <3>4 DEF Ledger!LedgerNext
  <2>5. CASE ~ Matches(rows[p.id], p)
    <3>1. Verdict(rows[p.id], p) = "conflict"
      BY <2>3, <2>5 DEF Verdict
    <3>2. Ledger!Justified("conflict", row) /\ "conflict" \in Ledger!Refusals
      BY <1>2, <2>3 DEF Ledger!Justified, Ledger!Refusals
    <3> QED BY <2>2, <3>1, <3>2, RefusingRefuses DEF row, p
  <2> QED BY <2>4, <2>5
<1> QED BY <1>8, <1>9, <1>10, <1>11, <1>12, <1>13, <1>14, <1>15 DEF Deciding

(* The COMMIT of a handler appends its event.                              *)
LEMMA CommitAccepts ==
    ASSUME IInv, NEW t \in Tasks, Commit(t)
    PROVE  Ledger!LedgerNext
<1>1. /\ pc[t] = "commit" /\ pc' = [pc EXCEPT ![t] = "announce"] /\ CommitRow(t)
      /\ outcome' = [outcome EXCEPT ![t] = "accepted"] /\ body' = body
      /\ pc \in [Tasks -> Locations]
  BY DEF Commit, Goto, IInv, TypeOK
<1>2. Ledger!Move(t, "open", "decided")
  <2>1. PhaseOf(t) = "open" /\ PhaseOf(t)' = "decided"
    BY <1>1 DEF PhaseOf
  <2> QED BY <1>1, <2>1, PhaseMoves
<1>3. Ledger!Accept(t)
  BY <1>1, <1>2, CommitAppends, RequestsKept DEF Ledger!Accept, Request
<1> QED BY <1>3 DEF Ledger!LedgerNext

(* A COMMIT whose connection breaks leaves the ledger to decide.           *)
LEMMA LoseCommitLoses ==
    ASSUME IInv, NEW t \in Tasks, LoseCommit(t)
    PROVE  Ledger!LedgerNext
<1>1. /\ pc[t] = "commit" /\ pc' = [pc EXCEPT ![t] = "orphan"]
      /\ outcome' = [outcome EXCEPT ![t] = "error"] /\ UNCHANGED <<body, rows>>
      /\ pc \in [Tasks -> Locations]
  BY DEF LoseCommit, Goto, tables, IInv, TypeOK
<1>2. Ledger!Move(t, "open", "lost")
  <2>1. PhaseOf(t) = "open" /\ PhaseOf(t)' = "lost"
    BY <1>1 DEF PhaseOf
  <2> QED BY <1>1, <2>1, PhaseMoves
<1>3. Ledger!Lose(t)
  BY <1>1, <1>2, RequestsKept DEF Ledger!Lose, Request
<1> QED BY <1>3 DEF Ledger!LedgerNext

(* The answer, or the end of a COMMIT nobody waits for.                    *)
LEMMA EndRefines ==
    ASSUME IInv, NEW t \in Tasks,
           Rollback(t) \/ Broadcast(t) \/ OrphanCommit(t) \/ OrphanAbort(t)
    PROVE  Ledger!LedgerNext
<1>1. CASE Rollback(t) \/ Broadcast(t)
  <2>1. PICK from \in {"rollback", "announce"} : Answer(t, from) /\ pc[t] = from
    BY <1>1 DEF Rollback, Broadcast, Answer, Goto
  <2>2. PhaseOf(t) = "decided" /\ rows' = rows
    BY <1>1, <2>1 DEF PhaseOf, Rollback, Broadcast, tables
  <2>3. Ledger!Reply(t)
    BY <2>1, <2>2, AnswerCloses DEF Ledger!Reply
  <2> QED BY <2>3 DEF Ledger!LedgerNext
<1>2. CASE OrphanCommit(t) \/ OrphanAbort(t)
  <2>1. Answer(t, "orphan") /\ pc[t] = "orphan"
    BY <1>2 DEF OrphanCommit, OrphanAbort, Answer, Goto
  <2>2. Ledger!Close(t, "lost")
    <3>1. PhaseOf(t) = "lost"
      BY <2>1 DEF PhaseOf
    <3> QED BY <2>1, <3>1, AnswerCloses
  <2>3. CASE OrphanCommit(t)
    <3>1. Ledger!LateAccept(t)
      BY <2>1, <2>2, <2>3, CommitAppends DEF OrphanCommit, Ledger!LateAccept, Request
    <3> QED BY <3>1 DEF Ledger!LedgerNext
  <2>4. CASE OrphanAbort(t)
    <3>1. Ledger!Forget(t)
      BY <2>2, <2>4 DEF OrphanAbort, tables, Ledger!Forget
    <3> QED BY <3>1 DEF Ledger!LedgerNext
  <2> QED BY <1>2, <2>3, <2>4
<1> QED BY <1>1, <1>2

(* What is left after a crash are the COMMITs that were sent.              *)
LEMMA CrashRestarts ==
    ASSUME IInv, Crash
    PROVE  Ledger!LedgerNext
<1> DEFINE L == {t \in Tasks : Survives(t)}
<1>1. pc \in [Tasks -> Locations] /\ rows' = rows
  BY DEF IInv, TypeOK, Crash, tables
<1>2. L \in SUBSET {t \in Tasks : Phase[t] \in {"open", "lost"}}
  BY <1>1 DEF Survives, Phase, PhaseOf
<1>3. Phase' = [t \in Tasks |-> IF t \in L THEN "lost" ELSE "idle"]
  BY <1>1 DEF Crash, Phase, PhaseOf
<1>4. Request' = [t \in Tasks |-> IF t \in L THEN Request[t] ELSE NoPayload]
  <2>1. ASSUME NEW t \in Tasks
        PROVE  Request'[t] = IF t \in L THEN Request[t] ELSE NoPayload
    BY DEF Crash, Request, RowOf
  <2> QED BY <2>1 DEF Request
<1>5. outcome' = [t \in Tasks |-> IF t \in L THEN "error" ELSE "none"]
  BY DEF Crash
<1> HIDE DEF L
<1>6. Ledger!Restart
  BY <1>1, <1>2, <1>3, <1>4, <1>5 DEF Ledger!Restart, Phase, Request
<1> QED BY <1>6 DEF Ledger!LedgerNext

(* The empty tables are the empty ledger.                                  *)
LEMMA InitRefines == Init => Ledger!LedgerInit
BY DEF Init, Ledger!LedgerInit, PhaseOf

(* Every step is a step of the ledger, or none.                            *)
LEMMA NextRefines ==
    ASSUME Lossless, IInv, AnswersInv, [Next]_vars
    PROVE  [Ledger!LedgerNext]_(Ledger!ledgerVars)
<1>1. CASE UNCHANGED vars \/ Tick
  <2>1. UNCHANGED <<pc, body, outcome, rows>>
    BY <1>1 DEF vars, Tick, handlers, tables
  <2>2. Phase' = Phase
    BY <2>1 DEF Phase, PhaseOf
  <2> QED BY <2>1, <2>2, RequestsKept DEF Ledger!ledgerVars, Phase, Request
<1>2. ASSUME NEW t \in Tasks, NEW p \in Payloads, Arrive(t, p) PROVE Ledger!LedgerNext
  BY <1>2, ArriveReceives
<1>3. ASSUME NEW t \in Tasks, Proceed(t)
      PROVE  Ledger!LedgerNext \/ UNCHANGED Ledger!ledgerVars
  BY <1>3, AdvanceStutters, DecidingRefines, CommitAccepts, EndRefines
     DEF Proceed, Advance, Deciding
<1>4. ASSUME NEW t \in Tasks, Fault(t) \/ EndOrphan(t) PROVE Ledger!LedgerNext
  BY <1>4, DecidingRefines, LoseCommitLoses, EndRefines DEF Fault, EndOrphan, Deciding
<1> QED BY <1>1, <1>2, <1>3, <1>4, CrashRestarts DEF Next

(* Every behaviour of the handlers, crashes and lost COMMITs included, is  *)
(* one of a ledger that appends each event in a single step, keeps to the  *)
(* rules for refunds and gives only verdicts that are right.               *)
THEOREM LedgerImplemented ==
    ASSUME Lossless PROVE Spec => ImplementsLedger
<1>1. IInv /\ AnswersInv /\ [Next]_vars => [Ledger!LedgerNext]_(Ledger!ledgerVars)
  BY NextRefines
<1> QED BY InductiveInvariant, AnswersInvariant, InitRefines, <1>1, PTL
        DEF Spec, ImplementsLedger, Ledger!LedgerSpec
=============================================================================
