------------------------ MODULE EventAnswers_proofs --------------------------
(***************************************************************************)
(* What the answers of EventIngestion are worth, for every number of       *)
(* handlers, events, stores and payloads.                                  *)
(***************************************************************************)
EXTENDS EventIngestion_proofs

USE SentinelsAssumption, DatabaseAssumption, PayloadsAssumption

(* What is recorded of a body is a body, and differs in its info only.     *)
LEMMA RecordedBody ==
    ASSUME NEW p \in Payloads
    PROVE  /\ p \in Body /\ RowOf(p) \in Body /\ RowOf(p) # NoRow
           /\ RowOf(p) = [p EXCEPT !.info = RoundTrip[p.info]]
           /\ RowOf(p).id = p.id /\ RowOf(p).store = p.store /\ RowOf(p).sku = p.sku
           /\ RowOf(p).type = p.type /\ RowOf(p).original = p.original
           /\ RowOf(p).quantity = p.quantity /\ RowOf(p).amount = p.amount
           /\ RowOf(p).info = RoundTrip[p.info]
BY DEF RowOf, Body

(* A handler that is not idle works on a body that was sent.               *)
LEMMA WorksOnPayload ==
    ASSUME IInv, NEW t \in Tasks, pc[t] # "idle"
    PROVE  body[t] \in Payloads /\ WellFormed(body[t]) /\ body[t].id \in EventIds
BY DEF IInv, RequestOK, Body

-----------------------------------------------------------------------------
(***************************************************************************)
(* What the steps do to the variables the answers depend on.               *)
(***************************************************************************)
(* A step of t takes locks for t only.                                     *)
Gains(t) ==
    /\ \A e \in EventIds : rowLock'[e] \in {rowLock[e], t} /\ keyLock'[e] \in {keyLock[e], t}
    /\ \A s \in Stores : storeLock'[s] \in {storeLock[s], t}

Working == Undecided \ {"idle"}

Advance(t) ==
    \/ Begin(t) \/ Resolve(t) \/ LockOriginal(t) \/ Recheck(t) \/ ValidateRefund(t)
    \/ Insert(t) \/ InsertConflict(t) \/ Flush(t)

(* A statement that leaves the handler's verdict open.                     *)
LEMMA AdvanceEffect ==
    ASSUME IInv, NEW t \in Tasks, Advance(t)
    PROVE  /\ pc[t] \in Working /\ pc'[t] \in Working \ {"begin"}
           /\ pc' = [pc EXCEPT ![t] = pc'[t]]
           /\ UNCHANGED <<body, outcome, receipt, tables, announced>>
           /\ Gains(t)
           /\ pc'[t] = "validate" => rows[body[t].id] = NoRow
<1>1. /\ rowLock \in [EventIds -> Tasks \cup {Nobody}]
      /\ keyLock \in [EventIds -> Tasks \cup {Nobody}]
      /\ storeLock \in [Stores -> Tasks \cup {Nobody}]
      /\ pc \in [Tasks -> Locations]
  BY DEF IInv, TypeOK
<1>2. CASE Begin(t) \/ Resolve(t) \/ Recheck(t) \/ ValidateRefund(t) \/ InsertConflict(t)
  BY <1>1, <1>2 DEF Begin, Resolve, Recheck, ValidateRefund, InsertConflict, Goto,
     Working, Undecided, Locations, Gains, locks
<1>3. CASE LockOriginal(t)
  BY <1>1, <1>3 DEF LockOriginal, TakeRowLock, Goto, Working, Undecided, Locations, Gains
<1>4. CASE Insert(t)
  BY <1>1, <1>4 DEF Insert, Goto, Working, Undecided, Locations, Gains
<1>5. CASE Flush(t)
  BY <1>1, <1>5 DEF Flush, Goto, Working, Undecided, Locations, Gains
<1> QED BY <1>2, <1>3, <1>4, <1>5 DEF Advance

(* The handler makes up its mind, on other grounds than a COMMIT.          *)
Decided(t, verdict, time) ==
    /\ pc[t] \in Working \ {"commit"}
    /\ pc' = [pc EXCEPT ![t] = "rollback"]
    /\ outcome' = [outcome EXCEPT ![t] = verdict]
    /\ receipt' = [receipt EXCEPT ![t] = time]
    /\ UNCHANGED <<body, tables, announced, storeLock>>
    /\ Gains(t)

(* A handler that makes up its mind has one of the verdicts, and what it   *)
(* says is a duplicate matches the row it has found.                       *)
LEMMA DecidingEffect ==
    ASSUME IInv, NEW t \in Tasks, Deciding(t)
    PROVE  \E verdict \in Outcomes \ {"none", "accepted"}, time \in Times :
               /\ Decided(t, verdict, time)
               /\ verdict = "duplicate" =>
                     /\ rows[body[t].id] # NoRow /\ Matches(rows[body[t].id], body[t])
                     /\ time = receivedAt[body[t].id]
<1>1. ASSUME NEW from \in Working \ {"commit"},
             NEW verdict \in Outcomes \ {"none", "accepted", "duplicate"},
             Reject(t, from, verdict), UNCHANGED <<tables, locks, announced, now>>
      PROVE  Decided(t, verdict, Never) /\ verdict # "duplicate" /\ Never \in Times
  BY <1>1 DEF Reject, Decide, Goto, Decided, Gains, locks, Times
<1> DEFINE Unacknowledged == Outcomes \ {"none", "accepted", "duplicate"}
<1>2. SUFFICES ASSUME ~ Classify(t)
               PROVE  \E verdict \in Unacknowledged : Decided(t, verdict, Never)
  <2>1. CASE ~ Classify(t)
    BY <1>2, <2>1 DEF Times
  <2>2. CASE Classify(t)
    <3> DEFINE verdict == Verdict(rows[body[t].id], body[t])
               time == IF verdict = "duplicate" THEN receivedAt[body[t].id] ELSE Never
    <3>1. /\ pc[t] = "classify" /\ Decide(t, "classify", verdict, time)
          /\ UNCHANGED <<tables, locks, announced, now>>
      BY <2>2 DEF Classify, Decide, Goto
    <3>2. body[t].id \in EventIds
      BY <3>1, WorksOnPayload
    <3>3. verdict \in Outcomes \ {"none", "accepted"}
      BY DEF Verdict, Outcomes
    <3>4. time \in Times
      BY <3>2 DEF IInv, TypeOK, Times
    <3>5. verdict = "duplicate" =>
             rows[body[t].id] # NoRow /\ Matches(rows[body[t].id], body[t])
      BY DEF Verdict
    <3>6. verdict = "duplicate" => time = receivedAt[body[t].id]
      OBVIOUS
    <3> HIDE DEF verdict, time
    <3>7. Decided(t, verdict, time)
      BY <3>1 DEF Decide, Goto, Decided, Gains, locks, Working, Undecided, Locations
    <3> QED BY <3>3, <3>4, <3>5, <3>6, <3>7
  <2> QED BY <2>1, <2>2
<1>3. CASE UnknownStore(t)
  BY <1>1, <1>3 DEF UnknownStore, Outcomes, Working, Undecided, Locations
<1>4. CASE UnknownProduct(t)
  BY <1>1, <1>4 DEF UnknownProduct, Outcomes, Working, Undecided, Locations
<1>5. CASE OriginalMissing(t)
  BY <1>1, <1>5 DEF OriginalMissing, Outcomes, Working, Undecided, Locations
<1>6. CASE OriginalNotSale(t)
  <2>1. /\ Reject(t, "lock", "original not a sale") /\ pc[t] = "lock"
        /\ rowLock' = [rowLock EXCEPT ![body[t].original] = t]
        /\ UNCHANGED <<tables, keyLock, storeLock, announced, now>>
    BY <1>6 DEF OriginalNotSale, TakeRowLock
  <2>2. rowLock \in [EventIds -> Tasks \cup {Nobody}]
    BY DEF IInv, TypeOK
  <2>3. Gains(t)
    BY <2>1, <2>2 DEF Gains
  <2>4. Decided(t, "original not a sale", Never)
    BY <2>1, <2>3 DEF Reject, Decide, Goto, Decided, Working, Undecided, Locations
  <2> QED BY <2>4 DEF Outcomes
<1>7. CASE ReferenceMismatch(t)
  BY <1>1, <1>7 DEF ReferenceMismatch, Outcomes, Working, Undecided, Locations
<1>8. CASE LimitExceeded(t)
  BY <1>1, <1>8 DEF LimitExceeded, Outcomes, Working, Undecided, Locations
<1>9. CASE InsertOverflow(t)
  BY <1>1, <1>9 DEF InsertOverflow, Outcomes, Working, Undecided, Locations
<1>10. CASE DatabaseError(t)
  BY <1>1, <1>10 DEF DatabaseError, Outcomes, Working, Undecided, Locations
<1> QED BY <1>2, <1>3, <1>4, <1>5, <1>6, <1>7, <1>8, <1>9, <1>10 DEF Deciding

-----------------------------------------------------------------------------
(***************************************************************************)
(* AnswersInv                                                              *)
(***************************************************************************)
(* What is said of a handler stays true while others work: rows stay, and  *)
(* no copy of the refund it validates is added.                            *)
RowsStay ==
    \A e \in EventIds : rows[e] # NoRow => rows'[e] = rows[e] /\ receivedAt'[e] = receivedAt[e]

Unmoved(u) ==
    pc'[u] = pc[u] /\ body'[u] = body[u] /\ outcome'[u] = outcome[u] /\ receipt'[u] = receipt[u]

HandlerOK(u) == OutcomeOK(u) /\ ReceiptOK(u) /\ RetryOK(u)

(* A step of another handler leaves what is known of this one.             *)
LEMMA UnmovedOK ==
    ASSUME IInv, NEW u \in Tasks, HandlerOK(u), RowsStay, Unmoved(u),
           pc[u] = "validate" => rows'[body[u].id] = rows[body[u].id]
                                    \/ rows'[body[u].id] # RowOf(body[u])
    PROVE  HandlerOK(u)'
<1>1. OutcomeOK(u)'
  BY DEF HandlerOK, OutcomeOK, Unmoved
<1>2. ReceiptOK(u)'
  <2>1. CASE pc[u] = "idle"
    BY <1>1, <2>1 DEF OutcomeOK, ReceiptOK, Unmoved, Undecided, Locations
  <2>2. CASE pc[u] # "idle"
    <3>1. body[u] \in Payloads /\ body[u].id \in EventIds /\ RowOf(body[u]) # NoRow
      BY <2>2, WorksOnPayload, RecordedBody
    <3> QED BY <3>1 DEF HandlerOK, ReceiptOK, RowsStay, Unmoved
  <2> QED BY <2>1, <2>2
<1>3. RetryOK(u)'
  BY DEF HandlerOK, RetryOK, Unmoved
<1> QED BY <1>1, <1>2, <1>3 DEF HandlerOK

(* Locks change hands with the handler that moves.                         *)
LEMMA LocksEndKept ==
    ASSUME LocksEnd, NEW t \in Tasks,
           \A u \in Tasks \ {t} : pc'[u] = pc[u],
           \A e \in EventIds : /\ rowLock'[e] \in {rowLock[e], t, Nobody}
                               /\ keyLock'[e] \in {keyLock[e], t, Nobody},
           \A s \in Stores : storeLock'[s] \in {storeLock[s], t, Nobody},
           LocksOK(t)'
    PROVE  LocksEnd'
BY DEF LocksEnd, LocksOK

(* A statement leaves its handler where it has the locks it takes.         *)
LEMMA AdvanceLocks ==
    ASSUME IInv, NEW t \in Tasks, LocksOK(t), Advance(t)
    PROVE  LocksOK(t)'
<1>1. /\ rowLock \in [EventIds -> Tasks \cup {Nobody}]
      /\ keyLock \in [EventIds -> Tasks \cup {Nobody}]
      /\ storeLock \in [Stores -> Tasks \cup {Nobody}]
      /\ pc \in [Tasks -> Locations]
  BY DEF IInv, TypeOK
<1> USE DEF LocksOK, WithRow, WithKey, WithStore, Goto
<1>2. CASE Begin(t) \/ Resolve(t) \/ Recheck(t) \/ ValidateRefund(t) \/ InsertConflict(t)
  BY <1>1, <1>2 DEF Begin, Resolve, Recheck, ValidateRefund, InsertConflict, locks
<1>3. CASE LockOriginal(t)
  BY <1>1, <1>3 DEF LockOriginal, TakeRowLock
<1>4. CASE Insert(t)
  BY <1>1, <1>4 DEF Insert
<1>5. CASE Flush(t)
  BY <1>1, <1>5 DEF Flush
<1> QED BY <1>2, <1>3, <1>4, <1>5 DEF Advance

(* The handlers that are about to answer that they recorded e.             *)
Acceptors(e) == {t \in Tasks : outcome[t] = "accepted" /\ body[t].id = e}

(* The handlers are finitely many.                                         *)
LEMMA AcceptorsFinite == \A e : IsFiniteSet(Acceptors(e)) /\ Cardinality(Acceptors(e)) \in Nat
<1> TAKE e
<1>1. IsFiniteSet(Acceptors(e))
  BY FS_Subset DEF Acceptors
<1> QED BY <1>1, FS_CardinalityType

(* Nobody is told "accepted" anew, and rows stay.                          *)
LEMMA AcceptedOnceKept ==
    ASSUME IInv, AcceptedOnce, RowsStay, announced' = announced,
           \A e \in EventIds : Acceptors(e)' = Acceptors(e)
    PROVE  AcceptedOnce'
<1> SUFFICES ASSUME NEW e \in EventIds
             PROVE  announced'[e] + Cardinality(Acceptors(e)')
                       <= (IF rows'[e] = NoRow THEN 0 ELSE 1)
  BY DEF AcceptedOnce, Acceptors
<1>1. announced[e] + Cardinality(Acceptors(e)) <= (IF rows[e] = NoRow THEN 0 ELSE 1)
  BY DEF AcceptedOnce, Acceptors
<1>2. announced'[e] + Cardinality(Acceptors(e)') = announced[e] + Cardinality(Acceptors(e))
  OBVIOUS
<1>3. rows[e] # NoRow => rows'[e] # NoRow
  BY DEF RowsStay
<1>4. announced[e] \in Nat /\ Cardinality(Acceptors(e)) \in Nat
  BY AcceptorsFinite DEF IInv, TypeOK
<1> HIDE DEF Acceptors
<1> QED BY <1>1, <1>2, <1>3, <1>4

(* A step that writes no table has to be looked at for its handler only.   *)
LEMMA QuietStep ==
    ASSUME IInv, AnswersInv, NEW t \in Tasks, UNCHANGED tables,
           \A u \in Tasks \ {t} : Unmoved(u),
           HandlerOK(t)', LocksEnd', AcceptedOnce'
    PROVE  AnswersInv'
<1>1. RowsStay
  BY DEF RowsStay, tables
<1>2. \A u \in Tasks : HandlerOK(u)'
  <2>1. ASSUME NEW u \in Tasks \ {t} PROVE HandlerOK(u)'
    BY <1>1, UnmovedOK DEF AnswersInv, HandlerOK, tables
  <2> QED BY <2>1
<1>3. RowsWereSent' /\ LastSeenWitnessed'
  BY DEF AnswersInv, RowsWereSent, LastSeenWitnessed, tables
<1> QED BY <1>2, <1>3 DEF AnswersInv, HandlerOK

(* A statement of a handler.                                               *)
LEMMA AdvanceAnswers ==
    ASSUME IInv, AnswersInv, NEW t \in Tasks, Advance(t)
    PROVE  AnswersInv'
<1>1. /\ pc[t] \in Working /\ pc'[t] \in Working \ {"begin"}
      /\ pc' = [pc EXCEPT ![t] = pc'[t]]
      /\ UNCHANGED <<body, outcome, receipt, tables, announced>>
      /\ Gains(t)
      /\ pc'[t] = "validate" => rows[body[t].id] = NoRow
  BY AdvanceEffect
<1>2. \A u \in Tasks \ {t} : Unmoved(u)
  BY <1>1 DEF IInv, TypeOK, Unmoved
<1>3. HandlerOK(t)'
  <2>1. outcome'[t] = "none"
    BY <1>1 DEF AnswersInv, OutcomeOK, Working
  <2>2. OutcomeOK(t)' /\ ReceiptOK(t)'
    BY <1>1, <2>1 DEF OutcomeOK, ReceiptOK, Working, Undecided, Locations
  <2>3. RowOf(body[t]) # NoRow
    BY <1>1, WorksOnPayload, RecordedBody DEF Working
  <2>4. RetryOK(t)'
    BY <1>1, <2>3 DEF RetryOK, tables
  <2> QED BY <2>2, <2>4 DEF HandlerOK
<1>4. LocksEnd'
  <2>1. LocksOK(t)'
    BY AdvanceLocks DEF AnswersInv, LocksEnd
  <2> QED BY <1>1, <1>2, <2>1, LocksEndKept DEF AnswersInv, Gains, Unmoved
<1>5. AcceptedOnce'
  <2>1. \A e \in EventIds : Acceptors(e)' = Acceptors(e)
    BY <1>1 DEF Acceptors
  <2>2. RowsStay
    BY <1>1 DEF RowsStay, tables
  <2> QED BY <1>1, <2>1, <2>2, AcceptedOnceKept DEF AnswersInv
<1> QED BY <1>1, <1>2, <1>3, <1>4, <1>5, QuietStep

(* A verdict other than "accepted".                                        *)
LEMMA DecidingAnswers ==
    ASSUME IInv, AnswersInv, NEW t \in Tasks, Deciding(t)
    PROVE  AnswersInv'
<1>1. PICK verdict \in Outcomes \ {"none", "accepted"}, time \in Times :
          /\ Decided(t, verdict, time)
          /\ verdict = "duplicate" =>
                /\ rows[body[t].id] # NoRow /\ Matches(rows[body[t].id], body[t])
                /\ time = receivedAt[body[t].id]
  BY DecidingEffect
<1>2. /\ pc'[t] = "rollback" /\ outcome'[t] = verdict /\ receipt'[t] = time
      /\ \A u \in Tasks \ {t} : Unmoved(u)
      /\ UNCHANGED <<body, tables, announced>> /\ pc[t] \in Working
  BY <1>1 DEF Decided, IInv, TypeOK, Unmoved
<1>3. HandlerOK(t)'
  <2>1. Matches(rows[body[t].id], body[t])' = Matches(rows[body[t].id], body[t])
    BY <1>2 DEF Matches, tables
  <2>2. ReceiptOK(t)'
    BY <1>1, <1>2, <2>1 DEF ReceiptOK, tables
  <2> QED BY <1>2, <2>2 DEF HandlerOK, OutcomeOK, RetryOK, Undecided, Locations
<1>4. LocksEnd'
  <2>1. LocksOK(t)'
    BY <1>1, <1>2 DEF AnswersInv, LocksEnd, LocksOK, WithRow, WithKey, WithStore,
       Decided, Working, Undecided
  <2> QED BY <1>1, <1>2, <2>1, LocksEndKept DEF AnswersInv, Decided, Gains, Unmoved
<1>5. AcceptedOnce'
  <2>1. outcome[t] # "accepted" /\ outcome'[t] # "accepted"
    BY <1>1, <1>2 DEF AnswersInv, OutcomeOK, Working, Undecided, Locations
  <2>2. \A e \in EventIds : Acceptors(e)' = Acceptors(e)
    BY <1>2, <2>1 DEF Acceptors, Unmoved
  <2>3. RowsStay
    BY <1>2 DEF RowsStay, tables
  <2> QED BY <1>2, <2>2, <2>3, AcceptedOnceKept DEF AnswersInv
<1> QED BY <1>2, <1>3, <1>4, <1>5, QuietStep

(* A request that arrives changes nothing an answer rests on.              *)
LEMMA ArriveAnswers ==
    ASSUME IInv, AnswersInv, NEW t \in Tasks, NEW p \in Payloads, Arrive(t, p)
    PROVE  AnswersInv'
<1>1. /\ pc[t] = "idle" /\ pc'[t] = "begin"
      /\ \A u \in Tasks \ {t} : Unmoved(u)
      /\ UNCHANGED <<outcome, receipt, tables, locks, announced>>
  BY DEF Arrive, Goto, IInv, TypeOK, Unmoved
<1>2. outcome[t] = "none"
  BY <1>1 DEF AnswersInv, OutcomeOK, Undecided, Locations
<1>3. HandlerOK(t)'
  BY <1>1, <1>2 DEF HandlerOK, OutcomeOK, ReceiptOK, RetryOK, Undecided, Locations
<1>4. LocksEnd'
  BY <1>1 DEF AnswersInv, LocksEnd, LocksOK, WithRow, WithKey, WithStore, Unmoved, locks
<1>5. AcceptedOnce'
  <2>1. \A e \in EventIds : Acceptors(e)' = Acceptors(e)
    BY <1>1, <1>2 DEF Acceptors, Unmoved
  <2>2. RowsStay
    BY <1>1 DEF RowsStay, tables
  <2> QED BY <1>1, <2>1, <2>2, AcceptedOnceKept DEF AnswersInv
<1> QED BY <1>1, <1>3, <1>4, <1>5, QuietStep

(* A request ends without a row, an announcement or an acceptance.         *)
LEMMA IdleOK ==
    ASSUME NEW t \in Tasks, pc'[t] = "idle", outcome'[t] = "none"
    PROVE  HandlerOK(t)'
BY DEF HandlerOK, OutcomeOK, ReceiptOK, RetryOK, Undecided, Locations

(* Sending an answer ends the request of its handler.                      *)
LEMMA AnswerEffect ==
    ASSUME IInv, NEW t \in Tasks, NEW from, Answer(t, from)
    PROVE  /\ pc[t] = from /\ pc'[t] = "idle" /\ outcome'[t] = "none"
           /\ \A u \in Tasks \ {t} : Unmoved(u)
BY DEF Answer, Goto, IInv, TypeOK, Unmoved

(* A rollback, by the handler or of an orphan, stores nothing.             *)
LEMMA EndAnswers ==
    ASSUME IInv, AnswersInv, NEW t \in Tasks, Rollback(t) \/ OrphanAbort(t)
    PROVE  AnswersInv'
<1>1. /\ pc[t] \in {"rollback", "orphan"} /\ pc'[t] = "idle" /\ outcome'[t] = "none"
      /\ \A u \in Tasks \ {t} : Unmoved(u)
      /\ ReleaseLocks(t) /\ UNCHANGED <<tables, announced>>
  BY AnswerEffect DEF Rollback, OrphanAbort
<1>2. LocksEnd'
  <2>1. /\ \A e \in EventIds : /\ rowLock'[e] \in {rowLock[e], Nobody} \ {t}
                               /\ keyLock'[e] \in {keyLock[e], Nobody} \ {t}
        /\ \A s \in Stores : storeLock'[s] \in {storeLock[s], Nobody} \ {t}
    BY <1>1 DEF ReleaseLocks, Freed, IInv, TypeOK
  <2>2. LocksOK(t)'
    BY <2>1 DEF LocksOK
  <2> QED BY <1>1, <2>1, <2>2, LocksEndKept DEF AnswersInv, Unmoved
<1>3. AcceptedOnce'
  <2>1. outcome[t] # "accepted"
    BY <1>1 DEF AnswersInv, OutcomeOK
  <2>2. \A e \in EventIds : Acceptors(e)' = Acceptors(e)
    BY <1>1, <2>1 DEF Acceptors, Unmoved
  <2>3. RowsStay
    BY <1>1 DEF RowsStay, tables
  <2> QED BY <1>1, <2>2, <2>3, AcceptedOnceKept DEF AnswersInv
<1> QED BY <1>1, <1>2, <1>3, IdleOK, QuietStep

(* One acceptor less, one announcement more.                               *)
LEMMA BroadcastAnswers ==
    ASSUME IInv, AnswersInv, NEW t \in Tasks, Broadcast(t)
    PROVE  AnswersInv'
<1>1. /\ pc[t] = "announce" /\ pc'[t] = "idle" /\ outcome'[t] = "none"
      /\ \A u \in Tasks \ {t} : Unmoved(u)
      /\ UNCHANGED <<tables, locks>>
      /\ announced' = [announced EXCEPT ![body[t].id] = announced[body[t].id] + 1]
  BY AnswerEffect DEF Broadcast
<1>2. LocksEnd'
  BY <1>1 DEF AnswersInv, LocksEnd, LocksOK, WithRow, WithKey, WithStore, Unmoved, locks
<1>3. AcceptedOnce'
  <2> SUFFICES ASSUME NEW e \in EventIds
               PROVE  announced'[e] + Cardinality(Acceptors(e)')
                         <= (IF rows'[e] = NoRow THEN 0 ELSE 1)
    BY DEF AcceptedOnce, Acceptors
  <2>1. announced[e] + Cardinality(Acceptors(e)) <= (IF rows[e] = NoRow THEN 0 ELSE 1)
    BY DEF AnswersInv, AcceptedOnce, Acceptors
  <2>2. /\ announced \in [EventIds -> Nat] /\ Cardinality(Acceptors(e)) \in Nat
        /\ IsFiniteSet(Acceptors(e)) /\ rows' = rows
    BY <1>1, AcceptorsFinite DEF IInv, TypeOK, tables
  <2>3. CASE e = body[t].id
    <3>1. t \in Acceptors(e)
      BY <1>1, <2>3 DEF AnswersInv, OutcomeOK, Acceptors
    <3>2. Acceptors(e)' = Acceptors(e) \ {t}
      BY <1>1 DEF Acceptors, Unmoved
    <3>3. Cardinality(Acceptors(e)') = Cardinality(Acceptors(e)) - 1
      <4>1. Cardinality(Acceptors(e) \ {t}) = Cardinality(Acceptors(e)) - 1
        BY <2>2, <3>1, FS_RemoveElement
      <4> QED BY <3>2, <4>1, Zenon
    <3>4. announced'[e] = announced[e] + 1
      BY <1>1, <2>2, <2>3
    <3> HIDE DEF Acceptors
    <3> QED BY <2>1, <2>2, <3>3, <3>4
  <2>4. CASE e # body[t].id
    <3>1. Acceptors(e)' = Acceptors(e)
      BY <1>1, <2>4 DEF Acceptors, Unmoved
    <3>2. announced'[e] = announced[e]
      BY <1>1, <2>2, <2>4
    <3> QED BY <2>1, <2>2, <3>1, <3>2
  <2> QED BY <2>3, <2>4
<1> QED BY <1>1, <1>2, <1>3, IdleOK, QuietStep

(* The handler that will not learn of its COMMIT answers with an error.    *)
LEMMA LoseCommitAnswers ==
    ASSUME IInv, AnswersInv, NEW t \in Tasks, LoseCommit(t)
    PROVE  AnswersInv'
<1>1. /\ pc[t] = "commit" /\ pc'[t] = "orphan" /\ outcome'[t] = "error"
      /\ \A u \in Tasks \ {t} : Unmoved(u)
      /\ UNCHANGED <<body, tables, locks, announced>>
  BY DEF LoseCommit, Goto, IInv, TypeOK, Unmoved
<1>2. HandlerOK(t)'
  BY <1>1 DEF HandlerOK, OutcomeOK, ReceiptOK, RetryOK, Undecided, Locations
<1>3. LocksEnd'
  BY <1>1 DEF AnswersInv, LocksEnd, LocksOK, WithRow, WithKey, WithStore, Unmoved, locks
<1>4. AcceptedOnce'
  <2>1. outcome[t] # "accepted"
    BY <1>1 DEF AnswersInv, OutcomeOK
  <2>2. \A e \in EventIds : Acceptors(e)' = Acceptors(e)
    BY <1>1, <2>1 DEF Acceptors, Unmoved
  <2>3. RowsStay
    BY <1>1 DEF RowsStay, tables
  <2> QED BY <1>1, <2>2, <2>3, AcceptedOnceKept DEF AnswersInv
<1> QED BY <1>1, <1>2, <1>3, <1>4, QuietStep

-----------------------------------------------------------------------------
(* COMMIT, as it is seen by all but the acceptors of the event.            *)
LEMMA CommitRowEffect ==
    ASSUME IInv, NEW t \in Tasks, pc[t] \in {"commit", "orphan"}, CommitRow(t)
    PROVE  LET e == body[t].id IN
           /\ e \in EventIds /\ rows[e] = NoRow
           /\ rows'[e] = RowOf(body[t]) /\ receivedAt'[e] = began[t]
           /\ \A x \in EventIds \ {e} : rows'[x] = rows[x] /\ receivedAt'[x] = receivedAt[x]
           /\ body[t].store \in Stores /\ lastSeen'[body[t].store] = began[t]
           /\ \A s \in Stores \ {body[t].store} : lastSeen'[s] = lastSeen[s]
           /\ RowsStay
<1>1. body[t].id \in EventIds
  BY WorksOnPayload
<1>2. rows[body[t].id] = NoRow /\ body[t].store \in Stores
  BY DEF IInv, InsertOK, Inserted, RequestOK, Resolved
<1> QED BY <1>1, <1>2 DEF CommitRow, IInv, TypeOK, RowsStay

(* A COMMIT stores the body of its handler, whether that still waits for   *)
(* it or not.                                                              *)
LEMMA CommitAnswers ==
    ASSUME IInv, AnswersInv, NEW t \in Tasks, pc[t] \in {"commit", "orphan"}, CommitRow(t),
           pc'[t] \in {"announce", "idle"}, \A u \in Tasks \ {t} : Unmoved(u),
           HandlerOK(t)', AcceptedOnce'
    PROVE  AnswersInv'
<1> DEFINE p == body[t]
           e == p.id
<1>1. /\ e \in EventIds /\ rows[e] = NoRow
      /\ rows'[e] = RowOf(p) /\ receivedAt'[e] = began[t]
      /\ \A x \in EventIds \ {e} : rows'[x] = rows[x] /\ receivedAt'[x] = receivedAt[x]
      /\ p.store \in Stores /\ lastSeen'[p.store] = began[t]
      /\ \A s \in Stores \ {p.store} : lastSeen'[s] = lastSeen[s]
      /\ RowsStay
  BY CommitRowEffect
<1>2. p \in Payloads /\ WellFormed(p) /\ RowOf(p) # NoRow /\ RowOf(p).store = p.store
  BY WorksOnPayload, RecordedBody
<1>3. ASSUME NEW u \in Tasks \ {t} PROVE HandlerOK(u)'
  <2>1. ASSUME pc[u] = "validate", body[u].id = e
        PROVE  RowOf(p) # RowOf(body[u])
    <3>1. IsRefund(u) /\ body[u] \in Payloads
      BY <2>1, WorksOnPayload DEF IInv, RequestOK
    <3>2. ~ (IsRefund(t) /\ p.original = body[u].original)
      BY <2>1, <3>1, LocksExclude DEF Locked
    <3>3. RowOf(p) = RowOf(body[u]) =>
             p.type = body[u].type /\ p.original = body[u].original
      BY <1>2, <3>1, RecordedBody
    <3> QED BY <3>1, <3>2, <3>3 DEF IsRefund
  <2>2. pc[u] = "validate" => body[u].id \in EventIds
    BY WorksOnPayload
  <2>3. pc[u] = "validate" => rows'[body[u].id] = rows[body[u].id]
                                 \/ rows'[body[u].id] # RowOf(body[u])
    BY <1>1, <2>1, <2>2
  <2>4. HandlerOK(u)
    BY DEF AnswersInv, HandlerOK
  <2> QED BY <1>1, <2>3, <2>4, UnmovedOK
<1>4. RowsWereSent'
  BY <1>1, <1>2 DEF AnswersInv, RowsWereSent
<1>5. LastSeenWitnessed'
  <2> SUFFICES ASSUME NEW s \in Stores, lastSeen'[s] # Never
               PROVE  \E x \in EventIds : /\ rows'[x] # NoRow /\ rows'[x].store = s
                                         /\ receivedAt'[x] = lastSeen'[s]
    BY DEF LastSeenWitnessed
  <2>1. CASE s = p.store
    BY <1>1, <1>2, <2>1
  <2>2. CASE s # p.store
    <3>1. PICK x \in EventIds : /\ rows[x] # NoRow /\ rows[x].store = s
                                /\ receivedAt[x] = lastSeen[s]
      BY <1>1, <2>2 DEF AnswersInv, LastSeenWitnessed
    <3> QED BY <1>1, <2>2, <3>1
  <2> QED BY <2>1, <2>2
<1>6. LocksEnd'
  <2>1. /\ \A x \in EventIds : /\ rowLock'[x] \in {rowLock[x], Nobody} \ {t}
                               /\ keyLock'[x] \in {keyLock[x], Nobody} \ {t}
        /\ \A s \in Stores : storeLock'[s] \in {storeLock[s], Nobody} \ {t}
    BY DEF CommitRow, ReleaseLocks, Freed, IInv, TypeOK
  <2>2. LocksOK(t)'
    BY <2>1 DEF LocksOK
  <2> QED BY <2>1, <2>2, LocksEndKept DEF AnswersInv, Unmoved
<1> QED BY <1>3, <1>4, <1>5, <1>6 DEF AnswersInv, HandlerOK

(* The COMMIT whose outcome the handler learns: nobody accepted the event  *)
(* before, as there was no row.                                            *)
LEMMA CommitAccepted ==
    ASSUME IInv, AnswersInv, NEW t \in Tasks, Commit(t)
    PROVE  AnswersInv'
<1> DEFINE e == body[t].id
<1>1. /\ pc[t] = "commit" /\ pc'[t] = "announce" /\ CommitRow(t)
      /\ outcome'[t] = "accepted" /\ receipt'[t] = began[t]
      /\ \A u \in Tasks \ {t} : Unmoved(u)
      /\ UNCHANGED <<body, announced>>
  BY DEF Commit, Goto, IInv, TypeOK, Unmoved
<1>2. /\ e \in EventIds /\ rows[e] = NoRow
      /\ rows'[e] = RowOf(body[t]) /\ receivedAt'[e] = began[t]
      /\ RowsStay
  BY <1>1, CommitRowEffect
<1>3. HandlerOK(t)'
  <2>1. RowOf(body[t])' = RowOf(body[t])
    BY <1>1 DEF RowOf
  <2>2. ReceiptOK(t)'
    BY <1>1, <1>2, <2>1 DEF ReceiptOK
  <2> QED BY <1>1, <2>2 DEF HandlerOK, OutcomeOK, RetryOK, Undecided, Locations
<1>4. AcceptedOnce'
  <2> SUFFICES ASSUME NEW x \in EventIds
               PROVE  announced'[x] + Cardinality(Acceptors(x)')
                         <= (IF rows'[x] = NoRow THEN 0 ELSE 1)
    BY DEF AcceptedOnce, Acceptors
  <2>1. announced[x] + Cardinality(Acceptors(x)) <= (IF rows[x] = NoRow THEN 0 ELSE 1)
    BY DEF AnswersInv, AcceptedOnce, Acceptors
  <2>2. /\ announced[x] \in Nat /\ announced' = announced
        /\ IsFiniteSet(Acceptors(x)) /\ Cardinality(Acceptors(x)) \in Nat
    BY <1>1, AcceptorsFinite DEF IInv, TypeOK
  <2>3. CASE x = e
    <3>1. announced[x] = 0 /\ Cardinality(Acceptors(x)) = 0
      BY <1>2, <2>1, <2>2, <2>3
    <3>2. Acceptors(x) = {}
      BY <2>2, <3>1, FS_EmptySet
    <3>3. Acceptors(x)' = {t}
      BY <1>1, <2>3, <3>2 DEF Acceptors, Unmoved
    <3>4. Cardinality({t}) = 1
      BY FS_Singleton
    <3>5. rows'[x] # NoRow
      BY <1>1, <1>2, <2>3, WorksOnPayload, RecordedBody
    <3> QED BY <2>2, <3>1, <3>3, <3>4, <3>5
  <2>4. CASE x # e
    <3>1. Acceptors(x)' = Acceptors(x)
      BY <1>1, <2>4 DEF Acceptors, Unmoved, AnswersInv, OutcomeOK
    <3>2. rows[x] # NoRow => rows'[x] # NoRow
      BY <1>2 DEF RowsStay
    <3> HIDE DEF Acceptors
    <3> QED BY <2>1, <2>2, <3>1, <3>2
  <2> QED BY <2>3, <2>4
<1> QED BY <1>1, <1>3, <1>4, CommitAnswers

(* The COMMIT whose outcome nobody learns: nobody will say "accepted".     *)
LEMMA OrphanCommitAnswers ==
    ASSUME IInv, AnswersInv, NEW t \in Tasks, OrphanCommit(t)
    PROVE  AnswersInv'
<1>1. /\ pc[t] = "orphan" /\ pc'[t] = "idle" /\ outcome'[t] = "none" /\ CommitRow(t)
      /\ \A u \in Tasks \ {t} : Unmoved(u)
      /\ announced' = announced
  BY AnswerEffect DEF OrphanCommit
<1>2. RowsStay
  BY <1>1, CommitRowEffect
<1>3. AcceptedOnce'
  <2>1. outcome[t] # "accepted"
    BY <1>1 DEF AnswersInv, OutcomeOK
  <2>2. \A e \in EventIds : Acceptors(e)' = Acceptors(e)
    BY <1>1, <2>1 DEF Acceptors, Unmoved
  <2> QED BY <1>1, <1>2, <2>2, AcceptedOnceKept DEF AnswersInv
<1> QED BY <1>1, <1>3, IdleOK, CommitAnswers

(* A crash leaves only handlers whose COMMIT was sent, and they keep their *)
(* locks; no handler says "accepted" any more.                             *)
LEMMA CrashAnswers ==
    ASSUME IInv, AnswersInv, Crash
    PROVE  AnswersInv'
<1>1. \A u \in Tasks : HandlerOK(u)'
  <2> SUFFICES ASSUME NEW u \in Tasks PROVE HandlerOK(u)'
    OBVIOUS
  <2>1. CASE Survives(u)
    BY <2>1 DEF Crash, HandlerOK, OutcomeOK, ReceiptOK, RetryOK, Undecided, Locations
  <2>2. CASE ~ Survives(u)
    BY <2>2, IdleOK DEF Crash
  <2> QED BY <2>1, <2>2
<1>2. RowsWereSent' /\ LastSeenWitnessed'
  BY DEF AnswersInv, RowsWereSent, LastSeenWitnessed, Crash, tables
<1>3. LocksEnd'
  <2> SUFFICES ASSUME NEW u \in Tasks PROVE LocksOK(u)'
    BY DEF LocksEnd
  <2>1. u # Nobody
    OBVIOUS
  <2>2. CASE Survives(u)
    <3>1. pc'[u] = "orphan"
      BY <2>2 DEF Crash
    <3> QED BY <3>1 DEF LocksOK, WithRow, WithKey, WithStore
  <2>3. CASE ~ Survives(u)
    BY <2>1, <2>3 DEF Crash, IInv, TypeOK, LocksOK
  <2> QED BY <2>2, <2>3
<1>4. AcceptedOnce'
  <2> SUFFICES ASSUME NEW e \in EventIds
               PROVE  announced'[e] + Cardinality(Acceptors(e)')
                         <= (IF rows'[e] = NoRow THEN 0 ELSE 1)
    BY DEF AcceptedOnce, Acceptors
  <2>1. announced[e] + Cardinality(Acceptors(e)) <= (IF rows[e] = NoRow THEN 0 ELSE 1)
    BY DEF AnswersInv, AcceptedOnce, Acceptors
  <2>2. /\ announced[e] \in Nat /\ announced' = announced /\ rows' = rows
        /\ Cardinality(Acceptors(e)) \in Nat
    BY AcceptorsFinite DEF IInv, TypeOK, Crash, tables
  <2>3. Acceptors(e)' = {}
    BY DEF Acceptors, Crash
  <2>4. Cardinality({}) = 0
    BY FS_EmptySet
  <2> HIDE DEF Acceptors
  <2> QED BY <2>1, <2>2, <2>3, <2>4
<1> QED BY <1>1, <1>2, <1>3, <1>4 DEF AnswersInv, HandlerOK

(* The clock changes nothing that is acknowledged.                         *)
LEMMA TickAnswers ==
    ASSUME IInv, AnswersInv, Tick \/ UNCHANGED vars
    PROVE  AnswersInv'
<1>1. UNCHANGED <<handlers, tables, locks, announced>>
  BY DEF Tick, vars
<1>2. \A u \in Tasks : HandlerOK(u)'
  <2> SUFFICES ASSUME NEW u \in Tasks PROVE HandlerOK(u)'
    OBVIOUS
  <2>1. HandlerOK(u) /\ RowsStay /\ Unmoved(u) /\ rows' = rows
    BY <1>1 DEF AnswersInv, HandlerOK, RowsStay, Unmoved, handlers, tables
  <2> QED BY <2>1, UnmovedOK
<1>3. /\ RowsWereSent' /\ LastSeenWitnessed' /\ LocksEnd'
  BY <1>1 DEF AnswersInv, RowsWereSent, LastSeenWitnessed, LocksEnd, LocksOK, handlers, tables, locks
<1>4. AcceptedOnce'
  BY <1>1 DEF AnswersInv, AcceptedOnce, handlers, tables
<1> QED BY <1>2, <1>3, <1>4 DEF AnswersInv, HandlerOK

(* Initially nothing is in the table and nothing is answered.              *)
LEMMA InitAnswers == Init => AnswersInv
<1> SUFFICES ASSUME Init PROVE AnswersInv
  OBVIOUS
<1>1. \A t \in Tasks : OutcomeOK(t) /\ ReceiptOK(t) /\ RetryOK(t)
  BY DEF Init, OutcomeOK, ReceiptOK, RetryOK, Undecided, Locations
<1>2. RowsWereSent /\ LastSeenWitnessed /\ LocksEnd
  BY DEF Init, RowsWereSent, LastSeenWitnessed, LocksEnd, LocksOK
<1>3. AcceptedOnce
  <2>1. \A e : Acceptors(e) = {}
    BY DEF Init, Acceptors
  <2>2. Cardinality({}) = 0
    BY FS_EmptySet
  <2> SUFFICES ASSUME NEW e \in EventIds
               PROVE  announced[e] + Cardinality(Acceptors(e))
                         <= (IF rows[e] = NoRow THEN 0 ELSE 1)
    BY DEF AcceptedOnce, Acceptors
  <2>3. announced[e] = 0 /\ rows[e] = NoRow
    BY DEF Init
  <2> HIDE DEF Acceptors
  <2> QED BY <2>1, <2>2, <2>3
<1> QED BY <1>1, <1>2, <1>3 DEF AnswersInv

(* Every step keeps what the answers rest on.                              *)
LEMMA NextAnswers == IInv /\ AnswersInv /\ [Next]_vars => AnswersInv'
<1> SUFFICES ASSUME IInv, AnswersInv, [Next]_vars PROVE AnswersInv'
  OBVIOUS
<1>1. ASSUME NEW t \in Tasks, NEW p \in Payloads, Arrive(t, p) PROVE AnswersInv'
  BY <1>1, ArriveAnswers
<1>2. ASSUME NEW t \in Tasks, Proceed(t) PROVE AnswersInv'
  BY <1>2, AdvanceAnswers, DecidingAnswers, CommitAccepted, EndAnswers, BroadcastAnswers
     DEF Proceed, Advance, Deciding
<1>3. ASSUME NEW t \in Tasks, Fault(t) PROVE AnswersInv'
  BY <1>3, DecidingAnswers, LoseCommitAnswers DEF Fault, Deciding
<1>4. ASSUME NEW t \in Tasks, EndOrphan(t) PROVE AnswersInv'
  BY <1>4, OrphanCommitAnswers, EndAnswers DEF EndOrphan
<1> QED BY <1>1, <1>2, <1>3, <1>4, CrashAnswers, TickAnswers DEF Next

(* What the answers rest on holds at any time.                             *)
THEOREM AnswersInvariant == Spec => []AnswersInv
BY InductiveInvariant, InitAnswers, NextAnswers, PTL DEF Spec

(* No lock outlives the transaction that took it, however it ended, and    *)
(* none is held before its statement.                                      *)
THEOREM LocksAreReleased == Spec => []LocksEnd
<1>1. AnswersInv => LocksEnd
  BY DEF AnswersInv
<1> QED BY AnswersInvariant, <1>1, PTL

(* The order of the locks: a handler that waits for a store has its row    *)
(* and its key, one that waits for a key has its row, and one that waits   *)
(* for a connection has nothing.  Handlers that wait for each other would  *)
(* break it, for any number of handlers, locks and connections.            *)
LEMMA LockOrder ==
    ASSUME IInv, LocksEnd
    PROVE  NoDeadlock
<1> SUFFICES ASSUME NEW S \in SUBSET Tasks, S # {},
                    \A t \in S : \/ \E u \in S : WaitsFor(t, u)
                                 \/ pc[t] = "begin" /\ PoolTaken(S)
             PROVE  FALSE
  BY DEF NoDeadlock
<1>1. \A t \in S : pc[t] \in {"lock", "insert", "flush", "begin"}
  BY DEF WaitsFor
<1>2. \A t \in S : pc[t] # "flush"
  <2> SUFFICES ASSUME NEW t \in S, pc[t] = "flush" PROVE FALSE
    OBVIOUS
  <2>1. PICK u \in S : storeLock[body[t].store] = u
    BY DEF WaitsFor
  <2>2. body[t].store \in Stores
    BY DEF IInv, RequestOK, Resolved
  <2>3. pc[u] \in WithStore
    BY <2>1, <2>2 DEF LocksEnd, LocksOK
  <2> QED BY <1>1, <2>3 DEF WithStore
<1>3. \A t \in S : pc[t] # "insert"
  <2> SUFFICES ASSUME NEW t \in S, pc[t] = "insert" PROVE FALSE
    OBVIOUS
  <2>1. PICK u \in S : keyLock[body[t].id] = u
    BY DEF WaitsFor
  <2>2. pc[u] \in WithKey
    BY <2>1, WorksOnPayload DEF LocksEnd, LocksOK
  <2> QED BY <1>1, <1>2, <2>2 DEF WithKey
<1>4. \A t \in S : pc[t] # "lock"
  <2> SUFFICES ASSUME NEW t \in S, pc[t] = "lock" PROVE FALSE
    OBVIOUS
  <2>1. PICK u \in S : rowLock[body[t].original] = u
    BY DEF WaitsFor
  <2>2. body[t].original \in EventIds
    BY WorksOnPayload DEF IInv, RequestOK, IsRefund, Body
  <2>3. pc[u] \in WithRow
    BY <2>1, <2>2 DEF LocksEnd, LocksOK
  <2> QED BY <1>1, <1>2, <1>3, <2>3 DEF WithRow
<1>5. PoolTaken(S)
  BY <1>1, <1>2, <1>3, <1>4 DEF WaitsFor
<1>6. Connected # {}
  <2>1. Cardinality({}) = 0
    BY FS_EmptySet
  <2> QED BY <1>5, <2>1 DEF PoolTaken
<1>7. PICK t \in Connected : t \in S
  BY <1>5, <1>6 DEF PoolTaken
<1> QED BY <1>1, <1>2, <1>3, <1>4, <1>7 DEF Connected

(* Row locks, keys, stores and connections of the pool never make handlers *)
(* wait for each other.                                                    *)
THEOREM HandlersNeverDeadlock == Spec => []NoDeadlock
<1>1. IInv /\ AnswersInv => NoDeadlock
  BY LockOrder DEF AnswersInv
<1> QED BY InductiveInvariant, AnswersInvariant, <1>1, PTL

(* Of all the requests for an event one at most is told "accepted", and    *)
(* only what is in the table is announced, once.                           *)
THEOREM AcceptedAtMostOnce == Spec => []AcceptedOnce
<1>1. AnswersInv => AcceptedOnce
  BY DEF AnswersInv
<1> QED BY AnswersInvariant, <1>1, PTL

(* A store is shown online only because of an event that is in the table.  *)
THEOREM LastSeenHasEvent == Spec => []LastSeenWitnessed
<1>1. AnswersInv => LastSeenWitnessed
  BY DEF AnswersInv
<1> QED BY AnswersInvariant, <1>1, PTL

-----------------------------------------------------------------------------
(***************************************************************************)
(* What acknowledgements mean.  Both theorems rest on Lossless, which is   *)
(* about the values in a body only.                                        *)
(***************************************************************************)
(* Two bodies with other infos put in are equal iff the rest is.           *)
LEMMA SameButInfo ==
    ASSUME NEW x \in Body, NEW y \in Body, NEW i, NEW j
    PROVE  [x EXCEPT !.info = i] = [y EXCEPT !.info = j] <=>
              /\ x.id = y.id /\ x.store = y.store /\ x.sku = y.sku /\ x.type = y.type
              /\ x.quantity = y.quantity /\ x.amount = y.amount
              /\ x.original = y.original /\ i = j
<1> DEFINE With(z, k) == [id |-> z.id, store |-> z.store, sku |-> z.sku, type |-> z.type,
                          quantity |-> z.quantity, amount |-> z.amount,
                          original |-> z.original, info |-> k]
<1>1. [x EXCEPT !.info = i] = With(x, i) /\ [y EXCEPT !.info = j] = With(y, j)
  BY DEF Body
<1> QED BY <1>1

(* The comparison of _classify_existing_event, field by field.             *)
LEMMA MatchesFields ==
    ASSUME NEW row \in Body, NEW p \in Body
    PROVE  Matches(row, p) <=>
              /\ row.id = p.id /\ row.store = p.store /\ row.sku = p.sku
              /\ row.type = p.type /\ row.quantity = p.quantity
              /\ row.amount = p.amount /\ row.original = p.original
              /\ PyValue[row.info] = PyValue[p.info]
<1> DEFINE i == PyValue[row.info]
           j == PyValue[p.info]
<1>1. Matches(row, p) <=> [row EXCEPT !.info = i] = [p EXCEPT !.info = j]
  BY DEF Matches
<1> HIDE DEF i, j
<1>2. Matches(row, p) <=>
         /\ row.id = p.id /\ row.store = p.store /\ row.sku = p.sku
         /\ row.type = p.type /\ row.quantity = p.quantity
         /\ row.amount = p.amount /\ row.original = p.original /\ i = j
  BY <1>1, SameButInfo
<1> QED BY <1>2 DEF i, j

(* A body matches a row iff it would be recorded as that row.              *)
LEMMA MatchingBodies ==
    ASSUME Lossless, NEW p \in Payloads, NEW q \in Payloads
    PROVE  Matches(RowOf(q), p) <=> RowOf(q) = RowOf(p)
<1>1. /\ p \in Body /\ q \in Body /\ RowOf(q) \in Body
      /\ RowOf(q) = [q EXCEPT !.info = RoundTrip[q.info]]
      /\ RowOf(p) = [p EXCEPT !.info = RoundTrip[p.info]]
  BY RecordedBody
<1>2. p.info \in Infos /\ q.info \in Infos
  BY <1>1 DEF Body
<1>3. PyValue[RoundTrip[q.info]] = PyValue[p.info] <=> RoundTrip[q.info] = RoundTrip[p.info]
  BY <1>2 DEF Lossless
<1> DEFINE Alike == /\ q.id = p.id /\ q.store = p.store /\ q.sku = p.sku /\ q.type = p.type
                    /\ q.quantity = p.quantity /\ q.amount = p.amount
                    /\ q.original = p.original
<1>4. RowOf(q) = RowOf(p) <=> Alike /\ RoundTrip[q.info] = RoundTrip[p.info]
  BY <1>1, SameButInfo
<1>5. Matches(RowOf(q), p) <=> Alike /\ PyValue[RoundTrip[q.info]] = PyValue[p.info]
  <2>1. Matches(RowOf(q), p) <=>
           /\ RowOf(q).id = p.id /\ RowOf(q).store = p.store /\ RowOf(q).sku = p.sku
           /\ RowOf(q).type = p.type /\ RowOf(q).quantity = p.quantity
           /\ RowOf(q).amount = p.amount /\ RowOf(q).original = p.original
           /\ PyValue[RowOf(q).info] = PyValue[p.info]
    BY <1>1, MatchesFields
  <2>2. RowOf(q).info = RoundTrip[q.info]
    BY <1>1 DEF Body
  <2> QED BY <2>1, <2>2, RecordedBody
<1> QED BY <1>3, <1>4, <1>5

(* Who is told "accepted" or "duplicate" asked for what is in the table.   *)
LEMMA AcknowledgedNow ==
    ASSUME Lossless, IInv, AnswersInv
    PROVE  AcknowledgedIsStored
<1> SUFFICES ASSUME NEW t \in Tasks, outcome[t] \in {"accepted", "duplicate"}
             PROVE  /\ rows[body[t].id] = RowOf(body[t])
                    /\ receipt[t] = receivedAt[body[t].id]
  BY DEF AcknowledgedIsStored
<1>1. OutcomeOK(t) /\ ReceiptOK(t)
  BY DEF AnswersInv
<1>2. body[t] \in Payloads /\ body[t].id \in EventIds
  <2>1. pc[t] # "idle"
    BY <1>1 DEF OutcomeOK, Undecided, Locations
  <2> QED BY <2>1, WorksOnPayload
<1>3. CASE outcome[t] = "accepted"
  BY <1>1, <1>3 DEF ReceiptOK
<1>4. CASE outcome[t] = "duplicate"
  <2>1. rows[body[t].id] # NoRow /\ Matches(rows[body[t].id], body[t])
    BY <1>1, <1>4 DEF ReceiptOK
  <2>2. PICK q \in Payloads : rows[body[t].id] = RowOf(q)
    BY <1>2, <2>1 DEF AnswersInv, RowsWereSent
  <2>3. RowOf(q) = RowOf(body[t])
    BY <1>2, <2>1, <2>2, MatchingBodies
  <2> QED BY <1>1, <1>4, <2>2, <2>3 DEF ReceiptOK
<1> QED BY <1>3, <1>4

(* An acknowledgement is never of something else than what is stored.      *)
THEOREM AcknowledgedEventsAreStored ==
    ASSUME Lossless PROVE Spec => []AcknowledgedIsStored
<1>1. IInv /\ AnswersInv => AcknowledgedIsStored
  BY AcknowledgedNow
<1> QED BY InductiveInvariant, AnswersInvariant, <1>1, PTL

(* A handler that is asked for what is in the table does not refuse it.    *)
Retrying(t) ==
    /\ pc[t] \notin {"idle", "rollback"}
    /\ rows[body[t].id] # NoRow /\ rows[body[t].id] = RowOf(body[t])

(* Whatever a handler decides, it does not refuse what is stored.          *)
LEMMA RetryNotRefused ==
    ASSUME Lossless, IInv, AnswersInv, NEW t \in Tasks, Retrying(t), Deciding(t)
    PROVE  outcome'[t] \in Answers
<1> DEFINE p == body[t]
           row == rows[p.id]
<1>1. p \in Payloads /\ p.id \in EventIds
  BY WorksOnPayload DEF Retrying
<1>2. /\ row # NoRow /\ row = RowOf(p)
      /\ row.store = p.store /\ row.sku = p.sku /\ row.type = p.type
      /\ row.original = p.original
  BY <1>1, RecordedBody DEF Retrying
<1>3. /\ p.store \in Stores /\ p.sku \in Products
      /\ p.type = "REFUND" => /\ rows[p.original] # NoRow
                             /\ rows[p.original].type = "SALE"
  BY <1>1, <1>2 DEF IInv, ReferencesHold
<1>4. pc[t] # "validate"
  BY <1>2 DEF AnswersInv, RetryOK
<1>5. pc[t] = "lock" => p.type = "REFUND"
  BY DEF IInv, RequestOK, IsRefund
<1>6. outcome \in [Tasks -> Outcomes]
  BY DEF IInv, TypeOK
<1>7. CASE InsertOverflow(t) \/ DatabaseError(t)
  BY <1>6, <1>7 DEF InsertOverflow, DatabaseError, Reject, Decide, Answers
<1>8. CASE Classify(t)
  <2>1. Matches(row, p)
    BY <1>1, <1>2, MatchingBodies
  <2>2. Verdict(row, p) = "duplicate"
    BY <1>2, <2>1 DEF Verdict
  <2> QED BY <1>6, <1>8, <2>2 DEF Classify, Decide, Answers
<1>9. ~ (UnknownStore(t) \/ UnknownProduct(t))
  BY <1>3 DEF UnknownStore, UnknownProduct
<1>10. ~ (OriginalMissing(t) \/ OriginalNotSale(t))
  BY <1>3, <1>5 DEF OriginalMissing, OriginalNotSale, TakeRowLock
<1>11. ~ (ReferenceMismatch(t) \/ LimitExceeded(t))
  BY <1>4 DEF ReferenceMismatch, LimitExceeded
<1> QED BY <1>7, <1>8, <1>9, <1>10, <1>11 DEF Deciding

(* No step refuses it: an outcome, once there, stays until it is sent.     *)
LEMMA RetriesAnswered ==
    ASSUME Lossless, IInv, AnswersInv, [Next]_vars, NEW t \in Tasks, Retrying(t)
    PROVE  outcome'[t] \in Answers
<1>1. outcome[t] \in Answers
  BY DEF Retrying, AnswersInv, OutcomeOK, Answers, Undecided, IInv, TypeOK
<1>2. ASSUME NEW u \in Tasks, NEW p \in Payloads, Arrive(u, p) PROVE outcome'[t] \in Answers
  BY <1>1, <1>2 DEF Arrive
<1>3. ASSUME NEW u \in Tasks, Advance(u) PROVE outcome'[t] \in Answers
  BY <1>1, <1>3, AdvanceEffect
<1>4. ASSUME NEW u \in Tasks, Deciding(u) PROVE outcome'[t] \in Answers
  <2>1. CASE u = t
    BY <1>4, <2>1, RetryNotRefused
  <2>2. CASE u # t
    BY <1>1, <1>4, <2>2, DecidingEffect DEF Decided, IInv, TypeOK
  <2> QED BY <2>1, <2>2
<1>5. ASSUME NEW u \in Tasks,
             Rollback(u) \/ OrphanAbort(u) \/ OrphanCommit(u) \/ Broadcast(u)
      PROVE  outcome'[t] \in Answers
  BY <1>1, <1>5 DEF Rollback, OrphanAbort, OrphanCommit, Broadcast, Answer, Answers, IInv, TypeOK
<1>6. ASSUME NEW u \in Tasks, Commit(u) \/ LoseCommit(u) PROVE outcome'[t] \in Answers
  BY <1>1, <1>6 DEF Commit, LoseCommit, Answers, IInv, TypeOK
<1>7. CASE Crash
  BY <1>7 DEF Crash, Answers
<1>8. CASE Tick \/ UNCHANGED vars
  BY <1>1, <1>8 DEF Tick, vars, handlers
<1> QED BY <1>2, <1>3, <1>4, <1>5, <1>6, <1>7, <1>8
        DEF Next, Proceed, Fault, EndOrphan, Advance, Deciding

(* The retry of an event in the table is never refused, whatever happened  *)
(* between the steps of the handler that answers it.                       *)
THEOREM RetriesAreHonoured ==
    ASSUME Lossless PROVE Spec => ExactRetryHonoured
<1> DEFINE Honoured == \A t \in Tasks : Retrying(t) => outcome'[t] \in Answers
<1>1. IInv /\ AnswersInv /\ [Next]_vars => [Honoured]_vars
  BY RetriesAnswered
<1>2. Honoured <=> \A t \in Tasks : /\ pc[t] \notin {"idle", "rollback"}
                                    /\ rows[body[t].id] # NoRow
                                    /\ rows[body[t].id] = RowOf(body[t])
                       => outcome'[t] \in Answers
  BY DEF Retrying
<1> QED BY InductiveInvariant, AnswersInvariant, <1>1, <1>2, PTL DEF Spec, ExactRetryHonoured
=============================================================================
