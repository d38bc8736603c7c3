-------------------------- MODULE Producer_proofs --------------------------
(***************************************************************************)
(* The bookkeeping of Producer is right for every number of workers and    *)
(* events, every catalogue, queue size and retry limit.                    *)
(***************************************************************************)
EXTENDS Producer, RefundRules_proofs

USE ConfigAssumption, NoRowAssumption

(* The sums over the events made and the rows recorded are numbers.        *)
LEMMA TablesCounted ==
    ASSUME TypeOK
    PROVE  CountedTable(made) /\ CountedTable(NotGivenUp) /\ CountedTable(rows)
BY DEF TypeOK, Bodies, CountedTable, Counted, NotGivenUp

-----------------------------------------------------------------------------
(***************************************************************************)
(* The backend                                                             *)
(***************************************************************************)
(* The backend only adds rows, each as its event was made.                 *)
RowsGrow ==
    /\ rows' \in [EventIds -> Bodies \cup {NoRow}]
    /\ \A e \in EventIds : /\ rows[e] # NoRow => rows'[e] = rows[e]
                           /\ rows'[e] # NoRow => rows'[e] = made[e]

LateOK == late' \subseteq EventIds /\ \A e \in late' : made[e] # NoRow

(* What the backend answers, and when.                                     *)
LEMMA VerdictCases ==
    ASSUME NEW e, made[e].type \in {"SALE", "REFUND"}
    PROVE  LET p == made[e]
               o == p.original IN
           /\ Verdict(e) \in Receipts \cup Refusals
           /\ Verdict(e) = "duplicate" <=> rows[e] # NoRow
           /\ Verdict(e) \in Refusals =>
                 /\ rows[e] = NoRow /\ p.type = "REFUND"
                 /\ \/ rows[o] = NoRow \/ rows[o].type # "SALE"
                    \/ ~ SameStoreAndProduct(rows, p) \/ ~ WithinLimits(rows, p)
<1> DEFINE p == made[e]
           o == p.original
           inner == CASE rows[o] = NoRow -> "original not found"
                      [] rows[o] # NoRow /\ rows[o].type # "SALE" -> "original not a sale"
                      [] rows[o] # NoRow /\ rows[o].type = "SALE"
                            /\ ~ SameStoreAndProduct(rows, p) -> "reference mismatch"
                      [] OTHER -> IF WithinLimits(rows, p) THEN "accepted" ELSE "limit exceeded"
<1>1. /\ rows[e] # NoRow => Verdict(e) = "duplicate"
      /\ rows[e] = NoRow /\ p.type = "SALE" => Verdict(e) = "accepted"
      /\ rows[e] = NoRow /\ p.type = "REFUND" => Verdict(e) = inner
  BY DEF Verdict
<1>2. /\ inner \in Refusals \cup {"accepted"}
      /\ inner \in Refusals => \/ rows[o] = NoRow \/ rows[o].type # "SALE"
                               \/ ~ SameStoreAndProduct(rows, p) \/ ~ WithinLimits(rows, p)
  BY DEF Refusals
<1> HIDE DEF inner
<1> QED BY <1>1, <1>2 DEF Receipts, Refusals

(* With unlimited retries every refund is made after its original was      *)
(* acknowledged and within what is left of it, so the backend takes it.    *)
LEMMA NothingToRefuse ==
    ASSUME IInv, limit = 0, NEW e \in EventIds, made[e] # NoRow
    PROVE  Verdict(e) \notin Refusals
<1> DEFINE p == made[e]
           o == p.original
<1>1. p \in Bodies /\ MadeOK(e) /\ failed = {}
  BY DEF IInv, TypeOK
<1>2. SUFFICES ASSUME rows[e] = NoRow, p.type = "REFUND"
      PROVE  /\ rows[o] # NoRow /\ rows[o].type = "SALE"
             /\ SameStoreAndProduct(rows, p) /\ WithinLimits(rows, p)
  BY <1>1, VerdictCases DEF Bodies
<1>3. /\ o \in EventIds /\ o \in delivered /\ made[o].type = "SALE"
      /\ SameStoreAndProduct(made, p)
  BY <1>1, <1>2 DEF MadeOK, IInv, TypeOK
<1>4. rows[o] # NoRow /\ rows[o] = made[o]
  BY <1>3 DEF IInv, ServedOK
<1>5. /\ RefundedQuantity(NotGivenUp, o) <= made[o].quantity
      /\ RefundedAmount(NotGivenUp, o) <= made[o].amount
  BY <1>3, <1>4 DEF IInv, MadeOK
<1> DEFINE new == [rows EXCEPT ![e] = p]
<1>6. /\ RefundedQuantity(new, o) = RefundedQuantity(rows, o) + p.quantity
      /\ RefundedAmount(new, o) = RefundedAmount(rows, o) + p.amount
  <2>1. CountedTable(rows) /\ Counted(p)
    BY <1>1, TablesCounted DEF IInv, Bodies, Counted
  <2>2. Appends(new, rows, e, p)
    BY <1>1, <1>2 DEF Appends, IInv, TypeOK
  <2> HIDE DEF new, p, o
  <2> QED BY <1>2, <2>1, <2>2, RefundedAppend DEF o
<1>7. /\ RefundedQuantity(new, o) <= RefundedQuantity(NotGivenUp, o)
      /\ RefundedAmount(new, o) <= RefundedAmount(NotGivenUp, o)
  <2>1. CountedTable(NotGivenUp)
    BY TablesCounted DEF IInv
  <2>2. \A x \in EventIds : new[x] # NoRow => new[x] = NotGivenUp[x]
    BY <1>1 DEF IInv, TypeOK, ServedOK, NotGivenUp
  <2> HIDE DEF new, p, o
  <2> QED BY <2>1, <2>2, RefundedMonotone
<1>8. /\ RefundedQuantity(rows, o) \in Nat /\ RefundedAmount(rows, o) \in Nat
      /\ RefundedQuantity(NotGivenUp, o) \in Nat /\ RefundedAmount(NotGivenUp, o) \in Nat
  BY TablesCounted, RefundedType DEF IInv
<1>9. WithinLimits(rows, p)
  <2> /\ p.quantity \in Nat /\ p.amount \in Nat
      /\ made[o].quantity \in Nat /\ made[o].amount \in Nat
    BY <1>1, <1>3, <1>4 DEF IInv, TypeOK, Bodies
  <2> QED BY <1>4, <1>5, <1>6, <1>7, <1>8 DEF WithinLimits
<1>10. SameStoreAndProduct(rows, p)
  BY <1>3, <1>4 DEF SameStoreAndProduct
<1> QED BY <1>3, <1>4, <1>9, <1>10

(* The backend stores what it accepts.                                     *)
LEMMA StoreEffect ==
    ASSUME IInv, NEW e \in EventIds, made[e] # NoRow, Store(e)
    PROVE  /\ RowsGrow
           /\ Verdict(e) \in Receipts => rows'[e] # NoRow
<1>1. made[e] \in Bodies /\ rows \in [EventIds -> Bodies \cup {NoRow}]
  BY DEF IInv, TypeOK
<1>2. Verdict(e) = "duplicate" <=> rows[e] # NoRow
  BY <1>1, VerdictCases DEF Bodies
<1>3. \A x \in EventIds : rows[x] # NoRow => rows[x] = made[x]
  BY DEF IInv, ServedOK
<1> QED BY <1>1, <1>2, <1>3 DEF Store, RowsGrow, Receipts

-----------------------------------------------------------------------------
(***************************************************************************)
(* Steps that move no event and leave the local ledger alone               *)
(***************************************************************************)
(* An event stays where it is.                                             *)
LEMMA PlaceKept ==
    ASSUME NEW e \in EventIds, PlacedOnce(e), made'[e] = made[e], hand' = e <=> hand = e,
           QueuedAt(e)' = QueuedAt(e), Holders(e)' = Holders(e),
           e \in delivered' <=> e \in delivered, e \in failed' <=> e \in failed,
           e \in lost' <=> e \in lost
    PROVE  PlacedOnce(e)'
BY DEF PlacedOnce

(* Only one worker moves.                                                  *)
LEMMA Becomes ==
    ASSUME TypeOK, NEW w \in Workers, NEW s \in WorkerStates, Become(w, s)
    PROVE  /\ worker' \in [Workers -> WorkerStates]
           /\ worker'[w] = s /\ \A v \in Workers \ {w} : worker'[v] = worker[v]
BY DEF TypeOK, Become

(* A replay holds no event: it is done with.                               *)
LEMMA HoldersKept ==
    ASSUME TypeOK, NEW w \in Workers, NEW s \in WorkerStates, Become(w, s),
           \/ s.event = worker[w].event /\ s.replay = worker[w].replay
           \/ worker[w].replay /\ s = Idle,
           NEW e \in EventIds
    PROVE  Holders(e)' = Holders(e)
BY Becomes DEF Holders, Idle

(* What the local ledger says is not touched.                              *)
LEMMA LedgerKept ==
    ASSUME IInv, UNCHANGED <<made, sales, delivered, failed>>, RowsGrow, LateOK
    PROVE  /\ \A e \in EventIds : MadeOK(e)' /\ ServedOK(e)' /\ SaleOK(e)'
           /\ LedgerBalances'
<1>1. NotGivenUp' = NotGivenUp
  BY DEF NotGivenUp
<1>2. ASSUME NEW e \in EventIds PROVE MadeOK(e)'
  <2>1. MadeOK(e)
    BY DEF IInv
  <2>2. \A x : /\ RefundedQuantity(NotGivenUp, x)' = RefundedQuantity(NotGivenUp, x)
               /\ RefundedAmount(NotGivenUp, x)' = RefundedAmount(NotGivenUp, x)
    BY <1>1 DEF RefundedQuantity, RefundedAmount, RefundsOf
  <2> QED BY <2>1, <2>2 DEF MadeOK, SameStoreAndProduct
<1>3. ASSUME NEW e \in EventIds PROVE ServedOK(e)' /\ SaleOK(e)'
  BY DEF IInv, ServedOK, SaleOK, RowsGrow, LateOK
<1>4. LedgerBalances'
  <2>1. \A x : /\ RefundedQuantity(NotGivenUp, x)' = RefundedQuantity(NotGivenUp, x)
               /\ RefundedAmount(NotGivenUp, x)' = RefundedAmount(NotGivenUp, x)
    BY <1>1 DEF RefundedQuantity, RefundedAmount, RefundsOf
  <2> SUFFICES ASSUME NEW o \in EventIds, sales[o] # NoRow
               PROVE  /\ rows'[o] = made[o]
                      /\ sales[o].quantity + RefundedQuantity(NotGivenUp, o) = made[o].quantity
                      /\ sales[o].amount + RefundedAmount(NotGivenUp, o) = made[o].amount
    BY <2>1 DEF LedgerBalances
  <2>2. rows[o] # NoRow /\ rows[o] = made[o]
    BY DEF IInv, SaleOK, ServedOK
  <2>3. rows'[o] = rows[o]
    BY <2>2 DEF RowsGrow
  <2> QED BY <2>2, <2>3 DEF IInv, LedgerBalances
<1> QED BY <1>2, <1>3, <1>4

(* What is known of a worker stays true while others work.                 *)
WorkerDone(w) ==
    /\ WorkerOK(w)
    /\ limit = 0 => worker[w].reply \notin Refusals
    /\ worker[w].replay => worker[w].reply \in {"none", "duplicate"}
    /\ limit # 0 => worker[w].attempt <= limit

(* What is known of a worker that does not move stays true.                *)
LEMMA OtherWorkers ==
    ASSUME IInv, NEW v \in Workers, worker'[v] = worker[v], limit' = limit,
           delivered \subseteq delivered', RowsGrow
    PROVE  WorkerDone(v)'
<1>1. WorkerOK(v) /\ worker[v] \in WorkerStates
  BY DEF IInv, TypeOK
<1>2. WorkerOK(v)'
  <2>1. rows[worker[v].event] # NoRow /\ worker[v].reply \in Receipts
           => rows'[worker[v].event] # NoRow
    <3>1. worker[v].reply \in Receipts => worker[v].event \in EventIds
      BY <1>1 DEF WorkerOK, WorkerStates, Receipts
    <3>2. NoRow \notin Bodies
      OBVIOUS
    <3> QED BY <3>1 DEF RowsGrow
  <2> QED BY <1>1, <2>1 DEF WorkerOK
<1> QED BY <1>2 DEF WorkerDone, IInv, TypeOK, NothingRefused, ReplayIsDuplicate

(* One worker goes on with its event, or is done with a replay.            *)
LEMMA WorkerStep ==
    ASSUME IInv, NEW w \in Workers, NEW s \in WorkerStates, Become(w, s),
           UNCHANGED <<limit, made, sales, hand, queue, delivered, failed, lost>>,
           \/ s.event = worker[w].event /\ s.replay = worker[w].replay
           \/ worker[w].replay /\ s = Idle,
           RowsGrow, LateOK, WorkerDone(w)'
    PROVE  IInv'
<1>1. \A e \in EventIds : PlacedOnce(e)'
  <2> SUFFICES ASSUME NEW e \in EventIds PROVE PlacedOnce(e)'
    OBVIOUS
  <2>1. TypeOK /\ PlacedOnce(e)
    BY DEF IInv
  <2>2. Holders(e)' = Holders(e)
    BY <2>1, HoldersKept
  <2>3. QueuedAt(e)' = QueuedAt(e)
    BY DEF QueuedAt
  <2> QED BY <2>1, <2>2, <2>3, PlaceKept
<1>2. \A v \in Workers : WorkerDone(v)'
  BY OtherWorkers, Becomes DEF IInv
<1>3. TypeOK'
  <2>1. worker' \in [Workers -> WorkerStates]
    BY Becomes DEF IInv
  <2>2. limit' # 0 => \A v \in Workers : worker'[v].attempt <= limit'
    BY <1>2 DEF WorkerDone
  <2> QED BY <2>1, <2>2 DEF IInv, TypeOK, RowsGrow, LateOK
<1>4. NothingRefused' /\ ReplayIsDuplicate' /\ \A v \in Workers : WorkerOK(v)'
  BY <1>2 DEF WorkerDone, NothingRefused, ReplayIsDuplicate
<1> QED BY <1>1, <1>3, <1>4, LedgerKept DEF IInv

(* A worker works on an event that was made.                               *)
LEMMA WorksOnMade ==
    ASSUME IInv, NEW w \in Workers, worker[w].at # "idle"
    PROVE  worker[w].event \in EventIds /\ made[worker[w].event] # NoRow
<1> DEFINE e == worker[w].event
<1>1. e \in EventIds
  BY DEF IInv, TypeOK, WorkerOK, WorkerStates
<1>2. PlacedOnce(e)
  BY <1>1 DEF IInv
<1>3. e \in delivered \/ Holders(e) # {}
  BY DEF IInv, WorkerOK, Holders
<1>4. made[e] # NoRow
  <2> HIDE DEF e
  <2> QED BY <1>2, <1>3 DEF PlacedOnce
<1> QED BY <1>1, <1>4

(* Rows that stay the same have grown by nothing.                          *)
LEMMA RowsSame ==
    ASSUME IInv, rows' = rows
    PROVE  RowsGrow
BY DEF IInv, TypeOK, ServedOK, RowsGrow

(* A request that is not waited for is one of an event that was made.      *)
LEMMA NoAnswerLate ==
    ASSUME IInv, NEW w \in Workers, NoAnswer(w)
    PROVE  LateOK
<1>1. worker[w].event \in EventIds /\ made[worker[w].event] # NoRow
  BY WorksOnMade DEF NoAnswer
<1>2. late \subseteq EventIds /\ \A e \in late : made[e] # NoRow
  BY DEF IInv, TypeOK, ServedOK
<1>3. late' \subseteq late \cup {worker[w].event}
  BY DEF NoAnswer
<1> QED BY <1>1, <1>2, <1>3 DEF LateOK

(* The end of a replay changes no event's fate.                            *)
LEMMA EndReplayKeeps ==
    ASSUME IInv, limit' = limit, NEW w \in Workers, EndReplay(w) \/ GiveUpReplay(w)
    PROVE  IInv'
<1>1. /\ Become(w, Idle) /\ worker[w].replay /\ rows' = rows
      /\ UNCHANGED <<limit, made, sales, hand, queue, delivered, failed, lost>>
  BY DEF EndReplay, GiveUpReplay, Answered, IInv, TypeOK, WorkerStates
<1>2. LateOK
  <2>1. CASE EndReplay(w)
    BY <2>1 DEF EndReplay, LateOK, IInv, TypeOK, ServedOK
  <2> QED BY <2>1, NoAnswerLate DEF GiveUpReplay
<1>3. Idle \in WorkerStates
  BY DEF Idle, WorkerStates
<1>4. WorkerDone(w)'
  <2>1. worker'[w] = Idle
    BY <1>1, <1>3, Becomes DEF IInv
  <2> QED BY <1>1, <2>1 DEF WorkerDone, WorkerOK, Idle, Receipts, Refusals, IInv
<1> QED BY <1>1, <1>2, <1>3, <1>4, RowsSame, WorkerStep

(* After a failed attempt a worker waits, or its delay overflows.          *)
LEMMA BackOffKeeps ==
    ASSUME IInv, limit' = limit, NEW w \in Workers, BackOff(w) \/ Raise(w)
    PROVE  IInv'
<1> DEFINE old == worker[w]
<1>1. PICK at \in {"backoff", "dead"} :
         /\ Become(w, [old EXCEPT !.at = at, !.reply = "none"])
         /\ at = "backoff" => ~ Exhausted(w)
  BY DEF BackOff, Raise
<1>2. /\ UNCHANGED <<limit, made, sales, hand, queue, delivered, failed, lost, rows>>
      /\ NoAnswer(w) /\ old.at = "posting"
  BY DEF BackOff, Raise, NoAnswer
<1> DEFINE s == [old EXCEPT !.at = at, !.reply = "none"]
<1>3. old \in WorkerStates /\ WorkerOK(w) /\ (limit # 0 => old.attempt <= limit)
  BY DEF IInv, TypeOK
<1>4. /\ s \in WorkerStates /\ s.event = old.event /\ s.replay = old.replay
      /\ s.at = at /\ s.reply = "none" /\ s.attempt = old.attempt
  BY <1>3 DEF WorkerStates
<1>5. at = "backoff" /\ limit # 0 => old.attempt < limit
  BY <1>1, <1>3 DEF Exhausted, WorkerStates, IInv
<1> HIDE DEF s
<1>6. Become(w, s)
  BY <1>1 DEF s
<1>7. worker'[w] = s
  BY <1>4, <1>6, Becomes DEF IInv
<1>8. WorkerDone(w)'
  BY <1>2, <1>3, <1>4, <1>5, <1>7 DEF WorkerDone, WorkerOK, Receipts, Refusals
<1> QED BY <1>2, <1>4, <1>6, <1>8, NoAnswerLate, RowsSame, WorkerStep

(* The next attempt.                                                       *)
LEMMA ResendKeeps ==
    ASSUME IInv, limit' = limit, NEW w \in Workers, Resend(w)
    PROVE  IInv'
<1> DEFINE old == worker[w]
           n == IF limit = 0 /\ Doublings = 0 THEN 1 ELSE old.attempt + 1
           s == Posting(old.event, old.replay, n)
<1>1. /\ Become(w, s) /\ old.at = "backoff"
      /\ UNCHANGED <<limit, made, sales, hand, queue, delivered, failed, lost, rows, late>>
  BY DEF Resend
<1>2. old \in WorkerStates /\ WorkerOK(w)
  BY DEF IInv, TypeOK
<1>3. n \in Nat /\ (limit # 0 => n <= limit)
  <2>1. old.attempt \in Nat /\ limit \in Nat
    BY <1>2 DEF WorkerStates, IInv
  <2>2. limit # 0 => old.attempt < limit
    BY <1>1, <1>2 DEF WorkerOK
  <2> QED BY <2>1, <2>2
<1> HIDE DEF n
<1>4. /\ s \in WorkerStates /\ s.event = old.event /\ s.replay = old.replay
      /\ s.at = "posting" /\ s.reply = "none" /\ s.attempt = n
  BY <1>2, <1>3 DEF Posting, WorkerStates
<1> HIDE DEF s
<1>5. worker'[w] = s
  BY <1>1, <1>4, Becomes DEF IInv
<1>6. WorkerDone(w)'
  BY <1>1, <1>2, <1>3, <1>4, <1>5 DEF WorkerDone, WorkerOK, Receipts, Refusals
<1>7. LateOK
  BY <1>1 DEF LateOK, IInv, TypeOK, ServedOK
<1> QED BY <1>1, <1>4, <1>6, <1>7, RowsSame, WorkerStep

(* The backend serves a request and its answer arrives: with unlimited     *)
(* retries it is no refusal, because what a refund needs is recorded.      *)
LEMMA ServeKeeps ==
    ASSUME IInv, limit' = limit, NEW w \in Workers, Serve(w)
    PROVE  IInv'
<1> DEFINE old == worker[w]
           e == old.event
           v == Verdict(e)
           s == [old EXCEPT !.reply = v]
<1>1. /\ Become(w, s) /\ Store(e) /\ old.at = "posting"
      /\ UNCHANGED <<limit, made, sales, hand, queue, delivered, failed, lost, late>>
  BY DEF Serve
<1>2. old \in WorkerStates /\ WorkerOK(w) /\ (limit # 0 => old.attempt <= limit)
  BY DEF IInv, TypeOK
<1>3. e \in EventIds /\ made[e] # NoRow /\ made[e].type \in {"SALE", "REFUND"}
  BY <1>1, WorksOnMade DEF IInv, TypeOK, Bodies
<1>4. /\ RowsGrow /\ (v \in Receipts => rows'[e] # NoRow)
  BY <1>1, <1>3, StoreEffect
<1>5. /\ v \in Receipts \cup Refusals /\ (v = "duplicate" <=> rows[e] # NoRow)
  BY <1>3, VerdictCases
<1>6. limit = 0 => v \notin Refusals
  BY <1>3, NothingToRefuse
<1>7. old.replay => v = "duplicate"
  BY <1>2, <1>3, <1>5 DEF WorkerOK, IInv, ServedOK
<1> HIDE DEF v
<1>8. /\ s \in WorkerStates /\ s.event = e /\ s.replay = old.replay
      /\ s.at = "posting" /\ s.reply = v /\ s.attempt = old.attempt
  BY <1>1, <1>2, <1>5 DEF WorkerStates
<1> HIDE DEF s
<1>9. worker'[w] = s
  BY <1>1, <1>8, Becomes DEF IInv
<1>10. WorkerDone(w)'
  BY <1>1, <1>2, <1>3, <1>4, <1>5, <1>6, <1>7, <1>8, <1>9 DEF WorkerDone, WorkerOK
<1>11. LateOK
  BY <1>1 DEF LateOK, IInv, TypeOK, ServedOK
<1> QED BY <1>1, <1>4, <1>8, <1>10, <1>11, WorkerStep

(* Requests that nobody waits for, and steps that change nothing.          *)
LEMMA LocalKept ==
    ASSUME IInv, UNCHANGED <<limit, local>>, RowsGrow, LateOK
    PROVE  IInv'
<1>1. \A e \in EventIds : PlacedOnce(e)'
  BY PlaceKept DEF IInv, local, QueuedAt, Holders
<1>2. \A w \in Workers : WorkerDone(w)'
  BY OtherWorkers DEF local
<1>3. NothingRefused' /\ ReplayIsDuplicate' /\ \A w \in Workers : WorkerOK(w)'
  BY <1>2 DEF WorkerDone, NothingRefused, ReplayIsDuplicate
<1>4. TypeOK'
  BY DEF IInv, TypeOK, local, RowsGrow, LateOK
<1> QED BY <1>1, <1>3, <1>4, LedgerKept DEF IInv, local

(* A request nobody waits for is served, or lost.                          *)
LEMMA LateKeeps ==
    ASSUME IInv, limit' = limit, NEW e \in EventIds, ServeLate(e) \/ LateEnds(e)
    PROVE  IInv'
<1>1. LateOK
  BY DEF ServeLate, LateEnds, LateOK, IInv, TypeOK, ServedOK
<1>2. RowsGrow
  <2>1. CASE ServeLate(e)
    BY <2>1, StoreEffect DEF ServeLate, IInv, ServedOK
  <2> QED BY <2>1, RowsSame DEF LateEnds
<1> QED BY <1>1, <1>2, LocalKept DEF ServeLate, LateEnds

-----------------------------------------------------------------------------
(***************************************************************************)
(* The traffic loop                                                        *)
(***************************************************************************)
(* What the refunds made of x and not given up add up to.                  *)
RefundedUnits(x) == RefundedQuantity(NotGivenUp, x)
RefundedCents(x) == RefundedAmount(NotGivenUp, x)

(* The sums of refunds made and not given up are numbers.                  *)
LEMMA SumsTyped ==
    ASSUME IInv, NEW x
    PROVE  RefundedUnits(x) \in Nat /\ RefundedCents(x) \in Nat
BY TablesCounted, RefundedType DEF IInv, RefundedUnits, RefundedCents

(* An event that is new is nowhere.                                        *)
LEMMA NewEvent ==
    ASSUME IInv, NEW e \in EventIds, made[e] = NoRow
    PROVE  /\ hand # e /\ QueuedAt(e) = {} /\ Holders(e) = {}
           /\ e \notin delivered /\ e \notin failed /\ e \notin lost /\ sales[e] = NoRow
<1>1. PlacedOnce(e) /\ SaleOK(e)
  BY DEF IInv
<1> QED BY <1>1 DEF PlacedOnce, SaleOK

(* A new refund adds to the refunds of its sale, and to no others.         *)
LEMMA GenerateSums ==
    ASSUME IInv, NEW e \in EventIds, NEW event \in Bodies, Generate(e, event),
           failed' = failed, NEW x
    PROVE  IF event.type = "REFUND" /\ event.original = x
             THEN /\ RefundedUnits(x)' = RefundedUnits(x) + event.quantity
                  /\ RefundedCents(x)' = RefundedCents(x) + event.amount
             ELSE /\ RefundedUnits(x)' = RefundedUnits(x)
                  /\ RefundedCents(x)' = RefundedCents(x)
<1>1. e \notin failed /\ made[e] = NoRow /\ made' = [made EXCEPT ![e] = event]
  BY NewEvent DEF Generate
<1>2. Appends(NotGivenUp', NotGivenUp, e, event)
  BY <1>1 DEF Appends, NotGivenUp, IInv, TypeOK
<1>3. CountedTable(NotGivenUp) /\ Counted(event)
  BY TablesCounted DEF IInv, Counted, Bodies
<1>4. IF event.type = "REFUND" /\ event.original = x
        THEN /\ RefundedQuantity(NotGivenUp', x) = RefundedQuantity(NotGivenUp, x) + event.quantity
             /\ RefundedAmount(NotGivenUp', x) = RefundedAmount(NotGivenUp, x) + event.amount
        ELSE /\ RefundedQuantity(NotGivenUp', x) = RefundedQuantity(NotGivenUp, x)
             /\ RefundedAmount(NotGivenUp', x) = RefundedAmount(NotGivenUp, x)
  BY ONLY <1>2, <1>3, ConfigAssumption, RefundedAppend
<1>5. /\ RefundedUnits(x)' = RefundedQuantity(NotGivenUp', x)
      /\ RefundedCents(x)' = RefundedAmount(NotGivenUp', x)
  BY DEF RefundedUnits, RefundedCents, RefundedQuantity, RefundedAmount, RefundsOf
<1> QED BY <1>4, <1>5 DEF RefundedUnits, RefundedCents

(* Everything but the ledger, for an event that is made.                   *)
LEMMA GenerateFrame ==
    ASSUME IInv, NEW e \in EventIds, NEW event \in Bodies, Generate(e, event),
           UNCHANGED <<limit, queue, worker, delivered, failed, lost, rows, late>>,
           sales' \in [EventIds -> Entries \cup {NoRow}]
    PROVE  /\ TypeOK' /\ NothingRefused' /\ ReplayIsDuplicate'
           /\ \A x \in EventIds : PlacedOnce(x)' /\ ServedOK(x)'
           /\ \A w \in Workers : WorkerOK(w)'
           /\ \A x \in EventIds \ {e} : made'[x] = made[x]
           /\ made'[e] = event /\ e \notin delivered
<1>1. /\ made \in [EventIds -> Bodies \cup {NoRow}] /\ hand = NoEvent /\ hand' = e
      /\ made[e] = NoRow /\ made' = [made EXCEPT ![e] = event]
  BY DEF Generate, IInv, TypeOK
<1>2. TypeOK' /\ NothingRefused' /\ ReplayIsDuplicate' /\ \A w \in Workers : WorkerOK(w)'
  BY <1>1 DEF IInv, TypeOK, NothingRefused, ReplayIsDuplicate, WorkerOK
<1>3. ASSUME NEW x \in EventIds PROVE QueuedAt(x)' = QueuedAt(x) /\ Holders(x)' = Holders(x)
  BY DEF QueuedAt, Holders
<1>4. ASSUME NEW x \in EventIds \ {e} PROVE PlacedOnce(x)'
  BY <1>1, <1>3, PlaceKept DEF IInv
<1>5. PlacedOnce(e)'
  <2>1. event # NoRow
    OBVIOUS
  <2> QED BY <1>1, <1>3, <2>1, NewEvent DEF PlacedOnce
<1>6. \A x \in EventIds : ServedOK(x)'
  BY <1>1 DEF IInv, ServedOK
<1> QED BY <1>1, <1>2, <1>4, <1>5, <1>6, NewEvent

(* A sale or a refund that is made has the shape of an event and the price *)
(* in the catalogue.                                                       *)
LEMMA EventBody ==
    ASSUME NEW type \in {"SALE", "REFUND"}, NEW sku \in DOMAIN Catalog, NEW n \in Nat \ {0},
           NEW o \in EventIds \cup {NoEvent}
    PROVE  LET event == Event(type, sku, n, o) IN
           /\ event \in Bodies /\ event.amount = Catalog[sku] * n
           /\ event.type = type /\ event.sku = sku /\ event.quantity = n
           /\ event.original = o /\ event.store = StoreCode
<1>1. Catalog[sku] \in Nat \ {0}
  OBVIOUS
<1>2. Catalog[sku] * n \in Nat \ {0}
  BY <1>1
<1> QED BY <1>2 DEF Event, Bodies

(* A new sale has no refunds yet.                                          *)
LEMMA MakeSaleKeeps ==
    ASSUME IInv, limit' = limit, NEW e \in EventIds, NEW sku \in DOMAIN Catalog,
           NEW n \in 1 .. MaxQuantity, MakeSale(e, sku, n)
    PROVE  IInv'
<1> DEFINE event == Event("SALE", sku, n, NoEvent)
<1>1. /\ event \in Bodies /\ event.amount = Catalog[sku] * n /\ event.type = "SALE"
      /\ event.sku = sku /\ event.quantity = n
  BY EventBody
<1>2. /\ Generate(e, event)
      /\ UNCHANGED <<limit, sales, queue, worker, delivered, failed, lost, rows, late>>
  BY DEF MakeSale
<1> HIDE DEF event
<1>3. /\ TypeOK' /\ NothingRefused' /\ ReplayIsDuplicate'
      /\ \A x \in EventIds : PlacedOnce(x)' /\ ServedOK(x)'
      /\ \A w \in Workers : WorkerOK(w)'
      /\ \A x \in EventIds \ {e} : made'[x] = made[x]
      /\ made'[e] = event /\ e \notin delivered
  <2>1. sales' \in [EventIds -> Entries \cup {NoRow}]
    BY <1>2 DEF IInv, TypeOK
  <2> QED BY <1>1, <1>2, <2>1, GenerateFrame
<1>4. \A x : RefundedUnits(x)' = RefundedUnits(x) /\ RefundedCents(x)' = RefundedCents(x)
  BY <1>1, <1>2, GenerateSums
<1>5. RefundedUnits(e) = 0 /\ RefundedCents(e) = 0
  <2>1. RefundsOf(NotGivenUp, e) = {}
    BY <1>3 DEF RefundsOf, NotGivenUp, IInv, MadeOK
  <2> QED BY <2>1, RefundedNothing DEF RefundedUnits, RefundedCents
<1>6. ASSUME NEW x \in EventIds PROVE MadeOK(x)'
  <2>1. CASE x = e
    BY <1>1, <1>3, <1>4, <1>5, <2>1 DEF MadeOK, RefundedUnits, RefundedCents, Bodies
  <2>2. CASE x # e
    <3>1. MadeOK(x) /\ x \in EventIds \ {e}
      BY <2>2 DEF IInv
    <3>2. made'[x] = made[x] /\ delivered' = delivered
      BY <1>2, <1>3, <3>1
    <3>3. made[x] # NoRow /\ made[x].type = "REFUND" =>
             made'[made[x].original] = made[made[x].original]
      BY <1>3, <3>1 DEF MadeOK, IInv, TypeOK
    <3> QED BY <1>4, <3>1, <3>2, <3>3 DEF MadeOK, RefundedUnits, RefundedCents, SameStoreAndProduct
  <2> QED BY <2>1, <2>2
<1>7. \A x \in EventIds : sales[x] # NoRow => x \in EventIds \ {e}
  BY <1>2, NewEvent DEF Generate
<1>8. \A x \in EventIds : SaleOK(x)'
  BY <1>2, <1>3, <1>7 DEF IInv, SaleOK
<1>9. LedgerBalances'
  BY <1>2, <1>3, <1>4, <1>7 DEF IInv, LedgerBalances, RefundedUnits, RefundedCents
<1> QED BY <1>2, <1>3, <1>6, <1>8, <1>9 DEF IInv

(* The share of a refund is taken from what is left of the sale.           *)
LEMMA Reserved ==
    ASSUME NEW price \in Nat, NEW quantity \in Nat, NEW n \in Nat, n <= quantity
    PROVE  /\ quantity - n \in Nat
           /\ price * quantity - price * n = price * (quantity - n)
           /\ price * (quantity - n) \in Nat
<1>1. quantity - n \in Nat
  OBVIOUS
<1>2. price * quantity - price * n = price * (quantity - n)
  OBVIOUS
<1>3. \A a, b \in Nat : a * b \in Nat
  OBVIOUS
<1> QED BY <1>1, <1>2, <1>3

(* A refund is reserved: what it takes the ledger has left.                *)
LEMMA MakeRefundKeeps ==
    ASSUME IInv, limit' = limit, NEW e \in EventIds, NEW o \in EventIds,
           NEW n \in 1 .. MaxQuantity, MakeRefund(e, o, n)
    PROVE  IInv'
<1> DEFINE sku == made[o].sku
           event == Event("REFUND", sku, n, o)
           price == Catalog[sku]
           left == sales[o]
<1>1. /\ left # NoRow /\ n <= left.quantity /\ Generate(e, event) /\ Reserve(o, event)
      /\ UNCHANGED <<limit, queue, worker, delivered, failed, lost, rows, late>>
  BY DEF MakeRefund, Refundable
<1>2. /\ left \in Entries /\ left.amount = price * left.quantity
      /\ o \in delivered /\ made[o].type = "SALE" /\ made[o] # NoRow /\ made[o] \in Bodies
  <2>1. SaleOK(o) /\ ServedOK(o) /\ left \in Entries
    BY <1>1 DEF IInv, TypeOK
  <2> QED BY <1>1, <2>1 DEF SaleOK, ServedOK, IInv, TypeOK
<1>3. sku \in DOMAIN Catalog /\ price \in Nat \ {0}
  BY <1>2 DEF Bodies
<1>4. /\ event \in Bodies /\ event.amount = price * n /\ event.type = "REFUND"
      /\ event.sku = sku /\ event.quantity = n /\ event.original = o
      /\ event.store = StoreCode
  <2>1. n \in Nat \ {0} /\ o \in EventIds \cup {NoEvent} /\ "REFUND" \in {"SALE", "REFUND"}
    OBVIOUS
  <2> HIDE DEF sku
  <2> QED BY <1>3, <2>1, EventBody
<1>5. o # e
  BY <1>1, <1>2 DEF Generate
<1> DEFINE new == [quantity |-> left.quantity - n, amount |-> left.amount - price * n]
<1>6. sales' = [sales EXCEPT ![o] = new]
  BY <1>1, <1>4 DEF Reserve
<1>7. new \in Entries /\ new.amount = price * new.quantity
  BY <1>1, <1>2, <1>3, Reserved DEF Entries
<1>8. /\ sales' \in [EventIds -> Entries \cup {NoRow}] /\ sales'[o] = new
      /\ \A x \in EventIds \ {o} : sales'[x] = sales[x]
  BY <1>6, <1>7 DEF IInv, TypeOK
<1>9. /\ new.quantity = left.quantity - n /\ new.amount = left.amount - price * n
  OBVIOUS
<1>10. /\ made[o].store = StoreCode /\ made[o].quantity \in Nat /\ made[o].amount \in Nat
       /\ left.quantity \in Nat /\ left.amount \in Nat /\ price * n \in Nat
  BY <1>2, <1>3, <1>4 DEF Bodies, Entries
<1> HIDE DEF event, new, left, price
<1>11. /\ TypeOK' /\ NothingRefused' /\ ReplayIsDuplicate'
       /\ \A x \in EventIds : PlacedOnce(x)' /\ ServedOK(x)'
       /\ \A w \in Workers : WorkerOK(w)'
       /\ \A x \in EventIds \ {e} : made'[x] = made[x]
       /\ made'[e] = event /\ e \notin delivered
  BY <1>1, <1>4, <1>8, GenerateFrame
<1>12. \A x \in EventIds \ {o} : RefundedUnits(x)' = RefundedUnits(x)
                                  /\ RefundedCents(x)' = RefundedCents(x)
  BY <1>1, <1>4, GenerateSums
<1>13. /\ RefundedUnits(o)' = RefundedUnits(o) + n
       /\ RefundedCents(o)' = RefundedCents(o) + price * n
  BY <1>1, <1>4, GenerateSums
<1>14. /\ left.quantity + RefundedUnits(o) = made[o].quantity
       /\ left.amount + RefundedCents(o) = made[o].amount
  BY <1>1 DEF IInv, LedgerBalances, RefundedUnits, RefundedCents, left
<1>15. /\ new.quantity + RefundedUnits(o)' = made[o].quantity
       /\ new.amount + RefundedCents(o)' = made[o].amount
       /\ RefundedUnits(o)' <= made[o].quantity /\ RefundedCents(o)' <= made[o].amount
  BY <1>1, <1>7, <1>9, <1>10, <1>13, <1>14, SumsTyped DEF Entries
<1>16. ASSUME NEW x \in EventIds PROVE MadeOK(x)'
  <2>1. CASE x = e
    <3>1. made'[e] = event /\ made'[o] = made[o] /\ delivered' = delivered
      BY <1>1, <1>5, <1>11
    <3>2. event.amount = Catalog[event.sku] * event.quantity
      BY <1>4 DEF price
    <3> QED BY <1>2, <1>4, <1>10, <2>1, <3>1, <3>2 DEF MadeOK, SameStoreAndProduct
  <2>2. CASE x # e
    <3>1. MadeOK(x) /\ x \in EventIds \ {e}
      BY <2>2 DEF IInv
    <3>2. made'[x] = made[x] /\ delivered' = delivered
      BY <1>1, <1>11, <3>1
    <3>3. made[x] # NoRow /\ made[x].type = "REFUND" =>
             made'[made[x].original] = made[made[x].original]
      BY <1>11, <3>1 DEF MadeOK, IInv, TypeOK
    <3>4. made[x] # NoRow /\ made[x].type = "SALE" =>
             RefundedUnits(x)' <= made[x].quantity /\ RefundedCents(x)' <= made[x].amount
      BY <1>12, <1>15, <3>1 DEF MadeOK, RefundedUnits, RefundedCents
    <3> QED BY <3>1, <3>2, <3>3, <3>4 DEF MadeOK, RefundedUnits, RefundedCents, SameStoreAndProduct
  <2> QED BY <2>1, <2>2
<1>17. ASSUME NEW x \in EventIds PROVE SaleOK(x)'
  <2>1. CASE x = o
    BY <1>1, <1>2, <1>5, <1>7, <1>8, <1>11, <2>1 DEF SaleOK, price
  <2>2. CASE x # o
    <3>1. SaleOK(x) /\ sales'[x] = sales[x] /\ delivered' = delivered
      BY <1>1, <1>8, <2>2 DEF IInv
    <3>2. sales[x] # NoRow => made'[x] = made[x]
      BY <1>11, <3>1 DEF SaleOK
    <3> QED BY <3>1, <3>2 DEF SaleOK
  <2> QED BY <2>1, <2>2
<1>18. LedgerBalances'
  <2> SUFFICES ASSUME NEW x \in EventIds, sales'[x] # NoRow
               PROVE  /\ rows'[x] = made'[x]
                      /\ sales'[x].quantity + RefundedUnits(x)' = made'[x].quantity
                      /\ sales'[x].amount + RefundedCents(x)' = made'[x].amount
    BY DEF LedgerBalances, RefundedUnits, RefundedCents
  <2>1. CASE x = o
    <3>1. rows[o] = made[o]
      BY <1>1 DEF IInv, LedgerBalances, left
    <3> QED BY <1>1, <1>5, <1>8, <1>11, <1>15, <2>1, <3>1
  <2>2. CASE x # o
    <3>1. sales'[x] = sales[x] /\ sales[x] # NoRow
      BY <1>8, <2>2
    <3>2. x # e
      BY <1>11, <3>1 DEF IInv, SaleOK
    <3>3. /\ rows[x] = made[x]
          /\ sales[x].quantity + RefundedUnits(x) = made[x].quantity
          /\ sales[x].amount + RefundedCents(x) = made[x].amount
      BY <3>1 DEF IInv, LedgerBalances, RefundedUnits, RefundedCents
    <3> QED BY <1>1, <1>11, <1>12, <2>2, <3>1, <3>2, <3>3
  <2> QED BY <2>1, <2>2
<1> QED BY <1>1, <1>11, <1>16, <1>17, <1>18 DEF IInv

(* The queue as a function on its positions.                               *)
LEMMA QueueTyped ==
    ASSUME TypeOK
    PROVE  /\ queue \in Seq(EventIds) /\ Len(queue) \in Nat /\ Len(queue) <= QueueSize
           /\ DOMAIN queue = 1 .. Len(queue)
           /\ \A k \in 1 .. Len(queue) : queue[k] \in EventIds
BY DEF TypeOK

(* The ledger of a step that makes, delivers and gives up nothing.         *)
LEMMA LedgerUnmoved ==
    ASSUME IInv, UNCHANGED <<limit, made, sales, delivered, failed, rows, late>>
    PROVE  /\ \A e \in EventIds : MadeOK(e)' /\ ServedOK(e)' /\ SaleOK(e)'
           /\ LedgerBalances'
<1>1. RowsGrow
  BY RowsSame
<1>2. LateOK
  BY DEF LateOK, IInv, TypeOK, ServedOK
<1> QED BY <1>1, <1>2, LedgerKept

(* The event moves from the hand of the traffic loop to the end of the     *)
(* queue.                                                                  *)
LEMMA PutKeeps ==
    ASSUME IInv, limit' = limit, Put
    PROVE  IInv'
<1> DEFINE n == Len(queue)
<1>1. /\ hand \in EventIds /\ n < QueueSize /\ queue' = Append(queue, hand)
      /\ hand' = NoEvent
      /\ UNCHANGED <<limit, made, sales, worker, delivered, failed, lost, rows, late>>
  BY DEF Put, IInv, TypeOK
<1>2. /\ queue \in Seq(EventIds) /\ n \in Nat /\ n <= QueueSize /\ DOMAIN queue = 1 .. n
  BY QueueTyped DEF IInv
<1>3. /\ queue' \in Seq(EventIds) /\ Len(queue') = n + 1 /\ DOMAIN queue' = 1 .. n + 1
      /\ queue'[n + 1] = hand /\ \A k \in 1 .. n : queue'[k] = queue[k]
  BY <1>1, <1>2
<1> HIDE DEF n
<1>4. TypeOK'
  BY <1>1, <1>2, <1>3 DEF IInv, TypeOK
<1>5. ASSUME NEW e \in EventIds \ {hand} PROVE PlacedOnce(e)'
  <2>1. QueuedAt(e)' = QueuedAt(e)
    BY <1>2, <1>3 DEF QueuedAt
  <2>2. Holders(e)' = Holders(e)
    BY <1>1 DEF Holders
  <2> QED BY <1>1, <2>1, <2>2, PlaceKept DEF IInv
<1>6. ASSUME NEW e \in EventIds, e = hand PROVE PlacedOnce(e)'
  <2>1. PlacedOnce(e)
    BY DEF IInv
  <2>2. QueuedAt(e) = {} /\ Holders(e) = {} /\ e \notin delivered \cup failed \cup lost
    BY <1>6, <2>1 DEF PlacedOnce
  <2>3. QueuedAt(e)' = {n + 1}
    BY <1>2, <1>3, <1>6, <2>2 DEF QueuedAt
  <2>4. Holders(e)' = {}
    BY <1>1, <2>2 DEF Holders
  <2>5. hand' # e /\ made'[e] # NoRow /\ e \notin delivered' \cup failed' \cup lost'
    BY <1>1, <1>6, <2>1, <2>2 DEF PlacedOnce
  <2> QED BY <2>3, <2>4, <2>5 DEF PlacedOnce
<1>7. NothingRefused' /\ ReplayIsDuplicate' /\ \A w \in Workers : WorkerOK(w)'
  BY <1>1 DEF IInv, NothingRefused, ReplayIsDuplicate, WorkerOK
<1> QED BY <1>1, <1>4, <1>5, <1>6, <1>7, LedgerUnmoved DEF IInv

-----------------------------------------------------------------------------
(***************************************************************************)
(* A worker takes an event, delivers it or gives it up                     *)
(***************************************************************************)
LEMMA GetKeeps ==
    ASSUME IInv, limit' = limit, NEW w \in Workers, Get(w)
    PROVE  IInv'
<1> DEFINE n == Len(queue)
           h == Head(queue)
           s == Posting(h, FALSE, 1)
<1>1. /\ worker[w].at = "idle" /\ queue # <<>> /\ Become(w, s) /\ queue' = Tail(queue)
      /\ UNCHANGED <<limit, made, sales, hand, delivered, failed, lost, rows, late>>
  BY DEF Get
<1>2. /\ queue \in Seq(EventIds) /\ n \in Nat \ {0} /\ n <= QueueSize /\ DOMAIN queue = 1 .. n
      /\ h = queue[1] /\ h \in EventIds
  <2>1. n # 0
    BY <1>1, QueueTyped DEF IInv
  <2> QED BY <2>1, QueueTyped DEF IInv
<1>3. /\ queue' \in Seq(EventIds) /\ Len(queue') = n - 1 /\ DOMAIN queue' = 1 .. n - 1
      /\ \A k \in 1 .. n - 1 : queue'[k] = queue[k + 1]
  BY <1>1, <1>2
<1> HIDE DEF n, h
<1>4. /\ s \in WorkerStates /\ s.event = h /\ ~ s.replay /\ s.at = "posting"
      /\ s.reply = "none" /\ s.attempt = 1
  BY <1>2 DEF Posting, WorkerStates
<1> HIDE DEF s
<1>5. /\ worker' \in [Workers -> WorkerStates] /\ worker'[w] = s
      /\ \A v \in Workers \ {w} : worker'[v] = worker[v]
  BY <1>1, <1>4, Becomes DEF IInv
<1>6. worker[w].event = NoEvent
  BY <1>1 DEF IInv, WorkerOK
<1>7. WorkerDone(w)'
  <2>1. limit # 0 => 1 <= limit
    BY DEF IInv
  <2>2. s.event # NoEvent
    BY <1>2, <1>4
  <2> QED BY <1>1, <1>4, <1>5, <2>1, <2>2 DEF WorkerDone, WorkerOK, Receipts, Refusals
<1>8. \A v \in Workers : WorkerDone(v)'
  BY <1>1, <1>5, <1>7, OtherWorkers, RowsSame
<1>9. TypeOK'
  <2>1. limit' # 0 => \A v \in Workers : worker'[v].attempt <= limit'
    BY <1>8 DEF WorkerDone
  <2>2. Len(queue') <= QueueSize
    BY <1>2, <1>3
  <2> QED BY <1>1, <1>3, <1>5, <2>1, <2>2 DEF IInv, TypeOK
<1>10. ASSUME NEW e \in EventIds \ {h} PROVE PlacedOnce(e)'
  <2>1. PlacedOnce(e)
    BY DEF IInv
  <2>2. Holders(e)' = Holders(e)
    BY <1>4, <1>5, <1>6 DEF Holders
  <2>3. QueuedAt(e)' # {} <=> QueuedAt(e) # {}
    <3>1. \A k \in QueuedAt(e) : k - 1 \in QueuedAt(e)'
      BY <1>2, <1>3 DEF QueuedAt
    <3>2. \A k \in QueuedAt(e)' : k + 1 \in QueuedAt(e)
      BY <1>2, <1>3 DEF QueuedAt
    <3> QED BY <3>1, <3>2
  <2>4. \A j, k \in QueuedAt(e)' : j = k
    <3>1. \A k \in QueuedAt(e)' : k \in Int /\ k + 1 \in QueuedAt(e)
      BY <1>2, <1>3 DEF QueuedAt
    <3>2. \A j, k \in QueuedAt(e) : j = k
      BY <2>1 DEF PlacedOnce
    <3> QED BY <3>1, <3>2
  <2> QED BY <1>1, <2>1, <2>2, <2>3, <2>4 DEF PlacedOnce
<1>11. ASSUME NEW e \in EventIds, e = h PROVE PlacedOnce(e)'
  <2>1. PlacedOnce(e) /\ 1 \in QueuedAt(e)
    BY <1>2, <1>11 DEF IInv, QueuedAt
  <2>2. QueuedAt(e)' = {}
    <3>1. \A k \in QueuedAt(e)' : k \in 1 .. n - 1 /\ k + 1 \in QueuedAt(e)
      BY <1>2, <1>3 DEF QueuedAt
    <3>2. \A k \in QueuedAt(e) : k = 1
      BY <2>1 DEF PlacedOnce
    <3> QED BY <1>2, <3>1, <3>2
  <2>3. Holders(e) = {}
    BY <2>1 DEF PlacedOnce
  <2>4. Holders(e)' = {w}
    BY <1>4, <1>5, <1>11, <2>3 DEF Holders
  <2>5. hand' # e /\ made'[e] # NoRow /\ e \notin delivered' \cup failed' \cup lost'
    BY <1>1, <2>1 DEF PlacedOnce
  <2> QED BY <2>2, <2>4, <2>5 DEF PlacedOnce
<1>12. NothingRefused' /\ ReplayIsDuplicate' /\ \A v \in Workers : WorkerOK(v)'
  BY <1>8 DEF WorkerDone, NothingRefused, ReplayIsDuplicate
<1> QED BY <1>1, <1>2, <1>9, <1>10, <1>11, <1>12, LedgerUnmoved DEF IInv

(* The worker of an event that is not a replay is the only one that has it *)
(* and lets it go.                                                         *)
LEMMA HolderLeaves ==
    ASSUME IInv, NEW w \in Workers, worker[w].at # "idle", ~ worker[w].replay,
           NEW s \in WorkerStates, Become(w, s), s.replay \/ s = Idle
    PROVE  LET e == worker[w].event IN
           /\ e \in EventIds /\ made[e] # NoRow /\ made[e] \in Bodies
           /\ hand # e /\ QueuedAt(e) = {} /\ e \notin delivered \cup failed \cup lost
           /\ \A x \in EventIds : x = e => Holders(x)' = {}
           /\ \A x \in EventIds \ {e} : Holders(x)' = Holders(x)
<1> DEFINE e == worker[w].event
<1>1. e \in EventIds /\ made[e] # NoRow /\ made[e] \in Bodies
  BY WorksOnMade DEF IInv, TypeOK
<1>2. PlacedOnce(e) /\ w \in Holders(e)
  BY <1>1 DEF IInv, Holders
<1> HIDE DEF e
<1>3. /\ hand # e /\ QueuedAt(e) = {} /\ e \notin delivered \cup failed \cup lost
      /\ \A v \in Holders(e) : v = w
  BY <1>2 DEF PlacedOnce
<1>4. /\ worker'[w] = s /\ \A v \in Workers \ {w} : worker'[v] = worker[v]
  BY Becomes DEF IInv
<1>5. ASSUME NEW x \in EventIds \ {e} PROVE Holders(x)' = Holders(x)
  BY <1>4, <1>5 DEF Holders, Idle, e
<1>6. ASSUME NEW x \in EventIds, x = e PROVE Holders(x)' = {}
  <2>1. s.replay \/ s.event # x
    BY DEF Idle
  <2>2. \A v \in Workers \ {w} : v \notin Holders(e)
    BY <1>3
  <2> QED BY <1>4, <1>6, <2>1, <2>2 DEF Holders
<1> QED BY <1>1, <1>3, <1>5, <1>6 DEF e

(* An event moves from its worker to the delivered or to the failed.       *)
LEMMA HolderPlaces ==
    ASSUME IInv, NEW w \in Workers, worker[w].at # "idle", ~ worker[w].replay,
           NEW s \in WorkerStates, Become(w, s), s.replay \/ s = Idle,
           UNCHANGED <<made, hand, queue, lost>>,
           \/ delivered' = delivered \cup {worker[w].event} /\ failed' = failed
           \/ failed' = failed \cup {worker[w].event} /\ delivered' = delivered
    PROVE  \A x \in EventIds : PlacedOnce(x)'
<1> DEFINE e == worker[w].event
<1> SUFFICES ASSUME NEW x \in EventIds PROVE PlacedOnce(x)'
  OBVIOUS
<1>1. /\ e \in EventIds /\ made[e] # NoRow
      /\ hand # e /\ QueuedAt(e) = {} /\ e \notin delivered \cup failed \cup lost
      /\ x = e => Holders(x)' = {}
      /\ x # e => Holders(x)' = Holders(x)
  BY HolderLeaves
<1>2. QueuedAt(x)' = QueuedAt(x)
  BY DEF QueuedAt
<1>3. CASE x # e
  BY <1>1, <1>2, <1>3, PlaceKept DEF IInv
<1>4. CASE x = e
  <2>1. /\ Holders(x)' = {} /\ QueuedAt(x)' = {} /\ hand' # x /\ made'[x] # NoRow
        /\ \/ x \in delivered' /\ x \notin failed' \cup lost'
           \/ x \in failed' /\ x \notin delivered' \cup lost'
    BY <1>1, <1>2, <1>4
  <2> QED BY <2>1 DEF PlacedOnce
<1> QED BY <1>3, <1>4

(* An event no one has acknowledged has no refunds.                        *)
LEMMA NoRefundsYet ==
    ASSUME IInv, NEW e, e \notin delivered
    PROVE  RefundedUnits(e) = 0 /\ RefundedCents(e) = 0
<1>1. RefundsOf(NotGivenUp, e) = {}
  BY DEF RefundsOf, NotGivenUp, IInv, MadeOK
<1> QED BY <1>1, RefundedNothing DEF RefundedUnits, RefundedCents

(* An acknowledged event is delivered; a sale becomes refundable.          *)
LEMMA DeliverKeeps ==
    ASSUME IInv, limit' = limit, NEW w \in Workers, Deliver(w)
    PROVE  IInv'
<1> DEFINE e == worker[w].event
<1>1. PICK s \in {Idle, Posting(e, TRUE, 1)} : Become(w, s)
  BY DEF Deliver
<1>2. /\ worker[w].at = "posting" /\ ~ worker[w].replay /\ worker[w].reply \in Receipts
      /\ CommitDelivery(e) /\ delivered' = delivered \cup {e}
      /\ UNCHANGED <<limit, made, hand, queue, failed, lost, rows, late>>
  BY DEF Deliver, Answered, IInv, TypeOK, WorkerStates
<1>3. /\ e \in EventIds /\ made[e] # NoRow /\ made[e] \in Bodies
  BY <1>2, WorksOnMade DEF IInv, TypeOK
<1>4. /\ s \in WorkerStates /\ (s.replay \/ s = Idle) /\ s.reply = "none"
      /\ (s.at = "idle" <=> s.event = NoEvent) /\ (s.replay => s.event = e)
      /\ s.at # "backoff" /\ s.attempt \in 0 .. 1
  <2>1. CASE s = Idle
    BY <2>1 DEF Idle, WorkerStates
  <2>2. CASE s = Posting(e, TRUE, 1)
    <3> HIDE DEF e
    <3> QED BY <1>3, <2>2 DEF Posting, WorkerStates
  <2> QED BY <2>1, <2>2
<1>5. \A x \in EventIds : PlacedOnce(x)'
  BY <1>1, <1>2, <1>4, HolderPlaces
<1>6. /\ e \notin delivered
      /\ worker' \in [Workers -> WorkerStates] /\ worker'[w] = s
      /\ \A v \in Workers \ {w} : worker'[v] = worker[v]
  BY <1>1, <1>2, <1>4, HolderLeaves, Becomes DEF IInv
<1>7. rows[e] # NoRow /\ rows[e] = made[e]
  BY <1>2, <1>3 DEF IInv, WorkerOK, ServedOK
<1>8. \A v \in Workers : WorkerDone(v)'
  <2>1. WorkerDone(w)'
    <3>1. limit # 0 => s.attempt <= limit
      BY <1>4 DEF IInv
    <3> HIDE DEF e
    <3> QED BY <1>2, <1>4, <1>6, <3>1 DEF WorkerDone, WorkerOK, Receipts, Refusals
  <2> QED BY <1>2, <1>6, <2>1, OtherWorkers, RowsSame
<1>9. e \in EventIds /\ sales[e] = NoRow
  BY <1>3, <1>6 DEF IInv, SaleOK
<1> DEFINE entry == [quantity |-> made[e].quantity, amount |-> made[e].amount]
<1> HIDE DEF e
<1>10. /\ entry \in Entries /\ entry.quantity = made[e].quantity
       /\ entry.amount = made[e].amount
  BY <1>3 DEF Bodies, Entries
<1> HIDE DEF entry
<1>11. /\ sales' \in [EventIds -> Entries \cup {NoRow}]
       /\ \A x \in EventIds \ {e} : sales'[x] = sales[x]
       /\ sales'[e] # NoRow => made[e].type = "SALE" /\ sales'[e] = entry
  BY <1>2, <1>9, <1>10 DEF CommitDelivery, IInv, TypeOK, entry
<1>12. TypeOK'
  <2>1. limit' # 0 => \A v \in Workers : worker'[v].attempt <= limit'
    BY <1>8 DEF WorkerDone
  <2> QED BY <1>2, <1>3, <1>6, <1>11, <2>1 DEF IInv, TypeOK
<1>13. \A x : /\ RefundedUnits(x)' = RefundedUnits(x) /\ RefundedCents(x)' = RefundedCents(x)
  BY <1>2 DEF RefundedUnits, RefundedCents, RefundedQuantity, RefundedAmount,
              RefundsOf, NotGivenUp
<1>14. ASSUME NEW x \in EventIds PROVE MadeOK(x)' /\ ServedOK(x)'
  <2>1. MadeOK(x) /\ ServedOK(x) /\ (x \in delivered' => x \in delivered \/ x = e)
    BY <1>2 DEF IInv
  <2>2. MadeOK(x)'
    BY <1>2, <1>13, <2>1 DEF MadeOK, RefundedUnits, RefundedCents, SameStoreAndProduct
  <2>3. ServedOK(x)'
    BY <1>2, <1>7, <2>1 DEF ServedOK
  <2> QED BY <2>2, <2>3
<1>15. ASSUME NEW x \in EventIds PROVE SaleOK(x)'
  <2>1. CASE x = e
    BY <1>2, <1>3, <1>10, <1>11, <2>1 DEF SaleOK, IInv, MadeOK
  <2>2. CASE x # e
    BY <1>2, <1>11, <2>2 DEF SaleOK, IInv
  <2> QED BY <2>1, <2>2
<1>16. LedgerBalances'
  <2> SUFFICES ASSUME NEW x \in EventIds, sales'[x] # NoRow
               PROVE  /\ rows[x] = made[x]
                      /\ sales'[x].quantity + RefundedUnits(x) = made[x].quantity
                      /\ sales'[x].amount + RefundedCents(x) = made[x].amount
    BY <1>2, <1>13 DEF LedgerBalances, RefundedUnits, RefundedCents
  <2>1. CASE x = e
    <3>1. RefundedUnits(e) = 0 /\ RefundedCents(e) = 0
      BY <1>6, NoRefundsYet
    <3>2. made[e].quantity \in Nat /\ made[e].amount \in Nat
      BY <1>3 DEF Bodies
    <3> QED BY <1>7, <1>10, <1>11, <2>1, <3>1, <3>2
  <2>2. CASE x # e
    BY <1>11, <2>2 DEF IInv, LedgerBalances, RefundedUnits, RefundedCents
  <2> QED BY <2>1, <2>2
<1>17. NothingRefused' /\ ReplayIsDuplicate' /\ \A v \in Workers : WorkerOK(v)'
  BY <1>8 DEF WorkerDone, NothingRefused, ReplayIsDuplicate
<1> QED BY <1>2, <1>5, <1>12, <1>14, <1>15, <1>16, <1>17 DEF IInv

(* What the refunds add up to, less the one that is given up.              *)
LEMMA AbandonSums ==
    ASSUME IInv, NEW e \in EventIds, made[e] # NoRow, e \notin failed,
           made' = made, failed' = failed \cup {e}, NEW x
    PROVE  IF made[e].type = "REFUND" /\ made[e].original = x
             THEN /\ RefundedUnits(x) = RefundedUnits(x)' + made[e].quantity
                  /\ RefundedCents(x) = RefundedCents(x)' + made[e].amount
             ELSE RefundedUnits(x) = RefundedUnits(x)' /\ RefundedCents(x) = RefundedCents(x)'
<1> DEFINE p == made[e]
<1>1. p \in Bodies
  BY DEF IInv, TypeOK
<1>2. Appends(NotGivenUp, NotGivenUp', e, p)
  BY DEF Appends, NotGivenUp
<1>3. CountedTable(NotGivenUp') /\ Counted(p)
  BY <1>1, TablesCounted DEF IInv, NotGivenUp, CountedTable, Counted, Bodies
<1> HIDE DEF p
<1>4. IF p.type = "REFUND" /\ p.original = x
        THEN /\ RefundedQuantity(NotGivenUp, x) = RefundedQuantity(NotGivenUp', x) + p.quantity
             /\ RefundedAmount(NotGivenUp, x) = RefundedAmount(NotGivenUp', x) + p.amount
        ELSE /\ RefundedQuantity(NotGivenUp, x) = RefundedQuantity(NotGivenUp', x)
             /\ RefundedAmount(NotGivenUp, x) = RefundedAmount(NotGivenUp', x)
  BY ONLY <1>2, <1>3, ConfigAssumption, RefundedAppend
<1>5. /\ RefundedUnits(x)' = RefundedQuantity(NotGivenUp', x)
      /\ RefundedCents(x)' = RefundedAmount(NotGivenUp', x)
  BY DEF RefundedUnits, RefundedCents, RefundedQuantity, RefundedAmount, RefundsOf
<1> QED BY <1>4, <1>5 DEF RefundedUnits, RefundedCents, p

(* An event that is given up returns its reservation.                      *)
LEMMA AbandonKeeps ==
    ASSUME IInv, limit' = limit, NEW w \in Workers, Refused(w) \/ GiveUp(w)
    PROVE  IInv'
<1> DEFINE e == worker[w].event
           p == made[e]
           o == p.original
<1>1. /\ worker[w].at = "posting" /\ ~ worker[w].replay /\ limit # 0
      /\ RollbackDelivery(e) /\ failed' = failed \cup {e} /\ Become(w, Idle)
      /\ UNCHANGED <<limit, made, hand, queue, delivered, lost, rows>>
  BY DEF Refused, GiveUp, Abandon, Answered, NoAnswer, Exhausted, IInv, TypeOK, WorkerStates,
         NothingRefused
<1>2. LateOK
  <2>1. CASE Refused(w)
    BY <2>1 DEF Refused, LateOK, IInv, TypeOK, ServedOK
  <2> QED BY <2>1, NoAnswerLate DEF GiveUp
<1>3. Idle \in WorkerStates
  BY DEF Idle, WorkerStates
<1>4. \A x \in EventIds : PlacedOnce(x)'
  BY <1>1, <1>3, HolderPlaces
<1>5. /\ e \in EventIds /\ p # NoRow /\ p \in Bodies /\ e \notin delivered /\ e \notin failed
      /\ worker' \in [Workers -> WorkerStates] /\ worker'[w] = Idle
      /\ \A v \in Workers \ {w} : worker'[v] = worker[v]
  BY <1>1, <1>3, HolderLeaves, Becomes DEF IInv
<1>6. \A v \in Workers : WorkerDone(v)'
  <2>1. WorkerDone(w)'
    BY <1>1, <1>5 DEF WorkerDone, WorkerOK, Idle, Receipts, Refusals, IInv
  <2> QED BY <1>1, <1>5, <2>1, OtherWorkers, RowsSame
<1>7. p.type = "REFUND" => /\ o \in delivered /\ o \in EventIds /\ o # e
                           /\ made[o].type = "SALE" /\ SameStoreAndProduct(made, p)
                           /\ p.amount = Catalog[made[o].sku] * p.quantity
  BY <1>5 DEF IInv, MadeOK, TypeOK, SameStoreAndProduct
<1>8. /\ p.quantity \in Nat /\ p.amount \in Nat
  BY <1>5 DEF Bodies
<1> HIDE DEF e, p, o
<1>9. \A x : IF p.type = "REFUND" /\ o = x
               THEN /\ RefundedUnits(x) = RefundedUnits(x)' + p.quantity
                    /\ RefundedCents(x) = RefundedCents(x)' + p.amount
               ELSE RefundedUnits(x) = RefundedUnits(x)' /\ RefundedCents(x) = RefundedCents(x)'
  BY <1>1, <1>5, AbandonSums DEF p, o
<1>10. \A x : /\ RefundedUnits(x) \in Nat /\ RefundedCents(x) \in Nat
              /\ RefundedUnits(x)' \in Nat /\ RefundedCents(x)' \in Nat
  <2>1. CountedTable(NotGivenUp')
    BY <1>1, TablesCounted DEF IInv, NotGivenUp, CountedTable, Counted
  <2>2. \A x : RefundedQuantity(NotGivenUp', x) \in Nat /\ RefundedAmount(NotGivenUp', x) \in Nat
    BY ONLY <2>1, ConfigAssumption, RefundedType
  <2> QED BY <2>2, SumsTyped
          DEF RefundedUnits, RefundedCents, RefundedQuantity, RefundedAmount, RefundsOf
<1> DEFINE entry == [quantity |-> sales[o].quantity + p.quantity,
                     amount |-> sales[o].amount + p.amount]
           returned == p.type = "REFUND" /\ sales[o] # NoRow
<1>11. returned => sales[o] \in Entries /\ sales[o].amount = Catalog[made[o].sku] * sales[o].quantity
  BY <1>7 DEF IInv, TypeOK, SaleOK
<1>12. returned => /\ entry \in Entries
                   /\ entry.amount = Catalog[made[o].sku] * entry.quantity
  <2> SUFFICES ASSUME returned
               PROVE  entry \in Entries /\ entry.amount = Catalog[made[o].sku] * entry.quantity
    OBVIOUS
  <2>1. Catalog[made[o].sku] \in Nat
    BY <1>7 DEF IInv, TypeOK, Bodies, ServedOK
  <2>2. \A c, a, b \in Nat : c * a + c * b = c * (a + b)
    OBVIOUS
  <2> QED BY <1>7, <1>8, <1>11, <2>1, <2>2 DEF Entries
<1>13. sales' = IF returned THEN [sales EXCEPT ![o] = entry] ELSE sales
  BY <1>1 DEF RollbackDelivery, p, o
<1>14. /\ sales' \in [EventIds -> Entries \cup {NoRow}]
       /\ \A x \in EventIds : ~ (returned /\ x = o) => sales'[x] = sales[x]
       /\ returned => sales'[o] = entry
  BY <1>7, <1>12, <1>13 DEF IInv, TypeOK
<1>15. /\ entry.quantity = sales[o].quantity + p.quantity
       /\ entry.amount = sales[o].amount + p.amount
  OBVIOUS
<1> HIDE DEF entry
<1>16. TypeOK'
  <2>1. limit' # 0 => \A v \in Workers : worker'[v].attempt <= limit'
    BY <1>6 DEF WorkerDone
  <2> QED BY <1>1, <1>2, <1>5, <1>14, <2>1 DEF IInv, TypeOK, LateOK
<1>17. ASSUME NEW x \in EventIds PROVE MadeOK(x)' /\ ServedOK(x)'
  <2>1. MadeOK(x) /\ ServedOK(x)
    BY DEF IInv
  <2>2. RefundedUnits(x)' <= RefundedUnits(x) /\ RefundedCents(x)' <= RefundedCents(x)
    BY <1>8, <1>9, <1>10
  <2>3. made[x] # NoRow => made[x].quantity \in Nat /\ made[x].amount \in Nat
    BY DEF IInv, TypeOK, Bodies
  <2>4. made[x] # NoRow /\ made[x].type = "SALE" =>
           RefundedUnits(x)' <= made[x].quantity /\ RefundedCents(x)' <= made[x].amount
    BY <1>10, <2>1, <2>2, <2>3 DEF MadeOK, RefundedUnits, RefundedCents
  <2>5. MadeOK(x)'
    BY <1>1, <2>1, <2>4 DEF MadeOK, RefundedUnits, RefundedCents, SameStoreAndProduct
  <2> QED BY <1>1, <1>2, <2>1, <2>5 DEF ServedOK, LateOK
<1>18. ASSUME NEW x \in EventIds PROVE SaleOK(x)'
  <2>1. CASE returned /\ x = o
    BY <1>1, <1>7, <1>12, <1>14, <2>1 DEF SaleOK
  <2>2. CASE ~ (returned /\ x = o)
    BY <1>1, <1>14, <2>2 DEF SaleOK, IInv
  <2> QED BY <2>1, <2>2
<1>19. LedgerBalances'
  <2> SUFFICES ASSUME NEW x \in EventIds, sales'[x] # NoRow
               PROVE  /\ rows[x] = made[x]
                      /\ sales'[x].quantity + RefundedUnits(x)' = made[x].quantity
                      /\ sales'[x].amount + RefundedCents(x)' = made[x].amount
    BY <1>1 DEF LedgerBalances, RefundedUnits, RefundedCents
  <2>1. sales[x] # NoRow
    BY <1>14
  <2>2. /\ rows[x] = made[x]
        /\ sales[x].quantity + RefundedUnits(x) = made[x].quantity
        /\ sales[x].amount + RefundedCents(x) = made[x].amount
        /\ sales[x].quantity \in Nat /\ sales[x].amount \in Nat
    BY <2>1 DEF IInv, LedgerBalances, RefundedUnits, RefundedCents, TypeOK, Entries
  <2>3. CASE returned /\ x = o
    BY <1>8, <1>9, <1>10, <1>14, <1>15, <2>2, <2>3
  <2>4. CASE ~ (returned /\ x = o)
    BY <1>9, <1>14, <2>1, <2>2, <2>4
  <2> QED BY <2>3, <2>4
<1>20. NothingRefused' /\ ReplayIsDuplicate' /\ \A v \in Workers : WorkerOK(v)'
  BY <1>6 DEF WorkerDone, NothingRefused, ReplayIsDuplicate
<1> QED BY <1>1, <1>4, <1>16, <1>17, <1>18, <1>19, <1>20 DEF IInv

(* A restart loses the events in memory and the local ledger, no more.     *)
LEMMA RestartKeeps ==
    ASSUME IInv, limit' = limit, Restart
    PROVE  IInv'
<1>1. /\ sales' = [e \in EventIds |-> NoRow] /\ hand' = NoEvent /\ queue' = <<>>
      /\ worker' = [w \in Workers |-> Idle]
      /\ lost' = {e \in EventIds : made[e] # NoRow /\ e \notin delivered \cup failed}
      /\ UNCHANGED <<limit, made, delivered, failed, rows>>
  BY DEF Restart
<1>2. LateOK
  <2>1. \A w \in Workers : worker[w].at = "posting" =>
           worker[w].event \in EventIds /\ made[worker[w].event] # NoRow
    BY WorksOnMade
  <2>2. late \subseteq EventIds /\ \A e \in late : made[e] # NoRow
    BY DEF IInv, TypeOK, ServedOK
  <2> QED BY <2>1, <2>2 DEF Restart, LateOK
<1>3. TypeOK'
  <2>1. worker' \in [Workers -> WorkerStates] /\ \A w \in Workers : worker'[w].attempt = 0
    BY <1>1 DEF Idle, WorkerStates
  <2>2. queue' \in Seq(EventIds) /\ Len(queue') <= QueueSize
    BY <1>1
  <2>3. limit' # 0 => \A w \in Workers : worker'[w].attempt <= limit'
    BY <1>1, <2>1 DEF IInv
  <2> QED BY <1>1, <1>2, <2>1, <2>2, <2>3 DEF IInv, TypeOK, LateOK
<1>4. ASSUME NEW e \in EventIds PROVE PlacedOnce(e)'
  <2>1. QueuedAt(e)' = {} /\ Holders(e)' = {}
    BY <1>1 DEF QueuedAt, Holders, Idle
  <2>2. PlacedOnce(e)
    BY DEF IInv
  <2> QED BY <1>1, <2>1, <2>2 DEF PlacedOnce
<1>5. NotGivenUp' = NotGivenUp
  BY <1>1 DEF NotGivenUp
<1>6. ASSUME NEW x \in EventIds PROVE MadeOK(x)' /\ ServedOK(x)' /\ SaleOK(x)'
  <2>1. MadeOK(x) /\ ServedOK(x)
    BY DEF IInv
  <2>2. /\ RefundedUnits(x)' = RefundedUnits(x) /\ RefundedCents(x)' = RefundedCents(x)
    BY <1>5 DEF RefundedUnits, RefundedCents, RefundedQuantity, RefundedAmount, RefundsOf
  <2>3. MadeOK(x)'
    BY <1>1, <2>1, <2>2 DEF MadeOK, RefundedUnits, RefundedCents, SameStoreAndProduct
  <2> QED BY <1>1, <1>2, <2>1, <2>3 DEF ServedOK, SaleOK, LateOK
<1>7. LedgerBalances' /\ NothingRefused' /\ ReplayIsDuplicate'
  BY <1>1 DEF LedgerBalances, NothingRefused, ReplayIsDuplicate, Idle, Refusals
<1>8. \A w \in Workers : WorkerOK(w)'
  BY <1>1 DEF WorkerOK, Idle, Receipts
<1> QED BY <1>1, <1>3, <1>4, <1>6, <1>7, <1>8 DEF IInv

-----------------------------------------------------------------------------
(* At first nothing is made.                                               *)
LEMMA InitHolds == Init => IInv
<1> SUFFICES ASSUME Init PROVE IInv
  OBVIOUS
<1>1. TypeOK
  <2>1. worker \in [Workers -> WorkerStates] /\ \A w \in Workers : worker[w].attempt = 0
    BY DEF Init, Idle, WorkerStates
  <2>2. queue \in Seq(EventIds) /\ Len(queue) <= QueueSize
    BY DEF Init
  <2>3. limit # 0 => \A w \in Workers : worker[w].attempt <= limit
    BY <2>1 DEF Init
  <2> QED BY <2>1, <2>2, <2>3 DEF Init, TypeOK
<1>2. ASSUME NEW e \in EventIds PROVE PlacedOnce(e) /\ MadeOK(e) /\ ServedOK(e) /\ SaleOK(e)
  <2>1. QueuedAt(e) = {} /\ Holders(e) = {}
    BY DEF Init, QueuedAt, Holders, Idle
  <2> QED BY <2>1 DEF Init, PlacedOnce, MadeOK, ServedOK, SaleOK
<1>3. \A w \in Workers : WorkerOK(w)
  BY DEF Init, WorkerOK, Idle, Receipts
<1>4. LedgerBalances /\ NothingRefused /\ ReplayIsDuplicate
  BY DEF Init, LedgerBalances, NothingRefused, ReplayIsDuplicate, Idle, Refusals
<1> QED BY <1>1, <1>2, <1>3, <1>4 DEF Init, IInv

(* Every step keeps the invariant of the simulator.                        *)
LEMMA NextHolds == IInv /\ [Next /\ UNCHANGED limit]_vars => IInv'
<1> SUFFICES ASSUME IInv, [Next /\ UNCHANGED limit]_vars PROVE IInv'
  OBVIOUS
<1>1. CASE UNCHANGED vars
  <2>1. RowsGrow /\ LateOK
    BY <1>1, RowsSame DEF vars, state, LateOK, IInv, TypeOK, ServedOK
  <2> QED BY <1>1, <2>1, LocalKept DEF vars, state
<1>2. SUFFICES ASSUME Next, limit' = limit PROVE IInv'
  BY <1>1
<1>3. CASE Traffic
  <2>1. PICK e \in EventIds, n \in 1 .. MaxQuantity :
            \/ \E sku \in DOMAIN Catalog : MakeSale(e, sku, n)
            \/ \E o \in EventIds : MakeRefund(e, o, n)
    BY <1>3 DEF Traffic
  <2> QED BY <1>2, <2>1, MakeSaleKeeps, MakeRefundKeeps
<1>4. ASSUME NEW w \in Workers,
             \/ Get(w) \/ Serve(w) \/ Settle(w)
             \/ BackOff(w) \/ Raise(w) \/ Resend(w) \/ GiveUp(w) \/ GiveUpReplay(w)
      PROVE  IInv'
  BY <1>2, <1>4, GetKeeps, ServeKeeps, DeliverKeeps, AbandonKeeps, EndReplayKeeps, BackOffKeeps,
     ResendKeeps DEF Settle
<1>5. ASSUME NEW e \in EventIds, ServeLate(e) \/ LateEnds(e) PROVE IInv'
  BY <1>2, <1>5, LateKeeps
<1> QED BY <1>2, <1>3, <1>4, <1>5, PutKeeps, RestartKeeps DEF Next

(* What the bookkeeping of the simulator rests on holds at any time.       *)
THEOREM ProducerInvariant == Spec => []IInv
BY InitHolds, NextHolds, PTL DEF Spec

(* Every variable keeps its type, the queue and the attempts their bounds. *)
THEOREM ProducerTypes == Spec => []TypeOK
<1>1. IInv => TypeOK
  BY DEF IInv
<1> QED BY ProducerInvariant, <1>1, PTL

(* What is left of a sale is the sale less the refunds not given up.       *)
THEOREM LocalLedgerBalances == Spec => []LedgerBalances
<1>1. IInv => LedgerBalances
  BY DEF IInv
<1> QED BY ProducerInvariant, <1>1, PTL

(* With unlimited retries the backend never refuses an event of this       *)
(* simulator.                                                              *)
THEOREM UnlimitedRetriesSucceed == Spec => []NothingRefused
<1>1. IInv => NothingRefused
  BY DEF IInv
<1> QED BY ProducerInvariant, <1>1, PTL

(* A deliberate duplicate is never recorded as a new event.                *)
THEOREM ReplaysAreDuplicates == Spec => []ReplayIsDuplicate
<1>1. IInv => ReplayIsDuplicate
  BY DEF IInv
<1> QED BY ProducerInvariant, <1>1, PTL

(* PlacedOnce counts to one.                                               *)
LEMMA OnePlaceOnly ==
    ASSUME IInv
    PROVE  EachEventOnce
<1> SUFFICES ASSUME NEW e \in EventIds
             PROVE  Places(e) = IF made[e] = NoRow THEN 0 ELSE 1
  BY DEF EachEventOnce
<1>1. PlacedOnce(e)
  BY DEF IInv
<1>2. FatesOf(e) = (IF hand = e THEN {"hand"} ELSE {})
                     \cup (IF e \in delivered THEN {"delivered"} ELSE {})
                     \cup (IF e \in failed THEN {"failed"} ELSE {})
                     \cup (IF e \in lost THEN {"lost"} ELSE {})
  BY DEF FatesOf, Fates
<1>3. ASSUME NEW S, \A x, y \in S : x = y
      PROVE  Cardinality(S) = IF S = {} THEN 0 ELSE 1
  <2>1. CASE S = {}
    BY <2>1, FS_EmptySet
  <2>2. CASE S # {}
    <3>1. PICK x : x \in S
      BY <2>2
    <3>2. S = {x}
      BY <1>3, <3>1
    <3> QED BY <2>2, <3>2, FS_Singleton
  <2> QED BY <2>1, <2>2
<1>4. /\ \A j, k \in QueuedAt(e) : j = k
      /\ \A v, w \in Holders(e) : v = w
      /\ \A f, g \in FatesOf(e) : f = g
  BY <1>1, <1>2 DEF PlacedOnce
<1>5. /\ Cardinality(QueuedAt(e)) = IF QueuedAt(e) = {} THEN 0 ELSE 1
      /\ Cardinality(Holders(e)) = IF Holders(e) = {} THEN 0 ELSE 1
      /\ Cardinality(FatesOf(e)) = IF FatesOf(e) = {} THEN 0 ELSE 1
  BY <1>3, <1>4
<1>6. FatesOf(e) = {} <=> hand # e /\ e \notin delivered \cup failed \cup lost
  BY <1>2
<1> QED BY <1>1, <1>5, <1>6 DEF Places, PlacedOnce

(* No event is dropped, and none is handled twice, by any number of        *)
(* workers.                                                                *)
THEOREM NoEventLostOrDoubled == Spec => []EachEventOnce
BY ProducerInvariant, OnePlaceOnly, PTL
=============================================================================
