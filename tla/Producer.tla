------------------------------ MODULE Producer ------------------------------
(***************************************************************************)
(* One POS simulator process: simulator/domain.py, runtime.py and          *)
(* transport.py.  The traffic loop makes events and puts them in a bounded *)
(* queue, workers post them until they get an answer.  A request takes     *)
(* effect in one step, as EventLedger says it does; a client may stop      *)
(* waiting before or after it.                                             *)
(***************************************************************************)
EXTENDS RefundRules, Sequences

CONSTANTS
    Workers,      \* delivery workers
    Catalog,      \* unit price of each SKU of PRODUCT_CATALOG
    StoreCode,    \* the store the simulator stands for
    MaxQuantity,  \* largest quantity of a sale
    QueueSize,    \* bound of the queue, at least 1
    Limits,       \* values of MAX_RETRY_ATTEMPTS, 0 for no limit
    Doublings,    \* attempts after which 2 ** (attempt - 1) is too large for
                  \* a float (1024), 0 if outages end before
    NoEvent

ASSUME ConfigAssumption ==
    /\ IsFiniteSet(EventIds) /\ IsFiniteSet(Workers)
    /\ NoEvent \notin EventIds
    /\ \A sku \in DOMAIN Catalog : Catalog[sku] \in Nat \ {0}
    /\ MaxQuantity \in Nat \ {0} /\ QueueSize \in Nat \ {0}
    /\ Limits \subseteq Nat /\ Doublings \in Nat

-----------------------------------------------------------------------------
VARIABLES
    limit,      \* the process's MAX_RETRY_ATTEMPTS
    made,       \* the events made so far, by id (a fresh uuid4)
    sales,      \* TrafficGenerator.sales: what is left to refund of a sale
    hand,       \* the event the traffic loop is putting in the queue
    queue,
    worker,     \* what each worker does, its request included
    rows,       \* pos_events of the backend
    late,       \* events whose request nobody waits for may still be served
    delivered,  \* events acknowledged to this process or an earlier one
    failed,     \* events given up, counted in permanent_failures
    lost        \* events of earlier processes, neither delivered nor failed

local == <<made, sales, hand, queue, worker, delivered, failed, lost>>
state == <<local, rows, late>>
vars == <<limit, state>>

Receipts == {"accepted", "duplicate"}
Refusals == {"original not found", "original not a sale",
             "reference mismatch", "limit exceeded"}

Idle == [at |-> "idle", event |-> NoEvent, replay |-> FALSE, attempt |-> 0, reply |-> "none"]
Posting(e, replay, n) ==
    [at |-> "posting", event |-> e, replay |-> replay, attempt |-> n, reply |-> "none"]

Init ==
    /\ limit \in Limits
    /\ made = [e \in EventIds |-> NoRow]
    /\ sales = [e \in EventIds |-> NoRow]
    /\ hand = NoEvent
    /\ queue = <<>>
    /\ worker = [w \in Workers |-> Idle]
    /\ rows = [e \in EventIds |-> NoRow]
    /\ late = {}
    /\ delivered = {} /\ failed = {} /\ lost = {}

(***************************************************************************)
(* The traffic loop                                                        *)
(***************************************************************************)
Event(type, sku, n, original) ==
    [type |-> type, store |-> StoreCode, sku |-> sku, quantity |-> n,
     amount |-> Catalog[sku] * n, original |-> original]

Generate(e, event) ==
    /\ hand = NoEvent /\ made[e] = NoRow
    /\ made' = [made EXCEPT ![e] = event]
    /\ hand' = e

MakeSale(e, sku, n) ==
    /\ Generate(e, Event("SALE", sku, n, NoEvent))
    /\ UNCHANGED <<sales, queue, worker, delivered, failed, lost, rows, late>>

Refundable(o) ==
    /\ sales[o] # NoRow
    /\ sales[o].quantity > 0
    /\ sales[o].amount >= Catalog[made[o].sku]

\* Fault: nothing is reserved.
ReserveNothing(o, event) == UNCHANGED sales

(* The refund's share of the sale is reserved before it is queued.         *)
Reserve(o, event) ==
    sales' = [sales EXCEPT ![o] = [quantity |-> @.quantity - event.quantity,
                                   amount |-> @.amount - event.amount]]

MakeRefund(e, o, n) ==
    LET refund == Event("REFUND", made[o].sku, n, o) IN
    /\ Refundable(o) /\ n <= sales[o].quantity
    /\ Generate(e, refund)
    /\ Reserve(o, refund)
    /\ UNCHANGED <<queue, worker, delivered, failed, lost, rows, late>>

\* Fault: the queue has no bound.
PutAnyway ==
    /\ hand # NoEvent
    /\ queue' = Append(queue, hand)
    /\ hand' = NoEvent
    /\ UNCHANGED <<made, sales, worker, delivered, failed, lost, rows, late>>

(* await queue.put(event)                                                  *)
Put ==
    /\ hand # NoEvent /\ Len(queue) < QueueSize
    /\ queue' = Append(queue, hand)
    /\ hand' = NoEvent
    /\ UNCHANGED <<made, sales, worker, delivered, failed, lost, rows, late>>

(***************************************************************************)
(* A worker                                                                *)
(***************************************************************************)
Become(w, status) == worker' = [worker EXCEPT ![w] = status]

\* Fault: two workers read the same event.
Peek(w) ==
    /\ worker[w].at = "idle" /\ queue # <<>>
    /\ Become(w, Posting(Head(queue), FALSE, 1))
    /\ UNCHANGED <<made, sales, hand, queue, delivered, failed, lost, rows, late>>

Get(w) ==
    /\ worker[w].at = "idle" /\ queue # <<>>
    /\ Become(w, Posting(Head(queue), FALSE, 1))
    /\ queue' = Tail(queue)
    /\ UNCHANGED <<made, sales, hand, delivered, failed, lost, rows, late>>

\* Fault: the answer is not looked at.
AnsweredAnyway(w, replay, replies) == worker[w].at = "posting" /\ worker[w].replay = replay

Answered(w, replay, replies) ==
    worker[w].at = "posting" /\ worker[w].replay = replay /\ worker[w].reply \in replies

(* commit_delivery: a sale may be refunded from now on.                    *)
CommitDelivery(e) ==
    sales' = IF made[e].type = "SALE" /\ sales[e] = NoRow
             THEN [sales EXCEPT ![e] = [quantity |-> made[e].quantity,
                                        amount |-> made[e].amount]]
             ELSE sales

(* A delivered event is sometimes posted again at once, by the same worker *)
(* and past the queue.                                                     *)
Deliver(w) ==
    LET e == worker[w].event IN
    /\ Answered(w, FALSE, Receipts)
    /\ CommitDelivery(e)
    /\ delivered' = delivered \cup {e}
    /\ \/ Become(w, Idle)
       \/ Become(w, Posting(e, TRUE, 1))
    /\ UNCHANGED <<made, hand, queue, failed, lost, rows, late>>

\* Fault: only the quantity is given back.
RollbackQuantity(e) ==
    LET o == made[e].original IN
    sales' = IF made[e].type = "REFUND" /\ sales[o] # NoRow
             THEN [sales EXCEPT ![o].quantity = @ + made[e].quantity]
             ELSE sales

(* rollback_delivery: a refund gives its share back.                       *)
RollbackDelivery(e) ==
    LET o == made[e].original IN
    sales' = IF made[e].type = "REFUND" /\ sales[o] # NoRow
             THEN [sales EXCEPT ![o] = [quantity |-> @.quantity + made[e].quantity,
                                        amount |-> @.amount + made[e].amount]]
             ELSE sales

Abandon(w) ==
    /\ RollbackDelivery(worker[w].event)
    /\ failed' = failed \cup {worker[w].event}
    /\ Become(w, Idle)
    /\ UNCHANGED <<made, hand, queue, delivered, lost, rows>>

(* PermanentDeliveryError                                                  *)
Refused(w) ==
    /\ Answered(w, FALSE, Refusals)
    /\ Abandon(w)
    /\ UNCHANGED late

EndReplay(w) ==
    /\ Answered(w, TRUE, Receipts \cup Refusals)
    /\ Become(w, Idle)
    /\ UNCHANGED <<made, sales, hand, queue, delivered, failed, lost, rows, late>>

(* A transport error, a timeout or a retryable status: the request may     *)
(* have been served, may still be, or never will.                          *)
NoAnswer(w) ==
    /\ worker[w].at = "posting"
    /\ late' = IF worker[w].reply = "none" THEN late \cup {worker[w].event} ELSE late

Exhausted(w) == limit # 0 /\ worker[w].attempt >= limit
Overflows(w) == Doublings # 0 /\ worker[w].attempt > Doublings

BackOff(w) ==
    /\ NoAnswer(w) /\ ~ Exhausted(w) /\ ~ Overflows(w)
    /\ Become(w, [worker[w] EXCEPT !.at = "backoff", !.reply = "none"])
    /\ UNCHANGED <<made, sales, hand, queue, delivered, failed, lost, rows>>

(* _retry_delay raises OverflowError, which the worker does not catch: the *)
(* TaskGroup cancels the other tasks and the process ends.                 *)
Raise(w) ==
    /\ NoAnswer(w) /\ ~ Exhausted(w) /\ Overflows(w)
    /\ Become(w, [worker[w] EXCEPT !.at = "dead", !.reply = "none"])
    /\ UNCHANGED <<made, sales, hand, queue, delivered, failed, lost, rows>>

\* Fault: what is sent again has to find room in the queue.
ResendWhenRoom(w) ==
    /\ worker[w].at = "backoff" /\ Len(queue) < QueueSize
    /\ Become(w, Posting(worker[w].event, worker[w].replay, 1))
    /\ UNCHANGED <<made, sales, hand, queue, delivered, failed, lost, rows, late>>

(* Attempts are counted only where the count matters.                      *)
Resend(w) ==
    LET n == IF limit = 0 /\ Doublings = 0 THEN 1 ELSE worker[w].attempt + 1 IN
    /\ worker[w].at = "backoff"
    /\ Become(w, Posting(worker[w].event, worker[w].replay, n))
    /\ UNCHANGED <<made, sales, hand, queue, delivered, failed, lost, rows, late>>

(* RetryExhaustedError                                                     *)
GiveUp(w) ==
    /\ NoAnswer(w) /\ Exhausted(w) /\ ~ worker[w].replay
    /\ Abandon(w)

GiveUpReplay(w) ==
    /\ NoAnswer(w) /\ Exhausted(w) /\ worker[w].replay
    /\ Become(w, Idle)
    /\ UNCHANGED <<made, sales, hand, queue, delivered, failed, lost, rows>>

(***************************************************************************)
(* The backend                                                             *)
(***************************************************************************)
Verdict(e) ==
    LET p == made[e] IN
    CASE rows[e] # NoRow -> "duplicate"
      [] rows[e] = NoRow /\ p.type = "SALE" -> "accepted"
      [] rows[e] = NoRow /\ p.type = "REFUND" ->
            CASE rows[p.original] = NoRow -> "original not found"
              [] rows[p.original] # NoRow /\ rows[p.original].type # "SALE" ->
                    "original not a sale"
              [] rows[p.original] # NoRow /\ rows[p.original].type = "SALE"
                    /\ ~ SameStoreAndProduct(rows, p) -> "reference mismatch"
              [] OTHER -> IF WithinLimits(rows, p) THEN "accepted" ELSE "limit exceeded"

Store(e) ==
    rows' = IF Verdict(e) = "accepted" THEN [rows EXCEPT ![e] = made[e]] ELSE rows

Serve(w) ==
    LET e == worker[w].event IN
    /\ worker[w].at = "posting" /\ worker[w].reply = "none"
    /\ Store(e)
    /\ Become(w, [worker[w] EXCEPT !.reply = Verdict(e)])
    /\ UNCHANGED <<made, sales, hand, queue, delivered, failed, lost, late>>

(* Several requests of one event may be late: one is served, others remain. *)
ServeLate(e) ==
    /\ e \in late
    /\ Store(e)
    /\ UNCHANGED <<local, late>>

LateEnds(e) ==
    /\ e \in late
    /\ late' = late \ {e}
    /\ UNCHANGED <<local, rows>>

(* The process dies and is started again: its ledger and queue are gone.   *)
Restart ==
    /\ sales' = [e \in EventIds |-> NoRow]
    /\ hand' = NoEvent
    /\ queue' = <<>>
    /\ worker' = [w \in Workers |-> Idle]
    /\ late' = late \cup {worker[w].event : w \in
                             {v \in Workers : /\ worker[v].at = "posting"
                                              /\ worker[v].reply = "none"}}
    /\ lost' = {e \in EventIds : made[e] # NoRow /\ e \notin delivered \cup failed}
    /\ UNCHANGED <<made, delivered, failed, rows>>

Traffic ==
    \E e \in EventIds, n \in 1 .. MaxQuantity :
        \/ \E sku \in DOMAIN Catalog : MakeSale(e, sku, n)
        \/ \E o \in EventIds : MakeRefund(e, o, n)

Settle(w) == Deliver(w) \/ Refused(w) \/ EndReplay(w)

Next ==
    \/ Traffic
    \/ Put
    \/ \E w \in Workers :
           \/ Get(w) \/ Serve(w) \/ Settle(w)
           \/ BackOff(w) \/ Raise(w) \/ Resend(w) \/ GiveUp(w) \/ GiveUpReplay(w)
    \/ \E e \in EventIds : ServeLate(e) \/ LateEnds(e)
    \/ Restart

Spec == Init /\ [][Next /\ UNCHANGED limit]_vars

(***************************************************************************)
(* The event loop runs what is ready.  Outages end: of requests sent again *)
(* one is served, and of its answers one arrives.  A process that has      *)
(* ended is started again (restart: unless-stopped).                       *)
(***************************************************************************)
Fairness ==
    /\ WF_state(Put)
    /\ \A w \in Workers : /\ WF_state(Get(w)) /\ WF_state(Resend(w))
                          /\ SF_state(Serve(w)) /\ SF_state(Settle(w))
    /\ WF_state((\E w \in Workers : worker[w].at = "dead") /\ Restart)
FairSpec == Spec /\ Fairness

-----------------------------------------------------------------------------
(***************************************************************************)
(* Properties                                                              *)
(***************************************************************************)
Bodies == [type : {"SALE", "REFUND"}, store : {StoreCode}, sku : DOMAIN Catalog,
           quantity : Nat \ {0}, amount : Nat \ {0}, original : EventIds \cup {NoEvent}]
Entries == [quantity : Nat, amount : Nat]
ASSUME NoRowAssumption == NoRow \notin Bodies /\ NoRow \notin Entries

WorkerStates == [at : {"idle", "posting", "backoff", "dead"},
                 event : EventIds \cup {NoEvent}, replay : BOOLEAN, attempt : Nat,
                 reply : {"none"} \cup Receipts \cup Refusals]

(* Every variable has its type, what is left of a sale is never negative,  *)
(* the queue is within its bound and the attempts are within theirs.       *)
TypeOK ==
    /\ made \in [EventIds -> Bodies \cup {NoRow}]
    /\ sales \in [EventIds -> Entries \cup {NoRow}]
    /\ hand \in EventIds \cup {NoEvent}
    /\ queue \in Seq(EventIds) /\ Len(queue) <= QueueSize
    /\ worker \in [Workers -> WorkerStates]
    /\ limit # 0 => \A w \in Workers : worker[w].attempt <= limit
    /\ rows \in [EventIds -> Bodies \cup {NoRow}]
    /\ late \subseteq EventIds
    /\ delivered \subseteq EventIds /\ failed \subseteq EventIds /\ lost \subseteq EventIds

(* The local ledger is right whatever fails: what is left of a sale is the *)
(* sale less the refunds made of it and not given up, in units and cents.  *)
NotGivenUp == [e \in EventIds |-> IF e \in failed THEN NoRow ELSE made[e]]
LedgerBalances ==
    \A o \in EventIds : sales[o] # NoRow =>
        /\ rows[o] = made[o]
        /\ sales[o].quantity + RefundedQuantity(NotGivenUp, o) = made[o].quantity
        /\ sales[o].amount + RefundedAmount(NotGivenUp, o) = made[o].amount

(* With unlimited retries the backend refuses nothing this simulator makes: *)
(* a refund never meets a missing original or an exceeded limit, whatever   *)
(* requests are lost, late or sent again.                                   *)
NothingRefused == limit = 0 => \A w \in Workers : worker[w].reply \notin Refusals

(* "The default MAX_RETRY_ATTEMPTS=0 means retry without a producer-side    *)
(* attempt limit" (docs/SIMULATOR.md): no outage ends a worker.             *)
RetriesWithoutLimit == limit = 0 => \A w \in Workers : worker[w].at # "dead"

(* "This prevents this simulator from producing two refunds that overbook  *)
(* one sale" (simulator/domain.py:127).                                    *)
NeverOverbooks == \A w \in Workers : worker[w].reply # "limit exceeded"

(* No event is dropped or handled twice: it is in the hand of the traffic  *)
(* loop, in the queue, with a worker, or done, and in one of these only.   *)
Fates == [hand |-> {hand}, delivered |-> delivered, failed |-> failed, lost |-> lost]
QueuedAt(e) == {k \in DOMAIN queue : queue[k] = e}
Holders(e) == {w \in Workers : worker[w].event = e /\ ~ worker[w].replay}
FatesOf(e) == {f \in DOMAIN Fates : e \in Fates[f]}
Places(e) ==
    Cardinality(QueuedAt(e)) + Cardinality(Holders(e)) + Cardinality(FatesOf(e))
EachEventOnce ==
    \A e \in EventIds : Places(e) = IF made[e] = NoRow THEN 0 ELSE 1

(* A deliberate duplicate is never accepted as a new event (the warning    *)
(* "duplicate replay unexpectedly accepted").                              *)
ReplayIsDuplicate ==
    \A w \in Workers : worker[w].replay => worker[w].reply \in {"none", "duplicate"}

(* Every event that is made is settled: the bounded queue, the retries and *)
(* the replays never block the traffic loop and the workers for good.      *)
EveryEventSettled ==
    \A e \in EventIds : made[e] # NoRow ~> e \in delivered \cup failed \cup lost

(***************************************************************************)
(* The inductive invariant: an event is in one place, was made within what *)
(* the local ledger had left of its sale, and is recorded as it was made.  *)
(***************************************************************************)
PlacedOnce(e) ==
    LET queued == QueuedAt(e) # {}
        held == Holders(e) # {}
    IN /\ made[e] # NoRow <=> \/ hand = e \/ queued \/ held
                              \/ e \in delivered \/ e \in failed \/ e \in lost
       /\ hand = e => ~ queued /\ ~ held /\ e \notin delivered \cup failed \cup lost
       /\ queued => ~ held /\ e \notin delivered \cup failed \cup lost
       /\ held => e \notin delivered \cup failed \cup lost
       /\ e \in delivered => e \notin failed \cup lost
       /\ e \in failed => e \notin lost
       /\ \A j, k \in QueuedAt(e) : j = k
       /\ \A v, w \in Holders(e) : v = w

(* The original of a refund is a sale that was acknowledged.               *)
MadeOK(e) ==
    made[e] # NoRow =>
        /\ made[e].amount = Catalog[made[e].sku] * made[e].quantity
        /\ made[e].type = "REFUND" =>
              /\ made[e].original \in delivered
              /\ made[made[e].original].type = "SALE"
              /\ SameStoreAndProduct(made, made[e])
        /\ made[e].type = "SALE" =>
              /\ RefundedQuantity(NotGivenUp, e) <= made[e].quantity
              /\ RefundedAmount(NotGivenUp, e) <= made[e].amount

ServedOK(e) ==
    /\ rows[e] # NoRow => rows[e] = made[e]
    /\ e \in delivered => rows[e] # NoRow
    /\ e \in late => made[e] # NoRow

SaleOK(o) ==
    sales[o] # NoRow =>
        /\ o \in delivered /\ made[o].type = "SALE"
        /\ sales[o].amount = Catalog[made[o].sku] * sales[o].quantity

WorkerOK(w) ==
    LET status == worker[w] IN
    /\ status.at = "idle" <=> status.event = NoEvent
    /\ status.replay => status.event \in delivered
    /\ status.reply # "none" => status.at = "posting"
    /\ status.reply \in Receipts => rows[status.event] # NoRow
    /\ limit # 0 /\ status.at = "backoff" => status.attempt < limit

IInv ==
    /\ TypeOK /\ limit \in Limits
    /\ \A e \in EventIds : PlacedOnce(e) /\ MadeOK(e) /\ ServedOK(e) /\ SaleOK(e)
    /\ \A w \in Workers : WorkerOK(w)
    /\ limit = 0 => failed = {}
    /\ LedgerBalances /\ NothingRefused /\ ReplayIsDuplicate
=============================================================================
