---------------------------- MODULE EventLedger ----------------------------
(***************************************************************************)
(* What POST /api/v1/events promises, docs and detail of the database      *)
(* aside: a ledger to which every accepted event is appended in one atomic *)
(* step that respects the rules for refunds, exactly once, and in which    *)
(* nothing ever changes.  Every verdict is right of the ledger at a single *)
(* moment between the arrival of the request and its answer, and a request *)
(* for an event already in the ledger is never refused.                    *)
(***************************************************************************)
EXTENDS RefundRules

CONSTANTS Tasks, Stores, Products, Payloads, NoPayload

VARIABLES
    phase,      \* "idle", "open", "decided", or "lost": decided but not over
    request,    \* the event a task was asked to record
    verdict,    \* what it answers
    ledger

ledgerVars == <<phase, request, verdict, ledger>>

LedgerInit ==
    /\ phase = [t \in Tasks |-> "idle"]
    /\ request = [t \in Tasks |-> NoPayload]
    /\ verdict = [t \in Tasks |-> "none"]
    /\ ledger = [e \in EventIds |-> NoRow]

IsSale(e) == ledger[e] # NoRow /\ ledger[e].type = "SALE"

Admissible(p) ==
    /\ p.store \in Stores /\ p.sku \in Products
    /\ ledger[p.id] = NoRow
    /\ p.type = "REFUND" => /\ IsSale(p.original)
                            /\ SameStoreAndProduct(ledger, p)
                            /\ WithinLimits(ledger, p)

(* The refusals, each with the fact it reports.                            *)
Justified(v, p) ==
    \/ v = "unknown store" /\ p.store \notin Stores
    \/ v = "unknown product" /\ p.sku \notin Products
    \/ v = "conflict" /\ ledger[p.id] # NoRow
    \/ /\ p.type = "REFUND"
       /\ \/ v = "original not found" /\ ledger[p.original] = NoRow
          \/ /\ v = "original not a sale"
             /\ ledger[p.original] # NoRow /\ ~ IsSale(p.original)
          \/ /\ IsSale(p.original)
             /\ \/ v = "reference mismatch" /\ ~ SameStoreAndProduct(ledger, p)
                \/ v = "limit exceeded" /\ ~ WithinLimits(ledger, p)

Refusals == {"unknown store", "unknown product", "conflict", "original not found",
             "original not a sale", "reference mismatch", "limit exceeded"}

Move(t, from, to) == phase[t] = from /\ phase' = [phase EXCEPT ![t] = to]
Append(p) == Admissible(p) /\ ledger' = [ledger EXCEPT ![p.id] = p]
Close(t, from) ==
    /\ Move(t, from, "idle")
    /\ request' = [request EXCEPT ![t] = NoPayload]
    /\ verdict' = [verdict EXCEPT ![t] = "none"]

Receive(t, p) ==
    /\ WellFormed(p)
    /\ Move(t, "idle", "open")
    /\ request' = [request EXCEPT ![t] = p]
    /\ UNCHANGED <<verdict, ledger>>

Accept(t) ==
    /\ Move(t, "open", "decided")
    /\ Append(request[t])
    /\ verdict' = [verdict EXCEPT ![t] = "accepted"]
    /\ UNCHANGED request

Recognise(t) ==
    /\ Move(t, "open", "decided")
    /\ ledger[request[t].id] = request[t]
    /\ verdict' = [verdict EXCEPT ![t] = "duplicate"]
    /\ UNCHANGED <<request, ledger>>

Refuse(t) ==
    /\ Move(t, "open", "decided")
    /\ ledger[request[t].id] # request[t]
    /\ \E v \in Refusals :
          /\ Justified(v, request[t])
          /\ verdict' = [verdict EXCEPT ![t] = v]
    /\ UNCHANGED <<request, ledger>>

Fail(t) ==
    /\ Move(t, "open", "decided")
    /\ verdict' = [verdict EXCEPT ![t] = "error"]
    /\ UNCHANGED <<request, ledger>>

Reply(t) == Close(t, "decided") /\ UNCHANGED ledger

(* The answer is an error although the event may yet be recorded.          *)
Lose(t) ==
    /\ Move(t, "open", "lost")
    /\ verdict' = [verdict EXCEPT ![t] = "error"]
    /\ UNCHANGED <<request, ledger>>

LateAccept(t) == Close(t, "lost") /\ Append(request[t])
Forget(t) == Close(t, "lost") /\ UNCHANGED ledger

(* All requests are abandoned; some of them may yet be recorded.           *)
Restart ==
    \E L \in SUBSET {t \in Tasks : phase[t] \in {"open", "lost"}} :
        /\ phase' = [t \in Tasks |-> IF t \in L THEN "lost" ELSE "idle"]
        /\ request' = [t \in Tasks |-> IF t \in L THEN request[t] ELSE NoPayload]
        /\ verdict' = [t \in Tasks |-> IF t \in L THEN "error" ELSE "none"]
        /\ UNCHANGED ledger

LedgerNext ==
    \/ \E t \in Tasks :
         \/ \E p \in Payloads : Receive(t, p)
         \/ Accept(t) \/ Recognise(t) \/ Refuse(t) \/ Fail(t) \/ Reply(t)
         \/ Lose(t) \/ LateAccept(t) \/ Forget(t)
    \/ Restart

LedgerSpec == LedgerInit /\ [][LedgerNext]_ledgerVars
=============================================================================
