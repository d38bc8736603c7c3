---------------------------- MODULE RefundRules ----------------------------
(***************************************************************************)
(* The rules a POS event is held to (backend/app/schemas.py,               *)
(* backend/app/event_ingestion.py), as operators over a table of events: a *)
(* function from event ids to bodies, NoRow where there is none.           *)
(***************************************************************************)
EXTENDS Integers, FiniteSets

CONSTANTS EventIds, NoRow

(***************************************************************************)
(* The sum of the positive numbers f[x].  It is the number of pairs        *)
(* <<x, k>> with k in 1..f[x], a form the theorems on cardinality apply to.*)
(***************************************************************************)
Units(f) == UNION {{x} \X (1 .. f[x]) : x \in DOMAIN f}
Total(f) == Cardinality(Units(f))

RefundsOf(table, o) ==
    {e \in EventIds : /\ table[e] # NoRow
                      /\ table[e].type = "REFUND"
                      /\ table[e].original = o}

RefundedQuantity(table, o) ==
    Total([e \in RefundsOf(table, o) |-> table[e].quantity])
RefundedAmount(table, o) ==
    Total([e \in RefundsOf(table, o) |-> table[e].amount])

(* quantity and amount_cents are declared gt=0.                            *)
WellFormed(p) == p.quantity > 0 /\ p.amount > 0

(* The rules for a refund p of a sale that is in the table.                *)
SameStoreAndProduct(table, p) ==
    /\ p.store = table[p.original].store
    /\ p.sku = table[p.original].sku

\* Fault: the amount of a refund is not limited.
WithinQuantity(table, p) ==
    RefundedQuantity(table, p.original) + p.quantity <= table[p.original].quantity

WithinLimits(table, p) ==
    /\ RefundedQuantity(table, p.original) + p.quantity <= table[p.original].quantity
    /\ RefundedAmount(table, p.original) + p.amount <= table[p.original].amount
=============================================================================
