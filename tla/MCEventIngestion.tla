-------------------------- MODULE MCEventIngestion --------------------------
(* Small instances of EventIngestion: the payload sets of its runs.        *)
EXTENDS EventIngestion, FiniteSetsExt, TLC

CONSTANTS sale, refund1, refund2, other, madrid, lima, nowhere, coffee, tea, nothing,
          plain, bignum, t1, t2, t3

MCStores == {madrid, lima}
MCProducts == {coffee, tea}
MCCodes == MCStores \cup {nowhere}
MCSkus == MCProducts \cup {nothing}
(* Plain metadata, and metadata that holds the float 1e30.                 *)
MCInfos == {plain, bignum}
Exact == [i \in MCInfos |-> i]
(* JSONB keeps 1e30 as a numeric, which is read back as an int, 10**30.    *)
Jsonb == [Exact EXCEPT ![bignum] = plain]

Sale(e, q, a) ==
    [id |-> e, store |-> madrid, sku |-> coffee, type |-> "SALE",
     quantity |-> q, amount |-> a, original |-> NoEvent, info |-> plain]
Refund(e, o, q, a) ==
    [Sale(e, q, a) EXCEPT !.type = "REFUND", !.original = o]

(* Two refunds that do not both fit, by quantity or by amount.             *)
RefundPayloads ==
    {Sale(sale, 2, 2), Refund(refund1, sale, 1, 2), Refund(refund2, sale, 1, 1)}

(* Bodies that disagree about an event, mismatched references and a refund *)
(* of a refund, and bodies that nothing can accept.                        *)
RequestPayloads ==
    {Sale(sale, 2, 2), [Sale(sale, 2, 2) EXCEPT !.store = lima],
     Refund(sale, sale, 1, 1),
     Refund(refund1, sale, 1, 1),
     Refund(refund2, refund1, 1, 1),
     [Refund(refund2, sale, 1, 1) EXCEPT !.store = lima],
     [Refund(refund2, sale, 1, 1) EXCEPT !.sku = tea],
     Refund(refund2, sale, 2, 1),
     Sale(refund2, 0, 1),
     Sale(refund2, 3, 1),
     [Sale(refund2, 1, 1) EXCEPT !.store = nowhere],
     [Sale(refund2, 1, 1) EXCEPT !.sku = nothing]}

(* One refund id used for two sales.                                       *)
CrossPayloads ==
    {Sale(sale, 1, 1), Sale(other, 1, 1),
     Refund(refund1, sale, 1, 1), Refund(refund1, other, 1, 1)}
BignumPayloads == {[Sale(sale, 1, 1) EXCEPT !.info = bignum]}

TaskSymmetry == Permutations(Tasks)

(* EveryRequestAnswered of one handler, where the handlers and the requests *)
(* they may get are alike: the answer for one is the answer for all.       *)
FirstAnswered == Finishes(t1)

(* Total is the sum: checked against a fold on all small functions.        *)
ASSUME \A D \in SUBSET (1 .. 3) : \A f \in [D -> 0 .. 3] :
    Total(f) = MapThenSumSet(LAMBDA x : f[x], D)
=============================================================================
