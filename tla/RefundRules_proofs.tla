------------------------- MODULE RefundRules_proofs -------------------------
(***************************************************************************)
(* What the sums of RefundRules are: a number, zero over no refunds,       *)
(* larger by n after one more refund of n, and no smaller in a larger      *)
(* table.                                                                  *)
(***************************************************************************)
EXTENDS RefundRules, FiniteSetTheorems, TLAPS

(* Finitely many numbers.                                                  *)
Summable(f) == IsFiniteSet(DOMAIN f) /\ \A x \in DOMAIN f : f[x] \in Nat

(* The sum of finitely many numbers is a number.                           *)
LEMMA TotalType ==
    ASSUME NEW f, Summable(f)
    PROVE  IsFiniteSet(Units(f)) /\ Total(f) \in Nat
<1> DEFINE unit == [x \in DOMAIN f |-> {x} \X (1 .. f[x])]
           Parts == {{x} \X (1 .. f[x]) : x \in DOMAIN f}
<1>1. IsFiniteSet(Parts)
  <2>1. unit \in Surjection(DOMAIN f, Parts)
    BY DEF Surjection
  <2> QED BY <2>1, FS_Surjection DEF Summable
<1>2. ASSUME NEW x \in DOMAIN f PROVE IsFiniteSet({x} \X (1 .. f[x]))
  <2>1. f[x] \in Int /\ 1 \in Int
    BY DEF Summable
  <2>2. IsFiniteSet(1 .. f[x])
    BY <2>1, FS_Interval
  <2>3. IsFiniteSet({x})
    BY FS_Singleton
  <2> QED BY <2>2, <2>3, FS_Product
<1>3. \A P \in Parts : IsFiniteSet(P)
  BY <1>2
<1>4. IsFiniteSet(Units(f))
  BY <1>1, <1>3, FS_UNION DEF Units
<1> QED BY <1>4, FS_CardinalityType DEF Total

(* The sum over nothing is zero.                                           *)
LEMMA TotalEmpty ==
    ASSUME NEW f, DOMAIN f = {}
    PROVE  Total(f) = 0
<1>1. Units(f) = {}
  BY DEF Units
<1> QED BY <1>1, FS_EmptySet DEF Total

(* One more number adds itself to the sum.                                 *)
Extends(g, f, x) ==
    /\ x \notin DOMAIN f
    /\ DOMAIN g = DOMAIN f \cup {x}
    /\ \A y \in DOMAIN f : g[y] = f[y]

(* One more element adds its number to the sum.                            *)
LEMMA TotalAdd ==
    ASSUME NEW f, NEW g, NEW x, Summable(f), Extends(g, f, x), g[x] \in Nat
    PROVE  Total(g) = Total(f) + g[x]
<1> DEFINE n == g[x]
           new == {x} \X (1 .. n)
<1>1. IsFiniteSet(Units(f)) /\ Total(f) \in Nat
  BY TotalType
<1>2. IsFiniteSet(new) /\ Cardinality(new) = n
  <2>1. IsFiniteSet(1 .. n) /\ Cardinality(1 .. n) = n
    BY FS_Interval
  <2>2. IsFiniteSet({x}) /\ Cardinality({x}) = 1
    BY FS_Singleton
  <2>3. Cardinality(new) = Cardinality({x}) * Cardinality(1 .. n) /\ IsFiniteSet(new)
    BY <2>1, <2>2, FS_Product, Zenon
  <2> QED BY <2>1, <2>2, <2>3
<1>3. Units(g) = Units(f) \cup new
  <2>1. \A y \in DOMAIN f : {y} \X (1 .. g[y]) = {y} \X (1 .. f[y])
    BY DEF Extends
  <2>2. {{y} \X (1 .. g[y]) : y \in DOMAIN g}
          = {{y} \X (1 .. f[y]) : y \in DOMAIN f} \cup {{x} \X (1 .. g[x])}
    BY <2>1 DEF Extends
  <2> QED BY <2>2 DEF Units
<1>4. Units(f) \cap new = {}
  <2>1. \A u \in Units(f) : u[1] \in DOMAIN f
    BY DEF Units
  <2>2. \A u \in new : u[1] = x
    OBVIOUS
  <2> QED BY <2>1, <2>2 DEF Extends
<1>5. Cardinality(Units(g)) = Cardinality(Units(f)) + n
  <2> HIDE DEF new
  <2>1. Cardinality(Units(g))
          = Cardinality(Units(f)) + Cardinality(new) - Cardinality(Units(f) \cap new)
    BY <1>1, <1>2, <1>3, FS_Union, Zenon
  <2>2. Cardinality(Units(f) \cap new) = 0
    BY <1>4, FS_EmptySet
  <2>3. Cardinality(Units(f)) \in Nat /\ Cardinality(new) = n /\ n \in Nat
    BY <1>1, <1>2 DEF Total
  <2> QED BY <2>1, <2>2, <2>3
<1> QED BY <1>1, <1>5 DEF Total

-----------------------------------------------------------------------------
Counted(p) == p.quantity \in Nat /\ p.amount \in Nat
CountedTable(table) == \A e \in EventIds : table[e] # NoRow => Counted(table[e])

(* What is refunded of an event is a number.                               *)
LEMMA RefundedType ==
    ASSUME IsFiniteSet(EventIds), NEW table, CountedTable(table), NEW o
    PROVE  RefundedQuantity(table, o) \in Nat /\ RefundedAmount(table, o) \in Nat
<1> DEFINE D == RefundsOf(table, o)
<1>1. IsFiniteSet(D)
  BY FS_Subset DEF RefundsOf
<1>2. \A e \in D : Counted(table[e])
  BY DEF RefundsOf, CountedTable
<1> HIDE DEF D
<1>3. Summable([e \in D |-> table[e].quantity])
  BY <1>1, <1>2 DEF Counted, Summable
<1>4. Summable([e \in D |-> table[e].amount])
  BY <1>1, <1>2 DEF Counted, Summable
<1>5. Total([e \in D |-> table[e].quantity]) \in Nat
  BY <1>3, TotalType
<1>6. Total([e \in D |-> table[e].amount]) \in Nat
  BY <1>4, TotalType
<1> QED BY <1>5, <1>6 DEF D, RefundedQuantity, RefundedAmount

(* Nothing is refunded of an event no refund refers to.                    *)
LEMMA RefundedNothing ==
    ASSUME NEW table, NEW o, RefundsOf(table, o) = {}
    PROVE  RefundedQuantity(table, o) = 0 /\ RefundedAmount(table, o) = 0
BY TotalEmpty DEF RefundedQuantity, RefundedAmount

(* Appending an event leaves what is refunded of o as it was, unless the   *)
(* event is a refund of o: then it adds its quantity and its amount.       *)
Appends(new, table, e, p) ==
    /\ e \in EventIds /\ table[e] = NoRow /\ p # NoRow
    /\ new[e] = p /\ \A d \in EventIds \ {e} : new[d] = table[d]

(* An event that is appended adds to the refunds of its original, and to   *)
(* no others.                                                              *)
LEMMA RefundedAppend ==
    ASSUME IsFiniteSet(EventIds),
           NEW table, CountedTable(table), NEW p, Counted(p),
           NEW e, NEW new, Appends(new, table, e, p), NEW o
    PROVE  IF p.type = "REFUND" /\ p.original = o
             THEN /\ RefundedQuantity(new, o) = RefundedQuantity(table, o) + p.quantity
                  /\ RefundedAmount(new, o) = RefundedAmount(table, o) + p.amount
             ELSE /\ RefundedQuantity(new, o) = RefundedQuantity(table, o)
                  /\ RefundedAmount(new, o) = RefundedAmount(table, o)
<1> DEFINE D == RefundsOf(table, o)
           E == RefundsOf(new, o)
<1>1. IsFiniteSet(D) /\ e \notin D
  BY FS_Subset DEF RefundsOf, Appends
<1>2. \A d \in D : new[d] = table[d] /\ Counted(table[d])
  BY DEF RefundsOf, CountedTable, Appends
<1>3. new[e] = p /\ p # NoRow
  BY DEF Appends
<1>4. CASE p.type = "REFUND" /\ p.original = o
  <2>1. E = D \cup {e}
    BY <1>2, <1>3, <1>4 DEF RefundsOf, Appends
  <2>2. Total([d \in E |-> new[d].quantity]) = Total([d \in D |-> table[d].quantity]) + p.quantity
    <3> HIDE DEF D, E
    <3> DEFINE f == [d \in D |-> table[d].quantity]
               g == [d \in E |-> new[d].quantity]
    <3>1. Summable(f)
      BY <1>1, <1>2 DEF Summable, Counted
    <3>2. Extends(g, f, e) /\ g[e] = p.quantity
      BY <1>1, <1>2, <1>3, <2>1 DEF Extends
    <3>3. g[e] \in Nat
      BY <3>2 DEF Counted
    <3> HIDE DEF f, g
    <3>4. Total(g) = Total(f) + g[e]
      BY <3>1, <3>2, <3>3, TotalAdd
    <3> QED BY <3>2, <3>4 DEF f, g
  <2>3. Total([d \in E |-> new[d].amount]) = Total([d \in D |-> table[d].amount]) + p.amount
    <3> HIDE DEF D, E
    <3> DEFINE f == [d \in D |-> table[d].amount]
               g == [d \in E |-> new[d].amount]
    <3>1. Summable(f)
      BY <1>1, <1>2 DEF Summable, Counted
    <3>2. Extends(g, f, e) /\ g[e] = p.amount
      BY <1>1, <1>2, <1>3, <2>1 DEF Extends
    <3>3. g[e] \in Nat
      BY <3>2 DEF Counted
    <3> HIDE DEF f, g
    <3>4. Total(g) = Total(f) + g[e]
      BY <3>1, <3>2, <3>3, TotalAdd
    <3> QED BY <3>2, <3>4 DEF f, g
  <2> QED BY <1>4, <2>2, <2>3 DEF RefundedQuantity, RefundedAmount
<1>5. CASE ~ (p.type = "REFUND" /\ p.original = o)
  <2>1. E = D
    BY <1>2, <1>3, <1>5 DEF RefundsOf, Appends
  <2>2. /\ [d \in E |-> new[d].quantity] = [d \in D |-> table[d].quantity]
        /\ [d \in E |-> new[d].amount] = [d \in D |-> table[d].amount]
    <3> HIDE DEF D, E
    <3> QED BY <1>2, <2>1
  <2> QED BY <1>5, <2>2 DEF RefundedQuantity, RefundedAmount
<1> QED BY <1>4, <1>5

(* No more is refunded in a table that has some of the events only.        *)
LEMMA RefundedMonotone ==
    ASSUME IsFiniteSet(EventIds), NEW table, CountedTable(table), NEW part,
           \A e \in EventIds : part[e] # NoRow => part[e] = table[e], NEW o
    PROVE  /\ RefundedQuantity(part, o) <= RefundedQuantity(table, o)
           /\ RefundedAmount(part, o) <= RefundedAmount(table, o)
<1> DEFINE D == RefundsOf(part, o)
           E == RefundsOf(table, o)
<1>1. D \subseteq E /\ IsFiniteSet(E) /\ \A e \in E : Counted(table[e])
  BY FS_Subset DEF RefundsOf, CountedTable
<1>2. \A e \in D : part[e] = table[e]
  BY DEF RefundsOf
<1>3. ASSUME NEW f, NEW g, Summable(g), DOMAIN f \subseteq DOMAIN g,
             \A x \in DOMAIN f : f[x] = g[x]
      PROVE  Total(f) <= Total(g)
  <2>1. Units(f) \subseteq Units(g)
    BY <1>3 DEF Units
  <2> QED BY <1>3, <2>1, TotalType, FS_Subset DEF Total
<1> HIDE DEF D, E
<1>4. Total([e \in D |-> part[e].quantity]) <= Total([e \in E |-> table[e].quantity])
  <2> DEFINE f == [e \in D |-> part[e].quantity]
             g == [e \in E |-> table[e].quantity]
  <2>1. Summable(g)
    BY <1>1 DEF Summable, Counted
  <2>2. DOMAIN f \subseteq DOMAIN g /\ \A x \in DOMAIN f : f[x] = g[x]
    BY <1>1, <1>2
  <2> HIDE DEF f, g
  <2>3. Total(f) <= Total(g)
    BY <1>3, <2>1, <2>2
  <2> QED BY <2>3 DEF f, g
<1>5. Total([e \in D |-> part[e].amount]) <= Total([e \in E |-> table[e].amount])
  <2> DEFINE f == [e \in D |-> part[e].amount]
             g == [e \in E |-> table[e].amount]
  <2>1. Summable(g)
    BY <1>1 DEF Summable, Counted
  <2>2. DOMAIN f \subseteq DOMAIN g /\ \A x \in DOMAIN f : f[x] = g[x]
    BY <1>1, <1>2
  <2> HIDE DEF f, g
  <2>3. Total(f) <= Total(g)
    BY <1>3, <2>1, <2>2
  <2> QED BY <2>3 DEF f, g
<1> QED BY <1>4, <1>5 DEF D, E, RefundedQuantity, RefundedAmount
=============================================================================
