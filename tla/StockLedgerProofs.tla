------------------------- MODULE StockLedgerProofs -------------------------
(* What every implementation of StockLedger inherits. *)
EXTENDS StockLedger, FiniteSetTheorems, TLAPS

\* Units of a set of claims are counted, whatever the set.
LEMMA UnitsFinite ==
    ASSUME Legal, NEW S \in SUBSET Claims
    PROVE  IsFiniteSet(Units(S)) /\ Cardinality(Units(S)) \in Nat
<1>1. IsFiniteSet(S)
  BY FS_Subset DEF Legal
<1>2. IsFiniteSet(1..MaxSize)
  BY FS_Interval DEF Legal
<1>3. IsFiniteSet(S \X (1..MaxSize))
  BY <1>1, <1>2, FS_Product
<1>4. Units(S) \in SUBSET (S \X (1..MaxSize))
  BY DEF Units
<1> QED
  BY <1>3, <1>4, FS_Subset, FS_CardinalityType

\* A claim that joins a set brings its size in units.
LEMMA UnitsAdd ==
    ASSUME Legal, NEW S \in SUBSET Claims, NEW c \in Claims \ S
    PROVE  Cardinality(Units(S \cup {c})) = Cardinality(Units(S)) + Size[c]
<1> DEFINE Own == {c} \X (1..Size[c])
<1>1. Size[c] \in 1..MaxSize
  BY DEF Legal
<1>2. IsFiniteSet(1..Size[c]) /\ Cardinality(1..Size[c]) = Size[c]
  BY <1>1, FS_Interval DEF Legal
<1>3. IsFiniteSet({c}) /\ Cardinality({c}) = 1
  BY FS_Singleton
<1>10. Size[c] \in Nat
  BY <1>1 DEF Legal
<1>4. IsFiniteSet(Own) /\ Cardinality(Own) = Size[c]
  <2>1. IsFiniteSet(Own) /\ Cardinality(Own) = 1 * Size[c]
    BY ZenonT(60), <1>2, <1>3, FS_Product
  <2> QED
    BY <2>1, <1>10
<1>5. Units(S \cup {c}) = Units(S) \cup Own
  <2>1. ASSUME NEW u \in Units(S \cup {c}) PROVE u \in Units(S) \cup Own
    BY <2>1 DEF Units, Legal
  <2>2. ASSUME NEW u \in Units(S) PROVE u \in Units(S \cup {c})
    BY <2>2 DEF Units
  <2>3. ASSUME NEW u \in Own PROVE u \in Units(S \cup {c})
    BY <2>3, <1>1 DEF Units, Legal
  <2> QED
    BY <2>1, <2>2, <2>3
<1>6. Units(S) \cap Own = {}
  BY DEF Units
<1>7. IsFiniteSet(Units(S)) /\ Cardinality(Units(S)) \in Nat
  BY UnitsFinite
<1> HIDE DEF Own
<1>8. Cardinality(Units(S) \cup Own)
        = Cardinality(Units(S)) + Cardinality(Own) - Cardinality(Units(S) \cap Own)
  BY <1>4, <1>7, FS_Union
<1>9. Cardinality({}) = 0
  BY FS_EmptySet
<1>11. Cardinality(Units(S) \cap Own) = 0
  BY <1>6, <1>9
<1>12. Cardinality(Units(S \cup {c})) = Cardinality(Units(S) \cup Own)
  BY <1>5
<1> QED
  BY <1>4, <1>7, <1>8, <1>10, <1>11, <1>12

-----------------------------------------------------------------------------

\* The ledger's state keeps its shape.
THEOREM TypeCorrect == Legal => (Spec => []TypeOK)
<1> SUFFICES ASSUME Legal PROVE Spec => []TypeOK
  OBVIOUS
<1>1. Init => TypeOK
  BY DEF Legal, Init, TypeOK
<1>2. TypeOK /\ [Next]_vars => TypeOK'
  BY DEF Legal, TypeOK, Next, Take, GiveBack, vars
<1> QED
  BY <1>1, <1>2, PTL DEF Spec

\* Stock is conserved: what is available and what is held always add up to the
\* initial stock, and never more is held than there was.
THEOREM Conservation == Legal => (Spec => []Conserved)
<1> SUFFICES ASSUME Legal PROVE Spec => []Conserved
  OBVIOUS
<1>1. Init => Conserved
  <2> SUFFICES ASSUME Init PROVE Conserved
    OBVIOUS
  <2>1. Held = {} /\ Units({}) = {}
    BY DEF Init, Held, Units
  <2> QED
    BY <2>1, FS_EmptySet DEF Legal, Init, Conserved
<1>2. TypeOK /\ TypeOK' /\ Conserved /\ [Next]_vars => Conserved'
  <2> SUFFICES ASSUME TypeOK, TypeOK', Conserved, [Next]_vars
               PROVE  Conserved'
    OBVIOUS
  <2>0. Held \in SUBSET Claims
    BY DEF Held
  <2>1. ASSUME NEW c \in Claims, Take(c) PROVE Conserved'
    <3>1. Held' = Held \cup {c} /\ c \notin Held
      BY <2>1 DEF Take, Held, TypeOK
    <3>2. Size[c] \in Nat
      BY DEF Legal
    <3>3. Cardinality(Units(Held))' = Cardinality(Units(Held)) + Size[c]
      BY <2>0, <3>1, UnitsAdd DEF Units
    <3>4. Cardinality(Units(Held)) \in Nat
      BY <2>0, UnitsFinite
    <3> QED
      BY <2>1, <3>2, <3>3, <3>4 DEF Take, Conserved, TypeOK
  <2>2. ASSUME NEW c \in Claims, GiveBack(c) PROVE Conserved'
    <3>1. Held = Held' \cup {c} /\ c \notin Held' /\ Held' \in SUBSET Claims
      BY <2>2 DEF GiveBack, Held, TypeOK
    <3>2. Size[c] \in Nat
      BY DEF Legal
    <3>3. Cardinality(Units(Held)) = Cardinality(Units(Held))' + Size[c]
      BY <3>1, UnitsAdd DEF Units
    <3>4. Cardinality(Units(Held))' \in Nat
      BY <3>1, UnitsFinite DEF Units
    <3> QED
      BY <2>2, <3>2, <3>3, <3>4 DEF GiveBack, Conserved, TypeOK
  <2>3. CASE UNCHANGED vars
    BY <2>3 DEF vars, Conserved, Held, Units
  <2> QED
    BY <2>1, <2>2, <2>3 DEF Next
<1> QED
  BY <1>1, <1>2, TypeCorrect, PTL DEF Spec
=============================================================================
