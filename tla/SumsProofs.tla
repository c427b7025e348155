----------------------------- MODULE SumsProofs -----------------------------
(***************************************************************************)
(* Facts about totals: how a total changes when one summand does.          *)
(***************************************************************************)
EXTENDS Sums, FiniteSetTheorems, TLAPS

\* The units of one summand.
LEMMA UnitCount ==
    ASSUME NEW x, NEW n \in Int
    PROVE  /\ IsFiniteSet({x} \X (1..n))
           /\ Cardinality({x} \X (1..n)) = IF n > 0 THEN n ELSE 0
<1>1. IsFiniteSet(1..n) /\ Cardinality(1..n) = IF n > 0 THEN n ELSE 0
  BY FS_Interval
<1>2. IsFiniteSet({x}) /\ Cardinality({x}) = 1
  BY FS_Singleton
<1>3. /\ IsFiniteSet({x} \X (1..n))
      /\ Cardinality({x} \X (1..n)) = Cardinality({x}) * Cardinality(1..n)
  BY <1>1, <1>2, FS_Product
<1> QED
  BY <1>1, <1>2, <1>3

\* A finite set of integers has finitely many units.
LEMMA UnitsFinite ==
    ASSUME NEW S, IsFiniteSet(S), NEW f, \A x \in S : f[x] \in Int
    PROVE  IsFiniteSet(Units(f, S))
<1> DEFINE part == [x \in S |-> {x} \X (1..f[x])]
           parts == {{x} \X (1..f[x]) : x \in S}
<1>1. part \in Surjection(S, parts)
  BY DEF Surjection
<1>2. IsFiniteSet(parts)
  BY <1>1, FS_Surjection
<1>3. \A T \in parts : IsFiniteSet(T)
  BY UnitCount
<1>4. IsFiniteSet(UNION parts)
  BY <1>2, <1>3, FS_UNION
<1> QED
  BY <1>4 DEF Units

\* The units of the others are those without x's.
LEMMA UnitsSplit ==
    ASSUME NEW S, IsFiniteSet(S), NEW f, \A y \in S : f[y] \in Int, NEW x \in S
    PROVE  /\ Cardinality(Units(f, S)) \in Nat
           /\ Cardinality(Units(f, S \ {x})) \in Nat
           /\ Cardinality(Units(f, S)) =
                 Cardinality(Units(f, S \ {x})) + IF f[x] > 0 THEN f[x] ELSE 0
<1> DEFINE rest == Units(f, S \ {x})
           own == {x} \X (1..f[x])
<1>1. Units(f, S) = rest \cup own
  BY DEF Units
<1>2. rest \cap own = {}
  BY DEF Units
<1>3. IsFiniteSet(S \ {x})
  BY FS_RemoveElement
<1>4. IsFiniteSet(rest) /\ IsFiniteSet(Units(f, S))
  BY <1>3, UnitsFinite
<1>5. IsFiniteSet(own) /\ Cardinality(own) = IF f[x] > 0 THEN f[x] ELSE 0
  BY UnitCount
<1>6. Cardinality(rest) \in Nat /\ Cardinality(Units(f, S)) \in Nat
  BY <1>4, FS_CardinalityType
<1> HIDE DEF rest, own
<1>7. Cardinality(rest \cup own) = Cardinality(rest) + Cardinality(own) - Cardinality({})
  BY <1>2, <1>4, <1>5, FS_Union
<1>8. Cardinality({}) = 0
  BY FS_EmptySet
<1>9. Cardinality(own) \in Nat
  BY <1>5, FS_CardinalityType
<1>10. Cardinality(Units(f, S)) = Cardinality(rest) + Cardinality(own)
  BY <1>1, <1>6, <1>7, <1>8, <1>9
<1> QED
  BY <1>5, <1>6, <1>10 DEF rest

\* A total is an integer that depends on the summands only.
LEMMA TotalSame ==
    ASSUME NEW S, NEW f, NEW g, \A x \in S : f[x] = g[x]
    PROVE  Total(f, S) = Total(g, S)
<1>1. Units(f, S) = Units(g, S)
  BY DEF Units
<1>2. [x \in S |-> -f[x]] = [x \in S |-> -g[x]]
  OBVIOUS
<1> QED
  BY <1>1, <1>2, Zenon DEF Total

\* Taking one summand out.
LEMMA TotalSplit ==
    ASSUME NEW S, IsFiniteSet(S), NEW f, \A y \in S : f[y] \in Int, NEW x \in S
    PROVE  /\ Total(f, S) \in Int
           /\ Total(f, S \ {x}) \in Int
           /\ Total(f, S) = Total(f, S \ {x}) + f[x]
<1> DEFINE minus == [y \in S |-> -f[y]]
           minusRest == [y \in S \ {x} |-> -f[y]]
<1>1. \A y \in S : minus[y] \in Int
  OBVIOUS
<1>2. Units(minusRest, S \ {x}) = Units(minus, S \ {x})
  BY DEF Units
<1>3. minus[x] = -f[x] /\ f[x] \in Int
  OBVIOUS
<1> HIDE DEF minus, minusRest
<1> DEFINE a == Cardinality(Units(f, S))
           b == Cardinality(Units(f, S \ {x}))
           c == Cardinality(Units(minus, S))
           d == Cardinality(Units(minus, S \ {x}))
<1>4. a \in Nat /\ b \in Nat /\ a = b + IF f[x] > 0 THEN f[x] ELSE 0
  BY UnitsSplit
<1>5. c \in Nat /\ d \in Nat /\ c = d + IF minus[x] > 0 THEN minus[x] ELSE 0
  BY <1>1, UnitsSplit
<1>6. Total(f, S) = a - c
  BY DEF Total, minus
<1>7. Total(f, S \ {x}) = b - d
  BY <1>2 DEF Total, minusRest
<1> HIDE DEF a, b, c, d
<1> QED
  BY <1>3, <1>4, <1>5, <1>6, <1>7

\* Every total is an integer, the empty one is 0.
LEMMA TotalType ==
    ASSUME NEW S, IsFiniteSet(S), NEW f, \A y \in S : f[y] \in Int
    PROVE  /\ Total(f, S) \in Int
           /\ (\A y \in S : f[y] = 0) => Total(f, S) = 0
<1> DEFINE minus == [y \in S |-> -f[y]]
<1>1. \A y \in S : minus[y] \in Int
  OBVIOUS
<1>2. (\A y \in S : f[y] = 0) => Units(f, S) = {} /\ Units(minus, S) = {}
  <2>1. \A y \in S : f[y] = 0 => minus[y] = 0
    OBVIOUS
  <2>2. 1..0 = {}
    OBVIOUS
  <2> HIDE DEF minus
  <2> QED
    BY <2>1, <2>2 DEF Units
<1> HIDE DEF minus
<1>3. Cardinality(Units(f, S)) \in Nat /\ Cardinality(Units(minus, S)) \in Nat
  BY <1>1, UnitsFinite, FS_CardinalityType
<1>4. Total(f, S) = Cardinality(Units(f, S)) - Cardinality(Units(minus, S))
  BY DEF Total, minus
<1>5. Cardinality({}) = 0
  BY FS_EmptySet
<1> QED
  BY <1>2, <1>3, <1>4, <1>5

\* The total of a single summand.
LEMMA TotalOfOne ==
    ASSUME NEW x, NEW f, f[x] \in Int
    PROVE  Total(f, {x}) = f[x]
<1>1. IsFiniteSet({x}) /\ x \in {x} /\ \A y \in {x} : f[y] \in Int
  BY FS_Singleton
<1>2. Total(f, {x}) = Total(f, {x} \ {x}) + f[x]
  BY <1>1, TotalSplit
<1>3. {x} \ {x} = {}
  OBVIOUS
<1>4. Total(f, {}) = 0
  BY FS_EmptySet, TotalType
<1>5. Total(f, {x} \ {x}) = 0
  BY <1>3, <1>4, Zenon
<1> QED
  BY <1>2, <1>5

\* A total of naturals is one, and no less than any of its summands.
LEMMA TotalOfNaturals ==
    ASSUME NEW S, IsFiniteSet(S), NEW f, \A y \in S : f[y] \in Nat
    PROVE  /\ Total(f, S) \in Nat
           /\ \A x \in S : f[x] <= Total(f, S)
<1>1. ASSUME NEW T, IsFiniteSet(T), \A y \in T : f[y] \in Nat
      PROVE  Total(f, T) \in Nat
  <2> DEFINE minus == [y \in T |-> -f[y]]
  <2>1. Units(minus, T) = {}
    <3>1. \A y \in T : 1..minus[y] = {}
      BY <1>1
    <3> HIDE DEF minus
    <3> QED
      BY <3>1 DEF Units
  <2>2. Cardinality(Units(f, T)) \in Nat
    <3>1. \A y \in T : f[y] \in Int
      BY <1>1
    <3> QED
      BY <1>1, <3>1, UnitsFinite, FS_CardinalityType
  <2>3. Total(f, T) = Cardinality(Units(f, T)) - Cardinality({})
    BY <2>1 DEF Total
  <2>4. Cardinality({}) = 0
    BY FS_EmptySet
  <2> QED
    BY <2>2, <2>3, <2>4
<1>2. ASSUME NEW x \in S
      PROVE  f[x] <= Total(f, S)
  <2>1. IsFiniteSet(S \ {x})
    BY FS_RemoveElement
  <2>2. Total(f, S \ {x}) \in Nat
    BY <1>1, <2>1
  <2>3. Total(f, S) = Total(f, S \ {x}) + f[x]
    BY TotalSplit
  <2> QED
    BY <2>2, <2>3
<1> QED
  BY <1>1, <1>2

\* When one summand changes, enters or leaves, the total changes by as much.
LEMMA TotalChange ==
    ASSUME NEW S, IsFiniteSet(S), NEW f, \A y \in S : f[y] \in Int,
           NEW T, IsFiniteSet(T), NEW g, \A y \in T : g[y] \in Int,
           NEW x, S \ {x} = T \ {x}, \A y \in S \ {x} : f[y] = g[y]
    PROVE  /\ Total(f, S) \in Int
           /\ Total(g, T) \in Int
           /\ Total(g, T) = Total(f, S) - (IF x \in S THEN f[x] ELSE 0)
                                        + (IF x \in T THEN g[x] ELSE 0)
<1> DEFINE rest == Total(f, S \ {x})
<1>1. rest = Total(g, T \ {x})
  BY TotalSame
<1>2. Total(f, S) \in Int /\ Total(g, T) \in Int
  BY TotalType
<1>3. Total(f, S) = rest + (IF x \in S THEN f[x] ELSE 0) /\ rest \in Int
  <2>1. CASE x \in S
    BY <2>1, TotalSplit
  <2>2. CASE x \notin S
    <3>1. S \ {x} = S
      BY <2>2
    <3>2. rest = Total(f, S)
      BY <3>1, Zenon
    <3> HIDE DEF rest
    <3> QED
      BY <1>2, <2>2, <3>2
  <2> QED
    BY <2>1, <2>2
<1>4. Total(g, T) = rest + (IF x \in T THEN g[x] ELSE 0)
  <2>1. CASE x \in T
    BY <1>1, <2>1, TotalSplit
  <2>2. CASE x \notin T
    <3>1. T \ {x} = T
      BY <2>2
    <3>2. rest = Total(g, T)
      BY <1>1, <3>1, Zenon
    <3> HIDE DEF rest
    <3> QED
      BY <1>2, <2>2, <3>2
  <2> QED
    BY <2>1, <2>2
<1> HIDE DEF rest
<1>5. /\ (IF x \in S THEN f[x] ELSE 0) \in Int
      /\ (IF x \in T THEN g[x] ELSE 0) \in Int
  OBVIOUS
<1> QED
  BY <1>2, <1>3, <1>4, <1>5

\* The units of a disjoint union.
LEMMA UnitsUnion ==
    ASSUME NEW S, IsFiniteSet(S), NEW T, IsFiniteSet(T), S \cap T = {},
           NEW f, \A y \in S \cup T : f[y] \in Int
    PROVE  /\ Cardinality(Units(f, S)) \in Nat
           /\ Cardinality(Units(f, T)) \in Nat
           /\ Cardinality(Units(f, S \cup T)) = Cardinality(Units(f, S)) + Cardinality(Units(f, T))
<1>1. Units(f, S \cup T) = Units(f, S) \cup Units(f, T)
  BY DEF Units
<1>2. Units(f, S) \cap Units(f, T) = {}
  BY DEF Units
<1>3. IsFiniteSet(Units(f, S)) /\ IsFiniteSet(Units(f, T))
  BY UnitsFinite
<1>4. Cardinality(Units(f, S)) \in Nat /\ Cardinality(Units(f, T)) \in Nat
  BY <1>3, FS_CardinalityType
<1> DEFINE A == Units(f, S)
           B == Units(f, T)
<1> HIDE DEF A, B
<1>5. Cardinality(A \cup B) = Cardinality(A) + Cardinality(B) - Cardinality(A \cap B)
  BY <1>3, FS_Union DEF A, B
<1>6. Cardinality(A \cap B) = 0
  BY <1>2, FS_EmptySet DEF A, B
<1>7. Cardinality(Units(f, S \cup T)) = Cardinality(A \cup B)
  BY <1>1, Zenon DEF A, B
<1>8. Cardinality(A) \in Nat /\ Cardinality(B) \in Nat
  BY <1>4 DEF A, B
<1>9. Cardinality(Units(f, S \cup T)) = Cardinality(A) + Cardinality(B)
  BY <1>5, <1>6, <1>7, <1>8
<1> QED
  BY <1>4, <1>9 DEF A, B

\* The total of a disjoint union.
LEMMA TotalUnion ==
    ASSUME NEW S, IsFiniteSet(S), NEW T, IsFiniteSet(T), S \cap T = {},
           NEW f, \A y \in S \cup T : f[y] \in Int
    PROVE  Total(f, S \cup T) = Total(f, S) + Total(f, T)
<1> DEFINE minus == [y \in S \cup T |-> -f[y]]
           minusS == [y \in S |-> -f[y]]
           minusT == [y \in T |-> -f[y]]
<1>1. Units(minusS, S) = Units(minus, S) /\ Units(minusT, T) = Units(minus, T)
  BY DEF Units
<1>2. \A y \in S \cup T : minus[y] \in Int
  OBVIOUS
<1> HIDE DEF minus, minusS, minusT
<1> DEFINE a == Cardinality(Units(f, S))
           b == Cardinality(Units(f, T))
           c == Cardinality(Units(minus, S))
           d == Cardinality(Units(minus, T))
<1>3. a \in Nat /\ b \in Nat /\ Cardinality(Units(f, S \cup T)) = a + b
  BY UnitsUnion
<1>4. c \in Nat /\ d \in Nat /\ Cardinality(Units(minus, S \cup T)) = c + d
  BY <1>2, UnitsUnion
<1>5. Total(f, S) = a - c
  BY <1>1 DEF Total, minusS
<1>6. Total(f, T) = b - d
  BY <1>1 DEF Total, minusT
<1>7. Total(f, S \cup T) = Cardinality(Units(f, S \cup T)) - Cardinality(Units(minus, S \cup T))
  BY DEF Total, minus
<1> HIDE DEF a, b, c, d
<1> QED
  BY <1>3, <1>4, <1>5, <1>6, <1>7

\* The units of an enumeration without repetitions.
LEMMA UnitsReindex ==
    ASSUME NEW I, IsFiniteSet(I), NEW q, \A i, j \in I : q[i] = q[j] => i = j,
           NEW f, NEW h, \A i \in I : h[i] = f[q[i]] /\ h[i] \in Int
    PROVE  Cardinality(Units(h, I)) = Cardinality(Units(f, {q[i] : i \in I}))
<1> DEFINE Q == {q[i] : i \in I}
           A == Units(h, I)
           B == Units(f, Q)
           b == [u \in A |-> <<q[u[1]], u[2]>>]
<1>1. \A u : u \in A <=> \E i \in I : \E m \in 1..h[i] : u = <<i, m>>
  BY DEF Units
<1>2. \A u : u \in B <=> \E i \in I : \E m \in 1..h[i] : u = <<q[i], m>>
  BY DEF Units
<1>3. IsFiniteSet(A)
  BY UnitsFinite
<1> HIDE DEF A, B
<1>4. b \in [A -> B]
  BY <1>1, <1>2
<1>5. b \in Surjection(A, B)
  <2>1. ASSUME NEW v \in B
        PROVE  \E u \in A : b[u] = v
    <3>1. PICK i \in I : \E m \in 1..h[i] : v = <<q[i], m>>
      BY <1>2
    <3>2. PICK m \in 1..h[i] : v = <<q[i], m>>
      BY <3>1
    <3>3. <<i, m>> \in A
      BY <1>1
    <3>4. b[<<i, m>>] = v
      BY <3>2, <3>3
    <3> QED
      BY <3>3, <3>4
  <2> HIDE DEF b
  <2> QED
    BY <1>4, <2>1 DEF Surjection
<1>6. b \in Injection(A, B)
  <2>1. ASSUME NEW u \in A, NEW v \in A, b[u] = b[v]
        PROVE  u = v
    <3>1. PICK i \in I : \E m \in 1..h[i] : u = <<i, m>>
      BY <1>1
    <3>2. PICK j \in I : \E n \in 1..h[j] : v = <<j, n>>
      BY <1>1
    <3>3. u[1] = i /\ v[1] = j /\ u = <<u[1], u[2]>> /\ v = <<v[1], v[2]>>
      BY <3>1, <3>2
    <3>4. q[u[1]] = q[v[1]] /\ u[2] = v[2]
      BY <2>1
    <3>5. u[1] = v[1]
      BY <3>3, <3>4
    <3> QED
      BY <3>3, <3>4, <3>5
  <2> HIDE DEF b
  <2> QED
    BY <1>4, <2>1 DEF Injection, IsInjective
<1> HIDE DEF b
<1>7. ExistsBijection(A, B)
  BY <1>5, <1>6 DEF ExistsBijection, Bijection
<1>8. Cardinality(B) = Cardinality(A)
  BY <1>3, <1>7, FS_Bijection
<1> QED
  BY <1>8 DEF A, B

\* The total of an enumeration without repetitions.
LEMMA TotalReindex ==
    ASSUME NEW I, IsFiniteSet(I), NEW q, \A i, j \in I : q[i] = q[j] => i = j,
           NEW f, NEW h, \A i \in I : h[i] = f[q[i]] /\ h[i] \in Int
    PROVE  Total(h, I) = Total(f, {q[i] : i \in I})
<1> DEFINE Q == {q[i] : i \in I}
           minusH == [i \in I |-> -h[i]]
           minusF == [x \in Q |-> -f[x]]
<1>1. \A i \in I : minusH[i] = minusF[q[i]] /\ minusH[i] \in Int
  OBVIOUS
<1> HIDE DEF minusH, minusF
<1>2. Cardinality(Units(h, I)) = Cardinality(Units(f, Q))
  BY UnitsReindex
<1>3. Cardinality(Units(minusH, I)) = Cardinality(Units(minusF, Q))
  BY <1>1, UnitsReindex
<1>4. Total(h, I) = Cardinality(Units(h, I)) - Cardinality(Units(minusH, I))
  BY DEF Total, minusH
<1>5. Total(f, Q) = Cardinality(Units(f, Q)) - Cardinality(Units(minusF, Q))
  BY DEF Total, minusF
<1> HIDE DEF Q
<1>6. Total(h, I) = Total(f, Q)
  BY <1>2, <1>3, <1>4, <1>5
<1> QED
  BY <1>6 DEF Q

\* A set that gains or loses a member gains or loses one element.
LEMMA CountChange ==
    ASSUME NEW S, IsFiniteSet(S), NEW T, IsFiniteSet(T), NEW x, S \ {x} = T \ {x}
    PROVE  /\ Cardinality(S) \in Nat /\ Cardinality(T) \in Nat
           /\ x \in S => Cardinality(S) > 0
           /\ Cardinality(T) = Cardinality(S) - (IF x \in S THEN 1 ELSE 0) + (IF x \in T THEN 1 ELSE 0)
<1>1. Cardinality(S) \in Nat /\ Cardinality(T) \in Nat
  BY FS_CardinalityType
<1>2. Cardinality(S \ {x}) = IF x \in S THEN Cardinality(S) - 1 ELSE Cardinality(S)
  BY FS_RemoveElement
<1>3. Cardinality(T \ {x}) = IF x \in T THEN Cardinality(T) - 1 ELSE Cardinality(T)
  BY FS_RemoveElement
<1>4. Cardinality(S \ {x}) = Cardinality(T \ {x})
  BY Zenon
<1>5. x \in S => Cardinality(S) # 0
  BY FS_EmptySet
<1> QED
  BY <1>1, <1>2, <1>3, <1>4, <1>5

=============================================================================
