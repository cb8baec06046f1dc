----------------------------- MODULE SumsProofs -----------------------------
(***************************************************************************)
(* What sums are and how they change, for functions of natural numbers, or *)
(* of integers, on any finite set.                                         *)
(***************************************************************************)
EXTENDS Sums, FiniteSetTheorems, WellFoundedInduction, TLAPS

LEMMA UnitsAre ==
    ASSUME NEW S, NEW f \in [S -> Nat]
    PROVE  /\ Units(f) \subseteq S \X Nat
           /\ \A p \in S, i \in Nat : <<p, i>> \in Units(f) <=> i \in 1 .. f[p]
  BY DEF Units

LEMMA UnitsFinite ==
    ASSUME NEW S, IsFiniteSet(S), NEW f \in [S -> Nat]
    PROVE  IsFiniteSet(Units(f))
<1> DEFINE img == {{p} \X (1 .. f[p]) : p \in S}
           g == [p \in S |-> {p} \X (1 .. f[p])]
<1>1. g \in Surjection(S, img) BY DEF Surjection
<1>2. IsFiniteSet(img) BY <1>1, FS_Surjection
<1>3. ASSUME NEW T \in img PROVE IsFiniteSet(T)
  <2>1. PICK p \in S : T = {p} \X (1 .. f[p]) OBVIOUS
  <2>2. IsFiniteSet(1 .. f[p]) BY FS_Interval
  <2>3. IsFiniteSet({p}) BY FS_Singleton
  <2> QED BY <2>1, <2>2, <2>3, FS_Product
<1>4. IsFiniteSet(UNION img) BY <1>2, <1>3, FS_UNION
<1> QED BY <1>4 DEF Units

(* A sum of finitely many natural numbers is one.                          *)
LEMMA SumNat ==
    ASSUME NEW S, IsFiniteSet(S), NEW f \in [S -> Nat]
    PROVE  Sum(f) \in Nat
  BY UnitsFinite, FS_CardinalityType DEF Sum

(* A larger function has a larger sum.                                     *)
LEMMA SumMonotone ==
    ASSUME NEW S, IsFiniteSet(S), NEW f \in [S -> Nat], NEW g \in [S -> Nat],
           \A p \in S : f[p] <= g[p]
    PROVE  Sum(f) <= Sum(g)
<1>1. Units(f) \subseteq Units(g)
  BY UnitsAre
<1> QED BY <1>1, UnitsFinite, FS_Subset DEF Sum

(* Amounts counted under other names.                                      *)
LEMMA SumRenamed ==
    ASSUME NEW S, NEW T, IsFiniteSet(S), NEW b \in Bijection(S, T),
           NEW f \in [S -> Nat], NEW g \in [T -> Nat],
           \A p \in S : f[p] = g[b[p]]
    PROVE  Sum(f) = Sum(g)
<1> DEFINE h == [x \in Units(f) |-> <<b[x[1]], x[2]>>]
<1>1. /\ b \in [S -> T]
      /\ \A p, q \in S : b[p] = b[q] => p = q
      /\ \A t \in T : \E p \in S : b[p] = t
  BY DEF Bijection, Injection, Surjection, IsInjective
<1>2. ASSUME NEW x \in Units(f)
      PROVE  x[1] \in S /\ x[2] \in Nat /\ x = <<x[1], x[2]>> /\ h[x] \in Units(g)
  <2>1. x[1] \in S /\ x[2] \in Nat /\ x = <<x[1], x[2]>>
    BY UnitsAre
  <2>2. x[2] \in 1 .. g[b[x[1]]] /\ b[x[1]] \in T
    BY <1>1, <2>1, UnitsAre
  <2> QED BY <2>1, <2>2, UnitsAre
<1>3. ASSUME NEW x \in Units(f), NEW y \in Units(f), h[x] = h[y]
      PROVE  x = y
  BY <1>1, <1>2, <1>3
<1>4. ASSUME NEW y \in Units(g) PROVE \E x \in Units(f) : h[x] = y
  <2>1. y[1] \in T /\ y[2] \in Nat /\ y = <<y[1], y[2]>> /\ y[2] \in 1 .. g[y[1]]
    BY UnitsAre
  <2>2. PICK p \in S : b[p] = y[1]
    BY <1>1, <2>1
  <2>3. <<p, y[2]>> \in Units(f)
    BY <2>1, <2>2, UnitsAre
  <2>4. h[<<p, y[2]>>] = y
    BY <2>1, <2>2, <2>3
  <2> QED BY <2>3, <2>4
<1>5. h \in [Units(f) -> Units(g)]
  BY <1>2
<1> HIDE DEF h
<1>6. h \in Bijection(Units(f), Units(g))
  BY <1>3, <1>4, <1>5 DEF Bijection, Injection, Surjection, IsInjective
<1> QED BY <1>6, UnitsFinite, FS_Bijection DEF Sum, ExistsBijection

(* The sum of two functions.                                               *)
LEMMA SumAdded ==
    ASSUME NEW S, IsFiniteSet(S),
           NEW f \in [S -> Nat], NEW g \in [S -> Nat], NEW h \in [S -> Nat],
           \A p \in S : h[p] = f[p] + g[p]
    PROVE  Sum(h) = Sum(f) + Sum(g)
<1> DEFINE V == Units(h) \ Units(f)
           m == [x \in Units(g) |-> <<x[1], x[2] + f[x[1]]>>]
<1>1. ASSUME NEW x \in Units(g)
      PROVE  /\ x[1] \in S /\ x[2] \in Nat /\ x = <<x[1], x[2]>>
             /\ m[x] \in V
  <2>1. /\ x[1] \in S /\ x[2] \in Nat /\ x = <<x[1], x[2]>>
        /\ x[2] \in 1 .. g[x[1]]
    BY UnitsAre
  <2> DEFINE i == x[2] + f[x[1]]
  <2>2. i \in Nat /\ i \in 1 .. h[x[1]] /\ i \notin 1 .. f[x[1]]
    BY <2>1
  <2>3. m[x] = <<x[1], i>> OBVIOUS
  <2> HIDE DEF m, i
  <2> QED BY <2>1, <2>2, <2>3, UnitsAre
<1>2. ASSUME NEW x \in Units(g), NEW y \in Units(g), m[x] = m[y]
      PROVE  x = y
  <2>1. x[1] = y[1] /\ x[2] + f[x[1]] = y[2] + f[y[1]]
    BY <1>2
  <2>2. x[2] \in Nat /\ y[2] \in Nat /\ f[x[1]] \in Nat
    BY <1>1
  <2>3. x[2] = y[2]
    BY <2>1, <2>2
  <2> QED BY <1>1, <2>1, <2>3
<1>3. ASSUME NEW y \in V PROVE \E x \in Units(g) : m[x] = y
  <2>1. /\ y[1] \in S /\ y[2] \in Nat /\ y = <<y[1], y[2]>>
        /\ y[2] \in 1 .. h[y[1]] /\ y[2] \notin 1 .. f[y[1]]
    BY UnitsAre
  <2> DEFINE i == y[2] - f[y[1]]
  <2>2. i \in Nat /\ i \in 1 .. g[y[1]] /\ i + f[y[1]] = y[2]
    BY <2>1
  <2> HIDE DEF i
  <2>3. <<y[1], i>> \in Units(g)
    BY <2>1, <2>2, UnitsAre
  <2>4. m[<<y[1], i>>] = y
    BY <2>1, <2>2, <2>3
  <2> QED BY <2>3, <2>4
<1>4. m \in [Units(g) -> V]
  BY <1>1
<1> HIDE DEF m, V
<1>5. m \in Bijection(Units(g), V)
  BY <1>2, <1>3, <1>4 DEF Bijection, Injection, Surjection, IsInjective
<1>6. Cardinality(V) = Sum(g)
  BY <1>5, UnitsFinite, FS_Bijection DEF Sum, ExistsBijection
<1>7. Units(f) \subseteq Units(h)
  <2>1. \A x \in Units(f) : x = <<x[1], x[2]>> /\ x[1] \in S /\ x[2] \in Nat
    BY UnitsAre
  <2>2. \A p \in S : 1 .. f[p] \subseteq 1 .. h[p]
    OBVIOUS
  <2> SUFFICES ASSUME NEW x \in Units(f) PROVE x \in Units(h)
    OBVIOUS
  <2>3. x = <<x[1], x[2]>> /\ x[1] \in S /\ x[2] \in Nat /\ x[2] \in 1 .. h[x[1]]
    BY <2>1, <2>2, UnitsAre
  <2>4. <<x[1], x[2]>> \in Units(h)
    BY <2>3, UnitsAre
  <2> QED BY <2>3, <2>4
<1>8. Cardinality(V) = Cardinality(Units(h)) - Cardinality(Units(h) \cap Units(f))
  BY UnitsFinite, FS_Difference DEF V
<1>9. Units(h) \cap Units(f) = Units(f)
  BY <1>7
<1>10. Sum(f) \in Nat /\ Sum(g) \in Nat /\ Sum(h) \in Nat
  BY SumNat
<1>11. Cardinality(Units(h)) = Sum(h) /\ Cardinality(Units(h) \cap Units(f)) = Sum(f)
  BY <1>9 DEF Sum
<1> QED BY <1>6, <1>8, <1>10, <1>11

(* A function that is not zero in one place at most.                       *)
LEMMA SumOfOne ==
    ASSUME NEW S, NEW f \in [S -> Nat], NEW q \in S,
           \A p \in S \ {q} : f[p] = 0
    PROVE  Sum(f) = f[q]
<1>1. Units(f) = {q} \X (1 .. f[q])
  <2>1. \A x \in Units(f) : x = <<x[1], x[2]>> /\ x[1] \in S /\ x[2] \in Nat
                            /\ x[2] \in 1 .. f[x[1]]
    BY UnitsAre
  <2>2. \A p \in S \ {q} : \A i \in Nat : i \notin 1 .. f[p]
    OBVIOUS
  <2>3. Units(f) \subseteq {q} \X (1 .. f[q])
    BY <2>1, <2>2
  <2>4. \A i \in 1 .. f[q] : i \in Nat /\ <<q, i>> \in Units(f)
    BY UnitsAre
  <2> QED BY <2>3, <2>4
<1>2. IsFiniteSet({q}) /\ Cardinality({q}) = 1
  BY FS_Singleton
<1>3. IsFiniteSet(1 .. f[q]) /\ Cardinality(1 .. f[q]) = f[q]
  BY FS_Interval
<1>4. Cardinality({q} \X (1 .. f[q])) = Cardinality({q}) * Cardinality(1 .. f[q])
  BY <1>2, <1>3, FS_Product
<1>5. 1 * f[q] = f[q]
  OBVIOUS
<1> QED BY <1>1, <1>2, <1>3, <1>4, <1>5 DEF Sum

LEMMA SumOfZeros ==
    ASSUME NEW S, NEW f \in [S -> Nat], \A p \in S : f[p] = 0
    PROVE  Sum(f) = 0
<1>1. \A p \in S : \A i \in Nat : i \notin 1 .. f[p]
  OBVIOUS
<1>2. Units(f) = {}
  BY <1>1, UnitsAre
<1> QED BY <1>2, FS_EmptySet DEF Sum

(* What is zero outside T need not be counted there.                       *)
LEMMA SumOnSubset ==
    ASSUME NEW S, NEW T \in SUBSET S, NEW f \in [S -> Nat], NEW g \in [T -> Nat],
           \A p \in T : f[p] = g[p], \A p \in S \ T : f[p] = 0
    PROVE  Sum(f) = Sum(g)
<1>1. \A x \in Units(f) : x = <<x[1], x[2]>> /\ x[1] \in S /\ x[2] \in Nat
                          /\ x[2] \in 1 .. f[x[1]]
  BY UnitsAre
<1>2. \A x \in Units(g) : x = <<x[1], x[2]>> /\ x[1] \in T /\ x[2] \in Nat
                          /\ x[2] \in 1 .. g[x[1]]
  BY UnitsAre
<1>3. \A p \in S \ T : \A i \in Nat : i \notin 1 .. f[p]
  OBVIOUS
<1>4. Units(f) \subseteq Units(g)
  BY <1>1, <1>3, UnitsAre
<1>5. Units(g) \subseteq Units(f)
  BY <1>2, UnitsAre
<1>6. Units(f) = Units(g)
  BY <1>4, <1>5
<1> QED BY <1>6 DEF Sum

(* One amount changes.                                                     *)
LEMMA SumChanged ==
    ASSUME NEW S, IsFiniteSet(S), NEW f \in [S -> Nat], NEW g \in [S -> Nat],
           NEW q \in S, \A p \in S \ {q} : f[p] = g[p]
    PROVE  Sum(f) + g[q] = Sum(g) + f[q]
<1> DEFINE z == [p \in S |-> IF p = q THEN 0 ELSE f[p]]
           a == [p \in S |-> IF p = q THEN f[q] ELSE 0]
           b == [p \in S |-> IF p = q THEN g[q] ELSE 0]
<1>1. z \in [S -> Nat] /\ a \in [S -> Nat] /\ b \in [S -> Nat]
  OBVIOUS
<1>2. Sum(a) = f[q] /\ Sum(b) = g[q]
  <2>1. a[q] = f[q] /\ b[q] = g[q] /\ \A p \in S \ {q} : a[p] = 0 /\ b[p] = 0
    OBVIOUS
  <2> HIDE DEF a, b
  <2> QED BY <1>1, <2>1, SumOfOne
<1>3. \A p \in S : f[p] = z[p] + a[p] /\ g[p] = z[p] + b[p]
  OBVIOUS
<1> HIDE DEF z, a, b
<1>4. Sum(f) = Sum(z) + Sum(a)
  BY <1>1, <1>3, SumAdded
<1>5. Sum(g) = Sum(z) + Sum(b)
  BY <1>1, <1>3, SumAdded
<1>6. Sum(z) \in Nat /\ Sum(f) \in Nat /\ Sum(g) \in Nat /\ f[q] \in Nat /\ g[q] \in Nat
  BY <1>1, SumNat
<1> QED BY <1>2, <1>4, <1>5, <1>6

(* All amounts times k: the least k for which it failed would not be 0,    *)
(* and the one before it would fail too.                                   *)
LEMMA SumScaled ==
    ASSUME NEW S, IsFiniteSet(S), NEW f \in [S -> Nat], NEW k \in Nat
    PROVE  Sum([p \in S |-> k * f[p]]) = k * Sum(f)
<1> DEFINE F(n) == [p \in S |-> n * f[p]]
           Bad == {n \in Nat : Sum(F(n)) # n * Sum(f)}
<1>0. Sum(f) \in Nat
  BY SumNat
<1>1. ASSUME NEW n \in Nat PROVE F(n) \in [S -> Nat]
  OBVIOUS
<1>2. Sum(F(0)) = 0 * Sum(f)
  <2>1. \A p \in S : F(0)[p] = 0
    OBVIOUS
  <2>2. F(0) \in [S -> Nat]
    BY <1>1
  <2> HIDE DEF F
  <2>3. Sum(F(0)) = 0
    BY <2>1, <2>2, SumOfZeros
  <2> QED BY <1>0, <2>3
<1>3. ASSUME NEW n \in Nat, Sum(F(n)) = n * Sum(f)
      PROVE  Sum(F(n + 1)) = (n + 1) * Sum(f)
  <2>1. \A p \in S : F(n + 1)[p] = F(n)[p] + f[p]
    <3> SUFFICES ASSUME NEW p \in S PROVE (n + 1) * f[p] = n * f[p] + f[p]
      OBVIOUS
    <3>1. \A x \in Nat : (n + 1) * x = n * x + x
      OBVIOUS
    <3> QED BY <3>1
  <2>2. F(n) \in [S -> Nat] /\ F(n + 1) \in [S -> Nat]
    BY <1>1
  <2> HIDE DEF F
  <2>3. Sum(F(n + 1)) = Sum(F(n)) + Sum(f)
    BY <2>1, <2>2, SumAdded
  <2>4. (n + 1) * Sum(f) = n * Sum(f) + Sum(f)
    BY <1>0
  <2> QED BY <1>3, <2>3, <2>4
<1> HIDE DEF F
<1>4. Bad = {}
  <2> SUFFICES ASSUME Bad # {} PROVE FALSE
    OBVIOUS
  <2>1. PICK n \in Bad : \A j \in Bad : ~(<<j, n>> \in OpToRel(<, Nat))
    BY NatLessThanWellFounded, WFMin
  <2>2. n \in Nat /\ n # 0
    BY <1>2
  <2>3. n - 1 \in Nat /\ (n - 1) + 1 = n
    BY <2>2
  <2>4. n - 1 \notin Bad
    <3>1. n - 1 < n
      BY <2>2
    <3>2. <<n - 1, n>> \in OpToRel(<, Nat)
      BY <2>2, <2>3, <3>1 DEF OpToRel
    <3> HIDE DEF Bad
    <3> QED BY <2>1, <3>2
  <2>5. Sum(F(n - 1)) = (n - 1) * Sum(f)
    BY <2>3, <2>4
  <2>6. Sum(F((n - 1) + 1)) = ((n - 1) + 1) * Sum(f)
    BY <1>3, <2>3, <2>5
  <2> QED BY <2>1, <2>3, <2>6
<1>5. Sum(F(k)) = k * Sum(f)
  BY <1>4
<1> QED BY <1>5 DEF F

(* One amount more.                                                        *)
LEMMA SumExtra ==
    ASSUME NEW S, IsFiniteSet(S), NEW q \in S, NEW T, T = S \ {q},
           NEW g \in [S -> Nat], NEW f \in [T -> Nat], \A p \in T : f[p] = g[p]
    PROVE  Sum(g) = Sum(f) + g[q]
<1> DEFINE h == [p \in S |-> IF p = q THEN 0 ELSE g[p]]
<1>1. /\ h \in [S -> Nat] /\ h[q] = 0
      /\ \A p \in S \ {q} : h[p] = g[p]
      /\ \A p \in T : h[p] = f[p]
  OBVIOUS
<1> HIDE DEF h
<1>2. Sum(h) = Sum(f)
  <2>1. T \in SUBSET S OBVIOUS
  <2>2. \A p \in S \ T : h[p] = 0 BY <1>1
  <2> QED BY <1>1, <2>1, <2>2, SumOnSubset
<1>3. Sum(g) + h[q] = Sum(h) + g[q] BY <1>1, SumChanged
<1>4. Sum(g) \in Nat /\ Sum(h) \in Nat /\ g[q] \in Nat BY <1>1, SumNat
<1> QED BY <1>1, <1>2, <1>3, <1>4

-----------------------------------------------------------------------------
(* Amounts of either sign.                                                 *)
LEMMA SignsType ==
    ASSUME NEW S, NEW f \in [S -> Int]
    PROVE  /\ Received(f) \in [S -> Nat] /\ Paid(f) \in [S -> Nat]
           /\ \A p \in S : /\ f[p] = Received(f)[p] - Paid(f)[p]
                           /\ f[p] >= 0 => Paid(f)[p] = 0
                           /\ f[p] <= 0 => Received(f)[p] = 0
<1>1. \A p \in S : f[p] \in Int OBVIOUS
<1>2. Received(f) \in [S -> Nat] BY <1>1 DEF Received
<1>3. Paid(f) \in [S -> Nat] BY <1>1 DEF Paid
<1>4. \A p \in S : /\ f[p] = Received(f)[p] - Paid(f)[p]
                   /\ f[p] >= 0 => Paid(f)[p] = 0
                   /\ f[p] <= 0 => Received(f)[p] = 0
  BY <1>1 DEF Received, Paid
<1> QED BY <1>2, <1>3, <1>4

LEMMA NetType ==
    ASSUME NEW S, IsFiniteSet(S), NEW f \in [S -> Int]
    PROVE  NetSum(f) \in Int
<1>1. Received(f) \in [S -> Nat] /\ Paid(f) \in [S -> Nat] BY SignsType
<1>2. Sum(Received(f)) \in Nat /\ Sum(Paid(f)) \in Nat BY <1>1, SumNat
<1> QED BY <1>2 DEF NetSum

LEMMA NetOfGains ==
    ASSUME NEW S, IsFiniteSet(S), NEW f \in [S -> Int], \A p \in S : f[p] >= 0
    PROVE  NetSum(f) >= 0
<1>1. /\ Received(f) \in [S -> Nat] /\ Paid(f) \in [S -> Nat]
      /\ \A p \in S : Paid(f)[p] = 0
  BY SignsType
<1>2. Sum(Received(f)) \in Nat BY <1>1, SumNat
<1>3. Sum(Paid(f)) = 0 BY <1>1, SumOfZeros
<1> QED BY <1>2, <1>3 DEF NetSum

LEMMA NetOfZeros ==
    ASSUME NEW S, NEW f \in [S -> Int], \A p \in S : f[p] = 0
    PROVE  NetSum(f) = 0
<1>1. /\ Received(f) \in [S -> Nat] /\ Paid(f) \in [S -> Nat]
      /\ \A p \in S : Received(f)[p] = 0 /\ Paid(f)[p] = 0
  BY SignsType
<1>2. Sum(Received(f)) = 0 BY <1>1, SumOfZeros
<1>3. Sum(Paid(f)) = 0 BY <1>1, SumOfZeros
<1> QED BY <1>2, <1>3 DEF NetSum

LEMMA NetRenamed ==
    ASSUME NEW S, NEW T, IsFiniteSet(S), NEW b \in Bijection(S, T),
           NEW f \in [S -> Int], NEW g \in [T -> Int],
           \A p \in S : f[p] = g[b[p]]
    PROVE  NetSum(f) = NetSum(g)
<1>1. b \in [S -> T] BY DEF Bijection, Injection
<1>2. /\ Received(f) \in [S -> Nat] /\ Paid(f) \in [S -> Nat]
      /\ Received(g) \in [T -> Nat] /\ Paid(g) \in [T -> Nat]
  BY SignsType
<1>3. \A p \in S : Received(f)[p] = Received(g)[b[p]]
  BY <1>1 DEF Received
<1>4. \A p \in S : Paid(f)[p] = Paid(g)[b[p]]
  BY <1>1 DEF Paid
<1>5. Sum(Received(f)) = Sum(Received(g)) BY <1>2, <1>3, SumRenamed
<1>6. Sum(Paid(f)) = Sum(Paid(g)) BY <1>2, <1>4, SumRenamed
<1> QED BY <1>5, <1>6 DEF NetSum

LEMMA NetExtra ==
    ASSUME NEW S, IsFiniteSet(S), NEW q \in S, NEW T, T = S \ {q},
           NEW g \in [S -> Int], NEW f \in [T -> Int], \A p \in T : f[p] = g[p]
    PROVE  NetSum(g) = NetSum(f) + g[q]
<1>1. Received(f) \in [T -> Nat] /\ Paid(f) \in [T -> Nat] BY SignsType
<1>2. /\ Received(g) \in [S -> Nat] /\ Paid(g) \in [S -> Nat]
      /\ g[q] = Received(g)[q] - Paid(g)[q]
  BY SignsType
<1>3. \A p \in T : Received(f)[p] = Received(g)[p] BY DEF Received
<1>4. \A p \in T : Paid(f)[p] = Paid(g)[p] BY DEF Paid
<1>5. Sum(Received(g)) = Sum(Received(f)) + Received(g)[q]
  BY <1>1, <1>2, <1>3, SumExtra
<1>6. Sum(Paid(g)) = Sum(Paid(f)) + Paid(g)[q]
  BY <1>1, <1>2, <1>4, SumExtra
<1>7. IsFiniteSet(T) BY FS_RemoveElement
<1>8. /\ Sum(Received(f)) \in Nat /\ Sum(Paid(f)) \in Nat
      /\ Received(g)[q] \in Nat /\ Paid(g)[q] \in Nat
  BY <1>1, <1>2, <1>7, SumNat
<1> QED BY <1>2, <1>5, <1>6, <1>8 DEF NetSum

(* One amount and the others, those under other names.                     *)
LEMMA NetRest ==
    ASSUME NEW S, NEW T, NEW U, NEW q, NEW b, NEW f, NEW g,
           IsFiniteSet(S), IsFiniteSet(U), q \in S, T = S \ {q}, b \in Bijection(U, T),
           f \in [S -> Int], g \in [U -> Int],
           \A i \in U : g[i] = f[b[i]]
    PROVE  NetSum(f) = f[q] + NetSum(g)
<1> DEFINE h == [i \in T |-> f[i]]
<1>1. h \in [T -> Int] /\ \A i \in T : h[i] = f[i] OBVIOUS
<1>2. b \in [U -> T] BY DEF Bijection, Injection
<1>3. \A i \in U : g[i] = h[b[i]] BY <1>1, <1>2
<1> HIDE DEF h
<1>4. NetSum(g) = NetSum(h) BY <1>1, <1>3, NetRenamed
<1>5. NetSum(f) = NetSum(h) + f[q] BY <1>1, NetExtra
<1>6. NetSum(g) \in Int BY NetType
<1> QED BY <1>4, <1>5, <1>6

(* Amounts in a row: one more at the end, or without the first.            *)
LEMMA NetAppended ==
    ASSUME NEW n \in Nat, NEW f \in [1 .. n -> Int], NEW g \in [1 .. n + 1 -> Int],
           \A i \in 1 .. n : g[i] = f[i]
    PROVE  NetSum(g) = NetSum(f) + g[n + 1]
<1> DEFINE S == 1 .. n + 1
           T == 1 .. n
<1>1. IsFiniteSet(S) BY FS_Interval
<1>2. PICK q : q = n + 1 OBVIOUS
<1>3. PICK F : F = f OBVIOUS
<1>4. PICK G : G = g OBVIOUS
<1>5. q \in S /\ T = S \ {q} BY <1>2
<1>6. G \in [S -> Int] /\ F \in [T -> Int] BY <1>3, <1>4
<1>7. \A i \in T : F[i] = G[i] BY <1>3, <1>4
<1> HIDE DEF S, T
<1>8. NetSum(G) = NetSum(F) + G[q] BY ONLY <1>1, <1>5, <1>6, <1>7, NetExtra
<1> QED BY <1>2, <1>3, <1>4, <1>8

LEMMA NetShifted ==
    ASSUME NEW n \in Nat, NEW f \in [1 .. n + 1 -> Int], NEW g \in [1 .. n -> Int],
           \A i \in 1 .. n : g[i] = f[i + 1]
    PROVE  NetSum(f) = f[1] + NetSum(g)
<1> DEFINE S == 1 .. n + 1
           T == 2 .. n + 1
           U == 1 .. n
           b == [i \in U |-> i + 1]
<1>1. IsFiniteSet(S) /\ IsFiniteSet(U) BY FS_Interval
<1>2. PICK q : q = 1 OBVIOUS
<1>3. b \in Bijection(U, T)
  <2>1. b \in [U -> T] OBVIOUS
  <2>2. \A i, j \in U : b[i] = b[j] => i = j OBVIOUS
  <2>3. \A j \in T : \E i \in U : b[i] = j
    <3>1. \A j \in T : j - 1 \in U /\ b[j - 1] = j OBVIOUS
    <3> QED BY <3>1
  <2> HIDE DEF b, T, U
  <2> QED BY <2>1, <2>2, <2>3 DEF Bijection, Injection, Surjection, IsInjective
<1>4. q \in S /\ T = S \ {q} BY <1>2
<1>5. PICK F : F = f OBVIOUS
<1>6. PICK G : G = g OBVIOUS
<1>7. F \in [S -> Int] /\ G \in [U -> Int] BY <1>5, <1>6
<1>8. \A i \in U : G[i] = F[b[i]] BY <1>5, <1>6
<1> HIDE DEF S, T, U, b
<1>9. NetSum(F) = F[q] + NetSum(G) BY ONLY <1>1, <1>3, <1>4, <1>7, <1>8, NetRest
<1> QED BY <1>2, <1>5, <1>6, <1>9
=============================================================================
