--------------------------- MODULE DataInduction ----------------------------
(***************************************************************************)
(* Induction and recursion over data, done by hand: a nonempty set of      *)
(* naturals has a least element, so that a proof by induction refutes the  *)
(* least counterexample; a function is defined by recursion because the    *)
(* equation has a solution; and sequences can be put one behind the other. *)
(***************************************************************************)
EXTENDS Integers, Sequences, FiniteSets, FiniteSetTheorems, SequenceTheorems, TLAPS

\* A set of naturals that is closed under successor up to a bound in it cannot
\* be: the successor would map it one-to-one into a smaller set.
LEMMA NotClosed ==
    ASSUME NEW t \in Nat, NEW S \in SUBSET (0 .. t), 0 \in S, \A n \in S : n + 1 \in S
    PROVE  FALSE
<1> DEFINE R == S \ {0}
           succ == [n \in S |-> n + 1]
<1>1. IsFiniteSet(S) /\ Cardinality(S) \in Nat
  <2>1. IsFiniteSet(0 .. t) BY FS_Interval
  <2>2. IsFiniteSet(S) BY <2>1, FS_Subset
  <2>3. QED BY <2>2, FS_CardinalityType
<1>2. IsFiniteSet(R) /\ Cardinality(R) = Cardinality(S) - 1 BY <1>1, FS_RemoveElement
<1>3. Cardinality(R) < Cardinality(S) BY <1>1, <1>2
<1>4. \A n \in S : n \in Nat /\ n + 1 # 0 OBVIOUS
<1>5. succ \in [S -> R] BY <1>4
<1>6. \A m, n \in S : m # n => succ[m] # succ[n] BY <1>4
<1> HIDE DEF R, succ
<1>7. QED BY <1>1, <1>2, <1>3, <1>5, <1>6, FS_PigeonHole

\* Every nonempty set of naturals has a least element.
LEMMA LeastNat ==
    ASSUME NEW T \in SUBSET Nat, T # {}
    PROVE  \E x \in T : \A y \in T : x <= y
<1>1. PICK t \in T : TRUE OBVIOUS
<1>2. SUFFICES ASSUME \A x \in T : \E y \in T : y < x PROVE FALSE
  <2>1. \A x, y \in T : ~ (x <= y) => y < x OBVIOUS
  <2>2. QED BY <2>1
<1> DEFINE S == {n \in 0 .. t : \A m \in T : n < m}
<1>3. 0 \in S
  <2>1. \A x \in T : 0 < x
    <3>1. TAKE x \in T
    <3>2. PICK y \in T : y < x BY <1>2
    <3>3. x \in Nat /\ y \in Nat OBVIOUS
    <3>4. QED BY <3>2, <3>3
  <2>2. t \in Nat OBVIOUS
  <2>3. QED BY <2>1, <2>2
<1>4. ASSUME NEW n \in S PROVE n + 1 \in S
  <2>1. n \in Nat /\ t \in Nat /\ n < t BY <1>1
  <2>2. ASSUME NEW m \in T PROVE n + 1 < m
    <3>1. PICK y \in T : y < m BY <1>2
    <3>2. n < y /\ m \in Nat /\ y \in Nat BY <1>4
    <3>3. QED BY <2>1, <3>1, <3>2
  <2>3. n + 1 \in 0 .. t BY <2>1
  <2>4. QED BY <2>2, <2>3
<1>5. t \in Nat /\ S \in SUBSET (0 .. t) OBVIOUS
<1> HIDE DEF S
<1>6. QED BY <1>3, <1>4, <1>5, NotClosed

-----------------------------------------------------------------------------
(* Functions defined by recursion *)

\* A function on the naturals, given by its first value and a step for each number.
Recursion(f, S, a, g) ==
    f \in [Nat -> S] /\ f[0] = a /\ \A i \in Nat : f[i + 1] = g[i][f[i]]

\* There is one for every first value and every step.
LEMMA RecursionExists ==
    ASSUME NEW S, NEW a \in S, NEW g \in [Nat -> [S -> S]]
    PROVE  \E f : Recursion(f, S, a, g)
<1> DEFINE Upto(k, h) == /\ h \in [0 .. k -> S] /\ h[0] = a
                         /\ \A i \in 0 .. k : i < k => h[i + 1] = g[i][h[i]]
           missing == {k \in Nat : \A h \in [0 .. k -> S] : ~ Upto(k, h)}
           at == [k \in Nat |-> CHOOSE h \in [0 .. k -> S] : Upto(k, h)]
           f == [k \in Nat |-> at[k][k]]
<1>1. missing = {}
  <2>1. SUFFICES ASSUME missing # {} PROVE FALSE OBVIOUS
  <2>2. missing \in SUBSET Nat OBVIOUS
  <2>3. PICK k \in missing : \A y \in missing : k <= y
    <3> HIDE DEF missing
    <3>1. QED BY <2>1, <2>2, LeastNat
  <2>4. k # 0
    <3>1. Upto(0, [i \in 0 .. 0 |-> a]) OBVIOUS
    <3>2. [i \in 0 .. 0 |-> a] \in [0 .. 0 -> S] OBVIOUS
    <3>3. QED BY <3>1, <3>2
  <2>5. PICK m \in Nat : k = m + 1 BY <2>4
  <2>6. PICK h \in [0 .. m -> S] : Upto(m, h) BY SMTT(30), <2>3, <2>5
  <2> DEFINE longer == [i \in 0 .. k |-> IF i <= m THEN h[i] ELSE g[m][h[m]]]
  <2>7. h[m] \in S /\ g[m] \in [S -> S] OBVIOUS
  <2>8. g[m][h[m]] \in S BY <2>7
  <2>9. \A i \in 0 .. k : i <= m => h[i] \in S BY <2>5
  <2>10. longer \in [0 .. k -> S] BY <2>8, <2>9
  <2>11. longer[0] = a BY <2>5, <2>6
  <2>12. ASSUME NEW i \in 0 .. k, i < k PROVE longer[i + 1] = g[i][longer[i]]
    <3>1. CASE i = m BY <2>5, <3>1
    <3>2. CASE i < m
      <4>1. i \in 0 .. m /\ i + 1 \in 0 .. m BY <2>5, <3>2
      <4>2. h[i + 1] = g[i][h[i]] BY <2>6, <3>2, <4>1
      <4>3. longer[i + 1] = h[i + 1] /\ longer[i] = h[i] BY <2>5, <4>1
      <4>4. QED BY <4>2, <4>3
    <3>3. QED BY <2>5, <2>12, <3>1, <3>2
  <2>13. Upto(k, longer) BY <2>10, <2>11, <2>12
  <2> HIDE DEF longer, Upto
  <2>14. QED BY <2>3, <2>10, <2>13
<1>2. ASSUME NEW k \in Nat PROVE at[k] \in [0 .. k -> S] /\ Upto(k, at[k])
  <2> HIDE DEF Upto
  <2>1. \E h \in [0 .. k -> S] : Upto(k, h) BY <1>1
  <2>2. QED BY <2>1
<1> HIDE DEF missing, at
\* Two of them agree where both are defined.
<1>3. ASSUME NEW k \in Nat PROVE \A i \in 0 .. k : at[k][i] = at[k + 1][i]
  <2> DEFINE differ == {i \in 0 .. k : at[k][i] # at[k + 1][i]}
  <2>1. SUFFICES ASSUME differ # {} PROVE FALSE OBVIOUS
  <2>2. differ \in SUBSET Nat OBVIOUS
  <2>3. PICK i \in differ : \A y \in differ : i <= y
    <3> HIDE DEF differ
    <3>1. QED BY <2>1, <2>2, LeastNat
  <2>4. Upto(k, at[k]) /\ Upto(k + 1, at[k + 1]) BY <1>2
  <2>5. i # 0 BY <2>4
  <2>6. PICK j \in Nat : i = j + 1 BY <2>2, <2>5
  <2>7. j \in 0 .. k /\ j < k /\ j \in 0 .. k + 1 BY <2>6
  <2>8. at[k][j] = at[k + 1][j]
    <3>1. j \notin differ BY <2>3, <2>6
    <3>2. QED BY <2>7, <3>1
  <2>9. at[k][j + 1] = g[j][at[k][j]] /\ at[k + 1][j + 1] = g[j][at[k + 1][j]]
    BY <2>4, <2>7
  <2>10. QED BY <2>3, <2>6, <2>8, <2>9
<1>4. f \in [Nat -> S] BY <1>2
<1>5. f[0] = a BY <1>2
<1>6. ASSUME NEW i \in Nat PROVE f[i + 1] = g[i][f[i]]
  <2>1. Upto(i + 1, at[i + 1]) BY <1>2
  <2>2. at[i + 1][i + 1] = g[i][at[i + 1][i]] BY SMTT(30), <2>1
  <2>3. at[i][i] = at[i + 1][i] BY <1>3
  <2>4. f[i + 1] = at[i + 1][i + 1] /\ f[i] = at[i][i] OBVIOUS
  <2>5. QED BY <2>2, <2>3, <2>4
<1> HIDE DEF f
<1>7. QED BY <1>4, <1>5, <1>6 DEF Recursion

\* A chain: each element is found from the one before it.
IsChain(f, S, first, next) ==
    /\ f \in [Nat -> S] /\ f[0] = first
    /\ \A i \in Nat : f[i + 1] = next[f[i]]

\* There is one from every first element.
LEMMA ChainExists ==
    ASSUME NEW S, NEW first \in S, NEW next \in [S -> S]
    PROVE  \E f : IsChain(f, S, first, next)
<1> DEFINE g == [i \in Nat |-> next]
<1>1. g \in [Nat -> [S -> S]] /\ \A i \in Nat : g[i] = next OBVIOUS
<1> HIDE DEF g
<1>2. PICK f : Recursion(f, S, first, g) BY <1>1, RecursionExists
<1>3. IsChain(f, S, first, next) BY <1>1, <1>2 DEF Recursion, IsChain
<1>4. QED BY <1>3

-----------------------------------------------------------------------------
(* Sequences *)

\* A function on the first naturals is a sequence.
LEMMA FunctionIsSeq ==
    ASSUME NEW T, NEW n \in Nat, NEW f \in [1 .. n -> T]
    PROVE  f \in Seq(T) /\ Len(f) = n
  OBVIOUS

\* Two sequences, one behind the other.
LEMMA ConcatParts ==
    ASSUME NEW T, NEW s \in Seq(T), NEW t \in Seq(T)
    PROVE  /\ s \o t \in Seq(T) /\ Len(s) \in Nat /\ Len(t) \in Nat
           /\ Len(s \o t) = Len(s) + Len(t)
           /\ \A i \in 1 .. Len(s) : i \in 1 .. Len(s \o t) /\ (s \o t)[i] = s[i]
           /\ \A i \in 1 .. Len(t) :
                 Len(s) + i \in 1 .. Len(s \o t) /\ (s \o t)[Len(s) + i] = t[i]
<1>1. Len(s) \in Nat /\ Len(t) \in Nat BY LenProperties
<1>2. /\ s \o t \in Seq(T) /\ Len(s \o t) = Len(s) + Len(t)
      /\ \A i \in 1 .. Len(s) + Len(t) :
            (s \o t)[i] = IF i <= Len(s) THEN s[i] ELSE t[i - Len(s)]
  BY ConcatProperties
<1>3. PICK a \in Nat, b \in Nat : a = Len(s) /\ b = Len(t) BY <1>1
<1>4. ASSUME NEW i \in 1 .. a PROVE i \in 1 .. a + b /\ i <= a BY <1>3
<1>5. ASSUME NEW i \in 1 .. b PROVE a + i \in 1 .. a + b /\ ~ (a + i <= a) /\ (a + i) - a = i
  BY <1>3
<1>6. QED BY <1>1, <1>2, <1>3, <1>4, <1>5

\* The concatenations of the first sequences of a list.
IsConcats(c, ss, n) == c = [i \in 1 .. n |-> IF i = 1 THEN ss[i] ELSE c[i - 1] \o ss[i]]

\* They exist.
LEMMA ConcatsExist ==
    ASSUME NEW T, NEW n \in Nat, n > 0, NEW ss, \A i \in 1 .. n : ss[i] \in Seq(T)
    PROVE  \E c : IsConcats(c, ss, n)
<1> DEFINE g == [i \in Nat |-> [x \in Seq(T) |->
                    IF i + 2 \in 1 .. n THEN x \o ss[i + 2] ELSE x]]
<1>1. ASSUME NEW i \in Nat, NEW x \in Seq(T)
      PROVE  (IF i + 2 \in 1 .. n THEN x \o ss[i + 2] ELSE x) \in Seq(T)
  <2>1. CASE i + 2 \in 1 .. n
    <3>1. ss[i + 2] \in Seq(T) BY <2>1
    <3>2. x \o ss[i + 2] \in Seq(T) BY <3>1, ConcatProperties
    <3>3. QED BY <2>1, <3>2
  <2>2. QED BY <2>1
<1>2. g \in [Nat -> [Seq(T) -> Seq(T)]]
  <2>1. \A i \in Nat : g[i] \in [Seq(T) -> Seq(T)] BY <1>1
  <2>2. QED BY <2>1
<1>3. ss[1] \in Seq(T)
  <2>1. 1 \in 1 .. n OBVIOUS
  <2>2. QED BY <2>1
<1>4. ASSUME NEW x \in Seq(T), NEW i \in Nat, i + 2 \in 1 .. n PROVE g[i][x] = x \o ss[i + 2]
  BY <1>4
<1> HIDE DEF g
<1>5. PICK f : Recursion(f, Seq(T), ss[1], g) BY <1>2, <1>3, RecursionExists
<1>6. f \in [Nat -> Seq(T)] /\ f[0] = ss[1] /\ \A i \in Nat : f[i + 1] = g[i][f[i]]
  BY <1>5 DEF Recursion
<1> DEFINE c == [i \in 1 .. n |-> f[i - 1]]
<1>7. ASSUME NEW i \in 1 .. n PROVE c[i] = IF i = 1 THEN ss[i] ELSE c[i - 1] \o ss[i]
  <2>1. CASE i = 1
    <3>1. c[1] = f[0] BY <2>1
    <3>2. QED BY <1>6, <2>1, <3>1
  <2>2. CASE i # 1
    <3>1. PICK k \in Nat : i = k + 2 BY <2>2
    <3>2. i - 1 \in 1 .. n /\ i - 1 = k + 1 /\ (i - 1) - 1 = k BY <2>2, <3>1
    <3>3. f[k + 1] = g[k][f[k]] /\ f[k] \in Seq(T) BY <1>6
    <3>4. g[k][f[k]] = f[k] \o ss[k + 2] BY <1>4, <3>1, <3>3
    <3>5. c[i] = f[k + 1] /\ c[i - 1] = f[k] BY <3>2
    <3>6. QED BY <2>2, <3>1, <3>3, <3>4, <3>5
  <2>3. QED BY <2>1, <2>2
<1>8. IsConcats(c, ss, n) BY <1>7 DEF IsConcats
<1> HIDE DEF c
<1>9. QED BY <1>8

\* A sequence that has those of a list one behind the other: the i-th comes after
\* the first at[i] elements.
Stacked(whole, at, ss, n, T) ==
    /\ at \in [1 .. n + 1 -> Nat] /\ at[1] = 0
    /\ \A i \in 1 .. n : at[i + 1] = at[i] + Len(ss[i])
    /\ whole \in Seq(T) /\ Len(whole) = at[n + 1]
    /\ \A i \in 1 .. n : \A j \in 1 .. Len(ss[i]) : whole[at[i] + j] = ss[i][j]

\* The last concatenation has them all.
LEMMA ConcatsStacked ==
    ASSUME NEW T, NEW n \in Nat, n > 0, NEW ss, \A i \in 1 .. n : ss[i] \in Seq(T),
           NEW c, IsConcats(c, ss, n)
    PROVE  \E at : Stacked(c[n], at, ss, n, T)
<1> DEFINE at == [i \in 1 .. n + 1 |-> IF i = 1 THEN 0 ELSE Len(c[i - 1])]
           Placed(i, j) == \A m \in 1 .. Len(ss[j]) :
                              at[j] + m \in 1 .. Len(c[i]) /\ c[i][at[j] + m] = ss[j][m]
           Good(i) == /\ c[i] \in Seq(T) /\ Len(c[i]) = at[i] + Len(ss[i]) /\ at[i] \in Nat
                      /\ \A j \in 1 .. i : Placed(i, j)
           bad == {i \in 1 .. n : ~ Good(i)}
<1>0. \A i \in 1 .. n : c[i] = IF i = 1 THEN ss[i] ELSE c[i - 1] \o ss[i]
  BY DEF IsConcats
<1>1. \A i \in 1 .. n : Good(i)
  <2>1. SUFFICES ASSUME bad # {} PROVE FALSE
    <3> HIDE DEF Good
    <3>1. QED OBVIOUS
  <2>2. PICK i \in bad : \A y \in bad : i <= y
    <3>1. bad \in SUBSET Nat OBVIOUS
    <3> HIDE DEF bad
    <3>2. QED BY <2>1, <3>1, LeastNat
  <2>3. i \in 1 .. n /\ ~ Good(i)
    <3> HIDE DEF Good
    <3>1. QED OBVIOUS
  <2>4. ss[i] \in Seq(T) BY <2>3
  <2>5. CASE i = 1
    <3>1. c[1] = ss[1] /\ at[1] = 0 BY <1>0, <2>3, <2>5
    <3>2. PICK s \in Seq(T) : s = ss[1] BY <2>4, <2>5
    <3>3. Len(s) \in Nat BY LenProperties
    <3>4. \A m \in 1 .. Len(s) : 0 + m = m BY <3>3
    <3>5. c[1] = s /\ Len(c[1]) = 0 + Len(s) BY <3>1, <3>2, <3>3
    <3>6. Placed(1, 1)
      <4> HIDE DEF at, bad
      <4>1. QED BY <3>1, <3>2, <3>4
    <3>7. \A j \in 1 .. 1 : j = 1 OBVIOUS
    <3> HIDE DEF at, Placed, bad
    <3>8. Good(1) BY <3>1, <3>2, <3>5, <3>6, <3>7
    <3> HIDE DEF Good
    <3>9. QED BY <2>3, <2>5, <3>8
  <2>6. CASE i # 1
    <3>1. PICK k \in 1 .. n : i = k + 1
      <4>1. i - 1 \in 1 .. n BY <2>3, <2>6
      <4>2. QED BY <2>3, <4>1
    <3>2. Good(k)
      <4>1. ~ (i <= k) BY <3>1
      <4>2. k \notin bad BY <2>2, <4>1
      <4> HIDE DEF Good
      <4>3. QED BY <4>2
    <3>3. c[i] = c[k] \o ss[i] /\ at[i] = Len(c[k])
      <4>1. i # 1 /\ i - 1 = k /\ i \in 1 .. n + 1 BY <2>3, <3>1
      <4> HIDE DEF Good
      <4>2. QED BY <1>0, <2>3, <4>1
    <3>4. PICK s \in Seq(T), t \in Seq(T) : s = c[k] /\ t = ss[i] BY <2>4, <3>2
    <3> HIDE DEF at, bad
    <3>5. /\ s \o t \in Seq(T) /\ Len(s) \in Nat /\ Len(s \o t) = Len(s) + Len(t)
          /\ \A m \in 1 .. Len(s) : m \in 1 .. Len(s \o t) /\ (s \o t)[m] = s[m]
          /\ \A m \in 1 .. Len(t) :
                Len(s) + m \in 1 .. Len(s \o t) /\ (s \o t)[Len(s) + m] = t[m]
      BY ConcatParts
    <3>6. c[i] = s \o t /\ at[i] = Len(s) BY <3>3, <3>4
    <3>7. Placed(i, i) BY <3>4, <3>5, <3>6
    <3>8. ASSUME NEW j \in 1 .. k PROVE Placed(i, j)
      <4>1. Placed(k, j) BY <3>2
      <4>2. \A m \in 1 .. Len(ss[j]) : at[j] + m \in 1 .. Len(s) /\ s[at[j] + m] = ss[j][m]
        BY <3>4, <4>1
      <4>3. QED BY <3>5, <3>6, <4>2
    <3>9. \A j \in 1 .. i : j = i \/ j \in 1 .. k BY <3>1
    <3>10. Good(i)
      <4> HIDE DEF Placed
      <4>1. \A j \in 1 .. i : Placed(i, j) BY <3>7, <3>8, <3>9
      <4>2. QED BY <3>4, <3>5, <3>6, <4>1
    <3> HIDE DEF Good
    <3>11. QED BY <2>3, <3>10
  <2>7. QED BY <2>5, <2>6
<1>2. at[1] = 0 BY 1 \in 1 .. n + 1
<1>3. ASSUME NEW i \in 1 .. n
      PROVE  at[i] \in Nat /\ at[i + 1] \in Nat /\ at[i + 1] = at[i] + Len(ss[i])
  <2>1. i + 1 \in 1 .. n + 1 /\ i + 1 # 1 /\ (i + 1) - 1 = i OBVIOUS
  <2>2. at[i + 1] = Len(c[i]) BY <2>1
  <2>3. Good(i) BY <1>1
  <2> HIDE DEF at, Placed
  <2>4. QED BY <2>2, <2>3, LenProperties
<1>4. at \in [1 .. n + 1 -> Nat]
  <2>1. at = [i \in 1 .. n + 1 |-> at[i]] OBVIOUS
  <2> HIDE DEF at
  <2>2. ASSUME NEW i \in 1 .. n + 1 PROVE at[i] \in Nat
    <3>1. CASE i \in 1 .. n BY <1>3, <3>1
    <3>2. CASE i = n + 1
      <4>1. n \in 1 .. n OBVIOUS
      <4>2. QED BY <1>3, <3>2, <4>1
    <3>3. QED BY <3>1, <3>2
  <2>3. QED BY <2>1, <2>2
<1>5. n \in 1 .. n /\ Good(n)
  <2>1. n \in 1 .. n OBVIOUS
  <2> HIDE DEF Good
  <2>2. QED BY <1>1, <2>1
<1> HIDE DEF at
<1>6. c[n] \in Seq(T) /\ Len(c[n]) = at[n + 1] BY <1>3, <1>5
<1>7. \A i \in 1 .. n : \A j \in 1 .. Len(ss[i]) : c[n][at[i] + j] = ss[i][j] BY <1>5
<1> HIDE DEF Good, Placed
<1>8. Stacked(c[n], at, ss, n, T) BY <1>2, <1>3, <1>4, <1>6, <1>7 DEF Stacked
<1>9. QED BY <1>8
=============================================================================
