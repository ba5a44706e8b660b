----------------------------- MODULE SetProofs -----------------------------
(***************************************************************************)
(* Facts about finite sets that the proofs about amounts need: what the    *)
(* sum of a function over a finite set is, and how it changes with the     *)
(* function and with the set. MapThenSumSet is a fold, a recursive         *)
(* function chosen by CHOOSE; LeastSubset takes the place of an induction: *)
(* among the subsets for which a claim fails there would be one that has   *)
(* no other below it.                                                      *)
(***************************************************************************)
EXTENDS FiniteSetsExt, FiniteSetTheorems, SequenceTheorems, WellFoundedInduction, TLAPS

\* The element the fold takes out of a set first.
Pick(s) == CHOOSE x \in s : TRUE

\* Among some subsets of a finite set one has no other of them below it.
LEMMA LeastSubset ==
    ASSUME NEW S, IsFiniteSet(S), NEW C \in SUBSET (SUBSET S), C # {}
    PROVE  \E s \in C : \A t \in C : t \subseteq s => t = s
<1>1. SUBSET S = FiniteSubsetsOf(S)
  BY FS_FiniteSubsetsOfFinite
<1>2. \E s \in C : \A t \in C : ~ (<<t, s>> \in StrictSubsetOrdering(S))
  BY <1>1, FS_StrictSubsetOrderingWellFounded, WFMin
<1> QED
  BY <1>2 DEF StrictSubsetOrdering

\* The summands are integers.
Numbers(f, s) == \A x \in s : f[x] \in Int

\* g adds up f over every subset of s.
Adds(g, f, s) ==
    \A t \in SUBSET s : g[t] = IF t = {} THEN 0 ELSE f[Pick(t)] + g[t \ {Pick(t)}]

LEMMA PickIn == \A s : s # {} => Pick(s) \in s
BY DEF Pick

\* All that add up f agree.
LEMMA AddsAlike ==
    ASSUME NEW S, IsFiniteSet(S), NEW f, NEW s \in SUBSET S, NEW u \in SUBSET S,
           NEW g1, NEW g2, Adds(g1, f, s), Adds(g2, f, u)
    PROVE  \A t \in SUBSET (s \cap u) : g1[t] = g2[t]
<1> DEFINE C == {t \in SUBSET (s \cap u) : g1[t] # g2[t]}
<1> SUFFICES ASSUME C # {} PROVE FALSE
  OBVIOUS
<1>1. PICK t \in C : \A v \in C : v \subseteq t => v = t
  <2>1. C \in SUBSET (SUBSET S)
    OBVIOUS
  <2> HIDE DEF C
  <2> QED
    BY <2>1, LeastSubset
<1>2. t # {}
  BY DEF Adds
<1>3. Pick(t) \in t
  BY <1>2, PickIn
<1>4. t \ {Pick(t)} \subseteq t /\ t \ {Pick(t)} # t /\ t \ {Pick(t)} \in SUBSET (s \cap u)
  BY <1>3
<1>5. g1[t \ {Pick(t)}] = g2[t \ {Pick(t)}]
  BY <1>1, <1>4
<1>6. /\ g1[t] = f[Pick(t)] + g1[t \ {Pick(t)}] /\ g2[t] = f[Pick(t)] + g2[t \ {Pick(t)}]
  BY <1>2 DEF Adds
<1> QED
  BY <1>3, <1>5, <1>6

\* One that adds up over s also adds up over a subset of it.
LEMMA AddsBelow ==
    ASSUME NEW S, IsFiniteSet(S), NEW f, NEW s \in SUBSET S, NEW u \in SUBSET S, u \subseteq s,
           NEW g1, NEW g2, Adds(g1, f, s), Adds(g2, f, u)
    PROVE  g1[u] = g2[u]
<1>1. u \in SUBSET (s \cap u)
  OBVIOUS
<1> QED
  BY <1>1, AddsAlike

\* There is a function that adds up f over every subset of a finite set.
LEMMA AddsExists ==
    ASSUME NEW S, IsFiniteSet(S), NEW f, Numbers(f, S)
    PROVE  \E g \in [SUBSET S -> Int] : Adds(g, f, S)
<1> DEFINE C == {s \in SUBSET S : ~ \E g \in [SUBSET s -> Int] : Adds(g, f, s)}
<1> SUFFICES ASSUME C # {} PROVE FALSE
  OBVIOUS
<1>1. PICK s \in C : \A v \in C : v \subseteq s => v = s
  <2>1. C \in SUBSET (SUBSET S)
    OBVIOUS
  <2> HIDE DEF C
  <2> QED
    BY <2>1, LeastSubset
<1>2. \A t \in SUBSET s : t # s => \E g \in [SUBSET t -> Int] : Adds(g, f, t)
  BY <1>1
<1> DEFINE G == [t \in SUBSET s |-> CHOOSE g \in [SUBSET t -> Int] : Adds(g, f, t)]
<1>3. \A t \in SUBSET s : t # s => G[t] \in [SUBSET t -> Int] /\ Adds(G[t], f, t)
  BY <1>2
<1>4. CASE s = {}
  <2>1. Adds([t \in SUBSET s |-> 0], f, s)
    BY <1>4 DEF Adds
  <2> QED
    BY <2>1
<1>5. CASE s # {}
  <2> DEFINE r == s \ {Pick(s)}
             h == [t \in SUBSET s |-> IF t = s THEN f[Pick(s)] + G[r][r] ELSE G[t][t]]
  <2> HIDE DEF G
  <2>1. Pick(s) \in s /\ f[Pick(s)] \in Int /\ r \in SUBSET s /\ r # s
    BY <1>5, PickIn DEF Numbers
  <2>2. ASSUME NEW t \in SUBSET s, t # s PROVE G[t][t] \in Int
    BY <1>3, <2>2, ZenonT(60) DEF Adds
  <2>3. h \in [SUBSET s -> Int]
    <3>1. G[r][r] \in Int
      BY <2>1, <2>2
    <3>2. f[Pick(s)] + G[r][r] \in Int
      BY <2>1, <3>1
    <3> QED
      BY <2>2, <3>2
  <2>4. ASSUME NEW t \in SUBSET s
        PROVE  h[t] = IF t = {} THEN 0 ELSE f[Pick(t)] + h[t \ {Pick(t)}]
    <3>1. CASE t = s
      BY <1>5, <2>1, <3>1
    <3>2. CASE t # s
      <4>1. CASE t = {}
        <5>1. G[t][t] = 0
          BY <1>3, <3>2, <4>1 DEF Adds
        <5> QED
          BY <3>2, <4>1, <5>1
      <4>2. CASE t # {}
        <5> DEFINE v == t \ {Pick(t)}
        <5>1. Pick(t) \in t /\ v \in SUBSET t /\ v # s /\ v \in SUBSET s
          BY <4>2, <3>2, PickIn
        <5>2. Adds(G[t], f, t) /\ Adds(G[v], f, v)
          BY <1>3, <3>2, <5>1
        <5>3. G[t][t] = f[Pick(t)] + G[t][v]
          BY <4>2, <5>2 DEF Adds
        <5>4. G[t][v] = G[v][v]
          <6>1. v \subseteq t /\ t \in SUBSET S /\ v \in SUBSET S
            BY <5>1
          <6> HIDE DEF v, h, C
          <6> QED
            BY <5>2, <6>1, AddsBelow
        <5>5. h[t] = G[t][t] /\ h[v] = G[v][v]
          BY <3>2, <5>1
        <5> QED
          BY <4>2, <5>3, <5>4, <5>5
      <4> QED
        BY <4>1, <4>2
    <3> QED
      BY <3>1, <3>2
  <2>5. Adds(h, f, s)
    <3> HIDE DEF h
    <3> QED
      BY <2>3, <2>4 DEF Adds
  <2> HIDE DEF h
  <2> QED
    BY <2>3, <2>5
<1> QED
  BY <1>4, <1>5

\* The sum of f over S; whatever adds up f gives it.
SumOf(f, S) == MapThenSumSet(LAMBDA x : f[x], S)

LEMMA SumIs ==
    ASSUME NEW S, IsFiniteSet(S), NEW f, Numbers(f, S), NEW g, Adds(g, f, S)
    PROVE  SumOf(f, S) = g[S]
<1> DEFINE Iter(k) == k = [s \in SUBSET S |-> IF s = {} THEN 0
                              ELSE LET x == CHOOSE x \in s : TRUE IN f[x] + k[s \ {x}]]
           it == CHOOSE k : Iter(k)
<1>1. \E k : Iter(k)
  <2>1. PICK k \in [SUBSET S -> Int] : Adds(k, f, S)
    BY AddsExists
  <2>2. Iter(k)
    BY <2>1 DEF Adds, Pick
  <2> HIDE DEF Iter
  <2> QED
    BY <2>2
<1>2. Iter(it)
  <2> HIDE DEF Iter
  <2> QED
    BY <1>1
<1>3. SumOf(f, S) = it[S]
  BY DEF SumOf, MapThenSumSet, MapThenFoldSet
<1>4. Adds(it, f, S)
  BY <1>2, ZenonT(60) DEF Adds, Pick
<1>5. it[S] = g[S]
  <2>1. S \in SUBSET S /\ S \in SUBSET (S \cap S)
    OBVIOUS
  <2> HIDE DEF it
  <2> QED
    BY <1>4, <2>1, AddsAlike
<1> QED
  BY <1>3, <1>5

SumsUp(g, f, S) ==
    g \in [SUBSET S -> Int] /\ Adds(g, f, S) /\ \A s \in SUBSET S : SumOf(f, s) = g[s]

\* A sum is an integer, and there is a function that adds it up.
LEMMA SumAdds ==
    ASSUME NEW S, IsFiniteSet(S), NEW f, Numbers(f, S)
    PROVE  \E g : SumsUp(g, f, S)
<1>1. PICK g \in [SUBSET S -> Int] : Adds(g, f, S)
  BY AddsExists
<1>2. ASSUME NEW s \in SUBSET S PROVE SumOf(f, s) = g[s]
  <2>1. IsFiniteSet(s) /\ Adds(g, f, s) /\ Numbers(f, s)
    BY <1>1, FS_Subset DEF Adds, Numbers
  <2> QED
    BY <2>1, SumIs
<1> QED
  BY <1>1, <1>2 DEF SumsUp

LEMMA SumTyped ==
    ASSUME NEW S, IsFiniteSet(S), NEW f, Numbers(f, S)
    PROVE  SumOf(f, S) \in Int /\ (S = {} => SumOf(f, S) = 0)
<1>1. PICK g : SumsUp(g, f, S)
  BY SumAdds
<1> QED
  BY <1>1 DEF Adds, SumsUp

LEMMA SumPicked ==
    ASSUME NEW S, IsFiniteSet(S), NEW f, Numbers(f, S), S # {}
    PROVE  SumOf(f, S) = f[Pick(S)] + SumOf(f, S \ {Pick(S)})
<1>1. PICK g : SumsUp(g, f, S)
  BY SumAdds
<1>2. g[S] = f[Pick(S)] + g[S \ {Pick(S)}]
  BY <1>1 DEF Adds, SumsUp
<1> QED
  BY <1>1, <1>2 DEF SumsUp

\* Any element can be taken out of a sum.
LEMMA SumTake ==
    ASSUME NEW S, IsFiniteSet(S), NEW f, Numbers(f, S), NEW x \in S
    PROVE  SumOf(f, S) = f[x] + SumOf(f, S \ {x})
<1> DEFINE C == {s \in SUBSET S : \E y \in s : SumOf(f, s) # f[y] + SumOf(f, s \ {y})}
<1> SUFFICES ASSUME C # {} PROVE FALSE
  OBVIOUS
<1>1. PICK s \in C : \A v \in C : v \subseteq s => v = s
  <2>1. C \in SUBSET (SUBSET S)
    OBVIOUS
  <2> HIDE DEF C
  <2> QED
    BY <2>1, LeastSubset
<1>2. PICK y \in s : SumOf(f, s) # f[y] + SumOf(f, s \ {y})
  BY <1>1
<1>3. s \in SUBSET S /\ s # {} /\ IsFiniteSet(s)
  BY <1>1, <1>2, FS_Subset
<1> DEFINE z == Pick(s)
<1>4. z \in s /\ SumOf(f, s) = f[z] + SumOf(f, s \ {z})
  <2>1. Numbers(f, s)
    BY <1>3 DEF Numbers
  <2> QED
    BY <1>3, <2>1, PickIn, SumPicked
<1> HIDE DEF z
<1>5. z # y
  BY <1>2, <1>4
<1>6. ASSUME NEW v \in SUBSET s, v # s, NEW w \in v PROVE SumOf(f, v) = f[w] + SumOf(f, v \ {w})
  BY <1>1, <1>6
<1>7. SumOf(f, s \ {z}) = f[y] + SumOf(f, (s \ {z}) \ {y})
  BY <1>4, <1>5, <1>6
<1>8. SumOf(f, s \ {y}) = f[z] + SumOf(f, (s \ {y}) \ {z})
  BY <1>2, <1>4, <1>5, <1>6
<1>9. (s \ {y}) \ {z} = (s \ {z}) \ {y}
  OBVIOUS
<1>10. f[y] \in Int /\ f[z] \in Int /\ SumOf(f, (s \ {z}) \ {y}) \in Int
  <2>1. IsFiniteSet((s \ {z}) \ {y}) /\ Numbers(f, (s \ {z}) \ {y})
    BY <1>3, FS_Subset DEF Numbers
  <2>2. SumOf(f, (s \ {z}) \ {y}) \in Int
    BY <2>1, SumTyped
  <2> QED
    BY <1>3, <1>4, <2>2 DEF Numbers
<1> DEFINE r == SumOf(f, (s \ {z}) \ {y})
           p == f[y]
           q == f[z]
<1>11. /\ SumOf(f, s) = q + (p + r) /\ SumOf(f, s) # p + (q + r)
       /\ p \in Int /\ q \in Int /\ r \in Int
  BY <1>2, <1>4, <1>7, <1>8, <1>9, <1>10
<1> HIDE DEF p, q, r
<1> QED
  BY <1>11

\* A sum depends on the summands only.
LEMMA SumAlike ==
    ASSUME NEW S, IsFiniteSet(S), NEW f, NEW h, Numbers(f, S),
           \A x \in S : h[x] = f[x]
    PROVE  SumOf(f, S) = SumOf(h, S)
<1>1. PICK g1 : SumsUp(g1, f, S)
  BY SumAdds
<1>2. PICK g2 : SumsUp(g2, h, S)
  <2>1. Numbers(h, S)
    BY DEF Numbers
  <2> QED
    BY <2>1, SumAdds
<1>3. S \in SUBSET S /\ S \in SUBSET (S \cap S)
  OBVIOUS
<1>4. g1[S] = g2[S]
  <2>1. Adds(g2, f, S)
    <3>1. \A t \in SUBSET S : t # {} => f[Pick(t)] = h[Pick(t)]
      BY PickIn
    <3> QED
      BY <1>2, <3>1 DEF SumsUp, Adds
  <2>2. \A t \in SUBSET (S \cap S) : g1[t] = g2[t]
    BY <1>1, <1>3, <2>1, AddsAlike DEF SumsUp
  <2> QED
    BY <1>3, <2>2
<1> QED
  BY <1>1, <1>2, <1>3, <1>4 DEF SumsUp

\* One summand changes.
LEMMA SumChange ==
    ASSUME NEW S, IsFiniteSet(S), NEW f, NEW h, NEW j \in S, Numbers(f, S), Numbers(h, S),
           \A x \in S \ {j} : h[x] = f[x]
    PROVE  SumOf(h, S) = SumOf(f, S) + h[j] - f[j]
<1>1. SumOf(f, S) = f[j] + SumOf(f, S \ {j}) /\ SumOf(h, S) = h[j] + SumOf(h, S \ {j})
  BY SumTake
<1>2. IsFiniteSet(S \ {j}) /\ Numbers(f, S \ {j})
  BY FS_Subset DEF Numbers
<1>3. SumOf(f, S \ {j}) = SumOf(h, S \ {j}) /\ SumOf(f, S \ {j}) \in Int
  BY <1>2, SumAlike, SumTyped
<1> QED
  BY <1>1, <1>3 DEF Numbers

\* What two members change, the sum changes.
LEMMA SumMoves ==
    ASSUME NEW S, IsFiniteSet(S), NEW f, NEW h, NEW x \in S, NEW y \in S, x # y, Numbers(f, S), Numbers(h, S),
           \A z \in S : z = x \/ z = y \/ h[z] = f[z]
    PROVE  SumOf(h, S) = SumOf(f, S) + (h[x] - f[x]) + (h[y] - f[y])
<1> DEFINE m == [z \in S |-> IF z = x THEN h[x] ELSE f[z]]
<1>1. Numbers(m, S) /\ m[x] = h[x] /\ m[y] = f[y]
  BY DEF Numbers
<1>2. /\ \A z \in S \ {x} : m[z] = f[z]
      /\ \A z \in S \ {y} : h[z] = m[z]
  OBVIOUS
<1> HIDE DEF m
<1>3. SumOf(m, S) = SumOf(f, S) + m[x] - f[x]
  BY <1>1, <1>2, SumChange
<1>4. SumOf(h, S) = SumOf(m, S) + h[y] - m[y]
  BY <1>1, <1>2, SumChange
<1>5. /\ SumOf(f, S) \in Int /\ SumOf(m, S) \in Int /\ SumOf(h, S) \in Int
      /\ f[x] \in Int /\ f[y] \in Int /\ h[x] \in Int /\ h[y] \in Int
  <2>1. f[x] \in Int /\ f[y] \in Int /\ h[x] \in Int /\ h[y] \in Int
    BY DEF Numbers
  <2> QED
    BY <1>1, <2>1, SumTyped
<1> QED
  BY <1>1, <1>3, <1>4, <1>5

\* Zeros do not count.
LEMMA SumRest ==
    ASSUME NEW S, IsFiniteSet(S), NEW f, Numbers(f, S), NEW T \in SUBSET S,
           \A x \in S \ T : f[x] = 0
    PROVE  SumOf(f, S) = SumOf(f, T)
<1> DEFINE C == {s \in SUBSET S : T \subseteq s /\ SumOf(f, s) # SumOf(f, T)}
<1> SUFFICES ASSUME C # {} PROVE FALSE
  OBVIOUS
<1>1. PICK s \in C : \A v \in C : v \subseteq s => v = s
  <2>1. C \in SUBSET (SUBSET S)
    OBVIOUS
  <2> HIDE DEF C
  <2> QED
    BY <2>1, LeastSubset
<1>2. PICK x \in s : x \notin T
  <2>1. T \subseteq s /\ SumOf(f, s) # SumOf(f, T)
    OBVIOUS
  <2> HIDE DEF C
  <2>2. s # T
    BY <2>1
  <2> QED
    BY <2>1, <2>2
<1>3. s \ {x} # s /\ s \ {x} \in SUBSET S /\ T \subseteq s \ {x} /\ IsFiniteSet(s) /\ IsFiniteSet(s \ {x})
  BY <1>1, <1>2, FS_Subset
<1>4. SumOf(f, s \ {x}) = SumOf(f, T)
  BY <1>1, <1>3
<1>5. Numbers(f, s) /\ Numbers(f, s \ {x})
  BY <1>3 DEF Numbers
<1>6. /\ SumOf(f, s) = f[x] + SumOf(f, s \ {x}) /\ f[x] = 0
      /\ SumOf(f, s \ {x}) \in Int
  BY <1>1, <1>2, <1>3, <1>5, SumTake, SumTyped
<1> QED
  BY <1>1, <1>4, <1>6

\* Sums of smaller summands are smaller.
LEMMA SumMonotone ==
    ASSUME NEW S, IsFiniteSet(S), NEW f, NEW h, Numbers(f, S), Numbers(h, S),
           \A x \in S : f[x] <= h[x]
    PROVE  SumOf(f, S) <= SumOf(h, S)
<1> DEFINE C == {s \in SUBSET S : ~ (SumOf(f, s) <= SumOf(h, s))}
<1> SUFFICES ASSUME C # {} PROVE FALSE
  OBVIOUS
<1>1. PICK s \in C : \A v \in C : v \subseteq s => v = s
  <2>1. C \in SUBSET (SUBSET S)
    OBVIOUS
  <2> HIDE DEF C
  <2> QED
    BY <2>1, LeastSubset
<1>2. /\ IsFiniteSet(s) /\ s \in SUBSET S /\ ~ (SumOf(f, s) <= SumOf(h, s))
      /\ Numbers(f, s) /\ Numbers(h, s)
  BY <1>1, FS_Subset DEF Numbers
<1>3. s # {}
  <2>1. s = {} => SumOf(f, s) = 0 /\ SumOf(h, s) = 0
    BY <1>2, SumTyped
  <2> QED
    BY <1>2, <2>1
<1>4. PICK x \in s : TRUE
  BY <1>3
<1>5. /\ s \ {x} \subseteq s /\ s \ {x} # s /\ s \ {x} \in SUBSET S /\ IsFiniteSet(s \ {x})
      /\ Numbers(f, s \ {x}) /\ Numbers(h, s \ {x})
  BY <1>2, FS_Subset DEF Numbers
<1>6. SumOf(f, s \ {x}) <= SumOf(h, s \ {x})
  BY <1>1, <1>5
<1>7. SumOf(f, s) = f[x] + SumOf(f, s \ {x}) /\ SumOf(h, s) = h[x] + SumOf(h, s \ {x})
  BY <1>2, SumTake
<1>8. SumOf(f, s \ {x}) \in Int /\ SumOf(h, s \ {x}) \in Int /\ f[x] \in Int /\ h[x] \in Int /\ f[x] <= h[x]
  BY <1>2, <1>5, SumTyped DEF Numbers
<1> QED
  BY <1>2, <1>6, <1>7, <1>8

-----------------------------------------------------------------------------
\* A finite set of integers that is not empty has a greatest one.
LEMMA MaxExists ==
    ASSUME NEW S, S \subseteq Int, IsFiniteSet(S), S # {}
    PROVE  \E m \in S : \A x \in S : x <= m
<1> DEFINE C == {s \in SUBSET S : s # {} /\ ~ \E m \in s : \A x \in s : x <= m}
<1> SUFFICES ASSUME C # {} PROVE FALSE
  OBVIOUS
<1>1. PICK s \in C : \A v \in C : v \subseteq s => v = s
  <2>1. C \in SUBSET (SUBSET S)
    OBVIOUS
  <2> HIDE DEF C
  <2> QED
    BY ONLY IsFiniteSet(S), C # {}, <2>1, LeastSubset
<1>2. s \in SUBSET S /\ s # {} /\ ~ \E m \in s : \A x \in s : x <= m
  OBVIOUS
<1>3. PICK y \in s : TRUE
  BY <1>2
<1>4. s \ {y} # {}
  <2>1. s \ {y} = {} => \A x \in s : x = y
    OBVIOUS
  <2> QED
    BY <1>2, <1>3, <2>1
<1>5. s \ {y} \notin C
  BY <1>1, <1>3
<1>6. PICK m \in s \ {y} : \A x \in s \ {y} : x <= m
  BY <1>2, <1>4, <1>5
<1> HIDE DEF C
<1>7. m \in Int /\ y \in Int
  BY <1>2, <1>3, <1>6
<1>8. CASE m <= y
  <2>1. \A x \in s : x <= y
    BY <1>2, <1>6, <1>7, <1>8
  <2> QED
    BY <1>2, <2>1
<1>9. CASE ~ (m <= y)
  <2>1. \A x \in s : x <= m
    BY <1>2, <1>6, <1>7, <1>9
  <2> QED
    BY <1>2, <1>6, <2>1
<1> QED
  BY <1>8, <1>9

LEMMA MaxOf ==
    ASSUME NEW S, S \subseteq Int, IsFiniteSet(S), S # {}
    PROVE  Max(S) \in S /\ \A x \in S : x <= Max(S)
<1>1. \E m \in S : \A x \in S : x <= m
  BY MaxExists
<1>2. \E m \in S : \A x \in S : m >= x
  BY <1>1
<1>3. Max(S) \in S /\ \A x \in S : Max(S) >= x
  BY <1>2 DEF Max
<1> QED
  BY <1>3

-----------------------------------------------------------------------------
\* A sequence without its last element.
LEMMA DropLast ==
    ASSUME NEW B, NEW s \in Seq(B), Len(s) > 0
    PROVE  /\ SubSeq(s, 1, Len(s) - 1) \in Seq(B) /\ Len(SubSeq(s, 1, Len(s) - 1)) = Len(s) - 1
           /\ \A n \in 1..(Len(s) - 1) : SubSeq(s, 1, Len(s) - 1)[n] = s[n]
<1> DEFINE m == Len(s) - 1
           t == SubSeq(s, 1, m)
<1>1. m \in Nat /\ \A i \in 1..m : s[i] \in B
  OBVIOUS
<1> HIDE DEF m
<1>2. /\ t \in Seq(B) /\ Len(t) = IF 1 <= m THEN m - 1 + 1 ELSE 0
      /\ \A i \in 1..(m - 1 + 1) : t[i] = s[1 + i - 1]
  BY <1>1, SubSeqProperties
<1> HIDE DEF t
<1>3. /\ t \in Seq(B) /\ Len(t) = m /\ \A n \in 1..m : t[n] = s[n]
  BY <1>1, <1>2
<1> QED
  BY <1>3 DEF t, m

\* The values of a function over a finite set.
LEMMA ImageFinite ==
    ASSUME NEW S, IsFiniteSet(S), NEW f
    PROVE  IsFiniteSet({f[x] : x \in S})
<1> DEFINE T == {f[x] : x \in S}
           g == [x \in S |-> f[x]]
<1>1. g \in [S -> T] /\ \A y \in T : \E x \in S : g[x] = y
  OBVIOUS
<1> HIDE DEF g, T
<1>2. g \in Surjection(S, T)
  BY <1>1 DEF Surjection
<1>3. IsFiniteSet(T)
  BY <1>2, FS_Surjection
<1> QED
  BY <1>3 DEF T
\* The larger and the smaller of two integers.
LEMMA TwoOf ==
    ASSUME NEW a \in Int, NEW b \in Int
    PROVE  /\ Max({a, b}) = IF a >= b THEN a ELSE b
           /\ Min({a, b}) = IF a >= b THEN b ELSE a
<1>1. \E m \in {a, b} : \A x \in {a, b} : x <= m
  OBVIOUS
<1>2. \E m \in {a, b} : \A x \in {a, b} : m <= x
  OBVIOUS
<1>3. Max({a, b}) \in {a, b} /\ \A x \in {a, b} : x <= Max({a, b})
  BY <1>1 DEF Max
<1>4. Min({a, b}) \in {a, b} /\ \A x \in {a, b} : Min({a, b}) <= x
  BY <1>2 DEF Min
<1> QED
  BY <1>3, <1>4

\* A sum of zeros.
LEMMA SumZero ==
    ASSUME NEW S, IsFiniteSet(S), NEW f, \A x \in S : f[x] = 0
    PROVE  SumOf(f, S) = 0
<1>1. Numbers(f, S)
  BY DEF Numbers
<1>2. SumOf(f, S) = SumOf(f, {})
  BY <1>1, SumRest
<1>3. SumOf(f, {}) = 0
  BY SumTyped, FS_EmptySet DEF Numbers
<1> QED
  BY <1>2, <1>3

\* A sum of natural numbers is one, and no less than any summand.
LEMMA SumNat ==
    ASSUME NEW S, IsFiniteSet(S), NEW f, \A x \in S : f[x] \in Nat
    PROVE  SumOf(f, S) \in Nat /\ \A x \in S : f[x] <= SumOf(f, S)
<1>1. Numbers(f, S)
  BY DEF Numbers
<1> DEFINE z == [x \in S |-> 0]
<1>2. Numbers(z, S) /\ \A x \in S : z[x] <= f[x]
  BY DEF Numbers
<1>3. SumOf(z, S) = 0
  BY SumZero
<1>4. 0 <= SumOf(f, S) /\ SumOf(f, S) \in Int
  <2> HIDE DEF z
  <2> QED
    BY <1>1, <1>2, <1>3, SumMonotone, SumTyped
<1>5. ASSUME NEW x \in S PROVE f[x] <= SumOf(f, S)
  <2> DEFINE h == [y \in S |-> IF y = x THEN f[x] ELSE 0]
  <2>1. Numbers(h, S) /\ (\A y \in S : h[y] <= f[y]) /\ (\A y \in S \ {x} : h[y] = z[y])
        /\ h[x] = f[x] /\ z[x] = 0
    BY <1>1 DEF Numbers
  <2>2. SumOf(h, S) = SumOf(z, S) + h[x] - z[x]
    <3> HIDE DEF z, h
    <3> QED
      BY <1>2, <2>1, SumChange
  <2>3. SumOf(h, S) <= SumOf(f, S)
    <3> HIDE DEF h
    <3> QED
      BY <1>1, <2>1, SumMonotone
  <2>4. SumOf(h, S) = f[x]
    <3> HIDE DEF z, h
    <3> QED
      BY <2>1, <2>2, <1>3
  <2> HIDE DEF h
  <2> QED
    BY <2>3, <2>4
<1> HIDE DEF z
<1> QED
  BY <1>4, <1>5

\* The sum of one field of records.
LEMMA MicroSum ==
    ASSUME NEW D, NEW T, IsFiniteSet(T), \A r \in T : D[r].micro \in Int
    PROVE  MapThenSumSet(LAMBDA r : D[r].micro, T) = SumOf([r \in T |-> D[r].micro], T)
<1> DEFINE f == [r \in T |-> D[r].micro]
           Iter(k) == k = [s \in SUBSET T |-> IF s = {} THEN 0
                              ELSE LET x == CHOOSE x \in s : TRUE IN D[x].micro + k[s \ {x}]]
           it == CHOOSE k : Iter(k)
<1>1. \A s \in SUBSET T : s # {} => Pick(s) \in T /\ f[Pick(s)] = D[Pick(s)].micro
  BY PickIn
<1>2. \E k : Iter(k)
  <2>0. Numbers(f, T)
    BY DEF Numbers
  <2>1. PICK k \in [SUBSET T -> Int] : Adds(k, f, T)
    BY <2>0, AddsExists
  <2>2. Iter(k)
    BY <1>1, <2>1 DEF Adds, Pick
  <2> HIDE DEF Iter
  <2> QED
    BY <2>2
<1>3. Iter(it)
  <2> HIDE DEF Iter
  <2> QED
    BY <1>2
<1>4. MapThenSumSet(LAMBDA r : D[r].micro, T) = it[T]
  BY DEF MapThenSumSet, MapThenFoldSet
<1>5. Adds(it, f, T)
  <2>1. \A s \in SUBSET T : it[s] = IF s = {} THEN 0 ELSE D[Pick(s)].micro + it[s \ {Pick(s)}]
    <3> HIDE DEF it
    <3> QED
      BY <1>3 DEF Pick
  <2> HIDE DEF it, f
  <2> QED
    BY <1>1, <2>1 DEF Adds
<1>6. SumOf(f, T) = it[T]
  <2>1. Numbers(f, T)
    BY DEF Numbers
  <2> HIDE DEF it, f
  <2> QED
    BY <1>5, <2>1, SumIs
<1> QED
  BY <1>4, <1>6

-----------------------------------------------------------------------------
(* Greedy choice, in increasing order: a fold over a sequence of numbers. *)

\* The elements are integers.
Integers(S) == \A x \in S : x \in Int

\* One step of a greedy choice: n is taken beside what was chosen before it.
Taken(ok, r, n) == IF ok[r][n] THEN r \union {n} ELSE r

\* g chooses from every subset of s, in increasing order.
Chooses(g, ok, s) == \A t \in SUBSET s :
    g[t] = IF t = {} THEN {} ELSE Taken(ok, g[t \ {Max(t)}], Max(t))

\* The greatest element of a finite set of integers.
LEMMA MaxIn ==
    ASSUME NEW S, Integers(S), IsFiniteSet(S)
    PROVE  \A t \in SUBSET S : t # {} => Max(t) \in t /\ \A x \in t : x <= Max(t)
<1> SUFFICES ASSUME NEW t \in SUBSET S, t # {} PROVE Max(t) \in t /\ \A x \in t : x <= Max(t)
  OBVIOUS
<1>1. t \subseteq Int /\ IsFiniteSet(t)
  BY FS_Subset DEF Integers
<1> QED
  BY <1>1, MaxOf

\* All that choose agree.
LEMMA ChoosesAlike ==
    ASSUME NEW S, Integers(S), IsFiniteSet(S), NEW ok, NEW s \in SUBSET S, NEW u \in SUBSET S,
           NEW g1, NEW g2, Chooses(g1, ok, s), Chooses(g2, ok, u)
    PROVE  \A t \in SUBSET (s \cap u) : g1[t] = g2[t]
<1> DEFINE C == {t \in SUBSET (s \cap u) : g1[t] # g2[t]}
<1> SUFFICES ASSUME C # {} PROVE FALSE
  OBVIOUS
<1>1. PICK t \in C : \A v \in C : v \subseteq t => v = t
  <2>1. C \in SUBSET (SUBSET S)
    OBVIOUS
  <2> HIDE DEF C
  <2> QED
    BY <2>1, LeastSubset
<1>2. t # {}
  BY DEF Chooses
<1>3. Max(t) \in t
  BY <1>2, MaxIn
<1>4. t \ {Max(t)} \subseteq t /\ t \ {Max(t)} # t /\ t \ {Max(t)} \in SUBSET (s \cap u)
  BY <1>3
<1>5. g1[t \ {Max(t)}] = g2[t \ {Max(t)}]
  BY <1>1, <1>4
<1>6. /\ g1[t] = Taken(ok, g1[t \ {Max(t)}], Max(t)) /\ g2[t] = Taken(ok, g2[t \ {Max(t)}], Max(t))
  BY <1>2 DEF Chooses
<1> QED
  BY <1>5, <1>6

\* One that chooses from s also chooses from a subset of it.
LEMMA ChoosesBelow ==
    ASSUME NEW S, Integers(S), IsFiniteSet(S), NEW ok, NEW s \in SUBSET S, NEW u \in SUBSET S, u \subseteq s,
           NEW g1, NEW g2, Chooses(g1, ok, s), Chooses(g2, ok, u)
    PROVE  g1[u] = g2[u]
<1>1. u \in SUBSET (s \cap u)
  OBVIOUS
<1> QED
  BY <1>1, ChoosesAlike

\* There is a function that chooses, and what it chooses is there.
LEMMA ChoosesExists ==
    ASSUME NEW S, Integers(S), IsFiniteSet(S), NEW ok
    PROVE  \E g \in [SUBSET S -> SUBSET S] : Chooses(g, ok, S) /\ \A t \in SUBSET S : g[t] \subseteq t
<1> DEFINE Good(g, s) == /\ g \in [SUBSET s -> SUBSET s] /\ Chooses(g, ok, s)
                         /\ \A t \in SUBSET s : g[t] \subseteq t
           C == {s \in SUBSET S : ~ \E g : Good(g, s)}
<1> SUFFICES ASSUME C # {} PROVE FALSE
  OBVIOUS
<1>1. PICK s \in C : \A v \in C : v \subseteq s => v = s
  <2>1. C \in SUBSET (SUBSET S)
    OBVIOUS
  <2> HIDE DEF C
  <2> QED
    BY <2>1, LeastSubset
<1>2. \A t \in SUBSET s : t # s => \E g : Good(g, t)
  <2> HIDE DEF Good
  <2> QED
    BY <1>1
<1> DEFINE G == [t \in SUBSET s |-> CHOOSE g : Good(g, t)]
<1>3. \A t \in SUBSET s : t # s => Good(G[t], t)
  <2> HIDE DEF Good
  <2> QED
    BY <1>2
<1>4. \E g : Good(g, s)
  <2>1. CASE s = {}
    <3>1. Good([t \in SUBSET s |-> {}], s)
      BY <2>1 DEF Chooses
    <3> HIDE DEF Good
    <3> QED
      BY <3>1
  <2>2. CASE s # {}
    <3> DEFINE r == s \ {Max(s)}
               h == [t \in SUBSET s |-> IF t = s THEN Taken(ok, G[r][r], Max(s)) ELSE G[t][t]]
    <3> HIDE DEF G
    <3>1. Max(s) \in s /\ r \in SUBSET s /\ r # s
      BY <2>2, MaxIn
    <3>2. ASSUME NEW t \in SUBSET s, t # s PROVE G[t][t] \subseteq t
      BY <1>3, <3>2
    <3>3. ASSUME NEW t \in SUBSET s PROVE h[t] \subseteq t
      <4>1. G[r][r] \subseteq r
        BY <3>1, <3>2
      <4>2. Taken(ok, G[r][r], Max(s)) \subseteq s
        BY <3>1, <4>1 DEF Taken
      <4> QED
        BY <3>2, <4>2
    <3>4. ASSUME NEW t \in SUBSET s
          PROVE  h[t] = IF t = {} THEN {} ELSE Taken(ok, h[t \ {Max(t)}], Max(t))
      <4>1. CASE t = s
        BY <2>2, <3>1, <4>1
      <4>2. CASE t # s
        <5>1. CASE t = {}
          BY <1>3, <4>2, <5>1 DEF Chooses
        <5>2. CASE t # {}
          <6> DEFINE v == t \ {Max(t)}
          <6>1. Max(t) \in t /\ v \in SUBSET t /\ v # s /\ v \in SUBSET s
            BY <5>2, <4>2, MaxIn
          <6>2. Chooses(G[t], ok, t) /\ Chooses(G[v], ok, v)
            BY <1>3, <4>2, <6>1
          <6>3. G[t][t] = Taken(ok, G[t][v], Max(t))
            BY <5>2, <6>2 DEF Chooses
          <6>4. G[t][v] = G[v][v]
            <7>1. v \subseteq t /\ t \in SUBSET S /\ v \in SUBSET S
              BY <6>1
            <7> HIDE DEF v, h, C, Good
            <7> QED
              BY <6>2, <7>1, ChoosesBelow
          <6>5. h[t] = G[t][t] /\ h[v] = G[v][v]
            BY <4>2, <6>1
          <6> QED
            BY <5>2, <6>3, <6>4, <6>5
        <5> QED
          BY <5>1, <5>2
      <4> QED
        BY <4>1, <4>2
    <3>5. h \in [SUBSET s -> SUBSET s]
      BY <3>3
    <3>6. Good(h, s)
      <4>1. h = [t \in SUBSET s |-> h[t]]
        OBVIOUS
      <4> HIDE DEF h
      <4> QED
        BY <3>3, <3>4, <3>5 DEF Chooses
    <3> HIDE DEF Good, h
    <3> QED
      BY <3>6
  <2> QED
    BY <2>1, <2>2
<1> QED
  BY <1>1, <1>4

-----------------------------------------------------------------------------
(* Shares of a whole, rounded down. *)

LEMMA ProductAdds ==
    ASSUME NEW a \in Int, NEW b \in Int, NEW c \in Int
    PROVE  a * (b + c) = a * b + a * c /\ a * b \in Int /\ a * c \in Int
OBVIOUS

LEMMA ProductNat ==
    ASSUME NEW a \in Nat, NEW b \in Nat
    PROVE  a * b \in Nat
OBVIOUS

LEMMA ProductCancels ==
    ASSUME NEW a \in Nat, NEW b \in Int, NEW c \in Int, a > 0, a * b <= c * a
    PROVE  b <= c
OBVIOUS

LEMMA ProductMonotone ==
    ASSUME NEW a \in Nat, NEW b \in Nat, NEW c \in Nat, a <= b
    PROVE  a * c <= b * c
OBVIOUS

LEMMA WholeShare ==
    ASSUME NEW a \in Nat, NEW k \in Nat, k > 0
    PROVE  a \div k \in Nat /\ k * (a \div k) <= a
OBVIOUS

\* Those of K that belong to T.
Belongs(K, own, T) == {n \in K : own[n] \in T}

\* Shares that are proportional to what each owns, rounded down, are together
\* proportional to what all own.
LEMMA SharesAdd ==
    ASSUME NEW K, IsFiniteSet(K), NEW own, NEW b \in Nat, NEW D, IsFiniteSet(D), NEW sh,
           \A o \in D : /\ sh[o] \in Nat
                        /\ Cardinality(K) * sh[o] <= b * Cardinality(Belongs(K, own, {o}))
    PROVE  Cardinality(K) * SumOf(sh, D) <= b * Cardinality(Belongs(K, own, D))
<1> DEFINE Fine(T) == Cardinality(K) * SumOf(sh, T) <= b * Cardinality(Belongs(K, own, T))
           C == {T \in SUBSET D : ~Fine(T)}
<1>1. \A T : IsFiniteSet(Belongs(K, own, T)) /\ Cardinality(Belongs(K, own, T)) \in Nat
  BY FS_Subset, FS_CardinalityType DEF Belongs
<1>2. Cardinality(K) \in Nat
  BY FS_CardinalityType
<1>5. \A o \in D : sh[o] \in Nat
  BY Zenon
<1>3. ASSUME C # {} PROVE FALSE
  <2>1. PICK T \in C : \A v \in C : v \subseteq T => v = T
    <3>1. C \in SUBSET (SUBSET D)
      OBVIOUS
    <3> HIDE DEF C
    <3> QED
      BY <1>3, <3>1, LeastSubset
  <2>2. /\ T \in SUBSET D /\ IsFiniteSet(T) /\ ~Fine(T) /\ Numbers(sh, T)
        /\ \A R \in SUBSET T : R # T => Fine(R)
    <3>1. T \in SUBSET D /\ ~Fine(T) /\ \A R \in SUBSET T : R # T => Fine(R)
      <4> HIDE DEF Fine
      <4> QED
        BY <2>1
    <3>2. IsFiniteSet(T)
      <4> HIDE DEF Fine, C
      <4> QED
        BY <3>1, FS_Subset
    <3>3. Numbers(sh, T)
      <4>1. \A o \in T : sh[o] \in Nat
        BY <1>5, <3>1, Zenon
      <4> HIDE DEF Fine, C
      <4> QED
        BY <4>1 DEF Numbers
    <3> HIDE DEF Fine
    <3> QED
      BY <3>1, <3>2, <3>3
  <2>3. T # {}
    <3>1. SumOf(sh, {}) = 0
      BY SumTyped, FS_EmptySet DEF Numbers
    <3>2. Cardinality(K) * 0 = 0 /\ 0 <= b * Cardinality(Belongs(K, own, {}))
      BY <1>1, <1>2, ProductNat
    <3> QED
      BY <2>2, <3>1, <3>2
  <2>4. PICK o \in T : TRUE
    BY <2>3
  <2> DEFINE R == T \ {o}
             s == SumOf(sh, R)
             x == Cardinality(Belongs(K, own, {o}))
             y == Cardinality(Belongs(K, own, R))
             k == Cardinality(K)
  <2>5. SumOf(sh, T) = sh[o] + s /\ s \in Int
    <3>1. IsFiniteSet(R) /\ Numbers(sh, R)
      BY <2>2, FS_Subset DEF Numbers
    <3>2. s \in Int
      BY <3>1, SumTyped
    <3> QED
      BY <2>2, <3>2, SumTake
  <2>6. Cardinality(Belongs(K, own, T)) = x + y
    <3>1. /\ Belongs(K, own, T) = Belongs(K, own, {o}) \union Belongs(K, own, R)
          /\ Belongs(K, own, {o}) \intersect Belongs(K, own, R) = {}
      BY DEF Belongs
    <3> DEFINE A == Belongs(K, own, {o})
               B == Belongs(K, own, R)
    <3>2. Cardinality(A \union B) = Cardinality(A) + Cardinality(B) - Cardinality(A \intersect B)
      <4>1. IsFiniteSet(A) /\ IsFiniteSet(B)
        BY <1>1
      <4> HIDE DEF A, B
      <4> QED
        BY <4>1, FS_Union
    <3>3. Cardinality(A \intersect B) = 0
      BY <3>1, FS_EmptySet
    <3>4. Cardinality(A) \in Nat /\ Cardinality(B) \in Nat /\ Belongs(K, own, T) = A \union B
      BY <1>1, <3>1
    <3> HIDE DEF A, B
    <3>5. Cardinality(Belongs(K, own, T)) = Cardinality(A) + Cardinality(B)
      BY <3>2, <3>3, <3>4
    <3> QED
      BY <3>5 DEF A, B
  <2>7. /\ k \in Nat /\ x \in Nat /\ y \in Nat /\ sh[o] \in Int
        /\ k * sh[o] <= b * x /\ k * s <= b * y
    BY <1>1, <1>2, <2>2
  <2>8. ~ (k * (sh[o] + s) <= b * (x + y))
    BY <2>2, <2>5, <2>6
  <2> HIDE DEF k, x, y, s
  <2>9. k * (sh[o] + s) = k * sh[o] + k * s /\ b * (x + y) = b * x + b * y
    BY <2>5, <2>7, ProductAdds
  <2>10. k * sh[o] \in Int /\ k * s \in Int /\ b * x \in Int /\ b * y \in Int
    BY <2>5, <2>7, ProductAdds
  <2> QED
    BY <2>7, <2>8, <2>9, <2>10
<1>4. D \in SUBSET D
  OBVIOUS
<1> HIDE DEF Fine
<1> QED
  BY <1>3, <1>4 DEF Fine

\* The sum of summands that are bounded.
LEMMA SumBounded ==
    ASSUME NEW S, IsFiniteSet(S), NEW f, NEW b \in Nat, \A x \in S : f[x] \in Nat /\ f[x] <= b
    PROVE  SumOf(f, S) <= Cardinality(S) * b
<1> DEFINE Fine(T) == SumOf(f, T) <= Cardinality(T) * b
           C == {T \in SUBSET S : ~Fine(T)}
<1>3. ASSUME C # {} PROVE FALSE
  <2>1. PICK T \in C : \A v \in C : v \subseteq T => v = T
    <3>1. C \in SUBSET (SUBSET S)
      OBVIOUS
    <3> HIDE DEF C
    <3> QED
      BY <1>3, <3>1, LeastSubset
  <2>2. /\ T \in SUBSET S /\ IsFiniteSet(T) /\ ~Fine(T) /\ Numbers(f, T)
        /\ \A R \in SUBSET T : R # T => Fine(R)
    BY <2>1, FS_Subset DEF Numbers
  <2>3. T # {}
    <3>1. SumOf(f, {}) = 0 /\ Cardinality({}) = 0
      BY SumTyped, FS_EmptySet DEF Numbers
    <3>2. 0 * b = 0
      OBVIOUS
    <3>3. T = {} => Fine(T)
      BY <3>1, <3>2
    <3> QED
      BY <2>2, <3>3
  <2>4. PICK x \in T : TRUE
    BY <2>3
  <2> DEFINE R == T \ {x}
             s == SumOf(f, R)
             k == Cardinality(R)
  <2>5. SumOf(f, T) = f[x] + s /\ s \in Int /\ Cardinality(T) = k + 1 /\ k \in Nat
    <3>1. IsFiniteSet(R) /\ Numbers(f, R)
      BY <2>2, FS_Subset DEF Numbers
    <3>2. s \in Int
      BY <3>1, SumTyped
    <3>3. Cardinality(T) = k + 1 /\ k \in Nat
      BY <2>2, <2>4, <3>1, FS_RemoveElement, FS_CardinalityType
    <3> QED
      BY <2>2, <3>2, <3>3, SumTake
  <2>6. s <= k * b /\ f[x] \in Nat /\ f[x] <= b
    BY <2>2
  <2>7. ~ (f[x] + s <= (k + 1) * b)
    BY <2>2, <2>5
  <2> HIDE DEF s, k
  <2>8. (k + 1) * b = k * b + b /\ k * b \in Int
    BY <2>5
  <2> QED
    BY <2>5, <2>6, <2>7, <2>8
<1>4. S \in SUBSET S
  OBVIOUS
<1> HIDE DEF Fine
<1> QED
  BY <1>3, <1>4 DEF Fine

=============================================================================
