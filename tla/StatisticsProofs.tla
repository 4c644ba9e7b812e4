-------------------------- MODULE StatisticsProofs --------------------------
(***************************************************************************)
(* Every latency and every rate is counted once, at its place, from the    *)
(* response to the report: proofs about Statistics and its histograms.     *)
(***************************************************************************)
EXTENDS Statistics, TLAPS, FiniteSetTheorems, SequenceTheorems

-----------------------------------------------------------------------------
(* Least counterexamples.                                                   *)

\* Every nonempty set of numbers has a least one.

LEMMA NatMin ==
    ASSUME NEW S, S \subseteq Nat, S # {}
    PROVE  \E x \in S : \A y \in S : x <= y
<1>1. PICK x \in S : \A y \in S : ~(<<y, x>> \in OpToRel(<, Nat))
  BY NatLessThanWellFounded, WFMin DEF OpToRel
<1>2. ASSUME NEW y \in S PROVE x <= y
  <2>1. x \in Nat /\ y \in Nat
    BY <1>1
  <2>2. ~(y < x)
    BY <1>1, <2>1 DEF OpToRel
  <2> QED
    BY <2>1, <2>2
<1> QED
  BY <1>1, <1>2

-----------------------------------------------------------------------------
(* Recursion over a rank.                                                   *)

\* On S the function g is what base and step say: a value of rank 0 has its
\* base, any other one a step from the value before it.
Obeys(g, S, rank, prev, base, step) ==
    \A x \in S : g[x] = IF rank[x] = 0 THEN base[x] ELSE step[x][g[prev[x]]]

\* The minimum of a rank.
LEMMA LeastRank ==
    ASSUME NEW D, NEW rank \in [D -> Nat], NEW S, S \subseteq D, S # {}
    PROVE  \E x \in S : \A y \in S : rank[x] <= rank[y]
<1> DEFINE ranks == {rank[x] : x \in S}
<1>1. ranks \subseteq Nat /\ ranks # {}
  OBVIOUS
<1>2. PICK n \in ranks : \A m \in ranks : n <= m
  <2> HIDE DEF ranks
  <2> QED
    BY <1>1, NatMin
<1> QED
  BY <1>2

\* A function on D that obeys base and step exists when the rank falls.
LEMMA Recursion ==
    ASSUME NEW D, NEW V, NEW rank \in [D -> Nat], NEW prev \in [D -> D], NEW base \in [D -> V],
           NEW step \in [D -> [V -> V]],
           \A x \in D : rank[x] # 0 => rank[prev[x]] < rank[x]
    PROVE  \E g \in [D -> V] : Obeys(g, D, rank, prev, base, step)
<1> DEFINE UpTo(n) == {x \in D : rank[x] <= n}
           Good(g, n) == g \in [UpTo(n) -> V] /\ Obeys(g, UpTo(n), rank, prev, base, step)
<1>1. \A n \in Nat : \E g : Good(g, n)
  <2> DEFINE Bad == {n \in Nat : ~ \E g : Good(g, n)}
  <2>1. SUFFICES ASSUME Bad # {} PROVE FALSE
    OBVIOUS
  <2>2. PICK n \in Bad : \A m \in Bad : n <= m
    <3>1. Bad \subseteq Nat
      OBVIOUS
    <3> HIDE DEF Bad
    <3> QED
      BY <2>1, <3>1, NatMin
  <2>3. n # 0
    <3>1. Good([x \in UpTo(0) |-> base[x]], 0)
      BY DEF Obeys
    <3> QED
      BY <2>2, <3>1
  <2>4. n \in Nat /\ n - 1 \in Nat /\ n - 1 \notin Bad
    <3>1. n \in Nat
      BY <2>2
    <3> HIDE DEF Bad
    <3> QED
      BY <2>2, <2>3, <3>1
  <2>5. PICK g : Good(g, n - 1)
    BY <2>4
  <2> DEFINE h == [x \in UpTo(n) |-> IF rank[x] <= n - 1 THEN g[x] ELSE step[x][g[prev[x]]]]
  <2>6. \A x \in UpTo(n) : x \notin UpTo(n - 1) => rank[x] # 0 /\ prev[x] \in UpTo(n - 1)
    BY <2>4
  <2>7. \A x \in UpTo(n) : rank[x] # 0 => prev[x] \in UpTo(n - 1)
    BY <2>4
  <2>8. h \in [UpTo(n) -> V]
    BY <2>5, <2>6
  <2>9. ASSUME NEW x \in UpTo(n)
        PROVE  h[x] = IF rank[x] = 0 THEN base[x] ELSE step[x][h[prev[x]]]
    <3>1. CASE x \in UpTo(n - 1)
      <4>1. h[x] = g[x]
        BY <2>4, <3>1
      <4>2. rank[x] # 0 => h[prev[x]] = g[prev[x]]
        <5>1. rank[x] # 0 => prev[x] \in UpTo(n) /\ rank[prev[x]] <= n - 1
          BY <2>4, <2>7
        <5> QED
          BY <5>1
      <4>3. g[x] = IF rank[x] = 0 THEN base[x] ELSE step[x][g[prev[x]]]
        BY <2>5, <3>1 DEF Obeys
      <4> HIDE DEF h
      <4> QED
        BY <4>1, <4>2, <4>3
    <3>2. CASE x \notin UpTo(n - 1)
      <4>1. rank[x] # 0 /\ prev[x] \in UpTo(n - 1)
        BY <2>6, <3>2
      <4>2. prev[x] \in UpTo(n)
        BY <2>4, <4>1
      <4>3. h[prev[x]] = g[prev[x]] /\ h[x] = step[x][g[prev[x]]]
        BY <3>2, <4>1, <4>2
      <4> QED
        BY <4>1, <4>3
    <3> QED
      BY <3>1, <3>2
  <2> HIDE DEF h
  <2>10. Good(h, n)
    BY <2>8, <2>9 DEF Obeys
  <2> QED
    BY <2>2, <2>10
<1>2. ASSUME NEW n \in Nat, NEW m \in Nat, NEW g, NEW h, Good(g, n), Good(h, m)
      PROVE  \A x \in UpTo(n) \cap UpTo(m) : g[x] = h[x]
  <2> DEFINE Bad == {x \in UpTo(n) \cap UpTo(m) : g[x] # h[x]}
  <2>1. SUFFICES ASSUME Bad # {} PROVE FALSE
    OBVIOUS
  <2>2. PICK x \in Bad : \A y \in Bad : rank[x] <= rank[y]
    <3>1. Bad \subseteq D
      OBVIOUS
    <3> HIDE DEF Bad
    <3> QED
      BY <2>1, <3>1, LeastRank
  <2>3. CASE rank[x] = 0
    BY <1>2, <2>2, <2>3 DEF Obeys
  <2>4. CASE rank[x] # 0
    <3>1. prev[x] \in UpTo(n) \cap UpTo(m)
      BY <2>2, <2>4
    <3>2. prev[x] \notin Bad
      BY <2>2, <2>4
    <3> QED
      BY <1>2, <2>2, <2>4, <3>1, <3>2 DEF Obeys
  <2> QED
    BY <2>3, <2>4
<1> DEFINE at_(x) == CHOOSE g : Good(g, rank[x])
           f == [x \in D |-> at_(x)[x]]
<1>3. \A x \in D : Good(at_(x), rank[x]) /\ x \in UpTo(rank[x])
  <2> HIDE DEF Good
  <2> QED
    BY <1>1
<1>4. f \in [D -> V]
  <2> HIDE DEF at_
  <2> QED
    BY <1>3
<1>5. ASSUME NEW x \in D
      PROVE  f[x] = IF rank[x] = 0 THEN base[x] ELSE step[x][f[prev[x]]]
  <2>1. CASE rank[x] = 0
    <3> HIDE DEF at_
    <3> QED
      BY <1>3, <2>1 DEF Obeys
  <2>2. CASE rank[x] # 0
    <3>1. prev[x] \in D /\ rank[prev[x]] < rank[x] /\ rank[x] \in Nat /\ rank[prev[x]] \in Nat
      BY <2>2
    <3>2. prev[x] \in UpTo(rank[x]) \cap UpTo(rank[prev[x]])
      BY <3>1
    <3> HIDE DEF at_
    <3>3. Good(at_(x), rank[x]) /\ Good(at_(prev[x]), rank[prev[x]])
      BY <1>3, <3>1
    <3>4. at_(x)[prev[x]] = at_(prev[x])[prev[x]]
      <4> HIDE DEF Good, UpTo
      <4> QED
        BY <1>2, <3>1, <3>2, <3>3
    <3>5. at_(x)[x] = step[x][at_(x)[prev[x]]]
      BY <1>3, <2>2 DEF Obeys
    <3> QED
      BY <2>2, <3>1, <3>4, <3>5
  <2> QED
    BY <2>1, <2>2
<1> HIDE DEF f
<1> QED
  BY <1>4, <1>5 DEF Obeys

-----------------------------------------------------------------------------
(* Sums.                                                                    *)

Pick(s) == CHOOSE x \in s : TRUE

\* g takes the elements of a subset of S one by one.
SumsUp(g, f, S) ==
    g \in [SUBSET S -> Nat]
    /\ \A s \in SUBSET S : g[s] = IF s = {} THEN 0 ELSE f[Pick(s)] + g[s \ {Pick(s)}]

\* CHOOSE finds an element.
LEMMA PickFrom == ASSUME NEW s, s # {} PROVE Pick(s) \in s
  BY DEF Pick

\* A finite set without one of its elements is smaller.
LEMMA Smaller ==
    ASSUME NEW S, IsFiniteSet(S), NEW s \in SUBSET S, NEW x \in s
    PROVE  /\ IsFiniteSet(s) /\ s \ {x} \in SUBSET S /\ IsFiniteSet(s \ {x})
           /\ Cardinality(s) \in Nat /\ Cardinality(s \ {x}) \in Nat
           /\ Cardinality(s \ {x}) = Cardinality(s) - 1
<1>1. IsFiniteSet(s)
  BY FS_Subset
<1> QED
  BY <1>1, FS_RemoveElement, FS_CardinalityType

\* Induction over the subsets of a finite set.
LEMMA LeastSet ==
    ASSUME NEW S, IsFiniteSet(S), NEW Bad, Bad \subseteq SUBSET S, Bad # {}
    PROVE  \E s \in Bad : \A x \in s : s \ {x} \notin Bad
<1> DEFINE rank == [s \in SUBSET S |-> Cardinality(s)]
<1>1. \A s \in SUBSET S : Cardinality(s) \in Nat
  BY FS_Subset, FS_CardinalityType
<1>2. rank \in [SUBSET S -> Nat]
  BY <1>1
<1>3. PICK s \in Bad : \A r \in Bad : rank[s] <= rank[r]
  <2> HIDE DEF rank
  <2> QED
    BY <1>2, LeastRank
<1>4. ASSUME NEW x \in s, s \ {x} \in Bad
      PROVE  FALSE
  <2>1. rank[s] = Cardinality(s) /\ rank[s \ {x}] = Cardinality(s \ {x}) /\ rank[s] <= rank[s \ {x}]
    BY <1>3, <1>4
  <2>2. Cardinality(s \ {x}) = Cardinality(s) - 1 /\ Cardinality(s) \in Nat
    BY <1>3, Smaller
  <2> QED
    BY <2>1, <2>2
<1> QED
  BY <1>4

\* SumFunctionOnSet takes elements off one by one.
LEMMA SumIteration ==
    ASSUME NEW S, IsFiniteSet(S), NEW f, \A x \in S : f[x] \in Nat
    PROVE  \E g : SumsUp(g, f, S) /\ SumFunctionOnSet(f, S) = g[S]
<1> DEFINE Iterates(g) ==
             g = [s \in SUBSET S |-> IF s = {} THEN 0 ELSE f[Pick(s)] + g[s \ {Pick(s)}]]
           iter == CHOOSE g : Iterates(g)
<1>1. SumFunctionOnSet(f, S) = iter[S]
  BY DEF SumFunctionOnSet, FoldFunctionOnSet, MapThenFoldSet, Pick
<1> DEFINE rank == [s \in SUBSET S |-> Cardinality(s)]
           prev == [s \in SUBSET S |-> s \ {Pick(s)}]
           base == [s \in SUBSET S |-> 0]
           step == [s \in SUBSET S |-> [n \in Nat |-> IF s = {} THEN 0 ELSE f[Pick(s)] + n]]
<1>2. \A s \in SUBSET S : IsFiniteSet(s) /\ Cardinality(s) \in Nat
                          /\ (Cardinality(s) = 0 <=> s = {})
  BY FS_Subset, FS_CardinalityType, FS_EmptySet
<1>3. /\ rank \in [SUBSET S -> Nat] /\ prev \in [SUBSET S -> SUBSET S]
      /\ base \in [SUBSET S -> Nat] /\ step \in [SUBSET S -> [Nat -> Nat]]
  <2>1. \A s \in SUBSET S : s # {} => f[Pick(s)] \in Nat
    BY PickFrom
  <2> QED
    BY <1>2, <2>1
<1>4. \A s \in SUBSET S : rank[s] # 0 => rank[prev[s]] < rank[s]
  <2> SUFFICES ASSUME NEW s \in SUBSET S, rank[s] # 0
               PROVE  rank[prev[s]] < rank[s]
    OBVIOUS
  <2>1. s # {} /\ Pick(s) \in s
    BY <1>2, PickFrom
  <2>2. prev[s] = s \ {Pick(s)} /\ prev[s] \in SUBSET S
    OBVIOUS
  <2>3. Cardinality(s \ {Pick(s)}) = Cardinality(s) - 1 /\ Cardinality(s) \in Nat
    BY <2>1, Smaller
  <2> QED
    BY <2>2, <2>3
<1>5. PICK g \in [SUBSET S -> Nat] : Obeys(g, SUBSET S, rank, prev, base, step)
  <2> HIDE DEF rank, prev, base, step
  <2> QED
    BY <1>3, <1>4, Recursion
<1>6. \A s \in SUBSET S : g[s] = IF s = {} THEN 0 ELSE f[Pick(s)] + g[s \ {Pick(s)}]
  <2> SUFFICES ASSUME NEW s \in SUBSET S
               PROVE  g[s] = IF s = {} THEN 0 ELSE f[Pick(s)] + g[s \ {Pick(s)}]
    OBVIOUS
  <2>1. rank[s] = 0 <=> s = {}
    BY <1>2
  <2>2. g[prev[s]] \in Nat /\ prev[s] = s \ {Pick(s)}
    BY <1>5
  <2> QED
    BY <1>5, <2>1, <2>2 DEF Obeys
<1>7. Iterates(g)
  BY <1>5, <1>6
<1>8. Iterates(iter)
  <2> HIDE DEF Iterates
  <2> QED
    BY <1>7
<1> HIDE DEF iter
<1>9. \A s \in SUBSET S : iter[s] = IF s = {} THEN 0 ELSE f[Pick(s)] + iter[s \ {Pick(s)}]
  BY <1>8
<1>10. iter = g
  <2> DEFINE Bad == {s \in SUBSET S : iter[s] # g[s]}
  <2>1. Bad = {}
    <3>1. SUFFICES ASSUME Bad # {} PROVE FALSE
      OBVIOUS
    <3>2. PICK s \in Bad : \A x \in s : s \ {x} \notin Bad
      <4>1. Bad \subseteq SUBSET S
        OBVIOUS
      <4> HIDE DEF Bad
      <4> QED
        BY <3>1, <4>1, LeastSet
    <3>3. s \in SUBSET S /\ iter[s] # g[s]
      BY <3>2
    <3>4. s # {} /\ s \ {Pick(s)} \notin Bad
      <4>1. s # {}
        BY <1>6, <1>9, <3>3
      <4> HIDE DEF Bad
      <4> QED
        BY <3>2, <4>1, PickFrom
    <3> QED
      BY <1>6, <1>9, <3>3, <3>4
  <2>2. \A s \in SUBSET S : iter[s] = g[s]
    BY <2>1
  <2>3. DOMAIN iter = SUBSET S /\ DOMAIN g = SUBSET S
    BY <1>5, <1>8
  <2> QED
    BY <1>7, <1>8, <2>2, <2>3
<1> QED
  BY <1>1, <1>5, <1>6, <1>10 DEF SumsUp

\* Two such sums agree on the sets they share.
LEMMA SumsAgree ==
    ASSUME NEW S, IsFiniteSet(S), NEW T, NEW f, NEW e, NEW g, NEW h,
           SumsUp(g, f, S), SumsUp(h, e, T), S \subseteq T, \A x \in S : f[x] = e[x]
    PROVE  g[S] = h[S]
<1> DEFINE Bad == {s \in SUBSET S : g[s] # h[s]}
<1>1. SUFFICES ASSUME Bad # {} PROVE FALSE
  OBVIOUS
<1>2. PICK s \in Bad : \A x \in s : s \ {x} \notin Bad
  <2>1. Bad \subseteq SUBSET S
    OBVIOUS
  <2> HIDE DEF Bad
  <2> QED
    BY <1>1, <2>1, LeastSet
<1>3. s \in SUBSET S /\ s \in SUBSET T /\ g[s] # h[s]
  BY <1>2
<1>4. s # {}
  BY <1>3 DEF SumsUp
<1>5. Pick(s) \in s /\ s \ {Pick(s)} \in SUBSET S /\ s \ {Pick(s)} \notin Bad
  BY <1>2, <1>4, PickFrom
<1>6. g[s \ {Pick(s)}] = h[s \ {Pick(s)}] /\ f[Pick(s)] = e[Pick(s)]
  BY <1>5
<1> HIDE DEF Bad
<1> QED
  BY <1>3, <1>4, <1>6 DEF SumsUp

\* The sum over a finite set is a number, and is taken one element at a time.
LEMMA SumStep ==
    ASSUME NEW S, IsFiniteSet(S), NEW f, \A x \in S : f[x] \in Nat
    PROVE  /\ SumFunctionOnSet(f, S) \in Nat
           /\ S = {} => SumFunctionOnSet(f, S) = 0
           /\ S # {} => SumFunctionOnSet(f, S) = f[Pick(S)] + SumFunctionOnSet(f, S \ {Pick(S)})
<1>1. PICK g : SumsUp(g, f, S) /\ SumFunctionOnSet(f, S) = g[S]
  BY SumIteration
<1>2. ASSUME S # {}
      PROVE  SumFunctionOnSet(f, S) = f[Pick(S)] + SumFunctionOnSet(f, S \ {Pick(S)})
  <2> DEFINE T == S \ {Pick(S)}
  <2>1. IsFiniteSet(T) /\ T \subseteq S
    BY FS_RemoveElement
  <2>2. PICK h : SumsUp(h, f, T) /\ SumFunctionOnSet(f, T) = h[T]
    <3> HIDE DEF T
    <3> QED
      BY <2>1, SumIteration
  <2>3. h[T] = g[T]
    <3> HIDE DEF T
    <3> QED
      BY <1>1, <2>1, <2>2, SumsAgree
  <2> QED
    BY <1>1, <1>2, <2>2, <2>3 DEF SumsUp
<1> QED
  BY <1>1, <1>2 DEF SumsUp

\* A sum depends on the values over its set alone.
LEMMA SumSame ==
    ASSUME NEW S, IsFiniteSet(S), NEW f, NEW e, \A x \in S : f[x] \in Nat /\ f[x] = e[x]
    PROVE  SumFunctionOnSet(f, S) = SumFunctionOnSet(e, S)
<1>1. PICK g : SumsUp(g, f, S) /\ SumFunctionOnSet(f, S) = g[S]
  BY SumIteration
<1>2. PICK h : SumsUp(h, e, S) /\ SumFunctionOnSet(e, S) = h[S]
  BY SumIteration
<1> QED
  BY <1>1, <1>2, SumsAgree

\* The order in which elements are taken does not matter.
LEMMA SumRemove ==
    ASSUME NEW S, IsFiniteSet(S), NEW f, \A x \in S : f[x] \in Nat, NEW a \in S
    PROVE  SumFunctionOnSet(f, S) = f[a] + SumFunctionOnSet(f, S \ {a})
<1> DEFINE Over(s) == SumFunctionOnSet(f, s)
           Bad == {s \in SUBSET S : \E x \in s : Over(s) # f[x] + Over(s \ {x})}
<1>0. \A s \in SUBSET S : Over(s) \in Nat /\ (s # {} => Over(s) = f[Pick(s)] + Over(s \ {Pick(s)}))
  BY SumStep, FS_Subset
<1> HIDE DEF Over
<1>1. SUFFICES ASSUME Bad # {} PROVE FALSE
  <2>1. Over(S) = f[a] + Over(S \ {a})
    BY <1>1
  <2> QED
    BY <2>1 DEF Over
<1>2. PICK s \in Bad : \A x \in s : s \ {x} \notin Bad
  <2>1. Bad \subseteq SUBSET S
    OBVIOUS
  <2> HIDE DEF Bad
  <2> QED
    BY <1>1, <2>1, LeastSet
<1>3. PICK x \in s : Over(s) # f[x] + Over(s \ {x})
  BY <1>2
<1> DEFINE c == Pick(s)
<1>4. c \in s /\ s \in SUBSET S /\ Over(s) = f[c] + Over(s \ {c})
  BY <1>0, <1>2, <1>3, PickFrom
<1> HIDE DEF c
<1>5. c # x
  BY <1>3, <1>4
<1>6. s \ {c} \in SUBSET S /\ s \ {x} \in SUBSET S /\ s \ {c} \notin Bad /\ s \ {x} \notin Bad
  BY <1>2, <1>4
<1>7. Over(s \ {c}) = f[x] + Over((s \ {c}) \ {x})
  BY <1>4, <1>5, <1>6
<1>8. Over(s \ {x}) = f[c] + Over((s \ {x}) \ {c})
  BY <1>4, <1>5, <1>6
<1>9. (s \ {c}) \ {x} = (s \ {x}) \ {c} /\ (s \ {x}) \ {c} \in SUBSET S
  BY <1>6
<1>10. f[x] \in Nat /\ f[c] \in Nat /\ Over((s \ {x}) \ {c}) \in Nat
  BY <1>0, <1>4, <1>9
<1> QED
  BY <1>3, <1>4, <1>7, <1>8, <1>9, <1>10

\* One element more.
LEMMA SumInsert ==
    ASSUME NEW S, IsFiniteSet(S), NEW f, \A x \in S : f[x] \in Nat, NEW a, a \notin S, f[a] \in Nat
    PROVE  SumFunctionOnSet(f, S \cup {a}) = f[a] + SumFunctionOnSet(f, S)
<1>1. IsFiniteSet(S \cup {a}) /\ (S \cup {a}) \ {a} = S
  BY FS_AddElement
<1>2. \A x \in S \cup {a} : f[x] \in Nat
  OBVIOUS
<1> QED
  BY <1>1, <1>2, SumRemove

\* One value that grows by n.
LEMMA SumGrows ==
    ASSUME NEW S, IsFiniteSet(S), NEW f, NEW e, NEW a \in S, NEW n \in Nat,
           \A x \in S : f[x] \in Nat, e[a] = f[a] + n, \A x \in S \ {a} : e[x] = f[x]
    PROVE  SumFunctionOnSet(e, S) = SumFunctionOnSet(f, S) + n
<1>1. \A x \in S : e[x] \in Nat
  OBVIOUS
<1>2. SumFunctionOnSet(e, S) = e[a] + SumFunctionOnSet(e, S \ {a})
  BY <1>1, SumRemove
<1>3. SumFunctionOnSet(f, S) = f[a] + SumFunctionOnSet(f, S \ {a})
  BY SumRemove
<1>4. SumFunctionOnSet(e, S \ {a}) = SumFunctionOnSet(f, S \ {a})
  BY FS_RemoveElement, SumSame
<1>5. SumFunctionOnSet(f, S \ {a}) \in Nat
  BY FS_RemoveElement, SumStep
<1> QED
  BY <1>2, <1>3, <1>4, <1>5

\* What is zero does not count.
LEMMA SumZeros ==
    ASSUME NEW S, IsFiniteSet(S), NEW f, \A x \in S : f[x] \in Nat, NEW T, T \subseteq S,
           \A x \in S \ T : f[x] = 0
    PROVE  SumFunctionOnSet(f, S) = SumFunctionOnSet(f, T)
<1> DEFINE Bad == {s \in SUBSET S : SumFunctionOnSet(f, s) # SumFunctionOnSet(f, s \cap T)}
<1>1. SUFFICES ASSUME Bad # {} PROVE FALSE
  <2>1. S \notin Bad /\ S \cap T = T
    BY <1>1
  <2> QED
    BY <2>1
<1>2. PICK s \in Bad : \A x \in s : s \ {x} \notin Bad
  <2>1. Bad \subseteq SUBSET S
    OBVIOUS
  <2> HIDE DEF Bad
  <2> QED
    BY <1>1, <2>1, LeastSet
<1>3. s \in SUBSET S /\ SumFunctionOnSet(f, s) # SumFunctionOnSet(f, s \cap T)
  BY <1>2
<1>4. ~(s \subseteq T)
  <2>1. s \cap T # s
    BY <1>3
  <2> QED
    BY <2>1
<1>5. PICK x \in s : x \notin T
  BY <1>4
<1>6. s \ {x} \in SUBSET S /\ s \ {x} \notin Bad /\ (s \ {x}) \cap T = s \cap T
  BY <1>2, <1>3, <1>5
<1>7. SumFunctionOnSet(f, s \ {x}) = SumFunctionOnSet(f, s \cap T)
  BY <1>6
<1> HIDE DEF Bad
<1>8. IsFiniteSet(s) /\ f[x] = 0 /\ \A y \in s : f[y] \in Nat
  BY <1>3, <1>5, FS_Subset
<1>9. SumFunctionOnSet(f, s) = f[x] + SumFunctionOnSet(f, s \ {x})
  BY <1>8, SumRemove
<1>10. SumFunctionOnSet(f, s \ {x}) \in Nat
  BY <1>8, FS_RemoveElement, SumStep
<1> QED
  BY <1>3, <1>7, <1>8, <1>9, <1>10

\* Two sums in one.
LEMMA SumPlus ==
    ASSUME NEW S, IsFiniteSet(S), NEW f, NEW e, NEW h,
           \A x \in S : f[x] \in Nat /\ e[x] \in Nat /\ h[x] = f[x] + e[x]
    PROVE  SumFunctionOnSet(h, S) = SumFunctionOnSet(f, S) + SumFunctionOnSet(e, S)
<1> DEFINE SumF(s) == SumFunctionOnSet(f, s)
           SumE(s) == SumFunctionOnSet(e, s)
           SumH(s) == SumFunctionOnSet(h, s)
           Bad == {s \in SUBSET S : SumH(s) # SumF(s) + SumE(s)}
<1>0. \A s \in SUBSET S : IsFiniteSet(s)
  BY FS_Subset
<1>1. \A s \in SUBSET S : /\ SumF(s) \in Nat /\ SumE(s) \in Nat /\ SumH(s) \in Nat
                          /\ s = {} => SumF(s) = 0 /\ SumE(s) = 0 /\ SumH(s) = 0
  <2> SUFFICES ASSUME NEW s \in SUBSET S
               PROVE  /\ SumF(s) \in Nat /\ SumE(s) \in Nat /\ SumH(s) \in Nat
                      /\ s = {} => SumF(s) = 0 /\ SumE(s) = 0 /\ SumH(s) = 0
    OBVIOUS
  <2>1. IsFiniteSet(s) /\ \A y \in s : f[y] \in Nat /\ e[y] \in Nat /\ h[y] \in Nat
    BY <1>0
  <2> QED
    BY <2>1, SumStep
<1>2. \A s \in SUBSET S, x \in S : x \in s =>
        /\ SumF(s) = f[x] + SumF(s \ {x}) /\ SumE(s) = e[x] + SumE(s \ {x})
        /\ SumH(s) = h[x] + SumH(s \ {x})
  <2> SUFFICES ASSUME NEW s \in SUBSET S, NEW x \in s
               PROVE  /\ SumF(s) = f[x] + SumF(s \ {x}) /\ SumE(s) = e[x] + SumE(s \ {x})
                      /\ SumH(s) = h[x] + SumH(s \ {x})
    OBVIOUS
  <2>1. \A y \in s : f[y] \in Nat /\ e[y] \in Nat /\ h[y] \in Nat
    OBVIOUS
  <2> QED
    BY <1>0, <2>1, SumRemove
<1>3. SUFFICES ASSUME Bad # {} PROVE FALSE
  BY <1>3
<1> HIDE DEF SumF, SumE, SumH
<1>4. PICK s \in Bad : \A x \in s : s \ {x} \notin Bad
  <2>1. Bad \subseteq SUBSET S
    OBVIOUS
  <2> HIDE DEF Bad
  <2> QED
    BY <1>3, <2>1, LeastSet
<1>5. s # {}
  BY <1>1, <1>4
<1>6. PICK x \in s : TRUE
  BY <1>5
<1>7. s \ {x} \in SUBSET S /\ SumH(s \ {x}) = SumF(s \ {x}) + SumE(s \ {x})
  BY <1>4, <1>6
<1>8. h[x] = f[x] + e[x] /\ f[x] \in Nat /\ e[x] \in Nat
  BY <1>4, <1>6
<1> QED
  BY <1>1, <1>2, <1>4, <1>6, <1>7, <1>8

-----------------------------------------------------------------------------
(* Powers of two.                                                           *)

\* The recursive definition of a shift defines it.
LEMMA PowersOfTwo ==
    /\ TwoTo[0] = 1
    /\ \A n \in Nat : TwoTo[n] \in Nat /\ TwoTo[n] > 0 /\ TwoTo[n + 1] = 2 * TwoTo[n]
<1> DEFINE Doubles(f) == f = [n \in Nat |-> IF n = 0 THEN 1 ELSE 2 * f[n - 1]]
           rank == [n \in Nat |-> n]
           prev == [n \in Nat |-> IF n = 0 THEN 0 ELSE n - 1]
           base == [n \in Nat |-> 1]
           step == [n \in Nat |-> [v \in Nat |-> 2 * v]]
<1>1. /\ rank \in [Nat -> Nat] /\ prev \in [Nat -> Nat] /\ base \in [Nat -> Nat]
      /\ step \in [Nat -> [Nat -> Nat]]
      /\ \A n \in Nat : rank[n] # 0 => rank[prev[n]] < rank[n]
  OBVIOUS
<1>2. PICK g \in [Nat -> Nat] : Obeys(g, Nat, rank, prev, base, step)
  <2> HIDE DEF rank, prev, base, step
  <2> QED
    BY <1>1, Recursion
<1>3. \A n \in Nat : g[n] = IF n = 0 THEN 1 ELSE 2 * g[n - 1]
  <2> SUFFICES ASSUME NEW n \in Nat PROVE g[n] = IF n = 0 THEN 1 ELSE 2 * g[n - 1]
    OBVIOUS
  <2>1. g[prev[n]] \in Nat
    BY <1>2
  <2> QED
    BY <1>2, <2>1 DEF Obeys
<1>4. Doubles(g)
  BY <1>2, <1>3
<1>5. Doubles(TwoTo)
  <2> HIDE DEF Doubles
  <2>1. TwoTo = CHOOSE f : Doubles(f)
    BY DEF TwoTo, Doubles
  <2> QED
    BY <1>4, <2>1
<1>6. \A n \in Nat : TwoTo[n] = IF n = 0 THEN 1 ELSE 2 * TwoTo[n - 1]
  BY <1>5
<1> DEFINE Bad == {n \in Nat : ~(TwoTo[n] \in Nat /\ TwoTo[n] > 0)}
<1>7. Bad = {}
  <2>1. SUFFICES ASSUME Bad # {} PROVE FALSE
    OBVIOUS
  <2>2. PICK n \in Bad : \A m \in Bad : n <= m
    <3>1. Bad \subseteq Nat
      OBVIOUS
    <3> HIDE DEF Bad
    <3> QED
      BY <2>1, <3>1, NatMin
  <2>3. n \in Nat /\ n # 0
    BY <1>6, <2>2
  <2>4. n - 1 \in Nat /\ n - 1 \notin Bad
    BY <2>2, <2>3
  <2>5. TwoTo[n - 1] \in Nat /\ TwoTo[n - 1] > 0 /\ TwoTo[n] = 2 * TwoTo[n - 1]
    BY <1>6, <2>3, <2>4
  <2> QED
    BY <2>2, <2>5
<1>8. ASSUME NEW n \in Nat
      PROVE  TwoTo[n] \in Nat /\ TwoTo[n] > 0 /\ TwoTo[n + 1] = 2 * TwoTo[n]
  <2>1. n + 1 \in Nat /\ n + 1 # 0 /\ (n + 1) - 1 = n
    OBVIOUS
  <2>2. TwoTo[n + 1] = 2 * TwoTo[(n + 1) - 1]
    BY <1>6, <2>1
  <2> QED
    BY <1>7, <2>1, <2>2
<1> QED
  BY <1>6, <1>8

\* A shift of a shift.
LEMMA PowerSum ==
    ASSUME NEW a \in Nat, NEW b \in Nat
    PROVE  TwoTo[a + b] = TwoTo[a] * TwoTo[b]
<1> DEFINE Bad == {n \in Nat : TwoTo[a + n] # TwoTo[a] * TwoTo[n]}
<1>1. SUFFICES ASSUME Bad # {} PROVE FALSE
  OBVIOUS
<1>2. PICK n \in Bad : \A m \in Bad : n <= m
  <2>1. Bad \subseteq Nat
    OBVIOUS
  <2> HIDE DEF Bad
  <2> QED
    BY <1>1, <2>1, NatMin
<1>3. n # 0
  BY <1>2, PowersOfTwo
<1>4. n \in Nat /\ n - 1 \in Nat /\ n - 1 \notin Bad
  BY <1>2, <1>3
<1>5. TwoTo[a + (n - 1)] = TwoTo[a] * TwoTo[n - 1]
  BY <1>4
<1>6. TwoTo[n] = 2 * TwoTo[n - 1] /\ TwoTo[a + n] = 2 * TwoTo[a + (n - 1)]
  <2>1. (n - 1) + 1 = n /\ (a + (n - 1)) + 1 = a + n /\ a + (n - 1) \in Nat
    BY <1>4
  <2> QED
    BY <1>4, <2>1, PowersOfTwo
<1>7. TwoTo[a + n] # TwoTo[a] * TwoTo[n]
  BY <1>2
<1> DEFINE x == TwoTo[a]
           y == TwoTo[n - 1]
<1>8. x \in Nat /\ y \in Nat
  BY <1>4, PowersOfTwo
<1>9. x * (2 * y) = 2 * (x * y)
  <2> HIDE DEF x, y
  <2> QED
    BY <1>8
<1> QED
  BY <1>5, <1>6, <1>7, <1>9

\* Shifting further at least doubles.
LEMMA PowerGrows ==
    ASSUME NEW a \in Nat, NEW b \in Nat, a <= b
    PROVE  TwoTo[a] <= TwoTo[b] /\ (a < b => 2 * TwoTo[a] <= TwoTo[b])
<1> DEFINE d == b - a
<1>1. d \in Nat /\ a + d = b
  OBVIOUS
<1> HIDE DEF d
<1>2. TwoTo[b] = TwoTo[a] * TwoTo[d]
  BY <1>1, PowerSum
<1>3. TwoTo[a] \in Nat /\ TwoTo[a] > 0 /\ TwoTo[d] \in Nat /\ TwoTo[d] > 0
  BY <1>1, PowersOfTwo
<1>4. ASSUME NEW x \in Nat, NEW y \in Nat, y > 0 PROVE x <= x * y /\ (y >= 2 => 2 * x <= x * y)
  <2>1. x * 1 <= x * y
    BY <1>4
  <2>2. y >= 2 => x * 2 <= x * y
    BY <1>4
  <2> QED
    BY <2>1, <2>2
<1>5. a < b => TwoTo[d] >= 2
  <2> SUFFICES ASSUME a < b PROVE TwoTo[d] >= 2
    OBVIOUS
  <2>1. d - 1 \in Nat /\ (d - 1) + 1 = d
    BY <1>1
  <2>2. TwoTo[d] = 2 * TwoTo[d - 1] /\ TwoTo[d - 1] \in Nat /\ TwoTo[d - 1] > 0
    BY <2>1, PowersOfTwo
  <2> QED
    BY <2>2
<1> QED
  BY <1>2, <1>3, <1>4, <1>5

\* A number has fewer bits than its value.
LEMMA PowerExceeds ==
    ASSUME NEW n \in Nat
    PROVE  n < TwoTo[n]
<1> DEFINE Bad == {k \in Nat : ~(k < TwoTo[k])}
<1>1. SUFFICES ASSUME Bad # {} PROVE FALSE
  OBVIOUS
<1>2. PICK k \in Bad : \A m \in Bad : k <= m
  <2>1. Bad \subseteq Nat
    OBVIOUS
  <2> HIDE DEF Bad
  <2> QED
    BY <1>1, <2>1, NatMin
<1>3. k # 0
  BY <1>2, PowersOfTwo
<1>4. k \in Nat /\ k - 1 \in Nat /\ k - 1 \notin Bad /\ (k - 1) + 1 = k
  BY <1>2, <1>3
<1>5. k - 1 < TwoTo[k - 1] /\ TwoTo[k] = 2 * TwoTo[k - 1] /\ TwoTo[k - 1] \in Nat
  BY <1>4, PowersOfTwo
<1> QED
  BY <1>2, <1>4, <1>5

\* The length k of n in bits.
HasBits(n, k) == k \in Nat /\ n < TwoTo[k] /\ (k > 0 => TwoTo[k - 1] <= n)

\* No number has two lengths.
LEMMA OneLength ==
    ASSUME NEW n \in Nat, NEW j, NEW k, HasBits(n, j), HasBits(n, k)
    PROVE  j = k
<1>1. ASSUME NEW a \in Nat, NEW b \in Nat, a < b, n < TwoTo[a], TwoTo[b - 1] <= n
      PROVE  FALSE
  <2>1. b - 1 \in Nat /\ a <= b - 1
    BY <1>1
  <2>2. TwoTo[a] <= TwoTo[b - 1] /\ TwoTo[a] \in Nat /\ TwoTo[b - 1] \in Nat
    BY <2>1, PowerGrows, PowersOfTwo
  <2> QED
    BY <1>1, <2>2
<1>2. j \in Nat /\ k \in Nat
  BY DEF HasBits
<1>3. CASE j < k
  BY <1>1, <1>2, <1>3 DEF HasBits
<1>4. CASE k < j
  BY <1>1, <1>2, <1>4 DEF HasBits
<1> QED
  BY <1>2, <1>3, <1>4

\* Every number has a length.
LEMMA BitLengthIs ==
    ASSUME NEW n \in Nat
    PROVE  BitLength(n) \in Nat /\ HasBits(n, BitLength(n))
<1> DEFINE Enough == {k \in Nat : n < TwoTo[k]}
<1>1. n \in Enough
  BY PowerExceeds
<1>2. PICK k \in Enough : \A j \in Enough : k <= j
  <2>1. Enough \subseteq Nat
    OBVIOUS
  <2> HIDE DEF Enough
  <2> QED
    BY <1>1, <2>1, NatMin
<1>3. k \in Nat /\ k <= n /\ n < TwoTo[k]
  BY <1>1, <1>2
<1>4. ASSUME k > 0 PROVE TwoTo[k - 1] <= n
  <2>1. k - 1 \in Nat /\ k - 1 \notin Enough /\ TwoTo[k - 1] \in Nat
    BY <1>2, <1>3, <1>4, PowersOfTwo
  <2> QED
    BY <2>1
<1>5. k \in 0..n /\ n < TwoTo[k] /\ (k > 0 => TwoTo[k - 1] <= n)
  BY <1>3, <1>4
<1>6. BitLength(n) \in 0..n /\ n < TwoTo[BitLength(n)]
      /\ (BitLength(n) > 0 => TwoTo[BitLength(n) - 1] <= n)
  BY <1>5 DEF BitLength
<1> QED
  BY <1>6 DEF HasBits

\* And it is the one found.
LEMMA BitLengthOf ==
    ASSUME NEW n \in Nat, NEW k, HasBits(n, k)
    PROVE  BitLength(n) = k
  BY BitLengthIs, OneLength

-----------------------------------------------------------------------------
(* The sizes of a histogram.                                                *)

\* A unit in a bucket.
Unit(bucket) == TwoTo[bucket + unit_magnitude]

\* The sizes of a bucket (hdr_init).
LEMMA Magnitudes ==
    /\ sub_bucket_half_count_magnitude \in Nat /\ unit_magnitude \in Nat
    /\ sub_bucket_half_count = TwoTo[sub_bucket_half_count_magnitude]
    /\ sub_bucket_half_count \in Nat /\ sub_bucket_half_count > 0
    /\ sub_bucket_count = 2 * sub_bucket_half_count
<1>1. sub_bucket_half_count_magnitude \in Nat
  <2> DEFINE r == Radix ^ significant_figures
  <2>1. r \in Nat /\ r # 0
    BY HdrAssumption
  <2>2. largest_value_with_single_unit_resolution = 2 * r
    BY DEF largest_value_with_single_unit_resolution
  <2> HIDE DEF r
  <2>3. largest_value_with_single_unit_resolution - 1 \in Nat
    BY <2>1, <2>2
  <2>4. sub_bucket_count_magnitude \in Nat
    BY <2>3, BitLengthIs DEF sub_bucket_count_magnitude
  <2> QED
    BY <2>4 DEF sub_bucket_half_count_magnitude
<1>2. unit_magnitude \in Nat
  <2>1. lowest_trackable_value \in Nat /\ lowest_trackable_value # 0
    BY HdrAssumption
  <2>2. BitLength(lowest_trackable_value) # 0
    BY <2>1, BitLengthIs, PowersOfTwo DEF HasBits
  <2> QED
    BY <2>1, <2>2, BitLengthIs DEF unit_magnitude
<1>3. sub_bucket_count = 2 * TwoTo[sub_bucket_half_count_magnitude]
  BY <1>1, PowersOfTwo DEF sub_bucket_count
<1>4. /\ TwoTo[sub_bucket_half_count_magnitude] \in Nat
      /\ TwoTo[sub_bucket_half_count_magnitude] > 0
  BY <1>1, PowersOfTwo
<1>5. sub_bucket_half_count = TwoTo[sub_bucket_half_count_magnitude]
  BY <1>3, <1>4 DEF sub_bucket_half_count
<1> QED
  BY <1>1, <1>2, <1>3, <1>4, <1>5

\* What the first bucket covers.
LEMMA Mask ==
    LET m == sub_bucket_half_count_magnitude
        u == unit_magnitude
    IN  /\ sub_bucket_mask \in Nat
        /\ TwoTo[m + u] <= sub_bucket_mask /\ sub_bucket_mask < TwoTo[m + u + 1]
<1> DEFINE m == sub_bucket_half_count_magnitude
           u == unit_magnitude
           h == sub_bucket_half_count
           w == TwoTo[u]
<1>1. m \in Nat /\ u \in Nat /\ h \in Nat /\ h > 0 /\ sub_bucket_count = 2 * h /\ h = TwoTo[m]
  BY Magnitudes
<1>2. w \in Nat /\ w > 0
  BY <1>1, PowersOfTwo
<1>3. TwoTo[m + u] = h * w /\ TwoTo[m + u + 1] = 2 * (h * w)
  <2>1. TwoTo[m + u] = h * w
    BY <1>1, PowerSum
  <2>2. m + u \in Nat /\ TwoTo[(m + u) + 1] = 2 * TwoTo[m + u]
    BY <1>1, PowersOfTwo
  <2> QED
    BY <2>1, <2>2
<1>4. sub_bucket_mask = (2 * h - 1) * w
  BY <1>1 DEF sub_bucket_mask
<1> HIDE DEF m, u, h, w
<1>5. (2 * h - 1) * w = 2 * (h * w) - w
  BY <1>1, <1>2
<1>6. h * w \in Nat /\ w <= h * w
  BY <1>1, <1>2
<1>7. /\ sub_bucket_mask \in Nat
      /\ TwoTo[m + u] <= sub_bucket_mask /\ sub_bucket_mask < TwoTo[m + u + 1]
  BY <1>2, <1>3, <1>4, <1>5, <1>6
<1> QED
  BY <1>7 DEF m, u

\* The number of buckets and of counts (hdr_init).
LEMMA Buckets ==
    /\ bucket_count \in Nat /\ bucket_count > 0
    /\ counts_len \in Nat /\ counts_len > 0
    /\ counts_len = (bucket_count + 1) * sub_bucket_half_count
<1> DEFINE high == highest_trackable_value
           mask == sub_bucket_mask
           Covers == {n \in Nat : n > 0 /\ mask * TwoTo[n - 1] >= high}
<1>1. high \in Nat /\ high > 0
  BY HdrAssumption
<1>2. mask \in Nat /\ mask > 0
  BY Mask, Magnitudes, PowersOfTwo
<1> HIDE DEF high, mask
<1>3. high + 1 \in Covers
  <2>1. TwoTo[high] \in Nat /\ high < TwoTo[high]
    BY <1>1, PowerExceeds, PowersOfTwo
  <2>2. mask * TwoTo[high] >= TwoTo[high]
    BY <1>2, <2>1
  <2>3. (high + 1) - 1 = high
    BY <1>1
  <2>4. mask * TwoTo[high] \in Nat
    BY <1>2, <2>1
  <2>5. mask * TwoTo[(high + 1) - 1] >= high
    BY <1>1, <2>1, <2>2, <2>3, <2>4
  <2> QED
    BY <1>1, <2>5
<1>4. PICK n \in Covers : \A k \in Covers : n <= k
  <2>1. Covers \subseteq Nat
    OBVIOUS
  <2> HIDE DEF Covers
  <2> QED
    BY <1>3, <2>1, NatMin
<1>5. n \in 1..high + 1 /\ mask * TwoTo[n - 1] >= high
  BY <1>1, <1>3, <1>4
<1>6. n > 1 => mask * TwoTo[n - 2] < high
  <2> SUFFICES ASSUME n > 1 PROVE mask * TwoTo[n - 2] < high
    OBVIOUS
  <2>1. n - 1 \in Nat /\ n - 1 > 0 /\ n - 2 \in Nat /\ (n - 1) - 1 = n - 2 /\ ~(n <= n - 1)
    BY <1>5
  <2>2. n - 1 \notin Covers
    BY <1>4, <2>1
  <2>3. ~(mask * TwoTo[n - 2] >= high)
    BY <2>1, <2>2
  <2>4. mask * TwoTo[n - 2] \in Nat
    BY <1>2, <2>1, PowersOfTwo
  <2> QED
    BY <1>1, <2>3, <2>4
<1> HIDE DEF Covers
<1>7. bucket_count \in 1..high + 1
  BY <1>5, <1>6 DEF bucket_count, high, mask
<1>8. bucket_count \in Nat /\ bucket_count > 0
  BY <1>1, <1>7
<1>9. counts_len = (bucket_count + 1) * sub_bucket_half_count
  BY DEF counts_len
<1>10. ASSUME NEW a \in Nat, NEW b \in Nat, a > 0, b > 0 PROVE (a + 1) * b \in Nat /\ (a + 1) * b > 0
  BY <1>10
<1> QED
  BY <1>8, <1>9, <1>10, Magnitudes

-----------------------------------------------------------------------------
(* The place of a value.                                                    *)

\* What a quotient is, with a symbolic divisor.
LEMMA Quotient ==
    ASSUME NEW a \in Nat, NEW d \in Nat, d > 0
    PROVE  /\ a \div d \in Nat
           /\ (a \div d) * d <= a /\ a < (a \div d + 1) * d
<1>1. a \div d \in Nat /\ a % d \in 0..d - 1 /\ a = d * (a \div d) + (a % d)
  OBVIOUS
<1> DEFINE q == a \div d
           r == a % d
<1> HIDE DEF q, r
<1>2. q \in Nat /\ r \in 0..d - 1 /\ a = d * q + r
  BY <1>1 DEF q, r
<1>3. d * q = q * d /\ (q + 1) * d = q * d + d /\ q * d \in Nat
  BY <1>2
<1>4. q \in Nat /\ q * d <= a /\ a < (q + 1) * d
  BY <1>2, <1>3
<1> QED
  BY <1>4 DEF q

\* And that nothing else is one.
LEMMA OneQuotient ==
    ASSUME NEW a \in Nat, NEW d \in Nat, d > 0, NEW q \in Nat, q * d <= a, a < (q + 1) * d
    PROVE  a \div d = q
<1> DEFINE p == a \div d
<1>1. p \in Nat /\ p * d <= a /\ a < (p + 1) * d
  BY Quotient
<1> HIDE DEF p
<1>2. ASSUME NEW x \in Nat, NEW y \in Nat, x < y PROVE (x + 1) * d <= y * d
  BY <1>2
<1>3. p * d \in Nat /\ q * d \in Nat /\ (p + 1) * d \in Nat /\ (q + 1) * d \in Nat
  BY <1>1
<1>4. ~(p < q) /\ ~(q < p)
  BY <1>1, <1>2, <1>3
<1> QED
  BY <1>1, <1>4 DEF p

\* A place: its bucket and sub-bucket.
IsPlace(bucket, sub) ==
    /\ bucket \in 0..bucket_count - 1 /\ sub \in 0..sub_bucket_count - 1
    /\ bucket > 0 => sub >= sub_bucket_half_count

Within(v, bucket, sub) == sub * Unit(bucket) <= v /\ v < (sub + 1) * Unit(bucket)

\* The range of the values in a bucket.
InBucket(v, b) ==
    LET mu == sub_bucket_half_count_magnitude + unit_magnitude
    IN  v < TwoTo[b + mu + 1] /\ (b > 0 => TwoTo[b + mu] <= v)

\* A value is in the bucket that get_bucket_index gives.
LEMMA BucketOf ==
    ASSUME NEW v \in Nat, NEW b \in Nat, InBucket(v, b)
    PROVE  get_bucket_index(v) = b
<1> DEFINE m == sub_bucket_half_count_magnitude
           u == unit_magnitude
           mask == sub_bucket_mask
<1>1. m \in Nat /\ u \in Nat /\ mask \in Nat /\ TwoTo[m + u] <= mask /\ mask < TwoTo[m + u + 1]
  BY Magnitudes, Mask
<1>2. v < TwoTo[b + (m + u) + 1] /\ (b > 0 => TwoTo[b + (m + u)] <= v)
  BY DEF InBucket
<1>3. get_bucket_index(v) = (IF v > mask THEN BitLength(v) ELSE BitLength(mask)) - u - (m + 1)
  BY DEF get_bucket_index
<1> HIDE DEF m, u, mask
<1>4. BitLength(mask) = m + u + 1
  <2>1. HasBits(mask, m + u + 1)
    <3>1. (m + u + 1) - 1 = m + u /\ m + u + 1 \in Nat
      BY <1>1
    <3> QED
      BY <1>1, <3>1 DEF HasBits
  <2> QED
    BY <1>1, <2>1, BitLengthOf
<1>5. ASSUME b = 0 \/ v > mask, v > mask PROVE BitLength(v) = b + (m + u) + 1
  <2>1. TwoTo[b + (m + u)] <= v
    <3>1. CASE b > 0
      BY <1>2, <3>1
    <3>2. CASE b = 0
      <4>1. b + (m + u) = m + u /\ TwoTo[m + u] \in Nat
        BY <1>1, <3>2, PowersOfTwo
      <4> QED
        BY <1>1, <1>5, <4>1
    <3> QED
      BY <3>1, <3>2
  <2>2. (b + (m + u) + 1) - 1 = b + (m + u) /\ b + (m + u) + 1 \in Nat
    BY <1>1
  <2>3. HasBits(v, b + (m + u) + 1)
    BY <1>2, <2>1, <2>2 DEF HasBits
  <2> QED
    BY <2>3, BitLengthOf
<1>6. ASSUME ~(v > mask) PROVE b = 0
  <2> SUFFICES ASSUME b > 0 PROVE FALSE
    OBVIOUS
  <2>1. m + u + 1 \in Nat /\ b + (m + u) \in Nat /\ m + u + 1 <= b + (m + u)
    BY <1>1
  <2>2. TwoTo[m + u + 1] <= TwoTo[b + (m + u)] /\ TwoTo[m + u + 1] \in Nat
        /\ TwoTo[b + (m + u)] \in Nat
    BY <2>1, PowerGrows, PowersOfTwo
  <2> QED
    BY <1>1, <1>2, <1>6, <2>2
<1>7. CASE v > mask
  <2>1. get_bucket_index(v) = (b + (m + u) + 1) - u - (m + 1)
    BY <1>3, <1>5, <1>7
  <2> QED
    BY <1>1, <2>1
<1>8. CASE ~(v > mask)
  <2>1. get_bucket_index(v) = (m + u + 1) - u - (m + 1)
    BY <1>3, <1>4, <1>8
  <2> QED
    BY <1>1, <1>6, <1>8, <2>1
<1> QED
  BY <1>7, <1>8

\* And is so whenever it is in some bucket.
LEMMA BucketFound ==
    ASSUME NEW v \in Nat
    PROVE  get_bucket_index(v) \in Nat /\ InBucket(v, get_bucket_index(v))
<1> DEFINE mu == sub_bucket_half_count_magnitude + unit_magnitude
           Covers == {b \in Nat : v < TwoTo[b + mu + 1]}
<1>1. mu \in Nat
  BY Magnitudes
<1> HIDE DEF mu
<1>2. v \in Covers
  <2>1. v < TwoTo[v] /\ TwoTo[v] <= TwoTo[v + mu + 1] /\ TwoTo[v] \in Nat /\ TwoTo[v + mu + 1] \in Nat
    BY <1>1, PowerExceeds, PowerGrows, PowersOfTwo
  <2> QED
    BY <2>1
<1>3. PICK b \in Covers : \A a \in Covers : b <= a
  <2>1. Covers \subseteq Nat
    OBVIOUS
  <2> HIDE DEF Covers
  <2> QED
    BY <1>2, <2>1, NatMin
<1>4. b \in Nat /\ v < TwoTo[b + mu + 1]
  BY <1>3
<1>5. ASSUME b > 0 PROVE TwoTo[b + mu] <= v
  <2>1. b - 1 \in Nat /\ (b - 1) + mu + 1 = b + mu /\ ~(b <= b - 1) /\ TwoTo[b + mu] \in Nat
    BY <1>1, <1>4, <1>5, PowersOfTwo
  <2>2. b - 1 \notin Covers
    BY <1>3, <2>1
  <2> QED
    BY <2>1, <2>2
<1>6. InBucket(v, b)
  BY <1>4, <1>5 DEF InBucket, mu
<1> QED
  BY <1>4, <1>6, BucketOf

\* A bucket's values in its units.
LEMMA BucketUnits ==
    ASSUME NEW b \in Nat
    PROVE  LET mu == sub_bucket_half_count_magnitude + unit_magnitude
           IN  /\ Unit(b) \in Nat /\ Unit(b) > 0 /\ Unit(b + 1) = 2 * Unit(b)
               /\ TwoTo[b + mu] = sub_bucket_half_count * Unit(b)
               /\ TwoTo[b + mu + 1] = sub_bucket_count * Unit(b)
<1> DEFINE m == sub_bucket_half_count_magnitude
           u == unit_magnitude
           h == sub_bucket_half_count
<1>1. m \in Nat /\ u \in Nat /\ h \in Nat /\ h = TwoTo[m] /\ sub_bucket_count = 2 * h
  BY Magnitudes
<1>2. b + u \in Nat /\ (b + 1) + u = (b + u) + 1 /\ b + (m + u) = m + (b + u) /\ m + (b + u) \in Nat
  BY <1>1
<1>3. Unit(b) \in Nat /\ Unit(b) > 0 /\ Unit(b + 1) = 2 * Unit(b)
  BY <1>2, PowersOfTwo DEF Unit
<1>4. TwoTo[m + (b + u)] = h * Unit(b)
  BY <1>1, <1>2, PowerSum DEF Unit
<1>5. TwoTo[m + (b + u) + 1] = 2 * (h * Unit(b))
  BY <1>2, <1>4, PowersOfTwo
<1> HIDE DEF m, u, h
<1>6. 2 * (h * Unit(b)) = (2 * h) * Unit(b)
  BY <1>1, <1>3
<1>7. /\ TwoTo[b + (m + u)] = h * Unit(b)
      /\ TwoTo[b + (m + u) + 1] = sub_bucket_count * Unit(b)
  BY <1>1, <1>2, <1>4, <1>5, <1>6
<1> QED
  BY <1>3, <1>7 DEF m, u, h

\* A value that is not negative is found in the sub-bucket whose range it is
\* in; the only thing that may be wrong is its bucket.
LEMMA Found ==
    ASSUME NEW v \in Nat
    PROVE  LET b == get_bucket_index(v)
               s == get_sub_bucket_index(v)
           IN  /\ b \in Nat /\ s \in Nat /\ Within(v, b, s)
               /\ s < sub_bucket_count
               /\ b > 0 => s >= sub_bucket_half_count
<1> DEFINE b == get_bucket_index(v)
           s == get_sub_bucket_index(v)
           h == sub_bucket_half_count
           w == Unit(b)
<1>1. b \in Nat /\ InBucket(v, b)
  BY BucketFound
<1>2. h \in Nat /\ h > 0 /\ sub_bucket_count = 2 * h
  BY Magnitudes
<1>3. /\ w \in Nat /\ w > 0
      /\ v < (2 * h) * w /\ (b > 0 => h * w <= v)
  <2> HIDE DEF b
  <2> QED
    BY <1>1, <1>2, BucketUnits DEF InBucket
<1>4. s = v \div w
  BY DEF get_sub_bucket_index, Unit
<1> HIDE DEF b, s, h, w
<1>5. s \in Nat /\ s * w <= v /\ v < (s + 1) * w
  BY <1>3, <1>4, Quotient
<1>6. ASSUME NEW x \in Nat, NEW y \in Nat, x < y PROVE (x + 1) * w <= y * w
  BY <1>3, <1>6
<1>7. s * w \in Nat /\ (s + 1) * w \in Nat /\ (2 * h) * w \in Nat /\ h * w \in Nat
  BY <1>2, <1>3, <1>5
<1>8. s < 2 * h
  <2> SUFFICES ASSUME ~(s < 2 * h) PROVE FALSE
    OBVIOUS
  <2>1. s = 2 * h \/ (2 * h < s /\ (2 * h + 1) * w <= s * w)
    BY <1>2, <1>5, <1>6
  <2>2. (2 * h) * w <= (2 * h + 1) * w /\ (2 * h + 1) * w \in Nat
    BY <1>2, <1>3
  <2> QED
    BY <1>3, <1>5, <1>7, <2>1, <2>2
<1>9. b > 0 => s >= h
  <2> SUFFICES ASSUME b > 0, s < h PROVE FALSE
    BY <1>2, <1>5
  <2>1. (s + 1) * w <= h * w
    BY <1>2, <1>5, <1>6
  <2> QED
    BY <1>3, <1>5, <1>7, <2>1
<1> QED
  BY <1>1, <1>2, <1>5, <1>8, <1>9 DEF b, s, h, w, Within

\* Every value within a place is found at that place.
LEMMA FoundAgain ==
    ASSUME NEW v \in Nat, NEW b, NEW s, IsPlace(b, s), Within(v, b, s)
    PROVE  get_bucket_index(v) = b /\ get_sub_bucket_index(v) = s
<1> DEFINE h == sub_bucket_half_count
           w == Unit(b)
<1>1. h \in Nat /\ h > 0 /\ sub_bucket_count = 2 * h /\ bucket_count \in Nat
  BY Magnitudes, Buckets
<1>2. b \in Nat /\ s \in Nat /\ s + 1 <= 2 * h /\ (b > 0 => h <= s)
  BY <1>1 DEF IsPlace
<1>3. /\ w \in Nat /\ w > 0
      /\ LET mu == sub_bucket_half_count_magnitude + unit_magnitude
         IN  TwoTo[b + mu] = h * w /\ TwoTo[b + mu + 1] = (2 * h) * w
  BY <1>1, <1>2, BucketUnits
<1>4. s * w <= v /\ v < (s + 1) * w
  BY DEF Within
<1> HIDE DEF h, w
<1>5. ASSUME NEW x \in Nat, NEW y \in Nat, x <= y PROVE x * w <= y * w
  BY <1>3, <1>5
<1>6. (s + 1) * w <= (2 * h) * w /\ (b > 0 => h * w <= s * w)
  BY <1>1, <1>2, <1>5
<1>7. s * w \in Nat /\ (s + 1) * w \in Nat /\ (2 * h) * w \in Nat /\ h * w \in Nat
  BY <1>1, <1>2, <1>3
<1>8. InBucket(v, b)
  BY <1>3, <1>4, <1>6, <1>7 DEF InBucket
<1>9. get_bucket_index(v) = b
  BY <1>2, <1>8, BucketOf
<1>10. get_sub_bucket_index(v) = v \div w
  BY <1>9 DEF get_sub_bucket_index, Unit, w
<1>11. v \div w = s
  BY <1>2, <1>3, <1>4, OneQuotient
<1> QED
  BY <1>9, <1>10, <1>11

\* The place's number, counted from 0.
LEMMA PlaceIndex ==
    ASSUME NEW b, NEW s, IsPlace(b, s)
    PROVE  /\ counts_index(b, s) = b * sub_bucket_half_count + s
           /\ counts_index(b, s) \in 0..counts_len - 1
<1> DEFINE h == sub_bucket_half_count
           n == bucket_count
<1>1. h \in Nat /\ h > 0 /\ sub_bucket_count = 2 * h /\ h = TwoTo[sub_bucket_half_count_magnitude]
      /\ n \in Nat /\ n > 0 /\ counts_len = (n + 1) * h
  BY Magnitudes, Buckets
<1>2. b \in Nat /\ b + 1 <= n /\ s \in Nat /\ s < 2 * h
  BY <1>1 DEF IsPlace
<1>3. counts_index(b, s) = (b + 1) * h + (s - h)
  BY <1>1 DEF counts_index
<1> HIDE DEF h, n
<1>4. (b + 1) * h = b * h + h /\ b * h \in Nat
  BY <1>1, <1>2
<1>5. (b + 1) * h <= n * h /\ (n + 1) * h = n * h + h /\ n * h \in Nat
  BY <1>1, <1>2
<1>6. counts_index(b, s) = b * h + s
  BY <1>1, <1>2, <1>3, <1>4
<1>7. counts_index(b, s) >= 0 /\ counts_index(b, s) < (n + 1) * h /\ counts_index(b, s) \in Int
  BY <1>1, <1>2, <1>4, <1>5, <1>6
<1> QED
  BY <1>1, <1>6, <1>7 DEF h

\* Two places with the same number are one.
LEMMA OnePlace ==
    ASSUME NEW b, NEW s, NEW c, NEW r, IsPlace(b, s), IsPlace(c, r),
           b * sub_bucket_half_count + s = c * sub_bucket_half_count + r
    PROVE  b = c /\ s = r
<1> DEFINE h == sub_bucket_half_count
<1>1. h \in Nat /\ h > 0 /\ sub_bucket_count = 2 * h /\ bucket_count \in Nat
  BY Magnitudes, Buckets
<1>2. ASSUME NEW x \in Nat, NEW y \in Nat, NEW p \in Nat, NEW q \in Nat, x < y,
             p < 2 * h, y > 0 => q >= h
      PROVE  x * h + p # y * h + q
  <2>1. (x + 1) * h <= y * h /\ (x + 1) * h = x * h + h /\ x * h \in Nat /\ y * h \in Nat
    BY <1>1, <1>2
  <2> QED
    BY <1>1, <1>2, <2>1
<1>3. /\ b \in Nat /\ s \in Nat /\ s < 2 * h /\ (b > 0 => s >= h)
      /\ c \in Nat /\ r \in Nat /\ r < 2 * h /\ (c > 0 => r >= h)
  BY <1>1 DEF IsPlace
<1>4. b * h + s = c * h + r
  OBVIOUS
<1> HIDE DEF h
<1>5. ~(b < c) /\ ~(c < b)
  BY <1>2, <1>3, <1>4
<1>6. b = c
  BY <1>3, <1>5
<1>7. b * h \in Nat
  BY <1>1, <1>3
<1> QED
  BY <1>3, <1>4, <1>6, <1>7

\* A value that passes the assertions is not negative, and has a place.
LEMMA Trackable ==
    ASSUME NEW v \in Int, AssertionsHold(v)
    PROVE  LET b == get_bucket_index(v)
               s == get_sub_bucket_index(v)
           IN  /\ v \in Nat /\ IsPlace(b, s) /\ Within(v, b, s)
               /\ counts_index_for(v) = b * sub_bucket_half_count + s
               /\ counts_index_for(v) \in 0..counts_len - 1
<1> DEFINE b == get_bucket_index(v)
           s == get_sub_bucket_index(v)
<1>1. b < bucket_count /\ s < sub_bucket_count /\ (b = 0 \/ s >= sub_bucket_half_count)
  BY DEF AssertionsHold
<1>2. v \in Nat
  <2> SUFFICES ASSUME v < 0 PROVE FALSE
    OBVIOUS
  <2> DEFINE m == sub_bucket_half_count_magnitude
             u == unit_magnitude
             l == WordLength
  <2>1. m \in Nat /\ u \in Nat /\ l \in Nat /\ l - 1 \in Nat
    BY Magnitudes, HdrAssumption
  <2>2. TwoTo[m + u] < TwoTo[l - 1]
    <3>1. TwoTo[m + u] <= sub_bucket_mask /\ sub_bucket_mask < TwoTo[l - 1] /\ sub_bucket_mask \in Nat
      BY Mask, MaskAssumption
    <3> QED
      BY <2>1, <3>1, PowersOfTwo
  <2>3. b = l - u - (m + 1)
    BY DEF get_bucket_index
  <2>4. s = v \div TwoTo[b + u]
    BY DEF get_sub_bucket_index
  <2> HIDE DEF m, u, l, b, s
  <2>5. m + u < l - 1
    <3> SUFFICES ASSUME l - 1 <= m + u PROVE FALSE
      BY <2>1
    <3>1. TwoTo[l - 1] <= TwoTo[m + u] /\ TwoTo[l - 1] \in Nat /\ TwoTo[m + u] \in Nat
      BY <2>1, PowerGrows, PowersOfTwo
    <3> QED
      BY <2>2, <3>1
  <2>6. b \in Nat /\ b > 0 /\ b + u \in Nat
    BY <2>1, <2>3, <2>5
  <2> DEFINE w == TwoTo[b + u]
  <2>7. w \in Nat /\ w > 0 /\ s = v \div w
    BY <2>4, <2>6, PowersOfTwo
  <2> HIDE DEF w
  <2>8. v \div w < 0
    BY <2>7
  <2>9. s >= sub_bucket_half_count /\ sub_bucket_half_count \in Nat
    BY <1>1, <2>6, Magnitudes
  <2> QED
    BY <2>7, <2>8, <2>9
<1>3. b \in Nat /\ s \in Nat /\ Within(v, b, s)
  BY <1>2, Found
<1>4. IsPlace(b, s)
  BY <1>1, <1>3, Magnitudes, Buckets DEF IsPlace
<1>5. counts_index_for(v) = counts_index(b, s)
  BY DEF counts_index_for
<1> HIDE DEF b, s
<1>6. /\ counts_index_for(v) = b * sub_bucket_half_count + s
      /\ counts_index_for(v) \in 0..counts_len - 1
  BY <1>4, <1>5, PlaceIndex
<1> QED
  BY <1>2, <1>3, <1>4, <1>6 DEF b, s
-----------------------------------------------------------------------------
(* The places in their order.                                               *)

\* p is the place with the number i, counted from 0.
Numbered(p, i) ==
    /\ p \in [bucket : Nat, sub : Nat] /\ IsPlace(p.bucket, p.sub)
    /\ p.bucket * sub_bucket_half_count + p.sub = i

\* The place after a place has the next number, and its values begin where
\* those of the place end.
LEMMA NextPlace ==
    ASSUME NEW p, NEW i \in Nat, Numbered(p, i), i + 1 < counts_len, NEW here,
           here.bucket = p.bucket, here.sub = p.sub
    PROVE  LET q == increment_bucket(here)
           IN  /\ Numbered(q, i + 1)
               /\ value_from_index(q.bucket, q.sub) = (p.sub + 1) * Unit(p.bucket)
<1> DEFINE h == sub_bucket_half_count
           n == bucket_count
           b == p.bucket
           s == p.sub
           q == increment_bucket(here)
<1>1. h \in Nat /\ h > 0 /\ sub_bucket_count = 2 * h /\ n \in Nat /\ counts_len = (n + 1) * h
  BY Magnitudes, Buckets
<1>2. /\ b \in Nat /\ s \in Nat /\ b + 1 <= n /\ s < 2 * h /\ (b > 0 => s >= h)
      /\ b * h + s = i
  BY <1>1 DEF Numbered, IsPlace
<1>3. q = IF s + 1 >= 2 * h THEN [bucket |-> b + 1, sub |-> h] ELSE [bucket |-> b, sub |-> s + 1]
  BY <1>1 DEF increment_bucket
<1>4. Unit(b) \in Nat /\ Unit(b + 1) = 2 * Unit(b)
  BY <1>2, BucketUnits
<1>5. i + 1 < (n + 1) * h
  BY <1>1
<1>6. value_from_index(q.bucket, q.sub) = q.sub * Unit(q.bucket)
  BY DEF value_from_index, Unit
<1>7. \A c, r : /\ c \in 0..n - 1 /\ r \in 0..2 * h - 1 /\ (c > 0 => r >= h)
                => IsPlace(c, r)
  BY <1>1 DEF IsPlace
<1> HIDE DEF h, n, b, s, q
<1>8. CASE s + 1 >= 2 * h
  <2>1. q.bucket = b + 1 /\ q.sub = h /\ q \in [bucket : Nat, sub : Nat]
    BY <1>1, <1>2, <1>3, <1>8
  <2>2. s + 1 = 2 * h
    BY <1>1, <1>2, <1>8
  <2>3. (b + 1) * h + h = i + 1
    <3>1. (b + 1) * h = b * h + h /\ b * h \in Nat
      BY <1>1, <1>2
    <3> QED
      BY <1>1, <1>2, <2>2, <3>1
  <2>4. b + 1 < n
    <3> SUFFICES ASSUME n = b + 1 PROVE FALSE
      BY <1>1, <1>2
    <3>1. (n + 1) * h = (b + 1) * h + h
      BY <1>1, <1>2
    <3> QED
      BY <1>1, <1>5, <2>3, <3>1
  <2>5. IsPlace(q.bucket, q.sub)
    BY <1>1, <1>2, <1>7, <2>1, <2>4
  <2>6. h * (2 * Unit(b)) = (s + 1) * Unit(b)
    BY <1>1, <1>4, <2>2
  <2>7. Numbered(q, i + 1)
    BY <2>1, <2>3, <2>5 DEF Numbered, h
  <2>8. value_from_index(q.bucket, q.sub) = (s + 1) * Unit(b)
    BY <1>4, <1>6, <2>1, <2>6
  <2> QED
    BY <2>7, <2>8 DEF q, b, s
<1>9. CASE ~(s + 1 >= 2 * h)
  <2>1. q.bucket = b /\ q.sub = s + 1 /\ q \in [bucket : Nat, sub : Nat]
    BY <1>1, <1>2, <1>3, <1>9
  <2>2. b * h + (s + 1) = i + 1
    <3>1. b * h \in Nat
      BY <1>1, <1>2
    <3> QED
      BY <1>1, <1>2, <3>1
  <2>3. IsPlace(q.bucket, q.sub)
    BY <1>1, <1>2, <1>7, <1>9, <2>1
  <2>4. Numbered(q, i + 1)
    BY <2>1, <2>2, <2>3 DEF Numbered, h
  <2>5. value_from_index(q.bucket, q.sub) = (s + 1) * Unit(b)
    BY <1>6, <2>1
  <2> QED
    BY <2>4, <2>5 DEF q, b, s
<1> QED
  BY <1>8, <1>9

\* The iterator begins at the first place.
LEMMA FirstPlace == Numbered([bucket |-> 0, sub |-> 0], 0)
<1>1. /\ sub_bucket_half_count \in Nat /\ sub_bucket_half_count > 0
      /\ sub_bucket_count = 2 * sub_bucket_half_count /\ bucket_count \in Nat /\ bucket_count > 0
  BY Magnitudes, Buckets
<1>2. IsPlace(0, 0)
  BY <1>1 DEF IsPlace
<1>3. 0 * sub_bucket_half_count + 0 = 0
  BY <1>1
<1> QED
  BY <1>2, <1>3 DEF Numbered

\* No two places have one number.
LEMMA OneNumbered ==
    ASSUME NEW p, NEW q, NEW i, Numbered(p, i), Numbered(q, i)
    PROVE  p = q
<1>1. p.bucket = q.bucket /\ p.sub = q.sub
  BY OnePlace DEF Numbered
<1>2. /\ p = [bucket |-> p.bucket, sub |-> p.sub]
      /\ q = [bucket |-> q.bucket, sub |-> q.sub]
  BY DEF Numbered
<1> QED
  BY <1>1, <1>2

\* The place with a number.
Slot(i) == CHOOSE p : Numbered(p, i)

\* Every index of the counts belongs to a place.
LEMMA Slots ==
    ASSUME NEW i \in 0..counts_len - 1
    PROVE  Numbered(Slot(i), i)
<1> DEFINE Bad == {j \in 0..counts_len - 1 : ~ \E p : Numbered(p, j)}
<1>1. SUFFICES ASSUME Bad # {} PROVE FALSE
  BY DEF Slot
<1>2. PICK j \in Bad : \A k \in Bad : j <= k
  <2>1. Bad \subseteq Nat
    OBVIOUS
  <2> HIDE DEF Bad
  <2> QED
    BY <1>1, <2>1, NatMin
<1>3. j # 0
  BY <1>2, FirstPlace
<1>4. counts_len \in Nat
  BY Buckets
<1>5. j - 1 \in Nat /\ (j - 1) + 1 = j /\ j < counts_len /\ j - 1 \notin Bad
      /\ j - 1 \in 0..counts_len - 1
  BY <1>2, <1>3, <1>4
<1>6. PICK p : Numbered(p, j - 1)
  BY <1>5
<1>7. Numbered(increment_bucket(p), j)
  <2>1. (j - 1) + 1 < counts_len
    BY <1>5
  <2>2. Numbered(increment_bucket(p), (j - 1) + 1)
    BY <1>5, <1>6, <2>1, NextPlace
  <2> QED
    BY <1>5, <2>2
<1> QED
  BY <1>2, <1>7

\* What hdr_iter finds at the nth place.
Stop(n) ==
    LET p == Slot(n - 1)
        value == value_from_index(p.bucket, p.sub)
    IN  [bucket |-> p.bucket, sub |-> p.sub, value |-> value,
         highest |-> highest_equivalent_value(value), index |-> counts_index(p.bucket, p.sub)]

\* Every step of hdr_iter leads to the next place.
LEMMA StepFrom ==
    ASSUME NEW n \in 1..counts_len
    PROVE  move_next(IF n = 1 THEN hdr_iter_init ELSE Stop(n - 1)) = Stop(n)
<1> DEFINE here == IF n = 1 THEN hdr_iter_init ELSE Stop(n - 1)
<1>1. counts_len \in Nat /\ n - 1 \in 0..counts_len - 1
  BY Buckets
<1>2. SUFFICES increment_bucket(here) = Slot(n - 1)
  BY <1>2 DEF move_next, Stop
<1>3. CASE n = 1
  <2>1. Slot(0) = [bucket |-> 0, sub |-> 0]
    BY <1>1, <1>3, FirstPlace, Slots, OneNumbered
  <2>2. /\ sub_bucket_half_count \in Nat /\ sub_bucket_half_count > 0
        /\ sub_bucket_count = 2 * sub_bucket_half_count
    BY Magnitudes
  <2>3. increment_bucket(hdr_iter_init) = [bucket |-> 0, sub |-> 0]
    BY <2>2 DEF increment_bucket, hdr_iter_init
  <2> QED
    BY <1>3, <2>1, <2>3
<1>4. CASE n # 1
  <2>1. /\ n - 2 \in Nat /\ n - 2 \in 0..counts_len - 1 /\ (n - 2) + 1 = n - 1
        /\ (n - 1) - 1 = n - 2 /\ (n - 2) + 1 < counts_len
    BY <1>1, <1>4
  <2>2. Numbered(Slot(n - 2), n - 2) /\ Numbered(Slot(n - 1), n - 1)
    BY <1>1, <2>1, Slots
  <2>3. here.bucket = Slot(n - 2).bucket /\ here.sub = Slot(n - 2).sub
    BY <1>4, <2>1 DEF Stop
  <2> HIDE DEF here
  <2>4. Numbered(increment_bucket(here), (n - 2) + 1)
    BY <2>1, <2>2, <2>3, NextPlace
  <2> QED
    BY <2>1, <2>2, <2>4, OneNumbered
<1> QED
  BY <1>3, <1>4

\* The first n places, one by one.
LEMMA Walked ==
    ASSUME NEW n \in 0..counts_len
    PROVE  walk[n] = [k \in 1..n |-> Stop(k)]
<1> DEFINE Stops == {Stop(k) : k \in 1..counts_len}
           Goes(w) == w = [m \in 0..counts_len |->
                             IF m = 0 THEN <<>>
                             ELSE Append(w[m - 1], move_next(IF m = 1 THEN hdr_iter_init
                                                             ELSE w[m - 1][m - 1]))]
           first == [m \in 0..counts_len |-> [k \in 1..m |-> Stop(k)]]
<1>1. counts_len \in Nat
  BY Buckets
<1>2. \A m \in 0..counts_len : /\ first[m] \in Seq(Stops) /\ Len(first[m]) = m
                               /\ \A k \in 1..m : first[m][k] = Stop(k)
  <2> SUFFICES ASSUME NEW m \in 0..counts_len
               PROVE  /\ first[m] \in Seq(Stops) /\ Len(first[m]) = m
                      /\ \A k \in 1..m : first[m][k] = Stop(k)
    OBVIOUS
  <2>1. first[m] = [k \in 1..m |-> Stop(k)] /\ \A k \in 1..m : Stop(k) \in Stops
    BY <1>1
  <2> HIDE DEF first, Stops
  <2>2. first[m] \in [1..m -> Stops] /\ m \in Nat
    BY <1>1, <2>1
  <2> QED
    BY <2>1, <2>2
<1>3. first[0] = <<>>
  <2>1. 0 \in 0..counts_len
    BY <1>1
  <2> HIDE DEF first
  <2> QED
    BY <1>2, <2>1, EmptySeq
<1>4. ASSUME NEW m \in 0..counts_len, m # 0
      PROVE  /\ first[m] = Append(first[m - 1], Stop(m))
             /\ move_next(IF m = 1 THEN hdr_iter_init ELSE first[m - 1][m - 1]) = Stop(m)
  <2>1. m - 1 \in 0..counts_len /\ m \in 1..counts_len /\ (m # 1 => m - 1 \in 1..m - 1)
    BY <1>1, <1>4
  <2>2. Stop(m) \in Stops
    BY <2>1
  <2>3. m # 1 => first[m - 1][m - 1] = Stop(m - 1)
    BY <1>2, <2>1
  <2>4. move_next(IF m = 1 THEN hdr_iter_init ELSE first[m - 1][m - 1])
            = move_next(IF m = 1 THEN hdr_iter_init ELSE Stop(m - 1))
    BY <2>3
  <2> DEFINE a == first[m - 1]
             l == Append(a, Stop(m))
             f == first[m]
  <2>5. a \in Seq(Stops) /\ Len(a) = m - 1 /\ \A k \in 1..m - 1 : a[k] = Stop(k)
    BY <1>2, <2>1
  <2>6. f \in Seq(Stops) /\ Len(f) = m /\ \A k \in 1..m : f[k] = Stop(k)
    BY <1>2, <2>1
  <2> HIDE DEF a, f, Stops, first
  <2>7. l \in Seq(Stops) /\ Len(l) = m /\ \A k \in 1..m : l[k] = IF k = m THEN Stop(m) ELSE a[k]
    BY <2>1, <2>2, <2>5
  <2>8. \A k \in 1..m : l[k] = f[k]
    BY <2>1, <2>5, <2>6, <2>7
  <2>9. f = l
    <3> HIDE DEF l
    <3> QED
      BY <2>6, <2>7, <2>8, SeqEqual
  <2> QED
    BY <2>1, <2>4, <2>9, StepFrom DEF a, f
<1>5. Goes(first)
  <2>1. \A m \in 0..counts_len :
          first[m] = IF m = 0 THEN <<>>
                     ELSE Append(first[m - 1], move_next(IF m = 1 THEN hdr_iter_init
                                                         ELSE first[m - 1][m - 1]))
    <3> SUFFICES ASSUME NEW m \in 0..counts_len
                 PROVE  first[m] = IF m = 0 THEN <<>>
                                   ELSE Append(first[m - 1],
                                               move_next(IF m = 1 THEN hdr_iter_init
                                                         ELSE first[m - 1][m - 1]))
      OBVIOUS
    <3> HIDE DEF first
    <3> QED
      BY <1>3, <1>4
  <2>2. first = [m \in 0..counts_len |-> first[m]]
    OBVIOUS
  <2> HIDE DEF first
  <2> QED
    BY <2>1, <2>2
<1>6. Goes(walk)
  <2> HIDE DEF Goes, first
  <2>1. walk = CHOOSE w : Goes(w)
    BY DEF walk, Goes
  <2> QED
    BY <1>5, <2>1
<1> DEFINE Bad == {m \in 0..counts_len : walk[m] # first[m]}
<1> HIDE DEF first, Stops
<1>7. Bad = {}
  <2>1. SUFFICES ASSUME Bad # {} PROVE FALSE
    OBVIOUS
  <2>2. PICK m \in Bad : \A k \in Bad : m <= k
    <3>1. Bad \subseteq Nat
      OBVIOUS
    <3> HIDE DEF Bad
    <3> QED
      BY <2>1, <3>1, NatMin
  <2>3. m \in 0..counts_len /\ walk[m] # first[m]
    BY <2>2
  <2>4. m # 0
    BY <1>3, <1>6, <2>3
  <2>5. m - 1 \in 0..counts_len /\ m - 1 \notin Bad
    BY <1>1, <2>2, <2>3, <2>4
  <2>6. walk[m - 1] = first[m - 1]
    BY <2>5
  <2> HIDE DEF Bad
  <2>7. walk[m] = Append(first[m - 1], move_next(IF m = 1 THEN hdr_iter_init ELSE first[m - 1][m - 1]))
    BY <1>6, <2>3, <2>4, <2>6
  <2> QED
    BY <1>4, <2>3, <2>4, <2>7
<1>8. walk[n] = first[n]
  BY <1>7
<1> QED
  BY <1>8 DEF first

\* A place has its index, and its values begin where those of the place
\* before it end.
LEMMA PlaceFacts ==
    ASSUME NEW n \in 1..counts_len
    PROVE  LET p == Slot(n - 1)
           IN  /\ place[n] = Stop(n) /\ Numbered(p, n - 1)
               /\ place[n].index = n - 1
               /\ place[n].value = p.sub * Unit(p.bucket) /\ place[n].value \in Nat
               /\ n < counts_len => /\ place[n + 1].value = (p.sub + 1) * Unit(p.bucket)
                                    /\ place[n].value < place[n + 1].value
<1> DEFINE p == Slot(n - 1)
           q == Slot(n)
<1>1. counts_len \in Nat /\ n - 1 \in 0..counts_len - 1 /\ counts_len \in 0..counts_len
  BY Buckets
<1>2. \A k \in 1..counts_len : place[k] = Stop(k)
  BY <1>1, Walked DEF place
<1>3. Numbered(p, n - 1)
  BY <1>1, Slots
<1>4. /\ p.bucket \in Nat /\ p.sub \in Nat
      /\ counts_index(p.bucket, p.sub) = n - 1
  BY <1>3, PlaceIndex DEF Numbered
<1>5. Unit(p.bucket) \in Nat /\ Unit(p.bucket) > 0
  BY <1>4, BucketUnits
<1>6. place[n].index = n - 1 /\ place[n].value = p.sub * Unit(p.bucket)
  <2>1. Stop(n).index = counts_index(p.bucket, p.sub)
        /\ Stop(n).value = value_from_index(p.bucket, p.sub)
    BY DEF Stop
  <2>2. value_from_index(p.bucket, p.sub) = p.sub * Unit(p.bucket)
    BY DEF value_from_index, Unit
  <2> QED
    BY <1>2, <1>4, <2>1, <2>2
<1>7. place[n].value \in Nat
  BY <1>4, <1>5, <1>6
<1>8. ASSUME n < counts_len
      PROVE  place[n + 1].value = (p.sub + 1) * Unit(p.bucket)
  <2>1. n \in 0..counts_len - 1 /\ n - 1 \in Nat /\ (n - 1) + 1 = n /\ (n + 1) - 1 = n
        /\ n + 1 \in 1..counts_len
    BY <1>1, <1>8
  <2>2. Numbered(q, n)
    BY <2>1, Slots
  <2> DEFINE r == increment_bucket(p)
  <2> HIDE DEF p, q
  <2>3. /\ Numbered(r, n)
        /\ value_from_index(r.bucket, r.sub) = (p.sub + 1) * Unit(p.bucket)
    <3>1. Numbered(r, (n - 1) + 1)
          /\ value_from_index(r.bucket, r.sub) = (p.sub + 1) * Unit(p.bucket)
      BY <1>3, <1>8, <2>1, NextPlace
    <3> QED
      BY <2>1, <3>1
  <2>4. r = q
    BY <2>2, <2>3, OneNumbered
  <2>5. place[n + 1].value = value_from_index(q.bucket, q.sub)
    <3>1. Stop(n + 1).value = value_from_index(Slot((n + 1) - 1).bucket, Slot((n + 1) - 1).sub)
      BY DEF Stop
    <3> QED
      BY <1>2, <2>1, <3>1 DEF q
  <2> QED
    BY <2>3, <2>4, <2>5
<1> HIDE DEF p
<1>9. p.sub * Unit(p.bucket) < (p.sub + 1) * Unit(p.bucket)
  BY <1>4, <1>5
<1>10. n < counts_len => place[n].value < place[n + 1].value
  BY <1>6, <1>8, <1>9
<1>11. place[n] = Stop(n)
  BY <1>2
<1> QED
  BY <1>3, <1>6, <1>7, <1>8, <1>10, <1>11 DEF p

\* The iterator comes to larger and larger values.
LEMMA PlacesGrow ==
    ASSUME NEW m \in 1..counts_len, NEW n \in 1..counts_len, m <= n
    PROVE  place[m].value <= place[n].value
<1> DEFINE Bad == {k \in m..counts_len : ~(place[m].value <= place[k].value)}
<1>1. counts_len \in Nat
  BY Buckets
<1>2. \A k \in 1..counts_len : place[k].value \in Nat
  BY PlaceFacts
<1>3. SUFFICES ASSUME Bad # {} PROVE FALSE
  BY <1>1
<1>4. PICK k \in Bad : \A j \in Bad : k <= j
  <2>1. Bad \subseteq Nat
    BY <1>1
  <2> HIDE DEF Bad
  <2> QED
    BY <1>3, <2>1, NatMin
<1>5. k # m
  BY <1>2, <1>4
<1>6. /\ k - 1 \in m..counts_len /\ k - 1 \in 1..counts_len /\ k - 1 < counts_len
      /\ (k - 1) + 1 = k /\ k - 1 \notin Bad /\ k \in 1..counts_len
  BY <1>1, <1>4, <1>5
<1>7. place[m].value <= place[k - 1].value
  BY <1>6
<1>8. place[k - 1].value < place[k].value
  BY <1>6, PlaceFacts
<1> QED
  BY <1>2, <1>4, <1>6, <1>7, <1>8

\* The values from the nth place to the next one.
AtPlace(v, n) == v >= place[n].value /\ (n < counts_len => v < place[n + 1].value)

\* A value that passes the assertions is counted at the place it lies at.
LEMMA CountedAtPlace ==
    ASSUME NEW v \in Int, AssertionsHold(v), NEW n \in 1..counts_len
    PROVE  AtPlace(v, n) <=> counts_index_for(v) = n - 1
<1> DEFINE b == get_bucket_index(v)
           s == get_sub_bucket_index(v)
           m == counts_index_for(v) + 1
<1>1. /\ v \in Nat /\ IsPlace(b, s) /\ Within(v, b, s)
      /\ counts_index_for(v) = b * sub_bucket_half_count + s
      /\ counts_index_for(v) \in 0..counts_len - 1
  BY Trackable
<1>2. counts_len \in Nat /\ m \in 1..counts_len /\ m - 1 = counts_index_for(v)
  BY <1>1, Buckets
<1>3. \A k \in 1..counts_len : /\ place[k].value \in Nat
                               /\ k < counts_len => place[k].value < place[k + 1].value
  BY PlaceFacts
<1>4. Numbered([bucket |-> b, sub |-> s], m - 1)
  BY <1>1, <1>2, Magnitudes, Buckets DEF Numbered, IsPlace
<1> HIDE DEF b, s, m
<1>5. Slot(m - 1) = [bucket |-> b, sub |-> s]
  BY <1>2, <1>4, PlaceFacts, OneNumbered
<1>6. /\ place[m].value = s * Unit(b)
      /\ m < counts_len => place[m + 1].value = (s + 1) * Unit(b)
  BY <1>2, <1>5, PlaceFacts
<1>7. AtPlace(v, m)
  BY <1>1, <1>2, <1>3, <1>6 DEF AtPlace, Within
<1>8. ASSUME AtPlace(v, n), n < m PROVE FALSE
  <2>1. n < counts_len /\ n + 1 <= m /\ n + 1 \in 1..counts_len
    BY <1>2, <1>8
  <2>2. place[n + 1].value <= place[m].value
    BY <1>2, <2>1, PlacesGrow
  <2>3. v < place[n + 1].value /\ place[m].value <= v
    BY <1>7, <1>8, <2>1 DEF AtPlace
  <2> QED
    BY <1>1, <1>2, <1>3, <2>1, <2>2, <2>3
<1>9. ASSUME AtPlace(v, n), m < n PROVE FALSE
  <2>1. m < counts_len /\ m + 1 <= n /\ m + 1 \in 1..counts_len
    BY <1>2, <1>9
  <2>2. place[m + 1].value <= place[n].value
    BY <1>2, <2>1, PlacesGrow
  <2>3. v < place[m + 1].value /\ place[n].value <= v
    BY <1>7, <1>9, <2>1 DEF AtPlace
  <2> QED
    BY <1>1, <1>2, <1>3, <2>1, <2>2, <2>3
<1>10. AtPlace(v, n) => n = m
  BY <1>2, <1>8, <1>9
<1>11. n = m <=> counts_index_for(v) = n - 1
  BY <1>2 DEF m
<1> QED
  BY <1>7, <1>10, <1>11

-----------------------------------------------------------------------------
(* Recording.                                                               *)

\* Only values that pass the assertions are among these.
Tracked(values) ==
    /\ IsFiniteSet(DOMAIN values) /\ DOMAIN values \subseteq Int
    /\ values \in [DOMAIN values -> Nat]
    /\ \A v \in DOMAIN values : values[v] > 0 => AssertionsHold(v)

\* The values of D that are counted with the index i.
Among(D, i) == {v \in D : AssertionsHold(v) /\ counts_index_for(v) = i}

\* What Holds says of the nth place.
LEMMA HeldAt ==
    ASSUME NEW values, Tracked(values), NEW n \in 1..counts_len
    PROVE  SumFunctionOnSet(values, {v \in DOMAIN values : values[v] > 0 /\ AtPlace(v, n)})
             = SumFunctionOnSet(values, Among(DOMAIN values, n - 1))
<1> DEFINE S == Among(DOMAIN values, n - 1)
           T == {v \in DOMAIN values : values[v] > 0 /\ AtPlace(v, n)}
<1>1. T \subseteq S
  <2> SUFFICES ASSUME NEW v \in T PROVE v \in S
    OBVIOUS
  <2>1. v \in DOMAIN values /\ v \in Int /\ AssertionsHold(v) /\ AtPlace(v, n)
    BY DEF Tracked
  <2>2. counts_index_for(v) = n - 1
    BY <2>1, CountedAtPlace
  <2> QED
    BY <2>1, <2>2 DEF Among
<1>2. \A v \in S \ T : values[v] = 0
  <2> SUFFICES ASSUME NEW v \in S, v \notin T PROVE values[v] = 0
    OBVIOUS
  <2>1. v \in DOMAIN values /\ v \in Int /\ AssertionsHold(v) /\ counts_index_for(v) = n - 1
    BY DEF Among, Tracked
  <2>2. AtPlace(v, n)
    BY <2>1, CountedAtPlace
  <2>3. ~(values[v] > 0) /\ values[v] \in Nat
    BY <2>1, <2>2 DEF Tracked
  <2> QED
    BY <2>3
<1>3. S \subseteq DOMAIN values
  BY DEF Among
<1>4. IsFiniteSet(S) /\ \A v \in S : values[v] \in Nat
  BY <1>3, FS_Subset DEF Tracked
<1> HIDE DEF S, T
<1>5. SumFunctionOnSet(values, S) = SumFunctionOnSet(values, T)
  BY <1>1, <1>2, <1>4, SumZeros
<1> QED
  BY <1>5 DEF S, T

\* The histogram counts these values, index by index.
Counts(h, values) ==
    \A i \in 0..counts_len - 1 :
        h.counts[i] = SumFunctionOnSet(values, Among(DOMAIN values, i))

\* What Holds says by the values of places, Counts says by indices.
LEMMA HoldsCounts ==
    ASSUME NEW h, NEW values, Tracked(values)
    PROVE  Holds(h, values) <=> Counts(h, values)
<1> DEFINE At(n) == {v \in DOMAIN values : values[v] > 0 /\ AtPlace(v, n)}
           Of(n) == SumFunctionOnSet(values, Among(DOMAIN values, n - 1))
<1>1. counts_len \in Nat
  BY Buckets
<1>2. \A n \in 1..counts_len : place[n].index = n - 1
  BY PlaceFacts
<1>3. \A n \in 1..counts_len : SumFunctionOnSet(values, At(n)) = Of(n)
  BY HeldAt
<1>4. Holds(h, values) <=> \A n \in 1..counts_len : h.counts[n - 1] = SumFunctionOnSet(values, At(n))
  <2>1. \A n : At(n) = {v \in DOMAIN values :
                          /\ values[v] > 0 /\ v >= place[n].value
                          /\ n < counts_len => v < place[n + 1].value}
    BY DEF AtPlace
  <2> HIDE DEF At
  <2>2. Holds(h, values) <=> \A n \in 1..counts_len : CountAt(h, n) = SumFunctionOnSet(values, At(n))
    BY <2>1 DEF Holds
  <2> QED
    BY <1>2, <2>2 DEF CountAt
<1> HIDE DEF At
<1>5. Holds(h, values) <=> \A n \in 1..counts_len : h.counts[n - 1] = Of(n)
  BY <1>3, <1>4
<1>6. (\A n \in 1..counts_len : h.counts[n - 1] = Of(n)) <=> Counts(h, values)
  <2>1. ASSUME \A n \in 1..counts_len : h.counts[n - 1] = Of(n) PROVE Counts(h, values)
    <3> SUFFICES ASSUME NEW i \in 0..counts_len - 1
                 PROVE  h.counts[i] = SumFunctionOnSet(values, Among(DOMAIN values, i))
      BY DEF Counts
    <3>1. i + 1 \in 1..counts_len /\ (i + 1) - 1 = i
      BY <1>1
    <3> QED
      BY <2>1, <3>1
  <2>2. ASSUME Counts(h, values), NEW n \in 1..counts_len PROVE h.counts[n - 1] = Of(n)
    <3>1. n - 1 \in 0..counts_len - 1
      BY <1>1
    <3> QED
      BY <2>2, <3>1 DEF Counts
  <2> QED
    BY <2>1, <2>2
<1> QED
  BY <1>5, <1>6

\* The indices of the counts.
Indices == 0..counts_len - 1

\* There are finitely many indices.
LEMMA IndexFacts == IsFiniteSet(Indices) /\ counts_len \in Nat
BY Buckets, FS_Interval DEF Indices

\* Recording a value changes one count, and the total as much.
LEMMA RecordValues ==
    ASSUME NEW h \in Histogram, NEW v, NEW i \in Indices, counts_index_for(v) = i, NEW count \in Nat
    PROVE  LET r == hdr_record_values(h, v, count)
           IN  /\ r \in Histogram /\ r.total_count = h.total_count + count
               /\ \A j \in Indices : r.counts[j] = IF j = i THEN h.counts[j] + count ELSE h.counts[j]
<1> DEFINE r == hdr_record_values(h, v, count)
           c == [h.counts EXCEPT ![i] = @ + count]
<1>1. h.counts \in [Indices -> Nat] /\ h.total_count \in Nat
  BY DEF Histogram, Indices
<1>2. r = [counts |-> c, total_count |-> h.total_count + count]
  BY DEF hdr_record_values, Indices
<1>3. c \in [Indices -> Nat]
      /\ \A j \in Indices : c[j] = IF j = i THEN h.counts[j] + count ELSE h.counts[j]
  BY <1>1
<1> HIDE DEF c, r
<1>4. r \in Histogram
  BY <1>1, <1>2, <1>3 DEF Histogram, Indices
<1> QED
  BY <1>2, <1>3, <1>4 DEF r

\* Adding to a count and to the total keeps them consistent.
LEMMA TotalGrows ==
    ASSUME NEW h \in Histogram, NEW r \in Histogram, NEW i \in Indices, NEW n \in Nat,
           r.counts[i] = h.counts[i] + n, \A j \in Indices \ {i} : r.counts[j] = h.counts[j],
           r.total_count = h.total_count + n, Consistent(h)
    PROVE  Consistent(r)
<1>1. /\ h.counts \in [Indices -> Nat] /\ r.counts \in [Indices -> Nat]
      /\ DOMAIN h.counts = Indices /\ DOMAIN r.counts = Indices
  BY DEF Histogram, Indices
<1>2. IsFiniteSet(Indices) /\ \A j \in Indices : h.counts[j] \in Nat
  BY <1>1, IndexFacts
<1>3. SumFunctionOnSet(r.counts, Indices) = SumFunctionOnSet(h.counts, Indices) + n
  BY <1>2, SumGrows
<1> QED
  BY <1>1, <1>3 DEF Consistent, SumFunction

\* A histogram of these values.
Keeps(h, values) == h \in Histogram /\ Consistent(h) /\ Tracked(values) /\ Counts(h, values)

\* A new histogram keeps nothing.
LEMMA EmptyKeeps ==
    ASSUME NEW D, IsFiniteSet(D), D \subseteq Int
    PROVE  Keeps(hdr_init, [v \in D |-> 0])
<1> DEFINE none == [v \in D |-> 0]
<1>1. hdr_init.counts = [i \in Indices |-> 0] /\ hdr_init.total_count = 0
  BY DEF hdr_init, Indices
<1>2. hdr_init \in Histogram
  BY DEF hdr_init, Histogram
<1>3. ASSUME NEW S, IsFiniteSet(S), NEW f, \A x \in S : f[x] = 0
      PROVE  SumFunctionOnSet(f, S) = 0
  <2>1. SumFunctionOnSet(f, S) = SumFunctionOnSet(f, {})
    BY <1>3, SumZeros
  <2> QED
    BY <2>1, SumStep, FS_EmptySet
<1>4. Consistent(hdr_init)
  <2>1. DOMAIN hdr_init.counts = Indices /\ \A i \in Indices : hdr_init.counts[i] = 0
    BY <1>1
  <2>2. SumFunctionOnSet(hdr_init.counts, Indices) = 0
    BY <1>3, <2>1, IndexFacts
  <2> QED
    BY <1>1, <2>1, <2>2 DEF Consistent, SumFunction
<1>5. DOMAIN none = D /\ \A v \in D : none[v] = 0
  OBVIOUS
<1> HIDE DEF none
<1>6. none \in [D -> Nat]
  BY <1>5 DEF none
<1>7. Tracked(none)
  BY <1>5, <1>6 DEF Tracked
<1>8. Counts(hdr_init, none)
  <2> SUFFICES ASSUME NEW i \in Indices
               PROVE  hdr_init.counts[i] = SumFunctionOnSet(none, Among(D, i))
    BY <1>5 DEF Counts, Indices
  <2>1. Among(D, i) \subseteq D
    BY DEF Among
  <2>2. SumFunctionOnSet(none, Among(D, i)) = 0
    BY <1>3, <1>5, <2>1, FS_Subset
  <2> QED
    BY <1>1, <2>2
<1> QED
  BY <1>2, <1>4, <1>7, <1>8 DEF Keeps, none

\* hdr_record_value counts the value it is given, and no other one.
LEMMA RecordKeeps ==
    ASSUME NEW h, NEW values, Keeps(h, values), NEW x \in DOMAIN values, AssertionsHold(x)
    PROVE  Keeps(hdr_record_value(h, x), [values EXCEPT ![x] = @ + 1])
<1> DEFINE r == hdr_record_value(h, x)
           more == [values EXCEPT ![x] = @ + 1]
           D == DOMAIN values
           i == counts_index_for(x)
<1>1. h \in Histogram /\ Consistent(h) /\ Tracked(values) /\ Counts(h, values)
  BY DEF Keeps
<1>2. IsFiniteSet(D) /\ D \subseteq Int /\ values \in [D -> Nat] /\ x \in D
  BY <1>1 DEF Tracked
<1>3. i \in Indices
  BY <1>2, Trackable DEF Indices
<1>4. /\ r \in Histogram /\ r.total_count = h.total_count + 1
      /\ \A j \in Indices : r.counts[j] = IF j = i THEN h.counts[j] + 1 ELSE h.counts[j]
  BY <1>1, <1>3, RecordValues DEF hdr_record_value
<1>5. DOMAIN more = D /\ more \in [D -> Nat] /\ more[x] = values[x] + 1
      /\ \A v \in D \ {x} : more[v] = values[v]
  BY <1>2
<1> HIDE DEF r, more, D, i
<1>6. Consistent(r)
  BY <1>1, <1>3, <1>4, TotalGrows
<1>7. Tracked(more)
  BY <1>1, <1>2, <1>5 DEF Tracked, D
<1>8. Counts(r, more)
  <2> SUFFICES ASSUME NEW j \in Indices
               PROVE  r.counts[j] = SumFunctionOnSet(more, Among(D, j))
    BY <1>5 DEF Counts, Indices
  <2> DEFINE S == Among(D, j)
  <2>1. S \subseteq D
    BY DEF Among
  <2>2. IsFiniteSet(S) /\ \A v \in S : values[v] \in Nat /\ more[v] \in Nat
    BY <1>2, <1>5, <2>1, FS_Subset
  <2>3. h.counts[j] = SumFunctionOnSet(values, S)
    BY <1>1 DEF Counts, D, Indices
  <2>4. x \in S <=> j = i
    BY <1>2 DEF Among, i
  <2> HIDE DEF S
  <2>5. CASE j = i
    <3>1. x \in S /\ \A v \in S \ {x} : more[v] = values[v]
      BY <1>5, <2>1, <2>4, <2>5
    <3>2. SumFunctionOnSet(more, S) = SumFunctionOnSet(values, S) + 1
      BY <1>5, <2>2, <3>1, SumGrows
    <3> QED
      BY <1>4, <2>3, <2>5, <3>2 DEF S
  <2>6. CASE j # i
    <3>1. \A v \in S : more[v] = values[v]
      BY <1>5, <2>1, <2>4, <2>6
    <3>2. SumFunctionOnSet(more, S) = SumFunctionOnSet(values, S)
      BY <2>2, <3>1, SumSame
    <3> QED
      BY <1>4, <2>3, <2>6, <3>2 DEF S
  <2> QED
    BY <2>5, <2>6
<1> QED
  BY <1>4, <1>6, <1>7, <1>8 DEF Keeps, r, more

-----------------------------------------------------------------------------
(* The threads.                                                             *)

\* The threads are finitely many.
LEMMA ThreadFacts == IsFiniteSet(Thread) /\ Threads \in Nat /\ Threads > 0 /\ Thread = 1..Threads
BY StatisticsAssumption, FS_Interval DEF Thread

\* What is neither counted nor recorded.
Base ==
    /\ ending \in {"no", "interrupt", "deadline"}
    /\ loop \in [Thread -> {"running", "stopping", "over"}]
    /\ calibrated \in [Thread -> BOOLEAN] /\ aborted \in BOOLEAN
    /\ sampling \in [Thread -> {"no", "lock", "load", "store"}]
    /\ main \in {"join", "sum", "report"} /\ at \in Thread

\* A thread that is over takes no sample, and main goes on when all are.
MainInv ==
    /\ \A t \in Thread : loop[t] = "over" => sampling[t] = "no"
    /\ main = "join" => \A t \in 1..at - 1 : loop[t] = "over"
    /\ main # "join" => \A t \in Thread : loop[t] = "over"

\* A step of a thread, or one that none of them takes.
LEMMA Steps ==
    ASSUME Base, [Next]_vars
    PROVE  \/ Interrupt \/ Deadline \/ Join \/ Sum \/ UNCHANGED vars
           \/ \E t \in Thread : \/ LateResponse(t) \/ response_complete(t) \/ calibrate(t)
                                \/ check_timeouts(t) \/ aeMain(t)
                                \/ sample_rate(t) \/ Lock(t) \/ Load(t) \/ Store(t)
BY DEF Next, Handlers, Done

\* The types of the control and the order of the ends.
LEMMA BaseStep ==
    ASSUME Base, MainInv, [Next]_vars
    PROVE  Base' /\ MainInv'
<1>0. Threads \in Nat /\ Threads > 0 /\ Thread = 1..Threads
  BY ThreadFacts
<1>1. CASE Interrupt \/ Deadline \/ UNCHANGED vars
  BY <1>1 DEF Base, MainInv, Interrupt, Deadline, vars, ofThread, ofSampling, ofMain
<1>2. CASE Join
  <2>1. /\ main = "join" /\ loop[at] = "over" /\ UNCHANGED <<ending, loop, calibrated, aborted, sampling>>
        /\ NextThread("sum")
    BY <1>2 DEF Join, Joined, ofThread, ofSampling
  <2>2. CASE at < Threads
    <3>1. at' = at + 1 /\ main' = main
      BY <2>1, <2>2 DEF NextThread
    <3>2. at' \in Thread /\ \A t \in 1..at' - 1 : t \in 1..at - 1 \/ t = at
      BY <1>0, <2>2, <3>1 DEF Base
    <3> QED
      BY <2>1, <3>1, <3>2 DEF Base, MainInv
  <2>3. CASE ~(at < Threads)
    <3>1. at' = 1 /\ main' = "sum"
      BY <2>1, <2>3 DEF NextThread
    <3>2. at' \in Thread /\ \A t \in Thread : t \in 1..at - 1 \/ t = at
      BY <1>0, <2>3, <3>1 DEF Base
    <3> QED
      BY <2>1, <3>1, <3>2 DEF Base, MainInv
  <2> QED
    BY <2>2, <2>3
<1>3. CASE Sum
  <2>1. /\ main = "sum" /\ UNCHANGED <<ending, loop, calibrated, aborted, sampling>>
        /\ NextThread("report")
    BY <1>3 DEF Sum, ofThread, ofSampling
  <2>2. CASE at < Threads
    <3>1. at' = at + 1 /\ main' = main /\ at' \in Thread
      BY <1>0, <2>1, <2>2 DEF NextThread, Base
    <3> QED
      BY <2>1, <3>1 DEF Base, MainInv
  <2>3. CASE ~(at < Threads)
    <3>1. at' = 1 /\ main' = "report" /\ at' \in Thread
      BY <1>0, <2>1, <2>3 DEF NextThread
    <3> QED
      BY <2>1, <3>1 DEF Base, MainInv
  <2> QED
    BY <2>2, <2>3
<1>4. ASSUME NEW t \in Thread,
             \/ LateResponse(t) \/ response_complete(t) \/ calibrate(t)
             \/ check_timeouts(t) \/ aeMain(t)
      PROVE  Base' /\ MainInv'
  <2>1. Runs(t) /\ UNCHANGED <<ending, sampling, main, at>>
    BY <1>4 DEF LateResponse, response_complete, calibrate, check_timeouts, aeMain, Count,
                ofSampling, ofMain
  <2>2. calibrated' \in [Thread -> BOOLEAN] /\ aborted' \in BOOLEAN
    BY <1>4 DEF Base, LateResponse, response_complete, calibrate, check_timeouts, aeMain, Count,
                RecordBoth, ofThread
  <2>3. \E l \in {"running", "stopping", "over"} : loop' = [loop EXCEPT ![t] = l]
    BY <1>4 DEF Base, LateResponse, response_complete, calibrate, check_timeouts, aeMain
  <2>4. loop' \in [Thread -> {"running", "stopping", "over"}]
        /\ \A s \in Thread : s # t => loop'[s] = loop[s]
    BY <2>3 DEF Base
  <2>5. main = "join" /\ loop[t] # "over" /\ sampling[t] = "no"
    BY <2>1 DEF Runs, MainInv, Base
  <2>6. \A s \in 1..at - 1 : s \in Thread /\ s # t
    BY <1>0, <2>5 DEF MainInv, Base
  <2>7. Base'
    BY <2>1, <2>2, <2>4 DEF Base
  <2>8. MainInv'
    BY <2>1, <2>4, <2>5, <2>6 DEF MainInv
  <2> QED
    BY <2>7, <2>8
<1>5. ASSUME NEW t \in Thread, sample_rate(t) \/ Lock(t) \/ Load(t) \/ Store(t)
      PROVE  Base' /\ MainInv'
  <2>1. UNCHANGED <<ending, loop, calibrated, aborted, main, at>> /\ loop[t] # "over"
    BY <1>5 DEF sample_rate, Runs, Lock, Load, Store, MainInv, ofThread, ofMain
  <2>2. \E s \in {"no", "lock", "load", "store"} : sampling' = [sampling EXCEPT ![t] = s]
    BY <1>5 DEF sample_rate, Lock, Load, Store
  <2>3. sampling' \in [Thread -> {"no", "lock", "load", "store"}]
        /\ \A s \in Thread : s # t => sampling'[s] = sampling[s]
    BY <2>2 DEF Base
  <2> QED
    BY <2>1, <2>3 DEF Base, MainInv
<1> QED
  BY <1>1, <1>2, <1>3, <1>4, <1>5, Steps

-----------------------------------------------------------------------------
(* What the threads count.                                                  *)

CountInv ==
    /\ complete \in [Thread -> Nat] /\ SumFunction(complete) <= MaxResponses
    /\ requests \in [Thread -> Nat] /\ \A t \in Thread : requests[t] <= complete[t]

\* No thread counts more than there are responses.
LEMMA CountsBounded ==
    ASSUME CountInv
    PROVE  complete \in [Thread -> 0..MaxResponses] /\ requests \in [Thread -> 0..MaxResponses]
<1>1. DOMAIN complete = Thread /\ IsFiniteSet(Thread) /\ MaxResponses \in Nat
  BY ThreadFacts, StatisticsAssumption DEF CountInv
<1>2. ASSUME NEW t \in Thread PROVE complete[t] <= MaxResponses
  <2> DEFINE rest == SumFunctionOnSet(complete, Thread \ {t})
             all == SumFunctionOnSet(complete, Thread)
  <2>1. \A s \in Thread : complete[s] \in Nat
    BY DEF CountInv
  <2>2. all = complete[t] + rest
    BY <1>1, <2>1, SumRemove
  <2>3. rest \in Nat
    <3>1. IsFiniteSet(Thread \ {t}) /\ \A s \in Thread \ {t} : complete[s] \in Nat
      BY <1>1, <2>1, FS_Subset
    <3> QED
      BY <3>1, SumStep
  <2>4. all <= MaxResponses
    BY <1>1 DEF CountInv, SumFunction
  <2> HIDE DEF all, rest
  <2> QED
    BY <1>1, <2>1, <2>2, <2>3, <2>4
<1> QED
  BY <1>1, <1>2 DEF CountInv

\* No more responses are counted than are received.
LEMMA CountStep ==
    ASSUME Base, CountInv, [Next]_vars
    PROVE  CountInv'
<1>1. CASE UNCHANGED <<complete, requests>>
  BY <1>1 DEF CountInv, SumFunction
<1>2. ASSUME NEW t \in Thread, Count(t) PROVE CountInv'
  <2>1. /\ SumFunction(complete) < MaxResponses
        /\ complete' = [complete EXCEPT ![t] = @ + 1]
        /\ requests' = [requests EXCEPT ![t] = @ + 1]
    BY <1>2 DEF Count
  <2>2. complete' \in [Thread -> Nat] /\ requests' \in [Thread -> Nat]
        /\ \A s \in Thread : requests'[s] <= complete'[s]
    BY <2>1 DEF CountInv
  <2>3. SumFunction(complete') <= MaxResponses
    <3>1. /\ DOMAIN complete = Thread /\ DOMAIN complete' = Thread
          /\ \A s \in Thread : complete[s] \in Nat
          /\ complete'[t] = complete[t] + 1 /\ \A s \in Thread \ {t} : complete'[s] = complete[s]
      BY <2>1 DEF CountInv
    <3>2. SumFunctionOnSet(complete', Thread) = SumFunctionOnSet(complete, Thread) + 1
      <4>1. IsFiniteSet(Thread) /\ 1 \in Nat
        BY ThreadFacts
      <4> QED
        BY <3>1, <4>1, SumGrows
    <3>3. SumFunctionOnSet(complete, Thread) \in Nat
      BY <3>1, ThreadFacts, SumStep
    <3> QED
      BY <2>1, <3>1, <3>2, <3>3, StatisticsAssumption DEF SumFunction
  <2> QED
    BY <2>2, <2>3 DEF CountInv
<1>3. ASSUME NEW t \in Thread, requests' = [requests EXCEPT ![t] = 0], UNCHANGED complete
      PROVE  CountInv'
  BY <1>3 DEF CountInv, SumFunction
<1>4. \/ UNCHANGED <<complete, requests>> \/ \E t \in Thread : Count(t)
      \/ \E t \in Thread : requests' = [requests EXCEPT ![t] = 0] /\ UNCHANGED complete
  <2>1. CASE Interrupt \/ Deadline \/ Join \/ Sum \/ UNCHANGED vars
    BY <2>1 DEF Interrupt, Deadline, Join, Sum, vars, ofThread
  <2>2. ASSUME NEW t \in Thread, LateResponse(t) \/ response_complete(t)
        PROVE  Count(t)
    BY <2>2 DEF LateResponse, response_complete
  <2>3. ASSUME NEW t \in Thread, calibrate(t) \/ Store(t)
        PROVE  requests' = [requests EXCEPT ![t] = 0] /\ UNCHANGED complete
    BY <2>3 DEF calibrate, Store
  <2>4. ASSUME NEW t \in Thread,
               check_timeouts(t) \/ aeMain(t) \/ sample_rate(t) \/ Lock(t) \/ Load(t)
        PROVE  UNCHANGED <<complete, requests>>
    BY <2>4 DEF check_timeouts, aeMain, sample_rate, Lock, Load, ofThread
  <2> QED
    BY <2>1, <2>2, <2>3, <2>4, Steps
<1> QED
  BY <1>1, <1>2, <1>3, <1>4

-----------------------------------------------------------------------------
(* What the threads record.                                                 *)

\* A thread's histogram is one of the latencies it has recorded.
Filled(hist, values) ==
    /\ hist \in [Thread -> Histogram] /\ values \in [Thread -> [Latencies -> Nat]]
    /\ \A t \in Thread : Keeps(hist[t], values[t])

LatencyInv == Filled(latency_histogram, seen) /\ Filled(u_latency_histogram, u_seen)

\* Recording a latency of a thread.
LEMMA RecordAt ==
    ASSUME NEW hist, NEW values, Filled(hist, values), NEW t \in Thread, NEW x \in Latencies,
           AssertionsHold(x)
    PROVE  Filled([hist EXCEPT ![t] = hdr_record_value(@, x)], [values EXCEPT ![t][x] = @ + 1])
<1> DEFINE h == [hist EXCEPT ![t] = hdr_record_value(@, x)]
           one == [values[t] EXCEPT ![x] = @ + 1]
           v == [values EXCEPT ![t][x] = @ + 1]
<1>1. /\ hist \in [Thread -> Histogram] /\ values \in [Thread -> [Latencies -> Nat]]
      /\ Keeps(hist[t], values[t]) /\ \A s \in Thread : Keeps(hist[s], values[s])
  BY DEF Filled
<1>2. values[t] \in [Latencies -> Nat] /\ x \in DOMAIN values[t] /\ one \in [Latencies -> Nat]
  BY <1>1
<1>3. Keeps(hdr_record_value(hist[t], x), one)
  BY <1>1, <1>2, RecordKeeps
<1>4. hdr_record_value(hist[t], x) \in Histogram
  BY <1>3 DEF Keeps
<1>5. v = [values EXCEPT ![t] = one]
  BY <1>1
<1> HIDE DEF one
<1>6. /\ h \in [Thread -> Histogram] /\ h[t] = hdr_record_value(hist[t], x)
      /\ \A s \in Thread : s # t => h[s] = hist[s]
  BY <1>1, <1>4
<1>7. /\ v \in [Thread -> [Latencies -> Nat]] /\ v[t] = one
      /\ \A s \in Thread : s # t => v[s] = values[s]
  BY <1>1, <1>2, <1>5
<1> HIDE DEF h, v
<1>8. \A s \in Thread : Keeps(h[s], v[s])
  BY <1>1, <1>3, <1>6, <1>7
<1> QED
  BY <1>6, <1>7, <1>8 DEF Filled, h, v

\* A new histogram keeps nothing, of latencies or of rates.
LEMMA NothingKept == Keeps(hdr_init, Nothing) /\ Keeps(hdr_init, NoRates)
<1>1. IsFiniteSet(Latencies) /\ Latencies \subseteq Int /\ MaxResponses \in Nat
  BY StatisticsAssumption
<1>2. IsFiniteSet(0..MaxResponses) /\ 0..MaxResponses \subseteq Int
  BY <1>1, FS_Interval
<1> QED
  BY <1>1, <1>2, EmptyKeeps DEF Nothing, NoRates

\* Resetting the histogram of a thread.
LEMMA ResetAt ==
    ASSUME NEW hist, NEW values, Filled(hist, values), NEW t \in Thread
    PROVE  Filled([hist EXCEPT ![t] = hdr_reset(@)], [values EXCEPT ![t] = Nothing])
<1>1. hdr_reset(hist[t]) = hdr_init /\ Keeps(hdr_init, Nothing) /\ Nothing \in [Latencies -> Nat]
  BY NothingKept DEF hdr_reset, Nothing
<1>2. hdr_init \in Histogram
  BY <1>1 DEF Keeps
<1> QED
  BY <1>1, <1>2 DEF Filled

\* What the histograms of the threads keep.
LEMMA LatencyStep ==
    ASSUME Base, LatencyInv, [Next]_vars
    PROVE  LatencyInv'
<1> DEFINE recorded == <<latency_histogram, u_latency_histogram, seen, u_seen>>
<1>1. CASE UNCHANGED recorded
  BY <1>1 DEF LatencyInv, Filled
<1>2. ASSUME NEW t \in Thread, NEW timing \in Latencies, NEW actual \in Latencies,
             RecordBoth(t, timing, actual)
      PROVE  LatencyInv'
  <2>1. CASE AssertionsHold(timing) /\ AssertionsHold(actual)
    <3>1. /\ latency_histogram' = [latency_histogram EXCEPT ![t] = hdr_record_value(@, timing)]
          /\ u_latency_histogram' = [u_latency_histogram EXCEPT ![t] = hdr_record_value(@, actual)]
          /\ seen' = [seen EXCEPT ![t][timing] = @ + 1]
          /\ u_seen' = [u_seen EXCEPT ![t][actual] = @ + 1]
      BY <1>2, <2>1 DEF RecordBoth
    <3>2. Filled(latency_histogram', seen') /\ Filled(u_latency_histogram', u_seen')
      BY <2>1, <3>1, RecordAt DEF LatencyInv
    <3> QED
      BY <3>2 DEF LatencyInv, Filled
  <2>2. CASE ~(AssertionsHold(timing) /\ AssertionsHold(actual))
    BY <1>1, <1>2, <2>2 DEF RecordBoth
  <2> QED
    BY <2>1, <2>2
<1>3. ASSUME NEW t \in Thread, calibrate(t) PROVE LatencyInv'
  <2>1. /\ latency_histogram' = [latency_histogram EXCEPT ![t] = hdr_reset(@)]
        /\ u_latency_histogram' = [u_latency_histogram EXCEPT ![t] = hdr_reset(@)]
        /\ seen' = [seen EXCEPT ![t] = Nothing] /\ u_seen' = [u_seen EXCEPT ![t] = Nothing]
    BY <1>3 DEF calibrate, Restarted
  <2>2. Filled(latency_histogram', seen') /\ Filled(u_latency_histogram', u_seen')
    BY <2>1, ResetAt DEF LatencyInv
  <2> QED
    BY <2>2 DEF LatencyInv, Filled
<1>4. ASSUME NEW t \in Thread, response_complete(t) PROVE LatencyInv'
  BY <1>1, <1>2, <1>4 DEF response_complete
<1>5. CASE Interrupt \/ Deadline \/ Join \/ Sum \/ UNCHANGED vars
  BY <1>1, <1>5 DEF Interrupt, Deadline, Join, Sum, vars, ofThread
<1>6. ASSUME NEW t \in Thread, \/ LateResponse(t) \/ check_timeouts(t) \/ aeMain(t)
                               \/ sample_rate(t) \/ Lock(t) \/ Load(t) \/ Store(t)
      PROVE  LatencyInv'
  BY <1>1, <1>6 DEF LateResponse, check_timeouts, aeMain, sample_rate, Lock, Load, Store, ofThread
<1> QED
  BY <1>3, <1>4, <1>5, <1>6, Steps

-----------------------------------------------------------------------------
(* What the threads share.                                                  *)

\* The extremes of two numbers.
LEMMA MinOfTwo ==
    ASSUME NEW a \in Int, NEW b \in Int
    PROVE  /\ Min({a, b}) = IF a <= b THEN a ELSE b
           /\ Max({a, b}) = IF a >= b THEN a ELSE b
<1>1. \E x \in {a, b} : \A y \in {a, b} : x <= y
  OBVIOUS
<1>2. \E x \in {a, b} : \A y \in {a, b} : x >= y
  OBVIOUS
<1>3. Min({a, b}) \in {a, b} /\ \A y \in {a, b} : Min({a, b}) <= y
  BY <1>1 DEF Min
<1>4. Max({a, b}) \in {a, b} /\ \A y \in {a, b} : Max({a, b}) >= y
  BY <1>2 DEF Max
<1> QED
  BY <1>3, <1>4

\* A bound in the set is its extreme.
LEMMA MinIs ==
    ASSUME NEW S, S \subseteq Int, NEW x \in S
    PROVE  /\ (\A y \in S : x <= y) => Min(S) = x
           /\ (\A y \in S : x >= y) => Max(S) = x
<1>1. ASSUME \A y \in S : x <= y PROVE Min(S) = x
  <2>1. Min(S) \in S /\ \A y \in S : Min(S) <= y
    BY <1>1 DEF Min
  <2>2. Min(S) <= x /\ x <= Min(S) /\ Min(S) \in Int /\ x \in Int
    BY <1>1, <2>1
  <2> QED
    BY <2>2
<1>2. ASSUME \A y \in S : x >= y PROVE Max(S) = x
  <2>1. Max(S) \in S /\ \A y \in S : Max(S) >= y
    BY <1>2 DEF Max
  <2>2. Max(S) <= x /\ x <= Max(S) /\ Max(S) \in Int /\ x \in Int
    BY <1>2, <2>1
  <2> QED
    BY <2>2
<1> QED
  BY <1>1, <1>2

\* The least and the greatest rate that a sample counts.
Extremes(stats, samples) ==
    LET rates == {r \in DOMAIN samples : samples[r] > 0}
    IN  /\ rates = {} => stats.min = NoMin /\ stats.max = 0
        /\ rates # {} => stats.min \in rates /\ stats.max \in rates
        /\ \A r \in rates : stats.min <= r /\ r <= stats.max

\* Statistics of these samples.
Sampled(stats, samples) ==
    /\ stats \in Stats /\ samples \in [0..MaxResponses -> Nat]
    /\ Keeps(stats.histogram, samples) /\ Extremes(stats, samples)

\* stats_record adds a rate and keeps the extremes.
LEMMA SampleKept ==
    ASSUME NEW stats, NEW samples, Sampled(stats, samples), NEW x \in 0..MaxResponses
    PROVE  Sampled(stats_record(stats, x), [samples EXCEPT ![x] = @ + 1])
<1> DEFINE r == stats_record(stats, x)
           more == [samples EXCEPT ![x] = @ + 1]
           rates == {y \in 0..MaxResponses : samples[y] > 0}
           now == {y \in 0..MaxResponses : more[y] > 0}
<1>0. MaxResponses \in Nat /\ NoMin = MaxResponses + 1
  BY StatisticsAssumption DEF NoMin
<1>1. /\ stats.min \in 0..NoMin /\ stats.max \in 0..MaxResponses
      /\ samples \in [0..MaxResponses -> Nat] /\ DOMAIN samples = 0..MaxResponses
      /\ Keeps(stats.histogram, samples)
  BY DEF Sampled, Stats
<1>2. /\ r.min = Min({x, stats.min}) /\ r.max = Max({x, stats.max})
      /\ r.histogram = hdr_record_value(stats.histogram, x)
      /\ r = [min |-> r.min, max |-> r.max, histogram |-> r.histogram]
  BY DEF stats_record
<1>3. /\ r.min = IF x <= stats.min THEN x ELSE stats.min
      /\ r.max = IF x >= stats.max THEN x ELSE stats.max
  <2>1. x \in Int /\ stats.min \in Int /\ stats.max \in Int
    BY <1>0, <1>1
  <2>2. /\ Min({x, stats.min}) = IF x <= stats.min THEN x ELSE stats.min
        /\ Max({x, stats.max}) = IF x >= stats.max THEN x ELSE stats.max
    BY <2>1, MinOfTwo
  <2> HIDE DEF r
  <2> QED
    BY <1>2, <2>2
<1>4. Keeps(r.histogram, more)
  <2>1. AssertionsHold(x) /\ x \in DOMAIN samples
    BY <1>1, RatesAssumption
  <2>2. Keeps(hdr_record_value(stats.histogram, x), more)
    BY <1>1, <2>1, RecordKeeps
  <2> QED
    BY <1>2, <2>2
<1>5. more \in [0..MaxResponses -> Nat] /\ DOMAIN more = 0..MaxResponses
  BY <1>1
<1>6. now = rates \cup {x}
  BY <1>1
<1> HIDE DEF r, more
<1>7. r \in Stats
  <2>1. r.min \in 0..NoMin /\ r.max \in 0..MaxResponses /\ r.histogram \in Histogram
    BY <1>0, <1>1, <1>3, <1>4 DEF Keeps
  <2> QED
    BY <1>2, <2>1 DEF Stats
<1>8. /\ rates = {} => stats.min = NoMin /\ stats.max = 0
      /\ rates # {} => stats.min \in rates /\ stats.max \in rates
      /\ \A y \in rates : stats.min <= y /\ y <= stats.max
      /\ rates \subseteq 0..MaxResponses
  BY <1>1 DEF Sampled, Extremes
<1> HIDE DEF rates, now
<1>9. now # {} /\ r.min \in now /\ r.max \in now
  BY <1>0, <1>1, <1>3, <1>6, <1>8
<1>10. \A y \in now : r.min <= y /\ y <= r.max
  BY <1>0, <1>1, <1>3, <1>6, <1>8
<1>11. Extremes(r, more)
  BY <1>5, <1>9, <1>10 DEF Extremes, now
<1> QED
  BY <1>4, <1>5, <1>7, <1>11 DEF Sampled, r, more

\* The mutex guards the statistics: whoever is to store them has loaded them
\* as they are.
SampleInv ==
    /\ mutex \in 0..Threads /\ rate \in [Thread -> 0..MaxResponses]
    /\ loaded \in [Thread -> Stats] /\ Sampled(statistics, sampled)
    /\ \A t \in Thread : /\ sampling[t] \in {"load", "store"} => mutex = t
                         /\ sampling[t] = "store" => loaded[t] = statistics

\* What the shared statistics keep, from Lock to Store.
LEMMA SampleStep ==
    ASSUME Base, CountInv, SampleInv, [Next]_vars
    PROVE  SampleInv'
<1>0. Thread = 1..Threads /\ Threads \in Nat /\ sampling \in [Thread -> {"no", "lock", "load", "store"}]
  BY ThreadFacts DEF Base
<1>1. CASE UNCHANGED <<sampling, rate, loaded, mutex, statistics, sampled>>
  BY <1>1 DEF SampleInv, Sampled
<1>2. ASSUME NEW t \in Thread, sample_rate(t) PROVE SampleInv'
  <2>1. /\ rate' = [rate EXCEPT ![t] = requests[t]] /\ sampling' = [sampling EXCEPT ![t] = "lock"]
        /\ UNCHANGED <<loaded, mutex, statistics, sampled>>
    BY <1>2 DEF sample_rate
  <2>2. requests[t] \in 0..MaxResponses
    BY CountsBounded
  <2> QED
    BY <1>0, <2>1, <2>2 DEF SampleInv, Sampled
<1>3. ASSUME NEW t \in Thread, Lock(t) PROVE SampleInv'
  <2>1. /\ mutex = 0 /\ mutex' = t /\ sampling[t] = "lock"
        /\ sampling' = [sampling EXCEPT ![t] = "load"]
        /\ UNCHANGED <<rate, loaded, statistics, sampled>>
    BY <1>3 DEF Lock, Locked
  <2>2. \A s \in Thread : sampling[s] \notin {"load", "store"}
    BY <1>0, <2>1 DEF SampleInv
  <2>3. \A s \in Thread : sampling'[s] = IF s = t THEN "load" ELSE sampling[s]
    BY <1>0, <2>1
  <2>4. mutex' \in 0..Threads
    BY <1>0, <2>1
  <2> QED
    BY <2>1, <2>2, <2>3, <2>4 DEF SampleInv, Sampled
<1>4. ASSUME NEW t \in Thread, Load(t) PROVE SampleInv'
  <2>1. /\ sampling[t] = "load" /\ loaded' = [loaded EXCEPT ![t] = statistics]
        /\ sampling' = [sampling EXCEPT ![t] = "store"]
        /\ UNCHANGED <<rate, mutex, statistics, sampled>>
    BY <1>4 DEF Load
  <2>2. \A s \in Thread : sampling'[s] = IF s = t THEN "store" ELSE sampling[s]
    BY <1>0, <2>1
  <2>3. loaded' \in [Thread -> Stats] /\ loaded'[t] = statistics
        /\ \A s \in Thread : s # t => loaded'[s] = loaded[s]
    BY <2>1 DEF SampleInv, Sampled
  <2> QED
    BY <2>1, <2>2, <2>3 DEF SampleInv, Sampled
<1>5. ASSUME NEW t \in Thread, Store(t) PROVE SampleInv'
  <2>1. /\ sampling[t] = "store" /\ statistics' = stats_record(loaded[t], rate[t])
        /\ loaded' = [loaded EXCEPT ![t] = stats_alloc] /\ mutex' = 0
        /\ sampling' = [sampling EXCEPT ![t] = "no"]
        /\ sampled' = [sampled EXCEPT ![rate[t]] = @ + 1] /\ rate' = rate
    BY <1>5 DEF Store
  <2>2. loaded[t] = statistics /\ mutex = t /\ rate[t] \in 0..MaxResponses
    BY <2>1 DEF SampleInv
  <2>3. Sampled(statistics', sampled')
    BY <2>1, <2>2, SampleKept DEF SampleInv
  <2>4. \A s \in Thread : sampling'[s] \notin {"load", "store"}
    BY <1>0, <2>1, <2>2 DEF SampleInv
  <2>5. stats_alloc \in Stats
    <3>1. hdr_init \in Histogram /\ MaxResponses \in Nat /\ NoMin = MaxResponses + 1
      BY NothingKept, StatisticsAssumption DEF Keeps, NoMin
    <3> QED
      BY <3>1 DEF stats_alloc, Stats
  <2>6. loaded' \in [Thread -> Stats]
    BY <2>1, <2>5 DEF SampleInv
  <2>7. mutex' \in 0..Threads
    BY <1>0, <2>1
  <2> QED
    BY <2>1, <2>3, <2>4, <2>6, <2>7 DEF SampleInv, Sampled
<1>6. CASE Interrupt \/ Deadline \/ Join \/ Sum \/ UNCHANGED vars
  BY <1>1, <1>6 DEF Interrupt, Deadline, Join, Sum, vars, ofSampling
<1>7. ASSUME NEW t \in Thread, \/ LateResponse(t) \/ response_complete(t) \/ calibrate(t)
                               \/ check_timeouts(t) \/ aeMain(t)
      PROVE  SampleInv'
  BY <1>1, <1>7 DEF LateResponse, response_complete, calibrate, check_timeouts, aeMain, Count,
                    ofSampling
<1> QED
  BY <1>2, <1>3, <1>4, <1>5, <1>6, <1>7, Steps

-----------------------------------------------------------------------------
(* Adding one histogram to another.                                         *)

\* A part of a sum is no greater than the sum.
LEMMA SumPart ==
    ASSUME NEW S, IsFiniteSet(S), NEW f, \A x \in S : f[x] \in Nat, NEW T, T \subseteq S
    PROVE  SumFunctionOnSet(f, T) <= SumFunctionOnSet(f, S)
<1> DEFINE e == [x \in S |-> IF x \in T THEN f[x] ELSE 0]
           d == [x \in S |-> IF x \in T THEN 0 ELSE f[x]]
           SumF == SumFunctionOnSet(f, S)
           SumE == SumFunctionOnSet(e, S)
           SumD == SumFunctionOnSet(d, S)
           SumT == SumFunctionOnSet(f, T)
<1>1. /\ \A x \in S : e[x] \in Nat /\ d[x] \in Nat /\ f[x] = e[x] + d[x]
      /\ \A x \in T : e[x] \in Nat /\ e[x] = f[x]
      /\ \A x \in S \ T : e[x] = 0
  OBVIOUS
<1>2. IsFiniteSet(T)
  BY FS_Subset
<1> HIDE DEF e, d
<1>3. SumF = SumE + SumD
  BY <1>1, SumPlus
<1>4. SumE = SumFunctionOnSet(e, T)
  BY <1>1, SumZeros
<1>5. SumFunctionOnSet(e, T) = SumT
  BY <1>1, <1>2, SumSame
<1>6. SumD \in Nat /\ SumE \in Nat
  BY <1>1, SumStep
<1> HIDE DEF SumF, SumE, SumD, SumT
<1>7. SumT <= SumF
  BY <1>3, <1>4, <1>5, <1>6
<1> QED
  BY <1>7 DEF SumF, SumT

\* What hdr_iter has passed at the nth place.
LEMMA CountsPassed ==
    ASSUME NEW h \in Histogram, NEW n \in 0..counts_len
    PROVE  CountTo(h, n) = SumFunctionOnSet(h.counts, 0..n - 1)
<1> DEFINE c == h.counts
           SumTo(k) == SumFunctionOnSet(c, 0..k - 1)
           Adds(to) == to = [k \in 0..n |-> IF k = 0 THEN 0 ELSE to[k - 1] + CountAt(h, k)]
           sums == [k \in 0..n |-> SumTo(k)]
<1>1. counts_len \in Nat /\ c \in [Indices -> Nat] /\ Indices = 0..counts_len - 1
  BY IndexFacts DEF Histogram, Indices
<1> HIDE DEF c
<1>2. SumTo(0) = 0
  <2>1. 0..0 - 1 = {} /\ IsFiniteSet({})
    BY FS_EmptySet
  <2> QED
    BY <2>1, SumStep
<1>3. ASSUME NEW k \in 1..n PROVE CountAt(h, k) = c[k - 1] /\ SumTo(k) = SumTo(k - 1) + CountAt(h, k)
  <2>1. k \in 1..counts_len /\ k - 1 \in Indices
    BY <1>1
  <2>2. CountAt(h, k) = c[k - 1]
    BY <2>1, PlaceFacts DEF CountAt, c
  <2> DEFINE S == 0..(k - 1) - 1
             a == k - 1
  <2>3. 0..k - 1 = S \cup {a} /\ a \notin S /\ S \subseteq Indices
    BY <1>1, <2>1
  <2>4. IsFiniteSet(S) /\ (\A x \in S : c[x] \in Nat) /\ c[a] \in Nat
    BY <1>1, <2>1, <2>3, IndexFacts, FS_Subset
  <2>8. SumTo(k) = SumFunctionOnSet(c, S \cup {a})
    BY <2>3
  <2> HIDE DEF S, a
  <2>5. SumFunctionOnSet(c, S \cup {a}) = c[a] + SumFunctionOnSet(c, S)
    BY <2>3, <2>4, SumInsert
  <2>6. SumFunctionOnSet(c, S) \in Nat
    BY <2>4, SumStep
  <2>7. SumTo(k) = SumFunctionOnSet(c, S) + c[a]
    <3> HIDE DEF SumTo
    <3> QED
      BY <2>4, <2>5, <2>6, <2>8
  <2> QED
    BY <2>2, <2>7 DEF S, a
<1> HIDE DEF SumTo
<1>4. Adds(sums)
  <2>1. \A k \in 0..n : sums[k] = IF k = 0 THEN 0 ELSE sums[k - 1] + CountAt(h, k)
    BY <1>1, <1>2, <1>3
  <2>2. sums = [k \in 0..n |-> sums[k]]
    OBVIOUS
  <2> HIDE DEF sums
  <2> QED
    BY <2>1, <2>2
<1> DEFINE to == CHOOSE f : Adds(f)
<1>5. CountTo(h, n) = to[n]
  BY DEF CountTo
<1>6. Adds(to)
  <2> HIDE DEF Adds, sums
  <2> QED
    BY <1>4
<1> HIDE DEF to
<1>7. \A k \in 0..n : to[k] = IF k = 0 THEN 0 ELSE to[k - 1] + CountAt(h, k)
  BY <1>6
<1> DEFINE Bad == {k \in 0..n : to[k] # SumTo(k)}
<1>8. Bad = {}
  <2>1. SUFFICES ASSUME Bad # {} PROVE FALSE
    OBVIOUS
  <2>2. PICK k \in Bad : \A j \in Bad : k <= j
    <3>1. Bad \subseteq Nat
      OBVIOUS
    <3> HIDE DEF Bad
    <3> QED
      BY <2>1, <3>1, NatMin
  <2>3. k \in 0..n /\ to[k] # SumTo(k) /\ k # 0
    BY <1>2, <1>7, <2>2
  <2>4. k - 1 \in 0..n /\ k - 1 \notin Bad /\ k \in 1..n
    BY <1>1, <2>2, <2>3
  <2>5. to[k - 1] = SumTo(k - 1)
    BY <2>4
  <2> QED
    BY <1>3, <1>7, <2>3, <2>4, <2>5
<1>9. n \in 0..n
  BY <1>1
<1> QED
  BY <1>5, <1>8, <1>9 DEF SumTo, c

\* hdr_iter stops at every place that counts something.
LEMMA RecordedIs ==
    ASSUME NEW h \in Histogram, Consistent(h), NEW n \in 1..counts_len
    PROVE  /\ CountAt(h, n) = h.counts[n - 1] /\ h.counts[n - 1] \in Nat
           /\ n \in Recorded(h) <=> h.counts[n - 1] # 0
<1> DEFINE c == h.counts
           a == n - 1
           before == SumFunctionOnSet(c, 0..a - 1)
           all == SumFunctionOnSet(c, Indices)
<1>1. counts_len \in Nat /\ c \in [Indices -> Nat] /\ Indices = 0..counts_len - 1
      /\ IsFiniteSet(Indices) /\ a \in Indices
  BY IndexFacts DEF Histogram, Indices
<1>2. CountAt(h, n) = c[a] /\ c[a] \in Nat
  BY <1>1, PlaceFacts DEF CountAt
<1>3. h.total_count = all
  BY <1>1 DEF Consistent, SumFunction
<1>4. CountTo(h, n - 1) = before
  <2>1. n - 1 \in 0..counts_len
    BY <1>1
  <2> QED
    BY <2>1, CountsPassed
<1>5. c[a] + before <= all /\ before \in Nat /\ all \in Nat
  <2> DEFINE S == 0..a - 1
             T == S \cup {a}
  <2>1. S \subseteq Indices /\ T \subseteq Indices /\ a \notin S
    BY <1>1
  <2>2. IsFiniteSet(S) /\ (\A x \in S : c[x] \in Nat) /\ (\A x \in Indices : c[x] \in Nat)
    BY <1>1, <2>1, FS_Subset
  <2> HIDE DEF S, c, a
  <2>3. SumFunctionOnSet(c, T) = c[a] + SumFunctionOnSet(c, S)
    BY <1>2, <2>1, <2>2, SumInsert
  <2> HIDE DEF T
  <2>4. SumFunctionOnSet(c, T) <= SumFunctionOnSet(c, Indices)
    BY <1>1, <2>1, <2>2, SumPart
  <2>5. SumFunctionOnSet(c, S) \in Nat /\ SumFunctionOnSet(c, Indices) \in Nat
    BY <1>1, <2>2, SumStep
  <2> QED
    BY <2>3, <2>4, <2>5 DEF S
<1>6. n \in Recorded(h) <=> before < all /\ c[a] # 0
  BY <1>2, <1>3, <1>4 DEF Recorded, Visited
<1> HIDE DEF c, a, before, all
<1>7. n \in Recorded(h) <=> c[a] # 0
  BY <1>2, <1>5, <1>6
<1> QED
  BY <1>2, <1>7 DEF c, a

\* The value of a place is counted at that place.
LEMMA CountedAtOwnPlace ==
    ASSUME NEW n \in 1..counts_len
    PROVE  counts_index_for(place[n].value) = n - 1 /\ n - 1 \in Indices
<1> DEFINE p == Slot(n - 1)
           v == place[n].value
<1>1. Numbered(p, n - 1) /\ v = p.sub * Unit(p.bucket) /\ v \in Nat
  BY PlaceFacts
<1> HIDE DEF p, v
<1>2. IsPlace(p.bucket, p.sub) /\ p.bucket \in Nat /\ p.sub \in Nat
      /\ p.bucket * sub_bucket_half_count + p.sub = n - 1
  BY <1>1 DEF Numbered
<1>3. Unit(p.bucket) \in Nat /\ Unit(p.bucket) > 0
  BY <1>2, BucketUnits
<1>4. p.sub * Unit(p.bucket) < (p.sub + 1) * Unit(p.bucket)
  BY <1>2, <1>3
<1>5. Within(v, p.bucket, p.sub)
  BY <1>1, <1>4 DEF Within
<1>6. get_bucket_index(v) = p.bucket /\ get_sub_bucket_index(v) = p.sub
  BY <1>1, <1>2, <1>5, FoundAgain
<1>7. counts_index_for(v) = n - 1
  BY <1>2, <1>6, PlaceIndex DEF counts_index_for
<1>8. n - 1 \in Indices
  BY IndexFacts DEF Indices
<1> QED
  BY <1>7, <1>8 DEF v

\* hdr_add adds count by count, and the totals.
LEMMA HdrAdd ==
    ASSUME NEW h \in Histogram, NEW from \in Histogram, Consistent(h), Consistent(from)
    PROVE  LET r == hdr_add(h, from)
           IN  /\ r \in Histogram /\ Consistent(r)
               /\ \A i \in Indices : r.counts[i] = h.counts[i] + from.counts[i]
<1> DEFINE c == from.counts
           d == h.counts
           R == Recorded(from)
           Of(s) == {n - 1 : n \in s}
           One(sum, n) == hdr_record_values(sum, place[n].value, CountAt(from, n))
           Adds(g) == g = [s \in SUBSET R |-> IF s = {} THEN h ELSE One(g[s \ {Pick(s)}], Pick(s))]
           Part(s) == [counts |-> [i \in Indices |-> d[i] + IF i \in Of(s) THEN c[i] ELSE 0],
                       total_count |-> h.total_count + SumFunctionOnSet(c, Of(s))]
           parts == [s \in SUBSET R |-> Part(s)]
           iter == CHOOSE g : Adds(g)
<1>1. /\ c \in [Indices -> Nat] /\ d \in [Indices -> Nat] /\ h.total_count \in Nat
      /\ IsFiniteSet(Indices) /\ Indices = 0..counts_len - 1 /\ counts_len \in Nat
      /\ DOMAIN c = Indices /\ DOMAIN d = Indices
  BY IndexFacts DEF Histogram, Indices
<1>2. R \subseteq 1..counts_len /\ IsFiniteSet(R)
  <2>1. R \subseteq 1..counts_len
    BY DEF Recorded, Visited
  <2>2. IsFiniteSet(1..counts_len)
    BY <1>1, FS_Interval
  <2> QED
    BY <2>1, <2>2, FS_Subset
<1>3. hdr_add(h, from) = iter[R]
  BY DEF hdr_add, FoldSet, MapThenFoldSet, Pick
<1>4. \A n \in 1..counts_len : /\ CountAt(from, n) = c[n - 1] /\ n - 1 \in Indices
                               /\ counts_index_for(place[n].value) = n - 1
                               /\ n \in R <=> c[n - 1] # 0
  BY RecordedIs, CountedAtOwnPlace
<1> HIDE DEF R, c, d, iter
<1>5. \A s \in SUBSET R : IsFiniteSet(Of(s)) /\ Of(s) \subseteq Indices
  <2> SUFFICES ASSUME NEW s \in SUBSET R PROVE IsFiniteSet(Of(s)) /\ Of(s) \subseteq Indices
    OBVIOUS
  <2>1. Of(s) \subseteq Indices
    BY <1>1, <1>2
  <2> QED
    BY <1>1, <2>1, FS_Subset
<1>6. \A s \in SUBSET R : Part(s) \in Histogram
  <2> SUFFICES ASSUME NEW s \in SUBSET R PROVE Part(s) \in Histogram
    OBVIOUS
  <2>1. SumFunctionOnSet(c, Of(s)) \in Nat
    <3>1. IsFiniteSet(Of(s)) /\ \A i \in Of(s) : c[i] \in Nat
      BY <1>1, <1>5
    <3> QED
      BY <3>1, SumStep
  <2>2. [i \in Indices |-> d[i] + IF i \in Of(s) THEN c[i] ELSE 0] \in [Indices -> Nat]
    BY <1>1
  <2> HIDE DEF Of
  <2>3. h.total_count + SumFunctionOnSet(c, Of(s)) \in Nat
    BY <1>1, <2>1
  <2> QED
    BY <2>2, <2>3 DEF Histogram, Indices
<1>7. Part({}) = h
  <2>1. Of({}) = {}
    OBVIOUS
  <2>2. SumFunctionOnSet(c, Of({})) = 0
    BY <2>1, SumStep, FS_EmptySet
  <2>3. [i \in Indices |-> d[i] + IF i \in Of({}) THEN c[i] ELSE 0] = d
    BY <1>1, <2>1
  <2>4. h = [counts |-> d, total_count |-> h.total_count]
    BY DEF Histogram, d
  <2> QED
    BY <1>1, <2>2, <2>3, <2>4
<1>8. ASSUME NEW s \in SUBSET R, s # {}
      PROVE  Part(s) = One(Part(s \ {Pick(s)}), Pick(s))
  <2> DEFINE n == Pick(s)
             b == s \ {n}
             a == n - 1
             p == Part(b)
             q == Part(s)
             r == One(p, n)
  <2>1. n \in s /\ b \in SUBSET R /\ n \in 1..counts_len
    BY <1>2, <1>8, PickFrom
  <2>2. a \in Indices /\ CountAt(from, n) = c[a] /\ counts_index_for(place[n].value) = a
        /\ c[a] \in Nat
    BY <1>1, <1>4, <2>1
  <2>3. p \in Histogram /\ q \in Histogram
    BY <1>6, <2>1
  <2>4. /\ r \in Histogram /\ r.total_count = p.total_count + c[a]
        /\ \A j \in Indices : r.counts[j] = IF j = a THEN p.counts[j] + c[a] ELSE p.counts[j]
    <3> DEFINE v == place[n].value
               m == CountAt(from, n)
    <3> HIDE DEF p, v, m, a
    <3>1. counts_index_for(v) = a /\ a \in Indices /\ m \in Nat /\ m = c[a] /\ p \in Histogram
      BY <2>2, <2>3 DEF v, m
    <3>2. /\ hdr_record_values(p, v, m) \in Histogram
          /\ hdr_record_values(p, v, m).total_count = p.total_count + m
          /\ \A j \in Indices : hdr_record_values(p, v, m).counts[j]
                                  = IF j = a THEN p.counts[j] + m ELSE p.counts[j]
      BY <3>1, RecordValues
    <3>3. r = hdr_record_values(p, v, m)
      BY DEF v, m
    <3> QED
      BY <3>1, <3>2, <3>3
  <2>5. Of(s) = Of(b) \cup {a} /\ a \notin Of(b)
    <3>1. \A m \in b : m \in Nat /\ m # n /\ m - 1 # n - 1
      BY <1>2, <2>1
    <3>2. n \in Nat
      BY <2>1
    <3> QED
      BY <2>1, <3>1, <3>2
  <2>6. SumFunctionOnSet(c, Of(s)) = c[a] + SumFunctionOnSet(c, Of(b))
    <3> DEFINE S == Of(b)
    <3>1. IsFiniteSet(S) /\ (\A i \in S : c[i] \in Nat) /\ c[a] \in Nat /\ a \notin S
      BY <1>1, <1>5, <2>1, <2>2, <2>5
    <3> HIDE DEF S, a
    <3>2. SumFunctionOnSet(c, S \cup {a}) = c[a] + SumFunctionOnSet(c, S)
      BY <3>1, SumInsert
    <3> QED
      BY <2>5, <3>2 DEF S
  <2>7. p.total_count = h.total_count + SumFunctionOnSet(c, Of(b))
        /\ q.total_count = h.total_count + SumFunctionOnSet(c, Of(s))
    OBVIOUS
  <2>8. \A j \in Indices : /\ p.counts[j] = d[j] + IF j \in Of(b) THEN c[j] ELSE 0
                           /\ q.counts[j] = d[j] + IF j \in Of(s) THEN c[j] ELSE 0
    OBVIOUS
  <2>9. SumFunctionOnSet(c, Of(b)) \in Nat
    <3>1. IsFiniteSet(Of(b)) /\ \A i \in Of(b) : c[i] \in Nat
      BY <1>1, <1>5, <2>1
    <3> QED
      BY <3>1, SumStep
  <2> HIDE DEF p, q, r, a, b, Of
  <2>10. q.total_count = r.total_count
    BY <1>1, <2>2, <2>4, <2>6, <2>7, <2>9
  <2>11. \A j \in Indices : q.counts[j] = r.counts[j]
    <3> SUFFICES ASSUME NEW j \in Indices PROVE q.counts[j] = r.counts[j]
      OBVIOUS
    <3>1. /\ p.counts[j] = d[j] + IF j \in Of(b) THEN c[j] ELSE 0
          /\ q.counts[j] = d[j] + IF j \in Of(s) THEN c[j] ELSE 0
          /\ r.counts[j] = IF j = a THEN p.counts[j] + c[a] ELSE p.counts[j]
      BY <2>4, <2>8
    <3>2. j \in Of(s) <=> j \in Of(b) \/ j = a
      BY <2>5
    <3>3. d[j] \in Nat /\ c[j] \in Nat
      BY <1>1
    <3>4. CASE j = a
      <4>1. p.counts[j] = d[j] + 0 /\ q.counts[j] = d[j] + c[j] /\ r.counts[j] = p.counts[j] + c[j]
        BY <2>5, <3>1, <3>2, <3>4
      <4> QED
        BY <3>3, <4>1
    <3>5. CASE j # a
      BY <3>1, <3>2, <3>5
    <3> QED
      BY <3>4, <3>5
  <2>12. q = r
    <3>1. /\ q = [counts |-> q.counts, total_count |-> q.total_count]
          /\ r = [counts |-> r.counts, total_count |-> r.total_count]
          /\ q.counts \in [Indices -> Nat] /\ r.counts \in [Indices -> Nat]
      BY <2>3, <2>4 DEF Histogram, Indices
    <3>2. q.counts = r.counts
      BY <2>11, <3>1
    <3> QED
      BY <2>10, <3>1, <3>2
  <2> QED
    BY <2>12 DEF p, q, r, b
<1> HIDE DEF Part, One
<1>9. Adds(parts)
  <2>1. \A s \in SUBSET R : parts[s] = IF s = {} THEN h ELSE One(parts[s \ {Pick(s)}], Pick(s))
    <3> SUFFICES ASSUME NEW s \in SUBSET R
                 PROVE  parts[s] = IF s = {} THEN h ELSE One(parts[s \ {Pick(s)}], Pick(s))
      OBVIOUS
    <3>1. s \ {Pick(s)} \in SUBSET R
      OBVIOUS
    <3> QED
      BY <1>7, <1>8, <3>1
  <2>2. parts = [s \in SUBSET R |-> parts[s]]
    OBVIOUS
  <2> HIDE DEF parts
  <2> QED
    BY <2>1, <2>2
<1>10. Adds(iter)
  <2> HIDE DEF Adds, parts
  <2> QED
    BY <1>9 DEF iter
<1>11. \A s \in SUBSET R : iter[s] = IF s = {} THEN h ELSE One(iter[s \ {Pick(s)}], Pick(s))
  BY <1>10
<1> DEFINE Bad == {s \in SUBSET R : iter[s] # Part(s)}
<1>12. Bad = {}
  <2>1. SUFFICES ASSUME Bad # {} PROVE FALSE
    OBVIOUS
  <2>2. PICK s \in Bad : \A x \in s : s \ {x} \notin Bad
    <3>1. Bad \subseteq SUBSET R
      OBVIOUS
    <3> HIDE DEF Bad
    <3> QED
      BY <1>2, <2>1, <3>1, LeastSet
  <2>3. s \in SUBSET R /\ iter[s] # Part(s)
    BY <2>2
  <2>4. s # {}
    BY <1>7, <1>11, <2>3
  <2>5. Pick(s) \in s /\ s \ {Pick(s)} \in SUBSET R /\ s \ {Pick(s)} \notin Bad
    BY <2>2, <2>3, <2>4, PickFrom
  <2>6. iter[s \ {Pick(s)}] = Part(s \ {Pick(s)})
    BY <2>5
  <2> HIDE DEF Bad
  <2> QED
    BY <1>8, <1>11, <2>3, <2>4, <2>6
<1> DEFINE r == hdr_add(h, from)
<1>13. r = Part(R)
  <2>1. R \in SUBSET R
    OBVIOUS
  <2> QED
    BY <1>3, <1>12, <2>1
<1>14. r \in Histogram
  BY <1>6, <1>13
<1> HIDE DEF r
<1>15. \A i \in Indices : i \notin Of(R) => c[i] = 0
  <2> SUFFICES ASSUME NEW i \in Indices, i \notin Of(R) PROVE c[i] = 0
    OBVIOUS
  <2>1. i + 1 \in 1..counts_len /\ (i + 1) - 1 = i
    BY <1>1
  <2>2. i + 1 \notin R
    BY <2>1
  <2> QED
    BY <1>4, <2>1, <2>2
<1>16. \A i \in Indices : r.counts[i] = d[i] + c[i]
  <2> SUFFICES ASSUME NEW i \in Indices PROVE r.counts[i] = d[i] + c[i]
    OBVIOUS
  <2>1. r.counts[i] = d[i] + IF i \in Of(R) THEN c[i] ELSE 0
    BY <1>13 DEF Part
  <2> QED
    BY <1>15, <2>1
<1>17. Consistent(r)
  <2>1. r.total_count = h.total_count + SumFunctionOnSet(c, Of(R))
    BY <1>13 DEF Part
  <2>2. SumFunctionOnSet(c, Indices) = SumFunctionOnSet(c, Of(R))
    <3>1. /\ Of(R) \subseteq Indices /\ \A i \in Indices : c[i] \in Nat
          /\ \A i \in Indices \ Of(R) : c[i] = 0
      BY <1>1, <1>5, <1>15
    <3> HIDE DEF Of
    <3> QED
      BY <1>1, <3>1, SumZeros
  <2>3. h.total_count = SumFunctionOnSet(d, Indices)
    BY <1>1 DEF Consistent, SumFunction, d
  <2>4. DOMAIN r.counts = Indices
    BY <1>14 DEF Histogram, Indices
  <2>5. SumFunctionOnSet(r.counts, Indices) = SumFunctionOnSet(d, Indices) + SumFunctionOnSet(c, Indices)
    <3> DEFINE q == r.counts
    <3>1. \A i \in Indices : d[i] \in Nat /\ c[i] \in Nat /\ q[i] = d[i] + c[i]
      BY <1>1, <1>16
    <3>2. IsFiniteSet(Indices)
      BY <1>1
    <3> HIDE DEF q
    <3>3. SumFunctionOnSet(q, Indices) = SumFunctionOnSet(d, Indices) + SumFunctionOnSet(c, Indices)
      BY <3>1, <3>2, SumPlus
    <3> QED
      BY <3>3 DEF q
  <2> QED
    BY <2>1, <2>2, <2>3, <2>4, <2>5 DEF Consistent, SumFunction
<1> QED
  BY <1>14, <1>16, <1>17 DEF r, c, d

-----------------------------------------------------------------------------
(* The report.                                                              *)

\* The sum of the rows is the sum of the columns.
LEMMA SumExchange ==
    ASSUME NEW S, IsFiniteSet(S), NEW T, IsFiniteSet(T), NEW F \in [S -> [T -> Nat]]
    PROVE  SumFunctionOnSet([s \in S |-> SumFunctionOnSet(F[s], T)], S)
             = SumFunctionOnSet([t \in T |-> SumFunctionOnSet([s \in S |-> F[s][t]], S)], T)
<1> DEFINE row == [s \in S |-> SumFunctionOnSet(F[s], T)]
           Column(t) == [s \in S |-> F[s][t]]
           columns(A) == [t \in T |-> SumFunctionOnSet(Column(t), A)]
           Left(A) == SumFunctionOnSet(row, A)
           Right(A) == SumFunctionOnSet(columns(A), T)
           Bad == {A \in SUBSET S : Left(A) # Right(A)}
<1>1. \A A \in SUBSET S : IsFiniteSet(A)
  BY FS_Subset
<1>2. \A s \in S : row[s] \in Nat
  <2> SUFFICES ASSUME NEW s \in S PROVE row[s] \in Nat
    OBVIOUS
  <2>1. \A t \in T : F[s][t] \in Nat
    OBVIOUS
  <2> QED
    BY <2>1, SumStep
<1>3. \A A \in SUBSET S : \A t \in T : /\ columns(A)[t] \in Nat /\ (A = {} => columns(A)[t] = 0)
                                       /\ \A x \in A : columns(A)[t] = F[x][t] + columns(A \ {x})[t]
  <2> SUFFICES ASSUME NEW A \in SUBSET S, NEW t \in T
               PROVE  /\ columns(A)[t] \in Nat /\ (A = {} => columns(A)[t] = 0)
                      /\ \A x \in A : columns(A)[t] = F[x][t] + columns(A \ {x})[t]
    OBVIOUS
  <2>1. IsFiniteSet(A) /\ \A s \in A : Column(t)[s] \in Nat /\ Column(t)[s] = F[s][t]
    BY <1>1
  <2>2. \A B : columns(B)[t] = SumFunctionOnSet(Column(t), B)
    OBVIOUS
  <2> HIDE DEF Column, columns
  <2>3. SumFunctionOnSet(Column(t), A) \in Nat /\ (A = {} => SumFunctionOnSet(Column(t), A) = 0)
    BY <2>1, SumStep
  <2>4. \A x \in A : SumFunctionOnSet(Column(t), A)
                       = Column(t)[x] + SumFunctionOnSet(Column(t), A \ {x})
    BY <2>1, SumRemove
  <2> QED
    BY <2>1, <2>2, <2>3, <2>4
<1> HIDE DEF Column, row, columns
<1>4. SUFFICES ASSUME Bad # {} PROVE FALSE
  <2>1. S \in SUBSET S
    OBVIOUS
  <2>2. Left(S) = Right(S)
    BY <1>4, <2>1
  <2> QED
    BY <2>2 DEF row, columns, Column
<1>5. PICK A \in Bad : \A x \in A : A \ {x} \notin Bad
  <2>1. Bad \subseteq SUBSET S
    OBVIOUS
  <2> HIDE DEF Bad
  <2> QED
    BY <1>4, <2>1, LeastSet
<1>6. A \in SUBSET S /\ Left(A) # Right(A)
  BY <1>5
<1>7. A # {}
  <2> SUFFICES ASSUME A = {} PROVE FALSE
    OBVIOUS
  <2>1. Left(A) = 0
    BY SumStep, FS_EmptySet
  <2>2. Right(A) = 0
    <3>1. (\A t \in T : columns(A)[t] \in Nat) /\ \A t \in T \ {} : columns(A)[t] = 0
      BY <1>3, <1>6
    <3>2. SumFunctionOnSet(columns(A), T) = SumFunctionOnSet(columns(A), {})
      BY <3>1, SumZeros
    <3> QED
      BY <3>2, SumStep, FS_EmptySet
  <2> QED
    BY <1>6, <2>1, <2>2
<1>8. PICK x \in A : TRUE
  BY <1>7
<1>9. x \in S /\ A \ {x} \in SUBSET S /\ Left(A \ {x}) = Right(A \ {x})
  BY <1>5, <1>6, <1>8
<1>10. Left(A) = row[x] + Left(A \ {x})
  <2>1. IsFiniteSet(A) /\ \A s \in A : row[s] \in Nat
    BY <1>1, <1>2, <1>6
  <2> QED
    BY <1>8, <2>1, SumRemove
<1>11. Right(A) = row[x] + Right(A \ {x})
  <2> DEFINE e == columns(A \ {x})
             f == F[x]
  <2>1. \A t \in T : f[t] \in Nat /\ e[t] \in Nat /\ columns(A)[t] = f[t] + e[t]
    BY <1>3, <1>6, <1>8, <1>9
  <2>2. row[x] = SumFunctionOnSet(f, T)
    BY <1>9 DEF row
  <2> HIDE DEF e, f
  <2>3. SumFunctionOnSet(columns(A), T) = SumFunctionOnSet(f, T) + SumFunctionOnSet(e, T)
    BY <2>1, SumPlus
  <2> QED
    BY <2>2, <2>3 DEF e
<1> QED
  BY <1>6, <1>9, <1>10, <1>11

\* The empty sum.
LEMMA SumOfNone == ASSUME NEW f PROVE SumFunctionOnSet(f, {}) = 0
BY SumStep, FS_EmptySet

\* The threads whose histograms main has added.
Added == IF main = "join" THEN {} ELSE IF main = "sum" THEN 1..at - 1 ELSE Thread

\* The sum of the histograms of these threads.
Gathered(sum, hist, S) ==
    /\ sum \in Histogram /\ Consistent(sum)
    /\ \A i \in Indices :
         sum.counts[i] = SumFunctionOnSet([t \in Thread |-> hist[t].counts[i]], S)

ReportInv ==
    /\ report \in [complete : Nat, latency : Histogram, u_latency : Histogram]
    /\ report.complete = SumFunctionOnSet(complete, Added)
    /\ Gathered(report.latency, latency_histogram, Added)
    /\ Gathered(report.u_latency, u_latency_histogram, Added)

\* hdr_add gathers the histogram of one more thread.
LEMMA GatherOne ==
    ASSUME NEW sum, NEW hist, hist \in [Thread -> Histogram], NEW S, S \subseteq Thread,
           Gathered(sum, hist, S), NEW t \in Thread, t \notin S, Consistent(hist[t])
    PROVE  Gathered(hdr_add(sum, hist[t]), hist, S \cup {t})
<1> DEFINE h == hist[t]
           r == hdr_add(sum, h)
<1>1. /\ sum \in Histogram /\ Consistent(sum) /\ h \in Histogram /\ Consistent(h)
      /\ IsFiniteSet(S)
  BY ThreadFacts, FS_Subset DEF Gathered
<1>2. /\ r \in Histogram /\ Consistent(r)
      /\ \A i \in Indices : r.counts[i] = sum.counts[i] + h.counts[i]
  BY <1>1, HdrAdd
<1> HIDE DEF r
<1>3. ASSUME NEW i \in Indices
      PROVE  r.counts[i] = SumFunctionOnSet([s \in Thread |-> hist[s].counts[i]], S \cup {t})
  <2> DEFINE f == [s \in Thread |-> hist[s].counts[i]]
  <2>1. \A s \in Thread : hist[s].counts \in [Indices -> Nat]
    BY DEF Histogram, Indices
  <2>2. (\A s \in S : f[s] \in Nat) /\ f[t] \in Nat /\ f[t] = h.counts[i]
    BY <2>1
  <2>3. sum.counts[i] = SumFunctionOnSet(f, S)
    BY DEF Gathered
  <2> HIDE DEF f
  <2>4. SumFunctionOnSet(f, S \cup {t}) = f[t] + SumFunctionOnSet(f, S)
    BY <1>1, <2>2, SumInsert
  <2>5. SumFunctionOnSet(f, S) \in Nat
    BY <1>1, <2>2, SumStep
  <2>6. r.counts[i] = SumFunctionOnSet(f, S \cup {t})
    BY <1>2, <2>2, <2>3, <2>4, <2>5
  <2> QED
    BY <2>6 DEF f
<1> QED
  BY <1>2, <1>3 DEF Gathered, r

\* main adds a thread to what it has.
LEMMA AddedNext ==
    ASSUME Base, main = "sum", NextThread("report")
    PROVE  Added' = Added \cup {at} /\ at \notin Added /\ Added \subseteq Thread /\ at \in Thread
<1>1. Thread = 1..Threads /\ Threads \in Nat /\ at \in 1..Threads /\ Added = 1..at - 1
  BY ThreadFacts DEF Base, Added
<1>2. CASE at < Threads
  <2>1. at' = at + 1 /\ main' = "sum"
    BY <1>2 DEF NextThread
  <2>2. Added' = 1..(at + 1) - 1
    BY <2>1 DEF Added
  <2> QED
    BY <1>1, <2>2
<1>3. CASE ~(at < Threads)
  <2>1. main' = "report" /\ at = Threads
    BY <1>1, <1>3 DEF NextThread
  <2>2. Added' = Thread
    BY <2>1 DEF Added, Thread
  <2> QED
    BY <1>1, <2>1, <2>2
<1> QED
  BY <1>2, <1>3

\* What the report has gathered.
LEMMA ReportStep ==
    ASSUME Base, MainInv, CountInv, LatencyInv, ReportInv, [Next]_vars
    PROVE  ReportInv'
<1>1. CASE UNCHANGED <<main, at, report, complete, latency_histogram, u_latency_histogram>>
  BY <1>1 DEF ReportInv, Added, Gathered, Consistent, Thread, Histogram
<1>2. ASSUME main = "join", Added' = {}, report' = report PROVE ReportInv'
  <2>1. Added = {}
    BY <1>2 DEF Added
  <2>2. \A f : SumFunctionOnSet(f, {}) = 0
    BY SumOfNone
  <2>3. report.complete = 0 /\ \A i \in Indices : report.latency.counts[i] = 0
                                                  /\ report.u_latency.counts[i] = 0
    BY <2>1, <2>2 DEF ReportInv, Gathered
  <2>4. /\ report \in [complete : Nat, latency : Histogram, u_latency : Histogram]
        /\ report.latency \in Histogram /\ Consistent(report.latency)
        /\ report.u_latency \in Histogram /\ Consistent(report.u_latency)
    BY DEF ReportInv, Gathered
  <2>5. Gathered(report.latency, latency_histogram', {})
        /\ Gathered(report.u_latency, u_latency_histogram', {})
    BY <2>2, <2>3, <2>4 DEF Gathered
  <2>6. report'.complete = SumFunctionOnSet(complete', Added')
    BY <1>2, <2>2, <2>3
  <2>7. Gathered(report', latency_histogram', Added') = Gathered(report, latency_histogram', {})
    BY <1>2
  <2> QED
    BY <1>2, <2>4, <2>5, <2>6 DEF ReportInv, Gathered
<1>3. CASE Join
  <2>1. /\ main = "join" /\ report' = report /\ NextThread("sum")
    BY <1>3 DEF Join
  <2>2. Added' = {}
    BY <2>1 DEF Added, NextThread
  <2> QED
    BY <1>2, <2>1, <2>2
<1>4. CASE Sum
  <2>1. /\ main = "sum" /\ NextThread("report")
        /\ report' = [complete  |-> report.complete + complete[at],
                      latency   |-> hdr_add(report.latency, latency_histogram[at]),
                      u_latency |-> hdr_add(report.u_latency, u_latency_histogram[at])]
        /\ UNCHANGED <<complete, latency_histogram, u_latency_histogram>>
    BY <1>4 DEF Sum, ofThread
  <2>2. Added' = Added \cup {at} /\ at \notin Added /\ Added \subseteq Thread /\ at \in Thread
    BY <2>1, AddedNext
  <2>3. /\ latency_histogram \in [Thread -> Histogram] /\ Consistent(latency_histogram[at])
        /\ u_latency_histogram \in [Thread -> Histogram] /\ Consistent(u_latency_histogram[at])
    BY <2>2 DEF LatencyInv, Filled, Keeps
  <2>4. /\ Gathered(report.latency, latency_histogram, Added)
        /\ Gathered(report.u_latency, u_latency_histogram, Added)
    BY DEF ReportInv
  <2> DEFINE l == hdr_add(report.latency, latency_histogram[at])
             u == hdr_add(report.u_latency, u_latency_histogram[at])
             n == report.complete + complete[at]
             now == Added \cup {at}
  <2>5. Gathered(l, latency_histogram, now) /\ Gathered(u, u_latency_histogram, now)
    BY <2>2, <2>3, <2>4, GatherOne
  <2>6. n = SumFunctionOnSet(complete, now) /\ n \in Nat
    <3>1. (\A t \in Added : complete[t] \in Nat) /\ complete[at] \in Nat /\ IsFiniteSet(Added)
      BY <2>2, ThreadFacts, FS_Subset DEF CountInv
    <3>2. SumFunctionOnSet(complete, now) = complete[at] + SumFunctionOnSet(complete, Added)
      BY <2>2, <3>1, SumInsert
    <3>3. SumFunctionOnSet(complete, Added) \in Nat
      BY <3>1, SumStep
    <3>4. report.complete = SumFunctionOnSet(complete, Added)
      BY DEF ReportInv
    <3> QED
      BY <3>1, <3>2, <3>3, <3>4
  <2>7. l \in Histogram /\ u \in Histogram
    BY <2>5 DEF Gathered
  <2>8. report' = [complete |-> n, latency |-> l, u_latency |-> u] /\ Added' = now
    BY <2>1, <2>2
  <2> HIDE DEF l, u, n, now
  <2>9. report'.complete = n /\ report'.latency = l /\ report'.u_latency = u
        /\ report' \in [complete : Nat, latency : Histogram, u_latency : Histogram]
    BY <2>6, <2>7, <2>8
  <2>10. Gathered(report.latency, latency_histogram, Added)'
    BY <2>1, <2>5, <2>8, <2>9 DEF Gathered, Consistent, Thread, Histogram
  <2>11. Gathered(report.u_latency, u_latency_histogram, Added)'
    BY <2>1, <2>5, <2>8, <2>9 DEF Gathered, Consistent, Thread, Histogram
  <2> QED
    BY <2>1, <2>6, <2>8, <2>9, <2>10, <2>11 DEF ReportInv
<1>5. CASE Interrupt \/ Deadline \/ UNCHANGED vars
  BY <1>1, <1>5 DEF Interrupt, Deadline, vars, ofThread, ofMain
<1>6. ASSUME NEW t \in Thread, \/ LateResponse(t) \/ response_complete(t) \/ calibrate(t)
                               \/ check_timeouts(t) \/ aeMain(t)
                               \/ sample_rate(t) \/ Lock(t) \/ Load(t) \/ Store(t)
      PROVE  ReportInv'
  <2>1. UNCHANGED <<main, at, report>>
    BY <1>6 DEF LateResponse, response_complete, calibrate, check_timeouts, aeMain, Count,
                sample_rate, Lock, Load, Store, ofMain
  <2>2. loop[t] # "over" \/ sampling[t] # "no"
    BY <1>6 DEF LateResponse, response_complete, calibrate, check_timeouts, aeMain, Runs,
                sample_rate, Lock, Load, Store
  <2>3. main = "join"
    BY <2>2 DEF MainInv
  <2>4. Added' = {}
    BY <2>1, <2>3 DEF Added
  <2> QED
    BY <1>2, <2>1, <2>3, <2>4
<1> QED
  BY <1>3, <1>4, <1>5, <1>6, Steps

\* What all threads have seen is in the sum of their histograms.
LEMMA AllGathered ==
    ASSUME NEW sum, NEW hist, NEW values, Filled(hist, values), Gathered(sum, hist, Thread)
    PROVE  Keeps(sum, AllOf(values))
<1> DEFINE all == AllOf(values)
           Of(v) == [t \in Thread |-> values[t][v]]
<1>1. /\ values \in [Thread -> [Latencies -> Nat]] /\ hist \in [Thread -> Histogram]
      /\ IsFiniteSet(Thread) /\ IsFiniteSet(Latencies) /\ Latencies \subseteq Int
  BY ThreadFacts, StatisticsAssumption DEF Filled
<1>2. \A t \in Thread : Tracked(values[t]) /\ Counts(hist[t], values[t]) /\ DOMAIN values[t] = Latencies
  BY <1>1 DEF Filled, Keeps
<1>3. DOMAIN all = Latencies /\ \A v \in Latencies : all[v] = SumFunctionOnSet(Of(v), Thread)
  BY DEF AllOf, SumFunction
<1>4. \A v \in Latencies : /\ \A t \in Thread : Of(v)[t] = values[t][v] /\ Of(v)[t] \in Nat
                           /\ SumFunctionOnSet(Of(v), Thread) \in Nat
  <2> SUFFICES ASSUME NEW v \in Latencies
               PROVE  /\ \A t \in Thread : Of(v)[t] = values[t][v] /\ Of(v)[t] \in Nat
                      /\ SumFunctionOnSet(Of(v), Thread) \in Nat
    OBVIOUS
  <2>1. \A t \in Thread : Of(v)[t] = values[t][v] /\ Of(v)[t] \in Nat
    BY <1>1
  <2> HIDE DEF Of
  <2> QED
    BY <1>1, <2>1, SumStep
<1>5. all \in [Latencies -> Nat]
  BY <1>3, <1>4 DEF AllOf
<1> HIDE DEF all, Of
<1>6. ASSUME NEW v \in Latencies, all[v] > 0 PROVE AssertionsHold(v)
  <2> SUFFICES ASSUME ~AssertionsHold(v) PROVE FALSE
    OBVIOUS
  <2>1. \A t \in Thread : Of(v)[t] = 0
    BY <1>1, <1>2, <1>4 DEF Tracked
  <2>2. SumFunctionOnSet(Of(v), Thread) = SumFunctionOnSet(Of(v), {})
    BY <1>1, <1>4, <2>1, SumZeros
  <2> QED
    BY <1>3, <1>6, <2>2, SumOfNone
<1>7. Tracked(all)
  BY <1>1, <1>3, <1>5, <1>6 DEF Tracked
<1>8. Counts(sum, all)
  <2> SUFFICES ASSUME NEW i \in Indices
               PROVE  sum.counts[i] = SumFunctionOnSet(all, Among(Latencies, i))
    BY <1>3 DEF Counts, Indices
  <2> DEFINE T == Among(Latencies, i)
             F == [t \in Thread |-> [v \in T |-> values[t][v]]]
             rows == [t \in Thread |-> SumFunctionOnSet(F[t], T)]
             columns == [v \in T |-> SumFunctionOnSet([t \in Thread |-> F[t][v]], Thread)]
             here == [t \in Thread |-> hist[t].counts[i]]
  <2>1. T \subseteq Latencies
    BY DEF Among
  <2>2. IsFiniteSet(T)
    BY <1>1, <2>1, FS_Subset
  <2> HIDE DEF T
  <2>3. F \in [Thread -> [T -> Nat]]
    BY <1>1, <2>1
  <2>4. SumFunctionOnSet(rows, Thread) = SumFunctionOnSet(columns, T)
    <3> HIDE DEF F
    <3> QED
      BY <1>1, <2>2, <2>3, SumExchange
  <2>5. \A t \in Thread : here[t] \in Nat /\ here[t] = rows[t]
    <3> SUFFICES ASSUME NEW t \in Thread PROVE here[t] \in Nat /\ here[t] = rows[t]
      OBVIOUS
    <3>1. hist[t].counts \in [Indices -> Nat]
      BY <1>1 DEF Histogram, Indices
    <3>2. hist[t].counts[i] = SumFunctionOnSet(values[t], T)
      BY <1>2 DEF Counts, Indices, T
    <3>3. \A v \in T : values[t][v] \in Nat /\ values[t][v] = F[t][v]
      BY <1>1, <2>1
    <3> HIDE DEF F
    <3>4. SumFunctionOnSet(values[t], T) = SumFunctionOnSet(F[t], T)
      BY <2>2, <3>3, SumSame
    <3> QED
      BY <3>1, <3>2, <3>4
  <2>6. sum.counts[i] = SumFunctionOnSet(here, Thread)
    BY DEF Gathered
  <2>7. \A v \in T : all[v] \in Nat /\ all[v] = columns[v]
    <3> SUFFICES ASSUME NEW v \in T PROVE all[v] \in Nat /\ all[v] = columns[v]
      OBVIOUS
    <3>1. v \in Latencies /\ all[v] = SumFunctionOnSet(Of(v), Thread) /\ all[v] \in Nat
      BY <1>3, <1>5, <2>1
    <3> DEFINE f == [t \in Thread |-> F[t][v]]
    <3>2. \A t \in Thread : Of(v)[t] \in Nat /\ Of(v)[t] = f[t]
      BY <1>4, <3>1
    <3>3. columns[v] = SumFunctionOnSet(f, Thread)
      OBVIOUS
    <3> HIDE DEF f, columns, F
    <3>4. SumFunctionOnSet(Of(v), Thread) = SumFunctionOnSet(f, Thread)
      BY <1>1, <3>2, SumSame
    <3> QED
      BY <3>1, <3>3, <3>4
  <2> HIDE DEF rows, columns, here
  <2>8. SumFunctionOnSet(here, Thread) = SumFunctionOnSet(rows, Thread)
    BY <1>1, <2>5, SumSame
  <2>9. SumFunctionOnSet(all, T) = SumFunctionOnSet(columns, T)
    BY <2>2, <2>7, SumSame
  <2> QED
    BY <2>4, <2>6, <2>8, <2>9 DEF T
<1> QED
  BY <1>7, <1>8 DEF Keeps, Gathered, all

-----------------------------------------------------------------------------
(* The corrected latencies against the actual ones.                         *)

\* The counts of the first n places.
Below(h, n) == SumFunctionOnSet(h.counts, 0..n - 1)

\* As many values in both, and no place by which l has passed more than u has:
\* the values of l are the greater ones.
Dominates(l, u) ==
    /\ l.total_count = u.total_count
    /\ \A n \in 0..counts_len : Below(l, n) <= Below(u, n)

\* Those places are finitely many, their counts numbers, and all of them the total.
LEMMA BelowFacts ==
    ASSUME NEW h \in Histogram, NEW n \in 0..counts_len
    PROVE  /\ IsFiniteSet(0..n - 1) /\ 0..n - 1 \subseteq Indices
           /\ \A i \in 0..n - 1 : h.counts[i] \in Nat
           /\ Below(h, n) \in Nat
           /\ Consistent(h) /\ n = counts_len => Below(h, n) = h.total_count
<1>1. /\ counts_len \in Nat /\ h.counts \in [Indices -> Nat] /\ Indices = 0..counts_len - 1
      /\ IsFiniteSet(Indices) /\ 0..n - 1 \subseteq Indices
  BY IndexFacts DEF Histogram, Indices
<1>2. IsFiniteSet(0..n - 1) /\ \A i \in 0..n - 1 : h.counts[i] \in Nat
  BY <1>1, FS_Subset
<1>3. Below(h, n) \in Nat
  BY <1>2, SumStep DEF Below
<1>4. Consistent(h) /\ n = counts_len => Below(h, n) = h.total_count
  <2>1. DOMAIN h.counts = Indices
    BY <1>1
  <2> QED
    BY <1>1, <2>1 DEF Consistent, SumFunction, Below
<1> QED
  BY <1>1, <1>2, <1>3, <1>4

\* The greater value is counted at the later place.
LEMMA LaterPlace ==
    ASSUME NEW v \in Int, NEW w \in Int, AssertionsHold(v), AssertionsHold(w), v <= w
    PROVE  counts_index_for(v) <= counts_index_for(w)
<1> DEFINE m == counts_index_for(v) + 1
           n == counts_index_for(w) + 1
<1>1. counts_len \in Nat /\ counts_index_for(v) \in 0..counts_len - 1
      /\ counts_index_for(w) \in 0..counts_len - 1
  BY IndexFacts, Trackable
<1>2. m \in 1..counts_len /\ n \in 1..counts_len /\ m - 1 = counts_index_for(v)
      /\ n - 1 = counts_index_for(w)
  BY <1>1
<1> HIDE DEF m, n
<1>3. AtPlace(v, m) /\ AtPlace(w, n)
  BY <1>2, CountedAtPlace
<1>4. SUFFICES ASSUME n < m PROVE FALSE
  BY <1>1, <1>2
<1>5. n + 1 \in 1..counts_len /\ n + 1 <= m /\ n < counts_len
  BY <1>1, <1>2, <1>4
<1>6. place[n + 1].value <= place[m].value
  BY <1>2, <1>5, PlacesGrow
<1>7. w < place[n + 1].value /\ place[m].value <= v
  BY <1>3, <1>5 DEF AtPlace
<1>8. place[n + 1].value \in Nat /\ place[m].value \in Nat
  BY <1>2, <1>5, PlaceFacts
<1> QED
  BY <1>6, <1>7, <1>8

\* What recording a value adds to the counts of the first places.
LEMMA RecordBelow ==
    ASSUME NEW h \in Histogram, NEW v \in Int, AssertionsHold(v), NEW n \in 0..counts_len
    PROVE  Below(hdr_record_value(h, v), n)
             = Below(h, n) + IF counts_index_for(v) < n THEN 1 ELSE 0
<1> DEFINE i == counts_index_for(v)
           r == hdr_record_value(h, v)
           S == 0..n - 1
<1>1. counts_len \in Nat /\ i \in Indices /\ i \in Nat
  BY IndexFacts, Trackable DEF Indices
<1>2. /\ r \in Histogram
      /\ \A j \in Indices : r.counts[j] = IF j = i THEN h.counts[j] + 1 ELSE h.counts[j]
  BY <1>1, RecordValues DEF hdr_record_value
<1>3. IsFiniteSet(S) /\ S \subseteq Indices /\ \A j \in S : h.counts[j] \in Nat
  BY BelowFacts
<1> HIDE DEF r
<1>4. CASE i < n
  <2>1. i \in S
    BY <1>1, <1>4
  <2>2. r.counts[i] = h.counts[i] + 1 /\ \A j \in S \ {i} : r.counts[j] = h.counts[j]
    BY <1>1, <1>2, <1>3
  <2> HIDE DEF i, S
  <2>3. SumFunctionOnSet(r.counts, S) = SumFunctionOnSet(h.counts, S) + 1
    BY <1>3, <2>1, <2>2, SumGrows
  <2> QED
    BY <1>4, <2>3 DEF Below, S, i, r
<1>5. CASE ~(i < n)
  <2>1. i \notin S
    BY <1>1, <1>5
  <2>2. \A j \in S : h.counts[j] \in Nat /\ h.counts[j] = r.counts[j]
    BY <1>2, <1>3, <2>1
  <2> HIDE DEF i, S
  <2>3. SumFunctionOnSet(h.counts, S) = SumFunctionOnSet(r.counts, S)
    BY <1>3, <2>2, SumSame
  <2>4. Below(h, n) \in Nat
    BY BelowFacts
  <2> QED
    BY <1>5, <2>3, <2>4 DEF Below, S, i, r
<1> QED
  BY <1>4, <1>5

\* Two latencies of a response keep the order.
LEMMA RecordDominates ==
    ASSUME NEW l \in Histogram, NEW u \in Histogram, Dominates(l, u),
           NEW timing \in Int, NEW actual \in Int, actual <= timing,
           AssertionsHold(timing), AssertionsHold(actual)
    PROVE  Dominates(hdr_record_value(l, timing), hdr_record_value(u, actual))
<1> DEFINE i == counts_index_for(timing)
           j == counts_index_for(actual)
<1>1. i \in Indices /\ j \in Indices /\ i \in Nat /\ j \in Nat /\ j <= i /\ counts_len \in Nat
  BY IndexFacts, Trackable, LaterPlace DEF Indices
<1>2. hdr_record_value(l, timing).total_count = hdr_record_value(u, actual).total_count
  <2>1. hdr_record_values(l, timing, 1).total_count = l.total_count + 1
    BY <1>1, RecordValues
  <2>2. hdr_record_values(u, actual, 1).total_count = u.total_count + 1
    BY <1>1, RecordValues
  <2>3. l.total_count = u.total_count
    BY DEF Dominates
  <2> QED
    BY <2>1, <2>2, <2>3 DEF hdr_record_value
<1>3. ASSUME NEW n \in 0..counts_len
      PROVE  Below(hdr_record_value(l, timing), n) <= Below(hdr_record_value(u, actual), n)
  <2>1. /\ Below(hdr_record_value(l, timing), n) = Below(l, n) + IF i < n THEN 1 ELSE 0
        /\ Below(hdr_record_value(u, actual), n) = Below(u, n) + IF j < n THEN 1 ELSE 0
    BY RecordBelow
  <2>2. Below(l, n) \in Nat /\ Below(u, n) \in Nat /\ Below(l, n) <= Below(u, n)
    BY BelowFacts DEF Dominates
  <2> HIDE DEF i, j
  <2> QED
    BY <1>1, <2>1, <2>2
<1> QED
  BY <1>2, <1>3 DEF Dominates

\* So do two histograms that are both new.
LEMMA NoneDominates == Dominates(hdr_init, hdr_init)
<1>1. hdr_init \in Histogram
  BY NothingKept DEF Keeps
<1>2. \A n \in 0..counts_len : Below(hdr_init, n) \in Nat
  BY <1>1, BelowFacts
<1> QED
  BY <1>2 DEF Dominates

DominanceInv == \A t \in Thread : Dominates(latency_histogram[t], u_latency_histogram[t])

\* The corrected latencies of a thread are the greater ones.
LEMMA DominanceStep ==
    ASSUME Base, LatencyInv, DominanceInv, [Next]_vars
    PROVE  DominanceInv'
<1>0. /\ latency_histogram \in [Thread -> Histogram] /\ u_latency_histogram \in [Thread -> Histogram]
      /\ Latencies \subseteq Int
  BY StatisticsAssumption DEF LatencyInv, Filled
<1>1. CASE UNCHANGED <<latency_histogram, u_latency_histogram>>
  BY <1>1 DEF DominanceInv
<1>2. ASSUME NEW t \in Thread, NEW timing \in Latencies, NEW actual \in Latencies,
             actual <= timing, RecordBoth(t, timing, actual)
      PROVE  DominanceInv'
  <2>1. CASE AssertionsHold(timing) /\ AssertionsHold(actual)
    <3> DEFINE l == hdr_record_value(latency_histogram[t], timing)
               u == hdr_record_value(u_latency_histogram[t], actual)
    <3>1. latency_histogram' = [latency_histogram EXCEPT ![t] = l]
          /\ u_latency_histogram' = [u_latency_histogram EXCEPT ![t] = u]
      BY <1>2, <2>1 DEF RecordBoth
    <3>2. Dominates(l, u)
      BY <1>0, <1>2, <2>1, RecordDominates DEF DominanceInv
    <3> HIDE DEF l, u
    <3>3. ASSUME NEW s \in Thread
          PROVE  Dominates(latency_histogram'[s], u_latency_histogram'[s])
      <4>1. CASE s = t
        BY <1>0, <3>1, <3>2, <4>1
      <4>2. CASE s # t
        BY <1>0, <3>1, <4>2 DEF DominanceInv
      <4> QED
        BY <4>1, <4>2
    <3> QED
      BY <3>3 DEF DominanceInv
  <2>2. CASE ~(AssertionsHold(timing) /\ AssertionsHold(actual))
    BY <1>1, <1>2, <2>2 DEF RecordBoth
  <2> QED
    BY <2>1, <2>2
<1>3. ASSUME NEW t \in Thread, calibrate(t) PROVE DominanceInv'
  <2>1. latency_histogram' = [latency_histogram EXCEPT ![t] = hdr_init]
        /\ u_latency_histogram' = [u_latency_histogram EXCEPT ![t] = hdr_init]
    BY <1>3 DEF calibrate, Restarted, hdr_reset
  <2>2. ASSUME NEW s \in Thread
        PROVE  Dominates(latency_histogram'[s], u_latency_histogram'[s])
    <3>1. CASE s = t
      BY <1>0, <2>1, <3>1, NoneDominates
    <3>2. CASE s # t
      BY <1>0, <2>1, <3>2 DEF DominanceInv
    <3> QED
      BY <3>1, <3>2
  <2> QED
    BY <2>2 DEF DominanceInv
<1>4. ASSUME NEW t \in Thread, response_complete(t) PROVE DominanceInv'
  BY <1>1, <1>2, <1>4 DEF response_complete
<1>5. CASE Interrupt \/ Deadline \/ Join \/ Sum \/ UNCHANGED vars
  BY <1>1, <1>5 DEF Interrupt, Deadline, Join, Sum, vars, ofThread
<1>6. ASSUME NEW t \in Thread, \/ LateResponse(t) \/ check_timeouts(t) \/ aeMain(t)
                               \/ sample_rate(t) \/ Lock(t) \/ Load(t) \/ Store(t)
      PROVE  DominanceInv'
  BY <1>1, <1>6 DEF LateResponse, check_timeouts, aeMain, sample_rate, Lock, Load, Store, ofThread
<1> QED
  BY <1>3, <1>4, <1>5, <1>6, Steps

\* A sum of what is smaller.
LEMMA SumBelow ==
    ASSUME NEW S, IsFiniteSet(S), NEW f, NEW e,
           \A x \in S : f[x] \in Nat /\ e[x] \in Nat /\ f[x] <= e[x]
    PROVE  SumFunctionOnSet(f, S) <= SumFunctionOnSet(e, S)
<1> DEFINE d == [x \in S |-> e[x] - f[x]]
<1>1. \A x \in S : d[x] \in Nat /\ f[x] \in Nat /\ e[x] = f[x] + d[x]
  OBVIOUS
<1> HIDE DEF d
<1>2. SumFunctionOnSet(e, S) = SumFunctionOnSet(f, S) + SumFunctionOnSet(d, S)
  BY <1>1, SumPlus
<1>3. SumFunctionOnSet(f, S) \in Nat /\ SumFunctionOnSet(d, S) \in Nat
  BY <1>1, SumStep
<1> QED
  BY <1>2, <1>3

\* What was gathered from the threads has passed what each of them has passed.
LEMMA GatheredBelow ==
    ASSUME NEW sum, NEW hist \in [Thread -> Histogram], Gathered(sum, hist, Thread),
           NEW n \in 0..counts_len
    PROVE  Below(sum, n) = SumFunctionOnSet([t \in Thread |-> Below(hist[t], n)], Thread)
<1> DEFINE S == 0..n - 1
           F == [i \in S |-> [t \in Thread |-> hist[t].counts[i]]]
           rows == [i \in S |-> SumFunctionOnSet(F[i], Thread)]
           columns == [t \in Thread |-> SumFunctionOnSet([i \in S |-> F[i][t]], S)]
           below == [t \in Thread |-> Below(hist[t], n)]
<1>1. IsFiniteSet(S) /\ S \subseteq Indices /\ IsFiniteSet(Thread) /\ sum \in Histogram
  <2>1. sum \in Histogram
    BY DEF Gathered
  <2> QED
    BY <2>1, BelowFacts, ThreadFacts
<1>2. \A t \in Thread : hist[t].counts \in [Indices -> Nat]
  BY DEF Histogram, Indices
<1> HIDE DEF S
<1>3. F \in [S -> [Thread -> Nat]]
  BY <1>1, <1>2
<1>4. SumFunctionOnSet(rows, S) = SumFunctionOnSet(columns, Thread)
  <2> HIDE DEF F
  <2> QED
    BY <1>1, <1>3, SumExchange
<1>5. \A i \in S : sum.counts[i] \in Nat /\ sum.counts[i] = rows[i]
  <2>1. \A i \in S : sum.counts[i] = rows[i]
    BY <1>1 DEF Gathered
  <2>2. sum.counts \in [Indices -> Nat]
    BY <1>1 DEF Histogram, Indices
  <2> QED
    BY <1>1, <2>1, <2>2
<1>6. \A t \in Thread : below[t] \in Nat /\ below[t] = columns[t]
  <2> SUFFICES ASSUME NEW t \in Thread PROVE below[t] \in Nat /\ below[t] = columns[t]
    OBVIOUS
  <2> DEFINE f == [i \in S |-> F[i][t]]
  <2>1. \A i \in S : hist[t].counts[i] \in Nat /\ hist[t].counts[i] = f[i]
    BY <1>1, <1>2
  <2>2. columns[t] = SumFunctionOnSet(f, S)
    OBVIOUS
  <2>3. below[t] = SumFunctionOnSet(hist[t].counts, S)
    BY DEF Below, S
  <2> HIDE DEF f, columns, below, F
  <2>4. SumFunctionOnSet(hist[t].counts, S) = SumFunctionOnSet(f, S)
    BY <1>1, <2>1, SumSame
  <2>5. SumFunctionOnSet(hist[t].counts, S) \in Nat
    BY <1>1, <2>1, SumStep
  <2> QED
    BY <2>2, <2>3, <2>4, <2>5
<1> HIDE DEF rows, columns, below, F
<1>7. SumFunctionOnSet(sum.counts, S) = SumFunctionOnSet(rows, S)
  BY <1>1, <1>5, SumSame
<1>8. SumFunctionOnSet(below, Thread) = SumFunctionOnSet(columns, Thread)
  BY <1>1, <1>6, SumSame
<1> QED
  BY <1>4, <1>7, <1>8 DEF Below, S, below

\* The corrected latencies of the report are the greater ones.
LEMMA GatheredDominates ==
    ASSUME NEW l, NEW u, NEW lower, NEW upper,
           Gathered(l, upper, Thread), Gathered(u, lower, Thread),
           upper \in [Thread -> Histogram], lower \in [Thread -> Histogram],
           \A t \in Thread : Consistent(upper[t]) /\ Consistent(lower[t]) /\ Dominates(upper[t], lower[t])
    PROVE  Dominates(l, u)
<1>1. counts_len \in Nat /\ counts_len \in 0..counts_len /\ IsFiniteSet(Thread)
  BY IndexFacts, ThreadFacts
<1>2. ASSUME NEW n \in 0..counts_len PROVE Below(l, n) <= Below(u, n)
  <2> DEFINE f == [t \in Thread |-> Below(upper[t], n)]
             e == [t \in Thread |-> Below(lower[t], n)]
  <2>1. \A t \in Thread : f[t] \in Nat /\ e[t] \in Nat /\ f[t] <= e[t]
    BY BelowFacts DEF Dominates
  <2>2. Below(l, n) = SumFunctionOnSet(f, Thread) /\ Below(u, n) = SumFunctionOnSet(e, Thread)
    BY GatheredBelow
  <2> HIDE DEF f, e
  <2> QED
    BY <1>1, <2>1, <2>2, SumBelow
<1>3. l.total_count = u.total_count
  <2> DEFINE f == [t \in Thread |-> Below(upper[t], counts_len)]
             e == [t \in Thread |-> Below(lower[t], counts_len)]
  <2>1. \A t \in Thread : f[t] \in Nat /\ f[t] = e[t]
    <3> SUFFICES ASSUME NEW t \in Thread PROVE f[t] \in Nat /\ f[t] = e[t]
      OBVIOUS
    <3>1. /\ Below(upper[t], counts_len) = upper[t].total_count
          /\ Below(lower[t], counts_len) = lower[t].total_count
          /\ Below(upper[t], counts_len) \in Nat
      BY <1>1, BelowFacts
    <3>2. upper[t].total_count = lower[t].total_count
      BY DEF Dominates
    <3> QED
      BY <3>1, <3>2
  <2>2. Below(l, counts_len) = SumFunctionOnSet(f, Thread)
        /\ Below(u, counts_len) = SumFunctionOnSet(e, Thread)
    BY <1>1, GatheredBelow
  <2> HIDE DEF f, e
  <2>3. SumFunctionOnSet(f, Thread) = SumFunctionOnSet(e, Thread)
    BY <1>1, <2>1, SumSame
  <2>4. Below(l, counts_len) = l.total_count /\ Below(u, counts_len) = u.total_count
    BY <1>1, BelowFacts DEF Gathered
  <2> QED
    BY <2>2, <2>3, <2>4
<1> QED
  BY <1>2, <1>3 DEF Dominates

\* The rank of a percentile is that of a value there is.
LEMMA RankIs ==
    ASSUME NEW total \in Nat, total > 0, NEW p \in Percentiles
    PROVE  LET rank == (2 * p * total + 100) \div 200
           IN  /\ CountAtPercentile(p, total) \in 1..total
               /\ CountAtPercentile(p, total) = IF 1 >= rank THEN 1 ELSE rank
<1> DEFINE rank == (2 * p * total + 100) \div 200
<1>1. p \in Nat /\ p <= 100
  BY DEF Percentiles
<1>2. Min({p, 100}) = p
  BY <1>1, MinOfTwo
<1>3. rank \in Nat /\ rank <= total
  <2>1. 2 * p * total \in Nat /\ 2 * p * total <= 200 * total
    BY DEF Percentiles
  <2> QED
    BY <2>1
<1>4. CountAtPercentile(p, total) = Max({1, rank})
  BY <1>2 DEF CountAtPercentile
<1> HIDE DEF rank
<1>5. Max({1, rank}) = IF 1 >= rank THEN 1 ELSE rank
  BY <1>3, MinOfTwo
<1>6. CountAtPercentile(p, total) \in 1..total
  BY <1>3, <1>4, <1>5
<1> QED
  BY <1>4, <1>5, <1>6 DEF rank

\* Where the loop of hdr_value_at_percentile stops: at the first place by
\* which as many values are passed as the rank says.
LEMMA ReachedAt ==
    ASSUME NEW h \in Histogram, Consistent(h), NEW rank \in 1..h.total_count
    PROVE  LET reached == {n \in Visited(h) : CountTo(h, n) >= rank}
               m == Min(reached)
           IN  /\ reached # {} /\ m \in 1..counts_len
               /\ Below(h, m) >= rank /\ \A n \in 0..m - 1 : Below(h, n) < rank
<1> DEFINE reached == {n \in Visited(h) : CountTo(h, n) >= rank}
           total == h.total_count
           Enough == {n \in 1..counts_len : Below(h, n) >= rank}
<1>1. /\ counts_len \in Nat /\ counts_len > 0 /\ total \in Nat /\ rank \in Nat
      /\ 1 <= rank /\ rank <= total /\ Below(h, counts_len) = total
  <2>1. counts_len \in Nat /\ counts_len > 0 /\ counts_len \in 0..counts_len
    BY Buckets
  <2>2. total \in Nat
    BY DEF Histogram
  <2>3. Below(h, counts_len) = total
    BY <2>1, BelowFacts
  <2> QED
    BY <2>1, <2>2, <2>3
<1>2. \A n \in 0..counts_len : Below(h, n) \in Nat /\ CountTo(h, n) = Below(h, n)
  BY BelowFacts, CountsPassed DEF Below
<1>3. Below(h, 0) = 0
  <2>1. 0..0 - 1 = {}
    OBVIOUS
  <2> QED
    BY <2>1, SumOfNone DEF Below
<1>4. PICK m \in Enough : \A n \in Enough : m <= n
  <2>1. Enough \subseteq Nat /\ counts_len \in Enough
    BY <1>1
  <2> HIDE DEF Enough
  <2> QED
    BY <2>1, NatMin
<1>5. m \in 1..counts_len /\ Below(h, m) >= rank
  BY <1>4
<1>6. \A n \in 0..m - 1 : Below(h, n) < rank
  <2> SUFFICES ASSUME NEW n \in 0..m - 1 PROVE Below(h, n) < rank
    OBVIOUS
  <2>1. CASE n = 0
    BY <1>1, <1>3, <2>1
  <2>2. CASE n # 0
    <3>1. n \in 1..counts_len /\ n < m /\ n \in 0..counts_len
      BY <1>1, <1>5, <2>2
    <3>2. n \notin Enough
      BY <1>4, <3>1
    <3>3. ~(Below(h, n) >= rank)
      BY <3>1, <3>2
    <3> QED
      BY <1>1, <1>2, <3>1, <3>3
  <2> QED
    BY <2>1, <2>2
<1>7. \A n \in reached : n \in 1..counts_len /\ CountTo(h, n) >= rank
  BY DEF Visited
<1>8. reached \subseteq Enough
  BY <1>1, <1>2, <1>7
<1>9. m \in reached
  <2>1. m - 1 \in 0..m - 1 /\ m - 1 \in 0..counts_len /\ m \in 0..counts_len
    BY <1>1, <1>5
  <2>2. Below(h, m - 1) < rank /\ Below(h, m - 1) \in Nat
    BY <1>2, <1>6, <2>1
  <2>3. CountTo(h, m - 1) < total
    BY <1>1, <1>2, <2>1, <2>2
  <2>4. CountTo(h, m) >= rank
    BY <1>2, <1>5, <2>1
  <2> QED
    BY <1>5, <2>3, <2>4 DEF Visited
<1> HIDE DEF reached, Enough
<1>10. Min(reached) = m
  <2>1. \A n \in reached : m <= n
    BY <1>4, <1>8
  <2>2. reached \subseteq Int
    BY <1>7
  <2> QED
    BY <1>9, <2>1, <2>2, MinIs
<1> QED
  BY <1>5, <1>6, <1>9, <1>10 DEF reached

\* Where a place ends.
LEMMA HighestEnd ==
    ASSUME NEW n \in 1..counts_len
    PROVE  LET p == Slot(n - 1)
           IN  /\ highest_equivalent_value(place[n].value) = (p.sub + 1) * Unit(p.bucket) - 1
               /\ Unit(p.bucket) \in Nat /\ Unit(p.bucket) > 0 /\ (p.sub + 1) * Unit(p.bucket) \in Nat
               /\ p.sub * Unit(p.bucket) \in Nat
               /\ (p.sub + 1) * Unit(p.bucket) = p.sub * Unit(p.bucket) + Unit(p.bucket)
<1> DEFINE p == Slot(n - 1)
           v == place[n].value
           b == p.bucket
           s == p.sub
<1>1. /\ Numbered(p, n - 1) /\ v = s * Unit(b) /\ v \in Nat
  BY PlaceFacts
<1> HIDE DEF v, p
<1>2. IsPlace(b, s) /\ b \in Nat /\ s \in Nat /\ s < sub_bucket_count
      /\ sub_bucket_count \in Nat /\ unit_magnitude \in Nat
  BY <1>1, Magnitudes DEF Numbered, IsPlace
<1>3. Unit(b) \in Nat /\ Unit(b) > 0
  BY <1>2, BucketUnits
<1> HIDE DEF b, s
<1>4. s * Unit(b) < (s + 1) * Unit(b) /\ (s + 1) * Unit(b) = s * Unit(b) + Unit(b)
  BY <1>2, <1>3
<1>5. get_bucket_index(v) = b /\ get_sub_bucket_index(v) = s
  <2>1. Within(v, b, s)
    BY <1>1, <1>4 DEF Within
  <2> QED
    BY <1>1, <1>2, <2>1, FoundAgain
<1>6. lowest_equivalent_value(v) = s * Unit(b)
  BY <1>5 DEF lowest_equivalent_value, value_from_index, Unit
<1>7. size_of_equivalent_value_range(v) = Unit(b)
  <2>1. ~(s >= sub_bucket_count)
    BY <1>2
  <2>2. size_of_equivalent_value_range(v) = TwoTo[unit_magnitude + b]
    BY <1>5, <2>1 DEF size_of_equivalent_value_range
  <2>3. unit_magnitude + b = b + unit_magnitude
    BY <1>2
  <2> QED
    BY <2>2, <2>3 DEF Unit
<1>8. highest_equivalent_value(v) = s * Unit(b) + Unit(b) - 1
  BY <1>6, <1>7 DEF highest_equivalent_value
<1> DEFINE first == s * Unit(b)
           size == Unit(b)
           end == (s + 1) * Unit(b)
<1>9. first \in Nat /\ size \in Nat /\ size > 0 /\ highest_equivalent_value(v) = first + size - 1
      /\ end = first + size
  BY <1>1, <1>3, <1>4, <1>8
<1> HIDE DEF first, size, end
<1>10. highest_equivalent_value(v) = end - 1 /\ end \in Nat
  BY <1>9
<1> QED
  BY <1>9, <1>10 DEF p, v, first, size, end, b, s

\* The greatest value of a place.
LEMMA HighestOf ==
    ASSUME NEW n \in 1..counts_len
    PROVE  LET highest == highest_equivalent_value(place[n].value)
           IN  /\ highest \in Nat /\ place[n].value <= highest
               /\ n < counts_len => highest = place[n + 1].value - 1
<1> DEFINE p == Slot(n - 1)
           first == p.sub * Unit(p.bucket)
           end == (p.sub + 1) * Unit(p.bucket)
           size == Unit(p.bucket)
<1>1. place[n].value = first /\ (n < counts_len => place[n + 1].value = end)
  BY PlaceFacts
<1>2. highest_equivalent_value(place[n].value) = end - 1 /\ end = first + size
      /\ first \in Nat /\ end \in Nat /\ size \in Nat /\ size > 0
  BY HighestEnd
<1> HIDE DEF first, end, size
<1> QED
  BY <1>1, <1>2

\* A later place has greater values.
LEMMA HighestGrows ==
    ASSUME NEW m \in 1..counts_len, NEW n \in 1..counts_len, m <= n
    PROVE  highest_equivalent_value(place[m].value) <= highest_equivalent_value(place[n].value)
<1>1. /\ highest_equivalent_value(place[m].value) \in Nat
      /\ highest_equivalent_value(place[n].value) \in Nat
      /\ place[n].value <= highest_equivalent_value(place[n].value)
  BY HighestOf
<1>2. CASE m = n
  BY <1>1, <1>2
<1>3. CASE m # n
  <2>1. m < counts_len /\ m + 1 \in 1..counts_len /\ m + 1 <= n
    BY <1>3, Buckets
  <2>2. highest_equivalent_value(place[m].value) = place[m + 1].value - 1
    BY <2>1, HighestOf
  <2>3. place[m + 1].value <= place[n].value
    BY <2>1, PlacesGrow
  <2>4. place[m + 1].value \in Nat /\ place[n].value \in Nat
    BY <2>1, PlaceFacts
  <2> QED
    BY <1>1, <2>2, <2>3, <2>4
<1> QED
  BY <1>2, <1>3

\* Of greater values every percentile is greater.
LEMMA PercentilesDominate ==
    ASSUME NEW l \in Histogram, NEW u \in Histogram, Consistent(l), Consistent(u),
           Dominates(l, u), NEW p \in Percentiles
    PROVE  hdr_value_at_percentile(u, p) <= hdr_value_at_percentile(l, p)
<1> DEFINE total == l.total_count
           rank == CountAtPercentile(p, total)
           Reached(h) == {n \in Visited(h) : CountTo(h, n) >= rank}
<1>1. total \in Nat /\ u.total_count = total /\ counts_len \in Nat
  BY IndexFacts DEF Dominates, Histogram
<1>2. \A n \in 0..counts_len : /\ Below(l, n) \in Nat /\ Below(u, n) \in Nat
                               /\ Below(l, n) <= Below(u, n)
  BY BelowFacts DEF Dominates
<1>3. ASSUME NEW h \in {l, u}
      PROVE  hdr_value_at_percentile(h, p)
               = IF Reached(h) = {} THEN 0 ELSE highest_equivalent_value(place[Min(Reached(h))].value)
  <2>1. h.total_count = total
    BY <1>1
  <2> QED
    BY <2>1 DEF hdr_value_at_percentile
<1>4. CASE total = 0
  <2>1. ASSUME NEW h \in {l, u} PROVE Reached(h) = {}
    <3> SUFFICES ASSUME NEW n \in Reached(h) PROVE FALSE
      OBVIOUS
    <3>1. n \in 1..counts_len /\ CountTo(h, n - 1) < 0
      BY <1>1, <1>4 DEF Visited
    <3>2. n - 1 \in 0..counts_len
      BY <1>1, <3>1
    <3>3. CountTo(h, n - 1) = Below(h, n - 1) /\ Below(h, n - 1) \in Nat
      BY <1>2, <3>2, CountsPassed DEF Below
    <3> QED
      BY <3>1, <3>3
  <2>2. hdr_value_at_percentile(u, p) = 0 /\ hdr_value_at_percentile(l, p) = 0
    BY <1>3, <2>1
  <2> QED
    BY <2>2
<1>5. CASE total > 0
  <2>1. rank \in 1..total
    BY <1>1, <1>5, RankIs
  <2> DEFINE m == Min(Reached(u))
             n == Min(Reached(l))
  <2>2. /\ Reached(u) # {} /\ m \in 1..counts_len
        /\ \A k \in 0..m - 1 : Below(u, k) < rank
    BY <1>1, <2>1, ReachedAt
  <2>3. Reached(l) # {} /\ n \in 1..counts_len /\ Below(l, n) >= rank
    BY <2>1, ReachedAt
  <2>4. /\ hdr_value_at_percentile(u, p) = highest_equivalent_value(place[m].value)
        /\ hdr_value_at_percentile(l, p) = highest_equivalent_value(place[n].value)
    BY <1>3, <2>2, <2>3
  <2> HIDE DEF m, n, rank, Reached
  <2>5. m <= n
    <3> SUFFICES ASSUME n < m PROVE FALSE
      BY <1>1, <2>2, <2>3
    <3>1. n \in 0..m - 1 /\ n \in 0..counts_len /\ rank \in Nat
      BY <1>1, <2>1, <2>2, <2>3
    <3>2. Below(u, n) < rank /\ Below(l, n) >= rank /\ Below(l, n) <= Below(u, n)
      BY <1>2, <2>2, <2>3, <3>1
    <3>3. Below(u, n) \in Nat /\ Below(l, n) \in Nat
      BY <1>2, <3>1
    <3> QED
      BY <3>1, <3>2, <3>3
  <2> QED
    BY <2>2, <2>3, <2>4, <2>5, HighestGrows
<1> QED
  BY <1>1, <1>4, <1>5

-----------------------------------------------------------------------------
(* What main reads from a histogram.                                        *)

\* A finite set of numbers has a greatest one.
LEMMA Greatest ==
    ASSUME NEW S, IsFiniteSet(S), S \subseteq Int, S # {}
    PROVE  Max(S) \in S /\ \A y \in S : Max(S) >= y
<1> DEFINE Has(s) == \E x \in s : \A y \in s : x >= y
           Bad == {s \in SUBSET S : s # {} /\ ~Has(s)}
<1>1. Bad = {}
  <2>1. SUFFICES ASSUME Bad # {} PROVE FALSE
    OBVIOUS
  <2>2. PICK s \in Bad : \A x \in s : s \ {x} \notin Bad
    <3>1. Bad \subseteq SUBSET S
      OBVIOUS
    <3> HIDE DEF Bad
    <3> QED
      BY <2>1, <3>1, LeastSet
  <2>3. s \subseteq Int /\ s \in SUBSET S /\ s # {} /\ ~Has(s)
    BY <2>2
  <2>4. PICK x \in s : TRUE
    BY <2>3
  <2>5. CASE s \ {x} = {}
    BY <2>3, <2>4, <2>5
  <2>6. CASE s \ {x} # {}
    <3>1. Has(s \ {x})
      BY <2>2, <2>3, <2>4, <2>6
    <3>2. PICK y \in s \ {x} : \A z \in s \ {x} : y >= z
      BY <3>1
    <3>3. x \in Int /\ y \in Int
      BY <2>3, <2>4, <3>2
    <3>4. CASE x >= y
      <4>1. \A z \in s : x >= z
        BY <2>3, <2>4, <3>2, <3>3, <3>4
      <4> QED
        BY <2>3, <2>4, <4>1
    <3>5. CASE y >= x
      <4>1. \A z \in s : y >= z
        BY <2>3, <2>4, <3>2, <3>3, <3>5
      <4> QED
        BY <2>3, <3>2, <4>1
    <3> QED
      BY <3>3, <3>4, <3>5
  <2> QED
    BY <2>5, <2>6
<1>2. Has(S)
  BY <1>1
<1> QED
  BY <1>2 DEF Max

\* Two parts of a sum.
LEMMA SumParts ==
    ASSUME NEW S, IsFiniteSet(S), NEW f, \A x \in S : f[x] \in Nat, NEW T, T \subseteq S
    PROVE  SumFunctionOnSet(f, S) = SumFunctionOnSet(f, T) + SumFunctionOnSet(f, S \ T)
<1> DEFINE e == [x \in S |-> IF x \in T THEN f[x] ELSE 0]
           d == [x \in S |-> IF x \in T THEN 0 ELSE f[x]]
<1>1. /\ \A x \in S : e[x] \in Nat /\ d[x] \in Nat /\ f[x] = e[x] + d[x]
      /\ \A x \in T : e[x] \in Nat /\ e[x] = f[x]
      /\ \A x \in S \ T : e[x] = 0 /\ d[x] \in Nat /\ d[x] = f[x]
      /\ \A x \in S \ (S \ T) : d[x] = 0
  OBVIOUS
<1>2. IsFiniteSet(T) /\ IsFiniteSet(S \ T) /\ S \ T \subseteq S
  BY FS_Subset
<1> HIDE DEF e, d
<1>3. SumFunctionOnSet(f, S) = SumFunctionOnSet(e, S) + SumFunctionOnSet(d, S)
  BY <1>1, SumPlus
<1>4. SumFunctionOnSet(e, S) = SumFunctionOnSet(e, T)
  BY <1>1, SumZeros
<1>5. SumFunctionOnSet(e, T) = SumFunctionOnSet(f, T)
  BY <1>1, <1>2, SumSame
<1>6. SumFunctionOnSet(d, S) = SumFunctionOnSet(d, S \ T)
  BY <1>1, <1>2, SumZeros
<1>7. SumFunctionOnSet(d, S \ T) = SumFunctionOnSet(f, S \ T)
  BY <1>1, <1>2, SumSame
<1> QED
  BY <1>3, <1>4, <1>5, <1>6, <1>7

\* A sum over places is one over indices.
LEMMA SumShifted ==
    ASSUME NEW h \in Histogram, NEW S, S \subseteq 1..counts_len
    PROVE  SumFunctionOnSet([n \in 1..counts_len |-> CountAt(h, n)], S)
             = SumFunctionOnSet(h.counts, {n - 1 : n \in S})
<1> DEFINE c == h.counts
           f == [n \in 1..counts_len |-> CountAt(h, n)]
           Of(s) == {n - 1 : n \in s}
           OverF(s) == SumFunctionOnSet(f, s)
           OverC(s) == SumFunctionOnSet(c, Of(s))
           Bad == {s \in SUBSET S : OverF(s) # OverC(s)}
<1>1. /\ counts_len \in Nat /\ c \in [Indices -> Nat] /\ IsFiniteSet(Indices)
      /\ Indices = 0..counts_len - 1 /\ IsFiniteSet(1..counts_len)
  <2>1. IsFiniteSet(Indices) /\ counts_len \in Nat /\ Indices = 0..counts_len - 1
    BY IndexFacts DEF Indices
  <2>2. c \in [Indices -> Nat]
    BY <2>1 DEF Histogram
  <2>3. IsFiniteSet(1..counts_len)
    BY <2>1, FS_Interval
  <2> QED
    BY <2>1, <2>2, <2>3
<1>2. \A n \in 1..counts_len : f[n] = c[n - 1] /\ n - 1 \in Indices /\ f[n] \in Nat
  <2>1. \A n \in 1..counts_len : CountAt(h, n) = c[n - 1]
    BY PlaceFacts DEF CountAt
  <2> QED
    BY <1>1, <2>1
<1> HIDE DEF f, c
<1>3. ASSUME NEW s \in SUBSET S, NEW n \in s
      PROVE  /\ OverF(s) = f[n] + OverF(s \ {n})
             /\ OverC(s) = c[n - 1] + OverC(s \ {n})
  <2>1. IsFiniteSet(s) /\ \A k \in s : f[k] \in Nat
    BY <1>1, <1>2, FS_Subset
  <2>2. Of(s) \subseteq Indices /\ n - 1 \in Of(s)
    BY <1>2
  <2>3. IsFiniteSet(Of(s)) /\ \A i \in Of(s) : c[i] \in Nat
    BY <1>1, <2>2, FS_Subset
  <2>4. Of(s \ {n}) = Of(s) \ {n - 1}
    <3>1. \A k \in s : k \in Int /\ (k - 1 = n - 1 => k = n)
      BY <1>1
    <3> QED
      BY <3>1
  <2>5. OverF(s) = f[n] + OverF(s \ {n})
    BY <2>1, SumRemove
  <2> DEFINE o == Of(s)
  <2> HIDE DEF o
  <2>6. SumFunctionOnSet(c, o) = c[n - 1] + SumFunctionOnSet(c, o \ {n - 1})
    BY <2>2, <2>3, SumRemove DEF o
  <2> QED
    BY <2>4, <2>5, <2>6 DEF o
<1>4. OverF({}) = 0 /\ OverC({}) = 0
  <2>1. Of({}) = {}
    OBVIOUS
  <2> QED
    BY <2>1, SumOfNone
<1> HIDE DEF OverF, OverC
<1>5. Bad = {}
  <2>1. SUFFICES ASSUME Bad # {} PROVE FALSE
    OBVIOUS
  <2>2. PICK s \in Bad : \A n \in s : s \ {n} \notin Bad
    <3>1. Bad \subseteq SUBSET S /\ IsFiniteSet(S)
      BY <1>1, FS_Subset
    <3> HIDE DEF Bad
    <3> QED
      BY <2>1, <3>1, LeastSet
  <2>3. s # {}
    BY <1>4, <2>2
  <2>4. PICK n \in s : TRUE
    BY <2>3
  <2>5. OverF(s \ {n}) = OverC(s \ {n})
    BY <2>2
  <2> QED
    BY <1>2, <1>3, <2>2, <2>4, <2>5
<1>6. OverF(S) = OverC(S)
  BY <1>5
<1> QED
  BY <1>6 DEF OverF, OverC, f, c

\* The places that hdr_iter has passed are counted in their order.
LEMMA BelowGrows ==
    ASSUME NEW h \in Histogram, NEW m \in 0..counts_len, NEW n \in 0..counts_len, m <= n
    PROVE  /\ Below(h, m) <= Below(h, n)
           /\ Below(h, n) = Below(h, m) + SumFunctionOnSet(h.counts, m..n - 1)
<1> DEFINE S == 0..n - 1
           T == 0..m - 1
<1>1. IsFiniteSet(S) /\ \A i \in S : h.counts[i] \in Nat
  BY BelowFacts
<1>2. T \subseteq S /\ S \ T = m..n - 1 /\ counts_len \in Nat
  BY IndexFacts
<1> HIDE DEF S, T
<1>3. SumFunctionOnSet(h.counts, S) = SumFunctionOnSet(h.counts, T) + SumFunctionOnSet(h.counts, S \ T)
  BY <1>1, <1>2, SumParts
<1>4. IsFiniteSet(S \ T) /\ \A i \in S \ T : h.counts[i] \in Nat
  BY <1>1, FS_Subset
<1>5. SumFunctionOnSet(h.counts, S \ T) \in Nat
  BY <1>4, SumStep
<1>6. Below(h, m) \in Nat /\ Below(h, n) \in Nat
  BY BelowFacts
<1>7. Below(h, n) = SumFunctionOnSet(h.counts, S) /\ Below(h, m) = SumFunctionOnSet(h.counts, T)
  BY DEF Below, S, T
<1>8. Below(h, n) = Below(h, m) + SumFunctionOnSet(h.counts, S \ T)
  BY <1>3, <1>7
<1>9. Below(h, m) <= Below(h, n)
  BY <1>5, <1>6, <1>8
<1> QED
  BY <1>2, <1>8, <1>9

\* CountTo by that name, and how far it goes.
LEMMA Passed ==
    ASSUME NEW h \in Histogram, Consistent(h), NEW n \in 0..counts_len
    PROVE  /\ CountTo(h, n) = Below(h, n) /\ Below(h, n) \in Nat /\ Below(h, n) <= h.total_count
<1>1. counts_len \in Nat /\ counts_len \in 0..counts_len /\ n <= counts_len
  BY IndexFacts
<1>2. Below(h, n) <= Below(h, counts_len) /\ Below(h, counts_len) = h.total_count
  BY <1>1, BelowGrows, BelowFacts
<1> QED
  BY <1>2, BelowFacts, CountsPassed DEF Below

\* Values that lie within a place: where the place begins, and where it ends.
LEMMA PlaceOfValue ==
    ASSUME NEW n \in 1..counts_len, NEW v \in Nat, place[n].value <= v, v <= place[n].highest
    PROVE  lowest_equivalent_value(v) = place[n].value
<1> DEFINE p == Slot(n - 1)
           b == p.bucket
           s == p.sub
<1>1. Numbered(p, n - 1) /\ place[n].value = s * Unit(b) /\ place[n] = Stop(n)
  BY PlaceFacts
<1>2. place[n].highest = highest_equivalent_value(place[n].value)
  BY <1>1 DEF Stop
<1>3. highest_equivalent_value(place[n].value) = (s + 1) * Unit(b) - 1 /\ IsPlace(b, s)
      /\ (s + 1) * Unit(b) \in Nat
  BY HighestEnd, <1>1 DEF Numbered
<1> HIDE DEF p
<1>4. Within(v, b, s)
  BY <1>1, <1>2, <1>3 DEF Within
<1>5. get_bucket_index(v) = b /\ get_sub_bucket_index(v) = s
  BY <1>3, <1>4, FoundAgain
<1> QED
  BY <1>1, <1>5 DEF lowest_equivalent_value, value_from_index, Unit

\* The share of stats_within_stdev is one, and counts what lies inside.
LEMMA WithinIs ==
    ASSUME NEW h \in Histogram, Consistent(h), NEW lower \in Nat, NEW upper \in Nat
    PROVE  LET inside == {n \in 1..counts_len : lower <= place[n].value /\ place[n].highest <= upper}
           IN  /\ stats_within(h, lower, upper) <= h.total_count
               /\ SumFunctionOnSet([n \in 1..counts_len |-> CountAt(h, n)], inside)
                    <= stats_within(h, lower, upper)
<1> DEFINE inside == {n \in 1..counts_len : lower <= place[n].value /\ place[n].highest <= upper}
           past == {n \in Visited(h) : upper < place[n].highest}
           last == IF past = {} THEN counts_len ELSE Min(past)
           below == {n \in Visited(h) \cap 1..last : place[n].value < lower}
           bottom == IF below = {} THEN 0 ELSE Max(below)
           lower_count == IF below = {} THEN 0 ELSE CountTo(h, Max(below))
           upper_count == IF past = {} THEN h.total_count ELSE CountTo(h, last)
<1>1. stats_within(h, lower, upper) = upper_count - lower_count
  BY DEF stats_within
<1>2. counts_len \in Nat /\ counts_len > 0 /\ counts_len \in 0..counts_len
      /\ Visited(h) \subseteq 1..counts_len
  BY Buckets DEF Visited
<1>3. \A n \in 1..counts_len : place[n].value \in Nat /\ place[n].highest \in Nat
                               /\ place[n].highest = highest_equivalent_value(place[n].value)
  <2> SUFFICES ASSUME NEW n \in 1..counts_len
               PROVE  place[n].value \in Nat /\ place[n].highest \in Nat
                      /\ place[n].highest = highest_equivalent_value(place[n].value)
    OBVIOUS
  <2>1. place[n] = Stop(n) /\ place[n].value \in Nat
    BY PlaceFacts
  <2>2. place[n].highest = highest_equivalent_value(place[n].value)
    BY <2>1 DEF Stop
  <2> QED
    BY <2>1, <2>2, HighestOf
<1>4. last \in 1..counts_len /\ (past # {} => last \in past)
  <2>1. CASE past = {}
    BY <1>2, <2>1
  <2>2. CASE past # {}
    <3>1. past \subseteq Nat /\ past \subseteq 1..counts_len
      BY <1>2
    <3> HIDE DEF past
    <3>2. \E x \in past : \A y \in past : x <= y
      BY <2>2, <3>1, NatMin
    <3>3. Min(past) \in past
      BY <3>2 DEF Min
    <3> QED
      BY <2>2, <3>1, <3>3
  <2> QED
    BY <2>1, <2>2
<1>5. upper_count = Below(h, last)
  <2>1. CASE past = {}
    BY <1>2, <2>1, BelowFacts
  <2>2. CASE past # {}
    <3>1. last \in 0..counts_len
      BY <1>2, <1>4
    <3> HIDE DEF last
    <3> QED
      BY <2>2, <3>1, Passed
  <2> QED
    BY <2>1, <2>2
<1>6. bottom \in 0..last /\ lower_count = Below(h, bottom) /\ (below # {} => bottom \in below)
  <2>1. CASE below = {}
    <3>1. 0..0 - 1 = {}
      OBVIOUS
    <3> HIDE DEF last, below
    <3> QED
      BY <1>4, <2>1, <3>1, SumOfNone DEF Below
  <2>2. CASE below # {}
    <3>1. below \subseteq 1..last /\ below \subseteq 1..counts_len /\ below \subseteq 0..counts_len
      BY <1>2, <1>4
    <3>2. IsFiniteSet(below) /\ below \subseteq Int
      <4>1. IsFiniteSet(1..counts_len) /\ 1..counts_len \subseteq Int
        BY <1>2, FS_Interval
      <4> HIDE DEF below
      <4> QED
        BY <3>1, <4>1, FS_Subset
    <3> HIDE DEF last, below
    <3>3. Max(below) \in below
      BY <2>2, <3>2, Greatest
    <3>4. Max(below) \in 0..counts_len
      BY <1>2, <3>1, <3>3
    <3>5. CountTo(h, Max(below)) = Below(h, Max(below))
      BY <3>4, Passed
    <3>6. Max(below) \in 1..last
      BY <3>1, <3>3
    <3> QED
      BY <1>4, <2>2, <3>3, <3>5, <3>6
  <2> QED
    BY <2>1, <2>2
<1>7. ASSUME NEW n \in inside PROVE n \in 1..counts_len /\ bottom < n /\ n <= last
  <2>1. n \in 1..counts_len /\ lower <= place[n].value /\ place[n].highest <= upper
    OBVIOUS
  <2>2. n <= last
    <3>1. CASE past = {}
      BY <2>1, <3>1
    <3>2. CASE past # {}
      <4>1. upper < place[last].highest
        BY <1>4, <3>2
      <4> HIDE DEF last, past
      <4>2. last <= n => place[last].highest <= place[n].highest
        BY <1>3, <1>4, <2>1, HighestGrows
      <4>3. ~(last <= n)
        BY <1>3, <1>4, <2>1, <4>1, <4>2
      <4> QED
        BY <1>4, <2>1, <4>3
    <3> QED
      BY <3>1, <3>2
  <2>3. bottom < n
    <3>1. CASE below = {}
      BY <2>1, <3>1
    <3>2. CASE below # {}
      <4>1. bottom \in 1..counts_len /\ place[bottom].value < lower
        BY <1>2, <1>6, <3>2
      <4> HIDE DEF bottom
      <4>2. n <= bottom => place[n].value <= place[bottom].value
        BY <2>1, <4>1, PlacesGrow
      <4>3. ~(n <= bottom)
        BY <1>3, <2>1, <4>1, <4>2
      <4> QED
        BY <2>1, <4>1, <4>3
    <3> QED
      BY <3>1, <3>2
  <2> QED
    BY <2>1, <2>2, <2>3
<1> HIDE DEF lower_count, upper_count, last, bottom, below, past
<1>8. last \in 0..counts_len /\ bottom \in 0..counts_len /\ bottom <= last
  BY <1>2, <1>4, <1>6
<1>9. /\ Below(h, bottom) \in Nat /\ Below(h, last) \in Nat /\ Below(h, last) <= h.total_count
      /\ Below(h, last) = Below(h, bottom) + SumFunctionOnSet(h.counts, bottom..last - 1)
  BY <1>8, Passed, BelowGrows
<1>10. SumFunctionOnSet([n \in 1..counts_len |-> CountAt(h, n)], inside)
         <= SumFunctionOnSet(h.counts, bottom..last - 1)
  <2> DEFINE Of == {n - 1 : n \in inside}
             S == bottom..last - 1
             f == [n \in 1..counts_len |-> CountAt(h, n)]
  <2>1. inside \subseteq 1..counts_len
    OBVIOUS
  <2>2. Of \subseteq S
    <3> SUFFICES ASSUME NEW n \in inside PROVE n - 1 \in S
      OBVIOUS
    <3> QED
      BY <1>7, <1>8
  <2>3. IsFiniteSet(S) /\ \A i \in S : h.counts[i] \in Nat
    <3>1. S \subseteq 0..last - 1
      BY <1>8
    <3>2. IsFiniteSet(0..last - 1) /\ \A i \in 0..last - 1 : h.counts[i] \in Nat
      BY <1>8, BelowFacts
    <3> HIDE DEF S
    <3> QED
      BY <3>1, <3>2, FS_Subset
  <2>4. SumFunctionOnSet(f, inside) = SumFunctionOnSet(h.counts, Of)
    <3> HIDE DEF inside
    <3> QED
      BY <2>1, SumShifted
  <2> HIDE DEF Of, S, f, inside
  <2>5. SumFunctionOnSet(h.counts, Of) <= SumFunctionOnSet(h.counts, S)
    BY <2>2, <2>3, SumPart
  <2> QED
    BY <2>4, <2>5 DEF S, f
<1>11. SumFunctionOnSet(h.counts, bottom..last - 1) \in Int
       /\ SumFunctionOnSet([n \in 1..counts_len |-> CountAt(h, n)], inside) \in Int
  <2>1. IsFiniteSet(bottom..last - 1) /\ \A i \in bottom..last - 1 : h.counts[i] \in Nat
    <3>1. bottom..last - 1 \subseteq 0..last - 1
      BY <1>8
    <3>2. IsFiniteSet(0..last - 1) /\ \A i \in 0..last - 1 : h.counts[i] \in Nat
      BY <1>8, BelowFacts
    <3> QED
      BY <3>1, <3>2, FS_Subset
  <2>2. SumFunctionOnSet(h.counts, bottom..last - 1) \in Nat
    BY <2>1, SumStep
  <2> DEFINE f == [n \in 1..counts_len |-> CountAt(h, n)]
  <2>3. inside \subseteq 1..counts_len /\ IsFiniteSet(1..counts_len)
    BY <1>2, FS_Interval
  <2>4. \A n \in 1..counts_len : CountAt(h, n) \in Nat
    BY RecordedIs
  <2>5. \A n \in inside : f[n] \in Nat
    BY <2>3, <2>4
  <2> HIDE DEF f, inside
  <2>6. SumFunctionOnSet(f, inside) \in Nat
    BY <2>3, <2>5, FS_Subset, SumStep
  <2> QED
    BY <2>2, <2>6 DEF f
<1> DEFINE above == SumFunctionOnSet(h.counts, bottom..last - 1)
           all == SumFunctionOnSet([n \in 1..counts_len |-> CountAt(h, n)], inside)
           share == stats_within(h, lower, upper)
<1>12. share = Below(h, last) - Below(h, bottom)
  BY <1>1, <1>5, <1>6
<1>13. above \in Int /\ all \in Int /\ all <= above
  BY <1>10, <1>11
<1>14. Below(h, last) = Below(h, bottom) + above
  BY <1>9
<1>15. h.total_count \in Nat
  BY DEF Histogram
<1> HIDE DEF above, all, share
<1>16. share <= h.total_count /\ all <= share
  BY <1>9, <1>12, <1>13, <1>14, <1>15
<1> QED
  BY <1>16 DEF all, share, inside

\* A sum of one.
LEMMA SumOfOne ==
    ASSUME NEW f, NEW x, f[x] \in Nat
    PROVE  SumFunctionOnSet(f, {x}) = f[x]
<1>1. IsFiniteSet({}) /\ {} \cup {x} = {x} /\ x \notin {}
  BY FS_EmptySet
<1>2. SumFunctionOnSet(f, {} \cup {x}) = f[x] + SumFunctionOnSet(f, {})
  BY <1>1, SumInsert
<1> QED
  BY <1>1, <1>2, SumOfNone

\* The values there are.
Present(values) == {v \in DOMAIN values : values[v] > 0}

\* They are numbers, each at its place.
LEMMA PresentAt ==
    ASSUME NEW values, Tracked(values), NEW v \in Present(values)
    PROVE  /\ v \in Nat /\ AssertionsHold(v) /\ v \in DOMAIN values /\ values[v] \in Nat
           /\ counts_index_for(v) \in Indices /\ counts_index_for(v) + 1 \in 1..counts_len
           /\ AtPlace(v, counts_index_for(v) + 1)
<1>1. v \in DOMAIN values /\ v \in Int /\ AssertionsHold(v) /\ values[v] \in Nat
  BY DEF Present, Tracked
<1>2. v \in Nat /\ counts_index_for(v) \in 0..counts_len - 1 /\ counts_len \in Nat
  BY <1>1, Trackable, IndexFacts
<1> DEFINE n == counts_index_for(v) + 1
<1>3. n \in 1..counts_len /\ n - 1 = counts_index_for(v)
  BY <1>2
<1> HIDE DEF n
<1>4. AtPlace(v, n)
  BY <1>1, <1>3, CountedAtPlace
<1> QED
  BY <1>1, <1>2, <1>3, <1>4 DEF n, Indices

\* An index is counted when a value that has it is there.
LEMMA CountedIff ==
    ASSUME NEW h, NEW values, Keeps(h, values), NEW i \in Indices
    PROVE  h.counts[i] # 0 <=> \E v \in Present(values) : counts_index_for(v) = i
<1> DEFINE T == Among(DOMAIN values, i)
<1>1. Tracked(values) /\ h.counts[i] = SumFunctionOnSet(values, T)
  BY DEF Keeps, Counts, Indices
<1>2. T \subseteq DOMAIN values
  BY DEF Among
<1>3. IsFiniteSet(T) /\ \A v \in T : values[v] \in Nat
  BY <1>1, <1>2, FS_Subset DEF Tracked
<1>4. \A v \in T : v \in DOMAIN values /\ counts_index_for(v) = i
  BY DEF Among
<1>5. ASSUME NEW v \in Present(values), counts_index_for(v) = i PROVE h.counts[i] # 0
  <2>1. v \in T /\ values[v] > 0
    BY <1>1, <1>5, PresentAt DEF Present, Among
  <2> HIDE DEF T
  <2>2. SumFunctionOnSet(values, T) = values[v] + SumFunctionOnSet(values, T \ {v})
    BY <1>3, <2>1, SumRemove
  <2>3. SumFunctionOnSet(values, T \ {v}) \in Nat
    BY <1>3, FS_Subset, SumStep
  <2> QED
    BY <1>1, <1>3, <2>1, <2>2, <2>3
<1>6. ASSUME ~ \E v \in Present(values) : counts_index_for(v) = i PROVE h.counts[i] = 0
  <2>1. \A v \in T : values[v] = 0
    BY <1>3, <1>4, <1>6 DEF Present
  <2> HIDE DEF T
  <2>2. SumFunctionOnSet(values, T) = SumFunctionOnSet(values, {})
    BY <1>3, <2>1, SumZeros
  <2> QED
    BY <1>1, <2>2, SumOfNone
<1> QED
  BY <1>5, <1>6

\* The place of a value begins at the greatest value that begins one.
LEMMA PlaceBegins ==
    ASSUME NEW v \in Nat, NEW n \in 1..counts_len, AtPlace(v, n)
    PROVE  Max({place[k].value : k \in 1..counts_len} \cap 0..v) = place[n].value
<1> DEFINE S == {place[k].value : k \in 1..counts_len} \cap 0..v
<1>1. \A k \in 1..counts_len : place[k].value \in Nat
  BY PlaceFacts
<1>2. place[n].value \in S
  BY <1>1 DEF AtPlace
<1>3. ASSUME NEW k \in 1..counts_len, place[k].value <= v PROVE place[k].value <= place[n].value
  <2>1. CASE k <= n
    BY <2>1, PlacesGrow
  <2>2. CASE n < k
    <3>1. n < counts_len /\ n + 1 \in 1..counts_len /\ n + 1 <= k
      BY <2>2, IndexFacts
    <3>2. v < place[n + 1].value
      BY <3>1 DEF AtPlace
    <3>3. place[n + 1].value <= place[k].value
      BY <3>1, PlacesGrow
    <3>4. place[n + 1].value \in Nat /\ place[k].value \in Nat
      BY <1>1, <3>1
    <3> QED
      BY <1>3, <3>2, <3>3, <3>4
  <2> QED
    BY <2>1, <2>2
<1>4. S \subseteq Int /\ \A x \in S : place[n].value >= x
  <2> SUFFICES ASSUME NEW x \in S PROVE x \in Int /\ place[n].value >= x
    OBVIOUS
  <2>1. PICK k \in 1..counts_len : x = place[k].value /\ x <= v
    OBVIOUS
  <2>2. place[k].value <= place[n].value
    BY <1>3, <2>1
  <2> QED
    BY <1>1, <2>1, <2>2
<1> HIDE DEF S
<1>5. Max(S) = place[n].value
  BY <1>2, <1>4, MinIs
<1> QED
  BY <1>5 DEF S

\* A place adds its count to what has been passed.
LEMMA PassedStep ==
    ASSUME NEW h \in Histogram, Consistent(h), NEW n \in 1..counts_len
    PROVE  /\ Below(h, n) = Below(h, n - 1) + h.counts[n - 1]
           /\ Below(h, n) \in Nat /\ Below(h, n - 1) \in Nat
           /\ Below(h, n) <= h.total_count /\ CountTo(h, n) = Below(h, n)
           /\ h.counts[n - 1] \in Nat
<1>1. counts_len \in Nat /\ n - 1 \in 0..counts_len /\ n \in 0..counts_len /\ n - 1 <= n
  BY IndexFacts
<1>2. Below(h, n) = Below(h, n - 1) + SumFunctionOnSet(h.counts, (n - 1)..n - 1)
  BY <1>1, BelowGrows
<1>3. (n - 1)..n - 1 = {n - 1}
  BY <1>1
<1>4. h.counts[n - 1] \in Nat
  BY RecordedIs
<1>5. SumFunctionOnSet(h.counts, {n - 1}) = h.counts[n - 1]
  BY <1>4, SumOfOne
<1>6. Below(h, n) \in Nat /\ Below(h, n - 1) \in Nat
  BY <1>1, BelowFacts
<1>7. Below(h, n) <= h.total_count /\ CountTo(h, n) = Below(h, n)
  BY <1>1, Passed
<1> QED
  BY <1>2, <1>3, <1>4, <1>5, <1>6, <1>7

\* hdr_min is where the place of the least value begins.
LEMMA MinOfPresent ==
    ASSUME NEW h, NEW values, Keeps(h, values), NEW v \in Present(values),
           \A w \in Present(values) : v <= w
    PROVE  hdr_min(h) = place[counts_index_for(v) + 1].value
<1> DEFINE k == counts_index_for(v) + 1
           reached == {n \in Visited(h) : CountTo(h, n) # 0}
           least == {n \in Visited(h) : CountTo(h, n) >= 1}
           m == Min(least)
<1>1. h \in Histogram /\ Consistent(h) /\ Tracked(values) /\ counts_len \in Nat
  BY IndexFacts DEF Keeps
<1>2. k \in 1..counts_len /\ k - 1 \in Indices /\ k - 1 = counts_index_for(v)
      /\ Indices = 0..counts_len - 1 /\ h.counts \in [Indices -> Nat]
  <2>1. counts_index_for(v) \in Indices /\ k \in 1..counts_len /\ k - 1 = counts_index_for(v)
    <3>1. counts_index_for(v) \in Indices /\ k \in 1..counts_len
      BY <1>1, PresentAt
    <3>2. counts_index_for(v) \in Int
      BY <3>1 DEF Indices
    <3> QED
      BY <3>1, <3>2
  <2>2. h.counts \in [Indices -> Nat]
    BY <1>1 DEF Indices, Histogram
  <2> QED
    BY <2>1, <2>2 DEF Indices
<1>3. h.counts[k - 1] # 0
  BY <1>2, CountedIff
<1>4. \A n \in 1..counts_len : Below(h, n) = Below(h, n - 1) + h.counts[n - 1]
                              /\ Below(h, n) \in Nat /\ Below(h, n - 1) \in Nat
                              /\ Below(h, n) <= h.total_count /\ CountTo(h, n) = Below(h, n)
                              /\ h.counts[n - 1] \in Nat
  BY <1>1, PassedStep
<1> HIDE DEF k
<1>5. reached = least
  <2>1. \A n \in Visited(h) : n \in 1..counts_len
    BY DEF Visited
  <2>2. \A n \in Visited(h) : CountTo(h, n) \in Nat
    BY <1>4, <2>1
  <2> QED
    BY <2>2
<1>6. 1 \in 1..h.total_count
  <2>1. Below(h, k) >= 1 /\ Below(h, k) <= h.total_count /\ Below(h, k) \in Nat
    BY <1>2, <1>3, <1>4
  <2>2. h.total_count \in Nat
    BY <1>1 DEF Histogram
  <2> QED
    BY <2>1, <2>2
<1>7. least # {} /\ m \in 1..counts_len /\ Below(h, m) >= 1 /\ \A n \in 0..m - 1 : Below(h, n) < 1
  BY <1>1, <1>6, ReachedAt
<1>8. hdr_min(h) = place[m].value
  BY <1>5, <1>7 DEF hdr_min
<1> HIDE DEF m, least, reached
<1>9. m <= k
  <2> SUFFICES ASSUME k < m PROVE FALSE
    BY <1>1, <1>2, <1>7
  <2>1. k \in 0..m - 1
    BY <1>1, <1>2, <1>7
  <2>2. Below(h, k) < 1
    BY <1>7, <2>1
  <2> QED
    BY <1>2, <1>3, <1>4, <2>2
<1>10. k <= m
  <2>1. m - 1 \in 0..m - 1 /\ m - 1 \in Indices
    BY <1>1, <1>2, <1>7
  <2>2. Below(h, m - 1) < 1
    BY <1>7, <2>1
  <2>3. h.counts[m - 1] # 0
    BY <1>4, <1>7, <2>2
  <2>4. PICK w \in Present(values) : counts_index_for(w) = m - 1
    BY <2>1, <2>3, CountedIff
  <2>5. v <= w /\ v \in Int /\ w \in Int /\ AssertionsHold(v) /\ AssertionsHold(w)
    BY <1>1, PresentAt
  <2>6. counts_index_for(v) <= counts_index_for(w)
    BY <2>5, LaterPlace
  <2> QED
    BY <1>1, <1>2, <1>7, <2>4, <2>6
<1>11. m = k
  BY <1>1, <1>2, <1>7, <1>9, <1>10
<1> QED
  BY <1>8, <1>11 DEF k

\* hdr_max is where the place of the greatest value begins.
LEMMA MaxOfPresent ==
    ASSUME NEW h, NEW values, Keeps(h, values), NEW v \in Present(values),
           \A w \in Present(values) : w <= v
    PROVE  hdr_max(h) = place[counts_index_for(v) + 1].value
<1> DEFINE k == counts_index_for(v) + 1
<1>1. h \in Histogram /\ Consistent(h) /\ Tracked(values) /\ counts_len \in Nat
  BY IndexFacts DEF Keeps
<1>2. k \in 1..counts_len /\ k - 1 \in Indices /\ k - 1 = counts_index_for(v)
      /\ Indices = 0..counts_len - 1
  <2>1. counts_index_for(v) \in Indices /\ k \in 1..counts_len
    BY <1>1, PresentAt
  <2> QED
    BY <1>1, <2>1 DEF Indices
<1> HIDE DEF k
<1>3. k \in Recorded(h)
  <2>1. h.counts[k - 1] # 0
    BY <1>2, CountedIff
  <2> QED
    BY <1>1, <1>2, <2>1, RecordedIs
<1>4. \A n \in Recorded(h) : n \in 1..counts_len /\ n <= k
  <2> SUFFICES ASSUME NEW n \in Recorded(h) PROVE n \in 1..counts_len /\ n <= k
    OBVIOUS
  <2>1. n \in 1..counts_len /\ n - 1 \in Indices
    BY <1>1, <1>2 DEF Recorded, Visited
  <2>2. h.counts[n - 1] # 0
    BY <1>1, <2>1, RecordedIs
  <2>3. PICK w \in Present(values) : counts_index_for(w) = n - 1
    BY <2>1, <2>2, CountedIff
  <2>4. w <= v /\ v \in Int /\ w \in Int /\ AssertionsHold(v) /\ AssertionsHold(w)
    BY <1>1, PresentAt
  <2>5. counts_index_for(w) <= counts_index_for(v)
    BY <2>4, LaterPlace
  <2> QED
    BY <1>1, <1>2, <2>1, <2>3, <2>5
<1>5. Max(Recorded(h)) = k
  <2>1. Recorded(h) \subseteq Int /\ \A n \in Recorded(h) : k >= n
    BY <1>2, <1>4
  <2> QED
    BY <1>3, <2>1, MinIs
<1>6. hdr_max(h) = lowest_equivalent_value(place[k].highest)
  BY <1>3, <1>5 DEF hdr_max
<1>7. place[k].highest \in Nat /\ place[k].value <= place[k].highest
  <2>1. place[k] = Stop(k)
    BY <1>2, PlaceFacts
  <2>2. place[k].highest = highest_equivalent_value(place[k].value)
    BY <2>1 DEF Stop
  <2> QED
    BY <1>2, <2>2, HighestOf
<1>8. place[k].highest <= place[k].highest
  BY <1>7
<1> QED
  BY <1>2, <1>6, <1>7, <1>8, PlaceOfValue DEF k

\* Half of the sub-buckets of a bucket suffice for the figures asked for.
LEMMA Resolution ==
    LET figures == Radix ^ significant_figures
    IN  figures \in Nat /\ figures > 0 /\ figures <= sub_bucket_half_count
<1> DEFINE figures == Radix ^ significant_figures
           largest == largest_value_with_single_unit_resolution
           k == sub_bucket_count_magnitude
<1>1. figures \in Nat /\ figures # 0
  BY HdrAssumption
<1>2. largest = 2 * figures
  BY DEF largest_value_with_single_unit_resolution
<1> HIDE DEF figures
<1>3. largest \in Nat /\ largest - 1 \in Nat /\ largest - 1 >= 1
  BY <1>1, <1>2
<1>4. k \in Nat /\ HasBits(largest - 1, k)
  BY <1>3, BitLengthIs DEF sub_bucket_count_magnitude
<1>5. largest - 1 < TwoTo[k]
  BY <1>4 DEF HasBits
<1> HIDE DEF k, largest
<1>6. k # 0
  <2> SUFFICES ASSUME k = 0 PROVE FALSE
    OBVIOUS
  <2>1. TwoTo[k] = 1
    BY PowersOfTwo
  <2> QED
    BY <1>3, <1>5, <2>1
<1>7. sub_bucket_half_count_magnitude = k - 1
  BY <1>4, <1>6 DEF sub_bucket_half_count_magnitude, k
<1>8. TwoTo[k] = 2 * TwoTo[k - 1] /\ TwoTo[k - 1] \in Nat
  <2>1. k - 1 \in Nat /\ (k - 1) + 1 = k
    BY <1>4, <1>6
  <2> QED
    BY <2>1, PowersOfTwo
<1>9. sub_bucket_half_count = TwoTo[k - 1]
  BY <1>7, Magnitudes
<1>10. figures > 0 /\ figures <= sub_bucket_half_count
  BY <1>1, <1>2, <1>5, <1>8, <1>9
<1> QED
  BY <1>1, <1>10 DEF figures

\* The end of a value's place is the value within the precision asked for.
LEMMA WithinPrecision ==
    ASSUME lowest_trackable_value = 1, NEW v \in Int, AssertionsHold(v),
           NEW n \in 1..counts_len, counts_index_for(v) = n - 1
    PROVE  LET value == highest_equivalent_value(place[n].value)
           IN  v <= value /\ (value - v) * Radix ^ significant_figures <= v
<1> DEFINE b == get_bucket_index(v)
           s == get_sub_bucket_index(v)
           p == [bucket |-> b, sub |-> s]
           R == Radix ^ significant_figures
           value == highest_equivalent_value(place[n].value)
<1>1. /\ v \in Nat /\ IsPlace(b, s) /\ Within(v, b, s)
      /\ counts_index_for(v) = b * sub_bucket_half_count + s
  BY Trackable
<1>2. b \in Nat /\ s \in Nat /\ (b > 0 => s >= sub_bucket_half_count) /\ sub_bucket_half_count \in Nat
  BY <1>1, Magnitudes, Buckets DEF IsPlace
<1>3. Slot(n - 1) = p
  <2>1. Numbered(p, n - 1)
    BY <1>1, <1>2 DEF Numbered
  <2>2. Numbered(Slot(n - 1), n - 1)
    BY PlaceFacts
  <2>3. n - 1 \in Nat
    BY Buckets
  <2> HIDE DEF p
  <2> QED
    BY <2>1, <2>2, <2>3, OneNumbered
<1>4. R \in Nat /\ R > 0 /\ R <= sub_bucket_half_count
  BY Resolution
<1>5. b = 0 => Unit(b) = 1
  <2>1. HasBits(1, 1)
    <3>1. TwoTo[0] = 1 /\ TwoTo[0 + 1] = 2 * TwoTo[0]
      BY PowersOfTwo
    <3>2. TwoTo[1] = 2 /\ TwoTo[1 - 1] = 1
      BY <3>1
    <3> QED
      BY <3>2 DEF HasBits
  <2>2. BitLength(1) = 1
    BY <2>1, BitLengthOf
  <2>3. unit_magnitude = 0
    BY <2>2 DEF unit_magnitude
  <2>4. TwoTo[0] = 1
    BY PowersOfTwo
  <2> QED
    BY <2>3, <2>4 DEF Unit
<1>6. /\ value = (s + 1) * Unit(b) - 1 /\ Unit(b) \in Nat /\ Unit(b) > 0
      /\ s * Unit(b) \in Nat /\ (s + 1) * Unit(b) = s * Unit(b) + Unit(b)
  BY <1>3, HighestEnd
<1>7. s * Unit(b) <= v /\ v < (s + 1) * Unit(b)
  BY <1>1 DEF Within
<1> DEFINE U == Unit(b)
<1> HIDE DEF b, s, U, R, value
<1>8. value = s * U + U - 1 /\ U \in Nat /\ U > 0 /\ s * U \in Nat /\ s * U <= v /\ v < s * U + U
  BY <1>6, <1>7 DEF U
<1> DEFINE first == s * U
           off == value - v
<1>9. v <= value /\ off \in Nat /\ off < U
  <2> HIDE DEF first
  <2>1. value = first + U - 1 /\ first \in Nat /\ first <= v /\ v < first + U
    BY <1>8 DEF first
  <2> QED
    BY <1>1, <1>8, <2>1
<1> HIDE DEF off
<1>10. off * R <= v
  <2>1. CASE b = 0
    <3>1. U = 1
      BY <1>5, <2>1 DEF U
    <3>2. off = 0
      BY <1>9, <3>1
    <3> QED
      BY <1>1, <1>4, <3>2
  <2>2. CASE b # 0
    <3>1. R <= s
      BY <1>2, <1>4, <2>2
    <3>2. ASSUME NEW x \in Nat, NEW y \in Nat, NEW z \in Nat, y <= z
          PROVE  x * y <= x * z /\ y * x <= z * x /\ x * y \in Nat
      BY <3>2
    <3>3. off * R <= U * R /\ U * R <= U * s /\ off * R \in Nat /\ U * R \in Nat
      BY <1>2, <1>4, <1>8, <1>9, <3>1, <3>2
    <3>4. U * s = s * U
      BY <1>2, <1>8
    <3> DEFINE x == off * R
               y == U * R
               z == s * U
    <3>5. x <= y /\ y <= z /\ z <= v /\ x \in Nat /\ y \in Nat /\ z \in Nat
      BY <1>8, <3>3, <3>4
    <3> HIDE DEF x, y, z
    <3>6. x <= v
      BY <1>1, <3>5
    <3> QED
      BY <3>6 DEF x
  <2> QED
    BY <2>1, <2>2
<1> QED
  BY <1>9, <1>10 DEF off, value, R

\* The present values that are counted before the nth place.
Early(values, n) == {w \in Present(values) : counts_index_for(w) < n}

\* What has been passed at a place is what there is of them.
LEMMA PassedAre ==
    ASSUME NEW h, NEW values, Keeps(h, values), NEW n \in 0..counts_len
    PROVE  Below(h, n) = SumFunctionOnSet(values, Early(values, n))
<1> DEFINE Total(S) == SumFunctionOnSet(values, S)
           Bad == {k \in 0..counts_len : Below(h, k) # Total(Early(values, k))}
<1>1. h \in Histogram /\ Consistent(h) /\ Tracked(values) /\ Counts(h, values) /\ counts_len \in Nat
  BY IndexFacts DEF Keeps
<1>2. \A w \in Present(values) : /\ w \in DOMAIN values /\ values[w] \in Nat /\ AssertionsHold(w)
                                 /\ counts_index_for(w) \in Nat
  BY <1>1, PresentAt DEF Indices
<1>3. SUFFICES ASSUME Bad # {} PROVE FALSE
  OBVIOUS
<1>4. PICK k \in Bad : \A j \in Bad : k <= j
  <2>1. Bad \subseteq Nat
    OBVIOUS
  <2> HIDE DEF Bad
  <2> QED
    BY <1>3, <2>1, NatMin
<1>5. k # 0
  <2>1. 0..0 - 1 = {} /\ Early(values, 0) = {}
    BY <1>2 DEF Early
  <2>2. Below(h, 0) = 0 /\ Total(Early(values, 0)) = 0
    BY <2>1, SumOfNone DEF Below
  <2> QED
    BY <1>4, <2>2
<1>6. k \in 1..counts_len /\ k - 1 \in 0..counts_len /\ k - 1 \in 0..counts_len - 1 /\ k - 1 \notin Bad
  BY <1>1, <1>4, <1>5
<1>7. Below(h, k - 1) = Total(Early(values, k - 1))
  BY <1>6
<1>8. Below(h, k) = Below(h, k - 1) + h.counts[k - 1]
  BY <1>1, <1>6, PassedStep
<1> DEFINE S == Early(values, k)
           T == Early(values, k - 1)
           D == DOMAIN values
           here == Among(D, k - 1)
<1>9. /\ IsFiniteSet(S) /\ T \subseteq S /\ S \subseteq D /\ S \ T \subseteq here
      /\ \A w \in here \ (S \ T) : values[w] = 0
      /\ \A w \in S : values[w] \in Nat
  <2>1. S \subseteq D
    BY <1>2 DEF Early
  <2>2. IsFiniteSet(S)
    BY <1>1, <2>1, FS_Subset DEF Tracked
  <2>3. T \subseteq S
    BY <1>2, <1>6 DEF Early
  <2>4. ASSUME NEW w \in S \ T PROVE w \in here
    <3>1. w \in Present(values) /\ counts_index_for(w) < k /\ ~(counts_index_for(w) < k - 1)
      BY DEF Early
    <3>2. counts_index_for(w) = k - 1
      BY <1>2, <1>6, <3>1
    <3> QED
      BY <1>2, <3>1, <3>2 DEF Among
  <2>5. ASSUME NEW w \in here \ (S \ T) PROVE values[w] = 0
    <3>1. w \in D /\ counts_index_for(w) = k - 1 /\ values[w] \in Nat
      BY <1>1 DEF Among, Tracked
    <3>2. w \in Present(values) => w \in S /\ w \notin T
      BY <1>6, <3>1 DEF Early
    <3>3. w \notin Present(values)
      BY <3>2
    <3> QED
      BY <3>1, <3>3 DEF Present
  <2> QED
    BY <1>2, <2>1, <2>2, <2>3, <2>4, <2>5 DEF Early
<1>10. IsFiniteSet(here) /\ \A w \in here : values[w] \in Nat
  <2>1. here \subseteq D
    BY DEF Among
  <2> QED
    BY <1>1, <2>1, FS_Subset DEF Tracked
<1>11. h.counts[k - 1] = SumFunctionOnSet(values, here)
  BY <1>1, <1>6 DEF Counts
<1> HIDE DEF S, T, here, Bad
<1>12. SumFunctionOnSet(values, here) = SumFunctionOnSet(values, S \ T)
  BY <1>9, <1>10, SumZeros
<1>13. SumFunctionOnSet(values, S) = SumFunctionOnSet(values, T) + SumFunctionOnSet(values, S \ T)
  BY <1>9, SumParts
<1>14. Below(h, k) = Total(S)
  BY <1>7, <1>8, <1>11, <1>12, <1>13 DEF T
<1> QED
  BY <1>4, <1>14 DEF S, Bad

\* What there is of the values up to v, and of those below it.
Upto(values, v)  == SumFunctionOnSet(values, {w \in DOMAIN values : w <= v})
Under(values, v) == SumFunctionOnSet(values, {w \in DOMAIN values : w < v})

\* They are numbers, and grow.
LEMMA UptoGrows ==
    ASSUME NEW values, Tracked(values), NEW v \in Int
    PROVE  /\ Upto(values, v) \in Nat /\ Under(values, v) \in Nat
           /\ \A S \in SUBSET {w \in DOMAIN values : w <= v} : SumFunctionOnSet(values, S) <= Upto(values, v)
<1> DEFINE D == DOMAIN values
           S == {w \in D : w <= v}
           T == {w \in D : w < v}
<1>1. /\ IsFiniteSet(S) /\ IsFiniteSet(T)
      /\ \A w \in S : values[w] \in Nat
      /\ \A w \in T : values[w] \in Nat
  <2>1. S \subseteq D /\ T \subseteq D /\ IsFiniteSet(D) /\ \A w \in D : values[w] \in Nat
    BY DEF Tracked
  <2> HIDE DEF S, T, D
  <2> QED
    BY <2>1, FS_Subset
<1> HIDE DEF S, T
<1>2. SumFunctionOnSet(values, S) \in Nat /\ SumFunctionOnSet(values, T) \in Nat
  BY <1>1, SumStep
<1>3. \A U \in SUBSET S : SumFunctionOnSet(values, U) <= SumFunctionOnSet(values, S)
  BY <1>1, SumPart
<1> QED
  BY <1>2, <1>3 DEF S, T, Upto, Under

\* Only the values that are present add to a sum.
LEMMA SumOfPresent ==
    ASSUME NEW values, Tracked(values), NEW S, S \subseteq DOMAIN values
    PROVE  SumFunctionOnSet(values, S) = SumFunctionOnSet(values, S \cap Present(values))
<1>1. IsFiniteSet(S) /\ \A w \in S : values[w] \in Nat
  BY FS_Subset DEF Tracked
<1>2. S \cap Present(values) \subseteq S /\ \A w \in S \ (S \cap Present(values)) : values[w] = 0
  BY <1>1 DEF Present
<1> QED
  BY <1>1, <1>2, SumZeros

\* The arithmetic of a rank: it is that of the percentile, to the nearest.
LEMMA RankRounds ==
    ASSUME NEW p \in Percentiles, NEW total \in Nat, total > 0, NEW x \in Nat
    PROVE  /\ x >= CountAtPercentile(p, total) => 100 * x + 50 >= p * total
           /\ 0 < x /\ x < CountAtPercentile(p, total) => 100 * x < p * total + 50
<1> DEFINE y == p * total
           q == (2 * p * total + 100) \div 200
           rank == CountAtPercentile(p, total)
<1>1. rank = IF 1 >= q THEN 1 ELSE q
  BY RankIs
<1>2. y \in Nat /\ 2 * p * total = 2 * y
  BY DEF Percentiles
<1>3. q = (2 * y + 100) \div 200
  BY <1>2
<1> HIDE DEF y, q, rank
<1>4. q \in Nat /\ 200 * q <= 2 * y + 100 /\ 2 * y + 100 < 200 * q + 200
  BY <1>2, <1>3
<1>5. x >= rank => 100 * x + 50 >= y
  BY <1>1, <1>2, <1>4
<1>6. 0 < x /\ x < rank => 100 * x < y + 50
  BY <1>1, <1>2, <1>4
<1> QED
  BY <1>5, <1>6 DEF y, rank

\* The value at a percentile is the end of the place of the value that has the rank.
LEMMA PercentileOfPresent ==
    ASSUME lowest_trackable_value = 1, NEW h, NEW values, Keeps(h, values), h.total_count > 0,
           NEW p \in Percentiles
    PROVE  LET value == hdr_value_at_percentile(h, p)
               total == h.total_count
           IN  \E v \in Present(values) :
                   /\ v <= value /\ (value - v) * Radix ^ significant_figures <= v
                   /\ 100 * Upto(values, v) + 50 >= p * total
                   /\ Under(values, v) > 0 => 100 * Under(values, v) < p * total + 50
<1> DEFINE total == h.total_count
           rank == CountAtPercentile(p, total)
           reached == {n \in Visited(h) : CountTo(h, n) >= rank}
           m == Min(reached)
           value == hdr_value_at_percentile(h, p)
<1>1. h \in Histogram /\ Consistent(h) /\ Tracked(values) /\ counts_len \in Nat
  BY IndexFacts DEF Keeps
<1>2. total \in Nat /\ total > 0 /\ rank \in 1..total
  <2>1. total \in Nat /\ total > 0
    BY <1>1 DEF Histogram
  <2> HIDE DEF total
  <2> QED
    BY <2>1, RankIs
<1>3. /\ reached # {} /\ m \in 1..counts_len
      /\ Below(h, m) >= rank /\ \A n \in 0..m - 1 : Below(h, n) < rank
  <2> HIDE DEF rank
  <2> QED
    BY <1>1, <1>2, ReachedAt
<1>4. value = highest_equivalent_value(place[m].value)
  BY <1>3 DEF hdr_value_at_percentile
<1> HIDE DEF m, reached, rank, value, total
<1>5. m \in 0..counts_len /\ \A n \in 0..counts_len : Below(h, n) = SumFunctionOnSet(values, Early(values, n))
  BY <1>1, <1>3, PassedAre
<1>6. \A w \in Present(values) : /\ w \in Nat /\ w \in DOMAIN values /\ AssertionsHold(w)
                                 /\ counts_index_for(w) \in 0..counts_len - 1
  <2>1. Indices = 0..counts_len - 1
    BY DEF Indices
  <2> QED
    BY <1>1, <2>1, PresentAt
<1> DEFINE Enough == {w \in Present(values) : Upto(values, w) >= rank}
<1>7. \E last \in Early(values, m) : last \in Enough
  <2> DEFINE S == Early(values, m)
             last == Max(S)
  <2>1. SumFunctionOnSet(values, S) >= rank
    BY <1>3, <1>5
  <2>2. S # {}
    BY <1>2, <2>1, SumOfNone
  <2>3. IsFiniteSet(S) /\ S \subseteq Int /\ S \subseteq Present(values)
    <3>1. S \subseteq DOMAIN values /\ S \subseteq Int /\ S \subseteq Present(values)
      BY <1>6 DEF Early
    <3>2. IsFiniteSet(DOMAIN values)
      BY <1>1 DEF Tracked
    <3> QED
      BY <3>1, <3>2, FS_Subset
  <2> HIDE DEF S
  <2>4. last \in S /\ \A w \in S : last >= w
    BY <2>2, <2>3, Greatest
  <2> HIDE DEF last
  <2>5. S \in SUBSET {w \in DOMAIN values : w <= last} /\ last \in Int /\ last \in Present(values)
    BY <1>6, <2>3, <2>4
  <2>6. SumFunctionOnSet(values, S) <= Upto(values, last) /\ Upto(values, last) \in Nat
    BY <1>1, <2>5, UptoGrows
  <2>7. SumFunctionOnSet(values, S) \in Nat /\ rank \in Nat
    <3>1. S = Early(values, m)
      BY DEF S
    <3>2. Below(h, m) \in Nat
      BY <1>1, <1>5, BelowFacts
    <3> QED
      BY <1>2, <1>5, <3>1, <3>2
  <2>8. Upto(values, last) >= rank
    BY <2>1, <2>6, <2>7
  <2> QED
    BY <2>4, <2>5, <2>8 DEF S
<1>8. PICK v \in Enough : \A w \in Enough : v <= w
  <2>1. Enough \subseteq Nat /\ Enough # {}
    BY <1>6, <1>7
  <2> HIDE DEF Enough
  <2> QED
    BY <2>1, NatMin
<1>9. v \in Present(values) /\ Upto(values, v) >= rank /\ v \in Nat /\ v \in Int /\ AssertionsHold(v)
      /\ counts_index_for(v) \in 0..counts_len - 1
  BY <1>6, <1>8
<1>10. \A w \in Present(values) : w < v => Upto(values, w) < rank
  <2> SUFFICES ASSUME NEW w \in Present(values), w < v, ~(Upto(values, w) < rank) PROVE FALSE
    OBVIOUS
  <2>1. w \in Int /\ Upto(values, w) \in Nat /\ rank \in Nat
    BY <1>1, <1>2, <1>6, UptoGrows
  <2>2. w \in Enough
    BY <2>1
  <2> QED
    BY <1>6, <1>8, <2>2
<1>11. counts_index_for(v) < m
  <2>1. PICK last \in Early(values, m) : last \in Enough
    BY <1>7
  <2>2. v <= last /\ last \in Present(values) /\ counts_index_for(last) < m
    BY <1>8, <2>1 DEF Early
  <2>3. counts_index_for(v) <= counts_index_for(last)
    BY <1>6, <1>9, <2>2, LaterPlace
  <2> QED
    BY <1>3, <1>6, <1>9, <2>2, <2>3
<1> HIDE DEF Enough
<1>12. counts_index_for(v) >= m - 1
  <2> SUFFICES ASSUME counts_index_for(v) < m - 1 PROVE FALSE
    BY <1>3, <1>9
  <2> DEFINE n == counts_index_for(v) + 1
             S == {w \in DOMAIN values : w <= v}
             T == S \cap Present(values)
  <2>1. n \in 0..m - 1 /\ n \in 0..counts_len
    <3> DEFINE i == counts_index_for(v)
    <3>1. i \in 0..counts_len - 1 /\ i < m - 1 /\ m \in 1..counts_len
      BY <1>3, <1>9
    <3> HIDE DEF i
    <3>2. i + 1 \in 0..m - 1 /\ i + 1 \in 0..counts_len
      BY <1>1, <3>1
    <3> QED
      BY <3>2 DEF i
  <2>2. \A w \in T : w \in Early(values, n)
    <3> SUFFICES ASSUME NEW w \in T PROVE counts_index_for(w) < n
      BY DEF Early
    <3>1. w \in Present(values) /\ w <= v
      OBVIOUS
    <3>2. w \in Int /\ AssertionsHold(w) /\ counts_index_for(w) \in Int
      BY <1>6, <3>1
    <3>3. counts_index_for(w) <= counts_index_for(v)
      BY <1>9, <3>1, <3>2, LaterPlace
    <3> QED
      BY <1>9, <3>2, <3>3
  <2> HIDE DEF n
  <2>3. Upto(values, v) = SumFunctionOnSet(values, T)
    BY <1>1, SumOfPresent DEF Upto
  <2>4. /\ IsFiniteSet(Early(values, n)) /\ \A w \in Early(values, n) : values[w] \in Nat
    <3>1. Early(values, n) \subseteq DOMAIN values
      BY <1>6 DEF Early
    <3> QED
      BY <1>1, <3>1, FS_Subset DEF Tracked
  <2>5. T \subseteq Early(values, n)
    BY <2>2
  <2> HIDE DEF T, S
  <2>6. SumFunctionOnSet(values, T) <= SumFunctionOnSet(values, Early(values, n))
    BY <2>4, <2>5, SumPart
  <2>7. Below(h, n) = SumFunctionOnSet(values, Early(values, n)) /\ Below(h, n) < rank
        /\ Below(h, n) \in Nat
    BY <1>1, <1>3, <1>5, <2>1, BelowFacts
  <2>8. Upto(values, v) \in Nat /\ rank \in Nat
    BY <1>1, <1>2, <1>9, UptoGrows
  <2> QED
    BY <1>9, <2>3, <2>6, <2>7, <2>8
<1>13. v <= value /\ (value - v) * Radix ^ significant_figures <= v
  <2>1. counts_index_for(v) = m - 1
    BY <1>3, <1>9, <1>11, <1>12
  <2> QED
    BY <1>3, <1>4, <1>9, <2>1, WithinPrecision
<1>14. 100 * Upto(values, v) + 50 >= p * total
  <2>1. Upto(values, v) \in Nat
    BY <1>1, <1>9, UptoGrows
  <2> QED
    BY <1>2, <1>9, <2>1, RankRounds DEF rank
<1>15. ASSUME Under(values, v) > 0
       PROVE  100 * Under(values, v) < p * total + 50
  <2> DEFINE S == {w \in DOMAIN values : w < v}
             T == S \cap Present(values)
             y == Max(T)
  <2>1. Under(values, v) = SumFunctionOnSet(values, T)
    BY <1>1, SumOfPresent DEF Under
  <2>2. T # {}
    BY <1>15, <2>1, SumOfNone
  <2>3. IsFiniteSet(T) /\ T \subseteq Int /\ T \subseteq Present(values) /\ T \subseteq S
    <3>1. T \subseteq DOMAIN values
      OBVIOUS
    <3> QED
      BY <1>1, <1>6, <3>1, FS_Subset DEF Tracked
  <2> HIDE DEF T
  <2>4. y \in T /\ \A w \in T : y >= w
    BY <2>2, <2>3, Greatest
  <2> HIDE DEF y
  <2>5. y \in Present(values) /\ y < v /\ y \in Int
    BY <1>6, <2>3, <2>4
  <2>6. T \in SUBSET {w \in DOMAIN values : w <= y}
    BY <1>6, <2>3, <2>4, <2>5
  <2>7. SumFunctionOnSet(values, T) <= Upto(values, y) /\ Upto(values, y) \in Nat
    BY <1>1, <2>5, <2>6, UptoGrows
  <2>8. Upto(values, y) < rank
    BY <1>10, <2>5
  <2>9. Under(values, v) \in Nat /\ rank \in Nat
    BY <1>1, <1>2, <1>9, UptoGrows
  <2>10. Under(values, v) < rank
    BY <2>1, <2>7, <2>8, <2>9
  <2> QED
    BY <1>2, <1>15, <2>9, <2>10, RankRounds DEF rank
<1> QED
  BY <1>9, <1>13, <1>14, <1>15 DEF value, total

\* What a histogram that keeps the latencies of all threads says of them.
LEMMA KeptDescribes ==
    ASSUME lowest_trackable_value = 1, Keeps(report.latency, AllOf(seen))
    PROVE  ReportDescribesTheSeen
<1> DEFINE h == report.latency
           all == AllOf(seen)
           there == {v \in Latencies : all[v] > 0}
           PlaceOf(v) == Max({place[n].value : n \in 1..counts_len} \cap 0..v)
<1>1. h \in Histogram /\ Consistent(h) /\ Tracked(all)
  BY DEF Keeps
<1>2. DOMAIN all = Latencies /\ IsFiniteSet(Latencies) /\ Latencies \subseteq Int
  BY StatisticsAssumption DEF AllOf
<1>3. Present(all) = there
  BY <1>2 DEF Present
<1> HIDE DEF h, all
<1>4. ASSUME h.total_count > 0, NEW p \in Percentiles
      PROVE  LET value == hdr_value_at_percentile(h, p)
             IN  \E v \in Latencies :
                     /\ all[v] > 0
                     /\ v <= value /\ (value - v) * Radix ^ significant_figures <= v
                     /\ 100 * SumFunctionOnSet(all, {w \in Latencies : w <= v}) + 50 >= p * h.total_count
                     /\ SumFunctionOnSet(all, {w \in Latencies : w < v}) > 0 =>
                            100 * SumFunctionOnSet(all, {w \in Latencies : w < v}) < p * h.total_count + 50
  <2> DEFINE value == hdr_value_at_percentile(h, p)
  <2>1. PICK v \in Present(all) :
              /\ v <= value /\ (value - v) * Radix ^ significant_figures <= v
              /\ 100 * Upto(all, v) + 50 >= p * h.total_count
              /\ Under(all, v) > 0 => 100 * Under(all, v) < p * h.total_count + 50
    <3>1. Keeps(h, all)
      BY DEF h, all
    <3> QED
      BY <1>4, <3>1, PercentileOfPresent
  <2>2. v \in Latencies /\ all[v] > 0
    BY <1>3, <2>1
  <2>3. /\ Upto(all, v) = SumFunctionOnSet(all, {w \in Latencies : w <= v})
        /\ Under(all, v) = SumFunctionOnSet(all, {w \in Latencies : w < v})
    BY <1>2 DEF Upto, Under
  <2> HIDE DEF value
  <2> QED
    BY <2>1, <2>2, <2>3 DEF value
<1>5. PercentilesOfTheSeen
  <2> SUFFICES ASSUME report.latency.total_count > 0, NEW p \in Percentiles
               PROVE  LET value == hdr_value_at_percentile(h, p)
                      IN  \E v \in Latencies :
                            /\ all[v] > 0
                            /\ v <= value /\ (value - v) * Radix ^ significant_figures <= v
                            /\ 100 * SumFunctionOnSet(all, {w \in Latencies : w <= v}) + 50 >= p * h.total_count
                            /\ SumFunctionOnSet(all, {w \in Latencies : w < v}) > 0 =>
                                 100 * SumFunctionOnSet(all, {w \in Latencies : w < v}) < p * h.total_count + 50
    BY DEF PercentilesOfTheSeen, h, all
  <2>1. h.total_count > 0
    BY DEF h
  <2> QED
    BY <1>4, <2>1
<1>6. ASSUME there # {}
      PROVE  hdr_min(h) = PlaceOf(Min(there)) /\ hdr_max(h) = PlaceOf(Max(there))
  <2>1. /\ there \subseteq Nat /\ there \subseteq Int /\ IsFiniteSet(there)
        /\ \A v \in there : /\ v \in Nat /\ counts_index_for(v) + 1 \in 1..counts_len
                            /\ AtPlace(v, counts_index_for(v) + 1)
    <3>1. there \subseteq Latencies
      OBVIOUS
    <3> HIDE DEF there
    <3>2. IsFiniteSet(there)
      BY <1>2, <3>1, FS_Subset
    <3> QED
      BY <1>1, <1>3, <3>2, PresentAt
  <2> HIDE DEF there
  <2>2. Min(there) \in there /\ \A v \in there : Min(there) <= v
    <3>1. \E x \in there : \A y \in there : x <= y
      BY <1>6, <2>1, NatMin
    <3> QED
      BY <3>1 DEF Min
  <2>3. Max(there) \in there /\ \A v \in there : v <= Max(there)
    <3>1. Max(there) \in there /\ \A v \in there : Max(there) >= v
      BY <1>6, <2>1, Greatest
    <3> QED
      BY <2>1, <3>1
  <2>4. Keeps(h, all)
    BY DEF h, all
  <2>5. \A v \in there : PlaceOf(v) = place[counts_index_for(v) + 1].value
    BY <2>1, PlaceBegins
  <2>6. hdr_min(h) = place[counts_index_for(Min(there)) + 1].value
    BY <1>3, <2>2, <2>4, MinOfPresent
  <2>7. hdr_max(h) = place[counts_index_for(Max(there)) + 1].value
    BY <1>3, <2>3, <2>4, MaxOfPresent
  <2> HIDE DEF PlaceOf
  <2> QED
    BY <2>2, <2>3, <2>5, <2>6, <2>7
<1>7. ExtremesOfTheSeen
  BY <1>6 DEF ExtremesOfTheSeen, h, all
<1>8. WithinCountsTheInside
  <2> SUFFICES ASSUME NEW lower \in Bounds, NEW upper \in Bounds
               PROVE  LET inside == {n \in 1..counts_len : lower <= place[n].value /\ place[n].highest <= upper}
                      IN  /\ stats_within(h, lower, upper) <= h.total_count
                          /\ SumFunctionOnSet([n \in 1..counts_len |-> CountAt(h, n)], inside)
                               <= stats_within(h, lower, upper)
    BY DEF WithinCountsTheInside, h
  <2>1. lower \in Nat /\ upper \in Nat
    BY StatisticsAssumption
  <2> QED
    BY <1>1, <2>1, WithinIs
<1> QED
  BY <1>5, <1>7, <1>8 DEF ReportDescribesTheSeen

-----------------------------------------------------------------------------
(* The theorems.                                                            *)

Inv == Base /\ MainInv /\ CountInv /\ LatencyInv /\ SampleInv /\ ReportInv /\ DominanceInv

\* The invariant holds at first.
LEMMA Start == Init => Inv
<1> SUFFICES ASSUME Init PROVE Inv
  OBVIOUS
<1>1. /\ IsFiniteSet(Thread) /\ Threads \in Nat /\ Threads > 0 /\ Thread = 1..Threads
      /\ MaxResponses \in Nat /\ NoMin = MaxResponses + 1
  BY ThreadFacts, StatisticsAssumption DEF NoMin
<1>2. Keeps(hdr_init, Nothing) /\ Keeps(hdr_init, NoRates)
  BY NothingKept
<1>3. hdr_init \in Histogram /\ Consistent(hdr_init)
      /\ \A i \in Indices : hdr_init.counts[i] = 0
  BY <1>2 DEF Keeps, hdr_init, Indices
<1>4. Base /\ MainInv
  <2>1. /\ ending = "no" /\ loop = [t \in Thread |-> "running"]
        /\ calibrated = [t \in Thread |-> FALSE] /\ sampling = [t \in Thread |-> "no"]
        /\ main = "join" /\ at = 1 /\ aborted = FALSE
    BY DEF Init
  <2>2. Base
    <3>1. at \in Thread
      BY <1>1, <2>1
    <3> QED
      BY <2>1, <3>1 DEF Base
  <2>3. MainInv
    BY <1>1, <2>1 DEF MainInv
  <2> QED
    BY <2>2, <2>3
<1>5. CountInv
  <2>1. complete = [t \in Thread |-> 0] /\ requests = [t \in Thread |-> 0]
    BY DEF Init
  <2>2. SumFunctionOnSet(complete, Thread) = 0
    <3>1. (\A t \in Thread : complete[t] \in Nat) /\ \A t \in Thread \ {} : complete[t] = 0
      BY <2>1
    <3>2. SumFunctionOnSet(complete, Thread) = SumFunctionOnSet(complete, {})
      BY <1>1, <3>1, SumZeros
    <3> QED
      BY <3>2, SumOfNone
  <2>3. DOMAIN complete = Thread
    BY <2>1
  <2> QED
    BY <1>1, <2>1, <2>2, <2>3 DEF CountInv, SumFunction
<1>6. LatencyInv
  <2>1. Nothing \in [Latencies -> Nat]
    BY DEF Nothing
  <2> QED
    BY <1>2, <1>3, <2>1 DEF Init, LatencyInv, Filled
<1>7. SampleInv
  <2>1. stats_alloc \in Stats
    BY <1>1, <1>3 DEF stats_alloc, Stats
  <2>2. Sampled(stats_alloc, NoRates)
    <3>1. NoRates \in [0..MaxResponses -> Nat] /\ DOMAIN NoRates = 0..MaxResponses
          /\ \A r \in 0..MaxResponses : ~(NoRates[r] > 0)
      BY DEF NoRates
    <3>2. Extremes(stats_alloc, NoRates)
      BY <3>1 DEF Extremes, stats_alloc
    <3> QED
      BY <1>2, <2>1, <3>1, <3>2 DEF Sampled, stats_alloc
  <2>3. /\ sampling = [t \in Thread |-> "no"] /\ rate = [t \in Thread |-> 0]
        /\ loaded = [t \in Thread |-> stats_alloc] /\ mutex = 0 /\ statistics = stats_alloc
        /\ sampled = NoRates
    BY DEF Init
  <2> QED
    BY <1>1, <2>1, <2>2, <2>3 DEF SampleInv
<1>8. ReportInv
  <2>1. Added = {} /\ report = [complete |-> 0, latency |-> hdr_init, u_latency |-> hdr_init]
    BY DEF Init, Added
  <2>2. \A f : SumFunctionOnSet(f, {}) = 0
    BY SumOfNone
  <2>3. report \in [complete : Nat, latency : Histogram, u_latency : Histogram]
    BY <1>3, <2>1
  <2>4. report.complete = 0 /\ report.latency = hdr_init /\ report.u_latency = hdr_init
    BY <2>1
  <2> QED
    BY <1>3, <2>1, <2>2, <2>3, <2>4 DEF ReportInv, Gathered
<1>9. DominanceInv
  <2>1. latency_histogram = [t \in Thread |-> hdr_init]
        /\ u_latency_histogram = [t \in Thread |-> hdr_init]
    BY DEF Init
  <2> QED
    BY <2>1, NoneDominates DEF DominanceInv
<1> QED
  BY <1>4, <1>5, <1>6, <1>7, <1>8, <1>9 DEF Inv

\* And always.
LEMMA Always == Spec => []Inv
<1>1. Inv /\ [Next]_vars => Inv'
  BY BaseStep, CountStep, LatencyStep, SampleStep, ReportStep, DominanceStep DEF Inv
<1> QED
  BY <1>1, Start, PTL DEF Spec

\* Whatever the threads do, and in whatever order they take the mutex: the
\* state is well formed, no count of responses passes what was received, and
\* only the thread that holds statistics.mutex is between reading and writing
\* the statistics (sample_rate, wrk.c).
THEOREM StatisticsTypes == Spec => []TypeOK
<1>1. Inv => TypeOK
  <2> SUFFICES ASSUME Inv PROVE TypeOK
    OBVIOUS
  <2>1. Base /\ CountInv /\ LatencyInv /\ SampleInv /\ ReportInv
    BY DEF Inv
  <2>2. complete \in [Thread -> 0..MaxResponses] /\ requests \in [Thread -> 0..MaxResponses]
    BY <2>1, CountsBounded
  <2>3. latency_histogram \in [Thread -> Histogram] /\ u_latency_histogram \in [Thread -> Histogram]
    BY <2>1 DEF LatencyInv, Filled
  <2>4. /\ rate \in [Thread -> 0..MaxResponses] /\ loaded \in [Thread -> Stats]
        /\ mutex \in 0..Threads /\ statistics \in Stats
        /\ \A t \in Thread : sampling[t] \in {"load", "store"} => mutex = t
    BY <2>1 DEF SampleInv, Sampled
  <2>5. report.complete \in Nat /\ report.latency \in Histogram /\ report.u_latency \in Histogram
    BY <2>1 DEF ReportInv
  <2> QED
    BY <2>1, <2>2, <2>3, <2>4, <2>5 DEF TypeOK, Base
<1> QED
  BY <1>1, Always, PTL

\* The counts of every histogram make up its total, for every range,
\* precision and width of a word that hdr_init can be called with: what
\* hdr_record_values, hdr_reset and hdr_add do keeps it, so the iterators,
\* which run until the total is reached, end (hdr_histogram.c).
THEOREM HistogramsAddUp == Spec => []IteratorsEnd
<1>1. Inv => IteratorsEnd
  BY DEF Inv, LatencyInv, Filled, SampleInv, Sampled, ReportInv, Gathered, Keeps, IteratorsEnd
<1> QED
  BY <1>1, Always, PTL

\* Each histogram of each thread holds exactly the latencies the thread has
\* recorded since calibrate reset it, each at the place whose values begin
\* at or below it: what counts_index computes by shifts is the place that the
\* iterator reports (hdr_record_value, counts_index_for, hdr_iter_next).
THEOREM LatenciesAreCounted == Spec => []CountedWhereItBelongs
<1>1. Inv => CountedWhereItBelongs
  <2> SUFFICES ASSUME Inv, NEW t \in Thread
               PROVE  Holds(latency_histogram[t], seen[t]) /\ Holds(u_latency_histogram[t], u_seen[t])
    BY DEF CountedWhereItBelongs
  <2>1. Keeps(latency_histogram[t], seen[t]) /\ Keeps(u_latency_histogram[t], u_seen[t])
    BY DEF Inv, LatencyInv, Filled
  <2> QED
    BY <2>1, HoldsCounts DEF Keeps
<1> QED
  BY <1>1, Always, PTL

\* No rate is lost when threads take samples at once: whenever the mutex is
\* free the shared statistics hold every rate recorded so far and their
\* extremes, for every number of threads (sample_rate, stats_record).
THEOREM SamplesAreCounted == Spec => []EverySampleCounted
<1>1. Inv => EverySampleCounted
  <2> SUFFICES ASSUME Inv PROVE EverySampleCounted
    OBVIOUS
  <2> DEFINE rates == {r \in DOMAIN sampled : sampled[r] > 0}
  <2>1. Sampled(statistics, sampled)
    BY DEF Inv, SampleInv
  <2>2. Holds(statistics.histogram, sampled)
    BY <2>1, HoldsCounts DEF Sampled, Keeps
  <2>3. rates \subseteq Int
    BY <2>1 DEF Sampled
  <2>4. /\ rates # {} => statistics.min \in rates /\ statistics.max \in rates
        /\ \A r \in rates : statistics.min <= r /\ statistics.max >= r
    BY <2>1, <2>3 DEF Sampled, Extremes, Stats
  <2>5. rates # {} => statistics.min = Min(rates) /\ statistics.max = Max(rates)
    <3> HIDE DEF rates
    <3> QED
      BY <2>3, <2>4, MinIs
  <2> QED
    BY <2>2, <2>5 DEF EverySampleCounted
<1> QED
  BY <1>1, Always, PTL

\* The report of main is of every response and every latency of every
\* thread, for any number of threads and in whatever order they end: hdr_add
\* puts each value of a thread's histogram where the thread had it.
THEOREM ReportAddsUp == Spec => []ReportIsSum
<1>1. Inv => ReportIsSum
  <2> SUFFICES ASSUME Inv, main = "report"
               PROVE  /\ report.complete = SumFunction(complete)
                      /\ Holds(report.latency, AllOf(seen)) /\ Holds(report.u_latency, AllOf(u_seen))
    BY DEF ReportIsSum
  <2>1. Added = Thread
    BY DEF Added
  <2>2. DOMAIN complete = Thread
    BY DEF Inv, CountInv
  <2>3. report.complete = SumFunction(complete)
    BY <2>1, <2>2 DEF Inv, ReportInv, SumFunction
  <2>4. /\ Filled(latency_histogram, seen) /\ Gathered(report.latency, latency_histogram, Thread)
        /\ Filled(u_latency_histogram, u_seen)
        /\ Gathered(report.u_latency, u_latency_histogram, Thread)
    BY <2>1 DEF Inv, LatencyInv, ReportInv
  <2>5. Keeps(report.latency, AllOf(seen)) /\ Keeps(report.u_latency, AllOf(u_seen))
    BY <2>4, AllGathered
  <2> QED
    BY <2>3, <2>5, HoldsCounts DEF Keeps
<1> QED
  BY <1>1, Always, PTL

\* No percentile of the report is above the one corrected for coordinated
\* omission, for any number of threads and any histogram: both histograms of
\* a thread take a latency of the same responses and are reset together
\* (response_complete, calibrate), and what hdr_value_at_percentile makes of
\* them, by ranks and ranges of places, keeps the order.
THEOREM CorrectedIsGreater == Spec => []CorrectedDominates
<1>1. Inv => CorrectedDominates
  <2> SUFFICES ASSUME Inv, main = "report", NEW p \in Percentiles
               PROVE  hdr_value_at_percentile(report.u_latency, p)
                        <= hdr_value_at_percentile(report.latency, p)
    BY DEF CorrectedDominates
  <2>1. Added = Thread
    BY DEF Added
  <2>2. Gathered(report.latency, latency_histogram, Thread)
        /\ Gathered(report.u_latency, u_latency_histogram, Thread)
    BY <2>1 DEF Inv, ReportInv
  <2>3. /\ latency_histogram \in [Thread -> Histogram] /\ u_latency_histogram \in [Thread -> Histogram]
        /\ \A t \in Thread : Consistent(latency_histogram[t]) /\ Consistent(u_latency_histogram[t])
    BY DEF Inv, LatencyInv, Filled, Keeps
  <2>4. \A t \in Thread : Dominates(latency_histogram[t], u_latency_histogram[t])
    BY DEF Inv, DominanceInv
  <2>5. Dominates(report.latency, report.u_latency)
    BY <2>2, <2>3, <2>4, GatheredDominates
  <2> QED
    BY <2>2, <2>5, PercentilesDominate DEF Gathered
<1> QED
  BY <1>1, Always, PTL

\* Every figure main reads from the histogram of the report is right for the
\* latencies that were seen, whatever the threads did and for every range and
\* precision: a percentile is a latency of that rank within the precision
\* (hdr_value_at_percentile), the extremes begin the places of the least and
\* the greatest one (hdr_min, hdr_max), and the share around the mean counts
\* what lies inside (stats_within_stdev).  Every hdr_init of wrk has 1 as the
\* lowest trackable value; a greater one makes the unit coarser, and the least
\* latencies lose their figures.
THEOREM ReportIsOfTheSeen ==
    ASSUME lowest_trackable_value = 1
    PROVE  Spec => []ReportDescribesTheSeen
<1>1. Inv => ReportDescribesTheSeen
  <2>1. CASE main # "report"
    BY <2>1 DEF ReportDescribesTheSeen, PercentilesOfTheSeen, ExtremesOfTheSeen, WithinCountsTheInside
  <2>2. ASSUME Inv, main = "report" PROVE ReportDescribesTheSeen
    <3>1. Added = Thread
      BY <2>2 DEF Added
    <3>2. Filled(latency_histogram, seen) /\ Gathered(report.latency, latency_histogram, Thread)
      BY <2>2, <3>1 DEF Inv, LatencyInv, ReportInv
    <3>3. Keeps(report.latency, AllOf(seen))
      BY <3>2, AllGathered
    <3> QED
      BY <3>3, KeptDescribes
  <2> QED
    BY <2>1, <2>2
<1> QED
  BY <1>1, Always, PTL

=============================================================================
