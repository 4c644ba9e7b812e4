-------------------------- MODULE HttpStreamProofs --------------------------
(***************************************************************************)
(* What the parser reports of the responses of a stream: proofs about      *)
(* HttpParser.  The machine that the parser follows (HttpParserProofs) is  *)
(* run over the bytes of a header, of the headers, of a body, of a         *)
(* response and of all that the server sends; so it is known what it is at *)
(* the end of each response, and what the parser has completed.            *)
(***************************************************************************)
EXTENDS HttpParserProofs

-----------------------------------------------------------------------------
(* Texts that are put together.                                             *)

\* Texts one after the other, as a fold.
CatFn == [a \in Seq(Symbols) |-> [b \in Seq(Symbols) |-> a \o b]]
Flat(ss) == Fold(CatFn, <<>>, ss)
Texts == Seq(Seq(Symbols))

LEMMA FlatType == \A ss \in Texts : Flat(ss) \in Seq(Symbols)
<1>1. \A a \in Seq(Symbols) : \A b \in Seq(Symbols) : CatFn[a][b] \in Seq(Symbols)
  BY ConcatIs DEF CatFn
<1>2. <<>> \in Seq(Symbols)
  OBVIOUS
<1> QED
  BY <1>1, <1>2, FoldIn DEF Flat, Texts

LEMMA FlatEmpty == Flat(<<>>) = <<>>
BY FoldEmpty DEF Flat

LEMMA FlatAppend ==
    ASSUME NEW ss \in Texts, NEW s \in Seq(Symbols)
    PROVE  Flat(Append(ss, s)) = Flat(ss) \o s
<1>1. Flat(Append(ss, s)) = CatFn[Flat(ss)][s]
  BY FoldAppend DEF Flat, Texts
<1>2. Flat(ss) \in Seq(Symbols)
  BY FlatType
<1> QED
  BY <1>1, <1>2 DEF CatFn

\* FlattenSeq is this fold.
LEMMA FlatTrace ==
    ASSUME NEW ss \in Texts, NEW k \in 1..Len(ss)
    PROVE  /\ Trace(CatFn, <<>>, ss)[k] \in Seq(Symbols)
           /\ Trace(CatFn, <<>>, ss)[k] =
                 IF k = 1 THEN ss[k] ELSE Trace(CatFn, <<>>, ss)[k - 1] \o ss[k]
<1> DEFINE t == Trace(CatFn, <<>>, ss)
<1>1. Len(ss) \in Nat /\ k \in Nat /\ k # 0 /\ k \in 0..Len(ss) /\ k - 1 \in 0..Len(ss) /\ ss[k] \in Seq(Symbols)
  BY DEF Texts
<1>2. Solves(CatFn, <<>>, ss, t)
  BY TraceSolves DEF Texts
<1>3. t[k] = CatFn[t[k - 1]][ss[k]] /\ t[0] = <<>>
  BY <1>1, <1>2 DEF Solves
<1>4. ASSUME NEW j \in 0..Len(ss) PROVE t[j] \in Seq(Symbols)
  <2>1. Fold(CatFn, <<>>, Upto(ss, j)) = t[j]
    BY FoldPrefix DEF Texts
  <2>2. Upto(ss, j) \in Texts
    BY PrefixIs DEF Texts
  <2> HIDE DEF t
  <2> QED
    BY <2>1, <2>2, FlatType DEF Flat
<1>5. t[k - 1] \in Seq(Symbols) /\ t[k] \in Seq(Symbols)
  BY <1>1, <1>4
<1> HIDE DEF t
<1>6. t[k] = t[k - 1] \o ss[k]
  BY <1>1, <1>3, <1>5 DEF CatFn
<1>7. k = 1 => t[k] = ss[k]
  <2>1. k = 1 => t[k - 1] = <<>>
    <3>1. k = 1 => k - 1 = 0
      OBVIOUS
    <3> QED
      BY <1>3, <3>1
  <2>2. PICK e : e = t[k - 1]
    OBVIOUS
  <2>3. t[k] = e \o ss[k] /\ (k = 1 => e = <<>>)
    BY <1>6, <2>1, <2>2
  <2>4. <<>> \o ss[k] = ss[k]
    BY <1>1, ConcatIs
  <2> QED
    BY <2>3, <2>4
<1> QED
  BY <1>5, <1>6, <1>7 DEF t

LEMMA FlattenIs ==
    ASSUME NEW ss \in Texts
    PROVE  FlattenSeq(ss) = Flat(ss)
<1>1. CASE Len(ss) = 0
  <2>1. ss = <<>>
    BY <1>1 DEF Texts
  <2> QED
    BY <1>1, <2>1, FlatEmpty DEF FlattenSeq
<1>2. CASE Len(ss) # 0
  <2> DEFINE n == Len(ss)
             Sol(f) == f = [i \in 1..n |-> IF i = 1 THEN ss[i] ELSE f[i - 1] \o ss[i]]
             fl == CHOOSE f : Sol(f)
             t == Trace(CatFn, <<>>, ss)
             g == [i \in 1..n |-> t[i]]
  <2>1. n \in Nat \ {0} /\ Flat(ss) = t[n]
    BY <1>2 DEF Texts, Flat, Fold
  <2>2. FlattenSeq(ss) = fl[n]
    BY <1>2 DEF FlattenSeq
  <2>3. \A i \in 1..n : t[i] = IF i = 1 THEN ss[i] ELSE t[i - 1] \o ss[i]
    BY FlatTrace
  <2> HIDE DEF n, t
  <2>4. ASSUME NEW i \in 1..n PROVE g[i] = IF i = 1 THEN ss[i] ELSE g[i - 1] \o ss[i]
    <3>1. i # 1 => i - 1 \in 1..n
      BY <2>1
    <3> QED
      BY <2>3, <3>1
  <2>5. Sol(g)
    <3>1. g = [i \in 1..n |-> g[i]]
      OBVIOUS
    <3> HIDE DEF g
    <3> QED
      BY <2>4, <3>1
  <2>6. Sol(fl)
    <3> HIDE DEF Sol, g
    <3> QED
      BY <2>5
  <2> HIDE DEF fl
  <2>7. \A i \in 1..n : fl[i] = IF i = 1 THEN ss[i] ELSE fl[i - 1] \o ss[i]
    BY <2>6
  <2> HIDE DEF Sol
  <2> DEFINE Bad == {i \in 1..n : fl[i] # t[i]}
  <2>8. Bad = {}
    <3> SUFFICES ASSUME Bad # {} PROVE FALSE
      OBVIOUS
    <3>1. Bad \subseteq Nat
      OBVIOUS
    <3>2. PICK i \in Bad : \A j \in Bad : i <= j
      <4> HIDE DEF Bad
      <4> QED
        BY <3>1, NatMin
    <3>3. i \in 1..n /\ fl[i] # t[i]
      BY <3>2
    <3>4. i # 1
      BY <2>3, <2>7, <3>3
    <3>5. i - 1 \in 1..n /\ ~(i <= i - 1)
      BY <2>1, <3>3, <3>4
    <3>6. fl[i - 1] = t[i - 1]
      BY <3>2, <3>5
    <3> QED
      BY <2>3, <2>7, <3>3, <3>4, <3>6
  <2> QED
    BY <2>1, <2>2, <2>8
<1> QED
  BY <1>1, <1>2

\* The texts of the elements of a sequence.
Mapped(F, s) == [i \in 1..Len(s) |-> F[s[i]]]
Blocks(F, s) == Flat(Mapped(F, s))

LEMMA MapIs ==
    ASSUME NEW T, NEW F, \A x \in T : F[x] \in Seq(Symbols), NEW s \in Seq(T)
    PROVE  /\ Mapped(F, s) \in Texts /\ Len(Mapped(F, s)) = Len(s) /\ Blocks(F, s) \in Seq(Symbols)
           /\ \A g : (g = [i \in 1..Len(s) |-> F[s[i]]]) => FlattenSeq(g) = Blocks(F, s)
<1>1. Len(s) \in Nat /\ \A i \in 1..Len(s) : s[i] \in T
  OBVIOUS
<1>2. Mapped(F, s) \in Texts /\ Len(Mapped(F, s)) = Len(s)
  BY <1>1 DEF Mapped, Texts
<1>3. Blocks(F, s) \in Seq(Symbols)
  BY <1>2, FlatType DEF Blocks
<1> QED
  BY <1>2, <1>3, FlattenIs DEF Blocks, Mapped

\* No texts, and one more.
LEMMA BlocksEmpty == ASSUME NEW F PROVE Blocks(F, <<>>) = <<>>
<1>1. Mapped(F, <<>>) = <<>>
  BY DEF Mapped
<1> QED
  BY <1>1, FlatEmpty DEF Blocks

LEMMA MapAppend ==
    ASSUME NEW T, NEW F, \A x \in T : F[x] \in Seq(Symbols), NEW s \in Seq(T), NEW c \in T
    PROVE  Mapped(F, Append(s, c)) = Append(Mapped(F, s), F[c])
<1>1. PICK w : w = Append(s, c)
  OBVIOUS
<1>2. PICK n : n = Len(s)
  OBVIOUS
<1>3. w \in Seq(T) /\ Len(w) = n + 1 /\ n \in Nat /\ w[n + 1] = c /\ \A k \in 1..n : w[k] = s[k]
  BY <1>1, <1>2, AppendIs
<1>4. PICK a : a = Mapped(F, s)
  OBVIOUS
<1>5. a \in Seq(Seq(Symbols)) /\ Len(a) = n /\ a = [i \in 1..n |-> F[s[i]]]
  <2>1. Mapped(F, s) \in Texts /\ Len(Mapped(F, s)) = Len(s)
    BY MapIs
  <2>2. Mapped(F, s) = [i \in 1..n |-> F[s[i]]]
    BY <1>2 DEF Mapped
  <2> QED
    BY <1>2, <1>4, <2>1, <2>2 DEF Texts
<1>6. PICK y : y = F[c]
  OBVIOUS
<1>7. PICK b : b = Append(a, y)
  OBVIOUS
<1>14. y \in Seq(Symbols)
  BY <1>6
<1>8. b \in Seq(Seq(Symbols)) /\ Len(b) = n + 1 /\ b[n + 1] = y /\ \A k \in 1..n : b[k] = a[k]
  <2>1. a \in Seq(Seq(Symbols)) /\ Len(a) = n
    BY <1>5
  <2> QED
    BY <2>1, <1>14, <1>7, AppendIs
<1>9. Mapped(F, w) = [i \in 1..n + 1 |-> F[w[i]]]
  BY <1>3 DEF Mapped
<1>10. b = [i \in 1..n + 1 |-> b[i]]
  BY <1>8
<1>11. ASSUME NEW i \in 1..n + 1 PROVE b[i] = F[w[i]]
  <2>1. CASE i = n + 1
    BY <2>1, <1>6, <1>8, <1>3
  <2>2. CASE i # n + 1
    <3>1. i \in 1..n
      BY <2>2, <1>3
    <3>2. b[i] = a[i] /\ w[i] = s[i]
      BY <3>1, <1>3, <1>8
    <3>3. a[i] = F[s[i]]
      BY <3>1, <1>5
    <3> QED
      BY <3>2, <3>3
  <2> QED
    BY <2>1, <2>2
<1>12. Mapped(F, w) = b
  BY <1>9, <1>10, <1>11
<1> QED
  BY <1>1, <1>4, <1>6, <1>7, <1>12

LEMMA BlocksAppend ==
    ASSUME NEW T, NEW F, \A x \in T : F[x] \in Seq(Symbols), NEW s \in Seq(T), NEW c \in T
    PROVE  Blocks(F, Append(s, c)) = Blocks(F, s) \o F[c]
<1>1. PICK a : a = Mapped(F, s)
  OBVIOUS
<1>2. PICK y : y = F[c]
  OBVIOUS
<1>3. a \in Texts /\ y \in Seq(Symbols)
  <2>1. Mapped(F, s) \in Texts
    BY MapIs
  <2> QED
    BY <1>1, <1>2, <2>1
<1>4. Mapped(F, Append(s, c)) = Append(a, y)
  BY <1>1, <1>2, MapAppend
<1>5. Flat(Append(a, y)) = Flat(a) \o y
  BY <1>3, FlatAppend
<1> QED
  BY <1>1, <1>2, <1>4, <1>5 DEF Blocks

\* What every text preserves is preserved by all of them.
LEMMA BlocksRun ==
    ASSUME NEW T, NEW F, \A x \in T : F[x] \in Seq(Symbols),
           NEW S, S \subseteq Machines, \A m \in S : \A c \in T : After(m, F[c]) \in S,
           NEW m \in S
    PROVE  \A s \in Seq(T) : After(m, Blocks(F, s)) \in S
<1> DEFINE G == {s \in Seq(T) : After(m, Blocks(F, s)) \in S}
<1>1. <<>> \in G
  <2>1. After(m, Blocks(F, <<>>)) = m
    BY BlocksEmpty, AfterEmpty
  <2> QED
    BY <2>1
<1>2. ASSUME NEW s \in Seq(T), NEW c \in T, s \in G PROVE Append(s, c) \in G
  <2>1. PICK a : a = Blocks(F, s)
    OBVIOUS
  <2>2. a \in Seq(Symbols) /\ F[c] \in Seq(Symbols) /\ After(m, a) \in S
    BY <1>2, <2>1, MapIs
  <2>3. After(m, a \o F[c]) = After(After(m, a), F[c])
    BY <2>2, AfterConcat
  <2>4. After(m, a \o F[c]) \in S
    BY <2>2, <2>3
  <2>5. Append(s, c) \in Seq(T)
    BY AppendIs
  <2>6. Blocks(F, Append(s, c)) = a \o F[c]
    BY <2>1, BlocksAppend
  <2> QED
    BY <2>4, <2>5, <2>6
<1> HIDE DEF G
<1>3. \A s \in Seq(T) : s \in G
  BY <1>1, <1>2, SeqInduction
<1> QED
  BY <1>3 DEF G

\* Parts with a separator between them.
LEMMA JoinedEmpty == ASSUME NEW sep PROVE Joined(<<>>, sep) = <<>>
BY DEF Joined, FlattenSeq

JoinedTexts(ps, sep) == [i \in 1..Len(ps) |-> IF i = 1 THEN ps[1] ELSE sep \o ps[i]]
LEMMA JoinedType ==
    ASSUME NEW sep \in Seq(Symbols), NEW ps \in Texts
    PROVE  /\ JoinedTexts(ps, sep) \in Texts /\ Len(JoinedTexts(ps, sep)) = Len(ps)
           /\ Joined(ps, sep) \in Seq(Symbols) /\ Joined(ps, sep) = Flat(JoinedTexts(ps, sep))
<1>1. Len(ps) \in Nat /\ \A i \in 1..Len(ps) : ps[i] \in Seq(Symbols)
  BY DEF Texts
<1>2. \A i \in 1..Len(ps) : (IF i = 1 THEN ps[1] ELSE sep \o ps[i]) \in Seq(Symbols)
  <2> TAKE i \in 1..Len(ps)
  <2>1. sep \o ps[i] \in Seq(Symbols)
    BY <1>1, ConcatIs
  <2> QED
    BY <1>1, <2>1
<1>3. JoinedTexts(ps, sep) \in Texts /\ Len(JoinedTexts(ps, sep)) = Len(ps)
  BY <1>1, <1>2 DEF JoinedTexts, Texts
<1> QED
  BY <1>3, FlattenIs, FlatType DEF Joined, JoinedTexts

\* A part more.
LEMMA JoinedAppend ==
    ASSUME NEW sep \in Seq(Symbols), NEW ps \in Texts, NEW q \in Seq(Symbols)
    PROVE  Joined(Append(ps, q), sep) = IF ps = <<>> THEN q ELSE Joined(ps, sep) \o (sep \o q)
<1>1. PICK w : w = Append(ps, q)
  OBVIOUS
<1>2. PICK n : n = Len(ps)
  OBVIOUS
<1>3. w \in Texts /\ Len(w) = n + 1 /\ n \in Nat /\ w[n + 1] = q /\ \A k \in 1..n : w[k] = ps[k]
  BY <1>1, <1>2, AppendIs DEF Texts
<1>4. PICK x : x = IF ps = <<>> THEN q ELSE sep \o q
  OBVIOUS
<1>5. x \in Seq(Symbols) /\ (n = 0 <=> ps = <<>>)
  BY <1>2, <1>4, ConcatIs DEF Texts
<1>6. PICK a : a = JoinedTexts(ps, sep)
  OBVIOUS
<1>7. a \in Seq(Seq(Symbols)) /\ Len(a) = n /\ \A i \in 1..n : a[i] = IF i = 1 THEN ps[1] ELSE sep \o ps[i]
  BY <1>2, <1>6, JoinedType DEF JoinedTexts, Texts
<1>8. PICK b : b = Append(a, x)
  OBVIOUS
<1>9. b \in Seq(Seq(Symbols)) /\ Len(b) = n + 1 /\ b[n + 1] = x /\ \A k \in 1..n : b[k] = a[k]
  BY <1>5, <1>7, <1>8, AppendIs
<1>10. ASSUME NEW i \in 1..n + 1 PROVE b[i] = IF i = 1 THEN w[1] ELSE sep \o w[i]
  <2>1. CASE i = n + 1
    <3>1. b[i] = x /\ w[i] = q /\ (i = 1 <=> ps = <<>>)
      BY <2>1, <1>3, <1>5, <1>9
    <3> QED
      BY <3>1, <1>4
  <2>2. CASE i # n + 1
    <3>1. i \in 1..n /\ 1 \in 1..n
      BY <2>2, <1>3
    <3>2. b[i] = a[i] /\ w[i] = ps[i] /\ w[1] = ps[1]
      BY <3>1, <1>3, <1>9
    <3> QED
      BY <3>1, <3>2, <1>7
  <2> QED
    BY <2>1, <2>2
<1>11. JoinedTexts(w, sep) = b
  <2>1. JoinedTexts(w, sep) = [i \in 1..n + 1 |-> IF i = 1 THEN w[1] ELSE sep \o w[i]]
    BY <1>3 DEF JoinedTexts
  <2>2. b = [i \in 1..n + 1 |-> b[i]]
    BY <1>9
  <2> QED
    BY <2>1, <2>2, <1>10
<1>12. Flat(b) = Flat(a) \o x
  BY <1>5, <1>7, <1>8, FlatAppend DEF Texts
<1>13. Joined(w, sep) = Joined(ps, sep) \o x
  BY <1>3, <1>6, <1>11, <1>12, JoinedType
<1>14. CASE ps = <<>>
  <2>1. Joined(ps, sep) = <<>> /\ <<>> \o x = x
    BY <1>14, <1>5, JoinedEmpty, ConcatIs
  <2> QED
    BY <1>1, <1>4, <1>13, <1>14, <2>1
<1>15. CASE ps # <<>>
  BY <1>1, <1>4, <1>13, <1>15
<1> QED
  BY <1>14, <1>15

-----------------------------------------------------------------------------
(* Numbers.                                                                 *)

\* Numbers and their digits.
LEMMA Division ==
    ASSUME NEW n \in Nat
    PROVE  /\ n \div Base \in Nat /\ n % Base \in 0..Base - 1 /\ n = (n \div Base) * Base + (n % Base)
           /\ n >= Base => n \div Base < n /\ n \div Base >= 1
<1>1. CASE Base = 2
  BY <1>1
<1>2. CASE Base = 3
  BY <1>2
<1>3. CASE Base = 4
  BY <1>3
<1> QED
  BY <1>1, <1>2, <1>3, NumbersAssumption

\* A number that has room has it for each of its digits.
LEMMA Room ==
    ASSUME NEW q \in Nat
    PROVE  /\ q < Largest \div Base => Fits(q)
           /\ q = Largest \div Base => ~Fits(q) /\ HasRoom(q) /\ q >= Base
           /\ \A n \in Nat : HasRoom(n) /\ q = n \div Base => q < Largest \div Base
           /\ \A n \in Nat : HasRoom(n) /\ q <= n => HasRoom(q)
           /\ HasRoom(q) => q < Largest
<1>1. CASE Base = 2
  BY <1>1, NumbersAssumption DEF Fits, HasRoom
<1>2. CASE Base = 3
  BY <1>2, NumbersAssumption DEF Fits, HasRoom
<1>3. CASE Base = 4
  BY <1>3, NumbersAssumption DEF Fits, HasRoom
<1> QED
  BY <1>1, <1>2, <1>3, NumbersAssumption

\* Digits as symbols, and back.
LEMMA NumeralDigit ==
    ASSUME NEW d \in 0..Base - 1
    PROVE  Numerals[d + 1] \in Digits /\ Digit(Numerals[d + 1]) = d
<1>1. Base \in 2..4 /\ d \in 0..3 /\ d + 1 \in 1..Base
  BY NumbersAssumption
<1>2. Numerals[d + 1] \in Digits
  BY <1>1 DEF Digits
<1>3. \A a \in 0..3 : \A b \in 0..3 : Numerals[a + 1] = Numerals[b + 1] => a = b
  BY DEF Numerals
<1>4. \A a \in 0..Base - 1 : Numerals[a + 1] = Numerals[d + 1] => a = d
  BY <1>1, <1>3
<1> HIDE DEF Numerals
<1>5. PICK c : c = Numerals[d + 1]
  OBVIOUS
<1>6. \E a \in 0..Base - 1 : Numerals[a + 1] = c
  BY <1>5
<1>7. Digit(c) \in 0..Base - 1 /\ Numerals[Digit(c) + 1] = c
  BY <1>6 DEF Digit
<1> QED
  BY <1>2, <1>4, <1>5, <1>7

LastDigit(n) == Numerals[(n % Base) + 1]
NumeralFrom(f, n) == IF n < Base THEN <<Numerals[n + 1]>> ELSE Append(f[n \div Base], LastDigit(n))

\* There is a function that satisfies the equation of Numeral up to a number.
NumeralTo(f, k) == f = [n \in 0..k |-> NumeralFrom(f, n)]
LEMMA NumeralEq ==
    ASSUME NEW f, NEW k \in Nat, NumeralTo(f, k) PROVE \A n \in 0..k : f[n] = NumeralFrom(f, n)
BY DEF NumeralTo

\* There is such a function for every number.
LEMMA NumeralToExists ==
    \A k \in Nat : \E f : NumeralTo(f, k)
<1> DEFINE Bad == {k \in Nat : ~\E f : NumeralTo(f, k)}
<1>1. SUFFICES ASSUME Bad # {} PROVE FALSE
  OBVIOUS
<1>2. PICK k \in Bad : \A j \in Bad : k <= j
  <2>1. Bad \subseteq Nat
    OBVIOUS
  <2> HIDE DEF Bad
  <2> QED
    BY <1>1, <2>1, NatMin
<1>3. k \in Nat /\ ~\E f : NumeralTo(f, k)
  BY <1>2
<1>4. \E g : \A n \in 0..k - 1 : g[n] = NumeralFrom(g, n)
  <2>1. CASE k = 0
    BY <2>1
  <2>2. CASE k # 0
    <3>1. k - 1 \in Nat /\ ~(k <= k - 1)
      BY <1>3, <2>2
    <3>2. PICK g : NumeralTo(g, k - 1)
      BY <1>2, <3>1
    <3> QED
      BY <3>1, <3>2, NumeralEq
  <2> QED
    BY <2>1, <2>2
<1>5. PICK g : \A n \in 0..k - 1 : g[n] = NumeralFrom(g, n)
  BY <1>4
<1> DEFINE f == [n \in 0..k |-> IF n = k THEN NumeralFrom(g, k) ELSE g[n]]
<1>6. ASSUME NEW n \in 0..k PROVE f[n] = NumeralFrom(f, n)
  <2>1. n >= Base => n \div Base \in 0..k - 1 /\ n \div Base \in 0..k /\ n \div Base # k
    BY <1>3, Division, NumbersAssumption
  <2>2. n >= Base => f[n \div Base] = g[n \div Base]
    BY <2>1
  <2>3. NumeralFrom(f, n) = NumeralFrom(g, n)
    <3>1. CASE n < Base
      BY <3>1 DEF NumeralFrom
    <3>2. CASE ~(n < Base)
      <4>1. n >= Base
        BY <3>2, <1>3, NumbersAssumption
      <4> HIDE DEF f
      <4> QED
        BY <4>1, <2>2, <3>2 DEF NumeralFrom
    <3> QED
      BY <3>1, <3>2
  <2>4. f[n] = NumeralFrom(g, n)
    <3>1. CASE n = k
      BY <3>1
    <3>2. CASE n # k
      <4>1. n \in 0..k - 1 /\ f[n] = g[n]
        BY <3>2, <1>3
      <4> QED
        BY <4>1, <1>5
    <3> QED
      BY <3>1, <3>2
  <2> QED
    BY <2>3, <2>4
<1>7. NumeralTo(f, k)
  <2>1. f = [n \in 0..k |-> f[n]]
    OBVIOUS
  <2> HIDE DEF f
  <2> QED
    BY <1>6, <2>1 DEF NumeralTo
<1> QED
  BY <1>3, <1>7

\* There is one only, so the recursion of Numeral has its solution (NumeralIs).
LEMMA NumeralSame ==
    ASSUME NEW j \in Nat, NEW k \in Nat, j <= k, NEW f, NEW g, NumeralTo(f, j), NumeralTo(g, k)
    PROVE  \A n \in 0..j : f[n] = g[n]
<1> DEFINE Bad == {n \in 0..j : f[n] # g[n]}
<1>1. SUFFICES ASSUME Bad # {} PROVE FALSE
  OBVIOUS
<1>2. PICK n \in Bad : \A i \in Bad : n <= i
  <2>1. Bad \subseteq Nat
    OBVIOUS
  <2> HIDE DEF Bad
  <2> QED
    BY <1>1, <2>1, NatMin
<1>3. n \in 0..j /\ f[n] # g[n] /\ n \in 0..k /\ n \in Nat
  BY <1>2
<1>4. f[n] = NumeralFrom(f, n) /\ g[n] = NumeralFrom(g, n)
  BY <1>3, NumeralEq
<1>5. CASE n < Base
  BY <1>3, <1>4, <1>5 DEF NumeralFrom
<1>6. CASE ~(n < Base)
  <2>1. n \div Base \in 0..j /\ n \div Base < n
    BY <1>3, <1>6, Division, NumbersAssumption
  <2>2. f[n \div Base] = g[n \div Base]
    BY <1>2, <1>3, <2>1
  <2> QED
    BY <1>3, <1>4, <1>6, <2>2 DEF NumeralFrom
<1> QED
  BY <1>5, <1>6

LEMMA NumeralIs ==
    ASSUME NEW n \in Nat
    PROVE  Numeral[n] = NumeralFrom(Numeral, n)
<1> DEFINE Best(k) == CHOOSE f : NumeralTo(f, k)
           g == [k \in Nat |-> Best(k)[k]]
           Sol(f) == f = [k \in Nat |-> IF k < Base THEN <<Numerals[k + 1]>>
                                        ELSE Append(f[k \div Base], Numerals[(k % Base) + 1])]
<1>1. ASSUME NEW k \in Nat PROVE NumeralTo(Best(k), k)
  <2>1. \E f : NumeralTo(f, k)
    BY NumeralToExists
  <2> HIDE DEF NumeralTo
  <2> QED
    BY <2>1
<1> HIDE DEF Best
<1>2. ASSUME NEW k \in Nat PROVE g[k] = NumeralFrom(g, k)
  <2>1. k \in 0..k /\ g[k] = Best(k)[k]
    OBVIOUS
  <2>2. g[k] = NumeralFrom(Best(k), k)
    BY <1>1, <2>1, NumeralEq
  <2>3. CASE k < Base
    BY <2>2, <2>3 DEF NumeralFrom
  <2>4. CASE ~(k < Base)
    <3>1. PICK j : j = k \div Base
      OBVIOUS
    <3>2. j \in Nat /\ j <= k /\ j \in 0..j
      BY <2>4, <3>1, Division, NumbersAssumption
    <3>3. NumeralTo(Best(j), j) /\ NumeralTo(Best(k), k)
      BY <1>1, <3>2
    <3>4. Best(j)[j] = Best(k)[j]
      BY <3>2, <3>3, NumeralSame
    <3>5. g[j] = Best(j)[j]
      BY <3>2
    <3> HIDE DEF g
    <3> QED
      BY <2>2, <2>4, <3>1, <3>4, <3>5 DEF NumeralFrom
  <2> QED
    BY <2>3, <2>4
<1>3. Sol(g)
  <2>1. g = [k \in Nat |-> g[k]]
    OBVIOUS
  <2> HIDE DEF g
  <2> QED
    BY <1>2, <2>1 DEF NumeralFrom, LastDigit
<1>4. Numeral = CHOOSE f : Sol(f)
  BY DEF Numeral
<1> HIDE DEF g
<1>5. Sol(Numeral)
  <2> HIDE DEF Sol
  <2> QED
    BY <1>3, <1>4
<1> QED
  BY <1>5 DEF NumeralFrom, LastDigit

LEMMA NumeralType ==
    \A n \in Nat : Numeral[n] \in Seq(Digits) /\ Numeral[n] # <<>>
<1> DEFINE Bad == {n \in Nat : ~(Numeral[n] \in Seq(Digits) /\ Numeral[n] # <<>>)}
<1>1. SUFFICES ASSUME Bad # {} PROVE FALSE
  OBVIOUS
<1>2. PICK n \in Bad : \A j \in Bad : n <= j
  <2>1. Bad \subseteq Nat
    OBVIOUS
  <2> HIDE DEF Bad
  <2> QED
    BY <1>1, <2>1, NatMin
<1>3. n \in Nat /\ ~(Numeral[n] \in Seq(Digits) /\ Numeral[n] # <<>>)
  BY <1>2
<1>4. Numeral[n] = NumeralFrom(Numeral, n)
  BY <1>3, NumeralIs
<1>5. CASE n < Base
  <2>1. n \in 0..Base - 1
    BY <1>3, <1>5, NumbersAssumption
  <2>2. Numerals[n + 1] \in Digits
    BY <2>1, NumeralDigit
  <2>3. <<Numerals[n + 1]>> \in Seq(Digits) /\ <<Numerals[n + 1]>> # <<>>
    BY <2>2
  <2> QED
    BY <1>3, <1>4, <1>5, <2>3 DEF NumeralFrom
<1>6. CASE ~(n < Base)
  <2>1. PICK q : q = n \div Base
    OBVIOUS
  <2>2. q \in Nat /\ q < n
    BY <1>3, <1>6, <2>1, Division, NumbersAssumption
  <2>3. ~(n <= q)
    BY <1>3, <2>2
  <2>4. Numeral[q] \in Seq(Digits)
    BY <1>2, <2>2, <2>3
  <2>5. LastDigit(n) \in Digits
    <3>1. n % Base \in 0..Base - 1
      BY <1>3, Division
    <3> QED
      BY <3>1, NumeralDigit DEF LastDigit
  <2>6. Append(Numeral[q], LastDigit(n)) \in Seq(Digits) /\ Append(Numeral[q], LastDigit(n)) # <<>>
    BY <2>4, <2>5
  <2> QED
    BY <1>3, <1>4, <1>6, <2>1, <2>6 DEF NumeralFrom
<1> QED
  BY <1>5, <1>6

LEMMA DigitSeq == Seq(Digits) \subseteq Seq(Symbols) /\ Seq(Digits) \subseteq Seq(ValueSymbols)
<1>1. Digits \subseteq Symbols /\ Digits \subseteq ValueSymbols
  BY TokensAre DEF ValueSymbols
<1> QED
  BY <1>1

\* L[q] is what a machine becomes that has read q.
Reads(m, L) ==
    /\ m \in Machines /\ \A q \in Nat : L[q] \in Machines
    /\ \A d \in 0..Base - 1 : Step(m, Numerals[d + 1]) = L[d]
    /\ \A q \in Nat : \A d \in 0..Base - 1 :
          IF Fits(q) THEN Step(L[q], Numerals[d + 1]) = L[q * Base + d]
          ELSE Step(L[q], Numerals[d + 1]) = Broken(L[q])

\* A machine that reads digits one by one has read the number, ...
LEMMA NumeralRun ==
    ASSUME NEW m, NEW L, Reads(m, L)
    PROVE  \A n \in Nat : HasRoom(n) \/ n < Base => After(m, Numeral[n]) = L[n]
<1> DEFINE Bad == {n \in Nat : ~(HasRoom(n) \/ n < Base => After(m, Numeral[n]) = L[n])}
<1>1. SUFFICES ASSUME Bad # {} PROVE FALSE
  OBVIOUS
<1>2. PICK n \in Bad : \A j \in Bad : n <= j
  <2>1. Bad \subseteq Nat
    OBVIOUS
  <2> HIDE DEF Bad
  <2> QED
    BY <1>1, <2>1, NatMin
<1>3. n \in Nat /\ (HasRoom(n) \/ n < Base) /\ After(m, Numeral[n]) # L[n]
  BY <1>2
<1>4. Numeral[n] = NumeralFrom(Numeral, n) /\ m \in Machines
  BY <1>3, NumeralIs DEF Reads
<1>5. CASE n < Base
  <2>1. n \in 0..Base - 1
    BY <1>3, <1>5, NumbersAssumption
  <2>2. PICK c : c = Numerals[n + 1]
    OBVIOUS
  <2>3. c \in Symbols /\ Step(m, c) = L[n]
    BY <2>1, <2>2, NumeralDigit, TokensAre DEF Reads
  <2>4. After(m, <<c>>) = L[n]
    BY <2>3, <1>4, AfterOne
  <2> QED
    BY <1>3, <1>4, <1>5, <2>2, <2>4 DEF NumeralFrom
<1>6. CASE ~(n < Base)
  <2>1. PICK q : q = n \div Base
    OBVIOUS
  <2>2. PICK d : d = n % Base
    OBVIOUS
  <2>3. q \in Nat /\ q < n /\ d \in 0..Base - 1 /\ n = q * Base + d
    BY <1>3, <1>6, <2>1, <2>2, Division, NumbersAssumption
  <2>4. Fits(q) /\ HasRoom(q)
    <3>1. q < Largest \div Base
      BY <1>3, <1>6, <2>1, <2>3, Room
    <3>2. q <= n
      BY <1>3, <2>3
    <3> QED
      BY <1>3, <1>6, <2>3, <3>1, <3>2, Room
  <2>5. ~(n <= q)
    BY <1>3, <2>3
  <2>6. After(m, Numeral[q]) = L[q]
    BY <1>2, <2>3, <2>4, <2>5
  <2>7. PICK c : c = Numerals[d + 1]
    OBVIOUS
  <2>8. c \in Symbols /\ Step(L[q], c) = L[q * Base + d]
    BY <2>3, <2>4, <2>7, NumeralDigit, TokensAre DEF Reads
  <2>9. Numeral[q] \in Seq(Symbols)
    BY <2>3, NumeralType, DigitSeq
  <2>10. After(m, Append(Numeral[q], c)) = L[n]
    BY <1>4, <2>3, <2>6, <2>8, <2>9, AfterAppend
  <2>11. Numeral[n] = Append(Numeral[q], c)
    BY <1>4, <1>6, <2>1, <2>2, <2>7 DEF NumeralFrom, LastDigit
  <2> QED
    BY <1>3, <2>10, <2>11
<1> QED
  BY <1>5, <1>6

\* ... or fails at the last digit of the one that is out of range.
LEMMA NumeralBreaks ==
    ASSUME NEW m, NEW L, Reads(m, L)
    PROVE  \E q \in Nat : After(m, Numeral[Largest]) = Broken(L[q])
<1>1. PICK q : q = Largest \div Base
  OBVIOUS
<1>2. PICK d : d = Largest % Base
  OBVIOUS
<1>3. Largest \in Nat /\ Largest >= Base /\ ~(Largest < Base)
  BY NumbersAssumption
<1>4. q \in Nat /\ d \in 0..Base - 1
  BY <1>1, <1>2, <1>3, Division
<1>5. ~Fits(q) /\ HasRoom(q)
  BY <1>1, <1>4, Room
<1>6. After(m, Numeral[q]) = L[q]
  BY <1>4, <1>5, NumeralRun
<1>7. PICK c : c = Numerals[d + 1]
  OBVIOUS
<1>8. c \in Symbols /\ Step(L[q], c) = Broken(L[q])
  BY <1>4, <1>5, <1>7, NumeralDigit, TokensAre DEF Reads
<1>9. Numeral[q] \in Seq(Symbols)
  BY <1>4, NumeralType, DigitSeq
<1>10. After(m, Append(Numeral[q], c)) = Broken(L[q])
  <2>1. m \in Machines
    BY DEF Reads
  <2> QED
    BY <2>1, <1>6, <1>8, <1>9, AfterAppend
<1>11. Numeral[Largest] = Append(Numeral[q], c)
  BY <1>1, <1>2, <1>3, <1>7, NumeralIs DEF NumeralFrom, LastDigit
<1> QED
  BY <1>4, <1>10, <1>11

Eols == {<<CR, LF>>, <<LF>>}
LEMMA ControlsAre == CR \in Symbols /\ LF \in Symbols /\ SP \in Symbols /\ SP \in ValueSymbols /\ Eols \subseteq Seq(Symbols)
<1>1. CR \in Symbols /\ LF \in Symbols /\ SP \in Symbols /\ SP \in ValueSymbols
  BY DEF Symbols, ValueSymbols
<1> HIDE DEF CR, LF, SP
<1>2. <<CR, LF>> \in Seq(Symbols) /\ <<LF>> \in Seq(Symbols)
  BY <1>1
<1> QED
  BY <1>1, <1>2 DEF Eols

\* Two symbols, and two texts.
LEMMA TwoIs ==
    ASSUME NEW T, NEW a \in T, NEW b \in T
    PROVE  Append(<<a>>, b) = <<a, b>> /\ <<a>> \o <<b>> = <<a, b>>
<1>1. PICK s : s = <<a>>
  OBVIOUS
<1>2. s \in Seq(T) /\ Len(s) = 1 /\ s[1] = a
  BY <1>1
<1>3. PICK w : w = Append(s, b)
  OBVIOUS
<1>4. w \in Seq(T) /\ Len(w) = 2 /\ w[1] = a /\ w[2] = b
  <2>1. PICK n : n = Len(s)
    OBVIOUS
  <2>2. w \in Seq(T) /\ Len(w) = n + 1 /\ w[n + 1] = b /\ \A k \in 1..n : w[k] = s[k]
    <3>1. s \in Seq(T)
      BY <1>2
    <3> QED
      BY <3>1, <1>3, <2>1, AppendIs
  <2>3. n = 1
    BY <1>2, <2>1
  <2> QED
    BY <1>2, <2>2, <2>3
<1>5. PICK v : v = <<a, b>>
  OBVIOUS
<1>6. v \in Seq(T) /\ Len(v) = 2 /\ v[1] = a /\ v[2] = b
  BY <1>5
<1>7. w = v
  <2>1. \A i \in 1..Len(w) : w[i] = v[i]
    BY <1>4, <1>6
  <2> QED
    BY <2>1, <1>4, <1>6, SeqEqual
<1>8. s \o <<b>> = w
  BY <1>2, <1>3, ConcatIs
<1> QED
  BY <1>1, <1>3, <1>5, <1>7, <1>8

LEMMA AfterTwo ==
    ASSUME NEW m \in Machines, NEW a \in Symbols, NEW b \in Symbols
    PROVE  After(m, <<a, b>>) = Step(Step(m, a), b)
<1>1. PICK s : s = <<a>>
  OBVIOUS
<1>2. s \in Seq(Symbols) /\ Append(s, b) = <<a, b>>
  <2>1. s \in Seq(Symbols)
    BY <1>1
  <2>2. Append(<<a>>, b) = <<a, b>>
    BY TwoIs
  <2> QED
    BY <1>1, <2>1, <2>2
<1>3. After(m, s) = Step(m, a)
  BY <1>1, AfterOne
<1>4. After(m, Append(s, b)) = Step(After(m, s), b)
  BY <1>2, AfterAppend
<1> QED
  BY <1>2, <1>3, <1>4

LEMMA AfterThen ==
    ASSUME NEW m \in Machines, NEW s \in Seq(Symbols), NEW t \in Seq(Symbols), NEW x, x = After(m, s)
    PROVE  After(m, s \o t) = After(x, t) /\ x \in Machines /\ s \o t \in Seq(Symbols)
BY AfterConcat, AfterType, ConcatIs

LEMMA AfterBoth ==
    ASSUME NEW m \in Machines, NEW s \in Seq(Symbols), NEW t \in Seq(Symbols)
    PROVE  After(m, s \o t) = After(After(m, s), t) /\ After(m, s) \in Machines /\ s \o t \in Seq(Symbols)
BY AfterConcat, AfterType, ConcatIs

LEMMA ToTo ==
    ASSUME NEW m \in Machines, NEW s \in ParserStates, NEW t
    PROVE  /\ To(To(m, s), t) = To(m, t) /\ To(m, s).state = s /\ To(m, s) \in Machines
           /\ To(m, s).failed = m.failed /\ To(m, s).closed = m.closed /\ To(m, s).h = m.h
           /\ To(m, s).flags = m.flags /\ To(m, s).length = m.length /\ To(m, s).start = m.start
           /\ To(m, s).done = m.done
<1>1. To(m, s) \in Machines
  BY ToType
<1>2. To(To(m, s), t) = To(m, t)
  BY DEF To, Machines
<1> QED
  BY <1>1, <1>2 DEF To, Machines

-----------------------------------------------------------------------------
(* Headers.                                                                 *)

\* The machine is at the beginning of a line of headers: or so it is when it
\* has found that the last header does not go on.
Line(m) == IF m.state = "s_header_field_start" THEN m ELSE Flagged(m)
AtLine(m, F, n, t, d) ==
    /\ m \in Machines /\ ~m.failed /\ ~m.closed /\ m.done = d /\ m.start = t /\ m.length = n
    /\ \/ m.state = "s_header_field_start" /\ m.flags = F
       \/ /\ m.state \in {"s_header_value_lws", "s_header_value_discard_lws"}
          /\ m.flags \cup FlagOf(m.h) = F

LEMMA LineIs ==
    ASSUME NEW m, NEW F, NEW n, NEW t, NEW d, AtLine(m, F, n, t, d)
    PROVE  /\ AtLine(Line(m), F, n, t, d) /\ Line(m).state = "s_header_field_start" /\ Line(m).flags = F
           /\ Line(m) \in Machines /\ ~Line(m).failed /\ ~Line(m).closed
           /\ Line(m).done = d /\ Line(m).start = t /\ Line(m).length = n
           /\ \A c : c # SP => Step(m, c) = OnFieldStart(Line(m), c)
<1>1. CASE m.state = "s_header_field_start"
  <2>1. Line(m) = m
    BY <1>1 DEF Line
  <2>2. \A c : Step(m, c) = OnFieldStart(m, c)
    BY <1>1 DEF Step, AtLine
  <2>3. m.flags = F
    BY <1>1 DEF AtLine
  <2> QED
    BY <1>1, <2>1, <2>2, <2>3 DEF AtLine
<1>2. CASE m.state # "s_header_field_start"
  <2>1. Line(m) = Flagged(m) /\ Flagged(m) \in Machines
    BY <1>2, FlaggedType DEF Line, AtLine
  <2>2. m.flags \cup FlagOf(m.h) = F /\ m.state \in {"s_header_value_lws", "s_header_value_discard_lws"}
    BY <1>2 DEF AtLine
  <2>3. /\ Flagged(m).state = "s_header_field_start" /\ Flagged(m).flags = F /\ Flagged(m).failed = m.failed
        /\ Flagged(m).closed = m.closed /\ Flagged(m).done = m.done /\ Flagged(m).start = m.start
        /\ Flagged(m).length = m.length
    BY <2>2 DEF AtLine, Flagged, Machines
  <2>4. ASSUME NEW c, c # SP PROVE Step(m, c) = OnFieldStart(Flagged(m), c)
    <3> HIDE DEF SP
    <3>1. CASE m.state = "s_header_value_lws"
      <4>1. Step(m, c) = OnLws(m, c)
        BY <3>1 DEF Step, AtLine
      <4> QED
        BY <4>1, <2>4 DEF OnLws
    <3>2. CASE m.state = "s_header_value_discard_lws"
      <4>1. Step(m, c) = OnDiscardLws(m, c)
        BY <3>2 DEF Step, AtLine
      <4> QED
        BY <4>1, <2>4 DEF OnDiscardLws
    <3> QED
      BY <2>2, <3>1, <3>2
  <2> QED
    BY <2>1, <2>3, <2>4 DEF AtLine
<1> QED
  BY <1>1, <1>2

\* The end of a line, in the states in which one is expected.
LEMMA EolRun ==
    ASSUME NEW m \in Machines, ~m.failed, NEW e \in Eols
    PROVE  /\ m.state = "s_res_status" => After(m, e) = To(m, "s_header_field_start")
           /\ m.state = "s_header_value" => After(m, e) = To(m, "s_header_value_lws")
           /\ m.state = "s_header_value_discard_ws" => After(m, e) = To(m, "s_header_value_discard_lws")
           /\ \A F, n, t, d : AtLine(m, F, n, t, d) => After(m, e) = OnHeadersAlmostDone(Line(m), LF)
<1>1. CR \in Symbols /\ LF \in Symbols
  BY ControlsAre
<1>2. {"s_res_line_almost_done", "s_header_almost_done", "s_header_value_discard_ws_almost_done",
       "s_headers_almost_done"} \subseteq ParserStates
  BY DEF ParserStates
<1>3. After(m, <<CR, LF>>) = Step(Step(m, CR), LF) /\ After(m, <<LF>>) = Step(m, LF)
  BY <1>1, AfterTwo, AfterOne
<1>4. CR # LF /\ CR # SP /\ LF # SP /\ CR \notin ValueSymbols /\ LF \notin ValueSymbols
  BY Distinct
<1>5. e = <<CR, LF>> \/ e = <<LF>>
  BY DEF Eols
<1> HIDE DEF CR, LF, SP
<1>6. ASSUME m.state = "s_res_status" PROVE After(m, e) = To(m, "s_header_field_start")
  <2>1. Step(m, LF) = To(m, "s_header_field_start") /\ Step(m, CR) = To(m, "s_res_line_almost_done")
    BY <1>4, <1>6 DEF Step, OnStatus, OnLF
  <2>2. PICK x : x = To(m, "s_res_line_almost_done")
    OBVIOUS
  <2>3. x.state = "s_res_line_almost_done" /\ ~x.failed /\ To(x, "s_header_field_start") = To(m, "s_header_field_start")
    BY <1>2, <2>2, ToTo
  <2>4. Step(x, LF) = To(x, "s_header_field_start")
    BY <2>3 DEF Step, OnLF
  <2> QED
    BY <1>3, <1>5, <2>1, <2>2, <2>3, <2>4
<1>7. ASSUME m.state = "s_header_value" PROVE After(m, e) = To(m, "s_header_value_lws")
  <2>1. Step(m, LF) = To(m, "s_header_value_lws") /\ Step(m, CR) = To(m, "s_header_almost_done")
    BY <1>4, <1>7 DEF Step, OnValue, OnLF
  <2>2. PICK x : x = To(m, "s_header_almost_done")
    OBVIOUS
  <2>3. x.state = "s_header_almost_done" /\ ~x.failed /\ To(x, "s_header_value_lws") = To(m, "s_header_value_lws")
    BY <1>2, <2>2, ToTo
  <2>4. Step(x, LF) = To(x, "s_header_value_lws")
    BY <2>3 DEF Step, OnLF
  <2> QED
    BY <1>3, <1>5, <2>1, <2>2, <2>3, <2>4
<1>8. ASSUME m.state = "s_header_value_discard_ws" PROVE After(m, e) = To(m, "s_header_value_discard_lws")
  <2>1. Step(m, LF) = To(m, "s_header_value_discard_lws") /\ Step(m, CR) = To(m, "s_header_value_discard_ws_almost_done")
    BY <1>4, <1>8 DEF Step, OnDiscardWs
  <2>2. PICK x : x = To(m, "s_header_value_discard_ws_almost_done")
    OBVIOUS
  <2>3. /\ x.state = "s_header_value_discard_ws_almost_done" /\ ~x.failed
        /\ To(x, "s_header_value_discard_lws") = To(m, "s_header_value_discard_lws")
    BY <1>2, <2>2, ToTo
  <2>4. Step(x, LF) = To(x, "s_header_value_discard_lws")
    BY <2>3 DEF Step, OnLF
  <2> QED
    BY <1>3, <1>5, <2>1, <2>2, <2>3, <2>4
<1>9. ASSUME NEW F, NEW n, NEW t, NEW d, AtLine(m, F, n, t, d)
      PROVE  After(m, e) = OnHeadersAlmostDone(Line(m), LF)
  <2>1. PICK l : l = Line(m)
    OBVIOUS
  <2>2. l \in Machines /\ ~l.failed /\ Step(m, CR) = OnFieldStart(l, CR) /\ Step(m, LF) = OnFieldStart(l, LF)
    BY <1>4, <1>9, <2>1, LineIs
  <2>3. Step(m, LF) = OnHeadersAlmostDone(l, LF) /\ Step(m, CR) = To(l, "s_headers_almost_done")
    BY <1>4, <2>2 DEF OnFieldStart
  <2>4. PICK x : x = To(l, "s_headers_almost_done")
    OBVIOUS
  <2>5. x.state = "s_headers_almost_done" /\ ~x.failed
    BY <1>2, <2>2, <2>4, ToTo
  <2>6. Step(x, LF) = OnHeadersAlmostDone(x, LF)
    BY <2>5 DEF Step
  <2>7. OnHeadersAlmostDone(x, LF) = OnHeadersAlmostDone(l, LF)
    BY <1>2, <2>2, <2>4, HeadersDoneAnywhere
  <2> QED
    BY <1>3, <1>5, <2>1, <2>3, <2>4, <2>6, <2>7
<1> QED
  BY <1>6, <1>7, <1>8, <1>9

\* What follows from the name of a header.
NameLead == <<":", SP>>
HeaderOf(name) == NameOf(NameStart(Head(name)), Tail(name))
InHeader(m, h) == [m EXCEPT !.state = "s_header_value_discard_ws", !.h = h]

LEMMA InHeaderIs ==
    ASSUME NEW m \in Machines, NEW h \in AllHeaderStates
    PROVE  /\ InHeader(m, h) \in Machines /\ InHeader(m, h).state = "s_header_value_discard_ws"
           /\ InHeader(m, h).h = h /\ InHeader(m, h).failed = m.failed /\ InHeader(m, h).closed = m.closed
           /\ InHeader(m, h).flags = m.flags /\ InHeader(m, h).length = m.length
           /\ InHeader(m, h).start = m.start /\ InHeader(m, h).done = m.done
<1>1. "s_header_value_discard_ws" \in ParserStates
  BY DEF ParserStates
<1>2. InHeader(m, h) \in Machines
  BY <1>1 DEF InHeader, Machines
<1> QED
  BY <1>1, <1>2 DEF InHeader, Machines

\* A name, the colon and the space.
LEMMA NameLeadRun ==
    ASSUME NEW m, NEW F, NEW n, NEW t, NEW d, AtLine(m, F, n, t, d),
           NEW name \in Seq(Tokens), name # <<>>
    PROVE  /\ After(m, name \o NameLead) = InHeader(Line(m), HeaderOf(name))
           /\ HeaderOf(name) \in AllHeaderStates /\ name \o NameLead \in Seq(Symbols)
<1>1. PICK l : l = Line(m)
  OBVIOUS
<1>2. PICK c : c = Head(name)
  OBVIOUS
<1>3. PICK rest : rest = Tail(name)
  OBVIOUS
<1>4. c \in Tokens /\ rest \in Seq(Tokens) /\ name = <<c>> \o rest
  BY <1>2, <1>3
<1>5. c \in Symbols /\ rest \in Seq(Symbols) /\ <<c>> \in Seq(Symbols) /\ ":" \in Symbols /\ SP \in Symbols
  <2>1. c \in Symbols /\ rest \in Seq(Symbols)
    BY <1>4, TokensAre, TokenSeq
  <2>2. ":" \in Symbols
    BY DEF Symbols, ValueSymbols
  <2> QED
    BY <2>1, <2>2, ControlsAre
<1>6. /\ l \in Machines /\ ~l.failed /\ Step(m, c) = OnFieldStart(l, c)
      /\ c # CR /\ c # LF /\ c # SP /\ m \in Machines /\ ":" \notin Tokens
  <2>1. c # CR /\ c # LF /\ c # SP /\ ":" \notin Tokens
    BY <1>4, Distinct
  <2>2. m \in Machines
    BY DEF AtLine
  <2> QED
    BY <2>1, <2>2, <1>1, LineIs
<1> HIDE DEF CR, LF, SP
<1>7. PICK h : h = NameStart(c)
  OBVIOUS
<1>8. h \in AllHeaderStates
  BY <1>7 DEF NameStart, AllHeaderStates, HeaderStates
<1>9. PICK x : x = [l EXCEPT !.state = "s_header_field", !.h = h]
  OBVIOUS
<1>10. Step(m, c) = x
  BY <1>4, <1>6, <1>7, <1>9 DEF OnFieldStart
<1>11. x \in Machines /\ ~x.failed /\ x.state = "s_header_field" /\ x.h = h
  <2>1. "s_header_field" \in ParserStates
    BY DEF ParserStates
  <2> QED
    BY <1>6, <1>8, <1>9, <2>1 DEF Machines
<1>12. PICK g : g = NameOf(h, rest)
  OBVIOUS
<1>13. After(x, rest) = [x EXCEPT !.h = g] /\ g \in AllHeaderStates
  BY <1>4, <1>8, <1>11, <1>12, NameRun, NameType
<1>14. PICK y : y = [x EXCEPT !.h = g]
  OBVIOUS
<1>15. y \in Machines /\ ~y.failed /\ y.state = "s_header_field"
  BY <1>11, <1>13, <1>14 DEF Machines
<1>16. After(m, name) = y
  <2>1. PICK e : e = <<c>>
    OBVIOUS
  <2>2. e \in Seq(Symbols) /\ After(m, e) = x
    BY <1>5, <1>6, <1>10, <2>1, AfterOne
  <2>3. After(m, e \o rest) = After(x, rest)
    BY <1>5, <1>6, <2>2, AfterThen
  <2> QED
    BY <1>4, <1>13, <1>14, <2>1, <2>3
<1>17. After(y, NameLead) = To(y, "s_header_value_discard_ws")
  <2>1. After(y, NameLead) = Step(Step(y, ":"), SP)
    BY <1>5, <1>15, AfterTwo DEF NameLead
  <2>2. Step(y, ":") = To(y, "s_header_value_discard_ws")
    BY <1>6, <1>15 DEF Step, OnField
  <2>3. PICK z : z = To(y, "s_header_value_discard_ws")
    OBVIOUS
  <2>4. z.state = "s_header_value_discard_ws" /\ ~z.failed
    <3>1. "s_header_value_discard_ws" \in ParserStates
      BY DEF ParserStates
    <3> QED
      BY <3>1, <1>15, <2>3, ToTo
  <2>5. Step(z, SP) = z
    BY <2>4 DEF Step, OnDiscardWs
  <2> QED
    BY <2>1, <2>2, <2>3, <2>5
<1>18. To(y, "s_header_value_discard_ws") = InHeader(l, g)
  BY <1>6, <1>9, <1>14 DEF To, InHeader, Machines
<1>19. name \in Seq(Symbols) /\ NameLead \in Seq(Symbols)
  <2>1. name \in Seq(Symbols)
    BY TokenSeq
  <2> QED
    BY <2>1, <1>5 DEF NameLead
<1>20. After(m, name \o NameLead) = To(y, "s_header_value_discard_ws") /\ name \o NameLead \in Seq(Symbols)
  BY <1>6, <1>16, <1>17, <1>19, AfterThen
<1> QED
  BY <1>1, <1>2, <1>3, <1>7, <1>12, <1>13, <1>18, <1>20 DEF HeaderOf

\* Headers whose name is not known.
Dull == {"h_general", "h_matching_connection", "h_matching_content_length", "h_matching_transfer_encoding"}
\* Their names lead to no other state.
LEMMA DullName ==
    ASSUME NEW name \in Seq(Tokens), name \notin KnownNames \cup {<<>>}
    PROVE  HeaderOf(name) \in Dull
<1>1. PICK c : c = Head(name)
  OBVIOUS
<1>2. PICK rest : rest = Tail(name)
  OBVIOUS
<1>3. c \in Tokens /\ rest \in Seq(Tokens) /\ name = <<c>> \o rest
  BY <1>1, <1>2
<1>4. PICK h : h = NameStart(c)
  OBVIOUS
<1>5. /\ h \in AllHeaderStates /\ h \in Dull
      /\ h = "h_matching_connection" => c = "conn"
      /\ h = "h_matching_content_length" => c = "cont"
      /\ h = "h_matching_transfer_encoding" => c = "trans"
  BY <1>4 DEF NameStart, AllHeaderStates, HeaderStates, Dull
<1>6. HeaderOf(name) = NameOf(h, rest)
  BY <1>1, <1>2, <1>4 DEF HeaderOf
<1>7. CASE rest = <<>>
  <2>1. NameOf(h, <<>>) = h
    BY FoldEmpty DEF NameOf
  <2> QED
    BY <1>5, <1>6, <1>7, <2>1
<1>8. CASE rest # <<>>
  <2>1. PICK u : u = Upto(rest, Len(rest) - 1)
    OBVIOUS
  <2>2. PICK a : a = rest[Len(rest)]
    OBVIOUS
  <2>3. a \in Tokens /\ u \in Seq(Tokens) /\ rest = Append(u, a)
    BY <1>3, <1>8, <2>1, <2>2, FrontAndLast
  <2>4. NameOf(h, rest) = NameNext(NameOf(h, u), a)
    BY <1>5, <2>3, NameAppend
  <2>5. CASE u = <<>>
    <3>1. NameOf(h, u) = h
      BY <2>5, FoldEmpty DEF NameOf
    <3>2. name = <<c, a>>
      <4>1. rest = <<a>>
        BY <2>3, <2>5
      <4> QED
        BY <1>3, <2>3, <4>1, TwoIs
    <3>3. ~(c = "conn" /\ a = "ection") /\ ~(c = "cont" /\ a = "ent-length") /\ ~(c = "trans" /\ a = "fer-encoding")
      BY <3>2 DEF KnownNames
    <3>4. NameNext(h, a) = "h_general"
      BY <1>5, <3>3 DEF NameNext
    <3> QED
      BY <1>6, <2>4, <3>1, <3>4 DEF Dull
  <2>6. CASE u # <<>>
    <3>1. PICK v : v = Upto(u, Len(u) - 1)
      OBVIOUS
    <3>2. PICK b : b = u[Len(u)]
      OBVIOUS
    <3>3. b \in Tokens /\ v \in Seq(Tokens) /\ u = Append(v, b)
      BY <2>3, <2>6, <3>1, <3>2, FrontAndLast
    <3>4. NameOf(h, u) = NameNext(NameOf(h, v), b)
      BY <1>5, <3>3, NameAppend
    <3>5. \A g : NameNext(NameNext(g, b), a) = "h_general"
      BY DEF NameNext
    <3> QED
      BY <1>6, <2>4, <3>4, <3>5 DEF Dull
  <2> QED
    BY <2>5, <2>6
<1> QED
  BY <1>7, <1>8

\* The value of a header that is not known changes nothing.
General(m) == [m EXCEPT !.state = "s_header_value", !.h = "h_general"]
IsGeneral(m) == m \in Machines /\ ~m.failed /\ m.state = "s_header_value" /\ m.h = "h_general"

LEMMA GeneralIs ==
    ASSUME NEW m \in Machines
    PROVE  /\ General(m) \in Machines /\ General(m).state = "s_header_value" /\ General(m).h = "h_general"
           /\ General(m).failed = m.failed /\ General(m).closed = m.closed /\ General(m).flags = m.flags
           /\ General(m).length = m.length /\ General(m).start = m.start /\ General(m).done = m.done
<1>1. "s_header_value" \in ParserStates /\ "h_general" \in AllHeaderStates
  BY DEF ParserStates, AllHeaderStates, HeaderStates
<1>2. General(m) \in Machines
  BY <1>1 DEF General, Machines
<1> QED
  BY <1>1, <1>2 DEF General, Machines

LEMMA GeneralStep ==
    ASSUME NEW m, IsGeneral(m), NEW c \in ValueSymbols
    PROVE  Step(m, c) = m
<1>1. Step(m, c) = OnValue(m, c)
  BY DEF Step, IsGeneral
<1>2. PICK v : v = ValueOf(m)
  OBVIOUS
<1>3. v \in Values /\ v.h = "h_general" /\ v.flags = m.flags /\ v.length = m.length /\ v.ok = TRUE
  <2>1. v \in Values
    BY <1>2, ValueOfType DEF IsGeneral
  <2> QED
    BY <2>1, <1>2 DEF IsGeneral, ValueOf
<1>4. HeaderStateNext("h_general", c) = "h_general" /\ FlagOf("h_general") = {}
  BY DEF HeaderStateNext, FlagOf
<1>5. ValueNext(v, c) = [v EXCEPT !.h = "h_general",
                                  !.flags = @ \cup (IF c = "," THEN FlagOf("h_general") \ {"CHUNKED"} ELSE {})]
  BY <1>3, <1>4 DEF ValueNext
<1>6. ValueNext(v, c) = [v EXCEPT !.h = "h_general", !.flags = v.flags]
  <2>1. v.flags \cup (IF c = "," THEN FlagOf("h_general") \ {"CHUNKED"} ELSE {}) = v.flags
    BY <1>4
  <2> QED
    BY <1>5, <2>1
<1>7. ValueNext(v, c) = v
  BY <1>3, <1>6 DEF Values
<1>8. WithValue(m, v) = m
  <2>1. WithValue(m, v) = [m EXCEPT !.h = m.h, !.flags = m.flags, !.length = m.length]
    BY <1>3 DEF WithValue, IsGeneral
  <2> QED
    BY <2>1 DEF IsGeneral, Machines
<1> QED
  BY <1>1, <1>2, <1>7, <1>8 DEF OnValue

\* The value goes on.
LEMMA GeneralRun ==
    ASSUME NEW m, IsGeneral(m)
    PROVE  \A s \in Seq(ValueSymbols) : After(m, s) = m
<1> DEFINE G == {s \in Seq(ValueSymbols) : After(m, s) = m}
<1>1. <<>> \in G
  BY AfterEmpty
<1>2. ASSUME NEW s \in Seq(ValueSymbols), NEW c \in ValueSymbols, s \in G PROVE Append(s, c) \in G
  <2>1. s \in Seq(Symbols) /\ c \in Symbols /\ Append(s, c) \in Seq(ValueSymbols)
    BY TokenSeq, TokensAre
  <2>2. After(m, Append(s, c)) = Step(After(m, s), c)
    BY <2>1, AfterAppend DEF IsGeneral
  <2> QED
    BY <1>2, <2>1, <2>2, GeneralStep
<1> HIDE DEF G
<1>3. \A s \in Seq(ValueSymbols) : s \in G
  BY <1>1, <1>2, SeqInduction
<1> QED
  BY <1>3 DEF G

\* A value begins.
Blank(m, h) == m \in Machines /\ ~m.failed /\ m.state = "s_header_value_discard_ws" /\ m.h = h
LEMMA ValueBegins ==
    ASSUME NEW m, NEW h, Blank(m, h), NEW c \in ValueSymbols, c # SP
    PROVE  Step(m, c) = OnValueStart(m, c)
<1>1. Step(m, c) = OnDiscardWs(m, c)
  BY DEF Step, Blank
<1>2. c # CR /\ c # LF
  BY Distinct
<1> HIDE DEF CR, LF, SP
<1> QED
  BY <1>1, <1>2 DEF OnDiscardWs

LEMMA DullBegins ==
    ASSUME NEW m, NEW h \in Dull, Blank(m, h), NEW c \in ValueSymbols, c # SP
    PROVE  Step(m, c) = General(m)
<1>1. Step(m, c) = OnValueStart(m, c)
  BY ValueBegins
<1>2. h # "h_content_length" /\ ValueStart(h, c) = "h_general"
  BY DEF Dull, ValueStart
<1>3. OnValueStart(m, c) = [m EXCEPT !.state = "s_header_value", !.h = "h_general", !.length = m.length]
  BY <1>2 DEF OnValueStart, Blank
<1>4. [m EXCEPT !.state = "s_header_value", !.h = "h_general", !.length = m.length] = General(m)
  BY DEF General, Blank, Machines
<1> QED
  BY <1>1, <1>3, <1>4

\* A line of one.
LEMMA DullLine ==
    ASSUME NEW m, NEW h \in Dull, Blank(m, h), NEW s \in Seq(ValueSymbols), Begins(s)
    PROVE  After(m, s) = General(m)
<1>1. PICK c : c = Head(s)
  OBVIOUS
<1>2. PICK rest : rest = Tail(s)
  OBVIOUS
<1>3. c \in ValueSymbols /\ rest \in Seq(ValueSymbols) /\ s = <<c>> \o rest /\ c # SP
  BY <1>1, <1>2 DEF Begins
<1>4. c \in Symbols /\ rest \in Seq(Symbols) /\ m \in Machines /\ ~m.failed
  BY <1>3, TokenSeq, TokensAre DEF Blank
<1>5. PICK e : e = <<c>>
  OBVIOUS
<1>6. e \in Seq(Symbols) /\ After(m, e) = General(m)
  BY <1>3, <1>4, <1>5, AfterOne, DullBegins
<1>7. IsGeneral(General(m))
  BY <1>4, GeneralIs DEF IsGeneral
<1>8. After(m, e \o rest) = After(General(m), rest)
  BY <1>4, <1>6, AfterThen
<1> QED
  BY <1>3, <1>5, <1>7, <1>8, GeneralRun

\* Between two lines of a value.
LEMMA NextLine ==
    ASSUME NEW m \in Machines, ~m.failed, NEW e \in Eols, NEW sep, sep = e \o <<SP>>
    PROVE  /\ sep \in Seq(Symbols)
           /\ m.state = "s_header_value_discard_ws" => After(m, sep) = m
           /\ m.state = "s_header_value" /\ m.h = "h_general" => After(m, sep) = m
<1>1. e \in Seq(Symbols) /\ SP \in Symbols
  BY ControlsAre
<1>2. PICK o : o = <<SP>>
  OBVIOUS
<1>3. o \in Seq(Symbols)
  BY <1>1, <1>2
<1>4. sep \in Seq(Symbols) /\ After(m, sep) = After(After(m, e), o)
  <2>1. e \o o \in Seq(Symbols) /\ After(m, e \o o) = After(After(m, e), o)
    BY <1>1, <1>3, AfterThen
  <2>2. sep = e \o o
    BY <1>2
  <2> QED
    BY <2>1, <2>2
<1>5. {"s_header_value_lws", "s_header_value_discard_lws", "s_header_value_discard_ws"} \subseteq ParserStates
  BY DEF ParserStates
<1>6. ASSUME m.state = "s_header_value_discard_ws" PROVE After(m, sep) = m
  <2>1. PICK x : x = To(m, "s_header_value_discard_lws")
    OBVIOUS
  <2>2. /\ x.state = "s_header_value_discard_lws" /\ ~x.failed /\ x \in Machines
        /\ To(x, "s_header_value_discard_ws") = To(m, "s_header_value_discard_ws")
    BY <1>5, <2>1, ToTo
  <2>3. After(m, e) = x
    BY <1>6, <2>1, EolRun
  <2>4. After(x, o) = Step(x, SP)
    BY <1>1, <1>2, <2>2, AfterOne
  <2>5. Step(x, SP) = To(x, "s_header_value_discard_ws")
    BY <2>2 DEF Step, OnDiscardLws
  <2>6. To(m, "s_header_value_discard_ws") = m
    BY <1>6 DEF To, Machines
  <2> QED
    BY <1>4, <2>2, <2>3, <2>4, <2>5, <2>6
<1>7. ASSUME m.state = "s_header_value", m.h = "h_general" PROVE After(m, sep) = m
  <2>1. PICK x : x = To(m, "s_header_value_lws")
    OBVIOUS
  <2>2. x.state = "s_header_value_lws" /\ ~x.failed /\ x \in Machines /\ x.h = "h_general"
    BY <1>5, <1>7, <2>1, ToTo
  <2>3. After(m, e) = x
    BY <1>7, <2>1, EolRun
  <2>4. After(x, o) = Step(x, SP)
    BY <1>1, <1>2, <2>2, AfterOne
  <2>5. Step(x, SP) = OnValueStart(x, SP)
    BY <2>2 DEF Step, OnLws
  <2>6. ValueStart("h_general", SP) = "h_general" /\ "h_general" # "h_content_length"
    BY DEF ValueStart
  <2>7. OnValueStart(x, SP) = [x EXCEPT !.state = "s_header_value", !.h = "h_general", !.length = x.length]
    BY <2>2, <2>6 DEF OnValueStart
  <2>8. [x EXCEPT !.state = "s_header_value", !.h = "h_general", !.length = x.length] = m
    BY <1>7, <2>1 DEF To, Machines
  <2> QED
    BY <1>4, <2>3, <2>4, <2>5, <2>7, <2>8
<1> QED
  BY <1>4, <1>6, <1>7

\* The lines of a value: the first begins with no space, or it is empty and
\* the second does.
Formed(ls) ==
    /\ ls # <<>>
    /\ Begins(ls[1]) \/ (ls[1] = <<>> /\ (Len(ls) > 1 => Begins(ls[2])))
OnlyBlank(ls) == Len(ls) = 1 /\ ls[1] = <<>>
LineTexts == Seq(Seq(ValueSymbols))

LEMMA LinesAre == LineTexts \subseteq Texts
BY TokenSeq DEF LineTexts, Texts

LEMMA FormedAppend ==
    ASSUME NEW ls \in LineTexts, NEW q \in Seq(ValueSymbols), NEW w, w = Append(ls, q), Formed(w)
    PROVE  /\ ls = <<>> => (Begins(q) \/ q = <<>>) /\ (OnlyBlank(w) <=> q = <<>>)
           /\ ls # <<>> => Formed(ls) /\ ~OnlyBlank(w) /\ (OnlyBlank(ls) => Begins(q))
<1>1. PICK n : n = Len(ls)
  OBVIOUS
<1>2. n \in Nat /\ Len(w) = n + 1 /\ w[n + 1] = q /\ (\A k \in 1..n : w[k] = ls[k]) /\ (n = 0 <=> ls = <<>>)
  BY <1>1, AppendIs DEF LineTexts
<1>3. CASE ls = <<>>
  <2>1. Len(w) = 1 /\ w[1] = q
    BY <1>2, <1>3
  <2>2. q = <<>> => ~Begins(q)
    BY DEF Begins
  <2> QED
    BY <1>3, <2>1, <2>2 DEF Formed, OnlyBlank
<1>4. CASE ls # <<>>
  <2>1. Len(w) # 1 /\ w[1] = ls[1] /\ n >= 1
    BY <1>2, <1>4
  <2>2. n = 1 => w[2] = q /\ Len(w) > 1
    BY <1>2
  <2>3. n > 1 => w[2] = ls[2] /\ Len(w) > 1
    BY <1>2
  <2>4. Begins(ls[1]) \/ (ls[1] = <<>> /\ Begins(w[2]))
    BY <2>1, <2>2, <2>3 DEF Formed
  <2>5. Formed(ls)
    BY <1>1, <1>4, <2>3, <2>4 DEF Formed
  <2>6. OnlyBlank(ls) => Begins(q)
    <3>1. ~Begins(<<>>)
      BY DEF Begins
    <3> QED
      BY <1>1, <2>2, <2>4, <3>1 DEF OnlyBlank
  <2> QED
    BY <1>4, <2>1, <2>5, <2>6 DEF OnlyBlank
<1> QED
  BY <1>3, <1>4

\* All its lines.
LEMMA DullLines ==
    ASSUME NEW m, NEW h \in Dull, Blank(m, h), NEW e \in Eols, NEW sep, sep = e \o <<SP>>
    PROVE  \A ls \in LineTexts :
              Formed(ls) => After(m, Joined(ls, sep)) = IF OnlyBlank(ls) THEN m ELSE General(m)
<1>1. m \in Machines /\ ~m.failed /\ m.state = "s_header_value_discard_ws" /\ sep \in Seq(Symbols)
  BY NextLine DEF Blank
<1>2. IsGeneral(General(m)) /\ General(m) \in Machines
  BY <1>1, GeneralIs DEF IsGeneral
<1>3. After(m, sep) = m /\ After(General(m), sep) = General(m)
  BY <1>1, <1>2, NextLine DEF IsGeneral
<1> DEFINE G == {ls \in LineTexts :
              Formed(ls) => After(m, Joined(ls, sep)) = IF OnlyBlank(ls) THEN m ELSE General(m)}
<1>4. <<>> \in G
  <2>1. ~Formed(<<>>) /\ <<>> \in LineTexts
    BY DEF Formed, LineTexts
  <2> QED
    BY <2>1
<1>5. ASSUME NEW ls \in LineTexts, NEW q \in Seq(ValueSymbols), ls \in G PROVE Append(ls, q) \in G
  <2>1. PICK w : w = Append(ls, q)
    OBVIOUS
  <2>2. w \in LineTexts
    BY <2>1, AppendIs DEF LineTexts
  <2>3. ls \in Texts /\ q \in Seq(Symbols)
    BY LinesAre, TokenSeq
  <2>4. Joined(w, sep) = IF ls = <<>> THEN q ELSE Joined(ls, sep) \o (sep \o q)
    BY <1>1, <2>1, <2>3, JoinedAppend
  <2>5. ASSUME Formed(w) PROVE After(m, Joined(w, sep)) = IF OnlyBlank(w) THEN m ELSE General(m)
    <3>1. Begins(q) => After(m, q) = General(m)
      BY DullLine
    <3>2. After(General(m), q) = General(m)
      BY <1>2, GeneralRun
    <3>3. CASE ls = <<>>
      <4>1. (Begins(q) \/ q = <<>>) /\ (OnlyBlank(w) <=> q = <<>>)
        BY <2>1, <2>5, <3>3, FormedAppend
      <4>2. ~Begins(<<>>) /\ After(m, <<>>) = m
        BY AfterEmpty DEF Begins
      <4> QED
        BY <2>4, <3>1, <3>3, <4>1, <4>2
    <3>4. CASE ls # <<>>
      <4>1. Formed(ls) /\ ~OnlyBlank(w) /\ (OnlyBlank(ls) => Begins(q))
        BY <2>1, <2>5, <3>4, FormedAppend
      <4>2. PICK j : j = Joined(ls, sep)
        OBVIOUS
      <4>3. PICK x : x = After(m, j)
        OBVIOUS
      <4>4. j \in Seq(Symbols) /\ x = IF OnlyBlank(ls) THEN m ELSE General(m)
        <5>1. Joined(ls, sep) \in Seq(Symbols)
          BY <1>1, <2>3, JoinedType
        <5> QED
          BY <1>5, <4>1, <4>2, <4>3, <5>1
      <4>5. PICK s2 : s2 = sep \o q
        OBVIOUS
      <4>6. x \in Machines /\ s2 \in Seq(Symbols) /\ After(x, s2) = After(After(x, sep), q)
        <5>1. x \in Machines
          BY <1>1, <1>2, <4>4
        <5>2. After(x, sep \o q) = After(After(x, sep), q) /\ sep \o q \in Seq(Symbols)
          BY <1>1, <2>3, <5>1, AfterBoth
        <5> QED
          BY <4>5, <5>1, <5>2
      <4>7. After(m, j \o s2) = After(x, s2)
        <5>1. After(m, j \o s2) = After(After(m, j), s2)
          BY <1>1, <4>4, <4>6, AfterBoth
        <5> QED
          BY <4>3, <5>1
      <4>8. After(After(x, sep), q) = General(m)
        BY <1>3, <3>1, <3>2, <4>1, <4>4
      <4> QED
        BY <2>4, <3>4, <4>1, <4>2, <4>5, <4>6, <4>7, <4>8
    <3> QED
      BY <3>3, <3>4
  <2> QED
    BY <2>1, <2>2, <2>5
<1> HIDE DEF G
<1>6. \A ls \in LineTexts : ls \in G
  BY <1>4, <1>5, SeqInduction DEF LineTexts
<1> QED
  BY <1>6 DEF G

\* The end of a header that is not known.
LEMMA DullHeader ==
    ASSUME NEW m, NEW F, NEW n, NEW t, NEW d, AtLine(m, F, n, t, d), NEW e \in Eols,
           NEW name \in Seq(Tokens), name \notin KnownNames \cup {<<>>},
           NEW ls \in LineTexts, Formed(ls), NEW text, text = Joined(ls, e \o <<SP>>)
    PROVE  /\ AtLine(After(m, name \o NameLead \o text \o e), F, n, t, d)
           /\ name \o NameLead \o text \o e \in Seq(Symbols)
<1>1. PICK h : h = HeaderOf(name)
  OBVIOUS
<1>2. PICK x : x = InHeader(Line(m), h)
  OBVIOUS
<1>3. PICK a : a = name \o NameLead
  OBVIOUS
<1>4. After(m, a) = x /\ h \in AllHeaderStates /\ a \in Seq(Symbols) /\ h \in Dull /\ m \in Machines
  BY <1>1, <1>2, <1>3, NameLeadRun, DullName DEF AtLine
<1>5. /\ Blank(x, h) /\ x.flags = F /\ x.length = n /\ x.start = t /\ x.done = d /\ ~x.closed /\ ~x.failed
      /\ x \in Machines /\ x.state = "s_header_value_discard_ws" /\ x.h = h
  <2>1. PICK l : l = Line(m)
    OBVIOUS
  <2>2. /\ l \in Machines /\ ~l.failed /\ ~l.closed /\ l.flags = F
        /\ l.done = d /\ l.start = t /\ l.length = n
    BY <2>1, LineIs
  <2>3. x = InHeader(l, h)
    BY <1>2, <2>1
  <2> QED
    BY <1>4, <2>2, <2>3, InHeaderIs DEF Blank
<1>6. After(x, text) = IF OnlyBlank(ls) THEN x ELSE General(x)
  BY <1>5, <1>4, DullLines
<1>7. text \in Seq(Symbols) /\ e \in Seq(Symbols)
  <2>1. PICK sep : sep = e \o <<SP>>
    OBVIOUS
  <2>2. sep \in Seq(Symbols)
    BY <1>5, <2>1, NextLine
  <2>3. text \in Seq(Symbols)
    BY <2>1, <2>2, LinesAre, JoinedType
  <2> QED
    BY <2>3, ControlsAre
<1>8. PICK y : y = After(x, text)
  OBVIOUS
<1>9. /\ y \in Machines /\ ~y.failed /\ ~y.closed /\ y.flags = F /\ y.length = n /\ y.start = t /\ y.done = d
      /\ FlagOf(y.h) = {}
      /\ y.state = "s_header_value" \/ y.state = "s_header_value_discard_ws"
  <2>1. FlagOf("h_general") = {} /\ FlagOf(h) = {}
    BY <1>4 DEF FlagOf, Dull
  <2> QED
    BY <1>5, <1>6, <1>8, <2>1, GeneralIs
<1>10. PICK z : z = After(y, e)
  OBVIOUS
<1>11. AtLine(z, F, n, t, d)
  <2>1. {"s_header_value_lws", "s_header_value_discard_lws"} \subseteq ParserStates
    BY DEF ParserStates
  <2>2. z = To(y, "s_header_value_lws") \/ z = To(y, "s_header_value_discard_lws")
    BY <1>9, <1>10, EolRun
  <2>3. PICK s \in {"s_header_value_lws", "s_header_value_discard_lws"} : z = To(y, s)
    BY <2>2
  <2>4. /\ z \in Machines /\ z.state = s /\ ~z.failed /\ ~z.closed /\ z.done = d /\ z.start = t
        /\ z.length = n /\ z.flags = F /\ z.h = y.h
    BY <1>9, <2>1, <2>3, ToTo
  <2> QED
    BY <1>9, <2>3, <2>4 DEF AtLine
<1>12. After(m, a \o text \o e) = z /\ a \o text \o e \in Seq(Symbols)
  <2>1. PICK b : b = a \o text
    OBVIOUS
  <2>2. b \in Seq(Symbols) /\ After(m, b) = y
    <3>1. After(m, a \o text) = After(After(m, a), text) /\ a \o text \in Seq(Symbols)
      BY <1>4, <1>7, AfterBoth
    <3> QED
      BY <1>4, <1>8, <2>1, <3>1
  <2>3. After(m, b \o e) = After(After(m, b), e) /\ b \o e \in Seq(Symbols)
    BY <1>4, <1>7, <2>2, AfterBoth
  <2> QED
    BY <1>10, <2>1, <2>2, <2>3
<1> QED
  BY <1>3, <1>11, <1>12

\* One symbol of a value that is not a length.
InValue(m) == m \in Machines /\ ~m.failed /\ m.state = "s_header_value" /\ m.h # "h_content_length"
Comma == ","
LEMMA ValueStepIs ==
    ASSUME NEW m, InValue(m), NEW c \in ValueSymbols, NEW x, x = Step(m, c)
    PROVE  /\ x \in Machines /\ ~x.failed /\ x.closed = m.closed /\ x.state = "s_header_value"
           /\ x.h = HeaderStateNext(m.h, c)
           /\ c # Comma => x.flags = m.flags
           /\ c = Comma => x.flags = m.flags \cup (FlagOf(m.h) \ {"CHUNKED"})
           /\ x.length = m.length /\ x.start = m.start /\ x.done = m.done
<1>0. m \in Machines /\ ~m.failed /\ m.state = "s_header_value" /\ m.h # "h_content_length"
  BY DEF InValue
<1>1. x = WithValue(m, ValueNext(ValueOf(m), c)) /\ x \in Machines
  BY <1>0, StepType DEF Step, OnValue
<1>2. PICK v : v = ValueNext(ValueOf(m), c)
  OBVIOUS
<1>3. PICK u : u = ValueOf(m)
  OBVIOUS
<1>4. u.h = m.h /\ u.flags = m.flags /\ u.length = m.length /\ u.ok = TRUE /\ u \in Values
  BY <1>0, <1>3, ValueOfType DEF ValueOf
<1>5. v = [u EXCEPT !.h = HeaderStateNext(u.h, c),
                    !.flags = u.flags \cup (IF c = "," THEN FlagOf(u.h) \ {"CHUNKED"} ELSE {})]
  BY <1>0, <1>2, <1>3, <1>4 DEF ValueNext
<1>6. /\ v.h = HeaderStateNext(m.h, c) /\ v.length = m.length /\ v.ok = TRUE
      /\ v.flags = m.flags \cup (IF c = "," THEN FlagOf(m.h) \ {"CHUNKED"} ELSE {})
  BY <1>4, <1>5 DEF Values
<1>7. x = [m EXCEPT !.h = v.h, !.flags = v.flags, !.length = v.length]
  BY <1>1, <1>2, <1>6 DEF WithValue
<1>8. x.h = v.h /\ x.flags = v.flags /\ x.length = v.length
      /\ x.failed = m.failed /\ x.closed = m.closed /\ x.state = m.state /\ x.start = m.start /\ x.done = m.done
  BY <1>0, <1>7 DEF Machines
<1> QED
  BY <1>0, <1>1, <1>6, <1>8 DEF Comma

\* The first symbol of one.
LEMMA ValueFirstIs ==
    ASSUME NEW m, NEW h, Blank(m, h), h # "h_content_length", NEW c \in ValueSymbols, c # SP,
           NEW x, x = Step(m, c)
    PROVE  /\ x \in Machines /\ ~x.failed /\ x.closed = m.closed /\ x.state = "s_header_value"
           /\ x.h = ValueStart(h, c) /\ x.flags = m.flags
           /\ x.length = m.length /\ x.start = m.start /\ x.done = m.done
<1>1. x = OnValueStart(m, c) /\ x \in Machines
  BY ValueBegins, StepType DEF Blank
<1>2. x = [m EXCEPT !.state = "s_header_value", !.h = ValueStart(h, c), !.length = m.length]
  BY <1>1 DEF OnValueStart, Blank
<1>3. m \in Machines /\ ~m.failed
  BY DEF Blank
<1> QED
  BY <1>1, <1>2, <1>3 DEF Machines

\* A header whose value has been read.
Written(name, text, e) == name \o NameLead \o text \o e
HeadOf(m, name) == InHeader(Line(m), HeaderOf(name))
ValueRead(y, G, k, t, d) ==
    /\ ~y.failed /\ ~y.closed /\ y.state = "s_header_value" /\ y.start = t /\ y.done = d
    /\ y.flags \cup FlagOf(y.h) = G /\ y.length = k

\* A header up to its value, from its value on, and as a whole.
LEMMA HeaderBegins ==
    ASSUME NEW m, NEW F, NEW n, NEW t, NEW d, AtLine(m, F, n, t, d),
           NEW name \in Seq(Tokens), name # <<>>, NEW x, x = HeadOf(m, name)
    PROVE  /\ Blank(x, HeaderOf(name)) /\ x.flags = F /\ x.length = n /\ x.start = t /\ x.done = d /\ ~x.closed
           /\ After(m, name \o NameLead) = x /\ x \in Machines /\ name \o NameLead \in Seq(Symbols)
<1>1. PICK h : h = HeaderOf(name)
  OBVIOUS
<1>2. After(m, name \o NameLead) = x /\ h \in AllHeaderStates /\ name \o NameLead \in Seq(Symbols)
  BY <1>1, NameLeadRun DEF HeadOf
<1>3. PICK l : l = Line(m)
  OBVIOUS
<1>4. /\ l \in Machines /\ ~l.failed /\ ~l.closed /\ l.flags = F
      /\ l.done = d /\ l.start = t /\ l.length = n
  BY <1>3, LineIs
<1>5. x = InHeader(l, h)
  BY <1>1, <1>3 DEF HeadOf
<1>6. /\ x \in Machines /\ ~x.failed /\ ~x.closed /\ x.flags = F /\ x.done = d /\ x.start = t /\ x.length = n
      /\ x.state = "s_header_value_discard_ws" /\ x.h = h
  BY <1>2, <1>4, <1>5, InHeaderIs
<1> QED
  BY <1>1, <1>2, <1>6 DEF Blank

LEMMA HeaderWritten ==
    ASSUME NEW m, NEW F, NEW n, NEW t, NEW d, AtLine(m, F, n, t, d), NEW e \in Eols,
           NEW name \in Seq(Tokens), name # <<>>, NEW text \in Seq(Symbols),
           NEW y, y = After(HeadOf(m, name), text)
    PROVE  /\ Written(name, text, e) \in Seq(Symbols) /\ y \in Machines
           /\ After(m, Written(name, text, e)) = After(y, e)
<1>1. PICK a : a = name \o NameLead
  OBVIOUS
<1>2. PICK x : x = HeadOf(m, name)
  OBVIOUS
<1>3. After(m, a) = x /\ a \in Seq(Symbols) /\ x \in Machines
  BY <1>1, <1>2, HeaderBegins
<1>4. e \in Seq(Symbols) /\ y \in Machines /\ m \in Machines
  BY <1>2, <1>3, ControlsAre, AfterType DEF AtLine
<1>5. PICK b : b = a \o text
  OBVIOUS
<1>6. b \in Seq(Symbols) /\ After(m, b) = y
  <2>1. After(m, a \o text) = After(After(m, a), text) /\ a \o text \in Seq(Symbols)
    BY <1>3, <1>4, AfterBoth
  <2> QED
    BY <1>2, <1>3, <1>5, <2>1
<1>7. After(m, b \o e) = After(After(m, b), e) /\ b \o e \in Seq(Symbols)
  BY <1>4, <1>6, AfterBoth
<1> QED
  BY <1>1, <1>4, <1>5, <1>6, <1>7 DEF Written

LEMMA HeaderEnds ==
    ASSUME NEW m, NEW F, NEW n, NEW t, NEW d, AtLine(m, F, n, t, d), NEW e \in Eols,
           NEW name \in Seq(Tokens), name # <<>>, NEW text \in Seq(Symbols),
           NEW G, NEW k, ValueRead(After(HeadOf(m, name), text), G, k, t, d)
    PROVE  AtLine(After(m, Written(name, text, e)), G, k, t, d) /\ Written(name, text, e) \in Seq(Symbols)
<1>1. PICK y : y = After(HeadOf(m, name), text)
  OBVIOUS
<1>2. y \in Machines /\ After(m, Written(name, text, e)) = After(y, e) /\ Written(name, text, e) \in Seq(Symbols)
  BY <1>1, HeaderWritten
<1>3. /\ ~y.failed /\ ~y.closed /\ y.state = "s_header_value" /\ y.start = t /\ y.done = d
      /\ y.flags \cup FlagOf(y.h) = G /\ y.length = k
  BY <1>1 DEF ValueRead
<1>4. "s_header_value_lws" \in ParserStates
  BY DEF ParserStates
<1>5. PICK z : z = To(y, "s_header_value_lws")
  OBVIOUS
<1>6. After(y, e) = z
  BY <1>2, <1>3, <1>5, EolRun
<1>7. /\ z \in Machines /\ z.state = "s_header_value_lws" /\ ~z.failed /\ ~z.closed /\ z.done = d /\ z.start = t
      /\ z.length = k /\ z.flags = y.flags /\ z.h = y.h
  BY <1>2, <1>3, <1>4, <1>5, ToTo
<1>8. AtLine(z, G, k, t, d)
  BY <1>3, <1>7 DEF AtLine
<1> QED
  BY <1>2, <1>6, <1>8

LEMMA HeaderFails ==
    ASSUME NEW m, NEW F, NEW n, NEW t, NEW d, AtLine(m, F, n, t, d), NEW e \in Eols,
           NEW name \in Seq(Tokens), name # <<>>, NEW text \in Seq(Symbols),
           NEW y, y = After(HeadOf(m, name), text), y.failed
    PROVE  After(m, Written(name, text, e)) = y /\ Written(name, text, e) \in Seq(Symbols)
<1>1. y \in Machines /\ After(m, Written(name, text, e)) = After(y, e) /\ Written(name, text, e) \in Seq(Symbols)
  BY HeaderWritten
<1>2. After(y, e) = y
  BY <1>1, ControlsAre, FailedRun
<1> QED
  BY <1>1, <1>2

ConnName == <<"conn", "ection">>
LengthName == <<"cont", "ent-length">>
CodingName == <<"trans", "fer-encoding">>

\* The names that the parser knows are two symbols each.
LEMMA PairHeader ==
    ASSUME NEW a \in Tokens, NEW b \in Tokens
    PROVE  <<a, b>> \in Seq(Tokens) /\ <<a, b>> # <<>> /\ HeaderOf(<<a, b>>) = NameNext(NameStart(a), b)
<1>1. PICK n : n = <<a, b>>
  OBVIOUS
<1>2. n \in Seq(Tokens) /\ n # <<>> /\ Head(n) = a /\ Tail(n) = <<b>>
  BY <1>1
<1>3. NameStart(a) \in AllHeaderStates
  BY DEF NameStart, AllHeaderStates, HeaderStates
<1>4. NameOf(NameStart(a), Append(<<>>, b)) = NameNext(NameOf(NameStart(a), <<>>), b)
  <2>1. <<>> \in Seq(Tokens)
    OBVIOUS
  <2> QED
    BY <1>3, <2>1, NameAppend
<1>5. NameOf(NameStart(a), <<>>) = NameStart(a)
  BY FoldEmpty DEF NameOf
<1>6. Append(<<>>, b) = <<b>>
  OBVIOUS
<1>7. HeaderOf(n) = NameOf(NameStart(a), <<b>>)
  BY <1>2 DEF HeaderOf
<1> QED
  BY <1>1, <1>2, <1>4, <1>5, <1>6, <1>7

LEMMA KnownHeaders ==
    /\ ConnName \in Seq(Tokens) /\ ConnName # <<>> /\ HeaderOf(ConnName) = "h_connection"
    /\ LengthName \in Seq(Tokens) /\ LengthName # <<>> /\ HeaderOf(LengthName) = "h_content_length"
    /\ CodingName \in Seq(Tokens) /\ CodingName # <<>> /\ HeaderOf(CodingName) = "h_transfer_encoding"
<1>1. {"conn", "ection", "cont", "ent-length", "trans", "fer-encoding"} \subseteq Tokens
  BY DEF Tokens
<1>2. NameNext(NameStart("conn"), "ection") = "h_connection"
  BY DEF NameNext, NameStart
<1>3. NameNext(NameStart("cont"), "ent-length") = "h_content_length"
  BY DEF NameNext, NameStart
<1>4. NameNext(NameStart("trans"), "fer-encoding") = "h_transfer_encoding"
  BY DEF NameNext, NameStart
<1>5. ConnName \in Seq(Tokens) /\ ConnName # <<>> /\ HeaderOf(ConnName) = "h_connection"
  BY <1>1, <1>2, PairHeader DEF ConnName
<1>6. LengthName \in Seq(Tokens) /\ LengthName # <<>> /\ HeaderOf(LengthName) = "h_content_length"
  BY <1>1, <1>3, PairHeader DEF LengthName
<1>7. CodingName \in Seq(Tokens) /\ CodingName # <<>> /\ HeaderOf(CodingName) = "h_transfer_encoding"
  BY <1>1, <1>4, PairHeader DEF CodingName
<1> QED
  BY <1>5, <1>6, <1>7

\* A length is read.
InLength(m, q) == [m EXCEPT !.state = "s_header_value", !.length = q]
LEMMA InLengthIs ==
    ASSUME NEW m, Blank(m, "h_content_length"), NEW q \in Nat, NEW x, x = InLength(m, q)
    PROVE  /\ x \in Machines /\ ~x.failed /\ x.state = "s_header_value" /\ x.h = "h_content_length"
           /\ x.length = q /\ x.closed = m.closed /\ x.flags = m.flags /\ x.start = m.start /\ x.done = m.done
<1>1. "s_header_value" \in ParserStates
  BY DEF ParserStates
<1>2. q \in Int /\ m \in Machines /\ ~m.failed /\ m.h = "h_content_length"
  BY DEF Blank
<1>3. x = [m EXCEPT !.state = "s_header_value", !.length = q]
  BY DEF InLength
<1> QED
  BY <1>1, <1>2, <1>3 DEF Machines

\* The digits of a Content-Length.
LEMMA LengthReads ==
    ASSUME NEW m, Blank(m, "h_content_length")
    PROVE  Reads(m, [q \in Nat |-> InLength(m, q)])
<1> DEFINE L == [q \in Nat |-> InLength(m, q)]
<1>1. m \in Machines /\ \A q \in Nat : L[q] \in Machines
  <2>1. \A q \in Nat : InLength(m, q) \in Machines
    BY InLengthIs
  <2> QED
    BY <2>1 DEF Blank
<1>2. ASSUME NEW e \in 0..Base - 1 PROVE Step(m, Numerals[e + 1]) = L[e]
  <2>1. PICK c : c = Numerals[e + 1]
    OBVIOUS
  <2>2. c \in Digits /\ Digit(c) = e /\ e \in Nat
    BY <2>1, NumeralDigit, NumbersAssumption
  <2>3. c \in ValueSymbols /\ c # SP
    BY <2>2, TokensAre, Distinct DEF ValueSymbols
  <2>4. Step(m, c) = OnValueStart(m, c)
    BY <2>3, ValueBegins
  <2>5. ValueStart("h_content_length", c) = "h_content_length"
    BY DEF ValueStart
  <2>6. OnValueStart(m, c) = [m EXCEPT !.state = "s_header_value", !.h = "h_content_length", !.length = e]
    BY <2>2, <2>5 DEF OnValueStart, Blank
  <2>7. [m EXCEPT !.state = "s_header_value", !.h = "h_content_length", !.length = e] = InLength(m, e)
    BY DEF InLength, Blank, Machines
  <2>8. L[e] = InLength(m, e)
    BY <2>2
  <2> QED
    BY <2>1, <2>4, <2>6, <2>7, <2>8
<1>3. ASSUME NEW q \in Nat, NEW e \in 0..Base - 1
      PROVE  IF Fits(q) THEN Step(L[q], Numerals[e + 1]) = L[q * Base + e]
             ELSE Step(L[q], Numerals[e + 1]) = Broken(L[q])
  <2>1. PICK c : c = Numerals[e + 1]
    OBVIOUS
  <2>2. c \in Digits /\ Digit(c) = e /\ e \in Nat
    BY <2>1, NumeralDigit, NumbersAssumption
  <2>3. c \in ValueSymbols /\ c # SP
    BY <2>2, TokensAre, Distinct DEF ValueSymbols
  <2>4. PICK x : x = InLength(m, q)
    OBVIOUS
  <2>5. x \in Machines /\ ~x.failed /\ x.state = "s_header_value" /\ x.h = "h_content_length" /\ x.length = q
    BY <2>4, InLengthIs
  <2>6. Step(x, c) = WithValue(x, ValueNext(ValueOf(x), c))
    BY <2>3, <2>5 DEF Step, OnValue
  <2>7. PICK v : v = ValueOf(x)
    OBVIOUS
  <2>8. v.h = "h_content_length" /\ v.flags = x.flags /\ v.length = q /\ v.ok = TRUE /\ v \in Values
    BY <2>5, <2>7, ValueOfType DEF ValueOf
  <2>9. ASSUME Fits(q) PROVE Step(x, c) = InLength(m, q * Base + e)
    <3>1. PICK k : k = q * Base + e
      OBVIOUS
    <3>2. WithDigit(q, c) = k
      BY <2>2, <3>1 DEF WithDigit
    <3>3. ValueNext(v, c) = [v EXCEPT !.length = k]
      BY <2>2, <2>8, <2>9, <3>2 DEF ValueNext
    <3>4. PICK w : w = [v EXCEPT !.length = k]
      OBVIOUS
    <3>5. w.h = "h_content_length" /\ w.flags = x.flags /\ w.length = k /\ w.ok = TRUE
      BY <2>8, <3>4 DEF Values
    <3>6. WithValue(x, w) = [x EXCEPT !.h = "h_content_length", !.flags = x.flags, !.length = k]
      BY <3>5 DEF WithValue
    <3>7. [x EXCEPT !.h = "h_content_length", !.flags = x.flags, !.length = k] = InLength(m, k)
      BY <2>4, <2>5 DEF InLength, Blank, Machines
    <3> QED
      BY <2>6, <2>7, <3>1, <3>3, <3>4, <3>6, <3>7
  <2>10. ASSUME ~Fits(q) PROVE Step(x, c) = Broken(x)
    <3>1. ValueNext(v, c) = [v EXCEPT !.ok = FALSE]
      BY <2>2, <2>3, <2>8, <2>10 DEF ValueNext
    <3>2. PICK w : w = [v EXCEPT !.ok = FALSE]
      OBVIOUS
    <3>3. w.ok = FALSE
      BY <2>8, <3>2 DEF Values
    <3>4. WithValue(x, w) = Broken(x)
      BY <3>3 DEF WithValue
    <3> QED
      BY <2>6, <2>7, <3>1, <3>2, <3>4
  <2>11. q * Base + e \in Nat /\ L[q] = InLength(m, q)
    BY <2>2, NumbersAssumption
  <2>12. L[q * Base + e] = InLength(m, q * Base + e)
    BY <2>11
  <2> QED
    BY <2>1, <2>4, <2>9, <2>10, <2>11, <2>12
<1> HIDE DEF L
<1> QED
  BY <1>1, <1>2, <1>3 DEF Reads, L

\* The header of a length, and of one out of range.
LEMMA LengthHeader ==
    ASSUME NEW m, NEW F, NEW n, NEW t, NEW d, AtLine(m, F, n, t, d), NEW e \in Eols,
           NEW k \in Nat, HasRoom(k)
    PROVE  /\ AtLine(After(m, Written(LengthName, Numeral[k], e)), F, k, t, d)
           /\ Written(LengthName, Numeral[k], e) \in Seq(Symbols)
<1>1. PICK x : x = HeadOf(m, LengthName)
  OBVIOUS
<1>2. Numeral[k] \in Seq(Symbols)
  BY NumeralType, DigitSeq
<1>3. Blank(x, "h_content_length") /\ x.flags = F /\ x.length = n /\ x.start = t /\ x.done = d /\ ~x.closed
  BY <1>1, KnownHeaders, HeaderBegins
<1>4. PICK y : y = After(x, Numeral[k])
  OBVIOUS
<1>5. PICK L : L = [q \in Nat |-> InLength(x, q)]
  OBVIOUS
<1>6. Reads(x, L)
  BY <1>3, <1>5, LengthReads
<1>7. y = L[k] /\ L[k] = InLength(x, k)
  BY <1>4, <1>5, <1>6, NumeralRun
<1>8. /\ y.state = "s_header_value" /\ ~y.failed /\ ~y.closed /\ y.h = "h_content_length" /\ y.length = k
      /\ y.flags = F /\ y.start = t /\ y.done = d
  BY <1>3, <1>7, InLengthIs
<1>9. ValueRead(y, F, k, t, d)
  <2>1. FlagOf("h_content_length") = {}
    BY DEF FlagOf
  <2> QED
    BY <1>8, <2>1 DEF ValueRead
<1> QED
  BY <1>1, <1>2, <1>4, <1>9, KnownHeaders, HeaderEnds

LEMMA LengthBreaks ==
    ASSUME NEW m, NEW F, NEW n, NEW t, NEW d, AtLine(m, F, n, t, d), NEW e \in Eols,
           NEW w, w = Written(LengthName, Numeral[Largest], e)
    PROVE  After(m, w).failed /\ After(m, w).done = d /\ w \in Seq(Symbols) /\ After(m, w) \in Machines
<1>1. PICK x : x = HeadOf(m, LengthName)
  OBVIOUS
<1>2. Numeral[Largest] \in Seq(Symbols)
  BY NumeralType, DigitSeq, NumbersAssumption
<1>3. Blank(x, "h_content_length") /\ x.done = d
  BY <1>1, KnownHeaders, HeaderBegins
<1>4. PICK y : y = After(x, Numeral[Largest])
  OBVIOUS
<1>5. PICK L : L = [q \in Nat |-> InLength(x, q)]
  OBVIOUS
<1>6. Reads(x, L)
  BY <1>3, <1>5, LengthReads
<1>7. PICK q \in Nat : y = Broken(L[q])
  BY <1>4, <1>6, NumeralBreaks
<1>8. PICK z : z = InLength(x, q)
  OBVIOUS
<1>9. z \in Machines /\ z.done = d /\ L[q] = z
  BY <1>3, <1>5, <1>8, InLengthIs
<1>10. y.failed /\ y.done = d /\ y \in Machines
  BY <1>7, <1>9, BrokenIs, BrokenType
<1>11. After(m, w) = y /\ w \in Seq(Symbols)
  BY <1>1, <1>2, <1>4, <1>10, KnownHeaders, HeaderFails
<1> QED
  BY <1>10, <1>11

\* Transfer-Encoding: chunked.
LEMMA CodingHeaderRun ==
    ASSUME NEW m, NEW F, NEW n, NEW t, NEW d, AtLine(m, F, n, t, d), NEW e \in Eols,
           NEW w, w = Written(CodingName, <<"chun", "ked">>, e)
    PROVE  AtLine(After(m, w), F \cup {"CHUNKED"}, n, t, d) /\ w \in Seq(Symbols)
<1>1. PICK x : x = HeadOf(m, CodingName)
  OBVIOUS
<1>2. "chun" \in ValueSymbols /\ "ked" \in ValueSymbols /\ "chun" # SP /\ "ked" # ","
  BY DEF ValueSymbols, Tokens, SP
<1>3. "chun" \in Symbols /\ "ked" \in Symbols
  BY <1>2, TokensAre
<1>4. PICK text : text = <<"chun", "ked">>
  OBVIOUS
<1>5. text \in Seq(Symbols)
  BY <1>3, <1>4
<1>6. Blank(x, "h_transfer_encoding") /\ x.flags = F /\ x.length = n /\ x.start = t /\ x.done = d /\ ~x.closed
  BY <1>1, KnownHeaders, HeaderBegins
<1>7. PICK y1 : y1 = Step(x, "chun")
  OBVIOUS
<1>8. PICK y : y = Step(y1, "ked")
  OBVIOUS
<1>9. ValueStart("h_transfer_encoding", "chun") = "h_matching_transfer_encoding_chunked"
  BY DEF ValueStart
<1>10. HeaderStateNext("h_matching_transfer_encoding_chunked", "ked") = "h_transfer_encoding_chunked"
  BY DEF HeaderStateNext
<1>11. /\ y1 \in Machines /\ ~y1.failed /\ ~y1.closed /\ y1.state = "s_header_value"
       /\ y1.h = "h_matching_transfer_encoding_chunked" /\ y1.flags = F /\ y1.length = n
       /\ y1.start = t /\ y1.done = d
  BY <1>2, <1>6, <1>7, <1>9, ValueFirstIs
<1>12. /\ y \in Machines /\ ~y.failed /\ ~y.closed /\ y.state = "s_header_value"
       /\ y.h = "h_transfer_encoding_chunked" /\ y.flags = F /\ y.length = n
       /\ y.start = t /\ y.done = d
  <2>1. PICK c : c = "ked"
    OBVIOUS
  <2>2. c \in ValueSymbols /\ c # Comma /\ y = Step(y1, c)
    BY <1>2, <1>8, <2>1 DEF Comma
  <2>3. InValue(y1)
    BY <1>11 DEF InValue
  <2>4. /\ y \in Machines /\ ~y.failed /\ y.closed = y1.closed /\ y.state = "s_header_value"
        /\ y.h = HeaderStateNext(y1.h, c) /\ y.flags = y1.flags
        /\ y.length = y1.length /\ y.start = y1.start /\ y.done = y1.done
    BY <2>2, <2>3, ValueStepIs
  <2>5. y.h = "h_transfer_encoding_chunked"
    BY <1>10, <1>11, <2>1, <2>4
  <2> QED
    BY <1>11, <2>2, <2>4, <2>5
<1>13. y = After(x, text)
  BY <1>3, <1>4, <1>6, <1>7, <1>8, AfterTwo DEF Blank
<1>14. PICK G : G = F \cup {"CHUNKED"}
  OBVIOUS
<1>15. ValueRead(y, G, n, t, d)
  BY <1>12, <1>14 DEF FlagOf, ValueRead
<1>16. AtLine(After(m, Written(CodingName, text, e)), G, n, t, d) /\ Written(CodingName, text, e) \in Seq(Symbols)
  BY <1>1, <1>5, <1>13, <1>15, KnownHeaders, HeaderEnds
<1> QED
  BY <1>4, <1>14, <1>16

\* The tokens of a Connection header.
TokenNames == {"keep-alive", "close"} \cup (Tokens \ {"keep", "clo"})
TextFn == [tk \in TokenNames |-> TokenText(tk)]
SaidBy(tk) == IF tk = "keep-alive" THEN {"KEEP"} ELSE IF tk = "close" THEN {"CLOSE"} ELSE {}
Said(ts) == UNION {SaidBy(ts[i]) : i \in 1..Len(ts)}
TokenEnds == {"h_matching_connection_token", "h_connection_keep_alive", "h_connection_close"}
TokenSep == <<",", SP>>
Carries(y, n, t, d) == y \in Machines /\ ~y.failed /\ ~y.closed /\ y.length = n /\ y.start = t /\ y.done = d
AtToken(y, F, n, t, d) ==
    /\ Carries(y, n, t, d) /\ y.flags = F
    /\ \/ y.state = "s_header_value" /\ y.h = "h_matching_connection_token_start"
       \/ y.state = "s_header_value_discard_ws" /\ y.h = "h_connection"
InToken(y, G, n, t, d) ==
    /\ Carries(y, n, t, d) /\ y.flags \cup FlagOf(y.h) = G
    /\ y.state = "s_header_value" /\ y.h \in TokenEnds

\* A token begins, goes on and ends.
LEMMA TokenBegins ==
    ASSUME NEW y, NEW F, NEW n, NEW t, NEW d, AtToken(y, F, n, t, d), NEW c \in Tokens,
           NEW x, x = Step(y, c)
    PROVE  Carries(x, n, t, d) /\ x.flags = F /\ x.state = "s_header_value" /\ x.h = ConnectionToken(c)
<1>1. c \in ValueSymbols /\ c # SP /\ c # Comma
  BY Distinct DEF ValueSymbols, Comma
<1>2. y \in Machines /\ ~y.failed /\ ~y.closed /\ y.length = n /\ y.start = t /\ y.done = d /\ y.flags = F
  BY DEF AtToken, Carries
<1>3. CASE y.state = "s_header_value" /\ y.h = "h_matching_connection_token_start"
  <2>1. InValue(y)
    BY <1>2, <1>3 DEF InValue
  <2>2. /\ x \in Machines /\ ~x.failed /\ x.closed = y.closed /\ x.state = "s_header_value"
        /\ x.h = HeaderStateNext(y.h, c) /\ x.flags = y.flags
        /\ x.length = y.length /\ x.start = y.start /\ x.done = y.done
    BY <1>1, <2>1, ValueStepIs
  <2>3. HeaderStateNext("h_matching_connection_token_start", c) = ConnectionToken(c)
    BY DEF HeaderStateNext
  <2> QED
    BY <1>2, <1>3, <2>2, <2>3 DEF Carries
<1>4. CASE y.state = "s_header_value_discard_ws" /\ y.h = "h_connection"
  <2>1. Blank(y, "h_connection")
    BY <1>2, <1>4 DEF Blank
  <2>2. /\ x \in Machines /\ ~x.failed /\ x.closed = y.closed /\ x.state = "s_header_value"
        /\ x.h = ValueStart("h_connection", c) /\ x.flags = y.flags
        /\ x.length = y.length /\ x.start = y.start /\ x.done = y.done
    BY <1>1, <2>1, ValueFirstIs
  <2>3. ValueStart("h_connection", c) = ConnectionToken(c)
    BY DEF ValueStart
  <2> QED
    BY <1>2, <2>2, <2>3 DEF Carries
<1> QED
  BY <1>3, <1>4 DEF AtToken

LEMMA TokenTexts ==
    ASSUME NEW tk \in TokenNames
    PROVE  TokenText(tk) \in Seq(Symbols) /\ TextFn[tk] = TokenText(tk)
<1>1. {"keep", "alive", "clo", "se"} \subseteq Tokens
  BY DEF Tokens
<1>2. {"keep", "alive", "clo", "se"} \subseteq Symbols
  BY <1>1, TokensAre
<1>3. CASE tk = "keep-alive"
  <2>1. TokenText(tk) = <<"keep", "alive">>
    BY <1>3 DEF TokenText
  <2>2. <<"keep", "alive">> \in Seq(Symbols)
    BY <1>2
  <2> QED
    BY <2>1, <2>2 DEF TextFn
<1>4. CASE tk = "close"
  <2>1. TokenText(tk) = <<"clo", "se">>
    BY <1>4 DEF TokenText
  <2>2. <<"clo", "se">> \in Seq(Symbols)
    BY <1>2
  <2> QED
    BY <2>1, <2>2 DEF TextFn
<1>5. CASE tk # "keep-alive" /\ tk # "close"
  <2>1. TokenText(tk) = <<tk>>
    BY <1>5 DEF TokenText
  <2>2. tk \in Symbols
    BY <1>5, TokensAre DEF TokenNames
  <2> QED
    BY <2>1, <2>2 DEF TextFn
<1> QED
  BY <1>3, <1>4, <1>5

LEMMA TokenPair ==
    ASSUME NEW y, NEW F, NEW n, NEW t, NEW d, AtToken(y, F, n, t, d), NEW a \in Tokens, NEW b \in Tokens,
           NEW h \in TokenEnds, h = HeaderStateNext(ConnectionToken(a), b), ConnectionToken(a) # "h_content_length"
    PROVE  InToken(After(y, <<a, b>>), F \cup FlagOf(h), n, t, d)
<1>1. y \in Machines /\ a \in Symbols /\ b \in Symbols /\ b \in ValueSymbols /\ b # Comma
  BY TokensAre, Distinct DEF AtToken, Carries, ValueSymbols, Comma
<1>2. PICK x : x = Step(y, a)
  OBVIOUS
<1>3. Carries(x, n, t, d) /\ x.flags = F /\ x.state = "s_header_value" /\ x.h = ConnectionToken(a)
  BY <1>2, TokenBegins
<1>4. PICK z : z = Step(x, b)
  OBVIOUS
<1>5. InValue(x)
  BY <1>3 DEF InValue, Carries
<1>6. /\ z \in Machines /\ ~z.failed /\ z.closed = x.closed /\ z.state = "s_header_value"
      /\ z.h = HeaderStateNext(x.h, b) /\ z.flags = x.flags
      /\ z.length = x.length /\ z.start = x.start /\ z.done = x.done
  BY <1>1, <1>4, <1>5, ValueStepIs
<1>7. After(y, <<a, b>>) = z
  BY <1>1, <1>2, <1>4, AfterTwo
<1>8. z.h = h /\ z.flags = F /\ Carries(z, n, t, d)
  BY <1>3, <1>6 DEF Carries
<1>9. InToken(z, F \cup FlagOf(h), n, t, d)
  BY <1>6, <1>8 DEF InToken
<1> QED
  BY <1>7, <1>9

\* One token of a Connection header.
LEMMA TokenRun ==
    ASSUME NEW y, NEW F, NEW n, NEW t, NEW d, AtToken(y, F, n, t, d), NEW tk \in TokenNames
    PROVE  InToken(After(y, TokenText(tk)), F \cup SaidBy(tk), n, t, d)
<1>1. {"keep", "alive", "clo", "se"} \subseteq Tokens
  BY DEF Tokens
<1>2. {"h_matching_connection_token", "h_connection_keep_alive", "h_connection_close"} = TokenEnds
  BY DEF TokenEnds
<1>3. CASE tk = "keep-alive"
  <2>1. TokenText(tk) = <<"keep", "alive">> /\ SaidBy(tk) = {"KEEP"}
    BY <1>3 DEF TokenText, SaidBy
  <2>2. /\ ConnectionToken("keep") # "h_content_length"
        /\ "h_connection_keep_alive" = HeaderStateNext(ConnectionToken("keep"), "alive")
    BY DEF ConnectionToken, HeaderStateNext
  <2>3. FlagOf("h_connection_keep_alive") = {"KEEP"}
    BY DEF FlagOf
  <2> QED
    BY <1>1, <1>2, <2>1, <2>2, <2>3, TokenPair
<1>4. CASE tk = "close"
  <2>1. TokenText(tk) = <<"clo", "se">> /\ SaidBy(tk) = {"CLOSE"}
    BY <1>4 DEF TokenText, SaidBy
  <2>2. /\ ConnectionToken("clo") # "h_content_length"
        /\ "h_connection_close" = HeaderStateNext(ConnectionToken("clo"), "se")
    BY DEF ConnectionToken, HeaderStateNext
  <2>3. FlagOf("h_connection_close") = {"CLOSE"}
    BY DEF FlagOf
  <2> QED
    BY <1>1, <1>2, <2>1, <2>2, <2>3, TokenPair
<1>5. CASE tk # "keep-alive" /\ tk # "close"
  <2>1. TokenText(tk) = <<tk>> /\ SaidBy(tk) = {}
    BY <1>5 DEF TokenText, SaidBy
  <2>2. tk \in Tokens /\ tk \in Symbols /\ y \in Machines
    BY <1>5, TokensAre DEF TokenNames, AtToken, Carries
  <2>3. ConnectionToken(tk) = "h_matching_connection_token"
    BY <1>5 DEF TokenNames, ConnectionToken
  <2>4. PICK x : x = Step(y, tk)
    OBVIOUS
  <2>5. Carries(x, n, t, d) /\ x.flags = F /\ x.state = "s_header_value" /\ x.h = ConnectionToken(tk)
    BY <2>2, <2>4, TokenBegins
  <2>6. FlagOf("h_matching_connection_token") = {}
    BY DEF FlagOf
  <2>7. InToken(x, F, n, t, d)
    BY <1>2, <2>3, <2>5, <2>6 DEF InToken
  <2>8. After(y, <<tk>>) = x
    BY <2>2, <2>4, AfterOne
  <2>9. F \cup SaidBy(tk) = F
    BY <2>1
  <2> QED
    BY <2>1, <2>7, <2>8, <2>9
<1> QED
  BY <1>3, <1>4, <1>5

LEMMA TokenSepRun ==
    ASSUME NEW y, NEW G, NEW n, NEW t, NEW d, InToken(y, G, n, t, d)
    PROVE  AtToken(After(y, TokenSep), G, n, t, d) /\ TokenSep \in Seq(Symbols)
<1>1. Comma \in ValueSymbols /\ SP \in ValueSymbols /\ SP # Comma
  BY DEF ValueSymbols, Comma, SP
<1>2. Comma \in Symbols /\ SP \in Symbols
  BY <1>1, TokensAre
<1>3. y \in Machines /\ y.flags \cup FlagOf(y.h) = G /\ y.h \in TokenEnds
  BY DEF InToken, Carries
<1>4. InValue(y)
  BY DEF InToken, Carries, InValue, TokenEnds
<1>5. PICK x : x = Step(y, Comma)
  OBVIOUS
<1>6. /\ x \in Machines /\ ~x.failed /\ x.closed = y.closed /\ x.state = "s_header_value"
      /\ x.h = HeaderStateNext(y.h, Comma) /\ x.flags = y.flags \cup (FlagOf(y.h) \ {"CHUNKED"})
      /\ x.length = y.length /\ x.start = y.start /\ x.done = y.done
  BY <1>1, <1>4, <1>5, ValueStepIs
<1>7. FlagOf(y.h) \ {"CHUNKED"} = FlagOf(y.h)
  BY <1>3 DEF TokenEnds, FlagOf
<1>8. HeaderStateNext(y.h, Comma) = "h_matching_connection_token_start"
  BY <1>3 DEF TokenEnds, HeaderStateNext, Comma
<1>9. x.flags = G /\ x.h = "h_matching_connection_token_start"
  BY <1>3, <1>6, <1>7, <1>8
<1>10. InValue(x)
  BY <1>6, <1>9 DEF InValue
<1>11. PICK z : z = Step(x, SP)
  OBVIOUS
<1>12. /\ z \in Machines /\ ~z.failed /\ z.closed = x.closed /\ z.state = "s_header_value"
       /\ z.h = HeaderStateNext(x.h, SP) /\ z.flags = x.flags
       /\ z.length = x.length /\ z.start = x.start /\ z.done = x.done
  BY <1>1, <1>10, <1>11, ValueStepIs
<1>13. HeaderStateNext("h_matching_connection_token_start", SP) = "h_matching_connection_token_start"
  <2>1. SP \notin Tokens
    BY Distinct
  <2> QED
    BY <2>1 DEF HeaderStateNext
<1>14. AtToken(z, G, n, t, d)
  BY <1>6, <1>9, <1>12, <1>13 DEF AtToken, InToken, Carries
<1>15. After(y, <<Comma, SP>>) = z
  BY <1>2, <1>3, <1>5, <1>11, AfterTwo
<1>16. TokenSep = <<Comma, SP>>
  BY DEF TokenSep, Comma
<1>17. <<Comma, SP>> \in Seq(Symbols)
  BY <1>2
<1> QED
  BY <1>14, <1>15, <1>16, <1>17

ListText(ts) == Joined(Mapped(TextFn, ts), TokenSep)

LEMMA SaidAppend ==
    ASSUME NEW ts \in Seq(TokenNames), NEW tk \in TokenNames
    PROVE  Said(Append(ts, tk)) = Said(ts) \cup SaidBy(tk)
<1>1. PICK w : w = Append(ts, tk)
  OBVIOUS
<1>2. PICK n : n = Len(ts)
  OBVIOUS
<1>3. n \in Nat /\ Len(w) = n + 1 /\ w[n + 1] = tk /\ \A k \in 1..n : w[k] = ts[k]
  BY <1>1, <1>2, AppendIs
<1>4. Said(w) = UNION {SaidBy(w[i]) : i \in 1..n + 1}
  BY <1>3 DEF Said
<1>5. Said(ts) = UNION {SaidBy(ts[i]) : i \in 1..n}
  BY <1>2 DEF Said
<1>6. ASSUME NEW f PROVE f \in Said(w) <=> f \in Said(ts) \/ f \in SaidBy(tk)
  <2>1. f \in Said(w) <=> \E i \in 1..n + 1 : f \in SaidBy(w[i])
    BY <1>4
  <2>2. f \in Said(ts) <=> \E i \in 1..n : f \in SaidBy(ts[i])
    BY <1>5
  <2>3. ASSUME NEW i \in 1..n + 1, f \in SaidBy(w[i]) PROVE f \in Said(ts) \/ f \in SaidBy(tk)
    <3>1. CASE i = n + 1
      BY <1>3, <2>3, <3>1
    <3>2. CASE i # n + 1
      <4>1. i \in 1..n /\ w[i] = ts[i]
        BY <1>3, <3>2
      <4> QED
        BY <2>2, <2>3, <4>1
    <3> QED
      BY <3>1, <3>2
  <2>4. ASSUME NEW i \in 1..n, f \in SaidBy(ts[i]) PROVE f \in Said(w)
    <3>1. i \in 1..n + 1 /\ w[i] = ts[i]
      BY <1>3
    <3> QED
      BY <2>1, <2>4, <3>1
  <2>5. f \in SaidBy(tk) => f \in Said(w)
    <3>1. n + 1 \in 1..n + 1
      BY <1>3
    <3> QED
      BY <1>3, <2>1, <3>1
  <2> QED
    BY <2>1, <2>2, <2>3, <2>4, <2>5
<1> QED
  BY <1>1, <1>6

LEMMA SaidEmpty == Said(<<>>) = {}
BY DEF Said

LEMMA TextFnType == \A tk \in TokenNames : TextFn[tk] \in Seq(Symbols)
BY TokenTexts

LEMMA ListTextIs ==
    ASSUME NEW ts \in Seq(TokenNames)
    PROVE  ListText(ts) \in Seq(Symbols) /\ TokenSep \in Seq(Symbols) /\ Mapped(TextFn, ts) \in Texts
<1>1. TokenSep \in Seq(Symbols)
  <2>1. Comma \in Symbols /\ SP \in Symbols
    <3>1. Comma \in ValueSymbols /\ SP \in ValueSymbols
      BY DEF ValueSymbols, Comma, SP
    <3> QED
      BY <3>1, TokensAre
  <2>2. TokenSep = <<Comma, SP>>
    BY DEF TokenSep, Comma
  <2>3. <<Comma, SP>> \in Seq(Symbols)
    BY <2>1
  <2> QED
    BY <2>2, <2>3
<1>2. Mapped(TextFn, ts) \in Texts
  BY TextFnType, MapIs
<1> QED
  BY <1>1, <1>2, JoinedType DEF ListText

LEMMA ListTextAppend ==
    ASSUME NEW ts \in Seq(TokenNames), NEW tk \in TokenNames
    PROVE  /\ ts = <<>> => ListText(Append(ts, tk)) = TokenText(tk)
           /\ ts # <<>> => ListText(Append(ts, tk)) = ListText(ts) \o (TokenSep \o TokenText(tk))
<1>1. PICK a : a = Mapped(TextFn, ts)
  OBVIOUS
<1>2. PICK q : q = TokenText(tk)
  OBVIOUS
<1>3. q \in Seq(Symbols) /\ TextFn[tk] = q
  BY <1>2, TokenTexts
<1>4. a \in Texts /\ Len(a) = Len(ts)
  BY <1>1, TextFnType, MapIs
<1>5. Mapped(TextFn, Append(ts, tk)) = Append(a, q)
  <2>1. Mapped(TextFn, Append(ts, tk)) = Append(Mapped(TextFn, ts), TextFn[tk])
    BY TextFnType, MapAppend
  <2> QED
    BY <1>1, <1>3, <2>1
<1>6. a = <<>> <=> ts = <<>>
  <2>1. (Len(a) = 0 <=> a = <<>>) /\ (Len(ts) = 0 <=> ts = <<>>)
    BY <1>4 DEF Texts
  <2> QED
    BY <1>4, <2>1
<1>7. Joined(Append(a, q), TokenSep) = IF a = <<>> THEN q ELSE Joined(a, TokenSep) \o (TokenSep \o q)
  BY <1>3, <1>4, ListTextIs, JoinedAppend
<1> QED
  BY <1>1, <1>2, <1>5, <1>6, <1>7 DEF ListText

\* All of them: the flags are those that the tokens ask for.
LEMMA TokensRun ==
    ASSUME NEW y, NEW F, NEW n, NEW t, NEW d, AtToken(y, F, n, t, d)
    PROVE  \A ts \in Seq(TokenNames) :
              ts # <<>> => InToken(After(y, ListText(ts)), F \cup Said(ts), n, t, d)
<1> DEFINE G == {ts \in Seq(TokenNames) :
                    ts # <<>> => InToken(After(y, ListText(ts)), F \cup Said(ts), n, t, d)}
<1>0. y \in Machines
  BY DEF AtToken, Carries
<1>1. <<>> \in G
  <2>1. <<>> \in Seq(TokenNames)
    OBVIOUS
  <2> QED
    BY <2>1
<1>2. ASSUME NEW ts \in Seq(TokenNames), NEW tk \in TokenNames, ts \in G PROVE Append(ts, tk) \in G
  <2>1. Append(ts, tk) \in Seq(TokenNames)
    BY AppendIs
  <2>2. PICK H : H = F \cup Said(ts)
    OBVIOUS
  <2>3. F \cup Said(Append(ts, tk)) = H \cup SaidBy(tk)
    <3>1. Said(Append(ts, tk)) = Said(ts) \cup SaidBy(tk)
      BY SaidAppend
    <3> QED
      BY <2>2, <3>1
  <2>4. InToken(After(y, ListText(Append(ts, tk))), H \cup SaidBy(tk), n, t, d)
    <3>1. CASE ts = <<>>
      <4>1. H = F
        BY <2>2, <3>1, SaidEmpty
      <4>2. InToken(After(y, TokenText(tk)), F \cup SaidBy(tk), n, t, d)
        BY TokenRun
      <4>3. ListText(Append(ts, tk)) = TokenText(tk)
        BY <3>1, ListTextAppend
      <4> QED
        BY <4>1, <4>2, <4>3
    <3>2. CASE ts # <<>>
      <4>1. PICK a : a = ListText(ts)
        OBVIOUS
      <4>2. PICK x : x = After(y, a)
        OBVIOUS
      <4>3. InToken(x, H, n, t, d) /\ a \in Seq(Symbols)
        BY <1>2, <2>2, <3>2, <4>1, <4>2, ListTextIs
      <4>4. PICK z : z = After(x, TokenSep)
        OBVIOUS
      <4>5. AtToken(z, H, n, t, d) /\ TokenSep \in Seq(Symbols)
        BY <4>3, <4>4, TokenSepRun
      <4>6. PICK q : q = TokenText(tk)
        OBVIOUS
      <4>7. InToken(After(z, q), H \cup SaidBy(tk), n, t, d) /\ q \in Seq(Symbols)
        BY <4>5, <4>6, TokenRun, TokenTexts
      <4>8. x \in Machines
        BY <4>3 DEF InToken, Carries
      <4>9. After(x, TokenSep \o q) = After(After(x, TokenSep), q) /\ TokenSep \o q \in Seq(Symbols)
        BY <4>5, <4>7, <4>8, AfterBoth
      <4>10. PICK s2 : s2 = TokenSep \o q
        OBVIOUS
      <4>11. After(y, a \o s2) = After(After(y, a), s2)
        BY <1>0, <4>3, <4>9, <4>10, AfterBoth
      <4>12. ListText(Append(ts, tk)) = a \o s2
        BY <3>2, <4>1, <4>6, <4>10, ListTextAppend
      <4> QED
        BY <4>2, <4>4, <4>7, <4>9, <4>10, <4>11, <4>12
    <3> QED
      BY <3>1, <3>2
  <2> QED
    BY <2>1, <2>3, <2>4
<1> HIDE DEF G
<1>3. \A ts \in Seq(TokenNames) : ts \in G
  BY <1>1, <1>2, SeqInduction
<1> QED
  BY <1>3 DEF G

\* The Connection header.
LEMMA ConnectionHeaderRun ==
    ASSUME NEW m, NEW F, NEW n, NEW t, NEW d, AtLine(m, F, n, t, d), NEW e \in Eols,
           NEW ts \in Seq(TokenNames), ts # <<>>
    PROVE  /\ AtLine(After(m, Written(ConnName, ListText(ts), e)), F \cup Said(ts), n, t, d)
           /\ Written(ConnName, ListText(ts), e) \in Seq(Symbols)
<1>1. PICK x : x = HeadOf(m, ConnName)
  OBVIOUS
<1>2. Blank(x, "h_connection") /\ x.flags = F /\ x.length = n /\ x.start = t /\ x.done = d /\ ~x.closed
  BY <1>1, KnownHeaders, HeaderBegins
<1>3. AtToken(x, F, n, t, d)
  BY <1>2 DEF AtToken, Carries, Blank
<1>4. PICK y : y = After(x, ListText(ts))
  OBVIOUS
<1>5. PICK G : G = F \cup Said(ts)
  OBVIOUS
<1>6. InToken(y, G, n, t, d)
  BY <1>3, <1>4, <1>5, TokensRun
<1>7. ValueRead(y, G, n, t, d)
  BY <1>6 DEF InToken, Carries, ValueRead
<1>8. ListText(ts) \in Seq(Symbols)
  BY ListTextIs
<1>9. AtLine(After(m, Written(ConnName, ListText(ts), e)), G, n, t, d) /\ Written(ConnName, ListText(ts), e) \in Seq(Symbols)
  BY <1>1, <1>4, <1>7, <1>8, KnownHeaders, HeaderEnds
<1> QED
  BY <1>5, <1>9

\* The bytes of headers, one after the other.
LEMMA BytesOfIs ==
    ASSUME NEW r, NEW T, \A x \in T : HeaderBytes(r, x) \in Seq(Symbols)
    PROVE  \A hs \in Seq(T) : /\ BytesOf(r, hs) = Blocks([x \in T |-> HeaderBytes(r, x)], hs)
                              /\ BytesOf(r, hs) \in Seq(Symbols)
<1>1. PICK F : F = [x \in T |-> HeaderBytes(r, x)]
  OBVIOUS
<1>2. \A x \in T : F[x] = HeaderBytes(r, x) /\ F[x] \in Seq(Symbols)
  BY <1>1
<1>3. ASSUME NEW hs \in Seq(T)
      PROVE  BytesOf(r, hs) = Blocks(F, hs) /\ BytesOf(r, hs) \in Seq(Symbols)
  <2>1. \A i \in 1..Len(hs) : hs[i] \in T
    BY <1>3
  <2>2. PICK g : g = [i \in 1..Len(hs) |-> HeaderBytes(r, hs[i])]
    OBVIOUS
  <2>3. g = [i \in 1..Len(hs) |-> F[hs[i]]]
    BY <1>2, <2>1, <2>2
  <2>4. FlattenSeq(g) = Blocks(F, hs) /\ Blocks(F, hs) \in Seq(Symbols)
    BY <1>2, <1>3, <2>3, MapIs
  <2>5. BytesOf(r, hs) = FlattenSeq(g)
    BY <2>2 DEF BytesOf
  <2> QED
    BY <2>4, <2>5
<1> QED
  BY <1>1, <1>3

LEMMA BytesOfAppend ==
    ASSUME NEW r, NEW T, \A x \in T : HeaderBytes(r, x) \in Seq(Symbols), NEW hs \in Seq(T), NEW h \in T
    PROVE  BytesOf(r, Append(hs, h)) = BytesOf(r, hs) \o HeaderBytes(r, h)
<1>1. PICK F : F = [x \in T |-> HeaderBytes(r, x)]
  OBVIOUS
<1>2. \A x \in T : F[x] = HeaderBytes(r, x) /\ F[x] \in Seq(Symbols)
  BY <1>1
<1>3. Append(hs, h) \in Seq(T)
  BY AppendIs
<1>4. BytesOf(r, Append(hs, h)) = Blocks(F, Append(hs, h)) /\ BytesOf(r, hs) = Blocks(F, hs)
  BY <1>1, <1>3, BytesOfIs
<1>5. Blocks(F, Append(hs, h)) = Blocks(F, hs) \o F[h]
  BY <1>2, BlocksAppend
<1> QED
  BY <1>2, <1>4, <1>5

LEMMA HeaderBytesIs ==
    ASSUME NEW r, NEW h
    PROVE  HeaderBytes(r, h) = Written(h.name, Joined(h.lines, r.eol \o <<SP>>), r.eol)
BY DEF HeaderBytes, Written, NameLead

LEMMA FormedIs ==
    ASSUME NEW h, HeaderFormed(h)
    PROVE  /\ h.name \in Seq(Tokens) /\ h.name \notin KnownNames \cup {<<>>} /\ h.name # <<>>
           /\ h.lines \in LineTexts /\ Formed(h.lines)
BY DEF HeaderFormed, Formed, LineTexts

\* A header that is not known.
LEMMA FieldRun ==
    ASSUME NEW m, NEW F, NEW n, NEW t, NEW d, AtLine(m, F, n, t, d), NEW r, r.eol \in Eols,
           NEW h, HeaderFormed(h)
    PROVE  AtLine(After(m, HeaderBytes(r, h)), F, n, t, d) /\ HeaderBytes(r, h) \in Seq(Symbols)
<1>1. PICK e : e = r.eol
  OBVIOUS
<1>2. e \in Eols
  BY <1>1
<1>3. PICK text : text = Joined(h.lines, e \o <<SP>>)
  OBVIOUS
<1>4. PICK name : name = h.name
  OBVIOUS
<1>5. PICK ls : ls = h.lines
  OBVIOUS
<1>6. name \in Seq(Tokens) /\ name \notin KnownNames \cup {<<>>} /\ ls \in LineTexts /\ Formed(ls)
  BY <1>4, <1>5, FormedIs
<1>7. text = Joined(ls, e \o <<SP>>)
  BY <1>3, <1>5
<1>8. /\ AtLine(After(m, name \o NameLead \o text \o e), F, n, t, d)
      /\ name \o NameLead \o text \o e \in Seq(Symbols)
  BY <1>2, <1>6, <1>7, DullHeader
<1>9. HeaderBytes(r, h) = name \o NameLead \o text \o e
  BY <1>1, <1>3, <1>4, HeaderBytesIs DEF Written
<1> QED
  BY <1>8, <1>9

\* Any number of them.
AllFormed(hs) == IsSequence(hs) /\ \A i \in DOMAIN hs : HeaderFormed(hs[i])

LEMMA AllFormedIs ==
    ASSUME NEW hs, AllFormed(hs)
    PROVE  hs \in Seq(ToSet(hs)) /\ \A h \in ToSet(hs) : HeaderFormed(h)
BY DEF AllFormed, IsSequence, ToSet

LEMMA FieldBytes ==
    ASSUME NEW r, r.eol \in Eols, NEW h, HeaderFormed(h)
    PROVE  HeaderBytes(r, h) \in Seq(Symbols)
<1>1. PICK m : m = To(Start, "s_header_field_start")
  OBVIOUS
<1>2. "s_header_field_start" \in ParserStates
  BY DEF ParserStates
<1>3. m \in Machines
  BY <1>1, <1>2, StartType, ToType
<1>4. m.state = "s_header_field_start" /\ ~m.failed /\ ~m.closed
  BY <1>1 DEF To, Start
<1>5. AtLine(m, m.flags, m.length, m.start, m.done)
  BY <1>3, <1>4 DEF AtLine
<1> QED
  BY <1>5, FieldRun

LEMMA FieldsRun ==
    ASSUME NEW m, NEW F, NEW n, NEW t, NEW d, AtLine(m, F, n, t, d), NEW r, r.eol \in Eols,
           NEW hs, AllFormed(hs)
    PROVE  AtLine(After(m, BytesOf(r, hs)), F, n, t, d) /\ BytesOf(r, hs) \in Seq(Symbols)
<1>1. PICK T : T = ToSet(hs)
  OBVIOUS
<1>2. hs \in Seq(T) /\ \A h \in T : HeaderFormed(h)
  BY <1>1, AllFormedIs
<1>3. \A h \in T : HeaderBytes(r, h) \in Seq(Symbols)
  BY <1>2, FieldBytes
<1>4. PICK B : B = [x \in T |-> HeaderBytes(r, x)]
  OBVIOUS
<1>5. \A x \in T : B[x] = HeaderBytes(r, x) /\ B[x] \in Seq(Symbols)
  BY <1>3, <1>4
<1>6. PICK S : S = {x \in Machines : AtLine(x, F, n, t, d)}
  OBVIOUS
<1>7. S \subseteq Machines /\ m \in S
  BY <1>6 DEF AtLine
<1>8. ASSUME NEW x \in S, NEW c \in T PROVE After(x, B[c]) \in S
  <2>1. AtLine(x, F, n, t, d)
    BY <1>6
  <2>2. AtLine(After(x, HeaderBytes(r, c)), F, n, t, d)
    BY <1>2, <2>1, FieldRun
  <2>3. After(x, HeaderBytes(r, c)) \in Machines
    BY <2>2 DEF AtLine
  <2> QED
    BY <1>5, <1>6, <2>2, <2>3
<1>9. After(m, Blocks(B, hs)) \in S
  BY <1>2, <1>5, <1>7, <1>8, BlocksRun
<1>10. BytesOf(r, hs) = Blocks(B, hs) /\ BytesOf(r, hs) \in Seq(Symbols)
  BY <1>2, <1>3, <1>4, BytesOfIs
<1> QED
  BY <1>6, <1>9, <1>10

\* Headers whose value is a line.
Header(name, x) == [name |-> name, lines |-> <<x>>]

LEMMA JoinedOne ==
    ASSUME NEW x \in Seq(Symbols), NEW sep \in Seq(Symbols)
    PROVE  Joined(<<x>>, sep) = x
<1>1. PICK ps : ps = <<>>
  OBVIOUS
<1>2. ps \in Texts
  <2>1. <<>> \in Seq(Seq(Symbols))
    OBVIOUS
  <2> QED
    BY <1>1, <2>1 DEF Texts
<1>3. Append(ps, x) = <<x>>
  BY <1>1
<1>4. Joined(Append(ps, x), sep) = x
  BY <1>1, <1>2, JoinedAppend
<1> QED
  BY <1>3, <1>4

LEMMA HeaderIs ==
    ASSUME NEW r, r.eol \in Eols, NEW name, NEW x \in Seq(Symbols)
    PROVE  HeaderBytes(r, Header(name, x)) = Written(name, x, r.eol)
<1>1. PICK e : e = r.eol
  OBVIOUS
<1>2. e \in Seq(Symbols)
  BY <1>1, ControlsAre
<1>3. PICK b : b = <<SP>>
  OBVIOUS
<1>4. b \in Seq(Symbols)
  <2>1. <<SP>> \in Seq(Symbols)
    BY ControlsAre
  <2> QED
    BY <1>3, <2>1
<1>5. e \o b \in Seq(Symbols)
  BY <1>2, <1>4, ConcatIs
<1>6. Joined(<<x>>, e \o b) = x
  BY <1>5, JoinedOne
<1>7. Header(name, x).name = name /\ Header(name, x).lines = <<x>>
  BY DEF Header
<1>8. PICK h : h = Header(name, x)
  OBVIOUS
<1>9. HeaderBytes(r, h) = Written(h.name, Joined(h.lines, r.eol \o <<SP>>), r.eol)
  BY HeaderBytesIs
<1>10. h.name = name /\ h.lines = <<x>>
  BY <1>7, <1>8
<1> QED
  BY <1>1, <1>3, <1>6, <1>8, <1>9, <1>10

\* One header more.
HasBytes(r, hs) == \E T : hs \in Seq(T) /\ \A x \in T : HeaderBytes(r, x) \in Seq(Symbols)

LEMMA MoreBytes ==
    ASSUME NEW r, NEW hs, HasBytes(r, hs), NEW h, HeaderBytes(r, h) \in Seq(Symbols)
    PROVE  /\ HasBytes(r, hs \o <<h>>) /\ BytesOf(r, hs) \in Seq(Symbols)
           /\ BytesOf(r, hs \o <<h>>) = BytesOf(r, hs) \o HeaderBytes(r, h)
<1>1. PICK T : hs \in Seq(T) /\ \A x \in T : HeaderBytes(r, x) \in Seq(Symbols)
  BY DEF HasBytes
<1>2. PICK S : S = T \cup {h}
  OBVIOUS
<1>3. hs \in Seq(S)
  <2>1. T \subseteq S
    BY <1>2
  <2> QED
    BY <1>1, <2>1
<1>4. h \in S /\ \A x \in S : HeaderBytes(r, x) \in Seq(Symbols)
  BY <1>1, <1>2
<1>5. BytesOf(r, Append(hs, h)) = BytesOf(r, hs) \o HeaderBytes(r, h)
  BY <1>3, <1>4, BytesOfAppend
<1>6. Append(hs, h) = hs \o <<h>> /\ Append(hs, h) \in Seq(S)
  BY <1>3, <1>4, ConcatIs, AppendIs
<1>7. BytesOf(r, hs) \in Seq(Symbols)
  BY <1>3, <1>4, BytesOfIs
<1>8. HasBytes(r, Append(hs, h))
  BY <1>4, <1>6 DEF HasBytes
<1> QED
  BY <1>5, <1>6, <1>7, <1>8

LEMMA FormedBytes ==
    ASSUME NEW r, r.eol \in Eols, NEW hs, AllFormed(hs)
    PROVE  HasBytes(r, hs) /\ hs \o <<>> = hs
<1>1. PICK T : T = ToSet(hs)
  OBVIOUS
<1>2. hs \in Seq(T) /\ \A h \in T : HeaderFormed(h)
  BY <1>1, AllFormedIs
<1>3. \A h \in T : HeaderBytes(r, h) \in Seq(Symbols)
  BY <1>2, FieldBytes
<1> QED
  BY <1>2, <1>3, ConcatIs DEF HasBytes

\* The Connection header.
LEMMA ConnectionIs ==
    ASSUME NEW r, NEW ts \in Seq(TokenNames), r.connection = ts
    PROVE  ConnectionHeader(r) = IF ts = <<>> THEN <<>> ELSE <<Header(ConnName, ListText(ts))>>
<1>1. PICK g : g = [i \in 1..Len(ts) |-> TokenText(ts[i])]
  OBVIOUS
<1>2. g = Mapped(TextFn, ts)
  <2>1. \A i \in 1..Len(ts) : ts[i] \in TokenNames
    OBVIOUS
  <2>2. \A i \in 1..Len(ts) : TextFn[ts[i]] = TokenText(ts[i])
    BY <2>1, TokenTexts
  <2> QED
    BY <1>1, <2>2 DEF Mapped
<1>3. Joined(g, TokenSep) = ListText(ts)
  BY <1>2 DEF ListText
<1>4. ConnectionHeader(r) = IF ts = <<>> THEN <<>>
                            ELSE <<[name |-> ConnName, lines |-> <<Joined(g, TokenSep)>>]>>
  BY <1>1 DEF ConnectionHeader, ConnName, TokenSep
<1> QED
  BY <1>3, <1>4 DEF Header

ByLength(r) == r.coding = "length"
ByChunks(r) == r.coding = "chunked"
ByEnd(r) == r.coding = "eof"
Bodiless(r) == r.coding = "none"

LEMMA CodingsAre ==
    ASSUME NEW r
    PROVE  /\ ByLength(r) => ~ByChunks(r) /\ ~ByEnd(r) /\ ~Bodiless(r)
           /\ ByChunks(r) => ~ByEnd(r) /\ ~Bodiless(r) /\ ~ByLength(r)
           /\ ByEnd(r) => ~Bodiless(r) /\ ~ByLength(r) /\ ~ByChunks(r)
BY DEF ByLength, ByChunks, ByEnd, Bodiless

LEMMA SeqIn == ASSUME NEW S, NEW T, S \subseteq T PROVE Seq(S) \subseteq Seq(T)
OBVIOUS

\* What is known of a response that a server may send.
LEMMA WellFormedIs ==
    ASSUME NEW r, WellFormed(r)
    PROVE  /\ r.start \in StartLines /\ r.eol \in Eols /\ r.after \in Seq({CR, LF})
           /\ r.connection \in Seq(TokenNames) /\ AllFormed(r.fields) /\ AllFormed(r.trailer)
           /\ (r.trailer # <<>> => ByChunks(r)) /\ r.huge \in BOOLEAN
           /\ r.parts \in Texts /\ BodyFormed(r)
<1>1. r.connection \in Seq(TokenNames)
  BY DEF WellFormed, TokenNames
<1>2. AllFormed(r.fields) /\ AllFormed(r.trailer)
  BY DEF WellFormed, AllFormed
<1>3. r.parts \in Texts
  <2>1. r.parts \in Seq(Seq(STRING))
    BY DEF WellFormed, BodyFormed
  <2>2. STRING \subseteq Symbols
    BY DEF Symbols
  <2>3. PICK Q : Q = STRING
    OBVIOUS
  <2>4. Seq(Q) \subseteq Seq(Symbols)
    BY <2>2, <2>3, SeqIn
  <2>5. Seq(Seq(Q)) \subseteq Seq(Seq(Symbols))
    BY <2>4, SeqIn
  <2> QED
    BY <2>1, <2>3, <2>5 DEF Texts
<1> QED
  BY <1>1, <1>2, <1>3 DEF WellFormed, Eols, ByChunks

LEMMA BodyFormedIs ==
    ASSUME NEW r, BodyFormed(r)
    PROVE  /\ Bodiless(r) => NoBody(r.start) /\ r.parts = <<>>
           /\ ByEnd(r) => ~NoBody(r.start)
           /\ ByLength(r) => HasRoom(Len(Body(r)))
           /\ ByChunks(r) => \A i \in DOMAIN r.parts : r.parts[i] # <<>> /\ HasRoom(Len(r.parts[i]))
           /\ Bodiless(r) \/ ByEnd(r) \/ ByLength(r) \/ ByChunks(r)
           /\ r.huge => ByLength(r) \/ (ByChunks(r) /\ r.parts # <<>>)
<1> USE DEF BodyFormed, ByLength, ByChunks, ByEnd, Bodiless
<1>1. CASE r.coding = "none"
  BY <1>1
<1>2. CASE r.coding = "eof"
  BY <1>2
<1>3. CASE r.coding = "length"
  BY <1>3
<1>4. CASE r.coding = "chunked"
  BY <1>4
<1>5. CASE r.coding \notin {"none", "eof", "length", "chunked"}
  BY <1>5
<1> QED
  BY <1>1, <1>2, <1>3, <1>4, <1>5

LEMMA BodyIs ==
    ASSUME NEW r, WellFormed(r)
    PROVE  Body(r) \in Seq(Symbols) /\ Len(Body(r)) \in Nat
<1>1. r.parts \in Texts
  BY WellFormedIs
<1>2. PICK ps : ps = r.parts
  OBVIOUS
<1>3. Flat(ps) \in Seq(Symbols) /\ FlattenSeq(ps) = Flat(ps)
  BY <1>1, <1>2, FlatType, FlattenIs
<1>4. Body(r) = FlattenSeq(ps)
  BY <1>2 DEF Body
<1> QED
  BY <1>3, <1>4

LEMMA CodingIs ==
    ASSUME NEW r
    PROVE  /\ ByLength(r) => CodingHeader(r) = <<Header(LengthName, Size(r, Len(Body(r))))>>
           /\ ByChunks(r) => CodingHeader(r) = <<Header(CodingName, <<"chun", "ked">>)>>
           /\ ~ByLength(r) /\ ~ByChunks(r) => CodingHeader(r) = <<>>
BY DEF ByLength, ByChunks, CodingHeader, Header, LengthName, CodingName

LEMMA SizeIs ==
    ASSUME NEW r, NEW n \in Nat
    PROVE  /\ Size(r, n) \in Seq(Symbols)
           /\ r.huge => Size(r, n) = Numeral[Largest]
           /\ ~r.huge => Size(r, n) = Numeral[n]
<1>1. Largest \in Nat
  BY NumbersAssumption
<1>2. \A k \in Nat : Numeral[k] \in Seq(Symbols)
  BY NumeralType, DigitSeq
<1>3. CASE r.huge
  BY <1>1, <1>2, <1>3 DEF Size
<1>4. CASE ~r.huge
  BY <1>1, <1>2, <1>4 DEF Size
<1> QED
  BY <1>3, <1>4

\* The headers of a response.
CodedFlags(r) == Said(r.connection) \cup (IF ByChunks(r) THEN {"CHUNKED"} ELSE {})
CodedLength(r) == IF ByLength(r) THEN Len(Body(r)) ELSE NoLength

\* The headers that say how long the body is.
LEMMA ListedRun ==
    ASSUME NEW m, NEW n, NEW t, NEW d, AtLine(m, {}, n, t, d), NEW r, WellFormed(r),
           NEW hs, hs = r.fields \o ConnectionHeader(r)
    PROVE  HasBytes(r, hs) /\ BytesOf(r, hs) \in Seq(Symbols) /\ hs \o <<>> = hs
           /\ AtLine(After(m, BytesOf(r, hs)), Said(r.connection), n, t, d)
<1>1. PICK fs : fs = r.fields
  OBVIOUS
<1>2. PICK ts : ts = r.connection
  OBVIOUS
<1>3. PICK e : e = r.eol
  OBVIOUS
<1>4. AllFormed(fs) /\ ts \in Seq(TokenNames) /\ e \in Eols /\ r.eol \in Eols
  BY <1>1, <1>2, <1>3, WellFormedIs
<1>5. PICK a : a = BytesOf(r, fs)
  OBVIOUS
<1>6. AtLine(After(m, a), {}, n, t, d) /\ a \in Seq(Symbols)
  BY <1>4, <1>5, FieldsRun
<1>7. HasBytes(r, fs) /\ fs \o <<>> = fs
  BY <1>4, FormedBytes
<1>8. CASE ts = <<>>
  <2>1. ConnectionHeader(r) = <<>>
    BY <1>2, <1>4, <1>8, ConnectionIs
  <2>2. hs = fs
    BY <1>1, <1>7, <2>1
  <2>3. Said(ts) = {}
    BY <1>8, SaidEmpty
  <2> QED
    BY <1>2, <1>5, <1>6, <1>7, <2>2, <2>3
<1>9. CASE ts # <<>>
  <2>1. PICK v : v = ListText(ts)
    OBVIOUS
  <2>2. v \in Seq(Symbols)
    BY <1>4, <2>1, ListTextIs
  <2>3. PICK h : h = Header(ConnName, v)
    OBVIOUS
  <2>4. HeaderBytes(r, h) = Written(ConnName, v, e)
    BY <1>3, <1>4, <2>2, <2>3, HeaderIs
  <2>5. PICK b : b = Written(ConnName, v, e)
    OBVIOUS
  <2>6. PICK x : x = After(m, a)
    OBVIOUS
  <2>7. AtLine(x, {}, n, t, d)
    BY <1>6, <2>6
  <2>8. AtLine(After(x, b), {} \cup Said(ts), n, t, d) /\ b \in Seq(Symbols)
    BY <1>4, <1>9, <2>1, <2>5, <2>7, ConnectionHeaderRun
  <2>9. {} \cup Said(ts) = Said(ts)
    OBVIOUS
  <2>10. m \in Machines
    BY DEF AtLine
  <2>11. After(m, a \o b) = After(After(m, a), b)
    BY <1>6, <2>8, <2>10, AfterBoth
  <2>12. hs = fs \o <<h>>
    <3>1. ConnectionHeader(r) = <<h>>
      BY <1>2, <1>4, <1>9, <2>1, <2>3, ConnectionIs
    <3> QED
      BY <1>1, <3>1
  <2>13. HasBytes(r, fs \o <<h>>) /\ BytesOf(r, fs \o <<h>>) = a \o b
    BY <1>5, <1>7, <2>4, <2>5, <2>8, MoreBytes
  <2>14. a \o b \in Seq(Symbols)
    BY <1>6, <2>8, ConcatIs
  <2>15. hs \o <<>> = hs
    <3>1. PICK T : hs \in Seq(T)
      BY <2>12, <2>13 DEF HasBytes
    <3> QED
      BY <3>1, ConcatIs
  <2> QED
    BY <1>2, <2>6, <2>8, <2>9, <2>11, <2>12, <2>13, <2>14, <2>15
<1> QED
  BY <1>8, <1>9

\* All the headers of a response.
LEMMA HeadersRun ==
    ASSUME NEW m, NEW t, NEW d, AtLine(m, {}, NoLength, t, d), NEW r, WellFormed(r),
           NEW w, w = BytesOf(r, Headers(r))
    PROVE  /\ w \in Seq(Symbols)
           /\ r.huge /\ ByLength(r) =>
                 After(m, w).failed /\ After(m, w).done = d /\ After(m, w) \in Machines
           /\ ~(r.huge /\ ByLength(r)) => AtLine(After(m, w), CodedFlags(r), CodedLength(r), t, d)
<1>1. PICK hs : hs = r.fields \o ConnectionHeader(r)
  OBVIOUS
<1>2. PICK n : n = NoLength
  OBVIOUS
<1>3. PICK a : a = BytesOf(r, hs)
  OBVIOUS
<1>4. PICK F : F = Said(r.connection)
  OBVIOUS
<1>5. PICK x : x = After(m, a)
  OBVIOUS
<1>6. AtLine(m, {}, n, t, d)
  BY <1>2
<1>7. HasBytes(r, hs) /\ a \in Seq(Symbols) /\ hs \o <<>> = hs /\ AtLine(x, F, n, t, d)
  BY <1>1, <1>3, <1>4, <1>5, <1>6, ListedRun
<1>8. PICK e : e = r.eol
  OBVIOUS
<1>9. e \in Eols /\ r.eol \in Eols /\ r.huge \in BOOLEAN /\ m \in Machines
  BY <1>8, WellFormedIs DEF AtLine
<1>10. PICK k : k = Len(Body(r))
  OBVIOUS
<1>11. k \in Nat
  BY <1>10, BodyIs
<1>12. Headers(r) = hs \o CodingHeader(r)
  BY <1>1 DEF Headers
<1>13. CASE ByLength(r)
  <2>1. PICK v : v = Size(r, k)
    OBVIOUS
  <2>2. v \in Seq(Symbols) /\ (r.huge => v = Numeral[Largest]) /\ (~r.huge => v = Numeral[k])
    BY <1>11, <2>1, SizeIs
  <2>3. PICK h : h = Header(LengthName, v)
    OBVIOUS
  <2>4. PICK b : b = Written(LengthName, v, e)
    OBVIOUS
  <2>5. HeaderBytes(r, h) = b
    BY <1>8, <1>9, <2>2, <2>3, <2>4, HeaderIs
  <2>6. /\ b \in Seq(Symbols)
        /\ r.huge => After(x, b).failed /\ After(x, b).done = d /\ After(x, b) \in Machines
        /\ ~r.huge => AtLine(After(x, b), F, k, t, d)
    <3>1. CASE r.huge
      <4>1. b = Written(LengthName, Numeral[Largest], e)
        BY <2>2, <2>4, <3>1
      <4> QED
        BY <1>7, <1>9, <3>1, <4>1, LengthBreaks
    <3>2. CASE ~r.huge
      <4>1. HasRoom(k)
        BY <1>10, <1>13, WellFormedIs, BodyFormedIs
      <4>2. b = Written(LengthName, Numeral[k], e)
        BY <2>2, <2>4, <3>2
      <4>3. /\ AtLine(After(x, Written(LengthName, Numeral[k], e)), F, k, t, d)
            /\ Written(LengthName, Numeral[k], e) \in Seq(Symbols)
        BY <1>7, <1>9, <1>11, <4>1, LengthHeader
      <4> QED
        BY <3>2, <4>2, <4>3
    <3> QED
      BY <3>1, <3>2
  <2>7. Headers(r) = hs \o <<h>>
    BY <1>10, <1>12, <1>13, <2>1, <2>3, CodingIs
  <2>8. BytesOf(r, hs \o <<h>>) = a \o b
    BY <1>3, <1>7, <2>5, <2>6, MoreBytes
  <2>9. After(m, a \o b) = After(After(m, a), b) /\ a \o b \in Seq(Symbols)
    BY <1>7, <1>9, <2>6, AfterBoth
  <2>10. CodedFlags(r) = F /\ CodedLength(r) = k
    BY <1>4, <1>10, <1>13, CodingsAre DEF CodedFlags, CodedLength
  <2>11. w = a \o b
    BY <2>7, <2>8
  <2> QED
    BY <1>5, <1>13, <2>6, <2>9, <2>10, <2>11
<1>14. CASE ByChunks(r)
  <2>1. PICK v : v = <<"chun", "ked">>
    OBVIOUS
  <2>2. PICK h : h = Header(CodingName, v)
    OBVIOUS
  <2>3. PICK b : b = Written(CodingName, v, e)
    OBVIOUS
  <2>4. b = Written(CodingName, <<"chun", "ked">>, e)
    BY <2>1, <2>3
  <2>5. PICK G : G = F \cup {"CHUNKED"}
    OBVIOUS
  <2>6. AtLine(After(x, b), G, n, t, d) /\ b \in Seq(Symbols)
    BY <1>7, <1>9, <2>4, <2>5, CodingHeaderRun
  <2>7. v \in Seq(Symbols)
    <3>1. {"chun", "ked"} \subseteq Tokens
      BY DEF Tokens
    <3>2. {"chun", "ked"} \subseteq Symbols
      BY <3>1, TokensAre
    <3>3. <<"chun", "ked">> \in Seq(Symbols)
      BY <3>2
    <3> QED
      BY <2>1, <3>3
  <2>8. HeaderBytes(r, h) = b
    BY <1>8, <1>9, <2>2, <2>3, <2>7, HeaderIs
  <2>9. Headers(r) = hs \o <<h>>
    BY <1>12, <1>14, <2>1, <2>2, CodingIs
  <2>10. BytesOf(r, hs \o <<h>>) = a \o b
    BY <1>3, <1>7, <2>6, <2>8, MoreBytes
  <2>11. After(m, a \o b) = After(After(m, a), b) /\ a \o b \in Seq(Symbols)
    BY <1>7, <1>9, <2>6, AfterBoth
  <2>12. CodedFlags(r) = G /\ CodedLength(r) = n
    BY <1>2, <1>4, <1>14, <2>5, CodingsAre DEF CodedFlags, CodedLength
  <2>13. w = a \o b
    BY <2>9, <2>10
  <2> QED
    BY <1>5, <1>14, <2>6, <2>11, <2>12, <2>13, CodingsAre
<1>15. CASE ~ByLength(r) /\ ~ByChunks(r)
  <2>1. Headers(r) = hs
    BY <1>7, <1>12, <1>15, CodingIs
  <2>2. w = a
    BY <1>3, <2>1
  <2>3. CodedFlags(r) = F /\ CodedLength(r) = n
    BY <1>2, <1>4, <1>15 DEF CodedFlags, CodedLength
  <2> QED
    BY <1>5, <1>7, <1>15, <2>2, <2>3
<1> QED
  BY <1>13, <1>14, <1>15

-----------------------------------------------------------------------------
(* Responses.                                                               *)

\* The start line.
Ready(m, d) == m \in Machines /\ ~m.failed /\ ~m.closed /\ m.state = "s_start_res" /\ m.done = d

\* It leads to the first line of headers.
LEMMA StartRun ==
    ASSUME NEW m, NEW d, Ready(m, d), NEW t \in StartLines, NEW e \in Eols,
           NEW w, w = <<t>> \o e
    PROVE  AtLine(After(m, w), {}, NoLength, t, d) /\ w \in Seq(Symbols)
<1>1. t \in ValueSymbols /\ t \in Symbols
  <2>1. t \in ValueSymbols
    BY DEF ValueSymbols
  <2> QED
    BY <2>1, TokensAre
<1>2. PICK x : x = Step(m, t)
  OBVIOUS
<1>3. m \in Machines /\ ~m.failed /\ ~m.closed /\ m.state = "s_start_res" /\ m.done = d
  BY DEF Ready
<1>4. x = [m EXCEPT !.state = "s_res_status", !.flags = {}, !.length = NoLength, !.start = t]
  BY <1>2, <1>3 DEF Step, OnStart
<1>5. x \in Machines
  BY <1>2, <1>3, StepType
<1>6. /\ x.state = "s_res_status" /\ x.flags = {} /\ x.length = NoLength /\ x.start = t
      /\ x.done = d /\ ~x.failed /\ ~x.closed
  BY <1>3, <1>4 DEF Machines
<1>7. PICK a : a = <<t>>
  OBVIOUS
<1>8. a \in Seq(Symbols) /\ After(m, a) = x
  <2>1. <<t>> \in Seq(Symbols)
    BY <1>1
  <2>2. After(m, <<t>>) = x
    BY <1>1, <1>2, <1>3, AfterOne
  <2> QED
    BY <1>7, <2>1, <2>2
<1>9. e \in Seq(Symbols)
  BY ControlsAre
<1>10. After(m, a \o e) = After(After(m, a), e) /\ a \o e \in Seq(Symbols)
  BY <1>3, <1>8, <1>9, AfterBoth
<1>11. After(x, e) = To(x, "s_header_field_start")
  BY <1>5, <1>6, EolRun
<1>12. PICK y : y = To(x, "s_header_field_start")
  OBVIOUS
<1>13. "s_header_field_start" \in ParserStates
  BY DEF ParserStates
<1>14. /\ y \in Machines /\ y.state = "s_header_field_start" /\ y.failed = x.failed /\ y.closed = x.closed
       /\ y.flags = x.flags /\ y.length = x.length /\ y.start = x.start /\ y.done = x.done
  BY <1>5, <1>12, <1>13, ToTo
<1>15. AtLine(y, {}, NoLength, t, d)
  BY <1>6, <1>14 DEF AtLine
<1> QED
  BY <1>7, <1>8, <1>10, <1>11, <1>12, <1>15

\* No response is complete before the last symbol.
Late(m, w, d) == \E v \in Seq(Symbols), c \in Symbols : w = Append(v, c) /\ After(m, v).done = d

LEMMA LateAfter ==
    ASSUME NEW m \in Machines, NEW a \in Seq(Symbols), NEW b, NEW d, Late(After(m, a), b, d)
    PROVE  Late(m, a \o b, d)
<1>1. PICK v \in Seq(Symbols), c \in Symbols : b = Append(v, c) /\ After(After(m, a), v).done = d
  BY DEF Late
<1>2. a \o Append(v, c) = Append(a \o v, c)
  BY ConcatIs
<1>3. After(m, a \o v) = After(After(m, a), v) /\ a \o v \in Seq(Symbols)
  BY AfterBoth
<1> QED
  BY <1>1, <1>2, <1>3 DEF Late

LEMMA EolLate ==
    ASSUME NEW x, NEW F, NEW n, NEW t, NEW d, AtLine(x, F, n, t, d), NEW e \in Eols
    PROVE  Late(x, e, d)
<1>1. x \in Machines /\ x.done = d
  BY DEF AtLine
<1>2. CASE e = <<LF>>
  <2>1. PICK v : v = <<>>
    OBVIOUS
  <2>2. v \in Seq(Symbols)
    <3>1. <<>> \in Seq(Symbols)
      OBVIOUS
    <3> QED
      BY <2>1, <3>1
  <2>3. After(x, v) = x
    BY <2>1, AfterEmpty
  <2>4. Append(v, LF) = <<LF>>
    BY <2>1
  <2> QED
    BY <1>1, <1>2, <2>2, <2>3, <2>4, ControlsAre DEF Late
<1>3. CASE e = <<CR, LF>>
  <2>1. PICK v : v = <<CR>>
    OBVIOUS
  <2>2. v \in Seq(Symbols)
    <3>1. <<CR>> \in Seq(Symbols)
      BY ControlsAre
    <3> QED
      BY <2>1, <3>1
  <2>3. After(x, <<CR>>) = Step(x, CR)
    BY <1>1, ControlsAre, AfterOne
  <2>4. Step(x, CR) = OnFieldStart(Line(x), CR)
    BY Distinct, LineIs
  <2>5. OnFieldStart(Line(x), CR) = To(Line(x), "s_headers_almost_done")
    BY DEF OnFieldStart
  <2>6. Line(x) \in Machines /\ Line(x).done = d
    BY LineIs
  <2>7. "s_headers_almost_done" \in ParserStates
    BY DEF ParserStates
  <2>8. To(Line(x), "s_headers_almost_done").done = Line(x).done
    BY <2>6, <2>7, ToTo
  <2>9. Append(v, LF) = <<CR, LF>>
    BY <2>1, ControlsAre, TwoIs
  <2> QED
    BY <1>3, <2>1, <2>2, <2>3, <2>4, <2>5, <2>6, <2>8, <2>9, ControlsAre DEF Late
<1> QED
  BY <1>2, <1>3 DEF Eols

\* What the parser knows of a response at its end.
Told(y, r, d) ==
    /\ y \in Machines /\ ~y.failed /\ ~y.closed /\ y.done = d /\ y.start = r.start
    /\ "CLOSE" \in y.flags <=> InList("close", r)
    /\ "KEEP" \in y.flags <=> InList("keep-alive", r)
Result(x, r, d) ==
    /\ x \in Machines /\ ~x.failed /\ x.done = d + 1
    /\ IF EndsConnection(r) THEN x.closed /\ x.state = "s_dead" ELSE Ready(x, d + 1)

\* A message that ends closes the connection as the response says.
LEMMA Finishes ==
    ASSUME NEW r, NEW d, NEW y, Told(y, r, d), ~NeedsEofIn(y), ~ByEnd(r)
    PROVE  Result(Complete(y), r, d)
<1>1. KeptAlive(y) <=> ~EndsConnection(r)
  BY DEF KeptAlive, EndsConnection, Told, ByEnd
<1>2. PICK x : x = Complete(y)
  OBVIOUS
<1>3. y \in Machines /\ ~y.failed /\ ~y.closed /\ y.done = d
  BY DEF Told
<1>4. x \in Machines
  BY <1>2, <1>3, CompleteType
<1>5. CASE KeptAlive(y)
  <2>1. x = [y EXCEPT !.state = "s_start_res", !.h = "h_general", !.flags = {}, !.length = 0,
                      !.start = NoStart, !.done = y.done + 1]
    BY <1>2, <1>5 DEF Complete
  <2>2. x.state = "s_start_res" /\ x.done = y.done + 1 /\ x.failed = y.failed /\ x.closed = y.closed
    BY <1>3, <2>1 DEF Machines
  <2> QED
    BY <1>1, <1>2, <1>3, <1>4, <1>5, <2>2 DEF Result, Ready
<1>6. CASE ~KeptAlive(y)
  <2>1. x = [y EXCEPT !.state = "s_dead", !.closed = TRUE, !.done = y.done + 1]
    BY <1>2, <1>6 DEF Complete
  <2>2. x.state = "s_dead" /\ x.done = y.done + 1 /\ x.failed = y.failed /\ x.closed
    BY <1>3, <2>1 DEF Machines
  <2> QED
    BY <1>1, <1>2, <1>3, <1>4, <1>6, <2>2 DEF Result
<1> QED
  BY <1>5, <1>6

LEMMA SaidIs ==
    ASSUME NEW ts
    PROVE  /\ "CLOSE" \in Said(ts) <=> \E i \in 1..Len(ts) : ts[i] = "close"
           /\ "KEEP" \in Said(ts) <=> \E i \in 1..Len(ts) : ts[i] = "keep-alive"
           /\ "TRAILING" \notin Said(ts) /\ "CHUNKED" \notin Said(ts)
<1>1. \A f : f \in Said(ts) <=> \E i \in 1..Len(ts) : f \in SaidBy(ts[i])
  BY DEF Said
<1>2. \A k : /\ "CLOSE" \in SaidBy(k) <=> k = "close"
             /\ "KEEP" \in SaidBy(k) <=> k = "keep-alive"
             /\ "TRAILING" \notin SaidBy(k) /\ "CHUNKED" \notin SaidBy(k)
  BY DEF SaidBy
<1> QED
  BY <1>1, <1>2

\* The flags of a response are what its Connection header lists.
LEMMA CodedFlagsAre ==
    ASSUME NEW r
    PROVE  /\ "CLOSE" \in CodedFlags(r) <=> InList("close", r)
           /\ "KEEP" \in CodedFlags(r) <=> InList("keep-alive", r)
           /\ "TRAILING" \notin CodedFlags(r) /\ ("CHUNKED" \in CodedFlags(r) <=> ByChunks(r))
<1>1. PICK ts : ts = r.connection
  OBVIOUS
<1>2. /\ InList("close", r) <=> \E i \in 1..Len(ts) : ts[i] = "close"
      /\ InList("keep-alive", r) <=> \E i \in 1..Len(ts) : ts[i] = "keep-alive"
  BY <1>1 DEF InList
<1>3. CodedFlags(r) = Said(ts) \cup (IF ByChunks(r) THEN {"CHUNKED"} ELSE {})
  BY <1>1 DEF CodedFlags
<1>4. /\ "CLOSE" \in Said(ts) <=> \E i \in 1..Len(ts) : ts[i] = "close"
      /\ "KEEP" \in Said(ts) <=> \E i \in 1..Len(ts) : ts[i] = "keep-alive"
      /\ "TRAILING" \notin Said(ts) /\ "CHUNKED" \notin Said(ts)
  BY SaidIs
<1> QED
  BY <1>2, <1>3, <1>4

LEMMA ToldTo ==
    ASSUME NEW y, NEW r, NEW d, Told(y, r, d), NEW s \in ParserStates
    PROVE  /\ Told(To(y, s), r, d) /\ To(y, s).state = s /\ To(y, s).length = y.length
           /\ To(y, s).flags = y.flags
<1>1. y \in Machines
  BY DEF Told
<1>2. PICK z : z = To(y, s)
  OBVIOUS
<1>3. /\ z.state = s /\ z \in Machines
      /\ z.failed = y.failed /\ z.closed = y.closed /\ z.h = y.h
      /\ z.flags = y.flags /\ z.length = y.length /\ z.start = y.start
      /\ z.done = y.done
  BY <1>1, <1>2, ToTo
<1>4. Told(z, r, d)
  BY <1>3 DEF Told
<1> QED
  BY <1>2, <1>3, <1>4

\* The empty line after the headers.
InBody(z, r, d) ==
    /\ Told(z, r, d) /\ z.state = "s_body_identity" /\ z.length = Len(Body(r)) /\ Len(Body(r)) # 0
    /\ ~NeedsEofIn([z EXCEPT !.length = 0])
InChunks(z, r, d) ==
    /\ Told(z, r, d) /\ z.state = "s_chunk_size_start" /\ "CHUNKED" \in z.flags
    /\ "TRAILING" \notin z.flags
Endless(z, d) ==
    /\ z \in Machines /\ ~z.failed /\ ~z.closed /\ z.state = "s_body_identity_eof" /\ z.done = d

\* It ends the response, or leads to the body.
LEMMA HeadEnds ==
    ASSUME NEW r, WellFormed(r), NEW d, NEW x, NEW F, NEW k, F = CodedFlags(r), k = CodedLength(r),
           NEW t, t = r.start, AtLine(x, F, k, t, d), ~(r.huge /\ ByLength(r)),
           NEW z, z = After(x, r.eol)
    PROVE  /\ Bodiless(r) => Result(z, r, d)
           /\ ByEnd(r) => Endless(z, d)
           /\ ByLength(r) => IF Len(Body(r)) = 0 THEN Result(z, r, d) ELSE InBody(z, r, d)
           /\ ByChunks(r) => InChunks(z, r, d)
<1>1. PICK y : y = Line(x)
  OBVIOUS
<1>2. /\ y \in Machines /\ ~y.failed /\ ~y.closed /\ y.flags = F
      /\ y.done = d /\ y.start = t /\ y.length = k
  BY <1>1, LineIs, ZenonT(40)
<1>3. /\ "CLOSE" \in F <=> InList("close", r)
      /\ "KEEP" \in F <=> InList("keep-alive", r)
      /\ "TRAILING" \notin F /\ ("CHUNKED" \in F <=> ByChunks(r))
  BY CodedFlagsAre
<1>4. Told(y, r, d)
  BY <1>2, <1>3 DEF Told
<1>5. r.eol \in Eols /\ x \in Machines /\ ~x.failed
  BY WellFormedIs DEF AtLine
<1>6. z = OnHeadersAlmostDone(y, LF)
  BY <1>1, <1>5, EolRun
<1>7. z = OnHeadersDone(y, LF)
  BY <1>2, <1>3, <1>6 DEF OnHeadersAlmostDone
<1>8. BodyFormed(r)
  BY WellFormedIs
<1>9. {"s_chunk_size_start", "s_body_identity_eof", "s_body_identity"} \subseteq ParserStates
  BY DEF ParserStates
<1>10. PICK n : n = Len(Body(r))
  OBVIOUS
<1>11. n \in Nat
  BY <1>10, BodyIs
<1>12. Largest \in Nat /\ Largest > 0 /\ NoLength = Largest
  BY NumbersAssumption DEF NoLength
<1>13. CASE Bodiless(r)
  <2>1. NoBody(y.start) /\ k = NoLength /\ "CHUNKED" \notin y.flags
    BY <1>2, <1>3, <1>8, <1>13, CodingsAre, BodyFormedIs DEF CodedLength
  <2>2. ~NeedsEofIn(y)
    BY <2>1 DEF NeedsEofIn
  <2>3. z = Complete(y)
    BY <1>2, <1>7, <2>1, <2>2 DEF OnHeadersDone
  <2> QED
    BY <1>4, <1>13, <2>2, <2>3, Finishes, CodingsAre
<1>14. CASE ByEnd(r)
  <2>1. ~NoBody(y.start) /\ k = NoLength /\ "CHUNKED" \notin y.flags
    BY <1>2, <1>3, <1>8, <1>14, CodingsAre, BodyFormedIs DEF CodedLength
  <2>2. NeedsEofIn(y)
    BY <1>2, <2>1 DEF NeedsEofIn
  <2>3. z = To(y, "s_body_identity_eof")
    BY <1>2, <1>7, <1>12, <2>1, <2>2 DEF OnHeadersDone
  <2>4. Told(z, r, d) /\ z.state = "s_body_identity_eof"
    BY <1>4, <1>9, <2>3, ToldTo
  <2> QED
    BY <1>14, <2>4, CodingsAre DEF Endless, Told
<1>15. CASE ByLength(r)
  <2>1. k = n /\ "CHUNKED" \notin y.flags
    BY <1>2, <1>3, <1>10, <1>15, CodingsAre DEF CodedLength
  <2>2. n < Largest
    BY <1>8, <1>10, <1>11, <1>15, Room, BodyFormedIs
  <2>3. ~NeedsEofIn(y)
    BY <1>2, <1>11, <1>12, <2>1, <2>2 DEF NeedsEofIn
  <2>4. CASE n = 0
    <3>1. z = Complete(y)
      BY <1>2, <1>7, <2>1, <2>4 DEF OnHeadersDone
    <3> QED
      BY <1>4, <1>10, <1>15, <2>3, <2>4, <3>1, Finishes, CodingsAre
  <2>5. CASE n # 0
    <3>1. z = To(y, "s_body_identity")
      BY <1>2, <1>7, <1>11, <1>12, <2>1, <2>2, <2>5 DEF OnHeadersDone
    <3>2. Told(z, r, d) /\ z.state = "s_body_identity" /\ z.length = y.length
      BY <1>4, <1>9, <3>1, ToldTo
    <3>3. PICK q : q = [z EXCEPT !.length = 0]
      OBVIOUS
    <3>4. q.length = 0
      BY <3>2, <3>3 DEF Told, Machines
    <3>5. ~NeedsEofIn(q)
      BY <1>12, <3>4 DEF NeedsEofIn
    <3>6. InBody(z, r, d)
      BY <1>2, <1>10, <2>1, <2>5, <3>2, <3>3, <3>5 DEF InBody
    <3> QED
      BY <1>10, <1>15, <2>5, <3>6, CodingsAre
  <2> QED
    BY <2>4, <2>5
<1>16. CASE ByChunks(r)
  <2>1. "CHUNKED" \in y.flags /\ "TRAILING" \notin y.flags
    BY <1>2, <1>3, <1>16
  <2>2. z = To(y, "s_chunk_size_start")
    BY <1>7, <2>1 DEF OnHeadersDone
  <2>3. Told(z, r, d) /\ z.state = "s_chunk_size_start" /\ z.flags = y.flags
    BY <1>4, <1>9, <2>2, ToldTo
  <2> QED
    BY <1>16, <2>1, <2>3, CodingsAre DEF InChunks
<1> QED
  BY <1>8, <1>13, <1>14, <1>15, <1>16, BodyFormedIs

\* A body whose length was told.
LEMMA BodyResult ==
    ASSUME NEW r, WellFormed(r), NEW d, NEW z, InBody(z, r, d), ~ByEnd(r),
           NEW s, s = Body(r)
    PROVE  Result(After(z, s), r, d) /\ Late(z, s, d)
<1>1. s \in Seq(Symbols) /\ Len(s) \in Nat
  BY BodyIs
<1>2. /\ Told(z, r, d) /\ z.state = "s_body_identity" /\ z.length = Len(s) /\ Len(s) # 0
      /\ z \in Machines /\ ~z.failed /\ z.done = d
  BY DEF InBody, Told
<1>3. s # <<>>
  BY <1>2
<1>4. PICK q : q = [z EXCEPT !.length = 0]
  OBVIOUS
<1>5. After(z, s) = Complete(q)
  BY <1>1, <1>2, <1>3, <1>4, BodyEnd
<1>6. q \in Machines /\ q.failed = z.failed /\ q.closed = z.closed /\ q.done = z.done
      /\ q.start = z.start /\ q.flags = z.flags
  BY <1>2, <1>4 DEF Machines
<1>7. Told(q, r, d)
  BY <1>2, <1>6 DEF Told
<1>8. ~NeedsEofIn(q)
  BY <1>4 DEF InBody
<1>9. Result(Complete(q), r, d)
  BY <1>7, <1>8, Finishes
<1>10. PICK v : v = Upto(s, Len(s) - 1)
  OBVIOUS
<1>11. PICK c : c = s[Len(s)]
  OBVIOUS
<1>12. v \in Seq(Symbols) /\ Len(v) = Len(s) - 1 /\ c \in Symbols /\ s = Append(v, c)
  BY <1>1, <1>3, <1>10, <1>11, FrontAndLast
<1>13. PICK n : n = z.length - Len(v)
  OBVIOUS
<1>14. After(z, v) = [z EXCEPT !.length = n]
  BY <1>1, <1>2, <1>12, <1>13, BodyRun
<1>15. [z EXCEPT !.length = n].done = z.done
  BY <1>2 DEF Machines
<1>16. Late(z, s, d)
  BY <1>2, <1>12, <1>14, <1>15 DEF Late
<1> QED
  BY <1>5, <1>9, <1>16

\* The size of a chunk.
InSize(m, q) == [m EXCEPT !.state = "s_chunk_size", !.length = q]
AtSizeStart(m) == m \in Machines /\ ~m.failed /\ m.state = "s_chunk_size_start"

LEMMA InSizeIs ==
    ASSUME NEW m, AtSizeStart(m), NEW q \in Nat, NEW x, x = InSize(m, q)
    PROVE  /\ x \in Machines /\ ~x.failed /\ x.state = "s_chunk_size" /\ x.length = q
           /\ x.closed = m.closed /\ x.flags = m.flags /\ x.start = m.start /\ x.done = m.done
<1>1. "s_chunk_size" \in ParserStates
  BY DEF ParserStates
<1>2. q \in Int /\ m \in Machines /\ ~m.failed
  BY DEF AtSizeStart
<1>3. x = [m EXCEPT !.state = "s_chunk_size", !.length = q]
  BY DEF InSize
<1> QED
  BY <1>1, <1>2, <1>3 DEF Machines

\* Its digits.
LEMMA SizeReads ==
    ASSUME NEW m, AtSizeStart(m)
    PROVE  Reads(m, [q \in Nat |-> InSize(m, q)])
<1> DEFINE L == [q \in Nat |-> InSize(m, q)]
<1>1. m \in Machines /\ \A q \in Nat : L[q] \in Machines
  <2>1. \A q \in Nat : InSize(m, q) \in Machines
    BY InSizeIs
  <2> QED
    BY <2>1 DEF AtSizeStart
<1>2. ASSUME NEW e \in 0..Base - 1 PROVE Step(m, Numerals[e + 1]) = L[e]
  <2>1. PICK c : c = Numerals[e + 1]
    OBVIOUS
  <2>2. c \in Digits /\ Digit(c) = e /\ e \in Nat
    BY <2>1, NumeralDigit, NumbersAssumption
  <2>3. Step(m, c) = [m EXCEPT !.state = "s_chunk_size", !.length = e]
    BY <2>2 DEF Step, OnSizeStart, AtSizeStart
  <2>4. L[e] = InSize(m, e)
    BY <2>2
  <2> QED
    BY <2>1, <2>3, <2>4 DEF InSize
<1>3. ASSUME NEW q \in Nat, NEW e \in 0..Base - 1
      PROVE  IF Fits(q) THEN Step(L[q], Numerals[e + 1]) = L[q * Base + e]
             ELSE Step(L[q], Numerals[e + 1]) = Broken(L[q])
  <2>1. PICK c : c = Numerals[e + 1]
    OBVIOUS
  <2>2. c \in Digits /\ Digit(c) = e /\ e \in Nat
    BY <2>1, NumeralDigit, NumbersAssumption
  <2>3. c # CR /\ c # SP /\ c # ";"
    BY <2>2, Distinct
  <2>4. PICK x : x = InSize(m, q)
    OBVIOUS
  <2>5. x \in Machines /\ ~x.failed /\ x.state = "s_chunk_size" /\ x.length = q
    BY <2>4, InSizeIs
  <2>6. Step(x, c) = OnSize(x, c)
    BY <2>5 DEF Step
  <2>7. PICK k : k = q * Base + e
    OBVIOUS
  <2>8. WithDigit(q, c) = k
    BY <2>2, <2>7 DEF WithDigit
  <2>9. ASSUME Fits(q) PROVE Step(x, c) = InSize(m, k)
    <3>1. OnSize(x, c) = [x EXCEPT !.length = k]
      BY <2>2, <2>3, <2>5, <2>8, <2>9 DEF OnSize
    <3>2. [x EXCEPT !.length = k] = InSize(m, k)
      BY <2>4, <2>5 DEF InSize, AtSizeStart, Machines
    <3> QED
      BY <2>6, <3>1, <3>2
  <2>10. ASSUME ~Fits(q) PROVE Step(x, c) = Broken(x)
    BY <2>2, <2>3, <2>5, <2>6, <2>10 DEF OnSize
  <2>11. k \in Nat /\ L[q] = InSize(m, q)
    BY <2>2, <2>7, NumbersAssumption
  <2>12. L[k] = InSize(m, k)
    BY <2>11
  <2> QED
    BY <2>1, <2>4, <2>7, <2>9, <2>10, <2>11, <2>12
<1> HIDE DEF L
<1> QED
  BY <1>1, <1>2, <1>3 DEF Reads, L

\* The size, and one that is out of range.
LEMMA SizeRun ==
    ASSUME NEW m, AtSizeStart(m), NEW k \in Nat, HasRoom(k) \/ k < Base
    PROVE  After(m, Numeral[k]) = InSize(m, k) /\ Numeral[k] \in Seq(Symbols)
<1>1. PICK L : L = [q \in Nat |-> InSize(m, q)]
  OBVIOUS
<1>2. Reads(m, L)
  BY <1>1, SizeReads
<1>3. After(m, Numeral[k]) = L[k]
  BY <1>2, NumeralRun
<1>4. L[k] = InSize(m, k)
  BY <1>1
<1> QED
  BY <1>3, <1>4, NumeralType, DigitSeq

LEMMA SizeBreaks ==
    ASSUME NEW m, AtSizeStart(m), NEW y, y = After(m, Numeral[Largest])
    PROVE  y.failed /\ y.done = m.done /\ y \in Machines /\ Numeral[Largest] \in Seq(Symbols)
<1>1. Numeral[Largest] \in Seq(Symbols)
  BY NumeralType, DigitSeq, NumbersAssumption
<1>2. PICK L : L = [q \in Nat |-> InSize(m, q)]
  OBVIOUS
<1>3. Reads(m, L)
  BY <1>2, SizeReads
<1>4. PICK q \in Nat : y = Broken(L[q])
  BY <1>3, NumeralBreaks
<1>5. PICK z : z = InSize(m, q)
  OBVIOUS
<1>6. z \in Machines /\ z.done = m.done /\ L[q] = z
  BY <1>2, <1>5, InSizeIs
<1> QED
  BY <1>1, <1>4, <1>6, BrokenIs, BrokenType

\* The end of the line of a size, with or without an extension.
Semicolon == ";"
Extension == "v"
NoExtension == <<>>
Extensions == {NoExtension, <<Semicolon, Extension>>}
LineEnding == <<CR, LF>>

LEMMA ExtensionsAre ==
    /\ LineEnding \in Seq(Symbols) /\ Extensions \subseteq Seq(Symbols)
    /\ Semicolon \in Symbols /\ Extension \in Symbols /\ Extension # CR
<1>1. Semicolon \in ValueSymbols /\ Extension \in Tokens
  BY DEF Semicolon, Extension, ValueSymbols, Tokens
<1>2. Semicolon \in Symbols /\ Extension \in Symbols
  BY <1>1, TokensAre
<1>3. <<Semicolon, Extension>> \in Seq(Symbols) /\ <<CR, LF>> \in Seq(Symbols)
  BY <1>2, ControlsAre
<1>4. NoExtension \in Seq(Symbols)
  BY DEF NoExtension
<1> QED
  BY <1>1, <1>2, <1>3, <1>4, Distinct DEF Extensions, LineEnding

\* The line of a size.
LEMMA SizeLine ==
    ASSUME NEW x \in Machines, ~x.failed, x.state = "s_chunk_size", NEW ext \in Extensions
    PROVE  After(After(x, ext), LineEnding) = OnSizeDone(To(x, "s_chunk_size_almost_done"), LF)
<1>1. {"s_chunk_parameters", "s_chunk_size_almost_done"} \subseteq ParserStates
  BY DEF ParserStates
<1>2. PICK u : u = To(x, "s_chunk_size_almost_done")
  OBVIOUS
<1>3. u \in Machines /\ ~u.failed /\ u.state = "s_chunk_size_almost_done"
  BY <1>1, <1>2, ToTo
<1>4. PICK p0 : p0 = To(x, "s_chunk_parameters")
  OBVIOUS
<1>5. p0 \in Machines /\ ~p0.failed /\ p0.state = "s_chunk_parameters"
      /\ To(p0, "s_chunk_parameters") = p0 /\ To(p0, "s_chunk_size_almost_done") = u
  BY <1>1, <1>2, <1>4, ToTo
<1>6. PICK y : y = After(x, ext)
  OBVIOUS
<1>7. y = x \/ y = p0
  <2>1. CASE ext = NoExtension
    BY <1>6, <2>1, AfterEmpty DEF NoExtension
  <2>2. CASE ext = <<Semicolon, Extension>>
    <3>1. After(x, <<Semicolon, Extension>>) = Step(Step(x, Semicolon), Extension)
      BY ExtensionsAre, AfterTwo
    <3>2. Step(x, Semicolon) = OnSize(x, Semicolon)
      BY DEF Step
    <3>3. OnSize(x, Semicolon) = p0
      BY <1>4, Distinct DEF OnSize, Semicolon
    <3>4. Step(p0, Extension) = To(p0, "s_chunk_parameters")
      BY <1>5, ExtensionsAre DEF Step
    <3> QED
      BY <1>5, <1>6, <2>2, <3>1, <3>2, <3>3, <3>4
  <2> QED
    BY <2>1, <2>2 DEF Extensions
<1>8. Step(y, CR) = u
  <2>1. Step(x, CR) = u
    BY <1>2 DEF Step, OnSize
  <2>2. Step(p0, CR) = u
    BY <1>5 DEF Step
  <2> QED
    BY <1>7, <2>1, <2>2
<1>9. y \in Machines
  BY <1>5, <1>7
<1>10. After(y, <<CR, LF>>) = Step(Step(y, CR), LF)
  BY <1>9, ControlsAre, AfterTwo
<1>11. Step(u, LF) = OnSizeDone(u, LF)
  BY <1>3 DEF Step
<1> QED
  BY <1>2, <1>6, <1>8, <1>10, <1>11 DEF LineEnding

\* A chunk.
ExtensionOf(part) == IF Len(part) > 1 THEN <<";", "v">> ELSE <<>>

LEMMA ExtensionIn ==
    ASSUME NEW part
    PROVE  ExtensionOf(part) \in Extensions
BY DEF ExtensionOf, Extensions, NoExtension, Semicolon, Extension

ChunkText(size, ext, part) == size \o ext \o LineEnding \o part \o LineEnding

LEMMA ChunkBytesIs ==
    ASSUME NEW r, NEW part
    PROVE  ChunkBytes(r, part) = ChunkText(Size(r, Len(part)), ExtensionOf(part), part)
BY DEF ChunkBytes, ChunkText, ExtensionOf, LineEnding

LEMMA ChunkSplit ==
    ASSUME NEW m \in Machines, NEW size \in Seq(Symbols), NEW ext \in Seq(Symbols), NEW part \in Seq(Symbols)
    PROVE  /\ ChunkText(size, ext, part) \in Seq(Symbols)
           /\ After(m, ChunkText(size, ext, part)) =
                 After(After(After(After(After(m, size), ext), LineEnding), part), LineEnding)
<1>1. PICK a : a = size \o ext
  OBVIOUS
<1>2. After(m, a) = After(After(m, size), ext) /\ a \in Seq(Symbols)
  BY <1>1, AfterBoth
<1>3. PICK b : b = a \o LineEnding
  OBVIOUS
<1>4. After(m, b) = After(After(m, a), LineEnding) /\ b \in Seq(Symbols)
  BY <1>2, <1>3, ExtensionsAre, AfterBoth
<1>5. PICK c : c = b \o part
  OBVIOUS
<1>6. After(m, c) = After(After(m, b), part) /\ c \in Seq(Symbols)
  BY <1>4, <1>5, AfterBoth
<1>7. After(m, c \o LineEnding) = After(After(m, c), LineEnding) /\ c \o LineEnding \in Seq(Symbols)
  BY <1>6, ExtensionsAre, AfterBoth
<1> QED
  BY <1>1, <1>2, <1>3, <1>4, <1>5, <1>6, <1>7 DEF ChunkText

\* A chunk as a whole.
LEMMA ChunkRunAll ==
    ASSUME NEW m, AtSizeStart(m), NEW part \in Seq(Symbols), part # <<>>, HasRoom(Len(part)),
           NEW ext \in Extensions
    PROVE  /\ After(m, ChunkText(Numeral[Len(part)], ext, part)) = [m EXCEPT !.length = 0]
           /\ ChunkText(Numeral[Len(part)], ext, part) \in Seq(Symbols)
<1>1. {"s_chunk_size_almost_done", "s_chunk_data", "s_chunk_data_almost_done", "s_chunk_data_done",
       "s_chunk_size_start"} \subseteq ParserStates
  BY DEF ParserStates
<1>2. PICK k : k = Len(part)
  OBVIOUS
<1>3. k \in Nat /\ k # 0 /\ HasRoom(k)
  BY <1>2
<1>4. PICK size : size = Numeral[k]
  OBVIOUS
<1>5. PICK x : x = InSize(m, k)
  OBVIOUS
<1>6. After(m, size) = x /\ size \in Seq(Symbols)
  BY <1>3, <1>4, <1>5, SizeRun
<1>7. x \in Machines /\ ~x.failed /\ x.state = "s_chunk_size" /\ x.length = k
  BY <1>3, <1>5, InSizeIs
<1>8. PICK u : u = To(x, "s_chunk_size_almost_done")
  OBVIOUS
<1>9. u \in Machines /\ u.length = k /\ ~u.failed
  BY <1>1, <1>7, <1>8, ToTo
<1>10. After(After(x, ext), LineEnding) = OnSizeDone(u, LF)
  BY <1>7, <1>8, SizeLine
<1>11. PICK z : z = To(u, "s_chunk_data")
  OBVIOUS
<1>12. OnSizeDone(u, LF) = z
  BY <1>3, <1>9, <1>11 DEF OnSizeDone
<1>13. z \in Machines /\ ~z.failed /\ z.state = "s_chunk_data" /\ z.length = k /\ z = To(x, "s_chunk_data")
  BY <1>1, <1>7, <1>8, <1>9, <1>11, ToTo
<1>14. PICK v : v = [z EXCEPT !.state = "s_chunk_data_almost_done", !.length = 0]
  OBVIOUS
<1>15. After(z, part) = v
  BY <1>2, <1>13, <1>14, ChunkEnd
<1>16. v \in Machines /\ ~v.failed /\ v.state = "s_chunk_data_almost_done"
  <2>1. "s_chunk_data_almost_done" \in ParserStates /\ 0 \in Int
    BY <1>1
  <2>2. z \in Machines /\ ~z.failed
    BY <1>13
  <2> QED
    BY <1>14, <2>1, <2>2 DEF Machines
<1>17. After(v, <<CR, LF>>) = Step(Step(v, CR), LF)
  BY <1>16, ControlsAre, AfterTwo
<1>18. PICK q : q = To(v, "s_chunk_data_done")
  OBVIOUS
<1>19. Step(v, CR) = q
  BY <1>16, <1>18 DEF Step
<1>20. q \in Machines /\ ~q.failed /\ q.state = "s_chunk_data_done"
       /\ To(q, "s_chunk_size_start") = To(v, "s_chunk_size_start")
  BY <1>1, <1>16, <1>18, ToTo
<1>21. Step(q, LF) = To(v, "s_chunk_size_start")
  BY <1>20 DEF Step, OnLF
<1>22. To(v, "s_chunk_size_start") = [m EXCEPT !.length = 0]
  <2>1. m \in Machines /\ m.state = "s_chunk_size_start"
    BY DEF AtSizeStart
  <2> QED
    BY <1>5, <1>13, <1>14, <2>1 DEF To, InSize, Machines
<1>23. PICK w : w = ChunkText(size, ext, part)
  OBVIOUS
<1>24. /\ w \in Seq(Symbols)
       /\ After(m, w) = After(After(After(After(After(m, size), ext), LineEnding), part), LineEnding)
  BY <1>6, <1>23, ExtensionsAre, ChunkSplit DEF AtSizeStart
<1> QED
  BY <1>2, <1>4, <1>6, <1>10, <1>12, <1>15, <1>17, <1>19, <1>21, <1>22, <1>23, <1>24 DEF LineEnding

\* The chunks of a body.
ChunksOf(r) == FlattenSeq([i \in 1..Len(r.parts) |-> ChunkBytes(r, r.parts[i])])
PartsOf(r) == ToSet(r.parts)

LEMMA PartsAre ==
    ASSUME NEW r, WellFormed(r), ByChunks(r)
    PROVE  /\ r.parts \in Seq(PartsOf(r)) /\ Len(r.parts) \in Nat
           /\ \A part \in PartsOf(r) : part \in Seq(Symbols) /\ part # <<>> /\ HasRoom(Len(part))
<1>1. r.parts \in Texts /\ BodyFormed(r)
  BY WellFormedIs
<1>2. \A i \in DOMAIN r.parts : r.parts[i] # <<>> /\ HasRoom(Len(r.parts[i]))
  BY <1>1, BodyFormedIs
<1>3. PICK ps : ps = r.parts
  OBVIOUS
<1>4. PICK Q : Q = Seq(Symbols)
  OBVIOUS
<1>5. ps \in Seq(Q)
  BY <1>1, <1>3, <1>4 DEF Texts
<1>6. ps \in Seq(ToSet(ps)) /\ \A part \in ToSet(ps) : \E i \in DOMAIN ps : part = ps[i]
  BY <1>5 DEF ToSet
<1>7. \A i \in DOMAIN ps : ps[i] \in Q
  BY <1>5
<1>8. Len(ps) \in Nat
  BY <1>5
<1> QED
  BY <1>2, <1>3, <1>4, <1>6, <1>7, <1>8 DEF PartsOf

LEMMA ChunkTypes ==
    ASSUME NEW r, NEW part \in Seq(Symbols)
    PROVE  ChunkBytes(r, part) \in Seq(Symbols)
<1>1. PICK k : k = Len(part)
  OBVIOUS
<1>2. k \in Nat
  BY <1>1
<1>3. Size(r, k) \in Seq(Symbols)
  BY <1>2, SizeIs
<1>4. ExtensionOf(part) \in Seq(Symbols)
  BY ExtensionIn, ExtensionsAre
<1>5. ChunkText(Size(r, k), ExtensionOf(part), part) \in Seq(Symbols)
  BY <1>3, <1>4, StartType, ChunkSplit
<1> QED
  BY <1>1, <1>5, ChunkBytesIs

LEMMA InChunksStart ==
    ASSUME NEW m, NEW r, NEW d, InChunks(m, r, d)
    PROVE  AtSizeStart(m) /\ m \in Machines /\ m.done = d /\ InChunks([m EXCEPT !.length = 0], r, d)
<1>1. /\ Told(m, r, d) /\ m.state = "s_chunk_size_start" /\ "CHUNKED" \in m.flags
      /\ "TRAILING" \notin m.flags
  BY DEF InChunks
<1>2. m \in Machines /\ ~m.failed /\ m.done = d
  BY <1>1 DEF Told
<1>3. PICK x : x = [m EXCEPT !.length = 0]
  OBVIOUS
<1>4. /\ x \in Machines /\ x.failed = m.failed /\ x.closed = m.closed /\ x.done = m.done
      /\ x.start = m.start /\ x.flags = m.flags /\ x.state = m.state
  BY <1>2, <1>3 DEF Machines
<1>5. Told(x, r, d)
  BY <1>1, <1>4 DEF Told
<1>6. InChunks(x, r, d)
  BY <1>1, <1>4, <1>5 DEF InChunks
<1> QED
  BY <1>1, <1>2, <1>3, <1>6 DEF AtSizeStart

LEMMA ChunkKeeps ==
    ASSUME NEW r, ~r.huge, NEW d, NEW m, InChunks(m, r, d),
           NEW part \in Seq(Symbols), part # <<>>, HasRoom(Len(part))
    PROVE  InChunks(After(m, ChunkBytes(r, part)), r, d)
<1>1. PICK k : k = Len(part)
  OBVIOUS
<1>2. k \in Nat
  BY <1>1
<1>3. Size(r, k) = Numeral[k]
  BY <1>2, SizeIs
<1>4. ExtensionOf(part) \in Extensions
  BY ExtensionIn
<1>5. AtSizeStart(m) /\ InChunks([m EXCEPT !.length = 0], r, d)
  BY InChunksStart
<1>6. After(m, ChunkText(Numeral[Len(part)], ExtensionOf(part), part)) = [m EXCEPT !.length = 0]
  BY <1>4, <1>5, ChunkRunAll
<1> QED
  BY <1>1, <1>3, <1>5, <1>6, ChunkBytesIs

LEMMA ChunkBreaks ==
    ASSUME NEW r, r.huge, NEW m, AtSizeStart(m), NEW part \in Seq(Symbols),
           NEW y, y = After(m, ChunkBytes(r, part))
    PROVE  y.failed /\ y.done = m.done /\ y \in Machines
<1>1. PICK k : k = Len(part)
  OBVIOUS
<1>2. k \in Nat
  BY <1>1
<1>3. PICK size : size = Numeral[Largest]
  OBVIOUS
<1>4. Size(r, k) = size
  BY <1>2, <1>3, SizeIs
<1>5. PICK ext : ext = ExtensionOf(part)
  OBVIOUS
<1>6. ext \in Seq(Symbols)
  BY <1>5, ExtensionIn, ExtensionsAre
<1>7. PICK z : z = After(m, size)
  OBVIOUS
<1>8. z.failed /\ z.done = m.done /\ z \in Machines /\ size \in Seq(Symbols)
  BY <1>3, <1>7, SizeBreaks
<1>9. m \in Machines
  BY DEF AtSizeStart
<1>10. After(m, ChunkText(size, ext, part)) =
          After(After(After(After(After(m, size), ext), LineEnding), part), LineEnding)
  BY <1>6, <1>8, <1>9, ChunkSplit
<1>11. After(z, ext) = z /\ After(z, LineEnding) = z /\ After(z, part) = z
  BY <1>6, <1>8, ExtensionsAre, FailedRun
<1>12. y = z
  BY <1>1, <1>4, <1>5, <1>7, <1>10, <1>11, ChunkBytesIs
<1> QED
  BY <1>8, <1>12

LEMMA ChunksAre ==
    ASSUME NEW r, WellFormed(r), ByChunks(r), NEW B, B = [part \in PartsOf(r) |-> ChunkBytes(r, part)]
    PROVE  /\ ChunksOf(r) = Blocks(B, r.parts) /\ ChunksOf(r) \in Seq(Symbols)
           /\ \A part \in PartsOf(r) : B[part] = ChunkBytes(r, part) /\ B[part] \in Seq(Symbols)
<1>1. PICK T : T = PartsOf(r)
  OBVIOUS
<1>2. PICK ps : ps = r.parts
  OBVIOUS
<1>3. ps \in Seq(T) /\ \A part \in T : part \in Seq(Symbols)
  BY <1>1, <1>2, PartsAre
<1>4. \A part \in T : B[part] = ChunkBytes(r, part) /\ B[part] \in Seq(Symbols)
  BY <1>1, <1>3, ChunkTypes
<1>5. \A i \in 1..Len(ps) : ps[i] \in T
  BY <1>3
<1>6. PICK g : g = [i \in 1..Len(ps) |-> ChunkBytes(r, ps[i])]
  OBVIOUS
<1>7. g = [i \in 1..Len(ps) |-> B[ps[i]]]
  BY <1>4, <1>5, <1>6
<1>8. FlattenSeq(g) = Blocks(B, ps) /\ Blocks(B, ps) \in Seq(Symbols)
  <2>1. PICK C : C = B
    OBVIOUS
  <2>2. (\A x \in T : C[x] \in Seq(Symbols)) /\ ps \in Seq(T)
    BY <1>3, <1>4, <2>1
  <2>3. g = [i \in 1..Len(ps) |-> C[ps[i]]]
    BY <1>7, <2>1
  <2>4. FlattenSeq(g) = Blocks(C, ps) /\ Blocks(C, ps) \in Seq(Symbols)
    BY <2>2, <2>3, MapIs
  <2> QED
    BY <2>1, <2>4
<1>9. ChunksOf(r) = FlattenSeq(g)
  BY <1>2, <1>6 DEF ChunksOf
<1> QED
  BY <1>1, <1>2, <1>4, <1>8, <1>9

\* All the chunks.
LEMMA ChunksRun ==
    ASSUME NEW r, WellFormed(r), ByChunks(r), NEW d, NEW m, InChunks(m, r, d),
           NEW y, y = After(m, ChunksOf(r))
    PROVE  /\ ~r.huge => InChunks(y, r, d)
           /\ r.huge => y.failed /\ y.done = d /\ y \in Machines
<1>1. PICK T : T = PartsOf(r)
  OBVIOUS
<1>2. PICK ps : ps = r.parts
  OBVIOUS
<1>3. ps \in Seq(T) /\ \A part \in T : part \in Seq(Symbols) /\ part # <<>> /\ HasRoom(Len(part))
  BY <1>1, <1>2, PartsAre
<1>4. PICK B : B = [part \in T |-> ChunkBytes(r, part)]
  OBVIOUS
<1>5. /\ ChunksOf(r) = Blocks(B, ps) /\ ChunksOf(r) \in Seq(Symbols)
      /\ \A part \in T : B[part] = ChunkBytes(r, part) /\ B[part] \in Seq(Symbols)
  BY <1>1, <1>2, <1>4, ChunksAre
<1>6. PICK S : S = {x \in Machines : InChunks(x, r, d) \/ (r.huge /\ x.failed /\ x.done = d)}
  OBVIOUS
<1>7. S \subseteq Machines /\ m \in S
  BY <1>6, InChunksStart
<1>8. ASSUME NEW x \in S, NEW c \in T
      PROVE  After(x, B[c]) \in S /\ (r.huge => After(x, B[c]).failed /\ After(x, B[c]).done = d)
  <2>1. PICK z : z = After(x, B[c])
    OBVIOUS
  <2>2. x \in Machines /\ B[c] \in Seq(Symbols) /\ B[c] = ChunkBytes(r, c)
    BY <1>5, <1>7
  <2>3. z \in Machines
    BY <2>1, <2>2, AfterType
  <2>4. CASE InChunks(x, r, d) /\ ~r.huge
    <3>1. InChunks(z, r, d)
      BY <1>3, <2>1, <2>2, <2>4, ChunkKeeps
    <3> QED
      BY <1>6, <2>1, <2>3, <2>4, <3>1
  <2>5. CASE InChunks(x, r, d) /\ r.huge
    <3>1. AtSizeStart(x) /\ x.done = d
      BY <2>5, InChunksStart
    <3>2. z.failed /\ z.done = d
      BY <1>3, <2>1, <2>2, <2>5, <3>1, ChunkBreaks
    <3> QED
      BY <1>6, <2>1, <2>3, <2>5, <3>2
  <2>6. CASE r.huge /\ x.failed /\ x.done = d
    <3>1. z = x
      BY <2>1, <2>2, <2>6, FailedRun
    <3> QED
      BY <2>1, <2>6, <3>1
  <2> QED
    BY <1>6, <2>4, <2>5, <2>6
<1>9. \A s \in Seq(T) : After(m, Blocks(B, s)) \in S
  BY <1>5, <1>7, <1>8, BlocksRun
<1>10. y \in S
  BY <1>3, <1>5, <1>9
<1>11. CASE ~r.huge
  BY <1>6, <1>10, <1>11
<1>12. CASE r.huge
  <2>1. ps # <<>>
    BY <1>2, <1>12, CodingsAre, WellFormedIs, BodyFormedIs
  <2>2. PICK f : f = Upto(ps, Len(ps) - 1)
    OBVIOUS
  <2>3. PICK c : c = ps[Len(ps)]
    OBVIOUS
  <2>4. f \in Seq(T) /\ c \in T /\ ps = Append(f, c)
    BY <1>3, <2>1, <2>2, <2>3, FrontAndLast
  <2>5. PICK a : a = Blocks(B, f)
    OBVIOUS
  <2>6. PICK b : b = B[c]
    OBVIOUS
  <2>7. Blocks(B, ps) = a \o b
    BY <1>5, <2>4, <2>5, <2>6, BlocksAppend
  <2>8. a \in Seq(Symbols) /\ b \in Seq(Symbols)
    BY <1>5, <2>4, <2>5, <2>6, MapIs
  <2>9. After(m, a) \in S
    BY <1>9, <2>4, <2>5
  <2>10. After(m, a \o b) = After(After(m, a), b)
    BY <1>7, <2>8, AfterBoth
  <2> QED
    BY <1>5, <1>8, <1>10, <1>12, <1>7, <2>4, <2>6, <2>7, <2>9, <2>10
<1> QED
  BY <1>11, <1>12

\* The last chunk, the headers after it and the end.
Zero == "0"
LastChunk == <<Zero, CR, LF>>
InTrailer(x, r, d) == AtLine(x, x.flags, 0, r.start, d) /\ Told(x, r, d)
                      /\ {"CHUNKED", "TRAILING"} \subseteq x.flags /\ x.state = "s_header_field_start"

LEMMA ZeroIs == Numeral[0] = <<Zero>> /\ Zero \in Symbols
<1>1. Numeral[0] = NumeralFrom(Numeral, 0)
  BY NumeralIs
<1>2. 0 < Base /\ 0 \in Nat /\ Base \in Nat
  BY NumbersAssumption
<1>3. NumeralFrom(Numeral, 0) = <<Numerals[0 + 1]>>
  BY <1>2 DEF NumeralFrom
<1>4. Numerals[1] = Zero
  BY DEF Numerals, Zero
<1>5. 0 + 1 = 1
  OBVIOUS
<1>6. 0 \in 0..Base - 1
  BY <1>2
<1>7. Numerals[0 + 1] \in Digits
  BY <1>6, NumeralDigit
<1> QED
  BY <1>1, <1>3, <1>4, <1>5, <1>7, TokensAre

\* The last chunk leads to the trailer.
LEMMA LastChunkRun ==
    ASSUME NEW m, NEW r, NEW d, InChunks(m, r, d)
    PROVE  InTrailer(After(m, LastChunk), r, d) /\ LastChunk \in Seq(Symbols)
<1>1. AtSizeStart(m) /\ m \in Machines
  BY InChunksStart
<1>2. 0 \in Nat /\ 0 < Base
  BY NumbersAssumption
<1>3. PICK x : x = InSize(m, 0)
  OBVIOUS
<1>4. After(m, Numeral[0]) = x /\ Numeral[0] \in Seq(Symbols)
  BY <1>1, <1>2, <1>3, SizeRun
<1>5. /\ x \in Machines /\ ~x.failed /\ x.state = "s_chunk_size" /\ x.length = 0
      /\ x.closed = m.closed /\ x.flags = m.flags /\ x.start = m.start /\ x.done = m.done
  BY <1>1, <1>2, <1>3, InSizeIs
<1>6. PICK u : u = To(x, "s_chunk_size_almost_done")
  OBVIOUS
<1>7. "s_chunk_size_almost_done" \in ParserStates
  BY DEF ParserStates
<1>8. /\ u \in Machines /\ u.length = 0 /\ ~u.failed /\ u.closed = x.closed /\ u.flags = x.flags
      /\ u.start = x.start /\ u.done = x.done
  BY <1>5, <1>6, <1>7, ToTo
<1>9. NoExtension \in Extensions
  BY DEF Extensions
<1>10. After(After(x, NoExtension), LineEnding) = OnSizeDone(u, LF)
  BY <1>5, <1>6, <1>9, SizeLine
<1>11. After(x, NoExtension) = x
  BY AfterEmpty DEF NoExtension
<1>12. PICK q : q = [u EXCEPT !.state = "s_header_field_start", !.flags = u.flags \cup {"TRAILING"}]
  OBVIOUS
<1>13. OnSizeDone(u, LF) = q
  BY <1>8, <1>12 DEF OnSizeDone
<1>14. PICK G : G = u.flags \cup {"TRAILING"}
  OBVIOUS
<1>15. q = [u EXCEPT !.state = "s_header_field_start", !.flags = G]
  BY <1>12, <1>14
<1>16. G \in SUBSET Flags
  <2>1. u.flags \in SUBSET Flags
    BY <1>8 DEF Machines
  <2> QED
    BY <1>14, <2>1 DEF Flags
<1>17. "s_header_field_start" \in ParserStates
  BY DEF ParserStates
<1>18. /\ q \in Machines /\ q.failed = u.failed /\ q.closed = u.closed /\ q.flags = G
       /\ q.start = u.start /\ q.done = u.done /\ q.length = u.length /\ q.state = "s_header_field_start"
  BY <1>8, <1>15, <1>16, <1>17 DEF Machines
<1>19. /\ Told(m, r, d) /\ "CHUNKED" \in m.flags
  BY DEF InChunks
<1>20. \A f : f \in q.flags <=> f \in m.flags \/ f = "TRAILING"
  BY <1>5, <1>8, <1>14, <1>18
<1>21. Told(q, r, d)
  BY <1>5, <1>8, <1>18, <1>19, <1>20 DEF Told
<1>22. AtLine(q, q.flags, 0, r.start, d)
  BY <1>8, <1>18, <1>21 DEF AtLine, Told
<1>23. InTrailer(q, r, d)
  BY <1>18, <1>19, <1>20, <1>21, <1>22 DEF InTrailer
<1>24. PICK a : a = Numeral[0]
  OBVIOUS
<1>25. LastChunk = a \o LineEnding
  BY <1>24, ZeroIs DEF LastChunk, LineEnding
<1>26. After(m, a \o LineEnding) = After(After(m, a), LineEnding) /\ a \o LineEnding \in Seq(Symbols)
  BY <1>1, <1>4, <1>24, ExtensionsAre, AfterBoth
<1> QED
  BY <1>4, <1>10, <1>11, <1>13, <1>23, <1>24, <1>25, <1>26

\* The end of a chunked response.
LEMMA TrailerEnds ==
    ASSUME NEW r, WellFormed(r), ~ByEnd(r), NEW d, NEW x, InTrailer(x, r, d),
           NEW b, b = BytesOf(r, r.trailer), NEW e, e = r.eol
    PROVE  /\ Result(After(After(x, b), e), r, d) /\ Late(After(x, b), e, d)
           /\ b \in Seq(Symbols) /\ e \in Seq(Symbols)
<1>1. PICK F : F = x.flags
  OBVIOUS
<1>2. PICK t : t = r.start
  OBVIOUS
<1>3. PICK hs : hs = r.trailer
  OBVIOUS
<1>4. AllFormed(hs) /\ r.eol \in Eols /\ e \in Eols
  BY <1>3, WellFormedIs
<1>5. /\ AtLine(x, F, 0, t, d) /\ Told(x, r, d)
      /\ "CHUNKED" \in F /\ "TRAILING" \in F
  BY <1>1, <1>2 DEF InTrailer
<1>6. b = BytesOf(r, hs)
  BY <1>3
<1>7. PICK y : y = After(x, b)
  OBVIOUS
<1>8. AtLine(y, F, 0, t, d) /\ b \in Seq(Symbols)
  BY <1>4, <1>5, <1>6, <1>7, FieldsRun
<1>9. Late(y, e, d)
  BY <1>4, <1>8, EolLate
<1>10. PICK z : z = Line(y)
  OBVIOUS
<1>11. /\ z \in Machines /\ ~z.failed /\ ~z.closed /\ z.flags = F
       /\ z.done = d /\ z.start = t /\ z.length = 0
  BY <1>8, <1>10, LineIs
<1>12. y \in Machines /\ ~y.failed
  BY <1>8 DEF AtLine
<1>13. After(y, e) = OnHeadersAlmostDone(z, LF)
  BY <1>4, <1>8, <1>10, <1>12, EolRun
<1>14. OnHeadersAlmostDone(z, LF) = Complete(z)
  BY <1>5, <1>11 DEF OnHeadersAlmostDone
<1>15. ~NeedsEofIn(z)
  BY <1>5, <1>11 DEF NeedsEofIn
<1>16. Told(z, r, d)
  BY <1>1, <1>2, <1>5, <1>11 DEF Told
<1>17. Result(Complete(z), r, d)
  BY <1>15, <1>16, Finishes
<1>18. e \in Seq(Symbols)
  BY <1>4, ControlsAre
<1> QED
  BY <1>7, <1>8, <1>9, <1>13, <1>14, <1>17, <1>18

ChunkedRest(r) == ChunksOf(r) \o LastChunk \o BytesOf(r, r.trailer) \o r.eol

\* A chunked body.
LEMMA ChunkedResult ==
    ASSUME NEW r, WellFormed(r), ByChunks(r), NEW d, NEW m, InChunks(m, r, d), NEW w, w = ChunkedRest(r)
    PROVE  /\ w \in Seq(Symbols)
           /\ ~r.huge => Result(After(m, w), r, d) /\ Late(m, w, d)
           /\ r.huge => After(m, w).failed /\ After(m, w).done = d
<1>1. PICK a : a = ChunksOf(r)
  OBVIOUS
<1>2. PICK b : b = BytesOf(r, r.trailer)
  OBVIOUS
<1>3. PICK e : e = r.eol
  OBVIOUS
<1>4. a \in Seq(Symbols)
  BY <1>1, ChunksAre
<1>5. m \in Machines
  BY InChunksStart
<1>6. LastChunk \in Seq(Symbols)
  BY LastChunkRun
<1>7. e \in Eols /\ r.eol \in Eols /\ AllFormed(r.trailer)
  BY <1>3, WellFormedIs
<1>8. e \in Seq(Symbols)
  BY <1>7, ControlsAre
<1>9. b \in Seq(Symbols)
  BY <1>2, <1>7, FormedBytes, BytesOfIs DEF HasBytes
<1>10. PICK a1 : a1 = a \o LastChunk
  OBVIOUS
<1>11. After(m, a1) = After(After(m, a), LastChunk) /\ a1 \in Seq(Symbols) /\ After(m, a) \in Machines
  BY <1>4, <1>5, <1>6, <1>10, AfterBoth
<1>12. PICK a2 : a2 = a1 \o b
  OBVIOUS
<1>13. After(m, a2) = After(After(m, a1), b) /\ a2 \in Seq(Symbols) /\ After(m, a1) \in Machines
  BY <1>5, <1>9, <1>11, <1>12, AfterBoth
<1>14. After(m, a2 \o e) = After(After(m, a2), e) /\ a2 \o e \in Seq(Symbols)
  BY <1>5, <1>8, <1>13, AfterBoth
<1>15. w = a2 \o e
  BY <1>1, <1>2, <1>3, <1>10, <1>12 DEF ChunkedRest
<1>16. PICK y : y = After(m, a)
  OBVIOUS
<1>17. /\ ~r.huge => InChunks(y, r, d)
       /\ r.huge => y.failed /\ y.done = d /\ y \in Machines
  BY <1>1, <1>16, ChunksRun
<1>18. CASE r.huge
  <2>1. After(y, LastChunk) = y /\ After(y, b) = y /\ After(y, e) = y
    BY <1>6, <1>8, <1>9, <1>17, <1>18, FailedRun
  <2> QED
    BY <1>11, <1>13, <1>14, <1>15, <1>16, <1>17, <1>18, <2>1
<1>19. CASE ~r.huge
  <2>1. PICK x : x = After(y, LastChunk)
    OBVIOUS
  <2>2. InTrailer(x, r, d)
    BY <1>17, <1>19, <2>1, LastChunkRun
  <2>3. ~ByEnd(r)
    BY CodingsAre
  <2>4. Result(After(After(x, b), e), r, d) /\ Late(After(x, b), e, d)
    BY <1>2, <1>3, <2>2, <2>3, TrailerEnds
  <2>5. After(m, a2) = After(x, b)
    BY <1>11, <1>13, <1>16, <2>1
  <2>6. Late(After(m, a2), e, d)
    BY <2>4, <2>5
  <2>7. Late(m, a2 \o e, d)
    BY <1>5, <1>13, <2>6, LateAfter
  <2> QED
    BY <1>14, <1>15, <1>19, <2>4, <2>5, <2>7
<1> QED
  BY <1>18, <1>19

\* A response.
Remainder(r) == IF ByChunks(r) THEN ChunkedRest(r) ELSE Body(r)

LEMMA BytesIs ==
    ASSUME NEW r
    PROVE  Bytes(r) = <<r.start>> \o r.eol \o BytesOf(r, Headers(r)) \o r.eol \o Remainder(r)
<1>1. CASE ByChunks(r)
  BY <1>1 DEF Bytes, Remainder, ChunkedRest, ChunksOf, LastChunk, Zero, ByChunks
<1>2. CASE ~ByChunks(r)
  BY <1>2 DEF Bytes, Remainder, ByChunks
<1> QED
  BY <1>1, <1>2

LEMMA NoBodyIs ==
    ASSUME NEW r, WellFormed(r), Bodiless(r) \/ Len(Body(r)) = 0
    PROVE  Body(r) = <<>>
<1>1. PICK s : s = Body(r)
  OBVIOUS
<1>2. s \in Seq(Symbols)
  BY <1>1, BodyIs
<1>3. CASE Bodiless(r)
  <2>1. r.parts = <<>>
    BY <1>3, WellFormedIs, BodyFormedIs
  <2>2. <<>> \in Texts
    BY DEF Texts
  <2>3. FlattenSeq(<<>>) = Flat(<<>>)
    BY <2>2, FlattenIs
  <2> QED
    BY <2>1, <2>3, FlatEmpty DEF Body
<1>4. CASE Len(s) = 0
  BY <1>1, <1>2, <1>4
<1> QED
  BY <1>1, <1>3, <1>4

\* What the machine makes of a response: it completes it at its last symbol and is
\* closed or ready for the next one, it waits for the end of the connection, or
\* the number that is out of range breaks it.
LEMMA ResponseRun ==
    ASSUME NEW r, WellFormed(r), NEW d, NEW m, Ready(m, d), NEW w, w = Bytes(r)
    PROVE  /\ w \in Seq(Symbols)
           /\ ~r.huge /\ ~ByEnd(r) => Result(After(m, w), r, d) /\ Late(m, w, d)
           /\ ByEnd(r) => Endless(After(m, w), d) /\ ~r.huge
           /\ r.huge => After(m, w).failed /\ After(m, w).done = d
<1>1. PICK e : e = r.eol
  OBVIOUS
<1>2. PICK t : t = r.start
  OBVIOUS
<1>3. e \in Eols /\ r.eol \in Eols /\ t \in StartLines /\ BodyFormed(r) /\ r.huge \in BOOLEAN
  BY <1>1, <1>2, WellFormedIs
<1>4. e \in Seq(Symbols) /\ m \in Machines
  BY <1>3, ControlsAre DEF Ready
<1>5. PICK a : a = <<t>> \o e
  OBVIOUS
<1>6. PICK x : x = After(m, a)
  OBVIOUS
<1>7. AtLine(x, {}, NoLength, t, d) /\ a \in Seq(Symbols)
  BY <1>3, <1>5, <1>6, StartRun
<1>8. PICK h : h = BytesOf(r, Headers(r))
  OBVIOUS
<1>9. PICK y : y = After(x, h)
  OBVIOUS
<1>10. /\ h \in Seq(Symbols)
       /\ r.huge /\ ByLength(r) => y.failed /\ y.done = d /\ y \in Machines
       /\ ~(r.huge /\ ByLength(r)) => AtLine(y, CodedFlags(r), CodedLength(r), t, d)
  BY <1>7, <1>8, <1>9, HeadersRun
<1>11. PICK b : b = a \o h
  OBVIOUS
<1>12. After(m, b) = y /\ b \in Seq(Symbols)
  <2>1. After(m, a \o h) = After(After(m, a), h) /\ a \o h \in Seq(Symbols)
    BY <1>4, <1>7, <1>10, AfterBoth
  <2> QED
    BY <1>6, <1>9, <1>11, <2>1
<1>13. PICK c : c = b \o e
  OBVIOUS
<1>14. After(m, c) = After(y, e) /\ c \in Seq(Symbols)
  <2>1. After(m, b \o e) = After(After(m, b), e) /\ b \o e \in Seq(Symbols)
    BY <1>4, <1>12, AfterBoth
  <2> QED
    BY <1>12, <1>13, <2>1
<1>15. PICK z : z = After(y, e)
  OBVIOUS
<1>16. PICK s : s = Remainder(r)
  OBVIOUS
<1>17. w = c \o s
  BY <1>1, <1>2, <1>5, <1>8, <1>11, <1>13, <1>16, BytesIs
<1>18. ASSUME s \in Seq(Symbols)
       PROVE  After(m, w) = After(z, s) /\ w \in Seq(Symbols)
  <2>1. After(m, c \o s) = After(After(m, c), s) /\ c \o s \in Seq(Symbols)
    BY <1>4, <1>14, <1>18, AfterBoth
  <2> QED
    BY <1>14, <1>15, <1>17, <2>1
<1>19. ASSUME ~(r.huge /\ ByLength(r))
       PROVE  /\ Bodiless(r) => Result(z, r, d)
              /\ ByEnd(r) => Endless(z, d)
              /\ ByLength(r) => IF Len(Body(r)) = 0 THEN Result(z, r, d) ELSE InBody(z, r, d)
              /\ ByChunks(r) => InChunks(z, r, d)
              /\ Late(m, c, d)
  <2>1. PICK F : F = CodedFlags(r)
    OBVIOUS
  <2>2. PICK k : k = CodedLength(r)
    OBVIOUS
  <2>3. AtLine(y, F, k, t, d)
    BY <1>10, <1>19, <2>1, <2>2
  <2>4. z = After(y, r.eol)
    BY <1>1, <1>15
  <2>5. Late(y, e, d)
    BY <1>3, <2>3, EolLate
  <2>6. Late(After(m, b), e, d)
    BY <1>12, <2>5
  <2>7. Late(m, b \o e, d)
    BY <1>4, <1>12, <2>6, LateAfter
  <2>8. /\ Bodiless(r) => Result(z, r, d)
        /\ ByEnd(r) => Endless(z, d)
        /\ ByLength(r) => IF Len(Body(r)) = 0 THEN Result(z, r, d) ELSE InBody(z, r, d)
        /\ ByChunks(r) => InChunks(z, r, d)
    BY <1>2, <1>19, <2>1, <2>2, <2>3, <2>4, HeadEnds
  <2> QED
    BY <1>13, <2>7, <2>8
<1>20. Body(r) \in Seq(Symbols)
  BY BodyIs
<1>21. c \o <<>> = c
  BY <1>14, ConcatIs
<1>22. CASE Bodiless(r)
  <2>1. ~ByChunks(r) /\ ~ByLength(r) /\ ~ByEnd(r) /\ ~r.huge
    BY <1>3, <1>22, CodingsAre, BodyFormedIs
  <2>2. s = <<>>
    BY <1>16, <1>22, <2>1, NoBodyIs DEF Remainder
  <2>3. w = c
    BY <1>17, <1>21, <2>2
  <2> QED
    BY <1>14, <1>15, <1>19, <1>22, <2>1, <2>3
<1>23. CASE ByEnd(r)
  <2>1. ~ByChunks(r) /\ ~ByLength(r) /\ ~r.huge
    BY <1>3, <1>23, CodingsAre, BodyFormedIs
  <2>2. s = Body(r)
    BY <1>16, <2>1 DEF Remainder
  <2>3. Endless(z, d)
    BY <1>19, <1>23, <2>1
  <2>4. After(z, s) = z
    BY <1>20, <2>2, <2>3, EofRun DEF Endless
  <2> QED
    BY <1>18, <1>20, <1>23, <2>1, <2>2, <2>3, <2>4
<1>24. CASE ByLength(r)
  <2>1. ~ByChunks(r) /\ ~ByEnd(r)
    BY <1>24, CodingsAre
  <2>2. s = Body(r)
    BY <1>16, <2>1 DEF Remainder
  <2>3. CASE r.huge
    <3>1. y.failed /\ y.done = d /\ y \in Machines
      BY <1>10, <1>24, <2>3
    <3>2. z = y
      BY <1>4, <1>15, <3>1, FailedRun
    <3>3. After(z, s) = z
      BY <1>20, <2>2, <3>1, <3>2, FailedRun
    <3> QED
      BY <1>18, <1>20, <2>1, <2>2, <2>3, <3>1, <3>2, <3>3
  <2>4. CASE ~r.huge /\ Len(Body(r)) = 0
    <3>1. s = <<>>
      BY <2>2, <2>4, NoBodyIs
    <3>2. w = c
      BY <1>17, <1>21, <3>1
    <3> QED
      BY <1>14, <1>15, <1>19, <1>24, <2>1, <2>4, <3>2
  <2>5. CASE ~r.huge /\ Len(Body(r)) # 0
    <3>1. InBody(z, r, d)
      BY <1>19, <1>24, <2>5
    <3>2. Result(After(z, s), r, d) /\ Late(z, s, d)
      BY <2>1, <2>2, <3>1, BodyResult
    <3>3. Late(After(m, c), s, d)
      BY <1>14, <1>15, <3>2
    <3>4. Late(m, c \o s, d)
      BY <1>4, <1>14, <3>3, LateAfter
    <3> QED
      BY <1>17, <1>18, <1>20, <2>1, <2>2, <2>5, <3>2, <3>4
  <2> QED
    BY <2>3, <2>4, <2>5
<1>25. CASE ByChunks(r)
  <2>1. ~ByLength(r) /\ ~ByEnd(r)
    BY <1>25, CodingsAre
  <2>2. s = ChunkedRest(r)
    BY <1>16, <1>25 DEF Remainder
  <2>3. InChunks(z, r, d)
    BY <1>19, <1>25, <2>1
  <2>4. /\ s \in Seq(Symbols)
        /\ ~r.huge => Result(After(z, s), r, d) /\ Late(z, s, d)
        /\ r.huge => After(z, s).failed /\ After(z, s).done = d
    BY <1>25, <2>2, <2>3, ChunkedResult
  <2>5. CASE r.huge
    BY <1>18, <2>1, <2>4, <2>5
  <2>6. CASE ~r.huge
    <3>1. Late(After(m, c), s, d)
      BY <1>14, <1>15, <2>4, <2>6
    <3>2. Late(m, c \o s, d)
      BY <1>4, <1>14, <3>1, LateAfter
    <3> QED
      BY <1>17, <1>18, <2>1, <2>4, <2>6, <3>2
  <2> QED
    BY <2>5, <2>6
<1> QED
  BY <1>3, <1>22, <1>23, <1>24, <1>25, BodyFormedIs

\* Line ends between responses.
Controls == {CR, LF}
Dead(m) == m \in Machines /\ ~m.failed /\ m.state = "s_dead"

LEMMA ReadyStep ==
    ASSUME NEW m, NEW d, Ready(m, d), NEW c \in Controls
    PROVE  Ready(Step(m, c), d)
<1>1. m \in Machines /\ ~m.failed /\ ~m.closed /\ m.state = "s_start_res" /\ m.done = d
  BY DEF Ready
<1>2. c \notin StartLines /\ c \in {CR, LF}
  BY Distinct DEF Controls
<1>3. PICK x : x = Step(m, c)
  OBVIOUS
<1>4. x = [m EXCEPT !.flags = {}, !.length = NoLength]
  BY <1>1, <1>2, <1>3 DEF Step, OnStart
<1>5. x \in Machines
  BY <1>1, <1>3, StepType
<1>6. x.state = m.state /\ x.failed = m.failed /\ x.closed = m.closed /\ x.done = m.done
  BY <1>1, <1>4 DEF Machines
<1> QED
  BY <1>1, <1>3, <1>5, <1>6 DEF Ready

LEMMA ControlSeq == Controls \subseteq Symbols /\ Seq(Controls) \subseteq Seq(Symbols)
BY ControlsAre, SeqIn DEF Controls

\* They change nothing.
LEMMA BetweenRun ==
    ASSUME NEW m \in Machines
    PROVE  \A s \in Seq(Controls) : /\ \A d : Ready(m, d) => Ready(After(m, s), d)
                                    /\ Dead(m) => After(m, s) = m
<1> DEFINE G == {s \in Seq(Controls) : /\ \A d : Ready(m, d) => Ready(After(m, s), d)
                                       /\ Dead(m) => After(m, s) = m}
<1>1. <<>> \in G
  <2>1. <<>> \in Seq(Controls)
    OBVIOUS
  <2> QED
    BY <2>1, AfterEmpty
<1>2. ASSUME NEW s \in Seq(Controls), NEW c \in Controls, s \in G PROVE Append(s, c) \in G
  <2>1. Append(s, c) \in Seq(Controls)
    BY AppendIs
  <2>2. After(m, Append(s, c)) = Step(After(m, s), c)
    BY ControlSeq, AfterAppend
  <2>3. PICK x : x = After(m, s)
    OBVIOUS
  <2>4. \A d : Ready(m, d) => Ready(x, d)
    BY <1>2, <2>3
  <2>5. ASSUME NEW d, Ready(m, d) PROVE Ready(Step(x, c), d)
    BY <2>4, <2>5, ReadyStep
  <2>6. ASSUME Dead(m) PROVE Step(x, c) = m
    <3>1. x = m
      BY <1>2, <2>3, <2>6
    <3>2. Step(m, c) = m
      BY <2>6 DEF Step, Dead, Controls
    <3> QED
      BY <3>1, <3>2
  <2> QED
    BY <2>1, <2>2, <2>3, <2>5, <2>6
<1> HIDE DEF G
<1>3. \A s \in Seq(Controls) : s \in G
  BY <1>1, <1>2, SeqInduction
<1> QED
  BY <1>3 DEF G

\* What a sequence begins with.
Starts(w, a) == a \in Seq(Symbols) /\ Len(a) \in 0..Len(w) /\ Upto(w, Len(a)) = a

LEMMA JoinIs ==
    ASSUME NEW T, NEW a \in Seq(T), NEW b \in Seq(T)
    PROVE  /\ a \o b \in Seq(T) /\ Len(a \o b) = Len(a) + Len(b) /\ Len(a) \in Nat /\ Len(b) \in Nat
           /\ Upto(a \o b, Len(a)) = a
           /\ \A k \in 0..Len(a) : Upto(a \o b, k) = Upto(a, k)
<1>1. PICK w : w = a \o b
  OBVIOUS
<1>2. w \in Seq(T) /\ Len(w) = Len(a) + Len(b) /\ Len(a) \in Nat /\ Len(b) \in Nat
      /\ \A i \in 1..Len(a) : w[i] = a[i]
  BY <1>1
<1>3. ASSUME NEW k \in 0..Len(a) PROVE Upto(w, k) = Upto(a, k)
  BY <1>2 DEF Upto
<1>4. Upto(a, Len(a)) = a
  BY WholeSeq
<1>5. Len(a) \in 0..Len(a)
  BY <1>2
<1> QED
  BY <1>1, <1>2, <1>3, <1>4, <1>5

LEMMA StartsLess ==
    ASSUME NEW w \in Seq(Symbols), NEW a \in Seq(Symbols), NEW b \in Seq(Symbols), Starts(w, a \o b)
    PROVE  Starts(w, a)
<1>1. PICK c : c = a \o b
  OBVIOUS
<1>2. /\ c \in Seq(Symbols) /\ Len(c) = Len(a) + Len(b) /\ Len(a) \in Nat /\ Len(b) \in Nat
      /\ Upto(c, Len(a)) = a
  BY <1>1, JoinIs
<1>3. Len(c) \in 0..Len(w) /\ Upto(w, Len(c)) = c
  BY <1>1 DEF Starts
<1>4. Upto(Upto(w, Len(c)), Len(a)) = Upto(w, Len(a))
  <2>1. PICK n : n = Len(c)
    OBVIOUS
  <2>2. PICK k : k = Len(a)
    OBVIOUS
  <2>3. n \in 0..Len(w) /\ k \in 0..n
    BY <1>2, <1>3, <2>1, <2>2
  <2>4. SubSeq(SubSeq(w, 1, n), 1, k) = SubSeq(w, 1, k)
    BY <2>3
  <2> QED
    BY <2>1, <2>2, <2>4 DEF Upto
<1>5. Len(a) \in 0..Len(w)
  BY <1>2, <1>3
<1> QED
  BY <1>2, <1>3, <1>4, <1>5 DEF Starts

LEMMA StartsSelf ==
    ASSUME NEW w \in Seq(Symbols)
    PROVE  Starts(w, w)
<1>1. Len(w) \in Nat /\ Upto(w, Len(w)) = w
  BY WholeSeq
<1>2. Len(w) \in 0..Len(w)
  BY <1>1
<1> QED
  BY <1>1, <1>2 DEF Starts

\* The machine at the end of a beginning.
LEMMA StartsRun ==
    ASSUME NEW w, NEW a, Starts(w, a)
    PROVE  Run(w, Len(a)) = After(Start, a)
BY DEF Starts, Run

\* Texts one after the other begin with the first ones.
LEMMA BlocksStart ==
    ASSUME NEW T, NEW F, \A x \in T : F[x] \in Seq(Symbols)
    PROVE  \A s \in Seq(T) : \A i \in 0..Len(s) : Starts(Blocks(F, s), Blocks(F, Upto(s, i)))
<1> DEFINE G == {s \in Seq(T) : \A i \in 0..Len(s) : Starts(Blocks(F, s), Blocks(F, Upto(s, i)))}
<1>1. <<>> \in G
  <2>1. <<>> \in Seq(T) /\ Len(<<>>) = 0
    OBVIOUS
  <2>2. ASSUME NEW i \in 0..0 PROVE Upto(<<>>, i) = <<>>
    BY DEF Upto
  <2>3. PICK b : b = Blocks(F, <<>>)
    OBVIOUS
  <2>4. b \in Seq(Symbols)
    BY <2>1, <2>3, MapIs
  <2>5. Starts(b, b)
    BY <2>4, StartsSelf
  <2> QED
    BY <2>1, <2>2, <2>3, <2>5
<1>2. ASSUME NEW s \in Seq(T), NEW c \in T, s \in G PROVE Append(s, c) \in G
  <2>1. PICK w : w = Append(s, c)
    OBVIOUS
  <2>2. w \in Seq(T) /\ Len(w) = Len(s) + 1 /\ Len(s) \in Nat /\ Upto(w, Len(s)) = s
    BY <2>1, AppendIs
  <2>3. PICK a : a = Blocks(F, s)
    OBVIOUS
  <2>4. PICK b : b = F[c]
    OBVIOUS
  <2>5. a \in Seq(Symbols) /\ b \in Seq(Symbols)
    BY <2>3, <2>4, MapIs
  <2>6. Blocks(F, w) = a \o b
    BY <2>1, <2>3, <2>4, BlocksAppend
  <2>7. a \o b \in Seq(Symbols)
    BY <2>5, JoinIs
  <2>8. Starts(a \o b, a \o b)
    BY <2>7, StartsSelf
  <2>9. Starts(a \o b, a)
    BY <2>5, <2>7, <2>8, StartsLess
  <2>10. ASSUME NEW i \in 0..Len(w) PROVE Starts(Blocks(F, w), Blocks(F, Upto(w, i)))
    <3>1. CASE i = Len(w)
      <4>1. Upto(w, i) = w
        BY <2>2, <3>1, WholeSeq
      <4> QED
        BY <2>6, <2>8, <4>1
    <3>2. CASE i # Len(w)
      <4>1. i \in 0..Len(s)
        BY <2>2, <3>2
      <4>2. Upto(w, i) = Upto(s, i)
        <5>1. SubSeq(SubSeq(w, 1, Len(s)), 1, i) = SubSeq(w, 1, i)
          BY <2>2, <4>1
        <5> QED
          BY <2>2, <5>1 DEF Upto
      <4>3. PICK f : f = Blocks(F, Upto(s, i))
        OBVIOUS
      <4>4. Starts(a, f)
        BY <1>2, <2>3, <4>1, <4>3
      <4>5. f \in Seq(Symbols) /\ Len(f) \in 0..Len(a) /\ Upto(a, Len(f)) = f
        BY <4>4 DEF Starts
      <4>6. Upto(a \o b, Len(f)) = Upto(a, Len(f)) /\ Len(a \o b) = Len(a) + Len(b) /\ Len(b) \in Nat
        BY <2>5, <4>5, JoinIs
      <4>7. Starts(a \o b, f)
        <5>1. Len(f) \in 0..Len(a \o b)
          BY <4>5, <4>6, <2>5, JoinIs
        <5> QED
          BY <4>5, <4>6, <5>1 DEF Starts
      <4> QED
        BY <2>6, <4>2, <4>3, <4>7
    <3> QED
      BY <3>1, <3>2
  <2> QED
    BY <2>1, <2>2, <2>10
<1> HIDE DEF G
<1>3. \A s \in Seq(T) : s \in G
  BY <1>1, <1>2, SeqInduction
<1> QED
  BY <1>3 DEF G

-----------------------------------------------------------------------------
(* Streams.                                                                 *)

\* A stream of responses and its bytes.
Serves(rs, w) ==
    /\ rs \in Seq(ToSet(rs)) /\ w = BytesOfAll(rs)
    /\ \A i \in 1..Len(rs) : /\ WellFormed(rs[i])
                             /\ ByEnd(rs[i]) => i = Len(rs) /\ rs[i].after = <<>>
Sent(rs, i) == BytesOfAll(Upto(rs, i))
Offset(rs, i) == Len(Sent(rs, i))
EndAt(rs, i) == Offset(rs, i - 1) + Len(Bytes(rs[i]))

\* Every stream is one.
LEMMA StreamServes ==
    ASSUME NEW n \in DOMAIN Streams
    PROVE  Serves(Streams[n], Wire[n])
<1>1. IsSequence(Streams[n])
  BY StreamsAssumption
<1>2. \A i \in DOMAIN Streams[n] :
         /\ WellFormed(Streams[n][i])
         /\ Streams[n][i].coding = "eof" => i = Len(Streams[n]) /\ Streams[n][i].after = <<>>
  BY StreamsAssumption
<1>3. PICK rs : rs = Streams[n]
  OBVIOUS
<1>4. rs \in Seq(ToSet(rs))
  BY <1>1, <1>3 DEF IsSequence
<1>5. DOMAIN rs = 1..Len(rs)
  BY <1>4
<1>6. Wire[n] = BytesOfAll(rs)
  BY <1>3 DEF Wire
<1> QED
  BY <1>2, <1>3, <1>4, <1>5, <1>6 DEF Serves, ByEnd

LEMMA StartReady == Ready(Start, 0)
BY StartType DEF Ready, Start

WithAfter(r) == Bytes(r) \o r.after

LEMMA WithAfterIs ==
    ASSUME NEW r, WellFormed(r)
    PROVE  Bytes(r) \in Seq(Symbols) /\ r.after \in Seq(Controls) /\ WithAfter(r) \in Seq(Symbols)
           /\ r.after \in Seq(Symbols)
<1>1. PICK b : b = Bytes(r)
  OBVIOUS
<1>2. b \in Seq(Symbols)
  BY <1>1, StartReady, ResponseRun
<1>3. PICK c : c = r.after
  OBVIOUS
<1>4. c \in Seq(Controls)
  BY <1>3, WellFormedIs DEF Controls
<1>5. c \in Seq(Symbols)
  BY <1>4, ControlSeq
<1>6. b \o c \in Seq(Symbols)
  BY <1>2, <1>5, ConcatIs
<1> QED
  BY <1>1, <1>2, <1>3, <1>4, <1>5, <1>6 DEF WithAfter

LEMMA SentIs ==
    ASSUME NEW rs, NEW w, Serves(rs, w), NEW B, B = [r \in ToSet(rs) |-> WithAfter(r)]
    PROVE  /\ \A r \in ToSet(rs) : WellFormed(r)
           /\ \A r \in ToSet(rs) : B[r] \in Seq(Symbols)
           /\ \A r \in ToSet(rs) : B[r] = WithAfter(r)
           /\ \A s \in Seq(ToSet(rs)) : BytesOfAll(s) = Blocks(B, s)
           /\ w \in Seq(Symbols)
<1>1. PICK T : T = ToSet(rs)
  OBVIOUS
<1>2. rs \in Seq(T)
  BY <1>1 DEF Serves
<1>3. \A r \in T : \E i \in 1..Len(rs) : r = rs[i]
  BY <1>1, <1>2 DEF ToSet
<1>4. \A r \in T : WellFormed(r)
  BY <1>3 DEF Serves
<1>5. PICK C : C = B
  OBVIOUS
<1>6. \A r \in T : C[r] = WithAfter(r)
  BY <1>1, <1>5
<1>7. \A r \in T : C[r] \in Seq(Symbols)
  BY <1>4, <1>6, WithAfterIs
<1>8. ASSUME NEW s \in Seq(T) PROVE BytesOfAll(s) = Blocks(C, s) /\ Blocks(C, s) \in Seq(Symbols)
  <2>1. \A i \in 1..Len(s) : s[i] \in T
    BY <1>8
  <2>2. PICK g : g = [i \in 1..Len(s) |-> Bytes(s[i]) \o s[i].after]
    OBVIOUS
  <2>3. \A i \in 1..Len(s) : Bytes(s[i]) \o s[i].after = C[s[i]]
    BY <1>6, <2>1 DEF WithAfter
  <2>4. g = [i \in 1..Len(s) |-> C[s[i]]]
    BY <2>2, <2>3
  <2>5. FlattenSeq(g) = Blocks(C, s) /\ Blocks(C, s) \in Seq(Symbols)
    BY <1>7, <1>8, <2>4, MapIs
  <2>6. BytesOfAll(s) = FlattenSeq(g)
    BY <2>2 DEF BytesOfAll
  <2> QED
    BY <2>5, <2>6
<1>9. w \in Seq(Symbols)
  BY <1>2, <1>8 DEF Serves
<1> QED
  BY <1>1, <1>4, <1>5, <1>6, <1>7, <1>8, <1>9

\* The responses sent before, and all of them.
LEMMA SentAll ==
    ASSUME NEW rs, NEW w, Serves(rs, w)
    PROVE  /\ Sent(rs, 0) = <<>> /\ Sent(rs, Len(rs)) = w /\ Len(rs) \in Nat /\ w \in Seq(Symbols)
           /\ \A i \in 0..Len(rs) : Starts(w, Sent(rs, i))
<1>1. PICK T : T = ToSet(rs)
  OBVIOUS
<1>2. rs \in Seq(T) /\ w = BytesOfAll(rs)
  BY <1>1 DEF Serves
<1>3. PICK B : B = [r \in T |-> WithAfter(r)]
  OBVIOUS
<1>4. /\ \A r \in T : B[r] \in Seq(Symbols)
      /\ \A s \in Seq(T) : BytesOfAll(s) = Blocks(B, s)
      /\ w \in Seq(Symbols)
  BY <1>1, <1>3, SentIs
<1>5. Len(rs) \in Nat /\ Upto(rs, Len(rs)) = rs
  BY <1>2, WholeSeq
<1>6. \A i \in 0..Len(rs) : Upto(rs, i) \in Seq(T)
  BY <1>2, PrefixIs
<1>7. \A i \in 0..Len(rs) : Starts(Blocks(B, rs), Blocks(B, Upto(rs, i)))
  BY <1>2, <1>4, BlocksStart
<1>8. \A i \in 0..Len(rs) : Starts(w, Sent(rs, i))
  BY <1>2, <1>4, <1>6, <1>7 DEF Sent
<1>9. Sent(rs, 0) = <<>>
  <2>1. Upto(rs, 0) = <<>>
    BY <1>2 DEF Upto
  <2>2. <<>> \in Seq(T)
    OBVIOUS
  <2> QED
    BY <1>4, <2>1, <2>2, BlocksEmpty DEF Sent
<1> QED
  BY <1>2, <1>4, <1>5, <1>8, <1>9 DEF Sent

\* One response more.
LEMMA SentNext ==
    ASSUME NEW rs, NEW w, Serves(rs, w), NEW i \in 1..Len(rs)
    PROVE  /\ Sent(rs, i) = Sent(rs, i - 1) \o WithAfter(rs[i]) /\ i \in Nat /\ i - 1 \in 0..Len(rs)
           /\ WellFormed(rs[i]) /\ (ByEnd(rs[i]) => i = Len(rs) /\ rs[i].after = <<>>)
<1>1. PICK T : T = ToSet(rs)
  OBVIOUS
<1>2. rs \in Seq(T) /\ WellFormed(rs[i]) /\ (ByEnd(rs[i]) => i = Len(rs) /\ rs[i].after = <<>>)
  BY <1>1 DEF Serves
<1>3. PICK B : B = [r \in T |-> WithAfter(r)]
  OBVIOUS
<1>4. /\ \A r \in T : B[r] \in Seq(Symbols)
      /\ \A r \in T : B[r] = WithAfter(r)
      /\ \A s \in Seq(T) : BytesOfAll(s) = Blocks(B, s)
  BY <1>1, <1>3, SentIs
<1>5. Len(rs) \in Nat /\ rs[i] \in T
  BY <1>2
<1>6. i \in Nat /\ i - 1 \in 0..Len(rs) /\ i \in 0..Len(rs)
  BY <1>5
<1>7. PICK s : s = Upto(rs, i - 1)
  OBVIOUS
<1>8. s \in Seq(T) /\ Upto(rs, i) \in Seq(T)
  BY <1>2, <1>6, <1>7, PrefixIs
<1>9. Upto(rs, i) = Append(s, rs[i])
  BY <1>2, <1>7, UptoNext
<1>10. Blocks(B, Append(s, rs[i])) = Blocks(B, s) \o B[rs[i]]
  BY <1>4, <1>5, <1>8, BlocksAppend, SMTT(30)
<1> QED
  BY <1>2, <1>4, <1>5, <1>6, <1>7, <1>8, <1>9, <1>10 DEF Sent

\* Texts are joined in any order.
LEMMA JoinThree ==
    ASSUME NEW T, NEW a \in Seq(T), NEW b \in Seq(T), NEW c \in Seq(T)
    PROVE  a \o (b \o c) = (a \o b) \o c
OBVIOUS

LEMMA JoinSymbols ==
    \A x \in Seq(Symbols) : \A y \in Seq(Symbols) : \A z \in Seq(Symbols) :
       x \o (y \o z) = (x \o y) \o z
<1>1. PICK Q : Q = Symbols
  OBVIOUS
<1>2. \A x \in Seq(Q) : \A y \in Seq(Q) : \A z \in Seq(Q) : x \o (y \o z) = (x \o y) \o z
  OBVIOUS
<1> QED
  BY <1>1, <1>2

\* The machine after a part of what the stream begins with.
LEMMA RunJoined ==
    ASSUME NEW w \in Seq(Symbols), NEW a \in Seq(Symbols), NEW b \in Seq(Symbols), Starts(w, a \o b)
    PROVE  /\ Starts(w, a) /\ Len(a) \in 0..Len(w) /\ Len(a) + Len(b) \in Len(a)..Len(w)
           /\ Len(a) \in Nat /\ Len(b) \in Nat
           /\ Run(w, Len(a) + Len(b)) = After(Run(w, Len(a)), b)
<1>1. Starts(w, a)
  BY StartsLess
<1>2. Run(w, Len(a)) = After(Start, a)
  BY <1>1, StartsRun
<1>3. PICK c : c = a \o b
  OBVIOUS
<1>4. Len(c) = Len(a) + Len(b) /\ Len(a) \in Nat /\ Len(b) \in Nat
  BY <1>3, JoinIs
<1>5. Len(c) \in 0..Len(w) /\ Run(w, Len(c)) = After(Start, c)
  BY <1>3, StartsRun DEF Starts
<1>6. After(Start, a \o b) = After(After(Start, a), b)
  BY StartType, AfterBoth
<1>7. Len(a) \in 0..Len(w) /\ Len(w) \in Nat
  BY <1>1 DEF Starts
<1>8. Len(a) + Len(b) \in Len(a)..Len(w)
  BY <1>4, <1>5, <1>7
<1> QED
  BY <1>1, <1>2, <1>3, <1>4, <1>5, <1>6, <1>7, <1>8

\* One symbol before the end.
LEMMA LateRun ==
    ASSUME NEW w \in Seq(Symbols), NEW a \in Seq(Symbols), NEW b \in Seq(Symbols), Starts(w, a \o b),
           NEW d, Late(Run(w, Len(a)), b, d), NEW e, e = Len(a) + Len(b)
    PROVE  e - 1 \in 0..Len(w) /\ Run(w, e - 1).done = d /\ e \in Nat
<1>1. PICK v \in Seq(Symbols), c \in Symbols : b = Append(v, c) /\ After(Run(w, Len(a)), v).done = d
  BY DEF Late
<1>2. PICK s : s = <<c>>
  OBVIOUS
<1>3. s \in Seq(Symbols) /\ Len(s) = 1
  BY <1>2
<1>4. Append(v, c) = v \o s
  BY <1>2, ConcatIs
<1>5. a \o (v \o s) = (a \o v) \o s
  <2>1. s \in Seq(Symbols)
    BY <1>3
  <2>2. \A x \in Seq(Symbols) : \A y \in Seq(Symbols) : \A z \in Seq(Symbols) :
           x \o (y \o z) = (x \o y) \o z
    BY JoinSymbols
  <2> QED
    BY <2>1, <2>2, ZenonT(40)
<1>6. PICK f : f = a \o v
  OBVIOUS
<1>7. f \in Seq(Symbols) /\ Len(v) \in Nat /\ Len(a) \in Nat
  BY <1>6, JoinIs
<1>8. Starts(w, f \o s)
  BY <1>1, <1>4, <1>5, <1>6
<1>9. Starts(w, f)
  BY <1>3, <1>7, <1>8, StartsLess
<1>10. Starts(w, a \o v)
  BY <1>6, <1>9
<1>11. /\ Len(a) + Len(v) \in Len(a)..Len(w)
       /\ Run(w, Len(a) + Len(v)) = After(Run(w, Len(a)), v)
  BY <1>10, RunJoined
<1>12. Len(b) = Len(v) + 1
  BY <1>1, AppendIs
<1>13. e - 1 = Len(a) + Len(v)
  BY <1>7, <1>12
<1> QED
  BY <1>1, <1>7, <1>11, <1>13

\* A response in the stream.
Span(rs, w, i) ==
    /\ Offset(rs, i - 1) \in 0..Len(w) /\ EndAt(rs, i) \in Offset(rs, i - 1)..Len(w)
    /\ Offset(rs, i) \in EndAt(rs, i)..Len(w) /\ Len(w) \in Nat
    /\ EndAt(rs, i) \in 0..Len(w) /\ Offset(rs, i) \in 0..Len(w)

\* The machine at its ends.
LEMMA SpanIs ==
    ASSUME NEW rs, NEW w, Serves(rs, w), NEW i \in 1..Len(rs)
    PROVE  /\ Span(rs, w, i)
           /\ Run(w, EndAt(rs, i)) = After(Run(w, Offset(rs, i - 1)), Bytes(rs[i]))
           /\ Run(w, Offset(rs, i)) = After(Run(w, EndAt(rs, i)), rs[i].after)
           /\ \A d : Late(Run(w, Offset(rs, i - 1)), Bytes(rs[i]), d) =>
                        EndAt(rs, i) - 1 \in 0..Len(w) /\ Run(w, EndAt(rs, i) - 1).done = d
           /\ ByEnd(rs[i]) => EndAt(rs, i) = Len(w)
<1>1. PICK r : r = rs[i]
  OBVIOUS
<1>2. /\ Sent(rs, i) = Sent(rs, i - 1) \o WithAfter(r) /\ i \in Nat /\ i - 1 \in 0..Len(rs)
      /\ WellFormed(r) /\ (ByEnd(r) => i = Len(rs) /\ r.after = <<>>)
  BY <1>1, SentNext
<1>3. PICK a : a = Sent(rs, i - 1)
  OBVIOUS
<1>4. PICK b : b = Bytes(r)
  OBVIOUS
<1>5. PICK c : c = r.after
  OBVIOUS
<1>6. w \in Seq(Symbols) /\ Len(rs) \in Nat /\ Sent(rs, Len(rs)) = w /\ (\A j \in 0..Len(rs) : Starts(w, Sent(rs, j)))
  BY SentAll
<1>7. Starts(w, a) /\ Starts(w, Sent(rs, i)) /\ a \in Seq(Symbols)
  <2>1. i \in 0..Len(rs)
    BY <1>6
  <2> QED
    BY <1>2, <1>3, <1>6, <2>1 DEF Starts
<1>8. b \in Seq(Symbols) /\ c \in Seq(Symbols) /\ WithAfter(r) = b \o c
  BY <1>2, <1>4, <1>5, WithAfterIs DEF WithAfter
<1>9. a \o (b \o c) = (a \o b) \o c
  BY <1>7, <1>8, JoinThree, SMTT(30)
<1>10. PICK f : f = a \o b
  OBVIOUS
<1>11. f \in Seq(Symbols) /\ Len(f) = Len(a) + Len(b) /\ Len(a) \in Nat /\ Len(b) \in Nat
  BY <1>7, <1>8, <1>10, JoinIs
<1>12. Sent(rs, i) = f \o c
  BY <1>2, <1>3, <1>8, <1>9, <1>10
<1>13. Starts(w, f \o c)
  BY <1>7, <1>12
<1>14. /\ Starts(w, f) /\ Len(f) \in 0..Len(w) /\ Len(f) + Len(c) \in Len(f)..Len(w)
       /\ Len(c) \in Nat
       /\ Run(w, Len(f) + Len(c)) = After(Run(w, Len(f)), c)
  BY <1>6, <1>8, <1>11, <1>13, RunJoined
<1>15. Starts(w, a \o b)
  BY <1>10, <1>14
<1>16. /\ Len(a) \in 0..Len(w) /\ Len(a) + Len(b) \in Len(a)..Len(w)
       /\ Run(w, Len(a) + Len(b)) = After(Run(w, Len(a)), b)
  BY <1>6, <1>7, <1>8, <1>15, RunJoined
<1>17. Offset(rs, i - 1) = Len(a) /\ EndAt(rs, i) = Len(a) + Len(b)
  BY <1>1, <1>3, <1>4 DEF Offset, EndAt
<1>18. Offset(rs, i) = Len(f) + Len(c)
  <2>1. Len(f \o c) = Len(f) + Len(c)
    BY <1>8, <1>11, JoinIs
  <2> QED
    BY <1>12, <2>1 DEF Offset
<1>19. Len(w) \in Nat
  BY <1>6, WholeSeq
<1>20. Span(rs, w, i)
  BY <1>11, <1>14, <1>16, <1>17, <1>18, <1>19 DEF Span
<1>21. ASSUME NEW d, Late(Run(w, Len(a)), b, d)
       PROVE  Len(a) + Len(b) - 1 \in 0..Len(w) /\ Run(w, Len(a) + Len(b) - 1).done = d
  BY <1>6, <1>7, <1>8, <1>15, <1>21, LateRun
<1>22. ASSUME ByEnd(r) PROVE Len(a) + Len(b) = Len(w)
  <2>1. i = Len(rs) /\ c = <<>>
    BY <1>2, <1>5, <1>22
  <2>2. f \o <<>> = f
    BY <1>11, ConcatIs
  <2>3. w = f
    BY <1>6, <1>12, <2>1, <2>2
  <2> QED
    BY <1>11, <2>3
<1>23. PICK o : o = Offset(rs, i - 1)
  OBVIOUS
<1>24. PICK g : g = EndAt(rs, i)
  OBVIOUS
<1>25. PICK h : h = Offset(rs, i)
  OBVIOUS
<1>26. o = Len(a) /\ g = Len(a) + Len(b) /\ g = Len(f) /\ h = Len(f) + Len(c)
  BY <1>11, <1>17, <1>18, <1>23, <1>24, <1>25
<1>27. Run(w, g) = After(Run(w, o), b)
  BY <1>16, <1>26
<1>28. Run(w, h) = After(Run(w, g), c)
  BY <1>14, <1>26
<1>29. ASSUME NEW d, Late(Run(w, o), b, d) PROVE g - 1 \in 0..Len(w) /\ Run(w, g - 1).done = d
  BY <1>21, <1>26, <1>29
<1>30. ByEnd(r) => g = Len(w)
  BY <1>22, <1>26
<1> QED
  BY <1>1, <1>4, <1>5, <1>20, <1>23, <1>24, <1>25, <1>27, <1>28, <1>29, <1>30

\* A response after which the connection goes on, and all up to one of them.
Good(r) == ~r.huge /\ ~EndsConnection(r)
Live(rs, i) == \A j \in 1..i : Good(rs[j])

\* A body that the end of the connection ends leaves nothing after it.
LEMMA EofEnds == ASSUME NEW r, ByEnd(r) PROVE EndsConnection(r)
BY DEF ByEnd, EndsConnection

\* The machine at the end of a response, and at the beginning of the next.
At(rs, w, i, e, d) ==
    /\ ~rs[i].huge /\ ~ByEnd(rs[i]) =>
          Result(Run(w, e), rs[i], d) /\ e - 1 \in 0..Len(w) /\ Run(w, e - 1).done = d
    /\ ByEnd(rs[i]) => Endless(Run(w, e), d) /\ ~rs[i].huge /\ e = Len(w) /\ i = Len(rs)
    /\ rs[i].huge => Run(w, e).failed /\ Run(w, e).done = d
    /\ Good(rs[i]) => Ready(Run(w, Offset(rs, i)), d + 1)
    /\ ~rs[i].huge => ~Run(w, Offset(rs, i)).failed

LEMMA RunAt ==
    ASSUME NEW rs, NEW w, Serves(rs, w), NEW i \in 1..Len(rs), NEW d,
           Ready(Run(w, Offset(rs, i - 1)), d), NEW e, e = EndAt(rs, i)
    PROVE  At(rs, w, i, e, d)
<1>1. PICK r : r = rs[i]
  OBVIOUS
<1>2. PICK m : m = Run(w, Offset(rs, i - 1))
  OBVIOUS
<1>3. PICK b : b = Bytes(r)
  OBVIOUS
<1>4. WellFormed(r) /\ (ByEnd(r) => i = Len(rs) /\ r.after = <<>>)
  BY <1>1, SentNext
<1>5. Ready(m, d) /\ m \in Machines
  BY <1>2 DEF Ready
<1>6. /\ b \in Seq(Symbols)
      /\ ~r.huge /\ ~ByEnd(r) => Result(After(m, b), r, d) /\ Late(m, b, d)
      /\ ByEnd(r) => Endless(After(m, b), d) /\ ~r.huge
      /\ r.huge => After(m, b).failed /\ After(m, b).done = d
  BY <1>3, <1>4, <1>5, ResponseRun
<1>7. PICK x : x = Run(w, e)
  OBVIOUS
<1>8. PICK c : c = r.after
  OBVIOUS
<1>9. PICK y : y = Run(w, Offset(rs, i))
  OBVIOUS
<1>10. /\ x = After(m, b) /\ y = After(x, c)
       /\ Late(m, b, d) => e - 1 \in 0..Len(w) /\ Run(w, e - 1).done = d
       /\ ByEnd(r) => e = Len(w)
  BY <1>1, <1>2, <1>3, <1>7, <1>8, <1>9, SpanIs, ZenonT(40)
<1>11. c \in Seq(Controls) /\ c \in Seq(Symbols)
  BY <1>4, <1>8, WithAfterIs
<1>12. x \in Machines
  BY <1>5, <1>6, <1>10, AfterType
<1>13. ASSUME ~r.huge PROVE ~y.failed /\ (Good(r) => Ready(y, d + 1))
  <2>1. CASE ByEnd(r)
    <3>1. y = x
      BY <1>4, <1>8, <1>10, <2>1, AfterEmpty
    <3>2. EndsConnection(r)
      BY <2>1, EofEnds
    <3> QED
      BY <1>6, <1>10, <2>1, <3>1, <3>2 DEF Endless, Good
  <2>2. CASE ~ByEnd(r)
    <3>1. Result(x, r, d)
      BY <1>6, <1>10, <1>13, <2>2
    <3>2. CASE EndsConnection(r)
      <4>1. Dead(x)
        BY <3>1, <3>2 DEF Result, Dead
      <4>2. y = x
        BY <1>10, <1>11, <1>12, <4>1, BetweenRun
      <4> QED
        BY <3>1, <3>2, <4>2 DEF Result, Good
    <3>3. CASE ~EndsConnection(r)
      <4>1. Ready(x, d + 1)
        BY <3>1, <3>3 DEF Result
      <4>2. Ready(y, d + 1)
        BY <1>10, <1>11, <1>12, <4>1, BetweenRun
      <4> QED
        BY <4>2 DEF Ready
    <3> QED
      BY <3>2, <3>3
  <2> QED
    BY <2>1, <2>2
<1> QED
  BY <1>1, <1>4, <1>6, <1>7, <1>9, <1>10, <1>13 DEF Good, At

LEMMA LiveLess ==
    ASSUME NEW rs, NEW i \in Nat, NEW j \in Nat, j <= i, Live(rs, i)
    PROVE  Live(rs, j)
BY DEF Live

\* While the connection goes on the machine is ready for each response.
LEMMA LiveReady ==
    ASSUME NEW rs, NEW w, Serves(rs, w)
    PROVE  \A i \in 0..Len(rs) : Live(rs, i) => Ready(Run(w, Offset(rs, i)), i)
<1>1. Sent(rs, 0) = <<>> /\ Len(rs) \in Nat /\ w \in Seq(Symbols)
  BY SentAll
<1>2. Offset(rs, 0) = 0
  BY <1>1 DEF Offset
<1>3. Ready(Run(w, Offset(rs, 0)), 0)
  BY <1>1, <1>2, RunStarts, StartReady
<1>4. PICK S : S = {i \in 0..Len(rs) : Live(rs, i) /\ ~Ready(Run(w, Offset(rs, i)), i)}
  OBVIOUS
<1>5. S \subseteq Nat
  BY <1>1, <1>4
<1>6. ASSUME S # {} PROVE FALSE
  <2>1. PICK i \in S : \A j \in S : i <= j
    BY <1>5, <1>6, NatMin
  <2>2. i \in 0..Len(rs) /\ Live(rs, i) /\ ~Ready(Run(w, Offset(rs, i)), i)
    BY <1>4, <2>1
  <2>3. i # 0
    BY <1>3, <2>2
  <2>4. i \in 1..Len(rs) /\ i - 1 \in 0..Len(rs) /\ i - 1 \in Nat /\ i \in Nat /\ ~(i <= i - 1) /\ i - 1 + 1 = i
    BY <1>1, <2>2, <2>3
  <2>5. i - 1 \notin S
    BY <2>1, <2>4
  <2>6. Live(rs, i - 1)
    BY <2>2, <2>4, LiveLess
  <2>7. PICK d : d = i - 1
    OBVIOUS
  <2>8. Ready(Run(w, Offset(rs, i - 1)), d)
    BY <1>4, <2>4, <2>5, <2>6, <2>7
  <2>9. Good(rs[i])
    <3>1. i \in 1..i
      BY <2>4
    <3> QED
      BY <2>2, <3>1 DEF Live
  <2>10. Ready(Run(w, Offset(rs, i)), d + 1)
    <3>1. PICK e : e = EndAt(rs, i)
      OBVIOUS
    <3>2. At(rs, w, i, e, d)
      BY <2>4, <2>8, <3>1, RunAt
    <3> QED
      BY <2>9, <3>2 DEF At
  <2> QED
    BY <2>2, <2>4, <2>7, <2>10
<1> QED
  BY <1>4, <1>6

\* If it does not go on, there is a first response that ends it.
LEMMA FirstBad ==
    ASSUME NEW rs, NEW i \in Nat, ~Live(rs, i)
    PROVE  \E j \in 1..i : Live(rs, j - 1) /\ ~Good(rs[j])
<1>1. PICK S : S = {j \in 1..i : ~Good(rs[j])}
  OBVIOUS
<1>2. S \subseteq Nat /\ S # {}
  BY <1>1 DEF Live
<1>3. PICK j \in S : \A k \in S : j <= k
  BY <1>2, NatMin
<1>4. j \in 1..i /\ ~Good(rs[j])
  BY <1>1, <1>3
<1>5. ASSUME NEW k \in 1..j - 1 PROVE Good(rs[k])
  <2>1. k \in 1..i /\ ~(j <= k)
    BY <1>4
  <2> QED
    BY <1>1, <1>3, <2>1
<1> QED
  BY <1>4, <1>5 DEF Live

\* With the number of responses that came before.
LEMMA AtResponse ==
    ASSUME NEW rs, NEW w, Serves(rs, w), NEW i \in 1..Len(rs), Live(rs, i - 1), NEW e, e = EndAt(rs, i)
    PROVE  /\ At(rs, w, i, e, i - 1)
           /\ e \in 0..Len(w) /\ Len(w) \in Nat /\ i \in Nat /\ i - 1 \in Nat /\ Len(rs) \in Nat
           /\ w \in Seq(Symbols) /\ Offset(rs, i) \in e..Len(w)
<1>1. Len(rs) \in Nat /\ w \in Seq(Symbols)
  BY SentAll
<1>2. i \in Nat /\ i - 1 \in Nat /\ i - 1 \in 0..Len(rs)
  BY <1>1
<1>3. PICK d : d = i - 1
  OBVIOUS
<1>4. Ready(Run(w, Offset(rs, i - 1)), d)
  BY <1>2, <1>3, LiveReady
<1>5. e \in 0..Len(w) /\ Len(w) \in Nat /\ Offset(rs, i) \in e..Len(w)
  BY SpanIs DEF Span
<1>6. PICK g : g = EndAt(rs, i)
  OBVIOUS
<1>7. At(rs, w, i, g, d)
  BY <1>4, <1>6, RunAt
<1> QED
  BY <1>1, <1>2, <1>3, <1>5, <1>6, <1>7

\* A response the machine has completed after k symbols.
Reached(rs, i, k) ==
    Live(rs, i - 1) /\ ~rs[i].huge /\ ~ByEnd(rs[i]) /\ k >= EndAt(rs, i)

\* The machine later in the stream.
LEMMA RunMeans ==
    ASSUME NEW w \in Seq(Symbols), NEW k \in 0..Len(w)
    PROVE  /\ Run(w, k) \in Machines /\ Run(w, k).done \in Nat
           /\ (Run(w, k).closed <=> Run(w, k).failed \/ Run(w, k).state = "s_dead")
BY RunSound DEF IsSound, Machines

LEMMA RunFrom ==
    ASSUME NEW w \in Seq(Symbols), NEW j \in 0..Len(w), NEW k \in 0..Len(w), j <= k
    PROVE  Grows(Run(w, j), Run(w, k))
<1>1. j \in 0..k
  OBVIOUS
<1> QED
  BY <1>1, RunGrows

\* How many responses are complete after k symbols, by the i-th of them.
LEMMA DoneBy ==
    ASSUME NEW rs, NEW w, Serves(rs, w), NEW i \in 1..Len(rs), Live(rs, i - 1),
           NEW k \in 0..Len(w), NEW D, D = Run(w, k).done
    PROVE  /\ IF Reached(rs, i, k) THEN D >= i ELSE D <= i - 1
           /\ ~Good(rs[i]) => D <= i
<1>1. PICK e : e = EndAt(rs, i)
  OBVIOUS
<1>2. /\ At(rs, w, i, e, i - 1)
      /\ e \in 0..Len(w) /\ Len(w) \in Nat /\ i \in Nat /\ i - 1 \in Nat /\ w \in Seq(Symbols)
  BY <1>1, AtResponse
<1>3. PICK r : r = rs[i]
  OBVIOUS
<1>4. PICK x : x = Run(w, e)
  OBVIOUS
<1>5. PICK y : y = Run(w, k)
  OBVIOUS
<1>6. PICK d : d = i - 1
  OBVIOUS
<1>7. /\ ~r.huge /\ ~ByEnd(r) => Result(x, r, d) /\ e - 1 \in 0..Len(w) /\ Run(w, e - 1).done = d
      /\ ByEnd(r) => Endless(x, d) /\ ~r.huge /\ e = Len(w)
      /\ r.huge => x.failed /\ x.done = d
  BY <1>2, <1>3, <1>4, <1>6 DEF At
<1>8. /\ D = y.done /\ D \in Nat /\ x.done \in Nat /\ (x.failed => x.closed)
      /\ d \in Nat /\ d + 1 = i /\ k \in Nat /\ e \in Nat
  BY <1>2, <1>4, <1>5, <1>6, RunMeans
<1>9. /\ e <= k => x.done <= D /\ (x.closed => D = x.done)
      /\ k <= e => D <= x.done
  BY <1>2, <1>4, <1>5, <1>8, RunFrom DEF Grows
<1>10. CASE ~r.huge /\ ~ByEnd(r)
  <2>1. Result(x, r, d) /\ e - 1 \in 0..Len(w) /\ Run(w, e - 1).done = d
    BY <1>7, <1>10
  <2>2. x.done = d + 1 /\ (EndsConnection(r) => x.closed)
    BY <2>1 DEF Result
  <2>3. k < e => D <= d
    <3>1. SUFFICES ASSUME k < e PROVE D <= d
      OBVIOUS
    <3>2. PICK f : f = e - 1
      OBVIOUS
    <3>3. f \in 0..Len(w) /\ k <= f /\ Run(w, f).done = d
      BY <1>8, <2>1, <3>1, <3>2
    <3> QED
      BY <1>2, <1>5, <1>8, <3>3, RunFrom DEF Grows
  <2>4. Reached(rs, i, k) <=> e <= k
    BY <1>1, <1>3, <1>8, <1>10 DEF Reached
  <2>5. ~Good(r) => D <= i
    BY <1>8, <1>9, <1>10, <2>2, <2>3 DEF Good
  <2> QED
    BY <1>3, <1>8, <1>9, <2>2, <2>3, <2>4, <2>5
<1>11. CASE ByEnd(r)
  <2>1. x.done = d /\ e = Len(w)
    BY <1>7, <1>11 DEF Endless
  <2>2. D <= d
    BY <1>8, <1>9, <2>1
  <2>3. ~Reached(rs, i, k)
    BY <1>3, <1>11 DEF Reached
  <2> QED
    BY <1>6, <1>8, <2>2, <2>3
<1>12. CASE r.huge
  <2>1. x.done = d /\ x.closed
    BY <1>7, <1>8, <1>12
  <2>2. D <= d
    BY <1>8, <1>9, <2>1
  <2>3. ~Reached(rs, i, k)
    BY <1>3, <1>12 DEF Reached
  <2> QED
    BY <1>6, <1>8, <2>2, <2>3
<1> QED
  BY <1>10, <1>11, <1>12

\* No responses.
LEMMA AtStart ==
    ASSUME NEW rs, NEW w, Serves(rs, w), Len(rs) = 0, NEW k \in 0..Len(w)
    PROVE  Ready(Run(w, k), 0)
<1>1. Sent(rs, 0) = <<>> /\ Sent(rs, Len(rs)) = w /\ w \in Seq(Symbols)
  BY SentAll
<1>2. w = <<>>
  BY <1>1
<1>3. k = 0
  BY <1>2
<1> QED
  BY <1>1, <1>3, RunStarts, StartReady

\* The responses that are complete are the first ones.
LEMMA DoneAtMost ==
    ASSUME NEW rs, NEW w, Serves(rs, w), NEW k \in 0..Len(w), NEW D, D = Run(w, k).done
    PROVE  /\ D \in 0..Len(rs) /\ Len(rs) \in Nat
           /\ \A i \in 1..Len(rs) : i <= D <=> Reached(rs, i, k)
<1>1. /\ Len(rs) \in Nat /\ w \in Seq(Symbols) /\ Len(w) \in Nat
      /\ Sent(rs, Len(rs)) = w /\ Len(rs) \in 0..Len(rs)
  BY SentAll
<1>2. D \in Nat
  BY <1>1, RunMeans
<1>3. D <= Len(rs)
  <2>1. CASE Live(rs, Len(rs))
    <3>1. PICK n : n = Len(rs)
      OBVIOUS
    <3>2. Ready(Run(w, Offset(rs, n)), n) /\ Offset(rs, n) = Len(w)
      BY <1>1, <2>1, <3>1, LiveReady DEF Offset
    <3>3. PICK l : l = Len(w)
      OBVIOUS
    <3>4. Run(w, l).done = n /\ l \in 0..Len(w) /\ k <= l
      BY <1>1, <3>2, <3>3 DEF Ready
    <3> QED
      BY <1>1, <1>2, <3>1, <3>4, RunFrom DEF Grows
  <2>2. CASE ~Live(rs, Len(rs))
    <3>1. PICK j \in 1..Len(rs) : Live(rs, j - 1) /\ ~Good(rs[j])
      BY <1>1, <2>2, FirstBad
    <3>2. D <= j
      BY <3>1, DoneBy
    <3> QED
      BY <1>1, <1>2, <3>1, <3>2
  <2> QED
    BY <2>1, <2>2
<1>4. ASSUME NEW i \in 1..Len(rs) PROVE i <= D <=> Reached(rs, i, k)
  <2>1. i \in Nat /\ i - 1 \in Nat
    BY <1>1
  <2>2. CASE Live(rs, i - 1)
    <3>1. IF Reached(rs, i, k) THEN D >= i ELSE D <= i - 1
      BY <2>2, DoneBy
    <3> QED
      BY <1>2, <2>1, <3>1
  <2>3. CASE ~Live(rs, i - 1)
    <3>1. PICK j \in 1..i - 1 : Live(rs, j - 1) /\ ~Good(rs[j])
      BY <2>1, <2>3, FirstBad
    <3>2. j \in 1..Len(rs)
      BY <1>1, <3>1
    <3>3. D <= j
      BY <3>1, <3>2, DoneBy
    <3>4. ~Reached(rs, i, k)
      BY <2>3 DEF Reached
    <3> QED
      BY <1>2, <2>1, <3>1, <3>3, <3>4
  <2> QED
    BY <2>2, <2>3
<1> QED
  BY <1>1, <1>2, <1>3, <1>4

\* Where the machine is closed, and where it fails.
LEMMA ClosedIs ==
    ASSUME NEW rs, NEW w, Serves(rs, w), NEW k \in 0..Len(w), NEW D, D = Run(w, k).done,
           ~Run(w, k).failed
    PROVE  Run(w, k).closed <=> D # 0 /\ EndsConnection(rs[D])
<1>1. D \in 0..Len(rs) /\ Len(rs) \in Nat /\ \A i \in 1..Len(rs) : i <= D <=> Reached(rs, i, k)
  BY DoneAtMost
<1>2. w \in Seq(Symbols)
  BY SentAll
<1>3. PICK y : y = Run(w, k)
  OBVIOUS
<1>4. D = y.done /\ ~y.failed /\ D \in Nat /\ k \in Nat
  BY <1>1, <1>2, <1>3
<1>5. CASE D = 0
  <2>1. Grows(Start, y) /\ ~Start.closed /\ Start.done = 0
    <3>1. PICK z : z = 0
      OBVIOUS
    <3>2. z \in 0..Len(w) /\ z <= k
      BY <1>2, <3>1
    <3>3. Grows(Run(w, z), y)
      BY <1>2, <1>3, <3>2, RunFrom
    <3>4. Run(w, z) = Start
      BY <1>2, <3>1, RunStarts
    <3> QED
      BY <3>3, <3>4, StartReady DEF Ready
  <2> QED
    BY <1>3, <1>4, <1>5, <2>1 DEF Grows
<1>6. CASE D # 0
  <2>1. D \in 1..Len(rs)
    BY <1>1, <1>6
  <2>2. Reached(rs, D, k)
    BY <1>1, <1>4, <2>1
  <2>3. PICK e : e = EndAt(rs, D)
    OBVIOUS
  <2>4. PICK r : r = rs[D]
    OBVIOUS
  <2>5. Live(rs, D - 1) /\ ~r.huge /\ ~ByEnd(r) /\ k >= e
    BY <2>2, <2>3, <2>4 DEF Reached
  <2>6. At(rs, w, D, e, D - 1) /\ e \in 0..Len(w)
    BY <2>1, <2>3, <2>5, AtResponse
  <2>7. PICK x : x = Run(w, e)
    OBVIOUS
  <2>8. PICK d : d = D - 1
    OBVIOUS
  <2>9. Result(x, r, d) /\ d + 1 = D
    BY <1>4, <2>4, <2>5, <2>6, <2>7, <2>8 DEF At
  <2>10. e \in Nat /\ e <= k
    BY <1>4, <2>5, <2>6
  <2>11. Grows(x, y)
    BY <1>2, <1>3, <2>6, <2>7, <2>10, RunFrom
  <2>12. CASE EndsConnection(r)
    <3>1. x.closed
      BY <2>9, <2>12 DEF Result
    <3> QED
      BY <1>3, <1>6, <2>4, <2>11, <2>12, <3>1 DEF Grows
  <2>13. CASE ~EndsConnection(r)
    <3>1. Ready(x, d + 1)
      BY <2>9, <2>13 DEF Result
    <3>2. ~x.closed /\ x.done = D
      BY <2>9, <3>1 DEF Ready
    <3> QED
      BY <1>3, <1>4, <2>4, <2>11, <2>13, <3>2 DEF Grows
  <2> QED
    BY <2>12, <2>13
<1> QED
  BY <1>5, <1>6

Offends(rs, i) == rs[i].huge \/ (i < Len(rs) /\ EndsConnection(rs[i]))
\* The machine fails only at a number out of range or behind the last response.
LEMMA FailedIs ==
    ASSUME NEW rs, NEW w, Serves(rs, w), NEW k \in 0..Len(w), Run(w, k).failed
    PROVE  \E i \in 1..Len(rs) : Offends(rs, i)
<1>1. SUFFICES ASSUME \A i \in 1..Len(rs) : ~Offends(rs, i) PROVE FALSE
  OBVIOUS
<1>2. Len(rs) \in Nat /\ Sent(rs, Len(rs)) = w /\ w \in Seq(Symbols) /\ Len(w) \in Nat
  BY SentAll
<1>3. Len(rs) # 0
  BY AtStart DEF Ready
<1>4. PICK n : n = Len(rs)
  OBVIOUS
<1>5. n \in 1..Len(rs) /\ n \in Nat
  BY <1>2, <1>3, <1>4
<1>6. ASSUME NEW j \in 1..n - 1 PROVE Good(rs[j])
  <2>1. j \in 1..Len(rs) /\ j < Len(rs)
    BY <1>4, <1>5
  <2> QED
    BY <1>1, <2>1 DEF Good, Offends
<1>7. Live(rs, n - 1)
  BY <1>6 DEF Live
<1>8. PICK e : e = EndAt(rs, n)
  OBVIOUS
<1>9. At(rs, w, n, e, n - 1)
  BY <1>5, <1>7, <1>8, AtResponse
<1>10. ~rs[n].huge
  BY <1>1, <1>5 DEF Offends
<1>11. ~Run(w, Offset(rs, n)).failed
  BY <1>9, <1>10 DEF At
<1>12. Offset(rs, n) = Len(w)
  BY <1>2, <1>4 DEF Offset
<1>13. PICK l : l = Len(w)
  OBVIOUS
<1>14. ~Run(w, l).failed /\ l \in 0..Len(w) /\ k <= l
  BY <1>2, <1>11, <1>12, <1>13
<1> QED
  BY <1>2, <1>14, RunFrom DEF Grows

\* Where the body goes on to the end of the connection.
LEMMA EofIs ==
    ASSUME NEW rs, NEW w, Serves(rs, w), NEW l, l = Len(w), ~Run(w, l).closed, ~Run(w, l).failed,
           Run(w, l).state = "s_body_identity_eof", NEW n, n = Len(rs)
    PROVE  /\ n \in 1..Len(rs) /\ Live(rs, n - 1) /\ ByEnd(rs[n]) /\ ~rs[n].huge /\ EndAt(rs, n) = l
           /\ Run(w, l).done = n - 1
<1>1. n \in Nat /\ Sent(rs, n) = w /\ w \in Seq(Symbols) /\ Len(w) \in Nat /\ l \in 0..Len(w)
  BY SentAll
<1>2. ~Live(rs, n)
  <2>1. SUFFICES ASSUME Live(rs, n) PROVE FALSE
    OBVIOUS
  <2>2. Ready(Run(w, Offset(rs, n)), n) /\ Offset(rs, n) = l
    BY <1>1, <2>1, LiveReady DEF Offset
  <2>3. Run(w, l).state = "s_start_res"
    BY <2>2 DEF Ready
  <2> QED
    BY <2>3
<1>3. PICK j \in 1..n : Live(rs, j - 1) /\ ~Good(rs[j])
  BY <1>1, <1>2, FirstBad
<1>4. j \in 1..Len(rs) /\ j \in Nat
  BY <1>1, <1>3
<1>5. PICK e : e = EndAt(rs, j)
  OBVIOUS
<1>6. At(rs, w, j, e, j - 1) /\ e \in 0..Len(w)
  BY <1>3, <1>4, <1>5, AtResponse
<1>7. PICK x : x = Run(w, e)
  OBVIOUS
<1>8. PICK y : y = Run(w, l)
  OBVIOUS
<1>9. PICK r : r = rs[j]
  OBVIOUS
<1>10. PICK d : d = j - 1
  OBVIOUS
<1>11. /\ ~r.huge /\ ~ByEnd(r) => Result(x, r, d)
       /\ ByEnd(r) => Endless(x, d) /\ ~r.huge /\ e = Len(w) /\ j = Len(rs)
       /\ r.huge => x.failed
  BY <1>6, <1>7, <1>9, <1>10 DEF At
<1>12. Grows(x, y)
  BY <1>1, <1>6, <1>7, <1>8, RunFrom
<1>13. ~x.failed /\ ~x.closed
  BY <1>8, <1>12 DEF Grows
<1>14. ~r.huge
  BY <1>11, <1>13
<1>15. ByEnd(r)
  <2>1. EndsConnection(r) \/ r.huge
    BY <1>3, <1>9 DEF Good
  <2> QED
    BY <1>11, <1>13, <1>14, <2>1 DEF Result
<1>16. Endless(x, d) /\ e = l /\ j = n
  BY <1>11, <1>15
<1>17. x.done = d
  BY <1>16 DEF Endless
<1> QED
  BY <1>3, <1>4, <1>5, <1>7, <1>9, <1>10, <1>14, <1>15, <1>16, <1>17

\* The end of a response, as the property counts it.
LEMMA WireEndIs ==
    ASSUME NEW n \in DOMAIN Streams, NEW rs, rs = Streams[n], NEW i \in 1..Len(rs)
    PROVE  WireEnd[n][i] = EndAt(rs, i)
<1>1. PICK w : w = Wire[n]
  OBVIOUS
<1>2. Serves(rs, w)
  BY <1>1, StreamServes
<1>3. rs \in Seq(ToSet(rs)) /\ Len(rs) \in Nat /\ DOMAIN rs = 1..Len(rs)
  BY <1>2 DEF Serves
<1>4. PICK u : u = Upto(rs, i)
  OBVIOUS
<1>5. Len(u) = i /\ u[i] = rs[i] /\ i \in Nat
  <2>1. i \in 1..Len(rs) /\ i \in 0..Len(rs) /\ i \in 1..i
    BY <1>3
  <2>2. Len(u) = i /\ i \in Nat /\ \A j \in 1..i : u[j] = rs[j]
    BY <1>3, <1>4, <2>1, PrefixIs
  <2> QED
    BY <2>1, <2>2
<1>6. Last(u) = rs[i]
  BY <1>5 DEF Last
<1>7. WireEnd[n][i] = EndOfLast(u)
  <2>1. WireEnd[n][i] = EndOfLast(SubSeq(Streams[n], 1, i))
    BY <1>3 DEF WireEnd
  <2> QED
    BY <1>4, <2>1 DEF Upto
<1>8. PICK r : r = rs[i]
  OBVIOUS
<1>9. PICK s : s = Sent(rs, i)
  OBVIOUS
<1>10. EndOfLast(u) = Len(s) - Len(r.after)
  BY <1>4, <1>6, <1>8, <1>9 DEF EndOfLast, Sent
<1>11. PICK t : t = Sent(rs, i - 1)
  OBVIOUS
<1>12. s = t \o WithAfter(r) /\ WellFormed(r) /\ i - 1 \in 0..Len(rs)
  BY <1>2, <1>8, <1>9, <1>11, SentNext
<1>13. t \in Seq(Symbols)
  BY <1>2, <1>11, <1>12, SentAll DEF Starts
<1>14. PICK a : a = r.after
  OBVIOUS
<1>15. PICK b : b = Bytes(r)
  OBVIOUS
<1>16. a \in Seq(Symbols) /\ b \in Seq(Symbols) /\ WithAfter(r) = b \o a
  BY <1>12, <1>14, <1>15, WithAfterIs DEF WithAfter
<1>17. Len(b \o a) = Len(b) + Len(a) /\ b \o a \in Seq(Symbols) /\ Len(a) \in Nat /\ Len(b) \in Nat
  BY <1>16, JoinIs
<1>18. Len(t \o (b \o a)) = Len(t) + Len(b \o a) /\ Len(t) \in Nat
  BY <1>13, <1>17, JoinIs
<1>19. Len(s) - Len(a) = Len(t) + Len(b)
  BY <1>12, <1>16, <1>17, <1>18
<1>20. EndAt(rs, i) = Len(t) + Len(b)
  BY <1>8, <1>11, <1>15 DEF EndAt, Offset
<1> QED
  BY <1>7, <1>10, <1>14, <1>19, <1>20

-----------------------------------------------------------------------------
\* What the parser has done is what the machine has done on all that was parsed;
\* or the body that the end of the connection ends is complete as well.
Level(q) ==
    /\ Run(wire, q).done = Len(completed) /\ (closed => Run(wire, q).closed \/ q # Len(wire))
    /\ failed => closed /\ Run(wire, q).failed
    /\ ~failed /\ lost => closed
    /\ ~failed /\ ~lost => ~Run(wire, q).failed /\ (Run(wire, q).closed <=> closed)
AtEnd(q) ==
    /\ closed /\ ~failed /\ ~lost /\ q = Len(wire) /\ Run(wire, q).state = "s_body_identity_eof"
    /\ ~Run(wire, q).closed /\ ~Run(wire, q).failed /\ Run(wire, q).done + 1 = Len(completed)

\* So it is always.
LEMMA PlaceIs ==
    ASSUME Inv, Follows
    PROVE  /\ Parsed \in 0..Len(wire) /\ Len(completed) \in Nat
           /\ completed # <<>> <=> Len(completed) # 0
           /\ Level(Parsed) \/ AtEnd(Parsed)
<1>1. Feeds /\ Holds(wire, data, before)
  BY DEF Follows, Feeds
<1>2. /\ p \in 1..Len(data) + 1 /\ Len(data) \in Nat /\ before \in Nat /\ wire \in Seq(Symbols)
      /\ before + Len(data) <= Len(wire) /\ taken \in Nat /\ closed \in BOOLEAN /\ Len(wire) \in Nat
  <2>1. p \in 1..Len(data) + 1 /\ closed \in BOOLEAN /\ taken \in Nat
    BY DEF Inv, Types, ServerTypes
  <2>2. wire \in Seq(Symbols) /\ data \in Seq(Symbols) /\ before \in Nat /\ before + Len(data) <= Len(wire)
    BY <1>1 DEF Holds
  <2> QED
    BY <2>1, <2>2
<1>3. Len(completed) \in Nat /\ (completed # <<>> <=> Len(completed) # 0)
  <2>1. PICK T : completed \in Seq(T)
    BY <1>1 DEF Feeds
  <2> QED
    BY <2>1
<1>4. PICK q : q = before + p - 1
  OBVIOUS
<1>5. Parsed = q /\ q \in 0..Len(wire)
  BY <1>2, <1>4 DEF Parsed, before
<1>6. Run(wire, q) \in Machines /\ (Run(wire, q).failed => Run(wire, q).closed)
  BY <1>2, <1>5, RunMeans
<1>7. CASE Dropped /\ failed
  <2>1. Len(data) = 0 /\ p = 1 /\ closed /\ Run(wire, taken).failed
        /\ Run(wire, taken).done = Len(completed)
    BY <1>7 DEF Dropped
  <2>2. taken = q
    BY <1>2, <1>4, <2>1 DEF before
  <2> QED
    BY <1>3, <1>5, <1>6, <1>7, <2>1, <2>2 DEF Level
<1>8. CASE Cutoff /\ ~failed /\ lost
  <2>1. /\ closed /\ p > Len(data) /\ taken # Len(wire)
        /\ Run(wire, taken).done = Len(completed)
    BY <1>8 DEF Cutoff
  <2>2. taken = q
    BY <1>2, <1>4, <2>1 DEF before
  <2> QED
    BY <1>3, <1>5, <1>8, <2>1, <2>2 DEF Level
<1>9. CASE Synced /\ ~failed /\ ~lost
  <2>1. Run(wire, q).done = Len(completed) /\ Run(wire, q).closed = closed /\ ~Run(wire, q).failed
    BY <1>4, <1>9 DEF Synced
  <2> QED
    BY <1>3, <1>5, <1>9, <2>1 DEF Level
<1>10. CASE Ended /\ ~failed /\ ~lost
  <2>1. /\ closed /\ p > Len(data) /\ taken = Len(wire)
        /\ Run(wire, taken).state = "s_body_identity_eof"
        /\ Run(wire, taken).done + 1 = Len(completed)
        /\ ~Run(wire, taken).closed /\ ~Run(wire, taken).failed
    BY <1>10 DEF Ended
  <2>2. taken = q
    BY <1>2, <1>4, <2>1 DEF before
  <2> QED
    BY <1>3, <1>5, <1>10, <2>1, <2>2 DEF AtEnd
<1> QED
  BY <1>7, <1>8, <1>9, <1>10 DEF Follows

\* The stream of this connection.
LEMMA ServesNow ==
    ASSUME Inv
    PROVE  /\ Serves(sent, wire)
           /\ \A i \in 1..Len(sent) : WireEnd[stream][i] = EndAt(sent, i)
<1>1. stream \in DOMAIN Streams
  BY DEF Inv, ServerTypes
<1>2. Serves(sent, wire)
  BY <1>1, StreamServes DEF sent, wire
<1>3. PICK rs : rs = sent
  OBVIOUS
<1>4. rs = Streams[stream]
  BY <1>3 DEF sent
<1>5. ASSUME NEW i \in 1..Len(rs) PROVE WireEnd[stream][i] = EndAt(rs, i)
  BY <1>1, <1>4, WireEndIs
<1> QED
  BY <1>2, <1>3, <1>5

\* The responses that are due are the first ones, as many as were completed.
LEMMA DueIs ==
    ASSUME Inv, NEW i \in 1..Len(sent)
    PROVE  IsDue(i) <=> /\ Live(sent, i - 1) /\ ~sent[i].huge /\ Parsed >= EndAt(sent, i)
                        /\ ByEnd(sent[i]) => closed
<1>1. PICK rs : rs = sent
  OBVIOUS
<1>2. Serves(rs, wire) /\ i \in 1..Len(rs) /\ WireEnd[stream][i] = EndAt(rs, i)
  BY <1>1, ServesNow
<1>3. Len(rs) \in Nat
  BY <1>2, SentAll
<1>4. i \in Nat /\ 1..i = (1..i - 1) \cup {i}
  BY <1>2, <1>3
<1>5. IsDue(i) <=> /\ \A j \in 1..i - 1 : ~EndsConnection(rs[j])
                   /\ \A j \in 1..i : ~rs[j].huge
                   /\ Parsed >= EndAt(rs, i)
                   /\ rs[i].coding = "eof" => closed
  BY <1>1, <1>2 DEF IsDue
<1>6. (\A j \in 1..i : ~rs[j].huge) <=> (\A j \in 1..i - 1 : ~rs[j].huge) /\ ~rs[i].huge
  BY <1>4
<1>7. Live(rs, i - 1) <=> /\ \A j \in 1..i - 1 : ~EndsConnection(rs[j])
                          /\ \A j \in 1..i - 1 : ~rs[j].huge
  BY DEF Live, Good
<1>8. ByEnd(rs[i]) <=> rs[i].coding = "eof"
  BY DEF ByEnd
<1> QED
  BY <1>1, <1>5, <1>6, <1>7, <1>8

LEMMA DueAre ==
    ASSUME Inv, Follows
    PROVE  /\ Len(completed) \in 0..Len(sent) /\ Len(sent) \in Nat
           /\ \A i \in 1..Len(sent) : IsDue(i) <=> i <= Len(completed)
<1>1. PICK rs : rs = sent
  OBVIOUS
<1>2. PICK w : w = wire
  OBVIOUS
<1>3. PICK q : q = Parsed
  OBVIOUS
<1>4. PICK D : D = Run(w, q).done
  OBVIOUS
<1>5. PICK c : c = Len(completed)
  OBVIOUS
<1>6. Serves(rs, w) /\ q \in 0..Len(w) /\ (Level(q) \/ AtEnd(q)) /\ c \in Nat
  BY <1>1, <1>2, <1>3, <1>5, PlaceIs, ServesNow
<1>7. /\ D \in 0..Len(rs) /\ Len(rs) \in Nat /\ w \in Seq(Symbols) /\ Len(w) \in Nat /\ q \in Nat
      /\ \A i \in 1..Len(rs) : i <= D <=> Reached(rs, i, q)
  BY <1>4, <1>6, DoneAtMost, SentAll
<1>8. ASSUME NEW i \in 1..Len(rs)
      PROVE  /\ IsDue(i) <=> /\ Live(rs, i - 1) /\ ~rs[i].huge /\ q >= EndAt(rs, i)
                             /\ ByEnd(rs[i]) => closed
             /\ i \in Nat
  BY <1>1, <1>3, <1>7, DueIs
<1>9. CASE Level(q)
  <2>1. D = c /\ (closed => Run(w, q).closed \/ q # Len(w))
    BY <1>2, <1>4, <1>5, <1>9 DEF Level
  <2>2. ASSUME NEW i \in 1..Len(rs) PROVE IsDue(i) <=> Reached(rs, i, q)
    <3>1. CASE ~ByEnd(rs[i])
      BY <1>8, <3>1 DEF Reached
    <3>2. CASE ByEnd(rs[i])
      <4>1. SUFFICES ASSUME IsDue(i) PROVE FALSE
        BY <3>2 DEF Reached
      <4>2. PICK e : e = EndAt(rs, i)
        OBVIOUS
      <4>3. Live(rs, i - 1) /\ q >= e /\ closed
        BY <1>8, <3>2, <4>1, <4>2
      <4>4. At(rs, w, i, e, i - 1)
        BY <1>6, <4>2, <4>3, AtResponse
      <4>5. e = Len(w) /\ ~Run(w, e).closed
        BY <3>2, <4>4 DEF At, Endless
      <4>6. q = e
        BY <1>6, <1>7, <4>3, <4>5
      <4> QED
        BY <2>1, <4>3, <4>5, <4>6
    <3> QED
      BY <3>1, <3>2
  <2>3. \A i \in 1..Len(rs) : IsDue(i) <=> i <= c
    BY <1>7, <2>1, <2>2
  <2> QED
    BY <1>1, <1>5, <1>7, <2>1, <2>3
<1>10. CASE AtEnd(q)
  <2>1. /\ closed /\ q = Len(w) /\ Run(w, q).state = "s_body_identity_eof"
        /\ ~Run(w, q).closed /\ ~Run(w, q).failed /\ D + 1 = c
    BY <1>2, <1>4, <1>5, <1>10 DEF AtEnd
  <2>2. PICK n : n = Len(rs)
    OBVIOUS
  <2>3. /\ n \in 1..Len(rs) /\ Live(rs, n - 1) /\ ~rs[n].huge /\ EndAt(rs, n) = q
        /\ D = n - 1
    BY <1>4, <1>6, <2>1, <2>2, EofIs
  <2>4. c = n /\ n \in Nat
    BY <1>7, <2>1, <2>2, <2>3
  <2>5. IsDue(n)
    BY <1>7, <1>8, <2>1, <2>3
  <2>6. ASSUME NEW i \in 1..Len(rs), i # n PROVE IsDue(i)
    <3>1. i <= D
      BY <1>7, <2>2, <2>3, <2>6
    <3>2. Reached(rs, i, q)
      BY <1>7, <3>1
    <3> QED
      BY <1>8, <3>2 DEF Reached
  <2>7. \A i \in 1..Len(rs) : IsDue(i) /\ i <= c
    BY <1>7, <2>2, <2>4, <2>5, <2>6
  <2> QED
    BY <1>1, <1>5, <1>6, <1>7, <2>2, <2>4, <2>7
<1> QED
  BY <1>6, <1>9, <1>10

\* What the invariant says of the properties.
LEMMA OnTime ==
    ASSUME Inv, Follows
    PROVE  CompletedOnTime
<1>1. PICK c : c = Len(completed)
  OBVIOUS
<1>2. PICK n : n = Len(sent)
  OBVIOUS
<1>3. c \in 0..n /\ n \in Nat /\ \A i \in 1..n : IsDue(i) <=> i <= c
  BY <1>1, <1>2, DueAre
<1>4. {i \in 1..n : IsDue(i)} = 1..c
  BY <1>3
<1>5. Cardinality(1..c) = IF 1 > c THEN 0 ELSE c - 1 + 1
  BY <1>3, FS_Interval
<1>6. Cardinality(1..c) = c
  BY <1>3, <1>5
<1> QED
  BY <1>1, <1>2, <1>4, <1>6 DEF CompletedOnTime

LEMMA WhenTold ==
    ASSUME Inv, Follows
    PROVE  ClosesWhenTold
<1>1. PICK rs : rs = sent
  OBVIOUS
<1>2. PICK w : w = wire
  OBVIOUS
<1>3. PICK q : q = Parsed
  OBVIOUS
<1>4. PICK D : D = Run(w, q).done
  OBVIOUS
<1>5. PICK c : c = Len(completed)
  OBVIOUS
<1>6. /\ Serves(rs, w) /\ q \in 0..Len(w) /\ (Level(q) \/ AtEnd(q)) /\ c \in Nat
      /\ completed # <<>> <=> c # 0
  BY <1>1, <1>2, <1>3, <1>5, PlaceIs, ServesNow
<1>7. ClosesWhenTold <=> (closed <=> failed \/ lost \/ (c # 0 /\ EndsConnection(rs[c])))
  BY <1>1, <1>5, <1>6 DEF ClosesWhenTold
<1>8. CASE Level(q)
  <2>1. /\ D = c
        /\ failed => closed
        /\ ~failed /\ lost => closed
        /\ ~failed /\ ~lost => ~Run(w, q).failed /\ (Run(w, q).closed <=> closed)
    BY <1>2, <1>4, <1>5, <1>8 DEF Level
  <2>2. ~Run(w, q).failed => (Run(w, q).closed <=> D # 0 /\ EndsConnection(rs[D]))
    BY <1>4, <1>6, ClosedIs
  <2> QED
    BY <1>7, <2>1, <2>2
<1>9. CASE AtEnd(q)
  <2>1. /\ closed /\ q = Len(w) /\ Run(w, q).state = "s_body_identity_eof"
        /\ ~Run(w, q).closed /\ ~Run(w, q).failed /\ D + 1 = c
    BY <1>2, <1>4, <1>5, <1>9 DEF AtEnd
  <2>2. PICK n : n = Len(rs)
    OBVIOUS
  <2>3. n \in 1..Len(rs) /\ ByEnd(rs[n]) /\ D = n - 1 /\ Len(rs) \in Nat
    BY <1>4, <1>6, <2>1, <2>2, EofIs, SentAll
  <2>4. c = n /\ c # 0
    BY <2>1, <2>2, <2>3
  <2>5. EndsConnection(rs[c])
    BY <2>3, <2>4, EofEnds
  <2> QED
    BY <1>7, <2>1, <2>4, <2>5
<1> QED
  BY <1>6, <1>8, <1>9

LEMMA Accepted ==
    ASSUME Inv, Follows
    PROVE  WellFormedAccepted
<1>1. SUFFICES ASSUME failed PROVE \E i \in 1..Len(sent) : Offends(sent, i)
  BY DEF WellFormedAccepted, Offends
<1>2. PICK q : q = Parsed
  OBVIOUS
<1>3. Serves(sent, wire) /\ q \in 0..Len(wire) /\ Run(wire, q).failed
  BY <1>1, <1>2, PlaceIs, ServesNow DEF Level, AtEnd
<1> QED
  BY <1>3, FailedIs

-----------------------------------------------------------------------------
(* The theorems about what is reported of a connection.                     *)

\* Every response is complete when its last byte is parsed, not before and not
\* after: on_message_complete is called once for each, in order, for the lengths,
\* the chunks and the ends of connections that a server may use.
THEOREM ResponsesCompleteOnTime == Spec => []CompletedOnTime
<1>1. Inv /\ Follows => CompletedOnTime
  BY OnTime
<1> QED
  BY <1>1, FollowsAlways, PTL

\* The connection is closed by wrk when a response says so or leaves no other way
\* to tell where it ends, and for an error or a loss, and not for anything else.
THEOREM ConnectionsCloseWhenTold == Spec => []ClosesWhenTold
<1>1. Inv /\ Follows => ClosesWhenTold
  BY WhenTold
<1> QED
  BY <1>1, FollowsAlways, PTL

\* What a server may send is no error, unless a number is out of range or it goes
\* on after a response that ends the connection.
THEOREM WellFormedIsAccepted == Spec => []WellFormedAccepted
<1>1. Inv /\ Follows => WellFormedAccepted
  BY Accepted
<1> QED
  BY <1>1, FollowsAlways, PTL

=============================================================================
