--------------------------- MODULE FilterTheorems ---------------------------
(***************************************************************************)
(* Facts about filtered sequences, and the induction over numbers and      *)
(* sequences that they need: an induction hypothesis is a set here, not an *)
(* operator.                                                               *)
(***************************************************************************)
EXTENDS Filters, SequenceTheorems, FiniteSetTheorems, WellFoundedInduction, TLAPS

----------------------------------------------------------------------------
(* Induction. *)
NatLess == {ss \in Nat \X Nat : ss[1] < ss[2]}

\* Among some numbers there is a smallest one.
LEMMA Smallest ==
    ASSUME NEW T \in SUBSET Nat, T # {}
    PROVE  \E x \in T : \A y \in T : x <= y
<1>1. IsWellFoundedOn(NatLess, Nat)
  BY NatLessThanWellFounded DEF NatLess, OpToRel
<1>2. PICK x \in T : \A y \in T : <<y, x>> \notin NatLess
  BY <1>1, WFMin
<1>3. ASSUME NEW y \in T PROVE x <= y
  <2>1. x \in Nat /\ y \in Nat
    OBVIOUS
  <2>2. ~(y < x)
    BY <1>2, <2>1 DEF NatLess
  <2> QED
    BY <2>1, <2>2
<1> QED
  BY <1>3

\* A set that has 0 and with every number the next one has them all.
LEMMA NatSetInduction ==
    ASSUME NEW T, 0 \in T, \A n \in Nat : n \in T => n + 1 \in T
    PROVE  Nat \subseteq T
<1> SUFFICES ASSUME Nat \ T # {} PROVE FALSE
  OBVIOUS
<1>1. PICK x \in Nat \ T : \A y \in Nat \ T : x <= y
  BY Smallest
<1>2. x - 1 \in Nat
  BY <1>1
<1>3. x - 1 \in T
  BY <1>1, <1>2
<1> QED
  BY <1>1, <1>2, <1>3

\* A set that has the empty sequence and with every sequence the longer ones has
\* them all.
LEMMA SeqSetInduction ==
    ASSUME NEW S, NEW T, <<>> \in T,
           \A s \in Seq(S), x \in S : s \in T => Append(s, x) \in T
    PROVE  Seq(S) \subseteq T
<1> DEFINE N == {n \in Nat : \A s \in Seq(S) : Len(s) = n => s \in T}
<1>1. 0 \in N
  OBVIOUS
<1>2. ASSUME NEW n \in Nat, n \in N PROVE n + 1 \in N
  <2> SUFFICES ASSUME NEW s \in Seq(S), Len(s) = n + 1 PROVE s \in T
    OBVIOUS
  <2>1. s # <<>>
    BY <1>2
  <2>2. PICK t \in Seq(S), x \in S : s = Append(t, x)
    BY <2>1, SequenceEmptyOrAppend
  <2>3. t \in T
    BY <1>2, <2>2
  <2> QED
    BY <2>2, <2>3
<1>3. Nat \subseteq N
  <2> HIDE DEF N
  <2> QED
    BY <1>1, <1>2, NatSetInduction
<1> QED
  BY <1>3

----------------------------------------------------------------------------
(* The elements of a sequence. *)
LEMMA AppendElements ==
    ASSUME NEW S, NEW s \in Seq(S), NEW x
    PROVE  Elements(Append(s, x)) = Elements(s) \cup {x}
<1>0. PICK n \in Nat : n = Len(s)
  OBVIOUS
<1>1. /\ DOMAIN s = 1 .. n /\ DOMAIN Append(s, x) = 1 .. n + 1
      /\ Append(s, x)[n + 1] = x /\ \A i \in 1 .. n : Append(s, x)[i] = s[i]
  BY <1>0
<1> QED
  BY <1>1 DEF Elements

LEMMA InjectiveAppend ==
    ASSUME NEW S, NEW s \in Seq(S), NEW x
    PROVE  Injective(Append(s, x)) <=> Injective(s) /\ x \notin Elements(s)
<1>0. PICK n \in Nat : n = Len(s)
  OBVIOUS
<1>1. /\ DOMAIN s = 1 .. n /\ DOMAIN Append(s, x) = 1 .. n + 1
      /\ Append(s, x)[n + 1] = x /\ \A i \in 1 .. n : Append(s, x)[i] = s[i]
  BY <1>0
<1> QED
  BY <1>1 DEF Elements, Injective

LEMMA AppendAfter ==
    ASSUME NEW S, NEW s \in Seq(S), NEW x, NEW p \in Nat
    PROVE  ElementsAfter(Append(s, x), p) = ElementsAfter(s, p) \cup (IF p <= Len(s) THEN {x} ELSE {})
<1>0. PICK n \in Nat : n = Len(s)
  OBVIOUS
<1>1. /\ DOMAIN s = 1 .. n /\ DOMAIN Append(s, x) = 1 .. n + 1
      /\ Append(s, x)[n + 1] = x /\ \A i \in 1 .. n : Append(s, x)[i] = s[i]
  BY <1>0
<1> QED
  BY <1>0, <1>1 DEF ElementsAfter

\* How many elements come after a position.
LEMMA AfterSize ==
    ASSUME NEW S, NEW s \in Seq(S), Injective(s), NEW p \in Nat
    PROVE  /\ IsFiniteSet(ElementsAfter(s, p))
           /\ Cardinality(ElementsAfter(s, p)) = IF p < Len(s) THEN Len(s) - p ELSE 0
<1> DEFINE Holds(t) == /\ IsFiniteSet(ElementsAfter(t, p))
                      /\ Cardinality(ElementsAfter(t, p)) = IF p < Len(t) THEN Len(t) - p ELSE 0
           T == {t \in Seq(S) : Injective(t) => Holds(t)}
<1>1. <<>> \in T
  <2>1. ElementsAfter(<<>>, p) = {} /\ Len(<<>>) = 0 /\ <<>> \in Seq(S)
    BY DEF ElementsAfter
  <2>2. IsFiniteSet({}) /\ Cardinality({}) = 0
    BY FS_EmptySet
  <2>3. ~(p < 0)
    OBVIOUS
  <2>4. PICK t : t = <<>>
    OBVIOUS
  <2>5. ElementsAfter(t, p) = {} /\ Len(t) = 0
    BY <2>1, <2>4
  <2>6. IsFiniteSet(ElementsAfter(t, p)) /\ Cardinality(ElementsAfter(t, p)) = 0
    BY <2>2, <2>5
  <2>7. Holds(t)
    BY <2>3, <2>5, <2>6
  <2> QED
    BY <2>1, <2>4, <2>7
<1>2. ASSUME NEW t \in Seq(S), NEW x \in S, t \in T PROVE Append(t, x) \in T
  <2> SUFFICES ASSUME Injective(Append(t, x)) PROVE Holds(Append(t, x))
    OBVIOUS
  <2>0. PICK n \in Nat : n = Len(t) /\ Len(Append(t, x)) = n + 1
    OBVIOUS
  <2>1. Injective(t) /\ x \notin Elements(t)
    BY InjectiveAppend
  <2>2. /\ IsFiniteSet(ElementsAfter(t, p)) /\ x \notin ElementsAfter(t, p)
        /\ Cardinality(ElementsAfter(t, p)) = IF p < n THEN n - p ELSE 0
    BY <1>2, <2>0, <2>1 DEF ElementsAfter, Elements
  <2>3. ElementsAfter(Append(t, x), p) = ElementsAfter(t, p) \cup (IF p <= n THEN {x} ELSE {})
    BY <2>0, AppendAfter
  <2>4. CASE p <= n
    <3>1. ElementsAfter(Append(t, x), p) = ElementsAfter(t, p) \cup {x}
      BY <2>3, <2>4
    <3>2. /\ IsFiniteSet(ElementsAfter(t, p) \cup {x})
          /\ Cardinality(ElementsAfter(t, p) \cup {x}) = Cardinality(ElementsAfter(t, p)) + 1
      BY <2>2, FS_AddElement
    <3> QED
      BY <2>0, <2>2, <2>4, <3>1, <3>2
  <2>5. CASE ~(p <= n)
    <3>1. ElementsAfter(Append(t, x), p) = ElementsAfter(t, p)
      BY <2>3, <2>5
    <3> QED
      BY <2>0, <2>2, <2>5, <3>1
  <2> QED
    BY <2>4, <2>5
<1>3. Seq(S) \subseteq T
  <2> HIDE DEF T
  <2> QED
    BY <1>1, <1>2, SeqSetInduction
<1> QED
  BY <1>3

LEMMA ElementsSize ==
    ASSUME NEW S, NEW s \in Seq(S), Injective(s)
    PROVE  IsFiniteSet(Elements(s)) /\ Cardinality(Elements(s)) = Len(s)
<1>1. Elements(s) = ElementsAfter(s, 0)
  BY DEF Elements, ElementsAfter
<1>2. Len(s) \in Nat
  OBVIOUS
<1> QED
  BY <1>1, <1>2, AfterSize

----------------------------------------------------------------------------
(* Filters. *)
\* The function that the definition of Filter defines.
KeptIs(f, s, keep, n) ==
    f = [i \in 0 .. n |-> IF i = 0 THEN <<>>
                          ELSE IF s[i] \in keep THEN Append(f[i - 1], s[i]) ELSE f[i - 1]]

LEMMA KeptExists ==
    ASSUME NEW s, NEW keep
    PROVE  \A n \in Nat : \E f : KeptIs(f, s, keep, n)
<1> DEFINE N == {n \in Nat : \E f : KeptIs(f, s, keep, n)}
<1>1. 0 \in N
  <2> DEFINE f == [i \in 0 .. 0 |-> <<>>]
  <2>1. KeptIs(f, s, keep, 0)
    BY DEF KeptIs
  <2> QED
    BY <2>1
<1>2. ASSUME NEW n \in Nat, n \in N PROVE n + 1 \in N
  <2>1. PICK f : KeptIs(f, s, keep, n)
    BY <1>2
  <2> DEFINE g == [i \in 0 .. n + 1 |->
                      IF i = n + 1
                      THEN IF s[i] \in keep THEN Append(f[n], s[i]) ELSE f[n]
                      ELSE f[i]]
  <2>2. \A i \in 0 .. n : g[i] = f[i]
    OBVIOUS
  <2>3. ASSUME NEW i \in 0 .. n + 1
        PROVE  g[i] = IF i = 0 THEN <<>>
                      ELSE IF s[i] \in keep THEN Append(g[i - 1], s[i]) ELSE g[i - 1]
    <3>1. CASE i = n + 1
      BY <2>2, <3>1
    <3>2. CASE i # n + 1
      <4>1. i \in 0 .. n /\ (i # 0 => i - 1 \in 0 .. n)
        BY <3>2
      <4>2. f[i] = IF i = 0 THEN <<>>
                   ELSE IF s[i] \in keep THEN Append(f[i - 1], s[i]) ELSE f[i - 1]
        BY <2>1, <4>1 DEF KeptIs
      <4> QED
        BY <2>2, <4>1, <4>2
    <3> QED
      BY <3>1, <3>2
  <2>4. KeptIs(g, s, keep, n + 1)
    <3> DEFINE h == [i \in 0 .. n + 1 |->
                        IF i = 0 THEN <<>>
                        ELSE IF s[i] \in keep THEN Append(g[i - 1], s[i]) ELSE g[i - 1]]
    <3>1. \A i \in 0 .. n + 1 : g[i] = h[i]
      BY <2>3
    <3>2. g = h
      BY <3>1
    <3> QED
      BY <3>2 DEF KeptIs
  <2> QED
    BY <2>4
<1>3. Nat \subseteq N
  <2> HIDE DEF N
  <2> QED
    BY <1>1, <1>2, NatSetInduction
<1> QED
  BY <1>3

\* A value of such a function.
LEMMA KeptStep ==
    ASSUME NEW s, NEW keep, NEW f, NEW n \in Nat, KeptIs(f, s, keep, n), NEW k \in Nat, k + 1 <= n
    PROVE  f[k + 1] = IF s[k + 1] \in keep THEN Append(f[k], s[k + 1]) ELSE f[k]
<1> DEFINE j == k + 1
<1>1. j \in 0 .. n /\ j # 0 /\ j - 1 = k
  OBVIOUS
<1> HIDE DEF j
<1>2. f[j] = IF s[j] \in keep THEN Append(f[j - 1], s[j]) ELSE f[j - 1]
  BY <1>1 DEF KeptIs
<1>3. f[j] = IF s[j] \in keep THEN Append(f[k], s[j]) ELSE f[k]
  BY <1>1, <1>2
<1> QED
  BY <1>3 DEF j

\* Two such functions agree as far as their sequences do.
LEMMA KeptAgree ==
    ASSUME NEW s, NEW t, NEW keep, NEW f, NEW g, NEW m \in Nat, NEW n \in Nat,
           KeptIs(f, s, keep, m), KeptIs(g, t, keep, n), m <= n,
           \A i \in 1 .. m : s[i] = t[i]
    PROVE  \A i \in 0 .. m : f[i] = g[i]
<1> DEFINE N == {k \in Nat : k <= m => f[k] = g[k]}
<1>1. 0 \in N
  BY DEF KeptIs
<1>2. ASSUME NEW k \in Nat, k \in N PROVE k + 1 \in N
  <2> SUFFICES ASSUME k + 1 <= m PROVE f[k + 1] = g[k + 1]
    OBVIOUS
  <2>1. f[k] = g[k] /\ s[k + 1] = t[k + 1]
    BY <1>2
  <2>2. /\ f[k + 1] = IF s[k + 1] \in keep THEN Append(f[k], s[k + 1]) ELSE f[k]
        /\ g[k + 1] = IF t[k + 1] \in keep THEN Append(g[k], t[k + 1]) ELSE g[k]
    BY KeptStep
  <2> QED
    BY <2>1, <2>2
<1>3. Nat \subseteq N
  <2> HIDE DEF N
  <2> QED
    BY <1>1, <1>2, NatSetInduction
<1> QED
  BY <1>3

LEMMA FilterIsKept ==
    ASSUME NEW s, NEW keep, Len(s) \in Nat
    PROVE  \E f : KeptIs(f, s, keep, Len(s)) /\ Filter(s, keep) = f[Len(s)]
<1> DEFINE f == CHOOSE f : KeptIs(f, s, keep, Len(s))
<1>1. KeptIs(f, s, keep, Len(s))
  BY KeptExists
<1>2. Filter(s, keep) = f[Len(s)]
  BY DEF Filter, KeptIs
<1> QED
  BY <1>1, <1>2

\* What Filter does with a longer sequence.
LEMMA FilterEmpty ==
    ASSUME NEW keep
    PROVE  Filter(<<>>, keep) = <<>>
<1>1. PICK f : KeptIs(f, <<>>, keep, 0) /\ Filter(<<>>, keep) = f[0]
  BY FilterIsKept
<1> QED
  BY <1>1 DEF KeptIs

LEMMA FilterAppend ==
    ASSUME NEW S, NEW s \in Seq(S), NEW x \in S, NEW keep
    PROVE  Filter(Append(s, x), keep) =
               IF x \in keep THEN Append(Filter(s, keep), x) ELSE Filter(s, keep)
<1> DEFINE t == Append(s, x)
<1>0. PICK n \in Nat : n = Len(s)
  OBVIOUS
<1>1. Len(t) = n + 1 /\ t[n + 1] = x /\ \A i \in 1 .. n : s[i] = t[i]
  BY <1>0
<1> HIDE DEF t
<1>2. PICK f : KeptIs(f, s, keep, n) /\ Filter(s, keep) = f[n]
  BY <1>0, FilterIsKept
<1>3. PICK g : KeptIs(g, t, keep, n + 1) /\ Filter(t, keep) = g[n + 1]
  BY <1>1, FilterIsKept
<1>4. \A i \in 0 .. n : f[i] = g[i]
  BY <1>1, <1>2, <1>3, KeptAgree
<1>5. g[n + 1] = IF x \in keep THEN Append(g[n], x) ELSE g[n]
  BY <1>1, <1>3, KeptStep
<1>6. f[n] = g[n]
  BY <1>4
<1> QED
  BY <1>2, <1>3, <1>5, <1>6 DEF t

\* A filtered sequence is a sequence of the elements that are kept.
LEMMA FilterProperties ==
    ASSUME NEW S, NEW s \in Seq(S), NEW keep
    PROVE  /\ Filter(s, keep) \in Seq(S)
           /\ Len(Filter(s, keep)) <= Len(s)
           /\ Elements(Filter(s, keep)) = Elements(s) \cap keep
<1> DEFINE T == {t \in Seq(S) : /\ Filter(t, keep) \in Seq(S)
                                /\ Len(Filter(t, keep)) <= Len(t)
                                /\ Elements(Filter(t, keep)) = Elements(t) \cap keep}
<1>1. <<>> \in T
  <2>1. Elements(<<>>) = {} /\ Len(<<>>) = 0 /\ <<>> \in Seq(S)
    BY DEF Elements
  <2>2. Filter(<<>>, keep) = <<>>
    BY FilterEmpty
  <2>3. PICK t \in Seq(S) : t = <<>>
    BY <2>1
  <2>4. Filter(t, keep) = t /\ Len(t) = 0 /\ Elements(t) = {}
    BY <2>1, <2>2, <2>3
  <2>5. t \in T
    BY <2>4
  <2> QED
    BY <2>3, <2>5
<1>2. ASSUME NEW t \in Seq(S), NEW x \in S, t \in T PROVE Append(t, x) \in T
  <2> DEFINE F == Filter(t, keep)
  <2>1. F \in Seq(S) /\ Len(F) <= Len(t) /\ Elements(F) = Elements(t) \cap keep
    BY <1>2
  <2> HIDE DEF F
  <2>2. /\ Append(t, x) \in Seq(S) /\ Len(Append(t, x)) = Len(t) + 1
        /\ Append(F, x) \in Seq(S) /\ Len(Append(F, x)) = Len(F) + 1
    BY <2>1
  <2>3. /\ Elements(Append(t, x)) = Elements(t) \cup {x}
        /\ Elements(Append(F, x)) = Elements(F) \cup {x}
    BY <2>1, AppendElements
  <2>4. Filter(Append(t, x), keep) = IF x \in keep THEN Append(F, x) ELSE F
    BY FilterAppend DEF F
  <2>5. Len(F) \in Nat /\ Len(t) \in Nat
    BY <2>1
  <2>6. CASE x \in keep
    <3>1. Filter(Append(t, x), keep) = Append(F, x)
      BY <2>4, <2>6
    <3>2. Elements(Append(F, x)) = Elements(Append(t, x)) \cap keep
      BY <2>1, <2>3, <2>6
    <3>3. Len(Append(F, x)) <= Len(Append(t, x))
      BY <2>1, <2>2, <2>5
    <3> QED
      BY <2>2, <3>1, <3>2, <3>3
  <2>7. CASE x \notin keep
    <3>1. Filter(Append(t, x), keep) = F
      BY <2>4, <2>7
    <3> QED
      BY <2>1, <2>2, <2>3, <2>5, <2>7, <3>1
  <2> QED
    BY <2>6, <2>7
<1> HIDE DEF T
<1>3. Seq(S) \subseteq T
  BY <1>1, <1>2, SeqSetInduction
<1> QED
  BY <1>3 DEF T

LEMMA FilterInjective ==
    ASSUME NEW S, NEW s \in Seq(S), NEW keep, Injective(s)
    PROVE  Injective(Filter(s, keep))
<1> DEFINE T == {t \in Seq(S) : Injective(t) => Injective(Filter(t, keep))}
<1>1. <<>> \in T
  BY FilterEmpty
<1>2. ASSUME NEW t \in Seq(S), NEW x \in S, t \in T PROVE Append(t, x) \in T
  <2> SUFFICES ASSUME Injective(Append(t, x)) PROVE Injective(Filter(Append(t, x), keep))
    OBVIOUS
  <2> DEFINE F == Filter(t, keep)
  <2>1. Injective(t) /\ x \notin Elements(t)
    BY InjectiveAppend
  <2>2. Injective(F) /\ F \in Seq(S) /\ x \notin Elements(F)
    BY <1>2, <2>1, FilterProperties
  <2>3. Filter(Append(t, x), keep) = IF x \in keep THEN Append(F, x) ELSE F
    BY FilterAppend
  <2> HIDE DEF F
  <2> QED
    BY <2>2, <2>3, InjectiveAppend
<1> HIDE DEF T
<1>3. Seq(S) \subseteq T
  BY <1>1, <1>2, SeqSetInduction
<1> QED
  BY <1>3 DEF T

\* Filtering moves elements to the front only.
LEMMA FilterAfter ==
    ASSUME NEW S, NEW s \in Seq(S), NEW keep, NEW p \in Nat
    PROVE  ElementsAfter(Filter(s, keep), p) \subseteq ElementsAfter(s, p)
<1> DEFINE T == {t \in Seq(S) : ElementsAfter(Filter(t, keep), p) \subseteq ElementsAfter(t, p)}
<1>1. <<>> \in T
  BY FilterEmpty
<1>2. ASSUME NEW t \in Seq(S), NEW x \in S, t \in T PROVE Append(t, x) \in T
  <2> DEFINE F == Filter(t, keep)
  <2>1. F \in Seq(S) /\ Len(F) <= Len(t) /\ ElementsAfter(F, p) \subseteq ElementsAfter(t, p)
    BY <1>2, FilterProperties
  <2>2. Filter(Append(t, x), keep) = IF x \in keep THEN Append(F, x) ELSE F
    BY FilterAppend
  <2> HIDE DEF F
  <2>3. /\ ElementsAfter(Append(t, x), p) = ElementsAfter(t, p) \cup (IF p <= Len(t) THEN {x} ELSE {})
        /\ ElementsAfter(Append(F, x), p) = ElementsAfter(F, p) \cup (IF p <= Len(F) THEN {x} ELSE {})
    BY <2>1, AppendAfter
  <2>4. Len(F) \in Nat /\ Len(t) \in Nat /\ Append(t, x) \in Seq(S)
    BY <2>1
  <2>5. CASE x \in keep
    <3>1. Filter(Append(t, x), keep) = Append(F, x)
      BY <2>2, <2>5
    <3> QED
      BY <2>1, <2>3, <2>4, <3>1
  <2>6. CASE x \notin keep
    <3>1. Filter(Append(t, x), keep) = F
      BY <2>2, <2>6
    <3> QED
      BY <2>1, <2>3, <2>4, <3>1
  <2> QED
    BY <2>5, <2>6
<1> HIDE DEF T
<1>3. Seq(S) \subseteq T
  BY <1>1, <1>2, SeqSetInduction
<1> QED
  BY <1>3 DEF T

\* What filtering takes from a sequence is also what it moves in front of a position,
\* at most.
LEMMA FilterMoves ==
    ASSUME NEW S, NEW s \in Seq(S), NEW gone, Injective(s), NEW p \in Nat
    PROVE  LET t == Filter(s, S \ gone)
           IN  /\ IsFiniteSet(ElementsAfter(s, p) \ ElementsAfter(t, p))
               /\ IsFiniteSet(gone \cap Elements(s))
               /\ Cardinality(ElementsAfter(s, p) \ ElementsAfter(t, p))
                      <= Cardinality(gone \cap Elements(s))
<1> DEFINE t == Filter(s, S \ gone)
           A == ElementsAfter(s, p)
           B == ElementsAfter(t, p)
<1>1. t \in Seq(S) /\ Elements(t) = Elements(s) \cap (S \ gone) /\ Injective(t) /\ B \subseteq A
  BY FilterProperties, FilterInjective, FilterAfter
<1>2. Elements(s) \subseteq S
  BY DEF Elements
<1> HIDE DEF t
<1>3. /\ IsFiniteSet(Elements(s)) /\ Cardinality(Elements(s)) = Len(s)
      /\ IsFiniteSet(Elements(t)) /\ Cardinality(Elements(t)) = Len(t)
  BY <1>1, ElementsSize
<1>4. /\ IsFiniteSet(A) /\ Cardinality(A) = IF p < Len(s) THEN Len(s) - p ELSE 0
      /\ IsFiniteSet(B) /\ Cardinality(B) = IF p < Len(t) THEN Len(t) - p ELSE 0
  BY <1>1, AfterSize
<1>5. gone \cap Elements(s) = Elements(s) \ Elements(t) /\ Elements(t) \subseteq Elements(s)
  BY <1>1, <1>2
<1> HIDE DEF A, B
<1>6. /\ IsFiniteSet(A \ B) /\ IsFiniteSet(gone \cap Elements(s))
      /\ Cardinality(A \ B) = Cardinality(A) - Cardinality(B)
      /\ Cardinality(gone \cap Elements(s)) = Len(s) - Len(t)
  <2>1. A \cap B = B /\ Elements(s) \cap Elements(t) = Elements(t)
    BY <1>1, <1>5
  <2>2. IsFiniteSet(A \ B) /\ Cardinality(A \ B) = Cardinality(A) - Cardinality(A \cap B)
    BY <1>4, FS_Difference
  <2>3. /\ IsFiniteSet(Elements(s) \ Elements(t))
        /\ Cardinality(Elements(s) \ Elements(t)) =
               Cardinality(Elements(s)) - Cardinality(Elements(s) \cap Elements(t))
    BY <1>3, FS_Difference
  <2> QED
    BY <1>3, <1>5, <2>1, <2>2, <2>3
<1>7. Len(s) \in Nat /\ Len(t) \in Nat /\ Len(t) <= Len(s)
  BY <1>1, <1>3, <1>5, FS_Subset
<1> QED
  BY <1>4, <1>6, <1>7 DEF t, A, B

\* What is filtered twice.
LEMMA FilterTwice ==
    ASSUME NEW S, NEW s \in Seq(S), NEW A, NEW B
    PROVE  Filter(Filter(s, A), B) = Filter(s, A \cap B)
<1> DEFINE T == {t \in Seq(S) : Filter(Filter(t, A), B) = Filter(t, A \cap B)}
<1>1. <<>> \in T
  BY FilterEmpty
<1>2. ASSUME NEW t \in Seq(S), NEW x \in S, t \in T PROVE Append(t, x) \in T
  <2> DEFINE F == Filter(t, A)
  <2>1. F \in Seq(S) /\ Filter(F, B) = Filter(t, A \cap B)
    BY <1>2, FilterProperties
  <2>2. /\ Filter(Append(t, x), A) = IF x \in A THEN Append(F, x) ELSE F
        /\ Filter(Append(t, x), A \cap B) =
               IF x \in A \cap B THEN Append(Filter(t, A \cap B), x) ELSE Filter(t, A \cap B)
    BY FilterAppend
  <2> HIDE DEF F
  <2>3. Filter(Append(F, x), B) = IF x \in B THEN Append(Filter(F, B), x) ELSE Filter(F, B)
    BY <2>1, FilterAppend
  <2>4. Append(t, x) \in Seq(S)
    OBVIOUS
  <2>5. CASE x \in A
    <3>1. Filter(Append(t, x), A) = Append(F, x)
      BY <2>2, <2>5
    <3>2. x \in A \cap B <=> x \in B
      BY <2>5
    <3>3. Filter(Append(F, x), B) = Filter(Append(t, x), A \cap B)
      BY <2>1, <2>2, <2>3, <3>2
    <3> QED
      BY <2>4, <3>1, <3>3
  <2>6. CASE x \notin A
    <3>1. Filter(Append(t, x), A) = F
      BY <2>2, <2>6
    <3> QED
      BY <2>1, <2>2, <2>4, <2>6, <3>1
  <2> QED
    BY <2>5, <2>6
<1> HIDE DEF T
<1>3. Seq(S) \subseteq T
  BY <1>1, <1>2, SeqSetInduction
<1> QED
  BY <1>3 DEF T

\* Nothing is dropped, and everything.
LEMMA FilterAll ==
    ASSUME NEW S, NEW s \in Seq(S), NEW keep, Elements(s) \subseteq keep
    PROVE  Filter(s, keep) = s
<1> DEFINE T == {t \in Seq(S) : Elements(t) \subseteq keep => Filter(t, keep) = t}
<1>1. <<>> \in T
  BY FilterEmpty
<1>2. ASSUME NEW t \in Seq(S), NEW x \in S, t \in T PROVE Append(t, x) \in T
  BY <1>2, AppendElements, FilterAppend
<1> HIDE DEF T
<1>3. Seq(S) \subseteq T
  BY <1>1, <1>2, SeqSetInduction
<1> QED
  BY <1>3 DEF T

LEMMA FilterNone ==
    ASSUME NEW S, NEW s \in Seq(S), NEW keep, Elements(s) \cap keep = {}
    PROVE  Filter(s, keep) = <<>>
<1>1. Filter(s, keep) \in Seq(S) /\ Elements(Filter(s, keep)) = {}
  BY FilterProperties
<1>2. ASSUME Filter(s, keep) # <<>> PROVE FALSE
  <2>1. 1 \in DOMAIN Filter(s, keep)
    BY <1>1, <1>2
  <2> QED
    BY <1>1, <2>1 DEF Elements
<1> QED
  BY <1>2

LEMMA FilterConcat ==
    ASSUME NEW S, NEW s \in Seq(S), NEW t \in Seq(S), NEW keep
    PROVE  Filter(s \o t, keep) = Filter(s, keep) \o Filter(t, keep)
<1> DEFINE T == {u \in Seq(S) : Filter(s \o u, keep) = Filter(s, keep) \o Filter(u, keep)}
<1>0. Filter(s, keep) \in Seq(S)
  BY FilterProperties
<1>1. <<>> \in T
  BY <1>0, FilterEmpty
<1>2. ASSUME NEW u \in Seq(S), NEW x \in S, u \in T PROVE Append(u, x) \in T
  <2>1. /\ s \o u \in Seq(S)
        /\ s \o Append(u, x) = Append(s \o u, x)
    OBVIOUS
  <2>2. Filter(u, keep) \in Seq(S)
    BY FilterProperties
  <2>3. /\ Filter(Append(u, x), keep) =
               IF x \in keep THEN Append(Filter(u, keep), x) ELSE Filter(u, keep)
        /\ Filter(Append(s \o u, x), keep) =
               IF x \in keep THEN Append(Filter(s \o u, keep), x) ELSE Filter(s \o u, keep)
    BY <2>1, FilterAppend
  <2>4. Filter(s, keep) \o Append(Filter(u, keep), x) =
            Append(Filter(s, keep) \o Filter(u, keep), x)
    BY <1>0, <2>2
  <2>5. Append(u, x) \in Seq(S)
    OBVIOUS
  <2> QED
    BY <1>2, <2>1, <2>3, <2>4, <2>5
<1> HIDE DEF T
<1>3. Seq(S) \subseteq T
  BY <1>1, <1>2, SeqSetInduction
<1> QED
  BY <1>3 DEF T

\* Only what the set says of the elements of the sequence matters.
LEMMA FilterSame ==
    ASSUME NEW S, NEW s \in Seq(S), NEW A, NEW B, A \cap Elements(s) = B \cap Elements(s)
    PROVE  Filter(s, A) = Filter(s, B)
<1>1. Filter(s, Elements(s)) = s
  BY FilterAll
<1>2. Filter(Filter(s, Elements(s)), A) = Filter(s, Elements(s) \cap A)
  BY FilterTwice
<1>3. Filter(Filter(s, Elements(s)), B) = Filter(s, Elements(s) \cap B)
  BY FilterTwice
<1>4. Elements(s) \cap A = Elements(s) \cap B
  OBVIOUS
<1> QED BY <1>1, <1>2, <1>3, <1>4

\* An element moved to the end, or added there.
LEMMA FilterMoved ==
    ASSUME NEW S, NEW s \in Seq(S), Injective(s), NEW x \in S
    PROVE  LET t == Append(Filter(s, S \ {x}), x)
           IN  /\ t \in Seq(S) /\ Injective(t) /\ Elements(t) = Elements(s) \cup {x}
               /\ \A keep : Filter(t, keep) =
                      IF x \in keep THEN Append(Filter(s, keep \ {x}), x) ELSE Filter(s, keep)
<1> DEFINE r == Filter(s, S \ {x})
           t == Append(r, x)
<1>1. r \in Seq(S) /\ Elements(r) = Elements(s) \cap (S \ {x}) /\ Injective(r)
  BY FilterProperties, FilterInjective
<1>2. Elements(s) \subseteq S
  BY DEF Elements
<1>3. ASSUME NEW keep
      PROVE  Filter(r, keep) = Filter(s, keep \ {x})
  <2>1. Filter(r, keep) = Filter(s, (S \ {x}) \cap keep)
    BY FilterTwice
  <2>2. Filter(s, (S \ {x}) \cap keep) = Filter(s, keep \ {x})
    <3>1. ((S \ {x}) \cap keep) \cap Elements(s) = (keep \ {x}) \cap Elements(s)
      BY <1>2
    <3> QED BY <3>1, FilterSame
  <2> QED BY <2>1, <2>2
<1> HIDE DEF r
<1>4. t \in Seq(S) /\ Elements(t) = Elements(s) \cup {x}
  <2>1. Elements(t) = Elements(r) \cup {x}
    BY <1>1, AppendElements
  <2>2. t \in Seq(S)
    BY <1>1
  <2> HIDE DEF t
  <2> QED BY <1>1, <1>2, <2>1, <2>2
<1>5. Injective(t)
  BY <1>1, InjectiveAppend
<1>6. ASSUME NEW keep
      PROVE  Filter(t, keep) = IF x \in keep THEN Append(Filter(s, keep \ {x}), x) ELSE Filter(s, keep)
  <2>1. Filter(t, keep) = IF x \in keep THEN Append(Filter(r, keep), x) ELSE Filter(r, keep)
    BY <1>1, FilterAppend
  <2>2. CASE x \in keep
    BY <1>3, <2>1, <2>2
  <2>3. CASE x \notin keep
    <3>1. keep \ {x} = keep
      BY <2>3
    <3> QED BY <1>3, <2>1, <2>3, <3>1
  <2> QED BY <2>2, <2>3
<1> HIDE DEF t
<1> QED BY <1>4, <1>5, <1>6 DEF t, r

----------------------------------------------------------------------------
(* Sequences put together, and parts of one. *)

LEMMA ConcatElements ==
    ASSUME NEW S, NEW s \in Seq(S), NEW t \in Seq(S)
    PROVE  /\ s \o t \in Seq(S)
           /\ Elements(s \o t) = Elements(s) \cup Elements(t)
           /\ Injective(s) /\ Injective(t) /\ Elements(s) \cap Elements(t) = {} => Injective(s \o t)
<1>0. Len(s) \in Nat /\ Len(t) \in Nat
  OBVIOUS
<1>1. PICK m, n : m = Len(s) /\ n = Len(t) /\ m \in Nat /\ n \in Nat
  BY <1>0
<1>2. /\ s \o t \in Seq(S) /\ DOMAIN (s \o t) = 1 .. m + n
      /\ DOMAIN s = 1 .. m /\ DOMAIN t = 1 .. n
      /\ \A i \in 1 .. m : (s \o t)[i] = s[i]
      /\ \A i \in 1 .. n : (s \o t)[m + i] = t[i]
  BY <1>1
<1>3. \A i \in 1 .. m + n : i \in 1 .. m \/ (i - m \in 1 .. n /\ m + (i - m) = i)
  BY <1>1
<1>4. \A i \in 1 .. n : m + i \in 1 .. m + n
  BY <1>1
<1>5. \A i \in 1 .. m : i \in 1 .. m + n
  BY <1>1
<1>6. ASSUME NEW i \in 1 .. m + n
      PROVE  \/ i \in 1 .. m /\ (s \o t)[i] = s[i]
             \/ i - m \in 1 .. n /\ (s \o t)[i] = t[i - m]
  BY <1>2, <1>3
<1>7. Elements(s \o t) \subseteq Elements(s) \cup Elements(t)
  BY <1>2, <1>6 DEF Elements
<1>8. Elements(s) \cup Elements(t) \subseteq Elements(s \o t)
  BY <1>2, <1>4, <1>5 DEF Elements
<1>9. ASSUME Injective(s), Injective(t), Elements(s) \cap Elements(t) = {} PROVE Injective(s \o t)
  <2> SUFFICES ASSUME NEW i \in 1 .. m + n, NEW j \in 1 .. m + n, (s \o t)[i] = (s \o t)[j]
               PROVE  i = j
    BY <1>2 DEF Injective
  <2>1. \A x \in 1 .. m, y \in 1 .. n : s[x] # t[y]
    BY <1>2, <1>9 DEF Elements
  <2>2. CASE i \in 1 .. m /\ (s \o t)[i] = s[i]
    <3>1. CASE j \in 1 .. m /\ (s \o t)[j] = s[j]
      BY <1>2, <1>9, <2>2, <3>1 DEF Injective
    <3>2. CASE j - m \in 1 .. n /\ (s \o t)[j] = t[j - m]
      BY <2>1, <2>2, <3>2
    <3> QED BY <1>6, <3>1, <3>2
  <2>3. CASE i - m \in 1 .. n /\ (s \o t)[i] = t[i - m]
    <3>1. j - m \in 1 .. n /\ (s \o t)[j] = t[j - m]
      BY <1>6, <2>1, <2>3
    <3>2. i - m = j - m
      BY <1>2, <1>9, <2>3, <3>1 DEF Injective
    <3> QED BY <1>1, <3>2
  <2> QED BY <1>6, <2>2, <2>3
<1> QED BY <1>2, <1>7, <1>8, <1>9

LEMMA PartElements ==
    ASSUME NEW S, NEW s \in Seq(S), NEW m \in 1 .. Len(s) + 1, NEW n \in m - 1 .. Len(s)
    PROVE  /\ SubSeq(s, m, n) \in Seq(S) /\ Len(SubSeq(s, m, n)) = n - m + 1
           /\ Elements(SubSeq(s, m, n)) \subseteq Elements(s)
           /\ Injective(s) => Injective(SubSeq(s, m, n))
<1>1. PICK k \in Nat : k = Len(s) /\ DOMAIN s = 1 .. k
  OBVIOUS
<1>2. m \in 1 .. k + 1 /\ n \in m - 1 .. k
  BY <1>1
<1>3. m \in Int /\ n \in Int
  BY <1>1, <1>2
<1>4. \A i \in m .. n : i \in 1 .. k
  BY <1>1, <1>2
<1>5. PICK t : t = SubSeq(s, m, n)
  OBVIOUS
<1>6. /\ t \in Seq(S) /\ Len(t) = n - m + 1 /\ DOMAIN t = 1 .. n - m + 1
      /\ \A i \in 1 .. n - m + 1 : t[i] = s[m + i - 1]
  <2>1. \A i \in m .. n : s[i] \in S
    BY <1>1, <1>4
  <2>2. /\ t \in Seq(S) /\ Len(t) = IF m <= n THEN n - m + 1 ELSE 0
        /\ \A i \in 1 .. n - m + 1 : t[i] = s[m + i - 1]
    BY <1>3, <1>5, <2>1, SubSeqProperties
  <2>3. (IF m <= n THEN n - m + 1 ELSE 0) = n - m + 1
    BY <1>1, <1>2
  <2> QED BY <2>2, <2>3
<1>7. \A i \in 1 .. n - m + 1 : m + i - 1 \in 1 .. k
  BY <1>1, <1>2
<1>8. Elements(t) \subseteq Elements(s)
  BY <1>1, <1>6, <1>7 DEF Elements
<1>9. ASSUME Injective(s) PROVE Injective(t)
  <2> SUFFICES ASSUME NEW i \in 1 .. n - m + 1, NEW j \in 1 .. n - m + 1, t[i] = t[j] PROVE i = j
    BY <1>6 DEF Injective
  <2>1. m + i - 1 = m + j - 1
    BY <1>1, <1>6, <1>7, <1>9, ZenonT(60) DEF Injective
  <2> QED BY <1>3, <2>1
<1> QED BY <1>5, <1>6, <1>8, <1>9
-----------------------------------------------------------------------------
(* An element and what follows it in a sequence. *)
FollowedBy(S, s, e, newer) ==
    /\ newer \in Seq(S)
    /\ \E before \in Seq(S) : s = Append(before, e) \o newer

LEMMA FollowedIsElement ==
    ASSUME NEW S, NEW s, NEW e \in S, NEW newer, FollowedBy(S, s, e, newer)
    PROVE  s \in Seq(S) /\ e \in Elements(s)
<1>1. PICK before \in Seq(S) : s = Append(before, e) \o newer
  BY DEF FollowedBy
<1>2. newer \in Seq(S)
  BY DEF FollowedBy
<1>3. PICK head : head = Append(before, e)
  OBVIOUS
<1>4. head \in Seq(S) /\ e \in Elements(head)
  BY <1>3, AppendElements
<1>5. head \o newer \in Seq(S) /\ e \in Elements(head \o newer)
  BY <1>2, <1>4, ConcatElements
<1> QED BY <1>1, <1>3, <1>5

LEMMA ElementsFollow ==
    ASSUME NEW S, NEW s \in Seq(S), NEW i \in DOMAIN s
    PROVE  FollowedBy(S, s, s[i], SubSeq(s, i + 1, Len(s)))
<1>1. PICK n \in Nat : n = Len(s) /\ DOMAIN s = 1 .. n
  OBVIOUS
<1>2. i \in 1 .. n
  BY <1>1
<1>3. s[i] \in S
  OBVIOUS
<1>4. /\ SubSeq(s, 1, i - 1) \in Seq(S) /\ SubSeq(s, i + 1, n) \in Seq(S)
      /\ SubSeq(s, 1, i) \in Seq(S)
  <2>1. /\ 1 \in 1 .. n + 1 /\ i - 1 \in 1 - 1 .. n
        /\ i + 1 \in 1 .. n + 1 /\ n \in (i + 1) - 1 .. n /\ i \in 1 - 1 .. n
    BY <1>1, <1>2
  <2> QED BY <1>1, <2>1, PartElements
<1>5. SubSeq(s, 1, i) = SubSeq(s, 1, i - 1) \o << s[i] >>
  <2>1. 1 \in 1 .. n /\ i \in 1 .. n
    BY <1>1, <1>2
  <2> QED BY <1>1, <2>1, SubSeqRecursiveSecond
<1>6. SubSeq(s, 1, i) = Append(SubSeq(s, 1, i - 1), s[i])
  BY <1>3, <1>4, <1>5
<1>7. SubSeq(s, 1, i) \o SubSeq(s, i + 1, n) = s
  <2>1. 1 \in 1 .. n + 1 /\ i \in 1 - 1 .. n /\ n \in i .. n
    BY <1>1, <1>2
  <2>2. SubSeq(s, 1, i) \o SubSeq(s, i + 1, n) = SubSeq(s, 1, n)
    BY <1>1, <2>1, ConcatAdjacentSubSeq
  <2> QED BY <1>1, <2>2, SubSeqFull
<1> QED BY <1>1, <1>4, <1>6, <1>7 DEF FollowedBy

\* A filter that keeps the element filters what follows it.
LEMMA FollowedInFilter ==
    ASSUME NEW S, NEW s, NEW e \in S, NEW newer, FollowedBy(S, s, e, newer), NEW keep, e \in keep
    PROVE  FollowedBy(S, Filter(s, keep), e, Filter(newer, keep))
<1>1. PICK before \in Seq(S) : s = Append(before, e) \o newer
  BY DEF FollowedBy
<1>2. PICK head : head = Append(before, e)
  OBVIOUS
<1>3. newer \in Seq(S) /\ head \in Seq(S)
  BY <1>2 DEF FollowedBy
<1>4. Filter(head \o newer, keep) = Filter(head, keep) \o Filter(newer, keep)
  BY <1>3, FilterConcat
<1>5. Filter(head, keep) = Append(Filter(before, keep), e)
  BY <1>2, FilterAppend
<1>6. Filter(before, keep) \in Seq(S) /\ Filter(newer, keep) \in Seq(S)
  BY <1>3, FilterProperties
<1> QED BY <1>1, <1>2, <1>4, <1>5, <1>6 DEF FollowedBy

LEMMA ConcatAt ==
    ASSUME NEW S, NEW s \in Seq(S), NEW t \in Seq(S), NEW u, u = s \o t,
           NEW m \in Nat, m = Len(s), NEW n \in Nat, n = Len(t)
    PROVE  /\ u \in Seq(S) /\ Len(u) = m + n
           /\ \A i \in 1 .. m : u[i] = s[i]
           /\ \A i \in 1 .. n : u[m + i] = t[i]
OBVIOUS

\* The last n have the element when fewer than n follow it.
LEMMA FollowedInLast ==
    ASSUME NEW S, NEW s, NEW e \in S, NEW newer, FollowedBy(S, s, e, newer),
           NEW n \in Nat, Len(newer) < n
    PROVE  FollowedBy(S, LastN(s, n), e, newer)
<1>1. PICK before \in Seq(S) : s = Append(before, e) \o newer
  BY DEF FollowedBy
<1>2. newer \in Seq(S) /\ Append(before, e) \in Seq(S)
  BY DEF FollowedBy
<1>3. PICK a, b : a = Len(before) /\ b = Len(newer) /\ a \in Nat /\ b \in Nat
  <2>1. Len(before) \in Nat /\ Len(newer) \in Nat
    BY <1>2
  <2> QED BY <2>1
<1>0. PICK m \in Nat : m = a + 1 + b
  BY <1>3
<1>4. PICK head : head = Append(before, e)
  OBVIOUS
<1>5. /\ head \in Seq(S) /\ Len(head) = a + 1 /\ head[a + 1] = e
      /\ \A i \in 1 .. a : head[i] = before[i]
  BY <1>2, <1>3, <1>4
<1>6. /\ s \in Seq(S) /\ Len(s) = m
      /\ \A i \in 1 .. a + 1 : s[i] = head[i]
      /\ \A i \in 1 .. b : s[a + 1 + i] = newer[i]
  <2>1. PICK l \in Nat : l = a + 1
    BY <1>3
  <2>2. s = head \o newer /\ Len(head) = l /\ Len(newer) = b /\ m = l + b
    BY <1>0, <1>1, <1>3, <1>4, <1>5, <2>1
  <2>3. /\ s \in Seq(S) /\ Len(s) = l + b
        /\ \A i \in 1 .. l : s[i] = head[i]
        /\ \A i \in 1 .. b : s[l + i] = newer[i]
    <3>1. PICK u : u = head \o newer
      OBVIOUS
    <3>2. head \in Seq(S) /\ newer \in Seq(S) /\ l = Len(head) /\ b = Len(newer)
      BY <1>2, <1>5, <2>2
    <3>3. /\ u \in Seq(S) /\ Len(u) = l + b
          /\ \A i \in 1 .. l : u[i] = head[i]
          /\ \A i \in 1 .. b : u[l + i] = newer[i]
      <4>1. l \in Nat /\ b \in Nat
        BY <1>3
      <4> QED BY <3>1, <3>2, <4>1, ConcatAt
    <3> QED BY <2>2, <3>1, <3>3
  <2> QED BY <2>1, <2>2, <2>3
<1>7. PICK p \in Nat : p = IF m > n THEN m - n + 1 ELSE 1
  <2>1. (IF m > n THEN m - n + 1 ELSE 1) \in Nat
    BY <1>3
  <2> QED BY <2>1
<1>8. p \in 1 .. a + 1
  BY <1>0, <1>3, <1>7
<1>9. PICK rest, t : rest = SubSeq(before, p, a) /\ t = SubSeq(s, p, m)
  OBVIOUS
<1>10. LastN(s, n) = t
  <2>1. Len(s) = m
    BY <1>6
  <2>2. p = IF Len(s) > n THEN Len(s) - n + 1 ELSE 1
    BY <1>7, <2>1
  <2>3. LastN(s, n) = SubSeq(s, p, Len(s))
    BY <2>2, Zenon DEF LastN
  <2> QED BY <1>9, <2>1, <2>3
<1>11. /\ rest \in Seq(S) /\ Len(rest) = a - p + 1
       /\ \A i \in 1 .. a - p + 1 : rest[i] = before[p + i - 1]
  <2>1. p \in Int /\ a \in Int /\ \A i \in p .. a : before[i] \in S
    BY <1>0, <1>3, <1>8
  <2>2. /\ rest \in Seq(S) /\ Len(rest) = IF p <= a THEN a - p + 1 ELSE 0
        /\ \A i \in 1 .. a - p + 1 : rest[i] = before[p + i - 1]
    BY <1>9, <2>1, SubSeqProperties
  <2>3. (IF p <= a THEN a - p + 1 ELSE 0) = a - p + 1
    BY <1>0, <1>3, <1>8
  <2> QED BY <2>2, <2>3
<1>12. /\ t \in Seq(S) /\ Len(t) = m - p + 1
       /\ \A i \in 1 .. m - p + 1 : t[i] = s[p + i - 1]
  <2>1. p \in Int /\ m \in Int /\ \A i \in p .. m : s[i] \in S
    BY <1>0, <1>3, <1>6, <1>8
  <2>2. /\ t \in Seq(S) /\ Len(t) = IF p <= m THEN m - p + 1 ELSE 0
        /\ \A i \in 1 .. m - p + 1 : t[i] = s[p + i - 1]
    BY <1>9, <2>1, SubSeqProperties
  <2>3. (IF p <= m THEN m - p + 1 ELSE 0) = m - p + 1
    BY <1>0, <1>3, <1>8
  <2> QED BY <2>2, <2>3
<1>13. PICK first : first = Append(rest, e)
  OBVIOUS
<1>14. PICK c \in Nat : c = a - p + 1
  <2>1. a - p + 1 \in Nat
    BY <1>0, <1>3, <1>8
  <2> QED BY <2>1
<1>21. PICK d \in Nat : d = c + 1 + b
  <2>1. c + 1 + b \in Nat
    BY <1>3
  <2> QED BY <2>1
<1>15. /\ first \in Seq(S) /\ Len(first) = c + 1 /\ first[c + 1] = e
       /\ \A i \in 1 .. c : first[i] = rest[i]
  BY <1>11, <1>13, <1>14
<1>16. PICK u : u = first \o newer
  OBVIOUS
<1>17. /\ u \in Seq(S) /\ Len(u) = d
       /\ \A i \in 1 .. c + 1 : u[i] = first[i]
       /\ \A i \in 1 .. b : u[c + 1 + i] = newer[i]
  <2>1. PICK k \in Nat : k = c + 1
    OBVIOUS
  <2>2. Len(first) = k /\ d = k + b
    BY <1>15, <1>21, <2>1
  <2>3. /\ u \in Seq(S) /\ Len(u) = k + b
        /\ \A i \in 1 .. k : u[i] = first[i]
        /\ \A i \in 1 .. b : u[k + i] = newer[i]
    <3>1. first \in Seq(S) /\ newer \in Seq(S) /\ k = Len(first) /\ b = Len(newer)
      BY <1>2, <1>3, <1>15, <2>2
    <3> QED BY <1>3, <1>16, <3>1, ConcatAt
  <2> QED BY <2>1, <2>2, <2>3
<1>18. Len(t) = Len(u) /\ m - p + 1 = d
  <2>1. Len(t) = m - p + 1 /\ Len(u) = d
    BY <1>12, <1>17
  <2>2. m - p + 1 = d
    BY <1>0, <1>3, <1>8, <1>14, <1>21
  <2> QED BY <2>1, <2>2
<1>19. ASSUME NEW i \in 1 .. d PROVE t[i] = u[i]
  <2>1. /\ p + i - 1 \in 1 .. m /\ i \in 1 .. m - p + 1
        /\ t[i] = s[p + i - 1]
    BY <1>0, <1>3, <1>8, <1>12, <1>14, <1>21
  <2>2. CASE i \in 1 .. c
    <3>1. p + i - 1 \in 1 .. a /\ p + i - 1 <= a + 1 /\ i <= c + 1
      BY <1>0, <1>3, <1>8, <1>14, <2>2
    <3>2. s[p + i - 1] = before[p + i - 1]
      BY <1>5, <1>6, <2>1, <3>1
    <3>3. u[i] = rest[i] /\ rest[i] = before[p + i - 1]
      BY <1>11, <1>14, <1>15, <1>17, <2>2, <3>1
    <3> QED BY <2>1, <3>2, <3>3
  <2>3. CASE i = c + 1
    <3>1. p + i - 1 = a + 1
      BY <1>0, <1>3, <1>8, <1>14, <2>3
    <3>2. a + 1 \in 1 .. a + 1 /\ c + 1 \in 1 .. c + 1
      BY <1>3
    <3>3. s[a + 1] = e /\ u[c + 1] = e
      BY <1>5, <1>6, <1>15, <1>17, <3>2
    <3>4. t[i] = s[a + 1] /\ u[i] = u[c + 1]
      BY <2>1, <2>3, <3>1
    <3> QED BY <3>3, <3>4
  <2>4. CASE i > c + 1
    <3>1. PICK j \in 1 .. b : i = c + 1 + j
      <4>1. i - (c + 1) \in 1 .. b /\ i = c + 1 + (i - (c + 1))
        BY <1>3, <1>14, <1>21, <2>4
      <4> QED BY <4>1
    <3>2. p + i - 1 = a + 1 + j
      BY <1>3, <1>8, <1>14, <3>1
    <3>3. t[i] = newer[j]
      BY <1>6, <2>1, <3>2
    <3>4. u[i] = newer[j]
      BY <1>17, <3>1
    <3> QED BY <3>3, <3>4
  <2> QED BY <1>14, <1>21, <2>2, <2>3, <2>4
<1>20. t = u
  BY <1>12, <1>17, <1>18, <1>19, SeqEqual
<1> QED BY <1>2, <1>10, <1>11, <1>13, <1>16, <1>20 DEF FollowedBy
=============================================================================
