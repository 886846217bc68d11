----------------------------- MODULE VectorFacts -----------------------------
(***************************************************************************)
(* Facts about the operators that model a std::vector, for the proofs of   *)
(* the other modules: removing an element, dropping the last one, the      *)
(* search for the first match, and the nested loops of push_back that      *)
(* FlattenSeq is.                                                          *)
(***************************************************************************)
EXTENDS Integers, Sequences, SequencesExt, SequenceTheorems,
        WellFoundedInduction, TLAPS

Increasing(s) == \A i, j \in 1 .. Len(s) : i < j => s[i] < s[j]

\* The least element of a set of natural numbers exists.
LEMMA MinOfNaturals ==
    ASSUME NEW S \in SUBSET Nat, S # {}
    PROVE  Min(S) \in S /\ \A y \in S : Min(S) =< y
<1> DEFINE R == {ss \in Nat \X Nat : ss[1] < ss[2]}
<1>1. R = OpToRel(<, Nat)
  BY DEF OpToRel
<1>2. IsWellFoundedOn(R, Nat)
  BY <1>1, NatLessThanWellFounded, Zenon
<1>3. \A x, y \in Nat : <<y, x>> \notin R => x =< y
  OBVIOUS
<1> HIDE DEF R
<1>4. PICK x \in S : \A y \in S : <<y, x>> \notin R
  BY <1>2, WFMin
<1>5. \A y \in S : x =< y
  BY <1>3, <1>4
<1> QED
  BY <1>5 DEF Min

\* A search that returns the least index of a nonempty set of positions.
LEMMA FirstMatch ==
    ASSUME NEW S, NEW s \in Seq(S), NEW I \in SUBSET (1 .. Len(s))
    PROVE  I # {} => Min(I) \in I
<1>1. I \in SUBSET Nat
  BY LenProperties
<1> QED
  BY <1>1, MinOfNaturals

\* The slices an erase is made of.
LEMMA SubSeqFacts ==
    ASSUME NEW S, NEW s \in Seq(S), NEW m \in 1 .. Len(s) + 1, NEW n \in 0 .. Len(s)
    PROVE  /\ SubSeq(s, m, n) \in Seq(S)
           /\ Len(SubSeq(s, m, n)) = IF m <= n THEN n - m + 1 ELSE 0
           /\ \A j \in 1 .. n - m + 1 : SubSeq(s, m, n)[j] = s[m + j - 1]
<1>1. Len(s) \in Nat /\ m \in Int /\ n \in Int
  BY LenProperties
<1>2. \A j \in m .. n : s[j] \in S
  BY <1>1, ElementOfSeq
<1> QED
  BY <1>1, <1>2, SubSeqProperties

\* The elements after an erased position move down by one.
LEMMA RemoveAtFacts ==
    ASSUME NEW S, NEW s \in Seq(S), NEW i \in 1 .. Len(s)
    PROVE  /\ RemoveAt(s, i) \in Seq(S)
           /\ Len(RemoveAt(s, i)) = Len(s) - 1
           /\ \A j \in 1 .. Len(s) - 1 :
                 RemoveAt(s, i)[j] = IF j < i THEN s[j] ELSE s[j + 1]
<1>1. Len(s) \in Nat
  BY LenProperties
<1> DEFINE a == SubSeq(s, 1, i - 1)
           b == SubSeq(s, i + 1, Len(s))
<1>2. a \in Seq(S) /\ Len(a) = i - 1 /\ \A j \in 1 .. i - 1 : a[j] = s[j]
  <2>1. 1 \in 1 .. Len(s) + 1 /\ i - 1 \in 0 .. Len(s)
    BY <1>1
  <2> QED
    BY <1>1, <2>1, SubSeqFacts
<1>3. b \in Seq(S) /\ Len(b) = Len(s) - i /\ \A j \in 1 .. Len(s) - i : b[j] = s[i + j]
  <2>1. i + 1 \in 1 .. Len(s) + 1 /\ Len(s) \in 0 .. Len(s)
    BY <1>1
  <2> QED
    BY <1>1, <2>1, SubSeqFacts
<1>4. RemoveAt(s, i) = a \o b
  BY DEF RemoveAt
<1> HIDE DEF a, b
<1>5. /\ a \o b \in Seq(S)
      /\ Len(a \o b) = Len(a) + Len(b)
      /\ \A j \in 1 .. Len(a) + Len(b) :
            (a \o b)[j] = IF j <= Len(a) THEN a[j] ELSE b[j - Len(a)]
  BY <1>2, <1>3, ConcatProperties
<1>6. \A j \in 1 .. Len(s) - 1 : (a \o b)[j] = IF j < i THEN s[j] ELSE s[j + 1]
  <2> TAKE j \in 1 .. Len(s) - 1
  <2>1. j \in 1 .. Len(a) + Len(b)
    BY <1>1, <1>2, <1>3
  <2>2. CASE j < i
    <3>1. j \in 1 .. i - 1 /\ j <= Len(a)
      BY <1>1, <1>2, <2>2
    <3> QED
      BY <1>2, <1>5, <2>1, <2>2, <3>1
  <2>3. CASE ~ (j < i)
    <3>1. j - Len(a) \in 1 .. Len(s) - i /\ ~ (j <= Len(a)) /\ i + (j - Len(a)) = j + 1
      BY <1>1, <1>2, <2>3
    <3>2. b[j - Len(a)] = s[i + (j - Len(a))]
      BY <1>3, <3>1
    <3> QED
      BY <1>5, <2>1, <2>3, <3>1, <3>2
  <2> QED
    BY <2>2, <2>3
<1> QED
  BY <1>1, <1>2, <1>3, <1>4, <1>5, <1>6

\* Dropping the last element leaves the others where they are.
LEMMA FrontFacts ==
    ASSUME NEW S, NEW s \in Seq(S), s # <<>>
    PROVE  /\ Front(s) \in Seq(S)
           /\ Len(Front(s)) = Len(s) - 1
           /\ \A j \in 1 .. Len(s) - 1 : Front(s)[j] = s[j]
<1> DEFINE n == Len(s) - 1
<1>1. Len(s) \in Nat \ {0}
  BY EmptySeq
<1>2. n \in Nat /\ 1 \in 1 .. Len(s) + 1 /\ n \in 0 .. Len(s)
  BY <1>1
<1>3. Front(s) = SubSeq(s, 1, n)
  BY DEF Front
<1> SUFFICES /\ SubSeq(s, 1, n) \in Seq(S)
             /\ Len(SubSeq(s, 1, n)) = n
             /\ \A j \in 1 .. n : SubSeq(s, 1, n)[j] = s[j]
  BY <1>3
<1> HIDE DEF n
<1>4. /\ SubSeq(s, 1, n) \in Seq(S)
      /\ Len(SubSeq(s, 1, n)) = IF 1 <= n THEN n - 1 + 1 ELSE 0
      /\ \A j \in 1 .. n - 1 + 1 : SubSeq(s, 1, n)[j] = s[1 + j - 1]
  BY <1>2, SubSeqFacts
<1>5. (IF 1 <= n THEN n - 1 + 1 ELSE 0) = n /\ n - 1 + 1 = n
  BY <1>2
<1>6. \A j \in 1 .. n : 1 + j - 1 = j
  BY <1>2
<1> QED
  BY <1>4, <1>5, <1>6

\* The last element of a vector is one of its elements, and push_back makes the
\* new one the last.
LEMMA LastFacts ==
    ASSUME NEW S, NEW s \in Seq(S)
    PROVE  /\ s # <<>> => Last(s) = s[Len(s)] /\ Len(s) \in 1 .. Len(s)
           /\ \A e \in S : /\ Append(s, e) \in Seq(S)
                           /\ Append(s, e) # <<>>
                           /\ Last(Append(s, e)) = e
<1>1. Len(s) \in Nat /\ (s # <<>> => Len(s) \in Nat \ {0})
  BY LenProperties, EmptySeq
<1>2. ASSUME NEW e \in S
      PROVE  /\ Append(s, e) \in Seq(S)
             /\ Append(s, e) # <<>>
             /\ Append(s, e)[Len(Append(s, e))] = e
  <2>1. Append(s, e) \in Seq(S) /\ Len(Append(s, e)) = Len(s) + 1
        /\ Append(s, e)[Len(s) + 1] = e
    BY AppendProperties
  <2> QED
    BY <1>1, <2>1
<1> QED
  BY <1>1, <1>2 DEF Last

\* push_back of an element larger than all the others.
LEMMA AppendIncreasing ==
    ASSUME NEW S \in SUBSET Int, NEW s \in Seq(S), NEW e \in S,
           Increasing(s), \A x \in ToSet(s) : x < e
    PROVE  /\ Increasing(Append(s, e))
           /\ ToSet(Append(s, e)) = ToSet(s) \cup {e}
<1>1. Len(s) \in Nat /\ DOMAIN s = 1 .. Len(s)
  BY LenProperties
<1>2. /\ Append(s, e) \in Seq(S)
      /\ Len(Append(s, e)) = Len(s) + 1
      /\ \A i \in 1 .. Len(s) : Append(s, e)[i] = s[i]
      /\ Append(s, e)[Len(s) + 1] = e
  BY AppendProperties
<1>3. DOMAIN Append(s, e) = 1 .. Len(s) + 1
  BY <1>2, LenProperties
<1>4. ToSet(Append(s, e)) = ToSet(s) \cup {e}
  BY <1>1, <1>2, <1>3 DEF ToSet
<1>5. Increasing(Append(s, e))
  BY <1>1, <1>2 DEF Increasing, ToSet
<1> QED
  BY <1>4, <1>5

\* erase of one position keeps the others, in their order.
LEMMA RemoveAtIncreasing ==
    ASSUME NEW S \in SUBSET Int, NEW s \in Seq(S), NEW i \in 1 .. Len(s),
           Increasing(s)
    PROVE  /\ Increasing(RemoveAt(s, i))
           /\ ToSet(RemoveAt(s, i)) = ToSet(s) \ {s[i]}
<1> DEFINE r == RemoveAt(s, i)
<1>1. Len(s) \in Nat /\ DOMAIN s = 1 .. Len(s) /\ \A j \in 1 .. Len(s) : s[j] \in Int
  BY LenProperties, ElementOfSeq
<1>2. /\ r \in Seq(S)
      /\ Len(r) = Len(s) - 1
      /\ \A j \in 1 .. Len(s) - 1 : r[j] = IF j < i THEN s[j] ELSE s[j + 1]
  BY RemoveAtFacts
<1>3. DOMAIN r = 1 .. Len(s) - 1
  BY <1>2, LenProperties
<1> HIDE DEF r
<1>4. Increasing(r)
  BY <1>1, <1>2 DEF Increasing
<1>5. \A j \in 1 .. Len(s) : j # i => s[j] # s[i]
  BY <1>1 DEF Increasing
<1>6. ToSet(r) \subseteq ToSet(s) \ {s[i]}
  <2> SUFFICES ASSUME NEW j \in 1 .. Len(s) - 1
               PROVE  \E k \in 1 .. Len(s) : k # i /\ r[j] = s[k]
    BY <1>1, <1>3, <1>5 DEF ToSet
  <2>1. CASE j < i
    BY <1>1, <1>2, <2>1
  <2>2. CASE ~ (j < i)
    <3>1. j + 1 \in 1 .. Len(s) /\ j + 1 # i
      BY <1>1, <2>2
    <3> QED
      BY <1>2, <2>2, <3>1
  <2> QED
    BY <2>1, <2>2
<1>7. ToSet(s) \ {s[i]} \subseteq ToSet(r)
  <2> SUFFICES ASSUME NEW j \in 1 .. Len(s), j # i
               PROVE  \E k \in 1 .. Len(s) - 1 : r[k] = s[j]
    BY <1>1, <1>3 DEF ToSet
  <2>1. CASE j < i
    <3>1. j \in 1 .. Len(s) - 1
      BY <1>1, <2>1
    <3> QED
      BY <1>2, <2>1, <3>1
  <2>2. CASE j > i
    <3>1. j - 1 \in 1 .. Len(s) - 1 /\ ~ (j - 1 < i) /\ j - 1 + 1 = j
      BY <1>1, <2>2
    <3> QED
      BY <1>2, <3>1
  <2> QED
    BY <1>1, <2>1, <2>2
<1> QED
  BY <1>4, <1>6, <1>7 DEF r

\* erase(end()) of the vectors of libstdc++ drops the last element.
LEMMA FrontIncreasing ==
    ASSUME NEW S \in SUBSET Int, NEW s \in Seq(S), s # <<>>, Increasing(s)
    PROVE  /\ Increasing(Front(s))
           /\ ToSet(Front(s)) = ToSet(s) \ {Last(s)}
<1> DEFINE r == Front(s)
<1>1. Len(s) \in Nat \ {0} /\ DOMAIN s = 1 .. Len(s)
      /\ \A j \in 1 .. Len(s) : s[j] \in Int
  BY LenProperties, EmptySeq, ElementOfSeq
<1>2. /\ r \in Seq(S)
      /\ Len(r) = Len(s) - 1
      /\ \A j \in 1 .. Len(s) - 1 : r[j] = s[j]
  BY FrontFacts
<1>3. DOMAIN r = 1 .. Len(s) - 1
  BY <1>2, LenProperties
<1> HIDE DEF r
<1>4. Increasing(r)
  BY <1>1, <1>2 DEF Increasing
<1>5. \A j \in 1 .. Len(s) - 1 : s[j] # s[Len(s)]
  BY <1>1 DEF Increasing
<1>6. ToSet(r) = {s[j] : j \in 1 .. Len(s) - 1}
  BY <1>2, <1>3 DEF ToSet
<1>7. 1 .. Len(s) = (1 .. Len(s) - 1) \cup {Len(s)}
  BY <1>1
<1>8. ToSet(s) = {s[j] : j \in 1 .. Len(s) - 1} \cup {s[Len(s)]}
  BY <1>1, <1>7 DEF ToSet
<1>9. s[Len(s)] \notin {s[j] : j \in 1 .. Len(s) - 1}
  BY <1>5
<1> QED
  BY <1>4, <1>6, <1>8, <1>9 DEF r, Last

\* The loop that FlattenSeq is, over the vectors up to the n-th.
Flattens(f, seqs, n) ==
    f = [i \in 1 .. n |-> IF i = 1 THEN seqs[i] ELSE f[i - 1] \o seqs[i]]

\* It has a result, which a recursive definition alone does not say.
LEMMA FlattenExists ==
    ASSUME NEW seqs, NEW n \in Nat
    PROVE  \E f : Flattens(f, seqs, n)
<1> DEFINE Bad == {m \in Nat : ~ \E f : Flattens(f, seqs, m)}
<1> SUFFICES Bad = {}
  OBVIOUS
<1> SUFFICES ASSUME Bad # {} PROVE FALSE
  OBVIOUS
<1>1. PICK m \in Bad : \A y \in Bad : m =< y
  BY MinOfNaturals
<1>2. m \in Nat /\ ~ \E f : Flattens(f, seqs, m)
  OBVIOUS
<1>3. CASE m = 0
  <2> DEFINE f == [i \in 1 .. 0 |-> {}]
  <2>1. Flattens(f, seqs, 0)
    BY DEF Flattens
  <2> QED
    BY <1>2, <1>3, <2>1
<1>4. CASE m # 0
  <2>1. m - 1 \in Nat /\ m - 1 \notin Bad
    BY <1>1, <1>2, <1>4
  <2>2. PICK g : Flattens(g, seqs, m - 1)
    BY <2>1
  <2> DEFINE f == [i \in 1 .. m |-> IF i < m THEN g[i]
                                    ELSE IF i = 1 THEN seqs[i] ELSE g[i - 1] \o seqs[i]]
  <2>3. \A i \in 1 .. m - 1 : g[i] = IF i = 1 THEN seqs[i] ELSE g[i - 1] \o seqs[i]
    BY <2>2 DEF Flattens
  <2>4. \A i \in 1 .. m - 1 : f[i] = g[i]
    BY <1>2
  <2>5. \A i \in 1 .. m : f[i] = IF i = 1 THEN seqs[i] ELSE f[i - 1] \o seqs[i]
    <3> TAKE i \in 1 .. m
    <3>1. CASE i = 1
      BY <1>2, <2>3, <2>4, <3>1
    <3>2. CASE i # 1
      <4>1. i - 1 \in 1 .. m - 1 /\ f[i - 1] = g[i - 1]
        BY <1>2, <2>4, <3>2
      <4>2. f[i] = g[i - 1] \o seqs[i]
        <5>1. CASE i < m
          <6>1. i \in 1 .. m - 1
            BY <1>2, <5>1
          <6> QED
            BY <2>3, <3>2, <5>1, <6>1
        <5>2. CASE ~ (i < m)
          BY <3>2, <5>2
        <5> QED
          BY <5>1, <5>2
      <4> QED
        BY <3>2, <4>1, <4>2
    <3> QED
      BY <3>1, <3>2
  <2>6. f = [i \in 1 .. m |-> IF i = 1 THEN seqs[i] ELSE f[i - 1] \o seqs[i]]
    <3> DEFINE h == [i \in 1 .. m |-> IF i = 1 THEN seqs[i] ELSE f[i - 1] \o seqs[i]]
    <3>1. DOMAIN f = 1 .. m
      OBVIOUS
    <3>2. f = [i \in 1 .. m |-> f[i]]
      OBVIOUS
    <3> HIDE DEF f
    <3>3. \A i \in 1 .. m : f[i] = h[i]
      BY <2>5
    <3> QED
      BY <2>5, <3>2
  <2> HIDE DEF f
  <2>7. Flattens(f, seqs, m)
    BY <2>6 DEF Flattens
  <2> QED
    BY <1>2, <2>7
<1> QED
  BY <1>3, <1>4

\* And one result only, that the vectors after the n-th do not change.
Prefix(s, m, t, n) == \A i \in 1 .. m : i \in 1 .. n /\ s[i] = t[i]

LEMMA FlattenUnique ==
    ASSUME NEW s, NEW t, NEW m \in Nat, NEW n \in Nat, Prefix(s, m, t, n),
           NEW f, NEW g, Flattens(f, s, m), Flattens(g, t, n)
    PROVE  Prefix(f, m, g, n)
<1> SUFFICES \A i \in 1 .. m : f[i] = g[i]
  BY DEF Prefix
<1> DEFINE Bad == {i \in 1 .. m : f[i] # g[i]}
<1> SUFFICES ASSUME Bad # {} PROVE FALSE
  OBVIOUS
<1>1. PICK k \in Bad : \A y \in Bad : k =< y
  <2>1. Bad \in SUBSET Nat
    OBVIOUS
  <2> HIDE DEF Bad
  <2> QED
    BY <2>1, MinOfNaturals
<1>2. k \in 1 .. m /\ k \in 1 .. n /\ s[k] = t[k] /\ f[k] # g[k]
  BY DEF Prefix
<1>3. /\ f[k] = IF k = 1 THEN s[k] ELSE f[k - 1] \o s[k]
      /\ g[k] = IF k = 1 THEN t[k] ELSE g[k - 1] \o t[k]
  BY <1>2 DEF Flattens
<1>4. k # 1
  BY <1>2, <1>3
<1>5. k - 1 \in 1 .. m /\ k - 1 \notin Bad
  BY <1>1, <1>2, <1>4
<1>6. f[k - 1] = g[k - 1]
  BY <1>5
<1> QED
  BY <1>2, <1>3, <1>4, <1>6

\* Without a vector there is no element; one more vector adds its elements.
LEMMA FlattenEmpty == FlattenSeq(<<>>) = <<>>
  BY DEF FlattenSeq

LEMMA FlattenStep ==
    ASSUME NEW seqs, Len(seqs) \in Nat, Len(seqs) # 0
    PROVE  \E f : Flattens(f, seqs, Len(seqs)) /\ FlattenSeq(seqs) = f[Len(seqs)]
<1> DEFINE f == CHOOSE f : f = [i \in 1 .. Len(seqs) |->
                                  IF i = 1 THEN seqs[i] ELSE f[i - 1] \o seqs[i]]
<1>1. FlattenSeq(seqs) = f[Len(seqs)]
  BY DEF FlattenSeq
<1>2. \E g : g = [i \in 1 .. Len(seqs) |->
                    IF i = 1 THEN seqs[i] ELSE g[i - 1] \o seqs[i]]
  BY FlattenExists DEF Flattens
<1>3. f = [i \in 1 .. Len(seqs) |-> IF i = 1 THEN seqs[i] ELSE f[i - 1] \o seqs[i]]
  BY <1>2
<1> HIDE DEF f
<1>4. Flattens(f, seqs, Len(seqs))
  BY <1>3 DEF Flattens
<1> QED
  BY <1>1, <1>4

LEMMA FlattenAppend ==
    ASSUME NEW S, NEW seqs \in Seq(Seq(S)), NEW t \in Seq(S)
    PROVE  FlattenSeq(Append(seqs, t)) = FlattenSeq(seqs) \o t
<1> DEFINE T == Seq(S)
           n == Len(seqs)
           l == n + 1
           more == Append(seqs, t)
<1>1. n \in Nat /\ Len(more) = l /\ more[l] = t /\ \A i \in 1 .. n : more[i] = seqs[i]
  <2> HIDE DEF T
  <2>1. seqs \in Seq(T) /\ t \in T
    BY DEF T
  <2> QED
    BY <2>1, AppendProperties, LenProperties
<1>2. l \in Nat /\ l # 0 /\ l - 1 = n /\ l \in 1 .. l /\ (l = 1 <=> n = 0)
      /\ (n # 0 => n \in 1 .. n) /\ \A i \in 1 .. n : i \in 1 .. l
  BY <1>1
<1> HIDE DEF more, n, l
<1>3. PICK g : Flattens(g, more, l) /\ FlattenSeq(more) = g[l]
  BY <1>1, <1>2, FlattenStep
<1>4. g[l] = IF l = 1 THEN t ELSE g[n] \o t
  <2>1. g[l] = IF l = 1 THEN more[l] ELSE g[l - 1] \o more[l]
    BY <1>2, <1>3 DEF Flattens
  <2> QED
    BY <1>1, <1>2, <2>1
<1>5. CASE n = 0
  <2>1. seqs = <<>>
    BY <1>5, EmptySeq DEF n
  <2>2. FlattenSeq(more) = t
    BY <1>2, <1>3, <1>4, <1>5
  <2> QED
    BY <2>1, <2>2, FlattenEmpty, ConcatEmptySeq DEF more
<1>6. CASE n # 0
  <2>1. PICK f : Flattens(f, seqs, n) /\ FlattenSeq(seqs) = f[n]
    BY <1>1, <1>6, FlattenStep DEF n
  <2>2. \A i \in 1 .. n : f[i] = g[i]
    <3>1. Prefix(seqs, n, more, l)
      BY <1>1, <1>2 DEF Prefix
    <3>2. Prefix(f, n, g, l)
      BY <1>1, <1>2, <1>3, <2>1, <3>1, FlattenUnique
    <3> QED
      BY <3>2 DEF Prefix
  <2>3. g[n] = FlattenSeq(seqs) /\ FlattenSeq(more) = g[n] \o t
    BY <1>2, <1>3, <1>4, <1>6, <2>1, <2>2
  <2> QED
    BY <2>3 DEF more
<1> QED
  BY <1>5, <1>6

\* The elements of a vector.
LEMMA ToSetIs ==
    ASSUME NEW S, NEW s \in Seq(S)
    PROVE  /\ ToSet(s) = {s[k] : k \in 1 .. Len(s)}
           /\ ToSet(s) \subseteq S
<1>1. DOMAIN s = 1 .. Len(s) /\ \A k \in 1 .. Len(s) : s[k] \in S
  BY LenProperties, ElementOfSeq
<1> QED
  BY <1>1 DEF ToSet

\* The elements of a concatenation.
LEMMA ConcatElements ==
    ASSUME NEW S, NEW a \in Seq(S), NEW t \in Seq(S)
    PROVE  ToSet(a \o t) = ToSet(a) \cup ToSet(t)
<1> DEFINE b == a \o t
<1>1. /\ Len(a) \in Nat /\ Len(t) \in Nat /\ Len(b) = Len(a) + Len(t)
      /\ \A k \in 1 .. Len(a) + Len(t) :
            b[k] = IF k <= Len(a) THEN a[k] ELSE t[k - Len(a)]
  BY ConcatProperties, LenProperties
<1>2. b \in Seq(S)
  BY ConcatProperties
<1> HIDE DEF b
<1>3. /\ ToSet(a) = {a[k] : k \in 1 .. Len(a)} /\ ToSet(t) = {t[k] : k \in 1 .. Len(t)}
      /\ ToSet(b) = {b[k] : k \in 1 .. Len(b)}
  BY <1>2, ToSetIs
<1>4. ASSUME NEW k \in 1 .. Len(b)
      PROVE  b[k] \in ToSet(a) \cup ToSet(t)
  <2>1. CASE k <= Len(a)
    <3>1. k \in 1 .. Len(a) /\ k \in 1 .. Len(a) + Len(t)
      BY <1>1, <2>1
    <3> QED
      BY <1>1, <1>3, <2>1, <3>1
  <2>2. CASE ~ (k <= Len(a))
    <3>1. k - Len(a) \in 1 .. Len(t) /\ k \in 1 .. Len(a) + Len(t)
      BY <1>1, <2>2
    <3> QED
      BY <1>1, <1>3, <2>2, <3>1
  <2> QED
    BY <2>1, <2>2
<1>5. ASSUME NEW k \in 1 .. Len(a)
      PROVE  a[k] \in ToSet(b)
  <2>1. k \in 1 .. Len(b) /\ b[k] = a[k]
    BY <1>1
  <2> QED
    BY <1>3, <2>1
<1>6. ASSUME NEW j \in 1 .. Len(t)
      PROVE  t[j] \in ToSet(b)
  <2>1. Len(a) + j \in 1 .. Len(b) /\ ~ (Len(a) + j <= Len(a))
        /\ (Len(a) + j) - Len(a) = j
    BY <1>1
  <2>2. b[Len(a) + j] = t[j]
    BY <1>1, <2>1
  <2> QED
    BY <1>3, <2>1, <2>2
<1>7. ToSet(b) = ToSet(a) \cup ToSet(t)
  BY <1>3, <1>4, <1>5, <1>6
<1> QED
  BY <1>7 DEF b

\* The result of the nested loops has the elements of the vectors, and no others.
LEMMA FlattenElements ==
    ASSUME NEW S, NEW seqs \in Seq(Seq(S))
    PROVE  /\ FlattenSeq(seqs) \in Seq(S)
           /\ ToSet(FlattenSeq(seqs)) = UNION {ToSet(seqs[i]) : i \in 1 .. Len(seqs)}
<1> DEFINE T == Seq(S)
           Holds(q) == /\ FlattenSeq(q) \in T
                       /\ ToSet(FlattenSeq(q)) = UNION {ToSet(q[i]) : i \in 1 .. Len(q)}
           Bad == {m \in Nat : \E q \in Seq(T) : Len(q) = m /\ ~ Holds(q)}
<1>0. seqs \in Seq(T) /\ \A q \in Seq(T) : Len(q) \in Nat
  BY LenProperties
<1> SUFFICES Bad = {}
  <2> HIDE DEF T
  <2> QED
    BY <1>0 DEF T
<1> SUFFICES ASSUME Bad # {} PROVE FALSE
  OBVIOUS
<1>2. PICK m \in Bad : \A y \in Bad : m =< y
  BY MinOfNaturals
<1>3. PICK q \in Seq(T) : Len(q) = m /\ ~ Holds(q)
  BY <1>2
<1>4. m \in Nat
  OBVIOUS
<1> HIDE DEF T
<1>5. CASE q = <<>>
  <2>1. FlattenSeq(q) = <<>> /\ Len(q) = 0 /\ <<>> \in T /\ ToSet(<<>>) = {}
    BY <1>5, FlattenEmpty DEF T, ToSet
  <2>2. Holds(q)
    BY <2>1
  <2> QED
    BY <1>3, <2>2
<1>6. CASE q # <<>>
  <2>1. PICK p \in Seq(T), t \in T : q = Append(p, t)
    BY <1>3, <1>6, SequenceEmptyOrAppend
  <2>2. /\ Len(p) \in Nat /\ Len(q) = Len(p) + 1 /\ q[Len(p) + 1] = t
        /\ \A i \in 1 .. Len(p) : q[i] = p[i]
    BY <2>1, AppendProperties, LenProperties
  <2>3. Holds(p)
    <3>1. Len(p) \in Nat /\ ~ (m <= Len(p))
      BY <1>3, <1>4, <2>2
    <3>2. Len(p) \notin Bad
      <4> HIDE DEF Bad
      <4> QED
        BY <1>2, <3>1
    <3> HIDE DEF Holds
    <3> QED
      BY <3>1, <3>2
  <2>4. FlattenSeq(q) = FlattenSeq(p) \o t
    BY <2>1, FlattenAppend DEF T
  <2>5. /\ FlattenSeq(q) \in T
        /\ ToSet(FlattenSeq(q)) = ToSet(FlattenSeq(p)) \cup ToSet(t)
    <3> DEFINE a == FlattenSeq(p)
    <3>1. a \in Seq(S) /\ t \in Seq(S)
      BY <2>1, <2>3 DEF T
    <3> HIDE DEF a
    <3>2. a \o t \in Seq(S) /\ ToSet(a \o t) = ToSet(a) \cup ToSet(t)
      BY <3>1, ConcatElements, ConcatProperties
    <3> QED
      BY <2>4, <3>2 DEF T, a
  <2>6. UNION {ToSet(q[i]) : i \in 1 .. Len(q)}
            = (UNION {ToSet(p[i]) : i \in 1 .. Len(p)}) \cup ToSet(t)
    <3>1. 1 .. Len(q) = (1 .. Len(p)) \cup {Len(p) + 1}
      BY <2>2
    <3>2. {ToSet(q[i]) : i \in 1 .. Len(q)} = {ToSet(p[i]) : i \in 1 .. Len(p)} \cup {ToSet(t)}
      BY <2>2, <3>1
    <3> QED
      BY <3>2
  <2>7. Holds(q)
    BY <2>3, <2>5, <2>6
  <2> QED
    BY <1>3, <2>7
<1> QED
  BY <1>5, <1>6

\* Vectors without a common or a repeated element have none together.
LEMMA ConcatInjective ==
    ASSUME NEW S, NEW a \in Seq(S), NEW t \in Seq(S),
           IsInjective(a), IsInjective(t), ToSet(a) \cap ToSet(t) = {}
    PROVE  IsInjective(a \o t)
<1> DEFINE b == a \o t
<1>1. /\ Len(a) \in Nat /\ Len(t) \in Nat /\ Len(b) = Len(a) + Len(t)
      /\ \A k \in 1 .. Len(a) + Len(t) :
            b[k] = IF k <= Len(a) THEN a[k] ELSE t[k - Len(a)]
  BY ConcatProperties, LenProperties
<1>2. b \in Seq(S)
  BY ConcatProperties
<1> HIDE DEF b
<1>3. /\ DOMAIN a = 1 .. Len(a) /\ DOMAIN t = 1 .. Len(t)
      /\ DOMAIN b = 1 .. Len(a) + Len(t)
  BY <1>1, <1>2, LenProperties
<1>4. \A k \in 1 .. Len(a), j \in 1 .. Len(t) : a[k] # t[j]
  <2>1. \A k \in 1 .. Len(a) : a[k] \in ToSet(a)
    BY ToSetIs
  <2>2. \A j \in 1 .. Len(t) : t[j] \in ToSet(t)
    BY ToSetIs
  <2> QED
    BY <2>1, <2>2
<1>5. ASSUME NEW k \in DOMAIN b, NEW j \in DOMAIN b, b[k] = b[j]
      PROVE  k = j
  <2>1. k \in 1 .. Len(a) \/ k - Len(a) \in 1 .. Len(t)
    BY <1>1, <1>3
  <2>2. j \in 1 .. Len(a) \/ j - Len(a) \in 1 .. Len(t)
    BY <1>1, <1>3
  <2>3. CASE k <= Len(a) /\ j <= Len(a)
    <3>1. k \in DOMAIN a /\ j \in DOMAIN a /\ a[k] = a[j]
      BY <1>1, <1>3, <1>5, <2>3
    <3> QED
      BY <3>1 DEF IsInjective
  <2>4. CASE ~ (k <= Len(a)) /\ ~ (j <= Len(a))
    <3>1. /\ k - Len(a) \in DOMAIN t /\ j - Len(a) \in DOMAIN t
          /\ t[k - Len(a)] = t[j - Len(a)]
      BY <1>1, <1>3, <1>5, <2>4
    <3>2. k - Len(a) = j - Len(a)
      BY <3>1 DEF IsInjective
    <3> QED
      BY <1>1, <1>3, <3>2
  <2>5. CASE k <= Len(a) /\ ~ (j <= Len(a))
    <3>1. k \in 1 .. Len(a) /\ j - Len(a) \in 1 .. Len(t) /\ a[k] = t[j - Len(a)]
      BY <1>1, <1>3, <1>5, <2>5
    <3> QED
      BY <1>4, <3>1
  <2>6. CASE ~ (k <= Len(a)) /\ j <= Len(a)
    <3>1. j \in 1 .. Len(a) /\ k - Len(a) \in 1 .. Len(t) /\ a[j] = t[k - Len(a)]
      BY <1>1, <1>3, <1>5, <2>6
    <3> QED
      BY <1>4, <3>1
  <2> QED
    BY <2>3, <2>4, <2>5, <2>6
<1> QED
  BY <1>5 DEF IsInjective, b

Disjoint(seqs) ==
    \A i, j \in 1 .. Len(seqs) : i # j => ToSet(seqs[i]) \cap ToSet(seqs[j]) = {}

LEMMA FlattenInjective ==
    ASSUME NEW S, NEW seqs \in Seq(Seq(S)),
           \A i \in 1 .. Len(seqs) : IsInjective(seqs[i]), Disjoint(seqs)
    PROVE  IsInjective(FlattenSeq(seqs))
<1> DEFINE T == Seq(S)
           Apart(q) == (\A i \in 1 .. Len(q) : IsInjective(q[i])) /\ Disjoint(q)
           Holds(q) == Apart(q) => IsInjective(FlattenSeq(q))
           Bad == {m \in Nat : \E q \in Seq(T) : Len(q) = m /\ ~ Holds(q)}
<1>0. seqs \in Seq(T) /\ Apart(seqs) /\ \A q \in Seq(T) : Len(q) \in Nat
  BY LenProperties
<1> SUFFICES Bad = {}
  <2> HIDE DEF T, Apart
  <2> QED
    BY <1>0
<1> SUFFICES ASSUME Bad # {} PROVE FALSE
  OBVIOUS
<1>2. PICK m \in Bad : \A y \in Bad : m =< y
  BY MinOfNaturals
<1>3. PICK q \in Seq(T) : Len(q) = m /\ ~ Holds(q)
  BY <1>2
<1>4. m \in Nat
  OBVIOUS
<1> HIDE DEF T
<1>5. CASE q = <<>>
  <2>1. IsInjective(FlattenSeq(q))
    BY <1>5, FlattenEmpty DEF IsInjective
  <2> QED
    BY <1>3, <2>1
<1>6. CASE q # <<>>
  <2>1. PICK p \in Seq(T), t \in T : q = Append(p, t)
    BY <1>3, <1>6, SequenceEmptyOrAppend
  <2>2. /\ Len(p) \in Nat /\ Len(q) = Len(p) + 1 /\ q[Len(p) + 1] = t
        /\ \A i \in 1 .. Len(p) : q[i] = p[i]
    BY <2>1, AppendProperties, LenProperties
  <2>3. Apart(q)
    BY <1>3
  <2>4. Apart(p) /\ IsInjective(t)
        /\ \A i \in 1 .. Len(p) : ToSet(p[i]) \cap ToSet(t) = {}
    <3>1. \A i \in 1 .. Len(p) : i \in 1 .. Len(q) /\ i # Len(p) + 1
      BY <2>2
    <3>2. Len(p) + 1 \in 1 .. Len(q)
      BY <2>2
    <3> QED
      BY <2>2, <2>3, <3>1, <3>2 DEF Disjoint
  <2>5. Holds(p)
    <3>1. Len(p) \in Nat /\ ~ (m <= Len(p))
      BY <1>3, <1>4, <2>2
    <3>2. Len(p) \notin Bad
      <4> HIDE DEF Bad
      <4> QED
        BY <1>2, <3>1
    <3> HIDE DEF Holds
    <3> QED
      BY <3>1, <3>2
  <2>6. FlattenSeq(q) = FlattenSeq(p) \o t
    BY <2>1, FlattenAppend DEF T
  <2>7. FlattenSeq(p) \in Seq(S)
        /\ ToSet(FlattenSeq(p)) = UNION {ToSet(p[i]) : i \in 1 .. Len(p)}
    BY <2>1, FlattenElements DEF T
  <2>8. ToSet(FlattenSeq(p)) \cap ToSet(t) = {}
    BY <2>4, <2>7
  <2>9. IsInjective(FlattenSeq(p) \o t)
    <3>1. t \in Seq(S) /\ IsInjective(FlattenSeq(p)) /\ IsInjective(t)
      BY <2>1, <2>4, <2>5 DEF T
    <3> QED
      BY <2>7, <2>8, <3>1, ConcatInjective
  <2> QED
    BY <1>3, <2>6, <2>9
<1> QED
  BY <1>5, <1>6
=============================================================================
