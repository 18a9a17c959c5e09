---------------------------- MODULE SelectionProofs ----------------------------
(***************************************************************************)
(* Facts about selections from sequences, and the two principles they rest *)
(* on: a set of numbers has a least element, and a set of sequences that   *)
(* has the empty one and is closed under Append has them all.  The latter  *)
(* is induction over sequences, stated of a set and not of an operator, so *)
(* that the provers can use it.                                            *)
(***************************************************************************)
EXTENDS Selection, Integers, SequencesExt, WellFoundedInduction,
        SequenceTheorems, TLAPS

-----------------------------------------------------------------------------
(* Induction *)

LEMMA LeastNumber ==
  ASSUME NEW T \in SUBSET Nat, T # {}
  PROVE  \E n \in T : \A m \in T : n <= m
<1>1. IsWellFoundedOn(OpToRel(<, Nat), Nat)
  BY NatLessThanWellFounded, Zenon
<1>2. PICK n \in T : \A m \in T : ~(<<m, n>> \in OpToRel(<, Nat))
  BY <1>1, WFMin
<1>3. \A m \in T : ~(m < n)
  BY <1>2 DEF OpToRel
<1> QED BY <1>3

LEMMA GreatestNumber ==
  ASSUME NEW T \in SUBSET Nat, T # {}, NEW b \in Nat, \A n \in T : n <= b
  PROVE  \E n \in T : \A m \in T : m <= n
<1> DEFINE D == {d \in Nat : b - d \in T}
<1>1. D # {}
  <2>1. PICK n \in T : TRUE
    OBVIOUS
  <2>2. b - n \in D
    BY <2>1
  <2> QED BY <2>2
<1>2. PICK d \in D : \A c \in D : d <= c
  BY <1>1, LeastNumber
<1>3. b - d \in T
  BY <1>2
<1>4. \A m \in T : m <= b - d
  <2> TAKE m \in T
  <2>1. b - m \in D
    OBVIOUS
  <2>2. d <= b - m
    BY <1>2, <2>1
  <2> QED BY <2>2
<1> QED BY <1>3, <1>4

\* Induction over sequences.
LEMMA AllSequences ==
  ASSUME NEW R, NEW T, <<>> \in T,
         \A s \in Seq(R), x \in R : s \in T => Append(s, x) \in T
  PROVE  \A s \in Seq(R) : s \in T
<1> SUFFICES ASSUME NEW q \in Seq(R), q \notin T PROVE FALSE
  OBVIOUS
<1> DEFINE L == {n \in Nat : \E s \in Seq(R) : s \notin T /\ Len(s) = n}
<1>1. Len(q) \in L
  BY LenProperties
<1>2. PICK n \in L : \A m \in L : n <= m
  BY <1>1, LeastNumber
<1>3. PICK s \in Seq(R) : s \notin T /\ Len(s) = n
  BY <1>2
<1>4. s # <<>>
  BY <1>3
<1>5. PICK front \in Seq(R), x \in R : s = Append(front, x)
  BY <1>4, SequenceEmptyOrAppend
<1>6. Len(front) = n - 1 /\ n - 1 \in Nat
  BY <1>3, <1>5, AppendProperties, LenProperties
<1>7. front \in T
  BY <1>2, <1>6
<1> QED BY <1>3, <1>5, <1>7

-----------------------------------------------------------------------------
(* The recursion that defines a selection *)

SelectsUpTo(f, s, S) ==
  f = [n \in 0..Len(s) |->
        IF n = 0 THEN <<>>
        ELSE IF s[n] \in S THEN Append(f[n - 1], s[n])
        ELSE f[n - 1]]

LEMMA SelectsUpToAt ==
  ASSUME NEW f, NEW s, NEW S, SelectsUpTo(f, s, S), NEW n \in 0..Len(s)
  PROVE  f[n] = IF n = 0 THEN <<>>
                ELSE IF s[n] \in S THEN Append(f[n - 1], s[n])
                ELSE f[n - 1]
<1> DEFINE e(k) == IF k = 0 THEN <<>>
                   ELSE IF s[k] \in S THEN Append(f[k - 1], s[k])
                   ELSE f[k - 1]
<1>1. f = [k \in 0..Len(s) |-> e(k)]
  BY DEF SelectsUpTo
<1> HIDE DEF e
<1>2. f[n] = e(n)
  BY <1>1
<1> QED BY <1>2 DEF e

LEMMA SelectsUpToUnique ==
  ASSUME NEW R, NEW s \in Seq(R), NEW S,
         NEW m \in 0..Len(s), NEW t \in Seq(R), Len(t) = m,
         \A i \in 1..m : t[i] = s[i],
         NEW f, SelectsUpTo(f, s, S), NEW g, SelectsUpTo(g, t, S)
  PROVE  \A n \in 0..m : f[n] = g[n]
<1> DEFINE D == {n \in 0..m : f[n] # g[n]}
<1> SUFFICES ASSUME D # {} PROVE FALSE
  OBVIOUS
<1>0. Len(s) \in Nat /\ m \in Nat
  BY LenProperties
<1>a. D \subseteq Nat
  BY <1>0
<1>1. PICK n \in D : \A k \in D : n <= k
  <2> HIDE DEF D
  <2> QED BY <1>a, LeastNumber
<1>2. n # 0
  BY <1>0, <1>1, SelectsUpToAt
<1>3. n - 1 \in 0..m /\ f[n - 1] = g[n - 1]
  BY <1>0, <1>1, <1>2
<1>4. f[n] = IF s[n] \in S THEN Append(f[n - 1], s[n]) ELSE f[n - 1]
  BY <1>0, <1>1, <1>2, SelectsUpToAt
<1>5. g[n] = IF t[n] \in S THEN Append(g[n - 1], t[n]) ELSE g[n - 1]
  BY <1>0, <1>1, <1>2, SelectsUpToAt
<1> QED BY <1>0, <1>1, <1>2, <1>3, <1>4, <1>5

LEMMA SelectsUpToExists ==
  ASSUME NEW R, NEW S
  PROVE  \A s \in Seq(R) : \E f : SelectsUpTo(f, s, S)
<1> DEFINE T == {s \in Seq(R) : \E f : SelectsUpTo(f, s, S)}
<1>1. <<>> \in T
  <2> DEFINE f == [n \in 0..0 |-> <<>>]
  <2>1. SelectsUpTo(f, <<>>, S)
    BY DEF SelectsUpTo
  <2> QED BY <2>1, EmptySeq
<1>2. ASSUME NEW s \in Seq(R), NEW x \in R, s \in T
      PROVE  Append(s, x) \in T
  <2>1. PICK f : SelectsUpTo(f, s, S)
    BY <1>2
  <2> DEFINE q == Append(s, x)
             g == [n \in 0..Len(q) |->
                     IF n <= Len(s) THEN f[n]
                     ELSE IF x \in S THEN Append(f[Len(s)], x) ELSE f[Len(s)]]
  <2>2. /\ q \in Seq(R) /\ Len(q) = Len(s) + 1 /\ Len(s) \in Nat
        /\ \A i \in 1..Len(s) : q[i] = s[i]
        /\ q[Len(s) + 1] = x
    BY AppendProperties, LenProperties
  <2> HIDE DEF q
  <2>3. \A n \in 0..Len(q) :
          g[n] = IF n = 0 THEN <<>>
                 ELSE IF q[n] \in S THEN Append(g[n - 1], q[n])
                 ELSE g[n - 1]
    <3> TAKE n \in 0..Len(q)
    <3>1. CASE n <= Len(s)
      <4>1. f[n] = IF n = 0 THEN <<>>
                   ELSE IF s[n] \in S THEN Append(f[n - 1], s[n])
                   ELSE f[n - 1]
        BY <2>1, <2>2, <3>1, SelectsUpToAt
      <4>2. n # 0 => n - 1 \in 0..Len(q) /\ n - 1 <= Len(s) /\ q[n] = s[n]
        BY <2>2, <3>1
      <4> QED BY <2>2, <3>1, <4>1, <4>2
    <3>2. CASE n = Len(s) + 1
      BY <2>2, <3>2
    <3> QED BY <2>2, <3>1, <3>2
  <2>4. SelectsUpTo(g, q, S)
    BY <2>3 DEF SelectsUpTo
  <2> QED BY <2>2, <2>4 DEF q
<1> HIDE DEF T
<1>3. \A s \in Seq(R) : s \in T
  BY <1>1, <1>2, AllSequences
<1> QED BY <1>3 DEF T

LEMMA SelectedUpTo ==
  ASSUME NEW R, NEW S, NEW s \in Seq(R)
  PROVE  \E f : SelectsUpTo(f, s, S) /\ Selected(s, S) = f[Len(s)]
<1> DEFINE f == CHOOSE g : SelectsUpTo(g, s, S)
<1>1. SelectsUpTo(f, s, S)
  BY SelectsUpToExists
<1>2. Selected(s, S) = f[Len(s)]
  BY DEF Selected, SelectsUpTo
<1> QED BY <1>1, <1>2

LEMMA SelectedEmpty ==
  ASSUME NEW S
  PROVE  Selected(<<>>, S) = <<>>
<1>1. <<>> \in Seq({}) /\ Len(<<>>) = 0
  BY EmptySeq
<1>2. PICK f : SelectsUpTo(f, <<>>, S) /\ Selected(<<>>, S) = f[0]
  BY <1>1, SelectedUpTo
<1> QED BY <1>1, <1>2, SelectsUpToAt

\* The equation of a selection.
LEMMA SelectedAppend ==
  ASSUME NEW R, NEW S, NEW s \in Seq(R), NEW x \in R
  PROVE  Selected(Append(s, x), S) =
           IF x \in S THEN Append(Selected(s, S), x) ELSE Selected(s, S)
<1> DEFINE q == Append(s, x)
<1>1. /\ q \in Seq(R) /\ Len(q) = Len(s) + 1 /\ Len(s) \in Nat
      /\ \A i \in 1..Len(s) : q[i] = s[i]
      /\ q[Len(s) + 1] = x
  BY AppendProperties, LenProperties
<1> HIDE DEF q
<1>2. PICK f : SelectsUpTo(f, q, S) /\ Selected(q, S) = f[Len(q)]
  BY <1>1, SelectedUpTo
<1>3. PICK g : SelectsUpTo(g, s, S) /\ Selected(s, S) = g[Len(s)]
  BY SelectedUpTo
<1>4. f[Len(s)] = g[Len(s)]
  <2>1. \A i \in 1..Len(s) : s[i] = q[i]
    BY <1>1
  <2>2. Len(s) \in 0..Len(q) /\ Len(s) \in 0..Len(s)
    BY <1>1
  <2>3. Len(s) \in 0..Len(q) /\ Len(s) = Len(s)
    BY <2>2
  <2>4. SelectsUpTo(f, q, S) /\ SelectsUpTo(g, s, S)
    BY <1>2, <1>3
  <2>5. \A n \in 0..Len(s) : f[n] = g[n]
    BY <1>1, <2>1, <2>3, <2>4, SelectsUpToUnique
  <2> QED BY <2>2, <2>5
<1>5. f[Len(q)] = IF q[Len(q)] \in S THEN Append(f[Len(s)], q[Len(q)])
                  ELSE f[Len(s)]
  <2>1. Len(q) \in 0..Len(q) /\ Len(q) # 0 /\ Len(q) - 1 = Len(s)
    BY <1>1
  <2> QED BY <1>2, <2>1, SelectsUpToAt
<1> QED BY <1>1, <1>2, <1>3, <1>4, <1>5 DEF q

-----------------------------------------------------------------------------
(* What a selection consists of *)

LEMMA SelectedType ==
  ASSUME NEW R, NEW S
  PROVE  \A s \in Seq(R) : Selected(s, S) \in Seq(R \cap S)
<1> DEFINE T == {s \in Seq(R) : Selected(s, S) \in Seq(R \cap S)}
<1>1. <<>> \in T
  BY EmptySeq, SelectedEmpty
<1>2. ASSUME NEW s \in Seq(R), NEW x \in R, s \in T
      PROVE  Append(s, x) \in T
  <2>1. Append(s, x) \in Seq(R)
    BY AppendProperties
  <2>2. CASE x \in S
    <3>1. x \in R \cap S
      BY <2>2
    <3>2. Append(Selected(s, S), x) \in Seq(R \cap S)
      BY <1>2, <3>1, AppendProperties
    <3> QED BY <2>1, <2>2, <3>2, SelectedAppend
  <2>3. CASE x \notin S
    BY <1>2, <2>1, <2>3, SelectedAppend
  <2> QED BY <2>2, <2>3
<1> HIDE DEF T
<1>3. \A s \in Seq(R) : s \in T
  BY <1>1, <1>2, AllSequences
<1> QED BY <1>3 DEF T

LEMMA SelectedIsSeq ==
  ASSUME NEW R, NEW S, NEW s \in Seq(R)
  PROVE  Selected(s, S) \in Seq(R)
<1>1. Selected(s, S) \in Seq(R \cap S)
  BY SelectedType
<1>2. R \cap S \subseteq R
  OBVIOUS
<1> QED BY <1>1, <1>2, SeqMonotonic

\* e gives the position in s of every element of its selection t.
Embeds(e, t, s, S) ==
  /\ e \in [1..Len(t) -> 1..Len(s)]
  /\ \A k \in 1..Len(t) : t[k] = s[e[k]] /\ s[e[k]] \in S
  /\ \A j, k \in 1..Len(t) : j < k => e[j] < e[k]
  /\ \A i \in 1..Len(s) : s[i] \in S => \E k \in 1..Len(t) : e[k] = i

LEMMA SelectionEmbeds ==
  ASSUME NEW R, NEW S
  PROVE  \A s \in Seq(R) : \E e : Embeds(e, Selected(s, S), s, S)
<1> DEFINE T == {s \in Seq(R) : \E e : Embeds(e, Selected(s, S), s, S)}
<1>1. <<>> \in T
  <2> DEFINE e == [k \in 1..0 |-> 1]
  <2>1. Embeds(e, <<>>, <<>>, S)
    BY DEF Embeds
  <2> QED BY <2>1, EmptySeq, SelectedEmpty
<1>2. ASSUME NEW s \in Seq(R), NEW x \in R, s \in T
      PROVE  Append(s, x) \in T
  <2> DEFINE q == Append(s, x)
             t == Selected(s, S)
             u == Selected(q, S)
  <2>1. /\ q \in Seq(R) /\ Len(q) = Len(s) + 1 /\ Len(s) \in Nat
        /\ \A i \in 1..Len(s) : q[i] = s[i]
        /\ q[Len(s) + 1] = x
    BY AppendProperties, LenProperties
  <2>2. t \in Seq(R) /\ Len(t) \in Nat
    <3>1. t \in Seq(R \cap S)
      BY SelectedType
    <3> HIDE DEF t
    <3> QED BY <3>1, SeqMonotonic, LenProperties
  <2>3. u = IF x \in S THEN Append(t, x) ELSE t
    BY SelectedAppend
  <2>4. PICK e : Embeds(e, t, s, S)
    BY <1>2
  <2> HIDE DEF q, t, u
  <2>5. CASE x \in S
    <3> DEFINE d == [k \in 1..(Len(t) + 1) |->
                       IF k <= Len(t) THEN e[k] ELSE Len(s) + 1]
    <3>1. /\ Len(u) = Len(t) + 1
          /\ \A k \in 1..Len(t) : u[k] = t[k]
          /\ u[Len(t) + 1] = x
      BY <2>2, <2>3, <2>5, AppendProperties
    <3>2. d \in [1..Len(u) -> 1..Len(q)]
      BY <2>1, <2>2, <2>4, <3>1 DEF Embeds
    <3>3. \A k \in 1..Len(u) : u[k] = q[d[k]] /\ q[d[k]] \in S
      <4> TAKE k \in 1..Len(u)
      <4>1. CASE k <= Len(t)
        <5>1. k \in 1..Len(t) /\ e[k] \in 1..Len(s) /\ d[k] = e[k]
          BY <2>2, <2>4, <3>1, <4>1 DEF Embeds
        <5>2. t[k] = s[e[k]] /\ s[e[k]] \in S
          BY <2>4, <5>1 DEF Embeds
        <5> QED BY <2>1, <3>1, <5>1, <5>2
      <4>2. CASE k = Len(t) + 1
        BY <2>1, <2>2, <2>5, <3>1, <4>2
      <4> QED BY <2>2, <3>1, <4>1, <4>2
    <3>4. ASSUME NEW j \in 1..Len(u), NEW k \in 1..Len(u), j < k
          PROVE  d[j] < d[k]
      <4>1. j \in 1..Len(t) /\ e[j] \in 1..Len(s) /\ d[j] = e[j]
        BY <2>2, <2>4, <3>1, <3>4 DEF Embeds
      <4>2. CASE k <= Len(t)
        <5>1. k \in 1..Len(t) /\ d[k] = e[k]
          BY <2>2, <3>1, <4>2
        <5>2. e[j] < e[k]
          BY <2>4, <3>4, <4>1, <5>1 DEF Embeds
        <5> HIDE DEF d
        <5> QED BY <4>1, <5>1, <5>2
      <4>3. CASE k = Len(t) + 1
        <5>1. d[k] = Len(s) + 1
          BY <2>2, <3>1, <4>3
        <5> HIDE DEF d
        <5> QED BY <2>1, <4>1, <5>1
      <4> QED BY <2>2, <3>1, <4>2, <4>3
    <3>5. \A i \in 1..Len(q) : q[i] \in S => \E k \in 1..Len(u) : d[k] = i
      <4> TAKE i \in 1..Len(q)
      <4> HAVE q[i] \in S
      <4>1. CASE i <= Len(s)
        <5>1. PICK k \in 1..Len(t) : e[k] = i
          BY <2>1, <2>4, <4>1 DEF Embeds
        <5> QED BY <2>2, <3>1, <5>1
      <4>2. CASE i = Len(s) + 1
        <5>1. Len(t) + 1 \in 1..Len(u) /\ d[Len(t) + 1] = i
          BY <2>2, <3>1, <4>2
        <5> QED BY <5>1
      <4>3. i <= Len(s) \/ i = Len(s) + 1
        BY <2>1
      <4> HIDE DEF d
      <4> QED BY <4>1, <4>2, <4>3
    <3> HIDE DEF d
    <3>6. Embeds(d, u, q, S)
      BY <3>2, <3>3, <3>4, <3>5 DEF Embeds
    <3> QED BY <2>1, <3>6 DEF q, u
  <2>6. CASE x \notin S
    <3>1. u = t
      BY <2>3, <2>6
    <3>2. e \in [1..Len(t) -> 1..Len(q)]
      BY <2>1, <2>4 DEF Embeds
    <3>3. \A k \in 1..Len(t) : t[k] = q[e[k]] /\ q[e[k]] \in S
      BY <2>1, <2>4 DEF Embeds
    <3>4. \A i \in 1..Len(q) : q[i] \in S => \E k \in 1..Len(t) : e[k] = i
      <4> TAKE i \in 1..Len(q)
      <4> HAVE q[i] \in S
      <4>1. i \in 1..Len(s)
        BY <2>1, <2>6
      <4> QED BY <2>1, <2>4, <4>1 DEF Embeds
    <3>5. \A j, k \in 1..Len(t) : j < k => e[j] < e[k]
      BY <2>4 DEF Embeds
    <3>6. Embeds(e, u, q, S)
      BY <3>1, <3>2, <3>3, <3>4, <3>5 DEF Embeds
    <3> QED BY <2>1, <3>6 DEF q, u
  <2> QED BY <2>5, <2>6
<1> HIDE DEF T
<1>3. \A s \in Seq(R) : s \in T
  BY <1>1, <1>2, AllSequences
<1> QED BY <1>3 DEF T

LEMMA SelectedElements ==
  ASSUME NEW R, NEW S, NEW s \in Seq(R)
  PROVE  ToSet(Selected(s, S)) = ToSet(s) \cap S
<1> DEFINE t == Selected(s, S)
<1>1. PICK e : Embeds(e, t, s, S)
  BY SelectionEmbeds
<1>2. /\ Len(t) \in Nat /\ DOMAIN t = 1..Len(t)
      /\ Len(s) \in Nat /\ DOMAIN s = 1..Len(s)
  BY SelectedType, LenProperties
<1> HIDE DEF t
<1>3. \A k \in 1..Len(t) : t[k] = s[e[k]] /\ e[k] \in 1..Len(s) /\ s[e[k]] \in S
  BY <1>1 DEF Embeds
<1>4. ASSUME NEW i \in 1..Len(s), s[i] \in S
      PROVE  \E k \in 1..Len(t) : t[k] = s[i]
  <2>1. PICK k \in 1..Len(t) : e[k] = i
    BY <1>1, <1>4 DEF Embeds
  <2> QED BY <1>3, <2>1
<1>5. ToSet(t) = ToSet(s) \cap S
  BY <1>2, <1>3, <1>4 DEF ToSet
<1> QED BY <1>5 DEF t

LEMMA SelectedInjective ==
  ASSUME NEW R, NEW S, NEW s \in Seq(R), IsInjective(s)
  PROVE  IsInjective(Selected(s, S))
<1> DEFINE t == Selected(s, S)
<1>1. PICK e : Embeds(e, t, s, S)
  BY SelectionEmbeds
<1>2. /\ Len(t) \in Nat /\ DOMAIN t = 1..Len(t)
      /\ Len(s) \in Nat /\ DOMAIN s = 1..Len(s)
  BY SelectedType, LenProperties
<1> HIDE DEF t
<1>3. ASSUME NEW j \in 1..Len(t), NEW k \in 1..Len(t), t[j] = t[k], j # k
      PROVE  FALSE
  <2>1. e[j] \in 1..Len(s) /\ e[k] \in 1..Len(s) /\ s[e[j]] = s[e[k]]
    BY <1>1, <1>3 DEF Embeds
  <2>2. e[j] = e[k]
    BY <1>2, <2>1 DEF IsInjective
  <2>3. j < k => e[j] < e[k]
    BY <1>1 DEF Embeds
  <2>4. k < j => e[k] < e[j]
    BY <1>1 DEF Embeds
  <2> QED BY <1>2, <1>3, <2>1, <2>2, <2>3, <2>4
<1>4. IsInjective(t)
  BY <1>2, <1>3 DEF IsInjective
<1> QED BY <1>4 DEF t
=============================================================================
