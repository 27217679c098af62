--------------------------- MODULE SequenceLemmas ---------------------------
(* What the operators on sequences that the model uses return, for the     *)
(* proofs to cite.  A sequence without duplicates is an injective one.     *)
EXTENDS Integers, SequencesExt, SequenceTheorems, FiniteSetTheorems,
        WellFoundedInduction, TLAPS

(* A set of indices has a least and a greatest member. *)
LEMMA IndexMinimum ==
  ASSUME NEW I \in SUBSET Nat, I # {}
  PROVE  \E x \in I : \A y \in I : x =< y
<1>1. PICK x \in I : \A y \in I : ~ (<<y, x>> \in OpToRel(<, Nat))
  BY NatLessThanWellFounded, WFMin
<1>2. \A y \in I : ~ (y < x) BY <1>1 DEF OpToRel
<1> QED BY <1>2

LEMMA IndexMaximum ==
  ASSUME NEW n \in Nat, NEW I \in SUBSET (1..n), I # {}
  PROVE  \E x \in I : \A y \in I : x >= y
<1> DEFINE J == {n - i : i \in I}
<1>1. J \in SUBSET Nat /\ J # {}
  <2>1. \A i \in I : i \in Int /\ 0 <= n - i OBVIOUS
  <2>2. \A i \in I : n - i \in Nat BY <2>1
  <2> QED BY <2>2
<1>2. PICK x \in J : \A y \in J : x =< y BY <1>1, IndexMinimum
<1>3. PICK i \in I : x = n - i BY <1>2
<1>4. ASSUME NEW y \in I PROVE i >= y
  <2>1. n - y \in J OBVIOUS
  <2> QED BY <1>2, <1>3, <2>1
<1> QED BY <1>4

(* Front() drops the last element. *)
LEMMA FrontLemma ==
  ASSUME NEW S, NEW s \in Seq(S), s # <<>>
  PROVE  /\ Front(s) \in Seq(S)
         /\ Len(Front(s)) = Len(s) - 1
         /\ \A i \in 1..Len(s) - 1 : Front(s)[i] = s[i]
         /\ Last(s) \in S
         /\ Len(s) \in Nat \ {0}
<1> DEFINE n == Len(s) - 1
           t == SubSeq(s, 1, n)
<1>1. Len(s) \in Nat \ {0} BY EmptySeq, LenProperties
<1>2. n \in Nat /\ \A i \in 1..n : s[i] \in S BY <1>1, ElementOfSeq
<1>3. s[Len(s)] \in S BY <1>1, ElementOfSeq
<1> HIDE DEF n
<1>4. /\ t \in Seq(S)
      /\ Len(t) = IF 1 <= n THEN n - 1 + 1 ELSE 0
      /\ \A i \in 1..n - 1 + 1 : t[i] = s[1 + i - 1]
  BY <1>2, SubSeqProperties
<1>5. Front(s) = t BY DEF Front, n
<1> HIDE DEF t
<1>6. Len(t) = n BY <1>2, <1>4
<1>7. \A i \in 1..n : t[i] = s[i] BY <1>2, <1>4
<1> QED BY <1>1, <1>3, <1>4, <1>5, <1>6, <1>7 DEF Last, n

(* The elements of a sequence, and those of a longer one. *)
LEMMA ToSetLemma ==
  ASSUME NEW S, NEW s \in Seq(S)
  PROVE  /\ ToSet(s) = {s[i] : i \in 1..Len(s)}
         /\ \A e : e \in ToSet(s) <=> Contains(s, e)
         /\ ToSet(s) \subseteq S
<1>1. DOMAIN s = 1..Len(s) BY LenProperties
<1>2. \A i \in 1..Len(s) : s[i] \in S BY ElementOfSeq
<1> QED BY <1>1, <1>2 DEF ToSet, Contains

LEMMA EmptyLemma == ToSet(<<>>) = {} /\ IsInjective(<<>>)
BY DEF ToSet, IsInjective

LEMMA SingletonLemma ==
  ASSUME NEW e
  PROVE  ToSet(<<e>>) = {e} /\ IsInjective(<<e>>)
BY DEF ToSet, IsInjective

LEMMA TripleLemma ==
  ASSUME NEW S, NEW s \in Seq(S), Len(s) = 3
  PROVE  SubSeq(s, 1, Len(s) - 1) = <<s[1], s[2]>>
<1>1. PICK x \in S, y \in S : x = s[1] /\ y = s[2] BY ElementOfSeq
<1> DEFINE t == SubSeq(s, 1, 2)
           u == <<x, y>>
<1>2. /\ t \in Seq(S) /\ Len(t) = 2 /\ \A i \in 1..2 : t[i] = s[i]
  <2>1. \A i \in 1..2 : s[i] \in S BY ElementOfSeq
  <2>2. /\ t \in Seq(S) /\ Len(t) = IF 1 <= 2 THEN 2 - 1 + 1 ELSE 0
        /\ \A i \in 1..2 - 1 + 1 : t[i] = s[1 + i - 1]
    BY <2>1, SubSeqProperties
  <2> HIDE DEF t
  <2> QED BY <2>2
<1>3. u \in Seq(S) /\ Len(u) = 2 /\ u[1] = s[1] /\ u[2] = s[2]
  <2>1. u \in Seq(S) /\ Len(u) = 2 /\ u[1] = x /\ u[2] = y OBVIOUS
  <2> HIDE DEF u
  <2> QED BY <1>1, <2>1
<1> HIDE DEF t, u
<1>4. \A i \in 1..2 : t[i] = u[i] BY <1>2, <1>3
<1>5. t = u BY <1>2, <1>3, <1>4, SeqEqual
<1>6. Len(s) - 1 = 2 OBVIOUS
<1> QED BY <1>1, <1>5, <1>6 DEF t, u

(* A sequence with one more element. *)
LEMMA ExtendLemma ==
  ASSUME NEW S, NEW s \in Seq(S), NEW e \in S, NEW t \in Seq(S),
         Len(t) = Len(s) + 1, \A i \in 1..Len(s) : t[i] = s[i],
         t[Len(s) + 1] = e
  PROVE  /\ ToSet(t) = ToSet(s) \cup {e}
         /\ IsInjective(s) /\ e \notin ToSet(s) => IsInjective(t)
<1>1. Len(s) \in Nat BY LenProperties
<1>2. ToSet(s) = {s[i] : i \in 1..Len(s)} BY ToSetLemma
<1>3. ToSet(t) = {t[i] : i \in 1..Len(t)} BY ToSetLemma
<1>4. DOMAIN s = 1..Len(s) /\ DOMAIN t = 1..Len(t) BY LenProperties
<1>5. 1..Len(t) = (1..Len(s)) \cup {Len(s) + 1} BY <1>1
<1>6. ToSet(t) = ToSet(s) \cup {e} BY <1>1, <1>2, <1>3, <1>5
<1>7. ASSUME IsInjective(s), e \notin ToSet(s)
      PROVE  IsInjective(t)
  <2>1. \A i \in 1..Len(s) : s[i] # e BY <1>2, <1>7
  <2>2. \A i, j \in 1..Len(s) : s[i] = s[j] => i = j
    BY <1>4, <1>7 DEF IsInjective
  <2>3. \A i, j \in 1..Len(t) : t[i] = t[j] => i = j
    BY <1>1, <1>5, <2>1, <2>2
  <2> QED BY <1>4, <2>3 DEF IsInjective
<1> QED BY <1>6, <1>7

(* The elements of a concatenation. *)
LEMMA ConcatLemma ==
  ASSUME NEW S, NEW s \in Seq(S), NEW t \in Seq(S)
  PROVE  /\ s \o t \in Seq(S)
         /\ ToSet(s \o t) = ToSet(s) \cup ToSet(t)
         /\ IsInjective(s) /\ IsInjective(t) /\ ToSet(s) \cap ToSet(t) = {}
               => IsInjective(s \o t)
<1> DEFINE u == s \o t
<1>1. /\ u \in Seq(S) /\ Len(u) = Len(s) + Len(t)
      /\ Len(s) \in Nat /\ Len(t) \in Nat
      /\ \A i \in 1..Len(s) + Len(t) :
            u[i] = IF i <= Len(s) THEN s[i] ELSE t[i - Len(s)]
  BY ConcatProperties, LenProperties
<1> HIDE DEF u
<1>2. /\ DOMAIN s = 1..Len(s) /\ DOMAIN t = 1..Len(t) /\ DOMAIN u = 1..Len(u)
  BY <1>1, LenProperties
<1>3. /\ ToSet(s) = {s[i] : i \in 1..Len(s)}
      /\ ToSet(t) = {t[i] : i \in 1..Len(t)}
      /\ ToSet(u) = {u[i] : i \in 1..Len(u)}
  BY <1>1, ToSetLemma
<1>4. ToSet(u) = ToSet(s) \cup ToSet(t)
  <2>1. ToSet(u) \subseteq ToSet(s) \cup ToSet(t)
    <3> SUFFICES ASSUME NEW i \in 1..Len(u)
                 PROVE  u[i] \in ToSet(s) \cup ToSet(t)
      BY <1>3
    <3>1. CASE i <= Len(s)
      <4>1. i \in 1..Len(s) /\ u[i] = s[i] BY <1>1, <3>1
      <4> QED BY <1>3, <4>1
    <3>2. CASE i > Len(s)
      <4>1. i - Len(s) \in 1..Len(t) /\ u[i] = t[i - Len(s)] BY <1>1, <3>2
      <4> QED BY <1>3, <4>1
    <3> QED BY <1>1, <3>1, <3>2
  <2>2. ASSUME NEW i \in 1..Len(s) PROVE s[i] \in ToSet(u)
    <3>1. i \in 1..Len(u) /\ u[i] = s[i] BY <1>1
    <3> QED BY <1>3, <3>1
  <2>3. ASSUME NEW i \in 1..Len(t) PROVE t[i] \in ToSet(u)
    <3>1. Len(s) + i \in 1..Len(u) /\ u[Len(s) + i] = t[i] BY <1>1
    <3> QED BY <1>3, <3>1
  <2> QED BY <1>3, <2>1, <2>2, <2>3
<1>5. ASSUME IsInjective(s), IsInjective(t), ToSet(s) \cap ToSet(t) = {}
      PROVE  IsInjective(u)
  <2>1. \A i, j \in 1..Len(s) : s[i] = s[j] => i = j
    BY <1>2, <1>5 DEF IsInjective
  <2>2. \A i, j \in 1..Len(t) : t[i] = t[j] => i = j
    BY <1>2, <1>5 DEF IsInjective
  <2>3. \A i \in 1..Len(s), j \in 1..Len(t) : s[i] # t[j] BY <1>3, <1>5
  <2>4. ASSUME NEW i \in 1..Len(u), NEW j \in 1..Len(u), u[i] = u[j]
        PROVE  i = j
    <3>1. CASE i <= Len(s) /\ j <= Len(s) BY <1>1, <2>1, <2>4, <3>1
    <3>2. CASE i > Len(s) /\ j > Len(s)
      <4>1. i - Len(s) \in 1..Len(t) /\ j - Len(s) \in 1..Len(t) BY <1>1, <3>2
      <4> QED BY <1>1, <2>2, <2>4, <3>2, <4>1
    <3>3. CASE i <= Len(s) /\ j > Len(s)
      <4>1. i \in 1..Len(s) /\ j - Len(s) \in 1..Len(t) BY <1>1, <3>3
      <4> QED BY SMTT(30), <1>1, <2>3, <2>4, <3>3, <4>1
    <3>4. CASE i > Len(s) /\ j <= Len(s)
      <4>1. j \in 1..Len(s) /\ i - Len(s) \in 1..Len(t) BY <1>1, <3>4
      <4>2. u[j] = s[j] /\ u[i] = t[i - Len(s)] BY <1>1, <3>4
      <4> QED BY <2>3, <2>4, <4>1, <4>2
    <3> QED BY <1>1, <3>1, <3>2, <3>3, <3>4
  <2> QED BY <1>2, <2>4 DEF IsInjective
<1> QED BY <1>1, <1>4, <1>5 DEF u

(* A sequence and its last element. *)
LEMMA BodyLemma ==
  ASSUME NEW S, NEW s \in Seq(S), NEW e \in S
  PROVE  /\ s \o <<e>> \in Seq(S)
         /\ Len(s \o <<e>>) = Len(s) + 1
         /\ SubSeq(s \o <<e>>, 1, Len(s \o <<e>>) - 1) = s
         /\ (s \o <<e>>)[Len(s \o <<e>>)] = e
         /\ \A i \in 1..Len(s) : (s \o <<e>>)[i] = s[i]
<1> DEFINE t == <<e>>
           u == s \o t
           n == Len(s)
<1>1. t \in Seq(S) /\ Len(t) = 1 /\ t[1] = e OBVIOUS
<1> HIDE DEF t
<1>2. /\ u \in Seq(S) /\ n \in Nat /\ Len(u) = n + 1
      /\ \A i \in 1..n + 1 : u[i] = IF i <= n THEN s[i] ELSE t[i - n]
  <2>1. /\ u \in Seq(S) /\ n \in Nat /\ Len(u) = Len(s) + Len(t)
        /\ \A i \in 1..Len(s) + Len(t) :
              u[i] = IF i <= Len(s) THEN s[i] ELSE t[i - Len(s)]
    BY <1>1, ConcatProperties, LenProperties
  <2> HIDE DEF u
  <2> QED BY <1>1, <2>1
<1> HIDE DEF u
<1>3. u[n + 1] = e /\ \A i \in 1..n : u[i] = s[i] BY <1>1, <1>2
<1> DEFINE v == SubSeq(u, 1, n)
<1>4. v \in Seq(S) /\ Len(v) = n /\ \A i \in 1..n : v[i] = u[i]
  <2>1. \A i \in 1..n : u[i] \in S BY <1>3, ElementOfSeq
  <2> HIDE DEF n
  <2>2. /\ v \in Seq(S) /\ Len(v) = IF 1 <= n THEN n - 1 + 1 ELSE 0
        /\ \A i \in 1..n - 1 + 1 : v[i] = u[1 + i - 1]
    BY <1>2, <2>1, SubSeqProperties
  <2> HIDE DEF v
  <2> QED BY <1>2, <2>2
<1>5. v = s
  <2> HIDE DEF v
  <2> QED BY <1>3, <1>4, SeqEqual
<1>6. Len(u) - 1 = n BY <1>2
<1> QED BY <1>2, <1>3, <1>5, <1>6 DEF t, u, v

(* A sequence without duplicates has as many elements as positions. *)
LEMMA InjectiveCardinality ==
  ASSUME NEW S, NEW s \in Seq(S), IsInjective(s)
  PROVE  Cardinality(ToSet(s)) = Len(s)
<1>1. /\ DOMAIN s = 1..Len(s) /\ Len(s) \in Nat
      /\ s \in [1..Len(s) -> S]
  BY LenProperties
<1>2. ToSet(s) = {s[i] : i \in 1..Len(s)} BY ToSetLemma
<1>3. s \in [1..Len(s) -> ToSet(s)] BY <1>1, <1>2
<1>4. s \in Injection(1..Len(s), ToSet(s))
  BY <1>1, <1>3 DEF Injection, IsInjective
<1>5. s \in Surjection(1..Len(s), ToSet(s))
  BY <1>2, <1>3 DEF Surjection
<1>6. ExistsBijection(1..Len(s), ToSet(s))
  BY <1>4, <1>5 DEF ExistsBijection, Bijection
<1> QED BY <1>1, <1>6, FS_CountingElements

(* Dropping the last element of a sequence without duplicates removes it. *)
LEMMA FrontInjective ==
  ASSUME NEW S, NEW s \in Seq(S), s # <<>>, IsInjective(s)
  PROVE  /\ IsInjective(Front(s))
         /\ ToSet(Front(s)) = ToSet(s) \ {Last(s)}
<1> DEFINE t == Front(s)
<1>1. /\ t \in Seq(S) /\ Len(t) = Len(s) - 1
      /\ \A i \in 1..Len(s) - 1 : t[i] = s[i]
      /\ Len(s) \in Nat \ {0}
  BY FrontLemma
<1>2. ToSet(s) = {s[i] : i \in 1..Len(s)} BY ToSetLemma
<1>3. ToSet(t) = {t[i] : i \in 1..Len(t)} BY <1>1, ToSetLemma
<1>4. DOMAIN s = 1..Len(s) /\ DOMAIN t = 1..Len(t) BY <1>1, LenProperties
<1> HIDE DEF t
<1>5. \A i, j \in 1..Len(s) : s[i] = s[j] => i = j BY <1>4 DEF IsInjective
<1>6. \A i, j \in 1..Len(t) : t[i] = t[j] => i = j BY <1>1, <1>5
<1>7. ToSet(t) = ToSet(s) \ {s[Len(s)]} BY <1>1, <1>2, <1>3, <1>5
<1> QED BY <1>4, <1>6, <1>7 DEF IsInjective, t, Last

LEMMA RemoveAtLemma ==
  ASSUME NEW S, NEW s \in Seq(S), NEW k \in 1..Len(s)
  PROVE  /\ RemoveAt(s, k) \in Seq(S)
         /\ Len(RemoveAt(s, k)) = Len(s) - 1
         /\ \A j \in 1..Len(s) - 1 :
               RemoveAt(s, k)[j] = IF j < k THEN s[j] ELSE s[j + 1]
<1> DEFINE p == SubSeq(s, 1, k - 1)
           q == SubSeq(s, k + 1, Len(s))
<1>1. Len(s) \in Nat /\ k \in Int BY LenProperties
<1>2. \A i \in 1..Len(s) : s[i] \in S BY ElementOfSeq
<1>3. p \in Seq(S) BY <1>1, <1>2, SubSeqProperties
<1>4. Len(p) = k - 1 BY <1>1, <1>2, SubSeqProperties
<1>5. \A j \in 1..k - 1 : p[j] = s[j]
  <2>1. \A j \in 1..(k - 1) - 1 + 1 : p[j] = s[1 + j - 1]
    BY <1>1, <1>2, SubSeqProperties
  <2> QED BY <1>1, <2>1
<1>6. q \in Seq(S) BY <1>1, <1>2, SubSeqProperties
<1>7. Len(q) = Len(s) - k BY <1>1, <1>2, SubSeqProperties
<1>8. \A j \in 1..Len(s) - k : q[j] = s[k + j]
  <2>1. \A j \in 1..Len(s) - (k + 1) + 1 : q[j] = s[(k + 1) + j - 1]
    BY <1>1, <1>2, SubSeqProperties
  <2> QED BY <1>1, <2>1
<1> HIDE DEF p, q
<1>9. p \o q \in Seq(S) BY <1>3, <1>6, ConcatProperties
<1>10. Len(p \o q) = Len(s) - 1
  BY <1>1, <1>3, <1>4, <1>6, <1>7, ConcatProperties
<1>11. ASSUME NEW j \in 1..Len(s) - 1
       PROVE  (p \o q)[j] = IF j < k THEN s[j] ELSE s[j + 1]
  <2>1. j \in 1..Len(p) + Len(q) BY <1>1, <1>4, <1>7
  <2>2. (p \o q)[j] = IF j <= Len(p) THEN p[j] ELSE q[j - Len(p)]
    BY <1>3, <1>6, <2>1, ConcatProperties
  <2> QED BY <1>1, <1>4, <1>5, <1>7, <1>8, <2>2
<1> QED BY <1>9, <1>10, <1>11 DEF RemoveAt, p, q

(* RemoveFirst() removes e from a sequence without duplicates. *)
LEMMA RemoveFirstLemma ==
  ASSUME NEW S, NEW s \in Seq(S), NEW e
  PROVE  /\ RemoveFirst(s, e) \in Seq(S)
         /\ IsInjective(s) => /\ IsInjective(RemoveFirst(s, e))
                              /\ ToSet(RemoveFirst(s, e)) = ToSet(s) \ {e}
<1>1. DOMAIN s = 1..Len(s) /\ Len(s) \in Nat BY LenProperties
<1>2. ToSet(s) = {s[i] : i \in 1..Len(s)} BY ToSetLemma
<1>3. CASE ~ \E i \in 1..Len(s) : s[i] = e
  <2>1. RemoveFirst(s, e) = s BY <1>3 DEF RemoveFirst
  <2> QED BY <1>2, <1>3, <2>1
<1>4. CASE \E i \in 1..Len(s) : s[i] = e
  <2> DEFINE I == {i \in 1..Len(s) : s[i] = e}
             k == CHOOSE x \in I : \A y \in I : x =< y
  <2>1. \E x \in I : \A y \in I : x =< y
    <3>1. I # {} /\ I \in SUBSET Nat BY <1>4
    <3> QED BY <3>1, IndexMinimum
  <2>2. k \in I BY <2>1
  <2>3. RemoveFirst(s, e) = RemoveAt(s, k)
    BY <1>4 DEF RemoveFirst, SelectInSeq, Min
  <2>4. k \in 1..Len(s) /\ s[k] = e BY <2>2
  <2> HIDE DEF k
  <2> DEFINE t == RemoveAt(s, k)
  <2>5. /\ t \in Seq(S) /\ Len(t) = Len(s) - 1
        /\ \A j \in 1..Len(s) - 1 : t[j] = IF j < k THEN s[j] ELSE s[j + 1]
    BY <2>4, RemoveAtLemma
  <2> HIDE DEF t
  <2>6. DOMAIN t = 1..Len(t) /\ ToSet(t) = {t[i] : i \in 1..Len(t)}
    BY <2>5, LenProperties, ToSetLemma
  <2>7. ASSUME IsInjective(s)
        PROVE  IsInjective(t) /\ ToSet(t) = ToSet(s) \ {e}
    <3>1. \A i, j \in 1..Len(s) : s[i] = s[j] => i = j
      BY <1>1, <2>7 DEF IsInjective
    <3>2. \A i, j \in 1..Len(t) : t[i] = t[j] => i = j
      BY <1>1, <2>4, <2>5, <3>1
    <3>3. ToSet(t) \subseteq ToSet(s) \ {e}
      BY <1>1, <1>2, <2>4, <2>5, <2>6, <3>1
    <3>4. ASSUME NEW x \in ToSet(s) \ {e} PROVE x \in ToSet(t)
      <4>1. PICK i \in 1..Len(s) : x = s[i] BY <1>2, <3>4
      <4>2. i # k BY <2>4, <3>4, <4>1
      <4>3. CASE i < k BY <1>1, <2>4, <2>5, <2>6, <4>1, <4>3
      <4>4. CASE i > k
        <5>1. i - 1 \in 1..Len(t) /\ t[i - 1] = s[i]
          BY <1>1, <2>4, <2>5, <4>4
        <5> QED BY <2>6, <4>1, <5>1
      <4> QED BY <1>1, <2>4, <4>2, <4>3, <4>4
    <3> QED BY <2>6, <3>2, <3>3, <3>4 DEF IsInjective
  <2> QED BY <2>3, <2>5, <2>7 DEF t
<1> QED BY <1>3, <1>4

(* A queue without its first element. *)
LEMMA TailLemma ==
  ASSUME NEW S, NEW s \in Seq(S), s # <<>>
  PROVE  /\ Head(s) \in S /\ Tail(s) \in Seq(S)
         /\ ToSet(s) = {Head(s)} \cup ToSet(Tail(s))
         /\ IsInjective(s) => /\ IsInjective(Tail(s))
                              /\ ToSet(Tail(s)) = ToSet(s) \ {Head(s)}
<1> DEFINE t == Tail(s)
           h == Head(s)
<1>1. /\ h \in S /\ t \in Seq(S) /\ Len(t) = Len(s) - 1
      /\ \A i \in 1..Len(t) : t[i] = s[i + 1]
      /\ h = s[1] /\ Len(s) \in Nat \ {0}
  BY HeadTailProperties, EmptySeq, LenProperties
<1>2. ToSet(s) = {s[i] : i \in 1..Len(s)} BY ToSetLemma
<1>3. ToSet(t) = {t[i] : i \in 1..Len(t)} BY <1>1, ToSetLemma
<1>4. DOMAIN s = 1..Len(s) /\ DOMAIN t = 1..Len(t) BY <1>1, LenProperties
<1> HIDE DEF h, t
<1>5. 1..Len(s) = {1} \cup {i + 1 : i \in 1..Len(t)}
  <2>1. \A i \in 1..Len(s) : i # 1 => i - 1 \in 1..Len(t) /\ i = (i - 1) + 1
    BY <1>1
  <2>2. \A i \in 1..Len(t) : i + 1 \in 1..Len(s) BY <1>1
  <2>3. 1 \in 1..Len(s) BY <1>1
  <2>4. 1..Len(s) \subseteq {1} \cup {i + 1 : i \in 1..Len(t)} BY <2>1
  <2> QED BY <2>2, <2>3, <2>4
<1>6. ToSet(s) = {h} \cup ToSet(t)
  <2>1. ToSet(s) \subseteq {h} \cup ToSet(t) BY <1>1, <1>2, <1>3, <1>5
  <2>2. \A i \in 1..Len(t) : i + 1 \in 1..Len(s) BY <1>1
  <2>3. ToSet(t) \subseteq ToSet(s)
    <3> SUFFICES ASSUME NEW i \in 1..Len(t) PROVE t[i] \in ToSet(s) BY <1>3
    <3> QED BY <1>1, <1>2, <2>2
  <2>4. h \in ToSet(s) BY <1>1, <1>2
  <2> QED BY <2>1, <2>3, <2>4
<1>7. ASSUME IsInjective(s) PROVE IsInjective(t) /\ h \notin ToSet(t)
  <2>1. \A i \in 1..Len(t) : i + 1 \in 1..Len(s) /\ i + 1 # 1 BY <1>1
  <2>2. 1 \in 1..Len(s) BY <1>1
  <2>3. h \notin ToSet(t)
    BY <1>1, <1>3, <1>4, <1>7, <2>1, <2>2 DEF IsInjective
  <2>4. ASSUME NEW a \in 1..Len(t), NEW b \in 1..Len(t), t[a] = t[b] PROVE a = b
    <3>1. s[a + 1] = s[b + 1] BY <1>1, <2>4
    <3>2. a + 1 = b + 1 BY <1>4, <1>7, <2>1, <3>1 DEF IsInjective
    <3> QED BY <3>2
  <2> QED BY <1>4, <2>3, <2>4 DEF IsInjective
<1> QED BY <1>1, <1>6, <1>7 DEF h, t

(* Append() to a queue *)
LEMMA AppendLemma ==
  ASSUME NEW S, NEW s \in Seq(S), NEW e \in S
  PROVE  /\ Append(s, e) \in Seq(S)
         /\ ToSet(Append(s, e)) = ToSet(s) \cup {e}
         /\ IsInjective(s) /\ e \notin ToSet(s) => IsInjective(Append(s, e))
<1>1. /\ Append(s, e) \in Seq(S) /\ Len(Append(s, e)) = Len(s) + 1
      /\ \A i \in 1..Len(s) : Append(s, e)[i] = s[i]
      /\ Append(s, e)[Len(s) + 1] = e
  BY AppendProperties
<1>2. PICK t \in Seq(S) : t = Append(s, e) BY <1>1
<1>3. /\ Len(t) = Len(s) + 1 /\ \A i \in 1..Len(s) : t[i] = s[i]
      /\ t[Len(s) + 1] = e
  BY <1>1, <1>2
<1>4. /\ ToSet(t) = ToSet(s) \cup {e}
      /\ IsInjective(s) /\ e \notin ToSet(s) => IsInjective(t)
  BY <1>3, ExtendLemma
<1> QED BY <1>2, <1>4

(* FlattenSeq() makes a sequence of the elements it finds. *)
LEMMA FlattenLemma ==
  ASSUME NEW S, NEW s \in Seq(Seq(S))
  PROVE  FlattenSeq(s) \in Seq(S)
<1> DEFINE Flat(n, f) == f = [i \in 1..n |-> IF i = 1 THEN s[i] ELSE f[i - 1] \o s[i]]
           Missing == {n \in Nat : n <= Len(s) /\ ~ \E f : Flat(n, f)}
<1>1. Len(s) \in Nat /\ \A i \in 1..Len(s) : s[i] \in Seq(S)
  BY LenProperties, ElementOfSeq
<1>2. Missing = {}
  <2> SUFFICES ASSUME Missing # {} PROVE FALSE OBVIOUS
  <2>1. Missing \in SUBSET Nat OBVIOUS
  <2> HIDE DEF Flat
  <2>2. PICK n \in Missing : \A m \in Missing : n =< m BY <2>1, IndexMinimum
  <2>3. n # 0
    <3>1. Flat(0, [i \in 1..0 |-> s]) BY DEF Flat
    <3> QED BY <2>2, <3>1
  <2>4. n - 1 \in Nat /\ n - 1 <= Len(s) /\ n \in Nat /\ n - 1 \notin Missing
    <3>1. n \in Nat /\ n <= Len(s) OBVIOUS
    <3>2. n - 1 \in Nat /\ n - 1 <= Len(s) /\ ~(n <= n - 1) BY <1>1, <2>3, <3>1
    <3> HIDE DEF Missing
    <3> QED BY <2>2, <3>1, <3>2
  <2>5. PICK f : Flat(n - 1, f) BY <2>4
  <2> DEFINE g == [i \in 1..n |-> IF i = 1 THEN s[i] ELSE f[i - 1] \o s[i]]
  <2>6. \A i \in 1..n - 1 : f[i] = g[i]
    <3>1. 1..n - 1 \subseteq 1..n BY <2>4
    <3>2. \A i \in 1..n - 1 : f[i] = IF i = 1 THEN s[i] ELSE f[i - 1] \o s[i]
      BY <2>5 DEF Flat
    <3> QED BY <3>1, <3>2
  <2>7. \A i \in 1..n : i # 1 => f[i - 1] = g[i - 1]
    <3>1. \A i \in 1..n : i # 1 => i - 1 \in 1..n - 1 BY <2>4
    <3> HIDE DEF g
    <3> QED BY <2>6, <3>1
  <2>8. g = [i \in 1..n |-> IF i = 1 THEN s[i] ELSE g[i - 1] \o s[i]]
    <3> DEFINE h(x) == [i \in 1..n |-> IF i = 1 THEN s[i] ELSE x[i - 1] \o s[i]]
    <3>1. g = h(f) OBVIOUS
    <3> HIDE DEF g
    <3>2. h(f) = h(g) BY <2>7
    <3> QED BY <3>1, <3>2
  <2>9. Flat(n, g) BY <2>8 DEF Flat
  <2> QED BY <2>2, <2>9
<1> DEFINE flat == CHOOSE f : Flat(Len(s), f)
<1>3. Flat(Len(s), flat)
  <2> HIDE DEF Flat
  <2>1. \E f : Flat(Len(s), f) BY <1>1, <1>2
  <2> QED BY <2>1
<1>4. \A i \in 1..Len(s) : flat[i] = IF i = 1 THEN s[i] ELSE flat[i - 1] \o s[i]
  <2> HIDE DEF flat
  <2> QED BY <1>3
<1> DEFINE Bad == {i \in 1..Len(s) : flat[i] \notin Seq(S)}
<1>5. Bad = {}
  <2> HIDE DEF flat
  <2> SUFFICES ASSUME Bad # {} PROVE FALSE OBVIOUS
  <2>1. Bad \in SUBSET Nat OBVIOUS
  <2>2. PICK i \in Bad : \A j \in Bad : i =< j BY <2>1, IndexMinimum
  <2>3. i # 1 BY <1>1, <1>4, <2>2
  <2>4. i - 1 \in 1..Len(s) /\ i - 1 \notin Bad BY <1>1, <2>2, <2>3
  <2>5. flat[i] = flat[i - 1] \o s[i] BY <1>4, <2>2, <2>3
  <2>6. flat[i - 1] \in Seq(S) /\ s[i] \in Seq(S) BY <1>1, <2>2, <2>4
  <2>7. flat[i] \in Seq(S) BY <2>5, <2>6, ConcatProperties
  <2> QED BY <2>2, <2>7
<1>6. Len(s) # 0 => FlattenSeq(s) = flat[Len(s)] BY DEF FlattenSeq
<1>7. Len(s) = 0 => FlattenSeq(s) = <<>>
  <2>1. Len(s) = 0 => s = <<>> BY EmptySeq
  <2> QED BY <2>1 DEF FlattenSeq
<1>8. Len(s) # 0 => flat[Len(s)] \in Seq(S)
  <2> HIDE DEF flat
  <2> QED BY <1>1, <1>5
<1> HIDE DEF flat
<1> QED BY <1>1, <1>6, <1>7, <1>8, EmptySeq
=============================================================================
