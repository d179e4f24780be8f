--------------------------- MODULE SequenceLemmas ---------------------------
(***************************************************************************)
(* What the queues and the stacks of the models' steps do to a sequence:   *)
(* an element is appended, the first or the last one is taken off.         *)
(***************************************************************************)
EXTENDS Integers, Sequences, SequenceTheorems, TLAPS

\* An event is queued, a call is entered.
LEMMA AppendOne ==
  ASSUME NEW S, NEW s \in Seq(S), NEW e \in S
  PROVE  /\ Append(s, e) \in Seq(S) /\ Len(Append(s, e)) = Len(s) + 1
         /\ Append(s, e) # <<>> /\ Len(s) \in Nat
         /\ \A i \in 1..Len(s) : Append(s, e)[i] = s[i]
         /\ Append(s, e)[Len(s) + 1] = e
OBVIOUS

\* The first event is taken off.
LEMMA TailOne ==
  ASSUME NEW S, NEW s \in Seq(S), s # <<>>
  PROVE  /\ Tail(s) \in Seq(S) /\ Len(Tail(s)) = Len(s) - 1
         /\ Len(s) \in Nat /\ Len(s) >= 1
         /\ \A i \in 1..(Len(s) - 1) : Tail(s)[i] = s[i + 1]
         /\ Head(s) = s[1] /\ Head(s) \in S
OBVIOUS

\* The innermost call returns.
LEMMA FrontOne ==
  ASSUME NEW S, NEW s \in Seq(S), s # <<>>
  PROVE  LET f == SubSeq(s, 1, Len(s) - 1)
         IN  /\ f \in Seq(S) /\ Len(f) = Len(s) - 1
             /\ Len(s) \in Nat /\ Len(s) >= 1
             /\ \A i \in 1..(Len(s) - 1) : f[i] = s[i]
             /\ s[Len(s)] \in S
<1> DEFINE n == Len(s) - 1
           f == SubSeq(s, 1, n)
<1>1. Len(s) \in Nat /\ Len(s) >= 1 /\ s[Len(s)] \in S
  OBVIOUS
<1>2. n \in Nat /\ n <= Len(s)
  BY <1>1
<1> HIDE DEF n
<1>3. Len(f) = n
  BY <1>2
<1>4. \A i \in 1..n : f[i] = s[i]
  BY <1>2
<1>5. f \in Seq(S)
  BY <1>2
<1> QED BY <1>1, <1>3, <1>4, <1>5 DEF n

\* Odd and even positions of a stack alternate.
LEMMA Parity ==
  ASSUME NEW n \in Nat
  PROVE  n % 2 \in {0, 1} /\ (n + 1) % 2 = 1 - (n % 2)
OBVIOUS

-----------------------------------------------------------------------------
(* The same by elements: t is what became of s.                            *)

Distinct(s) == \A i, j \in DOMAIN s : i # j => s[i] # s[j]

\* An element was appended.
LEMMA Appended ==
  ASSUME NEW S, NEW s \in Seq(S), NEW e \in S, NEW t, t = Append(s, e)
  PROVE  /\ t \in Seq(S) /\ t # <<>> /\ Len(s) \in Nat /\ Len(t) = Len(s) + 1
         /\ DOMAIN s = 1..Len(s) /\ DOMAIN t = 1..(Len(s) + 1)
         /\ \A i \in DOMAIN s : i \in DOMAIN t /\ i # Len(s) + 1 /\ t[i] = s[i]
         /\ \A i \in DOMAIN t : i = Len(s) + 1 \/ i \in DOMAIN s
         /\ t[Len(s) + 1] = e /\ Len(s) + 1 \in DOMAIN t
OBVIOUS

\* The last element was taken off.
LEMMA Popped ==
  ASSUME NEW S, NEW s \in Seq(S), s # <<>>, NEW t, t = SubSeq(s, 1, Len(s) - 1)
  PROVE  /\ t \in Seq(S) /\ Len(s) \in Nat /\ Len(s) >= 1 /\ Len(t) = Len(s) - 1
         /\ DOMAIN s = 1..Len(s) /\ DOMAIN t = 1..(Len(s) - 1) /\ Len(s) \in DOMAIN s
         /\ \A i \in DOMAIN t : i \in DOMAIN s /\ i # Len(s) /\ t[i] = s[i]
         /\ \A i \in DOMAIN s : i # Len(s) => i \in DOMAIN t
<1>1. /\ t \in Seq(S) /\ Len(s) \in Nat /\ Len(s) >= 1 /\ Len(t) = Len(s) - 1
      /\ \A i \in 1..(Len(s) - 1) : t[i] = s[i]
  BY FrontOne
<1>2. DOMAIN s = 1..Len(s) /\ DOMAIN t = 1..(Len(s) - 1)
  BY <1>1
<1> QED BY <1>1, <1>2

\* The first element was taken off.
LEMMA Shifted ==
  ASSUME NEW S, NEW s \in Seq(S), s # <<>>, NEW t, t = Tail(s)
  PROVE  /\ t \in Seq(S) /\ Head(s) = s[1] /\ 1 \in DOMAIN s /\ DOMAIN t \subseteq Nat
         /\ Len(s) \in Nat /\ Len(t) = Len(s) - 1
         /\ \A i \in DOMAIN t : i + 1 \in DOMAIN s /\ i + 1 # 1 /\ t[i] = s[i + 1]
         /\ \A i \in DOMAIN s : i # 1 => i - 1 \in DOMAIN t /\ t[i - 1] = s[i]
         /\ Distinct(s) => Distinct(t)
<1>1. /\ t \in Seq(S) /\ Len(t) = Len(s) - 1 /\ Head(s) = s[1]
      /\ Len(s) \in Nat /\ Len(s) >= 1 /\ \A i \in 1..(Len(s) - 1) : t[i] = s[i + 1]
  BY TailOne
<1>2. DOMAIN s = 1..Len(s) /\ DOMAIN t = 1..(Len(s) - 1)
  BY <1>1
<1>3. \A i \in DOMAIN t : i + 1 \in DOMAIN s /\ i + 1 # 1 /\ t[i] = s[i + 1] /\ i \in Nat
  BY <1>1, <1>2
<1>4. \A i \in DOMAIN s : i # 1 => i - 1 \in DOMAIN t /\ t[i - 1] = s[i]
  BY <1>1, <1>2
<1>5. ASSUME Distinct(s), NEW i \in DOMAIN t, NEW j \in DOMAIN t, i # j
      PROVE  t[i] # t[j]
  <2>1. i + 1 # j + 1
    BY <1>3, <1>5
  <2> QED BY <1>3, <1>5, <2>1 DEF Distinct
<1> QED BY <1>1, <1>2, <1>3, <1>4, <1>5 DEF Distinct

\* The elements before the k-th, and after it.
LEMMA Before ==
  ASSUME NEW S, NEW s \in Seq(S), NEW k \in 1..Len(s)
  PROVE  /\ SubSeq(s, 1, k - 1) \in Seq(S) /\ Len(SubSeq(s, 1, k - 1)) = k - 1
         /\ \A j \in 1..(k - 1) : SubSeq(s, 1, k - 1)[j] = s[j]
<1>1. k \in Int /\ k - 1 \in Int /\ 1 \in Int /\ \A i \in 1..(k - 1) : s[i] \in S
  OBVIOUS
<1> DEFINE m == k - 1
<1>2. /\ SubSeq(s, 1, m) \in Seq(S)
      /\ Len(SubSeq(s, 1, m)) = IF 1 <= m THEN m - 1 + 1 ELSE 0
      /\ \A j \in 1..(m - 1 + 1) : SubSeq(s, 1, m)[j] = s[1 + j - 1]
  BY <1>1, SubSeqProperties
<1>3. (IF 1 <= m THEN m - 1 + 1 ELSE 0) = m /\ m - 1 + 1 = m
  BY <1>1
<1>4. \A j \in 1..m : 1 + j - 1 = j
  BY <1>1
<1> QED BY <1>2, <1>3, <1>4, Zenon

LEMMA After ==
  ASSUME NEW S, NEW s \in Seq(S), NEW k \in 1..Len(s)
  PROVE  /\ SubSeq(s, k + 1, Len(s)) \in Seq(S) /\ Len(SubSeq(s, k + 1, Len(s))) = Len(s) - k
         /\ \A j \in 1..(Len(s) - k) : SubSeq(s, k + 1, Len(s))[j] = s[j + k]
<1> DEFINE n == Len(s)
           m == k + 1
<1>1. m \in Int /\ n \in Int /\ \A i \in m..n : s[i] \in S
  OBVIOUS
<1>2. /\ SubSeq(s, m, n) \in Seq(S)
      /\ Len(SubSeq(s, m, n)) = IF m <= n THEN n - m + 1 ELSE 0
      /\ \A j \in 1..(n - m + 1) : SubSeq(s, m, n)[j] = s[m + j - 1]
  BY <1>1, SubSeqProperties
<1>3. (IF m <= n THEN n - m + 1 ELSE 0) = n - k /\ n - m + 1 = n - k
  BY <1>1
<1>4. \A j \in 1..(n - k) : m + j - 1 = j + k
  BY <1>1
<1> QED BY <1>2, <1>3, <1>4, Zenon

\* t consists of a and, from the k-th element on, b.
Joins(t, a, b, k, n) ==
  \A j \in 1..(n - 1) : t[j] = IF j < k THEN a[j] ELSE b[j - (k - 1)]

\* The two put together.
LEMMA Joined ==
  ASSUME NEW S, NEW a \in Seq(S), NEW b \in Seq(S), NEW n \in Nat, NEW k \in 1..n,
         Len(a) = k - 1, Len(b) = n - k
  PROVE  /\ a \o b \in Seq(S) /\ Len(a \o b) = n - 1 /\ DOMAIN (a \o b) = 1..(n - 1)
         /\ Joins(a \o b, a, b, k, n)
<1>1. /\ a \o b \in Seq(S) /\ Len(a \o b) = Len(a) + Len(b)
      /\ \A j \in 1..(Len(a) + Len(b)) :
           (a \o b)[j] = IF j <= Len(a) THEN a[j] ELSE b[j - Len(a)]
  BY ConcatProperties, Zenon
<1>2. Len(a) + Len(b) = n - 1 /\ \A j \in 1..(n - 1) : j <= Len(a) <=> j < k
  OBVIOUS
<1>3. DOMAIN (a \o b) = 1..(n - 1)
  BY <1>1, <1>2
<1>4. ASSUME NEW j \in 1..(n - 1)
      PROVE  (a \o b)[j] = IF j < k THEN a[j] ELSE b[j - (k - 1)]
  BY <1>1, <1>2, Zenon
<1> QED BY <1>1, <1>2, <1>3, <1>4, Zenon DEF Joins

\* t is s without the k-th element.
Skips(t, s, k, n) ==
  \A j \in 1..(n - 1) : t[j] = s[IF j < k THEN j ELSE j + 1]

\* ... which leaves the others, each as often as before.
OneLess(t, s, k) ==
  /\ \A j \in DOMAIN t : \E i \in DOMAIN s : i # k /\ t[j] = s[i]
  /\ \A i \in DOMAIN s : i # k => \E j \in DOMAIN t : t[j] = s[i]
  /\ Distinct(s) => Distinct(t)

LEMMA TakenOut ==
  ASSUME NEW n \in Nat, NEW k \in 1..n, NEW s, NEW t, Skips(t, s, k, n),
         DOMAIN s = 1..n, DOMAIN t = 1..(n - 1)
  PROVE  OneLess(t, s, k)
<1>1. ASSUME NEW j \in 1..(n - 1)  PROVE \E i \in 1..n : i # k /\ t[j] = s[i]
  BY DEF Skips
<1>2. ASSUME NEW i \in 1..n, i # k  PROVE \E j \in 1..(n - 1) : t[j] = s[i]
  <2>1. CASE i < k
    <3>1. i \in 1..(n - 1)
      BY <2>1
    <3> QED BY <2>1, <3>1 DEF Skips
  <2>2. CASE i > k
    <3>1. i - 1 \in 1..(n - 1) /\ ~(i - 1 < k) /\ i = (i - 1) + 1
      BY <2>2
    <3> QED BY <3>1 DEF Skips
  <2> QED BY <1>2, <2>1, <2>2
<1>3. ASSUME \A i, j \in 1..n : i # j => s[i] # s[j],
             NEW i \in 1..(n - 1), NEW j \in 1..(n - 1), i # j
      PROVE  t[i] # t[j]
  BY <1>3 DEF Skips
<1> QED BY <1>1, <1>2, <1>3 DEF OneLess, Distinct

\* An element was taken out.
LEMMA Removed ==
  ASSUME NEW S, NEW s \in Seq(S), NEW k \in DOMAIN s
  PROVE  LET t == SubSeq(s, 1, k - 1) \o SubSeq(s, k + 1, Len(s))
         IN  /\ t \in Seq(S) /\ Len(t) = Len(s) - 1
             /\ OneLess(t, s, k)
<1> DEFINE n == Len(s)
           a == SubSeq(s, 1, k - 1)
           b == SubSeq(s, k + 1, Len(s))
           t == a \o b
<1>1. n \in Nat /\ k \in 1..n /\ DOMAIN s = 1..n
  OBVIOUS
<1>2. a \in Seq(S) /\ Len(a) = k - 1 /\ \A j \in 1..(k - 1) : a[j] = s[j]
  BY <1>1, Before, Zenon
<1>3. b \in Seq(S) /\ Len(b) = n - k /\ \A j \in 1..(n - k) : b[j] = s[j + k]
  BY <1>1, After, Zenon
<1> HIDE DEF n, a, b
<1>4. /\ t \in Seq(S) /\ Len(t) = n - 1 /\ DOMAIN t = 1..(n - 1)
      /\ Joins(t, a, b, k, n)
  BY <1>1, <1>2, <1>3, Joined, Zenon
<1> HIDE DEF t
<1>5. Skips(t, s, k, n)
  <2>1. ASSUME NEW j \in 1..(n - 1), j < k  PROVE t[j] = s[j]
    <3>1. j \in 1..(k - 1)
      BY <1>1, <2>1
    <3> QED BY <1>2, <1>4, <2>1, <3>1, Zenon DEF Joins
  <2>2. ASSUME NEW j \in 1..(n - 1), ~(j < k)  PROVE t[j] = s[j + 1]
    <3>1. j - (k - 1) \in 1..(n - k) /\ j - (k - 1) + k = j + 1
      BY <1>1, <2>2
    <3> QED BY <1>3, <1>4, <2>2, <3>1, Zenon DEF Joins
  <2> QED BY <2>1, <2>2 DEF Skips
<1>6. OneLess(t, s, k)
  BY <1>1, <1>4, <1>5, TakenOut, Zenon
<1> QED BY <1>1, <1>4, <1>6, Zenon DEF n, t, a, b

-----------------------------------------------------------------------------
(* A queue behind what was already taken from it.                          *)

\* Nothing changes when the first of the queue is taken.
LEMMA Handed ==
  ASSUME NEW S, NEW s \in Seq(S), NEW q \in Seq(S), q # <<>>
  PROVE  /\ Append(s, Head(q)) \o Tail(q) = s \o q
         /\ q = <<Head(q)>> \o Tail(q) /\ Head(q) \in S /\ Tail(q) \in Seq(S)
<1> DEFINE h == Head(q)
           t == Tail(q)
<1>1. h \in S /\ t \in Seq(S) /\ <<h>> \in Seq(S)
  BY HeadTailProperties
<1>2. q = <<h>> \o t
  <2>1. 1 \in 1..Len(q) /\ Len(q) \in 1..Len(q) /\ h = q[1]
    OBVIOUS
  <2>2. SubSeq(q, 1, Len(q)) = <<q[1]>> \o SubSeq(q, 1 + 1, Len(q))
    BY <2>1, SubSeqRecursiveFirst
  <2>3. SubSeq(q, 1, Len(q)) = q /\ t = SubSeq(q, 2, Len(q))
    BY SubSeqFull, TailIsSubSeq
  <2> QED BY <2>1, <2>2, <2>3
<1> HIDE DEF h, t
<1>3. Append(s, h) = s \o <<h>>
  BY <1>1, AppendIsConcat
<1>4. (s \o <<h>>) \o t = s \o (<<h>> \o t)
  BY <1>1, ConcatAssociative
<1> QED BY <1>1, <1>2, <1>3, <1>4 DEF h, t

\* ... or put back.
LEMMA PutBack ==
  ASSUME NEW S, NEW s \in Seq(S), NEW q \in Seq(S), q # <<>>, s # <<>>, s[Len(s)] = Head(q)
  PROVE  SubSeq(s, 1, Len(s) - 1) \o q = s \o Tail(q)
<1> DEFINE f == SubSeq(s, 1, Len(s) - 1)
<1>1. /\ f \in Seq(S) /\ Len(f) = Len(s) - 1 /\ Len(s) \in Nat
      /\ \A i \in 1..(Len(s) - 1) : f[i] = s[i]
  BY FrontOne
<1> HIDE DEF f
<1>2. Head(q) \in S
  BY Handed
<1> DEFINE h == Head(q)
           a == Append(f, h)
<1> HIDE DEF h
<1>3. /\ a \in Seq(S) /\ Len(a) = Len(f) + 1 /\ a[Len(f) + 1] = h
      /\ \A i \in 1..Len(f) : a[i] = f[i]
  BY <1>1, <1>2, AppendProperties DEF h
<1> HIDE DEF a
<1>4. a = s
  <2>1. Len(a) = Len(s)
    BY <1>1, <1>3
  <2>2. ASSUME NEW i \in 1..Len(a)  PROVE a[i] = s[i]
    <3>1. CASE i = Len(s)
      BY <1>1, <1>3, <3>1 DEF h
    <3>2. CASE i # Len(s)
      <4>1. i \in 1..(Len(s) - 1)
        BY <1>1, <2>1, <3>2
      <4> QED BY <1>1, <1>3, <4>1
    <3> QED BY <3>1, <3>2
  <2> QED BY <1>3, <2>1, <2>2, SeqEqual
<1>5. Append(f, Head(q)) \o Tail(q) = f \o q
  BY <1>1, Handed
<1> QED BY <1>4, <1>5 DEF a, h, f

\* What is added to the queue comes last.
LEMMA AddedLast ==
  ASSUME NEW S, NEW s \in Seq(S), NEW q \in Seq(S), NEW e \in S
  PROVE  s \o Append(q, e) = Append(s \o q, e)
<1>1. Append(q, e) = q \o <<e>> /\ <<e>> \in Seq(S) /\ s \o q \in Seq(S)
  BY AppendIsConcat, ConcatProperties
<1>2. Append(s \o q, e) = (s \o q) \o <<e>>
  BY <1>1, AppendIsConcat
<1> QED BY <1>1, <1>2, ConcatAssociative

=============================================================================
