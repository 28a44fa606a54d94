----------------------------- MODULE QueueProofs -----------------------------
(***************************************************************************)
(* Lemmas about sequences, about natural numbers and about the bounded     *)
(* queues of ByteQueue, for the proofs about the rings that implement      *)
(* them, about the gateway that is built of them and about the selector.   *)
(***************************************************************************)
EXTENDS ByteQueue, Integers, SequenceTheorems, WellFoundedInduction, TLAPS

(* Two sequences with the same elements are the same.                      *)
LEMMA SameSeq ==
  ASSUME NEW S, NEW a \in Seq(S), NEW b \in Seq(S), Len(a) = Len(b),
         \A i \in 1 .. Len(a) : a[i] = b[i]
  PROVE  a = b
BY SeqEqual

(* A sequence that continues another one.                                  *)
LEMMA Joined ==
  ASSUME NEW S, NEW a \in Seq(S), NEW b \in Seq(S), NEW c \in Seq(S),
         Len(c) = Len(a) + Len(b),
         \A i \in 1 .. Len(a) : c[i] = a[i],
         \A i \in Len(a) + 1 .. Len(a) + Len(b) : c[i] = b[i - Len(a)]
  PROVE  c = a \o b
<1> DEFINE d == a \o b
<1>1. d \in Seq(S) /\ Len(d) = Len(a) + Len(b)
  BY ConcatProperties
<1>2. \A i \in 1 .. Len(a) + Len(b) : d[i] = IF i <= Len(a) THEN a[i] ELSE b[i - Len(a)]
  BY ConcatProperties
<1> HIDE DEF d
<1>3. Len(a) \in Nat /\ Len(b) \in Nat
  OBVIOUS
<1>4. ASSUME NEW i \in 1 .. Len(c) PROVE c[i] = d[i]
  <2>1. CASE i <= Len(a)
    BY <1>2, <1>3, <2>1
  <2>2. CASE i > Len(a)
    BY <1>2, <1>3, <2>2
  <2> QED BY <1>3, <2>1, <2>2
<1> QED BY <1>1, <1>4, SameSeq DEF d

(* The smaller of two numbers is one of them.                              *)
LEMMA LesserOK ==
  ASSUME NEW m \in Nat, NEW n \in Nat
  PROVE  /\ Lesser(m, n) \in Nat /\ Lesser(m, n) <= m /\ Lesser(m, n) <= n
         /\ Lesser(m, n) \in {m, n}
BY DEF Lesser

(* First takes elements from the front, Rest gives those it leaves.        *)
LEMMA FirstOK ==
  ASSUME NEW S, NEW q \in Seq(S), NEW n \in Nat
  PROVE  /\ First(q, n) \in Seq(S) /\ Len(First(q, n)) = Lesser(n, Len(q))
         /\ \A i \in 1 .. Lesser(n, Len(q)) : First(q, n)[i] = q[i]
BY DEF First, Lesser

(* Rest starts after the elements that First takes.                        *)
LEMMA RestOK ==
  ASSUME NEW S, NEW q \in Seq(S), NEW n \in Nat
  PROVE  /\ Rest(q, n) \in Seq(S) /\ Len(Rest(q, n)) = Len(q) - Lesser(n, Len(q))
         /\ \A i \in 1 .. Len(q) - Lesser(n, Len(q)) : Rest(q, n)[i] = q[Lesser(n, Len(q)) + i]
<1> DEFINE m == Lesser(n, Len(q))
<1>1. m \in Nat /\ m <= Len(q) /\ Len(q) \in Nat
  BY DEF Lesser
<1>2. Rest(q, n) = SubSeq(q, m + 1, Len(q))
  BY DEF Rest
<1> HIDE DEF m
<1>3. \A i \in m + 1 .. Len(q) : q[i] \in S
  BY <1>1
<1>4. /\ SubSeq(q, m + 1, Len(q)) \in Seq(S)
      /\ Len(SubSeq(q, m + 1, Len(q))) = Len(q) - m
      /\ \A i \in 1 .. Len(q) - m : SubSeq(q, m + 1, Len(q))[i] = q[m + i]
  BY <1>1, <1>3
<1> QED BY <1>2, <1>4 DEF m

(* Nothing is left when all is taken.                                      *)
LEMMA RestOfAll ==
  ASSUME NEW S, NEW q \in Seq(S)
  PROVE  Rest(q, Len(q)) = <<>>
<1>1. Len(q) \in Nat /\ Lesser(Len(q), Len(q)) = Len(q)
  BY DEF Lesser
<1>2. Rest(q, Len(q)) \in Seq(S) /\ Len(Rest(q, Len(q))) = 0
  BY <1>1, RestOK
<1> QED BY <1>2

(* A queue never takes more than it has room for, and what it holds stays. *)
LEMMA AddedOK ==
  ASSUME NEW S, NEW q \in Seq(S), NEW s \in Seq(S), NEW cap \in Nat, Len(q) <= cap
  PROVE  /\ Fitting(q, cap, s) \in Nat /\ Fitting(q, cap, s) <= Len(s)
         /\ Added(q, cap, s) \in Seq(S)
         /\ Len(Added(q, cap, s)) = Len(q) + Fitting(q, cap, s)
         /\ Len(Added(q, cap, s)) <= cap
         /\ Added(q, cap, s) = q \o First(s, Fitting(q, cap, s))
<1> DEFINE n == Fitting(q, cap, s)
<1>1. n \in Nat /\ n <= Len(s) /\ Len(q) + n <= cap
  BY DEF Fitting, Lesser
<1>2. Added(q, cap, s) = q \o First(s, n)
  BY <1>1 DEF Added, First, Lesser
<1> HIDE DEF n
<1>3. First(s, n) \in Seq(S) /\ Len(First(s, n)) = n
  BY <1>1, FirstOK DEF Lesser
<1>4. /\ q \o First(s, n) \in Seq(S)
      /\ Len(q \o First(s, n)) = Len(q) + n
  BY <1>1, <1>3
<1> QED BY <1>1, <1>2, <1>4 DEF n

(* What is taken from the front and what it leaves.                        *)
LEMMA FirstRest ==
  ASSUME NEW S, NEW q \in Seq(S), NEW n \in Nat
  PROVE  q = First(q, n) \o Rest(q, n)
<1> DEFINE m == Lesser(n, Len(q))
           a == First(q, n)
           b == Rest(q, n)
<1>1. m \in Nat /\ m <= Len(q)
  BY DEF Lesser
<1>2. a \in Seq(S) /\ Len(a) = m /\ \A i \in 1 .. m : a[i] = q[i]
  BY FirstOK
<1>3. /\ b \in Seq(S) /\ Len(b) = Len(q) - m
      /\ \A i \in 1 .. Len(q) - m : b[i] = q[m + i]
  BY RestOK
<1> HIDE DEF m, a, b
<1>4. \A i \in m + 1 .. Len(q) : q[i] = b[i - m]
  <2> SUFFICES ASSUME NEW i \in m + 1 .. Len(q) PROVE q[i] = b[i - m]
    OBVIOUS
  <2>1. i - m \in 1 .. Len(q) - m /\ m + (i - m) = i
    BY <1>1
  <2> QED BY <1>3, <2>1
<1>5. /\ Len(q) = Len(a) + Len(b)
      /\ \A i \in 1 .. Len(a) : q[i] = a[i]
      /\ \A i \in Len(a) + 1 .. Len(a) + Len(b) : q[i] = b[i - Len(a)]
  BY <1>1, <1>2, <1>3, <1>4
<1>6. q = a \o b
  BY <1>2, <1>3, <1>5, Joined
<1> QED BY <1>6 DEF a, b

(* A set of numbers has a least one.                                       *)
LEMMA LeastNumber ==
  ASSUME NEW T \in SUBSET Nat, T /= {}
  PROVE  \E x \in T : \A y \in T : x <= y
<1> DEFINE Less == {ss \in Nat \X Nat : ss[1] < ss[2]}
<1>1. IsWellFoundedOn(Less, Nat)
  BY NatLessThanWellFounded DEF OpToRel
<1>2. \A u, v \in Nat : u < v => <<u, v>> \in Less
  OBVIOUS
<1> HIDE DEF Less
<1>3. PICK x \in T : \A y \in T : ~(<<y, x>> \in Less)
  BY <1>1, WFMin
<1>4. ASSUME NEW y \in T PROVE x <= y
  <2>1. x \in Nat /\ y \in Nat
    OBVIOUS
  <2>2. ~(y < x)
    BY <1>2, <1>3, <2>1
  <2> QED BY <2>1, <2>2
<1> QED BY <1>4

(* A number below d that is a multiple of d is 0.                         *)
LEMMA NoRemainder ==
  ASSUME NEW d \in Nat \ {0}, NEW p \in Int, NEW r \in 0 .. d - 1, d * p + r = 0
  PROVE  r = 0
<1>1. CASE p >= 1
  <2>1. d * p >= d
    BY <1>1
  <2> QED BY <2>1
<1>2. CASE p <= -1
  <2>1. d * p <= -d
    BY <1>2
  <2> QED BY <2>1
<1> QED BY <1>1, <1>2

(* Quotient and remainder.                                                 *)
LEMMA Remainder ==
  ASSUME NEW d \in Nat \ {0}, NEW a \in Nat
  PROVE  a \div d \in Nat /\ a % d \in 0 .. d - 1 /\ a = d * (a \div d) + (a % d)
OBVIOUS

(* What d divides: its multiples, and the number d above one of them.      *)
LEMMA Multiples ==
  ASSUME NEW d \in Nat \ {0}, NEW k \in Nat
  PROVE  (d * k) % d = 0
<1> DEFINE a == d * k
           q == a \div d
           r == a % d
<1>1. a \in Nat
  OBVIOUS
<1>2. q \in Nat /\ r \in 0 .. d - 1 /\ a = d * q + r
  BY <1>1, Remainder
<1>3. d * (q - k) + r = 0
  <2> HIDE DEF q, r
  <2>1. d * q + r - d * k = 0
    BY <1>2
  <2> QED BY <1>2, <2>1
<1>4. q - k \in Int
  BY <1>2
<1> HIDE DEF a, q, r
<1>5. r = 0
  BY <1>2, <1>3, <1>4, NoRemainder
<1> QED BY <1>5 DEF r, a

(* The next multiple.                                                      *)
LEMMA NextMultiple ==
  ASSUME NEW d \in Nat \ {0}, NEW a \in Nat, a % d = 0
  PROVE  (a + d) % d = 0
<1> DEFINE q == a \div d
<1>1. q \in Nat /\ a = d * q
  BY Remainder
<1> HIDE DEF q
<1>2. a + d = d * (q + 1) /\ q + 1 \in Nat
  BY <1>1
<1> QED BY <1>2, Multiples

(* The number above a multiple of d leaves what 1 leaves.                  *)
LEMMA AboveMultiple ==
  ASSUME NEW d \in Nat \ {0}, NEW a \in Nat, a % d = 0
  PROVE  (a + 1) % d = 1 % d
<1> DEFINE q == a \div d
           b == a + 1
           p == b \div d
           r == b % d
<1>1. q \in Nat /\ a = d * q
  BY Remainder
<1>2. b \in Nat /\ p \in Nat /\ r \in 0 .. d - 1 /\ b = d * p + r
  <2>1. b \in Nat
    OBVIOUS
  <2> HIDE DEF b
  <2> QED BY <2>1, Remainder
<1>3. b = a + 1
  OBVIOUS
<1>4. 1 % d = IF d = 1 THEN 0 ELSE 1
  OBVIOUS
<1> HIDE DEF q, b, p, r
<1>5. d * (p - q) + r = 1
  BY <1>1, <1>2, <1>3
<1>6. CASE d = 1
  BY <1>2, <1>4, <1>6 DEF r, b
<1>7. CASE d > 1 /\ r >= 1
  <2> DEFINE x == p - q
             y == r - 1
  <2>1. x \in Int /\ y \in 0 .. d - 1
    BY <1>1, <1>2, <1>7
  <2>2. d * x + y = 0
    BY <1>1, <1>2, <1>5, <1>7
  <2> HIDE DEF x, y
  <2>3. y = 0
    BY <2>1, <2>2, NoRemainder
  <2>4. r = 1
    BY <1>2, <2>3 DEF y
  <2> QED BY <1>4, <1>7, <2>4 DEF r, b
<1>8. CASE d > 1 /\ r = 0
  <2> DEFINE x == p - q
  <2>1. x \in Int /\ d * x = 1
    BY <1>1, <1>2, <1>5, <1>8
  <2> HIDE DEF x
  <2>2. CASE x >= 1
    <3>1. d * x >= d
      BY <1>8, <2>1, <2>2
    <3> QED BY <1>8, <2>1, <3>1
  <2>3. CASE x <= 0
    <3>1. d * x <= 0
      BY <1>8, <2>1, <2>3
    <3> QED BY <2>1, <3>1
  <2> QED BY <2>1, <2>2, <2>3
<1> QED BY <1>2, <1>6, <1>7, <1>8

(* And only those.                                                         *)
LEMMA BelowStart ==
  ASSUME NEW d \in Nat \ {0}, NEW a \in Nat, (a + 1) % d = 1 % d
  PROVE  a % d = 0
<1>1. CASE d = 1
  <2>1. a % d \in 0 .. d - 1
    BY Remainder
  <2> QED BY <1>1, <2>1
<1>2. CASE d > 1
  <2> DEFINE b == a + 1
             p == 1 \div d
             q == b \div d
  <2>1. p \in Nat /\ 1 % d \in 0 .. d - 1 /\ 1 = d * p + (1 % d)
    BY Remainder
  <2>2. b \in Nat /\ b % d = 1 % d
    OBVIOUS
  <2> HIDE DEF b, p
  <2>3. q \in Nat /\ b = d * q + (b % d)
    BY <2>2, Remainder
  <2> HIDE DEF q
  <2>4. p = 0
    <3>1. CASE p >= 1
      <4>1. d * p >= d
        BY <2>1, <3>1
      <4> QED BY <1>2, <2>1, <4>1
    <3> QED BY <2>1, <3>1
  <2>5. 1 % d = 1
    BY <2>1, <2>4
  <2>6. b = d * q + 1
    BY <2>2, <2>3, <2>5
  <2>7. a = d * q
    BY <2>3, <2>6 DEF b
  <2> QED BY <2>3, <2>7, Multiples
<1> QED BY <1>1, <1>2
=============================================================================
