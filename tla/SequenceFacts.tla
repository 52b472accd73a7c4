---------------------------- MODULE SequenceFacts ----------------------------
(***************************************************************************)
(* What the proofs need of operators on sequences of the community         *)
(* modules.  Those that recursion defines are reasoned about by taking the *)
(* least number at which a claim fails.                                    *)
(***************************************************************************)
EXTENDS Integers, Sequences, SequencesExt, SequenceTheorems, WellFoundedInduction, TLAPS

LEMMA LeastNumber ==
  ASSUME NEW T, T \subseteq Nat, T # {}
  PROVE  \E m \in T : \A n \in T : m <= n
<1> DEFINE Less == OpToRel(<, Nat)
<1>1. \E m \in T : \A n \in T : <<n, m>> \notin Less
  <2>1. IsWellFoundedOn(Less, Nat)
    BY NatLessThanWellFounded
  <2> HIDE DEF Less
  <2> QED
    BY <2>1, WFMin
<1>2. PICK m \in T : \A n \in T : <<n, m>> \notin Less
  BY <1>1
<1>3. ASSUME NEW n \in T PROVE ~(n < m)
  <2>1. n \in Nat /\ m \in Nat
    OBVIOUS
  <2>2. n < m => <<n, m>> \in Less
    BY <2>1 DEF OpToRel
  <2> QED
    BY <1>2, <2>2
<1> QED
  BY <1>3

(* Induction over a set of numbers. *)
LEMMA SetInduction ==
  ASSUME NEW n \in Nat, NEW P, 0 \in P, \A k \in 1..n : k - 1 \in P => k \in P
  PROVE  \A k \in 0..n : k \in P
<1> DEFINE T == {k \in 0..n : k \notin P}
<1>1. ASSUME T # {} PROVE FALSE
  <2>1. PICK m \in T : \A k \in T : m <= k
    <3>1. T \subseteq Nat
      OBVIOUS
    <3> HIDE DEF T
    <3> QED
      BY <1>1, <3>1, LeastNumber
  <2>2. m \in 0..n /\ m \notin P /\ m # 0
    OBVIOUS
  <2>3. m \in 1..n /\ m - 1 \in 0..n /\ ~(m <= m - 1)
    BY <2>2
  <2>4. m - 1 \in P
    BY <2>1, <2>3
  <2> QED
    BY <2>2, <2>3, <2>4
<1> QED
  BY <1>1

-----------------------------------------------------------------------------
(* Elements *)

LEMMA ToSetType ==
  ASSUME NEW S, NEW s \in Seq(S)
  PROVE  ToSet(s) \subseteq S
  BY DEF ToSet

LEMMA ToSetEmpty == ToSet(<<>>) = {}
  BY DEF ToSet

Joins(a, b) == ToSet(a \o b) = ToSet(a) \union ToSet(b)

LEMMA ToSetConcat ==
  ASSUME NEW S, NEW a \in Seq(S), NEW b \in Seq(S)
  PROVE  Joins(a, b)
<1> DEFINE c == a \o b
<1>1. /\ Len(a) \in Nat /\ Len(b) \in Nat /\ Len(c) = Len(a) + Len(b) /\ c \in Seq(S)
      /\ DOMAIN a = 1..Len(a) /\ DOMAIN b = 1..Len(b) /\ DOMAIN c = 1..Len(c)
      /\ \A k \in 1..Len(a) : c[k] = a[k]
      /\ \A k \in 1..Len(b) : c[Len(a) + k] = b[k]
  OBVIOUS
<1> HIDE DEF c
<1>2. ASSUME NEW x \in ToSet(c) PROVE x \in ToSet(a) \union ToSet(b)
  <2>1. PICK k \in 1..Len(c) : x = c[k]
    BY <1>1, <1>2 DEF ToSet
  <2>2. CASE k <= Len(a)
    <3>1. k \in 1..Len(a)
      BY <1>1, <2>2
    <3> QED
      BY <1>1, <2>1, <3>1 DEF ToSet
  <2>3. CASE ~(k <= Len(a))
    <3>1. k - Len(a) \in 1..Len(b) /\ Len(a) + (k - Len(a)) = k
      BY <1>1, <2>3
    <3>2. x = b[k - Len(a)]
      BY <1>1, <2>1, <3>1
    <3> QED
      BY <1>1, <3>1, <3>2 DEF ToSet
  <2> QED
    BY <2>2, <2>3
<1>3. ASSUME NEW x \in ToSet(a) PROVE x \in ToSet(c)
  <2>1. PICK k \in 1..Len(a) : x = a[k]
    BY <1>1, <1>3 DEF ToSet
  <2>2. k \in 1..Len(c)
    BY <1>1
  <2> QED
    BY <1>1, <2>1, <2>2 DEF ToSet
<1>4. ASSUME NEW x \in ToSet(b) PROVE x \in ToSet(c)
  <2>1. PICK k \in 1..Len(b) : x = b[k]
    BY <1>1, <1>4 DEF ToSet
  <2>2. Len(a) + k \in 1..Len(c)
    BY <1>1
  <2> QED
    BY <1>1, <2>1, <2>2 DEF ToSet
<1>5. ToSet(c) = ToSet(a) \union ToSet(b)
  BY <1>2, <1>3, <1>4
<1> QED
  BY <1>5 DEF c, Joins

LEMMA ToSetAppend ==
  ASSUME NEW S, NEW s \in Seq(S), NEW x \in S
  PROVE  ToSet(Append(s, x)) = ToSet(s) \union {x}
<1>1. Append(s, x) = s \o <<x>> /\ <<x>> \in Seq(S)
  OBVIOUS
<1>2. ToSet(<<x>>) = {x}
  BY DEF ToSet
<1>3. Joins(s, <<x>>)
  BY <1>1, ToSetConcat
<1> QED
  BY <1>1, <1>2, <1>3 DEF Joins

LEMMA FrontAppend ==
  ASSUME NEW S, NEW s \in Seq(S), NEW x \in S
  PROVE  Append(s, x) # <<>> /\ Front(Append(s, x)) = s
<1> DEFINE t == Append(s, x)
           f == SubSeq(t, 1, Len(s))
<1>1. /\ t \in Seq(S) /\ Len(t) = Len(s) + 1 /\ t # <<>> /\ Len(s) \in Nat
      /\ \A k \in 1..Len(s) : t[k] = s[k]
  OBVIOUS
<1> HIDE DEF t
<1>2. f \in Seq(S) /\ Len(f) = Len(s) /\ \A k \in 1..Len(s) : f[k] = t[k]
  BY <1>1
<1>3. Front(t) = f
  BY <1>1 DEF Front
<1> HIDE DEF f
<1>4. f = s
  BY <1>1, <1>2, SeqEqual
<1> QED
  BY <1>1, <1>3, <1>4 DEF t

LEMMA RemoveAtType ==
  ASSUME NEW S, NEW s \in Seq(S), NEW k \in 1..Len(s)
  PROVE  /\ RemoveAt(s, k) \in Seq(S)
         /\ Len(s) = 1 => RemoveAt(s, k) = <<>>
<1>1. SubSeq(s, 1, k - 1) \in Seq(S) /\ SubSeq(s, k + 1, Len(s)) \in Seq(S)
  OBVIOUS
<1>2. RemoveAt(s, k) \in Seq(S)
  BY <1>1 DEF RemoveAt
<1>3. ASSUME Len(s) = 1
      PROVE  SubSeq(s, 1, k - 1) = <<>> /\ SubSeq(s, k + 1, Len(s)) = <<>>
  BY <1>3, SubSeqEmpty
<1> QED
  BY <1>2, <1>3 DEF RemoveAt

(* The first occurrence is removed, if there is one. *)
LEMMA RemoveFirstType ==
  ASSUME NEW S, NEW s \in Seq(S), NEW x
  PROVE  RemoveFirst(s, x) \in Seq(S)
<1>1. CASE \E i \in 1..Len(s) : s[i] = x
  <2> DEFINE I == {i \in 1..Len(s) : s[i] = x}
  <2>1. SelectInSeq(s, LAMBDA v : v = x) = Min(I)
    BY <1>1 DEF SelectInSeq
  <2>2. Min(I) \in I
    <3>1. \E m \in I : \A j \in I : m <= j
      <4>1. I \subseteq Nat /\ I # {}
        BY <1>1
      <4> HIDE DEF I
      <4> QED
        BY <4>1, LeastNumber
    <3> QED
      BY <3>1 DEF Min
  <2> QED
    BY <1>1, <2>1, <2>2, RemoveAtType DEF RemoveFirst
<1>2. CASE ~\E i \in 1..Len(s) : s[i] = x
  BY <1>2 DEF RemoveFirst
<1> QED
  BY <1>1, <1>2

-----------------------------------------------------------------------------
(* Flattened sequences *)

(* f[i] is what the first i elements of q are together. *)
Flattens(f, q) ==
  f = [i \in 1..Len(q) |-> IF i = 1 THEN q[i] ELSE f[i - 1] \o q[i]]

LEMMA FlattensExists ==
  ASSUME NEW q, Len(q) \in Nat
  PROVE  \E f : Flattens(f, q)
<1> DEFINE Upto(n, f) == f = [i \in 1..n |-> IF i = 1 THEN q[i] ELSE f[i - 1] \o q[i]]
           T == {n \in Nat : ~\E f : Upto(n, f)}
<1>1. ASSUME T # {} PROVE FALSE
  <2>1. PICK m \in T : \A n \in T : m <= n
    <3>1. T \subseteq Nat
      OBVIOUS
    <3> HIDE DEF T
    <3> QED
      BY <1>1, <3>1, LeastNumber
  <2>2. \E f : Upto(0, f)
    <3>1. Upto(0, [i \in 1..0 |-> 0])
      OBVIOUS
    <3> QED
      BY <3>1
  <2>3. m \in Nat /\ m # 0
    BY <2>2
  <2>4. PICK f : Upto(m - 1, f)
    <3>1. m - 1 \in Nat /\ ~(m <= m - 1)
      BY <2>3
    <3> QED
      BY <2>1, <3>1
  <2> DEFINE g == [i \in 1..m |-> IF i < m THEN f[i]
                                  ELSE IF i = 1 THEN q[i] ELSE f[i - 1] \o q[i]]
  <2>5. ASSUME NEW i \in 1..m
        PROVE  g[i] = IF i = 1 THEN q[i] ELSE g[i - 1] \o q[i]
    <3>1. CASE i < m
      <4>1. i \in 1..(m - 1) /\ (i # 1 => i - 1 \in 1..m /\ i - 1 < m)
        BY <2>3, <3>1
      <4>2. g[i] = f[i] /\ (i # 1 => g[i - 1] = f[i - 1])
        BY <3>1, <4>1
      <4>3. f[i] = IF i = 1 THEN q[i] ELSE f[i - 1] \o q[i]
        BY <2>4, <4>1
      <4> QED
        BY <4>2, <4>3
    <3>2. CASE ~(i < m)
      <4>1. i = m /\ (i # 1 => i - 1 \in 1..m /\ i - 1 < m)
        BY <2>3, <3>2
      <4>2. g[i] = IF i = 1 THEN q[i] ELSE f[i - 1] \o q[i]
        BY <4>1
      <4>3. i # 1 => g[i - 1] = f[i - 1]
        BY <4>1
      <4> QED
        BY <4>2, <4>3
    <3> QED
      BY <3>1, <3>2
  <2>6. g = [i \in 1..m |-> IF i = 1 THEN q[i] ELSE g[i - 1] \o q[i]]
    <3>1. g = [i \in 1..m |-> g[i]]
      OBVIOUS
    <3> HIDE DEF g
    <3> QED
      BY <2>5, <3>1
  <2> HIDE DEF g
  <2>7. Upto(m, g)
    BY <2>6
  <2> QED
    BY <2>7
<1>2. \E f : Upto(Len(q), f)
  BY <1>1
<1> QED
  BY <1>2 DEF Flattens

LEMMA FlattenedBy ==
  ASSUME NEW q, Len(q) \in Nat
  PROVE  \E f : Flattens(f, q) /\ FlattenSeq(q) = IF Len(q) = 0 THEN q ELSE f[Len(q)]
<1> DEFINE D(f) == f = [i \in 1..Len(q) |-> IF i = 1 THEN q[i] ELSE f[i - 1] \o q[i]]
<1>1. \E f : D(f)
  BY FlattensExists DEF Flattens
<1>2. FlattenSeq(q) = IF Len(q) = 0 THEN q ELSE (CHOOSE f : D(f))[Len(q)]
  BY DEF FlattenSeq
<1> HIDE DEF D
<1>3. D(CHOOSE f : D(f))
  BY <1>1
<1> QED
  BY <1>2, <1>3 DEF D, Flattens

LEMMA FlattensType ==
  ASSUME NEW S, NEW q \in Seq(Seq(S)), NEW f, Flattens(f, q)
  PROVE  \A i \in 1..Len(q) : f[i] \in Seq(S)
<1> DEFINE T == {i \in 1..Len(q) : f[i] \notin Seq(S)}
<1>1. ASSUME T # {} PROVE FALSE
  <2>1. PICK m \in T : \A i \in T : m <= i
    <3>1. T \subseteq Nat
      OBVIOUS
    <3> HIDE DEF T
    <3> QED
      BY <1>1, <3>1, LeastNumber
  <2>2. m \in 1..Len(q) /\ q[m] \in Seq(S)
    OBVIOUS
  <2>3. f[m] = IF m = 1 THEN q[m] ELSE f[m - 1] \o q[m]
    BY <2>2 DEF Flattens
  <2>4. m # 1
    BY <2>2, <2>3
  <2>5. m - 1 \in 1..Len(q) /\ ~(m <= m - 1)
    BY <2>2, <2>4
  <2>6. f[m - 1] \in Seq(S)
    BY <2>1, <2>5
  <2>7. f[m] = f[m - 1] \o q[m]
    BY <2>3, <2>4
  <2>8. f[m] \in Seq(S)
    BY <2>2, <2>6, <2>7
  <2> QED
    BY <2>8
<1> QED
  BY <1>1

LEMMA FlattensAgree ==
  ASSUME NEW S, NEW q \in Seq(Seq(S)), NEW r \in Seq(Seq(S)),
         NEW f, Flattens(f, q), NEW g, Flattens(g, q \o r)
  PROVE  \A i \in 1..Len(q) : g[i] = f[i]
<1> DEFINE T == {i \in 1..Len(q) : g[i] # f[i]}
<1>1. ASSUME T # {} PROVE FALSE
  <2>1. PICK m \in T : \A i \in T : m <= i
    <3>1. T \subseteq Nat
      OBVIOUS
    <3> HIDE DEF T
    <3> QED
      BY <1>1, <3>1, LeastNumber
  <2>2. m \in 1..Len(q) /\ m \in 1..Len(q \o r) /\ (q \o r)[m] = q[m]
    OBVIOUS
  <2>3. f[m] = IF m = 1 THEN q[m] ELSE f[m - 1] \o q[m]
    BY <2>2 DEF Flattens
  <2>4. g[m] = IF m = 1 THEN (q \o r)[m] ELSE g[m - 1] \o (q \o r)[m]
    BY <2>2 DEF Flattens
  <2>5. m # 1
    BY <2>2, <2>3, <2>4
  <2>6. m - 1 \in 1..Len(q) /\ ~(m <= m - 1)
    BY <2>2, <2>5
  <2>7. g[m - 1] = f[m - 1]
    BY <2>1, <2>6
  <2> QED
    BY <2>2, <2>3, <2>4, <2>5, <2>7
<1> QED
  BY <1>1

Associate(a, b, c) == (a \o b) \o c = a \o (b \o c)

LEMMA ConcatTwice ==
  ASSUME NEW S, NEW a \in Seq(S), NEW b \in Seq(S), NEW c \in Seq(S)
  PROVE  Associate(a, b, c)
<1>1. a \o b \in Seq(S) /\ b \o c \in Seq(S)
  OBVIOUS
<1>2. (a \o b) \o c \in Seq(S) /\ a \o (b \o c) \in Seq(S)
  BY <1>1
<1>3. Len((a \o b) \o c) = Len(a \o (b \o c))
  OBVIOUS
<1>4. \A i \in 1..Len((a \o b) \o c) : ((a \o b) \o c)[i] = (a \o (b \o c))[i]
  OBVIOUS
<1> QED
  BY <1>2, <1>3, <1>4, SeqEqual DEF Associate

(* g goes on after n elements as h does from the beginning. *)
GoesOn(g, n, h, r) == \A j \in 1..Len(r) : g[n + j] = g[n] \o h[j]

LEMMA FlattensRest ==
  ASSUME NEW S, NEW q \in Seq(Seq(S)), NEW r \in Seq(Seq(S)), q # <<>>,
         NEW h, Flattens(h, r), NEW g, Flattens(g, q \o r)
  PROVE  GoesOn(g, Len(q), h, r)
<1> DEFINE n == Len(q)
           T == {j \in 1..Len(r) : g[n + j] # g[n] \o h[j]}
<1>0. n \in Nat /\ n >= 1 /\ Len(r) \in Nat /\ q \o r \in Seq(Seq(S))
      /\ Len(q \o r) = n + Len(r)
  OBVIOUS
<1>1. ASSUME T # {} PROVE FALSE
  <2>1. PICK m \in T : \A j \in T : m <= j
    <3>1. T \subseteq Nat
      <4> SUFFICES ASSUME NEW j \in T PROVE j \in Nat
        OBVIOUS
      <4>1. j \in 1..Len(r)
        OBVIOUS
      <4> HIDE DEF T
      <4> QED
        BY <1>0, <4>1
    <3> HIDE DEF T
    <3> QED
      BY <1>1, <3>1, LeastNumber
  <2>2. /\ m \in 1..Len(r) /\ n + m \in 1..Len(q \o r) /\ (q \o r)[n + m] = r[m]
        /\ n + m # 1 /\ (n + m) - 1 = n + (m - 1) /\ m \in Nat
    BY <1>0
  <2>3. h[m] = IF m = 1 THEN r[m] ELSE h[m - 1] \o r[m]
    BY <2>2 DEF Flattens
  <2>4. g[n + m] = g[n + (m - 1)] \o r[m]
    <3>1. g[n + m] = IF n + m = 1 THEN (q \o r)[n + m]
                     ELSE g[(n + m) - 1] \o (q \o r)[n + m]
      BY <2>2 DEF Flattens
    <3> QED
      BY <2>2, <3>1
  <2>5. /\ g[n] \in Seq(S) /\ r[m] \in Seq(S)
        /\ m # 1 => h[m - 1] \in Seq(S)
    <3>1. n \in 1..Len(q \o r) /\ (m # 1 => m - 1 \in 1..Len(r))
      BY <1>0, <2>2
    <3>2. g[n] \in Seq(S)
      BY <1>0, <3>1, FlattensType
    <3>3. m # 1 => h[m - 1] \in Seq(S)
      BY <3>1, FlattensType
    <3>4. r[m] \in Seq(S)
      BY <2>2
    <3> QED
      BY <3>2, <3>3, <3>4
  <2>6. CASE m = 1
    <3>1. n + (m - 1) = n /\ h[m] = r[m]
      BY <1>0, <2>3, <2>6
    <3>2. g[n + m] = g[n] \o h[m]
      BY <2>4, <3>1
    <3> QED
      BY <3>2
  <2>7. CASE m # 1
    <3>1. m - 1 \in 1..Len(r) /\ ~(m <= m - 1)
      BY <2>2, <2>7
    <3>2. g[n + (m - 1)] = g[n] \o h[m - 1]
      BY <2>1, <3>1
    <3>3. g[n + m] = (g[n] \o h[m - 1]) \o r[m]
      BY <2>4, <3>2
    <3>4. (g[n] \o h[m - 1]) \o r[m] = g[n] \o (h[m - 1] \o r[m])
      <4> DEFINE a == g[n]
                 b == h[m - 1]
                 c == r[m]
      <4>1. a \in Seq(S) /\ b \in Seq(S) /\ c \in Seq(S)
        BY <2>5, <2>7
      <4> HIDE DEF a, b, c
      <4>2. Associate(a, b, c)
        BY <4>1, ConcatTwice
      <4> QED
        BY <4>2 DEF a, b, c, Associate
    <3> QED
      BY <2>3, <2>7, <3>3, <3>4
  <2> QED
    BY <2>6, <2>7
<1> QED
  BY <1>1 DEF GoesOn

LEMMA FlattenConcat ==
  ASSUME NEW S, NEW q \in Seq(Seq(S)), NEW r \in Seq(Seq(S))
  PROVE  /\ FlattenSeq(q) \in Seq(S)
         /\ FlattenSeq(q \o r) = FlattenSeq(q) \o FlattenSeq(r)
<1>1. PICK f : Flattens(f, q) /\ FlattenSeq(q) = IF Len(q) = 0 THEN q ELSE f[Len(q)]
  BY FlattenedBy
<1>2. PICK h : Flattens(h, r) /\ FlattenSeq(r) = IF Len(r) = 0 THEN r ELSE h[Len(r)]
  BY FlattenedBy
<1>3. q \o r \in Seq(Seq(S)) /\ Len(q \o r) = Len(q) + Len(r)
      /\ Len(q) \in Nat /\ Len(r) \in Nat
  OBVIOUS
<1>4. PICK g : Flattens(g, q \o r)
               /\ FlattenSeq(q \o r) = IF Len(q \o r) = 0 THEN q \o r ELSE g[Len(q \o r)]
  <2>1. Len(q \o r) \in Nat
    BY <1>3
  <2> QED
    BY <2>1, FlattenedBy
<1>5. (Len(q) # 0 => f[Len(q)] \in Seq(S)) /\ (Len(r) # 0 => h[Len(r)] \in Seq(S))
  <2>1. (Len(q) # 0 => Len(q) \in 1..Len(q)) /\ (Len(r) # 0 => Len(r) \in 1..Len(r))
    BY <1>3
  <2> QED
    BY <1>1, <1>2, <2>1, FlattensType
<1>6. FlattenSeq(q) \in Seq(S) /\ FlattenSeq(r) \in Seq(S)
  <2>1. (Len(q) = 0 => q \in Seq(S)) /\ (Len(r) = 0 => r \in Seq(S))
    OBVIOUS
  <2> QED
    BY <1>1, <1>2, <1>5, <2>1
<1>7. CASE Len(q) = 0
  <2>1. q = <<>> /\ FlattenSeq(q) = <<>>
    BY <1>1, <1>7
  <2>2. q \o r = r /\ <<>> \o FlattenSeq(r) = FlattenSeq(r)
    BY <1>6, <2>1
  <2> QED
    BY <1>6, <2>1, <2>2
<1>8. CASE Len(q) # 0 /\ Len(r) = 0
  <2>1. r = <<>> /\ FlattenSeq(r) = <<>>
    BY <1>2, <1>8
  <2>2. q \o r = q /\ FlattenSeq(q) \o <<>> = FlattenSeq(q)
    BY <1>6, <2>1
  <2> QED
    BY <1>6, <2>1, <2>2
<1>9. CASE Len(q) # 0 /\ Len(r) # 0
  <2>1. Len(q) \in 1..Len(q) /\ Len(r) \in 1..Len(r) /\ q # <<>>
        /\ Len(q \o r) # 0
    BY <1>3, <1>9
  <2>2. g[Len(q)] = f[Len(q)]
    BY <1>1, <1>4, <2>1, FlattensAgree
  <2>3. g[Len(q) + Len(r)] = g[Len(q)] \o h[Len(r)]
    <3>1. GoesOn(g, Len(q), h, r)
      BY <1>2, <1>4, <2>1, FlattensRest
    <3> QED
      BY <2>1, <3>1 DEF GoesOn
  <2> QED
    BY <1>1, <1>2, <1>3, <1>4, <1>6, <1>9, <2>1, <2>2, <2>3
<1> QED
  BY <1>3, <1>7, <1>8, <1>9

LEMMA FlattenOne ==
  ASSUME NEW S, NEW s \in Seq(S)
  PROVE  FlattenSeq(<<s>>) = s /\ FlattenSeq(<< >>) = << >>
<1>1. PICK f : Flattens(f, <<s>>)
               /\ FlattenSeq(<<s>>) = IF Len(<<s>>) = 0 THEN <<s>> ELSE f[Len(<<s>>)]
  BY FlattenedBy
<1>2. Len(<<s>>) = 1 /\ 1 \in 1..Len(<<s>>) /\ <<s>>[1] = s
  OBVIOUS
<1>3. f[1] = s
  BY <1>1, <1>2 DEF Flattens
<1> QED
  BY <1>1, <1>2, <1>3, FlattenedBy

=============================================================================
