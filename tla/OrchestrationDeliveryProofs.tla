--------------------- MODULE OrchestrationDeliveryProofs ---------------------
(***************************************************************************)
(* OrchestrationBackend implements DurableMailbox: every step is one of    *)
(* the mailbox, or none, for every instance.                               *)
(***************************************************************************)
EXTENDS OrchestrationDelivery, OrchestrationBackendProofs

-----------------------------------------------------------------------------
(* Delivered events *)

(* f[n] is what is delivered of the first n events of s. *)
Delivering(f, s) ==
  f = [n \in 0..Len(s) |->
         IF n = 0 THEN <<>>
         ELSE IF Delivers(s[n]) THEN Append(f[n - 1], s[n]) ELSE f[n - 1]]

LEMMA DeliveringExists ==
  ASSUME NEW s, Len(s) \in Nat
  PROVE  \E f : Delivering(f, s)
<1> DEFINE Upto(m, f) == f = [n \in 0..m |->
                                IF n = 0 THEN <<>>
                                ELSE IF Delivers(s[n]) THEN Append(f[n - 1], s[n])
                                ELSE f[n - 1]]
           T == {m \in Nat : ~\E f : Upto(m, f)}
<1>1. ASSUME T # {} PROVE FALSE
  <2>1. PICK m \in T : \A n \in T : m <= n
    <3>1. T \subseteq Nat
      OBVIOUS
    <3> HIDE DEF T
    <3> QED
      BY <1>1, <3>1, LeastNumber
  <2>2. \E f : Upto(0, f)
    <3>1. Upto(0, [n \in 0..0 |-> <<>>])
      OBVIOUS
    <3> QED
      BY <3>1
  <2>3. m \in Nat /\ m # 0
    BY <2>2
  <2>4. PICK f : Upto(m - 1, f)
    <3>1. m - 1 \in Nat /\ ~(m <= m - 1)
      BY <2>3
    <3> QED
      BY <2>1, <3>1
  <2> DEFINE g == [n \in 0..m |-> IF n < m THEN f[n]
                                  ELSE IF Delivers(s[n]) THEN Append(f[n - 1], s[n])
                                  ELSE f[n - 1]]
  <2>5. ASSUME NEW n \in 0..m
        PROVE  g[n] = IF n = 0 THEN <<>>
                      ELSE IF Delivers(s[n]) THEN Append(g[n - 1], s[n]) ELSE g[n - 1]
    <3>1. CASE n < m
      <4>1. n \in 0..(m - 1) /\ (n # 0 => n - 1 \in 0..m /\ n - 1 < m)
        BY <2>3, <3>1
      <4>2. g[n] = f[n] /\ (n # 0 => g[n - 1] = f[n - 1])
        BY <3>1, <4>1
      <4>3. f[n] = IF n = 0 THEN <<>>
                   ELSE IF Delivers(s[n]) THEN Append(f[n - 1], s[n]) ELSE f[n - 1]
        BY <2>4, <4>1
      <4> QED
        BY <4>2, <4>3
    <3>2. CASE ~(n < m)
      <4>1. n = m /\ n # 0 /\ n - 1 \in 0..m /\ n - 1 < m
        BY <2>3, <3>2
      <4>2. g[n] = IF Delivers(s[n]) THEN Append(f[n - 1], s[n]) ELSE f[n - 1]
        BY <4>1
      <4>3. g[n - 1] = f[n - 1]
        BY <4>1
      <4> QED
        BY <4>1, <4>2, <4>3
    <3> QED
      BY <3>1, <3>2
  <2>6. g = [n \in 0..m |-> IF n = 0 THEN <<>>
                            ELSE IF Delivers(s[n]) THEN Append(g[n - 1], s[n])
                            ELSE g[n - 1]]
    <3>1. g = [n \in 0..m |-> g[n]]
      OBVIOUS
    <3> HIDE DEF g
    <3> QED
      BY <2>5, <3>1
  <2> HIDE DEF g
  <2>7. Upto(m, g)
    BY <2>6
  <2> QED
    BY <2>7
<1>2. \E f : Upto(Len(s), f)
  BY <1>1
<1> QED
  BY <1>2 DEF Delivering

LEMMA DeliveredBy ==
  ASSUME NEW s, Len(s) \in Nat
  PROVE  \E f : Delivering(f, s) /\ Delivered(s) = f[Len(s)]
<1> DEFINE D(f) == f = [n \in 0..Len(s) |->
                          IF n = 0 THEN <<>>
                          ELSE IF Delivers(s[n]) THEN Append(f[n - 1], s[n]) ELSE f[n - 1]]
<1>1. \E f : D(f)
  BY DeliveringExists DEF Delivering
<1>2. Delivered(s) = (CHOOSE f : D(f))[Len(s)]
  BY DEF Delivered
<1> HIDE DEF D
<1>3. D(CHOOSE f : D(f))
  BY <1>1
<1> QED
  BY <1>2, <1>3 DEF D, Delivering

Grows(f, s) ==
  /\ f[0] = <<>>
  /\ \A n \in 1..Len(s) :
       f[n] = IF Delivers(s[n]) THEN Append(f[n - 1], s[n]) ELSE f[n - 1]

LEMMA DeliveringStep ==
  ASSUME NEW f, NEW s, Len(s) \in Nat, Delivering(f, s)
  PROVE  Grows(f, s)
<1>1. 0 \in 0..Len(s)
  OBVIOUS
<1>2. f[0] = <<>>
  BY <1>1 DEF Delivering
<1>3. ASSUME NEW n \in 1..Len(s)
      PROVE  f[n] = IF Delivers(s[n]) THEN Append(f[n - 1], s[n]) ELSE f[n - 1]
  <2>1. n \in 0..Len(s) /\ n # 0
    OBVIOUS
  <2> QED
    BY <2>1 DEF Delivering
<1> QED
  BY <1>2, <1>3 DEF Grows

LEMMA DeliveringType ==
  ASSUME NEW s \in Seq(Event), NEW f, Delivering(f, s)
  PROVE  \A n \in 0..Len(s) : f[n] \in Seq(Event)
<1> DEFINE P == {n \in 0..Len(s) : f[n] \in Seq(Event)}
<1>1. Len(s) \in Nat
  OBVIOUS
<1>2. /\ f[0] = <<>>
      /\ \A n \in 1..Len(s) :
           f[n] = IF Delivers(s[n]) THEN Append(f[n - 1], s[n]) ELSE f[n - 1]
  BY <1>1, DeliveringStep DEF Grows
<1>3. 0 \in P
  <2>1. <<>> \in Seq(Event) /\ 0 \in 0..Len(s)
    BY <1>1
  <2> QED
    BY <1>2, <2>1
<1>4. ASSUME NEW n \in 1..Len(s), n - 1 \in P PROVE n \in P
  <2>1. s[n] \in Event /\ n \in 0..Len(s)
    BY <1>1
  <2>2. f[n - 1] \in Seq(Event)
    BY <1>4
  <2>3. f[n] = IF Delivers(s[n]) THEN Append(f[n - 1], s[n]) ELSE f[n - 1]
    BY <1>2
  <2>4. f[n] \in Seq(Event)
    BY <2>1, <2>2, <2>3
  <2> QED
    BY <2>1, <2>4
<1> HIDE DEF P
<1>5. \A n \in 0..Len(s) : n \in P
  BY <1>1, <1>3, <1>4, SetInduction
<1> QED
  BY <1>5 DEF P

LEMMA DeliveringAgree ==
  ASSUME NEW a \in Seq(Event), NEW b \in Seq(Event),
         NEW f, Delivering(f, a), NEW g, Delivering(g, a \o b)
  PROVE  g[Len(a)] = f[Len(a)]
<1> DEFINE P == {n \in 0..Len(a) : g[n] = f[n]}
<1>1. /\ Len(a) \in Nat /\ Len(b) \in Nat /\ a \o b \in Seq(Event)
      /\ Len(a \o b) = Len(a) + Len(b)
  OBVIOUS
<1>2. /\ f[0] = <<>>
      /\ \A n \in 1..Len(a) :
           f[n] = IF Delivers(a[n]) THEN Append(f[n - 1], a[n]) ELSE f[n - 1]
  BY <1>1, DeliveringStep DEF Grows
<1>3. /\ g[0] = <<>>
      /\ \A n \in 1..(Len(a) + Len(b)) :
           g[n] = IF Delivers((a \o b)[n]) THEN Append(g[n - 1], (a \o b)[n]) ELSE g[n - 1]
  <2>1. Grows(g, a \o b)
    BY <1>1, DeliveringStep
  <2> QED
    BY <1>1, <2>1 DEF Grows
<1>4. 0 \in P
  BY <1>1, <1>2, <1>3
<1>5. ASSUME NEW n \in 1..Len(a), n - 1 \in P PROVE n \in P
  <2>1. (a \o b)[n] = a[n] /\ n \in 0..Len(a) /\ n \in 1..(Len(a) + Len(b))
    BY <1>1
  <2>2. g[n - 1] = f[n - 1]
    BY <1>5
  <2>3. g[n] = IF Delivers(a[n]) THEN Append(g[n - 1], a[n]) ELSE g[n - 1]
    BY <1>3, <2>1
  <2>4. f[n] = IF Delivers(a[n]) THEN Append(f[n - 1], a[n]) ELSE f[n - 1]
    BY <1>2
  <2>5. g[n] = f[n]
    BY <2>2, <2>3, <2>4
  <2> QED
    BY <2>1, <2>5
<1> HIDE DEF P
<1>6. \A n \in 0..Len(a) : n \in P
  BY <1>1, <1>4, <1>5, SetInduction
<1>7. Len(a) \in P
  BY <1>1, <1>6
<1> QED
  BY <1>7 DEF P

LEMMA DeliveringRest ==
  ASSUME NEW a \in Seq(Event), NEW b \in Seq(Event),
         NEW h, Delivering(h, b), NEW g, Delivering(g, a \o b)
  PROVE  g[Len(a) + Len(b)] = g[Len(a)] \o h[Len(b)]
<1> DEFINE N == Len(a)
           M == Len(b)
           P == {n \in 0..M : g[N + n] = g[N] \o h[n]}
<1>1. /\ N \in Nat /\ M \in Nat /\ a \o b \in Seq(Event) /\ Len(a \o b) = N + M
  OBVIOUS
<1>2. /\ h[0] = <<>>
      /\ \A n \in 1..M :
           h[n] = IF Delivers(b[n]) THEN Append(h[n - 1], b[n]) ELSE h[n - 1]
  BY <1>1, DeliveringStep DEF Grows
<1>3. \A n \in 1..(N + M) :
        g[n] = IF Delivers((a \o b)[n]) THEN Append(g[n - 1], (a \o b)[n]) ELSE g[n - 1]
  <2>1. Grows(g, a \o b)
    BY <1>1, DeliveringStep
  <2> QED
    BY <1>1, <2>1 DEF Grows
<1>4. (\A n \in 0..M : h[n] \in Seq(Event)) /\ g[N] \in Seq(Event)
  <2>1. N \in 0..Len(a \o b)
    BY <1>1
  <2> QED
    BY <1>1, <2>1, DeliveringType
<1>5. 0 \in P
  <2>1. g[N] \o <<>> = g[N] /\ N + 0 = N /\ 0 \in 0..M
    BY <1>1, <1>4
  <2> QED
    BY <1>2, <2>1
<1>6. ASSUME NEW n \in 1..M, n - 1 \in P PROVE n \in P
  <2>1. /\ (a \o b)[N + n] = b[n] /\ n \in 0..M /\ N + n \in 1..(N + M)
        /\ (N + n) - 1 = N + (n - 1) /\ n - 1 \in 0..M /\ b[n] \in Event
    BY <1>1
  <2>2. g[N + (n - 1)] = g[N] \o h[n - 1]
    BY <1>6
  <2>3. g[N + n] = IF Delivers(b[n]) THEN Append(g[N + (n - 1)], b[n]) ELSE g[N + (n - 1)]
    BY <1>3, <2>1
  <2>4. h[n] = IF Delivers(b[n]) THEN Append(h[n - 1], b[n]) ELSE h[n - 1]
    BY <1>2
  <2>5. Append(g[N] \o h[n - 1], b[n]) = g[N] \o Append(h[n - 1], b[n])
    <3> DEFINE x == g[N]
               y == h[n - 1]
               e == b[n]
    <3>1. x \in Seq(Event) /\ y \in Seq(Event) /\ e \in Event
      BY <1>4, <2>1
    <3> HIDE DEF x, y, e
    <3>2. Append(x \o y, e) = (x \o y) \o <<e>> /\ Append(y, e) = y \o <<e>>
          /\ <<e>> \in Seq(Event)
      BY <3>1
    <3>3. Associate(x, y, <<e>>)
      BY <3>1, <3>2, ConcatTwice
    <3>4. Append(x \o y, e) = x \o Append(y, e)
      BY <3>2, <3>3 DEF Associate
    <3> QED
      BY <3>4 DEF x, y, e
  <2>6. g[N + n] = g[N] \o h[n]
    BY <2>2, <2>3, <2>4, <2>5
  <2> QED
    BY <2>1, <2>6
<1> HIDE DEF P
<1>7. \A n \in 0..M : n \in P
  BY <1>1, <1>5, <1>6, SetInduction
<1>8. M \in P
  BY <1>1, <1>7
<1> QED
  BY <1>8 DEF P

LEMMA DeliveredConcat ==
  ASSUME NEW a \in Seq(Event), NEW b \in Seq(Event)
  PROVE  /\ Delivered(a) \in Seq(Event)
         /\ Delivered(a \o b) = Delivered(a) \o Delivered(b)
<1>1. /\ Len(a) \in Nat /\ Len(b) \in Nat /\ Len(a \o b) \in Nat
      /\ Len(a \o b) = Len(a) + Len(b)
  OBVIOUS
<1>2. PICK f : Delivering(f, a) /\ Delivered(a) = f[Len(a)]
  BY <1>1, DeliveredBy
<1>3. PICK h : Delivering(h, b) /\ Delivered(b) = h[Len(b)]
  BY <1>1, DeliveredBy
<1>4. PICK g : Delivering(g, a \o b) /\ Delivered(a \o b) = g[Len(a \o b)]
  BY <1>1, DeliveredBy
<1>5. g[Len(a)] = f[Len(a)]
  BY <1>2, <1>4, DeliveringAgree
<1>6. g[Len(a) + Len(b)] = g[Len(a)] \o h[Len(b)]
  BY <1>3, <1>4, DeliveringRest
<1>7. f[Len(a)] \in Seq(Event)
  <2>1. Len(a) \in 0..Len(a)
    BY <1>1
  <2> QED
    BY <1>2, <2>1, DeliveringType
<1> QED
  BY <1>1, <1>2, <1>3, <1>4, <1>5, <1>6, <1>7

LEMMA DeliveredOne ==
  ASSUME NEW e \in Event
  PROVE  /\ Delivered(<<>>) = <<>>
         /\ Delivered(<<e>>) = IF Delivers(e) THEN <<e>> ELSE <<>>
<1>1. Len(<<>>) = 0 /\ Len(<<e>>) = 1 /\ 1 \in 1..1 /\ <<e>>[1] = e
  OBVIOUS
<1>2. PICK f : Delivering(f, <<>>) /\ Delivered(<<>>) = f[0]
  BY <1>1, DeliveredBy
<1>3. f[0] = <<>>
  BY <1>1, <1>2, DeliveringStep DEF Grows
<1>4. PICK g : Delivering(g, <<e>>) /\ Delivered(<<e>>) = g[1]
  BY <1>1, DeliveredBy
<1>5. g[0] = <<>> /\ g[1] = IF Delivers(e) THEN Append(g[0], e) ELSE g[0]
  BY <1>1, <1>4, DeliveringStep DEF Grows
<1> QED
  BY <1>2, <1>3, <1>4, <1>5

LEMMA DeliveredAppend ==
  ASSUME NEW s \in Seq(Event), NEW e \in Event
  PROVE  Delivered(Append(s, e)) = IF Delivers(e) THEN Append(Delivered(s), e)
                                   ELSE Delivered(s)
<1>1. Append(s, e) = s \o <<e>> /\ <<e>> \in Seq(Event)
  OBVIOUS
<1>2. Delivered(s) \in Seq(Event) /\ Delivered(s \o <<e>>) = Delivered(s) \o Delivered(<<e>>)
  BY <1>1, DeliveredConcat
<1>3. Delivered(<<e>>) = IF Delivers(e) THEN <<e>> ELSE <<>>
  BY DeliveredOne
<1>4. Delivered(s) \o <<e>> = Append(Delivered(s), e) /\ Delivered(s) \o <<>> = Delivered(s)
  BY <1>2
<1> QED
  BY <1>1, <1>2, <1>3, <1>4

LEMMA DeliveredNone ==
  ASSUME NEW s \in Seq(Event), \A k \in 1..Len(s) : ~Delivers(s[k])
  PROVE  Delivered(s) = <<>>
<1> DEFINE N == Len(s)
<1>1. N \in Nat
  OBVIOUS
<1>2. PICK f : Delivering(f, s) /\ Delivered(s) = f[N]
  BY <1>1, DeliveredBy
<1>3. Grows(f, s)
  BY <1>1, <1>2, DeliveringStep
<1> DEFINE P == {n \in 0..N : f[n] = <<>>}
<1>4. 0 \in P
  BY <1>1, <1>3 DEF Grows
<1>5. ASSUME NEW n \in 1..N, n - 1 \in P PROVE n \in P
  BY <1>1, <1>3, <1>5 DEF Grows
<1> HIDE DEF P
<1>6. \A n \in 0..N : n \in P
  BY <1>1, <1>4, <1>5, SetInduction
<1>7. N \in P
  BY <1>1, <1>6
<1> QED
  BY <1>2, <1>7 DEF P

LEMMA DeliveredAll ==
  ASSUME NEW s \in Seq(Event), \A k \in 1..Len(s) : Delivers(s[k])
  PROVE  Delivered(s) = s
<1> DEFINE N == Len(s)
<1>1. N \in Nat
  OBVIOUS
<1>2. PICK f : Delivering(f, s) /\ Delivered(s) = f[N]
  BY <1>1, DeliveredBy
<1>3. Grows(f, s)
  BY <1>1, <1>2, DeliveringStep
<1> DEFINE P == {n \in 0..N : f[n] = SubSeq(s, 1, n)}
<1>4. 0 \in P
  <2>1. SubSeq(s, 1, 0) = <<>>
    BY SubSeqEmpty
  <2>2. f[0] = <<>>
    BY <1>3 DEF Grows
  <2>3. f[0] = SubSeq(s, 1, 0) /\ 0 \in 0..N
    BY <1>1, <2>1, <2>2
  <2> QED
    BY <2>3
<1>5. ASSUME NEW n \in 1..N, n - 1 \in P PROVE n \in P
  <2>1. f[n] = Append(SubSeq(s, 1, n - 1), s[n])
    BY <1>1, <1>3, <1>5 DEF Grows
  <2>2. Append(SubSeq(s, 1, n - 1), s[n]) = SubSeq(s, 1, n)
    BY <1>1
  <2> QED
    BY <2>1, <2>2
<1> HIDE DEF P
<1>6. \A n \in 0..N : n \in P
  BY <1>1, <1>4, <1>5, SetInduction
<1>7. N \in P
  BY <1>1, <1>6
<1>8. f[N] = SubSeq(s, 1, N)
  BY <1>7 DEF P
<1>9. SubSeq(s, 1, N) = s
  OBVIOUS
<1> QED
  BY <1>2, <1>8, <1>9

LEMMA DeliveredHas ==
  ASSUME NEW s \in Seq(Event), NEW k \in 1..Len(s), Delivers(s[k])
  PROVE  s[k] \in ToSet(Delivered(s))
<1> DEFINE N == Len(s)
<1>1. N \in Nat
  OBVIOUS
<1>2. PICK f : Delivering(f, s) /\ Delivered(s) = f[N]
  BY <1>1, DeliveredBy
<1>3. Grows(f, s) /\ \A n \in 0..N : f[n] \in Seq(Event)
  BY <1>1, <1>2, DeliveringStep, DeliveringType
<1> DEFINE P == {n \in 0..N : k <= n => s[k] \in ToSet(f[n])}
<1>4. 0 \in P
  BY <1>1
<1>5. ASSUME NEW n \in 1..N, n - 1 \in P PROVE n \in P
  <2>1. f[n - 1] \in Seq(Event) /\ s[n] \in Event /\ n \in 0..N
    BY <1>1, <1>3
  <2>2. f[n] = IF Delivers(s[n]) THEN Append(f[n - 1], s[n]) ELSE f[n - 1]
    BY <1>3 DEF Grows
  <2>3. CASE k = n
    <3>1. f[n] = Append(f[n - 1], s[k])
      BY <2>2, <2>3
    <3>2. s[k] \in ToSet(Append(f[n - 1], s[k]))
      BY <2>1, <2>3, ToSetAppend
    <3> QED
      BY <2>1, <3>1, <3>2
  <2>4. CASE k # n
    <3>1. k <= n => k <= n - 1
      BY <1>1, <2>4
    <3>2. k <= n => s[k] \in ToSet(f[n - 1])
      BY <1>5, <3>1
    <3>3. ToSet(f[n - 1]) \subseteq ToSet(f[n])
      BY <2>1, <2>2, ToSetAppend
    <3> QED
      BY <2>1, <3>2, <3>3
  <2> QED
    BY <2>3, <2>4
<1> HIDE DEF P
<1>6. \A n \in 0..N : n \in P
  BY <1>1, <1>4, <1>5, SetInduction
<1>7. N \in P
  BY <1>1, <1>6
<1>8. k <= N => s[k] \in ToSet(f[N])
  BY <1>7 DEF P
<1> QED
  BY <1>1, <1>2, <1>8

-----------------------------------------------------------------------------
(* The steps of one instance, in the mailbox *)

MailStep(i) ==
  \/ Promise!Stays(i) \/ Promise!Deliver(i) \/ Promise!Create(i) \/ Promise!Forget(i)
  \/ Promise!Take(i) \/ Promise!GiveUp(i) \/ Promise!Process(i) \/ Promise!ContinueAsNew(i)

LEMMA FreshDelivered ==
  ASSUME NEW token
  PROVE  /\ Delivered(Fresh(token).pending) = <<ExecutionStarted>>
         /\ Delivered(<<>>) = <<>>
<1>1. OrchestratorStarted \in Event /\ ExecutionStarted \in Event
  BY StartEvents
<1>2. ~Delivers(OrchestratorStarted) /\ Delivers(ExecutionStarted)
  BY DEF Delivers, OrchestratorStarted, ExecutionStarted, NewEvent
<1>3. Delivered(<<OrchestratorStarted>>) = <<>> /\ Delivered(<<>>) = <<>>
      /\ <<OrchestratorStarted>> \in Seq(Event)
  BY <1>1, <1>2, DeliveredOne
<1>4. Delivered(Append(<<OrchestratorStarted>>, ExecutionStarted))
        = Append(<<>>, ExecutionStarted)
  BY <1>1, <1>2, <1>3, DeliveredAppend
<1>5. Fresh(token).pending = Append(<<OrchestratorStarted>>, ExecutionStarted)
  BY DEF Fresh
<1> QED
  BY <1>3, <1>4, <1>5

LEMMA SameStays ==
  ASSUME NEW i \in Ids, inst'[i] = inst[i]
  PROVE  Promise!Stays(i)
  BY DEF Promise!Stays, Promise!Becomes

LEMMA PostedDelivers ==
  ASSUME Core, NEW i \in Ids, NEW e \in Event, Delivers(e), Exists(i),
         inst'[i] = [inst[i] EXCEPT !.pending = Append(inst[i].pending, e)]
  PROVE  Promise!Deliver(i)
<1>1. /\ inst'[i].status = inst[i].status /\ inst'[i].history = inst[i].history
      /\ inst'[i].dispatched = inst[i].dispatched
      /\ inst'[i].pending = Append(inst[i].pending, e) /\ inst[i].pending \in Seq(Event)
  BY DEF Core, Instance
<1>2. Delivered(inst'[i].pending) = Append(Delivered(inst[i].pending), e)
      /\ Delivered(inst[i].pending) \in Seq(Event)
  BY <1>1, DeliveredAppend, DeliveredConcat
<1>3. /\ Delivered(inst'[i].pending) # <<>>
      /\ Front(Delivered(inst'[i].pending)) = Delivered(inst[i].pending)
  BY <1>2, FrontAppend
<1>4. ModeOf(inst[i].status) # "absent"
  BY DEF Exists, ModeOf
<1>5. Promise!Becomes(i, ModeOf(inst[i].status), Delivered(inst[i].dispatched),
                      Delivered(inst[i].history))
  BY <1>1 DEF Promise!Becomes
<1> QED
  BY <1>3, <1>4, <1>5 DEF Promise!Deliver, Promise!Front, Front

LEMMA CreatedCreates ==
  ASSUME NEW i \in Ids, ~Exists(i) \/ IsTerminal(i), NEW token, inst'[i] = Fresh(token)
  PROVE  Promise!Create(i)
<1>1. /\ inst'[i].status = "PENDING" /\ inst'[i].history = <<>>
      /\ inst'[i].dispatched = <<>> /\ Delivered(inst'[i].pending) = <<ExecutionStarted>>
      /\ Delivered(<<>>) = <<>>
  BY FreshDelivered DEF Fresh
<1>2. ModeOf(inst[i].status) # "live" /\ ModeOf("PENDING") = "live"
  BY DEF Exists, IsTerminal, ModeOf, Terminal
<1> QED
  BY <1>1, <1>2 DEF Promise!Create, Promise!Becomes

LEMMA GoneForgets ==
  ASSUME NEW i \in Ids, IsTerminal(i), inst'[i] = Absent
  PROVE  Promise!Forget(i)
<1>1. /\ inst'[i].status = "NONE" /\ inst'[i].history = <<>>
      /\ inst'[i].dispatched = <<>> /\ inst'[i].pending = <<>>
  BY DEF Absent
<1>2. Delivered(<<>>) = <<>>
  BY FreshDelivered
<1>3. ModeOf(inst[i].status) = "over" /\ ModeOf("NONE") = "absent"
  BY DEF IsTerminal, ModeOf, Terminal
<1> QED
  BY <1>1, <1>2, <1>3 DEF Promise!Forget, Promise!Becomes

LEMMA RestoredGivesUp ==
  ASSUME Core, NEW i \in Ids, inst'[i] = Restored(inst[i])
  PROVE  Promise!GiveUp(i)
<1>1. /\ inst'[i].status = inst[i].status /\ inst'[i].history = inst[i].history
      /\ inst'[i].dispatched = <<>>
      /\ inst'[i].pending = inst[i].dispatched \o inst[i].pending
      /\ inst[i].pending \in Seq(Event) /\ inst[i].dispatched \in Seq(Event)
  BY DEF Core, Instance, Restored
<1>2. Delivered(inst'[i].pending) = Delivered(inst[i].dispatched) \o Delivered(inst[i].pending)
  BY <1>1, DeliveredConcat
<1>3. Delivered(<<>>) = <<>>
  BY FreshDelivered
<1> QED
  BY <1>1, <1>2, <1>3 DEF Promise!GiveUp, Promise!Becomes


(* A batch is taken whole; the OrchestratorStarted event put before it is no *)
(* event of the mailbox.                                                     *)
LEMMA DispatchedTakes ==
  ASSUME Core, NEW i \in Ids, NEW new,
         new = inst[i].pending \/ new = <<OrchestratorStarted>> \o inst[i].pending,
         Delivered(inst[i].pending) # <<>>, inst[i].dispatched = <<>>,
         inst'[i] = [inst[i] EXCEPT !.dispatched = new, !.pending = <<>>]
  PROVE  Promise!Take(i)
<1> DEFINE m == Delivered(inst[i].pending)
<1>1. /\ inst'[i].status = inst[i].status /\ inst'[i].history = inst[i].history
      /\ inst'[i].dispatched = new /\ inst'[i].pending = <<>>
      /\ inst[i].pending \in Seq(Event)
  BY DEF Core, Instance
<1>2. Delivered(new) = m
  <2>1. Delivered(<<OrchestratorStarted>>) = <<>> /\ <<OrchestratorStarted>> \in Seq(Event)
    BY StartEvents, DeliveredOne DEF Delivers, OrchestratorStarted, NewEvent
  <2>2. Delivered(<<OrchestratorStarted>> \o inst[i].pending) = <<>> \o m /\ m \in Seq(Event)
    BY <1>1, <2>1, DeliveredConcat
  <2> HIDE DEF m
  <2>3. <<>> \o m = m
    BY <2>2
  <2>4. CASE new = inst[i].pending
    BY <2>4 DEF m
  <2>5. CASE new = <<OrchestratorStarted>> \o inst[i].pending
    BY <2>2, <2>3, <2>5
  <2> QED
    BY <2>4, <2>5
<1>3. Delivered(<<>>) = <<>>
  BY FreshDelivered
<1>4. m \in Seq(Event) /\ m # <<>>
  BY <1>1, DeliveredConcat
<1> HIDE DEF m
<1>5. /\ Len(m) \in 1..Len(m) /\ SubSeq(m, 1, Len(m)) = m
      /\ Promise!After(Len(m), m) = <<>>
  <2>1. Len(m) \in Nat /\ Len(m) # 0
    BY <1>4
  <2>2. SubSeq(m, Len(m) + 1, Len(m)) = <<>>
    BY <2>1, SubSeqEmpty
  <2> QED
    BY <1>4, <2>1, <2>2 DEF Promise!After
<1>6. Promise!Becomes(i, ModeOf(inst[i].status), m, Delivered(inst[i].history))
  BY <1>1, <1>2 DEF Promise!Becomes
<1>7. /\ Delivered(inst[i].pending) = m /\ Delivered(inst'[i].pending) = <<>>
      /\ Delivered(inst[i].dispatched) = <<>>
  BY <1>1, <1>3 DEF m
<1> QED
  BY <1>5, <1>6, <1>7 DEF Promise!Take

-----------------------------------------------------------------------------
(* An accepted answer *)

LEMMA ConfirmationsStayOut ==
  ASSUME NEW r \in Responses, NEW tok \in Nat
  PROVE  /\ Confirmations(r, tok) \in Seq(Event)
         /\ Delivered(Confirmations(r, tok)) = <<>>
<1> DEFINE t == [k \in 1..Len(r.tasks) |-> NewEvent("TaskScheduled", r.tasks[k], tok)]
           w == [k \in 1..Len(r.wakes) |-> NewEvent("TimerCreated", r.wakes[k], tok)]
           c == IF r.sub = None THEN <<>> ELSE <<NewEvent("SubCreated", 0, tok)>>
<1>1. /\ Len(r.tasks) \in Nat /\ \A k \in 1..Len(r.tasks) : r.tasks[k] \in Nat
      /\ Len(r.wakes) \in Nat /\ \A k \in 1..Len(r.wakes) : r.wakes[k] \in Nat
  BY ResponseFields
<1>2. \A n \in Nat : \A kind \in {"TaskScheduled", "TimerCreated", "SubCreated"} :
        NewEvent(kind, n, tok) \in Event /\ ~Delivers(NewEvent(kind, n, tok))
  BY DEF NewEvent, Event, Kinds, Delivers
<1>3. t \in Seq(Event) /\ \A k \in 1..Len(t) : ~Delivers(t[k])
  BY <1>1, <1>2
<1>4. w \in Seq(Event) /\ \A k \in 1..Len(w) : ~Delivers(w[k])
  BY <1>1, <1>2
<1>5. c \in Seq(Event) /\ \A k \in 1..Len(c) : ~Delivers(c[k])
  BY <1>2, StartEvents
<1>6. Confirmations(r, tok) = t \o w \o c
  BY DEF Confirmations
<1> HIDE DEF t, w, c
<1>7. Delivered(t) = <<>> /\ Delivered(w) = <<>> /\ Delivered(c) = <<>>
  BY <1>3, <1>4, <1>5, DeliveredNone
<1>8. t \o w \in Seq(Event) /\ Delivered(t \o w) = <<>> \o <<>>
  BY <1>3, <1>4, <1>7, DeliveredConcat, ConcatProperties
<1>9. t \o w \o c \in Seq(Event) /\ Delivered(t \o w \o c) = (<<>> \o <<>>) \o <<>>
  BY <1>5, <1>7, <1>8, DeliveredConcat, ConcatProperties
<1> QED
  BY <1>6, <1>9

(* What has arrived for me when r is done, the refusal of its sub-           *)
(* orchestration included.                                                   *)
Arrived(me, r) ==
  IF r.sub = None \/ Creatable(r.sub) THEN me.pending
  ELSE Append(me.pending, NewEvent("SubFailed", 0, me.token))

LEMMA ArrivedDelivered ==
  ASSUME NEW me \in Instance, NEW r
  PROVE  /\ Arrived(me, r) \in Seq(Event)
         /\ Promise!AtMostOneMore(Delivered(me.pending), Delivered(Arrived(me, r)))
<1> DEFINE e == NewEvent("SubFailed", 0, me.token)
<1>1. e \in Event /\ Delivers(e) /\ me.pending \in Seq(Event)
  BY InstanceFields DEF NewEvent, Event, Kinds, Delivers
<1> HIDE DEF e
<1>2. /\ Delivered(me.pending) \in Seq(Event)
      /\ Delivered(Append(me.pending, e)) = Append(Delivered(me.pending), e)
  BY <1>1, DeliveredConcat, DeliveredAppend
<1>3. /\ Delivered(Append(me.pending, e)) # <<>>
      /\ Front(Delivered(Append(me.pending, e))) = Delivered(me.pending)
  BY <1>1, <1>2, FrontAppend
<1>4. Arrived(me, r) = me.pending \/ Arrived(me, r) = Append(me.pending, e)
  BY DEF Arrived, e
<1>5. CASE Arrived(me, r) = me.pending
  BY <1>1, <1>5 DEF Promise!AtMostOneMore
<1>6. CASE Arrived(me, r) = Append(me.pending, e)
  <2>1. Promise!AtMostOneMore(Delivered(me.pending), Delivered(Append(me.pending, e)))
    BY <1>3 DEF Promise!AtMostOneMore, Promise!Front, Front
  <2>2. Append(me.pending, e) \in Seq(Event)
    BY <1>1
  <2> QED
    BY <1>6, <2>1, <2>2
<1> QED
  BY <1>4, <1>5, <1>6

(* What an accepted answer makes of the fields of me, for next. *)
Settled(me, r, carry, next) ==
  /\ next.status = FinalStatus(CommittedStatus(me.status, me.dispatched), r.outcome)
  /\ next.dispatched = <<>>
  /\ IF r.outcome = "CONTINUED"
     THEN /\ next.pending = <<OrchestratorStarted, ExecutionStarted>> \o carry
                              \o Arrived(me, r)
          /\ next.history = <<>> /\ next.finished = "none"
     ELSE /\ next.pending = Arrived(me, r)
          /\ next.history = (me.history \o me.dispatched) \o Confirmations(r, me.token)
          /\ next.finished = IF r.outcome \in Terminal THEN r.outcome ELSE me.finished

LEMMA CommittedFields ==
  ASSUME NEW me, NEW r, NEW carry, NEW token
  PROVE  Settled(me, r, carry, Committed(me, r, carry, token))
<1> DEFINE next == Committed(me, r, carry, token)
<1>1. /\ next.status = FinalStatus(CommittedStatus(me.status, me.dispatched), r.outcome)
      /\ next.dispatched = <<>> /\ next.pending = Mailbox(me, r, carry)
      /\ next.history = IF r.outcome = "CONTINUED" THEN <<>>
                        ELSE me.history \o me.dispatched \o Confirmations(r, me.token)
      /\ next.finished = IF r.outcome \in Terminal THEN r.outcome
                         ELSE IF r.outcome = "CONTINUED" THEN "none" ELSE me.finished
  BY DEF Committed
<1>2. Mailbox(me, r, carry) =
        IF r.outcome = "CONTINUED"
        THEN <<OrchestratorStarted, ExecutionStarted>> \o carry \o Arrived(me, r)
        ELSE Arrived(me, r)
  BY DEF Mailbox, Arrived
<1>3. "CONTINUED" \notin Terminal
  BY DEF Terminal
<1> HIDE DEF next
<1>4. Settled(me, r, carry, next)
  <2>1. CASE r.outcome = "CONTINUED"
    BY <1>1, <1>2, <1>3, <2>1 DEF Settled
  <2>2. CASE r.outcome # "CONTINUED"
    BY <1>1, <1>2, <2>2 DEF Settled
  <2> QED
    BY <2>1, <2>2
<1> QED
  BY <1>4 DEF next

(* The answer that ends a turn: the batch goes to the log. *)
LEMMA CommittedProcesses ==
  ASSUME Core, NEW i \in Ids, NEW r \in Responses, NEW carry, NEW token,
         r.outcome \in {"none"} \union Terminal, Exists(i),
         IsTerminal(i) => r.outcome \in Terminal,
         Delivered(inst[i].dispatched) # <<>>,
         inst'[i] = Committed(inst[i], r, carry, token)
  PROVE  Promise!Process(i)
<1> DEFINE me == inst[i]
           l == Delivered(me.history)
           b == Delivered(me.dispatched)
           conf == Confirmations(r, me.token)
           mo == ModeOf(inst'[i].status)
<1>1. me \in Instance
  BY DEF Core
<1>2. r.outcome # "CONTINUED"
  BY DEF Terminal
<1>3. /\ inst'[i].dispatched = <<>> /\ inst'[i].pending = Arrived(me, r)
      /\ inst'[i].history = (me.history \o me.dispatched) \o conf
      /\ inst'[i].status = FinalStatus(CommittedStatus(me.status, me.dispatched), r.outcome)
  <2>1. Settled(me, r, carry, inst'[i])
    BY CommittedFields
  <2> QED
    BY <1>2, <2>1 DEF Settled
<1>4. Delivered(inst'[i].history) = l \o b
  <2>1. /\ me.history \in Seq(Event) /\ me.dispatched \in Seq(Event) /\ me.token \in Nat
        /\ conf \in Seq(Event) /\ Delivered(conf) = <<>>
    BY <1>1, InstanceFields, ConfirmationsStayOut
  <2> HIDE DEF me, conf
  <2> DEFINE h == me.history \o me.dispatched
  <2>2. /\ l \in Seq(Event) /\ b \in Seq(Event)
        /\ h \in Seq(Event) /\ Delivered(h) = l \o b
    BY <2>1, DeliveredConcat, ConcatProperties
  <2> HIDE DEF h
  <2> HIDE DEF l, b
  <2>3. Delivered(h \o conf) = Delivered(h) \o Delivered(conf)
    BY <2>1, <2>2, DeliveredConcat
  <2>5. Delivered(h \o conf) = (l \o b) \o <<>>
    BY <2>1, <2>2, <2>3
  <2>4. (l \o b) \o <<>> = l \o b
    BY <2>2
  <2> QED
    BY <1>3, <2>4, <2>5 DEF h, conf
<1>5. Promise!AtMostOneMore(Delivered(me.pending), Delivered(inst'[i].pending))
  BY <1>1, <1>3, ArrivedDelivered
<1>6. mo \in {"over"} \union IF ModeOf(me.status) = "live" THEN {"live"} ELSE {}
  <2>1. CASE r.outcome \in Terminal
    BY <1>3, <2>1 DEF FinalStatus, ModeOf, Terminal
  <2>2. CASE r.outcome = "none" /\ ~IsTerminal(i)
    <3>1. CommittedStatus(me.status, me.dispatched) # "NONE"
      BY DEF CommittedStatus, Exists
    <3>2. inst'[i].status = CommittedStatus(me.status, me.dispatched)
      BY <1>3, <2>2 DEF FinalStatus
    <3>3. ModeOf(me.status) = "live"
      BY <2>2 DEF ModeOf, IsTerminal, Exists
    <3> QED
      BY <3>1, <3>2, <3>3 DEF ModeOf
  <2> QED
    BY <2>1, <2>2
<1>7. Delivered(<<>>) = <<>>
  BY FreshDelivered
<1>8. Promise!Becomes(i, mo, <<>>, l \o b)
  BY <1>3, <1>4, <1>7 DEF Promise!Becomes
<1> QED
  BY <1>5, <1>6, <1>8 DEF Promise!Process

-----------------------------------------------------------------------------
(* A continue-as-new *)

(* m is one element x, then c, then a. *)
Parts(m, x, c, a) ==
  /\ m # <<>> /\ Head(m) = x
  /\ Len(c) \in 0..(Len(m) - 1)
  /\ SubSeq(m, 2, Len(c) + 1) = c
  /\ SubSeq(m, Len(c) + 2, Len(m)) = a

LEMMA PartsOf ==
  ASSUME NEW S, NEW x \in S, NEW c \in Seq(S), NEW a \in Seq(S)
  PROVE  Parts((<<x>> \o c) \o a, x, c, a)
<1> DEFINE m == (<<x>> \o c) \o a
           f == SubSeq(m, 2, Len(c) + 1)
           g == SubSeq(m, Len(c) + 2, Len(m))
<1>1. <<x>> \in Seq(S) /\ <<x>> \o c \in Seq(S) /\ Len(<<x>> \o c) = 1 + Len(c)
  OBVIOUS
<1>2. /\ Len(c) \in Nat /\ Len(a) \in Nat
      /\ m \in Seq(S) /\ Len(m) = 1 + Len(c) + Len(a)
  BY <1>1
<1>3. /\ m[1] = x
      /\ \A k \in 1..Len(c) : m[k + 1] = c[k]
      /\ \A k \in 1..Len(a) : m[Len(c) + 1 + k] = a[k]
  BY <1>1, <1>2
<1> HIDE DEF m
<1>4. m # <<>> /\ Head(m) = x /\ Len(c) \in 0..(Len(m) - 1)
  BY <1>2, <1>3
<1>5. f = c
  <2>1. f \in Seq(S) /\ Len(f) = Len(c) /\ \A k \in 1..Len(c) : f[k] = m[k + 1]
    BY <1>2
  <2> HIDE DEF f
  <2>2. \A k \in 1..Len(c) : f[k] = c[k]
    BY <1>3, <2>1
  <2> QED
    BY <2>1, <2>2
<1>6. g = a
  <2>1. /\ g \in Seq(S) /\ Len(g) = Len(a)
        /\ \A k \in 1..Len(a) : g[k] = m[Len(c) + 1 + k]
    BY <1>2
  <2> HIDE DEF g
  <2>2. \A k \in 1..Len(a) : g[k] = a[k]
    BY <1>3, <2>1
  <2> QED
    BY <2>1, <2>2
<1>7. Parts(m, x, c, a)
  BY <1>4, <1>5, <1>6 DEF Parts, f, g
<1> QED
  BY <1>7 DEF m

(* The carryover was received, and each of its events once. *)
LEMMA CarryoverKept ==
  ASSUME NEW evs \in Seq(Event), NEW c \in Carryovers(evs)
  PROVE  /\ c \in Seq(Event) /\ Delivered(c) = c
         /\ Promise!IsInjective(c)
         /\ Promise!ToSet(c) \subseteq Promise!ToSet(Delivered(evs))
<1> DEFINE raised == {evs[k] : k \in {j \in DOMAIN evs : evs[j].kind = "Raised"}}
<1>1. c \in Seq(Event)
  BY CarryoverType
<1>2. PICK n \in 0..Cardinality(raised) : c \in [1..n -> raised]
  BY DEF Carryovers
<1>3. Promise!IsInjective(c)
  BY DEF Carryovers, IsInjective, Promise!IsInjective
<1>4. ASSUME NEW k \in 1..Len(c)
      PROVE  Delivers(c[k]) /\ c[k] \in ToSet(Delivered(evs))
  <2>1. c[k] \in raised
    BY <1>1, <1>2
  <2>2. PICK j \in 1..Len(evs) : c[k] = evs[j] /\ evs[j].kind = "Raised"
    BY <2>1
  <2>3. Delivers(evs[j])
    BY <2>2 DEF Delivers
  <2> QED
    BY <2>2, <2>3, DeliveredHas
<1>5. Delivered(c) = c
  BY <1>1, <1>4, DeliveredAll
<1>6. Promise!ToSet(c) \subseteq Promise!ToSet(Delivered(evs))
  <2>1. \A k \in 1..Len(c) : c[k] \in {Delivered(evs)[j] : j \in DOMAIN Delivered(evs)}
    BY <1>4 DEF ToSet
  <2>2. DOMAIN c = 1..Len(c)
    BY <1>1
  <2> QED
    BY <2>1, <2>2 DEF Promise!ToSet
<1> QED
  BY <1>1, <1>3, <1>5, <1>6

(* The mailbox of the next execution: it starts with the event it begins     *)
(* with, the carryover and what arrived follow.                              *)
LEMMA ContinuedMail ==
  ASSUME Core, NEW i \in Ids, NEW r \in Responses, NEW token,
         NEW carry \in Carryovers(inst[i].history \o inst[i].dispatched),
         r.outcome = "CONTINUED", inst'[i] = Committed(inst[i], r, carry, token)
  PROVE  Parts(Delivered(inst'[i].pending), ExecutionStarted, carry,
               Delivered(Arrived(inst[i], r)))
<1> DEFINE s == <<OrchestratorStarted, ExecutionStarted>>
           x == Arrived(inst[i], r)
<1>1. inst[i] \in Instance /\ inst[i].history \o inst[i].dispatched \in Seq(Event)
  BY InstanceFields, ConcatProperties DEF Core
<1>2. inst'[i].pending = (s \o carry) \o x
  <2>1. Settled(inst[i], r, carry, inst'[i])
    BY CommittedFields
  <2> QED
    BY <2>1 DEF Settled
<1>3. carry \in Seq(Event) /\ Delivered(carry) = carry
  BY <1>1, CarryoverKept
<1>4. x \in Seq(Event) /\ Delivered(x) \in Seq(Event)
  BY <1>1, ArrivedDelivered, DeliveredConcat
<1>5. s \in Seq(Event) /\ Delivered(s) = <<ExecutionStarted>>
  <2>1. Fresh(0).pending = s
    BY DEF Fresh
  <2> QED
    BY <2>1, FreshDelivered, StartEvents
<1> HIDE DEF s, x
<1>6. s \o carry \in Seq(Event) /\ Delivered(s \o carry) = <<ExecutionStarted>> \o carry
  BY <1>3, <1>5, DeliveredConcat, ConcatProperties
<1>7. Delivered((s \o carry) \o x) = (<<ExecutionStarted>> \o carry) \o Delivered(x)
  BY <1>4, <1>6, DeliveredConcat
<1>8. ExecutionStarted \in Event
  BY StartEvents
<1>9. Parts(Delivered(inst'[i].pending), ExecutionStarted, carry, Delivered(x))
  BY <1>2, <1>3, <1>4, <1>7, <1>8, PartsOf
<1> QED
  BY <1>9 DEF x

(* The answer that ends the execution and begins the next. *)
LEMMA CommittedContinues ==
  ASSUME Core, NEW i \in Ids, NEW r \in Responses, NEW token,
         NEW carry \in Carryovers(inst[i].history \o inst[i].dispatched),
         r.outcome = "CONTINUED", Exists(i), ~IsTerminal(i),
         Delivered(inst[i].dispatched) # <<>>,
         inst'[i] = Committed(inst[i], r, carry, token)
  PROVE  Promise!ContinueAsNew(i)
<1> DEFINE me == inst[i]
           evs == me.history \o me.dispatched
           l == Delivered(me.history)
           b == Delivered(me.dispatched)
           a == Delivered(Arrived(me, r))
           m == Delivered(inst'[i].pending)
<1>1. /\ me \in Instance /\ me.history \in Seq(Event) /\ me.dispatched \in Seq(Event)
      /\ evs \in Seq(Event)
  BY InstanceFields, ConcatProperties DEF Core
<1>2. inst'[i].dispatched = <<>> /\ inst'[i].history = <<>> /\ inst'[i].status = "PENDING"
  <2>1. Settled(me, r, carry, inst'[i])
    BY CommittedFields
  <2> QED
    BY <2>1 DEF Settled, FinalStatus
<1>3. /\ Delivered(evs) = l \o b /\ carry \in Seq(Event)
      /\ Promise!IsInjective(carry)
      /\ Promise!ToSet(carry) \subseteq Promise!ToSet(Delivered(evs))
  BY <1>1, CarryoverKept, DeliveredConcat
<1>4. Promise!AtMostOneMore(Delivered(me.pending), a)
  BY <1>1, ArrivedDelivered
<1>5. Parts(m, ExecutionStarted, carry, a)
  BY ContinuedMail
<1>6. ModeOf(me.status) = "live" /\ ModeOf("PENDING") = "live"
  BY DEF ModeOf, IsTerminal, Exists, Terminal
<1>7. Delivered(<<>>) = <<>>
  BY FreshDelivered
<1>8. Promise!Becomes(i, "live", <<>>, <<>>)
  BY <1>2, <1>6, <1>7 DEF Promise!Becomes
<1>9. b # <<>>
  OBVIOUS
<1> QED
  <2> HIDE DEF me, m, a
  <2>1. /\ Len(carry) \in 0..(Len(m) - 1) /\ SubSeq(m, 2, Len(carry) + 1) = carry
        /\ Promise!After(Len(carry) + 1, m) = a /\ m # <<>> /\ Head(m) = ExecutionStarted
    BY <1>3, <1>5 DEF Parts, Promise!After
  <2> QED
    BY <1>3, <1>4, <1>6, <1>8, <1>9, <2>1 DEF Promise!ContinueAsNew, me, m

-----------------------------------------------------------------------------
(* The invariant: nothing is dispatched but what a worker has, or had and    *)
(* will not answer; nothing waits but events of the mailbox; and what is     *)
(* over was reported to be.                                                  *)

Tidy(i) ==
  /\ inst[i].dispatched # <<>> =>
       i \in inFlight /\ \A k \in 1..Len(out[i]) : IsCurrent(i, k)
  /\ \A k \in 1..Len(out[i]) : IsCurrent(i, k) => inst[i].dispatched # <<>>
  /\ inst[i].pending # <<>> => Delivered(inst[i].pending) # <<>>
  /\ inst[i].dispatched # <<>> => Delivered(inst[i].dispatched) # <<>>
  /\ ~Exists(i) => inst[i].pending = <<>>
  /\ "raise" \notin Outcomes /\ IsTerminal(i) => inst[i].finished # "none"

(* The threads of timers start, and only what is over is replaced. *)
Regular == "raise" \notin Outcomes /\ Replaceable \subseteq Terminal

(* The step keeps i tidy and is one of the mailbox of i. *)
Follows(i) == Tidy(i)' /\ (Regular => MailStep(i))

LEMMA UntouchedFollows ==
  ASSUME NEW i \in Ids, Tidy(i), inst'[i] = inst[i],
         \/ out'[i] = out[i] /\ (i \in inFlight => i \in inFlight')
         \/ out'[i] = <<>> /\ (i \in inFlight => i \in inFlight')
         \/ out'[i] = <<>> /\ inst[i].dispatched = <<>>
  PROVE  Follows(i)
<1>1. MailStep(i)
  BY SameStays DEF MailStep
<1>2. CASE out'[i] = out[i] /\ (i \in inFlight => i \in inFlight')
  BY <1>1, <1>2 DEF Tidy, IsCurrent, Exists, IsTerminal, Follows
<1>3. CASE out'[i] = <<>> /\ (inst[i].dispatched # <<>> => i \in inFlight')
  BY <1>1, <1>3 DEF Tidy, IsCurrent, Exists, IsTerminal, Follows
<1> QED
  BY <1>2, <1>3 DEF Tidy

LEMMA PostedFollows ==
  ASSUME Core, NEW i \in Ids, Tidy(i), NEW e \in Event, Delivers(e), Exists(i),
         inst'[i] = [inst[i] EXCEPT !.pending = Append(inst[i].pending, e)],
         out'[i] = out[i], inFlight' = inFlight
  PROVE  Follows(i)
<1>1. MailStep(i)
  BY PostedDelivers DEF MailStep
<1>2. /\ inst[i] \in Instance
      /\ Delivered(Append(inst[i].pending, e)) # <<>>
  <2>1. inst[i] \in Instance /\ inst[i].pending \in Seq(Event)
    BY InstanceFields DEF Core
  <2>2. /\ Delivered(Append(inst[i].pending, e)) = Append(Delivered(inst[i].pending), e)
        /\ Delivered(inst[i].pending) \in Seq(Event)
    BY <2>1, DeliveredAppend, DeliveredConcat
  <2> QED
    BY <2>1, <2>2
<1>3. /\ inst'[i].status = inst[i].status /\ inst'[i].token = inst[i].token
      /\ inst'[i].dispatched = inst[i].dispatched /\ inst'[i].finished = inst[i].finished
      /\ inst'[i].pending = Append(inst[i].pending, e)
  BY <1>2 DEF Instance
<1>4. Tidy(i)'
  BY <1>2, <1>3 DEF Tidy, IsCurrent, Exists, IsTerminal
<1> QED
  BY <1>1, <1>4 DEF Follows

LEMMA CreatedFollows ==
  ASSUME Rest, Owned, NEW i \in Ids, Regular => ~Exists(i) \/ IsTerminal(i),
         inst'[i] = Fresh(nextToken), out'[i] = out[i]
  PROVE  Follows(i)
<1>1. Regular => MailStep(i)
  BY CreatedCreates DEF MailStep
<1>2. /\ inst'[i].status = "PENDING" /\ inst'[i].token = nextToken
      /\ inst'[i].dispatched = <<>>
  BY DEF Fresh
<1>3. ASSUME NEW k \in 1..Len(out'[i]) PROVE ~IsCurrent(i, k)'
  <2>1. out[i][k].token < nextToken /\ out'[i][k] = out[i][k] /\ nextToken \in Nat
    BY <1>3 DEF Owned, Held, Rest
  <2>2. out[i][k].token \in Nat
    <3>1. out[i] \in Seq(WorkItem) /\ k \in 1..Len(out[i])
      BY <1>3 DEF Rest
    <3>2. out[i][k] \in WorkItem
      BY <3>1
    <3> QED
      BY <3>2 DEF WorkItem
  <2> QED
    BY <1>2, <2>1, <2>2 DEF IsCurrent
<1>4. Delivered(inst'[i].pending) # <<>>
  <2>1. Delivered(inst'[i].pending) = <<ExecutionStarted>>
    BY FreshDelivered
  <2> QED
    BY <2>1
<1>5. Tidy(i)'
  BY <1>2, <1>3, <1>4 DEF Tidy, Exists, IsTerminal, Terminal
<1> QED
  BY <1>1, <1>5 DEF Follows

LEMMA GoneFollows ==
  ASSUME NEW i \in Ids, IsTerminal(i), inst'[i] = Absent
  PROVE  Follows(i)
<1>1. MailStep(i)
  BY GoneForgets DEF MailStep
<1>2. Tidy(i)'
  BY DEF Absent, Tidy, IsCurrent, Exists, IsTerminal, Terminal
<1> QED
  BY <1>1, <1>2 DEF Follows

LEMMA RestoredFollows ==
  ASSUME Core, NEW i \in Ids, Tidy(i), Exists(i), inst'[i] = Restored(inst[i]),
         out'[i] = <<>>
  PROVE  Follows(i)
<1>1. MailStep(i)
  BY RestoredGivesUp DEF MailStep
<1> DEFINE p == inst[i].pending
           d == inst[i].dispatched
<1>2. /\ inst'[i].status = inst[i].status /\ inst'[i].finished = inst[i].finished
      /\ inst'[i].dispatched = <<>> /\ inst'[i].pending = d \o p
      /\ p \in Seq(Event) /\ d \in Seq(Event)
  BY DEF Core, Instance, Restored
<1>3. inst'[i].pending # <<>> => Delivered(inst'[i].pending) # <<>>
  <2> HIDE DEF p, d
  <2>1. /\ Delivered(d) \in Seq(Event) /\ Delivered(p) \in Seq(Event)
        /\ Delivered(d \o p) = Delivered(d) \o Delivered(p)
    BY <1>2, DeliveredConcat
  <2>2. (d # <<>> => Delivered(d) # <<>>) /\ (p # <<>> => Delivered(p) # <<>>)
    BY DEF Tidy, p, d
  <2>3. d \o p # <<>> => d # <<>> \/ p # <<>>
    BY <1>2
  <2>4. Delivered(d) # <<>> \/ Delivered(p) # <<>> => Delivered(d) \o Delivered(p) # <<>>
    BY <2>1
  <2> QED
    BY <1>2, <2>1, <2>2, <2>3, <2>4
<1>4. Tidy(i)'
  BY <1>2, <1>3 DEF Tidy, IsCurrent, Exists, IsTerminal
<1> QED
  BY <1>1, <1>4 DEF Follows

LEMMA DispatchedFollows ==
  ASSUME Core, NEW i \in Ids, Tidy(i), NEW new,
         new = inst[i].pending \/ new = <<OrchestratorStarted>> \o inst[i].pending,
         inst[i].pending # <<>>, i \notin inFlight,
         inst'[i] = [inst[i] EXCEPT !.dispatched = new, !.pending = <<>>],
         NEW item, item.token = inst[i].token, out'[i] = <<item>>, i \in inFlight'
  PROVE  Follows(i)
<1>1. Exists(i) /\ Delivered(inst[i].pending) # <<>> /\ inst[i].dispatched = <<>>
  BY DEF Tidy
<1>2. MailStep(i)
  BY <1>1, DispatchedTakes DEF MailStep
<1>3. /\ inst'[i].status = inst[i].status /\ inst'[i].finished = inst[i].finished
      /\ inst'[i].token = inst[i].token
      /\ inst'[i].dispatched = new /\ inst'[i].pending = <<>>
      /\ inst[i].pending \in Seq(Event)
  BY DEF Core, Instance
<1>4. new # <<>> /\ Delivered(new) # <<>>
  <2>1. CASE new = inst[i].pending
    BY <1>1, <2>1
  <2>2. CASE new = <<OrchestratorStarted>> \o inst[i].pending
    <3> DEFINE s == <<OrchestratorStarted>>
               p == inst[i].pending
    <3>1. s \in Seq(Event) /\ p \in Seq(Event) /\ s # <<>>
      BY <1>3, StartEvents
    <3> HIDE DEF s, p
    <3>2. /\ Delivered(s) \in Seq(Event) /\ Delivered(p) \in Seq(Event)
          /\ Delivered(s \o p) = Delivered(s) \o Delivered(p)
      BY <3>1, DeliveredConcat
    <3>3. s \o p # <<>>
      BY <3>1
    <3>4. Delivered(p) # <<>> /\ new = s \o p
      BY <1>1, <2>2 DEF p, s
    <3> QED
      BY <3>2, <3>3, <3>4
  <2> QED
    BY <2>1, <2>2
<1>5. \A k \in 1..Len(out'[i]) : IsCurrent(i, k)'
  <2>1. Len(out'[i]) = 1 /\ out'[i][1] = item
    OBVIOUS
  <2> QED
    BY <1>1, <1>3, <2>1 DEF IsCurrent, Exists
<1>6. Tidy(i)'
  BY <1>1, <1>3, <1>4, <1>5 DEF Tidy, IsTerminal, Exists
<1> QED
  BY <1>2, <1>6 DEF Follows

LEMMA AcceptedFollows ==
  ASSUME Core, NEW i \in Ids, Tidy(i), NEW k \in 1..Len(out[i]), IsCurrent(i, k),
         NEW r \in Responses, Answerable(i, inst[i], out[i][k].new, r),
         NEW token,
         NEW carry \in IF r.outcome = "CONTINUED"
                       THEN Carryovers(inst[i].history \o inst[i].dispatched)
                       ELSE {<<>>},
         inst'[i] = Committed(inst[i], r, carry, token), out'[i] = <<>>
  PROVE  Follows(i)
<1> DEFINE me == inst[i]
<1>1. Exists(i) /\ Delivered(me.dispatched) # <<>>
  BY DEF Tidy, IsCurrent
<1>2. r.outcome \in {"none", "CONTINUED", "raise"} \union Terminal
  BY ResponseFields, OutcomesAssumption
<1>3. "raise" \notin Outcomes =>
        r.outcome # "raise" /\ (IsTerminal(i) => r.outcome \in Terminal)
  <2>1. me.finished \in {"none"} \union Terminal
    BY InstanceFields DEF Core
  <2>2. "raise" \notin Outcomes => (IsTerminal(i) => r.outcome \in Terminal)
    BY <2>1 DEF Tidy, Answerable
  <2> QED
    BY <2>2, ResponseFields
<1>4. ASSUME Regular PROVE MailStep(i)
  <2>1. r.outcome # "raise" /\ (IsTerminal(i) => r.outcome \in Terminal)
    BY <1>3, <1>4 DEF Regular
  <2>2. CASE r.outcome = "CONTINUED"
    <3>1. ~IsTerminal(i)
      BY <2>1, <2>2 DEF Terminal
    <3>2. Promise!ContinueAsNew(i)
      BY <1>1, <2>2, <3>1, CommittedContinues
    <3> QED
      BY <3>2 DEF MailStep
  <2>3. CASE r.outcome # "CONTINUED"
    <3>1. Promise!Process(i)
      BY <1>1, <1>2, <2>1, <2>3, CommittedProcesses
    <3> QED
      BY <3>1 DEF MailStep
  <2> QED
    BY <2>2, <2>3
<1>5. Settled(me, r, carry, inst'[i])
  BY CommittedFields
<1>6. inst'[i].pending # <<>> => Delivered(inst'[i].pending) # <<>>
  <2>1. CASE r.outcome = "CONTINUED"
    BY <2>1, ContinuedMail DEF Parts
  <2>2. CASE r.outcome # "CONTINUED"
    <3> DEFINE e == NewEvent("SubFailed", 0, me.token)
    <3>1. /\ e \in Event /\ Delivers(e) /\ me.pending \in Seq(Event)
      BY DEF Core, Instance, NewEvent, Event, Kinds, Delivers
    <3>2. inst'[i].pending = me.pending \/ inst'[i].pending = Append(me.pending, e)
      BY <1>5, <2>2 DEF Settled, Arrived
    <3> HIDE DEF e
    <3>3. Delivered(Append(me.pending, e)) # <<>>
      <4>1. /\ Delivered(Append(me.pending, e)) = Append(Delivered(me.pending), e)
            /\ Delivered(me.pending) \in Seq(Event)
        BY <3>1, DeliveredAppend, DeliveredConcat
      <4> QED
        BY <4>1
    <3> QED
      BY <3>2, <3>3 DEF Tidy
  <2> QED
    BY <2>1, <2>2
<1>7. Exists(i)'
  <2>1. CommittedStatus(me.status, me.dispatched) # "NONE"
    BY <1>1 DEF CommittedStatus, Exists
  <2> QED
    BY <1>2, <1>5, <2>1 DEF Settled, FinalStatus, Exists, Terminal
<1>9. ASSUME "raise" \notin Outcomes, IsTerminal(i)' PROVE inst'[i].finished # "none"
  <2>1. CASE r.outcome \in Terminal
    BY <1>5, <2>1 DEF Settled, Terminal
  <2>2. CASE r.outcome = "CONTINUED"
    BY <1>5, <1>9, <2>2 DEF Settled, FinalStatus, IsTerminal, Terminal
  <2>3. CASE r.outcome = "none"
    <3>1. inst'[i].status = CommittedStatus(me.status, me.dispatched)
      BY <1>5, <2>3 DEF Settled, FinalStatus
    <3>2. ~IsTerminal(i)
      BY <1>3, <1>9, <2>3 DEF Terminal
    <3>3. CommittedStatus(me.status, me.dispatched) \notin Terminal
      BY <3>2 DEF CommittedStatus, IsTerminal, Terminal
    <3> QED
      BY <1>9, <3>1, <3>3 DEF IsTerminal
  <2> QED
    BY <1>2, <1>3, <1>9, <2>1, <2>2, <2>3
<1>8. inst'[i].dispatched = <<>>
  BY <1>5 DEF Settled
<1>10. Tidy(i)'
  BY <1>6, <1>7, <1>8, <1>9 DEF Tidy
<1> QED
  BY <1>4, <1>10 DEF Follows

-----------------------------------------------------------------------------
(* The steps of all instances *)

TidyAll == \A i \in Ids : Tidy(i)
AllFollow == \A i \in Ids : Follows(i)

LEMMA NothingFollows ==
  ASSUME TidyAll, UNCHANGED <<inst, out, inFlight>>
  PROVE  AllFollow
  BY UntouchedFollows DEF TidyAll, AllFollow

LEMMA PostFollows ==
  ASSUME Core, TidyAll, NEW i \in Ids, NEW e \in Event, Delivers(e), Exists(i),
         Post(i, e), UNCHANGED <<out, inFlight>>
  PROVE  AllFollow
<1>1. /\ inst'[i] = [inst[i] EXCEPT !.pending = Append(inst[i].pending, e)]
      /\ \A j \in Ids : j # i => inst'[j] = inst[j]
  BY DEF Post, Core
<1>2. Follows(i)
  BY <1>1, PostedFollows DEF TidyAll
<1>3. ASSUME NEW j \in Ids, j # i PROVE Follows(j)
  BY <1>1, <1>3, UntouchedFollows DEF TidyAll
<1> QED
  BY <1>2, <1>3 DEF AllFollow

LEMMA CreateFollows ==
  ASSUME Core, Rest, Owned, TidyAll, NEW i \in Ids,
         Regular => ~Exists(i) \/ IsTerminal(i),
         inst' = [inst EXCEPT ![i] = Fresh(nextToken)], UNCHANGED <<out, inFlight>>
  PROVE  AllFollow
<1>1. inst'[i] = Fresh(nextToken) /\ \A j \in Ids : j # i => inst'[j] = inst[j]
  BY DEF Core
<1>2. Follows(i)
  BY <1>1, CreatedFollows
<1>3. ASSUME NEW j \in Ids, j # i PROVE Follows(j)
  BY <1>1, <1>3, UntouchedFollows DEF TidyAll
<1> QED
  BY <1>2, <1>3 DEF AllFollow

LEMMA RequestFollows ==
  ASSUME Core, Rest, Owned, TidyAll, Request, "Reset" \notin Requests
  PROVE  AllFollow
<1> USE DEF WorkerSide
<1>1. \A n \in Nat : \A kind \in {"Raised", "Terminated", "Suspended", "Resumed"} :
        NewEvent(kind, n, 0) \in Event /\ Delivers(NewEvent(kind, n, 0))
  BY DEF NewEvent, Event, Kinds, Delivers
<1>2. calls + 1 \in Nat
  BY DEF Rest
<1>3. ASSUME NEW i \in Ids, StartInstance(i) PROVE AllFollow
  <2>1. Regular => ~Exists(i) \/ IsTerminal(i)
    BY <1>3 DEF StartInstance, Exists, IsTerminal, Regular
  <2> QED
    BY <1>3, <2>1, CreateFollows DEF StartInstance
<1>4. ASSUME NEW i \in Ids, RaiseEvent(i) PROVE AllFollow
  BY <1>1, <1>2, <1>4, PostFollows DEF RaiseEvent
<1>5. ASSUME NEW i \in Ids, TerminateInstance(i) PROVE AllFollow
  BY <1>1, <1>2, <1>5, PostFollows DEF TerminateInstance
<1>6. ASSUME NEW i \in Ids, SuspendInstance(i) PROVE AllFollow
  BY <1>1, <1>2, <1>6, PostFollows DEF SuspendInstance
<1>7. ASSUME NEW i \in Ids, ResumeInstance(i) PROVE AllFollow
  BY <1>1, <1>2, <1>7, PostFollows DEF ResumeInstance
<1>8. ASSUME NEW S, PurgeInstances(S) PROVE AllFollow
  <2>1. ASSUME NEW j \in Ids PROVE Follows(j)
    <3>1. inst'[j] = IF j \in S THEN Absent ELSE inst[j]
      BY <1>8 DEF PurgeInstances
    <3>2. CASE j \in S
      BY <1>8, <3>1, <3>2, GoneFollows DEF PurgeInstances
    <3>3. CASE j \notin S
      BY <1>8, <3>1, <3>3, UntouchedFollows DEF PurgeInstances, TidyAll
    <3> QED
      BY <3>2, <3>3
  <2> QED
    BY <2>1 DEF AllFollow
<1>9. ASSUME NEW i \in Ids, NEW j \in Ids, RestartInstance(i, j) PROVE AllFollow
  BY <1>9, CreateFollows DEF RestartInstance
<1>10. ~Reset
  BY DEF Reset, Call
<1> QED
  BY <1>3, <1>4, <1>5, <1>6, <1>7, <1>8, <1>9, <1>10 DEF Request

LEMMA GetWorkItemsFollows ==
  ASSUME Core, Rest, Owned, TidyAll, GetWorkItems
  PROVE  AllFollow
<1>1. CASE DispatchOrchestration
  <2>0. PICK i \in Ids : \E new, item : Dispatches(i, new, item)
    BY <1>1, DispatchedInstance
  <2>1. PICK new, item : Dispatches(i, new, item)
    BY <2>0
  <2>2. item.token = inst[i].token
    BY <2>1 DEF Dispatches
  <2>3. new = inst[i].pending \/ new = <<OrchestratorStarted>> \o inst[i].pending
    BY <2>1 DEF Dispatches
  <2>4. /\ inst[i].pending # <<>> /\ i \notin inFlight
        /\ inst' = [inst EXCEPT ![i] = [@ EXCEPT !.dispatched = new, !.pending = <<>>]]
        /\ inFlight' = inFlight \union {i}
        /\ out' = [out EXCEPT ![i] = Append(@, item)]
    BY <2>1 DEF Dispatches
  <2>5. /\ inst'[i] = [inst[i] EXCEPT !.dispatched = new, !.pending = <<>>]
        /\ \A j \in Ids : j # i => inst'[j] = inst[j] /\ out'[j] = out[j]
    BY <2>4 DEF Core, Rest
  <2>6. out'[i] = <<item>> /\ i \in inFlight'
    <3>1. out[i] = <<>>
      BY <2>4 DEF Owned, Held
    <3> QED
      BY <2>4, <3>1 DEF Rest
  <2>7. Follows(i)
    BY <2>2, <2>3, <2>4, <2>5, <2>6, DispatchedFollows DEF TidyAll
  <2>8. ASSUME NEW j \in Ids, j # i PROVE Follows(j)
    BY <2>4, <2>5, <2>8, UntouchedFollows DEF TidyAll
  <2> QED
    BY <2>7, <2>8 DEF AllFollow
<1>2. CASE RequeueInFlight \/ NoOrchestrationReady
  BY <1>2, NothingFollows DEF RequeueInFlight, NoOrchestrationReady
<1> QED
  BY <1>1, <1>2 DEF GetWorkItems

(* No history is so long that the answer of a worker is refused. *)
WithinHistory ==
  \A i \in Ids : Len(inst[i].history) + Len(inst[i].dispatched) <= HistoryLimit

LEMMA AnswerFollows ==
  ASSUME Core, Rest, Owned, TidyAll, NEW i \in Ids, CompleteOrchestratorTask(i)
  PROVE  AllFollow
<1>1. PICK k \in 1..Len(out[i]), r \in Responses :
        /\ IsCurrent(i, k)
        /\ Answerable(i, inst[i], out[i][k].new, r)
        /\ \E carry \in IF r.outcome = "CONTINUED"
                         THEN Carryovers(inst[i].history \o inst[i].dispatched)
                         ELSE {<<>>} : Accept(i, r, carry)
        /\ Answer(i, k)
  BY DEF CompleteOrchestratorTask
<1>2. PICK carry \in IF r.outcome = "CONTINUED"
                     THEN Carryovers(inst[i].history \o inst[i].dispatched)
                     ELSE {<<>>} : Accept(i, r, carry)
  BY <1>1
<1> DEFINE created == r.sub # None /\ Creatable(r.sub)
           token == IF created THEN nextToken + 1 ELSE nextToken
           next == Committed(inst[i], r, carry, token)
<1>3. /\ inst' = [j \in Ids |-> IF j = i THEN next
                                ELSE IF created /\ j = r.sub THEN Fresh(nextToken)
                                ELSE inst[j]]
      /\ inFlight' = inFlight \ {i}
  BY <1>2 DEF Accept, Released
<1>4. out'[i] = <<>> /\ \A j \in Ids : j # i => out'[j] = out[j]
  BY <1>1, GivenBack DEF Answer
<1> HIDE DEF created, token
<1>5. Follows(i)
  <2>1. inst'[i] = next
    BY <1>3
  <2>2. Tidy(i)
    BY DEF TidyAll
  <2> QED
    BY <1>1, <1>4, <2>1, <2>2, AcceptedFollows
<1>6. ASSUME NEW j \in Ids, j # i PROVE Follows(j)
  <2>1. out'[j] = out[j] /\ (j \in inFlight => j \in inFlight')
    BY <1>3, <1>4, <1>6
  <2>2. CASE created /\ j = r.sub
    <3>1. inst'[j] = Fresh(nextToken) /\ (~Exists(j) \/ IsTerminal(j))
      BY <1>3, <1>6, <2>2 DEF created, Creatable
    <3> QED
      BY <2>1, <3>1, CreatedFollows
  <2>3. CASE ~(created /\ j = r.sub)
    <3>1. inst'[j] = inst[j]
      BY <1>3, <1>6, <2>3
    <3> QED
      BY <2>1, <3>1, UntouchedFollows DEF TidyAll
  <2> QED
    BY <2>2, <2>3
<1> QED
  BY <1>5, <1>6 DEF AllFollow

LEMMA IgnoredFollows ==
  ASSUME Core, Rest, Owned, TidyAll, WithinHistory, NEW i \in Ids, IgnoredAnswer(i)
  PROVE  AllFollow
<1>1. PICK k \in 1..Len(out[i]) :
        /\ out' = [out EXCEPT ![i] = RemoveAt(@, k)]
        /\ ~IsCurrent(i, k) \/ Len(inst[i].history) + Len(inst[i].dispatched) > HistoryLimit
        /\ inFlight' = inFlight \ {i} /\ inst' = inst
  BY DEF IgnoredAnswer, Answer, Released
<1>2. out'[i] = <<>> /\ \A j \in Ids : j # i => out'[j] = out[j]
  BY <1>1, GivenBack
<1>3. inst[i].dispatched = <<>>
  <2>1. ~IsCurrent(i, k)
    <3> DEFINE a == Len(inst[i].history)
               b == Len(inst[i].dispatched)
    <3>1. a \in Nat /\ b \in Nat /\ HistoryLimit \in Nat
      BY InstanceFields, BoundAssumption DEF Core
    <3>2. a + b <= HistoryLimit
      BY DEF WithinHistory
    <3>3. ~IsCurrent(i, k) \/ a + b > HistoryLimit
      BY <1>1
    <3> HIDE DEF a, b
    <3> QED
      BY <3>1, <3>2, <3>3
  <2> QED
    BY <2>1 DEF TidyAll, Tidy
<1>4. ASSUME NEW j \in Ids PROVE Follows(j)
  <2>1. inst'[j] = inst[j] /\ Tidy(j)
    BY <1>1 DEF TidyAll
  <2>2. CASE j = i
    BY <1>2, <1>3, <2>1, <2>2, UntouchedFollows
  <2>3. CASE j # i
    BY <1>1, <1>2, <2>1, <2>3, UntouchedFollows
  <2> QED
    BY <2>2, <2>3
<1> QED
  BY <1>4 DEF AllFollow

LEMMA AbandonFollows ==
  ASSUME Core, Rest, Owned, TidyAll, NEW i \in Ids, AbandonTaskOrchestratorWorkItem(i)
  PROVE  AllFollow
<1>1. PICK k \in 1..Len(out[i]) :
        /\ Abandon(i, out[i][k].token)
        /\ out' = [out EXCEPT ![i] = RemoveAt(@, k)]
  BY DEF AbandonTaskOrchestratorWorkItem
<1>2. out'[i] = <<>> /\ \A j \in Ids : j # i => out'[j] = out[j]
  BY <1>1, GivenBack
<1>3. CASE /\ Exists(i)
           /\ inst' = [inst EXCEPT ![i] = Restored(inst[i])]
           /\ inFlight' = inFlight \ {i}
  <2>1. inst'[i] = Restored(inst[i]) /\ \A j \in Ids : j # i => inst'[j] = inst[j]
    BY <1>3 DEF Core
  <2>2. Follows(i)
    BY <1>2, <1>3, <2>1, RestoredFollows DEF TidyAll
  <2>3. ASSUME NEW j \in Ids, j # i PROVE Follows(j)
    BY <1>2, <1>3, <2>1, <2>3, UntouchedFollows DEF TidyAll
  <2> QED
    BY <2>2, <2>3 DEF AllFollow
<1>4. CASE UNCHANGED <<inst, inFlight>>
  <2>1. ASSUME NEW j \in Ids PROVE Follows(j)
    BY <1>2, <1>4, UntouchedFollows DEF TidyAll
  <2> QED
    BY <2>1 DEF AllFollow
<1> QED
  BY <1>1, <1>3, <1>4 DEF Abandon, Released

LEMMA WorkerFollows ==
  ASSUME Core, Rest, Owned, TidyAll, WithinHistory, Worker
  PROVE  AllFollow
<1>1. ASSUME NEW i \in Ids, LoseAnswer(i) PROVE AllFollow
  <2>1. PICK k \in 1..Len(out[i]) : out' = [out EXCEPT ![i] = RemoveAt(@, k)]
    BY <1>1 DEF LoseAnswer
  <2>2. out'[i] = <<>> /\ \A j \in Ids : j # i => out'[j] = out[j]
    BY <2>1, GivenBack
  <2>3. ASSUME NEW j \in Ids PROVE Follows(j)
    BY <1>1, <2>2, UntouchedFollows DEF TidyAll, LoseAnswer
  <2> QED
    BY <2>3 DEF AllFollow
<1>2. CASE WorkerCrash
  <2>1. ASSUME NEW j \in Ids PROVE Follows(j)
    BY <1>2, UntouchedFollows DEF TidyAll, WorkerCrash
  <2> QED
    BY <2>1 DEF AllFollow
<1>3. ASSUME NEW a \in running, CompleteActivityTask(a) PROVE AllFollow
  <2>1. a.inst \in Ids /\ a.id \in Nat /\ a.tok \in Nat
    BY <1>3 DEF Rest, Activity
  <2>2. /\ NewEvent("TaskDone", a.id, a.tok) \in Event
        /\ Delivers(NewEvent("TaskDone", a.id, a.tok))
    BY <2>1 DEF NewEvent, Event, Kinds, Delivers
  <2>3. CASE Exists(a.inst)
    BY <1>3, <2>1, <2>2, <2>3, PostFollows DEF CompleteActivityTask
  <2>4. CASE ~Exists(a.inst)
    BY <1>3, <2>4, NothingFollows DEF CompleteActivityTask
  <2> QED
    BY <2>3, <2>4
<1>4. ~AbandonAgain
  BY DEF AbandonAgain, Owned
<1>5. CASE AbandonTaskActivityWorkItem
  BY <1>5, NothingFollows DEF AbandonTaskActivityWorkItem
<1> QED
  BY <1>1, <1>2, <1>3, <1>4, <1>5, AnswerFollows, IgnoredFollows, AbandonFollows
     DEF Worker

LEMMA BackgroundFollows ==
  ASSUME Core, Rest, TidyAll, Background
  PROVE  AllFollow
<1>1. ASSUME NEW t \in timers, FireTimer(t) PROVE AllFollow
  <2>1. t.inst \in Ids /\ t.id \in Nat /\ t.tok \in Nat
    BY <1>1 DEF Rest, Activity
  <2>2. /\ NewEvent("TimerFired", t.id, t.tok) \in Event
        /\ Delivers(NewEvent("TimerFired", t.id, t.tok))
    BY <2>1 DEF NewEvent, Event, Kinds, Delivers
  <2>3. CASE Receives(t.inst)
    BY <1>1, <2>1, <2>2, <2>3, PostFollows DEF FireTimer, Receives
  <2>4. CASE ~Receives(t.inst)
    BY <1>1, <2>4, NothingFollows DEF FireTimer
  <2> QED
    BY <2>3, <2>4
<1>2. ASSUME NEW w \in watchers, ReportSubOrchestration(w) PROVE AllFollow
  <2> DEFINE kind == IF w.phase = "completed" THEN "SubCompleted" ELSE "SubFailed"
  <2>1. w.parent \in Ids /\ w.id \in Nat /\ w.tok \in Nat
    BY <1>2 DEF Rest, Watcher
  <2>2. NewEvent(kind, w.id, w.tok) \in Event /\ Delivers(NewEvent(kind, w.id, w.tok))
    BY <2>1 DEF NewEvent, Event, Kinds, Delivers
  <2>3. CASE Receives(w.parent)
    <3>1. Post(w.parent, NewEvent(kind, w.id, w.tok)) /\ Exists(w.parent)
      BY <1>2, <2>3 DEF ReportSubOrchestration, Receives
    <3> HIDE DEF kind
    <3> QED
      BY <1>2, <2>1, <2>2, <3>1, PostFollows DEF ReportSubOrchestration
  <2>4. CASE ~Receives(w.parent)
    BY <1>2, <2>4, NothingFollows DEF ReportSubOrchestration
  <2> QED
    BY <2>3, <2>4
<1> QED
  BY <1>1, <1>2, NothingFollows DEF Background, StartWatching, WatcherTimeout

LEMMA InitPromises == Init => Promise!Init /\ TidyAll
<1>1. Delivered(<<>>) = <<>> /\ ModeOf("NONE") = "absent"
  BY FreshDelivered DEF ModeOf, Terminal
<1>2. ASSUME Init PROVE \A i \in Ids : inst[i] = Absent /\ out[i] = <<>>
  BY <1>2 DEF Init
<1>3. ASSUME Init PROVE Promise!Init
  BY <1>1, <1>2, <1>3 DEF Promise!Init, Absent
<1>4. ASSUME Init PROVE TidyAll
  BY <1>2, <1>4 DEF TidyAll, Tidy, Absent, Exists, IsTerminal, Terminal
<1> QED
  BY <1>3, <1>4

LEMMA PromiseStep ==
  ASSUME Dispatched, TidyAll, WithinHistory, [Next]_vars, "Reset" \notin Requests
  PROVE  TidyAll' /\ (Regular => Promise!Next)
<1>1. AllFollow
  <2>1. CASE UNCHANGED vars
    BY <2>1, NothingFollows DEF vars
  <2>2. CASE Next
    BY <2>2, RequestFollows, GetWorkItemsFollows, WorkerFollows, BackgroundFollows
       DEF Next, Dispatched
  <2> QED
    BY <2>1, <2>2
<1>2. \A i \in Ids : Tidy(i)' /\ (Regular => MailStep(i))
  BY <1>1 DEF AllFollow, Follows
<1>3. TidyAll'
  BY <1>2 DEF TidyAll
<1>4. Regular => Promise!Next
  BY <1>2 DEF Promise!Next, MailStep
<1> QED
  BY <1>3, <1>4

(* The backend implements the mailbox: through every interleaving of client  *)
(* requests, streams, answers, abandons, lost answers, crashes, timers and   *)
(* watchers an accepted event is processed once, in the order of acceptance, *)
(* and no batch is left behind, repeated or dropped.  It does so as long as  *)
(* no answer is refused for the length of its history (its batch would stay  *)
(* in dispatched_events and be overwritten by the next one), nothing is      *)
(* reset, no abandon is repeated, the thread of a timer can always be        *)
(* started and the policy of start requests replaces only instances that are *)
(* over.                                                                     *)
THEOREM DeliveryTheorem ==
  ASSUME "Reset" \notin Requests, "lostReply" \notin Faults,
         "raise" \notin Outcomes, Replaceable \subseteq Terminal
  PROVE  Spec /\ []WithinHistory => KeepsPromise
<1>1. Init => Dispatched /\ TidyAll /\ Promise!Init
  BY InitPromises, DispatchedInit
<1>2. Dispatched /\ TidyAll /\ WithinHistory /\ [Next]_vars
        => Dispatched' /\ TidyAll' /\ [Promise!Next]_(Promise!mvars)
  BY DispatchedStep, PromiseStep DEF Regular
<1> QED
  BY <1>1, <1>2, PTL DEF Spec, KeepsPromise, Promise!Spec

=============================================================================
