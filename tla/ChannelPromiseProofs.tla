-------------------------- MODULE ChannelPromiseProofs --------------------------
(***************************************************************************)
(* A channel of any capacity keeps its promise (ChannelSpec) to any number *)
(* of clients: the ring and the send list together hold what was accepted  *)
(* and not delivered, the messages of each sender in their order.          *)
(***************************************************************************)
EXTENDS ChannelProofs, WellFoundedInduction

\* Induction up to n: a set of numbers that holds 0, and the successor of each number
\* below n that it holds, holds n, else there would be a smallest one that it lacks.
LEMMA UpTo ==
  ASSUME NEW n \in Nat, NEW S, 0 \in S, \A i \in 0 .. n - 1 : i \in S => i + 1 \in S
  PROVE  n \in S
<1> DEFINE T == {i \in 0 .. n : i \notin S}
           R == OpToRel(<, Nat)
<1>1. SUFFICES ASSUME n \notin S PROVE FALSE
  OBVIOUS
<1>2. T \in SUBSET Nat /\ n \in T
  BY <1>1
<1>3. IsWellFoundedOn(R, Nat)
  BY NatLessThanWellFounded
<1> HIDE DEF T, R
<1>4. PICK x \in T : \A y \in T : <<y, x>> \notin R
  BY <1>2, <1>3, WFMin
<1>5. \A y \in T : ~(y < x)
  BY <1>2, <1>4 DEF OpToRel, R
<1>6. x # 0 /\ x \in 0 .. n /\ x \notin S
  BY DEF T
<1>7. x - 1 \in 0 .. n - 1
  BY <1>6
<1>8. x - 1 \in S
  BY <1>5, <1>6, <1>7 DEF T
<1>9. QED
  BY <1>6, <1>7, <1>8

\* How SentBy goes through the first n of a list: f[i] is what it has of the first i.
Selects(s, q, n, f) ==
    /\ f = [i \in 0 .. n |-> f[i]] /\ f[0] = <<>>
    /\ \A i \in 1 .. n :
          f[i] = IF q[i][1] = s THEN Append(f[i - 1], q[i]) ELSE f[i - 1]

\* The function SentBy defines exists, for lists of any length.
LEMMA SelectsUpTo ==
  ASSUME NEW s, NEW q, NEW n \in Nat
  PROVE  \E f : Selects(s, q, n, f)
<1> DEFINE S == {k \in 0 .. n : \E f : Selects(s, q, k, f)}
<1>1. 0 \in S
  <2> DEFINE f == [i \in 0 .. 0 |-> <<>>]
  <2>1. Selects(s, q, 0, f)
    BY DEF Selects
  <2>2. QED
    BY <2>1
<1>2. ASSUME NEW k \in 0 .. n - 1, k \in S PROVE k + 1 \in S
  <2>1. PICK f : Selects(s, q, k, f)
    BY <1>2
  <2> DEFINE e == IF q[k + 1][1] = s THEN Append(f[k], q[k + 1]) ELSE f[k]
             g == [i \in 0 .. k + 1 |-> IF i = k + 1 THEN e ELSE f[i]]
  <2>2. g = [i \in 0 .. k + 1 |-> g[i]] /\ g[0] = <<>>
    BY <2>1 DEF Selects
  <2>3. g[k + 1] = IF q[k + 1][1] = s THEN Append(g[k], q[k + 1]) ELSE g[k]
    OBVIOUS
  <2>4. ASSUME NEW i \in 1 .. k
        PROVE  g[i] = IF q[i][1] = s THEN Append(g[i - 1], q[i]) ELSE g[i - 1]
    <3>1. g[i] = f[i] /\ g[i - 1] = f[i - 1]
      OBVIOUS
    <3>2. QED
      BY <2>1, <3>1 DEF Selects
  <2> HIDE DEF g
  <2>5. \A i \in 1 .. k + 1 :
           g[i] = IF q[i][1] = s THEN Append(g[i - 1], q[i]) ELSE g[i - 1]
    <3>1. ASSUME NEW i \in 1 .. k + 1, i # k + 1 PROVE i \in 1 .. k
      BY <3>1
    <3>2. (k + 1) - 1 = k
      OBVIOUS
    <3>3. QED
      BY <2>3, <2>4, <3>1, <3>2
  <2>6. Selects(s, q, k + 1, g)
    BY <2>2, <2>5 DEF Selects
  <2>7. QED
    BY <2>6
<1> HIDE DEF S
<1>3. n \in S
  BY <1>1, <1>2, UpTo
<1>4. QED
  BY <1>3 DEF S

\* SentBy is its last value.
LEMMA SentByIs ==
  ASSUME NEW s, NEW q, NEW n \in Nat, Len(q) = n
  PROVE  \E f : Selects(s, q, n, f) /\ SentBy(s, q) = f[n]
<1> DEFINE Step(f) == [i \in 0 .. n |->
                         IF i = 0 THEN <<>>
                         ELSE IF q[i][1] = s THEN Append(f[i - 1], q[i]) ELSE f[i - 1]]
           sel == CHOOSE f : f = Step(f)
<1>1. SentBy(s, q) = sel[n]
  BY DEF SentBy
<1>2. PICK f : Selects(s, q, n, f)
  BY SelectsUpTo
<1>3. f = Step(f)
  <2>1. ASSUME NEW i \in 0 .. n
        PROVE  f[i] = IF i = 0 THEN <<>>
                      ELSE IF q[i][1] = s THEN Append(f[i - 1], q[i]) ELSE f[i - 1]
    <3>1. CASE i = 0
      BY <1>2, <3>1 DEF Selects
    <3>2. CASE i \in 1 .. n
      BY <1>2, <3>2 DEF Selects
    <3>3. QED
      BY <3>1, <3>2
  <2>2. f = [i \in 0 .. n |-> f[i]]
    BY <1>2 DEF Selects
  <2>3. QED
    BY <2>1, <2>2
<1>4. sel = Step(sel)
  BY <1>3
<1> HIDE DEF sel
<1>5. Selects(s, q, n, sel)
  <2>1. sel = [i \in 0 .. n |-> sel[i]]
    BY <1>4
  <2>2. sel[0] = <<>>
    BY <1>4
  <2>3. ASSUME NEW i \in 1 .. n
        PROVE  sel[i] = IF q[i][1] = s THEN Append(sel[i - 1], q[i]) ELSE sel[i - 1]
    <3>1. sel[i] = Step(sel)[i]
      BY <1>4
    <3>2. i \in 0 .. n /\ i # 0
      OBVIOUS
    <3>3. QED
      BY <3>1, <3>2
  <2>4. QED
    BY <2>1, <2>2, <2>3 DEF Selects
<1>6. QED
  BY <1>1, <1>5

\* What SentBy makes of messages is messages; of those of others, nothing.
LEMMA SentByKind ==
  ASSUME NEW s, NEW q \in Seq(Msgs)
  PROVE  /\ SentBy(s, q) \in Seq(Msgs)
         /\ (\A i \in 1 .. Len(q) : q[i][1] # s) => SentBy(s, q) = <<>>
<1> DEFINE n == Len(q)
           M == Seq(Msgs)
<1>1. n \in Nat /\ \A i \in 1 .. n : q[i] \in Msgs
  BY LenProperties
<1>2. PICK f : Selects(s, q, n, f) /\ SentBy(s, q) = f[n]
  BY <1>1, SentByIs
<1>3. /\ <<>> \in M
      /\ \A x \in M : \A e \in Msgs : Append(x, e) \in M
  BY EmptySeq, AppendProperties
<1> HIDE DEF n, M
<1>4. SentBy(s, q) \in M
  <2> DEFINE S == {i \in 0 .. n : f[i] \in M}
  <2>1. 0 \in S
    BY <1>1, <1>2, <1>3 DEF Selects
  <2>2. ASSUME NEW i \in 0 .. n - 1, i \in S PROVE i + 1 \in S
    <3>1. i + 1 \in 1 .. n /\ (i + 1) - 1 = i /\ f[i] \in M
      BY <1>1, <2>2
    <3>2. f[i + 1] = IF q[i + 1][1] = s THEN Append(f[i], q[i + 1]) ELSE f[i]
      BY <1>2, <3>1 DEF Selects
    <3>3. q[i + 1] \in Msgs
      BY <1>1, <3>1
    <3>4. Append(f[i], q[i + 1]) \in M
      BY <1>3, <3>1, <3>3
    <3>5. QED
      BY <3>1, <3>2, <3>4
  <2> HIDE DEF S
  <2>3. n \in S
    BY <1>1, <2>1, <2>2, UpTo
  <2>4. QED
    BY <1>2, <2>3 DEF S
<1>5. ASSUME \A i \in 1 .. n : q[i][1] # s PROVE SentBy(s, q) = <<>>
  <2> DEFINE S == {i \in 0 .. n : f[i] = <<>>}
  <2>1. 0 \in S
    BY <1>1, <1>2 DEF Selects
  <2>2. ASSUME NEW i \in 0 .. n - 1, i \in S PROVE i + 1 \in S
    <3>1. i + 1 \in 1 .. n /\ (i + 1) - 1 = i /\ f[i] = <<>>
      BY <1>1, <2>2
    <3>2. f[i + 1] = IF q[i + 1][1] = s THEN Append(f[i], q[i + 1]) ELSE f[i]
      BY <1>2, <3>1 DEF Selects
    <3>3. f[i + 1] = <<>>
      BY <1>5, <3>1, <3>2
    <3>4. QED
      BY <3>1, <3>3
  <2> HIDE DEF S
  <2>3. n \in S
    BY <1>1, <2>1, <2>2, UpTo
  <2>4. QED
    BY <1>2, <2>3 DEF S
<1>6. QED
  BY <1>4, <1>5 DEF n, M

\* What s has sent of two lists, one after the other.
LEMMA SentByConcat ==
  ASSUME NEW s, NEW a \in Seq(Msgs), NEW b \in Seq(Msgs)
  PROVE  SentBy(s, a \o b) = SentBy(s, a) \o SentBy(s, b)
<1> DEFINE q == a \o b
           m == Len(a)
           n == Len(b)
<1>1. /\ q \in Seq(Msgs) /\ m \in Nat /\ n \in Nat /\ Len(q) = m + n
      /\ \A i \in 1 .. m : q[i] = a[i]
      /\ \A i \in 1 .. n : q[m + i] = b[i] /\ b[i] \in Msgs
  <2>1. q \in Seq(Msgs) /\ m \in Nat /\ n \in Nat /\ Len(q) = m + n
    BY ConcatProperties, LenProperties
  <2>2. \A i \in 1 .. m + n : q[i] = IF i <= m THEN a[i] ELSE b[i - m]
    BY ConcatProperties
  <2>3. \A i \in 1 .. n : b[i] \in Msgs
    BY LenProperties
  <2> HIDE DEF q, m, n
  <2>4. \A i \in 1 .. m : q[i] = a[i]
    BY <2>1, <2>2
  <2>5. ASSUME NEW i \in 1 .. n PROVE q[m + i] = b[i]
    <3>1. m + i \in 1 .. m + n /\ ~(m + i <= m) /\ (m + i) - m = i
      BY <2>1
    <3>2. QED
      BY <2>2, <3>1
  <2>6. QED
    BY <2>1, <2>3, <2>4, <2>5
<1> DEFINE M == Seq(Msgs)
           Cat(x, y) == x \o y
           Add(x, e) == Append(x, e)
<1>2. /\ <<>> \in M /\ \A x \in M : Cat(x, <<>>) = x
      /\ \A x, y \in M : \A e \in Msgs : /\ Add(x, e) \in M
                                         /\ Add(Cat(x, y), e) = Cat(x, Add(y, e))
  <2>1. ASSUME NEW x \in M, NEW y \in M, NEW e \in Msgs
        PROVE  Append(x, e) \in M /\ Append(x \o y, e) = x \o Append(y, e)
    <3>1. <<e>> \in M /\ x \o y \in M
      BY ConcatProperties
    <3>2. Append(y, e) = y \o <<e>> /\ Append(x \o y, e) = (x \o y) \o <<e>>
      BY <3>1, AppendIsConcat
    <3>3. (x \o y) \o <<e>> = x \o (y \o <<e>>)
      BY <3>1, ConcatAssociative
    <3>4. QED
      BY <3>2, <3>3, AppendProperties
  <2>2. QED
    BY <2>1, EmptySeq, ConcatEmptySeq
<1>3. PICK g : Selects(s, a, m, g) /\ SentBy(s, a) = g[m]
  BY <1>1, SentByIs
<1>4. PICK h : Selects(s, b, n, h) /\ SentBy(s, b) = h[n]
  BY <1>1, SentByIs
<1>5. g[m] \in M
  BY <1>3, SentByKind
<1> HIDE DEF q, m, n, M
<1>6. PICK f : Selects(s, q, m + n, f) /\ SentBy(s, q) = f[m + n]
  <2> DEFINE k == m + n
  <2>1. k \in Nat /\ Len(q) = k
    BY <1>1
  <2> HIDE DEF k
  <2>2. \E f : Selects(s, q, k, f) /\ SentBy(s, q) = f[k]
    BY <2>1, SentByIs
  <2>3. QED
    BY <2>2 DEF k
<1>7. f[m] = g[m]
  <2> DEFINE S == {i \in 0 .. m : f[i] = g[i]}
  <2>1. 0 \in S
    BY <1>1, <1>3, <1>6 DEF Selects
  <2>2. ASSUME NEW i \in 0 .. m - 1, i \in S PROVE i + 1 \in S
    <3>1. /\ i + 1 \in 1 .. m /\ i + 1 \in 1 .. m + n /\ (i + 1) - 1 = i
          /\ f[i] = g[i]
      BY <1>1, <2>2
    <3>2. f[i + 1] = IF q[i + 1][1] = s THEN Append(f[i], q[i + 1]) ELSE f[i]
      BY <1>6, <3>1 DEF Selects
    <3>3. g[i + 1] = IF a[i + 1][1] = s THEN Append(g[i], a[i + 1]) ELSE g[i]
      BY <1>3, <3>1 DEF Selects
    <3>4. q[i + 1] = a[i + 1]
      BY <1>1, <3>1
    <3>5. f[i + 1] = g[i + 1]
      BY <3>1, <3>2, <3>3, <3>4
    <3>6. QED
      BY <3>1, <3>5
  <2> HIDE DEF S
  <2>3. m \in S
    BY <1>1, <2>1, <2>2, UpTo
  <2>4. QED
    BY <2>3 DEF S
<1> HIDE DEF Cat, Add
<1>8. f[m + n] = Cat(f[m], h[n])
  <2> DEFINE e == [i \in 0 .. n |-> f[m + i]]
             c == [i \in 0 .. n |-> Cat(f[m], h[i])]
             S == {i \in 0 .. n : e[i] = c[i] /\ h[i] \in M}
  <2>0. \A i \in 0 .. n : e[i] = f[m + i] /\ c[i] = Cat(f[m], h[i])
    OBVIOUS
  <2> HIDE DEF e, c
  <2>1. 0 \in S
    <3>1. h[0] = <<>> /\ e[0] = f[m] /\ c[0] = Cat(f[m], <<>>) /\ 0 \in 0 .. n
      BY <1>1, <1>4, <2>0 DEF Selects
    <3>2. QED
      BY <1>2, <1>5, <1>7, <3>1
  <2>2. ASSUME NEW i \in 0 .. n - 1, i \in S PROVE i + 1 \in S
    <3>1. /\ i + 1 \in 1 .. n /\ (i + 1) - 1 = i
          /\ m + (i + 1) \in 1 .. m + n /\ (m + (i + 1)) - 1 = m + i
          /\ e[i + 1] = f[m + (i + 1)] /\ e[i] = f[m + i]
          /\ c[i] = Cat(f[m], h[i]) /\ c[i + 1] = Cat(f[m], h[i + 1])
          /\ e[i] = c[i] /\ h[i] \in M
      BY <1>1, <2>0, <2>2
    <3>2. f[m + (i + 1)] = IF q[m + (i + 1)][1] = s
                           THEN Add(f[m + i], q[m + (i + 1)]) ELSE f[m + i]
      BY <1>6, <3>1 DEF Selects, Add
    <3>3. h[i + 1] = IF b[i + 1][1] = s THEN Add(h[i], b[i + 1]) ELSE h[i]
      BY <1>4, <3>1 DEF Selects, Add
    <3>4. q[m + (i + 1)] = b[i + 1] /\ b[i + 1] \in Msgs
      BY <1>1, <3>1
    <3>5. /\ Add(h[i], b[i + 1]) \in M
          /\ Add(Cat(f[m], h[i]), b[i + 1]) = Cat(f[m], Add(h[i], b[i + 1]))
      <4> DEFINE x == f[m]
                 y == h[i]
                 z == b[i + 1]
      <4>1. x \in M /\ y \in M /\ z \in Msgs
        BY <1>5, <1>7, <3>1, <3>4
      <4> HIDE DEF x, y, z
      <4>2. Add(y, z) \in M /\ Add(Cat(x, y), z) = Cat(x, Add(y, z))
        BY <1>2, <4>1
      <4>3. QED
        BY <4>2 DEF x, y, z
    <3>6. e[i + 1] = c[i + 1] /\ h[i + 1] \in M
      BY <3>1, <3>2, <3>3, <3>4, <3>5
    <3>7. QED
      BY <3>1, <3>6
  <2> HIDE DEF S
  <2>3. n \in S
    BY <1>1, <2>1, <2>2, UpTo
  <2>4. QED
    BY <1>1, <2>0, <2>3 DEF S
<1>9. QED
  BY <1>3, <1>4, <1>6, <1>7, <1>8 DEF q, Cat

\* Of a single message.
LEMMA SentByOne ==
  ASSUME NEW s, NEW e \in Msgs
  PROVE  SentBy(s, <<e>>) = IF e[1] = s THEN <<e>> ELSE <<>>
<1> DEFINE q == <<e>>
<1>1. Len(q) = 1 /\ q[1] = e
  OBVIOUS
<1> HIDE DEF q
<1>2. PICK f : Selects(s, q, 1, f) /\ SentBy(s, q) = f[1]
  BY <1>1, SentByIs
<1>3. f[1] = IF q[1][1] = s THEN Append(f[1 - 1], q[1]) ELSE f[1 - 1]
  BY <1>2 DEF Selects
<1>4. 1 - 1 = 0 /\ f[0] = <<>>
  BY <1>2 DEF Selects
<1>5. Append(<<>>, e) = <<e>>
  OBVIOUS
<1>6. f[1] = IF e[1] = s THEN <<e>> ELSE <<>>
  BY <1>1, <1>3, <1>4, <1>5
<1>7. QED
  BY <1>2, <1>6 DEF q

\* Of none.
LEMMA SentByNone == ASSUME NEW s PROVE SentBy(s, <<>>) = <<>>
<1>1. <<>> \in Seq(Msgs) /\ Len(<<>>) = 0
  BY EmptySeq
<1>2. \A i \in 1 .. Len(<<>>) : <<>>[i][1] # s
  BY <1>1
<1>3. QED
  BY <1>1, <1>2, SentByKind

--------------------------------------------------------------------------------
(* The ring and the send list as lists. *)

\* A function on 1 .. n is a list.
LEMMA ListOf ==
  ASSUME NEW S, NEW n \in Nat, NEW f \in [1 .. n -> S]
  PROVE  f \in Seq(S) /\ Len(f) = n
OBVIOUS

\* A list is its first element and what follows.
LEMMA FirstAnd ==
  ASSUME NEW S, NEW s \in Seq(S), NEW t \in Seq(S), NEW e \in S,
         Len(s) = Len(t) + 1, s[1] = e, \A i \in 1 .. Len(t) : s[i + 1] = t[i]
  PROVE  s = <<e>> \o t
<1>1. Len(s) \in Nat /\ Len(t) \in Nat
  BY LenProperties
<1>2. <<e>> \in Seq(S) /\ Len(<<e>>) = 1 /\ <<e>>[1] = e
  OBVIOUS
<1>3. /\ <<e>> \o t \in Seq(S) /\ Len(<<e>> \o t) = 1 + Len(t)
      /\ \A i \in 1 .. 1 + Len(t) :
           (<<e>> \o t)[i] = IF i <= 1 THEN <<e>>[i] ELSE t[i - 1]
  BY <1>2, ConcatProperties
<1>4. ASSUME NEW i \in 1 .. Len(s) PROVE s[i] = (<<e>> \o t)[i]
  <2>1. CASE i = 1
    BY <1>1, <1>2, <1>3, <2>1
  <2>2. CASE i # 1
    <3>1. i - 1 \in 1 .. Len(t) /\ (i - 1) + 1 = i /\ ~(i <= 1) /\ i \in 1 .. 1 + Len(t)
      BY <1>1, <2>2
    <3>2. QED
      BY <1>3, <3>1
  <2>3. QED
    BY <2>1, <2>2
<1>5. QED
  BY <1>1, <1>3, <1>4, SeqEqual

\* Or what comes before its last element, and that.
LEMMA AndLast ==
  ASSUME NEW S, NEW s \in Seq(S), NEW t \in Seq(S), NEW e \in S,
         Len(s) = Len(t) + 1, s[Len(s)] = e, \A i \in 1 .. Len(t) : s[i] = t[i]
  PROVE  s = t \o <<e>>
<1>1. Len(s) \in Nat /\ Len(t) \in Nat
  BY LenProperties
<1>2. <<e>> \in Seq(S) /\ Len(<<e>>) = 1 /\ <<e>>[1] = e
  OBVIOUS
<1>3. /\ t \o <<e>> \in Seq(S) /\ Len(t \o <<e>>) = Len(t) + 1
      /\ \A i \in 1 .. Len(t) + 1 :
           (t \o <<e>>)[i] = IF i <= Len(t) THEN t[i] ELSE <<e>>[i - Len(t)]
  BY <1>2, ConcatProperties
<1>4. ASSUME NEW i \in 1 .. Len(s) PROVE s[i] = (t \o <<e>>)[i]
  <2>1. CASE i <= Len(t)
    <3>1. i \in 1 .. Len(t) /\ i \in 1 .. Len(t) + 1
      BY <1>1, <2>1
    <3>2. QED
      BY <1>3, <2>1, <3>1
  <2>2. CASE ~(i <= Len(t))
    <3>1. i = Len(s) /\ i - Len(t) = 1 /\ i \in 1 .. Len(t) + 1
      BY <1>1, <2>2
    <3>2. QED
      BY <1>2, <1>3, <2>2, <3>1
  <2>3. QED
    BY <2>1, <2>2
<1>5. QED
  BY <1>1, <1>3, <1>4, SeqEqual

\* The place of the i-th message in the ring, without a remainder.
Slot(i) == IF head + i - 1 < cap THEN head + i - 1 ELSE head + i - 1 - cap

RingRead ==
    /\ len \in Nat /\ Buffered \in Seq(Values) /\ Len(Buffered) = len
    /\ \A i \in 1 .. len : Buffered[i] = buf[Slot(i)] /\ Slot(i) \in 0 .. cap - 1

\* The indices stay in the ring, and its messages are a list of the right length.
LEMMA BufferedIs == ChanInv => RingRead
<1> SUFFICES ASSUME ChanInv PROVE RingRead
  OBVIOUS
<1>1. len \in Nat /\ cap \in Nat /\ len <= cap
  BY ChannelAssumption DEF ChanInv, TypeOK, RingConsistent
<1>2. ASSUME NEW i \in 1 .. len
      PROVE  /\ (head + i - 1) % cap = Slot(i) /\ Slot(i) \in 0 .. cap - 1
             /\ Buffered[i] = buf[Slot(i)] /\ Buffered[i] \in Values
  <2>1. cap # 0
    BY <1>1
  <2> DEFINE x == head + i - 1
  <2>2. cap \in Nat \ {0} /\ x \in Nat /\ x < 2 * cap /\ head \in 0 .. cap - 1
    <3>1. cap \in Nat \ {0} /\ head \in 0 .. cap - 1
      BY <2>1, RingBounds
    <3>2. i \in Nat /\ 1 <= i /\ i <= cap
      BY <1>1
    <3>3. head \in Nat /\ head <= cap - 1
      BY <3>1
    <3>4. x \in Nat /\ x < 2 * cap
      BY <3>1, <3>2, <3>3
    <3>5. QED
      BY <3>1, <3>4
  <2>3. Slot(i) = IF x < cap THEN x ELSE x - cap
    <3>1. cap \in Nat /\ head \in Nat /\ i \in Nat
      BY <1>1, <2>1, RingBounds
    <3>2. QED
      BY <3>1 DEF Slot
  <2>4. Buffered[i] = buf[(head + i - 1) % cap]
    BY DEF Buffered
  <2> HIDE DEF x
  <2>5. x % cap = IF x < cap THEN x ELSE x - cap
    BY <2>2, ModSmall
  <2>6. Slot(i) \in 0 .. cap - 1
    BY <2>2, <2>3
  <2>7. buf \in [0 .. cap - 1 -> Values]
    BY DEF ChanInv, TypeOK
  <2>8. QED
    BY <2>3, <2>4, <2>5, <2>6, <2>7 DEF x
<1>3. Buffered \in [1 .. len -> Values]
  <2>1. Buffered = [i \in 1 .. len |-> Buffered[i]]
    BY DEF Buffered
  <2>2. QED
    BY <1>2, <2>1
<1>4. QED
  BY <1>1, <1>2, <1>3, ListOf DEF RingRead

\* The messages on the send list.
ListRead ==
    /\ Parked \in Seq(Msgs) /\ Len(Parked) = Len(sendQ)
    /\ \A i \in 1 .. Len(sendQ) : Parked[i] = sendQ[i].elem
    /\ sendQ = <<>> => Parked = <<>>

\* They are a list of the right length.
LEMMA ParkedIs == ChanInv => ListRead
<1> SUFFICES ASSUME ChanInv PROVE ListRead
  OBVIOUS
<1>1. /\ Len(sendQ) \in Nat /\ DOMAIN sendQ = 1 .. Len(sendQ)
      /\ \A i \in 1 .. Len(sendQ) : sendQ[i] \in WaitNode
  BY LenProperties DEF ChanInv, TypeOK
<1>2. /\ \A i \in 1 .. Len(sendQ) : Parked[i] = sendQ[i].elem /\ Parked[i] \in Msgs
      /\ Parked = [i \in 1 .. Len(sendQ) |-> Parked[i]]
  BY <1>1 DEF Parked, WaitNode
<1>3. Parked \in [1 .. Len(sendQ) -> Msgs]
  BY <1>2
<1>4. Parked \in Seq(Msgs) /\ Len(Parked) = Len(sendQ)
  BY <1>1, <1>3, ListOf
<1>5. sendQ = <<>> => Parked = <<>>
  BY <1>4, EmptySeq
<1>6. QED
  BY <1>2, <1>4, <1>5 DEF ListRead

\* What is in the ring was sent, and a parked element is its sender's.  A closer,
\* until it has released everybody, has a closed and empty channel before it.
ClosedEmpty == closed /\ len = 0 /\ sendQ = <<>>
Held ==
    /\ Buffered \in Seq(Msgs)
    /\ \A i \in DOMAIN sendQ : sendQ[i].elem[1] = sendQ[i].coro
    /\ \A c \in Clients : st[c] = "closing" => ClosedEmpty

HeldInv == ChanInv /\ Held

\* A channel without messages has none of anybody.
LEMMA EmptyDrained ==
  ASSUME HeldInv, len = 0, sendQ = <<>>
  PROVE  \A s \in Clients : InFlight(s) = <<>>
<1>1. Buffered = <<>> /\ Parked = <<>>
  <2>1. Buffered \in Seq(Msgs) /\ Len(Buffered) = 0
    BY BufferedIs DEF RingRead, HeldInv, Held
  <2>2. QED
    BY <2>1, EmptySeq, ParkedIs DEF ListRead, HeldInv
<1>2. Buffered \o Parked = <<>>
  BY <1>1
<1>3. QED
  BY <1>2, SentByNone DEF InFlight
--------------------------------------------------------------------------------
(* Messages accepted. *)

\* A message put into the ring comes last: nobody is parked while there is a slot.
LEMMA BufferAccepts ==
  ASSUME HeldInv, ChanInv', UNCHANGED cap, NEW c \in Clients, SendToBuffer(c)
  PROVE  /\ Held'
         /\ \A s \in Clients : InFlight(s)' = InFlight(s) \o SentBy(s, <<Msg(c)>>)
<1>1. /\ cap # 0 /\ cap \in Nat \ {0} /\ head \in 0 .. cap - 1 /\ len \in 0 .. cap - 1
      /\ tail = IF head + len < cap THEN head + len ELSE head + len - cap
  <2>1. cap # 0 /\ len < cap
    BY DEF HeldInv, ChanInv, TypeOK, SendToBuffer
  <2>2. QED
    BY <2>1, RingBounds DEF HeldInv
<1>2. Msg(c) \in Msgs /\ sendQ = <<>> /\ sendQ' = sendQ /\ head' = head /\ cap' = cap
      /\ len' = len + 1 /\ buf' = [buf EXCEPT ![tail] = Msg(c)] /\ Buffered \in Seq(Msgs)
  <2>1. sendQ = <<>>
    BY <1>1 DEF HeldInv, ChanInv, NoPointlessWait, SendToBuffer
  <2>2. QED
    BY <2>1, MsgTyped DEF HeldInv, Held, SendToBuffer, PutTail, queues
<1>3. /\ Len(Buffered) = len
      /\ \A i \in 1 .. len : Buffered[i] = buf[Slot(i)] /\ Slot(i) \in 0 .. cap - 1
  BY BufferedIs DEF RingRead, HeldInv
<1>4. /\ Buffered' \in Seq(Values) /\ Len(Buffered') = len + 1
      /\ \A i \in 1 .. len + 1 : Buffered'[i] = buf'[Slot(i)']
  <2>1. RingRead'
    BY BufferedIs, PTL
  <2>2. QED
    BY <1>2, <2>1 DEF RingRead
<1>5. \A i \in 1 .. len + 1 : Slot(i)' = Slot(i)
  BY <1>2 DEF Slot
<1>6. \A i \in 1 .. len : Slot(i) # tail
  BY <1>1 DEF Slot
<1>7. Slot(len + 1) = tail /\ tail \in 0 .. cap - 1
  BY <1>1 DEF Slot
<1>8. buf \in [0 .. cap - 1 -> Values]
  BY DEF HeldInv, ChanInv, TypeOK
<1>9. /\ \A i \in 1 .. len : Buffered'[i] = Buffered[i]
      /\ Buffered'[len + 1] = Msg(c)
  <2>1. ASSUME NEW i \in 1 .. len PROVE Buffered'[i] = Buffered[i]
    <3>1. i \in 1 .. len + 1
      BY <1>1
    <3>2. Buffered'[i] = buf'[Slot(i)]
      BY <1>4, <1>5, <3>1
    <3>3. buf'[Slot(i)] = buf[Slot(i)]
      BY <1>2, <1>3, <1>6, <1>8
    <3>4. QED
      BY <1>3, <3>2, <3>3
  <2>2. Buffered'[len + 1] = Msg(c)
    <3>1. len + 1 \in 1 .. len + 1
      BY <1>1
    <3>2. Buffered'[len + 1] = buf'[tail]
      BY <1>4, <1>5, <1>7, <3>1
    <3>3. QED
      BY <1>2, <1>7, <1>8, <3>2
  <2>3. QED
    BY <2>1, <2>2
<1>10. Buffered' = Buffered \o <<Msg(c)>> /\ Buffered' \in Seq(Msgs)
  <2>1. Buffered \in Seq(Values) /\ Msg(c) \in Values
    BY <1>2, BufferedIs DEF RingRead, HeldInv, Values
  <2>2. Buffered' = Buffered \o <<Msg(c)>>
    BY <1>3, <1>4, <1>9, <2>1, AndLast
  <2>3. <<Msg(c)>> \in Seq(Msgs)
    BY <1>2
  <2>4. QED
    BY <1>2, <2>2, <2>3, ConcatProperties
<1>11. Held'
  <2>1. \A d \in Clients : st'[d] # "closing"
    BY DEF HeldInv, Held, ClosedEmpty, ChanInv, TypeOK, SendToBuffer, Goto
  <2>2. QED
    BY <1>2, <1>10, <2>1 DEF HeldInv, Held
<1>12. ASSUME NEW s \in Clients
       PROVE  InFlight(s)' = InFlight(s) \o SentBy(s, <<Msg(c)>>)
  <2>1. <<Msg(c)>> \in Seq(Msgs)
    BY <1>2
  <2>2. Parked = <<>> /\ Parked' = <<>>
    BY <1>2, ParkedIs DEF ListRead, HeldInv, Parked
  <2>3. Buffered \o Parked = Buffered /\ (Buffered \o Parked)' = Buffered'
    BY <1>2, <1>10, <2>2, ConcatEmptySeq
  <2>4. InFlight(s) = SentBy(s, Buffered) /\ InFlight(s)' = SentBy(s, Buffered')
    BY <2>3 DEF InFlight
  <2>5. SentBy(s, Buffered \o <<Msg(c)>>) = SentBy(s, Buffered) \o SentBy(s, <<Msg(c)>>)
    BY <1>2, <2>1, SentByConcat
  <2>6. QED
    BY <1>10, <2>4, <2>5
<1>13. QED
  BY <1>11, <1>12

\* A sender that parks puts its message between the ring and the send list, but no
\* other message of its own is on the list.
LEMMA ParkAccepts ==
  ASSUME HeldInv, WakeInvariant, ChanInv', UNCHANGED cap, NEW c \in Clients, SendPark(c)
  PROVE  /\ Held'
         /\ \A s \in Clients : InFlight(s)' = InFlight(s) \o SentBy(s, <<Msg(c)>>)
<1> DEFINE m == Msg(c)
           node == [coro |-> c, elem |-> Msg(c)]
<1>1. m \in Msgs /\ node \in WaitNode /\ node.elem = m /\ node.elem[1] = node.coro
  BY MsgTyped DEF SendPark, WaitNode, HeldInv, Msg
<1>2. sendQ \in Seq(WaitNode) /\ sendQ' = <<node>> \o sendQ
  BY DEF HeldInv, ChanInv, TypeOK, SendPark
<1>3. Buffered' = Buffered /\ Buffered \in Seq(Msgs)
  BY DEF HeldInv, Held, SendPark, Buffered, ring
<1> HIDE DEF node, m
<1>4. /\ sendQ'[1] = node /\ DOMAIN sendQ' \subseteq Nat \ {0}
      /\ \A i \in DOMAIN sendQ : sendQ'[i + 1] = sendQ[i]
      /\ \A i \in DOMAIN sendQ' \ {1} : i - 1 \in DOMAIN sendQ /\ sendQ'[i] = sendQ[i - 1]
  BY <1>1, <1>2, Longer
<1>5. Len(sendQ') = Len(sendQ) + 1 /\ Len(sendQ) \in Nat /\ DOMAIN sendQ = 1 .. Len(sendQ)
  <2>1. <<node>> \in Seq(WaitNode) /\ Len(<<node>>) = 1
    BY <1>1
  <2>2. Len(sendQ) \in Nat /\ DOMAIN sendQ = 1 .. Len(sendQ)
    BY <1>2, LenProperties
  <2>3. Len(sendQ') = 1 + Len(sendQ)
    BY <1>2, <2>1, ConcatProperties
  <2>4. QED
    BY <2>2, <2>3
<1>6. Held'
  <2>1. \A d \in Clients : st'[d] # "closing"
    BY DEF HeldInv, Held, ClosedEmpty, ChanInv, TypeOK, SendPark, Goto
  <2>2. \A i \in DOMAIN sendQ' : sendQ'[i].elem[1] = sendQ'[i].coro
    BY <1>1, <1>4 DEF HeldInv, Held
  <2>3. QED
    BY <1>3, <2>1, <2>2 DEF Held
<1>7. /\ Parked \in Seq(Msgs) /\ Len(Parked) = Len(sendQ)
      /\ \A i \in 1 .. Len(sendQ) : Parked[i] = sendQ[i].elem
  BY ParkedIs DEF ListRead, HeldInv
<1>8. /\ Parked' \in Seq(Msgs) /\ Len(Parked') = Len(sendQ')
      /\ \A i \in 1 .. Len(sendQ') : Parked'[i] = sendQ'[i].elem
  <2>1. ListRead'
    BY ParkedIs, PTL
  <2>2. QED
    BY <2>1 DEF ListRead
<1>9. Parked' = <<m>> \o Parked
  <2>1. Parked'[1] = m /\ Len(Parked') = Len(Parked) + 1
    BY <1>1, <1>4, <1>5, <1>7, <1>8
  <2>2. ASSUME NEW i \in 1 .. Len(Parked) PROVE Parked'[i + 1] = Parked[i]
    <3>1. i \in 1 .. Len(sendQ) /\ i + 1 \in 1 .. Len(sendQ')
      BY <1>5, <1>7
    <3>2. QED
      BY <1>4, <1>5, <1>7, <1>8, <3>1
  <2>3. QED
    BY <1>1, <1>7, <1>8, <2>1, <2>2, FirstAnd
<1>10. \A i \in 1 .. Len(Parked) : Parked[i][1] # c
  <2>1. \A i \in DOMAIN sendQ : sendQ[i].coro # c
    BY DEF WakeInvariant, ListedParked, SendPark
  <2>2. QED
    BY <1>5, <1>7, <2>1 DEF HeldInv, Held
<1>11. ASSUME NEW s \in Clients
       PROVE  InFlight(s)' = InFlight(s) \o SentBy(s, <<m>>)
  <2> DEFINE r == SentBy(s, Buffered)
             p == SentBy(s, Parked)
             o == SentBy(s, <<m>>)
  <2>1. <<m>> \in Seq(Msgs)
    BY <1>1
  <2>2. r \in Seq(Msgs) /\ p \in Seq(Msgs) /\ o \in Seq(Msgs)
    BY <1>3, <1>7, <2>1, SentByKind
  <2>3. InFlight(s) = r \o p
    BY <1>3, <1>7, SentByConcat DEF InFlight
  <2>4. InFlight(s)' = r \o SentBy(s, Parked')
    BY <1>3, <1>8, SentByConcat DEF InFlight
  <2>5. SentBy(s, Parked') = o \o p
    BY <1>7, <1>9, <2>1, SentByConcat
  <2>6. o = <<>> \/ p = <<>>
    <3>1. CASE s = c
      BY <1>7, <1>10, <3>1, SentByKind
    <3>2. CASE s # c
      BY <1>1, <3>2, SentByOne DEF m, Msg
    <3>3. QED
      BY <3>1, <3>2
  <2> HIDE DEF r, p, o
  <2>7. r \o (o \o p) = (r \o p) \o o
    <3>1. CASE o = <<>>
      <4>1. o \o p = p /\ (r \o p) \o o = r \o p
        BY <2>2, <3>1, ConcatEmptySeq, ConcatProperties
      <4>2. QED
        BY <4>1
    <3>2. CASE p = <<>>
      <4>1. o \o p = o /\ r \o p = r
        BY <2>2, <3>2, ConcatEmptySeq
      <4>2. QED
        BY <4>1
    <3>3. QED
      BY <2>6, <3>1, <3>2
  <2>8. QED
    BY <2>3, <2>4, <2>5, <2>7 DEF o
<1>12. QED
  BY <1>6, <1>11 DEF m
--------------------------------------------------------------------------------
(* Messages delivered. *)

\* c is given the first of the messages in flight.
Delivers(c) ==
    \E h \in Msgs :
        /\ Give(c, h)
        /\ \A s \in Clients : InFlight(s) = SentBy(s, <<h>>) \o InFlight(s)'

\* The send list without its first element.
LEMMA FirstParked ==
  ASSUME HeldInv, ChanInv', sendQ # <<>>, sendQ' = Tail(sendQ)
  PROVE  /\ Head(sendQ).elem \in Msgs
         /\ Parked = <<Head(sendQ).elem>> \o Parked'
         /\ Parked' \in Seq(Msgs)
         /\ \A i \in DOMAIN sendQ' : sendQ'[i].elem[1] = sendQ'[i].coro
<1>1. sendQ \in Seq(WaitNode)
  BY DEF HeldInv, ChanInv, TypeOK
<1>2. /\ Head(sendQ) \in WaitNode /\ sendQ[1] = Head(sendQ)
      /\ Len(sendQ') = Len(sendQ) - 1 /\ Len(sendQ) \in Nat \ {0}
      /\ DOMAIN sendQ = 1 .. Len(sendQ) /\ DOMAIN sendQ' = 1 .. Len(sendQ')
      /\ \A i \in 1 .. Len(sendQ') : sendQ'[i] = sendQ[i + 1]
  <2>1. sendQ' \in Seq(WaitNode)
    BY <1>1, HeadTailProperties
  <2>2. QED
    BY <1>1, <2>1, HeadTailProperties, LenProperties, EmptySeq
<1>3. /\ Parked \in Seq(Msgs) /\ Len(Parked) = Len(sendQ)
      /\ \A i \in 1 .. Len(sendQ) : Parked[i] = sendQ[i].elem
  BY ParkedIs DEF ListRead, HeldInv
<1>4. /\ Parked' \in Seq(Msgs) /\ Len(Parked') = Len(sendQ')
      /\ \A i \in 1 .. Len(sendQ') : Parked'[i] = sendQ'[i].elem
  <2>1. ListRead'
    BY ParkedIs, PTL
  <2>2. QED
    BY <2>1 DEF ListRead
<1>5. Head(sendQ).elem \in Msgs
  BY <1>2 DEF WaitNode
<1>6. Parked = <<Head(sendQ).elem>> \o Parked'
  <2>1. Len(Parked) = Len(Parked') + 1 /\ Parked[1] = Head(sendQ).elem
    BY <1>2, <1>3, <1>4
  <2>2. ASSUME NEW i \in 1 .. Len(Parked') PROVE Parked[i + 1] = Parked'[i]
    <3>1. i \in 1 .. Len(sendQ') /\ i + 1 \in 1 .. Len(sendQ)
      BY <1>2, <1>4
    <3>2. QED
      BY <1>2, <1>3, <1>4, <3>1
  <2>3. QED
    BY <1>3, <1>4, <1>5, <2>1, <2>2, FirstAnd
<1>7. \A i \in DOMAIN sendQ' : sendQ'[i].elem[1] = sendQ'[i].coro
  <2>1. \A i \in DOMAIN sendQ' : i + 1 \in DOMAIN sendQ
    BY <1>2
  <2>2. QED
    BY <1>2, <2>1 DEF HeldInv, Held
<1>8. QED
  BY <1>4, <1>5, <1>6, <1>7

\* If all messages in flight are h and then those of the next state, h is the one
\* delivered.
LEMMA FirstDelivered ==
  ASSUME HeldInv, Buffered' \in Seq(Msgs), Parked' \in Seq(Msgs), NEW h \in Msgs,
         Buffered \o Parked = <<h>> \o (Buffered' \o Parked'),
         NEW s
  PROVE  InFlight(s) = SentBy(s, <<h>>) \o InFlight(s)'
<1>1. <<h>> \in Seq(Msgs) /\ Buffered' \o Parked' \in Seq(Msgs)
  BY ConcatProperties
<1>2. SentBy(s, <<h>> \o (Buffered' \o Parked'))
        = SentBy(s, <<h>>) \o SentBy(s, Buffered' \o Parked')
  BY <1>1, SentByConcat
<1>3. QED
  BY <1>2 DEF InFlight

\* A receive from a parked sender: the ring is empty.
LEMMA SenderDelivers ==
  ASSUME HeldInv, ChanInv', UNCHANGED cap, NEW c \in Clients, RecvFromSender(c)
  PROVE  Held' /\ Delivers(c)
<1> DEFINE h == Head(sendQ).elem
<1>1. h \in Msgs /\ Parked = <<h>> \o Parked' /\ Parked' \in Seq(Msgs)
      /\ \A i \in DOMAIN sendQ' : sendQ'[i].elem[1] = sendQ'[i].coro
  BY FirstParked DEF RecvFromSender
<1>2. Buffered = <<>> /\ Buffered' = <<>> /\ <<>> \in Seq(Msgs)
  <2>1. Len(Buffered) = 0 /\ Buffered \in Seq(Msgs)
    BY BufferedIs DEF RingRead, HeldInv, Held, RecvFromSender
  <2>2. Buffered = <<>>
    BY <2>1, EmptySeq
  <2>3. Buffered' = Buffered
    BY DEF Buffered, RecvFromSender, ring
  <2>4. QED
    BY <2>2, <2>3, EmptySeq
<1>3. Held'
  <2>1. \A d \in Clients : st'[d] # "closing"
    BY DEF HeldInv, Held, ClosedEmpty, ChanInv, TypeOK, RecvFromSender, Goto
  <2>2. QED
    BY <1>1, <1>2, <2>1 DEF Held
<1>4. Give(c, h)
  BY DEF RecvFromSender
<1> HIDE DEF h
<1>5. Buffered \o Parked = <<h>> \o (Buffered' \o Parked')
  <2>1. Parked \in Seq(Msgs)
    BY ParkedIs DEF ListRead, HeldInv
  <2>2. Buffered \o Parked = Parked /\ Buffered' \o Parked' = Parked'
    BY <1>1, <1>2, <2>1, ConcatEmptySeq
  <2>3. QED
    BY <1>1, <2>2
<1>6. \A s \in Clients : InFlight(s) = SentBy(s, <<h>>) \o InFlight(s)'
  BY <1>1, <1>2, <1>5, FirstDelivered
<1>7. QED
  BY <1>1, <1>3, <1>4, <1>6 DEF Delivers

\* A receive from the ring: the first parked message takes its place at the ring's end,
\* so that ring and list together lose their first message and nothing else.
LEMMA BufferDelivers ==
  ASSUME HeldInv, ChanInv', UNCHANGED cap, NEW c \in Clients, RecvFromBuffer(c)
  PROVE  Held' /\ Delivers(c)
<1> DEFINE h == Buffered[1]
           rest == [i \in 1 .. len - 1 |-> Buffered[i + 1]]
<1>1. /\ cap # 0 /\ cap \in Nat \ {0} /\ head \in 0 .. cap - 1 /\ len \in 1 .. cap
      /\ tail = IF head + len < cap THEN head + len ELSE head + len - cap
      /\ head' = IF head + 1 < cap THEN head + 1 ELSE 0
      /\ cap' = cap
  <2>1. cap # 0 /\ len > 0
    BY DEF HeldInv, ChanInv, TypeOK, RingConsistent, RecvFromBuffer
  <2>2. head' = (head + 1) % cap
    BY DEF RecvFromBuffer, TakeHead
  <2>3. QED
    BY <2>1, <2>2, RingBounds DEF HeldInv
<1>2. /\ Buffered \in Seq(Msgs) /\ Len(Buffered) = len
      /\ \A i \in 1 .. len : /\ Buffered[i] = buf[Slot(i)] /\ Slot(i) \in 0 .. cap - 1
                             /\ Buffered[i] \in Msgs
  <2>1. Buffered \in Seq(Msgs) /\ Len(Buffered) = len
    BY BufferedIs DEF RingRead, HeldInv, Held
  <2>2. \A i \in 1 .. len : Buffered[i] \in Msgs
    BY <2>1, LenProperties
  <2>3. QED
    BY <2>1, <2>2, BufferedIs DEF RingRead, HeldInv
<1>3. Give(c, h) /\ h \in Msgs
  <2>1. Slot(1) = head /\ 1 \in 1 .. len
    BY <1>1 DEF Slot
  <2>2. h = buf[head] /\ h \in Msgs
    BY <1>2, <2>1
  <2>3. QED
    BY <2>2 DEF RecvFromBuffer, TakeHead
<1>4. /\ rest \in Seq(Msgs) /\ Len(rest) = len - 1
      /\ \A i \in 1 .. len - 1 : rest[i] = Buffered[i + 1]
  <2>1. len - 1 \in Nat /\ \A i \in 1 .. len - 1 : i + 1 \in 1 .. len
    BY <1>1
  <2>2. rest \in [1 .. len - 1 -> Msgs]
    BY <1>2, <2>1
  <2>3. QED
    BY <2>1, <2>2, ListOf
<1> HIDE DEF h, rest
<1>5. Buffered = <<h>> \o rest
  <2>1. Buffered[1] = h /\ Len(Buffered) = Len(rest) + 1
    BY <1>1, <1>2, <1>4 DEF h
  <2>2. \A i \in 1 .. Len(rest) : Buffered[i + 1] = rest[i]
    BY <1>1, <1>4
  <2>3. QED
    BY <1>2, <1>3, <1>4, <2>1, <2>2, FirstAnd
<1>6. /\ len' \in Nat /\ Buffered' \in Seq(Values) /\ Len(Buffered') = len'
      /\ \A i \in 1 .. len' : Buffered'[i] = buf'[Slot(i)']
  <2>1. RingRead'
    BY BufferedIs, PTL
  <2>2. QED
    BY <2>1 DEF RingRead
<1>7. ASSUME NEW i \in 1 .. cap PROVE Slot(i)' = Slot(i + 1)
  BY <1>1 DEF Slot
<1>8. rest \in Seq(Values)
  BY <1>4 DEF Values
<1>9. /\ Parked \in Seq(Msgs) /\ Parked' \in Seq(Msgs)
  <2>1. ListRead'
    BY ParkedIs, PTL
  <2>2. QED
    BY <2>1, ParkedIs DEF ListRead, HeldInv
<1>10. CASE sendQ = <<>>
  <2>1. len' = len - 1 /\ buf' = buf /\ sendQ' = sendQ
    BY <1>10 DEF RecvFromBuffer
  <2>2. \A i \in 1 .. len - 1 : Buffered'[i] = rest[i]
    <3>1. ASSUME NEW i \in 1 .. len - 1 PROVE Buffered'[i] = rest[i]
      <4>1. i \in 1 .. cap /\ i + 1 \in 1 .. len
        BY <1>1
      <4>2. Buffered'[i] = buf[Slot(i + 1)]
        BY <1>6, <1>7, <2>1, <4>1
      <4>3. QED
        BY <1>2, <1>4, <4>1, <4>2
    <3>2. QED
      BY <3>1
  <2>3. Buffered' = rest
    BY <1>4, <1>6, <1>8, <2>1, <2>2, SeqEqual
  <2>4. Parked' = Parked
    BY <2>1 DEF Parked
  <2>5. Buffered \o Parked = <<h>> \o (Buffered' \o Parked')
    <3>1. <<h>> \in Seq(Msgs)
      BY <1>3
    <3>2. (<<h>> \o rest) \o Parked = <<h>> \o (rest \o Parked)
      BY <1>4, <1>9, <3>1, ConcatAssociative
    <3>3. QED
      BY <1>5, <2>3, <2>4, <3>2
  <2>6. Held'
    <3>1. \A d \in Clients : st'[d] # "closing"
      BY <1>1 DEF HeldInv, Held, ClosedEmpty, ChanInv, TypeOK, RecvFromBuffer, Goto
    <3>2. QED
      BY <1>4, <2>1, <2>3, <3>1 DEF HeldInv, Held
  <2>7. \A s \in Clients : InFlight(s) = SentBy(s, <<h>>) \o InFlight(s)'
    BY <1>3, <1>4, <1>9, <2>3, <2>5, FirstDelivered
  <2>8. QED
    BY <1>3, <2>6, <2>7 DEF Delivers
<1>11. CASE sendQ # <<>>
  <2> DEFINE p == Head(sendQ).elem
  <2>1. /\ len' = len /\ len = cap /\ tail = head
        /\ buf' = [buf EXCEPT ![tail] = p] /\ sendQ' = Tail(sendQ)
    <3>1. len = cap
      BY <1>11 DEF HeldInv, ChanInv, NoPointlessWait
    <3>2. tail = head
      BY <1>1, <3>1
    <3>3. QED
      BY <1>11, <3>1, <3>2 DEF RecvFromBuffer, PutTail
  <2>2. p \in Msgs /\ Parked = <<p>> \o Parked'
        /\ \A i \in DOMAIN sendQ' : sendQ'[i].elem[1] = sendQ'[i].coro
    BY <1>11, <2>1, FirstParked
  <2> HIDE DEF p
  <2>3. buf \in [0 .. cap - 1 -> Values]
    BY DEF HeldInv, ChanInv, TypeOK
  <2>4. \A i \in 1 .. len - 1 : Buffered'[i] = rest[i]
    <3>1. ASSUME NEW i \in 1 .. len - 1 PROVE Buffered'[i] = rest[i]
      <4>1. i \in 1 .. cap /\ i + 1 \in 1 .. len /\ i \in 1 .. len
        BY <1>1
      <4>2. Buffered'[i] = buf'[Slot(i + 1)]
        BY <1>6, <1>7, <2>1, <4>1
      <4>3. Slot(i + 1) # tail
        BY <1>1, <2>1 DEF Slot
      <4>4. buf'[Slot(i + 1)] = buf[Slot(i + 1)]
        BY <1>2, <2>1, <2>3, <4>1, <4>3
      <4>5. QED
        BY <1>2, <1>4, <4>1, <4>2, <4>4
    <3>2. QED
      BY <3>1
  <2>5. Buffered'[len] = p
    <3>1. len \in 1 .. cap /\ len \in 1 .. len' /\ Slot(len + 1) = tail
          /\ tail \in 0 .. cap - 1
      BY <1>1, <2>1 DEF Slot
    <3>2. Buffered'[len] = buf'[tail]
      BY <1>6, <1>7, <3>1
    <3>3. QED
      BY <2>1, <2>3, <3>1, <3>2
  <2>6. Buffered' = rest \o <<p>> /\ Buffered' \in Seq(Msgs) /\ <<p>> \in Seq(Msgs)
    <3>1. p \in Values /\ Len(Buffered') = Len(rest) + 1 /\ Len(Buffered') = len
      BY <1>1, <1>4, <1>6, <2>1, <2>2 DEF Values
    <3>2. \A i \in 1 .. Len(rest) : Buffered'[i] = rest[i]
      BY <1>4, <2>4
    <3>3. Buffered' = rest \o <<p>>
      BY <1>6, <1>8, <2>5, <3>1, <3>2, AndLast
    <3>4. <<p>> \in Seq(Msgs)
      BY <2>2
    <3>5. QED
      BY <1>4, <3>3, <3>4, ConcatProperties
  <2>7. Buffered \o Parked = <<h>> \o (Buffered' \o Parked')
    <3>1. <<h>> \in Seq(Msgs) /\ rest \o Parked \in Seq(Msgs)
      BY <1>3, <1>4, <1>9, ConcatProperties
    <3>2. (<<h>> \o rest) \o Parked = <<h>> \o (rest \o Parked)
      BY <1>4, <1>9, <3>1, ConcatAssociative
    <3>3. rest \o (<<p>> \o Parked') = (rest \o <<p>>) \o Parked'
      BY <1>4, <1>9, <2>6, ConcatAssociative, SMTT(30)
    <3>4. QED
      BY <1>5, <2>2, <2>6, <3>2, <3>3
  <2>8. Held'
    <3>1. \A d \in Clients : st'[d] # "closing"
      BY <1>1 DEF HeldInv, Held, ClosedEmpty, ChanInv, TypeOK, RecvFromBuffer, Goto
    <3>2. QED
      BY <2>2, <2>6, <3>1 DEF Held
  <2>9. \A s \in Clients : InFlight(s) = SentBy(s, <<h>>) \o InFlight(s)'
    BY <1>3, <1>9, <2>6, <2>7, FirstDelivered
  <2>10. QED
    BY <1>3, <2>8, <2>9 DEF Delivers
<1>12. QED
  BY <1>10, <1>11
--------------------------------------------------------------------------------
(* The promise. *)

\* A step that leaves the ring and the send list alone leaves what is in flight.
LEMMA QuietHeld ==
  ASSUME HeldInv, UNCHANGED <<cap, ring, sendQ>>,
         \A d \in Clients : st'[d] = "closing" => ClosedEmpty'
  PROVE  Held' /\ \A s \in Clients : InFlight(s)' = InFlight(s)
<1>1. UNCHANGED <<cap, buf, head, len, sendQ>>
  BY DEF ring
<1>2. Buffered' = Buffered /\ Parked' = Parked
  BY <1>1 DEF Buffered, Parked
<1>3. Held'
  BY <1>1, <1>2 DEF HeldInv, Held
<1>4. QED
  BY <1>2, <1>3 DEF InFlight

\* Messages in flight are messages.
LEMMA InFlightKind ==
  ASSUME HeldInv, NEW s
  PROVE  InFlight(s) \in Seq(Msgs)
<1>1. Buffered \in Seq(Msgs) /\ Parked \in Seq(Msgs)
  BY ParkedIs DEF ListRead, HeldInv, Held
<1>2. Buffered \o Parked \in Seq(Msgs)
  BY <1>1, ConcatProperties
<1>3. QED
  BY <1>2, SentByKind DEF InFlight

\* A message that comes last of those in flight is accepted.
LEMMA Accepts ==
  ASSUME HeldInv, NEW c \in Clients, Msg(c) \in Msgs, ~closed, UNCHANGED <<got, closed>>,
         \A s \in Clients : InFlight(s)' = InFlight(s) \o SentBy(s, <<Msg(c)>>)
  PROVE  Promise!SpecNext
<1> DEFINE m == Msg(c)
<1>1. m[1] = c
  BY DEF Msg
<1>2. InFlight(c)' = Append(InFlight(c), m)
  <2>1. SentBy(c, <<m>>) = <<m>>
    BY <1>1, SentByOne
  <2>2. Append(InFlight(c), m) = InFlight(c) \o <<m>>
    BY InFlightKind, AppendIsConcat
  <2>3. QED
    BY <2>1, <2>2
<1>3. ASSUME NEW s \in Clients \ {c} PROVE InFlight(s)' = InFlight(s)
  <2>1. SentBy(s, <<m>>) = <<>>
    BY <1>1, SentByOne
  <2>2. InFlight(s) \o <<>> = InFlight(s)
    BY InFlightKind, ConcatEmptySeq
  <2>3. QED
    BY <2>1, <2>2
<1>4. Promise!Accept(c, m)
  BY <1>2, <1>3 DEF Promise!Accept
<1>5. QED
  BY <1>4 DEF Promise!SpecNext

\* A receive that takes the first message in flight delivers it.
LEMMA Delivered ==
  ASSUME HeldInv, HeldInv', NEW c \in Clients, Delivers(c), UNCHANGED closed
  PROVE  Promise!SpecNext
<1>1. PICK h \in Msgs :
        /\ Give(c, h)
        /\ \A s \in Clients : InFlight(s) = SentBy(s, <<h>>) \o InFlight(s)'
  BY DEF Delivers
<1> DEFINE o == h[1]
<1>2. o \in Clients /\ \A s \in Clients : s # o => SentBy(s, <<h>>) = <<>>
  BY SentByOne DEF Msgs
<1>3. \A s \in Clients : InFlight(s)' \in Seq(Msgs)
  <2>1. ListRead'
    BY ParkedIs, PTL DEF HeldInv
  <2>2. Buffered' \in Seq(Msgs) /\ Parked' \in Seq(Msgs)
    BY <2>1 DEF ListRead, HeldInv, Held
  <2>3. Buffered' \o Parked' \in Seq(Msgs)
    BY <2>2, ConcatProperties
  <2>4. QED
    BY <2>3, SentByKind DEF InFlight
<1>4. InFlight(o) = <<h>> \o InFlight(o)'
  BY <1>1, <1>2, SentByOne
<1>5. InFlight(o) # <<>> /\ Head(InFlight(o)) = h /\ Tail(InFlight(o)) = InFlight(o)'
  <2> DEFINE t == InFlight(o)'
  <2>1. t \in Seq(Msgs)
    BY <1>2, <1>3
  <2> HIDE DEF t
  <2>2. <<h>> \o t # <<>> /\ Head(<<h>> \o t) = h /\ Tail(<<h>> \o t) = t
    BY <2>1
  <2>3. QED
    BY <1>4, <2>2 DEF t
<1>6. ASSUME NEW s \in Clients \ {o} PROVE InFlight(s)' = InFlight(s)
  <2>1. <<>> \o InFlight(s)' = InFlight(s)'
    BY <1>3, ConcatEmptySeq
  <2>2. QED
    BY <1>1, <1>2, <2>1
<1> HIDE DEF o
<1>7. Promise!Deliver(o, c)
  <2>1. Promise!Give(c, h)
    BY <1>1 DEF Give, Promise!Give
  <2>2. QED
    BY <1>2, <1>5, <1>6, <2>1 DEF Promise!Deliver
<1>8. QED
  BY <1>2, <1>7 DEF Promise!SpecNext

\* Every step of a channel is one that the promise allows, or does not concern it.
LEMMA PromiseStep ==
  ChanInv /\ WakeInvariant /\ Held /\ [Next]_vars =>
      Held' /\ [Promise!SpecNext]_(Promise!specVars)
<1> SUFFICES ASSUME ChanInv, WakeInvariant, Held, [Next]_vars
             PROVE  Held' /\ [Promise!SpecNext]_(Promise!specVars)
  OBVIOUS
<1> DEFINE Goal == Held' /\ [Promise!SpecNext]_(Promise!specVars)
<1>0. ChanInv' /\ HeldInv
  BY StepInv DEF HeldInv
<1>1. ASSUME Held', \A s \in Clients : InFlight(s)' = InFlight(s), UNCHANGED <<got, closed>>
      PROVE  Goal
  BY <1>1 DEF Promise!specVars
<1>2. CASE UNCHANGED vars
  <2>1. Held' /\ \A s \in Clients : InFlight(s)' = InFlight(s)
    BY <1>0, <1>2, QuietHeld DEF vars, queues, Held, ClosedEmpty, ring
  <2>2. QED
    BY <1>1, <1>2, <2>1 DEF vars
<1>3. ASSUME NEW c \in Clients, UNCHANGED cap, Send(c) PROVE Goal
  <2>1. CASE CallSend(c) \/ SendOnClosed(c)
    <3>1. UNCHANGED <<ring, sendQ, got, closed, len>>
      BY <2>1 DEF CallSend, SendOnClosed, queues, ring
    <3>2. \A d \in Clients : st'[d] = "closing" => st[d] = "closing"
      BY <2>1 DEF CallSend, SendOnClosed, Goto, ChanInv, TypeOK
    <3>3. Held' /\ \A s \in Clients : InFlight(s)' = InFlight(s)
      BY <1>0, <1>3, <3>1, <3>2, QuietHeld DEF Held, ClosedEmpty
    <3>4. QED
      BY <1>1, <3>1, <3>3
  <2>2. CASE SendToReceiver(c)
    <3>1. UNCHANGED <<ring, sendQ, closed, len>> /\ ~closed /\ len = 0 /\ sendQ = <<>>
          /\ Head(recvQ) \in Clients /\ Give(Head(recvQ), Msg(c))
      BY <2>2, HeadTailProperties
      DEF SendToReceiver, ring, ChanInv, NoPointlessWait, TypeOK, Clients
    <3>2. \A d \in Clients : st'[d] = "closing" => st[d] = "closing"
      BY <2>2 DEF SendToReceiver, Goto, ChanInv, TypeOK
    <3>3. Held' /\ \A s \in Clients : InFlight(s)' = InFlight(s)
      BY <1>0, <1>3, <3>1, <3>2, QuietHeld DEF Held, ClosedEmpty
    <3>4. \A s \in Clients : InFlight(s) = <<>>
      BY <1>0, <3>1, EmptyDrained
    <3>5. Msg(c) \in Msgs
      BY <1>0, <2>2, MsgTyped DEF SendToReceiver
    <3>6. Promise!HandOver(Head(recvQ), Msg(c))
      BY <3>1, <3>3, <3>4
      DEF Promise!HandOver, Promise!Drained, Promise!Give, Give
    <3>7. QED
      BY <3>1, <3>3, <3>5, <3>6 DEF Promise!SpecNext
  <2>3. CASE SendToBuffer(c)
    <3>1. Held' /\ \A s \in Clients : InFlight(s)' = InFlight(s) \o SentBy(s, <<Msg(c)>>)
      BY <1>0, <1>3, <2>3, BufferAccepts
    <3>2. Msg(c) \in Msgs /\ ~closed /\ UNCHANGED <<got, closed>>
      BY <1>0, <2>3, MsgTyped DEF SendToBuffer
    <3>3. QED
      BY <1>0, <3>1, <3>2, Accepts
  <2>4. CASE SendPark(c)
    <3>1. Held' /\ \A s \in Clients : InFlight(s)' = InFlight(s) \o SentBy(s, <<Msg(c)>>)
      BY <1>0, <1>3, <2>4, ParkAccepts
    <3>2. Msg(c) \in Msgs /\ ~closed /\ UNCHANGED <<got, closed>>
      BY <1>0, <2>4, MsgTyped DEF SendPark
    <3>3. QED
      BY <1>0, <3>1, <3>2, Accepts
  <2>5. QED
    BY <1>3, <2>1, <2>2, <2>3, <2>4 DEF Send
<1>4. ASSUME NEW c \in Clients, UNCHANGED cap, Recv(c) PROVE Goal
  <2>1. CASE CallRecv(c) \/ RecvPark(c) \/ TryRecvNothing(c)
    <3>1. UNCHANGED <<ring, sendQ, got, closed, len>>
      BY <2>1 DEF CallRecv, RecvPark, TryRecvNothing, queues, ring
    <3>2. \A d \in Clients : st'[d] = "closing" => st[d] = "closing"
      BY <2>1 DEF CallRecv, RecvPark, TryRecvNothing, Goto, ChanInv, TypeOK
    <3>3. Held' /\ \A s \in Clients : InFlight(s)' = InFlight(s)
      BY <1>0, <1>4, <3>1, <3>2, QuietHeld DEF Held, ClosedEmpty
    <3>4. QED
      BY <1>1, <3>1, <3>3
  <2>2. CASE RecvFromBuffer(c)
    <3>1. Held' /\ Delivers(c) /\ UNCHANGED closed
      BY <1>0, <1>4, <2>2, BufferDelivers DEF RecvFromBuffer
    <3>2. QED
      BY <1>0, <3>1, Delivered DEF HeldInv
  <2>3. CASE RecvFromSender(c)
    <3>1. Held' /\ Delivers(c) /\ UNCHANGED closed
      BY <1>0, <1>4, <2>3, SenderDelivers DEF RecvFromSender
    <3>2. QED
      BY <1>0, <3>1, Delivered DEF HeldInv
  <2>4. CASE RecvOnClosed(c)
    <3>1. UNCHANGED <<ring, sendQ, closed, len>> /\ closed /\ len = 0 /\ sendQ = <<>>
          /\ Give(c, Zero)
      BY <2>4 DEF RecvOnClosed, queues, ring
    <3>2. \A d \in Clients : st'[d] = "closing" => st[d] = "closing"
      BY <2>4 DEF RecvOnClosed, Goto, ChanInv, TypeOK
    <3>3. Held' /\ \A s \in Clients : InFlight(s)' = InFlight(s)
      BY <1>0, <1>4, <3>1, <3>2, QuietHeld DEF Held, ClosedEmpty
    <3>4. \A s \in Clients : InFlight(s) = <<>>
      BY <1>0, <3>1, EmptyDrained
    <3>5. Promise!Zeroed(c)
      BY <3>1, <3>3, <3>4 DEF Promise!Zeroed, Promise!Drained, Promise!Give, Give
    <3>6. QED
      BY <3>3, <3>5 DEF Promise!SpecNext
  <2>5. QED
    BY <1>4, <2>1, <2>2, <2>3, <2>4 DEF Recv
<1>5. ASSUME NEW c \in Clients, UNCHANGED cap, Close(c) PROVE Goal
  <2>1. UNCHANGED <<ring, sendQ, got, len>> /\ closed' = TRUE
    BY <1>5 DEF Close, ring
  <2>2. recvQ # <<>> => len = 0 /\ sendQ = <<>>
    BY DEF ChanInv, NoPointlessWait
  <2>3. \A d \in Clients : st'[d] = "closing" => st[d] = "closing" \/ recvQ # <<>>
    BY <1>5 DEF Close, Goto, ChanInv, TypeOK
  <2>4. Held' /\ \A s \in Clients : InFlight(s)' = InFlight(s)
    BY <1>0, <1>5, <2>1, <2>2, <2>3, QuietHeld DEF Held, ClosedEmpty
  <2>5. Promise!Close
    BY <2>1, <2>4 DEF Promise!Close
  <2>6. QED
    BY <2>4, <2>5 DEF Promise!SpecNext
<1>6. ASSUME NEW c \in Clients, UNCHANGED cap, Wake(c) PROVE Goal
  <2> DEFINE r == Head(toWake[c])
  <2>1. UNCHANGED <<ring, sendQ, closed, len>>
        /\ IF st[c] = "closing" THEN Give(r, Zero) ELSE UNCHANGED got
    BY <1>6 DEF Wake, queues, ring
  <2>2. \A d \in Clients : st'[d] = "closing" => st[d] = "closing"
    BY <1>6 DEF Wake, Unpark, ChanInv, TypeOK
  <2>3. Held' /\ \A s \in Clients : InFlight(s)' = InFlight(s)
    BY <1>0, <1>6, <2>1, <2>2, QuietHeld DEF Held, ClosedEmpty
  <2>4. CASE st[c] = "closing"
    <3>1. closed /\ len = 0 /\ sendQ = <<>>
      BY <2>4 DEF Held, ClosedEmpty
    <3>2. \A s \in Clients : InFlight(s) = <<>>
      BY <1>0, <3>1, EmptyDrained
    <3>3. r \in Clients
      BY <1>6, HeadTailProperties DEF Wake, ChanInv, TypeOK, Clients
    <3>4. Promise!Zeroed(r)
      BY <2>1, <2>3, <2>4, <3>1, <3>2
      DEF Promise!Zeroed, Promise!Drained, Promise!Give, Give
    <3>5. QED
      BY <2>3, <3>3, <3>4 DEF Promise!SpecNext
  <2>5. CASE st[c] # "closing"
    BY <1>1, <2>1, <2>3, <2>5
  <2>6. QED
    BY <2>4, <2>5
<1>7. QED
  BY <1>2, <1>3, <1>4, <1>5, <1>6 DEF Next, Running

\* Buffer, wait lists and direct handover together keep what a channel promises its
\* users: ty_chan_send, ty_chan_recv, ty_chan_try_recv and ty_chan_close lose,
\* duplicate and, for one sender, reorder no message, and zeroes come only from a
\* closed and empty channel.
THEOREM ChannelKeepsPromise == Spec => KeepsPromise
<1>1. Init => Held /\ Promise!SpecInit
  <2> SUFFICES ASSUME Init PROVE Held /\ Promise!SpecInit
    OBVIOUS
  <2>1. ChanInv /\ len = 0 /\ sendQ = <<>> /\ \A c \in Clients : st[c] # "closing"
    BY InitInv DEF Init
  <2>2. Held
    <3>1. Len(Buffered) = 0 /\ Buffered \in Seq(Values)
      BY <2>1, BufferedIs DEF RingRead
    <3>2. Buffered \in Seq(Msgs)
      BY <3>1, EmptySeq
    <3>3. QED
      BY <2>1, <3>2, EmptyDomain DEF Held
  <2>3. \A s \in Clients : InFlight(s) = <<>>
    BY <2>1, <2>2, EmptyDrained DEF HeldInv
  <2>4. QED
    BY <2>2, <2>3 DEF Init, Promise!SpecInit
<1>2. ChanInv /\ WakeInvariant /\ Held /\ [Next]_vars =>
        Held' /\ [Promise!SpecNext]_(Promise!specVars)
  BY PromiseStep
<1>3. QED
  BY <1>1, <1>2, InvAlways, WakeAlways, PTL DEF Spec, KeepsPromise, Promise!Spec
================================================================================
