--------------------------- MODULE RxBridgeProofs ---------------------------
(***************************************************************************)
(* midi_rx_pump's ring and EP2-IN for every number of ports, every size of *)
(* ring, transfer and FIFO, every alphabet and number of bytes: the ring   *)
(* never overflows into its unread packets, and what the parsers emitted   *)
(* reaches the host once and in order.                                     *)
(***************************************************************************)
EXTENDS RxBridge, WellFoundedInduction, TLAPS

-----------------------------------------------------------------------------
(* Induction.                                                              *)

LEMMA LeastNat ==
    ASSUME NEW T, T \subseteq Nat, T # {}
    PROVE  \E x \in T : \A y \in T : x <= y
<1>1. PICK R : R = OpToRel(<, Nat)
  OBVIOUS
<1>2. IsWellFoundedOn(R, Nat)
  BY <1>1, NatLessThanWellFounded
<1>3. PICK x \in T : \A y \in T : ~(<<y, x>> \in R)
  BY <1>2, WFMin
<1>4. \A y \in T : ~(y < x)
  BY <1>1, <1>3 DEF OpToRel
<1> QED
  BY <1>3, <1>4

\* The induction principle, for a set instead of a predicate.
LEMMA SetInduction ==
    ASSUME NEW T, T \subseteq Nat, 0 \in T, \A m \in T : m + 1 \in T
    PROVE  T = Nat
<1> SUFFICES ASSUME Nat \ T # {} PROVE FALSE
  OBVIOUS
<1>1. PICK x \in Nat \ T : \A y \in Nat \ T : x <= y
  BY LeastNat
<1>2. x # 0 /\ x - 1 \in Nat /\ ~(x <= x - 1)
  BY <1>1
<1>3. x - 1 \in T
  BY <1>1, <1>2
<1>4. x - 1 + 1 \in T
  BY <1>3
<1> QED
  BY <1>1, <1>4

\* Induction up to n, for a set instead of a predicate.
LEMMA UpTo ==
    ASSUME NEW n \in Nat, NEW T, 0 \in T, \A k \in 1 .. n : k - 1 \in T => k \in T
    PROVE  \A k \in 0 .. n : k \in T
<1>1. PICK D : D = {k \in Nat : k <= n => k \in T}
  OBVIOUS
<1>2. ASSUME NEW k \in D PROVE k + 1 \in D
  <2>1. k \in Nat /\ k + 1 \in Nat /\ (k + 1) - 1 = k
    BY <1>1
  <2>2. k + 1 <= n => k + 1 \in 1 .. n /\ k \in T
    BY <1>1, <2>1
  <2> QED
    BY <1>1, <2>1, <2>2
<1>3. D \subseteq Nat /\ 0 \in D
  BY <1>1
<1>4. D = Nat
  BY <1>2, <1>3, SetInduction
<1> QED
  BY <1>1, <1>4

\* Two functions that agree at 0, and at k whenever they do at k - 1.
LEMMA Agree ==
    ASSUME NEW n \in Nat, NEW f, NEW g, f[0] = g[0],
           \A k \in 1 .. n : f[k - 1] = g[k - 1] => f[k] = g[k]
    PROVE  f[n] = g[n]
<1>1. PICK T : T = {k \in Nat : f[k] = g[k]}
  OBVIOUS
<1>2. \A k \in 1 .. n : k - 1 \in T => k \in T
  BY <1>1
<1>3. 0 \in T
  BY <1>1
<1>4. \A k \in 0 .. n : k \in T
  BY <1>2, <1>3, UpTo
<1> QED
  BY <1>1, <1>4

-----------------------------------------------------------------------------
(* What the packets of a byte sequence, and those of one cable, are.       *)

\* The recursion of Parsed has a solution.
Parses(f, s) ==
    f = [k \in 0 .. Len(s) |-> IF k = 0 THEN Silent(Fresh) ELSE Then(f[k - 1], s[k])]

LEMMA ParsesAt ==
    ASSUME NEW s, Len(s) \in Nat, NEW f, Parses(f, s)
    PROVE  /\ f[0] = Silent(Fresh)
           /\ \A k \in 1 .. Len(s) : f[k] = Then(f[k - 1], s[k])
<1>1. \A k \in 0 .. Len(s) :
         f[k] = IF k = 0 THEN Silent(Fresh) ELSE Then(f[k - 1], s[k])
  BY DEF Parses
<1>2. 0 \in 0 .. Len(s) /\ \A k \in 1 .. Len(s) : k \in 0 .. Len(s) /\ k # 0
  OBVIOUS
<1> QED
  BY <1>1, <1>2

LEMMA ParsingExists ==
    ASSUME NEW s, Len(s) \in Nat
    PROVE  \E f : Parses(f, s)
<1> DEFINE Good(f, k) ==
              f[k] = IF k = 0 THEN Silent(Fresh) ELSE Then(f[k - 1], s[k])
           To(f, n) == \A k \in 0 .. Len(s) : k <= n => Good(f, k)
           T == {n \in Nat : \E f : f = [k \in 0 .. Len(s) |-> f[k]] /\ To(f, n)}
<1>1. 0 \in T
  <2>1. PICK f : f = [k \in 0 .. Len(s) |-> Silent(Fresh)]
    OBVIOUS
  <2>2. f = [k \in 0 .. Len(s) |-> f[k]] /\ To(f, 0)
    BY <2>1
  <2> QED
    BY <2>2
<1>2. ASSUME NEW n \in T PROVE n + 1 \in T
  <2>0. n \in Nat /\ 0 \in 0 .. Len(s)
    OBVIOUS
  <2>1. PICK f : f = [k \in 0 .. Len(s) |-> f[k]] /\ To(f, n)
    OBVIOUS
  <2>2. PICK x : x = Then(f[n], s[n + 1])
    OBVIOUS
  <2>3. PICK g : g = [k \in 0 .. Len(s) |-> IF k = n + 1 THEN x ELSE f[k]]
    OBVIOUS
  <2>4. ASSUME NEW k \in 0 .. Len(s), k <= n + 1 PROVE Good(g, k)
    <3>1. CASE k = 0
      <4>1. k <= n /\ k # n + 1
        BY <2>0, <3>1
      <4>2. Good(f, k)
        BY <2>1, <4>1
      <4>3. g[k] = f[k]
        BY <2>3, <4>1
      <4> QED
        BY <3>1, <4>2, <4>3
    <3>2. CASE k # 0 /\ k <= n
      <4>1. k - 1 \in 0 .. Len(s) /\ k - 1 # n + 1 /\ k # n + 1
        BY <2>0, <3>2
      <4>2. g[k] = f[k] /\ g[k - 1] = f[k - 1] /\ Good(f, k)
        BY <2>1, <2>3, <3>2, <4>1
      <4> QED
        BY <3>2, <4>2
    <3>3. CASE k = n + 1
      <4>1. k - 1 = n /\ n \in 0 .. Len(s) /\ n # n + 1 /\ k # 0
        BY <2>0, <3>3
      <4>2. g[k] = x /\ g[n] = f[n]
        BY <2>3, <3>3, <4>1
      <4> QED
        BY <2>2, <3>3, <4>1, <4>2
    <3> QED
      BY <2>0, <2>4, <3>1, <3>2, <3>3
  <2>5. To(g, n + 1)
    BY <2>4
  <2>6. g = [k \in 0 .. Len(s) |-> g[k]]
    BY <2>3
  <2>7. n + 1 \in Nat
    BY <2>0
  <2> HIDE DEF To
  <2> QED
    BY <2>5, <2>6, <2>7
<1>3. T = Nat
  <2> HIDE DEF T
  <2>1. T \subseteq Nat
    BY DEF T
  <2> QED
    BY <1>1, <1>2, <2>1, SetInduction
<1>4. PICK f : f = [k \in 0 .. Len(s) |-> f[k]] /\ To(f, Len(s))
  BY <1>3
<1>5. \A k \in 0 .. Len(s) :
         f[k] = IF k = 0 THEN Silent(Fresh) ELSE Then(f[k - 1], s[k])
  <2> SUFFICES ASSUME NEW k \in 0 .. Len(s) PROVE Good(f, k)
    OBVIOUS
  <2>1. k <= Len(s)
    OBVIOUS
  <2> QED
    BY <1>4, <2>1
<1>6. Parses(f, s)
  BY <1>4, <1>5 DEF Parses
<1> QED
  BY <1>6

LEMMA ParsedIs ==
    ASSUME NEW s, Len(s) \in Nat
    PROVE  \E f : Parses(f, s) /\ Parsed(s) = f[Len(s)]
<1>1. PICK f : f = CHOOSE g : Parses(g, s)
  OBVIOUS
<1>2. Parses(f, s)
  BY <1>1, ParsingExists, Zenon
<1>3. Parsed(s) = f[Len(s)]
  BY <1>1 DEF Parsed, Parses
<1> QED
  BY <1>2, <1>3

LEMMA ParsedEmpty == Parsed(<<>>) = Silent(Fresh)
<1>1. PICK f : Parses(f, <<>>) /\ Parsed(<<>>) = f[0]
  BY ParsedIs
<1> QED
  BY <1>1, ParsesAt

\* One byte more.
LEMMA ParsedNext ==
    ASSUME NEW S, NEW s \in Seq(S), NEW b \in S, NEW t, t = Append(s, b)
    PROVE  Parsed(t) = Then(Parsed(s), b)
<1>1. PICK n \in Nat : n = Len(s) /\ Len(t) = n + 1
  OBVIOUS
<1>2. t[n + 1] = b /\ \A k \in 1 .. n : t[k] = s[k]
  BY <1>1
<1>3. PICK f : Parses(f, s) /\ Parsed(s) = f[n]
  BY <1>1, ParsedIs
<1>4. PICK g : Parses(g, t) /\ Parsed(t) = g[n + 1]
  <2>1. Len(t) \in Nat
    BY <1>1
  <2> QED
    BY <1>1, <2>1, ParsedIs
<1>5. f[0] = Silent(Fresh) /\ \A k \in 1 .. n : f[k] = Then(f[k - 1], s[k])
  BY <1>1, <1>3, ParsesAt
<1>6. g[0] = Silent(Fresh) /\ \A k \in 1 .. n + 1 : g[k] = Then(g[k - 1], t[k])
  <2>1. Len(t) \in Nat
    BY <1>1
  <2> QED
    BY <1>1, <1>4, <2>1, ParsesAt
<1>7. \A k \in 1 .. n : f[k - 1] = g[k - 1] => f[k] = g[k]
  <2>1. \A k \in 1 .. n : k \in 1 .. n + 1
    BY <1>1
  <2> QED
    BY <1>2, <1>5, <1>6, <2>1
<1>8. f[n] = g[n]
  BY <1>5, <1>6, <1>7, Agree
<1>9. n + 1 \in 1 .. n + 1 /\ (n + 1) - 1 = n
  BY <1>1
<1> QED
  BY <1>2, <1>3, <1>4, <1>6, <1>8, <1>9

\* The recursion of Own has a solution.
Sorts(f, p, s) ==
    f = [k \in 0 .. Len(s) |-> IF k = 0 THEN <<>> ELSE Adding(p, f[k - 1], s[k])]

Sorted(f, p, s) ==
    f[0] = <<>> /\ \A k \in 1 .. Len(s) : f[k] = Adding(p, f[k - 1], s[k])

LEMMA SortsAt ==
    ASSUME NEW p, NEW s, Len(s) \in Nat, NEW f, Sorts(f, p, s)
    PROVE  Sorted(f, p, s)
<1>1. \A k \in 0 .. Len(s) :
         f[k] = IF k = 0 THEN <<>> ELSE Adding(p, f[k - 1], s[k])
  BY DEF Sorts
<1>2. 0 \in 0 .. Len(s) /\ \A k \in 1 .. Len(s) : k \in 0 .. Len(s) /\ k # 0
  OBVIOUS
<1> QED
  BY <1>1, <1>2 DEF Sorted

LEMMA SortingExists ==
    ASSUME NEW p, NEW s, Len(s) \in Nat
    PROVE  \E f : Sorts(f, p, s)
<1> DEFINE Good(f, k) ==
              f[k] = IF k = 0 THEN <<>> ELSE Adding(p, f[k - 1], s[k])
           To(f, n) == \A k \in 0 .. Len(s) : k <= n => Good(f, k)
           T == {n \in Nat : \E f : f = [k \in 0 .. Len(s) |-> f[k]] /\ To(f, n)}
<1>1. 0 \in T
  <2>1. PICK f : f = [k \in 0 .. Len(s) |-> <<>>]
    OBVIOUS
  <2>2. f = [k \in 0 .. Len(s) |-> f[k]] /\ To(f, 0)
    BY <2>1
  <2> QED
    BY <2>2
<1>2. ASSUME NEW n \in T PROVE n + 1 \in T
  <2>0. n \in Nat /\ 0 \in 0 .. Len(s)
    OBVIOUS
  <2>1. PICK f : f = [k \in 0 .. Len(s) |-> f[k]] /\ To(f, n)
    OBVIOUS
  <2>2. PICK x : x = Adding(p, f[n], s[n + 1])
    OBVIOUS
  <2>3. PICK g : g = [k \in 0 .. Len(s) |-> IF k = n + 1 THEN x ELSE f[k]]
    OBVIOUS
  <2>4. ASSUME NEW k \in 0 .. Len(s), k <= n + 1 PROVE Good(g, k)
    <3>1. CASE k = 0
      <4>1. k <= n /\ k # n + 1
        BY <2>0, <3>1
      <4>2. Good(f, k)
        BY <2>1, <4>1
      <4>3. g[k] = f[k]
        BY <2>3, <4>1
      <4> QED
        BY <3>1, <4>2, <4>3
    <3>2. CASE k # 0 /\ k <= n
      <4>1. k - 1 \in 0 .. Len(s) /\ k - 1 # n + 1 /\ k # n + 1
        BY <2>0, <3>2
      <4>2. g[k] = f[k] /\ g[k - 1] = f[k - 1] /\ Good(f, k)
        BY <2>1, <2>3, <3>2, <4>1
      <4> QED
        BY <3>2, <4>2
    <3>3. CASE k = n + 1
      <4>1. k - 1 = n /\ n \in 0 .. Len(s) /\ n # n + 1 /\ k # 0
        BY <2>0, <3>3
      <4>2. g[k] = x /\ g[n] = f[n]
        BY <2>3, <3>3, <4>1
      <4> QED
        BY <2>2, <3>3, <4>1, <4>2
    <3> QED
      BY <2>0, <2>4, <3>1, <3>2, <3>3
  <2>5. To(g, n + 1)
    BY <2>4
  <2>6. g = [k \in 0 .. Len(s) |-> g[k]]
    BY <2>3
  <2>7. n + 1 \in Nat
    BY <2>0
  <2> HIDE DEF To
  <2> QED
    BY <2>5, <2>6, <2>7
<1>3. T = Nat
  <2> HIDE DEF T
  <2>1. T \subseteq Nat
    BY DEF T
  <2> QED
    BY <1>1, <1>2, <2>1, SetInduction
<1>4. PICK f : f = [k \in 0 .. Len(s) |-> f[k]] /\ To(f, Len(s))
  BY <1>3
<1>5. \A k \in 0 .. Len(s) :
         f[k] = IF k = 0 THEN <<>> ELSE Adding(p, f[k - 1], s[k])
  <2> SUFFICES ASSUME NEW k \in 0 .. Len(s) PROVE Good(f, k)
    OBVIOUS
  <2>1. k <= Len(s)
    OBVIOUS
  <2> QED
    BY <1>4, <2>1
<1>6. Sorts(f, p, s)
  BY <1>4, <1>5 DEF Sorts
<1> QED
  BY <1>6

LEMMA OwnIs ==
    ASSUME NEW p, NEW s, Len(s) \in Nat
    PROVE  \E f : Sorts(f, p, s) /\ Own(p, s) = f[Len(s)]
<1>1. PICK f : f = CHOOSE g : Sorts(g, p, s)
  OBVIOUS
<1>2. Sorts(f, p, s)
  BY <1>1, SortingExists, Zenon
<1>3. Own(p, s) = f[Len(s)]
  BY <1>1 DEF Own, Sorts
<1> QED
  BY <1>2, <1>3

LEMMA OwnEmpty == ASSUME NEW p PROVE Own(p, <<>>) = <<>>
<1>1. PICK f : Sorts(f, p, <<>>) /\ Own(p, <<>>) = f[0]
  BY OwnIs
<1> QED
  BY <1>1, SortsAt DEF Sorted

\* One event more.
OneMore(p, s, e, t) == Own(p, t) = Adding(p, Own(p, s), e)

LEMMA OwnNext ==
    ASSUME NEW p, NEW S, NEW s \in Seq(S), NEW e \in S, NEW t, t = Append(s, e)
    PROVE  OneMore(p, s, e, t)
<1>1. PICK n \in Nat : n = Len(s) /\ Len(t) = n + 1
  OBVIOUS
<1>2. t[n + 1] = e /\ \A k \in 1 .. n : t[k] = s[k]
  BY <1>1
<1>3. PICK f : Sorts(f, p, s) /\ Own(p, s) = f[n]
  BY <1>1, OwnIs
<1>4. PICK g : Sorts(g, p, t) /\ Own(p, t) = g[n + 1]
  <2>1. Len(t) \in Nat
    BY <1>1
  <2> QED
    BY <1>1, <2>1, OwnIs
<1>5. f[0] = <<>> /\ \A k \in 1 .. n : f[k] = Adding(p, f[k - 1], s[k])
  BY <1>1, <1>3, SortsAt DEF Sorted
<1>6. g[0] = <<>> /\ \A k \in 1 .. n + 1 : g[k] = Adding(p, g[k - 1], t[k])
  <2>1. Len(t) \in Nat
    BY <1>1
  <2>2. Sorted(g, p, t)
    BY <1>4, <2>1, SortsAt
  <2> QED
    BY <1>1, <2>2 DEF Sorted
<1>7. \A k \in 1 .. n : f[k - 1] = g[k - 1] => f[k] = g[k]
  <2>1. \A k \in 1 .. n : k \in 1 .. n + 1
    BY <1>1
  <2> QED
    BY <1>2, <1>5, <1>6, <2>1
<1>8. f[n] = g[n]
  BY <1>5, <1>6, <1>7, Agree
<1>9. n + 1 \in 1 .. n + 1 /\ (n + 1) - 1 = n
  BY <1>1
<1> QED
  BY <1>2, <1>3, <1>4, <1>6, <1>8, <1>9 DEF OneMore

-----------------------------------------------------------------------------
(* The ring's arithmetic.                                                  *)

\* The ring in packets.
N == RingSize \div 4
Cells == 0 .. N - 1

\* Byte indices at packet boundaries.
Index(x) == x \in 0 .. RingSize - 1 /\ x % 4 = 0

\* Packets between two byte indices, and the cell of the i-th of them.
CountOf(h, t) == ((h - t + RingSize) % RingSize) \div 4
Cell(t, i) == (t \div 4 + i) % N

\* The index n packets on.
Jump(t, n) == (t + 4 * n) % RingSize

LEMMA SizeFacts == N \in Nat /\ N >= 2 /\ RingSize = 4 * N
  BY RingAssumption DEF N

LEMMA IndexFacts ==
    ASSUME NEW x, Index(x)
    PROVE  x \div 4 \in Cells /\ x = 4 * (x \div 4)
  BY RingAssumption DEF Index, Cells, N

LEMMA Modulo ==
    ASSUME NEW m \in Nat \ {0}, NEW x \in 0 .. 2 * m - 1
    PROVE  x % m = IF x < m THEN x ELSE x - m
  OBVIOUS

\* The byte arithmetic of the code is arithmetic on packets.
LEMMA CountPackets ==
    ASSUME NEW h, Index(h), NEW t, Index(t)
    PROVE  /\ CountOf(h, t) \in Cells
           /\ CountOf(h, t) = IF h >= t THEN h \div 4 - t \div 4
                                        ELSE h \div 4 - t \div 4 + N
           /\ (h - t + RingSize) % RingSize = 4 * CountOf(h, t)
<1>1. PICK a \in Cells, b \in Cells :
         h = 4 * a /\ a = h \div 4 /\ t = 4 * b /\ b = t \div 4
  BY IndexFacts
<1>2. PICK n \in Nat : n = N /\ n >= 2 /\ RingSize = 4 * n
  BY SizeFacts
<1>3. a \in 0 .. n - 1 /\ b \in 0 .. n - 1
  BY <1>2 DEF Cells
<1>4. h - t + RingSize \in 0 .. 2 * RingSize - 1
  BY <1>1, <1>2, <1>3
<1>5. (h - t + RingSize) % RingSize = IF h >= t THEN h - t ELSE h - t + RingSize
  <2>1. PICK x \in 0 .. 2 * RingSize - 1 : x = h - t + RingSize
    BY <1>4
  <2>2. x % RingSize = IF x < RingSize THEN x ELSE x - RingSize
    <3>1. RingSize \in Nat \ {0}
      BY <1>2
    <3> QED
      BY <2>1, <3>1, Modulo
  <2>3. x < RingSize <=> ~(h >= t)
    BY <1>1, <1>2, <1>3, <2>1
  <2> QED
    BY <1>1, <1>2, <1>3, <2>1, <2>2, <2>3
<1>6. (h - t + RingSize) % RingSize = 4 * (IF h >= t THEN a - b ELSE a - b + n)
  BY <1>1, <1>2, <1>3, <1>5
<1>7. CountOf(h, t) = IF h >= t THEN a - b ELSE a - b + n
  BY <1>1, <1>3, <1>6 DEF CountOf
<1>8. CountOf(h, t) \in Cells
  BY <1>1, <1>2, <1>3, <1>7 DEF Cells
<1> QED
  BY <1>1, <1>2, <1>6, <1>7, <1>8

\* The code's step to the next packet, and its jump over n packets.
LEMMA StepPackets ==
    ASSUME NEW t, Index(t), NEW k \in Cells
    PROVE  /\ Index(Jump(t, k))
           /\ Jump(t, k) \div 4 =
                 IF t \div 4 + k < N THEN t \div 4 + k ELSE t \div 4 + k - N
<1>1. PICK b \in Cells : t = 4 * b /\ b = t \div 4
  BY IndexFacts
<1>2. PICK n \in Nat : n = N /\ n >= 2 /\ RingSize = 4 * n
  BY SizeFacts
<1>3. b \in 0 .. n - 1 /\ k \in 0 .. n - 1
  BY <1>1, <1>2 DEF Cells
<1>4. t + 4 * k \in 0 .. 2 * RingSize - 1
  BY <1>1, <1>2, <1>3
<1>5. (t + 4 * k) % RingSize = IF t + 4 * k < RingSize THEN t + 4 * k
                                                       ELSE t + 4 * k - RingSize
  <2>1. PICK x \in 0 .. 2 * RingSize - 1 : x = t + 4 * k
    BY <1>4
  <2>2. x % RingSize = IF x < RingSize THEN x ELSE x - RingSize
    <3>1. RingSize \in Nat \ {0}
      BY <1>2
    <3> QED
      BY <2>1, <3>1, Modulo
  <2> QED
    BY <1>1, <1>2, <1>3, <2>1, <2>2
<1>6. (t + 4 * k) % RingSize = 4 * (IF b + k < n THEN b + k ELSE b + k - n)
  BY <1>1, <1>2, <1>3, <1>5
<1>7. PICK x \in 0 .. n - 1 : /\ x = IF b + k < n THEN b + k ELSE b + k - n
                              /\ (t + 4 * k) % RingSize = 4 * x
  <2>1. (IF b + k < n THEN b + k ELSE b + k - n) \in 0 .. n - 1
    BY <1>2, <1>3
  <2> QED
    BY <1>6, <2>1
<1>8. Index(4 * x) /\ (4 * x) \div 4 = x
  BY <1>2, <1>7 DEF Index
<1> QED
  BY <1>1, <1>2, <1>7, <1>8 DEF Jump

LEMMA CellFacts ==
    ASSUME NEW t, Index(t), NEW i \in Cells
    PROVE  /\ Cell(t, i) \in Cells
           /\ Cell(t, i) = IF t \div 4 + i < N THEN t \div 4 + i ELSE t \div 4 + i - N
<1>1. PICK n \in Nat : n = N /\ n >= 2
  BY SizeFacts
<1>2. PICK b \in 0 .. n - 1 : b = t \div 4
  BY <1>1, IndexFacts DEF Cells
<1>3. i \in 0 .. n - 1
  BY <1>1 DEF Cells
<1>4. PICK x \in 0 .. 2 * n - 1 : x = b + i
  BY <1>1, <1>3
<1>5. x % n = IF x < n THEN x ELSE x - n
  BY <1>1, <1>4, Modulo
<1>6. Cell(t, i) = x % n
  BY <1>1, <1>2, <1>4 DEF Cell
<1>7. Cell(t, i) = IF b + i < n THEN b + i ELSE b + i - n
  <2>1. CASE b + i < n
    BY <2>1, <1>1, <1>3, <1>4, <1>5, <1>6
  <2>2. CASE ~(b + i < n)
    BY <2>2, <1>1, <1>3, <1>4, <1>5, <1>6
  <2> QED
    BY <2>1, <2>2
<1>8. Cell(t, i) \in 0 .. n - 1
  BY <1>1, <1>3, <1>7
<1> QED
  BY <1>1, <1>2, <1>7, <1>8 DEF Cells

\* A packet put at the head is the last one; the others are elsewhere.
LEMMA PutArith ==
    ASSUME NEW h, Index(h), NEW t, Index(t), CountOf(h, t) < N - 1
    PROVE  /\ Index(Advance(h))
           /\ CountOf(Advance(h), t) = CountOf(h, t) + 1
           /\ Cell(t, CountOf(h, t)) = h \div 4
           /\ \A i \in 0 .. CountOf(h, t) - 1 : Cell(t, i) \in Cells \ {h \div 4}
<1>1. PICK n \in Nat : n = N /\ n >= 2 /\ RingSize = 4 * n
  BY SizeFacts
<1>2. PICK a \in 0 .. n - 1, b \in 0 .. n - 1 :
         a = h \div 4 /\ b = t \div 4 /\ h = 4 * a /\ t = 4 * b
  BY <1>1, IndexFacts DEF Cells
<1>3. PICK c \in 0 .. n - 1 : /\ c = CountOf(h, t)
                              /\ c = IF h >= t THEN a - b ELSE a - b + n
  BY <1>1, <1>2, CountPackets DEF Cells
<1>4. PICK e : e = Advance(h)
  OBVIOUS
<1>5. 1 \in Cells /\ e = Jump(h, 1)
  BY <1>1, <1>2, <1>4 DEF Cells, Advance, Jump
<1>6. Index(e) /\ e \div 4 = IF a + 1 < n THEN a + 1 ELSE a + 1 - n
  BY <1>1, <1>2, <1>5, StepPackets
<1>7. PICK d \in 0 .. n - 1 : d = e \div 4 /\ e = 4 * d
  BY <1>1, <1>6, IndexFacts DEF Cells
<1>8. CountOf(e, t) = IF e >= t THEN d - b ELSE d - b + n
  BY <1>1, <1>2, <1>6, <1>7, CountPackets
<1>9. c < n - 1
  BY <1>1, <1>3
<1>10. CountOf(e, t) = c + 1
  BY <1>1, <1>2, <1>3, <1>6, <1>7, <1>8, <1>9
<1>11. \A i \in 0 .. c : i \in Cells /\ Cell(t, i) \in Cells
                         /\ Cell(t, i) = IF b + i < n THEN b + i ELSE b + i - n
  BY <1>1, <1>2, <1>3, CellFacts DEF Cells
<1>12. Cell(t, c) = a
  BY <1>1, <1>2, <1>3, <1>11
<1>13. \A i \in 0 .. c - 1 : Cell(t, i) \in Cells /\ Cell(t, i) # a
  BY <1>1, <1>2, <1>3, <1>9, <1>11
<1> QED
  BY <1>2, <1>3, <1>4, <1>6, <1>10, <1>12, <1>13

\* Taking k packets from the tail leaves the others in their cells.
LEMMA TakeArith ==
    ASSUME NEW h, Index(h), NEW t, Index(t), NEW k \in 0 .. CountOf(h, t),
           NEW e, e = Jump(t, k)
    PROVE  /\ Index(e)
           /\ CountOf(h, e) = CountOf(h, t) - k
           /\ \A i \in 0 .. CountOf(h, t) - k - 1 : Cell(e, i) = Cell(t, i + k)
<1>1. PICK n \in Nat : n = N /\ n >= 2 /\ RingSize = 4 * n
  BY SizeFacts
<1>2. PICK a \in 0 .. n - 1, b \in 0 .. n - 1 :
         a = h \div 4 /\ b = t \div 4 /\ h = 4 * a /\ t = 4 * b
  BY <1>1, IndexFacts DEF Cells
<1>3. PICK c \in 0 .. n - 1 : /\ c = CountOf(h, t)
                              /\ c = IF h >= t THEN a - b ELSE a - b + n
  BY <1>1, <1>2, CountPackets DEF Cells
<1>4. k \in 0 .. c /\ k \in Cells
  BY <1>1, <1>3 DEF Cells
<1>5. Index(e) /\ e \div 4 = IF b + k < n THEN b + k ELSE b + k - n
  BY <1>1, <1>2, <1>4, StepPackets
<1>6. PICK d \in 0 .. n - 1 : d = e \div 4 /\ e = 4 * d
  BY <1>1, <1>5, IndexFacts DEF Cells
<1>7. CountOf(h, e) = IF h >= e THEN a - d ELSE a - d + n
  BY <1>1, <1>2, <1>5, <1>6, CountPackets
<1>8. CountOf(h, e) = c - k
  <2>1. h >= t <=> a >= b
    BY <1>2
  <2>2. h >= e <=> a >= d
    BY <1>2, <1>6
  <2>3. CASE b + k < n
    <3>1. d = b + k
      BY <2>3, <1>5, <1>6
    <3>2. CASE a >= b
      BY <2>1, <2>2, <3>1, <3>2, <1>1, <1>2, <1>3, <1>4, <1>7
    <3>3. CASE ~(a >= b)
      BY <2>1, <2>2, <3>1, <3>3, <2>3, <1>1, <1>2, <1>3, <1>4, <1>7
    <3> QED
      BY <3>2, <3>3
  <2>4. CASE ~(b + k < n)
    <3>1. d = b + k - n
      BY <2>4, <1>5, <1>6
    <3>2. CASE a >= b
      BY <2>1, <2>2, <3>1, <3>2, <2>4, <1>1, <1>2, <1>3, <1>4, <1>7
    <3>3. CASE ~(a >= b)
      BY <2>1, <2>2, <3>1, <3>3, <2>4, <1>1, <1>2, <1>3, <1>4, <1>7
    <3> QED
      BY <3>2, <3>3
  <2> QED
    BY <2>3, <2>4
<1>9. ASSUME NEW i \in 0 .. c - k - 1
      PROVE  Cell(e, i) = Cell(t, i + k)
  <2>1. i \in Cells /\ i + k \in Cells
    BY <1>1, <1>3, <1>4 DEF Cells
  <2>2. Cell(e, i) = IF d + i < n THEN d + i ELSE d + i - n
    BY <1>1, <1>5, <1>6, <2>1, CellFacts
  <2>3. Cell(t, i + k) = IF b + (i + k) < n THEN b + (i + k) ELSE b + (i + k) - n
    BY <1>1, <1>2, <2>1, CellFacts
  <2>4. i \in Nat /\ i < c - k /\ k \in Nat
    BY <1>3, <1>4
  <2>5. CASE b + k < n
    <3>1. d = b + k
      BY <2>5, <1>5, <1>6
    <3>2. d + i = b + (i + k)
      BY <3>1, <2>4, <1>1, <1>2
    <3> QED
      BY <3>2, <2>2, <2>3
  <2>6. CASE ~(b + k < n)
    <3>1. d = b + k - n
      BY <2>6, <1>5, <1>6
    <3>2. d + i < n /\ ~(b + (i + k) < n) /\ d + i = b + (i + k) - n
      BY <3>1, <2>4, <2>6, <1>1, <1>2, <1>3
    <3> QED
      BY <3>2, <2>2, <2>3
  <2> QED
    BY <2>5, <2>6
<1> QED
  BY <1>3, <1>5, <1>8, <1>9

-----------------------------------------------------------------------------
(* The packets in the ring.                                                *)

\* The n packets from byte index t on, in a ring f.
Front(f, t, n) == [i \in 1 .. n |-> f[Cell(t, i - 1)][1]]

LEMMA FrontIs ==
    ASSUME NEW n \in Cells, Index(rx_tail)
    PROVE  RingFront(n) = Front(rx_ring, rx_tail, n)
<1>1. PICK b \in Cells : b = rx_tail \div 4
  BY IndexFacts
<1>2. \A i \in 1 .. n : b + i - 1 = b + (i - 1)
  BY <1>1, SizeFacts DEF Cells
<1> QED
  BY <1>1, <1>2 DEF RingFront, Front, Cell, N

LEMMA FrontLen ==
    ASSUME NEW f, NEW t, NEW n \in Nat, NEW S, Front(f, t, n) \in Seq(S)
    PROVE  Len(Front(f, t, n)) = n
  BY DEF Front

\* A part of the ring whose packets are in S is a sequence over S.
LEMMA FrontSeq ==
    ASSUME NEW f, NEW t, NEW n \in Nat, NEW S,
           \A i \in 0 .. n - 1 : f[Cell(t, i)][1] \in S
    PROVE  Front(f, t, n) \in Seq(S)
<1>1. \A i \in 1 .. n : f[Cell(t, i - 1)][1] \in S
  <2>1. \A i \in 1 .. n : i - 1 \in 0 .. n - 1
    OBVIOUS
  <2> QED
    BY <2>1
<1>2. Front(f, t, n) \in [1 .. n -> S]
  BY <1>1 DEF Front
<1> QED
  BY <1>2

LEMMA SameSequence ==
    ASSUME NEW S, NEW u \in Seq(S), NEW v \in Seq(S), Len(u) = Len(v),
           \A i \in 1 .. Len(u) : u[i] = v[i]
    PROVE  u = v
  OBVIOUS

LEMMA FrontAt ==
    ASSUME NEW f, NEW t, NEW n \in Nat, NEW i \in 0 .. n - 1
    PROVE  Front(f, t, n)[i + 1] = f[Cell(t, i)][1]
<1>1. i + 1 \in 1 .. n /\ i + 1 - 1 = i
  OBVIOUS
<1> QED
  BY <1>1 DEF Front

\* emit() appends its packet to those in the ring.
Appended(g, t, d, f, c, x, S) ==
    /\ Front(g, t, d) \in Seq(S)
    /\ Front(g, t, d) = Front(f, t, c) \o <<x>>

LEMMA FrontPut ==
    ASSUME NEW f, DOMAIN f = Cells, NEW h, Index(h), NEW t, Index(t), NEW S,
           NEW c, c = CountOf(h, t), c < N - 1, Front(f, t, c) \in Seq(S),
           NEW x \in S, NEW g, g = [f EXCEPT ![h \div 4] = <<x>>],
           NEW d, d = c + 1
    PROVE  Appended(g, t, d, f, c, x, S)
<1>1. c \in Nat /\ c \in Cells /\ h \div 4 \in Cells
  BY CountPackets, SizeFacts, IndexFacts DEF Cells
<1>2. g[Cell(t, c)][1] = x
  <2>1. Cell(t, c) = h \div 4
    BY PutArith
  <2>2. g[h \div 4] = <<x>>
    BY <1>1
  <2> QED
    BY <2>1, <2>2
<1>3. \A i \in 0 .. c - 1 : g[Cell(t, i)][1] = f[Cell(t, i)][1]
  <2>1. \A i \in 0 .. c - 1 : Cell(t, i) \in Cells \ {h \div 4}
    BY PutArith
  <2> QED
    BY <2>1
<1>4. \A i \in 0 .. c - 1 : f[Cell(t, i)][1] \in S
  <2>1. Len(Front(f, t, c)) = c
    BY <1>1, FrontLen
  <2>2. \A i \in 0 .. c - 1 : i + 1 \in 1 .. c
    BY <1>1
  <2> QED
    BY <1>1, <2>1, <2>2, FrontAt
<1>5. Front(g, t, c + 1) \in Seq(S)
  <2>1. \A i \in 0 .. c : i \in 0 .. c - 1 \/ i = c
    BY <1>1
  <2>2. \A i \in 0 .. (c + 1) - 1 : g[Cell(t, i)][1] \in S
    BY <1>1, <1>2, <1>3, <1>4, <2>1
  <2>3. c + 1 \in Nat
    BY <1>1
  <2> QED
    BY <2>2, <2>3, FrontSeq
<1>6. \A i \in 1 .. c + 1 : Front(g, t, c + 1)[i] = (Front(f, t, c) \o <<x>>)[i]
  <2> SUFFICES ASSUME NEW i \in 1 .. c + 1
               PROVE  Front(g, t, c + 1)[i] = (Front(f, t, c) \o <<x>>)[i]
    OBVIOUS
  <2>1. Len(Front(f, t, c)) = c /\ <<x>> \in Seq(S)
    BY <1>1, FrontLen
  <2>2. Front(g, t, c + 1)[i] = g[Cell(t, i - 1)][1]
    BY <1>1 DEF Front
  <2>3. CASE i = c + 1
    <3>1. i - 1 = c
      BY <1>1, <2>3
    <3>2. (Front(f, t, c) \o <<x>>)[c + 1] = x
      BY <1>1, <2>1
    <3> QED
      BY <1>2, <2>2, <2>3, <3>1, <3>2
  <2>4. CASE i # c + 1
    <3>1. i \in 1 .. c /\ i - 1 \in 0 .. c - 1
      BY <1>1, <2>4
    <3>2. (Front(f, t, c) \o <<x>>)[i] = Front(f, t, c)[i]
      BY <2>1, <3>1
    <3>3. Front(f, t, c)[i] = f[Cell(t, i - 1)][1]
      BY <3>1 DEF Front
    <3> QED
      BY <1>3, <2>2, <3>1, <3>2, <3>3
  <2> QED
    BY <2>3, <2>4
<1>7. Len(Front(g, t, c + 1)) = c + 1 /\ Len(Front(f, t, c) \o <<x>>) = c + 1
  BY <1>1, <1>5, FrontLen
<1>8. Front(f, t, c) \o <<x>> \in Seq(S)
  OBVIOUS
<1> QED
  BY <1>5, <1>6, <1>7, <1>8, SameSequence DEF Appended

\* The copy loop splits them: those it copies, and those that stay.
Splits(f, t, c, k, e, d, S) ==
    /\ Front(f, t, k) \in Seq(S) /\ Front(f, e, d) \in Seq(S)
    /\ Front(f, t, c) = Front(f, t, k) \o Front(f, e, d)

LEMMA FrontTake ==
    ASSUME NEW f, NEW h, Index(h), NEW t, Index(t), NEW S,
           NEW c, c = CountOf(h, t), Front(f, t, c) \in Seq(S),
           NEW k \in 0 .. c, NEW e, e = Jump(t, k), NEW d, d = c - k
    PROVE  Splits(f, t, c, k, e, d, S)
<1>1. c \in Nat /\ k \in Nat /\ c - k \in Nat
  <2>1. c \in Nat
    BY CountPackets, SizeFacts DEF Cells
  <2> QED
    BY <2>1
<1>2. \A i \in 0 .. c - 1 : f[Cell(t, i)][1] \in S
  <2>1. Len(Front(f, t, c)) = c
    BY <1>1, FrontLen
  <2>2. \A i \in 0 .. c - 1 : i + 1 \in 1 .. c
    BY <1>1
  <2>3. \A i \in 0 .. c - 1 : Front(f, t, c)[i + 1] \in S
    BY <2>1, <2>2
  <2>4. \A i \in 0 .. c - 1 : Front(f, t, c)[i + 1] = f[Cell(t, i)][1]
    BY <1>1, FrontAt
  <2> QED
    BY <2>3, <2>4
<1>3. Front(f, t, k) \in Seq(S)
  <2>1. \A i \in 0 .. k - 1 : i \in 0 .. c - 1
    BY <1>1
  <2> QED
    BY <1>1, <1>2, <2>1, FrontSeq
<1>4. \A i \in 0 .. c - k - 1 : Cell(e, i) = Cell(t, i + k)
  BY TakeArith
<1>5. Front(f, e, c - k) \in Seq(S)
  <2>1. \A i \in 0 .. c - k - 1 : i + k \in 0 .. c - 1
    BY <1>1
  <2>2. \A i \in 0 .. (c - k) - 1 : f[Cell(e, i)][1] \in S
    BY <1>2, <1>4, <2>1
  <2> QED
    BY <1>1, <2>2, FrontSeq
<1>6. /\ Len(Front(f, t, c)) = c /\ Len(Front(f, t, k)) = k
      /\ Len(Front(f, e, c - k)) = c - k
  BY <1>1, <1>3, <1>5, FrontLen
<1>7. \A i \in 1 .. c :
         Front(f, t, c)[i] = (Front(f, t, k) \o Front(f, e, c - k))[i]
  <2> SUFFICES ASSUME NEW i \in 1 .. c
               PROVE  Front(f, t, c)[i] = (Front(f, t, k) \o Front(f, e, c - k))[i]
    OBVIOUS
  <2>1. Front(f, t, c)[i] = f[Cell(t, i - 1)][1]
    BY DEF Front
  <2>2. CASE i <= k
    <3>1. i \in 1 .. k
      BY <1>1, <2>2
    <3>2. Front(f, t, k)[i] = f[Cell(t, i - 1)][1]
      BY <3>1 DEF Front
    <3> QED
      BY <1>3, <1>5, <1>6, <2>1, <3>1, <3>2
  <2>3. CASE ~(i <= k)
    <3>1. PICK j \in 1 .. c - k : j = i - k
      BY <1>1, <2>3
    <3>2. j - 1 \in 0 .. c - k - 1 /\ (j - 1) + k = i - 1
      BY <1>1, <3>1
    <3>3. Front(f, e, c - k)[j] = f[Cell(e, j - 1)][1]
      BY <3>1 DEF Front
    <3>4. Cell(e, j - 1) = Cell(t, i - 1)
      BY <1>4, <3>2
    <3>5. (Front(f, t, k) \o Front(f, e, c - k))[i] = Front(f, e, c - k)[j]
      BY <1>1, <1>3, <1>5, <1>6, <2>3, <3>1
    <3> QED
      BY <2>1, <3>3, <3>4, <3>5
  <2> QED
    BY <2>2, <2>3
<1>8. /\ Front(f, t, k) \o Front(f, e, c - k) \in Seq(S)
      /\ Len(Front(f, t, k) \o Front(f, e, c - k)) = c
  BY <1>1, <1>3, <1>5, <1>6
<1> QED
  BY <1>3, <1>5, <1>6, <1>7, <1>8, SameSequence DEF Splits

-----------------------------------------------------------------------------
(* The parser: what the ring has to know of it.                            *)

Fields == {"status", "cin", "need", "have", "d0", "in_sysex", "sx"}

\* The SysEx buffer never fills: the third byte flushes it.
Fine(st) == DOMAIN st = Fields /\ st.sx \in Seq(Byte) /\ Len(st.sx) <= 2

\* One byte makes at most one packet.
AtMostOne(r) == Fine(r.ps) /\ (r.out = <<>> \/ \E pk : r.out = <<pk>>)

LEMMA SilentFine == ASSUME NEW st, Fine(st) PROVE AtMostOne(Silent(st))
  BY DEF AtMostOne, Silent

LEMMA EmitsFine == ASSUME NEW st, Fine(st), NEW pk PROVE AtMostOne(Emits(st, pk))
  BY DEF AtMostOne, Emits

LEMMA AbortedFine == ASSUME NEW st, Fine(st) PROVE Fine(Aborted(st))
  BY DEF Aborted, Fine, Fields

LEMMA SysExEndFine == ASSUME NEW st, Fine(st) PROVE AtMostOne(SysExEnd(st))
<1>1. CASE st.in_sysex
  <2> DEFINE new == [st EXCEPT !.status = 0, !.in_sysex = FALSE, !.sx = <<>>]
             sx  == Append(st.sx, 247)
  <2>1. Fine(new)
    BY DEF Fine, Fields
  <2>2. SysExEnd(st) =
           Emits(new, Packet(4 + Len(sx), sx[1], SxByte(sx, 2), SxByte(sx, 3)))
    BY <1>1 DEF SysExEnd
  <2> QED
    BY <2>1, <2>2, EmitsFine
<1>2. CASE ~st.in_sysex
  <2> DEFINE new == [st EXCEPT !.status = 0]
  <2>1. Fine(new)
    BY DEF Fine, Fields
  <2>2. SysExEnd(st) = Emits(new, Packet(5, 247, 0, 0))
    BY <1>2 DEF SysExEnd
  <2> QED
    BY <2>1, <2>2, EmitsFine
<1> QED
  BY <1>1, <1>2

LEMMA ChannelFine ==
    ASSUME NEW st, Fine(st), NEW b \in Byte PROVE AtMostOne(ChannelStatus(st, b))
<1>1. PICK old : old = Aborted(st) /\ Fine(old)
  BY AbortedFine
<1>2. PICK cin : cin = b \div 16
  OBVIOUS
<1>3. PICK need : need = IF cin \in {12, 13} THEN 1 ELSE 2
  OBVIOUS
<1> DEFINE new == [old EXCEPT !.status = b, !.cin = cin, !.need = need]
<1>4. Fine(new)
  BY <1>1 DEF Fine, Fields
<1>5. ChannelStatus(st, b) = Silent(new)
  BY <1>1, <1>2, <1>3 DEF ChannelStatus
<1> QED
  BY <1>4, <1>5, SilentFine

LEMMA CommonFine ==
    ASSUME NEW st, Fine(st), NEW b \in Byte PROVE AtMostOne(SystemCommon(st, b))
<1>1. PICK old : old = Aborted(st) /\ Fine(old)
  BY AbortedFine
<1> DEFINE one  == [old EXCEPT !.status = b, !.cin = 2, !.need = 1]
           two  == [old EXCEPT !.status = b, !.cin = 3, !.need = 2]
           none == [old EXCEPT !.status = 0]
<1>2. Fine(one) /\ Fine(two) /\ Fine(none)
  BY <1>1 DEF Fine, Fields
<1>3. CASE b \in {241, 243}
  <2>1. SystemCommon(st, b) = Silent(one)
    BY <1>1, <1>3 DEF SystemCommon
  <2> QED
    BY <1>2, <2>1, SilentFine
<1>4. CASE b = 242
  <2>1. SystemCommon(st, b) = Silent(two)
    BY <1>1, <1>4 DEF SystemCommon
  <2> QED
    BY <1>2, <2>1, SilentFine
<1>5. CASE b \notin {241, 242, 243}
  <2>1. SystemCommon(st, b) = Emits(none, Packet(5, b, 0, 0))
    BY <1>1, <1>5 DEF SystemCommon
  <2> QED
    BY <1>2, <2>1, EmitsFine
<1> QED
  BY <1>3, <1>4, <1>5

LEMMA SysExDataFine ==
    ASSUME NEW st, Fine(st), NEW b \in Byte PROVE AtMostOne(SysExData(st, b))
<1>1. PICK sx : /\ sx = Append(st.sx, b) /\ sx \in Seq(Byte)
                /\ Len(sx) \in 0 .. 3
  <2>1. st.sx \in Seq(Byte) /\ Len(st.sx) \in Nat /\ Len(st.sx) <= 2
    BY DEF Fine
  <2>2. PICK sx : sx = Append(st.sx, b)
    OBVIOUS
  <2>3. sx \in Seq(Byte) /\ Len(sx) = Len(st.sx) + 1
    BY <2>1, <2>2
  <2>4. Len(sx) \in 0 .. 3
    BY <2>1, <2>3
  <2> QED
    BY <2>2, <2>3, <2>4
<1>2. CASE Len(sx) = 3
  <2> DEFINE new == [st EXCEPT !.sx = <<>>]
  <2>1. Fine(new)
    BY DEF Fine, Fields
  <2>2. SysExData(st, b) = Emits(new, Packet(4, sx[1], sx[2], sx[3]))
    BY <1>1, <1>2 DEF SysExData
  <2> QED
    BY <2>1, <2>2, EmitsFine
<1>3. CASE Len(sx) # 3
  <2> DEFINE new == [st EXCEPT !.sx = sx]
  <2>1. Fine(new)
    BY <1>1, <1>3 DEF Fine, Fields
  <2>2. SysExData(st, b) = Silent(new)
    BY <1>1, <1>3 DEF SysExData
  <2> QED
    BY <2>1, <2>2, SilentFine
<1> QED
  BY <1>2, <1>3

LEMMA MessageFine ==
    ASSUME NEW st, Fine(st), NEW b \in Byte PROVE AtMostOne(MessageData(st, b))
<1>1. CASE st.status = 0
  <2>1. MessageData(st, b) = Silent(st)
    BY <1>1 DEF MessageData
  <2> QED
    BY <2>1, SilentFine
<1>2. CASE st.status # 0 /\ st.need = 2 /\ st.have = 0
  <2> DEFINE new == [st EXCEPT !.d0 = b, !.have = 1]
  <2>1. Fine(new)
    BY DEF Fine, Fields
  <2>2. MessageData(st, b) = Silent(new)
    BY <1>2 DEF MessageData
  <2> QED
    BY <2>1, <2>2, SilentFine
<1>3. CASE st.status # 0 /\ ~(st.need = 2 /\ st.have = 0)
  <2>1. PICK next : next = IF st.status >= 240 THEN 0 ELSE st.status
    OBVIOUS
  <2>2. PICK pk : pk = IF st.need = 1 THEN Packet(st.cin, st.status, b, 0)
                                      ELSE Packet(st.cin, st.status, st.d0, b)
    OBVIOUS
  <2> DEFINE new == [st EXCEPT !.have = 0, !.status = next]
  <2>3. Fine(new)
    BY DEF Fine, Fields
  <2>4. MessageData(st, b) = Emits(new, pk)
    BY <1>3, <2>1, <2>2 DEF MessageData, Fine, Fields
  <2> QED
    BY <2>3, <2>4, EmitsFine
<1> QED
  BY <1>1, <1>2, <1>3

LEMMA ParseFine ==
    ASSUME NEW st, Fine(st), NEW b \in Byte PROVE AtMostOne(ParseByte(st, b))
<1>1. CASE b >= 248
  BY <1>1, EmitsFine DEF ParseByte, RealTime, Byte
<1>2. CASE b = 240
  <2> DEFINE new == [st EXCEPT !.status = 0, !.have = 0, !.in_sysex = TRUE,
                               !.sx = <<240>>]
  <2>1. Fine(new)
    <3>1. <<240>> \in Seq(Byte) /\ Len(<<240>>) <= 2
      BY DEF Byte
    <3>2. new.sx = <<240>> /\ DOMAIN new = Fields
      BY DEF Fine, Fields
    <3> QED
      BY <3>1, <3>2 DEF Fine
  <2>2. ParseByte(st, b) = Silent(new)
    BY <1>2 DEF ParseByte, SysExStart
  <2> QED
    BY <2>1, <2>2, SilentFine
<1>3. CASE b = 247
  BY <1>3, SysExEndFine DEF ParseByte
<1>4. CASE b \in 128 .. 239
  BY <1>4, ChannelFine DEF ParseByte, Byte
<1>5. CASE b \in 241 .. 246
  BY <1>5, CommonFine DEF ParseByte, Byte
<1>6. CASE b < 128
  <2>1. ParseByte(st, b) = IF st.in_sysex THEN SysExData(st, b) ELSE MessageData(st, b)
    BY <1>6 DEF ParseByte, Byte
  <2> QED
    BY <2>1, SysExDataFine, MessageFine
<1> QED
  BY <1>1, <1>2, <1>3, <1>4, <1>5, <1>6 DEF Byte

-----------------------------------------------------------------------------
(* The inductive invariant.                                                *)

Count == CountOf(rx_head, rx_tail)

RingInv ==
    /\ Index(rx_head) /\ Index(rx_tail)
    /\ DOMAIN rx_ring = Cells

PortsInv ==
    /\ queue \in [Ports -> Seq(Alphabet)] /\ parser = [p \in Ports |-> parser[p]]
    /\ \A p \in Ports : Len(queue[p]) <= FifoCapacity /\ Fine(parser[p])
    /\ port \in Ports

\* EP2-IN holds packets from the copy loop on until the host has taken them.
EndpointInv ==
    /\ in2busy \in BOOLEAN /\ pc \in {"drain", "ship", "arm"}
    /\ Len(in2buf) <= MaxPkt \div 4
    /\ in2buf # <<>> <=> (in2busy \/ pc = "arm")
    /\ pc = "arm" => ~in2busy

\* Packets, whatever they are, in the order they were made in.
Ordered(S) ==
    /\ departed \in Seq(S) /\ in2buf \in Seq(S) /\ emitted \in Seq(S)
    /\ Front(rx_ring, rx_tail, Count) \in Seq(S)
    /\ departed \o in2buf \o Front(rx_ring, rx_tail, Count) = emitted

BridgeInv == RingInv /\ PortsInv /\ EndpointInv /\ \E S : Ordered(S)

LEMMA CountFacts ==
    ASSUME RingInv
    PROVE  /\ Count \in Cells /\ Count \in Nat /\ rx_ring_count = 4 * Count
           /\ rx_ring_count \div 4 = Count
  BY CountPackets, SizeFacts DEF RingInv, Count, rx_ring_count, Cells

LEMMA BridgeInit == Init => BridgeInv
<1> SUFFICES ASSUME Init PROVE BridgeInv
  OBVIOUS
<1>1. RingInv
  <2>1. Index(0)
    BY RingAssumption DEF Index
  <2> QED
    BY <2>1 DEF Init, RingInv, Cells, N
<1>2. PortsInv
  <2>1. Fine(Fresh)
    BY DEF Fine, Fresh, Fields
  <2>2. 0 \in Ports /\ FifoCapacity \in Nat
    BY PortsAssumption DEF Ports
  <2>3. <<>> \in Seq(Alphabet) /\ Len(<<>>) = 0
    OBVIOUS
  <2> QED
    BY <2>1, <2>2, <2>3 DEF Init, PortsInv
<1>3. EndpointInv
  <2>1. Len(<<>>) <= MaxPkt \div 4
    BY MaxPktAssumption
  <2>2. in2buf = <<>> /\ in2busy = FALSE /\ pc = "drain"
    BY DEF Init
  <2>3. Len(in2buf) <= MaxPkt \div 4
    BY <2>1, <2>2
  <2> QED
    BY <2>2, <2>3, Zenon DEF EndpointInv
<1>4. Ordered({})
  <2>1. Count = 0
    BY SizeFacts DEF Init, Count, CountOf
  <2>2. Front(rx_ring, rx_tail, 0) = <<>>
    BY DEF Front
  <2>3. Front(rx_ring, rx_tail, Count) = <<>>
    BY <2>1, <2>2
  <2>4. departed = <<>> /\ in2buf = <<>> /\ emitted = <<>>
    BY DEF Init
  <2>5. <<>> \in Seq({}) /\ <<>> \o <<>> \o <<>> = <<>>
    OBVIOUS
  <2> QED
    BY <2>3, <2>4, <2>5, Zenon DEF Ordered
<1> QED
  BY <1>1, <1>2, <1>3, <1>4 DEF BridgeInv

\* A step that leaves ring, endpoint and histories alone keeps the order.
LEMMA OrderKept ==
    ASSUME \E S : Ordered(S), UNCHANGED <<ringVars, in2buf, departed>>
    PROVE  \E S : Ordered(S)'
<1>1. PICK S : Ordered(S)
  OBVIOUS
<1>2. Ordered(S)'
  BY <1>1 DEF Ordered, ringVars, Count
<1> QED
  BY <1>2

LEMMA ArriveStep ==
    ASSUME BridgeInv, NEW p \in Ports, NEW b \in Alphabet, Arrive(p, b)
    PROVE  BridgeInv'
<1>1. RingInv' /\ EndpointInv'
  BY DEF Arrive, BridgeInv, RingInv, EndpointInv, ringVars, ep2Vars
<1>2. PortsInv'
  <2>1. /\ queue' \in [Ports -> Seq(Alphabet)]
        /\ \A q \in Ports : Len(queue'[q]) <= FifoCapacity
    <3>1. CASE Fifo!Capture(p, b)
      <4>1. \A q \in Ports : queue[q] \in Seq(Alphabet) /\ Len(queue[q]) \in Nat
                             /\ Len(queue[q]) <= FifoCapacity
        BY DEF BridgeInv, PortsInv
      <4>2. Len(queue[p]) < FifoCapacity /\ FifoCapacity \in Nat
        BY <3>1, PortsAssumption DEF Fifo!Capture
      <4>3. PICK q2 : q2 = Append(queue[p], b)
        OBVIOUS
      <4>4. q2 \in Seq(Alphabet) /\ Len(q2) <= FifoCapacity
        BY <4>1, <4>2, <4>3
      <4>5. queue' = [queue EXCEPT ![p] = q2]
        BY <3>1, <4>3 DEF Fifo!Capture
      <4> QED
        BY <4>1, <4>4, <4>5 DEF BridgeInv, PortsInv
    <3>2. CASE Fifo!Drop(p)
      BY <3>2 DEF Fifo!Drop, BridgeInv, PortsInv
    <3> QED
      BY <3>1, <3>2 DEF Arrive
  <2> QED
    BY <2>1 DEF Arrive, BridgeInv, PortsInv
<1>3. \E S : Ordered(S)'
  BY OrderKept DEF Arrive, BridgeInv, ep2Vars
<1> QED
  BY <1>1, <1>2, <1>3 DEF BridgeInv

LEMMA DrainNextStep == ASSUME BridgeInv, DrainNext PROVE BridgeInv'
<1>1. RingInv'
  BY DEF DrainNext, BridgeInv, RingInv, ringVars
<1>2. PortsInv'
  <2>1. port' \in Ports
    BY PortsAssumption DEF DrainNext, BridgeInv, PortsInv, Ports
  <2> QED
    BY <2>1 DEF DrainNext, BridgeInv, PortsInv, fifoVars
<1>3. EndpointInv'
  BY DEF DrainNext, BridgeInv, EndpointInv, ep2Vars
<1>4. \E S : Ordered(S)'
  BY OrderKept DEF DrainNext, BridgeInv, ep2Vars
<1> QED
  BY <1>1, <1>2, <1>3, <1>4 DEF BridgeInv

LEMMA ShipBusyStep == ASSUME BridgeInv, ShipBusy PROVE BridgeInv'
<1>1. RingInv' /\ PortsInv' /\ EndpointInv'
  BY DEF ShipBusy, BridgeInv, RingInv, PortsInv, EndpointInv, ringVars, fifoVars, ep2Vars
<1>2. \E S : Ordered(S)'
  BY OrderKept DEF ShipBusy, BridgeInv, ep2Vars
<1> QED
  BY <1>1, <1>2 DEF BridgeInv

LEMMA ShipArmStep == ASSUME BridgeInv, ShipArm PROVE BridgeInv'
<1>1. RingInv' /\ PortsInv' /\ EndpointInv'
  BY DEF ShipArm, BridgeInv, RingInv, PortsInv, EndpointInv, ringVars, fifoVars
<1>2. \E S : Ordered(S)'
  BY OrderKept DEF ShipArm, BridgeInv
<1> QED
  BY <1>1, <1>2 DEF BridgeInv

LEMMA UnchangedStep == ASSUME BridgeInv, UNCHANGED vars PROVE BridgeInv'
<1>1. RingInv' /\ PortsInv' /\ EndpointInv'
  BY DEF vars, BridgeInv, RingInv, PortsInv, EndpointInv, ringVars, fifoVars, ep2Vars
<1>2. \E S : Ordered(S)'
  BY OrderKept DEF vars, BridgeInv, ep2Vars
<1> QED
  BY <1>1, <1>2 DEF BridgeInv

\* What the host takes moves from the endpoint to what has departed.
LEMMA HostStep == ASSUME BridgeInv, HostTakes PROVE BridgeInv'
<1>1. RingInv' /\ PortsInv'
  BY DEF HostTakes, BridgeInv, RingInv, PortsInv, ringVars, fifoVars
<1>2. EndpointInv'
  <2>1. Len(<<>>) <= MaxPkt \div 4
    BY MaxPktAssumption
  <2>2. in2buf' = <<>> /\ in2busy' = FALSE /\ pc' = pc /\ in2busy
    BY DEF HostTakes
  <2>3. pc # "arm" /\ pc \in {"drain", "ship", "arm"}
    BY <2>2 DEF BridgeInv, EndpointInv
  <2>4. Len(in2buf') <= MaxPkt \div 4
    BY <2>1, <2>2
  <2> QED
    BY <2>2, <2>3, <2>4, Zenon DEF EndpointInv
<1>3. PICK S : Ordered(S)
  BY DEF BridgeInv
<1>4. Ordered(S)'
  <2>1. PICK r : r = departed \o in2buf
    OBVIOUS
  <2>2. r \in Seq(S) /\ r \o <<>> = r
    BY <1>3, <2>1 DEF Ordered
  <2> QED
    BY <1>3, <2>1, <2>2 DEF HostTakes, Ordered, ringVars, Count
<1> QED
  BY <1>1, <1>2, <1>3, <1>4 DEF BridgeInv

\* The copy loop moves whole packets, no more than there are, and no more
\* than one transfer.
LEMMA ShipFacts ==
    ASSUME RingInv
    PROVE  \E k \in 0 .. Count : /\ ShipSize = 4 * k /\ ShipSize \div 4 = k
                                 /\ k <= MaxPkt \div 4
<1>1. PICK m \in Nat : MaxPkt = 4 * m /\ m = MaxPkt \div 4
  BY MaxPktAssumption
<1>2. Count \in Nat /\ rx_ring_count = 4 * Count
  BY CountFacts
<1>3. CASE Count <= m
  <2>1. ShipSize = 4 * Count
    BY <1>1, <1>2, <1>3 DEF ShipSize
  <2> QED
    BY <1>1, <1>2, <1>3, <2>1
<1>4. CASE ~(Count <= m)
  <2>1. ShipSize = 4 * m /\ m \in 0 .. Count
    BY <1>1, <1>2, <1>4 DEF ShipSize
  <2> QED
    BY <1>1, <2>1
<1> QED
  BY <1>3, <1>4

LEMMA ShipCopyStep == ASSUME BridgeInv, ShipCopy PROVE BridgeInv'
<1>1. PICK c \in Cells : c = Count /\ c \in Nat
  BY CountFacts DEF BridgeInv
<1>2. PICK k \in 0 .. c : /\ ShipSize = 4 * k /\ ShipSize \div 4 = k
                          /\ k <= MaxPkt \div 4
  BY <1>1, ShipFacts DEF BridgeInv
<1>3. PICK e : e = Jump(rx_tail, k)
  OBVIOUS
<1>4. /\ rx_tail' = e /\ in2buf' = RingFront(k) /\ ~in2busy /\ in2busy' = in2busy
      /\ pc' = IF 4 * k = 0 THEN "drain" ELSE "arm"
      /\ pc = "ship" /\ UNCHANGED <<rx_ring, rx_head, emitted, departed>>
      /\ UNCHANGED <<queue, parser, port>>
  BY <1>2, <1>3 DEF ShipCopy, fifoVars, Jump
<1>5. Index(rx_head) /\ Index(rx_tail) /\ DOMAIN rx_ring = Cells
  BY DEF BridgeInv, RingInv
<1>6. PICK d \in Nat : d = c - k /\ Index(e) /\ CountOf(rx_head, e) = d
  BY <1>1, <1>2, <1>3, <1>5, TakeArith DEF Count
<1>7. RingInv'
  BY <1>4, <1>5, <1>6 DEF RingInv
<1>8. PortsInv'
  BY <1>4 DEF BridgeInv, PortsInv
<1>9. PICK S : Ordered(S)
  BY DEF BridgeInv
<1>10. in2buf' = Front(rx_ring, rx_tail, k)
  <2>1. k \in Cells
    BY <1>1, <1>2, SizeFacts DEF Cells
  <2> QED
    BY <1>4, <1>5, <2>1, FrontIs
<1>11. /\ Front(rx_ring, rx_tail, k) \in Seq(S) /\ Front(rx_ring, e, d) \in Seq(S)
       /\ Front(rx_ring, rx_tail, c) =
             Front(rx_ring, rx_tail, k) \o Front(rx_ring, e, d)
  <2>1. Front(rx_ring, rx_tail, c) \in Seq(S)
    BY <1>1, <1>9 DEF Ordered
  <2>2. c = CountOf(rx_head, rx_tail)
    BY <1>1 DEF Count
  <2>3. Splits(rx_ring, rx_tail, c, k, e, d, S)
    BY <1>2, <1>3, <1>5, <1>6, <2>1, <2>2, FrontTake
  <2> QED
    BY <2>3 DEF Splits
<1>12. k \in Nat /\ Len(in2buf') = k
  BY <1>1, <1>2, <1>10, <1>11, FrontLen
<1>13. EndpointInv'
  <2>1. /\ Len(in2buf') <= MaxPkt \div 4
        /\ in2busy' \in BOOLEAN /\ ~in2busy'
    BY <1>2, <1>4, <1>12 DEF BridgeInv, EndpointInv
  <2>2. CASE k = 0
    <3>1. in2buf' = <<>> /\ pc' = "drain"
      BY <1>4, <1>10, <2>2 DEF Front
    <3> QED
      BY <2>1, <3>1, Zenon DEF EndpointInv
  <2>3. CASE k # 0
    <3>1. in2buf' # <<>>
      BY <1>12, <2>3
    <3>2. pc' = "arm"
      BY <1>4, <1>12, <2>3
    <3> QED
      BY <2>1, <3>1, <3>2, Zenon DEF EndpointInv
  <2> QED
    BY <2>2, <2>3
<1>14. in2buf = <<>>
  BY <1>4 DEF BridgeInv, EndpointInv
<1>15. Ordered(S)'
  <2>1. PICK u : u = Front(rx_ring, rx_tail, k) /\ u \in Seq(S)
    BY <1>11
  <2>2. PICK v : v = Front(rx_ring, e, d) /\ v \in Seq(S)
    BY <1>11
  <2>3. departed \in Seq(S) /\ emitted \in Seq(S)
    BY <1>9 DEF Ordered
  <2>4. departed \o <<>> \o (u \o v) = emitted
    <3>1. Front(rx_ring, rx_tail, Count) = u \o v
      BY <1>1, <1>11, <2>1, <2>2, Zenon
    <3>2. departed \o in2buf \o Front(rx_ring, rx_tail, Count) = emitted
      BY <1>9, Zenon DEF Ordered
    <3> QED
      BY <1>14, <3>1, <3>2, Zenon
  <2>5. departed \o u \o v = emitted
    <3>1. departed \o <<>> = departed /\ (departed \o u) \o v = departed \o (u \o v)
      BY <2>1, <2>2, <2>3
    <3> QED
      BY <2>4, <3>1, Zenon
  <2>6. Count' = d
    BY <1>4, <1>6 DEF Count
  <2> QED
    BY <1>4, <1>10, <2>1, <2>2, <2>3, <2>5, <2>6 DEF Ordered
<1> QED
  BY <1>7, <1>8, <1>13, <1>15 DEF BridgeInv

\* The bytes a port has queued, and its parser, after one byte is taken.
LEMMA DrainPorts ==
    ASSUME BridgeInv, DrainByte
    PROVE  /\ PortsInv'
           /\ AtMostOne(ParseByte(parser[port], Head(queue[port])))
<1>1. /\ port \in Ports /\ queue[port] \in Seq(Alphabet) /\ queue[port] # <<>>
      /\ Len(queue[port]) <= FifoCapacity /\ Fine(parser[port])
  BY DEF BridgeInv, PortsInv, DrainByte
<1>2. PICK q2 : q2 = Tail(queue[port])
  OBVIOUS
<1>3. q2 \in Seq(Alphabet) /\ Len(q2) <= FifoCapacity
  <2>1. Len(queue[port]) \in Nat /\ FifoCapacity \in Nat
    BY <1>1, PortsAssumption
  <2>2. q2 \in Seq(Alphabet) /\ Len(q2) = Len(queue[port]) - 1
    BY <1>1, <1>2
  <2> QED
    BY <1>1, <2>1, <2>2
<1>4. PICK b : b = Head(queue[port]) /\ b \in Byte
  BY <1>1, AlphabetAssumption
<1>5. PICK r : r = ParseByte(parser[port], b) /\ AtMostOne(r)
  BY <1>1, <1>4, ParseFine
<1>6. /\ queue' = [queue EXCEPT ![port] = q2]
      /\ parser' = [parser EXCEPT ![port] = r.ps] /\ port' = port
  BY <1>2, <1>4, <1>5 DEF DrainByte, Fifo!Deliver
<1>7. Fine(r.ps)
  BY <1>5 DEF AtMostOne
<1>8. queue' \in [Ports -> Seq(Alphabet)] /\ parser' = [p \in Ports |-> parser'[p]]
  BY <1>1, <1>3, <1>6 DEF BridgeInv, PortsInv
<1>9. \A p \in Ports : Len(queue'[p]) <= FifoCapacity /\ Fine(parser'[p])
  BY <1>1, <1>3, <1>6, <1>7 DEF BridgeInv, PortsInv
<1> QED
  BY <1>1, <1>4, <1>5, <1>6, <1>8, <1>9 DEF PortsInv

LEMMA DrainByteStep == ASSUME BridgeInv, DrainByte PROVE BridgeInv'
<1>1. PICK r : /\ r = ParseByte(parser[port], Head(queue[port]))
               /\ AtMostOne(r) /\ PortsInv'
  BY DrainPorts
<1>2. EndpointInv'
  BY DEF DrainByte, BridgeInv, EndpointInv, ep2Vars
<1>3. CASE r.out = <<>>
  <2>1. UNCHANGED <<ringVars, in2buf, departed>>
    BY <1>1, <1>3 DEF DrainByte, ep2Vars
  <2>2. RingInv'
    BY <2>1 DEF BridgeInv, RingInv, ringVars
  <2>3. \E S : Ordered(S)'
    BY <2>1, OrderKept DEF BridgeInv
  <2> QED
    BY <1>1, <1>2, <2>2, <2>3 DEF BridgeInv
<1>4. CASE r.out # <<>>
  <2>1. PICK x : x = [cable |-> port, packet |-> r.out[1]]
    OBVIOUS
  <2>2. /\ rx_ring' = [rx_ring EXCEPT ![rx_head \div 4] = <<x>>]
        /\ rx_head' = Advance(rx_head) /\ rx_tail' = rx_tail
        /\ emitted' = emitted \o <<x>> /\ UNCHANGED <<in2buf, departed>> /\ HasRoom
    BY <1>1, <1>4, <2>1 DEF DrainByte, ep2Vars
  <2>3. Index(rx_head) /\ Index(rx_tail) /\ DOMAIN rx_ring = Cells
    BY DEF BridgeInv, RingInv
  <2>4. PICK c \in Nat : c = Count /\ c < N - 1
    <3>1. Count \in Nat /\ 4 * Count <= RingSize - 1 - 4
      BY <2>2, CountFacts DEF HasRoom, BridgeInv
    <3> QED
      BY <3>1, SizeFacts
  <2>5. PICK d : d = c + 1 /\ Index(rx_head') /\ Count' = d
    BY <2>2, <2>3, <2>4, PutArith DEF Count
  <2>6. RingInv'
    BY <2>2, <2>3, <2>5 DEF RingInv
  <2>7. PICK S : Ordered(S)
    BY DEF BridgeInv
  <2>8. PICK T : T = S \cup {x}
    OBVIOUS
  <2>9. Ordered(T)
    <3>1. \A s : s \in Seq(S) => s \in Seq(T)
      BY <2>8
    <3> QED
      BY <2>7, <3>1, Zenon DEF Ordered
  <2>10. PICK u : u = Front(rx_ring, rx_tail, c) /\ u \in Seq(T)
    BY <2>4, <2>9, Zenon DEF Ordered
  <2>11. /\ Front(rx_ring', rx_tail, d) \in Seq(T)
         /\ Front(rx_ring', rx_tail, d) = u \o <<x>>
    <3>1. x \in T
      BY <2>8
    <3>2. c = CountOf(rx_head, rx_tail)
      BY <2>4 DEF Count
    <3>3. Appended(rx_ring', rx_tail, d, rx_ring, c, x, T)
      BY <2>2, <2>3, <2>4, <2>5, <2>10, <3>1, <3>2, FrontPut
    <3> QED
      BY <2>10, <3>3 DEF Appended
  <2>12. PICK w : w = departed \o in2buf /\ w \in Seq(T)
    <3>1. departed \in Seq(T) /\ in2buf \in Seq(T)
      BY <2>9, Zenon DEF Ordered
    <3>2. departed \o in2buf \in Seq(T)
      BY <3>1
    <3> QED
      BY <3>2, Zenon
  <2>13. w \o u = emitted /\ emitted \in Seq(T) /\ x \in T
    BY <2>4, <2>8, <2>9, <2>10, <2>12 DEF Ordered
  <2>14. w \o (u \o <<x>>) = emitted \o <<x>> /\ emitted \o <<x>> \in Seq(T)
    <3>1. <<x>> \in Seq(T)
      BY <2>13
    <3>2. (w \o u) \o <<x>> = w \o (u \o <<x>>)
      BY <2>10, <2>12, <3>1
    <3> QED
      BY <2>13, <3>1, <3>2
  <2>15. Ordered(T)'
    BY <2>2, <2>5, <2>9, <2>11, <2>12, <2>14 DEF Ordered
  <2> QED
    BY <1>1, <1>2, <2>6, <2>15 DEF BridgeInv
<1> QED
  BY <1>3, <1>4

LEMMA BridgeStep == BridgeInv /\ [Next]_vars => BridgeInv'
  BY ArriveStep, DrainNextStep, DrainByteStep, ShipBusyStep, ShipCopyStep, ShipArmStep,
     HostStep, UnchangedStep DEF Next, Pump

-----------------------------------------------------------------------------
(* What each cable's packets have to do with its bytes.                    *)

\* A cable's parser, and its packets among all that were emitted, are those
\* of the bytes it was fed.
ParsersAgree ==
    /\ fed \in [Ports -> Seq(Alphabet)]
    /\ \A p \in Ports :
          /\ parser[p] = Parsed(fed[p]).ps
          /\ Own(p, emitted) = Parsed(fed[p]).out
          /\ \E P : Parsed(fed[p]).out \in Seq(P)

PacketInv == BridgeInv /\ ParsersAgree

LEMMA PacketInit == Init => PacketInv
<1> SUFFICES ASSUME Init PROVE ParsersAgree
  BY BridgeInit DEF PacketInv
<1>1. Parsed(<<>>).ps = Fresh /\ Parsed(<<>>).out = <<>>
  BY ParsedEmpty DEF Silent
<1>2. fed = [p \in Ports |-> <<>>] /\ emitted = <<>> /\ parser = [p \in Ports |-> Fresh]
  BY DEF Init
<1>3. fed \in [Ports -> Seq(Alphabet)]
  BY <1>2
<1>4. <<>> \in Seq({})
  OBVIOUS
<1> QED
  BY <1>1, <1>2, <1>3, <1>4, OwnEmpty DEF ParsersAgree

\* What leaves the parsers alone.
LEMMA ParsersKept ==
    ASSUME ParsersAgree, UNCHANGED <<fed, parser, emitted>>
    PROVE  ParsersAgree'
  BY DEF ParsersAgree

\* A byte given to one cable's parser, with the packet it makes, if any.
LEMMA DrainByteAgrees == ASSUME PacketInv, DrainByte PROVE ParsersAgree'
<1>1. BridgeInv /\ ParsersAgree
  BY DEF PacketInv
<1>2. PICK b : b = Head(queue[port])
  OBVIOUS
<1>3. port \in Ports /\ b \in Alphabet /\ queue[port] # <<>>
  <2>1. /\ port \in Ports /\ queue[port] \in Seq(Alphabet) /\ queue[port] # <<>>
    BY <1>1 DEF BridgeInv, PortsInv, DrainByte
  <2> QED
    BY <1>2, <2>1
<1>4. PICK old : old = fed[port] /\ old \in Seq(Alphabet)
  BY <1>1, <1>3 DEF ParsersAgree
<1>5. PICK t : t = Append(old, b) /\ t \in Seq(Alphabet)
  <2>1. Append(old, b) \in Seq(Alphabet)
    BY <1>3, <1>4
  <2> QED
    BY <2>1
<1>6. PICK r : r = ParseByte(parser[port], b) /\ AtMostOne(r)
  <2>1. AtMostOne(ParseByte(parser[port], b))
    BY <1>1, <1>2, DrainPorts
  <2> QED
    BY <2>1
<1>7. PICK done : done = Parsed(old) /\ parser[port] = done.ps
                  /\ Own(port, emitted) = done.out
  BY <1>1, <1>3, <1>4 DEF ParsersAgree
<1>8. Parsed(t) = [ps |-> r.ps, out |-> done.out \o r.out]
  <2>1. Parsed(t) = Then(done, b)
    BY <1>3, <1>4, <1>5, <1>7, ParsedNext
  <2> QED
    BY <1>6, <1>7, <2>1 DEF Then
<1>9. /\ fed' = [fed EXCEPT ![port] = t] /\ parser' = [parser EXCEPT ![port] = r.ps]
      /\ IF r.out = <<>> THEN emitted' = emitted
         ELSE emitted' = emitted \o <<[cable |-> port, packet |-> r.out[1]]>>
  BY <1>2, <1>4, <1>5, <1>6 DEF DrainByte, ringVars
<1>10. fed' \in [Ports -> Seq(Alphabet)] /\ fed'[port] = t
       /\ \A q \in Ports \ {port} : fed'[q] = fed[q]
  BY <1>1, <1>3, <1>5, <1>9 DEF ParsersAgree
<1>11. parser'[port] = r.ps /\ \A q \in Ports \ {port} : parser'[q] = parser[q]
  BY <1>1, <1>3, <1>9 DEF BridgeInv, PortsInv
<1>12. PICK P : done.out \in Seq(P)
  BY <1>1, <1>3, <1>4, <1>7 DEF ParsersAgree
<1>13. PICK S : emitted \in Seq(S)
  BY <1>1 DEF BridgeInv, Ordered
<1>14. CASE r.out = <<>>
  <2>1. done.out \o r.out = done.out
    BY <1>12, <1>14
  <2>2. emitted' = emitted
    BY <1>9, <1>14
  <2>3. parser'[port] = Parsed(t).ps /\ Own(port, emitted') = Parsed(t).out
        /\ Parsed(t).out \in Seq(P)
    BY <1>7, <1>8, <1>11, <1>12, <2>1, <2>2
  <2> QED
    BY <1>1, <1>10, <1>11, <2>2, <2>3 DEF ParsersAgree
<1>15. CASE r.out # <<>>
  <2>1. PICK pk : r.out = <<pk>> /\ r.out[1] = pk
    BY <1>6, <1>15 DEF AtMostOne
  <2>2. PICK x : x = [cable |-> port, packet |-> pk]
    OBVIOUS
  <2>3. emitted' = emitted \o <<x>>
    <3>1. emitted' = emitted \o <<[cable |-> port, packet |-> r.out[1]]>>
      BY <1>9, <1>15
    <3> QED
      BY <2>1, <2>2, <3>1, Zenon
  <2>4. PICK T : x \in T /\ emitted \in Seq(T)
    <3>1. emitted \in Seq(S \cup {x})
      BY <1>13
    <3> QED
      BY <3>1
  <2>5. \A q : Own(q, emitted') = Adding(q, Own(q, emitted), x)
    <3>1. PICK u, v : u = emitted' /\ v = emitted
      OBVIOUS
    <3>2. u = v \o <<x>> /\ v \in Seq(T)
      BY <2>3, <2>4, <3>1, Zenon
    <3>3. ASSUME NEW q PROVE Own(q, u) = Adding(q, Own(q, v), x)
      <4>1. u = Append(v, x)
        BY <2>4, <3>2
      <4>2. OneMore(q, v, x, u)
        BY <2>4, <3>2, <4>1, OwnNext
      <4> QED
        BY <4>2 DEF OneMore
    <3> QED
      BY <3>1, <3>3
  <2>6. /\ Own(port, emitted') = done.out \o <<pk>>
        /\ \A q \in Ports \ {port} : Own(q, emitted') = Own(q, emitted)
    BY <1>3, <1>7, <2>2, <2>5 DEF Adding
  <2>7. done.out \o <<pk>> \in Seq(P \cup {pk})
    <3>1. done.out \in Seq(P \cup {pk}) /\ <<pk>> \in Seq(P \cup {pk})
      BY <1>12
    <3> QED
      BY <3>1
  <2>8. /\ parser'[port] = Parsed(t).ps /\ Own(port, emitted') = Parsed(t).out
        /\ Parsed(t).out \in Seq(P \cup {pk})
    BY <1>8, <1>11, <2>1, <2>6, <2>7
  <2> QED
    BY <1>1, <1>10, <1>11, <2>6, <2>8 DEF ParsersAgree
<1> QED
  BY <1>14, <1>15

LEMMA PacketStep == PacketInv /\ [Next]_vars => PacketInv'
<1> SUFFICES ASSUME PacketInv, [Next]_vars PROVE ParsersAgree'
  BY BridgeStep DEF PacketInv
<1>1. ASSUME NEW p \in Ports, NEW b \in Alphabet, Arrive(p, b) PROVE ParsersAgree'
  BY <1>1, ParsersKept DEF PacketInv, Arrive, ringVars
<1>2. CASE DrainNext \/ ShipBusy \/ ShipCopy \/ ShipArm \/ HostTakes
  BY <1>2, ParsersKept
     DEF PacketInv, DrainNext, ShipBusy, ShipCopy, ShipArm, HostTakes, ringVars
<1>3. CASE UNCHANGED vars
  BY <1>3, ParsersKept DEF PacketInv, vars, ringVars
<1> QED
  BY <1>1, <1>2, <1>3, DrainByteAgrees DEF Next, Pump

-----------------------------------------------------------------------------
(* Theorems.                                                               *)

\* Indices stay at packet boundaries of the ring, a FIFO and a transfer never
\* hold more than fits, EP2-IN is never armed empty, and no byte finds the
\* SysEx buffer of its cable full.
THEOREM TypeCorrect == Spec => []TypeOK
<1>1. BridgeInv => TypeOK
  <2> SUFFICES ASSUME BridgeInv PROVE TypeOK
    OBVIOUS
  <2>1. in2busy => in2buf # <<>>
    BY DEF BridgeInv, EndpointInv
  <2>2. \A p \in Ports : Len(queue[p]) <= FifoCapacity /\ Len(parser[p].sx) <= 2
    BY DEF BridgeInv, PortsInv, Fine
  <2>3. /\ rx_head \in 0 .. RingSize - 1 /\ rx_head % 4 = 0
        /\ rx_tail \in 0 .. RingSize - 1 /\ rx_tail % 4 = 0
    BY DEF BridgeInv, RingInv, Index
  <2> QED
    BY <2>1, <2>2, <2>3, Zenon DEF TypeOK, BridgeInv, EndpointInv, PortsInv
<1> QED
  BY <1>1, BridgeInit, BridgeStep, PTL DEF Spec

\* Whatever the parsers emitted is with the host, in EP2-IN or in the ring,
\* once and in order: no packet is overwritten, skipped, or sent twice.
THEOREM OrderCorrect == Spec => []TransfersInOrder
<1>1. BridgeInv => TransfersInOrder
  <2> SUFFICES ASSUME BridgeInv PROVE TransfersInOrder
    OBVIOUS
  <2>1. RingFront(rx_ring_count \div 4) = Front(rx_ring, rx_tail, Count)
    BY CountFacts, FrontIs DEF BridgeInv, RingInv
  <2> QED
    BY <2>1 DEF BridgeInv, Ordered, TransfersInOrder
<1> QED
  BY <1>1, BridgeInit, BridgeStep, PTL DEF Spec

\* The host gets, cable by cable, exactly the packets the cable's bytes make,
\* for every number of cables, ring and transfer size, however their bytes
\* interleave and however slowly the host reads.
THEOREM EveryPacketCorrect == Spec => []EveryPacketOnce
<1>1. PacketInv => EveryPacketOnce
  <2> SUFFICES ASSUME PacketInv, NEW p \in Ports
               PROVE  OnItsWay(p) = Parsed(fed[p]).out
    BY DEF EveryPacketOnce
  <2>1. RingFront(rx_ring_count \div 4) = Front(rx_ring, rx_tail, Count)
    BY CountFacts, FrontIs DEF PacketInv, BridgeInv, RingInv
  <2>2. departed \o in2buf \o RingFront(rx_ring_count \div 4) = emitted
    BY <2>1 DEF PacketInv, BridgeInv, Ordered
  <2> QED
    BY <2>2 DEF PacketInv, ParsersAgree, OnItsWay
<1> QED
  BY <1>1, PacketInit, PacketStep, PTL DEF Spec
=============================================================================
