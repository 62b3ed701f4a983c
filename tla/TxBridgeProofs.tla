--------------------------- MODULE TxBridgeProofs ---------------------------
(***************************************************************************)
(* bridge_out and uart_tx_pump for every number of ports, ring size,       *)
(* transfer size and number of transfers: as long as the host leaves the   *)
(* setting alone, no byte is lost or repeated, wherever a full ring stops  *)
(* the decoder.                                                            *)
(***************************************************************************)
EXTENDS TxBridge, WellFoundedInduction, TLAPS

-----------------------------------------------------------------------------
(* Induction.                                                              *)

LEMMA LeastNat ==
    ASSUME NEW T, T \subseteq Nat, T # {}
    PROVE  \E x \in T : \A y \in T : x <= y
<1>1. PICK R : R = OpToRel(<, Nat)
  OBVIOUS
<1>2. IsWellFoundedOn(R, Nat)
  BY <1>1, NatLessThanWellFounded
<1>3. PICK x \in T : \A y \in T : ~(<<y, x>> \in R)
  BY <1>2, WFMin
<1>4. \A y \in T : ~(y < x)
  BY <1>1, <1>3 DEF OpToRel
<1> QED
  BY <1>3, <1>4

\* The induction principle, for a set instead of a predicate.
LEMMA SetInduction ==
    ASSUME NEW T, T \subseteq Nat, 0 \in T, \A m \in T : m + 1 \in T
    PROVE  T = Nat
<1> SUFFICES ASSUME Nat \ T # {} PROVE FALSE
  OBVIOUS
<1>1. PICK x \in Nat \ T : \A y \in Nat \ T : x <= y
  BY LeastNat
<1>2. x # 0 /\ x - 1 \in Nat /\ ~(x <= x - 1)
  BY <1>1
<1>3. x - 1 \in T
  BY <1>1, <1>2
<1>4. x - 1 + 1 \in T
  BY <1>3
<1> QED
  BY <1>1, <1>4

-----------------------------------------------------------------------------
(* What a part of a transfer carries.                                      *)

\* A recursion that counts up to m has a solution.
Unfolds(f, c, m) ==
    f = [j \in Nat |-> IF j >= m THEN <<>> ELSE c[j] \o f[j + 1]]

LEMMA UnfoldedEnd ==
    ASSUME NEW m \in Nat, NEW c, NEW f, Unfolds(f, c, m), NEW j \in Nat, j >= m
    PROVE  f[j] = <<>>
<1>1. f[j] = IF j >= m THEN <<>> ELSE c[j] \o f[j + 1]
  BY DEF Unfolds
<1> QED
  BY <1>1

LEMMA UnfoldingExists ==
    ASSUME NEW m \in Nat, NEW c
    PROVE  \E f : Unfolds(f, c, m)
<1> DEFINE Good(f, j) == f[j] = IF j >= m THEN <<>> ELSE c[j] \o f[j + 1]
           From(f, d) == \A j \in Nat : m - d <= j => Good(f, j)
           T == {d \in Nat : \E f : f = [j \in Nat |-> f[j]] /\ From(f, d)}
<1>1. 0 \in T
  <2>1. PICK f : f = [j \in Nat |-> <<>>]
    OBVIOUS
  <2>2. ASSUME NEW j \in Nat, m - 0 <= j
        PROVE  Good(f, j)
    <3>1. j >= m
      BY <2>2
    <3> QED
      BY <2>1, <3>1
  <2>3. f = [j \in Nat |-> f[j]] /\ From(f, 0)
    BY <2>1, <2>2
  <2> QED
    BY <2>3
<1>2. ASSUME NEW d \in T
      PROVE  d + 1 \in T
  <2>0. d \in Nat
    OBVIOUS
  <2>1. PICK f : f = [j \in Nat |-> f[j]] /\ From(f, d)
    OBVIOUS
  <2>2. PICK g : g = [j \in Nat |-> IF j = m - (d + 1) /\ j < m THEN c[j] \o f[j + 1]
                                                       ELSE f[j]]
    OBVIOUS
  <2>3. g = [j \in Nat |-> g[j]]
    BY <2>2
  <2>4. ASSUME NEW j \in Nat, m - (d + 1) <= j
        PROVE  Good(g, j)
    <3>1. j + 1 \in Nat /\ j + 1 # m - (d + 1) /\ g[j + 1] = f[j + 1]
      <4>1. PICK i1 \in Nat : i1 = j + 1
        OBVIOUS
      <4>2. i1 # m - (d + 1)
        BY <2>0, <4>1, <2>4
      <4>3. g[i1] = f[i1]
        BY <2>2, <4>2
      <4> QED
        BY <4>1, <4>2, <4>3
    <3>2. CASE j = m - (d + 1)
      <4>1. j < m
        BY <3>2
      <4>2. g[j] = c[j] \o f[j + 1]
        BY <2>2, <3>2, <4>1
      <4>3. ~(j >= m)
        BY <4>1
      <4> QED
        BY <3>1, <4>2, <4>3
    <3>3. CASE j # m - (d + 1)
      <4>1. m - d <= j
        BY <2>0, <2>4, <3>3
      <4>2. f[j] = IF j >= m THEN <<>> ELSE c[j] \o f[j + 1]
        BY <2>1, <4>1
      <4>3. g[j] = f[j]
        BY <2>2, <3>3
      <4> QED
        BY <3>1, <4>2, <4>3
    <3> QED
      BY <3>2, <3>3
  <2>5. d + 1 \in Nat /\ From(g, d + 1)
    BY <2>0, <2>4
  <2> QED
    BY <2>3, <2>5
<1>3. T = Nat
  <2> HIDE DEF T
  <2>1. T \subseteq Nat
    BY DEF T
  <2> QED
    BY <1>1, <1>2, <2>1, SetInduction
<1>4. PICK f : f = [j \in Nat |-> f[j]] /\ From(f, m)
  BY <1>3
<1>5. \A j \in Nat : f[j] = IF j >= m THEN <<>> ELSE c[j] \o f[j + 1]
  <2> SUFFICES ASSUME NEW j \in Nat PROVE Good(f, j)
    OBVIOUS
  <2>1. m - m <= j
    OBVIOUS
  <2> QED
    BY <1>4, <2>1
<1>6. f = [j \in Nat |-> IF j >= m THEN <<>> ELSE c[j] \o f[j + 1]]
  BY <1>4, <1>5
<1> QED
  BY <1>6 DEF Unfolds

\* ... and only one.
LEMMA UnfoldingUnique ==
    ASSUME NEW m \in Nat, NEW c, NEW e, \A j \in 0 .. m - 1 : c[j] = e[j],
           NEW f, Unfolds(f, c, m), NEW g, Unfolds(g, e, m)
    PROVE  f = g
<1> DEFINE T == {d \in Nat : \A j \in Nat : m - d <= j => f[j] = g[j]}
<1>0. f = [j \in Nat |-> f[j]] /\ g = [j \in Nat |-> g[j]]
  BY DEF Unfolds
<1>1. 0 \in T
  <2> SUFFICES ASSUME NEW j \in Nat, m - 0 <= j PROVE f[j] = g[j]
    OBVIOUS
  <2>1. j >= m
    OBVIOUS
  <2>2. f[j] = <<>>
    BY <2>1, UnfoldedEnd
  <2>3. g[j] = <<>>
    BY <2>1, UnfoldedEnd
  <2> QED
    BY <2>2, <2>3
<1>2. ASSUME NEW d \in T
      PROVE  d + 1 \in T
  <2> SUFFICES ASSUME NEW j \in Nat, m - (d + 1) <= j
               PROVE  f[j] = g[j]
    OBVIOUS
  <2>1. CASE j >= m
    <3>1. f[j] = <<>>
      BY <2>1, UnfoldedEnd
    <3>2. g[j] = <<>>
      BY <2>1, UnfoldedEnd
    <3> QED
      BY <3>1, <3>2
  <2>2. CASE j < m
    <3>1. j \in 0 .. m - 1 /\ ~(j >= m) /\ j + 1 \in Nat /\ m - d <= j + 1
      BY <2>2
    <3>2. f[j + 1] = g[j + 1] /\ c[j] = e[j]
      BY <3>1
    <3>3. f[j] = c[j] \o f[j + 1]
      <4>1. f[j] = IF j >= m THEN <<>> ELSE c[j] \o f[j + 1]
        BY DEF Unfolds
      <4> QED
        BY <3>1, <4>1
    <3>4. g[j] = e[j] \o g[j + 1]
      <4>1. g[j] = IF j >= m THEN <<>> ELSE e[j] \o g[j + 1]
        BY DEF Unfolds
      <4> QED
        BY <3>1, <4>1
    <3> QED
      BY <3>2, <3>3, <3>4
  <2> QED
    BY <2>1, <2>2
<1>3. T = Nat
  <2> HIDE DEF T
  <2>1. T \subseteq Nat
    BY DEF T
  <2> QED
    BY <1>1, <1>2, <2>1, SetInduction
<1>4. \A j \in Nat : f[j] = g[j]
  BY <1>3
<1> QED
  BY <1>0, <1>4

\* BytesFor is the solution.
Carriage(p, b) == [j \in Nat |-> CarriedFor(p, b[j + 1])]
Carries(f, p, b, m) == /\ Unfolds(f, Carriage(p, b), m)
                       /\ \A k : BytesFor(p, b, k, m) = f[k]

LEMMA BytesForUnfolds ==
    ASSUME NEW p, NEW b, NEW m \in Nat
    PROVE  \E f : Carries(f, p, b, m)
<1> DEFINE Eqn(f) == f = [j \in Nat |-> IF j >= m THEN <<>>
                                        ELSE CarriedFor(p, b[j + 1]) \o f[j + 1]]
<1>1. PICK f : Unfolds(f, Carriage(p, b), m)
  BY UnfoldingExists
<1>2. \A g : Unfolds(g, Carriage(p, b), m) <=> Eqn(g)
  <2> SUFFICES ASSUME NEW g
               PROVE  [j \in Nat |-> IF j >= m THEN <<>>
                                     ELSE Carriage(p, b)[j] \o g[j + 1]]
                      = [j \in Nat |-> IF j >= m THEN <<>>
                                       ELSE CarriedFor(p, b[j + 1]) \o g[j + 1]]
    BY DEF Unfolds
  <2>1. \A j \in Nat : Carriage(p, b)[j] = CarriedFor(p, b[j + 1])
    BY DEF Carriage
  <2> QED
    BY <2>1
<1>3. PICK g : g = CHOOSE h : Eqn(h)
  OBVIOUS
<1>4. Eqn(g)
  <2>1. Eqn(f)
    BY <1>1, <1>2
  <2> HIDE DEF Eqn
  <2> QED
    BY <1>3, <2>1
<1>5. \A k : BytesFor(p, b, k, m) = g[k]
  BY <1>3 DEF BytesFor
<1> QED
  BY <1>2, <1>4, <1>5 DEF Carries

LEMMA BytesEnd ==
    ASSUME NEW p, NEW b, NEW m \in Nat, NEW k \in Nat, k >= m
    PROVE  BytesFor(p, b, k, m) = <<>>
<1>1. PICK f : Carries(f, p, b, m)
  BY BytesForUnfolds
<1>2. Unfolds(f, Carriage(p, b), m) /\ BytesFor(p, b, k, m) = f[k]
  BY <1>1 DEF Carries
<1> QED
  BY <1>2, UnfoldedEnd

LEMMA BytesStep ==
    ASSUME NEW p, NEW b, NEW m \in Nat, NEW k \in Nat, k < m
    PROVE  BytesFor(p, b, k, m) = CarriedFor(p, b[k + 1]) \o BytesFor(p, b, k + 1, m)
<1>1. PICK f : Carries(f, p, b, m)
  BY BytesForUnfolds
<1>2. BytesFor(p, b, k, m) = f[k] /\ BytesFor(p, b, k + 1, m) = f[k + 1]
  BY <1>1 DEF Carries
<1>3. f[k] = IF k >= m THEN <<>> ELSE Carriage(p, b)[k] \o f[k + 1]
  BY <1>1 DEF Carries, Unfolds
<1>4. ~(k >= m) /\ Carriage(p, b)[k] = CarriedFor(p, b[k + 1])
  BY DEF Carriage
<1> QED
  BY <1>2, <1>3, <1>4

\* It depends on the events up to the m-th only.
LEMMA BytesSame ==
    ASSUME NEW p, NEW b, NEW d, NEW m \in Nat, \A j \in 1 .. m : b[j] = d[j], NEW k
    PROVE  BytesFor(p, b, k, m) = BytesFor(p, d, k, m)
<1>1. PICK f : Carries(f, p, b, m)
  BY BytesForUnfolds
<1>2. PICK g : Carries(g, p, d, m)
  BY BytesForUnfolds
<1>3. \A j \in 0 .. m - 1 : Carriage(p, b)[j] = Carriage(p, d)[j]
  <2> SUFFICES ASSUME NEW j \in 0 .. m - 1 PROVE Carriage(p, b)[j] = Carriage(p, d)[j]
    OBVIOUS
  <2>1. j + 1 \in 1 .. m /\ j \in Nat
    OBVIOUS
  <2>2. b[j + 1] = d[j + 1]
    BY <2>1
  <2> QED
    BY <2>1, <2>2 DEF Carriage
<1>4. f = g
  <2>1. PICK u : u = Carriage(p, b)
    OBVIOUS
  <2>2. PICK v : v = Carriage(p, d)
    OBVIOUS
  <2>3. Unfolds(f, u, m) /\ Unfolds(g, v, m) /\ \A j \in 0 .. m - 1 : u[j] = v[j]
    BY <1>1, <1>2, <1>3, <2>1, <2>2 DEF Carries
  <2> QED
    BY <2>3, UnfoldingUnique
<1> QED
  BY <1>1, <1>2, <1>4 DEF Carries

-----------------------------------------------------------------------------
(* The ring's arithmetic.                                                  *)

LEMMA Modulo ==
    ASSUME NEW m \in Nat \ {0}, NEW x \in 0 .. 2 * m - 1
    PROVE  x % m = IF x < m THEN x ELSE x - m
  OBVIOUS

\* Bytes in a ring with these indices, the slot of the k-th of them, and the
\* index x bytes on.
QueuedOf(h, t) == (h - t + RingSize) % RingSize
Cell(t, k) == (t + k - 1) % RingSize
Jump(h, x) == (h + x) % RingSize

LEMMA QueuedIs ==
    ASSUME NEW h \in Slots, NEW t \in Slots
    PROVE  /\ QueuedOf(h, t) \in Slots
           /\ QueuedOf(h, t) = IF h >= t THEN h - t ELSE h - t + RingSize
<1>1. PICK x \in 0 .. 2 * RingSize - 1 : x = h - t + RingSize
  BY RingAssumption DEF Slots
<1>2. RingSize \in Nat \ {0}
  BY RingAssumption
<1>3. x % RingSize = IF x < RingSize THEN x ELSE x - RingSize
  BY <1>2, Modulo
<1> QED
  BY <1>1, <1>2, <1>3 DEF QueuedOf, Slots

LEMMA CellIs ==
    ASSUME NEW t \in Slots, NEW k \in 1 .. RingSize
    PROVE  /\ Cell(t, k) \in Slots
           /\ Cell(t, k) = IF t + k - 1 < RingSize THEN t + k - 1 ELSE t + k - 1 - RingSize
<1>1. PICK x \in 0 .. 2 * RingSize - 1 : x = t + k - 1
  BY RingAssumption DEF Slots
<1>2. RingSize \in Nat \ {0}
  BY RingAssumption
<1>3. x % RingSize = IF x < RingSize THEN x ELSE x - RingSize
  BY <1>2, Modulo
<1> QED
  BY <1>1, <1>2, <1>3 DEF Cell, Slots

LEMMA JumpIs ==
    ASSUME NEW h \in Slots, NEW x \in Slots
    PROVE  /\ Jump(h, x) \in Slots
           /\ Jump(h, x) = IF h + x < RingSize THEN h + x ELSE h + x - RingSize
<1>1. PICK y \in 0 .. 2 * RingSize - 1 : y = h + x
  BY RingAssumption DEF Slots
<1>2. RingSize \in Nat \ {0}
  BY RingAssumption
<1>3. y % RingSize = IF y < RingSize THEN y ELSE y - RingSize
  BY <1>2, Modulo
<1> QED
  BY <1>1, <1>2, <1>3 DEF Jump, Slots

\* x bytes written from the head on, with room for them, follow the others.
PutKeeps(h, t, x) ==
    LET c == QueuedOf(h, t) IN
    /\ Jump(h, x) \in Slots
    /\ QueuedOf(Jump(h, x), t) = c + x
    /\ \A j \in 1 .. x : Cell(h, j) \in Slots /\ Cell(t, c + j) = Cell(h, j)
    /\ \A k \in 1 .. c, j \in 1 .. x : Cell(t, k) # Cell(h, j)
    /\ \A j, k \in 1 .. x : Cell(h, j) = Cell(h, k) => j = k

LEMMA PutArith ==
    ASSUME NEW h \in Slots, NEW t \in Slots, NEW x \in Nat,
           QueuedOf(h, t) + x < RingSize
    PROVE  PutKeeps(h, t, x)
<1>1. PICK c \in Slots : /\ c = QueuedOf(h, t)
                         /\ c = IF h >= t THEN h - t ELSE h - t + RingSize
  BY QueuedIs
<1>2. RingSize \in Nat /\ h \in 0 .. RingSize - 1 /\ t \in 0 .. RingSize - 1
      /\ c \in 0 .. RingSize - 1 /\ c + x < RingSize /\ x \in Slots
  BY <1>1, RingAssumption DEF Slots
<1>3. PICK e \in Slots : /\ e = Jump(h, x)
                         /\ e = IF h + x < RingSize THEN h + x ELSE h + x - RingSize
  BY <1>2, JumpIs
<1>4. QueuedOf(e, t) = IF e >= t THEN e - t ELSE e - t + RingSize
  BY <1>3, QueuedIs
<1>5. QueuedOf(e, t) = c + x
  BY <1>1, <1>2, <1>3, <1>4 DEF Slots
<1>6. \A j \in 1 .. x : j \in 1 .. RingSize /\ c + j \in 1 .. RingSize
  BY <1>2
<1>7. \A j \in 1 .. x : /\ Cell(h, j) \in Slots
                        /\ Cell(h, j) = IF h + j - 1 < RingSize THEN h + j - 1
                                                                ELSE h + j - 1 - RingSize
  BY <1>6, CellIs
<1>8. \A k \in 1 .. c + x : k \in 1 .. RingSize
  BY <1>2
<1>9. \A k \in 1 .. c + x : Cell(t, k) = IF t + k - 1 < RingSize THEN t + k - 1
                                                                 ELSE t + k - 1 - RingSize
  BY <1>8, CellIs
<1>10. ASSUME NEW j \in 1 .. x
       PROVE  Cell(t, c + j) = Cell(h, j)
  <2>1. PICK k \in 1 .. c + x : k = c + j
    BY <1>2
  <2>2. Cell(t, k) = IF t + k - 1 < RingSize THEN t + k - 1 ELSE t + k - 1 - RingSize
    BY <1>9
  <2>3. Cell(h, j) = IF h + j - 1 < RingSize THEN h + j - 1 ELSE h + j - 1 - RingSize
    BY <1>7
  <2>4. Cell(t, k) = Cell(h, j)
    BY <1>1, <1>2, <2>1, <2>2, <2>3
  <2> QED
    BY <2>1, <2>4
<1>11. ASSUME NEW k \in 1 .. c, NEW j \in 1 .. x
       PROVE  Cell(t, k) # Cell(h, j)
  <2>1. k \in 1 .. c + x
    BY <1>2
  <2>2. Cell(t, k) = IF t + k - 1 < RingSize THEN t + k - 1 ELSE t + k - 1 - RingSize
    BY <1>9, <2>1
  <2>3. Cell(h, j) = IF h + j - 1 < RingSize THEN h + j - 1 ELSE h + j - 1 - RingSize
    BY <1>7
  <2> QED
    BY <1>1, <1>2, <2>2, <2>3
<1>12. ASSUME NEW j \in 1 .. x, NEW k \in 1 .. x, Cell(h, j) = Cell(h, k)
       PROVE  j = k
  <2>1. Cell(h, k) = IF h + k - 1 < RingSize THEN h + k - 1 ELSE h + k - 1 - RingSize
    BY <1>7
  <2>2. Cell(h, j) = IF h + j - 1 < RingSize THEN h + j - 1 ELSE h + j - 1 - RingSize
    BY <1>7
  <2> QED
    BY <1>2, <1>12, <2>1, <2>2
<1> QED
  BY <1>1, <1>3, <1>5, <1>7, <1>10, <1>11, <1>12 DEF PutKeeps

\* The byte taken is the first, the others keep their slots.
TakeKeeps(h, t) ==
    LET c == QueuedOf(h, t) IN
    /\ c >= 1 /\ Jump(t, 1) \in Slots
    /\ QueuedOf(h, Jump(t, 1)) = c - 1
    /\ Cell(t, 1) = t
    /\ \A k \in 1 .. c - 1 : Cell(Jump(t, 1), k) = Cell(t, k + 1)

LEMMA TakeArith ==
    ASSUME NEW h \in Slots, NEW t \in Slots, h # t
    PROVE  TakeKeeps(h, t)
<1>1. PICK c \in Slots : /\ c = QueuedOf(h, t)
                         /\ c = IF h >= t THEN h - t ELSE h - t + RingSize
  BY QueuedIs
<1>2. RingSize \in Nat /\ h \in 0 .. RingSize - 1 /\ t \in 0 .. RingSize - 1
      /\ c \in 1 .. RingSize - 1 /\ 1 \in Slots /\ 1 \in 1 .. RingSize
  BY <1>1, RingAssumption DEF Slots
<1>3. PICK e \in Slots : /\ e = Jump(t, 1)
                         /\ e = IF t + 1 < RingSize THEN t + 1 ELSE t + 1 - RingSize
  BY <1>2, JumpIs
<1>4. QueuedOf(h, e) = IF h >= e THEN h - e ELSE h - e + RingSize
  BY <1>3, QueuedIs
<1>5. QueuedOf(h, e) = c - 1
  BY <1>1, <1>2, <1>3, <1>4 DEF Slots
<1>6. Cell(t, 1) = t
  <2>1. Cell(t, 1) = IF t + 1 - 1 < RingSize THEN t + 1 - 1 ELSE t + 1 - 1 - RingSize
    BY <1>2, CellIs
  <2> QED
    BY <1>2, <2>1
<1>7. ASSUME NEW k \in 1 .. c - 1
      PROVE  Cell(e, k) = Cell(t, k + 1)
  <2>1. k \in 1 .. RingSize
    BY <1>2
  <2>2. PICK m \in 1 .. RingSize : m = k + 1
    BY <1>2
  <2>3. Cell(e, k) = IF e + k - 1 < RingSize THEN e + k - 1 ELSE e + k - 1 - RingSize
    BY <2>1, CellIs
  <2>4. Cell(t, m) = IF t + m - 1 < RingSize THEN t + m - 1 ELSE t + m - 1 - RingSize
    BY <2>2, CellIs
  <2>5. Cell(e, k) = Cell(t, m)
    BY <1>2, <1>3, <2>1, <2>2, <2>3, <2>4 DEF Slots
  <2> QED
    BY <2>2, <2>5
<1> QED
  BY <1>1, <1>2, <1>3, <1>5, <1>6, <1>7 DEF TakeKeeps

-----------------------------------------------------------------------------
(* The bytes in the ring.                                                  *)

\* A byte is named by its transfer, its event's place in it and its position.
Bytes == Nat \X Nat \X (1 .. 3)

\* The c bytes from slot t on, in ring f.
Front(f, t, c) == [k \in 1 .. c |-> f[Cell(t, k)]]
Holds(f, t, c) == \A k \in 1 .. c : f[Cell(t, k)] \in Bytes

LEMMA SameSequence ==
    ASSUME NEW S, NEW u \in Seq(S), NEW v \in Seq(S), Len(u) = Len(v),
           \A k \in 1 .. Len(u) : u[k] = v[k]
    PROVE  u = v
  OBVIOUS

LEMMA Associative ==
    ASSUME NEW S, NEW u \in Seq(S), NEW v \in Seq(S), NEW w \in Seq(S)
    PROVE  (u \o v) \o w = u \o (v \o w)
  OBVIOUS

LEMMA FrontType ==
    ASSUME NEW f, NEW t, NEW c \in Nat, Holds(f, t, c)
    PROVE  Front(f, t, c) \in Seq(Bytes) /\ Len(Front(f, t, c)) = c
<1>1. Front(f, t, c) \in [1 .. c -> Bytes]
  BY DEF Front, Holds
<1>2. Front(f, t, c) \in Seq(Bytes)
  BY <1>1
<1>3. DOMAIN Front(f, t, c) = 1 .. c
  BY DEF Front
<1> QED
  BY <1>2, <1>3

\* The ring g that EventQueued leaves of f.
Written(f, g, h, x, u) ==
    g = [s \in Slots |-> IF \E j \in 1 .. x : Cell(h, j) = s
                         THEN u[CHOOSE j \in 1 .. x : Cell(h, j) = s] ELSE f[s]]
FrontGrows(f, g, t, c, d, u) ==
    Holds(g, t, d) /\ Front(g, t, d) = Front(f, t, c) \o u

LEMMA FrontPut ==
    ASSUME NEW h \in Slots, NEW t \in Slots, NEW u \in Seq(Bytes), NEW x, x = Len(u),
           NEW c, c = QueuedOf(h, t), c + x < RingSize,
           NEW f, Holds(f, t, c), NEW g, Written(f, g, h, x, u), NEW d, d = c + x
    PROVE  FrontGrows(f, g, t, c, d, u)
<1>1. c \in Nat /\ x \in Nat /\ d \in Nat /\ d < RingSize /\ RingSize \in Nat
  <2>1. c \in Slots /\ RingSize \in Nat
    BY QueuedIs, RingAssumption
  <2> QED
    BY <2>1 DEF Slots
<1>2. /\ \A j \in 1 .. x : Cell(h, j) \in Slots /\ Cell(t, c + j) = Cell(h, j)
      /\ \A k \in 1 .. c, j \in 1 .. x : Cell(t, k) # Cell(h, j)
      /\ \A j, k \in 1 .. x : Cell(h, j) = Cell(h, k) => j = k
  BY <1>1, PutArith DEF PutKeeps
<1>3. ASSUME NEW j \in 1 .. x
      PROVE  g[Cell(t, c + j)] = u[j] /\ u[j] \in Bytes
  <2>1. PICK s \in Slots : s = Cell(h, j) /\ s = Cell(t, c + j)
    BY <1>2
  <2>2. (CHOOSE i1 \in 1 .. x : Cell(h, i1) = s) = j
    BY <1>2, <2>1
  <2>3. g[s] = u[CHOOSE i1 \in 1 .. x : Cell(h, i1) = s]
    BY <2>1 DEF Written
  <2>4. u[j] \in Bytes
    BY <1>1
  <2> QED
    BY <2>1, <2>2, <2>3, <2>4
<1>4. ASSUME NEW k \in 1 .. c
      PROVE  g[Cell(t, k)] = f[Cell(t, k)] /\ f[Cell(t, k)] \in Bytes
  <2>1. k \in 1 .. RingSize
    BY <1>1
  <2>2. PICK s \in Slots : s = Cell(t, k)
    BY <2>1, CellIs
  <2>3. ~\E j \in 1 .. x : Cell(h, j) = s
    BY <1>2, <2>2
  <2>4. g[s] = f[s]
    BY <2>3 DEF Written
  <2>5. f[s] \in Bytes
    BY <2>2 DEF Holds
  <2> QED
    BY <2>2, <2>4, <2>5
<1>5. ASSUME NEW k \in 1 .. d
      PROVE  /\ k \in 1 .. c => g[Cell(t, k)] = Front(f, t, c)[k]
             /\ ~(k \in 1 .. c) => k - c \in 1 .. x /\ g[Cell(t, k)] = u[k - c]
             /\ g[Cell(t, k)] \in Bytes
  <2>1. CASE k \in 1 .. c
    BY <1>4, <2>1 DEF Front
  <2>2. CASE ~(k \in 1 .. c)
    <3>1. PICK j \in 1 .. x : j = k - c /\ k = c + j
      BY <1>1, <2>2
    <3> QED
      BY <1>3, <2>2, <3>1
  <2> QED
    BY <2>1, <2>2
<1>6. Holds(g, t, d)
  BY <1>5 DEF Holds
<1>7. Front(g, t, d) \in Seq(Bytes) /\ Len(Front(g, t, d)) = d
  BY <1>1, <1>6, FrontType
<1>8. Front(f, t, c) \in Seq(Bytes) /\ Len(Front(f, t, c)) = c
  BY <1>1, FrontType
<1>9. PICK v : v = Front(f, t, c)
  OBVIOUS
<1>10. v \o u \in Seq(Bytes) /\ Len(v \o u) = d
  BY <1>1, <1>8, <1>9
<1>11. ASSUME NEW k \in 1 .. d
       PROVE  Front(g, t, d)[k] = (v \o u)[k]
  <2>1. Front(g, t, d)[k] = g[Cell(t, k)]
    BY DEF Front
  <2>2. CASE k \in 1 .. c
    <3>1. (v \o u)[k] = v[k]
      BY <1>1, <1>8, <1>9, <2>2
    <3> QED
      BY <1>5, <1>9, <2>1, <2>2, <3>1
  <2>3. CASE ~(k \in 1 .. c)
    <3>1. (v \o u)[k] = u[k - c]
      BY <1>1, <1>8, <1>9, <2>3
    <3> QED
      BY <1>5, <2>1, <2>3, <3>1
  <2> QED
    BY <2>2, <2>3
<1>12. Front(g, t, d) = v \o u
  BY <1>7, <1>10, <1>11, SameSequence
<1> QED
  BY <1>6, <1>9, <1>12 DEF FrontGrows

\* PumpByte takes the first byte.
FrontShrinks(f, t, e, c, d) ==
    /\ f[t] \in Bytes /\ Holds(f, e, d)
    /\ Front(f, t, c) = <<f[t]>> \o Front(f, e, d)

LEMMA FrontTake ==
    ASSUME NEW h \in Slots, NEW t \in Slots, h # t, NEW c, c = QueuedOf(h, t),
           NEW f, Holds(f, t, c), NEW e, e = Jump(t, 1), NEW d, d = c - 1
    PROVE  FrontShrinks(f, t, e, c, d)
<1>1. /\ c \in Nat /\ c >= 1 /\ d \in Nat /\ c = d + 1 /\ Cell(t, 1) = t
      /\ \A k \in 1 .. d : Cell(e, k) = Cell(t, k + 1)
  <2>1. c \in Slots /\ RingSize \in Nat
    BY QueuedIs, RingAssumption
  <2>2. /\ c >= 1 /\ Cell(t, 1) = t
        /\ \A k \in 1 .. d : Cell(e, k) = Cell(t, k + 1)
    BY TakeArith DEF TakeKeeps
  <2> QED
    BY <2>1, <2>2 DEF Slots
<1>2. f[t] \in Bytes
  <2>1. 1 \in 1 .. c
    BY <1>1
  <2>2. f[Cell(t, 1)] \in Bytes
    BY <2>1 DEF Holds
  <2> QED
    BY <1>1, <2>2
<1>3. ASSUME NEW k \in 1 .. d
      PROVE  f[Cell(e, k)] = f[Cell(t, k + 1)] /\ f[Cell(e, k)] \in Bytes
  <2>1. k + 1 \in 1 .. c
    BY <1>1
  <2>2. f[Cell(t, k + 1)] \in Bytes
    BY <2>1 DEF Holds
  <2> QED
    BY <1>1, <2>2
<1>4. Holds(f, e, d)
  BY <1>3 DEF Holds
<1>5. PICK v : v = Front(f, e, d) /\ v \in Seq(Bytes) /\ Len(v) = d
  BY <1>1, <1>4, FrontType
<1>6. Front(f, t, c) \in Seq(Bytes) /\ Len(Front(f, t, c)) = c
  BY <1>1, FrontType
<1>7. <<f[t]>> \in Seq(Bytes) /\ <<f[t]>> \o v \in Seq(Bytes) /\ Len(<<f[t]>> \o v) = c
  BY <1>1, <1>2, <1>5
<1>8. ASSUME NEW k \in 1 .. c
      PROVE  Front(f, t, c)[k] = (<<f[t]>> \o v)[k]
  <2>1. Front(f, t, c)[k] = f[Cell(t, k)]
    BY DEF Front
  <2>2. CASE k = 1
    <3>1. (<<f[t]>> \o v)[1] = f[t]
      BY <1>1, <1>2, <1>5
    <3> QED
      BY <1>1, <2>1, <2>2, <3>1
  <2>3. CASE k # 1
    <3>1. PICK j \in 1 .. d : j = k - 1 /\ k = j + 1
      BY <1>1, <2>3
    <3>2. (<<f[t]>> \o v)[k] = v[j]
      BY <1>1, <1>2, <1>5, <3>1
    <3>3. v[j] = f[Cell(e, j)]
      BY <1>5 DEF Front
    <3>4. f[Cell(e, j)] = f[Cell(t, j + 1)]
      BY <1>3
    <3> QED
      BY <2>1, <3>1, <3>2, <3>3, <3>4
  <2> QED
    BY <2>2, <2>3
<1>9. Front(f, t, c) = <<f[t]>> \o v
  BY <1>6, <1>7, <1>8, SameSequence
<1> QED
  BY <1>2, <1>4, <1>5, <1>9 DEF FrontShrinks

-----------------------------------------------------------------------------
(* The inductive invariant.                                                *)

Event == [cable : 0 .. 15, len : 0 .. 3, transfer : Nat, place : Nat]

\* OUT2BUF and where bridge_out is in it.
BufferTyped ==
    /\ out2buf \in Seq(Event) /\ Len(out2buf) <= MaxEvents
    /\ out2bc \in 0 .. Len(out2buf) /\ n \in 0 .. Len(out2buf)
    /\ i \in 0 .. MaxEvents /\ out_off \in 0 .. MaxEvents
    /\ pc \in Stages /\ port \in Ports
    /\ transfers \in Nat /\ requests \in Nat

\* The rings: the bytes between the indices are bytes of events.
RingsTyped ==
    /\ tx_ring \in [Ports -> [Slots -> Bytes \cup {<<>>}]]
    /\ tx_head \in [Ports -> Slots] /\ tx_tail \in [Ports -> Slots]
    /\ \A p \in Ports : Holds(tx_ring[p], tx_tail[p], Queued(p))

LinesTyped ==
    /\ thr \in [Ports -> Seq(Bytes)] /\ \A p \in Ports : Len(thr[p]) <= 1
    /\ wire \in [Ports -> Seq(Bytes)]
    /\ accepted \in [Ports -> Seq(Bytes)]

\* Without a SET_INTERFACE a transfer is the host's, the interrupt's or the
\* decoder's; the resume offset belongs to the transfer being decoded.
Handshake ==
    /\ armed => ~irq /\ ~Semaphore_EP2_out
    /\ irq => ~Semaphore_EP2_out
    /\ armed \/ irq => pc \notin {"boot", "event", "rearm"}
    /\ pc = "event" => Semaphore_EP2_out /\ n = out2bc /\ i <= n
    /\ pc \in {"boot", "rearm"} => ~Semaphore_EP2_out
    /\ IF Semaphore_EP2_out THEN out_off <= out2bc ELSE out_off = 0

Undisturbed == requests = 0 => Handshake /\ EveryByteAccounted

BridgeInv == BufferTyped /\ RingsTyped /\ LinesTyped /\ Undisturbed

LEMMA PayloadType ==
    ASSUME NEW e \in Event
    PROVE  Payload(e) \in Seq(Bytes) /\ Len(Payload(e)) = e.len
<1>1. e.len \in 0 .. 3 /\ e.transfer \in Nat /\ e.place \in Nat
  BY DEF Event
<1>2. \A j \in 1 .. e.len : <<e.transfer, e.place, j>> \in Bytes
  BY <1>1 DEF Bytes
<1>3. Payload(e) \in [1 .. e.len -> Bytes]
  BY <1>2 DEF Payload
<1>4. Payload(e) \in Seq(Bytes)
  BY <1>1, <1>3
<1>5. DOMAIN Payload(e) = 1 .. e.len
  BY DEF Payload
<1> QED
  BY <1>1, <1>4, <1>5

LEMMA CarriedType ==
    ASSUME NEW p, NEW e \in Event
    PROVE  CarriedFor(p, e) \in Seq(Bytes)
<1>1. <<>> \in Seq(Bytes)
  OBVIOUS
<1> QED
  BY <1>1, PayloadType DEF CarriedFor

LEMMA BytesType ==
    ASSUME NEW p, NEW b, NEW m \in Nat, \A j \in 1 .. m : b[j] \in Event, NEW k \in Nat
    PROVE  BytesFor(p, b, k, m) \in Seq(Bytes)
<1> DEFINE T == {d \in Nat : \A j \in Nat : m - d <= j => BytesFor(p, b, j, m) \in Seq(Bytes)}
<1>1. 0 \in T
  <2> SUFFICES ASSUME NEW j \in Nat, m - 0 <= j
               PROVE  BytesFor(p, b, j, m) \in Seq(Bytes)
    OBVIOUS
  <2>1. j >= m
    OBVIOUS
  <2>2. BytesFor(p, b, j, m) = <<>>
    BY <2>1, BytesEnd
  <2> QED
    BY <2>2
<1>2. ASSUME NEW d \in T
      PROVE  d + 1 \in T
  <2>0. d \in Nat /\ d + 1 \in Nat
    OBVIOUS
  <2> SUFFICES ASSUME NEW j \in Nat, m - (d + 1) <= j
               PROVE  BytesFor(p, b, j, m) \in Seq(Bytes)
    BY <2>0
  <2>1. CASE j >= m
    <3>1. BytesFor(p, b, j, m) = <<>>
      BY <2>1, BytesEnd
    <3> QED
      BY <3>1
  <2>2. CASE j < m
    <3>1. j + 1 \in 1 .. m /\ j + 1 \in Nat /\ m - d <= j + 1
      BY <2>0, <2>2
    <3>2. BytesFor(p, b, j + 1, m) \in Seq(Bytes)
      BY <3>1
    <3>3. CarriedFor(p, b[j + 1]) \in Seq(Bytes)
      BY <3>1, CarriedType
    <3>4. BytesFor(p, b, j, m) = CarriedFor(p, b[j + 1]) \o BytesFor(p, b, j + 1, m)
      BY <2>2, BytesStep
    <3> QED
      BY <3>2, <3>3, <3>4
  <2> QED
    BY <2>1, <2>2
<1>3. T = Nat
  <2> HIDE DEF T
  <2>1. T \subseteq Nat
    BY DEF T
  <2> QED
    BY <1>1, <1>2, <2>1, SetInduction
<1>4. m \in T /\ m - m <= k
  BY <1>3
<1> QED
  BY <1>4

-----------------------------------------------------------------------------
(* What has left the decoder, and what has not.                            *)

Past(p) == wire[p] \o thr[p] \o RingBytes(p)
Accounted(p) == Past(p) \o Undecoded(p) = accepted[p]

LEMMA RingFront ==
    ASSUME NEW p
    PROVE  RingBytes(p) = Front(tx_ring[p], tx_tail[p], Queued(p))
           /\ Queued(p) = QueuedOf(tx_head[p], tx_tail[p])
  BY DEF RingBytes, Front, Cell, Queued, QueuedOf

LEMMA RingBytesType ==
    ASSUME RingsTyped, NEW p \in Ports
    PROVE  RingBytes(p) \in Seq(Bytes) /\ Queued(p) \in Slots
<1>1. tx_head[p] \in Slots /\ tx_tail[p] \in Slots
  BY DEF RingsTyped
<1>2. Queued(p) \in Slots
  BY <1>1, RingFront, QueuedIs
<1>3. Queued(p) \in Nat /\ Holds(tx_ring[p], tx_tail[p], Queued(p))
  BY <1>2, RingAssumption DEF RingsTyped, Slots
<1> QED
  BY <1>2, <1>3, RingFront, FrontType

LEMMA UndecodedType ==
    ASSUME BufferTyped, NEW p
    PROVE  Undecoded(p) \in Seq(Bytes)
<1>1. out2buf \in Seq(Event) /\ out2bc \in 0 .. Len(out2buf) /\ n \in 0 .. Len(out2buf)
  BY DEF BufferTyped
<1>2. n \in Nat /\ out2bc \in Nat /\ i \in Nat /\ out_off \in Nat
  BY BoundsAssumption DEF BufferTyped
<1>3. \A j \in 1 .. Len(out2buf) : out2buf[j] \in Event
  BY <1>1
<1>4. /\ \A j \in 1 .. n : out2buf[j] \in Event
      /\ \A j \in 1 .. out2bc : out2buf[j] \in Event
  BY <1>1, <1>3
<1>5. BytesFor(p, out2buf, i, n) \in Seq(Bytes)
  BY <1>2, <1>4, BytesType
<1>6. BytesFor(p, out2buf, out_off, out2bc) \in Seq(Bytes)
  BY <1>2, <1>4, BytesType
<1>7. <<>> \in Seq(Bytes)
  OBVIOUS
<1> QED
  BY <1>5, <1>6, <1>7 DEF Undecoded

\* A step that leaves the rings and the lines alone.
LEMMA PastSame ==
    ASSUME UNCHANGED <<ringVars, uartVars>>, NEW p
    PROVE  Past(p)' = Past(p)
<1>1. RingBytes(p)' = RingBytes(p)
  BY DEF ringVars, RingBytes, Queued
<1> QED
  BY <1>1 DEF Past, uartVars

LEMMA RingsSame ==
    ASSUME UNCHANGED ringVars, RingsTyped
    PROVE  RingsTyped'
  BY DEF ringVars, RingsTyped, Queued, Holds, Cell

-----------------------------------------------------------------------------
(* Every step keeps the invariant.                                         *)

LEMMA InitInv == Init => BridgeInv
<1> SUFFICES ASSUME Init PROVE BridgeInv
  OBVIOUS
<1>1. 0 \in Slots /\ 0 \in Ports /\ Slots = 0 .. RingSize - 1 /\ RingSize \in Nat
  BY RingAssumption, PortsAssumption DEF Slots, Ports
<1>2. BufferTyped
  <2>1. <<>> \in Seq(Event) /\ Len(<<>>) = 0
    OBVIOUS
  <2>2. "boot" \in Stages /\ 0 <= MaxEvents /\ MaxEvents \in Nat
    BY BoundsAssumption DEF Stages
  <2> QED
    BY <1>1, <2>1, <2>2 DEF BufferTyped, Init
<1>3. \A p \in Ports : Queued(p) = 0
  <2>1. QueuedOf(0, 0) = 0
    BY <1>1, QueuedIs
  <2> QED
    BY <2>1 DEF Init, Queued, QueuedOf
<1>4. RingsTyped
  <2>1. tx_ring \in [Ports -> [Slots -> Bytes \cup {<<>>}]]
    BY DEF Init
  <2>2. tx_head \in [Ports -> Slots] /\ tx_tail \in [Ports -> Slots]
    BY <1>1 DEF Init
  <2>3. \A p \in Ports : Holds(tx_ring[p], tx_tail[p], Queued(p))
    BY <1>3 DEF Holds
  <2> QED
    BY <2>1, <2>2, <2>3 DEF RingsTyped
<1>5. LinesTyped
  <2>1. <<>> \in Seq(Bytes) /\ Len(<<>>) <= 1
    OBVIOUS
  <2> QED
    BY <2>1 DEF LinesTyped, Init
<1>6. Handshake
  BY DEF Handshake, Init
<1>7. ASSUME NEW p \in Ports
      PROVE  Accounted(p)
  <2>1. wire[p] = <<>> /\ thr[p] = <<>> /\ accepted[p] = <<>> /\ Undecoded(p) = <<>>
    BY DEF Init, Undecoded
  <2>2. RingBytes(p) = <<>>
    <3>1. RingBytes(p) \in Seq(Bytes)
      BY <1>4, RingBytesType
    <3>2. DOMAIN RingBytes(p) = 1 .. 0
      BY <1>3 DEF RingBytes
    <3> QED
      BY <3>1, <3>2
  <2> QED
    BY <2>1, <2>2 DEF Accounted, Past
<1> QED
  BY <1>2, <1>4, <1>5, <1>6, <1>7
     DEF BridgeInv, Undisturbed, EveryByteAccounted, Accounted, Past

\* Nothing moves: what is undecoded is the same.
Quiet == /\ UNCHANGED <<ringVars, uartVars, accepted>>
         /\ \A p \in Ports : Undecoded(p)' = Undecoded(p)

LEMMA QuietKeeps ==
    ASSUME Quiet, EveryByteAccounted
    PROVE  EveryByteAccounted'
<1> SUFFICES ASSUME NEW p \in Ports PROVE Accounted(p)'
  BY DEF EveryByteAccounted, Accounted, Past
<1>1. Past(p)' = Past(p)
  BY PastSame DEF Quiet
<1>2. Undecoded(p)' = Undecoded(p) /\ accepted' = accepted
  BY DEF Quiet
<1>3. Accounted(p)
  BY DEF EveryByteAccounted, Accounted, Past
<1> QED
  BY <1>1, <1>2, <1>3 DEF Accounted

\* The steps of interrupts and main() that move no byte.
LEMMA UntouchedTypes ==
    ASSUME RingsTyped, LinesTyped, UNCHANGED <<ringVars, uartVars, accepted>>
    PROVE  RingsTyped' /\ LinesTyped'
<1>1. RingsTyped'
  BY RingsSame
<1>2. LinesTyped'
  BY DEF LinesTyped, uartVars
<1> QED
  BY <1>1, <1>2

LEMMA IsrInv == BridgeInv /\ ep2out_isr => BridgeInv'
<1> SUFFICES ASSUME BridgeInv, ep2out_isr PROVE BridgeInv'
  OBVIOUS
<1>1. RingsTyped' /\ LinesTyped'
  BY UntouchedTypes DEF BridgeInv, ep2out_isr, hostVars
<1>2. BufferTyped'
  BY DEF BridgeInv, BufferTyped, ep2out_isr, hostVars, mainVars
<1>3. ASSUME requests' = 0
      PROVE  Handshake' /\ EveryByteAccounted'
  <2>1. Handshake /\ EveryByteAccounted
    BY <1>3 DEF BridgeInv, Undisturbed, ep2out_isr
  <2>2. Handshake'
    BY <2>1 DEF Handshake, ep2out_isr, hostVars, mainVars, BridgeInv, BufferTyped
  <2>3. Quiet
    <3>1. pc # "event" /\ pc' # "event" /\ irq /\ Semaphore_EP2_out'
      BY <2>1 DEF Handshake, ep2out_isr, mainVars
    <3>2. UNCHANGED <<out2buf, out_off, out2bc, accepted>>
      BY DEF ep2out_isr, hostVars, mainVars
    <3> QED
      BY <3>1, <3>2 DEF Quiet, Undecoded, ep2out_isr
  <2> QED
    BY <2>1, <2>2, <2>3, QuietKeeps
<1> QED
  BY <1>1, <1>2, <1>3 DEF BridgeInv, Undisturbed

\* A request ends what is promised; it moves nothing by itself.
LEMMA SetInterfaceInv == BridgeInv /\ SetInterface => BridgeInv'
<1> SUFFICES ASSUME BridgeInv, SetInterface PROVE BridgeInv'
  OBVIOUS
<1>1. RingsTyped' /\ LinesTyped'
  BY UntouchedTypes DEF BridgeInv, SetInterface, hostVars
<1>2. BufferTyped'
  BY DEF BridgeInv, BufferTyped, SetInterface, hostVars, mainVars
<1>3. requests' # 0
  BY DEF BridgeInv, BufferTyped, SetInterface
<1> QED
  BY <1>1, <1>2, <1>3 DEF BridgeInv, Undisturbed

\* The steps of main() that neither decode nor move a byte.
Bookkeeping == BootArm \/ BridgeIdle \/ BridgeStart \/ EventStalls \/ BridgeFinish
               \/ BridgeRearm \/ PumpSkip

LEMMA BookkeepingInv == BridgeInv /\ Bookkeeping => BridgeInv'
<1> SUFFICES ASSUME BridgeInv, Bookkeeping PROVE BridgeInv'
  OBVIOUS
<1>1. UNCHANGED <<ringVars, uartVars, accepted, requests, irq, out2buf, out2bc, transfers>>
  BY DEF Bookkeeping, BootArm, BridgeIdle, BridgeStart, EventStalls, BridgeFinish,
         BridgeRearm, PumpSkip, hostVars, isrVars
<1>2. RingsTyped' /\ LinesTyped'
  BY <1>1, UntouchedTypes DEF BridgeInv
<1>3. BufferTyped /\ MaxEvents \in Nat /\ NumPorts \in 1 .. 16
  BY BoundsAssumption, PortsAssumption DEF BridgeInv
<1>4. BufferTyped'
  <2>1. i' \in 0 .. MaxEvents /\ n' \in 0 .. Len(out2buf) /\ out_off' \in 0 .. MaxEvents
    <3>1. CASE BridgeStart
      BY <3>1, <1>3 DEF BufferTyped, BridgeStart
    <3>2. CASE EventStalls
      BY <3>2, <1>3 DEF BufferTyped, EventStalls
    <3>3. CASE BridgeFinish
      BY <3>3, <1>3 DEF BufferTyped, BridgeFinish
    <3>4. CASE BootArm \/ BridgeIdle \/ BridgeRearm \/ PumpSkip
      BY <3>4, <1>3 DEF BufferTyped, BootArm, BridgeIdle, BridgeRearm, PumpSkip
    <3> QED
      BY <3>1, <3>2, <3>3, <3>4 DEF Bookkeeping
  <2>2. pc' \in Stages /\ port' \in Ports
    <3>1. CASE PumpSkip
      BY <3>1, <1>3 DEF BufferTyped, PumpSkip, PumpOn, Ports, Stages
    <3>2. CASE ~PumpSkip
      BY <3>2, <1>3 DEF BufferTyped, Bookkeeping, BootArm, BridgeIdle, BridgeStart,
         EventStalls, BridgeFinish, BridgeRearm, Stages
    <3> QED
      BY <3>1, <3>2
  <2> QED
    BY <1>1, <1>3, <2>1, <2>2 DEF BufferTyped
<1>5. ASSUME requests' = 0
      PROVE  Handshake' /\ EveryByteAccounted'
  <2>1. Handshake /\ EveryByteAccounted
    BY <1>1, <1>5 DEF BridgeInv, Undisturbed
  <2>2. n \in Nat /\ i \in Nat /\ out_off \in Nat /\ out2bc \in Nat
    BY <1>3 DEF BufferTyped
  <2>3. Handshake' /\ \A p \in Ports : Undecoded(p)' = Undecoded(p)
    <3>1. CASE BootArm
      BY <3>1, <1>1, <2>1, <2>2 DEF BootArm, Handshake, Undecoded, isrVars
    <3>2. CASE BridgeIdle
      BY <3>2, <1>1, <2>1, <2>2 DEF BridgeIdle, Handshake, Undecoded, isrVars
    <3>3. CASE BridgeStart
      BY <3>3, <1>1, <2>1, <2>2 DEF BridgeStart, Handshake, Undecoded, isrVars
    <3>4. CASE EventStalls
      BY <3>4, <1>1, <2>1, <2>2 DEF EventStalls, Deciding, Handshake, Undecoded, isrVars
    <3>5. CASE BridgeFinish
      <4>1. \A p \in Ports : BytesFor(p, out2buf, i, n) = <<>>
        BY <3>5, <2>2, BytesEnd DEF BridgeFinish
      <4> QED
        BY <3>5, <4>1, <1>1, <2>1, <2>2 DEF BridgeFinish, Handshake, Undecoded
    <3>6. CASE BridgeRearm
      BY <3>6, <1>1, <2>1, <2>2 DEF BridgeRearm, Handshake, Undecoded, isrVars
    <3>7. CASE PumpSkip
      BY <3>7, <1>1, <2>1, <2>2 DEF PumpSkip, PumpOn, Handshake, Undecoded, isrVars
    <3> QED
      BY <3>1, <3>2, <3>3, <3>4, <3>5, <3>6, <3>7 DEF Bookkeeping
  <2>4. Quiet
    BY <1>1, <2>3 DEF Quiet
  <2> QED
    BY <2>1, <2>3, <2>4, QuietKeeps
<1> QED
  BY <1>2, <1>4, <1>5 DEF BridgeInv, Undisturbed

LEMMA RestType ==
    ASSUME BufferTyped, NEW p, NEW k \in Nat
    PROVE  BytesFor(p, out2buf, k, n) \in Seq(Bytes)
<1>1. out2buf \in Seq(Event) /\ n \in 0 .. Len(out2buf)
  BY DEF BufferTyped
<1>2. n \in Nat /\ \A j \in 1 .. n : out2buf[j] \in Event
  BY <1>1
<1> QED
  BY <1>2, BytesType

\* What the host sends are k events, and they come behind what it has sent.
Taking(k, events) ==
    /\ out2buf' = events \o SubSeq(out2buf, k + 1, Len(out2buf))
    /\ out2bc' = k
    /\ accepted' = [p \in Ports |-> accepted[p] \o BytesFor(p, events, 0, k)]

LEMMA TransferTaken ==
    ASSUME BufferTyped, HostSends
    PROVE  \E k \in 0 .. MaxEvents : \E events \in Seq(Event) : Len(events) = k /\ Taking(k, events)
<1> DEFINE Sent(k, shape) == [e \in 1 .. k |-> [cable |-> shape[e][1], len |-> shape[e][2],
                                               transfer |-> transfers + 1, place |-> e]]
<1>1. PICK k \in 0 .. MaxEvents : \E shape \in [1 .. k -> Shapes] : Taking(k, Sent(k, shape))
  BY DEF HostSends, Taking
<1>2. PICK shape \in [1 .. k -> Shapes] : Taking(k, Sent(k, shape))
  BY <1>1
<1>3. PICK events : events = Sent(k, shape) /\ Taking(k, events)
  BY <1>2
<1>4. events \in Seq(Event) /\ Len(events) = k
  <2>1. ASSUME NEW e \in 1 .. k
        PROVE  events[e] \in Event
    <3>0. shape[e] \in (0 .. 15) \X (0 .. 3)
      <4>1. shape[e] \in Shapes
        BY <1>2
      <4> QED
        BY <4>1, ShapesAssumption
    <3>1. PICK c \in 0 .. 15, l \in 0 .. 3 : shape[e] = <<c, l>>
      BY <3>0
    <3>2. transfers + 1 \in Nat /\ e \in Nat
      BY DEF BufferTyped
    <3>3. events[e] = [cable |-> c, len |-> l, transfer |-> transfers + 1, place |-> e]
      BY <1>3, <3>1
    <3> QED
      BY <3>1, <3>2, <3>3 DEF Event
  <2>2. events \in [1 .. k -> Event]
    BY <1>3, <2>1
  <2>3. DOMAIN events = 1 .. k
    BY <1>3
  <2>4. k \in Nat
    BY BoundsAssumption
  <2> QED
    BY <2>2, <2>3, <2>4
<1> QED
  BY <1>3, <1>4

\* The host's transfer is taken: nothing else was undecoded.
LEMMA HostSendsInv == BridgeInv /\ HostSends => BridgeInv'
<1> SUFFICES ASSUME BridgeInv, HostSends PROVE BridgeInv'
  OBVIOUS
<1>1. BufferTyped /\ RingsTyped /\ LinesTyped /\ MaxEvents \in Nat
  BY BoundsAssumption DEF BridgeInv
<1>2a. PICK k \in 0 .. MaxEvents :
          \E events \in Seq(Event) : Len(events) = k /\ Taking(k, events)
  BY <1>1, TransferTaken
<1>2b. PICK events \in Seq(Event) : Len(events) = k /\ Taking(k, events)
  BY <1>2a
<1>2. /\ out2bc' = k /\ out2buf' = events \o SubSeq(out2buf, k + 1, Len(out2buf))
      /\ accepted' = [p \in Ports |-> accepted[p] \o BytesFor(p, events, 0, k)]
  BY <1>2b DEF Taking
<1>3. events \in Seq(Event) /\ Len(events) = k /\ \A j \in 1 .. k : events[j] \in Event
  BY <1>2b
<1>4. PICK rest : rest = SubSeq(out2buf, k + 1, Len(out2buf))
  OBVIOUS
<1>5. rest \in Seq(Event) /\ Len(rest) = IF k < Len(out2buf) THEN Len(out2buf) - k ELSE 0
  BY <1>1, <1>2, <1>4 DEF BufferTyped
<1>6. /\ out2buf' = events \o rest /\ out2buf' \in Seq(Event)
      /\ Len(out2buf') = IF k < Len(out2buf) THEN Len(out2buf) ELSE k
      /\ \A j \in 1 .. k : out2buf'[j] = events[j]
  <2>1. out2buf' = events \o rest
    BY <1>2, <1>4
  <2>2. events \o rest \in Seq(Event) /\ Len(events \o rest) = k + Len(rest)
    BY <1>3, <1>5
  <2>3. \A j \in 1 .. k : (events \o rest)[j] = events[j]
    BY <1>3, <1>5
  <2>4. Len(out2buf) \in Nat
    BY <1>1 DEF BufferTyped
  <2> QED
    BY <2>1, <2>2, <2>3, <2>4, <1>5
<1>7. UNCHANGED <<Semaphore_EP2_out, pc, n, i, out_off, port, requests, ringVars, uartVars>>
  BY DEF HostSends, mainVars
<1>8. BufferTyped'
  <2>1. Len(out2buf) \in Nat /\ Len(out2buf) <= MaxEvents /\ n \in 0 .. Len(out2buf)
    BY <1>1 DEF BufferTyped
  <2>2. n \in 0 .. Len(out2buf') /\ Len(out2buf') <= MaxEvents /\ out2bc' \in 0 .. Len(out2buf')
    BY <1>1, <1>2, <1>6, <2>1
  <2>3. transfers' \in Nat
    BY <1>1 DEF HostSends, BufferTyped
  <2> QED
    BY <1>1, <1>6, <1>7, <2>2, <2>3 DEF BufferTyped
<1>9. ASSUME NEW p
      PROVE  BytesFor(p, events, 0, k) \in Seq(Bytes)
  BY <1>2, <1>3, BytesType
<1>10. LinesTyped'
  <2>1. \A p \in Ports : accepted[p] \o BytesFor(p, events, 0, k) \in Seq(Bytes)
    BY <1>1, <1>9 DEF LinesTyped
  <2>2. accepted' \in [Ports -> Seq(Bytes)]
    BY <1>2, <2>1
  <2> QED
    BY <1>1, <1>7, <2>2 DEF LinesTyped, uartVars
<1>11. RingsTyped'
  BY <1>1, <1>7, RingsSame
<1>12. ASSUME requests' = 0
       PROVE  Handshake' /\ EveryByteAccounted'
  <2>1. Handshake /\ EveryByteAccounted
    BY <1>7, <1>12 DEF BridgeInv, Undisturbed
  <2>2. /\ ~Semaphore_EP2_out /\ ~irq /\ irq' /\ ~armed' /\ out_off = 0
        /\ pc \notin {"boot", "event", "rearm"}
    BY <2>1 DEF HostSends, Handshake
  <2>3. Handshake'
    BY <1>7, <2>2 DEF Handshake
  <2>4. ASSUME NEW p \in Ports
        PROVE  Accounted(p)'
    <3>1. PICK w \in Seq(Bytes) : w = Past(p)
      <4>1. RingBytes(p) \in Seq(Bytes)
        BY <1>1, RingBytesType
      <4>2. wire[p] \in Seq(Bytes) /\ thr[p] \in Seq(Bytes)
        BY <1>1 DEF LinesTyped
      <4>3. wire[p] \o thr[p] \o RingBytes(p) \in Seq(Bytes)
        BY <4>1, <4>2
      <4> QED
        BY <4>3 DEF Past
    <3>2. Undecoded(p) = <<>>
      BY <2>2 DEF Undecoded
    <3>3. w \o <<>> = accepted[p]
      BY <2>1, <3>1, <3>2 DEF EveryByteAccounted, Past
    <3>4. accepted[p] = w
      BY <3>1, <3>3
    <3>5. Undecoded(p)' = BytesFor(p, out2buf', 0, k)
      BY <1>2, <1>7, <2>2 DEF Undecoded
    <3>6. BytesFor(p, out2buf', 0, k) = BytesFor(p, events, 0, k)
      <4>1. PICK b : b = out2buf'
        OBVIOUS
      <4>2. k \in Nat /\ \A j \in 1 .. k : b[j] = events[j]
        BY <1>6, <4>1
      <4>3. BytesFor(p, b, 0, k) = BytesFor(p, events, 0, k)
        BY <4>2, BytesSame
      <4> QED
        BY <4>1, <4>3
    <3>7. accepted'[p] = w \o BytesFor(p, events, 0, k)
      BY <1>2, <3>4
    <3>8. Past(p)' = w
      BY <1>7, <3>1, PastSame
    <3> QED
      BY <3>5, <3>6, <3>7, <3>8 DEF Accounted
  <2> QED
    BY <2>3, <2>4 DEF EveryByteAccounted, Accounted, Past
<1> QED
  BY <1>8, <1>10, <1>11, <1>12 DEF BridgeInv, Undisturbed

\* The event bridge_out is at.
LEMMA CurrentEvent ==
    ASSUME BridgeInv, Deciding
    PROVE  /\ Current \in Event /\ i \in Nat /\ n \in Nat /\ i + 1 \in 0 .. MaxEvents
           /\ i < n /\ Current = out2buf[i + 1]
           /\ \A p : BytesFor(p, out2buf, i, n)
                     = CarriedFor(p, Current) \o BytesFor(p, out2buf, i + 1, n)
<1>1. /\ out2buf \in Seq(Event) /\ Len(out2buf) <= MaxEvents /\ n \in 0 .. Len(out2buf)
      /\ i \in 0 .. MaxEvents /\ MaxEvents \in Nat
  BY BoundsAssumption DEF BridgeInv, BufferTyped
<1>2. i < n
  BY DEF Deciding
<1>3. i + 1 \in 1 .. Len(out2buf) /\ i \in Nat /\ n \in Nat /\ i + 1 \in 0 .. MaxEvents
  BY <1>1, <1>2
<1>4. Current \in Event /\ Current = out2buf[i + 1]
  BY <1>1, <1>3 DEF Current
<1> QED
  BY <1>2, <1>3, <1>4, BytesStep

\* An event that goes nowhere carries nothing for any port.
LEMMA EventDroppedInv == BridgeInv /\ EventDropped => BridgeInv'
<1> SUFFICES ASSUME BridgeInv, EventDropped PROVE BridgeInv'
  OBVIOUS
<1>1. UNCHANGED <<ringVars, uartVars, accepted, requests, armed, irq, Semaphore_EP2_out,
                  out2buf, out2bc, transfers, pc, n, out_off, port>> /\ i' = i + 1
      /\ Deciding /\ NoPort
  BY DEF EventDropped, hostVars, isrVars
<1>2. RingsTyped' /\ LinesTyped'
  BY <1>1, UntouchedTypes DEF BridgeInv
<1>3. BufferTyped'
  BY <1>1, CurrentEvent DEF BridgeInv, BufferTyped
<1>4. ASSUME requests' = 0
      PROVE  Handshake' /\ EveryByteAccounted'
  <2>1. Handshake /\ EveryByteAccounted
    BY <1>1, <1>4 DEF BridgeInv, Undisturbed
  <2>2. i' <= n /\ pc = "event"
    BY <1>1, CurrentEvent DEF Deciding
  <2>3. Handshake'
    BY <1>1, <2>1, <2>2 DEF Handshake
  <2>4. ASSUME NEW p \in Ports
        PROVE  Undecoded(p)' = Undecoded(p)
    <3>1. CarriedFor(p, Current) = <<>>
      <4>1. CASE Current.cable >= NumPorts
        <5>1. Current.cable # p
          BY <4>1, CurrentEvent, <1>1, PortsAssumption DEF Ports, Event
        <5> QED
          BY <5>1 DEF CarriedFor
      <4>2. CASE Current.len = 0
        <5>1. Payload(Current) \in Seq(Bytes) /\ Len(Payload(Current)) = 0
          BY <4>2, <1>1, CurrentEvent, PayloadType
        <5>2. Payload(Current) = <<>>
          BY <5>1
        <5> QED
          BY <5>2 DEF CarriedFor
      <4> QED
        BY <1>1, <4>1, <4>2 DEF NoPort
    <3>2. PICK r : r = BytesFor(p, out2buf, i', n)
      OBVIOUS
    <3>3. Undecoded(p)' = r
      BY <1>1, <2>2, <3>2 DEF Undecoded
    <3>4. Undecoded(p) = <<>> \o r
      BY <1>1, <2>2, <3>1, <3>2, CurrentEvent DEF Undecoded
    <3>5. r \in Seq(Bytes)
      BY <1>1, <3>2, CurrentEvent, RestType DEF BridgeInv
    <3> QED
      BY <3>3, <3>4, <3>5
  <2>5. Quiet
    BY <1>1, <2>4 DEF Quiet
  <2> QED
    BY <2>1, <2>3, <2>5, QuietKeeps
<1> QED
  BY <1>2, <1>3, <1>4 DEF BridgeInv, Undisturbed

\* A part of the bytes moves to the next place on its way.
LEMMA Regroup ==
    ASSUME NEW w \in Seq(Bytes), NEW u \in Seq(Bytes), NEW r \in Seq(Bytes)
    PROVE  w \o (u \o r) = (w \o u) \o r
  BY Associative

LEMMA PastType ==
    ASSUME RingsTyped, LinesTyped, NEW p \in Ports
    PROVE  /\ wire[p] \in Seq(Bytes) /\ thr[p] \in Seq(Bytes) /\ RingBytes(p) \in Seq(Bytes)
           /\ Past(p) \in Seq(Bytes)
<1>1. RingBytes(p) \in Seq(Bytes)
  BY RingBytesType
<1>2. wire[p] \in Seq(Bytes) /\ thr[p] \in Seq(Bytes)
  BY DEF LinesTyped
<1>3. wire[p] \o thr[p] \o RingBytes(p) \in Seq(Bytes)
  BY <1>1, <1>2
<1> QED
  BY <1>1, <1>2, <1>3 DEF Past

\* The payload goes from OUT2BUF to the end of its port's ring.
LEMMA EventQueuedInv == BridgeInv /\ EventQueued => BridgeInv'
<1> SUFFICES ASSUME BridgeInv, EventQueued PROVE BridgeInv'
  OBVIOUS
<1>1. BufferTyped /\ RingsTyped /\ LinesTyped /\ RingSize \in Nat
  BY RingAssumption DEF BridgeInv
<1>2. UNCHANGED <<tx_tail, uartVars, accepted, requests, armed, irq, Semaphore_EP2_out,
                  out2buf, out2bc, transfers, pc, n, out_off, port>> /\ i' = i + 1
      /\ Deciding /\ ~NoPort
  BY DEF EventQueued, hostVars, isrVars
<1>3. PICK q \in Ports, u \in Seq(Bytes), x \in 1 .. 3 :
         /\ q = Current.cable /\ u = Payload(Current) /\ x = Current.len /\ Len(u) = x
  <2>1. Current \in Event
    BY <1>2, CurrentEvent
  <2>2. Current.cable \in Ports /\ Current.len \in 1 .. 3
    BY <1>2, <2>1, PortsAssumption DEF NoPort, Event, Ports
  <2> QED
    BY <2>1, <2>2, PayloadType
<1>4. PICK h \in Slots, t \in Slots, c \in Slots :
         h = tx_head[q] /\ t = tx_tail[q] /\ c = QueuedOf(h, t) /\ c = Queued(q)
  <2>1. tx_head[q] \in Slots /\ tx_tail[q] \in Slots
    BY <1>1 DEF RingsTyped
  <2>2. Queued(q) \in Slots /\ Queued(q) = QueuedOf(tx_head[q], tx_tail[q])
    BY <1>1, RingFront, RingBytesType
  <2> QED
    BY <2>1, <2>2
<1>5. PICK f \in [Slots -> Bytes \cup {<<>>}] : f = tx_ring[q] /\ Holds(f, t, c)
  BY <1>1, <1>4 DEF RingsTyped
<1>6. c + x < RingSize /\ c \in Nat
  BY <1>1, <1>3, <1>4 DEF EventQueued, tx_room, Slots
<1>7. PICK g : /\ Written(f, g, h, x, u)
               /\ tx_ring' = [tx_ring EXCEPT ![q] = g]
               /\ tx_head' = [tx_head EXCEPT ![q] = Jump(h, x)]
  BY <1>3, <1>4, <1>5 DEF EventQueued, Written, Cell, Jump, Wrap
<1>8. PICK d : d = c + x
  OBVIOUS
<1>9. Holds(g, t, d) /\ Front(g, t, d) = Front(f, t, c) \o u
  <2>1. FrontGrows(f, g, t, c, d, u)
    BY <1>3, <1>4, <1>5, <1>6, <1>7, <1>8, FrontPut
  <2> QED
    BY <2>1 DEF FrontGrows
<1>10. PICK e \in Slots : e = Jump(h, x) /\ QueuedOf(e, t) = d
  <2>1. x \in Nat
    BY <1>3
  <2>2. PutKeeps(h, t, x)
    BY <2>1, <1>4, <1>6, PutArith
  <2> QED
    BY <2>2, <1>4, <1>8 DEF PutKeeps
<1>11. g \in [Slots -> Bytes \cup {<<>>}]
  <2>1. ASSUME NEW s \in Slots, \E j \in 1 .. x : Cell(h, j) = s
        PROVE  u[CHOOSE j \in 1 .. x : Cell(h, j) = s] \in Bytes
    <3>1. PICK j \in 1 .. x : j = CHOOSE k \in 1 .. x : Cell(h, k) = s
      BY <2>1
    <3>2. u[j] \in Bytes
      BY <1>3
    <3> QED
      BY <3>1, <3>2
  <2>2. \A s \in Slots : f[s] \in Bytes \cup {<<>>}
    BY <1>5
  <2> QED
    BY <1>7, <2>1, <2>2 DEF Written
<1>12. /\ tx_ring'[q] = g /\ tx_head'[q] = e /\ tx_tail'[q] = t
       /\ \A p \in Ports \ {q} : tx_ring'[p] = tx_ring[p] /\ tx_head'[p] = tx_head[p]
       /\ tx_tail' = tx_tail
  BY <1>1, <1>2, <1>4, <1>7, <1>10 DEF RingsTyped
<1>13. Queued(q)' = d /\ \A p \in Ports \ {q} : Queued(p)' = Queued(p)
  BY <1>10, <1>12 DEF Queued, QueuedOf
<1>14. RingsTyped'
  <2>1. tx_ring' \in [Ports -> [Slots -> Bytes \cup {<<>>}]]
    BY <1>1, <1>7, <1>11 DEF RingsTyped
  <2>2. tx_head' \in [Ports -> Slots] /\ tx_tail' \in [Ports -> Slots]
    BY <1>1, <1>2, <1>7, <1>10 DEF RingsTyped
  <2>3. ASSUME NEW p \in Ports
        PROVE  Holds(tx_ring'[p], tx_tail'[p], Queued(p)')
    <3>1. CASE p = q
      BY <3>1, <1>9, <1>12, <1>13
    <3>2. CASE p # q
      <4>1. Holds(tx_ring[p], tx_tail[p], Queued(p))
        BY <1>1 DEF RingsTyped
      <4> QED
        BY <3>2, <4>1, <1>12, <1>13
    <3> QED
      BY <3>1, <3>2
  <2> QED
    BY <2>1, <2>2, <2>3 DEF RingsTyped
<1>15. LinesTyped' /\ BufferTyped'
  BY <1>1, <1>2, CurrentEvent DEF LinesTyped, BufferTyped, uartVars
<1>16. ASSUME requests' = 0
       PROVE  Handshake' /\ EveryByteAccounted'
  <2>1. Handshake /\ EveryByteAccounted
    BY <1>2, <1>16 DEF BridgeInv, Undisturbed
  <2>2. i' <= n /\ pc = "event"
    BY <1>2, CurrentEvent DEF Deciding
  <2>3. Handshake'
    BY <1>2, <2>1, <2>2 DEF Handshake
  <2>4. ASSUME NEW p \in Ports
        PROVE  Accounted(p)'
    <3>1. PICK r \in Seq(Bytes) : r = BytesFor(p, out2buf, i', n)
      BY <1>1, <1>2, CurrentEvent, RestType
    <3>2. Undecoded(p)' = r
      BY <1>2, <2>2, <3>1 DEF Undecoded
    <3>3. Undecoded(p) = CarriedFor(p, Current) \o r
      BY <1>2, <2>2, <3>1, CurrentEvent DEF Undecoded
    <3>4. PICK w, v : w = wire[p] \o thr[p] /\ v = RingBytes(p)
      OBVIOUS
    <3>5. w \in Seq(Bytes) /\ v \in Seq(Bytes) /\ w \o v = Past(p)
      <4>1. wire[p] \in Seq(Bytes) /\ thr[p] \in Seq(Bytes) /\ RingBytes(p) \in Seq(Bytes)
        BY <1>1, PastType
      <4>2. w \in Seq(Bytes)
        BY <4>1, <3>4
      <4> QED
        BY <4>1, <4>2, <3>4 DEF Past
    <3>6. (w \o v) \o (CarriedFor(p, Current) \o r) = accepted[p]
      BY <2>1, <3>3, <3>5 DEF EveryByteAccounted, Past
    <3>7. PICK z \in Seq(Bytes) : z = CarriedFor(p, Current)
      BY <1>2, CurrentEvent, CarriedType
    <3>8. RingBytes(p)' = v \o z
      <4>1. CASE p = q
        <5>1. RingBytes(p)' = Front(g, t, d)
          BY <4>1, <1>12, <1>13 DEF RingBytes, Front, Cell
        <5>2. v = Front(f, t, c)
          <6>1. RingBytes(p) = Front(tx_ring[p], tx_tail[p], Queued(p))
            BY RingFront
          <6> QED
            BY <4>1, <6>1, <3>4, <1>4, <1>5
        <5>3. z = u
          BY <4>1, <3>7, <1>3 DEF CarriedFor
        <5> QED
          BY <5>1, <5>2, <5>3, <1>9
      <4>2. CASE p # q
        <5>1. RingBytes(p)' = v
          BY <4>2, <3>4, <1>12, <1>13 DEF RingBytes
        <5>2. z = <<>>
          BY <4>2, <3>7, <1>3 DEF CarriedFor
        <5>3. v \o <<>> = v
          BY <3>5
        <5> QED
          BY <5>1, <5>2, <5>3
      <4> QED
        BY <4>1, <4>2
    <3>9. Past(p)' = w \o (v \o z)
      <4>1. (wire[p] \o thr[p])' = w
        BY <1>2, <3>4 DEF uartVars
      <4> QED
        BY <4>1, <3>8 DEF Past
    <3>10. w \o (v \o z) = (w \o v) \o z
      BY <3>5, <3>7, Regroup
    <3>11. (w \o v) \o (z \o r) = ((w \o v) \o z) \o r
      <4>0. w \o v \in Seq(Bytes)
        BY <3>5, <1>1, PastType
      <4>1. PICK y \in Seq(Bytes) : y = w \o v
        BY <4>0
      <4>2. y \o (z \o r) = (y \o z) \o r
        BY Regroup
      <4> QED
        BY ONLY <4>1, <4>2
    <3> QED
      BY <1>2, <3>2, <3>6, <3>7, <3>9, <3>10, <3>11 DEF Accounted
  <2> QED
    BY <2>3, <2>4 DEF EveryByteAccounted, Accounted, Past
<1> QED
  BY <1>14, <1>15, <1>16 DEF BridgeInv, Undisturbed

\* uart_tx_pump moves the oldest byte of a ring into the UART.
LEMMA PumpByteInv == BridgeInv /\ PumpByte => BridgeInv'
<1> SUFFICES ASSUME BridgeInv, PumpByte PROVE BridgeInv'
  OBVIOUS
<1>1. BufferTyped /\ RingsTyped /\ LinesTyped /\ RingSize \in Nat
  BY RingAssumption DEF BridgeInv
<1>2. UNCHANGED <<tx_ring, tx_head, wire, accepted, requests, armed, irq, Semaphore_EP2_out,
                  out2buf, out2bc, transfers, n, i, out_off>> /\ pc = "pump"
      /\ PumpOn
  BY DEF PumpByte, hostVars, isrVars
<1>3. PICK q \in Ports : q = port /\ Sendable(q)
  BY <1>1 DEF PumpByte, BufferTyped
<1>4. PICK h \in Slots, t \in Slots, c \in Slots :
         h = tx_head[q] /\ t = tx_tail[q] /\ c = QueuedOf(h, t) /\ c = Queued(q)
  <2>1. tx_head[q] \in Slots /\ tx_tail[q] \in Slots
    BY <1>1 DEF RingsTyped
  <2>2. Queued(q) \in Slots /\ Queued(q) = QueuedOf(tx_head[q], tx_tail[q])
    BY <1>1, RingFront, RingBytesType
  <2> QED
    BY <2>1, <2>2
<1>5. PICK f \in [Slots -> Bytes \cup {<<>>}] : f = tx_ring[q] /\ Holds(f, t, c)
  BY <1>1, <1>4 DEF RingsTyped
<1>6. PICK e, d : e = Jump(t, 1) /\ d = c - 1
  OBVIOUS
<1>7. h # t /\ thr[q] = <<>>
  BY <1>3, <1>4 DEF Sendable
<1>8. e \in Slots /\ QueuedOf(h, e) = d
  <2>1. TakeKeeps(h, t)
    BY <1>4, <1>7, TakeArith
  <2> QED
    BY <2>1, <1>4, <1>6 DEF TakeKeeps
<1>9. f[t] \in Bytes /\ Holds(f, e, d) /\ Front(f, t, c) = <<f[t]>> \o Front(f, e, d)
  <2>1. FrontShrinks(f, t, e, c, d)
    BY <1>4, <1>5, <1>6, <1>7, FrontTake
  <2> QED
    BY <2>1 DEF FrontShrinks
<1>10. /\ thr' = [thr EXCEPT ![q] = <<f[t]>>]
       /\ tx_tail' = [tx_tail EXCEPT ![q] = e]
  BY <1>3, <1>4, <1>5, <1>6 DEF PumpByte, Wrap, Jump
<1>11. /\ thr'[q] = <<f[t]>> /\ tx_tail'[q] = e
       /\ \A p \in Ports \ {q} : thr'[p] = thr[p] /\ tx_tail'[p] = tx_tail[p]
  BY <1>1, <1>10 DEF RingsTyped, LinesTyped
<1>12. Queued(q)' = d /\ \A p \in Ports \ {q} : Queued(p)' = Queued(p)
  BY <1>2, <1>4, <1>8, <1>11 DEF Queued, QueuedOf
<1>13. RingsTyped'
  <2>1. tx_ring' \in [Ports -> [Slots -> Bytes \cup {<<>>}]]
    BY <1>1, <1>2 DEF RingsTyped
  <2>2. tx_head' \in [Ports -> Slots] /\ tx_tail' \in [Ports -> Slots]
    BY <1>1, <1>2, <1>8, <1>10 DEF RingsTyped
  <2>3. ASSUME NEW p \in Ports
        PROVE  Holds(tx_ring'[p], tx_tail'[p], Queued(p)')
    <3>1. CASE p = q
      BY <3>1, <1>2, <1>5, <1>9, <1>11, <1>12
    <3>2. CASE p # q
      <4>1. Holds(tx_ring[p], tx_tail[p], Queued(p))
        BY <1>1 DEF RingsTyped
      <4> QED
        BY <3>2, <4>1, <1>2, <1>11, <1>12
    <3> QED
      BY <3>1, <3>2
  <2> QED
    BY <2>1, <2>2, <2>3 DEF RingsTyped
<1>14. LinesTyped'
  <2>1. <<f[t]>> \in Seq(Bytes) /\ Len(<<f[t]>>) <= 1
    BY <1>9
  <2>2. thr' \in [Ports -> Seq(Bytes)]
    BY <1>1, <1>10, <2>1 DEF LinesTyped
  <2>3. \A p \in Ports : Len(thr'[p]) <= 1
    <3> SUFFICES ASSUME NEW p \in Ports PROVE Len(thr'[p]) <= 1
      OBVIOUS
    <3>1. CASE p = q
      BY <3>1, <1>11, <2>1
    <3>2. CASE p # q
      BY <3>2, <1>1, <1>11 DEF LinesTyped
    <3> QED
      BY <3>1, <3>2
  <2> QED
    BY <1>1, <1>2, <2>2, <2>3 DEF LinesTyped
<1>15. pc' \in {"pump", "bridge"} /\ port' \in Ports
  BY <1>1, <1>2, PortsAssumption DEF PumpOn, Ports, BufferTyped
<1>16. BufferTyped'
  BY <1>1, <1>2, <1>15 DEF BufferTyped, Stages
<1>17. ASSUME requests' = 0
       PROVE  Handshake' /\ EveryByteAccounted'
  <2>1. Handshake /\ EveryByteAccounted
    BY <1>2, <1>17 DEF BridgeInv, Undisturbed
  <2>2. Handshake'
    BY <1>2, <1>15, <2>1 DEF Handshake
  <2>3. ASSUME NEW p \in Ports
        PROVE  Accounted(p)'
    <3>1. Undecoded(p)' = Undecoded(p)
      BY <1>2, <1>15 DEF Undecoded
    <3>2. Past(p)' = Past(p)
      <4>1. CASE p = q
        <5>1. PICK w \in Seq(Bytes) : w = wire[q]
          BY <1>1, PastType
        <5>2. PICK v : v = Front(f, e, d)
          OBVIOUS
        <5>3. v \in Seq(Bytes)
          <6>1. d \in Slots
            BY <1>4, <1>8, QueuedIs
          <6>2. d \in Nat
            BY <6>1, RingAssumption DEF Slots
          <6> QED
            BY <6>2, <5>2, <1>9, FrontType
        <5>4. RingBytes(q) = <<f[t]>> \o v
          <6>1. RingBytes(q) = Front(tx_ring[q], tx_tail[q], Queued(q))
            BY RingFront
          <6> QED
            BY <6>1, <1>4, <1>5, <1>9, <5>2
        <5>5. RingBytes(q)' = v
          BY <1>2, <1>5, <1>11, <1>12, <5>2 DEF RingBytes, Front, Cell
        <5>6. Past(q) = (w \o <<>>) \o (<<f[t]>> \o v)
          BY <1>7, <5>1, <5>4 DEF Past
        <5>7. Past(q)' = (w \o <<f[t]>>) \o v
          BY <1>2, <1>11, <5>1, <5>5 DEF Past
        <5>8. <<f[t]>> \in Seq(Bytes)
          BY <1>9
        <5>9. w \o <<>> = w
          BY <5>1
        <5>10. w \o (<<f[t]>> \o v) = (w \o <<f[t]>>) \o v
          BY <5>3, <5>8, Regroup
        <5> QED
          BY <4>1, <5>6, <5>7, <5>9, <5>10
      <4>2. CASE p # q
        <5>1. RingBytes(p)' = RingBytes(p)
          BY <4>2, <1>2, <1>11, <1>12 DEF RingBytes
        <5> QED
          BY <4>2, <5>1, <1>2, <1>11 DEF Past
      <4> QED
        BY <4>1, <4>2
    <3> QED
      BY <1>2, <2>1, <3>1, <3>2 DEF Accounted, EveryByteAccounted, Past
  <2> QED
    BY <2>2, <2>3 DEF EveryByteAccounted, Accounted, Past
<1> QED
  BY <1>13, <1>14, <1>16, <1>17 DEF BridgeInv, Undisturbed

\* A UART sends what it holds.
LEMMA UartSendsInv == \A q \in Ports : BridgeInv /\ UartSends(q) => BridgeInv'
<1> SUFFICES ASSUME NEW q \in Ports, BridgeInv, UartSends(q) PROVE BridgeInv'
  OBVIOUS
<1>1. BufferTyped /\ RingsTyped /\ LinesTyped
  BY DEF BridgeInv
<1>2. UNCHANGED <<ringVars, accepted, requests, armed, irq, Semaphore_EP2_out, out2buf,
                  out2bc, transfers, pc, n, i, out_off, port>>
  BY DEF UartSends, hostVars, isrVars, mainVars
<1>3. /\ wire'[q] = wire[q] \o thr[q] /\ thr'[q] = <<>>
      /\ \A p \in Ports \ {q} : wire'[p] = wire[p] /\ thr'[p] = thr[p]
  BY <1>1 DEF LinesTyped, UartSends
<1>4. RingsTyped'
  BY <1>1, <1>2, RingsSame
<1>5. LinesTyped'
  <2>1. wire[q] \o thr[q] \in Seq(Bytes) /\ <<>> \in Seq(Bytes) /\ Len(<<>>) <= 1
    BY <1>1 DEF LinesTyped
  <2>2. wire' \in [Ports -> Seq(Bytes)] /\ thr' \in [Ports -> Seq(Bytes)]
    BY <1>1, <2>1 DEF LinesTyped, UartSends
  <2>3. \A p \in Ports : Len(thr'[p]) <= 1
    <3> SUFFICES ASSUME NEW p \in Ports PROVE Len(thr'[p]) <= 1
      OBVIOUS
    <3>1. CASE p = q
      BY <3>1, <1>3, <2>1
    <3>2. CASE p # q
      BY <3>2, <1>1, <1>3 DEF LinesTyped
    <3> QED
      BY <3>1, <3>2
  <2> QED
    BY <1>1, <1>2, <2>2, <2>3 DEF LinesTyped
<1>6. BufferTyped'
  BY <1>1, <1>2 DEF BufferTyped
<1>7. ASSUME requests' = 0
      PROVE  Handshake' /\ EveryByteAccounted'
  <2>1. Handshake /\ EveryByteAccounted
    BY <1>2, <1>7 DEF BridgeInv, Undisturbed
  <2>2. Handshake'
    BY <1>2, <2>1 DEF Handshake
  <2>3. ASSUME NEW p \in Ports
        PROVE  Accounted(p)'
    <3>1. Undecoded(p)' = Undecoded(p)
      BY <1>2 DEF Undecoded
    <3>2. RingBytes(p)' = RingBytes(p)
      BY <1>2 DEF ringVars, RingBytes, Queued
    <3>3. (wire[p] \o thr[p])' = wire[p] \o thr[p]
      <4>1. CASE p = q
        <5>1. wire[q] \o thr[q] \in Seq(Bytes)
          BY <1>1 DEF LinesTyped
        <5>2. (wire[q] \o thr[q]) \o <<>> = wire[q] \o thr[q]
          BY <5>1
        <5> QED
          BY <4>1, <5>2, <1>3
      <4>2. CASE p # q
        BY <4>2, <1>3
      <4> QED
        BY <4>1, <4>2
    <3> QED
      BY <1>2, <2>1, <3>1, <3>2, <3>3 DEF Accounted, EveryByteAccounted, Past
  <2> QED
    BY <2>2, <2>3 DEF EveryByteAccounted, Accounted, Past
<1> QED
  BY <1>4, <1>5, <1>6, <1>7 DEF BridgeInv, Undisturbed

-----------------------------------------------------------------------------
(* The theorems.                                                           *)

\* Every reachable state satisfies the invariant.
THEOREM BridgeInvariant == Spec => []BridgeInv
<1>1. BridgeInv /\ UNCHANGED vars => BridgeInv'
  <2> SUFFICES ASSUME BridgeInv, UNCHANGED vars PROVE BridgeInv'
    OBVIOUS
  <2>1. UNCHANGED <<armed, hostVars, isrVars, mainVars, ringVars, uartVars, requests>>
    BY DEF vars
  <2>2. RingsTyped' /\ LinesTyped'
    BY <2>1, UntouchedTypes DEF BridgeInv, hostVars
  <2>3. BufferTyped' /\ (Handshake => Handshake')
    BY <2>1 DEF BridgeInv, BufferTyped, Handshake, hostVars, isrVars, mainVars
  <2>4. Quiet /\ requests' = requests
    BY <2>1 DEF Quiet, Undecoded, hostVars, isrVars, mainVars
  <2> QED
    BY <2>2, <2>3, <2>4, QuietKeeps DEF BridgeInv, Undisturbed
<1>2. BridgeInv /\ [Next]_vars => BridgeInv'
  BY <1>1, HostSendsInv, IsrInv, SetInterfaceInv, BookkeepingInv, EventDroppedInv,
     EventQueuedInv, PumpByteInv, UartSendsInv DEF Next, Main, Bookkeeping
<1> QED
  BY <1>2, InitInv, PTL DEF Spec

\* The indices of bridge_out and of the rings stay in their buffers, a UART
\* holds at most one byte, whatever requests come in between.
THEOREM TypeCorrect == Spec => []TypeOK
<1>1. BridgeInv => TypeOK
  BY BoundsAssumption DEF BridgeInv, BufferTyped, RingsTyped, LinesTyped, TypeOK
<1> QED
  BY <1>1, BridgeInvariant, PTL

\* Stopping on a full ring and resuming from out_off loses no byte and repeats
\* none, for every number of ports, size of ring and of transfer, as long as
\* the host leaves the setting alone.
THEOREM NothingLostCorrect == Spec => []NothingLostOrRepeated
<1>1. BridgeInv => NothingLostOrRepeated
  BY DEF BridgeInv, Undisturbed, NothingLostOrRepeated
<1> QED
  BY <1>1, BridgeInvariant, PTL

-----------------------------------------------------------------------------
(* The abstract queue.                                                     *)

LEMMA PrefixKept ==
    ASSUME NEW S, NEW u \in Seq(S), NEW v \in Seq(S)
    PROVE  u = SubSeq(u \o v, 1, Len(u))
  OBVIOUS

\* What the device holds of a line, when nothing is undecoded, is a full ring
\* and one byte at most.
LEMMA HostLetIn ==
    ASSUME BridgeInv, HostSends, requests = 0, NEW p \in Ports
    PROVE  /\ Len(accepted[p]) - Len(wire[p]) <= RingSize
           /\ accepted[p] = SubSeq(accepted'[p], 1, Len(accepted[p]))
<1>1. BufferTyped /\ RingsTyped /\ LinesTyped /\ Handshake /\ EveryByteAccounted
  BY DEF BridgeInv, Undisturbed
<1>2. wire[p] \in Seq(Bytes) /\ thr[p] \in Seq(Bytes) /\ Len(thr[p]) <= 1
      /\ accepted[p] \in Seq(Bytes)
  BY <1>1 DEF LinesTyped
<1>3. RingBytes(p) \in Seq(Bytes) /\ Len(RingBytes(p)) <= RingSize - 1
  <2>1. RingBytes(p) \in Seq(Bytes) /\ Queued(p) \in 0 .. RingSize - 1
    BY <1>1, RingBytesType DEF Slots
  <2>2. Len(RingBytes(p)) = Queued(p)
    BY <2>1, RingAssumption DEF RingBytes
  <2> QED
    BY <2>1, <2>2, RingAssumption
<1>4. Undecoded(p) = <<>>
  BY <1>1 DEF HostSends, Handshake, Undecoded
<1>5. wire[p] \o thr[p] \o RingBytes(p) \o <<>> = accepted[p]
  BY <1>1, <1>4 DEF EveryByteAccounted
<1>6. PICK u, r : u = thr[p] /\ r = RingBytes(p)
  OBVIOUS
<1>7. Len(wire[p] \o u \o r \o <<>>) = Len(wire[p]) + Len(u) + Len(r)
  BY <1>2, <1>3, <1>6
<1>8. Len(accepted[p]) - Len(wire[p]) <= RingSize
  <2>1. Len(accepted[p]) = Len(wire[p]) + Len(u) + Len(r)
    BY <1>5, <1>6, <1>7
  <2>2. PICK x, y, z : x = Len(wire[p]) /\ y = Len(u) /\ z = Len(r)
    OBVIOUS
  <2>3. x \in Nat
    BY <1>2, <2>2
  <2>4. y \in Nat /\ y <= 1
    BY <1>2, <1>6, <2>2
  <2>5. z \in Nat /\ z <= RingSize - 1
    BY <1>3, <1>6, <2>2
  <2>6. (x + y + z) - x <= RingSize
    BY <2>3, <2>4, <2>5, RingAssumption
  <2> QED
    BY <2>1, <2>2, <2>6
<1>9. accepted[p] = SubSeq(accepted'[p], 1, Len(accepted[p]))
  <2>1. PICK k \in 0 .. MaxEvents :
            \E events \in Seq(Event) : Len(events) = k /\ Taking(k, events)
    BY <1>1, TransferTaken
  <2>2. PICK events \in Seq(Event) : Len(events) = k /\ Taking(k, events)
    BY <2>1
  <2>3. PICK m : m = BytesFor(p, events, 0, k)
    OBVIOUS
  <2>4. m \in Seq(Bytes)
    <3>1. k \in Nat /\ \A j \in 1 .. k : events[j] \in Event
      BY <2>2, BoundsAssumption
    <3> QED
      BY <2>3, <3>1, BytesType
  <2>5. accepted'[p] = accepted[p] \o m
    BY <2>2, <2>3 DEF Taking
  <2> QED
    BY <1>2, <2>4, <2>5, PrefixKept
<1> QED
  BY <1>8, <1>9

\* The byte in the UART is the next one the host has sent for the line.
LEMMA NextByte ==
    ASSUME BridgeInv, requests = 0, NEW p \in Ports, UartSends(p)
    PROVE  /\ Len(accepted[p]) - Len(wire[p]) > 0
           /\ wire' = [wire EXCEPT ![p] = Append(@, accepted[p][Len(@) + 1])]
<1>1. BufferTyped /\ RingsTyped /\ LinesTyped /\ EveryByteAccounted
  BY DEF BridgeInv, Undisturbed
<1>2. /\ wire \in [Ports -> Seq(Bytes)] /\ wire[p] \in Seq(Bytes) /\ thr[p] \in Seq(Bytes)
      /\ Len(thr[p]) <= 1 /\ accepted[p] \in Seq(Bytes)
  BY <1>1 DEF LinesTyped
<1>3. thr[p] # <<>> /\ wire' = [wire EXCEPT ![p] = wire[p] \o thr[p]]
  BY <1>2 DEF UartSends
<1>4. PICK c : c = thr[p][1]
  OBVIOUS
<1>5. thr[p] = <<c>> /\ c \in Bytes
  BY <1>2, <1>3, <1>4
<1>6. PICK w, r : w = wire[p] /\ r = RingBytes(p) \o Undecoded(p)
  OBVIOUS
<1>7. r \in Seq(Bytes) /\ w \in Seq(Bytes)
  BY <1>1, <1>2, <1>6, RingBytesType, UndecodedType
<1>8. accepted[p] = (w \o <<c>>) \o r
  <2>1. RingBytes(p) \in Seq(Bytes) /\ Undecoded(p) \in Seq(Bytes)
    BY <1>1, RingBytesType, UndecodedType
  <2>2. PICK x, y, z : x = w \o thr[p] /\ y = RingBytes(p) /\ z = Undecoded(p)
    OBVIOUS
  <2>3. x \in Seq(Bytes) /\ y \in Seq(Bytes) /\ z \in Seq(Bytes)
    BY <1>2, <1>7, <2>1, <2>2
  <2>4. (x \o y) \o z = x \o (y \o z)
    BY <2>3, Associative
  <2>5. accepted[p] = (x \o y) \o z
    BY <1>1, <1>6, <2>2 DEF EveryByteAccounted
  <2> QED
    BY <1>5, <1>6, <2>2, <2>4, <2>5
<1>9. PICK a : a = w \o <<c>>
  OBVIOUS
<1>10. a \in Seq(Bytes) /\ Len(a) = Len(w) + 1 /\ a[Len(w) + 1] = c /\ a = Append(w, c)
  BY <1>5, <1>7, <1>9
<1>11. PICK b : b = a \o r
  OBVIOUS
<1>12. Len(b) = Len(w) + 1 + Len(r) /\ b[Len(w) + 1] = c
  BY <1>7, <1>10, <1>11
<1>13. Len(accepted[p]) - Len(w) > 0 /\ accepted[p][Len(w) + 1] = c
  BY <1>7, <1>8, <1>9, <1>11, <1>12
<1> QED
  BY <1>3, <1>5, <1>6, <1>9, <1>10, <1>13

\* Every step but the host's and the UARTs' is none of the abstract queue.
LEMMA QueueStep == BridgeInv /\ [Next]_vars => [requests' = 0 => Queue!Next]_(Queue!queueVars)
<1> SUFFICES ASSUME BridgeInv, [Next]_vars, requests' = 0
             PROVE  Queue!Next \/ UNCHANGED <<accepted, wire>>
  BY DEF Queue!queueVars
<1>1. requests = 0
  <2>1. requests \in Nat
    BY DEF BridgeInv, BufferTyped
  <2>2. requests' = requests \/ requests' = requests + 1
    BY DEF Next, HostSends, ep2out_isr, SetInterface, Main, BootArm, BridgeIdle, BridgeStart,
           BridgeFinish, BridgeRearm, EventDropped, EventStalls, EventQueued, PumpByte,
           PumpSkip, UartSends, vars
  <2> QED
    BY <2>1, <2>2
<1>2. CASE HostSends
  <2>1. DOMAIN accepted' = Ports /\ UNCHANGED wire
    BY <1>2 DEF HostSends, uartVars
  <2>2. Queue!HostSends
    BY <1>1, <1>2, <2>1, HostLetIn DEF Queue!HostSends, Queue!Waiting
  <2> QED
    BY <2>2 DEF Queue!Next
<1>3. ASSUME NEW p \in Ports, UartSends(p)
      PROVE  Queue!Next
  <2>1. UNCHANGED accepted
    BY <1>3 DEF UartSends, hostVars
  <2>2. Queue!Sends(p)
    BY <1>1, <1>3, <2>1, NextByte DEF Queue!Sends, Queue!Waiting
  <2> QED
    BY <2>2 DEF Queue!Next
<1>4. CASE ep2out_isr \/ SetInterface \/ Main \/ UNCHANGED vars
  BY <1>4 DEF ep2out_isr, SetInterface, Main, BootArm, BridgeIdle, BridgeStart, BridgeFinish,
              BridgeRearm, EventDropped, EventStalls, EventQueued, PumpByte, PumpSkip, vars,
              hostVars, uartVars
<1> QED
  BY <1>2, <1>3, <1>4 DEF Next

\* For every number of ports, size of ring and of transfer: endpoint, decoder,
\* rings and UARTs are together one queue per line, out of which the bytes come
\* as the host put them in, and into which it puts no more while a ring's worth
\* and a byte are waiting; as long as it leaves the setting alone.
THEOREM BridgeImplementsTxQueue == Spec => ImplementsTxQueue
<1>1. Init => Queue!Init
  BY DEF Init, Queue!Init
<1>2. QED
  BY <1>1, QueueStep, BridgeInvariant, PTL DEF Spec, ImplementsTxQueue
=============================================================================
