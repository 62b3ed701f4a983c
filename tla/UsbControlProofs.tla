-------------------------- MODULE UsbControlProofs --------------------------
(***************************************************************************)
(* The control endpoint, for every set of requests and without a bound on  *)
(* the packets: what a SETUP is answered with, what becomes of the halts,  *)
(* and how far the data toggles may drift.                                 *)
(***************************************************************************)
EXTENDS UsbControl, WellFoundedInduction, SequenceTheorems, FiniteSetTheorems, TLAPS

-----------------------------------------------------------------------------
(* Induction.                                                              *)

LEMMA LeastNat ==
    ASSUME NEW T, T \subseteq Nat, T # {}
    PROVE  \E x \in T : \A y \in T : x <= y
<1>1. PICK R : R = OpToRel(<, Nat)
  OBVIOUS
<1>2. IsWellFoundedOn(R, Nat)
  BY <1>1, NatLessThanWellFounded
<1>3. PICK x \in T : \A y \in T : ~(<<y, x>> \in R)
  BY <1>2, WFMin
<1>4. \A y \in T : ~(y < x)
  BY <1>1, <1>3 DEF OpToRel
<1> QED
  BY <1>3, <1>4

\* The induction principle, for a set instead of a predicate.
LEMMA SetInduction ==
    ASSUME NEW T, T \subseteq Nat, 0 \in T, \A m \in T : m + 1 \in T
    PROVE  T = Nat
<1> SUFFICES ASSUME Nat \ T # {} PROVE FALSE
  OBVIOUS
<1>1. PICK x \in Nat \ T : \A y \in Nat \ T : x <= y
  BY LeastNat
<1>2. x # 0 /\ x - 1 \in Nat /\ ~(x <= x - 1)
  BY <1>1
<1>3. x - 1 \in T
  BY <1>1, <1>2
<1>4. x - 1 + 1 \in T
  BY <1>3
<1> QED
  BY <1>1, <1>4

-----------------------------------------------------------------------------
(* Following bLength.                                                      *)

Bytes == Seq(Int)

\* What is found from place i on, given what is found from later places on.
FoundAt(f, b, i) ==
    IF i > Len(b) THEN <<>>
    ELSE IF b[i] < 2 \/ i + b[i] > Len(b) + 1 THEN <<SubSeq(b, i, Len(b))>>
    ELSE <<SubSeq(b, i, i + b[i] - 1)>> \o f[i + b[i]]

Follows(f, b) == f = [i \in 1 .. Len(b) + 1 |-> FoundAt(f, b, i)]

LEMMA FollowsAt ==
    ASSUME NEW b, NEW f, Follows(f, b), NEW i \in 1 .. Len(b) + 1
    PROVE  f[i] = FoundAt(f, b, i)
  BY DEF Follows

\* The recursion has a solution: no place refers to an earlier one.
LEMMA FollowingExists ==
    ASSUME NEW b \in Bytes
    PROVE  \E f : Follows(f, b)
<1> DEFINE end == Len(b) + 1
           Good(f, i) == f[i] = FoundAt(f, b, i)
           From(f, n) == \A i \in 1 .. end : end - n <= i => Good(f, i)
           T == {n \in Nat : \E f : f = [i \in 1 .. end |-> f[i]] /\ From(f, n)}
<1>0. end \in Nat /\ 1 <= end /\ Len(b) \in Nat /\ \A i \in 1 .. Len(b) : b[i] \in Int
  BY DEF Bytes
<1>1. 0 \in T
  <2>1. PICK f : f = [i \in 1 .. end |-> <<>>]
    OBVIOUS
  <2>2. ASSUME NEW i \in 1 .. end, end - 0 <= i PROVE Good(f, i)
    <3>1. i > Len(b)
      BY <1>0, <2>2
    <3> QED
      BY <2>1, <3>1 DEF FoundAt
  <2>3. f = [i \in 1 .. end |-> f[i]] /\ From(f, 0)
    BY <2>1, <2>2
  <2> QED
    BY <2>3
<1>2. ASSUME NEW n \in T PROVE n + 1 \in T
  <2>0. n \in Nat
    OBVIOUS
  <2>1. PICK f : f = [i \in 1 .. end |-> f[i]] /\ From(f, n)
    OBVIOUS
  <2>2. PICK g : g = [i \in 1 .. end |-> IF i = end - (n + 1) THEN FoundAt(f, b, i) ELSE f[i]]
    OBVIOUS
  <2>3. ASSUME NEW i \in 1 .. end, end - (n + 1) <= i PROVE Good(g, i)
    <3>1. FoundAt(g, b, i) = FoundAt(f, b, i)
      <4>1. CASE i > Len(b) \/ b[i] < 2 \/ i + b[i] > Len(b) + 1
        BY <4>1 DEF FoundAt
      <4>2. CASE ~(i > Len(b) \/ b[i] < 2 \/ i + b[i] > Len(b) + 1)
        <5>1. i \in 1 .. Len(b) /\ b[i] \in Int /\ b[i] >= 2
          BY <1>0, <4>2
        <5>2. PICK to : to = i + b[i]
          OBVIOUS
        <5>3. to \in 1 .. end /\ to # end - (n + 1)
          BY <1>0, <2>0, <2>3, <4>2, <5>1, <5>2
        <5>4. g[to] = f[to]
          BY <2>2, <5>3
        <5> QED
          BY <5>2, <5>4 DEF FoundAt
      <4> QED
        BY <4>1, <4>2
    <3>2. g[i] = FoundAt(f, b, i)
      <4>1. CASE i = end - (n + 1)
        BY <2>2, <4>1
      <4>2. CASE i # end - (n + 1)
        <5>1. end - n <= i
          BY <1>0, <2>0, <2>3, <4>2
        <5> QED
          BY <2>1, <2>2, <4>2, <5>1
      <4> QED
        BY <4>1, <4>2
    <3> QED
      BY <3>1, <3>2
  <2>4. g = [i \in 1 .. end |-> g[i]]
    BY <2>2
  <2>5. n + 1 \in Nat /\ From(g, n + 1)
    BY <2>0, <2>3
  <2> HIDE DEF From
  <2> QED
    BY <2>4, <2>5
<1>3. T = Nat
  <2> HIDE DEF T
  <2>1. T \subseteq Nat
    BY DEF T
  <2> QED
    BY <1>1, <1>2, <2>1, SetInduction
<1>4. PICK f : f = [i \in 1 .. end |-> f[i]] /\ From(f, end)
  BY <1>0, <1>3
<1>5. \A i \in 1 .. end : f[i] = FoundAt(f, b, i)
  <2> SUFFICES ASSUME NEW i \in 1 .. end PROVE Good(f, i)
    OBVIOUS
  <2>1. end - end <= i
    BY <1>0
  <2> QED
    BY <1>4, <2>1
<1>6. Follows(f, b)
  BY <1>4, <1>5 DEF Follows
<1> QED
  BY <1>6

LEMMA DescriptorsAre ==
    ASSUME NEW b \in Bytes
    PROVE  \E f : Follows(f, b) /\ Descriptors(b) = f[1]
<1>1. PICK f : f = CHOOSE g : Follows(g, b)
  OBVIOUS
<1>2. Follows(f, b)
  BY <1>1, FollowingExists, Zenon
<1>3. Descriptors(b) = f[1]
  BY <1>1 DEF Descriptors, Follows, FoundAt
<1> QED
  BY <1>2, <1>3

-----------------------------------------------------------------------------
(* Bytes written as descriptors.                                           *)

\* d stands in b, from place i on.
Stands(b, i, d) ==
    /\ i + Len(d) <= Len(b) + 1
    /\ \A j \in 1 .. Len(d) : b[i - 1 + j] = d[j]

IsWhole(d) == d \in Bytes /\ Len(d) >= 2 /\ d[1] = Len(d)

\* b is the descriptors ds, one after the other; the kth begins at s[k].
Begins(s, b, ds) ==
    /\ s \in [1 .. Len(ds) + 1 -> Nat \ {0}]
    /\ s[1] = 1 /\ s[Len(ds) + 1] = Len(b) + 1
    /\ \A k \in 1 .. Len(ds) : s[k + 1] = s[k] + Len(ds[k]) /\ Stands(b, s[k], ds[k])

Holds(b, ds) ==
    /\ b \in Bytes /\ ds \in Seq(Bytes)
    /\ \A k \in 1 .. Len(ds) : IsWhole(ds[k])
    /\ \E s : Begins(s, b, ds)

LEMMA HoldsOne ==
    ASSUME NEW d, IsWhole(d)
    PROVE  Holds(d, <<d>>)
<1>0. d \in Bytes /\ Len(d) \in Nat /\ Len(<<d>>) = 1 /\ <<d>>[1] = d /\ <<d>> \in Seq(Bytes)
  BY DEF IsWhole, Bytes
<1>1. PICK s : s = [k \in 1 .. 2 |-> IF k = 1 THEN 1 ELSE Len(d) + 1]
  OBVIOUS
<1>2. s \in [1 .. 2 -> Nat \ {0}] /\ s[1] = 1 /\ s[2] = Len(d) + 1
  BY <1>0, <1>1
<1>3. Stands(d, 1, d)
  BY <1>0 DEF Stands
<1>4. s[1 + 1] = s[1] + Len(d)
  BY <1>0, <1>2
<1>5. Begins(s, d, <<d>>)
  BY <1>0, <1>2, <1>3, <1>4 DEF Begins
<1> QED
  BY <1>0, <1>5 DEF Holds

LEMMA HoldsBoth ==
    ASSUME NEW b, NEW ds, Holds(b, ds), NEW c, NEW es, Holds(c, es)
    PROVE  Holds(b \o c, ds \o es)
<1>0. /\ b \in Bytes /\ c \in Bytes /\ ds \in Seq(Bytes) /\ es \in Seq(Bytes)
      /\ Len(b) \in Nat /\ Len(c) \in Nat /\ Len(ds) \in Nat /\ Len(es) \in Nat
  BY DEF Holds, Bytes
<1>1. PICK s : Begins(s, b, ds)
  BY DEF Holds
<1>2. PICK t : Begins(t, c, es)
  BY DEF Holds
<1>3. PICK bc : bc = b \o c
  OBVIOUS
<1>4. PICK both : both = ds \o es
  OBVIOUS
<1>5. /\ bc \in Bytes /\ Len(bc) = Len(b) + Len(c)
      /\ \A i \in 1 .. Len(b) : bc[i] = b[i]
      /\ \A i \in 1 .. Len(c) : bc[Len(b) + i] = c[i]
  BY <1>0, <1>3 DEF Bytes
<1>6. /\ both \in Seq(Bytes) /\ Len(both) = Len(ds) + Len(es)
      /\ \A k \in 1 .. Len(ds) : both[k] = ds[k]
      /\ \A k \in 1 .. Len(es) : both[Len(ds) + k] = es[k]
  BY <1>0, <1>4
<1>7. PICK u : u = [k \in 1 .. Len(both) + 1 |-> IF k <= Len(ds) THEN s[k]
                                                 ELSE Len(b) + t[k - Len(ds)]]
  OBVIOUS
<1>8. \A k \in 1 .. Len(ds) + 1 : u[k] = s[k] /\ s[k] \in Nat \ {0}
  <2> SUFFICES ASSUME NEW k \in 1 .. Len(ds) + 1
               PROVE  u[k] = s[k] /\ s[k] \in Nat \ {0}
    OBVIOUS
  <2>1. k \in 1 .. Len(both) + 1
    BY <1>0, <1>6
  <2>2. s[k] \in Nat \ {0}
    BY <1>1 DEF Begins
  <2>3. CASE k <= Len(ds)
    BY <1>7, <2>1, <2>2, <2>3
  <2>4. CASE k = Len(ds) + 1
    <3>1. u[k] = Len(b) + t[k - Len(ds)]
      BY <1>0, <1>7, <2>1, <2>4
    <3>2. k - Len(ds) = 1
      BY <1>0, <2>4
    <3>3. t[1] = 1 /\ s[k] = Len(b) + 1
      BY <1>1, <1>2, <2>4 DEF Begins
    <3> QED
      BY <2>2, <3>1, <3>2, <3>3
  <2> QED
    BY <1>0, <2>3, <2>4
<1>9. \A k \in 1 .. Len(es) + 1 : u[Len(ds) + k] = Len(b) + t[k] /\ t[k] \in Nat \ {0}
  <2> SUFFICES ASSUME NEW k \in 1 .. Len(es) + 1
               PROVE  u[Len(ds) + k] = Len(b) + t[k] /\ t[k] \in Nat \ {0}
    OBVIOUS
  <2>1. PICK m : m = Len(ds) + k
    OBVIOUS
  <2>2. m \in 1 .. Len(both) + 1 /\ ~(m <= Len(ds)) /\ m - Len(ds) = k
    BY <1>0, <1>6, <2>1
  <2>3. t[k] \in Nat \ {0}
    BY <1>2 DEF Begins
  <2>4. u[m] = Len(b) + t[m - Len(ds)]
    BY <1>7, <2>2
  <2> QED
    BY <2>1, <2>2, <2>3, <2>4
<1>10. u \in [1 .. Len(both) + 1 -> Nat \ {0}]
  <2> SUFFICES ASSUME NEW k \in 1 .. Len(both) + 1 PROVE u[k] \in Nat \ {0}
    BY <1>7
  <2>1. CASE k <= Len(ds)
    BY <1>0, <1>8, <2>1
  <2>2. CASE ~(k <= Len(ds))
    <3>1. PICK j : j = k - Len(ds)
      OBVIOUS
    <3>2. j \in 1 .. Len(es) + 1 /\ k = Len(ds) + j
      BY <1>0, <1>6, <2>2, <3>1
    <3>3. u[k] = Len(b) + t[j] /\ t[j] \in Nat \ {0}
      BY <1>9, <3>2
    <3> QED
      BY <1>0, <3>3
  <2> QED
    BY <2>1, <2>2
<1>11. u[1] = 1 /\ u[Len(both) + 1] = Len(bc) + 1
  <2>1. 1 \in 1 .. Len(ds) + 1 /\ s[1] = 1
    BY <1>0, <1>1 DEF Begins
  <2>2. PICK m : m = Len(es) + 1
    OBVIOUS
  <2>3. m \in 1 .. Len(es) + 1 /\ t[m] = Len(c) + 1 /\ Len(both) + 1 = Len(ds) + m
    BY <1>0, <1>2, <1>6, <2>2 DEF Begins
  <2>4. u[Len(ds) + m] = Len(b) + (Len(c) + 1)
    BY <1>9, <2>3
  <2> QED
    BY <1>0, <1>5, <1>8, <2>1, <2>3, <2>4
<1>12. ASSUME NEW k \in 1 .. Len(both)
       PROVE  u[k + 1] = u[k] + Len(both[k]) /\ Stands(bc, u[k], both[k]) /\ IsWhole(both[k])
  <2>1. CASE k <= Len(ds)
    <3>1. k \in 1 .. Len(ds) /\ k \in 1 .. Len(ds) + 1 /\ k + 1 \in 1 .. Len(ds) + 1
      BY <1>0, <2>1
    <3>2. both[k] = ds[k] /\ u[k] = s[k] /\ u[k + 1] = s[k + 1] /\ s[k] \in Nat \ {0}
      BY <1>6, <1>8, <3>1
    <3>3. s[k + 1] = s[k] + Len(ds[k]) /\ Stands(b, s[k], ds[k]) /\ IsWhole(ds[k])
      BY <1>1, <3>1 DEF Begins, Holds
    <3>4. PICK d, i : d = ds[k] /\ i = s[k]
      OBVIOUS
    <3>5. i \in Nat \ {0} /\ Stands(b, i, d) /\ Len(d) \in Nat
      BY <3>2, <3>3, <3>4 DEF IsWhole, Bytes
    <3>6. Stands(bc, i, d)
      <4>1. i + Len(d) <= Len(bc) + 1
        BY <1>0, <1>5, <3>5 DEF Stands
      <4>2. ASSUME NEW j \in 1 .. Len(d) PROVE bc[i - 1 + j] = d[j]
        <5>1. PICK m : m = i - 1 + j
          OBVIOUS
        <5>2. m \in 1 .. Len(b)
          BY <1>0, <3>5, <5>1 DEF Stands
        <5>3. b[m] = d[j]
          BY <3>5, <5>1 DEF Stands
        <5> QED
          BY <1>5, <5>1, <5>2, <5>3
      <4> QED
        BY <4>1, <4>2 DEF Stands
    <3> QED
      BY <3>2, <3>3, <3>4, <3>6
  <2>2. CASE ~(k <= Len(ds))
    <3>1. PICK j : j = k - Len(ds)
      OBVIOUS
    <3>2. /\ j \in 1 .. Len(es) /\ j \in 1 .. Len(es) + 1 /\ j + 1 \in 1 .. Len(es) + 1
          /\ k = Len(ds) + j /\ k + 1 = Len(ds) + (j + 1)
      BY <1>0, <1>6, <2>2, <3>1
    <3>3. /\ both[k] = es[j] /\ u[k] = Len(b) + t[j] /\ t[j] \in Nat \ {0}
          /\ u[k + 1] = Len(b) + t[j + 1]
      BY <1>6, <1>9, <3>2
    <3>4. t[j + 1] = t[j] + Len(es[j]) /\ Stands(c, t[j], es[j]) /\ IsWhole(es[j])
      BY <1>2, <3>2 DEF Begins, Holds
    <3>5. PICK d, i : d = es[j] /\ i = t[j]
      OBVIOUS
    <3>6. i \in Nat \ {0} /\ Stands(c, i, d) /\ Len(d) \in Nat
      BY <3>3, <3>4, <3>5 DEF IsWhole, Bytes
    <3>7. Stands(bc, Len(b) + i, d)
      <4>0. PICK at : at = Len(b) + i
        OBVIOUS
      <4>1. at + Len(d) <= Len(bc) + 1
        BY <1>0, <1>5, <3>6, <4>0 DEF Stands
      <4>2. ASSUME NEW n \in 1 .. Len(d) PROVE bc[at - 1 + n] = d[n]
        <5>1. PICK m : m = i - 1 + n
          OBVIOUS
        <5>2. m \in 1 .. Len(c) /\ at - 1 + n = Len(b) + m
          BY <1>0, <3>6, <4>0, <5>1 DEF Stands
        <5>3. c[m] = d[n]
          BY <3>6, <5>1 DEF Stands
        <5> QED
          BY <1>5, <5>2, <5>3
      <4> QED
        BY <4>0, <4>1, <4>2 DEF Stands
    <3>8. u[k + 1] = u[k] + Len(both[k])
      BY <1>0, <3>3, <3>4, <3>5, <3>6
    <3> QED
      BY <3>3, <3>4, <3>5, <3>7, <3>8
  <2> QED
    BY <2>1, <2>2
<1>13. Begins(u, bc, both)
  BY <1>10, <1>11, <1>12 DEF Begins
<1> QED
  BY <1>3, <1>4, <1>5, <1>6, <1>12, <1>13 DEF Holds

IsPiece(b, i, d) == SubSeq(b, i, i + Len(d) - 1) = d

LEMMA PieceOf ==
    ASSUME NEW b \in Bytes, NEW d, IsWhole(d), NEW i \in Nat \ {0}, Stands(b, i, d)
    PROVE  IsPiece(b, i, d)
<1>0. Len(b) \in Nat /\ Len(d) \in Nat /\ Len(d) >= 2
  BY DEF IsWhole, Bytes
<1>1. PICK n : n = i + Len(d) - 1
  OBVIOUS
<1>2. n \in Nat /\ n <= Len(b) /\ n - i + 1 = Len(d)
  BY <1>0, <1>1 DEF Stands
<1>3. PICK x : x = SubSeq(b, i, n)
  OBVIOUS
<1>4. x \in Seq(Int) /\ Len(x) = Len(d) /\ \A j \in 1 .. Len(d) : x[j] = b[i + j - 1]
  <2>1. \A j \in i .. n : b[j] \in Int
    BY <1>0, <1>2 DEF Bytes
  <2>2. /\ x \in Seq(Int)
        /\ Len(x) = IF i <= n THEN n - i + 1 ELSE 0
        /\ \A j \in 1 .. n - i + 1 : x[j] = b[i + j - 1]
    BY <1>2, <1>3, <2>1, SubSeqProperties
  <2> QED
    BY <1>0, <1>2, <2>2
<1>5. \A j \in 1 .. Len(d) : x[j] = d[j]
  <2> SUFFICES ASSUME NEW j \in 1 .. Len(d) PROVE x[j] = d[j]
    OBVIOUS
  <2>1. i + j - 1 = i - 1 + j
    BY <1>0
  <2>2. b[i - 1 + j] = d[j]
    BY DEF Stands
  <2> QED
    BY <1>4, <2>1, <2>2
<1>6. d \in Seq(Int)
  BY DEF IsWhole, Bytes
<1>7. x = d
  <2>1. Len(x) = Len(d) /\ \A j \in 1 .. Len(x) : x[j] = d[j]
    BY <1>4, <1>5
  <2> QED
    BY <1>4, <1>6, <2>1, SeqEqual
<1> QED
  BY <1>1, <1>3, <1>7 DEF IsPiece

\* The host finds the descriptors that were written.
LEMMA FindsWhatIsHeld ==
    ASSUME NEW b, NEW ds, Holds(b, ds)
    PROVE  Descriptors(b) = ds
<1>0. b \in Bytes /\ ds \in Seq(Bytes) /\ Len(b) \in Nat /\ Len(ds) \in Nat
        /\ \A k \in 1 .. Len(ds) : IsWhole(ds[k])
  BY DEF Holds, Bytes
<1>1. PICK s : Begins(s, b, ds)
  BY DEF Holds
<1>2. PICK f : Follows(f, b) /\ Descriptors(b) = f[1]
  BY <1>0, DescriptorsAre
<1> DEFINE rest(k) == SubSeq(ds, k, Len(ds))
           T == {n \in Nat : \A k \in 1 .. Len(ds) + 1 :
                                k = Len(ds) + 1 - n => f[s[k]] = rest(k)}
<1>3. 0 \in T
  <2> SUFFICES ASSUME NEW k \in 1 .. Len(ds) + 1, k = Len(ds) + 1 - 0
               PROVE  f[s[k]] = rest(k)
    OBVIOUS
  <2>1. k = Len(ds) + 1 /\ s[k] = Len(b) + 1
    BY <1>0, <1>1 DEF Begins
  <2>2. s[k] \in 1 .. Len(b) + 1 /\ s[k] > Len(b)
    BY <1>0, <2>1
  <2>3. f[s[k]] = <<>>
    BY <1>2, <2>2, FollowsAt DEF FoundAt
  <2>4. rest(k) = <<>>
    BY <1>0, <2>1
  <2> QED
    BY <2>3, <2>4
<1>4. ASSUME NEW n \in T PROVE n + 1 \in T
  <2>0. n \in Nat
    OBVIOUS
  <2> SUFFICES ASSUME NEW k \in 1 .. Len(ds) + 1, k = Len(ds) + 1 - (n + 1)
               PROVE  f[s[k]] = rest(k)
    BY <2>0
  <2>1. k \in 1 .. Len(ds) /\ k + 1 \in 1 .. Len(ds) + 1 /\ k + 1 = Len(ds) + 1 - n
    BY <1>0, <2>0
  <2>2. f[s[k + 1]] = rest(k + 1)
    BY <2>1
  <2>3. PICK d, i : d = ds[k] /\ i = s[k]
    OBVIOUS
  <2>4. IsWhole(d) /\ Stands(b, i, d) /\ s[k + 1] = i + Len(d) /\ i \in Nat \ {0}
    BY <1>0, <1>1, <2>1, <2>3 DEF Begins
  <2>5. Len(d) \in Nat /\ Len(d) >= 2 /\ d[1] = Len(d) /\ d \in Bytes
    BY <2>4 DEF IsWhole, Bytes
  <2>6. i + Len(d) <= Len(b) + 1 /\ \A j \in 1 .. Len(d) : b[i - 1 + j] = d[j]
    BY <2>4 DEF Stands
  <2>7. b[i] = Len(d) /\ i \in 1 .. Len(b)
    <3>1. 1 \in 1 .. Len(d) /\ i - 1 + 1 = i
      BY <2>4, <2>5
    <3> QED
      BY <1>0, <2>4, <2>5, <2>6, <3>1
  <2>8. SubSeq(b, i, i + Len(d) - 1) = d
    BY <1>0, <2>4, PieceOf DEF IsPiece
  <2>9. f[i] = <<d>> \o f[i + Len(d)]
    <3>1. i \in 1 .. Len(b) + 1 /\ ~(i > Len(b))
      BY <1>0, <2>7
    <3>2. ~(b[i] < 2 \/ i + b[i] > Len(b) + 1)
      BY <1>0, <2>5, <2>6, <2>7
    <3>3. f[i] = FoundAt(f, b, i)
      BY <1>2, <3>1, FollowsAt
    <3> QED
      BY <2>7, <2>8, <3>1, <3>2, <3>3 DEF FoundAt
  <2>10. rest(k) = <<ds[k]>> \o rest(k + 1)
    <3>1. Len(ds) \in k .. Len(ds)
      BY <1>0, <2>1
    <3> QED
      BY <1>0, <2>1, <3>1, SubSeqRecursiveFirst
  <2> QED
    BY <2>2, <2>3, <2>4, <2>9, <2>10
<1>5. T = Nat
  <2> HIDE DEF T
  <2>1. T \subseteq Nat
    BY DEF T
  <2> QED
    BY <1>3, <1>4, <2>1, SetInduction
<1>6. f[s[1]] = rest(1)
  <2>1. Len(ds) \in T /\ 1 \in 1 .. Len(ds) + 1 /\ 1 = Len(ds) + 1 - Len(ds)
    BY <1>0, <1>5
  <2> QED
    BY <2>1
<1>7. rest(1) = ds
  BY <1>0
<1>8. s[1] = 1
  BY <1>1 DEF Begins
<1> QED
  BY <1>2, <1>6, <1>7, <1>8

\* The first byte that was written is the first byte of the first descriptor.
LEMMA HeldFirst ==
    ASSUME NEW b, NEW ds, Holds(b, ds), Len(ds) >= 1
    PROVE  Stands(b, 1, ds[1])
  BY DEF Holds, Begins

\* x is a and c in one, all in a set of values.
IsJoin(S, x, a, c) ==
    /\ x \in Seq(S) /\ Len(x) = Len(a) + Len(c)
    /\ \A i \in 1 .. Len(a) : x[i] = a[i]
    /\ \A i \in 1 .. Len(c) : x[Len(a) + i] = c[i]

LEMMA Joined ==
    ASSUME NEW S, NEW a \in Seq(S), NEW c \in Seq(S)
    PROVE  IsJoin(S, a \o c, a, c)
  BY DEF IsJoin

-----------------------------------------------------------------------------
(* The descriptors of the class device.                                    *)

\* The descriptors before the jacks, and what is left of a port's jacks and
\* an endpoint's descriptors without the bytes.
Opening == <<usb_config_descriptor(CONFIG_TOTAL_LEN, 2, 0),
          usb_interface_descriptor(0, 0, 1, 1, 0, 0),
          <<9, CS_INTERFACE, 1, 0, 1, 9, 0, 1, 1>>,
          usb_interface_descriptor(1, 2, 1, 3, 0, 0),
          <<7, CS_INTERFACE, 1, 0, 1>> \o Word(MS_TOTAL_LEN)>>

PortJacks(p) == <<DESC_MIDI_IN_JACK(EMBEDDED, 4*p + 1),
                  DESC_MIDI_IN_JACK(EXTERNAL, 4*p + 2),
                  DESC_MIDI_OUT_JACK(EMBEDDED, 4*p + 3, 4*p + 2),
                  DESC_MIDI_OUT_JACK(EXTERNAL, 4*p + 4, 4*p + 1)>>

EndpointPair(address, jacks) ==
    <<(<<9>> \o Tail(usb_endpoint_descriptor(address)) \o <<0, 0>>),
      <<CS_EP_LEN(NUM_MIDI_PORTS), CS_ENDPOINT, 1, NUM_MIDI_PORTS>> \o jacks>>

\* What the properties read of the first five.
LEMMA OpeningFields ==
    /\ Len(Opening) = 5
    /\ \A k \in 1 .. 5 : IsWhole(Opening[k])
    /\ Opening[1][2] = 2 /\ Opening[1][3] = 69 /\ Opening[1][4] = 1 /\ Opening[1][5] = 2 /\ Opening[1][7] = 0
    /\ Opening[2][2] = 4 /\ Opening[2][5] = 0 /\ Opening[2][9] = 0
    /\ Opening[3][2] = 36 /\ Opening[3][3] = 1 /\ Opening[3][6] = 9 /\ Opening[3][7] = 0
    /\ Opening[4][2] = 4 /\ Opening[4][5] = 2 /\ Opening[4][9] = 0
    /\ Opening[5][2] = 36 /\ Opening[5][3] = 1 /\ Opening[5][6] = 247 /\ Opening[5][7] = 0
    /\ Len(Opening[1]) = 9 /\ Len(Opening[2]) = 9 /\ Len(Opening[3]) = 9 /\ Len(Opening[4]) = 9
    /\ Len(Opening[5]) = 7
<1>1. CONFIG_TOTAL_LEN = 325 /\ MS_TOTAL_LEN = 247
  BY DEF CONFIG_TOTAL_LEN, MS_TOTAL_LEN, NUM_MIDI_PORTS, JACKS_PER_PORT_LEN, CS_EP_LEN
<1>2. Word(325) = <<69, 1>> /\ Word(247) = <<247, 0>>
  BY DEF Word
<1>3. Opening[1] = <<9, 2, 69, 1, 2, 1, 0, 128, 50>>
  <2>1. PICK a, c, d : a = <<9, 2>> /\ c = <<69, 1>> /\ d = <<2, 1, 0, 128, 50>>
    OBVIOUS
  <2>2. a \in Bytes /\ c \in Bytes /\ d \in Bytes
    BY <2>1 DEF Bytes
  <2>3. PICK x : x = a \o c
    OBVIOUS
  <2>4. IsJoin(Int, x, a, c)
    BY <2>2, <2>3, Joined DEF Bytes
  <2>5. x = <<9, 2, 69, 1>>
    BY <2>1, <2>4 DEF IsJoin, Bytes
  <2>6. x \in Bytes
    BY <2>4 DEF IsJoin, Bytes
  <2>7. PICK y : y = x \o d
    OBVIOUS
  <2>8. IsJoin(Int, y, x, d)
    BY <2>2, <2>6, <2>7, Joined DEF Bytes
  <2>9. IsJoin(Int, y, <<9, 2, 69, 1>>, <<2, 1, 0, 128, 50>>)
    BY <2>1, <2>5, <2>8
  <2>10. y = <<9, 2, 69, 1, 2, 1, 0, 128, 50>>
    BY <2>9 DEF IsJoin, Bytes
  <2>11. Opening[1] = y
    BY <1>1, <1>2, <2>1, <2>3, <2>7 DEF Opening, usb_config_descriptor, TYPE_CONFIGURATION
  <2> QED
    BY <2>10, <2>11
<1>4. Opening[2] = <<9, 4, 0, 0, 0, 1, 1, 0, 0>> /\ Opening[4] = <<9, 4, 1, 0, 2, 1, 3, 0, 0>>
  BY DEF Opening, usb_interface_descriptor, TYPE_INTERFACE
<1>5. Opening[3] = <<9, 36, 1, 0, 1, 9, 0, 1, 1>>
  BY DEF Opening, CS_INTERFACE
<1>6. Opening[5] = <<7, 36, 1, 0, 1, 247, 0>>
  <2>1. PICK a, c : a = <<7, 36, 1, 0, 1>> /\ c = <<247, 0>>
    OBVIOUS
  <2>2. a \in Bytes /\ c \in Bytes
    BY <2>1 DEF Bytes
  <2>3. PICK x : x = a \o c /\ IsJoin(Int, x, a, c)
    BY <2>2, Joined DEF Bytes
  <2>4. IsJoin(Int, x, <<7, 36, 1, 0, 1>>, <<247, 0>>)
    BY <2>1, <2>3
  <2>5. x = <<7, 36, 1, 0, 1, 247, 0>>
    BY <2>4 DEF IsJoin, Bytes
  <2>6. Opening[5] = x
    BY <1>1, <1>2, <2>1, <2>3 DEF Opening, CS_INTERFACE
  <2> QED
    BY <2>5, <2>6
<1>7. Len(Opening) = 5
  BY DEF Opening
<1> HIDE DEF Opening
<1>8. \A k \in 1 .. 5 : k = 1 \/ k = 2 \/ k = 3 \/ k = 4 \/ k = 5
  OBVIOUS
<1>9. IsWhole(Opening[1]) /\ IsWhole(Opening[2]) /\ IsWhole(Opening[3]) /\ IsWhole(Opening[4]) /\ IsWhole(Opening[5])
  BY <1>3, <1>4, <1>5, <1>6 DEF IsWhole, Bytes
<1> QED
  BY <1>3, <1>4, <1>5, <1>6, <1>7, <1>8, <1>9

LEMMA JackFields ==
    ASSUME NEW p \in Nat
    PROVE  /\ Len(PortJacks(p)) = 4
           /\ PortJacks(p)[1] = <<6, 36, 2, 1, 4*p + 1, 0>>
           /\ PortJacks(p)[2] = <<6, 36, 2, 2, 4*p + 2, 0>>
           /\ PortJacks(p)[3] = <<9, 36, 3, 1, 4*p + 3, 1, 4*p + 2, 1, 0>>
           /\ PortJacks(p)[4] = <<9, 36, 3, 2, 4*p + 4, 1, 4*p + 1, 1, 0>>
  BY DEF PortJacks, DESC_MIDI_IN_JACK, DESC_MIDI_OUT_JACK, CS_INTERFACE, MIDI_IN, MIDI_OUT,
         EMBEDDED, EXTERNAL

\* What an endpoint's two descriptors are.
EndpointListed(pair, address, jacks) ==
    /\ Len(pair) = 2 /\ IsWhole(pair[1]) /\ IsWhole(pair[2])
    /\ pair[1][2] = 5 /\ pair[1][3] = address /\ Len(pair[1]) = 9
    /\ pair[2][2] = 37 /\ pair[2][4] = 8 /\ Len(pair[2]) = 12
    /\ \A c \in 1 .. 8 : pair[2][4 + c] = jacks[c]

LEMMA EndpointFields ==
    ASSUME NEW address \in Int, NEW jacks \in Seq(Int), Len(jacks) = 8
    PROVE  EndpointListed(EndpointPair(address, jacks), address, jacks)
<1>1. PICK e : e = usb_endpoint_descriptor(address)
  OBVIOUS
<1>2. e = <<7, 5, address, 2, 64, 0, 0>>
  <2>1. PICK a, c, d : a = <<7, 5, address, 2>> /\ c = <<64, 0>> /\ d = <<0>>
    OBVIOUS
  <2>2. a \in Seq(Int) /\ c \in Seq(Int) /\ d \in Seq(Int)
    BY <2>1
  <2>3. PICK x : x = a \o c
    OBVIOUS
  <2>4. IsJoin(Int, x, a, c)
    BY <2>2, <2>3, Joined
  <2>5. x \in Seq(Int)
    BY <2>4 DEF IsJoin
  <2>6. IsJoin(Int, x, <<7, 5, address, 2>>, <<64, 0>>)
    BY <2>1, <2>4
  <2>7. x = <<7, 5, address, 2, 64, 0>>
    BY <2>6 DEF IsJoin
  <2>8. PICK y : y = x \o d
    OBVIOUS
  <2>9. IsJoin(Int, y, x, d)
    BY <2>2, <2>5, <2>8, Joined
  <2>10. IsJoin(Int, y, <<7, 5, address, 2, 64, 0>>, <<0>>)
    BY <2>1, <2>7, <2>9
  <2>11. y = <<7, 5, address, 2, 64, 0, 0>>
    BY <2>10 DEF IsJoin
  <2>12. Word(64) = <<64, 0>>
    BY DEF Word
  <2>13. e = y
    BY <1>1, <2>1, <2>3, <2>8, <2>12 DEF usb_endpoint_descriptor, TYPE_ENDPOINT
  <2> QED
    BY <2>11, <2>13
<1>3. PICK t : t = Tail(e)
  OBVIOUS
<1>4. t = <<5, address, 2, 64, 0, 0>>
  BY <1>2, <1>3
<1>5. PICK x : x = <<9>> \o t
  OBVIOUS
<1>6. IsJoin(Int, x, <<9>>, t) /\ <<9>> \in Seq(Int) /\ t \in Seq(Int)
  <2>1. <<9>> \in Seq(Int) /\ t \in Seq(Int)
    BY <1>4
  <2> QED
    BY <1>5, <2>1, Joined
<1>7. x \in Seq(Int) /\ Len(x) = 7 /\ x[1] = 9 /\ x[2] = 5 /\ x[3] = address
  <2>1. IsJoin(Int, x, <<9>>, <<5, address, 2, 64, 0, 0>>)
    BY <1>4, <1>6
  <2> QED
    BY <2>1 DEF IsJoin
<1>8. PICK y : y = x \o <<0, 0>>
  OBVIOUS
<1>9. IsJoin(Int, y, x, <<0, 0>>)
  <2>1. PICK c : c = <<0, 0>>
    OBVIOUS
  <2>2. c \in Seq(Int)
    BY <2>1
  <2>3. IsJoin(Int, x \o c, x, c)
    BY <1>7, <2>2, Joined
  <2> QED
    BY <1>8, <2>1, <2>3
<1>10. y \in Seq(Int) /\ Len(y) = 9 /\ y[1] = 9 /\ y[2] = 5 /\ y[3] = address
  BY <1>7, <1>9 DEF IsJoin
<1>11. PICK h : h = <<12, 37, 1, 8>>
  OBVIOUS
<1>12. PICK z : z = h \o jacks
  OBVIOUS
<1>13. IsJoin(Int, z, h, jacks)
  <2>1. h \in Seq(Int)
    BY <1>11
  <2> QED
    BY <1>12, <2>1, Joined
<1>14. /\ z \in Seq(Int) /\ Len(z) = 12 /\ z[1] = 12 /\ z[2] = 37 /\ z[4] = 8
       /\ \A c \in 1 .. 8 : z[4 + c] = jacks[c]
  BY <1>11, <1>13 DEF IsJoin
<1>15. PICK pair : pair = EndpointPair(address, jacks)
  OBVIOUS
<1>16. pair = <<y, z>>
  BY <1>15, <1>1, <1>3, <1>5, <1>8, <1>11, <1>12
     DEF EndpointPair, CS_EP_LEN, NUM_MIDI_PORTS, CS_ENDPOINT
<1>17. Len(pair) = 2 /\ pair[1] = y /\ pair[2] = z
  BY <1>16
<1>18. IsWhole(y) /\ IsWhole(z)
  BY <1>10, <1>14 DEF IsWhole, Bytes
<1>19. EndpointListed(pair, address, jacks)
  BY <1>10, <1>14, <1>17, <1>18 DEF EndpointListed
<1> QED
  BY <1>15, <1>19

-----------------------------------------------------------------------------
(* Its configuration, descriptor by descriptor.                            *)

\* b and c in one hold what each holds.
Together(b, ds, c, es) ==
    /\ Holds(b \o c, ds \o es)
    /\ Len(b \o c) = Len(b) + Len(c)
    /\ IsJoin(Bytes, ds \o es, ds, es)

LEMMA HeldTogether ==
    ASSUME NEW b, NEW ds, Holds(b, ds), NEW c, NEW es, Holds(c, es)
    PROVE  Together(b, ds, c, es)
<1>1. b \in Seq(Int) /\ c \in Seq(Int) /\ ds \in Seq(Bytes) /\ es \in Seq(Bytes)
  BY DEF Holds, Bytes
<1>2. Len(b \o c) = Len(b) + Len(c)
  BY <1>1
<1>3. IsJoin(Bytes, ds \o es, ds, es)
  BY <1>1, Joined
<1>4. Holds(b \o c, ds \o es)
  BY HoldsBoth
<1> QED
  BY <1>2, <1>3, <1>4 DEF Together

\* One descriptor more.
Longer(b, ds, d) ==
    \E es : /\ Holds(b \o d, es)
            /\ Len(b \o d) = Len(b) + Len(d)
            /\ Len(es) = Len(ds) + 1 /\ es[Len(ds) + 1] = d
            /\ \A k \in 1 .. Len(ds) : es[k] = ds[k]

LEMMA HeldLonger ==
    ASSUME NEW b, NEW ds, Holds(b, ds), NEW d, IsWhole(d)
    PROVE  Longer(b, ds, d)
<1>1. PICK one : one = <<d>>
  OBVIOUS
<1>2. Holds(d, one) /\ Len(one) = 1 /\ one[1] = d
  BY <1>1, HoldsOne
<1>3. Together(b, ds, d, one)
  BY <1>2, HeldTogether
<1>4. PICK es : es = ds \o one
  OBVIOUS
<1>5. Holds(b \o d, es) /\ Len(b \o d) = Len(b) + Len(d) /\ IsJoin(Bytes, es, ds, one)
  BY <1>3, <1>4 DEF Together
<1>6. 1 \in 1 .. 1
  OBVIOUS
<1>7. Len(es) = Len(ds) + 1 /\ es[Len(ds) + 1] = d /\ \A k \in 1 .. Len(ds) : es[k] = ds[k]
  BY <1>2, <1>5, <1>6 DEF IsJoin
<1> QED
  BY <1>5, <1>7 DEF Longer

\* The jacks of a port.
LEMMA JacksHeld ==
    ASSUME NEW p \in Nat
    PROVE  /\ Holds(MIDI_PORT_JACKS(p), PortJacks(p))
           /\ Len(MIDI_PORT_JACKS(p)) = 30
<1>1. PICK a, b, c, d : /\ a = <<6, 36, 2, 1, 4*p + 1, 0>>
                        /\ b = <<6, 36, 2, 2, 4*p + 2, 0>>
                        /\ c = <<9, 36, 3, 1, 4*p + 3, 1, 4*p + 2, 1, 0>>
                        /\ d = <<9, 36, 3, 2, 4*p + 4, 1, 4*p + 1, 1, 0>>
  OBVIOUS
<1>2. /\ IsWhole(a) /\ IsWhole(b) /\ IsWhole(c) /\ IsWhole(d)
      /\ Len(a) = 6 /\ Len(b) = 6 /\ Len(c) = 9 /\ Len(d) = 9
  <2>1. 4*p + 1 \in Int /\ 4*p + 2 \in Int /\ 4*p + 3 \in Int /\ 4*p + 4 \in Int
    OBVIOUS
  <2> QED
    BY <1>1, <2>1 DEF IsWhole, Bytes
<1>3. PICK one : one = <<a>>
  OBVIOUS
<1>4. Holds(a, one) /\ Len(one) = 1 /\ one[1] = a
  BY <1>2, <1>3, HoldsOne
<1>5. PICK x : x = a \o b
  OBVIOUS
<1>6. Longer(a, one, b)
  BY <1>2, <1>4, HeldLonger
<1>7. PICK two : /\ Holds(x, two) /\ Len(x) = 12 /\ Len(two) = 2
                 /\ two[1] = a /\ two[2] = b
  BY <1>2, <1>4, <1>5, <1>6 DEF Longer
<1>8. PICK y : y = x \o c
  OBVIOUS
<1>9. Longer(x, two, c)
  BY <1>2, <1>7, HeldLonger
<1>10. PICK three : /\ Holds(y, three) /\ Len(y) = 21 /\ Len(three) = 3
                    /\ three[1] = a /\ three[2] = b /\ three[3] = c
  <2>1. PICK es : /\ Holds(y, es) /\ Len(y) = 12 + 9
                  /\ Len(es) = 2 + 1 /\ es[2 + 1] = c /\ \A k \in 1 .. 2 : es[k] = two[k]
    BY <1>2, <1>7, <1>8, <1>9 DEF Longer
  <2>2. 1 \in 1 .. 2 /\ 2 \in 1 .. 2
    OBVIOUS
  <2>3. es[1] = a /\ es[2] = b
    BY <1>7, <2>1, <2>2
  <2> QED
    BY <2>1, <2>3
<1>11. PICK z : z = y \o d
  OBVIOUS
<1>12. Longer(y, three, d)
  BY <1>2, <1>10, HeldLonger
<1>13. PICK four : /\ Holds(z, four) /\ Len(z) = 30 /\ Len(four) = 4
                   /\ four[1] = a /\ four[2] = b /\ four[3] = c /\ four[4] = d
  <2>1. PICK es : /\ Holds(z, es) /\ Len(z) = 21 + 9
                  /\ Len(es) = 3 + 1 /\ es[3 + 1] = d /\ \A k \in 1 .. 3 : es[k] = three[k]
    BY <1>2, <1>10, <1>11, <1>12 DEF Longer
  <2>2. 1 \in 1 .. 3 /\ 2 \in 1 .. 3 /\ 3 \in 1 .. 3
    OBVIOUS
  <2>3. es[1] = a /\ es[2] = b /\ es[3] = c
    BY <1>10, <2>1, <2>2
  <2> QED
    BY <2>1, <2>3
<1>14. PICK listed : listed = PortJacks(p)
  OBVIOUS
<1>15. listed = <<a, b, c, d>>
  BY <1>1, <1>14
     DEF PortJacks, DESC_MIDI_IN_JACK, DESC_MIDI_OUT_JACK, CS_INTERFACE, MIDI_IN, MIDI_OUT,
         EMBEDDED, EXTERNAL
<1>16. four = listed
  <2>1. four \in Seq(Bytes)
    BY <1>13 DEF Holds
  <2>2. /\ listed \in Seq(Bytes) /\ Len(listed) = 4
        /\ listed[1] = a /\ listed[2] = b /\ listed[3] = c /\ listed[4] = d
    BY <1>2, <1>15 DEF IsWhole
  <2>3. \A k \in 1 .. 4 : k = 1 \/ k = 2 \/ k = 3 \/ k = 4
    OBVIOUS
  <2>4. \A k \in 1 .. Len(four) : four[k] = listed[k]
    BY <1>13, <2>2, <2>3
  <2> QED
    BY <1>13, <2>1, <2>2, <2>4, SeqEqual
<1>17. MIDI_PORT_JACKS(p) = z
  BY <1>1, <1>5, <1>8, <1>11
     DEF MIDI_PORT_JACKS, DESC_MIDI_IN_JACK, DESC_MIDI_OUT_JACK, CS_INTERFACE, MIDI_IN, MIDI_OUT,
         EMBEDDED, EXTERNAL
<1> QED
  BY <1>13, <1>14, <1>16, <1>17

\* The configuration up to the jacks of m ports.
Listed(b, ds, m) ==
    /\ Holds(b, ds) /\ Len(b) = 43 + 30 * m /\ Len(ds) = 5 + 4 * m
    /\ \A k \in 1 .. 5 : ds[k] = Opening[k]
    /\ \A p \in 0 .. m - 1, q \in 1 .. 4 : ds[5 + 4 * p + q] = PortJacks(p)[q]

LEMMA ListedNext ==
    ASSUME NEW m \in Nat, NEW b, NEW ds, Listed(b, ds, m)
    PROVE  \E es : Listed(b \o MIDI_PORT_JACKS(m), es, m + 1)
<1>1. PICK c, js : c = MIDI_PORT_JACKS(m) /\ js = PortJacks(m)
  OBVIOUS
<1>2. Holds(c, js) /\ Len(c) = 30 /\ Len(js) = 4
  BY <1>1, JacksHeld, JackFields
<1>3. Holds(b, ds) /\ Len(b) = 43 + 30 * m /\ Len(ds) = 5 + 4 * m
  BY DEF Listed
<1>4. Together(b, ds, c, js)
  BY <1>2, <1>3, HeldTogether
<1>5. PICK es : es = ds \o js
  OBVIOUS
<1>6. /\ Holds(b \o c, es) /\ Len(b \o c) = 43 + 30 * (m + 1)
      /\ IsJoin(Bytes, es, ds, js) /\ Len(es) = 5 + 4 * (m + 1)
  <2>1. Holds(b \o c, es) /\ IsJoin(Bytes, es, ds, js) /\ Len(b \o c) = Len(b) + Len(c)
    BY <1>4, <1>5 DEF Together
  <2>2. Len(es) = Len(ds) + Len(js)
    BY <2>1 DEF IsJoin
  <2>3. 43 + 30 * (m + 1) = (43 + 30 * m) + 30 /\ 5 + 4 * (m + 1) = (5 + 4 * m) + 4
    OBVIOUS
  <2> QED
    BY <1>2, <1>3, <2>1, <2>2, <2>3
<1>7. \A k \in 1 .. 5 + 4 * m : es[k] = ds[k]
  BY <1>3, <1>6 DEF IsJoin
<1>8. \A k \in 1 .. 5 : es[k] = Opening[k]
  BY <1>7 DEF Listed
<1>9. ASSUME NEW p \in 0 .. (m + 1) - 1, NEW q \in 1 .. 4
      PROVE  es[5 + 4 * p + q] = PortJacks(p)[q]
  <2>1. CASE p = m
    <3>1. es[5 + 4 * m + q] = js[q]
      BY <1>2, <1>3, <1>6 DEF IsJoin
    <3> QED
      BY <1>1, <2>1, <3>1
  <2>2. CASE p # m
    <3>1. p \in 0 .. m - 1 /\ 5 + 4 * p + q \in 1 .. 5 + 4 * m
      BY <2>2
    <3>2. ds[5 + 4 * p + q] = PortJacks(p)[q]
      BY <3>1 DEF Listed
    <3> QED
      BY <1>7, <3>1, <3>2
  <2> QED
    BY <2>1, <2>2
<1>10. Listed(b \o c, es, m + 1)
  BY <1>6, <1>8, <1>9 DEF Listed
<1> QED
  BY <1>1, <1>10

Regroups(a, b, c) == (a \o b) \o c = a \o (b \o c)

LEMMA Regrouped ==
    ASSUME NEW a \in Seq(Int), NEW b \in Seq(Int), NEW c \in Seq(Int)
    PROVE  Regroups(a, b, c)
  BY ConcatAssociative DEF Regroups

\* The headers and the interfaces.
LEMMA OpeningHeld ==
    \E ds : Listed(usb_config_descriptor(CONFIG_TOTAL_LEN, 2, 0)
                       \o usb_interface_descriptor(0, 0, 1, 1, 0, 0)
                       \o <<9, CS_INTERFACE, 1, 0, 1, 9, 0, 1, 1>>
                       \o usb_interface_descriptor(1, 2, 1, 3, 0, 0)
                       \o <<7, CS_INTERFACE, 1, 0, 1>> \o Word(MS_TOTAL_LEN),
                   ds, 0)
<1>1. PICK a, b, c, d, e : /\ a = Opening[1] /\ b = Opening[2] /\ c = Opening[3]
                           /\ d = Opening[4] /\ e = Opening[5]
  OBVIOUS
<1>2. /\ IsWhole(a) /\ IsWhole(b) /\ IsWhole(c) /\ IsWhole(d) /\ IsWhole(e)
      /\ Len(a) = 9 /\ Len(b) = 9 /\ Len(c) = 9 /\ Len(d) = 9 /\ Len(e) = 7
  <2>1. 1 \in 1 .. 5 /\ 2 \in 1 .. 5 /\ 3 \in 1 .. 5 /\ 4 \in 1 .. 5 /\ 5 \in 1 .. 5
    OBVIOUS
  <2> QED
    BY <1>1, <2>1, OpeningFields
<1>3. PICK one : one = <<a>>
  OBVIOUS
<1>4. Holds(a, one) /\ Len(one) = 1 /\ one[1] = a
  BY <1>2, <1>3, HoldsOne
<1>5. PICK x : x = a \o b
  OBVIOUS
<1>6. Longer(a, one, b)
  BY <1>2, <1>4, HeldLonger
<1>7. PICK two : /\ Holds(x, two) /\ Len(x) = 18 /\ Len(two) = 2
                 /\ two[1] = a /\ two[2] = b
  BY <1>2, <1>4, <1>5, <1>6 DEF Longer
<1>8. PICK y : y = x \o c
  OBVIOUS
<1>9. Longer(x, two, c)
  BY <1>2, <1>7, HeldLonger
<1>10. PICK three : /\ Holds(y, three) /\ Len(y) = 27 /\ Len(three) = 3
                    /\ three[1] = a /\ three[2] = b /\ three[3] = c
  <2>1. PICK es : /\ Holds(y, es) /\ Len(y) = 18 + 9
                  /\ Len(es) = 2 + 1 /\ es[2 + 1] = c /\ \A k \in 1 .. 2 : es[k] = two[k]
    BY <1>2, <1>7, <1>8, <1>9 DEF Longer
  <2>2. 1 \in 1 .. 2 /\ 2 \in 1 .. 2
    OBVIOUS
  <2>3. es[1] = a /\ es[2] = b
    BY <1>7, <2>1, <2>2
  <2> QED
    BY <2>1, <2>3
<1>11. PICK z : z = y \o d
  OBVIOUS
<1>12. Longer(y, three, d)
  BY <1>2, <1>10, HeldLonger
<1>13. PICK four : /\ Holds(z, four) /\ Len(z) = 36 /\ Len(four) = 4
                   /\ four[1] = a /\ four[2] = b /\ four[3] = c /\ four[4] = d
  <2>1. PICK es : /\ Holds(z, es) /\ Len(z) = 27 + 9
                  /\ Len(es) = 3 + 1 /\ es[3 + 1] = d /\ \A k \in 1 .. 3 : es[k] = three[k]
    BY <1>2, <1>10, <1>11, <1>12 DEF Longer
  <2>2. 1 \in 1 .. 3 /\ 2 \in 1 .. 3 /\ 3 \in 1 .. 3
    OBVIOUS
  <2>3. es[1] = a /\ es[2] = b /\ es[3] = c
    BY <1>10, <2>1, <2>2
  <2> QED
    BY <2>1, <2>3
<1>14. PICK w : w = z \o e
  OBVIOUS
<1>15. Longer(z, four, e)
  BY <1>2, <1>13, HeldLonger
<1>16. PICK ds : /\ Holds(w, ds) /\ Len(w) = 36 + 7
                 /\ Len(ds) = 4 + 1 /\ ds[4 + 1] = e /\ \A k \in 1 .. 4 : ds[k] = four[k]
  <2>1. PICK es : /\ Holds(w, es) /\ Len(w) = Len(z) + Len(e)
                  /\ Len(es) = Len(four) + 1 /\ es[Len(four) + 1] = e
                  /\ \A k \in 1 .. Len(four) : es[k] = four[k]
    BY <1>14, <1>15 DEF Longer
  <2>2. Len(z) = 36 /\ Len(e) = 7 /\ Len(four) = 4
    BY <1>2, <1>13
  <2> QED
    BY <2>1, <2>2
<1>17. \A k \in 1 .. 5 : ds[k] = Opening[k]
  <2>1. 1 \in 1 .. 4 /\ 2 \in 1 .. 4 /\ 3 \in 1 .. 4 /\ 4 \in 1 .. 4
    OBVIOUS
  <2>2. ds[1] = a /\ ds[2] = b /\ ds[3] = c /\ ds[4] = d /\ ds[5] = e
    BY <1>13, <1>16, <2>1
  <2>3. \A k \in 1 .. 5 : k = 1 \/ k = 2 \/ k = 3 \/ k = 4 \/ k = 5
    OBVIOUS
  <2> QED
    BY <1>1, <2>2, <2>3
<1>18. Listed(w, ds, 0)
  <2>1. \A p \in 0 .. 0 - 1, q \in 1 .. 4 : ds[5 + 4 * p + q] = PortJacks(p)[q]
    OBVIOUS
  <2>2. Len(w) = 43 + 30 * 0 /\ Len(ds) = 5 + 4 * 0
    BY <1>16
  <2> QED
    BY <1>16, <1>17, <2>1, <2>2 DEF Listed
<1>19. PICK f, g : f = <<7, CS_INTERFACE, 1, 0, 1>> /\ g = Word(MS_TOTAL_LEN)
  OBVIOUS
<1>20. f \in Seq(Int) /\ g \in Seq(Int)
  <2>1. MS_TOTAL_LEN = 247
    BY DEF MS_TOTAL_LEN, NUM_MIDI_PORTS, JACKS_PER_PORT_LEN
  <2>2. f = <<7, 36, 1, 0, 1>> /\ g = <<247, 0>>
    BY <1>19, <2>1 DEF CS_INTERFACE, Word
  <2> QED
    BY <2>2
<1>21. z \in Seq(Int)
  BY <1>13 DEF Holds, Bytes
<1>22. w = (z \o f) \o g
  <2>1. e = f \o g
    BY <1>1, <1>19 DEF Opening
  <2> QED
    BY <1>14, <1>20, <1>21, <2>1, Regrouped DEF Regroups
<1>23. /\ a = usb_config_descriptor(CONFIG_TOTAL_LEN, 2, 0)
       /\ b = usb_interface_descriptor(0, 0, 1, 1, 0, 0)
       /\ c = <<9, CS_INTERFACE, 1, 0, 1, 9, 0, 1, 1>>
       /\ d = usb_interface_descriptor(1, 2, 1, 3, 0, 0)
  BY <1>1 DEF Opening
<1> QED
  BY <1>5, <1>8, <1>11, <1>18, <1>19, <1>22, <1>23

ConfigurationIs(ds) ==
    /\ Len(ds) = 41
    /\ \A k \in 1 .. 5 : ds[k] = Opening[k]
    /\ \A p \in 0 .. 7, q \in 1 .. 4 : ds[5 + 4 * p + q] = PortJacks(p)[q]
    /\ EndpointListed(<<ds[38], ds[39]>>, 2, <<1, 5, 9, 13, 17, 21, 25, 29>>)
    /\ EndpointListed(<<ds[40], ds[41]>>, 130, <<3, 7, 11, 15, 19, 23, 27, 31>>)

WithEndpoint(c, b, ds, address, jacks) ==
    \E es : /\ Holds(c, es) /\ Len(c) = Len(b) + 21 /\ Len(es) = Len(ds) + 2
            /\ \A k \in 1 .. Len(ds) : es[k] = ds[k]
            /\ EndpointListed(<<es[Len(ds) + 1], es[Len(ds) + 2]>>, address, jacks)

\* An endpoint more, with its list of jacks.
LEMMA EndpointNext ==
    ASSUME NEW b, NEW ds, Holds(b, ds), NEW address \in Int, NEW jacks \in Seq(Int), Len(jacks) = 8
    PROVE  WithEndpoint(b \o AudioEndpoint(address, jacks), b, ds, address, jacks)
<1>1. PICK e, f : e = EndpointPair(address, jacks)[1] /\ f = EndpointPair(address, jacks)[2]
  OBVIOUS
<1>2. /\ IsWhole(e) /\ IsWhole(f) /\ Len(e) = 9 /\ Len(f) = 12
      /\ EndpointListed(<<e, f>>, address, jacks)
  BY <1>1, EndpointFields DEF EndpointListed
<1>3. Longer(b, ds, e)
  BY <1>2, HeldLonger
<1>4. PICK x : x = b \o e
  OBVIOUS
<1>5. PICK cs : /\ Holds(x, cs) /\ Len(x) = Len(b) + 9 /\ Len(cs) = Len(ds) + 1
                /\ cs[Len(ds) + 1] = e /\ \A k \in 1 .. Len(ds) : cs[k] = ds[k]
  BY <1>2, <1>3, <1>4 DEF Longer
<1>6. Longer(x, cs, f)
  BY <1>2, <1>5, HeldLonger
<1>7. PICK y : y = x \o f
  OBVIOUS
<1>8. PICK es : /\ Holds(y, es) /\ Len(y) = Len(x) + 12 /\ Len(es) = Len(cs) + 1
                /\ es[Len(cs) + 1] = f /\ \A k \in 1 .. Len(cs) : es[k] = cs[k]
  BY <1>2, <1>6, <1>7 DEF Longer
<1>9. Len(b) \in Nat /\ Len(ds) \in Nat /\ b \in Seq(Int) /\ x \in Seq(Int)
  BY <1>5 DEF Holds, Bytes
<1>10. Len(y) = Len(b) + 21 /\ Len(es) = Len(ds) + 2
  BY <1>5, <1>8, <1>9
<1>11. es[Len(ds) + 2] = f /\ es[Len(ds) + 1] = e
  <2>1. Len(cs) + 1 = Len(ds) + 2 /\ Len(ds) + 1 \in 1 .. Len(cs)
    BY <1>5, <1>9
  <2> QED
    BY <1>5, <1>8, <2>1
<1>12. \A k \in 1 .. Len(ds) : es[k] = ds[k]
  BY <1>5, <1>8, <1>9
<1>13. b \o AudioEndpoint(address, jacks) = y
  <2>1. PICK h : h = <<CS_EP_LEN(NUM_MIDI_PORTS), CS_ENDPOINT, 1, NUM_MIDI_PORTS>>
    OBVIOUS
  <2>2. h \in Seq(Int)
    <3>1. h = <<12, 37, 1, 8>>
      BY <2>1 DEF CS_EP_LEN, NUM_MIDI_PORTS, CS_ENDPOINT
    <3> QED
      BY <3>1
  <2>3. e = <<9>> \o Tail(usb_endpoint_descriptor(address)) \o <<0, 0>>
    BY <1>1 DEF EndpointPair
  <2>4. f = h \o jacks
    BY <1>1, <2>1 DEF EndpointPair
  <2>5. AudioEndpoint(address, jacks) = (e \o h) \o jacks
    BY <2>1, <2>3 DEF AudioEndpoint
  <2>6. e \in Seq(Int) /\ f \in Seq(Int)
    BY <1>2 DEF IsWhole, Bytes
  <2>7. (e \o h) \o jacks = e \o f
    BY <2>2, <2>4, <2>6, Regrouped DEF Regroups
  <2>8. b \o (e \o f) = (b \o e) \o f
    BY <1>9, <2>6, Regrouped DEF Regroups
  <2> QED
    BY <1>4, <1>7, <2>5, <2>7, <2>8
<1> QED
  BY <1>2, <1>8, <1>10, <1>11, <1>12, <1>13 DEF WithEndpoint

\* What the host finds in the configuration.
LEMMA ConfigurationFound ==
    /\ ConfigurationIs(ConfigDescriptors) /\ Holds(config_block, ConfigDescriptors)
    /\ Len(config_block) = 325
<1>1. PICK c0, d0 : /\ Listed(c0, d0, 0)
                    /\ c0 = usb_config_descriptor(CONFIG_TOTAL_LEN, 2, 0)
                                \o usb_interface_descriptor(0, 0, 1, 1, 0, 0)
                                \o <<9, CS_INTERFACE, 1, 0, 1, 9, 0, 1, 1>>
                                \o usb_interface_descriptor(1, 2, 1, 3, 0, 0)
                                \o <<7, CS_INTERFACE, 1, 0, 1>> \o Word(MS_TOTAL_LEN)
  BY OpeningHeld
<1>2. PICK c1, d1 : c1 = c0 \o MIDI_PORT_JACKS(0) /\ Listed(c1, d1, 1)
  BY <1>1, ListedNext, 0 \in Nat, 0 + 1 = 1
<1>3. PICK c2, d2 : c2 = c1 \o MIDI_PORT_JACKS(1) /\ Listed(c2, d2, 2)
  BY <1>2, ListedNext, 1 \in Nat, 1 + 1 = 2
<1>4. PICK c3, d3 : c3 = c2 \o MIDI_PORT_JACKS(2) /\ Listed(c3, d3, 3)
  BY <1>3, ListedNext, 2 \in Nat, 2 + 1 = 3
<1>5. PICK c4, d4 : c4 = c3 \o MIDI_PORT_JACKS(3) /\ Listed(c4, d4, 4)
  BY <1>4, ListedNext, 3 \in Nat, 3 + 1 = 4
<1>6. PICK c5, d5 : c5 = c4 \o MIDI_PORT_JACKS(4) /\ Listed(c5, d5, 5)
  BY <1>5, ListedNext, 4 \in Nat, 4 + 1 = 5
<1>7. PICK c6, d6 : c6 = c5 \o MIDI_PORT_JACKS(5) /\ Listed(c6, d6, 6)
  BY <1>6, ListedNext, 5 \in Nat, 5 + 1 = 6
<1>8. PICK c7, d7 : c7 = c6 \o MIDI_PORT_JACKS(6) /\ Listed(c7, d7, 7)
  BY <1>7, ListedNext, 6 \in Nat, 6 + 1 = 7
<1>9. PICK c8, d8 : c8 = c7 \o MIDI_PORT_JACKS(7) /\ Listed(c8, d8, 8)
  BY <1>8, ListedNext, 7 \in Nat, 7 + 1 = 8
<1>10. Holds(c8, d8) /\ Len(c8) = 283 /\ Len(d8) = 37
  BY <1>9 DEF Listed
<1>11. PICK out, in : /\ out = <<1, 5, 9, 13, 17, 21, 25, 29>>
                      /\ in = <<3, 7, 11, 15, 19, 23, 27, 31>>
  OBVIOUS
<1>12. out \in Seq(Int) /\ Len(out) = 8 /\ in \in Seq(Int) /\ Len(in) = 8
  BY <1>11
<1>13. PICK c9 : c9 = c8 \o AudioEndpoint(2, out)
  OBVIOUS
<1>14. PICK d9 : /\ Holds(c9, d9) /\ Len(c9) = 304 /\ Len(d9) = 39
                 /\ \A k \in 1 .. 37 : d9[k] = d8[k]
                 /\ EndpointListed(<<d9[38], d9[39]>>, 2, out)
  <2>1. PICK es : /\ Holds(c9, es) /\ Len(c9) = 283 + 21 /\ Len(es) = 37 + 2
                  /\ \A k \in 1 .. 37 : es[k] = d8[k]
                  /\ EndpointListed(<<es[37 + 1], es[37 + 2]>>, 2, out)
    <3>1. WithEndpoint(c9, c8, d8, 2, out)
      BY <1>10, <1>12, <1>13, 2 \in Int, EndpointNext
    <3> QED
      BY <1>10, <3>1 DEF WithEndpoint
  <2> QED
    BY <2>1
<1>15. PICK c10 : c10 = c9 \o AudioEndpoint(130, in)
  OBVIOUS
<1>16. PICK ds : /\ Holds(c10, ds) /\ Len(c10) = 325 /\ Len(ds) = 41
                 /\ \A k \in 1 .. 39 : ds[k] = d9[k]
                 /\ EndpointListed(<<ds[40], ds[41]>>, 130, in)
  <2>1. PICK es : /\ Holds(c10, es) /\ Len(c10) = 304 + 21 /\ Len(es) = 39 + 2
                  /\ \A k \in 1 .. 39 : es[k] = d9[k]
                  /\ EndpointListed(<<es[39 + 1], es[39 + 2]>>, 130, in)
    <3>1. WithEndpoint(c10, c9, d9, 130, in)
      BY <1>12, <1>14, <1>15, 130 \in Int, EndpointNext
    <3> QED
      <4>1. Len(c9) = 304 /\ Len(d9) = 39
        BY <1>14
      <4>2. PICK es : /\ Holds(c10, es) /\ Len(c10) = Len(c9) + 21 /\ Len(es) = Len(d9) + 2
                      /\ \A k \in 1 .. Len(d9) : es[k] = d9[k]
                      /\ EndpointListed(<<es[Len(d9) + 1], es[Len(d9) + 2]>>, 130, in)
        BY <3>1 DEF WithEndpoint
      <4> QED
        BY <4>1, <4>2
  <2> QED
    BY <2>1
<1>17. \A k \in 1 .. 37 : ds[k] = d8[k]
  BY <1>14, <1>16
<1>18. \A k \in 1 .. 5 : ds[k] = Opening[k]
  <2>1. \A k \in 1 .. 5 : d8[k] = Opening[k]
    BY <1>9 DEF Listed
  <2>2. \A k \in 1 .. 5 : ds[k] = d8[k]
    BY <1>17
  <2> QED
    BY <2>1, <2>2
<1>19. \A p \in 0 .. 7, q \in 1 .. 4 : ds[5 + 4 * p + q] = PortJacks(p)[q]
  <2> SUFFICES ASSUME NEW p \in 0 .. 7, NEW q \in 1 .. 4
               PROVE  ds[5 + 4 * p + q] = PortJacks(p)[q]
    OBVIOUS
  <2>1. p \in 0 .. 8 - 1 /\ 5 + 4 * p + q \in 1 .. 37
    OBVIOUS
  <2>2. d8[5 + 4 * p + q] = PortJacks(p)[q]
    BY <1>9, <2>1 DEF Listed
  <2> QED
    BY <1>17, <2>1, <2>2
<1>20. ds[38] = d9[38] /\ ds[39] = d9[39]
  BY <1>16
<1>21. ConfigurationIs(ds)
  BY <1>11, <1>14, <1>16, <1>18, <1>19, <1>20 DEF ConfigurationIs
<1>22. config_block = c10
  BY <1>1, <1>2, <1>3, <1>4, <1>5, <1>6, <1>7, <1>8, <1>9, <1>11, <1>13, <1>15
     DEF config_block, EP2_OUT, EP2_IN
<1>23. ConfigDescriptors = ds
  BY <1>16, <1>22, FindsWhatIsHeld DEF ConfigDescriptors
<1> QED
  BY <1>16, <1>21, <1>22, <1>23

-----------------------------------------------------------------------------
(* What it says of itself.                                                 *)

\* Types and lengths of the 41 descriptors.
LEMMA Types ==
    LET ds == ConfigDescriptors IN
    /\ DOMAIN ds = 1 .. 41
    /\ \A k \in 1 .. 41 : Len(ds[k]) >= 2 /\ Len(ds[k]) = ds[k][1]
    /\ Places(ds, TYPE_INTERFACE) = {2, 4}
    /\ Places(ds, TYPE_ENDPOINT) = {38, 40}
    /\ Places(ds, CS_ENDPOINT) = {39, 41}
    /\ Places(ds, CS_INTERFACE) = {3} \cup (5 .. 37)
<1>1. PICK ds : ds = ConfigDescriptors
  OBVIOUS
<1>2. ConfigurationIs(ds) /\ Holds(config_block, ds)
  BY <1>1, ConfigurationFound
<1>3. ds \in Seq(Bytes) /\ Len(ds) = 41 /\ \A k \in 1 .. 41 : IsWhole(ds[k])
  BY <1>2 DEF Holds, ConfigurationIs
<1>4. DOMAIN ds = 1 .. 41 /\ \A k \in 1 .. 41 : Len(ds[k]) >= 2 /\ Len(ds[k]) = ds[k][1]
  BY <1>3 DEF IsWhole
<1>5. ds[1][2] = 2 /\ ds[2][2] = 4 /\ ds[3][2] = 36 /\ ds[4][2] = 4 /\ ds[5][2] = 36
  <2>1. ds[1] = Opening[1] /\ ds[2] = Opening[2] /\ ds[3] = Opening[3] /\ ds[4] = Opening[4]
          /\ ds[5] = Opening[5]
    BY <1>2 DEF ConfigurationIs
  <2> QED
    BY <2>1, OpeningFields
<1>6. ASSUME NEW k \in 6 .. 37 PROVE ds[k][2] = 36
  <2>1. PICK p \in 0 .. 7, q \in 1 .. 4 : k = 5 + 4 * p + q
    <3>1. \E p \in 0 .. 7 : \E q \in 1 .. 4 : k = 5 + 4 * p + q
      OBVIOUS
    <3> QED
      BY <3>1
  <2>2. ds[k] = PortJacks(p)[q]
    BY <1>2, <2>1 DEF ConfigurationIs
  <2>3. q = 1 \/ q = 2 \/ q = 3 \/ q = 4
    OBVIOUS
  <2>4. p \in Nat
    OBVIOUS
  <2>5. PICK j : j = PortJacks(p)[q]
    OBVIOUS
  <2>6. j[2] = 36
    <3>1. /\ PortJacks(p)[1] = <<6, 36, 2, 1, 4*p + 1, 0>>
          /\ PortJacks(p)[2] = <<6, 36, 2, 2, 4*p + 2, 0>>
          /\ PortJacks(p)[3] = <<9, 36, 3, 1, 4*p + 3, 1, 4*p + 2, 1, 0>>
          /\ PortJacks(p)[4] = <<9, 36, 3, 2, 4*p + 4, 1, 4*p + 1, 1, 0>>
      BY <2>4, JackFields
    <3>2. CASE q = 1
      BY <2>5, <3>1, <3>2
    <3>3. CASE q = 2
      BY <2>5, <3>1, <3>3
    <3>4. CASE q = 3
      BY <2>5, <3>1, <3>4
    <3>5. CASE q = 4
      BY <2>5, <3>1, <3>5
    <3> QED
      BY <2>3, <3>2, <3>3, <3>4, <3>5
  <2> QED
    BY <2>2, <2>5, <2>6
<1>7. ds[38][2] = 5 /\ ds[39][2] = 37 /\ ds[40][2] = 5 /\ ds[41][2] = 37
  BY <1>2 DEF ConfigurationIs, EndpointListed
<1>8. PICK type : type = [k \in 1 .. 41 |-> ds[k][2]]
  OBVIOUS
<1>9. \A k \in 1 .. 41 : type[k] = IF k = 2 \/ k = 4 THEN 4
                                   ELSE IF k = 38 \/ k = 40 THEN 5
                                   ELSE IF k = 39 \/ k = 41 THEN 37
                                   ELSE IF k = 1 THEN 2 ELSE 36
  <2> SUFFICES ASSUME NEW k \in 1 .. 41
               PROVE  ds[k][2] = IF k = 2 \/ k = 4 THEN 4
                                 ELSE IF k = 38 \/ k = 40 THEN 5
                                 ELSE IF k = 39 \/ k = 41 THEN 37
                                 ELSE IF k = 1 THEN 2 ELSE 36
    BY <1>8
  <2>1. CASE k \in 6 .. 37
    BY <1>6, <2>1
  <2>2. CASE k \notin 6 .. 37
    <3>1. k = 1 \/ k = 2 \/ k = 3 \/ k = 4 \/ k = 5 \/ k = 38 \/ k = 39 \/ k = 40 \/ k = 41
      BY <2>2
    <3> QED
      BY <1>5, <1>7, <3>1
  <2> QED
    BY <2>1, <2>2
<1>10. \A x : Places(ds, x) = {k \in 1 .. 41 : type[k] = x}
  BY <1>4, <1>8 DEF Places
<1>11. {k \in 1 .. 41 : type[k] = 4} = {2, 4} /\ {k \in 1 .. 41 : type[k] = 5} = {38, 40}
  BY <1>9
<1>12. {k \in 1 .. 41 : type[k] = 37} = {39, 41}
  BY <1>9
<1>13. {k \in 1 .. 41 : type[k] = 36} = {3} \cup (5 .. 37)
  BY <1>9
<1> QED
  BY <1>1, <1>4, <1>10, <1>11, <1>12, <1>13
     DEF TYPE_INTERFACE, TYPE_ENDPOINT, CS_INTERFACE, CS_ENDPOINT

-----------------------------------------------------------------------------
(* The class-specific bytes.                                               *)

Adds(f, ds, places, n) == f[n - 1] + IF n \in places THEN Len(ds[n]) ELSE 0

Totals(f, ds, places) ==
    f = [n \in 0 .. Len(ds) |-> IF n = 0 THEN 0 ELSE Adds(f, ds, places, n)]

LEMMA TotalsExist ==
    ASSUME NEW ds, Len(ds) \in Nat, NEW places
    PROVE  \E f : Totals(f, ds, places)
<1> DEFINE D == 0 .. Len(ds)
           Good(f, k) == f[k] = IF k = 0 THEN 0 ELSE Adds(f, ds, places, k)
           To(f, n) == \A k \in D : k <= n => Good(f, k)
           T == {n \in Nat : \E f : f = [k \in D |-> f[k]] /\ To(f, n)}
<1>1. 0 \in T
  <2>1. PICK f : f = [k \in D |-> 0]
    OBVIOUS
  <2>2. f = [k \in D |-> f[k]] /\ To(f, 0)
    BY <2>1
  <2> QED
    BY <2>2
<1>2. ASSUME NEW n \in T PROVE n + 1 \in T
  <2>0. n \in Nat /\ 0 \in D
    OBVIOUS
  <2>1. PICK f : f = [k \in D |-> f[k]] /\ To(f, n)
    OBVIOUS
  <2>2. PICK x : x = Adds(f, ds, places, n + 1)
    OBVIOUS
  <2>3. PICK g : g = [k \in D |-> IF k = n + 1 THEN x ELSE f[k]]
    OBVIOUS
  <2>4. ASSUME NEW k \in D, k <= n + 1 PROVE Good(g, k)
    <3>1. CASE k = 0
      <4>1. k <= n /\ k # n + 1
        BY <2>0, <3>1
      <4>2. Good(f, k) /\ g[k] = f[k]
        BY <2>1, <2>3, <4>1
      <4> QED
        BY <3>1, <4>2
    <3>2. CASE k # 0 /\ k <= n
      <4>1. k - 1 \in D /\ k - 1 # n + 1 /\ k # n + 1
        BY <2>0, <3>2
      <4>2. g[k] = f[k] /\ g[k - 1] = f[k - 1] /\ Good(f, k)
        BY <2>1, <2>3, <3>2, <4>1
      <4> QED
        BY <3>2, <4>2 DEF Adds
    <3>3. CASE k = n + 1
      <4>1. k - 1 = n /\ n \in D /\ n # n + 1 /\ k # 0
        BY <2>0, <3>3
      <4>2. g[k] = x /\ g[n] = f[n]
        BY <2>3, <3>3, <4>1
      <4>3. Adds(g, ds, places, k) = x
        BY <2>2, <3>3, <4>1, <4>2 DEF Adds
      <4> QED
        BY <4>1, <4>2, <4>3
    <3> QED
      BY <2>0, <2>4, <3>1, <3>2, <3>3
  <2>5. To(g, n + 1)
    BY <2>4
  <2>6. g = [k \in D |-> g[k]]
    BY <2>3
  <2>7. n + 1 \in Nat
    BY <2>0
  <2> HIDE DEF To
  <2> QED
    BY <2>5, <2>6, <2>7
<1>3. T = Nat
  <2> HIDE DEF T
  <2>1. T \subseteq Nat
    BY DEF T
  <2> QED
    BY <1>1, <1>2, <2>1, SetInduction
<1>4. PICK f : f = [k \in D |-> f[k]] /\ To(f, Len(ds))
  BY <1>3
<1>5. \A k \in D : f[k] = IF k = 0 THEN 0 ELSE Adds(f, ds, places, k)
  <2> SUFFICES ASSUME NEW k \in D PROVE Good(f, k)
    OBVIOUS
  <2>1. k <= Len(ds)
    OBVIOUS
  <2> QED
    BY <1>4, <2>1
<1>6. Totals(f, ds, places)
  BY <1>4, <1>5 DEF Totals
<1> QED
  BY <1>6

\* The total, one place at a time.
Sums(f, ds, places) ==
    /\ f[0] = 0
    /\ \A n \in 1 .. Len(ds) : f[n] = f[n - 1] + IF n \in places THEN Len(ds[n]) ELSE 0

SumUp(ds, places) == \E f : Sums(f, ds, places) /\ TotalLength(ds, places) = f[Len(ds)]

LEMMA TotalIs ==
    ASSUME NEW ds, Len(ds) \in Nat, NEW places
    PROVE  SumUp(ds, places)
<1>1. PICK f : f = CHOOSE g : Totals(g, ds, places)
  OBVIOUS
<1>2. Totals(f, ds, places)
  BY <1>1, TotalsExist, Zenon
<1>3. TotalLength(ds, places) = f[Len(ds)]
  BY <1>1 DEF TotalLength, Totals, Adds
<1>4. \A n \in 0 .. Len(ds) : f[n] = IF n = 0 THEN 0 ELSE Adds(f, ds, places, n)
  BY <1>2 DEF Totals
<1>5. f[0] = 0
  BY <1>4
<1>6. \A n \in 1 .. Len(ds) : f[n] = Adds(f, ds, places, n)
  <2> SUFFICES ASSUME NEW n \in 1 .. Len(ds) PROVE f[n] = Adds(f, ds, places, n)
    OBVIOUS
  <2>1. n \in 0 .. Len(ds) /\ n # 0
    OBVIOUS
  <2> QED
    BY <1>4, <2>1
<1>7. Sums(f, ds, places)
  BY <1>5, <1>6 DEF Sums, Adds
<1> QED
  BY <1>3, <1>7 DEF SumUp

\* Other descriptors add nothing.
NoneAfter(places, m, n) == \A k \in places : ~(m < k /\ k <= n)
Unchanged(f, m, n) == f[n] = f[m]

LEMMA TotalFlat ==
    ASSUME NEW ds, Len(ds) \in Nat, NEW places, NEW f, Sums(f, ds, places),
           NEW m \in 0 .. Len(ds), f[m] \in Nat, NEW n \in m .. Len(ds),
           NoneAfter(places, m, n)
    PROVE  Unchanged(f, m, n)
<1> USE DEF NoneAfter, Unchanged
<1> DEFINE T == {d \in Nat : m + d <= n => f[m + d] = f[m]}
<1>1. 0 \in T
  OBVIOUS
<1>2. ASSUME NEW d \in T PROVE d + 1 \in T
  <2>0. d \in Nat
    OBVIOUS
  <2> SUFFICES ASSUME m + (d + 1) <= n PROVE f[m + (d + 1)] = f[m]
    BY <2>0
  <2>1. m + d <= n
    BY <2>0
  <2>2. f[m + d] = f[m]
    BY <2>1
  <2>3. PICK k : k = m + (d + 1)
    OBVIOUS
  <2>4. k \in 1 .. Len(ds) /\ k - 1 = m + d /\ m < k /\ k <= n
    BY <2>0, <2>3
  <2>5. k \notin places
    BY <2>4
  <2>6. f[k] = f[k - 1] + 0
    BY <2>4, <2>5 DEF Sums
  <2> QED
    BY <2>2, <2>3, <2>4, <2>6
<1>3. T = Nat
  <2> HIDE DEF T
  <2>1. T \subseteq Nat
    BY DEF T
  <2> QED
    BY <1>1, <1>2, <2>1, SetInduction
<1>4. PICK d : d = n - m
  OBVIOUS
<1>5. d \in Nat /\ m + d = n
  BY <1>4
<1>6. d \in T
  BY <1>3, <1>5
<1> QED
  BY <1>5, <1>6

\* A port's jacks are 30 bytes of descriptors.
LEMMA TotalOfPort ==
    ASSUME NEW f, Sums(f, ConfigDescriptors, 5 .. 37), NEW p \in 0 .. 7,
           f[5 + 4 * p] \in Nat
    PROVE  f[5 + 4 * p + 4] = f[5 + 4 * p] + 30
<1>1. PICK ds, at : ds = ConfigDescriptors /\ at = 5 + 4 * p
  OBVIOUS
<1>2. ConfigurationIs(ds)
  BY <1>1, ConfigurationFound
<1>3. PICK js : js = PortJacks(p)
  OBVIOUS
<1>4. Len(js[1]) = 6 /\ Len(js[2]) = 6 /\ Len(js[3]) = 9 /\ Len(js[4]) = 9
  <2>1. p \in Nat
    OBVIOUS
  <2>2. js[1] = <<6, 36, 2, 1, 4*p + 1, 0>> /\ js[2] = <<6, 36, 2, 2, 4*p + 2, 0>>
    BY <1>3, <2>1, JackFields
  <2>3. /\ js[3] = <<9, 36, 3, 1, 4*p + 3, 1, 4*p + 2, 1, 0>>
        /\ js[4] = <<9, 36, 3, 2, 4*p + 4, 1, 4*p + 1, 1, 0>>
    BY <1>3, <2>1, JackFields
  <2> QED
    BY <2>2, <2>3
<1>5. ds[at + 1] = js[1] /\ ds[at + 2] = js[2] /\ ds[at + 3] = js[3] /\ ds[at + 4] = js[4]
  <2>1. 1 \in 1 .. 4 /\ 2 \in 1 .. 4 /\ 3 \in 1 .. 4 /\ 4 \in 1 .. 4
    OBVIOUS
  <2> QED
    BY <1>1, <1>2, <1>3, <2>1 DEF ConfigurationIs
<1>6. at \in 5 .. 33 /\ Len(ds) = 41
  BY <1>1, <1>2 DEF ConfigurationIs
<1>7. \A n \in 5 .. 37 : n # 5 => f[n] = f[n - 1] + Len(ds[n])
  <2> SUFFICES ASSUME NEW n \in 5 .. 37 PROVE f[n] = f[n - 1] + Len(ds[n])
    OBVIOUS
  <2>1. Sums(f, ds, 5 .. 37)
    BY <1>1
  <2>2. n \in 1 .. Len(ds)
    BY <1>6
  <2> QED
    BY <2>1, <2>2 DEF Sums
<1>8. /\ at + 1 \in 5 .. 37 /\ at + 1 # 5 /\ (at + 1) - 1 = at
      /\ at + 2 \in 5 .. 37 /\ at + 2 # 5 /\ (at + 2) - 1 = at + 1
      /\ at + 3 \in 5 .. 37 /\ at + 3 # 5 /\ (at + 3) - 1 = at + 2
      /\ at + 4 \in 5 .. 37 /\ at + 4 # 5 /\ (at + 4) - 1 = at + 3
  BY <1>6
<1>9. f[at + 1] = f[at] + 6
  BY <1>4, <1>5, <1>7, <1>8
<1>10. f[at + 2] = f[at + 1] + 6
  BY <1>4, <1>5, <1>7, <1>8
<1>11. f[at + 3] = f[at + 2] + 9
  BY <1>4, <1>5, <1>7, <1>8
<1>12. f[at + 4] = f[at + 3] + 9
  BY <1>4, <1>5, <1>7, <1>8
<1>13. f[at] \in Nat
  BY <1>1
<1> QED
  BY <1>1, <1>9, <1>10, <1>11, <1>12, <1>13

LEMMA TotalsAnnounced ==
    /\ TotalLength(ConfigDescriptors, {3}) = 9
    /\ TotalLength(ConfigDescriptors, 5 .. 37) = 247
<1>1. PICK ds : ds = ConfigDescriptors
  OBVIOUS
<1>2. Len(ds) = 41 /\ Len(ds[3]) = 9 /\ Len(ds[5]) = 7
  <2>1. ConfigurationIs(ds)
    BY <1>1, ConfigurationFound
  <2>2. Len(ds) = 41 /\ ds[3] = Opening[3] /\ ds[5] = Opening[5]
    BY <2>1 DEF ConfigurationIs
  <2> QED
    BY <2>2, OpeningFields
<1>3. TotalLength(ds, {3}) = 9
  <2>0. PICK places : places = {3}
    OBVIOUS
  <2>1. PICK f : Sums(f, ds, places) /\ TotalLength(ds, places) = f[41]
    <3>1. Len(ds) \in Nat
      BY <1>2
    <3>2. SumUp(ds, places)
      BY <3>1, TotalIs
    <3> QED
      BY <1>2, <3>2 DEF SumUp
  <2>2. f[0] = 0 /\ f[3] = f[2] + Len(ds[3])
    <3>1. 3 \in 1 .. Len(ds) /\ 3 \in places /\ 3 - 1 = 2
      BY <1>2, <2>0
    <3> QED
      BY <2>1, <3>1 DEF Sums
  <2>3. f[2] = f[0]
    <3>1. 0 \in 0 .. Len(ds) /\ 2 \in 0 .. Len(ds) /\ Len(ds) \in Nat /\ f[0] \in Nat
      BY <1>2, <2>2
    <3>2. NoneAfter(places, 0, 2)
      BY <2>0 DEF NoneAfter
    <3>3. Unchanged(f, 0, 2)
      BY <2>1, <3>1, <3>2, TotalFlat
    <3> QED
      BY <3>3 DEF Unchanged
  <2>4. f[3] = 9
    BY <1>2, <2>2, <2>3
  <2>5. f[41] = f[3]
    <3>1. 3 \in 0 .. Len(ds) /\ 41 \in 3 .. Len(ds) /\ Len(ds) \in Nat /\ f[3] \in Nat
      BY <1>2, <2>4
    <3>2. NoneAfter(places, 3, 41)
      BY <2>0 DEF NoneAfter
    <3>3. Unchanged(f, 3, 41)
      BY <2>1, <3>1, <3>2, TotalFlat
    <3> QED
      BY <3>3 DEF Unchanged
  <2> QED
    BY <2>0, <2>1, <2>4, <2>5
<1>4. TotalLength(ds, 5 .. 37) = 247
  <2>0. PICK places : places = 5 .. 37
    OBVIOUS
  <2>1. PICK f : Sums(f, ds, places) /\ TotalLength(ds, places) = f[41]
    <3>1. Len(ds) \in Nat
      BY <1>2
    <3>2. SumUp(ds, places)
      BY <3>1, TotalIs
    <3> QED
      BY <1>2, <3>2 DEF SumUp
  <2>2. f[0] = 0 /\ f[5] = f[4] + Len(ds[5])
    <3>1. 5 \in 1 .. Len(ds) /\ 5 \in places /\ 5 - 1 = 4
      BY <1>2, <2>0
    <3> QED
      BY <2>1, <3>1 DEF Sums
  <2>3. f[4] = f[0]
    <3>1. 0 \in 0 .. Len(ds) /\ 4 \in 0 .. Len(ds) /\ Len(ds) \in Nat /\ f[0] \in Nat
      BY <1>2, <2>2
    <3>2. NoneAfter(places, 0, 4)
      BY <2>0 DEF NoneAfter
    <3>3. Unchanged(f, 0, 4)
      BY <2>1, <3>1, <3>2, TotalFlat
    <3> QED
      BY <3>3 DEF Unchanged
  <2>4. f[5] = 7
    BY <1>2, <2>2, <2>3
  <2>5. \A p \in 0 .. 7 : f[5 + 4 * p] \in Nat => f[5 + 4 * p + 4] = f[5 + 4 * p] + 30
    BY <1>1, <2>0, <2>1, TotalOfPort
  <2>6. f[9] = 37
    BY <2>4, <2>5, 0 \in 0 .. 7, 5 + 4 * 0 = 5, 5 + 4 * 0 + 4 = 9
  <2>7. f[13] = 67
    BY <2>5, <2>6, 1 \in 0 .. 7, 5 + 4 * 1 = 9, 5 + 4 * 1 + 4 = 13
  <2>8. f[17] = 97
    BY <2>5, <2>7, 2 \in 0 .. 7, 5 + 4 * 2 = 13, 5 + 4 * 2 + 4 = 17
  <2>9. f[21] = 127
    BY <2>5, <2>8, 3 \in 0 .. 7, 5 + 4 * 3 = 17, 5 + 4 * 3 + 4 = 21
  <2>10. f[25] = 157
    BY <2>5, <2>9, 4 \in 0 .. 7, 5 + 4 * 4 = 21, 5 + 4 * 4 + 4 = 25
  <2>11. f[29] = 187
    BY <2>5, <2>10, 5 \in 0 .. 7, 5 + 4 * 5 = 25, 5 + 4 * 5 + 4 = 29
  <2>12. f[33] = 217
    BY <2>5, <2>11, 6 \in 0 .. 7, 5 + 4 * 6 = 29, 5 + 4 * 6 + 4 = 33
  <2>13. f[37] = 247
    BY <2>5, <2>12, 7 \in 0 .. 7, 5 + 4 * 7 = 33, 5 + 4 * 7 + 4 = 37
  <2>14. f[41] = f[37]
    <3>1. 37 \in 0 .. Len(ds) /\ 41 \in 37 .. Len(ds) /\ Len(ds) \in Nat /\ f[37] \in Nat
      BY <1>2, <2>13
    <3>2. NoneAfter(places, 37, 41)
      BY <2>0 DEF NoneAfter
    <3>3. Unchanged(f, 37, 41)
      BY <2>1, <3>1, <3>2, TotalFlat
    <3> QED
      BY <3>3 DEF Unchanged
  <2> QED
    BY <2>0, <2>1, <2>13, <2>14
<1> QED
  BY <1>1, <1>3, <1>4

\* The configuration is what it says it is.
LEMMA WholeConfiguration == Announced(config_block) = Len(config_block)
                              /\ ConfigurationWhole(config_block)
<1>1. PICK b, ds : b = config_block /\ ds = ConfigDescriptors
  OBVIOUS
<1>2. ConfigurationIs(ds) /\ Holds(b, ds) /\ Len(b) = 325 /\ ds = Descriptors(b)
  BY <1>1, ConfigurationFound DEF ConfigDescriptors
<1>3. /\ Len(ds) = 41
      /\ ds[1] = Opening[1] /\ ds[2] = Opening[2] /\ ds[3] = Opening[3]
      /\ ds[4] = Opening[4] /\ ds[5] = Opening[5]
  BY <1>2 DEF ConfigurationIs
<1>4. b[2] = 2 /\ b[3] = 69 /\ b[4] = 1 /\ b[5] = 2
  <2>1. Stands(b, 1, ds[1])
    <3>1. Len(ds) >= 1
      BY <1>3
    <3> QED
      BY <1>2, <3>1, HeldFirst
  <2>2. PICK d : d = ds[1]
    OBVIOUS
  <2>3. Len(d) = 9 /\ d[2] = 2 /\ d[3] = 69 /\ d[4] = 1 /\ d[5] = 2
    BY <1>3, <2>2, OpeningFields
  <2>4. \A j \in 1 .. 9 : b[1 - 1 + j] = d[j]
    BY <2>1, <2>2, <2>3 DEF Stands
  <2>5. b[1 - 1 + 2] = d[2] /\ b[1 - 1 + 3] = d[3] /\ b[1 - 1 + 4] = d[4] /\ b[1 - 1 + 5] = d[5]
    BY <2>4
  <2> QED
    BY <2>3, <2>5
<1>5. Announced(b) = Len(b)
  BY <1>2, <1>4 DEF Announced, TYPE_CONFIGURATION, WordAt
<1>6. /\ DOMAIN ds = 1 .. 41
      /\ \A k \in 1 .. 41 : Len(ds[k]) >= 2 /\ Len(ds[k]) = ds[k][1]
      /\ Places(ds, TYPE_INTERFACE) = {2, 4}
      /\ Places(ds, TYPE_ENDPOINT) = {38, 40}
      /\ Places(ds, CS_INTERFACE) = {3} \cup (5 .. 37)
  BY <1>1, Types
<1>7. Cardinality({2, 4}) = 2 /\ Cardinality({38, 40}) = 2 /\ Cardinality({}) = 0
  <2>1. Cardinality({2}) = 1 /\ IsFiniteSet({2}) /\ Cardinality({38}) = 1 /\ IsFiniteSet({38})
    BY FS_Singleton
  <2>2. Cardinality({2} \cup {4}) = 1 + 1
    BY <2>1, FS_AddElement
  <2>3. Cardinality({38} \cup {40}) = 1 + 1
    BY <2>1, FS_AddElement
  <2>4. {2} \cup {4} = {2, 4} /\ {38} \cup {40} = {38, 40}
    OBVIOUS
  <2> QED
    BY <2>2, <2>3, <2>4, FS_EmptySet
<1>8. Inside(ds, 2) = {3} /\ Inside(ds, 4) = 5 .. 41
  <2>1. \A i : Inside(ds, i) = {k \in 1 .. 41 : k > i /\ \A j \in {2, 4} : j > i => k < j}
    BY <1>6 DEF Inside
  <2>2. {k \in 1 .. 41 : k > 2 /\ \A j \in {2, 4} : j > 2 => k < j} = {3}
    OBVIOUS
  <2>3. {k \in 1 .. 41 : k > 4 /\ \A j \in {2, 4} : j > 4 => k < j} = 5 .. 41
    OBVIOUS
  <2> QED
    BY <2>1, <2>2, <2>3
<1>9. InterfaceWhole(ds, 2)
  <2>1. Inside(ds, 2) \cap Places(ds, CS_INTERFACE) = {3}
    BY <1>6, <1>8
  <2>2. Inside(ds, 2) \cap Places(ds, TYPE_ENDPOINT) = {}
    <3>1. {3} \cap {38, 40} = {}
      OBVIOUS
    <3> QED
      BY <1>6, <1>8, <3>1
  <2>3. ds[2][5] = 0
    BY <1>3, OpeningFields
  <2>4. ClassTotal(ds[3]) = TotalLength(ds, {3})
    <3>1. ds[3][6] = 9 /\ ds[3][7] = 0
      BY <1>3, OpeningFields
    <3>2. ClassTotal(ds[3]) = 9
      BY <3>1 DEF ClassTotal, WordAt
    <3> QED
      BY <1>1, <3>2, TotalsAnnounced
  <2> QED
    BY <1>7, <2>1, <2>2, <2>3, <2>4 DEF InterfaceWhole
<1>10. InterfaceWhole(ds, 4)
  <2>1. Inside(ds, 4) \cap Places(ds, CS_INTERFACE) = 5 .. 37
    <3>1. (5 .. 41) \cap ({3} \cup (5 .. 37)) = 5 .. 37
      OBVIOUS
    <3> QED
      BY <1>6, <1>8, <3>1
  <2>2. Inside(ds, 4) \cap Places(ds, TYPE_ENDPOINT) = {38, 40}
    <3>1. (5 .. 41) \cap {38, 40} = {38, 40}
      OBVIOUS
    <3> QED
      BY <1>6, <1>8, <3>1
  <2>3. ds[4][5] = 2
    BY <1>3, OpeningFields
  <2>4. ClassTotal(ds[5]) = TotalLength(ds, 5 .. 37)
    <3>1. ds[5][6] = 247 /\ ds[5][7] = 0
      BY <1>3, OpeningFields
    <3>2. ClassTotal(ds[5]) = 247
      BY <3>1 DEF ClassTotal, WordAt
    <3> QED
      BY <1>1, <3>2, TotalsAnnounced
  <2>5. \A header \in 5 .. 37 : (\A k \in 5 .. 37 : header <= k) => header = 5
    <3> SUFFICES ASSUME NEW header \in 5 .. 37, \A k \in 5 .. 37 : header <= k
                 PROVE  header = 5
      OBVIOUS
    <3>1. 5 \in 5 .. 37
      OBVIOUS
    <3>2. header <= 5
      BY <3>1
    <3> QED
      BY <3>2
  <2> QED
    BY <1>7, <2>1, <2>2, <2>3, <2>4, <2>5 DEF InterfaceWhole
<1>11. ConfigurationWhole(b)
  BY <1>2, <1>4, <1>5, <1>6, <1>7, <1>9, <1>10 DEF ConfigurationWhole
<1> QED
  BY <1>1, <1>5, <1>11

-----------------------------------------------------------------------------
(* The topology.                                                           *)

\* The jack at place k: what it is, its number, its source.
JackIs(k, kind, jtype, source) ==
    /\ ConfigDescriptors[k][3] = kind /\ JackType(k) = jtype /\ JackId(k) = k - 5
    /\ kind = MIDI_OUT => Source(k) = source

LEMMA JacksOfPort ==
    ASSUME NEW p \in 0 .. 7
    PROVE  /\ JackIs(6 + 4 * p, MIDI_IN, EMBEDDED, 0)
           /\ JackIs(7 + 4 * p, MIDI_IN, EXTERNAL, 0)
           /\ JackIs(8 + 4 * p, MIDI_OUT, EMBEDDED, 4 * p + 2)
           /\ JackIs(9 + 4 * p, MIDI_OUT, EXTERNAL, 4 * p + 1)
<1>1. PICK ds, js : ds = ConfigDescriptors /\ js = PortJacks(p)
  OBVIOUS
<1>2. /\ js[1] = <<6, 36, 2, 1, 4*p + 1, 0>> /\ js[2] = <<6, 36, 2, 2, 4*p + 2, 0>>
      /\ js[3] = <<9, 36, 3, 1, 4*p + 3, 1, 4*p + 2, 1, 0>>
      /\ js[4] = <<9, 36, 3, 2, 4*p + 4, 1, 4*p + 1, 1, 0>>
  BY <1>1, p \in Nat, JackFields
<1>3. \A q \in 1 .. 4 : ds[5 + 4 * p + q] = js[q]
  BY <1>1, ConfigurationFound DEF ConfigurationIs
<1>4. /\ ds[6 + 4 * p] = js[1] /\ ds[7 + 4 * p] = js[2]
      /\ ds[8 + 4 * p] = js[3] /\ ds[9 + 4 * p] = js[4]
  <2>1. /\ 1 \in 1 .. 4 /\ 5 + 4 * p + 1 = 6 + 4 * p /\ 2 \in 1 .. 4 /\ 5 + 4 * p + 2 = 7 + 4 * p
        /\ 3 \in 1 .. 4 /\ 5 + 4 * p + 3 = 8 + 4 * p /\ 4 \in 1 .. 4 /\ 5 + 4 * p + 4 = 9 + 4 * p
    OBVIOUS
  <2> QED
    BY <1>3, <2>1
<1>5. /\ 4 * p + 1 = (6 + 4 * p) - 5 /\ 4 * p + 2 = (7 + 4 * p) - 5
      /\ 4 * p + 3 = (8 + 4 * p) - 5 /\ 4 * p + 4 = (9 + 4 * p) - 5
  OBVIOUS
<1>6. JackIs(6 + 4 * p, MIDI_IN, EMBEDDED, 0)
  <2>1. js[1][3] = 2 /\ js[1][4] = 1 /\ js[1][5] = 4*p + 1
    BY <1>2
  <2> QED
    BY <1>1, <1>4, <1>5, <2>1 DEF JackIs, JackType, JackId, MIDI_IN, MIDI_OUT, EMBEDDED
<1>7. JackIs(7 + 4 * p, MIDI_IN, EXTERNAL, 0)
  <2>1. js[2][3] = 2 /\ js[2][4] = 2 /\ js[2][5] = 4*p + 2
    BY <1>2
  <2> QED
    BY <1>1, <1>4, <1>5, <2>1 DEF JackIs, JackType, JackId, MIDI_IN, MIDI_OUT, EXTERNAL
<1>8. JackIs(8 + 4 * p, MIDI_OUT, EMBEDDED, 4 * p + 2)
  <2>1. js[3][3] = 3 /\ js[3][4] = 1 /\ js[3][5] = 4*p + 3 /\ js[3][7] = 4*p + 2
    BY <1>2
  <2> QED
    BY <1>1, <1>4, <1>5, <2>1 DEF JackIs, JackType, JackId, Source, MIDI_OUT, EMBEDDED
<1>9. JackIs(9 + 4 * p, MIDI_OUT, EXTERNAL, 4 * p + 1)
  <2>1. js[4][3] = 3 /\ js[4][4] = 2 /\ js[4][5] = 4*p + 4 /\ js[4][7] = 4*p + 1
    BY <1>2
  <2> QED
    BY <1>1, <1>4, <1>5, <2>1 DEF JackIs, JackType, JackId, Source, MIDI_OUT, EXTERNAL
<1> QED
  BY <1>6, <1>7, <1>8, <1>9

\* Where the jacks of each kind and type are: one in four, port by port.
EveryFourth(first) == {first + 4 * p : p \in 0 .. 7}

LEMMA JacksAre ==
    /\ Embedded(MIDI_IN) = EveryFourth(6) /\ External(MIDI_IN) = EveryFourth(7)
    /\ Embedded(MIDI_OUT) = EveryFourth(8) /\ External(MIDI_OUT) = EveryFourth(9)
    /\ Jacks(MIDI_IN) = EveryFourth(6) \cup EveryFourth(7)
    /\ Jacks(MIDI_OUT) = EveryFourth(8) \cup EveryFourth(9)
<1>1. PICK kind, jtype : /\ kind = [k \in 1 .. 41 |-> ConfigDescriptors[k][3]]
                         /\ jtype = [k \in 1 .. 41 |-> JackType(k)]
  OBVIOUS
<1>2. /\ \A k \in EveryFourth(6) : kind[k] = 2 /\ jtype[k] = 1
      /\ \A k \in EveryFourth(7) : kind[k] = 2 /\ jtype[k] = 2
      /\ \A k \in EveryFourth(8) : kind[k] = 3 /\ jtype[k] = 1
      /\ \A k \in EveryFourth(9) : kind[k] = 3 /\ jtype[k] = 2
  <2> SUFFICES ASSUME NEW p \in 0 .. 7
               PROVE  /\ kind[6 + 4 * p] = 2 /\ jtype[6 + 4 * p] = 1
                      /\ kind[7 + 4 * p] = 2 /\ jtype[7 + 4 * p] = 2
                      /\ kind[8 + 4 * p] = 3 /\ jtype[8 + 4 * p] = 1
                      /\ kind[9 + 4 * p] = 3 /\ jtype[9 + 4 * p] = 2
    BY DEF EveryFourth
  <2>1. PICK a, b, c, d : a = 6 + 4 * p /\ b = 7 + 4 * p /\ c = 8 + 4 * p /\ d = 9 + 4 * p
    OBVIOUS
  <2>2. a \in 1 .. 41 /\ b \in 1 .. 41 /\ c \in 1 .. 41 /\ d \in 1 .. 41
    BY <2>1
  <2>3. /\ JackIs(a, MIDI_IN, EMBEDDED, 0) /\ JackIs(b, MIDI_IN, EXTERNAL, 0)
        /\ JackIs(c, MIDI_OUT, EMBEDDED, 4 * p + 2) /\ JackIs(d, MIDI_OUT, EXTERNAL, 4 * p + 1)
    BY <2>1, JacksOfPort
  <2>4. /\ kind[a] = 2 /\ jtype[a] = 1 /\ kind[b] = 2 /\ jtype[b] = 2
        /\ kind[c] = 3 /\ jtype[c] = 1 /\ kind[d] = 3 /\ jtype[d] = 2
    BY <1>1, <2>2, <2>3 DEF JackIs, MIDI_IN, MIDI_OUT, EMBEDDED, EXTERNAL
  <2> QED
    BY <2>1, <2>4
<1>3. kind[3] = 1 /\ kind[5] = 1
  <2>1. ConfigDescriptors[3] = Opening[3] /\ ConfigDescriptors[5] = Opening[5]
    BY ConfigurationFound DEF ConfigurationIs
  <2> QED
    BY <1>1, <2>1, OpeningFields
<1>4. \A k \in 6 .. 37 : k \in EveryFourth(6) \/ k \in EveryFourth(7) \/ k \in EveryFourth(8)
                           \/ k \in EveryFourth(9)
  <2> SUFFICES ASSUME NEW k \in 6 .. 37
               PROVE  \E p \in 0 .. 7 : k = 6 + 4 * p \/ k = 7 + 4 * p \/ k = 8 + 4 * p
                                          \/ k = 9 + 4 * p
    BY DEF EveryFourth
  <2> QED
    OBVIOUS
<1>5. /\ EveryFourth(6) \subseteq 6 .. 37 /\ EveryFourth(7) \subseteq 6 .. 37
      /\ EveryFourth(8) \subseteq 6 .. 37 /\ EveryFourth(9) \subseteq 6 .. 37
  BY DEF EveryFourth
<1>6. Places(ConfigDescriptors, CS_INTERFACE) = {3} \cup (5 .. 37)
  BY Types
<1>7. \A x : Jacks(x) = {k \in {3} \cup (5 .. 37) : kind[k] = x}
  BY <1>1, <1>6 DEF Jacks
<1>8. Jacks(MIDI_IN) = EveryFourth(6) \cup EveryFourth(7)
  BY <1>2, <1>3, <1>4, <1>5, <1>7 DEF MIDI_IN
<1>9. Jacks(MIDI_OUT) = EveryFourth(8) \cup EveryFourth(9)
  BY <1>2, <1>3, <1>4, <1>5, <1>7 DEF MIDI_OUT
<1>10. \A x : (\A k \in Jacks(x) : jtype[k] = JackType(k))
  <2>1. \A k \in 1 .. 41 : jtype[k] = JackType(k)
    BY <1>1
  <2>2. \A x : (\A k \in Jacks(x) : k \in 1 .. 41)
    BY <1>7
  <2> QED
    BY <2>1, <2>2
<1>11. Embedded(MIDI_IN) = EveryFourth(6) /\ External(MIDI_IN) = EveryFourth(7)
  BY <1>2, <1>8, <1>10 DEF Embedded, External, EMBEDDED, EXTERNAL
<1>12. Embedded(MIDI_OUT) = EveryFourth(8) /\ External(MIDI_OUT) = EveryFourth(9)
  BY <1>2, <1>9, <1>10 DEF Embedded, External, EMBEDDED, EXTERNAL
<1> QED
  BY <1>8, <1>9, <1>11, <1>12

\* The pth of them is the p+1st.
LEMMA CountFourths ==
    ASSUME NEW first \in Nat, NEW p \in 0 .. 7
    PROVE  Cardinality({k \in EveryFourth(first) : k <= first + 4 * p}) = p + 1
<1> DEFINE S(n) == {first + 4 * i : i \in 0 .. n}
           T == {n \in Nat : IsFiniteSet(S(n)) /\ Cardinality(S(n)) = n + 1}
<1>1. 0 \in T
  <2>1. S(0) = {first}
    OBVIOUS
  <2> HIDE DEF S
  <2>2. IsFiniteSet({first}) /\ Cardinality({first}) = 1
    BY FS_Singleton
  <2> QED
    BY <2>1, <2>2
<1>2. ASSUME NEW n \in T PROVE n + 1 \in T
  <2>0. n \in Nat /\ IsFiniteSet(S(n)) /\ Cardinality(S(n)) = n + 1
    OBVIOUS
  <2>1. S(n + 1) = S(n) \cup {first + 4 * (n + 1)}
    BY <2>0
  <2>2. first + 4 * (n + 1) \notin S(n)
    BY <2>0
  <2> HIDE DEF S
  <2>3. PICK s, x : s = S(n) /\ x = first + 4 * (n + 1)
    OBVIOUS
  <2>4. IsFiniteSet(s \cup {x}) /\ Cardinality(s \cup {x}) = (n + 1) + 1
    BY <2>0, <2>2, <2>3, FS_AddElement
  <2>5. n + 1 \in Nat
    BY <2>0
  <2> QED
    BY <2>1, <2>3, <2>4, <2>5
<1>3. T = Nat
  <2> HIDE DEF T
  <2>1. T \subseteq Nat
    BY DEF T
  <2> QED
    BY <1>1, <1>2, <2>1, SetInduction
<1>4. Cardinality(S(p)) = p + 1
  <2> HIDE DEF S
  <2>1. p \in T
    BY <1>3
  <2> QED
    BY <2>1
<1>5. {k \in EveryFourth(first) : k <= first + 4 * p} = S(p)
  <2>1. ASSUME NEW i \in 0 .. 7, first + 4 * i <= first + 4 * p PROVE i \in 0 .. p
    BY <2>1
  <2>2. ASSUME NEW i \in 0 .. p PROVE i \in 0 .. 7 /\ first + 4 * i <= first + 4 * p
    BY <2>2
  <2> QED
    BY <2>1, <2>2 DEF EveryFourth
<1> QED
  BY <1>4, <1>5

\* The jacks at the endpoints.
LEMMA CablesListed ==
    /\ Len(Cables(EP2_OUT)) = 8 /\ Len(Cables(EP2_IN)) = 8
    /\ \A c \in 1 .. 8 : Cables(EP2_OUT)[c] = 4 * c - 3 /\ Cables(EP2_IN)[c] = 4 * c - 1
<1>1. PICK ds, out, in : /\ ds = ConfigDescriptors
                         /\ out = <<1, 5, 9, 13, 17, 21, 25, 29>>
                         /\ in = <<3, 7, 11, 15, 19, 23, 27, 31>>
  OBVIOUS
<1>2. /\ ds[38][3] = 2 /\ ds[40][3] = 130
      /\ ds[39][4] = 8 /\ \A c \in 1 .. 8 : ds[39][4 + c] = out[c]
      /\ ds[41][4] = 8 /\ \A c \in 1 .. 8 : ds[41][4 + c] = in[c]
  BY <1>1, ConfigurationFound DEF ConfigurationIs, EndpointListed
<1>3. Places(ds, CS_ENDPOINT) = {39, 41}
  BY <1>1, Types
<1>4. (CHOOSE k \in Places(ds, CS_ENDPOINT) : ds[k - 1][3] = EP2_OUT) = 39
  BY <1>2, <1>3, 39 - 1 = 38, 41 - 1 = 40 DEF EP2_OUT
<1>5. (CHOOSE k \in Places(ds, CS_ENDPOINT) : ds[k - 1][3] = EP2_IN) = 41
  BY <1>2, <1>3, 39 - 1 = 38, 41 - 1 = 40 DEF EP2_IN
<1>6. ASSUME NEW d, d[4] = 8, NEW list, \A c \in 1 .. 8 : d[4 + c] = list[c],
             \A c \in 1 .. 8 : list[c] \in Int
      PROVE  /\ Len(SubSeq(d, 5, 4 + d[4])) = 8
             /\ \A c \in 1 .. 8 : SubSeq(d, 5, 4 + d[4])[c] = list[c]
  <2>1. \A i \in 5 .. 12 : d[i] \in Int
    <3> SUFFICES ASSUME NEW i \in 5 .. 12 PROVE d[i] \in Int
      OBVIOUS
    <3>1. PICK c : c = i - 4
      OBVIOUS
    <3>2. c \in 1 .. 8 /\ 4 + c = i
      BY <3>1
    <3> QED
      BY <1>6, <3>2
  <2>2. PICK x : x = SubSeq(d, 5, 12)
    OBVIOUS
  <2>3. Len(x) = 8 /\ \A c \in 1 .. 8 : x[c] = d[5 + c - 1]
    <3>1. 5 \in Int /\ 12 \in Int /\ 12 - 5 + 1 = 8
      OBVIOUS
    <3>2. Len(x) = 12 - 5 + 1 /\ \A c \in 1 .. 12 - 5 + 1 : x[c] = d[5 + c - 1]
      BY <2>1, <2>2, <3>1, SubSeqProperties
    <3> QED
      BY <3>1, <3>2
  <2>4. \A c \in 1 .. 8 : 5 + c - 1 = 4 + c
    OBVIOUS
  <2>5. 4 + d[4] = 12
    BY <1>6
  <2> QED
    BY <1>6, <2>2, <2>3, <2>4, <2>5
<1>7. \A c \in 1 .. 8 : out[c] = 4 * c - 3 /\ in[c] = 4 * c - 1
  <2>1. \A c \in 1 .. 8 : c = 1 \/ c = 2 \/ c = 3 \/ c = 4 \/ c = 5 \/ c = 6 \/ c = 7 \/ c = 8
    OBVIOUS
  <2> QED
    BY <1>1, <2>1
<1>8. \A c \in 1 .. 8 : out[c] \in Int /\ in[c] \in Int
  BY <1>7
<1>9. Cables(EP2_OUT) = SubSeq(ds[39], 5, 4 + ds[39][4])
  BY <1>1, <1>4 DEF Cables
<1>10. Cables(EP2_IN) = SubSeq(ds[41], 5, 4 + ds[41][4])
  BY <1>1, <1>5 DEF Cables
<1>11. Len(Cables(EP2_OUT)) = 8 /\ \A c \in 1 .. 8 : Cables(EP2_OUT)[c] = out[c]
  BY <1>2, <1>6, <1>8, <1>9
<1>12. Len(Cables(EP2_IN)) = 8 /\ \A c \in 1 .. 8 : Cables(EP2_IN)[c] = in[c]
  BY <1>2, <1>6, <1>8, <1>10
<1> QED
  BY <1>7, <1>11, <1>12

LEMMA SocketsAreCables == CablesAreSockets
<1>1. ASSUME NEW k \in Jacks(MIDI_IN) \cup Jacks(MIDI_OUT)
      PROVE  JackId(k) = k - 5 /\ k \in Int
  <2>1. PICK p \in 0 .. 7 : k = 6 + 4 * p \/ k = 7 + 4 * p \/ k = 8 + 4 * p \/ k = 9 + 4 * p
    BY <1>1, JacksAre DEF EveryFourth
  <2>2. k \in Int
    BY <2>1
  <2> QED
    BY <2>1, <2>2, JacksOfPort DEF JackIs
<1>2. \A j, k \in Jacks(MIDI_IN) \cup Jacks(MIDI_OUT) : JackId(j) = JackId(k) => j = k
  BY <1>1
<1>3. ASSUME NEW p \in 0 .. 7
      PROVE  /\ 6 + 4 * p \in Embedded(MIDI_IN) /\ 7 + 4 * p \in External(MIDI_IN)
             /\ 8 + 4 * p \in Embedded(MIDI_OUT) /\ 9 + 4 * p \in External(MIDI_OUT)
             /\ 6 + 4 * p \in Jacks(MIDI_IN) /\ 7 + 4 * p \in Jacks(MIDI_IN)
  BY JacksAre DEF EveryFourth
<1>4. ASSUME NEW p \in 0 .. 7
      PROVE  /\ JackId(6 + 4 * p) = 4 * p + 1 /\ JackType(6 + 4 * p) = EMBEDDED
             /\ JackId(7 + 4 * p) = 4 * p + 2 /\ JackType(7 + 4 * p) = EXTERNAL
             /\ JackId(8 + 4 * p) = 4 * p + 3 /\ JackType(8 + 4 * p) = EMBEDDED
             /\ Source(8 + 4 * p) = 4 * p + 2
             /\ JackId(9 + 4 * p) = 4 * p + 4 /\ JackType(9 + 4 * p) = EXTERNAL
             /\ Source(9 + 4 * p) = 4 * p + 1
  BY JacksOfPort DEF JackIs
<1>5. \A j \in Jacks(MIDI_OUT) : \E k \in Jacks(MIDI_IN) :
         JackId(k) = Source(j) /\ JackType(k) # JackType(j)
  <2> SUFFICES ASSUME NEW j \in Jacks(MIDI_OUT)
               PROVE  \E k \in Jacks(MIDI_IN) :
                         JackId(k) = Source(j) /\ JackType(k) # JackType(j)
    OBVIOUS
  <2>1. PICK p \in 0 .. 7 : j = 8 + 4 * p \/ j = 9 + 4 * p
    BY JacksAre DEF EveryFourth
  <2>2. CASE j = 8 + 4 * p
    BY <1>3, <1>4, <2>2 DEF EMBEDDED, EXTERNAL
  <2>3. CASE j = 9 + 4 * p
    BY <1>3, <1>4, <2>3 DEF EMBEDDED, EXTERNAL
  <2> QED
    BY <2>1, <2>2, <2>3
<1>6. ASSUME NEW p \in 0 .. 7
      PROVE  Socket(9 + 4 * p, MIDI_OUT) = p + 1 /\ Socket(7 + 4 * p, MIDI_IN) = p + 1
  BY JacksAre, CountFourths, 7 \in Nat, 9 \in Nat DEF Socket
<1>7. ASSUME NEW c \in 1 .. 8
      PROVE  /\ \E cable \in Embedded(MIDI_IN), socket \in External(MIDI_OUT) :
                   /\ JackId(cable) = Cables(EP2_OUT)[c]
                   /\ Socket(socket, MIDI_OUT) = c /\ Source(socket) = JackId(cable)
             /\ \E cable \in Embedded(MIDI_OUT), socket \in External(MIDI_IN) :
                   /\ JackId(cable) = Cables(EP2_IN)[c]
                   /\ Socket(socket, MIDI_IN) = c /\ Source(cable) = JackId(socket)
  <2>1. PICK p : p = c - 1
    OBVIOUS
  <2>2. p \in 0 .. 7 /\ p + 1 = c /\ 4 * c - 3 = 4 * p + 1 /\ 4 * c - 1 = 4 * p + 3
    BY <2>1
  <2>3. PICK i, j, k, l : i = 6 + 4 * p /\ j = 7 + 4 * p /\ k = 8 + 4 * p /\ l = 9 + 4 * p
    OBVIOUS
  <2>4. /\ i \in Embedded(MIDI_IN) /\ j \in External(MIDI_IN)
        /\ k \in Embedded(MIDI_OUT) /\ l \in External(MIDI_OUT)
    BY <1>3, <2>2, <2>3
  <2>5. /\ JackId(i) = 4 * p + 1 /\ JackId(j) = 4 * p + 2 /\ JackId(k) = 4 * p + 3
        /\ Source(k) = 4 * p + 2 /\ Source(l) = 4 * p + 1
    BY <1>4, <2>2, <2>3
  <2>6. Socket(l, MIDI_OUT) = c /\ Socket(j, MIDI_IN) = c
    BY <1>6, <2>2, <2>3
  <2>7. Cables(EP2_OUT)[c] = 4 * p + 1 /\ Cables(EP2_IN)[c] = 4 * p + 3
    BY <2>2, CablesListed
  <2> QED
    BY <2>4, <2>5, <2>6, <2>7
<1> QED
  BY <1>2, <1>5, <1>7, CablesListed DEF CablesAreSockets, NUM_MIDI_PORTS

-----------------------------------------------------------------------------
(* The other tables.                                                       *)

LEMMA DeviceFields ==
    /\ Len(device_descriptor) = 18 /\ device_descriptor[1] = 18 /\ device_descriptor[2] = 1
    /\ device_descriptor[15] = 1 /\ device_descriptor[16] = 2 /\ device_descriptor[17] = 3
<1>1. PICK S : S = Int \cup {IdProduct % 256, IdProduct \div 256}
  OBVIOUS
<1>2. PICK w, x, y, z : w = Word(272) /\ x = Word(2638) /\ y = Word(IdProduct) /\ z = Word(256)
  OBVIOUS
<1>3. /\ w \in Seq(S) /\ x \in Seq(S) /\ y \in Seq(S) /\ z \in Seq(S)
      /\ Len(w) = 2 /\ Len(x) = 2 /\ Len(y) = 2 /\ Len(z) = 2
  <2>1. w = <<16, 1>> /\ x = <<78, 10>> /\ z = <<0, 1>>
    BY <1>2 DEF Word
  <2>2. y = <<IdProduct % 256, IdProduct \div 256>>
    BY <1>2 DEF Word
  <2>3. y \in Seq(S) /\ Len(y) = 2
    BY <1>1, <2>2
  <2> QED
    BY <1>1, <2>1, <2>3
<1>4. PICK a, b, c, d : /\ a = <<18, TYPE_DEVICE>> /\ b = <<0, 0, 0, 64>>
                        /\ c = <<1, 2, 3>> /\ d = <<1>>
  OBVIOUS
<1>5. a \in Seq(S) /\ b \in Seq(S) /\ c \in Seq(S) /\ d \in Seq(S)
  BY <1>1, <1>4 DEF TYPE_DEVICE
<1>6. PICK s1 : s1 = a \o w
  OBVIOUS
<1>7. s1 \in Seq(S) /\ Len(s1) = 4 /\ s1[1] = 18 /\ s1[2] = 1
  <2>1. IsJoin(S, s1, a, w)
    BY <1>3, <1>5, <1>6, Joined
  <2>2. Len(a) = 2 /\ a[1] = 18 /\ a[2] = 1
    BY <1>4 DEF TYPE_DEVICE
  <2> QED
    BY <1>3, <2>1, <2>2 DEF IsJoin
<1>8. PICK s2 : s2 = s1 \o b
  OBVIOUS
<1>9. s2 \in Seq(S) /\ Len(s2) = 8 /\ s2[1] = 18 /\ s2[2] = 1
  <2>1. IsJoin(S, s2, s1, b) /\ Len(b) = 4
    BY <1>4, <1>5, <1>7, <1>8, Joined
  <2> QED
    BY <1>7, <2>1 DEF IsJoin
<1>10. PICK s3 : s3 = s2 \o x
  OBVIOUS
<1>11. s3 \in Seq(S) /\ Len(s3) = 10 /\ s3[1] = 18 /\ s3[2] = 1
  <2>1. IsJoin(S, s3, s2, x)
    BY <1>3, <1>9, <1>10, Joined
  <2> QED
    BY <1>3, <1>9, <2>1 DEF IsJoin
<1>12. PICK s4 : s4 = s3 \o y
  OBVIOUS
<1>13. s4 \in Seq(S) /\ Len(s4) = 12 /\ s4[1] = 18 /\ s4[2] = 1
  <2>1. IsJoin(S, s4, s3, y)
    BY <1>3, <1>11, <1>12, Joined
  <2> QED
    BY <1>3, <1>11, <2>1 DEF IsJoin
<1>14. PICK s5 : s5 = s4 \o z
  OBVIOUS
<1>15. s5 \in Seq(S) /\ Len(s5) = 14 /\ s5[1] = 18 /\ s5[2] = 1
  <2>1. IsJoin(S, s5, s4, z)
    BY <1>3, <1>13, <1>14, Joined
  <2> QED
    BY <1>3, <1>13, <2>1 DEF IsJoin
<1>16. PICK s6 : s6 = s5 \o c
  OBVIOUS
<1>17. /\ s6 \in Seq(S) /\ Len(s6) = 17 /\ s6[1] = 18 /\ s6[2] = 1
       /\ s6[15] = 1 /\ s6[16] = 2 /\ s6[17] = 3
  <2>1. IsJoin(S, s6, s5, c)
    BY <1>5, <1>15, <1>16, Joined
  <2>2. Len(c) = 3 /\ c[1] = 1 /\ c[2] = 2 /\ c[3] = 3
    BY <1>4
  <2>3. /\ s6 \in Seq(S) /\ Len(s6) = 14 + 3 /\ \A i \in 1 .. 14 : s6[i] = s5[i]
        /\ \A i \in 1 .. 3 : s6[14 + i] = c[i]
    BY <1>15, <2>1, <2>2 DEF IsJoin
  <2>4. s6[14 + 1] = c[1] /\ s6[14 + 2] = c[2] /\ s6[14 + 3] = c[3]
    BY <2>3
  <2> QED
    BY <1>15, <2>2, <2>3, <2>4
<1>18. PICK s7 : s7 = s6 \o d
  OBVIOUS
<1>19. /\ Len(s7) = 18 /\ s7[1] = 18 /\ s7[2] = 1
       /\ s7[15] = 1 /\ s7[16] = 2 /\ s7[17] = 3
  <2>1. IsJoin(S, s7, s6, d) /\ Len(d) = 1
    BY <1>4, <1>5, <1>17, <1>18, Joined
  <2> QED
    BY <1>17, <2>1 DEF IsJoin
<1>20. device_descriptor = s7
  BY <1>2, <1>4, <1>6, <1>8, <1>10, <1>12, <1>14, <1>16, <1>18
     DEF device_descriptor, usb_device_descriptor
<1> QED
  BY <1>19, <1>20

\* The length written by hand is the number of the letters.
LEMMA StringWhole ==
    ASSUME NEW letters, NEW len \in Nat, Len(letters) = len
    PROVE  Announced(STR_DESCR(len, letters)) = Len(STR_DESCR(len, letters))
<1>1. PICK h, t : /\ h = <<2 * len + 2, TYPE_STRING>>
                  /\ t = [i \in 1 .. 2 * Len(letters) |-> IF i % 2 = 1 THEN 65 ELSE 0]
  OBVIOUS
<1>2. t \in Seq(Int) /\ Len(t) = 2 * len
  BY <1>1
<1>3. h \in Seq(Int) /\ Len(h) = 2 /\ h[1] = 2 * len + 2 /\ h[2] = 3
  BY <1>1 DEF TYPE_STRING
<1>4. PICK b : b = h \o t
  OBVIOUS
<1>5. IsJoin(Int, b, h, t)
  BY <1>2, <1>3, <1>4, Joined
<1>6. Len(b) = 2 + 2 * len /\ b[1] = 2 * len + 2 /\ b[2] = 3
  BY <1>2, <1>3, <1>5 DEF IsJoin
<1>7. STR_DESCR(len, letters) = b
  BY <1>1, <1>4 DEF STR_DESCR
<1> QED
  BY <1>6, <1>7 DEF Announced, TYPE_CONFIGURATION

LEMMA LanguageWhole == Announced(usb_language_descriptor) = Len(usb_language_descriptor)
<1>1. PICK h, t, S : /\ h = <<4, TYPE_STRING>> /\ t = Word(USB_LANG_ENGLISH_US)
                     /\ S = {3, 4, USB_LANG_ENGLISH_US % 256, USB_LANG_ENGLISH_US \div 256}
  OBVIOUS
<1>2. t \in Seq(S) /\ Len(t) = 2
  BY <1>1 DEF Word
<1>3. h \in Seq(S) /\ Len(h) = 2 /\ h[1] = 4 /\ h[2] = 3
  BY <1>1 DEF TYPE_STRING
<1>4. PICK b : b = h \o t
  OBVIOUS
<1>5. IsJoin(S, b, h, t)
  BY <1>2, <1>3, <1>4, Joined
<1>6. Len(b) = 4 /\ b[1] = 4 /\ b[2] = 3
  BY <1>2, <1>3, <1>5 DEF IsJoin
<1>7. usb_language_descriptor = b
  BY <1>1, <1>4 DEF usb_language_descriptor
<1> QED
  BY <1>6, <1>7 DEF Announced, TYPE_CONFIGURATION

\* Every table announces as many bytes as it has.
LEMMA TablesWhole ==
    \A name \in DOMAIN Tables : Announced(Tables[name]) = Len(Tables[name])
<1>1. Announced(device_descriptor) = Len(device_descriptor)
  BY DeviceFields DEF Announced, TYPE_CONFIGURATION
<1>2. Announced(Tables["strManufacturer"]) = Len(Tables["strManufacturer"])
  <2>1. PICK letters : letters = <<"S","t","e","i","n","b","e","r","g">>
    OBVIOUS
  <2>2. Len(letters) = 9
    BY <2>1
  <2> QED
    BY <2>1, <2>2, 9 \in Nat, StringWhole DEF Tables
<1>3. Announced(Tables["strProduct"]) = Len(Tables["strProduct"])
  <2>1. PICK letters : letters = <<"M","I","D","E","X","8"," ","U","A","C">>
    OBVIOUS
  <2>2. Len(letters) = 10
    BY <2>1
  <2> QED
    BY <2>1, <2>2, 10 \in Nat, StringWhole DEF Tables
<1>4. Announced(Tables["strSerialNumber"]) = Len(Tables["strSerialNumber"])
  <2>1. PICK letters : letters = <<"0","0","0","0","0","1">>
    OBVIOUS
  <2>2. Len(letters) = 6
    BY <2>1
  <2> QED
    BY <2>1, <2>2, 6 \in Nat, StringWhole DEF Tables
<1>5. /\ Tables["device_descriptor"] = device_descriptor
      /\ Tables["config_block"] = config_block
      /\ Tables["language_descriptor"] = usb_language_descriptor
  BY DEF Tables
<1>6. DOMAIN Tables = {"device_descriptor", "config_block", "language_descriptor",
                       "strManufacturer", "strProduct", "strSerialNumber"}
  BY DEF Tables
<1> QED
  BY <1>1, <1>2, <1>3, <1>4, <1>5, <1>6, LanguageWhole, WholeConfiguration

\* The strings that the descriptors name.
LEMMA StringsNamed == NamedStrings(device_descriptor, config_block) \subseteq 1 .. 3
<1>1. PICK ds : ds = Descriptors(config_block)
  OBVIOUS
<1>2. ConfigurationIs(ds) /\ Holds(config_block, ds) /\ Places(ds, TYPE_INTERFACE) = {2, 4}
  BY <1>1, ConfigurationFound, Types DEF ConfigDescriptors
<1>3. ds[1] = Opening[1] /\ ds[2] = Opening[2] /\ ds[4] = Opening[4] /\ Len(ds) = 41
  BY <1>2 DEF ConfigurationIs
<1>4. ds[2][9] = 0 /\ ds[4][9] = 0
  BY <1>3, OpeningFields
<1>5. config_block[7] = 0
  <2>1. Len(ds) >= 1
    BY <1>3
  <2>2. Stands(config_block, 1, ds[1])
    BY <1>2, <2>1, HeldFirst
  <2>3. PICK b, d : b = config_block /\ d = ds[1]
    OBVIOUS
  <2>4. Len(d) = 9 /\ d[7] = 0
    BY <1>3, <2>3, OpeningFields
  <2>5. \A j \in 1 .. 9 : b[1 - 1 + j] = d[j]
    BY <2>2, <2>3, <2>4 DEF Stands
  <2>6. b[1 - 1 + 7] = d[7]
    BY <2>5
  <2> QED
    BY <2>3, <2>4, <2>6
<1>6. \A k \in Places(ds, TYPE_INTERFACE) : ds[k][9] = 0
  BY <1>2, <1>4
<1> QED
  BY <1>1, <1>5, <1>6, DeviceFields DEF NamedStrings

-----------------------------------------------------------------------------
USE NoneAssumption, BoundsAssumption, RequestsAssumption

Answers == [data : {None} \cup (0 .. OvfMax),
            descr : {None, "stray"} \cup DOMAIN Tables,
            stall : BOOLEAN]

-----------------------------------------------------------------------------
(* What the handlers reply.                                                *)

LEMMA NamesInTables ==
    /\ {"device_descriptor", "config_block", "language_descriptor"} \subseteq DOMAIN Tables
    /\ \A i \in DOMAIN en_string_descriptors : en_string_descriptors[i] \in DOMAIN Tables
  BY DEF Tables, en_string_descriptors

LEMMA DescriptorAnswers ==
    ASSUME NEW r
    PROVE  /\ GetDescriptor(r) \in Answers
           /\ GetDescriptor(r).descr # None \/ GetDescriptor(r).stall
<1> DEFINE names == DOMAIN Tables
<1>1. ASSUME NEW d \in names \cup {"stray"}
      PROVE  Points(d) \in Answers /\ Points(d).descr # None
  BY <1>1 DEF Points, Answers
<1>2. Stall \in Answers /\ Stall.stall
  BY DEF Stall, Answers
<1>3. \/ GetDescriptor(r) = Stall
      \/ \E d \in names \cup {"stray"} : GetDescriptor(r) = Points(d)
  BY NamesInTables DEF GetDescriptor, DescriptorReply
<1> QED
  BY <1>1, <1>2, <1>3

LEMMA StatusAnswers ==
    ASSUME NEW r, halted \in [Dirs -> BOOLEAN], NEW reply \in StatusReplies(r, halted)
    PROVE  reply \in Answers /\ (reply.data # None \/ reply.stall)
<1>1. ASSUME NEW x \in 0 .. 1 PROVE Data(x) \in Answers /\ Data(x).data # None
  BY <1>1 DEF Data, Answers
<1>2. Stall \in Answers /\ Stall.stall
  BY DEF Stall, Answers
<1>3. reply = Stall \/ \E x \in 0 .. 1 : reply = Data(x)
  BY DEF StatusReplies, Flag
<1> QED
  BY <1>1, <1>2, <1>3

\* Which handler a request comes to.
LEMMA RepliesOf ==
    ASSUME NEW r, NEW reply \in Replies(r)
    PROVE  \/ r.bRequest = 0 /\ reply \in StatusReplies(r, halted)
           \/ r.bRequest = 1 /\ reply = ClearFeatureReply(r)
           \/ r.bRequest = 3 /\ reply = SetFeatureReply(r)
           \/ r.bRequest = 6 /\ reply = GetDescriptor(r)
           \/ r.bRequest = 8 /\ reply = Data(1)
           \/ r.bRequest = 10 /\ reply = Data(0)
           \/ r.bRequest \in {5, 9, 11, 12} /\ reply = Ack
           \/ r.bRequest \notin {0, 1, 3, 6, 8, 10, 5, 9, 11, 12}
                /\ reply \in {Stall, Ack, Data(uart_rx_overflows)}
  BY DEF Replies, Vendor

LEMMA ReplyTyped ==
    ASSUME TypeOK, NEW r, NEW reply \in Replies(r)
    PROVE  reply \in Answers
<1>1. Stall \in Answers /\ Ack \in Answers /\ Data(0) \in Answers /\ Data(1) \in Answers
  BY DEF Stall, Ack, Data, Answers
<1>2. Data(uart_rx_overflows) \in Answers
  BY DEF Data, Answers, TypeOK
<1>3. ClearFeatureReply(r) \in {Stall, Ack} /\ SetFeatureReply(r) \in {Stall, Ack}
  BY DEF ClearFeatureReply, SetFeatureReply
<1>4. halted \in [Dirs -> BOOLEAN]
  BY DEF TypeOK
<1> QED
  BY <1>1, <1>2, <1>3, <1>4, RepliesOf, StatusAnswers, DescriptorAnswers

\* A standard request for data gets data or a stall.
LEMMA DataOrStall ==
    ASSUME TypeOK, NEW r \in Requests, NEW reply \in Replies(r),
           r.bRequest \in DataRequests
    PROVE  reply.data # None \/ reply.descr # None \/ reply.stall
<1>1. r.bRequest \in {0, 6, 8, 10}
  BY DEF DataRequests
<1>2. Data(0).data # None /\ Data(1).data # None
  BY DEF Data
<1>3. halted \in [Dirs -> BOOLEAN]
  BY DEF TypeOK
<1> QED
  BY <1>1, <1>2, <1>3, RepliesOf, StatusAnswers, DescriptorAnswers

\* GET_STATUS of a bulk endpoint says whether it is halted.
LEMMA StatusReply ==
    ASSUME NEW r \in Requests, NEW reply \in Replies(r),
           r.bRequest = 0, Bulk(r), ~reply.stall
    PROVE  reply.data = Flag(halted[r.ep])
<1>1. r.recip = "endpoint"
  OBVIOUS
<1>2. reply \in StatusReplies(r, halted)
  BY RepliesOf
<1>3. reply = Data(Flag(halted[r.ep])) \/ reply = Stall
  BY <1>1, <1>2 DEF StatusReplies
<1> QED
  BY <1>3 DEF Data, Stall

\* What changes the bulk endpoints is not refused.
LEMMA ChangesAreAcknowledged ==
    ASSUME NEW r, NEW reply \in Replies(r),
           Halts(r) \/ Unhalts(r) \/ SetsInterface(r) \/ r.bRequest = 9
    PROVE  ~reply.stall
<1>1. ASSUME Halts(r) \/ Unhalts(r)
      PROVE  r.ep \notin {"EP0", "none"} /\ r.wValue = "halt" /\ Standard(r, "OUT", "endpoint")
  BY <1>1 DEF Halts, Unhalts, Bulk, Dirs
<1>2. Halts(r) => r.bRequest = 3 /\ SetFeatureReply(r) = Ack
  BY <1>1 DEF Halts, SetFeatureReply
<1>3. Unhalts(r) => r.bRequest = 1 /\ ClearFeatureReply(r) = Ack
  BY <1>1 DEF Unhalts, ClearFeatureReply, Standard
<1>4. SetsInterface(r) => r.bRequest = 11
  BY DEF SetsInterface
<1>5. reply = Ack
  BY <1>2, <1>3, <1>4, RepliesOf
<1> QED
  BY <1>5 DEF Ack

-----------------------------------------------------------------------------
(* The type invariant.                                                     *)

LEMMA TypeInit == Init => TypeOK
<1> SUFFICES ASSUME Init PROVE TypeOK
  OBVIOUS
<1>1. halted \in [Dirs -> BOOLEAN] /\ hostHalted \in [Dirs -> BOOLEAN]
        /\ toggle \in [Dirs -> 0 .. 1] /\ hostToggle \in [Dirs -> 0 .. 1]
  BY DEF Init
<1>2. uart_rx_overflows \in 0 .. OvfMax
  BY DEF Init
<1> QED
  BY <1>1, <1>2 DEF Init, TypeOK

\* The other value of a data toggle.
LEMMA Flipped ==
    ASSUME NEW t \in [Dirs -> 0 .. 1], NEW d \in Dirs
    PROVE  [t EXCEPT ![d] = 1 - @] \in [Dirs -> 0 .. 1]
<1>1. 1 - t[d] \in 0 .. 1
  OBVIOUS
<1> QED
  BY <1>1

LEMMA Zeroed ==
    ASSUME NEW t \in [Dirs -> 0 .. 1], NEW d
    PROVE  [t EXCEPT ![d] = 0] \in [Dirs -> 0 .. 1]
<1>1. 0 \in 0 .. 1
  OBVIOUS
<1> QED
  BY <1>1, Zenon


LEMMA TypeStep == TypeOK /\ [Next]_vars => TypeOK'
<1> SUFFICES ASSUME TypeOK, [Next]_vars PROVE TypeOK'
  OBVIOUS
<1> USE DEF TypeOK
<1>1. CASE usb_handle_setup_data
  <2>1. PICK reply \in Replies(setup_data) :
            IN0' = reply.data /\ SUDPTR' = reply.descr /\ EP0STALL' = reply.stall
    BY <1>1 DEF usb_handle_setup_data
  <2>2. reply \in Answers
    BY ReplyTyped
  <2>s. stage' \in {"handled", "released"}
    BY <1>1 DEF usb_handle_setup_data
  <2>3. IN0' \in {None} \cup (0 .. OvfMax) /\ SUDPTR' \in {None, "stray"} \cup DOMAIN Tables
          /\ EP0STALL' \in BOOLEAN
    BY <2>1, <2>2 DEF Answers
  <2>4. halted' \in [Dirs -> BOOLEAN]
    BY <1>1 DEF usb_handle_setup_data, HaltsAfter, HaltsAfterRequest, Halts, Standard
  <2>5. toggle' \in [Dirs -> 0 .. 1]
    BY <1>1 DEF usb_handle_setup_data, TogglesAfter
  <2>6. IN2Busy' \in BOOLEAN /\ OUT2Armed' \in BOOLEAN
    BY <1>1 DEF usb_handle_setup_data, SetsInterface
  <2>7. uart_rx_overflows' \in 0 .. OvfMax
    BY <1>1 DEF usb_handle_setup_data, OverflowsAfter
  <2> QED
    BY <1>1, <2>s, <2>3, <2>4, <2>5, <2>6, <2>7 DEF usb_handle_setup_data, countVars
<1>2. CASE \E r \in Requests : Setup(r)
  BY <1>2 DEF Setup, bulkVars, countVars, haltVars
<1>3. CASE sudav_isr
  BY <1>3 DEF sudav_isr, bulkVars, countVars, haltVars
<1>4. CASE Completes
  <2>1. hostToggle' \in [Dirs -> 0 .. 1]
    <3>1. [d \in Dirs |-> IF RestartsFor(setup_data, d) THEN 0 ELSE hostToggle[d]]
            \in [Dirs -> 0 .. 1]
      OBVIOUS
    <3> QED
      BY <1>4, <3>1, Zenon DEF Completes
  <2>2. hostHalted' \in [Dirs -> BOOLEAN]
    <3>1. [d \in Dirs |-> IF RestartsFor(setup_data, d) THEN FALSE
                          ELSE SetsHalt(setup_data, d) \/ hostHalted[d]] \in [Dirs -> BOOLEAN]
      BY Zenon
    <3> QED
      BY <1>4, <3>1, Zenon DEF Completes
  <2>3. leftHalted' \subseteq Dirs
    <3>1. leftHalted' = leftHalted \/ \A d \in leftHalted' : d \in Dirs
      BY <1>4, Zenon DEF Completes
    <3> QED
      BY <3>1
  <2>4. outResets' \in Nat
    <3>1. outResets' \in {outResets, outResets + Flag(ResetsOutAlone(setup_data))}
      BY <1>4, Zenon DEF Completes
    <3> QED
      BY <3>1 DEF Flag
  <2> QED
    BY <1>4, <2>1, <2>2, <2>3, <2>4 DEF Completes, countVars
<1>5. CASE FirmwareArms
  BY <1>5 DEF FirmwareArms, controlVars, countVars, haltVars
<1>6. ASSUME NEW heard \in BOOLEAN, BulkOut(heard) PROVE TypeOK'
  <2>1. toggle' \in [Dirs -> 0 .. 1] /\ hostToggle' \in [Dirs -> 0 .. 1]
    <3>1. [toggle EXCEPT !["OUT"] = 1 - @] \in [Dirs -> 0 .. 1]
            /\ [hostToggle EXCEPT !["OUT"] = 1 - @] \in [Dirs -> 0 .. 1]
      <4>1. "OUT" \in Dirs
        BY DEF Dirs
      <4> QED
        BY <4>1, Flipped
    <3> QED
      BY <1>6, <3>1 DEF BulkOut
  <2>2. accepted' \in Nat /\ acknowledged' \in Nat
    <3>1. accepted' \in {accepted, accepted + 1} /\ acknowledged' \in {acknowledged, acknowledged + 1}
      BY <1>6, Zenon DEF BulkOut
    <3> QED
      BY <3>1
  <2> QED
    BY <1>6, <2>1, <2>2 DEF BulkOut, controlVars, haltVars
<1>7. ASSUME NEW heard \in BOOLEAN, BulkIn(heard) PROVE TypeOK'
  <2>1. toggle' \in [Dirs -> 0 .. 1] /\ hostToggle' \in [Dirs -> 0 .. 1]
    <3>1. [toggle EXCEPT !["IN"] = 1 - @] \in [Dirs -> 0 .. 1]
            /\ [hostToggle EXCEPT !["IN"] = 1 - @] \in [Dirs -> 0 .. 1]
      <4>1. "IN" \in Dirs
        BY DEF Dirs
      <4> QED
        BY <4>1, Flipped
    <3> QED
      BY <1>7, <3>1 DEF BulkIn
  <2>2. shipped' \in Nat /\ received' \in Nat
    <3>1. shipped' \in {shipped, shipped + 1} /\ received' \in {received, received + 1}
      BY <1>7, Zenon DEF BulkIn
    <3> QED
      BY <3>1
  <2> QED
    BY <1>7, <2>1, <2>2 DEF BulkIn, controlVars, haltVars
<1>8. CASE CaptureDrops
  BY <1>8 DEF CaptureDrops, controlVars, bulkVars, countVars, haltVars
<1>9. CASE UNCHANGED vars
  BY <1>9 DEF vars, controlVars, bulkVars, countVars, haltVars
<1> QED
  BY <1>1, <1>2, <1>3, <1>4, <1>5, <1>6, <1>7, <1>8, <1>9 DEF Next

\* The control endpoint keeps its variables in their ranges, the overflow
\* counter, which is what a vendor request reads, among them.
THEOREM TypeCorrect == Spec => []TypeOK
  BY TypeInit, TypeStep, PTL DEF Spec

-----------------------------------------------------------------------------
(* The answers and the halts.                                              *)

\* A request has been served, and is the one that SUDAV stood for.
Handled   == stage \in {"handled", "released", "served"}
Answering == Handled /\ ~overtaken

\* What is known of the answer to the request being served.
AnswerInv ==
    Answering =>
        /\ setup_data.bRequest \in DataRequests
             => IN0 # None \/ SUDPTR # None \/ EP0STALL
        /\ setup_data.bRequest = 0 /\ Bulk(setup_data) /\ ~EP0STALL
             => IN0 = Flag(halted[setup_data.ep])
        /\ Halts(setup_data) \/ Unhalts(setup_data) \/ SetsInterface(setup_data)
             \/ setup_data.bRequest = 9
             => ~EP0STALL

\* What the device's halts should be after the requests the host knows to
\* have completed: its own view, and what SET_CONFIGURATION left.
Known == [d \in Dirs |-> hostHalted[d] \/ d \in leftHalted]

\* The halts are that, or what the request being served makes of it, of which
\* the host does not know yet.
HaltsInv ==
    ~overtaken =>
        halted = IF Handled THEN HaltsAfterRequest(setup_data, Known) ELSE Known

LEMMA AnswerStep == TypeOK /\ AnswerInv /\ [Next]_vars => AnswerInv'
<1> SUFFICES ASSUME TypeOK, AnswerInv, [Next]_vars, Answering' PROVE AnswerInv'
  BY DEF AnswerInv
<1>1. CASE usb_handle_setup_data
  <2>1. PICK reply \in Replies(setup_data) :
            IN0' = reply.data /\ SUDPTR' = reply.descr /\ EP0STALL' = reply.stall
    BY <1>1 DEF usb_handle_setup_data
  <2>2. setup_data' = setup_data /\ setup_data \in Requests
    BY <1>1 DEF usb_handle_setup_data, TypeOK
  <2>3. setup_data'.bRequest \in DataRequests
          => IN0' # None \/ SUDPTR' # None \/ EP0STALL'
    BY <2>1, <2>2, DataOrStall
  <2>4. setup_data'.bRequest = 0 /\ Bulk(setup_data') /\ ~EP0STALL'
          => IN0' = Flag(halted'[setup_data'.ep])
    <3>1. setup_data.bRequest = 0 => halted' = halted
      BY <1>1 DEF usb_handle_setup_data, HaltsAfter, HaltsAfterRequest, Halts, Unhalts, SetsInterface
    <3> QED
      BY <2>1, <2>2, <3>1, StatusReply
  <2>5. Halts(setup_data') \/ Unhalts(setup_data') \/ SetsInterface(setup_data')
          \/ setup_data'.bRequest = 9 => ~EP0STALL'
    BY <2>1, <2>2, ChangesAreAcknowledged
  <2> QED
    BY <2>3, <2>4, <2>5 DEF AnswerInv
<1>2. CASE ~usb_handle_setup_data
  <2>1. Answering /\ UNCHANGED <<setup_data, IN0, SUDPTR, EP0STALL, halted>>
    BY <1>2 DEF Next, Setup, sudav_isr, Completes, FirmwareArms, BulkOut, BulkIn, CaptureDrops,
                vars, controlVars, bulkVars, countVars, haltVars, Answering, Handled, TypeOK
  <2> QED
    BY <2>1 DEF AnswerInv, Halts, Unhalts, SetsInterface, Bulk, Flag, Standard
<1> QED
  BY <1>1, <1>2

\* What chapter 9 makes of a request, endpoint by endpoint, and what is left
\* over, together are what the firmware makes of it.
LEMMA HostKnows ==
    ASSUME TypeOK, Completes,
           Halts(setup_data) \/ Unhalts(setup_data) \/ SetsInterface(setup_data) => ~EP0STALL
    PROVE  Known' = HaltsAfterRequest(setup_data, Known)
<1> DEFINE r == setup_data
<1>1. /\ r \in Requests
      /\ hostHalted \in [Dirs -> BOOLEAN] /\ leftHalted \subseteq Dirs
  BY DEF Completes, TypeOK
<1>2. ASSUME ~EP0STALL, NEW d \in Dirs
      PROVE  /\ hostHalted'[d] = (~RestartsFor(r, d) /\ (SetsHalt(r, d) \/ hostHalted[d]))
             /\ d \in leftHalted' <=>
                    IF Configures(r) THEN hostHalted[d] \/ d \in leftHalted
                    ELSE d \in leftHalted /\ ~RestartsFor(r, d) /\ ~SetsHalt(r, d)
  BY <1>1, <1>2 DEF Completes, SetsHalt
<1>3. \A d \in Dirs : /\ SetsHalt(r, d)   <=> Halts(r) /\ r.ep = d
                      /\ ClearsHalt(r, d) <=> Unhalts(r) /\ r.ep = d
  BY DEF SetsHalt, ClearsHalt, Asks, Halts, Unhalts, Bulk
<1>4. ChoosesSetting(r) <=> SetsInterface(r)
  BY <1>1 DEF ChoosesSetting, Asks, SetsInterface
<1>5. /\ Halts(r) => ~Unhalts(r) /\ ~SetsInterface(r) /\ ~Configures(r) /\ r.ep \in Dirs
      /\ Unhalts(r) => ~SetsInterface(r) /\ ~Configures(r) /\ r.ep \in Dirs
      /\ SetsInterface(r) => ~Configures(r)
  BY DEF Halts, Unhalts, SetsInterface, Configures, Asks, Bulk
<1>6. CASE SetsInterface(r)
  <2>1. \A d \in Dirs : hostHalted'[d] = FALSE /\ d \notin leftHalted'
    BY <1>2, <1>4, <1>5, <1>6 DEF RestartsFor
  <2> QED
    BY <1>6, <2>1 DEF Known, HaltsAfterRequest
<1>7. CASE Halts(r) \/ Unhalts(r)
  <2>1. ASSUME NEW d \in Dirs
        PROVE  (hostHalted'[d] \/ d \in leftHalted')
                   = IF r.ep = d THEN Halts(r) ELSE hostHalted[d] \/ d \in leftHalted
    <3>1. RestartsFor(r, d) <=> Unhalts(r) /\ r.ep = d
      BY <1>3, <1>4, <1>5, <1>7 DEF RestartsFor
    <3>2. Halts(r) \in BOOLEAN /\ hostHalted[d] \in BOOLEAN
      BY <1>1 DEF Halts
    <3> QED
      BY <1>2, <1>3, <1>5, <1>7, <3>1, <3>2
  <2>2. ~SetsInterface(r) /\ r.ep \in Dirs
    BY <1>5, <1>7
  <2>3. Known' = [Known EXCEPT ![r.ep] = Halts(r)]
    BY <2>1, <2>2 DEF Known
  <2> QED
    BY <1>7, <2>2, <2>3 DEF HaltsAfterRequest
<1>8. CASE ~SetsInterface(r) /\ ~Halts(r) /\ ~Unhalts(r)
  <2>1. CASE EP0STALL
    BY <1>8, <2>1 DEF Completes, Known, HaltsAfterRequest
  <2>2. CASE ~EP0STALL
    <3>1. ASSUME NEW d \in Dirs
          PROVE  (hostHalted'[d] \/ d \in leftHalted') = (hostHalted[d] \/ d \in leftHalted)
      <4>1. RestartsFor(r, d) <=> Configures(r)
        BY <1>3, <1>4, <1>8 DEF RestartsFor
      <4>2. ~SetsHalt(r, d)
        BY <1>3, <1>8
      <4>3. hostHalted[d] \in BOOLEAN
        BY <1>1
      <4> QED
        BY <1>2, <2>2, <4>1, <4>2, <4>3
    <3> QED
      BY <1>8, <3>1 DEF Known, HaltsAfterRequest
  <2> QED
    BY <2>1, <2>2
<1> QED
  BY <1>6, <1>7, <1>8

LEMMA HaltsStep == TypeOK /\ AnswerInv /\ HaltsInv /\ [Next]_vars => HaltsInv'
<1> SUFFICES ASSUME TypeOK, AnswerInv, HaltsInv, [Next]_vars, ~overtaken' PROVE HaltsInv'
  BY DEF HaltsInv
<1>0. ~overtaken
  BY DEF Next, Setup, usb_handle_setup_data, sudav_isr, Completes, FirmwareArms, BulkOut, BulkIn,
         CaptureDrops, vars, controlVars
<1>1. CASE usb_handle_setup_data
  <2>1. stage = "pending" /\ Handled' /\ Known' = Known
    BY <1>1 DEF usb_handle_setup_data, Known, Handled
  <2>2. halted = Known /\ setup_data' = setup_data
    BY <1>0, <1>1, <2>1 DEF HaltsInv, Handled, usb_handle_setup_data
  <2>3. halted' = HaltsAfterRequest(setup_data, halted)
    BY <1>1 DEF usb_handle_setup_data, HaltsAfter
  <2> QED
    BY <2>1, <2>2, <2>3 DEF HaltsInv
<1>2. CASE Completes
  <2>1. Handled /\ ~Handled' /\ halted' = halted
    BY <1>2 DEF Completes, Handled
  <2>2. halted = HaltsAfterRequest(setup_data, Known)
    BY <1>0, <2>1 DEF HaltsInv
  <2>3. Known' = HaltsAfterRequest(setup_data, Known)
    BY <1>0, <1>2, <2>1, HostKnows DEF AnswerInv, Answering
  <2> QED
    BY <2>1, <2>2, <2>3 DEF HaltsInv
<1>3. CASE \E r \in Requests : Setup(r)
  <2>1. ~Handled /\ ~Handled' /\ halted' = halted /\ Known' = Known
    BY <1>0, <1>3 DEF Setup, Handled, haltVars, Known
  <2> QED
    BY <1>0, <2>1 DEF HaltsInv
<1>4. CASE sudav_isr
  <2>1. Handled /\ Handled' /\ UNCHANGED <<halted, Known, setup_data>>
    BY <1>4 DEF sudav_isr, Handled, haltVars, Known
  <2> QED
    BY <1>0, <2>1 DEF HaltsInv
<1>5. CASE UNCHANGED <<controlVars, haltVars>>
  <2>1. Handled' = Handled /\ UNCHANGED <<halted, Known, setup_data>>
    BY <1>5 DEF controlVars, haltVars, Handled, Known
  <2> QED
    BY <1>0, <2>1 DEF HaltsInv
<1> QED
  BY <1>1, <1>2, <1>3, <1>4, <1>5 DEF Next, FirmwareArms, BulkOut, BulkIn, CaptureDrops, vars

ControlInv == TypeOK /\ AnswerInv /\ HaltsInv

LEMMA ControlInit == Init => ControlInv
<1> SUFFICES ASSUME Init PROVE ControlInv
  OBVIOUS
<1>1. halted = Known
  BY DEF Init, Known
<1> QED
  BY <1>1, TypeInit DEF Init, ControlInv, AnswerInv, HaltsInv, Answering, Handled

LEMMA ControlStep == ControlInv /\ [Next]_vars => ControlInv'
  BY TypeStep, AnswerStep, HaltsStep DEF ControlInv

\* A standard request for data that no other SETUP overtakes is let go with
\* data, with a descriptor or with a stall.
THEOREM NeverHangsCorrect == Spec => []NeverHangs
<1>1. ControlInv => NeverHangs
  BY DEF ControlInv, AnswerInv, Answering, Handled, NeverHangs
<1> QED
  BY <1>1, ControlInit, ControlStep, PTL DEF Spec

\* GET_STATUS says of a halt what the host's requests have made of it, and
\* that one which a SET_CONFIGURATION should have ended is still there.
THEOREM StatusCorrect == Spec => []StatusTruthful
<1>1. ControlInv => StatusTruthful
  <2> SUFFICES ASSUME ControlInv, stage = "served", setup_data.bRequest = 0,
                      Bulk(setup_data), ~EP0STALL, ~overtaken
               PROVE  IN0 = Flag(hostHalted[setup_data.ep] \/ setup_data.ep \in leftHalted)
    BY DEF StatusTruthful
  <2>1. halted = Known
    BY DEF ControlInv, HaltsInv, Handled, HaltsAfterRequest, Halts, Unhalts, SetsInterface
  <2>2. IN0 = Flag(halted[setup_data.ep])
    BY DEF ControlInv, AnswerInv, Answering, Handled
  <2> QED
    BY <2>1, <2>2 DEF Known, Bulk
<1> QED
  BY <1>1, ControlInit, ControlStep, PTL DEF Spec

-----------------------------------------------------------------------------
(* The data toggles of EP2-OUT.                                            *)

\* How far the two sides may have drifted apart: with equal toggles every
\* packet is accounted for on both, with unequal ones the device is one
\* ahead, and each reset that the host makes alone, by CLEAR_FEATURE or by
\* SET_CONFIGURATION, may have moved either side once.
Within ==
    IF toggle["OUT"] = hostToggle["OUT"]
    THEN accepted - acknowledged \in (0 - outResets) .. outResets
    ELSE accepted - acknowledged \in (1 - outResets) .. (1 + outResets)

\* From the SETUP of a SET_INTERFACE on no transfer is half done; once the
\* device has served it its own toggle is reset, and the host's will be when
\* it completes.
Setting == stage # "idle" /\ SetsInterface(setup_data)
ToggleInv ==
    ~overtaken =>
        /\ Setting => accepted = acknowledged
        /\ Setting /\ stage # "pending" => toggle["OUT"] = 0
        /\ ~(Setting /\ stage # "pending") => Within

LEMMA WithinOut ==
    ASSUME TypeOK, Within, NEW heard \in BOOLEAN, BulkOut(heard)
    PROVE  Within'
<1>1. /\ toggle["OUT"] \in 0 .. 1 /\ hostToggle["OUT"] \in 0 .. 1
      /\ accepted \in Nat /\ acknowledged \in Nat /\ outResets \in Nat
  BY DEF TypeOK, Dirs
<1>2. outResets' = outResets
  BY DEF BulkOut, haltVars
<1>3. /\ toggle["OUT"] = hostToggle["OUT"]
        => accepted' = accepted + 1 /\ toggle'["OUT"] = 1 - toggle["OUT"]
      /\ toggle["OUT"] # hostToggle["OUT"]
        => accepted' = accepted /\ toggle'["OUT"] = toggle["OUT"]
  BY DEF BulkOut, TypeOK, Dirs
<1>4. /\ heard => acknowledged' = acknowledged + 1 /\ hostToggle'["OUT"] = 1 - hostToggle["OUT"]
      /\ ~heard => acknowledged' = acknowledged /\ hostToggle'["OUT"] = hostToggle["OUT"]
  BY DEF BulkOut, TypeOK, Dirs
<1> QED
  BY <1>1, <1>2, <1>3, <1>4 DEF Within

LEMMA WithinCompletes ==
    ASSUME TypeOK, Within, Completes, ~SetsInterface(setup_data)
    PROVE  Within'
<1>1. /\ accepted \in Nat /\ acknowledged \in Nat /\ outResets \in Nat
      /\ UNCHANGED <<accepted, acknowledged, toggle>>
  BY DEF TypeOK, Completes, countVars
<1>2. CASE ResetsOutAlone(setup_data) /\ ~EP0STALL
  <2>1. outResets' = outResets + 1
    BY <1>2 DEF Completes, Flag
  <2> QED
    BY <1>1, <2>1 DEF Within
<1>3. CASE ~(ResetsOutAlone(setup_data) /\ ~EP0STALL)
  <2>1. outResets' = outResets
    <3>1. CASE EP0STALL
      BY <3>1 DEF Completes
    <3>2. CASE ~EP0STALL
      <4>1. Flag(ResetsOutAlone(setup_data)) = 0
        BY <1>3, <3>2 DEF Flag
      <4>2. outResets' = outResets + Flag(ResetsOutAlone(setup_data))
        BY <3>2, Zenon DEF Completes
      <4> QED
        BY <1>1, <4>1, <4>2
    <3> QED
      BY <3>1, <3>2
  <2>2. hostToggle'["OUT"] = hostToggle["OUT"]
    <3>1. ~EP0STALL => ~RestartsFor(setup_data, "OUT")
      BY <1>3 DEF RestartsFor, ResetsOutAlone, ChoosesSetting, Asks, SetsInterface
    <3> QED
      BY <3>1 DEF Completes, TypeOK, Dirs
  <2> QED
    BY <1>1, <2>1, <2>2 DEF Within
<1> QED
  BY <1>2, <1>3

LEMMA NoDrift ==
    ASSUME NEW a \in Nat, NEW b \in Nat, a = b, NEW u \in Nat
    PROVE  a - b \in (0 - u) .. u
  OBVIOUS

LEMMA ToggleStep == ControlInv /\ ToggleInv /\ [Next]_vars => ToggleInv'
<1> SUFFICES ASSUME ControlInv, ToggleInv, [Next]_vars, ~overtaken' PROVE ToggleInv'
  BY DEF ToggleInv
<1>0. ~overtaken /\ TypeOK
  <2>1. ~overtaken
    BY DEF Next, Setup, usb_handle_setup_data, sudav_isr, Completes, FirmwareArms, BulkOut, BulkIn,
           CaptureDrops, vars, controlVars
  <2> QED
    BY <2>1 DEF ControlInv
<1> USE <1>0 DEF Setting
<1>1. CASE usb_handle_setup_data
  <2>1. /\ stage = "pending" /\ stage' \in {"handled", "released"}
        /\ UNCHANGED <<setup_data, hostToggle, outResets, accepted, acknowledged>>
    BY <1>1 DEF usb_handle_setup_data, countVars
  <2>2. CASE SetsInterface(setup_data)
    <3>1. toggle'["OUT"] = 0
      BY <1>1, <2>2 DEF usb_handle_setup_data, TogglesAfter, Selected, Dirs
    <3> QED
      BY <2>1, <2>2, <3>1 DEF ToggleInv, SetsInterface
  <2>3. CASE ~SetsInterface(setup_data)
    <3>1. toggle' = toggle
      BY <1>1, <2>3 DEF usb_handle_setup_data, TogglesAfter
    <3> QED
      BY <2>1, <2>3, <3>1 DEF ToggleInv, Within, SetsInterface
  <2> QED
    BY <2>2, <2>3
<1>2. CASE \E r \in Requests : Setup(r)
  <2>1. PICK r \in Requests : Setup(r)
    BY <1>2
  <2>2. /\ stage = "idle" /\ stage' = "pending" /\ setup_data' = r
        /\ SetsInterface(r) => accepted = acknowledged
        /\ UNCHANGED <<toggle, hostToggle, outResets, accepted, acknowledged>>
    BY <2>1 DEF Setup, Quiet, Reconfigures, bulkVars, countVars, haltVars
  <2> QED
    BY <2>2 DEF ToggleInv, Within, SetsInterface
<1>3. CASE sudav_isr
  <2>1. /\ stage \in {"handled", "released"} /\ stage' = "served"
        /\ UNCHANGED <<setup_data, toggle, hostToggle, outResets, accepted, acknowledged>>
    BY <1>3 DEF sudav_isr, bulkVars, countVars, haltVars
  <2> QED
    BY <2>1 DEF ToggleInv, Within, SetsInterface
<1>4. CASE Completes
  <2>1. stage = "served" /\ stage' = "idle"
    BY <1>4 DEF Completes
  <2>2. CASE ~SetsInterface(setup_data)
    <3>1. Within
      BY <2>1, <2>2 DEF ToggleInv
    <3> QED
      BY <1>4, <2>1, <2>2, <3>1, WithinCompletes DEF ToggleInv
  <2>3. CASE SetsInterface(setup_data)
    <3>1. /\ ~EP0STALL /\ setup_data \in Requests
          /\ Standard(setup_data, "OUT", "interface")
      BY <2>1, <2>3 DEF ControlInv, AnswerInv, Answering, Handled, TypeOK
    <3>2. hostToggle'["OUT"] = 0 /\ toggle'["OUT"] = 0
      BY <1>4, <2>1, <2>3, <3>1
         DEF Completes, RestartsFor, ChoosesSetting, Asks, SetsInterface, ToggleInv, Dirs
    <3>3. /\ accepted' = acknowledged' /\ accepted' \in Nat /\ outResets' \in Nat
      <4>1. accepted = acknowledged
        BY <2>1, <2>3 DEF ToggleInv
      <4>2. outResets' \in Nat
        BY TypeStep DEF TypeOK
      <4> QED
        BY <1>4, <4>1, <4>2 DEF Completes, countVars, TypeOK
    <3>4. Within'
      <4>1. accepted' - acknowledged' \in (0 - outResets') .. outResets'
        BY <3>3, NoDrift
      <4> QED
        BY <3>2, <4>1 DEF Within
    <3> QED
      BY <2>1, <3>4 DEF ToggleInv
  <2> QED
    BY <2>2, <2>3
<1>5. ASSUME NEW heard \in BOOLEAN, BulkOut(heard) PROVE ToggleInv'
  <2>1. ~Setting /\ UNCHANGED <<stage, setup_data>>
    BY <1>5 DEF BulkOut, BulkRuns, Reconfigures, controlVars
  <2>2. Within'
    BY <1>5, <2>1, WithinOut DEF ToggleInv
  <2> QED
    BY <2>1, <2>2 DEF ToggleInv, SetsInterface
<1>6. ASSUME NEW heard \in BOOLEAN, BulkIn(heard) PROVE ToggleInv'
  <2>1. ~Setting /\ UNCHANGED <<stage, setup_data, outResets, accepted, acknowledged>>
    BY <1>6 DEF BulkIn, BulkRuns, Reconfigures, controlVars, haltVars
  <2>2. toggle'["OUT"] = toggle["OUT"] /\ hostToggle'["OUT"] = hostToggle["OUT"]
    BY <1>6 DEF BulkIn, TypeOK, Dirs
  <2> QED
    BY <2>1, <2>2 DEF ToggleInv, Within, SetsInterface
<1>7. CASE UNCHANGED <<stage, setup_data, toggle, hostToggle, countVars, haltVars>>
  BY <1>7 DEF ToggleInv, Within, SetsInterface, countVars, haltVars
<1> QED
  BY <1>1, <1>2, <1>3, <1>4, <1>5, <1>6, <1>7
     DEF Next, FirmwareArms, CaptureDrops, vars, controlVars, bulkVars

\* A packet the host believes delivered was accepted, and accepted once,
\* but for one packet lost or repeated at each CLEAR_FEATURE and each
\* SET_CONFIGURATION.
THEOREM OutCorrect == Spec => []OutExactlyOnce
<1>1. Init => ToggleInv
  BY DEF Init, ToggleInv, Within, Setting, Dirs
<1>2. ControlInv /\ ToggleInv => OutExactlyOnce
  <2> SUFFICES ASSUME ControlInv, ToggleInv, ~overtaken
               PROVE  accepted - acknowledged \in (0 - outResets) .. (1 + outResets)
    BY DEF OutExactlyOnce
  <2>1. accepted \in Nat /\ acknowledged \in Nat /\ outResets \in Nat
    BY DEF ControlInv, TypeOK
  <2>2. accepted = acknowledged \/ Within
    BY DEF ToggleInv
  <2> QED
    BY <2>1, <2>2 DEF Within
<1> QED
  BY <1>1, <1>2, ControlInit, ControlStep, ToggleStep, PTL DEF Spec

-----------------------------------------------------------------------------
(* What the SIE streams.                                                   *)

\* SUDPTR is what GET_DESCRIPTOR made of the request being served: a SETUP
\* that overtakes sudav_isr takes it away.
StreamInv == SUDPTR # None => SUDPTR = GetDescriptor(setup_data).descr

LEMMA OthersStreamNothing ==
    ASSUME NEW r, NEW reply \in Replies(r), reply.descr # None
    PROVE  reply = GetDescriptor(r)
<1>1. Stall.descr = None /\ Ack.descr = None /\ \A x : Data(x).descr = None
  BY DEF Stall, Ack, Data
<1>2. ClearFeatureReply(r).descr = None /\ SetFeatureReply(r).descr = None
  BY <1>1 DEF ClearFeatureReply, SetFeatureReply
<1>3. \A answer \in StatusReplies(r, halted) : answer.descr = None
  BY <1>1 DEF StatusReplies
<1> QED
  BY <1>1, <1>2, <1>3, RepliesOf

LEMMA StreamStep == StreamInv /\ [Next]_vars => StreamInv'
<1> SUFFICES ASSUME StreamInv, [Next]_vars, SUDPTR' # None
             PROVE  SUDPTR' = GetDescriptor(setup_data').descr
  BY DEF StreamInv, GetDescriptor, DescriptorReply
<1>1. CASE usb_handle_setup_data
  <2>1. PICK reply \in Replies(setup_data) : SUDPTR' = reply.descr
    BY <1>1 DEF usb_handle_setup_data
  <2>2. setup_data' = setup_data
    BY <1>1 DEF usb_handle_setup_data
  <2> QED
    BY <2>1, <2>2, OthersStreamNothing
<1>2. CASE ~usb_handle_setup_data
  <2>1. UNCHANGED <<setup_data, SUDPTR>>
    BY <1>2 DEF Next, Setup, sudav_isr, Completes, FirmwareArms, BulkOut, BulkIn, CaptureDrops,
                vars, controlVars
  <2> QED
    BY <2>1 DEF StreamInv
<1> QED
  BY <1>1, <1>2

LEMMA StreamsWhole ==
    ASSUME NEW r, GetDescriptor(r).descr # None,
           r.wValue = "string" /\ r.lang # 0
               => AsksForNamedString(r, device_descriptor, config_block)
    PROVE  GetDescriptor(r).descr \in DOMAIN Tables
<1>1. GetDescriptor(r) # Stall
  BY DEF Stall
<1>2. \A d : Points(d).descr = d
  BY DEF Points
<1>3. CASE r.wValue = "string" /\ r.lang = USB_LANG_ENGLISH_US
  <2>1. r.lang # 0
    BY <1>3 DEF USB_LANG_ENGLISH_US
  <2>2. r.index \in DOMAIN en_string_descriptors
    BY <1>3, <2>1, StringsNamed DEF AsksForNamedString, en_string_descriptors
  <2>3. GetDescriptor(r) = Points(en_string_descriptors[r.index])
    BY <1>3, <2>1, <2>2 DEF GetDescriptor, DescriptorReply
  <2> QED
    BY <1>2, <2>2, <2>3, NamesInTables
<1>4. CASE ~(r.wValue = "string" /\ r.lang = USB_LANG_ENGLISH_US)
  <2>1. GetDescriptor(r) \in {Points("device_descriptor"), Points("config_block"),
                              Points("language_descriptor")}
    BY <1>1, <1>4 DEF GetDescriptor, DescriptorReply
  <2> QED
    BY <1>2, <2>1, NamesInTables
<1> QED
  BY <1>3, <1>4

\* Whatever the host asks for that the descriptors name, and in whatever
\* order, what the SIE streams is one of the firmware's tables and all of it;
\* the configuration of 325 bytes parses to its end into 41 descriptors, with
\* the interfaces, the endpoints and the class-specific bytes it announces.
THEOREM DescriptorsCorrect == Spec => []DescriptorsWhole
<1>1. Init => StreamInv
  BY DEF Init, StreamInv
<1>2. StreamInv => DescriptorsWhole
  BY StreamsWhole, TablesWhole, WholeConfiguration DEF StreamInv, DescriptorsWhole
<1> QED
  BY <1>1, <1>2, StreamStep, PTL DEF Spec

\* The jacks of the configuration make cable n the socket n, both ways.
THEOREM CablesCorrect == Spec => []CablesMatchSockets
<1>1. CablesMatchSockets
  BY SocketsAreCables DEF CablesMatchSockets
<1> QED
  BY <1>1, PTL

=============================================================================
