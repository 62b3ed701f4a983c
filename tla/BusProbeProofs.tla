--------------------------- MODULE BusProbeProofs ---------------------------
(***************************************************************************)
(* The bus probe: its deferred write, for all addresses, values, requests  *)
(* and any number of writes; its tables, whatever they are asked for.      *)
(***************************************************************************)
EXTENDS BusProbe, WellFoundedInduction, SequenceTheorems, FiniteSetTheorems, TLAPS

-----------------------------------------------------------------------------
(* Induction; the lemmas of this part are also those of UsbControl's proofs. *)

LEMMA LeastNat ==
    ASSUME NEW T, T \subseteq Nat, T # {}
    PROVE  \E x \in T : \A y \in T : x <= y
<1>1. PICK R : R = OpToRel(<, Nat)
  OBVIOUS
<1>2. IsWellFoundedOn(R, Nat)
  BY <1>1, NatLessThanWellFounded
<1>3. PICK x \in T : \A y \in T : ~(<<y, x>> \in R)
  BY <1>2, WFMin
<1>4. \A y \in T : ~(y < x)
  BY <1>1, <1>3 DEF OpToRel
<1> QED
  BY <1>3, <1>4

\* The induction principle, for a set instead of a predicate.
LEMMA SetInduction ==
    ASSUME NEW T, T \subseteq Nat, 0 \in T, \A m \in T : m + 1 \in T
    PROVE  T = Nat
<1> SUFFICES ASSUME Nat \ T # {} PROVE FALSE
  OBVIOUS
<1>1. PICK x \in Nat \ T : \A y \in Nat \ T : x <= y
  BY LeastNat
<1>2. x # 0 /\ x - 1 \in Nat /\ ~(x <= x - 1)
  BY <1>1
<1>3. x - 1 \in T
  BY <1>1, <1>2
<1>4. x - 1 + 1 \in T
  BY <1>3
<1> QED
  BY <1>1, <1>4

-----------------------------------------------------------------------------
(* Following bLength.                                                      *)

Bytes == Seq(Int)

\* What is found from place i on, given what is found from later places on.
FoundAt(f, b, i) ==
    IF i > Len(b) THEN <<>>
    ELSE IF b[i] < 2 \/ i + b[i] > Len(b) + 1 THEN <<SubSeq(b, i, Len(b))>>
    ELSE <<SubSeq(b, i, i + b[i] - 1)>> \o f[i + b[i]]

Follows(f, b) == f = [i \in 1 .. Len(b) + 1 |-> FoundAt(f, b, i)]

LEMMA FollowsAt ==
    ASSUME NEW b, NEW f, Follows(f, b), NEW i \in 1 .. Len(b) + 1
    PROVE  f[i] = FoundAt(f, b, i)
  BY DEF Follows

\* The recursion has a solution: no place refers to an earlier one.
LEMMA FollowingExists ==
    ASSUME NEW b \in Bytes
    PROVE  \E f : Follows(f, b)
<1> DEFINE end == Len(b) + 1
           Good(f, i) == f[i] = FoundAt(f, b, i)
           From(f, n) == \A i \in 1 .. end : end - n <= i => Good(f, i)
           T == {n \in Nat : \E f : f = [i \in 1 .. end |-> f[i]] /\ From(f, n)}
<1>0. end \in Nat /\ 1 <= end /\ Len(b) \in Nat /\ \A i \in 1 .. Len(b) : b[i] \in Int
  BY DEF Bytes
<1>1. 0 \in T
  <2>1. PICK f : f = [i \in 1 .. end |-> <<>>]
    OBVIOUS
  <2>2. ASSUME NEW i \in 1 .. end, end - 0 <= i PROVE Good(f, i)
    <3>1. i > Len(b)
      BY <1>0, <2>2
    <3> QED
      BY <2>1, <3>1 DEF FoundAt
  <2>3. f = [i \in 1 .. end |-> f[i]] /\ From(f, 0)
    BY <2>1, <2>2
  <2> QED
    BY <2>3
<1>2. ASSUME NEW n \in T PROVE n + 1 \in T
  <2>0. n \in Nat
    OBVIOUS
  <2>1. PICK f : f = [i \in 1 .. end |-> f[i]] /\ From(f, n)
    OBVIOUS
  <2>2. PICK g : g = [i \in 1 .. end |-> IF i = end - (n + 1) THEN FoundAt(f, b, i) ELSE f[i]]
    OBVIOUS
  <2>3. ASSUME NEW i \in 1 .. end, end - (n + 1) <= i PROVE Good(g, i)
    <3>1. FoundAt(g, b, i) = FoundAt(f, b, i)
      <4>1. CASE i > Len(b) \/ b[i] < 2 \/ i + b[i] > Len(b) + 1
        BY <4>1 DEF FoundAt
      <4>2. CASE ~(i > Len(b) \/ b[i] < 2 \/ i + b[i] > Len(b) + 1)
        <5>1. i \in 1 .. Len(b) /\ b[i] \in Int /\ b[i] >= 2
          BY <1>0, <4>2
        <5>2. PICK to : to = i + b[i]
          OBVIOUS
        <5>3. to \in 1 .. end /\ to # end - (n + 1)
          BY <1>0, <2>0, <2>3, <4>2, <5>1, <5>2
        <5>4. g[to] = f[to]
          BY <2>2, <5>3
        <5> QED
          BY <5>2, <5>4 DEF FoundAt
      <4> QED
        BY <4>1, <4>2
    <3>2. g[i] = FoundAt(f, b, i)
      <4>1. CASE i = end - (n + 1)
        BY <2>2, <4>1
      <4>2. CASE i # end - (n + 1)
        <5>1. end - n <= i
          BY <1>0, <2>0, <2>3, <4>2
        <5> QED
          BY <2>1, <2>2, <4>2, <5>1
      <4> QED
        BY <4>1, <4>2
    <3> QED
      BY <3>1, <3>2
  <2>4. g = [i \in 1 .. end |-> g[i]]
    BY <2>2
  <2>5. n + 1 \in Nat /\ From(g, n + 1)
    BY <2>0, <2>3
  <2> HIDE DEF From
  <2> QED
    BY <2>4, <2>5
<1>3. T = Nat
  <2> HIDE DEF T
  <2>1. T \subseteq Nat
    BY DEF T
  <2> QED
    BY <1>1, <1>2, <2>1, SetInduction
<1>4. PICK f : f = [i \in 1 .. end |-> f[i]] /\ From(f, end)
  BY <1>0, <1>3
<1>5. \A i \in 1 .. end : f[i] = FoundAt(f, b, i)
  <2> SUFFICES ASSUME NEW i \in 1 .. end PROVE Good(f, i)
    OBVIOUS
  <2>1. end - end <= i
    BY <1>0
  <2> QED
    BY <1>4, <2>1
<1>6. Follows(f, b)
  BY <1>4, <1>5 DEF Follows
<1> QED
  BY <1>6

LEMMA DescriptorsAre ==
    ASSUME NEW b \in Bytes
    PROVE  \E f : Follows(f, b) /\ Descriptors(b) = f[1]
<1>1. PICK f : f = CHOOSE g : Follows(g, b)
  OBVIOUS
<1>2. Follows(f, b)
  BY <1>1, FollowingExists, Zenon
<1>3. Descriptors(b) = f[1]
  BY <1>1 DEF Descriptors, Follows, FoundAt
<1> QED
  BY <1>2, <1>3

\* x is a and c in one, all in a set of values.
IsJoin(S, x, a, c) ==
    /\ x \in Seq(S) /\ Len(x) = Len(a) + Len(c)
    /\ \A i \in 1 .. Len(a) : x[i] = a[i]
    /\ \A i \in 1 .. Len(c) : x[Len(a) + i] = c[i]

LEMMA Joined ==
    ASSUME NEW S, NEW a \in Seq(S), NEW c \in Seq(S)
    PROVE  IsJoin(S, a \o c, a, c)
  BY DEF IsJoin


\* One descriptor further.
LEMMA OneFurther ==
    ASSUME NEW b \in Bytes, NEW f, Follows(f, b), NEW i \in 1 .. Len(b), NEW n \in Nat,
           b[i] = n, n >= 2, i + n <= Len(b) + 1
    PROVE  f[i] = <<SubSeq(b, i, i + n - 1)>> \o f[i + n]
<1>1. Len(b) \in Nat
  BY DEF Bytes
<1>2. i \in 1 .. Len(b) + 1 /\ ~(i > Len(b)) /\ ~(b[i] < 2 \/ i + b[i] > Len(b) + 1)
  BY <1>1
<1>3. f[i] = FoundAt(f, b, i)
  BY <1>2, FollowsAt
<1> QED
  BY <1>2, <1>3 DEF FoundAt

\* The bytes of the configuration that anyone looks at.
LEMMA ConfigurationBytes ==
    /\ config_descriptor \in Bytes /\ Len(config_descriptor) = 32
    /\ config_descriptor[1] = 9 /\ config_descriptor[2] = 2 /\ config_descriptor[3] = 32
    /\ config_descriptor[4] = 0 /\ config_descriptor[5] = 1 /\ config_descriptor[6] = 1
    /\ config_descriptor[7] = 4 /\ config_descriptor[12] = 0
    /\ config_descriptor[10] = 9 /\ config_descriptor[11] = 4
    /\ config_descriptor[14] = 2 /\ config_descriptor[18] = 5
    /\ config_descriptor[19] = 7 /\ config_descriptor[20] = 5
    /\ config_descriptor[26] = 7 /\ config_descriptor[27] = 5
<1>1. PICK w, v : w = Word(9 + 9 + NUM_ENDPOINTS * 7) /\ v = Word(64)
  OBVIOUS
<1>2. w = <<32, 0>> /\ v = <<64, 0>>
  BY <1>1 DEF Word, NUM_ENDPOINTS
<1>3. PICK a, c, d : /\ a = <<9, TYPE_CONFIGURATION>> /\ c = <<1, 1, 4, 128, 50>>
                     /\ d = usb_interface_descriptor(0, NUM_ENDPOINTS, 255, 255, 255, 5)
  OBVIOUS
<1>4. /\ a \in Seq(Int) /\ c \in Seq(Int) /\ d \in Seq(Int) /\ w \in Seq(Int) /\ v \in Seq(Int)
      /\ a = <<9, 2>> /\ d = <<9, 4, 0, 0, 2, 255, 255, 255, 5>>
  BY <1>2, <1>3 DEF TYPE_CONFIGURATION, TYPE_INTERFACE, NUM_ENDPOINTS, usb_interface_descriptor
<1>5. PICK s1 : s1 = a \o w
  OBVIOUS
<1>6. s1 \in Seq(Int) /\ Len(s1) = 4 /\ s1[1] = 9 /\ s1[2] = 2 /\ s1[3] = 32 /\ s1[4] = 0
  <2>1. IsJoin(Int, s1, a, w)
    BY <1>4, <1>5, Joined
  <2>2. IsJoin(Int, s1, <<9, 2>>, <<32, 0>>)
    BY <1>2, <1>4, <2>1
  <2> QED
    BY <2>2 DEF IsJoin
<1>7. PICK s2 : s2 = s1 \o c
  OBVIOUS
<1>8. /\ s2 \in Seq(Int) /\ Len(s2) = 9 /\ s2[1] = 9 /\ s2[2] = 2 /\ s2[3] = 32 /\ s2[4] = 0
      /\ s2[5] = 1 /\ s2[6] = 1 /\ s2[7] = 4
  <2>1. IsJoin(Int, s2, s1, c)
    BY <1>4, <1>6, <1>7, Joined
  <2>2. Len(c) = 5 /\ c[1] = 1 /\ c[2] = 1 /\ c[3] = 4
    BY <1>3
  <2>3. /\ s2 \in Seq(Int) /\ Len(s2) = 4 + 5 /\ \A i \in 1 .. 4 : s2[i] = s1[i]
        /\ \A i \in 1 .. 5 : s2[4 + i] = c[i]
    BY <1>6, <2>1, <2>2 DEF IsJoin
  <2>4. s2[4 + 1] = c[1] /\ s2[4 + 2] = c[2] /\ s2[4 + 3] = c[3]
    BY <2>3
  <2> QED
    BY <1>6, <2>2, <2>3, <2>4
<1>9. PICK s3 : s3 = s2 \o d
  OBVIOUS
<1>10. /\ s3 \in Seq(Int) /\ Len(s3) = 18 /\ \A i \in 1 .. 9 : s3[i] = s2[i]
       /\ s3[10] = 9 /\ s3[11] = 4 /\ s3[12] = 0 /\ s3[14] = 2 /\ s3[18] = 5
  <2>1. IsJoin(Int, s3, s2, d)
    BY <1>4, <1>8, <1>9, Joined
  <2>2. Len(d) = 9 /\ d[1] = 9 /\ d[2] = 4 /\ d[3] = 0 /\ d[5] = 2 /\ d[9] = 5
    BY <1>4
  <2>3. /\ s3 \in Seq(Int) /\ Len(s3) = 9 + 9 /\ \A i \in 1 .. 9 : s3[i] = s2[i]
        /\ \A i \in 1 .. 9 : s3[9 + i] = d[i]
    BY <1>8, <2>1, <2>2 DEF IsJoin
  <2>4. /\ s3[9 + 1] = d[1] /\ s3[9 + 2] = d[2] /\ s3[9 + 3] = d[3]
        /\ s3[9 + 5] = d[5] /\ s3[9 + 9] = d[9]
    BY <2>3
  <2> QED
    BY <2>2, <2>3, <2>4
<1>11. ASSUME NEW address \in Int
       PROVE  /\ usb_endpoint_descriptor(address) \in Seq(Int)
              /\ Len(usb_endpoint_descriptor(address)) = 7
              /\ usb_endpoint_descriptor(address)[1] = 7
              /\ usb_endpoint_descriptor(address)[2] = 5
  <2>1. PICK e, z : e = <<7, TYPE_ENDPOINT, address, 2>> /\ z = <<0>>
    OBVIOUS
  <2>2. e \in Seq(Int) /\ Len(e) = 4 /\ e[1] = 7 /\ e[2] = 5 /\ z \in Seq(Int) /\ Len(z) = 1
    BY <2>1 DEF TYPE_ENDPOINT
  <2>3. PICK x : x = e \o v
    OBVIOUS
  <2>4. x \in Seq(Int) /\ Len(x) = 6 /\ x[1] = 7 /\ x[2] = 5
    <3>1. IsJoin(Int, x, e, v) /\ Len(v) = 2
      BY <1>2, <1>4, <2>2, <2>3, Joined
    <3> QED
      BY <2>2, <3>1 DEF IsJoin
  <2>5. PICK y : y = x \o z
    OBVIOUS
  <2>6. y \in Seq(Int) /\ Len(y) = 7 /\ y[1] = 7 /\ y[2] = 5
    <3>1. IsJoin(Int, y, x, z)
      BY <2>2, <2>4, <2>5, Joined
    <3> QED
      BY <2>2, <2>4, <3>1 DEF IsJoin
  <2>7. usb_endpoint_descriptor(address) = y
    BY <1>1, <2>1, <2>3, <2>5 DEF usb_endpoint_descriptor
  <2> QED
    BY <2>6, <2>7
<1>12. PICK e1, e2 : e1 = usb_endpoint_descriptor(130) /\ e2 = usb_endpoint_descriptor(2)
  OBVIOUS
<1>13. /\ e1 \in Seq(Int) /\ Len(e1) = 7 /\ e1[1] = 7 /\ e1[2] = 5
       /\ e2 \in Seq(Int) /\ Len(e2) = 7 /\ e2[1] = 7 /\ e2[2] = 5
  BY <1>11, <1>12
<1>14. PICK s4 : s4 = s3 \o e1
  OBVIOUS
<1>15. /\ s4 \in Seq(Int) /\ Len(s4) = 25 /\ \A i \in 1 .. 18 : s4[i] = s3[i]
       /\ s4[19] = 7 /\ s4[20] = 5
  <2>1. IsJoin(Int, s4, s3, e1)
    BY <1>10, <1>13, <1>14, Joined
  <2>2. /\ s4 \in Seq(Int) /\ Len(s4) = 18 + 7 /\ \A i \in 1 .. 18 : s4[i] = s3[i]
        /\ \A i \in 1 .. 7 : s4[18 + i] = e1[i]
    BY <1>10, <1>13, <2>1 DEF IsJoin
  <2>3. s4[18 + 1] = e1[1] /\ s4[18 + 2] = e1[2]
    BY <2>2
  <2> QED
    BY <1>13, <2>2, <2>3
<1>16. PICK s5 : s5 = s4 \o e2
  OBVIOUS
<1>17. /\ s5 \in Seq(Int) /\ Len(s5) = 32 /\ \A i \in 1 .. 25 : s5[i] = s4[i]
       /\ s5[26] = 7 /\ s5[27] = 5
  <2>1. IsJoin(Int, s5, s4, e2)
    BY <1>13, <1>15, <1>16, Joined
  <2>2. /\ s5 \in Seq(Int) /\ Len(s5) = 25 + 7 /\ \A i \in 1 .. 25 : s5[i] = s4[i]
        /\ \A i \in 1 .. 7 : s5[25 + i] = e2[i]
    BY <1>13, <1>15, <2>1 DEF IsJoin
  <2>3. s5[25 + 1] = e2[1] /\ s5[25 + 2] = e2[2]
    BY <2>2
  <2> QED
    BY <1>13, <2>2, <2>3
<1>18. config_descriptor = s5
  BY <1>1, <1>3, <1>5, <1>7, <1>9, <1>12, <1>14, <1>16
     DEF config_descriptor, usb_config_descriptor
<1>19. /\ \A i \in 1 .. 18 : s5[i] = s3[i]
       /\ s5[19] = 7 /\ s5[20] = 5
       /\ \A i \in 1 .. 9 : s5[i] = s2[i]
  <2>1. ASSUME NEW i \in 1 .. 18 PROVE s5[i] = s3[i]
    <3>1. i \in 1 .. 25
      OBVIOUS
    <3>2. s5[i] = s4[i]
      BY <1>17, <3>1
    <3>3. s4[i] = s3[i]
      BY <1>15
    <3> QED
      BY <3>2, <3>3
  <2>2. ASSUME NEW i \in 1 .. 9 PROVE s5[i] = s2[i]
    <3>1. i \in 1 .. 18 /\ s3[i] = s2[i]
      BY <1>10
    <3> QED
      BY <2>1, <3>1
  <2>3. s5[19] = 7 /\ s5[20] = 5
    BY <1>15, <1>17
  <2> QED
    BY <2>1, <2>2, <2>3
<1>20. /\ s5[10] = 9 /\ s5[11] = 4 /\ s5[12] = 0 /\ s5[14] = 2 /\ s5[18] = 5
       /\ s5[1] = 9 /\ s5[2] = 2 /\ s5[3] = 32 /\ s5[4] = 0 /\ s5[5] = 1 /\ s5[6] = 1
       /\ s5[7] = 4
  BY <1>8, <1>10, <1>19
<1> QED
  BY <1>17, <1>18, <1>19, <1>20 DEF Bytes

\* What the host finds: a configuration, an interface, two endpoints.
ConfigurationIs(ds) ==
    /\ Len(ds) = 4 /\ DOMAIN ds = 1 .. 4
    /\ Len(ds[1]) = 9 /\ ds[1][1] = 9 /\ ds[1][2] = 2
    /\ Len(ds[2]) = 9 /\ ds[2][1] = 9 /\ ds[2][2] = 4 /\ ds[2][5] = 2 /\ ds[2][9] = 5
    /\ Len(ds[3]) = 7 /\ ds[3][1] = 7 /\ ds[3][2] = 5
    /\ Len(ds[4]) = 7 /\ ds[4][1] = 7 /\ ds[4][2] = 5

LEMMA ConfigurationFound == ConfigurationIs(Descriptors(config_descriptor))
<1>1. PICK b : b = config_descriptor
  OBVIOUS
<1>2. /\ b \in Bytes /\ Len(b) = 32
      /\ b[1] = 9 /\ b[2] = 2 /\ b[10] = 9 /\ b[11] = 4 /\ b[14] = 2 /\ b[18] = 5
      /\ b[19] = 7 /\ b[20] = 5 /\ b[26] = 7 /\ b[27] = 5
  BY <1>1, ConfigurationBytes
<1>3. PICK f : Follows(f, b) /\ Descriptors(b) = f[1]
  BY <1>2, DescriptorsAre
<1>4. ASSUME NEW i \in 1 .. 32, NEW n \in 2 .. 9, b[i] = n, i + n <= 33,
             NEW d, d = SubSeq(b, i, i + n - 1)
      PROVE  /\ f[i] = <<d>> \o f[i + n]
             /\ d \in Seq(Int) /\ Len(d) = n /\ \A j \in 1 .. n : d[j] = b[i + j - 1]
  <2>1. f[i] = <<d>> \o f[i + n]
    <3>1. i \in 1 .. Len(b) /\ n \in Nat /\ n >= 2 /\ i + n <= Len(b) + 1
      BY <1>2, <1>4
    <3> QED
      BY <1>2, <1>3, <1>4, <3>1, OneFurther
  <2>2. PICK m : m = i + n - 1
    OBVIOUS
  <2>3. m \in Int /\ m <= 32 /\ i <= m /\ m - i + 1 = n /\ i \in Int
    BY <1>4, <2>2
  <2>4. \A j \in i .. m : b[j] \in Int
    <3>1. ASSUME NEW j \in i .. m PROVE b[j] \in Int
      <4>1. j \in 1 .. Len(b)
        BY <1>2, <1>4, <2>3
      <4> QED
        BY <1>2, <4>1, ElementOfSeq DEF Bytes
    <3> QED
      BY <3>1
  <2>5. /\ d \in Seq(Int) /\ Len(d) = IF i <= m THEN m - i + 1 ELSE 0
        /\ \A j \in 1 .. m - i + 1 : d[j] = b[i + j - 1]
    BY <1>4, <2>2, <2>3, <2>4, SubSeqProperties
  <2> QED
    BY <2>1, <2>3, <2>5
<1>5. PICK d1, d2, d3, d4 : /\ d1 = SubSeq(b, 1, 1 + 9 - 1) /\ d2 = SubSeq(b, 10, 10 + 9 - 1)
                            /\ d3 = SubSeq(b, 19, 19 + 7 - 1) /\ d4 = SubSeq(b, 26, 26 + 7 - 1)
  OBVIOUS
<1>6. /\ f[1] = <<d1>> \o f[10] /\ d1 \in Seq(Int) /\ Len(d1) = 9
      /\ d1[1] = 9 /\ d1[2] = 2
  <2>0. 1 \in 1 .. 32 /\ 9 \in 2 .. 9 /\ 1 + 9 <= 33
    OBVIOUS
  <2>1. /\ f[1] = <<d1>> \o f[1 + 9]
        /\ d1 \in Seq(Int) /\ Len(d1) = 9 /\ \A j \in 1 .. 9 : d1[j] = b[1 + j - 1]
    BY <1>2, <1>4, <1>5, <2>0
  <2>2. d1[1] = b[1 + 1 - 1] /\ d1[2] = b[1 + 2 - 1]
    BY <2>1
  <2> QED
    BY <1>2, <2>1, <2>2
<1>7. /\ f[10] = <<d2>> \o f[19] /\ d2 \in Seq(Int) /\ Len(d2) = 9
      /\ d2[1] = 9 /\ d2[2] = 4 /\ d2[5] = 2 /\ d2[9] = 5
  <2>0. 10 \in 1 .. 32 /\ 9 \in 2 .. 9 /\ 10 + 9 <= 33
    OBVIOUS
  <2>1. /\ f[10] = <<d2>> \o f[10 + 9]
        /\ d2 \in Seq(Int) /\ Len(d2) = 9 /\ \A j \in 1 .. 9 : d2[j] = b[10 + j - 1]
    BY <1>2, <1>4, <1>5, <2>0
  <2>2. /\ d2[1] = b[10 + 1 - 1] /\ d2[2] = b[10 + 2 - 1]
        /\ d2[5] = b[10 + 5 - 1] /\ d2[9] = b[10 + 9 - 1]
    BY <2>1
  <2> QED
    BY <1>2, <2>1, <2>2
<1>8. /\ f[19] = <<d3>> \o f[26] /\ d3 \in Seq(Int) /\ Len(d3) = 7
      /\ d3[1] = 7 /\ d3[2] = 5
  <2>0. 19 \in 1 .. 32 /\ 7 \in 2 .. 9 /\ 19 + 7 <= 33
    OBVIOUS
  <2>1. /\ f[19] = <<d3>> \o f[19 + 7]
        /\ d3 \in Seq(Int) /\ Len(d3) = 7 /\ \A j \in 1 .. 7 : d3[j] = b[19 + j - 1]
    BY <1>2, <1>4, <1>5, <2>0
  <2>2. d3[1] = b[19 + 1 - 1] /\ d3[2] = b[19 + 2 - 1]
    BY <2>1
  <2> QED
    BY <1>2, <2>1, <2>2
<1>9. /\ f[26] = <<d4>> \o f[33] /\ d4 \in Seq(Int) /\ Len(d4) = 7
      /\ d4[1] = 7 /\ d4[2] = 5
  <2>0. 26 \in 1 .. 32 /\ 7 \in 2 .. 9 /\ 26 + 7 <= 33
    OBVIOUS
  <2>1. /\ f[26] = <<d4>> \o f[26 + 7]
        /\ d4 \in Seq(Int) /\ Len(d4) = 7 /\ \A j \in 1 .. 7 : d4[j] = b[26 + j - 1]
    BY <1>2, <1>4, <1>5, <2>0
  <2>2. d4[1] = b[26 + 1 - 1] /\ d4[2] = b[26 + 2 - 1]
    BY <2>1
  <2> QED
    BY <1>2, <2>1, <2>2
<1>10. f[33] = <<>>
  <2>1. 33 \in 1 .. Len(b) + 1 /\ 33 > Len(b)
    BY <1>2
  <2> QED
    BY <1>3, <2>1, FollowsAt DEF FoundAt
<1>11. ASSUME NEW d \in Seq(Int), NEW rest \in Seq(Seq(Int))
       PROVE  IsJoin(Seq(Int), <<d>> \o rest, <<d>>, rest)
  <2>1. PICK one : one = <<d>>
    OBVIOUS
  <2>2. one \in Seq(Seq(Int))
    BY <2>1
  <2>3. IsJoin(Seq(Int), one \o rest, one, rest)
    BY <2>2, Joined
  <2> QED
    BY <2>1, <2>3
<1>12. PICK r1, r2, r3, r4 : r1 = f[1] /\ r2 = f[10] /\ r3 = f[19] /\ r4 = f[26]
  OBVIOUS
<1>13. r4 \in Seq(Seq(Int)) /\ Len(r4) = 1 /\ r4[1] = d4
  <2>1. f[33] \in Seq(Seq(Int)) /\ Len(f[33]) = 0
    BY <1>10
  <2>2. IsJoin(Seq(Int), r4, <<d4>>, f[33])
    BY <1>9, <1>11, <1>12, <2>1
  <2> QED
    BY <2>1, <2>2 DEF IsJoin
<1>14. r3 \in Seq(Seq(Int)) /\ Len(r3) = 2 /\ r3[1] = d3 /\ r3[2] = d4
  <2>1. IsJoin(Seq(Int), r3, <<d3>>, r4)
    BY <1>8, <1>11, <1>12, <1>13
  <2> QED
    BY <1>13, <2>1 DEF IsJoin
<1>15. r2 \in Seq(Seq(Int)) /\ Len(r2) = 3 /\ r2[1] = d2 /\ r2[2] = d3 /\ r2[3] = d4
  <2>1. IsJoin(Seq(Int), r2, <<d2>>, r3)
    BY <1>7, <1>11, <1>12, <1>14
  <2> QED
    BY <1>14, <2>1 DEF IsJoin
<1>16. /\ r1 \in Seq(Seq(Int)) /\ Len(r1) = 4
       /\ r1[1] = d1 /\ r1[2] = d2 /\ r1[3] = d3 /\ r1[4] = d4
  <2>1. IsJoin(Seq(Int), r1, <<d1>>, r2)
    BY <1>6, <1>11, <1>12, <1>15
  <2> QED
    BY <1>15, <2>1 DEF IsJoin
<1>17. DOMAIN r1 = 1 .. 4
  BY <1>16
<1>18. ConfigurationIs(r1)
  BY <1>6, <1>7, <1>8, <1>9, <1>16, <1>17 DEF ConfigurationIs
<1> QED
  BY <1>1, <1>3, <1>12, <1>18

-----------------------------------------------------------------------------
(* The configuration is what it says.                                      *)

LEMMA Types ==
    ASSUME NEW ds, ConfigurationIs(ds)
    PROVE  /\ Places(ds, TYPE_INTERFACE) = {2} /\ Places(ds, TYPE_ENDPOINT) = {3, 4}
           /\ Places(ds, CS_INTERFACE) = {} /\ Inside(ds, 2) = {3, 4}
<1>1. DOMAIN ds = {1, 2, 3, 4}
  BY DEF ConfigurationIs
<1>2. ds[1][2] = 2 /\ ds[2][2] = 4 /\ ds[3][2] = 5 /\ ds[4][2] = 5
  BY DEF ConfigurationIs
<1>3. Places(ds, TYPE_INTERFACE) = {2}
  BY <1>1, <1>2 DEF Places, TYPE_INTERFACE
<1>4. Inside(ds, 2) = {3, 4}
  BY <1>1, <1>3 DEF Inside
<1> QED
  BY <1>1, <1>2, <1>3, <1>4 DEF Places, TYPE_ENDPOINT, CS_INTERFACE

LEMMA WholeConfiguration ==
    /\ Announced(config_descriptor) = Len(config_descriptor)
    /\ ConfigurationWhole(config_descriptor)
<1>1. PICK ds, b : ds = Descriptors(config_descriptor) /\ b = config_descriptor
  OBVIOUS
<1>2. /\ ConfigurationIs(ds) /\ Inside(ds, 2) = {3, 4} /\ Places(ds, CS_INTERFACE) = {}
      /\ Places(ds, TYPE_INTERFACE) = {2} /\ Places(ds, TYPE_ENDPOINT) = {3, 4}
  BY <1>1, ConfigurationFound, Types
<1>3. Announced(b) = Len(b)
  <2>1. b[2] = 2 /\ b[3] = 32 /\ b[4] = 0 /\ b[3 + 1] = b[4] /\ Len(b) = 32
    BY <1>1, ConfigurationBytes
  <2> QED
    BY <2>1 DEF Announced, WordAt, TYPE_CONFIGURATION
<1>4. \A k \in DOMAIN ds : Len(ds[k]) >= 2 /\ Len(ds[k]) = ds[k][1]
  <2>1. DOMAIN ds = {1, 2, 3, 4}
    BY <1>2 DEF ConfigurationIs
  <2>2. Len(ds[1]) = 9 /\ ds[1][1] = 9 /\ Len(ds[2]) = 9 /\ ds[2][1] = 9
    BY <1>2 DEF ConfigurationIs
  <2>3. Len(ds[3]) = 7 /\ ds[3][1] = 7 /\ Len(ds[4]) = 7 /\ ds[4][1] = 7
    BY <1>2 DEF ConfigurationIs
  <2>4. ASSUME NEW k \in DOMAIN ds
        PROVE  Len(ds[k]) \in {7, 9} /\ Len(ds[k]) = ds[k][1]
    <3>1. k = 1 \/ k = 2 \/ k = 3 \/ k = 4
      BY <2>1
    <3> QED
      BY <2>2, <2>3, <3>1
  <2>5. \A n \in {7, 9} : n >= 2
    OBVIOUS
  <2> QED
    BY <2>4, <2>5
<1>5. Cardinality(Places(ds, TYPE_INTERFACE)) = b[5]
  BY <1>1, <1>2, ConfigurationBytes, FS_Singleton
<1>6. InterfaceWhole(ds, 2)
  <2>1. Cardinality({3, 4}) = 2
    <3>1. {3, 4} = {3} \cup {4} /\ 4 \notin {3}
      OBVIOUS
    <3>2. IsFiniteSet({3}) /\ Cardinality({3}) = 1
      BY FS_Singleton
    <3> QED
      BY <3>1, <3>2, FS_AddElement
  <2>2. ds[2][5] = 2
    BY <1>2 DEF ConfigurationIs
  <2>3. /\ Inside(ds, 2) \cap Places(ds, CS_INTERFACE) = {}
        /\ Inside(ds, 2) \cap Places(ds, TYPE_ENDPOINT) = {3, 4}
    BY <1>2
  <2> QED
    BY <2>1, <2>2, <2>3 DEF InterfaceWhole
<1>7. \A i \in Places(ds, TYPE_INTERFACE) : InterfaceWhole(ds, i)
  BY <1>2, <1>6
<1> QED
  BY <1>1, <1>3, <1>4, <1>5, <1>7 DEF ConfigurationWhole

-----------------------------------------------------------------------------
(* The other tables.                                                       *)

LEMMA DeviceFields ==
    /\ Len(device_descriptor) = 18 /\ device_descriptor[1] = 18 /\ device_descriptor[2] = 1
    /\ device_descriptor[15] = 1 /\ device_descriptor[16] = 2 /\ device_descriptor[17] = 3
<1>1. PICK S : S = Int
  OBVIOUS
<1>2. PICK w, x, y, z : w = Word(272) /\ x = Word(2638) /\ y = Word(4288) /\ z = Word(256)
  OBVIOUS
<1>3. /\ w \in Seq(S) /\ x \in Seq(S) /\ y \in Seq(S) /\ z \in Seq(S)
      /\ Len(w) = 2 /\ Len(x) = 2 /\ Len(y) = 2 /\ Len(z) = 2
  <2>1. w = <<16, 1>> /\ x = <<78, 10>> /\ y = <<192, 16>> /\ z = <<0, 1>>
    BY <1>2 DEF Word
  <2> QED
    BY <1>1, <2>1
<1>4. PICK a, b, c, d : /\ a = <<18, TYPE_DEVICE>> /\ b = <<255, 255, 255, 64>>
                        /\ c = <<1, 2, 3>> /\ d = <<1>>
  OBVIOUS
<1>5. a \in Seq(S) /\ b \in Seq(S) /\ c \in Seq(S) /\ d \in Seq(S)
  BY <1>1, <1>4 DEF TYPE_DEVICE
<1>6. PICK s1 : s1 = a \o w
  OBVIOUS
<1>7. s1 \in Seq(S) /\ Len(s1) = 4 /\ s1[1] = 18 /\ s1[2] = 1
  <2>1. IsJoin(S, s1, a, w)
    BY <1>3, <1>5, <1>6, Joined
  <2>2. Len(a) = 2 /\ a[1] = 18 /\ a[2] = 1
    BY <1>4 DEF TYPE_DEVICE
  <2> QED
    BY <1>3, <2>1, <2>2 DEF IsJoin
<1>8. PICK s2 : s2 = s1 \o b
  OBVIOUS
<1>9. s2 \in Seq(S) /\ Len(s2) = 8 /\ s2[1] = 18 /\ s2[2] = 1
  <2>1. IsJoin(S, s2, s1, b) /\ Len(b) = 4
    BY <1>4, <1>5, <1>7, <1>8, Joined
  <2> QED
    BY <1>7, <2>1 DEF IsJoin
<1>10. PICK s3 : s3 = s2 \o x
  OBVIOUS
<1>11. s3 \in Seq(S) /\ Len(s3) = 10 /\ s3[1] = 18 /\ s3[2] = 1
  <2>1. IsJoin(S, s3, s2, x)
    BY <1>3, <1>9, <1>10, Joined
  <2> QED
    BY <1>3, <1>9, <2>1 DEF IsJoin
<1>12. PICK s4 : s4 = s3 \o y
  OBVIOUS
<1>13. s4 \in Seq(S) /\ Len(s4) = 12 /\ s4[1] = 18 /\ s4[2] = 1
  <2>1. IsJoin(S, s4, s3, y)
    BY <1>3, <1>11, <1>12, Joined
  <2> QED
    BY <1>3, <1>11, <2>1 DEF IsJoin
<1>14. PICK s5 : s5 = s4 \o z
  OBVIOUS
<1>15. s5 \in Seq(S) /\ Len(s5) = 14 /\ s5[1] = 18 /\ s5[2] = 1
  <2>1. IsJoin(S, s5, s4, z)
    BY <1>3, <1>13, <1>14, Joined
  <2> QED
    BY <1>3, <1>13, <2>1 DEF IsJoin
<1>16. PICK s6 : s6 = s5 \o c
  OBVIOUS
<1>17. /\ s6 \in Seq(S) /\ Len(s6) = 17 /\ s6[1] = 18 /\ s6[2] = 1
       /\ s6[15] = 1 /\ s6[16] = 2 /\ s6[17] = 3
  <2>1. IsJoin(S, s6, s5, c)
    BY <1>5, <1>15, <1>16, Joined
  <2>2. Len(c) = 3 /\ c[1] = 1 /\ c[2] = 2 /\ c[3] = 3
    BY <1>4
  <2>3. /\ s6 \in Seq(S) /\ Len(s6) = 14 + 3 /\ \A i \in 1 .. 14 : s6[i] = s5[i]
        /\ \A i \in 1 .. 3 : s6[14 + i] = c[i]
    BY <1>15, <2>1, <2>2 DEF IsJoin
  <2>4. s6[14 + 1] = c[1] /\ s6[14 + 2] = c[2] /\ s6[14 + 3] = c[3]
    BY <2>3
  <2> QED
    BY <1>15, <2>2, <2>3, <2>4
<1>18. PICK s7 : s7 = s6 \o d
  OBVIOUS
<1>19. /\ Len(s7) = 18 /\ s7[1] = 18 /\ s7[2] = 1
       /\ s7[15] = 1 /\ s7[16] = 2 /\ s7[17] = 3
  <2>1. IsJoin(S, s7, s6, d) /\ Len(d) = 1
    BY <1>4, <1>5, <1>17, <1>18, Joined
  <2> QED
    BY <1>17, <2>1 DEF IsJoin
<1>20. device_descriptor = s7
  BY <1>2, <1>4, <1>6, <1>8, <1>10, <1>12, <1>14, <1>16, <1>18
     DEF device_descriptor, usb_device_descriptor
<1> QED
  BY <1>19, <1>20

\* The length written by hand is the number of the letters.
LEMMA StringWhole ==
    ASSUME NEW letters, NEW len \in Nat, Len(letters) = len
    PROVE  Announced(STR_DESCR(len, letters)) = Len(STR_DESCR(len, letters))
<1>1. PICK h, t : /\ h = <<2 * len + 2, TYPE_STRING>>
                  /\ t = [i \in 1 .. 2 * Len(letters) |-> IF i % 2 = 1 THEN 65 ELSE 0]
  OBVIOUS
<1>2. t \in Seq(Int) /\ Len(t) = 2 * len
  BY <1>1
<1>3. h \in Seq(Int) /\ Len(h) = 2 /\ h[1] = 2 * len + 2 /\ h[2] = 3
  BY <1>1 DEF TYPE_STRING
<1>4. PICK b : b = h \o t
  OBVIOUS
<1>5. IsJoin(Int, b, h, t)
  BY <1>2, <1>3, <1>4, Joined
<1>6. Len(b) = 2 + 2 * len /\ b[1] = 2 * len + 2 /\ b[2] = 3
  BY <1>2, <1>3, <1>5 DEF IsJoin
<1>7. STR_DESCR(len, letters) = b
  BY <1>1, <1>4 DEF STR_DESCR
<1> QED
  BY <1>6, <1>7 DEF Announced, TYPE_CONFIGURATION

LEMMA LanguageWhole == Announced(usb_language_descriptor) = Len(usb_language_descriptor)
<1>1. PICK h, t, S : /\ h = <<4, TYPE_STRING>> /\ t = Word(USB_LANG_ENGLISH_US)
                     /\ S = {3, 4, USB_LANG_ENGLISH_US % 256, USB_LANG_ENGLISH_US \div 256}
  OBVIOUS
<1>2. t \in Seq(S) /\ Len(t) = 2
  BY <1>1 DEF Word
<1>3. h \in Seq(S) /\ Len(h) = 2 /\ h[1] = 4 /\ h[2] = 3
  BY <1>1 DEF TYPE_STRING
<1>4. PICK b : b = h \o t
  OBVIOUS
<1>5. IsJoin(S, b, h, t)
  BY <1>2, <1>3, <1>4, Joined
<1>6. Len(b) = 4 /\ b[1] = 4 /\ b[2] = 3
  BY <1>2, <1>3, <1>5 DEF IsJoin
<1>7. usb_language_descriptor = b
  BY <1>1, <1>4 DEF usb_language_descriptor
<1> QED
  BY <1>6, <1>7 DEF Announced, TYPE_CONFIGURATION

\* Every table announces as many bytes as it has.
LEMMA TablesWhole ==
    \A name \in DOMAIN Tables : Announced(Tables[name]) = Len(Tables[name])
<1>1. Announced(device_descriptor) = Len(device_descriptor)
  BY DeviceFields DEF Announced, TYPE_CONFIGURATION
<1>2. Announced(Tables["strManufacturer"]) = Len(Tables["strManufacturer"])
  <2>1. PICK letters : letters = <<"S","t","e","i","n","b","e","r","g">>
    OBVIOUS
  <2>2. Len(letters) = 9 /\ 9 \in Nat
    BY <2>1
  <2> QED
    BY <2>1, <2>2, StringWhole DEF Tables
<1>3. Announced(Tables["strProduct"]) = Len(Tables["strProduct"])
  <2>1. PICK letters : letters = <<"M","I","D","E","X","8"," ","b","u","s","-","p","r","o","b","e">>
    OBVIOUS
  <2>2. Len(letters) = 16 /\ 16 \in Nat
    BY <2>1
  <2> QED
    BY <2>1, <2>2, StringWhole DEF Tables
<1>4. Announced(Tables["strSerialNumber"]) = Len(Tables["strSerialNumber"])
  <2>1. PICK letters : letters = <<"0","0","0","0","0","1">>
    OBVIOUS
  <2>2. Len(letters) = 6 /\ 6 \in Nat
    BY <2>1
  <2> QED
    BY <2>1, <2>2, StringWhole DEF Tables
<1>5. Announced(Tables["strConfigDescr"]) = Len(Tables["strConfigDescr"])
  <2>1. PICK letters : letters = <<"M","y","C","o","n","f","i","g">>
    OBVIOUS
  <2>2. Len(letters) = 8 /\ 8 \in Nat
    BY <2>1
  <2> QED
    BY <2>1, <2>2, StringWhole DEF Tables
<1>6. Announced(Tables["strInterface"]) = Len(Tables["strInterface"])
  <2>1. PICK letters : letters = <<"M","y","I","n","t","e","r","f","a","c","e">>
    OBVIOUS
  <2>2. Len(letters) = 11 /\ 11 \in Nat
    BY <2>1
  <2> QED
    BY <2>1, <2>2, StringWhole DEF Tables
<1>7. /\ Tables["device_descriptor"] = device_descriptor
      /\ Tables["config_descriptor"] = config_descriptor
      /\ Tables["language_descriptor"] = usb_language_descriptor
  BY DEF Tables
<1>8. DOMAIN Tables = {"device_descriptor", "config_descriptor", "language_descriptor",
                       "strManufacturer", "strProduct", "strSerialNumber",
                       "strConfigDescr", "strInterface"}
  BY DEF Tables
<1> QED
  BY <1>1, <1>2, <1>3, <1>4, <1>5, <1>6, <1>7, <1>8, LanguageWhole, WholeConfiguration

\* The strings that the descriptors name.
LEMMA StringsNamed == NamedStrings(device_descriptor, config_descriptor) \subseteq 1 .. 5
<1>1. PICK ds : ds = Descriptors(config_descriptor)
  OBVIOUS
<1>2. ConfigurationIs(ds) /\ Places(ds, TYPE_INTERFACE) = {2}
  BY <1>1, ConfigurationFound, Types
<1>3. \A k \in Places(ds, TYPE_INTERFACE) : ds[k][9] = 5
  BY <1>2 DEF ConfigurationIs
<1> QED
  BY <1>1, <1>3, DeviceFields, ConfigurationBytes DEF NamedStrings

-----------------------------------------------------------------------------
USE ProbeAssumption

Writings == Addresses \X Values

-----------------------------------------------------------------------------
(* The type invariant.                                                     *)

\* What a request is answered with.
LEMMA ReplyTypes ==
    ASSUME NEW r \in Requests, halted \in [Dirs -> BOOLEAN], xdata \in [Addresses -> Values],
           NEW reply \in Replies(r)
    PROVE  /\ reply.data \in {None} \cup (0 .. 1) \cup Values
           /\ reply.descr \in {None, "stray"} \cup DOMAIN Tables
           /\ reply.stall \in BOOLEAN
<1> USE DEF Data, Points, Ack, Stall
<1> DEFINE Good(x) == /\ x.data \in {None} \cup (0 .. 1) \cup Values
                      /\ x.descr \in {None, "stray"} \cup DOMAIN Tables
                      /\ x.stall \in BOOLEAN
<1>1. \A x \in GetStatus(r) : Good(x)
  <2>1. Good(Stall) /\ Good(Data(0)) /\ Good(Data(1))
    OBVIOUS
  <2>2. Bulk(r) => Flag(halted[r.ep]) \in {0, 1}
    BY DEF Flag, Bulk
  <2> HIDE DEF Good
  <2> QED
    BY <2>1, <2>2 DEF GetStatus, StatusReplies
<1>2. Good(ClearFeature(r)) /\ Good(SetFeature(r)) /\ Good(Stall) /\ Good(Ack)
  BY DEF ClearFeature, ClearFeatureReply, SetFeature, SetFeatureReply
<1>3. Good(GetDescriptor(r))
  BY DEF GetDescriptor, DescriptorReply, Tables, en_string_descriptors
<1>5. Good(Data(config_descriptor[6])) /\ Good(Data(config_descriptor[12]))
  BY ConfigurationBytes
<1>6. Good(Vendor(r))
  BY DEF Vendor
<1> HIDE DEF Good
<1>7. Good(reply)
  BY <1>1, <1>2, <1>3, <1>5, <1>6 DEF Replies
<1> QED
  BY <1>7 DEF Good

\* No step leaves the types.
LEMMA TypeStep == TypeOK /\ [Next]_vars => TypeOK'
<1> SUFFICES ASSUME TypeOK, [Next]_vars PROVE TypeOK'
  OBVIOUS
<1> USE DEF TypeOK, ep0Vars, pendVars, loopVars
<1>1. ASSUME NEW r \in Requests, Setup(r) PROVE TypeOK'
  BY <1>1 DEF Setup
<1>2. CASE sudav_isr
  <2>1. setup_data \in Requests
    BY <1>2 DEF sudav_isr
  <2>2. /\ IN0' \in {None} \cup (0 .. 1) \cup Values
        /\ SUDPTR' \in {None, "stray"} \cup DOMAIN Tables
        /\ EP0STALL' \in BOOLEAN
    BY <1>2, <2>1, ReplyTypes DEF sudav_isr
  <2>3. halted' \in [Dirs -> BOOLEAN]
    BY <1>2 DEF sudav_isr, HaltsAfterRequest, Halts, Unhalts, Bulk, Standard
  <2>4. /\ pend_addr' \in Addresses /\ pend_val' \in Values /\ pend_write' \in BOOLEAN
        /\ asked' \in Seq(Addresses \X Values) /\ hurried' \in BOOLEAN
    <3>1. CASE Writes(setup_data)
      <4>1. <<setup_data.addr, setup_data.val>> \in Addresses \X Values
        BY <2>1
      <4>2. /\ pend_addr' = setup_data.addr /\ pend_val' = setup_data.val
            /\ pend_write' = TRUE
            /\ asked' = Append(asked, <<setup_data.addr, setup_data.val>>)
            /\ hurried' = (hurried \/ pend_write)
        BY <1>2, <3>1 DEF sudav_isr, Note
      <4>3. asked' \in Seq(Addresses \X Values)
        BY <4>1, <4>2
      <4> QED
        BY <2>1, <4>2, <4>3
    <3>2. CASE ~Writes(setup_data)
      BY <1>2, <3>2 DEF sudav_isr, Note
    <3> QED
      BY <3>1, <3>2
  <2>5. stage' = "served" /\ UNCHANGED <<setup_data, loopVars, xdata, hammering, done>>
    BY <1>2 DEF sudav_isr
  <2> QED
    BY <2>1, <2>2, <2>3, <2>4, <2>5
<1>3. CASE Hammer
  <2>1. setup_data \in Requests
    BY <1>3 DEF Hammer
  <2>2. xdata' \in [Addresses -> Values] /\ pend_val' \in Values
    BY <1>3, <2>1 DEF Hammer
  <2> QED
    BY <1>3, <2>1, <2>2 DEF Hammer
<1>4. CASE MainTest
  BY <1>4 DEF MainTest, Main
<1>5. ASSUME NEW part \in DOMAIN Nothing, MainFetch(part) PROVE TypeOK'
  <2>1. part \in {"high", "low", "val"}
    BY DEF Nothing
  <2>2. pend_addr[1] \in AddrBytes /\ pend_addr[2] \in AddrBytes
    BY DEF Addresses
  <2>3. fetched' \in [high : AddrBytes \cup {None}, low : AddrBytes \cup {None},
                      val : Values \cup {None}]
    BY <1>5, <2>1, <2>2 DEF MainFetch
  <2> QED
    BY <1>5, <2>3 DEF MainFetch, Main
<1>6. CASE MainWrite
  <2>1. <<fetched.high, fetched.low>> \in Addresses /\ fetched.val \in Values
    BY <1>6 DEF MainWrite, Addresses
  <2>2. <<<<fetched.high, fetched.low>>, fetched.val>> \in Addresses \X Values
    BY <2>1
  <2>3. done' \in Seq(Addresses \X Values)
    BY <1>6, <2>2 DEF MainWrite
  <2>4. xdata' \in [Addresses -> Values]
    BY <1>6, <2>1 DEF MainWrite
  <2>5. fetched' \in [high : AddrBytes \cup {None}, low : AddrBytes \cup {None},
                      val : Values \cup {None}]
    BY <1>6 DEF MainWrite, Nothing
  <2> QED
    BY <1>6, <2>3, <2>4, <2>5 DEF MainWrite, Main
<1>7. CASE MainClear
  BY <1>7 DEF MainClear, Main
<1>8. CASE Completes
  BY <1>8 DEF Completes
<1>9. CASE UNCHANGED vars
  BY <1>9 DEF vars
<1> QED
  BY <1>1, <1>2, <1>3, <1>4, <1>5, <1>6, <1>7, <1>8, <1>9 DEF Next, MainLoop

LEMMA TypeInit == Init => TypeOK
<1>1. ASSUME Init PROVE <<>> \in Seq(Addresses \X Values)
  OBVIOUS
<1>2. ASSUME Init PROVE fetched \in [high : AddrBytes \cup {None},
                                    low : AddrBytes \cup {None}, val : Values \cup {None}]
  BY <1>2 DEF Init, Nothing
<1>3. ASSUME Init PROVE xdata \in [Addresses -> Values] /\ halted \in [Dirs -> BOOLEAN]
  BY <1>3 DEF Init
<1> QED
  BY <1>1, <1>2, <1>3 DEF Init, TypeOK

\* Every variable of the probe keeps its type, and no answer is anything but a
\* byte, a table or a stall.
THEOREM TypeCorrect == Spec => []TypeOK
  BY TypeInit, TypeStep, PTL DEF Spec

-----------------------------------------------------------------------------
(* The note.                                                               *)

\* The write the host asked for last, as the interrupt has noted it.
Noted == <<pend_addr, pend_val>>

\* While no write comes before the one before is made, the loop and the host
\* are at most one write apart, and that one is the note; of it the loop has
\* fetched what it has fetched.
NoteInv ==
    ~hurried /\ ~hammering =>
        /\ at \in {"fetch", "clear"} => pend_write
        /\ pend_write /\ at # "clear" => asked = Append(done, Noted)
        /\ ~(pend_write /\ at # "clear") => asked = done
        /\ at # "fetch" => fetched = Nothing
        /\ fetched.high \in {None, pend_addr[1]}
        /\ fetched.low \in {None, pend_addr[2]}
        /\ fetched.val \in {None, pend_val}

ProbeInv == TypeOK /\ NoteInv /\ WritesOnce

\* The two ways the writes made can relate to the writes asked for.
LEMMA PrefixFacts ==
    ASSUME NEW s \in Seq(Writings)
    PROVE  /\ IsPrefix(s, s)
           /\ \A w \in Writings : /\ IsPrefix(s, Append(s, w))
                                  /\ Len(Append(s, w)) - Len(s) = 1
<1>1. IsPrefix(s, s)
  BY DEF IsPrefix
<1>2. ASSUME NEW w \in Writings
      PROVE  IsPrefix(s, Append(s, w)) /\ Len(Append(s, w)) - Len(s) = 1
  <2>1. Len(Append(s, w)) = Len(s) + 1 /\ Append(s, w) \in Seq(Writings)
    OBVIOUS
  <2>2. SubSeq(Append(s, w), 1, Len(s)) = SubSeq(s, 1, Len(s))
    OBVIOUS
  <2> QED
    BY <2>1, <2>2 DEF IsPrefix
<1> QED
  BY <1>1, <1>2

\* Between hammerings WritesOnce is what the note says.
LEMMA NoteGivesOnce == TypeOK /\ NoteInv /\ ~hammering => WritesOnce
<1> SUFFICES ASSUME TypeOK, NoteInv, ~hammering, ~hurried
             PROVE  /\ IsPrefix(done, asked)
                    /\ Len(asked) - Len(done) \in {0, 1}
                    /\ pend_write \/ done = asked
  BY DEF WritesOnce
<1>1. done \in Seq(Writings) /\ Noted \in Writings
  BY DEF TypeOK, Noted, Writings
<1>2. CASE pend_write /\ at # "clear"
  <2>1. asked = Append(done, Noted)
    BY <1>2 DEF NoteInv
  <2> QED
    BY <1>1, <1>2, <2>1, PrefixFacts
<1>3. CASE ~(pend_write /\ at # "clear")
  <2>1. asked = done
    BY <1>3 DEF NoteInv
  <2>2. Len(done) - Len(done) = 0
    BY <1>1
  <2> QED
    BY <1>1, <2>1, <2>2, PrefixFacts
<1> QED
  BY <1>2, <1>3

LEMMA NoteStep == TypeOK /\ TypeOK' /\ NoteInv /\ [Next]_vars => NoteInv'
<1> SUFFICES ASSUME TypeOK, TypeOK', NoteInv, [Next]_vars, ~hurried', ~hammering'
             PROVE  NoteInv'
  BY DEF NoteInv
<1> USE DEF NoteInv, Noted, ep0Vars, pendVars, loopVars
<1>1. ASSUME NEW r \in Requests, Setup(r) PROVE NoteInv'
  BY <1>1 DEF Setup
\* The interrupt: a write is noted only when there is no note.
<1>2. CASE sudav_isr
  <2>1. CASE Writes(setup_data)
    <3>1. ~pend_write /\ ~hurried /\ ~hammering
      BY <1>2, <2>1 DEF sudav_isr, Note
    <3>2. asked = done /\ at \notin {"fetch", "clear"} /\ fetched = Nothing
      BY <3>1
    <3>3. /\ pend_write' /\ UNCHANGED <<at, fetched, done>>
          /\ asked' = Append(asked, <<pend_addr', pend_val'>>)
      BY <1>2, <2>1 DEF sudav_isr, Note
    <3> QED
      BY <3>2, <3>3 DEF Nothing
  <2>2. CASE ~Writes(setup_data)
    BY <1>2, <2>2 DEF sudav_isr, Note
  <2> QED
    BY <2>1, <2>2
<1>3. CASE Hammer
  BY <1>3 DEF Hammer
<1>4. CASE MainTest
  BY <1>4 DEF MainTest, Main
<1>5. ASSUME NEW part \in DOMAIN Nothing, MainFetch(part) PROVE NoteInv'
  <2>1. part \in {"high", "low", "val"}
    BY DEF Nothing
  <2>2. /\ fetched'.high \in {None, pend_addr[1]}
        /\ fetched'.low \in {None, pend_addr[2]}
        /\ fetched'.val \in {None, pend_val}
    BY <1>5, <2>1 DEF MainFetch, Main, TypeOK
  <2> QED
    BY <1>5, <2>2 DEF MainFetch, Main
\* What has been fetched by now is the note, whole.
<1>6. CASE MainWrite
  <2>1. /\ fetched.high = pend_addr[1] /\ fetched.low = pend_addr[2]
        /\ fetched.val = pend_val
    BY <1>6 DEF MainWrite, Main, TypeOK
  <2>2. <<pend_addr[1], pend_addr[2]>> = pend_addr
    BY DEF TypeOK, Addresses
  <2>3. done' = Append(done, Noted)
    BY <1>6, <2>1, <2>2 DEF MainWrite
  <2>4. asked' = done'
    BY <1>6, <2>3 DEF MainWrite, Main
  <2> QED
    BY <1>6, <2>4 DEF MainWrite, Main, Nothing
<1>7. CASE MainClear
  BY <1>7 DEF MainClear, Main
<1>8. CASE Completes
  BY <1>8 DEF Completes
<1>9. CASE UNCHANGED vars
  BY <1>9 DEF vars
<1> QED
  BY <1>1, <1>2, <1>3, <1>4, <1>5, <1>6, <1>7, <1>8, <1>9 DEF Next, MainLoop

\* A bus that is hammered leaves the two histories as they are.
LEMMA HammeredStep ==
    TypeOK /\ TypeOK' /\ NoteInv /\ WritesOnce /\ [Next]_vars /\ hammering' => WritesOnce'
<1> SUFFICES ASSUME WritesOnce, [Next]_vars, hammering' PROVE WritesOnce'
  OBVIOUS
<1>1. UNCHANGED <<asked, done, hurried, pend_write>>
  <2>1. ~MainLoop
    BY DEF MainLoop, MainTest, MainFetch, MainWrite, MainClear, Main, ep0Vars, pendVars
  <2> QED
    BY <2>1 DEF Next, Setup, sudav_isr, Hammer, Completes, vars, ep0Vars, pendVars, loopVars
<1> QED
  BY <1>1 DEF WritesOnce

LEMMA InitInv == Init => ProbeInv
<1>1. Init => NoteInv
  BY DEF Init, NoteInv, Nothing
<1> QED
  BY <1>1, TypeInit, NoteGivesOnce DEF ProbeInv, Init

LEMMA ProbeStep == ProbeInv /\ [Next]_vars => ProbeInv'
<1> SUFFICES ASSUME ProbeInv, [Next]_vars PROVE ProbeInv'
  OBVIOUS
<1>1. TypeOK' /\ NoteInv'
  BY TypeStep, NoteStep DEF ProbeInv
<1>2. WritesOnce'
  BY <1>1, HammeredStep, NoteGivesOnce, PTL DEF ProbeInv
<1> QED
  BY <1>1, <1>2 DEF ProbeInv

\* As long as the host waits for one write before it asks for the next, the
\* writes made are those asked for, whole, once and in order, wherever the
\* interrupt falls between the bytes the main loop fetches.
THEOREM WritesOnceCorrect == Spec => []WritesOnce
  BY InitInv, ProbeStep, PTL DEF Spec, ProbeInv

-----------------------------------------------------------------------------
(* The memory.                                                             *)

WritesTo(s, a) == {i \in DOMAIN s : s[i][1] = a}

\* The last write to an address exists.
HasLast(s, a) == WritesTo(s, a) = {} \/ Max(WritesTo(s, a)) \in WritesTo(s, a)

\* One more write is the last one to its address, and changes no other.
LEMMA LastAppend ==
    ASSUME NEW s \in Seq(Writings), NEW w \in Writings, NEW a \in Addresses, HasLast(s, a)
    PROVE  /\ LastIn(Append(s, w), a) = IF w[1] = a THEN w[2] ELSE LastIn(s, a)
           /\ HasLast(Append(s, w), a)
<1> DEFINE u == Append(s, w)
           last == Len(s) + 1
<1>1. /\ DOMAIN s = 1 .. Len(s) /\ Len(s) \in Nat
      /\ DOMAIN u = 1 .. last
      /\ u[last] = w /\ \A i \in 1 .. Len(s) : u[i] = s[i]
  OBVIOUS
<1> HIDE DEF u
<1>2. CASE w[1] = a
  <2>1. last \in WritesTo(u, a)
    BY <1>1, <1>2 DEF WritesTo
  <2>2. \A i \in WritesTo(u, a) : i \in 1 .. last
    BY <1>1 DEF WritesTo
  <2>3. Max(WritesTo(u, a)) = last
    <3>1. \A i \in WritesTo(u, a) : last >= i
      BY <2>2
    <3>2. \A x \in WritesTo(u, a) :
              (\A i \in WritesTo(u, a) : x >= i) => x = last
      BY <1>1, <2>1, <2>2
    <3> QED
      BY <2>1, <3>1, <3>2 DEF Max
  <2> QED
    BY <1>1, <1>2, <2>1, <2>3 DEF LastIn, HasLast, WritesTo, u
<1>3. CASE w[1] # a
  <2>1. WritesTo(u, a) = WritesTo(s, a)
    BY <1>1, <1>3 DEF WritesTo
  <2>2. WritesTo(s, a) # {} => u[Max(WritesTo(s, a))] = s[Max(WritesTo(s, a))]
    BY <1>1 DEF HasLast, WritesTo
  <2> QED
    BY <1>3, <2>1, <2>2 DEF LastIn, HasLast, WritesTo, u
<1> QED
  BY <1>2, <1>3

\* What is in memory is what the main loop wrote there last.
MemoryInv ==
    ~hammering =>
        \A a \in Addresses : xdata[a] = LastIn(done, a) /\ HasLast(done, a)

LEMMA MemoryStep == TypeOK /\ MemoryInv /\ [Next]_vars => MemoryInv'
<1> SUFFICES ASSUME TypeOK, MemoryInv, [Next]_vars, ~hammering' PROVE MemoryInv'
  BY DEF MemoryInv
<1>1. CASE MainWrite
  <2> DEFINE w == <<<<fetched.high, fetched.low>>, fetched.val>>
  <2>1. <<fetched.high, fetched.low>> \in Addresses /\ fetched.val \in Values
    BY <1>1 DEF MainWrite, Addresses, TypeOK
  <2>2. /\ w \in Writings /\ w[1] \in Addresses
        /\ done' = Append(done, w) /\ done \in Seq(Writings)
        /\ xdata' = [xdata EXCEPT ![w[1]] = w[2]]
        /\ ~hammering
    BY <1>1, <2>1 DEF MainWrite, Main, Writings, TypeOK
  <2> HIDE DEF w
  <2>3. ASSUME NEW a \in Addresses
        PROVE  xdata'[a] = LastIn(done', a) /\ HasLast(done', a)
    <3>1. xdata[a] = LastIn(done, a) /\ HasLast(done, a)
      BY <2>2 DEF MemoryInv
    <3>2. /\ LastIn(done', a) = IF w[1] = a THEN w[2] ELSE LastIn(done, a)
          /\ HasLast(done', a)
      BY <2>2, <3>1, LastAppend
    <3>3. xdata'[a] = IF w[1] = a THEN w[2] ELSE xdata[a]
      BY <2>2 DEF TypeOK
    <3> QED
      BY <3>1, <3>2, <3>3
  <2> QED
    BY <2>3 DEF MemoryInv
<1>2. CASE ~MainWrite
  <2>1. UNCHANGED <<done, xdata, hammering>>
    BY <1>2 DEF Next, MainLoop, Setup, sudav_isr, Hammer, MainTest, MainFetch, MainClear,
                Completes, vars, ep0Vars, pendVars, loopVars
  <2> QED
    BY <2>1 DEF MemoryInv
<1> QED
  BY <1>1, <1>2

\* A read brings back what the host wrote to that address last, as soon as no
\* write is pending: once the loop has taken its note back the write is made.
THEOREM ReadsFreshCorrect == Spec => ReadsFresh
<1> DEFINE FreshStep == sudav_isr /\ Reads(setup_data) /\ ~pend_write /\ ~hurried
                            => IN0' = LastIn(asked, setup_data.addr)
<1>1. Init => MemoryInv
  <2> SUFFICES ASSUME Init, NEW a \in Addresses
               PROVE  xdata[a] = LastIn(done, a) /\ HasLast(done, a)
    BY DEF MemoryInv
  <2>1. WritesTo(<<>>, a) = {}
    BY DEF WritesTo
  <2> QED
    BY <2>1 DEF Init, LastIn, HasLast, WritesTo
<1>2. ProbeInv /\ MemoryInv /\ [Next]_vars => [FreshStep]_vars
  <2> SUFFICES ASSUME ProbeInv, MemoryInv, sudav_isr, Reads(setup_data), ~pend_write, ~hurried
               PROVE  IN0' = LastIn(asked, setup_data.addr)
    OBVIOUS
  <2>1. setup_data \in Requests /\ ~hammering
    BY DEF sudav_isr, ProbeInv, TypeOK
  <2>2. asked = done
    BY <2>1 DEF ProbeInv, NoteInv
  <2>3. Replies(setup_data) = {Data(xdata[setup_data.addr])}
    BY DEF Replies, Vendor, Reads
  <2>4. IN0' = xdata[setup_data.addr]
    BY <2>3 DEF sudav_isr, Data
  <2> QED
    BY <2>1, <2>2, <2>4 DEF MemoryInv
<1>3. ProbeInv /\ MemoryInv /\ [Next]_vars => MemoryInv'
  BY MemoryStep DEF ProbeInv
<1> QED
  BY <1>1, <1>2, <1>3, InitInv, ProbeStep, PTL DEF Spec, ReadsFresh

-----------------------------------------------------------------------------
(* What the SIE streams.                                                   *)

\* SUDPTR is what GET_DESCRIPTOR made of the request being served.
StreamInv == SUDPTR # None => SUDPTR = GetDescriptor(setup_data).descr

LEMMA OthersStreamNothing ==
    ASSUME NEW r, NEW reply \in Replies(r), reply.descr # None
    PROVE  reply = GetDescriptor(r)
<1>1. Stall.descr = None /\ Ack.descr = None /\ \A x : Data(x).descr = None
  BY DEF Stall, Ack, Data
<1>2. ClearFeature(r).descr = None /\ SetFeature(r).descr = None
  BY <1>1 DEF ClearFeature, SetFeature, ClearFeatureReply, SetFeatureReply
<1>3. \A answer \in GetStatus(r) : answer.descr = None
  BY <1>1 DEF GetStatus, StatusReplies
<1>4. Vendor(r).descr = None
  BY <1>1 DEF Vendor
<1> QED
  BY <1>1, <1>2, <1>3, <1>4 DEF Replies

LEMMA StreamStep == StreamInv /\ [Next]_vars => StreamInv'
<1> SUFFICES ASSUME StreamInv, [Next]_vars, SUDPTR' # None
             PROVE  SUDPTR' = GetDescriptor(setup_data').descr
  BY DEF StreamInv, GetDescriptor, DescriptorReply
<1>1. CASE sudav_isr
  <2>1. PICK reply \in Replies(setup_data) : SUDPTR' = reply.descr
    BY <1>1 DEF sudav_isr
  <2>2. setup_data' = setup_data
    BY <1>1 DEF sudav_isr
  <2> QED
    BY <2>1, <2>2, OthersStreamNothing
<1>2. CASE ~sudav_isr
  <2>1. UNCHANGED <<setup_data, SUDPTR>>
    BY <1>2 DEF Next, Setup, Hammer, MainLoop, MainTest, MainFetch, MainWrite, MainClear,
                Completes, vars, ep0Vars
  <2> QED
    BY <2>1 DEF StreamInv
<1> QED
  BY <1>1, <1>2

LEMMA NamesInTables ==
    /\ {"device_descriptor", "config_descriptor", "language_descriptor"} \subseteq DOMAIN Tables
    /\ DOMAIN en_string_descriptors = 1 .. 5
    /\ \A i \in 1 .. 5 : en_string_descriptors[i] \in DOMAIN Tables
<1>1. PICK names : names = en_string_descriptors
  OBVIOUS
<1>2. /\ DOMAIN names = {1, 2, 3, 4, 5}
      /\ names[1] = "strManufacturer" /\ names[2] = "strProduct" /\ names[3] = "strSerialNumber"
      /\ names[4] = "strConfigDescr" /\ names[5] = "strInterface"
  BY <1>1 DEF en_string_descriptors
<1>3. DOMAIN Tables = {"device_descriptor", "config_descriptor", "language_descriptor",
                       "strManufacturer", "strProduct", "strSerialNumber",
                       "strConfigDescr", "strInterface"}
  BY DEF Tables
<1>4. 1 .. 5 = {1, 2, 3, 4, 5}
  OBVIOUS
<1> QED
  BY <1>1, <1>2, <1>3, <1>4

LEMMA StreamsWhole ==
    ASSUME NEW r, GetDescriptor(r).descr # None,
           r.wValue = "string" /\ r.lang # 0
               => AsksForNamedString(r, device_descriptor, config_descriptor)
    PROVE  GetDescriptor(r).descr \in DOMAIN Tables
<1>1. GetDescriptor(r) # Stall
  BY DEF Stall
<1>2. \A d : Points(d).descr = d
  BY DEF Points
<1>3. CASE r.wValue = "string" /\ r.lang = USB_LANG_ENGLISH_US
  <2>1. r.lang # 0
    BY <1>3 DEF USB_LANG_ENGLISH_US
  <2>2. r.index \in 1 .. 5
    BY <1>3, <2>1, StringsNamed DEF AsksForNamedString
  <2>3. GetDescriptor(r) = Points(en_string_descriptors[r.index])
    BY <1>3, <2>1, <2>2, NamesInTables DEF GetDescriptor, DescriptorReply
  <2> QED
    BY <1>2, <2>2, <2>3, NamesInTables
<1>4. CASE ~(r.wValue = "string" /\ r.lang = USB_LANG_ENGLISH_US)
  <2>1. GetDescriptor(r) \in {Points("device_descriptor"), Points("config_descriptor"),
                              Points("language_descriptor")}
    BY <1>1, <1>4 DEF GetDescriptor, DescriptorReply
  <2> QED
    BY <1>2, <2>1, NamesInTables
<1> QED
  BY <1>3, <1>4

\* Whatever the host asks for that the descriptors name, what the SIE streams
\* is one of the probe's tables and all of it; the configuration of 32 bytes
\* parses to its end into the one interface and the two endpoint descriptors
\* that it announces.
THEOREM DescriptorsCorrect == Spec => []DescriptorsWhole
<1>1. Init => StreamInv
  BY DEF Init, StreamInv
<1>2. StreamInv => DescriptorsWhole
  BY StreamsWhole, TablesWhole, WholeConfiguration DEF StreamInv, DescriptorsWhole
<1> QED
  BY <1>1, <1>2, StreamStep, PTL DEF Spec

=============================================================================
