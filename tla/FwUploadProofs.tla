--------------------------- MODULE FwUploadProofs ---------------------------
(***************************************************************************)
(* The uploader, for any number of tools, files, memory size, runs and     *)
(* faults: only the whole image of a well-formed file is ever let run, and *)
(* the exit status says so.                                                *)
(***************************************************************************)
EXTENDS FwUpload, WellFoundedInduction, TLAPS

-----------------------------------------------------------------------------
(* Induction.                                                              *)

LEMMA LeastNat ==
    ASSUME NEW T, T \subseteq Nat, T # {}
    PROVE  \E x \in T : \A y \in T : x <= y
<1>1. PICK R : R = OpToRel(<, Nat)
  OBVIOUS
<1>2. IsWellFoundedOn(R, Nat)
  BY <1>1, NatLessThanWellFounded
<1>3. PICK x \in T : \A y \in T : ~(<<y, x>> \in R)
  BY <1>2, WFMin
<1>4. \A y \in T : ~(y < x)
  BY <1>1, <1>3 DEF OpToRel
<1> QED
  BY <1>3, <1>4

\* The induction principle, for a set instead of a predicate.
LEMMA SetInduction ==
    ASSUME NEW T, T \subseteq Nat, 0 \in T, \A m \in T : m + 1 \in T
    PROVE  T = Nat
<1> SUFFICES ASSUME Nat \ T # {} PROVE FALSE
  OBVIOUS
<1>1. PICK x \in Nat \ T : \A y \in Nat \ T : x <= y
  BY LeastNat
<1>2. x # 0 /\ x - 1 \in Nat /\ ~(x <= x - 1)
  BY <1>1
<1>3. x - 1 \in T
  BY <1>1, <1>2
<1>4. x - 1 + 1 \in T
  BY <1>3
<1> QED
  BY <1>1, <1>4

\* Induction up to n, for a set instead of a predicate.
LEMMA UpTo ==
    ASSUME NEW n \in Nat, NEW T, 0 \in T, \A k \in 1 .. n : k - 1 \in T => k \in T
    PROVE  \A k \in 0 .. n : k \in T
<1>1. PICK D : D = {k \in Nat : k <= n => k \in T}
  OBVIOUS
<1>2. ASSUME NEW k \in D PROVE k + 1 \in D
  <2>1. k \in Nat /\ k + 1 \in Nat /\ (k + 1) - 1 = k
    BY <1>1
  <2>2. k + 1 <= n => k + 1 \in 1 .. n /\ k \in T
    BY <1>1, <2>1
  <2> QED
    BY <1>1, <2>1, <2>2
<1>3. D \subseteq Nat /\ 0 \in D
  BY <1>1
<1>4. D = Nat
  BY <1>2, <1>3, SetInduction
<1> QED
  BY <1>1, <1>4

-----------------------------------------------------------------------------
(* Division with remainder.                                                *)

Multiple(n, u) == \E q \in Int : u = n * q

LEMMA Quotient ==
    ASSUME NEW n \in Nat \ {0}, NEW x \in Int
    PROVE  x % n \in 0 .. n - 1 /\ \E u \in Int : Multiple(n, u) /\ x = u + (x % n)
<1>1. x \div n \in Int /\ n * (x \div n) \in Int
      /\ x % n \in 0 .. n - 1 /\ x = n * (x \div n) + (x % n)
  OBVIOUS
<1> QED
  BY <1>1 DEF Multiple

LEMMA MultipleSum ==
    ASSUME NEW n \in Nat \ {0}, NEW u, Multiple(n, u), NEW v, Multiple(n, v)
    PROVE  Multiple(n, u + v) /\ Multiple(n, u - v) /\ Multiple(n, -u)
<1>1. PICK q \in Int, p \in Int : u = n * q /\ v = n * p
  BY DEF Multiple
<1>2. u + v = n * (q + p) /\ u - v = n * (q - p) /\ -u = n * (-q)
  BY <1>1
<1>3. q + p \in Int /\ q - p \in Int /\ -q \in Int
  OBVIOUS
<1> QED
  BY <1>2, <1>3 DEF Multiple

\* The only multiple within n of 0.
LEMMA MultipleSmall ==
    ASSUME NEW n \in Nat \ {0}, NEW u \in Int, Multiple(n, u), u < n, -n < u
    PROVE  u = 0
<1>1. PICK q \in Int : u = n * q
  BY DEF Multiple
<1>2. ~(q >= 1)
  BY <1>1
<1>3. ~(q <= -1)
  BY <1>1
<1> QED
  BY <1>1, <1>2, <1>3

\* There is only one remainder.
LEMMA Remainder ==
    ASSUME NEW n \in Nat \ {0}, NEW u \in Int, Multiple(n, u), NEW r \in 0 .. n - 1,
           NEW x \in Int, x = u + r
    PROVE  x % n = r
<1>1. PICK s : s = x % n
  OBVIOUS
<1>2. s \in 0 .. n - 1 /\ \E v \in Int : Multiple(n, v) /\ x = v + s
  BY <1>1, Quotient
<1>3. PICK v \in Int : Multiple(n, v) /\ x = v + s
  BY <1>2
<1>4. PICK w \in Int : w = u - v
  OBVIOUS
<1>5. Multiple(n, w)
  BY <1>3, <1>4, MultipleSum
<1>6. w = s - r /\ w < n /\ -n < w
  BY <1>2, <1>3, <1>4
<1>7. w = 0
  BY <1>5, <1>6, MultipleSmall
<1> QED
  BY <1>1, <1>2, <1>6, <1>7

\* A sum may be cut to the address space before more is added to it.
LEMMA CutFirst ==
    ASSUME NEW n \in Nat \ {0}, NEW x \in Int, NEW y \in Int
    PROVE  ((x % n) + y) % n = (x + y) % n
<1>1. PICK r : r = x % n
  OBVIOUS
<1>2. r \in 0 .. n - 1 /\ \E u \in Int : Multiple(n, u) /\ x = u + r
  BY <1>1, Quotient
<1>3. PICK u \in Int : Multiple(n, u) /\ x = u + r
  BY <1>2
<1>4. PICK z \in Int : z = r + y
  BY <1>2
<1>5. PICK s : s = z % n
  OBVIOUS
<1>6. s \in 0 .. n - 1 /\ \E v \in Int : Multiple(n, v) /\ z = v + s
  BY <1>5, Quotient
<1>7. PICK v \in Int : Multiple(n, v) /\ z = v + s
  BY <1>6
<1>8. PICK w \in Int : w = u + v
  OBVIOUS
<1>9. PICK t \in Int : t = x + y
  OBVIOUS
<1>10. Multiple(n, w)
  BY <1>3, <1>7, <1>8, MultipleSum
<1>11. t = w + s
  BY <1>2, <1>3, <1>4, <1>6, <1>7, <1>8, <1>9
<1>12. w \in Int /\ t \in Int /\ s \in 0 .. n - 1
  BY <1>6
<1>13. t % n = s
  BY <1>10, <1>11, <1>12, Remainder
<1> QED
  BY <1>1, <1>4, <1>5, <1>9, <1>13

-----------------------------------------------------------------------------
(* What a file parses to.                                                  *)

Start == [base |-> 0, recs |-> <<>>, end |-> FALSE, ok |-> TRUE]

\* The recursion of parse_ihex has a solution.
Reads(s, f) ==
    s = [k \in 0 .. Len(f) |-> IF k = 0 THEN Start ELSE AfterLine(s[k - 1], f[k])]

LEMMA ReadsAt ==
    ASSUME NEW f, Len(f) \in Nat, NEW s, Reads(s, f)
    PROVE  /\ s[0] = Start
           /\ \A k \in 1 .. Len(f) : s[k] = AfterLine(s[k - 1], f[k])
<1>1. \A k \in 0 .. Len(f) :
         s[k] = IF k = 0 THEN Start ELSE AfterLine(s[k - 1], f[k])
  BY DEF Reads
<1>2. 0 \in 0 .. Len(f) /\ \A k \in 1 .. Len(f) : k \in 0 .. Len(f) /\ k # 0
  OBVIOUS
<1> QED
  BY <1>1, <1>2

LEMMA ReadingExists ==
    ASSUME NEW f, Len(f) \in Nat
    PROVE  \E s : Reads(s, f)
<1> DEFINE Good(s, k) ==
              s[k] = IF k = 0 THEN Start ELSE AfterLine(s[k - 1], f[k])
           To(s, n) == \A k \in 0 .. Len(f) : k <= n => Good(s, k)
           T == {n \in Nat : \E s : s = [k \in 0 .. Len(f) |-> s[k]] /\ To(s, n)}
<1>1. 0 \in T
  <2>1. PICK s : s = [k \in 0 .. Len(f) |-> Start]
    OBVIOUS
  <2>2. s = [k \in 0 .. Len(f) |-> s[k]] /\ To(s, 0)
    BY <2>1
  <2> QED
    BY <2>2
<1>2. ASSUME NEW n \in T PROVE n + 1 \in T
  <2>0. n \in Nat /\ 0 \in 0 .. Len(f)
    OBVIOUS
  <2>1. PICK s : s = [k \in 0 .. Len(f) |-> s[k]] /\ To(s, n)
    OBVIOUS
  <2>2. PICK x : x = AfterLine(s[n], f[n + 1])
    OBVIOUS
  <2>3. PICK u : u = [k \in 0 .. Len(f) |-> IF k = n + 1 THEN x ELSE s[k]]
    OBVIOUS
  <2>4. ASSUME NEW k \in 0 .. Len(f), k <= n + 1 PROVE Good(u, k)
    <3>1. CASE k = 0
      <4>1. k <= n /\ k # n + 1
        BY <2>0, <3>1
      <4>2. Good(s, k)
        BY <2>1, <4>1
      <4>3. u[k] = s[k]
        BY <2>3, <4>1
      <4> QED
        BY <3>1, <4>2, <4>3
    <3>2. CASE k # 0 /\ k <= n
      <4>1. k - 1 \in 0 .. Len(f) /\ k - 1 # n + 1 /\ k # n + 1
        BY <2>0, <3>2
      <4>2. u[k] = s[k] /\ u[k - 1] = s[k - 1] /\ Good(s, k)
        BY <2>1, <2>3, <3>2, <4>1
      <4> QED
        BY <3>2, <4>2
    <3>3. CASE k = n + 1
      <4>1. k - 1 = n /\ n \in 0 .. Len(f) /\ n # n + 1 /\ k # 0
        BY <2>0, <3>3
      <4>2. u[k] = x /\ u[n] = s[n]
        BY <2>3, <3>3, <4>1
      <4> QED
        BY <2>2, <3>3, <4>1, <4>2
    <3> QED
      BY <2>0, <2>4, <3>1, <3>2, <3>3
  <2>5. To(u, n + 1)
    BY <2>4
  <2>6. u = [k \in 0 .. Len(f) |-> u[k]]
    BY <2>3
  <2>7. n + 1 \in Nat
    BY <2>0
  <2> HIDE DEF To
  <2> QED
    BY <2>5, <2>6, <2>7
<1>3. T = Nat
  <2> HIDE DEF T
  <2>1. T \subseteq Nat
    BY DEF T
  <2> QED
    BY <1>1, <1>2, <2>1, SetInduction
<1>4. PICK s : s = [k \in 0 .. Len(f) |-> s[k]] /\ To(s, Len(f))
  BY <1>3
<1>5. \A k \in 0 .. Len(f) :
         s[k] = IF k = 0 THEN Start ELSE AfterLine(s[k - 1], f[k])
  <2> SUFFICES ASSUME NEW k \in 0 .. Len(f) PROVE Good(s, k)
    OBVIOUS
  <2>1. k <= Len(f)
    OBVIOUS
  <2> QED
    BY <1>4, <2>1
<1>6. Reads(s, f)
  BY <1>4, <1>5 DEF Reads
<1> QED
  BY <1>6

LEMMA ParseIs ==
    ASSUME NEW f, Len(f) \in Nat
    PROVE  \E s : Reads(s, f) /\ parse_ihex(f) = s[Len(f)]
<1>1. PICK s : s = CHOOSE u : Reads(u, f)
  OBVIOUS
<1>2. Reads(s, f)
  BY <1>1, ReadingExists, Zenon
<1>3. parse_ihex(f) = s[Len(f)]
  BY <1>1 DEF parse_ihex, Reads, Start
<1> QED
  BY <1>2, <1>3

-----------------------------------------------------------------------------
(* What its lines say, and the records the parser makes of them.           *)

Rec == [addr : Address, data : Seq(0 .. 255)]
States == [base : Nat, recs : Seq(Rec), end : BOOLEAN, ok : BOOLEAN]

LEMMA LineTypes ==
    ASSUME NEW l \in Line
    PROVE  /\ l.type \in {"data", "base", "eof", "skip", "bad"}
           /\ l.type = "data" => /\ l.addr \in Nat /\ l.data \in Seq(0 .. 255)
                                 /\ l.fits \in BOOLEAN
           /\ l.type = "base" => l.base \in Nat
  BY SizesAssumption DEF Line, Address

\* The record the parser makes of line n.
RecordOf(f, n) == [addr |-> RecordAddr(BaseAt(f, n), f[n].addr), data |-> f[n].data]

\* The data lines of the body up to line n.
DataLines(f, n) == {k \in Body(f) : k <= n /\ f[k].type = "data"}

\* ln[m] is the line that record m was read from.
From(f, n, rs, ln) ==
    /\ ln \in [1 .. Len(rs) -> DataLines(f, n)]
    /\ \A m1, m2 \in 1 .. Len(rs) : m1 < m2 => ln[m1] < ln[m2]
    /\ \A k \in DataLines(f, n) : \E m \in 1 .. Len(rs) : ln[m] = k
    /\ \A m \in 1 .. Len(rs) : rs[m] = RecordOf(f, ln[m])

\* A parser that has found nothing wrong up to line n.
Fitting(f, n, s) ==
    /\ s.end <=> \E k \in 1 .. n : f[k].type = "eof"
    /\ ~s.end => s.base = BaseAt(f, n)
    /\ \A k \in Body(f) : k <= n => f[k].type # "bad" /\ (f[k].type = "data" => f[k].fits)
    /\ \E ln : From(f, n, s.recs, ln)

ReadTo(f, n, s) == s \in States /\ (s.ok => Fitting(f, n, s))

LEMMA BodyNext ==
    ASSUME NEW f, Len(f) \in Nat, NEW n \in 0 .. Len(f) - 1
    PROVE  /\ n + 1 \in Body(f) <=> /\ f[n + 1].type # "eof"
                                    /\ ~\E k \in 1 .. n : f[k].type = "eof"
           /\ \A k : k \in Body(f) => k \in Nat /\ (k <= n + 1 <=> k <= n \/ k = n + 1)
<1>1. \A k \in 1 .. n + 1 : k \in 1 .. n \/ k = n + 1
  OBVIOUS
<1>2. n + 1 \in 1 .. Len(f) /\ n + 1 \in 1 .. n + 1 /\ \A k \in 1 .. n : k \in 1 .. n + 1
  OBVIOUS
<1>3. \A k : k \in Body(f) => k \in Nat
  BY DEF Body
<1>4. \A k \in Nat : k <= n + 1 <=> k <= n \/ k = n + 1
  OBVIOUS
<1> QED
  BY <1>1, <1>2, <1>3, <1>4 DEF Body

\* The base in force changes at a base line only.
LEMMA BaseNext ==
    ASSUME NEW f, Len(f) \in Nat, NEW n \in 0 .. Len(f) - 1
    PROVE  BaseAt(f, n + 1) = IF f[n + 1].type = "base" THEN f[n + 1].base
                                                        ELSE BaseAt(f, n)
<1> DEFINE Set(m) == {k \in 1 .. m : f[k].type = "base"}
           Last(S) == CHOOSE k \in S : \A j \in S : j <= k
<1>0. \A m : BaseAt(f, m) = IF Set(m) = {} THEN 0 ELSE f[Last(Set(m))].base
  BY DEF BaseAt
<1>1. CASE f[n + 1].type = "base"
  <2>1. n + 1 \in Set(n + 1) /\ \A j \in Set(n + 1) : j <= n + 1
    BY <1>1
  <2>2. \A k \in Set(n + 1) : (\A j \in Set(n + 1) : j <= k) => k = n + 1
    BY <2>1
  <2>3. Last(Set(n + 1)) = n + 1
    <3> HIDE DEF Set
    <3> QED
      BY <2>1, <2>2
  <2>4. Set(n + 1) # {}
    BY <2>1
  <2> HIDE DEF Set, Last
  <2> QED
    BY <1>0, <1>1, <2>3, <2>4
<1>2. CASE f[n + 1].type # "base"
  <2>1. Set(n + 1) = Set(n)
    BY <1>2
  <2> HIDE DEF Set, Last
  <2> QED
    BY <1>0, <1>2, <2>1
<1> QED
  BY <1>1, <1>2

LEMMA BaseNat ==
    ASSUME NEW f \in Seq(Line), NEW n \in 0 .. Len(f)
    PROVE  BaseAt(f, n) \in Nat
<1>1. PICK T : T = {m \in Nat : m <= Len(f) => BaseAt(f, m) \in Nat}
  OBVIOUS
<1>2. 0 \in T
  <2>1. {k \in 1 .. 0 : f[k].type = "base"} = {}
    OBVIOUS
  <2>2. BaseAt(f, 0) = 0
    BY <2>1 DEF BaseAt
  <2> QED
    BY <1>1, <2>2
<1>3. ASSUME NEW m \in T PROVE m + 1 \in T
  <2>1. m \in Nat
    BY <1>1
  <2>2. CASE m + 1 <= Len(f)
    <3>1. f[m + 1] \in Line /\ m \in 0 .. Len(f) - 1 /\ BaseAt(f, m) \in Nat
      BY <1>1, <2>1, <2>2
    <3> QED
      BY <1>1, <2>1, <3>1, BaseNext, LineTypes
  <2> QED
    BY <1>1, <2>1, <2>2
<1>4. T = Nat
  BY <1>1, <1>2, <1>3, SetInduction
<1> QED
  BY <1>1, <1>4

\* A line that is no data line of the body changes no record.
LEMMA FromKept ==
    ASSUME NEW f, Len(f) \in Nat, NEW n \in 0 .. Len(f) - 1, NEW rs, NEW ln,
           From(f, n, rs, ln), n + 1 \notin Body(f) \/ f[n + 1].type # "data"
    PROVE  From(f, n + 1, rs, ln)
<1>1. DataLines(f, n + 1) = DataLines(f, n)
  BY BodyNext DEF DataLines
<1> QED
  BY <1>1 DEF From

\* A data line of the body makes one record more.
LEMMA FromGrows ==
    ASSUME NEW f, Len(f) \in Nat, NEW n \in 0 .. Len(f) - 1, NEW rs \in Seq(Rec), NEW ln,
           From(f, n, rs, ln), n + 1 \in Body(f), f[n + 1].type = "data",
           NEW x, x = RecordOf(f, n + 1), x \in Rec
    PROVE  \E l2 : From(f, n + 1, Append(rs, x), l2)
<1>1. PICK k \in Nat : k = Len(rs)
  OBVIOUS
<1>2. PICK r2 : r2 = Append(rs, x)
  OBVIOUS
<1>3. Len(r2) = k + 1 /\ r2[k + 1] = x /\ \A m \in 1 .. k : r2[m] = rs[m]
  BY <1>1, <1>2
<1>4. PICK l2 : l2 = [m \in 1 .. k + 1 |-> IF m = k + 1 THEN n + 1 ELSE ln[m]]
  OBVIOUS
<1>5. l2[k + 1] = n + 1 /\ \A m \in 1 .. k : l2[m] = ln[m]
  BY <1>1, <1>4
<1>6. /\ ln \in [1 .. k -> DataLines(f, n)]
      /\ \A m1, m2 \in 1 .. k : m1 < m2 => ln[m1] < ln[m2]
      /\ \A d \in DataLines(f, n) : \E m \in 1 .. k : ln[m] = d
      /\ \A m \in 1 .. k : rs[m] = RecordOf(f, ln[m])
  BY <1>1 DEF From
<1>7. DataLines(f, n + 1) = DataLines(f, n) \cup {n + 1}
  BY BodyNext DEF DataLines
<1>8. \A d \in DataLines(f, n) : d \in Nat /\ d <= n
  BY DEF DataLines, Body
<1>9. \A m \in 1 .. k + 1 : m \in 1 .. k \/ m = k + 1
  BY <1>1
<1>10. l2 \in [1 .. k + 1 -> DataLines(f, n + 1)]
  <2>1. \A m \in 1 .. k + 1 : l2[m] \in DataLines(f, n + 1)
    BY <1>5, <1>6, <1>7, <1>9
  <2> QED
    BY <1>4, <2>1
<1>11. \A m1, m2 \in 1 .. k + 1 : m1 < m2 => l2[m1] < l2[m2]
  <2> SUFFICES ASSUME NEW m1 \in 1 .. k + 1, NEW m2 \in 1 .. k + 1, m1 < m2
               PROVE  l2[m1] < l2[m2]
    OBVIOUS
  <2>1. m1 \in 1 .. k
    BY <1>1
  <2>2. CASE m2 \in 1 .. k
    BY <1>5, <1>6, <2>1, <2>2
  <2>3. CASE m2 = k + 1
    <3>1. ln[m1] \in Nat /\ ln[m1] <= n
      BY <1>6, <1>8, <2>1
    <3> QED
      BY <1>5, <2>1, <2>3, <3>1
  <2> QED
    BY <1>9, <2>2, <2>3
<1>12. \A d \in DataLines(f, n + 1) : \E m \in 1 .. k + 1 : l2[m] = d
  <2>1. k + 1 \in 1 .. k + 1 /\ \A m \in 1 .. k : m \in 1 .. k + 1
    BY <1>1
  <2> QED
    BY <1>5, <1>6, <1>7, <2>1
<1>13. \A m \in 1 .. k + 1 : r2[m] = RecordOf(f, l2[m])
  BY <1>3, <1>5, <1>6, <1>9
<1>14. From(f, n + 1, r2, l2)
  BY <1>3, <1>10, <1>11, <1>12, <1>13 DEF From
<1> QED
  BY <1>2, <1>14

LEMMA AddressTyped ==
    ASSUME NEW base \in Nat, NEW addr \in Nat
    PROVE  RecordAddr(base, addr) \in Address
<1>1. (base + addr) % AddrSpace \in 0 .. AddrSpace - 1
  BY SizesAssumption, Quotient
<1> QED
  BY <1>1 DEF RecordAddr, Address

LEMMA RecordTyped ==
    ASSUME NEW f \in Seq(Line), NEW n \in 1 .. Len(f), f[n].type = "data"
    PROVE  RecordOf(f, n) \in Rec
<1>1. BaseAt(f, n) \in Nat /\ f[n] \in Line
  BY BaseNat
<1>2. f[n].addr \in Nat /\ f[n].data \in Seq(0 .. 255)
  BY <1>1, LineTypes
<1>3. RecordAddr(BaseAt(f, n), f[n].addr) \in Address
  BY <1>1, <1>2, AddressTyped
<1> QED
  BY <1>2, <1>3 DEF RecordOf, Rec

LEMMA ReadStart == ASSUME NEW f \in Seq(Line) PROVE ReadTo(f, 0, Start)
<1>1. Start \in States
  BY DEF Start, States
<1>2. BaseAt(f, 0) = 0
  <2>1. {k \in 1 .. 0 : f[k].type = "base"} = {}
    OBVIOUS
  <2> QED
    BY <2>1 DEF BaseAt
<1>3. \A k \in Body(f) : ~(k <= 0)
  BY DEF Body
<1>4. From(f, 0, <<>>, <<>>)
  <2>1. DataLines(f, 0) = {}
    BY <1>3 DEF DataLines
  <2> QED
    BY <2>1 DEF From
<1>5. Fitting(f, 0, Start)
  <2>1. Start.end = FALSE /\ Start.base = 0 /\ Start.recs = <<>>
    BY DEF Start
  <2>2. ~\E k \in 1 .. 0 : f[k].type = "eof"
    OBVIOUS
  <2> QED
    BY <1>2, <1>3, <1>4, <2>1, <2>2 DEF Fitting
<1> QED
  BY <1>1, <1>5 DEF ReadTo

LEMMA EofNext ==
    ASSUME NEW f, NEW n \in Nat
    PROVE  (\E k \in 1 .. n + 1 : f[k].type = "eof") <=>
              (\E k \in 1 .. n : f[k].type = "eof") \/ f[n + 1].type = "eof"
<1>1. \A k \in 1 .. n + 1 : k \in 1 .. n \/ k = n + 1
  OBVIOUS
<1>2. n + 1 \in 1 .. n + 1 /\ \A k \in 1 .. n : k \in 1 .. n + 1
  OBVIOUS
<1> QED
  BY <1>1, <1>2

\* One line more.
LEMMA ReadNext ==
    ASSUME NEW f \in Seq(Line), NEW n \in 0 .. Len(f) - 1, NEW s, ReadTo(f, n, s),
           NEW z, z = AfterLine(s, f[n + 1])
    PROVE  ReadTo(f, n + 1, z)
<1>1. PICK l \in Line : l = f[n + 1]
  BY n + 1 \in 1 .. Len(f)
<1>2. /\ l.type \in {"data", "base", "eof", "skip", "bad"}
      /\ l.type = "data" => l.addr \in Nat /\ l.fits \in BOOLEAN
      /\ l.type = "base" => l.base \in Nat
  BY LineTypes
<1>3. /\ s \in States /\ (s.ok => Fitting(f, n, s))
      /\ s.base \in Nat /\ s.recs \in Seq(Rec) /\ s.end \in BOOLEAN /\ s.ok \in BOOLEAN
  BY DEF ReadTo, States
<1>4. Len(f) \in Nat /\ n \in Nat
  OBVIOUS
<1>5. z = AfterLine(s, l)
  BY <1>1
\* What a line that makes no record leaves, if it is not one of those refused.
<1>6. ASSUME s.ok, z.recs = s.recs, n + 1 \notin Body(f) \/ l.type # "data",
             n + 1 \in Body(f) => l.type # "bad",
             z.end <=> s.end \/ l.type = "eof",
             ~z.end => z.base = IF l.type = "base" THEN l.base ELSE s.base
      PROVE  Fitting(f, n + 1, z)
  <2>1. Fitting(f, n, s)
    BY <1>3, <1>6
  <2>2. z.end <=> \E k \in 1 .. n + 1 : f[k].type = "eof"
    BY <1>1, <1>4, <1>6, <2>1, EofNext DEF Fitting
  <2>3. ~z.end => z.base = BaseAt(f, n + 1)
    BY <1>1, <1>4, <1>6, <2>1, BaseNext DEF Fitting
  <2>4. \A k \in Body(f) : k <= n + 1 =>
           f[k].type # "bad" /\ (f[k].type = "data" => f[k].fits)
    BY <1>1, <1>4, <1>6, <2>1, BodyNext DEF Fitting
  <2>5. \E ln : From(f, n + 1, z.recs, ln)
    BY <1>1, <1>4, <1>6, <2>1, FromKept DEF Fitting
  <2> QED
    BY <2>2, <2>3, <2>4, <2>5 DEF Fitting
<1>7. CASE s.end
  <2>1. z = s
    BY <1>5, <1>7 DEF AfterLine
  <2>2. s.ok => n + 1 \notin Body(f)
    BY <1>3, <1>4, <1>7, BodyNext DEF Fitting
  <2> QED
    BY <1>3, <1>6, <1>7, <2>1, <2>2 DEF ReadTo
<1>8. CASE ~s.end /\ l.type = "skip"
  <2>1. z = s
    BY <1>5, <1>8 DEF AfterLine
  <2> QED
    BY <1>3, <1>6, <1>8, <2>1 DEF ReadTo
<1>9. CASE ~s.end /\ l.type = "eof"
  <2>1. z = [s EXCEPT !.end = TRUE]
    BY <1>5, <1>9 DEF AfterLine
  <2>2. z \in States /\ z.ok = s.ok /\ z.recs = s.recs /\ z.end = TRUE
    BY <1>3, <2>1 DEF States
  <2> QED
    BY <1>3, <1>6, <1>9, <2>2 DEF ReadTo
<1>10. CASE ~s.end /\ l.type = "base"
  <2>1. z = [s EXCEPT !.base = l.base]
    BY <1>5, <1>10 DEF AfterLine
  <2>2. z \in States /\ z.ok = s.ok /\ z.recs = s.recs /\ z.end = s.end /\ z.base = l.base
    BY <1>2, <1>3, <1>10, <2>1 DEF States
  <2> QED
    BY <1>3, <1>6, <1>10, <2>2 DEF ReadTo
<1>11. CASE ~s.end /\ (l.type = "bad" \/ (l.type = "data" /\ ~l.fits))
  <2>1. z = [s EXCEPT !.end = TRUE, !.ok = FALSE]
    BY <1>5, <1>11 DEF AfterLine
  <2>2. z \in States /\ z.ok = FALSE
    BY <1>3, <2>1 DEF States
  <2> QED
    BY <2>2 DEF ReadTo
<1>12. CASE ~s.end /\ l.type = "data" /\ l.fits
  <2>1. PICK x : x = [addr |-> RecordAddr(s.base, l.addr), data |-> l.data]
    OBVIOUS
  <2>2. z = [s EXCEPT !.recs = Append(@, x)]
    BY <1>5, <1>12, <2>1 DEF AfterLine
  <2>3. x \in Rec
    <3>1. RecordAddr(s.base, l.addr) \in Address
      BY <1>2, <1>3, <1>12, AddressTyped
    <3>2. l.data \in Seq(0 .. 255)
      BY <1>12, LineTypes
    <3> QED
      BY <2>1, <3>1, <3>2 DEF Rec
  <2>4. /\ z \in States /\ z.ok = s.ok /\ z.recs = Append(s.recs, x)
        /\ z.end = s.end /\ z.base = s.base
    <3>1. Append(s.recs, x) \in Seq(Rec)
      BY <1>3, <2>3
    <3> QED
      BY <1>3, <2>2, <3>1 DEF States
  <2>5. ASSUME s.ok PROVE Fitting(f, n + 1, z)
    <3>1. Fitting(f, n, s)
      BY <1>3, <2>5
    <3>2. n + 1 \in Body(f)
      BY <1>1, <1>4, <1>12, <3>1, BodyNext DEF Fitting
    <3>3. BaseAt(f, n + 1) = s.base
      BY <1>1, <1>4, <1>12, <3>1, BaseNext DEF Fitting
    <3>4. x = RecordOf(f, n + 1)
      BY <1>1, <2>1, <3>3 DEF RecordOf
    <3>5. \E ln : From(f, n + 1, z.recs, ln)
      <4>1. PICK ln : From(f, n, s.recs, ln)
        BY <3>1 DEF Fitting
      <4>2. PICK rs \in Seq(Rec) : rs = s.recs
        BY <1>3
      <4>3. \E l2 : From(f, n + 1, Append(rs, x), l2)
        BY <1>1, <1>4, <1>12, <2>3, <3>2, <3>4, <4>1, <4>2, FromGrows
      <4> QED
        BY <2>4, <4>2, <4>3
    <3>6. z.end <=> \E k \in 1 .. n + 1 : f[k].type = "eof"
      BY <1>1, <1>4, <1>12, <2>4, <3>1, EofNext DEF Fitting
    <3>7. \A k \in Body(f) : k <= n + 1 =>
             f[k].type # "bad" /\ (f[k].type = "data" => f[k].fits)
      BY <1>1, <1>4, <1>12, <3>1, BodyNext DEF Fitting
    <3> QED
      BY <2>4, <3>3, <3>5, <3>6, <3>7 DEF Fitting
  <2> QED
    BY <2>4, <2>5 DEF ReadTo
<1> QED
  BY <1>2, <1>7, <1>8, <1>9, <1>10, <1>11, <1>12

\* A file that parses is well-formed, and its records are its data lines.
LEMMA ParseFacts ==
    ASSUME NEW f \in Seq(Line), NEW p, p = parse_ihex(f)
    PROVE  /\ p.recs \in Seq(Rec) /\ p.ok \in BOOLEAN
           /\ p.ok => WellFormed(f) /\ \E ln : From(f, Len(f), p.recs, ln)
<1>1. PICK s : Reads(s, f) /\ parse_ihex(f) = s[Len(f)]
  BY ParseIs
<1>2. s[0] = Start /\ \A k \in 1 .. Len(f) : s[k] = AfterLine(s[k - 1], f[k])
  BY <1>1, ReadsAt
<1>3. PICK T : T = {n \in Nat : ReadTo(f, n, s[n])}
  OBVIOUS
<1>4. 0 \in T
  BY <1>2, <1>3, ReadStart
<1>5. ASSUME NEW k \in 1 .. Len(f), k - 1 \in T PROVE k \in T
  <2>1. PICK n \in 0 .. Len(f) - 1 : n = k - 1 /\ k = n + 1
    OBVIOUS
  <2>2. ReadTo(f, n, s[n]) /\ s[k] = AfterLine(s[n], f[n + 1])
    BY <1>2, <1>3, <1>5, <2>1
  <2>3. ReadTo(f, n + 1, s[k])
    BY <2>1, <2>2, ReadNext
  <2> QED
    BY <1>3, <2>1, <2>3
<1>6. Len(f) \in T
  <2>1. PICK n \in Nat : n = Len(f)
    OBVIOUS
  <2>2. \A k \in 1 .. n : k - 1 \in T => k \in T
    BY <1>5, <2>1
  <2>3. \A k \in 0 .. n : k \in T
    BY <1>4, <2>2, UpTo
  <2> QED
    BY <2>1, <2>3
<1>7. p \in States /\ (p.ok => Fitting(f, Len(f), p))
  BY <1>1, <1>3, <1>6 DEF ReadTo
<1>8. \A k \in Body(f) : k <= Len(f)
  BY DEF Body
<1> QED
  BY <1>7, <1>8 DEF States, Fitting, WellFormed

-----------------------------------------------------------------------------
(* What the records put into memory.                                       *)

Places(r, a) == {j \in 1 .. Len(r.data) : (r.addr + j - 1) % AddrSpace = a}
RecPuts(r, a) == {r.data[j] : j \in Places(r, a)}

\* A record puts what its line does.
LEMMA SamePuts ==
    ASSUME NEW f \in Seq(Line), NEW n \in 1 .. Len(f), f[n].type = "data",
           NEW r, r = RecordOf(f, n), NEW a
    PROVE  RecPuts(r, a) = Puts(f, n, a)
<1>1. BaseAt(f, n) \in Nat /\ f[n] \in Line
  BY BaseNat
<1>2. f[n].addr \in Nat /\ f[n].data \in Seq(0 .. 255)
  BY <1>1, LineTypes
<1>3. PICK b \in Int : b = BaseAt(f, n) + f[n].addr
  BY <1>1, <1>2
<1>4. r.addr = b % AddrSpace /\ r.data = f[n].data
  BY <1>3 DEF RecordOf, RecordAddr
<1>5. ASSUME NEW j \in 1 .. Len(f[n].data)
      PROVE  (r.addr + j - 1) % AddrSpace =
                (BaseAt(f, n) + f[n].addr + j - 1) % AddrSpace
  <2>1. PICK y \in Int : y = j - 1
    OBVIOUS
  <2>2. ((b % AddrSpace) + y) % AddrSpace = (b + y) % AddrSpace
    BY SizesAssumption, CutFirst
  <2>3. PICK c \in Int : c = b % AddrSpace
    <3>1. b % AddrSpace \in Int
      BY SizesAssumption, Quotient
    <3> QED
      BY <3>1
  <2>4. c + y = r.addr + j - 1 /\ b + y = BaseAt(f, n) + f[n].addr + j - 1
    BY <1>1, <1>2, <1>3, <1>4, <2>1, <2>3
  <2> QED
    BY <2>2, <2>3, <2>4
<1>6. Places(r, a) = {k \in 1 .. Len(f[n].data) :
                        (BaseAt(f, n) + f[n].addr + k - 1) % AddrSpace = a}
  BY <1>4, <1>5 DEF Places
<1> QED
  BY <1>4, <1>6 DEF RecPuts, Puts

\* The addresses that keep what is written to them.
InMemory == {a \in Address : a < RamTop}

\* The bytes written when record i is at offset off: those of the records
\* before it, and its own up to there.
Reached(rs, i0, o0, m, a) ==
    \E j \in Places(rs[m], a) : m < i0 \/ (m = i0 /\ j <= o0)

\* At each address the last record that has reached it has its way.
Stands(rs, i0, o0, mem) ==
    \A a \in InMemory : \A m \in 1 .. Len(rs) :
        /\ Reached(rs, i0, o0, m, a)
        /\ \A k \in 1 .. Len(rs) : k > m => ~Reached(rs, i0, o0, k, a)
        => mem[a] \in RecPuts(rs[m], a)

LEMMA StandsAtFirst == ASSUME NEW rs, NEW mem PROVE Stands(rs, 1, 0, mem)
<1>1. ASSUME NEW m \in 1 .. Len(rs), NEW a PROVE ~Reached(rs, 1, 0, m, a)
  <2>1. ~(m < 1)
    OBVIOUS
  <2>2. \A j \in Places(rs[m], a) : ~(j <= 0)
    BY DEF Places
  <2> QED
    BY <2>1, <2>2 DEF Reached
<1> QED
  BY <1>1 DEF Stands

\* A record written to its end, and the next one not begun.
LEMMA StandsNext ==
    ASSUME NEW rs \in Seq(Rec), NEW i0 \in 1 .. Len(rs), NEW o0 \in Nat,
           o0 >= Len(rs[i0].data), NEW mem, Stands(rs, i0, o0, mem)
    PROVE  Stands(rs, i0 + 1, 0, mem)
<1>1. ASSUME NEW m \in 1 .. Len(rs), NEW a
      PROVE  Reached(rs, i0 + 1, 0, m, a) <=> Reached(rs, i0, o0, m, a)
  <2>1. \A j \in Places(rs[m], a) : j \in Nat /\ j >= 1 /\ j <= Len(rs[m].data)
    BY DEF Places
  <2>2. m \in Nat /\ i0 \in Nat
    OBVIOUS
  <2>3. CASE m < i0
    BY <2>1, <2>2, <2>3 DEF Reached
  <2>4. CASE m = i0
    <3>1. rs[i0] \in Rec
      OBVIOUS
    <3>2. Len(rs[i0].data) \in Nat
      BY <3>1 DEF Rec
    <3>3. \A j \in Places(rs[m], a) : j <= o0
      BY <2>1, <2>4, <3>2
    <3> QED
      BY <2>1, <2>2, <2>4, <3>3 DEF Reached
  <2>5. CASE m > i0
    BY <2>1, <2>2, <2>5 DEF Reached
  <2> QED
    BY <2>2, <2>3, <2>4, <2>5
<1> QED
  BY <1>1 DEF Stands

\* Memory after a chunk of c bytes of record r, from offset o0 on.
After(r, o0, c, mem) ==
    [a \in Address |->
        LET at == (a - r.addr - o0) % AddrSpace
        IN  IF a < RamTop /\ at < c THEN r.data[o0 + at + 1] ELSE mem[a]]

\* The byte a chunk has for an address is one the record puts there.
LEMMA ChunkPlace ==
    ASSUME NEW r \in Rec, NEW o0 \in Nat, NEW a \in Address, NEW n \in Nat \ {0}, n = AddrSpace,
           NEW u \in Int, Multiple(n, u), NEW at \in 0 .. n - 1, o0 + at + 1 <= Len(r.data),
           NEW x \in Int, x = a - r.addr - o0, x = u + at
    PROVE  o0 + at + 1 \in Places(r, a)
<1>1. r.addr \in Nat /\ Len(r.data) \in Nat /\ a \in 0 .. AddrSpace - 1
  BY SizesAssumption DEF Rec, Address
<1>2. PICK j \in 1 .. Len(r.data) : j = o0 + at + 1
  BY <1>1
<1>3. PICK y \in Int : y = r.addr + j - 1
  BY <1>1
<1>4. PICK v \in Int : v = -u
  OBVIOUS
<1>5. Multiple(n, v)
  BY <1>4, MultipleSum
<1>6. y = v + a /\ a \in 0 .. n - 1
  <2>1. PICK d \in Int : d = r.addr
    BY <1>1
  <2>2. a \in Int /\ at \in Int /\ j \in Int /\ a \in 0 .. n - 1
    BY <1>1
  <2>3. y = d + j - 1 /\ j = o0 + at + 1 /\ v = -u /\ x = u + at /\ x = a - d - o0
    BY <1>2, <1>3, <1>4, <2>1
  <2> QED
    BY <2>2, <2>3
<1>7. y % n = a
  BY <1>5, <1>6, Remainder
<1>8. j \in Places(r, a)
  BY <1>2, <1>3, <1>7 DEF Places
<1> QED
  BY <1>2, <1>8

\* The chunk has a byte for address a, one of the record's, or it has none.
ChunkAt(r, o0, c, mem, a) ==
    \/ \E j \in Places(r, a) : /\ j > o0 /\ j <= o0 + c
                               /\ After(r, o0, c, mem)[a] = r.data[j]
    \/ /\ \A j \in Places(r, a) : ~(j > o0 /\ j <= o0 + c)
       /\ After(r, o0, c, mem)[a] = mem[a]

LEMMA ChunkByte ==
    ASSUME NEW r \in Rec, NEW o0 \in Nat, NEW c \in Nat, o0 + c <= Len(r.data),
           NEW mem, NEW a \in InMemory
    PROVE  ChunkAt(r, o0, c, mem, a)
<1>1. /\ r.addr \in Nat /\ Len(r.data) \in Nat /\ a \in 0 .. AddrSpace - 1
      /\ a \in Address /\ a < RamTop
  BY SizesAssumption DEF Rec, Address, InMemory
<1>2. PICK n \in Nat \ {0} : n = AddrSpace
  BY SizesAssumption
<1>3. PICK x \in Int : x = a - r.addr - o0
  BY <1>1
<1>4. PICK at : at = x % n
  OBVIOUS
<1>8. at \in 0 .. n - 1 /\ \E u \in Int : Multiple(n, u) /\ x = u + at
  BY <1>4, Quotient
<1>9. PICK u \in Int : Multiple(n, u) /\ x = u + at
  BY <1>8
<1>5. After(r, o0, c, mem)[a] = IF at < c THEN r.data[o0 + at + 1] ELSE mem[a]
  BY <1>1, <1>2, <1>3, <1>4 DEF After
<1>6. CASE at < c
  <2>1. PICK j \in Places(r, a) : j = o0 + at + 1 /\ j > o0 /\ j <= o0 + c
    <3>1. PICK j \in Int : j = o0 + at + 1 /\ j > o0 /\ j <= o0 + c /\ j <= Len(r.data)
      BY <1>1, <1>6, <1>8
    <3>2. o0 + at + 1 <= Len(r.data)
      BY <3>1
    <3>3. o0 + at + 1 \in Places(r, a)
      BY <1>1, <1>2, <1>3, <1>8, <1>9, <3>2, ChunkPlace
    <3> QED
      BY <3>1, <3>3
  <2> QED
    BY <1>5, <1>6, <2>1 DEF ChunkAt
<1>7. CASE ~(at < c)
  <2>1. ASSUME NEW j \in Places(r, a), j > o0, j <= o0 + c PROVE FALSE
    <3>1. j \in Nat /\ (r.addr + j - 1) % n = a
      BY <1>1, <1>2 DEF Places
    <3>2. PICK y \in Int : y = r.addr + j - 1
      BY <1>1, <3>1
    <3>3. \E v \in Int : Multiple(n, v) /\ y = v + (y % n)
      BY <3>2, Quotient
    <3>4. PICK v \in Int : Multiple(n, v) /\ y = v + a
      BY <3>1, <3>2, <3>3
    <3>5. PICK d \in Int : d = j - 1 - o0 /\ d >= 0 /\ d < c
      <4>1. j - 1 - o0 \in Int /\ j - 1 - o0 >= 0 /\ j - 1 - o0 < c
        BY <2>1, <3>1
      <4> QED
        BY <4>1
    <3>6. PICK w \in Int : w = u + v
      OBVIOUS
    <3>7. Multiple(n, w)
      BY <1>9, <3>4, <3>6, MultipleSum
    <3>8. w = d - at
      <4>1. PICK b \in Int : b = r.addr
        BY <1>1
      <4>2. a \in Int /\ at \in Int /\ j \in Int
        BY <1>1, <1>8, <3>1
      <4>3. /\ w = u + v /\ x = u + at /\ x = a - b - o0
            /\ y = v + a /\ y = b + j - 1 /\ d = j - 1 - o0
        BY <1>3, <1>9, <3>2, <3>4, <3>5, <3>6, <4>1
      <4> QED
        BY <4>2, <4>3
    <3>9. w < 0 /\ -n < w
      BY <1>7, <1>8, <3>5, <3>8
    <3>10. w = 0
      BY <3>7, <3>9, MultipleSmall
    <3> QED
      BY <3>9, <3>10
  <2> QED
    BY <1>5, <1>7, <2>1 DEF ChunkAt
<1> QED
  BY <1>6, <1>7

\* A tool's own chunk.
LEMMA StandsChunk ==
    ASSUME NEW rs \in Seq(Rec), NEW i0 \in 1 .. Len(rs), NEW o0 \in Nat, NEW c \in Nat,
           o0 + c <= Len(rs[i0].data), NEW mem, Stands(rs, i0, o0, mem),
           NEW m2, m2 = After(rs[i0], o0, c, mem)
    PROVE  Stands(rs, i0, o0 + c, m2)
<1>1. PICK o2 \in Nat : o2 = o0 + c /\ o2 >= o0
  OBVIOUS
<1>2. \A m \in 1 .. Len(rs) : \A b : \A j \in Places(rs[m], b) : j \in Nat
  BY DEF Places
<1> SUFFICES ASSUME NEW a \in InMemory, NEW m \in 1 .. Len(rs), Reached(rs, i0, o2, m, a),
                    \A k \in 1 .. Len(rs) : k > m => ~Reached(rs, i0, o2, k, a)
             PROVE  m2[a] \in RecPuts(rs[m], a)
  BY <1>1 DEF Stands
<1>3. m \in Nat /\ i0 \in Nat /\ rs[i0] \in Rec
  OBVIOUS
<1>4. CASE \E j \in Places(rs[i0], a) : j > o0 /\ j <= o0 + c /\ m2[a] = rs[i0].data[j]
  <2>1. PICK j \in Places(rs[i0], a) : j <= o2 /\ m2[a] = rs[i0].data[j]
    BY <1>1, <1>4
  <2>2. Reached(rs, i0, o2, i0, a)
    BY <2>1 DEF Reached
  <2>3. ~(i0 > m)
    BY <2>2
  <2>4. m = i0
    BY <1>3, <2>3 DEF Reached
  <2> QED
    BY <2>1, <2>4 DEF RecPuts
<1>5. CASE /\ \A j \in Places(rs[i0], a) : ~(j > o0 /\ j <= o0 + c)
           /\ m2[a] = mem[a]
  <2>1. ASSUME NEW k \in 1 .. Len(rs), Reached(rs, i0, o0, k, a)
        PROVE  Reached(rs, i0, o2, k, a)
    <3>1. PICK j \in Places(rs[k], a) : k < i0 \/ (k = i0 /\ j <= o0)
      BY <2>1 DEF Reached
    <3>2. j <= o0 => j <= o2
      <4>1. j \in Nat
        BY <1>2
      <4> QED
        BY <1>1, <4>1
    <3> QED
      BY <3>1, <3>2 DEF Reached
  <2>2. Reached(rs, i0, o0, m, a)
    <3>1. PICK j \in Places(rs[m], a) : m < i0 \/ (m = i0 /\ j <= o2)
      BY DEF Reached
    <3>2. CASE m < i0
      BY <3>1, <3>2 DEF Reached
    <3>3. CASE m = i0 /\ j <= o2
      <4>1. j \in Nat /\ ~(j > o0)
        BY <1>1, <1>2, <1>5, <3>3
      <4> QED
        BY <3>1, <3>3, <4>1 DEF Reached
    <3> QED
      BY <3>1, <3>2, <3>3
  <2> QED
    BY <1>5, <2>1, <2>2 DEF Stands
<1> QED
  <2>1. PICK r \in Rec : r = rs[i0]
    BY <1>3
  <2>2. o0 + c <= Len(r.data) /\ m2 = After(r, o0, c, mem)
    BY <2>1
  <2>3. ChunkAt(r, o0, c, mem, a)
    BY <2>2, ChunkByte
  <2> QED
    BY <1>4, <1>5, <2>1, <2>2, <2>3 DEF ChunkAt

\* Another tool's chunk, of the same file, whose lines do not overlap.
LEMMA StandsBeside ==
    ASSUME NEW f \in Seq(Line), Disjoint(f), NEW rs \in Seq(Rec), NEW ln,
           From(f, Len(f), rs, ln), NEW i0, NEW o0, NEW mem, Stands(rs, i0, o0, mem),
           NEW k \in 1 .. Len(rs), NEW o1 \in Nat, NEW c \in Nat,
           o1 + c <= Len(rs[k].data), NEW m2, m2 = After(rs[k], o1, c, mem)
    PROVE  Stands(rs, i0, o0, m2)
<1> SUFFICES ASSUME NEW a \in InMemory, NEW m \in 1 .. Len(rs), Reached(rs, i0, o0, m, a),
                    \A n \in 1 .. Len(rs) : n > m => ~Reached(rs, i0, o0, n, a)
             PROVE  m2[a] \in RecPuts(rs[m], a)
  BY DEF Stands
<1>1. mem[a] \in RecPuts(rs[m], a) /\ a \in Address
  BY DEF Stands, InMemory
<1>2. CASE m2[a] = mem[a]
  BY <1>1, <1>2
<1>3. CASE \E j \in Places(rs[k], a) : m2[a] = rs[k].data[j]
  <2>1. m2[a] \in RecPuts(rs[k], a)
    BY <1>3 DEF RecPuts
  <2>2. ASSUME NEW n \in 1 .. Len(rs)
        PROVE  ln[n] \in Body(f) /\ RecPuts(rs[n], a) = Puts(f, ln[n], a)
    <3>1. /\ ln[n] \in Body(f) /\ ln[n] \in 1 .. Len(f) /\ f[ln[n]].type = "data"
          /\ rs[n] = RecordOf(f, ln[n])
      BY DEF From, DataLines, Body
    <3> QED
      BY <3>1, SamePuts
  <2>3. ln[m] = ln[k]
    BY <1>1, <2>1, <2>2 DEF Disjoint
  <2>4. m = k
    <3>1. ln[m] \in Nat /\ ln[k] \in Nat /\ m \in Nat /\ k \in Nat
      BY <2>2 DEF Body
    <3>2. ~(m < k) /\ ~(k < m)
      BY <2>3, <3>1 DEF From
    <3> QED
      BY <3>1, <3>2
  <2> QED
    BY <2>1, <2>4
<1> QED
  <2>1. PICK r \in Rec : r = rs[k]
    OBVIOUS
  <2>2. m2[a] = mem[a] \/ \E j \in Places(r, a) : m2[a] = r.data[j]
    <3>1. o1 + c <= Len(r.data) /\ m2 = After(r, o1, c, mem)
      BY <2>1
    <3>2. ChunkAt(r, o1, c, mem, a)
      BY <3>1, ChunkByte
    <3> QED
      BY <3>1, <3>2 DEF ChunkAt
  <2> QED
    BY <1>2, <1>3, <2>1, <2>2

\* Behind the last record, memory is what the file asks for.
LEMMA WholeImage ==
    ASSUME NEW f \in Seq(Line), NEW rs \in Seq(Rec), NEW ln, From(f, Len(f), rs, ln),
           NEW i0 \in Nat, i0 > Len(rs), NEW o0, Stands(rs, i0, o0, ram), InRam(f)
    PROVE  Holds(f)
<1> SUFFICES ASSUME NEW a \in Address, NEW n \in Body(f), Puts(f, n, a) # {},
                    \A k \in Body(f) : k > n => Puts(f, k, a) = {}
             PROVE  ram[a] \in Puts(f, n, a)
  BY DEF Holds
<1>1. n \in 1 .. Len(f) /\ n <= Len(f) /\ f[n].type = "data"
  BY DEF Body, Puts
<1>2. PICK m \in 1 .. Len(rs) : ln[m] = n
  BY <1>1 DEF From, DataLines
<1>3. ASSUME NEW k \in 1 .. Len(rs)
      PROVE  ln[k] \in Body(f) /\ RecPuts(rs[k], a) = Puts(f, ln[k], a)
  <2>1. /\ ln[k] \in Body(f) /\ ln[k] \in 1 .. Len(f) /\ f[ln[k]].type = "data"
        /\ rs[k] = RecordOf(f, ln[k])
    BY DEF From, DataLines, Body
  <2> QED
    BY <2>1, SamePuts
<1>4. ASSUME NEW k \in 1 .. Len(rs)
      PROVE  Reached(rs, i0, o0, k, a) <=> RecPuts(rs[k], a) # {}
  <2>1. k < i0
    OBVIOUS
  <2> QED
    BY <2>1 DEF Reached, RecPuts
<1>5. Reached(rs, i0, o0, m, a)
  BY <1>2, <1>3, <1>4
<1>6. ASSUME NEW k \in 1 .. Len(rs), k > m PROVE ~Reached(rs, i0, o0, k, a)
  <2>1. ln[k] \in Body(f) /\ ln[k] > n
    <3>1. ln[m] < ln[k] /\ ln[k] \in Body(f)
      BY <1>3, <1>6 DEF From
    <3>2. ln[k] \in Nat /\ n \in Nat
      BY <1>1, <3>1 DEF Body
    <3> QED
      BY <1>2, <3>1, <3>2
  <2> QED
    BY <1>3, <1>4, <2>1
<1>7. a \in InMemory
  BY SizesAssumption DEF InMemory, InRam, Address
<1>8. ram[a] \in RecPuts(rs[m], a)
  BY <1>5, <1>6, <1>7 DEF Stands
<1> QED
  BY <1>2, <1>3, <1>8

-----------------------------------------------------------------------------
(* The tools and the device.                                               *)

PCs == {"open", "hold", "write", "done", "failed"}
Modes == {"absent", "loader", "held", "firmware"}

Typed ==
    /\ pc \in [Tools -> PCs] /\ mode \in Modes
    /\ file \in [Tools -> Files \cup {<<>>}]
    /\ handle \in [Tools -> BOOLEAN]
    /\ unplugged \in [Tools -> BOOLEAN]
    /\ skipped \in [Tools -> BOOLEAN] /\ mixed \in BOOLEAN

\* A handle stands for a device that is still in its loader.
HandlesLive ==
    \A t \in Tools : handle[t] => pc[t] \in {"hold", "write"} /\ mode \in {"loader", "held"}

\* Handles held at once are there for one file whose lines do not overlap, or
\* the images are mixed.
HandlesAgree ==
    \A t, o \in Tools :
        handle[t] /\ handle[o] /\ t # o
            => mixed \/ (file[t] = file[o] /\ Disjoint(file[t]))

\* A tool writes to a device that it holds in reset, unless the transfer that
\* should have done so moved nothing.
HeldOrSkipped ==
    \A t \in Tools : handle[t] /\ pc[t] = "write" => skipped[t] \/ mode = "held"

\* A device is lost to a tool by the plug, or by a release: the tool's own,
\* or that of one that had the device together with it.
LostTo(t) == unplugged[t] \/ (mode = "firmware" /\ (mixed \/ booted = file[t]))
GoneOrBooted ==
    \A t \in Tools :
        /\ pc[t] = "done" => skipped[t] \/ LostTo(t)
        /\ pc[t] \in {"hold", "write"} /\ ~handle[t] => LostTo(t)

UploadInv == Typed /\ HandlesLive /\ HandlesAgree /\ HeldOrSkipped /\ GoneOrBooted

-----------------------------------------------------------------------------
LEMMA InitInv == Init => UploadInv
  BY DEF Init, UploadInv, Typed, PCs, Modes, HandlesLive, HandlesAgree, HeldOrSkipped,
         GoneOrBooted

\* A step of one tool that opens nothing, releases nothing and pulls no plug
\* keeps the invariant, if the tool either keeps its handle or fails.
LEMMA ToolStep ==
    ASSUME UploadInv, NEW t \in Tools,
           UNCHANGED <<file, booted, unplugged, mixed>>,
           skipped' = skipped \/ skipped' = [skipped EXCEPT ![t] = TRUE],
           mode' = mode \/ (handle[t] /\ mode' = "held"),
           \/ /\ UNCHANGED handle
              /\ \/ pc' = pc
                 \/ /\ pc[t] = "hold" /\ pc' = [pc EXCEPT ![t] = "write"]
                    /\ mode' = "held" \/ skipped'[t]
           \/ Ends(t, "failed")
    PROVE  UploadInv'
<1> USE DEF UploadInv, Typed, PCs, Modes, Ends
<1>1. Typed' /\ \A o \in Tools : skipped[o] => skipped'[o]
  OBVIOUS
<1>2. HandlesLive' /\ HandlesAgree'
  BY DEF HandlesLive, HandlesAgree
<1>3. HeldOrSkipped'
  BY <1>1 DEF HeldOrSkipped
<1>4. GoneOrBooted'
  BY <1>1 DEF GoneOrBooted, LostTo, HandlesLive
<1> QED
  BY <1>1, <1>2, <1>3, <1>4

LEMMA RunStep ==
    ASSUME UploadInv, NEW t \in Tools, NEW f \in Files, Run(t, f)
    PROVE  UploadInv'
<1> USE DEF UploadInv, Typed, PCs, Modes, Run, deviceVars, Ended
<1>1. Typed'
  OBVIOUS
<1>2. ~handle[t]
  BY DEF HandlesLive
<1>3. HandlesLive' /\ HandlesAgree' /\ HeldOrSkipped'
  BY <1>2 DEF HandlesLive, HandlesAgree, HeldOrSkipped
<1>4. GoneOrBooted'
  BY DEF GoneOrBooted, LostTo
<1> QED
  BY <1>1, <1>3, <1>4

LEMMA OpenStep ==
    ASSUME UploadInv, NEW t \in Tools, Open(t)
    PROVE  UploadInv'
<1> USE DEF UploadInv, Typed, PCs, Modes
<1>1. CASE Ends(t, "failed") /\ UNCHANGED mixed
  BY <1>1, ToolStep DEF Open, toolVars, deviceVars
<1>2. CASE /\ mode \in {"loader", "held"}
           /\ pc' = [pc EXCEPT ![t] = "hold"] /\ handle' = [handle EXCEPT ![t] = TRUE]
           /\ mixed' = \E o \in Tools : handle[o] /\ (mixed \/ ~Harmless(file[o], file[t]))
  <2> USE <1>2 DEF Open, toolVars, deviceVars
  <2>1. Typed'
    OBVIOUS
  <2>2. HandlesLive'
    BY DEF HandlesLive
  <2>3. HandlesAgree'
    <3> SUFFICES ASSUME NEW o1 \in Tools, NEW o2 \in Tools, handle'[o1], handle'[o2],
                        o1 # o2, ~mixed'
                 PROVE  file[o1] = file[o2] /\ Disjoint(file[o1])
      BY DEF HandlesAgree, Disjoint
    <3>1. \A o \in Tools : handle[o] => ~mixed /\ file[o] = file[t] /\ Disjoint(file[t])
      BY DEF Harmless
    <3>2. CASE o1 = t
      BY <3>1, <3>2
    <3>3. CASE o2 = t
      BY <3>1, <3>3
    <3>4. CASE o1 # t /\ o2 # t
      BY <3>1, <3>4 DEF HandlesAgree
    <3> QED
      BY <3>2, <3>3, <3>4
  <2>4. HeldOrSkipped' /\ GoneOrBooted'
    BY DEF HeldOrSkipped, GoneOrBooted, LostTo
  <2> QED
    BY <2>1, <2>2, <2>3, <2>4
<1> QED
  BY <1>1, <1>2 DEF Open

\* The device boots: every tool that held it has this file, or all is mixed.
LEMMA BootStep ==
    ASSUME UploadInv, NEW t \in Tools, handle[t], pc[t] = "write",
           mode' = "firmware", booted' = file[t], handle' = [o \in Tools |-> FALSE],
           UNCHANGED <<file, skipped, unplugged, mixed>>,
           \/ pc' = pc \/ pc' = [pc EXCEPT ![t] = "done"]
           \/ pc' = [pc EXCEPT ![t] = "failed"]
    PROVE  UploadInv'
<1> USE DEF UploadInv, Typed, PCs, Modes
<1>1. Typed' /\ HandlesLive' /\ HandlesAgree' /\ HeldOrSkipped'
  BY DEF HandlesLive, HandlesAgree, HeldOrSkipped
<1> SUFFICES ASSUME NEW o \in Tools
             PROVE  /\ pc'[o] = "done" => skipped'[o] \/ LostTo(o)'
                    /\ pc'[o] \in {"hold", "write"} /\ ~handle'[o] => LostTo(o)'
  BY <1>1 DEF GoneOrBooted
<1>2. CASE o = t
  BY <1>2 DEF LostTo
<1>3. CASE o # t /\ handle[o]
  BY <1>3 DEF LostTo, HandlesAgree
<1>4. CASE o # t /\ ~handle[o]
  <2>1. mode # "firmware"
    BY DEF HandlesLive
  <2> QED
    BY <1>4, <2>1 DEF LostTo, GoneOrBooted
<1> QED
  BY <1>2, <1>3, <1>4

LEMMA ReleaseStep ==
    ASSUME UploadInv, NEW t \in Tools, ReleaseReset(t)
    PROVE  UploadInv'
<1> USE DEF UploadInv, Typed, PCs, Modes
<1>1. PICK r \in {"ok", "error", "no_device"} :
         /\ pc' = [pc EXCEPT ![t] = IF Released(r) THEN "done" ELSE "failed"]
         /\ \/ Boots(t, r)
            \/ /\ NotTaken(t, r) \/ (mode = "loader" /\ Taken(t, r))
               /\ handle' = [handle EXCEPT ![t] = FALSE]
               /\ UNCHANGED <<mode, booted, doubted>>
  BY DEF ReleaseReset
<1>2. pc[t] = "write" /\ UNCHANGED <<file, unplugged, mixed>>
  BY DEF ReleaseReset, toolVars
<1>3. CASE Boots(t, r)
  BY <1>1, <1>2, <1>3, BootStep DEF Boots, Taken
\* It does not; only a device already gone, or one to which nothing was moved,
\* counts as released.
<1>4. CASE /\ NotTaken(t, r) \/ (mode = "loader" /\ Taken(t, r))
           /\ handle' = [handle EXCEPT ![t] = FALSE]
           /\ UNCHANGED <<mode, booted, doubted>>
  <2>1. skipped' = skipped \/ skipped' = [skipped EXCEPT ![t] = TRUE]
    BY <1>4 DEF NotTaken, Taken
  <2>2. \A o \in Tools : skipped[o] => skipped'[o]
    BY <2>1
  <2>3. Typed' /\ HandlesLive' /\ HandlesAgree' /\ HeldOrSkipped'
    <3>1. Typed' /\ HandlesLive'
      BY <1>1, <1>2, <1>4, <2>1 DEF HandlesLive
    <3>2. /\ file' = file /\ mixed' = mixed /\ mode' = mode
          /\ \A o \in Tools : handle'[o] => handle[o] /\ pc'[o] = pc[o]
      BY <1>1, <1>2, <1>4
    <3>3. HandlesAgree' /\ HeldOrSkipped'
      BY <2>2, <3>2 DEF HandlesAgree, HeldOrSkipped
    <3> QED
      BY <3>1, <3>3
  <2>4. \A o \in Tools : LostTo(o)' = LostTo(o)
    BY <1>2, <1>4 DEF LostTo
  <2>5. (r = "no_device" /\ ~handle[t]) \/ skipped'[t] \/ pc' = [pc EXCEPT ![t] = "failed"]
    <3>1. CASE handle[t] /\ mode = "loader"
      BY <1>2, <2>2, <3>1 DEF HeldOrSkipped
    <3> QED
      BY <1>1, <1>4, <3>1 DEF NotTaken, Taken, Released
  <2> SUFFICES ASSUME NEW o \in Tools
               PROVE  /\ pc'[o] = "done" => skipped'[o] \/ LostTo(o)
                      /\ pc'[o] \in {"hold", "write"} /\ ~handle'[o] => LostTo(o)
    BY <2>3, <2>4 DEF GoneOrBooted
  <2>6. CASE o = t
    BY <1>1, <1>2, <2>5, <2>6 DEF GoneOrBooted
  <2>7. CASE o # t
    BY <1>1, <1>4, <2>2, <2>7 DEF GoneOrBooted
  <2> QED
    BY <2>6, <2>7
<1> QED
  BY <1>1, <1>3, <1>4

LEMMA UnplugStep == UploadInv /\ Unplug => UploadInv'
  BY DEF UploadInv, Typed, PCs, Modes, HandlesLive, HandlesAgree, HeldOrSkipped, GoneOrBooted,
         LostTo, Unplug, toolVars

LEMMA PlugStep == UploadInv /\ Plug => UploadInv'
  BY DEF UploadInv, Typed, PCs, Modes, HandlesLive, HandlesAgree, HeldOrSkipped, GoneOrBooted,
         LostTo, Plug, toolVars, history

LEMMA NextStep == UploadInv /\ [Next]_vars => UploadInv'
<1> SUFFICES ASSUME UploadInv, [Next]_vars PROVE UploadInv'
  OBVIOUS
<1>1. ASSUME NEW t \in Tools, NEW f \in Files, Run(t, f) PROVE UploadInv'
  BY <1>1, RunStep
<1>2. ASSUME NEW t \in Tools, Open(t) PROVE UploadInv'
  BY <1>2, OpenStep
<1>3. ASSUME NEW t \in Tools, HoldReset(t) PROVE UploadInv'
  <2>1. /\ mode' = mode \/ (handle[t] /\ mode' = "held")
        /\ skipped' = skipped \/ skipped' = [skipped EXCEPT ![t] = TRUE]
        /\ \/ /\ UNCHANGED handle /\ pc' = [pc EXCEPT ![t] = "write"]
              /\ mode' = "held" \/ skipped' = [skipped EXCEPT ![t] = TRUE]
           \/ Ends(t, "failed")
    BY <1>3 DEF HoldReset, Taken, NotTaken
  <2>2. skipped \in [Tools -> BOOLEAN]
    BY DEF UploadInv, Typed
  <2> QED
    BY <1>3, <2>1, <2>2, ToolStep DEF HoldReset, toolVars, history
<1>4. ASSUME NEW t \in Tools, WriteChunk(t) PROVE UploadInv'
  <2>1. /\ UNCHANGED <<pc, handle>> \/ Ends(t, "failed")
        /\ mode' = mode \/ (handle[t] /\ mode' = "held")
        /\ skipped' = skipped \/ skipped' = [skipped EXCEPT ![t] = TRUE]
    BY <1>4 DEF WriteChunk, ChunkTaken, Taken, NotTaken, deviceVars
  <2> QED
    BY <1>4, <2>1, ToolStep DEF WriteChunk, history
<1>8. ASSUME NEW t \in Tools, WriteReleasing(t) PROVE UploadInv'
  BY <1>8, BootStep DEF WriteReleasing, ChunkDue, Boots, Taken
<1>5. ASSUME NEW t \in Tools, NextRecord(t) PROVE UploadInv'
  BY <1>5, ToolStep DEF NextRecord, deviceVars, history
<1>6. ASSUME NEW t \in Tools, ReleaseReset(t) PROVE UploadInv'
  BY <1>6, ReleaseStep
<1>7. CASE UNCHANGED vars
  BY <1>7 DEF vars, toolVars, deviceVars, history, UploadInv, Typed, HandlesLive, HandlesAgree,
              HeldOrSkipped, GoneOrBooted, LostTo
<1> QED
  BY <1>1, <1>2, <1>3, <1>4, <1>5, <1>6, <1>7, <1>8, UnplugStep, PlugStep DEF Next

-----------------------------------------------------------------------------
\* When a tool exits with status 0, its own file was let run last, unless the
\* plug was pulled, images were mixed, or one of its transfers moved nothing;
\* the device may have booted by another tool's release, or by a record over
\* CPUCS, while this one was still writing.
THEOREM SuccessCorrect == Spec => []SuccessIsTrue
<1>1. UploadInv => SuccessIsTrue
  BY DEF UploadInv, GoneOrBooted, LostTo, SuccessIsTrue
<1> QED
  BY <1>1, InitInv, NextStep, PTL DEF Spec

-----------------------------------------------------------------------------
(* What is written and what runs.  Beside UploadInv: every tool's records   *)
(* are its file's and its place is one among them; and memory is, for a     *)
(* tool that writes, what its file asks for up to there.                    *)

Loading(t) == pc[t] \in {"open", "hold", "write"}

Loaded ==
    /\ recs \in [Tools -> Seq(Rec)] /\ i \in [Tools -> Nat] /\ off \in [Tools -> Nat]
    /\ \A t \in Tools :
        /\ i[t] \in 1 .. Len(recs[t]) + 1
        /\ i[t] <= Len(recs[t]) => off[t] <= Len(Record(t).data)
        /\ pc[t] \in {"open", "hold"} => i[t] = 1 /\ off[t] = 0
        /\ Loading(t) => /\ file[t] \in Files /\ parse_ihex(file[t]).ok
                         /\ recs[t] = parse_ihex(file[t]).recs

Progress ==
    \A t \in Tools :
        handle[t] /\ pc[t] = "write" =>
            mixed \/ skipped[t] \/ Stands(recs[t], i[t], off[t], ram)

WriteInv == UploadInv /\ Loaded /\ Progress /\ OnlyWholeImageRuns

LEMMA WriteInit == Init => WriteInv
<1> SUFFICES ASSUME Init PROVE WriteInv
  OBVIOUS
<1>1. <<>> \in Seq(Rec) /\ Len(<<>>) = 0
  OBVIOUS
<1>2. Loaded
  BY <1>1 DEF Init, Loaded, Loading
<1>3. Progress /\ OnlyWholeImageRuns
  BY DEF Init, Progress, OnlyWholeImageRuns
<1> QED
  BY <1>2, <1>3, InitInv DEF WriteInv

\* Memory and the released file stay as they are, and what is said of them.
LEMMA ImageKept ==
    ASSUME OnlyWholeImageRuns, UNCHANGED <<ram, booted, doubted, mixed>>,
           mode' = "firmware" => mode = "firmware"
    PROVE  OnlyWholeImageRuns'
<1>1. Holds(booted)' <=> Holds(booted)
  BY DEF Holds
<1>2. WellFormed(booted)' <=> WellFormed(booted)
  BY DEF WellFormed
<1>3. InRam(booted)' <=> InRam(booted)
  BY DEF InRam
<1> QED
  BY <1>1, <1>2, <1>3 DEF OnlyWholeImageRuns

\* A tool that had the device and writes on where it did, in a memory that
\* stays as it is.
LEMMA ProgressKept ==
    ASSUME Progress, UNCHANGED ram, ~mixed' => ~mixed,
           NEW o \in Tools, skipped[o] => skipped'[o],
           handle'[o] => handle[o], pc'[o] = "write" => pc[o] = "write",
           recs'[o] = recs[o], i'[o] = i[o], off'[o] = off[o],
           handle'[o], pc'[o] = "write"
    PROVE  mixed' \/ skipped'[o] \/ Stands(recs'[o], i'[o], off'[o], ram')
  BY DEF Progress

\* A tool that keeps its file and its place, and has not got further than it
\* was, still has its records; so has one that begins to write.
LEMMA LoadedKept ==
    ASSUME Loaded, UNCHANGED toolVars,
           \A t \in Tools : pc'[t] = pc[t] \/ ~Loading(t)' \/ (Loading(t) /\ pc'[t] = "write")
                            \/ (pc[t] = "open" /\ pc'[t] = "hold")
    PROVE  Loaded'
  BY DEF Loaded, Loading, toolVars, Record

LEMMA RunWrites ==
    ASSUME WriteInv, NEW t \in Tools, NEW f \in Files, Run(t, f)
    PROVE  Loaded' /\ Progress' /\ OnlyWholeImageRuns'
<1> USE DEF WriteInv
<1>1. /\ pc \in [Tools -> PCs] /\ file \in [Tools -> Files \cup {<<>>}]
      /\ skipped \in [Tools -> BOOLEAN]
  BY DEF UploadInv, Typed
<1>2. f \in Seq(Line)
  BY FilesAssumption
<1>3. PICK p : p = parse_ihex(f)
  OBVIOUS
<1>4. p.recs \in Seq(Rec) /\ p.ok \in BOOLEAN
  BY <1>2, <1>3, ParseFacts
<1>5. /\ file' = [file EXCEPT ![t] = f] /\ recs' = [recs EXCEPT ![t] = p.recs]
      /\ i' = [i EXCEPT ![t] = 1] /\ off' = [off EXCEPT ![t] = 0]
      /\ pc' = [pc EXCEPT ![t] = IF p.ok THEN "open" ELSE "failed"]
      /\ skipped' = [skipped EXCEPT ![t] = FALSE]
      /\ UNCHANGED <<handle, deviceVars, booted, doubted, mixed>>
  BY <1>3 DEF Run
<1>6. Len(p.recs) \in Nat /\ \A m \in 1 .. Len(p.recs) : p.recs[m] \in Rec
  BY <1>4
<1>7. \A r \in Rec : Len(r.data) \in Nat
  BY DEF Rec
<1>8. Loaded'
  <2>1. recs' \in [Tools -> Seq(Rec)] /\ i' \in [Tools -> Nat] /\ off' \in [Tools -> Nat]
    BY <1>4, <1>5 DEF Loaded
  <2> SUFFICES ASSUME NEW o \in Tools
      PROVE  /\ i'[o] \in 1 .. Len(recs'[o]) + 1
             /\ i'[o] <= Len(recs'[o]) => off'[o] <= Len(recs'[o][i'[o]].data)
             /\ pc'[o] \in {"open", "hold"} => i'[o] = 1 /\ off'[o] = 0
             /\ Loading(o)' => /\ file'[o] \in Files /\ parse_ihex(file'[o]).ok
                               /\ recs'[o] = parse_ihex(file'[o]).recs
    BY <2>1 DEF Loaded, Record
  <2>2. CASE o = t
    <3>1. i'[t] = 1 /\ off'[t] = 0 /\ recs'[t] = p.recs /\ file'[t] = f
      BY <1>1, <1>5 DEF Loaded
    <3>2. pc'[t] = IF p.ok THEN "open" ELSE "failed"
      BY <1>1, <1>5
    <3>3. 1 <= Len(p.recs) => 0 <= Len(p.recs[1].data)
      BY <1>6, <1>7
    <3>4. 1 \in 1 .. Len(p.recs) + 1
      BY <1>6
    <3> QED
      BY <1>3, <2>2, <3>1, <3>2, <3>3, <3>4 DEF Loading
  <2>3. CASE o # t
    <3>1. /\ i'[o] = i[o] /\ off'[o] = off[o] /\ recs'[o] = recs[o]
          /\ file'[o] = file[o] /\ pc'[o] = pc[o]
      BY <1>1, <1>5, <2>3 DEF Loaded
    <3> QED
      BY <3>1 DEF Loaded, Loading, Record
  <2> QED
    BY <2>2, <2>3
<1>9. Progress'
  <2> SUFFICES ASSUME NEW o \in Tools, handle'[o], pc'[o] = "write"
               PROVE  mixed' \/ skipped'[o] \/ Stands(recs'[o], i'[o], off'[o], ram')
    BY DEF Progress
  <2>1. o # t
    BY <1>1, <1>5
  <2> QED
    BY <1>1, <1>5, <2>1, ProgressKept DEF Loaded, deviceVars
<1> QED
  BY <1>5, <1>8, <1>9, ImageKept DEF deviceVars

LEMMA OpenWrites ==
    ASSUME WriteInv, NEW t \in Tools, Open(t)
    PROVE  Loaded' /\ Progress' /\ OnlyWholeImageRuns'
<1> USE DEF WriteInv
<1>1. pc \in [Tools -> PCs] /\ handle \in [Tools -> BOOLEAN]
  BY DEF UploadInv, Typed
<1>2. pc[t] = "open" /\ UNCHANGED <<toolVars, ram, mode, skipped, booted, doubted>>
  BY DEF Open, deviceVars
<1>3. /\ pc' = [pc EXCEPT ![t] = "failed"] \/ pc' = [pc EXCEPT ![t] = "hold"]
      /\ \A o \in Tools : o # t => handle'[o] = handle[o]
  BY <1>1 DEF Open, Ends
<1>4. Loaded'
  BY <1>1, <1>2, <1>3, LoadedKept DEF Loading
<1>5. Progress'
  <2> SUFFICES ASSUME NEW o \in Tools, handle'[o], pc'[o] = "write"
               PROVE  mixed' \/ skipped'[o] \/ Stands(recs'[o], i'[o], off'[o], ram')
    BY DEF Progress
  <2>1. o # t /\ handle[o] /\ pc[o] = "write"
    BY <1>1, <1>3
  <2>2. ~mixed' => ~mixed
    BY <2>1 DEF Open
  <2> QED
    BY <1>2, <2>1, <2>2, ProgressKept DEF toolVars
<1>6. OnlyWholeImageRuns'
  <2>1. CASE UNCHANGED mixed
    BY <1>2, <2>1, ImageKept
  <2>2. CASE mode # "firmware"
    BY <1>2, <2>2 DEF OnlyWholeImageRuns
  <2> QED
    BY <2>1, <2>2 DEF Open
<1> QED
  BY <1>4, <1>5, <1>6

\* A tool that begins to write has put nothing in memory yet.
LEMMA HoldWrites ==
    ASSUME WriteInv, NEW t \in Tools, HoldReset(t)
    PROVE  Loaded' /\ Progress' /\ OnlyWholeImageRuns'
<1> USE DEF WriteInv
<1>1. /\ pc \in [Tools -> PCs] /\ handle \in [Tools -> BOOLEAN]
      /\ skipped \in [Tools -> BOOLEAN]
  BY DEF UploadInv, Typed
<1>2. pc[t] = "hold" /\ UNCHANGED <<toolVars, ram, booted, doubted, mixed>>
  BY DEF HoldReset, history
<1>3. /\ mode' = mode \/ mode' = "held"
      /\ \/ UNCHANGED handle /\ pc' = [pc EXCEPT ![t] = "write"]
         \/ Ends(t, "failed")
      /\ skipped' = skipped \/ skipped' = [skipped EXCEPT ![t] = TRUE]
  BY DEF HoldReset, Taken, NotTaken
<1>4. Loaded'
  BY <1>1, <1>2, <1>3, LoadedKept DEF Loading, Ends
<1>5. Progress'
  <2> SUFFICES ASSUME NEW o \in Tools, handle'[o], pc'[o] = "write"
               PROVE  mixed' \/ skipped'[o] \/ Stands(recs'[o], i'[o], off'[o], ram')
    BY DEF Progress
  <2>1. CASE o = t
    <3>1. i'[t] = 1 /\ off'[t] = 0
      BY <1>2 DEF Loaded, toolVars
    <3> QED
      BY <2>1, <3>1, StandsAtFirst
  <2>2. CASE o # t
    <3>1. handle[o] /\ pc[o] = "write" /\ skipped'[o] = skipped[o]
      BY <1>1, <1>3, <2>2 DEF Ends
    <3> QED
      BY <1>2, <3>1, ProgressKept DEF toolVars
  <2> QED
    BY <2>1, <2>2
<1>6. OnlyWholeImageRuns'
  BY <1>2, <1>3, ImageKept
<1> QED
  BY <1>4, <1>5, <1>6

\* What a writing tool has at hand: its records are those of a good file.
LEMMA Writing ==
    ASSUME WriteInv, NEW t \in Tools, Loading(t)
    PROVE  /\ file[t] \in Seq(Line) /\ WellFormed(file[t]) /\ recs[t] \in Seq(Rec)
           /\ \E ln : From(file[t], Len(file[t]), recs[t], ln)
<1>1. /\ file[t] \in Seq(Line) /\ parse_ihex(file[t]).ok
      /\ recs[t] = parse_ihex(file[t]).recs
  BY FilesAssumption DEF WriteInv, Loaded
<1>2. PICK f \in Seq(Line) : f = file[t]
  BY <1>1
<1>3. PICK p : p = parse_ihex(f)
  OBVIOUS
<1>4. /\ p.recs \in Seq(Rec) /\ p.ok \in BOOLEAN
      /\ p.ok => WellFormed(f) /\ \E ln : From(f, Len(f), p.recs, ln)
  BY <1>3, ParseFacts
<1> QED
  BY <1>1, <1>2, <1>3, <1>4

\* The chunk lies in the record, and is not empty.
LEMMA ChunkFits ==
    ASSUME NEW t \in Tools, NEW r \in Rec, r = Record(t), off[t] \in Nat,
           off[t] < Len(r.data), NEW c, c = Chunk(t)
    PROVE  c \in Nat /\ c > 0 /\ off[t] + c <= Len(r.data)
<1>1. Len(r.data) \in Nat
  BY DEF Rec
<1>2. PICK n \in Nat : n = Len(r.data)
  BY <1>1
<1>3. c = IF n - off[t] > MaxChunk THEN MaxChunk ELSE n - off[t]
  BY <1>2 DEF Chunk
<1>4. MaxChunk \in Nat /\ MaxChunk > 0
  BY SizesAssumption
<1> QED
  BY <1>2, <1>3, <1>4

\* The place of a tool that has written a chunk, or failed to.
LEMMA ChunkLoads ==
    ASSUME WriteInv, NEW t \in Tools, ChunkDue(t), UNCHANGED <<file, recs, i>>,
           off' = off \/ off' = [off EXCEPT ![t] = @ + Chunk(t)],
           pc' = pc \/ pc' = [pc EXCEPT ![t] = "failed"]
    PROVE  Loaded'
<1> USE DEF WriteInv
<1>1. pc \in [Tools -> PCs] /\ pc[t] = "write" /\ off[t] \in Nat /\ off \in [Tools -> Nat]
  BY DEF UploadInv, Typed, ChunkDue, Loaded
<1>2. PICK r : r = Record(t) /\ r = recs[t][i[t]]
  BY DEF Record
<1>3. r \in Rec /\ Len(r.data) \in Nat /\ off[t] < Len(r.data)
  <2>1. recs[t] \in Seq(Rec) /\ i[t] \in 1 .. Len(recs[t])
    BY DEF Loaded, ChunkDue
  <2>2. r \in Rec
    BY <1>2, <2>1
  <2>3. off[t] < Len(r.data)
    BY <1>2 DEF ChunkDue
  <2> QED
    BY <2>2, <2>3 DEF Rec
<1>4. PICK c \in Nat : c = Chunk(t) /\ off[t] + c <= Len(r.data)
  BY <1>1, <1>2, <1>3, ChunkFits
<1>5. off' \in [Tools -> Nat]
  <2>1. off[t] + c \in Nat
    BY <1>1
  <2>2. off' = off \/ off' = [off EXCEPT ![t] = off[t] + c]
    BY <1>4
  <2> QED
    BY <1>1, <2>1, <2>2
<1> SUFFICES ASSUME NEW o \in Tools
    PROVE  /\ i[o] \in 1 .. Len(recs[o]) + 1
           /\ i[o] <= Len(recs[o]) => off'[o] <= Len(recs[o][i[o]].data)
           /\ pc'[o] \in {"open", "hold"} => i[o] = 1 /\ off'[o] = 0
           /\ Loading(o)' => /\ file[o] \in Files /\ parse_ihex(file[o]).ok
                             /\ recs[o] = parse_ihex(file[o]).recs
  BY <1>5 DEF Loaded, Record
<1>6. CASE o = t
  <2>1. pc'[t] \in {"write", "failed"}
    BY <1>1
  <2>2. off'[t] <= Len(recs[t][i[t]].data)
    BY <1>1, <1>2, <1>3, <1>4
  <2> QED
    BY <1>1, <1>6, <2>1, <2>2 DEF Loaded, Loading
<1>7. CASE o # t
  <2>1. off'[o] = off[o] /\ pc'[o] = pc[o]
    BY <1>1, <1>7
  <2> QED
    BY <2>1 DEF Loaded, Loading, Record
<1> QED
  BY <1>6, <1>7

\* What a chunk does to memory.
LEMMA ChunkIs ==
    ASSUME NEW t \in Tools
    PROVE  Written(t) = After(Record(t), off[t], Chunk(t), ram)
  BY DEF Written, After, Covers, Place, ByteFor

\* A chunk: the writer's own image grows by it, and one beside it, of the same
\* file, is not touched.
LEMMA ChunkWrites ==
    ASSUME WriteInv, NEW t \in Tools, WriteChunk(t)
    PROVE  Loaded' /\ Progress' /\ OnlyWholeImageRuns'
<1> USE DEF WriteInv
<1>1. /\ pc \in [Tools -> PCs] /\ handle \in [Tools -> BOOLEAN]
      /\ skipped \in [Tools -> BOOLEAN]
  BY DEF UploadInv, Typed
<1>2. /\ pc[t] = "write" /\ i[t] <= Len(recs[t]) /\ off[t] < Len(Record(t).data)
      /\ ChunkDue(t) /\ UNCHANGED <<file, recs, i, booted, doubted, mixed>>
  BY DEF WriteChunk, ChunkDue, history
<1>3. /\ \/ handle[t] /\ ram' = Written(t)
         \/ UNCHANGED <<ram, mode>>
      /\ \/ /\ handle[t] /\ off' = [off EXCEPT ![t] = @ + Chunk(t)]
            /\ UNCHANGED <<pc, handle>>
            /\ ram' = Written(t) \/ skipped' = [skipped EXCEPT ![t] = TRUE]
         \/ Ends(t, "failed") /\ UNCHANGED off
      /\ skipped' = skipped \/ skipped' = [skipped EXCEPT ![t] = TRUE]
      /\ mode' = mode \/ mode' = "held"
  BY DEF WriteChunk, ChunkTaken, Taken, NotTaken, deviceVars
<1>4. PICK rs, ln : /\ rs = recs[t] /\ rs \in Seq(Rec)
                    /\ From(file[t], Len(file[t]), rs, ln)
  <2>1. Loading(t)
    BY <1>2 DEF Loading
  <2> QED
    BY <2>1, Writing
<1>4a. rs \in Seq(Rec)
  BY <1>4
<1>5. PICK k \in 1 .. Len(rs) : k = i[t]
  BY <1>2, <1>4 DEF Loaded
<1>6. PICK o1 \in Nat : o1 = off[t]
  BY DEF Loaded
<1>7. rs[k] \in Rec /\ rs[k] = Record(t) /\ Len(rs[k].data) \in Nat
  <2>1. rs[k] \in Rec
    BY <1>4, <1>5
  <2>2. rs[k] = Record(t)
    BY <1>4, <1>5 DEF Record
  <2> QED
    BY <2>1, <2>2 DEF Rec
<1>8. PICK c \in Nat : c = Chunk(t) /\ o1 + c <= Len(rs[k].data)
  BY <1>2, <1>6, <1>7, ChunkFits
<1>9. Written(t) = After(rs[k], o1, c, ram)
  BY <1>6, <1>7, <1>8, ChunkIs
<1>10. Loaded'
  <2>1. pc' = pc \/ pc' = [pc EXCEPT ![t] = "failed"]
    BY <1>3 DEF Ends
  <2> QED
    BY <1>2, <1>3, <2>1, ChunkLoads
<1>11. Progress'
  <2> SUFFICES ASSUME NEW o \in Tools, handle'[o], pc'[o] = "write", ~mixed, ~skipped'[o]
               PROVE  Stands(recs[o], i[o], off'[o], ram')
    BY <1>2 DEF Progress
  <2>1. handle[o] /\ pc[o] = "write" /\ ~skipped[o]
    BY <1>1, <1>3 DEF Ends
  <2>2. Stands(recs[o], i[o], off[o], ram)
    BY <2>1 DEF Progress
  <2>3. CASE o = t
    <3>1. handle[t] /\ ram' = Written(t) /\ off' = [off EXCEPT ![t] = @ + Chunk(t)]
      BY <1>1, <1>3, <2>3 DEF Ends
    <3>2. PICK m2 : m2 = After(rs[k], o1, c, ram)
      OBVIOUS
    <3>3. Stands(rs, k, o1, ram)
      BY <1>4, <1>5, <1>6, <2>2, <2>3
    <3>4. Stands(rs, k, o1 + c, m2)
      BY <1>4a, <1>8, <3>2, <3>3, StandsChunk
    <3>5. off'[t] = o1 + c
      BY <1>6, <1>8, <3>1 DEF Loaded
    <3> QED
      BY <1>4, <1>5, <1>9, <2>3, <3>1, <3>2, <3>4, <3>5
  <2>4. CASE o # t
    <3>1. off'[o] = off[o]
      BY <1>3, <2>4 DEF Loaded
    <3>2. CASE UNCHANGED ram
      BY <2>2, <3>1, <3>2
    <3>3. CASE handle[t] /\ ram' = Written(t)
      <4>1. file[o] = file[t] /\ Disjoint(file[t])
        BY <2>1, <2>4, <3>3 DEF UploadInv, HandlesAgree
      <4>2. recs[o] = rs
        BY <1>2, <1>4, <2>1, <4>1 DEF Loaded, Loading
      <4>3. PICK f \in Seq(Line) : f = file[t]
        <5>1. Loading(t)
          BY <1>2 DEF Loading
        <5> QED
          BY <5>1, Writing
      <4>4. PICK m2 : m2 = After(rs[k], o1, c, ram)
        OBVIOUS
      <4>5. PICK i0, o0 : i0 = i[o] /\ o0 = off[o]
        OBVIOUS
      <4>6. Stands(rs, i0, o0, ram) /\ From(f, Len(f), rs, ln) /\ Disjoint(f)
        BY <1>4, <2>2, <4>1, <4>2, <4>3, <4>5
      <4>7. Stands(rs, i0, o0, m2)
        BY <1>4a, <1>8, <4>4, <4>6, StandsBeside
      <4> QED
        BY <1>9, <3>1, <3>3, <4>2, <4>4, <4>5, <4>7
    <3> QED
      BY <1>3, <3>2, <3>3
  <2> QED
    BY <2>3, <2>4
<1>12. OnlyWholeImageRuns'
  <2>1. CASE UNCHANGED <<ram, mode>>
    BY <1>2, <2>1, ImageKept
  <2>2. CASE handle[t]
    <3>1. mode' # "firmware"
      BY <1>3, <2>2 DEF UploadInv, HandlesLive
    <3> QED
      BY <3>1 DEF OnlyWholeImageRuns
  <2> QED
    BY <1>3, <2>1, <2>2
<1> QED
  BY <1>10, <1>11, <1>12

\* A chunk that lets the 8051 go is one of a file that leaves the RAM.
LEMMA ReleasingWrites ==
    ASSUME WriteInv, NEW t \in Tools, WriteReleasing(t)
    PROVE  Loaded' /\ Progress' /\ OnlyWholeImageRuns'
<1> USE DEF WriteInv
<1>1. /\ ChunkDue(t) /\ Covers(t, Cpucs) /\ pc[t] = "write"
      /\ UNCHANGED <<file, recs, i>> /\ booted' = file[t]
      /\ handle' = [o \in Tools |-> FALSE]
      /\ off' = off \/ off' = [off EXCEPT ![t] = @ + Chunk(t)]
      /\ pc' = pc \/ pc' = [pc EXCEPT ![t] = "failed"]
  BY DEF WriteReleasing, Boots, Releasing, ChunkDue
<1>2. Loaded'
  BY <1>1, ChunkLoads
<1>3. Progress'
  BY <1>1 DEF Progress
<1>4. ~InRam(file[t])
  <2>1. Loading(t)
    BY <1>1 DEF Loading
  <2>2. PICK f, rs, ln : /\ f = file[t] /\ f \in Seq(Line)
                         /\ rs = recs[t] /\ rs \in Seq(Rec) /\ From(f, Len(f), rs, ln)
    BY <2>1, Writing
  <2>3. PICK k \in 1 .. Len(rs) : k = i[t] /\ rs[k] = Record(t)
    BY <1>1, <2>2 DEF Loaded, ChunkDue, Record
  <2>4. PICK r \in Rec : r = Record(t) /\ r = rs[k]
    BY <2>2, <2>3
  <2>5. off[t] \in Nat /\ off[t] < Len(r.data)
    BY <1>1, <2>4 DEF Loaded, ChunkDue
  <2>6. PICK c \in Nat : c = Chunk(t) /\ off[t] + c <= Len(r.data)
    BY <2>4, <2>5, ChunkFits
  <2>7. Cpucs \in Address /\ Cpucs \in RamTop .. AddrSpace - 1
    BY SizesAssumption DEF Address
  <2>8. r.addr \in Nat /\ Covers(t, Cpucs)
    BY <1>1 DEF Rec, Address
  <2>9. \E j \in Places(r, Cpucs) : TRUE
    <3>1. PICK n \in Nat \ {0} : n = AddrSpace
      BY SizesAssumption
    <3>2. Cpucs \in Int
      BY <2>7, <3>1 DEF Address
    <3>3. PICK x \in Int : x = Cpucs - r.addr - off[t]
      BY <2>5, <2>8, <3>2
    <3>4. PICK at : at = x % n /\ at < c
      BY <2>4, <2>6, <2>8, <3>1, <3>3 DEF Covers, Place
    <3>5. at \in 0 .. n - 1 /\ \E u \in Int : Multiple(n, u) /\ x = u + at
      BY <3>4, Quotient
    <3>6. PICK u \in Int : Multiple(n, u) /\ x = u + at
      BY <3>5
    <3>7. off[t] + at + 1 <= Len(r.data)
      BY <2>5, <2>6, <3>4, <3>5 DEF Rec
    <3>8. off[t] + at + 1 \in Places(r, Cpucs)
      BY <2>5, <2>7, <3>1, <3>3, <3>5, <3>6, <3>7, ChunkPlace
    <3> QED
      BY <3>8
  <2>10. RecPuts(rs[k], Cpucs) # {}
    BY <2>4, <2>9 DEF RecPuts
  <2>11. /\ ln[k] \in Body(f) /\ ln[k] \in 1 .. Len(f) /\ f[ln[k]].type = "data"
         /\ rs[k] = RecordOf(f, ln[k])
    BY <2>2 DEF From, DataLines, Body
  <2>12. RecPuts(rs[k], Cpucs) = Puts(f, ln[k], Cpucs)
    BY <2>2, <2>11, SamePuts
  <2> QED
    BY <2>2, <2>7, <2>10, <2>11, <2>12 DEF InRam
<1>5. InRam(booted)' <=> InRam(file[t])
  BY <1>1 DEF InRam
<1> QED
  BY <1>2, <1>3, <1>4, <1>5 DEF OnlyWholeImageRuns

LEMMA RecordWrites ==
    ASSUME WriteInv, NEW t \in Tools, NextRecord(t)
    PROVE  Loaded' /\ Progress' /\ OnlyWholeImageRuns'
<1> USE DEF WriteInv
<1>1. /\ pc[t] = "write" /\ i[t] <= Len(recs[t]) /\ off[t] >= Len(Record(t).data)
      /\ i' = [i EXCEPT ![t] = @ + 1] /\ off' = [off EXCEPT ![t] = 0]
      /\ UNCHANGED <<pc, file, recs, handle, mode, ram, skipped, booted, doubted, mixed>>
  BY DEF NextRecord, deviceVars, history
<1>2. recs[t] \in Seq(Rec) /\ i[t] \in 1 .. Len(recs[t]) /\ off[t] \in Nat
  BY <1>1 DEF Loaded
<1>3. PICK rs \in Seq(Rec), k \in 1 .. Len(recs[t]), o1 \in Nat :
                rs = recs[t] /\ k = i[t] /\ o1 = off[t]
  BY <1>2
<1>4. k \in 1 .. Len(rs) /\ o1 >= Len(rs[k].data) /\ \A r \in Rec : Len(r.data) \in Nat
  BY <1>1, <1>3 DEF Record, Rec
<1>5. i'[t] = k + 1 /\ off'[t] = 0 /\ k + 1 \in 1 .. Len(rs) + 1
  BY <1>1, <1>3, <1>4 DEF Loaded
<1>6. Loaded'
  <2>1. i' \in [Tools -> Nat] /\ off' \in [Tools -> Nat]
    BY <1>1, <1>3 DEF Loaded
  <2> SUFFICES ASSUME NEW o \in Tools
      PROVE  /\ i'[o] \in 1 .. Len(recs[o]) + 1
             /\ i'[o] <= Len(recs[o]) => off'[o] <= Len(recs[o][i'[o]].data)
             /\ pc[o] \in {"open", "hold"} => i'[o] = 1 /\ off'[o] = 0
    BY <1>1, <2>1 DEF Loaded, Record, Loading
  <2>2. CASE o = t
    <3>1. k + 1 <= Len(rs) => 0 <= Len(rs[k + 1].data)
      BY <1>4, <1>5
    <3> QED
      BY <1>1, <1>3, <1>5, <2>2, <3>1
  <2>3. CASE o # t
    <3>1. i'[o] = i[o] /\ off'[o] = off[o]
      BY <1>1, <2>3 DEF Loaded
    <3> QED
      BY <3>1 DEF Loaded, Record
  <2> QED
    BY <2>2, <2>3
<1>7. Progress'
  <2> SUFFICES ASSUME NEW o \in Tools, handle[o], pc[o] = "write", ~mixed, ~skipped[o]
               PROVE  Stands(recs[o], i'[o], off'[o], ram)
    BY <1>1 DEF Progress
  <2>1. Stands(recs[o], i[o], off[o], ram)
    BY DEF Progress
  <2>2. CASE o = t
    <3>1. Stands(rs, k, o1, ram)
      BY <1>3, <2>1, <2>2
    <3>2. Stands(rs, k + 1, 0, ram)
      BY <1>4, <3>1, StandsNext
    <3> QED
      BY <1>3, <1>5, <2>2, <3>2
  <2>3. CASE o # t
    BY <1>1, <2>1, <2>3 DEF Loaded
  <2> QED
    BY <2>2, <2>3
<1> QED
  BY <1>1, <1>6, <1>7, ImageKept

\* The 8051 is let go, by a tool that has written its file's last record.
LEMMA ReleaseWrites ==
    ASSUME WriteInv, NEW t \in Tools, ReleaseReset(t)
    PROVE  Loaded' /\ Progress' /\ OnlyWholeImageRuns'
<1> USE DEF WriteInv
<1>1. /\ pc \in [Tools -> PCs] /\ handle \in [Tools -> BOOLEAN]
      /\ skipped \in [Tools -> BOOLEAN]
  BY DEF UploadInv, Typed
<1>2. /\ pc[t] = "write" /\ i[t] > Len(recs[t]) /\ UNCHANGED <<toolVars, ram, mixed>>
      /\ pc' = [pc EXCEPT ![t] = "done"] \/ pc' = [pc EXCEPT ![t] = "failed"]
      /\ \/ /\ handle[t] /\ mode' = "firmware" /\ booted' = file[t] /\ doubted' = skipped[t]
            /\ handle' = [o \in Tools |-> FALSE]
         \/ /\ UNCHANGED <<mode, booted, doubted>>
            /\ handle' = [handle EXCEPT ![t] = FALSE]
      /\ skipped' = skipped \/ skipped' = [skipped EXCEPT ![t] = TRUE]
  BY DEF ReleaseReset, Boots, Taken, NotTaken
<1>3. Loaded'
  BY <1>1, <1>2, LoadedKept DEF Loading
<1>4. Progress'
  <2> SUFFICES ASSUME NEW o \in Tools, handle'[o], pc'[o] = "write"
               PROVE  mixed' \/ skipped'[o] \/ Stands(recs'[o], i'[o], off'[o], ram')
    BY DEF Progress
  <2>1. handle[o] /\ pc[o] = "write" /\ (skipped[o] => skipped'[o])
    BY <1>1, <1>2
  <2> QED
    BY <1>2, <2>1, ProgressKept DEF toolVars
<1>5. CASE handle[t] /\ mode' = "firmware" /\ booted' = file[t] /\ doubted' = skipped[t]
  <2>1. Loading(t)
    BY <1>2 DEF Loading
  <2>2. PICK f, rs, ln : /\ f = file[t] /\ f \in Seq(Line) /\ WellFormed(f)
                         /\ rs = recs[t] /\ rs \in Seq(Rec) /\ From(f, Len(f), rs, ln)
    BY <2>1, Writing
  <2>3. PICK k, o1 : k = i[t] /\ o1 = off[t] /\ k \in Nat /\ k > Len(rs)
    BY <1>2, <2>2 DEF Loaded
  <2>4. ASSUME ~mixed, ~skipped[t], InRam(f) PROVE Holds(f)
    <3>1. Stands(rs, k, o1, ram)
      BY <1>2, <1>5, <2>2, <2>3, <2>4 DEF Progress
    <3> QED
      BY <2>2, <2>3, <2>4, <3>1, WholeImage
  <2>5. booted' = f
    BY <1>5, <2>2
  <2>6. Holds(booted)' <=> Holds(f)
    BY <1>2, <2>5 DEF Holds
  <2>7. (WellFormed(booted)' <=> WellFormed(f)) /\ (InRam(booted)' <=> InRam(f))
    BY <2>5 DEF WellFormed, InRam
  <2> QED
    BY <1>2, <1>3, <1>4, <1>5, <2>2, <2>4, <2>6, <2>7 DEF OnlyWholeImageRuns
<1>6. CASE UNCHANGED <<mode, booted, doubted>>
  BY <1>2, <1>3, <1>4, <1>6, ImageKept
<1> QED
  BY <1>2, <1>5, <1>6

\* The plug: no tool has a device when it is pulled, or before it is put in.
LEMMA PlugWrites ==
    ASSUME WriteInv, Unplug \/ Plug
    PROVE  Loaded' /\ Progress' /\ OnlyWholeImageRuns'
<1> USE DEF WriteInv
<1>1. UNCHANGED <<pc, toolVars>> /\ mode' # "firmware" /\ \A t \in Tools : ~handle'[t]
  BY DEF Unplug, Plug, UploadInv, HandlesLive
<1>2. Loaded'
  BY <1>1, LoadedKept
<1> QED
  BY <1>1, <1>2 DEF Progress, OnlyWholeImageRuns

LEMMA WriteStep == WriteInv /\ [Next]_vars => WriteInv'
<1> SUFFICES ASSUME WriteInv, [Next]_vars PROVE WriteInv'
  OBVIOUS
<1>1. UploadInv'
  BY NextStep DEF WriteInv
<1>2. CASE UNCHANGED vars
  <2>1. /\ UNCHANGED <<pc, toolVars, handle, ram, skipped, booted, doubted, mixed, mode>>
        /\ UNCHANGED <<recs, i, off>>
    BY <1>2 DEF vars, deviceVars, history, toolVars
  <2>2. Loaded' /\ OnlyWholeImageRuns'
    BY <2>1, LoadedKept, ImageKept DEF WriteInv
  <2>3. Progress'
    BY <2>1 DEF WriteInv, Progress
  <2> QED
    BY <1>1, <2>2, <2>3 DEF WriteInv
<1>3. CASE Next
  <2>1. Loaded' /\ Progress' /\ OnlyWholeImageRuns'
    BY <1>3, RunWrites, OpenWrites, HoldWrites, ChunkWrites, ReleasingWrites,
       RecordWrites, ReleaseWrites, PlugWrites DEF Next
  <2> QED
    BY <1>1, <2>1 DEF WriteInv
<1> QED
  BY <1>2, <1>3

\* The records of a tool are those of its file, and its place in them never
\* leaves them; a handle is one to a device still in its loader.
THEOREM TypeCorrect == Spec => []TypeOK
<1>1. WriteInv => TypeOK
  <2> SUFFICES ASSUME WriteInv PROVE TypeOK
    OBVIOUS
  <2>6. mode \in {"absent", "loader", "held", "firmware"}
    BY DEF WriteInv, UploadInv, Typed, Modes
  <2>7. ASSUME NEW t \in Tools PROVE
         /\ mode \in {"absent", "loader", "held", "firmware"}
         /\ pc[t] \in {"open", "hold", "write", "done", "failed"}
         /\ \A k \in 1 .. Len(recs[t]) : recs[t][k].addr \in Address
         /\ i[t] \in 1 .. Len(recs[t]) + 1
         /\ i[t] <= Len(recs[t]) => off[t] \in 0 .. Len(Record(t).data)
         /\ handle[t] => pc[t] \in {"hold", "write"} /\ mode \in {"loader", "held"}
    <3>1. /\ pc \in [Tools -> PCs] /\ mode \in Modes /\ HandlesLive
          /\ recs[t] \in Seq(Rec) /\ i[t] \in Nat /\ off[t] \in Nat
          /\ i[t] \in 1 .. Len(recs[t]) + 1
          /\ i[t] <= Len(recs[t]) => off[t] <= Len(Record(t).data)
      BY DEF WriteInv, UploadInv, Typed, Loaded
    <3>2. \A r \in Rec : r.addr \in Address /\ Len(r.data) \in Nat
      BY DEF Rec
    <3>3. i[t] <= Len(recs[t]) => Record(t) \in Rec
      BY <3>1 DEF Record
    <3>4. i[t] <= Len(recs[t]) => off[t] \in 0 .. Len(Record(t).data)
      BY <3>1, <3>2, <3>3
    <3>5. \A k \in 1 .. Len(recs[t]) : recs[t][k] \in Rec
      BY <3>1
    <3> QED
      BY <3>1, <3>2, <3>4, <3>5 DEF PCs, Modes, HandlesLive
  <2> QED
    BY <2>6, <2>7 DEF TypeOK
<1> QED
  BY <1>1, WriteInit, WriteStep, PTL DEF Spec

\* Whatever fails and whoever else uploads, the 8051 is let go on nothing but
\* the whole image of a well-formed file: for every chunk size, any number of
\* tools, runs and faults, and every file whose bytes belong to the RAM, unless
\* images were mixed or a transfer of the upload moved nothing.
THEOREM WholeImageCorrect == Spec => []OnlyWholeImageRuns
<1>1. WriteInv => OnlyWholeImageRuns
  BY DEF WriteInv
<1> QED
  BY <1>1, WriteInit, WriteStep, PTL DEF Spec
=============================================================================
