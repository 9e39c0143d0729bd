----------------------------- MODULE RESPProofs -----------------------------
(***************************************************************************)
(* Proofs about the parsers of RESP: what a parser has decided about some  *)
(* bytes, it still says when more bytes follow.  handle_client and         *)
(* _read_reply call their parsers on every prefix of a stream that TCP     *)
(* happens to deliver; this is why the cuts do not matter.                 *)
(*                                                                         *)
(* The functions of RESP are recursive.  The provers cannot use an         *)
(* induction theorem with an operator parameter, so the induction here is  *)
(* over sets of numbers (NatSetInduction), and the existence of each       *)
(* recursive function is proved from it.                                   *)
(***************************************************************************)
EXTENDS RESP, WellFoundedInduction, TLAPS

-----------------------------------------------------------------------------
(* Induction *)

(* A nonempty set of naturals has a least element. *)
LEMMA LeastNat ==
  ASSUME NEW T \in SUBSET Nat, T # {}
  PROVE  \E x \in T : \A y \in T : x <= y
<1> DEFINE R == {ss \in Nat \X Nat : ss[1] < ss[2]}
<1>1. R = OpToRel(<,Nat)
  BY Zenon DEF OpToRel
<1>2. IsWellFoundedOn(R, Nat)
  BY <1>1, NatLessThanWellFounded, Zenon
<1>3. PICK x \in T : \A y \in T : ~ (<<y, x>> \in R)
  BY <1>2, WFMin, Zenon
<1>4. \A a, b \in Nat : a < b => <<a, b>> \in R
  OBVIOUS
<1> HIDE DEF R
<1>5. \A y \in T : ~ (y < x)
  BY <1>3, <1>4, Zenon
<1> QED BY <1>5

(* Induction over the naturals: a set with 0 and the successor of each of  *)
(* its naturals holds them all.                                            *)
LEMMA NatSetInduction ==
  ASSUME NEW T, 0 \in T, \A n \in Nat : n \in T => n + 1 \in T
  PROVE  \A n \in Nat : n \in T
<1> SUFFICES ASSUME Nat \ T # {} PROVE FALSE
  OBVIOUS
<1>1. PICK x \in Nat \ T : \A y \in Nat \ T : x <= y
  BY LeastNat
<1>2. x # 0 /\ x - 1 \in Nat /\ x - 1 \in T
  BY <1>1
<1> QED BY <1>1, <1>2

-----------------------------------------------------------------------------
(* Lines *)

(* The first end of line is the one that _read_line finds. *)
LEMMA ReadLineIs ==
  ASSUME NEW m \in Seq(Byte), NEW s \in Nat \ {0}, NEW end \in s..(Len(m) - 1),
         EndsLine(m, end), \A j \in s..(end - 1) : ~EndsLine(m, j)
  PROVE  ReadLine(m, s) = Parsed(SubSeq(m, s, end - 1), end + 2)
<1> DEFINE P(i) == EndsLine(m, i) /\ \A j \in s..(i - 1) : ~EndsLine(m, j)
           e == CHOOSE i \in s..(Len(m) - 1) : P(i)
<1>1. e \in s..(Len(m) - 1) /\ P(e)
  <2> HIDE DEF P
  <2>1. P(end)
    BY DEF P
  <2> QED BY <2>1
<1>2. e = end
  <2> HIDE DEF e
  <2> QED BY <1>1
<1>3. ~ \A i \in s..(Len(m) - 1) : ~EndsLine(m, i)
  OBVIOUS
<1>4. ReadLine(m, s) = Parsed(SubSeq(m, s, e - 1), e + 2)
  BY <1>3, Zenon DEF ReadLine
<1> QED BY <1>2, <1>4

(* _read_line returns a line and the index after its CR LF, or waits. *)
LEMMA ReadLineFacts ==
  ASSUME NEW m \in Seq(Byte), NEW s \in Nat \ {0}
  PROVE  \/ ReadLine(m, s) = Incomplete
         \/ \E end \in s..(Len(m) - 1) :
              /\ EndsLine(m, end)
              /\ \A j \in s..(end - 1) : ~EndsLine(m, j)
              /\ ReadLine(m, s) = Parsed(SubSeq(m, s, end - 1), end + 2)
<1> DEFINE T == {i \in s..(Len(m) - 1) : EndsLine(m, i)}
<1>1. CASE T = {}
  BY <1>1, Zenon DEF ReadLine
<1>2. CASE T # {}
  <2>1. T \in SUBSET Nat
    OBVIOUS
  <2>2. PICK end \in T : \A y \in T : end <= y
    BY <1>2, <2>1, LeastNat
  <2>3. end \in s..(Len(m) - 1) /\ EndsLine(m, end)
        /\ \A j \in s..(end - 1) : ~EndsLine(m, j)
    BY <2>2
  <2>4. ReadLine(m, s) = Parsed(SubSeq(m, s, end - 1), end + 2)
    BY <2>3, ReadLineIs
  <2> QED BY <2>3, <2>4
<1> QED BY <1>1, <1>2

(* A line that has been read stays the same when more bytes follow. *)
LEMMA ReadLineStable ==
  ASSUME NEW m \in Seq(Byte), NEW r \in Seq(Byte), NEW s \in Nat \ {0},
         ReadLine(m, s) # Incomplete
  PROVE  ReadLine(m \o r, s) = ReadLine(m, s)
<1>1. PICK end \in s..(Len(m) - 1) :
        /\ EndsLine(m, end)
        /\ \A j \in s..(end - 1) : ~EndsLine(m, j)
        /\ ReadLine(m, s) = Parsed(SubSeq(m, s, end - 1), end + 2)
  BY ReadLineFacts
<1>2. /\ m \o r \in Seq(Byte)
      /\ end \in s..(Len(m \o r) - 1)
  OBVIOUS
<1>3. \A j \in s..end : EndsLine(m \o r, j) <=> EndsLine(m, j)
  BY DEF EndsLine
<1>4. SubSeq(m \o r, s, end - 1) = SubSeq(m, s, end - 1)
  OBVIOUS
<1>5. ReadLine(m \o r, s) = Parsed(SubSeq(m \o r, s, end - 1), end + 2)
  <2> DEFINE x == m \o r
  <2>1. EndsLine(x, end) /\ \A j \in s..(end - 1) : ~EndsLine(x, j)
    BY <1>1, <1>3
  <2>2. x \in Seq(Byte) /\ end \in s..(Len(x) - 1)
    BY <1>2
  <2> HIDE DEF x
  <2>3. ReadLine(x, s) = Parsed(SubSeq(x, s, end - 1), end + 2)
    BY <2>1, <2>2, ReadLineIs
  <2> QED BY <2>3 DEF x
<1> QED BY <1>1, <1>4, <1>5

-----------------------------------------------------------------------------
(* Recursive functions over 0..N, each value made from the one before *)

(* f starts from base and takes a step for each n. *)
Recursion(f, N, V, base, step) ==
  /\ f \in [0..N -> V]
  /\ f[0] = base
  /\ \A n \in 1..N : f[n] = step[n][f[n - 1]]

(* The steps stay in V. *)
Steps(step, N, V) == step \in [1..N -> [V -> V]]

(* Such a function exists. *)
LEMMA RecursionExists ==
  ASSUME NEW N \in Nat, NEW V, NEW base \in V, NEW step, Steps(step, N, V)
  PROVE  \E f : Recursion(f, N, V, base, step)
<1> USE DEF Recursion, Steps
<1> DEFINE G(f, k) == /\ f \in [0..k -> V]
                      /\ f[0] = base
                      /\ \A n \in 1..k : f[n] = step[n][f[n - 1]]
           T == {k \in Nat : k <= N => \E f : G(f, k)}
<1>1. 0 \in T
  <2>1. G([n \in 0..0 |-> base], 0)
    OBVIOUS
  <2> QED BY <2>1
<1>2. ASSUME NEW k \in Nat, k \in T
      PROVE  k + 1 \in T
  <2> SUFFICES ASSUME k + 1 <= N PROVE \E f : G(f, k + 1)
    OBVIOUS
  <2>1. PICK f : G(f, k)
    BY <1>2
  <2> DEFINE g == [n \in 0..(k + 1) |-> IF n <= k THEN f[n] ELSE step[k + 1][f[k]]]
  <2>2. step[k + 1][f[k]] \in V
    BY <2>1
  <2>3. g \in [0..(k + 1) -> V] /\ g[0] = base
    BY <2>1, <2>2
  <2>4. ASSUME NEW n \in 1..(k + 1)
        PROVE  g[n] = step[n][g[n - 1]]
    <3>1. CASE n <= k
      BY <2>1, <3>1
    <3>2. CASE n = k + 1
      BY <2>1, <3>2
    <3> QED BY <3>1, <3>2
  <2> QED BY <2>3, <2>4
<1>3. N \in T
  <2> HIDE DEF T
  <2> QED BY <1>1, <1>2, NatSetInduction
<1> QED BY <1>3

(* Its values stay in a set that holds the first and is closed under the   *)
(* step.                                                                   *)
LEMMA RecursionType ==
  ASSUME NEW N \in Nat, NEW V, NEW f, f[0] \in V,
         \A n \in 1..N : f[n - 1] \in V => f[n] \in V
  PROVE  \A n \in 0..N : f[n] \in V
<1> DEFINE T == {k \in Nat : k <= N => f[k] \in V}
<1>1. 0 \in T
  OBVIOUS
<1>2. ASSUME NEW k \in Nat, k \in T
      PROVE  k + 1 \in T
  BY <1>2
<1>3. \A k \in Nat : k \in T
  <2> HIDE DEF T
  <2> QED BY <1>1, <1>2, NatSetInduction
<1> QED BY <1>3

-----------------------------------------------------------------------------
(* Numbers *)

(* Each digit has a value. *)
LEMMA DigitValueNat == \A d \in DOMAIN DigitValue : DigitValue[d] \in 0..9
<1> SUFFICES ASSUME NEW d \in ToSet(Digit)
             PROVE  (CHOOSE n \in 0..9 : Digit[n + 1] = d) \in 0..9
  BY DEF DigitValue
<1>1. PICK i \in DOMAIN Digit : Digit[i] = d
  BY DEF ToSet
<1>2. i - 1 \in 0..9 /\ Digit[(i - 1) + 1] = d
  BY <1>1 DEF Digit
<1> QED BY <1>2

(* What follows the sign is a sequence. *)
LEMMA UnsignedSeq ==
  ASSUME NEW line \in Seq(Byte)
  PROVE  Unsigned(line) \in Seq(Byte)
<1>1. CASE line # <<>> /\ Head(line) = "-"
  BY <1>1 DEF Unsigned
<1>2. CASE ~(line # <<>> /\ Head(line) = "-")
  BY <1>2, Zenon DEF Unsigned
<1> QED BY <1>1, <1>2

(* The recursion of int(), over the digits. *)
LEMMA DigitsUnfold ==
  ASSUME NEW d \in Seq(Byte), \A n \in 1..Len(d) : d[n] \in DOMAIN DigitValue,
         NEW f, f = CHOOSE u : u = [n \in 0..Len(d) |->
                                      IF n = 0 THEN 0
                                      ELSE 10 * u[n - 1] + DigitValue[d[n]]]
  PROVE  /\ f \in [0..Len(d) -> Nat]
         /\ f[0] = 0
         /\ \A n \in 1..Len(d) : f[n] = 10 * f[n - 1] + DigitValue[d[n]]
<1> DEFINE F(u) == [n \in 0..Len(d) |-> IF n = 0 THEN 0
                                        ELSE 10 * u[n - 1] + DigitValue[d[n]]]
           step == [n \in 1..Len(d) |-> [v \in Nat |-> 10 * v + DigitValue[d[n]]]]
<1>1. \A n \in 1..Len(d) : DigitValue[d[n]] \in Nat
  BY DigitValueNat
<1>2. step \in [1..Len(d) -> [Nat -> Nat]]
  BY <1>1
<1>3. PICK g \in [0..Len(d) -> Nat] :
        g[0] = 0 /\ \A n \in 1..Len(d) : g[n] = step[n][g[n - 1]]
  <2> DEFINE N == Len(d)
             V == Nat
             b == 0
  <2>1. N \in Nat /\ b \in V /\ Steps(step, N, V)
    BY <1>2 DEF Steps
  <2> HIDE DEF step, N, V, b
  <2>2. \E g : Recursion(g, N, V, b, step)
    BY ONLY <2>1, RecursionExists
  <2> QED BY <2>2 DEF N, V, b, Recursion
<1>4. g = F(g)
  <2>1. ASSUME NEW n \in 0..Len(d) PROVE g[n] = F(g)[n]
    <3>1. CASE n = 0
      BY <1>3, <3>1
    <3>2. CASE n # 0
      <4>1. n \in 1..Len(d) /\ g[n - 1] \in Nat
        BY <3>2
      <4>2. g[n] = 10 * g[n - 1] + DigitValue[d[n]]
        BY <1>3, <4>1
      <4> QED BY <3>2, <4>2
    <3> QED BY <3>1, <3>2
  <2> HIDE DEF step
  <2>2. F(g) = [n \in 0..Len(d) |-> F(g)[n]]
    OBVIOUS
  <2> HIDE DEF F
  <2> QED BY <2>1, <2>2
<1>5. f = F(f)
  <2>1. f = CHOOSE u : u = F(u)
    OBVIOUS
  <2> HIDE DEF F, step
  <2> QED BY <1>4, <2>1
<1>6. f[0] = 0 /\ \A n \in 1..Len(d) : f[n] = 10 * f[n - 1] + DigitValue[d[n]]
  <2> HIDE DEF step
  <2> QED BY ONLY <1>5, d \in Seq(Byte)
<1>7. \A n \in 0..Len(d) : f[n] \in Nat
  <2>1. ASSUME NEW n \in 1..Len(d), f[n - 1] \in Nat
        PROVE  f[n] \in Nat
    <3>1. f[n] = 10 * f[n - 1] + DigitValue[d[n]] /\ DigitValue[d[n]] \in Nat
      BY <1>1, <1>6
    <3> QED BY ONLY <2>1, <3>1
  <2>2. Len(d) \in Nat /\ f[0] \in Nat
    BY ONLY <1>6, d \in Seq(Byte)
  <2> QED BY ONLY <2>1, <2>2, RecursionType
<1> QED BY ONLY <1>5, <1>6, <1>7, d \in Seq(Byte)

(* The recursion of int(), for the digits of a line. *)
LEMMA IntOfUnfold ==
  ASSUME NEW line \in Seq(Byte), IsInt(line)
  PROVE  \E f \in [0..Len(Unsigned(line)) -> Nat] :
           /\ f[0] = 0
           /\ \A n \in 1..Len(Unsigned(line)) :
                f[n] = 10 * f[n - 1] + DigitValue[Unsigned(line)[n]]
           /\ IntOf(line) = IF Head(line) = "-" THEN -f[Len(Unsigned(line))]
                            ELSE f[Len(Unsigned(line))]
<1> DEFINE d == Unsigned(line)
           f == CHOOSE u : u = [n \in 0..Len(d) |-> IF n = 0 THEN 0
                                        ELSE 10 * u[n - 1] + DigitValue[d[n]]]
<1>1. d \in Seq(Byte) /\ \A n \in 1..Len(d) : d[n] \in DOMAIN DigitValue
  BY UnsignedSeq DEF IsInt
<1>2. IntOf(line) = IF Head(line) = "-" THEN -f[Len(d)] ELSE f[Len(d)]
  BY Zenon DEF IntOf
<1>3. \E u : u = f
  OBVIOUS
<1>4. /\ f \in [0..Len(d) -> Nat]
      /\ f[0] = 0
      /\ \A n \in 1..Len(d) : f[n] = 10 * f[n - 1] + DigitValue[d[n]]
  <2> HIDE DEF d
  <2> QED BY <1>1, DigitsUnfold, Zenon
<1> HIDE DEF f
<1> QED BY <1>2, <1>4

(* int() returns an integer. *)
LEMMA IntOfInt ==
  ASSUME NEW line \in Seq(Byte), IsInt(line)
  PROVE  IntOf(line) \in Int
<1> DEFINE d == Unsigned(line)
<1>1. PICK f \in [0..Len(d) -> Nat] :
        IntOf(line) = IF Head(line) = "-" THEN -f[Len(d)] ELSE f[Len(d)]
  BY IntOfUnfold
<1>2. Len(d) \in 0..Len(d)
  BY UnsignedSeq
<1> HIDE DEF d
<1> QED BY <1>1, <1>2

-----------------------------------------------------------------------------
(* The parsers below the frame *)

(* What a parser may make of the bytes from some index on: the next index  *)
(* lies between low and high.                                              *)
Outcome(p, low, high) ==
  \/ p \in {Incomplete, Malformed, Refused}
  \/ p.tag = "ok" /\ p = Parsed(p.value, p.next) /\ p.next \in low..high

(* The results differ in their tags. *)
LEMMA Tags ==
  /\ Incomplete.tag = "incomplete" /\ Malformed.tag = "malformed" /\ Refused.tag = "refused"
  /\ \A v, n : /\ Parsed(v, n).tag = "ok"
               /\ Parsed(v, n).value = v
               /\ Parsed(v, n).next = n
               /\ Parsed(v, n) \notin {Incomplete, Malformed, Refused}
  /\ Incomplete # Malformed /\ Incomplete # Refused /\ Malformed # Refused
BY DEF Incomplete, Malformed, Refused, Parsed

(* Which results are outcomes. *)
LEMMA Outcomes ==
  /\ \A low, high : /\ Outcome(Incomplete, low, high)
                     /\ Outcome(Malformed, low, high)
                     /\ Outcome(Refused, low, high)
  /\ \A v, n, low, high : n \in low..high => Outcome(Parsed(v, n), low, high)
<1>1. \A low, high : /\ Outcome(Incomplete, low, high)
                     /\ Outcome(Malformed, low, high)
                     /\ Outcome(Refused, low, high)
  BY DEF Outcome
<1>2. ASSUME NEW v, NEW n, NEW low, NEW high, n \in low..high
      PROVE  Outcome(Parsed(v, n), low, high)
  <2>1. Parsed(v, n).tag = "ok" /\ Parsed(v, n).value = v /\ Parsed(v, n).next = n
    BY Tags
  <2> QED BY <1>2, <2>1, Zenon DEF Outcome
<1> QED BY <1>1, <1>2

(* A line as a parse result. *)
LEMMA ReadLineOutcome ==
  ASSUME NEW m \in Seq(Byte), NEW s \in Nat \ {0}
  PROVE  /\ Outcome(ReadLine(m, s), s + 2, Len(m) + 1)
         /\ ReadLine(m, s) \notin {Malformed, Refused}
         /\ ReadLine(m, s).tag = "ok" => ReadLine(m, s).value \in Seq(Byte)
<1>1. CASE ReadLine(m, s) = Incomplete
  BY <1>1, Tags DEF Outcome
<1>2. CASE ReadLine(m, s) # Incomplete
  <2>1. PICK end \in s..(Len(m) - 1) : ReadLine(m, s) = Parsed(SubSeq(m, s, end - 1), end + 2)
    BY <1>2, ReadLineFacts
  <2>2. SubSeq(m, s, end - 1) \in Seq(Byte) /\ end + 2 \in (s + 2)..(Len(m) + 1)
    OBVIOUS
  <2>3. Outcome(Parsed(SubSeq(m, s, end - 1), end + 2), s + 2, Len(m) + 1)
    BY <2>2, Outcomes, Zenon
  <2> DEFINE line == SubSeq(m, s, end - 1)
  <2> HIDE DEF line
  <2>4. Parsed(line, end + 2) \notin {Malformed, Refused} /\ Parsed(line, end + 2).value = line
    BY Tags
  <2> QED BY <2>1, <2>2, <2>3, <2>4 DEF line
<1> QED BY <1>1, <1>2

(* int() of a line: its outcome, and that more bytes do not change it. *)
LEMMA ReadIntFacts ==
  ASSUME NEW m \in Seq(Byte), NEW r \in Seq(Byte), NEW s \in Nat \ {0}, NEW least \in Int
  PROVE  /\ Outcome(ReadInt(m, s, least), s + 2, Len(m) + 1)
         /\ ReadInt(m, s, least).tag = "ok" => /\ ReadInt(m, s, least).value \in Int
                                               /\ ReadInt(m, s, least).value >= least
         /\ ReadInt(m, s, least) # Incomplete =>
              ReadInt(m \o r, s, least) = ReadInt(m, s, least)
<1> DEFINE Of(p) == IF p.tag = "ok"
                    THEN IF IsInt(p.value) /\ IntOf(p.value) >= least
                         THEN Parsed(IntOf(p.value), p.next) ELSE Malformed
                    ELSE p
           p == ReadLine(m, s)
<1>1. \A x : ReadInt(x, s, least) = Of(ReadLine(x, s))
  BY Zenon DEF ReadInt, Then
<1>2. /\ Outcome(p, s + 2, Len(m) + 1)
      /\ p \notin {Malformed, Refused}
      /\ p.tag = "ok" => p.value \in Seq(Byte)
  BY ReadLineOutcome
<1>3. p # Incomplete => ReadLine(m \o r, s) = p
  BY ReadLineStable
<1>4. Of(Incomplete) = Incomplete
  BY Tags
<1>5. p # Incomplete => /\ p.tag = "ok" /\ p.value \in Seq(Byte)
                        /\ p.next \in (s + 2)..(Len(m) + 1)
  BY <1>2 DEF Outcome
<1> HIDE DEF p
<1>6. CASE p = Incomplete
  <2>1. ReadInt(m, s, least) = Incomplete
    BY <1>1, <1>4, <1>6 DEF p
  <2> QED BY <2>1, Tags DEF Outcome
<1>7. CASE p # Incomplete /\ IsInt(p.value) /\ IntOf(p.value) >= least
  <2>1. ReadInt(m, s, least) = Parsed(IntOf(p.value), p.next)
    BY <1>1, <1>5, <1>7, Zenon DEF p
  <2>2. IntOf(p.value) \in Int
    BY <1>5, <1>7, IntOfInt
  <2>3. ReadInt(m \o r, s, least) = ReadInt(m, s, least)
    <3> HIDE DEF Of
    <3> QED BY <1>1, <1>3, <1>7, Zenon DEF p
  <2> QED BY <1>5, <1>7, <2>1, <2>2, <2>3, Tags DEF Outcome
<1>8. CASE p # Incomplete /\ ~(IsInt(p.value) /\ IntOf(p.value) >= least)
  <2>1. ReadInt(m, s, least) = Malformed
    BY <1>1, <1>5, <1>8, Zenon DEF p
  <2>2. ReadInt(m \o r, s, least) = ReadInt(m, s, least)
    <3> HIDE DEF Of
    <3> QED BY <1>1, <1>3, <1>8, Zenon DEF p
  <2> QED BY <2>1, <2>2, Tags DEF Outcome
<1> QED BY <1>6, <1>7, <1>8

(* The same for the payload of a bulk string. *)
LEMMA PayloadFacts ==
  ASSUME NEW m \in Seq(Byte), NEW r \in Seq(Byte), NEW s \in Nat \ {0}, NEW length \in Nat
  PROVE  /\ Outcome(Payload(m, s, length), s + 2, Len(m) + 1)
         /\ Payload(m, s, length) # Incomplete =>
              Payload(m \o r, s, length) = Payload(m, s, length)
<1> DEFINE end == s + length
           text(x) == SubSeq(x, s, end - 1)
           Good(x) == EndsLine(x, end) /\ IsUtf8(text(x))
<1>1. \A x : Payload(x, s, length) =
        IF end + 1 > Len(x) THEN Incomplete
        ELSE IF Good(x) THEN Parsed(Decode(text(x)), end + 2) ELSE Malformed
  BY Zenon DEF Payload
<1>2. CASE end + 1 > Len(m)
  BY <1>1, <1>2, Tags DEF Outcome
<1>3. CASE ~(end + 1 > Len(m))
  <2>1. ~(end + 1 > Len(m \o r)) /\ end + 2 \in (s + 2)..(Len(m) + 1)
    BY <1>3
  <2>2. text(m \o r) = text(m)
    BY <1>3
  <2>3. EndsLine(m \o r, end) <=> EndsLine(m, end)
    BY <1>3 DEF EndsLine
  <2>4. Good(m \o r) <=> Good(m)
    <3> HIDE DEF text, end
    <3> QED BY <2>2, <2>3
  <2> HIDE DEF text, Good
  <2>5. Outcome(Payload(m, s, length), s + 2, Len(m) + 1)
    BY <1>1, <1>3, <2>1, Outcomes, Zenon
  <2>6. Payload(m \o r, s, length) = Payload(m, s, length)
    BY <1>1, <1>3, <2>1, <2>2, <2>4, Zenon
  <2> QED BY <2>5, <2>6
<1> QED BY <1>2, <1>3

-----------------------------------------------------------------------------
(* Arrays *)

(* One item more. *)
ItemStep(item, v) ==
  IF v.tag = "ok"
  THEN IF item[v.next].tag = "ok"
       THEN Parsed(Append(v.value, item[v.next].value), item[v.next].next)
       ELSE item[v.next]
  ELSE v

(* f has the results of the loop over the items, round by round. *)
Rounds(f, count, start, item) ==
  /\ f[0] = Parsed(<<>>, start)
  /\ \A n \in 1..count : f[n] = ItemStep(item, f[n - 1])
  /\ Items(count, start, item) = f[count]

(* The recursion of the loop over the items is well defined. *)
LEMMA ItemsUnfold ==
  ASSUME NEW count \in Nat, NEW start, NEW item
  PROVE  \E f : Rounds(f, count, start, item)
<1> DEFINE b == Parsed(<<>>, start)
           F(u, k) == [n \in 0..k |-> IF n = 0 THEN b ELSE ItemStep(item, u[n - 1])]
           T == {k \in Nat : \E u : u = F(u, k)}
           f == CHOOSE u : u = F(u, count)
<1> HIDE DEF b
<1>1. 0 \in T
  <2> DEFINE u == [n \in 0..0 |-> b]
  <2>1. u = F(u, 0)
    OBVIOUS
  <2> QED BY <2>1
<1>2. ASSUME NEW k \in Nat, k \in T
      PROVE  k + 1 \in T
  <2>1. PICK u : u = F(u, k)
    BY <1>2
  <2> DEFINE w == [n \in 0..(k + 1) |-> IF n <= k THEN u[n] ELSE ItemStep(item, u[k])]
  <2>2. ASSUME NEW n \in 0..(k + 1)
        PROVE  w[n] = F(w, k + 1)[n]
    <3>1. CASE n = 0
      <4>1. u[0] = b
        BY <2>1
      <4> QED BY <3>1, <4>1
    <3>2. CASE n \in 1..k
      <4>1. u[n] = ItemStep(item, u[n - 1])
        BY <2>1, <3>2
      <4>2. w[n] = u[n] /\ w[n - 1] = u[n - 1]
        BY <3>2
      <4>3. F(w, k + 1)[n] = ItemStep(item, w[n - 1])
        BY <3>2
      <4> HIDE DEF w, F
      <4> QED BY <4>1, <4>2, <4>3
    <3>3. CASE n = k + 1
      <4>1. w[n] = ItemStep(item, u[k]) /\ w[n - 1] = u[k]
        BY <3>3
      <4>2. F(w, k + 1)[n] = ItemStep(item, w[n - 1])
        BY <3>3
      <4> HIDE DEF w, F
      <4> QED BY <4>1, <4>2
    <3> QED BY <3>1, <3>2, <3>3
  <2>3. w = [n \in 0..(k + 1) |-> w[n]] /\ F(w, k + 1) = [n \in 0..(k + 1) |-> F(w, k + 1)[n]]
    OBVIOUS
  <2>4. w = F(w, k + 1)
    <3> HIDE DEF w, F
    <3> QED BY <2>2, <2>3
  <2> HIDE DEF w
  <2> QED BY <2>4
<1>3. count \in T
  <2> HIDE DEF T
  <2> QED BY <1>1, <1>2, NatSetInduction
<1>4. f = F(f, count)
  <2> HIDE DEF F
  <2> QED BY <1>3
<1>5. f[0] = b /\ \A n \in 1..count : f[n] = ItemStep(item, f[n - 1])
  <2> HIDE DEF f
  <2> QED BY ONLY <1>4, count \in Nat
<1>6. Items(count, start, item) = f[count]
  BY Zenon DEF Items, Then, ItemStep, b
<1> HIDE DEF f
<1> QED BY <1>5, <1>6 DEF b, Rounds

(* The items of an array end where the last one ends. *)
LEMMA ItemsOutcome ==
  ASSUME NEW count \in Nat, NEW high \in Nat, NEW start \in 1..high, NEW item,
         \A p \in start..high : Outcome(item[p], p + 1, high)
  PROVE  Outcome(Items(count, start, item), start, high)
<1>0. PICK f : Rounds(f, count, start, item)
  BY ItemsUnfold
<1>1. /\ f[0] = Parsed(<<>>, start)
      /\ \A n \in 1..count : f[n] = ItemStep(item, f[n - 1])
      /\ Items(count, start, item) = f[count]
  BY <1>0 DEF Rounds
<1> DEFINE T == {n \in Nat : n <= count => Outcome(f[n], start, high)}
<1>2. 0 \in T
  <2>1. start \in start..high
    OBVIOUS
  <2> QED BY <1>1, <2>1, Outcomes
<1>3. ASSUME NEW n \in Nat, n \in T
      PROVE  n + 1 \in T
  <2> SUFFICES ASSUME n + 1 <= count PROVE Outcome(f[n + 1], start, high)
    OBVIOUS
  <2> DEFINE v == f[n]
             i == item[v.next]
  <2>1. f[n + 1] = ItemStep(item, v) /\ Outcome(v, start, high)
    BY <1>1, <1>3
  <2> HIDE DEF v
  <2>2. CASE v.tag # "ok"
    BY <2>1, <2>2 DEF ItemStep
  <2>3. CASE v.tag = "ok"
    <3>1. v.next \in start..high
      BY <2>1, <2>3, Tags DEF Outcome
    <3>2. Outcome(i, v.next + 1, high)
      BY <3>1
    <3> HIDE DEF i
    <3>3. CASE i.tag # "ok"
      <4>1. i \in {Incomplete, Malformed, Refused}
        BY <3>2, <3>3 DEF Outcome
      <4>2. f[n + 1] = i
        BY <2>1, <2>3, <3>3 DEF ItemStep, i
      <4> QED BY <4>1, <4>2, Outcomes
    <3>4. CASE i.tag = "ok"
      <4>1. i.next \in start..high
        BY <3>1, <3>2, <3>4, Tags DEF Outcome
      <4>2. f[n + 1] = Parsed(Append(v.value, i.value), i.next)
        BY <2>1, <2>3, <3>4 DEF ItemStep, i
      <4> QED BY <4>1, <4>2, Outcomes, Zenon
    <3> QED BY <3>3, <3>4
  <2> QED BY <2>2, <2>3
<1>4. count \in T
  <2> HIDE DEF T
  <2> QED BY <1>2, <1>3, NatSetInduction
<1> QED BY <1>1, <1>4

(* What was decided in item is the same in later. *)
Keeps(item, later, start, high) ==
  \A p \in start..high : /\ Outcome(item[p], p + 1, high)
                         /\ item[p] # Incomplete => later[p] = item[p]

(* Items that were decided stay the same, if each item that was decided    *)
(* does.                                                                   *)
LEMMA ItemsStable ==
  ASSUME NEW count \in Nat, NEW high \in Nat, NEW start \in 1..high, NEW item, NEW later,
         Keeps(item, later, start, high),
         Items(count, start, item) # Incomplete
  PROVE  Items(count, start, later) = Items(count, start, item)
<1> USE DEF Keeps
<1>0. PICK f : Rounds(f, count, start, item)
  BY ItemsUnfold
<1>1. /\ f[0] = Parsed(<<>>, start)
      /\ \A n \in 1..count : f[n] = ItemStep(item, f[n - 1])
      /\ Items(count, start, item) = f[count]
  BY <1>0 DEF Rounds
<1>a. PICK g : Rounds(g, count, start, later)
  BY ItemsUnfold
<1>2. /\ g[0] = Parsed(<<>>, start)
      /\ \A n \in 1..count : g[n] = ItemStep(later, g[n - 1])
      /\ Items(count, start, later) = g[count]
  BY <1>a DEF Rounds
<1> DEFINE T == {n \in Nat : n <= count => /\ Outcome(f[n], start, high)
                                           /\ f[n] # Incomplete => g[n] = f[n]}
<1>3. 0 \in T
  <2>1. start \in start..high
    OBVIOUS
  <2> QED BY <1>1, <1>2, <2>1, Outcomes
<1>4. ASSUME NEW n \in Nat, n \in T
      PROVE  n + 1 \in T
  <2> SUFFICES ASSUME n + 1 <= count
               PROVE  /\ Outcome(f[n + 1], start, high)
                      /\ f[n + 1] # Incomplete => g[n + 1] = f[n + 1]
    OBVIOUS
  <2> DEFINE v == f[n]
             i == item[v.next]
  <2>1. /\ f[n + 1] = ItemStep(item, v)
        /\ g[n + 1] = ItemStep(later, g[n])
        /\ Outcome(v, start, high)
        /\ v # Incomplete => g[n] = v
    BY <1>1, <1>2, <1>4
  <2> HIDE DEF v
  <2>2. CASE v.tag # "ok"
    BY <2>1, <2>2 DEF ItemStep
  <2>3. CASE v.tag = "ok"
    <3>1. v.next \in start..high /\ g[n] = v
      BY <2>1, <2>3, Tags DEF Outcome
    <3>2. Outcome(i, v.next + 1, high) /\ (i # Incomplete => later[v.next] = i)
      BY <3>1
    <3> HIDE DEF i
    <3>3. CASE i.tag # "ok"
      <4>1. i \in {Incomplete, Malformed, Refused}
        BY <3>2, <3>3 DEF Outcome
      <4>2. f[n + 1] = i
        BY <2>1, <2>3, <3>3 DEF ItemStep, i
      <4>3. i # Incomplete => g[n + 1] = i
        BY <2>1, <2>3, <3>1, <3>2, <3>3 DEF ItemStep
      <4> QED BY <4>1, <4>2, <4>3, Outcomes
    <3>4. CASE i.tag = "ok"
      <4>1. i.next \in start..high /\ i # Incomplete
        BY <3>1, <3>2, <3>4, Tags DEF Outcome
      <4> DEFINE values == Append(v.value, i.value)
      <4>2. f[n + 1] = Parsed(values, i.next)
        BY <2>1, <2>3, <3>4 DEF ItemStep, i
      <4>3. g[n + 1] = Parsed(values, i.next)
        BY <2>1, <2>3, <3>1, <3>2, <3>4, <4>1 DEF ItemStep
      <4> HIDE DEF values
      <4>4. Outcome(f[n + 1], start, high)
        <5>1. Outcome(Parsed(values, i.next), start, high)
          BY ONLY <4>1, Outcomes, Zenon
        <5> QED BY ONLY <4>2, <5>1, Zenon
      <4> QED BY <4>2, <4>3, <4>4
    <3> QED BY <3>3, <3>4
  <2> QED BY <2>2, <2>3
<1>5. count \in T
  <2> HIDE DEF T
  <2> QED BY <1>3, <1>4, NatSetInduction
<1> QED BY <1>1, <1>2, <1>5

-----------------------------------------------------------------------------
(* Requests *)

(* _parse_bulk_string: its outcome, and that more bytes do not change it. *)
LEMMA BulkStringFacts ==
  ASSUME NEW m \in Seq(Byte), NEW r \in Seq(Byte), NEW s \in 1..(Len(m) + 1)
  PROVE  /\ Outcome(BulkString(m, s), s + 1, Len(m) + 1)
         /\ BulkString(m, s) # Incomplete => BulkString(m \o r, s) = BulkString(m, s)
<1> DEFINE Length(x) == ReadInt(x, s + 1, 0)
           p == Length(m)
           high == Len(m) + 1
<1>1. \A x : BulkString(x, s) =
        IF s > Len(x) THEN Incomplete
        ELSE IF x[s] # "$" THEN Malformed
        ELSE IF Length(x).tag = "ok" THEN Payload(x, Length(x).next, Length(x).value)
        ELSE Length(x)
  BY Zenon DEF BulkString, Then
<1>2. CASE s > Len(m)
  BY <1>1, <1>2, Outcomes, Zenon
<1>3. CASE ~(s > Len(m)) /\ m[s] # "$"
  <2>1. ~(s > Len(m \o r)) /\ (m \o r)[s] # "$"
    BY <1>3
  <2>2. BulkString(m, s) = Malformed /\ BulkString(m \o r, s) = Malformed
    BY <1>1, <1>3, <2>1, Zenon
  <2> QED BY <2>2, Outcomes, Zenon
<1>4. CASE ~(s > Len(m)) /\ m[s] = "$"
  <2>1. ~(s > Len(m \o r)) /\ (m \o r)[s] = "$"
    BY <1>4
  <2>2. /\ Outcome(p, s + 3, high)
        /\ p.tag = "ok" => p.value \in Int /\ p.value >= 0
        /\ p # Incomplete => Length(m \o r) = p
    <3>1. s + 1 \in Nat \ {0} /\ (s + 1) + 2 = s + 3 /\ 0 \in Int
      OBVIOUS
    <3> QED BY <3>1, ReadIntFacts
  <2> HIDE DEF Length
  <2>3. BulkString(m, s) = IF p.tag = "ok" THEN Payload(m, p.next, p.value) ELSE p
    BY <1>1, <1>4, Zenon
  <2>4. BulkString(m \o r, s) = IF Length(m \o r).tag = "ok"
                                THEN Payload(m \o r, Length(m \o r).next, Length(m \o r).value)
                                ELSE Length(m \o r)
    BY <1>1, <2>1, Zenon
  <2> HIDE DEF p
  <2>5. CASE p.tag # "ok"
    <3>1. p \in {Incomplete, Malformed, Refused}
      BY <2>2, <2>5 DEF Outcome
    <3>2. BulkString(m, s) = p /\ (p # Incomplete => BulkString(m \o r, s) = p)
      BY <2>2, <2>3, <2>4, <2>5
    <3> QED BY <3>1, <3>2, Outcomes, Zenon
  <2>6. CASE p.tag = "ok"
    <3>1. p.next \in (s + 3)..high /\ p.value \in Nat /\ p # Incomplete
      BY <2>2, <2>6, Tags DEF Outcome
    <3> DEFINE q == Payload(m, p.next, p.value)
    <3>2. /\ Outcome(q, p.next + 2, high)
          /\ q # Incomplete => Payload(m \o r, p.next, p.value) = q
      <4>1. p.next \in Nat \ {0}
        BY <3>1
      <4> QED BY <3>1, <4>1, PayloadFacts
    <3>3. BulkString(m, s) = q /\ BulkString(m \o r, s) = Payload(m \o r, p.next, p.value)
      BY <2>2, <2>3, <2>4, <2>6, <3>1
    <3> HIDE DEF q
    <3>4. Outcome(q, s + 1, high)
      BY <3>1, <3>2 DEF Outcome
    <3> QED BY <3>2, <3>3, <3>4
  <2> QED BY <2>5, <2>6
<1> QED BY <1>2, <1>3, <1>4

(* _parse_array_header, likewise. *)
LEMMA ArrayHeaderFacts ==
  ASSUME NEW m \in Seq(Byte), NEW r \in Seq(Byte)
  PROVE  /\ Outcome(ArrayHeader(m, 1), 2, Len(m) + 1)
         /\ ArrayHeader(m, 1).tag = "ok" => ArrayHeader(m, 1).value \in Nat
         /\ ArrayHeader(m, 1) # Incomplete => ArrayHeader(m \o r, 1) = ArrayHeader(m, 1)
<1> DEFINE Count(x) == ReadInt(x, 2, 0)
           p == Count(m)
           high == Len(m) + 1
<1>1. \A x : ArrayHeader(x, 1) = IF 1 > Len(x) THEN Incomplete
                                 ELSE IF x[1] # "*" THEN Malformed ELSE Count(x)
  <2>1. 1 + 1 = 2
    OBVIOUS
  <2> QED BY <2>1, Zenon DEF ArrayHeader
<1>2. CASE 1 > Len(m)
  <2>1. ArrayHeader(m, 1) = Incomplete
    BY <1>1, <1>2, Zenon
  <2> QED BY <2>1, Outcomes, Tags
<1>3. CASE ~(1 > Len(m)) /\ m[1] # "*"
  <2>1. ~(1 > Len(m \o r)) /\ (m \o r)[1] # "*"
    BY <1>3
  <2>2. ArrayHeader(m, 1) = Malformed /\ ArrayHeader(m \o r, 1) = Malformed
    BY <1>1, <1>3, <2>1, Zenon
  <2> QED BY <2>2, Outcomes, Tags
<1>4. CASE ~(1 > Len(m)) /\ m[1] = "*"
  <2>1. ~(1 > Len(m \o r)) /\ (m \o r)[1] = "*"
    BY <1>4
  <2>2. /\ Outcome(p, 4, high)
        /\ p.tag = "ok" => p.value \in Int /\ p.value >= 0
        /\ p # Incomplete => Count(m \o r) = p
    <3>1. 2 \in Nat \ {0} /\ 2 + 2 = 4 /\ 0 \in Int
      OBVIOUS
    <3> QED BY <3>1, ReadIntFacts
  <2> HIDE DEF Count
  <2>3. ArrayHeader(m, 1) = p /\ ArrayHeader(m \o r, 1) = Count(m \o r)
    BY <1>1, <1>4, <2>1, Zenon
  <2> HIDE DEF p
  <2>4. Outcome(p, 2, high)
    BY <2>2 DEF Outcome
  <2> QED BY <2>2, <2>3, <2>4
<1> QED BY <1>2, <1>3, <1>4

(* parse_resp_frame, called on the bytes received so far: once it returns  *)
(* a command or raises, more bytes do not change what it says, and the     *)
(* command ends within the bytes it was given.                             *)
THEOREM FrameStable ==
  ASSUME NEW m \in Seq(Byte), NEW r \in Seq(Byte)
  PROVE  /\ Outcome(ParseFrame(m), 2, Len(m) + 1)
         /\ ParseFrame(m) # Incomplete => ParseFrame(m \o r) = ParseFrame(m)
<1> DEFINE item(x) == [s \in 1..(Len(x) + 1) |-> BulkString(x, s)]
           h == ArrayHeader(m, 1)
           high == Len(m) + 1
<1>1. \A x : ParseFrame(x) = IF ArrayHeader(x, 1).tag = "ok"
                             THEN Items(ArrayHeader(x, 1).value, ArrayHeader(x, 1).next, item(x))
                             ELSE ArrayHeader(x, 1)
  BY Zenon DEF ParseFrame, Then
<1>2. /\ Outcome(h, 2, high)
      /\ h.tag = "ok" => h.value \in Nat
      /\ h # Incomplete => ArrayHeader(m \o r, 1) = h
  BY ArrayHeaderFacts
<1>3. high \in Nat /\ \A s \in 1..high : /\ Outcome(item(m)[s], s + 1, high)
                                         /\ item(m)[s] # Incomplete => item(m \o r)[s] = item(m)[s]
  <2>1. high \in Nat
    OBVIOUS
  <2>2. ASSUME NEW s \in 1..high
        PROVE  item(m)[s] = BulkString(m, s) /\ item(m \o r)[s] = BulkString(m \o r, s)
    OBVIOUS
  <2> HIDE DEF item
  <2> QED BY <2>1, <2>2, BulkStringFacts
<1> HIDE DEF item, h, high
<1>4. CASE h.tag # "ok"
  <2>1. h \in {Incomplete, Malformed, Refused}
    BY <1>2, <1>4 DEF Outcome
  <2>2. ParseFrame(m) = h /\ (h # Incomplete => ParseFrame(m \o r) = h)
    BY <1>1, <1>2, <1>4, Zenon DEF h
  <2> QED BY <2>1, <2>2, Outcomes DEF high
<1>5. CASE h.tag = "ok"
  <2>1. h.next \in 2..high /\ h # Incomplete
    BY <1>2, <1>5, Tags DEF Outcome
  <2> DEFINE count == h.value
             first == h.next
  <2>2. ParseFrame(m) = Items(count, first, item(m))
    BY <1>1, <1>5, Zenon DEF h
  <2>3. ParseFrame(m \o r) = Items(count, first, item(m \o r))
    BY <1>1, <1>2, <1>5, <2>1, Zenon
  <2>4. count \in Nat /\ first \in 2..high
    BY <1>2, <1>5, <2>1
  <2> HIDE DEF count, first
  <2>5. Outcome(Items(count, first, item(m)), first, high)
    BY <1>3, <2>4, ItemsOutcome
  <2>6. Items(count, first, item(m)) # Incomplete =>
          Items(count, first, item(m \o r)) = Items(count, first, item(m))
    <3> DEFINE now == item(m)
               later == item(m \o r)
    <3>1. /\ Keeps(now, later, first, high)
          /\ count \in Nat /\ high \in Nat /\ first \in 1..high
      BY <1>3, <2>4 DEF Keeps
    <3> HIDE DEF now, later
    <3>2. Items(count, first, now) # Incomplete => Items(count, first, later) = Items(count, first, now)
      BY ONLY <3>1, ItemsStable
    <3> QED BY <3>2 DEF now, later
  <2>7. Outcome(Items(count, first, item(m)), 2, high)
    BY <2>4, <2>5 DEF Outcome
  <2> QED BY <2>2, <2>3, <2>6, <2>7 DEF high
<1> QED BY <1>4, <1>5

-----------------------------------------------------------------------------
(* Replies *)

(* A simple string, an integer, a null or a bulk string: the outcome, and  *)
(* that more bytes do not change it.                                       *)
LEMMA ReplyLineFacts ==
  ASSUME NEW m \in Seq(Byte), NEW r \in Seq(Byte), NEW s \in Nat \ {0}
  PROVE  /\ Outcome(ReplyLine(m, s), s + 2, Len(m) + 1)
         /\ ReplyLine(m, s) # Incomplete => ReplyLine(m \o r, s) = ReplyLine(m, s)
<1> DEFINE Of(p) == IF p.tag = "ok"
                    THEN IF IsUtf8(p.value) THEN Parsed(Str(Decode(p.value)), p.next) ELSE Malformed
                    ELSE p
           p == ReadLine(m, s)
           high == Len(m) + 1
<1>1. \A x : ReplyLine(x, s) = Of(ReadLine(x, s))
  BY Zenon DEF ReplyLine, Then
<1>2. Outcome(p, s + 2, high) /\ (p # Incomplete => ReadLine(m \o r, s) = p)
  BY ReadLineOutcome, ReadLineStable
<1>3. Of(Incomplete) = Incomplete
  BY Tags
<1>4. p.tag = "ok" => p.next \in (s + 2)..high
  BY <1>2, Tags DEF Outcome
<1>5. p.tag # "ok" => p \in {Incomplete, Malformed, Refused}
  BY <1>2 DEF Outcome
<1> HIDE DEF p, high
<1>6. Outcome(Of(p), s + 2, high)
  BY <1>4, <1>5, Outcomes, Zenon
<1> HIDE DEF Of
<1>7. ReplyLine(m, s) = Of(p)
  BY <1>1, Zenon DEF p
<1>8. p # Incomplete => ReplyLine(m \o r, s) = Of(p)
  BY <1>1, <1>2, Zenon
<1> QED BY <1>3, <1>6, <1>7, <1>8 DEF high

(* The same for an integer. *)
LEMMA ReplyIntFacts ==
  ASSUME NEW m \in Seq(Byte), NEW r \in Seq(Byte), NEW s \in Nat \ {0}
  PROVE  /\ Outcome(ReplyInt(m, s), s + 2, Len(m) + 1)
         /\ ReplyInt(m, s) # Incomplete => ReplyInt(m \o r, s) = ReplyInt(m, s)
<1> DEFINE Of(p) == IF p.tag = "ok"
                    THEN IF IsInt(p.value) THEN Parsed(Integer(IntOf(p.value)), p.next) ELSE Malformed
                    ELSE p
           p == ReadLine(m, s)
           high == Len(m) + 1
<1>1. \A x : ReplyInt(x, s) = Of(ReadLine(x, s))
  BY Zenon DEF ReplyInt, Then
<1>2. Outcome(p, s + 2, high) /\ (p # Incomplete => ReadLine(m \o r, s) = p)
  BY ReadLineOutcome, ReadLineStable
<1>3. Of(Incomplete) = Incomplete
  BY Tags
<1>4. p.tag = "ok" => p.next \in (s + 2)..high
  BY <1>2, Tags DEF Outcome
<1>5. p.tag # "ok" => p \in {Incomplete, Malformed, Refused}
  BY <1>2 DEF Outcome
<1> HIDE DEF p, high
<1>6. Outcome(Of(p), s + 2, high)
  BY <1>4, <1>5, Outcomes, Zenon
<1> HIDE DEF Of
<1>7. ReplyInt(m, s) = Of(p)
  BY <1>1, Zenon DEF p
<1>8. p # Incomplete => ReplyInt(m \o r, s) = Of(p)
  BY <1>1, <1>2, Zenon
<1> QED BY <1>3, <1>6, <1>7, <1>8 DEF high

(* The same for an error. *)
LEMMA ReplyErrorFacts ==
  ASSUME NEW m \in Seq(Byte), NEW r \in Seq(Byte), NEW s \in Nat \ {0}
  PROVE  LET Of(p) == IF p.tag = "ok" THEN Refused ELSE p
         IN /\ Outcome(Of(ReplyLine(m, s)), s + 2, Len(m) + 1)
            /\ Of(ReplyLine(m, s)) # Incomplete => Of(ReplyLine(m \o r, s)) = Of(ReplyLine(m, s))
<1> DEFINE Of(p) == IF p.tag = "ok" THEN Refused ELSE p
           p == ReplyLine(m, s)
           high == Len(m) + 1
<1>1. Outcome(p, s + 2, high) /\ (p # Incomplete => ReplyLine(m \o r, s) = p)
  BY ReplyLineFacts
<1>2. Of(Incomplete) = Incomplete
  BY Tags
<1>3. p.tag # "ok" => p \in {Incomplete, Malformed, Refused}
  BY <1>1 DEF Outcome
<1> HIDE DEF p, high
<1>4. Outcome(Of(p), s + 2, high)
  BY <1>3, Outcomes, Zenon
<1> HIDE DEF Of
<1>5. Of(p) # Incomplete => Of(ReplyLine(m \o r, s)) = Of(p)
  BY <1>1, <1>2
<1> QED BY <1>4, <1>5 DEF Of, p, high

(* The same for a null or a bulk string. *)
LEMMA ReplyBulkFacts ==
  ASSUME NEW m \in Seq(Byte), NEW r \in Seq(Byte), NEW s \in Nat \ {0}
  PROVE  /\ Outcome(ReplyBulk(m, s), s + 2, Len(m) + 1)
         /\ ReplyBulk(m, s) # Incomplete => ReplyBulk(m \o r, s) = ReplyBulk(m, s)
<1> DEFINE Length(x) == ReadInt(x, s, -1)
           Of(q) == IF q.tag = "ok" THEN Parsed(Str(q.value), q.next) ELSE q
           p == Length(m)
           high == Len(m) + 1
<1>1. \A x : ReplyBulk(x, s) =
        IF Length(x).tag = "ok"
        THEN IF Length(x).value = -1 THEN Parsed(Null, Length(x).next)
             ELSE Of(Payload(x, Length(x).next, Length(x).value))
        ELSE Length(x)
  BY Zenon DEF ReplyBulk, Then
<1>2. /\ Outcome(p, s + 2, high)
      /\ p.tag = "ok" => p.value \in Int /\ p.value >= -1
      /\ p # Incomplete => Length(m \o r) = p
  <2>1. -1 \in Int
    OBVIOUS
  <2> QED BY <2>1, ReadIntFacts
<1>3. Of(Incomplete) = Incomplete
  BY Tags
<1> HIDE DEF Length, high
<1>4. CASE p.tag # "ok"
  <2>1. p \in {Incomplete, Malformed, Refused}
    BY <1>2, <1>4 DEF Outcome
  <2>2. ReplyBulk(m, s) = p /\ (p # Incomplete => ReplyBulk(m \o r, s) = p)
    BY <1>1, <1>2, <1>4, Zenon
  <2> QED BY <2>1, <2>2, Outcomes DEF high
<1>5. CASE p.tag = "ok"
  <2>1. p.next \in (s + 2)..high /\ p # Incomplete
    BY <1>2, <1>5, Tags DEF Outcome
  <2>2. CASE p.value = -1
    <3>1. ReplyBulk(m, s) = Parsed(Null, p.next) /\ ReplyBulk(m \o r, s) = Parsed(Null, p.next)
      BY <1>1, <1>2, <1>5, <2>1, <2>2, Zenon
    <3> QED BY <2>1, <3>1, Outcomes DEF high
  <2>3. CASE p.value # -1
    <3> DEFINE q == Payload(m, p.next, p.value)
               q2 == Payload(m \o r, p.next, p.value)
    <3>1. /\ Outcome(q, p.next + 2, high)
          /\ q # Incomplete => q2 = q
      <4>1. p.next \in Nat \ {0} /\ p.value \in Nat
        BY <1>2, <1>5, <2>1, <2>3
      <4> HIDE DEF p
      <4> QED BY <4>1, PayloadFacts DEF high
    <3>2. ReplyBulk(m, s) = Of(q)
      BY <1>1, <1>5, <2>3, Zenon
    <3>3. ReplyBulk(m \o r, s) = Of(q2)
      BY <1>1, <1>2, <1>5, <2>1, <2>3, Zenon
    <3> HIDE DEF q, q2, p
    <3>4. q.tag = "ok" => q.next \in (s + 2)..high
      BY <2>1, <3>1, Tags DEF Outcome
    <3>5. q.tag # "ok" => q \in {Incomplete, Malformed, Refused}
      BY <3>1 DEF Outcome
    <3>6. Outcome(Of(q), s + 2, high)
      BY <3>4, <3>5, Outcomes, Zenon
    <3> HIDE DEF Of
    <3> QED BY <1>3, <3>1, <3>2, <3>3, <3>6 DEF high
  <2> QED BY <2>2, <2>3
<1> QED BY <1>4, <1>5

(* A reply that is an array, from the count on. *)
ReplyArray(m, s, reply) ==
  Then(ReadInt(m, s, 0), LAMBDA count, first :
    Then(Items(count, first, reply), LAMBDA items, end : Parsed(Array(items), end)))

(* The same for an array, if it holds for the replies in it. *)
LEMMA ReplyArrayFacts ==
  ASSUME NEW m \in Seq(Byte), NEW r \in Seq(Byte), NEW s \in Nat \ {0},
         NEW reply, NEW later, Keeps(reply, later, s, Len(m) + 1)
  PROVE  /\ Outcome(ReplyArray(m, s, reply), s + 2, Len(m) + 1)
         /\ ReplyArray(m, s, reply) # Incomplete =>
              ReplyArray(m \o r, s, later) = ReplyArray(m, s, reply)
<1> DEFINE Count(x) == ReadInt(x, s, 0)
           Of(q) == IF q.tag = "ok" THEN Parsed(Array(q.value), q.next) ELSE q
           p == Count(m)
           high == Len(m) + 1
<1>1. \A x, g : ReplyArray(x, s, g) = IF Count(x).tag = "ok"
                                      THEN Of(Items(Count(x).value, Count(x).next, g))
                                      ELSE Count(x)
  BY Zenon DEF ReplyArray, Then
<1>2. /\ Outcome(p, s + 2, high)
      /\ p.tag = "ok" => p.value \in Int /\ p.value >= 0
      /\ p # Incomplete => Count(m \o r) = p
  <2>1. 0 \in Int
    OBVIOUS
  <2> QED BY <2>1, ReadIntFacts
<1>3. Of(Incomplete) = Incomplete
  BY Tags
<1>4. high \in Nat
  OBVIOUS
<1> HIDE DEF Count, high
<1>5. CASE p.tag # "ok"
  <2>1. p \in {Incomplete, Malformed, Refused}
    BY <1>2, <1>5 DEF Outcome
  <2>2. ReplyArray(m, s, reply) = p /\ (p # Incomplete => ReplyArray(m \o r, s, later) = p)
    BY <1>1, <1>2, <1>5, Zenon
  <2> QED BY <2>1, <2>2, Outcomes DEF high
<1>6. CASE p.tag = "ok"
  <2> DEFINE count == p.value
             first == p.next
             q == Items(count, first, reply)
             q2 == Items(count, first, later)
  <2>1. /\ first \in (s + 2)..high /\ first \in 1..high /\ count \in Nat
        /\ p # Incomplete
    BY <1>2, <1>6, Tags DEF Outcome
  <2>2. ReplyArray(m, s, reply) = Of(q)
    BY <1>1, <1>6, Zenon
  <2>3. ReplyArray(m \o r, s, later) = Of(q2)
    BY <1>1, <1>2, <1>6, <2>1, Zenon
  <2> HIDE DEF p, count, first
  <2>4. Keeps(reply, later, first, high)
    BY <2>1 DEF Keeps, high
  <2>5. Outcome(q, first, high)
    <3>1. \A i \in first..high : Outcome(reply[i], i + 1, high)
      BY <2>4 DEF Keeps
    <3> QED BY <1>4, <2>1, <3>1, ItemsOutcome
  <2>6. q # Incomplete => q2 = q
    BY <1>4, <2>1, <2>4, ItemsStable
  <2> HIDE DEF q, q2
  <2>7. q.tag = "ok" => q.next \in (s + 2)..high
    BY <2>1, <2>5, Tags DEF Outcome
  <2>8. q.tag # "ok" => q \in {Incomplete, Malformed, Refused}
    BY <2>5 DEF Outcome
  <2>9. Outcome(Of(q), s + 2, high)
    BY <2>7, <2>8, Outcomes, Zenon
  <2> HIDE DEF Of
  <2> QED BY <1>3, <2>2, <2>3, <2>6, <2>9 DEF high
<1> QED BY <1>5, <1>6

(* The bytes tell which reply it is. *)
LEMMA ReplyFromIs ==
  ASSUME NEW m \in Seq(Byte), NEW s \in 1..(Len(m) + 1), NEW reply
  PROVE  /\ s > Len(m) => ReplyFrom(m, s, reply) = Incomplete
         /\ s <= Len(m) =>
              /\ m[s] = "+" => ReplyFrom(m, s, reply) = ReplyLine(m, s + 1)
              /\ m[s] = "-" => ReplyFrom(m, s, reply) =
                                 IF ReplyLine(m, s + 1).tag = "ok" THEN Refused
                                 ELSE ReplyLine(m, s + 1)
              /\ m[s] = ":" => ReplyFrom(m, s, reply) = ReplyInt(m, s + 1)
              /\ m[s] = "$" => ReplyFrom(m, s, reply) = ReplyBulk(m, s + 1)
              /\ m[s] = "*" => ReplyFrom(m, s, reply) = ReplyArray(m, s + 1, reply)
              /\ m[s] \notin {"+", "-", ":", "$", "*"} => ReplyFrom(m, s, reply) = Malformed
<1> DEFINE e == Then(ReplyLine(m, s + 1), LAMBDA line, next : Refused)
           a == Then(ReadInt(m, s + 1, 0), LAMBDA count, first :
                  Then(Items(count, first, reply), LAMBDA items, end : Parsed(Array(items), end)))
<1>1. ReplyFrom(m, s, reply) =
        IF s > Len(m) THEN Incomplete
        ELSE CASE m[s] = "+" -> ReplyLine(m, s + 1)
               [] m[s] = "-" -> e
               [] m[s] = ":" -> ReplyInt(m, s + 1)
               [] m[s] = "$" -> ReplyBulk(m, s + 1)
               [] m[s] = "*" -> a
               [] OTHER -> Malformed
  BY DEF ReplyFrom
<1>2. e = IF ReplyLine(m, s + 1).tag = "ok" THEN Refused ELSE ReplyLine(m, s + 1)
  BY Zenon DEF Then
<1>3. a = ReplyArray(m, s + 1, reply)
  BY Zenon DEF ReplyArray
<1> HIDE DEF e, a
<1> QED BY <1>1, <1>2, <1>3

(* A reply from an index on, if the same holds for the replies after it. *)
LEMMA ReplyFromFacts ==
  ASSUME NEW m \in Seq(Byte), NEW r \in Seq(Byte), NEW s \in 1..(Len(m) + 1),
         NEW reply, NEW later, Keeps(reply, later, s + 1, Len(m) + 1)
  PROVE  /\ Outcome(ReplyFrom(m, s, reply), s + 1, Len(m) + 1)
         /\ ReplyFrom(m, s, reply) # Incomplete =>
              ReplyFrom(m \o r, s, later) = ReplyFrom(m, s, reply)
<1> DEFINE x == m \o r
           high == Len(m) + 1
<1>1. /\ x \in Seq(Byte) /\ s \in 1..(Len(x) + 1)
      /\ s <= Len(m) => s <= Len(x) /\ x[s] = m[s]
      /\ s + 1 \in Nat \ {0}
  OBVIOUS
<1> HIDE DEF x
<1>2. CASE s > Len(m)
  <2>1. ReplyFrom(m, s, reply) = Incomplete
    BY <1>2, ReplyFromIs
  <2> QED BY <2>1, Outcomes
<1>3. ASSUME s <= Len(m), NEW a, NEW b,
             ReplyFrom(m, s, reply) = a, ReplyFrom(x, s, later) = b,
             Outcome(a, (s + 1) + 2, high), a # Incomplete => b = a
      PROVE  /\ Outcome(ReplyFrom(m, s, reply), s + 1, Len(m) + 1)
             /\ ReplyFrom(m, s, reply) # Incomplete =>
                  ReplyFrom(m \o r, s, later) = ReplyFrom(m, s, reply)
  <2>1. Outcome(a, s + 1, high)
    BY <1>3 DEF Outcome
  <2> QED BY <1>3, <2>1 DEF x
<1>4. CASE s <= Len(m) /\ m[s] = "+"
  <2>1. ReplyFrom(m, s, reply) = ReplyLine(m, s + 1) /\ ReplyFrom(x, s, later) = ReplyLine(x, s + 1)
    BY <1>1, <1>4, ReplyFromIs
  <2>2. /\ Outcome(ReplyLine(m, s + 1), (s + 1) + 2, high)
        /\ ReplyLine(m, s + 1) # Incomplete => ReplyLine(x, s + 1) = ReplyLine(m, s + 1)
    BY <1>1, ReplyLineFacts DEF x
  <2> QED BY <1>3, <1>4, <2>1, <2>2
<1>5. CASE s <= Len(m) /\ m[s] = "-"
  <2> DEFINE Of(y) == IF ReplyLine(y, s + 1).tag = "ok" THEN Refused ELSE ReplyLine(y, s + 1)
  <2>1. ReplyFrom(m, s, reply) = Of(m) /\ ReplyFrom(x, s, later) = Of(x)
    BY <1>1, <1>5, ReplyFromIs
  <2>2. /\ Outcome(Of(m), (s + 1) + 2, high)
        /\ Of(m) # Incomplete => Of(x) = Of(m)
    BY <1>1, ReplyErrorFacts DEF x
  <2> HIDE DEF Of
  <2> QED BY <1>3, <1>5, <2>1, <2>2
<1>6. CASE s <= Len(m) /\ m[s] = ":"
  <2>1. ReplyFrom(m, s, reply) = ReplyInt(m, s + 1) /\ ReplyFrom(x, s, later) = ReplyInt(x, s + 1)
    BY <1>1, <1>6, ReplyFromIs
  <2>2. /\ Outcome(ReplyInt(m, s + 1), (s + 1) + 2, high)
        /\ ReplyInt(m, s + 1) # Incomplete => ReplyInt(x, s + 1) = ReplyInt(m, s + 1)
    BY <1>1, ReplyIntFacts DEF x
  <2> QED BY <1>3, <1>6, <2>1, <2>2
<1>7. CASE s <= Len(m) /\ m[s] = "$"
  <2>1. ReplyFrom(m, s, reply) = ReplyBulk(m, s + 1) /\ ReplyFrom(x, s, later) = ReplyBulk(x, s + 1)
    BY <1>1, <1>7, ReplyFromIs
  <2>2. /\ Outcome(ReplyBulk(m, s + 1), (s + 1) + 2, high)
        /\ ReplyBulk(m, s + 1) # Incomplete => ReplyBulk(x, s + 1) = ReplyBulk(m, s + 1)
    BY <1>1, ReplyBulkFacts DEF x
  <2> QED BY <1>3, <1>7, <2>1, <2>2
<1>8. CASE s <= Len(m) /\ m[s] = "*"
  <2>1. /\ ReplyFrom(m, s, reply) = ReplyArray(m, s + 1, reply)
        /\ ReplyFrom(x, s, later) = ReplyArray(x, s + 1, later)
    BY <1>1, <1>8, ReplyFromIs
  <2>2. /\ Outcome(ReplyArray(m, s + 1, reply), (s + 1) + 2, high)
        /\ ReplyArray(m, s + 1, reply) # Incomplete =>
             ReplyArray(x, s + 1, later) = ReplyArray(m, s + 1, reply)
    <3> DEFINE next == s + 1
    <3>1. Keeps(reply, later, next, Len(m) + 1) /\ next \in Nat \ {0}
      BY <1>1
    <3> HIDE DEF next
    <3>2. /\ Outcome(ReplyArray(m, next, reply), next + 2, Len(m) + 1)
          /\ ReplyArray(m, next, reply) # Incomplete =>
               ReplyArray(m \o r, next, later) = ReplyArray(m, next, reply)
      BY <3>1, ReplyArrayFacts
    <3> QED BY <3>2 DEF x, next
  <2> QED BY <1>3, <1>8, <2>1, <2>2
<1>9. CASE s <= Len(m) /\ m[s] \notin {"+", "-", ":", "$", "*"}
  <2>1. ReplyFrom(m, s, reply) = Malformed /\ ReplyFrom(x, s, later) = Malformed
    BY <1>1, <1>9, ReplyFromIs
  <2> QED BY <2>1, Outcomes DEF x
<1> QED BY <1>1, <1>2, <1>4, <1>5, <1>6, <1>7, <1>8, <1>9

(* A reply depends on the later indexes only. *)
LEMMA ReplyFromLocal ==
  ASSUME NEW m \in Seq(Byte), NEW s \in 1..(Len(m) + 1), NEW reply, NEW other,
         \A p \in (s + 1)..(Len(m) + 1) : /\ Outcome(reply[p], p + 1, Len(m) + 1)
                                          /\ other[p] = reply[p]
  PROVE  ReplyFrom(m, s, other) = ReplyFrom(m, s, reply)
<1>1. /\ Keeps(reply, other, s + 1, Len(m) + 1)
      /\ Keeps(other, reply, s + 1, Len(m) + 1)
  BY DEF Keeps
<1> DEFINE e == <<>>
<1>2. e \in Seq(Byte) /\ m \o e = m
  OBVIOUS
<1> HIDE DEF e
<1>a. m \in Seq(Byte) /\ s \in 1..(Len(m) + 1) /\ e \in Seq(Byte)
  BY <1>2
<1>3. ReplyFrom(m, s, reply) # Incomplete => ReplyFrom(m, s, other) = ReplyFrom(m, s, reply)
  <2>1. ReplyFrom(m, s, reply) # Incomplete => ReplyFrom(m \o e, s, other) = ReplyFrom(m, s, reply)
    BY ONLY <1>1, <1>a, ReplyFromFacts
  <2> QED BY <1>2, <2>1, Zenon
<1>4. ReplyFrom(m, s, other) # Incomplete => ReplyFrom(m, s, reply) = ReplyFrom(m, s, other)
  <2>1. ReplyFrom(m, s, other) # Incomplete => ReplyFrom(m \o e, s, reply) = ReplyFrom(m, s, other)
    BY ONLY <1>1, <1>a, ReplyFromFacts
  <2> QED BY <1>2, <2>1, Zenon
<1> QED BY <1>3, <1>4

(* The indexes of f from low on hold what ReplyFrom makes of f. *)
RepliesFrom(f, m, low) ==
  \A s \in low..(Len(m) + 1) : f[s] = ReplyFrom(m, s, f)

(* Then they hold outcomes. *)
LEMMA RepliesOutcome ==
  ASSUME NEW m \in Seq(Byte), NEW f, NEW low \in 1..(Len(m) + 1), RepliesFrom(f, m, low)
  PROVE  \A s \in low..(Len(m) + 1) : Outcome(f[s], s + 1, Len(m) + 1)
<1> DEFINE high == Len(m) + 1
           T == {k \in Nat : \A s \in low..high : s >= high - k => Outcome(f[s], s + 1, high)}
<1>0. high \in Nat /\ low \in 1..high
  OBVIOUS
<1>1. ASSUME NEW s \in low..high, \A p \in (s + 1)..high : Outcome(f[p], p + 1, high)
      PROVE  Outcome(f[s], s + 1, high)
  <2>1. Keeps(f, f, s + 1, high) /\ s \in 1..high
    BY <1>0, <1>1 DEF Keeps
  <2>2. Outcome(ReplyFrom(m, s, f), s + 1, high)
    BY <2>1, ReplyFromFacts
  <2> QED BY <1>1, <2>2 DEF RepliesFrom
<1> HIDE DEF high
<1>2. 0 \in T
  <2>1. \A p \in (high + 1)..high : Outcome(f[p], p + 1, high)
    BY <1>0
  <2> QED BY <1>0, <1>1, <2>1
<1>3. ASSUME NEW k \in Nat, k \in T
      PROVE  k + 1 \in T
  <2> SUFFICES ASSUME NEW s \in low..high, s >= high - (k + 1)
               PROVE  Outcome(f[s], s + 1, high)
    OBVIOUS
  <2>1. \A p \in (s + 1)..high : Outcome(f[p], p + 1, high)
    BY <1>0, <1>3
  <2> QED BY <1>1, <2>1
<1>4. high \in T
  <2> HIDE DEF T
  <2> QED BY <1>0, <1>2, <1>3, NatSetInduction
<1>5. \A s \in low..high : Outcome(f[s], s + 1, high)
  BY <1>0, <1>4
<1> QED BY <1>5 DEF high

(* The recursion of parse_resp_reply is well defined. *)
LEMMA ReplyUnfold ==
  ASSUME NEW m \in Seq(Byte)
  PROVE  \E f : RepliesFrom(f, m, 1) /\ ParseReply(m) = f[1]
<1> DEFINE high == Len(m) + 1
           From(f, s) == ReplyFrom(m, s, f)
           G(f, k) == /\ f = [s \in 1..high |-> f[s]]
                      /\ RepliesFrom(f, m, high - k)
           T == {k \in Nat : k < high => \E f : G(f, k)}
           f == CHOOSE u : u = [s \in 1..high |-> From(u, s)]
<1>0. high \in Nat /\ high >= 1
  OBVIOUS
<1>1. 0 \in T
  <2> DEFINE u == [s \in 1..high |-> Incomplete]
  <2>1. \A s \in high..high : u[s] = ReplyFrom(m, s, u)
    <3>1. ReplyFrom(m, high, u) = Incomplete
      BY <1>0, ReplyFromIs
    <3> QED BY <1>0, <3>1
  <2>2. u = [s \in 1..high |-> u[s]]
    OBVIOUS
  <2> HIDE DEF u
  <2>3. G(u, 0)
    BY <1>0, <2>1, <2>2 DEF RepliesFrom
  <2> QED BY <2>3
<1>2. ASSUME NEW k \in Nat, k \in T
      PROVE  k + 1 \in T
  <2> SUFFICES ASSUME k + 1 < high PROVE \E w : G(w, k + 1)
    OBVIOUS
  <2>1. PICK u : G(u, k)
    BY <1>0, <1>2
  <2> DEFINE s0 == high - (k + 1)
             w == [s \in 1..high |-> IF s = s0 THEN From(u, s0) ELSE u[s]]
  <2>2. s0 \in 1..high /\ high - k \in 1..high /\ s0 + 1 = high - k
    BY <1>0
  <2>3. \A s \in (s0 + 1)..high : Outcome(u[s], s + 1, high)
    BY <2>1, <2>2, RepliesOutcome
  <2>4. /\ w = [s \in 1..high |-> w[s]]
        /\ w[s0] = From(u, s0)
        /\ \A s \in (s0 + 1)..high : w[s] = u[s]
    BY <1>0, <2>2
  <2> HIDE DEF w, s0
  <2>5. ASSUME NEW s \in s0..high
        PROVE  w[s] = ReplyFrom(m, s, w)
    <3>1. s \in 1..high /\ \A p \in (s + 1)..high : Outcome(u[p], p + 1, high) /\ w[p] = u[p]
      <4>1. s \in 1..high
        BY <1>0, <2>2
      <4>2. ASSUME NEW p \in (s + 1)..high
            PROVE  Outcome(u[p], p + 1, high) /\ w[p] = u[p]
        <5>1. p \in (s0 + 1)..high
          BY <1>0, <2>2
        <5> QED BY <2>3, <2>4, <5>1
      <4> QED BY <4>1, <4>2
    <3>2. ReplyFrom(m, s, w) = ReplyFrom(m, s, u)
      BY <3>1, ReplyFromLocal
    <3>3. CASE s = s0
      BY <2>4, <3>2, <3>3
    <3>4. CASE s # s0
      <4>1. s \in (s0 + 1)..high
        BY <1>0, <2>2, <3>4
      <4>2. u[s] = ReplyFrom(m, s, u)
        BY <2>1, <2>2, <4>1 DEF RepliesFrom
      <4> QED BY <2>4, <3>2, <4>1, <4>2
    <3> QED BY <3>3, <3>4
  <2>6. RepliesFrom(w, m, high - (k + 1))
    BY <2>5 DEF RepliesFrom, s0
  <2> QED BY <2>4, <2>6
<1>3. \E u : u = [s \in 1..high |-> From(u, s)]
  <2>1. high - 1 \in T
    <3> HIDE DEF T
    <3> QED BY <1>0, <1>1, <1>2, NatSetInduction
  <2>2. PICK u : G(u, high - 1)
    BY <1>0, <2>1
  <2>3. RepliesFrom(u, m, 1)
    <3>1. high - (high - 1) = 1
      BY <1>0
    <3> QED BY <2>2, <3>1
  <2>4. u = [s \in 1..high |-> From(u, s)]
    BY <2>2, <2>3 DEF RepliesFrom
  <2> QED BY <2>4
<1>4. f = [s \in 1..high |-> From(f, s)]
  <2> HIDE DEF From
  <2> QED BY <1>3
<1>5. ParseReply(m) = f[1]
  BY Zenon DEF ParseReply
<1> HIDE DEF f
<1>6. RepliesFrom(f, m, 1)
  BY <1>4 DEF RepliesFrom
<1> QED BY <1>5, <1>6

(* parse_resp_reply, called on the bytes received so far: once it returns  *)
(* a reply or raises, more bytes do not change what it says, and the reply *)
(* ends within the bytes it was given.                                     *)
THEOREM ReplyStable ==
  ASSUME NEW m \in Seq(Byte), NEW r \in Seq(Byte)
  PROVE  /\ Outcome(ParseReply(m), 2, Len(m) + 1)
         /\ ParseReply(m) # Incomplete => ParseReply(m \o r) = ParseReply(m)
<1> DEFINE x == m \o r
           high == Len(m) + 1
<1>0. x \in Seq(Byte) /\ high \in Nat /\ high >= 1 /\ Len(x) + 1 >= high /\ Len(x) \in Nat
  OBVIOUS
<1>1. PICK f : RepliesFrom(f, m, 1) /\ ParseReply(m) = f[1]
  BY ReplyUnfold
<1> HIDE DEF x
<1>2. PICK g : RepliesFrom(g, x, 1) /\ ParseReply(x) = g[1]
  BY <1>0, ReplyUnfold
<1>3. \A s \in 1..high : Outcome(f[s], s + 1, high)
  <2>1. 1 \in 1..(Len(m) + 1)
    OBVIOUS
  <2> QED BY <1>1, <2>1, RepliesOutcome
<1> DEFINE T == {k \in Nat : \A s \in 1..high :
                   s >= high - k => (f[s] # Incomplete => g[s] = f[s])}
<1>4. ASSUME NEW s \in 1..high, \A p \in (s + 1)..high : f[p] # Incomplete => g[p] = f[p]
      PROVE  f[s] # Incomplete => g[s] = f[s]
  <2>1. Keeps(f, g, s + 1, high)
    BY <1>3, <1>4 DEF Keeps
  <2>2. ReplyFrom(m, s, f) # Incomplete => ReplyFrom(m \o r, s, g) = ReplyFrom(m, s, f)
    BY <2>1, ReplyFromFacts
  <2>3. f[s] = ReplyFrom(m, s, f) /\ g[s] = ReplyFrom(x, s, g)
    BY <1>0, <1>1, <1>2 DEF RepliesFrom
  <2> QED BY <2>2, <2>3 DEF x
<1> HIDE DEF high
<1>5. 0 \in T
  <2>1. \A p \in (high + 1)..high : f[p] # Incomplete => g[p] = f[p]
    BY <1>0
  <2> QED BY <1>0, <1>4, <2>1
<1>6. ASSUME NEW k \in Nat, k \in T
      PROVE  k + 1 \in T
  <2> SUFFICES ASSUME NEW s \in 1..high, s >= high - (k + 1)
               PROVE  f[s] # Incomplete => g[s] = f[s]
    OBVIOUS
  <2>1. \A p \in (s + 1)..high : f[p] # Incomplete => g[p] = f[p]
    BY <1>0, <1>6
  <2> QED BY <1>4, <2>1
<1>7. high \in T
  <2> HIDE DEF T
  <2> QED BY <1>0, <1>5, <1>6, NatSetInduction
<1>8. f[1] # Incomplete => g[1] = f[1]
  BY <1>0, <1>7
<1>9. Outcome(f[1], 2, high)
  <2>1. 1 + 1 = 2 /\ 1 \in 1..high
    BY <1>0
  <2> QED BY <1>3, <2>1
<1> QED BY <1>1, <1>2, <1>8, <1>9 DEF x, high

-----------------------------------------------------------------------------
(* Sequences of sequences *)

(* g has the concatenations of the first sequences of s. *)
Flattens(g, s) ==
  /\ g \in [0..Len(s) -> Seq(Byte)]
  /\ g[0] = <<>>
  /\ \A n \in 1..Len(s) : g[n] = g[n - 1] \o s[n]
  /\ FlattenSeq(s) = g[Len(s)]

(* The recursion of FlattenSeq is well defined. *)
LEMMA FlattenUnfold ==
  ASSUME NEW s \in Seq(Seq(Byte))
  PROVE  \E g : Flattens(g, s)
<1> DEFINE N == Len(s)
           V == Seq(Byte)
           b == <<>>
           step == [n \in 1..N |-> [v \in V |-> v \o s[n]]]
           F(u) == [i \in 1..N |-> IF i = 1 THEN s[i] ELSE u[i - 1] \o s[i]]
           f == CHOOSE u : u = F(u)
<1>1. PICK g : Recursion(g, N, V, b, step)
  <2>1. N \in Nat /\ b \in V /\ Steps(step, N, V)
    BY DEF Steps
  <2> HIDE DEF step, N, V, b
  <2> QED BY ONLY <2>1, RecursionExists
<1>2. /\ g \in [0..N -> V] /\ g[0] = <<>>
      /\ \A n \in 1..N : g[n] = g[n - 1] \o s[n]
  <2>1. g \in [0..N -> V] /\ g[0] = <<>> /\ \A n \in 1..N : g[n] = step[n][g[n - 1]]
    <3> HIDE DEF step
    <3> QED BY <1>1 DEF Recursion
  <2>2. ASSUME NEW n \in 1..N PROVE g[n] = g[n - 1] \o s[n]
    <3>1. g[n - 1] \in V
      <4>1. n - 1 \in 0..N
        OBVIOUS
      <4> HIDE DEF step, V, N
      <4> QED BY <2>1, <4>1
    <3>2. step[n][g[n - 1]] = g[n - 1] \o s[n]
      BY <3>1
    <3> HIDE DEF step
    <3> QED BY <2>1, <3>2
  <2> QED BY <2>1, <2>2
<1>3. CASE s = <<>>
  <2>1. FlattenSeq(s) = s
    BY <1>3, Len(<<>>) = 0, Zenon DEF FlattenSeq
  <2>2. Len(s) = 0
    BY <1>3
  <2> HIDE DEF step, F
  <2> QED BY <1>2, <1>3, <2>1, <2>2 DEF Flattens
<1>4. CASE s # <<>>
  <2>1. N \in Nat /\ N # 0
    BY <1>4
  <2>0. g[1] = s[1]
    <3>1. 1 \in 1..N /\ 1 - 1 = 0 /\ s[1] \in Seq(Byte)
      BY <2>1
    <3>2. g[1] = g[0] \o s[1]
      <4> HIDE DEF step, F, N, V
      <4> QED BY <1>2, <3>1
    <3>3. <<>> \o s[1] = s[1]
      BY <3>1
    <3> HIDE DEF step, F, N, V
    <3> QED BY <1>2, <3>2, <3>3
  <2> DEFINE h == [i \in 1..N |-> g[i]]
  <2>2. h = F(h)
    <3>1. ASSUME NEW i \in 1..N PROVE h[i] = F(h)[i]
      <4>1. CASE i = 1
        BY <2>0, <4>1
      <4>2. CASE i # 1
        <5>1. i - 1 \in 1..N
          BY <4>2
        <5>2. h[i] = g[i] /\ h[i - 1] = g[i - 1]
          BY <5>1
        <5>3. F(h)[i] = h[i - 1] \o s[i]
          BY <4>2
        <5>4. g[i] = g[i - 1] \o s[i]
          <6> HIDE DEF step, F, h, N, V
          <6> QED BY <1>2
        <5> QED BY <5>2, <5>3, <5>4
      <4> QED BY <4>1, <4>2
    <3>2. F(h) = [i \in 1..N |-> F(h)[i]] /\ h = [i \in 1..N |-> h[i]]
      OBVIOUS
    <3> HIDE DEF F, h, N
    <3> QED BY <3>1, <3>2
  <2>3. f = F(f)
    <3> HIDE DEF F, step, h
    <3> QED BY <2>2
  <2>4. FlattenSeq(s) = f[N]
    BY <2>1, Zenon DEF FlattenSeq
  <2> HIDE DEF f
  <2>5. ASSUME NEW k \in Nat
        PROVE  k + 1 <= N => f[k + 1] = g[k + 1]
    <3> DEFINE T == {k1 \in Nat : k1 + 1 <= N => f[k1 + 1] = g[k1 + 1]}
    <3>1. 0 \in T
      <4>1. f[1] = s[1]
        BY <2>1, <2>3
      <4> QED BY <4>1, <2>0, <2>1
    <3>2. ASSUME NEW j \in Nat, j \in T PROVE j + 1 \in T
      <4> SUFFICES ASSUME (j + 1) + 1 <= N PROVE f[(j + 1) + 1] = g[(j + 1) + 1]
        OBVIOUS
      <4> DEFINE i == (j + 1) + 1
      <4>1. i \in 1..N /\ i # 1 /\ i - 1 = j + 1
        BY <2>1
      <4>2. f[i] = f[i - 1] \o s[i]
        BY <2>3, <4>1
      <4>3. g[i] = g[i - 1] \o s[i]
        BY <1>2, <4>1
      <4>4. f[i - 1] = g[i - 1]
        BY <3>2, <4>1
      <4> HIDE DEF F
      <4> QED BY <4>2, <4>3, <4>4
    <3>3. \A j \in Nat : j \in T
      <4> HIDE DEF T
      <4> QED BY <3>1, <3>2, NatSetInduction
    <3> QED BY <3>3
  <2>6. f[N] = g[N]
    <3>1. N - 1 \in Nat /\ (N - 1) + 1 = N
      BY <2>1
    <3> HIDE DEF N
    <3> QED BY <2>5, <3>1
  <2> HIDE DEF F, step
  <2> QED BY <1>2, <2>4, <2>6 DEF Flattens
<1> QED BY <1>3, <1>4

(* Appending a sequence appends its elements. *)
LEMMA FlattenAppend ==
  ASSUME NEW s \in Seq(Seq(Byte)), NEW x \in Seq(Byte)
  PROVE  FlattenSeq(Append(s, x)) = FlattenSeq(s) \o x
<1> DEFINE a == Append(s, x)
<1>1. a \in Seq(Seq(Byte)) /\ Len(a) = Len(s) + 1 /\ a[Len(a)] = x
      /\ \A n \in 1..Len(s) : a[n] = s[n]
  OBVIOUS
<1> HIDE DEF a
<1>2. PICK g : Flattens(g, s)
  BY FlattenUnfold
<1>3. PICK h : Flattens(h, a)
  BY <1>1, FlattenUnfold
<1> DEFINE T == {k \in Nat : k <= Len(s) => h[k] = g[k]}
<1>4. 0 \in T
  BY <1>2, <1>3 DEF Flattens
<1>5. ASSUME NEW k \in Nat, k \in T PROVE k + 1 \in T
  <2> SUFFICES ASSUME k + 1 <= Len(s) PROVE h[k + 1] = g[k + 1]
    OBVIOUS
  <2>1. k + 1 \in 1..Len(s) /\ k + 1 \in 1..Len(a) /\ (k + 1) - 1 = k
    BY <1>1
  <2>2. h[k + 1] = h[k] \o a[k + 1] /\ g[k + 1] = g[k] \o s[k + 1]
    BY <1>2, <1>3, <2>1 DEF Flattens
  <2>3. h[k] = g[k] /\ a[k + 1] = s[k + 1]
    BY <1>1, <1>5, <2>1
  <2> QED BY <2>2, <2>3
<1>6. \A k \in Nat : k \in T
  <2> HIDE DEF T
  <2> QED BY <1>4, <1>5, NatSetInduction
<1>7. h[Len(s)] = g[Len(s)] /\ Len(s) \in Nat /\ Len(s) = Len(a) - 1 /\ Len(a) \in 1..Len(a)
  BY <1>1, <1>6
<1>8. h[Len(a)] = h[Len(a) - 1] \o a[Len(a)]
  BY <1>3, <1>7 DEF Flattens
<1>9. FlattenSeq(a) = h[Len(a)] /\ FlattenSeq(s) = g[Len(s)]
  BY <1>2, <1>3 DEF Flattens
<1>10. FlattenSeq(a) = FlattenSeq(s) \o x
  BY <1>1, <1>7, <1>8, <1>9
<1> QED BY <1>10 DEF a

(* No sequences make the empty one. *)
LEMMA FlattenEmpty == FlattenSeq(<<>>) = <<>>
BY Len(<<>>) = 0, Zenon DEF FlattenSeq

(* It is a sequence of strings. *)
LEMMA FlattenType ==
  ASSUME NEW s \in Seq(Seq(Byte))
  PROVE  FlattenSeq(s) \in Seq(Byte)
<1>1. PICK g : Flattens(g, s)
  BY FlattenUnfold
<1>2. Len(s) \in 0..Len(s)
  OBVIOUS
<1> QED BY <1>1, <1>2 DEF Flattens

(* Concatenation is associative. *)
LEMMA ConcatAssoc ==
  ASSUME NEW S, NEW a \in Seq(S), NEW b \in Seq(S), NEW c \in Seq(S)
  PROVE  (a \o b) \o c = a \o (b \o c)
OBVIOUS

(* What is appended to the second of two sequences is appended to both. *)
LEMMA ConcatAppend ==
  \A a, q \in Seq(Seq(Byte)) : \A x \in Seq(Byte) : a \o Append(q, x) = Append(a \o q, x)
<1> DEFINE S == Seq(Byte)
<1> HIDE DEF S
<1>1. \A a, q \in Seq(S) : \A x \in S : a \o Append(q, x) = Append(a \o q, x)
  OBVIOUS
<1> QED BY <1>1 DEF S

(* The elements of two lists of sequences follow each other. *)
LEMMA FlattenConcat ==
  ASSUME NEW a \in Seq(Seq(Byte)), NEW b \in Seq(Seq(Byte))
  PROVE  FlattenSeq(a \o b) = FlattenSeq(a) \o FlattenSeq(b)
<1> DEFINE p(k) == SubSeq(b, 1, k)
           T == {k \in Nat : k <= Len(b) =>
                   FlattenSeq(a \o p(k)) = FlattenSeq(a) \o FlattenSeq(p(k))}
<1>1. 0 \in T
  <2>1. p(0) = <<>>
    OBVIOUS
  <2>2. FlattenSeq(a) \in Seq(Byte)
    BY FlattenType
  <2>3. a \o <<>> = a /\ FlattenSeq(a) \o <<>> = FlattenSeq(a)
    BY <2>2
  <2> HIDE DEF p
  <2> QED BY <2>1, <2>3, FlattenEmpty
<1>2. ASSUME NEW k \in Nat, k \in T PROVE k + 1 \in T
  <2> SUFFICES ASSUME k + 1 <= Len(b)
               PROVE  FlattenSeq(a \o p(k + 1)) = FlattenSeq(a) \o FlattenSeq(p(k + 1))
    OBVIOUS
  <2>1. p(k) \in Seq(Seq(Byte)) /\ b[k + 1] \in Seq(Byte)
    OBVIOUS
  <2>2. p(k + 1) = Append(p(k), b[k + 1])
    OBVIOUS
  <2>3. FlattenSeq(a \o p(k)) = FlattenSeq(a) \o FlattenSeq(p(k))
    BY <1>2
  <2> DEFINE q == p(k)
             x == b[k + 1]
             aq == a \o q
  <2>4. q \in Seq(Seq(Byte)) /\ x \in Seq(Byte) /\ aq \in Seq(Seq(Byte))
    BY <2>1
  <2> HIDE DEF p, q, x, T
  <2>5. a \o Append(q, x) = Append(aq, x)
    <3> HIDE DEF aq
    <3>1. a \o Append(q, x) = Append(a \o q, x)
      BY <2>4, ConcatAppend, Zenon
    <3> QED BY <3>1, Zenon DEF aq
  <2>6. FlattenSeq(Append(q, x)) = FlattenSeq(q) \o x
    BY <2>4, FlattenAppend
  <2>7. FlattenSeq(Append(aq, x)) = FlattenSeq(aq) \o x
    <3> HIDE DEF aq
    <3> QED BY <2>4, FlattenAppend
  <2>8. FlattenSeq(a) \in Seq(Byte) /\ FlattenSeq(q) \in Seq(Byte)
    BY <2>4, FlattenType
  <2> DEFINE fa == FlattenSeq(a)
             fq == FlattenSeq(q)
  <2>9. (fa \o fq) \o x = fa \o (fq \o x)
    <3>1. x \in Seq(Byte) /\ fa \in Seq(Byte) /\ fq \in Seq(Byte)
      BY <2>4, <2>8
    <3> HIDE DEF fa, fq, aq
    <3>2. \A u, v, w \in Seq(Byte) : (u \o v) \o w = u \o (v \o w)
      BY ONLY ConcatAssoc
    <3> QED BY <3>1, <3>2, Zenon
  <2>10. FlattenSeq(a \o p(k + 1)) = (fa \o fq) \o x
    BY <2>2, <2>3, <2>5, <2>7 DEF q, x
  <2>11. FlattenSeq(p(k + 1)) = fq \o x
    BY <2>2, <2>6 DEF q, x
  <2> QED BY <2>9, <2>10, <2>11
<1>3. \A k \in Nat : k \in T
  <2> HIDE DEF T
  <2> QED BY <1>1, <1>2, NatSetInduction
<1>4. Len(b) \in T
  <2> HIDE DEF T
  <2> QED BY <1>3
<1>5. p(Len(b)) = b
  OBVIOUS
<1> HIDE DEF p
<1> QED BY <1>4, <1>5

(* The first sequence comes first. *)
LEMMA FlattenHead ==
  ASSUME NEW s \in Seq(Seq(Byte)), s # <<>>
  PROVE  FlattenSeq(s) = Head(s) \o FlattenSeq(Tail(s))
<1> DEFINE e == <<>>
           x == Head(s)
           one == Append(e, x)
           t == Tail(s)
<1>1. /\ e \in Seq(Seq(Byte)) /\ x \in Seq(Byte) /\ t \in Seq(Seq(Byte))
      /\ one \in Seq(Seq(Byte)) /\ s = one \o t
  OBVIOUS
<1>2. FlattenSeq(e) = <<>>
  BY FlattenEmpty
<1>3. <<>> \o x = x
  BY <1>1
<1> HIDE DEF e, x, t
<1>4. FlattenSeq(one) = FlattenSeq(e) \o x
  BY <1>1, FlattenAppend
<1> HIDE DEF one
<1>5. FlattenSeq(one \o t) = FlattenSeq(one) \o FlattenSeq(t)
  BY <1>1, FlattenConcat
<1> QED BY <1>1, <1>2, <1>3, <1>4, <1>5 DEF x, t

-----------------------------------------------------------------------------
(* str(n) and int() *)

(* A number of two digits or more: its last digit and the others. *)
LEMMA LastDigit ==
  ASSUME NEW n \in Nat, n >= 10
  PROVE  /\ n \div 10 \in Nat /\ n \div 10 < n
         /\ n % 10 \in 0..9
         /\ n = 10 * (n \div 10) + (n % 10)
OBVIOUS

(* f has the digits of the numbers up to k. *)
DecimalUpTo(f, k) ==
  \A n \in 0..k : f[n] = IF n < 10 THEN <<Digit[n + 1]>>
                         ELSE Append(f[n \div 10], Digit[(n % 10) + 1])

(* Two such functions agree. *)
LEMMA DecimalUnique ==
  ASSUME NEW k \in Nat, NEW f, NEW g, DecimalUpTo(f, k), DecimalUpTo(g, k)
  PROVE  \A n \in 0..k : f[n] = g[n]
<1> DEFINE T == {j \in Nat : \A n \in 0..j : n <= k => f[n] = g[n]}
<1>0. ASSUME NEW n \in 0..k
      PROVE  /\ n < 10 => f[n] = <<Digit[n + 1]>> /\ g[n] = <<Digit[n + 1]>>
             /\ n >= 10 => /\ f[n] = Append(f[n \div 10], Digit[(n % 10) + 1])
                           /\ g[n] = Append(g[n \div 10], Digit[(n % 10) + 1])
  <2>1. /\ f[n] = IF n < 10 THEN <<Digit[n + 1]>> ELSE Append(f[n \div 10], Digit[(n % 10) + 1])
        /\ g[n] = IF n < 10 THEN <<Digit[n + 1]>> ELSE Append(g[n \div 10], Digit[(n % 10) + 1])
    BY <1>0, Zenon DEF DecimalUpTo
  <2>2. n >= 10 => ~(n < 10)
    OBVIOUS
  <2> QED BY <2>1, <2>2, Zenon
<1>1. 0 \in T
  <2>1. 0 \in 0..k /\ 0 < 10
    OBVIOUS
  <2>2. f[0] = g[0]
    BY <1>0, <2>1, Zenon
  <2> QED BY <2>2
<1>2. ASSUME NEW j \in Nat, j \in T PROVE j + 1 \in T
  <2> SUFFICES ASSUME NEW n \in 0..(j + 1), n <= k PROVE f[n] = g[n]
    OBVIOUS
  <2>0. n \in 0..k
    OBVIOUS
  <2>1. CASE n < 10
    BY <1>0, <2>0, <2>1, Zenon
  <2>2. CASE n >= 10
    <3> DEFINE q == n \div 10
               r == Digit[(n % 10) + 1]
    <3>1. q \in Nat /\ q < n
      BY <2>2, LastDigit
    <3>2. f[n] = Append(f[q], r) /\ g[n] = Append(g[q], r)
      BY <1>0, <2>0, <2>2, Zenon
    <3> HIDE DEF q, r
    <3>3. f[q] = g[q]
      BY <1>2, <3>1
    <3> QED BY <3>2, <3>3
  <2> QED BY <2>1, <2>2
<1>3. \A j \in Nat : j \in T
  <2> HIDE DEF T
  <2> QED BY <1>1, <1>2, NatSetInduction
<1> QED BY <1>3

(* Such a function exists for every k. *)
LEMMA DecimalUpToExists ==
  ASSUME NEW k \in Nat
  PROVE  \E f : DecimalUpTo(f, k)
<1> DEFINE T == {j \in Nat : \E f : DecimalUpTo(f, j)}
<1>1. 0 \in T
  <2>1. DecimalUpTo([n \in 0..0 |-> <<Digit[1]>>], 0)
    BY DEF DecimalUpTo
  <2> QED BY <2>1
<1>2. ASSUME NEW j \in Nat, j \in T PROVE j + 1 \in T
  <2>1. PICK f : DecimalUpTo(f, j)
    BY <1>2
  <2> DEFINE x == IF j + 1 < 10 THEN <<Digit[(j + 1) + 1]>>
                  ELSE Append(f[(j + 1) \div 10], Digit[((j + 1) % 10) + 1])
             g == [n \in 0..(j + 1) |-> IF n = j + 1 THEN x ELSE f[n]]
  <2>2. ASSUME NEW n \in 0..(j + 1)
        PROVE  g[n] = IF n < 10 THEN <<Digit[n + 1]>>
                      ELSE Append(g[n \div 10], Digit[(n % 10) + 1])
    <3> DEFINE v == Digit[(n % 10) + 1]
               q == n \div 10
    <3>1. n >= 10 => q \in 0..j
      <4>1. ASSUME n >= 10 PROVE q \in 0..j
        <5>1. q \in Nat /\ q < n
          BY <4>1, LastDigit
        <5> HIDE DEF q
        <5> QED BY <5>1
      <4> QED BY <4>1
    <3>2. n >= 10 => g[q] = f[q]
      <4> HIDE DEF x, q
      <4> QED BY <3>1
    <3>3. CASE n = j + 1
      <4>1. g[n] = x
        BY <3>3
      <4>2. x = IF n < 10 THEN <<Digit[n + 1]>> ELSE Append(f[q], v)
        BY <3>3
      <4> HIDE DEF x, g, q, v
      <4> QED BY <4>1, <4>2, <3>2 DEF q, v
    <3>4. CASE n # j + 1
      <4>1. g[n] = f[n] /\ n \in 0..j
        BY <3>4
      <4>2. f[n] = IF n < 10 THEN <<Digit[n + 1]>> ELSE Append(f[q], v)
        BY <2>1, <4>1 DEF DecimalUpTo
      <4> HIDE DEF x, g, q, v
      <4> QED BY <4>1, <4>2, <3>2 DEF q, v
    <3> QED BY <3>3, <3>4
  <2>3. DecimalUpTo(g, j + 1)
    <3> HIDE DEF g
    <3> QED BY <2>2 DEF DecimalUpTo
  <2> HIDE DEF g
  <2> QED BY <2>3
<1>3. \A j \in Nat : j \in T
  <2> HIDE DEF T
  <2> QED BY <1>1, <1>2, NatSetInduction
<1> QED BY <1>3

(* The recursion of str(n) is well defined. *)
LEMMA DecimalUnfold ==
  \A n \in Nat : Decimal[n] = IF n < 10 THEN <<Digit[n + 1]>>
                              ELSE Append(Decimal[n \div 10], Digit[(n % 10) + 1])
<1> DEFINE F(u) == [n \in Nat |-> IF n < 10 THEN <<Digit[n + 1]>>
                                 ELSE Append(u[n \div 10], Digit[(n % 10) + 1])]
           P(k) == CHOOSE f : DecimalUpTo(f, k)
           g == [n \in Nat |-> P(n)[n]]
<1>1. \A k \in Nat : DecimalUpTo(P(k), k)
  BY DecimalUpToExists
<1> HIDE DEF P
<1>2. ASSUME NEW n \in Nat PROVE g[n] = F(g)[n]
  <2> DEFINE v == Digit[(n % 10) + 1]
             q == n \div 10
  <2>1. g[n] = IF n < 10 THEN <<Digit[n + 1]>> ELSE Append(P(n)[q], v)
    <3>1. n \in 0..n /\ DecimalUpTo(P(n), n)
      BY <1>1
    <3> QED BY <3>1 DEF DecimalUpTo
  <2>2. n >= 10 => P(n)[q] = g[q]
    <3> SUFFICES ASSUME n >= 10 PROVE P(n)[q] = g[q]
      OBVIOUS
    <3>1. q \in Nat /\ q < n
      BY LastDigit
    <3> DEFINE a == P(n)
               b == P(q)
    <3> HIDE DEF q
    <3>2. DecimalUpTo(a, n) /\ DecimalUpTo(b, q)
      BY <1>1, <3>1
    <3>3. DecimalUpTo(a, q)
      BY <3>1, <3>2 DEF DecimalUpTo
    <3>4. q \in 0..q
      BY <3>1
    <3>5. a[q] = b[q]
      <4> HIDE DEF a, b
      <4> QED BY <3>1, <3>2, <3>3, <3>4, DecimalUnique
    <3> QED BY <3>1, <3>5
  <2>3. F(g)[n] = IF n < 10 THEN <<Digit[n + 1]>> ELSE Append(g[q], v)
    OBVIOUS
  <2> HIDE DEF g, F, q, v
  <2> QED BY <2>1, <2>2, <2>3
<1>3. g = F(g)
  <2>1. g = [n \in Nat |-> g[n]] /\ F(g) = [n \in Nat |-> F(g)[n]]
    OBVIOUS
  <2> HIDE DEF g, F
  <2> QED BY <1>2, <2>1
<1>4. Decimal = CHOOSE u : u = F(u)
  BY Zenon DEF Decimal
<1>5. Decimal = F(Decimal)
  <2> HIDE DEF g, F
  <2> QED BY <1>3, <1>4
<1> HIDE DEF g
<1> QED BY <1>5

(* The symbols of the protocol are bytes. *)
LEMMA ProtocolBytes ==
  /\ "CR" \in Byte /\ "LF" \in Byte /\ "*" \in Byte /\ "$" \in Byte /\ ":" \in Byte
  /\ "+" \in Byte /\ "-" \in Byte /\ "ERR" \in Byte
  /\ \A i \in 1..10 : Digit[i] \in Byte
<1>1. /\ "CR" \in Byte /\ "LF" \in Byte /\ "*" \in Byte /\ "$" \in Byte /\ ":" \in Byte
      /\ "+" \in Byte /\ "-" \in Byte /\ "ERR" \in Byte
  BY CharsAssumption DEF Byte
<1>2. \A i \in 1..10 : i \in DOMAIN Digit /\ Digit[i] # "e-acute"
  BY DEF Digit
<1>3. \A i \in 1..10 : Digit[i] \in ToSet(Digit)
  BY <1>2 DEF ToSet
<1>4. ToSet(Digit) \subseteq Chars
  BY CharsAssumption
<1> QED BY <1>1, <1>2, <1>3, <1>4 DEF Byte

(* The ten digits are different. *)
LEMMA DigitInjective ==
  ASSUME NEW n \in 0..9, NEW v \in 0..9, Digit[n + 1] = Digit[v + 1]
  PROVE  n = v
BY DEF Digit

(* The digits are ten strings. *)
LEMMA DigitSeq == Digit \in Seq(Byte) /\ DOMAIN Digit = 1..10
<1>1. Len(Digit) = 10 /\ DOMAIN Digit = 1..10 /\ Digit = [i \in 1..10 |-> Digit[i]]
  BY DEF Digit
<1>2. Digit \in [1..10 -> Byte]
  BY <1>1, ProtocolBytes
<1> QED BY <1>1, <1>2

(* A digit is the value that it stands for. *)
LEMMA DigitValueIs ==
  ASSUME NEW v \in 0..9
  PROVE  /\ Digit[v + 1] \in DOMAIN DigitValue
         /\ DigitValue[Digit[v + 1]] = v
         /\ Digit[v + 1] \in Byte
<1> DEFINE d == Digit[v + 1]
<1>1. v + 1 \in DOMAIN Digit /\ d \in Byte
  BY DigitSeq, ProtocolBytes, v + 1 \in 1..10
<1>2. d \in ToSet(Digit)
  BY <1>1 DEF ToSet
<1>3. DigitValue[d] = CHOOSE n \in 0..9 : Digit[n + 1] = d
  BY <1>2, Zenon DEF DigitValue
<1>4. \A n \in 0..9 : Digit[n + 1] = d => n = v
  BY DigitInjective
<1> DEFINE e == CHOOSE n \in 0..9 : Digit[n + 1] = d
<1>5. e \in 0..9 /\ Digit[e + 1] = d
  <2>1. \E n \in 0..9 : Digit[n + 1] = d
    OBVIOUS
  <2> HIDE DEF d
  <2> QED BY <2>1
<1>6. e = v
  <2> HIDE DEF e, d
  <2> QED BY <1>4, <1>5
<1> QED BY <1>1, <1>2, <1>3, <1>6 DEF DigitValue

(* No digit is a sign or part of an end of line. *)
LEMMA DigitsPlain ==
  /\ DOMAIN DigitValue \subseteq Byte
  /\ "-" \notin DOMAIN DigitValue /\ "CR" \notin DOMAIN DigitValue
<1>1. DOMAIN DigitValue = ToSet(Digit)
  BY DEF DigitValue
<1>2. \A i \in 1..10 : Digit[i] \notin {"-", "CR"}
  BY DEF Digit
<1>3. \A x \in ToSet(Digit) : \E i \in 1..10 : x = Digit[i]
  BY DigitSeq DEF ToSet
<1>4. \A i \in 1..10 : Digit[i] \in Byte
  BY ProtocolBytes
<1> QED BY <1>1, <1>2, <1>3, <1>4

(* v is the value of the digits d. *)
HasValue(d, v) ==
  \E f \in [0..Len(d) -> Nat] :
    /\ f[0] = 0
    /\ \A n \in 1..Len(d) : f[n] = 10 * f[n - 1] + DigitValue[d[n]]
    /\ v = f[Len(d)]

(* One more digit. *)
LEMMA ValueAppend ==
  ASSUME NEW d \in Seq(DOMAIN DigitValue), NEW v \in Nat, NEW x \in DOMAIN DigitValue,
         HasValue(d, v)
  PROVE  HasValue(Append(d, x), 10 * v + DigitValue[x])
<1> DEFINE a == Append(d, x)
           N == Len(d)
           w == 10 * v + DigitValue[x]
<1>1. /\ N \in Nat /\ Len(a) = N + 1 /\ a[N + 1] = x
      /\ \A n \in 1..N : a[n] = d[n]
  OBVIOUS
<1>2. PICK f \in [0..N -> Nat] :
        /\ f[0] = 0
        /\ \A n \in 1..N : f[n] = 10 * f[n - 1] + DigitValue[d[n]]
        /\ v = f[N]
  BY DEF HasValue
<1>3. w \in Nat
  BY DigitValueNat
<1> DEFINE g == [n \in 0..(N + 1) |-> IF n <= N THEN f[n] ELSE w]
<1> HIDE DEF N, a
<1>4. g \in [0..(N + 1) -> Nat] /\ g[0] = 0 /\ g[N + 1] = w
  <2> HIDE DEF w
  <2> QED BY <1>1, <1>2, <1>3
<1>5. ASSUME NEW n \in 1..(N + 1)
      PROVE  g[n] = 10 * g[n - 1] + DigitValue[a[n]]
  <2>1. CASE n <= N
    <3>1. n \in 1..N /\ n - 1 \in 0..N /\ n \in 0..N
      BY <1>1, <2>1
    <3>2. g[n] = f[n] /\ g[n - 1] = f[n - 1]
      BY <1>1, <3>1
    <3> HIDE DEF g
    <3> QED BY <1>1, <1>2, <3>1, <3>2
  <2>2. CASE n = N + 1
    <3>1. g[n - 1] = v /\ g[n] = w
      BY <1>1, <1>2, <2>2
    <3> HIDE DEF g
    <3> QED BY <1>1, <2>2, <3>1
  <2> QED BY <1>1, <2>1, <2>2
<1>6. HasValue(a, w)
  <2>1. g \in [0..Len(a) -> Nat] /\ w = g[Len(a)]
    BY <1>1, <1>4
  <2>2. \A n \in 1..Len(a) : g[n] = 10 * g[n - 1] + DigitValue[a[n]]
    BY <1>1, <1>5
  <2> HIDE DEF g, w
  <2> QED BY <2>1, <2>2, <1>4 DEF HasValue
<1> QED BY <1>6 DEF a

(* The value of a digit. *)
LEMMA ValueOne ==
  ASSUME NEW v \in 0..9
  PROVE  HasValue(<<Digit[v + 1]>>, v)
<1> DEFINE d == Digit[v + 1]
           f == [n \in 0..1 |-> IF n = 0 THEN 0 ELSE v]
<1>1. DigitValue[d] = v
  BY DigitValueIs
<1> HIDE DEF d
<1>2. f \in [0..1 -> Nat] /\ f[0] = 0 /\ f[1] = v
  OBVIOUS
<1> HIDE DEF f
<1>3. Len(<<d>>) = 1 /\ <<d>>[1] = d
  OBVIOUS
<1>4. \A n \in 1..1 : f[n] = 10 * f[n - 1] + DigitValue[<<d>>[n]]
  BY <1>1, <1>2, <1>3
<1>5. HasValue(<<d>>, v)
  BY <1>2, <1>3, <1>4 DEF HasValue
<1> QED BY <1>5 DEF d

(* str(n) of a natural has digits only, at least one, with the value n. *)
LEMMA DecimalFacts ==
  ASSUME NEW n \in Nat
  PROVE  /\ Decimal[n] \in Seq(DOMAIN DigitValue)
         /\ Decimal[n] # <<>>
         /\ HasValue(Decimal[n], n)
<1> DEFINE Good(k) == /\ Decimal[k] \in Seq(DOMAIN DigitValue)
                      /\ Decimal[k] # <<>>
                      /\ HasValue(Decimal[k], k)
           T == {j \in Nat : \A k \in 0..j : Good(k)}
<1>1. ASSUME NEW k \in Nat, k < 10 PROVE Good(k)
  <2>1. Decimal[k] = <<Digit[k + 1]>>
    BY <1>1, DecimalUnfold
  <2>2. k \in 0..9
    BY <1>1
  <2>3. Digit[k + 1] \in DOMAIN DigitValue
    BY <2>2, DigitValueIs
  <2>4. HasValue(<<Digit[k + 1]>>, k)
    BY <2>2, ValueOne
  <2> QED BY <2>1, <2>3, <2>4
<1>2. ASSUME NEW k \in Nat, k >= 10, \A j \in 0..(k - 1) : Good(j) PROVE Good(k)
  <2> DEFINE q == k \div 10
             r == k % 10
             d == Digit[r + 1]
             D == Decimal[q]
  <2>1. q \in Nat /\ q < k /\ r \in 0..9 /\ k = 10 * q + r
    BY <1>2, LastDigit
  <2>2. Decimal[k] = Append(D, d)
    <3>1. ~(k < 10)
      BY <1>2
    <3> QED BY <3>1, DecimalUnfold, Zenon
  <2> HIDE DEF q, r
  <2>3. d \in DOMAIN DigitValue /\ DigitValue[d] = r
    BY <2>1, DigitValueIs
  <2>4. Good(q)
    <3> HIDE DEF Good
    <3> QED BY <1>2, <2>1
  <2> HIDE DEF d, D
  <2>5. D \in Seq(DOMAIN DigitValue) /\ HasValue(D, q)
    BY <2>4 DEF D
  <2>6. HasValue(Append(D, d), 10 * q + DigitValue[d])
    BY <2>1, <2>3, <2>5, ValueAppend
  <2> QED BY <2>1, <2>2, <2>3, <2>5, <2>6
<1> HIDE DEF Good
<1>3. 0 \in T
  BY <1>1
<1>4. ASSUME NEW j \in Nat, j \in T PROVE j + 1 \in T
  <2>1. Good(j + 1)
    <3>1. \A i \in 0..((j + 1) - 1) : Good(i)
      BY <1>4
    <3> QED BY <1>1, <1>2, <3>1
  <2> QED BY <1>4, <2>1
<1>5. \A j \in Nat : j \in T
  <2> HIDE DEF T
  <2> QED BY <1>3, <1>4, NatSetInduction
<1>6. Good(n)
  BY <1>5
<1> QED BY <1>6 DEF Good

(* The value of some digits is unique: it is what int() computes. *)
LEMMA ValueIs ==
  ASSUME NEW line \in Seq(Byte), IsInt(line), NEW v \in Nat, HasValue(Unsigned(line), v)
  PROVE  IntOf(line) = IF Head(line) = "-" THEN -v ELSE v
<1> DEFINE d == Unsigned(line)
           N == Len(d)
<1>1. d \in Seq(Byte) /\ N \in Nat /\ \A n \in 1..N : d[n] \in DOMAIN DigitValue
  BY UnsignedSeq DEF IsInt
<1>2. PICK f \in [0..N -> Nat] :
           /\ f[0] = 0
           /\ \A n \in 1..N : f[n] = 10 * f[n - 1] + DigitValue[d[n]]
           /\ IntOf(line) = IF Head(line) = "-" THEN -f[N] ELSE f[N]
  BY IntOfUnfold
<1>3. PICK g \in [0..N -> Nat] :
           /\ g[0] = 0
           /\ \A n \in 1..N : g[n] = 10 * g[n - 1] + DigitValue[d[n]]
           /\ v = g[N]
  BY DEF HasValue
<1> HIDE DEF N, d
<1> DEFINE T == {k \in Nat : k <= N => f[k] = g[k]}
<1>4. 0 \in T
  BY <1>2, <1>3
<1>5. ASSUME NEW k \in Nat, k \in T PROVE k + 1 \in T
  <2> SUFFICES ASSUME k + 1 <= N PROVE f[k + 1] = g[k + 1]
    OBVIOUS
  <2>1. k + 1 \in 1..N /\ (k + 1) - 1 = k /\ f[k] = g[k]
    BY <1>1, <1>5
  <2>2. f[k + 1] = 10 * f[k] + DigitValue[d[k + 1]] /\ g[k + 1] = 10 * g[k] + DigitValue[d[k + 1]]
    BY <1>2, <1>3, <2>1
  <2> QED BY <2>1, <2>2
<1>6. \A k \in Nat : k \in T
  <2> HIDE DEF T
  <2> QED BY <1>4, <1>5, NatSetInduction
<1>7. f[N] = v
  BY <1>1, <1>3, <1>6
<1> QED BY <1>2, <1>7

(* int(str(n)) = n, and str(n) is a line. *)
LEMMA TextFacts ==
  ASSUME NEW n \in Int
  PROVE  /\ Text(n) \in Seq(Byte)
         /\ \A i \in DOMAIN Text(n) : Text(n)[i] # "CR"
         /\ IsInt(Text(n))
         /\ IntOf(Text(n)) = n
         /\ n >= 0 => Head(Text(n)) # "-"
<1> DEFINE k == IF n < 0 THEN -n ELSE n
           D == Decimal[k]
           t == Text(n)
<1>1. k \in Nat
  OBVIOUS
<1>2. D \in Seq(DOMAIN DigitValue) /\ D # <<>> /\ HasValue(D, k)
  <2> HIDE DEF k
  <2> QED BY <1>1, DecimalFacts
<1>3. t = IF n < 0 THEN <<"-">> \o D ELSE D
  BY DEF Text
<1> HIDE DEF D, k, t
<1>4. D \in Seq(Byte) /\ \A i \in DOMAIN D : D[i] \notin {"CR", "-"}
  BY <1>2, DigitsPlain
<1>5. Head(D) = D[1] /\ 1 \in DOMAIN D
  BY <1>2
<1>6. CASE n < 0
  <2>1. t = <<"-">> \o D
    BY <1>3, <1>6
  <2>2. t \in Seq(Byte) /\ t # <<>> /\ Head(t) = "-" /\ Tail(t) = D
    <3>1. t \in Seq(Byte) /\ Len(t) = Len(D) + 1 /\ t[1] = "-"
          /\ \A i \in 1..Len(D) : t[i + 1] = D[i]
      BY <2>1, <1>4, ProtocolBytes
    <3>2. t # <<>> /\ Head(t) = "-" /\ Tail(t) \in Seq(Byte) /\ Len(Tail(t)) = Len(D)
          /\ \A i \in 1..Len(D) : Tail(t)[i] = t[i + 1]
      BY <3>1, <1>4
    <3>3. Tail(t) = D
      BY <3>1, <3>2, <1>4
    <3> QED BY <3>1, <3>2, <3>3
  <2>3. Unsigned(t) = D
    BY <2>2, Zenon DEF Unsigned
  <2>4. IsInt(t)
    BY <1>2, <2>3 DEF IsInt
  <2>5. IntOf(t) = -k
    BY <1>1, <1>2, <2>2, <2>3, <2>4, ValueIs
  <2>6. \A i \in DOMAIN t : t[i] # "CR"
    BY <1>4, <2>1
  <2> QED BY <1>6, <2>2, <2>4, <2>5, <2>6 DEF k, t
<1>7. CASE n >= 0
  <2>1. t = D
    BY <1>3, <1>7
  <2>2. t \in Seq(Byte) /\ t # <<>> /\ Head(t) # "-"
    BY <2>1, <1>2, <1>4, <1>5
  <2>3. Unsigned(t) = D
    BY <2>1, <2>2, Zenon DEF Unsigned
  <2>4. IsInt(t)
    BY <1>2, <2>3 DEF IsInt
  <2>5. IntOf(t) = k
    BY <1>1, <1>2, <2>2, <2>3, <2>4, ValueIs
  <2>6. \A i \in DOMAIN t : t[i] # "CR"
    BY <1>4, <2>1
  <2> QED BY <1>7, <2>2, <2>4, <2>5, <2>6 DEF k, t
<1> QED BY <1>6, <1>7

-----------------------------------------------------------------------------
(* utf-8 *)

(* bytes.decode, one byte more. *)
Decodes(f, b) ==
  /\ f[0] = <<>>
  /\ \A n \in 1..Len(b) :
       f[n] = CASE b[n] = "xC3" -> f[n - 1]
                [] b[n] = "xA9" -> Append(f[n - 1], "e-acute")
                [] OTHER -> Append(f[n - 1], b[n])
  /\ Decode(b) = f[Len(b)]

(* The recursion of bytes.decode is well defined. *)
LEMMA DecodeUnfold ==
  ASSUME NEW b \in Seq(Byte)
  PROVE  \E f : Decodes(f, b)
<1> DEFINE N == Len(b)
           e == <<>>
           Of(v, n) == CASE b[n] = "xC3" -> v
                         [] b[n] = "xA9" -> Append(v, "e-acute")
                         [] OTHER -> Append(v, b[n])
           F(u, k) == [n \in 0..k |-> IF n = 0 THEN e ELSE Of(u[n - 1], n)]
           T == {k \in Nat : \E u : u = F(u, k)}
           f == CHOOSE u : u = F(u, N)
<1>1. N \in Nat
  OBVIOUS
<1>2. Decode(b) = f[N]
  BY Zenon DEF Decode
<1> HIDE DEF Of, e, N
<1>3. 0 \in T
  <2> DEFINE h == [n \in 0..0 |-> e]
  <2>1. h = F(h, 0)
    <3>1. \A n \in 0..0 : h[n] = F(h, 0)[n]
      OBVIOUS
    <3>2. h = [n \in 0..0 |-> h[n]] /\ F(h, 0) = [n \in 0..0 |-> F(h, 0)[n]]
      OBVIOUS
    <3> HIDE DEF F, h
    <3> QED BY <3>1, <3>2
  <2> HIDE DEF h, F
  <2> QED BY <2>1
<1>4. ASSUME NEW k \in Nat, k \in T PROVE k + 1 \in T
  <2>1. PICK u : u = F(u, k)
    BY <1>4
  <2> DEFINE x == Of(u[k], k + 1)
             h == [n \in 0..(k + 1) |-> IF n = k + 1 THEN x ELSE u[n]]
             next == k + 1
  <2>2. ASSUME NEW n \in 0..next PROVE h[n] = F(h, next)[n]
    <3>1. CASE n = 0
      <4>1. u[0] = e
        BY <2>1
      <4> QED BY <3>1, <4>1
    <3>2. CASE n # 0 /\ n # k + 1
      <4>1. n \in 0..k /\ n - 1 \in 0..k
        BY <3>2
      <4>2. u[n] = Of(u[n - 1], n)
        BY <2>1, <3>2, <4>1
      <4>3. h[n] = u[n] /\ h[n - 1] = u[n - 1]
        BY <4>1
      <4>4. F(h, next)[n] = Of(h[n - 1], n)
        BY <3>2
      <4> HIDE DEF F, h
      <4> QED BY <4>2, <4>3, <4>4
    <3>3. CASE n = k + 1
      <4>1. h[n] = x /\ h[n - 1] = u[k]
        BY <3>3
      <4>2. F(h, next)[n] = Of(h[n - 1], n)
        BY <3>3
      <4> HIDE DEF F, h
      <4> QED BY <3>3, <4>1, <4>2
    <3> QED BY <3>1, <3>2, <3>3
  <2>3. h = F(h, next)
    <3>1. h = [n \in 0..next |-> h[n]] /\ F(h, next) = [n \in 0..next |-> F(h, next)[n]]
      OBVIOUS
    <3> HIDE DEF F, h, next
    <3> QED BY <2>2, <3>1
  <2> HIDE DEF h, F
  <2> QED BY <2>3
<1>5. \A k \in Nat : k \in T
  <2> HIDE DEF T
  <2> QED BY <1>3, <1>4, NatSetInduction
<1>6. f = F(f, N)
  <2>1. \E u : u = F(u, N)
    BY <1>1, <1>5
  <2> HIDE DEF F
  <2> QED BY <2>1
<1> HIDE DEF f
<1>7. f[0] = <<>>
  BY <1>1, <1>6 DEF e
<1>8. ASSUME NEW n \in 1..N PROVE f[n] = Of(f[n - 1], n)
  BY <1>1, <1>6
<1>9. Decodes(f, b)
  <2> HIDE DEF F
  <2> QED BY <1>2, <1>7, <1>8, Zenon DEF Decodes, N, Of
<1> QED BY <1>9

(* What another byte adds to the text. *)
LEMMA DecodeAppend ==
  ASSUME NEW b \in Seq(Byte), NEW x \in Byte
  PROVE  /\ x = "xC3" => Decode(Append(b, x)) = Decode(b)
         /\ x = "xA9" => Decode(Append(b, x)) = Append(Decode(b), "e-acute")
         /\ x \notin {"xC3", "xA9"} => Decode(Append(b, x)) = Append(Decode(b), x)
<1> DEFINE a == Append(b, x)
           N == Len(b)
<1>1. /\ a \in Seq(Byte) /\ N \in Nat /\ Len(a) = N + 1 /\ a[N + 1] = x
      /\ \A n \in 1..N : a[n] = b[n]
  OBVIOUS
<1> HIDE DEF a
<1>2. PICK f : Decodes(f, b)
  BY DecodeUnfold
<1>3. PICK g : Decodes(g, a)
  BY <1>1, DecodeUnfold
<1> DEFINE Of(v, y) == CASE y = "xC3" -> v
                         [] y = "xA9" -> Append(v, "e-acute")
                         [] OTHER -> Append(v, y)
<1>4. /\ f[0] = <<>> /\ Decode(b) = f[N]
      /\ \A n \in 1..N : f[n] = Of(f[n - 1], b[n])
  BY <1>2, Zenon DEF Decodes
<1>5. /\ g[0] = <<>> /\ Decode(a) = g[Len(a)]
      /\ \A n \in 1..Len(a) : g[n] = Of(g[n - 1], a[n])
  BY <1>3, Zenon DEF Decodes
<1>6. \A v : /\ Of(v, "xC3") = v
             /\ Of(v, "xA9") = Append(v, "e-acute")
             /\ x \notin {"xC3", "xA9"} => Of(v, x) = Append(v, x)
  OBVIOUS
<1> HIDE DEF Of, N
<1> DEFINE T == {k \in Nat : k <= N => g[k] = f[k]}
<1>7. 0 \in T
  BY <1>4, <1>5
<1>8. ASSUME NEW k \in Nat, k \in T PROVE k + 1 \in T
  <2> SUFFICES ASSUME k + 1 <= N PROVE g[k + 1] = f[k + 1]
    OBVIOUS
  <2>1. k + 1 \in 1..N /\ k + 1 \in 1..Len(a) /\ (k + 1) - 1 = k
    BY <1>1
  <2>2. g[k + 1] = Of(g[k], a[k + 1]) /\ f[k + 1] = Of(f[k], b[k + 1])
    BY <1>4, <1>5, <2>1
  <2>3. g[k] = f[k] /\ a[k + 1] = b[k + 1]
    BY <1>1, <1>8, <2>1
  <2> QED BY <2>2, <2>3
<1>9. \A k \in Nat : k \in T
  <2> HIDE DEF T
  <2> QED BY <1>7, <1>8, NatSetInduction
<1>10. g[N] = f[N] /\ N + 1 \in 1..Len(a) /\ (N + 1) - 1 = N
  BY <1>1, <1>9
<1>11. g[N + 1] = Of(g[N], x)
  BY <1>1, <1>5, <1>10
<1>12. Decode(a) = Of(Decode(b), x)
  BY <1>1, <1>4, <1>5, <1>10, <1>11
<1> QED BY <1>6, <1>12 DEF a

(* One character more. *)
LEMMA EncodeAppend ==
  ASSUME NEW t \in Seq(Chars), NEW c \in Chars
  PROVE  /\ Encode(Append(t, c)) = Encode(t) \o Utf8(c)
         /\ Encode(t) \in Seq(Byte)
         /\ Utf8(c) \in Seq(Byte)
<1> DEFINE a == Append(t, c)
           U(s) == [i \in DOMAIN s |-> Utf8(s[i])]
           x == Utf8(c)
<1>1. \A d \in Chars : Utf8(d) \in Seq(Byte)
  <2> SUFFICES ASSUME NEW d \in Chars PROVE Utf8(d) \in Seq(Byte)
    OBVIOUS
  <2>1. CASE d = "e-acute"
    <3>1. "xC3" \in Byte /\ "xA9" \in Byte
      BY DEF Byte
    <3> QED BY <2>1, <3>1 DEF Utf8
  <2>2. CASE d # "e-acute"
    <3>1. d \in Byte
      BY <2>2 DEF Byte
    <3> QED BY <2>2, <3>1 DEF Utf8
  <2> QED BY <2>1, <2>2
<1>2. U(t) \in Seq(Seq(Byte)) /\ x \in Seq(Byte)
  <2> HIDE DEF Utf8
  <2>1. DOMAIN t = 1..Len(t) /\ Len(t) \in Nat
    OBVIOUS
  <2>2. U(t) \in [1..Len(t) -> Seq(Byte)]
    BY <1>1, <2>1
  <2> QED BY <1>1, <2>1, <2>2
<1>3. U(a) = Append(U(t), x)
  <2>1. Len(a) = Len(t) + 1 /\ Len(t) \in Nat /\ DOMAIN a = 1..(Len(t) + 1)
        /\ a[Len(t) + 1] = c /\ DOMAIN t = 1..Len(t) /\ \A i \in 1..Len(t) : a[i] = t[i]
    OBVIOUS
  <2> DEFINE n == Len(t)
             f == U(a)
             g == Append(U(t), x)
  <2>2. Len(U(t)) = n /\ DOMAIN g = 1..(n + 1) /\ g[n + 1] = x
        /\ \A i \in 1..n : g[i] = U(t)[i]
    <3>1. Len(U(t)) = n
      BY <2>1
    <3> HIDE DEF U, x
    <3> QED BY <1>2, <3>1, <2>1
  <2>3. DOMAIN f = 1..(n + 1)
    BY <2>1
  <2>4. \A i \in 1..(n + 1) : f[i] = g[i]
    <3> SUFFICES ASSUME NEW i \in 1..(n + 1) PROVE f[i] = g[i]
      OBVIOUS
    <3>1. f[i] = Utf8(a[i])
      BY <2>1
    <3>2. CASE i = n + 1
      <4> HIDE DEF a, f, g
      <4> QED BY <2>1, <2>2, <3>1, <3>2
    <3>3. CASE i # n + 1
      <4>1. i \in 1..n
        BY <2>1, <3>3
      <4>2. U(t)[i] = Utf8(t[i]) /\ a[i] = t[i]
        BY <2>1, <4>1
      <4> HIDE DEF a, f, g, U
      <4> QED BY <2>2, <3>1, <4>1, <4>2
    <3> QED BY <3>2, <3>3
  <2>5. f = [i \in 1..(n + 1) |-> f[i]] /\ g = [i \in 1..(n + 1) |-> g[i]]
    <3>1. f = [i \in DOMAIN f |-> f[i]]
      OBVIOUS
    <3>2. g \in Seq(Seq(Byte))
      <4> HIDE DEF U, x
      <4> QED BY <1>2
    <3>3. g = [i \in DOMAIN g |-> g[i]]
      <4> HIDE DEF g
      <4> QED BY <3>2
    <3> HIDE DEF f, g
    <3> QED BY <3>1, <3>3, <2>2, <2>3
  <2> HIDE DEF f, g, a
  <2>6. f = g
    BY <2>4, <2>5
  <2> QED BY <2>6 DEF f, g
<1>4. Encode(a) = FlattenSeq(U(a)) /\ Encode(t) = FlattenSeq(U(t))
  BY Zenon DEF Encode
<1> DEFINE u == U(t)
<1> HIDE DEF U, x
<1>5. u \in Seq(Seq(Byte))
  BY <1>2
<1> HIDE DEF u
<1>6. FlattenSeq(Append(u, x)) = FlattenSeq(u) \o x /\ FlattenSeq(u) \in Seq(Byte)
  BY <1>2, <1>5, FlattenAppend, FlattenType
<1> QED BY <1>2, <1>3, <1>4, <1>6 DEF u, x

(* A sequence that is not empty ends with an element. *)
LEMMA FrontLast ==
  ASSUME NEW S, NEW t \in Seq(S), t # <<>>
  PROVE  \E u \in Seq(S), c \in S : t = Append(u, c) /\ Len(u) = Len(t) - 1
<1> DEFINE u == SubSeq(t, 1, Len(t) - 1)
           c == t[Len(t)]
<1>1. Len(t) \in Nat /\ Len(t) >= 1
  OBVIOUS
<1>2. u \in Seq(S) /\ c \in S /\ Len(u) = Len(t) - 1
  <2>1. c \in S
    BY ONLY <1>1, t \in Seq(S)
  <2> DEFINE k == Len(t) - 1
  <2>2. k \in 0..Len(t)
    BY ONLY <1>1
  <2> HIDE DEF k
  <2>3. SubSeq(t, 1, k) \in Seq(S) /\ Len(SubSeq(t, 1, k)) = k
    BY ONLY <2>2, t \in Seq(S)
  <2> QED BY ONLY <2>1, <2>3 DEF k
<1>3. t = Append(u, c)
  <2>1. \A i \in 1..Len(t) : Append(u, c)[i] = t[i]
    BY <1>1, <1>2
  <2>2. Append(u, c) \in Seq(S) /\ Len(Append(u, c)) = Len(t)
    <3> HIDE DEF u, c
    <3> QED BY ONLY <1>1, <1>2
  <2> HIDE DEF u, c
  <2> DEFINE z == Append(u, c)
  <2>3. z \in Seq(S) /\ Len(z) = Len(t) /\ \A i \in 1..Len(t) : z[i] = t[i]
    BY ONLY <2>1, <2>2
  <2> HIDE DEF z
  <2> QED BY <2>3 DEF z
<1> QED BY <1>2, <1>3

(* Bytes that are utf-8 stay so with one more character. *)
LEMMA Utf8Append ==
  ASSUME NEW b \in Seq(Byte), IsUtf8(b), NEW c \in Chars
  PROVE  IsUtf8(b \o Utf8(c))
<1> DEFINE N == Len(b)
           x == b \o Utf8(c)
           Good(y, i) == (i > 1 /\ y[i - 1] = "xC3") <=> (i <= Len(y) /\ y[i] = "xA9")
<1>1. N \in Nat /\ \A i \in 1..(N + 1) : Good(b, i)
  BY DEF IsUtf8
<1>2. N > 0 => b[N] # "xC3"
  <2>1. Good(b, N + 1)
    BY <1>1
  <2> QED BY <1>1, <2>1
<1>3. CASE c = "e-acute"
  <2>1. x = b \o <<"xC3", "xA9">>
    BY <1>3 DEF Utf8
  <2>2. /\ Len(x) = N + 2 /\ x[N + 1] = "xC3" /\ x[N + 2] = "xA9"
        /\ \A i \in 1..N : x[i] = b[i]
    BY <2>1
  <2> HIDE DEF x, N
  <2>3. ASSUME NEW i \in 1..(N + 3) PROVE Good(x, i)
    <3>1. CASE i <= N
      <4>1. Good(b, i) /\ i \in 1..N /\ (i > 1 => i - 1 \in 1..N)
        BY <1>1, <3>1
      <4> QED BY <1>1, <2>2, <4>1 DEF N
    <3>2. CASE i = N + 1
      <4>1. i > 1 => x[i - 1] = b[N]
        BY <1>1, <2>2, <3>2
      <4> QED BY <1>1, <1>2, <2>2, <3>2, <4>1
    <3>3. CASE i = N + 2
      BY <1>1, <2>2, <3>3
    <3>4. CASE i = N + 3
      BY <1>1, <2>2, <3>4
    <3> QED BY <1>1, <3>1, <3>2, <3>3, <3>4
  <2>4. IsUtf8(x)
    BY <1>1, <2>2, <2>3 DEF IsUtf8
  <2> QED BY <2>4 DEF x
<1>4. CASE c # "e-acute"
  <2>1. x = b \o <<c>>
    BY <1>4 DEF Utf8
  <2>0. c # "xC3" /\ c # "xA9"
    BY CharsAssumption
  <2>2. /\ Len(x) = N + 1 /\ x[N + 1] = c
        /\ \A i \in 1..N : x[i] = b[i]
    BY <2>1
  <2> HIDE DEF x, N
  <2>3. ASSUME NEW i \in 1..(N + 2) PROVE Good(x, i)
    <3>1. CASE i <= N
      <4>1. Good(b, i) /\ i \in 1..N /\ (i > 1 => i - 1 \in 1..N)
        BY <1>1, <3>1
      <4> QED BY <1>1, <2>2, <4>1 DEF N
    <3>2. CASE i = N + 1
      <4>1. i > 1 => x[i - 1] = b[N]
        BY <1>1, <2>2, <3>2
      <4> QED BY <1>1, <1>2, <2>0, <2>2, <3>2, <4>1
    <3>3. CASE i = N + 2
      BY <1>1, <2>0, <2>2, <3>3
    <3> QED BY <1>1, <3>1, <3>2, <3>3
  <2>4. IsUtf8(x)
    BY <1>1, <2>2, <2>3 DEF IsUtf8
  <2> QED BY <2>4 DEF x
<1> QED BY <1>3, <1>4

(* A text without line ends is encoded without them. *)
NoCR(t) == \A i \in DOMAIN t : t[i] # "CR"

(* Decoding the bytes of a text gives the text. *)
LEMMA Utf8Facts ==
  ASSUME NEW t \in Seq(Chars)
  PROVE  /\ Encode(t) \in Seq(Byte)
         /\ IsUtf8(Encode(t))
         /\ Decode(Encode(t)) = t
         /\ NoCR(t) => NoCR(Encode(t))
<1> DEFINE P(s) == /\ Encode(s) \in Seq(Byte)
                   /\ IsUtf8(Encode(s))
                   /\ Decode(Encode(s)) = s
                   /\ NoCR(s) => NoCR(Encode(s))
           T == {k \in Nat : \A s \in Seq(Chars) : Len(s) = k => P(s)}
<1>1. P(<<>>)
  <2> DEFINE e == <<>>
  <2>1. Encode(e) = e
    <3>1. [i \in DOMAIN e |-> Utf8(e[i])] = e
      OBVIOUS
    <3> HIDE DEF e
    <3>2. Encode(e) = FlattenSeq(e)
      BY <3>1, Zenon DEF Encode
    <3> QED BY <3>2, FlattenEmpty DEF e
  <2>2. e \in Seq(Byte) /\ Len(e) = 0
    OBVIOUS
  <2>3. IsUtf8(e)
    BY <2>2 DEF IsUtf8
  <2>4. Decode(e) = <<>>
    <3> HIDE DEF e
    <3>1. PICK f : Decodes(f, e)
      BY <2>2, DecodeUnfold
    <3> QED BY <2>2, <3>1 DEF Decodes
  <2>5. NoCR(e)
    BY DEF NoCR
  <2> QED BY <2>1, <2>2, <2>3, <2>4, <2>5
<1>2. ASSUME NEW u \in Seq(Chars), NEW c \in Chars, P(u)
      PROVE  P(Append(u, c))
  <2> DEFINE a == Append(u, c)
             b == Encode(u)
  <2>1. Encode(a) = b \o Utf8(c) /\ b \in Seq(Byte) /\ Utf8(c) \in Seq(Byte)
    BY EncodeAppend
  <2>2. IsUtf8(b) /\ Decode(b) = u
    BY <1>2
  <2>0. NoCR(a) => NoCR(u) /\ c # "CR"
    <3> SUFFICES ASSUME NoCR(a) PROVE NoCR(u) /\ c # "CR"
      OBVIOUS
    <3>1. \A i \in 1..Len(u) : a[i] = u[i] /\ i \in DOMAIN a
      OBVIOUS
    <3>2. a[Len(u) + 1] = c /\ Len(u) + 1 \in DOMAIN a /\ DOMAIN u = 1..Len(u)
      OBVIOUS
    <3> HIDE DEF a
    <3> QED BY <3>1, <3>2 DEF NoCR
  <2>9. NoCR(u) => NoCR(b)
    BY <1>2
  <2> HIDE DEF b
  <2>3. IsUtf8(b \o Utf8(c))
    BY <2>1, <2>2, Utf8Append
  <2>4. Decode(b \o Utf8(c)) = a
    <3>1. CASE c = "e-acute"
      <4> DEFINE b1 == Append(b, "xC3")
                 b2 == Append(b1, "xA9")
      <4>1. "xC3" \in Byte /\ "xA9" \in Byte
        BY DEF Byte
      <4>2. b1 \in Seq(Byte) /\ b \o Utf8(c) = b2
        BY <2>1, <3>1, <4>1 DEF Utf8
      <4>3. Decode(b1) = Decode(b)
        BY <2>1, <4>1, DecodeAppend
      <4> HIDE DEF b1
      <4>4. Decode(b2) = Append(Decode(b1), "e-acute")
        BY <4>1, <4>2, DecodeAppend
      <4> QED BY <2>2, <3>1, <4>2, <4>3, <4>4
    <3>2. CASE c # "e-acute"
      <4>1. c \in Byte /\ c \notin {"xC3", "xA9"}
        BY <3>2, CharsAssumption DEF Byte
      <4>2. b \o Utf8(c) = Append(b, c)
        BY <2>1, <3>2 DEF Utf8
      <4>3. Decode(Append(b, c)) = Append(Decode(b), c)
        BY <2>1, <4>1, DecodeAppend
      <4> QED BY <2>2, <4>2, <4>3
    <3> QED BY <3>1, <3>2
  <2>5. b \o Utf8(c) \in Seq(Byte)
    BY <2>1
  <2>6. NoCR(a) => NoCR(b \o Utf8(c))
    <3> SUFFICES ASSUME NoCR(a) PROVE NoCR(b \o Utf8(c))
      OBVIOUS
    <3>1. NoCR(b) /\ c # "CR"
      BY <2>0, <2>9
    <3>2. \A i \in DOMAIN Utf8(c) : Utf8(c)[i] # "CR"
      <4>1. CASE c = "e-acute"
        BY <4>1 DEF Utf8
      <4>2. CASE c # "e-acute"
        BY <3>1, <4>2 DEF Utf8
      <4> QED BY <4>1, <4>2
    <3> DEFINE x == Utf8(c)
    <3> HIDE DEF x
    <3>3. x \in Seq(Byte) /\ \A i \in DOMAIN x : x[i] # "CR"
      BY <2>1, <3>2 DEF x
    <3>4. NoCR(b \o x)
      BY <2>1, <3>1, <3>3 DEF NoCR
    <3> QED BY <3>4 DEF x
  <2> HIDE DEF a
  <2>7. P(a)
    BY <2>1, <2>3, <2>4, <2>5, <2>6
  <2> QED BY <2>7 DEF a
<1> HIDE DEF P
<1>3. 0 \in T
  <2>1. ASSUME NEW s \in Seq(Chars), Len(s) = 0 PROVE P(s)
    <3>1. s = <<>>
      BY <2>1
    <3> QED BY <1>1, <3>1
  <2> QED BY <2>1
<1>4. ASSUME NEW k \in Nat, k \in T PROVE k + 1 \in T
  <2> SUFFICES ASSUME NEW s \in Seq(Chars), Len(s) = k + 1 PROVE P(s)
    OBVIOUS
  <2>1. s # <<>>
    OBVIOUS
  <2>2. PICK u \in Seq(Chars), c \in Chars : s = Append(u, c) /\ Len(u) = Len(s) - 1
    BY <2>1, FrontLast
  <2>3. P(u)
    BY <1>4, <2>2
  <2>4. P(Append(u, c))
    BY <1>2, <2>3
  <2> QED BY <2>2, <2>4
<1>5. \A k \in Nat : k \in T
  <2> HIDE DEF T
  <2> QED BY <1>3, <1>4, NatSetInduction
<1>6. P(t)
  BY <1>5
<1> QED BY <1>6 DEF P

-----------------------------------------------------------------------------
(* What the parsers make of encoded values *)

(* The bytes of part are in m from index s on. *)
Holds(m, s, part) ==
  /\ s + Len(part) <= Len(m) + 1
  /\ \A i \in 1..Len(part) : m[s + i - 1] = part[i]

(* Sequences with the same elements are equal. *)
LEMMA SameElements ==
  ASSUME NEW S, NEW a \in Seq(S), NEW b \in Seq(S), Len(a) = Len(b),
         \A i \in 1..Len(a) : a[i] = b[i]
  PROVE  a = b
<1>1. a = [i \in 1..Len(a) |-> a[i]] /\ b = [i \in 1..Len(b) |-> b[i]]
  OBVIOUS
<1> QED BY <1>1

(* Two parts, one after the other. *)
LEMMA HoldsConcat ==
  ASSUME NEW m \in Seq(Byte), NEW s \in Nat \ {0}, NEW a \in Seq(Byte), NEW b \in Seq(Byte),
         Holds(m, s, a \o b)
  PROVE  /\ Holds(m, s, a)
         /\ Holds(m, s + Len(a), b)
         /\ Len(a \o b) = Len(a) + Len(b)
         /\ s + Len(a) \in Nat \ {0}
<1> DEFINE ab == a \o b
<1>1. /\ Len(ab) = Len(a) + Len(b) /\ Len(a) \in Nat /\ Len(b) \in Nat
      /\ \A i \in 1..Len(a) : ab[i] = a[i]
      /\ \A i \in 1..Len(b) : ab[Len(a) + i] = b[i]
  OBVIOUS
<1>2. /\ s + Len(ab) <= Len(m) + 1
      /\ \A i \in 1..Len(ab) : m[s + i - 1] = ab[i]
  BY DEF Holds
<1> HIDE DEF ab
<1>3. Holds(m, s, a)
  BY <1>1, <1>2 DEF Holds
<1>4. Holds(m, s + Len(a), b)
  <2>1. ASSUME NEW i \in 1..Len(b) PROVE m[(s + Len(a)) + i - 1] = b[i]
    <3>1. Len(a) + i \in 1..Len(ab) /\ s + (Len(a) + i) - 1 = (s + Len(a)) + i - 1
      BY <1>1
    <3> QED BY <1>1, <1>2, <3>1
  <2>2. (s + Len(a)) + Len(b) <= Len(m) + 1
    BY <1>1, <1>2
  <2> QED BY <2>1, <2>2 DEF Holds
<1> QED BY <1>1, <1>3, <1>4 DEF ab

(* A line that holds no CR is read up to its own end. *)
LEMMA ReadLineAt ==
  ASSUME NEW m \in Seq(Byte), NEW s \in Nat \ {0}, NEW line \in Seq(Byte), NoCR(line),
         Holds(m, s, line \o CRLF)
  PROVE  ReadLine(m, s) = Parsed(line, s + Len(line) + 2)
<1> DEFINE end == s + Len(line)
           x == line \o CRLF
<1>0. CRLF \in Seq(Byte) /\ Len(CRLF) = 2 /\ CRLF[1] = "CR" /\ CRLF[2] = "LF"
  BY ProtocolBytes DEF CRLF
<1>1. /\ Holds(m, s, line) /\ Holds(m, end, CRLF) /\ end \in Nat \ {0}
  BY <1>0, HoldsConcat
<1>2. m[end] = "CR" /\ m[end + 1] = "LF" /\ end + 2 <= Len(m) + 1
  <2>1. \A i \in 1..2 : m[end + i - 1] = CRLF[i]
    BY <1>0, <1>1 DEF Holds
  <2>2. end + 1 - 1 = end /\ end + 2 - 1 = end + 1 /\ 1 \in 1..2 /\ 2 \in 1..2
    BY <1>1
  <2>3. end + 2 <= Len(m) + 1
    BY <1>0, <1>1 DEF Holds
  <2> HIDE DEF end, x
  <2> QED BY <1>0, <2>1, <2>2, <2>3
<1>3. \A j \in s..(end - 1) : m[j] # "CR" /\ m[j] = line[j - s + 1]
  <2> SUFFICES ASSUME NEW j \in s..(end - 1)
               PROVE  m[j] # "CR" /\ m[j] = line[j - s + 1]
    OBVIOUS
  <2>1. j - s + 1 \in 1..Len(line) /\ s + (j - s + 1) - 1 = j
    OBVIOUS
  <2>2. m[j] = line[j - s + 1]
    BY <1>1, <2>1 DEF Holds
  <2>3. DOMAIN line = 1..Len(line)
    OBVIOUS
  <2> QED BY <2>1, <2>2, <2>3 DEF NoCR
<1>4. EndsLine(m, end) /\ \A j \in s..(end - 1) : ~EndsLine(m, j)
  BY <1>2, <1>3 DEF EndsLine
<1>5. end \in s..(Len(m) - 1)
  BY <1>2
<1>6. SubSeq(m, s, end - 1) = line
  <2> DEFINE y == SubSeq(m, s, end - 1)
  <2>1. y \in Seq(Byte) /\ Len(y) = Len(line) /\ \A i \in 1..Len(line) : y[i] = m[s + i - 1]
    BY <1>5
  <2>2. \A i \in 1..Len(line) : m[s + i - 1] = line[i]
    BY <1>1 DEF Holds
  <2> HIDE DEF y, end, x
  <2>3. y = line
    BY <2>1, <2>2, SameElements
  <2> QED BY <2>3 DEF y
<1>7. ReadLine(m, s) = Parsed(SubSeq(m, s, end - 1), end + 2)
  <2> HIDE DEF end
  <2> QED BY <1>4, <1>5, ReadLineIs
<1> QED BY <1>6, <1>7

(* A number and its end of line. *)
LEMMA ReadIntAt ==
  ASSUME NEW m \in Seq(Byte), NEW s \in Nat \ {0}, NEW n \in Int, NEW least \in Int, n >= least,
         Holds(m, s, Text(n) \o CRLF)
  PROVE  ReadInt(m, s, least) = Parsed(n, s + Len(Text(n)) + 2)
<1> DEFINE line == Text(n)
           p == Parsed(line, s + Len(line) + 2)
<1>1. line \in Seq(Byte) /\ NoCR(line) /\ IsInt(line) /\ IntOf(line) = n
  BY TextFacts DEF NoCR
<1>2. ReadLine(m, s) = p
  <2> HIDE DEF line
  <2> QED BY <1>1, ReadLineAt DEF line
<1>3. p.tag = "ok" /\ p.value = line /\ p.next = s + Len(line) + 2
  BY Tags
<1> HIDE DEF p, line
<1>4. ReadInt(m, s, least) = IF IsInt(p.value) /\ IntOf(p.value) >= least
                             THEN Parsed(IntOf(p.value), p.next) ELSE Malformed
  BY <1>2, <1>3, Zenon DEF ReadInt, Then
<1> QED BY <1>1, <1>3, <1>4 DEF line

(* A payload and its end of line. *)
LEMMA PayloadAt ==
  ASSUME NEW m \in Seq(Byte), NEW s \in Nat \ {0}, NEW t \in Seq(Chars),
         Holds(m, s, Encode(t) \o CRLF)
  PROVE  Payload(m, s, Len(Encode(t))) = Parsed(t, s + Len(Encode(t)) + 2)
<1> DEFINE b == Encode(t)
           end == s + Len(b)
           y == SubSeq(m, s, end - 1)
<1>0. CRLF \in Seq(Byte) /\ Len(CRLF) = 2 /\ CRLF[1] = "CR" /\ CRLF[2] = "LF"
  BY ProtocolBytes DEF CRLF
<1>1. b \in Seq(Byte) /\ IsUtf8(b) /\ Decode(b) = t
  BY Utf8Facts
<1> HIDE DEF b
<1>2. /\ Holds(m, s, b) /\ Holds(m, end, CRLF) /\ end \in Nat \ {0}
  BY <1>0, <1>1, HoldsConcat DEF b
<1>3. m[end] = "CR" /\ m[end + 1] = "LF" /\ end + 2 <= Len(m) + 1
  <2>1. \A i \in 1..2 : m[end + i - 1] = CRLF[i]
    BY <1>0, <1>2 DEF Holds
  <2>2. end + 1 - 1 = end /\ end + 2 - 1 = end + 1 /\ 1 \in 1..2 /\ 2 \in 1..2
    BY <1>2
  <2>3. end + 2 <= Len(m) + 1
    BY <1>0, <1>2 DEF Holds
  <2> HIDE DEF end
  <2> QED BY <1>0, <2>1, <2>2, <2>3
<1>4. y = b
  <2>1. y \in Seq(Byte) /\ Len(y) = Len(b) /\ \A i \in 1..Len(b) : y[i] = m[s + i - 1]
    BY <1>1, <1>3
  <2>2. \A i \in 1..Len(b) : m[s + i - 1] = b[i]
    BY <1>2 DEF Holds
  <2> HIDE DEF y, end
  <2> QED BY <1>1, <2>1, <2>2, SameElements
<1>5. ~(end + 1 > Len(m)) /\ EndsLine(m, end)
  BY <1>2, <1>3 DEF EndsLine
<1>6. Payload(m, s, Len(b)) = IF end + 1 > Len(m) THEN Incomplete
        ELSE IF EndsLine(m, end) /\ IsUtf8(y) THEN Parsed(Decode(y), end + 2) ELSE Malformed
  BY Zenon DEF Payload
<1> HIDE DEF y, end
<1>7. Payload(m, s, Len(b)) = Parsed(t, end + 2)
  BY <1>1, <1>4, <1>5, <1>6, Zenon
<1> QED BY <1>7 DEF b, end

(* The length of a concatenation. *)
LEMMA ConcatLen ==
  ASSUME NEW S, NEW a \in Seq(S), NEW b \in Seq(S)
  PROVE  /\ a \o b \in Seq(S) /\ Len(a \o b) = Len(a) + Len(b)
         /\ Len(a) \in Nat /\ Len(b) \in Nat
OBVIOUS

(* Its elements. *)
LEMMA ConcatElements ==
  ASSUME NEW S, NEW a \in Seq(S), NEW b \in Seq(S)
  PROVE  /\ \A i \in 1..Len(a) : (a \o b)[i] = a[i]
         /\ \A i \in 1..Len(b) : (a \o b)[Len(a) + i] = b[i]
OBVIOUS

(* A sequence is its first elements and the others. *)
LEMMA SplitAt ==
  ASSUME NEW S, NEW a \in Seq(S), NEW k \in 0..Len(a)
  PROVE  /\ SubSeq(a, 1, k) \in Seq(S) /\ Len(SubSeq(a, 1, k)) = k
         /\ SubSeq(a, k + 1, Len(a)) \in Seq(S) /\ Len(SubSeq(a, k + 1, Len(a))) = Len(a) - k
         /\ a = SubSeq(a, 1, k) \o SubSeq(a, k + 1, Len(a))
<1> DEFINE p == SubSeq(a, 1, k)
           q == SubSeq(a, k + 1, Len(a))
           y == p \o q
<1>1. /\ p \in Seq(S) /\ Len(p) = k /\ \A i \in 1..k : p[i] = a[i]
  OBVIOUS
<1>2. /\ q \in Seq(S) /\ Len(q) = Len(a) - k /\ \A i \in 1..(Len(a) - k) : q[i] = a[k + i]
  OBVIOUS
<1> HIDE DEF p, q
<1>3. y \in Seq(S) /\ Len(y) = Len(a)
  BY <1>1, <1>2
<1>4. ASSUME NEW i \in 1..Len(a) PROVE a[i] = y[i]
  <2>1. CASE i <= k
    BY <1>1, <1>2, <2>1
  <2>2. CASE i > k
    <3>1. i - k \in 1..Len(q) /\ y[i] = q[i - k] /\ k + (i - k) = i
      BY <1>1, <1>2, <2>2
    <3> HIDE DEF y
    <3> QED BY <1>2, <3>1
  <2>3. i <= k \/ i > k
    <3>1. i \in Int /\ k \in Int
      OBVIOUS
    <3> QED BY ONLY <3>1
  <2> QED BY ONLY <2>1, <2>2, <2>3
<1> HIDE DEF y
<1>5. a = y
  BY <1>3, <1>4, SameElements
<1> QED BY <1>1, <1>2, <1>5 DEF p, q, y

(* The line of a kind. *)
KindLine(kind, line) == <<kind>> \o line \o CRLF

(* It is a sequence of bytes. *)
LEMMA KindLineSeq ==
  ASSUME NEW kind \in Byte, NEW line \in Seq(Byte)
  PROVE  /\ KindLine(kind, line) \in Seq(Byte)
         /\ Len(KindLine(kind, line)) = Len(line) + 3
         /\ KindLine(kind, line) = <<kind>> \o (line \o CRLF)
<1> DEFINE k == <<kind>>
           tc == line \o CRLF
<1>1. k \in Seq(Byte) /\ Len(k) = 1
  OBVIOUS
<1>2. CRLF \in Seq(Byte) /\ Len(CRLF) = 2
  BY ProtocolBytes DEF CRLF
<1> HIDE DEF k
<1>3. (k \o line) \o CRLF = k \o (line \o CRLF)
  <2>1. k \in Seq(Byte) /\ CRLF \in Seq(Byte)
    BY <1>1, <1>2
  <2> QED BY ONLY <2>1, line \in Seq(Byte), ConcatAssoc
<1>4. tc \in Seq(Byte) /\ Len(tc) = Len(line) + 2 /\ Len(line) \in Nat
  <2>1. tc \in Seq(Byte) /\ Len(tc) = Len(line) + Len(CRLF) /\ Len(line) \in Nat
    BY ONLY <1>2, line \in Seq(Byte), ConcatLen
  <2> QED BY <1>2, <2>1
<1> HIDE DEF tc
<1>5. k \o tc \in Seq(Byte) /\ Len(k \o tc) = Len(k) + Len(tc)
  BY ONLY <1>1, <1>4, ConcatLen
<1>6. KindLine(kind, line) = k \o tc
  BY <1>3 DEF KindLine, k, tc
<1>7. Len(k \o tc) = Len(line) + 3
  BY ONLY <1>1, <1>4, <1>5
<1> QED BY <1>5, <1>6, <1>7 DEF k, tc

(* Its kind is its first byte, and the line follows. *)
LEMMA KindLineAt ==
  ASSUME NEW m \in Seq(Byte), NEW s \in Nat \ {0}, NEW kind \in Byte, NEW line \in Seq(Byte),
         NoCR(line), Holds(m, s, KindLine(kind, line))
  PROVE  /\ s <= Len(m) /\ m[s] = kind
         /\ Holds(m, s + 1, line \o CRLF)
         /\ ReadLine(m, s + 1) = Parsed(line, s + Len(KindLine(kind, line)))
<1> DEFINE k == <<kind>>
           tc == line \o CRLF
           next == s + 1
<1>1. CRLF \in Seq(Byte) /\ Len(CRLF) = 2
  BY ProtocolBytes DEF CRLF
<1>2. k \in Seq(Byte) /\ Len(k) = 1 /\ k[1] = kind
  OBVIOUS
<1>3. KindLine(kind, line) = k \o tc /\ tc \in Seq(Byte) /\ Len(KindLine(kind, line)) = Len(line) + 3
  BY <1>1, KindLineSeq, ConcatLen
<1> HIDE DEF k, tc
<1>4. Holds(m, s, k) /\ Holds(m, s + Len(k), tc)
  <2>1. Holds(m, s, k \o tc)
    BY <1>3
  <2>2. \A a, b \in Seq(Byte) : Holds(m, s, a \o b) =>
          Holds(m, s, a) /\ Holds(m, s + Len(a), b)
    BY HoldsConcat
  <2> QED BY <1>2, <1>3, <2>1, <2>2
<1>5. s <= Len(m) /\ m[s] = kind
  <2>1. m[s + 1 - 1] = k[1] /\ s + 1 <= Len(m) + 1
    BY <1>2, <1>4 DEF Holds
  <2> QED BY <1>2, <2>1
<1>6. Holds(m, next, tc) /\ next \in Nat \ {0}
  BY <1>2, <1>4
<1> HIDE DEF next
<1>7. ReadLine(m, next) = Parsed(line, next + Len(line) + 2)
  BY <1>6, ReadLineAt DEF tc
<1>8. next + Len(line) + 2 = s + Len(KindLine(kind, line))
  BY <1>3 DEF next
<1> QED BY <1>5, <1>6, <1>7, <1>8 DEF next, tc

(* The line of a kind and a number. *)
Header(kind, n) == KindLine(kind, Text(n))

(* Its kind and its number are read from it. *)
LEMMA HeaderAt ==
  ASSUME NEW m \in Seq(Byte), NEW s \in Nat \ {0}, NEW kind \in Byte, NEW n \in Int,
         NEW least \in Int, n >= least, Holds(m, s, Header(kind, n))
  PROVE  /\ s <= Len(m) /\ m[s] = kind
         /\ ReadInt(m, s + 1, least) = Parsed(n, s + Len(Header(kind, n)))
<1> DEFINE t == Text(n)
           next == s + 1
<1>1. t \in Seq(Byte) /\ NoCR(t)
  BY TextFacts DEF NoCR
<1> HIDE DEF t
<1>2. /\ s <= Len(m) /\ m[s] = kind
      /\ Holds(m, next, t \o CRLF)
  BY <1>1, KindLineAt DEF Header, t
<1>3. next \in Nat \ {0}
  OBVIOUS
<1> HIDE DEF next
<1>4. ReadInt(m, next, least) = Parsed(n, next + Len(t) + 2)
  BY <1>2, <1>3, ReadIntAt DEF t
<1>5. Len(Header(kind, n)) = Len(t) + 3 /\ Len(t) \in Nat
  <2>1. Len(KindLine(kind, t)) = Len(t) + 3
    BY <1>1, KindLineSeq
  <2>2. Len(t) \in Nat
    BY <1>1
  <2> QED BY <2>1, <2>2 DEF Header, t
<1>6. next + Len(t) + 2 = s + Len(Header(kind, n))
  BY <1>5 DEF next
<1> QED BY <1>2, <1>4, <1>6 DEF next

(* A header is a sequence of bytes. *)
LEMMA HeaderSeq ==
  ASSUME NEW kind \in Byte, NEW n \in Int
  PROVE  Header(kind, n) \in Seq(Byte) /\ Len(Header(kind, n)) >= 1
<1> DEFINE t == Text(n)
<1>1. t \in Seq(Byte)
  BY TextFacts
<1> HIDE DEF t
<1>2. KindLine(kind, t) \in Seq(Byte) /\ Len(KindLine(kind, t)) = Len(t) + 3
  BY <1>1, KindLineSeq
<1>3. Len(t) \in Nat
  BY <1>1
<1> QED BY <1>2, <1>3 DEF Header, t

(* A bulk string: its header, its payload and the end of the line. *)
Bulk(t) == Header("$", Len(Encode(t))) \o (Encode(t) \o CRLF)

(* Its parts. *)
LEMMA BulkFacts ==
  ASSUME NEW t \in Seq(Chars)
  PROVE  /\ Bulk(t) = <<"$">> \o Text(Len(Encode(t))) \o CRLF \o Encode(t) \o CRLF
         /\ Bulk(t) \in Seq(Byte)
         /\ Len(Bulk(t)) = Len(Header("$", Len(Encode(t)))) + Len(Encode(t)) + 2
<1> DEFINE e == Encode(t)
           n == Len(e)
           h == Header("$", n)
<1>1. CRLF \in Seq(Byte) /\ Len(CRLF) = 2 /\ "$" \in Byte
  BY ProtocolBytes DEF CRLF
<1>2. e \in Seq(Byte) /\ n \in Int
  BY Utf8Facts
<1> HIDE DEF n, e
<1>3. h \in Seq(Byte)
  BY <1>1, <1>2, HeaderSeq
<1>4. h = <<"$">> \o Text(n) \o CRLF
  BY DEF Header, KindLine
<1> HIDE DEF h
<1>5. (h \o e) \o CRLF = h \o (e \o CRLF)
  BY ONLY <1>1, <1>2, <1>3, ConcatAssoc
<1>6. h \o (e \o CRLF) \in Seq(Byte) /\ Len(h \o (e \o CRLF)) = Len(h) + Len(e) + 2
  <2> DEFINE ec == e \o CRLF
  <2>1. ec \in Seq(Byte) /\ Len(ec) = Len(e) + Len(CRLF)
    BY ONLY <1>1, <1>2, ConcatLen
  <2> HIDE DEF ec
  <2>2. h \o ec \in Seq(Byte) /\ Len(h \o ec) = Len(h) + Len(ec)
    BY ONLY <1>3, <2>1, ConcatLen
  <2>3. Len(h) \in Nat /\ Len(e) \in Nat
    BY <1>2, <1>3
  <2> QED BY <1>1, <2>1, <2>2, <2>3 DEF ec
<1>7. Bulk(t) = h \o (e \o CRLF)
  BY DEF Bulk, h, e, n
<1> QED BY <1>4, <1>5, <1>6, <1>7 DEF h, e, n

(* A bulk string is read back, in a request and in a reply. *)
LEMMA BulkAt ==
  ASSUME NEW m \in Seq(Byte), NEW s \in Nat \ {0}, NEW t \in Seq(Chars), Holds(m, s, Bulk(t))
  PROVE  /\ s <= Len(m) /\ m[s] = "$"
         /\ BulkString(m, s) = Parsed(t, s + Len(Bulk(t)))
         /\ ReplyBulk(m, s + 1) = Parsed(Str(t), s + Len(Bulk(t)))
<1> DEFINE e == Encode(t)
           n == Len(e)
           h == Header("$", n)
           ec == e \o CRLF
           next == s + Len(h)
<1>1. CRLF \in Seq(Byte) /\ Len(CRLF) = 2 /\ "$" \in Byte
  BY ProtocolBytes DEF CRLF
<1>2. e \in Seq(Byte) /\ n \in Int /\ n >= 0 /\ n >= -1 /\ 0 \in Int /\ -1 \in Int /\ n # -1
  BY Utf8Facts
<1> HIDE DEF n, e
<1>3. h \in Seq(Byte) /\ Len(Bulk(t)) = Len(h) + n + 2
  BY <1>1, <1>2, HeaderSeq, BulkFacts DEF e, n
<1>4. ec \in Seq(Byte) /\ Bulk(t) = h \o ec
  BY <1>1, <1>2 DEF Bulk, e, n
<1> HIDE DEF h, ec
<1>5. Holds(m, s, h) /\ Holds(m, next, ec) /\ next \in Nat \ {0}
  BY <1>3, <1>4, HoldsConcat
<1>6. /\ s <= Len(m) /\ m[s] = "$"
      /\ ReadInt(m, s + 1, 0) = Parsed(n, next)
      /\ ReadInt(m, s + 1, -1) = Parsed(n, next)
  BY <1>1, <1>2, <1>5, HeaderAt DEF h
<1>7. Payload(m, next, n) = Parsed(t, next + n + 2)
  <2> HIDE DEF next
  <2> QED BY <1>5, PayloadAt DEF e, ec, n
<1>8. next + n + 2 = s + Len(Bulk(t))
  BY <1>2, <1>3
<1> DEFINE p == Parsed(n, next)
           q == Parsed(t, next + n + 2)
           last == s + 1
<1>9. p.tag = "ok" /\ p.value = n /\ p.next = next
  BY Tags
<1>10. q.tag = "ok" /\ q.value = t /\ q.next = next + n + 2
  BY Tags
<1> HIDE DEF p, q, next
<1>11. BulkString(m, s) = q
  <2>1. ~(s > Len(m))
    BY <1>6
  <2>2. BulkString(m, s) = Then(ReadInt(m, s + 1, 0),
                                LAMBDA length, nxt : Payload(m, nxt, length))
    BY <1>6, <2>1, Zenon DEF BulkString
  <2>3. ReadInt(m, s + 1, 0) = p
    BY <1>6 DEF p
  <2>4. BulkString(m, s) = Payload(m, p.next, p.value)
    BY <2>2, <2>3, <1>9, Zenon DEF Then
  <2> QED BY <1>7, <1>9, <2>4 DEF q
<1>12. ReplyBulk(m, last) = Parsed(Str(q.value), q.next)
  <2>1. ReadInt(m, last, -1) = p
    BY <1>6 DEF p
  <2> HIDE DEF last
  <2>2. ReplyBulk(m, last) = IF p.value = -1 THEN Parsed(Null, p.next)
          ELSE Then(Payload(m, p.next, p.value), LAMBDA text, end : Parsed(Str(text), end))
    BY <1>9, <2>1, Zenon DEF ReplyBulk, Then
  <2>3. Payload(m, p.next, p.value) = q
    BY <1>7, <1>9 DEF q
  <2>4. p.value # -1
    BY <1>2, <1>9
  <2> QED BY <1>10, <2>2, <2>3, <2>4, Zenon DEF Then
<1> QED BY <1>6, <1>8, <1>10, <1>11, <1>12 DEF q

(* item reads every part as its value, wherever it is. *)
Reads(m, item, parts, values) ==
  \A i \in 1..Len(parts) : \A p \in Nat \ {0} :
    Holds(m, p, parts[i]) => item[p] = Parsed(values[i], p + Len(parts[i]))

(* Parts that are read one after the other. *)
LEMMA ItemsAt ==
  ASSUME NEW m \in Seq(Byte), NEW s \in Nat \ {0}, NEW parts \in Seq(Seq(Byte)),
         NEW S, NEW values \in Seq(S), Len(values) = Len(parts), NEW item,
         Reads(m, item, parts, values), Holds(m, s, FlattenSeq(parts))
  PROVE  Items(Len(values), s, item) = Parsed(values, s + Len(FlattenSeq(parts)))
<1> DEFINE N == Len(values)
           F(k) == FlattenSeq(SubSeq(parts, 1, k))
<1>1. N \in Nat /\ N = Len(parts)
  OBVIOUS
<1>2. PICK f : Rounds(f, N, s, item)
  <2> HIDE DEF N
  <2> QED BY <1>1, ItemsUnfold
<1>3. /\ f[0] = Parsed(<<>>, s)
      /\ \A n \in 1..N : f[n] = ItemStep(item, f[n - 1])
      /\ Items(N, s, item) = f[N]
  BY <1>2 DEF Rounds
<1>4. ASSUME NEW k \in 0..N PROVE F(k) \in Seq(Byte)
  <2> DEFINE q == SubSeq(parts, 1, k)
  <2>1. q \in Seq(Seq(Byte))
    OBVIOUS
  <2> HIDE DEF q
  <2>2. FlattenSeq(q) \in Seq(Byte)
    BY <2>1, FlattenType
  <2> QED BY <2>2 DEF q
<1>5. ASSUME NEW k \in Nat, k + 1 <= N
      PROVE  /\ parts[k + 1] \in Seq(Byte)
             /\ F(k + 1) = F(k) \o parts[k + 1]
             /\ Holds(m, s + Len(F(k)), parts[k + 1])
  <2> DEFINE q == SubSeq(parts, 1, k)
             x == parts[k + 1]
             qx == Append(q, x)
             r == SubSeq(parts, k + 2, Len(parts))
  <2>1. q \in Seq(Seq(Byte)) /\ x \in Seq(Byte) /\ r \in Seq(Seq(Byte)) /\ qx \in Seq(Seq(Byte))
    BY <1>5
  <2>2. SubSeq(parts, 1, k + 1) = qx
    BY <1>5
  <2>3. parts = qx \o r
    <3>1. k + 1 \in 0..Len(parts) /\ (k + 1) + 1 = k + 2
      BY <1>1, <1>5
    <3> DEFINE next == k + 1
    <3> HIDE DEF next
    <3>2. parts = SubSeq(parts, 1, next) \o SubSeq(parts, next + 1, Len(parts))
      BY <3>1, SplitAt DEF next
    <3> QED BY <2>2, <3>1, <3>2 DEF next
  <2> HIDE DEF q, x, r
  <2>4. FlattenSeq(qx) = FlattenSeq(q) \o x
    BY <2>1, FlattenAppend
  <2> HIDE DEF qx
  <2>5. FlattenSeq(qx \o r) = FlattenSeq(qx) \o FlattenSeq(r)
    BY <2>1, FlattenConcat
  <2> DEFINE fq == FlattenSeq(q)
             fr == FlattenSeq(r)
             fx == fq \o x
  <2>6. fq \in Seq(Byte) /\ fr \in Seq(Byte) /\ fx \in Seq(Byte)
    <3>1. fq \in Seq(Byte) /\ fr \in Seq(Byte)
      BY <2>1, FlattenType
    <3> HIDE DEF fq, fr
    <3> QED BY <2>1, <3>1
  <2>7. Holds(m, s, fx \o fr)
    BY <2>3, <2>4, <2>5
  <2> HIDE DEF fq, fr
  <2>8. Holds(m, s, fx)
    <3> HIDE DEF fx
    <3> QED BY <2>6, <2>7, HoldsConcat
  <2>9. Holds(m, s + Len(fq), x)
    BY <2>1, <2>6, <2>8, HoldsConcat
  <2>10. F(k) = fq /\ F(k + 1) = fx
    BY <2>2, <2>4 DEF fq, q
  <2> QED BY <2>1, <2>9, <2>10 DEF x
<1> HIDE DEF F, N
<1> DEFINE T == {k \in Nat : k <= N => f[k] = Parsed(SubSeq(values, 1, k), s + Len(F(k)))}
<1>6. 0 \in T
  <2>1. SubSeq(values, 1, 0) = <<>>
    OBVIOUS
  <2>2. SubSeq(parts, 1, 0) = <<>>
    OBVIOUS
  <2>3. F(0) = <<>>
    BY <2>2, FlattenEmpty DEF F
  <2>4. s + Len(F(0)) = s
    <3>1. Len(<<>>) = 0
      OBVIOUS
    <3> QED BY ONLY <2>3, <3>1, s \in Nat \ {0}
  <2> QED BY <1>3, <2>1, <2>4
<1>7. ASSUME NEW k \in Nat, k \in T PROVE k + 1 \in T
  <2> SUFFICES ASSUME k + 1 <= N
               PROVE  f[k + 1] = Parsed(SubSeq(values, 1, k + 1), s + Len(F(k + 1)))
    OBVIOUS
  <2> DEFINE p == s + Len(F(k))
             x == parts[k + 1]
             a == SubSeq(values, 1, k)
             v == values[k + 1]
             q == p + Len(x)
             y == Parsed(v, q)
             z == Parsed(a, p)
  <2>1. x \in Seq(Byte) /\ F(k + 1) = F(k) \o x /\ Holds(m, p, x) /\ F(k) \in Seq(Byte)
    <3>1. k \in 0..N /\ k + 1 \in 1..N /\ k \in 0..(N - 1)
      BY <1>1
    <3> QED BY <1>1, <1>4, <1>5, <3>1
  <2>2. p \in Nat \ {0} /\ s + Len(F(k + 1)) = q
    <3> DEFINE g == F(k)
    <3> HIDE DEF g, x
    <3>1. g \in Seq(Byte) /\ x \in Seq(Byte) /\ F(k + 1) = g \o x
      BY <2>1 DEF g
    <3>2. Len(g \o x) = Len(g) + Len(x) /\ Len(g) \in Nat /\ Len(x) \in Nat
      BY <3>1
    <3>3. p = s + Len(g) /\ q = p + Len(x)
      BY DEF g
    <3>4. Len(F(k + 1)) = Len(g) + Len(x)
      BY ONLY <3>1, <3>2
    <3> HIDE DEF p, q
    <3>5. p \in Nat \ {0}
      BY ONLY <3>2, <3>3, s \in Nat \ {0}
    <3>6. s + (Len(g) + Len(x)) = q
      BY ONLY <3>2, <3>3, s \in Nat \ {0}
    <3> QED BY ONLY <3>4, <3>5, <3>6
  <2>3. k + 1 \in 1..N /\ k + 1 \in 1..Len(parts) /\ (k + 1) - 1 = k
    BY <1>1
  <2>4. f[k] = z
    BY <1>7, <1>1
  <2> HIDE DEF p, x
  <2>5. item[p] = y
    BY <2>1, <2>2, <2>3 DEF Reads, x
  <2>6. f[k + 1] = ItemStep(item, f[k])
    BY <1>3, <2>3
  <2>7. z.tag = "ok" /\ z.value = a /\ z.next = p /\ y.tag = "ok" /\ y.value = v /\ y.next = q
    BY Tags
  <2> HIDE DEF y, z, a, v, q
  <2>8. ItemStep(item, z) = Parsed(Append(a, v), q)
    BY <2>5, <2>7, Zenon DEF ItemStep
  <2>9. SubSeq(values, 1, k + 1) = Append(a, v)
    BY <1>1 DEF a, v, N
  <2> QED BY <2>2, <2>4, <2>6, <2>8, <2>9
<1>8. \A k \in Nat : k \in T
  <2> HIDE DEF T
  <2> QED BY <1>6, <1>7, NatSetInduction
<1>9. f[N] = Parsed(SubSeq(values, 1, N), s + Len(F(N)))
  BY <1>1, <1>8
<1>10. SubSeq(values, 1, N) = values /\ SubSeq(parts, 1, N) = parts
  BY <1>1 DEF N
<1>11. F(N) = FlattenSeq(parts)
  BY <1>10 DEF F
<1> QED BY <1>3, <1>9, <1>10, <1>11 DEF N

(* A command is a header and the bulk strings of its tokens. *)
LEMMA CommandParts ==
  ASSUME NEW c \in Seq(Seq(Chars))
  PROVE  LET parts == [i \in 1..Len(c) |-> Bulk(c[i])]
         IN /\ parts \in Seq(Seq(Byte)) /\ Len(parts) = Len(c)
            /\ EncodeCommand(c) = Header("*", Len(c)) \o FlattenSeq(parts)
            /\ FlattenSeq(parts) \in Seq(Byte)
            /\ EncodeCommand(c) \in Seq(Byte) /\ EncodeCommand(c) # <<>>
<1> DEFINE parts == [i \in 1..Len(c) |-> Bulk(c[i])]
           old == [i \in DOMAIN c |->
                     <<"$">> \o Text(Len(Encode(c[i]))) \o CRLF \o Encode(c[i]) \o CRLF]
           n == Len(c)
           h == Header("*", n)
           f == FlattenSeq(parts)
<1>1. DOMAIN c = 1..Len(c) /\ Len(c) \in Nat
  OBVIOUS
<1>2. \A i \in 1..Len(c) : c[i] \in Seq(Chars)
  OBVIOUS
<1>3. \A i \in 1..Len(c) :
        /\ Bulk(c[i]) = <<"$">> \o Text(Len(Encode(c[i]))) \o CRLF \o Encode(c[i]) \o CRLF
        /\ Bulk(c[i]) \in Seq(Byte)
  BY <1>2, BulkFacts
<1>4. parts = old
  <2>1. \A i \in 1..Len(c) : parts[i] = old[i]
    BY <1>1, <1>3
  <2>2. parts = [i \in 1..Len(c) |-> parts[i]] /\ old = [i \in 1..Len(c) |-> old[i]]
    BY <1>1
  <2> HIDE DEF parts, old
  <2> QED BY <2>1, <2>2
<1>5. parts \in Seq(Seq(Byte)) /\ Len(parts) = Len(c)
  <2>1. parts \in [1..Len(c) -> Seq(Byte)]
    BY <1>3
  <2> QED BY <1>1, <2>1
<1> HIDE DEF parts
<1>6. f \in Seq(Byte)
  BY <1>5, FlattenType
<1>7. EncodeCommand(c) = h \o f
  <2>1. EncodeCommand(c) = <<"*">> \o Text(Len(c)) \o CRLF \o FlattenSeq(old)
    BY Zenon DEF EncodeCommand
  <2> HIDE DEF old
  <2> QED BY <1>4, <2>1 DEF Header, KindLine
<1>8. n \in Int /\ "*" \in Byte
  BY <1>1, ProtocolBytes
<1> HIDE DEF n, f
<1>9. h \in Seq(Byte) /\ Len(h) >= 1
  BY <1>8, HeaderSeq
<1> HIDE DEF h
<1>10. h \o f \in Seq(Byte) /\ Len(h \o f) >= 1
  BY <1>6, <1>9
<1>11. h \o f # <<>>
  BY <1>10
<1> QED BY <1>5, <1>6, <1>7, <1>10, <1>11 DEF f, h, n, parts

(* THEOREM: the server reads back every command that the client encodes. *)
THEOREM CommandRoundTrip ==
  ASSUME NEW m \in Seq(Byte), NEW c \in Seq(Seq(Chars)), Holds(m, 1, EncodeCommand(c))
  PROVE  ParseFrame(m) = Parsed(c, Len(EncodeCommand(c)) + 1)
<1> DEFINE parts == [i \in 1..Len(c) |-> Bulk(c[i])]
           n == Len(c)
           h == Header("*", n)
           f == FlattenSeq(parts)
           next == 1 + Len(h)
           item == [start \in 1..(Len(m) + 1) |-> BulkString(m, start)]
           one == 1
<1>1. parts \in Seq(Seq(Byte)) /\ Len(parts) = Len(c) /\ EncodeCommand(c) = h \o f /\ f \in Seq(Byte)
  BY CommandParts
<1>2. n \in Nat /\ n \in Int /\ "*" \in Byte /\ n >= 0 /\ 0 \in Int /\ one \in Nat \ {0}
  BY ProtocolBytes
<1>3. Reads(m, item, parts, c)
  <2> SUFFICES ASSUME NEW i \in 1..Len(c), NEW p \in Nat \ {0}, Holds(m, p, parts[i])
               PROVE  item[p] = Parsed(c[i], p + Len(parts[i]))
    BY <1>1 DEF Reads
  <2>1. c[i] \in Seq(Chars) /\ parts[i] = Bulk(c[i])
    OBVIOUS
  <2>2. p <= Len(m) /\ BulkString(m, p) = Parsed(c[i], p + Len(parts[i]))
    BY <2>1, BulkAt
  <2>3. item[p] = BulkString(m, p)
    BY <2>2
  <2> HIDE DEF item, parts
  <2> QED BY <2>2, <2>3
<1> HIDE DEF n, f, parts, item, one
<1>4. h \in Seq(Byte)
  BY <1>2, HeaderSeq
<1> HIDE DEF h
<1>5. /\ Holds(m, one, h) /\ Holds(m, one + Len(h), f) /\ one + Len(h) \in Nat \ {0}
      /\ Len(h \o f) = Len(h) + Len(f)
  <2>1. Holds(m, one, h \o f)
    BY <1>1 DEF one
  <2> QED BY <1>1, <1>2, <1>4, <2>1, HoldsConcat
<1>6. next = one + Len(h)
  BY DEF one
<1>7. /\ one <= Len(m) /\ m[one] = "*"
      /\ ReadInt(m, one + 1, 0) = Parsed(n, one + Len(h))
  BY <1>2, <1>5, HeaderAt DEF h
<1>8. Items(n, next, item) = Parsed(c, next + Len(f))
  <2>1. next \in Nat \ {0} /\ Holds(m, next, f)
    BY <1>5, <1>6
  <2> HIDE DEF next
  <2>2. Items(Len(c), next, item) = Parsed(c, next + Len(FlattenSeq(parts)))
    BY <1>1, <1>3, <2>1, ItemsAt DEF f
  <2> QED BY <2>2 DEF f, n
<1> DEFINE p == Parsed(n, next)
<1>9. p.tag = "ok" /\ p.value = n /\ p.next = next
  BY Tags
<1>10. ArrayHeader(m, 1) = p
  <2>1. ReadInt(m, 1 + 1, 0) = p /\ m[1] = "*" /\ ~(1 > Len(m))
    BY <1>6, <1>7 DEF one
  <2> HIDE DEF p
  <2> QED BY <2>1, Zenon DEF ArrayHeader
<1> HIDE DEF p, next
<1>11. ParseFrame(m) = Items(p.value, p.next, item)
  BY <1>9, <1>10, Zenon DEF ParseFrame, Then, item
<1>12. next + Len(f) = Len(EncodeCommand(c)) + 1
  <2>1. Len(h) \in Nat /\ Len(f) \in Nat
    BY <1>1, <1>4
  <2> QED BY <1>1, <1>5, <2>1 DEF next
<1> QED BY <1>8, <1>9, <1>11, <1>12

(* The kinds of replies differ. *)
LEMMA Kinds ==
  /\ DOMAIN ErrorReply = {"error"}
  /\ \A x : /\ DOMAIN Simple(x) = {"simple"} /\ Simple(x).simple = x
            /\ DOMAIN Str(x) = {"str"} /\ Str(x).str = x
            /\ DOMAIN Integer(x) = {"int"} /\ Integer(x).int = x
            /\ DOMAIN Array(x) = {"array"} /\ Array(x).array = x
  /\ DOMAIN Null = {"null"}
BY DEF ErrorReply, Simple, Str, Integer, Array, Null

(* A scalar is one of three. *)
LEMMA ScalarCases ==
  ASSUME NEW v, IsScalar(v)
  PROVE  \/ v = Null
         \/ \E t \in Seq(Chars) : v = Str(t)
         \/ \E n \in Int : v = Integer(n)
BY DEF IsScalar

(* The bytes of a scalar. *)
LEMMA ScalarBytes ==
  /\ EncodeScalar(Null) = Header("$", -1)
  /\ \A t : EncodeScalar(Str(t)) = <<"$">> \o Text(Len(Encode(t))) \o CRLF \o Encode(t) \o CRLF
  /\ \A n : EncodeScalar(Integer(n)) = Header(":", n)
<1>1. EncodeScalar(Null) = Header("$", -1)
  <2>1. ~Is(Null, "int") /\ Is(Null, "null")
    BY Kinds DEF Is
  <2> QED BY <2>1, Zenon DEF EncodeScalar, EncodeBulk, Header, KindLine
<1>2. ASSUME NEW t
      PROVE  EncodeScalar(Str(t)) = <<"$">> \o Text(Len(Encode(t))) \o CRLF \o Encode(t) \o CRLF
  <2> DEFINE v == Str(t)
  <2>1. ~Is(v, "int") /\ ~Is(v, "null") /\ v.str = t
    BY Kinds DEF Is
  <2> HIDE DEF v
  <2>2. EncodeScalar(v) = <<"$">> \o Text(Len(Encode(v.str))) \o CRLF \o Encode(v.str) \o CRLF
    BY <2>1, Zenon DEF EncodeScalar, EncodeBulk
  <2> QED BY <2>1, <2>2 DEF v
<1>3. ASSUME NEW n
      PROVE  EncodeScalar(Integer(n)) = Header(":", n)
  <2> DEFINE v == Integer(n)
  <2>1. Is(v, "int") /\ v.int = n
    BY Kinds DEF Is
  <2> HIDE DEF v
  <2>2. EncodeScalar(v) = <<":">> \o Text(v.int) \o CRLF
    BY <2>1, Zenon DEF EncodeScalar
  <2> QED BY <2>1, <2>2 DEF v, Header, KindLine
<1> QED BY <1>1, <1>2, <1>3

(* A scalar is read back, wherever it is; reply has the replies of m. *)
LEMMA ScalarAt ==
  ASSUME NEW m \in Seq(Byte), NEW s \in Nat \ {0}, NEW v, IsScalar(v), NEW reply
  PROVE  /\ EncodeScalar(v) \in Seq(Byte) /\ Len(EncodeScalar(v)) >= 1
         /\ Holds(m, s, EncodeScalar(v)) =>
              /\ s <= Len(m)
              /\ ReplyFrom(m, s, reply) = Parsed(v, s + Len(EncodeScalar(v)))
<1>0. "$" \in Byte /\ ":" \in Byte /\ -1 \in Int /\ -1 >= -1
  BY ProtocolBytes
<1>1. CASE v = Null
  <2> DEFINE n == -1
             h == Header("$", n)
             next == s + Len(h)
             p == Parsed(n, next)
  <2>1. EncodeScalar(v) = h /\ h \in Seq(Byte) /\ Len(h) >= 1
    BY <1>0, <1>1, ScalarBytes, HeaderSeq
  <2>2. ASSUME Holds(m, s, h)
        PROVE  s <= Len(m) /\ ReplyFrom(m, s, reply) = Parsed(v, next)
    <3>1. s <= Len(m) /\ m[s] = "$" /\ ReadInt(m, s + 1, n) = p
      <4> HIDE DEF n
      <4>1. n \in Int /\ n >= n
        BY <1>0 DEF n
      <4> QED BY <1>0, <2>2, <4>1, HeaderAt
    <3>2. p.tag = "ok" /\ p.value = -1 /\ p.next = next
      BY Tags
    <3> HIDE DEF p, next
    <3>3. ReplyBulk(m, s + 1) = Parsed(Null, next)
      <4> DEFINE last == s + 1
      <4>1. ReadInt(m, last, -1) = p
        BY <3>1
      <4> HIDE DEF last
      <4>2. ReplyBulk(m, last) = IF p.value = -1 THEN Parsed(Null, p.next)
              ELSE Then(Payload(m, p.next, p.value), LAMBDA text, end : Parsed(Str(text), end))
        BY <3>2, <4>1, Zenon DEF ReplyBulk, Then
      <4>3. ReplyBulk(m, last) = Parsed(Null, p.next)
        BY <3>2, <4>2, Zenon
      <4> QED BY <3>2, <4>3 DEF last
    <3>4. s \in 1..(Len(m) + 1)
      BY <3>1
    <3>5. ReplyFrom(m, s, reply) = ReplyBulk(m, s + 1)
      BY <3>1, <3>4, ReplyFromIs
    <3> QED BY <1>1, <3>1, <3>3, <3>5
  <2> HIDE DEF h
  <2> QED BY <2>1, <2>2
<1>2. ASSUME NEW t \in Seq(Chars), v = Str(t)
      PROVE  /\ EncodeScalar(v) \in Seq(Byte) /\ Len(EncodeScalar(v)) >= 1
             /\ Holds(m, s, EncodeScalar(v)) =>
                  /\ s <= Len(m)
                  /\ ReplyFrom(m, s, reply) = Parsed(v, s + Len(EncodeScalar(v)))
  <2>1. EncodeScalar(v) = Bulk(t) /\ Bulk(t) \in Seq(Byte) /\ Len(Bulk(t)) >= 1
    <3>1. EncodeScalar(v) = Bulk(t) /\ Bulk(t) \in Seq(Byte)
      BY <1>2, ScalarBytes, BulkFacts
    <3> DEFINE n == Len(Encode(t))
               h == Header("$", n)
    <3>2. Len(Bulk(t)) = Len(h) + n + 2
      BY BulkFacts
    <3>3. n \in Nat /\ n \in Int
      BY Utf8Facts
    <3> HIDE DEF n
    <3>4. h \in Seq(Byte) /\ Len(h) >= 1
      BY <1>0, <3>3, HeaderSeq
    <3>5. Len(h) \in Nat
      <4> HIDE DEF h
      <4> QED BY <3>4
    <3> HIDE DEF h
    <3> QED BY <3>1, <3>2, <3>3, <3>4, <3>5
  <2>2. ASSUME Holds(m, s, Bulk(t))
        PROVE  s <= Len(m) /\ ReplyFrom(m, s, reply) = Parsed(v, s + Len(Bulk(t)))
    <3>1. s <= Len(m) /\ m[s] = "$" /\ ReplyBulk(m, s + 1) = Parsed(Str(t), s + Len(Bulk(t)))
      BY <2>2, BulkAt
    <3>2. s \in 1..(Len(m) + 1)
      BY <3>1
    <3>3. ReplyFrom(m, s, reply) = ReplyBulk(m, s + 1)
      BY <3>1, <3>2, ReplyFromIs
    <3> QED BY <1>2, <3>1, <3>3
  <2> QED BY <2>1, <2>2
<1>3. ASSUME NEW n \in Int, v = Integer(n)
      PROVE  /\ EncodeScalar(v) \in Seq(Byte) /\ Len(EncodeScalar(v)) >= 1
             /\ Holds(m, s, EncodeScalar(v)) =>
                  /\ s <= Len(m)
                  /\ ReplyFrom(m, s, reply) = Parsed(v, s + Len(EncodeScalar(v)))
  <2> DEFINE h == Header(":", n)
             next == s + Len(h)
             line == Text(n)
             p == Parsed(line, next)
  <2>1. EncodeScalar(v) = h /\ h \in Seq(Byte) /\ Len(h) >= 1
    BY <1>0, <1>3, ScalarBytes, HeaderSeq
  <2>2. ASSUME Holds(m, s, h)
        PROVE  s <= Len(m) /\ ReplyFrom(m, s, reply) = Parsed(v, next)
    <3>0. line \in Seq(Byte) /\ NoCR(line)
      BY TextFacts DEF NoCR
    <3>1. s <= Len(m) /\ m[s] = ":" /\ ReadLine(m, s + 1) = p
      <4> HIDE DEF line
      <4> QED BY <1>0, <2>2, <3>0, KindLineAt DEF Header, line
    <3>3. p.tag = "ok" /\ p.value = line /\ p.next = next
      BY Tags
    <3>4. IsInt(line) /\ IntOf(line) = n
      BY TextFacts
    <3> HIDE DEF p, next, line
    <3>5. ReplyInt(m, s + 1) = IF IsInt(p.value) THEN Parsed(Integer(IntOf(p.value)), p.next)
                               ELSE Malformed
      BY <3>1, <3>3, Zenon DEF ReplyInt, Then
    <3>6. ReplyInt(m, s + 1) = Parsed(v, next)
      BY <1>3, <3>3, <3>4, <3>5
    <3>7. s \in 1..(Len(m) + 1)
      BY <3>1
    <3>8. ReplyFrom(m, s, reply) = ReplyInt(m, s + 1)
      BY <3>1, <3>7, ReplyFromIs
    <3> QED BY <3>1, <3>6, <3>8
  <2> HIDE DEF h
  <2> QED BY <2>1, <2>2
<1> QED BY <1>1, <1>2, <1>3, ScalarCases

(* How the client sees a reply: a simple string reads like a text. *)
ReadBack(reply) == IF Is(reply, "simple") THEN Str(reply.simple) ELSE reply

(* The bytes of the other kinds. *)
LEMMA ReplyBytesOf ==
  /\ EncodeReply(ErrorReply) = KindLine("-", <<"ERR">>)
  /\ \A v : IsScalar(v) => EncodeReply(v) = EncodeScalar(v)
  /\ \A t : EncodeReply(Simple(t)) = KindLine("+", Encode(t))
  /\ \A items : EncodeReply(Array(items)) =
                  Header("*", Len(items))
                    \o FlattenSeq([i \in DOMAIN items |-> EncodeScalar(items[i])])
<1>1. EncodeReply(ErrorReply) = KindLine("-", <<"ERR">>)
  <2>1. Is(ErrorReply, "error")
    BY Kinds DEF Is
  <2>2. EncodeReply(ErrorReply) = <<"-", "ERR">> \o CRLF
    BY <2>1, Zenon DEF EncodeReply
  <2>3. <<"-", "ERR">> = <<"-">> \o <<"ERR">>
    OBVIOUS
  <2> QED BY <2>2, <2>3 DEF KindLine
<1>2. ASSUME NEW v, IsScalar(v) PROVE EncodeReply(v) = EncodeScalar(v)
  <2>1. ~Is(v, "error") /\ ~Is(v, "simple") /\ ~Is(v, "array")
    <3>1. CASE v = Null
      BY <3>1, Kinds DEF Is
    <3>2. CASE \E t \in Seq(Chars) : v = Str(t)
      BY <3>2, Kinds DEF Is
    <3>3. CASE \E n \in Int : v = Integer(n)
      BY <3>3, Kinds DEF Is
    <3> QED BY <1>2, <3>1, <3>2, <3>3, ScalarCases
  <2> QED BY <2>1, Zenon DEF EncodeReply
<1>3. ASSUME NEW t PROVE EncodeReply(Simple(t)) = KindLine("+", Encode(t))
  <2> DEFINE v == Simple(t)
  <2>1. ~Is(v, "error") /\ Is(v, "simple") /\ v.simple = t
    BY Kinds DEF Is
  <2> HIDE DEF v
  <2>2. EncodeReply(v) = <<"+">> \o Encode(v.simple) \o CRLF
    BY <2>1, Zenon DEF EncodeReply
  <2> QED BY <2>1, <2>2 DEF v, KindLine
<1>4. ASSUME NEW items
      PROVE  EncodeReply(Array(items)) =
               Header("*", Len(items))
                 \o FlattenSeq([i \in DOMAIN items |-> EncodeScalar(items[i])])
  <2> DEFINE v == Array(items)
  <2>1. ~Is(v, "error") /\ ~Is(v, "simple") /\ Is(v, "array") /\ v.array = items
    BY Kinds DEF Is
  <2> HIDE DEF v
  <2>2. EncodeReply(v) = <<"*">> \o Text(Len(v.array)) \o CRLF
          \o FlattenSeq([i \in DOMAIN v.array |-> EncodeScalar(v.array[i])])
    BY <2>1, Zenon DEF EncodeReply
  <2> QED BY <2>1, <2>2 DEF v, KindLine, Header
<1> QED BY <1>1, <1>2, <1>3, <1>4

(* A reply is of one of four kinds. *)
LEMMA ReplyCases ==
  ASSUME NEW a, IsReply(a)
  PROVE  \/ a = ErrorReply
         \/ IsScalar(a)
         \/ \E t \in Seq(Chars \ {"CR"}) : a = Simple(t)
         \/ \E items : /\ a = Array(items) /\ items \in Seq(ToSet(items))
                       /\ \A i \in DOMAIN items : IsScalar(items[i])
<1>1. CASE Is(a, "array") /\ a = Array(a.array)
           /\ a.array \in Seq(ToSet(a.array))
           /\ \A i \in DOMAIN a.array : IsScalar(a.array[i])
  BY <1>1, Zenon
<1>2. CASE Is(a, "simple") /\ a = Simple(a.simple) /\ a.simple \in Seq(Chars \ {"CR"})
  BY <1>2, Zenon
<1> QED BY <1>1, <1>2, Zenon DEF IsReply

(* The parts of an array. *)
LEMMA ArrayParts ==
  ASSUME NEW items, items \in Seq(ToSet(items)), \A i \in DOMAIN items : IsScalar(items[i])
  PROVE  LET parts == [i \in DOMAIN items |-> EncodeScalar(items[i])]
         IN /\ parts \in Seq(Seq(Byte)) /\ Len(parts) = Len(items)
            /\ FlattenSeq(parts) \in Seq(Byte)
            /\ EncodeReply(Array(items)) = Header("*", Len(items)) \o FlattenSeq(parts)
            /\ DOMAIN items = 1..Len(items) /\ Len(items) \in Nat
<1> DEFINE parts == [i \in DOMAIN items |-> EncodeScalar(items[i])]
<1>1. DOMAIN items = 1..Len(items) /\ Len(items) \in Nat
  OBVIOUS
<1>2. ASSUME NEW i \in DOMAIN items PROVE EncodeScalar(items[i]) \in Seq(Byte)
  <2> DEFINE m == CRLF
             v == items[i]
             s == 1
  <2>1. m \in Seq(Byte) /\ s \in Nat \ {0} /\ IsScalar(v)
    BY ProtocolBytes DEF CRLF
  <2> HIDE DEF m, v, s
  <2>2. EncodeScalar(v) \in Seq(Byte)
    BY <2>1, ScalarAt
  <2> QED BY <2>2 DEF v
<1>3. parts \in Seq(Seq(Byte)) /\ Len(parts) = Len(items)
  <2>1. parts \in [1..Len(items) -> Seq(Byte)]
    BY <1>1, <1>2
  <2> QED BY <1>1, <2>1
<1>4. EncodeReply(Array(items)) = Header("*", Len(items)) \o FlattenSeq(parts)
  BY ReplyBytesOf
<1> HIDE DEF parts
<1>5. FlattenSeq(parts) \in Seq(Byte)
  BY <1>3, FlattenType
<1> QED BY <1>1, <1>3, <1>4, <1>5 DEF parts

(* A reply is encoded as bytes, at least one. *)
LEMMA ReplyBytes ==
  ASSUME NEW a, IsReply(a)
  PROVE  EncodeReply(a) \in Seq(Byte) /\ Len(EncodeReply(a)) >= 1
<1>0. /\ "-" \in Byte /\ "+" \in Byte /\ "*" \in Byte /\ <<"ERR">> \in Seq(Byte)
  BY ProtocolBytes
<1>1. CASE a = ErrorReply
  <2> DEFINE line == <<"ERR">>
  <2>1. line \in Seq(Byte)
    BY <1>0
  <2>2. EncodeReply(a) = KindLine("-", line)
    BY <1>1, ReplyBytesOf
  <2> HIDE DEF line
  <2>3. KindLine("-", line) \in Seq(Byte) /\ Len(KindLine("-", line)) = Len(line) + 3
    BY <1>0, <2>1, KindLineSeq
  <2>4. Len(line) \in Nat
    BY <2>1
  <2> QED BY <2>2, <2>3, <2>4
<1>2. CASE IsScalar(a)
  <2> DEFINE m == CRLF
             s == 1
  <2>1. m \in Seq(Byte) /\ s \in Nat \ {0}
    BY ProtocolBytes DEF CRLF
  <2> HIDE DEF m, s
  <2>2. EncodeScalar(a) \in Seq(Byte) /\ Len(EncodeScalar(a)) >= 1
    BY <1>2, <2>1, ScalarAt
  <2> QED BY <1>2, <2>2, ReplyBytesOf
<1>3. ASSUME NEW t \in Seq(Chars \ {"CR"}), a = Simple(t)
      PROVE  EncodeReply(a) \in Seq(Byte) /\ Len(EncodeReply(a)) >= 1
  <2> DEFINE line == Encode(t)
  <2>0. t \in Seq(Chars)
    OBVIOUS
  <2>1. line \in Seq(Byte)
    BY <2>0, Utf8Facts
  <2>2. EncodeReply(a) = KindLine("+", line)
    BY <1>3, ReplyBytesOf
  <2> HIDE DEF line
  <2>3. KindLine("+", line) \in Seq(Byte) /\ Len(KindLine("+", line)) = Len(line) + 3
    BY <1>0, <2>1, KindLineSeq
  <2>4. Len(line) \in Nat
    BY <2>1
  <2> QED BY <2>2, <2>3, <2>4
<1>4. ASSUME NEW items, a = Array(items), items \in Seq(ToSet(items)),
             \A i \in DOMAIN items : IsScalar(items[i])
      PROVE  EncodeReply(a) \in Seq(Byte) /\ Len(EncodeReply(a)) >= 1
  <2> DEFINE n == Len(items)
             h == Header("*", n)
             f == FlattenSeq([i \in DOMAIN items |-> EncodeScalar(items[i])])
  <2>1. f \in Seq(Byte) /\ EncodeReply(a) = h \o f /\ n \in Int
    <3>1. f \in Seq(Byte) /\ EncodeReply(Array(items)) = h \o f /\ n \in Nat
      <4> HIDE DEF h
      <4> QED BY <1>4, ArrayParts DEF h
    <3> QED BY <1>4, <3>1
  <2> HIDE DEF n, f
  <2>2. h \in Seq(Byte) /\ Len(h) >= 1
    BY <1>0, <2>1, HeaderSeq
  <2> HIDE DEF h
  <2>3. h \o f \in Seq(Byte) /\ Len(h \o f) = Len(h) + Len(f) /\ Len(h) \in Nat /\ Len(f) \in Nat
    BY <2>1, <2>2
  <2> QED BY <2>1, <2>2, <2>3
<1> QED BY <1>1, <1>2, <1>3, <1>4, ReplyCases

(* THEOREM: the client reads back every reply that the server encodes. *)
THEOREM ReplyRoundTrip ==
  ASSUME NEW m \in Seq(Byte), NEW a, IsReply(a), Holds(m, 1, EncodeReply(a))
  PROVE  ParseReply(m) = IF a = ErrorReply THEN Refused
                         ELSE Parsed(ReadBack(a), Len(EncodeReply(a)) + 1)
<1>0. /\ "-" \in Byte /\ "+" \in Byte /\ "*" \in Byte /\ <<"ERR">> \in Seq(Byte)
      /\ 1 \in Nat \ {0} /\ 1 + 1 = 2
  BY ProtocolBytes
<1>1. PICK reply : RepliesFrom(reply, m, 1) /\ ParseReply(m) = reply[1]
  BY ReplyUnfold
<1>2. \A s \in 1..(Len(m) + 1) : reply[s] = ReplyFrom(m, s, reply)
  BY <1>1 DEF RepliesFrom
<1>3. 1 \in 1..(Len(m) + 1) /\ Len(m) \in Nat
  OBVIOUS
<1>4. ParseReply(m) = ReplyFrom(m, 1, reply)
  BY <1>1, <1>2, <1>3
<1> DEFINE one == 1
           e == EncodeReply(a)
<1>5. one \in Nat \ {0} /\ one \in 1..(Len(m) + 1) /\ Holds(m, one, e)
  BY <1>3
<1>6. CASE a = ErrorReply
  <2> DEFINE line == <<"ERR">>
             p == Parsed(line, one + Len(KindLine("-", line)))
  <2>1. line \in Seq(Byte) /\ NoCR(line)
    BY <1>0 DEF NoCR
  <2>2. e = KindLine("-", line)
    BY <1>6, ReplyBytesOf
  <2> HIDE DEF line, e, one
  <2>3. one <= Len(m) /\ m[one] = "-" /\ ReadLine(m, one + 1) = p
    BY <1>0, <1>5, <2>1, <2>2, KindLineAt
  <2>4. p.tag = "ok" /\ p.value = line
    BY Tags
  <2> HIDE DEF p
  <2>5. IsUtf8(line)
    BY CharsAssumption DEF IsUtf8, line
  <2>6. ReplyLine(m, one + 1).tag = "ok"
    <3>1. ReplyLine(m, one + 1) = Parsed(Str(Decode(p.value)), p.next)
      BY <2>3, <2>4, <2>5, Zenon DEF ReplyLine, Then
    <3> QED BY <3>1, Tags
  <2>7. ReplyFrom(m, one, reply) = Refused
    BY <1>5, <2>3, <2>6, ReplyFromIs
  <2> QED BY <1>4, <1>6, <2>7 DEF one
<1>7. CASE IsScalar(a)
  <2>1. e = EncodeScalar(a) /\ a # ErrorReply /\ ~Is(a, "simple")
    <3>1. CASE a = Null
      BY <1>7, <3>1, Kinds, ReplyBytesOf DEF Is
    <3>2. CASE \E t \in Seq(Chars) : a = Str(t)
      BY <1>7, <3>2, Kinds, ReplyBytesOf DEF Is
    <3>3. CASE \E n \in Int : a = Integer(n)
      BY <1>7, <3>3, Kinds, ReplyBytesOf DEF Is
    <3> QED BY <1>7, <3>1, <3>2, <3>3, ScalarCases
  <2>2. ReadBack(a) = a
    BY <2>1, Zenon DEF ReadBack
  <2> HIDE DEF e, one
  <2>3. ReplyFrom(m, one, reply) = Parsed(a, one + Len(e))
    BY <1>5, <1>7, <2>1, ScalarAt
  <2>4. e \in Seq(Byte) /\ Len(e) \in Nat
    <3>1. e \in Seq(Byte)
      BY ReplyBytes DEF e
    <3> QED BY <3>1
  <2>5. one + Len(e) = Len(e) + 1
    BY <2>4 DEF one
  <2> QED BY <1>4, <2>1, <2>2, <2>3, <2>5 DEF one, e
<1>8. ASSUME NEW t \in Seq(Chars \ {"CR"}), a = Simple(t)
      PROVE  /\ a # ErrorReply
             /\ ParseReply(m) = Parsed(ReadBack(a), Len(e) + 1)
  <2> DEFINE line == Encode(t)
             p == Parsed(line, one + Len(e))
             next == one + 1
  <2>0. t \in Seq(Chars) /\ NoCR(t)
    BY DEF NoCR
  <2>1. line \in Seq(Byte) /\ NoCR(line) /\ IsUtf8(line) /\ Decode(line) = t
    BY <2>0, Utf8Facts
  <2>2. e = KindLine("+", line)
    BY <1>8, ReplyBytesOf
  <2>3. a # ErrorReply /\ ReadBack(a) = Str(t)
    <3>1. Is(a, "simple") /\ a.simple = t /\ a # ErrorReply
      BY <1>8, Kinds DEF Is
    <3> QED BY <3>1, Zenon DEF ReadBack
  <2> HIDE DEF line, e, one
  <2>4. one <= Len(m) /\ m[one] = "+" /\ ReadLine(m, next) = p
    <3>1. "+" \in Byte /\ line \in Seq(Byte) /\ NoCR(line) /\ Holds(m, one, KindLine("+", line))
      BY <1>0, <1>5, <2>1, <2>2
    <3>2. /\ one <= Len(m) /\ m[one] = "+"
          /\ ReadLine(m, one + 1) = Parsed(line, one + Len(KindLine("+", line)))
      BY <1>5, <3>1, KindLineAt
    <3> QED BY <2>2, <3>2
  <2>5. p.tag = "ok" /\ p.value = line /\ p.next = one + Len(e)
    BY Tags
  <2>6. ReplyFrom(m, one, reply) = ReplyLine(m, next)
    BY <1>5, <2>4, ReplyFromIs
  <2> HIDE DEF p, next
  <2>7. ReplyLine(m, next) = IF IsUtf8(p.value) THEN Parsed(Str(Decode(p.value)), p.next)
                             ELSE Malformed
    BY <2>4, <2>5, Zenon DEF ReplyLine, Then
  <2>8. ReplyLine(m, next) = Parsed(Str(t), one + Len(e))
    BY <2>1, <2>5, <2>7
  <2>9. e \in Seq(Byte) /\ Len(e) \in Nat
    <3>1. e \in Seq(Byte)
      BY ReplyBytes DEF e
    <3> QED BY <3>1
  <2>10. one + Len(e) = Len(e) + 1
    BY <2>9 DEF one
  <2> QED BY <1>4, <2>3, <2>6, <2>8, <2>10 DEF one
<1>9. ASSUME NEW items, a = Array(items), items \in Seq(ToSet(items)),
             \A i \in DOMAIN items : IsScalar(items[i])
      PROVE  /\ a # ErrorReply
             /\ ParseReply(m) = Parsed(ReadBack(a), Len(e) + 1)
  <2> DEFINE n == Len(items)
             parts == [i \in DOMAIN items |-> EncodeScalar(items[i])]
             h == Header("*", n)
             f == FlattenSeq(parts)
             next == one + Len(h)
             last == one + 1
             p == Parsed(n, next)
             end == next + Len(f)
             q == Parsed(items, end)
  <2>1. /\ parts \in Seq(Seq(Byte)) /\ Len(parts) = Len(items) /\ f \in Seq(Byte)
        /\ e = h \o f /\ DOMAIN items = 1..Len(items) /\ n \in Nat
    BY <1>9, ArrayParts
  <2>2. a # ErrorReply /\ ReadBack(a) = a
    <3>1. ~Is(a, "simple") /\ a # ErrorReply
      BY <1>9, Kinds DEF Is
    <3> QED BY <3>1, Zenon DEF ReadBack
  <2>3. Reads(m, reply, parts, items)
    <3> SUFFICES ASSUME NEW i \in 1..Len(items), NEW s \in Nat \ {0}, Holds(m, s, parts[i])
                 PROVE  reply[s] = Parsed(items[i], s + Len(parts[i]))
      BY <2>1 DEF Reads
    <3> DEFINE v == items[i]
    <3>1. parts[i] = EncodeScalar(v) /\ IsScalar(v)
      BY <1>9, <2>1
    <3> HIDE DEF parts, v
    <3>2. s <= Len(m) /\ ReplyFrom(m, s, reply) = Parsed(v, s + Len(EncodeScalar(v)))
      BY <3>1, ScalarAt
    <3>3. s \in 1..(Len(m) + 1)
      BY <3>2
    <3>4. reply[s] = ReplyFrom(m, s, reply)
      BY <1>2, <3>3
    <3> QED BY <3>1, <3>2, <3>4 DEF v
  <2>4. n \in Int /\ n >= 0 /\ 0 \in Int
    BY <2>1
  <2> HIDE DEF n, f, parts, e, one
  <2>5. h \in Seq(Byte)
    BY <1>0, <2>4, HeaderSeq
  <2> HIDE DEF h
  <2>6. /\ Holds(m, one, h) /\ Holds(m, next, f) /\ next \in Nat \ {0}
        /\ Len(h \o f) = Len(h) + Len(f)
    <3>1. Holds(m, one, h \o f)
      BY <1>5, <2>1
    <3> QED BY <1>5, <2>1, <2>5, <3>1, HoldsConcat
  <2>7. one <= Len(m) /\ m[one] = "*" /\ ReadInt(m, last, 0) = p
    BY <1>0, <1>5, <2>4, <2>6, HeaderAt DEF h
  <2>8. Items(n, next, reply) = q
    <3> HIDE DEF next
    <3>1. Items(Len(items), next, reply) = Parsed(items, next + Len(FlattenSeq(parts)))
      BY <1>9, <2>1, <2>3, <2>6, ItemsAt DEF f
    <3> QED BY <3>1 DEF n, f
  <2>9. ReplyFrom(m, one, reply) = ReplyArray(m, last, reply)
    BY <1>5, <2>7, ReplyFromIs
  <2>10. /\ p.tag = "ok" /\ p.value = n /\ p.next = next
         /\ q.tag = "ok" /\ q.value = items /\ q.next = end
    BY Tags
  <2>11. end = Len(e) + 1
    <3>1. Len(h) \in Nat /\ Len(f) \in Nat
      BY <2>1, <2>5
    <3> QED BY <2>1, <2>6, <3>1 DEF one
  <2> HIDE DEF p, q, last, next, end
  <2>12. ReplyArray(m, last, reply) =
           Then(Items(p.value, p.next, reply), LAMBDA its, nxt : Parsed(Array(its), nxt))
    BY <2>7, <2>10, Zenon DEF ReplyArray, Then
  <2>13. Items(p.value, p.next, reply) = q
    BY <2>8, <2>10
  <2>14. ReplyArray(m, last, reply) = Parsed(Array(q.value), q.next)
    BY <2>10, <2>12, <2>13, Zenon DEF Then
  <2> QED BY <1>4, <1>9, <2>2, <2>9, <2>10, <2>11, <2>14 DEF one
<1> QED BY <1>6, <1>7, <1>8, <1>9, ReplyCases DEF e

-----------------------------------------------------------------------------
(* Streams of encoded values *)

(* The bytes at the start of a stream. *)
LEMMA HoldsFirst ==
  ASSUME NEW a \in Seq(Byte), NEW r \in Seq(Byte)
  PROVE  Holds(a \o r, 1, a) /\ a \o r \in Seq(Byte)
<1> DEFINE m == a \o r
<1>1. m \in Seq(Byte) /\ Len(m) = Len(a) + Len(r) /\ Len(a) \in Nat /\ Len(r) \in Nat
      /\ \A i \in 1..Len(a) : m[i] = a[i]
  OBVIOUS
<1>2. ASSUME NEW i \in 1..Len(a) PROVE m[1 + i - 1] = a[i]
  BY <1>1, 1 + i - 1 = i
<1> HIDE DEF m
<1>3. Holds(m, 1, a)
  BY <1>1, <1>2 DEF Holds
<1> QED BY <1>1, <1>3 DEF m

(* A command at the start of a buffer is parsed, whatever follows it. *)
LEMMA CommandFirst ==
  ASSUME NEW c \in Seq(Seq(Chars)), NEW r \in Seq(Byte)
  PROVE  /\ ParseFrame(EncodeCommand(c) \o r) = Parsed(c, Len(EncodeCommand(c)) + 1)
         /\ EncodeCommand(c) \in Seq(Byte) /\ EncodeCommand(c) # <<>>
<1> DEFINE e == EncodeCommand(c)
           m == e \o r
<1>1. e \in Seq(Byte) /\ e # <<>>
  BY CommandParts
<1> HIDE DEF e
<1>2. m \in Seq(Byte) /\ Holds(m, 1, e)
  BY <1>1, HoldsFirst
<1> HIDE DEF m
<1>3. ParseFrame(m) = Parsed(c, Len(e) + 1)
  BY <1>2, CommandRoundTrip DEF e
<1> QED BY <1>1, <1>3 DEF e, m

(* A reply at the start of a buffer is parsed, whatever follows it. *)
LEMMA ReplyFirst ==
  ASSUME NEW a, IsReply(a), NEW r \in Seq(Byte)
  PROVE  ParseReply(EncodeReply(a) \o r) =
           IF a = ErrorReply THEN Refused ELSE Parsed(ReadBack(a), Len(EncodeReply(a)) + 1)
<1> DEFINE e == EncodeReply(a)
           m == e \o r
<1>1. e \in Seq(Byte)
  BY ReplyBytes
<1> HIDE DEF e
<1>2. m \in Seq(Byte) /\ Holds(m, 1, e)
  BY <1>1, HoldsFirst
<1> HIDE DEF m
<1>3. ParseReply(m) = IF a = ErrorReply THEN Refused ELSE Parsed(ReadBack(a), Len(e) + 1)
  BY <1>2, ReplyRoundTrip DEF e
<1> QED BY <1>3 DEF e, m

(* A part of a reply makes the client wait for the rest. *)
LEMMA ReplyPart ==
  ASSUME NEW a, IsReply(a), NEW m \in Seq(Byte), NEW r \in Seq(Byte), r # <<>>,
         EncodeReply(a) = m \o r
  PROVE  ParseReply(m) = Incomplete
<1> DEFINE e == EncodeReply(a)
<1>1. e \in Seq(Byte)
  BY ReplyBytes
<1>2. Len(e) = Len(m) + Len(r) /\ Len(m) \in Nat /\ Len(r) \in Nat /\ Len(r) > 0
  OBVIOUS
<1>3. CASE a # ErrorReply
  <2> SUFFICES ASSUME ParseReply(m) # Incomplete PROVE FALSE
    OBVIOUS
  <2>1. ParseReply(m \o r) = ParseReply(m) /\ Outcome(ParseReply(m), 2, Len(m) + 1)
    BY ReplyStable
  <2> DEFINE o == <<>>
             p == Parsed(ReadBack(a), Len(e) + 1)
  <2>2. ParseReply(e) = p
    <3>1. o \in Seq(Byte) /\ e \o o = e
      BY <1>1
    <3> HIDE DEF o
    <3> QED BY <1>3, <3>1, ReplyFirst
  <2>3. p.tag = "ok" /\ p.next = Len(e) + 1 /\ p \notin {Incomplete, Malformed, Refused}
    BY Tags
  <2> HIDE DEF p, e
  <2>4. p.next \in 2..(Len(m) + 1)
    BY <2>1, <2>2, <2>3 DEF Outcome, e
  <2> QED BY <1>2, <2>3, <2>4
<1>4. CASE a = ErrorReply
  <2>1. PICK reply : RepliesFrom(reply, m, 1) /\ ParseReply(m) = reply[1]
    BY ReplyUnfold
  <2>2. ParseReply(m) = ReplyFrom(m, 1, reply)
    <3>1. 1 \in 1..(Len(m) + 1)
      BY <1>2
    <3> QED BY <2>1, <3>1 DEF RepliesFrom
  <2>4. Len(e) = 4 /\ e[1] = "-" /\ e[2] = "ERR"
    <3> DEFINE k == <<"-">>
               line == <<"ERR">>
               tc == line \o CRLF
    <3>1. /\ "-" \in Byte /\ k \in Seq(Byte) /\ Len(k) = 1 /\ k[1] = "-"
          /\ line \in Seq(Byte) /\ Len(line) = 1 /\ line[1] = "ERR"
      BY ProtocolBytes
    <3>2. e = KindLine("-", line)
      BY <1>4, ReplyBytesOf
    <3>3. CRLF \in Seq(Byte) /\ Len(CRLF) = 2
      BY ProtocolBytes DEF CRLF
    <3> HIDE DEF e, line
    <3>4. Len(e) = Len(line) + 3 /\ e = k \o tc
      BY <3>1, <3>2, KindLineSeq
    <3> HIDE DEF k
    <3>5. tc \in Seq(Byte) /\ Len(tc) = Len(line) + Len(CRLF)
      BY ONLY <3>1, <3>3, ConcatLen
    <3>6. tc[1] = "ERR"
      BY <3>1, <3>3
    <3> HIDE DEF tc
    <3>7. (k \o tc)[1] = k[1] /\ (k \o tc)[2] = tc[1]
      <4>1. k \in Seq(Byte) /\ tc \in Seq(Byte) /\ Len(k) = 1 /\ Len(tc) = 3
        BY <3>1, <3>3, <3>5
      <4>2. /\ \A i \in 1..Len(k) : (k \o tc)[i] = k[i]
            /\ \A i \in 1..Len(tc) : (k \o tc)[Len(k) + i] = tc[i]
        <5>1. k \in Seq(Byte) /\ tc \in Seq(Byte)
          BY <4>1
        <5> QED BY ONLY <5>1, ConcatElements
      <4>3. 1 \in 1..Len(k) /\ 1 \in 1..Len(tc) /\ Len(k) + 1 = 2
        BY ONLY <4>1
      <4> QED BY ONLY <4>2, <4>3
    <3> QED BY <3>1, <3>4, <3>6, <3>7
  <2>5. \A i \in 1..Len(m) : m[i] = e[i]
    OBVIOUS
  <2> HIDE DEF e
  <2> DEFINE one == 1
             next == one + 1
  <2>6. one \in 1..(Len(m) + 1)
    BY <1>2
  <2>7. CASE m = <<>>
    <3>1. one > Len(m)
      BY <2>7
    <3> HIDE DEF one
    <3>2. ReplyFrom(m, one, reply) = Incomplete
      BY <2>6, <3>1, ReplyFromIs
    <3> QED BY <2>2, <3>2 DEF one
  <2>8. CASE m # <<>>
    <3>0. Len(m) # 0
      BY <2>8
    <3> DEFINE n == Len(m)
               k == Len(r)
    <3>9. n \in Nat /\ k \in Nat /\ k > 0 /\ n # 0 /\ 4 = n + k
      BY <1>2, <2>4, <3>0
    <3> HIDE DEF n, k
    <3>8. n \in 1..3
      BY ONLY <3>9
    <3>1. Len(m) \in 1..3
      BY <3>8 DEF n
    <3>2. one <= Len(m) /\ m[one] = "-"
      <4>1. 1 \in 1..Len(m)
        BY ONLY <3>1
      <4> QED BY ONLY <2>4, <2>5, <3>1, <4>1
    <3>3. \A i \in next..(Len(m) - 1) : ~EndsLine(m, i)
      <4> SUFFICES ASSUME NEW i \in next..(Len(m) - 1) PROVE ~EndsLine(m, i)
        OBVIOUS
      <4>1. i = 2 /\ i \in 1..Len(m)
        <5>1. i \in 2..(Len(m) - 1)
          OBVIOUS
        <5>2. i \in 2..(n - 1)
          BY <5>1 DEF n
        <5>3. i = 2 /\ i \in 1..n
          BY ONLY <3>8, <5>2
        <5> QED BY <5>3 DEF n
      <4>2. m[i] = "ERR"
        BY <2>4, <2>5, <4>1
      <4> QED BY <4>2 DEF EndsLine
    <3> HIDE DEF one
    <3>4. ReadLine(m, next) = Incomplete
      BY <3>3, Zenon DEF ReadLine
    <3>5. ReplyFrom(m, one, reply) =
            IF ReplyLine(m, next).tag = "ok" THEN Refused ELSE ReplyLine(m, next)
      BY <2>6, <3>2, ReplyFromIs
    <3>6. ReplyLine(m, next) = Incomplete
      <4>1. Incomplete.tag # "ok"
        BY Tags
      <4> QED BY <3>4, <4>1, Zenon DEF ReplyLine, Then
    <3>7. ReplyFrom(m, one, reply) = Incomplete
      BY <3>5, <3>6, Tags
    <3> QED BY <2>2, <3>7 DEF one
  <2> QED BY <2>7, <2>8
<1> QED BY <1>3, <1>4
=============================================================================
