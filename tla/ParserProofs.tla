---------------------------- MODULE ParserProofs ----------------------------
(***************************************************************************)
(* What is proved about HttpParser and HttpResponseParser: for every       *)
(* message built from the lines and bodies of the constants, and however   *)
(* it is cut into chunks, consume() answers by what has arrived, what is   *)
(* parsed is what was sent, and what is relayed is framed.                 *)
(*                                                                         *)
(* The lemmas come in this order: induction over a number, FlattenSeq,     *)
(* parts of sequences, the layout of a message, header lines and the       *)
(* length they announce, the inductive invariant ParserInv and every       *)
(* action's part in it, and the theorems.                                  *)
(***************************************************************************)
EXTENDS HttpParser, NaturalsInduction, SequenceTheorems, WellFoundedInduction, TLAPS

\* A set of numbers that is not empty has a least element.
LEMMA LeastNumber ==
  ASSUME NEW S, S \subseteq Nat, S # {}
  PROVE  \E x \in S : \A y \in S : x <= y
<1> DEFINE R == OpToRel(<, Nat)
<1>1. PICK x \in S : \A y \in S : ~(<<y, x>> \in R)
  <2>1. IsWellFoundedOn(R, Nat)
    BY NatLessThanWellFounded
  <2> HIDE DEF R
  <2> QED
    BY <2>1, WFMin
<1>2. ASSUME NEW y \in S PROVE ~(y < x)
  <2>1. y \in Nat /\ x \in Nat /\ <<y, x>> \in Nat \X Nat
    OBVIOUS
  <2>2. <<y, x>>[1] = y /\ <<y, x>>[2] = x
    OBVIOUS
  <2> QED
    BY <1>1, <2>1, <2>2, Zenon DEF OpToRel
<1>3. QED
  BY <1>2

\* Induction over the numbers up to n, for the set of those that have a property.
LEMMA InductionUpTo ==
  ASSUME NEW n \in Nat, NEW G, 0 \in G, \A k \in 0..(n - 1) : k \in G => k + 1 \in G
  PROVE  0..n \subseteq G
<1> DEFINE Bad == {k \in 0..n : k \notin G}
<1>1. SUFFICES ASSUME Bad # {} PROVE FALSE
  OBVIOUS
<1>2. Bad \subseteq Nat
  OBVIOUS
<1>3. PICK k \in Bad : \A j \in Bad : k <= j
  <2> HIDE DEF Bad
  <2> QED
    BY <1>1, <1>2, LeastNumber
<1>4. k # 0 /\ k \in 1..n
  OBVIOUS
<1>5. k - 1 \in 0..(n - 1) /\ k - 1 \in G
  BY <1>3, <1>4
<1>6. QED
  BY <1>3, <1>5

-----------------------------------------------------------------------------
(* FlattenSeq *)

\* How FlattenSeq builds its result: g[k] is the concatenation of the first k elements.
Concats(g, s, n) == \A k \in 1..n : g[k] = IF k = 1 THEN s[k] ELSE g[k - 1] \o s[k]

\* There is such a g.
LEMMA ConcatsExist ==
  ASSUME NEW T, NEW n \in Nat, NEW s \in [1..n -> Seq(T)]
  PROVE  \E g \in [1..n -> Seq(T)] : Concats(g, s, n)
<1> DEFINE G == {k \in 0..n : \E g \in [1..k -> Seq(T)] : Concats(g, s, k)}
<1>1. 0 \in G
  <2>1. \E g : g \in [1..0 -> Seq(T)]
    <3>1. [j \in 1..0 |-> <<>>] \in [1..0 -> Seq(T)]
      OBVIOUS
    <3> QED
      BY <3>1
  <2>2. \A g : Concats(g, s, 0)
    BY DEF Concats
  <2>3. 0 \in 0..n
    OBVIOUS
  <2> QED
    BY <2>1, <2>2, <2>3, Zenon
<1>2. ASSUME NEW k \in 0..(n - 1), k \in G PROVE k + 1 \in G
  <2>1. PICK g \in [1..k -> Seq(T)] : Concats(g, s, k)
    BY <1>2
  <2> DEFINE e == IF k = 0 THEN s[k + 1] ELSE g[k] \o s[k + 1]
             h == [j \in 1..(k + 1) |-> IF j = k + 1 THEN e ELSE g[j]]
  <2>2. e \in Seq(T)
    <3>1. s[k + 1] \in Seq(T) /\ (k # 0 => g[k] \in Seq(T))
      OBVIOUS
    <3>2. \A a, b \in Seq(T) : a \o b \in Seq(T)
      OBVIOUS
    <3> QED
      BY <3>1, <3>2
  <2>3. h \in [1..(k + 1) -> Seq(T)]
    <3> HIDE DEF e
    <3> QED
      BY <2>2
  <2>4. Concats(h, s, k + 1)
    <3>1. h[k + 1] = e /\ \A j \in 1..k : h[j] = g[j]
      <4> HIDE DEF e
      <4> QED
        OBVIOUS
    <3> HIDE DEF h
    <3>2. ASSUME NEW j \in 1..(k + 1)
          PROVE  h[j] = IF j = 1 THEN s[j] ELSE h[j - 1] \o s[j]
      <4>1. CASE j = k + 1
        <5>1. k # 0 => h[k] = g[k]
          BY <3>1
        <5> QED
          BY <3>1, <4>1, <5>1
      <4>2. CASE j \in 1..k
        <5>1. j # 1 => j - 1 \in 1..k
          BY <4>2
        <5> QED
          BY <2>1, <3>1, <4>2, <5>1 DEF Concats
      <4> QED
        BY <4>1, <4>2
    <3> QED
      BY <3>2 DEF Concats
  <2> HIDE DEF h
  <2> QED
    BY <2>3, <2>4
<1>3. 0..n \subseteq G
  <2> HIDE DEF G
  <2> QED
    BY <1>1, <1>2, InductionUpTo
<1>4. QED
  BY <1>3

\* It is determined by s.
LEMMA ConcatsUnique ==
  ASSUME NEW n \in Nat, NEW s, NEW g, NEW h, Concats(g, s, n), Concats(h, s, n)
  PROVE  \A k \in 1..n : g[k] = h[k]
<1> DEFINE G == {k \in 0..n : k = 0 \/ g[k] = h[k]}
<1>1. 0 \in G
  OBVIOUS
<1>2. ASSUME NEW k \in 0..(n - 1), k \in G PROVE k + 1 \in G
  <2>1. CASE k = 0
    BY <2>1 DEF Concats
  <2>2. CASE k # 0
    <3>1. /\ k + 1 \in 1..n /\ k + 1 # 1 /\ (k + 1) - 1 = k
          /\ g[k] = h[k]
      BY <1>2, <2>2
    <3>2. g[k + 1] = g[k] \o s[k + 1] /\ h[k + 1] = h[k] \o s[k + 1]
      BY <3>1 DEF Concats
    <3>3. g[k + 1] = h[k + 1]
      BY <3>1, <3>2, Zenon
    <3> QED
      BY <3>1, <3>3
  <2> QED
    BY <2>1, <2>2
<1>3. 0..n \subseteq G
  <2> HIDE DEF G
  <2> QED
    BY <1>1, <1>2, InductionUpTo
<1>4. QED
  BY <1>3

\* FlattenSeq concatenates: of no sequence it is empty, and one more adds that one.
LEMMA FlattenSteps ==
  ASSUME NEW T, NEW n \in Nat, NEW s \in [1..n -> Seq(T)]
  PROVE  LET F(i) == FlattenSeq([j \in 1..i |-> s[j]])
         IN  /\ F(0) = <<>>
             /\ \A i \in 0..n : F(i) \in Seq(T)
             /\ \A i \in 0..(n - 1) : F(i + 1) = F(i) \o s[i + 1]
<1> DEFINE F(i) == FlattenSeq([j \in 1..i |-> s[j]])
<1>1. PICK g \in [1..n -> Seq(T)] : Concats(g, s, n)
  BY ConcatsExist
<1>2. F(0) = <<>>
  <2>1. [j \in 1..0 |-> s[j]] = <<>>
    OBVIOUS
  <2> QED
    BY <2>1 DEF FlattenSeq
<1>3. ASSUME NEW i \in 1..n PROVE F(i) = g[i]
  <2> DEFINE t == [j \in 1..i |-> s[j]]
             Def(h) == [k \in 1..i |-> IF k = 1 THEN t[k] ELSE h[k - 1] \o t[k]]
             c == CHOOSE h : h = Def(h)
  <2>1. t \in Seq(Seq(T)) /\ Len(t) = i
    OBVIOUS
  <2>2. F(i) = c[i]
    <3> HIDE DEF t
    <3>1. Len(t) # 0 /\ i \in Nat
      BY <2>1
    <3>2. FlattenSeq(t) = (CHOOSE h : h = [k \in 1..Len(t) |->
                                IF k = 1 THEN t[k] ELSE h[k - 1] \o t[k]])[Len(t)]
      BY <3>1 DEF FlattenSeq
    <3> QED
      BY <2>1, <3>2 DEF t
  <2>3. c = Def(c)
    <3> DEFINE r == [k \in 1..i |-> g[k]]
    <3>1. ASSUME NEW k \in 1..i PROVE r[k] = IF k = 1 THEN t[k] ELSE r[k - 1] \o t[k]
      <4>1. k \in 1..n /\ t[k] = s[k] /\ (k # 1 => k - 1 \in 1..i)
        OBVIOUS
      <4> QED
        BY <1>1, <4>1 DEF Concats
    <3>2. r = Def(r)
      <4> HIDE DEF r, t
      <4>1. r = [k \in 1..i |-> r[k]]
        BY DEF r
      <4> QED
        BY <3>1, <4>1
    <3> HIDE DEF Def, r, t
    <3> QED
      BY <3>2, Zenon
  <2>4. Concats(c, t, i)
    <3> HIDE DEF c, t
    <3> QED
      BY <2>3 DEF Concats
  <2>5. Concats(g, t, i)
    <3>1. \A k \in 1..i : k \in 1..n /\ t[k] = s[k]
      OBVIOUS
    <3> HIDE DEF t
    <3> QED
      BY <1>1, <3>1 DEF Concats
  <2>6. c[i] = g[i]
    <3> HIDE DEF c, t
    <3> QED
      BY <2>4, <2>5, ConcatsUnique
  <2> QED
    BY <2>2, <2>6
<1> HIDE DEF F
<1>4. ASSUME NEW i \in 0..(n - 1) PROVE F(i + 1) = F(i) \o s[i + 1]
  <2>1. CASE i = 0
    <3>1. F(1) = s[1]
      BY <1>1, <1>3, <2>1 DEF Concats
    <3>2. s[1] \in Seq(T)
      BY <2>1
    <3>3. <<>> \o s[1] = s[1]
      BY <3>2
    <3> QED
      BY <1>2, <2>1, <3>1, <3>3
  <2>2. CASE i # 0
    <3>1. i \in 1..n /\ i + 1 \in 1..n /\ (i + 1) - 1 = i /\ i + 1 # 1
      BY <2>2
    <3> QED
      BY <1>1, <1>3, <3>1 DEF Concats
  <2> QED
    BY <2>1, <2>2
<1>5. ASSUME NEW i \in 0..n PROVE F(i) \in Seq(T)
  <2>1. CASE i = 0
    <3>1. F(i) = <<>>
      BY <1>2, <2>1, Zenon
    <3> QED
      BY <3>1
  <2>2. CASE i # 0
    BY <1>3, <2>2
  <2> QED
    BY <2>1, <2>2
<1>6. QED
  BY <1>2, <1>4, <1>5 DEF F

\* Concatenation, element by element.
LEMMA ConcatElements ==
  ASSUME NEW T, NEW a \in Seq(T), NEW b \in Seq(T)
  PROVE  /\ a \o b \in Seq(T)
         /\ Len(a \o b) = Len(a) + Len(b)
         /\ \A p \in 1..Len(a) : (a \o b)[p] = a[p]
         /\ \A p \in 1..Len(b) : (a \o b)[Len(a) + p] = b[p]
OBVIOUS

\* A part of a sequence, element by element.
LEMMA SubSeqElements ==
  ASSUME NEW T, NEW s \in Seq(T), NEW o \in Nat, NEW f \in o..Len(s)
  PROVE  /\ SubSeq(s, o + 1, f) \in Seq(T)
         /\ Len(SubSeq(s, o + 1, f)) = f - o
         /\ \A p \in 1..(f - o) : SubSeq(s, o + 1, f)[p] = s[o + p]
OBVIOUS

\* Two sequences of the same length with the same elements are the same.
LEMMA SameElements ==
  ASSUME NEW T, NEW a \in Seq(T), NEW b \in Seq(T), Len(a) = Len(b),
         \A p \in 1..Len(a) : a[p] = b[p]
  PROVE  a = b
OBVIOUS

\* A part of a part.
LEMMA PartOfPart ==
  ASSUME NEW T, NEW s \in Seq(T), NEW o \in Nat, NEW f \in o..Len(s), NEW q \in 0..(f - o)
  PROVE  SubSeq(SubSeq(s, o + 1, f), q + 1, f - o) = SubSeq(s, o + q + 1, f)
<1> DEFINE b == SubSeq(s, o + 1, f)
           x == SubSeq(b, q + 1, f - o)
           y == SubSeq(s, (o + q) + 1, f)
<1>1. b \in Seq(T) /\ Len(b) = f - o /\ \A p \in 1..(f - o) : b[p] = s[o + p]
  BY SubSeqElements
<1> HIDE DEF b
<1>2. x \in Seq(T) /\ Len(x) = (f - o) - q /\ \A p \in 1..((f - o) - q) : x[p] = b[q + p]
  BY <1>1, SubSeqElements
<1>3. o + q \in Nat /\ f \in (o + q)..Len(s)
  OBVIOUS
<1>4. y \in Seq(T) /\ Len(y) = f - (o + q) /\ \A p \in 1..(f - (o + q)) : y[p] = s[(o + q) + p]
  BY <1>3, SubSeqElements
<1> HIDE DEF x, y
<1>5. ASSUME NEW p \in 1..Len(x) PROVE x[p] = y[p]
  <2>1. p \in 1..((f - o) - q) /\ q + p \in 1..(f - o) /\ o + (q + p) = (o + q) + p
    BY <1>2
  <2> QED
    BY <1>1, <1>2, <1>4, <2>1
<1>6. Len(x) = Len(y)
  BY <1>2, <1>4
<1>7. x = y
  BY <1>2, <1>4, <1>5, <1>6, SameElements
<1>8. QED
  BY <1>7 DEF x, y, b

\* Two parts that follow each other.
LEMMA SubSeqsJoin ==
  ASSUME NEW T, NEW s \in Seq(T), NEW o \in Nat, NEW f \in Nat, NEW n \in Nat,
         o <= f, f + n <= Len(s)
  PROVE  /\ o <= f + n
         /\ SubSeq(s, o + 1, f) \o SubSeq(s, f + 1, f + n) = SubSeq(s, o + 1, f + n)
<1> DEFINE a == SubSeq(s, o + 1, f)
           b == SubSeq(s, f + 1, f + n)
           c == SubSeq(s, o + 1, f + n)
<1>1. a \in Seq(T) /\ Len(a) = f - o /\ \A p \in 1..(f - o) : a[p] = s[o + p]
  BY SubSeqElements
<1>2. b \in Seq(T) /\ Len(b) = (f + n) - f /\ \A p \in 1..((f + n) - f) : b[p] = s[f + p]
  BY SubSeqElements
<1>3. c \in Seq(T) /\ Len(c) = (f + n) - o /\ \A p \in 1..((f + n) - o) : c[p] = s[o + p]
  BY SubSeqElements
<1>0. \A x, y \in Seq(T) :
        /\ x \o y \in Seq(T) /\ Len(x \o y) = Len(x) + Len(y)
        /\ \A p \in 1..Len(x) : (x \o y)[p] = x[p]
        /\ \A p \in 1..Len(y) : (x \o y)[Len(x) + p] = y[p]
  BY ConcatElements
<1> HIDE DEF a, b, c
<1>4. /\ a \o b \in Seq(T) /\ Len(a \o b) = Len(a) + Len(b)
      /\ \A p \in 1..Len(a) : (a \o b)[p] = a[p]
      /\ \A p \in 1..Len(b) : (a \o b)[Len(a) + p] = b[p]
  BY <1>0, <1>1, <1>2, Zenon
<1> DEFINE d == a \o b
<1> HIDE DEF d
<1>5. /\ d \in Seq(T) /\ Len(d) = Len(a) + Len(b)
      /\ \A p \in 1..Len(a) : d[p] = a[p]
      /\ \A p \in 1..Len(b) : d[Len(a) + p] = b[p]
  BY <1>4 DEF d
<1>6. Len(d) = Len(c)
  BY <1>1, <1>2, <1>3, <1>5
<1>7. ASSUME NEW p \in 1..Len(d) PROVE d[p] = c[p]
  <2>0. p \in 1..((f + n) - o)
    BY <1>3, <1>6
  <2>1. CASE p <= f - o
    BY <1>1, <1>3, <1>5, <2>0, <2>1
  <2>2. CASE p > f - o
    <3>1. /\ p - (f - o) \in 1..Len(b) /\ p - (f - o) \in 1..((f + n) - f)
          /\ Len(a) + (p - (f - o)) = p /\ f + (p - (f - o)) = o + p
      BY <1>1, <1>2, <2>0, <2>2
    <3>2. d[Len(a) + (p - (f - o))] = b[p - (f - o)] /\ b[p - (f - o)] = s[f + (p - (f - o))]
      BY <1>2, <1>5, <3>1
    <3> QED
      BY <1>3, <2>0, <3>1, <3>2
  <2> QED
    BY <2>0, <2>1, <2>2
<1>8. d = c
  BY <1>3, <1>5, <1>6, <1>7, SameElements
<1>9. QED
  BY <1>8 DEF a, b, c, d

\* How to recognise a minimum.
LEMMA MinIs ==
  ASSUME NEW S, S \subseteq Int, NEW x \in S, \A y \in S : x <= y
  PROVE  Min(S) = x
<1>1. \E z \in S : \A y \in S : z <= y
  OBVIOUS
<1>2. Min(S) \in S /\ \A y \in S : Min(S) <= y
  BY <1>1, Zenon DEF Min
<1>3. \A z \in S : (\A y \in S : z <= y) => z = x
  OBVIOUS
<1> QED
  BY <1>2, <1>3, Zenon

\* How to recognise a maximum.
LEMMA MaxIs ==
  ASSUME NEW S, S \subseteq Int, NEW x \in S, \A y \in S : y <= x
  PROVE  Max(S) = x
<1>1. \E z \in S : \A y \in S : z >= y
  OBVIOUS
<1>2. Max(S) \in S /\ \A y \in S : Max(S) >= y
  BY <1>1, Zenon DEF Max
<1>3. \A z \in S : (\A y \in S : z >= y) => z = x
  OBVIOUS
<1> QED
  BY <1>2, <1>3, Zenon

-----------------------------------------------------------------------------
(* Lines *)

\* CRLF is two symbols.
LEMMA CrlfType ==
  /\ CRLF \in Seq(Symbols) /\ Len(CRLF) = 2
  /\ CRLF[1] = "CR" /\ CRLF[2] = "LF"
<1>1. "CR" \in Symbols /\ "LF" \in Symbols
  BY DEF Symbols, CRLF, Range
<1>2. CRLF \in Seq(Symbols)
  BY <1>1 DEF CRLF
<1>3. Len(CRLF) = 2
  BY DEF CRLF
<1>4. CRLF[1] = "CR" /\ CRLF[2] = "LF"
  BY DEF CRLF
<1> QED
  BY <1>2, <1>3, <1>4

\* Where a CRLF is.
LEMMA CrlfAt ==
  ASSUME NEW s \in Seq(Symbols), NEW i \in Int
  PROVE  i \in LineEnds(s) <=> i \in 1..(Len(s) - 1) /\ s[i] = "CR" /\ s[i + 1] = "LF"
<1>1. SUFFICES ASSUME i \in 1..(Len(s) - 1)
               PROVE  SubSeq(s, i, i + 1) = CRLF <=> s[i] = "CR" /\ s[i + 1] = "LF"
  BY DEF LineEnds
<1> DEFINE b == SubSeq(s, (i - 1) + 1, i + 1)
<1>2. b \in Seq(Symbols) /\ Len(b) = 2 /\ b[1] = s[i] /\ b[2] = s[i + 1]
  <2>1. i - 1 \in Nat /\ i + 1 \in (i - 1)..Len(s) /\ (i + 1) - (i - 1) = 2
    BY <1>1
  <2>2. b \in Seq(Symbols) /\ Len(b) = 2 /\ \A p \in 1..2 : b[p] = s[(i - 1) + p]
    BY <2>1, SubSeqElements
  <2> HIDE DEF b
  <2> QED
    BY <2>2
<1>3. b = SubSeq(s, i, i + 1)
  OBVIOUS
<1> HIDE DEF b
<1>4. CRLF \in Seq(Symbols) /\ Len(CRLF) = 2 /\ CRLF[1] = "CR" /\ CRLF[2] = "LF"
  BY CrlfType
<1>5. b[1] = "CR" /\ b[2] = "LF" => b = CRLF
  BY <1>2, <1>4, SameElements
<1>6. QED
  BY <1>2, <1>3, <1>4, <1>5

\* At offset o of w there is the line, with its CRLF.
LineAt(w, o, line) ==
    /\ o + Len(line) + 2 <= Len(w)
    /\ \A p \in 1..Len(line) : w[o + p] = line[p]
    /\ w[o + Len(line) + 1] = "CR"
    /\ w[o + Len(line) + 2] = "LF"

\* extractLine() finds a line of the message as soon as it has arrived with its CRLF,
\* and that line only.
LEMMA ExtractLine ==
  ASSUME NEW w \in Seq(Symbols), NEW o \in Nat, NEW f \in o..Len(w),
         NEW line \in Seq(Symbols), LineEnds(line) = {}, LineAt(w, o, line)
  PROVE  LET b == SubSeq(w, o + 1, f)
         IN  /\ LineEnds(b) # {} <=> o + Len(line) + 2 <= f
             /\ o + Len(line) + 2 <= f =>
                  /\ Line(b) = line
                  /\ AfterLine(b) = SubSeq(w, o + Len(line) + 3, f)
<1> DEFINE b == SubSeq(w, o + 1, f)
           n == Len(line)
<1>1. b \in Seq(Symbols) /\ Len(b) = f - o /\ \A p \in 1..(f - o) : b[p] = w[o + p]
  BY SubSeqElements
<1>n. n \in Nat
  OBVIOUS
<1> HIDE DEF b
<1>2. ASSUME NEW i \in LineEnds(b) PROVE i \in 1..(Len(b) - 1) /\ n + 1 <= i
  <2>1. i \in 1..((f - o) - 1) /\ b[i] = "CR" /\ b[i + 1] = "LF" /\ i \in Int
    <3>1. i \in Int
      BY <1>1 DEF LineEnds
    <3> QED
      BY <1>1, <3>1, CrlfAt
  <2>2. SUFFICES ASSUME i <= n PROVE FALSE
    BY <1>1, <2>1
  <2>3. w[o + i] = line[i]
    BY <2>1, <2>2 DEF LineAt
  <2>4. CASE i = n
    <3>1. w[o + (i + 1)] = "CR"
      BY <2>4 DEF LineAt
    <3>2. i + 1 \in 1..(f - o)
      BY <2>1
    <3> QED
      BY <1>1, <2>1, <3>1, <3>2
  <2>5. CASE i < n
    <3>1. i + 1 \in 1..n /\ i + 1 \in 1..(f - o) /\ i \in 1..(f - o)
      BY <2>1, <2>5
    <3>2. w[o + (i + 1)] = line[i + 1]
      BY <3>1 DEF LineAt
    <3>3. line[i] = "CR" /\ line[i + 1] = "LF"
      BY <1>1, <2>1, <2>3, <3>1, <3>2
    <3>4. i \in LineEnds(line)
      BY <2>1, <2>5, <3>3, CrlfAt
    <3> QED
      BY <3>4
  <2> QED
    BY <2>1, <2>2, <2>4, <2>5
<1>3. LineEnds(b) # {} => o + n + 2 <= f
  <2>1. SUFFICES ASSUME NEW i \in LineEnds(b) PROVE o + n + 2 <= f
    OBVIOUS
  <2> QED
    BY <1>1, <1>2, <2>1
<1>4. ASSUME o + n + 2 <= f
      PROVE  n + 1 \in LineEnds(b) /\ Line(b) = line /\ AfterLine(b) = SubSeq(w, o + n + 3, f)
  <2>1. n + 1 \in 1..(Len(b) - 1) /\ n + 1 \in 1..(f - o) /\ n + 2 \in 1..(f - o)
    BY <1>1, <1>4
  <2>2. b[n + 1] = "CR" /\ b[(n + 1) + 1] = "LF"
    <3>1. b[n + 1] = w[o + (n + 1)] /\ b[n + 2] = w[o + (n + 2)]
      BY <1>1, <2>1
    <3>2. w[o + (n + 1)] = "CR" /\ w[o + (n + 2)] = "LF"
      BY DEF LineAt
    <3>3. (n + 1) + 1 = n + 2
      OBVIOUS
    <3> QED
      BY <3>1, <3>2, <3>3
  <2>3. n + 1 \in LineEnds(b)
    BY <1>1, <2>1, <2>2, CrlfAt
  <2>4. Min(LineEnds(b)) = n + 1
    <3>1. LineEnds(b) \subseteq Int
      BY <1>2
    <3> QED
      BY <1>2, <2>3, <3>1, MinIs
  <2>5. Line(b) = line
    <3> DEFINE x == SubSeq(b, 0 + 1, n)
    <3>1. Line(b) = x
      BY <2>4 DEF Line
    <3>2. x \in Seq(Symbols) /\ Len(x) = n /\ \A p \in 1..n : x[p] = b[p]
      <4>1. n \in 0..Len(b) /\ n - 0 = n
        BY <2>1
      <4>2. x \in Seq(Symbols) /\ Len(x) = n - 0 /\ \A p \in 1..(n - 0) : x[p] = b[0 + p]
        BY <1>1, <4>1, SubSeqElements
      <4> HIDE DEF x
      <4> QED
        BY <4>2
    <3> HIDE DEF x
    <3>3. ASSUME NEW p \in 1..n PROVE x[p] = line[p]
      BY <1>1, <2>1, <3>2 DEF LineAt
    <3>4. x = line
      BY <3>2, <3>3, SameElements
    <3> QED
      BY <3>1, <3>4
  <2>6. AfterLine(b) = SubSeq(w, o + n + 3, f)
    <3>1. AfterLine(b) = SubSeq(b, (n + 2) + 1, f - o)
      <4>1. (n + 1) + 2 = (n + 2) + 1
        OBVIOUS
      <4> QED
        BY <1>1, <2>4, <4>1 DEF AfterLine
    <3>2. n + 2 \in 0..(f - o)
      BY <2>1
    <3>3. SubSeq(SubSeq(w, o + 1, f), (n + 2) + 1, f - o) = SubSeq(w, o + (n + 2) + 1, f)
      BY <3>2, PartOfPart
    <3>4. o + (n + 2) + 1 = o + n + 3
      OBVIOUS
    <3> QED
      BY <3>1, <3>3, <3>4 DEF b
  <2> QED
    BY <2>3, <2>5, <2>6
<1>5. QED
  BY <1>3, <1>4 DEF b

-----------------------------------------------------------------------------
(* Messages *)

\* The lines are lines, and the parts of a message are sequences of symbols.
IsMessage(m) ==
    /\ m.first \in Seq(Symbols) /\ LineEnds(m.first) = {}
    /\ Len(m.headers) \in Nat
    /\ m.headers \in [1..Len(m.headers) -> HeaderLines]
    /\ m.body \in Seq(Symbols)

\* What a header line is.
LEMMA HeaderLineFacts ==
  ASSUME NEW line \in HeaderLines
  PROVE  line \in Seq(Symbols) /\ LineEnds(line) = {} /\ line # <<>>
BY LineAssumption DEF Lines

\* What may arrive is a message, and so is the empty one before it arrives.
LEMMA MessageFacts ==
  ASSUME NEW r \in {"request", "response"}, NEW m \in Messages(r) \cup {NoMessage}
  PROVE  IsMessage(m)
<1>1. CASE m \in Messages(r)
  <2>1. m.first \in Lines /\ m.body \in Bodies
    BY <1>1 DEF Messages, Lines
  <2>2. PICK n \in 0..MaxHeaders : m.headers \in [1..n -> HeaderLines]
    BY <1>1 DEF Messages
  <2>3. n \in Nat /\ Len(m.headers) = n
    BY <2>2, LimitAssumption
  <2> QED
    BY <2>1, <2>2, <2>3, LineAssumption, BodyAssumption DEF IsMessage
<1>2. CASE m = NoMessage
  <2>1. m.first = <<>> /\ m.headers = <<>> /\ m.body = <<>>
    BY <1>2 DEF NoMessage
  <2>2. LineEnds(<<>>) = {}
    BY DEF LineEnds
  <2>3. Len(<<>>) = 0 /\ <<>> \in Seq(Symbols) /\ <<>> \in [1..0 -> HeaderLines]
    OBVIOUS
  <2> QED
    BY <2>1, <2>2, <2>3 DEF IsMessage
<1>3. QED
  BY <1>1, <1>2

\* The message grows by a line at a time.
LEMMA WireSteps ==
  ASSUME NEW m, IsMessage(m)
  PROVE  LET n == Len(m.headers)
         IN  /\ \A i \in 0..n : WireTo(m, i) \in Seq(Symbols)
             /\ WireTo(m, 0) = m.first \o CRLF
             /\ \A i \in 0..(n - 1) :
                   WireTo(m, i + 1) = WireTo(m, i) \o (m.headers[i + 1] \o CRLF)
             /\ Wire(m) = WireTo(m, n) \o (CRLF \o m.body)
<1> DEFINE n == Len(m.headers)
           s == [j \in 1..n |-> m.headers[j] \o CRLF]
           F(i) == FlattenSeq([j \in 1..i |-> s[j]])
           A == m.first \o CRLF
<1>a. \A a, b, c \in Seq(Symbols) : (a \o b) \o c = a \o (b \o c)
  BY ConcatAssociative
<1>1. n \in Nat /\ A \in Seq(Symbols)
  BY CrlfType, ConcatElements DEF IsMessage
<1>2. s \in [1..n -> Seq(Symbols)]
  <2>1. ASSUME NEW j \in 1..n PROVE m.headers[j] \o CRLF \in Seq(Symbols)
    <3>1. m.headers[j] \in Seq(Symbols)
      BY HeaderLineFacts DEF IsMessage
    <3> QED
      BY <3>1, CrlfType, ConcatElements
  <2> QED
    BY <2>1
<1>3. /\ F(0) = <<>>
      /\ \A i \in 0..n : F(i) \in Seq(Symbols)
      /\ \A i \in 0..(n - 1) : F(i + 1) = F(i) \o s[i + 1]
  <2> HIDE DEF s
  <2> QED
    BY <1>1, <1>2, FlattenSteps
<1>4. ASSUME NEW i \in 0..n PROVE WireTo(m, i) = A \o F(i)
  <2>1. [j \in 1..i |-> s[j]] = [j \in 1..i |-> m.headers[j] \o CRLF]
    OBVIOUS
  <2> QED
    BY <2>1 DEF WireTo
<1>5. ASSUME NEW i \in 0..(n - 1) PROVE s[i + 1] = m.headers[i + 1] \o CRLF /\ i + 1 \in 1..n
  BY <1>1
<1> HIDE DEF A, F, s
<1>6. \A i \in 0..n : WireTo(m, i) \in Seq(Symbols)
  BY <1>1, <1>3, <1>4, ConcatElements
<1>7. WireTo(m, 0) = A
  <2>0. 0 \in 0..n
    BY <1>1
  <2>1. WireTo(m, 0) = A \o <<>>
    BY <1>3, <1>4, <2>0, Zenon
  <2> QED
    BY <1>1, <2>1
<1>8. ASSUME NEW i \in 0..(n - 1)
      PROVE  WireTo(m, i + 1) = WireTo(m, i) \o (m.headers[i + 1] \o CRLF)
  <2>1. i \in 0..n /\ i + 1 \in 0..n
    BY <1>1
  <2>2. WireTo(m, i + 1) = A \o (F(i) \o s[i + 1])
    BY <1>3, <1>4, <2>1
  <2>3. WireTo(m, i) \o s[i + 1] = (A \o F(i)) \o s[i + 1]
    BY <1>4, <2>1
  <2>4. (A \o F(i)) \o s[i + 1] = A \o (F(i) \o s[i + 1])
    <3>1. F(i) \in Seq(Symbols) /\ s[i + 1] \in Seq(Symbols)
      BY <1>2, <1>3, <1>5, <2>1
    <3> QED
      BY <1>1, <1>a, <3>1
  <2> QED
    BY <1>5, <2>2, <2>3, <2>4
<1>9. Wire(m) = WireTo(m, n) \o (CRLF \o m.body)
  <2>1. WireTo(m, n) \in Seq(Symbols) /\ m.body \in Seq(Symbols)
    BY <1>1, <1>6 DEF IsMessage
  <2> QED
    BY <1>a, <2>1, CrlfType DEF Wire
<1>10. QED
  BY <1>6, <1>7, <1>8, <1>9 DEF A

\* The sequence a is the beginning of b.
Begins(a, b) == Len(a) <= Len(b) /\ \A p \in 1..Len(a) : b[p] = a[p]

\* All of the message begins with each part of it.
LEMMA WireBegins ==
  ASSUME NEW m, IsMessage(m)
  PROVE  LET n == Len(m.headers)
         IN  /\ \A i, j \in 0..n : i <= j => Begins(WireTo(m, i), WireTo(m, j))
             /\ \A i \in 0..n : Begins(WireTo(m, i), Wire(m))
<1> DEFINE n == Len(m.headers)
           W(i) == WireTo(m, i)
           G == {k \in 0..n : \A i \in 0..k : Begins(W(i), W(k))}
<1>1. /\ n \in Nat
      /\ \A i \in 0..n : W(i) \in Seq(Symbols) /\ Len(W(i)) \in Nat
  <2>1. \A i \in 0..n : W(i) \in Seq(Symbols)
    BY WireSteps
  <2>2. n \in Nat
    BY DEF IsMessage
  <2> QED
    BY <2>1, <2>2
<1>2. ASSUME NEW a \in Seq(Symbols), NEW b \in Seq(Symbols) PROVE Begins(a, a \o b)
  BY ConcatElements DEF Begins
<1>3. ASSUME NEW i \in 0..n, NEW j \in 0..n, NEW c \in Seq(Symbols),
             Begins(W(i), W(j)), Begins(W(j), c)
      PROVE  Begins(W(i), c)
  <2>1. Len(W(i)) \in Nat /\ Len(W(j)) \in Nat /\ Len(c) \in Nat
    BY <1>1
  <2> HIDE DEF W
  <2> QED
    BY <1>3, <2>1 DEF Begins
<1>4. 0 \in G
  <2>1. Begins(W(0), W(0)) /\ 0 \in 0..n
    BY <1>1 DEF Begins
  <2> HIDE DEF W
  <2> QED
    BY <2>1
<1>5. ASSUME NEW k \in 0..(n - 1), k \in G PROVE k + 1 \in G
  <2>1. k \in 0..n /\ k + 1 \in 0..n /\ k + 1 \in 1..n
    BY <1>1
  <2>2. m.headers[k + 1] \o CRLF \in Seq(Symbols)
    <3>1. m.headers[k + 1] \in Seq(Symbols)
      BY <2>1, HeaderLineFacts DEF IsMessage
    <3> QED
      BY <3>1, CrlfType, ConcatElements
  <2>3. Begins(W(k), W(k + 1)) /\ W(k + 1) \in Seq(Symbols)
    BY <1>1, <1>2, <2>1, <2>2, WireSteps
  <2>4. Begins(W(k + 1), W(k + 1))
    BY <1>1, <2>1 DEF Begins
  <2> HIDE DEF W
  <2>5. ASSUME NEW i \in 0..(k + 1) PROVE Begins(W(i), W(k + 1))
    <3>1. CASE i = k + 1
      BY <2>4, <3>1
    <3>2. CASE i \in 0..k
      <4>1. Begins(W(i), W(k)) /\ i \in 0..n
        BY <1>5, <2>1, <3>2
      <4> QED
        BY <1>3, <2>1, <2>3, <4>1
    <3> QED
      BY <3>1, <3>2
  <2> QED
    BY <2>1, <2>5
<1>6. 0..n \subseteq G
  <2> HIDE DEF G
  <2> QED
    BY <1>1, <1>4, <1>5, InductionUpTo
<1>7. ASSUME NEW i \in 0..n, NEW j \in 0..n, i <= j PROVE Begins(W(i), W(j))
  <2>1. j \in G /\ i \in 0..j
    BY <1>6, <1>7
  <2> HIDE DEF W
  <2> QED
    BY <2>1
<1>8. ASSUME NEW i \in 0..n PROVE Begins(W(i), Wire(m))
  <2>1. CRLF \o m.body \in Seq(Symbols)
    BY CrlfType, ConcatElements DEF IsMessage
  <2>2. n \in 0..n /\ W(n) \in Seq(Symbols) /\ i <= n
    BY <1>1
  <2>3. Begins(W(n), Wire(m)) /\ Wire(m) \in Seq(Symbols)
    <3>1. Wire(m) = W(n) \o (CRLF \o m.body)
      BY WireSteps
    <3> QED
      BY <1>2, <2>1, <2>2, <3>1, ConcatElements
  <2>4. Begins(W(i), W(n))
    BY <1>7, <2>2
  <2> QED
    BY <1>3, <2>2, <2>3, <2>4
<1>9. QED
  BY <1>7, <1>8

\* The sequence c consists of a and, after it, b.
Joins(a, b, c) ==
    /\ c \in Seq(Symbols)
    /\ Len(c) = Len(a) + Len(b)
    /\ \A p \in 1..Len(a) : c[p] = a[p]
    /\ \A p \in 1..Len(b) : c[Len(a) + p] = b[p]

\* That is what concatenation does.
LEMMA Joined == \A a, b \in Seq(Symbols) : Joins(a, b, a \o b)
BY ConcatElements DEF Joins

\* What comes first in it is its beginning.
LEMMA JoinBegins ==
  ASSUME NEW a, NEW b, NEW c, Joins(a, b, c), Len(a) \in Nat, Len(b) \in Nat
  PROVE  Begins(a, c)
BY DEF Joins, Begins

\* A line that ends what some beginning of w holds is a line of w.
LEMMA LineOfBeginning ==
  ASSUME NEW w \in Seq(Symbols), NEW a \in Seq(Symbols), NEW line \in Seq(Symbols),
         Begins(a \o (line \o CRLF), w)
  PROVE  LineAt(w, Len(a), line) /\ Len(a \o (line \o CRLF)) = Len(a) + Len(line) + 2
<1> DEFINE c == line \o CRLF
           d == a \o c
<1>1. /\ c \in Seq(Symbols) /\ Len(c) = Len(line) + 2
      /\ \A p \in 1..Len(line) : c[p] = line[p]
      /\ c[Len(line) + 1] = "CR" /\ c[Len(line) + 2] = "LF"
  <2>1. Joins(line, CRLF, c)
    BY CrlfType, Joined
  <2> HIDE DEF c
  <2> QED
    BY <2>1, CrlfType DEF Joins
<1> HIDE DEF c
<1>2. Len(d) = Len(a) + Len(c) /\ \A p \in 1..Len(c) : d[Len(a) + p] = c[p]
  <2>1. Joins(a, c, d)
    BY <1>1, Joined
  <2> HIDE DEF d
  <2> QED
    BY <2>1 DEF Joins
<1>3. Len(d) <= Len(w) /\ \A p \in 1..Len(d) : w[p] = d[p]
  BY DEF Begins, c
<1> HIDE DEF d
<1>4. ASSUME NEW p \in 1..(Len(line) + 2) PROVE w[Len(a) + p] = c[p]
  <2>1. p \in 1..Len(c) /\ Len(a) + p \in 1..Len(d)
    BY <1>1, <1>2
  <2> QED
    BY <1>2, <1>3, <2>1
<1>5. \A p \in 1..Len(line) : w[Len(a) + p] = line[p]
  BY <1>1, <1>4
<1>6. w[Len(a) + Len(line) + 1] = "CR" /\ w[Len(a) + Len(line) + 2] = "LF"
  <2>1. /\ Len(line) + 1 \in 1..(Len(line) + 2) /\ Len(line) + 2 \in 1..(Len(line) + 2)
        /\ Len(a) + (Len(line) + 1) = Len(a) + Len(line) + 1
        /\ Len(a) + (Len(line) + 2) = Len(a) + Len(line) + 2
    OBVIOUS
  <2>2. w[Len(a) + (Len(line) + 1)] = "CR" /\ w[Len(a) + (Len(line) + 2)] = "LF"
    BY <1>1, <1>4, <2>1
  <2> QED
    BY <2>1, <2>2
<1>7. Len(d) = Len(a) + Len(line) + 2
  BY <1>1, <1>2
<1>8. Len(a) + Len(line) + 2 <= Len(w)
  BY <1>3, <1>7
<1>9. LineAt(w, Len(a), line)
  BY <1>5, <1>6, <1>8 DEF LineAt
<1>10. QED
  BY <1>7, <1>9 DEF c, d

\* The layout of a message: its lines one after the other, then its body.
LEMMA WireLines ==
  ASSUME NEW m, IsMessage(m)
  PROVE  LET n == Len(m.headers)
         IN  /\ Wire(m) \in Seq(Symbols)
             /\ LineAt(Wire(m), 0, m.first)
             /\ LengthTo(m, 0) = Len(m.first) + 2
             /\ \A i \in 0..n : LengthTo(m, i) \in Nat
             /\ \A i \in 0..(n - 1) :
                   /\ LineAt(Wire(m), LengthTo(m, i), m.headers[i + 1])
                   /\ LengthTo(m, i + 1) = LengthTo(m, i) + Len(m.headers[i + 1]) + 2
             /\ \A i, j \in 0..n : i <= j => LengthTo(m, i) <= LengthTo(m, j)
             /\ LineAt(Wire(m), LengthTo(m, n), <<>>)
             /\ HeadLength(m) = LengthTo(m, n) + 2
             /\ Len(Wire(m)) = HeadLength(m) + Len(m.body)
             /\ \A p \in 1..Len(m.body) : Wire(m)[HeadLength(m) + p] = m.body[p]
<1> DEFINE n == Len(m.headers)
<1>1. n \in Nat /\ m.first \in Seq(Symbols) /\ m.body \in Seq(Symbols)
  BY DEF IsMessage
<1>2. \A i \in 0..n : WireTo(m, i) \in Seq(Symbols) /\ Begins(WireTo(m, i), Wire(m))
  BY WireSteps, WireBegins
<1>3. Wire(m) = WireTo(m, n) \o (CRLF \o m.body)
  BY WireSteps
<1>4. n \in 0..n /\ 0 \in 0..n
  BY <1>1
<1>5. \A a, b, c \in Seq(Symbols) : (a \o b) \o c = a \o (b \o c)
  BY ConcatAssociative
<1>6. Wire(m) \in Seq(Symbols)
  BY <1>1, <1>2, <1>3, <1>4, CrlfType, ConcatElements
<1>7. LineAt(Wire(m), 0, m.first) /\ LengthTo(m, 0) = Len(m.first) + 2
  <2>1. WireTo(m, 0) = m.first \o CRLF
    BY WireSteps
  <2>2. <<>> \in Seq(Symbols) /\ Len(<<>>) = 0 /\ m.first \o CRLF \in Seq(Symbols)
    BY <1>1, CrlfType, ConcatElements
  <2>3. <<>> \o (m.first \o CRLF) = WireTo(m, 0)
    BY <2>1, <2>2
  <2>4. Begins(<<>> \o (m.first \o CRLF), Wire(m))
    BY <1>2, <1>4, <2>3
  <2>5. LineAt(Wire(m), 0, m.first) /\ Len(WireTo(m, 0)) = 0 + Len(m.first) + 2
    <3>1. /\ LineAt(Wire(m), Len(<<>>), m.first)
          /\ Len(<<>> \o (m.first \o CRLF)) = Len(<<>>) + Len(m.first) + 2
      BY <1>1, <1>6, <2>2, <2>4, LineOfBeginning, Zenon
    <3> QED
      BY <2>2, <2>3, <3>1, Zenon
  <2>6. 0 + Len(m.first) + 2 = Len(m.first) + 2
    BY <1>1
  <2> QED
    BY <2>5, <2>6 DEF LengthTo
<1>8. ASSUME NEW i \in 0..(n - 1)
      PROVE  /\ LineAt(Wire(m), LengthTo(m, i), m.headers[i + 1])
             /\ LengthTo(m, i + 1) = LengthTo(m, i) + Len(m.headers[i + 1]) + 2
  <2>1. i \in 0..n /\ i + 1 \in 0..n /\ i + 1 \in 1..n
    BY <1>1
  <2>2. m.headers[i + 1] \in Seq(Symbols)
    BY <2>1, HeaderLineFacts DEF IsMessage
  <2>3. WireTo(m, i + 1) = WireTo(m, i) \o (m.headers[i + 1] \o CRLF)
    BY WireSteps
  <2> QED
    BY <1>2, <1>6, <2>1, <2>2, <2>3, LineOfBeginning DEF LengthTo
<1>9. LineAt(Wire(m), LengthTo(m, n), <<>>)
  <2>1. <<>> \in Seq(Symbols) /\ <<>> \o CRLF = CRLF
    BY CrlfType
  <2>2. Begins(WireTo(m, n) \o CRLF, Wire(m))
    <3>1. WireTo(m, n) \o CRLF \in Seq(Symbols)
      BY <1>2, <1>4, CrlfType, ConcatElements
    <3>2. Wire(m) = (WireTo(m, n) \o CRLF) \o m.body
      BY DEF Wire
    <3>3. Joins(WireTo(m, n) \o CRLF, m.body, Wire(m))
      BY <1>1, <3>1, <3>2, Joined, Zenon
    <3>4. Len(WireTo(m, n) \o CRLF) \in Nat /\ Len(m.body) \in Nat
      BY <1>1, <3>1
    <3> QED
      BY <3>3, <3>4, JoinBegins, Zenon
  <2> QED
    BY <1>2, <1>4, <1>6, <2>1, <2>2, LineOfBeginning DEF LengthTo
<1>10. HeadLength(m) = LengthTo(m, n) + 2
  BY DEF HeadLength
<1>11. /\ Len(Wire(m)) = HeadLength(m) + Len(m.body)
       /\ \A p \in 1..Len(m.body) : Wire(m)[HeadLength(m) + p] = m.body[p]
  <2>1. WireTo(m, n) \o CRLF \in Seq(Symbols) /\ Len(WireTo(m, n) \o CRLF) = HeadLength(m)
    <3>1. Joins(WireTo(m, n), CRLF, WireTo(m, n) \o CRLF)
      BY <1>2, <1>4, CrlfType, Joined, Zenon
    <3> QED
      BY <1>10, <3>1, CrlfType DEF LengthTo, Joins
  <2>2. Wire(m) = (WireTo(m, n) \o CRLF) \o m.body
    BY DEF Wire
  <2>3. Joins(WireTo(m, n) \o CRLF, m.body, Wire(m))
    BY <1>1, <2>1, <2>2, Joined, Zenon
  <2> QED
    BY <2>1, <2>3 DEF Joins
<1>12. /\ \A i \in 0..n : LengthTo(m, i) \in Nat
       /\ \A i, j \in 0..n : i <= j => LengthTo(m, i) <= LengthTo(m, j)
  <2>1. \A i, j \in 0..n : i <= j => Begins(WireTo(m, i), WireTo(m, j))
    BY WireBegins
  <2> QED
    BY <1>2, <2>1 DEF LengthTo, Begins
<1>13. QED
  BY <1>6, <1>7, <1>8, <1>9, <1>10, <1>11, <1>12

-----------------------------------------------------------------------------
(* Header fields *)

\* A set of positions has a first and a last one.
LEMMA Extremes ==
  ASSUME NEW n \in Nat, NEW S, S \subseteq 1..n, S # {}
  PROVE  /\ Min(S) \in S /\ \A y \in S : Min(S) <= y
         /\ Max(S) \in S /\ \A y \in S : y <= Max(S)
<1>1. PICK x \in S : \A y \in S : x <= y
  <2>1. S \subseteq Nat
    OBVIOUS
  <2> QED
    BY <2>1, LeastNumber
<1>2. PICK z \in S : \A y \in S : y <= z
  <2> DEFINE R == {n - y : y \in S}
  <2>1. R \subseteq Nat /\ R # {}
    OBVIOUS
  <2>2. PICK d \in R : \A e \in R : d <= e
    <3> HIDE DEF R
    <3> QED
      BY <2>1, LeastNumber
  <2>3. PICK z \in S : d = n - z
    OBVIOUS
  <2>4. ASSUME NEW y \in S PROVE y <= z
    <3>1. n - y \in R
      OBVIOUS
    <3>2. d <= n - y
      BY <2>2, <3>1
    <3> QED
      BY <2>3, <3>2
  <2> QED
    BY <2>4
<1>3. S \subseteq Int
  OBVIOUS
<1>4. Min(S) = x
  BY <1>1, <1>3, MinIs
<1>5. Max(S) = z
  BY <1>2, <1>3, MaxIs
<1>6. QED
  BY <1>1, <1>2, <1>4, <1>5

\* trim() keeps what stands from the first word to the last.
LEMMA TrimFacts ==
  ASSUME NEW v \in Seq(Symbols)
  PROVE  /\ Trim(v) \in Seq(Symbols)
         /\ WordsAt(v) = {} => Trim(v) = <<>>
         /\ WordsAt(v) # {} => Trim(v) # <<>> /\ Trim(v)[1] = v[Min(WordsAt(v))]
<1>1. CASE WordsAt(v) = {}
  BY <1>1 DEF Trim
<1>2. CASE WordsAt(v) # {}
  <2> DEFINE a == Min(WordsAt(v))
             b == Max(WordsAt(v))
             t == SubSeq(v, a, b)
  <2>1. WordsAt(v) \subseteq 1..Len(v) /\ Len(v) \in Nat
    BY DEF WordsAt
  <2>2. a \in 1..Len(v) /\ b \in 1..Len(v) /\ a <= b
    BY <1>2, <2>1, Extremes
  <2> HIDE DEF a, b
  <2>3. /\ a - 1 \in Nat /\ b \in (a - 1)..Len(v) /\ (a - 1) + 1 = a
        /\ 1 \in 1..(b - (a - 1))
    BY <2>1, <2>2
  <2>4. /\ SubSeq(v, (a - 1) + 1, b) \in Seq(Symbols)
        /\ Len(SubSeq(v, (a - 1) + 1, b)) = b - (a - 1)
        /\ SubSeq(v, (a - 1) + 1, b)[1] = v[(a - 1) + 1]
    BY <2>3, SubSeqElements
  <2>5. t \in Seq(Symbols) /\ Len(t) = b - (a - 1) /\ t[1] = v[a]
    BY <2>3, <2>4
  <2>6. Trim(v) = t
    BY <1>2 DEF Trim, a, b
  <2> HIDE DEF t
  <2>7. t # <<>>
    BY <2>2, <2>5
  <2> QED
    BY <1>2, <2>5, <2>6, <2>7 DEF a
<1>3. QED
  BY <1>1, <1>2

\* parseGenericHeaderLine() keeps the name and finds the first word of the value.
LEMMA HeaderFacts ==
  ASSUME NEW line \in Seq(Symbols), line # <<>>
  PROVE  LET words == WordsAt(line) \ {1}
         IN  /\ Header(line) \in Seq(Symbols) /\ Header(line) # <<>>
             /\ Header(line)[1] = line[1]
             /\ words = {} => Tail(Header(line)) = <<>>
             /\ words # {} => /\ Tail(Header(line)) # <<>>
                              /\ Tail(Header(line))[1] = line[Min(words)]
<1> DEFINE words == WordsAt(line) \ {1}
           t == Tail(line)
           v == Trim(t)
<1>1. /\ t \in Seq(Symbols) /\ Len(line) \in Nat /\ Len(line) >= 1 /\ Len(t) = Len(line) - 1
      /\ line[1] \in Symbols
      /\ \A p \in 1..Len(t) : t[p] = line[p + 1]
  OBVIOUS
<1> HIDE DEF t
<1>2. /\ v \in Seq(Symbols)
      /\ WordsAt(t) = {} => v = <<>>
      /\ WordsAt(t) # {} => v # <<>> /\ v[1] = t[Min(WordsAt(t))]
  BY <1>1, TrimFacts
<1> HIDE DEF v
<1>3. /\ Header(line) \in Seq(Symbols) /\ Header(line) # <<>>
      /\ Header(line)[1] = line[1] /\ Tail(Header(line)) = v
  <2>1. Header(line) = <<line[1]>> \o v
    BY DEF Header, v, t
  <2> QED
    BY <1>1, <1>2, <2>1
<1>4. WordsAt(t) = {i \in 1..Len(t) : t[i] \notin {"CR", "LF"}}
  BY <1>1 DEF WordsAt
<1>5. words = {i \in 2..Len(line) : line[i] \notin {"CR", "LF"}}
  BY <1>1 DEF WordsAt
<1> HIDE DEF words
<1>6. \A i \in WordsAt(t) : i + 1 \in words
  BY <1>1, <1>4, <1>5
<1>7. \A i \in words : i - 1 \in WordsAt(t)
  <2>1. SUFFICES ASSUME NEW i \in words PROVE i - 1 \in WordsAt(t)
    OBVIOUS
  <2>2. i \in 2..Len(line) /\ line[i] \notin {"CR", "LF"}
    BY <1>5
  <2>3. i - 1 \in 1..Len(t) /\ t[i - 1] = line[(i - 1) + 1] /\ (i - 1) + 1 = i
    BY <1>1, <2>2
  <2> QED
    BY <1>4, <2>2, <2>3
<1>8. CASE WordsAt(t) = {}
  BY <1>2, <1>3, <1>6, <1>7, <1>8 DEF words
<1>9. CASE WordsAt(t) # {}
  <2> DEFINE a == Min(WordsAt(t))
  <2>1. a \in WordsAt(t) /\ \A y \in WordsAt(t) : a <= y
    <3>1. WordsAt(t) \subseteq 1..Len(t) /\ Len(t) \in Nat
      BY <1>1, <1>4
    <3> QED
      BY <1>9, <3>1, Extremes
  <2>2. a \in 1..Len(t)
    BY <1>4, <2>1
  <2> HIDE DEF a
  <2>3. a + 1 \in words
    BY <1>6, <2>1
  <2>4. ASSUME NEW y \in words PROVE a + 1 <= y
    <3>1. y \in Nat /\ a <= y - 1
      BY <1>5, <1>7, <2>1
    <3> QED
      BY <2>2, <3>1
  <2>5. Min(words) = a + 1
    <3>1. words \subseteq Int
      BY <1>5
    <3> QED
      BY <2>3, <2>4, <3>1, MinIs
  <2>6. v[1] = line[Min(words)] /\ v # <<>>
    BY <1>1, <1>2, <1>9, <2>2, <2>5 DEF a
  <2> QED
    BY <1>3, <2>3, <2>6 DEF words
<1>10. QED
  BY <1>8, <1>9

\* strtol() yields a long.
LEMMA NumberFacts ==
  ASSUME NEW word \in DOMAIN Numbers
  PROVE  /\ Numbers[word] \in Int /\ Numbers[word] <= LongMax
         /\ Max({0, Numbers[word]}) \in 0..LongMax
<1>1. Numbers[word] \in Int /\ Numbers[word] <= LongMax
  BY LimitAssumption DEF Numbers
<1>2. CASE Numbers[word] <= 0
  <2>1. Max({0, Numbers[word]}) = 0
    BY <1>1, <1>2, MaxIs
  <2> QED
    BY <1>1, <2>1, LimitAssumption
<1>3. CASE Numbers[word] > 0
  <2>1. Max({0, Numbers[word]}) = Numbers[word]
    BY <1>1, <1>3, MaxIs
  <2> QED
    BY <1>1, <1>3, <2>1
<1>4. QED
  BY <1>1, <1>2, <1>3

\* findHeader() returns the value of the first header with the name.
LEMMA FindFirst ==
  ASSUME NEW n \in Nat, NEW hs, DOMAIN hs = 1..n, NEW name
  PROVE  LET at == {i \in 1..n : ToLower(hs[i][1]) = ToLower(name)}
         IN  /\ at = {} => FindHeader(hs, name) = {}
             /\ at # {} => Min(at) \in at /\ FindHeader(hs, name) = {Tail(hs[Min(at)])}
<1> DEFINE at == {i \in 1..n : ToLower(hs[i][1]) = ToLower(name)}
           L == {j \in DOMAIN hs : /\ ToLower(hs[j][1]) = ToLower(name)
                                   /\ \A k \in 1..(j - 1) : ToLower(hs[k][1]) # ToLower(name)}
<1>1. FindHeader(hs, name) = {Tail(hs[i]) : i \in L}
  BY DEF FindHeader
<1>2. L = {j \in at : \A k \in at : j <= k}
  <2>1. ASSUME NEW j \in L PROVE j \in at /\ \A k \in at : j <= k
    OBVIOUS
  <2>2. ASSUME NEW j \in at, \A k \in at : j <= k PROVE j \in L
    <3>1. ASSUME NEW k \in 1..(j - 1) PROVE ToLower(hs[k][1]) # ToLower(name)
      <4>1. k \in 1..n /\ ~(j <= k)
        OBVIOUS
      <4> QED
        BY <2>2, <4>1
    <3> QED
      BY <3>1
  <2> HIDE DEF L
  <2> QED
    BY <2>1, <2>2
<1>3. CASE at = {}
  <2>1. L = {}
    BY <1>2, <1>3
  <2> HIDE DEF L
  <2> QED
    BY <1>1, <1>3, <2>1
<1>4. CASE at # {}
  <2>0. at \subseteq 1..n
    OBVIOUS
  <2> HIDE DEF at, L
  <2>1. Min(at) \in at /\ \A y \in at : Min(at) <= y
    BY <1>4, <2>0, Extremes
  <2>2. L = {Min(at)}
    <3>1. \A j \in at : (\A k \in at : j <= k) => j = Min(at)
      <4>1. at \subseteq Int
        BY <2>0
      <4> QED
        BY <4>1, MinIs
    <3> QED
      BY <1>2, <2>1, <3>1
  <2> QED
    BY <1>1, <1>4, <2>1, <2>2 DEF at
<1>5. QED
  BY <1>3, <1>4

\* contentLengthFrom() when there is no value, and when there is one.
LEMMA LengthOfValue ==
  ASSUME NEW hs, NEW v
  PROVE  /\ FindHeader(hs, "Content-Length:") = {} => ContentLengthFrom(hs) = 0
         /\ FindHeader(hs, "Content-Length:") = {v} =>
              ContentLengthFrom(hs) = IF v # <<>> /\ v[1] \in DOMAIN Numbers
                                      THEN Max({0, Numbers[v[1]]}) ELSE 0
<1> DEFINE Sel == {u \in FindHeader(hs, "Content-Length:") : u # <<>> /\ u[1] \in DOMAIN Numbers}
<1>1. DeclaredLengths(hs) = {Numbers[u[1]] : u \in Sel}
  BY DEF DeclaredLengths
<1>2. Max({0}) = 0
  BY MaxIs
<1>3. Sel = {} => ContentLengthFrom(hs) = 0
  <2>1. SUFFICES ASSUME Sel = {} PROVE ContentLengthFrom(hs) = 0
    OBVIOUS
  <2> HIDE DEF Sel
  <2>2. {0} \cup DeclaredLengths(hs) = {0}
    BY <1>1, <2>1
  <2> QED
    BY <1>2, <2>2 DEF ContentLengthFrom
<1>4. Sel = {v} => ContentLengthFrom(hs) = Max({0, Numbers[v[1]]})
  <2>1. SUFFICES ASSUME Sel = {v} PROVE ContentLengthFrom(hs) = Max({0, Numbers[v[1]]})
    OBVIOUS
  <2> HIDE DEF Sel
  <2>2. {0} \cup DeclaredLengths(hs) = {0, Numbers[v[1]]}
    BY <1>1, <2>1
  <2> QED
    BY <2>2 DEF ContentLengthFrom
<1>5. FindHeader(hs, "Content-Length:") = {} => Sel = {}
  OBVIOUS
<1>6. FindHeader(hs, "Content-Length:") = {v} =>
         Sel = IF v # <<>> /\ v[1] \in DOMAIN Numbers THEN {v} ELSE {}
  OBVIOUS
<1> HIDE DEF Sel
<1>7. QED
  BY <1>3, <1>4, <1>5, <1>6

\* The length that the parser takes from the headers of a message is the one that the
\* message announces, and fits into a long.
LEMMA AnnouncedIsParsed ==
  ASSUME NEW m, IsMessage(m)
  PROVE  /\ ContentLengthFrom(SentHeaders(m)) = AnnouncedLength(m)
         /\ AnnouncedLength(m) \in 0..LongMax
<1> DEFINE n  == Len(m.headers)
           hs == SentHeaders(m)
           at == {i \in DOMAIN m.headers : m.headers[i][1] \in {"Content-Length:", "content-length:"}}
           named == {i \in 1..n : ToLower(hs[i][1]) = ToLower("Content-Length:")}
<1>1. n \in Nat /\ DOMAIN m.headers = 1..n /\ DOMAIN hs = 1..n
  BY DEF IsMessage, SentHeaders
<1>2. ASSUME NEW i \in 1..n
      PROVE  m.headers[i] \in Seq(Symbols) /\ m.headers[i] # <<>> /\ hs[i] = Header(m.headers[i])
  BY HeaderLineFacts DEF IsMessage, SentHeaders
<1>3. named = at
  <2>1. \A i \in 1..n : hs[i][1] = m.headers[i][1]
    BY <1>2, HeaderFacts
  <2>2. \A x : ToLower(x) = ToLower("Content-Length:")
                <=> x \in {"Content-Length:", "content-length:"}
    BY DEF ToLower
  <2> HIDE DEF hs
  <2> QED
    BY <1>1, <2>1, <2>2
<1>4. 0 \in 0..LongMax
  BY LimitAssumption
<1>5. CASE at = {}
  <2>1. AnnouncedLength(m) = 0
    BY <1>5 DEF AnnouncedLength
  <2>2. FindHeader(hs, "Content-Length:") = {}
    <3> HIDE DEF at, hs
    <3> QED
      BY <1>1, <1>3, <1>5, FindFirst
  <2> QED
    BY <1>4, <2>1, <2>2, LengthOfValue
<1>6. CASE at # {}
  <2> DEFINE a == Min(at)
             line == m.headers[a]
             words == WordsAt(line) \ {1}
             v == Tail(Header(line))
  <2>1. named # {} => Min(named) \in named /\ FindHeader(hs, "Content-Length:") = {Tail(hs[Min(named)])}
    <3> HIDE DEF hs
    <3> QED
      BY <1>1, FindFirst
  <2>2. a \in at /\ FindHeader(hs, "Content-Length:") = {Tail(hs[a])}
    <3> HIDE DEF named, at
    <3> QED
      BY <1>3, <1>6, <2>1
  <2>3. a \in 1..n
    <3> HIDE DEF a
    <3> QED
      BY <1>1, <2>2
  <2>4. line \in Seq(Symbols) /\ line # <<>> /\ Tail(hs[a]) = v
    BY <1>2, <2>3
  <2>5. /\ words = {} => v = <<>>
        /\ words # {} => v # <<>> /\ v[1] = line[Min(words)]
    <3> HIDE DEF line
    <3> QED
      BY <2>4, HeaderFacts
  <2>6. AnnouncedLength(m) = IF words = {} \/ line[Min(words)] \notin DOMAIN Numbers THEN 0
                             ELSE Max({0, Numbers[line[Min(words)]]})
    BY <1>6 DEF AnnouncedLength
  <2> HIDE DEF v, words, line, a, hs
  <2>7. ContentLengthFrom(hs) = IF v # <<>> /\ v[1] \in DOMAIN Numbers
                                THEN Max({0, Numbers[v[1]]}) ELSE 0
    BY <2>2, <2>4, LengthOfValue
  <2>8. ContentLengthFrom(hs) = AnnouncedLength(m)
    BY <2>5, <2>6, <2>7
  <2>9. AnnouncedLength(m) \in 0..LongMax
    BY <1>4, <2>6, NumberFacts
  <2> QED
    BY <2>8, <2>9 DEF hs
<1>7. QED
  BY <1>5, <1>6

-----------------------------------------------------------------------------
(* The inductive invariant *)

\* What may be in the parser's header list.
HeaderFields == {Header(line) : line \in HeaderLines}

\* The parser object.
ParserRec == [state_ : {"FirstLine", "Headers", "Body", "Complete", "Error"},
              buffer_ : Seq(Symbols), bodyBytesNeeded_ : 0..LongMax,
              first : Seq(Symbols), headers : Seq(HeaderFields), body : Seq(Symbols),
              keepAlive : BOOLEAN]

\* The types that the proofs need: ParserTypeOK, with those of the parser's sequences.
ParserTypes ==
    /\ role \in {"request", "response"}
    /\ msg \in Messages(role) \cup {NoMessage}
    /\ fed \in 0..Len(Wire(msg))
    /\ pc \in {"between", "wait", "process"}
    /\ status \in {"NeedMoreData", "Complete", "Error"}
    /\ parser \in ParserRec

\* The parser p has the first line and the first k header lines of m.
HeadParsed(p, m, k) ==
    /\ p.first = m.first /\ ParseFirstLine(m.first)
    /\ k \in 0..Len(m.headers)
    /\ p.headers = [i \in 1..k |-> Header(m.headers[i])]
    /\ \A i \in 1..k : ParseHeaderLine(m.headers[i])

\* Its buffer holds what has arrived of m after the first o symbols.
Buffers(p, m, f, o) == o <= f /\ p.buffer_ = SubSeq(Wire(m), o + 1, f)

\* What the parser has made of the f symbols of m that it was given.
Progress(p, m, f) ==
    /\ p.state_ = "FirstLine" => Buffers(p, m, f, 0) /\ p.headers = <<>>
    /\ p.state_ = "Headers" =>
          \E k \in 0..Len(m.headers) : HeadParsed(p, m, k) /\ Buffers(p, m, f, LengthTo(m, k))
    /\ p.state_ = "Body" => /\ HeadParsed(p, m, Len(m.headers))
                            /\ Buffers(p, m, f, HeadLength(m))
                            /\ p.bodyBytesNeeded_ = AnnouncedLength(m)
    /\ p.state_ = "Complete" => /\ HeadParsed(p, m, Len(m.headers))
                                /\ HeadLength(m) + AnnouncedLength(m) <= f
                                /\ p.body = SubSeq(m.body, 1, AnnouncedLength(m))
                                /\ Len(p.body) = AnnouncedLength(m)
                                /\ Len(p.buffer_) <= f
    /\ p.state_ = "Error" => /\ \E r \in RefusedAt(m) : r <= f
                             /\ Len(p.buffer_) <= f

\* What process() returns: it goes on as long as it can.
Verdict(p, st) ==
    /\ st = "Complete" <=> p.state_ = "Complete"
    /\ st = "Error" <=> p.state_ = "Error"
    /\ p.state_ \in {"FirstLine", "Headers"} => LineEnds(p.buffer_) = {}
    /\ p.state_ = "Body" => Len(p.buffer_) < p.bodyBytesNeeded_

\* How pc, status and the parser go together.
InStep ==
    /\ pc = "between" => msg = NoMessage /\ fed = 0 /\ parser = FreshParser
    /\ pc # "wait" => status = "NeedMoreData" /\ parser.state_ \notin {"Complete", "Error"}
    /\ pc = "wait" => Verdict(parser, status)

\* The inductive invariant.
ParserInv == ParserTypes /\ Progress(parser, msg, fed) /\ InStep

\* A step of process() is correct when it ends like this.
Processed ==
    /\ parser' \in ParserRec
    /\ Progress(parser', msg, fed)
    /\ pc' = "process" => /\ parser'.state_ \notin {"Complete", "Error"}
                          /\ status' = "NeedMoreData"
    /\ pc' = "wait" => /\ Verdict(parser', status')
                       /\ status' \in {"NeedMoreData", "Complete", "Error"}
    /\ pc' \in {"process", "wait"}
    /\ UNCHANGED <<role, msg, fed>>

\* Progress depends on the parser, the message and what has arrived of it, and on role,
\* which never changes.
LEMMA KeepsProgress ==
  ASSUME NEW p, NEW f, Progress(p, msg, f), parser' = p, fed' = f, UNCHANGED <<role, msg>>
  PROVE  Progress(parser, msg, fed)'
<1>1. \A x : ParseFirstLine(x)' <=> ParseFirstLine(x)
  BY DEF ParseFirstLine
<1>2. RefusedAt(msg)' = RefusedAt(msg)
  BY DEF RefusedAt, ParseFirstLine
<1>3. \A k : HeadParsed(parser, msg, k)' <=> HeadParsed(p, msg, k)
  BY DEF HeadParsed, ParseFirstLine
<1>4. QED
  BY <1>2, <1>3 DEF Progress, Buffers

\* The message and its symbols.
LEMMA ArrivingMessage ==
  ASSUME ParserTypes
  PROVE  IsMessage(msg) /\ Wire(msg) \in Seq(Symbols) /\ fed \in Nat /\ fed <= Len(Wire(msg))
<1>1. IsMessage(msg)
  BY MessageFacts DEF ParserTypes
<1>2. Wire(msg) \in Seq(Symbols)
  BY <1>1, WireLines
<1>3. QED
  BY <1>1, <1>2 DEF ParserTypes

\* The buffer holds no more than has arrived.
LEMMA BufferFits ==
  ASSUME ParserTypes, NEW o \in Nat, Buffers(parser, msg, fed, o)
  PROVE  Len(parser.buffer_) = fed - o /\ Len(parser.buffer_) <= fed
<1>1. Wire(msg) \in Seq(Symbols) /\ fed \in o..Len(Wire(msg))
  BY ArrivingMessage DEF Buffers
<1>2. Len(SubSeq(Wire(msg), o + 1, fed)) = fed - o
  BY <1>1, SubSeqElements
<1>3. QED
  BY <1>1, <1>2 DEF Buffers

\* extractLine() on a buffer that begins with a line of the message.
LEMMA BufferedLine ==
  ASSUME ParserTypes, NEW o \in Nat, Buffers(parser, msg, fed, o),
         NEW line \in Seq(Symbols), LineEnds(line) = {}, LineAt(Wire(msg), o, line)
  PROVE  /\ LineEnds(parser.buffer_) # {} <=> o + Len(line) + 2 <= fed
         /\ o + Len(line) + 2 <= fed =>
              /\ Line(parser.buffer_) = line
              /\ AfterLine(parser.buffer_) = SubSeq(Wire(msg), (o + Len(line) + 2) + 1, fed)
              /\ AfterLine(parser.buffer_) \in Seq(Symbols)
<1>1. Wire(msg) \in Seq(Symbols) /\ fed \in o..Len(Wire(msg))
  BY ArrivingMessage DEF Buffers
<1>2. parser.buffer_ = SubSeq(Wire(msg), o + 1, fed)
  BY DEF Buffers
<1>3. Len(line) \in Nat /\ o + Len(line) + 3 = (o + Len(line) + 2) + 1
  OBVIOUS
<1>4. /\ LineEnds(parser.buffer_) # {} <=> o + Len(line) + 2 <= fed
      /\ o + Len(line) + 2 <= fed =>
            /\ Line(parser.buffer_) = line
            /\ AfterLine(parser.buffer_) = SubSeq(Wire(msg), o + Len(line) + 3, fed)
  BY <1>1, <1>2, ExtractLine
<1>5. o + Len(line) + 2 <= fed => SubSeq(Wire(msg), (o + Len(line) + 2) + 1, fed) \in Seq(Symbols)
  <2>1. SUFFICES ASSUME o + Len(line) + 2 <= fed
                 PROVE  SubSeq(Wire(msg), (o + Len(line) + 2) + 1, fed) \in Seq(Symbols)
    OBVIOUS
  <2>2. o + Len(line) + 2 \in Nat /\ fed \in (o + Len(line) + 2)..Len(Wire(msg))
    BY <1>1, <1>3, <2>1
  <2> QED
    BY <1>1, <2>2, SubSeqElements
<1>6. QED
  BY <1>3, <1>4, <1>5

\* The line that follows k header lines: the next one, or the blank line.
LEMMA NextLineAt ==
  ASSUME ParserTypes, NEW k \in 0..Len(msg.headers), Buffers(parser, msg, fed, LengthTo(msg, k)),
         LineEnds(parser.buffer_) # {}
  PROVE  /\ k < Len(msg.headers) =>
              /\ k + 1 \in 1..Len(msg.headers) /\ k + 1 \in 0..Len(msg.headers)
              /\ Line(parser.buffer_) = msg.headers[k + 1]
              /\ Line(parser.buffer_) # <<>>
              /\ LengthTo(msg, k + 1) <= fed
              /\ AfterLine(parser.buffer_) = SubSeq(Wire(msg), LengthTo(msg, k + 1) + 1, fed)
         /\ k = Len(msg.headers) =>
              /\ Line(parser.buffer_) = <<>>
              /\ HeadLength(msg) <= fed
              /\ AfterLine(parser.buffer_) = SubSeq(Wire(msg), HeadLength(msg) + 1, fed)
         /\ AfterLine(parser.buffer_) \in Seq(Symbols)
<1> DEFINE n == Len(msg.headers)
<1>1. IsMessage(msg) /\ n \in Nat
  BY ArrivingMessage DEF IsMessage
<1>2. LengthTo(msg, k) \in Nat
  BY <1>1, WireLines
<1>3. CASE k < n
  <2>1. k \in 0..(n - 1) /\ k + 1 \in 1..n /\ k + 1 \in 0..n
    BY <1>1, <1>3
  <2> DEFINE line == msg.headers[k + 1]
  <2>2. line \in Seq(Symbols) /\ LineEnds(line) = {} /\ line # <<>>
    BY <1>1, <2>1, HeaderLineFacts DEF IsMessage
  <2>3. /\ LineAt(Wire(msg), LengthTo(msg, k), line)
        /\ LengthTo(msg, k + 1) = LengthTo(msg, k) + Len(line) + 2
    BY <1>1, <2>1, WireLines
  <2> HIDE DEF line
  <2>4. /\ LengthTo(msg, k) + Len(line) + 2 <= fed
        /\ Line(parser.buffer_) = line
        /\ AfterLine(parser.buffer_) = SubSeq(Wire(msg), (LengthTo(msg, k) + Len(line) + 2) + 1, fed)
        /\ AfterLine(parser.buffer_) \in Seq(Symbols)
    BY <1>2, <2>2, <2>3, BufferedLine
  <2>5. /\ LengthTo(msg, k + 1) <= fed
        /\ AfterLine(parser.buffer_) = SubSeq(Wire(msg), LengthTo(msg, k + 1) + 1, fed)
    BY <2>3, <2>4, Zenon
  <2>6. k # n
    BY <1>1, <1>3
  <2> QED
    BY <2>1, <2>2, <2>4, <2>5, <2>6, Zenon DEF line
<1>4. CASE k = n
  <2>1. <<>> \in Seq(Symbols) /\ LineEnds(<<>>) = {} /\ Len(<<>>) = 0
    BY DEF LineEnds
  <2>2. LineAt(Wire(msg), LengthTo(msg, k), <<>>) /\ HeadLength(msg) = LengthTo(msg, k) + 2
    BY <1>1, <1>4, WireLines
  <2>3. LengthTo(msg, k) + Len(<<>>) + 2 = HeadLength(msg)
    BY <1>2, <2>1, <2>2
  <2>4. /\ LengthTo(msg, k) + Len(<<>>) + 2 <= fed
        /\ Line(parser.buffer_) = <<>>
        /\ AfterLine(parser.buffer_) = SubSeq(Wire(msg), (LengthTo(msg, k) + Len(<<>>) + 2) + 1, fed)
        /\ AfterLine(parser.buffer_) \in Seq(Symbols)
    BY <1>2, <2>1, <2>2, BufferedLine
  <2> QED
    BY <1>4, <2>3, <2>4
<1>5. QED
  BY <1>1, <1>3, <1>4

\* process() has no line: it says so and waits.
LEMMA NoLineCorrect ==
  ASSUME ParserInv, NoLine
  PROVE  Processed
<1>1. parser' = parser /\ pc' = "wait" /\ status' = "NeedMoreData" /\ UNCHANGED <<role, msg, fed>>
  BY DEF NoLine, Return
<1>2. Verdict(parser, "NeedMoreData")
  BY DEF NoLine, Verdict
<1>3. QED
  BY <1>1, <1>2 DEF ParserInv, ParserTypes, Processed

\* The first line is the one that was sent.
LEMMA FirstLineCorrect ==
  ASSUME ParserInv, FirstLine
  PROVE  Processed
<1>1. /\ ParserTypes /\ parser \in ParserRec /\ parser.state_ = "FirstLine"
      /\ LineEnds(parser.buffer_) # {} /\ pc = "process" /\ status = "NeedMoreData"
      /\ Buffers(parser, msg, fed, 0) /\ parser.headers = <<>>
  BY DEF ParserInv, ParserTypes, Progress, InStep, FirstLine, HaveLine, Continue, Return
<1>2. IsMessage(msg) /\ msg.first \in Seq(Symbols) /\ LineEnds(msg.first) = {}
  BY <1>1, ArrivingMessage DEF IsMessage
<1>3. /\ LineAt(Wire(msg), 0, msg.first) /\ LengthTo(msg, 0) = Len(msg.first) + 2
      /\ Len(msg.headers) \in Nat
  BY <1>2, WireLines DEF IsMessage
<1>4. 0 + Len(msg.first) + 2 = LengthTo(msg, 0) /\ 0 \in Nat
  BY <1>2, <1>3
<1>5. /\ LengthTo(msg, 0) <= fed
      /\ Line(parser.buffer_) = msg.first
      /\ AfterLine(parser.buffer_) = SubSeq(Wire(msg), LengthTo(msg, 0) + 1, fed)
      /\ AfterLine(parser.buffer_) \in Seq(Symbols)
  BY <1>1, <1>2, <1>3, <1>4, BufferedLine
<1>6. CASE ParseFirstLine(msg.first)
  <2> DEFINE p == [parser EXCEPT !.state_ = "Headers", !.first = msg.first,
                                 !.buffer_ = AfterLine(parser.buffer_)]
  <2>1. parser' = p /\ UNCHANGED <<role, msg, fed, pc, status>>
    BY <1>5, <1>6 DEF FirstLine, Continue
  <2>2. /\ p \in ParserRec /\ p.state_ = "Headers" /\ p.first = msg.first
        /\ p.headers = <<>> /\ p.buffer_ = AfterLine(parser.buffer_)
    BY <1>1, <1>2, <1>5 DEF ParserRec
  <2> HIDE DEF p
  <2>3. HeadParsed(p, msg, 0)
    <3>1. <<>> = [i \in 1..0 |-> Header(msg.headers[i])]
      OBVIOUS
    <3> QED
      BY <1>3, <1>6, <2>2, <3>1 DEF HeadParsed
  <2>4. Buffers(p, msg, fed, LengthTo(msg, 0))
    BY <1>5, <2>2 DEF Buffers
  <2>5. Progress(p, msg, fed)
    BY <1>3, <2>2, <2>3, <2>4 DEF Progress
  <2> QED
    BY <1>1, <2>1, <2>2, <2>5 DEF Processed
<1>7. CASE ~ParseFirstLine(msg.first)
  <2> DEFINE p == [parser EXCEPT !.state_ = "Error"]
  <2>1. parser' = p /\ pc' = "wait" /\ status' = "Error" /\ UNCHANGED <<role, msg, fed>>
    BY <1>5, <1>7 DEF FirstLine, Return
  <2>2. p \in ParserRec /\ p.state_ = "Error" /\ p.buffer_ = parser.buffer_
    BY <1>1 DEF ParserRec
  <2> HIDE DEF p
  <2>3. RefusedAt(msg) = {LengthTo(msg, 0)}
    BY <1>3, <1>7 DEF RefusedAt
  <2>4. Len(parser.buffer_) <= fed
    BY <1>1, BufferFits
  <2>5. Progress(p, msg, fed)
    BY <1>5, <2>2, <2>3, <2>4 DEF Progress
  <2>6. Verdict(p, "Error")
    BY <2>2 DEF Verdict
  <2> QED
    BY <2>1, <2>2, <2>5, <2>6 DEF Processed
<1>8. QED
  BY <1>6, <1>7

\* A header line is the next one that was sent.
LEMMA HeaderLineCorrect ==
  ASSUME ParserInv, HeaderLine
  PROVE  Processed
<1>1. /\ ParserTypes /\ parser \in ParserRec /\ parser.state_ = "Headers"
      /\ LineEnds(parser.buffer_) # {} /\ Line(parser.buffer_) # <<>>
      /\ pc = "process" /\ status = "NeedMoreData"
  BY DEF ParserInv, ParserTypes, InStep, HeaderLine, HaveLine, Continue, Return
<1>2. PICK k \in 0..Len(msg.headers) :
         HeadParsed(parser, msg, k) /\ Buffers(parser, msg, fed, LengthTo(msg, k))
  BY <1>1 DEF ParserInv, Progress
<1>3. IsMessage(msg) /\ Len(msg.headers) \in Nat
  BY <1>1, ArrivingMessage DEF IsMessage
<1>4. k # Len(msg.headers)
  BY <1>1, <1>2, NextLineAt
<1>5. /\ k + 1 \in 1..Len(msg.headers) /\ k + 1 \in 0..Len(msg.headers)
      /\ Line(parser.buffer_) = msg.headers[k + 1]
      /\ LengthTo(msg, k + 1) <= fed
      /\ AfterLine(parser.buffer_) = SubSeq(Wire(msg), LengthTo(msg, k + 1) + 1, fed)
      /\ AfterLine(parser.buffer_) \in Seq(Symbols)
  <2>1. k < Len(msg.headers)
    BY <1>3, <1>4
  <2> QED
    BY <1>1, <1>2, <2>1, NextLineAt
<1> DEFINE line == msg.headers[k + 1]
<1>6. line \in HeaderLines
  BY <1>3, <1>5 DEF IsMessage
<1>7. CASE ParseHeaderLine(line)
  <2> DEFINE hs == Append(parser.headers, Header(line))
             p  == [parser EXCEPT !.headers = hs, !.buffer_ = AfterLine(parser.buffer_)]
  <2>1. parser' = p /\ UNCHANGED <<role, msg, fed, pc, status>>
    BY <1>5, <1>7 DEF HeaderLine, Continue
  <2>2. parser.headers \in Seq(HeaderFields) /\ Header(line) \in HeaderFields
    BY <1>1, <1>6 DEF ParserRec, HeaderFields
  <2>3. hs \in Seq(HeaderFields)
    <3> HIDE DEF line
    <3> QED
      BY <2>2
  <2>4. hs = [i \in 1..(k + 1) |-> Header(msg.headers[i])]
    <3>1. parser.headers = [i \in 1..k |-> Header(msg.headers[i])] /\ k \in Nat
      BY <1>2 DEF HeadParsed
    <3>2. Len(parser.headers) = k /\ \A i \in 1..k : parser.headers[i] = Header(msg.headers[i])
      BY <2>2, <3>1
    <3>3. Len(hs) = k + 1 /\ \A i \in 1..k : hs[i] = parser.headers[i] /\ hs[k + 1] = Header(line)
      BY <2>2, <3>1, <3>2
    <3> HIDE DEF hs
    <3>4. hs = [i \in 1..(k + 1) |-> hs[i]]
      BY <2>3, <3>1, <3>3
    <3>5. ASSUME NEW i \in 1..(k + 1) PROVE hs[i] = Header(msg.headers[i])
      <4>1. CASE i = k + 1
        BY <2>2, <2>3, <3>1, <3>3, <4>1 DEF hs
      <4>2. CASE i \in 1..k
        BY <3>2, <3>3, <4>2
      <4> QED
        BY <3>1, <4>1, <4>2
    <3> QED
      BY <3>4, <3>5
  <2> HIDE DEF hs
  <2>5. /\ p \in ParserRec /\ p.state_ = "Headers" /\ p.first = parser.first
        /\ p.headers = hs /\ p.buffer_ = AfterLine(parser.buffer_)
    BY <1>1, <1>5, <2>3 DEF ParserRec
  <2> HIDE DEF p
  <2>6. HeadParsed(p, msg, k + 1)
    <3>1. \A i \in 1..(k + 1) : ParseHeaderLine(msg.headers[i])
      <4>1. \A i \in 1..k : ParseHeaderLine(msg.headers[i])
        BY <1>2 DEF HeadParsed
      <4>2. \A i \in 1..(k + 1) : i \in 1..k \/ i = k + 1
        BY <1>3
      <4> QED
        BY <1>7, <4>1, <4>2
    <3> QED
      BY <1>2, <1>5, <2>4, <2>5, <3>1 DEF HeadParsed
  <2>7. Buffers(p, msg, fed, LengthTo(msg, k + 1))
    BY <1>5, <2>5 DEF Buffers
  <2>8. Progress(p, msg, fed)
    BY <1>5, <2>5, <2>6, <2>7 DEF Progress
  <2> QED
    BY <1>1, <2>1, <2>5, <2>8 DEF Processed
<1>8. CASE ~ParseHeaderLine(line)
  <2> DEFINE p == [parser EXCEPT !.state_ = "Error"]
  <2>1. parser' = p /\ pc' = "wait" /\ status' = "Error" /\ UNCHANGED <<role, msg, fed>>
    BY <1>5, <1>8 DEF HeaderLine, Return
  <2>2. p \in ParserRec /\ p.state_ = "Error" /\ p.buffer_ = parser.buffer_
    BY <1>1 DEF ParserRec
  <2> HIDE DEF p
  <2>3. LengthTo(msg, k + 1) \in RefusedAt(msg)
    <3>1. ParseFirstLine(msg.first) /\ DOMAIN msg.headers = 1..Len(msg.headers)
      BY <1>2, <1>3 DEF HeadParsed, IsMessage
    <3> QED
      BY <1>5, <1>8, <3>1 DEF RefusedAt
  <2>4. Len(parser.buffer_) <= fed
    <3>1. LengthTo(msg, k) \in Nat
      BY <1>2, <1>3, WireLines
    <3> QED
      BY <1>1, <1>2, <3>1, BufferFits
  <2>5. Progress(p, msg, fed)
    BY <1>5, <2>2, <2>3, <2>4 DEF Progress
  <2>6. Verdict(p, "Error")
    BY <2>2 DEF Verdict
  <2> QED
    BY <2>1, <2>2, <2>5, <2>6 DEF Processed
<1>9. QED
  BY <1>7, <1>8

\* The blank line ends the headers, and the length is the one they announce.
LEMMA BlankLineCorrect ==
  ASSUME ParserInv, BlankLine
  PROVE  Processed
<1>1. /\ ParserTypes /\ parser \in ParserRec /\ parser.state_ = "Headers"
      /\ LineEnds(parser.buffer_) # {} /\ Line(parser.buffer_) = <<>>
      /\ pc = "process" /\ status = "NeedMoreData"
  BY DEF ParserInv, ParserTypes, InStep, BlankLine, HaveLine, Continue
<1> DEFINE n == Len(msg.headers)
<1>2. PICK k \in 0..n :
         HeadParsed(parser, msg, k) /\ Buffers(parser, msg, fed, LengthTo(msg, k))
  BY <1>1 DEF ParserInv, Progress
<1>3. IsMessage(msg) /\ n \in Nat /\ DOMAIN msg.headers = 1..n
  BY <1>1, ArrivingMessage DEF IsMessage
<1>4. k = n
  <2>1. ~(k < n)
    BY <1>1, <1>2, NextLineAt
  <2> QED
    BY <1>3, <2>1
<1>5. /\ HeadLength(msg) <= fed
      /\ AfterLine(parser.buffer_) = SubSeq(Wire(msg), HeadLength(msg) + 1, fed)
      /\ AfterLine(parser.buffer_) \in Seq(Symbols)
  BY <1>1, <1>2, <1>4, NextLineAt
<1> DEFINE q == FinalizeHeaders(parser)
           p == [q EXCEPT !.state_ = "Body", !.buffer_ = AfterLine(parser.buffer_)]
<1>6. parser' = p /\ UNCHANGED <<role, msg, fed, pc, status>>
  BY DEF BlankLine, Continue
<1>7. parser.headers = SentHeaders(msg)
  BY <1>2, <1>3, <1>4 DEF HeadParsed, SentHeaders
<1>8. ContentLengthFrom(parser.headers) = AnnouncedLength(msg) /\ AnnouncedLength(msg) \in 0..LongMax
  BY <1>3, <1>7, AnnouncedIsParsed
<1>9. ConnectionKeepAlive(parser.headers, Version(parser)) \in BOOLEAN
  BY DEF ConnectionKeepAlive
<1>10. /\ q \in ParserRec /\ q.bodyBytesNeeded_ = AnnouncedLength(msg)
       /\ q.first = parser.first /\ q.headers = parser.headers
  BY <1>1, <1>8, <1>9 DEF FinalizeHeaders, ParserRec
<1> HIDE DEF q
<1>11. /\ p \in ParserRec /\ p.state_ = "Body" /\ p.bodyBytesNeeded_ = AnnouncedLength(msg)
       /\ p.first = parser.first /\ p.headers = parser.headers
       /\ p.buffer_ = AfterLine(parser.buffer_)
  BY <1>5, <1>10 DEF ParserRec
<1> HIDE DEF p
<1>12. HeadParsed(p, msg, n) /\ Buffers(p, msg, fed, HeadLength(msg))
  BY <1>2, <1>4, <1>5, <1>11 DEF HeadParsed, Buffers
<1>13. Progress(p, msg, fed)
  BY <1>11, <1>12 DEF Progress
<1>14. QED
  BY <1>1, <1>6, <1>11, <1>13 DEF Processed

\* The body is the one that was sent, up to the length that was announced.
LEMMA TakeBodyCorrect ==
  ASSUME ParserInv, TakeBody
  PROVE  Processed
<1> DEFINE need == parser.bodyBytesNeeded_
           b == parser.buffer_
           hl == HeadLength(msg)
<1>1. /\ ParserTypes /\ parser \in ParserRec /\ parser.state_ = "Body" /\ pc = "process"
      /\ HeadParsed(parser, msg, Len(msg.headers)) /\ Buffers(parser, msg, fed, hl)
      /\ need = AnnouncedLength(msg)
  BY DEF ParserInv, ParserTypes, Progress, TakeBody, BodyIs, Return
<1>2. /\ IsMessage(msg) /\ Wire(msg) \in Seq(Symbols) /\ fed \in Nat /\ fed <= Len(Wire(msg))
      /\ msg.body \in Seq(Symbols)
  BY <1>1, ArrivingMessage DEF IsMessage
<1>3. /\ hl \in Nat /\ Len(Wire(msg)) = hl + Len(msg.body)
      /\ \A i \in 1..Len(msg.body) : Wire(msg)[hl + i] = msg.body[i]
  <2>1. LengthTo(msg, Len(msg.headers)) \in Nat /\ hl = LengthTo(msg, Len(msg.headers)) + 2
    <3>1. Len(msg.headers) \in 0..Len(msg.headers)
      BY <1>2 DEF IsMessage
    <3> QED
      BY <1>2, <3>1, WireLines
  <2> QED
    BY <1>2, <2>1, WireLines
<1>4. need \in Nat /\ b \in Seq(Symbols)
  BY <1>1 DEF ParserRec
<1> HIDE DEF hl
<1>5. /\ hl <= fed /\ Len(b) = fed - hl
      /\ \A i \in 1..(fed - hl) : b[i] = Wire(msg)[hl + i]
  <2>1. hl <= fed /\ b = SubSeq(Wire(msg), hl + 1, fed)
    BY <1>1 DEF Buffers
  <2>2. fed \in hl..Len(Wire(msg))
    BY <1>2, <1>3, <2>1
  <2> DEFINE w == Wire(msg)
             c == SubSeq(w, hl + 1, fed)
  <2>3. Len(c) = fed - hl /\ \A i \in 1..(fed - hl) : c[i] = w[hl + i]
    <3> HIDE DEF w
    <3>1. w \in Seq(Symbols) /\ hl \in Nat /\ fed \in hl..Len(w)
      BY <1>2, <1>3, <2>2 DEF w
    <3> QED
      BY <3>1, SubSeqElements
  <2>4. b = c
    BY <2>1
  <2> HIDE DEF b, c
  <2> QED
    BY <2>1, <2>3, <2>4
<1>6. CASE Len(b) < need
  <2>1. parser' = parser /\ pc' = "wait" /\ status' = "NeedMoreData" /\ UNCHANGED <<role, msg, fed>>
    BY <1>6 DEF TakeBody, BodyIs, Return
  <2>2. Verdict(parser, "NeedMoreData")
    BY <1>1, <1>6 DEF Verdict
  <2> QED
    BY <2>1, <2>2 DEF ParserInv, ParserTypes, Processed
<1>7. CASE ~(Len(b) < need)
  <2> DEFINE body == SubSeq(b, 1, need)
             left == SubSeq(b, need + 1, Len(b))
             p == [parser EXCEPT !.state_ = "Complete", !.body = body, !.buffer_ = left]
  <2>1. parser' = p /\ pc' = "wait" /\ status' = "Complete" /\ UNCHANGED <<role, msg, fed>>
    BY <1>7 DEF TakeBody, BodyIs, Return
  <2>2. hl + need <= fed /\ need <= Len(msg.body) /\ need \in 0..Len(b)
    BY <1>2, <1>3, <1>4, <1>5, <1>7
  <2>3. body \in Seq(Symbols) /\ Len(body) = need /\ \A i \in 1..need : body[i] = b[i]
    <3>1. need \in 0..Len(b) /\ 0 + 1 = 1 /\ need - 0 = need
      BY <1>4, <2>2
    <3>2. /\ SubSeq(b, 0 + 1, need) \in Seq(Symbols) /\ Len(SubSeq(b, 0 + 1, need)) = need - 0
          /\ \A i \in 1..(need - 0) : SubSeq(b, 0 + 1, need)[i] = b[0 + i]
      BY <1>4, <3>1, SubSeqElements
    <3> HIDE DEF b, need
    <3>3. \A i \in 1..need : 0 + i = i
      OBVIOUS
    <3> QED
      BY <3>1, <3>2, <3>3
  <2>4. body = SubSeq(msg.body, 1, need)
    <3> DEFINE sent == SubSeq(msg.body, 1, need)
    <3>1. need \in 0..Len(msg.body) /\ 0 + 1 = 1 /\ need - 0 = need
      BY <1>2, <1>4, <2>2
    <3>2. sent \in Seq(Symbols) /\ Len(sent) = need /\ \A i \in 1..need : sent[i] = msg.body[i]
      <4>1. /\ SubSeq(msg.body, 0 + 1, need) \in Seq(Symbols)
            /\ Len(SubSeq(msg.body, 0 + 1, need)) = need - 0
            /\ \A i \in 1..(need - 0) : SubSeq(msg.body, 0 + 1, need)[i] = msg.body[0 + i]
        BY <1>2, <3>1, SubSeqElements
      <4> HIDE DEF need
      <4>2. \A i \in 1..need : 0 + i = i
        OBVIOUS
      <4> QED
        BY <3>1, <4>1, <4>2
    <3> HIDE DEF sent, body
    <3>3. ASSUME NEW i \in 1..need PROVE body[i] = sent[i]
      <4>1. i \in 1..(fed - hl) /\ i \in 1..Len(msg.body)
        BY <1>2, <1>3, <1>4, <2>2
      <4> QED
        BY <1>3, <1>5, <2>3, <3>2, <4>1
    <3>4. body = sent
      BY <2>3, <3>2, <3>3, SameElements
    <3> QED
      BY <3>4 DEF sent
  <2>5. left \in Seq(Symbols) /\ Len(left) <= fed
    <3>1. left \in Seq(Symbols) /\ Len(left) = Len(b) - need
      <4>1. Len(b) \in need..Len(b)
        BY <1>4, <2>2
      <4> QED
        BY <1>4, <4>1, SubSeqElements
    <3>2. fed \in Nat /\ hl \in Nat /\ Len(b) = fed - hl /\ need \in Nat
      BY <1>2, <1>3, <1>4, <1>5
    <3> HIDE DEF b, need, left
    <3>3. Len(left) <= fed
      BY <3>1, <3>2
    <3> QED
      BY <3>1, <3>3
  <2> HIDE DEF body, left
  <2>6. /\ p \in ParserRec /\ p.state_ = "Complete" /\ p.body = body /\ p.buffer_ = left
        /\ p.first = parser.first /\ p.headers = parser.headers
    BY <1>1, <2>3, <2>5 DEF ParserRec
  <2> HIDE DEF p
  <2>7. HeadParsed(p, msg, Len(msg.headers))
    BY <1>1, <2>6 DEF HeadParsed
  <2>8. Progress(p, msg, fed)
    BY <1>1, <2>2, <2>3, <2>4, <2>5, <2>6, <2>7 DEF Progress, hl
  <2>9. Verdict(p, "Complete")
    BY <2>6 DEF Verdict
  <2> QED
    BY <2>1, <2>6, <2>8, <2>9 DEF Processed
<1>8. QED
  BY <1>6, <1>7

\* consume() appends what comes next, wherever the message is cut.
LEMMA ConsumeCorrect ==
  ASSUME ParserInv, NEW n \in 1..(Len(Wire(msg)) - fed), Consume(n)
  PROVE  ParserInv'
<1>1. /\ ParserTypes /\ parser \in ParserRec /\ pc = "wait" /\ status = "NeedMoreData"
      /\ Progress(parser, msg, fed) /\ Verdict(parser, status)
  BY DEF ParserInv, ParserTypes, InStep, Consume
<1>2. /\ IsMessage(msg) /\ Wire(msg) \in Seq(Symbols) /\ fed \in Nat /\ fed <= Len(Wire(msg))
      /\ fed + n \in 0..Len(Wire(msg)) /\ n \in Nat
  BY <1>1, ArrivingMessage
<1> DEFINE chunk == SubSeq(Wire(msg), fed + 1, fed + n)
           p == [parser EXCEPT !.buffer_ = parser.buffer_ \o chunk]
<1>3. /\ parser' = p /\ fed' = fed + n /\ pc' = "process" /\ status' = "NeedMoreData"
      /\ UNCHANGED <<role, msg>>
  BY <1>1 DEF Consume
<1>4. chunk \in Seq(Symbols) /\ parser.buffer_ \in Seq(Symbols)
  <2>1. fed + n \in fed..Len(Wire(msg))
    BY <1>2
  <2> QED
    BY <1>1, <1>2, <2>1, SubSeqElements DEF ParserRec
<1>5. ASSUME NEW o \in Nat, Buffers(parser, msg, fed, o)
      PROVE  o <= fed + n /\ parser.buffer_ \o chunk = SubSeq(Wire(msg), o + 1, fed + n)
  <2>1. o <= fed /\ parser.buffer_ = SubSeq(Wire(msg), o + 1, fed)
    BY <1>5 DEF Buffers
  <2> QED
    BY <1>2, <2>1, SubSeqsJoin
<1>6. parser.buffer_ \o chunk \in Seq(Symbols)
  BY <1>4, ConcatElements
<1>7. /\ p \in ParserRec /\ p.state_ = parser.state_ /\ p.first = parser.first
      /\ p.headers = parser.headers /\ p.bodyBytesNeeded_ = parser.bodyBytesNeeded_
      /\ p.buffer_ = parser.buffer_ \o chunk
  <2> HIDE DEF chunk
  <2> QED
    BY <1>1, <1>6 DEF ParserRec
<1> HIDE DEF p, chunk
<1>8. p.state_ \in {"FirstLine", "Headers", "Body"}
  BY <1>1, <1>7 DEF Verdict, ParserRec
<1>9. \A o \in Nat : Buffers(parser, msg, fed, o) => Buffers(p, msg, fed + n, o)
  BY <1>5, <1>7 DEF Buffers
<1>10. \A k : HeadParsed(parser, msg, k) => HeadParsed(p, msg, k)
  BY <1>7 DEF HeadParsed
<1>11. HeadLength(msg) \in Nat /\ \A k \in 0..Len(msg.headers) : LengthTo(msg, k) \in Nat
  <2>1. \A k \in 0..Len(msg.headers) : LengthTo(msg, k) \in Nat
    BY <1>2, WireLines
  <2>2. HeadLength(msg) = LengthTo(msg, Len(msg.headers)) + 2
    BY DEF HeadLength
  <2>3. Len(msg.headers) \in 0..Len(msg.headers)
    BY <1>2 DEF IsMessage
  <2> QED
    BY <2>1, <2>2, <2>3
<1>12. Progress(p, msg, fed + n)
  <2>1. CASE p.state_ = "FirstLine"
    BY <1>1, <1>7, <1>9, <2>1 DEF Progress
  <2>2. CASE p.state_ = "Headers"
    <3>1. PICK k \in 0..Len(msg.headers) :
             HeadParsed(parser, msg, k) /\ Buffers(parser, msg, fed, LengthTo(msg, k))
      BY <1>1, <1>7, <2>2 DEF Progress
    <3>2. HeadParsed(p, msg, k) /\ Buffers(p, msg, fed + n, LengthTo(msg, k))
      BY <1>9, <1>10, <1>11, <3>1
    <3> QED
      BY <2>2, <3>2 DEF Progress
  <2>3. CASE p.state_ = "Body"
    <3>1. /\ HeadParsed(parser, msg, Len(msg.headers))
          /\ Buffers(parser, msg, fed, HeadLength(msg))
          /\ parser.bodyBytesNeeded_ = AnnouncedLength(msg)
      BY <1>1, <1>7, <2>3 DEF Progress
    <3>2. HeadParsed(p, msg, Len(msg.headers)) /\ Buffers(p, msg, fed + n, HeadLength(msg))
      BY <1>9, <1>10, <1>11, <3>1
    <3> QED
      BY <1>7, <2>3, <3>1, <3>2 DEF Progress
  <2> QED
    BY <1>8, <2>1, <2>2, <2>3
<1>13. Progress(p, msg, fed + n) => Progress(parser, msg, fed)'
  BY <1>3, KeepsProgress
<1>14. ParserTypes'
  BY <1>1, <1>2, <1>3, <1>7 DEF ParserTypes
<1>15. InStep'
  BY <1>3, <1>8 DEF InStep
<1>16. QED
  BY <1>12, <1>13, <1>14, <1>15 DEF ParserInv

\* A correct step of process() keeps the invariant.
LEMMA ProcessedKeeps ==
  ASSUME ParserInv, Processed
  PROVE  ParserInv'
<1>1. /\ parser' \in ParserRec /\ Progress(parser', msg, fed) /\ pc' \in {"process", "wait"}
      /\ UNCHANGED <<role, msg, fed>>
  BY DEF Processed
<1>2. Progress(parser, msg, fed)'
  <2>1. PICK p : p = parser'
    OBVIOUS
  <2>2. Progress(p, msg, fed) /\ parser' = p /\ fed' = fed
    BY <1>1, <2>1
  <2> QED
    BY <1>1, <2>2, KeepsProgress
<1>3. status' \in {"NeedMoreData", "Complete", "Error"}
  BY <1>1 DEF Processed
<1>4. ParserTypes'
  BY <1>1, <1>3 DEF ParserInv, ParserTypes
<1>5. InStep'
  <2>1. pc' = "wait" => Verdict(parser, status)'
    BY DEF Processed, Verdict
  <2> QED
    BY <1>1, <2>1 DEF Processed, InStep
<1>6. QED
  BY <1>2, <1>4, <1>5 DEF ParserInv

\* A fresh parser that was given nothing of a message m.
LEMMA FreshFacts ==
  ASSUME NEW m, IsMessage(m)
  PROVE  /\ FreshParser \in ParserRec
         /\ Progress(FreshParser, m, 0)
         /\ Verdict(FreshParser, "NeedMoreData")
         /\ 0 \in 0..Len(Wire(m))
<1>1. /\ FreshParser.state_ = "FirstLine" /\ FreshParser.buffer_ = <<>>
      /\ FreshParser.headers = <<>>
  BY DEF FreshParser
<1>2. FreshParser \in ParserRec
  <2>1. 0 \in 0..LongMax /\ <<>> \in Seq(Symbols) /\ <<>> \in Seq(HeaderFields)
    BY LimitAssumption
  <2> QED
    BY <2>1 DEF FreshParser, ParserRec
<1>3. Wire(m) \in Seq(Symbols) /\ 0 \in 0..Len(Wire(m))
  <2>1. Wire(m) \in Seq(Symbols)
    BY WireLines
  <2> QED
    BY <2>1
<1>4. SubSeq(Wire(m), 0 + 1, 0) = <<>>
  <2> DEFINE w == Wire(m)
  <2>1. w \in Seq(Symbols)
    BY <1>3
  <2> HIDE DEF w
  <2>2. SubSeq(w, 0 + 1, 0) = <<>>
    BY <2>1
  <2> QED
    BY <2>2 DEF w
<1>5. Buffers(FreshParser, m, 0, 0)
  BY <1>1, <1>4 DEF Buffers
<1>6. Progress(FreshParser, m, 0)
  BY <1>1, <1>5 DEF Progress
<1>7. LineEnds(<<>>) = {}
  BY DEF LineEnds
<1>8. Verdict(FreshParser, "NeedMoreData")
  BY <1>1, <1>7 DEF Verdict
<1>9. QED
  BY <1>2, <1>3, <1>6, <1>8

\* Nothing has arrived at first.
LEMMA InitCorrect ==
  ASSUME ParserInit
  PROVE  ParserInv
<1>1. IsMessage(msg)
  BY MessageFacts DEF ParserInit
<1>2. /\ FreshParser \in ParserRec /\ Progress(FreshParser, msg, 0) /\ 0 \in 0..Len(Wire(msg))
  BY <1>1, FreshFacts
<1>3. ParserTypes
  BY <1>2 DEF ParserInit, ParserTypes
<1>4. InStep
  BY DEF ParserInit, InStep, FreshParser
<1>5. QED
  BY <1>2, <1>3, <1>4 DEF ParserInit, ParserInv

\* A message begins to arrive at a fresh parser.
LEMMA BeginCorrect ==
  ASSUME ParserInv, Begin
  PROVE  ParserInv'
<1>1. /\ ParserTypes /\ parser = FreshParser /\ fed = 0 /\ status = "NeedMoreData"
      /\ pc' = "wait" /\ UNCHANGED <<role, fed, status, parser>>
      /\ role \in {"request", "response"}
  BY DEF ParserInv, InStep, ParserTypes, Begin
<1>2. PICK m \in Messages(role) : msg' = m
  BY DEF Begin
<1>3. IsMessage(m)
  BY <1>1, <1>2, MessageFacts
<1>4. /\ FreshParser \in ParserRec /\ Progress(FreshParser, m, 0)
      /\ Verdict(FreshParser, "NeedMoreData") /\ 0 \in 0..Len(Wire(m))
  BY <1>3, FreshFacts
<1>5. ParserTypes'
  BY <1>1, <1>2, <1>4 DEF ParserTypes, Messages
<1>6. Progress(parser, msg, fed)'
  <2>1. /\ FreshParser.state_ = "FirstLine" /\ Buffers(FreshParser, m, 0, 0)
        /\ FreshParser.headers = <<>>
    BY <1>4 DEF FreshParser, Progress
  <2>2. Buffers(parser, msg, fed, 0)'
    BY <1>1, <1>2, <2>1 DEF Buffers
  <2> QED
    BY <1>1, <2>1, <2>2 DEF Progress
<1>7. InStep'
  <2>1. Verdict(parser, status)'
    BY <1>1, <1>4 DEF Verdict
  <2> QED
    BY <1>1, <2>1 DEF InStep
<1>8. QED
  BY <1>5, <1>6, <1>7 DEF ParserInv

\* After reset(), or with a new parser, nothing of the last message is left.
LEMMA RestartCorrect ==
  ASSUME ParserInv, Restart(FreshParser)
  PROVE  ParserInv'
<1>1. /\ role \in {"request", "response"} /\ parser' = FreshParser /\ msg' = NoMessage
      /\ fed' = 0 /\ status' = "NeedMoreData" /\ pc' = "between" /\ role' = role
  BY DEF ParserInv, ParserTypes, Restart
<1>2. IsMessage(NoMessage)
  BY <1>1, MessageFacts
<1>3. /\ FreshParser \in ParserRec /\ Progress(FreshParser, NoMessage, 0)
      /\ 0 \in 0..Len(Wire(NoMessage))
  BY <1>2, FreshFacts
<1>4. ParserTypes'
  BY <1>1, <1>3 DEF ParserTypes
<1>5. Progress(parser, msg, fed)'
  <2>1. /\ FreshParser.state_ = "FirstLine" /\ Buffers(FreshParser, NoMessage, 0, 0)
        /\ FreshParser.headers = <<>>
    BY <1>3 DEF FreshParser, Progress
  <2>2. Buffers(parser, msg, fed, 0)'
    BY <1>1, <2>1 DEF Buffers
  <2> QED
    BY <1>1, <2>1, <2>2 DEF Progress
<1>6. InStep'
  BY <1>1 DEF InStep, FreshParser
<1>7. QED
  BY <1>4, <1>5, <1>6 DEF ParserInv

\* Every step keeps the invariant.
LEMMA NextCorrect ==
  ASSUME ParserInv, [ParserNext]_parserVars
  PROVE  ParserInv'
<1>1. CASE Begin
  BY <1>1, BeginCorrect
<1>2. ASSUME NEW n \in 1..(Len(Wire(msg)) - fed), Consume(n) PROVE ParserInv'
  BY <1>2, ConsumeCorrect
<1>3. CASE Process
  <2>1. Processed
    BY <1>3, NoLineCorrect, FirstLineCorrect, HeaderLineCorrect, BlankLineCorrect,
       TakeBodyCorrect DEF Process
  <2> QED
    BY <2>1, ProcessedKeeps
<1>4. CASE Reset
  BY <1>4, RestartCorrect DEF Reset
<1>5. CASE Abandon
  BY <1>5, RestartCorrect DEF Abandon
<1>6. CASE UNCHANGED parserVars
  <2>1. /\ UNCHANGED <<role, msg, fed, pc, status, parser>>
    BY <1>6 DEF parserVars
  <2>2. Progress(parser, msg, fed)'
    BY <2>1, KeepsProgress DEF ParserInv
  <2>3. ParserTypes'
    BY <2>1 DEF ParserInv, ParserTypes
  <2>4. InStep'
    BY <2>1 DEF ParserInv, InStep, Verdict
  <2> QED
    BY <2>2, <2>3, <2>4 DEF ParserInv
<1>7. QED
  BY <1>1, <1>2, <1>3, <1>4, <1>5, <1>6 DEF ParserNext

\* The parser never gets out of step with the message that is arriving.
LEMMA ParserInvariant == ParserSpec => []ParserInv
<1>1. ParserInit => ParserInv
  BY InitCorrect
<1>2. ParserInv /\ [ParserNext]_parserVars => ParserInv'
  BY NextCorrect
<1>3. QED
  BY <1>1, <1>2, PTL DEF ParserSpec

-----------------------------------------------------------------------------
(* What consume() returns *)

\* As long as there is no line in the buffer, the next line has not arrived.
LEMMA NoLineYet ==
  ASSUME ParserTypes, NEW k \in 0..Len(msg.headers), Buffers(parser, msg, fed, LengthTo(msg, k)),
         LineEnds(parser.buffer_) = {}
  PROVE  /\ k < Len(msg.headers) => fed < LengthTo(msg, k + 1)
         /\ fed < HeadLength(msg)
<1> DEFINE n == Len(msg.headers)
<1>1. IsMessage(msg) /\ n \in Nat /\ fed \in Nat
  BY ArrivingMessage DEF IsMessage
<1>2. /\ \A i \in 0..n : LengthTo(msg, i) \in Nat
      /\ HeadLength(msg) = LengthTo(msg, n) + 2
      /\ \A i, j \in 0..n : i <= j => LengthTo(msg, i) <= LengthTo(msg, j)
  BY <1>1, WireLines
<1>3. CASE k < n
  <2>1. k \in 0..(n - 1) /\ k + 1 \in 1..n /\ k + 1 \in 0..n /\ n \in 0..n /\ k + 1 <= n
    BY <1>1, <1>3
  <2> DEFINE line == msg.headers[k + 1]
  <2>2. line \in Seq(Symbols) /\ LineEnds(line) = {}
    BY <1>1, <2>1, HeaderLineFacts DEF IsMessage
  <2>3. /\ LineAt(Wire(msg), LengthTo(msg, k), line)
        /\ LengthTo(msg, k + 1) = LengthTo(msg, k) + Len(line) + 2
    BY <1>1, <2>1, WireLines
  <2> HIDE DEF line
  <2>4. ~(LengthTo(msg, k) + Len(line) + 2 <= fed)
    BY <1>2, <2>2, <2>3, BufferedLine
  <2>5. LengthTo(msg, k + 1) \in Nat /\ LengthTo(msg, n) \in Nat
        /\ LengthTo(msg, k + 1) <= LengthTo(msg, n)
    BY <1>2, <2>1
  <2>6. ~(LengthTo(msg, k + 1) <= fed)
    BY <2>3, <2>4, Zenon
  <2> QED
    BY <1>1, <1>2, <2>5, <2>6
<1>4. CASE k = n
  <2>1. <<>> \in Seq(Symbols) /\ LineEnds(<<>>) = {} /\ Len(<<>>) = 0
    BY DEF LineEnds
  <2>2. LineAt(Wire(msg), LengthTo(msg, k), <<>>) /\ LengthTo(msg, k) \in Nat
    BY <1>1, <1>2, <1>4, WireLines
  <2>3. ~(LengthTo(msg, k) + Len(<<>>) + 2 <= fed)
    BY <2>1, <2>2, BufferedLine
  <2> QED
    BY <1>1, <1>2, <1>4, <2>1, <2>2, <2>3
<1>5. QED
  BY <1>1, <1>3, <1>4

\* A message whose first k lines are well formed is refused at a later line, or not at all.
LEMMA RefusedLater ==
  ASSUME NEW m, IsMessage(m), ParseFirstLine(m.first), NEW k \in 0..Len(m.headers),
         \A i \in 1..k : ParseHeaderLine(m.headers[i])
  PROVE  \A r \in RefusedAt(m) :
            k < Len(m.headers) /\ r \in Nat /\ LengthTo(m, k + 1) \in Nat /\ LengthTo(m, k + 1) <= r
<1> DEFINE n == Len(m.headers)
<1>1. n \in Nat /\ DOMAIN m.headers = 1..n
  BY DEF IsMessage
<1>2. /\ \A i \in 0..n : LengthTo(m, i) \in Nat
      /\ \A i, j \in 0..n : i <= j => LengthTo(m, i) <= LengthTo(m, j)
  BY WireLines
<1>3. SUFFICES ASSUME NEW r \in RefusedAt(m)
               PROVE  k < n /\ r \in Nat /\ LengthTo(m, k + 1) \in Nat /\ LengthTo(m, k + 1) <= r
  OBVIOUS
<1>4. PICK i \in 1..n : r = LengthTo(m, i) /\ ~ParseHeaderLine(m.headers[i])
  BY <1>1, <1>3 DEF RefusedAt
<1>5. i \notin 1..k
  BY <1>4
<1>6. i \in 0..n /\ k < n /\ k + 1 \in 0..n /\ k + 1 <= i
  BY <1>1, <1>5
<1>7. QED
  BY <1>2, <1>4, <1>6

\* buffer_ holds at most what has arrived of the message.
LEMMA BufferWithinMessage ==
  ASSUME ParserInv
  PROVE  Len(parser.buffer_) <= fed
<1>1. ParserTypes /\ Progress(parser, msg, fed) /\ parser \in ParserRec
  BY DEF ParserInv, ParserTypes
<1>2. IsMessage(msg) /\ Len(msg.headers) \in Nat
  BY <1>1, ArrivingMessage DEF IsMessage
<1>3. \A i \in 0..Len(msg.headers) : LengthTo(msg, i) \in Nat
  BY <1>2, WireLines
<1>4. HeadLength(msg) \in Nat
  <2>1. HeadLength(msg) = LengthTo(msg, Len(msg.headers)) + 2
    BY DEF HeadLength
  <2> QED
    BY <1>2, <1>3, <2>1
<1>5. CASE parser.state_ \in {"Complete", "Error"}
  BY <1>1, <1>5 DEF Progress
<1>6. CASE parser.state_ \notin {"Complete", "Error"}
  <2>1. \E o \in Nat : Buffers(parser, msg, fed, o)
    BY <1>1, <1>3, <1>4, <1>6 DEF Progress, ParserRec
  <2> QED
    BY <1>1, <2>1, BufferFits
<1>7. QED
  BY <1>5, <1>6

\* The invariant determines what consume() has returned.
LEMMA InvStatus ==
  ASSUME ParserInv
  PROVE  StatusMatchesPrefix
<1> DEFINE n == Len(msg.headers)
           refused == \E r \in RefusedAt(msg) : r <= fed
           whole == HeadLength(msg) + AnnouncedLength(msg) <= fed
<1>1. SUFFICES ASSUME pc = "wait"
               PROVE  status = IF refused THEN "Error"
                               ELSE IF whole THEN "Complete" ELSE "NeedMoreData"
  BY BufferWithinMessage DEF StatusMatchesPrefix
<1>2. /\ ParserTypes /\ Progress(parser, msg, fed) /\ parser \in ParserRec
      /\ status \in {"NeedMoreData", "Complete", "Error"}
  BY DEF ParserInv, ParserTypes
<1>3. Verdict(parser, status)
  BY <1>1 DEF ParserInv, InStep
<1>4. IsMessage(msg) /\ n \in Nat /\ n \in 0..n /\ 0 \in 0..n /\ fed \in Nat
  BY <1>2, ArrivingMessage DEF IsMessage
<1>5. /\ \A i \in 0..n : LengthTo(msg, i) \in Nat
      /\ HeadLength(msg) = LengthTo(msg, n) + 2 /\ LengthTo(msg, 0) = Len(msg.first) + 2
      /\ \A i, j \in 0..n : i <= j => LengthTo(msg, i) <= LengthTo(msg, j)
  BY <1>4, WireLines
<1>6. HeadLength(msg) \in Nat /\ AnnouncedLength(msg) \in Nat /\ LengthTo(msg, 0) \in Nat
  BY <1>4, <1>5, AnnouncedIsParsed, LimitAssumption
<1>7. CASE parser.state_ = "FirstLine"
  <2>1. Buffers(parser, msg, fed, 0) /\ LineEnds(parser.buffer_) = {} /\ status = "NeedMoreData"
    BY <1>2, <1>3, <1>7 DEF Progress, Verdict
  <2>2. msg.first \in Seq(Symbols) /\ LineEnds(msg.first) = {} /\ LineAt(Wire(msg), 0, msg.first)
    BY <1>4, WireLines DEF IsMessage
  <2>3. ~(0 + Len(msg.first) + 2 <= fed)
    BY <1>2, <2>1, <2>2, BufferedLine
  <2>4. fed < LengthTo(msg, 0) /\ LengthTo(msg, 0) <= HeadLength(msg)
    <3>1. LengthTo(msg, 0) <= LengthTo(msg, n) /\ LengthTo(msg, n) \in Nat
      BY <1>4, <1>5
    <3>2. Len(msg.first) \in Nat
      BY <2>2
    <3> QED
      BY <1>4, <1>5, <2>3, <3>1, <3>2
  <2>5. ~whole
    BY <1>4, <1>6, <2>4
  <2>6. ~refused
    <3>1. ASSUME NEW r \in RefusedAt(msg) PROVE ~(r <= fed)
      <4>1. CASE ~ParseFirstLine(msg.first)
        <5>1. r = LengthTo(msg, 0)
          BY <1>5, <4>1 DEF RefusedAt
        <5> QED
          BY <1>4, <1>6, <2>4, <5>1
      <4>2. CASE ParseFirstLine(msg.first)
        <5>1. \A i \in 1..0 : ParseHeaderLine(msg.headers[i])
          OBVIOUS
        <5>2. 0 < n /\ r \in Nat /\ LengthTo(msg, 0 + 1) \in Nat /\ LengthTo(msg, 0 + 1) <= r
          BY <1>4, <4>2, <5>1, RefusedLater
        <5>3. LengthTo(msg, 0) <= LengthTo(msg, 0 + 1)
          BY <1>4, <1>5, <5>2
        <5> QED
          BY <1>4, <1>6, <2>4, <5>2, <5>3
      <4> QED
        BY <4>1, <4>2
    <3> QED
      BY <3>1
  <2> QED
    BY <2>1, <2>5, <2>6
<1>8. CASE parser.state_ = "Headers"
  <2>1. LineEnds(parser.buffer_) = {} /\ status = "NeedMoreData"
    BY <1>2, <1>3, <1>8 DEF Verdict
  <2>2. PICK k \in 0..n : HeadParsed(parser, msg, k) /\ Buffers(parser, msg, fed, LengthTo(msg, k))
    BY <1>2, <1>8 DEF Progress
  <2>3. (k < n => fed < LengthTo(msg, k + 1)) /\ fed < HeadLength(msg)
    BY <1>2, <2>1, <2>2, NoLineYet
  <2>4. \A r \in RefusedAt(msg) :
           k < n /\ r \in Nat /\ LengthTo(msg, k + 1) \in Nat /\ LengthTo(msg, k + 1) <= r
    BY <1>4, <2>2, RefusedLater DEF HeadParsed
  <2>5. ~refused
    BY <1>4, <2>3, <2>4
  <2>6. ~whole
    BY <1>4, <1>6, <2>3
  <2> QED
    BY <2>1, <2>5, <2>6
<1>9. CASE parser.state_ \in {"Body", "Complete"}
  <2>1. HeadParsed(parser, msg, n)
    BY <1>2, <1>9 DEF Progress
  <2>2. \A r \in RefusedAt(msg) : n < n
    BY <1>4, <2>1, RefusedLater DEF HeadParsed
  <2>3. ~refused
    BY <1>4, <2>2
  <2>4. CASE parser.state_ = "Body"
    <3>1. /\ Buffers(parser, msg, fed, HeadLength(msg)) /\ status = "NeedMoreData"
          /\ Len(parser.buffer_) < AnnouncedLength(msg)
      BY <1>2, <1>3, <2>4 DEF Progress, Verdict
    <3>2. Len(parser.buffer_) = fed - HeadLength(msg)
      BY <1>2, <1>6, <3>1, BufferFits
    <3>3. ~whole
      BY <1>4, <1>6, <3>1, <3>2
    <3> QED
      BY <2>3, <3>1, <3>3
  <2>5. CASE parser.state_ = "Complete"
    BY <1>2, <1>3, <2>3, <2>5 DEF Progress, Verdict
  <2> QED
    BY <1>9, <2>4, <2>5
<1>10. CASE parser.state_ = "Error"
  BY <1>2, <1>3, <1>10 DEF Progress, Verdict
<1>11. QED
  BY <1>2, <1>7, <1>8, <1>9, <1>10 DEF ParserRec

\* For every message that may arrive, however it is cut into chunks and whatever came
\* before, HttpParser and HttpResponseParser answer consume() by what has arrived.
THEOREM StatusFollowsBytes == ParserSpec => []StatusMatchesPrefix
<1>1. ParserInv => StatusMatchesPrefix
  BY InvStatus
<1>2. QED
  BY <1>1, ParserInvariant, PTL

\* The state of a parser and of its caller keeps its type; the length of a body is
\* never negative nor beyond a long.
THEOREM ParserTypeCorrect == ParserSpec => []ParserTypeOK
<1>1. ParserInv => ParserTypeOK
  BY DEF ParserInv, ParserTypes, ParserRec, ParserTypeOK
<1>2. QED
  BY <1>1, ParserInvariant, PTL

\* A message that is reported complete has the first line, the headers and the body
\* that were sent.
THEOREM ParsedAsSent == ParserSpec => []ParsedIsSent
<1>1. ParserInv => ParsedIsSent
  <2>1. SUFFICES ASSUME ParserInv, pc = "wait", status = "Complete"
                 PROVE  /\ parser.first = msg.first /\ parser.headers = SentHeaders(msg)
                        /\ parser.body = SubSeq(msg.body, 1, AnnouncedLength(msg))
    BY DEF ParsedIsSent
  <2>2. parser.state_ = "Complete"
    BY <2>1 DEF ParserInv, InStep, Verdict
  <2>3. /\ HeadParsed(parser, msg, Len(msg.headers))
        /\ parser.body = SubSeq(msg.body, 1, AnnouncedLength(msg))
    BY <2>1, <2>2 DEF ParserInv, Progress
  <2>4. DOMAIN msg.headers = 1..Len(msg.headers)
    BY <2>1, ArrivingMessage DEF ParserInv, IsMessage
  <2> QED
    BY <2>3, <2>4 DEF HeadParsed, SentHeaders
<1>2. QED
  BY <1>1, ParserInvariant, PTL

-----------------------------------------------------------------------------
(* Relaying *)

\* The parser finds the same header in gs as in hs when gs only has more headers with
\* other names, or changes headers with other names.
LEMMA SameHeader ==
  ASSUME NEW n \in Nat, NEW k \in Nat, n <= k, NEW hs, NEW gs, NEW name,
         DOMAIN hs = 1..n, DOMAIN gs = 1..k,
         \A i \in 1..n : ToLower(gs[i][1]) = ToLower(name) <=> ToLower(hs[i][1]) = ToLower(name),
         \A i \in 1..n : ToLower(hs[i][1]) = ToLower(name) => gs[i] = hs[i],
         \A i \in 1..k : i > n => ToLower(gs[i][1]) # ToLower(name)
  PROVE  FindHeader(gs, name) = FindHeader(hs, name)
<1> DEFINE at == {i \in 1..n : ToLower(hs[i][1]) = ToLower(name)}
           an == {i \in 1..k : ToLower(gs[i][1]) = ToLower(name)}
<1>1. at = an
  OBVIOUS
<1>2. /\ at = {} => FindHeader(hs, name) = {}
      /\ at # {} => Min(at) \in at /\ FindHeader(hs, name) = {Tail(hs[Min(at)])}
  BY FindFirst
<1>3. /\ an = {} => FindHeader(gs, name) = {}
      /\ an # {} => Min(an) \in an /\ FindHeader(gs, name) = {Tail(gs[Min(an)])}
  BY FindFirst
<1>4. \A i \in at : gs[i] = hs[i]
  OBVIOUS
<1> HIDE DEF at, an
<1>5. QED
  BY <1>1, <1>2, <1>3, <1>4

\* What the balancer forwards to an upstream announces the same length, and asks it to close.
LEMMA ForwardedFacts ==
  ASSUME NEW T, NEW hs \in Seq(T)
  PROVE  /\ ContentLengthFrom(ForwardedHeaders(hs)) = ContentLengthFrom(hs)
         /\ ~ConnectionKeepAlive(ForwardedHeaders(hs), "HTTP/1.1")
<1> DEFINE n == Len(hs)
           close == <<"Connection:", "close">>
           copied == [i \in DOMAIN hs |-> IF IsConnection(hs[i]) THEN close ELSE hs[i]]
           some == \E i \in DOMAIN hs : IsConnection(hs[i])
           fh == ForwardedHeaders(hs)
           k == IF some THEN n ELSE n + 1
<1>1. n \in Nat /\ DOMAIN hs = 1..n
  OBVIOUS
<1>2. fh = IF some THEN copied ELSE Append(copied, close)
  BY DEF ForwardedHeaders
<1>3. /\ close[1] = "Connection:" /\ Tail(close) = <<"close">>
      /\ ToLower(close[1]) = "connection:"
  BY DEF ToLower
<1>4. /\ DOMAIN fh = 1..k /\ k \in Nat /\ n <= k
      /\ \A i \in 1..n : fh[i] = IF IsConnection(hs[i]) THEN close ELSE hs[i]
      /\ \A i \in 1..k : i > n => fh[i] = close /\ ~some
      /\ ~some => k = n + 1
  <2> DEFINE U == T \cup {close}
  <2>1. copied \in Seq(U) /\ Len(copied) = n
    <3>1. copied \in [1..n -> U]
      <4> HIDE DEF close, n
      <4>1. \A i \in 1..n : hs[i] \in T
        BY DEF n
      <4> QED
        BY <1>1, <4>1
    <3> HIDE DEF copied, U, n
    <3> QED
      BY <1>1, <3>1
  <2>2. \A i \in 1..n : copied[i] = IF IsConnection(hs[i]) THEN close ELSE hs[i]
    <3> HIDE DEF close, n
    <3> QED
      BY <1>1
  <2>3. close \in U
    OBVIOUS
  <2> HIDE DEF close, copied, U, fh, n, some
  <2>4. CASE some
    <3>1. fh = copied /\ k = n
      BY <1>2, <2>4
    <3>2. DOMAIN fh = 1..n
      BY <1>1, <2>1, <3>1
    <3> QED
      BY <1>1, <2>2, <2>4, <3>1, <3>2
  <2>5. CASE ~some
    <3>1. fh = Append(copied, close) /\ k = n + 1
      BY <1>2, <2>5
    <3>2. /\ DOMAIN Append(copied, close) = 1..(n + 1)
          /\ Append(copied, close)[n + 1] = close
          /\ \A i \in 1..n : Append(copied, close)[i] = copied[i]
      BY <1>1, <2>1, <2>3
    <3>3. \A i \in 1..(n + 1) : i > n => i = n + 1
      BY <1>1
    <3> QED
      BY <1>1, <2>2, <2>5, <3>1, <3>2, <3>3
  <2> QED
    BY <2>4, <2>5
<1> HIDE DEF close, fh, n, copied, k
<1>5. FindHeader(fh, "Content-Length:") = FindHeader(hs, "Content-Length:")
  <2>1. ToLower("Content-Length:") = "content-length:" /\ "connection:" # "content-length:"
    BY DEF ToLower
  <2>2. \A i \in 1..n : ToLower(fh[i][1]) = ToLower("Content-Length:")
                          <=> ToLower(hs[i][1]) = ToLower("Content-Length:")
    BY <1>3, <1>4, <2>1 DEF IsConnection
  <2>3. \A i \in 1..n : ToLower(hs[i][1]) = ToLower("Content-Length:") => fh[i] = hs[i]
    BY <1>4, <2>1 DEF IsConnection
  <2>4. \A i \in 1..k : i > n => ToLower(fh[i][1]) # ToLower("Content-Length:")
    BY <1>3, <1>4, <2>1
  <2> QED
    BY <1>1, <1>4, <2>2, <2>3, <2>4, SameHeader
<1>6. ContentLengthFrom(fh) = ContentLengthFrom(hs)
  BY <1>5 DEF ContentLengthFrom, DeclaredLengths
<1>7. FindHeader(fh, "Connection:") = {<<"close">>}
  <2> DEFINE at == {i \in 1..k : ToLower(fh[i][1]) = ToLower("Connection:")}
  <2>1. ToLower("Connection:") = "connection:"
    BY DEF ToLower
  <2>2. \A i \in at : fh[i] = close
    <3>1. ASSUME NEW i \in 1..k, ToLower(fh[i][1]) = "connection:" PROVE fh[i] = close
      <4>1. CASE i > n
        BY <1>4, <4>1
      <4>2. CASE ~(i > n)
        <5>1. i \in 1..n
          BY <1>1, <1>4, <4>2
        <5> QED
          BY <1>4, <3>1, <5>1 DEF IsConnection
      <4> QED
        BY <4>1, <4>2
    <3> QED
      BY <2>1, <3>1
  <2>3. at # {}
    <3>1. CASE some
      <4>1. PICK i \in 1..n : IsConnection(hs[i])
        BY <1>1, <3>1
      <4>2. fh[i] = close /\ i \in 1..k
        BY <1>1, <1>4, <4>1
      <4>3. ToLower(fh[i][1]) = ToLower("Connection:")
        BY <1>3, <2>1, <4>2
      <4> QED
        BY <4>2, <4>3
    <3>2. CASE ~some
      <4>1. n + 1 \in 1..k /\ n + 1 > n
        BY <1>1, <1>4, <3>2
      <4>2. ToLower(fh[n + 1][1]) = ToLower("Connection:")
        BY <1>3, <1>4, <2>1, <4>1
      <4> QED
        BY <4>1, <4>2
    <3> QED
      BY <3>1, <3>2
  <2>4. at # {} => Min(at) \in at /\ FindHeader(fh, "Connection:") = {Tail(fh[Min(at)])}
    BY <1>4, FindFirst
  <2> HIDE DEF at
  <2> QED
    BY <1>3, <2>2, <2>3, <2>4
<1>8. ~ConnectionKeepAlive(fh, "HTTP/1.1")
  <2>1. "close" \in Range(<<"close">>)
    BY DEF Range
  <2>2. "close" \in UNION {Range(v) : v \in FindHeader(fh, "Connection:")}
    BY <1>7, <2>1
  <2> QED
    BY <2>2 DEF ConnectionKeepAlive
<1>9. QED
  BY <1>6, <1>8 DEF fh

\* What serialize() sends announces the length of the body, when the headers do not say
\* anything else.
LEMMA SerializedFacts ==
  ASSUME NEW T, NEW hs \in Seq(T), NEW body, ContentLengthFrom(hs) = Len(body),
         NEW keepAlive
  PROVE  ContentLengthFrom(SerializedHeaders(hs, body, keepAlive)) = Len(body)
<1> DEFINE n == Len(hs)
           size == CHOOSE word \in DOMAIN Numbers : Numbers[word] = Len(body)
           lengthHeader == <<"Content-Length:", size>>
           connHeader == <<"Connection:", IF keepAlive THEN "keep-alive" ELSE "close">>
           U == T \cup {lengthHeader, connHeader}
           A == IF FindHeader(hs, "Content-Length:") = {} THEN <<lengthHeader>> ELSE <<>>
           B == IF FindHeader(hs, "Connection:") = {} THEN <<connHeader>> ELSE <<>>
           sh == SerializedHeaders(hs, body, keepAlive)
<1>1. n \in Nat /\ DOMAIN hs = 1..n
  OBVIOUS
<1>2. sh = (hs \o A) \o B
  BY DEF SerializedHeaders
<1>3. /\ lengthHeader[1] = "Content-Length:" /\ Tail(lengthHeader) = <<size>>
      /\ ToLower(connHeader[1]) # ToLower("Content-Length:")
      /\ ToLower(lengthHeader[1]) = ToLower("Content-Length:")
  <2>1. lengthHeader[1] = "Content-Length:" /\ connHeader[1] = "Connection:"
    <3> HIDE DEF size
    <3> QED
      OBVIOUS
  <2>2. Tail(lengthHeader) = <<size>>
    <3> HIDE DEF size
    <3> QED
      OBVIOUS
  <2> HIDE DEF lengthHeader, connHeader
  <2> QED
    BY <2>1, <2>2 DEF ToLower
<1> HIDE DEF lengthHeader, connHeader, size, sh
<1>4. /\ hs \in Seq(U) /\ A \in Seq(U) /\ B \in Seq(U) /\ Len(A) \in 0..1 /\ Len(B) \in 0..1
      /\ Len(A) = 1 <=> FindHeader(hs, "Content-Length:") = {}
      /\ Len(A) = 1 => A[1] = lengthHeader
      /\ Len(B) = 1 => B[1] = connHeader
  <2>1. hs \in Seq(U)
    OBVIOUS
  <2>2. /\ <<lengthHeader>> \in Seq(U) /\ <<connHeader>> \in Seq(U) /\ <<>> \in Seq(U)
        /\ Len(<<lengthHeader>>) = 1 /\ Len(<<connHeader>>) = 1 /\ Len(<<>>) = 0
        /\ <<lengthHeader>>[1] = lengthHeader /\ <<connHeader>>[1] = connHeader
    OBVIOUS
  <2> HIDE DEF U
  <2> QED
    BY <2>1, <2>2
<1> HIDE DEF A, B, U
<1>5. /\ Len(sh) = n + Len(A) + Len(B) /\ DOMAIN sh = 1..Len(sh)
      /\ \A i \in 1..n : sh[i] = hs[i]
      /\ Len(A) = 1 => sh[n + 1] = lengthHeader
      /\ Len(B) = 1 => sh[n + Len(A) + 1] = connHeader
  <2>1. \A x, y \in Seq(U) :
          /\ x \o y \in Seq(U) /\ Len(x \o y) = Len(x) + Len(y)
          /\ \A p \in 1..Len(x) : (x \o y)[p] = x[p]
          /\ \A p \in 1..Len(y) : (x \o y)[Len(x) + p] = y[p]
    BY ConcatElements
  <2> DEFINE g == hs \o A
             h == g \o B
  <2>2. /\ g \in Seq(U) /\ Len(g) = Len(hs) + Len(A)
        /\ \A p \in 1..Len(hs) : g[p] = hs[p]
        /\ \A p \in 1..Len(A) : g[Len(hs) + p] = A[p]
    BY <1>4, <2>1, Zenon
  <2> HIDE DEF g
  <2>3. /\ h \in Seq(U) /\ Len(h) = Len(g) + Len(B)
        /\ \A p \in 1..Len(g) : h[p] = g[p]
        /\ \A p \in 1..Len(B) : h[Len(g) + p] = B[p]
    BY <1>4, <2>1, <2>2, Zenon
  <2>4. sh = h
    BY <1>2 DEF g
  <2> HIDE DEF h
  <2>5. DOMAIN h = 1..Len(h) /\ Len(h) = n + Len(A) + Len(B) /\ Len(g) = n + Len(A)
    BY <1>1, <1>4, <2>2, <2>3
  <2>6. \A i \in 1..n : h[i] = hs[i]
    BY <1>1, <1>4, <2>2, <2>3, <2>5
  <2>7. Len(A) = 1 => h[n + 1] = lengthHeader
    BY <1>1, <1>4, <2>2, <2>3, <2>5
  <2>8. Len(B) = 1 => h[n + Len(A) + 1] = connHeader
    BY <1>1, <1>4, <2>2, <2>3, <2>5
  <2> QED
    BY <2>4, <2>5, <2>6, <2>7, <2>8
<1> HIDE DEF n
<1>6. Len(sh) \in Nat /\ n <= Len(sh)
  BY <1>1, <1>4, <1>5
<1>7. \A m \in Nat : \A x, y \in 0..1 : \A i \in 1..(m + x + y) :
          i > m + x => y = 1 /\ i = m + x + 1
  OBVIOUS
<1>8. ASSUME NEW i \in 1..Len(sh), i > n + Len(A) PROVE Len(B) = 1 /\ i = n + Len(A) + 1
  <2>1. i \in 1..(n + Len(A) + Len(B)) /\ n \in Nat /\ Len(A) \in 0..1 /\ Len(B) \in 0..1
    BY <1>1, <1>4, <1>5
  <2> QED
    BY <1>7, <1>8, <2>1, Zenon
<1>9. CASE FindHeader(hs, "Content-Length:") # {}
  <2>1. Len(A) = 0
    BY <1>4, <1>9
  <2>2. \A i \in 1..Len(sh) : i > n => sh[i] = connHeader
    <3>1. n + Len(A) = n
      BY <1>1, <2>1
    <3> QED
      BY <1>5, <1>8, <3>1, Zenon
  <2>3. FindHeader(sh, "Content-Length:") = FindHeader(hs, "Content-Length:")
    <3>1. \A i \in 1..Len(sh) : i > n => ToLower(sh[i][1]) # ToLower("Content-Length:")
      BY <1>3, <2>2
    <3> QED
      BY <1>1, <1>5, <1>6, <3>1, SameHeader
  <2> QED
    BY <2>3 DEF ContentLengthFrom, DeclaredLengths, sh
<1>10. CASE FindHeader(hs, "Content-Length:") = {}
  <2>1. Len(A) = 1
    BY <1>4, <1>10
  <2>2. Len(body) = 0
    BY <1>10, LengthOfValue
  <2>3. size \in DOMAIN Numbers /\ Numbers[size] = 0
    <3>1. "0" \in DOMAIN Numbers /\ Numbers["0"] = 0
      BY DEF Numbers
    <3> QED
      BY <2>2, <3>1 DEF size
  <2> DEFINE at == {i \in 1..Len(sh) : ToLower(sh[i][1]) = ToLower("Content-Length:")}
             here == {i \in 1..n : ToLower(hs[i][1]) = ToLower("Content-Length:")}
  <2>4. here = {}
    <3>1. here # {} => FindHeader(hs, "Content-Length:") = {Tail(hs[Min(here)])}
      BY <1>1, FindFirst
    <3> HIDE DEF here
    <3> QED
      BY <1>10, <3>1
  <2>5. at = {n + 1}
    <3>1. n + 1 \in 1..Len(sh) /\ ToLower(sh[n + 1][1]) = ToLower("Content-Length:")
      BY <1>1, <1>3, <1>4, <1>5, <2>1
    <3>2. ASSUME NEW i \in 1..Len(sh), i # n + 1
          PROVE  ToLower(sh[i][1]) # ToLower("Content-Length:")
      <4>1. CASE i \in 1..n
        BY <1>5, <2>4, <4>1
      <4>2. CASE i \notin 1..n
        <5>1. Len(B) = 1 /\ i = n + Len(A) + 1
          <6>1. \A m \in Nat : \A j \in Nat : j \notin 1..m /\ j # 0 /\ j # m + 1 => j > m + 1
            OBVIOUS
          <6>2. n \in Nat /\ i \in Nat /\ i # 0
            BY <1>1, <1>6
          <6>3. i > n + Len(A)
            BY <2>1, <3>2, <4>2, <6>1, <6>2, Zenon
          <6> QED
            BY <1>8, <6>3
        <5> QED
          BY <1>3, <1>5, <5>1
      <4> QED
        BY <4>1, <4>2
    <3> QED
      BY <3>1, <3>2
  <2>6. at # {} => Min(at) \in at /\ FindHeader(sh, "Content-Length:") = {Tail(sh[Min(at)])}
    BY <1>5, <1>6, FindFirst
  <2>7. FindHeader(sh, "Content-Length:") = {Tail(sh[n + 1])}
    <3> HIDE DEF at
    <3> QED
      BY <2>5, <2>6
  <2>8. FindHeader(sh, "Content-Length:") = {<<size>>}
    BY <1>3, <1>5, <2>1, <2>7
  <2>9. <<size>> # <<>> /\ <<size>>[1] = size
    OBVIOUS
  <2>10. ContentLengthFrom(sh) = Max({0, Numbers[size]})
    <3> DEFINE v == <<size>>
    <3>1. FindHeader(sh, "Content-Length:") = {v} /\ v # <<>> /\ v[1] = size
      BY <2>8, <2>9
    <3> HIDE DEF v
    <3> QED
      BY <2>3, <3>1, LengthOfValue
  <2>11. Max({0, Numbers[size]}) = 0
    <3> DEFINE z == Numbers[size]
    <3>1. z = 0
      BY <2>3
    <3> HIDE DEF z
    <3>2. Max({0, z}) = 0
      BY <3>1, MaxIs
    <3> QED
      BY <3>2 DEF z
  <2> QED
    BY <2>2, <2>10, <2>11 DEF sh
<1>11. QED
  BY <1>9, <1>10

\* Whatever arrives, what the balancer sends on of it announces, by the length rule of
\* contentLengthFrom(), the body that was received, and a request asks the upstream to
\* close.
THEOREM RelayedAsFramed == ParserSpec => []RelayedIsFramed
<1>1. ParserInv => RelayedIsFramed
  <2>1. SUFFICES ASSUME ParserInv, pc = "wait", status = "Complete" PROVE RelayedIsFramed
    BY DEF RelayedIsFramed
  <2>2. parser.state_ = "Complete" /\ parser \in ParserRec /\ ParserTypes
    BY <2>1 DEF ParserInv, ParserTypes, InStep, Verdict
  <2>3. HeadParsed(parser, msg, Len(msg.headers)) /\ Len(parser.body) = AnnouncedLength(msg)
    BY <2>1, <2>2 DEF ParserInv, Progress
  <2>4. IsMessage(msg) /\ DOMAIN msg.headers = 1..Len(msg.headers)
    BY <2>2, ArrivingMessage DEF IsMessage
  <2>5. parser.headers = SentHeaders(msg) /\ parser.headers \in Seq(HeaderFields)
    BY <2>2, <2>3, <2>4 DEF HeadParsed, SentHeaders, ParserRec
  <2>6. ContentLengthFrom(parser.headers) = Len(parser.body)
    BY <2>3, <2>4, <2>5, AnnouncedIsParsed
  <2>7. CASE role = "request"
    BY <2>5, <2>6, <2>7, ForwardedFacts DEF RelayedIsFramed
  <2>8. CASE role # "request"
    <3>1. ContentLengthFrom(SerializedHeaders(parser.headers, parser.body, parser.keepAlive))
             = Len(parser.body)
      BY <2>5, <2>6, SerializedFacts
    <3> QED
      BY <2>8, <3>1 DEF RelayedIsFramed
  <2> QED
    BY <2>7, <2>8
<1>2. QED
  BY <1>1, ParserInvariant, PTL

=============================================================================
