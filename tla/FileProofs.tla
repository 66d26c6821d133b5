----------------------------- MODULE FileProofs -----------------------------
(***************************************************************************)
(* What holds of the list of leads as a file: exported, perhaps saved      *)
(* again by a spreadsheet, and imported, for any characters, titles and    *)
(* leads, and any bound.                                                   *)
(***************************************************************************)
EXTENDS LeadFile, SequenceTheorems, FiniteSetTheorems, WellFoundedInduction, TLAPS

-----------------------------------------------------------------------------
(* Some numbers have a least one.                                          *)
LEMMA SmallestOne ==
    ASSUME NEW S \in SUBSET Nat, S # {}
    PROVE  \E x \in S : \A y \in S : x <= y
<1>1. \E x \in S : \A y \in S : ~(<<y, x>> \in OpToRel(<, Nat))
  BY NatLessThanWellFounded, WFMin, Zenon
<1>2. PICK x \in S : \A y \in S : ~(<<y, x>> \in OpToRel(<, Nat))
  BY <1>1, Zenon
<1>3. ASSUME NEW y \in S, y < x
      PROVE  <<y, x>> \in OpToRel(<, Nat)
  <2>1. y \in Nat /\ x \in Nat /\ y < x
    BY <1>3
  <2> QED
    BY <2>1, Zenon DEF OpToRel
<1>4. \A y \in S : ~(y < x)
  BY <1>2, <1>3, Zenon
<1> QED
  BY <1>4, SMT

(* The sequences of a sequence one after the other: f[i] is what the first i   *)
(* of them make, and it exists up to every length.                         *)
OneByOne(P, n, f) == f = [i \in 1 .. n |-> IF i = 1 THEN P[i] ELSE f[i - 1] \o P[i]]

LEMMA OneByOneOn ==
    ASSUME NEW P, NEW n \in Nat, NEW f, OneByOne(P, n, f)
    PROVE  \E g : OneByOne(P, n + 1, g)
<1> DEFINE last == IF n + 1 = 1 THEN P[n + 1] ELSE f[n] \o P[n + 1]
<1> DEFINE g == [i \in 1 .. n + 1 |-> IF i = n + 1 THEN last ELSE f[i]]
<1>1. ASSUME NEW i \in 1 .. n + 1
      PROVE  g[i] = IF i = 1 THEN P[i] ELSE g[i - 1] \o P[i]
  <2>1. CASE i = n + 1
    <3>1. g[i] = last
      BY <2>1
    <3>2. i # 1 => i - 1 = n /\ g[i - 1] = f[n]
      <4> HIDE DEF last
      <4> QED
        BY <2>1
    <3> HIDE DEF g
    <3> QED
      BY <2>1, <3>1, <3>2
  <2>2. CASE i # n + 1
    <3>1. i \in 1 .. n /\ (i # 1 => i - 1 \in 1 .. n /\ i - 1 # n + 1)
      BY <2>2
    <3>2. g[i] = f[i]
      BY <2>2
    <3>3. f[i] = IF i = 1 THEN P[i] ELSE f[i - 1] \o P[i]
      BY <3>1, Zenon DEF OneByOne
    <3>4. i # 1 => g[i - 1] = f[i - 1]
      BY <3>1
    <3> HIDE DEF g
    <3> QED
      BY <3>2, <3>3, <3>4, Zenon
  <2> QED
    BY <2>1, <2>2
<1>2. g = [i \in 1 .. n + 1 |-> g[i]]
  OBVIOUS
<1> HIDE DEF g
<1>3. [i \in 1 .. n + 1 |-> g[i]] = [i \in 1 .. n + 1 |-> IF i = 1 THEN P[i] ELSE g[i - 1] \o P[i]]
  BY <1>1
<1>4. OneByOne(P, n + 1, g)
  BY <1>2, <1>3, Zenon DEF OneByOne
<1> QED
  BY <1>4, Zenon

LEMMA OneByOneThere ==
    ASSUME NEW P, NEW n \in Nat
    PROVE  \E f : OneByOne(P, n, f)
<1> DEFINE short == {k \in Nat : ~\E f : OneByOne(P, k, f)}
<1>1. SUFFICES ASSUME short # {} PROVE FALSE
  BY Zenon
<1>2. PICK k \in short : \A j \in short : k <= j
  BY <1>1, SmallestOne
<1>3. k # 0
  <2> DEFINE f == [i \in 1 .. 0 |-> P[i]]
  <2>1. f = [i \in 1 .. 0 |-> IF i = 1 THEN P[i] ELSE f[i - 1] \o P[i]]
    OBVIOUS
  <2>2. OneByOne(P, 0, f)
    BY <2>1, Zenon DEF OneByOne
  <2> QED
    BY <2>2, Zenon
<1>4. k \in Nat /\ k - 1 \in Nat /\ k - 1 + 1 = k /\ ~(k <= k - 1)
  BY <1>3
<1>5. PICK f : OneByOne(P, k - 1, f)
  BY <1>2, <1>4, Zenon
<1>6. \E g : OneByOne(P, k - 1 + 1, g)
  BY <1>4, <1>5, OneByOneOn, Zenon
<1> QED
  BY <1>2, <1>4, <1>6, Zenon

LEMMA FlattenIs ==
    ASSUME NEW P, Len(P) \in Nat, Len(P) # 0
    PROVE  \E f : OneByOne(P, Len(P), f) /\ FlattenSeq(P) = f[Len(P)]
<1> DEFINE f == CHOOSE f : OneByOne(P, Len(P), f)
<1>1. OneByOne(P, Len(P), f)
  BY OneByOneThere, Zenon
<1>2. FlattenSeq(P) = f[Len(P)]
  BY DEF FlattenSeq, OneByOne
<1> QED
  BY <1>1, <1>2, Zenon

(* The text T has s from a on and up to before b.                          *)
Spans(T, a, b, s) ==
  /\ a >= 1 /\ b = a + Len(s) /\ b <= Len(T) + 1
  /\ \A k \in 1 .. Len(s) : T[a + k - 1] = s[k]

LEMMA SpansTwo ==
    ASSUME NEW C, NEW T \in Seq(C), NEW X \in Seq(C), NEW Y \in Seq(C), NEW a \in Nat, NEW b \in Nat,
           Spans(T, a, b, X \o Y)
    PROVE  Spans(T, a, a + Len(X), X) /\ Spans(T, a + Len(X), b, Y)
<1>1. Len(X) \in Nat /\ Len(Y) \in Nat /\ Len(T) \in Nat /\ Len(X \o Y) = Len(X) + Len(Y)
  OBVIOUS
<1>2. \A k \in 1 .. Len(X) : k \in 1 .. Len(X \o Y) /\ (X \o Y)[k] = X[k]
  OBVIOUS
<1>3. \A k \in 1 .. Len(Y) : Len(X) + k \in 1 .. Len(X \o Y) /\ (X \o Y)[Len(X) + k] = Y[k]
  OBVIOUS
<1> DEFINE Z == X \o Y
<1>4. Spans(T, a, b, Z)
  OBVIOUS
<1>5. /\ Len(Z) = Len(X) + Len(Y)
      /\ \A k \in 1 .. Len(X) : k \in 1 .. Len(Z) /\ Z[k] = X[k]
      /\ \A k \in 1 .. Len(Y) : Len(X) + k \in 1 .. Len(Z) /\ Z[Len(X) + k] = Y[k]
  BY <1>1, <1>2, <1>3
<1> HIDE DEF Z
<1>6. /\ a >= 1 /\ b = a + Len(Z) /\ b <= Len(T) + 1
      /\ \A k \in 1 .. Len(Z) : T[a + k - 1] = Z[k]
  BY <1>4, Zenon DEF Spans
<1> DEFINE x == Len(X)  y == Len(Y)  t == Len(T)
<1>7. x \in Nat /\ y \in Nat /\ t \in Nat /\ b = a + (x + y) /\ b <= t + 1
  BY <1>1, <1>5, <1>6
<1> HIDE DEF x, y, t
<1>8. a + x >= 1 /\ b = (a + x) + y /\ a + x <= t + 1 /\ a >= 1
  BY <1>6, <1>7
<1>9. \A k \in 1 .. Len(X) : T[a + k - 1] = X[k]
  BY <1>5, <1>6, Zenon
<1>10. ASSUME NEW k \in 1 .. Len(Y)
       PROVE  T[(a + Len(X)) + k - 1] = Y[k]
  <2>1. T[a + (x + k) - 1] = Z[x + k] /\ Z[x + k] = Y[k]
    BY <1>5, <1>6, Zenon DEF x
  <2>2. a + (x + k) - 1 = (a + x) + k - 1
    <3>1. k \in Nat
      BY <1>1
    <3> QED
      BY <1>7, <3>1
  <2> QED
    BY <2>1, <2>2, Zenon DEF x
<1> QED
  BY <1>8, <1>6, <1>9, <1>10, <1>7, Zenon DEF Spans, x, y, t

LEMMA FlattenType ==
    ASSUME NEW C, NEW P \in Seq(Seq(C)), NEW f, OneByOne(P, Len(P), f)
    PROVE  \A i \in 1 .. Len(P) : f[i] \in Seq(C)
<1> DEFINE bad == {i \in 1 .. Len(P) : f[i] \notin Seq(C)}
<1>1. SUFFICES ASSUME bad # {} PROVE FALSE
  BY Zenon
<1>2. bad \in SUBSET Nat
  OBVIOUS
<1>3. PICK i \in bad : \A j \in bad : i <= j
  BY <1>1, <1>2, SmallestOne, Zenon
<1>4. i \in 1 .. Len(P) /\ f[i] = (IF i = 1 THEN P[i] ELSE f[i - 1] \o P[i]) /\ P[i] \in Seq(C)
  <2>1. i \in 1 .. Len(P)
    BY <1>3, Zenon
  <2>2. P[i] \in Seq(C)
    BY <2>1
  <2> QED
    BY <2>1, <2>2, Zenon DEF OneByOne
<1>5. CASE i = 1
  BY <1>3, <1>4, <1>5
<1>6. CASE i # 1
  <2>1. i - 1 \in 1 .. Len(P) /\ ~(i <= i - 1)
    BY <1>4, <1>6
  <2>2. f[i - 1] \in Seq(C)
    BY <1>3, <2>1, Zenon
  <2>3. f[i - 1] \o P[i] \in Seq(C)
    BY <1>4, <2>2
  <2> QED
    BY <1>3, <1>4, <1>6, <2>3, Zenon
<1> QED
  BY <1>5, <1>6

LEMMA FlattenInSeq ==
    ASSUME NEW C, NEW P \in Seq(Seq(C))
    PROVE  FlattenSeq(P) \in Seq(C)
<1>1. Len(P) \in Nat
  OBVIOUS
<1>2. CASE Len(P) = 0
  <2>1. FlattenSeq(P) = P
    BY <1>2, Zenon DEF FlattenSeq
  <2>2. P = <<>>
    BY <1>2
  <2>3. P \in Seq(C)
    BY <2>2
  <2> QED
    BY <2>1, <2>3, Zenon
<1>3. CASE Len(P) # 0
  <2>1. PICK f : OneByOne(P, Len(P), f) /\ FlattenSeq(P) = f[Len(P)]
    BY <1>1, <1>3, FlattenIs, Zenon
  <2>2. Len(P) \in 1 .. Len(P)
    BY <1>1, <1>3
  <2> QED
    BY <2>1, <2>2, FlattenType, Zenon
<1> QED
  BY <1>2, <1>3

(* Where the parts of what a text spans are.                               *)
Cut(T, P, p, a, b) ==
  /\ p \in [0 .. Len(P) -> Nat] /\ p[0] = a /\ p[Len(P)] = b
  /\ \A i \in 1 .. Len(P) : Spans(T, p[i - 1], p[i], P[i])

LEMMA FlattenCut ==
    ASSUME NEW C, NEW T \in Seq(C), NEW P \in Seq(Seq(C)), NEW a \in Nat, NEW b \in Nat,
           Spans(T, a, b, FlattenSeq(P))
    PROVE  \E p : Cut(T, P, p, a, b)
<1> DEFINE n == Len(P)
<1>0. n \in Nat
  OBVIOUS
<1>1. CASE n = 0
  <2>1. FlattenSeq(P) = P /\ Len(P) = 0
    BY <1>1, Zenon DEF FlattenSeq
  <2>2. b = a
    BY <2>1 DEF Spans
  <2> DEFINE p == [i \in 0 .. Len(P) |-> a]
  <2>3. Cut(T, P, p, a, b)
    BY <2>1, <2>2 DEF Cut
  <2> QED
    BY <2>3, Zenon
<1>2. CASE n # 0
  <2>1. PICK f : OneByOne(P, n, f) /\ FlattenSeq(P) = f[n]
    BY <1>0, <1>2, FlattenIs, Zenon
  <2>2. \A i \in 1 .. n : f[i] \in Seq(C)
    BY <2>1, FlattenType, Zenon
  <2>3. \A i \in 1 .. n : f[i] = IF i = 1 THEN P[i] ELSE f[i - 1] \o P[i]
    BY <2>1, Zenon DEF OneByOne
  <2>4. \A i \in 1 .. n : P[i] \in Seq(C)
    OBVIOUS
  <2> HIDE DEF n
  <2> DEFINE p == [i \in 0 .. n |-> IF i = 0 THEN a ELSE a + Len(f[i])]
  <2>5. /\ p \in [0 .. n -> Nat] /\ p[0] = a
        /\ \A i \in 1 .. n : i \in 0 .. n /\ p[i] = a + Len(f[i]) /\ p[i] \in Nat
    <3>1. \A i \in 1 .. n : Len(f[i]) \in Nat
      BY <2>2
    <3> QED
      BY <1>0, <3>1
  <2> HIDE DEF p
  <2>6. n \in 1 .. n /\ 0 \in 0 .. n
    BY <1>0, <1>2
  <2>7. Spans(T, a, p[n], f[n]) /\ p[n] = b
    <3>1. b = a + Len(f[n])
      BY <2>1, Zenon DEF Spans
    <3> QED
      BY <2>1, <2>5, <2>6, <3>1, Zenon
  <2>8. ASSUME NEW i \in 1 .. n, i # 1, Spans(T, a, p[i], f[i])
        PROVE  Spans(T, a, p[i - 1], f[i - 1]) /\ Spans(T, p[i - 1], p[i], P[i])
    <3>1. i - 1 \in 1 .. n
      BY <1>0, <2>8
    <3>2. f[i] = f[i - 1] \o P[i] /\ f[i - 1] \in Seq(C) /\ P[i] \in Seq(C) /\ p[i - 1] = a + Len(f[i - 1])
          /\ p[i] \in Nat
      BY <2>2, <2>3, <2>4, <2>5, <2>8, <3>1, Zenon
    <3> QED
      BY <2>8, <3>2, SpansTwo, Zenon
  <2> DEFINE bad == {k \in Nat : k < n /\ ~Spans(T, a, p[n - k], f[n - k])}
  <2>9. ASSUME bad # {}
        PROVE  FALSE
    <3>1. PICK k \in bad : \A j \in bad : k <= j
      BY <2>9, SmallestOne
    <3>2. k \in Nat /\ k < n /\ ~Spans(T, a, p[n - k], f[n - k])
      BY <3>1, Zenon
    <3>3. k # 0
      <4>1. n - 0 = n
        BY <1>0
      <4> QED
        BY <2>7, <3>2, <4>1, Zenon
    <3>4. k - 1 \in Nat /\ k - 1 < n /\ ~(k <= k - 1) /\ n - (k - 1) \in 1 .. n /\ n - (k - 1) # 1
          /\ n - (k - 1) - 1 = n - k
      BY <1>0, <3>2, <3>3
    <3>5. Spans(T, a, p[n - (k - 1)], f[n - (k - 1)])
      BY <3>1, <3>4, Zenon
    <3> QED
      BY <2>8, <3>2, <3>4, <3>5
  <2>10. ASSUME NEW i \in 1 .. n
         PROVE  Spans(T, a, p[i], f[i])
    <3>1. n - i \in Nat /\ n - i < n /\ n - (n - i) = i
      BY <1>0
    <3> QED
      BY <2>9, <3>1, Zenon
  <2>11. ASSUME NEW i \in 1 .. n
         PROVE  Spans(T, p[i - 1], p[i], P[i])
    <3>1. CASE i = 1
      <4>1. f[i] = P[i] /\ i - 1 = 0
        BY <2>3, <3>1
      <4> QED
        BY <2>5, <2>10, <4>1, Zenon
    <3>2. CASE i # 1
      BY <2>8, <2>10, <3>2, Zenon
    <3> QED
      BY <3>1, <3>2
  <2>12. Cut(T, P, p, a, b)
    BY <2>5, <2>7, <2>11, Zenon DEF Cut, n
  <2> QED
    BY <2>12, Zenon
<1> QED
  BY <1>1, <1>2

-----------------------------------------------------------------------------
(* Cells and rows in a text.                                               *)
LEMMA JoinedTwo ==
    ASSUME NEW C, NEW X \in Seq(C), NEW Y \in Seq(C)
    PROVE  X \o Y \in Seq(C) /\ Len(X \o Y) = Len(X) + Len(Y) /\ Len(X) \in Nat /\ Len(Y) \in Nat
OBVIOUS

LEMMA SpansOne ==
    ASSUME NEW C, NEW T \in Seq(C), NEW x, NEW a \in Nat, NEW b \in Nat, Spans(T, a, b, <<x>>)
    PROVE  a >= 1 /\ a <= Len(T) /\ T[a] = x /\ b = a + 1
<1>1. a >= 1 /\ b = a + 1 /\ b <= Len(T) + 1 /\ T[a + 1 - 1] = x
  BY DEF Spans
<1>2. a + 1 - 1 = a /\ Len(T) \in Nat
  OBVIOUS
<1>3. T[a] = x
  BY <1>1, <1>2, Zenon
<1> QED
  BY <1>1, <1>2, <1>3

LEMMA SpansPair ==
    ASSUME NEW C, NEW T \in Seq(C), NEW x, NEW y, NEW a \in Nat, NEW b \in Nat, Spans(T, a, b, <<x, y>>)
    PROVE  a >= 1 /\ a < Len(T) /\ T[a] = x /\ T[a + 1] = y /\ b = a + 2
<1>1. a >= 1 /\ b = a + 2 /\ b <= Len(T) + 1 /\ T[a + 1 - 1] = x /\ T[a + 2 - 1] = y
  <2> DEFINE w == <<x, y>>
  <2>1. Len(w) = 2 /\ w[1] = x /\ w[2] = y
    OBVIOUS
  <2>2. a >= 1 /\ b = a + Len(w) /\ b <= Len(T) + 1 /\ \A k \in 1 .. Len(w) : T[a + k - 1] = w[k]
    BY Zenon DEF Spans
  <2> HIDE DEF w
  <2>3. 1 \in 1 .. Len(w) /\ 2 \in 1 .. Len(w)
    BY <2>1
  <2> QED
    BY <2>1, <2>2, <2>3, Zenon
<1>2. a + 1 - 1 = a /\ a + 2 - 1 = a + 1 /\ Len(T) \in Nat
  OBVIOUS
<1>3. T[a] = x /\ T[a + 1] = y
  BY <1>1, <1>2, Zenon
<1> QED
  BY <1>1, <1>2, <1>3

RawAt(T, p, q, v) == Spans(T, p, q, v) /\ \A k \in 1 .. Len(v) : v[k] \notin {Quote, Comma, CR, LF}

(* Between quotes, e[k] is where the first k characters end; a quote is    *)
(* written twice.                                                          *)
CharacterAt(T, d, z, x) ==
  /\ d <= Len(T) /\ T[d] = x
  /\ IF x = Quote THEN z = d + 2 /\ d < Len(T) /\ T[d + 1] = Quote ELSE z = d + 1
QuotedAt(T, p, q, v, e) ==
  /\ p >= 1 /\ p <= Len(T) /\ T[p] = Quote
  /\ e \in [0 .. Len(v) -> Nat] /\ e[0] = p + 1
  /\ \A k \in 1 .. Len(v) : CharacterAt(T, e[k - 1], e[k], v[k])
  /\ e[Len(v)] <= Len(T) /\ T[e[Len(v)]] = Quote /\ q = e[Len(v)] + 1
CellAt(T, p, q, v) == RawAt(T, p, q, v) \/ \E e : QuotedAt(T, p, q, v, e)

LEMMA FileFacts ==
    /\ {Quote, Comma, CR, LF, Blank} \subseteq Character
    /\ Quote \notin {Comma, CR, LF} /\ Comma \notin {CR, LF} /\ CR # LF
    /\ Titles \in Seq(Seq(Character)) /\ Titles # <<>> /\ Status \in Seq(Character)
    /\ Lists \subseteq Seq(Seq(Seq(Character)))
BY FileAssumption, Zenon

EscapedOne(x) == IF x = Quote THEN <<Quote, Quote>> ELSE <<x>>
LEMMA EscapedParts ==
    ASSUME NEW v \in Seq(Character)
    PROVE  /\ Escaped(v) = FlattenSeq([i \in 1 .. Len(v) |-> EscapedOne(v[i])])
           /\ [i \in 1 .. Len(v) |-> EscapedOne(v[i])] \in Seq(Seq(Character))
           /\ Escaped(v) \in Seq(Character) /\ InQuotes(v) \in Seq(Character)
<1> DEFINE P == [i \in 1 .. Len(v) |-> EscapedOne(v[i])]
<1>1. Escaped(v) = FlattenSeq(P)
  BY DEF Escaped, EscapedOne
<1>2. ASSUME NEW x \in Character
      PROVE  EscapedOne(x) \in Seq(Character)
  BY FileFacts DEF EscapedOne
<1>3. Len(v) \in Nat /\ \A i \in 1 .. Len(v) : EscapedOne(v[i]) \in Seq(Character)
  BY <1>2
<1>4. P \in Seq(Seq(Character))
  BY <1>3
<1> HIDE DEF P
<1>5. Escaped(v) \in Seq(Character)
  BY <1>1, <1>4, FlattenInSeq, Zenon
<1>6. <<Quote>> \in Seq(Character)
  BY FileFacts
<1>7. InQuotes(v) \in Seq(Character)
  BY <1>5, <1>6 DEF InQuotes
<1> QED
  BY <1>1, <1>4, <1>5, <1>7, Zenon DEF P

LEMMA CharacterThere ==
    ASSUME NEW T \in Seq(Character), NEW x, NEW d \in Nat, NEW z \in Nat, Spans(T, d, z, EscapedOne(x))
    PROVE  CharacterAt(T, d, z, x)
<1>1. CASE x = Quote
  <2>1. Spans(T, d, z, <<Quote, Quote>>)
    BY <1>1, Zenon DEF EscapedOne
  <2>2. d < Len(T) /\ T[d] = Quote /\ T[d + 1] = Quote /\ z = d + 2
    BY <2>1, SpansPair
  <2>3. d <= Len(T)
    BY <2>2
  <2> QED
    BY <1>1, <2>2, <2>3, Zenon DEF CharacterAt
<1>2. CASE x # Quote
  <2>1. Spans(T, d, z, <<x>>)
    BY <1>2, Zenon DEF EscapedOne
  <2>2. d <= Len(T) /\ T[d] = x /\ z = d + 1
    BY <2>1, SpansOne, Zenon
  <2> QED
    BY <1>2, <2>2, Zenon DEF CharacterAt
<1> QED
  BY <1>1, <1>2

LEMMA QuotedThere ==
    ASSUME NEW T \in Seq(Character), NEW v \in Seq(Character), NEW p \in Nat, NEW q \in Nat,
           Spans(T, p, q, InQuotes(v))
    PROVE  CellAt(T, p, q, v)
<1> DEFINE P == [i \in 1 .. Len(v) |-> EscapedOne(v[i])]
<1> DEFINE w == Escaped(v)
<1> DEFINE o == <<Quote>>
<1>1. w = FlattenSeq(P) /\ P \in Seq(Seq(Character)) /\ w \in Seq(Character) /\ InQuotes(v) = (o \o w) \o o
  BY EscapedParts, Zenon DEF InQuotes
<1>2. o \in Seq(Character) /\ Len(o) = 1
  BY FileFacts
<1>3. o \o w \in Seq(Character) /\ Len(o \o w) = 1 + Len(w) /\ Len(w) \in Nat
  <2> HIDE DEF w, o, P
  <2> QED
    BY <1>1, <1>2, JoinedTwo
<1> DEFINE m == p + Len(o \o w)
<1>4. m \in Nat /\ p + Len(o) \in Nat /\ p + Len(o) = p + 1
  BY <1>2, <1>3
<1>5. Spans(T, p, m, o \o w) /\ Spans(T, m, q, o)
  <2> HIDE DEF w, o
  <2> QED
    BY <1>1, <1>2, <1>3, SpansTwo, Zenon
<1> HIDE DEF m
<1>6. Spans(T, p, p + Len(o), o) /\ Spans(T, p + Len(o), m, w)
  <2> HIDE DEF w, o
  <2> QED
    BY <1>1, <1>2, <1>4, <1>5, SpansTwo, Zenon
<1>7. p >= 1 /\ p <= Len(T) /\ T[p] = Quote
  BY <1>4, <1>6, SpansOne, Zenon
<1>8. m <= Len(T) /\ T[m] = Quote /\ q = m + 1
  BY <1>4, <1>5, SpansOne, Zenon
<1>9. PICK e : Cut(T, P, e, p + 1, m)
  <2> HIDE DEF P, w, o
  <2> QED
    BY <1>1, <1>4, <1>6, FlattenCut, Zenon
<1>10. Len(P) = Len(v) /\ Len(v) \in Nat /\ \A k \in 1 .. Len(v) : P[k] = EscapedOne(v[k])
  OBVIOUS
<1> HIDE DEF P, w, o
<1>11. /\ e \in [0 .. Len(v) -> Nat] /\ e[0] = p + 1 /\ e[Len(v)] = m
       /\ \A k \in 1 .. Len(v) : Spans(T, e[k - 1], e[k], EscapedOne(v[k]))
  BY <1>9, <1>10, Zenon DEF Cut
<1>12. ASSUME NEW k \in 1 .. Len(v)
       PROVE  CharacterAt(T, e[k - 1], e[k], v[k])
  <2>1. k \in 0 .. Len(v) /\ k - 1 \in 0 .. Len(v)
    BY <1>10
  <2>2. e[k] \in Nat /\ e[k - 1] \in Nat
    BY <1>11, <2>1
  <2>3. Spans(T, e[k - 1], e[k], EscapedOne(v[k]))
    BY <1>11, Zenon
  <2> QED
    BY <2>2, <2>3, CharacterThere, Zenon
<1>13. QuotedAt(T, p, q, v, e)
  BY <1>7, <1>8, <1>11, <1>12, Zenon DEF QuotedAt
<1> QED
  BY <1>13, Zenon DEF CellAt

-----------------------------------------------------------------------------
(* Parts with one character between them.                                  *)
Parted(T, a, b, parts, x, s, e) ==
  /\ s \in [1 .. Len(parts) -> Nat] /\ e \in [1 .. Len(parts) -> Nat] /\ s[1] = a /\ e[Len(parts)] = b
  /\ \A i \in 1 .. Len(parts) : Spans(T, s[i], e[i], parts[i])
  /\ \A i \in 1 .. Len(parts) - 1 : e[i] <= Len(T) /\ T[e[i]] = x /\ s[i + 1] = e[i] + 1

PartFor(parts, x, i) == IF i = 1 THEN parts[i] ELSE <<x>> \o parts[i]
PartsFor(parts, x) == [i \in 1 .. Len(parts) |-> PartFor(parts, x, i)]

LEMMA JoinedParts ==
    ASSUME NEW C, NEW x \in C, NEW parts \in Seq(Seq(C))
    PROVE  /\ JoinedBy(parts, <<x>>) = FlattenSeq(PartsFor(parts, x))
           /\ PartsFor(parts, x) \in Seq(Seq(C)) /\ JoinedBy(parts, <<x>>) \in Seq(C)
<1>1. JoinedBy(parts, <<x>>) = FlattenSeq(PartsFor(parts, x))
  BY Zenon DEF JoinedBy, PartsFor, PartFor
<1>2. <<x>> \in Seq(C)
  OBVIOUS
<1>3. Len(parts) \in Nat /\ \A i \in 1 .. Len(parts) : parts[i] \in Seq(C)
  OBVIOUS
<1>4. \A i \in 1 .. Len(parts) : PartFor(parts, x, i) \in Seq(C)
  BY <1>2, <1>3, JoinedTwo, Zenon DEF PartFor
<1>5. PartsFor(parts, x) \in Seq(Seq(C))
  BY <1>3, <1>4 DEF PartsFor
<1> QED
  BY <1>1, <1>5, FlattenInSeq, Zenon

LEMMA JoinedThere ==
    ASSUME NEW C, NEW x \in C, NEW parts \in Seq(Seq(C)), Len(parts) # 0, NEW T \in Seq(C), NEW a \in Nat, NEW b \in Nat,
           Spans(T, a, b, JoinedBy(parts, <<x>>))
    PROVE  \E s, e : Parted(T, a, b, parts, x, s, e)
<1> DEFINE n == Len(parts)
<1> DEFINE P == PartsFor(parts, x)
<1>1. n \in Nat /\ n # 0 /\ \A i \in 1 .. n : parts[i] \in Seq(C)
  OBVIOUS
<1>2. Spans(T, a, b, FlattenSeq(P)) /\ P \in Seq(Seq(C))
  BY JoinedParts, Zenon
<1>3. Len(P) = n /\ \A i \in 1 .. n : P[i] = PartFor(parts, x, i)
  BY <1>1 DEF PartsFor
<1> HIDE DEF P
<1>4. PICK p : Cut(T, P, p, a, b)
  BY <1>2, FlattenCut, Zenon
<1>5. /\ p \in [0 .. n -> Nat] /\ p[0] = a /\ p[n] = b
      /\ \A i \in 1 .. n : Spans(T, p[i - 1], p[i], PartFor(parts, x, i))
  BY <1>3, <1>4, Zenon DEF Cut
<1> HIDE DEF n
<1>6. 1 \in 1 .. n /\ n \in 1 .. n /\ \A i \in 1 .. n : p[i] \in Nat /\ p[i - 1] \in Nat
  <2>1. \A i \in 1 .. n : i \in 0 .. n /\ i - 1 \in 0 .. n
    BY <1>1
  <2> QED
    BY <1>1, <1>5, <2>1
<1>7. ASSUME NEW i \in 1 .. n, i # 1
      PROVE  /\ p[i - 1] <= Len(T) /\ T[p[i - 1]] = x
             /\ Spans(T, p[i - 1] + 1, p[i], parts[i])
  <2>1. Spans(T, p[i - 1], p[i], <<x>> \o parts[i]) /\ p[i - 1] \in Nat /\ p[i] \in Nat /\ parts[i] \in Seq(C)
    BY <1>1, <1>5, <1>6, <1>7, Zenon DEF PartFor
  <2>2. <<x>> \in Seq(C) /\ Len(<<x>>) = 1
    OBVIOUS
  <2> DEFINE d == p[i - 1] + Len(<<x>>)
  <2>3. Spans(T, p[i - 1], d, <<x>>) /\ Spans(T, d, p[i], parts[i])
    BY <2>1, <2>2, SpansTwo, Zenon
  <2>4. d = p[i - 1] + 1 /\ d \in Nat
    BY <2>1, <2>2
  <2> HIDE DEF d
  <2>5. p[i - 1] <= Len(T) /\ T[p[i - 1]] = x
    BY <2>1, <2>3, <2>4, SpansOne, Zenon
  <2> QED
    BY <2>3, <2>4, <2>5, Zenon
<1>8. Spans(T, p[0], p[1], parts[1])
  <2>1. 1 - 1 = 0
    OBVIOUS
  <2> QED
    BY <1>5, <1>6, <2>1, Zenon DEF PartFor
<1> DEFINE s == [i \in 1 .. n |-> IF i = 1 THEN a ELSE p[i - 1] + 1]
<1> DEFINE e == [i \in 1 .. n |-> p[i]]
<1>9. /\ s \in [1 .. n -> Nat] /\ e \in [1 .. n -> Nat] /\ s[1] = a /\ e[n] = b
      /\ \A i \in 1 .. n : e[i] = p[i] /\ s[i] = IF i = 1 THEN a ELSE p[i - 1] + 1
  <2>1. \A i \in 1 .. n : p[i] \in Nat /\ (IF i = 1 THEN a ELSE p[i - 1] + 1) \in Nat
    BY <1>6
  <2>2. s \in [1 .. n -> Nat] /\ \A i \in 1 .. n : s[i] = IF i = 1 THEN a ELSE p[i - 1] + 1
    BY <2>1
  <2>3. e \in [1 .. n -> Nat] /\ \A i \in 1 .. n : e[i] = p[i]
    BY <2>1
  <2> HIDE DEF s, e
  <2>4. s[1] = a /\ e[n] = b
    BY <1>5, <1>6, <2>2, <2>3, Zenon
  <2> QED
    BY <2>2, <2>3, <2>4, Zenon
<1> HIDE DEF s, e
<1>10. ASSUME NEW i \in 1 .. n
       PROVE  Spans(T, s[i], e[i], parts[i])
  BY <1>5, <1>7, <1>8, <1>9, Zenon
<1>11. ASSUME NEW i \in 1 .. n - 1
       PROVE  e[i] <= Len(T) /\ T[e[i]] = x /\ s[i + 1] = e[i] + 1
  <2> DEFINE j == i + 1
  <2>1. i \in 1 .. n /\ j \in 1 .. n /\ j # 1 /\ j - 1 = i
    BY <1>1
  <2> HIDE DEF j
  <2>2. p[i] <= Len(T) /\ T[p[i]] = x
    BY <1>7, <2>1, Zenon
  <2>3. e[i] = p[i] /\ s[j] = p[i] + 1
    BY <1>9, <2>1, Zenon
  <2> QED
    BY <2>2, <2>3, Zenon DEF j
<1>12. Parted(T, a, b, parts, x, s, e)
  BY <1>9, <1>10, <1>11, Zenon DEF Parted, n
<1> QED
  BY <1>12, Zenon

(* A row of cells with commas between them, and rows each with its end of     *)
(* line, the last perhaps without.                                         *)
RowAt(T, a, b, row, s, e) ==
  /\ s \in [1 .. Len(row) -> Nat] /\ e \in [1 .. Len(row) -> Nat] /\ s[1] = a /\ e[Len(row)] = b
  /\ \A c \in 1 .. Len(row) : CellAt(T, s[c], e[c], row[c])
  /\ \A c \in 1 .. Len(row) - 1 : e[c] <= Len(T) /\ T[e[c]] = Comma /\ s[c + 1] = e[c] + 1
EolAt(T, d, z) ==
  \/ d <= Len(T) /\ T[d] = LF /\ z = d + 1
  \/ d < Len(T) /\ T[d] = CR /\ T[d + 1] = LF /\ z = d + 2
TextAt(T, rows, u, w) ==
  /\ u \in [1 .. Len(rows) -> Nat] /\ w \in [1 .. Len(rows) -> Nat] /\ u[1] = 1
  /\ \A r \in 1 .. Len(rows) : \E s, e : RowAt(T, u[r], w[r], rows[r], s, e)
  /\ \A r \in 1 .. Len(rows) - 1 : EolAt(T, w[r], u[r + 1])
  /\ w[Len(rows)] = Len(T) + 1 \/ EolAt(T, w[Len(rows)], Len(T) + 1)

(* What is written for a cell is the cell in quotes, or the cell if it has no *)
(* special character.                                                      *)
Special(v) == \E i \in 1 .. Len(v) : v[i] \in {Quote, Comma, CR, LF}
WrittenAs(v, z) == z = InQuotes(v) \/ (z = v /\ ~Special(v))
LEMMA WrittenThere ==
    ASSUME NEW T \in Seq(Character), NEW v \in Seq(Character), NEW z, NEW p \in Nat, NEW q \in Nat,
           WrittenAs(v, z), Spans(T, p, q, z)
    PROVE  CellAt(T, p, q, v)
<1>1. CASE z = InQuotes(v)
  <2>1. Spans(T, p, q, InQuotes(v))
    BY <1>1, Zenon
  <2> QED
    BY <2>1, QuotedThere, Zenon
<1>2. CASE z = v /\ ~Special(v)
  <2>1. Spans(T, p, q, v)
    BY <1>2, Zenon
  <2> QED
    BY <1>2, <2>1, Zenon DEF CellAt, RawAt, Special
<1> QED
  BY <1>1, <1>2, Zenon DEF WrittenAs

LEMMA RowThere ==
    ASSUME NEW T \in Seq(Character), NEW row \in Seq(Seq(Character)), Len(row) # 0,
           NEW parts \in Seq(Seq(Character)), Len(parts) = Len(row),
           \A c \in 1 .. Len(row) : WrittenAs(row[c], parts[c]),
           NEW a \in Nat, NEW b \in Nat, Spans(T, a, b, JoinedBy(parts, <<Comma>>))
    PROVE  \E s, e : RowAt(T, a, b, row, s, e)
<1>1. Comma \in Character
  BY FileFacts, Zenon
<1>2. PICK s, e : Parted(T, a, b, parts, Comma, s, e)
  BY <1>1, JoinedThere, Zenon
<1>3. /\ s \in [1 .. Len(row) -> Nat] /\ e \in [1 .. Len(row) -> Nat] /\ s[1] = a /\ e[Len(row)] = b
      /\ \A c \in 1 .. Len(row) : Spans(T, s[c], e[c], parts[c])
      /\ \A c \in 1 .. Len(row) - 1 : e[c] <= Len(T) /\ T[e[c]] = Comma /\ s[c + 1] = e[c] + 1
  BY <1>2, Zenon DEF Parted
<1>4. \A c \in 1 .. Len(row) : row[c] \in Seq(Character) /\ s[c] \in Nat /\ e[c] \in Nat
  <2>1. \A c \in 1 .. Len(row) : row[c] \in Seq(Character)
    OBVIOUS
  <2>2. s \in [1 .. Len(row) -> Nat] /\ e \in [1 .. Len(row) -> Nat]
    BY <1>3, Zenon
  <2> QED
    BY <2>1, <2>2
<1>5. \A c \in 1 .. Len(row) : CellAt(T, s[c], e[c], row[c])
  BY <1>3, <1>4, WrittenThere, Zenon
<1>6. RowAt(T, a, b, row, s, e)
  BY <1>3, <1>5, Zenon DEF RowAt
<1> QED
  BY <1>6, Zenon

-----------------------------------------------------------------------------
(* The two texts.                                                          *)
LEMMA RowsFacts ==
    ASSUME NEW list \in Lists
    PROVE  /\ RowsOf(list) \in Seq(Seq(Seq(Character))) /\ Len(RowsOf(list)) = Len(list) + 1 /\ Len(list) \in Nat
           /\ \A r \in 1 .. Len(RowsOf(list)) : Len(RowsOf(list)[r]) = Len(Titles)
           /\ RowsOf(list)[1] = Titles
           /\ \A i \in 1 .. Len(list) : RowsOf(list)[i + 1] = Append(list[i], Status)
           /\ \A i \in 1 .. Len(list) : list[i] \in Seq(Seq(Character)) /\ Len(list[i]) = Len(Titles) - 1
           /\ Len(Titles) \in Nat /\ Len(Titles) # 0
<1> DEFINE C == Seq(Seq(Character))
<1>1. list \in Seq(C) /\ Titles \in C /\ Status \in Seq(Character)
  BY FileFacts
<1>2. \A i \in 1 .. Len(list) : Len(list[i]) = Len(Titles) - 1
  BY FileAssumption, Zenon
<1>3. Len(Titles) \in Nat /\ Len(Titles) # 0
  BY FileFacts
<1> DEFINE more == [i \in 1 .. Len(list) |-> Append(list[i], Status)]
<1>4. Len(list) \in Nat /\ \A i \in 1 .. Len(list) : list[i] \in C
  BY <1>1
<1>5. ASSUME NEW i \in 1 .. Len(list)
      PROVE  Append(list[i], Status) \in C /\ Len(Append(list[i], Status)) = Len(Titles)
  <2>1. list[i] \in Seq(Seq(Character))
    BY <1>4
  <2>2. PICK q \in Seq(Seq(Character)) : q = list[i]
    BY <2>1
  <2>3. Len(q) = Len(Titles) - 1
    BY <1>2, <2>2, Zenon
  <2>4. Append(q, Status) \in Seq(Seq(Character)) /\ Len(Append(q, Status)) = Len(q) + 1
    BY <1>1
  <2>5. Len(Append(q, Status)) = Len(Titles)
    BY <1>3, <2>3, <2>4
  <2> QED
    BY <2>2, <2>4, <2>5, Zenon
<1> HIDE DEF C
<1>6. more \in Seq(C) /\ Len(more) = Len(list) /\ \A i \in 1 .. Len(list) : more[i] = Append(list[i], Status)
  BY <1>4, <1>5
<1>7. RowsOf(list) = <<Titles>> \o more
  BY DEF RowsOf
<1> HIDE DEF more
<1>8. /\ RowsOf(list) \in Seq(C) /\ Len(RowsOf(list)) = Len(list) + 1 /\ RowsOf(list)[1] = Titles
      /\ \A i \in 1 .. Len(list) : RowsOf(list)[i + 1] = more[i]
  BY <1>1, <1>4, <1>6, <1>7
<1>9. ASSUME NEW r \in 1 .. Len(RowsOf(list))
      PROVE  Len(RowsOf(list)[r]) = Len(Titles)
  <2>1. CASE r = 1
    BY <1>8, <2>1, Zenon
  <2>2. CASE r # 1
    <3> DEFINE i == r - 1
    <3>1. i \in 1 .. Len(list) /\ i + 1 = r
      BY <1>4, <1>8, <2>2
    <3> HIDE DEF i
    <3> QED
      BY <1>5, <1>6, <1>8, <3>1, Zenon
  <2> QED
    BY <2>1, <2>2
<1>10. \A i \in 1 .. Len(list) : RowsOf(list)[i + 1] = Append(list[i], Status)
  BY <1>6, <1>8, Zenon
<1> QED
  BY <1>2, <1>3, <1>4, <1>8, <1>9, <1>10, Zenon DEF C

Lined(row, z) ==
  /\ z \in Seq(Character)
  /\ \A T \in Seq(Character), a, b \in Nat : Spans(T, a, b, z) => \E s, e : RowAt(T, a, b, row, s, e)

LEMMA LineThere ==
    ASSUME NEW row \in Seq(Seq(Character)), Len(row) # 0,
           NEW parts \in Seq(Seq(Character)), Len(parts) = Len(row),
           \A c \in 1 .. Len(row) : WrittenAs(row[c], parts[c])
    PROVE  Lined(row, JoinedBy(parts, <<Comma>>))
<1>1. Comma \in Character
  BY FileFacts, Zenon
<1>2. JoinedBy(parts, <<Comma>>) \in Seq(Character)
  BY <1>1, JoinedParts, Zenon
<1>3. ASSUME NEW T \in Seq(Character), NEW a \in Nat, NEW b \in Nat, Spans(T, a, b, JoinedBy(parts, <<Comma>>))
      PROVE  \E s, e : RowAt(T, a, b, row, s, e)
  BY <1>3, RowThere, Zenon
<1> QED
  BY <1>2, <1>3, Zenon DEF Lined

PageLine(row) == JoinedBy([i \in 1 .. Len(row) |-> InQuotes(row[i])], <<Comma>>)
LEMMA PageLineThere ==
    ASSUME NEW row \in Seq(Seq(Character)), Len(row) # 0
    PROVE  Lined(row, PageLine(row))
<1> DEFINE parts == [i \in 1 .. Len(row) |-> InQuotes(row[i])]
<1>1. Len(row) \in Nat /\ \A i \in 1 .. Len(row) : row[i] \in Seq(Character)
  OBVIOUS
<1>2. \A i \in 1 .. Len(row) : InQuotes(row[i]) \in Seq(Character)
  BY <1>1, EscapedParts, Zenon
<1>3. parts \in Seq(Seq(Character)) /\ Len(parts) = Len(row) /\ \A i \in 1 .. Len(row) : parts[i] = InQuotes(row[i])
  BY <1>1, <1>2
<1>4. PageLine(row) = JoinedBy(parts, <<Comma>>)
  BY Zenon DEF PageLine
<1> HIDE DEF parts
<1>5. \A i \in 1 .. Len(row) : WrittenAs(row[i], parts[i])
  BY <1>3, Zenon DEF WrittenAs
<1>6. Lined(row, JoinedBy(parts, <<Comma>>))
  BY <1>3, <1>5, LineThere, Zenon
<1> QED
  BY <1>4, <1>6, Zenon

AsNeeded(v) == IF Special(v) THEN InQuotes(v) ELSE v
SheetLine(row) == JoinedBy([i \in 1 .. Len(row) |-> AsNeeded(row[i])], <<Comma>>)
LEMMA SheetLineThere ==
    ASSUME NEW row \in Seq(Seq(Character)), Len(row) # 0
    PROVE  Lined(row, SheetLine(row))
<1> DEFINE parts == [i \in 1 .. Len(row) |-> AsNeeded(row[i])]
<1>1. Len(row) \in Nat /\ \A i \in 1 .. Len(row) : row[i] \in Seq(Character)
  OBVIOUS
<1>2. \A i \in 1 .. Len(row) : AsNeeded(row[i]) \in Seq(Character)
  BY <1>1, EscapedParts, Zenon DEF AsNeeded
<1>3. parts \in Seq(Seq(Character)) /\ Len(parts) = Len(row) /\ \A i \in 1 .. Len(row) : parts[i] = AsNeeded(row[i])
  BY <1>1, <1>2
<1>4. SheetLine(row) = JoinedBy(parts, <<Comma>>)
  BY Zenon DEF SheetLine
<1> HIDE DEF parts
<1>5. \A i \in 1 .. Len(row) : WrittenAs(row[i], parts[i])
  BY <1>3, Zenon DEF WrittenAs, AsNeeded
<1>6. Lined(row, JoinedBy(parts, <<Comma>>))
  BY <1>3, <1>5, LineThere, Zenon
<1> QED
  BY <1>4, <1>6, Zenon

LEMMA SpansAll ==
    ASSUME NEW C, NEW T \in Seq(C)
    PROVE  Spans(T, 1, Len(T) + 1, T) /\ Len(T) + 1 \in Nat
<1>1. Len(T) \in Nat /\ \A k \in 1 .. Len(T) : 1 + k - 1 = k
  OBVIOUS
<1>2. \A k \in 1 .. Len(T) : T[1 + k - 1] = T[k]
  BY <1>1, Zenon
<1>3. 1 >= 1 /\ Len(T) + 1 = 1 + Len(T) /\ Len(T) + 1 <= Len(T) + 1 /\ Len(T) + 1 \in Nat
  BY <1>1
<1> QED
  BY <1>2, <1>3, Zenon DEF Spans

LaidOut(T, rows) == T \in Seq(Character) /\ \E u, w : TextAt(T, rows, u, w)

LEMMA PageText ==
    ASSUME NEW list \in Lists
    PROVE  LaidOut(Csv(list), RowsOf(list))
<1> DEFINE rows == RowsOf(list)
<1> DEFINE parts == [r \in 1 .. Len(rows) |-> PageLine(rows[r])]
<1> DEFINE T == Csv(list)
<1>1. rows \in Seq(Seq(Seq(Character))) /\ Len(rows) # 0 /\ \A r \in 1 .. Len(rows) : Len(rows[r]) # 0
  <2>1. /\ RowsOf(list) \in Seq(Seq(Seq(Character))) /\ Len(RowsOf(list)) = Len(list) + 1 /\ Len(list) \in Nat
        /\ \A r \in 1 .. Len(RowsOf(list)) : Len(RowsOf(list)[r]) = Len(Titles)
        /\ Len(Titles) # 0
    BY RowsFacts, Zenon
  <2>2. Len(list) + 1 # 0
    BY <2>1
  <2> QED
    BY <2>1, <2>2, Zenon
<1>2. T = JoinedBy(parts, <<LF>>)
  BY DEF Csv, PageLine
<1> HIDE DEF T, rows
<1>3. Len(rows) \in Nat /\ \A r \in 1 .. Len(rows) : rows[r] \in Seq(Seq(Character))
  BY <1>1
<1>4. \A r \in 1 .. Len(rows) : Lined(rows[r], PageLine(rows[r]))
  BY <1>1, <1>3, PageLineThere, Zenon
<1>5. \A r \in 1 .. Len(rows) : PageLine(rows[r]) \in Seq(Character)
  BY <1>4, Zenon DEF Lined
<1>6. parts \in Seq(Seq(Character)) /\ Len(parts) = Len(rows) /\ \A r \in 1 .. Len(rows) : parts[r] = PageLine(rows[r])
  BY <1>3, <1>5
<1> HIDE DEF parts
<1>7. LF \in Character
  BY FileFacts, Zenon
<1>8. T \in Seq(Character)
  BY <1>2, <1>6, <1>7, JoinedParts, Zenon
<1> DEFINE b == Len(T) + 1
<1>9. Spans(T, 1, b, JoinedBy(parts, <<LF>>)) /\ b \in Nat /\ 1 \in Nat
  <2>1. Spans(T, 1, b, T) /\ b \in Nat
    BY <1>8, SpansAll, Zenon
  <2>2. Spans(T, 1, b, JoinedBy(parts, <<LF>>))
    BY <1>2, <2>1, Zenon
  <2> QED
    BY <2>1, <2>2
<1> HIDE DEF b
<1>10. Len(parts) # 0
  BY <1>1, <1>6, Zenon
<1>11. PICK u, w : Parted(T, 1, b, parts, LF, u, w)
  BY <1>6, <1>7, <1>8, <1>9, <1>10, JoinedThere, Zenon
<1>12. /\ u \in [1 .. Len(rows) -> Nat] /\ w \in [1 .. Len(rows) -> Nat] /\ u[1] = 1 /\ w[Len(rows)] = b
       /\ \A r \in 1 .. Len(rows) : Spans(T, u[r], w[r], PageLine(rows[r]))
       /\ \A r \in 1 .. Len(rows) - 1 : w[r] <= Len(T) /\ T[w[r]] = LF /\ u[r + 1] = w[r] + 1
  BY <1>6, <1>11, Zenon DEF Parted
<1>13. \A r \in 1 .. Len(rows) : u[r] \in Nat /\ w[r] \in Nat
  <2>1. u \in [1 .. Len(rows) -> Nat] /\ w \in [1 .. Len(rows) -> Nat]
    BY <1>12, Zenon
  <2> QED
    BY <2>1
<1>14. \A r \in 1 .. Len(rows) : \E s, e : RowAt(T, u[r], w[r], rows[r], s, e)
  BY <1>4, <1>8, <1>12, <1>13, Zenon DEF Lined
<1>15. \A r \in 1 .. Len(rows) - 1 : EolAt(T, w[r], u[r + 1])
  BY <1>12, Zenon DEF EolAt
<1>16. TextAt(T, rows, u, w)
  BY <1>12, <1>14, <1>15, Zenon DEF TextAt, b
<1>17. LaidOut(T, rows)
  BY <1>8, <1>16, Zenon DEF LaidOut
<1> QED
  BY <1>17, Zenon DEF T, rows

LEMMA SheetText ==
    ASSUME NEW list \in Lists
    PROVE  LaidOut(Resaved(list), RowsOf(list))
<1> DEFINE rows == RowsOf(list)
<1> DEFINE end == <<CR, LF>>
<1> DEFINE parts == [r \in 1 .. Len(rows) |-> SheetLine(rows[r]) \o end]
<1> DEFINE T == Resaved(list)
<1>1. rows \in Seq(Seq(Seq(Character))) /\ Len(rows) # 0 /\ \A r \in 1 .. Len(rows) : Len(rows[r]) # 0
  <2>1. /\ RowsOf(list) \in Seq(Seq(Seq(Character))) /\ Len(RowsOf(list)) = Len(list) + 1 /\ Len(list) \in Nat
        /\ \A r \in 1 .. Len(RowsOf(list)) : Len(RowsOf(list)[r]) = Len(Titles)
        /\ Len(Titles) # 0
    BY RowsFacts, Zenon
  <2>2. Len(list) + 1 # 0
    BY <2>1
  <2> QED
    BY <2>1, <2>2, Zenon
<1>2. T = FlattenSeq(parts)
  BY DEF Resaved, SheetLine, AsNeeded, Special
<1>0. end \in Seq(Character) /\ Len(end) = 2
  BY FileFacts
<1> HIDE DEF T, rows, end
<1>3. Len(rows) \in Nat /\ \A r \in 1 .. Len(rows) : rows[r] \in Seq(Seq(Character))
  BY <1>1
<1>4. \A r \in 1 .. Len(rows) : Lined(rows[r], SheetLine(rows[r]))
  BY <1>1, <1>3, SheetLineThere, Zenon
<1>5. \A r \in 1 .. Len(rows) : SheetLine(rows[r]) \in Seq(Character) /\ SheetLine(rows[r]) \o end \in Seq(Character)
  BY <1>0, <1>4, JoinedTwo, Zenon DEF Lined
<1>6. /\ parts \in Seq(Seq(Character)) /\ Len(parts) = Len(rows)
      /\ \A r \in 1 .. Len(rows) : parts[r] = SheetLine(rows[r]) \o end
  BY <1>3, <1>5
<1> HIDE DEF parts
<1>7. T \in Seq(Character)
  BY <1>2, <1>6, FlattenInSeq, Zenon
<1> DEFINE b == Len(T) + 1
<1>8. Spans(T, 1, b, FlattenSeq(parts)) /\ b \in Nat /\ 1 \in Nat
  <2>1. Spans(T, 1, b, T) /\ b \in Nat
    BY <1>7, SpansAll, Zenon
  <2>2. Spans(T, 1, b, FlattenSeq(parts))
    BY <1>2, <2>1, Zenon
  <2> QED
    BY <2>1, <2>2
<1> HIDE DEF b
<1>9. PICK p : Cut(T, parts, p, 1, b)
  BY <1>6, <1>7, <1>8, FlattenCut, Zenon
<1>10. /\ p \in [0 .. Len(rows) -> Nat] /\ p[0] = 1 /\ p[Len(rows)] = b
       /\ \A r \in 1 .. Len(rows) : Spans(T, p[r - 1], p[r], SheetLine(rows[r]) \o end)
  BY <1>6, <1>9, Zenon DEF Cut
<1> DEFINE u == [r \in 1 .. Len(rows) |-> p[r - 1]]
<1> DEFINE w == [r \in 1 .. Len(rows) |-> p[r - 1] + Len(SheetLine(rows[r]))]
<1>11. \A r \in 1 .. Len(rows) : p[r - 1] \in Nat /\ p[r] \in Nat
  <2>1. \A r \in 1 .. Len(rows) : r - 1 \in 0 .. Len(rows) /\ r \in 0 .. Len(rows)
    BY <1>3
  <2>2. p \in [0 .. Len(rows) -> Nat]
    BY <1>10, Zenon
  <2> QED
    BY <2>1, <2>2
<1>12. \A r \in 1 .. Len(rows) : p[r - 1] + Len(SheetLine(rows[r])) \in Nat
  <2>1. \A r \in 1 .. Len(rows) : Len(SheetLine(rows[r])) \in Nat
    BY <1>5
  <2> QED
    BY <1>11, <2>1
<1>13. /\ u \in [1 .. Len(rows) -> Nat] /\ w \in [1 .. Len(rows) -> Nat]
       /\ \A r \in 1 .. Len(rows) : u[r] = p[r - 1] /\ w[r] = p[r - 1] + Len(SheetLine(rows[r]))
  BY <1>11, <1>12
<1> HIDE DEF u, w
<1>14. ASSUME NEW r \in 1 .. Len(rows)
       PROVE  Spans(T, u[r], w[r], SheetLine(rows[r])) /\ EolAt(T, w[r], p[r])
  <2> DEFINE d == p[r - 1] + Len(SheetLine(rows[r]))
  <2>1. d \in Nat /\ p[r - 1] \in Nat /\ p[r] \in Nat /\ u[r] = p[r - 1] /\ w[r] = d
    BY <1>11, <1>12, <1>13, Zenon
  <2>2. Spans(T, p[r - 1], d, SheetLine(rows[r])) /\ Spans(T, d, p[r], end)
    BY <1>0, <1>5, <1>7, <1>10, <2>1, SpansTwo, Zenon
  <2> HIDE DEF d
  <2>3. Spans(T, d, p[r], <<CR, LF>>)
    BY <2>2, Zenon DEF end
  <2>4. PICK z \in Nat : z = p[r]
    BY <2>1
  <2>5. Spans(T, d, z, <<CR, LF>>)
    BY <2>3, <2>4, Zenon
  <2>6. d < Len(T) /\ T[d] = CR /\ T[d + 1] = LF /\ z = d + 2
    BY <1>7, <2>1, <2>5, SpansPair
  <2>7. EolAt(T, d, z)
    BY <2>6, Zenon DEF EolAt
  <2> QED
    BY <2>1, <2>2, <2>4, <2>7, Zenon
<1>15. \A r \in 1 .. Len(rows) : \E s, e : RowAt(T, u[r], w[r], rows[r], s, e)
  <2>1. \A r \in 1 .. Len(rows) : u[r] \in Nat /\ w[r] \in Nat
    BY <1>11, <1>12, <1>13, Zenon
  <2> QED
    BY <1>4, <1>7, <1>14, <2>1, Zenon DEF Lined
<1>16. \A r \in 1 .. Len(rows) - 1 : EolAt(T, w[r], u[r + 1])
  <2> TAKE r \in 1 .. Len(rows) - 1
  <2> DEFINE j == r + 1
  <2>1. r \in 1 .. Len(rows) /\ j \in 1 .. Len(rows) /\ j - 1 = r
    BY <1>3
  <2> HIDE DEF j
  <2>2. u[j] = p[r]
    BY <1>13, <2>1, Zenon
  <2>3. EolAt(T, w[r], u[j])
    BY <1>14, <2>1, <2>2, Zenon
  <2> QED
    BY <2>3, Zenon DEF j
<1>17. u[1] = 1 /\ EolAt(T, w[Len(rows)], b)
  <2>1. 1 \in 1 .. Len(rows) /\ Len(rows) \in 1 .. Len(rows) /\ 1 - 1 = 0
    BY <1>1, <1>3
  <2> QED
    BY <1>10, <1>13, <1>14, <2>1, Zenon
<1>18. TextAt(T, rows, u, w)
  BY <1>13, <1>15, <1>16, <1>17, Zenon DEF TextAt, b
<1>19. LaidOut(T, rows)
  BY <1>7, <1>18, Zenon DEF LaidOut
<1> QED
  BY <1>19, Zenon DEF T, rows

-----------------------------------------------------------------------------
(* What a step of parseCSV does at a character.                            *)
ParseStep == DoubledQuote \/ SingleQuote \/ EndCell \/ EndLine \/ PlainCharacter \/ EndText
ParserMoves(d, h, x) == pos' = d /\ inQuotes' = h /\ current' = x
SameCells == cells' = cells /\ lines' = lines

LEMMA PlainStep ==
    ASSUME Len(text) \in Nat, pos \in Nat, pos <= Len(text), ParseStep,
           text[pos] # Quote, text[pos] \in {Comma, CR, LF} => inQuotes
    PROVE  ParserMoves(pos + 1, inQuotes, Append(current, text[pos])) /\ SameCells /\ StillReading
<1>1. ~(pos > Len(text))
  OBVIOUS
<1>2. PlainCharacter
  <2>1. ~DoubledQuote /\ ~SingleQuote
    BY Zenon DEF DoubledQuote, SingleQuote, Reading
  <2>2. ~EndCell
    BY Zenon DEF EndCell, Reading
  <2>3. ~EndLine
    BY Zenon DEF EndLine, Reading
  <2>4. ~EndText
    BY <1>1, Zenon DEF EndText
  <2> QED
    BY <2>1, <2>2, <2>3, <2>4, Zenon DEF ParseStep
<1> QED
  BY <1>2, Zenon DEF PlainCharacter, ParserMoves, SameCells

LEMMA DoubledStep ==
    ASSUME Len(text) \in Nat, pos \in Nat, ParseStep, inQuotes, text[pos] = Quote, FollowedBy(Quote)
    PROVE  ParserMoves(pos + 2, inQuotes, Append(current, Quote)) /\ SameCells /\ StillReading
<1>1. ~(pos > Len(text))
  BY DEF FollowedBy
<1>2. DoubledQuote
  <2>1. ~SingleQuote /\ ~EndCell /\ ~EndLine
    BY <1>1, Zenon DEF SingleQuote, EndCell, EndLine
  <2>2. ~PlainCharacter /\ ~EndText
    BY <1>1, Zenon DEF PlainCharacter, EndText
  <2> QED
    BY <2>1, <2>2, Zenon DEF ParseStep
<1> QED
  BY <1>2, Zenon DEF DoubledQuote, ParserMoves, SameCells

LEMMA StepsOne ==
    ASSUME Len(text) \in Nat, pos \in Nat, pos <= Len(text), ParseStep, text[pos] = Quote,
           ~(inQuotes /\ FollowedBy(Quote))
    PROVE  ParserMoves(pos + 1, ~inQuotes, current) /\ SameCells /\ StillReading
<1>1. ~(pos > Len(text))
  OBVIOUS
<1>2. SingleQuote
  <2>1. ~DoubledQuote
    BY Zenon DEF DoubledQuote
  <2>2. ~EndCell /\ ~EndLine
    <3>1. Quote # Comma /\ Quote # CR /\ Quote # LF
      BY FileFacts, Zenon
    <3> QED
      BY <3>1, Zenon DEF EndCell, EndLine, Reading
  <2>3. ~PlainCharacter /\ ~EndText
    BY <1>1, Zenon DEF PlainCharacter, EndText
  <2> QED
    BY <2>1, <2>2, <2>3, Zenon DEF ParseStep
<1> QED
  BY <1>2, Zenon DEF SingleQuote, ParserMoves, SameCells

LEMMA CommaStep ==
    ASSUME Len(text) \in Nat, pos \in Nat, pos <= Len(text), ParseStep, text[pos] = Comma, ~inQuotes
    PROVE  /\ ParserMoves(pos + 1, inQuotes, <<>>) /\ cells' = Append(cells, Trim(current)) /\ lines' = lines
           /\ StillReading
<1>1. ~(pos > Len(text))
  OBVIOUS
<1>2. EndCell
  <2>1. Quote # Comma /\ Comma # CR /\ Comma # LF
    BY FileFacts, Zenon
  <2>2. ~DoubledQuote /\ ~SingleQuote
    BY <2>1, Zenon DEF DoubledQuote, SingleQuote, Reading
  <2>3. ~EndLine
    BY <2>1, Zenon DEF EndLine, Reading
  <2>4. ~PlainCharacter /\ ~EndText
    BY <1>1, Zenon DEF PlainCharacter, EndText
  <2> QED
    BY <2>2, <2>3, <2>4, Zenon DEF ParseStep
<1> QED
  BY <1>2, Zenon DEF EndCell, ParserMoves

(* An end of line of one character, and one of two.                        *)
LEMMA LineStep ==
    ASSUME NEW z, Len(text) \in Nat, pos \in Nat, ParseStep, EolAt(text, pos, z), ~inQuotes
    PROVE  /\ ParserMoves(z, inQuotes, <<>>) /\ cells' = <<>> /\ lines' = Append(lines, Append(cells, Trim(current)))
           /\ StillReading
<1>1. pos <= Len(text) /\ ~(pos > Len(text)) /\ text[pos] \in {CR, LF}
  BY DEF EolAt
<1>2. EndLine
  <2>1. Quote # CR /\ Quote # LF /\ Comma # CR /\ Comma # LF
    BY FileFacts, Zenon
  <2>2. ~DoubledQuote /\ ~SingleQuote
    BY <1>1, <2>1, Zenon DEF DoubledQuote, SingleQuote, Reading
  <2>3. ~EndCell
    BY <1>1, <2>1, Zenon DEF EndCell, Reading
  <2>4. ~PlainCharacter /\ ~EndText
    BY <1>1, Zenon DEF PlainCharacter, EndText
  <2> QED
    BY <2>2, <2>3, <2>4, Zenon DEF ParseStep
<1>3. (IF Reading(CR) /\ FollowedBy(LF) THEN pos + 2 ELSE pos + 1) = z
  <2>0. wizard = "reading"
    BY <1>2, Zenon DEF EndLine, Reading
  <2>1. CASE text[pos] = LF /\ z = pos + 1
    <3>1. ~Reading(CR)
      BY <2>1, FileFacts, Zenon DEF Reading
    <3> QED
      BY <2>1, <3>1, Zenon
  <2>2. CASE pos < Len(text) /\ text[pos] = CR /\ text[pos + 1] = LF /\ z = pos + 2
    <3>1. Reading(CR) /\ FollowedBy(LF)
      BY <1>1, <2>0, <2>2, Zenon DEF Reading, FollowedBy
    <3> QED
      BY <2>2, <3>1, Zenon
  <2> QED
    BY <2>1, <2>2, Zenon DEF EolAt
<1> QED
  BY <1>2, <1>3, Zenon DEF EndLine, ParserMoves

-----------------------------------------------------------------------------
(* The parser on the cell v, which lies between p and q.                   *)
InRaw(T, d, h, x, p, q, v) ==
  ~h /\ RawAt(T, p, q, v) /\ \E k \in 0 .. Len(v) : k < Len(v) /\ d = p + k /\ x = SubSeq(v, 1, k)
AtQuote(T, d, h, x, p, q, v) == ~h /\ d = p /\ x = <<>> /\ \E e : QuotedAt(T, p, q, v, e)
InText(T, d, h, x, p, q, v) ==
  h /\ \E e : QuotedAt(T, p, q, v, e) /\ \E k \in 0 .. Len(v) : d = e[k] /\ x = SubSeq(v, 1, k)
InCell(T, d, h, x, p, q, v) ==
  InRaw(T, d, h, x, p, q, v) \/ AtQuote(T, d, h, x, p, q, v) \/ InText(T, d, h, x, p, q, v)
CellRead(d, h, x, q, v) == ~h /\ d = q /\ x = v
OnCell(T, d, h, x, p, q, v) == InCell(T, d, h, x, p, q, v) \/ CellRead(d, h, x, q, v)

LEMMA FirstOfNone ==
    ASSUME NEW C, NEW v \in Seq(C)
    PROVE  Len(v) \in Nat /\ SubSeq(v, 1, 0) = <<>> /\ SubSeq(v, 1, Len(v)) = v
OBVIOUS

LEMMA PastOne ==
    ASSUME NEW C, NEW v \in Seq(C), NEW k \in 0 .. Len(v), k < Len(v)
    PROVE  k + 1 \in 1 .. Len(v) /\ Append(SubSeq(v, 1, k), v[k + 1]) = SubSeq(v, 1, k + 1)
<1>1. k + 1 \in 1 .. Len(v) /\ Len(v) \in Nat /\ k \in Nat
  OBVIOUS
<1> QED
  BY <1>1

LEMMA CellStarts ==
    ASSUME NEW T, NEW p \in Nat, NEW q, NEW v \in Seq(Character), CellAt(T, p, q, v)
    PROVE  OnCell(T, p, FALSE, <<>>, p, q, v)
<1>0. Len(v) \in Nat /\ SubSeq(v, 1, 0) = <<>> /\ SubSeq(v, 1, Len(v)) = v
  BY FirstOfNone, Zenon
<1>1. CASE RawAt(T, p, q, v) /\ Len(v) # 0
  <2>1. 0 \in 0 .. Len(v) /\ 0 < Len(v) /\ p = p + 0
    BY <1>0, <1>1
  <2> QED
    BY <1>0, <1>1, <2>1, Zenon DEF OnCell, InCell, InRaw
<1>2. CASE RawAt(T, p, q, v) /\ Len(v) = 0
  <2>1. v = <<>>
    BY <1>2
  <2>2. q = p
    BY <1>2 DEF RawAt, Spans
  <2> QED
    BY <2>1, <2>2, Zenon DEF OnCell, CellRead
<1>3. CASE \E e : QuotedAt(T, p, q, v, e)
  BY <1>3, Zenon DEF OnCell, InCell, AtQuote
<1> QED
  BY <1>1, <1>2, <1>3, Zenon DEF CellAt

-----------------------------------------------------------------------------
(* A step on a cell that is not read to its end stays on the cell.         *)
StillOn(p, q, v) == OnCell(text, pos', inQuotes', current', p, q, v) /\ SameCells /\ StillReading

LEMMA MovedOn ==
    ASSUME NEW p, NEW q, NEW v, NEW d, NEW h, NEW x, OnCell(text, d, h, x, p, q, v), ParserMoves(d, h, x),
           SameCells, StillReading
    PROVE  StillOn(p, q, v)
BY Zenon DEF ParserMoves, StillOn

LEMMA RawStep ==
    ASSUME NEW p \in Nat, NEW q, NEW v \in Seq(Character), text \in Seq(Character), pos \in Nat,
           InRaw(text, pos, inQuotes, current, p, q, v), ParseStep
    PROVE  StillOn(p, q, v)
<1>0. Len(text) \in Nat /\ Len(v) \in Nat
  OBVIOUS
<1>1. PICK k \in 0 .. Len(v) : k < Len(v) /\ pos = p + k /\ current = SubSeq(v, 1, k)
  BY Zenon DEF InRaw
<1>2. ~inQuotes /\ RawAt(text, p, q, v)
  BY Zenon DEF InRaw
<1>3. k + 1 \in 1 .. Len(v) /\ Append(current, v[k + 1]) = SubSeq(v, 1, k + 1)
  BY <1>1, PastOne, Zenon
<1>4. text[p + (k + 1) - 1] = v[k + 1] /\ v[k + 1] \notin {Quote, Comma, CR, LF} /\ q = p + Len(v) /\ q <= Len(text) + 1
  BY <1>2, <1>3, Zenon DEF RawAt, Spans
<1>5. p + (k + 1) - 1 = pos /\ pos <= Len(text) /\ pos + 1 = p + (k + 1) /\ (k + 1 = Len(v) => pos + 1 = q)
      /\ k + 1 \in 0 .. Len(v) /\ (k + 1 # Len(v) => k + 1 < Len(v))
  <2> DEFINE n == Len(v)  t == Len(text)
  <2>1. n \in Nat /\ t \in Nat /\ k \in 0 .. n /\ k < n /\ pos = p + k /\ q = p + n /\ q <= t + 1
    BY <1>0, <1>1, <1>4, Zenon
  <2> HIDE DEF n, t
  <2>2. p + (k + 1) - 1 = pos /\ pos <= t /\ pos + 1 = p + (k + 1) /\ (k + 1 = n => pos + 1 = q)
        /\ k + 1 \in 0 .. n /\ (k + 1 # n => k + 1 < n)
    BY <2>1
  <2> QED
    BY <2>2, Zenon DEF n, t
<1>6. text[pos] = v[k + 1]
  BY <1>4, <1>5, Zenon
<1>7. ParserMoves(pos + 1, inQuotes, Append(current, text[pos])) /\ SameCells /\ StillReading
  <2>1. text[pos] # Quote /\ ~(text[pos] \in {Comma, CR, LF})
    BY <1>4, <1>6, Zenon
  <2> QED
    BY <1>0, <1>5, <2>1, PlainStep, Zenon
<1> DEFINE x == SubSeq(v, 1, k + 1)
<1>8. ParserMoves(pos + 1, inQuotes, x)
  BY <1>3, <1>6, <1>7, Zenon
<1>9. OnCell(text, pos + 1, inQuotes, x, p, q, v)
  <2>1. CASE k + 1 = Len(v)
    <3>1. SubSeq(v, 1, k + 1) = v
      BY <2>1, FirstOfNone, Zenon
    <3> QED
      BY <1>2, <1>5, <2>1, <3>1, Zenon DEF OnCell, CellRead
  <2>2. CASE k + 1 # Len(v)
    BY <1>2, <1>5, <2>2, Zenon DEF OnCell, InCell, InRaw
  <2> QED
    BY <2>1, <2>2
<1> HIDE DEF x
<1> QED
  BY <1>7, <1>8, <1>9, MovedOn, Zenon

LEMMA QuoteStep ==
    ASSUME NEW p \in Nat, NEW q, NEW v \in Seq(Character), text \in Seq(Character), pos \in Nat,
           AtQuote(text, pos, inQuotes, current, p, q, v), ParseStep
    PROVE  StillOn(p, q, v)
<1>0. Len(text) \in Nat /\ Len(v) \in Nat /\ 0 \in 0 .. Len(v) /\ SubSeq(v, 1, 0) = <<>>
  BY FirstOfNone
<1>1. PICK e : QuotedAt(text, p, q, v, e)
  BY Zenon DEF AtQuote
<1>2. ~inQuotes /\ pos = p /\ current = <<>>
  BY Zenon DEF AtQuote
<1>3. p <= Len(text) /\ text[p] = Quote /\ e[0] = p + 1
  BY <1>1, Zenon DEF QuotedAt
<1>4. ParserMoves(pos + 1, ~inQuotes, current) /\ SameCells /\ StillReading
  BY <1>0, <1>2, <1>3, StepsOne, Zenon
<1>5. ParserMoves(p + 1, TRUE, <<>>)
  BY <1>2, <1>4, Zenon DEF ParserMoves
<1>6. OnCell(text, p + 1, TRUE, <<>>, p, q, v)
  BY <1>0, <1>1, <1>3, Zenon DEF OnCell, InCell, InText
<1> QED
  BY <1>4, <1>5, <1>6, MovedOn, Zenon

LEMMA TextStep ==
    ASSUME NEW p \in Nat, NEW q, NEW v \in Seq(Character), text \in Seq(Character), pos \in Nat, inQuotes \in BOOLEAN,
           q <= Len(text) => text[q] # Quote,
           InText(text, pos, inQuotes, current, p, q, v), ParseStep
    PROVE  StillOn(p, q, v)
<1>0. Len(text) \in Nat /\ Len(v) \in Nat
  OBVIOUS
<1>1. PICK e : QuotedAt(text, p, q, v, e) /\ \E k \in 0 .. Len(v) : pos = e[k] /\ current = SubSeq(v, 1, k)
  BY Zenon DEF InText
<1>2. PICK k \in 0 .. Len(v) : pos = e[k] /\ current = SubSeq(v, 1, k)
  BY <1>1, Zenon
<1>3. inQuotes = TRUE
  BY Zenon DEF InText
<1>4. CASE k = Len(v)
  <2>1. pos <= Len(text) /\ text[pos] = Quote /\ q = pos + 1
    BY <1>1, <1>2, <1>4, Zenon DEF QuotedAt
  <2>2. ~FollowedBy(Quote)
    <3>1. FollowedBy(Quote) => q <= Len(text) /\ text[q] = Quote
      BY <1>0, <2>1 DEF FollowedBy
    <3> QED
      BY <3>1, Zenon
  <2>3. ParserMoves(pos + 1, ~inQuotes, current) /\ SameCells /\ StillReading
    BY <1>0, <2>1, <2>2, StepsOne, Zenon
  <2>4. current = v
    BY <1>2, <1>4, FirstOfNone, Zenon
  <2>5. ParserMoves(q, FALSE, v)
    BY <1>3, <2>1, <2>3, <2>4, Zenon DEF ParserMoves
  <2>6. OnCell(text, q, FALSE, v, p, q, v)
    BY Zenon DEF OnCell, CellRead
  <2> QED
    BY <2>3, <2>5, <2>6, MovedOn, Zenon
<1>5. CASE k # Len(v)
  <2>1. k < Len(v)
    BY <1>0, <1>5
  <2>2. k + 1 \in 1 .. Len(v) /\ Append(current, v[k + 1]) = SubSeq(v, 1, k + 1)
    BY <1>2, <2>1, PastOne, Zenon
  <2>3. k + 1 - 1 = k /\ k + 1 \in 0 .. Len(v)
    BY <1>0, <2>2
  <2>4. PICK j \in 1 .. Len(v) : j = k + 1
    BY <2>2
  <2>5. j - 1 = k /\ j \in 0 .. Len(v)
    BY <2>3, <2>4
  <2>6. Append(current, v[j]) = SubSeq(v, 1, j)
    BY <2>2, <2>4, Zenon
  <2>7. CharacterAt(text, e[j - 1], e[j], v[j])
    BY <1>1, <2>5, Zenon DEF QuotedAt
  <2>8. CharacterAt(text, pos, e[j], v[j])
    BY <1>2, <2>5, <2>7, Zenon
  <2>9. ParserMoves(e[j], inQuotes, Append(current, v[j])) /\ SameCells /\ StillReading
    <3>1. CASE v[j] = Quote
      <4>1. e[j] = pos + 2 /\ pos < Len(text) /\ text[pos] = Quote /\ text[pos + 1] = Quote
        BY <2>8, <3>1, Zenon DEF CharacterAt
      <4>2. ParserMoves(pos + 2, inQuotes, Append(current, Quote)) /\ SameCells /\ StillReading
        <5>1. FollowedBy(Quote)
          BY <4>1, Zenon DEF FollowedBy
        <5>2. inQuotes
          BY <1>3, Zenon
        <5> QED
          BY <1>0, <4>1, <5>1, <5>2, DoubledStep, Zenon
      <4> QED
        BY <3>1, <4>1, <4>2, Zenon
    <3>2. CASE v[j] # Quote
      <4>1. e[j] = pos + 1 /\ pos <= Len(text) /\ text[pos] = v[j] /\ text[pos] # Quote
        BY <2>8, <3>2, Zenon DEF CharacterAt
      <4>2. ParserMoves(pos + 1, inQuotes, Append(current, text[pos])) /\ SameCells /\ StillReading
        BY <1>0, <1>3, <4>1, PlainStep, Zenon
      <4> QED
        BY <4>1, <4>2, Zenon
    <3> QED
      BY <3>1, <3>2
  <2>10. ParserMoves(e[j], inQuotes, SubSeq(v, 1, j))
    BY <2>6, <2>9, Zenon
  <2>11. OnCell(text, e[j], inQuotes, SubSeq(v, 1, j), p, q, v)
    BY <1>1, <1>3, <2>5, Zenon DEF OnCell, InCell, InText
  <2> QED
    BY <2>9, <2>10, <2>11, MovedOn, Zenon
<1> QED
  BY <1>4, <1>5

LEMMA CellStep ==
    ASSUME NEW p \in Nat, NEW q, NEW v \in Seq(Character), text \in Seq(Character), pos \in Nat, inQuotes \in BOOLEAN,
           q <= Len(text) => text[q] # Quote,
           InCell(text, pos, inQuotes, current, p, q, v), ParseStep
    PROVE  StillOn(p, q, v)
BY RawStep, QuoteStep, TextStep, Zenon DEF InCell

-----------------------------------------------------------------------------
(* What the rows are read as.                                              *)
Kind(list) == {Trim(RowsOf(list)[r][c]) : r \in 1 .. Len(RowsOf(list)), c \in 1 .. Len(Titles)}
ReadRow(list, r) == [c \in 1 .. Len(Titles) |-> Trim(RowsOf(list)[r][c])]
Reads(list) == [r \in 1 .. Len(RowsOf(list)) |-> ReadRow(list, r)]

LEMMA ReadsFacts ==
    ASSUME NEW list \in Lists
    PROVE  /\ Reads(list) \in Seq(Seq(Kind(list))) /\ Len(Reads(list)) = Len(RowsOf(list))
           /\ \A r \in 1 .. Len(RowsOf(list)) :
                /\ Reads(list)[r] \in Seq(Kind(list)) /\ Len(Reads(list)[r]) = Len(Titles)
                /\ \A c \in 1 .. Len(Titles) : Reads(list)[r][c] = Trim(RowsOf(list)[r][c])
<1> DEFINE n == Len(RowsOf(list))  m == Len(Titles)  K == Kind(list)
<1>1. n \in Nat /\ m \in Nat
  <2>1. Len(RowsOf(list)) = Len(list) + 1 /\ Len(list) \in Nat /\ Len(Titles) \in Nat
    BY RowsFacts, Zenon
  <2> QED
    BY <2>1
<1>2. \A r \in 1 .. n, c \in 1 .. m : Trim(RowsOf(list)[r][c]) \in K
  BY DEF Kind
<1> HIDE DEF n, m, K
<1>3. ASSUME NEW r \in 1 .. n
      PROVE  ReadRow(list, r) \in Seq(K) /\ Len(ReadRow(list, r)) = m
             /\ \A c \in 1 .. m : ReadRow(list, r)[c] = Trim(RowsOf(list)[r][c])
  <2>1. ReadRow(list, r) = [c \in 1 .. m |-> Trim(RowsOf(list)[r][c])]
    BY Zenon DEF ReadRow, m
  <2>2. \A c \in 1 .. m : Trim(RowsOf(list)[r][c]) \in K
    BY <1>2, Zenon
  <2> QED
    BY <1>1, <2>1, <2>2
<1>4. Reads(list) = [r \in 1 .. n |-> ReadRow(list, r)]
  BY Zenon DEF Reads, n
<1>5. Reads(list) \in Seq(Seq(K)) /\ Len(Reads(list)) = n /\ \A r \in 1 .. n : Reads(list)[r] = ReadRow(list, r)
  <2>1. \A r \in 1 .. n : ReadRow(list, r) \in Seq(K)
    BY <1>3, Zenon
  <2> QED
    BY <1>1, <1>4, <2>1
<1> QED
  BY <1>3, <1>5, Zenon DEF n, m, K

(* A title and a status are read as they are, and are not blank.           *)
LEMMA PlainCells ==
    ASSUME NEW list \in Lists
    PROVE  /\ \A c \in 1 .. Len(Titles) : RowsOf(list)[1][c] = Titles[c] /\ Titles[c] # <<>> /\ Trim(Titles[c]) = Titles[c]
           /\ \A i \in 1 .. Len(list) :
                /\ \A c \in 1 .. Len(Titles) : c < Len(Titles) => RowsOf(list)[i + 1][c] = list[i][c]
                /\ RowsOf(list)[i + 1][Len(Titles)] = Status
           /\ Status # <<>> /\ Trim(Status) = Status
<1>1. \A c \in 1 .. Len(Titles) : Titles[c] # <<>> /\ Trim(Titles[c]) = Titles[c]
  <2>1. \A c \in 1 .. Len(Titles) : Titles[c] \in {Titles[i] : i \in 1 .. Len(Titles)} \cup {Status}
    OBVIOUS
  <2> QED
    BY <2>1, FileAssumption, Zenon
<1>2. Status # <<>> /\ Trim(Status) = Status
  <2>1. Status \in {Titles[i] : i \in 1 .. Len(Titles)} \cup {Status}
    OBVIOUS
  <2> QED
    BY <2>1, FileAssumption, Zenon
<1>3. ASSUME NEW i \in 1 .. Len(list)
      PROVE  /\ \A c \in 1 .. Len(Titles) : c < Len(Titles) => RowsOf(list)[i + 1][c] = list[i][c]
             /\ RowsOf(list)[i + 1][Len(Titles)] = Status
  <2>1. RowsOf(list)[i + 1] = Append(list[i], Status) /\ list[i] \in Seq(Seq(Character))
        /\ Len(list[i]) = Len(Titles) - 1 /\ Len(Titles) \in Nat /\ Len(Titles) # 0
    BY RowsFacts, Zenon
  <2>2. PICK q \in Seq(Seq(Character)) : q = list[i]
    BY <2>1, Zenon
  <2>3. PICK m \in Nat : m = Len(Titles)
    BY <2>1, Zenon
  <2>4. Len(q) = m - 1 /\ m # 0
    BY <2>1, <2>2, <2>3, Zenon
  <2>5. Append(q, Status)[m] = Status /\ \A c \in 1 .. m : c < m => Append(q, Status)[c] = q[c]
    <3>1. Append(q, Status)[Len(q) + 1] = Status /\ Len(q) + 1 = m
      BY <2>4
    <3>2. \A c \in 1 .. Len(q) : Append(q, Status)[c] = q[c]
      OBVIOUS
    <3>3. \A c \in 1 .. m : c < m => c \in 1 .. Len(q)
      BY <2>4
    <3>4. Append(q, Status)[m] = Status
      BY <3>1, Zenon
    <3> QED
      BY <3>2, <3>3, <3>4, Zenon
  <2> QED
    BY <2>1, <2>2, <2>3, <2>5, Zenon
<1>4. RowsOf(list)[1] = Titles
  BY RowsFacts, Zenon
<1> QED
  BY <1>1, <1>2, <1>3, <1>4, Zenon

LEMMA LastCell ==
    ASSUME NEW list \in Lists, NEW r \in 1 .. Len(RowsOf(list))
    PROVE  /\ RowsOf(list)[r][Len(Titles)] # <<>>
           /\ Trim(RowsOf(list)[r][Len(Titles)]) = RowsOf(list)[r][Len(Titles)]
<1>1. Len(RowsOf(list)) = Len(list) + 1 /\ Len(list) \in Nat /\ Len(Titles) \in Nat /\ Len(Titles) # 0
  BY RowsFacts, Zenon
<1>2. CASE r = 1
  <2>1. Len(Titles) \in 1 .. Len(Titles)
    BY <1>1
  <2> QED
    BY <1>2, <2>1, PlainCells, Zenon
<1>3. CASE r # 1
  <2>1. PICK i \in 1 .. Len(list) : i + 1 = r
    <3>1. r - 1 \in 1 .. Len(list) /\ r - 1 + 1 = r
      BY <1>1, <1>3
    <3> QED
      BY <3>1, Zenon
  <2>2. RowsOf(list)[i + 1][Len(Titles)] = Status /\ Status # <<>> /\ Trim(Status) = Status
    BY PlainCells, Zenon
  <2> QED
    BY <2>1, <2>2, Zenon
<1> QED
  BY <1>2, <1>3

LEMMA ReadsExpected == ASSUME listed \in Lists PROVE Reads(listed) = Expected
<1>1. Len(RowsOf(listed)) = Len(listed) + 1 /\ Len(listed) \in Nat /\ Len(Titles) \in Nat
  BY RowsFacts, Zenon
<1>2. /\ \A c \in 1 .. Len(Titles) : RowsOf(listed)[1][c] = Titles[c] /\ Trim(Titles[c]) = Titles[c]
      /\ \A i \in 1 .. Len(listed) :
           /\ \A c \in 1 .. Len(Titles) : c < Len(Titles) => RowsOf(listed)[i + 1][c] = listed[i][c]
           /\ RowsOf(listed)[i + 1][Len(Titles)] = Status
      /\ Trim(Status) = Status
  BY PlainCells, Zenon
<1> DEFINE exp(i) == IF i = 1 THEN Titles
                     ELSE [j \in 1 .. Len(Titles) |-> IF j < Len(Titles) THEN Trim(listed[i - 1][j]) ELSE Status]
<1>3. ASSUME NEW r \in 1 .. Len(listed) + 1
      PROVE  ReadRow(listed, r) = exp(r)
  <2>1. CASE r = 1
    <3>1. \A c \in 1 .. Len(Titles) : Trim(RowsOf(listed)[r][c]) = Titles[c]
      BY <1>2, <2>1, Zenon
    <3>2. ReadRow(listed, r) = [c \in 1 .. Len(Titles) |-> Titles[c]]
      BY <3>1, Zenon DEF ReadRow
    <3>3. Titles = [c \in 1 .. Len(Titles) |-> Titles[c]]
      BY FileFacts
    <3> QED
      BY <2>1, <3>2, <3>3, Zenon
  <2>2. CASE r # 1
    <3>1. PICK i \in 1 .. Len(listed) : i = r - 1 /\ i + 1 = r
      <4>1. r - 1 \in 1 .. Len(listed) /\ r - 1 + 1 = r
        BY <1>1, <2>2
      <4> QED
        BY <4>1, Zenon
    <3>2. ASSUME NEW c \in 1 .. Len(Titles)
          PROVE  Trim(RowsOf(listed)[r][c]) = IF c < Len(Titles) THEN Trim(listed[i][c]) ELSE Status
      <4>1. CASE c < Len(Titles)
        BY <1>2, <3>1, <4>1, Zenon
      <4>2. CASE ~(c < Len(Titles))
        <5>1. c = Len(Titles)
          BY <1>1, <4>2
        <5> QED
          BY <1>2, <3>1, <4>2, <5>1, Zenon
      <4> QED
        BY <4>1, <4>2
    <3>3. ReadRow(listed, r) = [c \in 1 .. Len(Titles) |-> IF c < Len(Titles) THEN Trim(listed[i][c]) ELSE Status]
      BY <3>2, Zenon DEF ReadRow
    <3> QED
      BY <2>2, <3>1, <3>3, Zenon
  <2> QED
    BY <2>1, <2>2
<1>4. Expected = [r \in 1 .. Len(listed) + 1 |-> exp(r)]
  BY Zenon DEF Expected
<1> HIDE DEF exp
<1>5. Reads(listed) = [r \in 1 .. Len(listed) + 1 |-> ReadRow(listed, r)]
  BY <1>1, Zenon DEF Reads
<1> QED
  BY <1>3, <1>4, <1>5, Zenon

-----------------------------------------------------------------------------
(* The parser on its way through the rows: it is on a cell, all the lines and *)
(* cells before it are read, or it is at the end after the last line.      *)
BeforeCell(ls, cs, list, r, c) == ls = SubSeq(Reads(list), 1, r - 1) /\ cs = SubSeq(Reads(list)[r], 1, c - 1)
AtCell(T, d, h, x, ls, cs, list, u, w) ==
  \E r \in 1 .. Len(RowsOf(list)) : \E s, e :
    /\ RowAt(T, u[r], w[r], RowsOf(list)[r], s, e)
    /\ \E c \in 1 .. Len(Titles) : OnCell(T, d, h, x, s[c], e[c], RowsOf(list)[r][c]) /\ BeforeCell(ls, cs, list, r, c)
AllRead(T, d, h, x, ls, cs, list) == ~h /\ d = Len(T) + 1 /\ x = <<>> /\ cs = <<>> /\ ls = Reads(list)
OnTheRows(T, d, h, x, ls, cs, list) ==
  \E u, w : /\ TextAt(T, RowsOf(list), u, w)
            /\ AtCell(T, d, h, x, ls, cs, list, u, w) \/ AllRead(T, d, h, x, ls, cs, list)

RowLaid(T, list, u, w, r, s, e) ==
  /\ u[r] \in Nat /\ w[r] \in Nat /\ s[1] = u[r] /\ e[Len(Titles)] = w[r]
  /\ \A c \in 1 .. Len(Titles) : /\ s[c] \in Nat /\ e[c] \in Nat /\ RowsOf(list)[r][c] \in Seq(Character)
                                 /\ CellAt(T, s[c], e[c], RowsOf(list)[r][c])
  /\ \A c \in 1 .. Len(Titles) - 1 : e[c] <= Len(T) /\ T[e[c]] = Comma /\ s[c + 1] = e[c] + 1

LEMMA LaidRow ==
    ASSUME NEW list \in Lists, NEW T, NEW u, NEW w, TextAt(T, RowsOf(list), u, w), NEW r \in 1 .. Len(RowsOf(list)),
           NEW s, NEW e, RowAt(T, u[r], w[r], RowsOf(list)[r], s, e)
    PROVE  RowLaid(T, list, u, w, r, s, e)
<1>1. RowsOf(list) \in Seq(Seq(Seq(Character))) /\ Len(RowsOf(list)[r]) = Len(Titles)
  BY RowsFacts, Zenon
<1>2. PICK row \in Seq(Seq(Character)) : row = RowsOf(list)[r]
  <2>1. RowsOf(list)[r] \in Seq(Seq(Character))
    BY <1>1
  <2> QED
    BY <2>1, Zenon
<1>3. u \in [1 .. Len(RowsOf(list)) -> Nat] /\ w \in [1 .. Len(RowsOf(list)) -> Nat]
  BY Zenon DEF TextAt
<1>4. u[r] \in Nat /\ w[r] \in Nat
  BY <1>3
<1>5. Len(row) = Len(Titles) /\ RowAt(T, u[r], w[r], row, s, e)
  BY <1>1, <1>2, Zenon
<1>6. /\ s \in [1 .. Len(Titles) -> Nat] /\ e \in [1 .. Len(Titles) -> Nat] /\ s[1] = u[r] /\ e[Len(Titles)] = w[r]
      /\ \A c \in 1 .. Len(Titles) : CellAt(T, s[c], e[c], row[c])
      /\ \A c \in 1 .. Len(Titles) - 1 : e[c] <= Len(T) /\ T[e[c]] = Comma /\ s[c + 1] = e[c] + 1
  BY <1>5, Zenon DEF RowAt
<1>7. \A c \in 1 .. Len(Titles) : row[c] \in Seq(Character) /\ s[c] \in Nat /\ e[c] \in Nat
  <2>1. \A c \in 1 .. Len(row) : row[c] \in Seq(Character)
    OBVIOUS
  <2>2. s \in [1 .. Len(Titles) -> Nat] /\ e \in [1 .. Len(Titles) -> Nat]
    BY <1>6, Zenon
  <2>3. \A c \in 1 .. Len(Titles) : s[c] \in Nat /\ e[c] \in Nat
    BY <2>2
  <2> QED
    BY <1>5, <2>1, <2>3, Zenon
<1> QED
  BY <1>2, <1>4, <1>6, <1>7, Zenon DEF RowLaid

LEMMA RowStarts ==
    ASSUME NEW list \in Lists, NEW T, NEW u, NEW w, TextAt(T, RowsOf(list), u, w), NEW r \in 1 .. Len(RowsOf(list))
    PROVE  AtCell(T, u[r], FALSE, <<>>, SubSeq(Reads(list), 1, r - 1), <<>>, list, u, w)
<1>1. PICK s, e : RowAt(T, u[r], w[r], RowsOf(list)[r], s, e)
  BY Zenon DEF TextAt
<1>2. 1 \in 1 .. Len(Titles)
  <2>1. Len(Titles) \in Nat /\ Len(Titles) # 0
    BY RowsFacts, Zenon
  <2> QED
    BY <2>1
<1>3. s[1] = u[r] /\ s[1] \in Nat /\ RowsOf(list)[r][1] \in Seq(Character) /\ CellAt(T, s[1], e[1], RowsOf(list)[r][1])
  <2>1. RowLaid(T, list, u, w, r, s, e)
    BY <1>1, LaidRow, Zenon
  <2> QED
    BY <1>2, <2>1, Zenon DEF RowLaid
<1>4. OnCell(T, s[1], FALSE, <<>>, s[1], e[1], RowsOf(list)[r][1])
  BY <1>3, CellStarts, Zenon
<1>5. OnCell(T, u[r], FALSE, <<>>, s[1], e[1], RowsOf(list)[r][1])
  BY <1>3, <1>4, Zenon
<1>6. SubSeq(Reads(list)[r], 1, 1 - 1) = <<>>
  <2>1. Reads(list)[r] \in Seq(Kind(list))
    BY ReadsFacts, Zenon
  <2> QED
    BY <2>1
<1>7. BeforeCell(SubSeq(Reads(list), 1, r - 1), <<>>, list, r, 1)
  BY <1>6, Zenon DEF BeforeCell
<1> QED
  BY <1>1, <1>2, <1>5, <1>7, Zenon DEF AtCell

LEMMA TextStarts ==
    ASSUME NEW list \in Lists, NEW T, LaidOut(T, RowsOf(list))
    PROVE  OnTheRows(T, 1, FALSE, <<>>, <<>>, <<>>, list)
<1>1. PICK u, w : TextAt(T, RowsOf(list), u, w)
  BY Zenon DEF LaidOut
<1>2. 1 \in 1 .. Len(RowsOf(list))
  <2>1. Len(RowsOf(list)) = Len(list) + 1 /\ Len(list) \in Nat
    BY RowsFacts, Zenon
  <2> QED
    BY <2>1
<1>3. u[1] = 1
  BY <1>1, Zenon DEF TextAt
<1>4. SubSeq(Reads(list), 1, 1 - 1) = <<>>
  <2>1. Reads(list) \in Seq(Seq(Kind(list)))
    BY ReadsFacts, Zenon
  <2> QED
    BY <2>1
<1>5. AtCell(T, u[1], FALSE, <<>>, SubSeq(Reads(list), 1, 1 - 1), <<>>, list, u, w)
  BY <1>1, <1>2, RowStarts, Zenon
<1>6. AtCell(T, 1, FALSE, <<>>, <<>>, <<>>, list, u, w)
  BY <1>3, <1>4, <1>5, Zenon
<1> QED
  BY <1>1, <1>6, Zenon DEF OnTheRows

-----------------------------------------------------------------------------
(* A step within the text.                                                 *)
StillOnTheRows == OnTheRows(text, pos', inQuotes', current', lines', cells', listed) /\ StillReading

LEMMA Extended ==
    ASSUME NEW X, NEW S \in Seq(X), NEW r \in 1 .. Len(S)
    PROVE  Append(SubSeq(S, 1, r - 1), S[r]) = SubSeq(S, 1, r)
<1>1. r - 1 \in 0 .. Len(S) /\ r - 1 < Len(S) /\ r - 1 + 1 = r
  OBVIOUS
<1>2. Append(SubSeq(S, 1, r - 1), S[r - 1 + 1]) = SubSeq(S, 1, r - 1 + 1)
  BY <1>1, PastOne, Zenon
<1> QED
  BY <1>1, <1>2, Zenon

(* The comma after a cell that is not the last of its row.                 *)
LEMMA CommaMoves ==
    ASSUME listed \in Lists, text \in Seq(Character), pos \in Nat, inQuotes \in BOOLEAN, ParseStep,
           NEW u, NEW w, TextAt(text, RowsOf(listed), u, w), NEW r \in 1 .. Len(RowsOf(listed)),
           NEW s, NEW e, RowAt(text, u[r], w[r], RowsOf(listed)[r], s, e),
           NEW c \in 1 .. Len(Titles), c # Len(Titles), CellRead(pos, inQuotes, current, e[c], RowsOf(listed)[r][c]),
           BeforeCell(lines, cells, listed, r, c)
    PROVE  StillOnTheRows
<1>0. Len(text) \in Nat /\ Len(Titles) \in Nat
  <2>1. Len(Titles) \in Nat
    BY RowsFacts, Zenon
  <2> QED
    BY <2>1
<1>1. PICK j \in 1 .. Len(Titles) : j = c + 1 /\ j - 1 = c /\ c \in 1 .. Len(Titles) - 1
  BY <1>0
<1>2. RowLaid(text, listed, u, w, r, s, e)
  BY LaidRow, Zenon
<1>3. e[c] <= Len(text) /\ text[e[c]] = Comma /\ s[c + 1] = e[c] + 1
  BY <1>1, <1>2, Zenon DEF RowLaid
<1>4. s[j] \in Nat /\ e[j] \in Nat /\ RowsOf(listed)[r][j] \in Seq(Character) /\ CellAt(text, s[j], e[j], RowsOf(listed)[r][j])
  BY <1>2, Zenon DEF RowLaid
<1>5. pos = e[c] /\ ~inQuotes /\ current = RowsOf(listed)[r][c] /\ s[j] = pos + 1 /\ inQuotes = FALSE
  BY <1>1, <1>3, Zenon DEF CellRead
<1>6. /\ ParserMoves(pos + 1, inQuotes, <<>>) /\ cells' = Append(cells, Trim(current)) /\ lines' = lines
      /\ StillReading
  BY <1>0, <1>3, <1>5, CommaStep, Zenon
<1>7. OnCell(text, s[j], FALSE, <<>>, s[j], e[j], RowsOf(listed)[r][j])
  BY <1>4, CellStarts, Zenon
<1>8. OnCell(text, pos', inQuotes', current', s[j], e[j], RowsOf(listed)[r][j])
  BY <1>5, <1>6, <1>7, Zenon DEF ParserMoves
<1>9. cells' = SubSeq(Reads(listed)[r], 1, j - 1)
  <2>1. Reads(listed)[r] \in Seq(Kind(listed)) /\ Len(Reads(listed)[r]) = Len(Titles)
        /\ Reads(listed)[r][c] = Trim(RowsOf(listed)[r][c])
    BY ReadsFacts, Zenon
  <2>2. cells = SubSeq(Reads(listed)[r], 1, c - 1)
    BY Zenon DEF BeforeCell
  <2>3. Append(SubSeq(Reads(listed)[r], 1, c - 1), Reads(listed)[r][c]) = SubSeq(Reads(listed)[r], 1, c)
    BY <2>1, Extended, Zenon
  <2> QED
    BY <1>1, <1>5, <1>6, <2>1, <2>2, <2>3, Zenon
<1>10. BeforeCell(lines', cells', listed, r, j)
  BY <1>6, <1>9, Zenon DEF BeforeCell
<1>11. AtCell(text, pos', inQuotes', current', lines', cells', listed, u, w)
  BY <1>8, <1>10, Zenon DEF AtCell
<1> QED
  BY <1>6, <1>11, Zenon DEF StillOnTheRows, OnTheRows

-----------------------------------------------------------------------------
(* The end of line after the last cell of a row.                           *)
LastCellRead(u, w, r, s, e) ==
  /\ RowAt(text, u[r], w[r], RowsOf(listed)[r], s, e)
  /\ CellRead(pos, inQuotes, current, e[Len(Titles)], RowsOf(listed)[r][Len(Titles)])
  /\ BeforeCell(lines, cells, listed, r, Len(Titles))

LEMMA RowEnds ==
    ASSUME listed \in Lists, NEW u, NEW w, TextAt(text, RowsOf(listed), u, w), NEW r \in 1 .. Len(RowsOf(listed)),
           NEW s, NEW e, LastCellRead(u, w, r, s, e)
    PROVE  /\ pos = w[r] /\ ~inQuotes /\ current = RowsOf(listed)[r][Len(Titles)]
           /\ Append(lines, Append(cells, Trim(current))) = SubSeq(Reads(listed), 1, r)
<1>1. RowLaid(text, listed, u, w, r, s, e)
  BY LaidRow, Zenon DEF LastCellRead
<1>2. pos = w[r] /\ ~inQuotes /\ current = RowsOf(listed)[r][Len(Titles)]
  BY <1>1, Zenon DEF RowLaid, LastCellRead, CellRead
<1>3. Len(Titles) \in 1 .. Len(Titles)
  <2>1. Len(Titles) \in Nat /\ Len(Titles) # 0
    BY RowsFacts, Zenon
  <2> QED
    BY <2>1
<1>4. /\ Reads(listed) \in Seq(Seq(Kind(listed))) /\ Len(Reads(listed)) = Len(RowsOf(listed))
      /\ Reads(listed)[r] \in Seq(Kind(listed)) /\ Len(Reads(listed)[r]) = Len(Titles)
      /\ Reads(listed)[r][Len(Titles)] = Trim(RowsOf(listed)[r][Len(Titles)])
  BY <1>3, ReadsFacts, Zenon
<1>5. lines = SubSeq(Reads(listed), 1, r - 1) /\ cells = SubSeq(Reads(listed)[r], 1, Len(Titles) - 1)
  BY Zenon DEF LastCellRead, BeforeCell
<1>6. Append(cells, Trim(current)) = Reads(listed)[r]
  <2> DEFINE S == Reads(listed)[r]  m == Len(Titles)
  <2>1. S \in Seq(Kind(listed)) /\ Len(S) = m /\ m \in 1 .. Len(S) /\ cells = SubSeq(S, 1, m - 1) /\ S[m] = Trim(current)
    BY <1>2, <1>3, <1>4, <1>5, Zenon
  <2> HIDE DEF S, m
  <2>2. Append(SubSeq(S, 1, m - 1), S[m]) = SubSeq(S, 1, m)
    BY <2>1, Extended, Zenon
  <2>3. SubSeq(S, 1, Len(S)) = S
    BY <2>1, FirstOfNone, Zenon
  <2>4. Append(cells, Trim(current)) = S
    BY <2>1, <2>2, <2>3, Zenon
  <2> QED
    BY <2>4, Zenon DEF S
<1>7. Append(lines, Reads(listed)[r]) = SubSeq(Reads(listed), 1, r)
  <2>1. r \in 1 .. Len(Reads(listed))
    BY <1>4, Zenon
  <2>2. Append(SubSeq(Reads(listed), 1, r - 1), Reads(listed)[r]) = SubSeq(Reads(listed), 1, r)
    BY <1>4, <2>1, Extended, Zenon
  <2> QED
    BY <1>5, <2>2, Zenon
<1> QED
  BY <1>2, <1>6, <1>7, Zenon

LEMMA LineMoves ==
    ASSUME listed \in Lists, text \in Seq(Character), pos \in Nat, inQuotes \in BOOLEAN, ParseStep, pos <= Len(text),
           NEW u, NEW w, TextAt(text, RowsOf(listed), u, w), NEW r \in 1 .. Len(RowsOf(listed)),
           NEW s, NEW e, LastCellRead(u, w, r, s, e)
    PROVE  StillOnTheRows
<1>0. Len(text) \in Nat /\ Len(RowsOf(listed)) \in Nat
  <2>1. Len(RowsOf(listed)) = Len(listed) + 1 /\ Len(listed) \in Nat
    BY RowsFacts, Zenon
  <2> QED
    BY <2>1
<1>1. /\ pos = w[r] /\ ~inQuotes /\ inQuotes = FALSE
      /\ Append(lines, Append(cells, Trim(current))) = SubSeq(Reads(listed), 1, r)
  BY RowEnds, Zenon
<1>2. ASSUME NEW z, EolAt(text, w[r], z)
      PROVE  /\ pos' = z /\ inQuotes' = FALSE /\ current' = <<>> /\ cells' = <<>> /\ lines' = SubSeq(Reads(listed), 1, r)
             /\ StillReading
  <2>1. EolAt(text, pos, z)
    BY <1>1, <1>2, Zenon
  <2>2. /\ ParserMoves(z, inQuotes, <<>>) /\ cells' = <<>> /\ lines' = Append(lines, Append(cells, Trim(current)))
        /\ StillReading
    BY <1>0, <1>1, <2>1, LineStep, Zenon
  <2> QED
    BY <1>1, <2>2, Zenon DEF ParserMoves
<1>3. CASE r # Len(RowsOf(listed))
  <2>1. PICK j \in 1 .. Len(RowsOf(listed)) : j = r + 1 /\ j - 1 = r /\ r \in 1 .. Len(RowsOf(listed)) - 1
    BY <1>0, <1>3
  <2>2. EolAt(text, w[r], u[j])
    BY <2>1, Zenon DEF TextAt
  <2>3. AtCell(text, u[j], FALSE, <<>>, SubSeq(Reads(listed), 1, j - 1), <<>>, listed, u, w)
    BY RowStarts, Zenon
  <2>4. AtCell(text, pos', inQuotes', current', lines', cells', listed, u, w)
    BY <1>2, <2>1, <2>2, <2>3, Zenon
  <2> QED
    BY <1>2, <2>2, <2>4, Zenon DEF StillOnTheRows, OnTheRows
<1>4. CASE r = Len(RowsOf(listed))
  <2>1. w[r] # Len(text) + 1
    BY <1>0, <1>1
  <2>2. EolAt(text, w[r], Len(text) + 1)
    BY <1>4, <2>1, Zenon DEF TextAt
  <2>3. SubSeq(Reads(listed), 1, r) = Reads(listed)
    <3>1. Reads(listed) \in Seq(Seq(Kind(listed))) /\ Len(Reads(listed)) = r
      BY <1>4, ReadsFacts, Zenon
    <3> QED
      BY <3>1, FirstOfNone, Zenon
  <2>4. AllRead(text, pos', inQuotes', current', lines', cells', listed)
    BY <1>2, <2>2, <2>3, Zenon DEF AllRead
  <2> QED
    BY <1>2, <2>2, <2>4, Zenon DEF StillOnTheRows, OnTheRows
<1> QED
  BY <1>3, <1>4

(* No quote follows a cell.                                                *)
LEMMA NoQuoteAfter ==
    ASSUME NEW list \in Lists, NEW T \in Seq(Character), NEW u, NEW w, TextAt(T, RowsOf(list), u, w),
           NEW r \in 1 .. Len(RowsOf(list)), NEW s, NEW e, RowAt(T, u[r], w[r], RowsOf(list)[r], s, e),
           NEW c \in 1 .. Len(Titles), e[c] <= Len(T)
    PROVE  T[e[c]] # Quote
<1>0. RowLaid(T, list, u, w, r, s, e)
  BY LaidRow, Zenon
<1>1. Len(T) \in Nat /\ Len(Titles) \in Nat /\ Len(RowsOf(list)) \in Nat
  <2>1. Len(RowsOf(list)) = Len(list) + 1 /\ Len(list) \in Nat /\ Len(Titles) \in Nat
    BY RowsFacts, Zenon
  <2> QED
    BY <2>1
<1>2. Quote # Comma /\ Quote # CR /\ Quote # LF
  BY FileFacts, Zenon
<1>3. CASE c # Len(Titles)
  <2>1. c \in 1 .. Len(Titles) - 1
    BY <1>1, <1>3
  <2> QED
    BY <1>0, <1>2, <2>1, Zenon DEF RowLaid
<1>4. CASE c = Len(Titles)
  <2>1. e[c] = w[r]
    BY <1>0, <1>4, Zenon DEF RowLaid
  <2>2. \E z : EolAt(T, w[r], z)
    <3>1. CASE r # Len(RowsOf(list))
      <4>1. r \in 1 .. Len(RowsOf(list)) - 1
        BY <1>1, <3>1
      <4> QED
        BY <4>1, Zenon DEF TextAt
    <3>2. CASE r = Len(RowsOf(list))
      <4>1. w[r] # Len(T) + 1
        BY <1>1, <2>1
      <4> QED
        BY <3>2, <4>1, Zenon DEF TextAt
    <3> QED
      BY <3>1, <3>2
  <2> QED
    BY <1>2, <2>1, <2>2, Zenon DEF EolAt
<1> QED
  BY <1>3, <1>4

LEMMA TextMoves ==
    ASSUME listed \in Lists, text \in Seq(Character), pos \in Nat, inQuotes \in BOOLEAN, ParseStep, pos <= Len(text),
           OnTheRows(text, pos, inQuotes, current, lines, cells, listed)
    PROVE  StillOnTheRows
<1>0. Len(text) \in Nat
  OBVIOUS
<1>1. PICK u, w : /\ TextAt(text, RowsOf(listed), u, w)
                  /\ \/ AtCell(text, pos, inQuotes, current, lines, cells, listed, u, w)
                     \/ AllRead(text, pos, inQuotes, current, lines, cells, listed)
  BY Zenon DEF OnTheRows
<1>2. ~AllRead(text, pos, inQuotes, current, lines, cells, listed)
  <2>1. pos # Len(text) + 1
    BY <1>0
  <2> QED
    BY <2>1, Zenon DEF AllRead
<1>3. PICK r \in 1 .. Len(RowsOf(listed)) : \E s, e :
          /\ RowAt(text, u[r], w[r], RowsOf(listed)[r], s, e)
          /\ \E c \in 1 .. Len(Titles) : /\ OnCell(text, pos, inQuotes, current, s[c], e[c], RowsOf(listed)[r][c])
                                         /\ BeforeCell(lines, cells, listed, r, c)
  BY <1>1, <1>2, Zenon DEF AtCell
<1>4. PICK s, e : /\ RowAt(text, u[r], w[r], RowsOf(listed)[r], s, e)
                  /\ \E c \in 1 .. Len(Titles) : /\ OnCell(text, pos, inQuotes, current, s[c], e[c], RowsOf(listed)[r][c])
                                                 /\ BeforeCell(lines, cells, listed, r, c)
  BY <1>3, Zenon
<1>5. PICK c \in 1 .. Len(Titles) : /\ OnCell(text, pos, inQuotes, current, s[c], e[c], RowsOf(listed)[r][c])
                                    /\ BeforeCell(lines, cells, listed, r, c)
  BY <1>4, Zenon
<1>6. CASE CellRead(pos, inQuotes, current, e[c], RowsOf(listed)[r][c])
  <2>1. CASE c # Len(Titles)
    BY <1>1, <1>4, <1>5, <1>6, <2>1, CommaMoves, Zenon
  <2>2. CASE c = Len(Titles)
    <3>1. LastCellRead(u, w, r, s, e)
      BY <1>4, <1>5, <1>6, <2>2, Zenon DEF LastCellRead
    <3> QED
      BY <1>1, <3>1, LineMoves, Zenon
  <2> QED
    BY <2>1, <2>2
<1>7. CASE InCell(text, pos, inQuotes, current, s[c], e[c], RowsOf(listed)[r][c])
  <2>1. RowLaid(text, listed, u, w, r, s, e)
    BY <1>1, <1>4, LaidRow, Zenon
  <2>2. s[c] \in Nat /\ RowsOf(listed)[r][c] \in Seq(Character)
    BY <2>1, Zenon DEF RowLaid
  <2>3. e[c] <= Len(text) => text[e[c]] # Quote
    BY <1>1, <1>4, NoQuoteAfter, Zenon
  <2>4. StillOn(s[c], e[c], RowsOf(listed)[r][c])
    BY <1>7, <2>2, <2>3, CellStep, Zenon
  <2>5. OnCell(text, pos', inQuotes', current', s[c], e[c], RowsOf(listed)[r][c])
        /\ BeforeCell(lines', cells', listed, r, c) /\ StillReading
    BY <1>5, <2>4, Zenon DEF StillOn, SameCells, BeforeCell
  <2>6. AtCell(text, pos', inQuotes', current', lines', cells', listed, u, w)
    BY <1>4, <2>5, Zenon DEF AtCell
  <2> QED
    BY <1>1, <2>5, <2>6, Zenon DEF StillOnTheRows, OnTheRows
<1> QED
  BY <1>5, <1>6, <1>7, Zenon DEF OnCell

-----------------------------------------------------------------------------
(* At the end of the text all is read.                                     *)
AllLines == IF current # <<>> \/ cells # <<>> THEN Append(lines, Append(cells, Trim(current))) ELSE lines

LEMMA InCellInside ==
    ASSUME NEW T \in Seq(Character), NEW p \in Nat, NEW q, NEW v \in Seq(Character), NEW d, NEW h, NEW x,
           InCell(T, d, h, x, p, q, v)
    PROVE  d <= Len(T)
<1>0. Len(T) \in Nat /\ Len(v) \in Nat
  OBVIOUS
<1>1. CASE InRaw(T, d, h, x, p, q, v)
  <2>1. PICK k \in 0 .. Len(v) : k < Len(v) /\ d = p + k
    BY <1>1, Zenon DEF InRaw
  <2>2. q = p + Len(v) /\ q <= Len(T) + 1
    BY <1>1, Zenon DEF InRaw, RawAt, Spans
  <2> QED
    BY <1>0, <2>1, <2>2
<1>2. CASE AtQuote(T, d, h, x, p, q, v)
  BY <1>2, Zenon DEF AtQuote, QuotedAt
<1>3. CASE InText(T, d, h, x, p, q, v)
  <2>1. PICK e : QuotedAt(T, p, q, v, e) /\ \E k \in 0 .. Len(v) : d = e[k]
    BY <1>3, Zenon DEF InText
  <2>2. PICK k \in 0 .. Len(v) : d = e[k]
    BY <2>1, Zenon
  <2>3. CASE k = Len(v)
    BY <2>1, <2>2, <2>3, Zenon DEF QuotedAt
  <2>4. CASE k # Len(v)
    <3>1. PICK j \in 1 .. Len(v) : j - 1 = k
      <4>1. k + 1 \in 1 .. Len(v) /\ k + 1 - 1 = k
        BY <1>0, <2>4
      <4> QED
        BY <4>1
    <3>2. CharacterAt(T, e[j - 1], e[j], v[j])
      BY <2>1, Zenon DEF QuotedAt
    <3> QED
      BY <2>2, <3>1, <3>2, Zenon DEF CharacterAt
  <2> QED
    BY <2>3, <2>4
<1> QED
  BY <1>1, <1>2, <1>3, Zenon DEF InCell

LEMMA TextEnds ==
    ASSUME listed \in Lists, text \in Seq(Character), pos \in Nat, pos > Len(text),
           OnTheRows(text, pos, inQuotes, current, lines, cells, listed)
    PROVE  AllLines = Reads(listed)
<1>0. Len(text) \in Nat /\ Len(Titles) \in Nat /\ Len(RowsOf(listed)) \in Nat /\ ~(pos <= Len(text))
  <2>1. Len(RowsOf(listed)) = Len(listed) + 1 /\ Len(listed) \in Nat /\ Len(Titles) \in Nat
    BY RowsFacts, Zenon
  <2> QED
    BY <2>1
<1>1. PICK u, w : /\ TextAt(text, RowsOf(listed), u, w)
                  /\ \/ AtCell(text, pos, inQuotes, current, lines, cells, listed, u, w)
                     \/ AllRead(text, pos, inQuotes, current, lines, cells, listed)
  BY Zenon DEF OnTheRows
<1>2. CASE AllRead(text, pos, inQuotes, current, lines, cells, listed)
  BY <1>2, Zenon DEF AllRead, AllLines
<1>3. CASE AtCell(text, pos, inQuotes, current, lines, cells, listed, u, w)
  <2>1. PICK r \in 1 .. Len(RowsOf(listed)) : \E s, e :
            /\ RowAt(text, u[r], w[r], RowsOf(listed)[r], s, e)
            /\ \E c \in 1 .. Len(Titles) : /\ OnCell(text, pos, inQuotes, current, s[c], e[c], RowsOf(listed)[r][c])
                                           /\ BeforeCell(lines, cells, listed, r, c)
    BY <1>3, Zenon DEF AtCell
  <2>2. PICK s, e : /\ RowAt(text, u[r], w[r], RowsOf(listed)[r], s, e)
                    /\ \E c \in 1 .. Len(Titles) : /\ OnCell(text, pos, inQuotes, current, s[c], e[c], RowsOf(listed)[r][c])
                                                   /\ BeforeCell(lines, cells, listed, r, c)
    BY <2>1, Zenon
  <2>3. PICK c \in 1 .. Len(Titles) : /\ OnCell(text, pos, inQuotes, current, s[c], e[c], RowsOf(listed)[r][c])
                                      /\ BeforeCell(lines, cells, listed, r, c)
    BY <2>2, Zenon
  <2>4. RowLaid(text, listed, u, w, r, s, e)
    BY <1>1, <2>2, LaidRow, Zenon
  <2>5. s[c] \in Nat /\ RowsOf(listed)[r][c] \in Seq(Character)
    BY <2>4, Zenon DEF RowLaid
  <2>6. CellRead(pos, inQuotes, current, e[c], RowsOf(listed)[r][c])
    <3>1. ~InCell(text, pos, inQuotes, current, s[c], e[c], RowsOf(listed)[r][c])
      BY <1>0, <2>5, InCellInside, Zenon
    <3> QED
      BY <2>3, <3>1, Zenon DEF OnCell
  <2>7. c = Len(Titles)
    <3>1. SUFFICES ASSUME c # Len(Titles) PROVE FALSE
      OBVIOUS
    <3>2. c \in 1 .. Len(Titles) - 1
      BY <1>0, <3>1
    <3>3. e[c] <= Len(text) /\ pos = e[c]
      BY <2>4, <2>6, <3>2, Zenon DEF RowLaid, CellRead
    <3> QED
      BY <1>0, <3>3, Zenon
  <2>8. LastCellRead(u, w, r, s, e)
    BY <2>2, <2>3, <2>6, <2>7, Zenon DEF LastCellRead
  <2>9. /\ pos = w[r] /\ current = RowsOf(listed)[r][Len(Titles)]
        /\ Append(lines, Append(cells, Trim(current))) = SubSeq(Reads(listed), 1, r)
    BY <1>1, <2>8, RowEnds, Zenon
  <2>10. r = Len(RowsOf(listed))
    <3>1. SUFFICES ASSUME r # Len(RowsOf(listed)) PROVE FALSE
      OBVIOUS
    <3>2. r \in 1 .. Len(RowsOf(listed)) - 1
      BY <1>0, <3>1
    <3>3. EolAt(text, w[r], u[r + 1])
      BY <1>1, <3>2, Zenon DEF TextAt
    <3>4. w[r] <= Len(text)
      BY <3>3, <1>0, <2>9 DEF EolAt
    <3> QED
      BY <1>0, <2>9, <3>4, Zenon
  <2>11. current # <<>>
    BY <2>9, LastCell, Zenon
  <2>12. SubSeq(Reads(listed), 1, r) = Reads(listed)
    <3>1. Reads(listed) \in Seq(Seq(Kind(listed))) /\ Len(Reads(listed)) = r
      BY <2>10, ReadsFacts, Zenon
    <3> QED
      BY <3>1, FirstOfNone, Zenon
  <2> QED
    BY <2>9, <2>11, <2>12, Zenon DEF AllLines
<1> QED
  BY <1>1, <1>2, <1>3, Zenon

-----------------------------------------------------------------------------
(* No line is dropped when none is blank.                                  *)
LEMMA FilledWhole ==
    ASSUME NEW X, NEW all \in Seq(X), \A i \in 1 .. Len(all) : NotBlank(all[i])
    PROVE  Filled(all) = all
<1> DEFINE P == [i \in 1 .. Len(all) |-> IF NotBlank(all[i]) THEN <<all[i]>> ELSE <<>>]
<1> DEFINE n == Len(all)
<1>1. n \in Nat
  OBVIOUS
<1>2. Len(P) = n /\ \A i \in 1 .. n : P[i] = <<all[i]>>
  <2>1. Len(P) = n /\ \A i \in 1 .. n : P[i] = IF NotBlank(all[i]) THEN <<all[i]>> ELSE <<>>
    BY <1>1
  <2> HIDE DEF P
  <2> QED
    BY <2>1, Zenon
<1>3. Filled(all) = FlattenSeq(P)
  BY Zenon DEF Filled
<1>4. CASE n = 0
  <2>1. P = <<>> /\ all = <<>>
    BY <1>4
  <2>2. FlattenSeq(P) = P
    BY <1>2, <1>4, Zenon DEF FlattenSeq
  <2> QED
    BY <1>3, <2>1, <2>2, Zenon
<1>5. CASE n # 0
  <2> HIDE DEF P, n
  <2>1. PICK f : OneByOne(P, n, f) /\ FlattenSeq(P) = f[n]
    BY <1>1, <1>2, <1>5, FlattenIs, Zenon
  <2>2. \A i \in 1 .. n : f[i] = IF i = 1 THEN P[i] ELSE f[i - 1] \o P[i]
    BY <2>1, Zenon DEF OneByOne
  <2> DEFINE bad == {i \in 1 .. n : f[i] # SubSeq(all, 1, i)}
  <2>3. ASSUME bad # {}
        PROVE  FALSE
    <3>1. PICK i \in bad : \A j \in bad : i <= j
      <4>1. bad \in SUBSET Nat
        OBVIOUS
      <4> HIDE DEF bad
      <4> QED
        BY <2>3, <4>1, SmallestOne, Zenon
    <3>2. i \in 1 .. n /\ f[i] # SubSeq(all, 1, i)
      BY <3>1, Zenon
    <3>3. i \in 1 .. Len(all)
      BY <3>2, Zenon DEF n
    <3>4. P[i] = <<all[i]>>
      BY <1>2, <3>2, Zenon
    <3>5. Append(SubSeq(all, 1, i - 1), all[i]) = SubSeq(all, 1, i)
      BY <3>3, Extended, Zenon
    <3>6. CASE i = 1
      <4>1. f[i] = <<all[i]>>
        BY <2>2, <3>2, <3>4, <3>6, Zenon
      <4>2. SubSeq(all, 1, i - 1) = <<>>
        <5>1. i - 1 = 0 /\ SubSeq(all, 1, 0) = <<>>
          BY <3>6, FirstOfNone
        <5> QED
          BY <5>1, Zenon
      <4>3. Append(<<>>, all[i]) = <<all[i]>>
        OBVIOUS
      <4> QED
        BY <3>2, <3>5, <4>1, <4>2, <4>3, Zenon
    <3>7. CASE i # 1
      <4>1. i - 1 \in 1 .. n /\ ~(i <= i - 1)
        BY <1>1, <3>2, <3>7
      <4>2. f[i - 1] = SubSeq(all, 1, i - 1)
        BY <3>1, <4>1, Zenon
      <4>3. f[i] = SubSeq(all, 1, i - 1) \o <<all[i]>>
        BY <2>2, <3>2, <3>4, <3>7, <4>2, Zenon
      <4>4. SubSeq(all, 1, i - 1) \in Seq(X) /\ all[i] \in X
        BY <3>3
      <4>5. SubSeq(all, 1, i - 1) \o <<all[i]>> = Append(SubSeq(all, 1, i - 1), all[i])
        <5> DEFINE A == SubSeq(all, 1, i - 1)
        <5>1. A \in Seq(X) /\ all[i] \in X
          BY <4>4
        <5> HIDE DEF A
        <5>2. A \o <<all[i]>> = Append(A, all[i])
          BY <5>1
        <5> QED
          BY <5>2, Zenon DEF A
      <4> QED
        BY <3>2, <3>5, <4>3, <4>5, Zenon
    <3> QED
      BY <3>6, <3>7
  <2>4. n \in 1 .. n
    BY <1>1, <1>5
  <2>5. f[n] = SubSeq(all, 1, n)
    BY <2>3, <2>4, Zenon
  <2>6. SubSeq(all, 1, Len(all)) = all
    BY FirstOfNone, Zenon
  <2> QED
    BY <1>3, <2>1, <2>5, <2>6, Zenon DEF n
<1> QED
  BY <1>4, <1>5

LEMMA ReadsFilled ==
    ASSUME NEW list \in Lists
    PROVE  Filled(Reads(list)) = Reads(list) /\ Reads(list) # <<>> /\ Head(Reads(list)) = Titles
<1>1. Len(RowsOf(list)) = Len(list) + 1 /\ Len(list) \in Nat /\ Len(Titles) \in Nat /\ Len(Titles) # 0
  BY RowsFacts, Zenon
<1>2. Len(Titles) \in 1 .. Len(Titles) /\ 1 \in 1 .. Len(RowsOf(list))
  BY <1>1
<1>3. Reads(list) \in Seq(Seq(Kind(list))) /\ Len(Reads(list)) = Len(RowsOf(list))
  BY ReadsFacts, Zenon
<1>4. ASSUME NEW r \in 1 .. Len(Reads(list))
      PROVE  NotBlank(Reads(list)[r])
  <2>1. r \in 1 .. Len(RowsOf(list))
    BY <1>3, Zenon
  <2>2. /\ Len(Reads(list)[r]) = Len(Titles)
        /\ Reads(list)[r][Len(Titles)] = Trim(RowsOf(list)[r][Len(Titles)])
    BY <1>2, <2>1, ReadsFacts, Zenon
  <2>3. Reads(list)[r][Len(Titles)] # <<>>
    BY <2>1, <2>2, LastCell, Zenon
  <2> QED
    BY <1>2, <2>2, <2>3, Zenon DEF NotBlank
<1>5. Filled(Reads(list)) = Reads(list)
  BY <1>3, <1>4, FilledWhole, Zenon
<1>6. Reads(list) # <<>> /\ Head(Reads(list)) = Reads(list)[1]
  <2>1. Len(Reads(list)) # 0
    BY <1>1, <1>3
  <2> QED
    BY <1>3, <2>1
<1>7. Reads(list)[1] = Titles
  <2>1. Reads(list)[1] \in Seq(Kind(list)) /\ Len(Reads(list)[1]) = Len(Titles)
        /\ \A c \in 1 .. Len(Titles) : Reads(list)[1][c] = Trim(RowsOf(list)[1][c])
    BY <1>2, ReadsFacts, Zenon
  <2>2. \A c \in 1 .. Len(Titles) : Reads(list)[1][c] = Titles[c]
    BY <2>1, PlainCells, Zenon
  <2>3. PICK S \in Seq(Kind(list)) : S = Reads(list)[1]
    BY <2>1, Zenon
  <2>4. Len(S) = Len(Titles) /\ \A c \in 1 .. Len(Titles) : S[c] = Titles[c]
    BY <2>1, <2>2, <2>3, Zenon
  <2>5. S = Titles
    <3>1. Titles \in Seq(Seq(Character))
      BY FileFacts, Zenon
    <3> QED
      BY <2>4, <3>1
  <2> QED
    BY <2>3, <2>5, Zenon
<1> QED
  BY <1>5, <1>6, <1>7, Zenon

-----------------------------------------------------------------------------
(* The column of a field.                                                  *)
LEMMA LeastIs ==
    ASSUME NEW S \in SUBSET Nat, NEW m \in S, \A x \in S : m <= x
    PROVE  Min(S) = m
<1>1. \A x \in S : (\A y \in S : x <= y) => x = m
  OBVIOUS
<1> QED
  BY <1>1, Zenon DEF Min

OwnTitle(f) == IF Column[f] = 0 THEN <<>> ELSE Titles[Column[f]]

LEMMA ColumnFacts ==
    ASSUME NEW f \in Field
    PROVE  /\ Column[f] \in 0 .. Len(Titles) - 1 /\ (Column[f] # 0 => Titles[Column[f]] \in Alike[f])
           /\ \A i \in 1 .. Len(Titles) : Titles[i] \in Alike[f] => Column[f] \in 1 .. i
           /\ \A i, j \in 1 .. Len(Titles) : i # j => Titles[i] # Titles[j]
           /\ Len(Titles) \in Nat
BY FileAssumption, FileFacts

LEMMA OwnMatch ==
    ASSUME NEW f \in Field
    PROVE  CloseMatch(f, Titles) = OwnTitle(f)
<1> DEFINE alike == {i \in 1 .. Len(Titles) : Titles[i] \in Alike[f]}
<1>1. CASE Column[f] = 0
  <2>1. alike = {}
    <3>1. \A i \in 1 .. Len(Titles) : ~(Titles[i] \in Alike[f])
      <4>1. \A i \in 1 .. Len(Titles) : ~(0 \in 1 .. i)
        OBVIOUS
      <4> QED
        BY <1>1, <4>1, ColumnFacts, Zenon
    <3> QED
      BY <3>1, Zenon
  <2> QED
    BY <1>1, <2>1, Zenon DEF CloseMatch, OwnTitle
<1>2. CASE Column[f] # 0
  <2>1. Column[f] \in alike /\ alike \in SUBSET Nat /\ \A x \in alike : Column[f] <= x
    <3>1. Column[f] \in 1 .. Len(Titles)
      BY <1>2, ColumnFacts
    <3>2. \A x \in alike : Column[f] \in 1 .. x /\ x \in Nat
      BY ColumnFacts
    <3>3. Titles[Column[f]] \in Alike[f]
      BY <1>2, ColumnFacts, Zenon
    <3>4. \A x \in alike : Column[f] <= x
      BY <3>2
    <3> QED
      BY <3>1, <3>3, <3>4
  <2>2. Min(alike) = Column[f]
    BY <2>1, LeastIs, Zenon
  <2>3. alike # {}
    BY <2>1, Zenon
  <2> QED
    BY <1>2, <2>2, <2>3, Zenon DEF CloseMatch, OwnTitle
<1> QED
  BY <1>1, <1>2

LEMMA OwnValue ==
    ASSUME NEW f \in Field, NEW line, Len(line) = Len(Titles), csvHeaders = Titles, columnMapping[f] = OwnTitle(f)
    PROVE  Mapped(line, f) = IF Column[f] = 0 THEN <<>> ELSE line[Column[f]]
<1> DEFINE at == {i \in 1 .. Len(csvHeaders) : csvHeaders[i] = columnMapping[f]}
<1>1. CASE Column[f] = 0
  BY <1>1, Zenon DEF Mapped, OwnTitle
<1>2. CASE Column[f] # 0
  <2>1. Column[f] \in 1 .. Len(Titles) /\ columnMapping[f] = Titles[Column[f]]
    <3>1. Column[f] \in 1 .. Len(Titles)
      BY <1>2, ColumnFacts
    <3> QED
      BY <1>2, <3>1, Zenon DEF OwnTitle
  <2>2. \A x \in at : x = Column[f]
    BY <2>1, ColumnFacts, Zenon
  <2>3. Column[f] \in at
    BY <2>1, Zenon
  <2>4. at \in SUBSET Nat /\ Column[f] \in Nat /\ \A x \in at : Column[f] <= x
    <3>1. Column[f] \in Nat /\ Column[f] <= Column[f]
      BY <2>1
    <3>2. at \in SUBSET Nat
      OBVIOUS
    <3> QED
      BY <2>2, <3>1, <3>2, Zenon
  <2>5. Min(at) = Column[f]
    BY <2>3, <2>4, LeastIs, Zenon
  <2>6. columnMapping[f] # <<>> /\ at # {}
    <3>1. Titles[Column[f]] # <<>>
      <4>1. Titles[Column[f]] \in {Titles[i] : i \in 1 .. Len(Titles)} \cup {Status}
        BY <2>1
      <4> QED
        BY <4>1, FileAssumption, Zenon
    <3> QED
      BY <2>1, <2>3, <3>1, Zenon
  <2>7. ~(Column[f] > Len(line))
    <3>1. Len(Titles) \in Nat
      BY ColumnFacts, Zenon
    <3>2. PICK m \in Nat : m = Len(Titles)
      BY <3>1, Zenon
    <3>3. ~(Column[f] > m)
      BY <2>1, <3>2
    <3> QED
      BY <3>2, <3>3, Zenon
  <2> QED
    BY <1>2, <2>5, <2>6, <2>7, Zenon DEF Mapped
<1> QED
  BY <1>1, <1>2

-----------------------------------------------------------------------------
(* The invariant: the types, the parser on its way while it reads, and after  *)
(* that the rows as expected, with the fields' own columns unless the user    *)
(* chose others.                                                           *)
OwnColumns == [f \in Field |-> OwnTitle(f)]
OwnLeads == [i \in 1 .. Len(listed) |-> [f \in Field |-> IF Column[f] = 0 THEN <<>> ELSE Trim(listed[i][Column[f]])]]
TitleChoices == {<<>>} \cup {csvHeaders[i] : i \in 1 .. Len(csvHeaders)}
Reader == wizard = "reading"
Chooser == wizard = "mapping"
Poster == wizard = "posting"

FileTypes ==
  /\ wizard \in {"upload", "reading", "mapping", "posting", "results"}
  /\ listed \in Lists /\ text \in Seq(Character) /\ pos \in 1 .. Len(text) + 1 /\ inQuotes \in BOOLEAN
  /\ csvHeaders \in {<<>>, Titles} /\ columnMapping \in [Field -> TitleChoices]
  /\ remapped \in BOOLEAN /\ fileActs \in 0 .. MaxFileActs /\ fileFaults \in 0 .. MaxFileFaults
ReadingOn == Reader => OnTheRows(text, pos, inQuotes, current, lines, cells, listed)
AsRead == Chooser \/ Poster => /\ csvHeaders = Titles /\ csvRows = Tail(Expected)
                               /\ ~remapped => columnMapping = OwnColumns
AsPosted == Poster /\ ~remapped => posted = OwnLeads
FileInv == FileTypes /\ ReadingOn /\ AsRead /\ AsPosted

LEMMA FileInitInv == FileInit => FileInv
<1> SUFFICES ASSUME FileInit PROVE FileInv
  OBVIOUS
<1>1. /\ listed \in Lists /\ wizard = "upload" /\ text = <<>> /\ pos = 1 /\ inQuotes = FALSE /\ csvHeaders = <<>>
      /\ columnMapping = [f \in Field |-> <<>>] /\ remapped = FALSE /\ fileActs = 0 /\ fileFaults = 0
  BY Zenon DEF FileInit
<1>2. text \in Seq(Character) /\ pos \in 1 .. Len(text) + 1
  BY <1>1
<1>3. columnMapping \in [Field -> TitleChoices]
  BY <1>1 DEF TitleChoices
<1>4. fileActs \in 0 .. MaxFileActs /\ fileFaults \in 0 .. MaxFileFaults
  BY <1>1, FileAssumption
<1>5. FileTypes
  BY <1>1, <1>2, <1>3, <1>4, Zenon DEF FileTypes
<1>6. ~Reader /\ ~Chooser /\ ~Poster
  BY <1>1 DEF Reader, Chooser, Poster
<1> QED
  BY <1>5, <1>6, Zenon DEF FileInv, ReadingOn, AsRead, AsPosted

(* A wizard is in one place.                                               *)
LEMMA OnePlace ==
    /\ \A x : x = "upload" => x \notin {"reading", "mapping", "posting"}
    /\ \A x : x = "reading" => x \notin {"upload", "mapping", "posting"}
    /\ \A x : x = "mapping" => x \notin {"upload", "reading", "posting"}
    /\ \A x : x = "posting" => x \notin {"upload", "reading", "mapping"}
    /\ \A x : x = "results" => x \notin {"upload", "reading", "mapping", "posting"}
OBVIOUS

LEMMA UploadInv == ASSUME FileInv, UploadFile PROVE FileInv'
<1>1. /\ listed \in Lists /\ csvHeaders \in {<<>>, Titles} /\ columnMapping \in [Field -> TitleChoices]
      /\ remapped \in BOOLEAN /\ fileActs \in 0 .. MaxFileActs /\ fileFaults \in 0 .. MaxFileFaults
  BY Zenon DEF FileInv, FileTypes
<1>2. /\ wizard' = "reading" /\ text' \in {Csv(listed), Resaved(listed)}
      /\ pos' = 1 /\ cells' = <<>> /\ inQuotes' = FALSE /\ current' = <<>> /\ lines' = <<>>
      /\ listed' = listed /\ csvHeaders' = csvHeaders /\ csvRows' = csvRows /\ columnMapping' = columnMapping
      /\ remapped' = remapped /\ fileActs' = fileActs /\ fileFaults' = fileFaults
  BY Zenon DEF UploadFile, mapping
<1>3. LaidOut(text', RowsOf(listed))
  BY <1>1, <1>2, PageText, SheetText, Zenon
<1>4. text' \in Seq(Character)
  BY <1>3, Zenon DEF LaidOut
<1>5. PICK T \in Seq(Character) : T = text'
  BY <1>4, Zenon
<1>6. 1 \in 1 .. Len(T) + 1
  OBVIOUS
<1>7. pos' \in 1 .. Len(text') + 1
  BY <1>2, <1>5, <1>6, Zenon
<1>8. TitleChoices' = TitleChoices
  BY <1>2, Zenon DEF TitleChoices
<1>9. FileTypes'
  BY <1>1, <1>2, <1>4, <1>7, <1>8, Zenon DEF FileTypes
<1>10. OnTheRows(text', 1, FALSE, <<>>, <<>>, <<>>, listed)
  BY <1>1, <1>3, TextStarts, Zenon
<1>11. ReadingOn'
  BY <1>2, <1>10, Zenon DEF ReadingOn
<1>12. ~Chooser' /\ ~Poster'
  BY <1>2, OnePlace DEF Chooser, Poster
<1> QED
  BY <1>9, <1>11, <1>12, Zenon DEF FileInv, AsRead, AsPosted

LEMMA PositionMoves ==
    ASSUME text \in Seq(Character), pos \in 1 .. Len(text) + 1, inQuotes \in BOOLEAN, ParseStep, StillReading
    PROVE  pos' \in 1 .. Len(text) + 1 /\ inQuotes' \in BOOLEAN
<1>1. Len(text) \in Nat
  OBVIOUS
<1>2. ASSUME DoubledQuote
      PROVE  pos' \in 1 .. Len(text) + 1 /\ inQuotes' = inQuotes
  <2>1. FollowedBy(Quote) /\ pos' = pos + 2 /\ inQuotes' = inQuotes
    BY <1>2, Zenon DEF DoubledQuote
  <2> QED
    BY <1>1, <2>1 DEF FollowedBy
<1>3. ASSUME SingleQuote
      PROVE  pos' \in 1 .. Len(text) + 1 /\ inQuotes' = ~inQuotes
  <2>1. pos <= Len(text) /\ pos' = pos + 1 /\ inQuotes' = ~inQuotes
    BY <1>3, Zenon DEF SingleQuote, Reading
  <2>2. pos' \in 1 .. Len(text) + 1
    BY <1>1, <2>1
  <2> QED
    BY <2>1, <2>2
<1>4. ASSUME EndCell
      PROVE  pos' \in 1 .. Len(text) + 1 /\ inQuotes' = inQuotes
  <2>1. pos <= Len(text) /\ pos' = pos + 1 /\ inQuotes' = inQuotes
    BY <1>4, Zenon DEF EndCell, Reading
  <2> QED
    BY <1>1, <2>1
<1>5. ASSUME EndLine
      PROVE  pos' \in 1 .. Len(text) + 1 /\ inQuotes' = inQuotes
  <2>1. pos <= Len(text) /\ inQuotes' = inQuotes
    BY <1>5, Zenon DEF EndLine, Reading
  <2>2. pos' = pos + 1 \/ (FollowedBy(LF) /\ pos' = pos + 2)
    BY <1>5, Zenon DEF EndLine
  <2> QED
    BY <1>1, <2>1, <2>2 DEF FollowedBy
<1>6. ASSUME PlainCharacter
      PROVE  pos' \in 1 .. Len(text) + 1 /\ inQuotes' = inQuotes
  <2>1. pos <= Len(text) /\ pos' = pos + 1 /\ inQuotes' = inQuotes
    BY <1>6, Zenon DEF PlainCharacter
  <2> QED
    BY <1>1, <2>1
<1>7. ASSUME EndText
      PROVE  pos' = pos /\ inQuotes' = inQuotes
  BY <1>7, Zenon DEF EndText, parsing
<1> QED
  BY <1>2, <1>3, <1>4, <1>5, <1>6, <1>7, Zenon DEF ParseStep

LEMMA ParseInv == ASSUME FileInv, ParseStep, pos <= Len(text), Reader PROVE FileInv'
<1>1. /\ wizard \in {"upload", "reading", "mapping", "posting", "results"}
      /\ listed \in Lists /\ text \in Seq(Character) /\ pos \in 1 .. Len(text) + 1 /\ inQuotes \in BOOLEAN
      /\ csvHeaders \in {<<>>, Titles} /\ columnMapping \in [Field -> TitleChoices]
      /\ remapped \in BOOLEAN /\ fileActs \in 0 .. MaxFileActs /\ fileFaults \in 0 .. MaxFileFaults
  BY Zenon DEF FileInv, FileTypes
<1>2. pos \in Nat
  BY <1>1
<1>3. OnTheRows(text, pos, inQuotes, current, lines, cells, listed)
  BY Zenon DEF FileInv, ReadingOn
<1>4. StillOnTheRows
  BY <1>1, <1>2, <1>3, TextMoves, Zenon
<1>5. StillReading /\ OnTheRows(text, pos', inQuotes', current', lines', cells', listed)
  BY <1>4, Zenon DEF StillOnTheRows
<1>6. pos' \in 1 .. Len(text) + 1 /\ inQuotes' \in BOOLEAN
  BY <1>1, <1>5, PositionMoves, Zenon
<1>7. /\ wizard' = wizard /\ text' = text /\ listed' = listed /\ csvHeaders' = csvHeaders
      /\ columnMapping' = columnMapping /\ remapped' = remapped /\ fileActs' = fileActs /\ fileFaults' = fileFaults
  BY <1>5, Zenon DEF StillReading, mapping
<1>8. TitleChoices' = TitleChoices
  BY <1>7, Zenon DEF TitleChoices
<1>9. FileTypes'
  BY <1>1, <1>6, <1>7, <1>8, Zenon DEF FileTypes
<1>10. ReadingOn'
  BY <1>5, <1>7, Zenon DEF ReadingOn
<1>11. ~Chooser' /\ ~Poster'
  <2>1. wizard' = "reading"
    BY <1>7, Zenon DEF Reader
  <2> QED
    BY <2>1, OnePlace DEF Chooser, Poster
<1> QED
  BY <1>9, <1>10, <1>11, Zenon DEF FileInv, AsRead, AsPosted

LEMMA EndTextInv == ASSUME FileInv, EndText PROVE FileInv'
<1>1. /\ listed \in Lists /\ text \in Seq(Character) /\ pos \in 1 .. Len(text) + 1 /\ inQuotes \in BOOLEAN
      /\ remapped \in BOOLEAN /\ fileActs \in 0 .. MaxFileActs /\ fileFaults \in 0 .. MaxFileFaults
  BY Zenon DEF FileInv, FileTypes
<1>2. wizard = "reading" /\ pos > Len(text)
  BY Zenon DEF EndText
<1>3. OnTheRows(text, pos, inQuotes, current, lines, cells, listed)
  BY <1>2, Zenon DEF FileInv, ReadingOn, Reader
<1>4. AllLines = Reads(listed)
  <2>1. pos \in Nat
    BY <1>1
  <2> QED
    BY <1>1, <1>2, <1>3, <2>1, TextEnds, Zenon
<1>5. Filled(AllLines) = Expected /\ Expected # <<>> /\ Head(Expected) = Titles
  BY <1>1, <1>4, ReadsFilled, ReadsExpected, Zenon
<1>6. IF Filled(AllLines) = <<>>
      THEN wizard' = "upload" /\ UNCHANGED mapping
      ELSE /\ wizard' = "mapping"
           /\ csvHeaders' = Head(Filled(AllLines)) /\ csvRows' = Tail(Filled(AllLines))
           /\ columnMapping' = [f \in Field |-> CloseMatch(f, Head(Filled(AllLines)))]
  BY Zenon DEF EndText, AllLines
<1>7. /\ wizard' = "mapping" /\ csvHeaders' = Titles /\ csvRows' = Tail(Expected)
      /\ columnMapping' = [f \in Field |-> CloseMatch(f, Titles)]
  BY <1>5, <1>6, Zenon
<1>8. /\ listed' = listed /\ text' = text /\ pos' = pos /\ inQuotes' = inQuotes
      /\ remapped' = remapped /\ fileActs' = fileActs /\ fileFaults' = fileFaults
  BY Zenon DEF EndText, parsing
<1>9. columnMapping' = OwnColumns
  BY <1>7, OwnMatch, Zenon DEF OwnColumns
<1>10. columnMapping' \in [Field -> TitleChoices']
  <2>1. \A f \in Field : OwnTitle(f) \in {<<>>} \cup {Titles[i] : i \in 1 .. Len(Titles)}
    <3> TAKE f \in Field
    <3>1. CASE Column[f] = 0
      BY <3>1, Zenon DEF OwnTitle
    <3>2. CASE Column[f] # 0
      <4>1. Column[f] \in 1 .. Len(Titles)
        BY <3>2, ColumnFacts
      <4> QED
        BY <3>2, <4>1, Zenon DEF OwnTitle
    <3> QED
      BY <3>1, <3>2
  <2>2. TitleChoices' = {<<>>} \cup {Titles[i] : i \in 1 .. Len(Titles)}
    BY <1>7, Zenon DEF TitleChoices
  <2>3. \A f \in Field : OwnTitle(f) \in TitleChoices'
    BY <2>1, <2>2, Zenon
  <2>4. PICK K : K = TitleChoices'
    BY Zenon
  <2>5. OwnColumns \in [Field -> K]
    BY <2>3, <2>4 DEF OwnColumns
  <2> QED
    BY <1>9, <2>4, <2>5, Zenon
<1>11. FileTypes'
  BY <1>1, <1>7, <1>8, <1>10, Zenon DEF FileTypes
<1>12. Expected' = Expected /\ OwnColumns' = OwnColumns
  BY <1>8, Zenon DEF Expected, OwnColumns, OwnTitle
<1>13. ~Reader' /\ ~Poster'
  BY <1>7, OnePlace DEF Reader, Poster
<1> QED
  BY <1>7, <1>9, <1>11, <1>12, <1>13, Zenon DEF FileInv, ReadingOn, AsRead, AsPosted

-----------------------------------------------------------------------------
(* What is posted, and the other steps.                                    *)
LEMMA RunInv == ASSUME FileInv, RunImport PROVE FileInv'
<1>1. /\ listed \in Lists /\ text \in Seq(Character) /\ pos \in 1 .. Len(text) + 1 /\ inQuotes \in BOOLEAN
      /\ csvHeaders \in {<<>>, Titles} /\ columnMapping \in [Field -> TitleChoices]
      /\ remapped \in BOOLEAN /\ fileActs \in 0 .. MaxFileActs /\ fileFaults \in 0 .. MaxFileFaults
  BY Zenon DEF FileInv, FileTypes
<1>2. /\ wizard = "mapping" /\ wizard' = "posting"
      /\ posted' = [i \in 1 .. Len(csvRows) |-> [f \in Field |-> Mapped(csvRows[i], f)]]
  BY Zenon DEF RunImport
<1>3. /\ listed' = listed /\ text' = text /\ pos' = pos /\ inQuotes' = inQuotes /\ csvHeaders' = csvHeaders
      /\ csvRows' = csvRows /\ columnMapping' = columnMapping
      /\ remapped' = remapped /\ fileActs' = fileActs /\ fileFaults' = fileFaults
  BY Zenon DEF RunImport, parsing, mapping
<1>4. csvHeaders = Titles /\ csvRows = Tail(Expected) /\ (~remapped => columnMapping = OwnColumns)
  BY <1>2, Zenon DEF FileInv, AsRead, Chooser
<1>5. TitleChoices' = TitleChoices /\ Expected' = Expected /\ OwnColumns' = OwnColumns /\ OwnLeads' = OwnLeads
  BY <1>3, Zenon DEF TitleChoices, Expected, OwnColumns, OwnTitle, OwnLeads
<1>6. FileTypes'
  BY <1>1, <1>2, <1>3, <1>5, Zenon DEF FileTypes
<1>7. ~Reader'
  BY <1>2, OnePlace DEF Reader
<1>8. ASSUME ~remapped
      PROVE  posted' = OwnLeads
  <2>1. /\ Len(RowsOf(listed)) = Len(listed) + 1 /\ Len(listed) \in Nat /\ Len(Titles) \in Nat
    BY <1>1, RowsFacts, Zenon
  <2>2. Reads(listed) = Expected /\ Reads(listed) \in Seq(Seq(Kind(listed))) /\ Len(Reads(listed)) = Len(RowsOf(listed))
    BY <1>1, ReadsFacts, ReadsExpected, Zenon
  <2> DEFINE n == Len(listed)
  <2>3. PICK S \in Seq(Seq(Kind(listed))) : S = Reads(listed)
    BY <2>2, Zenon
  <2>4. Len(S) = n + 1 /\ n \in Nat
    BY <2>1, <2>2, <2>3, Zenon
  <2>5. csvRows = Tail(S)
    BY <1>4, <2>2, <2>3, Zenon
  <2> HIDE DEF n
  <2>6. Len(Tail(S)) = n /\ \A i \in 1 .. n : Tail(S)[i] = S[i + 1]
    BY <2>4
  <2>7. ASSUME NEW i \in 1 .. n, NEW f \in Field
        PROVE  Mapped(csvRows[i], f) = IF Column[f] = 0 THEN <<>> ELSE Trim(listed[i][Column[f]])
    <3> DEFINE r == i + 1
    <3>1. r \in 1 .. Len(RowsOf(listed))
      BY <2>1, <2>4 DEF n
    <3>2. csvRows[i] = Reads(listed)[r]
      BY <2>3, <2>5, <2>6, Zenon
    <3>3. Len(Reads(listed)[r]) = Len(Titles)
          /\ \A c \in 1 .. Len(Titles) : Reads(listed)[r][c] = Trim(RowsOf(listed)[r][c])
      <4> HIDE DEF r
      <4> QED
        BY <1>1, <3>1, ReadsFacts, Zenon
    <3>4. columnMapping[f] = OwnTitle(f)
      BY <1>4, <1>8, Zenon DEF OwnColumns
    <3>5. Len(csvRows[i]) = Len(Titles)
      BY <3>2, <3>3, Zenon
    <3>6. Mapped(csvRows[i], f) = IF Column[f] = 0 THEN <<>> ELSE csvRows[i][Column[f]]
      BY <1>4, <3>4, <3>5, OwnValue, Zenon
    <3>7. CASE Column[f] # 0
      <4>1. Column[f] \in 1 .. Len(Titles) /\ Column[f] < Len(Titles)
        BY <3>7, ColumnFacts
      <4>2. \A c \in 1 .. Len(Titles) : c < Len(Titles) => RowsOf(listed)[r][c] = listed[i][c]
        BY <1>1, PlainCells, Zenon DEF n
      <4>3. RowsOf(listed)[r][Column[f]] = listed[i][Column[f]]
        BY <4>1, <4>2, Zenon
      <4>4. csvRows[i][Column[f]] = Trim(RowsOf(listed)[r][Column[f]])
        BY <3>2, <3>3, <4>1, Zenon
      <4> QED
        BY <3>6, <3>7, <4>3, <4>4, Zenon
    <3>8. CASE Column[f] = 0
      BY <3>6, <3>8, Zenon
    <3> QED
      BY <3>7, <3>8
  <2>8. Len(csvRows) = n
    BY <2>5, <2>6, Zenon
  <2>9. posted' = [i \in 1 .. n |-> [f \in Field |-> Mapped(csvRows[i], f)]]
    BY <1>2, <2>8, Zenon
  <2>10. OwnLeads = [i \in 1 .. n |-> [f \in Field |-> IF Column[f] = 0 THEN <<>> ELSE Trim(listed[i][Column[f]])]]
    BY Zenon DEF OwnLeads, n
  <2> QED
    BY <2>7, <2>9, <2>10, Zenon
<1> QED
  BY <1>3, <1>4, <1>5, <1>6, <1>7, <1>8, Zenon DEF FileInv, ReadingOn, AsRead, AsPosted

LEMMA ChooseInv ==
    ASSUME FileInv, NEW f \in Field, NEW i \in 0 .. Len(csvHeaders),
           ChooseColumn(f, IF i = 0 THEN <<>> ELSE csvHeaders[i])
    PROVE  FileInv'
<1> DEFINE title == IF i = 0 THEN <<>> ELSE csvHeaders[i]
<1>1. /\ listed \in Lists /\ text \in Seq(Character) /\ pos \in 1 .. Len(text) + 1 /\ inQuotes \in BOOLEAN
      /\ csvHeaders \in {<<>>, Titles} /\ columnMapping \in [Field -> TitleChoices]
      /\ fileActs \in 0 .. MaxFileActs /\ fileFaults \in 0 .. MaxFileFaults
  BY Zenon DEF FileInv, FileTypes
<1>2. /\ wizard = "mapping" /\ fileActs < MaxFileActs /\ fileActs' = fileActs + 1
      /\ columnMapping' = [columnMapping EXCEPT ![f] = title] /\ remapped' = TRUE
  BY Zenon DEF ChooseColumn, FileAct
<1>3. /\ wizard' = wizard /\ listed' = listed /\ text' = text /\ pos' = pos /\ inQuotes' = inQuotes /\ csvHeaders' = csvHeaders
      /\ csvRows' = csvRows /\ fileFaults' = fileFaults
  BY Zenon DEF ChooseColumn, parsing
<1>4. title \in TitleChoices
  <2>1. CASE i = 0
    BY <2>1, Zenon DEF TitleChoices
  <2>2. CASE i # 0
    <3>1. Len(csvHeaders) \in Nat
      BY <1>1, FileFacts
    <3>2. i \in 1 .. Len(csvHeaders)
      BY <2>2, <3>1
    <3> QED
      BY <2>2, <3>2, Zenon DEF TitleChoices
  <2> QED
    BY <2>1, <2>2
<1> HIDE DEF title
<1>5. columnMapping' \in [Field -> TitleChoices]
  <2>1. PICK K : K = TitleChoices
    BY Zenon
  <2>2. columnMapping \in [Field -> K] /\ title \in K
    BY <1>1, <1>4, <2>1, Zenon
  <2>3. columnMapping' \in [Field -> K]
    BY <1>2, <2>2
  <2> QED
    BY <2>1, <2>3, Zenon
<1>6. TitleChoices' = TitleChoices /\ Expected' = Expected
  BY <1>3, Zenon DEF TitleChoices, Expected
<1>7. fileActs' \in 0 .. MaxFileActs
  <2>1. MaxFileActs \in Nat
    BY FileAssumption, Zenon
  <2> QED
    BY <1>1, <1>2, <2>1
<1>8. FileTypes'
  BY <1>1, <1>2, <1>3, <1>5, <1>6, <1>7, Zenon DEF FileTypes
<1>9. csvHeaders = Titles /\ csvRows = Tail(Expected)
  BY <1>2, Zenon DEF FileInv, AsRead, Chooser
<1>10. ~Reader' /\ ~Poster'
  <2>1. wizard' = "mapping"
    BY <1>2, <1>3, Zenon
  <2> QED
    BY <2>1, OnePlace DEF Reader, Poster
<1> QED
  BY <1>2, <1>3, <1>6, <1>8, <1>9, <1>10, Zenon DEF FileInv, ReadingOn, AsRead, AsPosted

(* The steps that only take the wizard from one place to another.          *)
LEMMA PlaceMoves ==
    ASSUME FileInv, wizard' \in {"upload", "mapping", "results"}, wizard' = "mapping" => Poster,
           fileActs' \in 0 .. MaxFileActs, fileFaults' \in 0 .. MaxFileFaults,
           UNCHANGED <<listed, parsing, mapping, posted, remapped>>
    PROVE  FileInv'
<1>1. /\ listed \in Lists /\ text \in Seq(Character) /\ pos \in 1 .. Len(text) + 1 /\ inQuotes \in BOOLEAN
      /\ csvHeaders \in {<<>>, Titles} /\ columnMapping \in [Field -> TitleChoices] /\ remapped \in BOOLEAN
  BY Zenon DEF FileInv, FileTypes
<1>2. /\ listed' = listed /\ text' = text /\ pos' = pos /\ inQuotes' = inQuotes /\ csvHeaders' = csvHeaders
      /\ csvRows' = csvRows /\ columnMapping' = columnMapping /\ remapped' = remapped
  BY Zenon DEF parsing, mapping
<1>3. TitleChoices' = TitleChoices /\ Expected' = Expected /\ OwnColumns' = OwnColumns
  BY <1>2, Zenon DEF TitleChoices, Expected, OwnColumns, OwnTitle
<1>4. wizard' \in {"upload", "reading", "mapping", "posting", "results"}
  OBVIOUS
<1>5. FileTypes'
  BY <1>1, <1>2, <1>3, <1>4, Zenon DEF FileTypes
<1>6. ~Reader' /\ ~Poster'
  BY OnePlace DEF Reader, Poster
<1>7. Chooser' => Poster
  BY Zenon DEF Chooser
<1>8. ReadingOn' /\ AsPosted'
  BY <1>6, Zenon DEF ReadingOn, AsPosted
<1>9. AsRead'
  <2>1. ASSUME Chooser'
        PROVE  csvHeaders' = Titles /\ csvRows' = Tail(Expected)'
    <3>1. csvHeaders = Titles /\ csvRows = Tail(Expected)
      BY <1>7, <2>1, Zenon DEF FileInv, AsRead
    <3>2. Tail(Expected)' = Tail(Expected)
      BY <1>3, Zenon
    <3> QED
      BY <1>2, <3>1, <3>2, Zenon
  <2>2. ASSUME Chooser', ~remapped'
        PROVE  columnMapping' = OwnColumns'
    <3>1. ~remapped
      BY <1>2, <2>2
    <3>2. columnMapping = OwnColumns
      BY <1>7, <2>2, <3>1, Zenon DEF FileInv, AsRead
    <3> QED
      BY <1>2, <1>3, <3>2, Zenon
  <2> QED
    BY <1>6, <2>1, <2>2, Zenon DEF AsRead
<1> QED
  BY <1>5, <1>8, <1>9, Zenon DEF FileInv

LEMMA OtherSteps ==
    ASSUME FileInv, UploadDifferent \/ ImportAnswered \/ ImportFails
    PROVE  FileInv'
<1>0. fileActs \in 0 .. MaxFileActs /\ fileFaults \in 0 .. MaxFileFaults /\ MaxFileActs \in Nat /\ MaxFileFaults \in Nat
  BY FileAssumption, Zenon DEF FileInv, FileTypes
<1>1. CASE UploadDifferent
  <2>1. fileActs < MaxFileActs /\ fileActs' = fileActs + 1 /\ fileFaults' = fileFaults /\ wizard' = "upload"
        /\ UNCHANGED <<listed, parsing, mapping, posted, remapped>>
    BY <1>1, Zenon DEF UploadDifferent, FileAct
  <2>2. fileActs' \in 0 .. MaxFileActs
    BY <1>0, <2>1
  <2>3. wizard' \in {"upload", "mapping", "results"} /\ (wizard' = "mapping" => Poster)
    BY <2>1, OnePlace
  <2> QED
    BY <1>0, <2>1, <2>2, <2>3, PlaceMoves, Zenon
<1>2. CASE ImportAnswered
  <2>1. fileActs' = fileActs /\ fileFaults' = fileFaults /\ wizard' = "results"
        /\ UNCHANGED <<listed, parsing, mapping, posted, remapped>>
    BY <1>2, Zenon DEF ImportAnswered
  <2>2. wizard' \in {"upload", "mapping", "results"} /\ (wizard' = "mapping" => Poster)
    BY <2>1, OnePlace
  <2> QED
    BY <1>0, <2>1, <2>2, PlaceMoves, Zenon
<1>3. CASE ImportFails
  <2>1. fileActs' = fileActs /\ fileFaults < MaxFileFaults /\ fileFaults' = fileFaults + 1 /\ wizard' = "mapping"
        /\ wizard = "posting" /\ UNCHANGED <<listed, parsing, mapping, posted, remapped>>
    BY <1>3, Zenon DEF ImportFails
  <2>2. fileFaults' \in 0 .. MaxFileFaults
    BY <1>0, <2>1
  <2>3. wizard' \in {"upload", "mapping", "results"} /\ Poster
    BY <2>1, Zenon DEF Poster
  <2> QED
    BY <1>0, <2>1, <2>2, <2>3, PlaceMoves, Zenon
<1> QED
  BY <1>1, <1>2, <1>3

LEMMA FileStutters == ASSUME FileInv, UNCHANGED fileVars PROVE FileInv'
<1>1. /\ wizard' = wizard /\ listed' = listed /\ text' = text /\ pos' = pos /\ inQuotes' = inQuotes
      /\ current' = current /\ lines' = lines /\ cells' = cells /\ csvHeaders' = csvHeaders
      /\ csvRows' = csvRows /\ columnMapping' = columnMapping /\ remapped' = remapped /\ posted' = posted
      /\ fileActs' = fileActs /\ fileFaults' = fileFaults
  BY Zenon DEF fileVars, parsing, mapping
<1>2. TitleChoices' = TitleChoices /\ Expected' = Expected /\ OwnColumns' = OwnColumns /\ OwnLeads' = OwnLeads
      /\ Reader' = Reader /\ Chooser' = Chooser /\ Poster' = Poster
  BY <1>1, Zenon DEF TitleChoices, Expected, OwnColumns, OwnTitle, OwnLeads, Reader, Chooser, Poster
<1>3. FileTypes'
  BY <1>1, <1>2, Zenon DEF FileInv, FileTypes
<1>4. ReadingOn' /\ AsRead' /\ AsPosted'
  BY <1>1, <1>2, Zenon DEF FileInv, ReadingOn, AsRead, AsPosted
<1> QED
  BY <1>3, <1>4, Zenon DEF FileInv

LEMMA FileNextInv == FileInv /\ [FileNext]_fileVars => FileInv'
<1> SUFFICES ASSUME FileInv, [FileNext]_fileVars PROVE FileInv'
  OBVIOUS
<1>1. CASE UNCHANGED fileVars
  BY <1>1, FileStutters, Zenon
<1>2. CASE UploadFile
  BY <1>2, UploadInv, Zenon
<1>3. CASE ParseStep
  <2>1. CASE EndText
    BY <2>1, EndTextInv, Zenon
  <2>2. CASE ~EndText
    <3>1. Reader /\ pos <= Len(text)
      BY <1>3, <2>2, Zenon
      DEF ParseStep, DoubledQuote, SingleQuote, EndCell, EndLine, PlainCharacter, Reading, Reader
    <3> QED
      BY <1>3, <3>1, ParseInv, Zenon
  <2> QED
    BY <2>1, <2>2
<1>4. CASE RunImport
  BY <1>4, RunInv, Zenon
<1>5. CASE UploadDifferent \/ ImportAnswered \/ ImportFails
  BY <1>5, OtherSteps, Zenon
<1>6. CASE \E f \in Field, i \in 0 .. Len(csvHeaders) : ChooseColumn(f, IF i = 0 THEN <<>> ELSE csvHeaders[i])
  BY <1>6, ChooseInv, Zenon
<1> QED
  BY <1>1, <1>2, <1>3, <1>4, <1>5, <1>6, Zenon DEF FileNext, ParseStep

-----------------------------------------------------------------------------
LEMMA FileInvariant == FileSpec => []FileInv
BY FileInitInv, FileNextInv, PTL DEF FileSpec

LEMMA FileInvTypes == FileInv => FileTypeOK
<1> SUFFICES ASSUME FileInv PROVE FileTypeOK
  OBVIOUS
<1>1. FileTypes
  BY Zenon DEF FileInv
<1>2. \A f \in Field : columnMapping[f] = <<>> \/ \E i \in 1 .. Len(csvHeaders) : csvHeaders[i] = columnMapping[f]
  <2> TAKE f \in Field
  <2>1. columnMapping \in [Field -> TitleChoices]
    BY <1>1, Zenon DEF FileTypes
  <2>2. PICK K : K = TitleChoices
    BY Zenon
  <2>3. columnMapping[f] \in K
    BY <2>1, <2>2
  <2>4. columnMapping[f] \in TitleChoices
    BY <2>2, <2>3, Zenon
  <2> QED
    BY <2>4, Zenon DEF TitleChoices
<1> QED
  BY <1>1, <1>2, Zenon DEF FileTypeOK, FileTypes

LEMMA FileInvReads == FileInv => ReadBack
<1> SUFFICES ASSUME FileInv PROVE ReadBack
  OBVIOUS
<1>1. listed \in Lists
  BY Zenon DEF FileInv, FileTypes
<1>2. /\ Reads(listed) = Expected /\ Reads(listed) \in Seq(Seq(Kind(listed))) /\ Len(Reads(listed)) = Len(RowsOf(listed))
      /\ \A r \in 1 .. Len(RowsOf(listed)) : Reads(listed)[r] \in Seq(Kind(listed)) /\ Len(Reads(listed)[r]) = Len(Titles)
  BY <1>1, ReadsFacts, ReadsExpected, Zenon
<1>3. ASSUME wizard = "reading"
      PROVE  /\ lines = SubSeq(Expected, 1, Len(lines))
             /\ cells # <<>> => cells = SubSeq(Expected[Len(lines) + 1], 1, Len(cells))
  <2>1. PICK u, w : \/ AtCell(text, pos, inQuotes, current, lines, cells, listed, u, w)
                    \/ AllRead(text, pos, inQuotes, current, lines, cells, listed)
    BY <1>3, Zenon DEF FileInv, ReadingOn, Reader, OnTheRows
  <2>2. CASE AllRead(text, pos, inQuotes, current, lines, cells, listed)
    <3>1. lines = Expected /\ cells = <<>>
      BY <1>2, <2>2, Zenon DEF AllRead
    <3>2. SubSeq(Expected, 1, Len(Expected)) = Expected
      BY <1>2, FirstOfNone, Zenon
    <3> QED
      BY <3>1, <3>2, Zenon
  <2>3. CASE AtCell(text, pos, inQuotes, current, lines, cells, listed, u, w)
    <3>1. PICK r \in 1 .. Len(RowsOf(listed)), c \in 1 .. Len(Titles) : BeforeCell(lines, cells, listed, r, c)
      BY <2>3, Zenon DEF AtCell
    <3>2. PICK S \in Seq(Seq(Kind(listed))) : S = Reads(listed)
      BY <1>2, Zenon
    <3>3. PICK row \in Seq(Kind(listed)) : row = S[r]
      BY <1>2, <3>2, Zenon
    <3>4. Len(S) = Len(RowsOf(listed)) /\ Len(row) = Len(Titles) /\ lines = SubSeq(S, 1, r - 1)
          /\ cells = SubSeq(row, 1, c - 1)
      BY <1>2, <3>1, <3>2, <3>3, Zenon DEF BeforeCell
    <3>5. r \in 1 .. Len(S) /\ c \in 1 .. Len(row)
      BY <3>4, Zenon
    <3>6. Len(SubSeq(S, 1, r - 1)) = r - 1 /\ r - 1 + 1 = r
      BY <3>5
    <3>7. Len(SubSeq(row, 1, c - 1)) = c - 1
      BY <3>5
    <3>8. Len(lines) = r - 1 /\ Len(lines) + 1 = r /\ Len(cells) = c - 1
      BY <3>4, <3>6, <3>7, Zenon
    <3> QED
      BY <1>2, <3>2, <3>3, <3>4, <3>8, Zenon
  <2> QED
    BY <2>1, <2>2, <2>3
<1>4. ASSUME wizard = "mapping"
      PROVE  csvHeaders = Titles /\ csvRows = Tail(Expected)
  BY <1>4, Zenon DEF FileInv, AsRead, Chooser
<1>5. ASSUME wizard = "posting", ~remapped
      PROVE  posted = OwnLeads
  BY <1>5, Zenon DEF FileInv, AsPosted, Poster
<1> QED
  BY <1>3, <1>4, <1>5, Zenon DEF ReadBack, OwnLeads

(* The wizard's variables keep their types, and every field has a column   *)
(* the file has, or none: FileTypeOK.                                      *)
THEOREM FileTypesCorrect == FileSpec => []FileTypeOK
BY FileInvariant, FileInvTypes, PTL

(* A list that is exported, and perhaps saved again by a spreadsheet, is   *)
(* read back whole, and if the user leaves the columns alone each field    *)
(* that was exported is posted with the value the lead had: ReadBack, for  *)
(* any characters, titles and leads, whatever quotes, commas and ends of   *)
(* line the cells contain.                                                 *)
THEOREM FileReadBack == FileSpec => []ReadBack
BY FileInvariant, FileInvReads, PTL
=============================================================================
