----------------------------- MODULE ListProofs -----------------------------
(***************************************************************************)
(* What holds of the sequences of requests that the pages keep under way,  *)
(* and of the leads page's list, for any leads, groups and number of       *)
(* requests, and any bounds.                                               *)
(***************************************************************************)
EXTENDS LeadList, SequenceTheorems, FiniteSetTheorems, TLAPS

-----------------------------------------------------------------------------
(***************************************************************************)
(* Requests under way: a sequence of which one is written or taken, and to *)
(* which others are added.                                                 *)
(***************************************************************************)

(* What is on its way when the request at n is answered, with those that   *)
(* its answer makes the page send.                                         *)
Taken(u, s, n, t) ==
  /\ Len(s) \in Nat /\ Len(t) \in Nat /\ Len(u) = Len(s) - 1 + Len(t)
  /\ \A i \in 1 .. n - 1 : u[i] = s[i]
  /\ \A i \in n + 1 .. Len(s) : u[i - 1] = s[i]
  /\ \A k \in 1 .. Len(t) : u[Len(s) - 1 + k] = t[k]

LEMMA Removed ==
    ASSUME NEW S, NEW s \in Seq(S), NEW n \in 1 .. Len(s)
    PROVE  RemoveAt(s, n) \in Seq(S) /\ Taken(RemoveAt(s, n), s, n, <<>>)
<1> DEFINE a == SubSeq(s, 1, n - 1)
           b == SubSeq(s, n + 1, Len(s))
<1>2. Len(s) \in Nat /\ n \in Nat /\ \A i \in 1 .. Len(s) : s[i] \in S
  OBVIOUS
<1>3. a \in Seq(S) /\ Len(a) = n - 1 /\ \A i \in 1 .. n - 1 : a[i] = s[i]
  <2>1. \A i \in 1 .. n - 1 : s[i] \in S
    BY <1>2
  <2> QED
    BY <1>2, <2>1, SubSeqProperties
<1>4. b \in Seq(S) /\ Len(b) = Len(s) - n /\ \A i \in 1 .. Len(s) - n : b[i] = s[n + i]
  <2>1. \A i \in n + 1 .. Len(s) : s[i] \in S
    BY <1>2
  <2>2. /\ b \in Seq(S) /\ Len(b) = IF n + 1 <= Len(s) THEN Len(s) - (n + 1) + 1 ELSE 0
        /\ \A i \in 1 .. Len(s) - (n + 1) + 1 : b[i] = s[n + 1 + i - 1]
    BY <1>2, <2>1, SubSeqProperties
  <2> QED
    BY <1>2, <2>2
<1>5. RemoveAt(s, n) = a \o b
  BY DEF RemoveAt
<1> HIDE DEF a, b
<1> DEFINE r == a \o b
<1>6. /\ r \in Seq(S) /\ Len(r) = Len(a) + Len(b)
      /\ \A i \in 1 .. Len(a) + Len(b) : r[i] = IF i <= Len(a) THEN a[i] ELSE b[i - Len(a)]
  BY <1>3, <1>4, ConcatProperties
<1> HIDE DEF r
<1>7. Len(r) = Len(s) - 1
  BY <1>2, <1>3, <1>4, <1>6
<1>8. \A i \in 1 .. n - 1 : r[i] = s[i]
  BY <1>2, <1>3, <1>4, <1>6
<1>9. ASSUME NEW i \in n + 1 .. Len(s)
      PROVE  r[i - 1] = s[i]
  <2>1. i - 1 \in 1 .. Len(s) - 1 /\ ~(i - 1 <= Len(a)) /\ i - 1 - Len(a) = i - n /\ i - n \in 1 .. Len(s) - n
    BY <1>2, <1>3
  <2>4. i - 1 \in 1 .. Len(a) + Len(b)
    BY <1>2, <1>3, <1>4, <2>1
  <2>2. r[i - 1] = b[i - n]
    BY <1>6, <2>1, <2>4
  <2>3. b[i - n] = s[n + (i - n)] /\ n + (i - n) = i
    BY <1>2, <1>4, <2>1
  <2> QED
    BY <2>2, <2>3
<1>10. Len(<<>>) = 0
  OBVIOUS
<1>11. Taken(r, s, n, <<>>)
  BY <1>2, <1>7, <1>8, <1>9, <1>10 DEF Taken
<1> QED
  BY <1>5, <1>6, <1>11 DEF r

LEMMA RemovedFor ==
    ASSUME NEW S, NEW s \in Seq(S), NEW n \in 1 .. Len(s), NEW t \in Seq(S)
    PROVE  RemoveAt(s, n) \o t \in Seq(S) /\ Taken(RemoveAt(s, n) \o t, s, n, t)
<1> DEFINE r == RemoveAt(s, n)
<1>1. r \in Seq(S) /\ Taken(r, s, n, <<>>)
  BY Removed
<1> HIDE DEF r
<1>2. Len(s) \in Nat /\ Len(t) \in Nat /\ Len(<<>>) = 0
  OBVIOUS
<1>3. /\ Len(r) = Len(s) - 1 /\ \A i \in 1 .. n - 1 : r[i] = s[i]
      /\ \A i \in n + 1 .. Len(s) : r[i - 1] = s[i]
  BY <1>1, <1>2 DEF Taken
<1> DEFINE u == r \o t
<1>4. /\ u \in Seq(S) /\ Len(u) = Len(r) + Len(t)
      /\ \A i \in 1 .. Len(r) + Len(t) : u[i] = IF i <= Len(r) THEN r[i] ELSE t[i - Len(r)]
  BY <1>1, ConcatProperties
<1> HIDE DEF u
<1>5. \A i \in 1 .. n - 1 : u[i] = s[i]
  BY <1>2, <1>3, <1>4
<1>6. ASSUME NEW i \in n + 1 .. Len(s)
      PROVE  u[i - 1] = s[i]
  <2>1. i - 1 \in 1 .. Len(r) + Len(t) /\ i - 1 <= Len(r)
    BY <1>2, <1>3
  <2> QED
    BY <1>3, <1>4, <2>1
<1>7. ASSUME NEW k \in 1 .. Len(t)
      PROVE  u[Len(s) - 1 + k] = t[k]
  <2>1. Len(r) + k \in 1 .. Len(r) + Len(t) /\ ~(Len(r) + k <= Len(r)) /\ Len(r) + k - Len(r) = k
    BY <1>2, <1>3
  <2>2. u[Len(r) + k] = t[k]
    BY <1>4, <2>1
  <2>3. Len(r) + k = Len(s) - 1 + k
    BY <1>3
  <2> QED
    BY <2>2, <2>3
<1>8. Taken(u, s, n, t)
  BY <1>2, <1>3, <1>4, <1>5, <1>6, <1>7 DEF Taken
<1> QED
  BY <1>4, <1>8 DEF r, u

LEMMA RemovedAdding ==
    ASSUME NEW S, NEW s \in Seq(S), NEW n \in 1 .. Len(s), NEW c \in S
    PROVE  Append(RemoveAt(s, n), c) \in Seq(S) /\ Taken(Append(RemoveAt(s, n), c), s, n, <<c>>)
<1>1. RemoveAt(s, n) \in Seq(S)
  BY Removed
<1>2. Append(RemoveAt(s, n), c) = RemoveAt(s, n) \o <<c>>
  BY <1>1, AppendIsConcat
<1>3. <<c>> \in Seq(S)
  OBVIOUS
<1> QED
  BY <1>2, <1>3, RemovedFor

(* A request of P is on its way, and after it none of Q.                   *)
LastSent(s, P, Q) == \E i \in 1 .. Len(s) : s[i] \in P /\ \A j \in i + 1 .. Len(s) : s[j] \notin Q
OnTheWay(s, P) == \E i \in 1 .. Len(s) : s[i] \in P

LEMMA TakenFrom ==
    ASSUME NEW S, NEW s \in Seq(S), NEW t \in Seq(S), NEW u \in Seq(S), NEW n \in 1 .. Len(s), Taken(u, s, n, t),
           NEW j \in 1 .. Len(u)
    PROVE  (\E i \in 1 .. Len(s) \ {n} : u[j] = s[i]) \/ (\E k \in 1 .. Len(t) : u[j] = t[k])
<1>1. Len(s) \in Nat /\ Len(t) \in Nat /\ Len(u) = Len(s) - 1 + Len(t) /\ n \in Nat /\ j \in Nat
  BY DEF Taken
<1>2. CASE j < n
  <2>1. j \in 1 .. n - 1 /\ j \in 1 .. Len(s) \ {n}
    BY <1>1, <1>2
  <2> QED
    BY <2>1 DEF Taken
<1>3. CASE n <= j /\ j < Len(s)
  <2>1. j + 1 \in n + 1 .. Len(s) /\ j + 1 \in 1 .. Len(s) \ {n} /\ j + 1 - 1 = j
    BY <1>1, <1>3
  <2> QED
    BY <2>1 DEF Taken
<1>4. CASE Len(s) <= j
  <2>1. j - (Len(s) - 1) \in 1 .. Len(t) /\ Len(s) - 1 + (j - (Len(s) - 1)) = j
    BY <1>1, <1>4
  <2> QED
    BY <2>1 DEF Taken
<1> QED
  BY <1>1, <1>2, <1>3, <1>4

LEMMA TakenOther ==
    ASSUME NEW S, NEW s \in Seq(S), NEW t \in Seq(S), NEW u \in Seq(S), NEW n \in 1 .. Len(s), Taken(u, s, n, t),
           NEW P, NEW Q, NEW i \in 1 .. Len(s) \ {n}, s[i] \in P, \A j \in i + 1 .. Len(s) : s[j] \notin Q,
           \A k \in 1 .. Len(t) : t[k] \notin Q
    PROVE  LastSent(u, P, Q)
<1>1. Len(s) \in Nat /\ Len(t) \in Nat /\ Len(u) = Len(s) - 1 + Len(t) /\ n \in Nat
  BY DEF Taken
<1>2. s[i] \in P /\ \A j \in i + 1 .. Len(s) : s[j] \notin Q
  OBVIOUS
<1>3. i # n
  OBVIOUS
<1>4. ASSUME NEW j \in 1 .. Len(u), j >= i, j >= n
      PROVE  u[j] \notin Q
  <2>1. CASE j < Len(s)
    <3>1. j + 1 \in n + 1 .. Len(s) /\ j + 1 \in i + 1 .. Len(s) /\ j + 1 - 1 = j
      BY <1>1, <1>4, <2>1
    <3>2. u[j] = s[j + 1]
      BY <3>1 DEF Taken
    <3> QED
      BY <1>2, <3>1, <3>2
  <2>2. CASE Len(s) <= j
    <3>1. j - (Len(s) - 1) \in 1 .. Len(t) /\ Len(s) - 1 + (j - (Len(s) - 1)) = j
      BY <1>1, <2>2
    <3> QED
      BY <3>1 DEF Taken
  <2> QED
    BY <1>1, <2>1, <2>2
<1>5. CASE i < n
  <2>1. i \in 1 .. n - 1 /\ i \in 1 .. Len(u)
    BY <1>1, <1>5
  <2>2. u[i] \in P
    BY <1>2, <2>1 DEF Taken
  <2>3. ASSUME NEW j \in i + 1 .. Len(u)
        PROVE  u[j] \notin Q
    <3>1. CASE j < n
      <4>1. j \in 1 .. n - 1 /\ j \in i + 1 .. Len(s)
        BY <1>1, <3>1
      <4> QED
        BY <1>2, <4>1 DEF Taken
    <3>2. CASE j >= n
      <4>1. j \in 1 .. Len(u) /\ j >= i
        BY <1>1
      <4> QED
        BY <1>4, <3>2, <4>1
    <3> QED
      BY <1>1, <3>1, <3>2
  <2> QED
    BY <2>1, <2>2, <2>3 DEF LastSent
<1>6. CASE i > n
  <2>1. i \in n + 1 .. Len(s) /\ i - 1 \in 1 .. Len(u)
    BY <1>1, <1>6
  <2>2. u[i - 1] \in P
    BY <1>2, <2>1 DEF Taken
  <2>3. ASSUME NEW j \in i - 1 + 1 .. Len(u)
        PROVE  u[j] \notin Q
    <3>1. j \in 1 .. Len(u) /\ j >= i /\ j >= n
      BY <1>1, <1>6
    <3> QED
      BY <1>4, <3>1
  <2> QED
    BY <2>1, <2>2, <2>3 DEF LastSent
<1> QED
  BY <1>1, <1>3, <1>5, <1>6

LEMMA TakenLast ==
    ASSUME NEW S, NEW s \in Seq(S), NEW t \in Seq(S), NEW u \in Seq(S), NEW n \in 1 .. Len(s), Taken(u, s, n, t),
           NEW P, NEW Q, LastSent(s, P, Q), s[n] \notin P, \A k \in 1 .. Len(t) : t[k] \notin Q
    PROVE  LastSent(u, P, Q)
<1>1. PICK i \in 1 .. Len(s) : s[i] \in P /\ \A j \in i + 1 .. Len(s) : s[j] \notin Q
  BY DEF LastSent
<1>2. i \in 1 .. Len(s) \ {n}
  BY <1>1
<1> QED
  BY <1>1, <1>2, TakenOther

LEMMA TakenHolds ==
    ASSUME NEW S, NEW s \in Seq(S), NEW t \in Seq(S), NEW u \in Seq(S), NEW n \in 1 .. Len(s), Taken(u, s, n, t),
           NEW P, OnTheWay(s, P), s[n] \notin P
    PROVE  OnTheWay(u, P)
<1>1. LastSent(s, P, {})
  BY DEF LastSent, OnTheWay
<1>2. LastSent(u, P, {})
  BY <1>1, TakenLast
<1> QED
  BY <1>2 DEF LastSent, OnTheWay

(* A request that is sent is the last.                                     *)
LEMMA TakenSends ==
    ASSUME NEW S, NEW s \in Seq(S), NEW t \in Seq(S), NEW u \in Seq(S), NEW n \in 1 .. Len(s), Taken(u, s, n, t),
           NEW P, NEW Q, LastSent(t, P, Q)
    PROVE  LastSent(u, P, Q)
<1>1. Len(s) \in Nat /\ Len(t) \in Nat /\ Len(u) = Len(s) - 1 + Len(t) /\ n \in Nat
  BY DEF Taken
<1>2. PICK k \in 1 .. Len(t) : t[k] \in P /\ \A j \in k + 1 .. Len(t) : t[j] \notin Q
  BY DEF LastSent
<1>3. Len(s) - 1 + k \in 1 .. Len(u) /\ u[Len(s) - 1 + k] \in P
  BY <1>1, <1>2 DEF Taken
<1>4. ASSUME NEW j \in Len(s) - 1 + k + 1 .. Len(u)
      PROVE  u[j] \notin Q
  <2>1. j - (Len(s) - 1) \in 1 .. Len(t) /\ Len(s) - 1 + (j - (Len(s) - 1)) = j /\ j - (Len(s) - 1) \in k + 1 .. Len(t)
    BY <1>1
  <2> QED
    BY <1>2, <2>1 DEF Taken
<1> QED
  BY <1>3, <1>4 DEF LastSent

LEMMA AddedLast ==
    ASSUME NEW S, NEW s \in Seq(S), NEW t \in Seq(S), NEW P, NEW Q
    PROVE  /\ s \o t \in Seq(S)
           /\ LastSent(s, P, Q) /\ (\A k \in 1 .. Len(t) : t[k] \notin Q) => LastSent(s \o t, P, Q)
           /\ LastSent(t, P, Q) => LastSent(s \o t, P, Q)
           /\ OnTheWay(s, P) => OnTheWay(s \o t, P)
           /\ \A j \in 1 .. Len(s \o t) : (\E i \in 1 .. Len(s) : (s \o t)[j] = s[i]) \/ (\E k \in 1 .. Len(t) : (s \o t)[j] = t[k])
<1> DEFINE u == s \o t
<1>1. /\ u \in Seq(S) /\ Len(u) = Len(s) + Len(t)
      /\ \A i \in 1 .. Len(s) + Len(t) : u[i] = IF i <= Len(s) THEN s[i] ELSE t[i - Len(s)]
  BY ConcatProperties
<1>2. Len(s) \in Nat /\ Len(t) \in Nat
  OBVIOUS
<1> HIDE DEF u
<1>3. \A i \in 1 .. Len(s) : i \in 1 .. Len(u) /\ u[i] = s[i]
  BY <1>1, <1>2
<1>4. ASSUME NEW k \in 1 .. Len(t)
      PROVE  Len(s) + k \in 1 .. Len(u) /\ u[Len(s) + k] = t[k]
  <2>1. Len(s) + k \in 1 .. Len(s) + Len(t) /\ ~(Len(s) + k <= Len(s)) /\ Len(s) + k - Len(s) = k
    BY <1>2
  <2> QED
    BY <1>1, <1>2, <2>1
<1>5. ASSUME NEW j \in 1 .. Len(u)
      PROVE  (j \in 1 .. Len(s) /\ u[j] = s[j]) \/ (j > Len(s) /\ j - Len(s) \in 1 .. Len(t) /\ u[j] = t[j - Len(s)])
  BY <1>1, <1>2
<1>6. ASSUME LastSent(s, P, Q), \A k \in 1 .. Len(t) : t[k] \notin Q
      PROVE  LastSent(u, P, Q)
  <2>1. PICK i \in 1 .. Len(s) : s[i] \in P /\ \A j \in i + 1 .. Len(s) : s[j] \notin Q
    BY <1>6 DEF LastSent
  <2>2. ASSUME NEW j \in i + 1 .. Len(u)
        PROVE  u[j] \notin Q
    <3>1. j \in 1 .. Len(u) /\ (j \in 1 .. Len(s) => j \in i + 1 .. Len(s))
      BY <1>1, <1>2
    <3> QED
      BY <1>5, <1>6, <2>1, <3>1
  <2> QED
    BY <1>3, <2>1, <2>2 DEF LastSent
<1>7. ASSUME LastSent(t, P, Q)
      PROVE  LastSent(u, P, Q)
  <2>1. PICK k \in 1 .. Len(t) : t[k] \in P /\ \A j \in k + 1 .. Len(t) : t[j] \notin Q
    BY <1>7 DEF LastSent
  <2>2. ASSUME NEW j \in Len(s) + k + 1 .. Len(u)
        PROVE  u[j] \notin Q
    <3>1. j \in 1 .. Len(u) /\ j > Len(s) /\ j - Len(s) \in k + 1 .. Len(t)
      BY <1>1, <1>2
    <3>2. u[j] = t[j - Len(s)]
      BY <1>2, <1>5, <3>1
    <3> QED
      BY <2>1, <3>1, <3>2
  <2> QED
    BY <1>4, <2>1, <2>2 DEF LastSent
<1>8. OnTheWay(s, P) => OnTheWay(u, P)
  BY <1>3 DEF OnTheWay
<1>9. \A j \in 1 .. Len(u) : (\E i \in 1 .. Len(s) : u[j] = s[i]) \/ (\E k \in 1 .. Len(t) : u[j] = t[k])
  BY <1>5
<1> QED
  BY <1>1, <1>6, <1>7, <1>8, <1>9 DEF u

LEMMA WrittenLast ==
    ASSUME NEW S, NEW s \in Seq(S), NEW n \in 1 .. Len(s), NEW c \in S, NEW P, NEW R, NEW Q,
           LastSent(s, P, Q), s[n] \in P => c \in R, \A i \in 1 .. Len(s) \ {n} : s[i] \in P => s[i] \in R,
           c \in Q => s[n] \in Q
    PROVE  LastSent([s EXCEPT ![n] = c], R, Q)
<1> DEFINE u == [s EXCEPT ![n] = c]
<1>1. u \in Seq(S) /\ Len(u) = Len(s) /\ \A j \in 1 .. Len(s) : u[j] = IF j = n THEN c ELSE s[j]
  BY ExceptSeq
<1> HIDE DEF u
<1>2. PICK i \in 1 .. Len(s) : s[i] \in P /\ \A j \in i + 1 .. Len(s) : s[j] \notin Q
  BY DEF LastSent
<1>3. u[i] \in R /\ i \in 1 .. Len(u)
  BY <1>1, <1>2
<1>4. ASSUME NEW j \in i + 1 .. Len(u)
      PROVE  u[j] \notin Q
  <2>1. j \in 1 .. Len(s) /\ j \in i + 1 .. Len(s)
    BY <1>1
  <2> QED
    BY <1>1, <1>2, <2>1
<1> QED
  BY <1>3, <1>4 DEF LastSent, u

AtMostOne(s, P) == \A i, j \in 1 .. Len(s) : s[i] \in P /\ s[j] \in P => i = j

LEMMA TakenOne ==
    ASSUME NEW S, NEW s \in Seq(S), NEW t \in Seq(S), NEW u \in Seq(S), NEW n \in 1 .. Len(s), Taken(u, s, n, t),
           NEW P, AtMostOne(s, P), \A k \in 1 .. Len(t) : t[k] \notin P
    PROVE  AtMostOne(u, P) /\ (s[n] \in P => ~OnTheWay(u, P))
<1>1. Len(s) \in Nat /\ Len(t) \in Nat /\ Len(u) = Len(s) - 1 + Len(t) /\ n \in Nat
  BY DEF Taken
<1>2. ASSUME NEW j \in 1 .. Len(u), u[j] \in P
      PROVE  \/ j < n /\ j \in 1 .. Len(s) /\ s[j] \in P
             \/ n <= j /\ j + 1 \in 1 .. Len(s) /\ s[j + 1] \in P
  <2>1. CASE j < n
    <3>1. j \in 1 .. n - 1 /\ j \in 1 .. Len(s)
      BY <1>1, <2>1
    <3> QED
      BY <1>2, <2>1, <3>1 DEF Taken
  <2>2. CASE n <= j /\ j < Len(s)
    <3>1. j + 1 \in n + 1 .. Len(s) /\ j + 1 \in 1 .. Len(s) /\ j + 1 - 1 = j
      BY <1>1, <2>2
    <3>2. u[j + 1 - 1] = s[j + 1]
      BY <3>1 DEF Taken
    <3> QED
      BY <1>2, <2>2, <3>1, <3>2
  <2>3. CASE Len(s) <= j
    <3>1. j - (Len(s) - 1) \in 1 .. Len(t) /\ Len(s) - 1 + (j - (Len(s) - 1)) = j
      BY <1>1, <2>3
    <3>2. u[j] = t[j - (Len(s) - 1)]
      BY <3>1 DEF Taken
    <3> QED
      BY <1>2, <3>1, <3>2
  <2> QED
    BY <1>1, <2>1, <2>2, <2>3
<1>3. ASSUME NEW i \in 1 .. Len(u), NEW j \in 1 .. Len(u), u[i] \in P, u[j] \in P
      PROVE  i = j
  <2>1. \/ i < n /\ i \in 1 .. Len(s) /\ s[i] \in P
        \/ n <= i /\ i + 1 \in 1 .. Len(s) /\ s[i + 1] \in P
    BY <1>2, <1>3
  <2>2. \/ j < n /\ j \in 1 .. Len(s) /\ s[j] \in P
        \/ n <= j /\ j + 1 \in 1 .. Len(s) /\ s[j + 1] \in P
    BY <1>2, <1>3
  <2> QED
    BY <1>1, <2>1, <2>2 DEF AtMostOne
<1>4. ASSUME s[n] \in P, NEW j \in 1 .. Len(u), u[j] \in P
      PROVE  FALSE
  <2>1. \/ j < n /\ j \in 1 .. Len(s) /\ s[j] \in P
        \/ n <= j /\ j + 1 \in 1 .. Len(s) /\ s[j + 1] \in P
    BY <1>2, <1>4
  <2> QED
    BY <1>1, <1>4, <2>1 DEF AtMostOne
<1> QED
  BY <1>3, <1>4 DEF AtMostOne, OnTheWay

LEMMA AddedOne ==
    ASSUME NEW S, NEW s \in Seq(S), NEW t \in Seq(S), NEW P, AtMostOne(s, P),
           \/ \A k \in 1 .. Len(t) : t[k] \notin P
           \/ Len(t) = 1 /\ ~OnTheWay(s, P)
    PROVE  AtMostOne(s \o t, P)
<1> DEFINE u == s \o t
<1>1. /\ u \in Seq(S) /\ Len(u) = Len(s) + Len(t)
      /\ \A i \in 1 .. Len(s) + Len(t) : u[i] = IF i <= Len(s) THEN s[i] ELSE t[i - Len(s)]
  BY ConcatProperties
<1>2. Len(s) \in Nat /\ Len(t) \in Nat
  OBVIOUS
<1> HIDE DEF u
<1>3. ASSUME NEW j \in 1 .. Len(u)
      PROVE  (j \in 1 .. Len(s) /\ u[j] = s[j]) \/ (j > Len(s) /\ j - Len(s) \in 1 .. Len(t) /\ u[j] = t[j - Len(s)])
  BY <1>1, <1>2
<1>4. ASSUME NEW i \in 1 .. Len(u), NEW j \in 1 .. Len(u), u[i] \in P, u[j] \in P
      PROVE  i = j
  <2>1. (i \in 1 .. Len(s) /\ s[i] \in P) \/ (i > Len(s) /\ i - Len(s) \in 1 .. Len(t) /\ t[i - Len(s)] \in P)
    BY <1>3, <1>4
  <2>2. (j \in 1 .. Len(s) /\ s[j] \in P) \/ (j > Len(s) /\ j - Len(s) \in 1 .. Len(t) /\ t[j - Len(s)] \in P)
    BY <1>3, <1>4
  <2>3. CASE \A k \in 1 .. Len(t) : t[k] \notin P
    BY <2>1, <2>2, <2>3 DEF AtMostOne
  <2>4. CASE Len(t) = 1 /\ ~OnTheWay(s, P)
    BY <1>2, <2>1, <2>2, <2>4 DEF OnTheWay
  <2> QED
    BY <2>3, <2>4
<1> QED
  BY <1>4 DEF AtMostOne, u

LEMMA WrittenOne ==
    ASSUME NEW S, NEW s \in Seq(S), NEW n \in 1 .. Len(s), NEW c \in S, NEW P, NEW R,
           \A x \in S : x \in R => x \in P, c \in R => s[n] \in P, AtMostOne(s, P)
    PROVE  AtMostOne([s EXCEPT ![n] = c], R)
<1> DEFINE u == [s EXCEPT ![n] = c]
<1>1. u \in Seq(S) /\ Len(u) = Len(s) /\ \A j \in 1 .. Len(s) : u[j] = IF j = n THEN c ELSE s[j]
  BY ExceptSeq
<1> HIDE DEF u
<1>2. \A j \in 1 .. Len(u) : u[j] \in R => s[j] \in P /\ j \in 1 .. Len(s)
  BY <1>1
<1> QED
  BY <1>2 DEF AtMostOne, u

LEMMA TakenNone ==
    ASSUME NEW S, NEW s \in Seq(S), NEW t \in Seq(S), NEW u \in Seq(S), NEW n \in 1 .. Len(s), Taken(u, s, n, t),
           NEW P, \A i \in 1 .. Len(s) \ {n} : s[i] \notin P, \A k \in 1 .. Len(t) : t[k] \notin P
    PROVE  ~OnTheWay(u, P)
BY TakenFrom DEF OnTheWay

(* Requests t are sent, by the user (n = 0) or when the one at n, which is *)
(* on its way no longer, has been answered.                                *)
Moved(u, s, n, t) == (n = 0 /\ u = s \o t) \/ (n \in 1 .. Len(s) /\ Taken(u, s, n, t))

LEMMA MovedKeeps ==
    ASSUME NEW S, NEW s \in Seq(S), NEW t \in Seq(S), NEW u \in Seq(S), NEW n, Moved(u, s, n, t),
           NEW P, NEW Q
    PROVE  /\ (n # 0 => s[n] \notin P) /\ LastSent(s, P, Q) /\ (\A k \in 1 .. Len(t) : t[k] \notin Q) => LastSent(u, P, Q)
           /\ (n # 0 => s[n] \notin P) /\ OnTheWay(s, P) => OnTheWay(u, P)
           /\ LastSent(t, P, Q) => LastSent(u, P, Q)
           /\ OnTheWay(t, P) => OnTheWay(u, P)
           /\ (\A i \in 1 .. Len(s) : i # n => s[i] \notin P) /\ (\A k \in 1 .. Len(t) : t[k] \notin P) => ~OnTheWay(u, P)
           /\ ~OnTheWay(s, P) /\ ~OnTheWay(t, P) => ~OnTheWay(u, P)
           /\ (\A i \in 1 .. Len(s) : i # n => s[i] \in P) /\ (\A k \in 1 .. Len(t) : t[k] \in P) => \A j \in 1 .. Len(u) : u[j] \in P
           /\ AtMostOne(s, P) /\ (\A k \in 1 .. Len(t) : t[k] \notin P) =>
                AtMostOne(u, P) /\ (n # 0 /\ s[n] \in P => ~OnTheWay(u, P))
<1>0. Len(s) \in Nat /\ Len(t) \in Nat
  OBVIOUS
<1>1. CASE n = 0 /\ u = s \o t
  <2>1. /\ LastSent(s, P, Q) /\ (\A k \in 1 .. Len(t) : t[k] \notin Q) => LastSent(u, P, Q)
        /\ LastSent(t, P, Q) => LastSent(u, P, Q)
        /\ OnTheWay(s, P) => OnTheWay(u, P)
        /\ \A j \in 1 .. Len(u) : (\E i \in 1 .. Len(s) : u[j] = s[i]) \/ (\E k \in 1 .. Len(t) : u[j] = t[k])
    BY <1>1, AddedLast
  <2>2. OnTheWay(t, P) => OnTheWay(u, P)
    <3>1. OnTheWay(t, P) => LastSent(t, P, {})
      BY DEF LastSent, OnTheWay
    <3>2. LastSent(t, P, {}) => LastSent(u, P, {})
      BY <1>1, AddedLast
    <3>3. LastSent(u, P, {}) => OnTheWay(u, P)
      BY DEF LastSent, OnTheWay
    <3> QED
      BY <3>1, <3>2, <3>3
  <2>3. AtMostOne(s, P) /\ (\A k \in 1 .. Len(t) : t[k] \notin P) => AtMostOne(u, P)
    BY <1>1, AddedOne
  <2>4. \A i \in 1 .. Len(s) : i # n
    BY <1>0, <1>1
  <2>5. (\A i \in 1 .. Len(s) : i # n => s[i] \notin P) /\ (\A k \in 1 .. Len(t) : t[k] \notin P) => ~OnTheWay(u, P)
    BY <2>1, <2>4 DEF OnTheWay
  <2>6. ~OnTheWay(s, P) /\ ~OnTheWay(t, P) => ~OnTheWay(u, P)
    BY <2>1 DEF OnTheWay
  <2>7. (\A i \in 1 .. Len(s) : i # n => s[i] \in P) /\ (\A k \in 1 .. Len(t) : t[k] \in P) => \A j \in 1 .. Len(u) : u[j] \in P
    BY <2>1, <2>4
  <2> QED
    BY <1>1, <2>1, <2>2, <2>3, <2>5, <2>6, <2>7
<1>2. CASE n \in 1 .. Len(s) /\ Taken(u, s, n, t)
  <2>0. n # 0
    BY <1>0, <1>2
  <2>1. s[n] \notin P /\ LastSent(s, P, Q) /\ (\A k \in 1 .. Len(t) : t[k] \notin Q) => LastSent(u, P, Q)
    BY <1>2, TakenLast
  <2>2. s[n] \notin P /\ OnTheWay(s, P) => OnTheWay(u, P)
    BY <1>2, TakenHolds
  <2>3. LastSent(t, P, Q) => LastSent(u, P, Q)
    BY <1>2, TakenSends
  <2>4. OnTheWay(t, P) => OnTheWay(u, P)
    <3>1. OnTheWay(t, P) => LastSent(t, P, {})
      BY DEF LastSent, OnTheWay
    <3>2. LastSent(t, P, {}) => LastSent(u, P, {})
      BY <1>2, TakenSends
    <3>3. LastSent(u, P, {}) => OnTheWay(u, P)
      BY DEF LastSent, OnTheWay
    <3> QED
      BY <3>1, <3>2, <3>3
  <2>5. \A j \in 1 .. Len(u) : (\E i \in 1 .. Len(s) \ {n} : u[j] = s[i]) \/ (\E k \in 1 .. Len(t) : u[j] = t[k])
    BY <1>2, TakenFrom
  <2>6. (\A i \in 1 .. Len(s) : i # n => s[i] \notin P) /\ (\A k \in 1 .. Len(t) : t[k] \notin P) => ~OnTheWay(u, P)
    BY <2>5 DEF OnTheWay
  <2>7. ~OnTheWay(s, P) /\ ~OnTheWay(t, P) => ~OnTheWay(u, P)
    BY <2>5 DEF OnTheWay
  <2>8. (\A i \in 1 .. Len(s) : i # n => s[i] \in P) /\ (\A k \in 1 .. Len(t) : t[k] \in P) => \A j \in 1 .. Len(u) : u[j] \in P
    BY <2>5
  <2>9. AtMostOne(s, P) /\ (\A k \in 1 .. Len(t) : t[k] \notin P) =>
          AtMostOne(u, P) /\ (s[n] \in P => ~OnTheWay(u, P))
    BY <1>2, TakenOne
  <2> QED
    BY <2>0, <2>1, <2>2, <2>3, <2>4, <2>6, <2>7, <2>8, <2>9
<1> QED
  BY <1>1, <1>2 DEF Moved

LEMMA MovedAll ==
    ASSUME NEW S, NEW s \in Seq(S), NEW t \in Seq(S), NEW u \in Seq(S), NEW n, Moved(u, s, n, t),
           NEW P, \A i \in 1 .. Len(s) : i # n => s[i] \in P, \A k \in 1 .. Len(t) : t[k] \in P
    PROVE  \A j \in 1 .. Len(u) : u[j] \in P
BY MovedKeeps

LEMMA MovedHolds ==
    ASSUME NEW S, NEW s \in Seq(S), NEW t \in Seq(S), NEW u \in Seq(S), NEW n, Moved(u, s, n, t),
           NEW P, n # 0 => s[n] \notin P
    PROVE  OnTheWay(s, P) => OnTheWay(u, P)
BY MovedKeeps

LEMMA OneSent ==
    ASSUME NEW c, NEW P, NEW Q
    PROVE  /\ Len(<<c>>) = 1 /\ \A k \in 1 .. Len(<<c>>) : <<c>>[k] = c
           /\ c \in P => LastSent(<<c>>, P, Q) /\ OnTheWay(<<c>>, P)
           /\ c \notin P => ~OnTheWay(<<c>>, P)
           /\ \A k \in 1 .. Len(<<>>) : FALSE
           /\ ~OnTheWay(<<>>, P)
BY DEF LastSent, OnTheWay

(* The first of Q is answered: the last is still on its way, or was it.    *)
LEMMA FirstTaken ==
    ASSUME NEW S, NEW s \in Seq(S), NEW t \in Seq(S), NEW u \in Seq(S), NEW n \in 1 .. Len(s), Taken(u, s, n, t),
           NEW P, NEW Q, P \subseteq Q, LastSent(s, P, Q), \A k \in 1 .. Len(t) : t[k] \notin Q,
           \A m \in 1 .. n - 1 : s[m] \notin Q
    PROVE  LastSent(u, P, Q) \/ (s[n] \in P /\ ~OnTheWay(u, Q))
<1>1. PICK i \in 1 .. Len(s) : s[i] \in P /\ \A j \in i + 1 .. Len(s) : s[j] \notin Q
  BY DEF LastSent
<1>2. CASE i # n
  <2>1. i \in 1 .. Len(s) \ {n}
    BY <1>2
  <2> QED
    BY <1>1, <2>1, TakenOther
<1>3. CASE i = n
  <2>1. Len(s) \in Nat
    OBVIOUS
  <2>2. \A j \in 1 .. Len(s) \ {n} : s[j] \notin Q
    <3> TAKE j \in 1 .. Len(s) \ {n}
    <3>1. j \in 1 .. n - 1 \/ j \in n + 1 .. Len(s)
      BY <2>1
    <3> QED
      BY <1>1, <1>3, <3>1
  <2>3. ~OnTheWay(u, Q)
    BY <2>2, TakenNone
  <2> QED
    BY <1>1, <1>3, <2>3
<1> QED
  BY <1>2, <1>3

LEMMA TwoSent ==
    ASSUME NEW c, NEW d, NEW P, NEW Q
    PROVE  /\ Len(<<c, d>>) = 2 /\ \A k \in 1 .. Len(<<c, d>>) : <<c, d>>[k] = c \/ <<c, d>>[k] = d
           /\ c \in P /\ d \notin Q => LastSent(<<c, d>>, P, Q)
           /\ d \in P => LastSent(<<c, d>>, P, Q)
           /\ c \in P \/ d \in P => OnTheWay(<<c, d>>, P)
           /\ c \notin P /\ d \notin P => ~OnTheWay(<<c, d>>, P)
<1> DEFINE t == <<c, d>>
<1>1. Len(t) = 2 /\ t[1] = c /\ t[2] = d
  OBVIOUS
<1> HIDE DEF t
<1>2. \A k \in 1 .. Len(t) : k = 1 \/ k = 2
  BY <1>1
<1>3. 1 \in 1 .. Len(t) /\ 2 \in 1 .. Len(t)
  BY <1>1
<1>4. ASSUME c \in P, d \notin Q
      PROVE  LastSent(t, P, Q)
  <2>1. \A j \in 1 + 1 .. Len(t) : t[j] \notin Q
    BY <1>1, <1>4
  <2> QED
    BY <1>1, <1>3, <1>4, <2>1 DEF LastSent
<1>5. ASSUME d \in P
      PROVE  LastSent(t, P, Q)
  <2>1. \A j \in 2 + 1 .. Len(t) : t[j] \notin Q
    BY <1>1
  <2> QED
    BY <1>1, <1>3, <1>5, <2>1 DEF LastSent
<1>6. \A k \in 1 .. Len(t) : t[k] = c \/ t[k] = d
  BY <1>1, <1>2
<1>7. (c \in P \/ d \in P => OnTheWay(t, P)) /\ (c \notin P /\ d \notin P => ~OnTheWay(t, P))
  BY <1>1, <1>3, <1>6 DEF OnTheWay
<1> QED
  BY <1>1, <1>4, <1>5, <1>6, <1>7 DEF t

(* The request at n is written: the server has answered it.                *)
LEMMA WrittenKeeps ==
    ASSUME NEW S, NEW s \in Seq(S), NEW n \in 1 .. Len(s), NEW c \in S, NEW P, NEW Q
    PROVE  /\ [s EXCEPT ![n] = c] \in Seq(S) /\ Len([s EXCEPT ![n] = c]) = Len(s)
           /\ OnTheWay(s, P) /\ (s[n] \in P => c \in P) => OnTheWay([s EXCEPT ![n] = c], P)
           /\ c \in P => OnTheWay([s EXCEPT ![n] = c], P)
           /\ ~OnTheWay(s, P) /\ c \notin P => ~OnTheWay([s EXCEPT ![n] = c], P)
           /\ (\A i \in 1 .. Len(s) : s[i] \in P) /\ c \in P => \A i \in 1 .. Len(s) : [s EXCEPT ![n] = c][i] \in P
           /\ LastSent(s, P, Q) /\ (s[n] \in P => c \in P) /\ (c \in Q => s[n] \in Q) =>
                LastSent([s EXCEPT ![n] = c], P, Q)
           /\ AtMostOne(s, P) /\ (c \in P => s[n] \in P) => AtMostOne([s EXCEPT ![n] = c], P)
<1> DEFINE u == [s EXCEPT ![n] = c]
<1>1. u \in Seq(S) /\ Len(u) = Len(s) /\ u[n] = c /\ \A i \in 1 .. Len(s) \ {n} : u[i] = s[i]
  BY ExceptSeq
<1>2. LastSent(s, P, Q) /\ (s[n] \in P => c \in P) /\ (c \in Q => s[n] \in Q) => LastSent(u, P, Q)
  BY WrittenLast
<1>3. AtMostOne(s, P) /\ (c \in P => s[n] \in P) => AtMostOne(u, P)
  BY WrittenOne
<1> HIDE DEF u
<1>4. OnTheWay(s, P) /\ (s[n] \in P => c \in P) => OnTheWay(u, P)
  BY <1>1 DEF OnTheWay
<1>5. c \in P => OnTheWay(u, P)
  BY <1>1 DEF OnTheWay
<1>6. ~OnTheWay(s, P) /\ c \notin P => ~OnTheWay(u, P)
  BY <1>1 DEF OnTheWay
<1>7. (\A i \in 1 .. Len(s) : s[i] \in P) /\ c \in P => \A i \in 1 .. Len(s) : u[i] \in P
  BY <1>1
<1> QED
  BY <1>1, <1>2, <1>3, <1>4, <1>5, <1>6, <1>7 DEF u

Written(u, s, n, c) == Len(u) = Len(s) /\ u[n] = c /\ \A i \in 1 .. Len(s) \ {n} : u[i] = s[i]

LEMMA WrittenIs ==
    ASSUME NEW S, NEW s \in Seq(S), NEW n \in 1 .. Len(s), NEW c \in S
    PROVE  [s EXCEPT ![n] = c] \in Seq(S) /\ Written([s EXCEPT ![n] = c], s, n, c)
BY ExceptSeq DEF Written

LEMMA WrittenHolds ==
    ASSUME NEW S, NEW s \in Seq(S), NEW n \in 1 .. Len(s), NEW c \in S, NEW u \in Seq(S), Written(u, s, n, c), NEW P
    PROVE  /\ OnTheWay(s, P) /\ (s[n] \in P => c \in P) => OnTheWay(u, P)
           /\ c \in P => OnTheWay(u, P)
           /\ ~OnTheWay(s, P) /\ c \notin P => ~OnTheWay(u, P)
           /\ (\A i \in 1 .. Len(s) : s[i] \in P) /\ c \in P => \A i \in 1 .. Len(u) : u[i] \in P
BY DEF Written, OnTheWay

LEMMA WrittenSent ==
    ASSUME NEW S, NEW s \in Seq(S), NEW n \in 1 .. Len(s), NEW c \in S, NEW u \in Seq(S), Written(u, s, n, c),
           NEW P, NEW Q, LastSent(s, P, Q), s[n] \in P => c \in P, c \in Q => s[n] \in Q
    PROVE  LastSent(u, P, Q)
<1>1. PICK i \in 1 .. Len(s) : s[i] \in P /\ \A j \in i + 1 .. Len(s) : s[j] \notin Q
  BY DEF LastSent
<1>2. u[i] \in P /\ i \in 1 .. Len(u) /\ Len(u) = Len(s)
  BY <1>1 DEF Written
<1>3. ASSUME NEW j \in i + 1 .. Len(u)
      PROVE  u[j] \notin Q
  <2>1. j \in 1 .. Len(s) /\ s[j] \notin Q
    BY <1>1, <1>2
  <2>2. j = n \/ u[j] = s[j]
    BY <2>1 DEF Written
  <2> QED
    BY <2>1, <2>2 DEF Written
<1> QED
  BY <1>2, <1>3 DEF LastSent

-----------------------------------------------------------------------------
(***************************************************************************)
(* The list of leads                                                       *)
(***************************************************************************)
ListRows == [leads : SUBSET ListLead, inGroup : SUBSET (ListGroup \X ListLead)]
AnyGroup == ListGroup \cup {All}
Aim == BOOLEAN \X AnyGroup
Tally == UNION {[groups -> {Cardinality(some) : some \in SUBSET ListLead}] : groups \in SUBSET ListGroup}
GroupsCall == [what : {"groups"}, done : BOOLEAN, read : Tally, then : SUBSET Aim]
LeadsCall == [what : {"leads"}, done : BOOLEAN, read : ListRows, q : BOOLEAN, g : AnyGroup]
ChangeCall == [what : {"add", "remove", "delete"}, done : BOOLEAN, ok : BOOLEAN, leads : SUBSET ListLead,
               groups : SUBSET ListGroup, then : (SUBSET Aim) \ {{}}]
CampaignCall == [what : {"campaign"}, done : BOOLEAN, ok : {TRUE}, leads : SUBSET ListLead,
                 groups : SUBSET ListGroup, then : (SUBSET Aim) \ {{}}]
GroupCall == [what : {"newgroup"}, done : BOOLEAN, ok : {TRUE}, leads : {{}}, groups : {{}}, then : {{}}]
CreateCall == [what : {"create"}, done : BOOLEAN, ok : BOOLEAN, lead : ListLead, below : ListRows,
               above : SUBSET ListLead, then : {{}}]
Call == GroupsCall \cup LeadsCall \cup ChangeCall \cup CampaignCall \cup GroupCall \cup CreateCall

(* The groups a request names or tells of are there.                       *)
Sound == {c \in Call : /\ c.what = "groups" => DOMAIN c.read \subseteq base.groups
                       /\ c.what = "add" => c.groups \subseteq base.groups}
ListTypes ==
  /\ base \in [leads : SUBSET ListLead, groups : SUBSET ListGroup, inGroup : SUBSET (ListGroup \X ListLead)]
  /\ base.inGroup \subseteq base.groups \X base.leads
  /\ listing \in ListRows /\ sidebar \in Tally /\ DOMAIN sidebar \subseteq base.groups
  /\ group \in AnyGroup /\ query \in BOOLEAN /\ ticked \subseteq ListLead /\ loadingRows \in BOOLEAN
  /\ form \in {"open", "closed"} /\ onTop \subseteq ListLead /\ sought \in BOOLEAN /\ crossed \in BOOLEAN
  /\ calls \in Seq(Sound)

LEMMA CallKinds ==
    ASSUME NEW c \in Call
    PROVE  /\ c.what = "groups" <=> c \in GroupsCall
           /\ c.what = "leads" <=> c \in LeadsCall
           /\ c.what \in {"add", "remove", "delete"} <=> c \in ChangeCall
           /\ c.what = "campaign" <=> c \in CampaignCall
           /\ c.what = "newgroup" <=> c \in GroupCall
           /\ c.what = "create" <=> c \in CreateCall
           /\ c.what \in {"groups", "leads", "add", "remove", "delete", "campaign", "newgroup", "create"}
<1>1. c \in GroupsCall => c.what = "groups"
  BY DEF GroupsCall
<1>2. c \in LeadsCall => c.what = "leads"
  BY DEF LeadsCall
<1>3. c \in ChangeCall => c.what \in {"add", "remove", "delete"}
  BY DEF ChangeCall
<1>4. c \in CampaignCall => c.what = "campaign"
  BY DEF CampaignCall
<1>5. c \in GroupCall => c.what = "newgroup"
  BY DEF GroupCall
<1>6. c \in CreateCall => c.what = "create"
  BY DEF CreateCall
<1>7. c \in GroupsCall \cup LeadsCall \cup ChangeCall \cup CampaignCall \cup GroupCall \cup CreateCall
  BY DEF Call
<1> QED
  BY <1>1, <1>2, <1>3, <1>4, <1>5, <1>6, <1>7

LEMMA CountsTyped == ASSUME ListTypes PROVE Counts(base) \in Tally /\ DOMAIN Counts(base) = base.groups
<1>1. base.groups \in SUBSET ListGroup
  BY DEF ListTypes
<1>2. \A g \in base.groups : {l \in base.leads : <<g, l>> \in base.inGroup} \in SUBSET ListLead
  BY DEF ListTypes
<1> DEFINE N == {Cardinality(some) : some \in SUBSET ListLead}
<1>3. \A g \in base.groups : Cardinality({l \in base.leads : <<g, l>> \in base.inGroup}) \in N
  BY <1>2
<1> HIDE DEF N
<1>4. Counts(base) \in [base.groups -> N]
  BY <1>3 DEF Counts
<1>5. Counts(base) \in UNION {[groups -> N] : groups \in SUBSET ListGroup}
  BY <1>1, <1>4
<1> QED
  BY <1>4, <1>5 DEF Tally, N

LEMMA MatchingTyped == ASSUME ListTypes, NEW q \in BOOLEAN, NEW g \in AnyGroup PROVE Matching(base, q, g) \in ListRows
BY DEF ListTypes, Matching, ListRows

LEMMA CallsMade ==
    ASSUME NEW then \in SUBSET Aim, NEW q \in BOOLEAN, NEW g \in AnyGroup
    PROVE  Groups(then) \in GroupsCall /\ Leads(q, g) \in LeadsCall /\ Groups(then) \in Call /\ Leads(q, g) \in Call
<1>1. <<>> \in Tally
  <2> DEFINE N == {Cardinality(some) : some \in SUBSET ListLead}
  <2>1. <<>> \in [{} -> N]
    OBVIOUS
  <2> HIDE DEF N
  <2>2. <<>> \in UNION {[groups -> N] : groups \in SUBSET ListGroup}
    BY <2>1
  <2> QED
    BY <2>2 DEF Tally, N
<1>2. Groups(then) \in GroupsCall
  BY <1>1 DEF Groups, GroupsCall
<1>3. Empty \in ListRows
  BY DEF Empty, ListRows
<1>4. Leads(q, g) \in LeadsCall
  BY <1>3 DEF Leads, LeadsCall
<1> QED
  BY <1>2, <1>4 DEF Call

LEMMA BulkMade ==
    ASSUME ListTypes, NEW some \in SUBSET ListLead, NEW groups \in SUBSET ListGroup
    PROVE  /\ \A what \in {"add", "remove", "delete"} : Bulk(what, some, groups) \in ChangeCall /\ Bulk(what, some, groups) \in Call
           /\ Bulk("campaign", some, groups) \in CampaignCall /\ Bulk("campaign", some, groups) \in Call
           /\ [Bulk("newgroup", {}, {}) EXCEPT !.then = {}] \in GroupCall
           /\ [Bulk("newgroup", {}, {}) EXCEPT !.then = {}] \in Call
<1>1. {<<query, group>>} \in (SUBSET Aim) \ {{}}
  BY DEF ListTypes, Aim
<1>2. \A what \in {"add", "remove", "delete"} : Bulk(what, some, groups) \in ChangeCall
  BY <1>1 DEF Bulk, ChangeCall
<1>3. Bulk("campaign", some, groups) \in CampaignCall
  BY <1>1 DEF Bulk, CampaignCall
<1>4. [Bulk("newgroup", {}, {}) EXCEPT !.then = {}] \in GroupCall
  BY DEF Bulk, GroupCall
<1> QED
  BY <1>2, <1>3, <1>4 DEF Call

LEMMA SoundCalls ==
    ASSUME ListTypes
    PROVE  /\ \A i \in 1 .. Len(calls) : calls[i] \in Sound /\ calls[i] \in Call
           /\ calls \in Seq(Call) /\ Len(calls) \in Nat /\ Sound \subseteq Call
           /\ \A then \in SUBSET Aim : Groups(then) \in Sound
           /\ \A q \in BOOLEAN, g \in AnyGroup : Leads(q, g) \in Sound
           /\ LeadsCall \cup ChangeCall \cup CampaignCall \cup GroupCall \cup CreateCall \subseteq Call
<1>1. calls \in Seq(Sound)
  BY DEF ListTypes
<1>2. Sound \subseteq Call
  BY DEF Sound
<1>3. \A i \in 1 .. Len(calls) : calls[i] \in Sound
  BY <1>1
<1>4. calls \in Seq(Call)
  BY <1>1, <1>2
<1>5. ASSUME NEW then \in SUBSET Aim
      PROVE  Groups(then) \in Sound
  <2>1. Groups(then) \in Call
    BY <1>5, CallsMade DEF ListTypes
  <2>2. Groups(then).what = "groups" /\ DOMAIN Groups(then).read = {}
    BY DEF Groups
  <2> QED
    BY <2>1, <2>2 DEF Sound
<1>6. ASSUME NEW q \in BOOLEAN, NEW g \in AnyGroup
      PROVE  Leads(q, g) \in Sound
  <2>1. {} \in SUBSET Aim
    OBVIOUS
  <2>2. Leads(q, g) \in Call
    BY <1>6, <2>1, CallsMade
  <2>3. Leads(q, g).what = "leads"
    BY DEF Leads
  <2> QED
    BY <2>2, <2>3 DEF Sound
<1> QED
  BY <1>1, <1>2, <1>3, <1>4, <1>5, <1>6 DEF Call

(* What an answer makes the page load after it.                            *)
Following(then) == IF then = {} THEN <<>> ELSE LET t == CHOOSE t \in then : TRUE IN <<Leads(t[1], t[2])>>
LEMMA FollowingSound ==
    ASSUME ListTypes, NEW then \in SUBSET Aim
    PROVE  /\ Following(then) \in Seq(Sound)
           /\ then = {} => Following(then) = <<>>
           /\ then # {} => \E t \in then : /\ t = CHOOSE x \in then : TRUE
                                           /\ t[1] \in BOOLEAN /\ t[2] \in AnyGroup
                                           /\ Following(then) = <<Leads(t[1], t[2])>>
<1>1. CASE then = {}
  BY <1>1 DEF Following
<1>2. CASE then # {}
  <2>1. PICK t : t = CHOOSE x \in then : TRUE
    OBVIOUS
  <2>2. t \in then
    BY <1>2, <2>1
  <2>3. t[1] \in BOOLEAN /\ t[2] \in AnyGroup
    BY <2>2 DEF Aim
  <2>4. Following(then) = <<Leads(t[1], t[2])>>
    BY <1>2, <2>1 DEF Following
  <2>5. Leads(t[1], t[2]) \in Sound
    BY <2>3, SoundCalls
  <2>6. Following(then) \in Seq(Sound)
    BY <2>4, <2>5
  <2> QED
    BY <1>2, <2>1, <2>2, <2>3, <2>4, <2>6
<1> QED
  BY <1>1, <1>2

LEMMA ListTypesInit == LeadListInit => ListTypes
<1> SUFFICES ASSUME LeadListInit PROVE ListTypes
  OBVIOUS
<1>1. {} \in SUBSET Aim /\ All \in AnyGroup
  BY DEF AnyGroup
<1>2. Groups({}) \in Call /\ Leads(FALSE, All) \in Call /\ <<>> \in Tally
  <2>1. Groups({}) \in GroupsCall
    BY <1>1, CallsMade
  <2> QED
    BY <1>1, <2>1, CallsMade DEF Groups, GroupsCall
<1>3. Groups({}) \in Sound /\ Leads(FALSE, All) \in Sound
  <2>1. Groups({}).what = "groups" /\ DOMAIN Groups({}).read = {} /\ Leads(FALSE, All).what = "leads"
    BY DEF Groups, Leads
  <2> QED
    BY <1>2, <2>1 DEF Sound
<1>4. calls \in Seq(Sound)
  <2>1. \A a, b \in Sound : <<a, b>> \in Seq(Sound)
    OBVIOUS
  <2>2. calls = <<Groups({}), Leads(FALSE, All)>>
    BY DEF LeadListInit
  <2> QED
    BY ONLY <1>3, <2>1, <2>2
<1>5. Empty \in ListRows
  BY DEF Empty, ListRows
<1>6. sidebar = <<>> /\ sidebar \in Tally /\ DOMAIN sidebar = {}
  BY <1>2 DEF LeadListInit
<1>7. /\ base \in [leads : SUBSET ListLead, groups : SUBSET ListGroup, inGroup : SUBSET (ListGroup \X ListLead)]
      /\ base.inGroup \subseteq base.groups \X base.leads
  BY ListAssumption DEF LeadListInit
<1>8. /\ group = All /\ query = FALSE /\ ticked = {} /\ loadingRows = TRUE /\ form = "closed"
      /\ onTop = {} /\ sought = FALSE /\ crossed = FALSE /\ listing = Empty
  BY DEF LeadListInit
<1> QED
  BY <1>1, <1>4, <1>5, <1>6, <1>7, <1>8 DEF ListTypes

(* An action that changes nothing in the database and sends or takes       *)
(* requests the page can send.                                             *)
LEMMA TypesKept ==
    ASSUME ListTypes, UNCHANGED base, calls' \in Seq(Sound),
           listing' \in ListRows, sidebar' \in Tally, DOMAIN sidebar' \subseteq base.groups,
           group' \in AnyGroup, query' \in BOOLEAN, ticked' \subseteq ListLead, loadingRows' \in BOOLEAN,
           form' \in {"open", "closed"}, onTop' \subseteq ListLead, sought' \in BOOLEAN, crossed' \in BOOLEAN
    PROVE  ListTypes'
<1>1. Sound' = Sound
  BY DEF Sound
<1> QED
  BY <1>1 DEF ListTypes

LEMMA SentTyped ==
    ASSUME ListTypes,
           \/ TypeQuery \/ handleSearchSubmit \/ handleToggleSelectAll \/ DeselectAll
           \/ handleCreateGroup \/ OpenForm \/ CloseForm
           \/ \E g \in ListGroup \cup {All} : SelectGroup(g)
           \/ \E l \in ListLead : handleToggleSelectLead(l)
    PROVE  ListTypes'
<1>1. CASE TypeQuery
  BY <1>1, TypesKept DEF TypeQuery, ListTypes
<1>2. CASE handleSearchSubmit
  <2>1. Leads(query, group) \in Sound
    BY SoundCalls DEF ListTypes
  <2>2. calls' \in Seq(Sound)
    BY <1>2, <2>1 DEF handleSearchSubmit, Issue, ListTypes
  <2> QED
    BY <1>2, <2>2, TypesKept DEF handleSearchSubmit, asking, ListTypes
<1>3. CASE handleToggleSelectAll
  BY <1>3, TypesKept DEF handleToggleSelectAll, ListTypes, ListRows
<1>4. CASE DeselectAll
  BY <1>4, TypesKept DEF DeselectAll, ListTypes
<1>5. CASE handleCreateGroup
  <2> DEFINE c == [Bulk("newgroup", {}, {}) EXCEPT !.then = {}]
  <2>1. c \in GroupCall
    BY BulkMade
  <2> HIDE DEF c
  <2>2. c \in Sound
    BY <2>1, CallKinds DEF Sound, GroupCall, Call
  <2>3. calls' \in Seq(Sound)
    BY <1>5, <2>2 DEF handleCreateGroup, Issue, ListTypes, c
  <2> QED
    BY <1>5, <2>3, TypesKept DEF handleCreateGroup, asking, ListTypes
<1>6. CASE OpenForm
  BY <1>6, TypesKept DEF OpenForm, ListTypes
<1>7. CASE CloseForm
  BY <1>7, TypesKept DEF CloseForm, ListTypes
<1>8. ASSUME NEW g \in ListGroup \cup {All}, SelectGroup(g)
      PROVE  ListTypes'
  <2>1. Groups({}) \in Sound /\ Leads(query, g) \in Sound
    BY SoundCalls DEF ListTypes, AnyGroup
  <2>2. <<Groups({}), Leads(query, g)>> \in Seq(Sound)
    BY <2>1
  <2>3. calls' \in Seq(Sound)
    BY <1>8, <2>2, ConcatProperties DEF SelectGroup, ListTypes
  <2>4. crossed' \in BOOLEAN
    BY <1>8 DEF SelectGroup, ListTypes
  <2> QED
    BY <1>8, <2>3, <2>4, TypesKept DEF SelectGroup, ListTypes, AnyGroup
<1>9. ASSUME NEW l \in ListLead, handleToggleSelectLead(l)
      PROVE  ListTypes'
  BY <1>9, TypesKept DEF handleToggleSelectLead, ListTypes
<1> QED
  BY <1>1, <1>2, <1>3, <1>4, <1>5, <1>6, <1>7, <1>8, <1>9

LEMMA PressEffect ==
    ASSUME ListTypes,
           \/ handleRemoveLeadsFromGroup \/ handleBulkDelete \/ handleBulkAddLeadsToCampaign
           \/ \E groups \in SUBSET ListGroup : handleBulkAddLeadsToGroups(groups)
    PROVE  /\ ListTypes' /\ UNCHANGED <<base, listing, sidebar, group, onTop, sought>>
           /\ crossed' = (crossed \/ Pending("create"))
           /\ \E c \in Sound : /\ c \in ChangeCall \cup CampaignCall /\ ~c.done /\ c.then = {<<query, group>>}
                               /\ calls' = Append(calls, c)
                               /\ loadingRows' => loadingRows \/ c \in CampaignCall
<1>1. ASSUME NEW c \in Call, c \in ChangeCall \cup CampaignCall, ~c.done, c.then = {<<query, group>>}, Press(c),
             c.what = "add" => c.groups \subseteq base.groups,
             loadingRows' \in BOOLEAN, loadingRows' => loadingRows \/ c \in CampaignCall
      PROVE  /\ ListTypes' /\ UNCHANGED <<base, listing, sidebar, group, onTop, sought>>
             /\ crossed' = (crossed \/ Pending("create"))
             /\ \E d \in Sound : /\ d \in ChangeCall \cup CampaignCall /\ ~d.done /\ d.then = {<<query, group>>}
                                 /\ calls' = Append(calls, d)
                                 /\ loadingRows' => loadingRows \/ d \in CampaignCall
  <2>1. c.what # "groups"
    BY <1>1 DEF ChangeCall, CampaignCall
  <2>2. c \in Sound
    BY <1>1, <2>1 DEF Sound
  <2>3. calls' = Append(calls, c) /\ UNCHANGED <<base, listing, sidebar, group, query, ticked, form, onTop, sought>>
    BY <1>1 DEF Press, Issue, asking
  <2>4. crossed' = (crossed \/ Pending("create"))
    BY <1>1 DEF Press
  <2>5. calls' \in Seq(Sound)
    BY <2>2, <2>3 DEF ListTypes
  <2>6. crossed' \in BOOLEAN
    BY <2>4 DEF ListTypes
  <2>7. ListTypes'
    BY <1>1, <2>3, <2>5, <2>6, TypesKept DEF ListTypes
  <2> QED
    BY <1>1, <2>2, <2>3, <2>4, <2>7
<1>2. ASSUME NEW what \in {"add", "remove", "delete", "campaign"}, NEW groups \in SUBSET ListGroup
      PROVE  /\ Bulk(what, ticked, groups) \in Call /\ Bulk(what, ticked, groups) \in ChangeCall \cup CampaignCall
             /\ ~Bulk(what, ticked, groups).done /\ Bulk(what, ticked, groups).then = {<<query, group>>}
             /\ Bulk(what, ticked, groups).what = what /\ Bulk(what, ticked, groups).groups = groups
             /\ what = "campaign" => Bulk(what, ticked, groups) \in CampaignCall
  <2>1. ticked \in SUBSET ListLead
    BY DEF ListTypes
  <2>2. Bulk(what, ticked, groups) \in Call /\ Bulk(what, ticked, groups) \in ChangeCall \cup CampaignCall
        /\ (what = "campaign" => Bulk(what, ticked, groups) \in CampaignCall)
    BY <2>1, BulkMade
  <2> QED
    BY <2>2 DEF Bulk
<1>3. loadingRows \in BOOLEAN
  BY DEF ListTypes
<1>4. CASE handleRemoveLeadsFromGroup
  <2> DEFINE c == Bulk("remove", ticked, {group})
  <2>1. {group} \in SUBSET ListGroup
    BY <1>4 DEF handleRemoveLeadsFromGroup, ListTypes, AnyGroup
  <2>2. /\ c \in Call /\ c \in ChangeCall \cup CampaignCall /\ ~c.done /\ c.then = {<<query, group>>} /\ c.what = "remove"
    BY <1>2, <2>1
  <2>3. Press(c) /\ UNCHANGED loadingRows
    BY <1>4 DEF handleRemoveLeadsFromGroup
  <2> HIDE DEF c
  <2> QED
    BY <1>1, <1>3, <2>2, <2>3
<1>5. CASE handleBulkDelete
  <2> DEFINE c == Bulk("delete", ticked, {})
  <2>2. /\ c \in Call /\ c \in ChangeCall \cup CampaignCall /\ ~c.done /\ c.then = {<<query, group>>} /\ c.what = "delete"
    BY <1>2
  <2>3. Press(c) /\ UNCHANGED loadingRows
    BY <1>5 DEF handleBulkDelete
  <2> HIDE DEF c
  <2> QED
    BY <1>1, <1>3, <2>2, <2>3
<1>6. CASE handleBulkAddLeadsToCampaign
  <2> DEFINE c == Bulk("campaign", ticked, {})
  <2>2. /\ c \in Call /\ c \in ChangeCall \cup CampaignCall /\ ~c.done /\ c.then = {<<query, group>>} /\ c.what = "campaign"
        /\ c \in CampaignCall
    BY <1>2
  <2>3. Press(c) /\ loadingRows' = TRUE
    BY <1>6 DEF handleBulkAddLeadsToCampaign
  <2> HIDE DEF c
  <2> QED
    BY <1>1, <1>3, <2>2, <2>3
<1>7. ASSUME NEW groups \in SUBSET ListGroup, handleBulkAddLeadsToGroups(groups)
      PROVE  /\ ListTypes' /\ UNCHANGED <<base, listing, sidebar, group, onTop, sought>>
             /\ crossed' = (crossed \/ Pending("create"))
             /\ \E d \in Sound : /\ d \in ChangeCall \cup CampaignCall /\ ~d.done /\ d.then = {<<query, group>>}
                                 /\ calls' = Append(calls, d)
                                 /\ loadingRows' => loadingRows \/ d \in CampaignCall
  <2> DEFINE c == Bulk("add", ticked, groups)
  <2>2. /\ c \in Call /\ c \in ChangeCall \cup CampaignCall /\ ~c.done /\ c.then = {<<query, group>>} /\ c.what = "add"
        /\ c.groups = groups
    BY <1>2
  <2>3. Press(c) /\ UNCHANGED loadingRows /\ groups \subseteq base.groups
    BY <1>7 DEF handleBulkAddLeadsToGroups, ListTypes
  <2> HIDE DEF c
  <2> QED
    BY <1>1, <1>3, <2>2, <2>3
<1> QED
  BY <1>4, <1>5, <1>6, <1>7

LEMMA CreateLeadEffect ==
    ASSUME ListTypes, NEW l \in ListLead, handleCreateLead(l)
    PROVE  /\ ListTypes' /\ UNCHANGED <<base, listing, sidebar, group, onTop, sought, loadingRows>>
           /\ crossed' = (crossed \/ Pending("leads") \/ StaleToCome) /\ ~Pending("create")
           /\ \E c \in Sound : /\ c \in CreateCall /\ ~c.done /\ c.below = listing /\ c.above = onTop
                               /\ calls' = Append(calls, c)
<1> DEFINE c == [what |-> "create", done |-> FALSE, ok |-> TRUE, lead |-> l, below |-> listing, above |-> onTop, then |-> {}]
<1>1. c \in CreateCall /\ c.what = "create" /\ ~c.done /\ c.below = listing /\ c.above = onTop
  BY DEF CreateCall, ListTypes
<1>2. calls' = Append(calls, c) /\ UNCHANGED <<base, listing, sidebar, group, query, ticked, form, onTop, sought, loadingRows>>
  BY DEF handleCreateLead, Issue, asking
<1> HIDE DEF c
<1>3. c \in Sound
  BY <1>1, SoundCalls DEF Sound
<1>4. crossed' = (crossed \/ Pending("leads") \/ StaleToCome) /\ ~Pending("create")
  BY DEF handleCreateLead
<1>5. calls' \in Seq(Sound) /\ crossed' \in BOOLEAN
  BY <1>2, <1>3, <1>4 DEF ListTypes
<1>6. ListTypes'
  BY <1>2, <1>5, TypesKept DEF ListTypes
<1> QED
  BY <1>1, <1>2, <1>3, <1>4, <1>6

(* A request is answered by the server: the data it reads, or its effect.  *)
LEMMA DoneCall ==
    ASSUME NEW c \in Call
    PROVE  LET d == [c EXCEPT !.done = TRUE] IN
           /\ d \in Call /\ d.done /\ d.what = c.what /\ (c.what # "leads" => d.then = c.then)
           /\ (c.what \notin {"groups", "leads"} => d.ok = c.ok)
           /\ (c \in CreateCall => d.lead = c.lead /\ d.below = c.below /\ d.above = c.above)
           /\ (c \in ChangeCall => d.leads = c.leads /\ d.groups = c.groups)
<1> DEFINE d == [c EXCEPT !.done = TRUE]
<1>1. CASE c \in GroupsCall
  <2>1. d \in GroupsCall /\ d.done /\ d.what = c.what /\ d.then = c.then /\ c.what = "groups"
    BY <1>1 DEF GroupsCall
  <2> QED
    BY <2>1, CallKinds DEF Call
<1>2. CASE c \in LeadsCall
  <2>1. d \in LeadsCall /\ d.done /\ d.what = c.what /\ c.what = "leads"
    BY <1>2 DEF LeadsCall
  <2> QED
    BY <2>1, CallKinds DEF Call
<1>3. CASE c \in ChangeCall
  <2>1. d \in ChangeCall /\ d.done /\ d.what = c.what /\ d.then = c.then /\ d.ok = c.ok /\ d.leads = c.leads /\ d.groups = c.groups
        /\ c.what # "create"
    BY <1>3 DEF ChangeCall
  <2> QED
    BY <2>1, CallKinds DEF Call
<1>4. CASE c \in CampaignCall
  <2>1. d \in CampaignCall /\ d.done /\ d.what = c.what /\ d.then = c.then /\ d.ok = c.ok /\ c.what = "campaign"
    BY <1>4 DEF CampaignCall
  <2> QED
    BY <2>1, CallKinds DEF Call
<1>5. CASE c \in GroupCall
  <2>1. d \in GroupCall /\ d.done /\ d.what = c.what /\ d.then = c.then /\ d.ok = c.ok /\ c.what = "newgroup"
    BY <1>5 DEF GroupCall
  <2> QED
    BY <2>1, CallKinds DEF Call
<1>6. CASE c \in CreateCall
  <2>1. /\ d \in CreateCall /\ d.done /\ d.what = c.what /\ d.then = c.then /\ d.ok = c.ok /\ c.what = "create"
        /\ d.lead = c.lead /\ d.below = c.below /\ d.above = c.above
    BY <1>6 DEF CreateCall
  <2> QED
    BY <2>1, CallKinds DEF Call
<1> QED
  BY <1>1, <1>2, <1>3, <1>4, <1>5, <1>6 DEF Call

LEMMA ReadEffect ==
    ASSUME ListTypes, NEW n \in 1 .. Len(calls), ReadCall(n)
    PROVE  /\ ListTypes' /\ UNCHANGED <<base, listing, sidebar, group, onTop, sought, crossed, loadingRows>>
           /\ \E d \in Sound :
                /\ calls' = [calls EXCEPT ![n] = d] /\ d.what = calls[n].what /\ ~calls[n].done
                /\ \/ calls[n] \in GroupsCall /\ d \in GroupsCall /\ d.then = calls[n].then /\ d.read = Counts(base)
                   \/ /\ calls[n] \in LeadsCall /\ d \in LeadsCall /\ d.q = calls[n].q /\ d.g = calls[n].g
                      /\ d.read = Matching(base, d.q, d.g)
<1> DEFINE c == calls[n]
<1>1. c \in Call /\ c \in Sound
  BY SoundCalls
<1>2. UNCHANGED <<base, listing, sidebar, group, query, ticked, form, onTop, sought, crossed, loadingRows>>
  BY DEF ReadCall, asking
<1>3. ASSUME NEW d \in Sound, calls' = [calls EXCEPT ![n] = d]
      PROVE  ListTypes'
  <2>1. calls' \in Seq(Sound)
    BY <1>3 DEF ListTypes
  <2> QED
    BY <1>2, <2>1, TypesKept DEF ListTypes
<1>4. CASE c.what = "groups"
  <2> DEFINE e == [c EXCEPT !.read = Counts(base)]
             d == [e EXCEPT !.done = TRUE]
  <2>1. calls' = [calls EXCEPT ![n] = d] /\ ~c.done
    BY <1>4 DEF ReadCall, Done
  <2>2. c \in GroupsCall
    BY <1>1, <1>4, CallKinds
  <2>3. d \in GroupsCall /\ d.then = c.then /\ d.read = Counts(base) /\ d.what = "groups"
    BY <2>2, CountsTyped DEF GroupsCall
  <2> HIDE DEF d
  <2>4. d \in Sound
    BY <2>3, CountsTyped DEF Sound, Call
  <2> QED
    BY <1>2, <1>3, <1>4, <2>1, <2>2, <2>3, <2>4
<1>5. CASE c.what = "leads"
  <2> DEFINE e == [c EXCEPT !.read = Matching(base, c.q, c.g)]
             d == [e EXCEPT !.done = TRUE]
  <2>1. calls' = [calls EXCEPT ![n] = d] /\ ~c.done
    BY <1>5 DEF ReadCall, Done
  <2>2. c \in LeadsCall
    BY <1>1, <1>5, CallKinds
  <2>3. Matching(base, c.q, c.g) \in ListRows
    BY <2>2, MatchingTyped DEF LeadsCall
  <2>4. d \in LeadsCall /\ d.q = c.q /\ d.g = c.g /\ d.read = Matching(base, c.q, c.g) /\ d.what = "leads"
    BY <2>2, <2>3 DEF LeadsCall
  <2> HIDE DEF d
  <2>5. d \in Sound
    BY <2>4, SoundCalls DEF Sound, Call
  <2> QED
    BY <1>2, <1>3, <1>5, <2>1, <2>2, <2>4, <2>5
<1> QED
  BY <1>4, <1>5 DEF ReadCall

LEMMA TypesPerformed ==
    ASSUME ListTypes, NEW n \in 1 .. Len(calls), NEW d \in Sound, calls' = [calls EXCEPT ![n] = d],
           base' \in [leads : SUBSET ListLead, groups : SUBSET ListGroup, inGroup : SUBSET (ListGroup \X ListLead)],
           base'.inGroup \subseteq base'.groups \X base'.leads, base.groups \subseteq base'.groups,
           UNCHANGED <<listing, sidebar, asking, loadingRows, onTop, sought, crossed>>
    PROVE  ListTypes'
<1>1. Sound \subseteq Sound'
  BY DEF Sound
<1>2. calls' \in Seq(Sound)
  BY DEF ListTypes
<1>3. calls' \in Seq(Sound')
  BY <1>1, <1>2
<1> QED
  BY <1>3 DEF ListTypes, asking

LEMMA EffectTyped ==
    ASSUME ListTypes, NEW c \in Sound, c \in ChangeCall \cup CampaignCall
    PROVE  /\ Effect(c) \in [leads : SUBSET ListLead, groups : SUBSET ListGroup, inGroup : SUBSET (ListGroup \X ListLead)]
           /\ Effect(c).inGroup \subseteq Effect(c).groups \X Effect(c).leads
           /\ Effect(c).groups = base.groups
           /\ NoneDeleted(c) => Effect(c) = base
           /\ c \in CampaignCall => Effect(c) = base
<1> DEFINE B == [leads : SUBSET ListLead, groups : SUBSET ListGroup, inGroup : SUBSET (ListGroup \X ListLead)]
<1>0. base \in B /\ base.inGroup \subseteq base.groups \X base.leads
  BY DEF ListTypes
<1>1. CASE c.what = "add"
  <2>1. c \in ChangeCall /\ c.groups \subseteq base.groups /\ c.groups \subseteq ListGroup
    BY <1>1 DEF Sound, ChangeCall, CampaignCall
  <2>2. Effect(c) = [base EXCEPT !.inGroup = @ \cup (c.groups \X (c.leads \cap base.leads))]
    BY <1>1 DEF Effect
  <2>3. Effect(c) = [leads |-> base.leads, groups |-> base.groups,
                     inGroup |-> base.inGroup \cup (c.groups \X (c.leads \cap base.leads))]
    BY <1>0, <2>2
  <2>4. ~NoneDeleted(c) /\ c \notin CampaignCall
    BY <1>1 DEF NoneDeleted, CampaignCall
  <2> QED
    BY <1>0, <2>1, <2>3, <2>4
<1>2. CASE c.what = "remove"
  <2>2. Effect(c) = [base EXCEPT !.inGroup = @ \ (c.groups \X c.leads)]
    BY <1>2 DEF Effect
  <2>3. Effect(c) = [leads |-> base.leads, groups |-> base.groups, inGroup |-> base.inGroup \ (c.groups \X c.leads)]
    BY <1>0, <2>2
  <2>4. ~NoneDeleted(c) /\ c \notin CampaignCall
    BY <1>2 DEF NoneDeleted, CampaignCall
  <2> QED
    BY <1>0, <2>3, <2>4
<1>3. CASE c.what = "delete"
  <2>2. Effect(c) = [base EXCEPT !.leads = @ \ c.leads, !.inGroup = {p \in @ : p[2] \notin c.leads}]
    BY <1>3 DEF Effect
  <2>3. Effect(c) = [leads |-> base.leads \ c.leads, groups |-> base.groups,
                     inGroup |-> {p \in base.inGroup : p[2] \notin c.leads}]
    BY <1>0, <2>2
  <2>4. c \notin CampaignCall
    BY <1>3 DEF CampaignCall
  <2>5. {p \in base.inGroup : p[2] \notin c.leads} \subseteq base.groups \X (base.leads \ c.leads)
    BY <1>0
  <2>6. ASSUME NoneDeleted(c)
        PROVE  Effect(c) = base
    <3>1. base.leads \ c.leads = base.leads
      BY <2>6 DEF NoneDeleted
    <3>2. {p \in base.inGroup : p[2] \notin c.leads} = base.inGroup
      BY <1>0, <2>6 DEF NoneDeleted
    <3>3. base = [leads |-> base.leads, groups |-> base.groups, inGroup |-> base.inGroup]
      BY <1>0
    <3> QED
      BY <2>3, <3>1, <3>2, <3>3
  <2>7. {p \in base.inGroup : p[2] \notin c.leads} \subseteq ListGroup \X ListLead
    BY <1>0
  <2> QED
    BY <1>0, <2>3, <2>4, <2>5, <2>6, <2>7
<1>4. CASE c.what = "campaign"
  <2>1. Effect(c) = base
    BY <1>4 DEF Effect
  <2> QED
    BY <1>0, <2>1
<1> QED
  BY <1>1, <1>2, <1>3, <1>4 DEF ChangeCall, CampaignCall

LEMMA PerformEffect ==
    ASSUME ListTypes, NEW n \in 1 .. Len(calls), PerformCall(n)
    PROVE  /\ ListTypes' /\ UNCHANGED <<listing, sidebar, group, onTop, sought, crossed, loadingRows>>
           /\ \E d \in Sound :
                /\ calls' = [calls EXCEPT ![n] = d] /\ d.what = calls[n].what /\ ~calls[n].done /\ d.done
                /\ d.then = calls[n].then
                /\ \/ /\ calls[n] \in ChangeCall \cup CampaignCall
                      /\ ~d.ok => UNCHANGED base
                      /\ calls[n] \in CampaignCall => d.ok /\ UNCHANGED base
                   \/ /\ calls[n] \in GroupCall /\ d.ok
                      /\ base'.leads = base.leads /\ base'.inGroup = base.inGroup
                   \/ /\ calls[n] \in CreateCall /\ d.lead = calls[n].lead /\ d.below = calls[n].below /\ d.above = calls[n].above
                      /\ base'.groups = base.groups /\ base'.inGroup = base.inGroup
                      /\ base'.leads = base.leads \cup {d.lead}
                      /\ d.ok <=> d.lead \notin base.leads
<1> DEFINE c == calls[n]
           B == [leads : SUBSET ListLead, groups : SUBSET ListGroup, inGroup : SUBSET (ListGroup \X ListLead)]
<1>1. c \in Call /\ c \in Sound
  BY SoundCalls
<1>2. UNCHANGED <<listing, sidebar, asking, group, query, ticked, form, onTop, sought, crossed, loadingRows>> /\ ~c.done
  BY DEF PerformCall, asking
<1>3. base \in B /\ base.inGroup \subseteq base.groups \X base.leads
      /\ base = [leads |-> base.leads, groups |-> base.groups, inGroup |-> base.inGroup]
  BY DEF ListTypes
<1>4. CASE c.what \in {"add", "remove", "delete", "campaign"}
  <2> DEFINE e == [c EXCEPT !.ok = ~NoneDeleted(c)]
             d == [e EXCEPT !.done = TRUE]
  <2>1. calls' = [calls EXCEPT ![n] = d] /\ base' = Effect(c)
    BY <1>4 DEF PerformCall, Done
  <2>2. c \in ChangeCall \cup CampaignCall
    BY <1>1, <1>4, CallKinds
  <2>3. c \in CampaignCall => ~NoneDeleted(c)
    BY DEF NoneDeleted, CampaignCall
  <2>4. NoneDeleted(c) \in BOOLEAN
    BY DEF NoneDeleted
  <2>5. /\ d \in ChangeCall \cup CampaignCall /\ d.what = c.what /\ d.then = c.then /\ d.done
        /\ d.groups = c.groups /\ d.ok = ~NoneDeleted(c)
    <3>1. CASE c \in ChangeCall
      <4>1. e \in ChangeCall /\ e.what = c.what /\ e.then = c.then /\ e.groups = c.groups /\ e.ok = ~NoneDeleted(c)
        BY <2>4, <3>1 DEF ChangeCall
      <4>2. d \in ChangeCall /\ d.what = e.what /\ d.then = e.then /\ d.groups = e.groups /\ d.ok = e.ok /\ d.done
        <5> HIDE DEF e
        <5> QED
          BY <4>1 DEF ChangeCall
      <4> QED
        BY <4>1, <4>2
    <3>2. CASE c \in CampaignCall
      <4>1. e \in CampaignCall /\ e.what = c.what /\ e.then = c.then /\ e.groups = c.groups /\ e.ok = ~NoneDeleted(c)
        BY <2>3, <2>4, <3>2 DEF CampaignCall
      <4>2. d \in CampaignCall /\ d.what = e.what /\ d.then = e.then /\ d.groups = e.groups /\ d.ok = e.ok /\ d.done
        <5> HIDE DEF e
        <5> QED
          BY <4>1 DEF CampaignCall
      <4> QED
        BY <4>1, <4>2
    <3> QED
      BY <2>2, <3>1, <3>2
  <2> HIDE DEF d
  <2>6. d \in Sound
    BY <1>1, <1>4, <2>5 DEF Sound, Call
  <2>7. /\ base' \in B /\ base'.inGroup \subseteq base'.groups \X base'.leads
        /\ base'.groups = base.groups /\ (NoneDeleted(c) => base' = base) /\ (c \in CampaignCall => base' = base)
    BY <1>1, <2>1, <2>2, EffectTyped
  <2>8. ListTypes'
    BY <1>2, <2>1, <2>6, <2>7, TypesPerformed
  <2> QED
    BY <1>2, <2>1, <2>2, <2>3, <2>5, <2>6, <2>7, <2>8
<1>5. CASE c.what = "newgroup"
  <2> DEFINE d == [c EXCEPT !.done = TRUE]
  <2>1. PICK g \in ListGroup \ base.groups : base' = [base EXCEPT !.groups = @ \cup {g}]
    BY <1>5 DEF PerformCall
  <2>2. calls' = [calls EXCEPT ![n] = d]
    BY <1>5 DEF PerformCall, Done
  <2>3. base' = [leads |-> base.leads, groups |-> base.groups \cup {g}, inGroup |-> base.inGroup]
    BY <1>3, <2>1
  <2>4. c \in GroupCall
    BY <1>1, <1>5, CallKinds
  <2>5. d \in Call /\ d.what = "newgroup" /\ d.then = c.then /\ d.done /\ d.ok
    BY <1>1, <1>5, <2>4, DoneCall DEF GroupCall
  <2> HIDE DEF d
  <2>6. d \in Sound
    BY <2>5 DEF Sound
  <2>7. base' \in B /\ base'.inGroup \subseteq base'.groups \X base'.leads /\ base.groups \subseteq base'.groups
    BY <1>3, <2>3
  <2>8. ListTypes'
    BY <1>2, <2>2, <2>6, <2>7, TypesPerformed
  <2> QED
    BY <1>2, <1>5, <2>2, <2>3, <2>4, <2>5, <2>6, <2>8
<1>6. CASE c.what = "create"
  <2> DEFINE e == [c EXCEPT !.ok = c.lead \notin base.leads]
             d == [e EXCEPT !.done = TRUE]
  <2>1. calls' = [calls EXCEPT ![n] = d] /\ base' = [base EXCEPT !.leads = @ \cup {c.lead}]
    BY <1>6 DEF PerformCall, Done
  <2>2. c \in CreateCall
    BY <1>1, <1>6, CallKinds
  <2>3. base' = [leads |-> base.leads \cup {c.lead}, groups |-> base.groups, inGroup |-> base.inGroup]
    BY <1>3, <2>1
  <2>4. (c.lead \notin base.leads) \in BOOLEAN
    OBVIOUS
  <2>5. /\ d \in CreateCall /\ d.what = c.what /\ d.then = c.then /\ d.done /\ d.lead = c.lead
        /\ d.below = c.below /\ d.above = c.above /\ d.ok = (c.lead \notin base.leads)
    <3>1. /\ e \in CreateCall /\ e.what = c.what /\ e.then = c.then /\ e.lead = c.lead /\ e.ok = (c.lead \notin base.leads)
          /\ e.below = c.below /\ e.above = c.above
      BY <2>2, <2>4 DEF CreateCall
    <3>2. /\ d \in CreateCall /\ d.what = e.what /\ d.then = e.then /\ d.lead = e.lead /\ d.ok = e.ok /\ d.done
          /\ d.below = e.below /\ d.above = e.above
      <4> HIDE DEF e
      <4> QED
        BY <3>1 DEF CreateCall
    <3> QED
      BY <3>1, <3>2
  <2> HIDE DEF d
  <2>6. d \in Sound
    BY <1>6, <2>5 DEF Sound, Call
  <2>7. base' \in B /\ base'.inGroup \subseteq base'.groups \X base'.leads /\ base.groups \subseteq base'.groups
    <3>1. c.lead \in ListLead
      BY <2>2 DEF CreateCall
    <3> QED
      BY <1>3, <2>3, <3>1
  <2>8. ListTypes'
    BY <1>2, <2>1, <2>6, <2>7, TypesPerformed
  <2>9. /\ base'.groups = base.groups /\ base'.inGroup = base.inGroup /\ base'.leads = base.leads \cup {d.lead}
        /\ (d.ok <=> d.lead \notin base.leads)
    BY <2>3, <2>5
  <2> QED
    BY <1>2, <1>6, <2>1, <2>2, <2>5, <2>6, <2>8, <2>9
<1> QED
  BY <1>4, <1>5, <1>6 DEF PerformCall

Answered(n, t) == t \in Seq(Sound) /\ calls' \in Seq(Sound) /\ Taken(calls', calls, n, t)
LeadsSame == UNCHANGED <<base, listing, group, sought, onTop>>

LEMMA AnsweredThen ==
    ASSUME ListTypes, NEW n \in 1 .. Len(calls)
    PROVE  /\ calls' = RemoveAt(calls, n) => Answered(n, <<>>)
           /\ \A c \in Sound : calls' = Append(RemoveAt(calls, n), c) => Answered(n, <<c>>)
           /\ \A t \in Seq(Sound) : calls' = RemoveAt(calls, n) \o t => Answered(n, t)
<1>1. calls \in Seq(Sound)
  BY DEF ListTypes
<1>2. RemoveAt(calls, n) \in Seq(Sound) /\ Taken(RemoveAt(calls, n), calls, n, <<>>)
  BY <1>1, Removed
<1>3. <<>> \in Seq(Sound)
  OBVIOUS
<1>4. calls' = RemoveAt(calls, n) => Answered(n, <<>>)
  BY <1>2, <1>3 DEF Answered
<1>5. ASSUME NEW c \in Sound, calls' = Append(RemoveAt(calls, n), c)
      PROVE  Answered(n, <<c>>)
  <2>1. Append(RemoveAt(calls, n), c) \in Seq(Sound) /\ Taken(Append(RemoveAt(calls, n), c), calls, n, <<c>>)
    BY <1>1, RemovedAdding
  <2>2. <<c>> \in Seq(Sound)
    OBVIOUS
  <2> QED
    BY <1>5, <2>1, <2>2 DEF Answered
<1>6. ASSUME NEW t \in Seq(Sound), calls' = RemoveAt(calls, n) \o t
      PROVE  Answered(n, t)
  <2>1. RemoveAt(calls, n) \o t \in Seq(Sound) /\ Taken(RemoveAt(calls, n) \o t, calls, n, t)
    BY <1>1, RemovedFor
  <2> QED
    BY <1>6, <2>1 DEF Answered
<1> QED
  BY <1>4, <1>5, <1>6

LEMMA GroupsLoadedEffect ==
    ASSUME ListTypes, NEW n \in 1 .. Len(calls), GroupsLoaded(n)
    PROVE  /\ ListTypes' /\ calls[n] \in GroupsCall /\ calls[n].done /\ sidebar' = calls[n].read
           /\ UNCHANGED <<base, listing, group, onTop>>
           /\ Answered(n, Following(calls[n].then))
           /\ loadingRows' => loadingRows \/ calls[n].then # {}
           /\ sought' = IF calls[n].then = {} THEN sought ELSE (CHOOSE t \in calls[n].then : TRUE)[1]
           /\ crossed' = (crossed \/ Earlier(n))
<1> DEFINE c == calls[n]
<1>1. c \in Call /\ c \in Sound
  BY SoundCalls
<1>2. c.what = "groups" /\ c.done /\ sidebar' = c.read
  BY DEF GroupsLoaded, Comes
<1>3. c \in GroupsCall
  BY <1>1, <1>2, CallKinds
<1>4. /\ UNCHANGED <<base, listing, group, query, ticked, form, onTop>> /\ crossed' = (crossed \/ Earlier(n))
      /\ LoadNext(n, c.then)
  BY DEF GroupsLoaded, asking
<1>5. c.then \in SUBSET Aim /\ c.read \in Tally /\ DOMAIN c.read \subseteq base.groups
  BY <1>1, <1>2, <1>3 DEF GroupsCall, Sound
<1> HIDE DEF c
<1>6. calls' = RemoveAt(calls, n) \o Following(c.then)
  BY <1>4 DEF LoadNext, Others, Following
<1>7. Answered(n, Following(c.then))
  BY <1>5, <1>6, FollowingSound, AnsweredThen
<1>8. /\ loadingRows' = (loadingRows \/ c.then # {})
      /\ sought' = IF c.then = {} THEN sought ELSE (CHOOSE t \in c.then : TRUE)[1]
  BY <1>4 DEF LoadNext
<1>9. sought' \in BOOLEAN
  <2>1. CASE c.then = {}
    BY <1>8, <2>1 DEF ListTypes
  <2>2. CASE c.then # {}
    BY <1>5, <1>8, <2>2, FollowingSound
  <2> QED
    BY <2>1, <2>2
<1>10. loadingRows' \in BOOLEAN /\ crossed' \in BOOLEAN
  BY <1>4, <1>8 DEF ListTypes
<1>11. calls' \in Seq(Sound)
  BY <1>7 DEF Answered
<1>12. ListTypes'
  BY <1>2, <1>4, <1>5, <1>9, <1>10, <1>11, TypesKept DEF ListTypes
<1> QED
  BY <1>2, <1>3, <1>4, <1>7, <1>8, <1>12 DEF c

LEMMA LeadsLoadedEffect ==
    ASSUME ListTypes, NEW n \in 1 .. Len(calls), LeadsLoaded(n)
    PROVE  /\ ListTypes' /\ calls[n] \in LeadsCall /\ calls[n].done /\ listing' = calls[n].read /\ onTop' = {}
           /\ UNCHANGED <<base, sidebar, group, sought>>
           /\ Answered(n, <<>>) /\ ~loadingRows'
           /\ crossed' = (crossed \/ Earlier(n))
<1> DEFINE c == calls[n]
<1>1. c \in Call /\ c \in Sound
  BY SoundCalls
<1>2. c.what = "leads" /\ c.done /\ listing' = c.read /\ onTop' = {} /\ loadingRows' = FALSE
  BY DEF LeadsLoaded, Comes
<1>3. c \in LeadsCall
  BY <1>1, <1>2, CallKinds
<1>4. UNCHANGED <<base, sidebar, sought, group, query, ticked, form>> /\ crossed' = (crossed \/ Earlier(n))
  BY DEF LeadsLoaded, asking
<1>5. c.read \in ListRows
  BY <1>3 DEF LeadsCall
<1>6. calls' = RemoveAt(calls, n)
  BY DEF LeadsLoaded, Others
<1>7. Answered(n, <<>>)
  BY <1>6, AnsweredThen
<1>8. calls' \in Seq(Sound) /\ crossed' \in BOOLEAN
  BY <1>4, <1>7 DEF Answered, ListTypes
<1> HIDE DEF c
<1>9. ListTypes'
  BY <1>2, <1>4, <1>5, <1>8, TypesKept DEF ListTypes
<1> QED
  BY <1>2, <1>3, <1>4, <1>7, <1>9 DEF c

LEMMA PressDoneEffect ==
    ASSUME ListTypes, NEW n \in 1 .. Len(calls), PressDone(n)
    PROVE  /\ ListTypes' /\ calls[n] \in ChangeCall \cup CampaignCall /\ calls[n].done
           /\ UNCHANGED <<base, listing, sidebar, group, onTop, crossed>>
           /\ \/ ~calls[n].ok /\ calls[n] \in ChangeCall /\ Answered(n, <<>>) /\ UNCHANGED <<loadingRows, sought>>
              \/ /\ calls[n].ok /\ calls[n] \in ChangeCall /\ Answered(n, <<Groups(calls[n].then)>>)
                 /\ UNCHANGED <<loadingRows, sought>>
              \/ /\ calls[n] \in CampaignCall /\ Answered(n, Following(calls[n].then))
                 /\ sought' = (CHOOSE t \in calls[n].then : TRUE)[1]
<1> DEFINE c == calls[n]
<1>1. c \in Call /\ c \in Sound
  BY SoundCalls
<1>2. c.what \in {"add", "remove", "delete", "campaign"} /\ c.done
  BY DEF PressDone, Comes
<1>3. c \in ChangeCall \cup CampaignCall
  BY <1>1, <1>2, CallKinds
<1>4. UNCHANGED <<base, listing, sidebar, group, query, form, onTop, crossed>>
  BY DEF PressDone
<1>5. c.then \in SUBSET Aim /\ c.then # {}
  BY <1>3 DEF ChangeCall, CampaignCall
<1> HIDE DEF c
<1>6. CASE ~c.ok
  <2>1. calls' = RemoveAt(calls, n) /\ UNCHANGED <<ticked, loadingRows, sought>>
    BY <1>6 DEF PressDone, Others, c
  <2>2. c \in ChangeCall
    BY <1>3, <1>6 DEF CampaignCall
  <2>3. Answered(n, <<>>)
    BY <2>1, AnsweredThen
  <2>4. ListTypes'
    BY <1>4, <2>1, <2>3, TypesKept DEF ListTypes, Answered
  <2> QED
    BY <1>2, <1>3, <1>4, <1>6, <2>1, <2>2, <2>3, <2>4 DEF c
<1>7. CASE c.ok /\ c \in ChangeCall
  <2>1. calls' = Append(RemoveAt(calls, n), Groups(c.then)) /\ ticked' = {} /\ UNCHANGED <<loadingRows, sought>>
    <3>1. c.what # "campaign"
      BY <1>7 DEF ChangeCall
    <3> QED
      BY <1>7, <3>1 DEF PressDone, Others, c
  <2>2. Groups(c.then) \in Sound
    BY <1>5, SoundCalls
  <2>3. Answered(n, <<Groups(c.then)>>)
    BY <2>1, <2>2, AnsweredThen
  <2>4. ListTypes'
    BY <1>4, <2>1, <2>3, TypesKept DEF ListTypes, Answered
  <2> QED
    BY <1>2, <1>3, <1>4, <1>7, <2>1, <2>3, <2>4 DEF c
<1>8. CASE c.ok /\ c \in CampaignCall
  <2>1. ticked' = {} /\ LoadNext(n, c.then)
    <3>1. c.what = "campaign"
      BY <1>8 DEF CampaignCall
    <3> QED
      BY <1>8, <3>1 DEF PressDone, c
  <2>2. calls' = RemoveAt(calls, n) \o Following(c.then)
    BY <2>1 DEF LoadNext, Others, Following
  <2>3. Answered(n, Following(c.then))
    BY <1>5, <2>2, FollowingSound, AnsweredThen
  <2>4. sought' = (CHOOSE t \in c.then : TRUE)[1] /\ loadingRows' \in BOOLEAN
    BY <1>5, <2>1 DEF LoadNext, ListTypes
  <2>5. sought' \in BOOLEAN
    BY <1>5, <2>4, FollowingSound
  <2>6. ListTypes'
    BY <1>4, <2>1, <2>3, <2>4, <2>5, TypesKept DEF ListTypes, Answered
  <2> QED
    BY <1>2, <1>3, <1>4, <1>8, <2>3, <2>4, <2>6 DEF c
<1> QED
  BY <1>3, <1>6, <1>7, <1>8

LEMMA GroupCreatedEffect ==
    ASSUME ListTypes, NEW n \in 1 .. Len(calls), GroupCreated(n)
    PROVE  /\ ListTypes' /\ calls[n] \in GroupCall
           /\ UNCHANGED <<base, listing, sidebar, group, onTop, crossed, sought, loadingRows>>
           /\ Answered(n, <<Groups({})>>)
<1>1. calls[n] \in Call /\ {} \in SUBSET Aim
  BY SoundCalls
<1>2. calls[n] \in GroupCall
  BY <1>1, CallKinds DEF GroupCreated, Comes
<1>3. Groups({}) \in Sound
  BY <1>1, SoundCalls
<1>4. calls' = Append(RemoveAt(calls, n), Groups({}))
  BY DEF GroupCreated, Others
<1>5. Answered(n, <<Groups({})>>)
  BY <1>3, <1>4, AnsweredThen
<1>6. UNCHANGED <<base, listing, sidebar, group, query, ticked, form, onTop, crossed, sought, loadingRows>>
  BY DEF GroupCreated, asking
<1>7. ListTypes'
  BY <1>5, <1>6, TypesKept DEF ListTypes, Answered
<1> QED
  BY <1>2, <1>5, <1>6, <1>7

LEMMA LeadCreatedEffect ==
    ASSUME ListTypes, NEW n \in 1 .. Len(calls), LeadCreated(n)
    PROVE  /\ ListTypes' /\ calls[n] \in CreateCall /\ calls[n].done
           /\ UNCHANGED <<base, sidebar, group, crossed, sought, loadingRows>>
           /\ Answered(n, <<>>)
           /\ calls[n].ok => /\ listing'.leads = calls[n].below.leads \cup {calls[n].lead}
                             /\ listing'.inGroup = calls[n].below.inGroup
                             /\ onTop' = calls[n].above \cup {calls[n].lead}
           /\ ~calls[n].ok => UNCHANGED <<listing, onTop>>
<1> DEFINE c == calls[n]
<1>1. c \in Call
  BY SoundCalls
<1>2. c \in CreateCall /\ c.done
  BY <1>1, CallKinds DEF LeadCreated, Comes
<1>3. calls' = RemoveAt(calls, n)
  BY DEF LeadCreated, Others
<1>4. Answered(n, <<>>)
  BY <1>3, AnsweredThen
<1>5. UNCHANGED <<base, sidebar, group, query, ticked, crossed, sought, loadingRows>>
  BY DEF LeadCreated
<1>6. /\ form' = IF c.ok THEN "closed" ELSE form
      /\ listing' = IF c.ok THEN [c.below EXCEPT !.leads = @ \cup {c.lead}] ELSE listing
      /\ onTop' = IF c.ok THEN c.above \cup {c.lead} ELSE onTop
  BY DEF LeadCreated
<1> HIDE DEF c
<1>7. c.below \in ListRows /\ c.lead \in ListLead /\ c.above \subseteq ListLead
  BY <1>2 DEF CreateCall
<1>8. ASSUME c.ok
      PROVE  /\ listing' = [leads |-> c.below.leads \cup {c.lead}, inGroup |-> c.below.inGroup]
             /\ listing' \in ListRows
  BY <1>6, <1>7, <1>8 DEF ListRows
<1>9. listing' \in ListRows /\ onTop' \subseteq ListLead /\ form' \in {"open", "closed"}
  BY <1>6, <1>7, <1>8 DEF ListTypes
<1>10. ListTypes'
  BY <1>4, <1>5, <1>9, TypesKept DEF ListTypes, Answered
<1> QED
  BY <1>2, <1>4, <1>5, <1>6, <1>8, <1>10 DEF c

LEMMA CallLostEffect ==
    ASSUME ListTypes, NEW n \in 1 .. Len(calls), CallLost(n)
    PROVE  /\ ListTypes' /\ UNCHANGED <<base, listing, sidebar, group, onTop>>
           /\ crossed' = (crossed \/ calls[n].what \in {"groups", "leads"} \/ calls[n].done)
           /\ \/ /\ calls[n] \in GroupsCall /\ Answered(n, Following(calls[n].then))
                 /\ loadingRows' => loadingRows \/ calls[n].then # {}
              \/ /\ calls[n] \notin GroupsCall /\ Answered(n, <<>>) /\ UNCHANGED sought
                 /\ loadingRows' => loadingRows /\ calls[n] \notin LeadsCall \cup CampaignCall
<1> DEFINE c == calls[n]
<1>1. c \in Call /\ c \in Sound
  BY SoundCalls
<1>2. UNCHANGED <<base, listing, sidebar, group, query, ticked, form, onTop>>
  BY DEF CallLost, asking
<1>3. crossed' = (crossed \/ c.what \in {"groups", "leads"} \/ c.done) /\ crossed' \in BOOLEAN
  BY DEF CallLost, ListTypes
<1> HIDE DEF c
<1>4. CASE c.what = "groups"
  <2>1. LoadNext(n, c.then)
    BY <1>4 DEF CallLost, c
  <2>2. c \in GroupsCall /\ c.then \in SUBSET Aim
    BY <1>1, <1>4, CallKinds DEF GroupsCall
  <2>3. calls' = RemoveAt(calls, n) \o Following(c.then)
    BY <2>1 DEF LoadNext, Others, Following
  <2>4. Answered(n, Following(c.then))
    BY <2>2, <2>3, FollowingSound, AnsweredThen
  <2>5. /\ loadingRows' = (loadingRows \/ c.then # {})
        /\ sought' = IF c.then = {} THEN sought ELSE (CHOOSE t \in c.then : TRUE)[1]
    BY <2>1 DEF LoadNext
  <2>6. sought' \in BOOLEAN
    <3>1. CASE c.then = {}
      BY <2>5, <3>1 DEF ListTypes
    <3>2. CASE c.then # {}
      BY <2>2, <2>5, <3>2, FollowingSound
    <3> QED
      BY <3>1, <3>2
  <2>7. loadingRows' \in BOOLEAN
    BY <2>5 DEF ListTypes
  <2>8. ListTypes'
    BY <1>2, <1>3, <2>4, <2>6, <2>7, TypesKept DEF ListTypes, Answered
  <2> QED
    BY <1>2, <1>3, <2>2, <2>4, <2>5, <2>8 DEF c
<1>5. CASE c.what # "groups"
  <2>1. calls' = RemoveAt(calls, n) /\ UNCHANGED sought /\ loadingRows' = (loadingRows /\ c.what \notin {"leads", "campaign"})
    BY <1>5 DEF CallLost, Others, c
  <2>2. c \notin GroupsCall /\ (c \in LeadsCall => c.what = "leads") /\ (c \in CampaignCall => c.what = "campaign")
    BY <1>1, <1>5, CallKinds
  <2>3. Answered(n, <<>>)
    BY <2>1, AnsweredThen
  <2>4. loadingRows' \in BOOLEAN
    BY <2>1 DEF ListTypes
  <2>5. ListTypes'
    BY <1>2, <1>3, <2>1, <2>3, <2>4, TypesKept DEF ListTypes, Answered
  <2> QED
    BY <1>2, <1>3, <2>1, <2>2, <2>3, <2>5 DEF c
<1> QED
  BY <1>4, <1>5

-----------------------------------------------------------------------------
(* Rows are hidden only while the list, or what will load it, is on its    *)
(* way; one lead is created at a time.                                     *)
Loading == LeadsCall \cup CampaignCall \cup {c \in GroupsCall : c.then # {}}
Hidden == loadingRows => OnTheWay(calls, Loading)
OneCreated == AtMostOne(calls, CreateCall)

(* As long as nothing has crossed: a list that will be loaded is of the    *)
(* group that is selected, and while a lead is created nothing loads the   *)
(* list it will be put on.                                                 *)
AimedCall == {c \in Call : c.what # "leads" => \A t \in c.then : t[2] = group}
Aimed == \A i \in 1 .. Len(calls) : calls[i] \in AimedCall
QuietCall == {c \in Call : c.what # "leads" /\ c.then = {} /\ (c.what = "create" => c.below = listing /\ c.above = onTop)}
Alone == OnTheWay(calls, CreateCall) => \A i \in 1 .. Len(calls) : calls[i] \in QuietCall

(* The list is the one asked for last, or will be: what changes leads has  *)
(* been done and will load it, or it has been asked for since.             *)
Now == Matching(base, sought, group)
Storing == {c \in CreateCall : c.done /\ c.ok}
Topping == {c \in Storing : listing.leads \cup {c.lead} = Now.leads \cup onTop \cup {c.lead}}
Shown == /\ listing.inGroup = Now.inGroup
         /\ \/ ~OnTheWay(calls, Storing) /\ listing.leads = Now.leads \cup onTop
            \/ OnTheWay(calls, Topping)
Owing == {c \in Call : c.what # "leads" /\ c.then # {} /\ (c.what = "groups" \/ (c.done /\ c.ok))}
FreshLeads == {c \in LeadsCall : c.g = group /\ c.q = sought /\ (c.done => c.read = Now)}
ListKept == \/ OnTheWay(calls, Owing)
            \/ LastSent(calls, FreshLeads, LeadsCall)
            \/ ~OnTheWay(calls, LeadsCall) /\ Shown

(* So are the groups.                                                      *)
Recounting == {c \in ChangeCall \cup GroupCall : c.done /\ c.ok}
FreshGroups == {c \in GroupsCall : c.done => c.read = Counts(base)}
GroupsKept == \/ OnTheWay(calls, Recounting)
              \/ LastSent(calls, FreshGroups, GroupsCall)
              \/ ~OnTheWay(calls, GroupsCall) /\ sidebar = Counts(base)

Uncrossed == ~crossed => Aimed /\ Alone /\ ListKept /\ GroupsKept
ListInv == ListTypes /\ Hidden /\ OneCreated /\ Uncrossed

(***************************************************************************)
(* What sending and answering requests keeps.                              *)
(***************************************************************************)
LEMMA HiddenMoved ==
    ASSUME ListTypes, Hidden, NEW n, NEW t \in Seq(Sound), calls' \in Seq(Sound), Moved(calls', calls, n, t),
           \/ ~loadingRows'
           \/ loadingRows /\ (n # 0 => calls[n] \notin Loading)
           \/ OnTheWay(t, Loading)
    PROVE  Hidden'
<1>1. calls \in Seq(Sound)
  BY DEF ListTypes
<1>2. Loading' = Loading
  BY DEF Loading
<1>3. CASE ~loadingRows'
  BY <1>3 DEF Hidden
<1>4. CASE loadingRows /\ (n # 0 => calls[n] \notin Loading)
  <2>1. OnTheWay(calls, Loading)
    BY <1>4 DEF Hidden
  <2>2. OnTheWay(calls', Loading)
    BY <1>1, <1>4, <2>1, MovedKeeps
  <2> QED
    BY <1>2, <2>2 DEF Hidden
<1>5. CASE OnTheWay(t, Loading)
  <2>2. OnTheWay(calls', Loading)
    BY <1>1, <1>5, MovedKeeps
  <2> QED
    BY <1>2, <2>2 DEF Hidden
<1> QED
  BY <1>3, <1>4, <1>5

LEMMA AimedMoved ==
    ASSUME ListTypes, Aimed, NEW n, NEW t \in Seq(Sound), calls' \in Seq(Sound), Moved(calls', calls, n, t),
           UNCHANGED group, \A k \in 1 .. Len(t) : t[k] \in AimedCall
    PROVE  Aimed'
<1>1. calls \in Seq(Sound)
  BY DEF ListTypes
<1>2. AimedCall' = AimedCall
  BY DEF AimedCall
<1>3. \A i \in 1 .. Len(calls) : i # n => calls[i] \in AimedCall
  BY DEF Aimed
<1> DEFINE u == calls'
<1>4. u \in Seq(Sound) /\ Moved(u, calls, n, t)
  OBVIOUS
<1> HIDE DEF u
<1>5. \A j \in 1 .. Len(u) : u[j] \in AimedCall
  BY ONLY <1>1, <1>3, <1>4, MovedAll, t \in Seq(Sound), \A k \in 1 .. Len(t) : t[k] \in AimedCall
<1> QED
  BY <1>2, <1>5 DEF Aimed, u

LEMMA AloneMoved ==
    ASSUME ListTypes, Alone, NEW n, NEW t \in Seq(Sound), calls' \in Seq(Sound), Moved(calls', calls, n, t),
           UNCHANGED <<listing, onTop>>, ~OnTheWay(t, CreateCall),
           OnTheWay(calls, CreateCall) => \A k \in 1 .. Len(t) : t[k] \in QuietCall
    PROVE  Alone'
<1>1. calls \in Seq(Sound)
  BY DEF ListTypes
<1>2. QuietCall' = QuietCall
  BY DEF QuietCall
<1>3. CASE OnTheWay(calls, CreateCall)
  <2>1. \A i \in 1 .. Len(calls) : calls[i] \in QuietCall
    BY <1>3 DEF Alone
  <2>2. \A i \in 1 .. Len(calls) : i # n => calls[i] \in QuietCall
    BY <2>1
  <2> DEFINE u == calls'
  <2>3. u \in Seq(Sound) /\ Moved(u, calls, n, t)
    OBVIOUS
  <2>4. \A k \in 1 .. Len(t) : t[k] \in QuietCall
    BY <1>3
  <2> HIDE DEF u
  <2>5. \A j \in 1 .. Len(u) : u[j] \in QuietCall
    BY ONLY <1>1, <2>2, <2>3, <2>4, MovedAll, t \in Seq(Sound)
  <2> QED
    BY <1>2, <2>5 DEF Alone, u
<1>4. CASE ~OnTheWay(calls, CreateCall)
  <2>1. ~OnTheWay(calls', CreateCall)
    BY <1>1, <1>4, MovedKeeps
  <2> QED
    BY <2>1 DEF Alone
<1> QED
  BY <1>3, <1>4

LEMMA LeadsMoved ==
    ASSUME ListTypes, ListKept, NEW n, NEW t \in Seq(Sound), calls' \in Seq(Sound), Moved(calls', calls, n, t),
           UNCHANGED <<base, listing, group, sought, onTop>>,
           ~OnTheWay(t, LeadsCall), ~OnTheWay(t, Storing),
           n # 0 => calls[n] \notin Owing /\ calls[n] \notin LeadsCall /\ calls[n] \notin Storing
    PROVE  ListKept'
<1>1. calls \in Seq(Sound)
  BY DEF ListTypes
<1>2. Now' = Now
  BY DEF Now
<1>3. Owing' = Owing /\ FreshLeads' = FreshLeads /\ Storing' = Storing /\ Topping' = Topping
  BY <1>2 DEF Owing, FreshLeads, Storing, Topping
<1>4. CASE OnTheWay(calls, Owing)
  <2>1. OnTheWay(calls', Owing)
    BY <1>1, <1>4, MovedKeeps
  <2> QED
    BY <1>3, <2>1 DEF ListKept
<1>5. CASE LastSent(calls, FreshLeads, LeadsCall)
  <2>1. n # 0 => calls[n] \notin FreshLeads
    BY DEF FreshLeads
  <2>2. \A k \in 1 .. Len(t) : t[k] \notin LeadsCall
    BY DEF OnTheWay
  <2>3. LastSent(calls', FreshLeads, LeadsCall)
    BY <1>1, <1>5, <2>1, <2>2, MovedKeeps
  <2> QED
    BY <1>3, <2>3 DEF ListKept
<1>6. CASE ~OnTheWay(calls, LeadsCall) /\ Shown
  <2>1. ~OnTheWay(calls', LeadsCall)
    BY <1>1, <1>6, MovedKeeps
  <2>2. CASE ~OnTheWay(calls, Storing) /\ listing.leads = Now.leads \cup onTop
    <3>1. ~OnTheWay(calls', Storing)
      BY <1>1, <2>2, MovedKeeps
    <3>2. Shown'
      BY <1>2, <1>3, <1>6, <2>2, <3>1 DEF Shown
    <3> QED
      BY <2>1, <3>2 DEF ListKept
  <2>3. CASE OnTheWay(calls, Topping)
    <3>1. n # 0 => calls[n] \notin Topping
      BY DEF Topping
    <3>2. OnTheWay(calls', Topping)
      BY <1>1, <2>3, <3>1, MovedKeeps
    <3>3. Shown'
      BY <1>2, <1>3, <1>6, <3>2 DEF Shown
    <3> QED
      BY <2>1, <3>3 DEF ListKept
  <2> QED
    BY <1>6, <2>2, <2>3 DEF Shown
<1> QED
  BY <1>4, <1>5, <1>6 DEF ListKept

LEMMA GroupsMoved ==
    ASSUME ListTypes, GroupsKept, NEW n, NEW t \in Seq(Sound), calls' \in Seq(Sound), Moved(calls', calls, n, t),
           UNCHANGED <<base, sidebar>>, ~OnTheWay(t, GroupsCall),
           n # 0 => calls[n] \notin Recounting /\ calls[n] \notin GroupsCall
    PROVE  GroupsKept'
<1>1. calls \in Seq(Sound)
  BY DEF ListTypes
<1>2. Counts(base)' = Counts(base)
  OBVIOUS
<1>3. Recounting' = Recounting /\ FreshGroups' = FreshGroups
  BY <1>2 DEF Recounting, FreshGroups
<1>4. CASE OnTheWay(calls, Recounting)
  <2>1. OnTheWay(calls', Recounting)
    BY <1>1, <1>4, MovedKeeps
  <2> QED
    BY <1>3, <2>1 DEF GroupsKept
<1>5. CASE LastSent(calls, FreshGroups, GroupsCall)
  <2>1. n # 0 => calls[n] \notin FreshGroups
    BY DEF FreshGroups
  <2>2. \A k \in 1 .. Len(t) : t[k] \notin GroupsCall
    BY DEF OnTheWay
  <2>3. LastSent(calls', FreshGroups, GroupsCall)
    BY <1>1, <1>5, <2>1, <2>2, MovedKeeps
  <2> QED
    BY <1>3, <2>3 DEF GroupsKept
<1>6. CASE ~OnTheWay(calls, GroupsCall) /\ sidebar = Counts(base)
  <2>1. ~OnTheWay(calls', GroupsCall)
    BY <1>1, <1>6, MovedKeeps
  <2> QED
    BY <1>2, <1>6, <2>1 DEF GroupsKept
<1> QED
  BY <1>4, <1>5, <1>6 DEF GroupsKept

LEMMA OneMoved ==
    ASSUME ListTypes, OneCreated, NEW n, NEW t \in Seq(Sound), calls' \in Seq(Sound), Moved(calls', calls, n, t),
           ~OnTheWay(t, CreateCall)
    PROVE  OneCreated' /\ (n # 0 /\ calls[n] \in CreateCall => ~OnTheWay(calls', CreateCall))
<1>1. calls \in Seq(Sound)
  BY DEF ListTypes
<1>2. \A k \in 1 .. Len(t) : t[k] \notin CreateCall
  BY DEF OnTheWay
<1>3. /\ AtMostOne(calls', CreateCall)
      /\ (n # 0 /\ calls[n] \in CreateCall => ~OnTheWay(calls', CreateCall))
  BY <1>1, <1>2, MovedKeeps DEF OneCreated
<1> QED
  BY <1>3 DEF OneCreated

(* The lists a step sends, and what they are.                              *)
LEMMA MovedSent ==
    ASSUME ListTypes, NEW t \in Seq(Sound), calls' = calls \o t
    PROVE  calls' \in Seq(Sound) /\ Moved(calls', calls, 0, t)
<1>1. calls \in Seq(Sound)
  BY DEF ListTypes
<1>2. calls \o t \in Seq(Sound)
  BY <1>1, ConcatProperties
<1> QED
  BY <1>2 DEF Moved

LEMMA MovedAnswered ==
    ASSUME ListTypes, NEW n \in 1 .. Len(calls), NEW t, Answered(n, t)
    PROVE  t \in Seq(Sound) /\ calls' \in Seq(Sound) /\ Moved(calls', calls, n, t) /\ n # 0
<1>1. Len(calls) \in Nat
  BY SoundCalls
<1> QED
  BY <1>1 DEF Answered, Moved

LEMMA PendingKinds ==
    ASSUME ListTypes
    PROVE  /\ Pending("create") <=> OnTheWay(calls, CreateCall)
           /\ Pending("leads") <=> OnTheWay(calls, LeadsCall)
<1>1. \A i \in 1 .. Len(calls) : calls[i] \in Call
  BY SoundCalls
<1>2. \A i \in 1 .. Len(calls) : /\ calls[i].what = "create" <=> calls[i] \in CreateCall
                                 /\ calls[i].what = "leads" <=> calls[i] \in LeadsCall
  BY <1>1, CallKinds
<1> QED
  BY <1>2 DEF Pending, OnTheWay

LEMMA OneSentCall ==
    ASSUME NEW c \in Call, NEW P
    PROVE  /\ c \notin P => ~OnTheWay(<<c>>, P)
           /\ c \in P => OnTheWay(<<c>>, P)
BY OneSent

(***************************************************************************)
(* The steps.                                                              *)
(***************************************************************************)
LEMMA ListInvInit == LeadListInit => ListInv
<1> SUFFICES ASSUME LeadListInit
             PROVE  ListInv
  OBVIOUS
<1>1. ListTypes
  BY ListTypesInit
<1> DEFINE a == Groups({})
           b == Leads(FALSE, All)
<1>2. calls = <<a, b>> /\ group = All /\ sought = FALSE
  BY DEF LeadListInit
<1>3. a \in GroupsCall /\ b \in LeadsCall /\ a \in Call /\ b \in Call
  BY CallsMade DEF AnyGroup
<1>4. a.what = "groups" /\ a.then = {} /\ ~a.done /\ b.what = "leads" /\ ~b.done /\ b.q = FALSE /\ b.g = All
  BY DEF Groups, Leads
<1> HIDE DEF a, b
<1>5. a \notin LeadsCall /\ b \notin GroupsCall /\ a \notin CreateCall /\ b \notin CreateCall
  BY <1>3, <1>4, CallKinds
<1>6. b \in Loading /\ a \in AimedCall /\ b \in AimedCall /\ b \in FreshLeads /\ a \in FreshGroups
  BY <1>2, <1>3, <1>4 DEF Loading, AimedCall, FreshLeads, FreshGroups
<1>7. OnTheWay(calls, Loading) /\ ~OnTheWay(calls, CreateCall)
  BY <1>2, <1>5, <1>6, TwoSent
<1>8. LastSent(calls, FreshLeads, LeadsCall) /\ LastSent(calls, FreshGroups, GroupsCall)
  BY <1>2, <1>5, <1>6, TwoSent
<1>9. Aimed
  BY <1>2, <1>6, TwoSent DEF Aimed
<1>10. OneCreated
  BY <1>7 DEF OneCreated, AtMostOne, OnTheWay
<1> QED
  BY <1>1, <1>7, <1>8, <1>9, <1>10 DEF ListInv, Hidden, Uncrossed, Alone, ListKept, GroupsKept

LEMMA Unmoved ==
    ASSUME ListInv, ListTypes', UNCHANGED <<base, listing, sidebar, group, loadingRows, calls, onTop, sought, crossed>>
    PROVE  ListInv'
<1>1. Now' = Now /\ Counts(base)' = Counts(base)
  BY DEF Now
<1>2. Loading' = Loading /\ AimedCall' = AimedCall /\ QuietCall' = QuietCall
  BY DEF Loading, AimedCall, QuietCall
<1>3. /\ Storing' = Storing /\ Topping' = Topping /\ Owing' = Owing /\ FreshLeads' = FreshLeads
      /\ Recounting' = Recounting /\ FreshGroups' = FreshGroups
  BY <1>1 DEF Storing, Topping, Owing, FreshLeads, Recounting, FreshGroups
<1>4. Hidden' /\ OneCreated'
  BY <1>2 DEF ListInv, Hidden, OneCreated
<1>5. ASSUME ~crossed'
      PROVE  Aimed' /\ Alone' /\ ListKept' /\ GroupsKept'
  <2>1. Aimed /\ Alone /\ ListKept /\ GroupsKept
    BY <1>5 DEF ListInv, Uncrossed
  <2>2. Aimed' /\ Alone'
    BY <1>2, <2>1 DEF Aimed, Alone
  <2>3. Shown' = Shown
    BY <1>1, <1>3 DEF Shown
  <2>4. ListKept'
    BY <1>3, <2>1, <2>3 DEF ListKept
  <2>5. GroupsKept'
    BY <1>1, <1>3, <2>1 DEF GroupsKept
  <2> QED
    BY <2>2, <2>4, <2>5
<1> QED
  BY <1>4, <1>5 DEF ListInv, Uncrossed

(* A list, or groups, that are asked for are the last that are.            *)
LEMMA LeadsAsked ==
    ASSUME ListTypes, NEW n, NEW t \in Seq(Sound), calls' \in Seq(Sound), Moved(calls', calls, n, t),
           LastSent(t, FreshLeads', LeadsCall)
    PROVE  ListKept'
<1>1. calls \in Seq(Sound)
  BY DEF ListTypes
<1> DEFINE F == FreshLeads'
           u == calls'
<1>2. LastSent(t, F, LeadsCall) /\ u \in Seq(Sound) /\ Moved(u, calls, n, t)
  OBVIOUS
<1> HIDE DEF F, u
<1>3. LastSent(u, F, LeadsCall)
  BY <1>1, <1>2, MovedKeeps
<1> QED
  BY <1>3 DEF ListKept, F, u

LEMMA GroupsAsked ==
    ASSUME ListTypes, NEW n, NEW t \in Seq(Sound), calls' \in Seq(Sound), Moved(calls', calls, n, t),
           LastSent(t, FreshGroups', GroupsCall)
    PROVE  GroupsKept'
<1>1. calls \in Seq(Sound)
  BY DEF ListTypes
<1> DEFINE F == FreshGroups'
           u == calls'
<1>2. LastSent(t, F, GroupsCall) /\ u \in Seq(Sound) /\ Moved(u, calls, n, t)
  OBVIOUS
<1> HIDE DEF F, u
<1>3. LastSent(u, F, GroupsCall)
  BY <1>1, <1>2, MovedKeeps
<1> QED
  BY <1>3 DEF GroupsKept, F, u

(* Nothing stale is to come: no request will load the list as it was asked *)
(* for before, and no lead is being created.                               *)
LEMMA NothingStale ==
    ASSUME ListTypes, ~StaleToCome
    PROVE  /\ ~OnTheWay(calls, CreateCall)
           /\ \A i \in 1 .. Len(calls) : calls[i].what # "leads" => calls[i].then = {}
BY PendingKinds DEF StaleToCome

LEMMA SearchStep == ASSUME ListInv, handleSearchSubmit PROVE ListInv'
<1>1. ListTypes /\ ListTypes'
  BY SentTyped DEF ListInv
<1> DEFINE b == Leads(query, group)
           t == <<b>>
<1>2. /\ UNCHANGED <<base, listing, sidebar, group, query, onTop>> /\ loadingRows' = TRUE /\ sought' = query
      /\ calls' = Append(calls, b) /\ crossed' = (crossed \/ StaleToCome)
  BY DEF handleSearchSubmit, asking, Issue
<1>3. b \in LeadsCall /\ b \in Call /\ b \in Sound
  BY <1>1, CallsMade, SoundCalls DEF ListTypes
<1>4. b.what = "leads" /\ ~b.done /\ b.q = query /\ b.g = group
  BY DEF Leads
<1> HIDE DEF b
<1>5. b \notin GroupsCall /\ b \notin CreateCall
  BY <1>3, <1>4, CallKinds
<1>6. b \in Loading /\ b \in AimedCall /\ b \in FreshLeads'
  BY <1>2, <1>3, <1>4 DEF Loading, AimedCall, FreshLeads
<1>7. calls' = calls \o t /\ t \in Seq(Sound)
  BY <1>1, <1>2, <1>3, AppendIsConcat DEF ListTypes
<1>8. calls' \in Seq(Sound) /\ Moved(calls', calls, 0, t)
  BY <1>1, <1>7, MovedSent
<1>9. /\ OnTheWay(t, Loading) /\ ~OnTheWay(t, CreateCall) /\ ~OnTheWay(t, GroupsCall)
      /\ \A k \in 1 .. Len(t) : t[k] \in AimedCall
  BY <1>5, <1>6, OneSent
<1>10. LastSent(t, FreshLeads', LeadsCall)
  <2> DEFINE F == FreshLeads'
  <2>1. b \in F
    BY <1>6
  <2> HIDE DEF F
  <2>2. LastSent(t, F, LeadsCall)
    BY <2>1, OneSent
  <2> QED
    BY <2>2 DEF F
<1> HIDE DEF t
<1>11. Hidden'
  BY <1>1, <1>7, <1>8, <1>9, HiddenMoved DEF ListInv
<1>12. OneCreated'
  BY <1>1, <1>7, <1>8, <1>9, OneMoved DEF ListInv
<1>13. ASSUME ~crossed'
       PROVE  Aimed' /\ Alone' /\ ListKept' /\ GroupsKept'
  <2>1. ~StaleToCome /\ Aimed /\ Alone /\ GroupsKept
    BY <1>2, <1>13 DEF ListInv, Uncrossed
  <2>2. Aimed'
    BY <1>1, <1>2, <1>7, <1>8, <1>9, <2>1, AimedMoved
  <2>3. ~OnTheWay(calls, CreateCall)
    BY <1>1, <2>1, NothingStale
  <2>4. Alone'
    BY <1>1, <1>2, <1>7, <1>8, <1>9, <2>1, <2>3, AloneMoved
  <2>5. ListKept'
    BY <1>1, <1>7, <1>8, <1>10, LeadsAsked
  <2>6. GroupsKept'
    BY <1>1, <1>2, <1>7, <1>8, <1>9, <2>1, GroupsMoved
  <2> QED
    BY <2>2, <2>4, <2>5, <2>6
<1> QED
  BY <1>1, <1>11, <1>12, <1>13 DEF ListInv, Uncrossed

LEMMA SelectStep == ASSUME ListInv, NEW g \in ListGroup \cup {All}, SelectGroup(g) PROVE ListInv'
<1>1. ListTypes /\ ListTypes'
  BY SentTyped DEF ListInv
<1> DEFINE a == Groups({})
           b == Leads(query, g)
           t == <<a, b>>
<1>2. /\ UNCHANGED <<base, listing, sidebar, query, onTop>> /\ group' = g /\ loadingRows' = TRUE /\ sought' = query
      /\ calls' = calls \o t /\ crossed' = (crossed \/ StaleToCome)
  BY DEF SelectGroup
<1>3. {} \in SUBSET Aim /\ query \in BOOLEAN /\ g \in AnyGroup
  BY <1>1 DEF ListTypes, AnyGroup
<1>4. a \in GroupsCall /\ a \in Call /\ a \in Sound /\ b \in LeadsCall /\ b \in Call /\ b \in Sound
  BY <1>1, <1>3, CallsMade, SoundCalls
<1>5. a.what = "groups" /\ a.then = {} /\ ~a.done /\ b.what = "leads" /\ ~b.done /\ b.q = query /\ b.g = g
  BY DEF Groups, Leads
<1> HIDE DEF a, b
<1>6. a \notin LeadsCall /\ b \notin GroupsCall /\ a \notin CreateCall /\ b \notin CreateCall
  BY <1>4, <1>5, CallKinds
<1>7. b \in Loading /\ b \in FreshLeads' /\ a \in FreshGroups'
  BY <1>2, <1>4, <1>5 DEF Loading, FreshLeads, FreshGroups
<1>8. t \in Seq(Sound)
  BY <1>4
<1>9. calls' \in Seq(Sound) /\ Moved(calls', calls, 0, t)
  BY <1>1, <1>2, <1>8, MovedSent
<1>10. OnTheWay(t, Loading) /\ ~OnTheWay(t, CreateCall)
  BY <1>6, <1>7, TwoSent
<1>11. LastSent(t, FreshLeads', LeadsCall) /\ LastSent(t, FreshGroups', GroupsCall)
  <2> DEFINE F == FreshLeads'
             G == FreshGroups'
  <2>1. b \in F /\ a \in G
    BY <1>7
  <2> HIDE DEF F, G
  <2>2. LastSent(t, F, LeadsCall)
    BY <2>1, TwoSent
  <2>3. LastSent(t, G, GroupsCall)
    BY <1>6, <2>1, TwoSent
  <2> QED
    BY <2>2, <2>3 DEF F, G
<1>12. \A k \in 1 .. Len(t) : t[k] = a \/ t[k] = b
  BY TwoSent
<1> HIDE DEF t
<1>13. Hidden'
  BY <1>1, <1>8, <1>9, <1>10, HiddenMoved DEF ListInv
<1>14. OneCreated'
  BY <1>1, <1>8, <1>9, <1>10, OneMoved DEF ListInv
<1>15. ASSUME ~crossed'
       PROVE  Aimed' /\ Alone' /\ ListKept' /\ GroupsKept'
  <2>1. ~StaleToCome /\ Alone
    BY <1>2, <1>15 DEF ListInv, Uncrossed
  <2>2. ~OnTheWay(calls, CreateCall) /\ \A i \in 1 .. Len(calls) : calls[i].what # "leads" => calls[i].then = {}
    BY <1>1, <2>1, NothingStale
  <2>3. Aimed'
    <3> DEFINE A == AimedCall'
               u == calls'
    <3>1. \A c \in Call : (c.what # "leads" => c.then = {}) => c \in A
      BY DEF AimedCall
    <3>2. u \in Seq(Sound) /\ Moved(u, calls, 0, t)
      BY <1>9
    <3> HIDE DEF A, u
    <3>3. \A i \in 1 .. Len(calls) : calls[i] \in A
      BY <1>1, <2>2, <3>1, SoundCalls
    <3>4. a \in A /\ b \in A
      BY <1>4, <1>5, <3>1
    <3>5. \A k \in 1 .. Len(t) : t[k] \in A
      BY <1>12, <3>4
    <3>6. calls \in Seq(Sound)
      BY <1>1 DEF ListTypes
    <3>7. \A j \in 1 .. Len(u) : u[j] \in A
      BY <1>8, <3>2, <3>3, <3>5, <3>6, MovedAll
    <3> QED
      BY <3>7 DEF Aimed, A, u
  <2>4. Alone'
    BY <1>1, <1>2, <1>8, <1>9, <1>10, <2>1, <2>2, AloneMoved
  <2>5. ListKept'
    BY <1>1, <1>8, <1>9, <1>11, LeadsAsked
  <2>6. GroupsKept'
    BY <1>1, <1>8, <1>9, <1>11, GroupsAsked
  <2> QED
    BY <2>3, <2>4, <2>5, <2>6
<1> QED
  BY <1>1, <1>13, <1>14, <1>15 DEF ListInv, Uncrossed

(* A request that changes something is sent: what the page will do with    *)
(* its answer is still to come.                                            *)
LEMMA SentStep ==
    ASSUME ListInv, ListTypes', NEW c \in Sound, calls' = Append(calls, c), ~c.done,
           c \in ChangeCall \cup CampaignCall \cup GroupCall,
           UNCHANGED <<base, listing, sidebar, group, onTop, sought>>,
           loadingRows' => loadingRows \/ c \in CampaignCall, crossed => crossed',
           c \in AimedCall, ~crossed' => c \in QuietCall \/ ~OnTheWay(calls, CreateCall)
    PROVE  ListInv'
<1> DEFINE t == <<c>>
<1>1. ListTypes
  BY DEF ListInv
<1>2. c \in Call
  BY <1>1, SoundCalls
<1>3. c \notin GroupsCall /\ c \notin LeadsCall /\ c \notin CreateCall
  BY <1>2 DEF ChangeCall, CampaignCall, GroupCall, GroupsCall, LeadsCall, CreateCall
<1>4. c \notin Storing /\ (c \in CampaignCall => c \in Loading)
  BY <1>3 DEF Storing, Loading
<1>5. calls' = calls \o t /\ t \in Seq(Sound)
  BY <1>1, AppendIsConcat DEF ListTypes
<1>6. calls' \in Seq(Sound) /\ Moved(calls', calls, 0, t)
  BY <1>1, <1>5, MovedSent
<1>7. /\ ~OnTheWay(t, CreateCall) /\ ~OnTheWay(t, GroupsCall) /\ ~OnTheWay(t, LeadsCall) /\ ~OnTheWay(t, Storing)
      /\ c \in CampaignCall => OnTheWay(t, Loading)
  BY <1>3, <1>4, OneSent
<1>8. \A k \in 1 .. Len(t) : t[k] = c
  BY OneSent
<1> HIDE DEF t
<1>9. \/ ~loadingRows'
      \/ loadingRows
      \/ OnTheWay(t, Loading)
  BY <1>7
<1>10. Hidden'
  BY <1>1, <1>5, <1>6, <1>9, HiddenMoved DEF ListInv
<1>11. OneCreated'
  BY <1>1, <1>5, <1>6, <1>7, OneMoved DEF ListInv
<1>12. ASSUME ~crossed'
       PROVE  Aimed' /\ Alone' /\ ListKept' /\ GroupsKept'
  <2>1. Aimed /\ Alone /\ ListKept /\ GroupsKept
    BY <1>12 DEF ListInv, Uncrossed
  <2>2. Aimed'
    BY <1>1, <1>5, <1>6, <1>8, <2>1, AimedMoved
  <2>3. OnTheWay(calls, CreateCall) => \A k \in 1 .. Len(t) : t[k] \in QuietCall
    BY <1>8, <1>12
  <2>4. Alone'
    BY <1>1, <1>5, <1>6, <1>7, <2>1, <2>3, AloneMoved
  <2>5. ListKept'
    BY <1>1, <1>5, <1>6, <1>7, <2>1, LeadsMoved
  <2>6. GroupsKept'
    BY <1>1, <1>5, <1>6, <1>7, <2>1, GroupsMoved
  <2> QED
    BY <2>2, <2>4, <2>5, <2>6
<1> QED
  BY <1>10, <1>11, <1>12 DEF ListInv, Uncrossed

LEMMA NewGroupStep == ASSUME ListInv, handleCreateGroup PROVE ListInv'
<1>1. ListTypes /\ ListTypes'
  BY SentTyped DEF ListInv
<1> DEFINE c == [Bulk("newgroup", {}, {}) EXCEPT !.then = {}]
<1>2. c \in GroupCall /\ c \in Call
  BY <1>1, BulkMade
<1>3. c.what = "newgroup" /\ ~c.done /\ c.then = {}
  BY DEF Bulk
<1>4. /\ UNCHANGED <<base, listing, sidebar, group, query, loadingRows, onTop, sought, crossed>>
      /\ calls' = Append(calls, c)
  BY DEF handleCreateGroup, Issue, asking
<1> HIDE DEF c
<1>5. c \in Sound /\ c \in AimedCall /\ c \in QuietCall
  BY <1>2, <1>3 DEF Sound, AimedCall, QuietCall
<1> QED
  BY <1>1, <1>2, <1>3, <1>4, <1>5, SentStep

LEMMA PressStep ==
    ASSUME ListInv,
           \/ handleRemoveLeadsFromGroup \/ handleBulkDelete \/ handleBulkAddLeadsToCampaign
           \/ \E groups \in SUBSET ListGroup : handleBulkAddLeadsToGroups(groups)
    PROVE  ListInv'
<1>1. ListTypes
  BY DEF ListInv
<1>2. /\ ListTypes' /\ UNCHANGED <<base, listing, sidebar, group, onTop, sought>>
      /\ crossed' = (crossed \/ Pending("create"))
  BY <1>1, PressEffect
<1>3. PICK c \in Sound : /\ c \in ChangeCall \cup CampaignCall /\ ~c.done /\ c.then = {<<query, group>>}
                         /\ calls' = Append(calls, c)
                         /\ loadingRows' => loadingRows \/ c \in CampaignCall
  BY <1>1, PressEffect
<1>4. c \in AimedCall
  BY <1>1, <1>3, SoundCalls DEF AimedCall
<1>5. ~crossed' => ~OnTheWay(calls, CreateCall)
  BY <1>1, <1>2, PendingKinds
<1> QED
  BY <1>2, <1>3, <1>4, <1>5, SentStep

LEMMA CreateLeadStep == ASSUME ListInv, NEW l \in ListLead, handleCreateLead(l) PROVE ListInv'
<1>1. ListTypes
  BY DEF ListInv
<1>2. /\ ListTypes' /\ UNCHANGED <<base, listing, sidebar, group, onTop, sought, loadingRows>>
      /\ crossed' = (crossed \/ Pending("leads") \/ StaleToCome) /\ ~Pending("create")
  BY <1>1, CreateLeadEffect
<1>3. PICK c \in Sound : /\ c \in CreateCall /\ ~c.done /\ c.below = listing /\ c.above = onTop
                         /\ calls' = Append(calls, c)
  BY <1>1, CreateLeadEffect
<1> DEFINE t == <<c>>
<1>4. c \in Call /\ c.what = "create" /\ c.then = {}
  BY <1>1, <1>3, SoundCalls DEF CreateCall
<1>5. c \notin GroupsCall /\ c \notin LeadsCall /\ c \notin Storing
  BY <1>3, <1>4, CallKinds DEF Storing
<1>6. c \in AimedCall /\ c \in QuietCall
  BY <1>3, <1>4 DEF AimedCall, QuietCall
<1>7. calls' = calls \o t /\ t \in Seq(Sound) /\ calls \in Seq(Sound)
  BY <1>1, <1>3, AppendIsConcat DEF ListTypes
<1>8. calls' \in Seq(Sound) /\ Moved(calls', calls, 0, t)
  BY <1>1, <1>7, MovedSent
<1>9. ~OnTheWay(t, GroupsCall) /\ ~OnTheWay(t, LeadsCall) /\ ~OnTheWay(t, Storing)
  BY <1>5, OneSent
<1>10. Len(t) = 1 /\ \A k \in 1 .. Len(t) : t[k] = c
  BY OneSent
<1>11. ~OnTheWay(calls, CreateCall)
  BY <1>1, <1>2, PendingKinds
<1> HIDE DEF t
<1>12. Hidden'
  BY <1>1, <1>2, <1>7, <1>8, HiddenMoved DEF ListInv
<1>13. OneCreated'
  <2>1. AtMostOne(calls, CreateCall)
    BY DEF ListInv, OneCreated
  <2>2. AtMostOne(calls \o t, CreateCall)
    BY <1>7, <1>10, <1>11, <2>1, AddedOne
  <2> QED
    BY <1>7, <2>2 DEF OneCreated
<1>14. ASSUME ~crossed'
       PROVE  Aimed' /\ Alone' /\ ListKept' /\ GroupsKept'
  <2>1. Aimed /\ Alone /\ ListKept /\ GroupsKept /\ ~StaleToCome /\ ~Pending("leads")
    BY <1>2, <1>14 DEF ListInv, Uncrossed
  <2>2. Aimed'
    BY <1>1, <1>2, <1>6, <1>7, <1>8, <1>10, <2>1, AimedMoved
  <2>3. \A i \in 1 .. Len(calls) : calls[i] \in QuietCall
    <3> TAKE i \in 1 .. Len(calls)
    <3>1. calls[i] \in Call /\ calls[i].what # "leads" /\ calls[i].what # "create"
      BY <1>1, <1>2, <2>1, SoundCalls DEF Pending
    <3>2. calls[i].then = {}
      BY <1>1, <2>1, <3>1, NothingStale
    <3> QED
      BY <3>1, <3>2 DEF QuietCall
  <2>4. Alone'
    <3> DEFINE u == calls'
    <3>1. u \in Seq(Sound) /\ Moved(u, calls, 0, t)
      BY <1>8
    <3> HIDE DEF u
    <3>2. calls \in Seq(Sound) /\ t \in Seq(Sound)
      BY <1>7
    <3>3. \A i \in 1 .. Len(calls) : i # 0 => calls[i] \in QuietCall
      BY <2>3
    <3>4. \A k \in 1 .. Len(t) : t[k] \in QuietCall
      BY <1>6, <1>10
    <3>5. \A j \in 1 .. Len(u) : u[j] \in QuietCall
      BY ONLY <3>1, <3>2, <3>3, <3>4, MovedAll
    <3>6. QuietCall' = QuietCall
      BY <1>2 DEF QuietCall
    <3> QED
      BY <3>5, <3>6 DEF Alone, u
  <2>5. ListKept'
    BY <1>1, <1>2, <1>7, <1>8, <1>9, <2>1, LeadsMoved
  <2>6. GroupsKept'
    BY <1>1, <1>2, <1>7, <1>8, <1>9, <2>1, GroupsMoved
  <2> QED
    BY <2>2, <2>4, <2>5, <2>6
<1> QED
  BY <1>2, <1>12, <1>13, <1>14 DEF ListInv, Uncrossed

(***************************************************************************)
(* The request at n is answered by the server.                             *)
(***************************************************************************)
LEMMA WrittenCalls ==
    ASSUME ListInv, NEW n \in 1 .. Len(calls), NEW d \in Sound, calls' = [calls EXCEPT ![n] = d],
           d.what = calls[n].what, d.what # "leads" => d.then = calls[n].then,
           d.what = "create" => d.below = calls[n].below /\ d.above = calls[n].above,
           UNCHANGED <<listing, group, onTop, loadingRows>>
    PROVE  Hidden' /\ OneCreated' /\ (Aimed => Aimed') /\ (Alone => Alone')
<1>1. ListTypes
  BY DEF ListInv
<1> DEFINE c == calls[n]
           u == [calls EXCEPT ![n] = d]
<1>2. calls \in Seq(Sound)
  BY <1>1 DEF ListTypes
<1>3. c \in Call /\ d \in Call /\ calls' = u /\ Len(u) = Len(calls)
  BY <1>1, <1>2, SoundCalls
<1>4. /\ c \in GroupsCall <=> d \in GroupsCall
      /\ c \in LeadsCall <=> d \in LeadsCall
      /\ c \in CampaignCall <=> d \in CampaignCall
      /\ c \in CreateCall <=> d \in CreateCall
  BY <1>3, CallKinds
<1>5. c \in Loading => d \in Loading
  <2>1. c \in GroupsCall => d.then = c.then
    BY <1>3, CallKinds
  <2> QED
    BY <1>4, <2>1 DEF Loading
<1>6. Loading' = Loading /\ AimedCall' = AimedCall /\ QuietCall' = QuietCall
  BY DEF Loading, AimedCall, QuietCall
<1>7. c \in AimedCall => d \in AimedCall
  BY <1>3 DEF AimedCall
<1>8. c \in QuietCall => d \in QuietCall
  BY <1>3 DEF QuietCall
<1>9. OnTheWay(calls, Loading) => OnTheWay(u, Loading)
  BY <1>2, <1>5, WrittenKeeps
<1>10. AtMostOne(calls, CreateCall) => AtMostOne(u, CreateCall)
  BY <1>2, <1>4, WrittenKeeps
<1>11. ASSUME ~OnTheWay(calls, CreateCall)
       PROVE  ~OnTheWay(u, CreateCall)
  <2>1. d \notin CreateCall
    BY <1>4, <1>11 DEF OnTheWay
  <2> QED
    BY <1>2, <1>11, <2>1, WrittenKeeps
<1>12. ASSUME \A i \in 1 .. Len(calls) : calls[i] \in AimedCall
       PROVE  \A i \in 1 .. Len(calls) : u[i] \in AimedCall
  <2>1. d \in AimedCall
    BY <1>7, <1>12
  <2> QED
    BY <1>2, <1>12, <2>1, WrittenKeeps
<1>13. ASSUME \A i \in 1 .. Len(calls) : calls[i] \in QuietCall
       PROVE  \A i \in 1 .. Len(calls) : u[i] \in QuietCall
  <2>1. d \in QuietCall
    BY <1>8, <1>13
  <2> QED
    BY <1>2, <1>13, <2>1, WrittenKeeps
<1> HIDE DEF u
<1>14. Hidden'
  BY <1>3, <1>6, <1>9 DEF ListInv, Hidden
<1>15. OneCreated'
  BY <1>3, <1>10 DEF ListInv, OneCreated
<1>16. Aimed => Aimed'
  BY <1>3, <1>6, <1>12 DEF Aimed
<1>17. Alone => Alone'
  BY <1>3, <1>6, <1>11, <1>13 DEF Alone
<1> QED
  BY <1>14, <1>15, <1>16, <1>17

(* What is not about the list leaves what is known of it as it was; so     *)
(* with the groups.                                                        *)
LEMMA LeadsWritten ==
    ASSUME ListTypes, ListKept, NEW n \in 1 .. Len(calls), NEW d \in Sound, calls' = [calls EXCEPT ![n] = d],
           d.what = calls[n].what, d.what # "leads", d.then = calls[n].then, ~calls[n].done,
           Now' = Now, UNCHANGED <<listing, group, sought, onTop>>, d \notin Storing
    PROVE  ListKept'
<1> DEFINE c == calls[n]
           u == [calls EXCEPT ![n] = d]
<1>1. calls \in Seq(Sound)
  BY DEF ListTypes
<1>2. c \in Call /\ d \in Call /\ calls' = u
  BY SoundCalls
<1>3. c \notin LeadsCall /\ d \notin LeadsCall
  BY <1>2, CallKinds
<1>4. Owing' = Owing /\ FreshLeads' = FreshLeads /\ Storing' = Storing /\ Topping' = Topping
  BY DEF Owing, FreshLeads, Storing, Topping
<1>5. c \in Owing => d \in Owing
  BY <1>2 DEF Owing
<1>6. c \notin FreshLeads /\ c \notin Topping
  BY <1>3 DEF FreshLeads, Topping, Storing
<1>7. OnTheWay(calls, Owing) => OnTheWay(u, Owing)
  BY <1>1, <1>5, WrittenKeeps
<1>8. LastSent(calls, FreshLeads, LeadsCall) => LastSent(u, FreshLeads, LeadsCall)
  BY <1>1, <1>3, <1>6, WrittenKeeps
<1>9. ~OnTheWay(calls, LeadsCall) => ~OnTheWay(u, LeadsCall)
  BY <1>1, <1>3, WrittenKeeps
<1>10. ~OnTheWay(calls, Storing) => ~OnTheWay(u, Storing)
  BY <1>1, WrittenKeeps
<1>11. OnTheWay(calls, Topping) => OnTheWay(u, Topping)
  BY <1>1, <1>6, WrittenKeeps
<1> HIDE DEF u
<1>12. Shown => Shown'
  BY <1>2, <1>4, <1>10, <1>11 DEF Shown
<1>13. OnTheWay(calls', Owing') \/ LastSent(calls', FreshLeads', LeadsCall) \/ (~OnTheWay(calls', LeadsCall) /\ Shown')
  BY <1>2, <1>4, <1>7, <1>8, <1>9, <1>12 DEF ListKept
<1> QED
  BY <1>13 DEF ListKept

LEMMA GroupsWritten ==
    ASSUME ListTypes, GroupsKept, NEW n \in 1 .. Len(calls), NEW d \in Sound, calls' = [calls EXCEPT ![n] = d],
           d.what = calls[n].what, d.what # "groups", ~calls[n].done,
           Counts(base') = Counts(base), UNCHANGED sidebar
    PROVE  GroupsKept'
<1> DEFINE c == calls[n]
           u == [calls EXCEPT ![n] = d]
<1>1. calls \in Seq(Sound)
  BY DEF ListTypes
<1>2. c \in Call /\ d \in Call /\ calls' = u
  BY SoundCalls
<1>3. c \notin GroupsCall /\ d \notin GroupsCall
  BY <1>2, CallKinds
<1>4. Recounting' = Recounting /\ FreshGroups' = FreshGroups
  BY DEF Recounting, FreshGroups
<1>5. c \notin Recounting /\ c \notin FreshGroups
  BY <1>3 DEF Recounting, FreshGroups
<1>6. OnTheWay(calls, Recounting) => OnTheWay(u, Recounting)
  BY <1>1, <1>5, WrittenKeeps
<1>7. LastSent(calls, FreshGroups, GroupsCall) => LastSent(u, FreshGroups, GroupsCall)
  BY <1>1, <1>3, <1>5, WrittenKeeps
<1>8. ~OnTheWay(calls, GroupsCall) => ~OnTheWay(u, GroupsCall)
  BY <1>1, <1>3, WrittenKeeps
<1> HIDE DEF u
<1>9. \/ OnTheWay(calls', Recounting') \/ LastSent(calls', FreshGroups', GroupsCall)
      \/ ~OnTheWay(calls', GroupsCall) /\ sidebar' = Counts(base')
  BY <1>2, <1>4, <1>6, <1>7, <1>8 DEF GroupsKept
<1> QED
  BY <1>9 DEF GroupsKept

LEMMA ReadStep == ASSUME ListInv, NEW n \in 1 .. Len(calls), ReadCall(n) PROVE ListInv'
<1>1. ListTypes
  BY DEF ListInv
<1>2. ListTypes' /\ UNCHANGED <<base, listing, sidebar, group, onTop, sought, crossed, loadingRows>>
  BY <1>1, ReadEffect
<1> DEFINE c == calls[n]
<1>3. PICK d \in Sound :
        /\ calls' = [calls EXCEPT ![n] = d] /\ d.what = c.what /\ ~c.done
        /\ \/ c \in GroupsCall /\ d \in GroupsCall /\ d.then = c.then /\ d.read = Counts(base)
           \/ /\ c \in LeadsCall /\ d \in LeadsCall /\ d.q = c.q /\ d.g = c.g
              /\ d.read = Matching(base, d.q, d.g)
  BY <1>1, ReadEffect
<1> DEFINE u == [calls EXCEPT ![n] = d]
<1>4. c \in Call /\ d \in Call /\ calls \in Seq(Sound) /\ calls' = u
  BY <1>1, <1>3, SoundCalls DEF ListTypes
<1>5. (c \in GroupsCall => d.what = "groups" /\ d.then = c.then) /\ (c \in LeadsCall => d.what = "leads")
  BY <1>3, <1>4, CallKinds
<1>6. d.what # "create" /\ (d.what # "leads" => d.then = c.then)
  BY <1>3, <1>5
<1>7. Hidden' /\ OneCreated' /\ (Aimed => Aimed') /\ (Alone => Alone')
  BY <1>2, <1>3, <1>6, WrittenCalls
<1>8. Now' = Now /\ Counts(base') = Counts(base)
  BY <1>2 DEF Now
<1>9. ASSUME ~crossed'
      PROVE  Aimed' /\ Alone' /\ ListKept' /\ GroupsKept'
  <2>1. Aimed /\ Alone /\ ListKept /\ GroupsKept
    BY <1>2, <1>9 DEF ListInv, Uncrossed
  <2>2. CASE c \in GroupsCall
    <3>1. d.what = "groups" /\ d.then = c.then /\ d \in GroupsCall /\ d.read = Counts(base)
      <4>1. c \notin LeadsCall
        BY <1>3, <1>4, <1>5, <2>2
      <4> QED
        BY <1>3, <1>5, <2>2, <4>1
    <3>2. d \notin Storing
      BY <1>4, <3>1, CallKinds DEF Storing
    <3>3. ListKept'
      BY <1>1, <1>2, <1>3, <1>8, <2>1, <3>1, <3>2, LeadsWritten
    <3>4. FreshGroups' = FreshGroups /\ Recounting' = Recounting
      BY <1>2 DEF FreshGroups, Recounting
    <3>5. d \in FreshGroups /\ c \notin Recounting
      BY <1>3, <3>1 DEF FreshGroups, Recounting
    <3>6. OnTheWay(calls, Recounting) => OnTheWay(u, Recounting)
      BY <1>4, <3>5, WrittenKeeps
    <3>7. LastSent(calls, FreshGroups, GroupsCall) => LastSent(u, FreshGroups, GroupsCall)
      BY <1>4, <2>2, <3>5, WrittenKeeps
    <3>8. OnTheWay(calls, GroupsCall)
      BY <2>2 DEF OnTheWay
    <3> HIDE DEF u
    <3>9. GroupsKept'
      BY <1>4, <2>1, <3>4, <3>6, <3>7, <3>8 DEF GroupsKept
    <3> QED
      BY <1>7, <2>1, <3>3, <3>9
  <2>3. CASE c \in LeadsCall
    <3>1. d.what = "leads" /\ d \in LeadsCall /\ d.q = c.q /\ d.g = c.g /\ d.read = Matching(base, d.q, d.g)
      <4>1. c \notin GroupsCall
        BY <1>3, <1>4, <1>5, <2>3
      <4> QED
        BY <1>3, <1>5, <2>3, <4>1
    <3>2. GroupsKept'
      BY <1>1, <1>2, <1>3, <1>8, <2>1, <3>1, GroupsWritten
    <3>3. FreshLeads' = FreshLeads /\ Owing' = Owing
      BY <1>2, <1>8 DEF FreshLeads, Owing
    <3>4. (c \in FreshLeads => d \in FreshLeads) /\ c \notin Owing
      BY <1>3, <3>1 DEF FreshLeads, Owing, Now
    <3>5. OnTheWay(calls, Owing) => OnTheWay(u, Owing)
      BY <1>4, <3>4, WrittenKeeps
    <3>6. LastSent(calls, FreshLeads, LeadsCall) => LastSent(u, FreshLeads, LeadsCall)
      BY <1>4, <2>3, <3>4, WrittenKeeps
    <3>7. OnTheWay(calls, LeadsCall)
      BY <2>3 DEF OnTheWay
    <3> HIDE DEF u
    <3>8. ListKept'
      BY <1>4, <2>1, <3>3, <3>5, <3>6, <3>7 DEF ListKept
    <3> QED
      BY <1>7, <2>1, <3>2, <3>8
  <2> QED
    BY <1>3, <2>2, <2>3
<1> QED
  BY <1>2, <1>7, <1>9 DEF ListInv, Uncrossed

(* A change that is done, of which the page knows nothing yet.             *)
LEMMA ChangedStep ==
    ASSUME ListInv, ListTypes', NEW n \in 1 .. Len(calls), NEW d \in Sound, calls' = [calls EXCEPT ![n] = d],
           calls[n] \in ChangeCall, d.what = calls[n].what, d.done, d.ok, d.then = calls[n].then,
           UNCHANGED <<listing, sidebar, group, onTop, sought, crossed, loadingRows>>
    PROVE  ListInv'
<1> DEFINE c == calls[n]
           u == [calls EXCEPT ![n] = d]
<1>1. ListTypes /\ calls \in Seq(Sound)
  BY DEF ListInv, ListTypes
<1>2. c \in Call /\ d \in Call /\ calls' = u /\ c.what \in {"add", "remove", "delete"} /\ c.then # {}
  BY <1>1, SoundCalls DEF ChangeCall
<1>3. d \in ChangeCall
  BY <1>2, CallKinds
<1>4. Hidden' /\ OneCreated' /\ (Aimed => Aimed') /\ (Alone => Alone')
  BY <1>2, WrittenCalls
<1>5. d \in Owing' /\ d \in Recounting'
  BY <1>2, <1>3 DEF Owing, Recounting
<1>6. OnTheWay(u, Owing')
  <2> DEFINE P == Owing'
  <2>1. d \in P
    BY <1>5
  <2> HIDE DEF P
  <2>2. OnTheWay(u, P)
    BY <1>1, <2>1, WrittenKeeps
  <2> QED
    BY <2>2 DEF P
<1>7. OnTheWay(u, Recounting')
  <2> DEFINE P == Recounting'
  <2>1. d \in P
    BY <1>5
  <2> HIDE DEF P
  <2>2. OnTheWay(u, P)
    BY <1>1, <2>1, WrittenKeeps
  <2> QED
    BY <2>2 DEF P
<1> HIDE DEF u
<1>8. ListKept' /\ GroupsKept'
  BY <1>2, <1>6, <1>7 DEF ListKept, GroupsKept
<1> QED
  BY <1>4, <1>8 DEF ListInv, Uncrossed

(* A new lead is in the database, and in no group.                         *)
LEMMA StoredStep ==
    ASSUME ListInv, ListTypes', NEW n \in 1 .. Len(calls), NEW d \in Sound, calls' = [calls EXCEPT ![n] = d],
           calls[n] \in CreateCall, d.what = "create", ~calls[n].done, d.done, d.ok, d.then = calls[n].then,
           d.below = calls[n].below, d.above = calls[n].above, d.lead \notin base.leads,
           base'.groups = base.groups, base'.inGroup = base.inGroup, base'.leads = base.leads \cup {d.lead},
           UNCHANGED <<listing, sidebar, group, onTop, sought, crossed, loadingRows>>
    PROVE  ListInv'
<1> DEFINE c == calls[n]
           u == [calls EXCEPT ![n] = d]
<1>1. ListTypes /\ calls \in Seq(Sound)
  BY DEF ListInv, ListTypes
<1>2. c \in Call /\ d \in Call /\ calls' = u /\ c.what = "create"
  BY <1>1, SoundCalls DEF CreateCall
<1>3. d \in CreateCall
  BY <1>2, CallKinds
<1>4. Hidden' /\ OneCreated' /\ (Aimed => Aimed') /\ (Alone => Alone')
  BY <1>2, WrittenCalls
<1>5. base.inGroup \subseteq base.groups \X base.leads
  BY <1>1 DEF ListTypes
<1>6. Counts(base') = Counts(base)
  <2>1. \A g \in base.groups : {l \in base'.leads : <<g, l>> \in base'.inGroup} = {l \in base.leads : <<g, l>> \in base.inGroup}
    BY <1>5
  <2> QED
    BY <2>1 DEF Counts
<1>7. ASSUME ~crossed'
      PROVE  Aimed' /\ Alone' /\ ListKept' /\ GroupsKept'
  <2>1. Aimed /\ Alone /\ ListKept /\ GroupsKept
    BY <1>7 DEF ListInv, Uncrossed
  <2>2. GroupsKept'
    BY <1>1, <1>2, <1>6, <2>1, GroupsWritten
  <2>3. \A i \in 1 .. Len(calls) : calls[i] \in QuietCall
    BY <2>1 DEF Alone, OnTheWay
  <2>4. ~OnTheWay(calls, Owing)
    BY <2>3 DEF OnTheWay, Owing, QuietCall
  <2>5. ~OnTheWay(calls, LeadsCall)
    BY <2>3 DEF OnTheWay, LeadsCall, QuietCall
  <2>6. Shown
    <3>1. ~LastSent(calls, FreshLeads, LeadsCall)
      BY <2>5 DEF LastSent, OnTheWay, FreshLeads
    <3> QED
      BY <2>1, <2>4, <3>1 DEF ListKept
  <2>7. ~OnTheWay(calls, Storing)
    <3>1. \A i \in 1 .. Len(calls) : calls[i] \in CreateCall => i = n
      BY DEF ListInv, OneCreated, AtMostOne
    <3> QED
      BY <3>1 DEF OnTheWay, Storing
  <2>8. listing.leads = Now.leads \cup onTop /\ listing.inGroup = Now.inGroup
    BY <2>6, <2>7 DEF Shown, OnTheWay, Topping
  <2>9. Now'.leads \subseteq Now.leads \cup {d.lead} /\ Now.leads \subseteq Now'.leads
    BY DEF Now, Matching
  <2>10. Now'.inGroup = Now.inGroup
    BY <1>5, <2>9 DEF Now, Matching
  <2>11. d \in Topping'
    BY <1>3, <2>8, <2>9 DEF Topping, Storing
  <2>12. OnTheWay(u, Topping')
    <3> DEFINE P == Topping'
    <3>1. d \in P
      BY <2>11
    <3> HIDE DEF P
    <3>2. OnTheWay(u, P)
      BY <1>1, <3>1, WrittenKeeps
    <3> QED
      BY <3>2 DEF P
  <2>13. ~OnTheWay(u, LeadsCall)
    <3>1. d \notin LeadsCall
      BY <1>2, CallKinds
    <3> QED
      BY <1>1, <2>5, <3>1, WrittenKeeps
  <2> HIDE DEF u
  <2>14. ListKept'
    BY <1>2, <2>8, <2>10, <2>12, <2>13 DEF ListKept, Shown
  <2> QED
    BY <1>4, <2>1, <2>2, <2>14
<1> QED
  BY <1>4, <1>7 DEF ListInv, Uncrossed

LEMMA PerformStep == ASSUME ListInv, NEW n \in 1 .. Len(calls), PerformCall(n) PROVE ListInv'
<1>1. ListTypes
  BY DEF ListInv
<1>2. ListTypes' /\ UNCHANGED <<listing, sidebar, group, onTop, sought, crossed, loadingRows>>
  BY <1>1, PerformEffect
<1> DEFINE c == calls[n]
<1>3. PICK d \in Sound :
        /\ calls' = [calls EXCEPT ![n] = d] /\ d.what = c.what /\ ~c.done /\ d.done
        /\ d.then = c.then
        /\ \/ /\ c \in ChangeCall \cup CampaignCall
              /\ ~d.ok => UNCHANGED base
              /\ c \in CampaignCall => d.ok /\ UNCHANGED base
           \/ /\ c \in GroupCall /\ d.ok
              /\ base'.leads = base.leads /\ base'.inGroup = base.inGroup
           \/ /\ c \in CreateCall /\ d.lead = c.lead /\ d.below = c.below /\ d.above = c.above
              /\ base'.groups = base.groups /\ base'.inGroup = base.inGroup
              /\ base'.leads = base.leads \cup {d.lead}
              /\ d.ok <=> d.lead \notin base.leads
  BY <1>1, PerformEffect
<1> DEFINE u == [calls EXCEPT ![n] = d]
<1>4. c \in Call /\ d \in Call /\ calls \in Seq(Sound) /\ calls' = u
  BY <1>1, <1>3, SoundCalls DEF ListTypes
<1>5. c \notin GroupsCall /\ c \notin LeadsCall /\ d \notin LeadsCall /\ d \notin GroupsCall
  BY <1>3, <1>4 DEF ChangeCall, CampaignCall, GroupCall, CreateCall, GroupsCall, LeadsCall
<1>6. d.what # "leads" /\ d.what # "groups"
  BY <1>4, <1>5, CallKinds
<1>7. CASE c \in ChangeCall /\ d.ok
  BY <1>2, <1>3, <1>7, ChangedStep
<1>8. CASE c \in CreateCall /\ d.ok
  <2>1. c.what = "create" /\ c \notin ChangeCall \cup CampaignCall \cup GroupCall
    BY <1>8 DEF CreateCall, ChangeCall, CampaignCall, GroupCall
  <2> QED
    BY <1>2, <1>3, <1>8, <2>1, StoredStep
<1>9. CASE c \in GroupCall \/ (c \in ChangeCall \cup CampaignCall \cup CreateCall /\ ~(c \in ChangeCall \cup CreateCall /\ d.ok))
  <2>1. c \notin GroupCall =>
          /\ base'.leads = base.leads /\ base'.inGroup = base.inGroup /\ base'.groups = base.groups
          /\ c \in CreateCall => ~d.ok
    <3>1. CASE c \in ChangeCall \cup CampaignCall
      <4>1. c \notin GroupCall /\ c \notin CreateCall
        BY <3>1 DEF ChangeCall, CampaignCall, GroupCall, CreateCall
      <4> QED
        BY <1>3, <1>9, <3>1, <4>1
    <3>2. CASE c \in CreateCall
      <4>1. c \notin GroupCall /\ c \notin ChangeCall \cup CampaignCall
        BY <3>2 DEF ChangeCall, CampaignCall, GroupCall, CreateCall
      <4>2. ~d.ok /\ d.lead \in base.leads
        BY <1>3, <1>9, <3>2, <4>1
      <4> QED
        BY <1>3, <3>2, <4>1, <4>2
    <3> QED
      BY <1>9, <3>1, <3>2
  <2>2. c \in GroupCall => base'.leads = base.leads /\ base'.inGroup = base.inGroup
    <3>1. c \in GroupCall => c \notin ChangeCall \cup CampaignCall \cup CreateCall
      BY DEF ChangeCall, CampaignCall, GroupCall, CreateCall
    <3> QED
      BY <1>3, <3>1
  <2>3. Now' = Now
    BY <1>2, <2>1, <2>2 DEF Now, Matching
  <2>4. d.what = "create" => d.below = c.below /\ d.above = c.above
    <3>1. d.what = "create" => c \in CreateCall /\ c \notin ChangeCall \cup CampaignCall \cup GroupCall
      BY <1>3, <1>4, CallKinds DEF ChangeCall, CampaignCall, GroupCall
    <3> QED
      BY <1>3, <3>1
  <2>5. Hidden' /\ OneCreated' /\ (Aimed => Aimed') /\ (Alone => Alone')
    BY <1>2, <1>3, <2>4, WrittenCalls
  <2>6. d \notin Storing
    <3>1. d \in CreateCall => c \in CreateCall /\ c \notin GroupCall
      BY <1>3, <1>4, CallKinds DEF GroupCall
    <3> QED
      BY <2>1, <3>1 DEF Storing
  <2>7. ASSUME ~crossed'
        PROVE  Aimed' /\ Alone' /\ ListKept' /\ GroupsKept'
    <3>1. Aimed /\ Alone /\ ListKept /\ GroupsKept
      BY <1>2, <2>7 DEF ListInv, Uncrossed
    <3>2. ListKept'
      BY <1>1, <1>2, <1>3, <1>6, <2>3, <2>6, <3>1, LeadsWritten
    <3>3. CASE c \notin GroupCall
      <4>1. Counts(base') = Counts(base)
        BY <2>1, <3>3 DEF Counts
      <4>2. GroupsKept'
        BY <1>1, <1>2, <1>3, <1>6, <3>1, <4>1, GroupsWritten
      <4> QED
        BY <2>5, <3>1, <3>2, <4>2
    <3>4. CASE c \in GroupCall
      <4>1. d \in GroupCall /\ d.ok
        <5>1. d \in GroupCall
          BY <1>3, <1>4, <3>4, CallKinds
        <5> QED
          BY <5>1 DEF GroupCall
      <4>2. d \in Recounting'
        BY <1>3, <4>1 DEF Recounting
      <4> DEFINE P == Recounting'
      <4>3. d \in P
        BY <4>2
      <4> HIDE DEF P
      <4>4. OnTheWay(u, P)
        BY <1>4, <4>3, WrittenKeeps
      <4> HIDE DEF u
      <4>5. GroupsKept'
        BY <1>4, <4>4 DEF GroupsKept, P
      <4> QED
        BY <2>5, <3>1, <3>2, <4>5
    <3> QED
      BY <3>3, <3>4
  <2> QED
    BY <1>2, <2>5, <2>7 DEF ListInv, Uncrossed
<1> QED
  BY <1>3, <1>7, <1>8, <1>9

(***************************************************************************)
(* The answer to the request at n comes.                                   *)
(***************************************************************************)
(* The first answer about the groups, or with a list, is the last that was *)
(* asked for, or that one is still on its way.                             *)
LEMMA EarlierKinds ==
    ASSUME ListTypes, NEW n \in 1 .. Len(calls), ~Earlier(n)
    PROVE  /\ calls[n] \in GroupsCall => \A m \in 1 .. n - 1 : calls[m] \notin GroupsCall
           /\ calls[n] \in LeadsCall => \A m \in 1 .. n - 1 : calls[m] \notin LeadsCall
BY DEF Earlier, GroupsCall, LeadsCall

LEMMA NotQuiet ==
    ASSUME ListInv, Alone, NEW n \in 1 .. Len(calls), calls[n] \notin QuietCall
    PROVE  ~OnTheWay(calls, CreateCall)
BY DEF Alone

LEMMA FollowingSent ==
    ASSUME ListTypes, NEW then \in SUBSET Aim
    PROVE  /\ ~OnTheWay(Following(then), CreateCall) /\ ~OnTheWay(Following(then), GroupsCall)
           /\ \A k \in 1 .. Len(Following(then)) : Following(then)[k] \in AimedCall
           /\ then = {} => ~OnTheWay(Following(then), LeadsCall) /\ ~OnTheWay(Following(then), Storing)
           /\ then # {} => OnTheWay(Following(then), Loading)
<1>1. CASE then = {}
  <2>1. Following(then) = <<>>
    BY <1>1, FollowingSound
  <2>2. \A k \in 1 .. Len(<<>>) : FALSE
    OBVIOUS
  <2>3. \A k \in 1 .. Len(Following(then)) : FALSE
    BY <2>1, <2>2
  <2> QED
    BY <1>1, <2>3 DEF OnTheWay
<1>2. CASE then # {}
  <2>1. PICK x \in then : x[1] \in BOOLEAN /\ x[2] \in AnyGroup /\ Following(then) = <<Leads(x[1], x[2])>>
    BY <1>2, FollowingSound
  <2> DEFINE b == Leads(x[1], x[2])
  <2>2. b \in LeadsCall /\ b \in Call
    BY <2>1, CallsMade
  <2>3. b.what = "leads"
    BY DEF Leads
  <2> HIDE DEF b
  <2>4. b \notin CreateCall /\ b \notin GroupsCall /\ b \in AimedCall /\ b \in Loading
    BY <2>2, <2>3, CallKinds DEF AimedCall, Loading
  <2>5. Following(then) = <<b>>
    BY <2>1 DEF b
  <2> DEFINE t == <<b>>
  <2>6. Len(t) = 1 /\ t[1] = b
    OBVIOUS
  <2> HIDE DEF t
  <2>7. 1 \in 1 .. Len(t) /\ \A k \in 1 .. Len(t) : t[k] = b
    BY <2>6
  <2>8. /\ ~OnTheWay(t, CreateCall) /\ ~OnTheWay(t, GroupsCall) /\ OnTheWay(t, Loading)
        /\ \A k \in 1 .. Len(t) : t[k] \in AimedCall
    BY <2>4, <2>6, <2>7 DEF OnTheWay
  <2>9. Following(then) = t
    BY <2>5 DEF t
  <2> QED
    BY <1>2, <2>8, <2>9
<1> QED
  BY <1>1, <1>2

(* What an answer makes the page load after it is of the group that is     *)
(* selected.                                                               *)
LEMMA FollowingFresh ==
    ASSUME ListTypes, Aimed, NEW n \in 1 .. Len(calls), NEW then, then = calls[n].then, then \in SUBSET Aim, then # {},
           calls[n].what # "leads", UNCHANGED group, sought' = (CHOOSE t \in then : TRUE)[1]
    PROVE  LastSent(Following(then), FreshLeads', LeadsCall)
<1>1. PICK x \in then : x = (CHOOSE t \in then : TRUE) /\ x[1] \in BOOLEAN /\ x[2] \in AnyGroup /\ Following(then) = <<Leads(x[1], x[2])>>
  BY FollowingSound
<1> DEFINE b == Leads(x[1], x[2])
           F == FreshLeads'
<1>2. b \in LeadsCall
  BY <1>1, CallsMade
<1>3. ~b.done /\ b.q = x[1] /\ b.g = x[2]
  BY DEF Leads
<1>4. x[2] = group
  BY DEF Aimed, AimedCall
<1> HIDE DEF b
<1>5. b \in F
  BY <1>1, <1>2, <1>3, <1>4 DEF FreshLeads
<1>6. Following(then) = <<b>>
  BY <1>1 DEF b
<1> HIDE DEF F
<1>7. LastSent(<<b>>, F, LeadsCall)
  BY <1>5, OneSent
<1> QED
  BY <1>6, <1>7 DEF F

LEMMA GroupsLoadedStep == ASSUME ListInv, NEW n \in 1 .. Len(calls), GroupsLoaded(n) PROVE ListInv'
<1>1. ListTypes /\ calls \in Seq(Sound)
  BY DEF ListInv, ListTypes
<1> DEFINE c == calls[n]
           t == Following(c.then)
<1>2. /\ ListTypes' /\ c \in GroupsCall /\ c.done /\ sidebar' = c.read
      /\ UNCHANGED <<base, listing, group, onTop>>
      /\ Answered(n, t)
      /\ loadingRows' => loadingRows \/ c.then # {}
      /\ sought' = IF c.then = {} THEN sought ELSE (CHOOSE x \in c.then : TRUE)[1]
      /\ crossed' = (crossed \/ Earlier(n))
  BY <1>1, GroupsLoadedEffect
<1>3. t \in Seq(Sound) /\ calls' \in Seq(Sound) /\ Moved(calls', calls, n, t) /\ n # 0 /\ Taken(calls', calls, n, t)
  BY <1>1, <1>2, MovedAnswered DEF Answered
<1>4. c \in Call /\ c.what = "groups" /\ c.then \in SUBSET Aim
  BY <1>1, <1>2, SoundCalls DEF GroupsCall
<1>5. /\ ~OnTheWay(t, CreateCall) /\ ~OnTheWay(t, GroupsCall)
      /\ \A k \in 1 .. Len(t) : t[k] \in AimedCall
      /\ c.then = {} => ~OnTheWay(t, LeadsCall) /\ ~OnTheWay(t, Storing)
      /\ c.then # {} => OnTheWay(t, Loading)
  BY <1>1, <1>4, FollowingSent
<1>6. c \notin LeadsCall /\ c \notin CampaignCall /\ c \notin CreateCall /\ c \notin Recounting
  BY <1>4, CallKinds DEF Recounting, ChangeCall, GroupCall
<1>7. c.then = {} => c \notin Loading /\ c \notin Owing /\ c \notin Storing
  BY <1>6 DEF Loading, Owing, Storing
<1>8. Hidden'
  <2>1. CASE c.then = {}
    <3>1. ~loadingRows' \/ (loadingRows /\ (n # 0 => c \notin Loading))
      BY <1>2, <1>7, <2>1
    <3> HIDE DEF c, t
    <3> QED
      BY <1>1, <1>3, <3>1, HiddenMoved DEF ListInv, c
  <2>2. CASE c.then # {}
    <3>1. OnTheWay(t, Loading)
      BY <1>5, <2>2
    <3> HIDE DEF c, t
    <3> QED
      BY <1>1, <1>3, <3>1, HiddenMoved DEF ListInv
  <2> QED
    BY <2>1, <2>2
<1> HIDE DEF t
<1>9. OneCreated'
  BY <1>1, <1>3, <1>5, OneMoved DEF ListInv
<1>10. ASSUME ~crossed'
       PROVE  Aimed' /\ Alone' /\ ListKept' /\ GroupsKept'
  <2>1. Aimed /\ Alone /\ ListKept /\ GroupsKept /\ ~Earlier(n)
    BY <1>2, <1>10 DEF ListInv, Uncrossed
  <2>2. Aimed'
    BY <1>1, <1>2, <1>3, <1>5, <2>1, AimedMoved
  <2>3. OnTheWay(calls, CreateCall) => c.then = {}
    BY <2>1 DEF Alone, QuietCall
  <2>4. Alone'
    <3>1. c.then = {} => t = <<>>
      BY <1>1, <1>4, FollowingSound DEF t
    <3>2. OnTheWay(calls, CreateCall) => \A k \in 1 .. Len(t) : t[k] \in QuietCall
      BY <2>3, <3>1
    <3> QED
      BY <1>1, <1>2, <1>3, <1>5, <2>1, <3>2, AloneMoved
  <2>5. ListKept'
    <3>1. CASE c.then = {}
      <4>1. sought' = sought
        BY <1>2, <3>1
      <4> QED
        BY <1>1, <1>2, <1>3, <1>5, <1>6, <1>7, <2>1, <3>1, <4>1, LeadsMoved
    <3>2. CASE c.then # {}
      <4>1. sought' = (CHOOSE x \in c.then : TRUE)[1]
        BY <1>2, <3>2
      <4>2. LastSent(t, FreshLeads', LeadsCall)
        BY <1>1, <1>2, <1>4, <2>1, <3>2, <4>1, FollowingFresh DEF t
      <4> QED
        BY <1>1, <1>3, <4>2, LeadsAsked
    <3> QED
      BY <3>1, <3>2
  <2>6. GroupsKept'
    <3> DEFINE u == calls'
    <3>1. u \in Seq(Sound) /\ Moved(u, calls, n, t) /\ Taken(u, calls, n, t)
      BY <1>3
    <3>2. Recounting' = Recounting /\ FreshGroups' = FreshGroups /\ Counts(base)' = Counts(base)
      BY <1>2 DEF Recounting, FreshGroups
    <3>3. \A m \in 1 .. n - 1 : calls[m] \notin GroupsCall
      BY <1>1, <1>2, <2>1, EarlierKinds
    <3>4. \A k \in 1 .. Len(t) : t[k] \notin GroupsCall
      BY <1>5 DEF OnTheWay
    <3>5. FreshGroups \subseteq GroupsCall
      BY DEF FreshGroups
    <3> HIDE DEF u, c
    <3>6. OnTheWay(calls, Recounting) => OnTheWay(u, Recounting)
      <4>1. calls[n] \notin Recounting
        BY <1>6 DEF c
      <4> QED
        BY ONLY <1>1, <1>3, <3>1, <4>1, MovedHolds
    <3>7. LastSent(calls, FreshGroups, GroupsCall) =>
            LastSent(u, FreshGroups, GroupsCall) \/ (calls[n] \in FreshGroups /\ ~OnTheWay(u, GroupsCall))
      BY ONLY <1>1, <1>3, <3>1, <3>3, <3>4, <3>5, FirstTaken, n \in 1 .. Len(calls)
    <3>8. OnTheWay(calls, GroupsCall)
      BY <1>2 DEF OnTheWay, c
    <3>9. calls[n] \in FreshGroups => sidebar' = Counts(base)
      BY <1>2 DEF FreshGroups, c
    <3> QED
      BY <2>1, <3>2, <3>6, <3>7, <3>8, <3>9 DEF GroupsKept, u
  <2> QED
    BY <2>2, <2>4, <2>5, <2>6
<1> QED
  BY <1>2, <1>8, <1>9, <1>10 DEF ListInv, Uncrossed

LEMMA LeadsLoadedStep == ASSUME ListInv, NEW n \in 1 .. Len(calls), LeadsLoaded(n) PROVE ListInv'
<1>1. ListTypes /\ calls \in Seq(Sound)
  BY DEF ListInv, ListTypes
<1> DEFINE c == calls[n]
           t == <<>>
<1>2. /\ ListTypes' /\ c \in LeadsCall /\ c.done /\ listing' = c.read /\ onTop' = {}
      /\ UNCHANGED <<base, sidebar, group, sought>>
      /\ Answered(n, t) /\ ~loadingRows'
      /\ crossed' = (crossed \/ Earlier(n))
  BY <1>1, LeadsLoadedEffect
<1>3. t \in Seq(Sound) /\ calls' \in Seq(Sound) /\ Moved(calls', calls, n, t) /\ n # 0 /\ Taken(calls', calls, n, t)
  BY <1>1, <1>2, MovedAnswered DEF Answered
<1>4. c \in Call /\ c.what = "leads"
  BY <1>1, <1>2, SoundCalls DEF LeadsCall
<1>5. /\ ~OnTheWay(t, CreateCall) /\ ~OnTheWay(t, GroupsCall)
      /\ \A k \in 1 .. Len(t) : t[k] \in AimedCall /\ t[k] \notin LeadsCall
  BY OneSent
<1> HIDE DEF t
<1>6. c \notin GroupsCall /\ c \notin Recounting /\ c \notin QuietCall /\ c \notin Owing
  BY <1>4, CallKinds DEF Recounting, ChangeCall, GroupCall, QuietCall, Owing
<1>7. Hidden'
  BY <1>2 DEF Hidden
<1>8. OneCreated'
  BY <1>1, <1>3, <1>5, OneMoved DEF ListInv
<1>9. ASSUME ~crossed'
      PROVE  Aimed' /\ Alone' /\ ListKept' /\ GroupsKept'
  <2>1. Aimed /\ Alone /\ ListKept /\ GroupsKept /\ ~Earlier(n)
    BY <1>2, <1>9 DEF ListInv, Uncrossed
  <2>2. Aimed'
    BY <1>1, <1>2, <1>3, <1>5, <2>1, AimedMoved
  <2>3. GroupsKept'
    BY <1>1, <1>2, <1>3, <1>5, <1>6, <2>1, GroupsMoved
  <2>4. ~OnTheWay(calls, CreateCall)
    BY <1>6, <2>1, NotQuiet
  <2> DEFINE u == calls'
  <2>5. u \in Seq(Sound) /\ Moved(u, calls, n, t) /\ Taken(u, calls, n, t)
    BY <1>3
  <2>6. Owing' = Owing /\ FreshLeads' = FreshLeads /\ Now' = Now
    BY <1>2 DEF Owing, FreshLeads, Now
  <2>7. \A m \in 1 .. n - 1 : calls[m] \notin LeadsCall
    BY <1>1, <1>2, <2>1, EarlierKinds
  <2>8. FreshLeads \subseteq LeadsCall
    BY DEF FreshLeads
  <2> HIDE DEF u, c
  <2>9. ~OnTheWay(u, CreateCall)
    BY <1>1, <1>3, <1>5, <2>4, <2>5, MovedKeeps
  <2>10. Alone'
    BY <2>9 DEF Alone, u
  <2>11. OnTheWay(calls, Owing) => OnTheWay(u, Owing)
    <3>1. calls[n] \notin Owing
      BY <1>6 DEF c
    <3> QED
      BY ONLY <1>1, <1>3, <2>5, <3>1, MovedHolds
  <2>12. LastSent(calls, FreshLeads, LeadsCall) =>
           LastSent(u, FreshLeads, LeadsCall) \/ (calls[n] \in FreshLeads /\ ~OnTheWay(u, LeadsCall))
    BY ONLY <1>1, <1>3, <1>5, <2>5, <2>7, <2>8, FirstTaken, n \in 1 .. Len(calls)
  <2>13. OnTheWay(calls, LeadsCall)
    BY <1>2 DEF OnTheWay, c
  <2>14. calls[n] \in FreshLeads => Shown'
    <3>1. ~OnTheWay(u, Storing')
      BY <2>9 DEF OnTheWay, Storing
    <3>2. calls[n] \in FreshLeads => listing' = Now
      BY <1>2 DEF FreshLeads, c
    <3> QED
      BY <1>2, <2>6, <3>1, <3>2 DEF Shown, u
  <2>15. ListKept'
    BY <2>1, <2>6, <2>11, <2>12, <2>13, <2>14 DEF ListKept, u
  <2> QED
    BY <2>2, <2>3, <2>10, <2>15
<1> QED
  BY <1>2, <1>7, <1>8, <1>9 DEF ListInv, Uncrossed

(* An answer after which nothing is left to be done, or what the page      *)
(* sends after it does that.                                               *)
LEMMA SettledStep ==
    ASSUME ListInv, ListTypes', NEW n \in 1 .. Len(calls), Answered(n, <<>>),
           calls[n] \in Call, calls[n].what \notin {"groups", "leads"}, ~crossed' => ~calls[n].done \/ ~calls[n].ok,
           loadingRows' => loadingRows /\ calls[n] \notin CampaignCall,
           UNCHANGED <<base, listing, sidebar, group, onTop, sought>>, crossed => crossed'
    PROVE  ListInv'
<1> DEFINE c == calls[n]
           t == <<>>
<1>1. ListTypes /\ c \in Call
  BY DEF ListInv
<1>2. t \in Seq(Sound) /\ calls' \in Seq(Sound) /\ Moved(calls', calls, n, t) /\ n # 0
  BY <1>1, MovedAnswered
<1>3. /\ ~OnTheWay(t, CreateCall) /\ ~OnTheWay(t, GroupsCall) /\ ~OnTheWay(t, LeadsCall) /\ ~OnTheWay(t, Storing)
      /\ \A k \in 1 .. Len(t) : FALSE
  BY OneSent
<1> HIDE DEF t
<1>4. c \notin GroupsCall /\ c \notin LeadsCall
  BY <1>1, CallKinds
<1>5. loadingRows' => c \notin Loading
  BY <1>4 DEF Loading
<1>6. Hidden'
  <2>1. ~loadingRows' \/ (loadingRows /\ (n # 0 => calls[n] \notin Loading))
    BY <1>5
  <2> QED
    BY <1>1, <1>2, <2>1, HiddenMoved DEF ListInv
<1>7. OneCreated'
  BY <1>1, <1>2, <1>3, OneMoved DEF ListInv
<1>8. ASSUME ~crossed'
      PROVE  Aimed' /\ Alone' /\ ListKept' /\ GroupsKept'
  <2>1. Aimed /\ Alone /\ ListKept /\ GroupsKept
    BY <1>8 DEF ListInv, Uncrossed
  <2>2. c \notin Owing /\ c \notin Storing /\ c \notin Recounting
    BY <1>8 DEF Owing, Storing, Recounting
  <2>3. Aimed'
    BY <1>1, <1>2, <1>3, <2>1, AimedMoved
  <2>4. Alone'
    BY <1>1, <1>2, <1>3, <2>1, AloneMoved
  <2>5. ListKept'
    BY <1>1, <1>2, <1>3, <1>4, <2>1, <2>2, LeadsMoved
  <2>6. GroupsKept'
    BY <1>1, <1>2, <1>3, <1>4, <2>1, <2>2, GroupsMoved
  <2> QED
    BY <2>3, <2>4, <2>5, <2>6
<1> QED
  BY <1>6, <1>7, <1>8 DEF ListInv, Uncrossed

(* The groups are loaded after a change that is done.                      *)
LEMMA ReloadStep ==
    ASSUME ListInv, ListTypes', NEW n \in 1 .. Len(calls), NEW then \in SUBSET Aim, then = calls[n].then,
           Answered(n, <<Groups(then)>>), calls[n] \in ChangeCall \cup GroupCall,
           UNCHANGED <<base, listing, sidebar, group, onTop, sought, crossed, loadingRows>>
    PROVE  ListInv'
<1> DEFINE c == calls[n]
           a == Groups(then)
           t == <<a>>
<1>1. ListTypes
  BY DEF ListInv
<1>2. t \in Seq(Sound) /\ calls' \in Seq(Sound) /\ Moved(calls', calls, n, t) /\ n # 0
  BY <1>1, MovedAnswered
<1>3. a \in GroupsCall /\ a \in Call /\ c \in Call
  BY <1>1, CallsMade, SoundCalls DEF AnyGroup, ListTypes
<1>4. a.what = "groups" /\ ~a.done /\ a.then = then
  BY DEF Groups
<1> HIDE DEF a
<1>5. a \notin CreateCall /\ a \notin LeadsCall /\ a \notin Storing
  BY <1>3, <1>4, CallKinds DEF Storing
<1>6. c \notin GroupsCall /\ c \notin LeadsCall /\ c \notin CampaignCall /\ c \notin Storing /\ c.what # "groups"
  BY DEF ChangeCall, GroupCall, GroupsCall, LeadsCall, CampaignCall, CreateCall, Storing
<1>7. c \notin Loading /\ a \in FreshGroups' /\ (then # {} => a \in Owing')
  BY <1>3, <1>4, <1>6 DEF Loading, FreshGroups, Owing
<1>8. ~OnTheWay(t, CreateCall) /\ ~OnTheWay(t, LeadsCall) /\ ~OnTheWay(t, Storing)
  BY <1>5, OneSent
<1>9. \A k \in 1 .. Len(t) : t[k] = a
  BY OneSent
<1>10. LastSent(t, FreshGroups', GroupsCall) /\ (then # {} => OnTheWay(t, Owing'))
  <2> DEFINE F == FreshGroups'
             O == Owing'
  <2>1. a \in F /\ (then # {} => a \in O)
    BY <1>7
  <2> HIDE DEF F, O
  <2>2. LastSent(t, F, GroupsCall)
    BY <2>1, OneSent
  <2>3. then # {} => OnTheWay(t, O)
    BY <2>1, OneSent
  <2> QED
    BY <2>2, <2>3 DEF F, O
<1> HIDE DEF t
<1>11. Hidden'
  <2>1. ~loadingRows' \/ (loadingRows /\ (n # 0 => calls[n] \notin Loading))
    BY <1>7
  <2> QED
    BY <1>1, <1>2, <2>1, HiddenMoved DEF ListInv
<1>12. OneCreated'
  BY <1>1, <1>2, <1>8, OneMoved DEF ListInv
<1>13. ASSUME ~crossed'
       PROVE  Aimed' /\ Alone' /\ ListKept' /\ GroupsKept'
  <2>1. Aimed /\ Alone /\ ListKept /\ GroupsKept
    BY <1>13 DEF ListInv, Uncrossed
  <2>2. Aimed'
    <3>1. calls[n].what # "leads"
      BY DEF ChangeCall, GroupCall
    <3>2. a \in AimedCall
      BY <1>3, <1>4, <2>1, <3>1 DEF Aimed, AimedCall
    <3> QED
      BY <1>1, <1>2, <1>9, <2>1, <3>2, AimedMoved
  <2>3. Alone'
    <3>1. OnTheWay(calls, CreateCall) => a \in QuietCall
      BY <1>3, <1>4, <2>1 DEF Alone, QuietCall
    <3>2. OnTheWay(calls, CreateCall) => \A k \in 1 .. Len(t) : t[k] \in QuietCall
      BY <1>9, <3>1
    <3> QED
      BY <1>1, <1>2, <1>8, <2>1, <3>2, AloneMoved
  <2>4. GroupsKept'
    BY <1>1, <1>2, <1>10, GroupsAsked
  <2>5. ListKept'
    <3>1. CASE then = {}
      <4>1. c \notin Owing
        BY <3>1 DEF Owing
      <4> QED
        BY <1>1, <1>2, <1>6, <1>8, <2>1, <4>1, LeadsMoved
    <3>2. CASE then # {}
      <4> DEFINE O == Owing'
                 u == calls'
      <4>1. OnTheWay(t, O) /\ u \in Seq(Sound) /\ Moved(u, calls, n, t) /\ calls \in Seq(Sound)
        BY <1>1, <1>2, <1>10, <3>2 DEF ListTypes
      <4> HIDE DEF O, u
      <4>2. OnTheWay(u, O)
        BY ONLY <1>2, <4>1, MovedKeeps
      <4> QED
        BY <4>2 DEF ListKept, O, u
    <3> QED
      BY <3>1, <3>2
  <2> QED
    BY <2>2, <2>3, <2>4, <2>5
<1> QED
  BY <1>11, <1>12, <1>13 DEF ListInv, Uncrossed

LEMMA PressDoneStep == ASSUME ListInv, NEW n \in 1 .. Len(calls), PressDone(n) PROVE ListInv'
<1>1. ListTypes
  BY DEF ListInv
<1> DEFINE c == calls[n]
           t == Following(c.then)
<1>2. /\ ListTypes' /\ c \in ChangeCall \cup CampaignCall /\ c.done
      /\ UNCHANGED <<base, listing, sidebar, group, onTop, crossed>>
      /\ \/ ~c.ok /\ c \in ChangeCall /\ Answered(n, <<>>) /\ UNCHANGED <<loadingRows, sought>>
         \/ /\ c.ok /\ c \in ChangeCall /\ Answered(n, <<Groups(c.then)>>)
            /\ UNCHANGED <<loadingRows, sought>>
         \/ /\ c \in CampaignCall /\ Answered(n, t)
            /\ sought' = (CHOOSE x \in c.then : TRUE)[1]
  BY <1>1, PressDoneEffect
<1>3. c \in Call /\ c.then \in SUBSET Aim /\ c.then # {} /\ c.what \notin {"groups", "leads"}
  BY <1>1, <1>2, SoundCalls DEF ChangeCall, CampaignCall
<1>4. c \in ChangeCall => c \notin CampaignCall
  BY DEF ChangeCall, CampaignCall
<1>5. CASE ~c.ok /\ c \in ChangeCall
  <2>1. Answered(n, <<>>) /\ UNCHANGED <<loadingRows, sought>>
    BY <1>2, <1>4, <1>5
  <2> QED
    BY <1>2, <1>3, <1>4, <1>5, <2>1, SettledStep
<1>6. CASE c.ok /\ c \in ChangeCall
  <2>1. Answered(n, <<Groups(c.then)>>) /\ UNCHANGED <<loadingRows, sought>>
    BY <1>2, <1>4, <1>6
  <2> QED
    BY <1>2, <1>3, <1>6, <2>1, ReloadStep
<1>7. CASE c \in CampaignCall
  <2>1. Answered(n, t) /\ sought' = (CHOOSE x \in c.then : TRUE)[1]
    BY <1>2, <1>4, <1>7
  <2>2. t \in Seq(Sound) /\ calls' \in Seq(Sound) /\ Moved(calls', calls, n, t) /\ n # 0
    BY <1>1, <2>1, MovedAnswered
  <2>3. /\ ~OnTheWay(t, CreateCall) /\ ~OnTheWay(t, GroupsCall) /\ OnTheWay(t, Loading)
        /\ \A k \in 1 .. Len(t) : t[k] \in AimedCall
    BY <1>1, <1>3, FollowingSent
  <2>4. c \notin QuietCall /\ c \notin Recounting /\ c \notin GroupsCall
    BY <1>3, <1>7 DEF QuietCall, Recounting, CampaignCall, ChangeCall, GroupCall, GroupsCall
  <2> HIDE DEF t
  <2>5. Hidden'
    BY <1>1, <2>2, <2>3, HiddenMoved DEF ListInv
  <2>6. OneCreated'
    BY <1>1, <2>2, <2>3, OneMoved DEF ListInv
  <2>7. ASSUME ~crossed'
        PROVE  Aimed' /\ Alone' /\ ListKept' /\ GroupsKept'
    <3>1. Aimed /\ Alone /\ ListKept /\ GroupsKept
      BY <1>2, <2>7 DEF ListInv, Uncrossed
    <3>2. Aimed'
      BY <1>1, <1>2, <2>2, <2>3, <3>1, AimedMoved
    <3>3. ~OnTheWay(calls, CreateCall)
      BY <2>4, <3>1, NotQuiet
    <3>4. Alone'
      BY <1>1, <1>2, <2>2, <2>3, <3>1, <3>3, AloneMoved
    <3>5. GroupsKept'
      BY <1>1, <1>2, <2>2, <2>3, <2>4, <3>1, GroupsMoved
    <3>6. LastSent(t, FreshLeads', LeadsCall)
      BY <1>1, <1>2, <1>3, <2>1, <3>1, FollowingFresh DEF t
    <3>7. ListKept'
      BY <1>1, <2>2, <3>6, LeadsAsked
    <3> QED
      BY <3>2, <3>4, <3>5, <3>7
  <2> QED
    BY <1>2, <2>5, <2>6, <2>7 DEF ListInv, Uncrossed
<1> QED
  BY <1>2, <1>5, <1>6, <1>7

LEMMA GroupCreatedStep == ASSUME ListInv, NEW n \in 1 .. Len(calls), GroupCreated(n) PROVE ListInv'
<1>1. ListTypes
  BY DEF ListInv
<1>2. /\ ListTypes' /\ calls[n] \in GroupCall
      /\ UNCHANGED <<base, listing, sidebar, group, onTop, crossed, sought, loadingRows>>
      /\ Answered(n, <<Groups({})>>)
  BY <1>1, GroupCreatedEffect
<1>3. {} \in SUBSET Aim /\ calls[n].then = {}
  BY <1>2 DEF GroupCall
<1> QED
  BY <1>2, <1>3, ReloadStep

LEMMA LeadCreatedStep == ASSUME ListInv, NEW n \in 1 .. Len(calls), LeadCreated(n) PROVE ListInv'
<1>1. ListTypes
  BY DEF ListInv
<1> DEFINE c == calls[n]
           t == <<>>
<1>2. /\ ListTypes' /\ c \in CreateCall /\ c.done
      /\ UNCHANGED <<base, sidebar, group, crossed, sought, loadingRows>>
      /\ Answered(n, t)
      /\ c.ok => /\ listing'.leads = c.below.leads \cup {c.lead}
                 /\ listing'.inGroup = c.below.inGroup
                 /\ onTop' = c.above \cup {c.lead}
      /\ ~c.ok => UNCHANGED <<listing, onTop>>
  BY <1>1, LeadCreatedEffect
<1>3. c \in Call /\ c.what = "create" /\ c.then = {}
  BY <1>1, <1>2, SoundCalls DEF CreateCall
<1>4. c \notin CampaignCall /\ c \notin LeadsCall /\ c \notin GroupsCall /\ c \notin Recounting
  BY <1>3, CallKinds DEF Recounting, ChangeCall, GroupCall
<1>5. CASE ~c.ok
  BY <1>2, <1>3, <1>4, <1>5, SettledStep
<1>6. CASE c.ok
  <2>1. t \in Seq(Sound) /\ calls' \in Seq(Sound) /\ Moved(calls', calls, n, t) /\ n # 0
    BY <1>1, <1>2, MovedAnswered
  <2>2. ~OnTheWay(t, CreateCall) /\ ~OnTheWay(t, LeadsCall) /\ ~OnTheWay(t, GroupsCall) /\ \A k \in 1 .. Len(t) : FALSE
    BY OneSent
  <2> HIDE DEF t
  <2>3. c \notin Loading
    BY <1>4 DEF Loading
  <2>4. Hidden'
    <3>1. ~loadingRows' \/ (loadingRows /\ (n # 0 => calls[n] \notin Loading))
      BY <1>2, <2>3, Zenon DEF ListTypes
    <3> QED
      BY <1>1, <2>1, <3>1, HiddenMoved DEF ListInv
  <2>5. OneCreated' /\ ~OnTheWay(calls', CreateCall)
    BY <1>1, <1>2, <2>1, <2>2, OneMoved DEF ListInv
  <2>6. ASSUME ~crossed'
        PROVE  Aimed' /\ Alone' /\ ListKept' /\ GroupsKept'
    <3>1. Aimed /\ Alone /\ ListKept /\ GroupsKept
      BY <1>2, <2>6 DEF ListInv, Uncrossed
    <3>2. Aimed'
      BY <1>1, <1>2, <2>1, <2>2, <3>1, AimedMoved
    <3>3. Alone'
      BY <2>5 DEF Alone
    <3>4. GroupsKept'
      BY <1>1, <1>2, <1>4, <2>1, <2>2, <3>1, GroupsMoved
    <3>5. \A i \in 1 .. Len(calls) : calls[i] \in QuietCall
      BY <1>2, <3>1 DEF Alone, OnTheWay
    <3>6. ~OnTheWay(calls, Owing)
      BY <3>5 DEF OnTheWay, Owing, QuietCall
    <3>7. ~OnTheWay(calls, LeadsCall)
      BY <3>5 DEF OnTheWay, LeadsCall, QuietCall
    <3>8. Shown
      <4>1. ~LastSent(calls, FreshLeads, LeadsCall)
        BY <3>7 DEF LastSent, OnTheWay, FreshLeads
      <4> QED
        BY <3>1, <3>6, <4>1 DEF ListKept
    <3>9. c \in Topping
      <4>1. c \in Storing
        BY <1>2, <1>6 DEF Storing
      <4>2. OnTheWay(calls, Topping)
        BY <3>8, <4>1 DEF Shown, OnTheWay
      <4>3. \A i \in 1 .. Len(calls) : calls[i] \in CreateCall => i = n
        BY <1>2 DEF ListInv, OneCreated, AtMostOne
      <4> QED
        BY <4>2, <4>3 DEF OnTheWay, Topping, Storing
    <3>10. c.below = listing /\ c.above = onTop
      BY <1>3, <3>5 DEF QuietCall
    <3>11. Now' = Now
      BY <1>2 DEF Now
    <3>12. listing'.leads = Now.leads \cup onTop' /\ listing'.inGroup = Now.inGroup
      BY <1>2, <1>6, <3>8, <3>9, <3>10 DEF Topping, Shown
    <3> DEFINE u == calls'
    <3>13. u \in Seq(Sound) /\ Moved(u, calls, n, t) /\ calls \in Seq(Sound)
      BY <1>1, <2>1 DEF ListTypes
    <3>14. ~OnTheWay(u, CreateCall)
      BY <2>5
    <3> HIDE DEF u
    <3>15. ~OnTheWay(u, LeadsCall)
      BY ONLY <2>1, <2>2, <3>7, <3>13, MovedKeeps
    <3>16. ~OnTheWay(u, Storing')
      BY <3>14 DEF OnTheWay, Storing
    <3>17. ListKept'
      BY <3>11, <3>12, <3>15, <3>16 DEF ListKept, Shown, u
    <3> QED
      BY <3>2, <3>3, <3>4, <3>17
  <2> QED
    BY <1>2, <2>4, <2>5, <2>6 DEF ListInv, Uncrossed
<1> QED
  BY <1>5, <1>6

LEMMA CallLostStep == ASSUME ListInv, NEW n \in 1 .. Len(calls), CallLost(n) PROVE ListInv'
<1>1. ListTypes
  BY DEF ListInv
<1> DEFINE c == calls[n]
           t == Following(c.then)
<1>2. /\ ListTypes' /\ UNCHANGED <<base, listing, sidebar, group, onTop>>
      /\ crossed' = (crossed \/ c.what \in {"groups", "leads"} \/ c.done)
      /\ \/ /\ c \in GroupsCall /\ Answered(n, t)
            /\ loadingRows' => loadingRows \/ c.then # {}
         \/ /\ c \notin GroupsCall /\ Answered(n, <<>>) /\ UNCHANGED sought
            /\ loadingRows' => loadingRows /\ c \notin LeadsCall \cup CampaignCall
  BY <1>1, CallLostEffect
<1>3. c \in Call
  BY <1>1, SoundCalls
<1>4. CASE c \in GroupsCall
  <2>1. c.what = "groups" /\ c.then \in SUBSET Aim
    BY <1>4 DEF GroupsCall
  <2>2. Answered(n, t) /\ (loadingRows' => loadingRows \/ c.then # {}) /\ crossed'
    BY <1>2, <1>4, <2>1
  <2>3. t \in Seq(Sound) /\ calls' \in Seq(Sound) /\ Moved(calls', calls, n, t) /\ n # 0
    BY <1>1, <2>2, MovedAnswered
  <2>4. ~OnTheWay(t, CreateCall) /\ (c.then # {} => OnTheWay(t, Loading))
    BY <1>1, <2>1, FollowingSent
  <2>5. c.then = {} => c \notin Loading
    BY <1>3, <2>1, CallKinds DEF Loading
  <2>6. \/ ~loadingRows'
        \/ loadingRows /\ (n # 0 => calls[n] \notin Loading)
        \/ OnTheWay(t, Loading)
    BY <2>2, <2>4, <2>5
  <2> HIDE DEF t
  <2>7. Hidden'
    BY <1>1, <2>3, <2>6, HiddenMoved DEF ListInv
  <2>8. OneCreated'
    BY <1>1, <2>3, <2>4, OneMoved DEF ListInv
  <2> QED
    BY <1>2, <2>2, <2>7, <2>8 DEF ListInv, Uncrossed
<1>5. CASE c \in LeadsCall
  <2>1. c.what = "leads" /\ c \notin GroupsCall
    BY <1>5 DEF LeadsCall, GroupsCall
  <2>2. Answered(n, <<>>) /\ ~loadingRows' /\ crossed'
    BY <1>2, <1>5, <2>1
  <2>3. Hidden'
    BY <2>2 DEF Hidden
  <2> DEFINE e == <<>>
  <2>4. e \in Seq(Sound) /\ calls' \in Seq(Sound) /\ Moved(calls', calls, n, e) /\ n # 0
    BY <1>1, <2>2, MovedAnswered
  <2>5. ~OnTheWay(e, CreateCall)
    BY OneSent
  <2> HIDE DEF e
  <2>6. OneCreated'
    BY <1>1, <2>4, <2>5, OneMoved DEF ListInv
  <2> QED
    BY <1>2, <2>2, <2>3, <2>6 DEF ListInv, Uncrossed
<1>6. CASE c \notin GroupsCall /\ c \notin LeadsCall
  <2>1. c.what \notin {"groups", "leads"}
    BY <1>3, <1>6, CallKinds
  <2>2. Answered(n, <<>>) /\ UNCHANGED sought /\ (loadingRows' => loadingRows /\ c \notin CampaignCall)
    BY <1>2, <1>6
  <2>3. (~crossed' => ~c.done) /\ (crossed => crossed')
    BY <1>2
  <2> QED
    BY <1>2, <1>3, <2>1, <2>2, <2>3, SettledStep
<1> QED
  BY <1>4, <1>5, <1>6

LEMMA ListInvStep == ListInv /\ [LeadListNext]_listVars => ListInv'
<1> SUFFICES ASSUME ListInv, [LeadListNext]_listVars
             PROVE  ListInv'
  OBVIOUS
<1>1. CASE UNCHANGED listVars
  <2>1. UNCHANGED <<base, listing, sidebar, group, query, ticked, form, loadingRows, calls, onTop, sought, crossed>>
    BY <1>1 DEF listVars, asking
  <2>2. ListTypes'
    BY <2>1 DEF ListInv, ListTypes, Sound
  <2> QED
    BY <2>1, <2>2, Unmoved
<1>2. CASE \/ TypeQuery \/ handleToggleSelectAll \/ DeselectAll \/ OpenForm \/ CloseForm
           \/ \E l \in ListLead : handleToggleSelectLead(l)
  <2>1. ListTypes'
    BY <1>2, SentTyped DEF ListInv
  <2>2. UNCHANGED <<base, listing, sidebar, group, loadingRows, calls, onTop, sought, crossed>>
    BY <1>2 DEF TypeQuery, handleToggleSelectAll, DeselectAll, OpenForm, CloseForm, handleToggleSelectLead
  <2> QED
    BY <2>1, <2>2, Unmoved
<1>3. CASE handleSearchSubmit
  BY <1>3, SearchStep
<1>4. CASE \E g \in ListGroup \cup {All} : SelectGroup(g)
  BY <1>4, SelectStep
<1>5. CASE handleCreateGroup
  BY <1>5, NewGroupStep
<1>6. CASE \/ handleRemoveLeadsFromGroup \/ handleBulkDelete \/ handleBulkAddLeadsToCampaign
           \/ \E groups \in SUBSET ListGroup : handleBulkAddLeadsToGroups(groups)
  BY <1>6, PressStep
<1>7. CASE \E l \in ListLead : handleCreateLead(l)
  BY <1>7, CreateLeadStep
<1>8. ASSUME NEW n \in 1 .. Len(calls),
             \/ ReadCall(n) \/ PerformCall(n) \/ CallLost(n)
             \/ GroupsLoaded(n) \/ LeadsLoaded(n) \/ PressDone(n) \/ GroupCreated(n) \/ LeadCreated(n)
      PROVE  ListInv'
  BY <1>8, ReadStep, PerformStep, CallLostStep, GroupsLoadedStep, LeadsLoadedStep, PressDoneStep,
     GroupCreatedStep, LeadCreatedStep
<1> QED
  BY <1>1, <1>2, <1>3, <1>4, <1>5, <1>6, <1>7, <1>8 DEF LeadListNext

LEMMA ListSettled == ListInv => ListSettles
<1> SUFFICES ASSUME ListInv, calls = <<>>, ~crossed
             PROVE  LET now == Matching(base, sought, group) IN
                    /\ sidebar = Counts(base) /\ ~loadingRows
                    /\ listing.leads = now.leads \cup onTop
                    /\ now.inGroup = listing.inGroup
  BY DEF ListSettles
<1>1. \A i \in 1 .. Len(calls) : FALSE
  OBVIOUS
<1>2. \A P, Q : ~OnTheWay(calls, P) /\ ~LastSent(calls, P, Q)
  BY <1>1 DEF OnTheWay, LastSent
<1>3. ~loadingRows /\ ListKept /\ GroupsKept
  BY <1>2 DEF ListInv, Hidden, Uncrossed
<1>4. Shown /\ sidebar = Counts(base)
  BY <1>2, <1>3 DEF ListKept, GroupsKept
<1>5. listing.inGroup = Now.inGroup /\ listing.leads = Now.leads \cup onTop
  BY <1>2, <1>4 DEF Shown
<1> QED
  BY <1>3, <1>4, <1>5 DEF Now

(* When nothing is on its way any more, the page shows the groups there    *)
(* are and the leads that the search and the group asked for last have:    *)
(* ListSettles, for any leads, groups and number of requests, with all the *)
(* changes, searches and answers that can come between.                    *)
THEOREM ListAlwaysSettles == LeadListSpec => []ListSettles
<1>1. LeadListInit => ListInv
  BY ListInvInit
<1>2. ListInv /\ [LeadListNext]_listVars => ListInv'
  BY ListInvStep
<1>3. ListInv => ListSettles
  BY ListSettled
<1> QED
  BY <1>1, <1>2, <1>3, PTL DEF LeadListSpec

-----------------------------------------------------------------------------
(* The rest of the types: the leads on top are in the list, and so will    *)
(* they be when a lead that is being created is put on them.               *)
Stacked == {c \in Call : c \in CreateCall => c.above \subseteq c.below.leads}
Topped == onTop \subseteq listing.leads /\ \A i \in 1 .. Len(calls) : calls[i] \in Stacked
ListCounted == listActs \in 0 .. MaxListActs /\ listFaults \in 0 .. MaxListFaults
ListStacked == ListTypes /\ Topped /\ ListCounted

LEMMA ToppedMoved ==
    ASSUME ListTypes, Topped, NEW n, NEW t \in Seq(Sound), calls' \in Seq(Sound), Moved(calls', calls, n, t),
           onTop' \subseteq listing'.leads, \A k \in 1 .. Len(t) : t[k] \in Stacked
    PROVE  Topped'
<1>1. calls \in Seq(Sound)
  BY DEF ListTypes
<1>2. \A i \in 1 .. Len(calls) : i # n => calls[i] \in Stacked
  BY DEF Topped
<1> DEFINE u == calls'
<1>3. u \in Seq(Sound) /\ Moved(u, calls, n, t)
  OBVIOUS
<1> HIDE DEF u
<1>4. \A j \in 1 .. Len(u) : u[j] \in Stacked
  BY ONLY <1>1, <1>2, <1>3, MovedAll, t \in Seq(Sound), \A k \in 1 .. Len(t) : t[k] \in Stacked
<1>5. Stacked' = Stacked
  BY DEF Stacked
<1> QED
  BY <1>4, <1>5 DEF Topped, u

LEMMA ToppedWritten ==
    ASSUME ListTypes, Topped, NEW n \in 1 .. Len(calls), NEW d \in Sound, calls' = [calls EXCEPT ![n] = d],
           d \in Stacked, UNCHANGED <<listing, onTop>>
    PROVE  Topped'
<1>1. calls \in Seq(Sound)
  BY DEF ListTypes
<1>2. Len(calls') = Len(calls) /\ \A i \in 1 .. Len(calls) : calls'[i] = IF i = n THEN d ELSE calls[i]
  BY <1>1, ExceptSeq
<1>3. Stacked' = Stacked
  BY DEF Stacked
<1>4. \A i \in 1 .. Len(calls) : calls'[i] \in Stacked
  BY <1>2, Zenon DEF Topped
<1> QED
  BY <1>2, <1>3, <1>4 DEF Topped

LEMMA ToppedSent ==
    ASSUME ListTypes, Topped, NEW c \in Sound, c \in Stacked, calls' = Append(calls, c), UNCHANGED <<listing, onTop>>
    PROVE  Topped'
<1> DEFINE t == <<c>>
<1>1. calls' = calls \o t /\ t \in Seq(Sound) /\ \A k \in 1 .. Len(t) : t[k] = c
  BY AppendIsConcat DEF ListTypes
<1> HIDE DEF t
<1>2. calls' \in Seq(Sound) /\ Moved(calls', calls, 0, t)
  BY <1>1, MovedSent
<1> QED
  BY <1>1, <1>2, ToppedMoved DEF Topped

LEMMA OtherCallsStacked ==
    /\ \A c \in GroupsCall \cup LeadsCall \cup ChangeCall \cup CampaignCall \cup GroupCall : c \in Stacked
    /\ ListTypes => /\ \A then \in SUBSET Aim : Groups(then) \in Stacked /\ <<Groups(then)>> \in Seq(Sound)
                    /\ \A q \in BOOLEAN, g \in AnyGroup : Leads(q, g) \in Stacked
                    /\ \A then \in SUBSET Aim : \A k \in 1 .. Len(Following(then)) : Following(then)[k] \in Stacked
<1>1. ASSUME NEW c \in GroupsCall \cup LeadsCall \cup ChangeCall \cup CampaignCall \cup GroupCall
      PROVE  c \in Stacked
  <2>1. c \in Call /\ c.what # "create"
    BY DEF Call, GroupsCall, LeadsCall, ChangeCall, CampaignCall, GroupCall
  <2> QED
    BY <2>1, CallKinds DEF Stacked
<1>2. ASSUME ListTypes
      PROVE  /\ \A then \in SUBSET Aim : Groups(then) \in Stacked /\ <<Groups(then)>> \in Seq(Sound)
             /\ \A q \in BOOLEAN, g \in AnyGroup : Leads(q, g) \in Stacked
  <2>1. ASSUME NEW then \in SUBSET Aim
        PROVE  Groups(then) \in Stacked /\ <<Groups(then)>> \in Seq(Sound)
    <3>1. Groups(then) \in Sound /\ Groups(then) \in Call /\ Groups(then).what = "groups"
      BY <1>2, SoundCalls DEF Groups
    <3> QED
      BY <1>1, <3>1, CallKinds
  <2>2. ASSUME NEW q \in BOOLEAN, NEW g \in AnyGroup
        PROVE  Leads(q, g) \in Stacked
    <3>1. Leads(q, g) \in Call /\ Leads(q, g).what = "leads"
      BY <1>2, SoundCalls DEF Leads
    <3> QED
      BY <1>1, <3>1, CallKinds
  <2> QED
    BY <2>1, <2>2
<1>3. ASSUME ListTypes, NEW then \in SUBSET Aim
      PROVE  \A k \in 1 .. Len(Following(then)) : Following(then)[k] \in Stacked
  <2>1. CASE then = {}
    BY <1>3, <2>1, FollowingSound
  <2>2. CASE then # {}
    <3>1. PICK t \in then : t[1] \in BOOLEAN /\ t[2] \in AnyGroup /\ Following(then) = <<Leads(t[1], t[2])>>
      BY <1>3, <2>2, FollowingSound
    <3>2. Leads(t[1], t[2]) \in Stacked
      BY <1>2, <1>3, <3>1
    <3> QED
      BY <3>1, <3>2
  <2> QED
    BY <2>1, <2>2
<1> QED
  BY <1>1, <1>2, <1>3

(* The answer of the request at n makes the page send t.                   *)
LEMMA ToppedAnswered ==
    ASSUME ListTypes, Topped, NEW n \in 1 .. Len(calls), NEW t, Answered(n, t), \A k \in 1 .. Len(t) : t[k] \in Stacked,
           onTop' \subseteq listing'.leads
    PROVE  Topped'
BY MovedAnswered, ToppedMoved

LEMMA ToppedPage ==
    ASSUME ListTypes, Topped,
           \/ TypeQuery \/ handleSearchSubmit \/ handleToggleSelectAll \/ DeselectAll
           \/ handleCreateGroup \/ OpenForm \/ CloseForm
           \/ \E g \in ListGroup \cup {All} : SelectGroup(g)
           \/ \E l \in ListLead : handleToggleSelectLead(l)
    PROVE  Topped'
<1>1. CASE \/ TypeQuery \/ handleToggleSelectAll \/ DeselectAll \/ OpenForm \/ CloseForm
           \/ \E l \in ListLead : handleToggleSelectLead(l)
  <2>1. UNCHANGED <<listing, onTop, calls>>
    BY <1>1 DEF TypeQuery, handleToggleSelectAll, DeselectAll, OpenForm, CloseForm, handleToggleSelectLead
  <2> QED
    BY <2>1 DEF Topped, Stacked
<1>2. CASE handleSearchSubmit
  <2>1. Leads(query, group) \in Sound /\ Leads(query, group) \in Stacked
    BY SoundCalls, OtherCallsStacked DEF ListTypes
  <2> QED
    BY <1>2, <2>1, ToppedSent DEF handleSearchSubmit, Issue
<1>3. CASE handleCreateGroup
  <2> DEFINE c == [Bulk("newgroup", {}, {}) EXCEPT !.then = {}]
  <2>1. c \in GroupCall /\ c.what = "newgroup"
    BY BulkMade DEF Bulk
  <2>2. calls' = Append(calls, c) /\ UNCHANGED <<listing, onTop>>
    BY <1>3 DEF handleCreateGroup, Issue
  <2> HIDE DEF c
  <2>3. c \in Sound
    BY <2>1, SoundCalls DEF Sound
  <2> QED
    BY <2>1, <2>2, <2>3, OtherCallsStacked, ToppedSent
<1>4. ASSUME NEW g \in ListGroup \cup {All}, SelectGroup(g)
      PROVE  Topped'
  <2> DEFINE a == Groups({})
             b == Leads(query, g)
             t == <<a, b>>
  <2>1. a \in Sound /\ b \in Sound /\ a \in Stacked /\ b \in Stacked
    BY SoundCalls, OtherCallsStacked DEF ListTypes, AnyGroup
  <2>2. calls' = calls \o t /\ UNCHANGED <<listing, onTop>>
    BY <1>4 DEF SelectGroup
  <2> HIDE DEF a, b
  <2>3. t \in Seq(Sound) /\ \A k \in 1 .. Len(t) : t[k] \in Stacked
    BY <2>1
  <2> HIDE DEF t
  <2>4. calls' \in Seq(Sound) /\ Moved(calls', calls, 0, t)
    BY <2>2, <2>3, MovedSent
  <2> QED
    BY <2>2, <2>3, <2>4, ToppedMoved DEF Topped
<1> QED
  BY <1>1, <1>2, <1>3, <1>4

LEMMA ToppedCalls ==
    ASSUME ListTypes, Topped, NEW n \in 1 .. Len(calls),
           \/ ReadCall(n) \/ PerformCall(n) \/ CallLost(n)
           \/ GroupsLoaded(n) \/ LeadsLoaded(n) \/ PressDone(n) \/ GroupCreated(n) \/ LeadCreated(n)
    PROVE  Topped'
<1>1. calls[n] \in Stacked /\ calls[n] \in Call /\ onTop \subseteq listing.leads
  BY SoundCalls DEF Topped
<1>2. \A k \in 1 .. Len(<<>>) : <<>>[k] \in Stacked
  OBVIOUS
<1>3. /\ calls[n] \in GroupsCall => calls[n].then \in SUBSET Aim
      /\ calls[n] \in ChangeCall \cup CampaignCall => calls[n].then \in SUBSET Aim
  BY DEF GroupsCall, ChangeCall, CampaignCall
<1>4. CASE ReadCall(n)
  <2>1. PICK d \in Sound : calls' = [calls EXCEPT ![n] = d] /\ (d \in GroupsCall \/ d \in LeadsCall)
    BY <1>4, ReadEffect
  <2>2. UNCHANGED <<listing, onTop>>
    BY <1>4, ReadEffect
  <2> QED
    BY <2>1, <2>2, OtherCallsStacked, ToppedWritten
<1>5. CASE PerformCall(n)
  <2>1. PICK d \in Sound : /\ calls' = [calls EXCEPT ![n] = d] /\ d.what = calls[n].what
                           /\ calls[n] \in CreateCall => d.below = calls[n].below /\ d.above = calls[n].above
    <3>1. \/ calls[n] \in CreateCall
          \/ calls[n] \notin CreateCall
      OBVIOUS
    <3>2. /\ calls[n] \in ChangeCall \cup CampaignCall => calls[n] \notin CreateCall
          /\ calls[n] \in GroupCall => calls[n] \notin CreateCall
      BY <1>1, CallKinds
    <3> QED
      BY <1>5, <3>2, PerformEffect
  <2>2. UNCHANGED <<listing, onTop>>
    BY <1>5, PerformEffect
  <2>3. d \in Call /\ (d \in CreateCall => calls[n] \in CreateCall)
    BY <1>1, <2>1, SoundCalls, CallKinds
  <2>4. d \in Stacked
    BY <1>1, <2>1, <2>3 DEF Stacked
  <2> QED
    BY <2>1, <2>2, <2>4, ToppedWritten
<1>6. CASE CallLost(n)
  BY <1>1, <1>2, <1>3, <1>6, CallLostEffect, OtherCallsStacked, ToppedAnswered
<1>7. CASE GroupsLoaded(n)
  BY <1>1, <1>3, <1>7, GroupsLoadedEffect, OtherCallsStacked, ToppedAnswered
<1>8. CASE LeadsLoaded(n)
  BY <1>2, <1>8, LeadsLoadedEffect, ToppedAnswered
<1>9. CASE PressDone(n)
  <2>1. onTop' \subseteq listing'.leads /\ calls[n].then \in SUBSET Aim
    BY <1>1, <1>3, <1>9, PressDoneEffect
  <2>2. Groups(calls[n].then) \in Stacked
    BY <2>1, OtherCallsStacked
  <2>3. \A k \in 1 .. Len(<<Groups(calls[n].then)>>) : <<Groups(calls[n].then)>>[k] \in Stacked
    BY <2>2
  <2> QED
    BY <1>2, <1>9, <2>1, <2>3, PressDoneEffect, OtherCallsStacked, ToppedAnswered
<1>10. CASE GroupCreated(n)
  <2>1. Groups({}) \in Stacked
    BY OtherCallsStacked
  <2>2. \A k \in 1 .. Len(<<Groups({})>>) : <<Groups({})>>[k] \in Stacked
    BY <2>1
  <2> QED
    BY <1>1, <1>10, <2>2, GroupCreatedEffect, ToppedAnswered
<1>11. CASE LeadCreated(n)
  <2>1. onTop' \subseteq listing'.leads
    BY <1>1, <1>11, LeadCreatedEffect DEF Stacked
  <2> QED
    BY <1>2, <1>11, <2>1, LeadCreatedEffect, ToppedAnswered
<1> QED
  BY <1>4, <1>5, <1>6, <1>7, <1>8, <1>9, <1>10, <1>11

LEMMA ListStackedInit == LeadListInit => ListStacked
<1> SUFFICES ASSUME LeadListInit PROVE ListStacked
  OBVIOUS
<1>1. ListTypes
  BY ListTypesInit
<1> DEFINE a == Groups({})
           b == Leads(FALSE, All)
<1>2. a \in Stacked /\ b \in Stacked
  BY <1>1, OtherCallsStacked DEF AnyGroup
<1>3. calls = <<a, b>> /\ onTop = {}
  BY DEF LeadListInit
<1> HIDE DEF a, b
<1>4. Topped
  BY <1>2, <1>3 DEF Topped
<1> QED
  BY <1>1, <1>4, ListAssumption DEF ListStacked, ListCounted, LeadListInit

LEMMA ListCountedStep == ASSUME ListCounted, LeadListNext PROVE ListCounted'
<1>1. CASE Act /\ UNCHANGED listFaults
  BY <1>1, ListAssumption DEF ListCounted, Act
<1>2. CASE UNCHANGED <<listActs, listFaults>>
  BY <1>2 DEF ListCounted
<1>3. CASE ListFault /\ UNCHANGED listActs
  BY <1>3, ListAssumption DEF ListCounted, ListFault
<1>4. \/ Act /\ UNCHANGED listFaults
      \/ UNCHANGED <<listActs, listFaults>>
      \/ ListFault /\ UNCHANGED listActs
  BY DEF LeadListNext, TypeQuery, handleSearchSubmit, handleToggleSelectAll, DeselectAll, handleCreateGroup,
         handleRemoveLeadsFromGroup, handleBulkDelete, handleBulkAddLeadsToCampaign, OpenForm, CloseForm, SelectGroup,
         handleBulkAddLeadsToGroups, handleToggleSelectLead, handleCreateLead, ReadCall, PerformCall, CallLost,
         GroupsLoaded, LeadsLoaded, PressDone, GroupCreated, LeadCreated, Press
<1> QED
  BY <1>1, <1>2, <1>3, <1>4

LEMMA ListStackedStep == ListInv /\ ListStacked /\ [LeadListNext]_listVars => ListStacked'
<1> SUFFICES ASSUME ListInv, ListStacked, [LeadListNext]_listVars PROVE ListStacked'
  OBVIOUS
<1>1. ListTypes /\ Topped /\ ListCounted /\ ListTypes'
  BY ListInvStep DEF ListStacked, ListInv
<1>2. CASE UNCHANGED listVars
  BY <1>1, <1>2 DEF listVars, ListStacked, Topped, Stacked, ListCounted
<1>3. CASE LeadListNext
  <2>1. CASE \/ handleRemoveLeadsFromGroup \/ handleBulkDelete \/ handleBulkAddLeadsToCampaign
             \/ \E groups \in SUBSET ListGroup : handleBulkAddLeadsToGroups(groups)
    <3>1. PICK c \in Sound : c \in ChangeCall \cup CampaignCall /\ calls' = Append(calls, c)
      BY <1>1, <2>1, PressEffect
    <3>2. UNCHANGED <<listing, onTop>>
      BY <1>1, <2>1, PressEffect
    <3> QED
      BY <1>1, <3>1, <3>2, OtherCallsStacked, ToppedSent, ListCountedStep, <1>3 DEF ListStacked
  <2>2. ASSUME NEW l \in ListLead, handleCreateLead(l) PROVE Topped'
    <3>1. PICK c \in Sound : c \in CreateCall /\ c.below = listing /\ c.above = onTop /\ calls' = Append(calls, c)
      BY <1>1, <2>2, CreateLeadEffect
    <3>2. UNCHANGED <<listing, onTop>>
      BY <1>1, <2>2, CreateLeadEffect
    <3>3. c \in Stacked
      BY <1>1, <3>1, SoundCalls DEF Stacked, Topped
    <3> QED
      BY <1>1, <3>1, <3>2, <3>3, ToppedSent
  <2>3. Topped'
    BY <1>1, <1>3, <2>1, <2>2, ToppedPage, ToppedCalls DEF LeadListNext, ListStacked
  <2> QED
    BY <1>1, <1>3, <2>3, ListCountedStep DEF ListStacked
<1> QED
  BY <1>2, <1>3

(* The variables of the leads page keep their types, and a lead that is on *)
(* top of the list is in it: LeadListTypeOK.                               *)
THEOREM ListTypesCorrect == LeadListSpec => []LeadListTypeOK
<1>1. LeadListInit => ListInv /\ ListStacked
  BY ListInvInit, ListStackedInit
<1>2. ListInv /\ ListStacked /\ [LeadListNext]_listVars => (ListInv /\ ListStacked)'
  BY ListInvStep, ListStackedStep
<1>3. ListStacked => LeadListTypeOK
  BY DEF ListStacked, ListTypes, ListRows, AnyGroup, Topped, ListCounted, LeadListTypeOK
<1> QED
  BY <1>1, <1>2, <1>3, PTL DEF LeadListSpec
=============================================================================
