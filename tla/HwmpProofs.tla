----------------------------- MODULE HwmpProofs -----------------------------
(***************************************************************************)
(* HWMP on any mesh of forwarding nodes: while no neighbour is lost, no    *)
(* destination's frames ever go round a ring, whatever is asked, lost or   *)
(* lapses, and what a node says of itself goes out with rising numbers, as *)
(* long as no number is in use half the number space after it was drawn.   *)
(* While neighbours come and go but no frame is lost, none goes round a    *)
(* ring once the air is quiet, nor ends at a node without the path, as     *)
(* long as the announcements reach whom they are for.                      *)
(*                                                                         *)
(* The argument: a live path never runs uphill.  Its next hop has a path   *)
(* with a newer number or, with the same one, a smaller metric, or has     *)
(* none and will only hear of newer numbers; who passes a word on keeps a  *)
(* path as good as the word.  Round a ring the numbers would have to get   *)
(* newer, or the metric smaller, all the way.  When neighbours go, a next  *)
(* hop may also have lost its path while the news of it is on its way,     *)
(* behind every word it said of that path.                                 *)
(***************************************************************************)
EXTENDS Hwmp, FiniteSetTheorems, SequenceTheorems, WellFoundedInduction, TLAPS

(***************************************************************************)
(* Numbers.                                                                *)
(***************************************************************************)
Half == SnMod \div 2

LEMMA HalfIs == SnMod \in Nat /\ SnMod > 1 /\ Half \in Nat /\ Half >= 1 /\ 2 * Half <= SnMod /\ SnMod <= 2 * Half + 1
BY HwmpAssumption DEF HwmpAssumption, Half

\* A remainder near the modulus.
LEMMA Remainder ==
  ASSUME NEW x \in Int, -SnMod <= x, x < SnMod + SnMod
  PROVE  x % SnMod = IF x < 0 THEN x + SnMod ELSE IF x < SnMod THEN x ELSE x - SnMod
<1>1. SnMod \in Nat /\ SnMod > 0
  BY HalfIs
<1>2. CASE x < 0
  BY <1>1, <1>2
<1>3. CASE 0 <= x /\ x < SnMod
  BY <1>1, <1>3
<1>4. CASE SnMod <= x
  <2>1. \A y \in 0 .. SnMod - 1 : (y + SnMod) % SnMod = y
    BY <1>1
  <2>2. x - SnMod \in 0 .. SnMod - 1 /\ (x - SnMod) + SnMod = x
    BY <1>1, <1>4
  <2>3. ((x - SnMod) + SnMod) % SnMod = x - SnMod
    BY <2>1, <2>2
  <2>4. x % SnMod = x - SnMod
    BY <2>2, <2>3
  <2> QED  BY <1>1, <1>4, <2>4
<1> QED  BY <1>1, <1>2, <1>3, <1>4

\* How far number w lies behind s.
Behind(s, w) == (s - w) % SnMod

LEMMA BehindIs ==
  ASSUME NEW s \in Sn, NEW w \in Sn
  PROVE  /\ Behind(s, w) = IF s < w THEN s - w + SnMod ELSE s - w
         /\ Behind(s, w) \in Sn /\ Behind(s, w) \in Nat /\ (Behind(s, w) = 0 <=> s = w)
         /\ w \in Window(s) <=> Behind(s, w) < Half
<1>1. SnMod \in Nat /\ SnMod > 1 /\ s \in 0 .. SnMod - 1 /\ w \in 0 .. SnMod - 1
  BY HalfIs DEF Sn
<1>2. (s - w) % SnMod = IF s < w THEN s - w + SnMod ELSE s - w
  <2>1. CASE s < w
    <3>1. s - w \in Int /\ -SnMod <= s - w /\ s - w < SnMod + SnMod /\ s - w < 0
      BY <1>1, <2>1
    <3> QED  BY <2>1, <3>1, Remainder
  <2>2. CASE ~(s < w)
    <3>1. s - w \in 0 .. SnMod - 1
      BY <1>1, <2>2
    <3> QED  BY <1>1, <2>2, <3>1
  <2> QED  BY <2>1, <2>2
<1>3. Behind(s, w) = IF s < w THEN s - w + SnMod ELSE s - w
  BY <1>2 DEF Behind
<1> DEFINE b == IF s < w THEN s - w + SnMod ELSE s - w
<1>4. b \in Sn /\ b \in Nat /\ (b = 0 <=> s = w)
  BY <1>1 DEF Sn
<1>5. w \in Window(s) <=> Behind(s, w) < Half
  BY DEF Window, Behind, Half
<1> HIDE DEF b
<1>6. Behind(s, w) = b
  BY <1>3 DEF b
<1> QED  BY <1>3, <1>4, <1>5, <1>6

\* Behind one number, what is newer is nearer.
LEMMA NewerIs ==
  ASSUME NEW s \in Sn, NEW a \in Window(s), NEW b \in Window(s)
  PROVE  Newer(a, b) <=> Behind(s, a) < Behind(s, b)
<1>1. a \in Sn /\ b \in Sn
  BY DEF Window
<1> DEFINE x == b - a
           p == Behind(s, a)
           q == Behind(s, b)
<1>2. /\ p = IF s < a THEN s - a + SnMod ELSE s - a
      /\ q = IF s < b THEN s - b + SnMod ELSE s - b
      /\ p < Half /\ q < Half /\ p \in Sn /\ q \in Sn
  BY <1>1, BehindIs
<1>3. Newer(a, b) <=> x % SnMod >= Half /\ a # b
  BY DEF Newer, Half
<1> HIDE DEF p, q
<1>4. x \in Int /\ -SnMod <= x /\ x < SnMod /\ (x = p - q \/ x = p - q + SnMod \/ x = p - q - SnMod) /\ (x = 0 <=> a = b)
  BY <1>1, <1>2, HalfIs DEF Sn
<1> HIDE DEF x
<1>5. x % SnMod = IF x < 0 THEN x + SnMod ELSE x
  BY <1>4, Remainder, HalfIs
<1>6. p \in Int /\ q \in Int /\ p >= 0 /\ q >= 0
  BY <1>2, HalfIs DEF Sn
<1> DEFINE r == x % SnMod
<1>7. r >= Half /\ x # 0 <=> p < q
  <2>1. r = IF x < 0 THEN x + SnMod ELSE x
    BY <1>5
  <2> HIDE DEF r
  <2>2. ASSUME p < q  PROVE r >= Half /\ x # 0
    BY <2>1, <2>2, <1>2, <1>4, <1>6, HalfIs
  <2>3. ASSUME r >= Half, x # 0  PROVE p < q
    BY <2>1, <2>3, <1>2, <1>4, <1>6, HalfIs
  <2> QED  BY <2>2, <2>3
<1> QED  BY <1>3, <1>4, <1>7 DEF p, q

\* Of two numbers behind a third, one is newer, or they are the same; newer than newer is newer.
LEMMA NewerOrders ==
  ASSUME NEW s \in Sn, NEW a \in Window(s), NEW b \in Window(s)
  PROVE  /\ a = b \/ Newer(a, b) \/ Newer(b, a)
         /\ ~(Newer(a, b) /\ Newer(b, a)) /\ ~Newer(a, a)
         /\ \A c \in Window(s) : Newer(a, b) /\ Newer(b, c) => Newer(a, c)
<1> DEFINE d(w) == Behind(s, w)
<1>1. \A w \in Window(s) : w \in Sn
  BY DEF Window
<1>2. \A w \in Window(s) : d(w) \in Int /\ d(w) = IF s < w THEN s - w + SnMod ELSE s - w
  BY <1>1, BehindIs
<1>3. \A v, w \in Window(s) : Newer(v, w) <=> d(v) < d(w)
  BY NewerIs
<1>4. d(a) = d(b) => a = b
  <2>1. /\ a \in 0 .. SnMod - 1 /\ b \in 0 .. SnMod - 1 /\ s \in 0 .. SnMod - 1
        /\ d(a) = IF s < a THEN s - a + SnMod ELSE s - a
        /\ d(b) = IF s < b THEN s - b + SnMod ELSE s - b
    BY <1>1, <1>2 DEF Sn
  <2> HIDE DEF d
  <2> QED  BY <2>1, HalfIs
<1> HIDE DEF d
<1>5. d(a) \in Int /\ d(b) \in Int /\ \A c \in Window(s) : d(c) \in Int
  BY <1>2
<1>6. a = b \/ d(a) < d(b) \/ d(b) < d(a)
  BY <1>4, <1>5
<1>7. ~(d(a) < d(b) /\ d(b) < d(a)) /\ ~(d(a) < d(a))
  BY <1>5
<1>8. \A c \in Window(s) : d(a) < d(b) /\ d(b) < d(c) => d(a) < d(c)
  BY <1>5
<1> QED  BY <1>3, <1>6, <1>7, <1>8

\* The number of a node is newer than what is in use of it, and its next one is none of it.
LEMMA NewestIs ==
  ASSUME NEW s \in Sn, NEW w \in Window(s), w # s
  PROVE  Newer(s, w)
<1>1. w \in Sn /\ s \in Window(s) /\ Behind(s, s) = 0 /\ Behind(s, w) \in Sn /\ Behind(s, w) # 0
  BY BehindIs, HalfIs DEF Window
<1>2. Behind(s, s) < Behind(s, w)
  BY <1>1, HalfIs DEF Sn
<1> QED  BY <1>1, <1>2, NewerIs

\* Numbers drawn after s: none of them is in use before, and they are newer than what stays in use.
Later(s, k) == (s + k) % SnMod

\* y is k steps on from s round the modulus m, b how far w lies behind s and c behind y.
OnAndBack(m, h, s, w, y, k, b, c) ==
  /\ m \in Nat /\ h \in Nat /\ 2 * h <= m /\ s \in 0 .. m - 1 /\ w \in 0 .. m - 1 /\ y \in 0 .. m - 1
  /\ k \in Nat /\ 2 * k <= m /\ b \in Nat /\ b < h
  /\ y = IF s + k < m THEN s + k ELSE s + k - m
  /\ b = IF s < w THEN s - w + m ELSE s - w
  /\ c = IF y < w THEN y - w + m ELSE y - w

LEMMA BackIs ==
  ASSUME NEW m, NEW h, NEW s, NEW w, NEW y, NEW k, NEW b, NEW c, OnAndBack(m, h, s, w, y, k, b, c)
  PROVE  c = b + k
BY DEF OnAndBack

\* y is k steps on from s and x but i, c how far x lies behind y.
OnTwice(m, s, x, y, k, i, c) ==
  /\ m \in Nat /\ m > 1 /\ s \in 0 .. m - 1 /\ x \in 0 .. m - 1 /\ y \in 0 .. m - 1
  /\ k \in Nat /\ 2 * k <= m /\ i \in 0 .. k
  /\ y = IF s + k < m THEN s + k ELSE s + k - m
  /\ x = IF s + i < m THEN s + i ELSE s + i - m
  /\ c = IF y < x THEN y - x + m ELSE y - x

LEMMA TwiceIs ==
  ASSUME NEW m, NEW s, NEW x, NEW y, NEW k, NEW i, NEW c, OnTwice(m, s, x, y, k, i, c)
  PROVE  c = k - i
BY DEF OnTwice

LEMMA LaterIs ==
  ASSUME NEW s \in Sn, NEW k \in Nat, 2 * k <= SnMod
  PROVE  /\ Later(s, k) \in Sn
         /\ k > 0 => Later(s, k) \notin Window(s) /\ Later(s, k) # s
         /\ \A w \in Window(s) : Behind(Later(s, k), w) = Behind(s, w) + k
         /\ \A i \in 0 .. k : Behind(Later(s, k), Later(s, i)) = k - i /\ Later(s, i) \in Sn
<1>1. SnMod \in Nat /\ SnMod > 1 /\ s \in 0 .. SnMod - 1 /\ Half \in Nat /\ SnMod <= 2 * Half + 1 /\ 2 * Half <= SnMod
  BY HalfIs DEF Sn
<1>2. ASSUME NEW i \in 0 .. k
      PROVE  /\ Later(s, i) = IF s + i < SnMod THEN s + i ELSE s + i - SnMod
             /\ Later(s, i) \in Sn
  <2> DEFINE x == s + i
  <2>1. x \in Int /\ -SnMod <= x /\ x < SnMod + SnMod /\ ~(x < 0)
    BY <1>1
  <2>2. (IF x < SnMod THEN x ELSE x - SnMod) \in Sn
    BY <1>1, <2>1 DEF Sn
  <2>3. Later(s, i) = x % SnMod
    BY DEF Later
  <2> HIDE DEF x
  <2>4. x % SnMod = IF x < SnMod THEN x ELSE x - SnMod
    BY <2>1, Remainder
  <2>5. Later(s, i) = (IF x < SnMod THEN x ELSE x - SnMod)
    BY <2>3, <2>4
  <2> QED  BY <1>1, <2>2, <2>5 DEF x
<1> DEFINE y == Later(s, k)
<1>3. k \in 0 .. k /\ y \in Sn /\ y = IF s + k < SnMod THEN s + k ELSE s + k - SnMod
  BY <1>2
<1>4. y \in Sn /\ y \in 0 .. SnMod - 1
  BY <1>3 DEF Sn
<1> HIDE DEF y
<1>5. ASSUME NEW w \in Window(s)  PROVE Behind(y, w) = Behind(s, w) + k
  <2> DEFINE b == Behind(s, w)
  <2>1. w \in Sn /\ w \in 0 .. SnMod - 1
    BY DEF Window, Sn
  <2>2. b = (IF s < w THEN s - w + SnMod ELSE s - w) /\ b \in Nat /\ b < Half
    BY <2>1, BehindIs
  <2>3. Behind(y, w) = IF y < w THEN y - w + SnMod ELSE y - w
    BY <1>3, <2>1, BehindIs
  <2> HIDE DEF b
  <2>4. OnAndBack(SnMod, Half, s, w, y, k, b, Behind(y, w))
    BY <1>1, <1>3, <1>4, <2>1, <2>2, <2>3 DEF OnAndBack
  <2>5. Behind(y, w) = b + k
    BY <2>4, BackIs
  <2> QED  BY <2>5 DEF b
<1>6. ASSUME k > 0  PROVE y \notin Window(s) /\ y # s
  <2>1. Behind(s, y) = IF s < y THEN s - y + SnMod ELSE s - y
    BY <1>4, BehindIs
  <2>2. (IF s < y THEN s - y + SnMod ELSE s - y) >= Half /\ y # s
    BY <1>1, <1>3, <1>4, <1>6
  <2>3. y \in Window(s) => Behind(s, y) < Half
    BY <1>3, BehindIs
  <2> DEFINE b == IF s < y THEN s - y + SnMod ELSE s - y
  <2>4. b \in Int /\ b >= Half
    BY <1>1, <1>4, <2>2
  <2> HIDE DEF b
  <2>5. Behind(s, y) = b
    BY <2>1 DEF b
  <2>6. ~(b < Half)
    BY <1>1, <2>4
  <2> QED  BY <2>2, <2>3, <2>5, <2>6
<1>7. ASSUME NEW i \in 0 .. k  PROVE Behind(y, Later(s, i)) = k - i /\ Later(s, i) \in Sn
  <2> DEFINE x == Later(s, i)
  <2>1. x \in Sn /\ x = IF s + i < SnMod THEN s + i ELSE s + i - SnMod
    BY <1>2
  <2>2. x \in Sn /\ x \in 0 .. SnMod - 1
    BY <2>1 DEF Sn
  <2> HIDE DEF x
  <2>3. Behind(y, x) = IF y < x THEN y - x + SnMod ELSE y - x
    BY <1>4, <2>2, BehindIs
  <2>4. OnTwice(SnMod, s, x, y, k, i, Behind(y, x))
    BY <1>1, <1>3, <1>4, <1>7, <2>1, <2>2, <2>3 DEF OnTwice
  <2>5. Behind(y, x) = k - i
    BY <2>4, TwiceIs
  <2> QED  BY <2>1, <2>5 DEF x
<1> QED  BY <1>3, <1>5, <1>6, <1>7 DEF y

\* What stays in use is older than any of the numbers just drawn.
LEMMA DrawnAreNewer ==
  ASSUME NEW s \in Sn, NEW k \in Nat, 2 * k <= SnMod, NEW w \in Window(s), w \in Window(Later(s, k)),
         NEW i \in 1 .. k, Later(s, i) \in Window(Later(s, k))
  PROVE  Newer(Later(s, i), w)
<1> DEFINE y == Later(s, k)
           b == Behind(s, w)
           bw == Behind(y, w)
           bi == Behind(y, Later(s, i))
<1>1. y \in Sn /\ bw = b + k /\ bi = k - i
  BY LaterIs
<1>2. b \in Nat
  BY BehindIs DEF Window
<1>3. Newer(Later(s, i), w) <=> bi < bw
  BY <1>1, NewerIs
<1> HIDE DEF y, b, bw, bi
<1>4. bi < bw
  BY <1>1, <1>2
<1> QED  BY <1>3, <1>4

(***************************************************************************)
(* Frames in the air.                                                      *)
(***************************************************************************)
Airs == [Pairs -> Seq(FrameType)]

LEMMA SetOfSeq ==
  ASSUME NEW T, NEW s \in Seq(T)
  PROVE  Len(s) \in Nat /\ \A x : x \in ToSet(s) <=> \E i \in 1 .. Len(s) : x = s[i]
BY DEF ToSet

LEMMA SetOfConcat ==
  ASSUME NEW T, NEW s \in Seq(T), NEW t \in Seq(T)
  PROVE  s \o t \in Seq(T) /\ ToSet(s \o t) = ToSet(s) \cup ToSet(t)
<1> DEFINE u == s \o t
<1>1. /\ u \in Seq(T) /\ Len(u) = Len(s) + Len(t) /\ Len(s) \in Nat /\ Len(t) \in Nat
      /\ \A i \in 1 .. Len(s) : u[i] = s[i]
      /\ \A i \in 1 .. Len(u) : i > Len(s) => u[i] = t[i - Len(s)]
  OBVIOUS
<1> HIDE DEF u
<1>5. u \in Seq(T)
  BY <1>1
<1>2. ASSUME NEW x \in ToSet(u)  PROVE x \in ToSet(s) \/ x \in ToSet(t)
  <2>1. PICK i \in 1 .. Len(u) : x = u[i]
    BY <1>5, SetOfSeq
  <2>2. CASE i <= Len(s)
    <3>1. i \in 1 .. Len(s) /\ x = s[i]
      BY <1>1, <2>1, <2>2
    <3> QED  BY <3>1, SetOfSeq
  <2>3. CASE ~(i <= Len(s))
    <3>1. i - Len(s) \in 1 .. Len(t) /\ x = t[i - Len(s)]
      BY <1>1, <2>1, <2>3
    <3> QED  BY <3>1, SetOfSeq
  <2> QED  BY <2>2, <2>3
<1>3. ASSUME NEW x \in ToSet(s)  PROVE x \in ToSet(u)
  <2>1. PICK i \in 1 .. Len(s) : x = s[i]
    BY SetOfSeq
  <2>2. i \in 1 .. Len(u) /\ x = u[i]
    BY <1>1, <2>1
  <2> QED  BY <1>1, <2>2, SetOfSeq
<1>4. ASSUME NEW x \in ToSet(t)  PROVE x \in ToSet(u)
  <2>1. PICK i \in 1 .. Len(t) : x = t[i]
    BY SetOfSeq
  <2>2. i + Len(s) \in 1 .. Len(u) /\ i + Len(s) > Len(s) /\ (i + Len(s)) - Len(s) = i
    BY <1>1
  <2>3. x = u[i + Len(s)]
    BY <1>1, <2>1, <2>2
  <2> QED  BY <1>1, <2>2, <2>3, SetOfSeq
<1> QED  BY <1>1, <1>2, <1>3, <1>4 DEF u

LEMMA SetOfAppend ==
  ASSUME NEW T, NEW s \in Seq(T), NEW e \in T
  PROVE  Append(s, e) \in Seq(T) /\ ToSet(Append(s, e)) = ToSet(s) \cup {e}
<1> DEFINE t == <<e>>
<1>1. Append(s, e) = s \o t
  BY AppendIsConcat
<1>2. t \in Seq(T) /\ ToSet(t) = {e}
  BY DEF ToSet
<1> HIDE DEF t
<1>3. s \o t \in Seq(T) /\ ToSet(s \o t) = ToSet(s) \cup ToSet(t)
  BY <1>2, SetOfConcat
<1> QED  BY <1>1, <1>2, <1>3

LEMMA SetOfTail ==
  ASSUME NEW T, NEW s \in Seq(T), s # <<>>
  PROVE  /\ Head(s) \in T /\ Head(s) \in ToSet(s)
         /\ Tail(s) \in Seq(T) /\ ToSet(Tail(s)) \subseteq ToSet(s) /\ Len(Tail(s)) = Len(s) - 1
BY DEF ToSet

LEMMA SetOfOne ==
  ASSUME NEW T, NEW e \in T
  PROVE  <<e>> \in Seq(T) /\ ToSet(<<e>>) = {e}
BY DEF ToSet

\* B is A with some frames gone and, from n, frames of M more.
Spread(A, B, n, M) ==
  /\ B \in Airs
  /\ \A q \in Pairs : \A m \in ToSet(B[q]) : m \in ToSet(A[q]) \/ (q[1] = n /\ m \in M)

LEMMA SpreadRest ==
  ASSUME air \in Airs, NEW n, NEW p, <<p, n>> \in Pairs, air[<<p, n>>] # <<>>, NEW k
  PROVE  Spread(air, Rest(n, p), k, {})
<1> DEFINE q0 == <<p, n>>
           B == [air EXCEPT ![q0] = Tail(@)]
<1>1. air[q0] \in Seq(FrameType)
  BY DEF Airs
<1>2. Tail(air[q0]) \in Seq(FrameType) /\ ToSet(Tail(air[q0])) \subseteq ToSet(air[q0])
  BY <1>1, SetOfTail
<1> HIDE DEF q0
<1>3. q0 \in Pairs
  BY DEF q0
<1>4. B \in Airs
  BY <1>2, <1>3 DEF Airs
<1>5. ASSUME NEW q \in Pairs  PROVE ToSet(B[q]) \subseteq ToSet(air[q])
  <2>1. B[q] = IF q = q0 THEN Tail(air[q0]) ELSE air[q]
    BY <1>3 DEF Airs
  <2> QED  BY <1>2, <2>1
<1> QED  BY <1>4, <1>5 DEF Rest, Spread, q0

LEMMA SpreadGroup ==
  ASSUME NEW A, NEW am, NEW n, NEW M, NEW ms \in Seq(FrameType), Spread(A, am, n, M)
  PROVE  Spread(A, Group(am, n, ms), n, M \cup ToSet(ms))
<1> DEFINE B == Group(am, n, ms)
<1>1. am \in Airs
  BY DEF Spread
<1>2. ASSUME NEW q \in Pairs
      PROVE  B[q] \in Seq(FrameType) /\ ToSet(B[q]) = IF q[1] = n THEN ToSet(am[q]) \cup ToSet(ms) ELSE ToSet(am[q])
  <2>1. am[q] \in Seq(FrameType) /\ B[q] = IF q[1] = n THEN am[q] \o ms ELSE am[q]
    BY <1>1 DEF Airs, Group
  <2>2. am[q] \o ms \in Seq(FrameType) /\ ToSet(am[q] \o ms) = ToSet(am[q]) \cup ToSet(ms)
    BY <2>1, SetOfConcat
  <2> HIDE DEF B
  <2> QED  BY <2>1, <2>2
<1>3. B = [q \in Pairs |-> B[q]]
  BY DEF Group
<1> HIDE DEF B
<1>4. B \in Airs
  BY <1>2, <1>3 DEF Airs
<1>5. Spread(A, B, n, M \cup ToSet(ms))
  BY <1>2, <1>4 DEF Spread
<1> QED  BY <1>5 DEF B

\* B is A with at most one frame of M more to each neighbour of n.
Adds(A, B, n, M) ==
  /\ B \in Airs
  /\ \A q \in Pairs : B[q] = A[q] \/ (q[1] = n /\ \E m \in M : B[q] = Append(A[q], m))

LEMMA AddsNone ==
  ASSUME NEW A \in Airs, NEW n, NEW M
  PROVE  Adds(A, A, n, M)
BY DEF Adds

LEMMA AddsGroup ==
  ASSUME NEW A \in Airs, NEW n, NEW m \in FrameType
  PROVE  Adds(A, Group(A, n, <<m>>), n, {m})
<1> DEFINE B == Group(A, n, <<m>>)
<1>1. ASSUME NEW q \in Pairs
      PROVE  B[q] \in Seq(FrameType) /\ B[q] = IF q[1] = n THEN Append(A[q], m) ELSE A[q]
  <2>1. A[q] \in Seq(FrameType) /\ B[q] = IF q[1] = n THEN A[q] \o <<m>> ELSE A[q]
    BY DEF Airs, Group
  <2>2. A[q] \o <<m>> = Append(A[q], m) /\ Append(A[q], m) \in Seq(FrameType)
    BY <2>1, AppendIsConcat, SetOfAppend
  <2> HIDE DEF B
  <2> QED  BY <2>1, <2>2
<1>2. B = [q \in Pairs |-> B[q]]
  BY DEF Group
<1> HIDE DEF B
<1>3. B \in Airs
  BY <1>1, <1>2 DEF Airs
<1>4. Adds(A, B, n, {m})
  BY <1>1, <1>3 DEF Adds
<1> QED  BY <1>4 DEF B

LEMMA AddsUnicast ==
  ASSUME NEW A \in Airs, NEW n, NEW p, NEW m \in FrameType
  PROVE  Adds(A, Unicast(A, n, p, m), n, {m})
<1>1. CASE <<n, p>> \notin Pairs
  BY <1>1, AddsNone DEF Unicast
<1>2. CASE <<n, p>> \in Pairs
  <2> DEFINE q0 == <<n, p>>
             B == [A EXCEPT ![q0] = Append(@, m)]
  <2>1. A[q0] \in Seq(FrameType) /\ Append(A[q0], m) \in Seq(FrameType)
    BY <1>2, SetOfAppend DEF Airs
  <2>2. q0 \in Pairs /\ q0[1] = n
    BY <1>2
  <2> HIDE DEF q0
  <2>3. B \in Airs
    BY <2>1, <2>2 DEF Airs
  <2>4. ASSUME NEW q \in Pairs  PROVE B[q] = IF q = q0 THEN Append(A[q0], m) ELSE A[q]
    BY <2>1, <2>2 DEF Airs
  <2> HIDE DEF B
  <2>5. Adds(A, B, n, {m})
    BY <2>2, <2>3, <2>4 DEF Adds
  <2> QED  BY <1>2, <2>5 DEF B, q0, Unicast
<1> QED  BY <1>1, <1>2

LEMMA AddsSpread ==
  ASSUME NEW A, NEW am, NEW B, NEW n, NEW M, Spread(A, am, n, {}), Adds(am, B, n, M), M \subseteq FrameType
  PROVE  Spread(A, B, n, M) /\ \A q \in Pairs : ToSet(am[q]) \subseteq ToSet(B[q])
<1>1. am \in Airs /\ B \in Airs
  BY DEF Spread, Adds
<1>2. ASSUME NEW q \in Pairs
      PROVE  /\ ToSet(am[q]) \subseteq ToSet(B[q])
             /\ \A x \in ToSet(B[q]) : x \in ToSet(A[q]) \/ (q[1] = n /\ x \in M)
  <2>1. am[q] \in Seq(FrameType) /\ \A x \in ToSet(am[q]) : x \in ToSet(A[q])
    BY <1>1 DEF Airs, Spread
  <2>2. CASE B[q] = am[q]
    BY <2>1, <2>2
  <2>3. ASSUME q[1] = n, NEW m \in M, B[q] = Append(am[q], m)
        PROVE  ToSet(B[q]) = ToSet(am[q]) \cup {m}
    BY <2>1, <2>3, SetOfAppend
  <2> QED  BY <2>1, <2>2, <2>3 DEF Adds
<1> QED  BY <1>1, <1>2 DEF Spread

(***************************************************************************)
(* What keeps rings away, of path tables P and frames A in the air: every  *)
(* live path runs downhill, to a next hop that knows better, or to one     *)
(* that has lost its path and will only hear newer words.                  *)
(***************************************************************************)
Tables == [Node -> [Node -> PathType \cup {NoPath}]]
Liv(P, n, d) == P[n][d] # NoPath /\ P[n][d].active /\ P[n][d].live

\* Path e is as good as number s at metric w; better than path f.
Vouches(e, s, w) == Newer(e.sn, s) \/ (e.sn = s /\ e.metric <= w)
Better(e, f)     == Newer(e.sn, f.sn) \/ (e.sn = f.sn /\ e.metric < f.metric)

Plain(P, A) ==
  /\ \A n, d \in Node : P[n][d] # NoPath => P[n][d].active
  /\ \A q \in Pairs : \A m \in ToSet(A[q]) : m.kind # "perr"
\* Who passes a word on has it in its table, or a better one.
Vouched(P, A) ==
  \A q \in Pairs : \A m \in ToSet(A[q]) :
    m.about # q[1] => Liv(P, q[1], m.about) /\ Vouches(P[q[1]][m.about], m.sn, m.metric)
HeardNewer(A, d, s) == \A q \in Pairs : \A m \in ToSet(A[q]) : m.about = d => Newer(m.sn, s)
Downhill(P, A) ==
  \A n, d \in Node : Liv(P, n, d) /\ P[n][d].nh # d =>
    IF Liv(P, P[n][d].nh, d) THEN Better(P[P[n][d].nh][d], P[n][d]) ELSE HeardNewer(A, d, P[n][d].sn)
NoRings(P, A) == Plain(P, A) /\ Vouched(P, A) /\ Downhill(P, A)

\* All that is in use of d's numbers lies in the window behind y.
InUse(P, A, d, y) ==
  /\ y \in Sn
  /\ \A n \in Node : P[n][d] # NoPath => P[n][d].sn \in Window(y)
  /\ \A q \in Pairs : \A m \in ToSet(A[q]) : m.about = d => m.sn \in Window(y)

LEMMA PathIs ==
  ASSUME NEW P \in Tables, NEW n \in Node, NEW d \in Node, P[n][d] # NoPath
  PROVE  /\ P[n][d] \in PathType /\ P[n][d].nh \in Node /\ P[n][d].sn \in Sn /\ P[n][d].metric \in Nat
         /\ P[n][d].active \in BOOLEAN /\ P[n][d].live \in BOOLEAN
<1>1. P[n][d] \in PathType
  BY DEF Tables
<1> QED  BY <1>1 DEF PathType

\* What is better than a better one is better.
LEMMA BetterOn ==
  ASSUME NEW y \in Sn, NEW e, NEW f, NEW g, e.sn \in Window(y), f.sn \in Window(y), g.sn \in Window(y),
         e.metric \in Nat, f.metric \in Nat, g.metric \in Nat, Better(e, f), Better(f, g)
  PROVE  Better(e, g)
<1>1. Newer(e.sn, f.sn) /\ Newer(f.sn, g.sn) => Newer(e.sn, g.sn)
  BY NewerOrders
<1> QED  BY <1>1 DEF Better

LEMMA VouchOn ==
  ASSUME NEW y \in Sn, NEW e, NEW f, NEW s \in Window(y), NEW w \in Nat, e.sn \in Window(y), f.sn \in Window(y),
         e.metric \in Nat, f.metric \in Nat, Better(e, f), Vouches(f, s, w)
  PROVE  Vouches(e, s, w)
<1>1. Newer(e.sn, f.sn) /\ Newer(f.sn, s) => Newer(e.sn, s)
  BY NewerOrders
<1> QED  BY <1>1 DEF Better, Vouches

\* A node's words of itself.
LEMMA OwnWordsKeep ==
  ASSUME NEW P, NEW A, NEW B, NEW d \in Node, NEW M, Spread(A, B, d, M), NoRings(P, A),
         \A m \in M : /\ m.about = d /\ m.kind # "perr"
                     /\ \A n \in Node : P[n][d] # NoPath => Newer(m.sn, P[n][d].sn)
  PROVE  NoRings(P, B)
<1>1. Plain(P, B)
  BY DEF Plain, Spread, NoRings
<1>2. Vouched(P, B)
  <2> SUFFICES ASSUME NEW q \in Pairs, NEW m \in ToSet(B[q]), m.about # q[1]
               PROVE  Liv(P, q[1], m.about) /\ Vouches(P[q[1]][m.about], m.sn, m.metric)
    BY DEF Vouched
  <2>1. m \in ToSet(A[q])
    BY DEF Spread
  <2> QED  BY <2>1 DEF NoRings, Vouched
<1>3. Downhill(P, B)
  <2> SUFFICES ASSUME NEW n \in Node, NEW e \in Node, Liv(P, n, e), P[n][e].nh # e, ~Liv(P, P[n][e].nh, e)
               PROVE  HeardNewer(B, e, P[n][e].sn)
    BY DEF NoRings, Downhill
  <2>1. HeardNewer(A, e, P[n][e].sn)
    BY DEF NoRings, Downhill
  <2>2. P[n][e] # NoPath
    BY DEF Liv
  <2> QED  BY <2>1, <2>2 DEF HeardNewer, Spread
<1> QED  BY <1>1, <1>2, <1>3 DEF NoRings

\* P1 is P after n took word m of neighbour p.
Learnt(P, P1, n, p, m) ==
  /\ \A k \in Node : k # n => P1[k] = P[k]
  /\ P1[n][m.about] = Path(p, m.sn, m.metric + Hop)
  /\ \A e \in Node : e # m.about => P1[n][e] = P[n][e] \/ (P1[n][e] = NoPath /\ ~Liv(P, n, e))
NewTo(P, n, m) ==
  Liv(P, n, m.about) => /\ ~Newer(P[n][m.about].sn, m.sn)
                        /\ m.sn = P[n][m.about].sn => m.metric + Hop < P[n][m.about].metric

\* The tables P and the air A become P1 and B as n takes m of p, and passes it on or not.
TakesIn(P, A, P1, B, n, p, m, y, M) ==
  /\ P \in Tables /\ P1 \in Tables /\ A \in Airs /\ n \in Node /\ p \in Node /\ <<p, n>> \in Pairs
  /\ m \in FrameType /\ m \in ToSet(A[<<p, n>>]) /\ m.about # n /\ m.kind # "perr"
  /\ Learnt(P, P1, n, p, m) /\ NewTo(P, n, m) /\ InUse(P, A, m.about, y) /\ Spread(A, B, n, M)
  /\ \A x \in M : x.about = m.about /\ x.sn = m.sn /\ x.metric = m.metric + Hop /\ x.kind # "perr"
  /\ NoRings(P, A)

LEMMA LearnKeeps ==
  ASSUME NEW P, NEW A, NEW P1, NEW B, NEW n, NEW p, NEW m, NEW y, NEW M, TakesIn(P, A, P1, B, n, p, m, y, M)
  PROVE  NoRings(P1, B)
<1> USE DEF TakesIn
<1> DEFINE d == m.about
           f == P1[n][d]
<1>1. d \in Node /\ m.sn \in Sn /\ m.metric \in Nat /\ Hop \in Nat /\ Hop > 0
  BY HwmpAssumption DEF FrameType, HwmpAssumption
<1>2. /\ f.nh = p /\ f.sn = m.sn /\ f.metric = m.metric + Hop /\ f.active /\ f.live
  BY DEF Learnt, Path
<1>3. f # NoPath
  <2>1. f \in [nh : Node, sn : 0 .. SnMod - 1, metric : Nat, active : BOOLEAN, live : BOOLEAN]
    BY <1>1 DEF Learnt, Path, Sn
  <2> QED  BY <2>1, HwmpAssumption DEF HwmpAssumption
<1>4. p # n
  BY HwmpAssumption DEF HwmpAssumption, Pairs
<1>5. m.sn \in Window(y) /\ y \in Sn
  BY DEF InUse
\* A path that is live in either table, n's path to d apart, is the same in both.
<1>6. ASSUME NEW k \in Node, NEW e \in Node, ~(k = n /\ e = d)
      PROVE  /\ Liv(P1, k, e) <=> Liv(P, k, e)
             /\ Liv(P1, k, e) => P1[k][e] = P[k][e]
  BY <1>6 DEF Learnt, Liv
<1>7. Liv(P1, n, d)
  BY <1>2, <1>3 DEF Liv
<1> HIDE DEF f
\* n's new path is better than the one it had.
<1>8. ASSUME Liv(P, n, d)  PROVE Better(f, P[n][d])
  <2>1. P[n][d] # NoPath /\ P[n][d].sn \in Window(y)
    BY <1>1, <1>8 DEF Liv, InUse
  <2>2. P[n][d].sn = m.sn \/ Newer(m.sn, P[n][d].sn)
    BY <1>5, <1>8, <2>1, NewerOrders DEF NewTo
  <2> QED  BY <1>2, <1>8, <2>2 DEF Better, NewTo
<1>9. Plain(P1, B)
  <2>1. ASSUME NEW k \in Node, NEW e \in Node, P1[k][e] # NoPath  PROVE P1[k][e].active
    BY <1>2, <2>1 DEF Learnt, NoRings, Plain, f
  <2>2. \A q \in Pairs : \A x \in ToSet(B[q]) : x.kind # "perr"
    BY DEF Spread, NoRings, Plain
  <2> QED  BY <2>1, <2>2 DEF Plain
<1>10. Vouched(P1, B)
  <2> SUFFICES ASSUME NEW q \in Pairs, NEW x \in ToSet(B[q]), x.about # q[1]
               PROVE  Liv(P1, q[1], x.about) /\ Vouches(P1[q[1]][x.about], x.sn, x.metric)
    BY DEF Vouched
  <2>1. CASE x \in ToSet(A[q])
    <3>1. /\ Liv(P, q[1], x.about) /\ Vouches(P[q[1]][x.about], x.sn, x.metric)
          /\ q[1] \in Node /\ x \in FrameType /\ x.about \in Node /\ x.sn \in Sn /\ x.metric \in Nat
      <4>1. Liv(P, q[1], x.about) /\ Vouches(P[q[1]][x.about], x.sn, x.metric)
        BY <2>1 DEF NoRings, Vouched
      <4>2. q[1] \in Node
        BY DEF Pairs
      <4>3. x \in FrameType
        BY DEF Spread, Airs, ToSet
      <4> QED  BY <4>1, <4>2, <4>3 DEF FrameType
    <3>2. CASE q[1] = n /\ x.about = d
      <4>1. x.sn \in Window(y) /\ P[n][d].sn \in Window(y) /\ P[n][d].metric \in Nat
        BY <1>1, <2>1, <3>1, <3>2, PathIs DEF InUse, Liv
      <4>2. Vouches(f, x.sn, x.metric)
        BY <1>1, <1>2, <1>5, <1>8, <3>1, <3>2, <4>1, VouchOn
      <4> QED  BY <1>7, <3>2, <4>2 DEF f
    <3>3. CASE ~(q[1] = n /\ x.about = d)
      BY <1>6, <3>1, <3>3
    <3> QED  BY <3>2, <3>3
  <2>2. CASE q[1] = n /\ x \in M
    <3>1. f.sn = x.sn /\ f.metric = x.metric /\ f.metric \in Nat
      BY <1>1, <1>2, <2>2
    <3>2. Vouches(f, x.sn, x.metric)
      BY <3>1 DEF Vouches
    <3> QED  BY <1>7, <2>2, <3>2 DEF f
  <2> QED  BY <2>1, <2>2 DEF Spread
<1>11. Downhill(P1, B)
  <2> SUFFICES ASSUME NEW k \in Node, NEW e \in Node, Liv(P1, k, e), P1[k][e].nh # e
               PROVE  IF Liv(P1, P1[k][e].nh, e) THEN Better(P1[P1[k][e].nh][e], P1[k][e])
                      ELSE HeardNewer(B, e, P1[k][e].sn)
    BY DEF Downhill
  <2>1. CASE k = n /\ e = d
    <3>1. Liv(P, p, d) /\ Vouches(P[p][d], m.sn, m.metric)
      BY <1>2, <2>1 DEF NoRings, Vouched, f
    <3>2. P1[p] = P[p] /\ P[p][d].metric \in Nat
      BY <1>1, <1>4, <3>1, PathIs DEF Learnt, Liv
    <3>3. Better(P[p][d], f)
      BY <1>1, <1>2, <3>1, <3>2 DEF Vouches, Better
    <3>4. Liv(P1, p, d)
      BY <3>1, <3>2 DEF Liv
    <3> QED  BY <1>2, <2>1, <3>2, <3>3, <3>4 DEF f
  <2>2. CASE ~(k = n /\ e = d)
    <3> DEFINE g == P[k][e]
               h == g.nh
    <3>1. P1[k][e] = g /\ Liv(P, k, e) /\ h # e /\ h \in Node /\ g.sn \in Sn /\ g.metric \in Nat
      BY <1>6, <2>2, PathIs DEF Liv
    <3>2. IF Liv(P, h, e) THEN Better(P[h][e], g) ELSE HeardNewer(A, e, g.sn)
      BY <3>1 DEF NoRings, Downhill
    <3>3. e = d => g.sn \in Window(y)
      BY <3>1 DEF InUse, Liv
    <3> HIDE DEF g, h
    <3>4. CASE h = n /\ e = d
      <4>1. CASE Liv(P, n, d)
        <5>1. Better(P[n][d], g) /\ P[n][d].sn \in Window(y) /\ P[n][d].metric \in Nat
          BY <1>1, <3>2, <3>4, <4>1, PathIs DEF InUse, Liv
        <5>2. Better(f, g)
          BY <1>1, <1>2, <1>5, <1>8, <3>1, <3>3, <3>4, <4>1, <5>1, BetterOn
        <5> QED  BY <1>7, <3>1, <3>4, <5>2 DEF f, g, h
      <4>2. CASE ~Liv(P, n, d)
        <5>1. Newer(m.sn, g.sn)
          BY <3>2, <3>4, <4>2 DEF HeardNewer
        <5>2. Better(f, g)
          BY <1>2, <5>1 DEF Better
        <5> QED  BY <1>7, <3>1, <3>4, <5>2 DEF f, g, h
      <4> QED  BY <4>1, <4>2
    <3>5. CASE ~(h = n /\ e = d)
      <4>1. (Liv(P1, h, e) <=> Liv(P, h, e)) /\ (Liv(P1, h, e) => P1[h][e] = P[h][e])
        BY <1>6, <3>1, <3>5
      <4>2. HeardNewer(A, e, g.sn) => HeardNewer(B, e, g.sn)
        BY DEF HeardNewer, Spread
      <4>3. IF Liv(P1, h, e) THEN Better(P1[h][e], g) ELSE HeardNewer(B, e, g.sn)
        BY <3>2, <4>1, <4>2
      <4> QED  BY <3>1, <4>3 DEF g, h
    <3> QED  BY <3>4, <3>5
  <2> QED  BY <2>1, <2>2
<1> QED  BY <1>9, <1>10, <1>11 DEF NoRings

\* A path of n to d lapses that everything said of d is newer than.
Lapses(P, A, P1, n, d, y) ==
  /\ P \in Tables /\ A \in Airs /\ n \in Node /\ d \in Node /\ P[n][d] # NoPath
  /\ \A k, e \in Node : ~(k = n /\ e = d) => P1[k][e] = P[k][e]
  /\ P1[n][d].active = P[n][d].active /\ P1[n][d].live = FALSE
  /\ HeardNewer(A, d, P[n][d].sn) /\ InUse(P, A, d, y) /\ NoRings(P, A)

LEMMA LapseKeeps ==
  ASSUME NEW P, NEW A, NEW P1, NEW n, NEW d, NEW y, Lapses(P, A, P1, n, d, y)
  PROVE  NoRings(P1, A)
<1> USE DEF Lapses
<1>1. ASSUME NEW k \in Node, NEW e \in Node
      PROVE  IF k = n /\ e = d THEN ~Liv(P1, k, e)
             ELSE P1[k][e] = P[k][e] /\ (Liv(P1, k, e) <=> Liv(P, k, e))
  BY DEF Liv
<1>2. P[n][d].sn \in Window(y)
  BY DEF InUse
<1>3. Plain(P1, A)
  BY DEF NoRings, Plain
<1>4. Vouched(P1, A)
  <2> SUFFICES ASSUME NEW q \in Pairs, NEW x \in ToSet(A[q]), x.about # q[1]
               PROVE  Liv(P1, q[1], x.about) /\ Vouches(P1[q[1]][x.about], x.sn, x.metric)
    BY DEF Vouched
  <2>1. Liv(P, q[1], x.about) /\ Vouches(P[q[1]][x.about], x.sn, x.metric)
    BY DEF NoRings, Vouched
  <2>2. q[1] \in Node /\ x.about \in Node
    <3>1. x \in FrameType
      BY DEF Airs, ToSet
    <3> QED  BY <3>1 DEF Pairs, FrameType
  <2>3. ~(q[1] = n /\ x.about = d)
    <3> SUFFICES ASSUME q[1] = n, x.about = d  PROVE FALSE
      OBVIOUS
    <3>1. Newer(x.sn, P[n][d].sn) /\ x.sn \in Window(y) /\ y \in Sn
      BY DEF HeardNewer, InUse
    <3>2. Newer(P[n][d].sn, x.sn) \/ P[n][d].sn = x.sn
      BY <2>1 DEF Vouches
    <3> QED  BY <1>2, <3>1, <3>2, NewerOrders
  <2> QED  BY <1>1, <2>1, <2>2, <2>3
<1>5. Downhill(P1, A)
  <2> SUFFICES ASSUME NEW k \in Node, NEW e \in Node, Liv(P1, k, e), P1[k][e].nh # e
               PROVE  IF Liv(P1, P1[k][e].nh, e) THEN Better(P1[P1[k][e].nh][e], P1[k][e])
                      ELSE HeardNewer(A, e, P1[k][e].sn)
    BY DEF Downhill
  <2> DEFINE g == P[k][e]
             h == g.nh
  <2>1. P1[k][e] = g /\ Liv(P, k, e) /\ h # e /\ h \in Node
    BY <1>1, PathIs DEF Liv
  <2>2. IF Liv(P, h, e) THEN Better(P[h][e], g) ELSE HeardNewer(A, e, g.sn)
    BY <2>1 DEF NoRings, Downhill
  <2>3. e = d => g.sn \in Window(y)
    BY <2>1 DEF InUse, Liv
  <2> HIDE DEF g, h
  <2>4. CASE h = n /\ e = d
    <3>1. HeardNewer(A, d, g.sn)
      <4>1. CASE Liv(P, n, d)
        <5>1. Newer(P[n][d].sn, g.sn) \/ P[n][d].sn = g.sn
          BY <2>2, <2>4, <4>1 DEF Better
        <5>2. ASSUME NEW q \in Pairs, NEW x \in ToSet(A[q]), x.about = d  PROVE Newer(x.sn, g.sn)
          <6>1. Newer(x.sn, P[n][d].sn) /\ x.sn \in Window(y) /\ y \in Sn
            BY <5>2 DEF HeardNewer, InUse
          <6> QED  BY <1>2, <2>3, <2>4, <5>1, <6>1, NewerOrders
        <5> QED  BY <5>2 DEF HeardNewer
      <4> QED  BY <2>2, <2>4, <4>1
    <3> QED  BY <1>1, <2>1, <2>4, <3>1 DEF g, h
  <2>5. CASE ~(h = n /\ e = d)
    BY <1>1, <2>1, <2>2, <2>5 DEF g, h
  <2> QED  BY <2>4, <2>5
<1> QED  BY <1>3, <1>4, <1>5 DEF NoRings

\* A path goes that was not live.
LEMMA ExpireKeeps ==
  ASSUME NEW P \in Tables, NEW A \in Airs, NEW P1, NEW n \in Node, NEW d \in Node, ~Liv(P, n, d),
         \A k, e \in Node : ~(k = n /\ e = d) => P1[k][e] = P[k][e],
         P1[n][d] = NoPath, NoRings(P, A)
  PROVE  NoRings(P1, A)
<1>1. ASSUME NEW k \in Node, NEW e \in Node
      PROVE  (Liv(P1, k, e) <=> Liv(P, k, e)) /\ (Liv(P, k, e) => P1[k][e] = P[k][e])
  BY DEF Liv
<1>2. Plain(P1, A)
  BY DEF NoRings, Plain
<1>3. Vouched(P1, A)
  <2> SUFFICES ASSUME NEW q \in Pairs, NEW x \in ToSet(A[q]), x.about # q[1]
               PROVE  Liv(P1, q[1], x.about) /\ Vouches(P1[q[1]][x.about], x.sn, x.metric)
    BY DEF Vouched
  <2>1. Liv(P, q[1], x.about) /\ Vouches(P[q[1]][x.about], x.sn, x.metric)
    BY DEF NoRings, Vouched
  <2>2. q[1] \in Node /\ x.about \in Node
    <3>1. x \in FrameType
      BY DEF Airs, ToSet
    <3> QED  BY <3>1 DEF Pairs, FrameType
  <2> QED  BY <1>1, <2>1, <2>2
<1>4. Downhill(P1, A)
  <2> SUFFICES ASSUME NEW k \in Node, NEW e \in Node, Liv(P1, k, e), P1[k][e].nh # e
               PROVE  IF Liv(P1, P1[k][e].nh, e) THEN Better(P1[P1[k][e].nh][e], P1[k][e])
                      ELSE HeardNewer(A, e, P1[k][e].sn)
    BY DEF Downhill
  <2> DEFINE g == P[k][e]
             h == g.nh
  <2>1. P1[k][e] = g /\ Liv(P, k, e) /\ h # e /\ h \in Node
    BY <1>1, PathIs DEF Liv
  <2>2. IF Liv(P, h, e) THEN Better(P[h][e], g) ELSE HeardNewer(A, e, g.sn)
    BY <2>1 DEF NoRings, Downhill
  <2> HIDE DEF g, h
  <2> QED  BY <1>1, <2>1, <2>2 DEF g, h
<1> QED  BY <1>2, <1>3, <1>4 DEF NoRings

(***************************************************************************)
(* No ring: along one the numbers would get newer or the metric smaller    *)
(* all the way round.                                                      *)
(***************************************************************************)
\* A set of naturals has a least one.
LEMMA LeastNat ==
  ASSUME NEW T \in SUBSET Nat, T # {}
  PROVE  \E x \in T : \A y \in T : x <= y
<1>1. IsWellFoundedOn(OpToRel(<, Nat), Nat)
  BY NatLessThanWellFounded
<1>2. PICK x \in T : \A y \in T : ~(<<y, x>> \in OpToRel(<, Nat))
  BY <1>1, WFMin
<1>3. \A y \in T : ~(y < x)
  BY <1>2 DEF OpToRel
<1> QED  BY <1>3

\* Of S each hands on to another of them, which has the better path.
Descends(P, d, y, S) ==
  /\ y \in Sn /\ S \in SUBSET Node /\ S # {}
  /\ \A n \in S : /\ Liv(P, n, d) /\ P[n][d].nh \in S /\ P[n][d].sn \in Window(y)
                  /\ Better(P[P[n][d].nh][d], P[n][d])

LEMMA NoneRound ==
  ASSUME NEW P \in Tables, NEW d \in Node, NEW y, NEW S
  PROVE  ~Descends(P, d, y, S)
<1> SUFFICES ASSUME Descends(P, d, y, S)  PROVE FALSE
  OBVIOUS
<1> DEFINE b(n) == Behind(y, P[n][d].sn)
           w(n) == P[n][d].metric
           h(n) == P[n][d].nh
<1>1. ASSUME NEW n \in S
      PROVE  /\ b(n) \in Nat /\ w(n) \in Nat /\ h(n) \in S
             /\ b(h(n)) < b(n) \/ (b(h(n)) = b(n) /\ w(h(n)) < w(n))
  <2>1. n \in Node /\ h(n) \in S /\ h(n) \in Node /\ Liv(P, n, d) /\ Liv(P, h(n), d) /\ y \in Sn
    BY DEF Descends
  <2>2. Better(P[h(n)][d], P[n][d])
    BY DEF Descends
  <2>3. P[n][d].sn \in Window(y) /\ P[h(n)][d].sn \in Window(y) /\ w(n) \in Nat
    BY <2>1, PathIs DEF Descends, Liv
  <2>4. P[n][d].sn \in Sn
    BY <2>3 DEF Window
  <2>5. b(n) \in Nat
    BY <2>1, <2>4, BehindIs
  <2>6. Newer(P[h(n)][d].sn, P[n][d].sn) => b(h(n)) < b(n)
    BY <2>1, <2>3, NewerIs
  <2> QED  BY <2>1, <2>2, <2>3, <2>5, <2>6 DEF Better
<1> HIDE DEF b, w, h
<1>2. PICK x \in {b(n) : n \in S} : \A z \in {b(n) : n \in S} : x <= z
  <2>1. {b(n) : n \in S} \in SUBSET Nat /\ {b(n) : n \in S} # {}
    BY <1>1 DEF Descends
  <2> QED  BY <2>1, LeastNat
<1> DEFINE R == {n \in S : b(n) = x}
<1>3. PICK v \in {w(n) : n \in R} : \A z \in {w(n) : n \in R} : v <= z
  <2>1. {w(n) : n \in R} \in SUBSET Nat /\ {w(n) : n \in R} # {}
    BY <1>1, <1>2
  <2> HIDE DEF R
  <2> QED  BY <2>1, LeastNat
<1>4. PICK n \in S : b(n) = x /\ w(n) = v
  BY <1>3
<1>5. h(n) \in S /\ x <= b(h(n)) /\ b(h(n)) \in Nat /\ b(n) \in Nat
  BY <1>1, <1>2
<1>6. b(h(n)) = x
  BY <1>1, <1>4, <1>5
<1>7. v <= w(h(n)) /\ w(h(n)) \in Nat /\ w(n) \in Nat
  BY <1>1, <1>3, <1>5, <1>6
<1> QED  BY <1>1, <1>4, <1>5, <1>6, <1>7

(***************************************************************************)
(* The types.                                                              *)
(***************************************************************************)
Budgets == {"asks", "breaks", "losses", "lapses"}
HeldIn(t) == {d \in Node : t[d] # NoPath}
Kept(P) == \A n \in Node : P[n][n] = NoPath /\ Cardinality(HeldIn(P[n])) <= PathMax
Queues == [Node -> Seq(FrameType)]

\* A queued frame is its node's discovery.
Own1(O) == \A n \in Node : Len(O[n]) <= Outbox /\ \A m \in ToSet(O[n]) : m.about = n /\ m.kind = "preq"
Types ==
  /\ path \in Tables /\ Kept(path)
  /\ sn \in [Node -> Sn] /\ air \in Airs
  /\ outbox \in Queues /\ Own1(outbox)
  /\ peers \in [Node -> SUBSET Node] /\ \A n \in Node : peers[n] \subseteq Near[n]
  /\ spent \in [Budgets -> Nat]

LEMMA Constants ==
  /\ IsFiniteSet(Node) /\ 2 * Cardinality(Node) <= SnMod /\ SnMod \in Nat /\ SnMod > 1
  /\ Near \in [Node -> SUBSET Node] /\ \A n \in Node : n \notin Near[n]
  /\ Relays \subseteq Node /\ Flows \subseteq {f \in Node \X Node : f[1] # f[2]}
  /\ PathMax \in Nat /\ PathMax > 0 /\ Ttl \in Nat /\ Ttl > 0 /\ Hop \in Nat /\ Hop > 0 /\ PerrBurst \in Nat
  /\ Outbox \in Nat /\ FirstSn \in Sn /\ NoPath \notin PathType
BY HwmpAssumption DEF HwmpAssumption, Sn, PathType

LEMMA InRange == \A n \in Node : n \notin Near[n] /\ \A p \in Near[n] : n \in Near[p]
BY HwmpAssumption DEF HwmpAssumption

LEMMA PairIs ==
  ASSUME NEW q \in Pairs
  PROVE  q[1] \in Node /\ q[2] \in Node /\ q[1] # q[2] /\ q = <<q[1], q[2]>>
BY Constants DEF Pairs

LEMMA UpIs == \A s \in Sn : Up(s) \in Sn /\ Up(s) = Later(s, 1)
<1> SUFFICES ASSUME NEW s \in Sn  PROVE Up(s) \in Sn /\ Up(s) = Later(s, 1)
  OBVIOUS
<1>1. Up(s) = Later(s, 1)
  BY DEF Up, Later
<1>2. 2 * 1 <= SnMod /\ 1 \in Nat
  BY Constants
<1> QED  BY <1>1, <1>2, LaterIs

\* A frame's fields.
LEMMA FrameIs ==
  ASSUME NEW m \in FrameType
  PROVE  /\ m.kind \in {"preq", "prep", "perr"} /\ m.about \in Node /\ m.to \in Node
         /\ m.sn \in Sn /\ m.metric \in Nat /\ m.ttl \in Nat /\ m.ttl >= 1 /\ m.ttl <= Ttl
BY Constants DEF FrameType

LEMMA FramesFit ==
  /\ \A n, t \in Node : \A s \in Sn : Preq(n, s, t) \in FrameType /\ Prep(n, s, t) \in FrameType
  /\ \A d \in Node : \A s \in Sn : Perr(d, s, Ttl) \in FrameType
  /\ \A m \in FrameType : m.ttl > 1 =>
       Onward(m) \in FrameType /\ Perr(m.about, m.sn, m.ttl - 1) \in FrameType
<1>1. \A n, t \in Node : \A s \in Sn : Preq(n, s, t) \in FrameType /\ Prep(n, s, t) \in FrameType
  BY Constants DEF Preq, Prep, Frame, FrameType
<1>2. \A d \in Node : \A s \in Sn : Perr(d, s, Ttl) \in FrameType
  BY Constants DEF Perr, Frame, FrameType
<1>3. ASSUME NEW m \in FrameType, m.ttl > 1
      PROVE  Onward(m) \in FrameType /\ Perr(m.about, m.sn, m.ttl - 1) \in FrameType
  <2>1. m.ttl - 1 \in 1 .. Ttl /\ m.metric + Hop \in Nat
    BY <1>3, FrameIs, Constants
  <2> DEFINE w == m.metric + Hop
             t == m.ttl - 1
  <2>2. Onward(m) = [m EXCEPT !.metric = w, !.ttl = t] /\ w \in Nat /\ t \in 1 .. Ttl
    BY <2>1 DEF Onward
  <2> HIDE DEF w, t
  <2>3. Onward(m) \in FrameType
    BY <2>2 DEF FrameType
  <2>4. Perr(m.about, m.sn, m.ttl - 1) \in FrameType
    BY <2>1, FrameIs DEF Perr, Frame, FrameType
  <2> QED  BY <2>3, <2>4
<1> QED  BY <1>1, <1>2, <1>3

LEMMA OnwardIs ==
  ASSUME NEW m \in FrameType
  PROVE  Onward(m).about = m.about /\ Onward(m).sn = m.sn /\ Onward(m).metric = m.metric + Hop
         /\ Onward(m).kind = m.kind /\ Onward(m).to = m.to
BY DEF Onward, FrameType

\* The table after a path is learnt: one more path at most, and where there was no room a dead
\* one less.
LEMMA WithIs ==
  ASSUME path \in Tables, Kept(path), NEW n \in Node, NEW d \in Node, d # n, Room(n, d),
         NEW e \in PathType, NEW t \in With(n, d, e)
  PROVE  /\ t \in [Node -> PathType \cup {NoPath}] /\ t[n] = NoPath /\ t[d] = e
         /\ Cardinality(HeldIn(t)) <= PathMax
         /\ \A x \in Node : x # d => t[x] = path[n][x] \/ (t[x] = NoPath /\ ~Liv(path, n, x))
<1> DEFINE u == path[n]
           H == HeldIn(u)
<1>1. u \in [Node -> PathType \cup {NoPath}] /\ u[n] = NoPath /\ Cardinality(H) <= PathMax /\ Held(n) = H
  BY DEF Tables, Kept, Held, HeldIn
<1>2. IsFiniteSet(H) /\ H \subseteq Node /\ e # NoPath /\ Cardinality(H) \in Nat /\ PathMax \in Nat
  <2>1. H \subseteq Node /\ e # NoPath
    BY Constants DEF HeldIn
  <2>2. IsFiniteSet(H)
    BY <2>1, Constants, FS_Subset
  <2> QED  BY <2>1, <2>2, FS_CardinalityType, Constants
<1>3. CASE d \in H \/ Cardinality(H) < PathMax
  <2>1. t = [u EXCEPT ![d] = e]
    BY <1>1, <1>3 DEF With
  <2>2. /\ t \in [Node -> PathType \cup {NoPath}] /\ t[n] = NoPath /\ t[d] = e
        /\ \A x \in Node : x # d => t[x] = u[x]
    BY <1>1, <2>1
  <2>3. HeldIn(t) = H \cup {d}
    BY <1>2, <2>2 DEF HeldIn
  <2>4. Cardinality(H \cup {d}) = IF d \in H THEN Cardinality(H) ELSE Cardinality(H) + 1
    BY <1>2, FS_AddElement
  <2> HIDE DEF u, H
  <2>5. Cardinality(HeldIn(t)) <= PathMax
    BY <1>1, <1>2, <1>3, <2>3, <2>4
  <2> QED  BY <2>2, <2>5 DEF u
<1>4. CASE ~(d \in H \/ Cardinality(H) < PathMax)
  <2>1. PICK v \in Dead(n) : t = [u EXCEPT ![d] = e, ![v] = NoPath]
    BY <1>1, <1>4 DEF With
  <2>2. v \in H /\ v # d /\ v \in Node /\ ~Liv(path, n, v) /\ v # n
    BY <1>1, <1>2, <1>4, <2>1 DEF Dead, Live, Liv, HeldIn
  <2>3. /\ t \in [Node -> PathType \cup {NoPath}] /\ t[n] = NoPath /\ t[d] = e /\ t[v] = NoPath
        /\ \A x \in Node : x # d /\ x # v => t[x] = u[x]
    BY <1>1, <2>1, <2>2
  <2>4. HeldIn(t) = (H \ {v}) \cup {d}
    BY <1>2, <2>2, <2>3 DEF HeldIn
  <2>5. IsFiniteSet(H \ {v}) /\ Cardinality(H \ {v}) = Cardinality(H) - 1
    BY <1>2, <2>2, FS_RemoveElement
  <2>6. Cardinality((H \ {v}) \cup {d}) = Cardinality(H \ {v}) + 1
    <3>1. d \notin H \ {v}
      BY <1>4
    <3> QED  BY <2>5, <3>1, FS_AddElement
  <2> DEFINE c == Cardinality(H)
             c1 == Cardinality(H \ {v})
             c2 == Cardinality(HeldIn(t))
  <2>7. c \in Nat /\ c <= PathMax /\ c1 = c - 1 /\ c2 = c1 + 1
    BY <1>1, <1>2, <2>4, <2>5, <2>6
  <2> HIDE DEF c, c1, c2
  <2>8. c2 <= PathMax
    BY <2>7, Constants
  <2> QED  BY <2>2, <2>3, <2>8 DEF c2, u
<1> QED  BY <1>3, <1>4

\* What n learns of m, and what its table is after.
LEMMA LearnIs ==
  ASSUME path \in Tables, Kept(path), NEW n \in Node, NEW p \in Node, NEW m \in FrameType,
         m.about # n, Says(n, p, m), Learn(n, p, m)
  PROVE  path' \in Tables /\ Kept(path') /\ Learnt(path, path', n, p, m) /\ NewTo(path, n, m)
<1> DEFINE e == Path(p, m.sn, m.metric + Hop)
           d == m.about
<1>1. d \in Node /\ m.sn \in Sn /\ m.metric \in Nat /\ Hop \in Nat
  BY FrameIs, Constants
<1>2. e \in PathType
  BY <1>1 DEF Path, PathType
<1>3. PICK t \in With(n, d, e) : path' = [path EXCEPT ![n] = t]
  BY DEF Learn
<1>4. Room(n, d)
  BY DEF Says
<1> HIDE DEF e
<1>5. /\ t \in [Node -> PathType \cup {NoPath}] /\ t[n] = NoPath /\ t[d] = e
      /\ Cardinality(HeldIn(t)) <= PathMax
      /\ \A x \in Node : x # d => t[x] = path[n][x] \/ (t[x] = NoPath /\ ~Liv(path, n, x))
  BY <1>1, <1>2, <1>3, <1>4, WithIs
<1>6. path' \in Tables /\ \A k \in Node : path'[k] = IF k = n THEN t ELSE path[k]
  BY <1>3, <1>5 DEF Tables
<1>7. Kept(path')
  BY <1>5, <1>6 DEF Kept
<1>8. Learnt(path, path', n, p, m)
  BY <1>5, <1>6 DEF Learnt, e
<1>9. NewTo(path, n, m)
  <2>1. ASSUME Liv(path, n, d)
        PROVE  ~Newer(path[n][d].sn, m.sn) /\ (m.sn = path[n][d].sn => m.metric + Hop < path[n][d].metric)
    <3>1. path[n][d].metric \in Nat /\ Live(n, d)
      BY <1>1, <2>1, PathIs DEF Liv, Live, Held
    <3>2. ~Newer(path[n][d].sn, m.sn) /\ (m.sn = path[n][d].sn => Cheaper(path[n][d], p, m.metric + Hop))
      BY <3>1 DEF Says, Fresh
    <3>3. ASSUME Cheaper(path[n][d], p, m.metric + Hop)  PROVE m.metric + Hop < path[n][d].metric
      <4> DEFINE w == m.metric + Hop
                 g == path[n][d].metric
                 z == (w * 10) \div 9
      <4>1. w \in Nat /\ g \in Nat /\ (w < g \/ z < g)
        BY <1>1, <3>1, <3>3 DEF Cheaper
      <4> HIDE DEF w, g
      <4>2. z >= w /\ z \in Int
        BY <4>1
      <4> HIDE DEF z
      <4>3. w < g
        BY <4>1, <4>2
      <4> QED  BY <4>3 DEF w, g
    <3> QED  BY <3>2, <3>3
  <2> QED  BY <2>1 DEF NewTo
<1> QED  BY <1>6, <1>7, <1>8, <1>9

(***************************************************************************)
(* What the handlers do.                                                   *)
(***************************************************************************)
LEMMA SpreadSame ==
  ASSUME NEW A \in Airs, NEW n
  PROVE  Spread(A, A, n, {})
BY DEF Spread

\* n handles word m of p: it drops it, or learns it and passes it on or not, or learns it and
\* answers.  What it drops breaks none of its paths, unless it is lost.
Alarms(n, p) == p \in peers[n] /\ Arrived(n, p, "perr") /\ Breaks(n, p, Head(air[<<p, n>>]))
Ignored(n, p) ==
  UNCHANGED <<path, sn>> /\ air' = Rest(n, p) /\ (spent'["losses"] # 0 \/ ~Alarms(n, p))
Learns(n, p, m) ==
  /\ m \in FrameType /\ m \in ToSet(air[<<p, n>>]) /\ m.about # n /\ m.kind # "perr"
  /\ p \in peers[n] /\ m = Head(air[<<p, n>>])
  /\ path' \in Tables /\ Kept(path') /\ Learnt(path, path', n, p, m) /\ NewTo(path, n, m)
Passes(n, p, m) ==
  /\ Learns(n, p, m) /\ sn' = sn /\ Adds(Rest(n, p), air', n, {Onward(m)} \cap FrameType)
  /\ n \in Relays \/ air' = Rest(n, p)
Answer(n, m) == Prep(n, Up(sn[n]), m.about)
Answers(n, p, m) ==
  /\ Learns(n, p, m) /\ sn' = [sn EXCEPT ![n] = Up(@)]
  /\ Answer(n, m) \in FrameType /\ Adds(Rest(n, p), air', n, {Answer(n, m)})

LEMMA ArrivedIs ==
  ASSUME Types, NEW q \in Pairs, NEW kind, Arrived(q[2], q[1], kind)
  PROVE  /\ Head(air[q]) \in FrameType /\ Head(air[q]) \in ToSet(air[q]) /\ Head(air[q]).kind = kind
         /\ Spread(air, Rest(q[2], q[1]), q[2], {}) /\ Rest(q[2], q[1]) \in Airs
         /\ air[q] # <<>> /\ q = <<q[1], q[2]>>
<1>1. q = <<q[1], q[2]>>
  BY PairIs
<1>2. air[q] \in Seq(FrameType) /\ air[q] # <<>> /\ Head(air[q]).kind = kind
  <2>1. air[<<q[1], q[2]>>] # <<>> /\ Head(air[<<q[1], q[2]>>]).kind = kind
    BY DEF Arrived
  <2>2. air \in Airs
    BY DEF Types
  <2>3. air[q] \in Seq(FrameType)
    BY <2>2 DEF Airs
  <2>4. air[<<q[1], q[2]>>] = air[q]
    BY <1>1, Zenon
  <2> QED  BY <2>1, <2>3, <2>4, Zenon
<1>3. Spread(air, Rest(q[2], q[1]), q[2], {})
  BY <1>1, <1>2, SpreadRest DEF Types
<1>4. Rest(q[2], q[1]) \in Airs
  BY <1>3 DEF Spread
<1> QED  BY <1>1, <1>2, <1>3, <1>4, SetOfTail

LEMMA PreqIs ==
  ASSUME Types, NEW q \in Pairs, ReceivePreq(q[2], q[1])
  PROVE  \/ Ignored(q[2], q[1])
         \/ \E m \in ToSet(air[q]) : Passes(q[2], q[1], m) \/ Answers(q[2], q[1], m)
<1> DEFINE n == q[2]
           p == q[1]
           m == Head(air[<<p, n>>])
           am == Rest(n, p)
<1>1. Arrived(n, p, "preq")
  BY DEF ReceivePreq
<1>2. m \in FrameType /\ m \in ToSet(air[q]) /\ m.kind = "preq" /\ am \in Airs /\ q = <<p, n>>
  BY <1>1, ArrivedIs
<1>3. n \in Node /\ p \in Node
  BY PairIs
<1>6. ~Alarms(n, p)
  BY <1>1 DEF Arrived, Alarms
<1> HIDE DEF am, m
<1>4. CASE Dropped(am)
  BY <1>4, <1>6 DEF Dropped, Ignored, am
<1>5. CASE p \in peers[n] /\ ~Own(n, m) /\ Says(n, p, m) /\ HandlePreq(n, p, m, am)
  <2>1. Learn(n, p, m) /\ m.about # n
    BY <1>5 DEF HandlePreq, Own
  <2>2. path' \in Tables /\ Kept(path') /\ Learnt(path, path', n, p, m) /\ NewTo(path, n, m)
    BY <1>2, <1>3, <1>5, <2>1, LearnIs DEF Types
  <2>3. Learns(n, p, m)
    BY <1>2, <1>5, <2>1, <2>2 DEF Learns, m
  <2>4. CASE m.to = n
    <3>1. Up(sn[n]) \in Sn /\ m.about \in Node
      BY <1>2, <1>3, UpIs, FrameIs DEF Types
    <3>2. Answer(n, m) \in FrameType
      BY <1>3, <3>1, FramesFit DEF Answer
    <3>3. air' = Unicast(am, n, p, Answer(n, m)) /\ sn' = [sn EXCEPT ![n] = Up(@)]
      BY <1>5, <2>4 DEF HandlePreq, Answer
    <3>4. Adds(am, air', n, {Answer(n, m)})
      BY <1>2, <3>2, <3>3, AddsUnicast
    <3>5. Answers(n, p, m)
      BY <2>3, <3>2, <3>3, <3>4 DEF Answers, am
    <3> QED  BY <1>2, <3>5
  <2>5. CASE m.to # n /\ MayPass(n, m)
    <3>1. Onward(m) \in FrameType
      BY <1>2, <2>5, FramesFit DEF MayPass
    <3>2. sn' = sn /\ air' = Group(am, n, <<Onward(m)>>)
      BY <1>5, <2>5 DEF HandlePreq
    <3>3. Adds(am, air', n, {Onward(m)})
      BY <1>2, <3>1, <3>2, AddsGroup
    <3>4. {Onward(m)} \cap FrameType = {Onward(m)}
      BY <3>1
    <3>5. Passes(n, p, m)
      BY <2>3, <2>5, <3>2, <3>3, <3>4 DEF Passes, MayPass, am
    <3> QED  BY <1>2, <3>5
  <2>6. CASE m.to # n /\ ~MayPass(n, m)
    <3>1. sn' = sn /\ air' = am
      BY <1>5, <2>6 DEF HandlePreq
    <3>2. Passes(n, p, m)
      BY <1>2, <2>3, <3>1, AddsNone DEF Passes, am
    <3> QED  BY <1>2, <3>2
  <2> QED  BY <2>4, <2>5, <2>6
<1> QED  BY <1>4, <1>5 DEF ReceivePreq, HandlePreq, m, am

LEMMA PrepIs ==
  ASSUME Types, NEW q \in Pairs, ReceivePrep(q[2], q[1])
  PROVE  Ignored(q[2], q[1]) \/ \E m \in ToSet(air[q]) : Passes(q[2], q[1], m)
<1> DEFINE n == q[2]
           p == q[1]
           m == Head(air[<<p, n>>])
           am == Rest(n, p)
<1>1. Arrived(n, p, "prep")
  BY DEF ReceivePrep
<1>2. m \in FrameType /\ m \in ToSet(air[q]) /\ m.kind = "prep" /\ am \in Airs /\ q = <<p, n>>
  BY <1>1, ArrivedIs
<1>3. n \in Node /\ p \in Node
  BY PairIs
<1>6. ~Alarms(n, p)
  BY <1>1 DEF Arrived, Alarms
<1> HIDE DEF am, m
<1>4. CASE Dropped(am)
  BY <1>4, <1>6 DEF Dropped, Ignored, am
<1>5. CASE p \in peers[n] /\ ~Own(n, m) /\ Says(n, p, m) /\ HandlePrep(n, p, m, am)
  <2>1. Learn(n, p, m) /\ m.about # n /\ sn' = sn
    BY <1>5 DEF HandlePrep, Own
  <2>2. path' \in Tables /\ Kept(path') /\ Learnt(path, path', n, p, m) /\ NewTo(path, n, m)
    BY <1>2, <1>3, <1>5, <2>1, LearnIs DEF Types
  <2>3. Learns(n, p, m)
    BY <1>2, <1>5, <2>1, <2>2 DEF Learns, m
  <2>4. CASE MayPass(n, m) /\ air' = Unicast(am, n, path[n][m.to].nh, Onward(m))
    <3>1. Onward(m) \in FrameType
      BY <1>2, <2>4, FramesFit DEF MayPass
    <3>2. Adds(am, air', n, {Onward(m)})
      BY <1>2, <2>4, <3>1, AddsUnicast
    <3>3. {Onward(m)} \cap FrameType = {Onward(m)}
      BY <3>1
    <3>4. Passes(n, p, m)
      BY <2>1, <2>3, <2>4, <3>2, <3>3 DEF Passes, MayPass, am
    <3> QED  BY <1>2, <3>4
  <2>5. CASE air' = am
    <3>1. Passes(n, p, m)
      BY <1>2, <2>1, <2>3, <2>5, AddsNone DEF Passes, am
    <3> QED  BY <1>2, <3>1
  <2> QED  BY <1>5, <2>4, <2>5 DEF HandlePrep
<1> QED  BY <1>4, <1>5 DEF ReceivePrep, HandlePrep, m, am

\* A set in some order.
LEMMA InOrder ==
  ASSUME NEW S, IsFiniteSet(S)
  PROVE  /\ Cardinality(S) \in Nat
         /\ SetToSeq(S) \in [1 .. Cardinality(S) -> S]
         /\ Len(SetToSeq(S)) = Cardinality(S)
         /\ \A x \in S : \E i \in 1 .. Cardinality(S) : SetToSeq(S)[i] = x
<1> DEFINE D == 1 .. Cardinality(S)
           f == SetToSeq(S)
<1>1. Cardinality(S) \in Nat /\ ExistsBijection(D, S)
  BY FS_CardinalityType
<1>2. \E g \in [D -> S] : IsInjective(g)
  BY <1>1 DEF ExistsBijection, Bijection, Injection
<1>3. f \in [D -> S] /\ IsInjective(f)
  BY <1>2 DEF SetToSeq
<1>4. IsFiniteSet(D) /\ Cardinality(D) = Cardinality(S)
  <2> DEFINE c == Cardinality(S)
  <2>1. c \in Nat
    BY <1>1
  <2> HIDE DEF c
  <2>2. IsFiniteSet(1 .. c) /\ Cardinality(1 .. c) = IF 1 > c THEN 0 ELSE c - 1 + 1
    BY <2>1, FS_Interval
  <2>3. IsFiniteSet(1 .. c) /\ Cardinality(1 .. c) = c
    BY <2>1, <2>2
  <2> QED  BY <2>3 DEF c
<1> HIDE DEF f
<1>5. f \in Injection(D, S)
  BY <1>3 DEF Injection
<1>6. f \in Surjection(D, S)
  BY <1>4, <1>5, FS_Injection
<1>7. \A x \in S : \E i \in D : f[i] = x
  BY <1>6 DEF Surjection
<1>8. Len(f) = Cardinality(S)
  BY <1>1, <1>3
<1> QED  BY <1>1, <1>3, <1>7, <1>8 DEF f

\* n draws k numbers and says M of itself, each word with one of them.
Speaks(n, k, M) ==
  /\ k \in Nat /\ k > 0 /\ 2 * k <= SnMod /\ path' = path /\ sn' = [sn EXCEPT ![n] = Later(@, k)]
  /\ Adds(air, air', n, M)
  /\ \A m \in M : /\ m \in FrameType /\ m.about = n /\ m.kind = "preq"
                  /\ \E i \in 1 .. k : m.sn = Later(sn[n], i)

LEMMA SpeakOne ==
  ASSUME NEW n, path' = path, sn' = [sn EXCEPT ![n] = Later(@, 1)],
         NEW x \in FrameType, x.about = n, x.kind = "preq", x.sn = Later(sn[n], 1), Adds(air, air', n, {x})
  PROVE  Speaks(n, 1, {x})
<1>1. 1 \in Nat /\ 1 > 0 /\ 2 * 1 <= SnMod
  BY Constants
<1>2. \A m \in {x} : \E i \in 1 .. 1 : m.sn = Later(sn[n], i)
  <2>1. 1 \in 1 .. 1
    OBVIOUS
  <2> QED  BY <2>1
<1> QED  BY <1>1, <1>2, Zenon DEF Speaks

LEMMA PreqFields ==
  ASSUME NEW n, NEW s, NEW t
  PROVE  Preq(n, s, t).about = n /\ Preq(n, s, t).sn = s /\ Preq(n, s, t).kind = "preq"
BY DEF Preq, Frame

LEMMA AskIs ==
  ASSUME Types, NEW n \in Node, NEW t \in Node, Ask(n, t)
  PROVE  Speaks(n, 1, {Preq(n, Up(sn[n]), t)})
<1> DEFINE x == Preq(n, Up(sn[n]), t)
<1>1. sn[n] \in Sn /\ Up(sn[n]) \in Sn /\ Up(sn[n]) = Later(sn[n], 1)
  BY UpIs DEF Types
<1>2. x \in FrameType /\ x.about = n /\ x.sn = Later(sn[n], 1) /\ x.kind = "preq"
  BY <1>1, FramesFit, PreqFields
<1> HIDE DEF x
<1>4. Adds(air, Group(air, n, <<x>>), n, {x})
  BY <1>2, AddsGroup DEF Types
<1>5. air' = Group(air, n, <<x>>) /\ path' = path /\ sn' = [sn EXCEPT ![n] = Up(@)]
  BY DEF Ask, x
<1>6. sn' = [sn EXCEPT ![n] = Later(@, 1)]
  BY <1>1, <1>5
<1>7. Adds(air, air', n, {x})
  BY <1>4, <1>5
<1>8. Speaks(n, 1, {x})
  BY <1>2, <1>5, <1>6, <1>7, SpeakOne
<1> QED  BY <1>8 DEF x

LEMMA AskOffLoopIs ==
  ASSUME Types, NEW n \in Node, NEW t \in Node, AskOffLoop(n, t)
  PROVE  Speaks(n, 1, {}) /\ air' = air
<1>1. sn[n] \in Sn /\ Up(sn[n]) = Later(sn[n], 1)
  BY UpIs DEF Types
<1>2. air' = air /\ path' = path /\ sn' = [sn EXCEPT ![n] = Later(@, 1)]
  BY <1>1 DEF AskOffLoop
<1>3. Adds(air, air', n, {})
  BY <1>2, AddsNone DEF Types
<1> QED  BY <1>2, <1>3, Constants DEF Speaks

\* A queued frame goes as it is, if its number is the last drawn, or with a new one.
Goes(n, m) == sn' = sn /\ (OwnRecent => m.sn = sn[n]) /\ path' = path /\ Adds(air, air', n, {m})

LEMMA DrainIs ==
  ASSUME Types, NEW n \in Node, Drain(n)
  PROVE  LET m == Head(outbox[n]) IN
         /\ m \in FrameType /\ m \in ToSet(outbox[n]) /\ m.about = n /\ m.kind = "preq"
         /\ outbox[n] # <<>> /\ outbox' = [outbox EXCEPT ![n] = Tail(@)]
         /\ Goes(n, m) \/ \E x \in FrameType : Speaks(n, 1, {x})
<1> DEFINE m == Head(outbox[n])
           s == Restamped(n, m)
           x == [m EXCEPT !.sn = s]
<1>1. outbox[n] # <<>> /\ outbox[n] \in Seq(FrameType) /\ outbox' = [outbox EXCEPT ![n] = Tail(@)]
  BY DEF Drain, Types, Queues
<1>2. m \in FrameType /\ m \in ToSet(outbox[n])
  BY <1>1, SetOfTail
<1>3. m.about = n /\ m.kind = "preq" /\ m.sn \in Sn
  BY <1>2, FrameIs DEF Types, Own1
<1>4. sn[n] \in Sn /\ Up(sn[n]) \in Sn /\ Up(sn[n]) = Later(sn[n], 1)
  BY UpIs DEF Types
<1>5. /\ path' = path /\ sn' = [sn EXCEPT ![n] = IF s = m.sn THEN @ ELSE s]
      /\ air' = Group(air, n, <<x>>)
  BY DEF Drain
<1> HIDE DEF m
<1>6. s \in Sn
  BY <1>3, <1>4 DEF Restamped
<1>7. x \in FrameType /\ x.about = n /\ x.kind = "preq" /\ x.sn = s
  <2> HIDE DEF s
  <2> QED  BY <1>2, <1>3, <1>6 DEF FrameType
<1>8. Adds(air, air', n, {x})
  <2> HIDE DEF x
  <2> QED  BY <1>5, <1>7, AddsGroup DEF Types
<1>9. CASE s = m.sn
  <2>1. x = m
    BY <1>2, <1>9 DEF FrameType
  <2>2. sn' = sn
    BY <1>5, <1>9 DEF Types
  <2>3. ASSUME OwnRecent  PROVE m.sn = sn[n]
    <3>1. m.sn \in Window(sn[n])
      BY <1>2, <2>3 DEF OwnRecent
    <3>2. Up(sn[n]) \notin Window(sn[n])
      <4>1. 1 \in Nat /\ 1 > 0 /\ 2 * 1 <= SnMod
        BY Constants
      <4> QED  BY <1>4, <4>1, LaterIs
    <3>3. m.sn = sn[n] \/ s = Up(sn[n])
      BY DEF Restamped
    <3> HIDE DEF s
    <3> QED  BY <1>9, <3>1, <3>2, <3>3
  <2>4. Goes(n, m)
    BY <1>5, <1>8, <2>1, <2>2, <2>3 DEF Goes
  <2> QED  BY <1>1, <1>2, <1>3, <2>4 DEF m
<1>10. CASE s # m.sn
  <2>1. s = Later(sn[n], 1)
    BY <1>4, <1>10 DEF Restamped
  <2>2. sn' = [sn EXCEPT ![n] = Later(@, 1)]
    BY <1>5, <1>10, <2>1
  <2>3. Speaks(n, 1, {x})
    <3> HIDE DEF s, x
    <3> QED  BY <1>5, <1>7, <1>8, <2>1, <2>2, SpeakOne
  <2>4. \E y \in FrameType : Speaks(n, 1, {y})
    BY <1>7, <2>3
  <2> QED  BY <1>1, <1>2, <1>3, <2>4 DEF m
<1> QED  BY <1>9, <1>10

LEMMA KeepAliveIs ==
  ASSUME Types, NEW n \in Node, KeepAlive(n)
  PROVE  \E k \in Nat : \E M \in SUBSET FrameType : Speaks(n, k, M)
<1> DEFINE S == peers[n]
           ps == SetToSeq(S)
           Nth(p) == CHOOSE i \in DOMAIN ps : ps[i] = p
           c == Cardinality(S)
           Word(p) == Preq(n, Later(sn[n], Nth(p)), p)
           M == {Word(p) : p \in S}
<1>1. S \subseteq Node /\ IsFiniteSet(S) /\ S # {} /\ IsFiniteSet(Node) /\ c <= Cardinality(Node)
  <2>1. S \subseteq Node /\ S # {}
    BY DEF Types, KeepAlive
  <2> QED  BY <2>1, Constants, FS_Subset
<1>2. /\ c \in Nat /\ ps \in [1 .. c -> S] /\ Len(ps) = c /\ \A x \in S : \E i \in 1 .. c : ps[i] = x
  BY <1>1, InOrder
<1>3. c > 0 /\ 2 * c <= SnMod
  <2>1. c # 0
    BY <1>1, FS_EmptySet
  <2>2. Cardinality(Node) \in Nat
    BY <1>1, FS_CardinalityType
  <2> HIDE DEF c
  <2> QED  BY <1>1, <1>2, <2>1, <2>2, Constants
<1>4. ASSUME NEW p \in S  PROVE Nth(p) \in 1 .. c
  <2>1. \E i \in DOMAIN ps : ps[i] = p
    BY <1>2
  <2>2. Nth(p) \in DOMAIN ps
    BY <2>1
  <2> QED  BY <1>2, <2>2
<1>5. sn[n] \in Sn /\ \A i \in 1 .. c : Later(sn[n], i) \in Sn
  <2>1. sn[n] \in Sn
    BY DEF Types
  <2>2. \A i \in 0 .. c : Later(sn[n], i) \in Sn
    BY <1>2, <1>3, <2>1, LaterIs
  <2> QED  BY <1>2, <2>1, <2>2
<1>6. ASSUME NEW p \in S
      PROVE  /\ Word(p) \in FrameType /\ Word(p).about = n /\ Word(p).kind = "preq"
             /\ \E i \in 1 .. c : Word(p).sn = Later(sn[n], i)
  <2>1. Later(sn[n], Nth(p)) \in Sn /\ p \in Node
    BY <1>1, <1>4, <1>5
  <2> HIDE DEF ps
  <2>2. Word(p) \in FrameType /\ Word(p).about = n /\ Word(p).kind = "preq" /\ Word(p).sn = Later(sn[n], Nth(p))
    BY <2>1, FramesFit, PreqFields
  <2> QED  BY <1>4, <2>2
<1>7. /\ path' = path /\ sn' = [sn EXCEPT ![n] = Later(@, c)]
      /\ air' = [q \in Pairs |-> IF q[1] = n /\ q[2] \in S THEN Append(air[q], Word(q[2])) ELSE air[q]]
  BY <1>2 DEF KeepAlive, Later
<1> HIDE DEF Word, c, ps, S
<1>8. ASSUME NEW q \in Pairs
      PROVE  /\ air'[q] \in Seq(FrameType)
             /\ air'[q] = air[q] \/ (q[1] = n /\ \E m \in M : air'[q] = Append(air[q], m))
  <2>1. air[q] \in Seq(FrameType)
    BY DEF Types, Airs
  <2>2. CASE q[1] = n /\ q[2] \in S
    <3>1. air'[q] = Append(air[q], Word(q[2])) /\ Word(q[2]) \in M
      BY <1>7, <2>2
    <3>2. air'[q] \in Seq(FrameType)
      BY <1>6, <2>1, <2>2, <3>1, SetOfAppend
    <3> HIDE DEF M
    <3> QED  BY <2>2, <3>1, <3>2
  <2>3. CASE ~(q[1] = n /\ q[2] \in S)
    BY <1>7, <2>1, <2>3
  <2> QED  BY <2>2, <2>3
<1>9. air' \in Airs
  <2>1. air' = [q \in Pairs |-> air'[q]]
    BY <1>7
  <2> QED  BY <1>8, <2>1 DEF Airs
<1>10. Adds(air, air', n, M)
  <2> HIDE DEF M
  <2> QED  BY <1>8, <1>9 DEF Adds
<1>11. M \in SUBSET FrameType
  BY <1>6
<1>12. \A m \in M : m \in FrameType /\ m.about = n /\ m.kind = "preq" /\ \E i \in 1 .. c : m.sn = Later(sn[n], i)
  BY <1>6
<1>13. Speaks(n, c, M)
  <2> HIDE DEF M
  <2>1. c \in Nat /\ c > 0 /\ 2 * c <= SnMod /\ path' = path /\ sn' = [sn EXCEPT ![n] = Later(@, c)]
    BY <1>2, <1>3, <1>7
  <2> QED  BY <1>10, <1>12, <2>1 DEF Speaks
<1> QED  BY <1>2, <1>11, <1>13

(***************************************************************************)
(* The types, step by step.                                                *)
(***************************************************************************)
\* A table whose paths are those of before, or fewer.
LEMMA FewerPaths ==
  ASSUME NEW P \in Tables, Kept(P), NEW P1, NEW n \in Node, P1 = [k \in Node |-> P1[k]],
         \A k \in Node : k # n => P1[k] = P[k], P1[n] \in [Node -> PathType \cup {NoPath}],
         \A d \in Node : P[n][d] = NoPath => P1[n][d] = NoPath
  PROVE  P1 \in Tables /\ Kept(P1)
<1>1. P1 \in Tables
  BY DEF Tables
<1>2. HeldIn(P1[n]) \subseteq HeldIn(P[n]) /\ HeldIn(P[n]) \subseteq Node /\ P1[n][n] = NoPath
  BY DEF HeldIn, Kept
<1> DEFINE a == Cardinality(HeldIn(P1[n]))
           b == Cardinality(HeldIn(P[n]))
<1>3. a \in Nat /\ b \in Nat /\ a <= b /\ b <= PathMax
  <2>1. IsFiniteSet(HeldIn(P[n]))
    BY <1>2, Constants, FS_Subset
  <2>2. IsFiniteSet(HeldIn(P1[n])) /\ a <= b
    BY <1>2, <2>1, FS_Subset
  <2> QED  BY <2>1, <2>2, FS_CardinalityType DEF Kept
<1> HIDE DEF a, b
<1>4. a <= PathMax
  BY <1>3, Constants
<1> QED  BY <1>1, <1>2, <1>4 DEF Kept, a

LEMMA SpendIs ==
  ASSUME Types, NEW what \in Budgets, NEW max, Spend(what, max)
  PROVE  /\ spent' \in [Budgets -> Nat]
         /\ spent'[what] # 0 /\ \A w \in Budgets : spent'[w] = 0 => spent[w] = 0
<1>1. spent \in [Budgets -> Nat] /\ spent' = [spent EXCEPT ![what] = @ + 1]
  BY DEF Types, Spend
<1>2. spent'[what] = spent[what] + 1 /\ \A x \in Budgets : x # what => spent'[x] = spent[x]
  BY <1>1
<1>3. spent[what] \in Nat /\ spent'[what] # 0
  BY <1>1, <1>2
<1>4. spent' \in [Budgets -> Nat]
  BY <1>1
<1> QED  BY <1>2, <1>3, <1>4

LEMMA SpeaksTypes ==
  ASSUME Types, NEW n \in Node, NEW k, NEW M, Speaks(n, k, M)
  PROVE  path' \in Tables /\ Kept(path') /\ sn' \in [Node -> Sn] /\ air' \in Airs
<1>1. path' = path /\ sn' = [sn EXCEPT ![n] = Later(@, k)] /\ air' \in Airs /\ k \in Nat /\ 2 * k <= SnMod
  BY DEF Speaks, Adds
<1>2. sn \in [Node -> Sn] /\ path \in Tables /\ Kept(path) /\ sn[n] \in Sn
  BY DEF Types
<1>3. Later(sn[n], k) \in Sn
  BY <1>1, <1>2, LaterIs
<1> QED  BY <1>1, <1>2, <1>3

LEMMA LearnsTypes ==
  ASSUME Types, NEW q \in Pairs, NEW m,
         Passes(q[2], q[1], m) \/ Answers(q[2], q[1], m)
  PROVE  path' \in Tables /\ Kept(path') /\ sn' \in [Node -> Sn] /\ air' \in Airs
<1>1. q[2] \in Node /\ sn \in [Node -> Sn] /\ sn[q[2]] \in Sn
  BY PairIs DEF Types
<1>2. Up(sn[q[2]]) \in Sn
  BY <1>1, UpIs
<1>3. path' \in Tables /\ Kept(path') /\ air' \in Airs
  BY DEF Passes, Answers, Learns, Adds
<1>4. sn' = sn \/ sn' = [sn EXCEPT ![q[2]] = Up(@)]
  BY DEF Passes, Answers
<1> QED  BY <1>1, <1>2, <1>3, <1>4

\* What a node does with a PERR: the path goes down, and it tells others.
LEMMA PerrIs ==
  ASSUME Types, NEW q \in Pairs, ReceivePerr(q[2], q[1])
  PROVE  /\ path' \in Tables /\ Kept(path') /\ sn' = sn
         /\ \A k, e \in Node : Liv(path', k, e) => path'[k][e] = path[k][e]
         /\ \E M \in SUBSET FrameType : /\ Adds(Rest(q[2], q[1]), air', q[2], M)
                                       /\ \A x \in M : x.about # q[2] /\ x.kind = "perr"
<1> DEFINE n == q[2]
           p == q[1]
           m == Head(air[<<p, n>>])
           am == Rest(n, p)
           Fine == path' \in Tables /\ Kept(path') /\ sn' = sn
           Same == \A k, e \in Node : Liv(path', k, e) => path'[k][e] = path[k][e]
           Tells == \E M \in SUBSET FrameType : Adds(am, air', n, M) /\ \A x \in M : x.about # n /\ x.kind = "perr"
<1>1. Arrived(n, p, "perr")
  BY DEF ReceivePerr
<1>2. m \in FrameType /\ m.about \in Node /\ m.sn \in Sn /\ am \in Airs
  BY <1>1, ArrivedIs, FrameIs
<1>3. n \in Node /\ path \in Tables /\ Kept(path)
  BY PairIs DEF Types
<1> HIDE DEF am, m
<1>4. ASSUME Dropped(am)  PROVE Fine /\ Same /\ Tells
  <2>1. path' = path /\ sn' = sn /\ Adds(am, air', n, {})
    BY <1>2, <1>4, AddsNone DEF Dropped
  <2>2. path' \in Tables /\ Kept(path')
    BY <1>3, <2>1
  <2>3. \E M \in SUBSET FrameType : Adds(am, air', n, M) /\ \A x \in M : x.about # n /\ x.kind = "perr"
    BY <2>1
  <2> QED  BY <2>1, <2>2, <2>3
<1>5. ASSUME Breaks(n, p, m), HandlePerr(n, p, m, am)  PROVE Fine /\ Same /\ Tells
  <2> DEFINE d == m.about
             x == Perr(m.about, m.sn, m.ttl - 1)
             s == IF m.sn = 0 THEN path[n][d].sn ELSE m.sn
  <2>1. /\ path' = [path EXCEPT ![n][d].active = FALSE, ![n][d].sn = s]
        /\ sn' = sn /\ air' = IF MayPass(n, m) THEN Group(am, n, <<x>>) ELSE am
    BY <1>5 DEF HandlePerr
  <2>2. path[n][d] # NoPath /\ path[n][d] \in PathType /\ path[n][d].sn \in Sn /\ d # n
    <3>1. path[n][d] # NoPath
      BY <1>5 DEF Breaks, Live, Held
    <3> QED  BY <1>2, <1>3, <3>1, PathIs DEF Kept
  <2>3. s \in Sn
    BY <1>2, <2>2
  <2> HIDE DEF s
  <2>4. /\ path' = [k \in Node |-> path'[k]] /\ \A k \in Node : k # n => path'[k] = path[k]
        /\ path'[n] = [path[n] EXCEPT ![d] = [path[n][d] EXCEPT !.active = FALSE, !.sn = s]]
    BY <1>2, <1>3, <2>1 DEF Tables
  <2>5. [path[n][d] EXCEPT !.active = FALSE, !.sn = s] \in PathType
    BY <2>2, <2>3 DEF PathType
  <2>6. path'[n] \in [Node -> PathType \cup {NoPath}] /\ \A e \in Node : e # d => path'[n][e] = path[n][e]
    BY <1>2, <1>3, <2>4, <2>5 DEF Tables
  <2>7. path' \in Tables /\ Kept(path')
    <3>1. \A e \in Node : path[n][e] = NoPath => path'[n][e] = NoPath
      BY <2>2, <2>6
    <3> QED  BY <1>3, <2>4, <2>6, <3>1, FewerPaths
  <2>8. ASSUME NEW k \in Node, NEW e \in Node, Liv(path', k, e)  PROVE path'[k][e] = path[k][e]
    <3>1. path'[n][d] = [path[n][d] EXCEPT !.active = FALSE, !.sn = s]
      BY <1>2, <1>3, <2>4 DEF Tables
    <3>2. path'[n][d].active = FALSE
      BY <2>2, <3>1 DEF PathType
    <3>3. ~(k = n /\ e = d)
      BY <2>8, <3>2 DEF Liv
    <3>4. k # n => path'[k] = path[k]
      BY <2>4
    <3>5. e # d => path'[n][e] = path[n][e]
      BY <2>6
    <3> QED  BY <3>3, <3>4, <3>5
  <2>9. sn' = sn
    BY <2>1
  <2>10. Fine /\ Same
    BY <2>7, <2>8, <2>9
  <2> HIDE DEF Fine, Same
  <2>11. CASE MayPass(n, m)
    <3>1. x \in FrameType /\ x.about # n /\ x.kind = "perr"
      <4>1. x.about = m.about /\ x.kind = "perr"
        BY DEF Perr, Frame
      <4> QED  BY <1>2, <2>2, <2>11, <4>1, FramesFit DEF MayPass
    <3> HIDE DEF x
    <3>2. Adds(am, air', n, {x})
      BY <1>2, <2>1, <2>11, <3>1, AddsGroup
    <3>3. {x} \in SUBSET FrameType /\ \A z \in {x} : z.about # n /\ z.kind = "perr"
      BY <3>1
    <3>4. \E M \in SUBSET FrameType : Adds(am, air', n, M) /\ \A z \in M : z.about # n /\ z.kind = "perr"
      BY <3>2, <3>3
    <3> QED  BY <2>10, <3>4
  <2>12. CASE ~MayPass(n, m)
    <3>1. Adds(am, air', n, {})
      BY <1>2, <2>1, <2>12, AddsNone
    <3>2. \E M \in SUBSET FrameType : Adds(am, air', n, M) /\ \A z \in M : z.about # n /\ z.kind = "perr"
      BY <3>1
    <3> QED  BY <2>10, <3>2
  <2> QED  BY <2>11, <2>12
<1>6. IF p \in peers[n] THEN HandlePerr(n, p, m, am) ELSE Dropped(am)
  BY DEF ReceivePerr, m, am
<1> HIDE DEF Fine, Same, Tells
<1>7. Fine /\ Same /\ Tells
  BY <1>4, <1>5, <1>6 DEF HandlePerr
<1> QED  BY <1>7 DEF am, Fine, Same, Tells

\* A neighbour goes: the paths through it go down, and some of them are announced.
LEMMA LostIs ==
  ASSUME Types, NEW q \in Pairs, PeerLost(q[1], q[2])
  PROVE  /\ path' \in Tables /\ Kept(path') /\ sn' = sn /\ outbox' = outbox
         /\ \E ms \in Seq(FrameType) : /\ air' = Group(air, q[1], ms)
                                      /\ \A x \in ToSet(ms) : x.about # q[1]
<1> DEFINE n == q[1]
           p == q[2]
           T == Through(n, p)
<1>1. n \in Node /\ path \in Tables /\ Kept(path) /\ T \subseteq Node /\ n \notin T
      /\ \A d \in T : path[n][d] # NoPath
  BY PairIs DEF Types, Through, Held, Kept
<1>2. ASSUME NEW d \in T  PROVE LostAt(n, d) \in Sn /\ path[n][d] \in PathType
  <2>1. path[n][d] \in PathType /\ path[n][d].sn \in Sn
    BY <1>1, PathIs
  <2> QED  BY <2>1, UpIs DEF LostAt
<1>3. path' \in Tables /\ Kept(path')
  <2> DEFINE Gone(d) == [path[n][d] EXCEPT !.active = FALSE, !.sn = LostAt(n, d)]
             t == [d \in Node |-> IF d \in T THEN Gone(d) ELSE path[n][d]]
  <2>1. path' = [path EXCEPT ![n] = t]
    BY DEF PeerLost
  <2>2. \A d \in T : Gone(d) \in PathType
    BY <1>2 DEF PathType
  <2> HIDE DEF Gone, T
  <2>3. t \in [Node -> PathType \cup {NoPath}] /\ \A d \in Node : path[n][d] = NoPath => t[d] = NoPath
    BY <1>1, <2>2 DEF Tables
  <2> HIDE DEF t
  <2>4. path' = [k \in Node |-> path'[k]] /\ path'[n] = t /\ \A k \in Node : k # n => path'[k] = path[k]
    BY <1>1, <2>1 DEF Tables
  <2> QED  BY <1>1, <2>3, <2>4, FewerPaths
<1>4. sn' = sn /\ outbox' = outbox
  BY DEF PeerLost
<1>5. PICK ds \in Announced(n, p) :
        air' = Group(air, n, [i \in 1 .. Cardinality(ds) |-> Perr(SetToSeq(ds)[i], LostAt(n, SetToSeq(ds)[i]), Ttl)])
  BY DEF PeerLost
<1> DEFINE c == Cardinality(ds)
           ps == SetToSeq(ds)
           ms == [i \in 1 .. c |-> Perr(ps[i], LostAt(n, ps[i]), Ttl)]
<1>6. ds \subseteq T
  BY DEF Announced
<1>7. c \in Nat /\ ps \in [1 .. c -> ds]
  <2>1. IsFiniteSet(ds)
    BY <1>1, <1>6, Constants, FS_Subset
  <2> QED  BY <2>1, InOrder
<1> HIDE DEF c, ps, T
<1>8. ASSUME NEW i \in 1 .. c
      PROVE  ms[i] \in FrameType /\ ms[i].about # n
  <2>1. ps[i] \in T /\ ps[i] \in Node /\ ps[i] # n /\ LostAt(n, ps[i]) \in Sn
    BY <1>1, <1>2, <1>6, <1>7
  <2>2. Perr(ps[i], LostAt(n, ps[i]), Ttl).about = ps[i]
    BY DEF Perr, Frame
  <2> QED  BY <2>1, <2>2, FramesFit
<1>9. ms \in Seq(FrameType) /\ Len(ms) = c
  BY <1>7, <1>8
<1>10. \A x \in ToSet(ms) : x.about # n
  <2> HIDE DEF ms
  <2> QED  BY <1>8, <1>9, SetOfSeq
<1>11. air' = Group(air, n, ms)
  BY <1>5 DEF c, ps
<1> HIDE DEF ms
<1>12. \E z \in Seq(FrameType) : air' = Group(air, n, z) /\ \A x \in ToSet(z) : x.about # n
  BY <1>9, <1>10, <1>11
<1> QED  BY <1>3, <1>4, <1>12

(***************************************************************************)
(* A step, as the proofs take it.                                          *)
(***************************************************************************)
Shorter(n) == outbox[n] # <<>> /\ outbox' = [outbox EXCEPT ![n] = Tail(@)]

\* n speaks, and may have taken the word from its queue.
SpeaksUp(n) ==
  /\ outbox' = outbox \/ Shorter(n)
  /\ \E k \in Nat : \E M \in SUBSET FrameType : Speaks(n, k, M)
\* n queues word x.
Defers(n, x) ==
  /\ Speaks(n, 1, {}) /\ air' = air
  /\ x \in FrameType /\ x.about = n /\ x.kind = "preq" /\ x.sn = Later(sn[n], 1)
  /\ Len(outbox[n]) < Outbox /\ outbox' = [outbox EXCEPT ![n] = Append(@, x)]
\* A queued word of n goes as it is.
SendsQueued(n) == Shorter(n) /\ Head(outbox[n]) \in FrameType /\ Goes(n, Head(outbox[n]))
\* q[2] takes a frame of q[1].
Takes(q) ==
  /\ outbox' = outbox /\ air[q] # <<>>
  /\ \/ Ignored(q[2], q[1]) \/ ReceivePerr(q[2], q[1])
     \/ \E m \in ToSet(air[q]) : Passes(q[2], q[1], m) \/ Answers(q[2], q[1], m)
Quits(q) == PeerLost(q[1], q[2]) /\ spent'["breaks"] # 0
\* A path lapses or goes, or nothing of this happens.
Ages ==
  /\ sn' = sn /\ air' = air /\ outbox' = outbox
  /\ path' = path \/ \E n, d \in Node : Lapse(n, d) \/ Expire(n, d)

Moves ==
  \/ \E n \in Node : SpeaksUp(n) \/ (\E x \in FrameType : Defers(n, x)) \/ SendsQueued(n)
  \/ \E q \in Pairs : Takes(q) \/ Quits(q)
  \/ Ages
Tallies ==
  /\ peers' \in [Node -> SUBSET Node] /\ \A n \in Node : peers'[n] \subseteq Near[n]
  /\ spent' \in [Budgets -> Nat] /\ \A w \in Budgets : spent'[w] = 0 => spent[w] = 0

LEMMA TalliesSame ==
  ASSUME Types, peers' = peers, spent' = spent \/ \E what \in Budgets : \E max : Spend(what, max)
  PROVE  Tallies
<1>1. peers' \in [Node -> SUBSET Node] /\ \A n \in Node : peers'[n] \subseteq Near[n]
  BY DEF Types
<1>2. spent' \in [Budgets -> Nat] /\ \A w \in Budgets : spent'[w] = 0 => spent[w] = 0
  <2>1. CASE spent' = spent
    BY <2>1 DEF Types
  <2>2. ASSUME NEW what \in Budgets, NEW max, Spend(what, max)
        PROVE  spent' \in [Budgets -> Nat] /\ \A w \in Budgets : spent'[w] = 0 => spent[w] = 0
    BY <2>2, SpendIs
  <2> QED  BY <2>1, <2>2
<1> QED  BY <1>1, <1>2 DEF Tallies

LEMMA Spends ==
  ASSUME NEW what \in {"asks", "breaks", "losses", "lapses"}, NEW max, Spend(what, max)
  PROVE  \E w \in Budgets : \E x : Spend(w, x)
BY DEF Budgets

LEMMA Steps ==
  ASSUME Types, [Next]_vars
  PROVE  Moves /\ Tallies
<1>1. ASSUME NEW f \in Flows, Ask(f[1], f[2])  PROVE Moves /\ Tallies
  <2>1. f[1] \in Node /\ f[2] \in Node
    BY Constants
  <2>2. \E M \in SUBSET FrameType : Speaks(f[1], 1, M)
    <3>1. Speaks(f[1], 1, {Preq(f[1], Up(sn[f[1]]), f[2])})
      BY <1>1, <2>1, AskIs
    <3>2. {Preq(f[1], Up(sn[f[1]]), f[2])} \in SUBSET FrameType
      BY <3>1 DEF Speaks
    <3> QED  BY <3>1, <3>2
  <2>3. outbox' = outbox /\ peers' = peers /\ Spend("asks", MaxAsks)
    BY <1>1 DEF Ask
  <2>4. Tallies
    BY <2>3, TalliesSame, Spends
  <2>5. SpeaksUp(f[1])
    <3>1. 1 \in Nat
      OBVIOUS
    <3> QED  BY <2>2, <2>3, <3>1 DEF SpeaksUp
  <2> QED  BY <2>1, <2>4, <2>5 DEF Moves
<1>2. ASSUME NEW f \in Flows, AskOffLoop(f[1], f[2])  PROVE Moves /\ Tallies
  <2> DEFINE n == f[1]
             x == Preq(n, Up(sn[n]), f[2])
  <2>1. n \in Node /\ f[2] \in Node
    BY Constants
  <2>2. Speaks(n, 1, {}) /\ air' = air
    BY <1>2, <2>1, AskOffLoopIs
  <2>3. peers' = peers /\ Spend("asks", MaxAsks)
    BY <1>2 DEF AskOffLoop
  <2>4. Tallies
    BY <2>3, TalliesSame, Spends
  <2>5. CASE outbox' = outbox
    <3>1. 1 \in Nat /\ {} \in SUBSET FrameType
      OBVIOUS
    <3>2. SpeaksUp(n)
      BY <2>2, <2>5, <3>1 DEF SpeaksUp
    <3> QED  BY <2>1, <2>4, <3>2 DEF Moves
  <2>6. CASE Len(outbox[n]) < Outbox /\ outbox' = [outbox EXCEPT ![n] = Append(@, x)]
    <3>1. Up(sn[n]) \in Sn /\ Up(sn[n]) = Later(sn[n], 1)
      BY <2>1, UpIs DEF Types
    <3>2. x \in FrameType /\ x.about = n /\ x.kind = "preq" /\ x.sn = Later(sn[n], 1)
      BY <2>1, <3>1, FramesFit, PreqFields
    <3> HIDE DEF x, n
    <3>3. Defers(n, x)
      BY <2>2, <2>6, <3>2 DEF Defers
    <3> QED  BY <2>1, <2>4, <3>2, <3>3 DEF Moves
  <2> QED  BY <1>2, <2>5, <2>6 DEF AskOffLoop
<1>3. ASSUME NEW n \in Node, Drain(n)  PROVE Moves /\ Tallies
  <2>1. peers' = peers /\ spent' = spent
    BY <1>3 DEF Drain
  <2>2. Tallies
    BY <2>1, TalliesSame
  <2>3. /\ Head(outbox[n]) \in FrameType /\ Shorter(n)
        /\ Goes(n, Head(outbox[n])) \/ \E x \in FrameType : Speaks(n, 1, {x})
    BY <1>3, DrainIs DEF Shorter
  <2>4. CASE Goes(n, Head(outbox[n]))
    BY <2>2, <2>3, <2>4 DEF Moves, SendsQueued
  <2>5. ASSUME NEW x \in FrameType, Speaks(n, 1, {x})  PROVE Moves
    <3>1. 1 \in Nat /\ {x} \in SUBSET FrameType
      OBVIOUS
    <3>2. SpeaksUp(n)
      BY <2>3, <2>5, <3>1 DEF SpeaksUp
    <3> QED  BY <3>2 DEF Moves
  <2> QED  BY <2>2, <2>3, <2>4, <2>5
<1>4. ASSUME NEW n \in Node, KeepAlive(n)  PROVE Moves /\ Tallies
  <2>1. peers' = peers /\ outbox' = outbox /\ Spend("asks", MaxAsks)
    BY <1>4 DEF KeepAlive
  <2>2. Tallies
    BY <2>1, TalliesSame, Spends
  <2>3. SpeaksUp(n)
    BY <1>4, <2>1, KeepAliveIs DEF SpeaksUp
  <2> QED  BY <2>2, <2>3 DEF Moves
<1>5. ASSUME NEW q \in Pairs,
             ReceivePreq(q[2], q[1]) \/ ReceivePrep(q[2], q[1]) \/ ReceivePerr(q[2], q[1]) \/ Lose(q[2], q[1])
      PROVE  Moves /\ Tallies
  <2>1. peers' = peers /\ outbox' = outbox /\ (spent' = spent \/ Spend("losses", MaxLosses))
    BY <1>5 DEF ReceivePreq, ReceivePrep, ReceivePerr, Lose
  <2>2. Tallies
    BY <2>1, TalliesSame, Spends
  <2>3. air[<<q[1], q[2]>>] # <<>>
    BY <1>5 DEF ReceivePreq, ReceivePrep, ReceivePerr, Lose, Arrived
  <2>4. air[q] # <<>>
    <3>1. q = <<q[1], q[2]>>
      BY PairIs
    <3> QED  BY <2>3, <3>1, Zenon
  <2>5. ASSUME Lose(q[2], q[1])  PROVE Ignored(q[2], q[1])
    <3>1. spent'["losses"] # 0
      <4>1. "losses" \in Budgets /\ Spend("losses", MaxLosses)
        BY <2>5 DEF Lose, Budgets
      <4> QED  BY <4>1, SpendIs
    <3> QED  BY <2>5, <3>1 DEF Lose, Ignored, Rest
  <2>6. Takes(q)
    BY <1>5, <2>1, <2>4, <2>5, PreqIs, PrepIs DEF Takes
  <2> QED  BY <2>2, <2>6 DEF Moves
<1>6. ASSUME NEW q \in Pairs, PeerLost(q[1], q[2])  PROVE Moves /\ Tallies
  <2>1. Spend("breaks", MaxBreaks) /\ peers' = [peers EXCEPT ![q[1]] = @ \ {q[2]}]
    BY <1>6 DEF PeerLost
  <2>2. spent' \in [Budgets -> Nat] /\ spent'["breaks"] # 0 /\ \A w \in Budgets : spent'[w] = 0 => spent[w] = 0
    <3>1. "breaks" \in Budgets
      BY DEF Budgets
    <3> QED  BY <2>1, <3>1, SpendIs
  <2>3. peers' \in [Node -> SUBSET Node] /\ \A n \in Node : peers'[n] \subseteq Near[n]
    BY <2>1, PairIs DEF Types
  <2>4. Tallies
    BY <2>2, <2>3 DEF Tallies
  <2> QED  BY <1>6, <2>2, <2>4 DEF Moves, Quits
<1>7. ASSUME NEW q \in Pairs, PeerFound(q[1], q[2])  PROVE Moves /\ Tallies
  <2>1. q[1] \in Node /\ q[2] \in Node
    BY PairIs
  <2>2. /\ peers' = [peers EXCEPT ![q[1]] = @ \cup {q[2]}, ![q[2]] = @ \cup {q[1]}]
        /\ path' = path /\ sn' = sn /\ outbox' = outbox /\ air' = air /\ spent' = spent
        /\ q[2] \in Near[q[1]]
    BY <1>7 DEF PeerFound
  <2>3. q[1] \in Near[q[2]]
    BY <2>1, <2>2, InRange
  <2>4. /\ peers' \in [Node -> SUBSET Node] /\ \A n \in Node : peers'[n] \subseteq Near[n]
    BY <2>1, <2>2, <2>3 DEF Types
  <2>5. spent' \in [Budgets -> Nat] /\ \A w \in Budgets : spent'[w] = 0 => spent[w] = 0
    BY <2>2 DEF Types
  <2>6. Tallies
    BY <2>4, <2>5 DEF Tallies
  <2> QED  BY <2>2, <2>6 DEF Moves, Ages
<1>8. ASSUME NEW n \in Node, NEW d \in Node, Lapse(n, d) \/ Expire(n, d)  PROVE Moves /\ Tallies
  <2>1. peers' = peers /\ outbox' = outbox /\ sn' = sn /\ air' = air /\ (spent' = spent \/ Spend("lapses", MaxLapses))
    BY <1>8 DEF Lapse, Expire
  <2>2. Tallies
    BY <2>1, TalliesSame, Spends
  <2> QED  BY <1>8, <2>1, <2>2 DEF Moves, Ages
<1>9. ASSUME UNCHANGED vars  PROVE Moves /\ Tallies
  <2>1. peers' = peers /\ outbox' = outbox /\ sn' = sn /\ air' = air /\ spent' = spent /\ path' = path
    BY <1>9 DEF vars
  <2>2. Tallies
    BY <2>1, TalliesSame
  <2> QED  BY <2>1, <2>2 DEF Moves, Ages
<1> QED  BY <1>1, <1>2, <1>3, <1>4, <1>5, <1>6, <1>7, <1>8, <1>9 DEF Next

LEMMA Starts == Init => Types
<1> SUFFICES ASSUME Init  PROVE Types
  OBVIOUS
<1>1. path \in Tables
  BY DEF Init, Tables
<1>2. Kept(path)
  <2>1. \A n \in Node : path[n][n] = NoPath /\ HeldIn(path[n]) = {}
    BY DEF Init, HeldIn
  <2>2. Cardinality({}) = 0 /\ 0 <= PathMax
    BY FS_EmptySet, Constants
  <2> QED  BY <2>1, <2>2 DEF Kept
<1>3. sn \in [Node -> Sn]
  BY Constants DEF Init
<1>4. air \in Airs
  BY DEF Init, Airs
<1>5. outbox \in Queues /\ Own1(outbox)
  <2>1. \A n \in Node : outbox[n] = <<>>
    BY DEF Init
  <2>2. Len(<<>>) <= Outbox /\ ToSet(<<>>) = {}
    BY Constants DEF ToSet
  <2> QED  BY <2>1, <2>2 DEF Init, Queues, Own1
<1>6. peers \in [Node -> SUBSET Node] /\ \A n \in Node : peers[n] \subseteq Near[n]
  BY Constants DEF Init
<1>7. spent \in [Budgets -> Nat]
  BY DEF Init, Budgets
<1> QED  BY <1>1, <1>2, <1>3, <1>4, <1>5, <1>6, <1>7 DEF Types

\* The queues after a step.
LEMMA ShorterTypes ==
  ASSUME Types, NEW n \in Node, Shorter(n)
  PROVE  outbox' \in Queues /\ Own1(outbox')
<1>1. outbox[n] \in Seq(FrameType) /\ outbox[n] # <<>> /\ outbox' = [outbox EXCEPT ![n] = Tail(@)] /\ Len(outbox[n]) \in Nat
  BY DEF Shorter, Types, Queues
<1>2. Tail(outbox[n]) \in Seq(FrameType) /\ ToSet(Tail(outbox[n])) \subseteq ToSet(outbox[n])
      /\ Len(Tail(outbox[n])) = Len(outbox[n]) - 1
  BY <1>1, SetOfTail
<1> DEFINE t == Tail(outbox[n])
           a == Len(t)
           b == Len(outbox[n])
<1>3. a <= Outbox
  <2>1. b \in Nat /\ b <= Outbox /\ a = b - 1
    BY <1>1, <1>2 DEF Types, Own1
  <2> HIDE DEF a, b
  <2> QED  BY <2>1, Constants
<1>4. outbox' = [outbox EXCEPT ![n] = t] /\ t \in Seq(FrameType) /\ \A m \in ToSet(t) : m.about = n /\ m.kind = "preq"
  BY <1>1, <1>2 DEF Types, Own1
<1> HIDE DEF t
<1>5. outbox' \in Queues /\ outbox'[n] = t /\ \A k \in Node : k # n => outbox'[k] = outbox[k]
  BY <1>4 DEF Types, Queues
<1> QED  BY <1>3, <1>4, <1>5 DEF Types, Own1

LEMMA DefersTypes ==
  ASSUME Types, NEW n \in Node, NEW x, Defers(n, x)
  PROVE  outbox' \in Queues /\ Own1(outbox')
<1>1. outbox[n] \in Seq(FrameType) /\ Len(outbox[n]) < Outbox /\ outbox' = [outbox EXCEPT ![n] = Append(@, x)]
      /\ x \in FrameType /\ x.about = n /\ x.kind = "preq"
  BY DEF Defers, Types, Queues
<1> DEFINE t == Append(outbox[n], x)
           a == Len(t)
           b == Len(outbox[n])
<1>2. t \in Seq(FrameType) /\ ToSet(t) = ToSet(outbox[n]) \cup {x}
  BY <1>1, SetOfAppend
<1>3. a <= Outbox
  <2>1. b \in Nat /\ b < Outbox /\ a = b + 1
    BY <1>1
  <2> HIDE DEF a, b
  <2> QED  BY <2>1, Constants
<1>4. outbox' = [outbox EXCEPT ![n] = t] /\ \A m \in ToSet(t) : m.about = n /\ m.kind = "preq"
  BY <1>1, <1>2 DEF Types, Own1
<1> HIDE DEF t
<1>5. outbox' \in Queues /\ outbox'[n] = t /\ \A k \in Node : k # n => outbox'[k] = outbox[k]
  BY <1>2, <1>4 DEF Types, Queues
<1> QED  BY <1>3, <1>4, <1>5 DEF Types, Own1

LEMMA AgesTypes ==
  ASSUME Types, Ages
  PROVE  path' \in Tables /\ Kept(path')
<1>1. path \in Tables /\ Kept(path)
  BY DEF Types
<1>2. CASE path' = path
  BY <1>1, <1>2
<1>3. ASSUME NEW n \in Node, NEW d \in Node, Lapse(n, d)  PROVE path' \in Tables /\ Kept(path')
  <2>1. path[n][d] # NoPath /\ path' = [path EXCEPT ![n][d].live = FALSE]
    BY <1>3 DEF Lapse, Held
  <2>2. path[n][d] \in PathType
    BY <1>1, <2>1, PathIs
  <2>3. [path[n][d] EXCEPT !.live = FALSE] \in PathType
    BY <2>2 DEF PathType
  <2>4. /\ path' = [k \in Node |-> path'[k]] /\ \A k \in Node : k # n => path'[k] = path[k]
        /\ path'[n] = [path[n] EXCEPT ![d] = [path[n][d] EXCEPT !.live = FALSE]]
    BY <1>1, <2>1 DEF Tables
  <2>5. path'[n] \in [Node -> PathType \cup {NoPath}] /\ \A e \in Node : e # d => path'[n][e] = path[n][e]
    BY <1>1, <2>3, <2>4 DEF Tables
  <2>6. \A e \in Node : path[n][e] = NoPath => path'[n][e] = NoPath
    BY <2>1, <2>5
  <2>7. path' = [k \in Node |-> path'[k]] /\ \A k \in Node : k # n => path'[k] = path[k]
    BY <2>4
  <2>8. path'[n] \in [Node -> PathType \cup {NoPath}]
    BY <2>5
  <2> QED  BY <1>1, <2>6, <2>7, <2>8, FewerPaths
<1>4. ASSUME NEW n \in Node, NEW d \in Node, Expire(n, d)  PROVE path' \in Tables /\ Kept(path')
  <2>1. path' = [path EXCEPT ![n][d] = NoPath]
    BY <1>4 DEF Expire
  <2>2. /\ path' = [k \in Node |-> path'[k]] /\ \A k \in Node : k # n => path'[k] = path[k]
        /\ path'[n] = [path[n] EXCEPT ![d] = NoPath]
    BY <1>1, <2>1 DEF Tables
  <2>3. path'[n] \in [Node -> PathType \cup {NoPath}] /\ \A e \in Node : path[n][e] = NoPath => path'[n][e] = NoPath
    BY <1>1, <2>2 DEF Tables
  <2> QED  BY <1>1, <2>2, <2>3, FewerPaths
<1> QED  BY <1>2, <1>3, <1>4 DEF Ages

\* What a lost neighbour's node says, in the air.
LEMMA QuitsAir ==
  ASSUME Types, NEW q \in Pairs, NEW ms \in Seq(FrameType), air' = Group(air, q[1], ms)
  PROVE  Spread(air, air', q[1], ToSet(ms))
<1>1. Spread(air, air, q[1], {})
  BY SpreadSame DEF Types
<1>2. Spread(air, Group(air, q[1], ms), q[1], {} \cup ToSet(ms))
  BY <1>1, SpreadGroup
<1>3. {} \cup ToSet(ms) = ToSet(ms)
  OBVIOUS
<1> QED  BY <1>2, <1>3

LEMMA TypesStep ==
  ASSUME Types, Moves, Tallies
  PROVE  Types'
<1> DEFINE Frames == path' \in Tables /\ Kept(path') /\ sn' \in [Node -> Sn] /\ air' \in Airs
           Waits == outbox' \in Queues /\ Own1(outbox')
<1>1. path \in Tables /\ Kept(path) /\ sn \in [Node -> Sn] /\ air \in Airs
  BY DEF Types
<1>2. outbox' = outbox => Waits
  BY DEF Types
<1>3. ASSUME NEW n \in Node, SpeaksUp(n)  PROVE Frames /\ Waits
  <2>1. Frames
    BY <1>3, SpeaksTypes DEF SpeaksUp
  <2>2. Waits
    BY <1>2, <1>3, ShorterTypes DEF SpeaksUp
  <2> QED  BY <2>1, <2>2
<1>4. ASSUME NEW n \in Node, NEW x, Defers(n, x)  PROVE Frames /\ Waits
  <2>1. Frames
    BY <1>4, SpeaksTypes DEF Defers
  <2>2. Waits
    BY <1>4, DefersTypes
  <2> QED  BY <2>1, <2>2
<1>5. ASSUME NEW n \in Node, SendsQueued(n)  PROVE Frames /\ Waits
  <2>1. path' = path /\ sn' = sn /\ air' \in Airs
    BY <1>5 DEF SendsQueued, Goes, Adds
  <2>2. Waits
    BY <1>5, ShorterTypes DEF SendsQueued
  <2> QED  BY <1>1, <2>1, <2>2
<1>6. ASSUME NEW q \in Pairs, Takes(q)  PROVE Frames /\ Waits
  <2>1. Waits
    BY <1>2, <1>6 DEF Takes
  <2>2. CASE Ignored(q[2], q[1])
    <3>1. path' = path /\ sn' = sn /\ air' = Rest(q[2], q[1]) /\ air[q] # <<>>
      BY <1>6, <2>2 DEF Ignored, Takes
    <3>2. air' \in Airs
      <4>1. q = <<q[1], q[2]>>
        BY PairIs
      <4>2. <<q[1], q[2]>> \in Pairs /\ air[<<q[1], q[2]>>] # <<>>
        BY <3>1, <4>1, Zenon
      <4>3. Spread(air, Rest(q[2], q[1]), q[2], {})
        BY <1>1, <4>2, SpreadRest
      <4> QED  BY <3>1, <4>3 DEF Spread
    <3> QED  BY <1>1, <2>1, <3>1, <3>2
  <2>3. CASE ReceivePerr(q[2], q[1])
    <3>1. Frames
      <4>1. path' \in Tables /\ Kept(path') /\ sn' = sn /\ \E M \in SUBSET FrameType : Adds(Rest(q[2], q[1]), air', q[2], M)
        BY <2>3, PerrIs
      <4>2. air' \in Airs
        BY <4>1 DEF Adds
      <4> QED  BY <1>1, <4>1, <4>2
    <3> QED  BY <2>1, <3>1
  <2>4. ASSUME NEW m \in ToSet(air[q]), Passes(q[2], q[1], m) \/ Answers(q[2], q[1], m)  PROVE Frames /\ Waits
    BY <2>1, <2>4, LearnsTypes
  <2> QED  BY <1>6, <2>2, <2>3, <2>4 DEF Takes
<1>7. ASSUME NEW q \in Pairs, Quits(q)  PROVE Frames /\ Waits
  <2>1. PeerLost(q[1], q[2])
    BY <1>7 DEF Quits
  <2>2. path' \in Tables /\ Kept(path') /\ sn' = sn /\ outbox' = outbox
    BY <2>1, LostIs
  <2>3. PICK ms \in Seq(FrameType) : air' = Group(air, q[1], ms)
    BY <2>1, LostIs
  <2>4. air' \in Airs
    BY <2>3, QuitsAir DEF Spread
  <2> QED  BY <1>1, <1>2, <2>2, <2>4
<1>8. ASSUME Ages  PROVE Frames /\ Waits
  <2>1. sn' = sn /\ air' = air /\ outbox' = outbox
    BY <1>8 DEF Ages
  <2> QED  BY <1>1, <1>2, <1>8, <2>1, AgesTypes
<1>9. Frames /\ Waits
  BY <1>3, <1>4, <1>5, <1>6, <1>7, <1>8 DEF Moves
<1> HIDE DEF Frames, Waits
<1>10. Frames /\ Waits /\ Tallies
  BY <1>9
<1> QED  BY <1>10 DEF Types, Frames, Waits, Tallies

(***************************************************************************)
(* What a node says of itself goes out with rising numbers.                *)
(***************************************************************************)
Rising(s, e) ==
  \A i, j \in 1 .. Len(s) : i < j /\ s[i].about = e /\ s[j].about = e => Newer(s[j].sn, s[i].sn)

LEMMA RisingTail ==
  ASSUME NEW s \in Seq(FrameType), s # <<>>, NEW e, Rising(s, e)
  PROVE  Rising(Tail(s), e)
<1> DEFINE t == Tail(s)
<1>1. /\ Len(t) = Len(s) - 1 /\ Len(s) \in Nat /\ Len(t) \in Nat
      /\ \A i \in 1 .. Len(t) : t[i] = s[i + 1]
  OBVIOUS
<1> HIDE DEF t
<1>2. ASSUME NEW i \in 1 .. Len(t), NEW j \in 1 .. Len(t), i < j, t[i].about = e, t[j].about = e
      PROVE  Newer(t[j].sn, t[i].sn)
  <2>1. i + 1 \in 1 .. Len(s) /\ j + 1 \in 1 .. Len(s) /\ i + 1 < j + 1
    BY <1>1, <1>2
  <2>2. t[i] = s[i + 1] /\ t[j] = s[j + 1]
    BY <1>1
  <2> QED  BY <1>2, <2>1, <2>2 DEF Rising
<1> QED  BY <1>2 DEF Rising, t

LEMMA RisingConcat ==
  ASSUME NEW s \in Seq(FrameType), NEW t \in Seq(FrameType), NEW e, Rising(s, e), \A x \in ToSet(t) : x.about # e
  PROVE  Rising(s \o t, e)
<1> DEFINE u == s \o t
<1>1. /\ Len(u) = Len(s) + Len(t) /\ Len(s) \in Nat /\ Len(t) \in Nat
      /\ \A i \in 1 .. Len(s) : u[i] = s[i]
      /\ \A i \in 1 .. Len(u) : i > Len(s) => u[i] = t[i - Len(s)]
  OBVIOUS
<1> HIDE DEF u
<1>2. ASSUME NEW i \in 1 .. Len(u), u[i].about = e  PROVE i \in 1 .. Len(s) /\ u[i] = s[i]
  <2>1. CASE i > Len(s)
    <3>1. i - Len(s) \in 1 .. Len(t) /\ u[i] = t[i - Len(s)]
      BY <1>1, <2>1
    <3>2. u[i] \in ToSet(t)
      BY <3>1, SetOfSeq
    <3> QED  BY <1>2, <3>2
  <2> QED  BY <1>1, <2>1
<1> QED  BY <1>2 DEF Rising, u

LEMMA RisingAppend ==
  ASSUME NEW s \in Seq(FrameType), NEW m \in FrameType, NEW e, Rising(s, e),
         m.about = e => \A x \in ToSet(s) : x.about = e => Newer(m.sn, x.sn)
  PROVE  Rising(Append(s, m), e)
<1> DEFINE u == Append(s, m)
<1>1. /\ Len(u) = Len(s) + 1 /\ Len(s) \in Nat /\ u[Len(s) + 1] = m
      /\ \A i \in 1 .. Len(s) : u[i] = s[i]
  OBVIOUS
<1> HIDE DEF u
<1>2. ASSUME NEW i \in 1 .. Len(u), NEW j \in 1 .. Len(u), i < j, u[i].about = e, u[j].about = e
      PROVE  Newer(u[j].sn, u[i].sn)
  <2>1. i \in 1 .. Len(s) /\ u[i] = s[i]
    BY <1>1, <1>2
  <2>2. CASE j \in 1 .. Len(s)
    BY <1>1, <1>2, <2>1, <2>2 DEF Rising
  <2>3. CASE j = Len(s) + 1
    <3>1. u[j] = m /\ s[i] \in ToSet(s)
      BY <1>1, <2>1, <2>3, SetOfSeq
    <3> QED  BY <1>2, <2>1, <3>1
  <2> QED  BY <1>1, <2>2, <2>3
<1> QED  BY <1>2 DEF Rising, u

\* No two queued words have the same number; the last number drawn is queued or said, not both.
Distinct(s) == \A i, j \in 1 .. Len(s) : i # j => s[i].sn # s[j].sn
Unsaid(e) ==
  \A m \in ToSet(outbox[e]) : m.sn = sn[e] =>
    \A q \in Pairs : q[1] = e => \A x \in ToSet(air[q]) : x.about = e => x.sn # sn[e]
Rises ==
  /\ \A q \in Pairs : Rising(air[q], q[1])
  /\ \A e \in Node : Distinct(outbox[e]) /\ Unsaid(e)

LEMMA DistinctTail ==
  ASSUME NEW s \in Seq(FrameType), s # <<>>, Distinct(s)
  PROVE  Distinct(Tail(s)) /\ \A m \in ToSet(Tail(s)) : m.sn # Head(s).sn
<1> DEFINE t == Tail(s)
<1>1. /\ Len(t) = Len(s) - 1 /\ Len(s) \in Nat /\ Len(t) \in Nat /\ t \in Seq(FrameType)
      /\ \A i \in 1 .. Len(t) : t[i] = s[i + 1] /\ Head(s) = s[1] /\ 1 \in 1 .. Len(s)
  OBVIOUS
<1> HIDE DEF t
<1>2. \A i \in 1 .. Len(t) : i + 1 \in 1 .. Len(s) /\ i + 1 # 1
  BY <1>1
<1>3. ASSUME NEW i \in 1 .. Len(t), NEW j \in 1 .. Len(t), i # j  PROVE t[i].sn # t[j].sn
  <2>1. i + 1 # j + 1
    BY <1>3
  <2> QED  BY <1>1, <1>2, <2>1 DEF Distinct
<1>4. ASSUME NEW m \in ToSet(t)  PROVE m.sn # Head(s).sn
  <2>1. PICK i \in 1 .. Len(t) : m = t[i]
    BY <1>1, SetOfSeq
  <2>2. m = s[i + 1] /\ i + 1 \in 1 .. Len(s) /\ i + 1 # 1 /\ Head(s) = s[1] /\ 1 \in 1 .. Len(s)
    BY <1>1, <1>2, <2>1
  <2> QED  BY <2>2 DEF Distinct
<1> QED  BY <1>3, <1>4 DEF Distinct, t

LEMMA DistinctAppend ==
  ASSUME NEW s \in Seq(FrameType), NEW x \in FrameType, Distinct(s), \A m \in ToSet(s) : m.sn # x.sn
  PROVE  Distinct(Append(s, x))
<1> DEFINE u == Append(s, x)
<1>1. /\ Len(u) = Len(s) + 1 /\ Len(s) \in Nat /\ u[Len(s) + 1] = x
      /\ \A i \in 1 .. Len(s) : u[i] = s[i]
  OBVIOUS
<1> HIDE DEF u
<1>2. \A i \in 1 .. Len(s) : u[i].sn # x.sn
  BY <1>1, SetOfSeq
<1>3. ASSUME NEW i \in 1 .. Len(u), NEW j \in 1 .. Len(u), i # j  PROVE u[i].sn # u[j].sn
  <2>1. CASE i \in 1 .. Len(s) /\ j \in 1 .. Len(s)
    BY <1>1, <1>3, <2>1 DEF Distinct
  <2>2. CASE i = Len(s) + 1 /\ j \in 1 .. Len(s)
    BY <1>1, <1>2, <2>2
  <2>3. CASE j = Len(s) + 1 /\ i \in 1 .. Len(s)
    BY <1>1, <1>2, <2>3
  <2> QED  BY <1>1, <1>3, <2>1, <2>2, <2>3
<1> QED  BY <1>3 DEF Distinct, u

\* am is the air, but that some first frames may be gone.
Fewer(am) == am \in Airs /\ \A q \in Pairs : am[q] = air[q] \/ (air[q] # <<>> /\ am[q] = Tail(air[q]))

LEMMA FewerSame == Types => Fewer(air)
BY DEF Types, Fewer

LEMMA FewerRest ==
  ASSUME Types, NEW q \in Pairs, air[q] # <<>>
  PROVE  Fewer(Rest(q[2], q[1])) /\ Spread(air, Rest(q[2], q[1]), q[2], {})
<1> DEFINE am == Rest(q[2], q[1])
<1>1. q = <<q[1], q[2]>> /\ air \in Airs
  BY PairIs DEF Types
<1>2. <<q[1], q[2]>> \in Pairs /\ air[<<q[1], q[2]>>] # <<>> /\ am = [air EXCEPT ![q] = Tail(@)]
  BY <1>1, Zenon DEF Rest
<1>3. Spread(air, am, q[2], {})
  BY <1>1, <1>2, SpreadRest
<1> HIDE DEF am
<1>4. am \in Airs /\ \A k \in Pairs : am[k] = IF k = q THEN Tail(air[q]) ELSE air[k]
  BY <1>1, <1>2, <1>3 DEF Spread, Airs
<1> QED  BY <1>3, <1>4 DEF Fewer, am

LEMMA FewerRising ==
  ASSUME Types, Rises, NEW am, Fewer(am), NEW q \in Pairs
  PROVE  am[q] \in Seq(FrameType) /\ ToSet(am[q]) \subseteq ToSet(air[q]) /\ Rising(am[q], q[1])
<1>1. air[q] \in Seq(FrameType) /\ Rising(air[q], q[1])
  BY DEF Types, Airs, Rises
<1>2. CASE am[q] = air[q]
  BY <1>1, <1>2
<1>3. CASE air[q] # <<>> /\ am[q] = Tail(air[q])
  BY <1>1, <1>3, SetOfTail, RisingTail
<1> QED  BY <1>2, <1>3 DEF Fewer

LEMMA DistinctSteps ==
  ASSUME Types, Rises, NEW n \in Node, outbox' = outbox \/ Shorter(n)
  PROVE  /\ \A e \in Node : Distinct(outbox'[e]) /\ (e # n => outbox'[e] = outbox[e])
         /\ ToSet(outbox'[n]) \subseteq ToSet(outbox[n])
<1>1. outbox \in Queues /\ \A e \in Node : Distinct(outbox[e]) /\ outbox[e] \in Seq(FrameType)
  BY DEF Types, Rises, Queues
<1>2. CASE outbox' = outbox
  BY <1>1, <1>2
<1>3. CASE Shorter(n)
  <2>1. outbox'[n] = Tail(outbox[n]) /\ outbox[n] # <<>> /\ \A e \in Node : e # n => outbox'[e] = outbox[e]
    BY <1>1, <1>3 DEF Shorter, Queues
  <2>2. Distinct(Tail(outbox[n])) /\ ToSet(Tail(outbox[n])) \subseteq ToSet(outbox[n])
    BY <1>1, <2>1, DistinctTail, SetOfTail
  <2> QED  BY <1>1, <2>1, <2>2
<1> QED  BY <1>2, <1>3

\* Words of n of itself, with numbers just drawn; what that leaves queued.
OwnWords(n, k, am, M) ==
  /\ k \in Nat /\ k > 0 /\ 2 * k <= SnMod /\ sn' = [sn EXCEPT ![n] = Later(@, k)]
  /\ Fewer(am) /\ M \in SUBSET FrameType /\ Adds(am, air', n, M)
  /\ \A m \in M : m.about = n /\ \E i \in 1 .. k : m.sn = Later(sn[n], i)
Queued(n) ==
  /\ \A e \in Node : Distinct(outbox'[e]) /\ (e # n => outbox'[e] = outbox[e])
  /\ air' = air \/ ToSet(outbox'[n]) \subseteq ToSet(outbox[n])

LEMMA RisesOwn ==
  ASSUME Types, Types', Rises, OwnRecent, OwnRecent', NEW n \in Node,
         NEW k, NEW am, NEW M, OwnWords(n, k, am, M), Queued(n)
  PROVE  Rises'
<1> DEFINE s == sn[n]
           y == Later(s, k)
<1> USE DEF OwnWords, Queued
<1>1. s \in Sn /\ y \in Sn /\ sn'[n] = y /\ \A e \in Node : e # n => sn'[e] = sn[e]
  BY LaterIs DEF Types
<1>2. y \notin Window(s)
  BY <1>1, LaterIs
<1> HIDE DEF s, y
<1>3. ASSUME NEW q \in Pairs
      PROVE  /\ am[q] \in Seq(FrameType) /\ ToSet(am[q]) \subseteq ToSet(air[q]) /\ Rising(am[q], q[1])
             /\ air'[q] = am[q] \/ (q[1] = n /\ \E m \in M : air'[q] = Append(am[q], m))
  BY FewerRising DEF Adds
<1>4. ASSUME NEW q \in Pairs  PROVE Rising(air'[q], q[1])
  <2>1. CASE air'[q] = am[q]
    BY <1>3, <2>1
  <2>2. ASSUME q[1] = n, NEW m \in M, air'[q] = Append(am[q], m)  PROVE Rising(air'[q], q[1])
    <3>1. am[q] \in Seq(FrameType) /\ m \in FrameType /\ m.about = n
      BY <1>3
    <3>2. ToSet(air'[q]) = ToSet(am[q]) \cup {m}
      BY <2>2, <3>1, SetOfAppend
    <3>3. PICK i \in 1 .. k : m.sn = Later(s, i)
      BY DEF s
    <3>4. m.sn \in Window(y)
      BY <1>1, <2>2, <3>1, <3>2 DEF OwnRecent
    <3>5. ASSUME NEW x \in ToSet(am[q]), x.about = n  PROVE Newer(m.sn, x.sn)
      <4>1. x.sn \in Window(s)
        BY <1>3, <2>2, <3>5 DEF OwnRecent, s
      <4>2. x.sn \in Window(y)
        BY <1>1, <2>2, <3>2, <3>5 DEF OwnRecent
      <4>3. Later(s, i) \in Window(y)
        BY <3>3, <3>4
      <4>4. Newer(Later(s, i), x.sn)
        BY <1>1, <4>1, <4>2, <4>3, DrawnAreNewer DEF y
      <4> QED  BY <3>3, <4>4
    <3> QED  BY <1>3, <2>2, <3>1, <3>5, RisingAppend
  <2> QED  BY <1>3, <2>1, <2>2
<1>5. ASSUME NEW e \in Node  PROVE Unsaid(e)'
  <2>1. CASE e # n
    <3>1. sn'[e] = sn[e] /\ outbox'[e] = outbox[e] /\ Unsaid(e)
      BY <1>1, <2>1 DEF Rises
    <3>2. \A q \in Pairs : q[1] = e => ToSet(air'[q]) \subseteq ToSet(air[q])
      BY <1>3, <2>1
    <3> QED  BY <3>1, <3>2 DEF Unsaid
  <2>2. CASE e = n
    <3>1. CASE air' = air
      <4>1. ASSUME NEW q \in Pairs, q[1] = e, NEW x \in ToSet(air'[q]), x.about = e  PROVE x.sn # sn'[e]
        <5>1. x.sn \in Window(s)
          BY <2>2, <3>1, <4>1 DEF OwnRecent, s
        <5> QED  BY <1>1, <1>2, <2>2, <5>1
      <4> QED  BY <4>1 DEF Unsaid
    <3>2. CASE ToSet(outbox'[n]) \subseteq ToSet(outbox[n])
      <4>1. ASSUME NEW m \in ToSet(outbox'[e])  PROVE m.sn # sn'[e]
        <5>1. m.sn \in Window(s)
          BY <2>2, <3>2 DEF OwnRecent, s
        <5> QED  BY <1>1, <1>2, <2>2, <5>1
      <4> QED  BY <4>1 DEF Unsaid
    <3> QED  BY <3>1, <3>2
  <2> QED  BY <2>1, <2>2
<1> QED  BY <1>4, <1>5 DEF Rises

\* One such word.
LEMMA RisesOne ==
  ASSUME Types, Types', Rises, OwnRecent, OwnRecent', NEW n \in Node, sn' = [sn EXCEPT ![n] = Later(@, 1)],
         NEW am, Fewer(am), NEW x \in FrameType, Adds(am, air', n, {x}), x.about = n, x.sn = Later(sn[n], 1),
         outbox' = outbox
  PROVE  Rises'
<1>1. OwnWords(n, 1, am, {x})
  <2>1. 1 \in Nat /\ 1 > 0 /\ 2 * 1 <= SnMod /\ {x} \in SUBSET FrameType
    BY Constants
  <2>2. \A m \in {x} : m.about = n /\ \E i \in 1 .. 1 : m.sn = Later(sn[n], i)
    <3>1. 1 \in 1 .. 1
      OBVIOUS
    <3> QED  BY <3>1
  <2> QED  BY <2>1, <2>2, Zenon DEF OwnWords
<1>2. Queued(n)
  BY DEF Rises, Queued
<1> QED  BY <1>1, <1>2, RisesOwn

\* A queued word of n as it is: its number is the last that n drew.
LEMMA RisesQueued ==
  ASSUME Types, Types', Rises, OwnRecent, NEW n \in Node, SendsQueued(n)
  PROVE  Rises'
<1> DEFINE m == Head(outbox[n])
           s == sn[n]
<1>1. m \in FrameType /\ Shorter(n) /\ sn' = sn /\ m.sn = s /\ Adds(air, air', n, {m}) /\ s \in Sn
  BY DEF SendsQueued, Goes, Types
<1>2. outbox[n] # <<>> /\ outbox[n] \in Seq(FrameType) /\ outbox'[n] = Tail(outbox[n])
  BY <1>1 DEF Shorter, Types, Queues
<1>3. m \in ToSet(outbox[n]) /\ ToSet(Tail(outbox[n])) \subseteq ToSet(outbox[n])
  BY <1>2, SetOfTail
<1>4. \A e \in Node : Distinct(outbox'[e]) /\ (e # n => outbox'[e] = outbox[e])
  BY <1>1, DistinctSteps
<1>5. \A x \in ToSet(outbox'[n]) : x.sn # m.sn
  BY <1>2, DistinctTail DEF Rises
<1> HIDE DEF m
<1>6. ASSUME NEW q \in Pairs
      PROVE  /\ air[q] \in Seq(FrameType) /\ Rising(air[q], q[1])
             /\ air'[q] = air[q] \/ (q[1] = n /\ air'[q] = Append(air[q], m))
  BY <1>1 DEF Adds, Rises, Types, Airs
<1>7. ASSUME NEW q \in Pairs  PROVE Rising(air'[q], q[1])
  <2>1. CASE air'[q] = air[q]
    BY <1>6, <2>1
  <2>2. CASE q[1] = n /\ air'[q] = Append(air[q], m)
    <3>1. ASSUME NEW x \in ToSet(air[q]), x.about = n  PROVE Newer(m.sn, x.sn)
      <4>1. x.sn # s
        BY <1>1, <1>3, <2>2, <3>1 DEF Rises, Unsaid
      <4>2. x.sn \in Window(s)
        BY <2>2, <3>1 DEF OwnRecent
      <4> QED  BY <1>1, <4>1, <4>2, NewestIs
    <3> QED  BY <1>1, <1>6, <2>2, <3>1, RisingAppend
  <2> QED  BY <1>6, <2>1, <2>2
<1>8. ASSUME NEW e \in Node  PROVE Unsaid(e)'
  <2>1. CASE e = n
    BY <1>1, <1>5, <2>1 DEF Unsaid
  <2>2. CASE e # n
    <3>1. \A q \in Pairs : q[1] = e => air'[q] = air[q]
      BY <1>6, <2>2
    <3>2. sn' = sn /\ outbox'[e] = outbox[e] /\ Unsaid(e)
      BY <1>1, <1>4, <2>2 DEF Rises
    <3> QED  BY <3>1, <3>2 DEF Unsaid
  <2> QED  BY <2>1, <2>2
<1> QED  BY <1>4, <1>7, <1>8 DEF Rises

\* What n passes on or announces is of others.
LEMMA RisesForeign ==
  ASSUME Types, Rises, sn' = sn, outbox' = outbox, NEW n,
         \A q \in Pairs : /\ Rising(air'[q], q[1])
                          /\ \A x \in ToSet(air'[q]) : x \in ToSet(air[q]) \/ x.about # q[1]
  PROVE  Rises'
<1>1. ASSUME NEW e \in Node  PROVE Unsaid(e)'
  BY DEF Rises, Unsaid
<1> QED  BY <1>1 DEF Rises

LEMMA RisesAdds ==
  ASSUME Types, Rises, sn' = sn, outbox' = outbox, NEW n, NEW am, Fewer(am), NEW M \in SUBSET FrameType,
         Adds(am, air', n, M), \A x \in M : x.about # n
  PROVE  Rises'
<1>1. ASSUME NEW q \in Pairs
      PROVE  /\ Rising(air'[q], q[1])
             /\ \A x \in ToSet(air'[q]) : x \in ToSet(air[q]) \/ x.about # q[1]
  <2>1. am[q] \in Seq(FrameType) /\ ToSet(am[q]) \subseteq ToSet(air[q]) /\ Rising(am[q], q[1])
    BY FewerRising
  <2>2. CASE air'[q] = am[q]
    BY <2>1, <2>2
  <2>3. ASSUME q[1] = n, NEW m \in M, air'[q] = Append(am[q], m)
        PROVE  /\ Rising(air'[q], q[1])
               /\ \A x \in ToSet(air'[q]) : x \in ToSet(air[q]) \/ x.about # q[1]
    <3>1. ToSet(air'[q]) = ToSet(am[q]) \cup {m} /\ m \in FrameType
      BY <2>1, <2>3, SetOfAppend
    <3> QED  BY <2>1, <2>3, <3>1, RisingAppend
  <2> QED  BY <2>2, <2>3 DEF Adds
<1> QED  BY <1>1, RisesForeign

LEMMA RisesStep ==
  ASSUME Types, Types', Rises, OwnRecent, OwnRecent', Moves
  PROVE  Rises'
<1>1. ASSUME NEW n \in Node, SpeaksUp(n)  PROVE Rises'
  <2>1. PICK k \in Nat, M \in SUBSET FrameType : Speaks(n, k, M)
    BY <1>1 DEF SpeaksUp
  <2>2. /\ \A e \in Node : Distinct(outbox'[e]) /\ (e # n => outbox'[e] = outbox[e])
        /\ ToSet(outbox'[n]) \subseteq ToSet(outbox[n])
    BY <1>1, DistinctSteps DEF SpeaksUp
  <2>3. OwnWords(n, k, air, M)
    BY <2>1, FewerSame DEF Speaks, OwnWords
  <2>4. Queued(n)
    BY <2>2 DEF Queued
  <2> QED  BY <2>3, <2>4, RisesOwn
<1>2. ASSUME NEW n \in Node, NEW x, Defers(n, x)  PROVE Rises'
  <2>1. /\ Speaks(n, 1, {}) /\ air' = air /\ x \in FrameType /\ x.sn = Later(sn[n], 1)
        /\ outbox'[n] = Append(outbox[n], x) /\ \A e \in Node : e # n => outbox'[e] = outbox[e]
    BY <1>2 DEF Defers, Types, Queues
  <2>2. sn[n] \in Sn /\ Later(sn[n], 1) \notin Window(sn[n])
    <3>1. sn[n] \in Sn /\ 1 \in Nat /\ 1 > 0 /\ 2 * 1 <= SnMod
      BY Constants DEF Types
    <3> QED  BY <3>1, LaterIs
  <2>3. \A m \in ToSet(outbox[n]) : m.sn # x.sn
    BY <2>1, <2>2 DEF OwnRecent
  <2>4. Distinct(outbox'[n])
    BY <2>1, <2>3, DistinctAppend DEF Rises, Types, Queues
  <2>5. \A e \in Node : Distinct(outbox'[e]) /\ (e # n => outbox'[e] = outbox[e])
    BY <2>1, <2>4 DEF Rises
  <2>6. OwnWords(n, 1, air, {})
    <3>1. 1 \in Nat /\ 1 > 0 /\ 2 * 1 <= SnMod /\ {} \in SUBSET FrameType
      BY Constants
    <3> QED  BY <2>1, <3>1, FewerSame DEF Speaks, OwnWords
  <2>7. Queued(n)
    BY <2>1, <2>5 DEF Queued
  <2> QED  BY <2>6, <2>7, RisesOwn
<1>3. ASSUME NEW n \in Node, SendsQueued(n)  PROVE Rises'
  BY <1>3, RisesQueued
<1>4. ASSUME NEW q \in Pairs, Takes(q)  PROVE Rises'
  <2> DEFINE n == q[2]
             am == Rest(q[2], q[1])
  <2>1. Fewer(am) /\ am \in Airs /\ outbox' = outbox /\ n \in Node
    BY <1>4, FewerRest, PairIs DEF Takes, Fewer
  <2> HIDE DEF am
  <2>2. CASE Ignored(q[2], q[1])
    <3>1. sn' = sn /\ air' = am
      BY <2>2 DEF Ignored, am
    <3>2. Adds(am, air', n, {})
      BY <2>1, <3>1, AddsNone
    <3>3. {} \in SUBSET FrameType /\ \A x \in {} : x.about # n
      OBVIOUS
    <3> QED  BY <2>1, <3>1, <3>2, <3>3, RisesAdds
  <2>3. CASE ReceivePerr(q[2], q[1])
    <3>1. sn' = sn
      BY <2>3, PerrIs
    <3>2. PICK M \in SUBSET FrameType : Adds(am, air', n, M) /\ \A x \in M : x.about # n
      BY <2>3, PerrIs DEF am
    <3> QED  BY <2>1, <3>1, <3>2, RisesAdds
  <2>4. ASSUME NEW m \in ToSet(air[q]), Passes(q[2], q[1], m)  PROVE Rises'
    <3>1. m.about # n /\ m \in FrameType /\ sn' = sn /\ Adds(am, air', n, {Onward(m)} \cap FrameType)
      BY <2>4 DEF Passes, Learns, am
    <3>2. {Onward(m)} \cap FrameType \in SUBSET FrameType /\ \A x \in {Onward(m)} \cap FrameType : x.about # n
      BY <3>1, OnwardIs
    <3> QED  BY <2>1, <3>1, <3>2, RisesAdds
  <2>5. ASSUME NEW m \in ToSet(air[q]), Answers(q[2], q[1], m)  PROVE Rises'
    <3> DEFINE x == Answer(n, m)
    <3>1. x \in FrameType /\ sn' = [sn EXCEPT ![n] = Up(@)] /\ Adds(am, air', n, {x})
      BY <2>5 DEF Answers, am
    <3>2. sn[n] \in Sn /\ Up(sn[n]) = Later(sn[n], 1)
      BY <2>1, UpIs DEF Types
    <3>3. x.about = n /\ x.sn = Later(sn[n], 1)
      BY <3>2 DEF Answer, Prep, Frame
    <3> HIDE DEF x
    <3>4. sn' = [sn EXCEPT ![n] = Later(@, 1)]
      BY <3>1, <3>2
    <3> QED  BY <2>1, <3>1, <3>3, <3>4, RisesOne
  <2> QED  BY <1>4, <2>2, <2>3, <2>4, <2>5 DEF Takes
<1>5. ASSUME NEW q \in Pairs, Quits(q)  PROVE Rises'
  <2>1. PeerLost(q[1], q[2])
    BY <1>5 DEF Quits
  <2>2. sn' = sn /\ outbox' = outbox
    BY <2>1, LostIs
  <2>3. PICK ms \in Seq(FrameType) : air' = Group(air, q[1], ms) /\ \A x \in ToSet(ms) : x.about # q[1]
    BY <2>1, LostIs
  <2>4. ASSUME NEW r \in Pairs
        PROVE  /\ Rising(air'[r], r[1])
               /\ \A x \in ToSet(air'[r]) : x \in ToSet(air[r]) \/ x.about # r[1]
    <3>1. air[r] \in Seq(FrameType) /\ Rising(air[r], r[1])
      BY DEF Types, Airs, Rises
    <3>2. air'[r] = IF r[1] = q[1] THEN air[r] \o ms ELSE air[r]
      BY <2>3 DEF Group
    <3>3. CASE r[1] = q[1]
      <4>1. Rising(air[r] \o ms, r[1])
        BY <2>3, <3>1, <3>3, RisingConcat
      <4>2. ToSet(air[r] \o ms) = ToSet(air[r]) \cup ToSet(ms)
        BY <3>1, SetOfConcat
      <4> QED  BY <2>3, <3>2, <3>3, <4>1, <4>2
    <3> QED  BY <3>1, <3>2, <3>3
  <2> QED  BY <2>2, <2>4, RisesForeign
<1>6. ASSUME Ages  PROVE Rises'
  BY <1>6 DEF Ages, Rises, Unsaid
<1> QED  BY <1>1, <1>2, <1>3, <1>4, <1>5, <1>6 DEF Moves

LEMMA RisesFirst == Init => Rises
<1> SUFFICES ASSUME Init  PROVE Rises
  OBVIOUS
<1>1. \A q \in Pairs : air[q] = <<>>
  BY DEF Init
<1>2. \A e \in Node : outbox[e] = <<>>
  BY DEF Init
<1>3. ToSet(<<>>) = {} /\ Len(<<>>) = 0 /\ 1 .. 0 = {}
  BY DEF ToSet
<1> QED  BY <1>1, <1>2, <1>3 DEF Rises, Rising, Distinct, Unsaid

LEMMA RisesIs == Types /\ Rises => NumbersRise
<1> SUFFICES ASSUME Types, Rises, NEW q \in Pairs, NEW i \in DOMAIN air[q], NEW j \in DOMAIN air[q], i < j,
                    air[q][i].about = q[1], air[q][j].about = q[1]
             PROVE  Newer(air[q][j].sn, air[q][i].sn)
  BY DEF NumbersRise
<1>1. air[q] \in Seq(FrameType) /\ Rising(air[q], q[1])
  BY DEF Types, Airs, Rises
<1>2. DOMAIN air[q] = 1 .. Len(air[q])
  BY <1>1
<1> QED  BY <1>1, <1>2 DEF Rising

(***************************************************************************)
(* While no neighbour is lost nothing goes round.                          *)
(***************************************************************************)
\* Number s of e is in some table or on its way.
Uses(P, A, e, s) ==
  \/ \E k \in Node : P[k][e] # NoPath /\ P[k][e].sn = s
  \/ \E q \in Pairs : \E x \in ToSet(A[q]) : x.about = e /\ x.sn = s
\* What is queued with the last number drawn has not been heard by anyone.
Unsent == \A e \in Node : \A m \in ToSet(outbox[e]) : m.sn = sn[e] => ~Uses(path, air, e, sn[e])
Calm == NoRings(path, air) /\ Unsent

LEMMA InUseNow == Types /\ AllRecent => \A d \in Node : InUse(path, air, d, sn[d])
<1> SUFFICES ASSUME Types, AllRecent, NEW d \in Node  PROVE InUse(path, air, d, sn[d])
  OBVIOUS
<1>1. sn[d] \in Sn
  BY DEF Types
<1>2. \A n \in Node : path[n][d] # NoPath => path[n][d].sn \in Window(sn[d])
  BY DEF AllRecent, Held
<1>3. ASSUME NEW q \in Pairs, NEW m \in ToSet(air[q]), m.about = d  PROVE m.sn \in Window(sn[d])
  <2>1. m \in Sayings(d)
    BY <1>3 DEF Sayings
  <2> QED  BY <2>1 DEF AllRecent
<1> QED  BY <1>1, <1>2, <1>3 DEF InUse

LEMMA UsesRecent ==
  ASSUME NEW P, NEW A, NEW e, NEW y, InUse(P, A, e, y), NEW s, Uses(P, A, e, s)
  PROVE  s \in Window(y)
BY DEF InUse, Uses

\* The tables know of e what they knew or heard.
Heard(P, A, P1, e) ==
  \A k \in Node : P1[k][e] # NoPath =>
    \/ P[k][e] # NoPath /\ P1[k][e].sn = P[k][e].sn
    \/ \E q \in Pairs : \E x \in ToSet(A[q]) : x.about = e /\ x.sn = P1[k][e].sn

LEMMA UsesStep ==
  ASSUME NEW P, NEW A, NEW P1, NEW B, NEW e, NEW n, NEW M, Heard(P, A, P1, e), Spread(A, B, n, M),
         \A x \in M : x.about = e => Uses(P, A, e, x.sn), NEW s, Uses(P1, B, e, s)
  PROVE  Uses(P, A, e, s)
<1>1. ASSUME NEW k \in Node, P1[k][e] # NoPath, P1[k][e].sn = s  PROVE Uses(P, A, e, s)
  BY <1>1 DEF Heard, Uses
<1>2. ASSUME NEW q \in Pairs, NEW x \in ToSet(B[q]), x.about = e, x.sn = s  PROVE Uses(P, A, e, s)
  BY <1>2 DEF Spread, Uses
<1> QED  BY <1>1, <1>2 DEF Uses

LEMMA HeardSame ==
  ASSUME NEW P, NEW A, NEW e
  PROVE  Heard(P, A, P, e)
BY DEF Heard

LEMMA HeardLearnt ==
  ASSUME NEW P, NEW A, NEW P1, NEW n \in Node, NEW q \in Pairs, NEW m \in ToSet(A[q]), NEW p, Learnt(P, P1, n, p, m),
         NEW e \in Node
  PROVE  Heard(P, A, P1, e)
<1> SUFFICES ASSUME NEW k \in Node, P1[k][e] # NoPath
             PROVE  \/ P[k][e] # NoPath /\ P1[k][e].sn = P[k][e].sn
                    \/ \E r \in Pairs : \E x \in ToSet(A[r]) : x.about = e /\ x.sn = P1[k][e].sn
  BY DEF Heard
<1>1. CASE ~(k = n /\ e = m.about)
  BY <1>1 DEF Learnt
<1>2. CASE k = n /\ e = m.about
  <2>1. P1[k][e].sn = m.sn
    BY <1>2 DEF Learnt, Path
  <2> QED  BY <1>2, <2>1
<1> QED  BY <1>1, <1>2

\* No number is drawn and none comes into use.
LEMMA UnsentSame ==
  ASSUME Unsent, sn' = sn, outbox' = outbox,
         \A e \in Node : \A s : Uses(path', air', e, s) => Uses(path, air, e, s)
  PROVE  Unsent'
BY DEF Unsent

\* n draws a number.
LEMMA UnsentDrawn ==
  ASSUME Types, Unsent, AllRecent, OwnRecent, NEW n \in Node, NEW k \in Nat, k > 0, 2 * k <= SnMod,
         sn' = [sn EXCEPT ![n] = Later(@, k)], \A e \in Node : e # n => outbox'[e] = outbox[e],
         ToSet(outbox'[n]) \subseteq ToSet(outbox[n]) \/ \A s : Uses(path', air', n, s) => Uses(path, air, n, s),
         \A e \in Node : e # n => \A s : Uses(path', air', e, s) => Uses(path, air, e, s)
  PROVE  Unsent'
<1>1. sn[n] \in Sn /\ sn'[n] = Later(sn[n], k) /\ \A e \in Node : e # n => sn'[e] = sn[e]
  BY DEF Types
<1>2. sn'[n] \notin Window(sn[n])
  BY <1>1, LaterIs
<1>3. ASSUME NEW e \in Node, NEW m \in ToSet(outbox'[e]), m.sn = sn'[e]  PROVE ~Uses(path', air', e, sn'[e])
  <2>1. CASE e # n
    BY <1>1, <1>3, <2>1 DEF Unsent
  <2>2. CASE e = n
    <3>1. CASE ToSet(outbox'[n]) \subseteq ToSet(outbox[n])
      <4>1. m.sn \in Window(sn[n])
        BY <1>3, <2>2, <3>1 DEF OwnRecent
      <4> QED  BY <1>2, <1>3, <2>2, <4>1
    <3>2. CASE \A s : Uses(path', air', n, s) => Uses(path, air, n, s)
      <4>1. InUse(path, air, n, sn[n])
        BY InUseNow
      <4>2. ~Uses(path, air, n, sn'[n])
        BY <1>2, <4>1, UsesRecent
      <4> QED  BY <2>2, <3>2, <4>2
    <3> QED  BY <3>1, <3>2
  <2> QED  BY <2>1, <2>2
<1> QED  BY <1>3 DEF Unsent

\* Words of n of itself, with numbers just drawn.
LEMMA CalmOwn ==
  ASSUME Types, OwnRecent', AllRecent, AllRecent', NEW n \in Node, NEW k, NEW am, NEW M, OwnWords(n, k, am, M),
         \A m \in M : m.kind # "perr",
         \A j \in Node : path'[j][n] # NoPath => path[j][n] # NoPath /\ path'[j][n].sn = path[j][n].sn,
         NoRings(path', am)
  PROVE  NoRings(path', air')
<1>1. /\ k \in Nat /\ 2 * k <= SnMod /\ sn'[n] = Later(sn[n], k) /\ sn[n] \in Sn
      /\ am \in Airs /\ M \subseteq FrameType /\ Adds(am, air', n, M)
      /\ \A m \in M : m.about = n /\ \E i \in 1 .. k : m.sn = Later(sn[n], i)
  BY DEF OwnWords, Fewer, Types
<1> DEFINE N == {m \in M : \E q \in Pairs : q[1] = n /\ m \in ToSet(air'[q])}
<1>2. Spread(am, air', n, N)
  <2>1. Spread(am, air', n, M)
    BY <1>1, SpreadSame, AddsSpread
  <2> QED  BY <2>1 DEF Spread
<1>3. ASSUME NEW m \in N, NEW j \in Node, path'[j][n] # NoPath  PROVE Newer(m.sn, path'[j][n].sn)
  <2> DEFINE w == path'[j][n].sn
  <2>1. w \in Window(sn[n])
    BY <1>3 DEF AllRecent, Held
  <2>2. w \in Window(sn'[n])
    BY <1>3 DEF AllRecent, Held
  <2>3. m.sn \in Window(sn'[n])
    BY <1>1, <1>3 DEF OwnRecent
  <2>4. PICK i \in 1 .. k : m.sn = Later(sn[n], i)
    BY <1>1, <1>3
  <2> HIDE DEF w
  <2>5. Newer(Later(sn[n], i), w)
    BY <1>1, <2>1, <2>2, <2>3, <2>4, DrawnAreNewer
  <2> QED  BY <2>4, <2>5 DEF w
<1>4. \A m \in N : m.about = n /\ m.kind # "perr" /\ \A j \in Node : path'[j][n] # NoPath => Newer(m.sn, path'[j][n].sn)
  BY <1>1, <1>3
<1> HIDE DEF N
<1> QED  BY <1>2, <1>4, OwnWordsKeep

LEMMA CalmSpeaks ==
  ASSUME Types, OwnRecent, OwnRecent', AllRecent, AllRecent', Calm, NEW n \in Node, NEW k, NEW M, Speaks(n, k, M),
         M \subseteq FrameType, \A e \in Node : e # n => outbox'[e] = outbox[e],
         air' = air \/ ToSet(outbox'[n]) \subseteq ToSet(outbox[n])
  PROVE  Calm'
<1>1. /\ k \in Nat /\ k > 0 /\ 2 * k <= SnMod /\ path' = path /\ sn' = [sn EXCEPT ![n] = Later(@, k)]
      /\ Adds(air, air', n, M) /\ \A m \in M : m.about = n /\ m.kind = "preq"
  BY DEF Speaks
<1>2. OwnWords(n, k, air, M)
  BY FewerSame DEF Speaks, OwnWords
<1>3. NoRings(path', air')
  <2>1. NoRings(path', air)
    BY <1>1 DEF Calm
  <2>2. \A m \in M : m.kind # "perr"
    BY <1>1
  <2> QED  BY <1>1, <1>2, <2>1, <2>2, CalmOwn
<1>4. Spread(air, air', n, M)
  BY <1>1, SpreadSame, AddsSpread DEF Types
<1>5. ASSUME NEW e \in Node, e # n \/ air' = air, NEW s, Uses(path', air', e, s)  PROVE Uses(path, air, e, s)
  <2>1. CASE air' = air
    BY <1>1, <1>5, <2>1
  <2>2. CASE e # n
    <3>1. Heard(path, air, path', e)
      BY <1>1, HeardSame
    <3>2. \A x \in M : x.about = e => Uses(path, air, e, x.sn)
      BY <1>1, <2>2
    <3> QED  BY <1>4, <1>5, <3>1, <3>2, UsesStep
  <2> QED  BY <1>5, <2>1, <2>2
<1>6. Unsent'
  BY <1>1, <1>5, UnsentDrawn DEF Calm
<1> QED  BY <1>3, <1>6 DEF Calm

LEMMA CalmQueued ==
  ASSUME Types, Rises, OwnRecent, AllRecent, Calm, NEW n \in Node, SendsQueued(n)
  PROVE  Calm'
<1> DEFINE m == Head(outbox[n])
           s == sn[n]
<1>1. m \in FrameType /\ Shorter(n) /\ sn' = sn /\ m.sn = s /\ path' = path /\ Adds(air, air', n, {m}) /\ s \in Sn
  BY DEF SendsQueued, Goes, Types
<1>2. outbox[n] # <<>> /\ outbox[n] \in Seq(FrameType) /\ outbox'[n] = Tail(outbox[n])
  BY <1>1 DEF Shorter, Types, Queues
<1>3. m \in ToSet(outbox[n]) /\ ToSet(Tail(outbox[n])) \subseteq ToSet(outbox[n])
  BY <1>2, SetOfTail
<1>4. m.about = n /\ m.kind = "preq"
  BY <1>3 DEF Types, Own1
<1>5. \A e \in Node : e # n => outbox'[e] = outbox[e]
  BY <1>1, DistinctSteps
<1>6. \A x \in ToSet(outbox'[n]) : x.sn # m.sn
  BY <1>2, DistinctTail DEF Rises
<1>7. ~Uses(path, air, n, s)
  BY <1>1, <1>3 DEF Calm, Unsent
<1> HIDE DEF m
<1>8. {m} \subseteq FrameType
  BY <1>1
<1>9. Spread(air, air', n, {m})
  BY <1>1, <1>8, SpreadSame, AddsSpread DEF Types
<1>10. NoRings(path', air')
  <2>1. ASSUME NEW j \in Node, path[j][n] # NoPath  PROVE Newer(m.sn, path[j][n].sn)
    <3>1. path[j][n].sn \in Window(s)
      BY <2>1 DEF AllRecent, Held
    <3>2. path[j][n].sn # s
      BY <1>7, <2>1 DEF Uses
    <3> QED  BY <1>1, <3>1, <3>2, NewestIs
  <2>2. \A x \in {m} : x.about = n /\ x.kind # "perr" /\ \A j \in Node : path[j][n] # NoPath => Newer(x.sn, path[j][n].sn)
    BY <1>4, <2>1
  <2>3. NoRings(path, air')
    BY <1>9, <2>2, OwnWordsKeep DEF Calm
  <2> QED  BY <1>1, <2>3
<1>11. ASSUME NEW e \in Node, NEW x \in ToSet(outbox'[e]), x.sn = sn'[e]  PROVE ~Uses(path', air', e, sn'[e])
  <2>1. CASE e = n
    BY <1>1, <1>6, <1>11, <2>1
  <2>2. CASE e # n
    <3>1. ~Uses(path, air, e, sn[e])
      BY <1>1, <1>5, <1>11, <2>2 DEF Calm, Unsent
    <3>2. Heard(path, air, path', e)
      BY <1>1, HeardSame
    <3>3. \A z \in {m} : z.about = e => Uses(path, air, e, z.sn)
      BY <1>4, <2>2
    <3>4. Uses(path', air', e, sn[e]) => Uses(path, air, e, sn[e])
      BY <1>9, <3>2, <3>3, UsesStep
    <3> QED  BY <1>1, <3>1, <3>4
  <2> QED  BY <2>1, <2>2
<1> QED  BY <1>10, <1>11 DEF Calm, Unsent

LEMMA CalmLearns ==
  ASSUME Types, AllRecent, Calm, NEW q \in Pairs, air[q] # <<>>, NEW m \in ToSet(air[q]), Learns(q[2], q[1], m),
         NEW B, NEW M, Spread(air, B, q[2], M),
         \A x \in M : x.about = m.about /\ x.sn = m.sn /\ x.metric = m.metric + Hop /\ x.kind # "perr"
  PROVE  NoRings(path', B)
<1> DEFINE n == q[2]
           p == q[1]
<1>1. n \in Node /\ p \in Node /\ <<p, n>> \in Pairs /\ q = <<p, n>>
  <2>1. q = <<p, n>>
    BY PairIs
  <2>2. <<p, n>> \in Pairs
    BY <2>1, Zenon
  <2> QED  BY <2>1, <2>2, PairIs
<1>2. /\ m \in FrameType /\ m \in ToSet(air[<<p, n>>]) /\ m.about # n /\ m.kind # "perr"
      /\ path' \in Tables /\ Learnt(path, path', n, p, m) /\ NewTo(path, n, m)
  BY DEF Learns
<1>3. InUse(path, air, m.about, sn[m.about])
  BY <1>2, FrameIs, InUseNow
<1>4. path \in Tables /\ air \in Airs /\ NoRings(path, air)
  BY DEF Types, Calm
<1> HIDE DEF n, p
<1>5. Spread(air, B, n, M)
  BY DEF n
<1> DEFINE y == sn[m.about]
<1>6. InUse(path, air, m.about, y)
  BY <1>3
<1> HIDE DEF y
<1>7. TakesIn(path, air, path', B, n, p, m, y, M)
  BY <1>1, <1>2, <1>4, <1>5, <1>6 DEF TakesIn
<1> QED  BY <1>7, LearnKeeps

LEMMA CalmPasses ==
  ASSUME Types, AllRecent, Calm, NEW q \in Pairs, air[q] # <<>>, outbox' = outbox,
         NEW m \in ToSet(air[q]), Passes(q[2], q[1], m)
  PROVE  Calm'
<1> DEFINE n == q[2]
           am == Rest(q[2], q[1])
           M == {Onward(m)} \cap FrameType
<1>1. Learns(q[2], q[1], m) /\ sn' = sn /\ Adds(am, air', n, M)
  BY DEF Passes
<1>2. m \in FrameType /\ m.kind # "perr" /\ Learnt(path, path', n, q[1], m)
  BY <1>1 DEF Learns
<1>3. Spread(air, am, n, {})
  BY FewerRest
<1>4. M \subseteq FrameType /\ \A x \in M : x.about = m.about /\ x.sn = m.sn /\ x.metric = m.metric + Hop /\ x.kind # "perr"
  BY <1>2, OnwardIs
<1> HIDE DEF M, am
<1>5. Spread(air, air', n, M)
  BY <1>1, <1>3, <1>4, AddsSpread
<1>6. NoRings(path', air')
  BY <1>1, <1>4, <1>5, CalmLearns
<1>7. ASSUME NEW e \in Node, NEW s, Uses(path', air', e, s)  PROVE Uses(path, air, e, s)
  <2>1. Heard(path, air, path', e)
    BY <1>2, HeardLearnt, PairIs
  <2>2. \A x \in M : x.about = e => Uses(path, air, e, x.sn)
    BY <1>4 DEF Uses
  <2> QED  BY <1>5, <1>7, <2>1, <2>2, UsesStep
<1>8. Unsent'
  BY <1>1, <1>7, UnsentSame DEF Calm
<1> QED  BY <1>6, <1>8 DEF Calm

LEMMA CalmAnswers ==
  ASSUME Types, OwnRecent, OwnRecent', AllRecent, AllRecent', Calm, NEW q \in Pairs, air[q] # <<>>,
         outbox' = outbox, NEW m \in ToSet(air[q]), Answers(q[2], q[1], m)
  PROVE  Calm'
<1> DEFINE n == q[2]
           am == Rest(q[2], q[1])
           x == Answer(n, m)
<1>1. Learns(q[2], q[1], m) /\ sn' = [sn EXCEPT ![n] = Up(@)] /\ x \in FrameType /\ Adds(am, air', n, {x})
  BY DEF Answers
<1>2. m.about # n /\ Learnt(path, path', n, q[1], m) /\ n \in Node /\ q[1] \in Node /\ Kept(path')
  BY <1>1, PairIs DEF Learns
<1>3. sn[n] \in Sn /\ Up(sn[n]) = Later(sn[n], 1)
  BY <1>2, UpIs DEF Types
<1>4. x.about = n /\ x.sn = Later(sn[n], 1) /\ x.kind = "prep"
  BY <1>3 DEF Answer, Prep, Frame
<1>5. Spread(air, am, n, {}) /\ Fewer(am)
  BY FewerRest
<1> HIDE DEF x, am
<1>6. sn' = [sn EXCEPT ![n] = Later(@, 1)]
  BY <1>1, <1>3
<1>7. 1 \in Nat /\ 1 > 0 /\ 2 * 1 <= SnMod /\ {x} \subseteq FrameType /\ {x} \in SUBSET FrameType
  BY <1>1, Constants
<1>8. OwnWords(n, 1, am, {x})
  <2>1. \A z \in {x} : z.about = n /\ \E i \in 1 .. 1 : z.sn = Later(sn[n], i)
    <3>1. 1 \in 1 .. 1
      OBVIOUS
    <3> QED  BY <1>4, <3>1
  <2> QED  BY <1>1, <1>5, <1>6, <1>7, <2>1, Zenon DEF OwnWords
<1>9. Spread(air, air', n, {x})
  BY <1>1, <1>5, <1>7, AddsSpread
<1>10. NoRings(path', air')
  <2>1. NoRings(path', am)
    <3> DEFINE M == {}
    <3>1. \A z \in M : z.about = m.about /\ z.sn = m.sn /\ z.metric = m.metric + Hop /\ z.kind # "perr"
      OBVIOUS
    <3>2. Spread(air, am, q[2], M)
      BY <1>5
    <3> HIDE DEF M
    <3> QED  BY <1>1, <3>1, <3>2, CalmLearns
  <2>2. \A z \in {x} : z.kind # "perr"
    BY <1>4
  <2>3. ASSUME NEW j \in Node, path'[j][n] # NoPath  PROVE path[j][n] # NoPath /\ path'[j][n].sn = path[j][n].sn
    <3>1. j # n
      BY <1>2, <2>3 DEF Kept
    <3> QED  BY <1>2, <2>3, <3>1 DEF Learnt
  <2> QED  BY <1>2, <1>8, <2>1, <2>2, <2>3, CalmOwn
<1>11. ASSUME NEW e \in Node, e # n, NEW s, Uses(path', air', e, s)  PROVE Uses(path, air, e, s)
  <2>1. Heard(path, air, path', e)
    BY <1>2, HeardLearnt
  <2>2. \A z \in {x} : z.about = e => Uses(path, air, e, z.sn)
    BY <1>4, <1>11
  <2> QED  BY <1>9, <1>11, <2>1, <2>2, UsesStep
<1>12. Unsent'
  <2> DEFINE k == 1
  <2>1. k \in Nat /\ k > 0 /\ 2 * k <= SnMod /\ sn' = [sn EXCEPT ![n] = Later(@, k)]
    BY <1>6, <1>7
  <2>2. \A e \in Node : e # n => outbox'[e] = outbox[e]
    OBVIOUS
  <2>3. ToSet(outbox'[n]) \subseteq ToSet(outbox[n])
    OBVIOUS
  <2>4. \A e \in Node : e # n => \A s : Uses(path', air', e, s) => Uses(path, air, e, s)
    BY <1>11
  <2>5. n \in Node
    BY <1>2
  <2>6. Unsent
    BY DEF Calm
  <2> HIDE DEF k, n
  <2> QED  BY <2>1, <2>2, <2>3, <2>4, <2>5, <2>6, UnsentDrawn
<1> QED  BY <1>10, <1>12 DEF Calm

LEMMA CalmTakes ==
  ASSUME Types, OwnRecent, OwnRecent', AllRecent, AllRecent', Calm, NEW q \in Pairs, Takes(q)
  PROVE  Calm'
<1>1. outbox' = outbox /\ air[q] # <<>>
  BY DEF Takes
<1>2. CASE Ignored(q[2], q[1])
  <2>1. path' = path /\ sn' = sn /\ air' = Rest(q[2], q[1])
    BY <1>2 DEF Ignored
  <2>2. Spread(air, air', q[2], {})
    BY <1>1, <2>1, FewerRest
  <2>3. NoRings(path', air')
    <3>1. NoRings(path, air')
      BY <2>2, PairIs, OwnWordsKeep DEF Calm
    <3> QED  BY <2>1, <3>1
  <2>4. ASSUME NEW e \in Node, NEW s, Uses(path', air', e, s)  PROVE Uses(path, air, e, s)
    <3>1. Heard(path, air, path', e)
      BY <2>1, HeardSame
    <3> QED  BY <2>2, <2>4, <3>1, UsesStep
  <2>5. Unsent'
    BY <1>1, <2>1, <2>4, UnsentSame DEF Calm
  <2> QED  BY <2>3, <2>5 DEF Calm
<1>3. CASE ReceivePerr(q[2], q[1])
  <2>1. Head(air[q]) \in ToSet(air[q]) /\ Head(air[q]).kind = "perr"
    BY <1>3, ArrivedIs DEF ReceivePerr
  <2> QED  BY <2>1 DEF Calm, NoRings, Plain
<1>4. ASSUME NEW m \in ToSet(air[q]), Passes(q[2], q[1], m)  PROVE Calm'
  BY <1>1, <1>4, CalmPasses
<1>5. ASSUME NEW m \in ToSet(air[q]), Answers(q[2], q[1], m)  PROVE Calm'
  BY <1>1, <1>5, CalmAnswers
<1> QED  BY <1>2, <1>3, <1>4, <1>5 DEF Takes

LEMMA CalmAges ==
  ASSUME Types, AllRecent, Calm, Ages
  PROVE  Calm'
<1>1. sn' = sn /\ air' = air /\ outbox' = outbox /\ path \in Tables /\ air \in Airs /\ NoRings(path, air)
  BY DEF Ages, Types, Calm
<1>2. ASSUME NoRings(path', air), \A e \in Node : Heard(path, air, path', e)  PROVE Calm'
  <2>1. ASSUME NEW e \in Node, NEW s, Uses(path', air', e, s)  PROVE Uses(path, air, e, s)
    <3>1. Spread(air, air', e, {})
      BY <1>1, SpreadSame
    <3> QED  BY <1>2, <2>1, <3>1, UsesStep
  <2>2. Unsent'
    BY <1>1, <2>1, UnsentSame DEF Calm
  <2>3. NoRings(path', air')
    BY <1>1, <1>2
  <2> QED  BY <2>2, <2>3 DEF Calm
<1>3. CASE path' = path
  <2>1. NoRings(path', air) /\ \A e \in Node : Heard(path, air, path', e)
    BY <1>1, <1>3, HeardSame
  <2> QED  BY <1>2, <2>1
<1>4. ASSUME NEW n \in Node, NEW d \in Node, Lapse(n, d)  PROVE Calm'
  <2>1. /\ path[n][d] # NoPath /\ path' = [path EXCEPT ![n][d].live = FALSE]
        /\ \A m \in Sayings(d) : Newer(m.sn, path[n][d].sn)
    BY <1>4 DEF Lapse, Held
  <2>2. path[n][d] \in PathType
    BY <1>1, <2>1, PathIs
  <2>3. /\ \A k, e \in Node : ~(k = n /\ e = d) => path'[k][e] = path[k][e]
        /\ path'[n][d] = [path[n][d] EXCEPT !.live = FALSE]
    BY <1>1, <2>1 DEF Tables
  <2>4. path'[n][d].active = path[n][d].active /\ path'[n][d].live = FALSE /\ path'[n][d].sn = path[n][d].sn
    BY <2>2, <2>3 DEF PathType
  <2>5. HeardNewer(air, d, path[n][d].sn)
    BY <2>1 DEF HeardNewer, Sayings
  <2>6. InUse(path, air, d, sn[d])
    BY InUseNow
  <2>7. NoRings(path', air)
    <3>1. Lapses(path, air, path', n, d, sn[d])
      BY <1>1, <2>1, <2>3, <2>4, <2>5, <2>6, Zenon DEF Lapses
    <3> QED  BY <3>1, LapseKeeps
  <2>8. \A e \in Node : Heard(path, air, path', e)
    BY <2>1, <2>3, <2>4 DEF Heard
  <2> QED  BY <1>2, <2>7, <2>8
<1>5. ASSUME NEW n \in Node, NEW d \in Node, Expire(n, d)  PROVE Calm'
  <2>1. ~path[n][d].live /\ path' = [path EXCEPT ![n][d] = NoPath]
    BY <1>5 DEF Expire
  <2>2. (\A k, e \in Node : ~(k = n /\ e = d) => path'[k][e] = path[k][e]) /\ path'[n][d] = NoPath
    BY <1>1, <2>1 DEF Tables
  <2>3. ~Liv(path, n, d)
    BY <2>1 DEF Liv
  <2>4. NoRings(path', air)
    BY <1>1, <2>2, <2>3, ExpireKeeps
  <2>5. \A e \in Node : Heard(path, air, path', e)
    BY <2>2 DEF Heard
  <2> QED  BY <1>2, <2>4, <2>5
<1> QED  BY <1>3, <1>4, <1>5 DEF Ages

LEMMA CalmStep ==
  ASSUME Types, Types', Rises, OwnRecent, OwnRecent', AllRecent, AllRecent', Calm, Moves, spent'["breaks"] = 0
  PROVE  Calm'
<1>1. ASSUME NEW n \in Node, SpeaksUp(n)  PROVE Calm'
  <2>1. PICK k \in Nat, M \in SUBSET FrameType : Speaks(n, k, M)
    BY <1>1 DEF SpeaksUp
  <2>2. /\ \A e \in Node : e # n => outbox'[e] = outbox[e]
        /\ ToSet(outbox'[n]) \subseteq ToSet(outbox[n])
    BY <1>1, DistinctSteps DEF SpeaksUp
  <2>3. M \subseteq FrameType
    OBVIOUS
  <2> QED  BY <2>1, <2>2, <2>3, CalmSpeaks
<1>2. ASSUME NEW n \in Node, NEW x, Defers(n, x)  PROVE Calm'
  <2>1. Speaks(n, 1, {}) /\ air' = air /\ {} \subseteq FrameType
    BY <1>2 DEF Defers
  <2>2. \A e \in Node : e # n => outbox'[e] = outbox[e]
    BY <1>2 DEF Defers, Types, Queues
  <2> QED  BY <2>1, <2>2, CalmSpeaks
<1>3. ASSUME NEW n \in Node, SendsQueued(n)  PROVE Calm'
  BY <1>3, CalmQueued
<1>4. ASSUME NEW q \in Pairs, Takes(q)  PROVE Calm'
  BY <1>4, CalmTakes
<1>5. ASSUME NEW q \in Pairs, Quits(q)  PROVE Calm'
  BY <1>5 DEF Quits
<1>6. ASSUME Ages  PROVE Calm'
  BY <1>6, CalmAges
<1> QED  BY <1>1, <1>2, <1>3, <1>4, <1>5, <1>6 DEF Moves

LEMMA CalmFirst == Init => Calm
<1> SUFFICES ASSUME Init  PROVE Calm
  OBVIOUS
<1>1. \A n, d \in Node : path[n][d] = NoPath
  BY DEF Init
<1>2. \A q \in Pairs : ToSet(air[q]) = {}
  BY DEF Init, ToSet
<1>3. \A e \in Node : ToSet(outbox[e]) = {}
  BY DEF Init, ToSet
<1> QED  BY <1>1, <1>2, <1>3 DEF Calm, NoRings, Plain, Vouched, Downhill, Liv, Unsent

LEMMA CalmIs == Types /\ AllRecent /\ Calm => NoLoop
<1> SUFFICES ASSUME Types, AllRecent, Calm, NEW d \in Node, NEW S \in SUBSET (Node \ {d}), Cycle(d, S)
             PROVE  FALSE
  BY DEF NoLoop, Loop
<1>1. S # {} /\ \A n \in S : Liv(path, n, d) /\ path[n][d].nh \in S
  BY DEF Cycle, Live, Held, Liv
<1>2. InUse(path, air, d, sn[d]) /\ sn[d] \in Sn /\ path \in Tables /\ NoRings(path, air)
  BY InUseNow DEF Types, Calm
<1>3. ASSUME NEW n \in S
      PROVE  path[n][d].sn \in Window(sn[d]) /\ Better(path[path[n][d].nh][d], path[n][d])
  <2> DEFINE h == path[n][d].nh
  <2>1. n \in Node /\ h \in Node /\ h # d /\ Liv(path, n, d) /\ Liv(path, h, d)
    BY <1>1
  <2>2. Better(path[h][d], path[n][d])
    BY <1>2, <2>1 DEF NoRings, Downhill
  <2>3. path[n][d].sn \in Window(sn[d])
    BY <1>2, <2>1 DEF InUse, Liv
  <2> QED  BY <2>2, <2>3
<1>4. Descends(path, d, sn[d], S)
  BY <1>1, <1>2, <1>3 DEF Descends
<1> DEFINE y == sn[d]
<1>5. Descends(path, d, y, S)
  BY <1>4
<1> HIDE DEF y
<1> QED  BY <1>2, <1>5, NoneRound

LEMMA TypesAre == Types => TypeOK
<1> SUFFICES ASSUME Types  PROVE TypeOK
  OBVIOUS
<1>1. path \in [Node -> [Node -> PathType \cup {NoPath}]]
  BY DEF Types, Tables
<1>2. \A n \in Node : n \notin Held(n) /\ Cardinality(Held(n)) <= PathMax
  BY DEF Types, Kept, HeldIn, Held
<1>3. \A n \in Node : Len(outbox[n]) <= Outbox /\ ToSet(outbox[n]) \subseteq FrameType
  <2> SUFFICES ASSUME NEW n \in Node  PROVE ToSet(outbox[n]) \subseteq FrameType
    BY DEF Types, Own1
  <2>1. outbox[n] \in Seq(FrameType)
    BY DEF Types, Queues
  <2> QED  BY <2>1 DEF ToSet
<1>4. \A p \in Pairs : ToSet(air[p]) \subseteq FrameType
  <2> SUFFICES ASSUME NEW p \in Pairs  PROVE ToSet(air[p]) \subseteq FrameType
    OBVIOUS
  <2>1. air[p] \in Seq(FrameType)
    BY DEF Types, Airs
  <2> QED  BY <2>1 DEF ToSet
<1>5. sn \in [Node -> Sn] /\ \A n \in Node : peers[n] \subseteq Near[n]
  BY DEF Types
<1> QED  BY <1>1, <1>2, <1>3, <1>4, <1>5 DEF TypeOK

(***************************************************************************)
(* While neighbours come and go.                                           *)
(***************************************************************************)
\* The next number to be drawn is newer than all that is recent.
LEMMA UpIsNewer ==
  ASSUME NEW y \in Sn, NEW w \in Window(y)
  PROVE  Newer(Up(y), w)
<1> DEFINE u == Up(y)
           b == Behind(y, w)
<1>1. w \in Sn /\ u \in Sn /\ u = Later(y, 1)
  BY UpIs DEF Window
<1>2. b = (IF y < w THEN y - w + SnMod ELSE y - w) /\ b < Half /\ b \in Nat
  BY <1>1, BehindIs
<1>3. u = IF y + 1 < SnMod THEN y + 1 ELSE (y + 1) - SnMod
  <2> DEFINE x == y + 1
  <2>1. x \in Int /\ -SnMod <= x /\ x < SnMod + SnMod /\ ~(x < 0)
    BY HalfIs DEF Sn
  <2>2. u = x % SnMod
    BY DEF Up
  <2> HIDE DEF x, u
  <2>3. u = IF x < SnMod THEN x ELSE x - SnMod
    BY <2>1, <2>2, Remainder
  <2> QED  BY <2>3 DEF x, u
<1>4. Behind(w, u) = IF w < u THEN w - u + SnMod ELSE w - u
  BY <1>1, BehindIs
<1>5. Newer(u, w) <=> Behind(w, u) >= Half /\ u # w
  BY DEF Newer, Behind, Half
<1> DEFINE c == Behind(w, u)
<1>6. c = (IF w < u THEN w - u + SnMod ELSE w - u)
  BY <1>4
<1> HIDE DEF u, b, c
<1>7. c >= Half /\ u # w
  BY <1>1, <1>2, <1>3, <1>6, HalfIs DEF Sn
<1> QED  BY <1>5, <1>7 DEF u, c

\* What is newer than b is newer than what b is as new as.
LEMMA CutsOn ==
  ASSUME NEW y \in Sn, NEW a \in Window(y), NEW b \in Window(y), NEW c \in Window(y) \cup {Up(y)},
         a = b \/ Newer(b, a), Newer(c, b)
  PROVE  Newer(c, a)
<1>1. CASE c \in Window(y)
  BY <1>1, NewerOrders
<1>2. CASE c = Up(y)
  BY <1>2, UpIsNewer
<1> QED  BY <1>1, <1>2

IsWord(m, d) == m.about = d /\ m.kind # "perr"
\* m announces d lost to who knows number s of it.
Cuts(m, d, s) == m.about = d /\ m.kind = "perr" /\ (m.sn = 0 \/ Newer(m.sn, s))
\* h has a path to d as good as word m.
Stands(P, h, d, m) == Liv(P, h, d) /\ Vouches(P[h][d], m.sn, m.metric)
Fresher(A, d, s) == \A q \in Pairs : \A m \in ToSet(A[q]) : IsWord(m, d) => Newer(m.sn, s)
Warned(t, i, d, s) == \E j \in 1 .. Len(t) : j > i /\ Cuts(t[j], d, s)

\* Who passes a word on has it in its table, or a better one, or the news that it is lost follows.
Backed(P, A, d) ==
  \A q \in Pairs : \A i \in 1 .. Len(A[q]) :
    IsWord(A[q][i], d) /\ q[1] # d =>
      q[1] \in Relays /\ (Stands(P, q[1], d, A[q][i]) \/ Warned(A[q], i, d, A[q][i].sn))
\* The next hop h of n's path to d knows better, or the news that it does not is on its way to n, or
\* (l: a path has lapsed) it has none and will only hear newer words.
Leans(P, A, l, n, h, d) ==
  /\ h \in Relays
  /\ \/ Liv(P, h, d) /\ Better(P[h][d], P[n][d])
     \/ Warned(A[<<h, n>>], 0, d, P[n][d].sn)
     \/ l /\ ~Liv(P, h, d) /\ Fresher(A, d, P[n][d].sn)
Footed(P, A, l, d) ==
  \A n \in Node : Liv(P, n, d) => /\ <<P[n][d].nh, n>> \in Pairs
                                  /\ P[n][d].nh = d \/ Leans(P, A, l, n, P[n][d].nh, d)
Sure(P, A, l, d) == Backed(P, A, d) /\ Footed(P, A, l, d)

\* The numbers in use of d lie behind y; the next one may be announced.
Sharp(P, A, d, y) ==
  /\ y \in Sn
  /\ \A n \in Node : Liv(P, n, d) => P[n][d].sn \in Window(y)
  /\ \A q \in Pairs : \A m \in ToSet(A[q]) :
       m.about = d => m.sn \in Window(y) \/ (m.kind = "perr" /\ m.sn = Up(y))

\* B is A with frames of N from n added at the end.
Grown(A, B, n, N) ==
  /\ B \in Airs
  /\ \A q \in Pairs : /\ Len(A[q]) <= Len(B[q]) /\ \A i \in 1 .. Len(A[q]) : B[q][i] = A[q][i]
                      /\ \A i \in 1 .. Len(B[q]) : i > Len(A[q]) => q[1] = n /\ B[q][i] \in N

LEMMA AirIs ==
  ASSUME NEW A \in Airs, NEW q \in Pairs
  PROVE  /\ A[q] \in Seq(FrameType) /\ Len(A[q]) \in Nat
         /\ \A i \in 1 .. Len(A[q]) : A[q][i] \in FrameType /\ A[q][i] \in ToSet(A[q])
         /\ \A x : x \in ToSet(A[q]) <=> \E i \in 1 .. Len(A[q]) : x = A[q][i]
<1>1. A[q] \in Seq(FrameType)
  BY DEF Airs
<1> QED  BY <1>1, SetOfSeq

\* More frames take no warning away.
LEMMA WarnedGrown ==
  ASSUME NEW A \in Airs, NEW B, NEW n, NEW N, Grown(A, B, n, N), NEW q \in Pairs, NEW i, NEW d, NEW s,
         Warned(A[q], i, d, s)
  PROVE  Warned(B[q], i, d, s)
<1>1. Len(A[q]) \in Nat /\ Len(B[q]) \in Nat
  BY AirIs DEF Grown
<1> QED  BY <1>1 DEF Warned, Grown

\* The words of d among N are n's own, or n has its path as good as they are; their numbers are on
\* their way already, or newer than any in the tables.
Sound(P, A, n, N, d) ==
  \A x \in N : IsWord(x, d) =>
    /\ n = d \/ (n \in Relays /\ Stands(P, n, d, x))
    /\ \/ \E q \in Pairs : \E m \in ToSet(A[q]) : IsWord(m, d) /\ m.sn = x.sn
       \/ \A k \in Node : Liv(P, k, d) => Newer(x.sn, P[k][d].sn)

LEMMA GrowKeeps ==
  ASSUME NEW P \in Tables, NEW A \in Airs, NEW B, NEW n \in Node, NEW N, NEW l, NEW d \in Node,
         Grown(A, B, n, N), Sure(P, A, l, d), Sound(P, A, n, N, d)
  PROVE  Sure(P, B, l, d)
<1>1. B \in Airs
  BY DEF Grown
<1>2. Backed(P, B, d)
  <2> SUFFICES ASSUME NEW q \in Pairs, NEW i \in 1 .. Len(B[q]), IsWord(B[q][i], d), q[1] # d
               PROVE  q[1] \in Relays /\ (Stands(P, q[1], d, B[q][i]) \/ Warned(B[q], i, d, B[q][i].sn))
    BY DEF Backed
  <2>1. Len(A[q]) \in Nat /\ Len(B[q]) \in Nat
    BY <1>1, AirIs
  <2>2. CASE i \in 1 .. Len(A[q])
    <3>1. B[q][i] = A[q][i]
      BY <2>2 DEF Grown
    <3>2. q[1] \in Relays /\ (Stands(P, q[1], d, A[q][i]) \/ Warned(A[q], i, d, A[q][i].sn))
      BY <2>2, <3>1 DEF Sure, Backed
    <3> QED  BY <3>1, <3>2, WarnedGrown
  <2>3. CASE i > Len(A[q])
    <3>1. q[1] = n /\ B[q][i] \in N
      BY <2>3 DEF Grown
    <3> QED  BY <3>1 DEF Sound
  <2> QED  BY <2>1, <2>2, <2>3
<1>3. ASSUME NEW k \in Node, Liv(P, k, d), Fresher(A, d, P[k][d].sn)  PROVE Fresher(B, d, P[k][d].sn)
  <2> SUFFICES ASSUME NEW q \in Pairs, NEW x \in ToSet(B[q]), IsWord(x, d)  PROVE Newer(x.sn, P[k][d].sn)
    BY DEF Fresher
  <2>1. Len(A[q]) \in Nat /\ Len(B[q]) \in Nat
    BY <1>1, AirIs
  <2>2. PICK i \in 1 .. Len(B[q]) : x = B[q][i]
    <3>1. \A z : z \in ToSet(B[q]) <=> \E i \in 1 .. Len(B[q]) : z = B[q][i]
      BY <1>1, AirIs
    <3> QED  BY <3>1
  <2>3. CASE i \in 1 .. Len(A[q])
    <3>1. x \in ToSet(A[q])
      BY <2>2, <2>3, AirIs DEF Grown
    <3> QED  BY <1>3, <3>1 DEF Fresher
  <2>4. CASE i > Len(A[q])
    <3>1. x \in N
      BY <2>2, <2>4 DEF Grown
    <3> QED  BY <1>3, <3>1 DEF Fresher, Sound
  <2> QED  BY <2>1, <2>3, <2>4
<1>4. ASSUME NEW k \in Node, Liv(P, k, d)
      PROVE  <<P[k][d].nh, k>> \in Pairs /\ (P[k][d].nh = d \/ Leans(P, B, l, k, P[k][d].nh, d))
  <2>1. <<P[k][d].nh, k>> \in Pairs /\ (P[k][d].nh = d \/ Leans(P, A, l, k, P[k][d].nh, d))
    BY <1>4 DEF Sure, Footed
  <2>2. Leans(P, A, l, k, P[k][d].nh, d) => Leans(P, B, l, k, P[k][d].nh, d)
    BY <1>3, <1>4, <2>1, WarnedGrown DEF Leans
  <2> QED  BY <2>1, <2>2
<1> QED  BY <1>2, <1>4 DEF Sure, Footed

\* The first frame of a pair goes that is no warning its receiver still needs.
LEMMA ConsumeKeeps ==
  ASSUME NEW P \in Tables, NEW A \in Airs, NEW B \in Airs, NEW l, NEW d \in Node, NEW q0 \in Pairs,
         A[q0] # <<>>, \A q \in Pairs : B[q] = IF q = q0 THEN Tail(A[q0]) ELSE A[q], Sure(P, A, l, d),
         ~(Liv(P, q0[2], d) /\ P[q0[2]][d].nh = q0[1] /\ Cuts(Head(A[q0]), d, P[q0[2]][d].sn))
  PROVE  Sure(P, B, l, d)
<1> DEFINE u == A[q0]
           t == Tail(u)
<1>1. /\ u \in Seq(FrameType) /\ Len(u) \in Nat /\ Len(t) = Len(u) - 1 /\ Len(u) > 0 /\ Head(u) = u[1]
      /\ \A i \in 1 .. Len(t) : t[i] = u[i + 1]
  <2>1. u \in Seq(FrameType) /\ u # <<>>
    BY DEF Airs
  <2> HIDE DEF u
  <2> QED  BY <2>1
<1> HIDE DEF u, t
\* What was warned of is, but for the frame that goes.
<1>2. ASSUME NEW i \in Nat, NEW s, Warned(u, i + 1, d, s)  PROVE Warned(t, i, d, s)
  <2>1. PICK j \in 1 .. Len(u) : j > i + 1 /\ Cuts(u[j], d, s)
    BY <1>2 DEF Warned
  <2>2. j - 1 \in 1 .. Len(t) /\ j - 1 > i /\ t[j - 1] = u[j]
    BY <1>1, <2>1
  <2> QED  BY <2>1, <2>2 DEF Warned
<1>3. Backed(P, B, d)
  <2> SUFFICES ASSUME NEW q \in Pairs, NEW i \in 1 .. Len(B[q]), IsWord(B[q][i], d), q[1] # d
               PROVE  q[1] \in Relays /\ (Stands(P, q[1], d, B[q][i]) \/ Warned(B[q], i, d, B[q][i].sn))
    BY DEF Backed
  <2>1. CASE q # q0
    BY <2>1 DEF Sure, Backed
  <2>2. CASE q = q0
    <3>0. B[q] = t /\ A[q] = u
      BY <2>2 DEF u, t
    <3>1. i \in 1 .. Len(t) /\ B[q] = t /\ i + 1 \in 1 .. Len(u) /\ B[q][i] = A[q][i + 1] /\ i \in Nat
      BY <1>1, <3>0
    <3>2. q[1] \in Relays /\ (Stands(P, q[1], d, A[q][i + 1]) \/ Warned(A[q], i + 1, d, A[q][i + 1].sn))
      BY <2>2, <3>1 DEF Sure, Backed, u
    <3> QED  BY <1>2, <2>2, <3>1, <3>2 DEF u
  <2> QED  BY <2>1, <2>2
<1>4. \A q \in Pairs : ToSet(B[q]) \subseteq ToSet(A[q])
  <2>1. u # <<>>
    BY DEF u
  <2>2. ToSet(t) \subseteq ToSet(u)
    BY <1>1, <2>1, SetOfTail DEF t
  <2> QED  BY <2>2 DEF t, u
<1>5. ASSUME NEW k \in Node, Liv(P, k, d)
      PROVE  <<P[k][d].nh, k>> \in Pairs /\ (P[k][d].nh = d \/ Leans(P, B, l, k, P[k][d].nh, d))
  <2> DEFINE h == P[k][d].nh
             s == P[k][d].sn
  <2>1. <<h, k>> \in Pairs /\ (h = d \/ Leans(P, A, l, k, h, d))
    BY <1>5 DEF Sure, Footed
  <2>2. Fresher(A, d, s) => Fresher(B, d, s)
    BY <1>4 DEF Fresher
  <2>3. Warned(A[<<h, k>>], 0, d, s) => Warned(B[<<h, k>>], 0, d, s)
    <3>1. CASE <<h, k>> # q0
      BY <2>1, <3>1
    <3>2. CASE <<h, k>> = q0
      <4>1. q0[1] = h /\ q0[2] = k /\ B[<<h, k>>] = t /\ A[<<h, k>>] = u
        BY <2>1, <3>2 DEF t, u
      <4>2. ~Cuts(u[1], d, s)
        BY <1>1, <1>5, <4>1 DEF u
      <4>3. ASSUME Warned(u, 0, d, s)  PROVE Warned(u, 0 + 1, d, s)
        <5>1. PICK j \in 1 .. Len(u) : Cuts(u[j], d, s)
          BY <4>3 DEF Warned
        <5>2. j > 0 + 1
          BY <1>1, <4>2, <5>1
        <5> QED  BY <5>1, <5>2 DEF Warned
      <4>4. 0 \in Nat
        OBVIOUS
      <4> QED  BY <1>2, <4>1, <4>3, <4>4
    <3> QED  BY <3>1, <3>2
  <2> HIDE DEF h, s
  <2>4. Leans(P, A, l, k, h, d) => Leans(P, B, l, k, h, d)
    BY <2>2, <2>3 DEF Leans, s
  <2> QED  BY <2>1, <2>4 DEF h
<1> QED  BY <1>3, <1>5 DEF Sure, Footed

\* The live paths are the same.
Alike(P, P1, d) ==
  \A k \in Node : (Liv(P1, k, d) <=> Liv(P, k, d)) /\ (Liv(P, k, d) => P1[k][d] = P[k][d])

LEMMA AlikeKeeps ==
  ASSUME NEW P \in Tables, NEW A \in Airs, NEW P1, NEW l, NEW d \in Node, Alike(P, P1, d), Sure(P, A, l, d)
  PROVE  Sure(P1, A, l, d)
<1>1. Backed(P1, A, d)
  <2> SUFFICES ASSUME NEW q \in Pairs, NEW i \in 1 .. Len(A[q]), IsWord(A[q][i], d), q[1] # d
               PROVE  q[1] \in Relays /\ (Stands(P1, q[1], d, A[q][i]) \/ Warned(A[q], i, d, A[q][i].sn))
    BY DEF Backed
  <2>1. q[1] \in Node
    BY PairIs
  <2>2. Stands(P, q[1], d, A[q][i]) => Stands(P1, q[1], d, A[q][i])
    BY <2>1 DEF Stands, Alike
  <2> QED  BY <2>2 DEF Sure, Backed
<1>2. ASSUME NEW k \in Node, Liv(P1, k, d)
      PROVE  <<P1[k][d].nh, k>> \in Pairs /\ (P1[k][d].nh = d \/ Leans(P1, A, l, k, P1[k][d].nh, d))
  <2>1. Liv(P, k, d) /\ P1[k][d] = P[k][d]
    BY <1>2 DEF Alike
  <2> DEFINE h == P[k][d].nh
  <2>2. h \in Node
    BY <2>1, PathIs DEF Liv
  <2>3. (Liv(P1, h, d) <=> Liv(P, h, d)) /\ (Liv(P, h, d) => P1[h][d] = P[h][d])
    BY <2>2 DEF Alike
  <2>4. <<h, k>> \in Pairs /\ (h = d \/ Leans(P, A, l, k, h, d))
    BY <2>1 DEF Sure, Footed
  <2> HIDE DEF h
  <2>5. Leans(P, A, l, k, h, d) => Leans(P1, A, l, k, h, d)
    BY <2>1, <2>3 DEF Leans
  <2> QED  BY <2>1, <2>4, <2>5 DEF h
<1> QED  BY <1>1, <1>2 DEF Sure, Footed

\* n alone changes, and only its path to d.
Only(P, P1, n, d) == \A k \in Node : k # n => P1[k][d] = P[k][d]

LEMMA OnlyIs ==
  ASSUME NEW P, NEW P1, NEW n, NEW d, Only(P, P1, n, d), NEW k \in Node, k # n
  PROVE  P1[k][d] = P[k][d] /\ (Liv(P1, k, d) <=> Liv(P, k, d))
BY DEF Only, Liv

\* n's path to d goes down, and whoever has word of it from n hears of that last: a warning stands
\* in every queue from n, and no word of d after it.
Told(P, A, n, d) ==
  \A q \in Pairs : q[1] = n =>
    \E j \in 1 .. Len(A[q]) : Cuts(A[q][j], d, P[n][d].sn) /\ \A i \in 1 .. Len(A[q]) : i > j => ~IsWord(A[q][i], d)
\* Nobody has.
Unheard(P, A, n, d) ==
  /\ \A q \in Pairs : q[1] = n => \A m \in ToSet(A[q]) : ~IsWord(m, d)
  /\ \A k \in Node : Liv(P, k, d) => P[k][d].nh # n

LEMMA KillKeeps ==
  ASSUME NEW P \in Tables, NEW A \in Airs, NEW P1 \in Tables, NEW l, NEW n \in Node, NEW d \in Node, NEW y,
         Only(P, P1, n, d), Liv(P, n, d), ~Liv(P1, n, d), Sharp(P, A, d, y), Sure(P, A, l, d), n # d,
         Told(P, A, n, d) \/ Unheard(P, A, n, d)
  PROVE  Sure(P1, A, l, d)
<1> DEFINE b == P[n][d].sn
<1>1. b \in Window(y) /\ y \in Sn
  BY DEF Sharp
\* A warning for n's number is one for every number n was as good as.
<1>2. ASSUME NEW q \in Pairs, q[1] = n, Told(P, A, n, d), NEW s \in Window(y), s = b \/ Newer(b, s)
      PROVE  \E j \in 1 .. Len(A[q]) : Cuts(A[q][j], d, s) /\ \A i \in 1 .. Len(A[q]) : i > j => ~IsWord(A[q][i], d)
  <2>1. PICK j \in 1 .. Len(A[q]) : Cuts(A[q][j], d, b) /\ \A i \in 1 .. Len(A[q]) : i > j => ~IsWord(A[q][i], d)
    BY <1>2 DEF Told
  <2>2. A[q][j].about = d /\ A[q][j].kind = "perr" /\ (A[q][j].sn = 0 \/ Newer(A[q][j].sn, b))
    BY <2>1 DEF Cuts
  <2>3. A[q][j].sn \in Window(y) \cup {Up(y)}
    <3>1. A[q][j] \in ToSet(A[q])
      BY AirIs
    <3> QED  BY <2>2, <3>1 DEF Sharp
  <2>4. Newer(A[q][j].sn, b) => Newer(A[q][j].sn, s)
    BY <1>1, <1>2, <2>3, CutsOn
  <2> QED  BY <2>1, <2>2, <2>4 DEF Cuts
<1> HIDE DEF b
<1>3. Backed(P1, A, d)
  <2> SUFFICES ASSUME NEW q \in Pairs, NEW i \in 1 .. Len(A[q]), IsWord(A[q][i], d), q[1] # d
               PROVE  q[1] \in Relays /\ (Stands(P1, q[1], d, A[q][i]) \/ Warned(A[q], i, d, A[q][i].sn))
    BY DEF Backed
  <2>1. q[1] \in Relays /\ (Stands(P, q[1], d, A[q][i]) \/ Warned(A[q], i, d, A[q][i].sn))
    BY DEF Sure, Backed
  <2>2. CASE q[1] # n
    <3>1. P1[q[1]][d] = P[q[1]][d] /\ (Liv(P1, q[1], d) <=> Liv(P, q[1], d))
      BY <2>2, OnlyIs, PairIs
    <3> QED  BY <2>1, <3>1 DEF Stands
  <2>3. CASE q[1] = n /\ ~Warned(A[q], i, d, A[q][i].sn)
    <3>1. Told(P, A, n, d)
      <4>1. A[q][i] \in ToSet(A[q])
        BY AirIs
      <4> QED  BY <2>3, <4>1 DEF Unheard
    <3> DEFINE s == A[q][i].sn
    <3>2. s \in Window(y) /\ (s = b \/ Newer(b, s))
      <4>1. A[q][i] \in ToSet(A[q])
        BY AirIs
      <4>2. Vouches(P[n][d], s, A[q][i].metric)
        BY <2>1, <2>3 DEF Stands
      <4> QED  BY <4>1, <4>2 DEF Sharp, IsWord, Vouches, b
    <3> HIDE DEF s
    <3>3. PICK j \in 1 .. Len(A[q]) : Cuts(A[q][j], d, s) /\ \A x \in 1 .. Len(A[q]) : x > j => ~IsWord(A[q][x], d)
      BY <1>2, <2>3, <3>1, <3>2
    <3>4. j > i
      <4>1. j # i
        BY <3>3 DEF Cuts, IsWord
      <4>2. ~(i > j)
        BY <3>3
      <4>3. i \in Int /\ j \in Int
        OBVIOUS
      <4> QED  BY <4>1, <4>2, <4>3
    <3> QED  BY <2>3, <3>3, <3>4 DEF Warned, s
  <2> QED  BY <2>1, <2>2, <2>3
<1>4. ASSUME NEW k \in Node, Liv(P1, k, d)
      PROVE  <<P1[k][d].nh, k>> \in Pairs /\ (P1[k][d].nh = d \/ Leans(P1, A, l, k, P1[k][d].nh, d))
  <2>1. k # n
    BY <1>4
  <2>2. P1[k][d] = P[k][d] /\ Liv(P, k, d)
    BY <1>4, <2>1, OnlyIs
  <2> DEFINE h == P[k][d].nh
             s == P[k][d].sn
  <2>3. h \in Node /\ s \in Window(y)
    BY <2>2, PathIs DEF Liv, Sharp
  <2>4. <<h, k>> \in Pairs /\ (h = d \/ Leans(P, A, l, k, h, d))
    BY <2>2 DEF Sure, Footed
  <2>5. ASSUME Leans(P, A, l, k, h, d)  PROVE Leans(P1, A, l, k, h, d)
    <3>1. CASE h # n
      <4>1. P1[h][d] = P[h][d] /\ (Liv(P1, h, d) <=> Liv(P, h, d))
        BY <2>3, <3>1, OnlyIs
      <4> HIDE DEF h
      <4> QED  BY <2>2, <2>5, <4>1 DEF Leans
    <3>2. CASE h = n
      <4>1. Told(P, A, n, d)
        BY <2>2, <3>2 DEF Unheard
      <4>2. h \in Relays /\ (Better(P[n][d], P[k][d]) \/ Warned(A[<<h, k>>], 0, d, s))
        BY <2>5, <3>2 DEF Leans
      <4>3. ASSUME Better(P[n][d], P[k][d])  PROVE Warned(A[<<h, k>>], 0, d, s)
        <5>1. s = b \/ Newer(b, s)
          BY <4>3 DEF Better, b
        <5>2. <<h, k>>[1] = n
          BY <3>2
        <5> HIDE DEF h, s
        <5>3. PICK j \in 1 .. Len(A[<<h, k>>]) : Cuts(A[<<h, k>>][j], d, s)
          BY <1>2, <2>3, <2>4, <4>1, <5>1, <5>2
        <5>4. j > 0
          OBVIOUS
        <5> QED  BY <5>3, <5>4 DEF Warned
      <4>4. h \in Relays /\ Warned(A[<<h, k>>], 0, d, P1[k][d].sn)
        BY <2>2, <4>2, <4>3
      <4> HIDE DEF h
      <4> QED  BY <4>4 DEF Leans
    <3> QED  BY <3>1, <3>2
  <2> HIDE DEF h
  <2> QED  BY <2>2, <2>4, <2>5 DEF h
<1> QED  BY <1>3, <1>4 DEF Sure, Footed

\* n's path to d lapses.
LEMMA LapseSure ==
  ASSUME NEW P \in Tables, NEW A \in Airs, NEW P1 \in Tables, NEW l, NEW n \in Node, NEW d \in Node, NEW y,
         Only(P, P1, n, d), Liv(P, n, d), ~Liv(P1, n, d), Sharp(P, A, d, y), Sure(P, A, l, d), n # d,
         Fresher(A, d, P[n][d].sn)
  PROVE  Sure(P1, A, TRUE, d)
<1> DEFINE b == P[n][d].sn
<1>1. b \in Window(y) /\ y \in Sn /\ Fresher(A, d, b)
  BY DEF Sharp
<1> HIDE DEF b
<1>2. \A q \in Pairs : \A m \in ToSet(A[q]) : IsWord(m, d) => Newer(m.sn, b) /\ m.sn \in Window(y)
  BY <1>1 DEF Fresher, Sharp, IsWord
<1>3. Backed(P1, A, d)
  <2> SUFFICES ASSUME NEW q \in Pairs, NEW i \in 1 .. Len(A[q]), IsWord(A[q][i], d), q[1] # d
               PROVE  q[1] \in Relays /\ (Stands(P1, q[1], d, A[q][i]) \/ Warned(A[q], i, d, A[q][i].sn))
    BY DEF Backed
  <2>1. q[1] \in Relays /\ (Stands(P, q[1], d, A[q][i]) \/ Warned(A[q], i, d, A[q][i].sn))
    BY DEF Sure, Backed
  <2>2. CASE q[1] # n
    <3>1. P1[q[1]][d] = P[q[1]][d] /\ (Liv(P1, q[1], d) <=> Liv(P, q[1], d))
      BY <2>2, OnlyIs, PairIs
    <3> QED  BY <2>1, <3>1 DEF Stands
  <2>3. CASE q[1] = n
    <3> DEFINE s == A[q][i].sn
    <3>1. Newer(s, b) /\ s \in Window(y)
      <4>1. A[q][i] \in ToSet(A[q])
        BY AirIs
      <4> QED  BY <1>2, <4>1
    <3>2. ~(Newer(b, s) \/ b = s)
      <4> HIDE DEF s
      <4> QED  BY <1>1, <3>1, NewerOrders
    <3>3. ~Stands(P, n, d, A[q][i])
      BY <3>2 DEF Stands, Vouches, b
    <3> QED  BY <2>1, <2>3, <3>3
  <2> QED  BY <2>2, <2>3
<1>4. ASSUME NEW k \in Node, Liv(P1, k, d)
      PROVE  <<P1[k][d].nh, k>> \in Pairs /\ (P1[k][d].nh = d \/ Leans(P1, A, TRUE, k, P1[k][d].nh, d))
  <2>1. k # n
    BY <1>4
  <2>2. P1[k][d] = P[k][d] /\ Liv(P, k, d)
    BY <1>4, <2>1, OnlyIs
  <2> DEFINE h == P[k][d].nh
             s == P[k][d].sn
  <2>3. h \in Node /\ s \in Window(y)
    BY <2>2, PathIs DEF Liv, Sharp
  <2>4. <<h, k>> \in Pairs /\ (h = d \/ Leans(P, A, l, k, h, d))
    BY <2>2 DEF Sure, Footed
  <2>5. ASSUME Leans(P, A, l, k, h, d)  PROVE Leans(P1, A, TRUE, k, h, d)
    <3>1. CASE h # n
      <4>1. P1[h][d] = P[h][d] /\ (Liv(P1, h, d) <=> Liv(P, h, d))
        BY <2>3, <3>1, OnlyIs
      <4> HIDE DEF h
      <4> QED  BY <2>2, <2>5, <4>1 DEF Leans
    <3>2. CASE h = n
      <4>1. h \in Relays /\ (Better(P[n][d], P[k][d]) \/ Warned(A[<<h, k>>], 0, d, s))
        BY <2>5, <3>2 DEF Leans
      <4>2. ASSUME Better(P[n][d], P[k][d])  PROVE Fresher(A, d, s)
        <5>1. s = b \/ Newer(b, s)
          BY <4>2 DEF Better, b
        <5> HIDE DEF s
        <5>2. ASSUME NEW q \in Pairs, NEW m \in ToSet(A[q]), IsWord(m, d)  PROVE Newer(m.sn, s)
          <6>1. Newer(m.sn, b) /\ m.sn \in Window(y)
            BY <1>2, <5>2
          <6> QED  BY <1>1, <2>3, <5>1, <6>1, NewerOrders
        <5> QED  BY <5>2 DEF Fresher
      <4>3. /\ h \in Relays /\ ~Liv(P1, h, d)
            /\ Warned(A[<<h, k>>], 0, d, P1[k][d].sn) \/ Fresher(A, d, P1[k][d].sn)
        BY <2>2, <3>2, <4>1, <4>2
      <4> HIDE DEF h
      <4> QED  BY <4>3 DEF Leans
    <3> QED  BY <3>1, <3>2
  <2> HIDE DEF h
  <2> QED  BY <2>2, <2>4, <2>5 DEF h
<1> QED  BY <1>3, <1>4 DEF Sure, Footed

\* n takes the first word of p on its way to it, and does not remove it yet.
LEMMA LearnSure ==
  ASSUME NEW P \in Tables, NEW A \in Airs, NEW P1 \in Tables, NEW l, NEW q0 \in Pairs, NEW m \in FrameType, NEW y,
         A[q0] # <<>>, m = Head(A[q0]), m.kind # "perr", m.about # q0[2], Learnt(P, P1, q0[2], q0[1], m),
         NewTo(P, q0[2], m), Sharp(P, A, m.about, y), Sure(P, A, l, m.about)
  PROVE  Sure(P1, A, l, m.about) /\ Liv(P1, q0[2], m.about)
<1> DEFINE n == q0[2]
           p == q0[1]
           d == m.about
           f == P1[n][d]
<1>1. /\ d \in Node /\ m.sn \in Sn /\ m.metric \in Nat /\ Hop \in Nat /\ Hop > 0
      /\ n \in Node /\ p \in Node /\ p # n /\ q0 = <<p, n>>
  BY FrameIs, Constants, PairIs
<1>2. f.nh = p /\ f.sn = m.sn /\ f.metric = m.metric + Hop /\ f.active /\ f.live
  BY DEF Learnt, Path
<1>3. f # NoPath
  <2>1. f \in PathType
    BY <1>1 DEF Learnt, Path, PathType
  <2> QED  BY <2>1, Constants
<1>4. Liv(P1, n, d) /\ IsWord(m, d)
  BY <1>2, <1>3 DEF Liv, IsWord
<1>5. Only(P, P1, n, d)
  BY DEF Learnt, Only
<1>6. 1 \in 1 .. Len(A[q0]) /\ A[q0][1] = m /\ m \in ToSet(A[q0])
  <2>1. A[q0] \in Seq(FrameType)
    BY DEF Airs
  <2> QED  BY <2>1, SetOfTail
<1>7. m.sn \in Window(y) /\ y \in Sn
  BY <1>4, <1>6 DEF Sharp, IsWord
<1> HIDE DEF f
<1>8. ASSUME Liv(P, n, d)  PROVE Better(f, P[n][d]) /\ P[n][d].sn \in Window(y) /\ P[n][d].metric \in Nat
  <2>1. P[n][d].sn \in Window(y) /\ P[n][d].metric \in Nat
    BY <1>1, <1>8, PathIs DEF Liv, Sharp
  <2>2. P[n][d].sn = m.sn \/ Newer(m.sn, P[n][d].sn)
    BY <1>7, <1>8, <2>1, NewerOrders DEF NewTo
  <2> QED  BY <1>2, <1>8, <2>1, <2>2 DEF Better, NewTo
<1> HIDE DEF d, n, p
<1>9. Sure(P, A, l, d)
  BY DEF d
<1>10. Backed(P1, A, d)
  <2> SUFFICES ASSUME NEW q \in Pairs, NEW i \in 1 .. Len(A[q]), IsWord(A[q][i], d), q[1] # d
               PROVE  q[1] \in Relays /\ (Stands(P1, q[1], d, A[q][i]) \/ Warned(A[q], i, d, A[q][i].sn))
    BY DEF Backed
  <2>1. q[1] \in Relays /\ (Stands(P, q[1], d, A[q][i]) \/ Warned(A[q], i, d, A[q][i].sn))
    BY <1>9 DEF Sure, Backed
  <2>2. CASE q[1] # n
    <3>1. P1[q[1]][d] = P[q[1]][d] /\ (Liv(P1, q[1], d) <=> Liv(P, q[1], d))
      BY <1>5, <2>2, OnlyIs, PairIs
    <3> QED  BY <2>1, <3>1 DEF Stands
  <2>3. CASE q[1] = n /\ Stands(P, n, d, A[q][i])
    <3> DEFINE x == A[q][i]
    <3>1. x \in FrameType /\ x \in ToSet(A[q])
      BY AirIs
    <3>2. x.sn \in Window(y) /\ x.metric \in Nat
      BY <3>1, FrameIs DEF Sharp, IsWord, d
    <3>3. Liv(P, n, d) /\ Vouches(P[n][d], x.sn, x.metric)
      BY <2>3 DEF Stands
    <3> HIDE DEF x
    <3>4. f.sn \in Window(y) /\ f.metric \in Nat
      BY <1>1, <1>2, <1>7
    <3>5. Vouches(f, x.sn, x.metric)
      BY <1>7, <1>8, <3>2, <3>3, <3>4, VouchOn
    <3> QED  BY <1>4, <2>1, <2>3, <3>5 DEF Stands, f, x
  <2> QED  BY <2>1, <2>2, <2>3
<1>11. ASSUME NEW k \in Node, Liv(P1, k, d)
       PROVE  <<P1[k][d].nh, k>> \in Pairs /\ (P1[k][d].nh = d \/ Leans(P1, A, l, k, P1[k][d].nh, d))
  <2>1. CASE k = n
    <3>1. P1[k][d] = f /\ f.nh = p /\ <<p, k>> \in Pairs /\ A[<<p, k>>] = A[q0]
      BY <1>1, <1>2, <2>1 DEF f
    <3>2. ASSUME p # d  PROVE Leans(P1, A, l, k, p, d)
      <4>1. p \in Relays /\ (Stands(P, p, d, m) \/ Warned(A[q0], 1, d, m.sn))
        <5>1. q0[1] # d /\ IsWord(A[q0][1], d)
          BY <1>4, <1>6, <3>2 DEF p, d
        <5>2. q0[1] \in Relays /\ (Stands(P, q0[1], d, A[q0][1]) \/ Warned(A[q0], 1, d, A[q0][1].sn))
          BY <1>6, <1>9, <5>1 DEF Sure, Backed
        <5> QED  BY <1>6, <5>2 DEF p
      <4>2. ASSUME Stands(P, p, d, m)  PROVE Liv(P1, p, d) /\ Better(P1[p][d], P1[k][d])
        <5>1. P1[p][d] = P[p][d] /\ Liv(P1, p, d)
          BY <1>1, <1>5, <4>2, OnlyIs DEF Stands
        <5>2. P[p][d].metric \in Nat
          BY <1>1, <4>2, PathIs DEF Stands, Liv
        <5>3. Vouches(P[p][d], m.sn, m.metric)
          BY <4>2 DEF Stands
        <5>4. Better(P[p][d], f)
          BY <1>1, <1>2, <5>2, <5>3 DEF Vouches, Better
        <5> QED  BY <3>1, <5>1, <5>4
      <4>3. ASSUME Warned(A[q0], 1, d, m.sn)  PROVE Warned(A[<<p, k>>], 0, d, P1[k][d].sn)
        <5>1. PICK j \in 1 .. Len(A[q0]) : j > 1 /\ Cuts(A[q0][j], d, m.sn)
          BY <4>3 DEF Warned
        <5>2. j > 0
          BY <5>1
        <5> QED  BY <1>2, <3>1, <5>1, <5>2 DEF Warned
      <4> QED  BY <4>1, <4>2, <4>3 DEF Leans
    <3> QED  BY <3>1, <3>2
  <2>2. CASE k # n
    <3>1. P1[k][d] = P[k][d] /\ Liv(P, k, d)
      BY <1>5, <1>11, <2>2, OnlyIs
    <3> DEFINE h == P[k][d].nh
               g == P[k][d]
    <3>2. h \in Node /\ g.sn \in Window(y) /\ g.metric \in Nat
      BY <1>1, <3>1, PathIs DEF Liv, Sharp, d
    <3>3. <<h, k>> \in Pairs /\ (h = d \/ Leans(P, A, l, k, h, d))
      BY <1>9, <3>1 DEF Sure, Footed
    <3>4. ASSUME Leans(P, A, l, k, h, d)  PROVE Leans(P1, A, l, k, h, d)
      <4>1. CASE h # n
        <5>1. P1[h][d] = P[h][d] /\ (Liv(P1, h, d) <=> Liv(P, h, d))
          BY <1>5, <3>2, <4>1, OnlyIs
        <5> HIDE DEF h, g
        <5> QED  BY <3>1, <3>4, <5>1 DEF Leans
      <4>2. CASE h = n
        <5> HIDE DEF h
        <5>1. /\ h \in Relays
              /\ \/ Liv(P, n, d) /\ Better(P[n][d], g)
                 \/ Warned(A[<<h, k>>], 0, d, g.sn)
                 \/ Fresher(A, d, g.sn)
          BY <3>4, <4>2 DEF Leans
        <5> HIDE DEF g
        <5>2. Liv(P, n, d) /\ Better(P[n][d], g) => Better(f, g)
          <6>1. f.sn \in Window(y) /\ f.metric \in Nat
            BY <1>1, <1>2, <1>7
          <6> QED  BY <1>7, <1>8, <3>2, <6>1, BetterOn
        <5>3. Fresher(A, d, g.sn) => Better(f, g)
          BY <1>2, <1>4, <1>6 DEF Fresher, Better
        <5>4. h \in Relays /\ (Better(P1[h][d], P1[k][d]) \/ Warned(A[<<h, k>>], 0, d, P1[k][d].sn)) /\ Liv(P1, h, d)
          BY <1>4, <3>1, <4>2, <5>1, <5>2, <5>3 DEF f, g
        <5> QED  BY <5>4 DEF Leans
      <4> QED  BY <4>1, <4>2
    <3> HIDE DEF h
    <3> QED  BY <3>1, <3>3, <3>4 DEF h
  <2> QED  BY <2>1, <2>2
<1>12. Sure(P1, A, l, d)
  BY <1>10, <1>11 DEF Sure, Footed
<1> QED  BY <1>4, <1>12 DEF d, n

LEMMA SureMore ==
  ASSUME NEW P, NEW A, NEW l, NEW l1, NEW d, Sure(P, A, l, d), l => l1
  PROVE  Sure(P, A, l1, d)
BY DEF Sure, Footed, Leans

\* The words that were added: those of M that are in the air.
Heardof(B, n, M) == {m \in M : \E q \in Pairs : q[1] = n /\ m \in ToSet(B[q])}

LEMMA AddsGrown ==
  ASSUME NEW A \in Airs, NEW B, NEW n, NEW M, Adds(A, B, n, M), M \subseteq FrameType
  PROVE  Grown(A, B, n, Heardof(B, n, M))
<1>1. B \in Airs
  BY DEF Adds
<1>2. ASSUME NEW q \in Pairs
      PROVE  /\ Len(A[q]) <= Len(B[q]) /\ \A i \in 1 .. Len(A[q]) : B[q][i] = A[q][i]
             /\ \A i \in 1 .. Len(B[q]) : i > Len(A[q]) => q[1] = n /\ B[q][i] \in Heardof(B, n, M)
  <2>1. A[q] \in Seq(FrameType) /\ Len(A[q]) \in Nat /\ B[q] \in Seq(FrameType)
    BY <1>1, AirIs
  <2>2. CASE B[q] = A[q]
    <3>1. Len(B[q]) = Len(A[q])
      BY <2>2
    <3> QED  BY <2>1, <2>2, <3>1
  <2>3. ASSUME q[1] = n, NEW m \in M, B[q] = Append(A[q], m)
        PROVE  /\ Len(A[q]) <= Len(B[q]) /\ \A i \in 1 .. Len(A[q]) : B[q][i] = A[q][i]
               /\ \A i \in 1 .. Len(B[q]) : i > Len(A[q]) => q[1] = n /\ B[q][i] \in Heardof(B, n, M)
    <3> DEFINE u == A[q]
    <3>1. u \in Seq(FrameType) /\ m \in FrameType
      BY <2>1
    <3> HIDE DEF u
    <3>2. /\ Len(Append(u, m)) = Len(u) + 1 /\ Append(u, m)[Len(u) + 1] = m /\ Len(u) \in Nat
          /\ \A i \in 1 .. Len(u) : Append(u, m)[i] = u[i]
      BY <3>1
    <3>3. /\ Len(B[q]) = Len(A[q]) + 1 /\ B[q][Len(A[q]) + 1] = m
          /\ \A i \in 1 .. Len(A[q]) : B[q][i] = A[q][i]
      BY <2>3, <3>2 DEF u
    <3>4. m \in Heardof(B, n, M)
      <4>1. m \in ToSet(B[q])
        BY <2>3, <3>1, SetOfAppend DEF u
      <4> QED  BY <2>3, <4>1 DEF Heardof
    <3>5. \A i \in 1 .. Len(B[q]) : i > Len(A[q]) => i = Len(A[q]) + 1
      BY <2>1, <3>3
    <3> QED  BY <2>1, <2>3, <3>3, <3>4, <3>5
  <2> QED  BY <2>2, <2>3 DEF Adds
<1> QED  BY <1>1, <1>2 DEF Grown

LEMMA GroupGrown ==
  ASSUME NEW A \in Airs, NEW n, NEW ms \in Seq(FrameType)
  PROVE  /\ Grown(A, Group(A, n, ms), n, ToSet(ms))
         /\ \A q \in Pairs : \A i \in 1 .. Len(ms) :
              q[1] = n => /\ Len(A[q]) + i \in 1 .. Len(Group(A, n, ms)[q])
                          /\ Group(A, n, ms)[q][Len(A[q]) + i] = ms[i]
<1> DEFINE B == Group(A, n, ms)
<1>1. ASSUME NEW q \in Pairs
      PROVE  /\ B[q] \in Seq(FrameType)
             /\ Len(A[q]) <= Len(B[q]) /\ \A i \in 1 .. Len(A[q]) : B[q][i] = A[q][i]
             /\ \A i \in 1 .. Len(B[q]) : i > Len(A[q]) => q[1] = n /\ B[q][i] \in ToSet(ms)
             /\ \A i \in 1 .. Len(ms) :
                  q[1] = n => Len(A[q]) + i \in 1 .. Len(B[q]) /\ B[q][Len(A[q]) + i] = ms[i]
  <2> DEFINE u == A[q]
  <2>1. u \in Seq(FrameType) /\ B[q] = IF q[1] = n THEN u \o ms ELSE u
    BY DEF Airs, Group
  <2> HIDE DEF u, B
  <2> DEFINE v == u \o ms
  <2>2. /\ v \in Seq(FrameType) /\ Len(v) = Len(u) + Len(ms) /\ Len(u) \in Nat /\ Len(ms) \in Nat
        /\ \A i \in 1 .. Len(u) : v[i] = u[i]
        /\ \A i \in 1 .. Len(v) : i > Len(u) => v[i] = ms[i - Len(u)]
    BY <2>1
  <2> HIDE DEF v
  <2>3. \A i \in 1 .. Len(v) : i > Len(u) => v[i] \in ToSet(ms)
    <3> SUFFICES ASSUME NEW i \in 1 .. Len(v), i > Len(u)  PROVE v[i] \in ToSet(ms)
      OBVIOUS
    <3>1. i - Len(u) \in 1 .. Len(ms) /\ v[i] = ms[i - Len(u)]
      BY <2>2
    <3> QED  BY <3>1, SetOfSeq
  <2>4. \A i \in 1 .. Len(ms) : Len(u) + i \in 1 .. Len(v) /\ v[Len(u) + i] = ms[i]
    <3> SUFFICES ASSUME NEW i \in 1 .. Len(ms)  PROVE Len(u) + i \in 1 .. Len(v) /\ v[Len(u) + i] = ms[i]
      OBVIOUS
    <3>1. Len(u) + i \in 1 .. Len(v) /\ Len(u) + i > Len(u) /\ (Len(u) + i) - Len(u) = i
      BY <2>2
    <3> QED  BY <2>2, <3>1
  <2>5. CASE q[1] = n
    <3>1. B[q] = v
      BY <2>1, <2>5 DEF v
    <3> QED  BY <2>2, <2>3, <2>4, <2>5, <3>1 DEF u
  <2>6. CASE q[1] # n
    <3>1. B[q] = u
      BY <2>1, <2>6
    <3> QED  BY <2>1, <2>2, <2>6, <3>1 DEF u
  <2> QED  BY <2>5, <2>6
<1>2. B = [q \in Pairs |-> B[q]]
  BY DEF Group
<1> HIDE DEF B
<1>3. B \in Airs
  BY <1>1, <1>2 DEF Airs
<1>4. Grown(A, B, n, ToSet(ms))
  BY <1>1, <1>3 DEF Grown
<1> QED  BY <1>1, <1>4 DEF B

\* q[2] takes the first frame of q and sends on: as if it sent first and the frame went after.
\* The air B, but that the first frame of q is still there.
Unmoved(B, q) == [r \in Pairs |-> IF r = q THEN air[q] ELSE B[r]]

LEMMA Rested ==
  ASSUME Types, NEW q \in Pairs, air[q] # <<>>, NEW B, NEW M, Adds(Rest(q[2], q[1]), B, q[2], M)
  PROVE  /\ Adds(air, Unmoved(B, q), q[2], M) /\ Unmoved(B, q)[q] = air[q]
         /\ \A r \in Pairs : B[r] = IF r = q THEN Tail(Unmoved(B, q)[q]) ELSE Unmoved(B, q)[r]
         /\ Heardof(Unmoved(B, q), q[2], M) = Heardof(B, q[2], M)
<1> DEFINE C == Unmoved(B, q)
           am == Rest(q[2], q[1])
<1>1. q = <<q[1], q[2]>> /\ q[1] # q[2] /\ air \in Airs /\ B \in Airs
  BY PairIs DEF Types, Adds
<1>2. \A r \in Pairs : am[r] = IF r = q THEN Tail(air[q]) ELSE air[r]
  <2>1. am = [air EXCEPT ![q] = Tail(@)]
    BY <1>1, Zenon DEF Rest
  <2> QED  BY <1>1, <2>1 DEF Airs
<1> HIDE DEF am
<1>3. \A r \in Pairs : C[r] = IF r = q THEN air[q] ELSE B[r]
  BY DEF Unmoved
<1>4. C \in Airs
  BY <1>1 DEF Airs, Unmoved
<1> HIDE DEF C
<1>5. \A r \in Pairs : B[r] = am[r] \/ (r[1] = q[2] /\ \E m \in M : B[r] = Append(am[r], m))
  BY DEF Adds, am
<1>6. B[q] = Tail(air[q])
  BY <1>1, <1>2, <1>5
<1>7. Adds(air, C, q[2], M)
  BY <1>2, <1>3, <1>4, <1>5 DEF Adds
<1>8. Heardof(C, q[2], M) = Heardof(B, q[2], M)
  BY <1>1, <1>3 DEF Heardof
<1> QED  BY <1>3, <1>6, <1>7, <1>8 DEF C

Assured(P, A, l) == \A d \in Node : Sure(P, A, l, d)
Joined == \A n, d \in Node : Liv(path, n, d) => path[n][d].nh \in peers[n]
Sharply == \A d \in Node : Sharp(path, air, d, sn[d])

LEMMA LiveIs ==
  ASSUME NEW n \in Node, NEW d \in Node
  PROVE  Live(n, d) <=> Liv(path, n, d)
BY DEF Live, Held, Liv

LEMMA SharpNow == Types /\ Reach /\ spent["losses"] = 0 => Sharply
<1> SUFFICES ASSUME Types, Reach, spent["losses"] = 0, NEW d \in Node  PROVE Sharp(path, air, d, sn[d])
  BY DEF Sharply
<1>1. /\ \A n \in Node : Live(n, d) => path[n][d].sn \in Window(sn[d])
      /\ \A m \in Sayings(d) : m.sn \in Window(sn[d]) \/ (m.kind = "perr" /\ m.sn = Up(sn[d]))
  BY DEF Reach
<1>2. \A q \in Pairs : \A m \in ToSet(air[q]) : m.about = d => m \in Sayings(d)
  BY DEF Sayings
<1>3. sn[d] \in Sn
  BY DEF Types
<1> QED  BY <1>1, <1>2, <1>3, LiveIs DEF Sharp

LEMMA DrawnNewer ==
  ASSUME Types, OwnRecent', NEW n \in Node, NEW k \in Nat, 2 * k <= SnMod, sn'[n] = Later(sn[n], k),
         NEW M, NEW x \in Heardof(air', n, M), x.about = n, NEW i \in 1 .. k, x.sn = Later(sn[n], i),
         NEW w \in Window(sn[n]), w \in Window(sn'[n])
  PROVE  Newer(x.sn, w)
<1>1. x.sn \in Window(sn'[n])
  BY DEF Heardof, OwnRecent
<1>2. sn[n] \in Sn
  BY DEF Types
<1> QED  BY <1>1, <1>2, DrawnAreNewer

LEMMA SpeaksSure ==
  ASSUME Types, OwnRecent', Sharply, Sharply', NEW n \in Node, NEW k, NEW M \in SUBSET FrameType, Speaks(n, k, M),
         NEW l, Assured(path, air, l)
  PROVE  Assured(path', air', l)
<1>1. /\ k \in Nat /\ 2 * k <= SnMod /\ path' = path /\ sn' = [sn EXCEPT ![n] = Later(@, k)]
      /\ Adds(air, air', n, M) /\ \A m \in M : m.about = n /\ \E i \in 1 .. k : m.sn = Later(sn[n], i)
  BY DEF Speaks
<1>2. air \in Airs /\ path \in Tables /\ sn'[n] = Later(sn[n], k)
  BY <1>1 DEF Types
<1> DEFINE N == Heardof(air', n, M)
<1>3. Grown(air, air', n, N)
  BY <1>1, <1>2, AddsGrown
<1> SUFFICES ASSUME NEW d \in Node  PROVE Sure(path', air', l, d)
  BY DEF Assured
<1>4. ASSUME NEW x \in N, IsWord(x, d)
      PROVE  n = d /\ \A j \in Node : Liv(path, j, d) => Newer(x.sn, path[j][d].sn)
  <2>1. x \in M /\ n = d
    BY <1>1, <1>4 DEF Heardof, IsWord
  <2>2. PICK i \in 1 .. k : x.sn = Later(sn[n], i)
    BY <1>1, <2>1
  <2>3. ASSUME NEW j \in Node, Liv(path, j, d)  PROVE Newer(x.sn, path[j][d].sn)
    <3> DEFINE w == path[j][d].sn
    <3>1. w \in Window(sn[n])
      BY <2>1, <2>3 DEF Sharply, Sharp
    <3>2. Liv(path', j, d) /\ path'[j][d].sn = w
      BY <1>1, <2>3
    <3>3. w \in Window(sn'[n])
      BY <2>1, <3>2 DEF Sharply, Sharp
    <3>4. x.about = n
      BY <1>1, <2>1
    <3> HIDE DEF w, N
    <3>5. x \in Heardof(air', n, M)
      BY DEF N
    <3> QED  BY <1>1, <1>2, <2>2, <3>1, <3>3, <3>4, <3>5, DrawnNewer DEF w
  <2> QED  BY <2>1, <2>3
<1> HIDE DEF N
<1>5. Sound(path, air, n, N, d)
  BY <1>4 DEF Sound
<1>6. Sure(path, air', l, d)
  <2>1. Sure(path, air, l, d)
    BY DEF Assured
  <2> QED  BY <1>2, <1>3, <1>5, <2>1, GrowKeeps
<1> QED  BY <1>1, <1>6

\* Number s of e is in use by a live path or on its way in a word.
Voiced(P, A, e, s) ==
  \/ \E k \in Node : Liv(P, k, e) /\ P[k][e].sn = s
  \/ \E q \in Pairs : \E x \in ToSet(A[q]) : IsWord(x, e) /\ x.sn = s
\* What is queued with the last number drawn has not been heard by anyone.
Unvoiced == \A e \in Node : \A m \in ToSet(outbox[e]) : m.sn = sn[e] => ~Voiced(path, air, e, sn[e])

LEMMA QueuedSure ==
  ASSUME Types, OwnRecent, Sharply, Unvoiced, NEW n \in Node, SendsQueued(n),
         NEW l, Assured(path, air, l)
  PROVE  Assured(path', air', l)
<1> DEFINE m == Head(outbox[n])
           s == sn[n]
<1>1. m \in FrameType /\ Shorter(n) /\ m.sn = s /\ path' = path /\ Adds(air, air', n, {m}) /\ s \in Sn
  BY DEF SendsQueued, Goes, Types
<1>2. outbox[n] # <<>> /\ outbox[n] \in Seq(FrameType)
  BY <1>1 DEF Shorter, Types, Queues
<1>3. m \in ToSet(outbox[n])
  BY <1>2, SetOfTail
<1>4. m.about = n
  BY <1>3 DEF Types, Own1
<1>5. air \in Airs /\ path \in Tables
  BY DEF Types
<1>6. Grown(air, air', n, Heardof(air', n, {m}))
  BY <1>1, <1>5, AddsGrown
<1>7. ~Voiced(path, air, n, s)
  BY <1>1, <1>3 DEF Unvoiced
<1>8. ASSUME NEW j \in Node, Liv(path, j, n)  PROVE Newer(m.sn, path[j][n].sn)
  <2>1. path[j][n].sn \in Window(s) /\ path[j][n].sn # s
    BY <1>7, <1>8 DEF Sharply, Sharp, Voiced
  <2> QED  BY <1>1, <2>1, NewestIs
<1> HIDE DEF m, s
<1>9. ASSUME NEW d \in Node  PROVE Sure(path', air', l, d)
  <2> DEFINE N == Heardof(air', n, {m})
  <2>1. Sound(path, air, n, N, d)
    BY <1>4, <1>8 DEF Heardof, IsWord, Sound
  <2>2. Grown(air, air', n, N)
    BY <1>6
  <2> HIDE DEF N
  <2>3. Sure(path, air, l, d)
    BY DEF Assured
  <2>4. Sure(path, air', l, d)
    BY <1>5, <2>1, <2>2, <2>3, GrowKeeps
  <2> QED  BY <1>1, <2>4
<1> QED  BY <1>9 DEF Assured

\* A frame goes that breaks no path of its receiver.
LEMMA IgnoredSure ==
  ASSUME Types, Joined, NEW q \in Pairs, air[q] # <<>>, NEW B \in Airs,
         \A r \in Pairs : B[r] = IF r = q THEN Tail(air[q]) ELSE air[r],
         ~Alarms(q[2], q[1]), NEW l, Assured(path, air, l)
  PROVE  Assured(path, B, l)
<1> SUFFICES ASSUME NEW d \in Node  PROVE Sure(path, B, l, d)
  BY DEF Assured
<1> DEFINE n == q[2]
           p == q[1]
           m == Head(air[q])
<1>1. q = <<p, n>> /\ n \in Node /\ p \in Node
  BY PairIs
<1>2. ASSUME Liv(path, n, d), path[n][d].nh = p, Cuts(m, d, path[n][d].sn)  PROVE FALSE
  <2>1. p \in peers[n] /\ m.kind = "perr" /\ m.about = d /\ (m.sn = 0 \/ Newer(m.sn, path[n][d].sn))
    BY <1>1, <1>2 DEF Joined, Cuts
  <2>2. Live(n, d)
    BY <1>1, <1>2, LiveIs
  <2>3. Breaks(n, p, m)
    BY <1>2, <2>1, <2>2 DEF Breaks
  <2>4. air[<<p, n>>] = air[q]
    BY <1>1, Zenon
  <2>5. Arrived(n, p, "perr")
    BY <2>1, <2>4 DEF Arrived
  <2>6. Breaks(n, p, Head(air[<<p, n>>]))
    BY <2>3, <2>4
  <2> QED  BY <2>1, <2>5, <2>6 DEF Alarms
<1>3. path \in Tables /\ air \in Airs /\ Sure(path, air, l, d)
  BY DEF Types, Assured
<1>4. ~(Liv(path, q[2], d) /\ path[q[2]][d].nh = q[1] /\ Cuts(Head(air[q]), d, path[q[2]][d].sn))
  BY <1>2
<1> QED  BY <1>3, <1>4, ConsumeKeeps

\* The paths to e stay but for some that were not live.
LEMMA OthersAlike ==
  ASSUME NEW P, NEW P1, NEW n, NEW p, NEW m, Learnt(P, P1, n, p, m), NEW e \in Node, e # m.about
  PROVE  Alike(P, P1, e)
<1> SUFFICES ASSUME NEW k \in Node
             PROVE  (Liv(P1, k, e) <=> Liv(P, k, e)) /\ (Liv(P, k, e) => P1[k][e] = P[k][e])
  BY DEF Alike
<1>1. CASE k # n
  BY <1>1 DEF Learnt, Liv
<1>2. CASE k = n
  BY <1>2 DEF Learnt, Liv
<1> QED  BY <1>1, <1>2

\* n learns word m of p, adds words to the air, and m goes.
LEMMA LearnsSure ==
  ASSUME Types, Sharply, NEW q \in Pairs, air[q] # <<>>, NEW m, Learns(q[2], q[1], m), NEW l, Assured(path, air, l),
         NEW M \in SUBSET FrameType, Adds(Rest(q[2], q[1]), air', q[2], M), NEW e \in Node,
         Sound(path', air, q[2], Heardof(air', q[2], M), e)
  PROVE  Sure(path', air', l, e)
<1> DEFINE n == q[2]
           p == q[1]
           d == m.about
           N == Heardof(air', n, M)
           C == Unmoved(air', q)
<1>1. n \in Node /\ p \in Node /\ q = <<p, n>> /\ path \in Tables /\ air \in Airs
  BY PairIs DEF Types
<1>2. /\ m \in FrameType /\ m.about # n /\ m.kind # "perr" /\ path' \in Tables /\ m = Head(air[q])
      /\ Learnt(path, path', n, p, m) /\ NewTo(path, n, m) /\ d \in Node /\ m \in ToSet(air[q])
  <2>1. air[<<p, n>>] = air[q]
    BY <1>1, Zenon
  <2>2. m \in FrameType /\ m = Head(air[<<p, n>>]) /\ m \in ToSet(air[<<p, n>>])
    BY DEF Learns
  <2> QED  BY <2>1, <2>2, FrameIs DEF Learns
<1>3. Sure(path', air, l, e)
  <2>1. Sure(path, air, l, e)
    BY DEF Assured
  <2>2. CASE e = d
    <3>1. Sharp(path, air, d, sn[d])
      BY <1>2 DEF Sharply
    <3> HIDE DEF d
    <3>2. Sharp(path, air, m.about, sn[m.about]) /\ Sure(path, air, l, m.about) /\ m.about # q[2]
      BY <1>2, <2>1, <2>2, <3>1 DEF d
    <3>3. Sure(path', air, l, m.about)
      BY <1>1, <1>2, <3>2, LearnSure
    <3> QED  BY <2>2, <3>3 DEF d
  <2>3. CASE e # d
    <3>1. Alike(path, path', e)
      BY <1>2, <2>3, OthersAlike
    <3> QED  BY <1>1, <2>1, <3>1, AlikeKeeps
  <2> QED  BY <2>2, <2>3
<1>4. /\ Adds(air, C, n, M) /\ C[q] = air[q] /\ Heardof(C, n, M) = N
      /\ \A r \in Pairs : air'[r] = IF r = q THEN Tail(C[q]) ELSE C[r]
  <2>1. Adds(Rest(q[2], q[1]), air', q[2], M) /\ Types /\ air[q] # <<>>
    OBVIOUS
  <2>2. /\ Adds(air, Unmoved(air', q), q[2], M) /\ Unmoved(air', q)[q] = air[q]
        /\ \A r \in Pairs : air'[r] = IF r = q THEN Tail(Unmoved(air', q)[q]) ELSE Unmoved(air', q)[r]
        /\ Heardof(Unmoved(air', q), q[2], M) = Heardof(air', q[2], M)
    BY <2>1, Rested
  <2> QED  BY <2>2
<1> HIDE DEF C, N
<1>5. Grown(air, C, n, N) /\ C \in Airs
  BY <1>1, <1>4, AddsGrown DEF Adds
<1>6. Sound(path', air, n, N, e)
  BY DEF N
<1>7. Sure(path', C, l, e)
  BY <1>1, <1>2, <1>3, <1>5, <1>6, GrowKeeps
<1>8. air' \in Airs
  BY DEF Adds
<1>9. ~Cuts(Head(C[q]), e, path'[q[2]][e].sn)
  BY <1>2, <1>4 DEF Cuts
<1>10. C[q] # <<>>
  BY <1>4
<1> QED  BY <1>2, <1>4, <1>5, <1>7, <1>8, <1>9, <1>10, ConsumeKeeps

LEMMA PassesSure ==
  ASSUME Types, Sharply, NEW q \in Pairs, air[q] # <<>>, NEW m, Passes(q[2], q[1], m),
         NEW l, Assured(path, air, l)
  PROVE  Assured(path', air', l)
<1> DEFINE n == q[2]
           M == {Onward(m)} \cap FrameType
<1>1. Learns(n, q[1], m) /\ Adds(Rest(n, q[1]), air', n, M) /\ (n \in Relays \/ air' = Rest(n, q[1]))
  BY DEF Passes
<1>2. m \in FrameType /\ Learnt(path, path', n, q[1], m) /\ path' \in Tables /\ n \in Node /\ m.kind # "perr"
  BY <1>1, PairIs DEF Learns
<1>3. /\ m.about \in Node /\ m.sn \in Sn /\ m.metric \in Nat /\ Hop \in Nat
      /\ Onward(m).about = m.about /\ Onward(m).sn = m.sn /\ Onward(m).metric = m.metric + Hop
  BY <1>2, FrameIs, OnwardIs, Constants
<1>4. Stands(path', n, m.about, Onward(m))
  <2> DEFINE f == path'[n][m.about]
  <2>1. f = Path(q[1], m.sn, m.metric + Hop)
    BY <1>2 DEF Learnt
  <2>2. f.sn = m.sn /\ f.metric = m.metric + Hop /\ f.active /\ f.live
    BY <2>1 DEF Path
  <2>3. f # NoPath
    <3>1. f \in PathType
      BY <1>2, <1>3, <2>1, PairIs DEF Path, PathType
    <3> QED  BY <3>1, Constants
  <2>4. m.metric + Hop \in Nat
    BY <1>3
  <2> HIDE DEF f
  <2>5. Vouches(f, Onward(m).sn, Onward(m).metric)
    BY <1>3, <2>2, <2>4 DEF Vouches
  <2> QED  BY <2>2, <2>3, <2>5 DEF Stands, Liv, f
<1> SUFFICES ASSUME NEW e \in Node  PROVE Sure(path', air', l, e)
  BY DEF Assured
<1>5. ASSUME NEW N \in SUBSET FrameType, N \subseteq M, N = {} \/ n \in Relays, Adds(Rest(n, q[1]), air', n, N)
      PROVE  Sure(path', air', l, e)
  <2>1. Sound(path', air, n, Heardof(air', n, N), e)
    <3>0. m \in ToSet(air[q]) /\ IsWord(m, m.about)
      <4>1. air[<<q[1], n>>] = air[q]
        BY PairIs, Zenon
      <4> QED  BY <1>1, <1>2, <4>1 DEF Learns, IsWord
    <3> SUFFICES ASSUME NEW x \in N, IsWord(x, e)
                 PROVE  n \in Relays /\ Stands(path', n, e, x) /\ x.sn = m.sn /\ e = m.about
      BY <3>0 DEF Heardof, Sound
    <3>1. x = Onward(m) /\ n \in Relays
      BY <1>5
    <3>2. e = m.about
      BY <1>3, <3>1 DEF IsWord
    <3> QED  BY <1>3, <1>4, <3>1, <3>2
  <2> HIDE DEF M
  <2> QED  BY <1>1, <1>5, <2>1, LearnsSure
<1>6. CASE n \in Relays
  BY <1>1, <1>5, <1>6
<1>7. CASE air' = Rest(n, q[1])
  <2>1. Adds(Rest(n, q[1]), air', n, {})
    <3>1. Rest(n, q[1]) \in Airs
      BY FewerRest DEF Fewer
    <3> QED  BY <1>7, <3>1, AddsNone
  <2>2. {} \in SUBSET FrameType /\ {} \subseteq M
    OBVIOUS
  <2> QED  BY <1>5, <2>1, <2>2
<1> QED  BY <1>1, <1>6, <1>7

LEMMA AnswersSure ==
  ASSUME Types, OwnRecent', Sharply, Sharply', NEW q \in Pairs, air[q] # <<>>, NEW m, Answers(q[2], q[1], m),
         NEW l, Assured(path, air, l)
  PROVE  Assured(path', air', l)
<1> DEFINE n == q[2]
           x == Answer(n, m)
           M == {x}
<1>1. Learns(n, q[1], m) /\ sn' = [sn EXCEPT ![n] = Up(@)] /\ x \in FrameType /\ Adds(Rest(n, q[1]), air', n, M)
  BY DEF Answers
<1>2. /\ m \in FrameType /\ Learnt(path, path', n, q[1], m) /\ path' \in Tables /\ n \in Node /\ m.kind # "perr"
      /\ m.about # n
  BY <1>1, PairIs DEF Learns
<1>3. sn[n] \in Sn /\ Up(sn[n]) = Later(sn[n], 1) /\ sn'[n] = Later(sn[n], 1)
  BY <1>1, <1>2, UpIs DEF Types
<1>4. x.about = n /\ x.sn = Later(sn[n], 1)
  BY <1>3 DEF Answer, Prep, Frame
<1> SUFFICES ASSUME NEW e \in Node  PROVE Sure(path', air', l, e)
  BY DEF Assured
<1> HIDE DEF x
<1>5. ASSUME NEW z \in Heardof(air', n, M), IsWord(z, e)
      PROVE  n = e /\ \A k \in Node : Liv(path', k, e) => Newer(z.sn, path'[k][e].sn)
  <2>1. z = x /\ n = e
    BY <1>4, <1>5 DEF Heardof, IsWord
  <2>2. ASSUME NEW k \in Node, Liv(path', k, e)  PROVE Newer(x.sn, path'[k][e].sn)
    <3>1. Alike(path, path', e)
      BY <1>2, <2>1, OthersAlike
    <3>2. Liv(path, k, e) /\ path'[k][e] = path[k][e]
      BY <2>2, <3>1 DEF Alike
    <3> DEFINE w == path'[k][e].sn
    <3>3. w \in Window(sn[n]) /\ w \in Window(sn'[n])
      BY <2>1, <2>2, <3>2 DEF Sharply, Sharp
    <3>4. 1 \in Nat /\ 2 * 1 <= SnMod /\ 1 \in 1 .. 1
      BY Constants
    <3>5. x \in Heardof(air', n, M)
      BY <1>5, <2>1
    <3> HIDE DEF w, M
    <3> QED  BY <1>2, <1>3, <1>4, <3>3, <3>4, <3>5, DrawnNewer DEF w
  <2> QED  BY <2>1, <2>2
<1>6. M \in SUBSET FrameType
  BY <1>1
<1> HIDE DEF M
<1>7. Sound(path', air, n, Heardof(air', n, M), e)
  BY <1>5 DEF Sound
<1> QED  BY <1>1, <1>6, <1>7, LearnsSure

\* Nobody hears of d from who is no relay.
LEMMA BridgeUnheard ==
  ASSUME NEW P \in Tables, NEW A \in Airs, NEW l, NEW n \in Node, NEW d \in Node, n # d, n \notin Relays,
         Sure(P, A, l, d)
  PROVE  Unheard(P, A, n, d)
<1>1. ASSUME NEW q \in Pairs, q[1] = n, NEW m \in ToSet(A[q])  PROVE ~IsWord(m, d)
  <2>1. \A z : z \in ToSet(A[q]) <=> \E i \in 1 .. Len(A[q]) : z = A[q][i]
    BY AirIs
  <2>2. PICK i \in 1 .. Len(A[q]) : m = A[q][i]
    BY <1>1, <2>1
  <2> QED  BY <1>1, <2>2 DEF Sure, Backed
<1>2. ASSUME NEW k \in Node, Liv(P, k, d)  PROVE P[k][d].nh # n
  BY <1>2 DEF Sure, Footed, Leans
<1> QED  BY <1>1, <1>2 DEF Unheard

LEMMA UncountedUnheard ==
  ASSUME NEW n \in Node, NEW d \in Node, ~Counted(n, d)
  PROVE  Unheard(path, air, n, d)
<1>1. ASSUME NEW q \in Pairs, q[1] = n, NEW m \in ToSet(air[q])  PROVE ~IsWord(m, d)
  BY <1>1 DEF Counted, IsWord
<1>2. ASSUME NEW k \in Node, Liv(path, k, d)  PROVE path[k][d].nh # n
  BY <1>2, LiveIs DEF Counted
<1> QED  BY <1>1, <1>2 DEF Unheard

\* What a PERR breaks, and what n does of it.
Broken(P, P1, n, d) ==
  /\ P1 \in Tables /\ ~Liv(P1, n, d)
  /\ \A k, e \in Node : ~(k = n /\ e = d) => P1[k][e] = P[k][e]

LEMMA BrokenAlike ==
  ASSUME NEW P, NEW P1, NEW n, NEW d, Broken(P, P1, n, d), NEW e \in Node, e # d
  PROVE  Alike(P, P1, e)
BY DEF Broken, Alike, Liv

LEMMA BrokenOnly ==
  ASSUME NEW P, NEW P1, NEW n, NEW d \in Node, Broken(P, P1, n, d)
  PROVE  Only(P, P1, n, d)
BY DEF Broken, Only

\* n takes note of a warning at the head of q, once it has told those who rely on it, C.
LEMMA BrokenSure ==
  ASSUME Types, NEW q \in Pairs, NEW d \in Node, NEW P1, Broken(path, P1, q[2], d), Liv(path, q[2], d), q[2] # d,
         NEW C \in Airs, C[q] # <<>>, Head(C[q]).about = d, NEW l, Assured(path, C, l), Sharp(path, C, d, sn[d]),
         Told(path, C, q[2], d) \/ Unheard(path, C, q[2], d),
         NEW B \in Airs, \A r \in Pairs : B[r] = IF r = q THEN Tail(C[q]) ELSE C[r]
  PROVE  Assured(P1, B, l)
<1> SUFFICES ASSUME NEW e \in Node  PROVE Sure(P1, B, l, e)
  BY DEF Assured
<1>1. path \in Tables /\ P1 \in Tables /\ Sure(path, C, l, e) /\ q[2] \in Node
  BY PairIs DEF Types, Broken, Assured
<1>2. Sure(P1, C, l, e)
  <2>1. CASE e # d
    BY <1>1, <2>1, BrokenAlike, AlikeKeeps
  <2>2. CASE e = d
    <3>1. Only(path, P1, q[2], d) /\ ~Liv(P1, q[2], d)
      BY BrokenOnly DEF Broken
    <3>2. Sure(path, C, l, d)
      BY <1>1, <2>2
    <3> DEFINE y == sn[d]
    <3>3. Sharp(path, C, d, y)
      OBVIOUS
    <3> HIDE DEF y
    <3>4. Sure(P1, C, l, d)
      BY <1>1, <3>1, <3>2, <3>3, KillKeeps
    <3> QED  BY <2>2, <3>4
  <2> QED  BY <2>1, <2>2
<1>3. ~(Liv(P1, q[2], e) /\ P1[q[2]][e].nh = q[1] /\ Cuts(Head(C[q]), e, P1[q[2]][e].sn))
  BY DEF Broken, Cuts
<1> QED  BY <1>1, <1>2, <1>3, ConsumeKeeps

LEMMA PerrSure ==
  ASSUME Types, Joined, Reach, spent["losses"] = 0, NEW q \in Pairs, ReceivePerr(q[2], q[1]),
         NEW l, Assured(path, air, l)
  PROVE  Assured(path', air', l)
<1> DEFINE n == q[2]
           p == q[1]
           m == Head(air[<<p, n>>])
           am == Rest(n, p)
           d == m.about
           s == IF m.sn = 0 THEN path[n][d].sn ELSE m.sn
           x == Perr(m.about, m.sn, m.ttl - 1)
<1>1. Arrived(n, p, "perr")
  BY DEF ReceivePerr
<1>2. /\ m \in FrameType /\ m \in ToSet(air[q]) /\ m.kind = "perr" /\ am \in Airs /\ q = <<p, n>>
      /\ air[q] # <<>> /\ m = Head(air[q]) /\ m.about \in Node /\ m.sn \in Sn
  <2>1. q = <<p, n>> /\ air[q] # <<>>
    BY <1>1, ArrivedIs
  <2>2. air[<<p, n>>] = air[q]
    BY <2>1, Zenon
  <2> QED  BY <1>1, <2>1, <2>2, ArrivedIs, FrameIs
<1>3. n \in Node /\ p \in Node /\ p # n /\ path \in Tables /\ air \in Airs /\ Kept(path)
  BY PairIs DEF Types
<1>4. \A r \in Pairs : am[r] = IF r = q THEN Tail(air[q]) ELSE air[r]
  <2>1. am = [air EXCEPT ![q] = Tail(@)]
    BY <1>2, Zenon DEF Rest
  <2> HIDE DEF am
  <2> QED  BY <1>3, <2>1 DEF Airs
<1>5. /\ Alarms(n, p) <=> p \in peers[n] /\ Breaks(n, p, m)
      /\ IF Alarms(n, p) THEN HandlePerr(n, p, m, am) ELSE Dropped(am)
  <2>1. Alarms(n, p) <=> p \in peers[n] /\ Breaks(n, p, m)
    BY <1>1 DEF Alarms
  <2>2. IF p \in peers[n] THEN HandlePerr(n, p, m, am) ELSE Dropped(am)
    BY DEF ReceivePerr
  <2> HIDE DEF m, am
  <2> QED  BY <2>1, <2>2 DEF HandlePerr
<1>6. CASE ~Alarms(n, p)
  <2>1. path' = path /\ air' = am
    BY <1>5, <1>6 DEF Dropped
  <2> HIDE DEF am, m
  <2>2. Assured(path, am, l)
    BY <1>2, <1>4, <1>6, IgnoredSure
  <2> QED  BY <2>1, <2>2
<1>7. CASE Alarms(n, p)
  <2>1. p \in peers[n] /\ Breaks(n, p, m) /\ HandlePerr(n, p, m, am)
    BY <1>5, <1>7
  <2> HIDE DEF m, am
  <2>2. /\ path' = [path EXCEPT ![n][d].active = FALSE, ![n][d].sn = s]
        /\ air' = IF MayPass(n, m) THEN Group(am, n, <<x>>) ELSE am
    BY <2>1 DEF HandlePerr
  <2>3. Liv(path, n, d) /\ d # n /\ path[n][d] \in PathType /\ path[n][d].sn \in Sn
    <3>1. Liv(path, n, d)
      BY <1>2, <1>3, <2>1, LiveIs DEF Breaks
    <3> QED  BY <1>2, <1>3, <3>1, PathIs DEF Kept, Liv
  <2>4. m.sn = 0 \/ Newer(m.sn, path[n][d].sn)
    BY <2>1 DEF Breaks
  <2>5. path' \in Tables
    BY PerrIs
  <2> HIDE DEF s, x
  <2>6. Broken(path, path', n, d)
    <3>1. /\ path'[n][d] = [path[n][d] EXCEPT !.active = FALSE, !.sn = s]
          /\ \A k, e \in Node : ~(k = n /\ e = d) => path'[k][e] = path[k][e]
      BY <1>2, <1>3, <2>2 DEF Tables
    <3>2. path'[n][d].active = FALSE
      BY <2>3, <3>1 DEF PathType
    <3> QED  BY <2>5, <3>1, <3>2 DEF Broken, Liv
  <2>7. Sharp(path, air, d, sn[d])
    BY <1>2, SharpNow DEF Sharply
  <2>8. CASE MayPass(n, m)
    <3> DEFINE C == Group(air, n, <<x>>)
    <3>1. x \in FrameType /\ x.about = d /\ x.kind = "perr" /\ x.sn = m.sn
      BY <1>2, <2>8, FramesFit DEF MayPass, x, Perr, Frame
    <3>2. <<x>> \in Seq(FrameType) /\ ToSet(<<x>>) = {x} /\ Len(<<x>>) = 1 /\ <<x>>[1] = x
      BY <3>1, SetOfOne
    <3>3. /\ Grown(air, C, n, {x}) /\ C \in Airs
          /\ \A r \in Pairs : r[1] = n => Len(air[r]) + 1 \in 1 .. Len(C[r]) /\ C[r][Len(air[r]) + 1] = x
      <4> DEFINE ms == <<x>>
      <4>1. ms \in Seq(FrameType) /\ ToSet(ms) = {x} /\ Len(ms) = 1 /\ ms[1] = x /\ C = Group(air, n, ms)
        BY <3>2
      <4> HIDE DEF ms, C
      <4>2. /\ Grown(air, C, n, ToSet(ms))
            /\ \A r \in Pairs : \A i \in 1 .. Len(ms) :
                 r[1] = n => Len(air[r]) + i \in 1 .. Len(C[r]) /\ C[r][Len(air[r]) + i] = ms[i]
        <5> HIDE DEF n
        <5>1. ms \in Seq(FrameType) /\ air \in Airs
          BY <1>3, <4>1
        <5>2. /\ Grown(air, Group(air, n, ms), n, ToSet(ms))
              /\ \A r \in Pairs : \A i \in 1 .. Len(ms) :
                   r[1] = n => /\ Len(air[r]) + i \in 1 .. Len(Group(air, n, ms)[r])
                               /\ Group(air, n, ms)[r][Len(air[r]) + i] = ms[i]
          BY <5>1, GroupGrown
        <5>3. C = Group(air, n, ms)
          BY <4>1
        <5> QED  BY <5>2, <5>3
      <4>3. 1 \in 1 .. Len(ms)
        BY <4>1
      <4> QED  BY <4>1, <4>2, <4>3 DEF Grown
    <3>4. /\ C[q] = air[q]
          /\ \A r \in Pairs : air'[r] = IF r = q THEN Tail(C[q]) ELSE C[r]
      <4>1. air' = Group(am, n, <<x>>)
        BY <2>2, <2>8
      <4>2. \A r \in Pairs : C[r] = IF r[1] = n THEN air[r] \o <<x>> ELSE air[r]
        BY DEF Group
      <4>3. \A r \in Pairs : air'[r] = IF r[1] = n THEN am[r] \o <<x>> ELSE am[r]
        BY <4>1 DEF Group
      <4> HIDE DEF C
      <4> QED  BY <1>3, <1>4, <4>2, <4>3
    <3> HIDE DEF C
    <3>5. Assured(path, C, l)
      <4> SUFFICES ASSUME NEW e \in Node  PROVE Sure(path, C, l, e)
        BY DEF Assured
      <4>1. Sound(path, air, n, {x}, e)
        BY <3>1 DEF Sound, IsWord
      <4>2. Sure(path, air, l, e)
        BY DEF Assured
      <4> QED  BY <1>3, <3>3, <4>1, <4>2, GrowKeeps
    <3>6. Told(path, C, n, d)
      <4> SUFFICES ASSUME NEW r \in Pairs, r[1] = n
                   PROVE  \E j \in 1 .. Len(C[r]) :
                            /\ Cuts(C[r][j], d, path[n][d].sn)
                            /\ \A i \in 1 .. Len(C[r]) : i > j => ~IsWord(C[r][i], d)
        BY DEF Told
      <4> DEFINE j == Len(air[r]) + 1
      <4>1. j \in 1 .. Len(C[r]) /\ C[r][j] = x
        BY <3>3
      <4>2. Cuts(x, d, path[n][d].sn)
        BY <2>4, <3>1 DEF Cuts
      <4>3. ASSUME NEW i \in 1 .. Len(C[r]), i > j  PROVE ~IsWord(C[r][i], d)
        <5>1. Len(air[r]) \in Nat
          BY <1>3, AirIs
        <5>2. i > Len(air[r])
          BY <4>3, <5>1
        <5>3. C[r][i] = x
          BY <3>3, <5>2 DEF Grown
        <5> QED  BY <3>1, <5>3 DEF IsWord
      <4> QED  BY <4>1, <4>2, <4>3
    <3>7. Sharp(path, C, d, sn[d])
      <4>1. ASSUME NEW r \in Pairs, NEW z \in ToSet(C[r])  PROVE z \in ToSet(air[r]) \/ z = x
        <5>1. \A v : v \in ToSet(C[r]) <=> \E i \in 1 .. Len(C[r]) : v = C[r][i]
          BY <3>3, AirIs
        <5>2. PICK i \in 1 .. Len(C[r]) : z = C[r][i]
          BY <4>1, <5>1
        <5>3. Len(air[r]) \in Nat
          BY <1>3, AirIs
        <5>4. CASE i > Len(air[r])
          BY <3>3, <5>2, <5>4 DEF Grown
        <5>5. CASE ~(i > Len(air[r]))
          <6>1. i \in 1 .. Len(air[r]) /\ z = air[r][i]
            BY <3>3, <5>2, <5>3, <5>5 DEF Grown
          <6> QED  BY <1>3, <6>1, AirIs
        <5> QED  BY <5>4, <5>5
      <4>2. m.sn \in Window(sn[d]) \/ m.sn = Up(sn[d])
        BY <1>2, <2>7 DEF Sharp
      <4> HIDE DEF d
      <4> QED  BY <2>7, <3>1, <4>1, <4>2 DEF Sharp
    <3>8. air' \in Airs /\ C[q] # <<>> /\ Head(C[q]).about = d
      <4>1. air' \in Airs
        BY PerrIs DEF Adds
      <4> QED  BY <1>2, <3>4, <4>1
    <3> HIDE DEF d
    <3>9. d \in Node
      BY <1>2 DEF d
    <3> QED  BY <2>3, <2>6, <3>3, <3>4, <3>5, <3>6, <3>7, <3>8, <3>9, BrokenSure
  <2>9. CASE ~MayPass(n, m)
    <3>1. air' = am
      BY <2>2, <2>9
    <3>2. Unheard(path, air, n, d)
      <4>1. CASE n \in Relays
        <5>1. ~(m.ttl > 1)
          BY <2>9, <4>1 DEF MayPass
        <5>2. Arrived(q[2], q[1], "perr") /\ q[1] \in peers[q[2]] /\ Breaks(q[2], q[1], Head(air[q]))
          BY <1>1, <1>2, <2>1
        <5>3. ~Counted(n, d)
          BY <1>2, <5>1, <5>2 DEF Reach
        <5> QED  BY <1>2, <1>3, <5>3, UncountedUnheard
      <4>2. CASE n \notin Relays
        <5>1. Sure(path, air, l, d)
          BY <1>2 DEF Assured
        <5> QED  BY <1>2, <1>3, <2>3, <4>2, <5>1, BridgeUnheard
      <4> QED  BY <4>1, <4>2
    <3> HIDE DEF d
    <3>3. d \in Node /\ Head(air[q]).about = d
      BY <1>2 DEF d
    <3> QED  BY <1>2, <1>3, <1>4, <2>3, <2>6, <2>7, <3>1, <3>2, <3>3, BrokenSure
  <2> QED  BY <2>8, <2>9
<1> QED  BY <1>6, <1>7

\* Paths that die with neighbour q[2] of q[1].
LEMMA LostPaths ==
  ASSUME Types, NEW q \in Pairs, PeerLost(q[1], q[2])
  PROVE  /\ \A k, e \in Node : ~(k = q[1] /\ e \in Through(q[1], q[2])) => path'[k][e] = path[k][e]
         /\ \A e \in Through(q[1], q[2]) : e \in Node /\ e # q[1] /\ ~Liv(path', q[1], e)
<1> DEFINE n == q[1]
           T == Through(n, q[2])
           Gone(d) == [path[n][d] EXCEPT !.active = FALSE, !.sn = LostAt(n, d)]
           t == [d \in Node |-> IF d \in T THEN Gone(d) ELSE path[n][d]]
<1>1. n \in Node /\ path \in Tables /\ T \subseteq Node /\ n \notin T /\ \A d \in T : path[n][d] # NoPath
  BY PairIs DEF Types, Through, Held, Kept
<1>2. path' = [path EXCEPT ![n] = t]
  BY DEF PeerLost
<1>3. ASSUME NEW d \in T  PROVE Gone(d).active = FALSE
  <2>1. path[n][d] \in PathType
    BY <1>1, PathIs
  <2> QED  BY <2>1 DEF PathType
<1> HIDE DEF T, Gone
<1>4. \A d \in Node : t[d] = IF d \in T THEN Gone(d) ELSE path[n][d]
  OBVIOUS
<1> HIDE DEF t
<1>5. path'[n] = t /\ \A k \in Node : k # n => path'[k] = path[k]
  BY <1>1, <1>2 DEF Tables
<1>6. \A k, e \in Node : ~(k = n /\ e \in T) => path'[k][e] = path[k][e]
  BY <1>4, <1>5
<1>7. \A e \in T : e \in Node /\ e # n /\ ~Liv(path', n, e)
  BY <1>1, <1>3, <1>4, <1>5 DEF Liv
<1> QED  BY <1>6, <1>7 DEF T

\* What q[1] then says: that those of ds are gone.
LEMMA LostFrames ==
  ASSUME Types, NEW q \in Pairs, PeerLost(q[1], q[2])
  PROVE  \E ds \in Announced(q[1], q[2]) : \E ms \in Seq(FrameType) :
           /\ air' = Group(air, q[1], ms) /\ \A x \in ToSet(ms) : x.kind = "perr"
           /\ \A d \in ds : \E i \in 1 .. Len(ms) :
                ms[i].kind = "perr" /\ ms[i].about = d /\ ms[i].sn = Up(path[q[1]][d].sn)
<1> DEFINE n == q[1]
           p == q[2]
           T == Through(n, p)
<1>1. n \in Node /\ path \in Tables /\ T \subseteq Node /\ n \notin T /\ \A d \in T : path[n][d] # NoPath
  BY PairIs DEF Types, Through, Held, Kept
<1>2. ASSUME NEW d \in T  PROVE LostAt(n, d) \in Sn /\ LostAt(n, d) = Up(path[n][d].sn)
  <2>1. path[n][d].sn \in Sn
    BY <1>1, PathIs
  <2> QED  BY <2>1, UpIs DEF LostAt
<1>5. PICK ds \in Announced(n, p) :
        air' = Group(air, n, [i \in 1 .. Cardinality(ds) |-> Perr(SetToSeq(ds)[i], LostAt(n, SetToSeq(ds)[i]), Ttl)])
  BY DEF PeerLost
<1> DEFINE c == Cardinality(ds)
           ps == SetToSeq(ds)
           ms == [i \in 1 .. c |-> Perr(ps[i], LostAt(n, ps[i]), Ttl)]
<1>6. ds \subseteq T
  BY DEF Announced
<1>7. c \in Nat /\ ps \in [1 .. c -> ds] /\ \A d \in ds : \E i \in 1 .. c : ps[i] = d
  <2>1. IsFiniteSet(ds)
    BY <1>1, <1>6, Constants, FS_Subset
  <2> QED  BY <2>1, InOrder
<1> HIDE DEF c, ps, T
<1>8. ASSUME NEW i \in 1 .. c
      PROVE  ms[i] \in FrameType /\ ms[i].kind = "perr" /\ ms[i].about = ps[i] /\ ms[i].sn = Up(path[n][ps[i]].sn)
  <2>1. ps[i] \in T /\ ps[i] \in Node /\ LostAt(n, ps[i]) \in Sn /\ LostAt(n, ps[i]) = Up(path[n][ps[i]].sn)
    BY <1>1, <1>2, <1>6, <1>7
  <2>2. ms[i] = Perr(ps[i], LostAt(n, ps[i]), Ttl)
    OBVIOUS
  <2> HIDE DEF ms
  <2>3. ms[i].about = ps[i] /\ ms[i].kind = "perr" /\ ms[i].sn = LostAt(n, ps[i])
    BY <2>2 DEF Perr, Frame
  <2>4. ms[i] \in FrameType
    BY <2>1, <2>2, FramesFit
  <2> QED  BY <2>1, <2>3, <2>4
<1>9. ms \in Seq(FrameType) /\ Len(ms) = c
  BY <1>7, <1>8
<1>11. air' = Group(air, n, ms)
  BY <1>5 DEF c, ps
<1> HIDE DEF ms
<1>10. \A x \in ToSet(ms) : x.kind = "perr"
  BY <1>8, <1>9, SetOfSeq
<1>12. \A d \in ds : \E i \in 1 .. Len(ms) : ms[i].kind = "perr" /\ ms[i].about = d /\ ms[i].sn = Up(path[n][d].sn)
  BY <1>7, <1>8, <1>9
<1>13. ds \in Announced(n, p)
  OBVIOUS
<1> QED  BY <1>9, <1>10, <1>11, <1>12, <1>13

\* With no more paths through a neighbour than the burst has frames, a relay announces all.
LEMMA AllAnnounced ==
  ASSUME Types, Reach, spent["losses"] = 0, NEW q \in Pairs, q[1] \in Relays, NEW ds \in Announced(q[1], q[2])
  PROVE  ds = Through(q[1], q[2])
<1> DEFINE T == Through(q[1], q[2])
<1>1. Cardinality(T) <= PerrBurst
  BY DEF Reach
<1>2. T \subseteq Node
  BY DEF Through, Held
<1>3. ds \subseteq T /\ (Cardinality(ds) = PerrBurst \/ ds = T)
  BY DEF Announced
<1> HIDE DEF T
<1>4. IsFiniteSet(T)
  BY <1>2, Constants, FS_Subset
<1>5. /\ Cardinality(ds) <= Cardinality(T) /\ (Cardinality(ds) = Cardinality(T) => ds = T)
      /\ Cardinality(ds) \in Nat /\ Cardinality(T) \in Nat /\ PerrBurst \in Nat
  BY <1>3, <1>4, FS_Subset, FS_CardinalityType, HwmpAssumption
<1> QED  BY <1>1, <1>3, <1>5 DEF T

\* n's path to d dies; those who rely on it have been told.
LEMMA ToldByAll ==
  ASSUME NEW A \in Airs, NEW n \in Node, NEW d \in Node, NEW ms \in Seq(FrameType),
         \A x \in ToSet(ms) : x.kind = "perr",
         path[n][d].sn \in Sn,
         NEW i \in 1 .. Len(ms), ms[i].kind = "perr", ms[i].about = d, ms[i].sn = Up(path[n][d].sn)
  PROVE  Told(path, Group(A, n, ms), n, d)
<1> DEFINE B == Group(A, n, ms)
<1>1. /\ Grown(A, B, n, ToSet(ms))
      /\ \A q \in Pairs : \A k \in 1 .. Len(ms) :
           q[1] = n => Len(A[q]) + k \in 1 .. Len(B[q]) /\ B[q][Len(A[q]) + k] = ms[k]
  BY GroupGrown
<1> HIDE DEF B
<1>2. Cuts(ms[i], d, path[n][d].sn)
  <2> DEFINE s == path[n][d].sn
  <2>1. s \in Window(s) /\ s \in Sn
    BY BehindIs, HalfIs DEF Window, Behind, Half
  <2> HIDE DEF s
  <2>2. Newer(Up(s), s)
    BY <2>1, UpIsNewer
  <2> QED  BY <2>2 DEF Cuts, s
<1>3. ASSUME NEW q \in Pairs, q[1] = n
      PROVE  \E j \in 1 .. Len(B[q]) : /\ Cuts(B[q][j], d, path[n][d].sn)
                                      /\ \A k \in 1 .. Len(B[q]) : k > j => ~IsWord(B[q][k], d)
  <2> DEFINE j == Len(A[q]) + i
  <2>1. j \in 1 .. Len(B[q]) /\ B[q][j] = ms[i]
    BY <1>1, <1>3
  <2>2. j > Len(A[q]) /\ j \in Nat /\ Len(A[q]) \in Nat
    BY AirIs
  <2> HIDE DEF j
  <2>3. ASSUME NEW k \in 1 .. Len(B[q]), k > j  PROVE ~IsWord(B[q][k], d)
    <3>1. B[q][k] \in ToSet(ms)
      BY <1>1, <2>2, <2>3 DEF Grown
    <3> QED  BY <3>1 DEF IsWord
  <2> QED  BY <1>2, <2>1, <2>3
<1> QED  BY <1>3 DEF Told, B

LEMMA QuitsSure ==
  ASSUME Types, Reach, Sharply, Sharply', spent["losses"] = 0, NEW q \in Pairs, Quits(q),
         NEW l, Assured(path, air, l)
  PROVE  Assured(path', air', l)
<1> DEFINE n == q[1]
           T == Through(q[1], q[2])
<1>1. PeerLost(q[1], q[2]) /\ n \in Node /\ path \in Tables /\ air \in Airs
  BY PairIs DEF Quits, Types
<1>2. path' \in Tables /\ sn' = sn
  BY <1>1, LostIs
<1>3. /\ \A k, e \in Node : ~(k = n /\ e \in T) => path'[k][e] = path[k][e]
      /\ \A e \in T : e \in Node /\ e # n /\ ~Liv(path', n, e)
  BY <1>1, LostPaths
<1>4. PICK ds \in Announced(q[1], q[2]), ms \in Seq(FrameType) :
        /\ air' = Group(air, n, ms) /\ \A x \in ToSet(ms) : x.kind = "perr"
        /\ \A d \in ds : \E i \in 1 .. Len(ms) :
             ms[i].kind = "perr" /\ ms[i].about = d /\ ms[i].sn = Up(path[n][d].sn)
  BY <1>1, LostFrames
<1>5. n \in Relays => ds = T
  BY AllAnnounced
<1> SUFFICES ASSUME NEW d \in Node  PROVE Sure(path', air', l, d)
  BY DEF Assured
<1>6. Sure(path, air', l, d) /\ air' \in Airs
  <2>1. Grown(air, Group(air, n, ms), n, ToSet(ms))
    BY <1>1, GroupGrown
  <2> DEFINE N == ToSet(ms)
  <2>2. Grown(air, air', n, N)
    BY <1>4, <2>1
  <2>3. Sound(path, air, n, N, d)
    BY <1>4 DEF Sound, IsWord
  <2>4. Sure(path, air, l, d)
    BY DEF Assured
  <2> HIDE DEF N
  <2>5. Sure(path, air', l, d)
    BY <1>1, <2>2, <2>3, <2>4, GrowKeeps
  <2> QED  BY <2>2, <2>5 DEF Grown
<1>7. CASE d \in T /\ Liv(path, n, d)
  <2>1. Only(path, path', n, d) /\ ~Liv(path', n, d) /\ n # d
    BY <1>3, <1>7 DEF Only
  <2>2. path[n][d].sn \in Sn
    BY <1>1, <1>7, PathIs DEF Liv
  <2> DEFINE y == sn[d]
  <2>3. Sharp(path, air', d, y)
    <3>1. Sharp(path', air', d, sn'[d]) /\ Sharp(path, air, d, sn[d]) /\ sn' = sn
      BY <1>2 DEF Sharply
    <3> QED  BY <3>1 DEF Sharp
  <2>4. Told(path, air', n, d) \/ Unheard(path, air', n, d)
    <3>1. CASE n \in Relays
      <4>1. PICK i \in 1 .. Len(ms) : ms[i].kind = "perr" /\ ms[i].about = d /\ ms[i].sn = Up(path[n][d].sn)
        BY <1>4, <1>5, <1>7, <3>1
      <4> HIDE DEF n
      <4>2. Told(path, Group(air, n, ms), n, d)
        BY <1>1, <1>4, <2>2, <4>1, ToldByAll
      <4> QED  BY <1>4, <4>2
    <3>2. CASE n \notin Relays
      BY <1>1, <1>6, <2>1, <3>2, BridgeUnheard
    <3> QED  BY <3>1, <3>2
  <2> HIDE DEF y
  <2> QED  BY <1>1, <1>2, <1>6, <1>7, <2>1, <2>3, <2>4, KillKeeps
<1>8. CASE ~(d \in T /\ Liv(path, n, d))
  <2>1. Alike(path, path', d)
    <3> SUFFICES ASSUME NEW k \in Node
                 PROVE  (Liv(path', k, d) <=> Liv(path, k, d)) /\ (Liv(path, k, d) => path'[k][d] = path[k][d])
      BY DEF Alike
    <3>1. CASE k = n /\ d \in T
      BY <1>3, <1>8, <3>1
    <3>2. CASE ~(k = n /\ d \in T)
      BY <1>3, <3>2 DEF Liv
    <3> QED  BY <3>1, <3>2
  <2> QED  BY <1>1, <1>6, <2>1, AlikeKeeps
<1> QED  BY <1>7, <1>8

LEMMA AgesSure ==
  ASSUME Types, Sharply, Ages, NEW l, l \in BOOLEAN, Assured(path, air, l),
         \A n, d \in Node : Lapse(n, d) => l
  PROVE  Assured(path', air', l)
<1>1. air' = air /\ path \in Tables /\ air \in Airs /\ path' \in Tables /\ Kept(path)
  BY AgesTypes DEF Ages, Types
<1> SUFFICES ASSUME NEW e \in Node  PROVE Sure(path', air, l, e)
  BY <1>1 DEF Assured
<1>2. Sure(path, air, l, e)
  BY DEF Assured
<1>3. CASE path' = path
  BY <1>2, <1>3
<1>4. ASSUME NEW n \in Node, NEW d \in Node, Lapse(n, d)  PROVE Sure(path', air, l, e)
  <2>1. /\ path[n][d] # NoPath /\ path' = [path EXCEPT ![n][d].live = FALSE]
        /\ \A m \in Sayings(d) : Newer(m.sn, path[n][d].sn)
    BY <1>4 DEF Lapse, Held
  <2>2. path[n][d] \in PathType
    BY <1>1, <2>1, PathIs
  <2>3. /\ \A k, f \in Node : ~(k = n /\ f = d) => path'[k][f] = path[k][f]
        /\ path'[n][d] = [path[n][d] EXCEPT !.live = FALSE]
    BY <1>1, <2>1 DEF Tables
  <2>4. ~Liv(path', n, d)
    BY <2>2, <2>3 DEF PathType, Liv
  <2>5. CASE e = d /\ Liv(path, n, d)
    <3>1. Only(path, path', n, d)
      BY <2>3 DEF Only
    <3>2. Fresher(air, d, path[n][d].sn)
      BY <2>1 DEF Fresher, IsWord, Sayings
    <3>3. n # d
      BY <1>1, <2>1 DEF Kept
    <3> DEFINE y == sn[d]
    <3>4. Sharp(path, air, d, y)
      BY DEF Sharply
    <3> HIDE DEF y
    <3>5. Sure(path, air, l, d)
      BY <1>2, <2>5
    <3>6. Sure(path', air, TRUE, d)
      BY <1>1, <2>4, <2>5, <3>1, <3>2, <3>3, <3>4, <3>5, LapseSure
    <3>7. l = TRUE
      BY <1>4
    <3> QED  BY <2>5, <3>6, <3>7
  <2>6. CASE ~(e = d /\ Liv(path, n, d))
    <3>1. Alike(path, path', e)
      BY <2>3, <2>4, <2>6 DEF Alike, Liv
    <3> QED  BY <1>1, <1>2, <3>1, AlikeKeeps
  <2> QED  BY <2>5, <2>6
<1>5. ASSUME NEW n \in Node, NEW d \in Node, Expire(n, d)  PROVE Sure(path', air, l, e)
  <2>1. ~path[n][d].live /\ path' = [path EXCEPT ![n][d] = NoPath]
    BY <1>5 DEF Expire
  <2>2. (\A k, f \in Node : ~(k = n /\ f = d) => path'[k][f] = path[k][f]) /\ path'[n][d] = NoPath
    BY <1>1, <2>1 DEF Tables
  <2>3. Alike(path, path', e)
    BY <2>1, <2>2 DEF Alike, Liv
  <2> QED  BY <1>1, <1>2, <2>3, AlikeKeeps
<1> QED  BY <1>3, <1>4, <1>5 DEF Ages

\* A live path is as it was, or was just heard of from a peer.
HeardLive(P, A, P1, e) ==
  \A k \in Node : Liv(P1, k, e) =>
    \/ P1[k][e] = P[k][e]
    \/ /\ P1[k][e].nh \in peers[k]
       /\ \E q \in Pairs : \E x \in ToSet(A[q]) : IsWord(x, e) /\ x.sn = P1[k][e].sn

LEMMA LearnsLive ==
  ASSUME Types, NEW q \in Pairs, air[q] # <<>>, NEW m, Learns(q[2], q[1], m), NEW e \in Node
  PROVE  HeardLive(path, air, path', e)
<1> DEFINE n == q[2]
<1>1. /\ m \in FrameType /\ m.kind # "perr" /\ q[1] \in peers[n] /\ Learnt(path, path', n, q[1], m)
      /\ n \in Node
  BY PairIs DEF Learns
<1>2. m \in ToSet(air[q])
  <2>1. air[<<q[1], n>>] = air[q]
    BY PairIs, Zenon
  <2> QED  BY <2>1 DEF Learns
<1> SUFFICES ASSUME NEW k \in Node, Liv(path', k, e)
             PROVE  \/ path'[k][e] = path[k][e]
                    \/ /\ path'[k][e].nh \in peers[k]
                       /\ \E r \in Pairs : \E x \in ToSet(air[r]) : IsWord(x, e) /\ x.sn = path'[k][e].sn
  BY DEF HeardLive
<1>3. CASE ~(k = n /\ e = m.about)
  BY <1>1, <1>3 DEF Learnt, Liv
<1>4. CASE k = n /\ e = m.about
  <2>1. path'[k][e].sn = m.sn /\ path'[k][e].nh = q[1]
    BY <1>1, <1>4 DEF Learnt, Path
  <2>2. IsWord(m, e)
    BY <1>1, <1>4 DEF IsWord
  <2> QED  BY <1>1, <1>2, <1>4, <2>1, <2>2
<1> QED  BY <1>3, <1>4

LEMMA StepLive ==
  ASSUME Types, Moves, NEW e \in Node
  PROVE  HeardLive(path, air, path', e)
<1>1. ASSUME path' = path  PROVE HeardLive(path, air, path', e)
  BY <1>1 DEF HeardLive
<1>2. ASSUME NEW n \in Node, SpeaksUp(n) \/ (\E x \in FrameType : Defers(n, x)) \/ SendsQueued(n)
      PROVE  HeardLive(path, air, path', e)
  BY <1>1, <1>2 DEF SpeaksUp, Defers, SendsQueued, Speaks, Goes
<1>3. ASSUME NEW q \in Pairs, Takes(q)  PROVE HeardLive(path, air, path', e)
  <2>1. CASE Ignored(q[2], q[1])
    BY <1>1, <2>1 DEF Ignored
  <2>2. CASE ReceivePerr(q[2], q[1])
    BY <2>2, PerrIs DEF HeardLive
  <2>3. ASSUME NEW m, Learns(q[2], q[1], m)  PROVE HeardLive(path, air, path', e)
    BY <1>3, <2>3, LearnsLive DEF Takes
  <2> QED  BY <1>3, <2>1, <2>2, <2>3 DEF Takes, Passes, Answers
<1>4. ASSUME NEW q \in Pairs, Quits(q)  PROVE HeardLive(path, air, path', e)
  BY <1>4, LostPaths DEF Quits, HeardLive
<1>5. ASSUME Ages  PROVE HeardLive(path, air, path', e)
  <2>0. path \in Tables
    BY DEF Types
  <2>1. ASSUME NEW n \in Node, NEW d \in Node, Lapse(n, d)  PROVE HeardLive(path, air, path', e)
    <3>1. path[n][d] # NoPath /\ path' = [path EXCEPT ![n][d].live = FALSE]
      BY <2>1 DEF Lapse, Held
    <3>2. path[n][d] \in PathType
      BY <2>0, <3>1, PathIs
    <3>3. /\ \A k, f \in Node : ~(k = n /\ f = d) => path'[k][f] = path[k][f]
          /\ path'[n][d] = [path[n][d] EXCEPT !.live = FALSE]
      BY <2>0, <3>1 DEF Tables
    <3>4. ~Liv(path', n, d)
      BY <3>2, <3>3 DEF PathType, Liv
    <3> QED  BY <3>3, <3>4 DEF HeardLive
  <2>2. ASSUME NEW n \in Node, NEW d \in Node, Expire(n, d)  PROVE HeardLive(path, air, path', e)
    <3>1. path' = [path EXCEPT ![n][d] = NoPath]
      BY <2>2 DEF Expire
    <3>2. (\A k, f \in Node : ~(k = n /\ f = d) => path'[k][f] = path[k][f]) /\ path'[n][d] = NoPath
      BY <2>0, <3>1 DEF Tables
    <3> QED  BY <3>2 DEF HeardLive, Liv
  <2> QED  BY <1>1, <1>5, <2>1, <2>2 DEF Ages
<1> QED  BY <1>2, <1>3, <1>4, <1>5 DEF Moves

\* Peers go only where one is lost.
LEMMA PeersGo ==
  ASSUME Types, [Next]_vars
  PROVE  (\E q \in Pairs : PeerLost(q[1], q[2])) \/ \A n \in Node : peers[n] \subseteq peers'[n]
<1>1. ASSUME NEW q \in Pairs, PeerFound(q[1], q[2])  PROVE \A n \in Node : peers[n] \subseteq peers'[n]
  <2>1. peers' = [peers EXCEPT ![q[1]] = @ \cup {q[2]}, ![q[2]] = @ \cup {q[1]}]
    BY <1>1 DEF PeerFound
  <2> QED  BY <2>1 DEF Types
<1>2. ASSUME NEW f \in Flows, Ask(f[1], f[2]) \/ AskOffLoop(f[1], f[2])  PROVE peers' = peers
  BY <1>2 DEF Ask, AskOffLoop
<1>3. ASSUME NEW n \in Node, Drain(n) \/ KeepAlive(n)  PROVE peers' = peers
  BY <1>3 DEF Drain, KeepAlive
<1>4. ASSUME NEW q \in Pairs,
             ReceivePreq(q[2], q[1]) \/ ReceivePrep(q[2], q[1]) \/ ReceivePerr(q[2], q[1]) \/ Lose(q[2], q[1])
      PROVE  peers' = peers
  BY <1>4 DEF ReceivePreq, ReceivePrep, ReceivePerr, Lose
<1>5. ASSUME NEW n \in Node, NEW d \in Node, Lapse(n, d) \/ Expire(n, d)  PROVE peers' = peers
  BY <1>5 DEF Lapse, Expire
<1>6. ASSUME UNCHANGED vars  PROVE peers' = peers
  BY <1>6 DEF vars
<1> QED  BY <1>1, <1>2, <1>3, <1>4, <1>5, <1>6 DEF Next

LEMMA JoinedStep ==
  ASSUME Types, Joined, [Next]_vars
  PROVE  Joined'
<1> SUFFICES ASSUME NEW n \in Node, NEW d \in Node, Liv(path', n, d)  PROVE path'[n][d].nh \in peers'[n]
  BY DEF Joined
<1>1. ASSUME NEW q \in Pairs, PeerLost(q[1], q[2])  PROVE path'[n][d].nh \in peers'[n]
  <2>1. ~(n = q[1] /\ d \in Through(q[1], q[2])) /\ path'[n][d] = path[n][d]
    BY <1>1, LostPaths
  <2>2. path[n][d].nh \in peers[n] /\ path[n][d] # NoPath /\ path[n][d].active
    BY <2>1 DEF Joined, Liv
  <2>3. peers' = [peers EXCEPT ![q[1]] = @ \ {q[2]}] /\ peers \in [Node -> SUBSET Node]
    BY <1>1 DEF PeerLost, Types
  <2>4. n = q[1] => path[n][d].nh # q[2]
    BY <2>1, <2>2 DEF Through, Held
  <2> QED  BY <2>1, <2>2, <2>3, <2>4
<1>2. ASSUME peers[n] \subseteq peers'[n]  PROVE path'[n][d].nh \in peers'[n]
  <2>1. HeardLive(path, air, path', d)
    BY Steps, StepLive
  <2>2. path'[n][d] = path[n][d] \/ path'[n][d].nh \in peers[n]
    BY <2>1 DEF HeardLive
  <2> QED  BY <1>2, <2>2 DEF Joined, Liv
<1> QED  BY <1>1, <1>2, PeersGo

(***************************************************************************)
(* What is queued with the last number drawn.                              *)
(***************************************************************************)
LEMMA VoicedStep ==
  ASSUME NEW P, NEW A, NEW P1, NEW B, NEW e, NEW n, NEW M, HeardLive(P, A, P1, e), Spread(A, B, n, M),
         \A x \in M : IsWord(x, e) => Voiced(P, A, e, x.sn), NEW s, Voiced(P1, B, e, s)
  PROVE  Voiced(P, A, e, s)
<1>1. ASSUME NEW k \in Node, Liv(P1, k, e), P1[k][e].sn = s  PROVE Voiced(P, A, e, s)
  BY <1>1 DEF HeardLive, Voiced, Liv
<1>2. ASSUME NEW q \in Pairs, NEW x \in ToSet(B[q]), IsWord(x, e), x.sn = s  PROVE Voiced(P, A, e, s)
  BY <1>2 DEF Spread, Voiced
<1> QED  BY <1>1, <1>2 DEF Voiced

LEMMA VoicedRecent ==
  ASSUME Sharply, NEW e \in Node, NEW s, Voiced(path, air, e, s)
  PROVE  s \in Window(sn[e])
<1>1. Sharp(path, air, e, sn[e])
  BY DEF Sharply
<1> QED  BY <1>1 DEF Sharp, Voiced, IsWord

\* No number is drawn and none comes into use.
LEMMA UnvoicedSame ==
  ASSUME Unvoiced, sn' = sn, outbox' = outbox,
         \A e \in Node : \A s : Voiced(path', air', e, s) => Voiced(path, air, e, s)
  PROVE  Unvoiced'
BY DEF Unvoiced

\* n draws a number.
LEMMA UnvoicedDrawn ==
  ASSUME Types, Unvoiced, Sharply, OwnRecent, NEW n \in Node, NEW k \in Nat, k > 0, 2 * k <= SnMod,
         sn' = [sn EXCEPT ![n] = Later(@, k)], \A e \in Node : e # n => outbox'[e] = outbox[e],
         ToSet(outbox'[n]) \subseteq ToSet(outbox[n]) \/ \A s : Voiced(path', air', n, s) => Voiced(path, air, n, s),
         \A e \in Node : e # n => \A s : Voiced(path', air', e, s) => Voiced(path, air, e, s)
  PROVE  Unvoiced'
<1>1. sn[n] \in Sn /\ sn'[n] = Later(sn[n], k) /\ \A e \in Node : e # n => sn'[e] = sn[e]
  BY DEF Types
<1>2. sn'[n] \notin Window(sn[n])
  BY <1>1, LaterIs
<1>3. ASSUME NEW e \in Node, NEW m \in ToSet(outbox'[e]), m.sn = sn'[e]  PROVE ~Voiced(path', air', e, sn'[e])
  <2>1. CASE e # n
    BY <1>1, <1>3, <2>1 DEF Unvoiced
  <2>2. CASE e = n
    <3>1. CASE ToSet(outbox'[n]) \subseteq ToSet(outbox[n])
      <4>1. m.sn \in Window(sn[n])
        BY <1>3, <2>2, <3>1 DEF OwnRecent
      <4> QED  BY <1>2, <1>3, <2>2, <4>1
    <3>2. CASE \A s : Voiced(path', air', n, s) => Voiced(path, air, n, s)
      <4>1. ~Voiced(path, air, n, sn'[n])
        BY <1>2, VoicedRecent
      <4> QED  BY <2>2, <3>2, <4>1
    <3> QED  BY <3>1, <3>2
  <2> QED  BY <2>1, <2>2
<1> QED  BY <1>3 DEF Unvoiced

LEMMA UnvoicedSpeaks ==
  ASSUME Types, Unvoiced, Sharply, OwnRecent, Moves, NEW n \in Node, NEW k, NEW M \in SUBSET FrameType, Speaks(n, k, M),
         \A e \in Node : e # n => outbox'[e] = outbox[e], air' = air \/ ToSet(outbox'[n]) \subseteq ToSet(outbox[n])
  PROVE  Unvoiced'
<1>1. /\ k \in Nat /\ k > 0 /\ 2 * k <= SnMod /\ path' = path /\ sn' = [sn EXCEPT ![n] = Later(@, k)]
      /\ Adds(air, air', n, M) /\ \A m \in M : m.about = n
  BY DEF Speaks
<1>2. Spread(air, air', n, M)
  BY <1>1, SpreadSame, AddsSpread DEF Types
<1>3. ASSUME NEW e \in Node, e # n, NEW s, Voiced(path', air', e, s)  PROVE Voiced(path, air, e, s)
  <2>1. \A x \in M : IsWord(x, e) => Voiced(path, air, e, x.sn)
    BY <1>1, <1>3 DEF IsWord
  <2>2. HeardLive(path, air, path', e)
    BY StepLive
  <2> QED  BY <1>2, <1>3, <2>1, <2>2, VoicedStep
<1>4. air' = air => \A s : Voiced(path', air', n, s) => Voiced(path, air, n, s)
  BY <1>1
<1> QED  BY <1>1, <1>3, <1>4, UnvoicedDrawn

LEMMA UnvoicedQueued ==
  ASSUME Types, Rises, Unvoiced, OwnRecent, Moves, NEW n \in Node, SendsQueued(n)
  PROVE  Unvoiced'
<1> DEFINE m == Head(outbox[n])
<1>1. m \in FrameType /\ Shorter(n) /\ sn' = sn /\ m.sn = sn[n] /\ Adds(air, air', n, {m})
  BY DEF SendsQueued, Goes
<1>2. outbox[n] # <<>> /\ outbox[n] \in Seq(FrameType) /\ outbox'[n] = Tail(outbox[n])
  BY <1>1 DEF Shorter, Types, Queues
<1>3. m \in ToSet(outbox[n])
  BY <1>2, SetOfTail
<1>4. m.about = n
  BY <1>3 DEF Types, Own1
<1>5. \A e \in Node : e # n => outbox'[e] = outbox[e]
  BY <1>1, DistinctSteps
<1>6. \A x \in ToSet(outbox'[n]) : x.sn # m.sn
  BY <1>2, DistinctTail DEF Rises
<1> HIDE DEF m
<1>7. Spread(air, air', n, {m})
  <2>1. {m} \subseteq FrameType
    BY <1>1
  <2> QED  BY <1>1, <2>1, SpreadSame, AddsSpread DEF Types
<1>8. ASSUME NEW e \in Node, e # n, NEW s, Voiced(path', air', e, s)  PROVE Voiced(path, air, e, s)
  <2>1. \A x \in {m} : IsWord(x, e) => Voiced(path, air, e, x.sn)
    BY <1>4, <1>8 DEF IsWord
  <2>2. HeardLive(path, air, path', e)
    BY StepLive
  <2> QED  BY <1>7, <1>8, <2>1, <2>2, VoicedStep
<1>9. ASSUME NEW e \in Node, NEW x \in ToSet(outbox'[e]), x.sn = sn'[e]  PROVE ~Voiced(path', air', e, sn'[e])
  <2>1. CASE e = n
    BY <1>1, <1>6, <1>9, <2>1
  <2>2. CASE e # n
    BY <1>1, <1>5, <1>8, <1>9, <2>2 DEF Unvoiced
  <2> QED  BY <2>1, <2>2
<1> QED  BY <1>9 DEF Unvoiced

\* Only words already in use are said.
LEMMA UnvoicedOther ==
  ASSUME Types, Unvoiced, Moves, sn' = sn, outbox' = outbox, NEW n, NEW M, Spread(air, air', n, M),
         \A x \in M : \A e \in Node : IsWord(x, e) => Voiced(path, air, e, x.sn)
  PROVE  Unvoiced'
<1>1. ASSUME NEW e \in Node, NEW s, Voiced(path', air', e, s)  PROVE Voiced(path, air, e, s)
  <2>1. HeardLive(path, air, path', e)
    BY StepLive
  <2> QED  BY <1>1, <2>1, VoicedStep
<1> QED  BY <1>1, UnvoicedSame

LEMMA UnvoicedTakes ==
  ASSUME Types, Unvoiced, Sharply, OwnRecent, Moves, NEW q \in Pairs, Takes(q)
  PROVE  Unvoiced'
<1> DEFINE n == q[2]
           am == Rest(q[2], q[1])
<1>1. outbox' = outbox /\ air[q] # <<>> /\ n \in Node /\ air[<<q[1], q[2]>>] = air[q]
  <2>1. air[<<q[1], q[2]>>] = air[q]
    BY PairIs, Zenon
  <2> QED  BY <2>1, PairIs DEF Takes
<1>2. Spread(air, am, n, {})
  BY <1>1, FewerRest
<1> HIDE DEF am
<1>3. CASE Ignored(q[2], q[1])
  <2>1. sn' = sn /\ air' = am
    BY <1>3 DEF Ignored, am
  <2>2. Spread(air, air', n, {})
    BY <1>2, <2>1
  <2> QED  BY <1>1, <2>1, <2>2, UnvoicedOther
<1>4. CASE ReceivePerr(q[2], q[1])
  <2>1. PICK M \in SUBSET FrameType : Adds(am, air', n, M) /\ \A x \in M : x.kind = "perr"
    BY <1>4, PerrIs DEF am
  <2>2. sn' = sn
    BY <1>4, PerrIs
  <2>3. Spread(air, air', n, M)
    BY <1>2, <2>1, AddsSpread
  <2>4. \A x \in M : \A e \in Node : IsWord(x, e) => Voiced(path, air, e, x.sn)
    BY <2>1 DEF IsWord
  <2> QED  BY <1>1, <2>2, <2>3, <2>4, UnvoicedOther
<1>5. ASSUME NEW m \in ToSet(air[q]), Passes(q[2], q[1], m)  PROVE Unvoiced'
  <2> DEFINE M == {Onward(m)} \cap FrameType
  <2>1. sn' = sn /\ Adds(am, air', n, M) /\ m \in FrameType /\ m.kind # "perr"
    BY <1>5 DEF Passes, Learns, am
  <2>2. M \subseteq FrameType /\ \A x \in M : x.about = m.about /\ x.sn = m.sn
    BY <2>1, OnwardIs
  <2> HIDE DEF M
  <2>3. Spread(air, air', n, M)
    BY <1>2, <2>1, <2>2, AddsSpread
  <2>4. \A x \in M : \A e \in Node : IsWord(x, e) => Voiced(path, air, e, x.sn)
    BY <2>1, <2>2 DEF IsWord, Voiced
  <2> QED  BY <1>1, <2>1, <2>3, <2>4, UnvoicedOther
<1>6. ASSUME NEW m \in ToSet(air[q]), Answers(q[2], q[1], m)  PROVE Unvoiced'
  <2> DEFINE x == Answer(n, m)
             M == {x}
  <2>1. sn' = [sn EXCEPT ![n] = Up(@)] /\ x \in FrameType /\ Adds(am, air', n, M)
    BY <1>6 DEF Answers, am
  <2>2. x.about = n
    BY DEF Answer, Prep, Frame
  <2>3. sn[n] \in Sn /\ Up(sn[n]) = Later(sn[n], 1)
    BY <1>1, UpIs DEF Types
  <2> HIDE DEF x
  <2>4. M \subseteq FrameType /\ \A z \in M : z.about = n
    BY <2>1, <2>2
  <2> HIDE DEF M
  <2>5. Spread(air, air', n, M)
    BY <1>2, <2>1, <2>4, AddsSpread
  <2>6. ASSUME NEW e \in Node, e # n, NEW s, Voiced(path', air', e, s)  PROVE Voiced(path, air, e, s)
    <3>1. \A z \in M : IsWord(z, e) => Voiced(path, air, e, z.sn)
      BY <2>4, <2>6 DEF IsWord
    <3>2. HeardLive(path, air, path', e)
      BY StepLive
    <3> QED  BY <2>5, <2>6, <3>1, <3>2, VoicedStep
  <2> DEFINE k == 1
  <2>7. k \in Nat /\ k > 0 /\ 2 * k <= SnMod /\ sn' = [sn EXCEPT ![n] = Later(@, k)]
    BY <2>1, <2>3, Constants
  <2>8. (\A e \in Node : e # n => outbox'[e] = outbox[e]) /\ ToSet(outbox'[n]) \subseteq ToSet(outbox[n])
    BY <1>1
  <2> HIDE DEF k, n
  <2> QED  BY <1>1, <2>6, <2>7, <2>8, UnvoicedDrawn
<1> QED  BY <1>3, <1>4, <1>5, <1>6 DEF Takes

LEMMA UnvoicedStep ==
  ASSUME Types, Rises, OwnRecent, Sharply, Unvoiced, Moves
  PROVE  Unvoiced'
<1>1. ASSUME NEW n \in Node, SpeaksUp(n)  PROVE Unvoiced'
  <2>1. PICK k \in Nat, M \in SUBSET FrameType : Speaks(n, k, M)
    BY <1>1 DEF SpeaksUp
  <2>2. /\ \A e \in Node : e # n => outbox'[e] = outbox[e]
        /\ ToSet(outbox'[n]) \subseteq ToSet(outbox[n])
    BY <1>1, DistinctSteps DEF SpeaksUp
  <2> QED  BY <2>1, <2>2, UnvoicedSpeaks
<1>2. ASSUME NEW n \in Node, NEW x, Defers(n, x)  PROVE Unvoiced'
  <2>1. Speaks(n, 1, {}) /\ air' = air /\ {} \in SUBSET FrameType
    BY <1>2 DEF Defers
  <2>2. \A e \in Node : e # n => outbox'[e] = outbox[e]
    BY <1>2 DEF Defers, Types, Queues
  <2> QED  BY <2>1, <2>2, UnvoicedSpeaks
<1>3. ASSUME NEW n \in Node, SendsQueued(n)  PROVE Unvoiced'
  BY <1>3, UnvoicedQueued
<1>4. ASSUME NEW q \in Pairs, Takes(q)  PROVE Unvoiced'
  BY <1>4, UnvoicedTakes
<1>5. ASSUME NEW q \in Pairs, Quits(q)  PROVE Unvoiced'
  <2>1. PeerLost(q[1], q[2])
    BY <1>5 DEF Quits
  <2>2. sn' = sn /\ outbox' = outbox
    BY <2>1, LostIs
  <2>3. PICK ms \in Seq(FrameType) : air' = Group(air, q[1], ms) /\ \A x \in ToSet(ms) : x.kind = "perr"
    BY <2>1, LostFrames
  <2>4. Spread(air, air', q[1], ToSet(ms))
    BY <2>3, QuitsAir
  <2>5. \A x \in ToSet(ms) : \A e \in Node : IsWord(x, e) => Voiced(path, air, e, x.sn)
    BY <2>3 DEF IsWord
  <2> QED  BY <2>2, <2>4, <2>5, UnvoicedOther
<1>6. ASSUME Ages  PROVE Unvoiced'
  <2>1. sn' = sn /\ air' = air /\ outbox' = outbox /\ air \in Airs
    BY <1>6 DEF Ages, Types
  <2>2. Spread(air, air', {}, {})
    BY <2>1, SpreadSame
  <2> QED  BY <2>1, <2>2, UnvoicedOther
<1> QED  BY <1>1, <1>2, <1>3, <1>4, <1>5, <1>6 DEF Moves

(***************************************************************************)
(* While no frame is lost: every step.                                     *)
(***************************************************************************)
LEMMA SureStep ==
  ASSUME Types, Joined, OwnRecent, OwnRecent', Reach, Sharply, Sharply', Unvoiced, Moves,
         spent["losses"] = 0, spent'["losses"] = 0,
         NEW l \in BOOLEAN, \A n, d \in Node : Lapse(n, d) => l, Assured(path, air, l)
  PROVE  Assured(path', air', l)
<1>1. ASSUME NEW n \in Node, SpeaksUp(n)  PROVE Assured(path', air', l)
  BY <1>1, SpeaksSure DEF SpeaksUp
<1>2. ASSUME NEW n \in Node, NEW x, Defers(n, x)  PROVE Assured(path', air', l)
  BY <1>2 DEF Defers, Speaks
<1>3. ASSUME NEW n \in Node, SendsQueued(n)  PROVE Assured(path', air', l)
  BY <1>3, QueuedSure
<1>4. ASSUME NEW q \in Pairs, Takes(q)  PROVE Assured(path', air', l)
  <2>1. air[q] # <<>>
    BY <1>4 DEF Takes
  <2>2. CASE Ignored(q[2], q[1])
    <3>1. path' = path /\ air' = Rest(q[2], q[1]) /\ ~Alarms(q[2], q[1])
      BY <2>2 DEF Ignored
    <3>2. air' \in Airs /\ \A r \in Pairs : air'[r] = IF r = q THEN Tail(air[q]) ELSE air[r]
      <4>1. Fewer(Rest(q[2], q[1]))
        BY <2>1, FewerRest
      <4>2. q = <<q[1], q[2]>> /\ air \in Airs
        BY PairIs DEF Types
      <4>3. Rest(q[2], q[1]) = [air EXCEPT ![q] = Tail(@)]
        BY <4>2, Zenon DEF Rest
      <4> QED  BY <3>1, <4>1, <4>2, <4>3 DEF Fewer, Airs
    <3>3. Assured(path, air', l)
      BY <2>1, <3>1, <3>2, IgnoredSure
    <3> QED  BY <3>1, <3>3
  <2>3. CASE ReceivePerr(q[2], q[1])
    BY <2>3, PerrSure
  <2>4. ASSUME NEW m, Passes(q[2], q[1], m)  PROVE Assured(path', air', l)
    BY <2>1, <2>4, PassesSure
  <2>5. ASSUME NEW m, Answers(q[2], q[1], m)  PROVE Assured(path', air', l)
    BY <2>1, <2>5, AnswersSure
  <2> QED  BY <1>4, <2>2, <2>3, <2>4, <2>5 DEF Takes
<1>5. ASSUME NEW q \in Pairs, Quits(q)  PROVE Assured(path', air', l)
  BY <1>5, QuitsSure
<1>6. ASSUME Ages  PROVE Assured(path', air', l)
  BY <1>6, AgesSure
<1> QED  BY <1>1, <1>2, <1>3, <1>4, <1>5, <1>6 DEF Moves

(***************************************************************************)
(* The theorems.                                                           *)
(***************************************************************************)
Calmly == spent["breaks"] = 0 => Calm
RouteInv == Types /\ Rises /\ Calmly

\* The inductive invariant: the types, what a node says of itself, and, while no neighbour is
\* lost, tables and air that close no ring.
LEMMA RouteKept == Spec /\ []Recent => []RouteInv
<1>1. Init => RouteInv
  BY Starts, RisesFirst, CalmFirst DEF RouteInv, Calmly
<1>2. RouteInv /\ Recent /\ Recent' /\ [Next]_vars => RouteInv'
  <2> SUFFICES ASSUME RouteInv, Recent, Recent', [Next]_vars  PROVE RouteInv'
    OBVIOUS
  <2>1. Types /\ Rises /\ Moves /\ Tallies /\ OwnRecent /\ OwnRecent'
    BY Steps DEF RouteInv, Recent
  <2>2. Types'
    BY <2>1, TypesStep
  <2>3. Rises'
    BY <2>1, <2>2, RisesStep
  <2>4. ASSUME spent'["breaks"] = 0  PROVE Calm'
    <3>1. spent["breaks"] = 0
      BY <2>1, <2>4 DEF Tallies, Budgets
    <3>2. AllRecent /\ AllRecent' /\ Calm
      BY <2>4, <3>1 DEF Recent, RouteInv, Calmly
    <3> QED  BY <2>1, <2>2, <2>4, <3>2, CalmStep
  <2> QED  BY <2>2, <2>3, <2>4 DEF RouteInv, Calmly
<1> QED  BY <1>1, <1>2, PTL DEF Spec

\* The inductive invariant while neighbours come and go: a path's next hop is a peer, and, with no
\* frame lost, it knows better or the news that it does not is on its way.
Surely == spent["losses"] = 0 => Unvoiced /\ Assured(path, air, spent["lapses"] # 0)
ReachInv == RouteInv /\ Joined /\ Surely

LEMMA SureFirst == Init => Joined /\ Surely
<1> SUFFICES ASSUME Init  PROVE Joined /\ Surely
  OBVIOUS
<1>1. \A n, d \in Node : path[n][d] = NoPath
  BY DEF Init
<1>2. \A q \in Pairs : air[q] = <<>> /\ Len(air[q]) = 0
  BY DEF Init
<1>3. \A e \in Node : ToSet(outbox[e]) = {}
  BY DEF Init, ToSet
<1>4. Joined /\ Unvoiced
  BY <1>1, <1>3 DEF Joined, Unvoiced, Liv
<1>5. \A d \in Node : Sure(path, air, spent["lapses"] # 0, d)
  BY <1>1, <1>2 DEF Sure, Backed, Footed, Liv
<1> QED  BY <1>4, <1>5 DEF Surely, Assured

LEMMA SharpNext == (Types /\ Reach /\ spent["losses"] = 0)' => Sharply'
BY SharpNow, PTL

LEMMA ReachStep == ReachInv /\ Recent /\ Recent' /\ Reach /\ Reach' /\ RouteInv' /\ [Next]_vars => ReachInv'
<1> SUFFICES ASSUME ReachInv, Recent, Recent', Reach, Reach', RouteInv', [Next]_vars  PROVE ReachInv'
  OBVIOUS
<1>1. Types /\ Rises /\ Joined /\ Surely /\ Moves /\ Tallies /\ OwnRecent /\ OwnRecent' /\ Types'
  BY Steps DEF ReachInv, RouteInv, Recent
<1>2. Joined'
  BY <1>1, JoinedStep
<1>3. ASSUME spent'["losses"] = 0  PROVE Unvoiced' /\ Assured(path', air', spent'["lapses"] # 0)
  <2> DEFINE l == spent'["lapses"] # 0
             l0 == spent["lapses"] # 0
  <2>1. spent["losses"] = 0 /\ (l0 => l)
    BY <1>1, <1>3 DEF Tallies, Budgets
  <2>2. Sharply /\ Sharply'
    BY <1>1, <1>3, <2>1, SharpNow, SharpNext
  <2>3. Unvoiced /\ Assured(path, air, l0)
    BY <1>1, <2>1 DEF Surely
  <2>4. \A n, d \in Node : Lapse(n, d) => l
    BY <1>1, SpendIs DEF Lapse, Budgets
  <2> HIDE DEF l, l0
  <2>5. l \in BOOLEAN
    BY DEF l
  <2>6. Assured(path, air, l)
    BY <2>1, <2>3, SureMore DEF Assured
  <2>7. Unvoiced'
    BY <1>1, <2>2, <2>3, UnvoicedStep
  <2>8. Assured(path', air', l)
    BY <1>1, <1>3, <2>1, <2>2, <2>3, <2>4, <2>5, <2>6, SureStep
  <2> QED  BY <2>7, <2>8 DEF l
<1> QED  BY <1>2, <1>3 DEF ReachInv, Surely

LEMMA ReachKept == Spec /\ []Recent /\ []Reach => []ReachInv
<1>1. Init => Joined /\ Surely
  BY SureFirst
<1>2. RouteInv /\ Joined /\ Surely <=> ReachInv
  BY DEF ReachInv
<1> QED  BY <1>1, <1>2, ReachStep, RouteKept, PTL DEF Spec

\* Once the air is quiet, a next hop that lacks the path lapsed.
LEMMA QuietLeans ==
  ASSUME ReachInv, Quiet, NEW n \in Node, NEW d \in Node, Liv(path, n, d), path[n][d].nh # d
  PROVE  LET h == path[n][d].nh IN
         /\ h \in Node
         /\ (Liv(path, h, d) /\ Better(path[h][d], path[n][d])) \/ (spent["lapses"] # 0 /\ ~Liv(path, h, d))
<1> DEFINE h == path[n][d].nh
           l == spent["lapses"] # 0
<1>1. spent["losses"] = 0 /\ \A q \in Pairs : air[q] = <<>>
  BY DEF Quiet
<1>2. h \in Node
  BY PathIs DEF ReachInv, RouteInv, Types, Liv
<1>3. <<h, n>> \in Pairs /\ Leans(path, air, l, n, h, d)
  BY <1>1 DEF ReachInv, Surely, Assured, Sure, Footed
<1>4. ~Warned(air[<<h, n>>], 0, d, path[n][d].sn)
  <2>1. air[<<h, n>>] = <<>>
    BY <1>1, <1>3
  <2> QED  BY <2>1 DEF Warned
<1> QED  BY <1>2, <1>3, <1>4 DEF Leans

LEMMA QuietIs == ReachInv /\ Reach => QuietLoopFree /\ NoDeadEnd
<1> SUFFICES ASSUME ReachInv, Reach, Quiet  PROVE NoLoop /\ (spent["lapses"] = 0 =>
               \A n, d \in Node : Live(n, d) => path[n][d].nh = d \/ Live(path[n][d].nh, d))
  BY DEF QuietLoopFree, NoDeadEnd
<1>1. Types /\ path \in Tables /\ Sharply
  BY SharpNow DEF ReachInv, RouteInv, Types, Quiet
<1>2. ASSUME NEW d \in Node, NEW S \in SUBSET (Node \ {d}), Cycle(d, S)  PROVE FALSE
  <2>1. S # {} /\ S \in SUBSET Node /\ \A n \in S : Liv(path, n, d) /\ path[n][d].nh \in S
    BY <1>2, LiveIs DEF Cycle
  <2> DEFINE y == sn[d]
  <2>2. Sharp(path, air, d, y)
    BY <1>1 DEF Sharply
  <2>3. ASSUME NEW n \in S
        PROVE  path[n][d].sn \in Window(y) /\ Better(path[path[n][d].nh][d], path[n][d])
    <3>1. n \in Node /\ path[n][d].nh # d /\ Liv(path, n, d) /\ Liv(path, path[n][d].nh, d)
      BY <2>1
    <3>2. path[n][d].sn \in Window(y)
      BY <2>2, <3>1 DEF Sharp
    <3>3. Better(path[path[n][d].nh][d], path[n][d])
      BY <3>1, QuietLeans
    <3> QED  BY <3>2, <3>3
  <2> HIDE DEF y
  <2>4. Descends(path, d, y, S)
    BY <2>1, <2>2, <2>3 DEF Descends, Sharp
  <2> QED  BY <1>1, <2>4, NoneRound
<1>3. ASSUME spent["lapses"] = 0, NEW n \in Node, NEW d \in Node, Live(n, d), path[n][d].nh # d
      PROVE  Live(path[n][d].nh, d)
  BY <1>3, LiveIs, QuietLeans
<1> QED  BY <1>2, <1>3 DEF NoLoop, Loop

\* The tables and frames keep their types, and while no neighbour is lost no destination's frames
\* go round a ring (umac_mesh_path_update, umac_mesh_hwmp_relay), in any mesh, whatever is asked,
\* answered, queued, lost, lapses or expires, if numbers stay recent: the run checks that they do.
THEOREM NothingGoesRound == Spec /\ []Recent => []TypeOK /\ []LoopFree /\ [](Reach => HwmpInv)
<1>1. RouteInv /\ Recent => TypeOK /\ LoopFree
  <2> SUFFICES ASSUME RouteInv, Recent  PROVE TypeOK /\ LoopFree
    OBVIOUS
  <2>1. TypeOK
    BY TypesAre DEF RouteInv
  <2>2. ASSUME spent["breaks"] = 0  PROVE NoLoop
    BY <2>2, CalmIs DEF RouteInv, Calmly, Recent
  <2> QED  BY <2>1, <2>2 DEF LoopFree
<1>2. TypeOK /\ LoopFree /\ Recent => (Reach => HwmpInv)
  BY DEF HwmpInv
<1> QED  BY <1>1, <1>2, RouteKept, PTL

\* What a node says of itself leaves with rising numbers, whichever task asked and however long it
\* was queued, also while neighbours come and go (mesh_grp_restamp_, mesh_grp_out_evt_).
THEOREM OwnWordsRise == Spec /\ []Recent => []NumbersRise
<1>1. RouteInv => NumbersRise
  BY RisesIs DEF RouteInv
<1> QED  BY <1>1, RouteKept, PTL

\* With no frame lost, no destination's frames go round a ring once the air is quiet, however
\* neighbours came and went, paths lapsed and stale frames were taken meanwhile, in any mesh: what
\* umac_mesh_fwd_glue_peer_lost announces reaches whoever relies on it. The numbers must stay
\* recent and the announcements in reach (no more paths than the burst, hops left): the run checks
\* that they do.
THEOREM QuietMeshLoopFree == Spec /\ []Recent /\ []Reach => []QuietLoopFree
<1>1. ReachInv /\ Reach => QuietLoopFree
  BY QuietIs
<1> QED  BY <1>1, ReachKept, PTL

\* Nor is anyone left sending to a next hop that has no path, while none has lapsed: the +1 of
\* umac_mesh_path_invalidate_nh makes each who routes through it accept the announcement.
THEOREM QuietMeshNoDeadEnd == Spec /\ []Recent /\ []Reach => []NoDeadEnd
<1>1. ReachInv /\ Reach => NoDeadEnd
  BY QuietIs
<1> QED  BY <1>1, ReachKept, PTL
=============================================================================
