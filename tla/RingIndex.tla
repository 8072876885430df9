----------------------------- MODULE RingIndex ------------------------------
(***************************************************************************)
(* The arithmetic of the firmware's ring buffers: an index that wraps at n,*)
(* the places between a reader and a writer, and the sequence that the     *)
(* places from one index on hold.                                          *)
(***************************************************************************)
EXTENDS Integers, Sequences, SequenceTheorems, TLAPS
(* How % counts on around a ring of n places: forwards once, backwards     *)
(* once.                                                                   *)
LEMMA Around ==
  ASSUME NEW n \in Nat \ {0}, NEW x \in Int
  PROVE  /\ x \in 0..n-1 => x % n = x
         /\ x \in n..2*n-1 => x % n = x - n
         /\ x \in (-n)..(-1) => x % n = x + n
         /\ x % n \in 0..n-1
<1>1. CASE x \in 0..n-1
  BY <1>1
<1>2. CASE x \in n..2*n-1
  BY <1>2
<1>3. CASE x \in (-n)..(-1)
  BY <1>3
<1> QED  BY <1>1, <1>2, <1>3

(* The place k after a.                                                    *)
LEMMA Forward ==
  ASSUME NEW n \in Nat \ {0}, NEW a \in 0..n-1, NEW k \in 0..n
  PROVE  (a + k) % n = IF a + k < n THEN a + k ELSE a + k - n
<1> DEFINE x == a + k
<1>1. x \in Int /\ (x \in 0..n-1 \/ x \in n..2*n-1)
  OBVIOUS
<1> SUFFICES x % n = IF x < n THEN x ELSE x - n
  OBVIOUS
<1> HIDE DEF x
<1>2. CASE x \in 0..n-1
  <2>1. x % n = x
    BY <1>1, <1>2, Around
  <2> QED  BY <1>2, <2>1
<1>3. CASE x \in n..2*n-1
  <2>1. x % n = x - n
    BY <1>1, <1>3, Around
  <2> QED  BY <1>3, <2>1
<1> QED  BY <1>1, <1>2, <1>3

(* Moving the base by one, or the result, is moving the distance by one.   *)
LEMMA Ahead ==
  ASSUME NEW n \in Nat \ {0}, NEW a \in 0..n-1, NEW k \in 0..n-1
  PROVE  /\ (((a + 1) % n) + k) % n = (a + (k + 1)) % n
         /\ (((a + k) % n) + 1) % n = (a + (k + 1)) % n
<1>0. 1 \in 0..n
  OBVIOUS
<1>1. (a + 1) % n = IF a + 1 < n THEN a + 1 ELSE a + 1 - n
  BY <1>0, Forward
<1>2. (a + k) % n = IF a + k < n THEN a + k ELSE a + k - n
  <2>1. k \in 0..n
    OBVIOUS
  <2> QED  BY <2>1, Forward
<1>3. (a + (k + 1)) % n
        = IF a + (k + 1) < n THEN a + (k + 1) ELSE a + (k + 1) - n
  <2>1. k + 1 \in 0..n
    OBVIOUS
  <2> QED  BY <2>1, Forward
<1>4. (a + 1) % n \in 0..n-1 /\ (a + k) % n \in 0..n-1
  BY <1>1, <1>2
<1> DEFINE b == (a + 1) % n
           c == (a + k) % n
<1>5. (b + k) % n = IF b + k < n THEN b + k ELSE b + k - n
  <2>1. b \in 0..n-1 /\ k \in 0..n
    BY <1>4
  <2> HIDE DEF b
  <2> QED  BY <2>1, Forward
<1>6. (c + 1) % n = IF c + 1 < n THEN c + 1 ELSE c + 1 - n
  <2>1. c \in 0..n-1 /\ 1 \in 0..n
    BY <1>4
  <2> HIDE DEF c
  <2> QED  BY <2>1, Forward
<1> QED  BY <1>1, <1>2, <1>3, <1>5, <1>6

(* Places less than a round apart are different.                           *)
LEMMA Apart ==
  ASSUME NEW n \in Nat \ {0}, NEW a \in 0..n-1,
         NEW i \in 0..n, NEW j \in 0..n, i < j, j - i < n
  PROVE  (a + i) % n # (a + j) % n
<1>1. (a + i) % n = IF a + i < n THEN a + i ELSE a + i - n
  BY Forward
<1>2. (a + j) % n = IF a + j < n THEN a + j ELSE a + j - n
  BY Forward
<1> QED  BY <1>1, <1>2

(* The distance from r on to w, ...                                        *)
LEMMA Distance ==
  ASSUME NEW n \in Nat \ {0}, NEW r \in 0..n-1, NEW w \in 0..n-1
  PROVE  (w - r) % n = IF r <= w THEN w - r ELSE w - r + n
<1>0. w - r \in Int
  OBVIOUS
<1>1. CASE r <= w
  <2>1. w - r \in 0..n-1
    BY <1>1
  <2> QED  BY <1>0, <1>1, <2>1, Around
<1>2. CASE ~(r <= w)
  <2>1. w - r \in (-n)..(-1)
    BY <1>2
  <2> QED  BY <1>0, <1>2, <2>1, Around
<1> QED  BY <1>1, <1>2

(* ... which leads to w.                                                   *)
LEMMA Reaches ==
  ASSUME NEW n \in Nat \ {0}, NEW r \in 0..n-1, NEW w \in 0..n-1
  PROVE  (r + ((w - r) % n)) % n = w
<1> DEFINE d == (w - r) % n
<1>1. d \in 0..n /\ d = IF r <= w THEN w - r ELSE w - r + n
  BY Distance
<1> HIDE DEF d
<1>2. (r + d) % n = IF r + d < n THEN r + d ELSE r + d - n
  BY <1>1, Forward
<1>3. (r + d) % n = w
  BY <1>1, <1>2
<1> QED  BY <1>3 DEF d

(* A writer that stops short of the reader is one further from it.         *)
LEMMA Fill ==
  ASSUME NEW n \in Nat \ {0}, NEW r \in 0..n-1, NEW w \in 0..n-1,
         (w + 1) % n # r
  PROVE  /\ (((w + 1) % n) - r) % n = ((w - r) % n) + 1
         /\ (w - r) % n \in 0..n-2
<1>0. 1 \in 0..n
  OBVIOUS
<1>1. (w + 1) % n = IF w + 1 < n THEN w + 1 ELSE w + 1 - n
  BY <1>0, Forward
<1>2. (w - r) % n = IF r <= w THEN w - r ELSE w - r + n
  BY Distance
<1> DEFINE v == (w + 1) % n
<1>3. v \in 0..n-1 /\ v # r /\ v = IF w + 1 < n THEN w + 1 ELSE w + 1 - n
  BY <1>1
<1> HIDE DEF v
<1>4. (v - r) % n = IF r <= v THEN v - r ELSE v - r + n
  BY <1>3, Distance
<1>5. (v - r) % n = ((w - r) % n) + 1 /\ (w - r) % n \in 0..n-2
  BY <1>2, <1>3, <1>4
<1> QED  BY <1>5 DEF v

(* A reader that has not reached the writer comes one closer to it.        *)
LEMMA Drain ==
  ASSUME NEW n \in Nat \ {0}, NEW r \in 0..n-1, NEW w \in 0..n-1, r # w
  PROVE  /\ (w - ((r + 1) % n)) % n = ((w - r) % n) - 1
         /\ (w - r) % n \in 1..n-1
<1>0. 1 \in 0..n
  OBVIOUS
<1>1. (r + 1) % n = IF r + 1 < n THEN r + 1 ELSE r + 1 - n
  BY <1>0, Forward
<1>2. (w - r) % n = IF r <= w THEN w - r ELSE w - r + n
  BY Distance
<1> DEFINE s == (r + 1) % n
<1>3. s \in 0..n-1 /\ s = IF r + 1 < n THEN r + 1 ELSE r + 1 - n
  BY <1>1
<1> HIDE DEF s
<1>4. (w - s) % n = IF s <= w THEN w - s ELSE w - s + n
  BY <1>3, Distance
<1>5. (w - s) % n = ((w - r) % n) - 1 /\ (w - r) % n \in 1..n-1
  BY <1>2, <1>3, <1>4
<1> QED  BY <1>5 DEF s

-----------------------------------------------------------------------------
(* What k places of the ring f hold, from place h on.                      *)
View(f, h, k, n) == [i \in 1..k |-> f[(h + i - 1) % n]]

(* The place of the i-th element is one of the ring's.                     *)
LEMMA PlaceType ==
  ASSUME NEW n \in Nat \ {0}, NEW h \in 0..n-1, NEW i \in 1..n+1
  PROVE  (h + i - 1) % n \in 0..n-1
<1> DEFINE j == i - 1
<1>1. j \in 0..n /\ h + i - 1 = h + j
  OBVIOUS
<1> HIDE DEF j
<1>2. (h + j) % n = IF h + j < n THEN h + j ELSE h + j - n
  BY <1>1, Forward
<1>3. (h + j) % n \in 0..n-1
  BY <1>1, <1>2
<1> QED  BY <1>1, <1>3

(* A view is a sequence, ...                                               *)
LEMMA ViewType ==
  ASSUME NEW S, NEW n \in Nat \ {0}, NEW f \in [0..n-1 -> S],
         NEW h \in 0..n-1, NEW k \in 0..n
  PROVE  View(f, h, k, n) \in Seq(S)
<1>1. ASSUME NEW i \in 1..k PROVE f[(h + i - 1) % n] \in S
  <2>1. (h + i - 1) % n \in 0..n-1
    BY PlaceType
  <2> DEFINE p == (h + i - 1) % n
  <2> HIDE DEF p
  <2>2. f[p] \in S
    BY <2>1 DEF p
  <2> QED  BY <2>2 DEF p
<1>2. View(f, h, k, n) \in [1..k -> S]
  BY <1>1 DEF View
<1>3. k \in Nat
  OBVIOUS
<1> DEFINE v == View(f, h, k, n)
<1> HIDE DEF v
<1>4. v \in [1..k -> S]
  BY <1>2 DEF v
<1>5. v \in Seq(S)
  BY <1>3, <1>4
<1> QED  BY <1>5 DEF v

(* ... of as many elements as it has places.                               *)
LEMMA ViewLength ==
  ASSUME NEW S, NEW n \in Nat \ {0}, NEW f \in [0..n-1 -> S],
         NEW h \in 0..n-1, NEW k \in 0..n
  PROVE  Len(View(f, h, k, n)) = k
<1>1. ASSUME NEW i \in 1..k PROVE f[(h + i - 1) % n] \in S
  <2>1. (h + i - 1) % n \in 0..n-1
    BY PlaceType
  <2> DEFINE p == (h + i - 1) % n
  <2> HIDE DEF p
  <2>2. f[p] \in S
    BY <2>1 DEF p
  <2> QED  BY <2>2 DEF p
<1>2. View(f, h, k, n) \in [1..k -> S]
  BY <1>1 DEF View
<1>3. k \in Nat
  OBVIOUS
<1> DEFINE v == View(f, h, k, n)
<1> HIDE DEF v
<1>4. v \in [1..k -> S]
  BY <1>2 DEF v
<1>5. Len(v) = k
  BY <1>3, <1>4
<1> QED  BY <1>5 DEF v

(* The rings f and g differ at most at the place t.                         *)
SameBut(f, g, t, n) == \A j \in 0..n-1 : j # t => g[j] = f[j]

(* With k elements g has one more than f, the last.                        *)
OneMore(f, g, h, k, n) ==
  View(g, h, k, n) = Append(View(f, h, k - 1, n), g[(h + k - 1) % n])

(* Storing behind the last of the elements appends: f is the ring before,  *)
(* g the ring after it, with k elements.                                   *)
LEMMA ViewAppend ==
  ASSUME NEW S, NEW n \in Nat \ {0}, NEW f \in [0..n-1 -> S],
         NEW g \in [0..n-1 -> S], NEW h \in 0..n-1, NEW k \in 1..n,
         SameBut(f, g, (h + k - 1) % n, n)
  PROVE  OneMore(f, g, h, k, n)
<1> DEFINE t == (h + k - 1) % n
           m == k - 1
           v == View(f, h, m, n)
           w == View(g, h, k, n)
           p(i) == (h + i - 1) % n
<1>0. k \in 0..n /\ m \in 0..n /\ k = m + 1
  OBVIOUS
<1>1. t \in 0..n-1
  <2>1. k \in 1..n+1
    OBVIOUS
  <2> QED  BY <2>1, PlaceType
<1>2. g[t] \in S
  <2> HIDE DEF t
  <2> QED  BY <1>1
<1>3. v \in Seq(S) /\ Len(v) = m
  <2> HIDE DEF m
  <2> QED  BY <1>0, ViewType, ViewLength
<1>4. w \in Seq(S) /\ Len(w) = k
  BY <1>0, ViewType, ViewLength
<1>5. w[k] = g[t]
  BY DEF View
<1>6. ASSUME NEW i \in 1..m PROVE w[i] = v[i]
  <2>1. p(i) # t
    <3>1. /\ i - 1 \in 0..n /\ k - 1 \in 0..n /\ i - 1 < k - 1
          /\ (k - 1) - (i - 1) < n
          /\ h + (i - 1) = h + i - 1 /\ h + (k - 1) = h + k - 1
      OBVIOUS
    <3>2. (h + (i - 1)) % n # (h + (k - 1)) % n
      BY <3>1, Apart
    <3> QED  BY <3>1, <3>2
  <2>2. p(i) \in 0..n-1
    <3>1. i \in 1..n+1
      OBVIOUS
    <3> QED  BY <3>1, PlaceType
  <2>3. g[p(i)] = f[p(i)]
    <3>1. \A j \in 0..n-1 : j # t => g[j] = f[j]
      BY DEF SameBut
    <3> HIDE DEF p, t
    <3> QED  BY <2>1, <2>2, <3>1
  <2>4. i \in 1..k
    OBVIOUS
  <2> QED  BY <2>3, <2>4 DEF View
<1> SUFFICES w = Append(v, g[t])
  BY DEF OneMore
<1> DEFINE e == g[t]
<1> HIDE DEF t, v, w, p, m, e
<1>7. Append(v, e) \in Seq(S) /\ Len(Append(v, e)) = k
  BY <1>0, <1>2, <1>3 DEF e
<1>8. ASSUME NEW i \in 1..k PROVE w[i] = Append(v, e)[i]
  <2>1. CASE i \in 1..m
    BY <1>3, <1>6, <2>1
  <2>2. CASE i = k
    BY <1>0, <1>3, <1>5, <2>2 DEF e
  <2>3. i \in 1..m \/ i = k
    BY <1>0
  <2> QED  BY <2>1, <2>2, <2>3
<1> QED  BY <1>4, <1>7, <1>8, SeqEqual DEF e

(* Advancing the reader by one removes the first element.                  *)
LEMMA ViewTail ==
  ASSUME NEW S, NEW n \in Nat \ {0}, NEW f \in [0..n-1 -> S],
         NEW h \in 0..n-1, NEW k \in 1..n
  PROVE  /\ View(f, h, k, n) # <<>>
         /\ Head(View(f, h, k, n)) = f[h]
         /\ View(f, (h + 1) % n, k - 1, n) = Tail(View(f, h, k, n))
<1> DEFINE b == (h + 1) % n
           v == View(f, h, k, n)
           w == View(f, b, k - 1, n)
<1>0. k \in 0..n /\ k - 1 \in 0..n /\ 1 \in 0..n
  OBVIOUS
<1>1. b \in 0..n-1
  <2>1. 2 \in 1..n+1 /\ h + 2 - 1 = h + 1
    OBVIOUS
  <2> QED  BY <2>1, PlaceType
<1>2. v \in Seq(S) /\ Len(v) = k
  BY <1>0, ViewType, ViewLength
<1>3. w \in Seq(S) /\ Len(w) = k - 1
  <2> DEFINE m == k - 1
  <2>1. m \in 0..n
    BY <1>0
  <2> HIDE DEF b, m
  <2>2. View(f, b, m, n) \in Seq(S) /\ Len(View(f, b, m, n)) = m
    BY <1>1, <2>1, ViewType, ViewLength
  <2> QED  BY <2>2 DEF m
<1>4. v[1] = f[h]
  <2>1. h % n = h
    <3>1. h \in Int
      OBVIOUS
    <3> QED  BY <3>1, Around
  <2>2. 1 \in 1..k /\ h + 1 - 1 = h
    OBVIOUS
  <2> QED  BY <2>1, <2>2 DEF View
<1>5. ASSUME NEW i \in 1..k-1 PROVE w[i] = v[i + 1]
  <2>1. i - 1 \in 0..n-1 /\ i + 1 \in 1..k
    OBVIOUS
  <2>2. (((h + 1) % n) + (i - 1)) % n = (h + ((i - 1) + 1)) % n
    BY <2>1, Ahead
  <2>3. h + ((i - 1) + 1) = h + (i + 1) - 1
    OBVIOUS
  <2>4. b + i - 1 = b + (i - 1)
    BY <1>1
  <2>5. (b + i - 1) % n = (h + (i + 1) - 1) % n
    BY <2>2, <2>3, <2>4
  <2> QED  BY <2>1, <2>5 DEF View
<1> HIDE DEF b, v, w
<1>6. v # <<>> /\ Head(v) = v[1]
  BY <1>2
<1>7. w = Tail(v)
  <2>1. Tail(v) \in Seq(S) /\ Len(Tail(v)) = k - 1
    BY <1>2, <1>6, HeadTailProperties
  <2>2. ASSUME NEW i \in 1..k-1 PROVE w[i] = Tail(v)[i]
    BY <1>2, <1>5, <1>6, <2>1, HeadTailProperties
  <2> QED  BY <1>3, <2>1, <2>2, SeqEqual
<1> QED  BY <1>4, <1>6, <1>7 DEF b, v, w
=============================================================================
