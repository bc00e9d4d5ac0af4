--------------------------- MODULE Buffers_proofs ---------------------------
(***************************************************************************)
(* What the proofs about readers and writers of buffers share: induction,  *)
(* what the methods of a BufferListReader do to a sound reader, one lemma  *)
(* for each, and lists of buffers and of fields put together of parts,     *)
(* with the sum of their sizes.                                            *)
(***************************************************************************)
EXTENDS Readers, Writers, SequenceTheorems, WellFoundedInduction, TLAPS

(* A set of naturals with 0 in it, and with every one the next, has all:   *)
(* the way to reason about what is defined by recursion.                   *)
LEMMA SetInduction ==
  ASSUME NEW S, 0 \in S, \A n \in Nat : n \in S => n + 1 \in S
  PROVE  Nat \subseteq S
<1>1. SUFFICES ASSUME Nat \ S # {} PROVE FALSE  OBVIOUS
<1>2. PICK x \in Nat \ S : \A y \in Nat \ S : ~(<<y, x>> \in OpToRel(<, Nat))
  <2>1. Nat \ S \subseteq Nat  OBVIOUS
  <2> QED  BY <1>1, <2>1, WFMin, NatLessThanWellFounded
<1>3. \A y \in Nat \ S : ~(y < x)  BY <1>2 DEF OpToRel
<1>4. x \in Nat /\ x \notin S  OBVIOUS
<1>5. x # 0 /\ x - 1 \in Nat  BY <1>4
<1>6. x - 1 \in S  BY <1>3, <1>4, <1>5
<1> QED  BY <1>4, <1>5, <1>6

(* The same up to a bound, and from any number.                            *)
LEMMA IntervalInduction ==
  ASSUME NEW a \in Nat, NEW N \in Nat, NEW S, a \in S,
         \A n \in a .. N - 1 : n \in S => n + 1 \in S
  PROVE  a .. N \subseteq S
<1> DEFINE R == {n \in Nat : a + n <= N => a + n \in S}
<1>1. 0 \in R  OBVIOUS
<1>2. ASSUME NEW n \in Nat, n \in R PROVE n + 1 \in R
  <2>1. CASE a + (n + 1) <= N
    <3>1. a + n \in S /\ a + n \in a .. N - 1  BY <1>2, <2>1
    <3>2. (a + n) + 1 \in S  BY <3>1
    <3> QED  BY <3>2
  <2> QED  BY <2>1
<1> HIDE DEF R
<1>3. Nat \subseteq R  BY <1>1, <1>2, SetInduction
<1>4. ASSUME NEW m \in a .. N PROVE m \in S
  <2>1. m - a \in Nat /\ a + (m - a) = m  OBVIOUS
  <2>2. m - a \in R  BY <1>3, <2>1
  <2> QED  BY <2>1, <2>2 DEF R
<1> QED  BY <1>4

(***************************************************************************)
(* Sound readers: they stay sound, their bytes stay where they are in the  *)
(* stream, and the cursor goes where it should                             *)
(***************************************************************************)

(* A reader that holds the latest `arrived` bytes or fewer, its cursor     *)
(* the same byte in both forms.                                            *)
Sound(r, arrived) ==
  /\ r \in Reader
  /\ arrived \in Nat
  /\ Holds(r, arrived)
  /\ Covers(r, arrived)
  /\ CursorOf(r)

(* The positions a sound reader's buffers start and end at are numbers.    *)
LEMMA BuffersTyped ==
  ASSUME NEW buffers \in Seq(Buffer)
  PROVE  /\ Len(buffers) \in Nat
         /\ buffers # <<>> => 1 \in 1 .. Len(buffers)
         /\ \A i \in 1 .. Len(buffers) :
              buffers[i] \in Buffer /\ buffers[i].lo \in Nat /\ buffers[i].hi \in Nat
<1>1. \A i \in 1 .. Len(buffers) : buffers[i] \in Buffer  OBVIOUS
<1> QED  BY <1>1 DEF Buffer

(* The buffers of a sound reader start after the first, and end before the *)
(* last byte that arrived.                                                 *)
LEMMA Bounds ==
  ASSUME NEW r, NEW arrived, Sound(r, arrived), NEW i \in 1 .. Len(r.buffers)
  PROVE  /\ r.buffers[1].lo \in Nat
         /\ r.buffers[i].lo \in Nat
         /\ r.buffers[i].hi \in Nat
         /\ r.buffers # <<>>
         /\ BaseOf(r, arrived) = r.buffers[1].lo
         /\ r.buffers[1].lo <= r.buffers[i].lo
         /\ r.buffers[i].lo <= r.buffers[i].hi
         /\ r.buffers[i].hi <= arrived
<1> DEFINE b == r.buffers
           l == Len(b)
<1>1. b \in Seq(Buffer)  BY DEF Sound, Reader
<1>2. l \in Nat /\ i \in 1 .. l /\ 1 \in 1 .. l /\ l \in 1 .. l
  BY <1>1, BuffersTyped
<1>3. b # <<>>  BY <1>2
<1>4. BaseOf(r, arrived) = b[1].lo  BY <1>3 DEF BaseOf
<1>5. \A k \in 1 .. l : b[k].lo \in Nat /\ b[k].hi \in Nat
  BY <1>1, BuffersTyped
<1>6. \A k \in 1 .. l : b[k].lo <= b[k].hi
  BY DEF Sound, Holds
<1>7. b[l].hi = arrived
  BY <1>2 DEF Sound, Holds
<1>8. \A j, k \in 1 .. l : j < k => b[j].hi <= b[k].lo
  BY DEF Sound, Covers
<1> HIDE DEF b, l
<1>9. b[1].lo <= b[i].lo
  <2>1. CASE i = 1  BY <2>1, <1>2, <1>5
  <2>2. CASE i # 1
    <3>1. b[1].hi <= b[i].lo  BY <2>2, <1>2, <1>8
    <3> QED  BY <3>1, <1>2, <1>5, <1>6
  <2> QED  BY <2>1, <2>2
<1>10. b[i].hi <= arrived
  <2>1. CASE i = l  BY <2>1, <1>2, <1>5, <1>7
  <2>2. CASE i # l
    <3>1. b[i].hi <= b[l].lo  BY <2>2, <1>2, <1>8
    <3> QED  BY <3>1, <1>2, <1>5, <1>6, <1>7
  <2> QED  BY <2>1, <2>2
<1> QED  BY <1>2, <1>3, <1>4, <1>5, <1>6, <1>9, <1>10 DEF b, l

(* The stream position of the first byte held is a number.                 *)
LEMMA BaseIsNat ==
  ASSUME NEW r, NEW arrived, Sound(r, arrived)
  PROVE  BaseOf(r, arrived) \in Nat
<1>1. CASE r.buffers = <<>>  BY <1>1 DEF BaseOf, Sound
<1>2. CASE r.buffers # <<>>
  <2>1. r.buffers \in Seq(Buffer)  BY DEF Sound, Reader
  <2>2. 1 \in 1 .. Len(r.buffers)  BY <1>2, <2>1, BuffersTyped
  <2> QED  BY <2>2, Bounds
<1> QED  BY <1>1, <1>2

(* A cursor that has not passed the last byte stands in a buffer; in both  *)
(* of its forms it is the same byte of the stream.                         *)
LEMMA CursorBuffer ==
  ASSUME NEW r, NEW arrived, Sound(r, arrived), r.offset < r.length
  PROVE  /\ r.curBufferIndex \in 1 .. Len(r.buffers)
         /\ r.curBufferOffset \in Nat
         /\ r.curBufferOffset <= Size(CurBuffer(r))
         /\ CurBuffer(r).lo + r.curBufferOffset = PositionOf(r, arrived)
<1>1. r.curBufferIndex \in 1 .. Len(r.buffers)
  BY DEF Sound, CursorOf, SamePlace, Reader
<1>2. /\ r.curBufferOffset <= Size(r.buffers[r.curBufferIndex])
      /\ r.offset = r.buffers[r.curBufferIndex].lo + r.curBufferOffset
                      - r.buffers[1].lo
  BY <1>1 DEF Sound, CursorOf, SamePlace, Reader
<1>3. r.curBufferOffset \in Nat /\ r.offset \in Nat  BY DEF Sound, Reader
<1> QED  BY <1>1, <1>2, <1>3, Bounds DEF PositionOf, CurBuffer

(* FirstReaching stops at the buffer that has the last byte wanted.        *)
LEMMA FirstReachingHasLastByte ==
  ASSUME NEW r, NEW arrived, Sound(r, arrived),
         NEW i \in 1 .. Len(r.buffers), NEW upto \in Nat \ {0},
         r.buffers[i].lo + upto <= arrived
  PROVE  LET j == FirstReaching(r.buffers, i, upto)
         IN /\ j \in i .. Len(r.buffers)
            /\ r.buffers[j].lo - r.buffers[i].lo < upto
            /\ upto <= r.buffers[j].hi - r.buffers[i].lo
<1> DEFINE b == r.buffers
           l == Len(b)
           byte == b[i].lo + upto - 1
           S == Reaching(b, i, upto)
<1>1. b \in Seq(Buffer) /\ arrived \in Nat  BY DEF Sound, Reader
<1>2. /\ l \in Nat /\ i \in 1 .. l
      /\ \A k \in 1 .. l : b[k].lo \in Nat /\ b[k].hi \in Nat
  BY <1>1, BuffersTyped
<1>3. byte \in BaseOf(r, arrived) .. arrived - 1
  <2> DEFINE base == BaseOf(r, arrived)
             lo == b[i].lo
  <2>1. base \in Nat /\ base <= lo  BY Bounds
  <2>2. lo \in Nat /\ arrived \in Nat /\ lo + upto <= arrived  BY <1>1, <1>2
  <2> HIDE DEF base, lo
  <2>3. lo + upto - 1 \in base .. arrived - 1  BY <2>1, <2>2
  <2> QED  BY <2>3 DEF base, lo
<1>4. PICK j \in 1 .. l : b[j].lo <= byte /\ byte < b[j].hi
  BY <1>3 DEF Sound, Covers
<1>5. \A k, m \in 1 .. l : k < m => b[k].hi <= b[m].lo
  BY DEF Sound, Covers
<1>6. S = {k \in i .. l : b[k].hi - b[i].lo >= upto}
  BY DEF Reaching, Size, Concat
<1> HIDE DEF b, l, S
<1>7. j \in i .. l
  <2>1. SUFFICES ASSUME j < i PROVE FALSE  BY <1>2, <1>4
  <2>2. b[j].hi <= b[i].lo  BY <2>1, <1>2, <1>4, <1>5
  <2> QED  BY <2>2, <1>2, <1>4
<1>8. j \in S
  BY <1>2, <1>4, <1>6, <1>7
<1>9. \A k \in S : j <= k
  <2>1. SUFFICES ASSUME NEW k \in S, k < j PROVE FALSE
    BY <1>2, <1>4, <1>6
  <2>2. k \in 1 .. l  BY <1>2, <1>6
  <2>3. b[k].hi <= b[j].lo  BY <2>1, <2>2, <1>4, <1>5
  <2> QED  BY <2>1, <2>2, <2>3, <1>2, <1>4, <1>6
<1>10. S \subseteq Int  BY <1>2, <1>6
<1>11. Min(S) = j
  <2>1. \A x \in S : (\A y \in S : x <= y) => x = j
    BY <1>8, <1>9, <1>10
  <2> QED  BY <1>8, <1>9, <2>1 DEF Min
<1>12. FirstReaching(b, i, upto) = j
  BY <1>8, <1>11 DEF FirstReaching, S
<1>13. b[j].lo - b[i].lo < upto /\ upto <= b[j].hi - b[i].lo
  BY <1>2, <1>4
<1> QED  BY <1>7, <1>12, <1>13 DEF b, l

(* A list with its i-th to j-th elements replaced by one. *)
LEMMA SplicedList ==
  ASSUME NEW T, NEW b \in Seq(T), NEW c \in T,
         NEW i \in 1 .. Len(b), NEW j \in i .. Len(b),
         NEW n, n = Splice(b, i, j, c)
  PROVE  /\ n \in Seq(T)
         /\ Len(n) = Len(b) - (j - i)
         /\ \A k \in 1 .. Len(n) :
              n[k] = IF k < i THEN b[k]
                     ELSE IF k = i THEN c ELSE b[k + (j - i)]
<1> DEFINE x == SubSeq(b, 1, i - 1)
           e == <<c>>
           z == SubSeq(b, j + 1, Len(b))
           y == x \o e
<1>1. /\ x \in Seq(T) /\ Len(x) = i - 1
      /\ \A k \in 1 .. i - 1 : x[k] = b[k]
  BY SubSeqProperties
<1>2. /\ z \in Seq(T) /\ Len(z) = Len(b) - j
      /\ \A k \in 1 .. Len(b) - j : z[k] = b[k + j]
  BY SubSeqProperties
<1>3. e \in Seq(T) /\ Len(e) = 1 /\ e[1] = c  OBVIOUS
<1>4. i \in Nat /\ j \in Nat /\ Len(b) \in Nat  OBVIOUS
<1> HIDE DEF x, e, z
<1>5. /\ y \in Seq(T) /\ Len(y) = i
      /\ \A k \in 1 .. i - 1 : y[k] = b[k]
      /\ y[i] = c
  <2>1. /\ y \in Seq(T) /\ Len(y) = Len(x) + Len(e)
        /\ \A k \in 1 .. Len(x) + Len(e) :
             y[k] = IF k <= Len(x) THEN x[k] ELSE e[k - Len(x)]
    BY <1>1, <1>3, ConcatProperties
  <2> QED  BY <2>1, <1>1, <1>3, <1>4
<1>10. n = y \o z  BY DEF x, y, z, e, Splice
<1> HIDE DEF y
<1>6. /\ n \in Seq(T)
      /\ Len(n) = i + (Len(b) - j)
      /\ \A k \in 1 .. i + (Len(b) - j) :
           n[k] = IF k <= i THEN y[k] ELSE z[k - i]
  <2>1. /\ n \in Seq(T) /\ Len(n) = Len(y) + Len(z)
        /\ \A k \in 1 .. Len(y) + Len(z) :
             n[k] = IF k <= Len(y) THEN y[k] ELSE z[k - Len(y)]
    <3>1. /\ y \o z \in Seq(T) /\ Len(y \o z) = Len(y) + Len(z)
          /\ \A k \in 1 .. Len(y) + Len(z) :
               (y \o z)[k] = IF k <= Len(y) THEN y[k] ELSE z[k - Len(y)]
      BY <1>2, <1>5, ConcatProperties
    <3> QED  BY <3>1, <1>10
  <2> QED  BY <2>1, <1>2, <1>5
<1>7. Len(n) = Len(b) - (j - i)  BY <1>4, <1>6
<1>8. ASSUME NEW k \in 1 .. Len(n)
      PROVE  n[k] = IF k < i THEN b[k]
                    ELSE IF k = i THEN c ELSE b[k + (j - i)]
  <2>1. CASE k <= i  BY <2>1, <1>4, <1>5, <1>6
  <2>2. CASE k > i
    <3>1. n[k] = z[k - i]  BY <2>2, <1>4, <1>6
    <3>2. k - i \in 1 .. Len(b) - j  BY <2>2, <1>4, <1>6
    <3>3. z[k - i] = b[(k - i) + j] /\ (k - i) + j = k + (j - i)
      BY <3>2, <1>2, <1>4
    <3> QED  BY <2>2, <3>1, <3>3, <1>4
  <2> QED  BY <2>1, <2>2, <1>4, <1>6
<1> QED
  BY <1>6, <1>7, <1>8

(* Buffers follow one another: any two are in order, and any is in bounds. *)
LEMMA Order ==
  ASSUME NEW r, NEW arrived, Sound(r, arrived)
  PROVE  /\ r.buffers \in Seq(Buffer)
         /\ Len(r.buffers) \in Nat
         /\ arrived \in Nat
         /\ \A k \in 1 .. Len(r.buffers) :
              /\ r.buffers[k].lo \in Nat /\ r.buffers[k].hi \in Nat
              /\ r.buffers[k].lo <= r.buffers[k].hi
              /\ k > 1 \/ k = Len(r.buffers) => r.buffers[k].lo < r.buffers[k].hi
              /\ k = Len(r.buffers) => r.buffers[k].hi = arrived
         /\ \A k \in 1 .. Len(r.buffers) - 1 : r.buffers[k].hi = r.buffers[k + 1].lo
         /\ \A k, m \in 1 .. Len(r.buffers) :
              /\ k < m => r.buffers[k].hi <= r.buffers[m].lo
              /\ k <= m => /\ r.buffers[k].lo <= r.buffers[m].lo
                           /\ r.buffers[k].hi <= r.buffers[m].hi
<1> DEFINE b == r.buffers
           l == Len(b)
<1>1. b \in Seq(Buffer) /\ arrived \in Nat  BY DEF Sound, Reader
<1>2. l \in Nat /\ \A k \in 1 .. l : b[k].lo \in Nat /\ b[k].hi \in Nat
  BY <1>1, BuffersTyped
<1>3. \A k \in 1 .. l : /\ b[k].lo <= b[k].hi
                        /\ k > 1 \/ k = l => b[k].lo < b[k].hi
                        /\ k = l => b[k].hi = arrived
  BY DEF Sound, Holds
<1>4. \A k \in 1 .. l - 1 : b[k].hi = b[k + 1].lo
  BY DEF Sound, Holds, Contiguous
<1>5. \A k, m \in 1 .. l : k < m => b[k].hi <= b[m].lo
  BY DEF Sound, Covers
<1> HIDE DEF b, l
<1>6. ASSUME NEW k \in 1 .. l, NEW m \in 1 .. l, k <= m
      PROVE  b[k].lo <= b[m].lo /\ b[k].hi <= b[m].hi
  <2>1. CASE k = m  BY <2>1, <1>2
  <2>2. CASE k < m
    <3>1. b[k].hi <= b[m].lo  BY <2>2, <1>5
    <3> QED  BY <3>1, <1>2, <1>3
  <2> QED  BY <2>1, <2>2, <1>2, <1>6
<1> QED  BY <1>1, <1>2, <1>3, <1>4, <1>5, <1>6 DEF b, l

(* Replacing neighbours by their concatenation changes no byte.            *)
LEMMA MergeKeepsBytes ==
  ASSUME NEW r, NEW arrived, Sound(r, arrived), NEW i \in 1 .. Len(r.buffers),
         NEW j \in i .. Len(r.buffers), NEW q, q.length = r.length,
         q.buffers = Splice(r.buffers, i, j, Concat(r.buffers, i, j))
  PROVE  /\ q.buffers \in Seq(Buffer)
         /\ i \in 1 .. Len(q.buffers)
         /\ q.buffers[i] = Concat(r.buffers, i, j)
         /\ q.buffers[1].lo = r.buffers[1].lo
         /\ BaseOf(q, arrived) = BaseOf(r, arrived)
         /\ Holds(q, arrived)
         /\ Covers(q, arrived)
<1> DEFINE b == r.buffers
           l == Len(b)
           n == q.buffers
           c == Concat(b, i, j)
           first(k) == IF k <= i THEN k ELSE k + (j - i)
           last(k) == IF k < i THEN k ELSE k + (j - i)
<1>1. /\ b \in Seq(Buffer) /\ l \in Nat /\ arrived \in Nat
      /\ \A k \in 1 .. l : /\ b[k].lo \in Nat /\ b[k].hi \in Nat
                           /\ b[k].lo <= b[k].hi
                           /\ k > 1 \/ k = l => b[k].lo < b[k].hi
                           /\ k = l => b[k].hi = arrived
      /\ \A k \in 1 .. l - 1 : b[k].hi = b[k + 1].lo
      /\ \A k, m \in 1 .. l :
           /\ k < m => b[k].hi <= b[m].lo
           /\ k <= m => b[k].lo <= b[m].lo /\ b[k].hi <= b[m].hi
  BY Order
<1>2. i \in Nat /\ j \in Nat /\ 1 <= i /\ i <= j /\ j <= l  BY <1>1
<1>3. /\ c \in Buffer /\ c.lo = b[i].lo /\ c.hi = b[j].hi
      /\ BaseOf(r, arrived) \in Nat
  <2>1. BaseOf(r, arrived) \in Nat  BY Bounds
  <2>2. c = [lo |-> b[i].lo, hi |-> b[j].hi]  BY DEF Concat
  <2>3. i \in 1 .. l /\ j \in 1 .. l  BY <1>1, <1>2
  <2> HIDE DEF b, l, n, c
  <2>4. b[i].lo \in Nat /\ b[j].hi \in Nat  BY <2>3, <1>1
  <2>5. c \in Buffer  BY <2>2, <2>4 DEF Buffer
  <2>6. c.lo = b[i].lo /\ c.hi = b[j].hi  BY <2>2
  <2> QED  BY <2>1, <2>5, <2>6
<1>4. /\ n \in Seq(Buffer)
      /\ Len(n) = l - (j - i)
      /\ \A k \in 1 .. Len(n) :
           n[k] = IF k < i THEN b[k] ELSE IF k = i THEN c ELSE b[k + (j - i)]
  <2>1. b \in Seq(Buffer) /\ c \in Buffer /\ i \in 1 .. Len(b) /\ j \in i .. Len(b)
    BY <1>1, <1>3
  <2>2. n = Splice(b, i, j, c)  OBVIOUS
  <2>3. l = Len(b)  OBVIOUS
  <2> HIDE DEF b, c, n, l
  <2>4. /\ n \in Seq(Buffer)
        /\ Len(n) = Len(b) - (j - i)
        /\ \A k \in 1 .. Len(n) :
             n[k] = IF k < i THEN b[k]
                    ELSE IF k = i THEN c ELSE b[k + (j - i)]
    BY <2>1, <2>2, SplicedList
  <2> QED  BY <2>3, <2>4
<1> HIDE DEF b, l, n, c
<1>5. ASSUME NEW k \in 1 .. Len(n)
      PROVE  /\ first(k) \in 1 .. l /\ last(k) \in 1 .. l /\ first(k) <= last(k)
             /\ n[k].lo = b[first(k)].lo /\ n[k].hi = b[last(k)].hi
             /\ k > 1 => first(k) > 1
             /\ k = Len(n) => last(k) = l
  <2>1. k \in Nat /\ 1 <= k /\ k <= l - (j - i)  BY <1>1, <1>2, <1>4
  <2>2. /\ first(k) \in 1 .. l /\ last(k) \in 1 .. l /\ first(k) <= last(k)
        /\ k > 1 => first(k) > 1
        /\ k = Len(n) => last(k) = l
    BY <2>1, <1>1, <1>2, <1>4
  <2>3. CASE k < i
    <3>1. n[k] = b[k]  BY <2>3, <1>4
    <3>2. first(k) = k /\ last(k) = k  BY <2>3, <2>1, <1>2
    <3> QED  BY <3>1, <3>2, <2>2
  <2>4. CASE k = i
    <3>1. n[k] = c  BY <2>4, <1>4, <1>2
    <3>2. first(k) = i /\ last(k) = j  BY <2>4, <1>2
    <3> QED  BY <3>1, <3>2, <2>2, <1>3
  <2>5. CASE k > i
    <3>1. n[k] = b[k + (j - i)]  BY <2>5, <1>4, <2>1, <1>2
    <3>2. first(k) = k + (j - i) /\ last(k) = k + (j - i)
      BY <2>5, <1>2, <2>1
    <3> QED  BY <3>1, <3>2, <2>2
  <2> QED  BY <2>1, <2>3, <2>4, <2>5, <1>2
<1>6. ASSUME NEW k \in 1 .. Len(n) - 1
      PROVE  last(k) + 1 = first(k + 1)
  <2>1. k \in Nat /\ 1 <= k  BY <1>1, <1>2, <1>4
  <2> QED  BY <2>1, <1>2
<1>7. \A k, m \in 1 .. Len(n) : k < m => last(k) < first(m)
  BY <1>1, <1>2, <1>4
<1>8. i \in 1 .. Len(n) /\ 1 \in 1 .. Len(n) /\ n[i] = c /\ n # <<>>
  BY <1>1, <1>2, <1>4
<1>9. n[1].lo = b[1].lo  BY <1>2, <1>5, <1>8
<1>10. BaseOf(q, arrived) = BaseOf(r, arrived)
  BY <1>8, <1>9, Bounds DEF BaseOf, b, n
<1>11. Contiguous(n)
  <2>1. SUFFICES ASSUME NEW k \in 1 .. Len(n) - 1
                 PROVE  n[k].hi = n[k + 1].lo
    BY DEF Contiguous
  <2>2. k \in 1 .. Len(n) /\ k + 1 \in 1 .. Len(n)  BY <1>1, <1>2, <1>4
  <2>3. last(k) + 1 = first(k + 1)  BY <1>6
  <2>4. /\ last(k) \in 1 .. l /\ first(k + 1) \in 1 .. l
        /\ n[k].hi = b[last(k)].hi /\ n[k + 1].lo = b[first(k + 1)].lo
    BY <2>2, <1>5
  <2>5. last(k) \in 1 .. l - 1  BY <2>3, <2>4, <1>1
  <2>6. b[last(k)].hi = b[last(k) + 1].lo  BY <2>5, <1>1
  <2> QED  BY <2>3, <2>4, <2>6
<1>12. ASSUME NEW k \in 1 .. Len(n)
       PROVE  /\ n[k].lo <= n[k].hi
              /\ k > 1 \/ k = Len(n) => n[k].lo < n[k].hi
              /\ k = Len(n) => n[k].hi = arrived
  <2>1. CASE first(k) = last(k)  BY <2>1, <1>1, <1>5
  <2>2. CASE first(k) < last(k)
    <3> DEFINE f == first(k)
               g == last(k)
    <3>1. f \in 1 .. l /\ g \in 1 .. l /\ g > 1 /\ f < g
      BY <2>2, <1>5, <1>1
    <3> HIDE DEF f, g
    <3>2. b[f].lo <= b[f].hi /\ b[f].hi <= b[g].lo /\ b[g].lo < b[g].hi
      BY <3>1, <1>1
    <3>3. n[k].lo = b[f].lo /\ n[k].hi = b[g].hi /\ (k = Len(n) => g = l)
      BY <1>5 DEF f, g
    <3>4. /\ b[f].lo \in Nat /\ b[f].hi \in Nat
          /\ b[g].lo \in Nat /\ b[g].hi \in Nat
          /\ g = l => b[g].hi = arrived
      BY <3>1, <1>1
    <3>5. b[f].lo < b[g].hi  BY <3>2, <3>4
    <3> QED  BY <3>3, <3>4, <3>5
  <2>3. first(k) <= last(k) /\ first(k) \in Int /\ last(k) \in Int
    BY <1>5
  <2> QED  BY <2>1, <2>2, <2>3
<1>13. Holds(q, arrived)
  <2>1. q.length = arrived - BaseOf(q, arrived)
    BY <1>10 DEF Sound, Holds
  <2> QED  BY <2>1, <1>11, <1>12 DEF Holds, n
<1>14. ASSUME NEW k \in 1 .. Len(n), NEW m \in 1 .. Len(n), k < m
       PROVE  n[k].hi <= n[m].lo
  <2>1. last(k) \in 1 .. l /\ first(m) \in 1 .. l /\ last(k) < first(m)
    BY <1>5, <1>7, <1>14
  <2>2. n[k].hi = b[last(k)].hi /\ n[m].lo = b[first(m)].lo  BY <1>5
  <2> QED  BY <2>1, <2>2, <1>1
<1>15. ASSUME NEW byte \in BaseOf(q, arrived) .. arrived - 1
       PROVE  \E k \in 1 .. Len(n) : n[k].lo <= byte /\ byte < n[k].hi
  <2>1. PICK m \in 1 .. l : b[m].lo <= byte /\ byte < b[m].hi
    BY <1>10 DEF Sound, Covers, b, l
  <2> DEFINE k == IF m < i THEN m ELSE IF m <= j THEN i ELSE m - (j - i)
  <2>2. k \in 1 .. Len(n) /\ first(k) <= m /\ m <= last(k)
    BY <1>1, <1>2, <1>4
  <2> HIDE DEF k
  <2>3. byte \in Int  BY <1>1, <1>3, <1>10
  <2>4. first(k) \in 1 .. l /\ last(k) \in 1 .. l
        /\ n[k].lo = b[first(k)].lo /\ n[k].hi = b[last(k)].hi
    BY <2>2, <1>5
  <2>5. b[first(k)].lo <= b[m].lo /\ b[m].hi <= b[last(k)].hi
    BY <2>2, <2>4, <1>1
  <2>6. n[k].lo <= byte /\ byte < n[k].hi
    <3> DEFINE f == first(k)
               g == last(k)
    <3>1. f \in 1 .. l /\ g \in 1 .. l /\ n[k].lo = b[f].lo /\ n[k].hi = b[g].hi
      BY <2>4
    <3>2. b[f].lo <= b[m].lo /\ b[m].hi <= b[g].hi  BY <2>5
    <3> HIDE DEF f, g
    <3>3. /\ b[f].lo \in Nat /\ b[g].hi \in Nat
          /\ b[m].lo \in Nat /\ b[m].hi \in Nat
      BY <3>1, <1>1
    <3>4. b[f].lo <= byte
      <4>1. b[m].lo <= byte  BY <2>1
      <4> QED  BY <4>1, <2>3, <3>2, <3>3
    <3>5. byte < b[g].hi
      <4>1. byte < b[m].hi  BY <2>1
      <4> QED  BY <4>1, <2>3, <3>2, <3>3
    <3> QED  BY <3>1, <3>4, <3>5
  <2> QED  BY <2>2, <2>6
<1>16. Covers(q, arrived)
  BY <1>14, <1>15 DEF Covers, n
<1> QED
  BY <1>4, <1>8, <1>9, <1>10, <1>13, <1>16 DEF b, n, c

(* The place after the o-th byte of a buffer is also the first of the next *)
(* one, where a read that ends there goes.                                 *)
LEMMA NextPlace ==
  ASSUME NEW r, NEW arrived, Sound(r, arrived), NEW k \in 1 .. Len(r.buffers),
         NEW o \in Nat, o <= Size(r.buffers[k]),
         NEW offset, offset = r.buffers[k].lo + o - r.buffers[1].lo
  PROVE  LET ends == o = Size(r.buffers[k])
         IN SamePlace(r, offset, IF ends THEN k + 1 ELSE k, IF ends THEN 0 ELSE o)
<1> DEFINE b == r.buffers
<1>1. /\ b \in Seq(Buffer) /\ Len(b) \in Nat /\ arrived \in Nat
      /\ \A m \in 1 .. Len(b) : /\ b[m].lo \in Nat /\ b[m].hi \in Nat
                                /\ b[m].lo <= b[m].hi
                                /\ m = Len(b) => b[m].hi = arrived
      /\ \A m \in 1 .. Len(b) - 1 : b[m].hi = b[m + 1].lo
  BY Order
<1>2. b # <<>> /\ 1 \in 1 .. Len(b)  BY <1>1
<1>3. r.length = arrived - b[1].lo  BY <1>2 DEF Sound, Holds, BaseOf
<1>4. k \in 1 .. Len(b) /\ o <= Size(b[k]) /\ offset = b[k].lo + o - b[1].lo
  OBVIOUS
<1>5. CASE o # Size(b[k])  BY <1>4, <1>5 DEF SamePlace
<1>6. CASE o = Size(b[k])
  <2>1. SUFFICES SamePlace(r, offset, k + 1, 0)  BY <1>6
  <2> HIDE DEF b
  <2>2. o = b[k].hi - b[k].lo  BY <1>6 DEF Size
  <2>3. offset = b[k].hi - b[1].lo
    <3>1. b[k].lo \in Nat /\ b[k].hi \in Nat /\ b[1].lo \in Nat
      BY <1>1, <1>2, <1>4
    <3>2. \A x, y, z \in Nat : x + ((y - x) - z) = y - z  OBVIOUS
    <3>3. offset = b[k].lo + ((b[k].hi - b[k].lo) - b[1].lo)  BY <2>2, <1>4
    <3> QED  BY <3>1, <3>2, <3>3
  <2>4. CASE k = Len(b)
    <3>1. offset = r.length  BY <2>3, <2>4, <1>1, <1>3, <1>4
    <3> QED  BY <3>1, <2>4 DEF SamePlace, b
  <2>5. CASE k # Len(b)
    <3>1. k + 1 \in 1 .. Len(b) /\ k \in 1 .. Len(b) - 1  BY <2>5, <1>1, <1>4
    <3>2. b[k].hi = b[k + 1].lo  BY <3>1, <1>1
    <3>3. offset = b[k + 1].lo + 0 - b[1].lo  BY <2>3, <3>1, <3>2, <1>1, <1>2, SMTT(30)
    <3>4. 0 <= Size(b[k + 1])  BY <3>1, <1>1 DEF Size
    <3> QED  BY <3>1, <3>3, <3>4 DEF SamePlace, b
  <2> QED  BY <2>4, <2>5
<1> QED  BY <1>5, <1>6

(* A reader stays sound when its cursor goes to another place that has two *)
(* forms.                                                                  *)
LEMMA CursorMoves ==
  ASSUME NEW r, NEW arrived, Sound(r, arrived), NEW to \in Nat,
         NEW k \in Nat \ {0}, NEW o \in Nat, SamePlace(r, to, k, o),
         NEW q, q = MoveTo(r, to, k, o)
  PROVE  /\ Sound(q, arrived)
         /\ q.offset = to
         /\ q.buffers = r.buffers
         /\ q.length = r.length
         /\ q.contexts = r.contexts
         /\ q.timestamp = r.timestamp
         /\ BaseOf(q, arrived) = BaseOf(r, arrived)
<1>1. r \in Reader /\ arrived \in Nat  BY DEF Sound
<1>2. /\ q.offset = to /\ q.curBufferIndex = k /\ q.curBufferOffset = o
      /\ q.buffers = r.buffers /\ q.length = r.length
      /\ q.contexts = r.contexts /\ q.timestamp = r.timestamp
      /\ q \in Reader
  BY <1>1 DEF Reader, MoveTo
<1>3. BaseOf(q, arrived) = BaseOf(r, arrived)  BY <1>2 DEF BaseOf
<1>4. Holds(q, arrived) /\ Covers(q, arrived)
  BY <1>2, <1>3 DEF Sound, Holds, Covers
<1>5. CursorOf(q)  BY <1>2 DEF CursorOf, SamePlace
<1> QED  BY <1>1, <1>2, <1>3, <1>4, <1>5 DEF Sound

(***************************************************************************)
(* The methods                                                             *)
(***************************************************************************)

(* Where a read of len bytes starts and ends: in the buffer under the      *)
(* cursor, and in the one LastSpanned finds.                               *)
LEMMA ReadReaches ==
  ASSUME NEW r, NEW arrived, Sound(r, arrived),
         NEW len \in Nat \ {0}, r.offset + len <= r.length,
         NEW b, b = r.buffers, NEW i, i = r.curBufferIndex,
         NEW j, j = LastSpanned(r, len),
         NEW upto, upto = r.curBufferOffset + len,
         NEW pos, pos = PositionOf(r, arrived)
  PROVE  /\ b \in Seq(Buffer) /\ Len(b) \in Nat
         /\ i \in 1 .. Len(b) /\ j \in i .. Len(b) /\ j \in 1 .. Len(b)
         /\ 1 \in 1 .. Len(b)
         /\ b[1].lo \in Nat /\ b[i].lo \in Nat /\ b[i].hi \in Nat
         /\ b[j].lo \in Nat /\ b[j].hi \in Nat
         /\ upto \in Nat \ {0} /\ pos \in Nat
         /\ b[i].lo + r.curBufferOffset = pos
         /\ b[i].lo + upto = pos + len
         /\ r.offset + len = (b[i].lo + upto) - b[1].lo
         /\ b[j].lo - b[i].lo < upto
         /\ upto <= b[j].hi - b[i].lo
<1>1. /\ r \in Reader /\ arrived \in Nat
      /\ r.offset \in Nat /\ r.length \in Nat /\ r.timestamp \in Nat
      /\ r.curBufferOffset \in Nat /\ i \in Nat
  BY DEF Sound, Reader
<1>2. /\ i \in 1 .. Len(b)
      /\ r.curBufferOffset <= Size(b[i])
      /\ b[i].lo + r.curBufferOffset = pos
  BY <1>1, CursorBuffer DEF CurBuffer
<1>3. /\ b \in Seq(Buffer) /\ Len(b) \in Nat
      /\ \A k \in 1 .. Len(b) :
           b[k].lo \in Nat /\ b[k].hi \in Nat /\ b[k].lo <= b[k].hi
  BY Order
<1>4. /\ BaseOf(r, arrived) = b[1].lo /\ b[1].lo \in Nat
      /\ b # <<>> /\ 1 \in 1 .. Len(b)
  BY <1>2, <1>3, Bounds
<1>5. r.length = arrived - b[1].lo  BY <1>4 DEF Sound, Holds
<1>6. pos = b[1].lo + r.offset /\ pos \in Nat  BY <1>1, <1>4 DEF PositionOf
<1>7. pos + len <= arrived
  <2> DEFINE base == b[1].lo
  <2>1. /\ base \in Nat /\ pos = base + r.offset /\ r.length = arrived - base
        /\ len \in Nat /\ r.offset + len <= r.length
    BY <1>4, <1>5, <1>6
  <2> HIDE DEF base
  <2> QED  BY <2>1, <1>1
<1>8. upto \in Nat \ {0} /\ b[i].lo + upto = pos + len
  <2>1. b[i].lo \in Nat /\ pos \in Nat  BY <1>2, <1>3, <1>6
  <2>2. r.curBufferOffset \in Nat /\ len \in Nat /\ len > 0  BY <1>1
  <2>3. r.curBufferOffset + len \in Nat  BY <2>2
  <2>4. r.curBufferOffset + len # 0  BY <2>2
  <2>5. b[i].lo + (r.curBufferOffset + len) = (b[i].lo + r.curBufferOffset) + len
    BY <2>1, <2>2
  <2> QED  BY <2>3, <2>4, <2>5, <1>2
<1>9. /\ j \in i .. Len(b)
      /\ b[j].lo - b[i].lo < upto
      /\ upto <= b[j].hi - b[i].lo
  BY <1>2, <1>7, <1>8, FirstReachingHasLastByte DEF LastSpanned
<1>16. len \in Nat /\ len > 0  OBVIOUS
<1>10. j \in 1 .. Len(b)  BY <1>2, <1>3, <1>9
<1>17. r.offset + len = (b[i].lo + upto) - b[1].lo
  <2>1. b[i].lo \in Nat /\ upto \in Nat  BY <1>2, <1>3, <1>8
  <2>2. b[i].lo + upto = (b[1].lo + r.offset) + len  BY <1>6, <1>8
  <2>3. r.offset + len = (b[i].lo + upto) - b[1].lo
    BY <2>2, <1>1, <1>4, <1>16
  <2> QED  BY <2>3
<1> QED
  BY <1>2, <1>3, <1>4, <1>6, <1>8, <1>9, <1>10, <1>17

(* _consolidate: the cursor moves by len bytes, the bytes it moved over    *)
(* are the ones the read returns, and a merge is told by the timestamp.    *)
LEMMA ConsolidateReads ==
  ASSUME NEW r, NEW arrived, Sound(r, arrived),
         NEW len \in Nat \ {0}, r.offset + len <= r.length,
         NEW q, q = Consolidate(r, len)
  PROVE  /\ Sound(q, arrived)
         /\ q.offset = r.offset + len
         /\ q.length = r.length
         /\ q.contexts = r.contexts
         /\ BaseOf(q, arrived) = BaseOf(r, arrived)
         /\ r.timestamp <= q.timestamp
         /\ q.timestamp = r.timestamp => q.buffers = r.buffers
         /\ ReadOut(r, len) = [lo |-> PositionOf(r, arrived),
                               hi |-> PositionOf(r, arrived) + len]
<1> DEFINE b == r.buffers
           i == r.curBufferIndex
           upto == r.curBufferOffset + len
           j == LastSpanned(r, len)
           pos == PositionOf(r, arrived)
<1>1. /\ r \in Reader /\ arrived \in Nat
      /\ r.offset \in Nat /\ r.length \in Nat /\ r.timestamp \in Nat
      /\ r.curBufferOffset \in Nat /\ i \in Nat \ {0}
  BY DEF Sound, Reader
<1> HIDE DEF b, i, upto, j, pos
<1>2. /\ b \in Seq(Buffer) /\ Len(b) \in Nat
      /\ i \in 1 .. Len(b) /\ j \in i .. Len(b) /\ j \in 1 .. Len(b)
      /\ 1 \in 1 .. Len(b)
      /\ b[1].lo \in Nat /\ b[i].lo \in Nat /\ b[i].hi \in Nat
      /\ b[j].lo \in Nat /\ b[j].hi \in Nat
      /\ upto \in Nat \ {0} /\ pos \in Nat
      /\ b[i].lo + r.curBufferOffset = pos
      /\ b[i].lo + upto = pos + len
      /\ r.offset + len = (b[i].lo + upto) - b[1].lo
      /\ b[j].lo - b[i].lo < upto
      /\ upto <= b[j].hi - b[i].lo
  BY ReadReaches DEF b, i, upto, j, pos
<1>3. pos \in Nat /\ upto \in Nat /\ b[i].lo \in Nat /\ b[i].hi \in Nat
  BY <1>2, Zenon
<1>16. /\ len \in Nat /\ len > 0 /\ r.offset + len \in Nat
       /\ pos + len \in Nat /\ Size(b[i]) \in Int
  BY <1>1, <1>3 DEF Size
<1>17. r.offset + len = b[i].lo + upto - b[1].lo
  <2> DEFINE lo == b[i].lo
             base == b[1].lo
  <2>1. lo \in Nat /\ base \in Nat /\ upto \in Nat /\ r.offset + len = (lo + upto) - base
    BY <1>2
  <2> HIDE DEF lo, base
  <2>2. r.offset + len = lo + (upto - base)  BY <2>1
  <2> QED  BY <2>2 DEF lo, base
<1>11. Concat(b, i, j) = [lo |-> b[i].lo, hi |-> b[j].hi]  BY DEF Concat
<1>12. Consolidated(r, len) = Concat(b, i, j)
  BY DEF Consolidated, b, i, j
<1>13. ReadOut(r, len) = [lo |-> pos, hi |-> pos + len]
  <2>1. b[i].lo + upto <= b[j].hi
    <3> DEFINE lo == b[i].lo
               hi == b[j].hi
    <3>1. lo \in Nat /\ hi \in Nat /\ upto \in Nat /\ upto <= hi - lo  BY <1>2
    <3> HIDE DEF lo, hi
    <3>2. lo + upto <= hi  BY <3>1
    <3> QED  BY <3>2 DEF lo, hi
  <2>2. ReadOut(r, len) = Subarray(Concat(b, i, j), r.curBufferOffset, upto)
    BY <1>12 DEF ReadOut, upto
  <2>3. Subarray(Concat(b, i, j), r.curBufferOffset, upto)
          = [lo |-> b[i].lo + r.curBufferOffset,
             hi |-> IF b[i].lo + upto < b[j].hi THEN b[i].lo + upto ELSE b[j].hi]
    BY <1>11 DEF Subarray
  <2>4. (IF b[i].lo + upto < b[j].hi THEN b[i].lo + upto ELSE b[j].hi) = pos + len
    <3> DEFINE end == b[i].lo + upto
    <3>1. end = pos + len /\ end <= b[j].hi /\ end \in Nat /\ b[j].hi \in Nat
      BY <2>1, <1>2, <1>16, Zenon
    <3> HIDE DEF end
    <3>2. (IF end < b[j].hi THEN end ELSE b[j].hi) = end  BY <3>1
    <3> QED  BY <3>1, <3>2 DEF end
  <2> QED  BY <2>2, <2>3, <2>4, <1>2
<1>14. CASE upto > Size(b[i])
  <2> DEFINE n == Splice(b, i, j, Concat(b, i, j))
  <2>1. q = ReadMerging(r, len)
    BY <1>14 DEF Consolidate, CurBuffer, b, i, upto
  <2>2. q = [r EXCEPT !.offset = r.offset + len, !.curBufferOffset = upto,
                      !.buffers = n, !.timestamp = r.timestamp + 1]
    <3>1. ReadMerging(r, len)
            = [r EXCEPT !.offset = r.offset + len,
                        !.curBufferOffset = r.curBufferOffset + len,
                        !.buffers = Splice(r.buffers, r.curBufferIndex,
                                           LastSpanned(r, len), Consolidated(r, len)),
                        !.timestamp = r.timestamp + 1]
      BY <1>1 DEF ReadMerging, Reader
    <3> QED  BY <2>1, <3>1, <1>12 DEF b, i, j, upto
  <2>7. r.offset + len \in Nat /\ upto \in Nat /\ r.timestamp + 1 \in Nat
    BY <1>1, <1>3, <1>16
  <2> HIDE DEF n
  <2>8. /\ q.offset = r.offset + len /\ q.curBufferOffset = upto
        /\ q.buffers = n
        /\ q.timestamp = r.timestamp + 1
        /\ q.length = r.length /\ q.contexts = r.contexts
        /\ q.curBufferIndex = i
    BY <2>2, <1>1 DEF Reader, i
  <2>9. n \in Seq(Buffer) => q \in Reader
    BY <2>2, <2>7, <1>1 DEF Reader
  <2>3. /\ q.buffers \in Seq(Buffer)
        /\ i \in 1 .. Len(q.buffers)
        /\ q.buffers[i] = Concat(b, i, j)
        /\ q.buffers[1].lo = b[1].lo
        /\ BaseOf(q, arrived) = BaseOf(r, arrived)
        /\ Holds(q, arrived)
        /\ Covers(q, arrived)
    <3>1. i \in 1 .. Len(r.buffers) /\ j \in i .. Len(r.buffers)  BY <1>2 DEF b
    <3>2. q.buffers = Splice(r.buffers, i, j, Concat(r.buffers, i, j))
      BY <2>8 DEF n, b
    <3>3. q.length = r.length  BY <2>8
    <3> HIDE DEF i
    <3> QED  BY <3>1, <3>2, <3>3, MergeKeepsBytes DEF b
  <2>4. q \in Reader  BY <2>3, <2>8, <2>9
  <2>5. CursorOf(q)
    <3>1. upto <= Size(q.buffers[i])  BY <2>3, <1>2, <1>11 DEF Size
    <3>2. r.offset + len = q.buffers[i].lo + upto - q.buffers[1].lo
      <4>1. q.buffers[i].lo = b[i].lo /\ q.buffers[1].lo = b[1].lo
        BY <2>3, <1>11
      <4> QED  BY <4>1, <1>17
    <3> QED  BY <2>8, <2>3, <3>1, <3>2 DEF CursorOf, SamePlace
  <2>6. Sound(q, arrived)  BY <2>3, <2>4, <2>5, <1>1 DEF Sound
  <2> QED  BY <2>8, <2>3, <2>6, <1>1, <1>13 DEF pos
<1>15. CASE ~(upto > Size(b[i]))
  <2> DEFINE ends == upto = Size(b[i])
             k == IF ends THEN i + 1 ELSE i
             o == IF ends THEN 0 ELSE upto
  <2>1. q = MoveTo(r, r.offset + len, k, o)
    <3>1. q = ReadInBuffer(r, len)
      BY <1>15 DEF Consolidate, CurBuffer, b, i, upto
    <3> QED  BY <3>1 DEF ReadInBuffer, CurBuffer, b, i, upto
  <2>2. k \in Nat \ {0} /\ o \in Nat /\ r.offset + len \in Nat
    <3>1. i \in Nat \ {0}  BY <1>1
    <3>2. k \in Nat \ {0}  BY <3>1
    <3>3. o \in Nat  BY <1>3
    <3> QED  BY <3>2, <3>3, <1>16
  <2>3. SamePlace(r, r.offset + len, k, o)
    <3>1. upto <= Size(b[i])  BY <1>3, <1>15, <1>16
    <3> QED  BY <3>1, <1>2, <1>17, NextPlace DEF b
  <2> DEFINE to == r.offset + len
  <2>5. q = MoveTo(r, to, k, o) /\ to \in Nat /\ SamePlace(r, to, k, o)
    BY <2>1, <2>2, <2>3
  <2> HIDE DEF k, o, to, b, i, j, upto, pos, ends
  <2>6. /\ Sound(q, arrived)
        /\ q.offset = to
        /\ q.buffers = r.buffers
        /\ q.length = r.length
        /\ q.contexts = r.contexts
        /\ q.timestamp = r.timestamp
        /\ BaseOf(q, arrived) = BaseOf(r, arrived)
    BY <2>2, <2>5, CursorMoves
  <2>4. /\ Sound(q, arrived) /\ q.offset = r.offset + len
        /\ q.buffers = r.buffers /\ q.length = r.length
        /\ q.contexts = r.contexts /\ q.timestamp = r.timestamp
        /\ BaseOf(q, arrived) = BaseOf(r, arrived)
    BY <2>6 DEF to
  <2> QED  BY <2>4, <1>1, <1>13 DEF pos
<1> QED  BY <1>14, <1>15

(* seek goes to any byte that is held, unless no buffer is under the       *)
(* cursor, and elsewhere does nothing.                                     *)
LEMMA SeekGoes ==
  ASSUME NEW r, NEW arrived, Sound(r, arrived), NEW to \in Int,
         ~SeekThrows(r, to), NEW q, q = Seek(r, to)
  PROVE  /\ Sound(q, arrived)
         /\ q.offset = IF SeekAccepts(r, to) THEN to ELSE r.offset
         /\ q.buffers = r.buffers
         /\ q.length = r.length
         /\ q.contexts = r.contexts
         /\ q.timestamp = r.timestamp
         /\ BaseOf(q, arrived) = BaseOf(r, arrived)
<1>1. CASE r.offset = to \/ ~SeekAccepts(r, to)
  <2>1. q = r  BY <1>1 DEF Seek
  <2> QED  BY <2>1, <1>1
<1>2. CASE ~(r.offset = to \/ ~SeekAccepts(r, to))
  <2> DEFINE b == r.buffers
             c == r.curBufferIndex
             target == Target(r, to)
             i == Holding(b, target)
  <2>1. /\ r \in Reader /\ arrived \in Nat
        /\ r.offset \in Nat /\ r.curBufferOffset \in Nat /\ r.length \in Nat
        /\ c \in Nat \ {0} /\ b \in Seq(Buffer)
        /\ to \in Nat /\ to < r.length
    BY <1>2 DEF Sound, Reader, SeekAccepts
  <2>2. c <= Len(b)  BY <1>2, <2>1, BuffersTyped DEF SeekThrows, PastLastBuffer
  <2>3. /\ Len(b) \in Nat /\ c \in 1 .. Len(b) /\ 1 \in 1 .. Len(b) /\ b # <<>>
        /\ b[1].lo \in Nat /\ b[c].lo \in Nat
    BY <2>1, <2>2, BuffersTyped
  <2>4. r.offset = b[c].lo + r.curBufferOffset - b[1].lo
    BY <2>1, <2>3 DEF Sound, CursorOf, SamePlace
  <2>5. r.length = arrived - b[1].lo /\ BaseOf(r, arrived) = b[1].lo
    BY <2>3 DEF Sound, Holds, BaseOf
  <2>6. target = b[1].lo + to
    <3>1. target = (b[c].lo + r.curBufferOffset) + (to - r.offset)
      BY DEF Target, CurBuffer
    <3> HIDE DEF b, c, target
    <3>2. b[c].lo + r.curBufferOffset = r.offset + b[1].lo  BY <2>1, <2>3, <2>4
    <3>3. target = (r.offset + b[1].lo) + (to - r.offset)  BY <3>1, <3>2
    <3> QED  BY <3>3, <2>1, <2>3
  <2>7. target \in BaseOf(r, arrived) .. arrived - 1
    <3> DEFINE lo == b[1].lo
               held == r.length
    <3>1. /\ lo \in Nat /\ held \in Nat /\ arrived \in Nat /\ to \in Nat
          /\ to < held /\ held = arrived - lo /\ target = lo + to
      BY <2>1, <2>3, <2>5, <2>6
    <3>2. BaseOf(r, arrived) = lo  BY <2>5
    <3> HIDE DEF lo, held, target
    <3>3. target \in lo .. arrived - 1  BY <3>1
    <3> QED  BY <3>2, <3>3
  <2>8. /\ i \in 1 .. Len(b)
        /\ b[i].lo <= target /\ target < b[i].hi
    <3>1. \E k \in 1 .. Len(b) : b[k].lo <= target /\ target < b[k].hi
      BY <2>7 DEF Sound, Covers
    <3> HIDE DEF b, target
    <3> QED  BY <3>1 DEF Holding
  <2>9. q = MoveTo(r, to, i, target - b[i].lo)
    <3>1. ~SeekThrows(r, to) /\ r.offset # to /\ SeekAccepts(r, to)  BY <1>2
    <3> QED  BY <3>1 DEF Seek
  <2> HIDE DEF b, c, target, i
  <2>10. /\ b[i].lo \in Nat /\ b[i].hi \in Nat /\ target \in Nat
         /\ target - b[i].lo \in Nat /\ i \in Nat \ {0}
    <3>1. b[i].lo \in Nat /\ b[i].hi \in Nat  BY <2>1, <2>8, BuffersTyped
    <3>2. target \in Nat  BY <2>1, <2>3, <2>6
    <3> QED  BY <3>1, <3>2, <2>8, <2>3
  <2>11. SamePlace(r, to, i, target - b[i].lo)
    <3>1. target - b[i].lo <= b[i].hi - b[i].lo  BY <2>8, <2>10
    <3>2. to = b[i].lo + ((target - b[i].lo) - b[1].lo)
      <4> DEFINE lo == b[i].lo
                 base == b[1].lo
      <4>1. lo \in Nat /\ base \in Nat /\ target \in Nat /\ target = base + to
        BY <2>3, <2>6, <2>10
      <4> HIDE DEF lo, base
      <4>2. to = lo + ((target - lo) - base)  BY <4>1
      <4> QED  BY <4>2 DEF lo, base
    <3> QED  BY <3>1, <3>2, <2>8 DEF SamePlace, Size, b
  <2>12. /\ Sound(q, arrived) /\ q.offset = to
         /\ q.buffers = r.buffers /\ q.length = r.length
         /\ q.contexts = r.contexts /\ q.timestamp = r.timestamp
         /\ BaseOf(q, arrived) = BaseOf(r, arrived)
    BY <2>1, <2>9, <2>10, <2>11, CursorMoves, SMTT(30)
  <2> QED  BY <2>12, <1>2
<1> QED  BY <1>1, <1>2

(* setContext goes back to the offset of a context: at once when nothing   *)
(* was merged since, and otherwise by seeking it from the nearer end,      *)
(* which it can do only for a byte that is held.                           *)
LEMMA SetContextRestores ==
  ASSUME NEW r, NEW arrived, Sound(r, arrived),
         NEW context \in Context,
         context.timestamp = r.timestamp =>
           SamePlace(r, context.offset, context.curBufferIndex, context.curOffset),
         context.timestamp # r.timestamp => context.offset < r.length,
         NEW q, q = SetContext(r, context)
  PROVE  /\ Sound(q, arrived)
         /\ q.offset = context.offset
         /\ q.buffers = r.buffers
         /\ q.length = r.length
         /\ q.contexts = r.contexts
         /\ q.timestamp = r.timestamp
         /\ BaseOf(q, arrived) = BaseOf(r, arrived)
<1> DEFINE to == context.offset
<1>1. /\ to \in Nat /\ context.curBufferIndex \in Nat \ {0}
      /\ context.curOffset \in Nat
  BY DEF Context
<1>2. CASE context.timestamp = r.timestamp
  <2>1. q = MoveTo(r, to, context.curBufferIndex, context.curOffset)
    BY <1>2 DEF SetContext
  <2> HIDE DEF to
  <2> QED  BY <1>1, <1>2, <2>1, CursorMoves DEF to
<1>3. CASE context.timestamp # r.timestamp
  <2> DEFINE b == r.buffers
             l == Len(b)
             e == NearerEnd(r, to)
  <2>1. /\ b \in Seq(Buffer) /\ r.length \in Nat /\ arrived \in Nat /\ to < r.length
    BY <1>3 DEF Sound, Reader
  <2>2. b # <<>>
    <3>1. b = <<>> => r.length = arrived - arrived
      BY DEF Sound, Holds, BaseOf
    <3> QED  BY <3>1, <2>1, <1>1
  <2>3. /\ l \in Nat \ {0} /\ 1 \in 1 .. l /\ l \in 1 .. l
        /\ b[1].lo \in Nat /\ b[1].hi \in Nat /\ b[l].lo \in Nat /\ b[l].hi \in Nat
    BY <2>1, <2>2, BuffersTyped
  <2>4. b[1].lo <= b[1].hi /\ b[l].lo < b[l].hi /\ b[l].hi = arrived
    BY <2>3, Order
  <2>5. r.length = arrived - b[1].lo  BY <2>2 DEF Sound, Holds, BaseOf
  <2> HIDE DEF b, l, to, e
  <2>6. SamePlace(r, 0, 1, 0)
    <3>1. 0 <= Size(b[1]) /\ 0 = b[1].lo + 0 - b[1].lo  BY <2>3, <2>4 DEF Size
    <3> QED  BY <3>1, <2>3 DEF SamePlace, b, l
  <2>7. SamePlace(r, r.length - 1, l, Size(b[l]) - 1)
    <3>1. Size(b[l]) - 1 <= Size(b[l])  BY <2>3 DEF Size
    <3>2. r.length - 1 = b[l].lo + ((b[l].hi - b[l].lo) - 1) - b[1].lo
      BY <2>1, <2>3, <2>4, <2>5
    <3> QED  BY <3>1, <3>2, <2>3 DEF SamePlace, Size, b, l
  <2>8. r.length - 1 \in Nat /\ Size(b[l]) - 1 \in Nat
    <3>1. r.length \in Nat /\ to \in Nat /\ to < r.length  BY <1>1, <2>1 DEF to
    <3>2. Size(b[l]) = b[l].hi - b[l].lo  BY DEF Size
    <3>3. b[l].hi \in Nat /\ b[l].lo \in Nat /\ b[l].lo < b[l].hi
      BY <2>3, <2>4
    <3> QED  BY <3>1, <3>2, <3>3
  <2>9. /\ Sound(e, arrived)
        /\ e.buffers = r.buffers /\ e.length = r.length
        /\ e.contexts = r.contexts /\ e.timestamp = r.timestamp
        /\ BaseOf(e, arrived) = BaseOf(r, arrived)
        /\ e.curBufferIndex <= l
    <3>1. CASE to < r.length \div 2
      <4>1. e = MoveTo(r, 0, 1, 0)  BY <3>1 DEF NearerEnd, e
      <4>2. 0 \in Nat /\ 1 \in Nat \ {0}  OBVIOUS
      <4>3. e.curBufferIndex = 1  BY <4>1 DEF MoveTo, Sound, Reader
      <4> QED  BY <4>1, <4>2, <4>3, <2>3, <2>6, CursorMoves
    <3>2. CASE ~(to < r.length \div 2)
      <4>1. e = MoveTo(r, r.length - 1, l, Size(b[l]) - 1)
        BY <3>2 DEF NearerEnd, e, l, b
      <4>2. e.curBufferIndex = l  BY <4>1 DEF MoveTo, Sound, Reader
      <4> QED  BY <4>1, <4>2, <2>3, <2>7, <2>8, CursorMoves
    <3> QED  BY <3>1, <3>2
  <2>10. q = Seek(e, to)  BY <1>3 DEF SetContext, e, to
  <2>11. ~SeekThrows(e, to)
    BY <2>3, <2>9 DEF SeekThrows, PastLastBuffer, l, b, Sound, Reader
  <2>12. SeekAccepts(e, to)  BY <1>1, <2>1, <2>9 DEF SeekAccepts
  <2>13. to \in Int  BY <1>1
  <2>14. /\ Sound(q, arrived) /\ q.offset = to
         /\ q.buffers = e.buffers /\ q.length = e.length
         /\ q.contexts = e.contexts /\ q.timestamp = e.timestamp
         /\ BaseOf(q, arrived) = BaseOf(e, arrived)
    BY <2>9, <2>10, <2>11, <2>12, <2>13, SeekGoes
  <2> QED  BY <2>9, <2>14 DEF to
<1> QED  BY <1>2, <1>3

(* readBufferList: the cursor moves by len bytes and nothing is merged.    *)
LEMMA ReadListMoves ==
  ASSUME NEW r, NEW arrived, Sound(r, arrived),
         NEW len \in Nat \ {0}, r.offset + len <= r.length,
         NEW q, q = ReadListBy(r, len)
  PROVE  /\ Sound(q, arrived)
         /\ q.offset = r.offset + len
         /\ q.buffers = r.buffers
         /\ q.length = r.length
         /\ q.contexts = r.contexts
         /\ q.timestamp = r.timestamp
         /\ BaseOf(q, arrived) = BaseOf(r, arrived)
<1> DEFINE b == r.buffers
           i == r.curBufferIndex
           upto == r.curBufferOffset + len
           j == LastSpanned(r, len)
           within == upto - (b[j].lo - b[i].lo)
           ends == within = Size(b[j])
           k == IF ends THEN j + 1 ELSE j
           o == IF ends THEN 0 ELSE within
<1> HIDE DEF b, i, upto, j, within, ends, k, o
<1>1. /\ j \in 1 .. Len(b) /\ Len(b) \in Nat
      /\ b[1].lo \in Nat /\ b[i].lo \in Nat /\ b[j].lo \in Nat /\ b[j].hi \in Nat
      /\ upto \in Nat
      /\ r.offset + len = (b[i].lo + upto) - b[1].lo
      /\ b[j].lo - b[i].lo < upto
      /\ upto <= b[j].hi - b[i].lo
  <2> DEFINE pos == PositionOf(r, arrived)
  <2>1. b = r.buffers /\ i = r.curBufferIndex /\ j = LastSpanned(r, len)
        /\ upto = r.curBufferOffset + len /\ pos = PositionOf(r, arrived)
    BY DEF b, i, j, upto
  <2> HIDE DEF pos
  <2>2. /\ b \in Seq(Buffer) /\ Len(b) \in Nat
        /\ i \in 1 .. Len(b) /\ j \in i .. Len(b) /\ j \in 1 .. Len(b)
        /\ 1 \in 1 .. Len(b)
        /\ b[1].lo \in Nat /\ b[i].lo \in Nat /\ b[i].hi \in Nat
        /\ b[j].lo \in Nat /\ b[j].hi \in Nat
        /\ upto \in Nat \ {0} /\ pos \in Nat
        /\ b[i].lo + r.curBufferOffset = pos
        /\ b[i].lo + upto = pos + len
        /\ r.offset + len = (b[i].lo + upto) - b[1].lo
        /\ b[j].lo - b[i].lo < upto
        /\ upto <= b[j].hi - b[i].lo
    BY ReadReaches DEF b, i, upto, j, pos
  <2> QED  BY <2>2, Zenon
<1>2. /\ within \in Nat /\ within <= Size(b[j])
      /\ r.offset + len = b[j].lo + within - b[1].lo
  <2> DEFINE base == b[1].lo
             start == b[i].lo
             lo == b[j].lo
             hi == b[j].hi
  <2>1. /\ base \in Nat /\ start \in Nat /\ lo \in Nat /\ hi \in Nat /\ upto \in Nat
        /\ r.offset + len = (start + upto) - base
        /\ lo - start < upto /\ upto <= hi - start
        /\ within = upto - (lo - start) /\ Size(b[j]) = hi - lo
    BY <1>1 DEF within, Size
  <2> HIDE DEF base, start, lo, hi
  <2>2. within \in Nat /\ within <= hi - lo  BY <2>1
  <2>3. r.offset + len = lo + (within - base)  BY <2>1
  <2> QED  BY <2>1, <2>2, <2>3 DEF base, lo
<1>3. r.offset + len \in Nat  BY DEF Sound, Reader
<1>4. q = MoveTo(r, r.offset + len, k, o)
  <2>1. len # 0  OBVIOUS
  <2> QED  BY <2>1 DEF ReadListBy, k, o, ends, within, b, i, j, upto
<1>5. SamePlace(r, r.offset + len, k, o)
  BY <1>1, <1>2, NextPlace DEF k, o, ends, b
<1>6. k \in Nat \ {0} /\ o \in Nat  BY <1>1, <1>2, SMTT(30) DEF k, o
<1> QED  BY <1>3, <1>4, <1>5, <1>6, CursorMoves

(* reset: a reader without buffers.                                        *)
LEMMA ResetSound ==
  ASSUME NEW arrived \in Nat, NEW r, r.timestamp \in Nat,
         NEW q, q = ResetReader(r)
  PROVE  /\ Sound(q, arrived)
         /\ BaseOf(q, arrived) = arrived
         /\ q.offset = 0
         /\ q.length = 0
         /\ q.contexts = <<>>
<1> DEFINE time == r.timestamp
<1>1. /\ q.buffers = <<>> /\ q.length = 0 /\ q.offset = 0
      /\ q.curBufferIndex = 1 /\ q.curBufferOffset = 0
      /\ q.timestamp = time /\ q.contexts = <<>>
  BY DEF NewReader, ResetReader
<1>2. q \in Reader
  <2> DEFINE nothing == <<>>
  <2>1. nothing \in Seq(Buffer) /\ nothing \in Seq(Context)  OBVIOUS
  <2>2. q = [buffers |-> nothing, length |-> 0, offset |-> 0,
             curBufferIndex |-> 1, curBufferOffset |-> 0, timestamp |-> time,
             contexts |-> nothing]
    BY DEF NewReader, ResetReader
  <2>3. 0 \in Nat /\ 1 \in Nat \ {0} /\ time \in Nat  OBVIOUS
  <2> HIDE DEF nothing, time
  <2> QED  BY ONLY <2>1, <2>2, <2>3 DEF Reader
<1>3. Len(q.buffers) = 0  BY <1>1
<1>4. BaseOf(q, arrived) = arrived  BY <1>1 DEF BaseOf
<1>5. 1 .. 0 = {} /\ 1 .. 0 - 1 = {} /\ arrived .. arrived - 1 = {}  OBVIOUS
<1>6. Holds(q, arrived) /\ Covers(q, arrived)
  BY <1>1, <1>3, <1>4, <1>5 DEF Holds, Covers, Contiguous
<1>7. CursorOf(q)  BY <1>1, <1>3 DEF CursorOf, SamePlace
<1> QED  BY <1>1, <1>2, <1>4, <1>6, <1>7 DEF Sound

(* appendBuffer: the new bytes follow the ones held, no byte and no place  *)
(* moves.                                                                  *)
LEMMA AppendSound ==
  ASSUME NEW r, NEW arrived, Sound(r, arrived), NEW size \in Nat \ {0},
         NEW q, q = AppendBuffer(r, [lo |-> arrived, hi |-> arrived + size])
  PROVE  /\ Sound(q, arrived + size)
         /\ q.offset = r.offset
         /\ q.length = r.length + size
         /\ q.contexts = r.contexts
         /\ q.timestamp = r.timestamp
         /\ BaseOf(q, arrived + size) = BaseOf(r, arrived)
         /\ \A offset, k, o : SamePlace(r, offset, k, o) /\ o \in Nat =>
                                SamePlace(q, offset, k, o)
<1> DEFINE b == r.buffers
           l == Len(b)
           n == q.buffers
           new == [lo |-> arrived, hi |-> arrived + size]
           base == BaseOf(r, arrived)
<1>1. /\ r \in Reader /\ arrived \in Nat /\ r.length \in Nat
      /\ size \in Nat /\ size > 0 /\ arrived + size \in Nat
      /\ b \in Seq(Buffer) /\ l \in Nat
  BY DEF Sound, Reader
<1>2. new \in Buffer /\ new.lo = arrived /\ new.hi = arrived + size
      /\ Size(new) = size
  BY <1>1 DEF Buffer, Size
<1>3. /\ n = Append(b, new) /\ q.length = r.length + size
      /\ q.offset = r.offset /\ q.curBufferIndex = r.curBufferIndex
      /\ q.curBufferOffset = r.curBufferOffset
      /\ q.contexts = r.contexts /\ q.timestamp = r.timestamp
  BY <1>1, <1>2 DEF AppendBuffer, Reader
<1>4. q \in Reader
  <2>1. Append(b, new) \in Seq(Buffer)  BY <1>1, <1>2
  <2>2. q = [r EXCEPT !.buffers = Append(b, new), !.length = r.length + size]
    BY <1>1, <1>2 DEF AppendBuffer, Reader
  <2>3. r.length + size \in Nat  BY <1>1
  <2> HIDE DEF b, n, new
  <2> QED  BY <2>1, <2>2, <2>3, <1>1 DEF Reader
<1>5. /\ Len(n) = l + 1
      /\ \A k \in 1 .. l : n[k] = b[k]
      /\ n[l + 1] = new
      /\ n # <<>>
  BY <1>1, <1>2, <1>3, SMTT(30)
<1>6. \A k \in 1 .. l : /\ b[k].lo \in Nat /\ b[k].hi \in Nat
                        /\ b[k].lo <= b[k].hi /\ b[k].hi <= arrived
                        /\ k > 1 \/ k = l => b[k].lo < b[k].hi
                        /\ k = l => b[k].hi = arrived
  BY Order, Bounds
<1>7. \A k \in 1 .. l - 1 : b[k].hi = b[k + 1].lo  BY Order
<1>8. r.length = arrived - base  BY DEF Sound, Holds
<1>9. /\ base \in Nat
      /\ l = 0 => base = arrived
      /\ l # 0 => base = b[1].lo
  <2>1. CASE l = 0
    <3>1. b = <<>>  BY <2>1, <1>1
    <3> QED  BY <3>1, <2>1, <1>1 DEF BaseOf
  <2>2. CASE l # 0
    <3>1. b # <<>> /\ 1 \in 1 .. l  BY <2>2, <1>1
    <3> QED  BY <3>1, <2>2, <1>6 DEF BaseOf
  <2> QED  BY <2>1, <2>2
<1>10. BaseOf(q, arrived + size) = n[1].lo  BY <1>5 DEF BaseOf
<1>11. \A offset, k, o : SamePlace(r, offset, k, o) => k \in Nat /\ k <= l + 1
  BY <1>1 DEF SamePlace
<1> HIDE DEF b, l, n, new, base
<1>12. n[1].lo = base
  <2>1. CASE l = 0  BY <2>1, <1>2, <1>5, <1>9
  <2>2. CASE l # 0
    <3>1. 1 \in 1 .. l  BY <2>2, <1>1
    <3> QED  BY <3>1, <2>2, <1>5, <1>9
  <2> QED  BY <2>1, <2>2
<1>13. q.length = (arrived + size) - n[1].lo
  BY <1>1, <1>3, <1>8, <1>9, <1>12
<1>14. Contiguous(n)
  <2>1. SUFFICES ASSUME NEW k \in 1 .. Len(n) - 1
                 PROVE  n[k].hi = n[k + 1].lo
    BY DEF Contiguous
  <2>2. k \in 1 .. l  BY <1>1, <1>5
  <2>3. CASE k = l  BY <2>2, <2>3, <1>2, <1>5, <1>6
  <2>4. CASE k # l
    <3>1. k \in 1 .. l - 1 /\ k + 1 \in 1 .. l  BY <2>2, <2>4, <1>1
    <3> QED  BY <3>1, <2>2, <1>5, <1>7
  <2> QED  BY <2>3, <2>4
<1>15. ASSUME NEW k \in 1 .. Len(n)
       PROVE  /\ n[k].lo <= n[k].hi
              /\ k > 1 \/ k = Len(n) => n[k].lo < n[k].hi
              /\ k = Len(n) => n[k].hi = arrived + size
  <2>1. CASE k = l + 1  BY <2>1, <1>1, <1>2, <1>5
  <2>2. CASE k # l + 1
    <3>1. k \in 1 .. l  BY <2>2, <1>1, <1>5
    <3> QED  BY <3>1, <2>2, <1>5, <1>6
  <2> QED  BY <2>1, <2>2
<1>16. Holds(q, arrived + size)
  BY <1>10, <1>13, <1>14, <1>15 DEF Holds, n
<1>17. ASSUME NEW k \in 1 .. Len(n), NEW m \in 1 .. Len(n), k < m
       PROVE  n[k].hi <= n[m].lo
  <2>1. k \in 1 .. l  BY <1>1, <1>5, <1>17
  <2>2. CASE m = l + 1  BY <2>1, <2>2, <1>2, <1>5, <1>6
  <2>3. CASE m # l + 1
    <3>1. m \in 1 .. l  BY <2>3, <1>1, <1>5
    <3>2. b[k].hi <= b[m].lo  BY <2>1, <3>1, <1>17 DEF Sound, Covers, b, l
    <3> QED  BY <2>1, <3>1, <3>2, <1>5
  <2> QED  BY <2>2, <2>3
<1>18. ASSUME NEW byte \in base .. (arrived + size) - 1
       PROVE  \E k \in 1 .. Len(n) : n[k].lo <= byte /\ byte < n[k].hi
  <2>1. CASE byte < arrived
    <3>1. byte \in base .. arrived - 1  BY <2>1, <1>1, <1>9
    <3>2. PICK k \in 1 .. l : b[k].lo <= byte /\ byte < b[k].hi
      BY <3>1 DEF Sound, Covers, base, b, l
    <3>3. k \in 1 .. Len(n) /\ n[k] = b[k]  BY <1>1, <1>5
    <3> QED  BY <3>2, <3>3
  <2>2. CASE ~(byte < arrived)
    <3>1. l + 1 \in 1 .. Len(n)  BY <1>1, <1>5
    <3>2. arrived <= byte /\ byte < arrived + size  BY <2>2, <1>1, <1>9
    <3>3. n[l + 1].lo = arrived /\ n[l + 1].hi = arrived + size  BY <1>2, <1>5
    <3> QED  BY <3>1, <3>2, <3>3
  <2> QED  BY <2>1, <2>2
<1>19. Covers(q, arrived + size)
  BY <1>10, <1>12, <1>17, <1>18 DEF Covers, n
<1>20. ASSUME NEW offset, NEW k, NEW o, SamePlace(r, offset, k, o), o \in Nat
       PROVE  SamePlace(q, offset, k, o)
  <2>1. CASE /\ k \in 1 .. l /\ o <= Size(b[k])
             /\ offset = b[k].lo + o - b[1].lo
    <3>1. 1 \in 1 .. l /\ k \in 1 .. Len(n)  BY <2>1, <1>1, <1>5
    <3>2. n[k] = b[k] /\ n[1] = b[1]  BY <2>1, <3>1, <1>5
    <3> QED  BY <2>1, <3>1, <3>2 DEF SamePlace, n
  <2>2. CASE k = l + 1 /\ o = 0 /\ offset = r.length
    <3>1. k \in 1 .. Len(n)  BY <2>2, <1>1, <1>5
    <3>2. n[k] = new  BY <2>2, <1>5
    <3>3. offset = n[k].lo + 0 - n[1].lo
      BY <2>2, <3>2, <1>1, <1>2, <1>8, <1>9, <1>12
    <3>4. 0 <= Size(n[k])  BY <3>2, <1>1, <1>2
    <3> QED  BY <2>2, <3>1, <3>3, <3>4 DEF SamePlace, n
  <2> QED  BY <2>1, <2>2, <1>20 DEF SamePlace, b, l
<1>21. CursorOf(q)
  BY <1>1, <1>3, <1>20 DEF CursorOf, Sound, Reader
<1> QED
  BY <1>1, <1>3, <1>4, <1>10, <1>12, <1>16, <1>19, <1>20, <1>21 DEF Sound, base

(* The cursor is among the bytes held, or after the last of them.          *)
LEMMA OffsetInLength ==
  ASSUME NEW r, NEW arrived, Sound(r, arrived)
  PROVE  r.offset \in Nat /\ r.length \in Nat /\ r.offset <= r.length
<1> DEFINE b == r.buffers
           k == r.curBufferIndex
           w == r.curBufferOffset
<1>1. /\ r.offset \in Nat /\ r.length \in Nat /\ arrived \in Nat /\ w \in Nat
  BY DEF Sound, Reader
<1>2. CASE k \in 1 .. Len(b) /\ w <= Size(b[k]) /\ r.offset = b[k].lo + w - b[1].lo
  <2>1. /\ b[1].lo \in Nat /\ b[k].lo \in Nat /\ b[k].hi \in Nat
        /\ b[k].hi <= arrived /\ BaseOf(r, arrived) = b[1].lo
    BY <1>2, Bounds
  <2>2. r.length = arrived - b[1].lo  BY <2>1 DEF Sound, Holds
  <2> DEFINE base == b[1].lo
             lo == b[k].lo
             hi == b[k].hi
  <2>3. /\ base \in Nat /\ lo \in Nat /\ hi \in Nat /\ hi <= arrived
        /\ r.length = arrived - base /\ w <= hi - lo /\ r.offset = lo + (w - base)
    BY <1>2, <2>1, <2>2 DEF Size
  <2> HIDE DEF b, k, w, base, lo, hi
  <2> QED  BY <2>3, <1>1
<1>3. CASE r.offset = r.length  BY <1>1, <1>3
<1> QED  BY <1>1, <1>2, <1>3 DEF Sound, CursorOf, SamePlace

(* reduce forgets the buffers before the cursor and nothing else.          *)
LEMMA DropSound ==
  ASSUME NEW r, NEW arrived, Sound(r, arrived), r.offset < r.length,
         NEW q, q = DropReadBuffers(r)
  PROVE  /\ Sound(q, arrived)
         /\ q.curBufferIndex = 1
         /\ q.offset = q.curBufferOffset
         /\ q.offset < q.length
         /\ PositionOf(q, arrived) = PositionOf(r, arrived)
         /\ BaseOf(r, arrived) <= BaseOf(q, arrived)
         /\ q.contexts = r.contexts
         /\ q.timestamp = r.timestamp
<1> DEFINE b == r.buffers
           l == Len(b)
           c == r.curBufferIndex
           w == r.curBufferOffset
           n == q.buffers
           base == b[1].lo
           lo == b[c].lo
<1>1. /\ r \in Reader /\ arrived \in Nat /\ r.length \in Nat /\ r.offset \in Nat
      /\ w \in Nat /\ b \in Seq(Buffer) /\ l \in Nat
  BY DEF Sound, Reader
<1>2. /\ c \in 1 .. l /\ w <= Size(b[c])
      /\ lo + w = PositionOf(r, arrived)
  BY CursorBuffer DEF CurBuffer
<1>3. /\ base \in Nat /\ lo \in Nat /\ base <= lo
      /\ BaseOf(r, arrived) = base /\ PositionOf(r, arrived) = base + r.offset
  BY <1>2, Bounds DEF PositionOf
<1>4. r.length = arrived - base  BY <1>3 DEF Sound, Holds
<1>5. \A k \in 1 .. l : /\ b[k].lo \in Nat /\ b[k].hi \in Nat
                        /\ b[k].lo <= b[k].hi
                        /\ k > 1 \/ k = l => b[k].lo < b[k].hi
                        /\ k = l => b[k].hi = arrived
  BY Order
<1>6. \A k \in 1 .. l - 1 : b[k].hi = b[k + 1].lo  BY Order
<1>7. \A k, m \in 1 .. l : k < m => b[k].hi <= b[m].lo  BY Order
<1>8. r.length - (r.offset - w) = arrived - lo
  <2> HIDE DEF b, l, c, w, n, base, lo
  <2>1. lo + w = base + r.offset  BY <1>2, <1>3
  <2> QED  BY <2>1, <1>1, <1>3, <1>4
<1>9. arrived - lo \in Nat /\ w < arrived - lo
  <2> HIDE DEF b, l, c, w, n, base, lo
  <2>1. lo + w = base + r.offset  BY <1>2, <1>3
  <2> QED  BY <2>1, <1>1, <1>3, <1>4
<1>10. q = [r EXCEPT !.buffers = SubSeq(b, c, l), !.length = arrived - lo,
                     !.offset = w, !.curBufferIndex = 1]
  <2>1. q = [r EXCEPT !.buffers = SubSeq(b, c, l),
                      !.length = r.length - (r.offset - w),
                      !.offset = w, !.curBufferIndex = 1]
    BY <1>1 DEF DropReadBuffers, Reader
  <2> QED  BY <2>1, <1>8
<1>11. /\ SubSeq(b, c, l) \in Seq(Buffer)
       /\ Len(SubSeq(b, c, l)) = l + 1 - c
       /\ \A k \in 1 .. l + 1 - c : SubSeq(b, c, l)[k] = b[c + k - 1]
  <2>1. c \in 1 .. l + 1 /\ l \in c - 1 .. l  BY <1>1, <1>2
  <2> HIDE DEF b, l, c
  <2>2. b \in Seq(Buffer) /\ c \in 1 .. Len(b) + 1 /\ l \in c - 1 .. Len(b)
    BY <1>1, <2>1 DEF l
  <2>3. /\ SubSeq(b, c, l) \in Seq(Buffer)
        /\ Len(SubSeq(b, c, l)) = IF c <= l THEN l - c + 1 ELSE 0
        /\ \A k \in 1 .. l - c + 1 : SubSeq(b, c, l)[k] = b[c + k - 1]
    BY <2>2, SubSeqProperties, SMTT(30)
  <2>4. l - c + 1 = l + 1 - c /\ c <= l  BY <1>1, <1>2
  <2> QED  BY <2>3, <2>4
<1> HIDE DEF b, l, c, w, n, base, lo
<1>12. /\ n = SubSeq(b, c, l) /\ q.length = arrived - lo /\ q.offset = w
       /\ q.curBufferIndex = 1 /\ q.curBufferOffset = w
       /\ q.contexts = r.contexts /\ q.timestamp = r.timestamp
  BY <1>1, <1>10 DEF Reader, n, w
<1>13. q \in Reader
  <2>1. 1 \in Nat \ {0}  OBVIOUS
  <2> QED  BY <2>1, <1>1, <1>9, <1>10, <1>11 DEF Reader
<1>14. /\ Len(n) = l + 1 - c /\ Len(n) \in Nat /\ n # <<>> /\ n \in Seq(Buffer)
       /\ 1 \in 1 .. Len(n)
  <2>1. Len(n) = l + 1 - c /\ n \in Seq(Buffer)  BY <1>11, <1>12
  <2>2. l + 1 - c \in Nat /\ 1 <= l + 1 - c  BY <1>1, <1>2
  <2>3. Len(n) # 0  BY <2>1, <2>2
  <2>4. n # <<>>  BY <2>3
  <2> QED  BY <2>1, <2>2, <2>4
<1>15. \A k \in 1 .. Len(n) :
         /\ n[k] = b[k + (c - 1)]
         /\ k + (c - 1) \in 1 .. l
         /\ k > 1 => k + (c - 1) > 1
         /\ k = Len(n) => k + (c - 1) = l
  <2>1. SUFFICES ASSUME NEW k \in 1 .. Len(n)
                 PROVE  /\ n[k] = b[k + (c - 1)]
                        /\ k + (c - 1) \in 1 .. l
                        /\ k > 1 => k + (c - 1) > 1
                        /\ k = Len(n) => k + (c - 1) = l
    OBVIOUS
  <2>2. k \in 1 .. l + 1 - c  BY <1>14
  <2>3. n[k] = b[c + k - 1]  BY <2>2, <1>11, <1>12
  <2>4. c + k - 1 = k + (c - 1)  BY <2>2, <1>1, <1>2
  <2> QED  BY <2>2, <2>3, <2>4, <1>1, <1>2, <1>14
<1>16. n[1] = b[c] /\ n[1].lo = lo
  <2>1. n[1] = b[1 + (c - 1)] /\ 1 + (c - 1) = c  BY <1>2, <1>14, <1>15
  <2> QED  BY <2>1 DEF lo
<1>17. BaseOf(q, arrived) = lo  BY <1>14, <1>16 DEF BaseOf, n
<1>18. Holds(q, arrived)
  <2>1. Contiguous(n)
    <3>1. SUFFICES ASSUME NEW k \in 1 .. Len(n) - 1
                   PROVE  n[k].hi = n[k + 1].lo
      BY DEF Contiguous
    <3>2. k \in 1 .. Len(n) /\ k + 1 \in 1 .. Len(n)  BY <1>14
    <3>3. n[k] = b[k + (c - 1)] /\ n[k + 1] = b[(k + 1) + (c - 1)]
      BY <3>2, <1>15
    <3>4. (k + 1) + (c - 1) = (k + (c - 1)) + 1 /\ k + (c - 1) \in 1 .. l - 1
      BY <3>2, <1>1, <1>2, <1>14
    <3> QED  BY <3>3, <3>4, <1>6
  <2>2. ASSUME NEW k \in 1 .. Len(n)
        PROVE  /\ n[k].lo <= n[k].hi
               /\ k > 1 \/ k = Len(n) => n[k].lo < n[k].hi
               /\ k = Len(n) => n[k].hi = arrived
    BY <1>5, <1>15
  <2> QED  BY <2>1, <2>2, <1>12, <1>17 DEF Holds, n
<1>19. Covers(q, arrived)
  <2>1. ASSUME NEW k \in 1 .. Len(n), NEW m \in 1 .. Len(n), k < m
        PROVE  n[k].hi <= n[m].lo
    <3>1. k + (c - 1) < m + (c - 1)  BY <2>1, <1>2, <1>14
    <3> QED  BY <3>1, <1>7, <1>15
  <2>2. ASSUME NEW byte \in lo .. arrived - 1
        PROVE  \E k \in 1 .. Len(n) : n[k].lo <= byte /\ byte < n[k].hi
    <3>1. byte \in base .. arrived - 1  BY <1>1, <1>3
    <3>2. PICK m \in 1 .. l : b[m].lo <= byte /\ byte < b[m].hi
      BY <3>1, <1>3 DEF Sound, Covers, b, l
    <3>3. c <= m
      <4>1. SUFFICES ASSUME m < c PROVE FALSE  BY <1>1, <1>2
      <4>2. b[m].hi <= lo  BY <4>1, <1>2, <1>7 DEF lo
      <4> QED  BY <4>2, <3>2, <1>3, <1>5
    <3>4. m - (c - 1) \in 1 .. Len(n) /\ (m - (c - 1)) + (c - 1) = m
      BY <3>3, <1>1, <1>2, <1>14
    <3>5. n[m - (c - 1)] = b[m]  BY <3>4, <1>15
    <3> QED  BY <3>2, <3>4, <3>5
  <2> QED  BY <2>1, <2>2, <1>17 DEF Covers, n
<1>20. CursorOf(q)
  <2>1. w = lo + w - lo  BY <1>1, <1>3
  <2> QED  BY <2>1, <1>2, <1>12, <1>14, <1>16 DEF CursorOf, SamePlace, n
<1>21. PositionOf(q, arrived) = PositionOf(r, arrived)
  BY <1>2, <1>12, <1>17 DEF PositionOf
<1> QED
  BY <1>1, <1>3, <1>9, <1>12, <1>13, <1>17, <1>18, <1>19, <1>20, <1>21 DEF Sound

(* ... and when the first buffer holds many bytes before the cursor, only  *)
(* those.                                                                  *)
LEMMA TrimSound ==
  ASSUME NEW r, NEW arrived, Sound(r, arrived), r.offset < r.length,
         r.curBufferIndex = 1, r.offset = r.curBufferOffset,
         NEW q, q = TrimFirstBuffer(r)
  PROVE  /\ Sound(q, arrived)
         /\ PositionOf(q, arrived) = PositionOf(r, arrived)
         /\ BaseOf(r, arrived) <= BaseOf(q, arrived)
         /\ q.contexts = r.contexts
         /\ q.timestamp = r.timestamp
<1> DEFINE b == r.buffers
           l == Len(b)
           w == r.curBufferOffset
           n == q.buffers
           base == b[1].lo
           cut == [lo |-> base + w, hi |-> b[1].hi]
<1>1. /\ r \in Reader /\ arrived \in Nat /\ r.length \in Nat /\ r.offset \in Nat
      /\ w \in Nat /\ b \in Seq(Buffer) /\ l \in Nat
  BY DEF Sound, Reader
<1>2. 1 \in 1 .. l /\ w <= Size(b[1])  BY CursorBuffer DEF CurBuffer
<1>3. /\ base \in Nat /\ b # <<>>
      /\ BaseOf(r, arrived) = base /\ PositionOf(r, arrived) = base + r.offset
  BY <1>2, Bounds DEF PositionOf
<1>4. r.length = arrived - base  BY <1>3 DEF Sound, Holds
<1>5. \A k \in 1 .. l : /\ b[k].lo \in Nat /\ b[k].hi \in Nat
                        /\ b[k].lo <= b[k].hi
                        /\ k > 1 \/ k = l => b[k].lo < b[k].hi
                        /\ k = l => b[k].hi = arrived
  BY Order
<1>6. \A k \in 1 .. l - 1 : b[k].hi = b[k + 1].lo  BY Order
<1>7. \A k, m \in 1 .. l : k < m => b[k].hi <= b[m].lo  BY Order
<1>8. CASE q = r
  <2>1. BaseOf(r, arrived) <= BaseOf(r, arrived)  BY <1>3
  <2> QED  BY <1>8, <2>1
<1>9. CASE q # r
  <2>1. q = [r EXCEPT !.buffers[1].lo = @ + w, !.length = @ - w,
                      !.offset = @ - w, !.curBufferOffset = 0]
    BY <1>9 DEF TrimFirstBuffer
  <2>2. cut \in Buffer /\ cut.lo = base + w /\ cut.hi = b[1].hi
        /\ base + w <= b[1].hi /\ b[1].hi \in Nat
    <3>1. b[1].hi \in Nat /\ w <= b[1].hi - base  BY <1>2, <1>5 DEF Size
    <3>2. base + w \in Nat /\ base + w <= b[1].hi
      <4> DEFINE hi == b[1].hi
      <4>1. hi \in Nat /\ w <= hi - base  BY <3>1
      <4> HIDE DEF base, hi, w
      <4>2. base + w <= hi /\ base + w \in Nat  BY <4>1, <1>1, <1>3
      <4> QED  BY <4>2 DEF hi
    <3> QED  BY <3>1, <3>2 DEF Buffer
  <2>3. [b EXCEPT ![1].lo = base + w] = [b EXCEPT ![1] = cut]
    <3>1. b[1] \in Buffer  BY <1>1, <1>2
    <3>2. [b[1] EXCEPT !.lo = base + w] = cut  BY <3>1 DEF Buffer
    <3> HIDE DEF cut, base
    <3> QED  BY <3>2
  <2>4. r.offset - w = 0 /\ r.length - w = arrived - (base + w) /\ r.length - w \in Nat
    <3> HIDE DEF base, w
    <3>1. r.offset = w  BY DEF w
    <3> QED  BY <3>1, <1>1, <1>3, <1>4
  <2>5. q = [r EXCEPT !.buffers = [b EXCEPT ![1] = cut],
                      !.length = r.length - w, !.offset = r.offset - w,
                      !.curBufferOffset = 0]
    <3>1. q = [r EXCEPT !.buffers = [b EXCEPT ![1].lo = base + w],
                        !.length = r.length - w, !.offset = r.offset - w,
                        !.curBufferOffset = 0]
      BY <2>1, <1>1 DEF Reader
    <3> QED  BY <3>1, <2>3
  <2>6. [b EXCEPT ![1] = cut] \in Seq(Buffer) /\ Len([b EXCEPT ![1] = cut]) = l
        /\ [b EXCEPT ![1] = cut][1] = cut
        /\ \A k \in 1 .. l : k # 1 => [b EXCEPT ![1] = cut][k] = b[k]
    <3> HIDE DEF b, cut
    <3> QED  BY <1>1, <1>2, <2>2 DEF l
  <2> HIDE DEF b, l, w, n, base, cut
  <2>7. /\ n = [b EXCEPT ![1] = cut] /\ q.length = arrived - (base + w)
        /\ q.offset = 0 /\ q.curBufferIndex = 1 /\ q.curBufferOffset = 0
        /\ q.contexts = r.contexts /\ q.timestamp = r.timestamp
    BY <1>1, <2>4, <2>5 DEF Reader, n
  <2>8. q \in Reader
    <3>1. 0 \in Nat /\ r.length - w \in Nat /\ r.offset - w \in Nat  BY <2>4
    <3> QED  BY <3>1, <2>5, <2>6, <1>1 DEF Reader
  <2>9. Len(n) = l /\ n # <<>> /\ n[1] = cut
        /\ \A k \in 1 .. l : k # 1 => n[k] = b[k]
    <3>1. Len(n) = l /\ n[1] = cut /\ \A k \in 1 .. l : k # 1 => n[k] = b[k]
      BY <2>6, <2>7
    <3>2. Len(n) # 0  BY <3>1, <1>1, <1>2
    <3> QED  BY <3>1, <3>2
  <2>10. BaseOf(q, arrived) = base + w  BY <2>2, <2>9 DEF BaseOf, n
  <2>11. \A k \in 1 .. l : n[k].hi = b[k].hi  BY <2>2, <2>9
  <2>12. \A k \in 1 .. l : k # 1 => n[k].lo = b[k].lo  BY <2>9
  <2>13. Holds(q, arrived)
    <3>1. Contiguous(n)
      <4>1. SUFFICES ASSUME NEW k \in 1 .. l - 1 PROVE n[k].hi = n[k + 1].lo
        BY <2>9 DEF Contiguous
      <4>2. k \in 1 .. l /\ k + 1 \in 1 .. l /\ k + 1 # 1  BY <1>1
      <4> QED  BY <4>2, <2>11, <2>12, <1>6
    <3>2. ASSUME NEW k \in 1 .. l
          PROVE  /\ n[k].lo <= n[k].hi
                 /\ k > 1 \/ k = l => n[k].lo < n[k].hi
                 /\ k = l => n[k].hi = arrived
      <4>1. CASE k # 1  BY <4>1, <2>9, <1>5
      <4>2. CASE k = 1
        <5>1. n[k].lo = base + w /\ n[k].hi = b[1].hi  BY <4>2, <2>2, <2>9
        <5>2. CASE l = 1
          <6>1. b[1].hi = arrived  BY <5>2, <1>2, <1>5
          <6>2. base + w < arrived
            <7>1. w = r.offset  BY DEF w
            <7> QED  BY <7>1, <1>1, <1>3, <1>4
          <6> QED  BY <4>2, <5>1, <6>1, <6>2, <2>2
        <5>3. CASE l # 1
          <6>1. ~(k > 1 \/ k = l)  BY <4>2, <5>3
          <6> QED  BY <6>1, <5>1, <2>2
        <5> QED  BY <5>2, <5>3
      <4> QED  BY <4>1, <4>2
    <3> QED  BY <3>1, <3>2, <2>7, <2>9, <2>10 DEF Holds, n
  <2>14. Covers(q, arrived)
    <3>1. ASSUME NEW k \in 1 .. l, NEW m \in 1 .. l, k < m
          PROVE  n[k].hi <= n[m].lo
      <4>1. m # 1  BY <3>1, <1>1
      <4> QED  BY <4>1, <3>1, <2>11, <2>12, <1>7
    <3>2. ASSUME NEW byte \in base + w .. arrived - 1
          PROVE  \E k \in 1 .. l : n[k].lo <= byte /\ byte < n[k].hi
      <4>1. byte \in base .. arrived - 1  BY <1>1, <1>3
      <4>2. PICK k \in 1 .. l : b[k].lo <= byte /\ byte < b[k].hi
        BY <4>1, <1>3 DEF Sound, Covers, b, l
      <4>3. n[k].lo <= byte
        <5>1. CASE k = 1
          <6>1. n[k].lo = base + w  BY <5>1, <2>2, <2>9
          <6> QED  BY <6>1, <1>1, <1>3
        <5>2. CASE k # 1  BY <5>2, <4>2, <2>12
        <5> QED  BY <5>1, <5>2
      <4> QED  BY <4>2, <4>3, <2>11
    <3> QED  BY <3>1, <3>2, <2>9, <2>10 DEF Covers, n
  <2>15. CursorOf(q)
    <3>1. n[1].lo = base + w /\ n[1].hi = b[1].hi /\ b[1].hi \in Nat /\ base + w \in Nat
      BY <2>2, <2>9, <1>1, <1>3
    <3>2. 0 <= Size(n[1]) /\ 0 = n[1].lo + 0 - n[1].lo  BY <3>1, <2>2 DEF Size
    <3> QED  BY <3>2, <2>7, <2>9, <1>2 DEF CursorOf, SamePlace, n
  <2>16. base <= base + w /\ (base + w) + 0 = base + r.offset
    <3>1. w = r.offset  BY DEF w
    <3> QED  BY <3>1, <1>1, <1>3
  <2> QED
    BY <2>7, <2>8, <2>10, <2>13, <2>14, <2>15, <2>16, <1>1, <1>3
       DEF Sound, PositionOf
<1> QED  BY <1>8, <1>9

(* reduce releases only bytes that were read.                              *)
LEMMA ReduceSound ==
  ASSUME NEW r, NEW arrived, Sound(r, arrived), r.contexts = <<>>,
         NEW q, q = ReduceReader(r)
  PROVE  /\ Sound(q, arrived)
         /\ PositionOf(q, arrived) = PositionOf(r, arrived)
         /\ BaseOf(r, arrived) <= BaseOf(q, arrived)
         /\ q.contexts = <<>>
<1>1. /\ r \in Reader /\ arrived \in Nat /\ r.timestamp \in Nat
      /\ r.offset \in Nat /\ r.length \in Nat /\ r.offset <= r.length
  BY OffsetInLength DEF Sound, Reader
<1>2. r.length = arrived - BaseOf(r, arrived)  BY DEF Sound, Holds
<1>3. BaseOf(r, arrived) \in Nat  BY BaseIsNat
<1>4. CASE CheckEOF(r, 1)
  <2>1. r.offset = r.length  BY <1>1, <1>4 DEF CheckEOF
  <2>2. q = ResetReader(r)  BY <1>4 DEF ReduceReader
  <2>3. /\ Sound(q, arrived) /\ BaseOf(q, arrived) = arrived
        /\ q.offset = 0 /\ q.contexts = <<>>
    BY <2>2, <1>1, ResetSound
  <2>4. BaseOf(r, arrived) + r.length = arrived  BY <1>1, <1>2, <1>3
  <2> QED  BY <2>1, <2>3, <2>4, <1>1, <1>2, <1>3 DEF PositionOf
<1>5. CASE ~CheckEOF(r, 1)
  <2> DEFINE d == DropReadBuffers(r)
  <2>1. r.offset < r.length  BY <1>1, <1>5 DEF CheckEOF
  <2>2. q = TrimFirstBuffer(d)  BY <1>5 DEF ReduceReader
  <2> HIDE DEF d
  <2>3. /\ Sound(d, arrived) /\ d.curBufferIndex = 1
        /\ d.offset = d.curBufferOffset /\ d.offset < d.length
        /\ PositionOf(d, arrived) = PositionOf(r, arrived)
        /\ BaseOf(r, arrived) <= BaseOf(d, arrived)
        /\ d.contexts = r.contexts
    BY <2>1, DropSound DEF d
  <2>4. /\ Sound(q, arrived)
        /\ PositionOf(q, arrived) = PositionOf(d, arrived)
        /\ BaseOf(d, arrived) <= BaseOf(q, arrived)
        /\ q.contexts = d.contexts
    BY <2>2, <2>3, TrimSound
  <2>5. BaseOf(d, arrived) \in Nat /\ BaseOf(q, arrived) \in Nat
    BY <2>3, <2>4, BaseIsNat
  <2> QED  BY <2>3, <2>4, <2>5, <1>3
<1> QED  BY <1>4, <1>5

(* What reduce leaves before the cursor is little: no more than the        *)
(* threshold, or than half of what is held.                                *)
LEMMA ReduceTrims ==
  ASSUME NEW r, NEW arrived, Sound(r, arrived),
         NEW q, q = ReduceReader(r)
  PROVE  q.offset <= ReduceThreshold \/ 2 * q.offset <= q.length
<1>1. /\ r.timestamp \in Nat /\ r.offset \in Nat /\ r.length \in Nat
      /\ r.offset <= r.length /\ ReduceThreshold \in Nat /\ arrived \in Nat
  BY OffsetInLength, ReduceThresholdAssumption DEF Sound, Reader
<1>2. CASE CheckEOF(r, 1)
  <2>1. q.offset = 0  BY <1>1, <1>2, ResetSound DEF ReduceReader
  <2> QED  BY <1>1, <2>1
<1>3. CASE ~CheckEOF(r, 1)
  <2> DEFINE d == DropReadBuffers(r)
             w == d.curBufferOffset
             size == Size(d.buffers[1])
  <2>1. r.offset < r.length  BY <1>1, <1>3 DEF CheckEOF
  <2>2. q = TrimFirstBuffer(d)  BY <1>3 DEF ReduceReader
  <2>3. /\ Sound(d, arrived) /\ d.curBufferIndex = 1
        /\ d.offset = w /\ d.offset < d.length
    BY <2>1, DropSound
  <2> HIDE DEF d
  <2>4. 1 \in 1 .. Len(d.buffers) /\ w \in Nat /\ w <= size
    BY <2>3, CursorBuffer DEF CurBuffer
  <2>5. size \in Nat /\ size <= d.length
    <3>1. /\ d.buffers[1].lo \in Nat /\ d.buffers[1].hi \in Nat
          /\ d.buffers[1].lo <= d.buffers[1].hi /\ d.buffers[1].hi <= arrived
          /\ BaseOf(d, arrived) = d.buffers[1].lo
      BY <2>3, <2>4, Bounds
    <3>2. d.length = arrived - d.buffers[1].lo  BY <2>3, <3>1 DEF Sound, Holds
    <3> QED  BY <1>1, <3>1, <3>2 DEF Size
  <2>6. CASE size > ReduceThreshold /\ w > size \div 2
    <3>1. q = [d EXCEPT !.buffers[1].lo = @ + w, !.length = @ - w,
                        !.offset = @ - w, !.curBufferOffset = 0]
      BY <2>2, <2>6 DEF TrimFirstBuffer
    <3>2. d \in Reader  BY <2>3 DEF Sound
    <3>3. q.offset = d.offset - w  BY <3>1, <3>2 DEF Reader
    <3> QED  BY <1>1, <2>3, <2>4, <3>3
  <2>7. CASE ~(size > ReduceThreshold /\ w > size \div 2)
    <3>1. q = d  BY <2>2, <2>7 DEF TrimFirstBuffer
    <3>2. d.length \in Nat  BY <2>3 DEF Sound, Reader
    <3>3. CASE size <= ReduceThreshold  BY <1>1, <2>3, <2>4, <2>5, <3>1, <3>3
    <3>4. CASE w <= size \div 2
      <4>1. 2 * w <= size  BY <2>4, <2>5, <3>4
      <4> QED  BY <2>3, <2>4, <2>5, <3>1, <3>2, <4>1
    <3> QED  BY <1>1, <2>4, <2>5, <2>7, <3>3, <3>4
  <2> QED  BY <2>6, <2>7
<1> QED  BY <1>2, <1>3

(* The places of a sound reader are numbers, and the bytes not yet read    *)
(* are those from the cursor to the last that arrived.                     *)
LEMMA Positions ==
  ASSUME NEW r, NEW bytes, Sound(r, bytes)
  PROVE  /\ bytes \in Nat
         /\ BaseOf(r, bytes) \in Nat
         /\ PositionOf(r, bytes) = BaseOf(r, bytes) + r.offset
         /\ PositionOf(r, bytes) \in BaseOf(r, bytes) .. bytes
         /\ r.length - r.offset = bytes - PositionOf(r, bytes)
<1>1. bytes \in Nat  BY DEF Sound
<1>2. BaseOf(r, bytes) \in Nat  BY BaseIsNat
<1>3. r.offset \in Nat /\ r.length \in Nat /\ r.offset <= r.length
  BY OffsetInLength
<1>4. r.length = bytes - BaseOf(r, bytes)  BY DEF Sound, Holds
<1> QED  BY <1>1, <1>2, <1>3, <1>4 DEF PositionOf

(* A read takes no more than what is there.                                *)
LEMMA TakenIsThere ==
  ASSUME NEW r, NEW arrived, Sound(r, arrived), NEW len \in Int \cup {NoLen}
  PROVE  Taken(r, len) \in Nat /\ r.offset + Taken(r, len) <= r.length
<1>1. r.offset \in Nat /\ r.length \in Nat /\ r.offset <= r.length
  BY OffsetInLength
<1>2. CASE len = NoLen
  <2>1. Taken(r, len) = r.length - r.offset  BY <1>2 DEF Taken, AdjustEnd
  <2> QED  BY <2>1, <1>1
<1>3. CASE len # NoLen /\ len <= 0
  <2>1. Taken(r, len) = r.offset - r.offset  BY <1>3 DEF Taken, AdjustEnd
  <2> QED  BY <2>1, <1>1
<1>4. CASE len # NoLen /\ ~(len <= 0)
  <2>1. len \in Int /\ len > 0  BY <1>4
  <2>2. AdjustEnd(r.offset, r.length, len)
          = IF r.offset + len > r.length THEN r.length ELSE r.offset + len
    BY <1>4 DEF AdjustEnd
  <2> QED  BY <2>1, <2>2, <1>1 DEF Taken
<1> QED  BY <1>2, <1>3, <1>4

(* The pieces readBufferList returns: each starts where the cursor was or  *)
(* with its buffer, and ends with its buffer or where the read ends.       *)
LEMMA ListPieces ==
  ASSUME NEW r, NEW arrived, Sound(r, arrived),
         NEW len \in Nat \ {0}, r.offset + len <= r.length,
         NEW out, out = ReadListOut(r, len)
  PROVE  /\ out \in Seq(Buffer)
         /\ out # <<>>
         /\ Contiguous(out)
         /\ out[1].lo = PositionOf(r, arrived)
         /\ out[Len(out)].hi = PositionOf(r, arrived) + len
<1> DEFINE b == r.buffers
           i == r.curBufferIndex
           upto == r.curBufferOffset + len
           j == LastSpanned(r, len)
           pos == PositionOf(r, arrived)
           first == b[i].lo
           m == j - i + 1
           start(p) == IF p = 1 THEN r.curBufferOffset ELSE 0
           end(p) == upto - (b[i + p - 1].lo - b[i].lo)
           piece(p) == Subarray(b[i + p - 1], start(p), end(p))
<1>1. len \in Nat /\ len # 0 /\ r.curBufferOffset \in Nat
  BY DEF Sound, Reader
<1>2. /\ b \in Seq(Buffer) /\ Len(b) \in Nat
      /\ i \in 1 .. Len(b) /\ j \in i .. Len(b) /\ j \in 1 .. Len(b)
      /\ 1 \in 1 .. Len(b)
      /\ b[1].lo \in Nat /\ b[i].lo \in Nat /\ b[i].hi \in Nat
      /\ b[j].lo \in Nat /\ b[j].hi \in Nat
      /\ upto \in Nat \ {0} /\ pos \in Nat
      /\ b[i].lo + r.curBufferOffset = pos
      /\ b[i].lo + upto = pos + len
      /\ r.offset + len = (b[i].lo + upto) - b[1].lo
      /\ b[j].lo - b[i].lo < upto
      /\ upto <= b[j].hi - b[i].lo
  <2> HIDE DEF b, i, upto, j, pos
  <2> QED  BY ReadReaches DEF b, i, upto, j, pos
<1>3. out = [p \in 1 .. m |-> piece(p)]
  BY <1>1 DEF ReadListOut
<1>4. /\ \A k \in 1 .. Len(b) - 1 : b[k].hi = b[k + 1].lo
      /\ \A k, n \in 1 .. Len(b) : k < n => b[k].hi <= b[n].lo
      /\ \A k \in 1 .. Len(b) : b[k].lo \in Nat /\ b[k].hi \in Nat
  BY Order
<1>5. /\ i \in Nat /\ j \in Nat /\ 1 <= i /\ i <= j /\ j <= Len(b)
      /\ first \in Nat /\ upto \in Nat /\ pos \in Nat /\ Len(b) \in Nat
      /\ first + r.curBufferOffset = pos /\ first + upto = pos + len
  <2> HIDE DEF b, i, upto, j, pos
  <2>1. /\ i \in 1 .. Len(b) /\ j \in i .. Len(b) /\ Len(b) \in Nat
        /\ b[i].lo \in Nat /\ upto \in Nat /\ pos \in Nat
        /\ b[i].lo + r.curBufferOffset = pos /\ b[i].lo + upto = pos + len
    BY <1>2, Zenon
  <2> QED  BY <2>1
<1>6. b[j].lo < first + upto /\ first + upto <= b[j].hi
  <2> DEFINE lo == b[j].lo
             hi == b[j].hi
  <2> HIDE DEF b, i, upto, j, pos
  <2>1. lo \in Nat /\ hi \in Nat /\ lo - b[i].lo < upto /\ upto <= hi - b[i].lo
    BY <1>2, Zenon
  <2>2. first = b[i].lo  OBVIOUS
  <2> HIDE DEF lo, hi, first
  <2>3. lo - first < upto /\ upto <= hi - first  BY <2>1, <2>2
  <2>4. lo < first + upto /\ first + upto <= hi  BY <2>1, <2>3, <1>5
  <2> QED  BY <2>4 DEF lo, hi
<1>7. m \in Nat /\ m >= 1
  <2> HIDE DEF i, j
  <2> QED  BY <1>5
<1>8. ASSUME NEW p \in 1 .. m
      PROVE  /\ i + p - 1 \in i .. j
             /\ out[p] \in Buffer
             /\ out[p].lo = b[i + p - 1].lo + start(p)
             /\ i + p - 1 = j => out[p].hi = first + upto
             /\ i + p - 1 < j => out[p].hi = b[i + p - 1].hi
  <2> DEFINE k == i + p - 1
             lo == b[k].lo
             hi == b[k].hi
             s == start(p)
             e == end(p)
             x == IF lo + e < hi THEN lo + e ELSE hi
  <2>1. out[p] = [lo |-> lo + s, hi |-> x]
    BY <1>3 DEF Subarray
  <2>2. e = upto - (lo - first)  OBVIOUS
  <2>3. s \in Nat  BY <1>1
  <2> HIDE DEF b, i, j, upto, first, s, e, piece, start, end
  <2>4. k \in i .. j /\ k \in 1 .. Len(b)  BY <1>5
  <2>5. lo \in Nat /\ hi \in Nat  BY <2>4, <1>4
  <2> HIDE DEF k
  <2>6. k = j => hi = b[j].hi  OBVIOUS
  <2>7. k < j => hi <= b[j].lo /\ b[j].lo \in Nat
    <3>1. j \in 1 .. Len(b)  BY <1>5
    <3> QED  BY <3>1, <2>4, <1>4
  <2> HIDE DEF lo, hi
  <2>8. lo + e = first + upto /\ first + upto \in Nat  BY <2>2, <2>5, <1>5
  <2>9. x \in Nat  BY <2>5, <2>8
  <2>10. k = j => x = first + upto
    <3>1. SUFFICES ASSUME k = j PROVE x = first + upto  OBVIOUS
    <3>2. first + upto <= hi  BY <3>1, <2>6, <1>6
    <3> QED  BY <3>2, <2>5, <2>8
  <2>11. k < j => x = hi
    <3>1. SUFFICES ASSUME k < j PROVE x = hi  OBVIOUS
    <3>2. hi < first + upto  BY <3>1, <2>5, <2>7, <2>8, <1>6
    <3> QED  BY <3>2, <2>5, <2>8
  <2> HIDE DEF x
  <2>12. out[p].lo = lo + s /\ out[p].hi = x /\ out[p] \in Buffer
    BY <2>1, <2>3, <2>5, <2>9 DEF Buffer
  <2> QED  BY <2>4, <2>10, <2>11, <2>12 DEF k, lo, hi, s
<1> HIDE DEF m, piece
<1>9. out \in Seq(Buffer) /\ Len(out) = m
  <2>1. \A p \in 1 .. m : out[p] \in Buffer  BY <1>8
  <2>2. out \in [1 .. m -> Buffer]  BY <2>1, <1>3
  <2> QED  BY <2>2, <1>7
<1>10. out # <<>>
  <2>1. Len(out) # 0  BY <1>7, <1>9
  <2> QED  BY <2>1
<1> HIDE DEF b, i, j, upto, first, pos, end
<1>11. Contiguous(out)
  <2>1. SUFFICES ASSUME NEW p \in 1 .. m - 1 PROVE out[p].hi = out[p + 1].lo
    BY <1>9 DEF Contiguous
  <2>2. /\ p \in 1 .. m /\ p + 1 \in 1 .. m /\ p + 1 # 1
        /\ i + (p + 1) - 1 = (i + p - 1) + 1
        /\ i + p - 1 < j /\ i + p - 1 \in 1 .. Len(b) - 1
    BY <1>5, <1>7 DEF m
  <2>3. out[p].hi = b[i + p - 1].hi  BY <2>2, <1>8
  <2>4. out[p + 1].lo = b[i + (p + 1) - 1].lo + start(p + 1)  BY <2>2, <1>8
  <2>5. start(p + 1) = 0  BY <2>2
  <2>6. b[i + p - 1].hi = b[(i + p - 1) + 1].lo  BY <2>2, <1>4
  <2>7. b[(i + p - 1) + 1].lo \in Nat
    <3>1. (i + p - 1) + 1 \in 1 .. Len(b)  BY <2>2, <1>5
    <3> QED  BY <3>1, <1>4
  <2>8. b[(i + p - 1) + 1].lo + 0 = b[(i + p - 1) + 1].lo  BY <2>7
  <2> QED  BY <2>2, <2>3, <2>4, <2>5, <2>6, <2>8
<1>12. out[1].lo = pos
  <2>1. 1 \in 1 .. m /\ i + 1 - 1 = i  BY <1>5, <1>7
  <2>2. out[1].lo = b[i + 1 - 1].lo + start(1)  BY <2>1, <1>8
  <2>3. start(1) = r.curBufferOffset  OBVIOUS
  <2> QED  BY <2>1, <2>2, <2>3, <1>5 DEF first
<1>13. out[m].hi = pos + len
  <2>1. m \in 1 .. m /\ i + m - 1 = j  BY <1>5, <1>7 DEF m
  <2>2. out[m].hi = first + upto  BY <2>1, <1>8
  <2> QED  BY <2>2, <1>5
<1> QED  BY <1>9, <1>10, <1>11, <1>12, <1>13 DEF pos

(* What reads return are buffers.                                          *)
LEMMA OutTypes ==
  ASSUME NEW r, NEW arrived, Sound(r, arrived),
         NEW len \in Nat \ {0}, r.offset + len <= r.length
  PROVE  /\ ReadOut(r, len) \in Buffer
         /\ ReadArrayBufferOut(r, len) \in Buffer
         /\ ReadListOut(r, len) \in Seq(Buffer)
<1> DEFINE b == r.buffers
           i == r.curBufferIndex
           upto == r.curBufferOffset + len
           j == LastSpanned(r, len)
           pos == PositionOf(r, arrived)
<1>1. len \in Nat /\ len # 0 /\ r.curBufferOffset \in Nat
  BY DEF Sound, Reader
<1>2. /\ b \in Seq(Buffer) /\ Len(b) \in Nat
      /\ i \in 1 .. Len(b) /\ j \in i .. Len(b) /\ j \in 1 .. Len(b)
      /\ 1 \in 1 .. Len(b)
      /\ b[1].lo \in Nat /\ b[i].lo \in Nat /\ b[i].hi \in Nat
      /\ b[j].lo \in Nat /\ b[j].hi \in Nat
      /\ upto \in Nat \ {0} /\ pos \in Nat
      /\ b[i].lo + r.curBufferOffset = pos
      /\ b[i].lo + upto = pos + len
      /\ r.offset + len = (b[i].lo + upto) - b[1].lo
      /\ b[j].lo - b[i].lo < upto
      /\ upto <= b[j].hi - b[i].lo
  <2> HIDE DEF b, i, upto, j, pos
  <2> QED  BY ReadReaches DEF b, i, upto, j, pos
<1>3. ReadOut(r, len) \in Buffer
  <2>1. ReadOut(r, len) = [lo |-> pos, hi |-> pos + len]
    <3> DEFINE q == Consolidate(r, len)
    <3> HIDE DEF q
    <3>1. q = Consolidate(r, len)  BY DEF q
    <3> QED  BY <3>1, ConsolidateReads
  <2> HIDE DEF b, i, upto, j, pos
  <2>2. pos \in Nat  BY <1>2, Zenon
  <2>3. pos + len \in Nat  BY <2>2, <1>1
  <2> QED  BY <2>1, <2>2, <2>3 DEF Buffer
<1>4. ReadArrayBufferOut(r, len) \in Buffer
  <2> DEFINE lo == b[i].lo
             hi == b[j].hi
  <2>1. lo \in Nat /\ hi \in Nat  BY <1>2
  <2>2. Consolidated(r, len) = [lo |-> lo, hi |-> hi]
    BY DEF Consolidated, Concat
  <2> HIDE DEF b, lo, hi
  <2>3. ReadArrayBufferOut(r, len)
          = [lo |-> lo + 0, hi |-> IF lo + len < hi THEN lo + len ELSE hi]
    BY <2>2 DEF ReadArrayBufferOut, Subarray
  <2>4. lo + 0 \in Nat /\ (IF lo + len < hi THEN lo + len ELSE hi) \in Nat
    BY <2>1, <1>1
  <2> QED  BY <2>3, <2>4 DEF Buffer
<1>5. ReadListOut(r, len) \in Seq(Buffer)
  <2> DEFINE list == ReadListOut(r, len)
  <2> HIDE DEF list
  <2>1. list \in Seq(Buffer)  BY ListPieces DEF list
  <2> QED  BY <2>1 DEF list
<1> QED  BY <1>3, <1>4, <1>5

(***************************************************************************)
(* Lists one after another                                                 *)
(***************************************************************************)

(* Where the lists are put together first makes no difference.             *)
LEMMA Associates ==
  \A T : \A a, b, c \in Seq(T) : (a \o b) \o c = a \o (b \o c)
OBVIOUS

(* FlattenSeq adds one list after another to the first.                    *)
Flattens(g, s, n) ==
  g = [i \in 1 .. n |-> IF i = 1 THEN s[i] ELSE g[i - 1] \o s[i]]

(* If it can be done for the first lists, it can with one more.            *)
LEMMA FlattensOneMore ==
  ASSUME NEW s, NEW n \in Nat \ {0}, NEW g, Flattens(g, s, n)
  PROVE  \E h : Flattens(h, s, n + 1)
<1> DEFINE h == [i \in 1 .. n + 1 |-> IF i = n + 1 THEN g[n] \o s[i] ELSE g[i]]
<1>1. \A i \in 1 .. n : g[i] = IF i = 1 THEN s[i] ELSE g[i - 1] \o s[i]
  BY DEF Flattens
<1>2. \A i \in 1 .. n : h[i] = g[i]  OBVIOUS
<1>3. h[n + 1] = g[n] \o s[n + 1]
  <2>1. n + 1 \in 1 .. n + 1  OBVIOUS
  <2> QED  BY <2>1
<1>4. DOMAIN h = 1 .. n + 1 /\ h = [i \in 1 .. n + 1 |-> h[i]]  OBVIOUS
<1> HIDE DEF h
<1>5. ASSUME NEW i \in 1 .. n + 1
      PROVE  h[i] = IF i = 1 THEN s[i] ELSE h[i - 1] \o s[i]
  <2>1. CASE i = n + 1
    <3>1. n \in 1 .. n /\ i # 1 /\ i - 1 = n  BY <2>1
    <3> QED  BY <1>2, <1>3, <2>1, <3>1
  <2>2. CASE i \in 1 .. n /\ i = 1  BY <1>1, <1>2, <2>2
  <2>3. CASE i \in 1 .. n /\ i # 1
    <3>1. i - 1 \in 1 .. n  BY <2>3
    <3> QED  BY <1>1, <1>2, <2>3, <3>1
  <2> QED  BY <2>1, <2>2, <2>3
<1>6. Flattens(h, s, n + 1)
  <2>1. [i \in 1 .. n + 1 |-> h[i]]
          = [i \in 1 .. n + 1 |-> IF i = 1 THEN s[i] ELSE h[i - 1] \o s[i]]
    BY <1>5
  <2> QED  BY <1>4, <2>1 DEF Flattens
<1> QED  BY <1>6

(* What FlattenSeq gives is reached one list at a time.                    *)
LEMMA FlattenSteps ==
  ASSUME NEW T, NEW s \in Seq(Seq(T)), Len(s) # 0
  PROVE  \E f \in [1 .. Len(s) -> Seq(T)] :
           /\ f[1] = s[1]
           /\ \A i \in 2 .. Len(s) : f[i] = f[i - 1] \o s[i]
           /\ FlattenSeq(s) = f[Len(s)]
<1> DEFINE N == Len(s)
<1>1. N \in Nat \ {0} /\ \A i \in 1 .. N : s[i] \in Seq(T)  OBVIOUS
<1>2. \E g : Flattens(g, s, N)
  <2> DEFINE S == {n \in 1 .. N : \E g : Flattens(g, s, n)}
  <2>1. 1 \in S
    <3> DEFINE one == [i \in 1 .. 1 |-> s[i]]
    <3>1. Flattens(one, s, 1)  BY DEF Flattens
    <3> QED  BY <1>1, <3>1
  <2>2. ASSUME NEW n \in 1 .. N - 1, n \in S PROVE n + 1 \in S
    <3>1. \E g : Flattens(g, s, n)  BY <2>2
    <3>2. \E g : Flattens(g, s, n + 1)  BY <3>1, FlattensOneMore
    <3> QED  BY <1>1, <3>2
  <2> HIDE DEF S
  <2>3. 1 .. N \subseteq S  BY <1>1, <2>1, <2>2, IntervalInduction
  <2> QED  BY <1>1, <2>3, SMTT(30) DEF S
<1> DEFINE f == CHOOSE g : g = [i \in 1 .. N |-> IF i = 1 THEN s[i] ELSE g[i - 1] \o s[i]]
<1>3. Flattens(f, s, N)  BY <1>2 DEF Flattens
<1>4. FlattenSeq(s) = f[N]  BY DEF FlattenSeq
<1> HIDE DEF f
<1>5. DOMAIN f = 1 .. N /\ f = [i \in 1 .. N |-> f[i]]  BY <1>3 DEF Flattens
<1>6. \A i \in 1 .. N : f[i] = IF i = 1 THEN s[i] ELSE f[i - 1] \o s[i]
  BY <1>3 DEF Flattens
<1> HIDE DEF N
<1>7. f[1] = s[1] /\ \A i \in 2 .. N : f[i] = f[i - 1] \o s[i]
  <2>1. 1 \in 1 .. N /\ \A i \in 2 .. N : i \in 1 .. N /\ i # 1  BY <1>1
  <2> QED  BY <1>6, <2>1
<1>8. f \in [1 .. N -> Seq(T)]
  <2> DEFINE S == {i \in 1 .. N : f[i] \in Seq(T)}
  <2>1. 1 \in S  BY <1>1, <1>7
  <2>2. ASSUME NEW n \in 1 .. N - 1, n \in S PROVE n + 1 \in S
    <3>1. n + 1 \in 2 .. N /\ (n + 1) - 1 = n /\ n + 1 \in 1 .. N  BY <1>1
    <3>2. f[n + 1] = f[n] \o s[n + 1]  BY <1>7, <3>1
    <3>3. f[n] \in Seq(T) /\ s[n + 1] \in Seq(T)  BY <1>1, <2>2, <3>1
    <3>4. f[n + 1] \in Seq(T)  BY <3>2, <3>3, ConcatProperties
    <3> QED  BY <3>1, <3>4
  <2> HIDE DEF S
  <2>3. 1 .. N \subseteq S  BY <1>1, <2>1, <2>2, IntervalInduction
  <2> QED  BY <1>5, <2>3 DEF S
<1> QED  BY <1>4, <1>7, <1>8 DEF N

(* There is nothing in no list.                                            *)
LEMMA FlattenNothing == FlattenSeq(<<>>) = <<>>
BY DEF FlattenSeq

(* One more list comes after the others. *)
LEMMA FlattenAppend ==
  ASSUME NEW T, NEW s \in Seq(Seq(T)), NEW e \in Seq(T)
  PROVE  /\ FlattenSeq(s) \in Seq(T)
         /\ FlattenSeq(Append(s, e)) = FlattenSeq(s) \o e
<1> DEFINE t == Append(s, e)
           N == Len(s)
<1>1. /\ N \in Nat /\ t \in Seq(Seq(T)) /\ Len(t) = N + 1
      /\ \A i \in 1 .. N : t[i] = s[i]
      /\ t[N + 1] = e
  OBVIOUS
<1> HIDE DEF t
<1>2. PICK h \in [1 .. N + 1 -> Seq(T)] :
        /\ h[1] = t[1]
        /\ \A i \in 2 .. N + 1 : h[i] = h[i - 1] \o t[i]
        /\ FlattenSeq(t) = h[N + 1]
  <2>1. Len(t) # 0  BY <1>1
  <2>2. \E h \in [1 .. Len(t) -> Seq(T)] :
          /\ h[1] = t[1]
          /\ \A i \in 2 .. Len(t) : h[i] = h[i - 1] \o t[i]
          /\ FlattenSeq(t) = h[Len(t)]
    BY ONLY <1>1, <2>1, FlattenSteps
  <2> QED  BY <1>1, <2>2
<1>3. CASE N = 0
  <2>1. s = <<>>  BY <1>3
  <2>2. FlattenSeq(t) = e  BY <1>1, <1>2, <1>3
  <2>3. FlattenSeq(s) = <<>>  BY <2>1, FlattenNothing
  <2> QED  BY <2>2, <2>3 DEF t
<1>4. CASE N # 0
  <2>1. PICK f \in [1 .. N -> Seq(T)] :
          /\ f[1] = s[1]
          /\ \A i \in 2 .. N : f[i] = f[i - 1] \o s[i]
          /\ FlattenSeq(s) = f[N]
    BY <1>4, FlattenSteps
  <2> HIDE DEF N
  <2> DEFINE S == {i \in 1 .. N : h[i] = f[i]}
  <2>2. 1 \in S  BY <1>1, <1>2, <1>4, <2>1
  <2>3. ASSUME NEW n \in 1 .. N - 1, n \in S PROVE n + 1 \in S
    <3>0. N \in Nat  BY <1>1
    <3>1. n + 1 \in 2 .. N /\ n + 1 \in 2 .. N + 1 /\ (n + 1) - 1 = n /\ n + 1 \in 1 .. N
      BY ONLY <3>0, <2>3
    <3>2. h[n + 1] = h[n] \o t[n + 1]  BY <1>2, <3>1
    <3>3. f[n + 1] = f[n] \o s[n + 1]  BY <2>1, <3>1
    <3>4. t[n + 1] = s[n + 1] /\ h[n] = f[n]  BY <1>1, <2>3, <3>1
    <3> QED  BY <3>1, <3>2, <3>3, <3>4
  <2> HIDE DEF S
  <2>4. 1 .. N \subseteq S  BY <1>1, <1>4, <2>2, <2>3, IntervalInduction
  <2>5. h[N] = f[N]  BY <1>1, <1>4, <2>4 DEF S
  <2>6. h[N + 1] = h[N] \o e
    <3>1. N + 1 \in 2 .. N + 1 /\ (N + 1) - 1 = N  BY <1>1, <1>4
    <3> QED  BY <1>1, <1>2, <3>1
  <2>7. f[N] \in Seq(T)
    <3>1. N \in 1 .. N  BY <1>1, <1>4
    <3> QED  BY <2>1, <3>1
  <2> QED  BY <1>2, <2>1, <2>5, <2>6, <2>7 DEF t
<1> QED  BY <1>1, <1>3, <1>4

(* One list is itself.                                                     *)
LEMMA FlattenOne ==
  ASSUME NEW T, NEW e \in Seq(T)
  PROVE  FlattenSeq(<<e>>) = e
<1>1. <<>> \in Seq(Seq(T)) /\ Append(<<>>, e) = <<e>>  OBVIOUS
<1>2. FlattenSeq(<<e>>) = FlattenSeq(<<>>) \o e  BY <1>1, FlattenAppend
<1> QED  BY <1>2, FlattenNothing

(* A sequence that is not empty is its front and its last element. *)
LEMMA FrontAndLast ==
  ASSUME NEW T, NEW t \in Seq(T), NEW n \in Nat, Len(t) = n + 1
  PROVE  \E front \in Seq(T), e \in T : Len(front) = n /\ t = Append(front, e)
<1> DEFINE front == SubSeq(t, 1, n)
<1>1. front \in Seq(T) /\ Len(front) = n /\ t[n + 1] \in T  OBVIOUS
<1>2. t = Append(front, t[n + 1])
  <2>1. \A i \in 1 .. n : front[i] = t[i]  OBVIOUS
  <2> QED  BY <1>1, <2>1
<1> QED  BY <1>1, <1>2

(* Two lists of lists flattened one after the other: with one list more,  *)
(* and with any.                                                           *)
LEMMA FlattenConcatOne ==
  ASSUME NEW T, NEW s \in Seq(Seq(T)), NEW front \in Seq(Seq(T)), NEW e \in Seq(T),
         FlattenSeq(s \o front) = FlattenSeq(s) \o FlattenSeq(front)
  PROVE  FlattenSeq(s \o Append(front, e)) = FlattenSeq(s) \o FlattenSeq(Append(front, e))
<1>1. s \o Append(front, e) = Append(s \o front, e) /\ s \o front \in Seq(Seq(T))
  OBVIOUS
<1>2. FlattenSeq(Append(s \o front, e)) = FlattenSeq(s \o front) \o e
  BY <1>1, FlattenAppend
<1>3. FlattenSeq(Append(front, e)) = FlattenSeq(front) \o e  BY FlattenAppend
<1>4. FlattenSeq(s) \in Seq(T) /\ FlattenSeq(front) \in Seq(T)  BY FlattenAppend
<1>5. (FlattenSeq(s) \o FlattenSeq(front)) \o e = FlattenSeq(s) \o (FlattenSeq(front) \o e)
  BY <1>4
<1> QED  BY <1>1, <1>2, <1>3, <1>5

(* Lists put together in two parts, and then these, are together.          *)
LEMMA FlattenConcat ==
  ASSUME NEW T, NEW s \in Seq(Seq(T)), NEW t \in Seq(Seq(T))
  PROVE  FlattenSeq(s \o t) = FlattenSeq(s) \o FlattenSeq(t)
<1> DEFINE Splits(u) == FlattenSeq(s \o u) = FlattenSeq(s) \o FlattenSeq(u)
           N == Len(t)
           S == {n \in 0 .. N : Splits(SubSeq(t, 1, n))}
<1>1. N \in Nat /\ \A n \in 0 .. N : SubSeq(t, 1, n) \in Seq(Seq(T))
  OBVIOUS
<1>2. Splits(SubSeq(t, 1, 0))
  <2>1. SubSeq(t, 1, 0) = <<>> /\ s \o <<>> = s  OBVIOUS
  <2>2. FlattenSeq(s) \in Seq(T)
    <3>1. <<>> \in Seq(T)  OBVIOUS
    <3> QED  BY <3>1, FlattenAppend
  <2>3. FlattenSeq(s) \o <<>> = FlattenSeq(s)  BY <2>2
  <2> QED  BY <2>1, <2>3, FlattenNothing
<1>3. ASSUME NEW n \in 0 .. N - 1, Splits(SubSeq(t, 1, n))
      PROVE  Splits(SubSeq(t, 1, n + 1))
  <2> DEFINE front == SubSeq(t, 1, n)
             e == t[n + 1]
  <2>1. /\ front \in Seq(Seq(T)) /\ e \in Seq(T)
        /\ SubSeq(t, 1, n + 1) = Append(front, e)
    OBVIOUS
  <2>2. FlattenSeq(s \o front) = FlattenSeq(s) \o FlattenSeq(front)  BY <1>3
  <2> HIDE DEF front, e
  <2> QED  BY <2>1, <2>2, FlattenConcatOne, ZenonT(60)
<1> HIDE DEF Splits
<1>4. 0 \in S  BY <1>1, <1>2
<1>5. ASSUME NEW n \in 0 .. N - 1, n \in S PROVE n + 1 \in S
  BY <1>1, <1>3, <1>5
<1> HIDE DEF S
<1>6. 0 .. N \subseteq S  BY <1>1, <1>4, <1>5, IntervalInduction
<1>7. Splits(SubSeq(t, 1, N))  BY <1>1, <1>6 DEF S
<1>8. SubSeq(t, 1, N) = t  OBVIOUS
<1> QED  BY <1>7, <1>8 DEF Splits

(***************************************************************************)
(* The sizes of the fields of a list                                       *)
(***************************************************************************)

(* A set of numbers up to a bound has a greatest one. *)
LEMMA MaxIsGreatest ==
  ASSUME NEW n \in Nat, NEW t \in SUBSET (1 .. n), t # {}
  PROVE  Max(t) \in t /\ \A y \in t : y <= Max(t)
<1> DEFINE S == {k \in 0 .. n : \A u \in SUBSET (1 .. k) :
                   u # {} => \E x \in u : \A y \in u : x >= y}
<1>1. 0 \in S
  <2>1. 1 .. 0 = {} /\ 0 \in 0 .. n  OBVIOUS
  <2> QED  BY <2>1
<1>2. ASSUME NEW k \in 0 .. n - 1, k \in S PROVE k + 1 \in S
  <2>1. ASSUME NEW u \in SUBSET (1 .. k + 1), u # {}
        PROVE  \E x \in u : \A y \in u : x >= y
    <3>1. CASE k + 1 \in u  BY <3>1
    <3>2. CASE k + 1 \notin u
      <4>1. u \in SUBSET (1 .. k)  BY <3>2
      <4> QED  BY <1>2, <2>1, <4>1
    <3> QED  BY <3>1, <3>2
  <2> QED  BY <2>1
<1> HIDE DEF S
<1>3. 0 .. n \subseteq S  BY <1>1, <1>2, IntervalInduction
<1>4. \E x \in t : \A y \in t : x >= y  BY <1>3 DEF S
<1>5. Max(t) \in t /\ \A y \in t : Max(t) >= y  BY <1>4 DEF Max
<1> QED  BY <1>5

(* The last of the numbers up to k is k. *)
LEMMA MaxOfInterval ==
  ASSUME NEW k \in Nat \ {0}
  PROVE  Max(1 .. k) = k /\ (1 .. k) \ {Max(1 .. k)} = 1 .. k - 1
<1>1. 1 .. k \in SUBSET (1 .. k) /\ 1 .. k # {}  OBVIOUS
<1>2. Max(1 .. k) \in 1 .. k /\ \A y \in 1 .. k : y <= Max(1 .. k)
  BY <1>1, MaxIsGreatest
<1>3. Max(1 .. k) = k  BY <1>2
<1> QED  BY <1>3

(* Total adds, for each set of places, the size at the last of them.       *)
Totals(g, s, n) ==
  g = [t \in SUBSET (1 .. n) |-> IF t = {} THEN 0
                                 ELSE g[t \ {Max(t)}] + s[Max(t)].size]

(* If the first sizes can be added, so can one more.                       *)
LEMMA TotalsOneMore ==
  ASSUME NEW s, NEW n \in Nat, NEW g, Totals(g, s, n)
  PROVE  \E h : Totals(h, s, n + 1)
<1> DEFINE h == [t \in SUBSET (1 .. n + 1) |->
                   IF n + 1 \in t THEN g[t \ {n + 1}] + s[n + 1].size ELSE g[t]]
           Value(t) == IF t = {} THEN 0 ELSE h[t \ {Max(t)}] + s[Max(t)].size
<1>1. \A t \in SUBSET (1 .. n) :
        g[t] = IF t = {} THEN 0 ELSE g[t \ {Max(t)}] + s[Max(t)].size
  BY DEF Totals
<1>2. \A t \in SUBSET (1 .. n) : h[t] = g[t]
  <2>1. \A t \in SUBSET (1 .. n) : t \in SUBSET (1 .. n + 1) /\ n + 1 \notin t  OBVIOUS
  <2> QED  BY <2>1
<1>3. ASSUME NEW t \in SUBSET (1 .. n + 1) PROVE h[t] = Value(t)
  <2>1. CASE n + 1 \in t
    <3>1. Max(t) \in t /\ \A y \in t : y <= Max(t)
      <4>1. n + 1 \in Nat /\ t # {}  BY <2>1
      <4> QED  BY <4>1, MaxIsGreatest
    <3>2. Max(t) = n + 1
      <4>1. Max(t) \in 1 .. n + 1 /\ n + 1 <= Max(t)  BY <2>1, <3>1
      <4> QED  BY <4>1
    <3>3. t \ {n + 1} \in SUBSET (1 .. n)  OBVIOUS
    <3>4. h[t] = g[t \ {n + 1}] + s[n + 1].size  BY <2>1
    <3>5. h[t \ {n + 1}] = g[t \ {n + 1}]  BY <1>2, <3>3
    <3>6. t # {}  BY <2>1
    <3> HIDE DEF h
    <3> QED  BY <3>2, <3>4, <3>5, <3>6
  <2>2. CASE n + 1 \notin t
    <3>1. t \in SUBSET (1 .. n)  BY <2>2
    <3>2. h[t] = g[t]  BY <1>2, <3>1
    <3>3. CASE t = {}  BY <1>1, <3>1, <3>2, <3>3
    <3>4. CASE t # {}
      <4>1. t \ {Max(t)} \in SUBSET (1 .. n)  BY <3>1
      <4>2. h[t \ {Max(t)}] = g[t \ {Max(t)}]  BY <1>2, <4>1
      <4> HIDE DEF h
      <4> QED  BY <1>1, <3>1, <3>2, <3>4, <4>2
    <3> QED  BY <3>3, <3>4
  <2> QED  BY <2>1, <2>2
<1>4. h = [t \in SUBSET (1 .. n + 1) |-> h[t]]  OBVIOUS
<1> HIDE DEF h
<1>5. h = [t \in SUBSET (1 .. n + 1) |-> Value(t)]  BY <1>3, <1>4
<1>6. Totals(h, s, n + 1)  BY <1>5 DEF Totals
<1> QED  BY <1>6

(* The total of the first fields, one more at a time. *)
LEMMA TotalSteps ==
  ASSUME NEW T, \A x \in T : x.size \in Nat, NEW s \in Seq(T)
  PROVE  \E f \in [0 .. Len(s) -> Nat] :
           /\ f[0] = 0
           /\ \A k \in 1 .. Len(s) : f[k] = f[k - 1] + s[k].size
           /\ Total(s) = f[Len(s)]
<1> DEFINE N == Len(s)
<1>1. N \in Nat /\ DOMAIN s = 1 .. N /\ \A k \in 1 .. N : s[k].size \in Nat  OBVIOUS
<1>2. \E g : Totals(g, s, N)
  <2> DEFINE S == {n \in 0 .. N : \E g : Totals(g, s, n)}
  <2>1. 0 \in S
    <3> DEFINE none == [t \in SUBSET (1 .. 0) |-> 0]
    <3>1. \A t \in SUBSET (1 .. 0) : t = {}  OBVIOUS
    <3>2. Totals(none, s, 0)  BY <3>1 DEF Totals
    <3> QED  BY <1>1, <3>2
  <2>2. ASSUME NEW n \in 0 .. N - 1, n \in S PROVE n + 1 \in S
    <3>1. PICK g : Totals(g, s, n)  BY <2>2
    <3>2. n \in Nat  OBVIOUS
    <3>3. \E h : Totals(h, s, n + 1)  BY <3>1, <3>2, TotalsOneMore
    <3> QED  BY <1>1, <3>3
  <2> HIDE DEF S
  <2>3. 0 .. N \subseteq S  BY <1>1, <2>1, <2>2, IntervalInduction
  <2> QED  BY <1>1, <2>3 DEF S
<1> DEFINE g == CHOOSE g : g = [t \in SUBSET DOMAIN s |->
                                  IF t = {} THEN 0
                                  ELSE g[t \ {Max(t)}] + s[Max(t)].size]
<1>3. Total(s) = g[DOMAIN s]  BY DEF Total, FoldLeft, MapThenFoldSet
<1>4. Totals(g, s, N)  BY <1>1, <1>2 DEF Totals
<1> HIDE DEF g
<1>5. \A t \in SUBSET (1 .. N) :
        g[t] = IF t = {} THEN 0 ELSE g[t \ {Max(t)}] + s[Max(t)].size
  BY <1>4 DEF Totals
<1> DEFINE f == [k \in 0 .. N |-> g[1 .. k]]
<1>6. f[0] = 0
  <2>1. 1 .. 0 = {} /\ 0 \in 0 .. N  BY <1>1
  <2> QED  BY <1>5, <2>1
<1>7. ASSUME NEW k \in 1 .. N PROVE f[k] = f[k - 1] + s[k].size
  <2>1. Max(1 .. k) = k /\ (1 .. k) \ {Max(1 .. k)} = 1 .. k - 1
    BY MaxOfInterval
  <2>2. 1 .. k \in SUBSET (1 .. N) /\ 1 .. k # {}  BY <1>1
  <2>3. g[1 .. k] = g[(1 .. k) \ {Max(1 .. k)}] + s[Max(1 .. k)].size
    BY <1>5, <2>2
  <2>4. g[1 .. k] = g[1 .. k - 1] + s[k].size  BY <2>1, <2>3
  <2>5. k \in 0 .. N /\ k - 1 \in 0 .. N  BY <1>1
  <2> QED  BY <2>4, <2>5
<1>8. Total(s) = f[N]  BY <1>1, <1>3
<1> HIDE DEF f
<1>9. \A k \in 0 .. N : f[k] \in Nat
  <2> DEFINE S == {k \in 0 .. N : f[k] \in Nat}
  <2>1. 0 \in S  BY <1>1, <1>6
  <2>2. ASSUME NEW n \in 0 .. N - 1, n \in S PROVE n + 1 \in S
    <3>1. n + 1 \in 1 .. N /\ (n + 1) - 1 = n  BY <1>1
    <3>2. f[n + 1] = f[n] + s[n + 1].size  BY <1>7, <3>1
    <3> QED  BY <1>1, <2>2, <3>1, <3>2
  <2> HIDE DEF S
  <2>3. 0 .. N \subseteq S  BY <1>1, <2>1, <2>2, IntervalInduction
  <2> QED  BY <2>3 DEF S
<1>10. f \in [0 .. N -> Nat]  BY <1>9 DEF f
<1> QED  BY <1>6, <1>7, <1>8, <1>10

(* The total of sizes is a size; that of no fields is zero.                *)
LEMMA TotalIsNat ==
  ASSUME NEW T, \A x \in T : x.size \in Nat, NEW s \in Seq(T)
  PROVE  Total(s) \in Nat
<1>1. PICK f \in [0 .. Len(s) -> Nat] : Total(s) = f[Len(s)]  BY TotalSteps
<1> QED  BY <1>1

(* No fields have no size.                                                 *)
LEMMA TotalNothing == Total(<<>>) = 0
<1>1. <<>> \in Seq({}) /\ Len(<<>>) = 0  OBVIOUS
<1>2. \A x \in {} : x.size \in Nat  OBVIOUS
<1> QED  BY <1>1, <1>2, TotalSteps

(* One more field adds its size. *)
LEMMA TotalAppend ==
  ASSUME NEW T, \A x \in T : x.size \in Nat, NEW s \in Seq(T), NEW e \in T
  PROVE  /\ Total(s) \in Nat
         /\ Total(Append(s, e)) = Total(s) + e.size
<1> DEFINE t == Append(s, e)
           N == Len(s)
<1>1. /\ N \in Nat /\ t \in Seq(T) /\ Len(t) = N + 1
      /\ \A i \in 1 .. N : t[i] = s[i]
      /\ t[N + 1] = e
  OBVIOUS
<1>2. PICK f \in [0 .. N -> Nat] :
        /\ f[0] = 0
        /\ \A k \in 1 .. N : f[k] = f[k - 1] + s[k].size
        /\ Total(s) = f[N]
  BY TotalSteps
<1> HIDE DEF t, N
<1>3. PICK h \in [0 .. N + 1 -> Nat] :
        /\ h[0] = 0
        /\ \A k \in 1 .. N + 1 : h[k] = h[k - 1] + t[k].size
        /\ Total(t) = h[N + 1]
  <2>1. \E h \in [0 .. Len(t) -> Nat] :
          /\ h[0] = 0
          /\ \A k \in 1 .. Len(t) : h[k] = h[k - 1] + t[k].size
          /\ Total(t) = h[Len(t)]
    BY <1>1, TotalSteps
  <2> QED  BY <1>1, <2>1
<1> DEFINE S == {k \in 0 .. N : h[k] = f[k]}
<1>4. 0 \in S  BY <1>1, <1>2, <1>3
<1>5. ASSUME NEW n \in 0 .. N - 1, n \in S PROVE n + 1 \in S
  <2>1. n + 1 \in 1 .. N /\ n + 1 \in 1 .. N + 1 /\ (n + 1) - 1 = n /\ n + 1 \in 0 .. N
    BY <1>1
  <2>2. h[n + 1] = h[n] + t[n + 1].size  BY <1>3, <2>1
  <2>3. f[n + 1] = f[n] + s[n + 1].size  BY <1>2, <2>1
  <2> QED  BY <1>1, <1>5, <2>1, <2>2, <2>3
<1> HIDE DEF S
<1>6. 0 .. N \subseteq S  BY <1>1, <1>4, <1>5, IntervalInduction
<1>7. h[N] = f[N]  BY <1>1, <1>6 DEF S
<1>8. h[N + 1] = h[N] + e.size
  <2>1. N + 1 \in 1 .. N + 1 /\ (N + 1) - 1 = N  BY <1>1
  <2> QED  BY <1>1, <1>3, <2>1
<1>9. f[N] \in Nat  BY <1>1, <1>2
<1> QED  BY <1>2, <1>3, <1>7, <1>8, <1>9 DEF t

(* One field has its own size.                                             *)
LEMMA TotalOne ==
  ASSUME NEW T, \A x \in T : x.size \in Nat, NEW e \in T
  PROVE  Total(<<e>>) = e.size
<1>1. <<>> \in Seq(T) /\ Append(<<>>, e) = <<e>>  OBVIOUS
<1>2. Total(<<e>>) = Total(<<>>) + e.size  BY <1>1, TotalAppend
<1> QED  BY <1>2, TotalNothing

(* The totals of two lists add up: with one field more, and with any.      *)
LEMMA TotalConcatOne ==
  ASSUME NEW T, \A x \in T : x.size \in Nat,
         NEW s \in Seq(T), NEW front \in Seq(T), NEW e \in T,
         Total(s \o front) = Total(s) + Total(front)
  PROVE  Total(s \o Append(front, e)) = Total(s) + Total(Append(front, e))
<1>1. s \o Append(front, e) = Append(s \o front, e) /\ s \o front \in Seq(T)
  OBVIOUS
<1>2. Total(Append(s \o front, e)) = Total(s \o front) + e.size  BY <1>1, TotalAppend
<1>3. Total(Append(front, e)) = Total(front) + e.size  BY TotalAppend
<1>4. Total(s) \in Nat /\ Total(front) \in Nat /\ e.size \in Nat  BY TotalIsNat
<1> QED  BY <1>1, <1>2, <1>3, <1>4

(* The totals of any two lists add up.                                     *)
LEMMA TotalConcat ==
  ASSUME NEW T, \A x \in T : x.size \in Nat, NEW s \in Seq(T), NEW t \in Seq(T)
  PROVE  Total(s \o t) = Total(s) + Total(t)
<1> DEFINE Adds(u) == Total(s \o u) = Total(s) + Total(u)
           N == Len(t)
           S == {n \in 0 .. N : Adds(SubSeq(t, 1, n))}
<1>1. N \in Nat /\ \A n \in 0 .. N : SubSeq(t, 1, n) \in Seq(T)
  OBVIOUS
<1>2. Adds(SubSeq(t, 1, 0))
  <2>1. SubSeq(t, 1, 0) = <<>> /\ s \o <<>> = s  OBVIOUS
  <2>2. Total(s \o <<>>) = Total(s) + Total(<<>>)
    <3>1. Total(s) \in Nat  BY TotalIsNat
    <3> QED  BY <2>1, <3>1, TotalNothing
  <2> QED  BY <2>1, <2>2
<1>3. ASSUME NEW n \in 0 .. N - 1, Adds(SubSeq(t, 1, n))
      PROVE  Adds(SubSeq(t, 1, n + 1))
  <2> DEFINE front == SubSeq(t, 1, n)
             e == t[n + 1]
  <2>1. /\ front \in Seq(T) /\ e \in T
        /\ SubSeq(t, 1, n + 1) = Append(front, e)
        /\ s \o front \in Seq(T)
    OBVIOUS
  <2>2. Total(s \o front) = Total(s) + Total(front)  BY <1>3
  <2> HIDE DEF front, e
  <2> QED  BY <2>1, <2>2, TotalConcatOne
<1> HIDE DEF Adds
<1>4. 0 \in S  BY <1>1, <1>2
<1>5. ASSUME NEW n \in 0 .. N - 1, n \in S PROVE n + 1 \in S
  BY <1>1, <1>3, <1>5
<1> HIDE DEF S
<1>6. 0 .. N \subseteq S  BY <1>1, <1>4, <1>5, IntervalInduction
<1>7. Adds(SubSeq(t, 1, N))  BY <1>1, <1>6 DEF S
<1>8. SubSeq(t, 1, N) = t  OBVIOUS
<1> QED  BY <1>7, <1>8 DEF Adds


(***************************************************************************)
(* Readers over all the bytes of a packet, in one buffer or in several,    *)
(* some of which may be empty                                              *)
(***************************************************************************)

(* The buffers are the bytes before `size`, in order.                      *)
Spread(buffers, size) ==
  /\ buffers \in Seq(Buffer)
  /\ buffers # <<>>
  /\ \A k \in 1 .. Len(buffers) : buffers[k].lo <= buffers[k].hi
  /\ Contiguous(buffers)
  /\ buffers[1].lo = 0
  /\ buffers[Len(buffers)].hi = size

(* A place in a buffer that designates the byte at `pos`.                  *)
Stands(buffers, index, place, pos, size) ==
  \/ /\ index \in 1 .. Len(buffers)
     /\ place <= Size(buffers[index])
     /\ buffers[index].lo + place = pos
  \/ index = Len(buffers) + 1 /\ place = 0 /\ pos = size

ListAt(r, size, pos) ==
  /\ r \in Reader
  /\ Spread(r.buffers, size)
  /\ r.length = size
  /\ r.offset = pos
  /\ Stands(r.buffers, r.curBufferIndex, r.curBufferOffset, pos, size)

(* A reader of either class before the byte at `pos`, out of `size`.       *)
At(r, size, pos) ==
  /\ size \in Nat
  /\ pos \in 0 .. size
  /\ IF IsList(r) THEN ListAt(r, size, pos)
     ELSE r = [buffer |-> [lo |-> 0, hi |-> size], offset |-> pos]

(* The buffers before a place are all before it.                           *)
LEMMA SpreadBuffers ==
  ASSUME NEW b, NEW size \in Nat, Spread(b, size)
  PROVE  /\ Len(b) \in Nat \ {0} /\ 1 \in 1 .. Len(b) /\ Len(b) \in 1 .. Len(b)
         /\ \A k \in 1 .. Len(b) : /\ b[k] \in Buffer
                                   /\ b[k].lo \in Nat /\ b[k].hi \in Nat
                                   /\ b[k].lo <= b[k].hi
         /\ \A k \in 1 .. Len(b) - 1 : b[k].hi = b[k + 1].lo
<1>1. b \in Seq(Buffer) /\ b # <<>>  BY DEF Spread
<1>2. Len(b) \in Nat \ {0}  BY <1>1
<1>3. \A k \in 1 .. Len(b) : b[k] \in Buffer  BY <1>1
<1>4. \A k \in 1 .. Len(b) : b[k].lo \in Nat /\ b[k].hi \in Nat  BY <1>3 DEF Buffer
<1>5. \A k \in 1 .. Len(b) - 1 : b[k].hi = b[k + 1].lo  BY DEF Spread, Contiguous
<1>6. \A k \in 1 .. Len(b) : b[k].lo <= b[k].hi  BY DEF Spread
<1> QED  BY <1>2, <1>3, <1>4, <1>5, <1>6

(* Any two of the buffers are in order, and every byte is in one of them.  *)
LEMMA SpreadOrder ==
  ASSUME NEW b, NEW size \in Nat, Spread(b, size)
  PROVE  /\ \A k, m \in 1 .. Len(b) : k < m => b[k].hi <= b[m].lo
         /\ \A k \in 1 .. Len(b) : b[k].hi <= size
         /\ \A byte \in 0 .. size - 1 :
              \E k \in 1 .. Len(b) : b[k].lo <= byte /\ byte < b[k].hi
<1> DEFINE l == Len(b)
<1>1. /\ l \in Nat \ {0} /\ 1 \in 1 .. l /\ l \in 1 .. l
      /\ \A k \in 1 .. l : b[k].lo \in Nat /\ b[k].hi \in Nat /\ b[k].lo <= b[k].hi
      /\ \A k \in 1 .. l - 1 : b[k].hi = b[k + 1].lo
  BY SpreadBuffers
<1>2. b[1].lo = 0 /\ b[l].hi = size  BY DEF Spread
<1> HIDE DEF l
<1>3. ASSUME NEW k \in 1 .. l
      PROVE  \A m \in 1 .. l : k < m => b[k].hi <= b[m].lo
  <2> DEFINE S == {m \in 1 .. l : k < m => b[k].hi <= b[m].lo}
  <2>1. 1 \in S  BY <1>1
  <2>2. ASSUME NEW m \in 1 .. l - 1, m \in S PROVE m + 1 \in S
    <3>1. m \in 1 .. l /\ m + 1 \in 1 .. l  BY <1>1
    <3>2. b[m].hi = b[m + 1].lo /\ b[m].lo <= b[m].hi  BY <1>1, <3>1
    <3>3. CASE k < m  BY <1>1, <2>2, <3>1, <3>2, <3>3
    <3>4. CASE k = m  BY <1>1, <3>1, <3>2, <3>4
    <3>5. CASE k > m  BY <3>1, <3>5
    <3> QED  BY <1>1, <3>1, <3>3, <3>4, <3>5
  <2> HIDE DEF S
  <2>3. 1 .. l \subseteq S  BY <1>1, <2>1, <2>2, IntervalInduction
  <2> QED  BY <2>3 DEF S
<1>4. ASSUME NEW k \in 1 .. l PROVE b[k].hi <= size
  <2>1. CASE k = l  BY <1>1, <1>2, <2>1
  <2>2. CASE k < l
    <3>1. b[k].hi <= b[l].lo /\ b[l].lo <= b[l].hi  BY <1>1, <1>3, <2>2
    <3> QED  BY <1>1, <1>2, <3>1
  <2> QED  BY <1>1, <2>1, <2>2
<1>5. ASSUME NEW byte \in 0 .. size - 1
      PROVE  \E k \in 1 .. l : b[k].lo <= byte /\ byte < b[k].hi
  <2> DEFINE S == {m \in 1 .. l : byte < b[m].hi =>
                     \E k \in 1 .. l : b[k].lo <= byte /\ byte < b[k].hi}
  <2>1. 1 \in S  BY <1>1, <1>2
  <2>2. ASSUME NEW m \in 1 .. l - 1, m \in S PROVE m + 1 \in S
    <3>1. m \in 1 .. l /\ m + 1 \in 1 .. l  BY <1>1
    <3>2. b[m].hi = b[m + 1].lo  BY <1>1
    <3>3. CASE byte < b[m].hi  BY <2>2, <3>1, <3>3
    <3>4. CASE ~(byte < b[m].hi)
      <4>1. b[m + 1].lo <= byte  BY <1>1, <3>1, <3>2, <3>4
      <4> QED  BY <3>1, <4>1
    <3> QED  BY <3>3, <3>4
  <2> HIDE DEF S
  <2>3. 1 .. l \subseteq S  BY <1>1, <2>1, <2>2, IntervalInduction
  <2>4. l \in S  BY <1>1, <2>3
  <2> QED  BY <1>2, <2>4 DEF S
<1> QED  BY <1>3, <1>4, <1>5 DEF l

(* The buffers that hold `upto` bytes together, when they are there.       *)
LEMMA ReachesBytes ==
  ASSUME NEW b, NEW size \in Nat, Spread(b, size), NEW i \in 1 .. Len(b),
         NEW upto \in Nat, b[i].lo + upto <= size,
         NEW j, j = FirstReaching(b, i, upto)
  PROVE  /\ j \in i .. Len(b)
         /\ upto <= b[j].hi - b[i].lo
         /\ \A k \in i .. Len(b) : k < j => b[k].hi - b[i].lo < upto
<1> DEFINE l == Len(b)
           S == Reaching(b, i, upto)
<1>1. /\ l \in Nat \ {0} /\ l \in 1 .. l
      /\ \A k \in 1 .. l : b[k].lo \in Nat /\ b[k].hi \in Nat
  BY SpreadBuffers
<1>2. b[l].hi = size  BY DEF Spread
<1>3. S = {k \in i .. l : b[k].hi - b[i].lo >= upto}
  BY DEF Reaching, Size, Concat
<1> HIDE DEF l, S
<1>4. i \in 1 .. l  BY DEF l
<1>5. l \in S
  <2>1. b[i].lo \in Nat /\ b[l].hi \in Nat  BY <1>1, <1>4
  <2>2. b[l].hi - b[i].lo >= upto  BY <1>2, <2>1
  <2>3. l \in i .. l  BY <1>1, <1>4
  <2> QED  BY <1>3, <2>2, <2>3
<1>6. S \subseteq Nat  BY <1>3, <1>4
<1>7. PICK m \in S : \A k \in S : m <= k
  <2> DEFINE R == S
  <2>1. PICK x \in R : \A y \in R : ~(<<y, x>> \in OpToRel(<, Nat))
    <3>1. R # {} /\ R \subseteq Nat  BY <1>5, <1>6
    <3> HIDE DEF R
    <3> QED  BY <3>1, WFMin, NatLessThanWellFounded
  <2>2. \A y \in R : ~(y < x)  BY <1>6, <2>1 DEF OpToRel
  <2>3. \A y \in R : x <= y  BY <1>6, <2>2
  <2> QED  BY <2>3
<1>8. Min(S) = m
  <2>1. \A x \in S : (\A y \in S : x <= y) => x = m  BY <1>6, <1>7
  <2> QED  BY <1>7, <2>1 DEF Min
<1>9. j = m
  <2>1. S # {}  BY <1>5
  <2> QED  BY <1>8, <2>1 DEF FirstReaching, S
<1>10. j \in i .. l /\ b[j].hi - b[i].lo >= upto  BY <1>3, <1>7, <1>9
<1>11. b[j].hi \in Nat /\ b[i].lo \in Nat  BY <1>1, <1>4, <1>10
<1>12. ASSUME NEW k \in i .. l, k < j PROVE b[k].hi - b[i].lo < upto
  <2>1. k \notin S  BY <1>6, <1>7, <1>9, <1>12
  <2>2. b[k].hi \in Nat  BY <1>1, <1>4
  <2> QED  BY <1>3, <1>11, <2>1, <2>2
<1> QED  BY <1>10, <1>11, <1>12 DEF l

(* Merging some of the buffers leaves the bytes as they are.               *)
LEMMA MergeSpread ==
  ASSUME NEW b, NEW size \in Nat, Spread(b, size),
         NEW i \in 1 .. Len(b), NEW j \in i .. Len(b),
         NEW n, n = Splice(b, i, j, Concat(b, i, j))
  PROVE  /\ Spread(n, size)
         /\ i \in 1 .. Len(n)
         /\ n[i] = Concat(b, i, j)
<1> DEFINE l == Len(b)
           c == Concat(b, i, j)
<1>1. /\ l \in Nat \ {0} /\ 1 \in 1 .. l /\ l \in 1 .. l
      /\ \A k \in 1 .. l : /\ b[k] \in Buffer /\ b[k].lo \in Nat /\ b[k].hi \in Nat
                           /\ b[k].lo <= b[k].hi
      /\ \A k \in 1 .. l - 1 : b[k].hi = b[k + 1].lo
  BY SpreadBuffers
<1>2. b \in Seq(Buffer) /\ b[1].lo = 0 /\ b[l].hi = size  BY DEF Spread
<1>3. c = [lo |-> b[i].lo, hi |-> b[j].hi]  BY DEF Concat
<1> HIDE DEF l, c
<1>4. i \in 1 .. l /\ j \in i .. l /\ j \in 1 .. l  BY <1>1 DEF l
<1>5. c \in Buffer /\ c.lo = b[i].lo /\ c.hi = b[j].hi /\ c.lo <= c.hi
  <2>1. b[i].lo \in Nat /\ b[j].hi \in Nat  BY <1>1, <1>4
  <2>2. b[i].lo <= b[j].hi
    <3>1. i < j => b[i].hi <= b[j].lo  BY <1>4, SpreadOrder DEF l
    <3>2. CASE i < j  BY <1>1, <1>4, <3>1, <3>2
    <3>3. CASE i = j  BY <1>1, <1>4, <3>3
    <3> QED  BY <1>4, <3>2, <3>3
  <2> QED  BY <1>3, <2>1, <2>2 DEF Buffer
<1>6. /\ n \in Seq(Buffer)
      /\ Len(n) = l - (j - i)
      /\ \A k \in 1 .. Len(n) :
           n[k] = IF k < i THEN b[k] ELSE IF k = i THEN c ELSE b[k + (j - i)]
  <2>1. n = Splice(b, i, j, c)  BY DEF c
  <2>2. b \in Seq(Buffer) /\ c \in Buffer /\ i \in 1 .. Len(b) /\ j \in i .. Len(b)
    BY <1>2, <1>5
  <2>3. /\ n \in Seq(Buffer)
        /\ Len(n) = Len(b) - (j - i)
        /\ \A k \in 1 .. Len(n) :
             n[k] = IF k < i THEN b[k] ELSE IF k = i THEN c ELSE b[k + (j - i)]
    BY <2>1, <2>2, SplicedList
  <2> QED  BY <2>3 DEF l
<1>7. Len(n) \in Nat /\ i \in 1 .. Len(n)  BY <1>1, <1>4, <1>6
<1>8. n[i] = c  BY <1>4, <1>6, <1>7
<1>9. ASSUME NEW k \in 1 .. Len(n) PROVE n[k].lo <= n[k].hi
  <2>1. CASE k < i
    <3>1. k \in 1 .. l /\ n[k] = b[k]  BY <1>1, <1>4, <1>6, <2>1
    <3> QED  BY <1>1, <3>1
  <2>2. CASE k = i  BY <1>5, <1>6, <2>2
  <2>3. CASE k > i
    <3>1. k + (j - i) \in 1 .. l  BY <1>1, <1>4, <1>6, <2>3
    <3>2. n[k] = b[k + (j - i)]  BY <1>4, <1>6, <2>3
    <3> QED  BY <1>1, <3>1, <3>2
  <2> QED  BY <1>4, <1>6, <2>1, <2>2, <2>3
<1>10. ASSUME NEW k \in 1 .. Len(n) - 1 PROVE n[k].hi = n[k + 1].lo
  <2>1. k \in 1 .. Len(n) /\ k + 1 \in 1 .. Len(n)  BY <1>7
  <2>2. CASE k + 1 < i
    <3>1. n[k] = b[k] /\ n[k + 1] = b[k + 1]  BY <1>4, <1>6, <2>1, <2>2
    <3>2. k \in 1 .. l - 1  BY <1>1, <1>4, <2>2
    <3> QED  BY <1>1, <3>1, <3>2
  <2>3. CASE k + 1 = i
    <3>1. n[k] = b[k] /\ n[k + 1] = c  BY <1>4, <1>6, <2>1, <2>3
    <3>2. k \in 1 .. l - 1  BY <1>1, <1>4, <2>3
    <3>3. b[k].hi = b[k + 1].lo  BY <1>1, <3>2
    <3> QED  BY <1>5, <2>3, <3>1, <3>3
  <2>4. CASE k = i
    <3>1. n[k] = c  BY <1>6, <2>1, <2>4
    <3>2. n[k + 1] = b[(k + 1) + (j - i)]  BY <1>4, <1>6, <2>1, <2>4
    <3>3. (k + 1) + (j - i) = j + 1  BY <1>4, <2>4
    <3>4. j \in 1 .. l - 1  BY <1>1, <1>4, <1>6, <2>1, <2>4
    <3>5. b[j].hi = b[j + 1].lo  BY <1>1, <3>4
    <3> QED  BY <1>5, <3>1, <3>2, <3>3, <3>5
  <2>5. CASE k > i
    <3>1. n[k] = b[k + (j - i)]  BY <1>4, <1>6, <2>1, <2>5
    <3>2. n[k + 1] = b[(k + 1) + (j - i)]  BY <1>4, <1>6, <2>1, <2>5
    <3>3. (k + 1) + (j - i) = (k + (j - i)) + 1  BY <1>4
    <3>4. k + (j - i) \in 1 .. l - 1  BY <1>1, <1>4, <1>6, <2>1, <2>5, SMTT(30)
    <3>5. b[k + (j - i)].hi = b[(k + (j - i)) + 1].lo  BY <1>1, <3>4
    <3> QED  BY <3>1, <3>2, <3>3, <3>5
  <2> QED  BY <1>4, <1>7, <2>2, <2>3, <2>4, <2>5
<1>11. n[1].lo = 0
  <2>1. 1 \in 1 .. Len(n)  BY <1>7
  <2>2. CASE 1 < i  BY <1>2, <1>6, <2>1, <2>2
  <2>3. CASE i = 1  BY <1>2, <1>5, <1>6, <2>1, <2>3
  <2> QED  BY <1>4, <2>2, <2>3
<1>12. n[Len(n)].hi = size
  <2>1. Len(n) \in 1 .. Len(n)  BY <1>7
  <2>2. CASE Len(n) = i
    <3>1. j = l  BY <1>1, <1>4, <1>6, <2>2
    <3>2. n[Len(n)] = c  BY <1>8, <2>2
    <3> QED  BY <1>2, <1>5, <3>1, <3>2
  <2>3. CASE Len(n) > i
    <3>1. n[Len(n)] = b[Len(n) + (j - i)]  BY <1>4, <1>6, <2>1, <2>3
    <3>2. Len(n) + (j - i) = l  BY <1>1, <1>4, <1>6
    <3> QED  BY <1>2, <3>1, <3>2
  <2> QED  BY <1>4, <1>7, <2>2, <2>3
<1>13. n # <<>>
  <2>1. Len(n) # 0  BY <1>7
  <2> QED  BY <2>1
<1>14. Contiguous(n)  BY <1>10 DEF Contiguous
<1>15. Spread(n, size)  BY <1>6, <1>9, <1>11, <1>12, <1>13, <1>14 DEF Spread
<1> QED  BY <1>7, <1>8, <1>15 DEF c

(* What the cursor of a reader over these bytes is.                        *)
LEMMA AtPlace ==
  ASSUME NEW r, NEW size, NEW pos, At(r, size, pos)
  PROVE  /\ size \in Nat /\ pos \in Nat /\ pos <= size
         /\ r.offset = pos
         /\ LengthOf(r) = size
         /\ IsList(r) => ListAt(r, size, pos)
         /\ ~IsList(r) => r = [buffer |-> [lo |-> 0, hi |-> size], offset |-> pos]
<1>1. size \in Nat /\ pos \in 0 .. size  BY DEF At
<1>2. CASE IsList(r)
  <2>1. ListAt(r, size, pos)  BY <1>2 DEF At
  <2> QED  BY <1>1, <1>2, <2>1 DEF ListAt, LengthOf
<1>3. CASE ~IsList(r)
  <2>1. r = [buffer |-> [lo |-> 0, hi |-> size], offset |-> pos]  BY <1>3 DEF At
  <2>2. r.offset = pos /\ r.buffer = [lo |-> 0, hi |-> size]  BY <2>1
  <2>3. Size(r.buffer) = size  BY <1>1, <2>2 DEF Size
  <2> QED  BY <1>1, <1>3, <2>1, <2>2, <2>3 DEF LengthOf
<1> QED  BY <1>2, <1>3

(* The cursor of a list at another place.                                  *)
LEMMA MovesAt ==
  ASSUME NEW r, NEW size \in Nat, NEW pos, ListAt(r, size, pos),
         NEW to \in 0 .. size, NEW k \in Nat \ {0}, NEW o \in Nat,
         Stands(r.buffers, k, o, to, size),
         NEW q, q = MoveTo(r, to, k, o)
  PROVE  /\ At(q, size, to)
         /\ IsList(q)
         /\ q.buffers = r.buffers
         /\ q.timestamp = r.timestamp
         /\ q.curBufferIndex = k
         /\ q.curBufferOffset = o
<1>1. r \in Reader /\ Spread(r.buffers, size) /\ r.length = size  BY DEF ListAt
<1>2. q = [r EXCEPT !.offset = to, !.curBufferIndex = k, !.curBufferOffset = o]
  BY DEF MoveTo
<1>3. to \in Nat  OBVIOUS
<1>4. q \in Reader  BY <1>1, <1>2, <1>3 DEF Reader
<1>5. /\ q.buffers = r.buffers /\ q.length = r.length /\ q.offset = to
      /\ q.timestamp = r.timestamp
      /\ q.curBufferIndex = k /\ q.curBufferOffset = o
  BY <1>1, <1>2 DEF Reader
<1>6. IsList(q)  BY <1>4 DEF IsList, Reader
<1>7. ListAt(q, size, to)  BY <1>1, <1>4, <1>5 DEF ListAt
<1> QED  BY <1>5, <1>6, <1>7 DEF At

(* The buffer under the cursor, when not all bytes are read.               *)
LEMMA StandsInBuffer ==
  ASSUME NEW r, NEW size \in Nat, NEW pos \in Nat, ListAt(r, size, pos), pos < size
  PROVE  /\ r.curBufferIndex \in 1 .. Len(r.buffers)
         /\ r.curBufferOffset \in Nat
         /\ r.curBufferOffset <= Size(r.buffers[r.curBufferIndex])
         /\ r.buffers[r.curBufferIndex].lo + r.curBufferOffset = pos
<1>1. r.curBufferOffset \in Nat  BY DEF ListAt, Reader
<1>2. Stands(r.buffers, r.curBufferIndex, r.curBufferOffset, pos, size)  BY DEF ListAt
<1> QED  BY <1>1, <1>2 DEF Stands

(* _consolidate moves the cursor over the bytes wanted, merged or not, and *)
(* the bytes stay where they are; a merge is told by the timestamp.        *)
LEMMA ConsolidateAt ==
  ASSUME NEW r, NEW size \in Nat, NEW pos \in Nat, ListAt(r, size, pos), pos < size,
         NEW len \in Nat, pos + len <= size,
         NEW q, q = Consolidate(r, len)
  PROVE  /\ At(q, size, pos + len)
         /\ IsList(q)
         /\ r.timestamp <= q.timestamp
         /\ q.timestamp = r.timestamp => q.buffers = r.buffers
         /\ len > 0 => ReadOut(r, len) = [lo |-> pos, hi |-> pos + len]
<1> DEFINE b == r.buffers
           i == r.curBufferIndex
           place == r.curBufferOffset
           upto == place + len
           j == LastSpanned(r, len)
           to == pos + len
<1>1. /\ r \in Reader /\ Spread(b, size) /\ r.length = size /\ r.offset = pos
      /\ r.timestamp \in Nat
  BY DEF ListAt, Reader
<1>2. i \in 1 .. Len(b) /\ place \in Nat /\ place <= Size(b[i]) /\ b[i].lo + place = pos
  BY StandsInBuffer
<1>3. /\ Len(b) \in Nat
      /\ \A k \in 1 .. Len(b) : b[k].lo \in Nat /\ b[k].hi \in Nat /\ b[k].lo <= b[k].hi
  BY <1>1, SpreadBuffers
<1>4. to \in 0 .. size /\ to \in Nat  OBVIOUS
<1> HIDE DEF b, i, place, j, to
<1>5. upto \in Nat /\ b[i].lo \in Nat /\ b[i].hi \in Nat  BY <1>2, <1>3
<1>6. b[i].lo + upto = to
  <2>1. b[i].lo + (place + len) = (b[i].lo + place) + len  BY <1>2, <1>5
  <2> QED  BY <1>2, <2>1 DEF to
<1> HIDE DEF upto
<1>7. /\ j \in i .. Len(b)
      /\ upto <= b[j].hi - b[i].lo
      /\ \A k \in i .. Len(b) : k < j => b[k].hi - b[i].lo < upto
  <2>1. j = FirstReaching(b, i, upto)  BY DEF j, LastSpanned, b, i, upto, place
  <2>2. b[i].lo + upto <= size  BY <1>4, <1>6
  <2>3. upto \in Nat /\ i \in 1 .. Len(b) /\ Spread(b, size)  BY <1>1, <1>2, <1>5
  <2> HIDE DEF b
  <2> QED  BY <2>1, <2>2, <2>3, ReachesBytes
<1>8. j \in 1 .. Len(b)  BY <1>2, <1>3, <1>7
<1>9. b[j].lo \in Nat /\ b[j].hi \in Nat  BY <1>3, <1>8
<1>10. to <= b[j].hi
  <2>1. b[i].lo + upto <= b[j].hi  BY <1>5, <1>7, <1>9, SMTT(30)
  <2> QED  BY <1>6, <2>1
<1>11. Consolidated(r, len) = [lo |-> b[i].lo, hi |-> b[j].hi]
  BY DEF Consolidated, Concat, b, i, j
<1>12. len > 0 => ReadOut(r, len) = [lo |-> pos, hi |-> to]
  <2>1. SUFFICES ASSUME len > 0 PROVE ReadOut(r, len) = [lo |-> pos, hi |-> to]
    OBVIOUS
  <2>2. ReadOut(r, len) = Subarray(Consolidated(r, len), place, upto)
    BY <2>1 DEF ReadOut, place, upto
  <2>3. Subarray(Consolidated(r, len), place, upto)
          = [lo |-> b[i].lo + place,
             hi |-> IF b[i].lo + upto < b[j].hi THEN b[i].lo + upto ELSE b[j].hi]
    BY <1>11 DEF Subarray
  <2>4. (IF to < b[j].hi THEN to ELSE b[j].hi) = to  BY <1>4, <1>9, <1>10
  <2> QED  BY <1>2, <1>6, <2>2, <2>3, <2>4
<1>13. CASE upto > Size(b[i])
  <2> DEFINE n == Splice(b, i, j, Concat(b, i, j))
  <2>1. q = ReadMerging(r, len)
    BY <1>13 DEF Consolidate, CurBuffer, b, i, upto, place
  <2>2. q = [r EXCEPT !.offset = to, !.curBufferOffset = upto,
                      !.buffers = n, !.timestamp = r.timestamp + 1]
    <3>1. ReadMerging(r, len)
            = [r EXCEPT !.offset = r.offset + len,
                        !.curBufferOffset = r.curBufferOffset + len,
                        !.buffers = Splice(r.buffers, r.curBufferIndex,
                                           LastSpanned(r, len), Consolidated(r, len)),
                        !.timestamp = r.timestamp + 1]
      BY <1>1 DEF ReadMerging, Reader
    <3>2. Consolidated(r, len) = Concat(b, i, j)  BY DEF Consolidated, b, i, j
    <3>3. r.offset + len = to  BY <1>1 DEF to
    <3> QED  BY <2>1, <3>1, <3>2, <3>3 DEF b, i, j, upto, place
  <2>3. Spread(n, size) /\ i \in 1 .. Len(n) /\ n[i] = Concat(b, i, j)
    BY <1>1, <1>2, <1>7, MergeSpread
  <2> HIDE DEF n
  <2>4. r.timestamp + 1 \in Nat /\ n \in Seq(Buffer)  BY <1>1, <2>3 DEF Spread
  <2>5. q \in Reader  BY <1>1, <1>4, <1>5, <2>2, <2>4 DEF Reader
  <2>6. /\ q.offset = to /\ q.curBufferOffset = upto /\ q.buffers = n
        /\ q.timestamp = r.timestamp + 1 /\ q.length = r.length
        /\ q.curBufferIndex = i
    BY <1>1, <2>2 DEF Reader, i
  <2>7. Stands(n, i, upto, to, size)
    <3>1. n[i].lo = b[i].lo /\ n[i].hi = b[j].hi  BY <2>3 DEF Concat
    <3>2. upto <= Size(n[i])  BY <1>7, <3>1 DEF Size
    <3> QED  BY <1>6, <2>3, <3>1, <3>2 DEF Stands
  <2>8. ListAt(q, size, to)  BY <1>1, <2>3, <2>5, <2>6, <2>7 DEF ListAt
  <2>9. IsList(q)  BY <2>5 DEF IsList, Reader
  <2>10. At(q, size, to)  BY <1>4, <2>8, <2>9 DEF At
  <2>11. r.timestamp <= q.timestamp /\ q.timestamp # r.timestamp  BY <1>1, <2>6
  <2> QED  BY <1>12, <2>9, <2>10, <2>11 DEF to
<1>14. CASE ~(upto > Size(b[i]))
  <2> DEFINE ends == upto = Size(b[i])
             k == IF ends THEN i + 1 ELSE i
             o == IF ends THEN 0 ELSE upto
  <2>1. q = MoveTo(r, to, k, o)
    <3>1. q = ReadInBuffer(r, len)
      BY <1>14 DEF Consolidate, CurBuffer, b, i, upto, place
    <3>2. r.offset + len = to  BY <1>1 DEF to
    <3> QED  BY <3>1, <3>2 DEF ReadInBuffer, CurBuffer, b, i, upto, place
  <2>2. k \in Nat \ {0} /\ o \in Nat  BY <1>2, <1>5
  <2>3. Stands(b, k, o, to, size)
    <3>1. Size(b[i]) = b[i].hi - b[i].lo  BY DEF Size
    <3>2. CASE ends
      <4>1. b[i].hi = to  BY <1>5, <1>6, <3>1, <3>2
      <4>2. k = i + 1 /\ o = 0  BY <3>2
      <4>3. CASE i = Len(b)
        <5>1. b[i].hi = size  BY <1>1, <4>3 DEF Spread
        <5> QED  BY <4>1, <4>2, <4>3, <5>1 DEF Stands
      <4>4. CASE i < Len(b)
        <5>1. i \in 1 .. Len(b) - 1 /\ i + 1 \in 1 .. Len(b)  BY <1>2, <1>3, <4>4
        <5>2. b[i].hi = b[i + 1].lo  BY <1>1, <5>1, SpreadBuffers
        <5>3. Size(b[i + 1]) >= 0 /\ b[i + 1].lo + 0 = to
          BY <1>3, <4>1, <5>1, <5>2 DEF Size
        <5> QED  BY <4>2, <5>1, <5>3 DEF Stands
      <4> QED  BY <1>2, <1>3, <4>3, <4>4
    <3>3. CASE ~ends
      <4>1. upto <= Size(b[i])  BY <1>5, <1>14, <3>1
      <4>2. k = i /\ o = upto  BY <3>3
      <4> QED  BY <1>2, <1>6, <4>1, <4>2 DEF Stands
    <3> QED  BY <3>2, <3>3
  <2> HIDE DEF k, o
  <2>5. Stands(r.buffers, k, o, to, size) /\ k \in Nat \ {0} /\ o \in Nat
    BY <2>2, <2>3 DEF b
  <2>4. /\ At(q, size, to) /\ IsList(q)
        /\ q.buffers = r.buffers /\ q.timestamp = r.timestamp
    <3>1. size \in Nat /\ ListAt(r, size, pos) /\ to \in 0 .. size  BY <1>1, <1>4
    <3>2. /\ At(MoveTo(r, to, k, o), size, to) /\ IsList(MoveTo(r, to, k, o))
          /\ MoveTo(r, to, k, o).buffers = r.buffers
          /\ MoveTo(r, to, k, o).timestamp = r.timestamp
      BY ONLY <2>5, <3>1, MovesAt
    <3> QED  BY ONLY <2>1, <3>2, Zenon
  <2> QED  BY <1>1, <1>12, <2>4 DEF to
<1> QED  BY <1>13, <1>14

(* seek goes to any byte that is there and, like BufferReader, to no other *)
(* place.                                                                  *)
LEMMA SeekAt ==
  ASSUME NEW r, NEW size, NEW pos, At(r, size, pos),
         NEW to \in Nat, to <= size, IsList(r) => pos < size,
         NEW q, q = SeekTo(r, to)
  PROVE  /\ At(q, size, IF to < size THEN to ELSE pos)
         /\ IsList(q) <=> IsList(r)
         /\ IsList(r) => q.buffers = r.buffers /\ q.timestamp = r.timestamp
<1>1. size \in Nat /\ pos \in Nat /\ pos <= size /\ r.offset = pos  BY AtPlace
<1>2. CASE ~IsList(r)
  <2>1. r = [buffer |-> [lo |-> 0, hi |-> size], offset |-> pos]  BY <1>2, AtPlace
  <2>2. Size(r.buffer) = size  BY <1>1, <2>1 DEF Size
  <2>3. CASE to < size
    <3>1. q = [r EXCEPT !.offset = to]  BY <1>2, <2>2, <2>3 DEF SeekTo
    <3>2. q = [buffer |-> [lo |-> 0, hi |-> size], offset |-> to]  BY <2>1, <3>1
    <3>3. ~IsList(q)  BY <3>2 DEF IsList
    <3>4. to \in 0 .. size  BY <1>1
    <3> QED  BY <1>1, <1>2, <2>3, <3>2, <3>3, <3>4 DEF At
  <2>4. CASE ~(to < size)
    <3>1. q = r  BY <1>2, <2>2, <2>4 DEF SeekTo
    <3> QED  BY <1>2, <2>4, <3>1
  <2> QED  BY <2>3, <2>4
<1>3. CASE IsList(r)
  <2> DEFINE b == r.buffers
             c == r.curBufferIndex
             i == Holding(b, to)
  <2>1. ListAt(r, size, pos) /\ pos < size  BY <1>3, AtPlace
  <2>2. q = Seek(r, to)  BY <1>3 DEF SeekTo
  <2>3. Spread(b, size) /\ r.length = size  BY <2>1 DEF ListAt
  <2>4. /\ c \in 1 .. Len(b) /\ r.curBufferOffset \in Nat /\ b[c].lo + r.curBufferOffset = pos
    BY <1>1, <2>1, StandsInBuffer
  <2>5. CASE to = pos
    <3>1. q = r  BY <1>1, <2>2, <2>5 DEF Seek, SeekThrows
    <3> QED  BY <2>5, <3>1
  <2>6. CASE ~(to < size)
    <3>1. ~SeekAccepts(r, to)  BY <1>1, <2>1, <2>3, <2>6 DEF SeekAccepts
    <3>2. q = r  BY <2>2, <3>1 DEF Seek, SeekThrows
    <3> QED  BY <2>6, <3>2
  <2>7. CASE to < size /\ to # pos
    <3>1. Len(b) \in Nat /\ \A k \in 1 .. Len(b) : b[k].lo \in Nat /\ b[k].hi \in Nat
      BY <1>1, <2>3, SpreadBuffers
    <3>2. SeekAccepts(r, to) /\ r.offset # to  BY <1>1, <2>3, <2>7 DEF SeekAccepts
    <3>3. ~PastLastBuffer(r)  BY <2>4, <3>1 DEF PastLastBuffer
    <3>4. Target(r, to) = to
      <4>1. Target(r, to) = (b[c].lo + r.curBufferOffset) + (to - pos)
        BY <1>1 DEF Target, CurBuffer
      <4>2. Target(r, to) = pos + (to - pos)  BY <2>4, <4>1
      <4> QED  BY <1>1, <4>2
    <3>5. /\ i \in 1 .. Len(b)
          /\ b[i].lo <= to /\ to < b[i].hi
      <4>1. to \in 0 .. size - 1  BY <1>1, <2>7
      <4>2. \E k \in 1 .. Len(b) : b[k].lo <= to /\ to < b[k].hi
        BY <1>1, <2>3, <4>1, SpreadOrder
      <4> HIDE DEF b
      <4> QED  BY <4>2 DEF Holding
    <3>6. q = MoveTo(r, to, i, to - b[i].lo)
      <4>1. ~SeekThrows(r, to)  BY <3>3 DEF SeekThrows
      <4>2. ~(r.offset = to \/ ~SeekAccepts(r, to))  BY <3>2
      <4>3. q = MoveTo(r, to, Holding(b, Target(r, to)),
                       Target(r, to) - b[Holding(b, Target(r, to))].lo)
        BY <2>2, <4>1, <4>2 DEF Seek
      <4> QED  BY <3>4, <4>3
    <3> HIDE DEF b, i, c
    <3>7. b[i].lo \in Nat /\ b[i].hi \in Nat  BY <3>1, <3>5
    <3>8. to - b[i].lo \in Nat /\ i \in Nat \ {0} /\ to \in 0 .. size
      BY <1>1, <2>7, <3>1, <3>5, <3>7
    <3>9. Stands(b, i, to - b[i].lo, to, size)
      <4>1. to - b[i].lo <= b[i].hi - b[i].lo  BY <3>5, <3>7
      <4>2. b[i].lo + (to - b[i].lo) = to  BY <3>7
      <4> QED  BY <3>5, <4>1, <4>2 DEF Stands, Size
    <3>10. /\ At(q, size, to) /\ IsList(q)
           /\ q.buffers = r.buffers /\ q.timestamp = r.timestamp
      <4> DEFINE o == to - b[i].lo
      <4>1. q = MoveTo(r, to, i, o) /\ o \in Nat /\ Stands(r.buffers, i, o, to, size)
        BY <3>6, <3>8, <3>9 DEF b
      <4> HIDE DEF o
      <4> QED  BY <1>1, <2>1, <3>8, <4>1, MovesAt
    <3> QED  BY <1>3, <2>7, <3>10
  <2> QED  BY <2>5, <2>6, <2>7
<1> QED  BY <1>2, <1>3

(* A reader later on: of the same class, and with a merge the time is      *)
(* another.                                                                *)
Later(r, q) ==
  /\ IsList(q) <=> IsList(r)
  /\ IsList(r) => /\ r.timestamp \in Nat /\ q.timestamp \in Nat
                  /\ r.timestamp <= q.timestamp
                  /\ q.timestamp = r.timestamp => q.buffers = r.buffers

(* One thing after another.                                                *)
LEMMA LaterTwice ==
  ASSUME NEW r, NEW q, NEW p, Later(r, q), Later(q, p)
  PROVE  Later(r, p)
BY DEF Later

(* Nothing read leaves the reader as it is.                                *)
LEMMA LaterSame ==
  ASSUME NEW r, NEW size, NEW pos, At(r, size, pos)
  PROVE  Later(r, r)
<1>1. IsList(r) => r.timestamp \in Nat  BY AtPlace DEF ListAt, Reader
<1> QED  BY <1>1 DEF Later

(* readByte, readUInt16, readUInt32 and readDouble, where there are bytes  *)
(* enough.                                                                 *)
LEMMA NumberAt ==
  ASSUME NEW r, NEW size, NEW pos, At(r, size, pos),
         NEW len \in Nat, pos + len <= size, len > 0 \/ pos < size,
         NEW q, q = NumberBy(r, len)
  PROVE  /\ At(q, size, pos + len)
         /\ Later(r, q)
         /\ len > 0 => NumberOut(r, len) = [lo |-> pos, hi |-> pos + len]
<1>1. size \in Nat /\ pos \in Nat /\ pos < size /\ r.offset = pos  BY AtPlace
<1>2. CASE IsList(r)
  <2>1. ListAt(r, size, pos)  BY <1>2, AtPlace
  <2>2. q = Consolidate(r, len)  BY <1>2 DEF NumberBy
  <2>3. /\ At(q, size, pos + len)
        /\ IsList(q)
        /\ r.timestamp <= q.timestamp
        /\ q.timestamp = r.timestamp => q.buffers = r.buffers
        /\ len > 0 => ReadOut(r, len) = [lo |-> pos, hi |-> pos + len]
    BY <1>1, <2>1, <2>2, ConsolidateAt
  <2>4. r.timestamp \in Nat  BY <2>1 DEF ListAt, Reader
  <2>5. q.timestamp \in Nat  BY <2>3, AtPlace DEF ListAt, Reader
  <2> QED  BY <1>2, <2>3, <2>4, <2>5 DEF Later, NumberOut
<1>3. CASE ~IsList(r)
  <2>1. r = [buffer |-> [lo |-> 0, hi |-> size], offset |-> pos]  BY <1>3, AtPlace
  <2>2. q = [r EXCEPT !.offset = r.offset + len]  BY <1>3, <2>1 DEF NumberBy
  <2>3. q = [buffer |-> [lo |-> 0, hi |-> size], offset |-> pos + len]
    BY <2>1, <2>2
  <2>4. ~IsList(q)  BY <2>3 DEF IsList
  <2>5. pos + len \in 0 .. size  BY <1>1
  <2>6. At(q, size, pos + len)  BY <1>1, <2>3, <2>4, <2>5 DEF At
  <2>7. NumberOut(r, len) = Subarray([lo |-> 0, hi |-> size], pos, pos + len)
    BY <1>3, <2>1 DEF NumberOut
  <2>8. NumberOut(r, len) = [lo |-> pos, hi |-> pos + len]
    <3>1. 0 + pos = pos /\ 0 + (pos + len) = pos + len  BY <1>1
    <3>2. (IF pos + len < size THEN pos + len ELSE size) = pos + len  BY <1>1
    <3>3. NumberOut(r, len)
            = [lo |-> 0 + pos, hi |-> IF 0 + (pos + len) < size THEN 0 + (pos + len)
                                      ELSE size]
      BY <2>7 DEF Subarray
    <3> QED  BY <3>1, <3>2, <3>3
  <2> QED  BY <1>3, <2>4, <2>6, <2>8 DEF Later
<1> QED  BY <1>2, <1>3

(* readString and readBuffer, where there are bytes enough.                *)
LEMMA BytesAt ==
  ASSUME NEW r, NEW size, NEW pos, At(r, size, pos),
         NEW len \in Nat, pos + len <= size,
         NEW q, q = BytesBy(r, len)
  PROVE  /\ At(q, size, pos + len)
         /\ Later(r, q)
         /\ len > 0 => BytesOut(r, len) = [lo |-> pos, hi |-> pos + len]
<1>1. /\ size \in Nat /\ pos \in Nat /\ pos <= size /\ r.offset = pos
      /\ LengthOf(r) = size
  BY AtPlace
<1>2. Available(r, len) = len
  <2>1. len # NoLen  BY NoLenAssumption
  <2>2. CASE len <= 0
    <3>1. AdjustEnd(pos, size, len) = pos  BY <2>1, <2>2 DEF AdjustEnd
    <3>2. len = 0  BY <2>2
    <3> QED  BY <1>1, <3>1, <3>2 DEF Available
  <2>3. CASE ~(len <= 0)
    <3>1. AdjustEnd(pos, size, len) = IF pos + len > size THEN size ELSE pos + len
      BY <2>1, <2>3 DEF AdjustEnd
    <3>2. AdjustEnd(pos, size, len) = pos + len  BY <1>1, <3>1
    <3>3. (pos + len) - pos = len  BY <1>1
    <3> QED  BY <1>1, <3>2, <3>3 DEF Available
  <2> QED  BY <2>2, <2>3
<1>3. BytesOut(r, len) = NumberOut(r, len)  BY <1>2 DEF BytesOut
<1>4. CASE len = 0
  <2>1. q = r
    <3>1. CASE IsList(r)  BY <1>2, <1>4, <3>1 DEF BytesBy, ReadBy
    <3>2. CASE ~IsList(r)
      <4>1. r = [buffer |-> [lo |-> 0, hi |-> size], offset |-> pos]  BY <3>2, AtPlace
      <4>2. q = [r EXCEPT !.offset = r.offset + 0]  BY <1>2, <1>4, <3>2, <4>1 DEF BytesBy
      <4>3. r.offset + 0 = r.offset  BY <1>1
      <4> QED  BY <4>1, <4>2, <4>3
    <3> QED  BY <3>1, <3>2
  <2>2. pos + len = pos  BY <1>1, <1>4
  <2> QED  BY <1>4, <2>1, <2>2, LaterSame
<1>5. CASE len > 0
  <2>1. q = NumberBy(r, len)  BY <1>2, <1>5 DEF BytesBy, NumberBy, ReadBy
  <2> QED  BY <1>3, <1>5, <2>1, NumberAt
<1> QED  BY <1>4, <1>5

(* readArrayBuffer, where there are bytes enough.                          *)
LEMMA ArrayBufferAt ==
  ASSUME NEW r, NEW size, NEW pos, At(r, size, pos), pos < size,
         NEW len \in Nat, pos + len <= size,
         NEW q, q = ArrayBufferBy(r, len)
  PROVE  At(q, size, pos + len) /\ Later(r, q)
<1>1. CASE IsList(r)
  <2>1. q = NumberBy(r, len)  BY <1>1 DEF ArrayBufferBy, NumberBy
  <2> QED  BY <2>1, NumberAt
<1>2. CASE ~IsList(r)
  <2>1. q = BytesBy(r, len)  BY <1>2 DEF ArrayBufferBy
  <2> QED  BY <2>1, BytesAt
<1> QED  BY <1>1, <1>2

(* A footer, or a packet, is skipped when there is a byte behind it.       *)
LEMMA SkipAt ==
  ASSUME NEW r, NEW size, NEW pos, At(r, size, pos), pos < size,
         NEW step \in Nat, pos + step <= size,
         NEW q, q = SkipBy(r, step)
  PROVE  /\ At(q, size, IF pos + step < size THEN pos + step ELSE pos)
         /\ Later(r, q)
<1> DEFINE to == pos + step
<1>1. size \in Nat /\ pos \in Nat /\ r.offset = pos  BY AtPlace
<1>2. to \in Nat /\ to <= size  BY <1>1
<1>3. q = SeekTo(r, to)  BY <1>1 DEF SkipBy
<1> HIDE DEF to
<1>4. /\ At(q, size, IF to < size THEN to ELSE pos)
      /\ IsList(q) <=> IsList(r)
      /\ IsList(r) => q.buffers = r.buffers /\ q.timestamp = r.timestamp
  BY <1>2, <1>3, SeekAt
<1>5. IsList(r) => r.timestamp \in Nat  BY AtPlace DEF ListAt, Reader
<1>6. Later(r, q)  BY <1>4, <1>5 DEF Later
<1> QED  BY <1>4, <1>6 DEF to

(* A new reader of all the bytes in one buffer.                            *)
LEMMA BufferReaderAt ==
  ASSUME NEW size \in Nat, NEW to \in 0 .. size
  PROVE  LET r == NewBufferReader([lo |-> 0, hi |-> size], to)
         IN At(r, size, to) /\ ~IsList(r)
BY DEF At, NewBufferReader, IsList

(* The sum of the sizes of the buffers up to each set of places.           *)
SizesUpTo(g, buffers, n) ==
  g = [t \in SUBSET (1 .. n) |->
         IF t = {} THEN 0 ELSE g[t \ {Max(t)}] + Size(buffers[Max(t)])]

(* The length a reader gets is the size of all its buffers.                *)
LEMMA SizesAddUp ==
  ASSUME NEW b, NEW size \in Nat, Spread(b, size)
  PROVE  FoldLeft(LAMBDA sum, buffer : sum + Size(buffer), 0, b) = size
<1> DEFINE N == Len(b)
           s == [k \in 1 .. N |-> [size |-> Size(b[k])]]
<1>1. /\ N \in Nat \ {0} /\ DOMAIN b = 1 .. N /\ 1 \in 1 .. N /\ N \in 1 .. N
      /\ \A k \in 1 .. N : b[k].lo \in Nat /\ b[k].hi \in Nat
      /\ \A k \in 1 .. N - 1 : b[k].hi = b[k + 1].lo
  <2>1. b \in Seq(Buffer)  BY DEF Spread
  <2>2. DOMAIN b = 1 .. N  BY <2>1
  <2> QED  BY <2>2, SpreadBuffers
<1>2. b[1].lo = 0 /\ b[N].hi = size  BY DEF Spread
<1> HIDE DEF N
<1>3. \E g : Totals(g, s, N)
  <2> DEFINE S == {n \in 0 .. N : \E g : Totals(g, s, n)}
  <2>1. 0 \in S
    <3> DEFINE none == [t \in SUBSET (1 .. 0) |-> 0]
    <3>1. \A t \in SUBSET (1 .. 0) : t = {}  OBVIOUS
    <3>2. Totals(none, s, 0)  BY <3>1 DEF Totals
    <3>3. 0 \in 0 .. N  BY <1>1
    <3> QED  BY <3>2, <3>3
  <2> HIDE DEF s
  <2>2. ASSUME NEW n \in 0 .. N - 1, n \in S PROVE n + 1 \in S
    <3>1. PICK g : Totals(g, s, n)  BY <2>2
    <3>2. n \in Nat  OBVIOUS
    <3>3. \E h : Totals(h, s, n + 1)  BY <3>1, <3>2, TotalsOneMore
    <3> QED  BY <1>1, <3>3
  <2> HIDE DEF S
  <2>3. 0 .. N \subseteq S  BY <1>1, <2>1, <2>2, IntervalInduction
  <2> QED  BY <1>1, <2>3 DEF S
<1>4. \E g : SizesUpTo(g, b, N)
  <2>1. PICK g : Totals(g, s, N)  BY <1>3
  <2>2. ASSUME NEW t \in SUBSET (1 .. N), t # {}
        PROVE  s[Max(t)].size = Size(b[Max(t)])
    <3>1. Max(t) \in t  BY <1>1, <2>2, MaxIsGreatest
    <3>2. Max(t) \in 1 .. N  BY <3>1
    <3> QED  BY <3>2
  <2>3. g = [t \in SUBSET (1 .. N) |->
               IF t = {} THEN 0 ELSE g[t \ {Max(t)}] + s[Max(t)].size]
    BY <2>1 DEF Totals
  <2> HIDE DEF s
  <2>4. g = [t \in SUBSET (1 .. N) |->
               IF t = {} THEN 0 ELSE g[t \ {Max(t)}] + Size(b[Max(t)])]
    BY <2>2, <2>3
  <2> QED  BY <2>4 DEF SizesUpTo
<1> DEFINE g == CHOOSE g : g = [t \in SUBSET DOMAIN b |->
                                  IF t = {} THEN 0
                                  ELSE g[t \ {Max(t)}] + Size(b[Max(t)])]
<1>5. FoldLeft(LAMBDA sum, buffer : sum + Size(buffer), 0, b) = g[DOMAIN b]
  BY DEF FoldLeft, MapThenFoldSet
<1>6. SizesUpTo(g, b, N)  BY <1>1, <1>4 DEF SizesUpTo
<1> HIDE DEF g
<1>7. \A t \in SUBSET (1 .. N) :
        g[t] = IF t = {} THEN 0 ELSE g[t \ {Max(t)}] + Size(b[Max(t)])
  BY <1>6 DEF SizesUpTo
<1>8. ASSUME NEW k \in 1 .. N, g[1 .. k - 1] = b[k].lo
      PROVE  g[1 .. k] = b[k].hi
  <2>1. Max(1 .. k) = k /\ (1 .. k) \ {Max(1 .. k)} = 1 .. k - 1
    BY MaxOfInterval
  <2>2. 1 .. k \in SUBSET (1 .. N) /\ 1 .. k # {}  BY <1>1
  <2>3. g[1 .. k] = g[(1 .. k) \ {Max(1 .. k)}] + Size(b[Max(1 .. k)])
    BY <1>7, <2>2
  <2>4. g[1 .. k] = b[k].lo + Size(b[k])  BY <1>8, <2>1, <2>3
  <2> QED  BY <1>1, <2>4 DEF Size
<1> DEFINE S == {k \in 1 .. N : g[1 .. k] = b[k].hi}
<1>9. 1 \in S
  <2>1. 1 .. 1 - 1 = {}  OBVIOUS
  <2>2. g[1 .. 1 - 1] = 0  BY <1>7, <2>1
  <2> QED  BY <1>1, <1>2, <1>8, <2>2
<1>10. ASSUME NEW k \in 1 .. N - 1, k \in S PROVE k + 1 \in S
  <2>1. k + 1 \in 1 .. N /\ (k + 1) - 1 = k  BY <1>1
  <2>2. g[1 .. (k + 1) - 1] = b[k + 1].lo  BY <1>1, <1>10, <2>1
  <2> QED  BY <1>8, <2>1, <2>2
<1> HIDE DEF S
<1>11. 1 .. N \subseteq S  BY <1>1, <1>9, <1>10, IntervalInduction
<1>12. g[1 .. N] = size  BY <1>1, <1>2, <1>11 DEF S
<1> QED  BY <1>1, <1>5, <1>12

(* A new reader of the bytes in several buffers.                           *)
LEMMA ListReaderAt ==
  ASSUME NEW b, NEW size \in Nat, Spread(b, size), NEW to \in Nat,
         to = 0 \/ to < size
  PROVE  LET r == NewBufferListReader(b, to)
         IN /\ At(r, size, to)
            /\ IsList(r)
            /\ r.buffers = b
<1> DEFINE x == [NewReader EXCEPT !.buffers = b, !.length = size]
           r == NewBufferListReader(b, to)
<1>1. r = Seek(x, to)  BY SizesAddUp DEF NewBufferListReader
<1>2. /\ Len(b) \in Nat \ {0} /\ 1 \in 1 .. Len(b)
      /\ \A k \in 1 .. Len(b) : b[k].lo \in Nat /\ b[k].hi \in Nat /\ b[k].lo <= b[k].hi
  BY SpreadBuffers
<1>3. b \in Seq(Buffer) /\ b[1].lo = 0  BY DEF Spread
<1> DEFINE nothing == <<>>
<1>14. nothing \in Seq(Context)  OBVIOUS
<1>4. x = [buffers |-> b, length |-> size, offset |-> 0, curBufferIndex |-> 1,
           curBufferOffset |-> 0, timestamp |-> 0, contexts |-> nothing]
  <2>1. NewReader = [buffers |-> nothing, length |-> 0, offset |-> 0,
                     curBufferIndex |-> 1, curBufferOffset |-> 0, timestamp |-> 0,
                     contexts |-> nothing]
    BY DEF NewReader
  <2> HIDE DEF nothing
  <2>2. ASSUME NEW y, y = [buffers |-> nothing, length |-> 0, offset |-> 0,
                           curBufferIndex |-> 1, curBufferOffset |-> 0,
                           timestamp |-> 0, contexts |-> nothing]
        PROVE  [y EXCEPT !.buffers = b, !.length = size]
                 = [buffers |-> b, length |-> size, offset |-> 0, curBufferIndex |-> 1,
                    curBufferOffset |-> 0, timestamp |-> 0, contexts |-> nothing]
    <3> DEFINE z == [y EXCEPT !.buffers = b]
    <3>1. z = [buffers |-> b, length |-> 0, offset |-> 0, curBufferIndex |-> 1,
               curBufferOffset |-> 0, timestamp |-> 0, contexts |-> nothing]
      BY ONLY <2>2
    <3>2. [y EXCEPT !.buffers = b, !.length = size] = [z EXCEPT !.length = size]
      OBVIOUS
    <3> HIDE DEF z
    <3>3. [z EXCEPT !.length = size]
            = [buffers |-> b, length |-> size, offset |-> 0, curBufferIndex |-> 1,
               curBufferOffset |-> 0, timestamp |-> 0, contexts |-> nothing]
      BY ONLY <3>1
    <3> QED  BY <3>2, <3>3
  <2> QED  BY <2>1, <2>2
<1> HIDE DEF x, r, nothing
<1>5. x \in Reader  BY <1>3, <1>4, <1>14 DEF Reader
<1>6. Stands(b, 1, 0, 0, size)
  <2>1. 0 <= Size(b[1]) /\ b[1].lo + 0 = 0  BY <1>2, <1>3 DEF Size
  <2> QED  BY <1>2, <2>1 DEF Stands
<1>7. ListAt(x, size, 0)  BY <1>4, <1>5, <1>6 DEF ListAt
<1>8. IsList(x)  BY <1>5 DEF IsList, Reader
<1>9. At(x, size, 0)  BY <1>7, <1>8 DEF At
<1>10. r = SeekTo(x, to)  BY <1>1, <1>8 DEF SeekTo
<1>11. x.buffers = b /\ x.offset = 0  BY <1>4
<1>12. CASE to = 0
  <2>1. r = x  BY <1>1, <1>11, <1>12 DEF Seek, SeekThrows
  <2> QED  BY <1>8, <1>9, <1>11, <1>12, <2>1 DEF r
<1>13. CASE to < size
  <2>1. /\ At(r, size, IF to < size THEN to ELSE 0)
        /\ IsList(r) <=> IsList(x)
        /\ IsList(x) => r.buffers = x.buffers
    BY <1>9, <1>10, <1>13, SeekAt
  <2> QED  BY <1>8, <1>11, <1>13, <2>1 DEF r
<1> QED  BY <1>12, <1>13
=============================================================================
