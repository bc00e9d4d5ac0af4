-------------------------- MODULE PacketCore_proofs --------------------------
(***************************************************************************)
(* A program that writes any number of values and reads them again gets    *)
(* what it wrote, wherever its bytes are cut: what was written is always   *)
(* the packets one behind the other, and the reader in front of the next.  *)
(***************************************************************************)
EXTENDS PacketCore, PacketCodec_proofs

(***************************************************************************)
(* The values one after another                                            *)
(***************************************************************************)

(* The list that values are written into, one after another.               *)
ListOf(s) == FoldLeft(WriteValue, NewBufferListWriter, s)


(* A value is written behind those before it.                              *)
LEMMA ListSteps ==
  ASSUME NEW s, NEW N \in Nat, DOMAIN s = 1 .. N
  PROVE  \E f : /\ f[0] = NewBufferListWriter
                /\ \A k \in 1 .. N : f[k] = WriteValue(f[k - 1], s[k])
                /\ ListOf(s) = f[N]
<1> DEFINE base == NewBufferListWriter
<1>2. \E g : Fills(g, base, Contents, s, N)
  <2> DEFINE S == {n \in 0 .. N : \E g : Fills(g, base, Contents, s, n)}
  <2>1. 0 \in S
    <3> DEFINE none == [t \in SUBSET (1 .. 0) |-> base]
    <3>1. \A t \in SUBSET (1 .. 0) : t = {}  OBVIOUS
    <3>2. Fills(none, base, Contents, s, 0)  BY <3>1 DEF Fills
    <3> QED  BY <3>2
  <2>2. ASSUME NEW n \in 0 .. N - 1, n \in S PROVE n + 1 \in S
    <3>1. PICK g : Fills(g, base, Contents, s, n)  BY <2>2
    <3>2. n \in Nat  OBVIOUS
    <3> HIDE DEF base
    <3>3. \E h : Fills(h, base, Contents, s, n + 1)  BY <3>1, <3>2, FillsOneMore
    <3> QED  BY <3>3
  <2> HIDE DEF S
  <2>3. 0 .. N \subseteq S  BY <2>1, <2>2, IntervalInduction
  <2> QED  BY <2>3 DEF S
<1> DEFINE g == CHOOSE g : g = [t \in SUBSET DOMAIN s |->
                                  IF t = {} THEN base
                                  ELSE WriteValue(g[t \ {Max(t)}], s[Max(t)])]
<1>3. ListOf(s) = g[DOMAIN s]
  BY DEF ListOf, FoldLeft, MapThenFoldSet
<1>4. Fills(g, base, Contents, s, N)
  BY <1>2 DEF Fills, WriteValue
<1> HIDE DEF g
<1>5. \A t \in SUBSET (1 .. N) :
        g[t] = IF t = {} THEN base ELSE WriteValue(g[t \ {Max(t)}], s[Max(t)])
  BY <1>4 DEF Fills, WriteValue
<1> DEFINE f == [k \in 0 .. N |-> g[1 .. k]]
<1>6. f[0] = base
  <2>1. 1 .. 0 = {} /\ 0 \in 0 .. N  OBVIOUS
  <2> QED  BY <1>5, <2>1
<1>7. ASSUME NEW k \in 1 .. N
      PROVE  f[k] = WriteValue(f[k - 1], s[k])
  <2>1. Max(1 .. k) = k /\ (1 .. k) \ {Max(1 .. k)} = 1 .. k - 1
    BY MaxOfInterval
  <2>2. 1 .. k \in SUBSET (1 .. N) /\ k \in 1 .. k  OBVIOUS
  <2>3. g[1 .. k] = WriteValue(g[(1 .. k) \ {Max(1 .. k)}], s[Max(1 .. k)])
    BY <1>5, <2>2
  <2>4. g[1 .. k] = WriteValue(g[1 .. k - 1], s[k])  BY <2>1, <2>3
  <2>5. k \in 0 .. N /\ k - 1 \in 0 .. N  OBVIOUS
  <2> QED  BY <2>4, <2>5
<1>8. ListOf(s) = f[N]  BY <1>3
<1> HIDE DEF f
<1> QED  BY <1>6, <1>7, <1>8

(* Nothing is written of no value, and a value more behind the others.     *)
LEMMA ListOfOneMore ==
  ASSUME NEW T, NEW s \in Seq(T), NEW v \in T
  PROVE  ListOf(Append(s, v)) = WriteValue(ListOf(s), v)
<1> DEFINE t == Append(s, v)
           N == Len(s)
<1>1. /\ N \in Nat /\ DOMAIN s = 1 .. N /\ DOMAIN t = 1 .. N + 1 /\ N + 1 \in Nat
      /\ t[N + 1] = v /\ \A k \in 1 .. N : t[k] = s[k]
  OBVIOUS
<1> HIDE DEF t, N
<1>2. PICK f : /\ f[0] = NewBufferListWriter
               /\ \A k \in 1 .. N : f[k] = WriteValue(f[k - 1], s[k])
               /\ ListOf(s) = f[N]
  BY <1>1, ListSteps
<1>3. PICK h : /\ h[0] = NewBufferListWriter
               /\ \A k \in 1 .. N + 1 : h[k] = WriteValue(h[k - 1], t[k])
               /\ ListOf(t) = h[N + 1]
  BY <1>1, ListSteps
<1> DEFINE S == {k \in 0 .. N : f[k] = h[k]}
<1>4. 0 \in S  BY <1>1, <1>2, <1>3
<1>5. ASSUME NEW k \in 0 .. N - 1, k \in S PROVE k + 1 \in S
  <2>1. k + 1 \in 1 .. N /\ k + 1 \in 1 .. N + 1 /\ (k + 1) - 1 = k /\ k + 1 \in 0 .. N
    BY <1>1
  <2>2. f[k + 1] = WriteValue(f[k], s[k + 1])  BY <1>2, <2>1
  <2>3. h[k + 1] = WriteValue(h[k], t[k + 1])  BY <1>3, <2>1
  <2> QED  BY <1>1, <1>5, <2>1, <2>2, <2>3
<1> HIDE DEF S
<1>6. 0 .. N \subseteq S  BY <1>1, <1>4, <1>5, IntervalInduction
<1>7. f[N] = h[N]  BY <1>1, <1>6 DEF S
<1>8. h[N + 1] = WriteValue(h[N], v)
  <2>1. N + 1 \in 1 .. N + 1 /\ (N + 1) - 1 = N  BY <1>1
  <2> QED  BY <1>1, <1>3, <2>1
<1> QED  BY <1>2, <1>3, <1>7, <1>8 DEF t

(* Nothing is written of no value.                                         *)
LEMMA ListOfNone == ListOf(<<>>) = NewBufferListWriter
<1>1. PICK f : f[0] = NewBufferListWriter /\ ListOf(<<>>) = f[0]
  <2>1. DOMAIN <<>> = 1 .. 0 /\ 0 \in Nat  OBVIOUS
  <2> DEFINE s == <<>>
             N == 0
  <2>2. N \in Nat /\ DOMAIN s = 1 .. N  BY <2>1
  <2> HIDE DEF s, N
  <2>3. PICK f : /\ f[0] = NewBufferListWriter
                 /\ \A k \in 1 .. N : f[k] = WriteValue(f[k - 1], s[k])
                 /\ ListOf(s) = f[N]
    BY <2>2, ListSteps
  <2> QED  BY <2>3 DEF s, N
<1> QED  BY <1>1

(* The packets among them, of each set of places.                          *)

Chooses(g, s, n) ==
  g = [t \in SUBSET (1 .. n) |->
         IF t = {} THEN <<>> ELSE WithPacket(g[t \ {Max(t)}], s[Max(t)])]

(* If they are known of the first places, so they are of one more.         *)
LEMMA ChoosesOneMore ==
  ASSUME NEW s, NEW n \in Nat, NEW g, Chooses(g, s, n)
  PROVE  \E h : Chooses(h, s, n + 1)
<1> DEFINE Turn(w, k) == WithPacket(w, s[k])
<1> HIDE DEF Turn
<1> DEFINE h == [t \in SUBSET (1 .. n + 1) |->
                   IF n + 1 \in t THEN Turn(g[t \ {n + 1}], n + 1) ELSE g[t]]
           Value_(t) == IF t = {} THEN <<>> ELSE Turn(h[t \ {Max(t)}], Max(t))
<1>1. \A t \in SUBSET (1 .. n) :
        g[t] = IF t = {} THEN <<>> ELSE Turn(g[t \ {Max(t)}], Max(t))
  BY DEF Chooses, Turn
<1>2. \A t \in SUBSET (1 .. n) : h[t] = g[t]
  <2>1. \A t \in SUBSET (1 .. n) : t \in SUBSET (1 .. n + 1) /\ n + 1 \notin t  OBVIOUS
  <2> QED  BY <2>1
<1>3. ASSUME NEW t \in SUBSET (1 .. n + 1) PROVE h[t] = Value_(t)
  <2>1. CASE n + 1 \in t
    <3>1. Max(t) \in t /\ \A y \in t : y <= Max(t)
      <4>1. n + 1 \in Nat /\ t # {}  BY <2>1
      <4> QED  BY <4>1, MaxIsGreatest
    <3>2. Max(t) = n + 1
      <4>1. Max(t) \in 1 .. n + 1 /\ n + 1 <= Max(t)  BY <2>1, <3>1
      <4> QED  BY <4>1
    <3>3. t \ {n + 1} \in SUBSET (1 .. n)  OBVIOUS
    <3>4. h[t] = Turn(g[t \ {n + 1}], n + 1)  BY <2>1
    <3>5. h[t \ {n + 1}] = g[t \ {n + 1}]  BY <1>2, <3>3
    <3>6. t # {}  BY <2>1
    <3> HIDE DEF h
    <3> QED  BY <3>2, <3>4, <3>5, <3>6
  <2>2. CASE n + 1 \notin t
    <3>1. t \in SUBSET (1 .. n)  BY <2>2
    <3>2. h[t] = g[t]  BY <1>2, <3>1
    <3>3. CASE t = {}  BY <1>1, <3>1, <3>2, <3>3
    <3>4. CASE t # {}
      <4>1. t \ {Max(t)} \in SUBSET (1 .. n)  BY <3>1
      <4>2. h[t \ {Max(t)}] = g[t \ {Max(t)}]  BY <1>2, <4>1
      <4> HIDE DEF h
      <4> QED  BY <1>1, <3>1, <3>2, <3>4, <4>2
    <3> QED  BY <3>3, <3>4
  <2> QED  BY <2>1, <2>2
<1>4. h = [t \in SUBSET (1 .. n + 1) |-> h[t]]  OBVIOUS
<1> HIDE DEF h
<1>5. h = [t \in SUBSET (1 .. n + 1) |-> Value_(t)]  BY <1>3, <1>4
<1>6. Chooses(h, s, n + 1)  BY <1>5 DEF Chooses, Turn
<1> QED  BY <1>6

(* One value after another.                                                *)
LEMMA PacketSteps ==
  ASSUME NEW s, NEW N \in Nat, DOMAIN s = 1 .. N
  PROVE  \E f : /\ f[0] = <<>>
                /\ \A k \in 1 .. N : f[k] = WithPacket(f[k - 1], s[k])
                /\ PacketsOf(s) = f[N]
<1>2. \E g : Chooses(g, s, N)
  <2> DEFINE S == {n \in 0 .. N : \E g : Chooses(g, s, n)}
  <2>1. 0 \in S
    <3> DEFINE none == [t \in SUBSET (1 .. 0) |-> <<>>]
    <3>1. \A t \in SUBSET (1 .. 0) : t = {}  OBVIOUS
    <3>2. Chooses(none, s, 0)  BY <3>1 DEF Chooses
    <3> QED  BY <3>2
  <2>2. ASSUME NEW n \in 0 .. N - 1, n \in S PROVE n + 1 \in S
    <3>1. PICK g : Chooses(g, s, n)  BY <2>2
    <3>2. n \in Nat  OBVIOUS
    <3>3. \E h : Chooses(h, s, n + 1)  BY <3>1, <3>2, ChoosesOneMore
    <3> QED  BY <3>3
  <2> HIDE DEF S
  <2>3. 0 .. N \subseteq S  BY <2>1, <2>2, IntervalInduction
  <2> QED  BY <2>3 DEF S
<1> DEFINE g == CHOOSE g : g = [t \in SUBSET DOMAIN s |->
                                  IF t = {} THEN <<>>
                                  ELSE WithPacket(g[t \ {Max(t)}], s[Max(t)])]
<1>3. PacketsOf(s) = g[DOMAIN s]
  BY DEF PacketsOf, FoldLeft, MapThenFoldSet
<1>4. Chooses(g, s, N)
  BY <1>2 DEF Chooses
<1> HIDE DEF g
<1>5. \A t \in SUBSET (1 .. N) :
        g[t] = IF t = {} THEN <<>> ELSE WithPacket(g[t \ {Max(t)}], s[Max(t)])
  BY <1>4 DEF Chooses
<1> DEFINE f == [k \in 0 .. N |-> g[1 .. k]]
<1>6. f[0] = <<>>
  <2>1. 1 .. 0 = {} /\ 0 \in 0 .. N  OBVIOUS
  <2> QED  BY <1>5, <2>1
<1>7. ASSUME NEW k \in 1 .. N
      PROVE  f[k] = WithPacket(f[k - 1], s[k])
  <2>1. Max(1 .. k) = k /\ (1 .. k) \ {Max(1 .. k)} = 1 .. k - 1
    BY MaxOfInterval
  <2>2. 1 .. k \in SUBSET (1 .. N) /\ k \in 1 .. k  OBVIOUS
  <2>3. g[1 .. k] = WithPacket(g[(1 .. k) \ {Max(1 .. k)}], s[Max(1 .. k)])
    BY <1>5, <2>2
  <2>4. g[1 .. k] = WithPacket(g[1 .. k - 1], s[k])  BY <2>1, <2>3
  <2>5. k \in 0 .. N /\ k - 1 \in 0 .. N  OBVIOUS
  <2> QED  BY <2>4, <2>5
<1>8. PacketsOf(s) = f[N]  BY <1>3
<1> HIDE DEF f
<1> QED  BY <1>6, <1>7, <1>8

(* One more among them.                                                    *)
LEMMA PacketsOfOneMore ==
  ASSUME NEW T, NEW s \in Seq(T), NEW v \in T
  PROVE  PacketsOf(Append(s, v)) = WithPacket(PacketsOf(s), v)
<1> DEFINE t == Append(s, v)
           N == Len(s)
<1>1. /\ N \in Nat /\ DOMAIN s = 1 .. N /\ DOMAIN t = 1 .. N + 1 /\ N + 1 \in Nat
      /\ t[N + 1] = v /\ \A k \in 1 .. N : t[k] = s[k]
  OBVIOUS
<1> HIDE DEF t, N
<1>2. PICK f : /\ f[0] = <<>>
               /\ \A k \in 1 .. N : f[k] = WithPacket(f[k - 1], s[k])
               /\ PacketsOf(s) = f[N]
  BY <1>1, PacketSteps
<1>3. PICK h : /\ h[0] = <<>>
               /\ \A k \in 1 .. N + 1 : h[k] = WithPacket(h[k - 1], t[k])
               /\ PacketsOf(t) = h[N + 1]
  BY <1>1, PacketSteps
<1> DEFINE S == {k \in 0 .. N : f[k] = h[k]}
<1>4. 0 \in S  BY <1>1, <1>2, <1>3
<1>5. ASSUME NEW k \in 0 .. N - 1, k \in S PROVE k + 1 \in S
  <2>1. k + 1 \in 1 .. N /\ k + 1 \in 1 .. N + 1 /\ (k + 1) - 1 = k /\ k + 1 \in 0 .. N
    BY <1>1
  <2>2. f[k + 1] = WithPacket(f[k], s[k + 1])  BY <1>2, <2>1
  <2>3. h[k + 1] = WithPacket(h[k], t[k + 1])  BY <1>3, <2>1
  <2> QED  BY <1>1, <1>5, <2>1, <2>2, <2>3
<1> HIDE DEF S
<1>6. 0 .. N \subseteq S  BY <1>1, <1>4, <1>5, IntervalInduction
<1>7. f[N] = h[N]  BY <1>1, <1>6 DEF S
<1>8. h[N + 1] = WithPacket(h[N], v)
  <2>1. N + 1 \in 1 .. N + 1 /\ (N + 1) - 1 = N  BY <1>1
  <2> QED  BY <1>1, <1>3, <2>1
<1> QED  BY <1>2, <1>3, <1>7, <1>8 DEF t

(* None among none.                                                        *)
LEMMA PacketsOfNone == PacketsOf(<<>>) = <<>>
<1>1. DOMAIN <<>> = 1 .. 0 /\ 0 \in Nat  OBVIOUS
<1> DEFINE s == <<>>
           N == 0
<1>2. N \in Nat /\ DOMAIN s = 1 .. N  BY <1>1
<1> HIDE DEF s, N
<1>3. PICK f : /\ f[0] = <<>>
               /\ \A k \in 1 .. N : f[k] = WithPacket(f[k - 1], s[k])
               /\ PacketsOf(s) = f[N]
  BY <1>2, PacketSteps
<1> QED  BY <1>3 DEF s, N

(* One value more is the longer of the first ones.                         *)
LEMMA OneMoreOfFirst ==
  ASSUME NEW T, NEW s \in Seq(T), NEW k \in 0 .. Len(s) - 1
  PROVE  /\ SubSeq(s, 1, k) \in Seq(T)
         /\ s[k + 1] \in T
         /\ SubSeq(s, 1, k + 1) = Append(SubSeq(s, 1, k), s[k + 1])
<1> DEFINE t == SubSeq(s, 1, k)
           x == SubSeq(s, 1, k + 1)
           y == Append(t, s[k + 1])
<1>1. Len(s) \in Nat /\ k \in Nat /\ k + 1 \in 1 .. Len(s) /\ s[k + 1] \in T  OBVIOUS
<1>2. t \in Seq(T) /\ x \in Seq(T) /\ Len(t) = k /\ Len(x) = k + 1  BY <1>1
<1>3. \A j \in 1 .. k + 1 : x[j] = s[j]  BY <1>1
<1>4. \A j \in 1 .. k : t[j] = s[j]  BY <1>1
<1> HIDE DEF t, x
<1>5. y \in Seq(T) /\ Len(y) = k + 1  BY <1>1, <1>2
<1>6. \A j \in 1 .. k + 1 : y[j] = s[j]  BY <1>1, <1>2, <1>4
<1> HIDE DEF y
<1>7. x = y  BY <1>1, <1>2, <1>3, <1>5, <1>6
<1> QED  BY <1>1, <1>2, <1>7 DEF t, x, y

(* The list of the first values.                                           *)
First(s, k) == ListOf(SubSeq(s, 1, k))

(* The value behind the first k is written behind them.                    *)
LEMMA FirstAndOne ==
  ASSUME NEW s \in Seq(AllValues), NEW k \in 0 .. Len(s) - 1
  PROVE  /\ s[k + 1] \in AllValues
         /\ First(s, k + 1) = WriteWith(First(s, k), s[k + 1], Contents[s[k + 1]])
<1>1. /\ SubSeq(s, 1, k) \in Seq(AllValues)
      /\ s[k + 1] \in AllValues
      /\ SubSeq(s, 1, k + 1) = Append(SubSeq(s, 1, k), s[k + 1])
  BY OneMoreOfFirst
<1> QED  BY <1>1, ListOfOneMore DEF First, WriteValue

(* The first of them are none at first and all at last.                    *)
LEMMA FirstOfThem ==
  ASSUME NEW s \in Seq(AllValues)
  PROVE  First(s, 0) = NewBufferListWriter /\ First(s, Len(s)) = ListOf(s)
<1>1. SubSeq(s, 1, 0) = <<>> /\ SubSeq(s, 1, Len(s)) = s  OBVIOUS
<1> QED  BY <1>1, ListOfNone DEF First

(* The bytes are counted, what is in them readable and the buffers as the  *)
(* readers need them.                                                      *)
Stored(w) == Counted(w) /\ WellFramed(FieldsIn(w)) /\ Orderly(w.buffers)

(* An empty list is.                                                       *)
LEMMA NoneStored == Stored(NewBufferListWriter) /\ FieldsIn(NewBufferListWriter) = <<>>
<1> DEFINE w == NewBufferListWriter
<1>1. Counted(w) /\ w.buffers = <<>>  BY NewListCounts
<1> HIDE DEF w
<1>2. FieldsIn(w) = <<>>  BY <1>1, FlattenNothing DEF FieldsIn
<1>3. Orderly(<<>>)
  <2>1. Len(Places(<<>>)) = 0  BY DEF Places
  <2>2. FlattenSeq(<<>>) = <<>>  BY FlattenNothing
  <2>3. <<>> \in Seq(Seq(Fields))  OBVIOUS
  <2>4. Len(<<>>) = 0  OBVIOUS
  <2> QED  BY <2>1, <2>2, <2>3, <2>4 DEF Orderly, Tidy, Uncut, FootersBehindEmpty, ContentsBegin
<1>4. WellFramed(<<>>)  BY DEF WellFramed
<1> QED  BY <1>1, <1>2, <1>3, <1>4 DEF Stored, w

(* So is the list of the first values, however many.                       *)
LEMMA FirstStored ==
  ASSUME NEW s \in Seq(AllValues)
  PROVE  \A k \in 0 .. Len(s) : Stored(First(s, k))
<1> DEFINE N == Len(s)
           S == {k \in 0 .. N : Stored(First(s, k))}
<1>1. N \in Nat  OBVIOUS
<1>2. 0 \in S  BY <1>1, FirstOfThem, NoneStored
<1>3. ASSUME NEW k \in 0 .. N - 1, k \in S PROVE k + 1 \in S
  <2> DEFINE w == First(s, k)
             v == s[k + 1]
             c == Contents[s[k + 1]]
  <2>1. v \in AllValues /\ First(s, k + 1) = WriteWith(w, v, c)  BY FirstAndOne
  <2>2. Counted(w) /\ WellFramed(FieldsIn(w)) /\ Orderly(w.buffers)  BY <1>3 DEF Stored
  <2>3. Counted(c) /\ ReadableContent(c) /\ Orderly(c.buffers)
    BY <2>1, ContentsAreCounted, ContentsReadable, OrderlyContents
  <2> HIDE DEF w, v, c
  <2>4. Counted(WriteWith(w, v, c)) /\ WellFramed(FieldsIn(WriteWith(w, v, c)))
    BY <2>1, <2>2, <2>3, FramedWrite
  <2>5. Orderly(WriteWith(w, v, c).buffers)  BY <2>1, <2>2, <2>3, OrderlyWrite
  <2> QED  BY <1>1, <2>1, <2>4, <2>5 DEF Stored
<1> HIDE DEF S
<1>4. 0 .. N \subseteq S  BY <1>1, <1>2, <1>3, IntervalInduction
<1> QED  BY <1>4 DEF S

(* What is written of the values is what is written of those of them that  *)
(* are given a packet.                                                     *)
WithPackets == {v \in AllValues : PacketType(v) # NoPacket}

(* p are the packets among the values s.                                   *)
AreAmong(p, s) ==
  /\ p \in Seq(WithPackets)
  /\ Len(p) <= Len(s)
  /\ \A i \in 1 .. Len(p) : \E j \in 1 .. Len(s) : p[i] = s[j]
  /\ ListOf(p) = ListOf(s)

(* With one value more as well.                                            *)
LEMMA OneMoreAmong ==
  ASSUME NEW s \in Seq(AllValues), NEW v \in AllValues, AreAmong(PacketsOf(s), s)
  PROVE  AreAmong(PacketsOf(Append(s, v)), Append(s, v))
<1> DEFINE p == PacketsOf(s)
           t == Append(s, v)
<1>1. p \in Seq(WithPackets) /\ Len(p) <= Len(s) /\ ListOf(p) = ListOf(s)
  BY DEF AreAmong
<1>2. \A i \in 1 .. Len(p) : \E j \in 1 .. Len(s) : p[i] = s[j]  BY DEF AreAmong
<1>3. PacketsOf(t) = WithPacket(p, v) /\ ListOf(t) = WriteValue(ListOf(s), v)
  BY PacketsOfOneMore, ListOfOneMore
<1>4. /\ t \in Seq(AllValues) /\ Len(t) = Len(s) + 1 /\ Len(s) \in Nat /\ Len(p) \in Nat
      /\ t[Len(s) + 1] = v /\ \A j \in 1 .. Len(s) : t[j] = s[j]
  BY <1>1
<1> HIDE DEF p, t
<1>5. CASE PacketType(v) = NoPacket
  <2>1. PacketsOf(t) = p  BY <1>3, <1>5 DEF WithPacket
  <2>2. ListOf(t) = ListOf(s)  BY <1>3, <1>5 DEF WriteValue, WriteWith, NoPacket, BufferTypes
  <2>3. \A i \in 1 .. Len(p) : \E j \in 1 .. Len(t) : p[i] = t[j]
    BY <1>2, <1>4
  <2>4. Len(p) <= Len(t)  BY <1>1, <1>4
  <2>5. AreAmong(p, t)  BY <1>1, <2>2, <2>3, <2>4 DEF AreAmong
  <2> QED  BY <2>1, <2>5 DEF t
<1>6. CASE PacketType(v) # NoPacket
  <2> DEFINE q == Append(p, v)
  <2>1. PacketsOf(t) = q  BY <1>3, <1>6 DEF WithPacket
  <2>2. v \in WithPackets  BY <1>6 DEF WithPackets
  <2>3. /\ q \in Seq(WithPackets) /\ Len(q) = Len(p) + 1
        /\ q[Len(p) + 1] = v /\ \A j \in 1 .. Len(p) : q[j] = p[j]
    BY <1>1, <2>2
  <2>4. ListOf(q) = WriteValue(ListOf(p), v)  BY <1>1, <2>2, ListOfOneMore
  <2> HIDE DEF q
  <2>5. ASSUME NEW i \in 1 .. Len(q) PROVE \E j \in 1 .. Len(t) : q[i] = t[j]
    <3>1. CASE i \in 1 .. Len(p)
      <4>1. PICK j \in 1 .. Len(s) : p[i] = s[j]  BY <1>2, <3>1
      <4>2. j \in 1 .. Len(t) /\ t[j] = s[j]  BY <1>4
      <4> QED  BY <2>3, <3>1, <4>1, <4>2
    <3>2. CASE i = Len(p) + 1
      <4>1. Len(s) + 1 \in 1 .. Len(t)  BY <1>4
      <4> QED  BY <1>4, <2>3, <3>2, <4>1
    <3> QED  BY <1>4, <2>3, <3>1, <3>2
  <2>6. Len(q) <= Len(t)  BY <1>1, <1>4, <2>3
  <2> QED  BY <1>1, <1>3, <2>1, <2>3, <2>4, <2>5, <2>6 DEF AreAmong, t
<1> QED  BY <1>5, <1>6

(* The packets of the values are.                                          *)
LEMMA PacketsAmong ==
  ASSUME NEW s \in Seq(AllValues)
  PROVE  AreAmong(PacketsOf(s), s)
<1> DEFINE N == Len(s)
           S == {k \in 0 .. N : AreAmong(PacketsOf(SubSeq(s, 1, k)), SubSeq(s, 1, k))}
<1>1. N \in Nat  OBVIOUS
<1>2. 0 \in S
  <2>1. SubSeq(s, 1, 0) = <<>>  OBVIOUS
  <2>2. <<>> \in Seq(WithPackets) /\ Len(<<>>) = 0  OBVIOUS
  <2>3. AreAmong(<<>>, <<>>)  BY <2>2 DEF AreAmong
  <2>4. AreAmong(PacketsOf(SubSeq(s, 1, 0)), SubSeq(s, 1, 0))
    BY ONLY <2>1, <2>3, PacketsOfNone
  <2> QED  BY <1>1, <2>4
<1>3. ASSUME NEW k \in 0 .. N - 1, k \in S PROVE k + 1 \in S
  <2> DEFINE t == SubSeq(s, 1, k)
             v == s[k + 1]
  <2>1. t \in Seq(AllValues) /\ v \in AllValues /\ SubSeq(s, 1, k + 1) = Append(t, v)
    BY OneMoreOfFirst
  <2>2. AreAmong(PacketsOf(t), t)  BY <1>3
  <2> HIDE DEF t, v
  <2>3. AreAmong(PacketsOf(Append(t, v)), Append(t, v))  BY <2>1, <2>2, OneMoreAmong
  <2>4. k + 1 \in 0 .. N  BY <1>1
  <2> QED  BY <2>1, <2>3, <2>4
<1> HIDE DEF S
<1>4. 0 .. N \subseteq S  BY <1>1, <1>2, <1>3, IntervalInduction
<1>5. AreAmong(PacketsOf(SubSeq(s, 1, N)), SubSeq(s, 1, N))  BY <1>1, <1>4 DEF S
<1>6. SubSeq(s, 1, N) = s  OBVIOUS
<1> QED  BY <1>5, <1>6

(* The fields of what is written of the first k values.                    *)
FirstFields(s, k) == FieldsIn(First(s, k))

(* One packet more.                                                        *)
LEMMA FieldsOfOneMore ==
  ASSUME NEW p \in Seq(WithPackets), NEW k \in 0 .. Len(p) - 1
  PROVE  LET u == p[k + 1]
             g == PacketFields(u, Contents[u])
             e == BytelengthWith(Contents[u].length, u)
         IN /\ u \in AllValues /\ PacketType(u) # NoPacket /\ Counted(Contents[u])
            /\ FirstFields(p, k) \in Seq(Fields)
            /\ g \in Seq(Fields) /\ g # <<>> /\ Solid(g)
            /\ FirstFields(p, k + 1) = FirstFields(p, k) \o g
            /\ e \in Nat /\ e > 0
            /\ Total(FirstFields(p, k)) \in Nat
            /\ Total(FirstFields(p, k + 1)) = Total(FirstFields(p, k)) + e
<1> DEFINE u == p[k + 1]
           c == Contents[u]
           w == First(p, k)
           g == PacketFields(u, c)
           e == BytelengthWith(c.length, u)
<1>1. p \in Seq(AllValues) /\ u \in AllValues /\ PacketType(u) # NoPacket
  <2>1. \A x \in WithPackets : x \in AllValues /\ PacketType(x) # NoPacket
    BY DEF WithPackets
  <2>2. Len(p) \in Nat /\ \A j \in 1 .. Len(p) : p[j] \in WithPackets  OBVIOUS
  <2>3. k + 1 \in 1 .. Len(p)  BY <2>2
  <2>4. u \in WithPackets  BY <2>2, <2>3
  <2> QED  BY <2>1, <2>4
<1>2. Counted(c)  BY <1>1, ContentsAreCounted
<1>3. Counted(w)
  <2>1. k \in 0 .. Len(p)  OBVIOUS
  <2> QED  BY <1>1, <2>1, FirstStored DEF Stored
<1>4. First(p, k + 1) = WriteWith(w, u, c)  BY <1>1, FirstAndOne
<1> HIDE DEF u, c, w
<1>5. FieldsIn(w) \in Seq(Fields) /\ FieldsIn(WriteWith(w, u, c)) = FieldsIn(w) \o g
  BY <1>1, <1>2, <1>3, WritesFields
<1>6. g \in Seq(Fields) /\ Total(g) = e  BY <1>1, <1>2, PacketFieldsSize
<1>7. g # <<>> /\ Solid(g)  BY <1>1, <1>2, SolidPacket
<1>8. Total(FieldsIn(w) \o g) = Total(FieldsIn(w)) + Total(g) /\ Total(FieldsIn(w)) \in Nat
  BY <1>5, <1>6, TotalTogether
<1>9. e \in Nat /\ e > 0
  <2>1. g = (<<>> \o g) \o <<>> /\ <<>> \in Seq(Fields)
    <3> HIDE DEF g
    <3> QED  BY <1>6
  <2>2. PacketIsAt(g, <<>>, u, c, <<>>)  BY <1>1, <1>2, <2>1 DEF PacketIsAt
  <2>3. /\ ContentSizeOf(u, c) \in Nat
        /\ HeaderSizeOf(u) \in {2, 6}
        /\ FooterLength = 1
        /\ e = HeaderSizeOf(u) + ContentSizeOf(u, c) + FooterLength
    BY <1>1, <2>2, PacketBounds
  <2> HIDE DEF e
  <2> QED  BY <2>3
<1>10. FirstFields(p, k) = FieldsIn(w) /\ FirstFields(p, k + 1) = FieldsIn(w) \o g
  BY <1>4, <1>5 DEF FirstFields, w
<1> HIDE DEF g, e
<1>11. /\ FirstFields(p, k) \in Seq(Fields)
       /\ FirstFields(p, k + 1) = FirstFields(p, k) \o g
       /\ Total(FirstFields(p, k)) \in Nat
       /\ Total(FirstFields(p, k + 1)) = Total(FirstFields(p, k)) + e
  BY <1>5, <1>6, <1>8, <1>10
<1> QED  BY <1>1, <1>2, <1>6, <1>7, <1>9, <1>11 DEF g, e, u, c

(* What is in front of the others stays there.                             *)
InFront(p, k, j) ==
  /\ \E more \in Seq(Fields) : FirstFields(p, k) = FirstFields(p, j) \o more
  /\ j < k => Total(FirstFields(p, j)) < Total(FirstFields(p, k))

FirstOf(p, k) ==
  /\ FirstFields(p, k) \in Seq(Fields) /\ Solid(FirstFields(p, k))
  /\ Total(FirstFields(p, k)) \in Nat

(* The fields of the first are in front of those of all, and are fewer.    *)
LEMMA FirstInFront ==
  ASSUME NEW p \in Seq(WithPackets)
  PROVE  /\ \A k \in 0 .. Len(p) : FirstOf(p, k)
         /\ \A k \in 0 .. Len(p) : \A j \in 0 .. k : InFront(p, k, j)
<1> DEFINE N == Len(p)
           Right(k) == FirstOf(p, k) /\ \A j \in 0 .. k : FirstOf(p, j) /\ InFront(p, k, j)
           S == {k \in 0 .. N : Right(k)}
<1>1. N \in Nat  OBVIOUS
<1>2. 0 \in S
  <2>1. p \in Seq(AllValues)
    <3>1. WithPackets \subseteq AllValues  BY DEF WithPackets
    <3> QED  BY <3>1
  <2>2. FirstFields(p, 0) = <<>>  BY <2>1, FirstOfThem, NoneStored DEF FirstFields
  <2>3. <<>> \in Seq(Fields) /\ Solid(<<>>) /\ <<>> = <<>> \o <<>>  BY DEF Solid
  <2>4. Total(<<>>) \in Nat  BY TotalTogether, <2>3
  <2>5. FirstOf(p, 0)  BY <2>2, <2>3, <2>4 DEF FirstOf
  <2>6. InFront(p, 0, 0)
    <3>1. \E more \in Seq(Fields) : FirstFields(p, 0) = FirstFields(p, 0) \o more
      BY <2>2, <2>3
    <3>2. ~(0 < 0)  OBVIOUS
    <3> QED  BY <3>1, <3>2 DEF InFront
  <2>7. \A j \in 0 .. 0 : j = 0  OBVIOUS
  <2> QED  BY <1>1, <2>5, <2>6, <2>7
<1>3. ASSUME NEW k \in 0 .. N - 1, k \in S PROVE k + 1 \in S
  <2> DEFINE u == p[k + 1]
             g == PacketFields(u, Contents[u])
             e == BytelengthWith(Contents[u].length, u)
             h == FirstFields(p, k)
             hg == FirstFields(p, k + 1)
  <2>1. /\ h \in Seq(Fields) /\ g \in Seq(Fields) /\ g # <<>> /\ Solid(g)
        /\ hg = h \o g
        /\ e \in Nat /\ e > 0
        /\ Total(h) \in Nat
        /\ Total(hg) = Total(h) + e
    BY FieldsOfOneMore
  <2>2. k \in Nat /\ k + 1 \in 0 .. N  BY <1>1
  <2>3. \A j \in 0 .. k : FirstOf(p, j) /\ InFront(p, k, j)  BY <1>3
  <2> HIDE DEF g, e, h, hg
  <2>4. Solid(hg) /\ hg \in Seq(Fields) /\ Total(hg) \in Nat
    BY <2>1, SolidBehind, FieldsAssociate
  <2>5. FirstOf(p, k + 1)  BY <2>4 DEF FirstOf, hg
  <2>6. ASSUME NEW j \in 0 .. k + 1 PROVE FirstOf(p, j) /\ InFront(p, k + 1, j)
    <3>1. CASE j = k + 1
      <4>1. hg = hg \o <<>> /\ <<>> \in Seq(Fields)  BY <2>4
      <4>2. \E more \in Seq(Fields) : hg = hg \o more  BY <4>1
      <4>3. ~(k + 1 < k + 1)  BY <2>2
      <4>4. InFront(p, k + 1, k + 1)  BY <4>2, <4>3 DEF InFront, hg
      <4> QED  BY <2>5, <3>1, <4>4
    <3>2. CASE j # k + 1
      <4>1. j \in 0 .. k /\ j \in Nat  BY <3>2
      <4> DEFINE fj == FirstFields(p, j)
      <4>2. /\ FirstOf(p, j)
            /\ \E more \in Seq(Fields) : h = fj \o more
            /\ j < k => Total(fj) < Total(h)
        BY <2>3, <4>1 DEF InFront, h
      <4>3. fj \in Seq(Fields) /\ Total(fj) \in Nat  BY <4>2 DEF FirstOf
      <4> HIDE DEF fj
      <4>4. PICK more \in Seq(Fields) : h = fj \o more  BY <4>2
      <4>5. hg = (fj \o more) \o g  BY <2>1, <4>4
      <4>6. /\ (fj \o more) \o g = fj \o (more \o g)
            /\ more \o g \in Seq(Fields)
        <5>1. more \in Seq(Fields) /\ g \in Seq(Fields) /\ fj \in Seq(Fields)
          BY <2>1, <4>3
        <5> HIDE DEF g, fj
        <5> QED  BY ONLY <5>1, FieldsAssociate
      <4>7. Total(fj) < Total(hg)
        <5>1. CASE j < k  BY <2>1, <4>2, <4>3, <5>1
        <5>2. CASE j = k
          <6>1. Total(fj) = Total(h)  BY <5>2 DEF fj, h
          <6> QED  BY <2>1, <6>1
        <5> QED  BY <2>2, <4>1, <5>1, <5>2
      <4>8. \E rest \in Seq(Fields) : hg = fj \o rest  BY <4>5, <4>6
      <4>9. InFront(p, k + 1, j)  BY <4>7, <4>8 DEF InFront, hg, fj
      <4> QED  BY <4>2, <4>9
    <3> QED  BY <3>1, <3>2
  <2> QED  BY <2>2, <2>5, <2>6
<1> HIDE DEF S, Right
<1>4. 0 .. N \subseteq S  BY <1>1, <1>2, <1>3, IntervalInduction
<1>5. \A k \in 0 .. N : Right(k)  BY <1>4 DEF S
<1> QED  BY <1>5 DEF Right

(* Where the packet of the i-th is, and where it ends.                     *)
PlacedIn(p, i) ==
  LET f == FieldsIn(ListOf(p))
      a == FirstFields(p, i - 1)
      u == p[i]
      c == Contents[u]
      end == Total(a) + BytelengthWith(c.length, u)
  IN /\ u \in AllValues /\ PacketType(u) # NoPacket
     /\ \E b : PacketIsAt(f, a, u, c, b)
     /\ Solid(a)
     /\ Total(a) \in Nat
     /\ Total(f) \in Nat
     /\ Total(a) < Total(f)
     /\ end = Total(FirstFields(p, i))
     /\ EndAt(f, end) = IF i = Len(p) THEN Total(f) - 1 ELSE end

(* The i-th packet is where what is written of those before it ends.       *)
LEMMA PacketPlaces ==
  ASSUME NEW p \in Seq(WithPackets), NEW i \in 1 .. Len(p)
  PROVE  PlacedIn(p, i)
<1> DEFINE N == Len(p)
           k == i - 1
           f == FieldsIn(ListOf(p))
           a == FirstFields(p, k)
           h == FirstFields(p, i)
           u == p[i]
           c == Contents[u]
           g == PacketFields(u, c)
           e == BytelengthWith(c.length, u)
<1>1. N \in Nat /\ i \in Nat /\ k \in 0 .. N - 1 /\ k + 1 = i /\ k \in 0 .. N /\ i \in 0 .. N
      /\ k < N /\ N \in 0 .. N /\ k \in 0 .. N /\ i \in 0 .. N
  OBVIOUS
<1>2. p \in Seq(AllValues)
  <2>1. WithPackets \subseteq AllValues  BY DEF WithPackets
  <2> QED  BY <2>1
<1>3. f = FirstFields(p, N)  BY <1>2, FirstOfThem DEF FirstFields
<1>4. /\ u \in AllValues /\ PacketType(u) # NoPacket /\ Counted(c)
      /\ a \in Seq(Fields) /\ g \in Seq(Fields)
      /\ h = a \o g
      /\ e \in Nat /\ Total(a) \in Nat /\ Total(h) = Total(a) + e
  BY <1>1, FieldsOfOneMore
<1>5. FirstOf(p, k) /\ FirstOf(p, N) /\ InFront(p, N, k) /\ InFront(p, N, i)
  BY <1>1, FirstInFront
<1>6. Solid(a) /\ Total(f) \in Nat  BY <1>3, <1>5 DEF FirstOf
<1>7. Total(a) < Total(f)  BY <1>1, <1>3, <1>5 DEF InFront
<1>8. PICK b \in Seq(Fields) : f = h \o b  BY <1>3, <1>5 DEF InFront
<1> HIDE DEF g
<1>9. PacketIsAt(f, a, u, c, b)  BY <1>4, <1>8 DEF PacketIsAt, g
<1>10. i < N => Total(h) < Total(f)  BY <1>3, <1>5 DEF InFront
<1>11. i = N => Total(h) = Total(f)  BY <1>3
<1>12. EndAt(f, Total(h)) = IF i = N THEN Total(f) - 1 ELSE Total(h)
  <2> HIDE DEF h, f
  <2>1. CASE i = N  BY <1>6, <1>11, <2>1 DEF EndAt
  <2>2. CASE i < N  BY <1>10, <2>2 DEF EndAt
  <2> QED  BY <1>1, <2>1, <2>2
<1> HIDE DEF f, a, h, e, c, u
<1>13. EndAt(f, Total(a) + e) = IF i = N THEN Total(f) - 1 ELSE Total(a) + e
  BY <1>4, <1>12
<1> QED
  BY <1>4, <1>6, <1>7, <1>9, <1>13 DEF PlacedIn, f, a, h, e, c, u

(* The first packet is at the beginning.                                   *)
LEMMA NoneFirst ==
  ASSUME NEW p \in Seq(WithPackets)
  PROVE  Total(FirstFields(p, 0)) = 0
<1>1. p \in Seq(AllValues)
  <2>1. WithPackets \subseteq AllValues  BY DEF WithPackets
  <2> QED  BY <2>1
<1>2. FirstFields(p, 0) = <<>>  BY <1>1, FirstOfThem, NoneStored DEF FirstFields
<1> QED  BY <1>2, TotalNothing

(* Nothing is written only of no packet.                                   *)
LEMMA NothingWritten ==
  ASSUME NEW p \in Seq(WithPackets)
  PROVE  /\ p = <<>> => ListOf(p).buffers = <<>> /\ Total(FieldsIn(ListOf(p))) = 0
         /\ p # <<>> => ListOf(p).buffers # <<>> /\ Total(FieldsIn(ListOf(p))) \in Nat \ {0}
<1>0. p \in Seq(AllValues)
  <2>1. WithPackets \subseteq AllValues  BY DEF WithPackets
  <2> QED  BY <2>1
<1>1. First(p, 0) = NewBufferListWriter /\ First(p, Len(p)) = ListOf(p)
  BY <1>0, FirstOfThem
<1>2. NewBufferListWriter.buffers = <<>>  BY NewListCounts
<1>3. Total(<<>>) = 0  BY TotalNothing
<1>4. CASE p = <<>>
  <2>1. Len(p) = 0  BY <1>4
  <2>2. ListOf(p) = NewBufferListWriter  BY <1>1, <2>1
  <2> QED  BY <1>2, <1>3, <1>4, <2>2, NoneStored
<1>5. CASE p # <<>>
  <2>1. 1 \in 1 .. Len(p)  BY <1>5
  <2>2. PlacedIn(p, 1)  BY <2>1, PacketPlaces
  <2>3. Total(FieldsIn(ListOf(p))) \in Nat \ {0}  BY <2>2 DEF PlacedIn
  <2>4. ListOf(p).buffers # <<>>
    <3>1. SUFFICES ASSUME ListOf(p).buffers = <<>> PROVE FALSE  OBVIOUS
    <3>2. FieldsIn(ListOf(p)) = <<>>  BY <3>1, FlattenNothing DEF FieldsIn
    <3> QED  BY <1>3, <2>3, <3>2
  <2> QED  BY <1>5, <2>3, <2>4
<1> QED  BY <1>4, <1>5

(***************************************************************************)
(* Where the reading begins                                                *)
(***************************************************************************)

(* All that is written of some values, in their fields.                    *)
BytesOf(s) == FieldsIn(ListOf(s))

(* There are no bytes to read, and the reader has not moved.               *)
Idle(r) == r \in AnyReader /\ r.offset = 0 /\ LengthOf(r) = 0

(* The reader is in front of the bytes; what an ArrayBuffer needs of it.   *)
Fitting(r, p, f) == (\E k \in 1 .. Len(p) : HoldsArrayBuffer(p[k])) => Snug(r, f)

Begins(r, p, f) ==
  IF p = <<>> THEN Idle(r) ELSE At(r, Total(f), 0) /\ Fitting(r, p, f)

(* The bytes of the values are those of their packets.                     *)
LEMMA BytesOfPackets ==
  ASSUME NEW s \in Seq(AllValues)
  PROVE  LET p == PacketsOf(s)
             f == BytesOf(s)
         IN /\ p \in Seq(WithPackets) /\ Len(p) <= Len(s)
            /\ \A i \in 1 .. Len(p) : \E j \in 1 .. Len(s) : p[i] = s[j]
            /\ BytesOf(p) = f /\ ListOf(p) = ListOf(s)
            /\ Written(s) = ListOf(s).buffers /\ Written(p) = Written(s)
            /\ Length(Written(s)) = Total(f)
            /\ FlattenSeq(Written(s)) = f
            /\ Memory(s) = MemoryOfFields(f)
            /\ WellFramed(f) /\ Orderly(Written(s))
            /\ p = <<>> => Written(s) = <<>> /\ Total(f) = 0
            /\ p # <<>> => Written(s) # <<>> /\ Total(f) \in Nat \ {0}
<1> DEFINE p == PacketsOf(s)
           w == ListOf(s)
<1>1. /\ p \in Seq(WithPackets) /\ Len(p) <= Len(s) /\ ListOf(p) = w
      /\ \A i \in 1 .. Len(p) : \E j \in 1 .. Len(s) : p[i] = s[j]
  BY PacketsAmong DEF AreAmong
<1>2. Written(s) = w.buffers /\ Written(p) = ListOf(p).buffers  BY DEF Written, ListOf
<1>3. WellFramed(FieldsIn(w)) /\ Orderly(w.buffers)
  <2>1. Len(s) \in 0 .. Len(s)  OBVIOUS
  <2>2. Stored(First(s, Len(s)))  BY <2>1, FirstStored
  <2> QED  BY <2>2, FirstOfThem DEF Stored
<1> HIDE DEF p, w
<1>4. /\ Length(Written(s)) = Total(FieldsIn(w))
      /\ FlattenSeq(Written(s)) = FieldsIn(w)
      /\ Memory(s) = MemoryOfFields(FieldsIn(w))
  BY <1>2 DEF Length, FieldsIn, Memory
<1>5. /\ p = <<>> => w.buffers = <<>> /\ Total(FieldsIn(w)) = 0
      /\ p # <<>> => w.buffers # <<>> /\ Total(FieldsIn(w)) \in Nat \ {0}
  BY <1>1, NothingWritten
<1>6. BytesOf(s) = FieldsIn(w) /\ BytesOf(p) = FieldsIn(w)  BY <1>1 DEF BytesOf, w
<1> QED  BY <1>1, <1>2, <1>3, <1>4, <1>5, <1>6 DEF p, w

(* A list of no buffers.                                                   *)
LEMMA NoBuffers == Idle(NewBufferListReader(<<>>, 0))
<1> DEFINE none == <<>>
           len == FoldLeft(LAMBDA sum, buffer : sum + Size(buffer), 0, none)
           x == [NewReader EXCEPT !.buffers = none, !.length = len]
<1>1. len = 0
  <2>1. DOMAIN none = {}  OBVIOUS
  <2> QED  BY <2>1 DEF FoldLeft, MapThenFoldSet
<1>2. none \in Seq(Buffer) /\ none \in Seq(Context)  OBVIOUS
<1> HIDE DEF len
<1>3. x = [buffers |-> none, length |-> 0, offset |-> 0, curBufferIndex |-> 1,
           curBufferOffset |-> 0, timestamp |-> 0, contexts |-> none]
  <2> HIDE DEF none
  <2>1. NewReader = [buffers |-> none, length |-> 0, offset |-> 0, curBufferIndex |-> 1,
                     curBufferOffset |-> 0, timestamp |-> 0, contexts |-> none]
    BY DEF NewReader, none
  <2>2. ASSUME NEW y, y = [buffers |-> none, length |-> 0, offset |-> 0,
                           curBufferIndex |-> 1, curBufferOffset |-> 0,
                           timestamp |-> 0, contexts |-> none]
        PROVE  [y EXCEPT !.buffers = none, !.length = len] = y
    <3> DEFINE z == [y EXCEPT !.buffers = none]
    <3>1. z = y  BY ONLY <2>2
    <3>2. [y EXCEPT !.buffers = none, !.length = len] = [z EXCEPT !.length = len]
      OBVIOUS
    <3> HIDE DEF z
    <3>3. [z EXCEPT !.length = 0] = y  BY ONLY <2>2, <3>1
    <3> QED  BY <1>1, <3>2, <3>3
  <2> QED  BY <2>1, <2>2
<1>4. NewBufferListReader(none, 0) = Seek(x, 0)  BY DEF NewBufferListReader, len
<1> HIDE DEF none, x
<1>5. Seek(x, 0) = x  BY <1>3 DEF Seek, SeekThrows
<1>6. x \in Reader  BY <1>2, <1>3 DEF Reader
<1>7. x \in AnyReader /\ IsList(x)  BY <1>3, <1>6 DEF AnyReader, IsList
<1>8. Idle(x)  BY <1>3, <1>7 DEF Idle, LengthOf
<1> QED  BY <1>4, <1>5, <1>8 DEF none

(* One buffer with all the bytes.                                          *)
LEMMA BufferBegins ==
  ASSUME NEW s \in Seq(AllValues),
         NEW r, r = NewBufferReader([lo |-> 0, hi |-> Length(Written(s))], 0)
  PROVE  Begins(r, PacketsOf(s), BytesOf(s))
<1> DEFINE p == PacketsOf(s)
           f == BytesOf(s)
           size == Length(Written(s))
<1>1. /\ size = Total(f)
      /\ p = <<>> => Total(f) = 0
      /\ p # <<>> => Total(f) \in Nat \ {0}
  BY BytesOfPackets
<1> HIDE DEF p, f, size
<1>2. size \in Nat /\ 0 \in 0 .. size
  <2>1. size = 0 \/ size \in Nat \ {0}  BY <1>1
  <2> QED  BY <2>1
<1>3. At(r, size, 0) /\ ~IsList(r)  BY <1>2, BufferReaderAt DEF size
<1>4. r.offset = 0 /\ LengthOf(r) = size  BY <1>3, AtPlace
<1>5. r \in AnyReader  BY <1>3, AtReader
<1>6. Snug(r, f)  BY <1>3 DEF Snug
<1> QED  BY <1>1, <1>3, <1>4, <1>5, <1>6 DEF Begins, Idle, Fitting, p, f

(* The buffers as they were written.                                       *)
LEMMA ListBegins ==
  ASSUME NEW s \in Seq(AllValues), NEW r, r = NewBufferListReader(Places(Written(s)), 0)
  PROVE  Begins(r, PacketsOf(s), BytesOf(s))
<1> DEFINE p == PacketsOf(s)
           f == BytesOf(s)
           b == Written(s)
           size == Length(b)
           l == Places(b)
<1>1. /\ size = Total(f) /\ FlattenSeq(b) = f /\ Orderly(b)
      /\ p = <<>> => b = <<>>
      /\ p # <<>> => b # <<>> /\ Total(f) \in Nat \ {0}
  BY BytesOfPackets
<1> HIDE DEF p, f, b
<1>2. CASE p = <<>>
  <2>1. l = <<>>
    <3>1. b = <<>>  BY <1>1, <1>2
    <3>2. DOMAIN b = {}  BY <3>1
    <3> QED  BY <3>2 DEF Places
  <2>2. Idle(r)  BY <2>1, NoBuffers DEF b
  <2> QED  BY <1>2, <2>2 DEF Begins, p
<1>3. CASE p # <<>>
  <2>1. b \in Seq(Seq(Fields)) /\ b # <<>> /\ Tidy(l, f)  BY <1>1, <1>3 DEF Orderly
  <2>2. Spread(l, size) /\ size \in Nat /\ 0 < size  BY <1>1, <1>3, <2>1, PlacesSpread
  <2> HIDE DEF l, size
  <2>3. r = NewBufferListReader(l, 0)  BY DEF l, b
  <2>4. At(r, size, 0)  BY <2>2, <2>3, ListReaderAt
  <2>5. Snug(r, f)
    <3>1. 0 \in Nat  OBVIOUS
    <3> QED  BY <2>1, <2>2, <2>3, <3>1, NewListNeat
  <2> QED  BY <1>1, <1>3, <2>4, <2>5 DEF Begins, Fitting, p, f, size
<1> QED  BY <1>2, <1>3

(* Two pieces of the bytes.                                                *)
LEMMA TwoSpread ==
  ASSUME NEW size \in Nat, NEW cut \in Nat, 0 < cut, cut < size
  PROVE  Spread(<<[lo |-> 0, hi |-> cut], [lo |-> cut, hi |-> size]>>, size)
<1> DEFINE one == [lo |-> 0, hi |-> cut]
           two == [lo |-> cut, hi |-> size]
           b == <<one, two>>
<1>1. one \in Buffer /\ two \in Buffer /\ one.lo = 0 /\ one.hi = cut /\ two.lo = cut /\ two.hi = size
  BY DEF Buffer
<1> HIDE DEF one, two
<1>2. b \in Seq(Buffer) /\ Len(b) = 2 /\ b[1] = one /\ b[2] = two /\ b # <<>>  BY <1>1
<1> HIDE DEF b
<1>3. \A k \in 1 .. 2 : b[k].lo <= b[k].hi
  <2>1. \A k \in 1 .. 2 : k = 1 \/ k = 2  OBVIOUS
  <2>2. b[1].lo <= b[1].hi /\ b[2].lo <= b[2].hi  BY <1>1, <1>2
  <2> QED  BY <2>1, <2>2
<1>4. \A k \in 1 .. 2 - 1 : b[k].hi = b[k + 1].lo
  <2>1. \A k \in 1 .. 2 - 1 : k = 1 /\ k + 1 = 2  OBVIOUS
  <2>2. b[1].hi = b[2].lo  BY <1>1, <1>2
  <2> QED  BY <2>1, <2>2
<1>5. Spread(b, size)  BY <1>1, <1>2, <1>3, <1>4 DEF Spread, Contiguous
<1> QED  BY <1>5 DEF b, one, two

(* Two buffers, cut anywhere, if there is no ArrayBuffer.                  *)
LEMMA CutBegins ==
  ASSUME NEW s \in Seq(AllValues), \A k \in DOMAIN s : ~HoldsArrayBuffer(s[k]),
         NEW cut \in Nat \ {0}, NEW size, size = Length(Written(s)), cut < size,
         NEW r, r = NewBufferListReader(<<[lo |-> 0, hi |-> cut], [lo |-> cut, hi |-> size]>>, 0)
  PROVE  Begins(r, PacketsOf(s), BytesOf(s))
<1> DEFINE p == PacketsOf(s)
           f == BytesOf(s)
           l == <<[lo |-> 0, hi |-> cut], [lo |-> cut, hi |-> size]>>
<1>1. /\ p \in Seq(WithPackets)
      /\ \A i \in 1 .. Len(p) : \E j \in 1 .. Len(s) : p[i] = s[j]
      /\ size = Total(f)
      /\ p = <<>> => Total(f) = 0
      /\ p # <<>> => Total(f) \in Nat \ {0}
  BY BytesOfPackets
<1> HIDE DEF p, f
<1>2. p # <<>>
  <2>1. SUFFICES ASSUME p = <<>> PROVE FALSE  OBVIOUS
  <2>2. size = 0  BY <1>1, <2>1
  <2> QED  BY <2>2
<1>3. size \in Nat /\ 0 < cut  BY <1>1, <1>2
<1>4. Spread(l, size)  BY <1>3, TwoSpread
<1> HIDE DEF l
<1>5. At(r, size, 0)
  <2>1. r = NewBufferListReader(l, 0) /\ 0 \in Nat  BY DEF l
  <2> QED  BY <1>3, <1>4, <2>1, ListReaderAt
<1>6. \A k \in 1 .. Len(p) : ~HoldsArrayBuffer(p[k])
  <2>1. \A j \in 1 .. Len(s) : j \in DOMAIN s  OBVIOUS
  <2> QED  BY <1>1, <2>1
<1> QED  BY <1>1, <1>2, <1>5, <1>6 DEF Begins, Fitting, p, f

(***************************************************************************)
(* Reading where nothing more is                                           *)
(***************************************************************************)

(* The header is partial, and the reader stays.                            *)
LEMMA NothingRead ==
  ASSUME NEW r \in AnyReader, AtEOF(r, FixedHeaderSize), NEW memory
  PROVE  /\ ReadHeader(r, memory.headers) = Partial(r)
         /\ Partial(r).header = InvalidRawHeader
         /\ ReadValue(r, memory) = Gives(Undefined, r)
<1>1. ReadHeader(r, memory.headers) = Partial(r)  BY DEF ReadHeader
<1>2. Partial(r).header = InvalidRawHeader /\ Partial(r).reader = r
  <2>1. "PartialHeader" \notin ValidTypes
    BY DEF ValidTypes, DoubleTypes, IntegerTypes, EmptyTypes, DynamicTypes
  <2> QED  BY <2>1 DEF Partial, DeclareHeader, ValidTypes
<1>3. InvalidRawHeader.contentSize = -1  BY DEF InvalidRawHeader
<1> DEFINE N == MaxNesting + 1
<1>4. PICK nested :
        /\ \A d \in 1 .. N :
             nested[d] = [q \in AnyReader |->
                            ReadBehind(ReadHeader(q, memory.headers), memory, nested[d - 1])]
        /\ Reading(memory) = nested[N]
  BY ReadingLevels
<1>5. N \in 1 .. N  BY CodecAssumption
<1> DEFINE h == ReadHeader(r, memory.headers)
<1>6. Reading(memory)[r] = ReadBehind(h, memory, nested[N - 1])
  <2>1. nested[N] = [q \in AnyReader |->
                       ReadBehind(ReadHeader(q, memory.headers), memory, nested[N - 1])]
    BY <1>4, <1>5
  <2> HIDE DEF N
  <2> QED  BY <1>4, <2>1
<1>7. h.header.contentSize = -1 /\ h.reader = r  BY <1>1, <1>2, <1>3
<1> HIDE DEF h
<1>8. ~(-1 >= 0)  OBVIOUS
<1>9. ReadBehind(h, memory, nested[N - 1]) = Gives(Undefined, r)
  BY <1>7, <1>8 DEF ReadBehind
<1> QED  BY <1>1, <1>2, <1>6, <1>9 DEF ReadValue

(***************************************************************************)
(* Types                                                                   *)
(***************************************************************************)

(* A header that was read or written, or none.                             *)
HeaderTyped(h) ==
  /\ h.type \in ValidTypes \cup {"NotValid"}
  /\ h.headerSize \in {-1, FixedHeaderSize, DynamicHeaderSize}
  /\ h.contentSize \in Int

(* No more is read than there are packets and the nothing behind them, and *)
(* the reader is somewhere in their bytes if there are any.                *)
IInv ==
  /\ values \in Seq(Values)
  /\ Len(values) <= MaxValues
  /\ reading \in BOOLEAN
  /\ HeaderTyped(header)
  /\ \E T : read \in Seq(T)
  /\ IF reading THEN Len(read) <= Len(Packets) + 1 ELSE Len(read) = 0
  /\ IF reading /\ Packets # <<>> THEN \E at : At(reader, Total(BytesOf(values)), at)
                                  ELSE Idle(reader)

(* The header of nothing has its type.                                     *)
LEMMA InvalidTyped == HeaderTyped(InvalidRawHeader)
<1>1. InvalidRawHeader.contentSize \in Int  BY DEF InvalidRawHeader
<1> QED  BY <1>1 DEF InvalidRawHeader, HeaderTyped

(* What is written is among all the values.                                *)
LEMMA ValuesWritten ==
  ASSUME values \in Seq(Values)
  PROVE  values \in Seq(AllValues) /\ Packets = PacketsOf(values)
<1>1. Values \subseteq AllValues  BY CoreAssumption
<1> QED  BY <1>1 DEF Packets

(* At first.                                                               *)
LEMMA InitTyped == Init => IInv
<1> SUFFICES ASSUME Init PROVE IInv  OBVIOUS
<1>1. values = <<>> /\ read = <<>> /\ reading = FALSE /\ header = InvalidRawHeader
      /\ reader = NewBufferReader(EmptyBuffer, 0)
  BY DEF Init
<1>2. values \in Seq(Values) /\ Len(values) <= MaxValues /\ Len(read) = 0
      /\ read \in Seq({})
  BY <1>1, CoreAssumption
<1>3. Idle(reader)
  <2>1. EmptyBuffer \in Buffer /\ Size(EmptyBuffer) = 0  BY DEF EmptyBuffer, Buffer, Size
  <2>2. reader = [buffer |-> EmptyBuffer, offset |-> 0]  BY <1>1 DEF NewBufferReader
  <2>3. reader \in AnyReader /\ ~IsList(reader) /\ reader.offset = 0
    BY <2>1, <2>2 DEF AnyReader, IsList
  <2>4. LengthOf(reader) = 0  BY <2>1, <2>2, <2>3 DEF LengthOf
  <2> QED  BY <2>3, <2>4 DEF Idle
<1> QED  BY <1>1, <1>2, <1>3, InvalidTyped DEF IInv

(* write.                                                                  *)
LEMMA WriteTyped ==
  ASSUME IInv, NEW v \in Values, WritePacket(v)
  PROVE  IInv'
<1>1. /\ reading = FALSE /\ Len(values) < MaxValues
      /\ values' = Append(values, v)
      /\ header' = HeaderWritten(header, v)
      /\ reading' = reading /\ reader' = reader /\ read' = read
  BY DEF WritePacket, IInv
<1>2. values \in Seq(Values) /\ HeaderTyped(header) /\ (\E T : read \in Seq(T))
      /\ Len(read) = 0 /\ Idle(reader)
  BY <1>1 DEF IInv
<1>3. values' \in Seq(Values) /\ Len(values') <= MaxValues
  BY <1>1, <1>2, CoreAssumption
<1>4. HeaderTyped(header')
  <2>0. v \in AllValues  BY CoreAssumption
  <2>1. header' = IF PacketType(v) = NoPacket THEN header ELSE HeaderOf(v)
    BY <1>1, <2>0, HeaderIsWritten
  <2>2. CASE PacketType(v) = NoPacket  BY <1>2, <2>1, <2>2
  <2>3. CASE PacketType(v) # NoPacket
    <3>1. HeaderOf(v).type \in ValidTypes /\ HeaderOf(v).contentSize \in Nat
      BY <2>0, <2>3, HeaderOfSize
    <3>2. HeaderOf(v).headerSize \in {FixedHeaderSize, DynamicHeaderSize}
      BY DEF HeaderOf, RawHeader
    <3> QED  BY <2>1, <2>3, <3>1, <3>2 DEF HeaderTyped
  <2> QED  BY <2>2, <2>3
<1> QED  BY <1>1, <1>2, <1>3, <1>4 DEF IInv

(* The reading begins in front of the bytes.                               *)
LEMMA OpenTyped ==
  ASSUME IInv, NEW r, Open(r), Begins(r, PacketsOf(values), BytesOf(values))
  PROVE  IInv'
<1>1. /\ reading = FALSE /\ reading' = TRUE /\ reader' = r
      /\ values' = values /\ header' = header /\ read' = read
  BY DEF Open, IInv
<1>2. /\ values \in Seq(Values) /\ Len(values) <= MaxValues /\ HeaderTyped(header)
      /\ (\E T : read \in Seq(T))
      /\ Len(read) = 0
  BY <1>1 DEF IInv
<1>3. values \in Seq(AllValues) /\ Packets = PacketsOf(values)  BY <1>2, ValuesWritten
<1>4. Len(Packets) \in Nat  BY <1>3, BytesOfPackets
<1>5. Packets' = Packets  BY <1>1 DEF Packets
<1>6. IF Packets # <<>> THEN \E at : At(r, Total(BytesOf(values)), at) ELSE Idle(r)
  BY <1>3 DEF Begins
<1>7. Len(read') <= Len(Packets') + 1  BY <1>1, <1>2, <1>4, <1>5
<1> QED  BY <1>1, <1>2, <1>5, <1>6, <1>7 DEF IInv

(* So it does in one buffer, in a list and in two pieces.                  *)
LEMMA Opens ==
  ASSUME values \in Seq(Values),
         OpenBuffer \/ OpenList \/ \E cut \in Cuts : OpenCut(cut)
  PROVE  \E r : Open(r) /\ Begins(r, PacketsOf(values), BytesOf(values))
<1>1. values \in Seq(AllValues)  BY ValuesWritten
<1>2. CASE OpenBuffer
  <2>1. PICK r : r = NewBufferReader([lo |-> 0, hi |-> Length(Written(values))], 0)
    OBVIOUS
  <2>2. Open(r)  BY <1>2, <2>1 DEF OpenBuffer
  <2> QED  BY <1>1, <2>1, <2>2, BufferBegins
<1>3. CASE OpenList
  <2>1. PICK r : r = NewBufferListReader(Places(Written(values)), 0)  OBVIOUS
  <2>2. Open(r)  BY <1>3, <2>1 DEF OpenList
  <2> QED  BY <1>1, <2>1, <2>2, ListBegins
<1>4. ASSUME NEW cut \in Cuts, OpenCut(cut)
      PROVE  \E r : Open(r) /\ Begins(r, PacketsOf(values), BytesOf(values))
  <2> DEFINE size == Length(Written(values))
  <2>1. PICK r : r = NewBufferListReader(<<[lo |-> 0, hi |-> cut],
                                           [lo |-> cut, hi |-> size]>>, 0)
    OBVIOUS
  <2>2. /\ Open(r) /\ cut < size
        /\ \A k \in DOMAIN values : ~HoldsArrayBuffer(values[k])
    BY <1>4, <2>1 DEF OpenCut
  <2>3. cut \in Nat \ {0}  BY CoreAssumption
  <2> QED  BY <1>1, <2>1, <2>2, <2>3, CutBegins
<1> QED  BY <1>2, <1>3, <1>4

(* read, which may find nothing.                                           *)
LEMMA ReadTyped ==
  ASSUME IInv, ReadPacket
  PROVE  IInv'
<1> DEFINE p == Packets
           f == BytesOf(values)
           memory == Memory(values)
           told == ReadHeader(reader, memory.headers)
           got == ReadValue(reader, memory)
<1>1. /\ reading = TRUE /\ Len(read) <= Len(p)
      /\ read' = Append(read, got.value)
      /\ reader' = got.reader
      /\ header' = told.header
      /\ values' = values /\ reading' = reading
  BY DEF ReadPacket, IInv
<1>2. /\ values \in Seq(Values) /\ Len(values) <= MaxValues
      /\ IF p # <<>> THEN \E at : At(reader, Total(f), at) ELSE Idle(reader)
  BY <1>1 DEF IInv
<1>3. /\ memory = MemoryOfFields(f) /\ WellFramed(f) /\ Len(p) \in Nat
  BY <1>2, ValuesWritten, BytesOfPackets
<1>4. p' = p /\ f' = f  BY <1>1 DEF Packets
<1>5. (\E T : read' \in Seq(T)) /\ Len(read') <= Len(p) + 1
  <2>1. PICK T : read \in Seq(T)  BY DEF IInv
  <2>2. PICK x : x = got.value  OBVIOUS
  <2>3. read' = Append(read, x)  BY <1>1, <2>2
  <2>4. read' \in Seq(T \cup {x}) /\ Len(read') = Len(read) + 1 /\ Len(read) \in Nat
    BY <2>1, <2>3
  <2> HIDE DEF p
  <2> QED  BY <1>1, <1>3, <2>4
<1> HIDE DEF p, f, memory
<1>6. CASE p = <<>>
  <2>1. reader \in AnyReader /\ reader.offset = 0 /\ LengthOf(reader) = 0 /\ Idle(reader)
    BY <1>2, <1>6 DEF Idle
  <2>2. AtEOF(reader, FixedHeaderSize)  BY <2>1 DEF AtEOF, FixedHeaderSize
  <2>3. told = Partial(reader) /\ Partial(reader).header = InvalidRawHeader
        /\ got = Gives(Undefined, reader)
    BY <2>1, <2>2, NothingRead
  <2> HIDE DEF told, got
  <2>4. header' = InvalidRawHeader /\ reader' = reader  BY <1>1, <2>3 DEF Gives
  <2> QED  BY <1>1, <1>2, <1>4, <1>5, <1>6, <2>1, <2>4, InvalidTyped DEF IInv, p
<1>7. CASE p # <<>>
  <2> DEFINE size == Total(f)
  <2>1. PICK at : At(reader, size, at)  BY <1>2, <1>7
  <2>2. \E to : At(got.reader, size, to)
    BY <1>3, <2>1, ReadValueLeads DEF Leads
  <2>3. HeaderLeads(reader, told, f, size)  BY <1>3, <2>1, HeaderIsThere
  <2> HIDE DEF told, got, size
  <2>4. HeaderTyped(told.header)  BY <2>3 DEF HeaderLeads, HeaderTyped
  <2>5. \E to : At(reader', Total(f), to)  BY <1>1, <2>2 DEF size
  <2> QED  BY <1>1, <1>2, <1>4, <1>5, <1>7, <2>4, <2>5 DEF IInv, p, f
<1> QED  BY <1>6, <1>7

(* Every step.                                                             *)
LEMMA NextTyped == IInv /\ [Next]_vars => IInv'
<1> SUFFICES ASSUME IInv, [Next]_vars PROVE IInv'  OBVIOUS
<1>1. CASE \E v \in Values : WritePacket(v)  BY <1>1, WriteTyped
<1>2. CASE OpenBuffer \/ OpenList \/ \E cut \in Cuts : OpenCut(cut)
  <2>1. values \in Seq(Values)  BY DEF IInv
  <2>2. PICK r : Open(r) /\ Begins(r, PacketsOf(values), BytesOf(values))
    BY <1>2, <2>1, Opens
  <2> QED  BY <2>2, OpenTyped
<1>3. CASE ReadPacket  BY <1>3, ReadTyped
<1>4. CASE UNCHANGED vars  BY <1>4 DEF vars, IInv, Packets
<1> QED  BY <1>1, <1>2, <1>3, <1>4 DEF Next

(* The types are among it.                                                 *)
LEMMA TypedIsTypeOK == IInv => TypeOK
<1> SUFFICES ASSUME IInv PROVE TypeOK  OBVIOUS
<1>1. values \in Seq(Values) /\ Len(values) <= MaxValues /\ reading \in BOOLEAN
      /\ HeaderTyped(header)
  BY DEF IInv
<1>2. Packets = PacketsOf(values) /\ values \in Seq(AllValues)  BY <1>1, ValuesWritten
<1>3. Len(Packets) \in Nat /\ Len(Packets) <= Len(values)  BY <1>2, BytesOfPackets
<1>4. Len(read) <= MaxValues + 1
  <2>1. Len(read) \in Nat
    <3>1. PICK T : read \in Seq(T)  BY DEF IInv
    <3> QED  BY <3>1
  <2>2. IF reading THEN Len(read) <= Len(Packets) + 1 ELSE Len(read) = 0  BY DEF IInv
  <2>3. Len(values) \in Nat  BY <1>1
  <2> QED  BY <1>1, <1>3, <2>1, <2>2, <2>3, CoreAssumption
<1>5. LengthOf(reader) \in Nat /\ reader.offset \in 0 .. LengthOf(reader)
  <2>1. CASE reading /\ Packets # <<>>
    <3>1. PICK at : At(reader, Total(BytesOf(values)), at)  BY <2>1 DEF IInv
    <3> QED  BY <3>1, AtPlace
  <2>2. CASE ~(reading /\ Packets # <<>>)
    <3>1. Idle(reader)  BY <2>2 DEF IInv
    <3> QED  BY <3>1 DEF Idle
  <2> QED  BY <2>1, <2>2
<1> QED  BY <1>1, <1>4, <1>5 DEF TypeOK, HeaderTyped

(* Every variable has its type, whatever is written, symbols in arrays     *)
(* included: the reader never leaves the bytes, and reads no more often    *)
(* than there are packets and nothing behind them.                         *)
THEOREM CoreIsTyped == Spec => []TypeOK
BY InitTyped, NextTyped, TypedIsTypeOK, PTL DEF Spec

(***************************************************************************)
(* What is read                                                            *)
(***************************************************************************)

(* Where the reader is when n packets were read.                           *)
Reached(p, f, n) == IF n < Len(p) THEN Total(FirstFields(p, n)) ELSE Total(f) - 1

(* The header of a packet is told of the last that was written or read.    *)
HeaderTold ==
  LET i == IF reading THEN Len(read) ELSE Len(Packets)
  IN i \in 1 .. Len(Packets) => header = HeaderOf(Packets[i])

ReaderReaches ==
  reading /\ Packets # <<>> =>
    /\ At(reader, Total(BytesOf(values)), Reached(Packets, BytesOf(values), Len(read)))
    /\ Fitting(reader, Packets, BytesOf(values))

InPlace == ReadsWhatWasWritten /\ HeaderTold /\ ReaderReaches

(* Nothing of no packet.                                                   *)
LEMMA NothingReached ==
  ASSUME NEW p \in Seq(WithPackets), p # <<>>, NEW f
  PROVE  Reached(p, f, 0) = 0
<1>1. Len(p) \in Nat /\ 0 < Len(p)  OBVIOUS
<1> QED  BY <1>1, NoneFirst DEF Reached

(* At first nothing is written and nothing read.                           *)
LEMMA InitReached == Init => InPlace
<1> SUFFICES ASSUME Init PROVE InPlace  OBVIOUS
<1>1. values = <<>> /\ read = <<>> /\ reading = FALSE  BY DEF Init
<1>2. Packets = <<>>  BY <1>1, PacketsOfNone DEF Packets
<1>3. ReadsWhatWasWritten  BY <1>1 DEF ReadsWhatWasWritten
<1>4. HeaderTold  BY <1>1, <1>2 DEF HeaderTold
<1> QED  BY <1>1, <1>3, <1>4 DEF InPlace, ReaderReaches

(* write: the header is that of the last packet.                           *)
LEMMA WriteReached ==
  ASSUME IInv, InPlace, NEW v \in Values, WritePacket(v)
  PROVE  InPlace'
<1> DEFINE p == Packets
           q == WithPacket(p, v)
<1>1. /\ reading = FALSE /\ values' = Append(values, v)
      /\ header' = HeaderWritten(header, v)
      /\ reading' = FALSE /\ read' = read
  BY DEF WritePacket, IInv
<1>2. values \in Seq(Values) /\ (\E T : read \in Seq(T)) /\ Len(read) = 0
  BY <1>1 DEF IInv
<1>3. v \in AllValues  BY CoreAssumption
<1>4. values \in Seq(AllValues) /\ p = PacketsOf(values)  BY <1>2, ValuesWritten
<1>5. p \in Seq(WithPackets)  BY <1>4, BytesOfPackets
<1>6. Packets' = q  BY <1>1, <1>3, <1>4, PacketsOfOneMore DEF Packets
<1>7. header' = IF PacketType(v) = NoPacket THEN header ELSE HeaderOf(v)
  BY <1>1, <1>3, HeaderIsWritten
<1>8. Len(p) \in 1 .. Len(p) => header = HeaderOf(p[Len(p)])
  BY <1>1 DEF InPlace, HeaderTold
<1> HIDE DEF p
<1>9. Len(q) \in 1 .. Len(q) => header' = HeaderOf(q[Len(q)])
  <2>1. CASE PacketType(v) = NoPacket
    <3>1. q = p /\ header' = header  BY <1>7, <2>1 DEF WithPacket
    <3> QED  BY <1>8, <3>1
  <2>2. CASE PacketType(v) # NoPacket
    <3>1. q = Append(p, v) /\ header' = HeaderOf(v)  BY <1>7, <2>2 DEF WithPacket
    <3>2. v \in WithPackets  BY <1>3, <2>2 DEF WithPackets
    <3>3. q[Len(q)] = v  BY <1>5, <3>1, <3>2
    <3> QED  BY <3>1, <3>3
  <2> QED  BY <2>1, <2>2
<1> HIDE DEF q
<1>10. HeaderTold'  BY <1>1, <1>6, <1>9 DEF HeaderTold
<1>11. ReadsWhatWasWritten'
  <2>1. DOMAIN read' = {}  BY <1>1, <1>2
  <2> QED  BY <2>1 DEF ReadsWhatWasWritten
<1>12. ReaderReaches'  BY <1>1 DEF ReaderReaches
<1> QED  BY <1>10, <1>11, <1>12 DEF InPlace

(* The reader is in front of the first packet.                             *)
LEMMA OpenReached ==
  ASSUME IInv, NEW r, Open(r), Begins(r, PacketsOf(values), BytesOf(values))
  PROVE  InPlace'
<1>1. /\ reading = FALSE /\ reading' = TRUE /\ reader' = r
      /\ values' = values /\ header' = header /\ read' = read
  BY DEF Open, IInv
<1>2. values \in Seq(Values) /\ (\E T : read \in Seq(T)) /\ Len(read) = 0
  BY <1>1 DEF IInv
<1>3. values \in Seq(AllValues) /\ Packets = PacketsOf(values)  BY <1>2, ValuesWritten
<1>4. Packets \in Seq(WithPackets)  BY <1>3, BytesOfPackets
<1>5. Packets' = Packets  BY <1>1 DEF Packets
<1> DEFINE p == Packets
           f == BytesOf(values)
<1>6. p # <<>> => At(r, Total(f), 0) /\ Fitting(r, p, f)  BY <1>3 DEF Begins
<1>7. p # <<>> => Reached(p, f, 0) = 0  BY <1>4, NothingReached
<1>8. DOMAIN read' = {} /\ Len(read') = 0  BY <1>1, <1>2
<1>9. ReadsWhatWasWritten'  BY <1>8 DEF ReadsWhatWasWritten
<1>10. HeaderTold'
  <2>1. 0 \notin 1 .. Len(Packets')  OBVIOUS
  <2> QED  BY <1>1, <1>8, <2>1 DEF HeaderTold
<1>11. ReaderReaches'
  <2>1. p # <<>> => /\ At(reader', Total(f), Reached(p, f, Len(read')))
                    /\ Fitting(reader', p, f)
    BY <1>1, <1>6, <1>7, <1>8
  <2>2. f' = f  BY <1>1
  <2> HIDE DEF f
  <2> QED  BY <1>5, <2>1, <2>2 DEF ReaderReaches, f
<1> QED  BY <1>9, <1>10, <1>11 DEF InPlace

(* A packet that is there is read, and the reader is behind it.            *)
LEMMA PacketRead ==
  ASSUME ElementsHavePackets, NEW p \in Seq(WithPackets), NEW n \in 0 .. Len(p) - 1,
         NEW f, f = BytesOf(p), NEW r, At(r, Total(f), Reached(p, f, n)), Fitting(r, p, f),
         NEW got, got = ReadValue(r, MemoryOfFields(f)),
         NEW told, told = ReadHeader(r, MemoryOfFields(f).headers)
  PROVE  /\ got.value = p[n + 1]
         /\ At(got.reader, Total(f), Reached(p, f, n + 1))
         /\ Fitting(got.reader, p, f)
         /\ told.header = HeaderOf(p[n + 1])
<1> DEFINE i == n + 1
           a == FirstFields(p, n)
           u == p[i]
           c == Contents[u]
           e == BytelengthWith(c.length, u)
           inner == Reading(MemoryOfFields(f))
<1>1. Len(p) \in Nat /\ n \in Nat /\ n < Len(p) /\ i \in 1 .. Len(p) /\ i - 1 = n
  OBVIOUS
<1>2. PlacedIn(p, i)  BY <1>1, PacketPlaces
<1>3. /\ u \in AllValues /\ PacketType(u) # NoPacket
      /\ \E b : PacketIsAt(f, a, u, c, b)
      /\ Solid(a)
      /\ Total(a) + e = Total(FirstFields(p, i))
      /\ EndAt(f, Total(a) + e) = IF i = Len(p) THEN Total(f) - 1 ELSE Total(a) + e
  BY <1>1, <1>2 DEF PlacedIn, BytesOf
<1>4. Reached(p, f, n) = Total(a)  BY <1>1 DEF Reached
<1>5. EndAt(f, Total(a) + e) = Reached(p, f, i)
  <2>1. CASE i = Len(p)  BY <1>1, <1>3, <2>1 DEF Reached
  <2>2. CASE i < Len(p)  BY <1>1, <1>3, <2>2 DEF Reached
  <2> QED  BY <1>1, <2>1, <2>2
<1>6. HoldsArrayBuffer(u) => Snug(r, f)  BY <1>1 DEF Fitting
<1>7. ReadsPacket(inner, f, u, c, HoldsArrayBuffer(u))
  BY <1>3, EveryValueIsRead
<1>8. got = inner[r]  BY DEF ReadValue
<1>9. HeaderOf(u) = RawHeader(PacketType(u), HeaderSizeOf(u), ContentSizeOf(u, c))
  BY <1>3, ValueFields
<1> HIDE DEF u, c, a, e, inner, i
<1>10. PICK b : PacketIsAt(f, a, u, c, b)  BY <1>3
<1>11. At(r, Total(f), Total(a))  BY <1>4
<1>12. Reads(got, r, f, Total(f), EndAt(f, Total(a) + e), u)
  BY <1>3, <1>6, <1>7, <1>8, <1>10, <1>11 DEF ReadsPacket, e
<1>13. told.header = RawHeader(PacketType(u), HeaderSizeOf(u), ContentSizeOf(u, c))
  BY <1>3, <1>10, <1>11, HeaderInFront
<1>14. got.value = u /\ At(got.reader, Total(f), Reached(p, f, i)) /\ Keeps(r, got.reader, f)
  BY <1>5, <1>12 DEF Reads
<1>15. Fitting(got.reader, p, f)  BY <1>14 DEF Fitting, Keeps
<1> QED  BY <1>9, <1>13, <1>14, <1>15 DEF u, i

(* Behind the last one there is nothing.                                   *)
LEMMA EndRead ==
  ASSUME NEW r, NEW size \in Nat \ {0}, At(r, size, size - 1), NEW memory
  PROVE  ReadValue(r, memory) = Gives(Undefined, r)
<1>1. r \in AnyReader  BY AtReader
<1>2. AtEOF(r, FixedHeaderSize)
  <2>1. ~AtEOF(r, 2) <=> (size - 1) + 2 <= size  BY BytesEnough
  <2>2. ~((size - 1) + 2 <= size)  OBVIOUS
  <2> QED  BY <2>1, <2>2 DEF FixedHeaderSize
<1> QED  BY <1>1, <1>2, NothingRead

(* read: the next packet, or nothing behind the last.                      *)
LEMMA ReadReached ==
  ASSUME ElementsHavePackets, IInv, InPlace, ReadPacket
  PROVE  InPlace'
<1> DEFINE p == Packets
           f == BytesOf(values)
           n == Len(read)
           memory == Memory(values)
           told == ReadHeader(reader, memory.headers)
           got == ReadValue(reader, memory)
<1>1. /\ reading = TRUE /\ n <= Len(p)
      /\ read' = Append(read, got.value)
      /\ reader' = got.reader
      /\ header' = told.header
      /\ values' = values /\ reading' = TRUE
  BY DEF ReadPacket, IInv
<1>2. /\ values \in Seq(Values)
      /\ IF p # <<>> THEN \E at : At(reader, Total(f), at) ELSE Idle(reader)
  BY <1>1 DEF IInv
<1>3. values \in Seq(AllValues) /\ p = PacketsOf(values)  BY <1>2, ValuesWritten
<1>4. /\ p \in Seq(WithPackets) /\ f = BytesOf(p)
      /\ memory = MemoryOfFields(f)
      /\ p # <<>> => Total(f) \in Nat \ {0}
  BY <1>3, BytesOfPackets
<1>5. p' = p /\ f' = f  BY <1>1 DEF Packets
<1>6. /\ p # <<>> => At(reader, Total(f), Reached(p, f, n)) /\ Fitting(reader, p, f)
      /\ \A i \in DOMAIN read : read[i] = IF i <= Len(p) THEN p[i] ELSE Undefined
  BY <1>1 DEF InPlace, ReaderReaches, ReadsWhatWasWritten
<1>7. PICK x : x = got.value  OBVIOUS
<1>8. /\ Len(p) \in Nat /\ n \in Nat
      /\ DOMAIN read = 1 .. n /\ DOMAIN read' = 1 .. n + 1 /\ Len(read') = n + 1
      /\ read'[n + 1] = x
      /\ \A i \in 1 .. n : read'[i] = read[i]
  <2>1. PICK T : read \in Seq(T)  BY DEF IInv
  <2>2. read' = Append(read, x)  BY <1>1, <1>7
  <2>3. x \in T \cup {x} /\ read \in Seq(T \cup {x})  BY <2>1
  <2>4. Len(p) \in Nat  BY <1>4
  <2> HIDE DEF p
  <2> QED  BY <2>2, <2>3, <2>4
<1>9. /\ x = IF n + 1 <= Len(p) THEN p[n + 1] ELSE Undefined
      /\ n + 1 \in 1 .. Len(p) => told.header = HeaderOf(p[n + 1])
      /\ p # <<>> => At(got.reader, Total(f), Reached(p, f, n + 1)) /\ Fitting(got.reader, p, f)
  <2> HIDE DEF p, f, memory
  <2>1. CASE n < Len(p)
    <3>1. p # <<>> /\ n \in 0 .. Len(p) - 1 /\ n + 1 <= Len(p)
      <4>1. n \in 0 .. Len(p) - 1 /\ n + 1 <= Len(p) /\ Len(p) # 0  BY <1>8, <2>1
      <4>2. Len(<<>>) = 0  OBVIOUS
      <4> QED  BY <4>1, <4>2
    <3>2. At(reader, Total(f), Reached(p, f, n)) /\ Fitting(reader, p, f)
      BY <1>6, <3>1
    <3> HIDE DEF n
    <3>3. /\ got.value = p[n + 1]
          /\ At(got.reader, Total(f), Reached(p, f, n + 1))
          /\ Fitting(got.reader, p, f)
          /\ told.header = HeaderOf(p[n + 1])
      BY <1>4, <3>1, <3>2, PacketRead
    <3> HIDE DEF got, told
    <3> QED  BY <1>7, <3>1, <3>3
  <2>2. CASE n = Len(p)
    <3>1. ~(n + 1 <= Len(p)) /\ n + 1 \notin 1 .. Len(p)  BY <1>8, <2>2
    <3>2. p = <<>> => got = Gives(Undefined, reader)
      <4> SUFFICES ASSUME p = <<>> PROVE got = Gives(Undefined, reader)  OBVIOUS
      <4>1. reader \in AnyReader /\ reader.offset = 0 /\ LengthOf(reader) = 0
        BY <1>2 DEF Idle
      <4>2. AtEOF(reader, FixedHeaderSize)  BY <4>1 DEF AtEOF, FixedHeaderSize
      <4> QED  BY <4>1, <4>2, NothingRead
    <3>3. Reached(p, f, n) = Total(f) - 1 /\ Reached(p, f, n + 1) = Total(f) - 1
      <4> HIDE DEF n
      <4> QED  BY <1>8, <2>2 DEF Reached
    <3>4. p # <<>> => got = Gives(Undefined, reader)
      <4> SUFFICES ASSUME p # <<>> PROVE got = Gives(Undefined, reader)  OBVIOUS
      <4>1. At(reader, Total(f), Total(f) - 1) /\ Total(f) \in Nat \ {0}
        BY <1>4, <1>6, <3>3
      <4> QED  BY <4>1, EndRead
    <3>5. got = Gives(Undefined, reader)  BY <3>2, <3>4
    <3> HIDE DEF got, told, n
    <3>6. got.value = Undefined /\ got.reader = reader  BY <3>5 DEF Gives
    <3> QED  BY <1>6, <1>7, <3>1, <3>3, <3>6
  <2> QED  BY <1>1, <1>8, <2>1, <2>2
<1> HIDE DEF p, f, n, memory, told, got
<1>10. ReadsWhatWasWritten'
  <2>1. ASSUME NEW i \in 1 .. n + 1
        PROVE  read'[i] = IF i <= Len(p) THEN p[i] ELSE Undefined
    <3>1. CASE i \in 1 .. n  BY <1>6, <1>8, <3>1
    <3>2. CASE i = n + 1  BY <1>8, <1>9, <3>2
    <3> QED  BY <1>8, <3>1, <3>2
  <2> QED  BY <1>5, <1>8, <2>1 DEF ReadsWhatWasWritten, p
<1>11. HeaderTold'  BY <1>1, <1>5, <1>8, <1>9 DEF HeaderTold, p
<1>12. ReaderReaches'  BY <1>1, <1>5, <1>8, <1>9 DEF ReaderReaches, p, f
<1> QED  BY <1>10, <1>11, <1>12 DEF InPlace

(* Every step.                                                             *)
LEMMA NextReached ==
  ASSUME ElementsHavePackets PROVE IInv /\ InPlace /\ [Next]_vars => InPlace'
<1> SUFFICES ASSUME IInv, InPlace, [Next]_vars PROVE InPlace'  OBVIOUS
<1>1. CASE \E v \in Values : WritePacket(v)  BY <1>1, WriteReached
<1>2. CASE OpenBuffer \/ OpenList \/ \E cut \in Cuts : OpenCut(cut)
  <2>1. values \in Seq(Values)  BY DEF IInv
  <2>2. PICK r : Open(r) /\ Begins(r, PacketsOf(values), BytesOf(values))
    BY <1>2, <2>1, Opens
  <2> QED  BY <2>2, OpenReached
<1>3. CASE ReadPacket  BY <1>3, ReadReached
<1>4. CASE UNCHANGED vars
  BY <1>4 DEF vars, InPlace, ReadsWhatWasWritten, HeaderTold, ReaderReaches, Packets
<1> QED  BY <1>1, <1>2, <1>3, <1>4 DEF Next

(* The header in the bytes is the one of the packet there.                 *)
LEMMA ToldIsInTheBytes ==
  IInv /\ HeaderTold => HeaderIsTheOneInTheBytes
<1> SUFFICES ASSUME IInv, HeaderTold,
                    NEW i, i = (IF reading THEN Len(read) ELSE Len(Packets)),
                    i \in 1 .. Len(Packets),
                    NEW start, start = Length(Written(SubSeq(Packets, 1, i - 1))),
                    NEW bytes, bytes = NewBufferReader([lo |-> 0,
                                                        hi |-> Length(Written(Packets))], start)
             PROVE  header = ReadHeader(bytes, Memory(values).headers).header
  BY DEF HeaderIsTheOneInTheBytes
<1> DEFINE p == Packets
           f == BytesOf(values)
           a == FirstFields(p, i - 1)
           u == p[i]
           c == Contents[u]
           told == ReadHeader(bytes, Memory(values).headers)
<1>1. values \in Seq(AllValues) /\ p = PacketsOf(values)  BY ValuesWritten DEF IInv
<1>2. /\ p \in Seq(WithPackets)
      /\ BytesOf(p) = f /\ Written(p) = Written(values)
      /\ Length(Written(values)) = Total(f)
      /\ Memory(values) = MemoryOfFields(f)
  BY <1>1, BytesOfPackets
<1>3. PlacedIn(p, i)  BY <1>2, PacketPlaces
<1>4. /\ u \in AllValues /\ PacketType(u) # NoPacket
      /\ \E b : PacketIsAt(f, a, u, c, b)
      /\ Solid(a)
      /\ Total(a) \in Nat /\ Total(f) \in Nat /\ Total(a) < Total(f)
  BY <1>2, <1>3 DEF PlacedIn, BytesOf
<1>5. start = Total(a)
  BY DEF Length, Written, FirstFields, First, FieldsIn, ListOf
<1>6. header = HeaderOf(u)  BY DEF HeaderTold
<1>7. HeaderOf(u) = RawHeader(PacketType(u), HeaderSizeOf(u), ContentSizeOf(u, c))
  BY <1>4, ValueFields
<1> HIDE DEF p, f, a, u, c
<1>8. PICK b : PacketIsAt(f, a, u, c, b)  BY <1>4
<1>9. At(bytes, Total(f), Total(a))
  <2>1. bytes = NewBufferReader([lo |-> 0, hi |-> Total(f)], Total(a))
    BY <1>2, <1>5 DEF p
  <2>2. Total(a) \in 0 .. Total(f)  BY <1>4
  <2> QED  BY <1>4, <2>1, <2>2, BufferReaderAt
<1>10. told = ReadHeader(bytes, MemoryOfFields(f).headers)  BY <1>2
<1> HIDE DEF told
<1>11. told.header = RawHeader(PacketType(u), HeaderSizeOf(u), ContentSizeOf(u, c))
  BY <1>4, <1>8, <1>9, <1>10, HeaderInFront
<1> QED  BY <1>6, <1>7, <1>11 DEF told

(* The inductive invariant: the reader is in front of the packet to be     *)
(* read next, what was read is what was written, and the header the last.  *)
THEOREM PacketsAreInPlace ==
  ASSUME ElementsHavePackets PROVE Spec => [](IInv /\ InPlace)
<1>1. Init => IInv /\ InPlace  BY InitTyped, InitReached
<1>2. IInv /\ InPlace /\ [Next]_vars => (IInv /\ InPlace)'  BY NextTyped, NextReached
<1> QED  BY <1>1, <1>2, PTL DEF Spec

(* The values come out as they went in, in order, in whatever pieces their *)
(* bytes are, and nothing behind them: what write and read count agrees.   *)
THEOREM WhatIsWrittenIsRead ==
  ASSUME ElementsHavePackets PROVE Spec => []ReadsWhatWasWritten
<1>1. IInv /\ InPlace => ReadsWhatWasWritten  BY DEF InPlace
<1> QED  BY <1>1, PacketsAreInPlace, PTL

(* The header a packet has after a write or a read is the one its bytes    *)
(* have. (_rawHeader)                                                      *)
THEOREM HeadersAreThoseInTheBytes ==
  ASSUME ElementsHavePackets PROVE Spec => []HeaderIsTheOneInTheBytes
<1>1. IInv /\ InPlace => HeaderIsTheOneInTheBytes  BY ToldIsInTheBytes DEF InPlace
<1> QED  BY <1>1, PacketsAreInPlace, PTL
=============================================================================
