---------------------- MODULE BufferListReader_proofs ----------------------
(***************************************************************************)
(* The inductive invariant of BufferListReader, for every size of buffer,  *)
(* every length of read and every sequence of calls of a client without    *)
(* the harmful habits.                                                     *)
(***************************************************************************)
EXTENDS BufferListLoops, Buffers_proofs

(* What IInv says of the saved contexts, of any reader whose first byte is *)
(* at `base` and any list of saved places.                                 *)
Saved(r, base, saved) ==
  /\ Len(r.contexts) = Len(saved)
  /\ \A k \in 1 .. Len(saved) :
       LET context == r.contexts[k]
       IN /\ base + context.offset = saved[k]
          /\ context.offset < r.length \/ r.offset = r.length
          /\ context.offset <= r.length
          /\ context.timestamp <= r.timestamp
          /\ context.timestamp = r.timestamp =>
               SamePlace(r, context.offset, context.curBufferIndex,
                         context.curOffset)
  /\ \A j \in 1 .. Len(r.contexts) :
       r.contexts[j].offset = r.length =>
         /\ r.contexts[j].timestamp = r.timestamp
         /\ \A k \in j .. Len(r.contexts) : r.contexts[k].offset = r.length

(* The invariant is a sound reader with its saved places.                  *)
LEMMA InvForm ==
  /\ IInv <=> /\ TypeOK
              /\ Sound(reader, arrived)
              /\ Saved(reader, Base, places)
  /\ IInv' <=> /\ TypeOK'
               /\ Sound(reader', arrived')
               /\ Saved(reader', Base', places')
<1>1. IInv <=> /\ TypeOK
               /\ Sound(reader, arrived)
               /\ Saved(reader, Base, places)
  BY DEF IInv, TypeOK, HoldsTheStream, CursorAgrees, SavedPlacesAgree,
         SavedAtEndIsExact, AtEnd, Sound, Saved
<1>2. IInv' <=> /\ TypeOK'
                /\ Sound(reader', arrived')
                /\ Saved(reader', Base', places')
  BY DEF IInv, TypeOK, HoldsTheStream, CursorAgrees, SavedPlacesAgree,
         SavedAtEndIsExact, AtEnd, Sound, Saved
<1> QED  BY <1>1, <1>2

(* A saved context of a sound reader.                                      *)
LEMMA ContextTypes ==
  ASSUME NEW r, NEW arrived0, Sound(r, arrived0), NEW k \in 1 .. Len(r.contexts)
  PROVE  /\ r.contexts[k] \in Context
         /\ r.contexts[k].offset \in Nat
         /\ r.contexts[k].timestamp \in Nat
         /\ r.contexts[k].curBufferIndex \in Nat \ {0}
         /\ r.contexts[k].curOffset \in Nat
<1>1. r.contexts \in Seq(Context)  BY DEF Sound, Reader
<1>2. r.contexts[k] \in Context  BY <1>1
<1> QED  BY <1>2 DEF Context

(* The saved places stay right when the cursor moves by a read or a seek,  *)
(* which it does only from before the end of the bytes, even when the read *)
(* merges buffers.                                                         *)
LEMMA SavedKept ==
  ASSUME NEW r, NEW q, NEW bytes, Sound(r, bytes), Sound(q, bytes),
         NEW base, NEW saved, Saved(r, base, saved),
         q.contexts = r.contexts, q.length = r.length,
         r.timestamp <= q.timestamp,
         q.timestamp = r.timestamp => q.buffers = r.buffers,
         r.offset = r.length => q.offset = r.offset /\ q.timestamp = r.timestamp
  PROVE  Saved(q, base, saved)
<1>1. r.timestamp \in Nat /\ q.timestamp \in Nat /\ r.length \in Nat
  BY DEF Sound, Reader
<1>2. Len(q.contexts) = Len(saved) /\ Len(r.contexts) = Len(saved)
  BY DEF Saved
<1>3. ASSUME NEW k \in 1 .. Len(saved)
      PROVE  LET context == q.contexts[k]
             IN /\ base + context.offset = saved[k]
                /\ context.offset < q.length \/ q.offset = q.length
                /\ context.offset <= q.length
                /\ context.timestamp <= q.timestamp
                /\ context.timestamp = q.timestamp =>
                     SamePlace(q, context.offset, context.curBufferIndex,
                               context.curOffset)
  <2> DEFINE context == r.contexts[k]
  <2>1. /\ base + context.offset = saved[k]
        /\ context.offset < r.length \/ r.offset = r.length
        /\ context.offset <= r.length
        /\ context.timestamp <= r.timestamp
        /\ context.timestamp = r.timestamp =>
             SamePlace(r, context.offset, context.curBufferIndex,
                       context.curOffset)
    BY DEF Saved
  <2>2. q.contexts[k] = context  OBVIOUS
  <2>3. context.timestamp \in Nat  BY <1>2, ContextTypes
  <2> HIDE DEF context
  <2>4. context.timestamp <= q.timestamp  BY <2>1, <2>3, <1>1
  <2>5. context.offset < q.length \/ q.offset = q.length  BY <2>1
  <2>6. ASSUME context.timestamp = q.timestamp
        PROVE  SamePlace(q, context.offset, context.curBufferIndex,
                         context.curOffset)
    <3>1. q.timestamp = r.timestamp  BY <2>1, <2>3, <2>6, <1>1
    <3>2. q.buffers = r.buffers  BY <3>1
    <3>3. SamePlace(r, context.offset, context.curBufferIndex, context.curOffset)
      BY <2>1, <2>6, <3>1
    <3> QED  BY <3>2, <3>3 DEF SamePlace
  <2> QED  BY <2>1, <2>2, <2>4, <2>5, <2>6
<1>4. ASSUME NEW j \in 1 .. Len(q.contexts), q.contexts[j].offset = q.length
      PROVE  /\ q.contexts[j].timestamp = q.timestamp
             /\ \A k \in j .. Len(q.contexts) : q.contexts[k].offset = q.length
  <2>1. j \in 1 .. Len(saved) /\ r.contexts[j].offset = r.length
    BY <1>2, <1>4
  <2>2. ~(r.contexts[j].offset < r.length)  BY <2>1, <1>1
  <2>3. r.offset = r.length  BY <2>1, <2>2 DEF Saved
  <2>4. /\ r.contexts[j].timestamp = r.timestamp
        /\ \A k \in j .. Len(r.contexts) : r.contexts[k].offset = r.length
    BY <2>1, <1>2 DEF Saved
  <2> QED  BY <2>3, <2>4
<1> QED  BY <1>2, <1>3, <1>4 DEF Saved

(* Bytes that arrive move no saved place.                                  *)
LEMMA SavedAppend ==
  ASSUME NEW r, NEW q, NEW bytes, Sound(r, bytes), NEW size \in Nat \ {0},
         NEW base, NEW saved, Saved(r, base, saved),
         q.contexts = r.contexts, q.length = r.length + size,
         q.timestamp = r.timestamp,
         \A offset, k, o : SamePlace(r, offset, k, o) /\ o \in Nat =>
                             SamePlace(q, offset, k, o)
  PROVE  Saved(q, base, saved)
<1>1. r.length \in Nat /\ r.timestamp \in Nat  BY DEF Sound, Reader
<1>2. Len(q.contexts) = Len(saved) /\ Len(r.contexts) = Len(saved)
  BY DEF Saved
<1>3. ASSUME NEW k \in 1 .. Len(saved)
      PROVE  LET context == q.contexts[k]
             IN /\ base + context.offset = saved[k]
                /\ context.offset < q.length
                /\ context.offset <= q.length
                /\ context.timestamp <= q.timestamp
                /\ context.timestamp = q.timestamp =>
                     SamePlace(q, context.offset, context.curBufferIndex,
                               context.curOffset)
  <2> DEFINE context == r.contexts[k]
  <2>1. /\ base + context.offset = saved[k]
        /\ context.offset <= r.length
        /\ context.timestamp <= r.timestamp
        /\ context.timestamp = r.timestamp =>
             SamePlace(r, context.offset, context.curBufferIndex,
                       context.curOffset)
    BY DEF Saved
  <2>2. q.contexts[k] = context  OBVIOUS
  <2>3. context.offset \in Nat /\ context.curOffset \in Nat
    BY <1>2, ContextTypes
  <2> HIDE DEF context
  <2>4. context.offset < q.length /\ context.offset <= q.length
    BY <2>1, <2>3, <1>1
  <2>5. ASSUME context.timestamp = q.timestamp
        PROVE  SamePlace(q, context.offset, context.curBufferIndex,
                         context.curOffset)
    BY <2>1, <2>3, <2>5
  <2> QED  BY <2>1, <2>2, <2>4, <2>5
<1>4. ASSUME NEW j \in 1 .. Len(q.contexts), q.contexts[j].offset = q.length
      PROVE  FALSE
  <2>1. q.contexts[j].offset < q.length  BY <1>2, <1>3
  <2>2. q.length \in Nat  BY <1>1
  <2> QED  BY <1>4, <2>1, <2>2
<1> QED  BY <1>2, <1>3, <1>4 DEF Saved

(* pushd saves the place of the cursor.                                    *)
LEMMA SavedPushd ==
  ASSUME NEW r, NEW bytes, Sound(r, bytes),
         NEW base \in Nat, NEW saved \in Seq(Nat), Saved(r, base, saved),
         NEW q, q = Pushd(r)
  PROVE  /\ Sound(q, bytes)
         /\ q.offset = r.offset
         /\ BaseOf(q, bytes) = BaseOf(r, bytes)
         /\ Saved(q, base, Append(saved, base + r.offset))
<1> DEFINE new == GetContext(r)
           l == Len(saved)
           after == Append(saved, base + r.offset)
<1>1. /\ r \in Reader /\ r.contexts \in Seq(Context)
      /\ r.offset \in Nat /\ r.length \in Nat /\ r.timestamp \in Nat
      /\ r.curBufferIndex \in Nat \ {0} /\ r.curBufferOffset \in Nat
      /\ r.offset <= r.length
  BY OffsetInLength DEF Sound, Reader
<1>2. /\ new \in Context /\ new.offset = r.offset /\ new.timestamp = r.timestamp
      /\ new.curBufferIndex = r.curBufferIndex
      /\ new.curOffset = r.curBufferOffset
  BY <1>1 DEF GetContext, Context
<1>3. Len(r.contexts) = l /\ l \in Nat  BY DEF Saved
<1> HIDE DEF new
<1>4. Append(r.contexts, new) \in Seq(Context)  BY <1>1, <1>2
<1>5. q = [r EXCEPT !.contexts = Append(r.contexts, new)]
  BY <1>1 DEF Pushd, new, Reader
<1>6. /\ q.contexts = Append(r.contexts, new)
      /\ q.buffers = r.buffers /\ q.length = r.length /\ q.offset = r.offset
      /\ q.curBufferIndex = r.curBufferIndex
      /\ q.curBufferOffset = r.curBufferOffset
      /\ q.timestamp = r.timestamp
  BY <1>1, <1>5 DEF Reader
<1>7. q \in Reader  BY <1>1, <1>4, <1>5 DEF Reader
<1>8. BaseOf(q, bytes) = BaseOf(r, bytes)  BY <1>6 DEF BaseOf
<1>9. Sound(q, bytes)
  <2>1. Holds(q, bytes) /\ Covers(q, bytes)
    BY <1>6, <1>8 DEF Sound, Holds, Covers
  <2>2. CursorOf(q)  BY <1>6 DEF Sound, CursorOf, SamePlace
  <2> QED  BY <2>1, <2>2, <1>7 DEF Sound
<1>10. /\ Len(q.contexts) = l + 1 /\ Len(after) = l + 1
       /\ q.contexts[l + 1] = new /\ after[l + 1] = base + r.offset
       /\ \A k \in 1 .. l : q.contexts[k] = r.contexts[k] /\ after[k] = saved[k]
  BY <1>1, <1>2, <1>3, <1>6
<1>11. \A offset, k, o : SamePlace(r, offset, k, o) => SamePlace(q, offset, k, o)
  BY <1>6 DEF SamePlace
<1> HIDE DEF after, l
<1>12. ASSUME NEW k \in 1 .. Len(after)
       PROVE  LET context == q.contexts[k]
              IN /\ base + context.offset = after[k]
                 /\ context.offset < q.length \/ q.offset = q.length
                 /\ context.offset <= q.length
                 /\ context.timestamp <= q.timestamp
                 /\ context.timestamp = q.timestamp =>
                      SamePlace(q, context.offset, context.curBufferIndex,
                                context.curOffset)
  <2>1. CASE k = l + 1
    <3>1. SamePlace(q, new.offset, new.curBufferIndex, new.curOffset)
      BY <1>2, <1>11 DEF Sound, CursorOf
    <3>2. new.offset < q.length \/ q.offset = q.length  BY <1>1, <1>2, <1>6
    <3>3. new.timestamp <= q.timestamp /\ new.offset <= q.length
      BY <1>1, <1>2, <1>6
    <3> QED  BY <2>1, <3>1, <3>2, <3>3, <1>2, <1>10
  <2>2. CASE k # l + 1
    <3>1. k \in 1 .. l  BY <2>2, <1>3, <1>10
    <3>2. /\ base + r.contexts[k].offset = saved[k]
          /\ r.contexts[k].offset < r.length \/ r.offset = r.length
          /\ r.contexts[k].offset <= r.length
          /\ r.contexts[k].timestamp <= r.timestamp
          /\ r.contexts[k].timestamp = r.timestamp =>
               SamePlace(r, r.contexts[k].offset, r.contexts[k].curBufferIndex,
                         r.contexts[k].curOffset)
      BY <3>1 DEF Saved, l
    <3> QED  BY <3>1, <3>2, <1>6, <1>10, <1>11
  <2> QED  BY <2>1, <2>2
<1>13. ASSUME NEW j \in 1 .. Len(q.contexts), q.contexts[j].offset = q.length
       PROVE  /\ q.contexts[j].timestamp = q.timestamp
              /\ \A k \in j .. Len(q.contexts) : q.contexts[k].offset = q.length
  <2>1. CASE j = l + 1
    <3>1. \A k \in j .. Len(q.contexts) : k = j  BY <2>1, <1>3, <1>10
    <3> QED  BY <2>1, <3>1, <1>2, <1>6, <1>10, <1>13
  <2>2. CASE j # l + 1
    <3>1. j \in 1 .. l  BY <2>2, <1>3, <1>10
    <3>2. r.contexts[j].offset = r.length  BY <3>1, <1>6, <1>10, <1>13
    <3>3. /\ r.contexts[j].timestamp = r.timestamp
          /\ \A k \in j .. l : r.contexts[k].offset = r.length
      BY <3>1, <3>2, <1>3 DEF Saved
    <3>4. r.offset = r.length
      BY <3>1, <3>2, <1>1, <1>3 DEF Saved, l
    <3>5. ASSUME NEW k \in j .. Len(q.contexts)
          PROVE  q.contexts[k].offset = q.length
      <4>1. CASE k = l + 1  BY <4>1, <3>4, <1>2, <1>6, <1>10
      <4>2. CASE k # l + 1
        <5>1. k \in j .. l /\ k \in 1 .. l  BY <4>2, <3>1, <1>3, <1>10
        <5> QED  BY <5>1, <3>3, <1>6, <1>10
      <4> QED  BY <4>1, <4>2
    <3> QED  BY <3>1, <3>3, <3>5, <1>6, <1>10
  <2> QED  BY <2>1, <2>2
<1>14. Len(q.contexts) = Len(after)  BY <1>10
<1>15. Saved(q, base, after)  BY <1>12, <1>13, <1>14 DEF Saved
<1> QED  BY <1>6, <1>8, <1>9, <1>15 DEF after

(* popd brings the cursor to the last saved place, and the others stay     *)
(* right.                                                                  *)
LEMMA SavedPopd ==
  ASSUME NEW r, NEW bytes, Sound(r, bytes),
         NEW base \in Nat, NEW saved \in Seq(Nat), Saved(r, base, saved),
         r.contexts # <<>>, NEW q, q = Popd(r)
  PROVE  /\ Sound(q, bytes)
         /\ saved # <<>>
         /\ base + q.offset = Last(saved)
         /\ BaseOf(q, bytes) = BaseOf(r, bytes)
         /\ Saved(q, base, Front(saved))
<1> DEFINE l == Len(saved)
           c == r.contexts[l]
           kept == Front(r.contexts)
           rest == Front(saved)
           p == [r EXCEPT !.contexts = kept]
<1>1. /\ r \in Reader /\ r.contexts \in Seq(Context)
      /\ r.offset \in Nat /\ r.length \in Nat /\ r.timestamp \in Nat
  BY DEF Sound, Reader
<1>2. Len(r.contexts) = l /\ l \in Nat  BY DEF Saved
<1>3. l # 0 /\ saved # <<>>  BY <1>1, <1>2
<1>4. l \in 1 .. l /\ l \in 1 .. Len(r.contexts) /\ l - 1 \in Nat  BY <1>2, <1>3
<1>5. c \in Context /\ c.offset \in Nat /\ c.timestamp \in Nat
  BY <1>4, ContextTypes
<1>6. /\ base + c.offset = Last(saved)
      /\ c.offset < r.length \/ r.offset = r.length
      /\ c.offset <= r.length
      /\ c.timestamp = r.timestamp =>
           SamePlace(r, c.offset, c.curBufferIndex, c.curOffset)
      /\ c.offset = r.length => c.timestamp = r.timestamp
  BY <1>4 DEF Saved, Last
<1>7. /\ kept \in Seq(Context) /\ Len(kept) = l - 1
      /\ \A k \in 1 .. l - 1 : kept[k] = r.contexts[k]
  <2> HIDE DEF l, c
  <2> QED  BY <1>1, <1>2, <1>4 DEF Front
<1>8. /\ rest \in Seq(Nat) /\ Len(rest) = l - 1
      /\ \A k \in 1 .. l - 1 : rest[k] = saved[k]
  <2>1. l = Len(saved)  OBVIOUS
  <2> HIDE DEF l, c
  <2> QED  BY <2>1, <1>2, <1>4 DEF Front
<1> HIDE DEF kept, rest
<1>9. /\ p.contexts = kept
      /\ p.buffers = r.buffers /\ p.length = r.length /\ p.offset = r.offset
      /\ p.curBufferIndex = r.curBufferIndex
      /\ p.curBufferOffset = r.curBufferOffset
      /\ p.timestamp = r.timestamp
      /\ p \in Reader
  BY <1>1, <1>7 DEF Reader
<1>10. q = SetContext(p, c)  BY <1>2 DEF Popd, Last, kept
<1> HIDE DEF p, c
<1>11. BaseOf(p, bytes) = BaseOf(r, bytes)  BY <1>9 DEF BaseOf
<1>12. Sound(p, bytes)
  <2>1. Holds(p, bytes) /\ Covers(p, bytes)
    BY <1>9, <1>11 DEF Sound, Holds, Covers
  <2>2. CursorOf(p)  BY <1>9 DEF Sound, CursorOf, SamePlace
  <2> QED  BY <2>1, <2>2, <1>9 DEF Sound
<1>13. c.timestamp = p.timestamp =>
         SamePlace(p, c.offset, c.curBufferIndex, c.curOffset)
  BY <1>6, <1>9 DEF SamePlace
<1>14. c.timestamp # p.timestamp => c.offset < p.length
  BY <1>1, <1>5, <1>6, <1>9
<1>15. /\ Sound(q, bytes) /\ q.offset = c.offset
       /\ q.buffers = p.buffers /\ q.length = p.length
       /\ q.contexts = p.contexts /\ q.timestamp = p.timestamp
       /\ BaseOf(q, bytes) = BaseOf(p, bytes)
  BY <1>5, <1>10, <1>12, <1>13, <1>14, SetContextRestores
<1>16. /\ q.contexts = kept /\ q.buffers = r.buffers /\ q.length = r.length
       /\ q.timestamp = r.timestamp
  BY <1>9, <1>15
<1>17. \A offset, k, o : SamePlace(r, offset, k, o) => SamePlace(q, offset, k, o)
  BY <1>16 DEF SamePlace
<1>18. \A k \in 1 .. l - 1 :
         k \in 1 .. l /\ l \in k .. l /\ q.contexts[k] = r.contexts[k]
         /\ rest[k] = saved[k]
  BY <1>2, <1>7, <1>8, <1>16
<1>19. ASSUME NEW k \in 1 .. Len(rest)
       PROVE  LET context == q.contexts[k]
              IN /\ base + context.offset = rest[k]
                 /\ context.offset < q.length \/ q.offset = q.length
                 /\ context.offset <= q.length
                 /\ context.timestamp <= q.timestamp
                 /\ context.timestamp = q.timestamp =>
                      SamePlace(q, context.offset, context.curBufferIndex,
                                context.curOffset)
  <2>1. k \in 1 .. l - 1 /\ k \in 1 .. l  BY <1>8, <1>18
  <2>2. /\ base + r.contexts[k].offset = saved[k]
        /\ r.contexts[k].offset <= r.length
        /\ r.contexts[k].timestamp <= r.timestamp
        /\ r.contexts[k].timestamp = r.timestamp =>
             SamePlace(r, r.contexts[k].offset, r.contexts[k].curBufferIndex,
                       r.contexts[k].curOffset)
        /\ r.contexts[k].offset = r.length =>
             \A m \in k .. l : r.contexts[m].offset = r.length
    BY <2>1, <1>2 DEF Saved, l
  <2>3. r.contexts[k].offset \in Nat  BY <2>1, <1>2, ContextTypes
  <2>4. r.contexts[k].offset < q.length \/ q.offset = q.length
    <3>1. CASE r.contexts[k].offset = r.length
      <4>1. c.offset = r.length  BY <2>1, <2>2, <3>1, <1>18 DEF c
      <4> QED  BY <4>1, <1>15, <1>16
    <3>2. CASE r.contexts[k].offset # r.length
      BY <2>2, <2>3, <3>2, <1>1, <1>16, SMTT(30)
    <3> QED  BY <3>1, <3>2
  <2> QED  BY <2>1, <2>2, <2>4, <1>16, <1>17, <1>18
<1>20. ASSUME NEW j \in 1 .. Len(q.contexts), q.contexts[j].offset = q.length
       PROVE  /\ q.contexts[j].timestamp = q.timestamp
              /\ \A k \in j .. Len(q.contexts) : q.contexts[k].offset = q.length
  <2>1. j \in 1 .. l - 1 /\ j \in 1 .. l  BY <1>7, <1>16, <1>18
  <2>2. r.contexts[j].offset = r.length  BY <2>1, <1>16, <1>18, <1>20
  <2>3. /\ r.contexts[j].timestamp = r.timestamp
        /\ \A k \in j .. l : r.contexts[k].offset = r.length
    BY <2>1, <2>2, <1>2 DEF Saved
  <2>4. ASSUME NEW k \in j .. Len(q.contexts)
        PROVE  q.contexts[k].offset = q.length
    <3>1. k \in j .. l /\ k \in 1 .. l - 1  BY <2>1, <1>2, <1>7, <1>16, SMTT(30)
    <3> QED  BY <3>1, <2>3, <1>16, <1>18
  <2> QED  BY <2>1, <2>3, <2>4, <1>16, <1>18
<1>21. Len(q.contexts) = Len(rest)  BY <1>7, <1>8, <1>16
<1>22. Saved(q, base, rest)  BY <1>19, <1>20, <1>21 DEF Saved
<1> QED  BY <1>3, <1>6, <1>11, <1>15, <1>22 DEF rest

(* A reader without saved places.                                          *)
LEMMA NothingSaved ==
  ASSUME NEW q, q.contexts = <<>>, NEW base
  PROVE  Saved(q, base, <<>>)
<1>1. Len(q.contexts) = 0 /\ Len(<<>>) = 0 /\ 1 .. 0 = {}  OBVIOUS
<1> QED  BY <1>1 DEF Saved

(***************************************************************************)
(* The steps                                                               *)
(***************************************************************************)

(* A read of a number of bytes that are there, by any of the methods,      *)
(* keeps the invariant.                                                    *)
LEMMA ReadStep ==
  ASSUME IInv, NEW len \in Nat, reader.offset + len <= reader.length,
         \/ reader' = ReadBy(reader, len) /\ out' = <<ReadOut(reader, len)>>
         \/ reader' = ReadListBy(reader, len) /\ out' = ReadListOut(reader, len)
         \/ /\ len # 0 /\ reader' = ReadBy(reader, len)
            /\ out' = <<ReadArrayBufferOut(reader, len)>>,
         UNCHANGED <<arrived, places, thrown>>
  PROVE  IInv'
<1>1. Sound(reader, arrived) /\ Saved(reader, Base, places) /\ TypeOK
  BY InvForm
<1>2. /\ reader.offset \in Nat /\ reader.length \in Nat
      /\ reader.timestamp \in Nat
  BY <1>1 DEF Sound, Reader
<1>3. CASE len = 0
  <2>1. EmptyBuffer \in Buffer  BY DEF EmptyBuffer, Buffer
  <2>2. reader' = reader
    BY <1>3 DEF ReadBy, ReadListBy
  <2>3. out' = <<EmptyBuffer>>
    BY <1>3 DEF ReadOut, ReadListOut
  <2>4. out' \in Seq(Buffer)  BY <2>1, <2>3
  <2>5. Sound(reader', arrived') /\ Saved(reader', Base', places')
    BY <1>1, <2>2 DEF Base
  <2>6. TypeOK'  BY <1>1, <2>2, <2>4 DEF TypeOK
  <2> QED  BY <2>5, <2>6, InvForm
<1>4. CASE len # 0
  <2>1. len \in Nat \ {0}  BY <1>4
  <2>2. /\ ReadOut(reader, len) \in Buffer
        /\ ReadArrayBufferOut(reader, len) \in Buffer
        /\ ReadListOut(reader, len) \in Seq(Buffer)
    BY <1>1, <2>1, OutTypes
  <2>3. out' \in Seq(Buffer)  BY <2>2, SMTT(30)
  <2>4. /\ Sound(reader', arrived)
        /\ reader'.length = reader.length
        /\ reader'.contexts = reader.contexts
        /\ BaseOf(reader', arrived) = BaseOf(reader, arrived)
        /\ reader.timestamp <= reader'.timestamp
        /\ reader'.timestamp = reader.timestamp =>
             reader'.buffers = reader.buffers
    <3>1. CASE reader' = ReadBy(reader, len)
      <4>1. reader' = Consolidate(reader, len)  BY <1>4, <3>1 DEF ReadBy
      <4> QED  BY <4>1, <1>1, <2>1, ConsolidateReads
    <3>2. CASE reader' = ReadListBy(reader, len)
      <4>1. /\ Sound(reader', arrived)
            /\ reader'.length = reader.length
            /\ reader'.contexts = reader.contexts
            /\ BaseOf(reader', arrived) = BaseOf(reader, arrived)
            /\ reader'.timestamp = reader.timestamp
            /\ reader'.buffers = reader.buffers
        BY <1>1, <2>1, <3>2, ReadListMoves
      <4> QED  BY <4>1, <1>2
    <3> QED  BY <3>1, <3>2
  <2>5. reader.offset # reader.length  BY <1>2, <2>1
  <2>6. Saved(reader', Base, places)  BY <1>1, <2>4, <2>5, SavedKept
  <2>7. Sound(reader', arrived') /\ Saved(reader', Base', places')
    BY <2>4, <2>6 DEF Base
  <2>8. TypeOK'  BY <1>1, <2>3, <2>7 DEF TypeOK, Sound
  <2> QED  BY <2>7, <2>8, InvForm
<1> QED  BY <1>3, <1>4

(* Appending a buffer behind the others keeps the invariant. *)
LEMMA AppendStep ==
  ASSUME IInv, NEW size \in ChunkSizes, CallAppendBuffer(size)
  PROVE  IInv'
<1>1. Sound(reader, arrived) /\ Saved(reader, Base, places) /\ TypeOK
  BY InvForm
<1>2. size \in Nat \ {0}  BY ClientAssumption
<1>3. /\ reader' = AppendBuffer(reader, [lo |-> arrived, hi |-> arrived + size])
      /\ arrived' = arrived + size /\ out' = NoBytes
      /\ places' = places /\ thrown' = thrown
  BY DEF CallAppendBuffer
<1>4. /\ Sound(reader', arrived + size)
      /\ reader'.length = reader.length + size
      /\ reader'.contexts = reader.contexts
      /\ reader'.timestamp = reader.timestamp
      /\ BaseOf(reader', arrived + size) = BaseOf(reader, arrived)
      /\ \A offset, k, o : SamePlace(reader, offset, k, o) /\ o \in Nat =>
                             SamePlace(reader', offset, k, o)
  BY <1>1, <1>2, <1>3, AppendSound
<1>5. Saved(reader', Base, places)  BY <1>1, <1>2, <1>4, SavedAppend
<1>6. Sound(reader', arrived') /\ Saved(reader', Base', places')
  BY <1>3, <1>4, <1>5 DEF Base
<1>7. TypeOK'
  <2>1. NoBytes \in Seq(Buffer)  BY DEF NoBytes, EmptyBuffer, Buffer
  <2> QED  BY <1>1, <1>3, <1>6, <2>1 DEF TypeOK, Sound
<1> QED  BY <1>6, <1>7, InvForm

(* seek, while there are bytes left to read, keeps the invariant. *)
LEMMA SeekStep ==
  ASSUME IInv, Habits = {}, NEW to \in Int, CallSeek(to)
  PROVE  IInv'
<1>1. Sound(reader, arrived) /\ Saved(reader, Base, places) /\ TypeOK
  BY InvForm
<1>2. /\ reader.offset # reader.length
      /\ reader' = Seek(reader, to) /\ thrown' = SeekThrows(reader, to)
      /\ out' = NoBytes /\ arrived' = arrived /\ places' = places
  BY DEF CallSeek, AtEnd
<1>3. reader.offset < reader.length  BY <1>1, <1>2, OffsetInLength
<1>4. ~SeekThrows(reader, to)
  <2>1. /\ reader.curBufferIndex \in 1 .. Len(reader.buffers)
        /\ Len(reader.buffers) \in Nat
    BY <1>1, <1>3, CursorBuffer DEF Sound, Reader
  <2> QED  BY <2>1 DEF SeekThrows, PastLastBuffer
<1>5. /\ Sound(reader', arrived)
      /\ reader'.buffers = reader.buffers
      /\ reader'.length = reader.length
      /\ reader'.contexts = reader.contexts
      /\ reader'.timestamp = reader.timestamp
      /\ BaseOf(reader', arrived) = BaseOf(reader, arrived)
  BY <1>1, <1>2, <1>4, SeekGoes
<1>6. reader.timestamp <= reader'.timestamp
  BY <1>1, <1>5 DEF Sound, Reader
<1>7. Saved(reader', Base, places)  BY <1>1, <1>2, <1>5, <1>6, SavedKept
<1>8. Sound(reader', arrived') /\ Saved(reader', Base', places')
  BY <1>2, <1>5, <1>7 DEF Base
<1>9. TypeOK'
  <2>1. NoBytes \in Seq(Buffer)  BY DEF NoBytes, EmptyBuffer, Buffer
  <2>2. thrown' \in BOOLEAN
    BY <1>2, <1>4 DEF SeekThrows, SeekAccepts, PastLastBuffer
  <2> QED  BY <1>1, <1>2, <1>8, <2>1, <2>2, Zenon DEF TypeOK, Sound
<1> QED  BY <1>8, <1>9, InvForm

(* pushd keeps the invariant: the new context is at the cursor. *)
LEMMA PushdStep ==
  ASSUME IInv, CallPushd
  PROVE  IInv'
<1>1. Sound(reader, arrived) /\ Saved(reader, Base, places) /\ TypeOK
  BY InvForm
<1>2. /\ reader' = Pushd(reader) /\ places' = Append(places, Position)
      /\ out' = NoBytes /\ arrived' = arrived /\ thrown' = thrown
  BY DEF CallPushd
<1>3. /\ Base \in Nat /\ reader.offset \in Nat /\ places \in Seq(Nat)
      /\ Position = Base + reader.offset
  BY <1>1, BaseIsNat DEF Sound, Reader, Base, Position, PositionOf, TypeOK
<1>4. /\ Sound(reader', arrived)
      /\ BaseOf(reader', arrived) = BaseOf(reader, arrived)
      /\ Saved(reader', Base, Append(places, Base + reader.offset))
  BY <1>1, <1>2, <1>3, SavedPushd
<1>5. Sound(reader', arrived') /\ Saved(reader', Base', places')
  BY <1>2, <1>3, <1>4 DEF Base
<1>6. TypeOK'
  <2>1. NoBytes \in Seq(Buffer)  BY DEF NoBytes, EmptyBuffer, Buffer
  <2>2. places' \in Seq(Nat)  BY <1>2, <1>3
  <2> QED  BY <1>1, <1>2, <1>5, <2>1, <2>2 DEF TypeOK, Sound
<1> QED  BY <1>5, <1>6, InvForm

(* popd keeps the invariant, by either way of setContext. *)
LEMMA PopdStep ==
  ASSUME IInv, CallPopd
  PROVE  IInv' /\ Position' = Last(places)
<1>1. Sound(reader, arrived) /\ Saved(reader, Base, places) /\ TypeOK
  BY InvForm
<1>2. /\ reader.contexts # <<>> /\ reader' = Popd(reader)
      /\ places' = Front(places)
      /\ out' = NoBytes /\ arrived' = arrived /\ thrown' = thrown
  BY DEF CallPopd
<1>3. Base \in Nat /\ places \in Seq(Nat)
  BY <1>1, BaseIsNat DEF Base, TypeOK
<1>4. /\ Sound(reader', arrived)
      /\ places # <<>>
      /\ Base + reader'.offset = Last(places)
      /\ BaseOf(reader', arrived) = BaseOf(reader, arrived)
      /\ Saved(reader', Base, Front(places))
  BY <1>1, <1>2, <1>3, SavedPopd
<1>5. Sound(reader', arrived') /\ Saved(reader', Base', places')
  BY <1>2, <1>4 DEF Base
<1>6. TypeOK'
  <2>1. NoBytes \in Seq(Buffer)  BY DEF NoBytes, EmptyBuffer, Buffer
  <2>2. places' \in Seq(Nat)  BY <1>2, <1>3, <1>4 DEF Front
  <2> QED  BY <1>1, <1>2, <1>5, <2>1, <2>2 DEF TypeOK, Sound
<1>7. Position' = Last(places)
  BY <1>2, <1>4 DEF Position, PositionOf, Base
<1> QED  BY <1>5, <1>6, <1>7, InvForm

(* reduce keeps the invariant while no context is saved. *)
LEMMA ReduceStep ==
  ASSUME IInv, Habits = {}, CallReduce
  PROVE  IInv'
<1>1. Sound(reader, arrived) /\ Saved(reader, Base, places) /\ TypeOK
  BY InvForm
<1>2. /\ reader.contexts = <<>> /\ reader' = ReduceReader(reader)
      /\ out' = NoBytes
      /\ arrived' = arrived /\ places' = places /\ thrown' = thrown
  BY DEF CallReduce
<1>3. places = <<>>
  <2>1. Len(places) = 0  BY <1>1, <1>2 DEF Saved
  <2> QED  BY <2>1, <1>1 DEF TypeOK
<1>4. Sound(reader', arrived) /\ reader'.contexts = <<>>
  BY <1>1, <1>2, ReduceSound
<1>5. Sound(reader', arrived') /\ Saved(reader', Base', places')
  BY <1>2, <1>3, <1>4, NothingSaved
<1>6. TypeOK'
  <2>1. NoBytes \in Seq(Buffer)  BY DEF NoBytes, EmptyBuffer, Buffer
  <2> QED  BY <1>1, <1>2, <1>5, <2>1 DEF TypeOK, Sound
<1> QED  BY <1>5, <1>6, InvForm

(* reset drops the bytes and the contexts together. *)
LEMMA ResetStep ==
  ASSUME IInv, CallReset
  PROVE  IInv'
<1>1. Sound(reader, arrived) /\ TypeOK  BY InvForm
<1>2. /\ reader' = ResetReader(reader) /\ places' = <<>>
      /\ out' = NoBytes /\ arrived' = arrived /\ thrown' = thrown
  BY DEF CallReset
<1>3. arrived \in Nat /\ reader.timestamp \in Nat
  BY <1>1 DEF Sound, Reader
<1>4. Sound(reader', arrived) /\ reader'.contexts = <<>>
  BY <1>2, <1>3, ResetSound
<1>5. Sound(reader', arrived') /\ Saved(reader', Base', places')
  BY <1>2, <1>4, NothingSaved
<1>6. TypeOK'
  <2>1. NoBytes \in Seq(Buffer)  BY DEF NoBytes, EmptyBuffer, Buffer
  <2>2. places' \in Seq(Nat)  BY <1>2
  <2> QED  BY <1>1, <1>2, <1>5, <2>1, <2>2 DEF TypeOK, Sound
<1> QED  BY <1>5, <1>6, InvForm

(***************************************************************************)
(* The invariant                                                           *)
(***************************************************************************)

(* A new reader, of a stream that has not begun, is a sound one.           *)
LEMMA InitEstablishes ==
  Init => IInv
<1> SUFFICES ASSUME Init PROVE IInv  OBVIOUS
<1>1. /\ reader = NewReader /\ arrived = 0 /\ places = <<>>
      /\ out = NoBytes /\ thrown = FALSE
  BY DEF Init
<1>2. NewReader = ResetReader(NewReader) /\ NewReader.timestamp \in Nat
  BY DEF ResetReader, NewReader
<1>3. 0 \in Nat  OBVIOUS
<1>4. Sound(reader, arrived) /\ reader.contexts = <<>>
  BY <1>1, <1>2, <1>3, ResetSound
<1>5. Saved(reader, Base, places)  BY <1>1, <1>4, NothingSaved
<1>6. TypeOK
  <2>1. NoBytes \in Seq(Buffer)  BY DEF NoBytes, EmptyBuffer, Buffer
  <2>2. places \in Seq(Nat) /\ out \in Seq(Buffer)  BY <1>1, <2>1
  <2>3. reader \in Reader /\ arrived \in Nat  BY <1>4 DEF Sound
  <2>4. thrown \in BOOLEAN  BY <1>1, Zenon
  <2> QED  BY <2>2, <2>3, <2>4, Zenon DEF TypeOK
<1> QED  BY <1>4, <1>5, <1>6, InvForm

(* Every step, and every stutter, keeps the invariant. *)
LEMMA NextPreserves ==
  ASSUME Habits = {}, IInv, [Next]_vars
  PROVE  IInv'
<1>1. Sound(reader, arrived)  BY InvForm
<1>2. ASSUME NEW size \in ChunkSizes, CallAppendBuffer(size) PROVE IInv'
  BY <1>2, AppendStep
<1>3. ASSUME NEW width \in Widths, ReadNumber(width) PROVE IInv'
  <2>1. width \in Nat /\ width # 0  BY ClientAssumption
  <2>2. reader.offset + width <= reader.length
    BY <1>1, <1>3, <2>1, OffsetInLength DEF ReadNumber, CheckEOF
  <2>3. reader' = ReadBy(reader, width) /\ out' = <<ReadOut(reader, width)>>
    BY <1>3, <2>1 DEF ReadNumber, ReadBy
  <2>4. UNCHANGED <<arrived, places, thrown>>  BY <1>3 DEF ReadNumber
  <2> QED  BY <2>1, <2>2, <2>3, <2>4, ReadStep
<1>4. ASSUME NEW len \in Lens \cup {NoLen}, ReadBuffer(len) PROVE IInv'
  <2>1. len \in Int \cup {NoLen}  BY ClientAssumption
  <2>2. /\ Taken(reader, len) \in Nat
        /\ reader.offset + Taken(reader, len) <= reader.length
    BY <1>1, <2>1, TakenIsThere
  <2> QED  BY <1>4, <2>2, ReadStep DEF ReadBuffer
<1>5. ASSUME NEW len \in Lens \cup {NoLen}, ReadBufferList(len) PROVE IInv'
  <2>1. len \in Int \cup {NoLen}  BY ClientAssumption
  <2>2. /\ Taken(reader, len) \in Nat
        /\ reader.offset + Taken(reader, len) <= reader.length
    BY <1>1, <2>1, TakenIsThere
  <2> QED  BY <1>5, <2>2, ReadStep DEF ReadBufferList
<1>6. ASSUME NEW width \in Widths, ReadArrayBuffer(width) PROVE IInv'
  <2>1. width \in Nat /\ width # 0  BY ClientAssumption
  <2>2. reader.offset + width <= reader.length
    BY <1>1, <1>6, <2>1, OffsetInLength DEF ReadArrayBuffer, CheckEOF
  <2>3. /\ reader' = ReadBy(reader, width)
        /\ out' = <<ReadArrayBufferOut(reader, width)>>
    BY <1>6, <2>1 DEF ReadArrayBuffer, ReadBy
  <2>4. UNCHANGED <<arrived, places, thrown>>  BY <1>6 DEF ReadArrayBuffer
  <2> QED  BY <2>1, <2>2, <2>3, <2>4, ReadStep
<1>7. ASSUME NEW to \in -1 .. MaxBytes, CallSeek(to) PROVE IInv'
  <2>1. to \in Int  BY ClientAssumption
  <2> QED  BY <1>7, <2>1, SeekStep
<1>8. CASE UNCHANGED vars
  BY <1>8, InvForm DEF vars, TypeOK, Base
<1> QED
  BY <1>2, <1>3, <1>4, <1>5, <1>6, <1>7, <1>8,
     PushdStep, PopdStep, ReduceStep, ResetStep DEF Next

(* Whatever buffers the bytes arrive in and whatever is called, the reader *)
(* holds one piece of the stream, its latest, its two cursors agree, and   *)
(* each context pushd saved still designates the byte it was saved at.     *)
THEOREM InvariantHolds ==
  ASSUME Habits = {}
  PROVE  Spec => []IInv
<1>1. Init => IInv  BY InitEstablishes
<1>2. IInv /\ [Next]_vars => IInv'  BY NextPreserves
<1> QED  BY <1>1, <1>2, PTL DEF Spec

(* Every field of the reader, and what each call returns, has its type.    *)
THEOREM TypeCorrect ==
  ASSUME Habits = {}
  PROVE  Spec => []TypeOK
<1>1. IInv => TypeOK  BY DEF IInv
<1> QED  BY <1>1, InvariantHolds, PTL

(* The buffers stay one piece of the stream and `length` what they hold.   *)
THEOREM StreamIsHeld ==
  ASSUME Habits = {}
  PROVE  Spec => []HoldsTheStream
<1>1. IInv => HoldsTheStream  BY DEF IInv
<1> QED  BY <1>1, InvariantHolds, PTL

(* The two forms of the cursor never drift apart.                          *)
THEOREM CursorAlwaysAgrees ==
  ASSUME Habits = {}
  PROVE  Spec => []CursorAgrees
<1>1. IInv => CursorAgrees  BY DEF IInv
<1> QED  BY <1>1, InvariantHolds, PTL

(* A saved context designates its byte until it is popped.                 *)
THEOREM SavedPlacesAlwaysAgree ==
  ASSUME Habits = {}
  PROVE  Spec => []SavedPlacesAgree
<1>1. IInv => SavedPlacesAgree  BY DEF IInv
<1> QED  BY <1>1, InvariantHolds, PTL

(***************************************************************************)
(* The refinement: each step is a step of the stream                       *)
(***************************************************************************)

(* A list of one buffer is that buffer, and no bytes are none.             *)
LEMMA WholeOne ==
  /\ \A buffer : Whole(<<buffer>>) = [lo |-> buffer.lo, hi |-> buffer.hi]
  /\ Whole(NoBytes) = Stream!Nothing
<1>1. ASSUME NEW buffer
      PROVE  Whole(<<buffer>>) = [lo |-> buffer.lo, hi |-> buffer.hi]
  <2>1. Len(<<buffer>>) = 1 /\ 1 .. 1 - 1 = {}  OBVIOUS
  <2>2. Contiguous(<<buffer>>)  BY <2>1 DEF Contiguous
  <2> QED  BY <2>1, <2>2 DEF Whole
<1> QED  BY <1>1 DEF NoBytes, EmptyBuffer, Stream!Nothing

(* A read of bytes that are there is a Read of the stream. *)
LEMMA ReadRefines ==
  ASSUME IInv, NEW len \in Nat, reader.offset + len <= reader.length,
         \/ reader' = ReadBy(reader, len) /\ out' = <<ReadOut(reader, len)>>
         \/ reader' = ReadListBy(reader, len) /\ out' = ReadListOut(reader, len)
         \/ /\ len # 0 /\ reader.curBufferOffset = 0
            /\ reader' = ReadBy(reader, len)
            /\ out' = <<ReadArrayBufferOut(reader, len)>>,
         UNCHANGED <<arrived, places, thrown>>
  PROVE  len \in 0 .. arrived - Position /\ Stream!Read(len)
<1>1. Sound(reader, arrived)  BY InvForm
<1>2. /\ reader.offset \in Nat /\ reader.length \in Nat
  BY <1>1 DEF Sound, Reader
<1>3. /\ arrived \in Nat /\ Base \in Nat /\ Position = Base + reader.offset
      /\ Position \in Nat
      /\ reader.length - reader.offset = arrived - Position
  BY <1>1, Positions DEF Base, Position
<1>4. len \in 0 .. arrived - Position  BY <1>2, <1>3
<1>5. SUFFICES Stream!Read(len)  BY <1>4
<1>6. CASE len = 0
  <2>1. reader' = reader /\ out' = NoBytes
    BY <1>6 DEF ReadBy, ReadListBy, ReadOut, ReadListOut, NoBytes
  <2>2. Position' = Position /\ Base' = Base
    BY <2>1 DEF Position, Base
  <2>3. Whole(out') = Stream!Nothing  BY <2>1, WholeOne
  <2> QED  BY <2>2, <2>3, <1>3, <1>6 DEF Stream!Read
<1>7. CASE len # 0
  <2> DEFINE bytes == [lo |-> Position, hi |-> Position + len]
  <2>1. len \in Nat \ {0}  BY <1>7
  <2>2. CASE /\ reader' = ReadBy(reader, len)
             /\ \/ out' = <<ReadOut(reader, len)>>
                \/ /\ reader.curBufferOffset = 0
                   /\ out' = <<ReadArrayBufferOut(reader, len)>>
    <3>1. reader' = Consolidate(reader, len)  BY <1>7, <2>2 DEF ReadBy
    <3>2. /\ reader'.offset = reader.offset + len
          /\ BaseOf(reader', arrived) = BaseOf(reader, arrived)
          /\ ReadOut(reader, len) = bytes
      BY <3>1, <1>1, <2>1, ConsolidateReads DEF Position
    <3>3. Base' = Base /\ Position' = Position + len
      BY <3>2, <1>2, <1>3 DEF Base, Position, PositionOf
    <3>4. reader.curBufferOffset = 0 =>
            ReadArrayBufferOut(reader, len) = ReadOut(reader, len)
      BY <1>7 DEF ReadArrayBufferOut, ReadOut
    <3>5. out' = <<bytes>>  BY <2>2, <3>2, <3>4
    <3>6. Whole(out') = [lo |-> bytes.lo, hi |-> bytes.hi]
      <4> HIDE DEF bytes
      <4> QED  BY <3>5, WholeOne
    <3>7. Whole(out') = bytes  BY <3>6
    <3> QED  BY <3>3, <3>7, <1>7 DEF Stream!Read
  <2>3. CASE reader' = ReadListBy(reader, len) /\ out' = ReadListOut(reader, len)
    <3>1. /\ reader'.offset = reader.offset + len
          /\ BaseOf(reader', arrived) = BaseOf(reader, arrived)
      BY <1>1, <2>1, <2>3, ReadListMoves
    <3>2. Base' = Base /\ Position' = Position + len
      BY <3>1, <1>2, <1>3 DEF Base, Position, PositionOf
    <3>3. Whole(out') = bytes
      <4> HIDE DEF bytes
      <4>1. /\ out' # <<>> /\ Contiguous(out')
            /\ out'[1].lo = Position /\ out'[Len(out')].hi = Position + len
        BY <1>1, <2>1, <2>3, ListPieces DEF Position
      <4> QED  BY <4>1 DEF Whole, bytes
    <3> QED  BY <3>2, <3>3, <1>7 DEF Stream!Read
  <2> QED  BY <2>2, <2>3
<1> QED  BY <1>6, <1>7

(* appendBuffer is an Arrive of the stream, and moves no position. *)
LEMMA AppendRefines ==
  ASSUME IInv, NEW size \in ChunkSizes, CallAppendBuffer(size)
  PROVE  Stream!Arrive
<1>1. Sound(reader, arrived)  BY InvForm
<1>2. size \in Nat \ {0}  BY ClientAssumption
<1>3. /\ reader' = AppendBuffer(reader, [lo |-> arrived, hi |-> arrived + size])
      /\ arrived' = arrived + size /\ out' = NoBytes /\ places' = places
  BY DEF CallAppendBuffer
<1>4. /\ reader'.offset = reader.offset
      /\ BaseOf(reader', arrived + size) = BaseOf(reader, arrived)
  BY <1>1, <1>2, <1>3, AppendSound
<1>5. Base' = Base /\ Position' = Position
  BY <1>3, <1>4 DEF Base, Position, PositionOf
<1>6. Whole(out') = Stream!Nothing  BY <1>3, WholeOne
<1>7. arrived' \in Nat /\ arrived' > arrived  BY <1>1, <1>2, <1>3 DEF Sound
<1> QED  BY <1>3, <1>5, <1>6, <1>7 DEF Stream!Arrive

(* seek is a Move of the stream. *)
LEMMA SeekRefines ==
  ASSUME IInv, Habits = {}, NEW to \in Int, CallSeek(to)
  PROVE  Stream!Move
<1>1. Sound(reader, arrived)  BY InvForm
<1>2. /\ reader.offset # reader.length
      /\ reader' = Seek(reader, to)
      /\ out' = NoBytes /\ arrived' = arrived /\ places' = places
  BY DEF CallSeek, AtEnd
<1>3. reader.offset < reader.length  BY <1>1, <1>2, OffsetInLength
<1>4. ~SeekThrows(reader, to)
  <2>1. /\ reader.curBufferIndex \in 1 .. Len(reader.buffers)
        /\ Len(reader.buffers) \in Nat
    BY <1>1, <1>3, CursorBuffer DEF Sound, Reader
  <2> QED  BY <2>1 DEF SeekThrows, PastLastBuffer
<1>5. /\ Sound(reader', arrived)
      /\ BaseOf(reader', arrived) = BaseOf(reader, arrived)
  BY <1>1, <1>2, <1>4, SeekGoes
<1>6. Base' = Base  BY <1>2, <1>5 DEF Base
<1>7. Position' \in Base .. arrived
  <2>1. PositionOf(reader', arrived) \in BaseOf(reader', arrived) .. arrived
    BY <1>5, Positions
  <2> QED  BY <2>1, <1>2, <1>5 DEF Position, Base
<1>8. Whole(out') = Stream!Nothing  BY <1>2, WholeOne
<1> QED  BY <1>2, <1>6, <1>7, <1>8 DEF Stream!Move

(* pushd is a Save of the stream. *)
LEMMA PushdRefines ==
  ASSUME IInv, CallPushd
  PROVE  Stream!Save
<1>1. Sound(reader, arrived) /\ Saved(reader, Base, places) /\ TypeOK
  BY InvForm
<1>2. /\ reader' = Pushd(reader) /\ places' = Append(places, Position)
      /\ out' = NoBytes /\ arrived' = arrived
  BY DEF CallPushd
<1>3. Base \in Nat /\ places \in Seq(Nat)
  BY <1>1, BaseIsNat DEF Base, TypeOK
<1>4. /\ reader'.offset = reader.offset
      /\ BaseOf(reader', arrived) = BaseOf(reader, arrived)
  BY <1>1, <1>2, <1>3, SavedPushd
<1>5. Base' = Base /\ Position' = Position
  BY <1>2, <1>4 DEF Base, Position, PositionOf
<1>6. Whole(out') = Stream!Nothing  BY <1>2, WholeOne
<1> QED  BY <1>2, <1>5, <1>6 DEF Stream!Save

(* popd is a Restore of the stream: it goes to the last place saved. *)
LEMMA PopdRefines ==
  ASSUME IInv, CallPopd
  PROVE  Stream!Restore
<1>1. Sound(reader, arrived) /\ Saved(reader, Base, places) /\ TypeOK
  BY InvForm
<1>2. /\ reader.contexts # <<>> /\ reader' = Popd(reader)
      /\ places' = Front(places) /\ out' = NoBytes /\ arrived' = arrived
  BY DEF CallPopd
<1>3. Base \in Nat /\ places \in Seq(Nat)
  BY <1>1, BaseIsNat DEF Base, TypeOK
<1>4. /\ places # <<>> /\ Base + reader'.offset = Last(places)
      /\ BaseOf(reader', arrived) = BaseOf(reader, arrived)
  BY <1>1, <1>2, <1>3, SavedPopd, ZenonT(60)
<1>5. Base' = Base /\ Position' = Last(places)
  BY <1>2, <1>4 DEF Base, Position, PositionOf
<1>6. Whole(out') = Stream!Nothing  BY <1>2, WholeOne
<1> QED
  BY <1>2, <1>4, <1>5, <1>6 DEF Stream!Restore, Last, Front, Stream!Last, Stream!Front

(* reduce is a Release of the stream: of read bytes only. *)
LEMMA ReduceRefines ==
  ASSUME IInv, Habits = {}, CallReduce
  PROVE  Stream!Release
<1>1. Sound(reader, arrived)  BY InvForm
<1>2. /\ reader.contexts = <<>> /\ reader' = ReduceReader(reader)
      /\ out' = NoBytes /\ arrived' = arrived /\ places' = places
  BY DEF CallReduce
<1>3. /\ Sound(reader', arrived)
      /\ PositionOf(reader', arrived) = PositionOf(reader, arrived)
      /\ BaseOf(reader, arrived) <= BaseOf(reader', arrived)
  BY <1>1, <1>2, ReduceSound
<1>4. Position' = Position  BY <1>2, <1>3 DEF Position
<1>5. Base' \in Base .. Position
  <2>1. /\ BaseOf(reader', arrived) \in Nat
        /\ PositionOf(reader', arrived) \in BaseOf(reader', arrived) .. arrived
        /\ arrived \in Nat /\ BaseOf(reader, arrived) \in Nat
    BY <1>1, <1>3, Positions
  <2> QED  BY <2>1, <1>2, <1>3 DEF Position, Base
<1>6. Whole(out') = Stream!Nothing  BY <1>2, WholeOne
<1> QED  BY <1>2, <1>4, <1>5, <1>6 DEF Stream!Release

(* reset is a Forget of the stream. *)
LEMMA ResetRefines ==
  ASSUME IInv, CallReset
  PROVE  Stream!Forget
<1>1. Sound(reader, arrived)  BY InvForm
<1>2. /\ reader' = ResetReader(reader) /\ places' = <<>>
      /\ out' = NoBytes /\ arrived' = arrived
  BY DEF CallReset
<1>3. arrived \in Nat /\ reader.timestamp \in Nat
  BY <1>1 DEF Sound, Reader
<1>4. BaseOf(reader', arrived) = arrived /\ reader'.offset = 0
  BY <1>2, <1>3, ResetSound
<1>5. Base' = arrived /\ Position' = arrived
  BY <1>2, <1>3, <1>4 DEF Base, Position, PositionOf
<1>6. Whole(out') = Stream!Nothing  BY <1>2, WholeOne
<1> QED  BY <1>2, <1>5, <1>6 DEF Stream!Forget

(* A new reader is a new stream. *)
LEMMA InitRefines ==
  Init => Stream!Init
<1> SUFFICES ASSUME Init PROVE Stream!Init  OBVIOUS
<1>1. /\ reader = NewReader /\ arrived = 0 /\ places = <<>> /\ out = NoBytes
  BY DEF Init
<1>2. reader.buffers = <<>> /\ reader.offset = 0  BY <1>1 DEF NewReader
<1>3. Base = 0 /\ Position = 0
  BY <1>1, <1>2 DEF Base, BaseOf, Position, PositionOf
<1>4. Whole(out) = Stream!Nothing  BY <1>1, WholeOne
<1> QED  BY <1>1, <1>3, <1>4 DEF Stream!Init

(* Every step of the reader is a step of the stream or none. *)
LEMMA NextRefines ==
  ASSUME Habits = {}, IInv, [Next]_vars
  PROVE  [Stream!Next]_(Stream!vars)
<1>1. Sound(reader, arrived)  BY InvForm
<1>2. ASSUME NEW size \in ChunkSizes, CallAppendBuffer(size)
      PROVE  Stream!Next
  BY <1>2, AppendRefines DEF Stream!Next
<1>3. ASSUME NEW width \in Widths, ReadNumber(width) PROVE Stream!Next
  <2>1. width \in Nat /\ width # 0  BY ClientAssumption
  <2>2. reader.offset + width <= reader.length
    BY <1>1, <1>3, <2>1, OffsetInLength DEF ReadNumber, CheckEOF
  <2>3. reader' = ReadBy(reader, width) /\ out' = <<ReadOut(reader, width)>>
    BY <1>3, <2>1 DEF ReadNumber, ReadBy
  <2>4. UNCHANGED <<arrived, places, thrown>>  BY <1>3 DEF ReadNumber
  <2> QED  BY <2>1, <2>2, <2>3, <2>4, ReadRefines DEF Stream!Next
<1>4. ASSUME NEW len \in Lens \cup {NoLen}, ReadBuffer(len) PROVE Stream!Next
  <2>1. len \in Int \cup {NoLen}  BY ClientAssumption
  <2>2. /\ Taken(reader, len) \in Nat
        /\ reader.offset + Taken(reader, len) <= reader.length
    BY <1>1, <2>1, TakenIsThere
  <2> QED  BY <1>4, <2>2, ReadRefines DEF ReadBuffer, Stream!Next
<1>5. ASSUME NEW len \in Lens \cup {NoLen}, ReadBufferList(len)
      PROVE  Stream!Next
  <2>1. len \in Int \cup {NoLen}  BY ClientAssumption
  <2>2. /\ Taken(reader, len) \in Nat
        /\ reader.offset + Taken(reader, len) <= reader.length
    BY <1>1, <2>1, TakenIsThere
  <2> QED  BY <1>5, <2>2, ReadRefines DEF ReadBufferList, Stream!Next
<1>6. ASSUME NEW width \in Widths, ReadArrayBuffer(width) PROVE Stream!Next
  <2>1. width \in Nat /\ width # 0  BY ClientAssumption
  <2>2. reader.offset + width <= reader.length
    BY <1>1, <1>6, <2>1, OffsetInLength DEF ReadArrayBuffer, CheckEOF
  <2>3. /\ reader' = ReadBy(reader, width)
        /\ reader.curBufferOffset = 0
        /\ out' = <<ReadArrayBufferOut(reader, width)>>
    BY <1>6, <2>1 DEF ReadArrayBuffer, ReadBy
  <2>4. UNCHANGED <<arrived, places, thrown>>  BY <1>6 DEF ReadArrayBuffer
  <2> QED  BY <2>1, <2>2, <2>3, <2>4, ReadRefines DEF Stream!Next
<1>7. ASSUME NEW to \in -1 .. MaxBytes, CallSeek(to) PROVE Stream!Next
  <2>1. to \in Int  BY ClientAssumption
  <2> QED  BY <1>7, <2>1, SeekRefines DEF Stream!Next
<1>8. CASE UNCHANGED vars
  BY <1>8 DEF vars, Stream!vars, Base, Position
<1> QED
  BY <1>2, <1>3, <1>4, <1>5, <1>6, <1>7, <1>8,
     PushdRefines, PopdRefines, ReduceRefines, ResetRefines
     DEF Next, Stream!Next

(* However the bytes are cut into buffers, a client without the harmful    *)
(* habits cannot tell the reader from a stream: reads return the next      *)
(* bytes, popd returns to the matching pushd, only read bytes are          *)
(* released.                                                               *)
THEOREM ReaderImplementsStream ==
  ASSUME Habits = {}
  PROVE  Spec => ImplementsStream
<1>1. Init => Stream!Init  BY InitRefines
<1>2. IInv /\ [Next]_vars => [Stream!Next]_(Stream!vars)  BY NextRefines
<1>3. Spec => []IInv  BY InvariantHolds
<1> QED  BY <1>1, <1>2, <1>3, PTL DEF Spec, ImplementsStream, Stream!Spec

(***************************************************************************)
(* What a harmful habit is needed for                                      *)
(***************************************************************************)

(* A read of len bytes returns those from the cursor on, unless they are   *)
(* none.                                                                   *)
LEMMA StreamReadsNext ==
  ASSUME IInv, NEW len \in Nat, Stream!Read(len), len = 0 => out' = NoBytes
  PROVE  out' # NoBytes => Whole(out') = [lo |-> Position, hi |-> Position']
<1> SUFFICES ASSUME len # 0 PROVE Whole(out') = [lo |-> Position, hi |-> Position']
  OBVIOUS
<1> QED  BY DEF Stream!Read

(* A step that returns bytes returns those the cursor moves over.          *)
LEMMA StepReadsNext ==
  ASSUME Habits = {}, IInv, Next
  PROVE  out' # NoBytes => Whole(out') = [lo |-> Position, hi |-> Position']
<1> SUFFICES ASSUME out' # NoBytes
             PROVE  Whole(out') = [lo |-> Position, hi |-> Position']
  OBVIOUS
<1>1. Sound(reader, arrived)  BY InvForm
<1>2. ASSUME NEW width \in Widths, ReadNumber(width) \/ ReadArrayBuffer(width)
      PROVE  Whole(out') = [lo |-> Position, hi |-> Position']
  <2>1. width \in Nat /\ width # 0  BY ClientAssumption
  <2>2. reader.offset + width <= reader.length
    BY <1>1, <1>2, <2>1, OffsetInLength DEF ReadNumber, ReadArrayBuffer, CheckEOF
  <2>3. reader' = ReadBy(reader, width)
    BY <1>2, <2>1 DEF ReadNumber, ReadArrayBuffer, ReadBy
  <2>4. \/ out' = <<ReadOut(reader, width)>>
        \/ /\ reader.curBufferOffset = 0
           /\ out' = <<ReadArrayBufferOut(reader, width)>>
    BY <1>2 DEF ReadNumber, ReadArrayBuffer
  <2>5. UNCHANGED <<arrived, places, thrown>>
    BY <1>2 DEF ReadNumber, ReadArrayBuffer
  <2>6. Stream!Read(width)  BY <2>1, <2>2, <2>3, <2>4, <2>5, ReadRefines
  <2> QED  BY <2>1, <2>6, StreamReadsNext
<1>3. ASSUME NEW len \in Lens \cup {NoLen}, ReadBuffer(len) \/ ReadBufferList(len)
      PROVE  Whole(out') = [lo |-> Position, hi |-> Position']
  <2>1. len \in Int \cup {NoLen}  BY ClientAssumption
  <2> DEFINE taken == Taken(reader, len)
  <2>2. taken \in Nat /\ reader.offset + taken <= reader.length
    BY <1>1, <2>1, TakenIsThere
  <2>3. /\ \/ reader' = ReadBy(reader, taken) /\ out' = <<ReadOut(reader, taken)>>
           \/ reader' = ReadListBy(reader, taken) /\ out' = ReadListOut(reader, taken)
        /\ UNCHANGED <<arrived, places, thrown>>
    BY <1>3 DEF ReadBuffer, ReadBufferList
  <2> HIDE DEF taken
  <2>4. Stream!Read(taken)  BY <2>2, <2>3, ReadRefines
  <2>5. taken = 0 => out' = NoBytes
    BY <2>3 DEF ReadOut, ReadListOut, NoBytes
  <2> QED  BY <2>2, <2>4, <2>5, StreamReadsNext
<1>4. \/ \E width \in Widths : ReadNumber(width) \/ ReadArrayBuffer(width)
      \/ \E len \in Lens \cup {NoLen} : ReadBuffer(len) \/ ReadBufferList(len)
  BY DEF Next, CallAppendBuffer, CallSeek, CallPushd, CallPopd, CallReduce, CallReset
<1> QED  BY <1>2, <1>3, <1>4

(* Without readArrayBuffer in the middle of a buffer, a call that returns  *)
(* bytes returns those that come next, and leaves the cursor behind them.  *)
(* (_consolidate, readBufferList)                                          *)
THEOREM ReadsAlwaysReturnTheNextBytes ==
  ASSUME Habits = {}
  PROVE  Spec => ReadsTheNextBytes
<1>1. ASSUME IInv, [Next]_vars
      PROVE  [out' # NoBytes =>
                Whole(out') = [lo |-> Position, hi |-> Position']]_vars
  BY <1>1, StepReadsNext
<1>2. Spec => []IInv  BY InvariantHolds
<1> QED  BY <1>1, <1>2, PTL DEF Spec, ReadsTheNextBytes

(* Without seek at the end, no call dereferences a buffer that is not      *)
(* there. (seek)                                                           *)
THEOREM NoCallThrows ==
  ASSUME Habits = {}
  PROVE  Spec => []NeverThrows
<1>1. Init => NeverThrows  BY DEF Init, NeverThrows
<1>2. ASSUME IInv, NeverThrows, [Next]_vars PROVE NeverThrows'
  <2>1. Sound(reader, arrived)  BY <1>2, InvForm
  <2>2. ASSUME NEW to \in -1 .. MaxBytes, CallSeek(to) PROVE ~thrown'
    <3>1. thrown' = SeekThrows(reader, to) /\ reader.offset # reader.length
      BY <2>2 DEF CallSeek, AtEnd
    <3>2. reader.offset < reader.length  BY <2>1, <3>1, OffsetInLength
    <3>3. /\ reader.curBufferIndex \in 1 .. Len(reader.buffers)
          /\ Len(reader.buffers) \in Nat
      BY <2>1, <3>2, CursorBuffer DEF Sound, Reader
    <3>4. ~SeekThrows(reader, to)  BY <3>3 DEF SeekThrows, PastLastBuffer
    <3> QED  BY <3>1, <3>4
  <2>3. \/ thrown' = thrown
        \/ \E to \in -1 .. MaxBytes : CallSeek(to)
    BY <1>2 DEF Next, vars, CallAppendBuffer, ReadNumber, ReadBuffer, ReadBufferList,
                ReadArrayBuffer, CallPushd, CallPopd, CallReduce, CallReset
  <2> QED  BY <1>2, <2>2, <2>3 DEF NeverThrows
<1>3. Spec => []IInv  BY InvariantHolds
<1> QED  BY <1>1, <1>2, <1>3, PTL DEF Spec

(***************************************************************************)
(* The loops of BufferListReader end where BufferList says. Each proof     *)
(* writes down the state after every turn, and shows that a turn leads     *)
(* from one to the next.                                                   *)
(***************************************************************************)

(***************************************************************************)
(* seek                                                                    *)
(***************************************************************************)

(* The reader with its cursor sent to a byte and looked for from the k-th  *)
(* buffer: the place in it is negative before it, too large behind it.     *)
SeenFrom(r, to, byte, k) == MoveTo(r, to, k, byte - r.buffers[k].lo)

(* A turn of the first loop of seek moves on from a buffer that ends at or *)
(* before the byte, one of the second from a buffer that starts behind it. *)
LEMMA TurnsMove ==
  ASSUME NEW r \in Reader, NEW to \in Int, NEW byte \in Int,
         NEW k \in 1 .. Len(r.buffers)
  PROVE  LET q == SeenFrom(r, to, byte, k)
             b == r.buffers
         IN /\ byte < b[k].hi => ForwardTurn(q) = q
            /\ byte >= b[k].lo => BackwardTurn(q) = q
            /\ k < Len(b) /\ b[k].hi = b[k + 1].lo /\ byte >= b[k].hi =>
                 ForwardTurn(q) = SeenFrom(r, to, byte, k + 1)
            /\ k > 1 /\ b[k - 1].hi = b[k].lo /\ byte < b[k].lo =>
                 BackwardTurn(q) = SeenFrom(r, to, byte, k - 1)
<1> DEFINE b == r.buffers
           q == SeenFrom(r, to, byte, k)
<1>1. /\ q.buffers = b
      /\ q.curBufferIndex = k
      /\ q.curBufferOffset = byte - b[k].lo
  BY DEF SeenFrom, MoveTo, Reader
<1>2. b \in Seq(Buffer) /\ Len(b) \in Nat  BY DEF Reader
<1>3. \A i \in 1 .. Len(b) : b[i].lo \in Nat /\ b[i].hi \in Nat
  BY <1>2, BuffersTyped
<1>4. b[k].lo \in Nat /\ b[k].hi \in Nat  BY <1>3
<1>5. Size(CurBuffer(q)) = b[k].hi - b[k].lo  BY <1>1 DEF Size, CurBuffer
<1>6. ASSUME byte < b[k].hi PROVE ForwardTurn(q) = q
  <2>1. ~(q.curBufferOffset >= Size(CurBuffer(q)))  BY <1>1, <1>4, <1>5, <1>6
  <2> QED  BY <2>1 DEF ForwardTurn
<1>7. ASSUME byte >= b[k].lo PROVE BackwardTurn(q) = q
  <2>1. ~(q.curBufferOffset < 0)  BY <1>1, <1>4, <1>7
  <2> QED  BY <2>1 DEF BackwardTurn
<1>8. ASSUME k < Len(b), b[k].hi = b[k + 1].lo, byte >= b[k].hi
      PROVE ForwardTurn(q) = SeenFrom(r, to, byte, k + 1)
  <2>1. q.curBufferOffset >= Size(CurBuffer(q))  BY <1>1, <1>4, <1>5, <1>8
  <2>2. ForwardTurn(q) = [q EXCEPT !.curBufferOffset = @ - Size(CurBuffer(q)),
                                   !.curBufferIndex = @ + 1]
    BY <2>1 DEF ForwardTurn
  <2>3. q.curBufferOffset - Size(CurBuffer(q)) = byte - b[k + 1].lo
    BY <1>1, <1>4, <1>5, <1>8
  <2> QED  BY <1>1, <2>2, <2>3 DEF SeenFrom, MoveTo, Reader
<1>9. ASSUME k > 1, b[k - 1].hi = b[k].lo, byte < b[k].lo
      PROVE BackwardTurn(q) = SeenFrom(r, to, byte, k - 1)
  <2>1. q.curBufferOffset < 0  BY <1>1, <1>4, <1>9
  <2>2. BackwardTurn(q) =
          [q EXCEPT !.curBufferIndex = @ - 1,
                    !.curBufferOffset = @ + Size(q.buffers[q.curBufferIndex - 1])]
    BY <2>1 DEF BackwardTurn
  <2>3. k - 1 \in 1 .. Len(b)  BY <1>2, <1>9
  <2>4. Size(q.buffers[q.curBufferIndex - 1]) = b[k].lo - b[k - 1].lo
    BY <1>1, <1>9 DEF Size
  <2>5. b[k - 1].lo \in Nat  BY <1>3, <2>3
  <2>6. q.curBufferOffset + Size(q.buffers[q.curBufferIndex - 1])
          = byte - b[k - 1].lo
    BY <1>1, <1>4, <2>4, <2>5, SMTT(30)
  <2> QED  BY <1>1, <2>2, <2>6 DEF SeenFrom, MoveTo, Reader
<1> QED  BY <1>6, <1>7, <1>8, <1>9

(* The first loop ends in the buffer that holds the byte, or stays where   *)
(* it is when that one is before.                                          *)
LEMMA ForwardEnds ==
  ASSUME NEW r, NEW arrivedBytes, Sound(r, arrivedBytes), NEW to \in Int,
         NEW byte \in Int, NEW i \in 1 .. Len(r.buffers),
         NEW h \in 1 .. Len(r.buffers),
         r.buffers[h].lo <= byte, byte < r.buffers[h].hi
  PROVE  WalkForward(SeenFrom(r, to, byte, i)) =
           SeenFrom(r, to, byte, IF i < h THEN h ELSE i)
<1> DEFINE b == r.buffers
           N == Len(b)
           q == SeenFrom(r, to, byte, i)
           last == IF i < h THEN h ELSE i
           idx(turn) == IF i + turn <= last THEN i + turn ELSE last
           closed == [turn \in 0 .. N |-> SeenFrom(r, to, byte, idx(turn))]
           Turns(f) == [turn \in 0 .. N |->
                          IF turn = 0 THEN q ELSE ForwardTurn(f[turn - 1])]
           at == CHOOSE f : f = Turns(f)
<1>1. /\ b \in Seq(Buffer)
      /\ N \in Nat
      /\ \A k \in 1 .. N : b[k].lo \in Nat /\ b[k].hi \in Nat
      /\ \A k \in 1 .. N : b[k].lo <= b[k].hi
      /\ \A k \in 1 .. N - 1 : b[k].hi = b[k + 1].lo
      /\ \A k, m \in 1 .. N : k < m => b[k].hi <= b[m].lo
  BY Order
<1>2. r \in Reader  BY DEF Sound
<1>3. q.buffers = b  BY <1>2 DEF SeenFrom, MoveTo, Reader
<1>4. last \in 1 .. N /\ i <= last /\ i \in Nat /\ last \in Nat  BY <1>1
<1>5. byte < b[last].hi
  <2>1. CASE i < h  BY <2>1
  <2>2. CASE i = h  BY <2>2
  <2>3. CASE h < i
    <3>1. b[h].hi <= b[i].lo /\ b[i].lo <= b[i].hi  BY <1>1, <2>3
    <3> QED  BY <1>1, <1>4, <2>3, <3>1
  <2> QED  BY <1>1, <2>1, <2>2, <2>3
<1>6. \A turn \in 0 .. N : idx(turn) \in 1 .. N /\ idx(turn) <= last  BY <1>1, <1>4
<1>7. closed[0] = q  BY <1>1, <1>4
<1>8. ASSUME NEW turn \in 1 .. N PROVE closed[turn] = ForwardTurn(closed[turn - 1])
  <2>1. turn - 1 \in 0 .. N /\ turn \in 0 .. N  BY <1>1
  <2>2. closed[turn - 1] = SeenFrom(r, to, byte, idx(turn - 1))
        /\ closed[turn] = SeenFrom(r, to, byte, idx(turn))
    BY <2>1
  <2> DEFINE k == idx(turn - 1)
  <2>3. k \in 1 .. N /\ k <= last  BY <1>6, <2>1
  <2>6. b[k].lo \in Nat /\ b[k].hi \in Nat /\ b[h].lo \in Nat  BY <1>1, <2>3
  <2>7. k = IF i + (turn - 1) <= last THEN i + (turn - 1) ELSE last  OBVIOUS
  <2> HIDE DEF k
  <2>4. CASE k = last
    <3>1. idx(turn) = last  BY <1>4, <2>1, <2>4, <2>7
    <3>2. ForwardTurn(SeenFrom(r, to, byte, k)) = SeenFrom(r, to, byte, k)
      BY <1>2, <1>5, <2>3, <2>4, TurnsMove
    <3> QED  BY <2>2, <2>4, <2>7, <3>1, <3>2
  <2>5. CASE k < last
    <3>1. k = i + (turn - 1) /\ idx(turn) = k + 1  BY <1>4, <2>1, <2>5, <2>7
    <3>2. i < h /\ last = h  BY <1>4, <2>1, <2>5, <3>1
    <3>3. b[k].hi <= b[h].lo  BY <1>1, <2>3, <2>5, <3>2
    <3>4. byte >= b[k].hi  BY <2>6, <3>3
    <3>5. k < Len(b) /\ k \in 1 .. N - 1  BY <1>1, <1>4, <2>3, <2>5
    <3>7. b[k].hi = b[k + 1].lo  BY <1>1, <3>5
    <3>6. ForwardTurn(SeenFrom(r, to, byte, k)) = SeenFrom(r, to, byte, k + 1)
      BY <1>2, <2>3, <3>4, <3>5, <3>7, TurnsMove
    <3> QED  BY <2>2, <2>7, <3>1, <3>6
  <2> QED  BY <1>4, <2>3, <2>4, <2>5
<1>9. closed = Turns(closed)
  <2>1. closed = [turn \in 0 .. N |-> closed[turn]]  OBVIOUS
  <2> HIDE DEF closed
  <2>2. \A turn \in 0 .. N :
          closed[turn] = IF turn = 0 THEN q ELSE ForwardTurn(closed[turn - 1])
    <3> SUFFICES ASSUME NEW turn \in 0 .. N
                 PROVE  closed[turn] = IF turn = 0 THEN q
                                       ELSE ForwardTurn(closed[turn - 1])
      OBVIOUS
    <3>1. CASE turn = 0  BY <1>7, <3>1
    <3>2. CASE turn # 0
      <4>1. turn \in 1 .. N  BY <1>1, <3>2
      <4> QED  BY <1>8, <3>2, <4>1
    <3> QED  BY <3>1, <3>2
  <2> QED  BY <2>1, <2>2
<1>10. at = Turns(at)  BY <1>9
<1> HIDE DEF closed, at
<1>11. at[0] = q /\ \A turn \in 1 .. N : at[turn] = ForwardTurn(at[turn - 1])
  <2>1. \A turn \in 0 .. N :
          at[turn] = IF turn = 0 THEN q ELSE ForwardTurn(at[turn - 1])
    BY <1>10
  <2> QED  BY <1>1, <2>1
<1>12. at[N] = closed[N]
  <2> DEFINE S == {turn \in 0 .. N : at[turn] = closed[turn]}
  <2>1. 0 \in S  BY <1>1, <1>7, <1>11
  <2>2. ASSUME NEW n \in 0 .. N - 1, n \in S PROVE n + 1 \in S
    <3>1. n + 1 \in 1 .. N /\ (n + 1) - 1 = n  BY <1>1
    <3>2. at[n + 1] = ForwardTurn(at[n]) /\ closed[n + 1] = ForwardTurn(closed[n])
      BY <1>8, <1>11, <3>1
    <3> QED  BY <1>1, <2>2, <3>1, <3>2
  <2> HIDE DEF S
  <2>3. 0 .. N \subseteq S  BY <1>1, <2>1, <2>2, IntervalInduction
  <2> QED  BY <1>1, <2>3 DEF S
<1>13. WalkForward(q) = at[N]  BY <1>3 DEF WalkForward, at
<1>14. idx(N) = last  BY <1>1, <1>4
<1> QED  BY <1>1, <1>12, <1>13, <1>14 DEF closed

(* The second loop goes back from there to the buffer that holds the byte. *)
LEMMA BackwardEnds ==
  ASSUME NEW r, NEW arrivedBytes, Sound(r, arrivedBytes), NEW to \in Int,
         NEW byte \in Int, NEW h \in 1 .. Len(r.buffers),
         NEW i \in h .. Len(r.buffers),
         r.buffers[h].lo <= byte, byte < r.buffers[h].hi
  PROVE  WalkBackward(SeenFrom(r, to, byte, i)) =
           SeenFrom(r, to, byte, h)
<1> DEFINE b == r.buffers
           N == Len(b)
           q == SeenFrom(r, to, byte, i)
           idx(turn) == IF i - turn >= h THEN i - turn ELSE h
           closed == [turn \in 0 .. N |-> SeenFrom(r, to, byte, idx(turn))]
           Turns(f) == [turn \in 0 .. N |->
                          IF turn = 0 THEN q ELSE BackwardTurn(f[turn - 1])]
           at == CHOOSE f : f = Turns(f)
<1>1. /\ b \in Seq(Buffer)
      /\ N \in Nat
      /\ \A k \in 1 .. N : b[k].lo \in Nat /\ b[k].hi \in Nat
      /\ \A k \in 1 .. N : b[k].lo <= b[k].hi
      /\ \A k \in 1 .. N - 1 : b[k].hi = b[k + 1].lo
      /\ \A k, m \in 1 .. N : k < m => b[k].hi <= b[m].lo
  BY Order
<1>2. r \in Reader  BY DEF Sound
<1>3. q.buffers = b  BY <1>2 DEF SeenFrom, MoveTo, Reader
<1>4. i \in 1 .. N /\ h \in Nat /\ i \in Nat /\ h <= i  BY <1>1
<1>6. \A turn \in 0 .. N : idx(turn) \in 1 .. N /\ idx(turn) >= h  BY <1>1, <1>4
<1>7. closed[0] = q  BY <1>1, <1>4
<1>8. ASSUME NEW turn \in 1 .. N PROVE closed[turn] = BackwardTurn(closed[turn - 1])
  <2>1. turn - 1 \in 0 .. N /\ turn \in 0 .. N  BY <1>1
  <2>2. closed[turn - 1] = SeenFrom(r, to, byte, idx(turn - 1))
        /\ closed[turn] = SeenFrom(r, to, byte, idx(turn))
    BY <2>1
  <2> DEFINE k == idx(turn - 1)
  <2>3. k \in 1 .. N /\ k >= h  BY <1>6, <2>1
  <2>6. b[k].lo \in Nat /\ b[k].hi \in Nat /\ b[h].hi \in Nat  BY <1>1, <2>3
  <2>7. k = IF i - (turn - 1) >= h THEN i - (turn - 1) ELSE h  OBVIOUS
  <2> HIDE DEF k
  <2>4. CASE k = h
    <3>1. idx(turn) = h  BY <1>4, <2>1, <2>4, <2>7
    <3>2. BackwardTurn(SeenFrom(r, to, byte, k)) = SeenFrom(r, to, byte, k)
      BY <1>2, <2>3, <2>4, TurnsMove
    <3> QED  BY <2>2, <2>4, <2>7, <3>1, <3>2
  <2>5. CASE k > h
    <3>1. k = i - (turn - 1) /\ idx(turn) = k - 1  BY <1>4, <2>1, <2>5, <2>7
    <3>3. b[h].hi <= b[k].lo  BY <1>1, <2>3, <2>5
    <3>4. byte < b[k].lo  BY <2>6, <3>3
    <3>5. k > 1 /\ k - 1 \in 1 .. N - 1 /\ (k - 1) + 1 = k
      BY <1>1, <1>4, <2>3, <2>5
    <3>7. b[k - 1].hi = b[k].lo  BY <1>1, <3>5
    <3>6. BackwardTurn(SeenFrom(r, to, byte, k)) = SeenFrom(r, to, byte, k - 1)
      BY <1>2, <2>3, <3>4, <3>5, <3>7, TurnsMove
    <3> QED  BY <2>2, <2>7, <3>1, <3>6
  <2> QED  BY <1>4, <2>3, <2>4, <2>5
<1>9. closed = Turns(closed)
  <2>1. closed = [turn \in 0 .. N |-> closed[turn]]  OBVIOUS
  <2> HIDE DEF closed
  <2>2. \A turn \in 0 .. N :
          closed[turn] = IF turn = 0 THEN q ELSE BackwardTurn(closed[turn - 1])
    <3> SUFFICES ASSUME NEW turn \in 0 .. N
                 PROVE  closed[turn] = IF turn = 0 THEN q
                                       ELSE BackwardTurn(closed[turn - 1])
      OBVIOUS
    <3>1. CASE turn = 0  BY <1>7, <3>1
    <3>2. CASE turn # 0
      <4>1. turn \in 1 .. N  BY <1>1, <3>2
      <4> QED  BY <1>8, <3>2, <4>1
    <3> QED  BY <3>1, <3>2
  <2> QED  BY <2>1, <2>2
<1>10. at = Turns(at)  BY <1>9
<1> HIDE DEF closed, at
<1>11. at[0] = q /\ \A turn \in 1 .. N : at[turn] = BackwardTurn(at[turn - 1])
  <2>1. \A turn \in 0 .. N :
          at[turn] = IF turn = 0 THEN q ELSE BackwardTurn(at[turn - 1])
    BY <1>10
  <2> QED  BY <1>1, <2>1
<1>12. at[N] = closed[N]
  <2> DEFINE S == {turn \in 0 .. N : at[turn] = closed[turn]}
  <2>1. 0 \in S  BY <1>1, <1>7, <1>11
  <2>2. ASSUME NEW n \in 0 .. N - 1, n \in S PROVE n + 1 \in S
    <3>1. n + 1 \in 1 .. N /\ (n + 1) - 1 = n  BY <1>1
    <3>2. at[n + 1] = BackwardTurn(at[n]) /\ closed[n + 1] = BackwardTurn(closed[n])
      BY <1>8, <1>11, <3>1
    <3> QED  BY <1>1, <2>2, <3>1, <3>2
  <2> HIDE DEF S
  <2>3. 0 .. N \subseteq S  BY <1>1, <2>1, <2>2, IntervalInduction
  <2> QED  BY <1>1, <2>3 DEF S
<1>13. WalkBackward(q) = at[N]  BY <1>3 DEF WalkBackward, at
<1>14. idx(N) = h  BY <1>1, <1>4
<1> QED  BY <1>1, <1>12, <1>13, <1>14 DEF closed
(* seek walks to the one buffer that holds the byte, from wherever the     *)
(* cursor is.                                                              *)
LEMMA SeekWalks ==
  ASSUME NEW r, NEW arrivedBytes, Sound(r, arrivedBytes), r.offset < r.length,
         NEW to \in Nat, to < r.length, to # r.offset
  PROVE  SeekLoop(r, to) = Seek(r, to)
<1> DEFINE b == r.buffers
           i == r.curBufferIndex
           byte == Target(r, to)
           h == Holding(b, byte)
<1>1. /\ i \in 1 .. Len(b)
      /\ r.curBufferOffset \in Nat
      /\ CurBuffer(r).lo + r.curBufferOffset = PositionOf(r, arrivedBytes)
  BY CursorBuffer
<1>2. /\ r \in Reader /\ r.offset \in Nat /\ r.length \in Nat
      /\ arrivedBytes \in Nat
  BY DEF Sound, Reader
<1>3. /\ b[i].lo \in Nat /\ b[1].lo \in Nat
      /\ BaseOf(r, arrivedBytes) = b[1].lo
      /\ b # <<>>
  BY <1>1, Bounds
<1>4. Len(b) \in Nat  BY Order
<1>5. r.length = arrivedBytes - b[1].lo
  BY <1>3 DEF Sound, Holds
<1>6. byte = b[1].lo + to
  <2>1. byte = (b[i].lo + r.curBufferOffset) + (to - r.offset)
    BY DEF Target, CurBuffer
  <2>2. b[i].lo + r.curBufferOffset = b[1].lo + r.offset
    BY <1>1, <1>3 DEF PositionOf, CurBuffer
  <2>3. byte = (b[1].lo + r.offset) + (to - r.offset)  BY <2>1, <2>2
  <2> HIDE DEF b, byte
  <2> QED  BY <1>2, <1>3, <2>3
<1>7. byte \in BaseOf(r, arrivedBytes) .. arrivedBytes - 1 /\ byte \in Nat
  <2> DEFINE lo == b[1].lo
             held == r.length
  <2>1. lo \in Nat /\ held \in Nat /\ to < held /\ held = arrivedBytes - lo
        /\ byte = lo + to /\ BaseOf(r, arrivedBytes) = lo
    BY <1>2, <1>3, <1>5, <1>6
  <2> HIDE DEF lo, held, byte
  <2> QED  BY <1>2, <2>1
<1>8. h \in 1 .. Len(b) /\ b[h].lo <= byte /\ byte < b[h].hi
  <2>1. \E k \in 1 .. Len(b) : b[k].lo <= byte /\ byte < b[k].hi
    BY <1>7 DEF Sound, Covers
  <2> HIDE DEF b, byte
  <2> QED  BY <2>1 DEF Holding
<1>9. MoveTo(r, to, i, r.curBufferOffset + (to - r.offset)) = SeenFrom(r, to, byte, i)
  <2>1. byte - b[i].lo = r.curBufferOffset + (to - r.offset)
    BY <1>1, <1>2, <1>3, SMTT(30) DEF Target, CurBuffer
  <2> QED  BY <2>1 DEF SeenFrom
<1>10. Seek(r, to) = SeenFrom(r, to, byte, h)
  <2>1. SeekAccepts(r, to)  BY DEF SeekAccepts
  <2>2. ~SeekThrows(r, to)
    BY <1>1, <1>4 DEF SeekThrows, PastLastBuffer
  <2> QED  BY <2>1, <2>2 DEF Seek, SeenFrom
<1> HIDE DEF i, byte, h
<1> DEFINE last == IF i < h THEN h ELSE i
<1>11. WalkForward(SeenFrom(r, to, byte, i)) = SeenFrom(r, to, byte, last)
  BY <1>1, <1>7, <1>8, ForwardEnds
<1>12. last \in h .. Len(b)  BY <1>1, <1>4, <1>8
<1> HIDE DEF last
<1>13. WalkBackward(SeenFrom(r, to, byte, last)) = SeenFrom(r, to, byte, h)
  BY <1>7, <1>8, <1>12, BackwardEnds
<1> QED  BY <1>9, <1>10, <1>11, <1>13 DEF SeekLoop, i

(***************************************************************************)
(* _consolidate and readBufferList                                         *)
(***************************************************************************)

(* The buffers that a read spans: each but the last ends before the bytes  *)
(* wanted do.                                                              *)
LEMMA Spanned ==
  ASSUME NEW r, NEW arrivedBytes, Sound(r, arrivedBytes),
         NEW len \in Nat \ {0}, r.offset + len <= r.length,
         NEW b, b = r.buffers, NEW i, i = r.curBufferIndex,
         NEW j, j = LastSpanned(r, len),
         NEW upto, upto = r.curBufferOffset + len,
         NEW pos, pos = PositionOf(r, arrivedBytes)
  PROVE  /\ Len(b) \in Nat /\ i \in 1 .. Len(b) /\ j \in i .. Len(b)
         /\ i \in Nat /\ j \in Nat /\ upto \in Nat
         /\ \A k \in 1 .. Len(b) :
              b[k] \in Buffer /\ b[k].lo \in Nat /\ b[k].hi \in Nat
         /\ \A k \in i .. j - 1 : b[k].hi = b[k + 1].lo
         /\ \A k \in i .. j - 1 : b[k].hi - b[i].lo < upto
         /\ b[j].lo - b[i].lo < upto
         /\ upto <= b[j].hi - b[i].lo
<1>1. /\ b \in Seq(Buffer) /\ Len(b) \in Nat
      /\ i \in 1 .. Len(b) /\ j \in i .. Len(b) /\ j \in 1 .. Len(b)
      /\ b[i].lo \in Nat /\ b[j].lo \in Nat
      /\ upto \in Nat
      /\ b[j].lo - b[i].lo < upto
      /\ upto <= b[j].hi - b[i].lo
  <2>1. b \in Seq(Buffer) /\ Len(b) \in Nat  BY ReadReaches
  <2>2. i \in 1 .. Len(b)  BY ReadReaches
  <2>3. j \in i .. Len(b) /\ j \in 1 .. Len(b)  BY ReadReaches
  <2>4. b[i].lo \in Nat /\ b[j].lo \in Nat  BY ReadReaches
  <2>5. upto \in Nat  BY ReadReaches
  <2>6. b[j].lo - b[i].lo < upto  BY ReadReaches
  <2>7. upto <= b[j].hi - b[i].lo  BY ReadReaches
  <2> QED  BY <2>1, <2>2, <2>3, <2>4, <2>5, <2>6, <2>7
<1>2. /\ \A k \in 1 .. Len(b) - 1 : b[k].hi = b[k + 1].lo
      /\ \A k, m \in 1 .. Len(b) : k < m => b[k].hi <= b[m].lo
  BY Order
<1>3. \A k \in 1 .. Len(b) : b[k] \in Buffer /\ b[k].lo \in Nat /\ b[k].hi \in Nat
  BY <1>1, BuffersTyped
<1>4. \A k \in i .. j - 1 : k \in 1 .. Len(b) - 1 /\ k \in 1 .. Len(b) /\ k < j
  BY <1>1
<1>5. ASSUME NEW k \in i .. j - 1 PROVE b[k].hi - b[i].lo < upto
  <2>1. b[k].hi <= b[j].lo  BY <1>1, <1>2, <1>4
  <2>2. b[k].hi \in Nat /\ b[i].lo \in Nat /\ b[j].lo \in Nat /\ upto \in Nat
    BY <1>1, <1>3, <1>4
  <2>3. b[j].lo - b[i].lo < upto  BY <1>1
  <2> QED  BY <2>1, <2>2, <2>3
<1> QED  BY <1>1, <1>2, <1>3, <1>4, <1>5

(* What was accumulated after c buffers. *)
Gathered(b, i, c) ==
  [count |-> c, bufferLength |-> IF c = 0 THEN 0 ELSE b[i + c - 1].hi - b[i].lo]

(* _consolidate gathers the buffers up to the one LastSpanned names, and   *)
(* counts their bytes.                                                     *)
LEMMA Accumulates ==
  ASSUME NEW r, NEW arrivedBytes, Sound(r, arrivedBytes),
         NEW len \in Nat \ {0}, r.offset + len <= r.length,
         NEW i, i = r.curBufferIndex, NEW j, j = LastSpanned(r, len),
         NEW upto, upto = r.curBufferOffset + len
  PROVE  Accumulate(r, upto) = Gathered(r.buffers, i, j - i + 1)
<1> DEFINE b == r.buffers
           N == Len(b)
           C == j - i + 1
           cnt(turn) == IF turn <= C THEN turn ELSE C
           zero == [count |-> 0, bufferLength |-> 0]
           closed == [turn \in 0 .. N |-> Gathered(b, i, cnt(turn))]
           Turns(f) == [turn \in 0 .. N |->
                          IF turn = 0 THEN zero
                          ELSE AccumulateTurn(r, upto, f[turn - 1])]
           at == CHOOSE f : f = Turns(f)
<1>1. /\ N \in Nat /\ i \in 1 .. N /\ j \in i .. N
      /\ i \in Nat /\ j \in Nat /\ upto \in Nat
      /\ \A k \in 1 .. N : b[k].lo \in Nat /\ b[k].hi \in Nat
      /\ \A k \in i .. j - 1 : b[k].hi = b[k + 1].lo
      /\ \A k \in i .. j - 1 : b[k].hi - b[i].lo < upto
      /\ upto <= b[j].hi - b[i].lo
  <2> DEFINE pos == PositionOf(r, arrivedBytes)
  <2>1. b = r.buffers /\ pos = PositionOf(r, arrivedBytes)  OBVIOUS
  <2> HIDE DEF b, pos
  <2>2. Len(b) \in Nat /\ i \in 1 .. Len(b)  BY <2>1, Spanned
  <2>3. j \in i .. Len(b)  BY <2>1, Spanned
  <2>4. i \in Nat /\ j \in Nat /\ upto \in Nat  BY <2>1, Spanned
  <2>5. \A k \in 1 .. Len(b) : b[k].lo \in Nat /\ b[k].hi \in Nat
    BY <2>1, Spanned
  <2>6. \A k \in i .. j - 1 : b[k].hi = b[k + 1].lo  BY <2>1, Spanned
  <2>7. \A k \in i .. j - 1 : b[k].hi - b[i].lo < upto  BY <2>1, Spanned
  <2>8. upto <= b[j].hi - b[i].lo  BY <2>1, Spanned
  <2> QED  BY <2>2, <2>3, <2>4, <2>5, <2>6, <2>7, <2>8
<1>2. C \in Nat /\ C >= 1 /\ C <= N /\ i + C - 1 = j  BY <1>1, SMTT(30)
<1> HIDE DEF b, N, C
<1>3. ASSUME NEW c \in 0 .. C - 1
      PROVE  AccumulateTurn(r, upto, Gathered(b, i, c)) = Gathered(b, i, c + 1)
  <2>1. i + c <= Len(r.buffers) /\ i + c \in 1 .. N /\ (i + (c + 1)) - 1 = i + c
    <3>1. i + c <= N /\ i + c \in 1 .. N /\ (i + (c + 1)) - 1 = i + c
      BY <1>1, <1>2
    <3> QED  BY <3>1 DEF N, b
  <2>2. b[i].lo \in Nat /\ b[i + c].lo \in Nat /\ b[i + c].hi \in Nat
    BY <1>1, <2>1
  <2> DEFINE sum == Gathered(b, i, c)
  <2>3. sum.count = c  BY DEF Gathered
  <2>4. ~(sum.count > 0 /\ upto <= sum.bufferLength)
    <3>1. CASE c = 0  BY <2>3, <3>1
    <3>2. CASE c # 0
      <4>1. sum.bufferLength = b[(i + c) - 1].hi - b[i].lo
        BY <1>1, <3>2 DEF Gathered
      <4>2. (i + c) - 1 \in i .. j - 1 /\ (i + c) - 1 \in 1 .. N  BY <1>1, <1>2, <3>2
      <4>3. b[(i + c) - 1].hi - b[i].lo < upto /\ b[(i + c) - 1].hi \in Nat
        BY <1>1, <4>2
      <4> QED  BY <1>1, <2>2, <4>1, <4>3
    <3> QED  BY <3>1, <3>2
  <2>5. sum.bufferLength + Size(r.buffers[i + c]) = b[i + c].hi - b[i].lo
    <3>1. Size(r.buffers[i + c]) = b[i + c].hi - b[i + c].lo  BY DEF Size, b
    <3>2. CASE c = 0
      <4>1. sum.bufferLength = 0 /\ i + c = i  BY <1>1, <3>2 DEF Gathered
      <4> QED  BY <2>2, <3>1, <4>1
    <3>3. CASE c # 0
      <4>1. sum.bufferLength = b[(i + c) - 1].hi - b[i].lo
        BY <1>1, <3>3 DEF Gathered
      <4>2. (i + c) - 1 \in i .. j - 1 /\ ((i + c) - 1) + 1 = i + c
        BY <1>1, <1>2, <3>3
      <4>3. b[(i + c) - 1].hi = b[i + c].lo  BY <1>1, <4>2
      <4> QED  BY <2>2, <3>1, <4>1, <4>3
    <3> QED  BY <3>2, <3>3
  <2>6. AccumulateTurn(r, upto, sum) =
          [count |-> c + 1, bufferLength |-> b[i + c].hi - b[i].lo]
    <3>1. r.curBufferIndex + sum.count = i + c  BY <2>3
    <3>2. ~(i + c > Len(r.buffers))  BY <2>1, <1>1 DEF N, b
    <3> HIDE DEF sum
    <3> QED  BY <2>3, <2>4, <2>5, <3>1, <3>2 DEF AccumulateTurn
  <2>7. c + 1 # 0  OBVIOUS
  <2> QED  BY <2>1, <2>6, <2>7 DEF Gathered
<1>4. AccumulateTurn(r, upto, Gathered(b, i, C)) = Gathered(b, i, C)
  <2>1. Gathered(b, i, C).count = C /\ C > 0 /\ C # 0  BY <1>2 DEF Gathered
  <2>2. Gathered(b, i, C).bufferLength = b[j].hi - b[i].lo
    BY <1>2, <2>1 DEF Gathered
  <2> QED  BY <1>1, <2>1, <2>2 DEF AccumulateTurn
<1>5. closed[0] = zero  BY <1>1, <1>2 DEF Gathered
<1>6. ASSUME NEW turn \in 1 .. N
      PROVE  closed[turn] = AccumulateTurn(r, upto, closed[turn - 1])
  <2>1. turn - 1 \in 0 .. N /\ turn \in 0 .. N  BY <1>1
  <2>2. closed[turn - 1] = Gathered(b, i, cnt(turn - 1))
        /\ closed[turn] = Gathered(b, i, cnt(turn))
    BY <2>1
  <2>3. CASE turn <= C
    <3>1. cnt(turn - 1) = turn - 1 /\ cnt(turn) = turn /\ turn - 1 \in 0 .. C - 1
          /\ (turn - 1) + 1 = turn
      BY <1>1, <1>2, <2>3
    <3> QED  BY <1>3, <2>2, <3>1
  <2>4. CASE turn > C
    <3>1. cnt(turn - 1) = C /\ cnt(turn) = C  BY <1>1, <1>2, <2>4
    <3> QED  BY <1>4, <2>2, <3>1
  <2> QED  BY <1>1, <1>2, <2>3, <2>4
<1>7. closed = Turns(closed)
  <2>1. closed = [turn \in 0 .. N |-> closed[turn]]  OBVIOUS
  <2> HIDE DEF closed
  <2>2. \A turn \in 0 .. N :
          closed[turn] = IF turn = 0 THEN zero
                         ELSE AccumulateTurn(r, upto, closed[turn - 1])
    <3> SUFFICES ASSUME NEW turn \in 0 .. N
                 PROVE  closed[turn] = IF turn = 0 THEN zero
                                  ELSE AccumulateTurn(r, upto, closed[turn - 1])
      OBVIOUS
    <3>1. CASE turn = 0  BY <1>5, <3>1
    <3>2. CASE turn # 0
      <4>1. turn \in 1 .. N  BY <1>1, <3>2
      <4> QED  BY <1>6, <3>2, <4>1
    <3> QED  BY <3>1, <3>2
  <2> QED  BY <2>1, <2>2
<1>8. at = Turns(at)  BY <1>7
<1> HIDE DEF closed, at
<1>9. at[0] = zero /\ \A turn \in 1 .. N : at[turn] = AccumulateTurn(r, upto, at[turn - 1])
  <2>1. \A turn \in 0 .. N :
          at[turn] = IF turn = 0 THEN zero ELSE AccumulateTurn(r, upto, at[turn - 1])
    BY <1>8
  <2> QED  BY <1>1, <2>1
<1>10. at[N] = closed[N]
  <2> DEFINE S == {turn \in 0 .. N : at[turn] = closed[turn]}
  <2>1. 0 \in S  BY <1>1, <1>5, <1>9
  <2>2. ASSUME NEW n \in 0 .. N - 1, n \in S PROVE n + 1 \in S
    <3>1. n + 1 \in 1 .. N /\ (n + 1) - 1 = n  BY <1>1
    <3>2. /\ at[n + 1] = AccumulateTurn(r, upto, at[n])
          /\ closed[n + 1] = AccumulateTurn(r, upto, closed[n])
      BY <1>6, <1>9, <3>1
    <3> QED  BY <1>1, <2>2, <3>1, <3>2
  <2> HIDE DEF S
  <2>3. 0 .. N \subseteq S  BY <1>1, <2>1, <2>2, IntervalInduction
  <2> QED  BY <1>1, <2>3 DEF S
<1>11. Accumulate(r, upto) = at[N]  BY DEF Accumulate, at, N, b
<1>12. cnt(N) = C  BY <1>1, <1>2
<1> QED  BY <1>1, <1>10, <1>11, <1>12 DEF closed, C, b

(* What readBufferList has taken when it is at the k-th buffer: all of     *)
(* those before the last, and of the last what is still wanted.            *)
TakenTo(r, len, k) ==
  LET b == r.buffers
      i == r.curBufferIndex
      j == LastSpanned(r, len)
      upto == r.curBufferOffset + len
  IN [index |-> k,
      place |-> IF k < j THEN b[k].hi - b[k].lo ELSE upto - (b[j].lo - b[i].lo),
      left |-> IF k < j THEN upto - (b[k].hi - b[i].lo) ELSE 0,
      pieces |-> SubSeq(ReadListOut(r, len), 1, k - i + 1)]

(* The part of a buffer up to a position, which ends the buffer or not.    *)
LEMMA PartOfBuffer ==
  ASSUME NEW buffer, buffer.lo \in Nat, buffer.hi \in Nat,
         NEW start \in Int, NEW end \in Int, NEW to \in Int, buffer.lo + end = to
  PROVE  /\ buffer.hi <= to =>
              Subarray(buffer, start, end) = [lo |-> buffer.lo + start, hi |-> buffer.hi]
         /\ to <= buffer.hi =>
              Subarray(buffer, start, end) = [lo |-> buffer.lo + start, hi |-> to]
BY DEF Subarray

(* readBufferList starts with a piece of the buffer under the cursor.      *)
LEMMA FirstPieceTaken ==
  ASSUME NEW r, NEW arrivedBytes, Sound(r, arrivedBytes),
         NEW len \in Nat \ {0}, r.offset + len <= r.length
  PROVE  FirstPiece(r, len) = TakenTo(r, len, r.curBufferIndex)
<1> DEFINE b == r.buffers
           i == r.curBufferIndex
           j == LastSpanned(r, len)
           o == r.curBufferOffset
           upto == o + len
           pos == PositionOf(r, arrivedBytes)
           parts == ReadListOut(r, len)
           piece == Subarray(b[i], o, upto)
<1>1. /\ b = r.buffers /\ i = r.curBufferIndex /\ j = LastSpanned(r, len)
      /\ upto = r.curBufferOffset + len /\ pos = PositionOf(r, arrivedBytes)
  OBVIOUS
<1>2. o \in Nat /\ len \in Nat /\ len # 0  BY DEF Sound, Reader
<1>3. parts \in Seq(Buffer) /\ parts # <<>>
  <2> HIDE DEF parts
  <2> QED  BY ListPieces DEF parts
<1>4. parts = [p \in 1 .. j - i + 1 |->
               Subarray(b[i + p - 1], IF p = 1 THEN o ELSE 0,
                        upto - (b[i + p - 1].lo - b[i].lo))]
  BY <1>2 DEF ReadListOut
<1>5. FirstPiece(r, len) = [index |-> i, place |-> o + Size(piece),
                            left |-> len - Size(piece), pieces |-> <<piece>>]
  BY DEF FirstPiece, CurBuffer
<1>6. TakenTo(r, len, i) =
        [index |-> i,
         place |-> IF i < j THEN b[i].hi - b[i].lo ELSE upto - (b[j].lo - b[i].lo),
         left |-> IF i < j THEN upto - (b[i].hi - b[i].lo) ELSE 0,
         pieces |-> SubSeq(parts, 1, i - i + 1)]
  BY DEF TakenTo
<1>7. upto = o + len  OBVIOUS
<1> HIDE DEF b, i, j, upto, pos, parts, o
<1>8. i \in 1 .. Len(b) /\ j \in i .. Len(b) /\ Len(b) \in Nat  BY <1>1, Spanned
<1>9. i \in Nat /\ j \in Nat /\ upto \in Nat  BY <1>1, Spanned
<1>10. \A k \in 1 .. Len(b) : b[k].lo \in Nat /\ b[k].hi \in Nat  BY <1>1, Spanned
<1>11. \A k \in i .. j - 1 : b[k].hi - b[i].lo < upto  BY <1>1, Spanned
<1>12. upto <= b[j].hi - b[i].lo  BY <1>1, Spanned
<1>13. b[i].lo \in Nat /\ b[i].hi \in Nat  BY <1>8, <1>10
<1>14. b[i].lo + upto \in Nat  BY <1>9, <1>13
<1>15. SubSeq(parts, 1, i - i + 1) = <<piece>>
  <2>1. i - i + 1 = 1  BY <1>9
  <2>2. 1 \in 1 .. j - i + 1 /\ i + 1 - 1 = i  BY <1>8, <1>9
  <2>3. b[i].lo - b[i].lo = 0 /\ upto - 0 = upto  BY <1>9, <1>13
  <2>4. parts[1] = piece  BY <1>4, <2>2, <2>3
  <2>5. Len(parts) \in Nat /\ 1 <= Len(parts)  BY <1>3, BuffersTyped
  <2>6. SubSeq(parts, 1, 1) = <<parts[1]>>
    <3> DEFINE s == SubSeq(parts, 1, 1)
    <3>1. s \in Seq(Buffer) /\ Len(s) = 1 /\ s[1] = parts[1]
      <4>1. 1 \in 1 .. Len(parts) + 1 /\ 1 \in 0 .. Len(parts)  BY <2>5
      <4>2. /\ s \in Seq(Buffer)
            /\ Len(s) = IF 1 <= 1 THEN 1 - 1 + 1 ELSE 0
            /\ \A k \in 1 .. 1 - 1 + 1 : s[k] = parts[1 + k - 1]
        BY <1>3, <2>5, SubSeqProperties
      <4> QED  BY <4>2
    <3> HIDE DEF s
    <3>2. s = <<s[1]>>  BY <3>1
    <3> QED  BY <3>1, <3>2 DEF s
  <2> QED  BY <2>1, <2>4, <2>6
<1>16. CASE i < j
  <2>1. i \in i .. j - 1  BY <1>8, <1>9, <1>16
  <2>2. b[i].hi - b[i].lo < upto  BY <1>11, <2>1
  <2>3. b[i].hi <= b[i].lo + upto  BY <1>9, <1>13, <2>2
  <2>4. piece = [lo |-> b[i].lo + o, hi |-> b[i].hi]
    BY <1>2, <1>9, <1>13, <1>14, <2>3, PartOfBuffer
  <2>5. Size(piece) = b[i].hi - (b[i].lo + o)  BY <2>4 DEF Size
  <2>6. /\ o + Size(piece) = b[i].hi - b[i].lo
        /\ len - Size(piece) = upto - (b[i].hi - b[i].lo)
    BY <1>2, <1>7, <1>13, <2>5
  <2>7. TakenTo(r, len, i) =
          [index |-> i, place |-> b[i].hi - b[i].lo,
           left |-> upto - (b[i].hi - b[i].lo), pieces |-> <<piece>>]
    BY <1>6, <1>15, <1>16
  <2> HIDE DEF piece
  <2>8. FirstPiece(r, len) =
          [index |-> i, place |-> b[i].hi - b[i].lo,
           left |-> upto - (b[i].hi - b[i].lo), pieces |-> <<piece>>]
    BY <1>5, <2>6
  <2> QED  BY <1>1, <2>7, <2>8
<1>17. CASE i = j
  <2>1. b[i].lo + upto <= b[i].hi  BY <1>9, <1>12, <1>13, <1>17
  <2>2. piece = [lo |-> b[i].lo + o, hi |-> b[i].lo + upto]
    BY <1>2, <1>9, <1>13, <1>14, <2>1, PartOfBuffer
  <2>3. Size(piece) = (b[i].lo + upto) - (b[i].lo + o)  BY <2>2 DEF Size
  <2>4. /\ o + Size(piece) = upto - (b[j].lo - b[i].lo)
        /\ len - Size(piece) = 0
    BY <1>2, <1>7, <1>13, <1>17, <2>3
  <2>5. ~(i < j)  BY <1>9, <1>17
  <2>7. TakenTo(r, len, i) =
          [index |-> i, place |-> upto - (b[j].lo - b[i].lo),
           left |-> 0, pieces |-> <<piece>>]
    BY <1>6, <1>15, <2>5
  <2> HIDE DEF piece
  <2>8. FirstPiece(r, len) =
          [index |-> i, place |-> upto - (b[j].lo - b[i].lo),
           left |-> 0, pieces |-> <<piece>>]
    BY <1>5, <2>4
  <2> QED  BY <1>1, <2>7, <2>8
<1> QED  BY <1>8, <1>9, <1>16, <1>17

(* A turn of its loop takes a piece of the next buffer, or the whole of    *)
(* it, until it has been in the last.                                      *)
LEMMA PieceTurnTakes ==
  ASSUME NEW r, NEW arrivedBytes, Sound(r, arrivedBytes),
         NEW len \in Nat \ {0}, r.offset + len <= r.length,
         NEW k \in r.curBufferIndex .. LastSpanned(r, len)
  PROVE  PieceTurn(r, TakenTo(r, len, k)) =
           TakenTo(r, len, IF k < LastSpanned(r, len) THEN k + 1 ELSE k)
<1> DEFINE b == r.buffers
           i == r.curBufferIndex
           j == LastSpanned(r, len)
           o == r.curBufferOffset
           upto == o + len
           pos == PositionOf(r, arrivedBytes)
           parts == ReadListOut(r, len)
           left == upto - (b[k].hi - b[i].lo)
           piece == Subarray(b[k + 1], 0, left)
           State(n) ==
             [index |-> n,
              place |-> IF n < j THEN b[n].hi - b[n].lo ELSE upto - (b[j].lo - b[i].lo),
              left |-> IF n < j THEN upto - (b[n].hi - b[i].lo) ELSE 0,
              pieces |-> SubSeq(parts, 1, n - i + 1)]
<1>1. /\ b = r.buffers /\ i = r.curBufferIndex /\ j = LastSpanned(r, len)
      /\ upto = r.curBufferOffset + len /\ pos = PositionOf(r, arrivedBytes)
  OBVIOUS
<1>2. o \in Nat /\ len \in Nat /\ len # 0  BY DEF Sound, Reader
<1>3. parts \in Seq(Buffer) /\ parts # <<>>
  <2> HIDE DEF parts
  <2> QED  BY ListPieces DEF parts
<1>4. parts = [p \in 1 .. j - i + 1 |->
               Subarray(b[i + p - 1], IF p = 1 THEN o ELSE 0,
                        upto - (b[i + p - 1].lo - b[i].lo))]
  BY <1>2 DEF ReadListOut
<1>5. \A n : TakenTo(r, len, n) = State(n)  BY DEF TakenTo
<1>6. k \in i .. j  OBVIOUS
<1> HIDE DEF b, i, j, upto, pos, parts, o
<1>8. i \in 1 .. Len(b) /\ j \in i .. Len(b) /\ Len(b) \in Nat  BY <1>1, Spanned
<1>9. i \in Nat /\ j \in Nat /\ upto \in Nat  BY <1>1, Spanned
<1>10. \A n \in 1 .. Len(b) : b[n].lo \in Nat /\ b[n].hi \in Nat  BY <1>1, Spanned
<1>11. \A n \in i .. j - 1 : b[n].hi - b[i].lo < upto  BY <1>1, Spanned
<1>12. upto <= b[j].hi - b[i].lo  BY <1>1, Spanned
<1>13. \A n \in i .. j - 1 : b[n].hi = b[n + 1].lo  BY <1>1, Spanned, SMTT(30)
<1>14. k \in Nat /\ k \in 1 .. Len(b)  BY <1>6, <1>8, <1>9
<1>15. b[i].lo \in Nat /\ b[k].lo \in Nat /\ b[k].hi \in Nat  BY <1>8, <1>10, <1>14
<1>16. CASE k = j
  <2>1. State(k).left = 0 /\ ~(k < j)  BY <1>9, <1>16
  <2>2. PieceTurn(r, State(k)) = State(k)
    <3> HIDE DEF State
    <3> QED  BY <2>1 DEF PieceTurn
  <2> QED  BY <1>1, <1>5, <2>1, <2>2
<1>17. CASE k < j
  <2>1. /\ k \in i .. j - 1 /\ k + 1 \in 1 .. Len(b) /\ k + 1 \in Nat
        /\ (k + 1) - i + 1 = (k - i + 1) + 1 /\ k - i + 1 \in Nat
        /\ k - i + 1 >= 1 /\ i + ((k - i + 1) + 1) - 1 = k + 1
        /\ (k - i + 1) + 1 \in 1 .. j - i + 1 /\ (k - i + 1) + 1 # 1
    BY <1>6, <1>8, <1>9, <1>14, <1>17
  <2>2. /\ b[k].hi = b[k + 1].lo /\ b[k].hi - b[i].lo < upto
        /\ b[k + 1].lo \in Nat /\ b[k + 1].hi \in Nat
    BY <1>10, <1>11, <1>13, <2>1
  <2>3. left \in Int /\ left > 0 /\ b[k + 1].lo + left = b[i].lo + upto
    BY <1>9, <1>15, <2>2
  <2>4. b[i].lo + upto \in Nat  BY <1>9, <1>15
  <2>5. State(k) = [index |-> k, place |-> b[k].hi - b[k].lo, left |-> left,
                    pieces |-> SubSeq(parts, 1, k - i + 1)]
    BY <1>17
  <2>6. PieceTurn(r, State(k)) =
          [index |-> k + 1, place |-> Size(piece), left |-> left - Size(piece),
           pieces |-> Append(SubSeq(parts, 1, k - i + 1), piece)]
    <3> HIDE DEF State, left
    <3> QED  BY <1>1, <2>3, <2>5 DEF PieceTurn
  <2>7. Append(SubSeq(parts, 1, k - i + 1), piece) = SubSeq(parts, 1, (k + 1) - i + 1)
    <3> DEFINE n == k - i + 1
    <3>1. n + 1 \in 1 .. j - i + 1 /\ i + (n + 1) - 1 = k + 1 /\ n + 1 # 1
          /\ n \in Nat /\ n >= 1 /\ (k + 1) - i + 1 = n + 1
      BY <2>1
    <3>2. parts[n + 1] = Subarray(b[k + 1], 0, upto - (b[k + 1].lo - b[i].lo))
      <4> HIDE DEF n
      <4> QED  BY <1>4, <3>1
    <3>3. upto - (b[k + 1].lo - b[i].lo) = left  BY <2>2
    <3>4. parts[n + 1] = piece  BY <3>2, <3>3
    <3>5. Len(parts) = j - i + 1
      <4>1. DOMAIN parts = 1 .. j - i + 1  BY <1>4
      <4>2. j - i + 1 \in Nat  BY <1>8, <1>9
      <4> HIDE DEF n
      <4> QED  BY <1>3, <4>1, <4>2
    <3> HIDE DEF n
    <3>6. n + 1 <= Len(parts) /\ 1 <= n + 1  BY <3>1, <3>5
    <3>7. SubSeq(parts, 1, n + 1) = SubSeq(parts, 1, n) \o <<parts[n + 1]>>
      <4>1. 1 \in 1 .. Len(parts) /\ n + 1 \in 1 .. Len(parts) /\ (n + 1) - 1 = n
        BY <3>1, <3>6
      <4> QED  BY <1>3, <3>1, <4>1, SubSeqRecursiveSecond
    <3>8. SubSeq(parts, 1, n) \in Seq(Buffer) /\ parts[n + 1] \in Buffer
      <4>1. n <= Len(parts) /\ n + 1 \in 1 .. Len(parts)
        BY <3>1, <3>5, <3>6, <1>9
      <4> QED  BY <1>3, <3>1, <4>1, SubSeqProperties
    <3>9. Append(SubSeq(parts, 1, n), parts[n + 1]) = SubSeq(parts, 1, n) \o <<parts[n + 1]>>
      BY <3>8, AppendIsConcat
    <3> QED  BY <3>1, <3>4, <3>7, <3>9 DEF n
  <2>8. CASE k + 1 < j
    <3>1. k + 1 \in i .. j - 1  BY <1>9, <2>1, <2>8
    <3>2. b[k + 1].hi - b[i].lo < upto  BY <1>11, <3>1
    <3>3. b[k + 1].hi <= b[i].lo + upto  BY <1>9, <1>15, <2>2, <3>2
    <3>4. piece = [lo |-> b[k + 1].lo + 0, hi |-> b[k + 1].hi]
      BY <2>2, <2>3, <2>4, <3>3, PartOfBuffer
    <3>5. Size(piece) = b[k + 1].hi - b[k + 1].lo  BY <2>2, <3>4 DEF Size
    <3>6. left - Size(piece) = upto - (b[k + 1].hi - b[i].lo)
      BY <1>9, <1>15, <2>2, <3>5
    <3>7. State(k + 1) =
            [index |-> k + 1, place |-> b[k + 1].hi - b[k + 1].lo,
             left |-> upto - (b[k + 1].hi - b[i].lo),
             pieces |-> SubSeq(parts, 1, (k + 1) - i + 1)]
      BY <2>8
    <3>8. PieceTurn(r, State(k)) = State(k + 1)  BY <2>6, <2>7, <3>5, <3>6, <3>7
    <3> HIDE DEF State
    <3> QED  BY <1>1, <1>5, <1>17, <3>8
  <2>9. CASE k + 1 = j
    <3>1. b[k + 1].lo + left <= b[k + 1].hi
      BY <1>9, <1>12, <1>15, <2>2, <2>3, <2>9
    <3>2. piece = [lo |-> b[k + 1].lo + 0, hi |-> b[i].lo + upto]
      BY <2>2, <2>3, <2>4, <3>1, PartOfBuffer
    <3>3. Size(piece) = (b[i].lo + upto) - b[k + 1].lo  BY <2>2, <3>2 DEF Size
    <3>4. Size(piece) = upto - (b[j].lo - b[i].lo) /\ left - Size(piece) = 0
      BY <1>9, <1>15, <2>2, <2>9, <3>3
    <3>5. State(k + 1) =
            [index |-> k + 1, place |-> upto - (b[j].lo - b[i].lo), left |-> 0,
             pieces |-> SubSeq(parts, 1, (k + 1) - i + 1)]
      BY <1>9, <2>9
    <3>6. PieceTurn(r, State(k)) = State(k + 1)  BY <2>6, <2>7, <3>4, <3>5
    <3> HIDE DEF State
    <3> QED  BY <1>1, <1>5, <1>17, <3>6
  <2> QED  BY <1>9, <2>1, <1>17, <2>8, <2>9
<1> QED  BY <1>6, <1>9, <1>14, <1>16, <1>17

(* The loop has taken the same pieces as ReadListOut, and its cursor ends  *)
(* where ReadListBy puts it.                                               *)
LEMMA PiecesAreTaken ==
  ASSUME NEW r, NEW arrivedBytes, Sound(r, arrivedBytes),
         NEW len \in Nat \ {0}, r.offset + len <= r.length
  PROVE  TakePieces(r, len) = TakenTo(r, len, LastSpanned(r, len))
<1> DEFINE b == r.buffers
           N == Len(b)
           i == r.curBufferIndex
           j == LastSpanned(r, len)
           upto == r.curBufferOffset + len
           pos == PositionOf(r, arrivedBytes)
           idx(turn) == IF i + turn <= j THEN i + turn ELSE j
           closed == [turn \in 0 .. N |-> TakenTo(r, len, idx(turn))]
           Turns(f) == [turn \in 0 .. N |->
                          IF turn = 0 THEN FirstPiece(r, len)
                          ELSE PieceTurn(r, f[turn - 1])]
           at == CHOOSE f : f = Turns(f)
<1>1. /\ b = r.buffers /\ i = r.curBufferIndex /\ j = LastSpanned(r, len)
      /\ upto = r.curBufferOffset + len /\ pos = PositionOf(r, arrivedBytes)
  OBVIOUS
<1>2. TakePieces(r, len) = at[N]  BY DEF TakePieces
<1> HIDE DEF b, i, j, upto, pos, at
<1>3. i \in 1 .. N /\ j \in i .. N /\ N \in Nat  BY <1>1, Spanned
<1>4. i \in Nat /\ j \in Nat  BY <1>1, Spanned
<1>5. closed[0] = FirstPiece(r, len)
  <2>1. idx(0) = i /\ 0 \in 0 .. N  BY <1>3, <1>4
  <2>2. FirstPiece(r, len) = TakenTo(r, len, i)  BY <1>1, FirstPieceTaken
  <2> QED  BY <2>1, <2>2
<1>6. ASSUME NEW turn \in 1 .. N PROVE closed[turn] = PieceTurn(r, closed[turn - 1])
  <2>1. turn - 1 \in 0 .. N /\ turn \in 0 .. N  BY <1>3
  <2>2. closed[turn - 1] = TakenTo(r, len, idx(turn - 1))
        /\ closed[turn] = TakenTo(r, len, idx(turn))
    BY <2>1
  <2> DEFINE k == idx(turn - 1)
  <2>3. k \in i .. j /\ idx(turn) = IF k < j THEN k + 1 ELSE k
    BY <1>3, <1>4, <2>1
  <2>4. k = idx(turn - 1)  OBVIOUS
  <2> HIDE DEF k
  <2>5. PieceTurn(r, TakenTo(r, len, k)) = TakenTo(r, len, IF k < j THEN k + 1 ELSE k)
    BY <1>1, <2>3, PieceTurnTakes
  <2> HIDE DEF closed, idx
  <2> QED  BY <2>2, <2>3, <2>4, <2>5
<1>7. closed = Turns(closed)
  <2>1. closed = [turn \in 0 .. N |-> closed[turn]]  OBVIOUS
  <2> HIDE DEF closed
  <2>2. \A turn \in 0 .. N :
          closed[turn] = IF turn = 0 THEN FirstPiece(r, len)
                         ELSE PieceTurn(r, closed[turn - 1])
    <3> SUFFICES ASSUME NEW turn \in 0 .. N
                 PROVE  closed[turn] = IF turn = 0 THEN FirstPiece(r, len)
                                       ELSE PieceTurn(r, closed[turn - 1])
      OBVIOUS
    <3>1. CASE turn = 0  BY <1>5, <3>1
    <3>2. CASE turn # 0
      <4>1. turn \in 1 .. N  BY <1>3, <3>2
      <4> QED  BY <1>6, <3>2, <4>1
    <3> QED  BY <3>1, <3>2
  <2> QED  BY <2>1, <2>2
<1>8. at = Turns(at)
  <2> HIDE DEF closed, Turns
  <2> QED  BY <1>7 DEF at
<1> HIDE DEF closed
<1>9. at[0] = FirstPiece(r, len)
      /\ \A turn \in 1 .. N : at[turn] = PieceTurn(r, at[turn - 1])
  <2>1. \A turn \in 0 .. N :
          at[turn] = IF turn = 0 THEN FirstPiece(r, len) ELSE PieceTurn(r, at[turn - 1])
    BY <1>8
  <2> QED  BY <1>3, <2>1
<1>10. at[N] = closed[N]
  <2> DEFINE S == {turn \in 0 .. N : at[turn] = closed[turn]}
  <2>1. 0 \in S  BY <1>3, <1>5, <1>9
  <2>2. ASSUME NEW n \in 0 .. N - 1, n \in S PROVE n + 1 \in S
    <3>1. n + 1 \in 1 .. N /\ (n + 1) - 1 = n  BY <1>3
    <3>2. at[n + 1] = PieceTurn(r, at[n]) /\ closed[n + 1] = PieceTurn(r, closed[n])
      BY <1>6, <1>9, <3>1
    <3> QED  BY <1>3, <2>2, <3>1, <3>2
  <2> HIDE DEF S
  <2>3. 0 .. N \subseteq S  BY <1>3, <2>1, <2>2, IntervalInduction
  <2> QED  BY <1>3, <2>3 DEF S
<1>11. idx(N) = j /\ N \in 0 .. N  BY <1>3, <1>4
<1> QED  BY <1>1, <1>2, <1>10, <1>11 DEF closed

(* What readBufferList returns, and where it leaves the cursor.            *)
LEMMA ListReads ==
  ASSUME NEW r, NEW arrivedBytes, Sound(r, arrivedBytes),
         NEW len \in Nat \ {0}, r.offset + len <= r.length
  PROVE  /\ TakePieces(r, len).pieces = ReadListOut(r, len)
         /\ MoveBehind(r, len, TakePieces(r, len)) = ReadListBy(r, len)
<1> DEFINE b == r.buffers
           i == r.curBufferIndex
           j == LastSpanned(r, len)
           upto == r.curBufferOffset + len
           pos == PositionOf(r, arrivedBytes)
           parts == ReadListOut(r, len)
           within == upto - (b[j].lo - b[i].lo)
           taken == TakenTo(r, len, j)
<1>1. /\ b = r.buffers /\ i = r.curBufferIndex /\ j = LastSpanned(r, len)
      /\ upto = r.curBufferOffset + len /\ pos = PositionOf(r, arrivedBytes)
  OBVIOUS
<1>2. len \in Nat /\ len # 0  OBVIOUS
<1>3. parts \in Seq(Buffer)
  <2> HIDE DEF parts
  <2> QED  BY ListPieces DEF parts
<1>4. DOMAIN parts = 1 .. j - i + 1  BY <1>2 DEF ReadListOut
<1>5. /\ taken.index = j
      /\ taken.place = IF j < j THEN b[j].hi - b[j].lo ELSE within
      /\ taken.pieces = SubSeq(parts, 1, j - i + 1)
  BY DEF TakenTo
<1>6. ReadListBy(r, len) =
        LET ends == within = Size(b[j])
        IN MoveTo(r, r.offset + len, IF ends THEN j + 1 ELSE j,
                  IF ends THEN 0 ELSE within)
  BY <1>2 DEF ReadListBy
<1>7. TakePieces(r, len) = taken  BY PiecesAreTaken
<1> HIDE DEF b, i, j, upto, pos, parts, within, taken
<1>8. i \in 1 .. Len(b) /\ j \in i .. Len(b) /\ Len(b) \in Nat  BY <1>1, Spanned
<1>9. i \in Nat /\ j \in Nat  BY <1>1, Spanned
<1>10. Len(parts) = j - i + 1
  <2>1. j - i + 1 \in Nat  BY <1>8, <1>9
  <2> QED  BY <1>3, <1>4, <2>1
<1>11. taken.pieces = parts  BY <1>3, <1>5, <1>10, SubSeqFull
<1>12. taken.place = within /\ taken.index = j  BY <1>5, <1>9
<1>13. MoveBehind(r, len, taken) = ReadListBy(r, len)
  BY <1>6, <1>12 DEF MoveBehind, b
<1> QED  BY <1>7, <1>11, <1>13 DEF parts

(***************************************************************************)
(* In every state the reader reaches                                       *)
(***************************************************************************)

(* An inductive invariant of the reader gives the three comparisons.       *)
LEMMA LoopsEndAsTold ==
  IInv => SeekWalksToTheByte /\ MergesWhatIsNeeded /\ ListReadsPieceByPiece
<1> SUFFICES ASSUME IInv
             PROVE  SeekWalksToTheByte /\ MergesWhatIsNeeded /\ ListReadsPieceByPiece
  OBVIOUS
<1>1. Sound(reader, arrived)  BY DEF IInv, TypeOK, HoldsTheStream, CursorAgrees, Sound
<1>2. reader.offset \in Nat /\ reader.length \in Nat /\ reader.offset <= reader.length
  BY <1>1, OffsetInLength
<1>3. SeekWalksToTheByte
  <2> SUFFICES ASSUME ~AtEnd, NEW to \in 0 .. reader.length - 1, to # reader.offset
               PROVE  SeekLoop(reader, to) = Seek(reader, to)
    BY DEF SeekWalksToTheByte
  <2>1. reader.offset < reader.length  BY <1>2 DEF AtEnd
  <2>2. to \in Nat /\ to < reader.length  BY <1>2
  <2> QED  BY <1>1, <2>1, <2>2, SeekWalks
<1>4. ASSUME NEW len \in 1 .. reader.length - reader.offset
      PROVE  len \in Nat \ {0} /\ reader.offset + len <= reader.length
  BY <1>2
<1>5. MergesWhatIsNeeded
  <2> DEFINE i == reader.curBufferIndex
  <2> SUFFICES ASSUME NEW len \in 1 .. reader.length - reader.offset,
                      reader.curBufferOffset + len > Size(CurBuffer(reader))
               PROVE  LET upto == reader.curBufferOffset + len
                          merged == Accumulate(reader, upto)
                          after == Consolidate(reader, len)
                      IN /\ merged.count = Len(reader.buffers) - Len(after.buffers) + 1
                         /\ merged.bufferLength = Size(CurBuffer(after))
    BY DEF MergesWhatIsNeeded
  <2> DEFINE b == reader.buffers
             j == LastSpanned(reader, len)
             upto == reader.curBufferOffset + len
             pos == PositionOf(reader, arrived)
             merged == Accumulate(reader, upto)
             after == Consolidate(reader, len)
  <2>1. /\ b = reader.buffers /\ i = reader.curBufferIndex
        /\ j = LastSpanned(reader, len) /\ upto = reader.curBufferOffset + len
        /\ pos = PositionOf(reader, arrived) /\ merged = Accumulate(reader, upto)
    OBVIOUS
  <2>2. len \in Nat \ {0} /\ reader.offset + len <= reader.length  BY <1>4
  <2>3. reader \in Reader /\ b \in Seq(Buffer)  BY <1>1 DEF Sound, Reader
  <2>4. after = ReadMerging(reader, len)  BY DEF Consolidate
  <2>5. after.buffers = Splice(b, i, j, Concat(b, i, j))
    BY <2>3, <2>4 DEF ReadMerging, Consolidated, Reader
  <2>6. after.curBufferIndex = i  BY <2>3, <2>4 DEF ReadMerging, Reader
  <2> HIDE DEF b, i, j, upto, pos, merged, after
  <2>7. i \in 1 .. Len(b) /\ Len(b) \in Nat  BY <1>1, <2>1, <2>2, Spanned
  <2>8. j \in i .. Len(b)  BY <1>1, <2>1, <2>2, Spanned
  <2>9. i \in Nat /\ j \in Nat  BY <2>7, <2>8
  <2>10. merged = Gathered(b, i, j - i + 1)
    BY <1>1, <2>1, <2>2, Accumulates
  <2>11. merged.count = j - i + 1  BY <2>10 DEF Gathered
  <2>12. merged.bufferLength = b[j].hi - b[i].lo
    <3>1. j - i + 1 # 0 /\ i + (j - i + 1) - 1 = j  BY <2>8, <2>9
    <3> QED  BY <2>10, <3>1 DEF Gathered
  <2>13. Concat(b, i, j) \in Buffer
    <3>1. b[i].lo \in Nat /\ b[j].hi \in Nat
      BY <2>3, <2>7, <2>8, <2>9, BuffersTyped
    <3> QED  BY <3>1 DEF Concat, Buffer
  <2>14. /\ Len(after.buffers) = Len(b) - (j - i)
         /\ i \in 1 .. Len(after.buffers)
         /\ after.buffers[i] = Concat(b, i, j)
    <3>1. /\ Len(after.buffers) = Len(b) - (j - i)
          /\ \A k \in 1 .. Len(after.buffers) :
               after.buffers[k] = IF k < i THEN b[k]
                                  ELSE IF k = i THEN Concat(b, i, j) ELSE b[k + (j - i)]
      BY <2>3, <2>5, <2>7, <2>8, <2>13, SplicedList
    <3>2. i \in 1 .. Len(after.buffers)  BY <2>7, <2>8, <2>9, <3>1
    <3> QED  BY <2>9, <3>1, <3>2
  <2>15. Size(CurBuffer(after)) = b[j].hi - b[i].lo
    BY <2>6, <2>14 DEF CurBuffer, Size, Concat
  <2>16. merged.count = Len(b) - Len(after.buffers) + 1
    BY <2>7, <2>9, <2>11, <2>14
  <2> QED  BY <2>12, <2>15, <2>16 DEF b, merged, upto, after
<1>6. ListReadsPieceByPiece
  BY <1>1, <1>4, ListReads DEF ListReadsPieceByPiece
<1> QED  BY <1>3, <1>5, <1>6

(* Walking buffer by buffer, forwards or backwards, the loops of seek end  *)
(* in the one buffer that holds the byte asked for (bufferListReader.ts,   *)
(* lines 110 to 119).                                                      *)
THEOREM SeekAlwaysWalksToTheByte ==
  ASSUME Habits = {}
  PROVE  Spec => []SeekWalksToTheByte
<1>1. Spec => []IInv  BY InvariantHolds
<1>2. IInv => SeekWalksToTheByte  BY LoopsEndAsTold
<1> QED  BY <1>1, <1>2, PTL

(* _consolidate merges the buffers that the bytes wanted reach, and none   *)
(* behind them.                                                            *)
THEOREM OnlyWhatIsNeededIsMerged ==
  ASSUME Habits = {}
  PROVE  Spec => []MergesWhatIsNeeded
<1>1. Spec => []IInv  BY InvariantHolds
<1>2. IInv => MergesWhatIsNeeded  BY LoopsEndAsTold
<1> QED  BY <1>1, <1>2, PTL

(* readBufferList takes the pieces of the bytes wanted one buffer at a     *)
(* time, and leaves the cursor behind them.                                *)
THEOREM ListsAreReadPieceByPiece ==
  ASSUME Habits = {}
  PROVE  Spec => []ListReadsPieceByPiece
<1>1. Spec => []IInv  BY InvariantHolds
<1>2. IInv => ListReadsPieceByPiece  BY LoopsEndAsTold
<1> QED  BY <1>1, <1>2, PTL
=============================================================================
