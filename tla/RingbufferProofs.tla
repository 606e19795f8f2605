------------------------- MODULE RingbufferProofs -------------------------
(***************************************************************************)
(* Proofs about Ringbuffer, for every Size > 0 and every set Byte: typing, *)
(* and the refinement of LossyQueue under Contents.                        *)
(***************************************************************************)
EXTENDS RingCommand, SequenceTheorems, TLAPS

(* Advance keeps a pointer in the ring: neither pointer ever rests on      *)
(* ringbuffer->end, so no dereference leaves the buffer.                   *)
LEMMA AdvanceInSlots ==
    ASSUME NEW p \in Slots
    PROVE  Advance(p) \in Slots
BY SizeAssumption DEF Advance, Slots

LEMMA TypeOKInductive == RingTypeOK /\ [RingNext]_ringVars => RingTypeOK'
<1> SUFFICES ASSUME RingTypeOK, [RingNext]_ringVars
             PROVE  RingTypeOK'
    OBVIOUS
<1> USE DEF RingTypeOK
<1>1. CASE Read
    BY <1>1, AdvanceInSlots DEF Read
<1>2. ASSUME NEW data \in Byte, Write(data)
      PROVE  RingTypeOK'
    BY <1>2, AdvanceInSlots DEF Write
<1>3. CASE UNCHANGED ringVars
    BY <1>3 DEF ringVars
<1> QED
    BY <1>1, <1>2, <1>3 DEF RingNext

(* Both pointers of the ring (src/ring.c) always point into the buffer.    *)
THEOREM TypeCorrect == RingSpec => []RingTypeOK
<1>1. RingInit => RingTypeOK
    BY SizeAssumption DEF RingInit, RingTypeOK, Slots
<1> QED
    BY <1>1, TypeOKInductive, PTL DEF RingSpec

---------------------------------------------------------------------------
(* data_ringbuffer never reports Size: at most Size - 1 bytes are unread.  *)
LEMMA DataBounds ==
    ASSUME RingTypeOK
    PROVE  /\ Data \in 0 .. Size - 1
           /\ (Data = 0) <=> (write = read)
BY SizeAssumption DEF RingTypeOK, Slots, Data

(* The slot Data places after the read pointer is the one to be written,   *)
(* and the slots of distinct unread bytes are distinct from it.            *)
LEMMA SlotAfterReadProps ==
    ASSUME RingTypeOK, NEW n \in 0 .. Data
    PROVE  /\ SlotAfterRead(n) \in Slots
           /\ n = Data => SlotAfterRead(n) = write
           /\ n < Data => SlotAfterRead(n) # write
BY SizeAssumption DEF RingTypeOK, Slots, Data, SlotAfterRead

(* Contents is the sequence of the unread bytes, Data of them.             *)
ContentsAreUnread ==
    /\ Contents \in Seq(Byte)
    /\ Len(Contents) = Data
    /\ \A i \in 1 .. Data : Contents[i] = stored[SlotAfterRead(i - 1)]

(* The sequence that maps the ring to the queue is well formed in every    *)
(* typed state.                                                            *)
LEMMA ContentsSeq == RingTypeOK => ContentsAreUnread
<1> SUFFICES ASSUME RingTypeOK
             PROVE  ContentsAreUnread
    OBVIOUS
<1>1. Data \in Nat
    BY DataBounds
<1>2. ASSUME NEW i \in 1 .. Data
      PROVE  stored[SlotAfterRead(i - 1)] \in Byte
    <2>1. i - 1 \in 0 .. Data
        BY <1>1
    <2> QED
        BY <2>1, SlotAfterReadProps DEF RingTypeOK
<1>3. Contents \in [1 .. Data -> Byte]
    BY <1>2 DEF Contents
<1> QED
    BY <1>1, <1>3 DEF Contents, ContentsAreUnread

LEMMA InitRefines == RingInit => Queue!Init
<1> SUFFICES ASSUME RingInit
             PROVE  Queue!Init
    OBVIOUS
<1>1. Data = 0
    BY DEF RingInit, Data
<1>2. Contents = <<>>
    BY <1>1 DEF Contents
<1> QED
    BY <1>2 DEF RingInit, Queue!Init

(* read_ringbuffer takes the oldest unread byte.                           *)
LEMMA ReadRefines == RingTypeOK /\ RingTypeOK' /\ Read => Queue!Get
<1> SUFFICES ASSUME RingTypeOK, RingTypeOK', Read
             PROVE  Queue!Get
    OBVIOUS
<1>1. Data \in 1 .. Size - 1 /\ Data' = Data - 1
    BY SizeAssumption DEF Read, RingTypeOK, Slots, Data, Advance
<1>2. ASSUME NEW n \in 0 .. Data - 1
      PROVE  SlotAfterRead(n)' = SlotAfterRead(n + 1)
    BY <1>1, <1>2, SizeAssumption
       DEF Read, RingTypeOK, Slots, Data, Advance, SlotAfterRead
<1>3. Contents # <<>>
    BY <1>1, ContentsSeq DEF ContentsAreUnread
<1>4. out' = Head(Contents)
    <2>1. SlotAfterRead(0) = read
        BY SizeAssumption DEF RingTypeOK, Slots, SlotAfterRead
    <2>2. Contents[1] = stored[SlotAfterRead(0)]
        BY <1>1, ContentsSeq DEF ContentsAreUnread
    <2> QED
        BY <1>3, <2>1, <2>2, ContentsSeq DEF Read, ContentsAreUnread
<1>5. Contents' = Tail(Contents)
    <2>1. /\ Contents' \in Seq(Byte)
          /\ Len(Contents') = Data'
          /\ \A i \in 1 .. Data' : Contents'[i] = stored'[SlotAfterRead(i - 1)']
        <3>1. ContentsAreUnread'
            BY ContentsSeq, PTL
        <3> QED
            BY <3>1 DEF ContentsAreUnread
    <2>2. /\ Tail(Contents) \in Seq(Byte)
          /\ Len(Tail(Contents)) = Data - 1
          /\ \A i \in 1 .. Data - 1 : Tail(Contents)[i] = Contents[i + 1]
        BY <1>3, ContentsSeq, HeadTailProperties DEF ContentsAreUnread
    <2>3. ASSUME NEW i \in 1 .. Data - 1
          PROVE  Contents'[i] = Tail(Contents)[i]
        <3>1. i - 1 \in 0 .. Data - 1 /\ i + 1 \in 1 .. Data
            BY <1>1
        <3>2. SlotAfterRead(i - 1)' = SlotAfterRead(i)
            BY <1>1, <1>2, <3>1
        <3>3. Contents[i + 1] = stored[SlotAfterRead(i)]
            BY <1>1, <3>1, ContentsSeq DEF ContentsAreUnread
        <3> QED
            BY <1>1, <2>1, <2>2, <3>2, <3>3 DEF Read
    <2> QED
        BY <1>1, <2>1, <2>2, <2>3, SeqEqual
<1> QED
    BY <1>3, <1>4, <1>5 DEF Queue!Get

(* write_ringbuffer appends, or empties the ring when it was full.         *)
LEMMA WriteRefines ==
    ASSUME RingTypeOK, RingTypeOK', NEW data \in Byte, Write(data)
    PROVE  Queue!Put(data)
<1>1. CASE Data = Size - 1
    <2>1. Data' = 0
        BY <1>1, SizeAssumption DEF Write, RingTypeOK, Slots, Data, Advance
    <2>2. Contents' = <<>>
        BY <2>1 DEF Contents
    <2> QED
        BY <1>1, <2>2, ContentsSeq DEF Write, Queue!Put, ContentsAreUnread
<1>2. CASE Data # Size - 1
    <2>1. Data' = Data + 1 /\ Data \in Nat
        BY <1>2, SizeAssumption DEF Write, RingTypeOK, Slots, Data, Advance
    <2>2. ASSUME NEW n \in Nat
          PROVE  SlotAfterRead(n)' = SlotAfterRead(n)
        BY DEF Write, SlotAfterRead
    <2>3. /\ Contents' \in Seq(Byte)
          /\ Len(Contents') = Data'
          /\ \A i \in 1 .. Data' : Contents'[i] = stored'[SlotAfterRead(i - 1)']
        <3>1. ContentsAreUnread'
            BY ContentsSeq, PTL
        <3> QED
            BY <3>1 DEF ContentsAreUnread
    <2>4. /\ Append(Contents, data) \in Seq(Byte)
          /\ Len(Append(Contents, data)) = Data + 1
          /\ \A i \in 1 .. Data + 1 : Append(Contents, data)[i] =
                IF i = Data + 1 THEN data ELSE Contents[i]
        BY <2>1, ContentsSeq, AppendProperties DEF ContentsAreUnread
    <2>5. ASSUME NEW i \in 1 .. Data + 1
          PROVE  stored'[SlotAfterRead(i - 1)'] =
                   IF i = Data + 1 THEN data ELSE Contents[i]
        <3>1. i - 1 \in 0 .. Data /\ SlotAfterRead(i - 1)' = SlotAfterRead(i - 1)
            BY <2>1, <2>2
        <3>2. CASE i = Data + 1
            BY <3>1, <3>2, <2>1, SlotAfterReadProps DEF Write, RingTypeOK
        <3>3. CASE i # Data + 1
            <4>1. i \in 1 .. Data /\ i - 1 < Data
                BY <2>1, <3>3
            <4>2. SlotAfterRead(i - 1) \in Slots /\ SlotAfterRead(i - 1) # write
                BY <3>1, <4>1, SlotAfterReadProps
            <4>3. stored'[SlotAfterRead(i - 1)] = stored[SlotAfterRead(i - 1)]
                BY <4>2 DEF Write, RingTypeOK
            <4> QED
                BY <3>1, <3>3, <4>1, <4>3, ContentsSeq DEF ContentsAreUnread
        <3> QED
            BY <3>2, <3>3
    <2>6. Contents' = Append(Contents, data)
        BY <2>1, <2>3, <2>4, <2>5, SeqEqual
    <2> QED
        BY <1>2, <2>6, ContentsSeq DEF Write, Queue!Put, ContentsAreUnread
<1> QED
    BY <1>1, <1>2

(* The ring implements the lossy queue: what read_ringbuffer returns is    *)
(* the oldest unread byte, and only a write to a full ring loses any.      *)
THEOREM RingImplementsQueue == RingSpec => ImplementsLossyQueue
<1>1. RingTypeOK /\ RingTypeOK' /\ [RingNext]_ringVars => [Queue!Next]_<<Contents, out>>
    <2> SUFFICES ASSUME RingTypeOK, RingTypeOK', [RingNext]_ringVars
                 PROVE  [Queue!Next]_<<Contents, out>>
        OBVIOUS
    <2>1. CASE Read
        BY <2>1, ReadRefines DEF Queue!Next
    <2>2. ASSUME NEW data \in Byte, Write(data)
          PROVE  [Queue!Next]_<<Contents, out>>
        BY <2>2, WriteRefines DEF Queue!Next
    <2>3. CASE UNCHANGED ringVars
        BY <2>3 DEF ringVars, Contents, Data, SlotAfterRead
    <2> QED
        BY <2>1, <2>2, <2>3 DEF RingNext
<1> QED
    BY <1>1, InitRefines, TypeCorrect, PTL DEF RingSpec, ImplementsLossyQueue, Queue!Spec

---------------------------------------------------------------------------
(* The command.  Its arguments are all written before the first byte is    *)
(* read, so that the write pointer is their number modulo Size and the     *)
(* read pointer never wraps.                                               *)
KeptInRing ==
    LET kept == Len(args) % Size
    IN  /\ write = kept
        /\ \A n \in 1 .. kept : stored[n - 1] = LowByte(kept, n)

Drained ==
    /\ read = reads /\ reads <= write
    /\ shown = [n \in 1 .. reads |-> StringOf(stored[n - 1])]
    /\ phase = "write" => reads = 0
    /\ phase = "done" => reads = write

CommandIInv ==
    /\ RingTypeOK
    /\ phase \in {"write", "drain", "done"}
    /\ args \in Seq(Letters) /\ Len(args) <= MaxArgs
    /\ reads \in Nat
    /\ KeptInRing
    /\ Drained

(* Division is the only way to write a number with a rest. *)
LEMMA DivisionIsUnique ==
    ASSUME NEW d \in Nat \ {0}, NEW q \in Int, NEW r \in 0 .. d - 1
    PROVE  (d * q + r) % d = r /\ (d * q + r) \div d = q
<1> DEFINE n == d * q + r
           k == n \div d
           m == n % d
<1>1. n \in Int /\ k \in Int /\ m \in 0 .. d - 1 /\ n = d * k + m
    OBVIOUS
<1> HIDE DEF k, m
<1>2. d * (k - q) = r - m
    BY <1>1
<1>3. ~(k - q >= 1)
    <2> SUFFICES ASSUME k - q >= 1 PROVE FALSE
        OBVIOUS
    <2>1. d * (k - q) >= d * 1
        BY <1>1
    <2> QED
        BY <1>1, <1>2, <2>1
<1>4. ~(k - q <= -1)
    <2> SUFFICES ASSUME k - q <= -1 PROVE FALSE
        OBVIOUS
    <2>1. d * (k - q) <= d * (-1)
        BY <1>1
    <2> QED
        BY <1>1, <1>2, <2>1
<1>5. k = q
    BY <1>1, <1>3, <1>4
<1>6. m = r
    BY <1>1, <1>2, <1>5
<1> QED
    BY <1>5, <1>6 DEF k, m

(* One more argument advances the remainder as Advance does the pointer.   *)
LEMMA NextRemainder ==
    ASSUME NEW n \in Nat
    PROVE  /\ n % Size \in Slots
           /\ (n + 1) % Size = Advance(n % Size)
<1> DEFINE q == n \div Size
           r == n % Size
<1>1. r \in 0 .. Size - 1 /\ n = Size * q + r /\ q \in Int
    BY SizeAssumption
<1> HIDE DEF q, r
<1>2. CASE r + 1 = Size
    <2>1. n + 1 = Size * (q + 1) + 0
        BY <1>1, <1>2, SizeAssumption
    <2>2. (n + 1) % Size = 0
        BY <1>1, <2>1, SizeAssumption, DivisionIsUnique
    <2> QED
        BY <1>1, <1>2, <2>2 DEF Advance, Slots, r
<1>3. CASE r + 1 # Size
    <2>1. n + 1 = Size * q + (r + 1) /\ r + 1 \in 0 .. Size - 1
        BY <1>1, <1>3, SizeAssumption
    <2>2. (n + 1) % Size = r + 1
        BY <1>1, <2>1, SizeAssumption, DivisionIsUnique
    <2> QED
        BY <1>1, <1>3, <2>2 DEF Advance, Slots, r
<1> QED
    BY <1>2, <1>3

AString == {StringOf(b) : b \in Byte}

LEMMA StringsOfCells ==
    ASSUME stored \in [Slots -> Byte], NEW n \in Slots
    PROVE  [i \in 1 .. n |-> StringOf(stored[i - 1])] \in Seq(AString)
<1>1. ASSUME NEW i \in 1 .. n
      PROVE  StringOf(stored[i - 1]) \in AString
    <2>1. stored[i - 1] \in Byte
        BY SizeAssumption DEF Slots
    <2> QED
        BY <2>1 DEF AString
<1> QED
    BY <1>1 DEF Slots

LEMMA CommandInitially == CommandInit => CommandIInv
<1> SUFFICES ASSUME CommandInit
             PROVE  CommandIInv
    OBVIOUS
<1>1. Len(args) = 0 /\ args \in Seq(Letters)
    BY DEF CommandInit
<1>2. 0 % Size = 0
    BY SizeAssumption
<1>3. RingTypeOK
    BY SizeAssumption DEF CommandInit, RingInit, RingTypeOK, Slots
<1>4. MaxArgs >= 0
    BY MaxArgsAssumption
<1> QED
    BY <1>1, <1>2, <1>3, <1>4 DEF CommandInit, RingInit, CommandIInv, KeptInRing, Drained

LEMMA WriteArgumentStep ==
    ASSUME CommandIInv, NEW c \in Letters, WriteArgument(c)
    PROVE  CommandIInv'
<1> DEFINE kept == Len(args) % Size
<1> USE DEF CommandIInv
<1>1. /\ args' \in Seq(Letters) /\ Len(args') = Len(args) + 1
      /\ \A i \in 1 .. Len(args) : args'[i] = args[i]
      /\ args'[Len(args) + 1] = c
    BY DEF WriteArgument
<1>2. /\ kept \in Slots /\ Len(args') % Size = Advance(kept)
      /\ Len(args) \in Nat /\ kept <= Len(args)
    <2>1. Len(args) \in Nat
        OBVIOUS
    <2>2. kept <= Len(args)
        BY <2>1, SizeAssumption
    <2> QED
        BY <1>1, <2>1, <2>2, NextRemainder
<1>3. c % 256 \in Byte /\ Write(c % 256)
    BY CharAssumption DEF WriteArgument
<1>4. RingTypeOK'
    BY <1>3, TypeOKInductive DEF RingNext
<1>5. /\ write' = Len(args') % Size
      /\ stored' = [stored EXCEPT ![kept] = c % 256] /\ stored \in [Slots -> Byte]
    BY <1>2, <1>3 DEF Write, KeptInRing, RingTypeOK
<1>6. ASSUME NEW n \in 1 .. Len(args') % Size
      PROVE  stored'[n - 1] = LowByte(Len(args) % Size, n)'
    <2>1. Len(args') % Size = kept + 1 /\ kept + 1 < Size
        BY <1>2, <1>6, SizeAssumption DEF Advance, Slots
    <2>2. LowByte(Len(args) % Size, n)' = args'[Len(args) - kept + n] % 256
        BY <1>1, <1>2, <2>1 DEF LowByte, Slots
    <2>3. CASE n = kept + 1
        BY <1>1, <1>2, <1>5, <2>2, <2>3 DEF Slots
    <2>4. CASE n # kept + 1
        <3>1. n \in 1 .. kept
            BY <1>2, <2>1, <2>4 DEF Slots
        <3>2. stored'[n - 1] = stored[n - 1]
            BY <1>2, <1>5, <3>1 DEF Slots
        <3>3. Len(args) - kept + n \in 1 .. Len(args)
            BY <1>2, <3>1 DEF Slots
        <3> QED
            BY <1>1, <2>2, <3>1, <3>2, <3>3 DEF KeptInRing, LowByte
    <2> QED
        BY <2>3, <2>4
<1>7. KeptInRing'
    BY <1>5, <1>6 DEF KeptInRing
<1>8. Drained'
    <2>1. reads = 0 /\ reads' = 0 /\ read' = 0 /\ shown' = shown /\ phase' = "write"
        BY DEF WriteArgument, Write, Drained
    <2>2. shown' = [n \in 1 .. reads' |-> StringOf(stored'[n - 1])]
        BY <2>1 DEF Drained
    <2>3. reads' <= write'
        BY <1>4, <2>1 DEF RingTypeOK, Slots
    <2> QED
        BY <2>1, <2>2, <2>3 DEF Drained
<1> QED
    BY <1>1, <1>4, <1>7, <1>8, MaxArgsAssumption DEF WriteArgument

LEMMA PrintByteStep ==
    ASSUME CommandIInv, PrintByte
    PROVE  CommandIInv'
<1> USE DEF CommandIInv
<1>1. RingTypeOK'
    BY TypeOKInductive DEF PrintByte, RingNext
<1>2. /\ read \in Slots /\ write \in Slots /\ read = reads /\ reads < write
      /\ read' = Advance(read) /\ out' = stored[read]
      /\ stored' = stored /\ write' = write
    BY DEF PrintByte, Read, Drained, Data, RingTypeOK, Slots
<1>3. read' = reads + 1 /\ reads' = reads + 1
    BY <1>2 DEF PrintByte, Advance, Slots
<1>4. KeptInRing'
    BY <1>2 DEF KeptInRing, PrintByte, LowByte
<1>5. shown' = [n \in 1 .. reads + 1 |-> StringOf(stored[n - 1])]
    <2> DEFINE longer == [n \in 1 .. reads + 1 |-> StringOf(stored[n - 1])]
    <2>1. shown = [n \in 1 .. reads |-> StringOf(stored[n - 1])]
        BY DEF Drained
    <2>2. shown \in Seq(AString) /\ longer \in Seq(AString)
        BY <1>2, <2>1, StringsOfCells DEF RingTypeOK, Slots
    <2>3. Len(shown) = reads /\ Len(longer) = reads + 1
        BY <2>1
    <2>4. shown' = Append(shown, StringOf(stored[reads]))
        BY <1>2 DEF PrintByte
    <2>5. StringOf(stored[reads]) \in AString
        BY <1>2 DEF RingTypeOK, Slots, AString
    <2>6. /\ shown' \in Seq(AString) /\ Len(shown') = reads + 1
          /\ \A n \in 1 .. reads : shown'[n] = shown[n]
          /\ shown'[reads + 1] = StringOf(stored[reads])
        BY <2>2, <2>3, <2>4, <2>5
    <2>7. \A n \in 1 .. reads + 1 : shown'[n] = longer[n]
        BY <2>1, <2>6
    <2> QED
        BY <2>2, <2>3, <2>6, <2>7, SeqEqual
<1>6. Drained'
    BY <1>2, <1>3, <1>5 DEF Drained, PrintByte
<1> QED
    BY <1>1, <1>3, <1>4, <1>6 DEF PrintByte

LEMMA CommandInductive == CommandIInv /\ [CommandNext]_commandVars => CommandIInv'
<1> SUFFICES ASSUME CommandIInv, [CommandNext]_commandVars
             PROVE  CommandIInv'
    OBVIOUS
<1>1. CASE NoMoreArguments
    BY <1>1 DEF NoMoreArguments, CommandIInv, RingTypeOK, KeptInRing, LowByte, Drained, ringVars
<1>2. CASE CommandReturns
    <2>1. read = write
        BY <1>2, DataBounds DEF CommandReturns, CommandIInv
    <2> QED
        BY <1>2, <2>1 DEF CommandReturns, CommandIInv, RingTypeOK, KeptInRing, LowByte, Drained, ringVars
<1>3. CASE UNCHANGED commandVars
    BY <1>3 DEF commandVars, CommandIInv, RingTypeOK, KeptInRing, LowByte, Drained, ringVars
<1> QED
    BY <1>1, <1>2, <1>3, WriteArgumentStep, PrintByteStep DEF CommandNext

(* The command "ring" (src/term.c) prints, in their order, the low bytes   *)
(* of the last arguments, as many as the remainder of their number by the  *)
(* size of the ring, whatever that size is and the pool memory held.       *)
THEOREM RingPrintsLastArguments == CommandSpec => []CommandInv
<1>1. CommandIInv => CommandInv
    <2> SUFFICES ASSUME CommandIInv
                 PROVE  CommandInv
        OBVIOUS
    <2> USE DEF CommandIInv
    <2>1. reads \in Slots
        BY DEF RingTypeOK, Slots, Drained
    <2>2. shown \in Seq(AString) /\ Len(shown) = reads
        BY <2>1, StringsOfCells DEF RingTypeOK, Drained
    <2>3. shown \in Seq(AString) /\ Len(shown) < Size
        BY <2>1, <2>2, SizeAssumption DEF Slots
    <2>4. args \in Seq(Letters) /\ Len(args) <= MaxArgs
        BY MaxArgsAssumption
    <2>5. PrintsLastArguments
        <3> SUFFICES ASSUME phase = "done"
                     PROVE  shown = [n \in 1 .. Len(args) % Size |->
                                          StringOf(LowByte(Len(args) % Size, n))]
            BY DEF PrintsLastArguments
        <3>1. reads = Len(args) % Size
            BY DEF Drained, KeptInRing
        <3>2. \A n \in 1 .. reads : stored[n - 1] = LowByte(Len(args) % Size, n)
            BY <3>1 DEF KeptInRing
        <3> QED
            BY <3>1, <3>2 DEF Drained
    <2> QED
        BY <2>1, <2>3, <2>4, <2>5 DEF CommandInv, CommandTypeOK, AString, Slots
<1> QED
    BY <1>1, CommandInitially, CommandInductive, PTL DEF CommandSpec
===========================================================================
