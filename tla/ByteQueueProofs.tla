-------------------------- MODULE ByteQueueProofs ---------------------------
(***************************************************************************)
(* For every capacity, chunk size and stream length: ByteQueue keeps its   *)
(* types, delivers first-in-first-out, never blocks a consumer that polls, *)
(* and implements the bounded pipe.  IInv is the inductive strengthening:  *)
(* the monitor belongs to exactly the thread whose call is inside it, and  *)
(* a consumer that polled still finds at least one byte when it enters.    *)
(***************************************************************************)
EXTENDS ByteQueue, SequenceTheorems, TLAPS

(* The thread inside the copy loop is the one that owns the monitor.       *)
MonitorHeld ==
  /\ wpc = "loop" <=> owner = "producer"
  /\ rpc = "loop" <=> owner = "consumer"

(* Bytes a polling consumer has seen are still there when it enters.       *)
PolledBytesStay == (polled /\ rpc = "enter") => mStoredBytes > 0

IInv == TypeOK /\ MonitorHeld /\ PolledBytesStay /\ PolledReadNeverBlocks
        /\ InOrder

-----------------------------------------------------------------------------
(* The run write() may copy in one go starts inside the array, is not      *)
(* empty while there is room, stays inside the array and fits in the room. *)
LEMMA WriteRunFits ==
  ASSUME TypeOK, mStoredBytes < Capacity
  PROVE  /\ WriteStart \in Slots
         /\ WriteOneRun \in Nat \ {0}
         /\ WriteStart + WriteOneRun <= Capacity
         /\ mStoredBytes + WriteOneRun <= Capacity
  BY ByteQueueAssumption DEF TypeOK, Slots, WriteStart, WriteOneRun

(* The run read() may copy in one go is not empty while bytes are stored   *)
(* and stays inside the array.                                             *)
LEMMA ReadRunFits ==
  ASSUME TypeOK, mStoredBytes > 0
  PROVE  /\ ReadOneRun \in Nat \ {0}
         /\ mHead + ReadOneRun <= Capacity
         /\ ReadOneRun <= mStoredBytes
  BY ByteQueueAssumption DEF TypeOK, Slots, ReadOneRun, MinOf

(* The n bytes read() appends: how long the delivered stream becomes and   *)
(* what stands in it.                                                      *)
LEMMA Delivered ==
  ASSUME NEW s \in Seq(Nat), NEW n \in Nat, NEW f \in [1..n -> Nat]
  PROVE  /\ s \o f \in Seq(Nat)
         /\ Len(s \o f) = Len(s) + n
         /\ \A i \in 1..Len(s) : (s \o f)[i] = s[i]
         /\ \A i \in 1..n : (s \o f)[Len(s) + i] = f[i]
<1>1. f \in Seq(Nat) /\ Len(f) = n
  OBVIOUS
<1>2. Len(s) \in Nat
  BY LenProperties
<1>3. /\ s \o f \in Seq(Nat)
      /\ Len(s \o f) = Len(s) + n
      /\ \A i \in 1..(Len(s) + n) :
           (s \o f)[i] = IF i <= Len(s) THEN s[i] ELSE f[i - Len(s)]
  BY <1>1, ConcatProperties, Zenon
<1>4. \A i \in 1..Len(s) : (s \o f)[i] = s[i]
  BY <1>2, <1>3
<1>5. \A i \in 1..n : (s \o f)[Len(s) + i] = f[i]
  BY <1>2, <1>3
<1>6. QED
  BY <1>3, <1>4, <1>5

-----------------------------------------------------------------------------
(* The initial state: an empty ring, nobody in the monitor.                *)
LEMMA InitIInv == Init => IInv
<1> SUFFICES ASSUME Init PROVE IInv
  OBVIOUS
<1>1. << >> \in Seq(Nat) /\ Len(<< >>) = 0
  OBVIOUS
<1>2. TypeOK
  BY <1>1, ByteQueueAssumption DEF Init, TypeOK, Slots
<1>3. InOrder
  BY <1>1, ByteQueueAssumption DEF Init, InOrder
<1>4. QED
  BY <1>2, <1>3 DEF Init, IInv, MonitorHeld, PolledBytesStay, PolledReadNeverBlocks

(* A step that leaves the ring and the two streams alone keeps the order.  *)
LEMMA InOrderStutter ==
  ASSUME InOrder, UNCHANGED <<fields, sent, received>>
  PROVE  InOrder'
  BY DEF InOrder, Slot, fields

(* One copy of write(): the new bytes are exactly the stored bytes that    *)
(* follow the old ones, and no stored byte is overwritten.                 *)
LEMMA WriteRunIInv == IInv /\ WriteRun => IInv'
<1> SUFFICES ASSUME IInv, WriteRun PROVE IInv'
  OBVIOUS
<1> DEFINE n == MinOf(WriteOneRun, wLength)
<1>1. TypeOK /\ InOrder /\ mStoredBytes < Capacity /\ wLength > 0
  BY DEF IInv, WriteRun
<1>2. /\ WriteStart \in Slots
      /\ WriteOneRun \in Nat \ {0}
      /\ WriteStart + WriteOneRun <= Capacity
      /\ mStoredBytes + WriteOneRun <= Capacity
  BY <1>1, WriteRunFits
<1>3. n \in Nat /\ n <= WriteOneRun /\ n <= wLength /\ n > 0
  BY <1>1, <1>2 DEF TypeOK, MinOf
<1>4. /\ mBuffer' = [i \in Slots |->
                       IF WriteStart <= i /\ i < WriteStart + n
                       THEN sent + 1 + (i - WriteStart) ELSE mBuffer[i]]
      /\ mStoredBytes' = mStoredBytes + n
      /\ wLength' = wLength - n
      /\ sent' = sent + n
      /\ UNCHANGED <<mHead, owner, wpc, wasEmpty, consumer, received, polled>>
  BY DEF WriteRun
<1> HIDE DEF n
<1>5. TypeOK'
  <2>1. mBuffer' \in [Slots -> Nat]
    <3>1. \A i \in Slots : mBuffer'[i] \in Nat
      BY <1>1, <1>2, <1>3, <1>4, ByteQueueAssumption DEF TypeOK, Slots
    <3>2. QED
      BY <3>1, <1>4
  <2>2. mStoredBytes' \in 0..Capacity /\ wLength' \in Nat /\ sent' \in Nat
    BY <1>1, <1>2, <1>3, <1>4, ByteQueueAssumption DEF TypeOK, Slots
  <2>3. QED
    BY <1>1, <1>4, <2>1, <2>2 DEF TypeOK, consumer
<1>6. InOrder'
  <2> DEFINE R == Len(received)
  <2>1. R \in Nat
    BY <1>1 DEF TypeOK
  <2>2. Len(received') + mStoredBytes' = sent'
    <3>1. R + mStoredBytes = sent
      BY <1>1 DEF InOrder
    <3>2. mStoredBytes \in Nat /\ sent \in Nat
      BY <1>1, ByteQueueAssumption DEF TypeOK
    <3>3. QED
      BY <1>3, <1>4, <2>1, <3>1, <3>2
  <2>3. ASSUME NEW k \in 0..(mStoredBytes' - 1)
        PROVE  mBuffer'[Slot(k)'] = R + k + 1
    <3>1. Slot(k)' = Slot(k) /\ Slot(k) \in Slots
      BY <1>1, <1>2, <1>3, <1>4, ByteQueueAssumption DEF Slot, TypeOK, Slots
    <3>2. CASE k < mStoredBytes
      <4>1. ~(WriteStart <= Slot(k) /\ Slot(k) < WriteStart + n)
        BY <1>1, <1>2, <1>3, <3>2, ByteQueueAssumption
           DEF Slot, TypeOK, Slots, WriteStart, WriteOneRun
      <4>2. k \in 0..(mStoredBytes - 1)
        BY <1>1, <1>3, <1>4, <3>2 DEF TypeOK
      <4>3. QED
        BY <1>1, <1>4, <3>1, <4>1, <4>2 DEF InOrder
    <3>3. CASE k >= mStoredBytes
      <4>1. Slot(k) = WriteStart + (k - mStoredBytes)
        BY <1>1, <1>2, <1>3, <1>4, <3>3, ByteQueueAssumption
           DEF Slot, TypeOK, Slots, WriteStart, WriteOneRun
      <4>2. WriteStart <= Slot(k) /\ Slot(k) < WriteStart + n
        BY <1>1, <1>2, <1>3, <1>4, <3>3, <4>1 DEF TypeOK, Slots
      <4>3. mBuffer'[Slot(k)] = sent + 1 + (Slot(k) - WriteStart)
        BY <1>4, <3>1, <4>2
      <4>4. sent = R + mStoredBytes
        BY <1>1 DEF InOrder
      <4>5. QED
        BY <1>1, <1>2, <2>1, <3>1, <4>1, <4>3, <4>4 DEF TypeOK, Slots
    <3>4. QED
      BY <1>1, <1>3, <1>4, <3>2, <3>3 DEF TypeOK
  <2>4. QED
    BY <1>1, <1>4, <2>2, <2>3 DEF InOrder
<1>7. MonitorHeld' /\ PolledBytesStay' /\ PolledReadNeverBlocks'
  BY <1>1, <1>3, <1>4
     DEF IInv, MonitorHeld, PolledBytesStay, PolledReadNeverBlocks, consumer,
         TypeOK
<1>8. QED
  BY <1>5, <1>6, <1>7 DEF IInv

(* One copy of read(): what is appended to the delivered stream are its    *)
(* next bytes, and the stored bytes that remain are the ones after those.  *)
LEMMA ReadRunIInv == IInv /\ ReadRun => IInv'
<1> SUFFICES ASSUME IInv, ReadRun PROVE IInv'
  OBVIOUS
<1> DEFINE n == MinOf(rLength, ReadOneRun)
<1> DEFINE f == [i \in 1..n |-> mBuffer[mHead + i - 1]]
<1> DEFINE R == Len(received)
<1>1. TypeOK /\ InOrder /\ mStoredBytes > 0 /\ rLength > 0
  BY DEF IInv, ReadRun
<1>2. /\ ReadOneRun \in Nat \ {0}
      /\ mHead + ReadOneRun <= Capacity
      /\ ReadOneRun <= mStoredBytes
  BY <1>1, ReadRunFits
<1>3. n \in Nat /\ n <= ReadOneRun /\ n <= rLength /\ n > 0
  BY <1>1, <1>2 DEF TypeOK, MinOf
<1>4. /\ received' = received \o f
      /\ mHead' = AdvanceHead(n)
      /\ mStoredBytes' = mStoredBytes - n
      /\ rLength' = rLength - n
      /\ UNCHANGED <<mBuffer, owner, producer, rpc, wasFull, sent, polled>>
  BY DEF ReadRun
<1> HIDE DEF n
<1>5. R \in Nat /\ received \in Seq(Nat)
  BY <1>1 DEF TypeOK
<1>6. ASSUME NEW i \in 1..n PROVE f[i] = R + i /\ f[i] \in Nat
  <2>1. i - 1 \in 0..(mStoredBytes - 1) /\ Slot(i - 1) = mHead + i - 1
    BY <1>1, <1>2, <1>3, ByteQueueAssumption DEF TypeOK, Slots, Slot
  <2>2. mBuffer[Slot(i - 1)] = R + (i - 1) + 1
    BY <1>1, <2>1 DEF InOrder
  <2>3. QED
    BY <1>3, <1>5, <2>1, <2>2
<1>7. f \in [1..n -> Nat]
  BY <1>6
<1>8. /\ received' \in Seq(Nat)
      /\ Len(received') = R + n
      /\ \A i \in 1..R : received'[i] = received[i]
      /\ \A i \in 1..n : received'[R + i] = f[i]
  <2> HIDE DEF f
  <2> QED
    BY <1>3, <1>4, <1>5, <1>7, Delivered
<1>9. /\ mHead' \in Slots
      /\ \A k \in 0..(mStoredBytes' - 1) : /\ Slot(k)' = Slot(k + n)
                                           /\ k + n \in 0..(mStoredBytes - 1)
  <2>1. /\ Capacity \in Nat \ {0}
        /\ mHead \in 0..(Capacity - 1) /\ mStoredBytes \in 0..Capacity
    BY <1>1, ByteQueueAssumption DEF TypeOK, Slots
  <2>2. mHead' = IF mHead + n >= Capacity THEN 0 ELSE mHead + n
    BY <1>4 DEF AdvanceHead
  <2>3. mHead' \in Slots
    BY <2>1, <2>2, <1>3 DEF Slots
  <2>4. ASSUME NEW k \in 0..(mStoredBytes' - 1)
        PROVE  Slot(k)' = Slot(k + n) /\ k + n \in 0..(mStoredBytes - 1)
    <3>1. k \in Nat /\ k + n < mStoredBytes
      BY <1>3, <1>4, <2>1
    <3>2. Slot(k)' = IF mHead' + k < Capacity THEN mHead' + k
                                              ELSE mHead' + k - Capacity
      BY DEF Slot
    <3>3. Slot(k + n) = IF mHead + (k + n) < Capacity THEN mHead + (k + n)
                                            ELSE mHead + (k + n) - Capacity
      BY DEF Slot
    <3>4. QED
      BY <1>2, <1>3, <2>1, <2>2, <3>1, <3>2, <3>3
  <2>5. QED
    BY <2>3, <2>4
<1>10. TypeOK'
  <2>1. mStoredBytes' \in 0..Capacity /\ rLength' \in Nat
    BY <1>1, <1>2, <1>3, <1>4, ByteQueueAssumption DEF TypeOK
  <2>2. QED
    BY <1>1, <1>4, <1>8, <1>9, <2>1 DEF TypeOK, producer
<1>11. InOrder'
  <2>1. ASSUME NEW k \in 1..Len(received') PROVE received'[k] = k
    <3>1. CASE k <= R
      <4>1. k \in 1..R
        BY <1>5, <1>8, <3>1
      <4>2. QED
        BY <1>1, <1>8, <4>1 DEF InOrder
    <3>2. CASE k > R
      <4>1. k - R \in 1..n /\ k = R + (k - R)
        BY <1>3, <1>5, <1>8, <3>2
      <4>2. received'[k] = f[k - R] /\ f[k - R] = R + (k - R)
        BY <1>6, <1>8, <4>1
      <4>3. QED
        BY <4>1, <4>2
    <3>3. QED
      BY <1>3, <1>5, <1>8, <3>1, <3>2
  <2>2. Len(received') + mStoredBytes' = sent'
    <3>1. R + mStoredBytes = sent
      BY <1>1 DEF InOrder
    <3>2. mStoredBytes \in Nat
      BY <1>1, ByteQueueAssumption DEF TypeOK
    <3>3. QED
      BY <1>3, <1>4, <1>5, <1>8, <3>1, <3>2
  <2>3. ASSUME NEW k \in 0..(mStoredBytes' - 1)
        PROVE  mBuffer'[Slot(k)'] = Len(received') + k + 1
    <3>1. mBuffer[Slot(k + n)] = R + (k + n) + 1
      BY <1>1, <1>9 DEF InOrder
    <3>2. QED
      BY <1>3, <1>4, <1>5, <1>8, <1>9, <3>1
  <2>4. QED
    BY <2>1, <2>2, <2>3 DEF InOrder
<1>12. MonitorHeld' /\ PolledBytesStay' /\ PolledReadNeverBlocks'
  BY <1>4
     DEF IInv, MonitorHeld, PolledBytesStay, PolledReadNeverBlocks, producer,
         ReadRun
<1>13. QED
  BY <1>10, <1>11, <1>12 DEF IInv

(* Every other step leaves the ring alone; what is left to show is who     *)
(* holds the monitor and that a polling consumer does not wait.            *)
LEMMA NextIInv == IInv /\ [Next]_vars => IInv'
<1> SUFFICES ASSUME IInv, [Next]_vars PROVE IInv'
  OBVIOUS
<1> USE ByteQueueAssumption
<1> DEFINE Rest == MonitorHeld /\ PolledBytesStay /\ PolledReadNeverBlocks
<1>0. TypeOK /\ InOrder /\ Rest
  BY DEF IInv
<1>1. CASE BeginWrite
  <2>1. TypeOK' /\ Rest'
    BY <1>0, <1>1 DEF BeginWrite, fields, consumer, TypeOK, MonitorHeld,
       PolledBytesStay, PolledReadNeverBlocks
  <2>2. QED
    BY <1>0, <1>1, <2>1, InOrderStutter DEF BeginWrite, IInv
<1>2. CASE WriteEnter
  <2>1. TypeOK' /\ Rest'
    BY <1>0, <1>2 DEF WriteEnter, fields, consumer, TypeOK, MonitorHeld,
       PolledBytesStay, PolledReadNeverBlocks
  <2>2. QED
    BY <1>0, <1>2, <2>1, InOrderStutter DEF WriteEnter, IInv
<1>3. CASE WriteRun
  BY <1>3, WriteRunIInv
<1>4. CASE WriteWait
  <2>1. TypeOK' /\ Rest'
    BY <1>0, <1>4 DEF WriteWait, fields, consumer, TypeOK, MonitorHeld,
       PolledBytesStay, PolledReadNeverBlocks
  <2>2. QED
    BY <1>0, <1>4, <2>1, InOrderStutter DEF WriteWait, IInv
<1>5. CASE WriteReenter
  <2>1. TypeOK' /\ Rest'
    BY <1>0, <1>5 DEF WriteReenter, fields, consumer, TypeOK, MonitorHeld,
       PolledBytesStay, PolledReadNeverBlocks
  <2>2. QED
    BY <1>0, <1>5, <2>1, InOrderStutter DEF WriteReenter, IInv
<1>6. CASE WriteExit
  <2>1. TypeOK' /\ Rest'
    BY <1>0, <1>6 DEF WriteExit, NotifyConsumer, fields, TypeOK, MonitorHeld,
       PolledBytesStay, PolledReadNeverBlocks
  <2>2. QED
    BY <1>0, <1>6, <2>1, InOrderStutter DEF WriteExit, IInv
<1>7. CASE BeginRead
  <2>1. TypeOK' /\ Rest'
    BY <1>0, <1>7 DEF BeginRead, ReadLengths, getBytesAvailable, MinOf, fields,
       producer, TypeOK, MonitorHeld, PolledBytesStay, PolledReadNeverBlocks
  <2>2. QED
    BY <1>0, <1>7, <2>1, InOrderStutter DEF BeginRead, IInv
<1>8. CASE ReadEnter
  <2>1. TypeOK' /\ Rest'
    <3>1. CASE mStoredBytes = 0
      <4>1. ~polled
        BY <1>0, <1>8, <3>1 DEF ReadEnter, PolledBytesStay,
           PolledReadNeverBlocks, TypeOK
      <4>2. QED
        BY <1>0, <1>8, <3>1, <4>1 DEF ReadEnter, fields, producer, TypeOK,
           MonitorHeld, PolledBytesStay, PolledReadNeverBlocks
    <3>2. CASE mStoredBytes # 0
      BY <1>0, <1>8, <3>2 DEF ReadEnter, fields, producer, TypeOK,
         MonitorHeld, PolledBytesStay, PolledReadNeverBlocks
    <3>3. QED
      BY <3>1, <3>2
  <2>2. QED
    BY <1>0, <1>8, <2>1, InOrderStutter DEF ReadEnter, IInv
<1>9. CASE ReadRun
  BY <1>9, ReadRunIInv
<1>10. CASE ReadExit
  <2>1. TypeOK' /\ Rest'
    BY <1>0, <1>10 DEF ReadExit, NotifyProducer, fields, TypeOK, MonitorHeld,
       PolledBytesStay, PolledReadNeverBlocks
  <2>2. QED
    BY <1>0, <1>10, <2>1, InOrderStutter DEF ReadExit, IInv
<1>11. CASE SpuriousWakeup
  <2>1. TypeOK' /\ Rest'
    BY <1>0, <1>11 DEF SpuriousWakeup, fields, TypeOK, MonitorHeld,
       PolledBytesStay, PolledReadNeverBlocks
  <2>2. QED
    BY <1>0, <1>11, <2>1, InOrderStutter DEF SpuriousWakeup, IInv
<1>12. CASE UNCHANGED vars
  <2>1. TypeOK' /\ Rest'
    BY <1>0, <1>12 DEF vars, fields, producer, consumer, TypeOK, MonitorHeld,
       PolledBytesStay, PolledReadNeverBlocks
  <2>2. QED
    BY <1>0, <1>12, <2>1, InOrderStutter DEF vars, IInv
<1>13. QED
  BY <1>1, <1>2, <1>3, <1>4, <1>5, <1>6, <1>7, <1>8, <1>9, <1>10, <1>11, <1>12
     DEF Next, Write, Read

-----------------------------------------------------------------------------
(* The inductive invariant holds in every behaviour.                       *)
THEOREM InductiveInvariant == Safety => []IInv
  BY InitIInv, NextIInv, PTL DEF Safety

(* Every field and local keeps its type: mHead stays inside the array and  *)
(* mStoredBytes never exceeds it.                                          *)
THEOREM TypeCorrect == Safety => []TypeOK
<1>1. IInv => TypeOK
  BY DEF IInv
<1>2. QED
  BY <1>1, InductiveInvariant, PTL

(* First in, first out, for every size of the ring and of the calls.       *)
THEOREM FirstInFirstOut == Safety => []InOrder
<1>1. IInv => InOrder
  BY DEF IInv
<1>2. QED
  BY <1>1, InductiveInvariant, PTL

(* A consumer that polls before it reads is never blocked in read().       *)
THEOREM PollingNeverBlocks == Safety => []PolledReadNeverBlocks
<1>1. IInv => PolledReadNeverBlocks
  BY DEF IInv
<1>2. QED
  BY <1>1, InductiveInvariant, PTL

-----------------------------------------------------------------------------
(* A copy of write() is a Put of the pipe: at least one byte, and only     *)
(* bytes that fit.                                                         *)
LEMMA WriteRunIsPut == IInv /\ WriteRun => Pipe!Put
<1> SUFFICES ASSUME IInv, WriteRun PROVE Pipe!Put
  OBVIOUS
<1> DEFINE n == MinOf(WriteOneRun, wLength)
<1>1. TypeOK /\ InOrder /\ mStoredBytes < Capacity /\ wLength > 0
  BY DEF IInv, WriteRun
<1>2. WriteOneRun \in Nat \ {0} /\ mStoredBytes + WriteOneRun <= Capacity
  BY <1>1, WriteRunFits
<1>3. n \in Nat /\ n <= WriteOneRun /\ n > 0
  BY <1>1, <1>2 DEF TypeOK, MinOf
<1>4. sent' = sent + n /\ UNCHANGED received
  BY DEF WriteRun
<1>5. /\ Len(received) + mStoredBytes = sent
      /\ Len(received) \in Nat /\ mStoredBytes \in Nat /\ sent \in Nat
  BY <1>1, ByteQueueAssumption DEF InOrder, TypeOK
<1> HIDE DEF n
<1>6. QED
  BY <1>2, <1>3, <1>4, <1>5, ByteQueueAssumption DEF Pipe!Put

(* A copy of read() is a Take of the pipe: the oldest bytes in transit.    *)
LEMMA ReadRunIsTake == IInv /\ ReadRun => \E n \in 1..Capacity : Pipe!Take(n)
<1> SUFFICES ASSUME IInv, ReadRun PROVE \E n \in 1..Capacity : Pipe!Take(n)
  OBVIOUS
<1> DEFINE n == MinOf(rLength, ReadOneRun)
<1> DEFINE R == Len(received)
<1>1. TypeOK /\ InOrder /\ mStoredBytes > 0 /\ rLength > 0
  BY DEF IInv, ReadRun
<1>2. /\ ReadOneRun \in Nat \ {0}
      /\ mHead + ReadOneRun <= Capacity
      /\ ReadOneRun <= mStoredBytes
  BY <1>1, ReadRunFits
<1>3. n \in Nat /\ n <= ReadOneRun /\ n > 0
  BY <1>1, <1>2 DEF TypeOK, MinOf
<1>4. /\ received' = received \o [i \in 1..n |-> mBuffer[mHead + i - 1]]
      /\ UNCHANGED sent
  BY DEF ReadRun
<1> HIDE DEF n
<1>5. /\ R + mStoredBytes = sent
      /\ R \in Nat /\ mStoredBytes \in 0..Capacity /\ sent \in Nat
  BY <1>1, ByteQueueAssumption DEF InOrder, TypeOK
<1>6. ASSUME NEW i \in 1..n PROVE mBuffer[mHead + i - 1] = R + i
  <2>1. i - 1 \in 0..(mStoredBytes - 1) /\ Slot(i - 1) = mHead + i - 1
    BY <1>1, <1>2, <1>3, ByteQueueAssumption DEF TypeOK, Slots, Slot
  <2>2. mBuffer[Slot(i - 1)] = R + (i - 1) + 1
    BY <1>1, <2>1 DEF InOrder
  <2>3. QED
    BY <1>3, <1>5, <2>1, <2>2
<1>7. [i \in 1..n |-> mBuffer[mHead + i - 1]] = [i \in 1..n |-> R + i]
  BY <1>6
<1>8. n \in 1..Capacity /\ n <= sent - R
  BY <1>2, <1>3, <1>5, ByteQueueAssumption
<1>9. received' = received \o [i \in 1..n |-> Len(received) + i]
  BY <1>4, <1>7
<1>10. Pipe!Take(n)
  BY <1>4, <1>8, <1>9 DEF Pipe!Take
<1>11. QED
  BY <1>8, <1>10

(* The ring, its monitor and its wait/notify calls implement the bounded   *)
(* FIFO pipe: no step loses, repeats, reorders or over-commits a byte.     *)
THEOREM Refinement == Safety => ImplementsPipe
<1>1. Init => Pipe!Init
  BY DEF Init, Pipe!Init
<1>2. ASSUME IInv, [Next]_vars PROVE [Pipe!Next]_(Pipe!pipeVars)
  <2>1. CASE WriteRun
    BY <1>2, <2>1, WriteRunIsPut DEF Pipe!Next
  <2>2. CASE ReadRun
    BY <1>2, <2>2, ReadRunIsTake DEF Pipe!Next
  <2>3. CASE \/ BeginWrite \/ WriteEnter \/ WriteWait \/ WriteReenter
             \/ WriteExit \/ BeginRead \/ ReadEnter \/ ReadExit
             \/ SpuriousWakeup \/ UNCHANGED vars
    BY <2>3 DEF BeginWrite, WriteEnter, WriteWait, WriteReenter, WriteExit,
       BeginRead, ReadEnter, ReadExit, SpuriousWakeup, vars, Pipe!pipeVars
  <2>4. QED
    BY <1>2, <2>1, <2>2, <2>3 DEF Next, Write, Read
<1>3. QED
  BY <1>1, <1>2, InductiveInvariant, PTL
     DEF Safety, ImplementsPipe, Pipe!Spec
=============================================================================
