----------------------------- MODULE ByteQueue ------------------------------
(***************************************************************************)
(* jackpal.androidterm.emulatorview.ByteQueue: the circular byte buffer    *)
(* between one producer thread and one consumer thread.  Both calls run    *)
(* under the object's monitor, block in wait() and wake the other side     *)
(* with notify(), but only on a transition they observed when they         *)
(* started: write() notifies if the queue was empty, read() if it was      *)
(* full.                                                                   *)
(*                                                                         *)
(* The monitor is explicit (`owner'); every run copied by the inner loops  *)
(* is a step.  A byte is its position in the producer's stream, which is   *)
(* all that first-in-first-out delivery can tell apart.                    *)
(***************************************************************************)
EXTENDS Naturals, Sequences

CONSTANTS Capacity,     \* mBuffer.length
          MaxChunk,     \* the longest write() the producer makes
          MaxRead,      \* the longest read() the consumer makes
          MaxBytes      \* bound on the producer's stream

ASSUME ByteQueueAssumption ==
  /\ Capacity \in Nat \ {0}
  /\ MaxChunk \in Nat \ {0}
  /\ MaxRead \in Nat \ {0}
  /\ MaxBytes \in Nat

VARIABLES
  mBuffer, mHead, mStoredBytes,   \* the fields of the object
  owner,                          \* which thread holds the object's monitor
  wpc, wLength, wasEmpty,         \* the producer's call of write()
  rpc, rLength, wasFull,          \* the consumer's call of read()
  polled,                         \* how this consumer calls read()
  sent, received                  \* history: bytes put in and taken out

fields == <<mBuffer, mHead, mStoredBytes>>
producer == <<wpc, wLength, wasEmpty>>
consumer == <<rpc, rLength, wasFull>>
vars == <<fields, owner, producer, consumer, polled, sent, received>>

Slots == 0..(Capacity - 1)
MinOf(a, b) == IF a < b THEN a ELSE b

(* The index in mBuffer of the k-th stored byte, counted from 0.           *)
Slot(k) == IF mHead + k < Capacity THEN mHead + k ELSE mHead + k - Capacity

Init ==
  /\ mBuffer = [i \in Slots |-> 0] /\ mHead = 0 /\ mStoredBytes = 0
  /\ owner = "none"
  /\ wpc = "idle" /\ wLength = 0 /\ wasEmpty = FALSE
  /\ rpc = "idle" /\ rLength = 0 /\ wasFull = FALSE
  /\ polled \in BOOLEAN
  /\ sent = 0 /\ received = << >>
-----------------------------------------------------------------------------
(* write(buffer, offset, length).  A zero length returns at once and an    *)
(* illegal one throws before the monitor is entered: neither changes state.*)

BeginWrite ==
  /\ wpc = "idle"
  /\ \E n \in 1..MaxChunk : sent + n <= MaxBytes /\ wLength' = n
  /\ wpc' = "enter"
  /\ UNCHANGED <<fields, owner, wasEmpty, consumer, sent, received, polled>>

WriteEnter ==
  /\ wpc = "enter" /\ owner = "none"
  /\ owner' = "producer"
  /\ wasEmpty' = (mStoredBytes = 0)
  /\ wpc' = "loop"
  /\ UNCHANGED <<fields, wLength, consumer, sent, received, polled>>

\* mutant: the tail is not wrapped to the start of the array.
WriteStart_NoWrap == mHead + mStoredBytes

(* Where one contiguous copy starts, and how long it can be.               *)
WriteStart == LET tail == mHead + mStoredBytes
              IN  IF tail >= Capacity THEN tail - Capacity ELSE tail

\* mutant: the run is cut only by the end of the array, not by mHead.
WriteOneRun_IgnoreHead == Capacity - WriteStart

WriteOneRun == LET tail == mHead + mStoredBytes
               IN  IF tail >= Capacity THEN mHead - (tail - Capacity)
                                       ELSE Capacity - tail

WriteRun ==
  /\ wpc = "loop" /\ owner = "producer"
  /\ wLength > 0 /\ mStoredBytes < Capacity
  /\ LET bytesToCopy == MinOf(WriteOneRun, wLength)
     IN  /\ mBuffer' = [i \in Slots |->
                          IF WriteStart <= i /\ i < WriteStart + bytesToCopy
                          THEN sent + 1 + (i - WriteStart) ELSE mBuffer[i]]
         /\ mStoredBytes' = mStoredBytes + bytesToCopy
         /\ wLength' = wLength - bytesToCopy
         /\ sent' = sent + bytesToCopy
  /\ UNCHANGED <<mHead, owner, wpc, wasEmpty, consumer, received, polled>>

WriteWait ==
  /\ wpc = "loop" /\ owner = "producer"
  /\ wLength > 0 /\ mStoredBytes = Capacity
  /\ owner' = "none"
  /\ wpc' = "waiting"
  /\ UNCHANGED <<fields, wLength, wasEmpty, consumer, sent, received, polled>>

WriteReenter ==
  /\ wpc = "notified" /\ owner = "none"
  /\ owner' = "producer"
  /\ wpc' = "loop"
  /\ UNCHANGED <<fields, wLength, wasEmpty, consumer, sent, received, polled>>

(* notify(): with one consumer, it is the only thread that can be waiting. *)
NotifyConsumer == rpc' = IF rpc = "waiting" THEN "notified" ELSE rpc

WriteExit ==
  /\ wpc = "loop" /\ owner = "producer"
  /\ wLength = 0
  /\ IF wasEmpty THEN NotifyConsumer ELSE UNCHANGED rpc
  /\ owner' = "none"
  /\ wpc' = "idle"
  /\ UNCHANGED <<fields, wLength, wasEmpty, rLength, wasFull, sent, received, polled>>
-----------------------------------------------------------------------------
(* read(buffer, offset, length)                                            *)

(* A consumer that polls, as both callers in TermSession do, first asks    *)
(* getBytesAvailable() under the monitor and requests no more than that;   *)
(* with nothing available its read of length 0 returns at once.  Other     *)
(* consumers request what they like.                                       *)
getBytesAvailable == mStoredBytes

\* mutant: the caller always asks for a full buffer.
ReadLengths_FullBuffer == {MaxRead}

\* mutant: the caller leaves the last available byte in the queue.
ReadLengths_LeaveLast == IF polled
                         THEN {k \in 1..MaxRead : k = getBytesAvailable - 1}
                         ELSE 1..MaxRead

ReadLengths == IF polled
               THEN {MinOf(getBytesAvailable, MaxRead)} \ {0}
               ELSE 1..MaxRead

BeginRead ==
  /\ rpc = "idle"
  /\ polled => owner = "none"
  /\ rLength' \in ReadLengths
  /\ rpc' = "enter"
  /\ UNCHANGED <<fields, owner, producer, wasFull, sent, received, polled>>

(* Entering the monitor, first or after wait(), and the test of the        *)
(* `while (mStoredBytes == 0) wait()' loop.                                *)
ReadEnter ==
  /\ rpc \in {"enter", "notified"} /\ owner = "none"
  /\ IF mStoredBytes = 0
     THEN rpc' = "waiting" /\ UNCHANGED <<owner, wasFull>>
     ELSE rpc' = "loop" /\ owner' = "consumer"
          /\ wasFull' = (mStoredBytes = Capacity)
  /\ UNCHANGED <<fields, producer, rLength, sent, received, polled>>

ReadOneRun == MinOf(Capacity - mHead, mStoredBytes)

\* mutant: mHead is not moved past the bytes that were read.
AdvanceHead_Forgotten(n) == mHead

AdvanceHead(n) == IF mHead + n >= Capacity THEN 0 ELSE mHead + n

ReadRun ==
  /\ rpc = "loop" /\ owner = "consumer"
  /\ rLength > 0 /\ mStoredBytes > 0
  /\ LET bytesToCopy == MinOf(rLength, ReadOneRun)
     IN  /\ received' =
              received \o [i \in 1..bytesToCopy |-> mBuffer[mHead + i - 1]]
         /\ mHead' = AdvanceHead(bytesToCopy)
         /\ mStoredBytes' = mStoredBytes - bytesToCopy
         /\ rLength' = rLength - bytesToCopy
  /\ UNCHANGED <<mBuffer, owner, producer, rpc, wasFull, sent, polled>>

\* mutant: read() never wakes a blocked producer.
NotifyProducer_Dropped == wpc' = wpc

NotifyProducer == wpc' = IF wpc = "waiting" THEN "notified" ELSE wpc

ReadExit ==
  /\ rpc = "loop" /\ owner = "consumer"
  /\ rLength = 0 \/ mStoredBytes = 0
  /\ IF wasFull THEN NotifyProducer ELSE UNCHANGED wpc
  /\ owner' = "none"
  /\ rpc' = "idle" /\ rLength' = 0
  /\ UNCHANGED <<fields, wLength, wasEmpty, wasFull, sent, received, polled>>
-----------------------------------------------------------------------------
(* Object.wait() may return without a notify().                            *)
SpuriousWakeup ==
  /\ \/ wpc = "waiting" /\ wpc' = "notified" /\ UNCHANGED rpc
     \/ rpc = "waiting" /\ rpc' = "notified" /\ UNCHANGED wpc
  /\ UNCHANGED <<fields, owner, wLength, wasEmpty, rLength, wasFull,
                 sent, received, polled>>

Write == WriteEnter \/ WriteRun \/ WriteWait \/ WriteReenter \/ WriteExit
Read == ReadEnter \/ ReadRun \/ ReadExit

Next == BeginWrite \/ Write \/ BeginRead \/ Read \/ SpuriousWakeup

Safety == Init /\ [][Next]_vars

(* A thread inside a call keeps running, a thread that asks for the        *)
(* monitor is granted it if it is free again and again, and the consumer   *)
(* keeps polling or reading.  Nothing is assumed of the producer's next    *)
(* call or of spurious wakeups.                                            *)
Spec == /\ Safety
        /\ WF_vars(WriteRun \/ WriteWait \/ WriteExit)
        /\ WF_vars(ReadRun \/ ReadExit)
        /\ SF_vars(BeginRead)
        /\ SF_vars(WriteEnter \/ WriteReenter)
        /\ SF_vars(ReadEnter)
-----------------------------------------------------------------------------
(* The type invariant: every field of the object and every local of the    *)
(* two calls has its type; mHead is a slot and mStoredBytes never exceeds  *)
(* mBuffer.length.                                                         *)
TypeOK ==
  /\ mBuffer \in [Slots -> Nat] /\ mHead \in Slots
  /\ mStoredBytes \in 0..Capacity
  /\ owner \in {"none", "producer", "consumer"}
  /\ wpc \in {"idle", "enter", "loop", "waiting", "notified"}
  /\ rpc \in {"idle", "enter", "loop", "waiting", "notified"}
  /\ wLength \in Nat /\ rLength \in Nat
  /\ wasEmpty \in BOOLEAN /\ wasFull \in BOOLEAN /\ polled \in BOOLEAN
  /\ sent \in Nat /\ received \in Seq(Nat)

(* First in, first out: what read() delivered, followed by what is stored  *)
(* from mHead on, is exactly what write() was given, in order - across     *)
(* every split of a copy at the end of the array.                          *)
InOrder ==
  /\ \A k \in 1..Len(received) : received[k] = k
  /\ Len(received) + mStoredBytes = sent
  /\ \A k \in 0..(mStoredBytes - 1) : mBuffer[Slot(k)] = Len(received) + k + 1

(* The class comment calls this `a multi-thread-safe produce-consumer byte *)
(* array': its two threads must never both be in wait(), for only one of   *)
(* them could wake the other.  It fails for consumers that block in        *)
(* read(): write() decides on entry whether it will notify, so when it had *)
(* to wait and the queue was emptied meanwhile, it leaves a reader that    *)
(* blocked in between asleep on a queue that is not empty.                 *)
NeverBothWaiting == ~(wpc = "waiting" /\ rpc = "waiting")

(* Check then act: a consumer that polls never blocks in read(), although  *)
(* the count it acts on was taken before the producer's next bytes.        *)
(* TermSession relies on it: readFromProcess() runs on the UI thread.      *)
PolledReadNeverBlocks == polled => rpc \notin {"waiting", "notified"}

(* The ring implements the bounded FIFO pipe.                              *)
Pipe == INSTANCE BytePipe
ImplementsPipe == Pipe!Spec

(* With a consumer that polls, a started write() returns, however long it  *)
(* is: the producer that blocked on a full queue is always woken.          *)
WriteReturns == polled /\ wpc # "idle" ~> wpc = "idle"

(* With a consumer that polls, every byte put in is taken out.             *)
BytesDelivered ==
  \A k \in 1..MaxBytes : (polled /\ sent >= k) ~> (Len(received) >= k)
=============================================================================
