----------------------------- MODULE TermSession ----------------------------
(***************************************************************************)
(* jackpal.androidterm.emulatorview.TermSession, as the application's      *)
(* ShellTermSession uses it: the main (UI) thread, the reader and writer   *)
(* threads it starts, the two ByteQueues between them and the messages of  *)
(* the two Loopers.                                                        *)
(*                                                                         *)
(* A queue is the BytePipe that ByteQueue implements, seen by its count of *)
(* bytes: one step of a write() puts in what fits, a full queue blocks it, *)
(* a read() of at most the available bytes takes them at once.  Bytes are  *)
(* not told apart.  Nobody interrupts these threads.                       *)
(***************************************************************************)
EXTENDS Integers

CONSTANTS Capacity,     \* the size of both queues and of all three buffers
          MaxWrite,     \* the longest write() of the main thread
          MaxIn,        \* bound: bytes the process prints
          MaxOut        \* bound: bytes the main thread writes

ASSUME TermSessionAssumption ==
  /\ Capacity \in Nat \ {0}
  /\ MaxWrite \in Nat \ {0}
  /\ MaxIn \in Nat /\ MaxOut \in Nat

VARIABLES
  emulating,      \* mEmulator # null: initializeEmulator() has run
  mIsRunning,
  finished,       \* finish() has run; the streams are closed
  mByteQueue, mWriteQueue,        \* how many bytes each queue stores
  mainPc, mainBytes,              \* the main thread; bytes of readFromProcess()
  mainLeft, mainDone, handling,   \* its write(): to put, put; inside a handler?
  newInput,       \* NEW_INPUT messages on the main looper
  newOutput, finishPosted,        \* NEW_OUTPUT, then FINISH, on the writer's
  mWriterHandler, \* what the main thread may see of this field
  rpc, rLeft, rDone,              \* the reader: bytes of its buffer to put, put
  wpc, wBytes,                    \* the writer: bytes of its buffer
  process,        \* the shell at the other end of the pty
  printed, processed, written, delivered    \* history: bytes so far

main == <<mainPc, mainBytes, mainLeft, mainDone, handling>>
reader == <<rpc, rLeft, rDone>>
writer == <<wpc, wBytes>>
flags == <<emulating, mIsRunning, finished>>
writerMsgs == <<newOutput, finishPosted>>
counts == <<printed, processed, written, delivered>>
vars == <<flags, mByteQueue, mWriteQueue, main, newInput, writerMsgs,
          mWriterHandler, reader, writer, process, counts>>

MinOf(a, b) == IF a < b THEN a ELSE b

Init ==
  /\ emulating = FALSE /\ mIsRunning = FALSE /\ finished = FALSE
  /\ mByteQueue = 0 /\ mWriteQueue = 0
  /\ mainPc = "idle" /\ mainBytes = 0
  /\ mainLeft = 0 /\ mainDone = 0 /\ handling = FALSE
  /\ newInput = 0 /\ newOutput = 0 /\ finishPosted = FALSE
  /\ mWriterHandler = "null"
  /\ rpc = "new" /\ rLeft = 0 /\ rDone = 0
  /\ wpc = "new" /\ wBytes = 0
  /\ process = "alive"
  /\ printed = 0 /\ processed = 0 /\ written = 0 /\ delivered = 0

-----------------------------------------------------------------------------
(* write(data, offset, count): put into mWriteQueue, then notify.          *)

BeginWrite(n) ==
  /\ mainPc' = "put"
  /\ mainLeft' = n /\ mainDone' = 0
  /\ written' = written + n

(* A key, a paste or a remote command.  Callers drop a finished session,   *)
(* but write to one whose emulator has not started (RemoteInterface).      *)
UserWrite ==
  /\ mainPc = "idle" /\ ~finished
  /\ \E n \in 1..MaxWrite : written + n <= MaxOut /\ BeginWrite(n)
  /\ UNCHANGED <<flags, mByteQueue, mWriteQueue, mainBytes, handling, newInput,
                 writerMsgs, mWriterHandler, reader, writer, process,
                 printed, processed, delivered>>

\* mutant: the buffer is overrun instead of waiting for room.
Fits_NoBound(queue, length) == length

(* What one step of a ByteQueue.write() copies before it waits for room.   *)
Fits(queue, length) == MinOf(length, Capacity - queue)

(* Taking the queue's monitor after the writer thread has released it      *)
(* makes the writer's earlier assignment of mWriterHandler visible.        *)
WritePut ==
  /\ mainPc = "put" /\ mainLeft > 0 /\ mWriteQueue < Capacity
  /\ LET k == Fits(mWriteQueue, mainLeft)
     IN  /\ mWriteQueue' = mWriteQueue + k
         /\ mainLeft' = mainLeft - k /\ mainDone' = mainDone + k
  /\ mWriterHandler' = IF mWriterHandler = "published" THEN "seen"
                                                       ELSE mWriterHandler
  /\ mainPc' = IF mainLeft' = 0 THEN "notify" ELSE "put"
  /\ UNCHANGED <<flags, mByteQueue, mainBytes, handling, newInput, writerMsgs,
                 reader, writer, process, counts>>

(* The unsynchronised read of mWriterHandler: once the writer has assigned *)
(* it and until something orders the assignment before this read, either   *)
(* value may be seen; a value once seen stays seen.                        *)
SeesHandler ==
  /\ mWriterHandler # "null"
  /\ mWriterHandler' = "seen"

SeesNull ==
  /\ mWriterHandler # "seen"
  /\ UNCHANGED mWriterHandler

\* mutant: the writer thread is never signalled.
PostNewOutput_Forgotten == newOutput' = newOutput

PostNewOutput == newOutput' = newOutput + 1

notifyNewOutput ==
  /\ mainPc = "notify"
  /\ \/ SeesHandler /\ PostNewOutput
     \/ SeesNull /\ UNCHANGED newOutput
  /\ mainPc' = IF handling THEN "append" ELSE "idle"
  /\ mainDone' = 0
  /\ UNCHANGED <<flags, mByteQueue, mWriteQueue, mainBytes, mainLeft, handling,
                 newInput, finishPosted, reader, writer, process,
                 counts>>
-----------------------------------------------------------------------------
(* The main thread's other operations                                      *)

(* updateSize() with the first size starts emulation and the two threads;  *)
(* ShellTermSession then writes the initial command, if there is one.      *)
initializeEmulator ==
  /\ mainPc = "idle" /\ ~emulating /\ ~finished
  /\ emulating' = TRUE /\ mIsRunning' = TRUE
  /\ rpc' = "reading" /\ wpc' = "starting"
  /\ \/ \E n \in 1..MaxWrite : written + n <= MaxOut /\ BeginWrite(n)
     \/ UNCHANGED <<mainPc, mainLeft, mainDone, written>>
  /\ UNCHANGED <<finished, mByteQueue, mWriteQueue, mainBytes, handling,
                 newInput, writerMsgs, mWriterHandler, rLeft, rDone, wBytes,
                 process, printed, processed, delivered>>

(* mMsgHandler, NEW_INPUT.                                                 *)
HandleNewInput ==
  /\ mainPc = "idle" /\ newInput > 0
  /\ newInput' = newInput - 1
  /\ IF mIsRunning THEN mainPc' = "check" /\ handling' = TRUE
                   ELSE UNCHANGED <<mainPc, handling>>
  /\ UNCHANGED <<flags, mByteQueue, mWriteQueue, mainBytes, mainLeft, mainDone,
                 writerMsgs, mWriterHandler, reader, writer, process,
                 counts>>

\* mutant: the receive buffer is smaller than the queue.
BytesToRead_SmallBuffer == MinOf(mByteQueue, 1)

BytesToRead == MinOf(mByteQueue, Capacity)

(* readFromProcess(): ask, then read that many, then append to emulator.   *)
CheckInput ==
  /\ mainPc = "check"
  /\ mainBytes' = BytesToRead
  /\ mainPc' = "read"
  /\ UNCHANGED <<flags, mByteQueue, mWriteQueue, mainLeft, mainDone, handling,
                 newInput, writerMsgs, mWriterHandler, reader, writer, process, counts>>

ReadInput ==
  /\ mainPc = "read"
  /\ mByteQueue' = mByteQueue - mainBytes
  /\ mainPc' = "append"
  /\ UNCHANGED <<flags, mWriteQueue, mainBytes, mainLeft, mainDone, handling,
                 newInput, writerMsgs, mWriterHandler, reader, writer, process, counts>>

(* TerminalEmulator.append(): a byte may complete a query that it answers  *)
(* with a write() (sendDeviceAttributes).                                  *)
AppendByte ==
  /\ mainPc = "append" /\ mainBytes > 0
  /\ mainBytes' = mainBytes - 1 /\ processed' = processed + 1
  /\ \/ \E n \in 1..MaxWrite : written + n <= MaxOut /\ BeginWrite(n)
     \/ UNCHANGED <<mainPc, mainLeft, mainDone, written>>
  /\ UNCHANGED <<flags, mByteQueue, mWriteQueue, handling, newInput,
                 writerMsgs, mWriterHandler, reader, writer, process,
                 printed, delivered>>

AppendReturns ==
  /\ mainPc = "append" /\ mainBytes = 0
  /\ mainPc' = "idle" /\ handling' = FALSE
  /\ UNCHANGED <<flags, mByteQueue, mWriteQueue, mainBytes, mainLeft, mainDone,
                 newInput, writerMsgs, mWriterHandler, reader, writer, process, counts>>

(* finish(): ShellTermSession hangs up the process group and closes the    *)
(* descriptor; TermSession posts FINISH if it sees a handler and closes    *)
(* the streams.                                                            *)
finish ==
  /\ mIsRunning' = FALSE /\ finished' = TRUE
  /\ \/ SeesHandler /\ finishPosted' = TRUE
     \/ SeesNull /\ UNCHANGED finishPosted

(* The user closes the window, or the process watcher's message does.      *)
CloseWindow ==
  /\ mainPc = "idle" /\ ~finished
  /\ finish
  /\ UNCHANGED <<emulating, mByteQueue, mWriteQueue, main, newInput, newOutput,
                 reader, writer, process, counts>>
-----------------------------------------------------------------------------
(* The reader thread.  Its buffer is as large as the queue.                *)

ReaderReads ==
  /\ rpc = "reading"
  /\ \E n \in 1..Capacity : /\ printed + n <= MaxIn
                            /\ printed' = printed + n /\ rLeft' = n
  /\ rpc' = "put"
  /\ UNCHANGED <<flags, mByteQueue, mWriteQueue, main, newInput, writerMsgs,
                 mWriterHandler, rDone, writer, process, processed,
                 written, delivered>>

(* mTermIn.read() returns -1 or throws.                                    *)
ReaderEnds ==
  /\ rpc = "reading" /\ (process = "exited" \/ finished)
  /\ rpc' = "done"
  /\ UNCHANGED <<flags, mByteQueue, mWriteQueue, main, newInput, writerMsgs,
                 mWriterHandler, rLeft, rDone, writer, process, counts>>

ReaderPut ==
  /\ rpc = "put" /\ mByteQueue < Capacity
  /\ LET k == Fits(mByteQueue, rLeft)
     IN  /\ mByteQueue' = mByteQueue + k
         /\ rLeft' = rLeft - k /\ rDone' = rDone + k
  /\ rpc' = IF rLeft' = 0 THEN "post" ELSE "put"
  /\ UNCHANGED <<flags, mWriteQueue, main, newInput, writerMsgs,
                 mWriterHandler, writer, process, counts>>

ReaderPost ==
  /\ rpc = "post"
  /\ newInput' = newInput + 1
  /\ rpc' = "reading" /\ rDone' = 0
  /\ UNCHANGED <<flags, mByteQueue, mWriteQueue, main, writerMsgs,
                 mWriterHandler, rLeft, writer, process, counts>>
-----------------------------------------------------------------------------
(* The writer thread                                                       *)

\* mutant: what was written before the thread started is not drained.
AfterPrepare_NoDrain == wpc' = "loop"

(* "Drain anything in the queue from before we started".                   *)
AfterPrepare == wpc' = "check"

WriterStarts ==
  /\ wpc = "starting"
  /\ mWriterHandler' = "assigned"
  /\ AfterPrepare
  /\ UNCHANGED <<flags, mByteQueue, mWriteQueue, main, newInput, writerMsgs,
                 reader, wBytes, process, counts>>

(* writeToOutput(): ask, then read that many, then write them out.         *)
WriterChecks ==
  /\ wpc = "check"
  /\ wBytes' = MinOf(mWriteQueue, Capacity)
  /\ wpc' = IF wBytes' = 0 THEN "loop" ELSE "read"
  /\ mWriterHandler' = IF mWriterHandler = "assigned" THEN "published"
                                                      ELSE mWriterHandler
  /\ UNCHANGED <<flags, mByteQueue, mWriteQueue, main, newInput, writerMsgs,
                 reader, process, counts>>

WriterReads ==
  /\ wpc = "read"
  /\ mWriteQueue' = mWriteQueue - wBytes
  /\ wpc' = "write"
  /\ UNCHANGED <<flags, mByteQueue, main, newInput, writerMsgs, mWriterHandler,
                 reader, wBytes, process, counts>>

(* An IOException is ignored: the bytes are lost.                          *)
WriterWrites ==
  /\ wpc = "write"
  /\ \/ delivered' = delivered + wBytes
     \/ (process = "exited" \/ finished) /\ UNCHANGED delivered
  /\ wpc' = "loop" /\ wBytes' = 0
  /\ UNCHANGED <<flags, mByteQueue, mWriteQueue, main, newInput, writerMsgs,
                 mWriterHandler, reader, process, printed, processed,
                 written>>

(* The looper: NEW_OUTPUT messages in order, then FINISH.                  *)
HandleNewOutput ==
  /\ wpc = "loop" /\ newOutput > 0
  /\ newOutput' = newOutput - 1
  /\ wpc' = "check"
  /\ UNCHANGED <<flags, mByteQueue, mWriteQueue, main, newInput, finishPosted,
                 mWriterHandler, reader, wBytes, process, counts>>

HandleFinish ==
  /\ wpc = "loop" /\ newOutput = 0 /\ finishPosted
  /\ wpc' = "done"
  /\ UNCHANGED <<flags, mByteQueue, mWriteQueue, main, newInput, writerMsgs,
                 mWriterHandler, reader, wBytes, process, counts>>
-----------------------------------------------------------------------------
(* The shell process                                                       *)

ProcessExits ==
  /\ process = "alive"
  /\ process' = "exited"
  /\ UNCHANGED <<flags, mByteQueue, mWriteQueue, main, newInput, writerMsgs,
                 mWriterHandler, reader, writer, counts>>
-----------------------------------------------------------------------------
MainRuns == WritePut \/ notifyNewOutput \/ CheckInput \/ ReadInput
            \/ AppendByte \/ AppendReturns
Main == UserWrite \/ initializeEmulator \/ HandleNewInput \/ CloseWindow
        \/ MainRuns
Reader == ReaderReads \/ ReaderEnds \/ ReaderPut \/ ReaderPost
Writer == WriterStarts \/ WriterChecks \/ WriterReads \/ WriterWrites
          \/ HandleNewOutput \/ HandleFinish

Next == Main \/ Reader \/ Writer \/ ProcessExits

Safety == Init /\ [][Next]_vars

(* Threads inside an operation keep running; the main looper dispatches    *)
(* messages in order, so a NEW_INPUT is handled however often the user     *)
(* types; the pty accepts what the writer writes; a read of a closed or    *)
(* hung-up pty returns.  Nothing makes the process print or exit, or the   *)
(* user type, close the window or show it for the first time.              *)
Spec == /\ Safety
        /\ WF_vars(MainRuns) /\ SF_vars(HandleNewInput)
        /\ WF_vars(ReaderPut \/ ReaderPost \/ ReaderEnds)
        /\ WF_vars(Writer)
-----------------------------------------------------------------------------
(* The type invariant; no queue is ever over its capacity.                 *)
TypeOK ==
  /\ emulating \in BOOLEAN /\ mIsRunning \in BOOLEAN /\ finished \in BOOLEAN
  /\ mByteQueue \in 0..Capacity /\ mWriteQueue \in 0..Capacity
  /\ mainPc \in {"idle", "put", "notify", "check", "read", "append"}
  /\ mainBytes \in 0..Capacity
  /\ mainLeft \in 0..MaxWrite /\ mainDone \in 0..MaxWrite
  /\ handling \in BOOLEAN
  /\ newInput \in Nat /\ newOutput \in Nat /\ finishPosted \in BOOLEAN
  /\ mWriterHandler \in {"null", "assigned", "published", "seen"}
  /\ rpc \in {"new", "reading", "put", "post", "done"}
  /\ rLeft \in 0..Capacity /\ rDone \in 0..Capacity
  /\ wpc \in {"new", "starting", "check", "read", "write", "loop", "done"}
  /\ wBytes \in 0..Capacity
  /\ process \in {"alive", "exited"}
  /\ printed \in Nat /\ processed \in Nat
  /\ written \in Nat /\ delivered \in Nat

(* No input is forgotten: the bytes of every chunk the reader has finished *)
(* putting are covered by a NEW_INPUT that is still to be handled, or by   *)
(* the readFromProcess() in progress, while the session runs.              *)
InputSignalled ==
  (mIsRunning /\ mByteQueue > rDone) =>
     \/ newInput > 0
     \/ mainPc = "check"
     \/ mainPc = "read" /\ mainBytes >= mByteQueue - rDone

(* No output is forgotten: the bytes of every write() that has returned    *)
(* are covered by a NEW_OUTPUT or by a writeToOutput() that is to come, in *)
(* spite of the unsynchronised mWriterHandler that write() may see as null *)
(* after the writer thread has set it.                                     *)
OutputSignalled ==
  (mWriteQueue > mainDone /\ wpc # "done") =>
     \/ newOutput > 0
     \/ wpc \in {"new", "starting", "check"}
     \/ wpc = "read" /\ wBytes >= mWriteQueue - mainDone

(* The writer thread runs and has bytes of mWriteQueue to take before it   *)
(* can wait for anything but the pty.                                      *)
WriterTakes ==
  /\ wpc \notin {"new", "done"}
  /\ newOutput > 0 \/ wpc \in {"starting", "check"} \/ (wpc = "read" /\ wBytes > 0)

(* Nobody waits for nobody.  A main thread blocked on a full mWriteQueue,  *)
(* in a write() no longer than the queue, has a running writer thread that *)
(* will take bytes out; but for a session that was never shown, whose      *)
(* threads only this main thread could start: what RemoteInterface writes  *)
(* to it hangs the application once it is more than the queue holds, and   *)
(* not before.  A reader blocked on a full mByteQueue of a running session *)
(* has a readFromProcess() to come.                                        *)
BlockedIsServed ==
  /\ (mainPc = "put" /\ mWriteQueue = Capacity /\ mainDone + mainLeft <= Capacity) =>
        WriterTakes \/ (wpc = "new" /\ ~emulating /\ written > Capacity)
  /\ (rpc = "put" /\ mByteQueue = Capacity /\ mIsRunning) =>
        \/ newInput > 0
        \/ mainPc = "check"
        \/ mainPc = "read" /\ mainBytes > 0

(* Once emulation has started, a write() of the main thread returns, so    *)
(* the UI does not hang.  True only of a write() no longer than the queue. *)
WriteReturns == (emulating /\ mainPc = "put") ~> (mainPc # "put")

(* Every byte the process prints reaches the emulator or the session is    *)
(* finished first.                                                         *)
InputProcessed ==
  \A k \in 1..MaxIn : (printed >= k) ~> (processed >= k \/ finished)

(* Every byte written reaches the process, once emulation has started,     *)
(* unless the session is finished or the process exits first; also bytes   *)
(* written before the writer thread exists or while it starts.             *)
OutputDelivered ==
  \A k \in 1..MaxOut : (emulating /\ written >= k)
                       ~> (delivered >= k \/ finished \/ process = "exited")

(* "stops the reader and writer threads" (class comment): after finish()   *)
(* the reader thread ends.  It fails when the reader is blocked on a full  *)
(* mByteQueue: the NEW_INPUT that would empty it is now ignored.           *)
ReaderStops == finished ~> (rpc \in {"new", "done"})

(* The same for the writer thread.  It fails when finish() runs before the *)
(* new thread has set mWriterHandler: no FINISH is ever posted.            *)
WriterStops == finished ~> (wpc \in {"new", "done"})
=============================================================================
