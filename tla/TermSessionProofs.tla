------------------------- MODULE TermSessionProofs --------------------------
(***************************************************************************)
(* For every queue size and every bound: no input and no output byte is    *)
(* ever left in a queue that nobody is going to empty, although the main   *)
(* thread reads mWriterHandler without synchronisation; and a thread       *)
(* blocked in a write() no longer than the queue is served, unless it      *)
(* writes too much to a session whose threads it has not started.          *)
(*                                                                         *)
(* IInv strengthens the two properties by what each thread may rely on:    *)
(* only the consumer shrinks a queue, a chunk is no longer than a buffer,  *)
(* and as long as the main thread may miss mWriterHandler, every byte in   *)
(* mWriteQueue is covered by the writer thread's startup drain.            *)
(***************************************************************************)
EXTENDS TermSession, TLAPS

(* The locals of the three threads.                                        *)
ThreadsOK ==
  /\ mainLeft + mainDone <= MaxWrite
  /\ (mainPc = "put") <=> (mainLeft > 0)
  /\ mainPc \notin {"put", "notify"} => mainDone = 0
  /\ mainPc = "read" => mainBytes <= mByteQueue
  /\ rLeft + rDone <= Capacity
  /\ rpc = "put" => rLeft > 0
  /\ rpc \notin {"put", "post"} => rDone = 0
  /\ wpc = "read" => wBytes <= mWriteQueue

(* Before emulation starts there are no threads and there is no input.     *)
NotStarted == ~emulating => (mByteQueue = 0 /\ rpc = "new" /\ wpc = "new")

(* Where the writer thread is, as long as the main thread may miss it.     *)
HandlerOK ==
  /\ (mWriterHandler = "null") <=> (wpc \in {"new", "starting"})
  /\ mWriterHandler = "assigned" => wpc = "check"
  /\ mWriterHandler = "published" =>
       \/ mWriteQueue = 0
       \/ wpc \in {"check", "done"}
       \/ wpc = "read" /\ wBytes >= mWriteQueue

(* The main thread finishes a session between two operations and writes    *)
(* nothing more to it; the writer thread ends only then.                   *)
FinishOK ==
  /\ mIsRunning => ~finished
  /\ mainPc # "idle" => ~finished
  /\ finishPosted => finished
  /\ wpc = "done" => finishPosted

(* Before the writer thread is started all that was written is in its      *)
(* queue or still to be put.                                               *)
NothingTaken ==
  wpc = "new" => (~emulating /\ mWriteQueue + mainLeft = written)

IInv == TypeOK /\ ThreadsOK /\ NotStarted /\ HandlerOK /\ FinishOK
        /\ NothingTaken /\ InputSignalled /\ OutputSignalled

-----------------------------------------------------------------------------
(* No thread runs and both queues are empty.                               *)
LEMMA InitIInv == Init => IInv
<1> SUFFICES ASSUME Init PROVE IInv
  OBVIOUS
<1>1. TypeOK
  <2>1. /\ emulating \in BOOLEAN /\ mIsRunning \in BOOLEAN
        /\ finished \in BOOLEAN /\ handling \in BOOLEAN
        /\ finishPosted \in BOOLEAN
    BY Zenon DEF Init
  <2>2. QED
    BY <2>1, TermSessionAssumption DEF Init, TypeOK
<1>2. ThreadsOK
  BY TermSessionAssumption DEF Init, ThreadsOK
<1>3. NotStarted /\ HandlerOK
  BY DEF Init, NotStarted, HandlerOK
<1>4. InputSignalled /\ OutputSignalled
  BY DEF Init, InputSignalled, OutputSignalled
<1>5. FinishOK /\ NothingTaken
  BY DEF Init, FinishOK, NothingTaken
<1>6. QED
  BY <1>1, <1>2, <1>3, <1>4, <1>5 DEF IInv

(* Types: what is put fits, what is taken is there.                        *)
LEMMA TypeOKStep == IInv /\ [Next]_vars => TypeOK'
<1> SUFFICES ASSUME IInv, [Next]_vars PROVE TypeOK'
  OBVIOUS
<1> USE TermSessionAssumption DEF main, reader, writer, flags, writerMsgs, counts
<1>0. TypeOK /\ ThreadsOK
  BY DEF IInv
<1>1. CASE UserWrite
  BY <1>0, <1>1
     DEF UserWrite, BeginWrite, TypeOK, ThreadsOK
<1>2. CASE WritePut
  BY <1>0, <1>2
     DEF WritePut, Fits, MinOf, TypeOK, ThreadsOK
<1>3. CASE notifyNewOutput
  BY <1>0, <1>3
     DEF notifyNewOutput, SeesHandler, SeesNull, PostNewOutput, TypeOK,
         ThreadsOK
<1>4. CASE initializeEmulator
  BY <1>0, <1>4
     DEF initializeEmulator, BeginWrite, TypeOK, ThreadsOK
<1>5. CASE HandleNewInput
  <2>1. handling' \in BOOLEAN
    BY <1>0, <1>5, Zenon DEF HandleNewInput, TypeOK
  <2>2. QED
    BY <1>0, <1>5, <2>1 DEF HandleNewInput, TypeOK
<1>6. CASE CheckInput
  BY <1>0, <1>6
     DEF CheckInput, BytesToRead, MinOf, TypeOK, ThreadsOK
<1>7. CASE ReadInput
  BY <1>0, <1>7
     DEF ReadInput, TypeOK, ThreadsOK
<1>8. CASE AppendByte
  BY <1>0, <1>8
     DEF AppendByte, BeginWrite, TypeOK, ThreadsOK
<1>9. CASE AppendReturns
  <2>1. handling' \in BOOLEAN
    BY <1>0, <1>9, Zenon DEF AppendReturns, TypeOK
  <2>2. QED
    BY <1>0, <1>9, <2>1 DEF AppendReturns, TypeOK
<1>10. CASE CloseWindow
  BY <1>0, <1>10, ZenonT(40)
     DEF CloseWindow, finish, SeesHandler, SeesNull, TypeOK, ThreadsOK
<1>11. CASE ReaderReads
  BY <1>0, <1>11
     DEF ReaderReads, TypeOK, ThreadsOK
<1>12. CASE ReaderEnds
  BY <1>0, <1>12
     DEF ReaderEnds, TypeOK, ThreadsOK
<1>13. CASE ReaderPut
  BY <1>0, <1>13
     DEF ReaderPut, Fits, MinOf, TypeOK, ThreadsOK
<1>14. CASE ReaderPost
  BY <1>0, <1>14
     DEF ReaderPost, TypeOK, ThreadsOK
<1>15. CASE WriterStarts
  BY <1>0, <1>15
     DEF WriterStarts, AfterPrepare, TypeOK, ThreadsOK
<1>16. CASE WriterChecks
  BY <1>0, <1>16
     DEF WriterChecks, MinOf, TypeOK, ThreadsOK
<1>17. CASE WriterReads
  BY <1>0, <1>17
     DEF WriterReads, TypeOK, ThreadsOK
<1>18. CASE WriterWrites
  BY <1>0, <1>18
     DEF WriterWrites, TypeOK, ThreadsOK
<1>19. CASE HandleNewOutput
  BY <1>0, <1>19
     DEF HandleNewOutput, TypeOK, ThreadsOK
<1>20. CASE HandleFinish
  BY <1>0, <1>20
     DEF HandleFinish, TypeOK, ThreadsOK
<1>21. CASE ProcessExits
  BY <1>0, <1>21
     DEF ProcessExits, TypeOK, ThreadsOK
<1>22. CASE UNCHANGED vars
  BY <1>0, <1>22
     DEF vars, TypeOK
<1>23. QED
  BY <1>1, <1>2, <1>3, <1>4, <1>5, <1>6, <1>7, <1>8, <1>9, <1>10, <1>11,
     <1>12, <1>13, <1>14, <1>15, <1>16, <1>17, <1>18, <1>19, <1>20, <1>21,
     <1>22
     DEF Next, Main, MainRuns, Reader, Writer

(* The locals: a queue only grows between the check and the read.          *)
LEMMA ThreadsOKStep == IInv /\ [Next]_vars => ThreadsOK'
<1> SUFFICES ASSUME IInv, [Next]_vars PROVE ThreadsOK'
  OBVIOUS
<1> USE TermSessionAssumption DEF main, reader, writer, flags, writerMsgs, counts
<1>0. TypeOK /\ ThreadsOK /\ NotStarted
  BY DEF IInv
<1>1. CASE UserWrite
  BY <1>0, <1>1
     DEF UserWrite, BeginWrite, TypeOK, ThreadsOK, NotStarted
<1>2. CASE WritePut
  BY <1>0, <1>2
     DEF WritePut, Fits, MinOf, TypeOK, ThreadsOK, NotStarted
<1>3. CASE notifyNewOutput
  BY <1>0, <1>3
     DEF notifyNewOutput, SeesHandler, SeesNull, PostNewOutput, TypeOK,
         ThreadsOK, NotStarted
<1>4. CASE initializeEmulator
  BY <1>0, <1>4
     DEF initializeEmulator, BeginWrite, TypeOK, ThreadsOK, NotStarted
<1>5. CASE HandleNewInput
  BY <1>0, <1>5
     DEF HandleNewInput, TypeOK, ThreadsOK, NotStarted
<1>6. CASE CheckInput
  BY <1>0, <1>6
     DEF CheckInput, BytesToRead, MinOf, TypeOK, ThreadsOK, NotStarted
<1>7. CASE ReadInput
  BY <1>0, <1>7
     DEF ReadInput, TypeOK, ThreadsOK, NotStarted
<1>8. CASE AppendByte
  BY <1>0, <1>8
     DEF AppendByte, BeginWrite, TypeOK, ThreadsOK, NotStarted
<1>9. CASE AppendReturns
  BY <1>0, <1>9
     DEF AppendReturns, TypeOK, ThreadsOK, NotStarted
<1>10. CASE ReaderReads
  BY <1>0, <1>10
     DEF ReaderReads, TypeOK, ThreadsOK, NotStarted
<1>11. CASE ReaderEnds
  BY <1>0, <1>11
     DEF ReaderEnds, TypeOK, ThreadsOK, NotStarted
<1>12. CASE ReaderPut
  BY <1>0, <1>12
     DEF ReaderPut, Fits, MinOf, TypeOK, ThreadsOK, NotStarted
<1>13. CASE ReaderPost
  BY <1>0, <1>13
     DEF ReaderPost, TypeOK, ThreadsOK, NotStarted
<1>14. CASE WriterStarts
  BY <1>0, <1>14
     DEF WriterStarts, AfterPrepare, TypeOK, ThreadsOK, NotStarted
<1>15. CASE WriterChecks
  BY <1>0, <1>15
     DEF WriterChecks, MinOf, TypeOK, ThreadsOK, NotStarted
<1>16. CASE WriterReads
  BY <1>0, <1>16
     DEF WriterReads, TypeOK, ThreadsOK, NotStarted
<1>17. CASE WriterWrites
  BY <1>0, <1>17
     DEF WriterWrites, TypeOK, ThreadsOK, NotStarted
<1>18. CASE HandleNewOutput
  BY <1>0, <1>18
     DEF HandleNewOutput, TypeOK, ThreadsOK, NotStarted
<1>19. CASE HandleFinish
  BY <1>0, <1>19
     DEF HandleFinish, TypeOK, ThreadsOK, NotStarted
<1>20. CASE \/ CloseWindow \/ ProcessExits \/ UNCHANGED vars
  BY <1>0, <1>20
     DEF CloseWindow, finish, SeesHandler, SeesNull, ProcessExits, vars,
         ThreadsOK
<1>21. QED
  BY <1>1, <1>2, <1>3, <1>4, <1>5, <1>6, <1>7, <1>8, <1>9, <1>10, <1>11,
     <1>12, <1>13, <1>14, <1>15, <1>16, <1>17, <1>18, <1>19, <1>20
     DEF Next, Main, MainRuns, Reader, Writer

(* Nothing runs before initializeEmulator().                               *)
LEMMA NotStartedStep == IInv /\ [Next]_vars => NotStarted'
<1> SUFFICES ASSUME IInv, [Next]_vars PROVE NotStarted'
  OBVIOUS
<1> USE TermSessionAssumption DEF main, reader, writer, flags, writerMsgs, counts
<1>0. TypeOK /\ ThreadsOK /\ NotStarted
  BY DEF IInv
<1>1. CASE initializeEmulator
  BY <1>0, <1>1
     DEF initializeEmulator, BeginWrite, TypeOK, ThreadsOK, NotStarted
<1>2. CASE ReadInput
  BY <1>0, <1>2
     DEF ReadInput, TypeOK, ThreadsOK, NotStarted
<1>3. CASE ReaderReads
  BY <1>0, <1>3
     DEF ReaderReads, TypeOK, ThreadsOK, NotStarted
<1>4. CASE ReaderEnds
  BY <1>0, <1>4
     DEF ReaderEnds, TypeOK, ThreadsOK, NotStarted
<1>5. CASE ReaderPut
  BY <1>0, <1>5
     DEF ReaderPut, Fits, MinOf, TypeOK, ThreadsOK, NotStarted
<1>6. CASE ReaderPost
  BY <1>0, <1>6
     DEF ReaderPost, TypeOK, ThreadsOK, NotStarted
<1>7. CASE WriterStarts
  BY <1>0, <1>7
     DEF WriterStarts, AfterPrepare, TypeOK, ThreadsOK, NotStarted
<1>8. CASE WriterChecks
  BY <1>0, <1>8
     DEF WriterChecks, MinOf, TypeOK, ThreadsOK, NotStarted
<1>9. CASE WriterReads
  BY <1>0, <1>9
     DEF WriterReads, TypeOK, ThreadsOK, NotStarted
<1>10. CASE WriterWrites
  BY <1>0, <1>10
     DEF WriterWrites, TypeOK, ThreadsOK, NotStarted
<1>11. CASE HandleNewOutput
  BY <1>0, <1>11
     DEF HandleNewOutput, TypeOK, ThreadsOK, NotStarted
<1>12. CASE HandleFinish
  BY <1>0, <1>12
     DEF HandleFinish, TypeOK, ThreadsOK, NotStarted
<1>13. CASE \/ UserWrite \/ WritePut \/ notifyNewOutput \/ HandleNewInput
            \/ CheckInput \/ AppendByte \/ AppendReturns \/ CloseWindow
            \/ ProcessExits \/ UNCHANGED vars
  BY <1>0, <1>13
     DEF UserWrite, BeginWrite, WritePut, Fits, MinOf, notifyNewOutput,
         SeesHandler, SeesNull, PostNewOutput, HandleNewInput, CheckInput,
         BytesToRead, AppendByte, AppendReturns, CloseWindow, finish,
         ProcessExits, vars, NotStarted
<1>14. QED
  BY <1>1, <1>2, <1>3, <1>4, <1>5, <1>6, <1>7, <1>8, <1>9, <1>10, <1>11,
     <1>12, <1>13
     DEF Next, Main, MainRuns, Reader, Writer

(* As long as mWriterHandler may be missed, the drain covers all.          *)
LEMMA HandlerOKStep == IInv /\ [Next]_vars => HandlerOK'
<1> SUFFICES ASSUME IInv, [Next]_vars PROVE HandlerOK'
  OBVIOUS
<1> USE TermSessionAssumption DEF main, reader, writer, flags, writerMsgs, counts
<1>0. TypeOK /\ ThreadsOK /\ NotStarted /\ HandlerOK
  BY DEF IInv
<1>1. CASE WritePut
  BY <1>0, <1>1
     DEF WritePut, Fits, MinOf, TypeOK, ThreadsOK, NotStarted, HandlerOK
<1>2. CASE notifyNewOutput
  BY <1>0, <1>2
     DEF notifyNewOutput, SeesHandler, SeesNull, PostNewOutput, TypeOK,
         ThreadsOK, NotStarted, HandlerOK
<1>3. CASE initializeEmulator
  BY <1>0, <1>3
     DEF initializeEmulator, BeginWrite, TypeOK, ThreadsOK, NotStarted,
         HandlerOK
<1>4. CASE CloseWindow
  BY <1>0, <1>4
     DEF CloseWindow, finish, SeesHandler, SeesNull, TypeOK, ThreadsOK,
         NotStarted, HandlerOK
<1>5. CASE WriterStarts
  BY <1>0, <1>5
     DEF WriterStarts, AfterPrepare, TypeOK, ThreadsOK, NotStarted, HandlerOK
<1>6. CASE WriterChecks
  BY <1>0, <1>6
     DEF WriterChecks, MinOf, TypeOK, ThreadsOK, NotStarted, HandlerOK
<1>7. CASE WriterReads
  BY <1>0, <1>7
     DEF WriterReads, TypeOK, ThreadsOK, NotStarted, HandlerOK
<1>8. CASE WriterWrites
  BY <1>0, <1>8
     DEF WriterWrites, TypeOK, ThreadsOK, NotStarted, HandlerOK
<1>9. CASE HandleNewOutput
  BY <1>0, <1>9
     DEF HandleNewOutput, TypeOK, ThreadsOK, NotStarted, HandlerOK
<1>10. CASE HandleFinish
  BY <1>0, <1>10
     DEF HandleFinish, TypeOK, ThreadsOK, NotStarted, HandlerOK
<1>11. CASE \/ UserWrite \/ HandleNewInput \/ CheckInput \/ ReadInput
            \/ AppendByte \/ AppendReturns \/ ReaderReads \/ ReaderEnds
            \/ ReaderPut \/ ReaderPost \/ ProcessExits \/ UNCHANGED vars
  BY <1>0, <1>11
     DEF UserWrite, BeginWrite, HandleNewInput, CheckInput, BytesToRead,
         MinOf, ReadInput, AppendByte, AppendReturns, ReaderReads, ReaderEnds,
         ReaderPut, Fits, ReaderPost, ProcessExits, vars, HandlerOK
<1>12. QED
  BY <1>1, <1>2, <1>3, <1>4, <1>5, <1>6, <1>7, <1>8, <1>9, <1>10, <1>11
     DEF Next, Main, MainRuns, Reader, Writer

(* Only CloseWindow finishes, HandleFinish ends the writer thread.         *)
LEMMA FinishOKStep == IInv /\ [Next]_vars => FinishOK'
<1> SUFFICES ASSUME IInv, [Next]_vars PROVE FinishOK'
  OBVIOUS
<1> USE DEF main, reader, writer, flags, writerMsgs, counts
<1>0. FinishOK
  BY DEF IInv
<1>1. CASE UserWrite \/ WritePut \/ notifyNewOutput
  BY <1>0, <1>1
     DEF UserWrite, BeginWrite, WritePut, notifyNewOutput, SeesHandler,
         SeesNull, PostNewOutput, FinishOK
<1>2. CASE initializeEmulator
  BY <1>0, <1>2 DEF initializeEmulator, BeginWrite, FinishOK
<1>3. CASE HandleNewInput
  BY <1>0, <1>3 DEF HandleNewInput, FinishOK
<1>4. CASE CheckInput \/ ReadInput \/ AppendByte \/ AppendReturns
  BY <1>0, <1>4
     DEF CheckInput, ReadInput, AppendByte, BeginWrite, AppendReturns, FinishOK
<1>5. CASE CloseWindow
  BY <1>0, <1>5 DEF CloseWindow, finish, SeesHandler, SeesNull, FinishOK
<1>6. CASE Reader \/ ProcessExits \/ UNCHANGED vars
  BY <1>0, <1>6
     DEF Reader, ReaderReads, ReaderEnds, ReaderPut, ReaderPost, ProcessExits,
         vars, FinishOK
<1>7. CASE Writer
  BY <1>0, <1>7
     DEF Writer, WriterStarts, AfterPrepare, WriterChecks, WriterReads,
         WriterWrites, HandleNewOutput, HandleFinish, FinishOK
<1>8. QED
  BY <1>1, <1>2, <1>3, <1>4, <1>5, <1>6, <1>7 DEF Next, Main, MainRuns

(* A put moves bytes from the write() to the queue.                        *)
LEMMA NothingTakenStep == IInv /\ [Next]_vars => NothingTaken'
<1> SUFFICES ASSUME IInv, [Next]_vars PROVE NothingTaken'
  OBVIOUS
<1> USE TermSessionAssumption DEF main, reader, writer, flags, writerMsgs, counts
<1>0. TypeOK /\ ThreadsOK /\ NotStarted /\ NothingTaken
  BY DEF IInv
<1>1. CASE UserWrite \/ WritePut
  BY <1>0, <1>1
     DEF UserWrite, BeginWrite, WritePut, Fits, MinOf, TypeOK, ThreadsOK,
         NothingTaken
<1>2. CASE notifyNewOutput \/ HandleNewInput \/ CheckInput \/ ReadInput
           \/ AppendReturns \/ CloseWindow
  BY <1>0, <1>2
     DEF notifyNewOutput, HandleNewInput, CheckInput, ReadInput, AppendReturns,
         CloseWindow, NothingTaken
<1>3. CASE initializeEmulator \/ WriterStarts
  BY <1>0, <1>3
     DEF initializeEmulator, WriterStarts, AfterPrepare, NothingTaken
<1>4. CASE AppendByte
  BY <1>0, <1>4
     DEF AppendByte, BeginWrite, TypeOK, ThreadsOK, NothingTaken
<1>5. CASE Reader \/ ProcessExits \/ UNCHANGED vars
  BY <1>0, <1>5
     DEF Reader, ReaderReads, ReaderEnds, ReaderPut, ReaderPost, ProcessExits,
         vars, NothingTaken
<1>6. CASE WriterChecks \/ WriterReads \/ WriterWrites \/ HandleNewOutput
           \/ HandleFinish
  BY <1>0, <1>6
     DEF WriterChecks, WriterReads, WriterWrites, HandleNewOutput,
         HandleFinish, NothingTaken
<1>7. QED
  BY <1>1, <1>2, <1>3, <1>4, <1>5, <1>6 DEF Next, Main, MainRuns, Writer

(* Input: post after put, and each check takes all there is.               *)
LEMMA InputSignalledStep == IInv /\ [Next]_vars => InputSignalled'
<1> SUFFICES ASSUME IInv, [Next]_vars PROVE InputSignalled'
  OBVIOUS
<1> USE TermSessionAssumption DEF main, reader, writer, flags, writerMsgs, counts
<1>0. TypeOK /\ ThreadsOK /\ NotStarted /\ InputSignalled
  BY DEF IInv
<1>1. CASE UserWrite
  BY <1>0, <1>1
     DEF UserWrite, BeginWrite, TypeOK, ThreadsOK, NotStarted, InputSignalled
<1>2. CASE WritePut
  BY <1>0, <1>2
     DEF WritePut, Fits, MinOf, TypeOK, ThreadsOK, NotStarted, InputSignalled
<1>3. CASE notifyNewOutput
  BY <1>0, <1>3
     DEF notifyNewOutput, SeesHandler, SeesNull, PostNewOutput, TypeOK,
         ThreadsOK, NotStarted, InputSignalled
<1>4. CASE initializeEmulator
  BY <1>0, <1>4
     DEF initializeEmulator, BeginWrite, TypeOK, ThreadsOK, NotStarted,
         InputSignalled
<1>5. CASE HandleNewInput
  BY <1>0, <1>5
     DEF HandleNewInput, TypeOK, ThreadsOK, NotStarted, InputSignalled
<1>6. CASE CheckInput
  BY <1>0, <1>6
     DEF CheckInput, BytesToRead, MinOf, TypeOK, ThreadsOK, NotStarted,
         InputSignalled
<1>7. CASE ReadInput
  BY <1>0, <1>7
     DEF ReadInput, TypeOK, ThreadsOK, NotStarted, InputSignalled
<1>8. CASE AppendByte
  BY <1>0, <1>8
     DEF AppendByte, BeginWrite, TypeOK, ThreadsOK, NotStarted, InputSignalled
<1>9. CASE AppendReturns
  BY <1>0, <1>9
     DEF AppendReturns, TypeOK, ThreadsOK, NotStarted, InputSignalled
<1>10. CASE CloseWindow
  BY <1>0, <1>10
     DEF CloseWindow, finish, SeesHandler, SeesNull, TypeOK, ThreadsOK,
         NotStarted, InputSignalled
<1>11. CASE ReaderPut
  BY <1>0, <1>11
     DEF ReaderPut, Fits, MinOf, TypeOK, ThreadsOK, NotStarted, InputSignalled
<1>12. CASE ReaderPost
  BY <1>0, <1>12
     DEF ReaderPost, TypeOK, ThreadsOK, NotStarted, InputSignalled
<1>13. CASE \/ ReaderReads \/ ReaderEnds \/ WriterStarts \/ WriterChecks
            \/ WriterReads \/ WriterWrites \/ HandleNewOutput
            \/ HandleFinish \/ ProcessExits \/ UNCHANGED vars
  BY <1>0, <1>13
     DEF ReaderReads, ReaderEnds, WriterStarts, AfterPrepare, WriterChecks,
         MinOf, WriterReads, WriterWrites, HandleNewOutput, HandleFinish,
         ProcessExits, vars, InputSignalled
<1>14. QED
  BY <1>1, <1>2, <1>3, <1>4, <1>5, <1>6, <1>7, <1>8, <1>9, <1>10, <1>11,
     <1>12, <1>13
     DEF Next, Main, MainRuns, Reader, Writer

(* Output: the notification, or else the drain, covers the write.          *)
LEMMA OutputSignalledStep == IInv /\ [Next]_vars => OutputSignalled'
<1> SUFFICES ASSUME IInv, [Next]_vars PROVE OutputSignalled'
  OBVIOUS
<1> USE TermSessionAssumption DEF main, reader, writer, flags, writerMsgs, counts
<1>0. TypeOK /\ ThreadsOK /\ HandlerOK /\ OutputSignalled
  BY DEF IInv
<1>1. CASE UserWrite
  BY <1>0, <1>1
     DEF UserWrite, BeginWrite, TypeOK, ThreadsOK, HandlerOK, OutputSignalled
<1>2. CASE WritePut
  BY <1>0, <1>2
     DEF WritePut, Fits, MinOf, TypeOK, ThreadsOK, HandlerOK, OutputSignalled
<1>3. CASE notifyNewOutput
  BY <1>0, <1>3
     DEF notifyNewOutput, SeesHandler, SeesNull, PostNewOutput, TypeOK,
         ThreadsOK, HandlerOK, OutputSignalled
<1>4. CASE initializeEmulator
  BY <1>0, <1>4
     DEF initializeEmulator, BeginWrite, TypeOK, ThreadsOK, HandlerOK,
         OutputSignalled
<1>5. CASE AppendByte
  BY <1>0, <1>5
     DEF AppendByte, BeginWrite, TypeOK, ThreadsOK, HandlerOK, OutputSignalled
<1>6. CASE WriterStarts
  BY <1>0, <1>6
     DEF WriterStarts, AfterPrepare, TypeOK, ThreadsOK, HandlerOK,
         OutputSignalled
<1>7. CASE WriterChecks
  BY <1>0, <1>7
     DEF WriterChecks, MinOf, TypeOK, ThreadsOK, HandlerOK, OutputSignalled
<1>8. CASE WriterReads
  BY <1>0, <1>8
     DEF WriterReads, TypeOK, ThreadsOK, HandlerOK, OutputSignalled
<1>9. CASE WriterWrites
  BY <1>0, <1>9
     DEF WriterWrites, TypeOK, ThreadsOK, HandlerOK, OutputSignalled
<1>10. CASE HandleNewOutput
  BY <1>0, <1>10
     DEF HandleNewOutput, TypeOK, ThreadsOK, HandlerOK, OutputSignalled
<1>11. CASE HandleFinish
  BY <1>0, <1>11
     DEF HandleFinish, TypeOK, ThreadsOK, HandlerOK, OutputSignalled
<1>12. CASE \/ HandleNewInput \/ CheckInput \/ ReadInput \/ AppendReturns
            \/ CloseWindow \/ ReaderReads \/ ReaderEnds \/ ReaderPut
            \/ ReaderPost \/ ProcessExits \/ UNCHANGED vars
  BY <1>0, <1>12
     DEF HandleNewInput, CheckInput, BytesToRead, MinOf, ReadInput,
         AppendReturns, CloseWindow, finish, SeesHandler, SeesNull,
         ReaderReads, ReaderEnds, ReaderPut, Fits, ReaderPost, ProcessExits,
         vars, OutputSignalled
<1>13. QED
  BY <1>1, <1>2, <1>3, <1>4, <1>5, <1>6, <1>7, <1>8, <1>9, <1>10, <1>11,
     <1>12
     DEF Next, Main, MainRuns, Reader, Writer

-----------------------------------------------------------------------------
(* The inductive invariant holds in every behaviour.                       *)
THEOREM InductiveInvariant == Safety => []IInv
<1>1. IInv /\ [Next]_vars => IInv'
  BY TypeOKStep, ThreadsOKStep, NotStartedStep, HandlerOKStep, FinishOKStep,
     NothingTakenStep,
     InputSignalledStep, OutputSignalledStep DEF IInv
<1>2. QED
  BY <1>1, InitIInv, PTL DEF Safety

(* Types: in particular neither queue is ever over its capacity.           *)
THEOREM TypeCorrect == Safety => []TypeOK
<1>1. IInv => TypeOK
  BY DEF IInv
<1>2. QED
  BY <1>1, InductiveInvariant, PTL

(* Input the reader thread has queued is never left without a NEW_INPUT.   *)
THEOREM NoInputForgotten == Safety => []InputSignalled
<1>1. IInv => InputSignalled
  BY DEF IInv
<1>2. QED
  BY <1>1, InductiveInvariant, PTL

(* Output is never left without a NEW_OUTPUT or the writer thread's drain, *)
(* whatever the racy read of mWriterHandler returns.                       *)
THEOREM NoOutputForgotten == Safety => []OutputSignalled
<1>1. IInv => OutputSignalled
  BY DEF IInv
<1>2. QED
  BY <1>1, InductiveInvariant, PTL

(* A blocked thread is served whatever the lengths of the other writes:    *)
(* the safety half of "the UI thread does not hang in write()", and the    *)
(* one case in which it does although the write() is short enough.         *)
THEOREM BlockedServed == Safety => []BlockedIsServed
<1>1. IInv => BlockedIsServed
  <2> SUFFICES ASSUME IInv PROVE BlockedIsServed
    OBVIOUS
  <2>0. /\ TypeOK /\ ThreadsOK /\ FinishOK /\ NothingTaken
        /\ InputSignalled /\ OutputSignalled
    BY DEF IInv
  <2>1. ASSUME mainPc = "put", mWriteQueue = Capacity,
               mainDone + mainLeft <= Capacity
        PROVE  WriterTakes \/ (wpc = "new" /\ ~emulating /\ written > Capacity)
    <3>1. mWriteQueue > mainDone /\ mainLeft > 0
      BY <2>0, <2>1, TermSessionAssumption DEF TypeOK, ThreadsOK
    <3>2. wpc # "done"
      BY <2>0, <2>1 DEF FinishOK
    <3>3. CASE wpc = "new"
      BY <2>0, <2>1, <3>1, <3>3, TermSessionAssumption DEF TypeOK, NothingTaken
    <3>4. CASE wpc # "new"
      BY <2>0, <2>1, <3>1, <3>2, <3>4, TermSessionAssumption
         DEF TypeOK, OutputSignalled, WriterTakes
    <3>5. QED
      BY <3>3, <3>4
  <2>2. ASSUME rpc = "put", mByteQueue = Capacity, mIsRunning
        PROVE  newInput > 0 \/ mainPc = "check" \/ (mainPc = "read" /\ mainBytes > 0)
    <3>1. mByteQueue > rDone
      BY <2>0, <2>2, TermSessionAssumption DEF TypeOK, ThreadsOK
    <3>2. QED
      BY <2>0, <2>2, <3>1, TermSessionAssumption DEF TypeOK, InputSignalled
  <2>3. QED
    BY <2>1, <2>2 DEF BlockedIsServed
<1>2. QED
  BY <1>1, InductiveInvariant, PTL
=============================================================================
