------------------------ MODULE ShellTermSessionProofs -----------------------
(***************************************************************************)
(* Proofs about ShellTermSession, for any number of sessions, descriptors  *)
(* and process ids.  A thread that has fetched a number belongs to a       *)
(* session that was initialized with one; while that session is running    *)
(* the number is its own, afterwards the thread uses it once.              *)
(***************************************************************************)
EXTENDS ShellTermSession, TLAPS

(* A thread exists only once the session has been initialized, and fetches *)
(* only a real descriptor.                                                 *)
ThreadsOK ==
  \A s \in Sessions, th \in Threads :
    /\ io[s][th] # "new" => state[s] \in {"running", "finished"}
    /\ io[s][th] = "fetched" => mTermFd[s] # NoFd
    /\ stray[s][th] = 1 => io[s][th] \in {"idle", "ended"}

(* Two children never have the same id, and a session whose process was    *)
(* created has the id of it.                                               *)
IdsOK ==
  /\ \A s, t \in Children : pid[s] = pid[t] => s = t
  /\ \A s \in Sessions : proc[s] # "none" => mProcId[s] = pid[s] /\ pid[s] \in Pids
  /\ \A s \in Sessions : state[s] = "none" => proc[s] = "none"

(* Only finish() hangs up.                                                 *)
HitsOK == \A hit \in hits : state[hit[1]] = "finished" /\ proc[hit[1]] \in {"none", "reaped"}

IInv == TypeOK /\ DescriptorsOwned /\ ThreadsOK /\ StrayAtMostOnce /\ IdsOK /\ HitsOK

LEMMA InitInvariant == Init => IInv
<1> SUFFICES ASSUME Init PROVE IInv
  OBVIOUS
<1>1. TypeOK
  BY DEF Init, TypeOK, Garbage
<1>2. DescriptorsOwned
  BY SessionAssumption DEF Init, DescriptorsOwned, Live
<1>3. ThreadsOK /\ StrayAtMostOnce
  BY DEF Init, ThreadsOK, StrayAtMostOnce
<1>4. IdsOK /\ HitsOK
  BY DEF Init, IdsOK, Children, HitsOK
<1>5. QED BY <1>1, <1>2, <1>3, <1>4 DEF IInv
-----------------------------------------------------------------------------
LEMMA CreateStep ==
  ASSUME IInv, NEW s \in Sessions, Create(s)
  PROVE  IInv'
<1>1. PICK n \in FreeFds, p \in FreePids :
        /\ state[s] = "none"
        /\ state' = [state EXCEPT ![s] = "created"]
        /\ mTermFd' = [mTermFd EXCEPT ![s] = n]
        /\ mProcId' = [mProcId EXCEPT ![s] = p]
        /\ file' = [file EXCEPT ![n] = s]
        /\ proc' = [proc EXCEPT ![s] = "running"]
        /\ pid' = [pid EXCEPT ![s] = p]
        /\ UNCHANGED <<alive, watcher, posted, io, stray, hits>>
  BY DEF Create, ProcessIdOf
<1>2. n \in Fds /\ file[n] = NoOne /\ p \in Pids /\ \A t \in Children : pid[t] # p
  BY DEF FreeFds, FreePids
<1>3. TypeOK'
  BY <1>1, <1>2 DEF IInv, TypeOK, Garbage
<1>4. DescriptorsOwned'
  BY <1>1, <1>2, SessionAssumption DEF IInv, TypeOK, DescriptorsOwned, Live
<1>5. ThreadsOK' /\ StrayAtMostOnce'
  BY <1>1 DEF IInv, TypeOK, ThreadsOK, StrayAtMostOnce
<1>6. IdsOK'
  BY <1>1, <1>2 DEF IInv, TypeOK, IdsOK, Children
<1>7. HitsOK'
  BY <1>1 DEF IInv, TypeOK, HitsOK
<1>8. QED BY <1>3, <1>4, <1>5, <1>6, <1>7 DEF IInv

LEMMA CreateFailsStep ==
  ASSUME IInv, NEW s \in Sessions, CreateFails(s)
  PROVE  IInv'
<1>1. PICK id \in Garbage :
        /\ state[s] = "none"
        /\ state' = [state EXCEPT ![s] = "created"]
        /\ mTermFd' = [mTermFd EXCEPT ![s] = NoFd]
        /\ mProcId' = [mProcId EXCEPT ![s] = id]
        /\ \/ UNCHANGED file
           \/ \E n \in FreeFds : file' = [file EXCEPT ![n] = Lost]
        /\ UNCHANGED <<alive, proc, pid, watcher, posted, io, stray, hits>>
  BY DEF CreateFails
<1>2. \A n \in FreeFds : n \in Fds /\ file[n] = NoOne
  BY DEF FreeFds
<1>3. TypeOK'
  <2>1. \A t \in Sessions : proc'[t] # "none" => mProcId'[t] \in Pids
    BY <1>1 DEF IInv, TypeOK, IdsOK
  <2>2. file' \in [Fds -> Sessions \cup {NoOne, Lost}]
    BY <1>1, <1>2 DEF IInv, TypeOK
  <2>3. QED BY <1>1, <2>1, <2>2 DEF IInv, TypeOK
<1>4. DescriptorsOwned'
  <2>1. \A n \in Fds : file'[n] \in Sessions => file'[n] = file[n]
    BY <1>1, <1>2, SessionAssumption DEF IInv, TypeOK
  <2>2. \A n \in Fds : file[n] \in Sessions => file'[n] = file[n] /\ file[n] # s
    <3>1. \A n \in Fds : file[n] \in Sessions => file'[n] = file[n]
      <4>1. CASE UNCHANGED file
        BY <4>1
      <4>2. ASSUME NEW m \in FreeFds, file' = [file EXCEPT ![m] = Lost]
            PROVE  \A n \in Fds : file[n] \in Sessions => file'[n] = file[n]
        BY <1>2, <4>2, SessionAssumption DEF IInv, TypeOK
      <4>3. QED BY <1>1, <4>1, <4>2
    <3>2. \A n \in Fds : file[n] \in Sessions => file[n] # s
      BY <1>1 DEF IInv, DescriptorsOwned, Live
    <3>3. QED BY <3>1, <3>2
  <2>3. \A t \in Sessions : t # s => state'[t] = state[t] /\ mTermFd'[t] = mTermFd[t]
    BY <1>1 DEF IInv, TypeOK
  <2>4. mTermFd'[s] = NoFd /\ \A t \in Sessions : mTermFd[t] \in Fds \cup {NoFd}
    BY <1>1 DEF IInv, TypeOK
  <2>5. \A t \in Live' : mTermFd'[t] # NoFd => file'[mTermFd'[t]] = t
    BY <2>2, <2>3, <2>4 DEF IInv, DescriptorsOwned, Live
  <2>6. \A n \in Fds : file'[n] \in Sessions => file'[n] \in Live' /\ mTermFd'[file'[n]] = n
    BY <2>1, <2>2, <2>3 DEF IInv, DescriptorsOwned, Live
  <2>7. QED BY <2>5, <2>6 DEF DescriptorsOwned
<1>5. ThreadsOK' /\ StrayAtMostOnce'
  BY <1>1 DEF IInv, TypeOK, ThreadsOK, StrayAtMostOnce
<1>6. IdsOK'
  BY <1>1 DEF IInv, TypeOK, IdsOK, Children
<1>7. HitsOK'
  BY <1>1 DEF IInv, TypeOK, HitsOK
<1>8. QED BY <1>3, <1>4, <1>5, <1>6, <1>7 DEF IInv

LEMMA InitializeStep ==
  ASSUME IInv, NEW s \in Sessions, Initialize(s)
  PROVE  IInv'
<1>1. /\ state[s] = "created"
      /\ state' = [state EXCEPT ![s] = "running"]
      /\ watcher' = [watcher EXCEPT ![s] = "waiting"]
      /\ io' = [io EXCEPT ![s] = [th \in Threads |-> "idle"]]
      /\ UNCHANGED <<alive, mTermFd, mProcId, file, proc, pid, posted, stray, hits>>
  BY DEF Initialize, WatcherStart, kernel
<1>2. TypeOK'
  BY <1>1 DEF IInv, TypeOK
<1>3. DescriptorsOwned'
  BY <1>1 DEF IInv, TypeOK, DescriptorsOwned, Live
<1>4. ThreadsOK' /\ StrayAtMostOnce'
  BY <1>1 DEF IInv, TypeOK, ThreadsOK, StrayAtMostOnce
<1>5. IdsOK' /\ HitsOK'
  BY <1>1 DEF IInv, TypeOK, IdsOK, HitsOK, Children
<1>6. QED BY <1>2, <1>3, <1>4, <1>5 DEF IInv

(* finish(), of sessions that are not finished yet.                        *)
LEMMA FinishStep ==
  ASSUME IInv, NEW S \in SUBSET Live, finish(S),
         posted' \subseteq Sessions,
         UNCHANGED <<watcher, io, stray>>
  PROVE  IInv'
<1> DEFINE E == Ended(S)
<1>1. /\ hits' = hits \cup {hit \in S \X Sessions : hit[2] \in HungUp(hit[1]) \ {hit[1]}}
      /\ file' = [n \in Fds |-> IF \E s \in E : mTermFd[s] = n THEN NoOne ELSE file[n]]
      /\ state' = [s \in Sessions |-> IF s \in E THEN "finished" ELSE state[s]]
      /\ alive' \in BOOLEAN
      /\ UNCHANGED <<mTermFd, mProcId, proc, pid, watcher, io, stray>>
  BY DEF finish, Closed, IInv, TypeOK
<1>2. /\ E \subseteq Sessions /\ \A s \in E : state[s] \in {"created", "running"}
      /\ S \subseteq E
  BY DEF Live, Ended
<1> HIDE DEF E
<1>3. TypeOK'
  <2>1. hits' \subseteq Sessions \X Sessions
    BY <1>1, <1>2 DEF IInv, TypeOK
  <2>2. file' \in [Fds -> Sessions \cup {NoOne, Lost}]
    BY <1>1 DEF IInv, TypeOK
  <2>3. state' \in [Sessions -> {"none", "created", "running", "finished"}]
    BY <1>1 DEF IInv, TypeOK
  <2>4. QED BY <1>1, <2>1, <2>2, <2>3 DEF IInv, TypeOK
<1>4. DescriptorsOwned'
  <2>1. Live' = Live \ E
    BY <1>1, <1>2 DEF Live
  <2>2. \A s \in Live' : mTermFd'[s] # NoFd => file'[mTermFd'[s]] = s
    <3> SUFFICES ASSUME NEW s \in Live', mTermFd[s] # NoFd
                 PROVE  file'[mTermFd[s]] = s
      BY <1>1
    <3>1. s \in Live /\ s \notin E /\ mTermFd[s] \in Fds /\ file[mTermFd[s]] = s
      BY <2>1 DEF IInv, TypeOK, DescriptorsOwned, Live
    <3>2. \A u \in E : mTermFd[u] # mTermFd[s]
      BY <1>2, <3>1 DEF IInv, DescriptorsOwned, Live
    <3>3. QED BY <1>1, <3>1, <3>2
  <2>3. \A n \in Fds : file'[n] \in Sessions => file'[n] \in Live' /\ mTermFd'[file'[n]] = n
    <3> SUFFICES ASSUME NEW n \in Fds, file'[n] \in Sessions
                 PROVE  file'[n] \in Live' /\ mTermFd[file'[n]] = n
      BY <1>1
    <3>1. file'[n] = file[n] /\ \A u \in E : mTermFd[u] # n
      BY <1>1, SessionAssumption
    <3>2. file[n] \in Live /\ mTermFd[file[n]] = n
      BY <3>1 DEF IInv, DescriptorsOwned
    <3>3. QED BY <2>1, <3>1, <3>2
  <2>4. QED BY <2>2, <2>3 DEF DescriptorsOwned
<1>5. ThreadsOK' /\ StrayAtMostOnce'
  BY <1>1, <1>2 DEF IInv, TypeOK, ThreadsOK, StrayAtMostOnce
<1>6. IdsOK'
  BY <1>1, <1>2 DEF IInv, TypeOK, IdsOK, Children
<1>7. HitsOK'
  <2> SUFFICES ASSUME NEW hit \in hits'
               PROVE  state'[hit[1]] = "finished" /\ proc[hit[1]] \in {"none", "reaped"}
    BY <1>1 DEF HitsOK
  <2>1. CASE hit \in hits
    <3>1. hit[1] \in Sessions /\ state[hit[1]] = "finished" /\ proc[hit[1]] \in {"none", "reaped"}
      BY <2>1 DEF IInv, TypeOK, HitsOK
    <3>2. QED BY <1>1, <3>1
  <2>2. CASE hit \notin hits
    <3>1. PICK s \in S, t \in Sessions : hit = <<s, t>> /\ t # s /\ t \in HungUp(s)
      BY <1>1, <2>2
    <3>2. s \in Sessions /\ hit[1] = s /\ state'[s] = "finished"
      BY <1>1, <1>2, <3>1
    <3>3. t \in Children /\ mProcId[s] \in {Broadcast, OwnGroup, pid[t]}
      BY <3>1 DEF HungUp, Running, Children
    <3>4. pid[t] \in Pids
      BY <3>1, <3>3 DEF IInv, IdsOK, Children
    <3>5. s \notin Children
      <4> SUFFICES ASSUME s \in Children PROVE FALSE
        OBVIOUS
      <4>1. mProcId[s] = pid[s] /\ pid[s] \in Pids
        BY <3>2 DEF IInv, IdsOK, Children
      <4>2. pid[s] = pid[t]
        BY <3>3, <4>1, SessionAssumption
      <4>3. QED BY <3>1, <3>3, <4>2 DEF IInv, IdsOK
    <3>6. proc[s] \in {"none", "reaped"}
      BY <3>2, <3>5 DEF Children, IInv, TypeOK
    <3>7. QED BY <3>2, <3>6
  <2>3. QED BY <2>1, <2>2
<1>8. QED BY <1>3, <1>4, <1>5, <1>6, <1>7 DEF IInv

LEMMA HandleExitStep ==
  ASSUME IInv, NEW s \in Sessions, HandleExit(s)
  PROVE  IInv'
<1>1. posted' \subseteq Sessions /\ UNCHANGED <<watcher, io, stray>>
  BY DEF HandleExit, IInv, TypeOK
<1>2. CASE Handles(s) /\ finish({s})
  <2>1. {s} \in SUBSET Live
    BY <1>2 DEF Handles, Live
  <2>2. QED BY <1>1, <1>2, <2>1, FinishStep
<1>3. CASE UNCHANGED <<alive, session, kernel, hits>>
  BY <1>1, <1>3 DEF session, kernel, IInv, TypeOK, DescriptorsOwned, Live, ThreadsOK,
     StrayAtMostOnce, IdsOK, Children, HitsOK
<1>4. QED BY <1>2, <1>3 DEF HandleExit

LEMMA ExitStep ==
  ASSUME IInv, NEW s \in Sessions, Exit(s)
  PROVE  IInv'
<1>1. /\ proc[s] = "running" /\ proc' = [proc EXCEPT ![s] = "exited"]
      /\ UNCHANGED <<alive, state, mTermFd, mProcId, file, pid, watcher, posted, io, stray, hits>>
  BY DEF Exit, session
<1>2. TypeOK' /\ DescriptorsOwned'
  BY <1>1 DEF IInv, TypeOK, DescriptorsOwned, Live
<1>3. ThreadsOK' /\ StrayAtMostOnce'
  BY <1>1 DEF IInv, ThreadsOK, StrayAtMostOnce
<1>4. Children' = Children
  BY <1>1 DEF Children, IInv, TypeOK
<1>5. IdsOK'
  BY <1>1, <1>4 DEF IInv, TypeOK, IdsOK
<1>6. HitsOK'
  BY <1>1 DEF IInv, TypeOK, HitsOK
<1>7. QED BY <1>2, <1>3, <1>5, <1>6 DEF IInv

LEMMA WaitForStep ==
  ASSUME IInv, NEW s \in Sessions, WaitFor(s)
  PROVE  IInv'
<1>1. /\ \/ \E t \in Sessions : /\ proc[t] = "exited"
                                /\ proc' = [proc EXCEPT ![t] = "reaped"]
         \/ UNCHANGED proc
      /\ watcher' = [watcher EXCEPT ![s] = "done"]
      /\ posted' = posted \cup {s}
      /\ UNCHANGED <<alive, state, mTermFd, mProcId, file, pid, io, stray, hits>>
  BY DEF WaitFor, session, Awaited, Children
<1>2. TypeOK' /\ DescriptorsOwned'
  BY <1>1 DEF IInv, TypeOK, DescriptorsOwned, Live
<1>3. ThreadsOK' /\ StrayAtMostOnce'
  BY <1>1 DEF IInv, ThreadsOK, StrayAtMostOnce
<1>4. Children' \subseteq Children
  BY <1>1 DEF Children, IInv, TypeOK
<1>5. IdsOK'
  BY <1>1, <1>4 DEF IInv, TypeOK, IdsOK
<1>6. HitsOK'
  BY <1>1 DEF IInv, TypeOK, HitsOK
<1>7. QED BY <1>2, <1>3, <1>5, <1>6 DEF IInv
-----------------------------------------------------------------------------
(* The streams.                                                            *)
LEMMA StreamFrame ==
  ASSUME IInv, UNCHANGED <<alive, session, kernel, watcher, posted, hits>>,
         io' \in [Sessions -> [Threads -> {"new", "idle", "fetched", "ended"}]],
         stray' \in [Sessions -> [Threads -> Nat]],
         ThreadsOK', StrayAtMostOnce'
  PROVE  IInv'
BY DEF session, kernel, IInv, TypeOK, DescriptorsOwned, Live, IdsOK, Children, HitsOK

LEMMA FetchStep ==
  ASSUME IInv, NEW s \in Sessions, NEW th \in Threads, Fetch(s, th)
  PROVE  IInv'
<1>1. /\ io[s][th] = "idle"
      /\ io' = [io EXCEPT ![s][th] = IF state[s] = "running" /\ mTermFd[s] # NoFd
                                     THEN "fetched" ELSE "ended"]
      /\ UNCHANGED <<alive, session, kernel, watcher, posted, stray, hits>>
  BY DEF Fetch, StreamOpen
<1>2. io' \in [Sessions -> [Threads -> {"new", "idle", "fetched", "ended"}]]
  BY <1>1 DEF IInv, TypeOK
<1>3. stray[s][th] = 1 => state[s] = "finished"
  BY DEF IInv, StrayAtMostOnce
<1>4. ThreadsOK' /\ StrayAtMostOnce'
  BY <1>1, <1>3 DEF IInv, TypeOK, ThreadsOK, StrayAtMostOnce, session
<1>5. QED BY <1>1, <1>2, <1>4, StreamFrame DEF IInv, TypeOK

LEMMA TransferStep ==
  ASSUME IInv, NEW s \in Sessions, NEW th \in Threads, Transfer(s, th)
  PROVE  IInv'
<1> DEFINE other == file[mTermFd[s]]
<1>1. /\ io[s][th] = "fetched"
      /\ io' = [io EXCEPT ![s][th] = IF other \in {NoOne, Lost} THEN "ended" ELSE "idle"]
      /\ stray' = IF other \in Sessions \ {s} THEN [stray EXCEPT ![s][th] = @ + 1] ELSE stray
      /\ UNCHANGED <<alive, session, kernel, watcher, posted, hits>>
  BY DEF Transfer
<1>2. stray[s][th] = 0 /\ state[s] \in {"running", "finished"} /\ mTermFd[s] # NoFd
  <2>1. stray[s][th] # 1 /\ stray[s][th] <= 1
    BY <1>1 DEF IInv, StrayAtMostOnce
  <2>2. stray[s][th] \in Nat
    BY DEF IInv, TypeOK
  <2>3. state[s] \in {"running", "finished"} /\ mTermFd[s] # NoFd
    BY <1>1 DEF IInv, ThreadsOK
  <2>4. QED BY <2>1, <2>2, <2>3
<1>3. other \in Sessions \ {s} => state[s] = "finished"
  BY <1>2 DEF IInv, DescriptorsOwned, Live
<1> HIDE DEF other
<1>4. io' \in [Sessions -> [Threads -> {"new", "idle", "fetched", "ended"}]]
  BY <1>1 DEF IInv, TypeOK
<1>5. CASE other \in Sessions \ {s}
  <2>1. /\ stray' = [stray EXCEPT ![s][th] = 1]
        /\ stray' \in [Sessions -> [Threads -> Nat]]
    BY <1>1, <1>2, <1>5 DEF IInv, TypeOK
  <2>2. ThreadsOK' /\ StrayAtMostOnce'
    BY <1>1, <1>2, <1>3, <1>5, <2>1 DEF IInv, TypeOK, ThreadsOK, StrayAtMostOnce, session
  <2>3. QED BY <1>1, <1>4, <2>1, <2>2, StreamFrame
<1>6. CASE other \notin Sessions \ {s}
  <2>1. stray' = stray
    BY <1>1, <1>6
  <2>2. ThreadsOK' /\ StrayAtMostOnce'
    BY <1>1, <1>2, <2>1 DEF IInv, TypeOK, ThreadsOK, StrayAtMostOnce, session
  <2>3. QED BY <1>1, <1>4, <2>1, <2>2, StreamFrame DEF IInv, TypeOK
<1>7. QED BY <1>5, <1>6

LEMMA EndOfFileStep ==
  ASSUME IInv, NEW s \in Sessions, EndOfFile(s)
  PROVE  IInv'
<1>1. /\ io' = [io EXCEPT ![s]["reader"] = "ended"]
      /\ io[s]["reader"] = "fetched"
      /\ UNCHANGED <<alive, session, kernel, watcher, posted, stray, hits>>
  BY DEF EndOfFile
<1>2. "reader" \in Threads
  BY DEF Threads
<1>3. io' \in [Sessions -> [Threads -> {"new", "idle", "fetched", "ended"}]]
  BY <1>1, <1>2 DEF IInv, TypeOK
<1>4. ThreadsOK' /\ StrayAtMostOnce'
  BY <1>1, <1>2 DEF IInv, TypeOK, ThreadsOK, StrayAtMostOnce, session
<1>5. QED BY <1>1, <1>3, <1>4, StreamFrame DEF IInv, TypeOK
-----------------------------------------------------------------------------
LEMMA StepInvariant == IInv /\ [Next]_vars => IInv'
<1> SUFFICES ASSUME IInv, [Next]_vars PROVE IInv'
  OBVIOUS
<1>1. ASSUME DestroyService PROVE IInv'
  <2>1. Live \in SUBSET Live /\ finish(Live) /\ UNCHANGED <<watcher, posted, io, stray>>
    BY <1>1 DEF DestroyService
  <2>2. posted' \subseteq Sessions
    BY <2>1 DEF IInv, TypeOK
  <2>3. QED BY <2>1, <2>2, FinishStep
<1>2. ASSUME NEW s \in Sessions, MainThread(s) PROVE IInv'
  <2>1. CASE CloseWindow(s)
    <3>1. {s} \in SUBSET Live /\ finish({s}) /\ UNCHANGED <<watcher, posted, io, stray>>
      BY <2>1 DEF CloseWindow
    <3>2. posted' \subseteq Sessions
      BY <3>1 DEF IInv, TypeOK
    <3>3. QED BY <3>1, <3>2, FinishStep
  <2>2. QED
    BY <1>2, <2>1, CreateStep, CreateFailsStep, InitializeStep, HandleExitStep DEF MainThread
<1>3. ASSUME NEW s \in Sessions, Exit(s) \/ WaitFor(s) PROVE IInv'
  BY <1>3, ExitStep, WaitForStep
<1>4. ASSUME NEW s \in Sessions, Stream(s) PROVE IInv'
  BY <1>4, FetchStep, TransferStep, EndOfFileStep DEF Stream
<1>5. CASE UNCHANGED vars
  BY <1>5 DEF vars, session, kernel, IInv, TypeOK, DescriptorsOwned, Live, ThreadsOK,
     StrayAtMostOnce, IdsOK, Children, HitsOK
<1>6. QED BY <1>1, <1>2, <1>3, <1>4, <1>5 DEF Next

(* IInv is inductive: creating, failing to create and finishing sessions,  *)
(* and late messages, keep numbers and owners together.                    *)
THEOREM InductiveInvariant == Spec => []IInv
<1>1. QED BY InitInvariant, StepInvariant, PTL DEF Spec

(* Type correctness.                                                       *)
THEOREM TypeCorrect == Spec => []TypeOK
<1>1. IInv => TypeOK
  BY DEF IInv
<1>2. QED BY <1>1, InductiveInvariant, PTL

(* A descriptor is closed by its own session only, and by that one.        *)
THEOREM SessionsOwnTheirDescriptors == Spec => []DescriptorsOwned
<1>1. IInv => DescriptorsOwned
  BY DEF IInv
<1>2. QED BY <1>1, InductiveInvariant, PTL

(* A thread of a finished session uses a stale number once.                *)
THEOREM StrayCallsAreBounded == Spec => []StrayAtMostOnce
<1>1. IInv => StrayAtMostOnce
  BY DEF IInv
<1>2. QED BY <1>1, InductiveInvariant, PTL

(* A session with a process of its own that has not been waited for hangs  *)
(* up nobody else's.                                                       *)
THEOREM OthersAreNotHungUp == Spec => []OthersLiveOn
<1>1. IInv => OthersLiveOn
  BY DEF IInv, HitsOK, OthersLiveOn
<1>2. QED BY <1>1, InductiveInvariant, PTL
=============================================================================
