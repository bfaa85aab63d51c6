--------------------------- MODULE ShellTermSession --------------------------
(***************************************************************************)
(* jackpal.androidterm.ShellTermSession and its native half (termExec.cpp, *)
(* the class Exec): the sessions of one application, their pseudoterminals *)
(* and processes.  The main thread creates, initializes and finishes       *)
(* sessions; each one running has a reader, a writer and a watcher thread. *)
(*                                                                         *)
(* Descriptors and process ids are numbers of one small table each: the    *)
(* kernel gives a closed descriptor, and the id of a process that has been *)
(* waited for, to the next one that asks.  A session keeps its numbers     *)
(* after they are gone.  What goes through a pseudoterminal is             *)
(* TermSession's.                                                          *)
(***************************************************************************)
EXTENDS Integers, FiniteSets

CONSTANTS Sessions, Fds, Pids,
          NoFd,               \* the descriptor -1
          Broadcast, Any, OwnGroup  \* what else an uninitialized id can be, see Garbage

NoOne == "free"
Lost == "leaked"        \* open, with no session to close it

ASSUME SessionAssumption ==
  /\ NoFd \notin Fds
  /\ {Broadcast, Any, OwnGroup} \cap Pids = {}
  /\ Broadcast # Any /\ Broadcast # OwnGroup /\ Any # OwnGroup
  /\ NoOne \notin Sessions /\ Lost \notin Sessions

VARIABLES
  alive,       \* the process of the application
  state,       \* of a session: mIsRunning is state = "running"
  mTermFd, mProcId,
  file,        \* the kernel's: the session at the other end of a descriptor
  proc, pid,   \* the process of a session and its id
  watcher,     \* the watcher thread
  posted,      \* sessions with a PROCESS_EXITED on the main looper
  io,          \* the reader and writer threads, see Fetch
  stray,       \* history: their calls that reached another session
  hits         \* history: <<s, t>> where s has hung up the process of t

session == <<state, mTermFd, mProcId>>
kernel == <<file, proc, pid>>
vars == <<alive, session, kernel, watcher, posted, io, stray, hits>>

Threads == {"reader", "writer"}

(* An int nobody has set.  As an argument of kill(-id) 1 means every other *)
(* process, -1 the process 1, which may not be signalled, and 0 the group  *)
(* of the application, which the sessions' processes leave with setsid();  *)
(* as one of waitpid() -1 means any child and 0 one of that group.         *)
Garbage == Pids \cup {Broadcast, Any, OwnGroup}

Live == {s \in Sessions : state[s] \in {"created", "running"}}
Running == {s \in Sessions : proc[s] = "running"}
Children == {s \in Sessions : proc[s] \in {"running", "exited"}}
FreeFds == {n \in Fds : file[n] = NoOne}
FreePids == {p \in Pids : \A s \in Children : pid[s] # p}
-----------------------------------------------------------------------------
(* initializeSession(), the main thread.                                   *)

\* mutant: only the child sets the process id.
ProcessIdOf_Child(p) == Garbage

\* mutant: the id is not copied to the array of the caller.
ProcessIdOf_NotCopied(p) == {OwnGroup}

ProcessIdOf(p) == {p}

(* create_subprocess() is successful.  Whether the shell can be executed   *)
(* shows in how soon the process exits.                                    *)
Create(s) == \E n \in FreeFds, p \in FreePids :
  /\ state[s] = "none"
  /\ state' = [state EXCEPT ![s] = "created"]
  /\ mTermFd' = [mTermFd EXCEPT ![s] = n]
  /\ \E id \in ProcessIdOf(p) : mProcId' = [mProcId EXCEPT ![s] = id]
  /\ file' = [file EXCEPT ![n] = s]
  /\ proc' = [proc EXCEPT ![s] = "running"]
  /\ pid' = [pid EXCEPT ![s] = p]
  /\ UNCHANGED <<alive, watcher, posted, io, stray, hits>>

(* It fails: /dev/ptmx cannot be opened, or there is trouble later and the *)
(* descriptor stays open.  The id is returned in any case.                 *)
CreateFails(s) == \E id \in Garbage :
  /\ state[s] = "none"
  /\ state' = [state EXCEPT ![s] = "created"]
  /\ mTermFd' = [mTermFd EXCEPT ![s] = NoFd]
  /\ mProcId' = [mProcId EXCEPT ![s] = id]
  /\ \/ UNCHANGED file
     \/ \E n \in FreeFds : file' = [file EXCEPT ![n] = Lost]
  /\ UNCHANGED <<alive, proc, pid, watcher, posted, io, stray, hits>>

\* mutant: the watcher thread is not started.
WatcherStart_Never == "new"

WatcherStart == "waiting"

(* initializeEmulator()                                                    *)
Initialize(s) ==
  /\ state[s] = "created"
  /\ state' = [state EXCEPT ![s] = "running"]
  /\ watcher' = [watcher EXCEPT ![s] = WatcherStart]
  /\ io' = [io EXCEPT ![s] = [th \in Threads |-> "idle"]]
  /\ UNCHANGED <<alive, mTermFd, mProcId, kernel, posted, stray, hits>>

(* hangupProcessGroup(): the processes kill(-mProcId) reaches.  SIGHUP     *)
(* ends the application; its terminals are closed, and the kernel hangs up *)
(* the processes on them.                                                  *)
HungUp(s) ==
  {t \in Running : mProcId[s] \in {Broadcast, OwnGroup, pid[t]}}

(* close(mTermFd), for several sessions                                    *)
Closed(S) == [n \in Fds |-> IF \E s \in S : mTermFd[s] = n THEN NoOne ELSE file[n]]

(* The sessions that end with those of S: all, if one hangs up the         *)
(* application.                                                            *)
Ended(S) == IF \E s \in S : mProcId[s] = OwnGroup THEN Live ELSE S

(* finish() of the sessions of S, and what follows in TermSession: the     *)
(* streams are closed and mTermFd is not used any more, but the number     *)
(* stays in it.                                                            *)
finish(S) ==
  /\ hits' = hits \cup {hit \in S \X Sessions : hit[2] \in HungUp(hit[1]) \ {hit[1]}}
  /\ file' = Closed(Ended(S))
  /\ state' = [s \in Sessions |-> IF s \in Ended(S) THEN "finished" ELSE state[s]]
  /\ alive' = (alive /\ \A s \in S : mProcId[s] # OwnGroup)
  /\ UNCHANGED <<mTermFd, mProcId, proc, pid>>

(* The user closes a window.                                               *)
CloseWindow(s) ==
  /\ s \in Live
  /\ finish({s})
  /\ UNCHANGED <<watcher, posted, io, stray>>

(* TermService.onDestroy()                                                 *)
DestroyService ==
  /\ Live # {}
  /\ finish(Live)
  /\ UNCHANGED <<watcher, posted, io, stray>>

\* mutant: a session that is not running any more handles the message.
Handles_Always(s) == TRUE

Handles(s) == state[s] = "running"

(* handleMessage(PROCESS_EXITED) and onProcessExit().  By the settings, it *)
(* finishes the session or prints a message.                               *)
HandleExit(s) ==
  /\ s \in posted
  /\ posted' = posted \ {s}
  /\ \/ Handles(s) /\ finish({s})
     \/ UNCHANGED <<alive, session, kernel, hits>>
  /\ UNCHANGED <<watcher, io, stray>>
-----------------------------------------------------------------------------
(* The processes and the watcher threads.                                  *)

Exit(s) ==
  /\ proc[s] = "running"
  /\ proc' = [proc EXCEPT ![s] = "exited"]
  /\ UNCHANGED <<alive, session, file, pid, watcher, posted, io, stray, hits>>

(* waitFor(mProcId): waitpid() takes an exited child, or fails at once if  *)
(* there is no such child.                                                 *)
Awaited(s) == {t \in Children : mProcId[s] \in {Any, pid[t]}}

WaitFor(s) ==
  /\ watcher[s] = "waiting"
  /\ \/ \E t \in Awaited(s) : /\ proc[t] = "exited"
                              /\ proc' = [proc EXCEPT ![t] = "reaped"]
     \/ Awaited(s) = {} /\ UNCHANGED proc
  /\ watcher' = [watcher EXCEPT ![s] = "done"]
  /\ posted' = posted \cup {s}
  /\ UNCHANGED <<alive, session, file, pid, io, stray, hits>>
-----------------------------------------------------------------------------
(* A read() or write() of a stream.  The number is taken from the stream,  *)
(* then the kernel is called with it.                                      *)

\* mutant: the streams stay open.
StreamOpen_Always(s) == TRUE

StreamOpen(s) == state[s] = "running"

Fetch(s, th) ==
  /\ io[s][th] = "idle"
  /\ io' = [io EXCEPT ![s][th] = IF StreamOpen(s) /\ mTermFd[s] # NoFd
                                 THEN "fetched" ELSE "ended"]
  /\ UNCHANGED <<alive, session, kernel, watcher, posted, stray, hits>>

(* The kernel's answer: bytes of the session, an error, or the bytes of    *)
(* another session that has been given the number.                         *)
Transfer(s, th) ==
  LET other == file[mTermFd[s]]
  IN  /\ io[s][th] = "fetched"
      /\ io' = [io EXCEPT ![s][th] = IF other \in {NoOne, Lost} THEN "ended" ELSE "idle"]
      /\ stray' = IF other \in Sessions \ {s} THEN [stray EXCEPT ![s][th] = @ + 1] ELSE stray
      /\ UNCHANGED <<alive, session, kernel, watcher, posted, hits>>

(* The reader finds the end of file when the process is gone.              *)
EndOfFile(s) ==
  /\ io[s]["reader"] = "fetched" /\ file[mTermFd[s]] = s /\ s \notin Running
  /\ io' = [io EXCEPT ![s]["reader"] = "ended"]
  /\ UNCHANGED <<alive, session, kernel, watcher, posted, stray, hits>>
-----------------------------------------------------------------------------
Init ==
  /\ alive = TRUE
  /\ state = [s \in Sessions |-> "none"]
  /\ mTermFd = [s \in Sessions |-> NoFd]
  /\ mProcId = [s \in Sessions |-> Any]
  /\ file = [n \in Fds |-> NoOne]
  /\ proc = [s \in Sessions |-> "none"]
  /\ pid = [s \in Sessions |-> Any]
  /\ watcher = [s \in Sessions |-> "new"]
  /\ posted = {}
  /\ io = [s \in Sessions |-> [th \in Threads |-> "new"]]
  /\ stray = [s \in Sessions |-> [th \in Threads |-> 0]]
  /\ hits = {}

MainThread(s) ==
  Create(s) \/ CreateFails(s) \/ Initialize(s) \/ CloseWindow(s) \/ HandleExit(s)

Stream(s) ==
  EndOfFile(s) \/ \E th \in Threads : Fetch(s, th) \/ Transfer(s, th)

Next ==
  \/ alive /\ DestroyService
  \/ alive /\ \E s \in Sessions : MainThread(s) \/ WaitFor(s) \/ Stream(s)
  \/ \E s \in Sessions : Exit(s)

(* The watcher threads run, and the main looper delivers its messages.     *)
Fairness ==
  \A s \in Sessions : WF_vars(alive /\ WaitFor(s)) /\ WF_vars(alive /\ HandleExit(s))

Spec == Init /\ [][Next]_vars /\ Fairness
-----------------------------------------------------------------------------
(* Type invariant; the id of a process that was created is that of one.    *)
TypeOK ==
  /\ alive \in BOOLEAN
  /\ state \in [Sessions -> {"none", "created", "running", "finished"}]
  /\ mTermFd \in [Sessions -> Fds \cup {NoFd}]
  /\ mProcId \in [Sessions -> Garbage]
  /\ \A s \in Sessions : proc[s] # "none" => mProcId[s] \in Pids
  /\ file \in [Fds -> Sessions \cup {NoOne, Lost}]
  /\ proc \in [Sessions -> {"none", "running", "exited", "reaped"}]
  /\ pid \in [Sessions -> Pids \cup {Any}]
  /\ watcher \in [Sessions -> {"new", "waiting", "done"}]
  /\ posted \subseteq Sessions
  /\ io \in [Sessions -> [Threads -> {"new", "idle", "fetched", "ended"}]]
  /\ stray \in [Sessions -> [Threads -> Nat]]
  /\ hits \subseteq Sessions \X Sessions

(* "Callers are responsible for calling Exec.close() on the returned file  *)
(* descriptor": a session not yet finished has its own pseudoterminal, no  *)
(* other session has closed it; and the ones of finished sessions are      *)
(* closed.                                                                 *)
DescriptorsOwned ==
  /\ \A s \in Live : mTermFd[s] # NoFd => file[mTermFd[s]] = s
  /\ \A n \in Fds : file[n] \in Sessions => file[n] \in Live /\ mTermFd[file[n]] = n

(* finish() closes the number while the reader and the writer may be about *)
(* to use it.  Each of them reaches another session's pseudoterminal at    *)
(* most once, with the number it had already fetched, and never while its  *)
(* own session is running.                                                 *)
StrayAtMostOnce ==
  \A s \in Sessions, th \in Threads :
    /\ stray[s][th] <= 1
    /\ stray[s][th] = 1 => state[s] = "finished" /\ io[s][th] # "fetched"

(* finish() hangs up no process but the one of the session, except when    *)
(* that could not be created or has been waited for, so that the id is not *)
(* its own.                                                                *)
OthersLiveOn ==
  \A hit \in hits : proc[hit[1]] \in {"none", "reaped"}

(* Another session, whose process could not be created, has waited for an  *)
(* id that is the one of s, or for any child.                              *)
Claimed(s) ==
  \E t \in Sessions : /\ proc[t] = "none" /\ watcher[t] = "done"
                      /\ mProcId[t] \in {Any, pid[s]}

(* A process that exits while its session is running is waited for.  The   *)
(* session is told, unless the watcher of one without a process may have   *)
(* taken the exit: a third process can have the id by then, and the        *)
(* session's own watcher waits for that one.                               *)
ExitIsNoticed ==
  \A s \in Sessions :
    (state[s] = "running" /\ proc[s] = "exited")
      ~> \/ /\ proc[s] = "reaped"
            /\ Claimed(s) \/ (watcher[s] = "done" /\ s \notin posted)
         \/ ~alive
=============================================================================
