----------------------------- MODULE KboxInstall -----------------------------
(***************************************************************************)
(* What a shell does before the user sees its prompt: kbox_shell copies    *)
(* busybox if it is not there, and the init script which busybox then runs *)
(* links its applets and unpacks the base system if they are not there.    *)
(* Each of the three is skipped when one file that it makes is found.      *)
(*                                                                         *)
(* There is a shell for every window, and nothing excludes one another.    *)
(* A window can be closed at any moment: the hangup kills the whole        *)
(* process group, so whatever command the shell is running dies with it.   *)
(* The files stay, and the shell of the next window starts with them.      *)
(***************************************************************************)
EXTENDS Integers

CONSTANTS Shells,           \* windows
          Chunks,           \* busybox is copied in so many writes
          Applets, Ls,      \* links made (busybox --list), the place of "ls"
          Entries,          \* files unpacked,
          Profile,          \* the place of etc/profile and of shell_wrapper.sh
          ShellWrapper,     \* among them: any, as tar finds the directory
          MaxKills          \* bound: shells killed while they install

ASSUME InstallAssumption ==
  /\ Chunks \in Nat \ {0} /\ Applets \in Nat /\ Entries \in Nat /\ MaxKills \in Nat
  /\ Ls \in 1..Applets /\ Profile \in 1..Entries /\ ShellWrapper \in 1..Entries
  /\ "none" \notin Shells /\ "partial" \notin Shells /\ "whole" \notin Shells

VARIABLES
  pc,        \* what a shell does next
  at,        \* how far its present loop is
  exists, executable, data,     \* busybox: the file, its mode, the chunks in it
  links,     \* the applets linked
  base,      \* per entry: "none", "whole", "partial", or the shell writing it
  kills,
  odd        \* history: what has gone wrong

busybox == <<exists, executable, data>>
vars == <<pc, at, busybox, links, base, kills, odd>>

Copying == {"cat", "chmod"}
Linking == {"unlink", "symlink"}
Unpacking == {"remove", "create", "fill"}
Script == {"ls", "profile", "wrapper"} \cup Linking \cup Unpacking
Steps == {"off", "test", "open", "exec", "session"} \cup Copying \cup Script

At(steps) == {s \in Shells : pc[s] \in steps}
Goto(s, step) == pc' = [pc EXCEPT ![s] = step]

(* The kernel's side of "text file busy"                                   *)
Writers == At({"cat"})
Runners == At(Script \cup {"session"})
-----------------------------------------------------------------------------
(* A window is opened: createSubprocess() runs kbox_shell.                 *)
Start(s) ==
  /\ pc[s] = "off"
  /\ Goto(s, "test")
  /\ UNCHANGED <<at, busybox, links, base, kills, odd>>

(* open(bb_target, O_RDONLY)                                               *)
Test(s) ==
  /\ pc[s] = "test"
  /\ Goto(s, IF exists THEN "exec" ELSE "open")
  /\ UNCHANGED <<at, busybox, links, base, kills, odd>>

\* mutant: the file is created with the mode it is to have.
ModeOf_Created == TRUE

(* The redirection creates the file without the right to execute it.       *)
ModeOf == executable

(* cat bb_source > bb_target; if busybox runs it cannot be opened.         *)
CatOpens(s) ==
  /\ pc[s] = "open"
  /\ IF Runners = {}
     THEN /\ exists' = TRUE /\ data' = {} /\ executable' = ModeOf
          /\ at' = [at EXCEPT ![s] = 0]
          /\ odd' = IF exists THEN odd \cup {"overlap"} ELSE odd
          /\ Goto(s, "cat")
     ELSE /\ Goto(s, "chmod")
          /\ UNCHANGED <<at, busybox, odd>>
  /\ UNCHANGED <<links, base, kills>>

CatWrites(s) ==
  /\ pc[s] = "cat" /\ at[s] < Chunks
  /\ at' = [at EXCEPT ![s] = @ + 1]
  /\ data' = data \cup {at[s] + 1}
  /\ UNCHANGED <<pc, exists, executable, links, base, kills, odd>>

CatEnds(s) ==
  /\ pc[s] = "cat" /\ at[s] = Chunks
  /\ Goto(s, "chmod")
  /\ UNCHANGED <<at, busybox, links, base, kills, odd>>

(* The disk is full: cat fails, and system()'s result is not looked at.    *)
CatFails(s) ==
  /\ pc[s] = "cat" /\ at[s] < Chunks
  /\ Goto(s, "chmod")
  /\ odd' = odd \cup {"full"}
  /\ UNCHANGED <<at, busybox, links, base, kills>>

\* mutant: the mode is left as it is.
Chmod_Not(s) ==
  /\ pc[s] = "chmod"
  /\ Goto(s, "exec")
  /\ UNCHANGED <<at, busybox, links, base, kills, odd>>

(* chmod 755 bb_target                                                     *)
Chmod(s) ==
  /\ pc[s] = "chmod"
  /\ executable' = TRUE
  /\ Goto(s, "exec")
  /\ UNCHANGED <<at, exists, data, links, base, kills, odd>>

(* execle(bb_target, ...) fails or what it runs is not the whole program:  *)
(* the window's shell ends.                                                *)
Runs == executable /\ Writers = {} /\ data = 1..Chunks

Exec(s) ==
  /\ pc[s] = "exec"
  /\ Goto(s, IF Runs THEN "ls" ELSE "off")
  /\ UNCHANGED <<at, busybox, links, base, kills, odd>>
-----------------------------------------------------------------------------
(* initscript: the links                                                   *)

TestLs(s) ==
  /\ pc[s] = "ls"
  /\ at' = [at EXCEPT ![s] = 1]
  /\ Goto(s, IF Ls \in links THEN "profile" ELSE "unlink")
  /\ UNCHANGED <<busybox, links, base, kills, odd>>

(* busybox ln -sf: unlink(), symlink()                                     *)
Unlink(s) ==
  /\ pc[s] = "unlink"
  /\ links' = links \ {at[s]}
  /\ Goto(s, "symlink")
  /\ UNCHANGED <<at, busybox, base, kills, odd>>

\* mutant: the loop goes on behind the last applet.
Symlink_OneMore(s) ==
  /\ pc[s] = "symlink"
  /\ links' = links \cup {at[s]}
  /\ IF at[s] <= Applets THEN at' = [at EXCEPT ![s] = @ + 1] /\ Goto(s, "unlink")
                         ELSE Goto(s, "profile") /\ UNCHANGED at
  /\ UNCHANGED <<busybox, base, kills, odd>>

Symlink(s) ==
  /\ pc[s] = "symlink"
  /\ links' = links \cup {at[s]}
  /\ IF at[s] < Applets THEN at' = [at EXCEPT ![s] = @ + 1] /\ Goto(s, "unlink")
                        ELSE Goto(s, "profile") /\ UNCHANGED at
  /\ UNCHANGED <<busybox, base, kills, odd>>
-----------------------------------------------------------------------------
(* initscript: the base system                                             *)

TestProfile(s) ==
  /\ pc[s] = "profile"
  /\ at' = [at EXCEPT ![s] = 1]
  /\ Goto(s, IF base[Profile] # "none" THEN "wrapper" ELSE "remove")
  /\ UNCHANGED <<busybox, links, base, kills, odd>>

\* mutant: an old file is kept.
Remove_KeepOld(s) ==
  /\ pc[s] = "remove"
  /\ Goto(s, "create")
  /\ UNCHANGED <<at, busybox, links, base, kills, odd>>

(* data_extract_all(): the old file is removed, ...                        *)
Remove(s) ==
  /\ pc[s] = "remove"
  /\ base' = [base EXCEPT ![at[s]] = "none"]
  /\ Goto(s, "create")
  /\ UNCHANGED <<at, busybox, links, kills, odd>>

(* ... the new one created; if another tar has done so by then, this one   *)
(* dies and the script goes on, ...                                        *)
Create(s) ==
  /\ pc[s] = "create"
  /\ IF base[at[s]] = "none"
     THEN base' = [base EXCEPT ![at[s]] = s] /\ Goto(s, "fill")
     ELSE Goto(s, "wrapper") /\ UNCHANGED base
  /\ UNCHANGED <<at, busybox, links, kills, odd>>

(* The file s writes to is whole, unless it has been removed meanwhile.    *)
Filled(s) == [base EXCEPT ![at[s]] = IF @ = s THEN "whole" ELSE @]

(* ... and written.                                                        *)
Fill(s) ==
  /\ pc[s] = "fill"
  /\ base' = Filled(s)
  /\ IF at[s] < Entries THEN at' = [at EXCEPT ![s] = @ + 1] /\ Goto(s, "remove")
                        ELSE Goto(s, "wrapper") /\ UNCHANGED at
  /\ UNCHANGED <<busybox, links, kills, odd>>

(* The shell no longer writes its entry: what it left of it stays.         *)
Abandoned(s) == [e \in 1..Entries |-> IF base[e] = s THEN "partial" ELSE base[e]]

(* The disk is full: tar dies.                                             *)
TarFails(s) ==
  /\ pc[s] = "fill"
  /\ base' = Abandoned(s)
  /\ odd' = odd \cup {"full"}
  /\ Goto(s, "wrapper")
  /\ UNCHANGED <<at, busybox, links, kills>>

(* exec busybox bash -c shell_wrapper.sh, which sources etc/profile        *)
Wrapper(s) ==
  /\ pc[s] = "wrapper"
  /\ Goto(s, IF base[ShellWrapper] = "whole" /\ base[Profile] # "none" THEN "session" ELSE "off")
  /\ UNCHANGED <<at, busybox, links, base, kills, odd>>
-----------------------------------------------------------------------------
(* The user leaves the shell.                                              *)
Exit(s) ==
  /\ pc[s] = "session"
  /\ Goto(s, "off")
  /\ UNCHANGED <<at, busybox, links, base, kills, odd>>

(* What the next shell cannot know: the file that it looks for is there,   *)
(* or another shell which is still at work will make it.                   *)
Lost(s) ==
  CASE pc[s] \in Copying -> {"copy"}
    [] pc[s] \in Linking /\ (Ls \in links \/ At(Linking) # {s}) -> {"links"}
    [] pc[s] \in Unpacking /\ (base[Profile] # "none" \/ At(Unpacking) # {s}) -> {"unpack"}
    [] OTHER -> {}

(* The window is closed: SIGHUP to the process group.                      *)
Kill(s) ==
  /\ pc[s] \notin {"off", "session"} /\ kills < MaxKills
  /\ kills' = kills + 1
  /\ odd' = odd \cup Lost(s)
  /\ base' = Abandoned(s)
  /\ Goto(s, "off")
  /\ UNCHANGED <<at, busybox, links>>
-----------------------------------------------------------------------------
Init ==
  /\ pc = [s \in Shells |-> "off"] /\ at = [s \in Shells |-> 0]
  /\ exists = FALSE /\ executable = FALSE /\ data = {}
  /\ links = {}
  /\ base = [e \in 1..Entries |-> "none"]
  /\ kills = 0 /\ odd = {}

kbox_shell(s) == Test(s) \/ CatOpens(s) \/ CatWrites(s) \/ CatEnds(s) \/ Chmod(s) \/ Exec(s)
initscript(s) == \/ TestLs(s) \/ Unlink(s) \/ Symlink(s)
                 \/ TestProfile(s) \/ Remove(s) \/ Create(s) \/ Fill(s) \/ Wrapper(s)
Faults(s) == CatFails(s) \/ TarFails(s) \/ Kill(s)

Next == \E s \in Shells : Start(s) \/ kbox_shell(s) \/ initscript(s) \/ Exit(s) \/ Faults(s)

(* A shell is scheduled, and the user opens windows.                       *)
Fairness == \A s \in Shells : WF_vars(Start(s)) /\ WF_vars(kbox_shell(s) \/ initscript(s))

Spec == Init /\ [][Next]_vars
FairSpec == Spec /\ Fairness
-----------------------------------------------------------------------------
(* Type invariant.                                                         *)
TypeOK ==
  /\ pc \in [Shells -> Steps]
  /\ at \in [Shells -> Nat]
  /\ \A s \in Shells : /\ pc[s] = "cat" => at[s] \in 0..Chunks
                       /\ pc[s] \in Linking => at[s] \in 1..Applets
                       /\ pc[s] \in Unpacking => at[s] \in 1..Entries
  /\ exists \in BOOLEAN /\ executable \in BOOLEAN
  /\ data \subseteq 1..Chunks /\ links \subseteq 1..Applets
  /\ base \in [1..Entries -> Shells \cup {"none", "partial", "whole"}]
  /\ kills \in 0..MaxKills
  /\ odd \subseteq {"overlap", "full", "copy", "links", "unpack"}

(* Only the existence of busybox is looked at, so the right to execute it  *)
(* is what keeps others from a copy that is not complete: a busybox that   *)
(* can be executed and is not being written is whole, unless a disk was    *)
(* full or, of several shells that all found none, one was killed.         *)
ExecutableIsWhole ==
  executable /\ Writers = {} =>
    data = 1..Chunks \/ "full" \in odd \/ {"overlap", "copy"} \subseteq odd

(* Every step of the installation is skipped when the one file it looks    *)
(* for is there (kbox_shell.c "creating busybox for first run", initscript *)
(* "Setting up busbox for first run", "Unpacking base system for first     *)
(* run").  However the shells overlap, with nobody at work on a step the   *)
(* file means that all of it has been done, unless a shell was killed too  *)
(* late for the next one to notice.                                        *)
MarkersTellTheTruth ==
  "full" \notin odd =>
    /\ exists /\ At(Copying) = {} /\ "copy" \notin odd => executable /\ data = 1..Chunks
    /\ Ls \in links /\ At(Linking) = {} /\ "links" \notin odd => links = 1..Applets
    /\ base[Profile] # "none" /\ At(Unpacking) = {} /\ "unpack" \notin odd =>
         \A e \in 1..Entries : base[e] = "whole"

(* The user, sooner or later, opens a window only when the shells of the   *)
(* others are through.                                                     *)
Installing == Shells \ At({"off", "session"})
Patient == <>[][\A s \in Shells : pc[s] = "off" /\ pc'[s] # "off" => Installing = {}]_vars

(* Shells that overlap make one another fail, but what they leave behind   *)
(* never keeps the next one from its prompt: if none is killed too late    *)
(* and no disk is full, a patient user gets one.  (Two windows opened      *)
(* again and again, each while the other's tar has just removed            *)
(* etc/profile, can do without one for ever.)                              *)
SomeWindowOpens ==
  [](odd \subseteq {"overlap"}) /\ Patient => <>(At({"session"}) # {})
=============================================================================
