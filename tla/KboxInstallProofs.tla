-------------------------- MODULE KboxInstallProofs --------------------------
(***************************************************************************)
(* The installation by any number of shells, of any number of chunks,      *)
(* applets and entries.  For each of its steps the inductive invariant     *)
(* says who will still do what is missing.                                 *)
(***************************************************************************)
EXTENDS KboxInstall, TLAPS

(* What the phases of the shells say of busybox                            *)
BusyboxThere ==
  /\ executable => exists
  /\ \A s \in Shells : /\ pc[s] \in Copying => exists
                       /\ pc[s] \in Script \cup {"session"} => exists /\ executable

(* No copy was killed: the last to open the file will complete it.         *)
CopyGoesOn ==
  exists /\ {"copy", "full"} \cap odd = {} =>
    /\ executable \/ At(Copying) # {}
    /\ data = 1..Chunks \/ \E s \in Writers : 1..at[s] \subseteq data

(* Copies did not overlap: the one copy is behind what it has written.     *)
OneCopy ==
  {"overlap", "full"} \cap odd = {} =>
    /\ executable => data = 1..Chunks
    /\ \A s \in Shells : /\ pc[s] = "chmod" => data = 1..Chunks
                         /\ pc[s] = "cat" => 1..at[s] \subseteq data

(* A link that is missing is ahead of some shell.                          *)
LinksGoOn ==
  "links" \notin odd =>
    \/ \A f \in 1..Applets : f \in links \/ \E s \in At(Linking) : at[s] <= f
    \/ Ls \notin links /\ At(Linking) = {}

(* A shell that writes an entry is at it.                                  *)
EntriesOwned ==
  \A s \in Shells : \A e \in 1..Entries : base[e] = s => pc[s] = "fill" /\ at[s] = e

(* The shell will unpack entry e: it is not behind it, does not write to a *)
(* file that was removed, and is not about to find e made by another.      *)
Covers(s, e) ==
  /\ pc[s] \in Unpacking /\ at[s] <= e
  /\ pc[s] = "create" => base[at[s]] = "none"
  /\ pc[s] = "fill" /\ at[s] = e => base[e] = s

BaseGoesOn ==
  {"unpack", "full"} \cap odd = {} =>
    \/ \A e \in 1..Entries : base[e] = "whole" \/ \E s \in Shells : Covers(s, e)
    \/ base[Profile] = "none" /\ At(Unpacking) = {}

IInv == /\ TypeOK /\ BusyboxThere /\ CopyGoesOn /\ OneCopy
        /\ LinksGoOn /\ EntriesOwned /\ BaseGoesOn
-----------------------------------------------------------------------------
(* One step of one shell.                                                  *)
Step(s) == Start(s) \/ kbox_shell(s) \/ initscript(s) \/ Exit(s) \/ Faults(s)

(* Types are kept.                                                         *)
LEMMA TypeStep ==
  ASSUME TypeOK, NEW s \in Shells, Step(s)
  PROVE  TypeOK'
<1> USE InstallAssumption DEF Goto, busybox, Steps, Script, Copying, Linking, Unpacking
<1>1. CASE Start(s)
  BY <1>1 DEF TypeOK, Start
<1>2. CASE Test(s)
  BY <1>2 DEF TypeOK, Test
<1>3. CASE CatOpens(s)
  <2>1. at[s] \in Nat /\ at[s] \in Nat
    BY <1>3 DEF TypeOK, CatOpens, ModeOf
  <2>2. pc' \in [Shells -> Steps]
    BY <1>3 DEF TypeOK, CatOpens, ModeOf
  <2>3. at' \in [Shells -> Nat]
    <3>1. at' = at \/ at' = [at EXCEPT ![s] = 0]
      BY <1>3 DEF CatOpens
    <3> QED
      BY <3>1 DEF TypeOK
  <2>4. ASSUME NEW t \in Shells
        PROVE  /\ pc'[t] = "cat" => at'[t] \in 0..Chunks
               /\ pc'[t] \in Linking => at'[t] \in 1..Applets
               /\ pc'[t] \in Unpacking => at'[t] \in 1..Entries
    <3>1. CASE t = s
      BY <1>3, <3>1 DEF TypeOK, CatOpens, ModeOf
    <3>2. CASE t # s
      BY <1>3, <3>2 DEF TypeOK, CatOpens, ModeOf
    <3> QED
      BY <3>1, <3>2
  <2>5. /\ data' \subseteq 1..Chunks /\ links' \subseteq 1..Applets
        /\ base' \in [1..Entries -> Shells \cup {"none", "partial", "whole"}]
    BY <1>3, <2>1 DEF TypeOK, CatOpens, ModeOf
  <2>6. /\ exists' \in BOOLEAN /\ executable' \in BOOLEAN
        /\ kills' \in 0..MaxKills
        /\ odd' \subseteq {"overlap", "full", "copy", "links", "unpack"}
    BY <1>3 DEF TypeOK, CatOpens, ModeOf
  <2> QED
    BY <2>2, <2>3, <2>4, <2>5, <2>6 DEF TypeOK
<1>4. CASE CatWrites(s)
  <2>1. at[s] + 1 \in 1..Chunks /\ at[s] \in Nat
    BY <1>4 DEF TypeOK, CatWrites
  <2>2. pc' \in [Shells -> Steps]
    BY <1>4 DEF TypeOK, CatWrites
  <2>3. at' \in [Shells -> Nat]
    BY <1>4, <2>1 DEF TypeOK, CatWrites
  <2>4. ASSUME NEW t \in Shells
        PROVE  /\ pc'[t] = "cat" => at'[t] \in 0..Chunks
               /\ pc'[t] \in Linking => at'[t] \in 1..Applets
               /\ pc'[t] \in Unpacking => at'[t] \in 1..Entries
    <3>1. CASE t = s
      BY <1>4, <3>1 DEF TypeOK, CatWrites
    <3>2. CASE t # s
      BY <1>4, <3>2 DEF TypeOK, CatWrites
    <3> QED
      BY <3>1, <3>2
  <2>5. /\ data' \subseteq 1..Chunks /\ links' \subseteq 1..Applets
        /\ base' \in [1..Entries -> Shells \cup {"none", "partial", "whole"}]
    BY <1>4, <2>1 DEF TypeOK, CatWrites
  <2>6. /\ exists' \in BOOLEAN /\ executable' \in BOOLEAN
        /\ kills' \in 0..MaxKills
        /\ odd' \subseteq {"overlap", "full", "copy", "links", "unpack"}
    BY <1>4 DEF TypeOK, CatWrites
  <2> QED
    BY <2>2, <2>3, <2>4, <2>5, <2>6 DEF TypeOK
<1>5. CASE CatEnds(s)
  BY <1>5 DEF TypeOK, CatEnds
<1>6. CASE CatFails(s)
  BY <1>6 DEF TypeOK, CatFails
<1>7. CASE Chmod(s)
  BY <1>7 DEF TypeOK, Chmod
<1>8. CASE Exec(s)
  BY <1>8 DEF TypeOK, Exec
<1>9. CASE TestLs(s)
  BY <1>9 DEF TypeOK, TestLs
<1>10. CASE Unlink(s)
  BY <1>10 DEF TypeOK, Unlink
<1>11. CASE Symlink(s)
  <2>1. at[s] \in 1..Applets /\ at[s] \in Nat
    BY <1>11 DEF TypeOK, Symlink
  <2>2. pc' \in [Shells -> Steps]
    BY <1>11 DEF TypeOK, Symlink
  <2>3. at' \in [Shells -> Nat]
    BY <1>11, <2>1 DEF TypeOK, Symlink
  <2>4. ASSUME NEW t \in Shells
        PROVE  /\ pc'[t] = "cat" => at'[t] \in 0..Chunks
               /\ pc'[t] \in Linking => at'[t] \in 1..Applets
               /\ pc'[t] \in Unpacking => at'[t] \in 1..Entries
    <3>1. CASE t = s
      BY <1>11, <3>1 DEF TypeOK, Symlink
    <3>2. CASE t # s
      BY <1>11, <3>2 DEF TypeOK, Symlink
    <3> QED
      BY <3>1, <3>2
  <2>5. /\ data' \subseteq 1..Chunks /\ links' \subseteq 1..Applets
        /\ base' \in [1..Entries -> Shells \cup {"none", "partial", "whole"}]
    BY <1>11, <2>1 DEF TypeOK, Symlink
  <2>6. /\ exists' \in BOOLEAN /\ executable' \in BOOLEAN
        /\ kills' \in 0..MaxKills
        /\ odd' \subseteq {"overlap", "full", "copy", "links", "unpack"}
    BY <1>11 DEF TypeOK, Symlink
  <2> QED
    BY <2>2, <2>3, <2>4, <2>5, <2>6 DEF TypeOK
<1>12. CASE TestProfile(s)
  BY <1>12 DEF TypeOK, TestProfile
<1>13. CASE Remove(s)
  BY <1>13 DEF TypeOK, Remove
<1>14. CASE Create(s)
  BY <1>14, SMTT(40) DEF TypeOK, Create
<1>15. CASE Fill(s)
  <2>1. at[s] \in 1..Entries /\ at[s] \in Nat
    BY <1>15 DEF TypeOK, Fill, Filled
  <2>2. pc' \in [Shells -> Steps]
    BY <1>15 DEF TypeOK, Fill, Filled
  <2>3. at' \in [Shells -> Nat]
    BY <1>15, <2>1 DEF TypeOK, Fill, Filled
  <2>4. ASSUME NEW t \in Shells
        PROVE  /\ pc'[t] = "cat" => at'[t] \in 0..Chunks
               /\ pc'[t] \in Linking => at'[t] \in 1..Applets
               /\ pc'[t] \in Unpacking => at'[t] \in 1..Entries
    <3>1. CASE t = s
      BY <1>15, <3>1 DEF TypeOK, Fill, Filled
    <3>2. CASE t # s
      BY <1>15, <3>2 DEF TypeOK, Fill, Filled
    <3> QED
      BY <3>1, <3>2
  <2>5. /\ data' \subseteq 1..Chunks /\ links' \subseteq 1..Applets
        /\ base' \in [1..Entries -> Shells \cup {"none", "partial", "whole"}]
    BY <1>15, <2>1 DEF TypeOK, Fill, Filled
  <2>6. /\ exists' \in BOOLEAN /\ executable' \in BOOLEAN
        /\ kills' \in 0..MaxKills
        /\ odd' \subseteq {"overlap", "full", "copy", "links", "unpack"}
    BY <1>15 DEF TypeOK, Fill, Filled
  <2> QED
    BY <2>2, <2>3, <2>4, <2>5, <2>6 DEF TypeOK
<1>16. CASE TarFails(s)
  BY <1>16 DEF TypeOK, TarFails, Abandoned
<1>17. CASE Wrapper(s)
  BY <1>17 DEF TypeOK, Wrapper
<1>18. CASE Exit(s)
  BY <1>18 DEF TypeOK, Exit
<1>19. CASE Kill(s)
  <2>1. at[s] \in Nat /\ at[s] \in Nat
    BY <1>19 DEF TypeOK, Kill, Abandoned, Lost
  <2>2. pc' \in [Shells -> Steps]
    BY <1>19 DEF TypeOK, Kill, Abandoned, Lost
  <2>3. at' \in [Shells -> Nat]
    BY <1>19, <2>1 DEF TypeOK, Kill, Abandoned, Lost
  <2>4. ASSUME NEW t \in Shells
        PROVE  /\ pc'[t] = "cat" => at'[t] \in 0..Chunks
               /\ pc'[t] \in Linking => at'[t] \in 1..Applets
               /\ pc'[t] \in Unpacking => at'[t] \in 1..Entries
    <3>1. CASE t = s
      BY <1>19, <3>1 DEF TypeOK, Kill, Abandoned, Lost
    <3>2. CASE t # s
      BY <1>19, <3>2 DEF TypeOK, Kill, Abandoned, Lost
    <3> QED
      BY <3>1, <3>2
  <2>5. /\ data' \subseteq 1..Chunks /\ links' \subseteq 1..Applets
        /\ base' \in [1..Entries -> Shells \cup {"none", "partial", "whole"}]
    BY <1>19, <2>1 DEF TypeOK, Kill, Abandoned, Lost
  <2>6. /\ exists' \in BOOLEAN /\ executable' \in BOOLEAN
        /\ kills' \in 0..MaxKills
        /\ odd' \subseteq {"overlap", "full", "copy", "links", "unpack"}
    BY <1>19 DEF TypeOK, Kill, Abandoned, Lost
  <2> QED
    BY <2>2, <2>3, <2>4, <2>5, <2>6 DEF TypeOK
<1> QED
  BY <1>1, <1>2, <1>3, <1>4, <1>5, <1>6, <1>7, <1>8, <1>9, <1>10, <1>11, <1>12, <1>13,
     <1>14, <1>15, <1>16, <1>17, <1>18, <1>19
  DEF Step, kbox_shell, initscript, Faults

(* busybox is there for those who run it.                                  *)
LEMMA BusyboxStep ==
  ASSUME TypeOK, BusyboxThere, NEW s \in Shells, Step(s)
  PROVE  BusyboxThere'
<1> USE InstallAssumption DEF Goto, busybox, Steps, Script, Copying, Linking, Unpacking
<1>1. CASE Start(s)
  BY <1>1 DEF TypeOK, BusyboxThere, Start
<1>2. CASE Test(s)
  BY <1>2 DEF TypeOK, BusyboxThere, Test
<1>3. CASE CatOpens(s)
  BY <1>3 DEF TypeOK, BusyboxThere, CatOpens, Runners, At, ModeOf
<1>4. CASE CatWrites(s)
  BY <1>4 DEF TypeOK, BusyboxThere, CatWrites
<1>5. CASE CatEnds(s)
  BY <1>5 DEF TypeOK, BusyboxThere, CatEnds
<1>6. CASE CatFails(s)
  BY <1>6 DEF TypeOK, BusyboxThere, CatFails
<1>7. CASE Chmod(s)
  BY <1>7 DEF TypeOK, BusyboxThere, Chmod
<1>8. CASE Exec(s)
  BY <1>8 DEF TypeOK, BusyboxThere, Exec, Runs
<1>9. CASE TestLs(s)
  BY <1>9 DEF TypeOK, BusyboxThere, TestLs
<1>10. CASE Unlink(s)
  BY <1>10 DEF TypeOK, BusyboxThere, Unlink
<1>11. CASE Symlink(s)
  BY <1>11 DEF TypeOK, BusyboxThere, Symlink
<1>12. CASE TestProfile(s)
  BY <1>12 DEF TypeOK, BusyboxThere, TestProfile
<1>13. CASE Remove(s)
  BY <1>13 DEF TypeOK, BusyboxThere, Remove
<1>14. CASE Create(s)
  BY <1>14 DEF TypeOK, BusyboxThere, Create
<1>15. CASE Fill(s)
  BY <1>15 DEF TypeOK, BusyboxThere, Fill, Filled
<1>16. CASE TarFails(s)
  BY <1>16 DEF TypeOK, BusyboxThere, TarFails, Abandoned
<1>17. CASE Wrapper(s)
  BY <1>17 DEF TypeOK, BusyboxThere, Wrapper
<1>18. CASE Exit(s)
  BY <1>18 DEF TypeOK, BusyboxThere, Exit
<1>19. CASE Kill(s)
  BY <1>19 DEF TypeOK, BusyboxThere, Kill, Abandoned
<1> QED
  BY <1>1, <1>2, <1>3, <1>4, <1>5, <1>6, <1>7, <1>8, <1>9, <1>10, <1>11, <1>12, <1>13,
     <1>14, <1>15, <1>16, <1>17, <1>18, <1>19
  DEF Step, kbox_shell, initscript, Faults

(* An entry is written by the shell that created it.                       *)
LEMMA EntriesStep ==
  ASSUME TypeOK, EntriesOwned, NEW s \in Shells, Step(s)
  PROVE  EntriesOwned'
<1> USE InstallAssumption DEF Goto, busybox, Steps, Script, Copying, Linking, Unpacking
<1>1. CASE Start(s)
  BY <1>1 DEF TypeOK, EntriesOwned, Start
<1>2. CASE Test(s)
  BY <1>2 DEF TypeOK, EntriesOwned, Test
<1>3. CASE CatOpens(s)
  BY <1>3 DEF TypeOK, EntriesOwned, CatOpens, ModeOf
<1>4. CASE CatWrites(s)
  BY <1>4 DEF TypeOK, EntriesOwned, CatWrites
<1>5. CASE CatEnds(s)
  BY <1>5 DEF TypeOK, EntriesOwned, CatEnds
<1>6. CASE CatFails(s)
  BY <1>6 DEF TypeOK, EntriesOwned, CatFails
<1>7. CASE Chmod(s)
  BY <1>7 DEF TypeOK, EntriesOwned, Chmod
<1>8. CASE Exec(s)
  BY <1>8 DEF TypeOK, EntriesOwned, Exec
<1>9. CASE TestLs(s)
  BY <1>9 DEF TypeOK, EntriesOwned, TestLs
<1>10. CASE Unlink(s)
  BY <1>10 DEF TypeOK, EntriesOwned, Unlink
<1>11. CASE Symlink(s)
  BY <1>11 DEF TypeOK, EntriesOwned, Symlink
<1>12. CASE TestProfile(s)
  BY <1>12 DEF TypeOK, EntriesOwned, TestProfile
<1>13. CASE Remove(s)
  BY <1>13 DEF TypeOK, EntriesOwned, Remove
<1>14. CASE Create(s)
  BY <1>14 DEF TypeOK, EntriesOwned, Create
<1>15. CASE Fill(s)
  BY <1>15 DEF TypeOK, EntriesOwned, Fill, Filled
<1>16. CASE TarFails(s)
  BY <1>16 DEF TypeOK, EntriesOwned, TarFails, Abandoned
<1>17. CASE Wrapper(s)
  BY <1>17 DEF TypeOK, EntriesOwned, Wrapper
<1>18. CASE Exit(s)
  BY <1>18 DEF TypeOK, EntriesOwned, Exit
<1>19. CASE Kill(s)
  BY <1>19 DEF TypeOK, EntriesOwned, Kill, Abandoned
<1> QED
  BY <1>1, <1>2, <1>3, <1>4, <1>5, <1>6, <1>7, <1>8, <1>9, <1>10, <1>11, <1>12, <1>13,
     <1>14, <1>15, <1>16, <1>17, <1>18, <1>19
  DEF Step, kbox_shell, initscript, Faults

(* One copy is behind what it has written.                                 *)
LEMMA OneCopyStep ==
  ASSUME TypeOK, BusyboxThere, OneCopy, NEW s \in Shells, Step(s)
  PROVE  OneCopy'
<1> USE InstallAssumption DEF Goto, busybox, Steps, Script, Copying, Linking, Unpacking
<1>1. CASE Start(s)
  BY <1>1 DEF TypeOK, BusyboxThere, OneCopy, Start
<1>2. CASE Test(s)
  BY <1>2 DEF TypeOK, BusyboxThere, OneCopy, Test
<1>3. CASE CatOpens(s)
  BY <1>3, SMTT(40) DEF TypeOK, BusyboxThere, OneCopy, CatOpens, Runners, At, ModeOf
<1>4. CASE CatWrites(s)
  BY <1>4 DEF TypeOK, BusyboxThere, OneCopy, CatWrites
<1>5. CASE CatEnds(s)
  BY <1>5 DEF TypeOK, BusyboxThere, OneCopy, CatEnds
<1>6. CASE CatFails(s)
  BY <1>6 DEF TypeOK, BusyboxThere, OneCopy, CatFails
<1>7. CASE Chmod(s)
  BY <1>7 DEF TypeOK, BusyboxThere, OneCopy, Chmod
<1>8. CASE Exec(s)
  BY <1>8 DEF TypeOK, BusyboxThere, OneCopy, Exec
<1>9. CASE TestLs(s)
  BY <1>9 DEF TypeOK, BusyboxThere, OneCopy, TestLs
<1>10. CASE Unlink(s)
  BY <1>10 DEF TypeOK, BusyboxThere, OneCopy, Unlink
<1>11. CASE Symlink(s)
  BY <1>11 DEF TypeOK, BusyboxThere, OneCopy, Symlink
<1>12. CASE TestProfile(s)
  BY <1>12 DEF TypeOK, BusyboxThere, OneCopy, TestProfile
<1>13. CASE Remove(s)
  BY <1>13 DEF TypeOK, BusyboxThere, OneCopy, Remove
<1>14. CASE Create(s)
  BY <1>14 DEF TypeOK, BusyboxThere, OneCopy, Create
<1>15. CASE Fill(s)
  BY <1>15 DEF TypeOK, BusyboxThere, OneCopy, Fill
<1>16. CASE TarFails(s)
  BY <1>16 DEF TypeOK, BusyboxThere, OneCopy, TarFails
<1>17. CASE Wrapper(s)
  BY <1>17 DEF TypeOK, BusyboxThere, OneCopy, Wrapper
<1>18. CASE Exit(s)
  BY <1>18 DEF TypeOK, BusyboxThere, OneCopy, Exit
<1>19. CASE Kill(s)
  BY <1>19 DEF TypeOK, BusyboxThere, OneCopy, Kill, Lost
<1> QED
  BY <1>1, <1>2, <1>3, <1>4, <1>5, <1>6, <1>7, <1>8, <1>9, <1>10, <1>11, <1>12, <1>13,
     <1>14, <1>15, <1>16, <1>17, <1>18, <1>19
  DEF Step, kbox_shell, initscript, Faults

(* A missing link stays ahead of some shell.                               *)
LEMMA LinksStep ==
  ASSUME TypeOK, LinksGoOn, NEW s \in Shells, Step(s)
  PROVE  LinksGoOn'
<1> USE InstallAssumption DEF Goto, busybox, Steps, Script, Copying, Linking, Unpacking
<1>1. CASE Start(s)
  BY <1>1 DEF TypeOK, LinksGoOn, At, Start
<1>2. CASE Test(s)
  BY <1>2 DEF TypeOK, LinksGoOn, At, Test
<1>3. CASE CatOpens(s)
  BY <1>3 DEF TypeOK, LinksGoOn, At, CatOpens
<1>4. CASE CatWrites(s)
  BY <1>4 DEF TypeOK, LinksGoOn, At, CatWrites
<1>5. CASE CatEnds(s)
  BY <1>5 DEF TypeOK, LinksGoOn, At, CatEnds
<1>6. CASE CatFails(s)
  BY <1>6 DEF TypeOK, LinksGoOn, At, CatFails
<1>7. CASE Chmod(s)
  BY <1>7 DEF TypeOK, LinksGoOn, At, Chmod
<1>8. CASE Exec(s)
  BY <1>8 DEF TypeOK, LinksGoOn, At, Exec
<1>9. CASE TestLs(s)
  BY <1>9 DEF TypeOK, LinksGoOn, At, TestLs
<1>10. CASE Unlink(s)
  BY <1>10 DEF TypeOK, LinksGoOn, At, Unlink
<1>11. CASE Symlink(s)
  BY <1>11, SMTT(40) DEF TypeOK, LinksGoOn, At, Symlink
<1>12. CASE TestProfile(s)
  BY <1>12 DEF TypeOK, LinksGoOn, At, TestProfile
<1>13. CASE Remove(s)
  BY <1>13 DEF TypeOK, LinksGoOn, At, Remove
<1>14. CASE Create(s)
  BY <1>14 DEF TypeOK, LinksGoOn, At, Create
<1>15. CASE Fill(s)
  BY <1>15 DEF TypeOK, LinksGoOn, At, Fill
<1>16. CASE TarFails(s)
  BY <1>16 DEF TypeOK, LinksGoOn, At, TarFails
<1>17. CASE Wrapper(s)
  BY <1>17 DEF TypeOK, LinksGoOn, At, Wrapper
<1>18. CASE Exit(s)
  BY <1>18 DEF TypeOK, LinksGoOn, At, Exit
<1>19. CASE Kill(s)
  BY <1>19 DEF TypeOK, LinksGoOn, At, Kill, Lost
<1> QED
  BY <1>1, <1>2, <1>3, <1>4, <1>5, <1>6, <1>7, <1>8, <1>9, <1>10, <1>11, <1>12, <1>13,
     <1>14, <1>15, <1>16, <1>17, <1>18, <1>19
  DEF Step, kbox_shell, initscript, Faults

(* The copy goes on.                                                       *)
LEMMA CopyStep ==
  ASSUME TypeOK, BusyboxThere, CopyGoesOn, NEW s \in Shells, Step(s)
  PROVE  CopyGoesOn'
<1> USE InstallAssumption DEF Goto, busybox, Steps, Script, Copying, Linking, Unpacking
<1>1. CASE Start(s)
  BY <1>1 DEF TypeOK, BusyboxThere, CopyGoesOn, Writers, At, Start
<1>2. CASE Test(s)
  BY <1>2 DEF TypeOK, BusyboxThere, CopyGoesOn, Writers, At, Test
<1>3. CASE CatOpens(s)
  <2>1. s \in At(Copying)'
    BY <1>3 DEF TypeOK, CatOpens, At
  <2>2. CASE Runners = {}
    <3>1. at'[s] = 0 /\ s \in Writers'
      BY <1>3, <2>2 DEF TypeOK, CatOpens, Writers, At
    <3>2. 1..at'[s] = {}
      BY <3>1
    <3> QED
      BY <2>1, <3>1, <3>2 DEF CopyGoesOn
  <2>3. CASE Runners # {}
    <3>1. exists' = exists /\ data' = data /\ at' = at /\ odd' = odd
      BY <1>3, <2>3 DEF CatOpens
    <3>2. \A t \in Writers : t \in Writers'
      BY <1>3, <2>3 DEF TypeOK, CatOpens, Writers, At
    <3> QED
      BY <2>1, <3>1, <3>2 DEF CopyGoesOn
  <2> QED
    BY <2>2, <2>3
<1>4. CASE CatWrites(s)
  BY <1>4 DEF TypeOK, BusyboxThere, CopyGoesOn, Writers, At, CatWrites
<1>5. CASE CatEnds(s)
  BY <1>5 DEF TypeOK, BusyboxThere, CopyGoesOn, Writers, At, CatEnds
<1>6. CASE CatFails(s)
  BY <1>6 DEF TypeOK, BusyboxThere, CopyGoesOn, Writers, At, CatFails
<1>7. CASE Chmod(s)
  BY <1>7 DEF TypeOK, BusyboxThere, CopyGoesOn, Writers, At, Chmod
<1>8. CASE Exec(s)
  BY <1>8 DEF TypeOK, BusyboxThere, CopyGoesOn, Writers, At, Exec
<1>9. CASE TestLs(s)
  BY <1>9 DEF TypeOK, BusyboxThere, CopyGoesOn, Writers, At, TestLs
<1>10. CASE Unlink(s)
  BY <1>10 DEF TypeOK, BusyboxThere, CopyGoesOn, Writers, At, Unlink
<1>11. CASE Symlink(s)
  BY <1>11 DEF TypeOK, BusyboxThere, CopyGoesOn, Writers, At, Symlink
<1>12. CASE TestProfile(s)
  BY <1>12 DEF TypeOK, BusyboxThere, CopyGoesOn, Writers, At, TestProfile
<1>13. CASE Remove(s)
  BY <1>13 DEF TypeOK, BusyboxThere, CopyGoesOn, Writers, At, Remove
<1>14. CASE Create(s)
  BY <1>14 DEF TypeOK, BusyboxThere, CopyGoesOn, Writers, At, Create
<1>15. CASE Fill(s)
  BY <1>15 DEF TypeOK, BusyboxThere, CopyGoesOn, Writers, At, Fill
<1>16. CASE TarFails(s)
  BY <1>16 DEF TypeOK, BusyboxThere, CopyGoesOn, Writers, At, TarFails
<1>17. CASE Wrapper(s)
  BY <1>17 DEF TypeOK, BusyboxThere, CopyGoesOn, Writers, At, Wrapper
<1>18. CASE Exit(s)
  BY <1>18 DEF TypeOK, BusyboxThere, CopyGoesOn, Writers, At, Exit
<1>19. CASE Kill(s)
  BY <1>19 DEF TypeOK, BusyboxThere, CopyGoesOn, Writers, At, Kill, Lost
<1> QED
  BY <1>1, <1>2, <1>3, <1>4, <1>5, <1>6, <1>7, <1>8, <1>9, <1>10, <1>11, <1>12, <1>13,
     <1>14, <1>15, <1>16, <1>17, <1>18, <1>19
  DEF Step, kbox_shell, initscript, Faults

(* A missing entry stays ahead of a shell that will unpack it.             *)
LEMMA BaseStep ==
  ASSUME TypeOK, EntriesOwned, BaseGoesOn, NEW s \in Shells, Step(s)
  PROVE  BaseGoesOn'
<1> USE InstallAssumption DEF Goto, busybox, Steps, Script, Copying, Linking, Unpacking
<1>1. CASE Start(s)
  BY <1>1 DEF TypeOK, EntriesOwned, BaseGoesOn, Covers, At, Start
<1>2. CASE Test(s)
  BY <1>2 DEF TypeOK, EntriesOwned, BaseGoesOn, Covers, At, Test
<1>3. CASE CatOpens(s)
  BY <1>3 DEF TypeOK, EntriesOwned, BaseGoesOn, Covers, At, CatOpens, ModeOf
<1>4. CASE CatWrites(s)
  BY <1>4 DEF TypeOK, EntriesOwned, BaseGoesOn, Covers, At, CatWrites
<1>5. CASE CatEnds(s)
  BY <1>5 DEF TypeOK, EntriesOwned, BaseGoesOn, Covers, At, CatEnds
<1>6. CASE CatFails(s)
  BY <1>6 DEF TypeOK, EntriesOwned, BaseGoesOn, Covers, At, CatFails
<1>7. CASE Chmod(s)
  BY <1>7 DEF TypeOK, EntriesOwned, BaseGoesOn, Covers, At, Chmod
<1>8. CASE Exec(s)
  BY <1>8 DEF TypeOK, EntriesOwned, BaseGoesOn, Covers, At, Exec
<1>9. CASE TestLs(s)
  BY <1>9 DEF TypeOK, EntriesOwned, BaseGoesOn, Covers, At, TestLs
<1>10. CASE Unlink(s)
  BY <1>10 DEF TypeOK, EntriesOwned, BaseGoesOn, Covers, At, Unlink
<1>11. CASE Symlink(s)
  BY <1>11 DEF TypeOK, EntriesOwned, BaseGoesOn, Covers, At, Symlink
<1>12. CASE TestProfile(s)
  BY <1>12 DEF TypeOK, EntriesOwned, BaseGoesOn, Covers, At, TestProfile
<1>13. CASE Remove(s)
  BY <1>13 DEF TypeOK, EntriesOwned, BaseGoesOn, Covers, At, Remove
<1>14. CASE Create(s)
  <2> SUFFICES ASSUME {"unpack", "full"} \cap odd = {}, NEW e \in 1..Entries
               PROVE  base'[e] = "whole" \/ \E t \in Shells : Covers(t, e)'
    BY <1>14 DEF Create, BaseGoesOn
  <2>1. base[e] = "whole" \/ \E t \in Shells : Covers(t, e)
    BY <1>14 DEF Create, BaseGoesOn, At
  <2>2. pc' = [pc EXCEPT ![s] = pc'[s]] /\ at' = at
    BY <1>14 DEF Create, TypeOK
  <2>3. CASE base[at[s]] = "none"
    <3>1. base' = [base EXCEPT ![at[s]] = s] /\ pc'[s] = "fill" /\ at[s] \in 1..Entries
      BY <1>14, <2>3 DEF Create, TypeOK
    <3>2. CASE at[s] <= e
      <4>1. Covers(s, e)'
        BY <2>2, <3>1, <3>2 DEF Covers, TypeOK
      <4> QED
        BY <4>1
    <3>3. CASE ~(at[s] <= e)
      <4>1. CASE base[e] = "whole"
        BY <3>1, <3>3, <4>1 DEF TypeOK
      <4>2. ASSUME NEW t \in Shells, Covers(t, e)
            PROVE  Covers(t, e)'
        <5>1. t # s /\ at[t] \in Nat /\ at[s] \in Nat /\ at[t] # at[s] /\ at[s] # e
          BY <3>3, <4>2 DEF Covers, TypeOK
        <5> QED
          BY <2>2, <3>1, <4>2, <5>1 DEF Covers, TypeOK
      <4> QED
        BY <2>1, <4>1, <4>2
    <3> QED
      BY <3>2, <3>3
  <2>4. CASE base[at[s]] # "none"
    <3>1. base' = base
      BY <1>14, <2>4 DEF Create
    <3>2. ASSUME NEW t \in Shells, Covers(t, e)
          PROVE  Covers(t, e)'
      <4>1. t # s
        BY <1>14, <2>4, <3>2 DEF Create, Covers
      <4> QED
        BY <2>2, <3>1, <3>2, <4>1 DEF Covers, TypeOK
    <3> QED
      BY <2>1, <3>1, <3>2
  <2> QED
    BY <2>3, <2>4
<1>15. CASE Fill(s)
  <2> SUFFICES ASSUME {"unpack", "full"} \cap odd = {}, NEW e \in 1..Entries
               PROVE  base'[e] = "whole" \/ \E t \in Shells : Covers(t, e)'
    BY <1>15 DEF Fill, BaseGoesOn
  <2>1. base[e] = "whole" \/ \E t \in Shells : Covers(t, e)
    BY <1>15 DEF Fill, BaseGoesOn, At
  <2>2. /\ at[s] \in 1..Entries /\ base' = Filled(s)
        /\ \A d \in 1..Entries : base'[d] = IF d = at[s] /\ base[d] = s THEN "whole" ELSE base[d]
    BY <1>15 DEF Fill, Filled, TypeOK
  <2>3. \A t \in Shells : t # s => pc'[t] = pc[t] /\ at'[t] = at[t]
    BY <1>15 DEF Fill, TypeOK
  <2>4. ASSUME NEW t \in Shells, Covers(t, e), t # s
        PROVE  Covers(t, e)'
    <3>1. pc[t] = "create" => base'[at[t]] = "none"
      BY <2>2, <2>4 DEF Covers, TypeOK
    <3>2. pc[t] = "fill" /\ at[t] = e => base'[e] = t
      BY <2>2, <2>4 DEF Covers, TypeOK
    <3> QED
      BY <2>3, <2>4, <3>1, <3>2 DEF Covers
  <2>5. ASSUME Covers(s, e)
        PROVE  base'[e] = "whole" \/ Covers(s, e)'
    <3>1. CASE at[s] = e
      BY <1>15, <2>2, <2>5, <3>1 DEF Fill, Covers
    <3>2. CASE at[s] # e
      <4>1. at[s] < Entries /\ at[s] + 1 <= e
        BY <2>2, <2>5, <3>2 DEF Covers
      <4>2. at'[s] = at[s] + 1 /\ pc'[s] = "remove"
        BY <1>15, <4>1 DEF Fill, TypeOK
      <4> QED
        BY <4>1, <4>2 DEF Covers
    <3> QED
      BY <3>1, <3>2
  <2> QED
    BY <2>1, <2>2, <2>4, <2>5
<1>16. CASE TarFails(s)
  BY <1>16 DEF TypeOK, EntriesOwned, BaseGoesOn, Covers, At, TarFails, Abandoned
<1>17. CASE Wrapper(s)
  BY <1>17 DEF TypeOK, EntriesOwned, BaseGoesOn, Covers, At, Wrapper
<1>18. CASE Exit(s)
  BY <1>18 DEF TypeOK, EntriesOwned, BaseGoesOn, Covers, At, Exit
<1>19. CASE Kill(s)
  <2>1. odd \subseteq odd'
    BY <1>19 DEF Kill
  <2>2. CASE pc[s] \in Unpacking
    <3>1. CASE base[Profile] # "none" \/ At(Unpacking) # {s}
      BY <1>19, <2>2, <3>1 DEF Kill, Lost, BaseGoesOn
    <3>2. CASE base[Profile] = "none" /\ At(Unpacking) = {s}
      <4>1. base'[Profile] = "none"
        BY <1>19, <3>2 DEF Kill, Abandoned
      <4>2. At(Unpacking)' = {}
        BY <1>19, <3>2 DEF Kill, At, TypeOK
      <4> QED
        BY <4>1, <4>2 DEF BaseGoesOn
    <3> QED
      BY <3>1, <3>2
  <2>3. CASE pc[s] \notin Unpacking
    <3>1. base' = base
      BY <1>19, <2>3 DEF Kill, Abandoned, EntriesOwned, TypeOK
    <3>2. /\ \A t \in Shells : pc[t] \in Unpacking => pc'[t] = pc[t] /\ at'[t] = at[t]
          /\ At(Unpacking)' = At(Unpacking)
      BY <1>19, <2>3 DEF Kill, At, TypeOK
    <3> QED
      BY <2>1, <3>1, <3>2 DEF BaseGoesOn, Covers
  <2> QED
    BY <2>2, <2>3
<1> QED
  BY <1>1, <1>2, <1>3, <1>4, <1>5, <1>6, <1>7, <1>8, <1>9, <1>10, <1>11, <1>12, <1>13,
     <1>14, <1>15, <1>16, <1>17, <1>18, <1>19
  DEF Step, kbox_shell, initscript, Faults

-----------------------------------------------------------------------------
(* The first shell finds nothing.                                          *)
LEMMA InitInv == Init => IInv
<1> SUFFICES ASSUME Init PROVE IInv
  OBVIOUS
<1> USE InstallAssumption DEF Init
<1>1. TypeOK
  <2>1. pc \in [Shells -> Steps] /\ at \in [Shells -> Nat]
    BY DEF Steps
  <2>2. \A s \in Shells : pc[s] # "cat" /\ pc[s] \notin Linking \cup Unpacking
    BY DEF Linking, Unpacking
  <2>3. base \in [1..Entries -> Shells \cup {"none", "partial", "whole"}] /\ kills \in 0..MaxKills
    OBVIOUS
  <2> QED
    BY <2>1, <2>2, <2>3 DEF TypeOK
<1>2. BusyboxThere /\ EntriesOwned
  BY DEF BusyboxThere, EntriesOwned, Script, Copying, Linking, Unpacking
<1>3. CopyGoesOn /\ OneCopy
  BY DEF CopyGoesOn, OneCopy
<1>4. LinksGoOn /\ BaseGoesOn
  BY DEF LinksGoOn, BaseGoesOn, At, Linking, Unpacking
<1> QED
  BY <1>1, <1>2, <1>3, <1>4 DEF IInv

(* The invariant of all shells at work                                     *)
LEMMA StepInv == IInv /\ [Next]_vars => IInv'
<1>1. ASSUME IInv, Next
      PROVE  IInv'
  <2>1. PICK s \in Shells : Step(s)
    BY <1>1 DEF Next, Step
  <2> QED
    BY <1>1, <2>1, TypeStep, BusyboxStep, CopyStep, OneCopyStep, LinksStep, EntriesStep,
       BaseStep DEF IInv
<1>2. ASSUME IInv, UNCHANGED vars
      PROVE  IInv'
  <2> USE <1>2 DEF vars, busybox
  <2>1. TypeOK' /\ BusyboxThere' /\ EntriesOwned'
    BY DEF IInv, TypeOK, BusyboxThere, EntriesOwned
  <2>2. CopyGoesOn' /\ OneCopy'
    BY DEF IInv, CopyGoesOn, OneCopy, Writers, At
  <2>3. LinksGoOn' /\ BaseGoesOn'
    BY DEF IInv, LinksGoOn, BaseGoesOn, Covers, At
  <2> QED
    BY <2>1, <2>2, <2>3 DEF IInv
<1> QED
  BY <1>1, <1>2

(* In every state some shell will still do what is missing.                *)
THEOREM InductiveInvariant == Spec => []IInv
BY InitInv, StepInv, PTL DEF Spec

(* The variables keep their types: no shell loops past the last chunk,     *)
(* applet or entry.                                                        *)
THEOREM TypeCorrect == Spec => []TypeOK
<1>1. IInv => TypeOK
  BY DEF IInv
<1> QED
  BY <1>1, InductiveInvariant, PTL

(* The mode protects every other shell from an incomplete busybox, unless  *)
(* copies overlapped and one of them was killed.                           *)
THEOREM IncompleteIsNotRun == Spec => []ExecutableIsWhole
<1>1. IInv => ExecutableIsWhole
  <2> SUFFICES ASSUME IInv, executable, Writers = {}, "full" \notin odd,
                      "overlap" \notin odd \/ "copy" \notin odd
               PROVE  data = 1..Chunks
    BY DEF ExecutableIsWhole
  <2>1. exists
    BY DEF IInv, BusyboxThere
  <2>2. CASE "overlap" \notin odd
    BY <2>2 DEF IInv, OneCopy
  <2>3. CASE "copy" \notin odd
    BY <2>1, <2>3 DEF IInv, CopyGoesOn
  <2> QED
    BY <2>2, <2>3
<1> QED
  BY <1>1, InductiveInvariant, PTL

(* However many shells install at the same time: when they are through,    *)
(* the file that a step looks for means that the step is complete.         *)
THEOREM MarkersAreTrue == Spec => []MarkersTellTheTruth
<1>1. IInv => MarkersTellTheTruth
  <2> SUFFICES ASSUME IInv, "full" \notin odd
               PROVE  MarkersTellTheTruth
    BY DEF MarkersTellTheTruth
  <2>1. ASSUME exists, At(Copying) = {}, "copy" \notin odd
        PROVE  executable /\ data = 1..Chunks
    <3>1. Writers = {}
      BY <2>1 DEF Writers, At, Copying
    <3> QED
      BY <2>1, <3>1 DEF IInv, CopyGoesOn
  <2>2. ASSUME Ls \in links, At(Linking) = {}, "links" \notin odd
        PROVE  links = 1..Applets
    BY <2>2 DEF IInv, LinksGoOn, TypeOK
  <2>3. ASSUME base[Profile] # "none", At(Unpacking) = {}, "unpack" \notin odd,
               NEW e \in 1..Entries
        PROVE  base[e] = "whole"
    <3>1. \A s \in Shells : ~Covers(s, e)
      BY <2>3 DEF Covers, At
    <3> QED
      BY <2>3, <3>1 DEF IInv, BaseGoesOn
  <2> QED
    BY <2>1, <2>2, <2>3 DEF MarkersTellTheTruth
<1> QED
  BY <1>1, InductiveInvariant, PTL
=============================================================================
