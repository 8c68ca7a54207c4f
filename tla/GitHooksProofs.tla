--------------------------- MODULE GitHooksProofs ---------------------------
(***************************************************************************)
(* What GitHooks promises, for every set of hooks, foreign tools, configs  *)
(* and exit codes. GitInv is inductive: its progress parts say how much of *)
(* an install, an uninstall or a hook's entries is behind the step at hand.*)
(* The steps of `gaff init` leave `run` alone and the steps of a hook leave*)
(* the disk alone, so each part is proved for one side and kept by the     *)
(* other (Aside, Beside).                                                  *)
(***************************************************************************)
EXTENDS GitHooks, TLAPS

\* What a step of a git hook leaves alone, and what every other step does.
Aside == UNCHANGED <<disk, init, history>>
Beside == run' = run /\ Watch

\* A step of the hook that runs keeps the parts about `gaff init`.
LEMMA AsideKeeps ==
  ASSUME SlotsFree, InitProgress, Aside
  PROVE  SlotsFree' /\ InitProgress'
BY DEF SlotsFree, InitProgress, Aside, disk, history, IsForeign, IsOurs, Declared, Due, Installing

\* A step beside the hook that runs keeps what the hook has seen: once its script is
\* gone, it has been gone.
LEMMA BesideKeeps ==
  ASSUME TypeOK, RunProgress, Beside
  PROVE  RunProgress'
BY DEF TypeOK, RunProgress, Beside, Watch, Due

LEMMA IdleStates == NoInit \in InitState /\ NoRun \in RunState
<1>1. <<>> \in Seq(Entry)
  OBVIOUS
<1> QED
  BY <1>1, GitHooksAssumption DEF NoInit, NoRun, InitState, RunState

LEMMA InitGitInv == ASSUME Init PROVE GitInv
<1>1. TypeOK
  BY IdleStates, GitHooksAssumption DEF Init, TypeOK, NoInit, NoRun
<1>2. SlotsFree /\ InitProgress /\ RunProgress
  BY DEF Init, SlotsFree, InitProgress, RunProgress, NoInit, NoRun, Installing, IsOurs
<1> QED
  BY <1>1, <1>2 DEF GitInv

\* Each step of the write of a script leaves one more file, and touches no other.
LEMMA WriteStep ==
  ASSUME TypeOK, SlotsFree, Truncate \/ WriteScript \/ SetExecutable
  PROVE  /\ file' \in [Hooks -> File \union {Absent}]
         /\ file'[init.hook] \in File
         /\ file'[init.hook].by = IF Truncate THEN "blank" ELSE "gaff"
         /\ SetExecutable => file'[init.hook].exec
         /\ \A k \in Hooks \ {init.hook} : file'[k] = file[k]
         /\ UNCHANGED <<kept, config, run, present, active, cleared>>
<1>1. init.hook \in Hooks /\ UNCHANGED <<kept, config, run, present, active, cleared>>
  BY DEF TypeOK, Truncate, WriteScript, SetExecutable, InitState, history
<1>2. ~(Truncate /\ WriteScript) /\ ~(Truncate /\ SetExecutable) /\ ~(WriteScript /\ SetExecutable)
  BY DEF Truncate, WriteScript, SetExecutable
<1>3. PICK f \in File : /\ file' = [file EXCEPT ![init.hook] = f]
                        /\ f.by = IF Truncate THEN "blank" ELSE "gaff"
                        /\ SetExecutable => f.exec
  <2>1. CASE Truncate
    <3> DEFINE bit == file[init.hook] # Absent /\ file[init.hook].exec
    <3>1. [by |-> "blank", exec |-> bit] \in File
      <4>1. bit \in BOOLEAN
        BY <1>1 DEF TypeOK, File
      <4> QED
        BY <4>1 DEF File
    <3> QED
      BY <1>2, <2>1, <3>1 DEF Truncate
  <2>2. CASE WriteScript
    <3>1. file[init.hook] \in File
      BY <1>1, <2>2 DEF TypeOK, SlotsFree, WriteScript
    <3>2. [file[init.hook] EXCEPT !.by = "gaff"] \in File
      BY <3>1 DEF File
    <3>3. [file[init.hook] EXCEPT !.by = "gaff"].by = "gaff"
      BY <3>1 DEF File
    <3>4. file' = [file EXCEPT ![init.hook] = [file[init.hook] EXCEPT !.by = "gaff"]]
      BY <2>2 DEF WriteScript
    <3> QED
      BY <1>2, <2>2, <3>2, <3>3, <3>4
  <2>3. CASE SetExecutable
    <3>1. file[init.hook] \in File /\ file[init.hook].by = "gaff"
      BY <1>1, <2>3 DEF TypeOK, SlotsFree, SetExecutable, IsOurs
    <3> DEFINE f == [file[init.hook] EXCEPT !.exec = TRUE]
    <3>2. f \in File /\ f.by = "gaff" /\ f.exec
      BY <3>1 DEF File
    <3>3. file' = [file EXCEPT ![init.hook] = f]
      BY <2>3 DEF SetExecutable
    <3> HIDE DEF f
    <3> QED
      BY <1>2, <2>3, <3>2, <3>3
  <2> QED
    BY <2>1, <2>2, <2>3
<1> QED
  BY <1>1, <1>3 DEF TypeOK

\* Each step of gaff init and of the others.
LEMMA InitTypeStep == ASSUME TypeOK, SlotsFree, InitGit \/ Others, Watch PROVE TypeOK'
<1> USE GitHooksAssumption
<1>1. gone' \in BOOLEAN
  BY DEF Watch
<1>2. config.git \in Seq(Entry)
  BY DEF TypeOK, Config
<1>3. CASE InstallStart
  <2>1. init' \in InitState
    BY <1>2, <1>3, IdleStates DEF InstallStart, InitState, Declared
  <2> QED
    BY <1>1, <1>3, <2>1 DEF TypeOK, InstallStart, NoInit, disk
<1>4. ASSUME NEW k \in Hooks, KeepForeign(k) PROVE TypeOK'
  <2>1. init' \in InitState
    BY <1>4 DEF TypeOK, KeepForeign, InitState
  <2> QED
    BY <1>1, <1>4, <2>1 DEF TypeOK, KeepForeign, InitState, disk, history
<1>5. CASE Truncate \/ WriteScript \/ SetExecutable
  <2>1. file' \in [Hooks -> File \union {Absent}] /\ UNCHANGED <<kept, config, run, present, active, cleared>>
    BY <1>5, WriteStep
  <2>2. init \in InitState /\ init.hook \in init.todo
    BY <1>5 DEF TypeOK, Truncate, WriteScript, SetExecutable
  <2>3. \/ init' = [init EXCEPT !.pc = "write"] \/ init' = [init EXCEPT !.pc = "chmod"]
        \/ init' = [init EXCEPT !.pc = "install", !.todo = @ \ {init.hook}]
    BY <1>5 DEF Truncate, WriteScript, SetExecutable
  <2>4. init' \in InitState /\ (init'.pc # "install" => init'.hook \in init'.todo)
    BY <2>2, <2>3 DEF InitState
  <2> QED
    BY <1>1, <2>1, <2>4 DEF TypeOK
<1>8. CASE Installed \/ Uninstalled \/ Crash
  <2>1. init' = NoInit /\ UNCHANGED <<file, kept, config, run, present>>
    BY <1>8 DEF Installed, Uninstalled, Crash, disk, history
  <2>2. active' \subseteq Hooks /\ cleared' \in BOOLEAN
    BY <1>8 DEF TypeOK, Installed, Uninstalled, Crash, Declared, history
  <2>3. NoInit.pc = "idle"
    BY DEF NoInit
  <2> QED
    BY <1>1, <2>1, <2>2, <2>3, IdleStates DEF TypeOK
<1>9. CASE UninstallStart
  <2>1. init' \in InitState
    BY <1>9, IdleStates DEF UninstallStart, InitState
  <2> QED
    BY <1>1, <1>9, <2>1 DEF TypeOK, UninstallStart, NoInit, disk
<1>10. ASSUME NEW k \in Hooks, Uninstall(k) PROVE TypeOK'
  <2>1. init' \in InitState
    BY <1>10 DEF TypeOK, Uninstall, InitState
  <2>2. file' \in [Hooks -> File \union {Absent}]
    BY <1>10 DEF TypeOK, Uninstall
  <2> QED
    BY <1>1, <1>10, <2>1, <2>2 DEF TypeOK, Uninstall, InitState, history
<1>11. CASE Restore
  <2>1. init.hook \in Hooks /\ init' \in InitState
    BY <1>11 DEF TypeOK, Restore, InitState
  <2> QED
    BY <1>1, <1>11, <2>1 DEF TypeOK, Restore, InitState, history
<1>12. ASSUME NEW k \in Hooks, NEW f \in Foreign, NEW exec \in BOOLEAN, ToolWrites(k, f, exec)
       PROVE  TypeOK'
  <2>1. [by |-> f, exec |-> exec] \in File
    BY DEF File
  <2> QED
    BY <1>1, <1>12, <2>1 DEF TypeOK, ToolWrites
<1>13. ASSUME NEW k \in Hooks, Delete(k) \/ DeleteKept(k) PROVE TypeOK'
  BY <1>1, <1>13 DEF TypeOK, Delete, DeleteKept
<1>14. ASSUME NEW c \in Configs, EditConfig(c) PROVE TypeOK'
  BY <1>1, <1>14 DEF TypeOK, EditConfig, disk, history
<1> QED
  BY <1>3, <1>4, <1>5, <1>8, <1>9, <1>10, <1>11, <1>12, <1>13, <1>14 DEF InitGit, Others

\* Each step of the hook that runs.
LEMMA RunTypeStep == ASSUME TypeOK, GitHook, Watch PROVE TypeOK'
<1> USE GitHooksAssumption
<1>0. Aside /\ config' = config
  BY DEF GitHook, GitRuns, KeptRuns, LoadConfig, RunEntry, EntriesDone, GitGoesOn, Aside
<1> SUFFICES run' \in RunState /\ (run'.pc # "idle" => run'.hook \in Hooks)
  <2>1. gone' \in BOOLEAN
    BY DEF Watch
  <2> QED
    BY <1>0, <2>1 DEF TypeOK, Aside, disk, history
<1>1. config.git \in Seq(Entry) /\ Due(config.git, run.hook) \subseteq Nat
  <2>1. config.git \in Seq(Entry)
    BY DEF TypeOK, Config
  <2> QED
    BY <2>1 DEF Due
<1>2. ASSUME NEW k \in Hooks, GitRuns(k) PROVE run' \in RunState /\ run'.hook \in Hooks
  <2>1. run' = [NoRun EXCEPT !.pc = "kept", !.hook = k]
    BY <1>2 DEF GitRuns
  <2> QED
    BY <2>1, IdleStates DEF RunState
<1>3. ASSUME NEW code \in Codes, NEW whole \in BOOLEAN, KeptRuns(code, whole) PROVE run' \in RunState /\ run'.hook \in Hooks
  <2> DEFINE runs == kept[run.hook] # Absent /\ kept[run.hook].exec
  <2>1. run' = [run EXCEPT !.pc = IF code = 0 THEN "load" ELSE "refused",
                           !.keptFailed = code # 0, !.stdin = @ /\ (runs => Captured(run.hook)),
                           !.cut = @ \/ (Captured(run.hook) /\ ~whole)]
    BY <1>3 DEF KeptRuns
  <2>2. run \in RunState /\ run.hook \in Hooks
    BY <1>3 DEF TypeOK, KeptRuns
  <2>3. (run.stdin /\ (runs => Captured(run.hook))) \in BOOLEAN
    OBVIOUS
  <2> HIDE DEF runs
  <2> QED
    BY <2>1, <2>2, <2>3 DEF RunState
<1>4. CASE \E whole \in BOOLEAN : LoadConfig(whole)
  <2>1. run \in RunState /\ run.hook \in Hooks
    BY <1>4 DEF TypeOK, LoadConfig
  <2>2. \/ run' = [run EXCEPT !.pc = "refused"]
        \/ \E cut \in BOOLEAN :
             run' = [run EXCEPT !.pc = "entries", !.git = config.git,
                                !.todo = Due(config.git, run.hook), !.cut = cut]
    <3>1. PICK whole \in BOOLEAN : LoadConfig(whole)
      BY <1>4
    <3> DEFINE cut == run.cut \/ (OwnCopy(run.hook) /\ ~whole)
    <3>2. cut \in BOOLEAN
      OBVIOUS
    <3>3. \/ run' = [run EXCEPT !.pc = "refused"]
          \/ run' = [run EXCEPT !.pc = "entries", !.git = config.git,
                                !.todo = Due(config.git, run.hook), !.cut = cut]
      BY <3>1 DEF LoadConfig
    <3> HIDE DEF cut
    <3> QED
      BY <3>2, <3>3
  <2> QED
    BY <1>1, <2>1, <2>2 DEF RunState
<1>5. ASSUME NEW code \in Codes, NEW i \in run.todo, RunEntry(i, code)
      PROVE  run' \in RunState /\ run'.hook \in Hooks
  <2>1. run \in RunState /\ run.hook \in Hooks /\ i \in Nat
    BY <1>5 DEF TypeOK, RunEntry, RunState
  <2> DEFINE pc == IF code # 0 /\ run.git[i].required THEN "refused" ELSE run.pc
             passed == IF code = 0 THEN run.passed \union {i} ELSE run.passed
             blind == run.blind \/ (run.hook \in StdinHooks /\ (~run.stdin \/ run.cut))
             stdin == run.stdin /\ OwnCopy(run.hook)
  <2>2. run' = [run EXCEPT !.pc = pc, !.todo = @ \ {i}, !.worst = Worst(@, code),
                           !.passed = passed, !.blind = blind, !.stdin = stdin]
    BY <1>5 DEF RunEntry
  <2>3. pc \in {"idle", "kept", "load", "entries", "passed", "refused"}
        /\ passed \subseteq Nat /\ Worst(run.worst, code) \in Codes
    BY <2>1 DEF RunState, Worst
  <2>4. blind \in BOOLEAN /\ stdin \in BOOLEAN
    OBVIOUS
  <2> HIDE DEF pc, passed, blind, stdin
  <2> QED
    BY <2>1, <2>2, <2>3, <2>4 DEF RunState
<1>6. CASE EntriesDone \/ GitGoesOn
  <2>1. run \in RunState /\ (run.pc # "idle" => run.hook \in Hooks)
    BY DEF TypeOK
  <2>2. CASE EntriesDone
    BY <2>1, <2>2 DEF EntriesDone, RunState
  <2>3. CASE GitGoesOn
    BY <2>3, IdleStates DEF GitGoesOn, NoRun
  <2> QED
    BY <1>6, <2>2, <2>3
<1> QED
  BY <1>2, <1>3, <1>4, <1>5, <1>6 DEF GitHook

-----------------------------------------------------------------------------
(* The steps of gaff init and of the others keep what is behind them.      *)

\* A check that found no slot blocked leaves a place for every hook it will move.
LEMMA SlotsStep ==
  ASSUME TypeOK, SlotsFree, InitGit \/ Others PROVE SlotsFree'
<1> USE GitHooksAssumption DEF SlotsFree, Installing, IsForeign, IsOurs
<1>1. CASE InstallStart
  BY <1>1 DEF TypeOK, InstallStart, Blocked, NoInit, disk
<1>2. ASSUME NEW k \in Hooks, KeepForeign(k) PROVE SlotsFree'
  BY <1>2 DEF TypeOK, InitState, KeepForeign, disk
<1>3. CASE Truncate
  <2>1. init'.pc = "write" /\ init'.hook = init.hook /\ init'.todo = init.todo /\ init.hook \in Hooks
    BY <1>3 DEF TypeOK, InitState, Truncate
  <2>2. file'[init.hook].by = "blank" /\ file'[init.hook] \in File
    BY <1>3, WriteStep
  <2>3. kept' = kept /\ \A k \in Hooks \ {init.hook} : file'[k] = file[k]
    BY <1>3, WriteStep
  <2> QED
    BY <1>3, <2>1, <2>2, <2>3 DEF Truncate, TypeOK, InitState
<1>4. CASE WriteScript
  <2>1. init'.pc = "chmod" /\ init'.hook = init.hook /\ init'.todo = init.todo /\ init.hook \in Hooks
    BY <1>4 DEF TypeOK, InitState, WriteScript
  <2>2. file'[init.hook].by = "gaff" /\ file'[init.hook] \in File
    <3>1. ~Truncate
      BY <1>4 DEF Truncate, WriteScript
    <3> QED
      BY <1>4, <3>1, WriteStep
  <2>3. kept' = kept /\ \A k \in Hooks \ {init.hook} : file'[k] = file[k]
    BY <1>4, WriteStep
  <2> QED
    BY <1>4, <2>1, <2>2, <2>3 DEF WriteScript, TypeOK, InitState
<1>5. CASE SetExecutable
  <2>1. init'.pc = "install" /\ init'.todo = init.todo \ {init.hook} /\ init'.todo \subseteq Hooks
    BY <1>5 DEF TypeOK, InitState, SetExecutable
  <2>2. kept' = kept /\ \A k \in Hooks \ {init.hook} : file'[k] = file[k]
    BY <1>5, WriteStep
  <2> QED
    BY <1>5, <2>1, <2>2 DEF SetExecutable
<1>6. CASE Installed \/ Uninstalled \/ Crash \/ UninstallStart
  <2>1. init' = NoInit \/ init' = [NoInit EXCEPT !.pc = "uninstall", !.todo = Hooks]
    BY <1>6 DEF Installed, Uninstalled, Crash, UninstallStart
  <2>2. init'.pc \in {"idle", "uninstall"}
    BY <2>1, IdleStates DEF NoInit, InitState
  <2>3. kept' = kept
    BY <1>6 DEF Installed, Uninstalled, Crash, UninstallStart, disk
  <2> QED
    BY <2>2, <2>3
<1>7. ASSUME NEW k \in Hooks, Uninstall(k) PROVE SlotsFree'
  BY <1>7 DEF TypeOK, InitState, Uninstall
<1>8. CASE Restore
  BY <1>8 DEF TypeOK, InitState, Restore
<1>9. CASE Others
  <2>1. ASSUME NEW k \in Hooks,
               Delete(k) \/ DeleteKept(k) \/ \E f \in Foreign, exec \in BOOLEAN : ToolWrites(k, f, exec)
        PROVE  SlotsFree'
    <3>1. init' = init /\ init.pc = "idle"
      BY <2>1 DEF Delete, DeleteKept, ToolWrites
    <3>2. kept' = kept \/ kept' = [kept EXCEPT ![k] = Absent]
      BY <2>1 DEF Delete, DeleteKept, ToolWrites
    <3>3. \A j \in Hooks : ~IsOurs(kept'[j])
      BY <3>2 DEF TypeOK
    <3> QED
      BY <3>1, <3>3
  <2>2. ASSUME NEW c \in Configs, EditConfig(c) PROVE SlotsFree'
    BY <2>2 DEF EditConfig, disk
  <2> QED
    BY <1>9, <2>1, <2>2 DEF Others
<1> QED
  BY <1>1, <1>2, <1>3, <1>4, <1>5, <1>6, <1>7, <1>8, <1>9 DEF InitGit

LEMMA ProgressStep ==
  ASSUME TypeOK, SlotsFree, InitProgress, InitGit \/ Others PROVE InitProgress'
<1> USE GitHooksAssumption DEF InitProgress, Installing, IsForeign, IsOurs
<1>1. CASE InstallStart
  BY <1>1 DEF TypeOK, InstallStart, NoInit, disk, Declared, Due
<1>2. ASSUME NEW k \in Hooks, KeepForeign(k) PROVE InitProgress'
  BY <1>2 DEF TypeOK, InitState, KeepForeign, history, disk, Declared, Due
<1>3. CASE Truncate
  BY <1>3 DEF TypeOK, InitState, Truncate, history, Declared, Due
<1>4. CASE WriteScript
  BY <1>4 DEF TypeOK, InitState, WriteScript, history, Declared, Due
<1>5. CASE SetExecutable
  <2>1. init'.todo = init.todo \ {init.hook} /\ init'.pc = "install" /\ init'.git = init.git
        /\ init.hook \in Hooks
    BY <1>5 DEF TypeOK, InitState, SetExecutable
  <2>2. file'[init.hook].by = "gaff" /\ file'[init.hook].exec /\ file'[init.hook] \in File
    <3>1. ~Truncate
      BY <1>5 DEF Truncate, SetExecutable
    <3> QED
      BY <1>5, <3>1, WriteStep
  <2>3. \A k \in Hooks \ {init.hook} : file'[k] = file[k]
    BY <1>5, WriteStep
  <2>4. active' = active /\ cleared' = cleared /\ Declared(init'.git) = Declared(init.git)
        /\ Declared(init.git) \subseteq Hooks
    BY <1>5, <2>1 DEF SetExecutable, history, Declared
  <2> QED
    BY <1>5, <2>1, <2>2, <2>3, <2>4 DEF SetExecutable
<1>6. CASE Installed \/ Uninstalled \/ Crash \/ UninstallStart
  <2>1. CASE UninstallStart
    BY <2>1 DEF UninstallStart, NoInit
  <2>2. CASE Installed \/ Uninstalled \/ Crash
    <3>1. init'.pc = "idle"
      BY <2>2 DEF Installed, Uninstalled, Crash, NoInit
    <3> QED
      BY <3>1
  <2> QED
    BY <1>6, <2>1, <2>2
<1>7. ASSUME NEW k \in Hooks, Uninstall(k) PROVE InitProgress'
  BY <1>7 DEF TypeOK, InitState, Uninstall, history
<1>8. CASE Restore
  <2>1. init'.todo = init.todo \ {init.hook} /\ init'.pc = "uninstall" /\ init.hook \in Hooks
    BY <1>8 DEF TypeOK, InitState, Restore
  <2>2. file'[init.hook] = kept[init.hook] /\ ~IsOurs(kept[init.hook]) /\ kept[init.hook] # Absent
    BY <1>8, <2>1 DEF TypeOK, SlotsFree, Restore
  <2>3. \A k \in Hooks \ {init.hook} : file'[k] = file[k] /\ kept'[k] = kept[k]
    BY <1>8 DEF TypeOK, Restore
  <2>4. active' = active /\ cleared' = cleared
    BY <1>8 DEF Restore, history
  <2> QED
    BY <1>8, <2>1, <2>2, <2>3, <2>4 DEF Restore
<1>9. CASE Others
  <2>1. CASE init.pc = "idle" /\ init' = init
    BY <2>1
  <2>2. ASSUME NEW c \in Configs, EditConfig(c) PROVE InitProgress'
    BY <2>2 DEF EditConfig, disk, history, Declared, Due
  <2> QED
    BY <1>9, <2>1, <2>2 DEF Others, ToolWrites, Delete, DeleteKept
<1> QED
  BY <1>1, <1>2, <1>3, <1>4, <1>5, <1>6, <1>7, <1>8, <1>9 DEF InitGit

\* A step of the hook adds to what it has seen.
LEMMA RunStep ==
  ASSUME TypeOK, RunProgress, GitHook, Watch PROVE RunProgress'
<1> USE GitHooksAssumption DEF RunProgress
<1>1. ASSUME NEW k \in Hooks, GitRuns(k) PROVE RunProgress'
  BY <1>1 DEF GitRuns, NoRun
<1>2. ASSUME NEW code \in Codes, NEW whole \in BOOLEAN, KeptRuns(code, whole) PROVE RunProgress'
  BY <1>2 DEF TypeOK, RunState, KeptRuns, Captured
<1>3. CASE \E whole \in BOOLEAN : LoadConfig(whole)
  <2>1. CASE run' = [run EXCEPT !.pc = "refused"]
    BY <1>3, <2>1 DEF TypeOK, RunState, LoadConfig
  <2>2. CASE /\ \E cut : run' = [run EXCEPT !.pc = "entries", !.git = config.git,
                                   !.todo = Due(config.git, run.hook), !.cut = cut]
             /\ ~Stale(run.hook)
    <3>1. run'.git = config.git /\ run'.hook = run.hook /\ run.hook \in Hooks /\ run'.pc = "entries"
          /\ run'.todo = Due(config.git, run.hook) /\ run'.stdin = run.stdin
          /\ run'.keptFailed = run.keptFailed
      BY <1>3, <2>2 DEF TypeOK, RunState, LoadConfig
    <3>2. file' = file
      BY <1>3 DEF LoadConfig, disk
    <3>3. Due(config.git, run.hook) = {} => gone'
      BY <2>2, <3>1, <3>2 DEF Stale, Declared, Watch
    <3>4. Due(run'.git, run'.hook) = Due(config.git, run.hook)
      BY <3>1 DEF Due
    <3> QED
      BY <1>3, <3>1, <3>3, <3>4 DEF LoadConfig
  <2> QED
    BY <1>3, <2>1, <2>2 DEF LoadConfig
<1>4. ASSUME NEW code \in Codes, NEW i \in run.todo, RunEntry(i, code) PROVE RunProgress'
  BY <1>4 DEF TypeOK, RunState, RunEntry, Worst, OwnCopy, Due, Watch
<1>5. CASE EntriesDone
  BY <1>5 DEF TypeOK, RunState, EntriesDone, Due, Watch
<1>6. CASE GitGoesOn
  BY <1>6 DEF GitGoesOn, NoRun
<1> QED
  BY <1>1, <1>2, <1>3, <1>4, <1>5, <1>6 DEF GitHook

LEMMA GitStep == ASSUME GitInv, [Next]_vars PROVE GitInv'
<1> USE DEF GitInv
<1>1. CASE (InitGit \/ Others) /\ Watch
  <2>1. TypeOK' /\ SlotsFree' /\ InitProgress'
    BY <1>1, InitTypeStep, SlotsStep, ProgressStep
  <2>2. run' = run
    BY <1>1 DEF InitGit, Others, InstallStart, KeepForeign, Truncate, WriteScript, SetExecutable,
       Installed, UninstallStart, Uninstall, Restore, Uninstalled, Crash, ToolWrites, Delete,
       DeleteKept, EditConfig
  <2>3. RunProgress'
    BY <1>1, <2>2, BesideKeeps DEF Beside
  <2> QED
    BY <2>1, <2>3
<1>2. CASE GitHook /\ Watch
  <2>1. TypeOK' /\ RunProgress'
    BY <1>2, RunTypeStep, RunStep
  <2>2. Aside
    BY <1>2 DEF GitHook, GitRuns, KeptRuns, LoadConfig, RunEntry, EntriesDone, GitGoesOn, Aside
  <2> QED
    BY <2>1, <2>2, AsideKeeps
<1>3. CASE UNCHANGED vars
  BY <1>3 DEF vars, disk, history, TypeOK, SlotsFree, InitProgress, RunProgress, IsForeign, IsOurs,
     Declared, Due
<1> QED
  BY <1>1, <1>2, <1>3 DEF Next

THEOREM GitInvariant == Spec => []GitInv
<1>1. Init => GitInv
  BY InitGitInv
<1>2. GitInv /\ [Next]_vars => GitInv'
  BY GitStep
<1> QED
  BY <1>1, <1>2, PTL DEF Spec

-----------------------------------------------------------------------------
\* "An install never discards another tool's work": only the tools and the user take a
\* foreign hook away, and the steps of gaff init move it between its two places.
LEMMA ForeignStep ==
  ASSUME GitInv, ForeignKept, [Next]_vars PROVE ForeignKept'
<1> USE GitHooksAssumption
<1> DEFINE held(f, g, m) == \E k \in Hooks : f \in Foreigners(g[k]) \union Foreigners(m[k])
<1> SUFFICES ASSUME NEW f \in present' PROVE held(f, file', kept')
  BY DEF ForeignKept, Foreigners
<1>1. TypeOK /\ SlotsFree
  BY DEF GitInv
<1>2. ASSUME f \in present, UNCHANGED <<file, kept>> PROVE held(f, file', kept')
  BY <1>2 DEF ForeignKept
<1>3. ASSUME NEW k \in Hooks, KeepForeign(k) PROVE held(f, file', kept')
  <2>1. f \in present /\ f \in Foreign /\ init.pc = "install" /\ k \in init.todo
    BY <1>1, <1>3 DEF KeepForeign, history, TypeOK
  <2>2. PICK j \in Hooks : f \in Foreigners(file[j]) \union Foreigners(kept[j])
    BY <2>1 DEF ForeignKept
  <2>3. CASE j = k /\ IsForeign(file[k])
    <3>1. kept[k] = Absent
      BY <1>1, <2>1, <2>3 DEF SlotsFree, Installing
    <3>2. kept'[k] = file[k]
      BY <1>1, <1>3, <2>3 DEF KeepForeign, TypeOK
    <3> QED
      BY <2>2, <2>3, <3>1, <3>2 DEF Foreigners
  <2>4. CASE ~(j = k /\ IsForeign(file[k]))
    <3>1. file'[j] = file[j] /\ kept'[j] = kept[j]
      BY <1>1, <1>3, <2>4 DEF KeepForeign, TypeOK, disk
    <3> QED
      BY <2>2, <3>1
  <2> QED
    BY <2>3, <2>4
<1>4. CASE Truncate \/ WriteScript \/ SetExecutable
  <2>1. f \in present /\ kept' = kept /\ \A k \in Hooks \ {init.hook} : file'[k] = file[k]
    BY <1>1, <1>4, WriteStep
  <2>2. Foreigners(file[init.hook]) = {}
    BY <1>1, <1>4 DEF SlotsFree, Truncate, WriteScript, SetExecutable, Foreigners, IsForeign, IsOurs
  <2>3. PICK j \in Hooks : f \in Foreigners(file[j]) \union Foreigners(kept[j])
    BY <2>1 DEF ForeignKept
  <2> QED
    BY <2>1, <2>2, <2>3
<1>5. ASSUME NEW k \in Hooks, Uninstall(k) PROVE held(f, file', kept')
  <2>1. f \in present /\ kept' = kept
    BY <1>5 DEF Uninstall, history
  <2>2. PICK j \in Hooks : f \in Foreigners(file[j]) \union Foreigners(kept[j])
    BY <2>1 DEF ForeignKept
  <2>3. file'[j] = file[j] \/ IsOurs(file[j])
    BY <1>1, <1>5 DEF Uninstall, TypeOK
  <2> QED
    BY <2>1, <2>2, <2>3 DEF Foreigners, IsOurs
<1>6. CASE Restore
  <2>1. f \in present
    BY <1>6 DEF Restore, history
  <2>2. PICK j \in Hooks : f \in Foreigners(file[j]) \union Foreigners(kept[j])
    BY <2>1 DEF ForeignKept
  <2>3. CASE j = init.hook
    BY <1>1, <1>6, <2>2, <2>3 DEF Restore, SlotsFree, TypeOK, Foreigners
  <2>4. CASE j # init.hook
    BY <1>1, <1>6, <2>2, <2>4 DEF Restore, TypeOK
  <2> QED
    BY <2>3, <2>4
<1>7. ASSUME NEW k \in Hooks, NEW g \in Foreign, NEW exec \in BOOLEAN, ToolWrites(k, g, exec)
      PROVE  held(f, file', kept')
  <2>1. CASE f = g
    <3>1. file'[k] = [by |-> g, exec |-> exec] /\ [by |-> g, exec |-> exec] \in File
      BY <1>1, <1>7 DEF ToolWrites, TypeOK, File
    <3>2. g \in Foreigners(file'[k])
      BY <3>1 DEF Foreigners
    <3> QED
      BY <2>1, <3>2
  <2>2. CASE f # g
    <3>1. f \in present /\ f \notin Foreigners(file[k])
      BY <1>7, <2>2 DEF ToolWrites
    <3>2. PICK j \in Hooks : f \in Foreigners(file[j]) \union Foreigners(kept[j])
      BY <3>1 DEF ForeignKept
    <3>3. kept' = kept /\ (j # k => file'[j] = file[j])
      BY <1>1, <1>7 DEF ToolWrites, TypeOK
    <3> QED
      BY <3>1, <3>2, <3>3
  <2> QED
    BY <2>1, <2>2
<1>8. ASSUME NEW k \in Hooks, Delete(k) PROVE held(f, file', kept')
  <2>1. f \in present /\ f \notin Foreigners(file[k])
    BY <1>8 DEF Delete
  <2>2. PICK j \in Hooks : f \in Foreigners(file[j]) \union Foreigners(kept[j])
    BY <2>1 DEF ForeignKept
  <2>3. kept' = kept /\ (j # k => file'[j] = file[j])
    BY <1>1, <1>8 DEF Delete, TypeOK
  <2> QED
    BY <2>1, <2>2, <2>3
<1>9. ASSUME NEW k \in Hooks, DeleteKept(k) PROVE held(f, file', kept')
  <2>1. f \in present /\ f \notin Foreigners(kept[k])
    BY <1>9 DEF DeleteKept
  <2>2. PICK j \in Hooks : f \in Foreigners(file[j]) \union Foreigners(kept[j])
    BY <2>1 DEF ForeignKept
  <2>3. file' = file /\ (j # k => kept'[j] = kept[j])
    BY <1>1, <1>9 DEF DeleteKept, TypeOK
  <2> QED
    BY <2>1, <2>2, <2>3
<1> HIDE DEF held
<1>10. CASE InstallStart \/ UninstallStart \/ Installed \/ Uninstalled \/ Crash \/ GitHook
            \/ \E c \in Configs : EditConfig(c)
  <2>1. f \in present /\ UNCHANGED <<file, kept>>
    BY <1>10 DEF InstallStart, UninstallStart, Installed, Uninstalled, Crash, EditConfig, GitHook, GitRuns,
       KeptRuns, LoadConfig, RunEntry, EntriesDone, GitGoesOn, disk, history
  <2> QED
    BY <1>2, <2>1
<1>11. CASE UNCHANGED vars
  BY <1>2, <1>11 DEF vars, history
<1> QED
  BY <1>3, <1>4, <1>5, <1>6, <1>7, <1>8, <1>9, <1>10, <1>11 DEF Next, InitGit, Others

\* Whatever dies on the way, an install loses no hook of another tool (install).
THEOREM AnInstallDiscardsNothing == Spec => []ForeignKept
<1>1. Init => ForeignKept
  BY DEF Init, ForeignKept
<1>2. GitInv /\ ForeignKept /\ [Next]_vars => ForeignKept'
  BY ForeignStep
<1> QED
  BY <1>1, <1>2, GitInvariant, PTL DEF Spec

\* "Install and uninstall have to be inverses": a finished uninstall leaves no script of
\* gaff's and strands no kept hook, whatever crashed before it.
LEMMA UninstallStep ==
  ASSUME GitInv, UninstallRestores, [Next]_vars PROVE UninstallRestores'
<1> USE DEF UninstallRestores
<1>1. CASE UNCHANGED <<file, kept, cleared>>
  BY <1>1
<1>2. CASE Uninstalled
  <2>1. \A k \in Hooks : ~IsOurs(file[k]) /\ (file[k] = Absent => kept[k] = Absent)
    <3>1. init.pc = "uninstall" /\ init.todo = {}
      BY <1>2 DEF Uninstalled
    <3> QED
      BY <3>1 DEF GitInv, InitProgress
  <2> QED
    BY <1>2, <2>1 DEF Uninstalled, disk
<1>3. CASE ~cleared'
  BY <1>3
<1>4. (InitGit /\ ~Uninstalled) => ~cleared'
  BY DEF GitInv, InitProgress, InitGit, InstallStart, KeepForeign, Truncate, WriteScript, SetExecutable,
     Installed, UninstallStart, Uninstall, Restore, Crash, history
<1>5. (Others \/ GitHook \/ UNCHANGED vars) => ~cleared' \/ UNCHANGED <<file, kept, cleared>>
  BY DEF Others, ToolWrites, Delete, DeleteKept, EditConfig, GitHook, GitRuns, KeptRuns, LoadConfig, RunEntry,
     EntriesDone, GitGoesOn, vars, disk, history
<1> QED
  BY <1>1, <1>2, <1>3, <1>4, <1>5 DEF Next

\* A finished `gaff init --git --uninstall` has taken gaff's scripts out and put each kept
\* hook back whose place was free (uninstall).
THEOREM UninstallIsTheInverse == Spec => []UninstallRestores
<1>1. Init => UninstallRestores
  BY DEF Init, UninstallRestores
<1>2. GitInv /\ UninstallRestores /\ [Next]_vars => UninstallRestores'
  BY UninstallStep
<1> QED
  BY <1>1, <1>2, GitInvariant, PTL DEF Spec

\* A finished install stands: git runs gaff's script for every hook it set up, until a
\* tool, the user or an uninstall takes it away; another install does not.
LEMMA InstalledStep ==
  ASSUME GitInv, InstalledRuns, [Next]_vars PROVE InstalledRuns'
<1> USE DEF InstalledRuns
<1>1. TypeOK /\ SlotsFree /\ InitProgress
  BY DEF GitInv
<1>2. ASSUME active' \subseteq active, file' = file PROVE InstalledRuns'
  BY <1>2
<1>3. CASE Installed
  <2>1. \A k \in Declared(init.git) : IsOurs(file[k]) /\ file[k].exec
    BY <1>1, <1>3 DEF Installed, InitProgress, Installing
  <2> QED
    BY <1>3, <2>1 DEF Installed, disk
<1>4. ASSUME NEW k \in Hooks, KeepForeign(k) PROVE InstalledRuns'
  <2>1. active' = active /\ active \subseteq Hooks
    BY <1>1, <1>4 DEF KeepForeign, history, TypeOK
  <2>2. IsForeign(file[k]) => k \notin active
    BY DEF IsForeign, IsOurs
  <2>3. \A j \in active : file'[j] = file[j]
    BY <1>1, <1>4, <2>1, <2>2 DEF KeepForeign, disk, TypeOK
  <2> QED
    BY <2>1, <2>3
<1>5. CASE Truncate \/ WriteScript \/ SetExecutable
  <2>1. active' = active /\ active \subseteq Hooks /\ \A k \in Hooks \ {init.hook} : file'[k] = file[k]
    BY <1>1, <1>5, WriteStep DEF TypeOK
  <2>2. init.hook \notin active
    BY <1>1, <1>5 DEF TypeOK, InitProgress, Installing, Truncate, WriteScript, SetExecutable
  <2> QED
    BY <2>1, <2>2
<1>6. ASSUME active' = {} PROVE InstalledRuns'
  BY <1>6
<1>7. (UninstallStart \/ Uninstalled \/ Restore \/ \E k \in Hooks : Uninstall(k)) => active' = {}
  BY <1>1 DEF InitProgress, UninstallStart, Uninstalled, Restore, Uninstall, history
<1>8. ASSUME NEW k \in Hooks,
             Delete(k) \/ \E f \in Foreign, exec \in BOOLEAN : ToolWrites(k, f, exec)
      PROVE  InstalledRuns'
  <2>1. active' = active \ {k} /\ active \subseteq Hooks
    BY <1>1, <1>8 DEF Delete, ToolWrites, TypeOK
  <2>2. \A j \in Hooks \ {k} : file'[j] = file[j]
    BY <1>1, <1>8 DEF Delete, ToolWrites, TypeOK
  <2> QED
    BY <2>1, <2>2
<1>9. CASE InstallStart \/ Crash \/ GitHook \/ UNCHANGED vars
           \/ (\E k \in Hooks : DeleteKept(k)) \/ \E c \in Configs : EditConfig(c)
  <2>1. active' \subseteq active /\ file' = file
    BY <1>9 DEF InstallStart, Crash, DeleteKept, EditConfig, GitHook, GitRuns, KeptRuns, LoadConfig, RunEntry,
       EntriesDone, GitGoesOn, vars, disk, history
  <2> QED
    BY <1>2, <2>1
<1> QED
  BY <1>3, <1>4, <1>5, <1>6, <1>7, <1>8, <1>9 DEF Next, InitGit, Others

\* git finds gaff's script, executable, where a finished install put it, until a tool,
\* the user or an uninstall takes it away (install).
THEOREM AnInstallStands == Spec => []InstalledRuns
<1>1. Init => InstalledRuns
  BY DEF Init, InstalledRuns
<1>2. GitInv /\ InstalledRuns /\ [Next]_vars => InstalledRuns'
  BY InstalledStep
<1> QED
  BY <1>1, <1>2, GitInvariant, PTL DEF Spec

\* "A git hook exists to block": the gate opens only for a hook whose kept hook and whose
\* every declared entry succeeded, or whose script went away while it ran.
THEOREM TheGateHolds == Spec => []GateHolds
<1>1. GitInv => GateHolds
  BY DEF GitInv, TypeOK, RunProgress, GateHolds
<1> QED
  BY <1>1, GitInvariant, PTL

\* git's stream reaches every entry of a hook it feeds: what the kept hook reads is a
\* copy, and so is what each entry before it read.  It reaches them whole unless a read
\* of it failed.
THEOREM EntriesSeeTheRefs == Spec => []RefsReachAll
<1>1. Init => RefsReachAll
  BY DEF Init, NoRun, RefsReachAll
<1>2. GitInv /\ RefsReachAll /\ [Next]_vars => RefsReachAll'
  <2> SUFFICES ASSUME GitInv, run.blind => run.cut, [Next]_vars
               PROVE  run'.blind => run'.cut
    BY DEF RefsReachAll
  <2>1. run \in RunState /\ (run.hook \in StdinHooks => run.stdin)
    BY DEF GitInv, TypeOK, RunProgress
  <2>2. ASSUME NEW k \in Hooks, GitRuns(k) PROVE ~run'.blind
    BY <2>2 DEF GitRuns, NoRun
  <2>3. ASSUME NEW code \in Codes, NEW whole \in BOOLEAN, KeptRuns(code, whole)
        PROVE  run'.blind = run.blind /\ (run.cut => run'.cut)
    <3> DEFINE cut == run.cut \/ (Captured(run.hook) /\ ~whole)
               stdin == run.stdin /\ ((kept[run.hook] # Absent /\ kept[run.hook].exec) => Captured(run.hook))
    <3>1. run' = [run EXCEPT !.pc = IF code = 0 THEN "load" ELSE "refused",
                             !.keptFailed = code # 0, !.stdin = stdin, !.cut = cut]
      BY <2>3 DEF KeptRuns
    <3>2. run.cut => cut
      OBVIOUS
    <3> HIDE DEF cut, stdin
    <3>3. run'.blind = run.blind /\ run'.cut = cut
      BY <2>1, <3>1 DEF RunState
    <3> QED
      BY <3>2, <3>3
  <2>4. ASSUME NEW code \in Codes, NEW i \in run.todo, RunEntry(i, code)
        PROVE  run'.blind => run'.cut
    <3> DEFINE blind == run.blind \/ (run.hook \in StdinHooks /\ (~run.stdin \/ run.cut))
    <3>1. run' = [run EXCEPT !.pc = IF code # 0 /\ run.git[i].required THEN "refused" ELSE @,
                             !.todo = @ \ {i}, !.worst = Worst(@, code),
                             !.passed = IF code = 0 THEN @ \union {i} ELSE @,
                             !.blind = blind, !.stdin = @ /\ OwnCopy(run.hook)]
      BY <2>4 DEF RunEntry
    <3>2. blind => run.cut
      BY <2>1
    <3> HIDE DEF blind
    <3>3. run'.blind = blind /\ run'.cut = run.cut
      BY <2>1, <3>1 DEF RunState
    <3> QED
      BY <3>2, <3>3
  <2>5. CASE (\E whole \in BOOLEAN : LoadConfig(whole)) \/ EntriesDone \/ GitGoesOn
    <3>1. ASSUME NEW whole \in BOOLEAN, LoadConfig(whole)
          PROVE  run'.blind = run.blind /\ (run.cut => run'.cut)
      <4> DEFINE cut == run.cut \/ (OwnCopy(run.hook) /\ ~whole)
      <4>1. \/ run' = [run EXCEPT !.pc = "refused"]
            \/ run' = [run EXCEPT !.pc = "entries", !.git = config.git,
                                  !.todo = Due(config.git, run.hook), !.cut = cut]
        BY <3>1 DEF LoadConfig
      <4>2. run.cut => cut
        OBVIOUS
      <4> HIDE DEF cut
      <4> QED
        BY <2>1, <4>1, <4>2 DEF RunState
    <3>2. CASE EntriesDone \/ GitGoesOn
      BY <2>1, <3>2 DEF EntriesDone, GitGoesOn, NoRun, RunState
    <3> QED
      BY <2>5, <3>1, <3>2
  <2>6. CASE InitGit \/ Others \/ UNCHANGED vars
    <3>1. run' = run
      BY <2>6 DEF InitGit, Others, InstallStart, KeepForeign, Truncate, WriteScript, SetExecutable,
         Installed, UninstallStart, Uninstall, Restore, Uninstalled, Crash, ToolWrites, Delete,
         DeleteKept, EditConfig, vars
    <3> QED
      BY <3>1
  <2> QED
    BY <2>2, <2>3, <2>4, <2>5, <2>6 DEF Next, GitHook
<1> QED
  BY <1>1, <1>2, GitInvariant, PTL DEF Spec

-----------------------------------------------------------------------------
(* The host's settings file.  An event's value is what an install and an   *)
(* uninstall edit; what is kept is said of one value first.                *)

SettingsValues == {NotArray} \union SUBSET SettingsEntries

\* The entries of a value that gaff can read, whose they are.
Legible(v) == IF v = NotArray THEN {} ELSE {entry \in v : entry.hooks # NotArray}

Foreigns(v, command) ==
  UNION {{<<entry.matcher, c>> : c \in {x \in entry.hooks : Argv[x] # Argv[command]}} :
           entry \in Legible(v)}

Holds(v, command) == \E entry \in Legible(v) : HasCommand(entry, command)

LEMMA ForeignsAre ==
  ASSUME NEW v, NEW command, NEW t
  PROVE  t \in Foreigns(v, command) <=>
           \E entry \in Legible(v) : \E c \in entry.hooks :
             Argv[c] # Argv[command] /\ t = <<entry.matcher, c>>
<1>1. ASSUME t \in Foreigns(v, command)
      PROVE  \E entry \in Legible(v) : \E c \in entry.hooks :
               Argv[c] # Argv[command] /\ t = <<entry.matcher, c>>
  <2>1. PICK entry \in Legible(v) :
          t \in {<<entry.matcher, c>> : c \in {x \in entry.hooks : Argv[x] # Argv[command]}}
    BY <1>1 DEF Foreigns
  <2> QED
    BY <2>1
<1>2. ASSUME NEW entry \in Legible(v), NEW c \in entry.hooks,
             Argv[c] # Argv[command], t = <<entry.matcher, c>>
      PROVE  t \in Foreigns(v, command)
  <2>1. t \in {<<entry.matcher, x>> : x \in {y \in entry.hooks : Argv[y] # Argv[command]}}
    BY <1>2
  <2> QED
    BY <2>1 DEF Foreigns
<1> QED
  BY <1>1, <1>2

\* What an entry is.
LEMMA EntryParts ==
  ASSUME NEW entry \in SettingsEntries
  PROVE  /\ entry = [matcher |-> entry.matcher, hooks |-> entry.hooks]
         /\ entry.hooks = NotArray \/ entry.hooks \subseteq Commands
         /\ entry.matcher \in Matchers
BY DEF SettingsEntries

\* The entry an install adds holds gaff's command and nothing of others.
Added(command) == [matcher |-> Anything, hooks |-> {command}]

LEMMA AddedParts ==
  ASSUME NEW command \in Commands
  PROVE  /\ Added(command) \in SettingsEntries
         /\ Added(command).hooks = {command} /\ Added(command).hooks # NotArray
         /\ \A other : Argv[other] = Argv[command] => HasCommand(Added(command), other)
<1>1. {command} # NotArray
  BY SettingsAssumption
<1>2. Added(command) \in SettingsEntries
  BY SettingsAssumption DEF Added, SettingsEntries
<1>3. Added(command).hooks = {command}
  BY DEF Added
<1> QED
  BY <1>1, <1>2, <1>3 DEF HasCommand, RunsCommand

\* An install leaves the others, and holds its command wherever it can.
LEMMA InstallKeeps ==
  ASSUME NEW v \in SettingsValues, NEW command \in Commands
  PROVE  LET new == InstallEvent(v, command)
         IN  /\ new \in SettingsValues
             /\ new = NotArray <=> v = NotArray
             /\ v # NotArray => Holds(new, command)
             /\ Foreigns(new, command) = Foreigns(v, command)
<1> DEFINE new == InstallEvent(v, command)
<1>1. CASE v = NotArray
  BY <1>1 DEF InstallEvent
<1>2. CASE v # NotArray /\ \E entry \in v : HasCommand(entry, command)
  <2>1. new = v
    BY <1>2 DEF InstallEvent
  <2>2. Holds(v, command)
    BY <1>2 DEF Holds, Legible, HasCommand
  <2> QED
    BY <1>2, <2>1, <2>2
<1>3. CASE v # NotArray /\ ~\E entry \in v : HasCommand(entry, command)
  <2>1. new = v \union {Added(command)} /\ v \subseteq SettingsEntries
    BY <1>3 DEF InstallEvent, Added, SettingsValues
  <2>2. new \subseteq SettingsEntries /\ new # NotArray
    BY <2>1, AddedParts, SettingsAssumption
  <2>3. Legible(new) = Legible(v) \union {Added(command)}
    BY <1>3, <2>1, <2>2, AddedParts DEF Legible
  <2>4. Holds(new, command)
    BY <2>3, AddedParts DEF Holds
  <2>5. ASSUME NEW t
        PROVE  t \in Foreigns(new, command) <=> t \in Foreigns(v, command)
    <3>1. ~\E c \in Added(command).hooks : Argv[c] # Argv[command]
      BY AddedParts
    <3> QED
      BY <2>3, <3>1, ForeignsAre
  <2> QED
    BY <1>3, <2>2, <2>4, <2>5 DEF SettingsValues
<1> QED
  BY <1>1, <1>2, <1>3

\* What an uninstall makes of an entry.
LEMMA StripParts ==
  ASSUME NEW entry \in SettingsEntries, NEW command
  PROVE  /\ Strip(entry, command) \in SettingsEntries
         /\ Strip(entry, command).matcher = entry.matcher
         /\ Strip(entry, command).hooks = NotArray <=> entry.hooks = NotArray
         /\ entry.hooks # NotArray =>
              Strip(entry, command).hooks = {c \in entry.hooks : Argv[c] # Argv[command]}
         /\ ~HasCommand(Strip(entry, command), command)
         /\ ~HasCommand(entry, command) => Strip(entry, command) = entry
<1> DEFINE left == {c \in entry.hooks : ~RunsCommand(c, command)}
<1>1. CASE entry.hooks = NotArray
  BY <1>1 DEF Strip, HasCommand
<1>2. CASE entry.hooks # NotArray
  <2>1. Strip(entry, command) = [entry EXCEPT !.hooks = left]
    BY <1>2 DEF Strip
  <2>2. entry.hooks \subseteq Commands /\ left # NotArray
    BY <1>2, EntryParts, SettingsAssumption
  <2>3. left = {c \in entry.hooks : Argv[c] # Argv[command]}
    BY DEF RunsCommand
  <2> HIDE DEF left
  <2>4. /\ Strip(entry, command) = [matcher |-> entry.matcher, hooks |-> left]
    BY <2>1, EntryParts
  <2>5. ~HasCommand(Strip(entry, command), command)
    BY <2>3, <2>4 DEF HasCommand, RunsCommand
  <2>6. ~HasCommand(entry, command) => left = entry.hooks
    BY <1>2, <2>3 DEF HasCommand, RunsCommand
  <2>7. left \subseteq Commands
    BY <2>2, <2>3
  <2> QED
    BY <1>2, <2>2, <2>3, <2>4, <2>5, <2>6, <2>7, EntryParts DEF SettingsEntries
<1> QED
  BY <1>1, <1>2

\* An uninstall leaves the others, and nothing of gaff's.
LEMMA UninstallKeeps ==
  ASSUME NEW v \in SettingsValues, NEW command
  PROVE  LET new == UninstallEvent(v, command)
         IN  /\ new \in SettingsValues
             /\ new = NotArray <=> v = NotArray
             /\ ~Holds(new, command)
             /\ Foreigns(new, command) = Foreigns(v, command)
<1> DEFINE new == UninstallEvent(v, command)
<1>1. CASE v = NotArray
  BY <1>1 DEF UninstallEvent, Holds, Legible
<1>2. CASE v # NotArray
  <2>1. v \subseteq SettingsEntries
    BY <1>2 DEF SettingsValues
  <2>2. \A x : x \in new <=> \E entry \in v : ~Emptied(entry, command) /\ x = Strip(entry, command)
    BY <1>2 DEF UninstallEvent
  <2>3. new \subseteq SettingsEntries
    BY <2>1, <2>2, StripParts
  <2>4. new # NotArray
    BY <2>3, SettingsAssumption
  <2> HIDE DEF new
  <2>5. ~Holds(new, command)
    BY <2>1, <2>2, <2>4, StripParts DEF Holds, Legible
  <2>6. ASSUME NEW t
        PROVE  t \in Foreigns(new, command) <=> t \in Foreigns(v, command)
    <3>1. ASSUME t \in Foreigns(new, command) PROVE t \in Foreigns(v, command)
      <4>1. PICK x \in Legible(new) : \E c \in x.hooks :
              Argv[c] # Argv[command] /\ t = <<x.matcher, c>>
        BY <3>1, ForeignsAre
      <4>2. PICK entry \in v : x = Strip(entry, command)
        BY <2>2, <2>4, <4>1 DEF Legible
      <4>3. entry \in Legible(v)
        BY <1>2, <2>1, <2>4, <4>1, <4>2, StripParts DEF Legible
      <4>4. x.matcher = entry.matcher /\ x.hooks \subseteq entry.hooks
        BY <1>2, <2>1, <4>2, <4>3, StripParts DEF Legible
      <4> QED
        BY <4>1, <4>3, <4>4, ForeignsAre
    <3>2. ASSUME t \in Foreigns(v, command) PROVE t \in Foreigns(new, command)
      <4>1. PICK entry \in Legible(v) : \E c \in entry.hooks :
              Argv[c] # Argv[command] /\ t = <<entry.matcher, c>>
        BY <3>2, ForeignsAre
      <4>2. entry \in v /\ entry \in SettingsEntries /\ entry.hooks # NotArray
        BY <1>2, <2>1, <4>1 DEF Legible
      <4>3. PICK c \in entry.hooks : Argv[c] # Argv[command] /\ t = <<entry.matcher, c>>
        BY <4>1
      <4>4. c \in Strip(entry, command).hooks /\ Strip(entry, command).hooks # NotArray
            /\ Strip(entry, command).matcher = entry.matcher
        BY <4>2, <4>3, StripParts
      <4>5. Strip(entry, command) \in Legible(new)
        BY <2>2, <2>4, <4>2, <4>4 DEF Emptied, Legible
      <4> QED
        BY <4>3, <4>4, <4>5, ForeignsAre
    <3> QED
      BY <3>1, <3>2
  <2> QED
    BY <1>2, <2>3, <2>4, <2>5, <2>6 DEF SettingsValues, new
<1> QED
  BY <1>1, <1>2

\* Where gaff's command is not, an uninstall changes nothing, and takes back what an
\* install added.
LEMMA UninstallTakesBack ==
  ASSUME NEW v \in SettingsValues, NEW command \in Commands, ~Holds(v, command)
  PROVE  /\ UninstallEvent(v, command) = v
         /\ UninstallEvent(InstallEvent(v, command), command) = v
<1>1. CASE v = NotArray
  BY <1>1 DEF UninstallEvent, InstallEvent
<1>2. CASE v # NotArray
  <2>1. v \subseteq SettingsEntries
    BY <1>2 DEF SettingsValues
  <2>2. \A entry \in v : ~HasCommand(entry, command)
    BY <1>2 DEF Holds, Legible, HasCommand
  <2>3. \A entry \in v : Strip(entry, command) = entry /\ ~Emptied(entry, command)
    BY <2>1, <2>2, StripParts DEF Emptied
  <2>4. UninstallEvent(v, command) = v
    BY <1>2, <2>3 DEF UninstallEvent
  <2>5. InstallEvent(v, command) = v \union {Added(command)}
    BY <1>2, <2>2 DEF InstallEvent, Added
  <2>6. v \union {Added(command)} # NotArray
    BY <2>1, AddedParts, SettingsAssumption
  <2>7. Emptied(Added(command), command)
    <3>1. Strip(Added(command), command).hooks = {}
      BY AddedParts, StripParts
    <3> QED
      BY <3>1, AddedParts DEF Emptied
  <2>8. UninstallEvent(v \union {Added(command)}, command) = v
    BY <2>3, <2>6, <2>7 DEF UninstallEvent
  <2> QED
    BY <2>4, <2>5, <2>8
<1> QED
  BY <1>1, <1>2

-----------------------------------------------------------------------------
(* The file.                                                               *)

Value(hooks, e) == IF e \in DOMAIN hooks THEN hooks[e] ELSE {}

\* A hooks object, with or without events.
HooksObject(hooks) == \E events \in SUBSET AllEvents : hooks \in [events -> SettingsValues]

LEMMA ObjectParts ==
  ASSUME NEW hooks, HooksObject(hooks)
  PROVE  /\ hooks # NotObject
         /\ DOMAIN hooks \subseteq AllEvents
         /\ hooks = [e \in DOMAIN hooks |-> hooks[e]]
         /\ \A e : Value(hooks, e) \in SettingsValues
         /\ \A e \in DOMAIN hooks : hooks[e] \in SettingsValues
<1>1. PICK events \in SUBSET AllEvents : hooks \in [events -> SettingsValues]
  BY DEF HooksObject
<1>2. hooks # NotObject
  BY <1>1, SettingsAssumption DEF SettingsHooks, SettingsValues
<1>3. {} \in SettingsValues
  BY DEF SettingsValues
<1> QED
  BY <1>1, <1>2, <1>3 DEF Value

\* A file that gaff edits holds hooks it can read.
Editable(s) ==
  /\ s \in [kind : {"absent", "empty", "odd", "unreadable", "broken", "text"},
            linked : BOOLEAN, hooks : {s.hooks}]
  /\ ~Refuses(s)
  /\ HooksObject(ReadHooks(s))

LEMMA FilesAreEditable ==
  ASSUME NEW s \in Files, ~Refuses(s)
  PROVE  Editable(s)
<1>1. s \in [kind : {"absent", "empty", "odd", "unreadable", "broken", "text"},
            linked : BOOLEAN, hooks : {s.hooks}]
  BY SettingsAssumption
<1>2. CASE s.kind = "text"
  <2>1. s.hooks # NotObject
    BY <1>2 DEF Refuses
  <2>2. PICK events \in SUBSET AllEvents : s.hooks \in SettingsHooks(events)
    BY <2>1, SettingsAssumption
  <2> QED
    BY <1>1, <1>2, <2>2 DEF Editable, ReadHooks, HooksObject, SettingsHooks, SettingsValues
<1>3. CASE s.kind # "text"
  <2>1. NoHooks \in [{} -> SettingsValues]
    BY DEF NoHooks
  <2>2. ReadHooks(s) = NoHooks
    BY <1>3 DEF ReadHooks
  <2> QED
    BY <1>1, <2>1, <2>2 DEF Editable, HooksObject
<1> QED
  BY <1>2, <1>3

\* On an event, a file is its value.
LEMMA OnAnEvent ==
  ASSUME NEW s, NEW e, NEW command
  PROVE  /\ OthersOn(s, e, command) = Foreigns(Value(ReadHooks(s), e), command)
         /\ Ours(s, e, command) <=> Holds(Value(ReadHooks(s), e), command)
<1>1. Readable(s, e) = Legible(Value(ReadHooks(s), e))
  BY DEF Readable, Legible, Value
<1> QED
  BY <1>1 DEF OthersOn, Ours, Foreigns, Holds

\* What an install makes of the hooks.
LEMMA InstalledHooks ==
  ASSUME NEW hooks, HooksObject(hooks), NEW command \in Commands
  PROVE  LET new == InstallHooks(hooks, command)
         IN  /\ HooksObject(new)
             /\ DOMAIN new = DOMAIN hooks \union HookEvents
             /\ \A e \in DOMAIN new :
                  new[e] = IF e \in HookEvents THEN InstallEvent(Value(hooks, e), command)
                           ELSE hooks[e]
<1> DEFINE new == InstallHooks(hooks, command)
<1>1. /\ DOMAIN new = DOMAIN hooks \union HookEvents
      /\ \A e \in DOMAIN new :
           new[e] = IF e \in HookEvents THEN InstallEvent(Value(hooks, e), command) ELSE hooks[e]
  BY DEF InstallHooks, Value
<1>2. new = [e \in DOMAIN new |-> new[e]]
  BY DEF InstallHooks
<1> HIDE DEF new
<1>3. \A e \in DOMAIN new : new[e] \in SettingsValues
  BY <1>1, ObjectParts, InstallKeeps
<1>4. DOMAIN new \in SUBSET AllEvents
  BY <1>1, ObjectParts, SettingsAssumption
<1>5. new \in [DOMAIN new -> SettingsValues]
  BY <1>2, <1>3
<1>6. HooksObject(new)
  BY <1>4, <1>5 DEF HooksObject
<1> QED
  BY <1>1, <1>6 DEF new

\* And an uninstall.
LEMMA UninstalledHooks ==
  ASSUME NEW hooks, HooksObject(hooks), NEW command
  PROVE  LET new == UninstallHooks(hooks, command)
         IN  /\ HooksObject(new)
             /\ DOMAIN new = {e \in DOMAIN hooks : UninstallEvent(hooks[e], command) # {}}
             /\ \A e \in DOMAIN new : new[e] = UninstallEvent(hooks[e], command)
<1> DEFINE new == UninstallHooks(hooks, command)
           stay == {e \in DOMAIN hooks : UninstallEvent(hooks[e], command) # {}}
<1>1. new = [e \in stay |-> UninstallEvent(hooks[e], command)]
  <2> DEFINE left == [e \in DOMAIN hooks |-> UninstallEvent(hooks[e], command)]
  <2>1. {x \in DOMAIN hooks : left[x] # {}} = stay
    OBVIOUS
  <2>2. new = [e \in {x \in DOMAIN hooks : left[x] # {}} |-> left[e]]
    BY DEF UninstallHooks
  <2>3. \A e \in stay : left[e] = UninstallEvent(hooks[e], command)
    OBVIOUS
  <2> HIDE DEF left, stay
  <2> QED
    BY <2>1, <2>2, <2>3
<1>2. stay \in SUBSET AllEvents
  BY ObjectParts
<1>3. \A e \in stay : UninstallEvent(hooks[e], command) \in SettingsValues
  BY ObjectParts, UninstallKeeps
<1>4. DOMAIN new = stay /\ \A e \in stay : new[e] = UninstallEvent(hooks[e], command)
  BY <1>1
<1>5. new \in [stay -> SettingsValues]
  BY <1>1, <1>3
<1>6. HooksObject(new)
  BY <1>2, <1>5 DEF HooksObject
<1> QED
  BY <1>4, <1>6

\* On each event, an uninstall leaves the others and nothing of gaff's.
LEMMA UninstalledValues ==
  ASSUME NEW hooks, HooksObject(hooks), NEW command, NEW e
  PROVE  /\ ~Holds(Value(UninstallHooks(hooks, command), e), command)
         /\ Foreigns(Value(UninstallHooks(hooks, command), e), command)
              = Foreigns(Value(hooks, e), command)
<1>1. CASE e \notin DOMAIN hooks
  <2>1. Value(UninstallHooks(hooks, command), e) = {} /\ Value(hooks, e) = {}
    BY <1>1, UninstalledHooks DEF Value
  <2> QED
    BY <2>1 DEF Holds, Legible
<1>2. CASE e \in DOMAIN hooks
  <2>1. Value(hooks, e) = hooks[e] /\ hooks[e] \in SettingsValues
    BY <1>2, ObjectParts DEF Value
  <2>2. Value(UninstallHooks(hooks, command), e) = UninstallEvent(hooks[e], command)
    BY <1>2, UninstalledHooks DEF Value
  <2> QED
    BY <2>1, <2>2, UninstallKeeps
<1> QED
  BY <1>1, <1>2

\* On each event, an install leaves the others; on those gaff knows it is there.
LEMMA InstalledValues ==
  ASSUME NEW hooks, HooksObject(hooks), NEW command \in Commands, NEW e
  PROVE  /\ e \in HookEvents => \/ Holds(Value(InstallHooks(hooks, command), e), command)
                                \/ InstallHooks(hooks, command)[e] = NotArray
         /\ Foreigns(Value(InstallHooks(hooks, command), e), command)
              = Foreigns(Value(hooks, e), command)
<1> DEFINE new == InstallHooks(hooks, command)
<1>1. Value(hooks, e) \in SettingsValues
  BY ObjectParts
<1>2. CASE e \in HookEvents
  <2>1. new[e] = InstallEvent(Value(hooks, e), command) /\ Value(new, e) = new[e]
    BY <1>2, InstalledHooks DEF Value
  <2> QED
    BY <1>1, <2>1, InstallKeeps
<1>3. CASE e \notin HookEvents
  <2>1. e \in DOMAIN new <=> e \in DOMAIN hooks
    BY <1>3, InstalledHooks
  <2>2. e \in DOMAIN new => new[e] = hooks[e]
    BY <1>3, InstalledHooks
  <2> HIDE DEF new
  <2>3. Value(new, e) = Value(hooks, e)
    BY <2>1, <2>2 DEF Value
  <2> QED
    BY <1>3, <2>3 DEF new
<1> QED
  BY <1>2, <1>3

\* An install by another path to gaff finds it there.
LEMMA InstallsOnce ==
  ASSUME NEW hooks, HooksObject(hooks), NEW command \in Commands, NEW again \in Commands,
         Argv[again] = Argv[command]
  PROVE  InstallHooks(InstallHooks(hooks, command), again) = InstallHooks(hooks, command)
<1> DEFINE new == InstallHooks(hooks, command)
<1>1. /\ HooksObject(new) /\ HookEvents \subseteq DOMAIN new
      /\ \A e \in HookEvents : new[e] = InstallEvent(Value(hooks, e), command)
  BY InstalledHooks
<1>2. ASSUME NEW e \in HookEvents PROVE InstallEvent(new[e], again) = new[e]
  <2>1. Value(hooks, e) \in SettingsValues
    BY ObjectParts
  <2>2. CASE new[e] = NotArray
    BY <2>2 DEF InstallEvent
  <2>3. CASE new[e] # NotArray
    <3>1. Holds(new[e], command)
      BY <1>1, <2>1, <2>3, InstallKeeps
    <3>2. \E entry \in new[e] : HasCommand(entry, again)
      BY <2>3, <3>1 DEF Holds, Legible, HasCommand, RunsCommand
    <3> QED
      BY <3>2 DEF InstallEvent
  <2> QED
    BY <2>2, <2>3
<1> HIDE DEF new
<1>3. DOMAIN new \union HookEvents = DOMAIN new
  BY <1>1
<1>4. InstallHooks(new, again) = [e \in DOMAIN new |-> new[e]]
  BY <1>1, <1>2, <1>3 DEF InstallHooks
<1> QED
  BY <1>1, <1>4, ObjectParts DEF new

\* What an uninstall takes back of an install.
LEMMA TakesBack ==
  ASSUME NEW hooks, HooksObject(hooks), NEW command \in Commands,
         \A e \in DOMAIN hooks : hooks[e] # {} /\ ~Holds(hooks[e], command)
  PROVE  UninstallHooks(InstallHooks(hooks, command), command) = hooks
<1> DEFINE new == InstallHooks(hooks, command)
           back == UninstallHooks(new, command)
<1>1. /\ HooksObject(new) /\ DOMAIN new = DOMAIN hooks \union HookEvents
      /\ \A e \in DOMAIN new :
           new[e] = IF e \in HookEvents THEN InstallEvent(Value(hooks, e), command) ELSE hooks[e]
  BY InstalledHooks
<1>2. ASSUME NEW e \in DOMAIN new PROVE UninstallEvent(new[e], command) = Value(hooks, e)
  <2>1. Value(hooks, e) \in SettingsValues
    BY ObjectParts
  <2>2. ~Holds(Value(hooks, e), command)
    BY DEF Value, Holds, Legible
  <2>3. CASE e \in HookEvents
    BY <1>1, <2>1, <2>2, <2>3, UninstallTakesBack
  <2>4. CASE e \notin HookEvents
    BY <1>1, <2>1, <2>2, <2>4, UninstallTakesBack DEF Value
  <2> QED
    BY <2>3, <2>4
<1> HIDE DEF new
<1>3. /\ HooksObject(back)
      /\ DOMAIN back = {e \in DOMAIN new : UninstallEvent(new[e], command) # {}}
      /\ \A e \in DOMAIN back : back[e] = UninstallEvent(new[e], command)
  BY <1>1, UninstalledHooks
<1> HIDE DEF back
<1>4. DOMAIN back = DOMAIN hooks
  BY <1>1, <1>2, <1>3 DEF Value
<1>5. \A e \in DOMAIN hooks : back[e] = hooks[e]
  BY <1>1, <1>2, <1>3, <1>4 DEF Value
<1>6. back = [e \in DOMAIN back |-> back[e]] /\ hooks = [e \in DOMAIN hooks |-> hooks[e]]
  BY <1>3, ObjectParts
<1>7. back = hooks
  BY <1>4, <1>5, <1>6
<1> QED
  BY <1>7 DEF back, new

\* What an edit that goes through leaves.
LEMMA AfterEdit ==
  ASSUME NEW s, Editable(s), NEW uninstall \in BOOLEAN, NEW command \in Commands
  PROVE  LET new == After(s, uninstall, command)
         IN  /\ Editable(new)
             /\ Changes(s, uninstall, command) => ReadHooks(new) = Edited(s, uninstall, command)
             /\ ~Changes(s, uninstall, command) => new = s
<1> DEFINE new == After(s, uninstall, command)
           hooks == Edited(s, uninstall, command)
<1>1. CASE ~Changes(s, uninstall, command)
  BY <1>1 DEF After
<1>2. CASE Changes(s, uninstall, command)
  <2>1. new = [s EXCEPT !.kind = "text", !.hooks = hooks]
    BY <1>2 DEF After, Editable
  <2>2. HooksObject(hooks)
    BY InstalledHooks, UninstalledHooks DEF Editable, Edited
  <2> HIDE DEF hooks
  <2>3. /\ new \in [kind : {"absent", "empty", "odd", "unreadable", "broken", "text"},
                   linked : BOOLEAN, hooks : {new.hooks}]
        /\ new.kind = "text" /\ new.hooks = hooks
    BY <2>1 DEF Editable
  <2>4. hooks # NotObject
    BY <2>2, ObjectParts
  <2> HIDE DEF new
  <2>5. ReadHooks(new) = hooks /\ ~Refuses(new)
    BY <2>3, <2>4 DEF ReadHooks, Refuses
  <2> QED
    BY <1>2, <2>2, <2>3, <2>5 DEF Editable, hooks, new
<1> QED
  BY <1>1, <1>2

LEMMA AfterInstall ==
  ASSUME NEW s, Editable(s), NEW command \in Commands
  PROVE  LET new == After(s, FALSE, command)
         IN  Editable(new) /\ ReadHooks(new) = InstallHooks(ReadHooks(s), command)
BY AfterEdit DEF Changes, Edited

\* An uninstall that finds no hook of gaff's takes none out.
LEMMA AfterUninstall ==
  ASSUME NEW s, Editable(s), NEW command \in Commands
  PROVE  LET new == After(s, TRUE, command)
         IN  /\ Editable(new)
             /\ \A e : /\ ~Holds(Value(ReadHooks(new), e), command)
                       /\ Foreigns(Value(ReadHooks(new), e), command)
                            = Foreigns(Value(ReadHooks(s), e), command)
             /\ (\E e \in DOMAIN ReadHooks(s) : Holds(ReadHooks(s)[e], command)) =>
                  ReadHooks(new) = UninstallHooks(ReadHooks(s), command)
             /\ (\A e \in DOMAIN ReadHooks(s) : ~Holds(ReadHooks(s)[e], command)) => new = s
<1> DEFINE new == After(s, TRUE, command)
           H == ReadHooks(s)
<1>1. Editable(new) /\ HooksObject(H)
  BY AfterEdit DEF Editable
<1>2. Changes(s, TRUE, command) <=> \E e \in DOMAIN H : Holds(H[e], command)
  BY DEF Changes, Holds, Legible, HasCommand
<1>3. Changes(s, TRUE, command) => ReadHooks(new) = UninstallHooks(H, command)
  BY AfterEdit DEF Edited
<1>4. ~Changes(s, TRUE, command) => new = s
  BY AfterEdit
<1> HIDE DEF new
<1>5. ASSUME NEW e
      PROVE  /\ ~Holds(Value(ReadHooks(new), e), command)
             /\ Foreigns(Value(ReadHooks(new), e), command) = Foreigns(Value(H, e), command)
  <2>1. CASE Changes(s, TRUE, command)
    BY <1>1, <1>3, <2>1, UninstalledValues
  <2>2. CASE ~Changes(s, TRUE, command)
    BY <1>2, <1>4, <2>2 DEF Value, Holds, Legible
  <2> QED
    BY <2>1, <2>2
<1> QED
  BY <1>1, <1>2, <1>3, <1>4, <1>5 DEF new

\* A run that follows one of its kind finds nothing to do.
LEMMA AfterTwice ==
  ASSUME NEW s, Editable(s), NEW uninstall \in BOOLEAN, NEW command \in Commands
  PROVE  After(After(s, uninstall, command), uninstall, command) = After(s, uninstall, command)
<1> DEFINE new == After(s, uninstall, command)
<1>1. Editable(new) /\ HooksObject(ReadHooks(s))
  BY AfterEdit DEF Editable
<1>2. CASE uninstall = FALSE
  <2>1. InstallHooks(ReadHooks(new), command) = ReadHooks(new)
    <3>1. ReadHooks(new) = InstallHooks(ReadHooks(s), command)
      BY <1>2, AfterInstall
    <3> HIDE DEF new
    <3> QED
      BY <1>1, <3>1, InstallsOnce
  <2>2. ~Changes(new, FALSE, command)
    BY <2>1 DEF Changes
  <2> QED
    BY <1>2, <2>2 DEF After
<1>3. CASE uninstall = TRUE
  <2>1. \A e : ~Holds(Value(ReadHooks(new), e), command)
    BY <1>3, AfterUninstall
  <2>2. \A e \in DOMAIN ReadHooks(new) : ~Holds(ReadHooks(new)[e], command)
    BY <2>1 DEF Value
  <2> HIDE DEF new
  <2>3. After(new, TRUE, command) = new
    BY <1>1, <2>2, AfterUninstall
  <2> QED
    BY <1>3, <2>3 DEF new
<1> QED
  BY <1>2, <1>3

\* Whatever the host's settings file holds: an install registers gaff once, an uninstall
\* takes it out, and one that goes through touches no hook of another's.  One that dies can
\* be run again to the same end, but for a file with a second name, which a death may leave
\* without any hooks (init.rs:248).
THEOREM SettingsStand ==
  ASSUME NEW s \in Files, NEW command \in Commands
  PROVE  Kept(s, command)
<1> DEFINE H == ReadHooks(s)
           installed == After(s, FALSE, command)
           removed(from) == After(from, TRUE, command)
<1>1. CASE Refuses(s)
  BY <1>1 DEF Kept, Died, After
<1>2. CASE ~Refuses(s)
  <2>1. Editable(s) /\ HooksObject(H)
    BY <1>2, FilesAreEditable DEF Editable
  <2>2. Editable(installed) /\ ReadHooks(installed) = InstallHooks(H, command)
    BY <2>1, AfterInstall
  <2> HIDE DEF installed, H
  <2>3. \A e \in HookEvents :
          Ours(installed, e, command) \/ ReadHooks(installed)[e] = NotArray
    BY <2>1, <2>2, InstalledValues, OnAnEvent
  <2>4. ASSUME NEW again \in Commands, Argv[again] = Argv[command]
        PROVE  After(installed, FALSE, again) = installed
    <3>1. InstallHooks(ReadHooks(installed), again) = ReadHooks(installed)
      BY <2>1, <2>2, <2>4, InstallsOnce
    <3>2. ~Changes(installed, FALSE, again)
      BY <3>1 DEF Changes
    <3> QED
      BY <3>2 DEF After
  <2>5. ASSUME NEW e \in DOMAIN ReadHooks(installed)
        PROVE  /\ OthersOn(installed, e, command) = OthersOn(s, e, command)
               /\ OthersOn(removed(s), e, command) = OthersOn(s, e, command)
               /\ ~Ours(removed(installed), e, command) /\ ~Ours(removed(s), e, command)
    <3>1. OthersOn(installed, e, command) = OthersOn(s, e, command)
      BY <2>1, <2>2, InstalledValues, OnAnEvent DEF H
    <3>2. \A t : Editable(t) => /\ ~Ours(removed(t), e, command)
                               /\ OthersOn(removed(t), e, command) = OthersOn(t, e, command)
      <4> SUFFICES ASSUME NEW t, Editable(t)
                   PROVE  /\ ~Ours(removed(t), e, command)
                          /\ OthersOn(removed(t), e, command) = OthersOn(t, e, command)
        OBVIOUS
      <4>1. /\ ~Holds(Value(ReadHooks(removed(t)), e), command)
            /\ Foreigns(Value(ReadHooks(removed(t)), e), command)
                 = Foreigns(Value(ReadHooks(t), e), command)
        BY AfterUninstall
      <4> HIDE DEF removed
      <4> QED
        BY <4>1, OnAnEvent
    <3> QED
      BY <2>1, <2>2, <3>1, <3>2
  <2>6. ASSUME \A e \in DOMAIN H : H[e] # {} /\ ~Ours(s, e, command)
        PROVE  ReadHooks(removed(installed)) = H
    <3>1. \A e \in DOMAIN H : H[e] # {} /\ ~Holds(H[e], command)
      BY <2>6, OnAnEvent DEF H, Value
    <3>2. UninstallHooks(ReadHooks(installed), command) = H
      BY <2>1, <2>2, <3>1, TakesBack
    <3>3. CASE \E e \in DOMAIN ReadHooks(installed) : Holds(ReadHooks(installed)[e], command)
      BY <2>2, <3>2, <3>3, AfterUninstall
    <3>4. CASE \A e \in DOMAIN ReadHooks(installed) : ~Holds(ReadHooks(installed)[e], command)
      <4>1. removed(installed) = installed
        BY <2>2, <3>4, AfterUninstall
      <4>2. \A e \in DOMAIN InstallHooks(H, command) \cap HookEvents :
              InstallHooks(H, command)[e] = NotArray
        BY <2>1, <2>2, <3>4, InstalledValues DEF Value
      <4>3. InstallHooks(H, command) = H
        <5>1. /\ DOMAIN InstallHooks(H, command) = DOMAIN H \union HookEvents
              /\ \A e \in DOMAIN InstallHooks(H, command) : InstallHooks(H, command)[e] =
                   IF e \in HookEvents THEN InstallEvent(Value(H, e), command) ELSE H[e]
              /\ HooksObject(InstallHooks(H, command))
          BY <2>1, InstalledHooks
        <5>2. \A e \in HookEvents : Value(H, e) = NotArray
          <6>1. \A e : Value(H, e) \in SettingsValues
            BY <2>1, ObjectParts
          <6> QED
            BY <4>2, <5>1, <6>1, InstallKeeps
        <5>3. {} # NotArray
          BY SettingsAssumption
        <5>4. HookEvents \subseteq DOMAIN H
          BY <5>2, <5>3 DEF Value
        <5>5. \A e \in DOMAIN H : InstallHooks(H, command)[e] = H[e]
          BY <4>2, <5>1, <5>2 DEF Value
        <5>6. /\ H = [e \in DOMAIN H |-> H[e]]
              /\ InstallHooks(H, command) =
                   [e \in DOMAIN InstallHooks(H, command) |-> InstallHooks(H, command)[e]]
          BY <2>1, <5>1, ObjectParts
        <5>7. DOMAIN InstallHooks(H, command) = DOMAIN H
          BY <5>1, <5>4
        <5> QED
          BY <5>5, <5>6, <5>7
      <4> QED
        BY <2>2, <4>1, <4>3
    <3> QED
      BY <3>3, <3>4
  <2>7. ASSUME NEW uninstall \in BOOLEAN, NEW left \in Died(s, uninstall, command)
        PROVE  \/ After(left, uninstall, command) = After(s, uninstall, command)
               \/ s.linked /\ ReadHooks(left) = NoHooks
    <3>1. CASE left = s
      BY <3>1
    <3>2. CASE left = After(s, uninstall, command)
      BY <2>1, <3>2, AfterTwice
    <3>3. CASE s.linked /\ \E torn \in {"empty", "broken"} :
                 left = [s EXCEPT !.kind = torn, !.hooks = NoHooks]
      BY <2>1, <3>3 DEF ReadHooks, Editable
    <3> QED
      BY <3>1, <3>2, <3>3 DEF Died
  <2> QED
    BY <1>2, <2>3, <2>4, <2>5, <2>6, <2>7 DEF Kept, H, installed
<1> QED
  BY <1>1, <1>2

\* So it does at any time.
THEOREM SettingsAreKept == Spec => []SettingsKept
<1>1. Misedited = {}
  BY SettingsStand DEF Misedited
<1>2. SettingsKept
  BY <1>1 DEF SettingsKept
<1> QED
  BY <1>2, PTL
=============================================================================
