------------------------------ MODULE GitHooks ------------------------------
(***************************************************************************)
(* The git hooks of githook.rs: `gaff init --git` and its `--uninstall`,   *)
(* file operation by file operation and with a crash before any of them;   *)
(* the other tools and the user that put hooks into the same directory;    *)
(* edits of the config; and one git hook at a time running the script gaff *)
(* wrote, the kept hook, and the entries of `gaff githook`.                *)
(*                                                                         *)
(* Abstracted: the text of a script (who wrote it, and its execute bit);   *)
(* the argv; symbolic links; the order in which a loop takes the hooks.    *)
(* The window between gaff's look at a file and its write is closed by     *)
(* nothing in the code: here no tool writes hooks while `gaff init` runs.  *)
(***************************************************************************)
EXTENDS SettingsFile, Naturals, Sequences, FiniteSets

CONSTANTS Hooks,       \* the hooks gaff knows how to install
          StdinHooks,  \* those git feeds work to on standard input
          Foreign,     \* the hooks other tools may put there
          Configs,     \* the configs a repo may have: [state, git]
          Codes,       \* the exit codes of a command, 0 for success
          Absent       \* no file

\* An entry of the config: the hooks it runs on, whether it stops the rest, and
\* whether its `problems` are none.
Entry == [on : SUBSET Hooks, required : BOOLEAN, sound : BOOLEAN]
Config == [state : {"ok", "degraded", "absent", "broken"}, git : Seq(Entry)]

\* A hook file: who wrote it, or "blank" while gaff's script is not in it yet.
File == [by : Foreign \union {"gaff", "blank"}, exec : BOOLEAN]

ASSUME GitHooksAssumption ==
  /\ StdinHooks \subseteq Hooks
  /\ Configs \subseteq Config
  /\ 0 \in Codes /\ Codes \subseteq Nat
  /\ Foreign \intersect {"gaff", "blank"} = {}
  /\ Absent \notin File

VARIABLES file,    \* hooks/<hook>
          kept,    \* hooks/<hook>.local
          config,  \* the config on disk
          init,    \* `gaff init --git`: what it does, and the hooks left
          run,     \* the git hook that runs
          present, \* history: the foreign hooks that nobody but gaff may remove
          active,  \* history: the hooks a finished install set up
          cleared, \* history: an uninstall finished, and nothing happened since
          gone     \* history: the script of the hook that runs went away under it

disk == <<file, kept>>
history == <<present, active, cleared>>
vars == <<file, kept, config, init, run, history, gone>>

NoInit == [pc |-> "idle", todo |-> {}, hook |-> Absent, git |-> <<>>]
NoRun == [pc |-> "idle", hook |-> Absent, git |-> <<>>, todo |-> {}, worst |-> 0,
          stdin |-> TRUE, cut |-> FALSE, keptFailed |-> FALSE, passed |-> {}, blind |-> FALSE]

Init ==
  /\ file = [k \in Hooks |-> Absent] /\ kept = [k \in Hooks |-> Absent]
  /\ config \in Configs
  /\ init = NoInit /\ run = NoRun
  /\ present = {} /\ active = {} /\ cleared = FALSE /\ gone = FALSE

IsOurs(f) == f # Absent /\ f.by = "gaff"
IsForeign(f) == f # Absent /\ f.by # "gaff"
Foreigners(f) == IF f # Absent /\ f.by \in Foreign THEN {f.by} ELSE {}

\* The entries that run on hook k, by their place in the config.
Due(git, k) == {i \in DOMAIN git : k \in git[i].on}
Declared(git) == {k \in Hooks : Due(git, k) # {}}
Sound(git, which) == \A i \in which : git[i].sound

-----------------------------------------------------------------------------
(* gaff init --git                                                         *)

\* Mutant: the second foreign hook of a slot is not looked for.
BlockedNever(git) == {}

\* One slot holds one kept hook.
Blocked(git) == {k \in Declared(git) : IsForeign(file[k]) /\ kept[k] # Absent}

\* run_init_git checks the config and every hook before it writes any.
InstallStart ==
  /\ init.pc = "idle"
  /\ config.state # "broken" /\ config.git # <<>> /\ Sound(config.git, DOMAIN config.git)
  /\ Blocked(config.git) = {}
  /\ init' = [NoInit EXCEPT !.pc = "install", !.todo = Declared(config.git),
                            !.git = config.git]
  /\ active' = active \ Declared(config.git)
  /\ cleared' = FALSE
  /\ UNCHANGED <<disk, config, run, present>>

\* The next hook: a file gaff did not write moves aside.
KeepForeign(k) ==
  /\ init.pc = "install" /\ k \in init.todo
  /\ IF IsForeign(file[k])
       THEN kept' = [kept EXCEPT ![k] = file[k]] /\ file' = [file EXCEPT ![k] = Absent]
       ELSE UNCHANGED disk
  /\ init' = [init EXCEPT !.pc = "truncate", !.hook = k]
  /\ UNCHANGED <<config, run, history>>

\* fs::write: the file is created without an execute bit, or truncated, ...
Truncate ==
  LET k == init.hook
  IN  /\ init.pc = "truncate"
      /\ file' = [file EXCEPT ![k] = [by |-> "blank",
                                      exec |-> file[k] # Absent /\ file[k].exec]]
      /\ init' = [init EXCEPT !.pc = "write"]
      /\ UNCHANGED <<kept, config, run, history>>

\* ... and written.
WriteScript ==
  /\ init.pc = "write"
  /\ file' = [file EXCEPT ![init.hook].by = "gaff"]
  /\ init' = [init EXCEPT !.pc = "chmod"]
  /\ UNCHANGED <<kept, config, run, history>>

\* Mutant: the mode of a new file is left as the umask made it.
SetExecutableNever ==
  /\ init.pc = "chmod"
  /\ init' = [init EXCEPT !.pc = "install", !.todo = @ \ {init.hook}]
  /\ UNCHANGED <<disk, config, run, history>>

SetExecutable ==
  /\ init.pc = "chmod"
  /\ file' = [file EXCEPT ![init.hook].exec = TRUE]
  /\ init' = [init EXCEPT !.pc = "install", !.todo = @ \ {init.hook}]
  /\ UNCHANGED <<kept, config, run, history>>

Installed ==
  /\ init.pc = "install" /\ init.todo = {}
  /\ active' = active \union Declared(init.git)
  /\ init' = NoInit
  /\ UNCHANGED <<disk, config, run, present, cleared>>

-----------------------------------------------------------------------------
(* gaff init --git --uninstall                                             *)

UninstallStart ==
  /\ init.pc = "idle"
  /\ init' = [NoInit EXCEPT !.pc = "uninstall", !.todo = Hooks]
  /\ active' = {} /\ cleared' = FALSE
  /\ UNCHANGED <<disk, config, run, present>>

\* Mutant: only the hook of a script gaff still finds is restored.
UninstallOwnOnly(k) ==
  /\ init.pc = "uninstall" /\ k \in init.todo
  /\ IF IsOurs(file[k])
       THEN /\ file' = [file EXCEPT ![k] = Absent]
            /\ init' = IF kept[k] # Absent THEN [init EXCEPT !.pc = "restore", !.hook = k]
                                           ELSE [init EXCEPT !.todo = @ \ {k}]
       ELSE /\ init' = [init EXCEPT !.todo = @ \ {k}]
            /\ UNCHANGED file
  /\ UNCHANGED <<kept, config, run, history>>

\* A script of gaff's is removed, and its kept hook restored; a kept hook whose
\* place is free is restored as well.
Uninstall(k) ==
  /\ init.pc = "uninstall" /\ k \in init.todo
  /\ file' = IF IsOurs(file[k]) THEN [file EXCEPT ![k] = Absent] ELSE file
  /\ init' = IF kept[k] # Absent /\ ~IsForeign(file[k])
               THEN [init EXCEPT !.pc = "restore", !.hook = k]
               ELSE [init EXCEPT !.todo = @ \ {k}]
  /\ UNCHANGED <<kept, config, run, history>>

Restore ==
  LET k == init.hook
  IN  /\ init.pc = "restore"
      /\ file' = [file EXCEPT ![k] = kept[k]]
      /\ kept' = [kept EXCEPT ![k] = Absent]
      /\ init' = [init EXCEPT !.pc = "uninstall", !.todo = @ \ {k}]
      /\ UNCHANGED <<config, run, history>>

Uninstalled ==
  /\ init.pc = "uninstall" /\ init.todo = {}
  /\ init' = NoInit
  /\ cleared' = TRUE
  /\ UNCHANGED <<disk, config, run, present, active>>

\* The process is killed, or an IO error ends it.
Crash ==
  /\ init.pc # "idle"
  /\ init' = NoInit
  /\ UNCHANGED <<disk, config, run, history>>

-----------------------------------------------------------------------------
(* Other tools, and the user.                                              *)

\* A tool installs its hook, whatever was there.
ToolWrites(k, f, exec) ==
  /\ init.pc = "idle" /\ f \notin present
  /\ file' = [file EXCEPT ![k] = [by |-> f, exec |-> exec]]
  /\ present' = (present \ Foreigners(file[k])) \union {f}
  /\ active' = active \ {k} /\ cleared' = FALSE
  /\ UNCHANGED <<kept, config, init, run>>

Delete(k) ==
  /\ init.pc = "idle" /\ file[k] # Absent
  /\ file' = [file EXCEPT ![k] = Absent]
  /\ present' = present \ Foreigners(file[k])
  /\ active' = active \ {k} /\ cleared' = FALSE
  /\ UNCHANGED <<kept, config, init, run>>

DeleteKept(k) ==
  /\ init.pc = "idle" /\ kept[k] # Absent
  /\ kept' = [kept EXCEPT ![k] = Absent]
  /\ present' = present \ Foreigners(kept[k])
  /\ cleared' = FALSE
  /\ UNCHANGED <<file, config, init, run, active>>

EditConfig(c) ==
  /\ c # config
  /\ config' = c
  /\ UNCHANGED <<disk, init, run, history>>

-----------------------------------------------------------------------------
(* git runs a hook.                                                        *)

\* git runs an executable hook; the ones that are not gaff's script, an empty one that
\* an install is about to write among them, are not modelled.
GitRuns(k) ==
  /\ run.pc = "idle"
  /\ IsOurs(file[k]) /\ file[k].exec
  /\ run' = [NoRun EXCEPT !.pc = "kept", !.hook = k]
  /\ UNCHANGED <<disk, config, init, history>>

\* Mutant: the kept hook reads git's stream itself.
CapturedNever(k) == FALSE

\* Whether the script copies the stream first, for the kept hook and gaff to read. A
\* hook that git sends nothing must not read it.
Captured(k) == k \in StdinHooks

\* Whether gaff reads the stream once and hands every entry its own copy.
OwnCopy(k) == k \in StdinHooks

\* The script calls the kept hook first, if it is executable.  A copy of the stream that
\* fails half-way (a full disk) is taken for the whole: the script does not look.
KeptRuns(code, whole) ==
  LET k == run.hook
      runs == kept[k] # Absent /\ kept[k].exec
  IN  /\ run.pc = "kept"
      /\ code # 0 => runs
      /\ run' = [run EXCEPT !.pc = IF code = 0 THEN "load" ELSE "refused",
                            !.keptFailed = code # 0,
                            !.stdin = @ /\ (runs => Captured(k)),
                            !.cut = @ \/ (Captured(k) /\ ~whole)]
      /\ UNCHANGED <<disk, config, init, history>>

\* Mutant: a hook without an entry has nothing to check.
StaleNever(k) == FALSE

\* stale_installs, for the hook that runs.
Stale(k) == IsOurs(file[k]) /\ k \notin Declared(config.git)

\* A malformed entry of this hook must not vanish.
Malformed(k) == ~Sound(config.git, Due(config.git, k))

\* run_githook refuses when its config cannot be read, when the script and the config
\* have drifted, and when a declared entry of this hook is malformed.  Its read of the
\* stream may fail half-way as well, which `.ok()` drops.
LoadConfig(whole) ==
  LET k == run.hook
      refuse == \/ config.state # "ok"
                \/ Stale(k)
                \/ Malformed(k)
  IN  /\ run.pc = "load"
      /\ run' = IF refuse THEN [run EXCEPT !.pc = "refused"]
                          ELSE [run EXCEPT !.pc = "entries", !.git = config.git,
                                           !.todo = Due(config.git, k),
                                           !.cut = @ \/ (OwnCopy(k) /\ ~whole)]
      /\ UNCHANGED <<disk, config, init, history>>

\* The first failure's code stays.
Worst(worst, code) == IF worst = 0 THEN code ELSE worst

\* The next entry in the config's order; a required one that fails ends the run.
RunEntry(i, code) ==
  /\ run.pc = "entries"
  /\ i \in run.todo /\ \A j \in run.todo : i <= j
  /\ run' = [run EXCEPT !.pc = IF code # 0 /\ run.git[i].required THEN "refused" ELSE @,
                        !.todo = @ \ {i}, !.worst = Worst(@, code),
                        !.passed = IF code = 0 THEN @ \union {i} ELSE @,
                        !.blind = @ \/ (run.hook \in StdinHooks /\ (~run.stdin \/ run.cut)),
                        !.stdin = @ /\ OwnCopy(run.hook)]
  /\ UNCHANGED <<disk, config, init, history>>

EntriesDone ==
  /\ run.pc = "entries" /\ run.todo = {}
  /\ run' = [run EXCEPT !.pc = IF run.worst = 0 THEN "passed" ELSE "refused"]
  /\ UNCHANGED <<disk, config, init, history>>

\* git goes on, or gives up the commit or the push.
GitGoesOn ==
  /\ run.pc \in {"passed", "refused"}
  /\ run' = NoRun
  /\ UNCHANGED <<disk, config, init, history>>

-----------------------------------------------------------------------------
InitGit ==
  \/ InstallStart \/ Truncate \/ WriteScript \/ SetExecutable \/ Installed
  \/ UninstallStart \/ Restore \/ Uninstalled
  \/ Crash
  \/ \E k \in Hooks : KeepForeign(k) \/ Uninstall(k)

Others ==
  \/ \E k \in Hooks : \/ \E f \in Foreign, exec \in BOOLEAN : ToolWrites(k, f, exec)
                      \/ Delete(k) \/ DeleteKept(k)
  \/ \E c \in Configs : EditConfig(c)

GitHook ==
  \/ \E k \in Hooks : GitRuns(k)
  \/ \E code \in Codes, whole \in BOOLEAN : KeptRuns(code, whole)
  \/ \E whole \in BOOLEAN : LoadConfig(whole)
  \/ \E code \in Codes : \E i \in run.todo : RunEntry(i, code)
  \/ EntriesDone \/ GitGoesOn

Watch == gone' = (run'.pc # "idle" /\ (gone \/ ~IsOurs(file'[run'.hook])))

Next == (InitGit \/ Others \/ GitHook) /\ Watch

Spec == Init /\ [][Next]_vars

-----------------------------------------------------------------------------
Installing == {"install", "truncate", "write", "chmod"}

InitState == [pc : {"idle", "install", "truncate", "write", "chmod", "uninstall", "restore"},
              todo : SUBSET Hooks, hook : Hooks \union {Absent}, git : Seq(Entry)]
RunState == [pc : {"idle", "kept", "load", "entries", "passed", "refused"},
             hook : Hooks \union {Absent}, git : Seq(Entry), todo : SUBSET Nat,
             worst : Codes, stdin : BOOLEAN, cut : BOOLEAN, keptFailed : BOOLEAN, passed : SUBSET Nat,
             blind : BOOLEAN]

TypeOK ==
  /\ file \in [Hooks -> File \union {Absent}]
  /\ kept \in [Hooks -> File \union {Absent}]
  /\ config \in Configs
  /\ init \in InitState /\ run \in RunState
  /\ init.pc \in {"truncate", "write", "chmod", "restore"} => init.hook \in init.todo
  /\ run.pc # "idle" => run.hook \in Hooks
  /\ present \subseteq Foreign /\ active \subseteq Hooks /\ cleared \in BOOLEAN /\ gone \in BOOLEAN

\* An install that is past its check has a free place for every foreign hook it has yet
\* to move, and an uninstall that removed a script has the kept hook to restore. What
\* is kept is never a script of gaff's.
SlotsFree ==
  /\ \A k \in Hooks : ~IsOurs(kept[k])
  /\ init.pc \in Installing =>
       \A k \in init.todo : \/ kept[k] = Absent \/ ~IsForeign(file[k])
                            \/ init.pc = "write" /\ k = init.hook
  /\ init.pc = "truncate" => ~IsForeign(file[init.hook])
  /\ init.pc = "write" => file[init.hook] # Absent /\ file[init.hook].by = "blank"
  /\ init.pc = "chmod" => IsOurs(file[init.hook])
  /\ init.pc = "restore" => file[init.hook] = Absent /\ kept[init.hook] # Absent

\* What an install or an uninstall has done of its work.
InitProgress ==
  /\ init.pc \in Installing =>
       /\ init.todo \subseteq Declared(init.git)
       /\ active \intersect Declared(init.git) = {}
       /\ \A k \in Declared(init.git) \ init.todo : IsOurs(file[k]) /\ file[k].exec
  /\ init.pc \in {"uninstall", "restore"} =>
       /\ active = {}
       /\ \A k \in Hooks \ init.todo : /\ ~IsOurs(file[k])
                                       /\ file[k] = Absent => kept[k] = Absent
  /\ cleared => init.pc = "idle"

\* What a git hook that goes on has seen.
RunProgress ==
  /\ run.pc \in {"load", "entries", "passed"} => ~run.keptFailed
  /\ run.pc \in {"entries", "passed"} =>
       /\ run.worst = 0 => Due(run.git, run.hook) \ run.todo \subseteq run.passed
       /\ Due(run.git, run.hook) = {} => gone
  /\ run.pc = "passed" => run.worst = 0 /\ run.todo = {}
  /\ run.hook \in StdinHooks => run.stdin

GitInv == TypeOK /\ SlotsFree /\ InitProgress /\ RunProgress

\* "An install never discards another tool's work": whatever crashes in the middle of
\* installs and uninstalls, a hook another tool put there is in its place or kept
\* beside it, until a tool or the user removes it.
ForeignKept ==
  \A f \in present :
    \E k \in Hooks : f \in Foreigners(file[k]) \union Foreigners(kept[k])

\* "Install and uninstall have to be inverses whatever the slot held": once an
\* uninstall is through, no script of gaff's is left, and no kept hook is stranded
\* beside a free slot, also when an earlier install or uninstall crashed.
UninstallRestores ==
  cleared => \A k \in Hooks : /\ ~IsOurs(file[k])
                              /\ file[k] = Absent => kept[k] = Absent

\* Once an install is through, git runs gaff's script for every hook it declared, until
\* a tool replaces it or someone uninstalls: the file is gaff's and has the execute bit
\* git asks for.
InstalledRuns == \A k \in active : IsOurs(file[k]) /\ file[k].exec

\* "A git hook exists to block": git goes on only when the kept hook did not fail and
\* every entry the config declares for the hook ran and succeeded; and when none is
\* declared, only because gaff's script was taken away while it ran. A config edited,
\* lost or broken after the install, or between the kept hook and the entries, never
\* opens the gate.
GateHolds ==
  run.pc = "passed" =>
    /\ ~run.keptFailed
    /\ Due(run.git, run.hook) \subseteq run.passed
    /\ Due(run.git, run.hook) = {} => gone

\* Every entry of a hook that git feeds reads the whole stream: neither the kept hook
\* nor an earlier entry spends it.  The exception is a stream that the script's `cat` or
\* gaff's own read got a part of: the entries then run on that part, and git goes on.
RefsReachAll == run.blind => run.cut

-----------------------------------------------------------------------------
(* The host's settings file, which `gaff init` edits as well.              *)

\* `gaff init` keeps what the host's settings file holds of others and `--uninstall` is its
\* inverse (init.rs, edit_settings; init.rs:2), whatever the file looks like; a run that
\* dies can be run again to the same end.  The exception is a file with a second name: it
\* is written in place (init.rs:248), and a death there loses all that it holds, although
\* init.rs:7 says that a crash never leaves a truncated file.
SettingsKept == init.pc = "idle" => Misedited = {}
=============================================================================
