# gaff: a TLA+ verification project

gaff is a command that an agent host (Claude Code) runs as its hooks: it counts tool
calls and prompts, injects the sections, reminders and handler output whose cadence came
round, refuses tool calls and stops that the user's guards and holds forbid, writes and runs
a repo's git hooks and workflows, and lets a push through only with its reviews. It has no
daemon. Every event is a process of its own, several
of them run at once on one session, and all that they share is a directory of small files.
So the hard part of the program is what these models are about: file operations of
processes that interleave, die between two of them, and read a thing before another
process changes it.

Line numbers below and in `PROJECT.json` are of the repository's `src/` directory.

## 1. Inventory

| Component | Source | State it keeps | Operations that change it |
|---|---|---|---|
| Session ledger | `state.rs` 163-257 | `ledger.jsonl`, the flock on `ledger.lock` | `record_tool_call`, `record_prompt` |
| Session markers | `state.rs` 259-413, `engine.rs` 45-346 | `pending-<name>`, `oneshot-<id>.json`, `fired-<id>`, `reprime`, `profile` | `handle_with` (arm, compact, flush), `gaff remind --after`, `gaff profile set` |
| Flush merge | `engine.rs` 111-121, 353-476 | none on disk: the entries of one flush and the byte cap | `merge`, `select`, `clip` |
| Stop holds | `cli.rs` 310-417, 433-543, `state.rs` 415-617 | `holds/<id>`, `released/profile-<name>`, `stop-refusals` | `refuse_stop`, `materialize_profile_hold`, `gaff remind --at stop`, `--clear` |
| Guards | `guard.rs`, `cli.rs` 179-308, 1768-1967, `state.rs` 555-579 | `allow-<guard>`, the session's profile | `run_hook` on PreToolCall, `gaff allow`, `gaff profile set` |
| Git hooks | `githook.rs`, `cli.rs` 1581-1625, 1825-1881 | `hooks/<hook>` and `hooks/<hook>.local` | `gaff init --git`, `--uninstall`, `gaff githook` |
| Handler processes | `handler.rs` | children, pipes, deadlines; the trust file | `run_due`, `run_one`, `trust` |
| Review agents | `hookagent.rs` | a child and its captured output | `dispatch`, `run_capturing` |
| Review gate | `reviewnote.rs`, `cli.rs` 2258-2740 | sign-offs in git notes | `gaff reviews add`, `gaff reviews check`, `gaff ci` |
| Config layers | `config.rs` | the merged config, recomputed by every process | `load_layered`, `overlaid_with`, `resolve_profile` |
| Host settings | `init.rs` | the host's `settings.json` | `gaff init`, `--uninstall` |
| GitHub workflows | `ghworkflow.rs`, `cli.rs` 1627-1750 | generated workflow files | `gaff init --github`, `gaff check --github` |
| Adapters, events | `adapter.rs`, `event.rs` | none: a table from payloads to envelopes | |
| Reports | `cli.rs`, `docs.rs` | none | `status`, `check`, `doctor`, `log`, `docs` |

How they interact. The host starts `gaff hook` with a payload. The adapter makes an
envelope of it; the config is loaded, and the guards decide on a PreToolCall before
anything else happens. Otherwise the profile is resolved, the ledger counts the event and
hands the count to `arm_crossings`, which writes a pending marker for each cadence that
crosses. Session starts, prompts, tool batches and stops are flush points: a flush reads the
markers, runs the handlers, merges what is due under the cap, consumes each marker as it
emits its entry, and prints. A stop asks the blocking handlers and the holds first. The
person and the agent run `gaff remind`, `gaff allow` and `gaff profile set` on the same
session directory at any moment. git runs the scripts that `gaff init --git` wrote, which
call `gaff githook`.

What is hard, and what makes each part correct:

* *Ledger.* Several hooks record at once, the host may report one call twice, and a hook may
  be killed while it holds the lock. Correct: each call counts once, counts are exact, no
  lock outlives its holder.
* *Markers.* No lock protects them. Correct: a crossing is delivered at most once and is not
  lost between two hooks; a compaction or a new `remind` re-arms a one-shot exactly once.
* *Flush merge.* The cap, its truncation marker and its separators are accounted for in three
  places, and what is held back has to come later. Correct: the cap holds, the user's
  entries go first, the backlog drains.
* *Holds.* They may stop an agent from stopping. Correct: never for ever, never more often
  than the budget, never again after a release.
* *Guards.* Only the first refusing guard is asked for, allowances are files that racing hooks
  take, and the profile changes between the stages. Correct: no refused call passes
  unwaived, a waiver is used once, the guard gaff carries yields to an allowance in its own name
  alone, a repo selects no law.
* *Git hooks.* Install and uninstall share a directory with other tools and may die half-way;
  the config drifts away from the scripts. Correct: no foreign hook is lost, an uninstall is
  the inverse, and the gate does not open because there was nothing to check.

* *Handlers and review agents.* A child may hang, leave a grandchild with its pipes, write
  without end or die of gaff's own kill, and its answer races the deadline. Correct: the
  budget holds, what came in time is heard, gaff's kill is not taken for the child's verdict,
  and nothing runs that nobody granted.
* *Review gate.* A sign-off is about one commit, but notes are carried to others, HEAD moves
  and a pull request's merge commit is nobody's. Correct: what passes is a commit someone
  read and passed, for each review its policy asks for.
* *Config layers.* A repo nobody vetted is laid over the user's config. Correct: it adds, and
  but for two named cases takes nothing away, whatever it declares and however either file is
  broken.
* *Settings and workflows.* Files of others are edited in place, by runs that may die.
  Correct: what is not gaff's stays, and a run repeated after a death ends where one run
  would have.

`PROJECT.json` lists every hazard at its line, with the properties that watch it, or with
the reason why none does yet.

## 2. The modules

A definition keeps the name of the function or file it models where it can. A step is one
file operation wherever another process can come between two of them.

**`LedgerLines`, `CallCounter`, `Ledger`.** `CallCounter` is the abstract specification: to
count an event is one atomic step that returns the exact count. `Ledger` is `state.rs`: each
hook takes the flock (`Acquire`), reads the log and finds its call or not (`Read`), appends
with one write (`AppendLine`), unlocks (`Unlock`), and may be killed or fail before each of
these (`Abort`), when the kernel drops its lock. A read that fails is no error in the code: the hook
goes on with an empty log (`ReadFails`), counts from 1 and knows no call, and `AppendCounting` is the
append of both. `Linearizable` is the refinement, `CallCounter` instantiated with the log for the
counted events; its properties say what each such read costs.

**`FlushMerge`.** One flush over a list of entries: `Order` (the stable sort of `merge`),
`Consider` (one turn of `select`: admit, clip or skip), `Emit` (one turn of the emitting loop;
`FALSE` for a racing hook that consumed the marker first), `Finish` (the truncation marker),
and `NextFlush`: what is still armed is offered again, and with it whatever was armed anew since
(`fresh`), as by a cadence that crosses. A text is its length.

**`Deliveries`, `Session`.** `Deliveries` is the abstract specification: a crossing earns its entry
one delivery (`Cross`), a one-shot set again or erased by a compaction earns one and never has
two (`Rearm`), and an entry is delivered only when one is earned (`Deliver`). `Session` is the code:
all marker files of a session and the processes on them. A hook goes through
the phases of `handle_with`: count (one step, by the result of `Ledger`), arm, or clear the
fired markers after a compaction; then a flush reads the re-prime marker, the pending and
the one-shot files, runs handlers, selects (any subset may be held back, by the result of
`FlushMerge`), claims and prints. `Remind` and `SetProfile` are processes of their own.
`DeliversEarned` is the refinement: `earned` is mapped to `credit`, the history of what crossed
and was not claimed yet.

**`StopHold`.** A stop: `Materialize` the bundle's hold, the blocking handlers, `FindHold`, the
count and its cap, the read and the write of `refuse_hold`, the clearing of a spent hold with
its release marker, and the host's next turn. `gaff remind --at stop` and `--clear` are other
processes whose marking and removing come between these steps. A hold's file carries its `times`,
and each set may state another. `RefuseWrite` writes back the record that `RefuseRead` found, over
a set made since: `asked` is what the last set wanted, `undone` the ids where it was overwritten.

**`Guards`.** A PreToolCall hook: `BaseStage` (built-in guard, then the config's), `Resolve`
(`resolve_profile`: `GAFF_PROFILE`, then the session's own profile, `.gaff/profile`, the default,
and which of them may choose a bundle that carries guards), `BundleStage`; and `Allow` and
`SetProfile` by the person and by the agent. A guard is a name and the set of calls it refuses. An
allowance is the file that `sanitize` makes of a guard's name (`File`), so that two guards may share
one. A guard of the user's may have any name, the built-in's too.

**`GitHooks`.** `gaff init --git` as `InstallStart` (every check before the first write),
`KeepForeign`, `Truncate`, `WriteScript`, `SetExecutable`, `Installed`; `--uninstall` as
`UninstallStart`, `Uninstall`, `Restore`, `Uninstalled`; `Crash` between any two. Other tools
write and remove hooks, the config changes at any moment, and one git hook runs: the kept hook
(`KeptRuns`), the load of the config and its refusals (`LoadConfig`), the entries (`RunEntry`). The
script's `cat` and gaff's own read of git's stream may fail, unchecked, and cut it.

**`HandlerRun`.** One gaff process that runs children under a deadline: the due handlers of a
flush, the blocking handlers of a stop, or a review agent's context command and runner. gaff's
steps are `Begin` (is the directory granted, what is due), `Spawn`, `Receive` or
`ReadTimesOut` (the channel from the reading thread), `Reap` or `Overrun` (`wait_bounded`),
`ReadStderr` and `Finish`; the reader's is `ReaderSends`; the child writes, floods, forks,
closes its pipes and exits when it likes, as may the process it left behind, and `Tick` moves
the clock while gaff waits. The child's output may be too long for a context and not for the read
(`Swells`), and a runner may write a line that `strip_marker` panics on (pc "panic", exit 101). The
trust record is written by `gaff trust` in three steps (`TrustReads`, `TrustEmpties`, `TrustWrites`)
with a death between any two, and by hand. A directory is written as it is spelled and read back by
lines, trimmed (`Lines`, `Trim`): `Names` is what a record then grants.

**`ConfigLayers`.** Pure operators, translated function by function: `Load`, `LoadLayered`,
`OverlaidWith`, `SanitizeRepoProfile`, `MergeReviews`, `WithProfile`. `Stands` says, for one
pair of files and one profile in force, what a repo may not take away: a guard, a check, a review, a
profile's choice, the cap, and an entry with its pending marker. `EntriesStand` names the two cases
in which the code takes one: an entry whose name the bundle of a repo's profile has too, and the
marker of an entry of a user's bundle.

**`Workflows`.** Pure operators: the faults of a declaration (`Problems`), what it renders to,
the writes of `InitGithub` cut off at any file, and what `CheckGithub` makes of the tree.

**`ReviewGate`**, which takes its policy from `ConfigLayers` and its first phases from
`Workflows`. A reviewer reads a commit and writes its line later (`Reads`, `Signs`), people
write remarks (`Remarks`), notes are carried (`Carries`), HEAD moves (`Moves`); the gate is a push
(`Pushes`, with the lines git gives its hook, `refs`, and those that reach gaff, `got`) or `gaff ci`
(`CiStarts`, `CiHead`), then `ReadsConfig`, `ReadsRefs`, `ChecksTip` for each tip, and `Decides`. A
stream that was cut has lost lines; only a last line of fewer than four fields (`short`) betrays it.

**`SettingsFile`.** Pure operators: what `gaff init` and `--uninstall` refuse to touch (`Refuses`),
what each makes of the hooks (`After`), and the files a death may leave (`Died`). `GitHooks` takes it in, as
`ReviewGate` does `ConfigLayers` and `Workflows`.

`MC*` modules hold the instances; `*Proofs` modules the theorems. Where a component is a function
and no process, its property ranges over all of a run's inputs and is asked in one state
(`RepoAddsOnly`, `WorkflowsSettle`, `SettingsKept`): those three are not about the steps around it.

## 3. The runs

| Run | What it shows |
|---|---|
| `ledger` | three hooks, two calls, two prompts, crashes everywhere: counted once, exact, linearizable |
| `flush` | every backlog of up to three entries that `flush` can build: the cap is kept, user first; and with entries armed anew between flushes, what nothing before it starves drains |
| `flush_held_back` | *violated*: a session start's section that the cap holds back is not delivered later |
| `session` | two processes, every kind of event: the markers implement `Deliveries`, so that none is delivered twice; no crossing is lost, each is delivered in the end |
| `session_switch` | *violated*: a switch's re-prime marker is taken by a hook that resolved the old profile |
| `stop_hold` | refusals are bounded, budgets kept, releases stick, the session ends |
| `stop_hold_spent` | *violated*: a spent hold lets the stop through although another is armed |
| `guards` | no refused call passes unwaived, waivers are one-shot, the built-in guard is lifted by an allowance in its own name alone, law is chosen by the user |
| `guards_remedy` | *violated*: a bundle guard's refusal names a `gaff allow` that does not work |
| `git_hooks` | no foreign hook is lost, uninstall is the inverse, finished installs run, the gate holds, every entry sees the refs; a host's settings keep what is not gaff's |
| `handlers` | flushes, stops and `gaff run` against children that do anything: the budget, the answer in time, whose exit a failure is, who granted the run, and that it ends |
| `review_gate` | what passes was read and passed; a refusal has its reason; a repo's config takes nothing away, in all but two cases; workflow files settle |

The four violated runs are disagreements between the code and a sentence of its docs, comments
or messages; `PROJECT.json` "findings" quotes them. Two of them lose something a user asked
for: a second hold (`stop_hold_spent`), and the sections of a new profile (`session_switch`).

Bounds, and why they are enough:

* `Ledger`: three hooks is one holder and two waiters, enough for a waiter to be overtaken; two
  calls and `MaxPrompts` 2 allow a duplicate, a different call and a prompt in every order.
  `MaxMisreads` 1: one record made with the log unreadable, after which the count goes on from the
  longer log.
* `FlushMerge`: the code's 2, 16 and 32 bytes are scaled to 1, 2 and 1, with lengths 1, 3 and 4 and
  caps 1 (below the marker), 3 and 5, so that each comparison in `select` and `merge` goes both
  ways. Three entries
  are one before, one at and one behind the entry at the limit. The proofs cover the rest.
* `Session`: `MCScenarios` bounds how often each cause happens in one behaviour; each scenario
  combines the causes that touch the same files. Two processes are the race; a third repeats
  it. Cadences of 1 make each count a crossing.
* `StopHold`: two holds, the session's own under the one id that sets without `--id` share, and a
  bundle's with a budget of 1; two commands, each of which may set the first without a budget or
  with 1 or 2. The cap is 2 for the code's 12; `KilledStreak` bounds the streak from which no hook
  is killed any more, one past the cap, so that the file's counter stays finite.
* `Guards`: guards overlap and one call falls under two; a guard of the user's config has the
  built-in's name, and a bundle's guard shares its allowance's file with one of the config (`no push`
  and `no_push`). `MaxGrants` 1: a second grant of a name adds the same file.
* `GitHooks`: one hook that git feeds and one it does not; two foreign tools so that a slot can
  be wanted twice. Foreign tools are interchangeable, so the run uses their symmetry, and it
  checks no liveness. The settings files are every value of one event, plain and with a second name,
  and pairs of two events.
* `HandlerRun`: five handlers: one of a prompt and a session start, one that a stop runs without
  blocking, two that block a stop, and one refused for an event that is no flush point. Timeouts are
  below, at and above `MAX_TIMEOUT_MS` (2), those of a stop add up to more than its budget, and one
  command is of the bundle. Three directories: where the run is, one whose name has a line break, one
  whose name ends in white space. A session start has one unit more than the other flushes.
  `MaxClock` is the longest budget; at it the clock stops, and only a held stderr can be longer.
* `ReviewGate`: two reviewers and two reviews, so that one may pass what the other fails; two
  commits of a branch and the merge of a pull request; one repo that asks for more on the second
  commit, and one that states a policy, none, and an empty one; streams of up to three ref lines, with
  every cut. Reviewers are interchangeable. The
  config files: three of the user's and 288 of a repo's, and each layer's file
  unusable in every way there is.

Fairness, where a property needs it:

* `FlushMerge`: a flush runs to its end and the session keeps flushing, as every prompt, tool
  batch and stop is a flush point. Nothing is assumed of what is armed anew before each flush: that
  is where `BacklogDrains` has its proviso, that from some flush on nothing before the entry is.
* `Session`: a process that runs goes on, and tool batches keep coming (`SF`, for a hook can start
  only while a process is free); kills and held-back flushes are finitely many.
* `StopHold`: a hook goes on (its handlers have a deadline) and an agent refused its stop takes
  another turn, which ends in a stop. No fairness on `gaff remind`, on kills, or on a handler
  that passes.
* `HandlerRun`: gaff's process and its reading thread are scheduled, and time passes. A child owes
  nothing. `RunEnds` has the one exception the code has: a failed child's stderr is read to its
  end, for as long as any process holds it.

## 4. What is proved

Each theorem holds for every value of the constants under the assumptions beside their
declaration (`LedgerAssumption`, `FlushAssumption`, `SessionAssumption` and so on). TLC
evaluates those assumptions in every run, and checks the invariants the properties rest on. The
assumptions say what the code's types and its checks of a config give: that names are distinct,
that a cadence is not 0, that a parsed file has the fields its type has. `SessionAssumption` adds that
finitely many processes run at once, and `GuardsAssumption` that no other name in use has the
built-in guard's own file. Where the code falls short of a sentence of its own, the theorem names the
case and excepts it; section 5 lists those cases.

* **`LedgerProofs`**: `CallsCountedOnce`, `CountsStayExact`, `ImplementsCallCounter`. The property
  is not inductive as it stands. `SnapshotFresh` makes it so: between the read and the unlock a
  process holds the lock, and what it read is still the whole log, or nothing if its read failed
  (pc "recount"). Every `AppendLine` is then a step of `CallCounter`, and every other step a stutter.
  A record made of a failed read may repeat a call and a count, so the theorems allow for them one
  by one (`recounted`).
* **`FlushMergeProofs`**: `CapHolds`, `UserComesFirst`, for every list, cap and length, and whatever
  is armed anew. A cap shorter than the marker, which the code accepts, is one that the bare marker
  exceeds, and nothing else does: `CapRespected` says so. `Accounted`
  says that `used` is what joining the selected texts takes and never passes the cap;
  `Emitting`, that what was emitted is no more than what had been selected so far, whatever a
  racing hook took; `Priority`, that a user entry which was not selected whole has set
  `user_held_back`. Induction over the list is not needed: the list is a variable's walk.
* **`SessionProofs`**: `SessionInvariant`, `ImplementsDeliveries`, `CrossingsAreKept`, for any set of
  cadences, profiles and one-shots and any number of processes. That nothing is delivered
  unearned is not inductive: a step that claims a marker does not look at what was earned.
  `Backed` makes it so: an entry's credit covers its pending file and every hook that is about to
  write one (a cardinality over the processes), and a one-shot has a credit exactly while it has
  no fired file. `Apart` keeps the kinds of a process's work list apart. Of two flushes that hold the
  same crossing in memory one finds the file and takes a credit, and the other finds none and
  stutters. `CrossingsAreKept` follows a crossing from the count to the printed output through every
  process that may have it in hand.
* **`StopHoldProofs`**: `RefusalsAreBounded`, `BudgetsAreRespected`, `ReleasesStick`, for any number of
  holds, commands and any cap. `StreakCovers` ties the refusals in a row to the counter's file,
  `PushesCounted` ties the refusals of a budget to the hold's file or to what the hook read of
  it, so that the budget kept is that of the last set, or the older one of the record that
  `refuse_hold` wrote over it; `Sticky` says that a released bundle's hold stays marked until it is set by hand.
* **`GuardsProofs`**: `GuardsAlwaysStand`, `AllowancesAreOneShot`, `PrivilegedAlwaysRefused`,
  `LawIsTheUsers`, for any lists of guards, whatever their names, and any number of hooks. The
  invariant says what each hook's past stages have settled, and counts a file's waivers against its
  grants; the lemma behind it is that the first refusing guard is the one asked for, and that the
  built-in guard is the first, so that what it refuses goes through by an allowance in its own name
  or not at all, and such an allowance exists only where a guard of the config has that name.
* **`GitHooksProofs`**: `AnInstallDiscardsNothing`, `UninstallIsTheInverse`, `AnInstallStands`,
  `TheGateHolds`. `SlotsFree` says that what the check saw stays so while an install writes, so
  that no rename lands on a kept hook; `InitProgress`, how much of the work is done;
  `RunProgress`, that the code which leaves is 0 only if every entry passed. `EntriesSeeTheRefs` is
  about the stream that git feeds a hook: whoever reads it first, no entry finds it spent, and it is
  whole unless one of the two unchecked reads failed.
  `SettingsStand` is for any settings file and any command, and `SettingsAreKept` states it of the
  run's files: the lemmas say what an edit of one event's entries keeps of the others' and what
  the uninstall takes out, and both are shown of the file written. After a death a second run ends
  where one would have, but for a file with a second name, which may have lost every hook.
* **`HandlerRunProofs`**: `BudgetIsKept`, `FailuresAreItsOwn`, `InTimeIsHeard`, `AdmitsOnlyOnPass`, for
  any handlers, timeouts, budgets and names of directories. `RunInv` ties what gaff has read to the
  trace of what the child did, and says that nothing runs where no line of a grant, trimmed, names
  the place. `InTimeIsHeard` excepts a runner that wrote a line which gaff panics on. Added to it: `Flushes` and `Agents`, that each wait's limit lies within the deadline of
  the whole run and that the clock does not pass it while gaff reads (time a stderr was held
  apart); `Endings`, how a child may have ended by the phase gaff is in.
* **`ReviewGateProofs`**: `WhatPassesWasRead`, `UnapprovedIsRefused`, for any commits, reviewers, policies
  and streams, wherever they are cut: what a cut that leaves no short line took out is excepted
  (`Unseen`), and every line that came is accounted for. `LinesHonest` says that a line which names a commit was written by a reviewer who
  read it, however often the note was carried; `CheckedSoFar`, that a tip already passed has been
  read for each required review; `Staged`, what an earlier phase settled. `ShortfallExact` is the
  lemma that an empty shortfall is an approval.
  The same module proves what the gate starts from. `RepoAdds` is for any two files the parser can
  make, any profile and with or without `HOME`; no induction, for the code is a function. Its lemmas go
  along `load_layered`: what each file is read as, what `RepoConfig` and `SanitizeRepoProfile` leave of
  a repo's profile, what the overlay keeps, and what a profile in force makes of it; the two cases
  of `EntriesStand` are its only exceptions.
  `RepoOnlyAdds` states it of the run's files. `InstallsSettle` is for any list of declarations, any tree
  and a death anywhere, and `WorkflowsAlwaysSettle` states it of the run's. A file is what the last
  declaration of its name writes, and a fault is met at the first: the order of the naturals, which is
  well-founded, gives both, so that no induction over the list is needed.

Three theorems are about claims that a run shows to be violated, and say what it takes for each to
hold. `SwitchesPrimeInTurn`: a switch re-primes if the session's processes run one at a time and none is
killed. `RemediesWorkForKnownNames`: `gaff allow` works as offered if every bundle guard has the name of
a base guard. `HoldsWithoutBudgetsRefuse`: no stop goes through past an armed hold if no set and no
bundle states `times` and none is set while a stop is half-way. So the counterexamples show the only causes there
are: a race or a death, a name, and a spent budget or a race.

Only model-checked: all liveness (`BacklogDrains`, `CrossingDelivered`, `StopsEnd`, `RunEnds`, and
`HeldBackSectionDelivered`, which is violated), for it needs fairness and ENABLED.

## 5. What is abstracted, and what is not modelled

Each module's header names what it abstracts. The main points:

* Texts, patterns and names are model values. Which calls a guard's pattern matches
  (`guard.rs` 505-690), what a session id may look like, and how a payload is parsed are
  functions on text without state.
* File writes other than the git hook scripts are atomic: a marker is created and removed, and no
  reader depends on half of its content. `fs::write` of a hold or a one-shot is two system calls
  in the code; a reader that meets the empty file takes it for absent or unreadable.
* A failing write is modelled where the code answers to it (`Ledger`), not where it ignores it
  (`StopHold`).
* In `GitHooks` other tools write only while no `gaff init --git` runs. The code looks at a file and
  renames over the kept one without a lock; with that window open the properties do not hold,
  and the hazard is listed. Nor does a run of git start on the empty file that an install leaves
  between its truncation and its write, or for good when it dies there: such a hook checks nothing.
* In `SettingsFile` an edit of the host's between gaff's read and its rename is left out: the code
  takes no lock, and such an edit is lost. In `HandlerRun` two `gaff trust` at once are left out: one
  of the two grants is lost. Both hazards are listed.
* In `ReviewGate` one run of the gate is followed, while reviewers, notes and HEAD go on until it has
  decided. The parsing of a note's text, a fetch of the notes, tags and the fanout of the notes
  tree are abstracted.
* Not modelled: the adapters and envelopes (a table without state), the reports (`status`, `check`
  but for `--github`, `doctor`, `log`, `docs`), which write nothing, and packaging. A model of any of
  them would restate a formatting.

Where the code and a sentence about it part without a run of their own, for the property that holds
states the exception:

* *Ledger.* The comment at `state.rs:209-215` promises one count per call, and an exact one; a log that cannot be
  read is taken for an empty one (`state.rs:164`). `CountedOnce`, `CountsExact`.
* *Flush.* `configuration.md:71` counts the marker into the cap; a cap below its 16 bytes is accepted
  (`cli.rs:684` refuses 0 only), and the bare marker exceeds it. `CapRespected`. The comment at
  `engine.rs:435` says that what does not fit gets through later; an entry before it that is armed
  anew for every flush may take the cap each time. `BacklogDrains`.
* *Holds.* `configuration.md:310` promises that `--times N` refuses N stops; `refuse_hold`
  (`state.rs:479-498`) writes an old record back over a set made since, and with it the old N.
  `BudgetRespected`. The removal of a spent hold (`cli.rs:387`) may likewise take a set made since.
* *Guards.* `guard.rs:699` says that no config removes the built-in guard and `cli.rs:1996` that
  `gaff allow gaff-privileged` refuses; with a guard of that name in the config it works, and lifts
  one refusal. `PrivilegedRefused`. Names that differ in what `sanitize` replaces
  (`state.rs:123-139`) share one allowance; `AllowedOnce` counts by the file.
* *Git hooks.* A failed `cat` (`githook.rs:159`) or `read_to_end` (`githook.rs:469`) cuts git's stream
  and nobody is told. `RefsReachAll`.
* *Review agents.* `hookagent.rs:6-7` and `81-83` say that everything but a pass exits `BLOCK`;
  `strip_marker` (`hookagent.rs:79`) splits a line at a byte that may lie inside a character, panics,
  and gaff exits 101. The gate stays closed, but a `pass` in time is not heard. `InTimeHeard`.
* *Trust.* A recorded directory is trimmed when read (`handler.rs:329-332`) and only refused for line
  breaks when written (`handler.rs:373-384`), so `/a/b ` grants `/a/b`. `RunInv`, `AdmitsOnPass`.
* *Handlers.* `handler.rs:676` says never to wait without a bound; the read of a failed child's stderr
  is unbounded when a grandchild holds it. `RunEnds` and `BudgetKept`.
* *Review gate.* The comment at `cli.rs:2475-2478` says that a partial read leaves a line with
  fewer than four fields; a cut at a line's end or inside its fourth field (`reviewnote.rs:54-60`)
  does not, and the refs behind it go unchecked. `PassedWasRead`. `gaff reviews check` takes its
  policy from the checkout, not from the commit that is pushed.
* *Config layers.* `configuration.md:28-36` and the comment at `config.rs:297-304` say that a user's
  entry cannot be taken away. The bundle of a repo's profile that declares one of the same kind and
  name replaces it while the profile is in force; one of the other kind leaves it and shares its
  pending marker, so that one of the two is not delivered; and so may a base entry of the repo's share
  the marker of an entry of a user's bundle. `EntriesStand` states all three, and nothing else is
  taken. The comment at `config.rs:745` says the repo's entry wins a clash of names; the code keeps
  the user's. A legacy profile degrades a config on its own, but not one beside a user's config. A
  user's config that is empty, or behind a dangling link, is taken for absent, and its guards with it.
* *Settings.* `init.rs:7` says that a crash never leaves a truncated file; one with a second name is
  written in place (`init.rs:248`), and a death there leaves it empty or broken, without its hooks.
  `SettingsKept`. A `gaff hook` registered under a matcher counts as registered, although the host
  calls it only for what matches.
* *Workflows.* Two of one name that the layering lets stand are written without complaint and reported as
  drifted for ever, and `gaff init --github` overwrites a file of the declared name that a person
  wrote. `Twins` states the first.

## 6. Plan

In order of what the system has most at stake. The first twelve are done.

1. `Ledger` with its abstract specification; 2. `FlushMerge`; 3. `Session`, which composes the two;
4. `StopHold`; 5. `Guards`; 6. `GitHooks`; 7. `HandlerRun`; 8. `ReviewGate`, composed with 9. `ConfigLayers`
and `Workflows`; 10. `SettingsFile`; each with its proofs; 11. `Deliveries`, which `Session` implements;
12. `RefsReachAll`, `SettingsKept` and `WorkflowsSettle` as theorems.

13. An abstract specification of what a stop and of what the review gate promise, and the proof that
    `StopHold` and `ReviewGate` implement it.
14. The text-level functions a guard rests on (`guard.rs` 505-690: heredocs, the words of a
    command), over small alphabets against a reference definition.
