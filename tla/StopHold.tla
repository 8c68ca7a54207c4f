------------------------------ MODULE StopHold ------------------------------
(***************************************************************************)
(* Whether a stop goes through: cli.rs `materialize_profile_hold` and      *)
(* `refuse_stop` over the files of state.rs, file operation by file        *)
(* operation, with `gaff remind --at stop` and `--clear` processes (of the *)
(* agent, of a subagent, of a person at a terminal) running in between.    *)
(* The host stops a session once at a time, so there is one stop hook.     *)
(*                                                                         *)
(* Abstracted: a hold's text; the `refused` field where it decides nothing *)
(* (no budget, or past it); failing writes.  The blocking handlers fail or *)
(* not, as they like.                                                      *)
(***************************************************************************)
EXTENDS Integers, FiniteSets

CONSTANTS Ids,              \* the hold ids, numbered in the order of their names
          ProfileHold,      \* the id `profile-<name>` of a bundle's stop rule
          Times,            \* the N of the `--times N` in use
          NoTimes,          \* the `times` of a hold without a budget
          ProfileTimes,     \* the `times` of the bundle's stop rule
          MaxStopRefusals,  \* 12 in the code
          Commands,         \* the `gaff remind` processes that may run at once
          Absent,           \* no hold file
          KilledStreak      \* bound: the streak from which no hook is killed

ASSUME StopHoldAssumption ==
  /\ Ids \subseteq Nat /\ IsFiniteSet(Ids)
  /\ ProfileHold \in Ids
  /\ Times \subseteq Nat \ {0}
  /\ NoTimes \notin Nat
  /\ ProfileTimes \in Nat \union {NoTimes}
  /\ MaxStopRefusals \in Nat \ {0}
  /\ Absent \notin [times : Nat \union {NoTimes}, refused : Nat]
  /\ KilledStreak \in Nat

VARIABLES holds,     \* holds/<id>: its `times` and `refused` fields, or Absent
          dir,       \* whether the directory holds/ exists
          released,  \* whether released/profile-<name> exists
          streak,    \* the stop-refusals file, 0 for no file
          pc,        \* where the stop hook stands
          held,      \* the hold the hook found, -1 for none
          seen,      \* the record refuse_hold read, Absent before
          cmd,       \* where each `remind --clear` stands
          inRow,     \* history: stops refused in a row, up to one past the cap
          asked,     \* history: per id, the `times` of the last set
          pushed,    \* history: refusals within a budget since the hold was set
          undone,    \* history: the ids whose last set refuse_hold overwrote
          gone       \* history: the bundle's hold was released between two stops

files == <<holds, dir, released>>
history == <<inRow, asked, pushed, undone, gone>>
vars == <<files, streak, pc, held, seen, cmd, history>>

None == -1
Phases == {"idle", "has_hold", "is_released", "materialize", "handlers", "holds",
           "refuse_read", "refuse_write", "clear_spent", "mark", "mark_all",
           "remove_all", "refuse", "let_through"}
Armed == {i \in Ids : holds[i] # Absent}

\* The session has set any holds before.
Init ==
  /\ holds \in [Ids -> [times : Times \union {NoTimes}, refused : {0}] \union {Absent}]
  /\ dir = (Armed # {})
  /\ released = FALSE /\ streak = 0
  /\ pc = "idle" /\ held = None /\ seen = Absent
  /\ cmd = [c \in Commands |-> "idle"]
  /\ inRow = 0 /\ gone = FALSE
  /\ asked = [i \in Ids |-> IF i \in Armed THEN holds[i].times ELSE NoTimes]
  /\ pushed = [i \in Ids |-> 0] /\ undone = {}

-----------------------------------------------------------------------------
(* File operations of state.rs.                                            *)

WriteHold(i, times) ==
  /\ holds' = [holds EXCEPT ![i] = [times |-> times, refused |-> 0]]
  /\ dir' = TRUE
  /\ asked' = [asked EXCEPT ![i] = times]
  /\ pushed' = [pushed EXCEPT ![i] = 0]
  /\ undone' = undone \ {i}

RemoveHold(i) ==
  /\ holds' = [holds EXCEPT ![i] = Absent]
  /\ pushed' = [pushed EXCEPT ![i] = 0]
  /\ UNCHANGED <<asked, undone>>

\* A release counts as done for good when no stop hook is half-way, other than
\* the one whose hold is spent.
MarkReleased ==
  /\ released' = TRUE
  /\ gone' = (gone \/ (pc \in {"idle", "mark"} /\ holds[ProfileHold] = Absent))

RemoveAll ==
  /\ holds' = [i \in Ids |-> Absent]
  /\ dir' = FALSE
  /\ pushed' = [i \in Ids |-> 0]
  /\ gone' = (gone \/ (pc \in {"idle", "remove_all"} /\ released))
  /\ UNCHANGED <<asked, undone>>

\* Mutant: the count is returned and never written back.
CountedUnwritten == UNCHANGED streak

\* record_stop_refusal; only the stop hook touches this file.
Counted == streak' = streak + 1

-----------------------------------------------------------------------------
(* The stop hook.                                                          *)

\* The profile is resolved at every stop, and has a stop rule or not.
StopArrives(rule) ==
  /\ pc = "idle"
  /\ pc' = IF rule THEN "has_hold" ELSE "handlers"
  /\ UNCHANGED <<files, streak, held, seen, cmd, history>>

HasHold ==
  /\ pc = "has_hold"
  /\ pc' = IF ProfileHold \in Armed THEN "handlers" ELSE "is_released"
  /\ UNCHANGED <<files, streak, held, seen, cmd, history>>

\* Mutant: the release is not looked up.
IsReleasedIgnored ==
  /\ pc = "is_released"
  /\ pc' = "materialize"
  /\ UNCHANGED <<files, streak, held, seen, cmd, history>>

IsReleased ==
  /\ pc = "is_released"
  /\ pc' = IF released THEN "handlers" ELSE "materialize"
  /\ UNCHANGED <<files, streak, held, seen, cmd, history>>

Materialize ==
  /\ pc = "materialize"
  /\ pc' = "handlers"
  /\ WriteHold(ProfileHold, ProfileTimes)
  /\ UNCHANGED <<released, streak, held, seen, cmd, inRow, gone>>

HandlersPass ==
  /\ pc = "handlers"
  /\ pc' = "holds"
  /\ UNCHANGED <<files, streak, held, seen, cmd, history>>

\* A blocking handler failed: it refuses, up to the cap, and past the cap the
\* holds have their turn.
HandlerFails ==
  /\ pc = "handlers"
  /\ Counted
  /\ pc' = IF streak + 1 <= MaxStopRefusals THEN "refuse" ELSE "holds"
  /\ UNCHANGED <<files, held, seen, cmd, history>>

\* The first hold by id, and one more refusal counted.
FindHold ==
  /\ pc = "holds"
  /\ \E i \in Armed :
       /\ \A j \in Armed : i <= j
       /\ held' = i
       /\ Counted
       /\ pc' = IF streak + 1 <= MaxStopRefusals THEN "refuse_read" ELSE "mark_all"
  /\ UNCHANGED <<files, seen, cmd, history>>

NoHold ==
  /\ pc = "holds" /\ Armed = {}
  /\ pc' = "let_through"
  /\ UNCHANGED <<files, streak, held, seen, cmd, history>>

\* refuse_hold reads the file again; a hold cleared since still refuses this stop.
RefuseRead ==
  /\ pc = "refuse_read"
  /\ IF held \in Armed THEN seen' = holds[held] /\ pc' = "refuse_write"
                       ELSE seen' = seen /\ pc' = "refuse"
  /\ UNCHANGED <<files, streak, held, cmd, history>>

\* Mutant: the field is compared before this refusal is added.
SpentLate(hold, refused) == hold.times # NoTimes /\ refused - 1 > hold.times

\* "Spent once the budget is exceeded, not met."
Spent(hold, refused) == hold.times # NoTimes /\ refused > hold.times

\* The record with one more refusal.  The field decides nothing without a budget,
\* nor further than one past it, so it stays there.
OneMore(hold) ==
  IF hold.times # NoTimes /\ hold.refused <= hold.times
  THEN [hold EXCEPT !.refused = @ + 1] ELSE hold

\* The record that was read is written back with its new count, whether or not
\* the file is still there or still says the same, unless the directory went
\* with `--clear`; the budget is judged by what was read.
RefuseWrite ==
  /\ pc = "refuse_write"
  /\ IF dir THEN /\ holds' = [holds EXCEPT ![held] = OneMore(seen)]
                 /\ undone' = IF seen.times # asked[held] THEN undone \union {held} ELSE undone
            ELSE UNCHANGED <<holds, undone>>
  /\ IF Spent(seen, seen.refused + 1)
     THEN pc' = "clear_spent" /\ pushed' = pushed
     ELSE /\ pc' = "refuse"
          /\ pushed' = IF dir /\ seen.times # NoTimes
                       THEN [pushed EXCEPT ![held] = @ + 1] ELSE pushed
  /\ UNCHANGED <<dir, released, streak, held, seen, cmd, inRow, asked, gone>>

ClearSpent ==
  /\ pc = "clear_spent"
  /\ RemoveHold(held)
  /\ pc' = IF held = ProfileHold THEN "mark" ELSE "let_through"
  /\ UNCHANGED <<dir, released, streak, held, seen, cmd, inRow, gone>>

MarkSpent ==
  /\ pc = "mark"
  /\ MarkReleased
  /\ pc' = "let_through"
  /\ UNCHANGED <<holds, dir, streak, held, seen, cmd, inRow, asked, pushed, undone>>

\* Past the cap every hold is released: the bundle's is marked first.
MarkAll ==
  /\ pc = "mark_all"
  /\ released' = (released \/ ProfileHold \in Armed)
  /\ pc' = "remove_all"
  /\ UNCHANGED <<holds, dir, streak, held, seen, cmd, history>>

ClearAll ==
  /\ pc = "remove_all"
  /\ RemoveAll
  /\ pc' = "let_through"
  /\ UNCHANGED <<released, streak, held, seen, cmd, inRow>>

\* Exit code 2.
Refuse ==
  /\ pc = "refuse"
  /\ pc' = "idle" /\ held' = None /\ seen' = Absent
  /\ inRow' = IF inRow > MaxStopRefusals THEN inRow ELSE inRow + 1
  /\ UNCHANGED <<files, streak, cmd, asked, pushed, undone, gone>>

\* The streak ends, and the stop goes through.
LetThrough ==
  /\ pc = "let_through"
  /\ pc' = "idle" /\ held' = None /\ seen' = Absent
  /\ streak' = 0 /\ inRow' = 0
  /\ UNCHANGED <<files, cmd, asked, pushed, undone, gone>>

\* The host kills the hook, at its own timeout say, and the stop goes through.
Kill ==
  /\ pc # "idle" /\ streak < KilledStreak
  /\ pc' = "idle" /\ held' = None /\ seen' = Absent
  /\ inRow' = 0
  /\ UNCHANGED <<files, streak, cmd, asked, pushed, undone, gone>>

-----------------------------------------------------------------------------
(* gaff remind --at stop, gaff remind --clear [--id <id>].                 *)

\* The id is any, the shared default `hold` too, and each set has its own `times`.
SetHold(c, i, times) ==
  /\ cmd[c] = "idle"
  /\ WriteHold(i, times)
  /\ gone' = (gone /\ i # ProfileHold)
  /\ UNCHANGED <<released, streak, pc, held, seen, cmd, inRow>>

ClearHold(c, i) ==
  /\ cmd[c] = "idle"
  /\ RemoveHold(i)
  /\ cmd' = [cmd EXCEPT ![c] = IF i = ProfileHold THEN "mark" ELSE "idle"]
  /\ UNCHANGED <<dir, released, streak, pc, held, seen, inRow, gone>>

CommandMarks(c) ==
  /\ cmd[c] = "mark"
  /\ MarkReleased
  /\ cmd' = [cmd EXCEPT ![c] = "idle"]
  /\ UNCHANGED <<holds, dir, streak, pc, held, seen, inRow, asked, pushed, undone>>

CommandMarksAll(c) ==
  /\ cmd[c] = "idle"
  /\ released' = (released \/ ProfileHold \in Armed)
  /\ cmd' = [cmd EXCEPT ![c] = "remove_all"]
  /\ UNCHANGED <<holds, dir, streak, pc, held, seen, history>>

CommandClearsAll(c) ==
  /\ cmd[c] = "remove_all"
  /\ RemoveAll
  /\ cmd' = [cmd EXCEPT ![c] = "idle"]
  /\ UNCHANGED <<released, streak, pc, held, seen, inRow>>

-----------------------------------------------------------------------------
Proceed ==
  \/ HasHold \/ IsReleased \/ Materialize
  \/ HandlersPass \/ HandlerFails
  \/ FindHold \/ NoHold \/ RefuseRead \/ RefuseWrite
  \/ ClearSpent \/ MarkSpent \/ MarkAll \/ ClearAll
  \/ Refuse \/ LetThrough

Command(c) ==
  \/ \E i \in Ids, times \in Times \union {NoTimes} : SetHold(c, i, times)
  \/ \E i \in Ids : ClearHold(c, i)
  \/ CommandMarks(c) \/ CommandMarksAll(c) \/ CommandClearsAll(c)

Stop == \E rule \in BOOLEAN : StopArrives(rule)

Next == Stop \/ Proceed \/ Kill \/ \E c \in Commands : Command(c)

Spec == Init /\ [][Next]_vars

\* A hook that runs goes on (its handlers have a timeout), and an agent whose
\* stop was refused takes another turn, which ends in a stop.
FairSpec == Spec /\ WF_vars(Stop) /\ WF_vars(Proceed)

-----------------------------------------------------------------------------
Holds == [times : Nat \union {NoTimes}, refused : Nat]

TypeOK ==
  /\ holds \in [Ids -> Holds \union {Absent}]
  /\ dir \in BOOLEAN /\ released \in BOOLEAN /\ gone \in BOOLEAN
  /\ streak \in Nat /\ inRow \in Nat
  /\ seen \in Holds \union {Absent}
  /\ pc \in Phases
  /\ held \in Ids \union {None}
  /\ pc \in {"refuse_read", "refuse_write", "clear_spent"} => held \in Ids
  /\ pc = "refuse_write" => seen \in Holds
  /\ cmd \in [Commands -> {"idle", "mark", "remove_all"}]
  /\ asked \in [Ids -> Nat \union {NoTimes}]
  /\ pushed \in [Ids -> Nat]
  /\ undone \subseteq Ids

\* The file counts at least the refusals in a row, one more once this stop was
\* counted; a stop about to be refused was counted and is within the cap.
StreakCovers ==
  /\ pc \in {"refuse_read", "refuse_write", "clear_spent", "mark", "refuse"} =>
       inRow < streak /\ streak <= MaxStopRefusals
  /\ inRow <= streak /\ inRow <= MaxStopRefusals

\* A hold has refused at most what its file, or the hook that read it, counts,
\* and the file has the `times` last asked for unless a set was overwritten.
PushesCounted ==
  /\ ~dir => Armed = {}
  /\ \A i \in Ids :
       /\ i \notin Armed => pushed[i] = 0
       /\ i \in Armed =>
            /\ i \notin undone => holds[i].times = asked[i]
            /\ holds[i].times # NoTimes =>
                 pushed[i] <= holds[i].times /\ pushed[i] <= holds[i].refused
       /\ held = i /\ pc = "refuse_write" /\ seen.times # NoTimes =>
            pushed[i] <= seen.times /\ pushed[i] <= seen.refused

\* The inductive invariant.
HoldInv == TypeOK /\ StreakCovers /\ PushesCounted

\* "Neither can wedge a session": handlers, holds and a hold set again at every
\* turn, in any mixture, refuse at most twelve stops in a row.
RefusalsBounded == inRow <= MaxStopRefusals

\* "--times N: it refuses N stops and lets the next one through": since it was
\* set, a hold refuses at most the N of that set, under clears and sets of the
\* same id, with other budgets, that run in the middle of a stop.  Where
\* refuse_hold wrote an older record over a set, the hold keeps to the N of the
\* record that it wrote, and the one asked for is lost.
BudgetRespected ==
  \A i \in Armed :
    LET times == IF i \in undone THEN holds[i].times ELSE asked[i]
    IN  times # NoTimes => pushed[i] <= times

\* "A config-declared hold ... stays gone": a bundle's hold that is released
\* while no stop is half-way is not materialized by any later stop.
ReleaseSticks == gone => released /\ ProfileHold \notin Armed

\* A session that keeps stopping gets through in the end.
StopsEnd == inRow > 0 ~> inRow = 0

\* "A session may hold several times under different ids.  The first one still
\* held refuses the stop": so no stop goes through while a hold is armed.
HeldStopRefused == [][LetThrough => Armed = {}]_vars
=============================================================================
