------------------------------- MODULE Ledger -------------------------------
(***************************************************************************)
(* The session ledger of state.rs: `record_tool_call` and `record_prompt`, *)
(* run by several `gaff hook` processes at once on one session directory.  *)
(* A record opens the sidecar `ledger.lock`, takes an exclusive flock,     *)
(* reads the whole log, decides, appends one line with a single O_APPEND   *)
(* write and unlocks.  A process may be killed, or hit an IO error, before *)
(* any of these steps; the kernel then drops its flock.  A read of the log *)
(* that fails is no such error: `ledger_lines` takes the log as empty, and *)
(* the record goes on, counting from 1 and knowing no earlier call.        *)
(*                                                                         *)
(* Abstracted: the bytes of a line (a line is a record of unit and id) and *)
(* the unparseable lines `ledger_lines` skips, which no writer here makes. *)
(***************************************************************************)
EXTENDS LedgerLines

CONSTANTS Hooks,       \* the hook processes that may run at once
          NoHook,      \* the holder of a free lock
          MaxPrompts,  \* bound: prompts the user submits
          MaxMisreads  \* bound: lines of a unit appended after a failed read

ASSUME LedgerAssumption ==
  /\ NoHook \notin Hooks
  /\ MaxPrompts \in Nat
  /\ MaxMisreads \in Nat

VARIABLES ledger,    \* ledger.jsonl, a sequence of lines
          lock,      \* the process that holds the flock on ledger.lock
          pc,        \* where each hook process stands in its record call
          line,      \* the line each process means to append
          seen,      \* the lines each process read under the lock
          granted,   \* history: per unit, the counts returned to arm_crossings
          recounted  \* history: per unit, the lines appended after a failed read

vars == <<ledger, lock, pc, line, seen, granted, recounted>>

Counter == INSTANCE CallCounter WITH counted <- ledger

\* "recount" is the append of a process whose read of the log failed.
Steps == {"idle", "lock", "read", "append", "recount", "unlock"}

\* Bound: lines of the log that count prompts, and prompts on their way.
Prompts == Count(ledger, "prompts")
             + Cardinality({h \in Hooks : pc[h] \in Steps \ {"idle", "unlock"}
                                            /\ line[h].unit = "prompts"})

Goto(h, from, to) == pc[h] = from /\ pc' = [pc EXCEPT ![h] = to]

Init ==
  /\ ledger = <<>>
  /\ lock = NoHook
  /\ pc = [h \in Hooks |-> "idle"]
  /\ line = [h \in Hooks |-> PromptLine]
  /\ seen = [h \in Hooks |-> <<>>]
  /\ granted = [u \in Units |-> {}]
  /\ recounted = [u \in Units |-> 0]

\* The host fires a hook for a finished call, as often as it likes per call
\* (PostToolUse and PostToolUseFailure carry the same id).
StartCall(h, c) ==
  /\ Goto(h, "idle", "lock")
  /\ line' = [line EXCEPT ![h] = ToolLine(c)]
  /\ UNCHANGED <<ledger, lock, seen, granted, recounted>>

StartPrompt(h) ==
  /\ Prompts < MaxPrompts
  /\ Goto(h, "idle", "lock")
  /\ line' = [line EXCEPT ![h] = PromptLine]
  /\ UNCHANGED <<ledger, lock, seen, granted, recounted>>

\* Mutant: the lock file is opened and never locked.
AcquireUnlocked(h) ==
  /\ Goto(h, "lock", "read")
  /\ lock' = h
  /\ UNCHANGED <<ledger, line, seen, granted, recounted>>

\* lock_exclusive: blocks until no other process holds the flock.
Acquire(h) ==
  /\ lock = NoHook
  /\ Goto(h, "lock", "read")
  /\ lock' = h
  /\ UNCHANGED <<ledger, line, seen, granted, recounted>>

\* Mutant: the id is not looked up, so the failure event counts again.
ReadNoDedup(h) ==
  /\ Goto(h, "read", "append")
  /\ seen' = [seen EXCEPT ![h] = ledger]
  /\ UNCHANGED <<ledger, lock, line, granted, recounted>>

\* ledger_lines, and the early return on a call already counted.
Read(h) ==
  LET known == line[h].unit = "tool_calls" /\ Holds(ledger, line[h].id)
  IN  /\ Goto(h, "read", IF known THEN "unlock" ELSE "append")
      /\ seen' = [seen EXCEPT ![h] = ledger]
      /\ UNCHANGED <<ledger, lock, line, granted, recounted>>

\* The read fails (an IO error, or bytes that are no UTF-8): the process goes
\* on with no lines at all.  On a log that is empty this is Read.
ReadFails(h) ==
  /\ ledger # <<>>
  /\ recounted[line[h].unit] < MaxMisreads
  /\ Goto(h, "read", "recount")
  /\ seen' = [seen EXCEPT ![h] = <<>>]
  /\ UNCHANGED <<ledger, lock, line, granted, recounted>>

\* The line goes to the file and n to the caller, from "append" or "recount".
AppendCounting(h, n) ==
  LET u == line[h].unit
  IN  /\ pc[h] \in {"append", "recount"}
      /\ pc' = [pc EXCEPT ![h] = "unlock"]
      /\ ledger' = Append(ledger, line[h])
      /\ granted' = [granted EXCEPT ![u] = @ \union {n}]
      /\ recounted' = [recounted EXCEPT ![u] = IF pc[h] = "recount" THEN @ + 1 ELSE @]
      /\ UNCHANGED <<lock, line, seen>>

\* Mutant: the count is the length of the log, whatever the unit of its lines.
AppendCountsAll(h) == AppendCounting(h, Len(seen[h]) + 1)

\* The count comes from the lines read, the append goes to the file.
AppendLine(h) == AppendCounting(h, Count(seen[h], line[h].unit) + 1)

Unlock(h) ==
  /\ Goto(h, "unlock", "idle")
  /\ lock' = NoHook
  /\ seen' = [seen EXCEPT ![h] = <<>>]
  /\ UNCHANGED <<ledger, line, granted, recounted>>

\* The host kills the hook, or the lock file or the append fails and ends the
\* record call with `?`.  (A failed read does not end it: ReadFails.)
Abort(h) ==
  /\ pc[h] # "idle"
  /\ pc' = [pc EXCEPT ![h] = "idle"]
  /\ lock' = IF lock = h THEN NoHook ELSE lock
  /\ seen' = [seen EXCEPT ![h] = <<>>]
  /\ UNCHANGED <<ledger, line, granted, recounted>>

Proceed(h) == Acquire(h) \/ Read(h) \/ ReadFails(h) \/ AppendLine(h) \/ Unlock(h)

Next ==
  \E h \in Hooks :
    \/ \E c \in Calls : StartCall(h, c)
    \/ StartPrompt(h)
    \/ Proceed(h)
    \/ Abort(h)

Spec == Init /\ [][Next]_vars

-----------------------------------------------------------------------------
TypeOK ==
  /\ ledger \in Seq(Lines)
  /\ lock \in Hooks \union {NoHook}
  /\ pc \in [Hooks -> Steps]
  /\ line \in [Hooks -> Lines]
  /\ seen \in [Hooks -> Seq(Lines)]
  /\ granted \in [Units -> SUBSET Nat]
  /\ recounted \in [Units -> Nat]

\* Between the read and the unlock a process holds the lock, and what it read
\* is still the whole log, or nothing at all if its read failed: no other
\* process appended in between.
SnapshotFresh ==
  \A h \in Hooks :
    /\ pc[h] \in {"read", "append", "recount", "unlock"} => lock = h
    /\ pc[h] = "recount" => seen[h] = <<>> /\ ledger # <<>>
    /\ pc[h] = "append" =>
         /\ seen[h] = ledger
         /\ line[h].unit = "tool_calls" => ~Holds(ledger, line[h].id)

\* The inductive invariant: types, and snapshots that nobody overtakes.
LedgerInv == TypeOK /\ SnapshotFresh

\* "One tool call counts once": whatever hooks race or die, no id has two
\* lines in the ledger (the dedup of record_tool_call), unless a call was
\* recorded by a process that could not read the log.
CountedOnce ==
  recounted["tool_calls"] = 0 =>
    \A i, j \in DOMAIN ledger :
      ledger[i].unit = "tool_calls" /\ ledger[i] = ledger[j] => i = j

\* "The count is exact under concurrent hooks": the counts handed to
\* arm_crossings are 1, 2, ... up to the lines in the log, with no gap and no
\* repetition, but for one number lost to each process that could not read the
\* log.  With no such process no cadence crossing is missed or met twice.
CountsExact ==
  \A u \in Units :
    LET all == 1..Count(ledger, u)
    IN  /\ granted[u] \subseteq all
        /\ Cardinality(all \ granted[u]) <= recounted[u]

\* The lock, read, append and unlock of the code behave as one atomic step
\* of the abstract counter.
Linearizable == Counter!Spec
=============================================================================
