----------------------------- MODULE CallCounter -----------------------------
(***************************************************************************)
(* What the session ledger promises its callers: counting an event is one  *)
(* atomic step.  A tool call counts once, whatever the number of hook      *)
(* events that carry its id, and the count handed back to the caller is    *)
(* the exact number of events of that unit so far.  The one exception is   *)
(* an event counted with the log unreadable: it is taken for the first of  *)
(* its unit, whatever was counted before.                                  *)
(*                                                                         *)
(* The ledger itself (several processes, a lock file and an append log) is *)
(* module Ledger, which implements this specification.                     *)
(***************************************************************************)
EXTENDS LedgerLines

VARIABLES counted,    \* the lines counted so far, in order
          granted,    \* per unit, the counts handed to the cadence check
          recounted   \* per unit, the events counted with the log unreadable

vars == <<counted, granted, recounted>>

Init ==
  /\ counted = <<>>
  /\ granted = [u \in Units |-> {}]
  /\ recounted = [u \in Units |-> 0]

\* One line more, and the number n to the caller.
Record(line, n) ==
  /\ counted' = Append(counted, line)
  /\ granted' = [granted EXCEPT ![line.unit] = @ \union {n}]

Exactly(line) ==
  /\ Record(line, Count(counted, line.unit) + 1)
  /\ UNCHANGED recounted

CountCall(c) == ~Holds(counted, c) /\ Exactly(ToolLine(c))
CountPrompt  == Exactly(PromptLine)

Recount(line) ==
  /\ counted # <<>>
  /\ Record(line, 1)
  /\ recounted' = [recounted EXCEPT ![line.unit] = @ + 1]

Next ==
  \/ \E c \in Calls : CountCall(c)
  \/ CountPrompt
  \/ \E line \in Lines : Recount(line)

Spec == Init /\ [][Next]_vars
=============================================================================
