----------------------------- MODULE LedgerLines -----------------------------
(***************************************************************************)
(* The lines of a session's ledger.jsonl and what is read off them: the    *)
(* `Value`s that state.rs writes and `ledger_lines` parses.                *)
(***************************************************************************)
EXTENDS Naturals, Sequences, FiniteSets

CONSTANTS Calls,   \* the tool_use_ids of the session
          NoCall   \* the id of a line that counts a prompt, which carries none

ASSUME NoCallAssumption == NoCall \notin Calls

Units == {"tool_calls", "prompts"}

ToolLine(c) == [unit |-> "tool_calls", id |-> c]
PromptLine  == [unit |-> "prompts", id |-> NoCall]
Lines       == {ToolLine(c) : c \in Calls} \union {PromptLine}

\* The number of lines of a unit in a log.
Count(log, u) == Cardinality({i \in DOMAIN log : log[i].unit = u})

\* Whether a log already holds the tool call c.
Holds(log, c) == \E i \in DOMAIN log : log[i] = ToolLine(c)
=============================================================================
