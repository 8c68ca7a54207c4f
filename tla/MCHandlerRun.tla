---------------------------- MODULE MCHandlerRun ----------------------------
(***************************************************************************)
(* HandlerRun with two handlers of a flush, two that block a stop, the     *)
(* second of the longest timeout, and one that no event makes usable.      *)
(***************************************************************************)
EXTENDS HandlerRun

CONSTANTS here, broken, padded

\* A name with a line break in it makes two lines, and one of them is another directory's.
MCLines == [d \in Dirs |-> IF d = broken THEN {here, broken} ELSE {d}]

\* A name that ends in white space is, trimmed, another directory's.
MCTrim == [d \in Dirs |-> IF d = padded THEN here ELSE d]

MCHandler == <<
  [events |-> {"session_start", "prompt"}, blocks |-> FALSE, every |-> "some", timeout |-> 1,
   absolute |-> TRUE, when |-> TRUE],
  [events |-> {"stop"}, blocks |-> TRUE, every |-> "none", timeout |-> 1,
   absolute |-> TRUE, when |-> TRUE],
  [events |-> {"stop"}, blocks |-> FALSE, every |-> "some", timeout |-> 2,
   absolute |-> TRUE, when |-> TRUE],
  [events |-> {"stop"}, blocks |-> TRUE, every |-> "none", timeout |-> 3,
   absolute |-> TRUE, when |-> TRUE],
  [events |-> {"stop", "tool_call"}, blocks |-> TRUE, every |-> "none", timeout |-> 1,
   absolute |-> TRUE, when |-> TRUE] >>

MCBudget == [e \in FlushEvents |-> IF e = Start THEN 3 ELSE 2]
=============================================================================
