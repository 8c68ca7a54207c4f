----------------------------- MODULE MCSession ------------------------------
(***************************************************************************)
(* Session with a section, a reminder and a handler on different cadences. *)
(***************************************************************************)
EXTENDS Session

CONSTANTS base, focus

MCProfiles == {base, focus}

MCCadences ==
  { [name |-> "rem", kind |-> "reminder", unit |-> "tool_calls", every |-> 1,
     profiles |-> MCProfiles],
    [name |-> "sec", kind |-> "section", unit |-> "prompts", every |-> 1,
     profiles |-> {focus}],
    [name |-> "hdl", kind |-> "handler", unit |-> "prompts", every |-> 1,
     profiles |-> MCProfiles] }

\* What happens in a behaviour, beside the flushes of tool batches and stops.
None == [c \in Causes |-> 0]
MCScenarios ==
  { [None EXCEPT !["tool_call"] = 2, !["kill"] = 1, !["heldback"] = 1],
    [None EXCEPT !["tool_call"] = 1, !["prompt"] = 1, !["session_start"] = 1],
    [None EXCEPT !["prompt"] = 1, !["switch"] = 1],
    [None EXCEPT !["tool_call"] = 2, !["remind"] = 2, !["compact"] = 1] }

\* One profile switch and nothing else, beside the flushes.
MCSwitchOnly == {[None EXCEPT !["switch"] = 1]}
=============================================================================
