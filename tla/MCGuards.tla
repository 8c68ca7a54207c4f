------------------------------ MODULE MCGuards ------------------------------
(***************************************************************************)
(* Guards with two overlapping guards of the user's config and a third     *)
(* that has the built-in's name, a bundle of the user's that has a guard   *)
(* of its own and one whose allowance is the file of a guard of the        *)
(* config, a repo bundle, and calls that fall under several of them.       *)
(***************************************************************************)
EXTENDS Guards

CONSTANTS stage, push, allowing, law, soft

MCUserGuards == <<[name |-> "no-mass-stage", calls |-> {stage, allowing}],
                  [name |-> "no_push", calls |-> {push, stage}],
                  [name |-> "gaff-privileged", calls |-> {push}]>>
MCFile == [n \in Names |-> IF n = "no push" THEN "no_push" ELSE n]
MCBundle == [p \in {law, soft} |->
               IF p = law THEN <<[name |-> "reviewed", calls |-> {push}],
                                 [name |-> "no push", calls |-> {stage}]>>
                          ELSE <<>>]
MCPolicies == {{}, {{soft}}}
MCSituations == {[Calm EXCEPT !.env = law], [Calm EXCEPT !.env = Undeclared],
                 [Calm EXCEPT !.config = FALSE], [Calm EXCEPT !.sid = FALSE],
                 [Calm EXCEPT !.store = FALSE], Calm}
=============================================================================
