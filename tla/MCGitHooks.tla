----------------------------- MODULE MCGitHooks -----------------------------
(* One hook that git feeds and one it does not, two foreign tools, and the configs a *)
(* repo may go through: the three below, one whose repo layer cannot be read, and   *)
(* one that is missing.                                                             *)
EXTENDS GitHooks, TLC

ForeignSymmetry == Permutations(Foreign)

check(hooks, must) == [on |-> hooks, required |-> must, sound |-> TRUE]

\* Two checks of the push, the first a hint; and a check of the commit.
Full == [state |-> "ok", git |-> <<check({"pre_push"}, FALSE), check({"pre_push", "pre_commit"}, TRUE)>>]
\* The checks of the commit are gone.
PushOnly == [state |-> "ok", git |-> <<check({"pre_push"}, TRUE)>>]
\* The check of the push has no command any more.
NoCommand == [state |-> "ok", git |-> <<check({"pre_commit"}, TRUE),
                                        [on |-> {"pre_push"}, required |-> TRUE, sound |-> FALSE]>>]

MCConfigs == {Full, PushOnly, NoCommand, [state |-> "absent", git |-> <<>>],
              [state |-> "degraded", git |-> PushOnly.git]}

-----------------------------------------------------------------------------
(* Settings files: two events of gaff's and one that is another tool's, a group that *)
(* mixes hooks, one under a matcher, and the shapes gaff does not know.              *)

MCArgv == [c \in Commands |-> IF c = "/bin/gaff hook" THEN "gaff hook" ELSE c]

On(matcher, hooks) == [matcher |-> matcher, hooks |-> hooks]
Entries == {On(Anything, {"gaff hook"}), On("Bash", {"/bin/gaff hook", "other"}),
            On(Anything, {"other"}), On(Anything, {}), On("Bash", NotArray)}
Values == {NotArray} \cup {es \in SUBSET Entries : Cardinality(es) <= 3}
Text(hooks, linked) == [kind |-> "text", linked |-> linked, hooks |-> hooks]
MCFiles ==
  {[kind |-> k, linked |-> k # "absent", hooks |-> NoHooks] :
     k \in {"absent", "empty", "odd", "unreadable", "broken"}}
  \cup {Text(NotObject, FALSE), Text(NoHooks, FALSE)}
  \cup {Text([e \in {"Stop"} |-> v], linked) : v \in Values, linked \in BOOLEAN}
  \cup {Text([e \in {"Stop", "Other"} |-> IF e = "Stop" THEN v ELSE w], FALSE) :
          v \in Values, w \in {NotArray, {}, Entries}}
=============================================================================
