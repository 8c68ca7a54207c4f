------------------------------ MODULE Workflows ------------------------------
(***************************************************************************)
(* The GitHub workflows a config declares (ghworkflow.rs): which ones are  *)
(* usable, what one renders to, `gaff init --github`, which writes the     *)
(* files one after the other and may die in between, and what `gaff check  *)
(* --github` and `gaff ci` say of the files.  Pure operators; a tree is a  *)
(* function from file names to contents.                                   *)
(*                                                                         *)
(* Abstracted: `valid` stands for the checks on a workflow's name, events, *)
(* branches and runner, `clean` for those on the characters of a step or   *)
(* an entry, `hook` for GitHook::problems; a render is its steps and the   *)
(* workflow's name, without the YAML and the quoting.                      *)
(***************************************************************************)
EXTENDS Naturals, Sequences

CONSTANT Nothing   \* no name, no action, an empty command

-----------------------------------------------------------------------------
(* Declarations.  `git` is the list of the config's git entries.           *)

Entries(git, name) == {i \in DOMAIN git : git[i].name = name}
OwnEntries(wf, git, name) == {i \in Entries(git, name) : git[i].user = wf.user}

First(set) == CHOOSE i \in set : \A j \in set : i <= j

\* The entry a step reuses: of the workflow's own layer, or else the first of that name.
Reused(wf, git, name) ==
  git[First(IF OwnEntries(wf, git, name) # {} THEN OwnEntries(wf, git, name)
            ELSE Entries(git, name))]

ReuseFault(wf, git, name) ==
  \/ Entries(git, name) = {}
  \/ LET entry == Reused(wf, git, name)
     IN entry.user # wf.user \/ entry.command = Nothing \/ ~entry.clean

\* Mutant: a workflow reuses an entry of either layer.
StepFaultAnyLayer(wf, git, step) ==
  \/ ~step.clean
  \/ step.uses # Nothing /\ (step.use_git # Nothing \/ step.command # Nothing)
  \/ /\ step.uses = Nothing
     /\ \/ step.with
        \/ (step.use_git = Nothing) = (step.command = Nothing)
        \/ step.use_git # Nothing /\
             (Entries(git, step.use_git) = {} \/ Reused(wf, git, step.use_git).command = Nothing)

\* A step runs an action, or a command of its own, or the command of a git entry.
StepFault(wf, git, step) ==
  \/ ~step.clean
  \/ step.uses # Nothing /\ (step.use_git # Nothing \/ step.command # Nothing)
  \/ /\ step.uses = Nothing
     /\ \/ step.with
        \/ (step.use_git = Nothing) = (step.command = Nothing)
        \/ step.use_git # Nothing /\ ReuseFault(wf, git, step.use_git)

Problems(wf, git) ==
  ~wf.valid \/ wf.steps = <<>> \/ \E i \in DOMAIN wf.steps : StepFault(wf, git, wf.steps[i])

\* report_github_problems: a broken git entry breaks every workflow.
Refused(wfs, git) ==
  (\E i \in DOMAIN git : ~git[i].hook) \/ \E i \in DOMAIN wfs : Problems(wfs[i], git)

-----------------------------------------------------------------------------
(* Files.                                                                  *)

Argv(wf, git, step) ==
  IF step.use_git = Nothing THEN step.command
  ELSE IF Entries(git, step.use_git) = {} THEN Nothing
  ELSE Reused(wf, git, step.use_git).command

RenderStep(wf, git, step) ==
  IF step.uses # Nothing THEN <<"uses", step.uses>> ELSE <<"run", Argv(wf, git, step)>>

\* A content is generated when it starts with gaff's first line.
Render(wf, git) ==
  [generated |-> TRUE, name |-> wf.name,
   steps |-> [i \in DOMAIN wf.steps |-> RenderStep(wf, git, wf.steps[i])]]

Foreign == [generated |-> FALSE, name |-> Nothing, steps |-> <<>>]
Edited == [generated |-> TRUE, name |-> Nothing, steps |-> <<>>]
Torn == Foreign       \* created or emptied, and not yet written

\* The files there are; `tree` is a function on their names.
Drift(tree, wf, git) ==
  IF wf.name \notin DOMAIN tree THEN "missing"
  ELSE IF tree[wf.name] = Render(wf, git) THEN "match" ELSE "differs"

Declared(wfs) == {wfs[i].name : i \in DOMAIN wfs}

\* A renamed workflow's old file keeps running; only a file gaff wrote is reported.
Orphans(tree, wfs) == {n \in DOMAIN tree \ Declared(wfs) : tree[n].generated}

\* write_all, when it dies after `k` files, `torn` in the middle of the next.
Written(tree, wfs, git, k, torn) ==
  LET begun == 1..(IF torn THEN k + 1 ELSE k) \cap DOMAIN wfs
      last(n) == CHOOSE i \in begun : wfs[i].name = n /\ \A j \in begun : wfs[j].name = n => j <= i
  IN [n \in DOMAIN tree \cup {wfs[i].name : i \in begun} |->
        IF \A i \in begun : wfs[i].name # n THEN tree[n]
        ELSE IF last(n) = k + 1 THEN Torn ELSE Render(wfs[last(n)], git)]

\* run_init_github: every declaration is checked, and every name measured, before the
\* first write.
InitGithub(tree, wfs, git, k, torn) ==
  IF Refused(wfs, git) \/ \E i \in DOMAIN wfs : wfs[i].long THEN tree
  ELSE Written(tree, wfs, git, k, torn)

\* check_github, and the first two phases of `gaff ci`.
CheckGithub(tree, wfs, git) ==
  /\ ~Refused(wfs, git)
  /\ \A i \in DOMAIN wfs : Drift(tree, wfs[i], git) = "match"
  /\ Orphans(tree, wfs) = {}

-----------------------------------------------------------------------------
CONSTANTS Configs,   \* pairs of declared workflows and git entries
          Trees      \* the files there may be

\* The declarations are lists.
ASSUME WorkflowsAssumption ==
  /\ \A c \in Configs :
       /\ Len(c[1]) \in Nat /\ DOMAIN c[1] = 1..Len(c[1])
       /\ Len(c[2]) \in Nat /\ DOMAIN c[2] = 1..Len(c[2])
  /\ \A tree \in Trees : tree = [n \in DOMAIN tree |-> tree[n]]

\* Two declarations for one file: the last one is written, and the first one drifts.
Twins(wfs, git) ==
  \E i, j \in DOMAIN wfs : wfs[i].name = wfs[j].name /\ Render(wfs[i], git) # Render(wfs[j], git)

\* The commands a workflow may run: its own, and its own layer's.
OwnCommands(wf, git) ==
  {wf.steps[i].command : i \in DOMAIN wf.steps} \cup
  {git[i].command : i \in {j \in DOMAIN git : git[j].user = wf.user}}

RunsItsOwn(wf, git) ==
  \A i \in DOMAIN wf.steps :
    LET step == Render(wf, git).steps[i]
    IN step[1] = "run" => step[2] \in OwnCommands(wf, git) \ {Nothing}

Settles(wfs, git, tree, k, torn) ==
  LET died == InitGithub(tree, wfs, git, k, torn)
      once == InitGithub(tree, wfs, git, Len(wfs), FALSE)
      again == InitGithub(died, wfs, git, Len(wfs), FALSE)
      long == \E i \in DOMAIN wfs : wfs[i].long
  IN /\ again = once
     /\ \A n \in DOMAIN tree \ Declared(wfs) : n \in DOMAIN died /\ died[n] = tree[n]
     /\ ~Refused(wfs, git) /\ ~long =>
          (CheckGithub(once, wfs, git) <=> Orphans(tree, wfs) = {} /\ ~Twins(wfs, git))
     /\ ~Refused(wfs, git) => \A i \in DOMAIN wfs : RunsItsOwn(wfs[i], git)
     /\ CheckGithub(tree, wfs, git) /\ ~long => once = tree

\* The declarations, trees and deaths that do not settle.
Unsettled ==
  {t \in Configs \X Trees \X (0..2) \X BOOLEAN : ~Settles(t[1][1], t[1][2], t[2], t[3], t[4])}
=============================================================================
