----------------------------- MODULE ReviewGate -----------------------------
(***************************************************************************)
(* The review gate: `gaff reviews check` behind a push (reviewnote.rs,     *)
(* cli.rs `run_reviews_check`) and `gaff ci` on a runner (cli.rs           *)
(* `ci_phases`, `ci_head`), over the notes in refs/notes/reviews, with     *)
(* reviewers who read one commit and write their line later, notes that    *)
(* `git notes copy` or a rewrite carries to another commit, and a HEAD     *)
(* that moves.  One run of the gate, which may start in any such state.    *)
(*                                                                         *)
(* A sign-off names a commit or nothing usable (too short, not hex): a     *)
(* prefix of seven or more hex digits names one commit.  A reviewer writes *)
(* down what it found, about the commit it read.  Abstracted: the wording  *)
(* of a note, the fanout of the notes tree, tags (a tag peels to a         *)
(* commit), and a pushed object that cannot be read.                       *)
(***************************************************************************)
EXTENDS ConfigLayers, Workflows

CONSTANTS Commits,    \* the commits there are
          Merge,      \* the one a forge builds for a pull request
          Reviews,    \* review names
          Acts,       \* the reviews that take place, numbered
          NoNote,     \* a commit without a note
          Unnamed,    \* what a sign-off names that names no commit
          UserFile,   \* the user's config file
          Repos,      \* the repos the gate may run in
          ConfigOf,   \* the config file of each commit of a repo
          Streams,    \* what git may write to the pre-push hook: sets of ref lines
          FlowsOf,    \* the workflows each commit declares
          GitOf,      \* its git entries
          TreeOf      \* its files under .github/workflows

Refs == [commit : Commits, kind : {"branch", "notes", "delete"}]
PolicySet == {NoPolicy} \cup SUBSET Reviews

ASSUME ReviewAssumption ==
  /\ Merge \in Commits
  /\ Unnamed \notin Commits
  /\ \A set \in SUBSET Reviews : set # NoPolicy
  /\ Reviews # {}
  /\ UserFile.kind \in FileKinds /\ UserFile.cfg.reviews \in PolicySet
  /\ \A r \in Repos, c \in Commits :
       ConfigOf[r][c].kind \in FileKinds /\ ConfigOf[r][c].cfg.reviews \in PolicySet
  /\ Streams \subseteq SUBSET Refs

VARIABLES head,      \* the commit checked out where the push is made
          clone,     \* the repo the gate runs in
          acts,      \* what each review read and found
          notes,     \* each commit's note: its sign-off lines, or NoNote
          gate,      \* the run of the gate
          passed     \* history: the tips it let through

vars == <<head, clone, acts, notes, gate, passed>>

Lines == [act : Acts, review : Reviews, passed : BOOLEAN, names : Commits \cup {Unnamed},
          enough : BOOLEAN]
NoteBodies == {NoNote} \cup SUBSET Lines
ActStates == [st : {"idle", "read", "written"}, review : Reviews, commit : Commits,
              passed : BOOLEAN]
Gates == [pc : {"idle", "head", "config", "refs", "check", "refused", "passed"},
          ci : BOOLEAN, checkout : Commits, pull : BOOLEAN, named : BOOLEAN, meant : Commits,
          refs : SUBSET Refs, got : SUBSET Refs, short : BOOLEAN, required : PolicySet,
          todo : SUBSET Commits, bad : BOOLEAN]

Init ==
  /\ head \in Commits \ {Merge}
  /\ clone \in Repos
  /\ acts = [n \in Acts |-> [st |-> "idle", review |-> CHOOSE r \in Reviews : TRUE,
                             commit |-> Merge, passed |-> FALSE]]
  /\ notes = [c \in Commits |-> NoNote]
  /\ gate = [pc |-> "idle", ci |-> FALSE, checkout |-> Merge, pull |-> FALSE, named |-> TRUE, meant |-> Merge,
             refs |-> {}, got |-> {}, short |-> FALSE, required |-> NoPolicy, todo |-> {}, bad |-> FALSE]
  /\ passed = {}

-----------------------------------------------------------------------------
(* The rule (`shortfall`).                                                 *)

\* Mutant: a sign-off counts whatever commit it names.
CarriedFault(line, c) ==
  IF ~line.passed THEN "failed" ELSE IF ~line.enough THEN "thin" ELSE "none"

Fault(line, c) ==
  IF ~line.passed THEN "failed"
  ELSE IF line.names = Unnamed THEN "short"
  ELSE IF line.names # c THEN "wrong"
  ELSE IF ~line.enough THEN "thin" ELSE "none"

Mine(note, r) == {line \in note : line.review = r}

ReviewFault(note, r, c) ==
  IF Mine(note, r) = {} THEN "unsigned"
  ELSE IF \E x, y \in Mine(note, r) : x # y THEN "duplicate"
  ELSE Fault(CHOOSE line \in Mine(note, r) : TRUE, c)

\* Mutant: a failed review counts only where the policy requires it.
RequiredFaults(note, required, c) ==
  IF required = {} THEN {}
  ELSE IF note = NoNote THEN {<<"note">>}
  ELSE {<<r, ReviewFault(note, r, c)>> : r \in required} \ {<<r, "none">> : r \in required}

Shortfall(note, required, c) ==
  IF required = {} THEN {}
  ELSE IF note = NoNote THEN {<<"note">>}
  ELSE {f \in {<<r, ReviewFault(note, r, c)>> : r \in required} : f[2] # "none"}
       \cup {<<line.review, "failed">> :
               line \in {l \in note : ~l.passed /\ l.review \notin required}}

-----------------------------------------------------------------------------
(* Reviewers and notes, until the gate has decided.                        *)

Open == gate.pc \notin {"refused", "passed"}

Reads(n) ==
  /\ Open /\ acts[n].st = "idle"
  /\ \E r \in Reviews, c \in Commits \ {Merge}, ok \in BOOLEAN :
       acts' = [acts EXCEPT ![n] = [st |-> "read", review |-> r, commit |-> c, passed |-> ok]]
  /\ UNCHANGED <<head, clone, notes, gate, passed>>

Body(c) == IF notes[c] = NoNote THEN {} ELSE notes[c]

\* `git notes append`, or `add -f`, which replaces; git writes to HEAD unless told.
Signs(n) ==
  /\ Open /\ acts[n].st = "read"
  /\ \E c \in {acts[n].commit, head}, replace \in BOOLEAN,
        q \in {<<acts[n].commit, TRUE>>, <<acts[n].commit, FALSE>>, <<Unnamed, TRUE>>} :
       notes' = [notes EXCEPT ![c] = (IF replace THEN {} ELSE Body(c)) \cup
                  {[act |-> n, review |-> acts[n].review, passed |-> acts[n].passed,
                    names |-> q[1], enough |-> q[2]]}]
  /\ acts' = [acts EXCEPT ![n].st = "written"]
  /\ UNCHANGED <<head, clone, gate, passed>>

\* Prose: a note that holds no sign-off line.
Remarks(c) ==
  /\ Open /\ notes[c] = NoNote /\ c # Merge
  /\ notes' = [notes EXCEPT ![c] = {}]
  /\ UNCHANGED <<head, clone, acts, gate, passed>>

\* An amend or a rebase takes the note along, or a person copies it; not to the commit
\* the forge builds, which no one annotates.
Carries(c, d) ==
  /\ Open /\ notes[c] # NoNote /\ c # d /\ d # Merge
  /\ notes' = [notes EXCEPT ![d] = notes[c]]
  /\ UNCHANGED <<head, clone, acts, gate, passed>>

Moves(c) ==
  /\ Open /\ head' = c /\ c # Merge
  /\ UNCHANGED <<clone, acts, notes, gate, passed>>

-----------------------------------------------------------------------------
(* The gate.                                                               *)

Goes(pc) == gate' = [gate EXCEPT !.pc = pc]

\* git calls the pre-push hook with `refs`; the check gets the ref lines `got`, fewer where
\* the stream was cut.  A cut in the first three fields of a line leaves a `short` one; one
\* in the fourth, or at the line's end, leaves no trace.
Pushes(refs, got, short) ==
  /\ gate.pc = "idle"
  /\ short => got # refs
  /\ gate' = [gate EXCEPT !.pc = "config", !.refs = refs, !.got = got, !.short = short]
  /\ UNCHANGED <<head, clone, acts, notes, passed>>

\* A runner checks out a branch's head, or the merge commit of a pull request for `c`.
\* `named`: HEAD is a branch or a commit, not some other ref, and the payload of a pull
\* request's event, when it is one, gives the full sha of the branch's head.
CiStarts(c, pull, named) ==
  /\ gate.pc = "idle"
  /\ gate' = [gate EXCEPT !.pc = "head", !.ci = TRUE, !.pull = pull, !.named = named, !.meant = c,
                          !.checkout = IF pull THEN Merge ELSE c]
  /\ UNCHANGED <<head, clone, acts, notes, passed>>

\* Mutant: the checkout is what is checked, on a pull request too.
CheckoutPushed(g) == g.checkout

\* pull_request_head: reviewers read the branch's head, not the merge commit.
PushSha(g) == IF g.pull THEN g.meant ELSE g.checkout

\* ci_phases up to the hooks, with ci_head and the ref line it makes up.  The commits
\* declare a git entry on pre-push that runs the gate.
CiHead ==
  /\ gate.pc = "head"
  /\ IF \/ ~CheckGithub(TreeOf[gate.checkout], FlowsOf[gate.checkout], GitOf[gate.checkout])
        \/ ~gate.named
     THEN Goes("refused")
     ELSE LET line == [commit |-> PushSha(gate), kind |-> "branch"]
          IN gate' = [gate EXCEPT !.pc = "config", !.refs = {line}, !.got = {line}]
  /\ UNCHANGED <<head, clone, acts, notes, passed>>

\* ci_config: the config of the checkout, whatever is pushed.  None, or one read in part,
\* refuses, and so does one that states no policy.
ReadsConfig(home) ==
  /\ gate.pc = "config"
  /\ LET file == ConfigOf[clone][IF gate.ci THEN gate.checkout ELSE head]
         loaded == LoadLayered(home, UserFile, file)
     IN IF loaded.status # "ok" \/ loaded.cfg.reviews = NoPolicy THEN Goes("refused")
        ELSE gate' = [gate EXCEPT !.pc = "refs", !.required = loaded.cfg.reviews]
  /\ UNCHANGED <<head, clone, acts, notes, passed>>

\* parse_refs drops a deletion and a push of notes, by the remote ref.
Tips(refs) == {ref.commit : ref \in {r \in refs : r.kind = "branch"}}

\* truncated_lines: a short line refuses; no ref left is nothing to check.
ReadsRefs ==
  /\ gate.pc = "refs"
  /\ gate' = IF gate.short THEN [gate EXCEPT !.pc = "refused"]
             ELSE [gate EXCEPT !.pc = "check", !.todo = Tips(gate.got)]
  /\ UNCHANGED <<head, clone, acts, notes, passed>>

\* Each tip's note is read when its turn comes, and all faults are reported.
ChecksTip(c) ==
  /\ gate.pc = "check" /\ c \in gate.todo
  /\ gate' = [gate EXCEPT !.todo = @ \ {c},
                          !.bad = @ \/ Shortfall(notes[c], gate.required, c) # {}]
  /\ UNCHANGED <<head, clone, acts, notes, passed>>

\* A push lands its refs; a run of CI vouches for the commit it was started for.
Decides ==
  /\ gate.pc = "check" /\ gate.todo = {}
  /\ Goes(IF gate.bad THEN "refused" ELSE "passed")
  /\ passed' = IF gate.bad THEN {} ELSE IF gate.ci THEN {gate.meant} ELSE Tips(gate.refs)
  /\ UNCHANGED <<head, clone, acts, notes>>

Next ==
  \/ \E n \in Acts : Reads(n) \/ Signs(n)
  \/ \E c \in Commits : Remarks(c) \/ Moves(c) \/ ChecksTip(c) \/ \E d \in Commits : Carries(c, d)
  \/ \E refs \in Streams, short \in BOOLEAN : \E got \in SUBSET refs : Pushes(refs, got, short)
  \/ \E c \in Commits \ {Merge}, pull, named \in BOOLEAN : CiStarts(c, pull, named)
  \/ CiHead \/ ReadsRefs \/ Decides
  \/ \E home \in Homes : ReadsConfig(home)

Spec == Init /\ [][Next]_vars

-----------------------------------------------------------------------------
TypeOK ==
  /\ head \in Commits /\ clone \in Repos
  /\ acts \in [Acts -> ActStates]
  /\ notes \in [Commits -> NoteBodies]
  /\ gate \in Gates
  /\ passed \subseteq Commits

\* A review of `c` that found nothing wrong took place.
Read(c, r) == \E n \in Acts : /\ acts[n].st # "idle"
                              /\ acts[n].commit = c /\ acts[n].review = r /\ acts[n].passed

\* A line says what its writer found about the commit it names.
LinesHonest ==
  \A c \in Commits : notes[c] # NoNote =>
    \A line \in notes[c] : line.passed /\ line.names # Unnamed => Read(line.names, line.review)

ReadsAll(c) == \A r \in gate.required : Read(c, r)

\* The tips that a cut of the stream kept from the check.
Unseen == Tips(gate.refs) \ Tips(gate.got)

\* What the run has let pass so far, of the lines it got, was read.
CheckedSoFar ==
  /\ gate.got \subseteq gate.refs
  /\ gate.pc \in {"check", "passed"} => gate.required # NoPolicy /\ ~gate.short
  /\ gate.pc \in {"check", "passed"} /\ ~gate.bad =>
       \A c \in Tips(gate.got) \ gate.todo : ReadsAll(c)
  /\ gate.pc = "passed" => ~gate.bad /\ gate.todo = {}
  /\ gate.ci /\ gate.pc \in {"config", "refs", "check", "passed"} =>
       gate.refs = {[commit |-> gate.meant, kind |-> "branch"]} /\ gate.got = gate.refs
  /\ gate.pc # "passed" => passed = {}
  /\ gate.pc = "passed" => passed \subseteq Tips(gate.refs)

GateInv == TypeOK /\ LinesHonest /\ CheckedSoFar

\* Nothing passes the gate, by a push or as the head CI was asked about, that someone has
\* not read and passed, that very commit, for every review the config in force requires;
\* and never where no config states a policy, nor where a line came short (reviewnote.rs,
\* "carries forward").  Excepted are the refs whose lines a cut of the stream kept from the
\* check without leaving a short line: they pass unread, where the comment at cli.rs:2477
\* says that a partial read always leaves one.
PassedWasRead ==
  gate.pc = "passed" =>
    gate.required # NoPolicy /\ ~gate.short /\ \A c \in passed \ Unseen : ReadsAll(c)

\* What a reviewer would call approved: no review failed, and each required one has exactly
\* one sign-off, which is about this commit and gives evidence.
Approved(note, required, c) ==
  /\ note # NoNote
  /\ \A line \in note : line.passed
  /\ \A r \in required : \E line \in note :
       /\ line.review = r /\ line.names = c /\ line.enough
       /\ \A other \in note : other.review = r => other = line

\* The check of a tip refuses it exactly when it is not approved, and an empty policy asks
\* for nothing: no failed review is passed over, and none that is in order is refused.
RefusesUnapproved ==
  [][\A c \in Commits : ChecksTip(c) =>
       (gate.bad' <=> gate.bad \/ ~(gate.required = {} \/ Approved(notes[c], gate.required, c)))]_vars

-----------------------------------------------------------------------------
(* What the gate's inputs are computed by.                                 *)

\* With any repo in the working directory the user's config keeps its say: whatever layer
\* is broken or missing and whatever profile is in force, the repo takes away no guard, stop
\* rule, agent, check or profile of the user's, lowers no cap under which the user's base
\* declares an entry, and drops no entry and takes no marker of one (overlaid_with,
\* sanitize_repo_profile, load).  Excepted are an entry whose name the bundle of a repo's
\* profile has too, and the marker of an entry of a bundle of the user's: there the code
\* does what docs/configuration.md:28-36 and config.rs:297-304 say it does not.  A policy of
\* reviews is one the repo stated, and holds both layers' names; a file of the user's that
\* is no regular file or does not parse is never passed over.
RepoAddsOnly == gate.pc = "config" => Trespasses = {}

\* A `gaff init --github` that died anywhere and is run again leaves what one run would
\* have left, touches no file the config does not declare, and satisfies the check unless
\* an orphan is left or two declarations share a file.  What passes the check runs
\* nothing empty and nothing of the other layer, and a further init would not change it.
WorkflowsSettle == gate.pc = "head" => Unsettled = {}
=============================================================================
