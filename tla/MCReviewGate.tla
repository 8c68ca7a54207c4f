---------------------------- MODULE MCReviewGate ----------------------------
(***************************************************************************)
(* ReviewGate with two commits of a branch and the merge commit of a pull  *)
(* request, two reviews, and repos whose commits ask for both, for one,    *)
(* for none, or state nothing; and small configs of both layers.           *)
(***************************************************************************)
EXTENDS ReviewGate, TLC

CONSTANTS a, b, c1, c2, m, tests, eyes

Swaps == Permutations(Acts)

Line(c, k) == [commit |-> c, kind |-> k]

MCStreams == {{}, {Line(c1, "branch"), Line(c2, "branch"), Line(c2, "notes")},
              {Line(c1, "delete"), Line(c2, "branch")}}

-----------------------------------------------------------------------------
(* Config files.                                                           *)

Text(cfg) == [kind |-> "text", cfg |-> cfg]
Entry(k, n) == [kind |-> k, name |-> n, user |-> FALSE]
Bare(n) == [name |-> n, user |-> FALSE]
Placed(n, i) == [name |-> n, user |-> FALSE, at |-> i]

Plain == [user |-> FALSE, base |-> TRUE, entries |-> {}, disable |-> {}, guards |-> {},
          stop |-> FALSE, cap |-> NoCap, legacy |-> FALSE]
Law == [Plain EXCEPT !.base = FALSE, !.entries = {Entry("section", "x")}, !.guards = {"g"},
                     !.stop = TRUE]

UserConfigs ==
  {EmptyConfig,
   [EmptyConfig EXCEPT !.guards = {"g"}, !.agents = {"rev"}, !.entries = {Entry("reminder", "x")},
      !.cap = 2, !.reviews = {tests}, !.git = {Bare("x")}, !.github = {Placed("x", 1)},
      !.default = "law", !.profiles = [n \in {"law"} |-> Law]],
   [EmptyConfig EXCEPT !.entries = {Entry("section", "x"), Entry("reminder", "y")}, !.cap = 6,
      !.transitions = {"soft"}, !.reviews = {},
      !.profiles = [n \in {"law", "soft"} |-> IF n = "law" THEN [Law EXCEPT !.legacy = TRUE]
                                              ELSE [Plain EXCEPT !.disable = {"y"}, !.cap = 1,
                                                           !.entries = {Entry("reminder", "z")}]]]}

RepoProfiles ==
  {[Plain EXCEPT !.disable = {"x", "z"}, !.cap = 1],
   [Law EXCEPT !.entries = {Entry("reminder", "x"), Entry("section", "z")}],
   [Law EXCEPT !.legacy = TRUE]}

RepoConfigs ==
  {[EmptyConfig EXCEPT !.guards = {"r"}, !.agents = {"r"}, !.git = {Bare("x")},
       !.github = {Placed("x", 1), Placed("z", 2), Placed("z", 3)}, !.cap = cap, !.reviews = rev, !.entries = es,
       !.default = d, !.transitions = t, !.profiles = ps] :
     cap \in {1, DefaultCap}, rev \in {NoPolicy, {}, {eyes}},
     es \in {{Entry(k, "x"), Entry("section", "z")} : k \in {"reminder", "section"}},
     d \in {NoProfile, "law"}, t \in {NoPolicy, {"law", "soft"}},
     ps \in {[n \in ns |-> p] : ns \in {{"law"}, {"soft"}}, p \in RepoProfiles}}

Unusable == {[kind |-> k, cfg |-> EmptyConfig] : k \in FileKinds \ {"text", "link"}}
MCUserFiles == Unusable \cup {[kind |-> k, cfg |-> cfg] : k \in {"text", "link"}, cfg \in UserConfigs}
MCRepoFiles == Unusable \cup {[kind |-> "link", cfg |-> EmptyConfig]} \cup
               {Text(cfg) : cfg \in RepoConfigs}

MCUserFile == Text([EmptyConfig EXCEPT !.reviews = {tests}])
Asks(set) == Text([EmptyConfig EXCEPT !.reviews = set])
MCConfigOf ==
  [r \in Repos |-> [c \in Commits |->
     IF r = "strict" THEN Asks(CASE c = c1 -> {} [] c = c2 -> {tests, eyes} [] c = m -> {eyes})
     ELSE CASE c = c1 -> Asks({eyes}) [] c = c2 -> NoFile [] c = m -> Asks(NoPolicy)]]

-----------------------------------------------------------------------------
(* Workflows.                                                              *)

Scan(user, command, clean) ==
  [name |-> "scan", user |-> user, command |-> command, clean |-> clean, hook |-> TRUE]
Lists == {<<>>, <<Scan(TRUE, "mine", TRUE)>>, <<Scan(FALSE, "ours", TRUE)>>,
          <<Scan(TRUE, "mine", TRUE), Scan(FALSE, "ours", TRUE)>>,
          <<Scan(FALSE, Nothing, TRUE)>>, <<Scan(FALSE, "ours", FALSE)>>,
          <<[Scan(TRUE, "mine", TRUE) EXCEPT !.hook = FALSE]>>}

Step == [uses |-> Nothing, use_git |-> Nothing, command |-> Nothing, with |-> FALSE, clean |-> TRUE]
Runs == [Step EXCEPT !.command = "make"]
Reuses == [Step EXCEPT !.use_git = "scan"]
Provisions == [Step EXCEPT !.uses = "action", !.with = TRUE]
BadSteps == {Step, [Runs EXCEPT !.use_git = "scan"], [Runs EXCEPT !.with = TRUE],
             [Provisions EXCEPT !.command = "make"], [Runs EXCEPT !.clean = FALSE]}

Flow(name, user, steps) ==
  [name |-> name, user |-> user, steps |-> steps, valid |-> TRUE, long |-> FALSE]
Flows == {Flow("x", user, steps) : user \in BOOLEAN, steps \in {<<Runs>>, <<Provisions, Reuses>>}}
         \cup {Flow("y", FALSE, <<Reuses>>), [Flow("y", FALSE, <<Runs>>) EXCEPT !.long = TRUE],
               [Flow("y", FALSE, <<Runs>>) EXCEPT !.valid = FALSE], Flow("y", TRUE, <<>>)}
         \cup {Flow("y", TRUE, <<s>>) : s \in BadSteps}

MCConfigs == {<<wfs, git>> : wfs \in {<<>>} \cup {<<f>> : f \in Flows} \cup (Flows \X Flows),
                             git \in Lists}
MCTrees == UNION {[names -> {Foreign, Edited}] : names \in SUBSET {"x", "z"}}
           \cup {[n \in {"x"} |-> Render(Flow("x", FALSE, <<Runs>>), <<>>)]}

\* c2's file was edited by hand.
MCFlowsOf == [c \in Commits |-> <<Flow("x", FALSE, <<Reuses>>)>>]
MCGitOf == [c \in Commits |-> <<Scan(FALSE, "ours", TRUE)>>]
MCTreeOf == [c \in Commits |-> [n \in {"x"} |->
               IF c = c2 THEN Edited ELSE Render(MCFlowsOf[c][1], MCGitOf[c])]]
=============================================================================
