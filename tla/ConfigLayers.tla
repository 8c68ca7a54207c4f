---------------------------- MODULE ConfigLayers ----------------------------
(***************************************************************************)
(* The config a gaff process computes from the user's gaff.yml and the     *)
(* repo's .gaff/gaff.yml (config.rs): how each file is read, what is       *)
(* cleared from the repo's, how the repo's is laid over the user's, and    *)
(* what a profile in force makes of it.  Pure operators: every process     *)
(* computes it anew.  `resolve_profile` is in module Guards.               *)
(*                                                                         *)
(* Abstracted: texts, cadences and the order of entries, for an entry is   *)
(* its kind, its name and its layer, and a workflow its name, its layer    *)
(* and its place `at` in the file; guards and agents are names; a          *)
(* profile's stop rule is there or not.                                    *)
(***************************************************************************)
EXTENDS Naturals

CONSTANTS NoPolicy,     \* no `reviews:` key, no `transitions:` key
          NoProfile,    \* no name
          NoCap,        \* a profile without max_inject_bytes
          DefaultCap    \* DEFAULT_MAX_INJECT_BYTES

ASSUME CapAssumption == DefaultCap \in Nat

EmptyConfig ==
  [entries |-> {}, profiles |-> [n \in {} |-> {}], cap |-> DefaultCap,
   default |-> NoProfile, transitions |-> NoPolicy, git |-> {}, github |-> {},
   guards |-> {}, agents |-> {}, reviews |-> NoPolicy]

-----------------------------------------------------------------------------
(* Reading a file.  "lost": its metadata cannot be had, as under a         *)
(* directory that may not be searched or at the end of a dangling link.    *)
(* "odd": not a regular file, too large, or unreadable.  "broken": it does *)
(* not parse, as one that declares handlers does not.                      *)

FileKinds == {"absent", "lost", "empty", "link", "odd", "broken", "text"}

ReadUserConfigFile(file) ==
  CASE file.kind \in {"absent", "lost", "empty"} -> "none"
    [] file.kind \in {"odd", "broken"} -> "error"
    [] file.kind \in {"link", "text"} -> "text"

\* The repo's may not be a symlink.
ReadConfigFile(file) ==
  IF file.kind = "link" THEN "error" ELSE ReadUserConfigFile(file)

\* A profile with a removed key (`only`, `cadence`) is dropped.
Current(profiles) == {n \in DOMAIN profiles : ~profiles[n].legacy}

\* The user's file as load_layered takes it, every entry stamped as the user's.
Stamped(entries) == {[e EXCEPT !.user = TRUE] : e \in entries}

UserConfig(c) ==
  [entries |-> Stamped(c.entries),
   profiles |-> [n \in Current(c.profiles) |->
                   [c.profiles[n] EXCEPT !.user = TRUE, !.entries = Stamped(@)]],
   cap |-> c.cap, default |-> c.default, transitions |-> c.transitions,
   git |-> Stamped(c.git), github |-> Stamped(c.github),
   guards |-> c.guards, agents |-> c.agents, reviews |-> c.reviews]

\* `load`: a repo declares no guard, no agent and no stop rule.
RepoConfig(c) ==
  [entries |-> c.entries,
   profiles |-> [n \in Current(c.profiles) |->
                   [c.profiles[n] EXCEPT !.guards = {}, !.stop = FALSE, !.base = TRUE]],
   cap |-> c.cap, default |-> c.default, transitions |-> c.transitions,
   git |-> c.git, github |-> c.github,
   guards |-> {}, agents |-> {}, reviews |-> c.reviews]

Load(file) ==
  CASE ReadConfigFile(file) = "none" -> [status |-> "absent", cfg |-> EmptyConfig]
    [] ReadConfigFile(file) = "error" -> [status |-> "broken", cfg |-> EmptyConfig]
    [] ReadConfigFile(file) = "text" ->
         [status |-> IF Current(file.cfg.profiles) = DOMAIN file.cfg.profiles
                     THEN "ok" ELSE "degraded",
          cfg |-> RepoConfig(file.cfg)]

-----------------------------------------------------------------------------
(* Laying the repo's config over the user's.                               *)

\* The repo states the policy, the user adds to it.
MergeReviews(user, repo) ==
  IF repo = NoPolicy THEN NoPolicy
  ELSE IF user = NoPolicy THEN repo ELSE user \cup repo

AtLeast(cap, floor) == IF cap < floor THEN floor ELSE cap

\* Mutant: a repo's profile may disable what it likes.
SanitizeLenient(p, names, cap) ==
  [p EXCEPT !.base = TRUE, !.guards = {}, !.stop = FALSE, !.user = FALSE,
            !.cap = IF @ = NoCap \/ names = {} THEN @ ELSE AtLeast(@, cap)]

SanitizeRepoProfile(p, names, cap) ==
  [p EXCEPT !.base = TRUE, !.disable = @ \ names, !.guards = {}, !.stop = FALSE,
            !.user = FALSE,
            !.cap = IF @ = NoCap \/ names = {} THEN @ ELSE AtLeast(@, cap)]

Kinds == {"reminder", "section"}
Named(entries, kind) == {e.name : e \in {x \in entries : x.kind = kind}}
Other(kind) == IF kind = "reminder" THEN "section" ELSE "reminder"

\* Reminders and sections share the namespace of their markers.
DropCrossKindClashes(entries, user) ==
  {e \in entries : e.name \in Named(user, e.kind) \/ e.name \notin Named(user, Other(e.kind))}

\* A workflow of the repo's under a name that is taken, by the user or earlier in the
\* repo's file, is not added.
AddedWorkflows(user, repo) ==
  {w \in repo : /\ \A u \in user : u.name # w.name
                /\ \A v \in repo : v.name = w.name => w.at <= v.at}

OverlaidWith(user, repo) ==
  LET names == {e.name : e \in user.entries}
      profiles == [n \in DOMAIN user.profiles \cup DOMAIN repo.profiles |->
                     IF n \in DOMAIN user.profiles THEN user.profiles[n]
                     ELSE SanitizeRepoProfile(repo.profiles[n], names, user.cap)]
      owned == {n \in DOMAIN profiles : profiles[n].user}
      added == {e \in repo.entries : e.name \notin Named(user.entries, e.kind)}
  IN [entries |-> DropCrossKindClashes(user.entries \cup added, user.entries),
      profiles |-> profiles,
      cap |-> IF repo.cap = DefaultCap THEN user.cap
              ELSE IF names = {} THEN repo.cap ELSE AtLeast(repo.cap, user.cap),
      default |-> IF repo.default = NoProfile \/ repo.default \in owned
                  THEN user.default ELSE repo.default,
      transitions |-> IF user.transitions # NoPolicy THEN user.transitions
                      ELSE IF repo.transitions = NoPolicy THEN NoPolicy
                      ELSE repo.transitions \ owned,
      git |-> user.git \cup repo.git,
      github |-> user.github \cup AddedWorkflows(user.github, repo.github),
      guards |-> user.guards, agents |-> user.agents,
      reviews |-> MergeReviews(user.reviews, repo.reviews)]

\* Without the repo's file no policy is stated.
Alone(c) == [UserConfig(c) EXCEPT !.reviews = NoPolicy]

\* `home`: HOME is set and a directory.
LoadLayered(home, user, repo) ==
  LET read == IF home THEN ReadUserConfigFile(user) ELSE "none"
      there == Load(repo)
  IN CASE read = "error" -> [status |-> "broken", cfg |-> EmptyConfig]
       [] read = "none" -> there
       [] read = "text" ->
            CASE there.status = "absent" -> [status |-> "ok", cfg |-> Alone(user.cfg)]
              [] there.status = "broken" -> [status |-> "degraded", cfg |-> Alone(user.cfg)]
              [] there.status \in {"ok", "degraded"} ->
                   [status |-> "ok", cfg |-> OverlaidWith(UserConfig(user.cfg), there.cfg)]

-----------------------------------------------------------------------------
(* A profile in force.                                                     *)

Declares(entries, e) == \E x \in entries : x.kind = e.kind /\ x.name = e.name

WithProfile(cfg, name) ==
  IF name \notin DOMAIN cfg.profiles THEN cfg
  ELSE LET p == cfg.profiles[name]
       IN [entries |-> p.entries \cup
             {e \in cfg.entries : p.base /\ e.name \notin p.disable /\ ~Declares(p.entries, e)},
           profiles |-> cfg.profiles,
           cap |-> IF p.cap = NoCap THEN cfg.cap ELSE p.cap,
           default |-> cfg.default, transitions |-> cfg.transitions,
           git |-> cfg.git, github |-> cfg.github,
           guards |-> cfg.guards \cup p.guards, agents |-> cfg.agents,
           reviews |-> cfg.reviews]

ProfileStop(cfg, name) == name \in DOMAIN cfg.profiles /\ cfg.profiles[name].stop

-----------------------------------------------------------------------------
CONSTANTS ProfileNames, \* names of profiles
          Homes,        \* whether HOME can be used
          UserFiles, RepoFiles   \* the files that may be there

NoFile == [kind |-> "absent", cfg |-> EmptyConfig]

\* What the parser makes of a file: no `user` is set yet.
Parsed(c) ==
  /\ c.cap \in Nat
  /\ \A e \in c.entries : DOMAIN e = {"kind", "name", "user"} /\ e.kind \in Kinds
  /\ \A w \in c.github : "user" \in DOMAIN w
  /\ \A n \in DOMAIN c.profiles :
       /\ DOMAIN c.profiles[n] = {"user", "base", "entries", "disable", "guards", "stop", "cap",
                                 "legacy"}
       /\ c.profiles[n].user = FALSE
       /\ c.profiles[n].cap \in Nat \cup {NoCap}

ASSUME LayersAssumption ==
  /\ NoCap \notin Nat
  /\ \A file \in UserFiles \cup RepoFiles : file.kind \in FileKinds /\ Parsed(file.cfg)

Owned(cfg) == {n \in DOMAIN cfg.profiles : cfg.profiles[n].user}

\* What blocks, and what runs a command, is the same with the repo as without it.
LawUntouched(with, without, n) ==
  /\ WithProfile(with, n).guards = WithProfile(without, n).guards
  /\ ProfileStop(with, n) = ProfileStop(without, n)
  /\ with.agents = without.agents

\* Entries of both kinds are marked by name: no entry the repo brought shares e's marker.
KeepsMarker(with, without, n, e) ==
  \A x \in WithProfile(with, n).entries : x.name = e.name => x \in WithProfile(without, n).entries

\* A profile of the repo's is in force whose bundle has an entry under that name.
RepoBundles(with, n, name) ==
  n \in DOMAIN with.profiles \ Owned(with) /\ \E x \in with.profiles[n].entries : x.name = name

\* What is in force without the repo stays so and keeps its marker, but for two kinds of
\* entry: one whose name the bundle of a repo's profile has too, which is replaced or, by
\* an entry of the other kind, loses its marker; and one of a bundle of the user's, which
\* stays but may share its marker with a base entry of the repo's.
EntriesStand(with, without, n) ==
  \A e \in WithProfile(without, n).entries : RepoBundles(with, n, e.name) \/
    /\ e \in WithProfile(with, n).entries
    /\ \/ KeepsMarker(with, without, n, e)
       \/ n \in Owned(with) /\ e \in with.profiles[n].entries

CapStands(with, without, n) ==
  without.entries # {} => WithProfile(with, n).cap >= WithProfile(without, n).cap

\* The user decides when a profile of the user's applies.
ProfilesStand(with, without) ==
  /\ Owned(with) = Owned(without)
  /\ with.default \in Owned(with) => with.default = without.default
  /\ without.transitions # NoPolicy => with.transitions = without.transitions
  /\ with.transitions # NoPolicy /\ without.transitions = NoPolicy =>
       with.transitions \cap Owned(with) = {}

ChecksStand(with, without) ==
  /\ without.git \subseteq with.git
  /\ without.github \subseteq with.github
  /\ \A w \in with.github : (\E u \in without.github : u.name = w.name) => w.user

\* The reviews the user adds, everywhere.
Wishes(home, user) ==
  IF /\ home /\ ReadUserConfigFile(user) = "text"
     /\ user.cfg.reviews # NoPolicy
  THEN user.cfg.reviews ELSE {}

\* The configs with the repo's layer and without, and which profile is in force.
Stands(home, user, repo, n) ==
  LET with == LoadLayered(home, user, repo)
      without == LoadLayered(home, user, NoFile)
      stated == Load(repo).cfg.reviews
  IN /\ home /\ user.kind \in {"odd", "broken"} => with.status = "broken"
     /\ with.status # "broken" =>
          /\ LawUntouched(with.cfg, without.cfg, n)
          /\ EntriesStand(with.cfg, without.cfg, n)
          /\ CapStands(with.cfg, without.cfg, n)
          /\ ProfilesStand(with.cfg, without.cfg)
          /\ ChecksStand(with.cfg, without.cfg)
          /\ with.cfg.reviews =
               IF stated = NoPolicy THEN NoPolicy ELSE stated \cup Wishes(home, user)

\* The pairs of files, and the profiles in force, for which it does not.
Trespasses ==
  {t \in Homes \X UserFiles \X RepoFiles \X ProfileNames : ~Stands(t[1], t[2], t[3], t[4])}
=============================================================================
