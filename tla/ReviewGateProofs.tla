--------------------------- MODULE ReviewGateProofs ---------------------------
(***************************************************************************)
(* What the review gate promises, for every set of commits and reviews,    *)
(* any number of reviewers, and whatever configs and workflows the commits *)
(* declare; first what the layering of the configs it reads promises a     *)
(* user, for every config of either layer: what a repo in the working      *)
(* directory may not take away, and the two cases in which it does.        *)
(***************************************************************************)
EXTENDS ReviewGate, WellFoundedInduction, TLAPS

-----------------------------------------------------------------------------
(* Reading.                                                                *)

\* The config a missing or broken file stands for declares nothing.
LEMMA Empty ==
  /\ EmptyConfig.entries = {} /\ EmptyConfig.guards = {} /\ EmptyConfig.agents = {}
  /\ EmptyConfig.git = {} /\ EmptyConfig.github = {} /\ EmptyConfig.reviews = NoPolicy
  /\ EmptyConfig.transitions = NoPolicy /\ EmptyConfig.default = NoProfile
  /\ DOMAIN EmptyConfig.profiles = {}
BY DEF EmptyConfig

\* A file that is not there is read as absent (load).
LEMMA NothingThere ==
  Load(NoFile) = [status |-> "absent", cfg |-> EmptyConfig]
<1>1. ReadConfigFile(NoFile) = "none"
  BY DEF ReadConfigFile, ReadUserConfigFile, NoFile
<1> QED
  BY <1>1 DEF Load

\* What is read of a repo's file: nothing, or its config cleared of law.
LEMMA LoadCases ==
  ASSUME NEW file, file.kind \in FileKinds
  PROVE  \/ Load(file) = [status |-> "absent", cfg |-> EmptyConfig]
         \/ Load(file) = [status |-> "broken", cfg |-> EmptyConfig]
         \/ /\ Load(file).status \in {"ok", "degraded"}
            /\ Load(file).cfg = RepoConfig(file.cfg)
<1>1. ReadConfigFile(file) \in {"none", "error", "text"}
  BY DEF ReadConfigFile, ReadUserConfigFile, FileKinds
<1>2. CASE ReadConfigFile(file) = "none"
  BY <1>2 DEF Load
<1>3. CASE ReadConfigFile(file) = "error"
  BY <1>3 DEF Load
<1>4. CASE ReadConfigFile(file) = "text"
  <2>1. Load(file) = [status |-> IF Current(file.cfg.profiles) = DOMAIN file.cfg.profiles
                                 THEN "ok" ELSE "degraded",
                      cfg |-> RepoConfig(file.cfg)]
    BY <1>4 DEF Load
  <2> QED
    BY <2>1
<1> QED
  BY <1>1, <1>2, <1>3, <1>4

-----------------------------------------------------------------------------
(* What each layer's config is.                                            *)

\* What is the user's carries the user's stamp.
LEMMA UserParts ==
  ASSUME NEW c, Parsed(c), NEW U, U = UserConfig(c)
  PROVE  /\ U.cap = c.cap /\ U.cap \in Nat /\ U.reviews = c.reviews
         /\ \A w \in U.github : w.user
         /\ \A e \in U.entries : e.kind \in Kinds
         /\ \A n \in DOMAIN U.profiles :
              U.profiles[n].user /\ U.profiles[n].cap \in Nat \cup {NoCap}
<1>1. U.cap = c.cap /\ U.cap \in Nat /\ U.reviews = c.reviews
  BY DEF UserConfig, Parsed
<1>2. ASSUME NEW w \in U.github
      PROVE  w.user
  <2>1. U.github = Stamped(c.github)
    BY DEF UserConfig
  <2>2. PICK v \in c.github : w = [v EXCEPT !.user = TRUE]
    BY <2>1 DEF Stamped
  <2>3. "user" \in DOMAIN v
    BY DEF Parsed
  <2> QED
    BY <2>2, <2>3
<1>4. ASSUME NEW e \in U.entries
      PROVE  e.kind \in Kinds
  <2>1. U.entries = Stamped(c.entries)
    BY DEF UserConfig
  <2>2. PICK d \in c.entries : e = [d EXCEPT !.user = TRUE]
    BY <2>1 DEF Stamped
  <2>3. DOMAIN d = {"kind", "name", "user"} /\ d.kind \in Kinds
    BY DEF Parsed
  <2> QED
    BY <2>2, <2>3
<1>3. ASSUME NEW n \in DOMAIN U.profiles
      PROVE  U.profiles[n].user /\ U.profiles[n].cap \in Nat \cup {NoCap}
  <2>1. U.profiles = [m \in Current(c.profiles) |->
                   [c.profiles[m] EXCEPT !.user = TRUE, !.entries = Stamped(@)]]
    BY DEF UserConfig
  <2>2. n \in Current(c.profiles) /\ n \in DOMAIN c.profiles
    BY <2>1 DEF Current
  <2> DEFINE p == c.profiles[n]
  <2>3. U.profiles[n] = [p EXCEPT !.user = TRUE, !.entries = Stamped(p.entries)]
    BY <2>1, <2>2
  <2>4. DOMAIN p = {"user", "base", "entries", "disable", "guards", "stop", "cap", "legacy"}
        /\ p.cap \in Nat \cup {NoCap}
    BY <2>2 DEF Parsed
  <2> HIDE DEF p
  <2> QED
    BY <2>3, <2>4
<1> QED
  BY <1>1, <1>2, <1>3, <1>4

\* A profile of the repo's: it brings no law.
Cleared(p) ==
  /\ DOMAIN p = {"user", "base", "entries", "disable", "guards", "stop", "cap", "legacy"}
  /\ p.user = FALSE /\ p.guards = {} /\ p.stop = FALSE
  /\ p.cap \in Nat \cup {NoCap}

\* What `load` returns of a repo's file brings no law.
LEMMA RepoParts ==
  ASSUME NEW c, Parsed(c)
  PROVE  /\ RepoConfig(c).cap \in Nat /\ RepoConfig(c).reviews = c.reviews
         /\ RepoConfig(c).guards = {} /\ RepoConfig(c).agents = {}
         /\ \A e \in RepoConfig(c).entries : e.kind \in Kinds
         /\ \A n \in DOMAIN RepoConfig(c).profiles : Cleared(RepoConfig(c).profiles[n])
<1> DEFINE R == RepoConfig(c)
<1>1. /\ R.cap \in Nat /\ R.reviews = c.reviews /\ R.guards = {} /\ R.agents = {}
      /\ \A e \in R.entries : e.kind \in Kinds
  BY DEF RepoConfig, Parsed
<1>2. ASSUME NEW n \in DOMAIN R.profiles
      PROVE  Cleared(R.profiles[n])
  <2>1. R.profiles = [m \in Current(c.profiles) |->
                   [c.profiles[m] EXCEPT !.guards = {}, !.stop = FALSE, !.base = TRUE]]
    BY DEF RepoConfig
  <2>2. n \in Current(c.profiles) /\ n \in DOMAIN c.profiles
    BY <2>1 DEF Current
  <2> DEFINE p == c.profiles[n]
  <2>3. R.profiles[n] = [p EXCEPT !.guards = {}, !.stop = FALSE, !.base = TRUE]
    BY <2>1, <2>2
  <2>4. DOMAIN p = {"user", "base", "entries", "disable", "guards", "stop", "cap", "legacy"}
        /\ p.user = FALSE /\ p.cap \in Nat \cup {NoCap}
    BY <2>2 DEF Parsed
  <2>5. DOMAIN R.profiles[n] = DOMAIN p
    BY <2>3
  <2> HIDE DEF p, R
  <2> QED
    BY <2>3, <2>4, <2>5 DEF Cleared
<1> QED
  BY <1>1, <1>2

\* A repo's profile p, as it is laid over a user's config.
Sanitized(q, p, names, cap) ==
  /\ q.base = TRUE /\ q.disable = p.disable \ names /\ q.guards = {}
  /\ q.stop = FALSE /\ q.user = FALSE
  /\ q.cap = IF p.cap = NoCap \/ names = {} THEN p.cap ELSE AtLeast(p.cap, cap)

\* Laid over the user's, a repo's profile keeps the user's names and floor.
LEMMA SanitizedParts ==
  ASSUME NEW p, Cleared(p), NEW names, NEW cap \in Nat
  PROVE  Sanitized(SanitizeRepoProfile(p, names, cap), p, names, cap)
BY DEF SanitizeRepoProfile, Cleared, Sanitized

\* The names of a config's base entries.
NamesOf(cfg) == {e.name : e \in cfg.entries}

-----------------------------------------------------------------------------
(* A profile in force.                                                     *)

\* A name without a profile changes nothing.
LEMMA NotDeclared ==
  ASSUME NEW cfg, NEW n, n \notin DOMAIN cfg.profiles
  PROVE  WithProfile(cfg, n) = cfg /\ ProfileStop(cfg, n) = FALSE
BY DEF WithProfile, ProfileStop

\* What a declared profile makes of the base.
LEMMA InForce ==
  ASSUME NEW cfg, NEW n \in DOMAIN cfg.profiles, NEW p, p = cfg.profiles[n]
  PROVE  /\ WithProfile(cfg, n).entries = p.entries \cup
              {e \in cfg.entries : p.base /\ e.name \notin p.disable /\ ~Declares(p.entries, e)}
         /\ WithProfile(cfg, n).cap = (IF p.cap = NoCap THEN cfg.cap ELSE p.cap)
         /\ WithProfile(cfg, n).guards = cfg.guards \cup p.guards
         /\ (ProfileStop(cfg, n) <=> p.stop)
<1>1. WithProfile(cfg, n) =
        [entries |-> p.entries \cup
           {e \in cfg.entries : p.base /\ e.name \notin p.disable /\ ~Declares(p.entries, e)},
         profiles |-> cfg.profiles,
         cap |-> IF p.cap = NoCap THEN cfg.cap ELSE p.cap,
         default |-> cfg.default, transitions |-> cfg.transitions,
         git |-> cfg.git, github |-> cfg.github,
         guards |-> cfg.guards \cup p.guards, agents |-> cfg.agents,
         reviews |-> cfg.reviews]
  BY DEF WithProfile
<1> QED
  BY <1>1 DEF ProfileStop

\* Laid over nothing, or over a file that says nothing, a config stands by itself.
LEMMA StandsAlone ==
  ASSUME NEW cfg, cfg.cap \in Nat, \A w \in cfg.github : w.user,
         \A n \in DOMAIN cfg.profiles : cfg.profiles[n].cap \in Nat \cup {NoCap}, NEW n
  PROVE  /\ LawUntouched(cfg, cfg, n) /\ EntriesStand(cfg, cfg, n) /\ CapStands(cfg, cfg, n)
         /\ ProfilesStand(cfg, cfg) /\ ChecksStand(cfg, cfg)
<1>1. WithProfile(cfg, n).cap \in Nat
  <2>1. CASE n \in DOMAIN cfg.profiles
    BY <2>1, InForce
  <2>2. CASE n \notin DOMAIN cfg.profiles
    BY <2>2, NotDeclared
  <2> QED
    BY <2>1, <2>2
<1> QED
  BY <1>1 DEF LawUntouched, EntriesStand, KeepsMarker, CapStands, ProfilesStand, ChecksStand

\* Without a config of the user's there is nothing to take away, and a repo's brings no
\* law.
LEMMA StandsOnNothing ==
  ASSUME NEW repo, repo.kind \in FileKinds, Parsed(repo.cfg), NEW n,
         Load(repo).status # "broken"
  PROVE  LET with == Load(repo).cfg
         IN /\ LawUntouched(with, EmptyConfig, n) /\ EntriesStand(with, EmptyConfig, n)
            /\ CapStands(with, EmptyConfig, n)
            /\ ProfilesStand(with, EmptyConfig) /\ ChecksStand(with, EmptyConfig)
<1> DEFINE with == Load(repo).cfg
<1>1. CASE with = EmptyConfig
  <2>1. n \notin DOMAIN EmptyConfig.profiles
    BY Empty
  <2> QED
    BY <1>1, <2>1, Empty, NotDeclared
    DEF LawUntouched, EntriesStand, CapStands, ProfilesStand, ChecksStand
<1>2. CASE with = RepoConfig(repo.cfg)
  <2> HIDE DEF with
  <2>1. /\ with.guards = {} /\ with.agents = {}
        /\ \A m \in DOMAIN with.profiles : Cleared(with.profiles[m])
    BY <1>2, RepoParts
  <2>2. n \notin DOMAIN EmptyConfig.profiles
    BY Empty
  <2>3. WithProfile(with, n).guards = {} /\ ProfileStop(with, n) = FALSE
    <3>1. CASE n \in DOMAIN with.profiles
      BY <2>1, <3>1, InForce DEF Cleared
    <3>2. CASE n \notin DOMAIN with.profiles
      BY <2>1, <3>2, NotDeclared
    <3> QED
      BY <3>1, <3>2
  <2>4. LawUntouched(with, EmptyConfig, n)
    <3>1. WithProfile(EmptyConfig, n).guards = {} /\ ProfileStop(EmptyConfig, n) = FALSE
      BY <2>2, Empty, NotDeclared
    <3> QED
      BY <2>1, <2>3, <3>1, Empty DEF LawUntouched
  <2>5. EntriesStand(with, EmptyConfig, n) /\ CapStands(with, EmptyConfig, n)
    BY <2>2, Empty, NotDeclared DEF EntriesStand, CapStands
  <2>6. Owned(with) = {} /\ Owned(EmptyConfig) = {}
    BY <2>1, Empty DEF Owned, Cleared
  <2>7. ProfilesStand(with, EmptyConfig) /\ ChecksStand(with, EmptyConfig)
    BY <2>6, Empty DEF ProfilesStand, ChecksStand
  <2> QED
    BY <2>4, <2>5, <2>7 DEF with
<1> QED
  BY <1>1, <1>2, LoadCases

-----------------------------------------------------------------------------
(* A repo's config over a user's.                                          *)

\* The floor under a cap.
LEMMA AtLeastBoth ==
  ASSUME NEW a \in Nat, NEW b \in Nat
  PROVE  AtLeast(a, b) \in Nat /\ AtLeast(a, b) >= b
BY DEF AtLeast

\* The profiles of both, the user's as declared, the repo's sanitized.
LEMMA LaidProfiles ==
  ASSUME NEW U, NEW R, NEW over, over = OverlaidWith(U, R)
  PROVE  /\ DOMAIN over.profiles = DOMAIN U.profiles \cup DOMAIN R.profiles
         /\ \A n \in DOMAIN U.profiles : over.profiles[n] = U.profiles[n]
         /\ \A n \in DOMAIN R.profiles \ DOMAIN U.profiles :
              over.profiles[n] = SanitizeRepoProfile(R.profiles[n], NamesOf(U), U.cap)
<1>1. over.profiles = [n \in DOMAIN U.profiles \cup DOMAIN R.profiles |->
                         IF n \in DOMAIN U.profiles THEN U.profiles[n]
                         ELSE SanitizeRepoProfile(R.profiles[n], NamesOf(U), U.cap)]
  BY DEF OverlaidWith, NamesOf
<1> QED
  BY <1>1

\* Each part of the overlay against the user's.
LEMMA LaidParts ==
  ASSUME NEW U, NEW R, U.cap \in Nat, R.cap \in Nat, NEW over, over = OverlaidWith(U, R),
         \A e \in U.entries \cup R.entries : e.kind \in Kinds
  PROVE  /\ U.entries \subseteq over.entries
         /\ U.entries # {} => over.cap \in Nat /\ over.cap >= U.cap
         /\ over.guards = U.guards /\ over.agents = U.agents
         /\ \A e \in U.entries, x \in over.entries : x.name = e.name => x \in U.entries
         /\ over.git = U.git \cup R.git
         /\ over.github = U.github \cup AddedWorkflows(U.github, R.github)
         /\ over.reviews = MergeReviews(U.reviews, R.reviews)
<1> DEFINE names == {e.name : e \in U.entries}
           added == {e \in R.entries : e.name \notin Named(U.entries, e.kind)}
<1>1. over.entries = DropCrossKindClashes(U.entries \cup added, U.entries)
  BY DEF OverlaidWith
<1>2. \A e \in U.entries : e.name \in Named(U.entries, e.kind)
  BY DEF Named
<1>3. U.entries \subseteq over.entries
  BY <1>1, <1>2 DEF DropCrossKindClashes
<1>8. ASSUME NEW e \in U.entries, NEW x \in over.entries, x.name = e.name
      PROVE  x \in U.entries
  <2>1. /\ x \in U.entries \/ x \in added
        /\ e.kind \in Kinds /\ x.kind \in Kinds
    BY <1>1 DEF DropCrossKindClashes
  <2>2. CASE e.kind = x.kind
    <3>1. x.name \in Named(U.entries, x.kind)
      BY <1>8, <2>2 DEF Named
    <3> QED
      BY <2>1, <3>1
  <2>3. CASE e.kind = Other(x.kind)
    <3>1. x.name \in Named(U.entries, Other(x.kind))
      BY <1>8, <2>3 DEF Named
    <3>2. x.name \in Named(U.entries, x.kind)
      BY <1>1, <3>1 DEF DropCrossKindClashes
    <3> QED
      BY <2>1, <3>2
  <2> QED
    BY <2>1, <2>2, <2>3 DEF Other, Kinds
<1>4. over.cap = IF R.cap = DefaultCap THEN U.cap
                 ELSE IF names = {} THEN R.cap ELSE AtLeast(R.cap, U.cap)
  BY DEF OverlaidWith
<1>5. U.entries # {} => names # {}
  OBVIOUS
<1> HIDE DEF names
<1>6. U.entries # {} => over.cap \in Nat /\ over.cap >= U.cap
  <2>1. U.cap >= U.cap
    OBVIOUS
  <2> QED
    BY <1>4, <1>5, <2>1, AtLeastBoth
<1>7. /\ over.guards = U.guards /\ over.agents = U.agents
      /\ over.git = U.git \cup R.git
      /\ over.github = U.github \cup AddedWorkflows(U.github, R.github)
      /\ over.reviews = MergeReviews(U.reviews, R.reviews)
  BY DEF OverlaidWith
<1> QED
  BY <1>3, <1>6, <1>7, <1>8

\* Nothing the user declared is taken away but in the two excepted cases, whichever profile
\* is in force.
LEMMA StandsOver ==
  ASSUME NEW user, NEW repo, Parsed(user), Parsed(repo), NoCap \notin Nat, NEW n,
         NEW U, U = UserConfig(user), NEW R, R = RepoConfig(repo),
         NEW with, with = OverlaidWith(U, R), NEW without, without = Alone(user)
  PROVE  /\ LawUntouched(with, without, n) /\ EntriesStand(with, without, n)
         /\ CapStands(with, without, n)
         /\ ProfilesStand(with, without) /\ ChecksStand(with, without)
<1>1. /\ without.entries = U.entries /\ without.profiles = U.profiles
      /\ without.cap = U.cap /\ without.guards = U.guards /\ without.agents = U.agents
      /\ without.git = U.git /\ without.github = U.github
      /\ without.default = U.default /\ without.transitions = U.transitions
  BY DEF Alone, UserConfig
<1>2. /\ U.cap \in Nat /\ \A w \in U.github : w.user
      /\ \A e \in U.entries : e.kind \in Kinds
      /\ \A m \in DOMAIN U.profiles :
           U.profiles[m].user /\ U.profiles[m].cap \in Nat \cup {NoCap}
  BY UserParts
<1>3. /\ R.cap \in Nat /\ \A m \in DOMAIN R.profiles : Cleared(R.profiles[m])
      /\ \A e \in R.entries : e.kind \in Kinds
  BY RepoParts
<1>4. /\ with.default = (IF R.default = NoProfile \/
                            R.default \in {m \in DOMAIN with.profiles : with.profiles[m].user}
                         THEN U.default ELSE R.default)
      /\ with.transitions =
           (IF U.transitions # NoPolicy THEN U.transitions
            ELSE IF R.transitions = NoPolicy THEN NoPolicy
            ELSE R.transitions \ {m \in DOMAIN with.profiles : with.profiles[m].user})
  BY DEF OverlaidWith
<1>5. /\ U.entries \subseteq with.entries
      /\ \A e \in U.entries, x \in with.entries : x.name = e.name => x \in U.entries
      /\ U.entries # {} => with.cap \in Nat /\ with.cap >= U.cap
      /\ with.guards = U.guards /\ with.agents = U.agents
      /\ with.git = U.git \cup R.git
      /\ with.github = U.github \cup AddedWorkflows(U.github, R.github)
  BY <1>2, <1>3, LaidParts
<1>6. /\ DOMAIN with.profiles = DOMAIN U.profiles \cup DOMAIN R.profiles
      /\ \A m \in DOMAIN U.profiles : with.profiles[m] = U.profiles[m]
      /\ \A m \in DOMAIN R.profiles \ DOMAIN U.profiles :
           with.profiles[m] = SanitizeRepoProfile(R.profiles[m], NamesOf(U), U.cap)
  BY LaidProfiles
<1>7. \A m \in DOMAIN R.profiles \ DOMAIN U.profiles :
        Sanitized(with.profiles[m], R.profiles[m], NamesOf(U), U.cap)
  BY <1>2, <1>3, <1>6, SanitizedParts
<1>8. Owned(with) = DOMAIN U.profiles /\ Owned(without) = DOMAIN U.profiles
  BY <1>1, <1>2, <1>6, <1>7 DEF Owned, Sanitized
<1> DEFINE InForceStands == /\ LawUntouched(with, without, n) /\ EntriesStand(with, without, n)
                            /\ CapStands(with, without, n)
<1>9. ASSUME n \in DOMAIN U.profiles
      PROVE  InForceStands
  <2> DEFINE p == U.profiles[n]
  <2>1. with.profiles[n] = p /\ without.profiles[n] = p /\ n \in DOMAIN with.profiles
        /\ n \in DOMAIN without.profiles /\ p.cap \in Nat \cup {NoCap}
    BY <1>1, <1>2, <1>6, <1>9
  <2> HIDE DEF p
  <2>2. /\ WithProfile(with, n).entries = p.entries \cup
             {e \in with.entries : p.base /\ e.name \notin p.disable /\ ~Declares(p.entries, e)}
        /\ WithProfile(with, n).cap = (IF p.cap = NoCap THEN with.cap ELSE p.cap)
        /\ WithProfile(with, n).guards = with.guards \cup p.guards
    BY <2>1, InForce
  <2>3. /\ WithProfile(without, n).entries = p.entries \cup
             {e \in without.entries : p.base /\ e.name \notin p.disable /\ ~Declares(p.entries, e)}
        /\ WithProfile(without, n).cap = (IF p.cap = NoCap THEN without.cap ELSE p.cap)
        /\ WithProfile(without, n).guards = without.guards \cup p.guards
    BY <2>1, InForce
  <2>4. LawUntouched(with, without, n)
    BY <1>1, <1>5, <2>1, <2>2, <2>3 DEF LawUntouched, ProfileStop
  <2>5. EntriesStand(with, without, n)
    <3> SUFFICES ASSUME NEW e \in WithProfile(without, n).entries
                 PROVE  /\ e \in WithProfile(with, n).entries
                        /\ \/ KeepsMarker(with, without, n, e)
                           \/ n \in Owned(with) /\ e \in with.profiles[n].entries
      BY DEF EntriesStand
    <3>1. e \in WithProfile(with, n).entries
      BY <1>1, <1>5, <2>2, <2>3
    <3>2. CASE e \in p.entries
      BY <1>8, <1>9, <2>1, <3>1, <3>2
    <3>3. CASE e \in U.entries
      <4>1. ASSUME NEW x \in WithProfile(with, n).entries, x.name = e.name
            PROVE  x \in WithProfile(without, n).entries
        <5>1. CASE x \in p.entries
          BY <2>3, <5>1
        <5>2. CASE /\ x \in with.entries
                   /\ p.base /\ x.name \notin p.disable /\ ~Declares(p.entries, x)
          <6>1. x \in U.entries
            BY <1>5, <3>3, <4>1, <5>2
          <6> QED
            BY <1>1, <2>3, <5>2, <6>1
        <5> QED
          BY <2>2, <5>1, <5>2
      <4> QED
        BY <3>1, <4>1 DEF KeepsMarker
    <3> QED
      BY <1>1, <2>3, <3>2, <3>3
  <2>6. CapStands(with, without, n)
    BY <1>1, <1>2, <1>5, <2>1, <2>2, <2>3 DEF CapStands
  <2> QED
    BY <2>4, <2>5, <2>6
<1>10. ASSUME n \in DOMAIN R.profiles \ DOMAIN U.profiles
       PROVE  InForceStands
  <2> DEFINE p == with.profiles[n]
  <2>1. n \in DOMAIN with.profiles /\ n \notin DOMAIN without.profiles
        /\ n \notin Owned(with)
    BY <1>1, <1>6, <1>8, <1>10
  <2>2. p.base = TRUE /\ p.guards = {} /\ p.stop = FALSE
        /\ (\A e \in U.entries : e.name \notin p.disable)
    <3>1. Sanitized(p, R.profiles[n], NamesOf(U), U.cap)
      BY <1>7, <1>10
    <3>2. \A e \in U.entries : e.name \in NamesOf(U)
      BY DEF NamesOf
    <3> HIDE DEF p
    <3> QED
      BY <3>1, <3>2 DEF Sanitized
  <2>3. U.entries # {} => p.cap = NoCap \/ (p.cap \in Nat /\ p.cap >= U.cap /\ p.cap # NoCap)
    <3>1. U.entries # {} => NamesOf(U) # {}
      BY DEF NamesOf
    <3>2. R.profiles[n].cap \in Nat \cup {NoCap}
      BY <1>3, <1>10 DEF Cleared
    <3>3. p.cap = IF R.profiles[n].cap = NoCap \/ NamesOf(U) = {} THEN R.profiles[n].cap
                  ELSE AtLeast(R.profiles[n].cap, U.cap)
      BY <1>7, <1>10 DEF Sanitized
    <3> HIDE DEF p
    <3> QED
      BY <1>2, <3>1, <3>2, <3>3, AtLeastBoth
  <2> HIDE DEF p
  <2>4. /\ WithProfile(with, n).entries = p.entries \cup
             {e \in with.entries : p.base /\ e.name \notin p.disable /\ ~Declares(p.entries, e)}
        /\ WithProfile(with, n).cap = (IF p.cap = NoCap THEN with.cap ELSE p.cap)
        /\ WithProfile(with, n).guards = with.guards \cup p.guards
    BY <2>1, InForce DEF p
  <2>5. WithProfile(without, n) = without /\ ProfileStop(without, n) = FALSE
    BY <2>1, NotDeclared
  <2>6. LawUntouched(with, without, n)
    BY <1>1, <1>5, <2>1, <2>2, <2>4, <2>5 DEF LawUntouched, ProfileStop, p
  <2>7. EntriesStand(with, without, n)
    <3> SUFFICES ASSUME NEW e \in U.entries, \A x \in p.entries : x.name # e.name
                 PROVE  e \in WithProfile(with, n).entries /\ KeepsMarker(with, without, n, e)
      BY <1>1, <2>1, <2>5 DEF EntriesStand, RepoBundles, p
    <3>1. e \in WithProfile(with, n).entries
      BY <1>5, <2>2, <2>4 DEF Declares
    <3>2. ASSUME NEW x \in WithProfile(with, n).entries, x.name = e.name
          PROVE  x \in U.entries
      <4>1. x \in with.entries
        BY <2>4, <3>2
      <4> QED
        BY <1>5, <3>2, <4>1
    <3> QED
      BY <1>1, <2>5, <3>1, <3>2 DEF KeepsMarker
  <2>8. CapStands(with, without, n)
    BY <1>1, <1>2, <1>5, <2>3, <2>4, <2>5 DEF CapStands
  <2> QED
    BY <2>6, <2>7, <2>8
<1>11. ASSUME n \notin DOMAIN with.profiles
       PROVE  InForceStands
  <2>1. n \notin DOMAIN without.profiles
    BY <1>1, <1>6, <1>11
  <2>2. /\ WithProfile(with, n) = with /\ ProfileStop(with, n) = FALSE
        /\ WithProfile(without, n) = without /\ ProfileStop(without, n) = FALSE
    BY <1>11, <2>1, NotDeclared
  <2>3. LawUntouched(with, without, n) /\ CapStands(with, without, n)
    BY <1>1, <1>2, <1>5, <2>2 DEF LawUntouched, CapStands
  <2>4. EntriesStand(with, without, n)
    BY <1>1, <1>5, <2>2 DEF EntriesStand, KeepsMarker
  <2> QED
    BY <2>3, <2>4
<1>12. ProfilesStand(with, without)
  BY <1>1, <1>4, <1>8 DEF ProfilesStand, Owned
<1>13. ChecksStand(with, without)
  <2>1. ASSUME NEW w \in with.github, NEW u \in U.github, u.name = w.name
        PROVE  w.user
    BY <1>2, <1>5, <2>1 DEF AddedWorkflows
  <2> QED
    BY <1>1, <1>5, <2>1 DEF ChecksStand
<1> QED
  BY <1>6, <1>9, <1>10, <1>11, <1>12, <1>13

-----------------------------------------------------------------------------
\* Whatever either file holds and whichever profile is in force, a repo's takes away
\* nothing of the user's but an entry, or its marker, whose name the bundle of a repo's
\* profile has, and the marker of an entry of a bundle of the user's; and a user's file that
\* cannot be used is never passed over (load_layered, overlaid_with).
THEOREM RepoAdds ==
  ASSUME NEW home, NEW user, NEW repo, NEW n,
         user.kind \in FileKinds, repo.kind \in FileKinds, Parsed(user.cfg), Parsed(repo.cfg),
         NoCap \notin Nat
  PROVE  Stands(home, user, repo, n)
<1> DEFINE read == IF home THEN ReadUserConfigFile(user) ELSE "none"
           there == Load(repo)
           with == LoadLayered(home, user, repo)
           without == LoadLayered(home, user, NoFile)
           Keeps == /\ LawUntouched(with.cfg, without.cfg, n)
                    /\ EntriesStand(with.cfg, without.cfg, n)
                    /\ CapStands(with.cfg, without.cfg, n)
                    /\ ProfilesStand(with.cfg, without.cfg)
                    /\ ChecksStand(with.cfg, without.cfg)
           Wished == with.cfg.reviews = IF there.cfg.reviews = NoPolicy THEN NoPolicy
                                        ELSE there.cfg.reviews \cup Wishes(home, user)
<1>1. read \in {"none", "error", "text"}
  BY DEF ReadUserConfigFile, FileKinds
<1>2. home /\ user.kind \in {"odd", "broken"} => read = "error"
  BY DEF ReadUserConfigFile
<1>3. there.status \in {"absent", "broken", "ok", "degraded"}
  BY LoadCases
<1>4. /\ read = "error" => with.status = "broken"
      /\ read = "none" => with = there /\ without = Load(NoFile)
      /\ read = "text" =>
           /\ there.status = "absent" => with = [status |-> "ok", cfg |-> Alone(user.cfg)]
           /\ there.status = "broken" => with = [status |-> "degraded", cfg |-> Alone(user.cfg)]
           /\ there.status \in {"ok", "degraded"} =>
                with = [status |-> "ok", cfg |-> OverlaidWith(UserConfig(user.cfg), there.cfg)]
           /\ without = [status |-> "ok", cfg |-> Alone(user.cfg)]
  <2>1. Load(NoFile).status = "absent"
    BY NothingThere
  <2> QED
    BY <1>1, <1>3, <2>1 DEF LoadLayered
<1>5. read # "text" => Wishes(home, user) = {}
  BY DEF Wishes
<1>6. read = "text" => Wishes(home, user) = IF user.cfg.reviews = NoPolicy THEN {}
                                            ELSE user.cfg.reviews
  BY DEF Wishes
<1>7. /\ Alone(user.cfg).cap \in Nat /\ Alone(user.cfg).reviews = NoPolicy
      /\ \A w \in Alone(user.cfg).github : w.user
      /\ \A m \in DOMAIN Alone(user.cfg).profiles :
           Alone(user.cfg).profiles[m].cap \in Nat \cup {NoCap}
  <2>1. /\ Alone(user.cfg).cap = UserConfig(user.cfg).cap
        /\ Alone(user.cfg).github = UserConfig(user.cfg).github
        /\ Alone(user.cfg).profiles = UserConfig(user.cfg).profiles
        /\ Alone(user.cfg).reviews = NoPolicy
    BY DEF Alone, UserConfig
  <2> QED
    BY <2>1, UserParts
<1> HIDE DEF read, with, without
<1>8. CASE read = "error"
  BY <1>4, <1>8 DEF Stands, with
<1>9. CASE read = "none"
  <2>1. with.status # "broken" => Keeps
    BY <1>4, <1>9, NothingThere, StandsOnNothing
  <2>2. Wished
    BY <1>4, <1>5, <1>9
  <2>3. ~(home /\ user.kind \in {"odd", "broken"})
    BY <1>2, <1>9
  <2> QED
    BY <2>1, <2>2, <2>3 DEF Stands, with, without
<1>10. CASE read = "text" /\ there.status \in {"absent", "broken"}
  <2>1. with.cfg = Alone(user.cfg) /\ without.cfg = Alone(user.cfg)
    BY <1>4, <1>10
  <2>2. Keeps
    BY <1>7, <2>1, StandsAlone
  <2>3. Wished
    <3>1. there.cfg = EmptyConfig
      BY <1>10, LoadCases
    <3> QED
      BY <1>7, <2>1, <3>1, Empty
  <2>4. ~(home /\ user.kind \in {"odd", "broken"})
    BY <1>2, <1>10
  <2> QED
    BY <2>2, <2>3, <2>4 DEF Stands, with, without
<1>11. CASE read = "text" /\ there.status \in {"ok", "degraded"}
  <2>1. there.cfg = RepoConfig(repo.cfg)
    BY <1>11, LoadCases
  <2>2. with.cfg = OverlaidWith(UserConfig(user.cfg), RepoConfig(repo.cfg))
        /\ without.cfg = Alone(user.cfg)
    BY <1>4, <1>11, <2>1
  <2>3. Keeps
    BY <2>2, StandsOver
  <2>4. Wished
    <3>1. with.cfg.reviews = MergeReviews(UserConfig(user.cfg).reviews, there.cfg.reviews)
      BY <2>1, <2>2, UserParts, RepoParts, LaidParts
    <3>2. UserConfig(user.cfg).reviews = user.cfg.reviews
      BY UserParts
    <3> QED
      BY <1>6, <1>11, <3>1, <3>2 DEF MergeReviews
  <2>5. ~(home /\ user.kind \in {"odd", "broken"})
    BY <1>2, <1>11
  <2> QED
    BY <2>3, <2>4, <2>5 DEF Stands, with, without
<1> QED
  BY <1>1, <1>3, <1>8, <1>9, <1>10, <1>11

\* None of the files that may be there takes more away than those exceptions.
THEOREM NoTrespass == Trespasses = {}
<1>1. ASSUME NEW home \in Homes, NEW user \in UserFiles, NEW repo \in RepoFiles,
             NEW n \in ProfileNames
      PROVE  Stands(home, user, repo, n)
  BY LayersAssumption, RepoAdds
<1> QED
  BY <1>1 DEF Trespasses

-----------------------------------------------------------------------------
(* Workflows.  The first and the last of some places in a list.            *)

LEMMA LeastThereIs ==
  ASSUME NEW S \in SUBSET Nat, S # {}
  PROVE  \E i \in S : \A j \in S : i <= j
<1>1. IsWellFoundedOn(OpToRel(<, Nat), Nat)
  BY NatLessThanWellFounded
<1>2. PICK i \in S : \A j \in S : ~(<<j, i>> \in OpToRel(<, Nat))
  BY <1>1, WFMin
<1>3. ASSUME NEW j \in S PROVE i <= j
  <2>1. <<j, i>> \in Nat \X Nat /\ <<j, i>>[1] = j /\ <<j, i>>[2] = i
    OBVIOUS
  <2>2. ~(j < i)
    BY <1>2, <2>1 DEF OpToRel
  <2> QED
    BY <2>2
<1> QED
  BY <1>3

LEMMA GreatestThereIs ==
  ASSUME NEW n \in Nat, NEW S \in SUBSET (1..n), S # {}
  PROVE  \E i \in S : \A j \in S : j <= i
<1> DEFINE T == {n - i : i \in S}
<1>1. T \in SUBSET Nat /\ T # {}
  <2>1. \A i \in S : i \in 1..n
    OBVIOUS
  <2>2. \A i \in 1..n : n - i \in Nat
    OBVIOUS
  <2>3. \A t \in T : t \in Nat
    BY <2>1, <2>2
  <2>4. PICK i \in S : TRUE
    OBVIOUS
  <2>5. n - i \in T
    BY <2>4
  <2> QED
    BY <2>3, <2>5
<1>2. PICK t \in T : \A u \in T : t <= u
  BY <1>1, LeastThereIs
<1>3. PICK i \in S : t = n - i
  OBVIOUS
<1>4. ASSUME NEW j \in S PROVE j <= i
  <2>1. n - i <= n - j
    BY <1>2, <1>3
  <2> QED
    BY <2>1
<1> QED
  BY <1>4

\* A list, as the parser of the configs makes one; and a function on names.
IsList(list) == Len(list) \in Nat /\ DOMAIN list = 1..Len(list)
IsTree(tree) == tree = [n \in DOMAIN tree |-> tree[n]]

-----------------------------------------------------------------------------
(* What a render runs.                                                     *)

\* The entry a sound step reuses is of the workflow's own layer.
LEMMA ReusedIsOwn ==
  ASSUME NEW wf, NEW git, IsList(git), NEW name, ~ReuseFault(wf, git, name)
  PROVE  /\ Entries(git, name) # {}
         /\ Reused(wf, git, name).command \in OwnCommands(wf, git) \ {Nothing}
<1> DEFINE S == IF OwnEntries(wf, git, name) # {} THEN OwnEntries(wf, git, name)
                ELSE Entries(git, name)
<1>1. Entries(git, name) # {}
  BY DEF ReuseFault
<1>2. S \subseteq DOMAIN git /\ S \subseteq Nat /\ S # {}
  BY <1>1 DEF OwnEntries, Entries, IsList
<1> HIDE DEF S
<1>3. First(S) \in S
  BY <1>2, LeastThereIs DEF First
<1>4. Reused(wf, git, name) = git[First(S)]
  BY DEF Reused, S
<1>5. Reused(wf, git, name).user = wf.user /\ Reused(wf, git, name).command # Nothing
  BY DEF ReuseFault
<1>6. git[First(S)].command \in {git[i].command : i \in {j \in DOMAIN git : git[j].user = wf.user}}
  BY <1>2, <1>3, <1>4, <1>5
<1> QED
  BY <1>1, <1>4, <1>5, <1>6 DEF OwnCommands

\* A sound step runs a command of its own, or of its own layer, or an action.
LEMMA StepRunsItsOwn ==
  ASSUME NEW wf, NEW git, IsList(git), NEW i \in DOMAIN wf.steps,
         ~StepFault(wf, git, wf.steps[i]), NEW step, step = RenderStep(wf, git, wf.steps[i])
  PROVE  step[1] = "run" => step[2] \in OwnCommands(wf, git) \ {Nothing}
<1> DEFINE s == wf.steps[i]
<1>1. CASE s.uses # Nothing
  BY <1>1 DEF RenderStep
<1>2. CASE s.uses = Nothing
  <2>1. step[2] = Argv(wf, git, s)
    BY <1>2 DEF RenderStep
  <2>2. CASE s.use_git = Nothing
    <3>1. s.command # Nothing /\ s.command \in OwnCommands(wf, git)
      BY <1>2, <2>2 DEF StepFault, OwnCommands
    <3>2. Argv(wf, git, s) = s.command
      BY <2>2 DEF Argv
    <3> QED
      BY <2>1, <3>1, <3>2
  <2>3. CASE s.use_git # Nothing
    <3>1. ~ReuseFault(wf, git, s.use_git)
      BY <1>2, <2>3 DEF StepFault
    <3>2. Argv(wf, git, s) = Reused(wf, git, s.use_git).command
      BY <2>3, <3>1, ReusedIsOwn DEF Argv
    <3> QED
      BY <2>1, <3>1, <3>2, ReusedIsOwn
  <2> QED
    BY <2>2, <2>3
<1> QED
  BY <1>1, <1>2

LEMMA SoundRunsItsOwn ==
  ASSUME NEW wf, NEW git, IsList(git), ~Problems(wf, git)
  PROVE  RunsItsOwn(wf, git)
<1> SUFFICES ASSUME NEW i \in DOMAIN wf.steps
             PROVE  LET step == Render(wf, git).steps[i]
                    IN step[1] = "run" => step[2] \in OwnCommands(wf, git) \ {Nothing}
  BY DEF RunsItsOwn
<1>1. ~StepFault(wf, git, wf.steps[i])
  BY DEF Problems
<1>2. Render(wf, git).steps[i] = RenderStep(wf, git, wf.steps[i])
  BY DEF Render
<1> QED
  BY <1>1, <1>2, StepRunsItsOwn

-----------------------------------------------------------------------------
(* What an install writes.                                                 *)

\* The declaration that is written last of those with a name.
Last(wfs, n) ==
  CHOOSE i \in DOMAIN wfs : wfs[i].name = n /\ \A j \in DOMAIN wfs : wfs[j].name = n => j <= i

LEMMA LastParts ==
  ASSUME NEW wfs, IsList(wfs), NEW n \in Declared(wfs)
  PROVE  Last(wfs, n) \in DOMAIN wfs /\ wfs[Last(wfs, n)].name = n
<1> DEFINE S == {i \in DOMAIN wfs : wfs[i].name = n}
<1>1. Len(wfs) \in Nat /\ S \in SUBSET (1..Len(wfs)) /\ S # {}
  BY DEF IsList, Declared
<1>2. PICK i \in S : \A j \in S : j <= i
  BY <1>1, GreatestThereIs
<1>3. \E k \in DOMAIN wfs : wfs[k].name = n /\ \A j \in DOMAIN wfs : wfs[j].name = n => j <= k
  BY <1>2
<1> QED
  BY <1>3 DEF Last

\* Each name's last declaration is written, and nothing else.
Through(once, tree, wfs, git) ==
  /\ DOMAIN once = DOMAIN tree \cup Declared(wfs)
  /\ once = [n \in DOMAIN once |-> once[n]]
  /\ \A n \in Declared(wfs) : once[n] = Render(wfs[Last(wfs, n)], git)
  /\ \A n \in DOMAIN tree \ Declared(wfs) : once[n] = tree[n]

LEMMA WrittenParts ==
  ASSUME NEW tree, NEW wfs, IsList(wfs), NEW git
  PROVE  Through(Written(tree, wfs, git, Len(wfs), FALSE), tree, wfs, git)
<1> DEFINE once == Written(tree, wfs, git, Len(wfs), FALSE)
           begun == (1..(IF FALSE THEN Len(wfs) + 1 ELSE Len(wfs))) \cap DOMAIN wfs
           last(n) == CHOOSE i \in begun :
                        wfs[i].name = n /\ \A j \in begun : wfs[j].name = n => j <= i
<1>1. once = [n \in DOMAIN tree \cup {wfs[i].name : i \in begun} |->
                IF \A i \in begun : wfs[i].name # n THEN tree[n]
                ELSE IF last(n) = Len(wfs) + 1 THEN Torn ELSE Render(wfs[last(n)], git)]
  BY DEF Written
<1>2. begun = DOMAIN wfs
  BY DEF IsList
<1>3. \A n : last(n) = Last(wfs, n)
  BY <1>2 DEF Last
<1> HIDE DEF last, begun
<1>4. DOMAIN once = DOMAIN tree \cup Declared(wfs)
  BY <1>1, <1>2 DEF Declared
<1>5. ASSUME NEW n \in Declared(wfs) PROVE once[n] = Render(wfs[Last(wfs, n)], git)
  <2>1. Last(wfs, n) # Len(wfs) + 1
    BY LastParts DEF IsList
  <2>2. \E i \in begun : wfs[i].name = n
    BY <1>2 DEF Declared
  <2>3. n \in {wfs[i].name : i \in begun}
    BY <2>2
  <2> QED
    BY <1>1, <1>3, <2>1, <2>2, <2>3
<1>6. ASSUME NEW n \in DOMAIN tree \ Declared(wfs) PROVE once[n] = tree[n]
  <2>1. \A i \in begun : wfs[i].name # n
    BY <1>2 DEF Declared
  <2> QED
    BY <1>1, <2>1
<1>7. once = [n \in DOMAIN once |-> once[n]]
  BY <1>1
<1> HIDE DEF once
<1>8. Through(once, tree, wfs, git)
  BY <1>4, <1>5, <1>6, <1>7 DEF Through
<1> QED
  BY <1>8 DEF once

\* A run that died has touched declared names only.
LEMMA DiedParts ==
  ASSUME NEW tree, NEW wfs, NEW git, NEW k, NEW torn
  PROVE  LET died == Written(tree, wfs, git, k, torn)
         IN  /\ DOMAIN tree \subseteq DOMAIN died
             /\ DOMAIN died \subseteq DOMAIN tree \cup Declared(wfs)
             /\ \A n \in DOMAIN tree \ Declared(wfs) : died[n] = tree[n]
<1> DEFINE died == Written(tree, wfs, git, k, torn)
           begun == (1..(IF torn THEN k + 1 ELSE k)) \cap DOMAIN wfs
           last(n) == CHOOSE i \in begun :
                        wfs[i].name = n /\ \A j \in begun : wfs[j].name = n => j <= i
<1>1. died = [n \in DOMAIN tree \cup {wfs[i].name : i \in begun} |->
                IF \A i \in begun : wfs[i].name # n THEN tree[n]
                ELSE IF last(n) = k + 1 THEN Torn ELSE Render(wfs[last(n)], git)]
  BY DEF Written
<1>2. begun \subseteq DOMAIN wfs
  OBVIOUS
<1> HIDE DEF last, begun
<1>3. DOMAIN died = DOMAIN tree \cup {wfs[i].name : i \in begun}
  BY <1>1
<1>4. {wfs[i].name : i \in begun} \subseteq Declared(wfs)
  BY <1>2 DEF Declared
<1>5. ASSUME NEW n \in DOMAIN tree \ Declared(wfs) PROVE died[n] = tree[n]
  <2>1. \A i \in begun : wfs[i].name # n
    BY <1>2 DEF Declared
  <2> QED
    BY <1>1, <2>1
<1> QED
  BY <1>3, <1>4, <1>5

-----------------------------------------------------------------------------
(* Installs settle.                                                        *)

\* What an install writes rests on the declarations, not on what an earlier one left
\* of the files that carry a declared name.
Mended(tree, wfs, git, k, torn) ==
  Written(Written(tree, wfs, git, k, torn), wfs, git, Len(wfs), FALSE)
    = Written(tree, wfs, git, Len(wfs), FALSE)

LEMMA AgainIsOnce ==
  ASSUME NEW tree, NEW wfs, IsList(wfs), NEW git, NEW k, NEW torn
  PROVE  Mended(tree, wfs, git, k, torn)
<1> DEFINE died == Written(tree, wfs, git, k, torn)
           once == Written(tree, wfs, git, Len(wfs), FALSE)
           again == Written(died, wfs, git, Len(wfs), FALSE)
<1>1. /\ DOMAIN tree \subseteq DOMAIN died
      /\ DOMAIN died \subseteq DOMAIN tree \cup Declared(wfs)
      /\ \A n \in DOMAIN tree \ Declared(wfs) : died[n] = tree[n]
  BY DiedParts
<1>2. Through(once, tree, wfs, git)
  BY WrittenParts
<1> HIDE DEF died
<1>3. Through(again, died, wfs, git)
  BY WrittenParts
<1> HIDE DEF once, again
<1>4. DOMAIN again = DOMAIN once
  BY <1>1, <1>2, <1>3 DEF Through
<1>5. ASSUME NEW n \in DOMAIN once PROVE again[n] = once[n]
  <2>1. CASE n \in Declared(wfs)
    BY <1>2, <1>3, <2>1 DEF Through
  <2>2. CASE n \notin Declared(wfs)
    <3>1. n \in DOMAIN tree \ Declared(wfs) /\ n \in DOMAIN died \ Declared(wfs)
      BY <1>1, <1>2, <2>2 DEF Through
    <3> QED
      BY <1>1, <1>2, <1>3, <3>1 DEF Through
  <2> QED
    BY <2>1, <2>2
<1>6. again = once
  <2>1. again = [n \in DOMAIN again |-> again[n]] /\ once = [n \in DOMAIN once |-> once[n]]
    BY <1>2, <1>3 DEF Through
  <2>2. [n \in DOMAIN once |-> again[n]] = [n \in DOMAIN once |-> once[n]]
    BY <1>5
  <2>3. again = [n \in DOMAIN once |-> again[n]]
    BY <1>4, <2>1, Zenon
  <2> QED
    BY <2>1, <2>2, <2>3, Zenon
<1> QED
  BY <1>6 DEF Mended, died, once, again

\* After a whole run the check finds nothing but what no run can mend.
LEMMA CheckedAfterwards ==
  ASSUME NEW tree, NEW wfs, IsList(wfs), NEW git, ~Refused(wfs, git)
  PROVE  CheckGithub(Written(tree, wfs, git, Len(wfs), FALSE), wfs, git)
           <=> Orphans(tree, wfs) = {} /\ ~Twins(wfs, git)
<1> DEFINE once == Written(tree, wfs, git, Len(wfs), FALSE)
<1>0. Through(once, tree, wfs, git)
  BY WrittenParts
<1> HIDE DEF once
<1>1. /\ DOMAIN once = DOMAIN tree \cup Declared(wfs)
      /\ \A n \in Declared(wfs) : once[n] = Render(wfs[Last(wfs, n)], git)
      /\ \A n \in DOMAIN tree \ Declared(wfs) : once[n] = tree[n]
  BY <1>0 DEF Through
<1>2. Orphans(once, wfs) = Orphans(tree, wfs)
  <2>1. DOMAIN once \ Declared(wfs) = DOMAIN tree \ Declared(wfs)
    BY <1>1
  <2>2. \A n : n \in Orphans(once, wfs) <=> n \in Orphans(tree, wfs)
    BY <1>1, <2>1 DEF Orphans
  <2> QED
    BY <2>2
<1>3. ASSUME NEW i \in DOMAIN wfs
      PROVE  /\ wfs[i].name \in Declared(wfs)
             /\ Last(wfs, wfs[i].name) \in DOMAIN wfs
             /\ wfs[Last(wfs, wfs[i].name)].name = wfs[i].name
             /\ Drift(once, wfs[i], git) = "match"
                  <=> Render(wfs[Last(wfs, wfs[i].name)], git) = Render(wfs[i], git)
  <2>1. wfs[i].name \in Declared(wfs)
    BY DEF Declared
  <2>2. /\ Last(wfs, wfs[i].name) \in DOMAIN wfs
        /\ wfs[Last(wfs, wfs[i].name)].name = wfs[i].name
    BY <2>1, LastParts
  <2>3. wfs[i].name \in DOMAIN once
    BY <1>1, <2>1
  <2>4. once[wfs[i].name] = Render(wfs[Last(wfs, wfs[i].name)], git)
    BY <1>1, <2>1
  <2>5. Drift(once, wfs[i], git) = "match"
          <=> Render(wfs[Last(wfs, wfs[i].name)], git) = Render(wfs[i], git)
    <3>1. CASE once[wfs[i].name] = Render(wfs[i], git)
      BY <2>3, <2>4, <3>1 DEF Drift
    <3>2. CASE once[wfs[i].name] # Render(wfs[i], git)
      <4>1. Drift(once, wfs[i], git) = "differs"
        BY <2>3, <3>2 DEF Drift
      <4> QED
        BY <2>4, <3>2, <4>1
    <3> QED
      BY <3>1, <3>2
  <2> QED
    BY <2>1, <2>2, <2>5
<1>4. ASSUME \A i \in DOMAIN wfs : Drift(once, wfs[i], git) = "match" PROVE ~Twins(wfs, git)
  <2> SUFFICES ASSUME NEW i \in DOMAIN wfs, NEW j \in DOMAIN wfs, wfs[i].name = wfs[j].name
               PROVE  Render(wfs[i], git) = Render(wfs[j], git)
    BY DEF Twins
  <2>1. Render(wfs[Last(wfs, wfs[i].name)], git) = Render(wfs[i], git)
    BY <1>3, <1>4
  <2>2. Render(wfs[Last(wfs, wfs[j].name)], git) = Render(wfs[j], git)
    BY <1>3, <1>4
  <2> QED
    BY <2>1, <2>2
<1>5. ASSUME ~Twins(wfs, git), NEW i \in DOMAIN wfs PROVE Drift(once, wfs[i], git) = "match"
  <2>1. Render(wfs[Last(wfs, wfs[i].name)], git) = Render(wfs[i], git)
    BY <1>3, <1>5 DEF Twins
  <2> QED
    BY <1>3, <2>1
<1>6. CheckGithub(once, wfs, git) <=> Orphans(tree, wfs) = {} /\ ~Twins(wfs, git)
  BY <1>2, <1>4, <1>5 DEF CheckGithub
<1> QED
  BY <1>6 DEF once

\* A checked tree is what a run would write.
LEMMA CheckedIsWritten ==
  ASSUME NEW tree, IsTree(tree), NEW wfs, IsList(wfs), NEW git,
         CheckGithub(tree, wfs, git)
  PROVE  Written(tree, wfs, git, Len(wfs), FALSE) = tree
<1> DEFINE once == Written(tree, wfs, git, Len(wfs), FALSE)
<1>0. Through(once, tree, wfs, git)
  BY WrittenParts
<1> HIDE DEF once
<1>1. /\ DOMAIN once = DOMAIN tree \cup Declared(wfs)
      /\ once = [n \in DOMAIN once |-> once[n]]
      /\ \A n \in Declared(wfs) : once[n] = Render(wfs[Last(wfs, n)], git)
      /\ \A n \in DOMAIN tree \ Declared(wfs) : once[n] = tree[n]
  BY <1>0 DEF Through
<1>2. ASSUME NEW i \in DOMAIN wfs
      PROVE  wfs[i].name \in DOMAIN tree /\ tree[wfs[i].name] = Render(wfs[i], git)
  <2>1. Drift(tree, wfs[i], git) = "match"
    BY DEF CheckGithub
  <2>2. wfs[i].name \in DOMAIN tree
    BY <2>1 DEF Drift
  <2>3. tree[wfs[i].name] = Render(wfs[i], git)
    BY <2>1, <2>2 DEF Drift
  <2> QED
    BY <2>2, <2>3
<1>3. Declared(wfs) \subseteq DOMAIN tree
  BY <1>2 DEF Declared
<1>4. ASSUME NEW n \in DOMAIN once PROVE once[n] = tree[n]
  <2>1. CASE n \in Declared(wfs)
    <3>1. Last(wfs, n) \in DOMAIN wfs /\ wfs[Last(wfs, n)].name = n
      BY <2>1, LastParts
    <3> QED
      BY <1>1, <1>2, <2>1, <3>1
  <2>2. CASE n \notin Declared(wfs)
    BY <1>1, <2>2
  <2> QED
    BY <2>1, <2>2
<1>5. DOMAIN once = DOMAIN tree
  BY <1>1, <1>3
<1>6. once = tree
  <2>1. tree = [n \in DOMAIN tree |-> tree[n]]
    BY DEF IsTree
  <2> QED
    BY <1>1, <1>4, <1>5, <2>1
<1> QED
  BY <1>6 DEF once

\* `gaff init --github`, dying after any number of files, in the middle of one or not:
\* run again it leaves what one whole run leaves; no file of another name is touched;
\* `gaff check --github` then finds orphans and twins and nothing else; every workflow runs
\* commands of its own layer; and a checked tree is left as it is (run_init_github,
\* check_github, render).
THEOREM InstallsSettle ==
  ASSUME NEW wfs, IsList(wfs), NEW git, IsList(git),
         NEW tree, IsTree(tree), NEW k, NEW torn
  PROVE  Settles(wfs, git, tree, k, torn)
<1> DEFINE died == InitGithub(tree, wfs, git, k, torn)
           once == InitGithub(tree, wfs, git, Len(wfs), FALSE)
           again == InitGithub(died, wfs, git, Len(wfs), FALSE)
           long == \E i \in DOMAIN wfs : wfs[i].long
           writes == ~Refused(wfs, git) /\ ~long
<1>1. CASE ~writes
  <2>1. died = tree /\ once = tree /\ again = died
    BY <1>1 DEF InitGithub
  <2>2. ~Refused(wfs, git) => \A i \in DOMAIN wfs : RunsItsOwn(wfs[i], git)
    BY SoundRunsItsOwn DEF Refused
  <2> QED
    BY <1>1, <2>1, <2>2 DEF Settles
<1>2. CASE writes
  <2>1. /\ died = Written(tree, wfs, git, k, torn)
        /\ once = Written(tree, wfs, git, Len(wfs), FALSE)
        /\ again = Written(died, wfs, git, Len(wfs), FALSE)
    BY <1>2 DEF InitGithub
  <2>2. again = once
    <3>1. Mended(tree, wfs, git, k, torn)
      BY AgainIsOnce
    <3>2. Written(Written(tree, wfs, git, k, torn), wfs, git, Len(wfs), FALSE)
            = Written(tree, wfs, git, Len(wfs), FALSE)
      BY <3>1 DEF Mended
    <3> HIDE DEF died, once, again
    <3> QED
      BY <2>1, <3>2
  <2>3. \A n \in DOMAIN tree \ Declared(wfs) : n \in DOMAIN died /\ died[n] = tree[n]
    BY <2>1, DiedParts
  <2>4. CheckGithub(once, wfs, git) <=> Orphans(tree, wfs) = {} /\ ~Twins(wfs, git)
    BY <1>2, <2>1, CheckedAfterwards
  <2>5. \A i \in DOMAIN wfs : RunsItsOwn(wfs[i], git)
    BY <1>2, SoundRunsItsOwn DEF Refused
  <2>6. CheckGithub(tree, wfs, git) => once = tree
    BY <2>1, CheckedIsWritten
  <2> HIDE DEF died, once, again, long
  <2>7. /\ again = once
        /\ \A n \in DOMAIN tree \ Declared(wfs) : n \in DOMAIN died /\ died[n] = tree[n]
        /\ ~Refused(wfs, git) /\ ~long =>
             (CheckGithub(once, wfs, git) <=> Orphans(tree, wfs) = {} /\ ~Twins(wfs, git))
        /\ ~Refused(wfs, git) => \A i \in DOMAIN wfs : RunsItsOwn(wfs[i], git)
        /\ CheckGithub(tree, wfs, git) /\ ~long => once = tree
    BY <2>2, <2>3, <2>4, <2>5, <2>6
  <2> QED
    BY <2>7 DEF Settles, died, once, again, long
<1> QED
  BY <1>1, <1>2

\* No declarations, tree and death there may be are left unsettled.
LEMMA NothingUnsettled == Unsettled = {}
<1>1. ASSUME NEW c \in Configs, NEW tree \in Trees, NEW k, NEW torn
      PROVE  Settles(c[1], c[2], tree, k, torn)
  <2>1. IsList(c[1]) /\ IsList(c[2])
    BY WorkflowsAssumption DEF IsList
  <2>2. IsTree(tree)
    BY WorkflowsAssumption DEF IsTree
  <2> QED
    BY <2>1, <2>2, InstallsSettle
<1> QED
  BY <1>1 DEF Unsettled

-----------------------------------------------------------------------------
(* The inductive invariant.                                                *)

\* What a phase has settled for the ones that follow.
Staged ==
  /\ gate.pc = "idle" => ~gate.ci
  /\ gate.pc = "head" => gate.ci /\ (~gate.pull => gate.checkout = gate.meant)
  /\ gate.pc = "refs" => gate.required # NoPolicy

IInv == GateInv /\ Staged

-----------------------------------------------------------------------------
(* The policy a config states.                                             *)

LEMMA MergedPolicy ==
  ASSUME NEW user \in PolicySet, NEW repo \in PolicySet
  PROVE  MergeReviews(user, repo) \in PolicySet
BY DEF MergeReviews, PolicySet

LEMMA LoadedPolicy ==
  ASSUME NEW file, file.kind \in FileKinds, file.cfg.reviews \in PolicySet
  PROVE  /\ Load(file).status \in {"absent", "broken", "ok", "degraded"}
         /\ Load(file).cfg.reviews \in PolicySet
<1>1. ReadConfigFile(file) \in {"none", "error", "text"}
  BY DEF ReadConfigFile, ReadUserConfigFile, FileKinds
<1>2. CASE ReadConfigFile(file) = "none"
  <2>1. Load(file) = [status |-> "absent", cfg |-> EmptyConfig]
    BY <1>2 DEF Load
  <2> QED
    BY <2>1, Empty DEF PolicySet
<1>3. CASE ReadConfigFile(file) = "error"
  <2>1. Load(file) = [status |-> "broken", cfg |-> EmptyConfig]
    BY <1>3 DEF Load
  <2> QED
    BY <2>1, Empty DEF PolicySet
<1>4. CASE ReadConfigFile(file) = "text"
  <2>1. Load(file) = [status |-> IF Current(file.cfg.profiles) = DOMAIN file.cfg.profiles
                                 THEN "ok" ELSE "degraded",
                      cfg |-> RepoConfig(file.cfg)]
    BY <1>4 DEF Load
  <2>2. RepoConfig(file.cfg).reviews = file.cfg.reviews
    BY DEF RepoConfig
  <2> QED
    BY <2>1, <2>2
<1> QED
  BY <1>1, <1>2, <1>3, <1>4

LEMMA LayeredPolicy ==
  ASSUME NEW home,
         NEW user, user.kind \in FileKinds, user.cfg.reviews \in PolicySet,
         NEW repo, repo.kind \in FileKinds, repo.cfg.reviews \in PolicySet
  PROVE  LoadLayered(home, user, repo).cfg.reviews \in PolicySet
<1> DEFINE read == IF home THEN ReadUserConfigFile(user) ELSE "none"
           there == Load(repo)
<1>1. read \in {"none", "error", "text"}
  BY DEF ReadUserConfigFile, FileKinds
<1>2. /\ there.status \in {"absent", "broken", "ok", "degraded"}
      /\ there.cfg.reviews \in PolicySet
  BY LoadedPolicy
<1>3. Alone(user.cfg).reviews \in PolicySet
  <2>1. Alone(user.cfg) = [UserConfig(user.cfg) EXCEPT !.reviews = NoPolicy]
    BY DEF Alone
  <2>2. Alone(user.cfg).reviews = NoPolicy
    BY <2>1 DEF UserConfig
  <2> QED
    BY <2>2 DEF PolicySet
<1>4. OverlaidWith(UserConfig(user.cfg), there.cfg).reviews \in PolicySet
  <2>1. UserConfig(user.cfg).reviews = user.cfg.reviews
    BY DEF UserConfig
  <2>2. OverlaidWith(UserConfig(user.cfg), there.cfg).reviews =
          MergeReviews(UserConfig(user.cfg).reviews, there.cfg.reviews)
    BY DEF OverlaidWith
  <2> QED
    BY <1>2, <2>1, <2>2, MergedPolicy
<1>5. LoadLayered(home, user, repo) =
        CASE read = "error" -> [status |-> "broken", cfg |-> EmptyConfig]
          [] read = "none" -> there
          [] read = "text" ->
               CASE there.status = "absent" -> [status |-> "ok", cfg |-> Alone(user.cfg)]
                 [] there.status = "broken" -> [status |-> "degraded", cfg |-> Alone(user.cfg)]
                 [] there.status \in {"ok", "degraded"} ->
                      [status |-> "ok", cfg |-> OverlaidWith(UserConfig(user.cfg), there.cfg)]
  BY DEF LoadLayered
<1> HIDE DEF read, there
<1>6. CASE read = "error"
  BY <1>5, <1>6, Empty DEF PolicySet
<1>7. CASE read = "none"
  BY <1>2, <1>5, <1>7
<1>8. CASE read = "text"
  <2>1. CASE there.status = "absent"
    BY <1>3, <1>5, <1>8, <2>1
  <2>2. CASE there.status = "broken"
    BY <1>3, <1>5, <1>8, <2>2
  <2>3. CASE there.status \in {"ok", "degraded"}
    BY <1>4, <1>5, <1>8, <2>3
  <2> QED
    BY <1>2, <2>1, <2>2, <2>3
<1> QED
  BY <1>1, <1>6, <1>7, <1>8

-----------------------------------------------------------------------------
(* The rule.                                                               *)

\* With one line of a review, that line decides.
LEMMA OneLineDecides ==
  ASSUME NEW note, NEW r, NEW c, NEW line \in Mine(note, r),
         \A other \in Mine(note, r) : other = line
  PROVE  ReviewFault(note, r, c) = Fault(line, c)
<1>1. (CHOOSE x \in Mine(note, r) : TRUE) = line
  OBVIOUS
<1> QED
  BY <1>1 DEF ReviewFault

\* A review is in order exactly when its one line passes, names the commit and gives
\* evidence.
LEMMA InOrder ==
  ASSUME NEW note, NEW r, NEW c \in Commits
  PROVE  ReviewFault(note, r, c) = "none" <=>
           \E line \in note : /\ line.review = r /\ line.passed /\ line.names = c /\ line.enough
                              /\ \A other \in note : other.review = r => other = line
<1>1. ASSUME ReviewFault(note, r, c) = "none"
      PROVE  \E line \in note :
               /\ line.review = r /\ line.passed /\ line.names = c /\ line.enough
               /\ \A other \in note : other.review = r => other = line
  <2>1. Mine(note, r) # {} /\ \A x, y \in Mine(note, r) : x = y
    BY <1>1 DEF ReviewFault
  <2>2. PICK line \in Mine(note, r) : \A other \in Mine(note, r) : other = line
    BY <2>1
  <2>3. Fault(line, c) = "none"
    BY <1>1, <2>2, OneLineDecides
  <2>4. line.passed /\ line.names = c /\ line.enough
    BY <2>3 DEF Fault
  <2> QED
    BY <2>2, <2>4 DEF Mine
<1>2. ASSUME NEW line \in note,
             line.review = r, line.passed, line.names = c, line.enough,
             \A other \in note : other.review = r => other = line
      PROVE  ReviewFault(note, r, c) = "none"
  <2>1. line \in Mine(note, r) /\ \A other \in Mine(note, r) : other = line
    BY <1>2 DEF Mine
  <2>2. Fault(line, c) = "none"
    BY <1>2, ReviewAssumption DEF Fault
  <2> QED
    BY <2>1, <2>2, OneLineDecides
<1> QED
  BY <1>1, <1>2

LEMMA ShortfallParts ==
  ASSUME NEW note, NEW required, NEW c, required # {}, note # NoNote
  PROVE  Shortfall(note, required, c) = {} <=>
           /\ \A r \in required : ReviewFault(note, r, c) = "none"
           /\ \A line \in note : line.passed \/ line.review \in required
<1> DEFINE A == {f \in {<<r, ReviewFault(note, r, c)>> : r \in required} : f[2] # "none"}
           B == {<<line.review, "failed">> :
                   line \in {l \in note : ~l.passed /\ l.review \notin required}}
<1>1. Shortfall(note, required, c) = A \cup B
  BY DEF Shortfall
<1>2. A = {} <=> \A r \in required : ReviewFault(note, r, c) = "none"
  <2>1. \A r \in required : <<r, ReviewFault(note, r, c)>>[2] = ReviewFault(note, r, c)
    OBVIOUS
  <2>2. ASSUME A = {}, NEW r \in required
        PROVE  ReviewFault(note, r, c) = "none"
    BY <2>1, <2>2
  <2>3. ASSUME \A r \in required : ReviewFault(note, r, c) = "none"
        PROVE  A = {}
    BY <2>1, <2>3
  <2> QED
    BY <2>2, <2>3
<1>3. B = {} <=> \A line \in note : line.passed \/ line.review \in required
  OBVIOUS
<1> HIDE DEF A, B
<1> QED
  BY <1>1, <1>2, <1>3

\* No shortfall is exactly what a reviewer would call approved.
LEMMA ShortfallExact ==
  ASSUME NEW note, NEW required, NEW c \in Commits
  PROVE  Shortfall(note, required, c) = {} <=> required = {} \/ Approved(note, required, c)
<1>1. CASE required = {}
  BY <1>1 DEF Shortfall
<1>2. CASE required # {} /\ note = NoNote
  BY <1>2 DEF Shortfall, Approved
<1>3. CASE required # {} /\ note # NoNote
  <2>1. Shortfall(note, required, c) = {} <=>
           /\ \A r \in required : ReviewFault(note, r, c) = "none"
           /\ \A line \in note : line.passed \/ line.review \in required
    BY <1>3, ShortfallParts
  <2>2. \A r \in required : ReviewFault(note, r, c) = "none" <=>
           \E line \in note : /\ line.review = r /\ line.passed /\ line.names = c /\ line.enough
                              /\ \A other \in note : other.review = r => other = line
    BY InOrder
  <2>3. ASSUME \A r \in required : ReviewFault(note, r, c) = "none",
               \A line \in note : line.passed \/ line.review \in required
        PROVE  Approved(note, required, c)
    <3>1. ASSUME NEW line \in note
          PROVE  line.passed
      BY <2>2, <2>3, <3>1
    <3> QED
      BY <1>3, <2>2, <2>3, <3>1 DEF Approved
  <2>4. ASSUME Approved(note, required, c)
        PROVE  /\ \A r \in required : ReviewFault(note, r, c) = "none"
               /\ \A line \in note : line.passed \/ line.review \in required
    BY <2>2, <2>4 DEF Approved
  <2> QED
    BY <1>3, <2>1, <2>3, <2>4
<1> QED
  BY <1>1, <1>2, <1>3

-----------------------------------------------------------------------------
(* Reviewers and notes.                                                    *)

LEMMA InitOK == Init => IInv
<1> SUFFICES ASSUME Init
             PROVE  IInv
  OBVIOUS
<1>1. head \in Commits /\ clone \in Repos /\ passed = {}
  BY DEF Init
<1>2. acts \in [Acts -> ActStates]
  <2>1. (CHOOSE r \in Reviews : TRUE) \in Reviews
    BY ReviewAssumption
  <2> QED
    BY <2>1, ReviewAssumption DEF Init, ActStates
<1>3. notes = [c \in Commits |-> NoNote]
  BY DEF Init
<1>4. notes \in [Commits -> NoteBodies]
  BY <1>3 DEF NoteBodies
<1>5. gate = [pc |-> "idle", ci |-> FALSE, checkout |-> Merge, pull |-> FALSE, named |-> TRUE,
              meant |-> Merge, refs |-> {}, got |-> {}, short |-> FALSE, required |-> NoPolicy,
              todo |-> {}, bad |-> FALSE]
  BY DEF Init
<1>6. gate \in Gates
  <2>1. NoPolicy \in PolicySet
    BY DEF PolicySet
  <2> QED
    BY <1>5, <2>1, ReviewAssumption DEF Gates
<1>7. gate.pc = "idle" /\ ~gate.ci /\ gate.got \subseteq gate.refs
  BY <1>5
<1> QED
  BY <1>1, <1>2, <1>3, <1>4, <1>6, <1>7
  DEF IInv, GateInv, TypeOK, LinesHonest, CheckedSoFar, Staged

\* What was read stays read.
LEMMA ReadStays ==
  ASSUME IInv, NEW n \in Acts, NEW a \in ActStates, acts' = [acts EXCEPT ![n] = a],
         acts[n].st = "idle" \/ (/\ a.st # "idle" /\ a.commit = acts[n].commit
                                 /\ a.review = acts[n].review /\ a.passed = acts[n].passed),
         NEW c, NEW r, Read(c, r)
  PROVE  Read(c, r)'
<1>1. acts \in [Acts -> ActStates]
  BY DEF IInv, GateInv, TypeOK
<1>2. PICK k \in Acts : /\ acts[k].st # "idle" /\ acts[k].commit = c
                        /\ acts[k].review = r /\ acts[k].passed
  BY DEF Read
<1>3. CASE k = n
  BY <1>1, <1>2, <1>3 DEF Read
<1>4. CASE k # n
  BY <1>1, <1>2, <1>4 DEF Read
<1> QED
  BY <1>3, <1>4

\* Reviewers and notes do not touch the gate.
LEMMA GateUntouched ==
  ASSUME IInv, Open, gate' = gate, passed' = passed, clone' = clone,
         head' \in Commits, acts' \in [Acts -> ActStates], notes' \in [Commits -> NoteBodies],
         \A c, r : Read(c, r) => Read(c, r)', LinesHonest'
  PROVE  IInv'
<1>1. TypeOK'
  BY DEF IInv, GateInv, TypeOK
<1>2. \A c : ReadsAll(c) => ReadsAll(c)'
  BY DEF ReadsAll
<1>3. CheckedSoFar'
  BY <1>2 DEF IInv, GateInv, CheckedSoFar
<1>4. Staged'
  BY DEF IInv, Staged
<1> QED
  BY <1>1, <1>3, <1>4 DEF IInv, GateInv

LEMMA ReadsKeeps ==
  ASSUME IInv, NEW n \in Acts, Reads(n)
  PROVE  IInv'
<1>1. TypeOK /\ LinesHonest
  BY DEF IInv, GateInv
<1>2. PICK r \in Reviews, c \in Commits \ {Merge}, ok \in BOOLEAN :
        acts' = [acts EXCEPT ![n] = [st |-> "read", review |-> r, commit |-> c, passed |-> ok]]
  BY DEF Reads
<1> DEFINE a == [st |-> "read", review |-> r, commit |-> c, passed |-> ok]
<1>3. a \in ActStates
  BY DEF ActStates
<1>4. Open /\ acts[n].st = "idle" /\ gate' = gate /\ passed' = passed /\ clone' = clone
      /\ head' = head /\ notes' = notes
  BY DEF Reads
<1>5. acts' = [acts EXCEPT ![n] = a]
  BY <1>2
<1>6. acts' \in [Acts -> ActStates]
  BY <1>1, <1>3, <1>5 DEF TypeOK
<1> HIDE DEF a
<1>7. \A d, s : Read(d, s) => Read(d, s)'
  BY <1>3, <1>4, <1>5, ReadStays
<1>8. LinesHonest'
  BY <1>1, <1>4, <1>7 DEF LinesHonest
<1> QED
  BY <1>1, <1>4, <1>6, <1>7, <1>8, GateUntouched DEF TypeOK

LEMMA SignsKeeps ==
  ASSUME IInv, NEW n \in Acts, Signs(n)
  PROVE  IInv'
<1>1. TypeOK /\ LinesHonest
  BY DEF IInv, GateInv
<1>2. acts[n] \in ActStates /\ acts[n].st = "read"
  BY <1>1 DEF Signs, TypeOK
<1>3. PICK c \in {acts[n].commit, head}, replace \in BOOLEAN,
           q \in {<<acts[n].commit, TRUE>>, <<acts[n].commit, FALSE>>, <<Unnamed, TRUE>>} :
        notes' = [notes EXCEPT ![c] = (IF replace THEN {} ELSE Body(c)) \cup
                   {[act |-> n, review |-> acts[n].review, passed |-> acts[n].passed,
                     names |-> q[1], enough |-> q[2]]}]
  BY DEF Signs
<1> DEFINE line == [act |-> n, review |-> acts[n].review, passed |-> acts[n].passed,
                    names |-> q[1], enough |-> q[2]]
           body == (IF replace THEN {} ELSE Body(c)) \cup {line}
<1>4. q[1] \in {acts[n].commit, Unnamed} /\ q[2] \in BOOLEAN
  <2>1. CASE q = <<acts[n].commit, TRUE>>
    BY <2>1
  <2>2. CASE q = <<acts[n].commit, FALSE>>
    BY <2>2
  <2>3. CASE q = <<Unnamed, TRUE>>
    BY <2>3
  <2> QED
    BY <2>1, <2>2, <2>3
<1>5. c \in Commits
  BY <1>1, <1>2 DEF TypeOK, ActStates
<1>6. line \in Lines
  BY <1>2, <1>4 DEF ActStates, Lines
<1>7. line.review = acts[n].review /\ line.passed = acts[n].passed /\ line.names = q[1]
  OBVIOUS
<1>8. notes' = [notes EXCEPT ![c] = body]
  BY <1>3
<1> HIDE DEF line
<1>9. Body(c) \in SUBSET Lines /\ \A x \in Body(c) : notes[c] # NoNote /\ x \in notes[c]
  BY <1>1, <1>5 DEF Body, TypeOK, NoteBodies
<1>10. body \in SUBSET Lines
  BY <1>6, <1>9
<1>11. notes' \in [Commits -> NoteBodies]
  BY <1>1, <1>8, <1>10 DEF TypeOK, NoteBodies
<1>12. acts' = [acts EXCEPT ![n] = [acts[n] EXCEPT !.st = "written"]]
  BY DEF Signs
<1>13. /\ [acts[n] EXCEPT !.st = "written"] \in ActStates
       /\ [acts[n] EXCEPT !.st = "written"].st = "written"
       /\ [acts[n] EXCEPT !.st = "written"].commit = acts[n].commit
       /\ [acts[n] EXCEPT !.st = "written"].review = acts[n].review
       /\ [acts[n] EXCEPT !.st = "written"].passed = acts[n].passed
  BY <1>2 DEF ActStates
<1>14. acts' \in [Acts -> ActStates]
  BY <1>1, <1>12, <1>13 DEF TypeOK
<1>15. \A d, s : Read(d, s) => Read(d, s)'
  BY <1>12, <1>13, ReadStays
<1>16. line.passed => Read(acts[n].commit, line.review)
  BY <1>2, <1>7 DEF Read
<1>17. ASSUME NEW d \in Commits, notes'[d] # NoNote, NEW x \in notes'[d],
              x.passed, x.names # Unnamed
       PROVE  Read(x.names, x.review)'
  <2>1. CASE d = c /\ x = line
    BY <1>4, <1>7, <1>15, <1>16, <1>17, <2>1
  <2>2. CASE d # c
    <3>1. notes'[d] = notes[d]
      BY <1>1, <1>8, <1>17, <2>2 DEF TypeOK
    <3> QED
      BY <1>1, <1>15, <1>17, <3>1 DEF LinesHonest
  <2>3. CASE d = c /\ x # line
    <3>1. notes'[d] = body
      BY <1>1, <1>5, <1>8, <2>3 DEF TypeOK
    <3>2. x \in Body(c)
      BY <1>17, <2>3, <3>1
    <3> QED
      BY <1>1, <1>5, <1>9, <1>15, <1>17, <3>2 DEF LinesHonest
  <2> QED
    BY <2>1, <2>2, <2>3
<1>18. LinesHonest'
  BY <1>17 DEF LinesHonest
<1>19. Open /\ gate' = gate /\ passed' = passed /\ clone' = clone /\ head' = head
  BY DEF Signs
<1> QED
  BY <1>1, <1>11, <1>14, <1>15, <1>18, <1>19, GateUntouched DEF TypeOK

\* A note that moves, or one that says nothing, brings no sign-off of its own.
LEMMA NotesMoved ==
  ASSUME IInv, Open, gate' = gate, passed' = passed, clone' = clone, head' = head, acts' = acts,
         NEW d \in Commits, NEW body \in NoteBodies, notes' = [notes EXCEPT ![d] = body],
         body = {} \/ (\E c \in Commits : notes[c] # NoNote /\ body = notes[c])
  PROVE  IInv'
<1>1. TypeOK /\ LinesHonest
  BY DEF IInv, GateInv
<1>2. notes' \in [Commits -> NoteBodies]
  BY <1>1 DEF TypeOK
<1>3. \A c, r : Read(c, r) => Read(c, r)'
  BY DEF Read
<1>4. ASSUME NEW e \in Commits, notes'[e] # NoNote, NEW x \in notes'[e],
             x.passed, x.names # Unnamed
      PROVE  Read(x.names, x.review)'
  <2>1. CASE e # d
    <3>1. notes'[e] = notes[e]
      BY <1>1, <2>1 DEF TypeOK
    <3> QED
      BY <1>1, <1>3, <1>4, <3>1 DEF LinesHonest
  <2>2. CASE e = d
    <3>1. notes'[e] = body
      BY <1>1, <2>2 DEF TypeOK
    <3>2. PICK c \in Commits : notes[c] # NoNote /\ body = notes[c]
      BY <1>4, <3>1
    <3> QED
      BY <1>1, <1>3, <1>4, <3>1, <3>2 DEF LinesHonest
  <2> QED
    BY <2>1, <2>2
<1>5. LinesHonest'
  BY <1>4 DEF LinesHonest
<1> QED
  BY <1>1, <1>2, <1>3, <1>5, GateUntouched DEF TypeOK

LEMMA RemarksKeeps ==
  ASSUME IInv, NEW c \in Commits, Remarks(c)
  PROVE  IInv'
<1>1. {} \in NoteBodies
  BY DEF NoteBodies
<1> QED
  BY <1>1, NotesMoved DEF Remarks

LEMMA CarriesKeeps ==
  ASSUME IInv, NEW c \in Commits, NEW d \in Commits, Carries(c, d)
  PROVE  IInv'
<1>1. notes[c] \in NoteBodies
  BY DEF IInv, GateInv, TypeOK
<1> QED
  BY <1>1, NotesMoved DEF Carries

LEMMA MovesKeeps ==
  ASSUME IInv, NEW c \in Commits, Moves(c)
  PROVE  IInv'
<1>1. TypeOK /\ LinesHonest
  BY DEF IInv, GateInv
<1>2. Open /\ gate' = gate /\ passed' = passed /\ clone' = clone /\ acts' = acts
      /\ notes' = notes /\ head' \in Commits
  BY DEF Moves
<1>3. \A d, r : Read(d, r) => Read(d, r)'
  BY <1>2 DEF Read
<1>4. LinesHonest'
  BY <1>1, <1>2, <1>3 DEF LinesHonest
<1> QED
  BY <1>1, <1>2, <1>3, <1>4, GateUntouched DEF TypeOK

-----------------------------------------------------------------------------
(* The gate.                                                               *)

\* A step of the gate leaves commits, reviews and notes alone.
LEMMA NotesUntouched ==
  ASSUME IInv, head' = head, clone' = clone, acts' = acts, notes' = notes,
         gate' \in Gates, passed' \subseteq Commits, CheckedSoFar', Staged'
  PROVE  IInv'
<1>1. TypeOK' /\ LinesHonest'
  BY DEF IInv, GateInv, TypeOK, LinesHonest, Read
<1> QED
  BY <1>1 DEF IInv, GateInv

LEMMA PushesKeeps ==
  ASSUME IInv, NEW refs \in Streams, NEW short \in BOOLEAN, NEW got \in SUBSET refs,
         Pushes(refs, got, short)
  PROVE  IInv'
<1>1. gate \in Gates /\ passed = {} /\ ~gate.ci
  BY DEF IInv, GateInv, TypeOK, CheckedSoFar, Staged, Pushes
<1>2. gate' = [gate EXCEPT !.pc = "config", !.refs = refs, !.got = got, !.short = short]
  BY DEF Pushes
<1>3. refs \subseteq Refs
  BY ReviewAssumption
<1>4. gate' \in Gates /\ gate'.pc = "config" /\ gate'.ci = gate.ci
      /\ gate'.refs = refs /\ gate'.got = got
  BY <1>1, <1>2, <1>3 DEF Gates
<1>5. head' = head /\ clone' = clone /\ acts' = acts /\ notes' = notes /\ passed' = passed
  BY DEF Pushes
<1>6. CheckedSoFar' /\ Staged'
  BY <1>1, <1>4, <1>5 DEF CheckedSoFar, Staged
<1> QED
  BY <1>1, <1>4, <1>5, <1>6, NotesUntouched

LEMMA CiStartsKeeps ==
  ASSUME IInv, NEW c \in Commits \ {Merge}, NEW pull \in BOOLEAN, NEW named \in BOOLEAN,
         CiStarts(c, pull, named)
  PROVE  IInv'
<1>1. gate \in Gates /\ passed = {} /\ gate.got \subseteq gate.refs
  BY DEF IInv, GateInv, TypeOK, CheckedSoFar, CiStarts
<1>2. gate' = [gate EXCEPT !.pc = "head", !.ci = TRUE, !.pull = pull, !.named = named,
                           !.meant = c, !.checkout = IF pull THEN Merge ELSE c]
  BY DEF CiStarts
<1>3. gate' \in Gates /\ gate'.pc = "head" /\ gate'.ci = TRUE /\ gate'.pull = pull
      /\ gate'.meant = c /\ gate'.checkout = (IF pull THEN Merge ELSE c)
      /\ gate'.refs = gate.refs /\ gate'.got = gate.got
  BY <1>1, <1>2, ReviewAssumption DEF Gates
<1>4. head' = head /\ clone' = clone /\ acts' = acts /\ notes' = notes /\ passed' = passed
  BY DEF CiStarts
<1>5. CheckedSoFar' /\ Staged'
  BY <1>1, <1>3, <1>4 DEF CheckedSoFar, Staged
<1> QED
  BY <1>1, <1>3, <1>4, <1>5, NotesUntouched

\* A run that refuses lets nothing through.
LEMMA RefusingKeeps ==
  ASSUME IInv, gate.pc # "passed", gate' = [gate EXCEPT !.pc = "refused"],
         head' = head, clone' = clone, acts' = acts, notes' = notes, passed' = passed
  PROVE  IInv'
<1>1. gate \in Gates /\ passed = {} /\ gate.got \subseteq gate.refs
  BY DEF IInv, GateInv, TypeOK, CheckedSoFar
<1>2. gate' \in Gates /\ gate'.pc = "refused" /\ gate'.refs = gate.refs /\ gate'.got = gate.got
  BY <1>1 DEF Gates
<1>3. CheckedSoFar' /\ Staged'
  BY <1>1, <1>2 DEF CheckedSoFar, Staged
<1> QED
  BY <1>1, <1>2, <1>3, NotesUntouched

LEMMA CiHeadKeeps ==
  ASSUME IInv, CiHead
  PROVE  IInv'
<1>1. gate \in Gates /\ passed = {} /\ gate.pc = "head" /\ gate.ci
      /\ (~gate.pull => gate.checkout = gate.meant)
  BY DEF IInv, GateInv, TypeOK, CheckedSoFar, Staged, CiHead
<1>2. head' = head /\ clone' = clone /\ acts' = acts /\ notes' = notes /\ passed' = passed
  BY DEF CiHead
<1>3. CASE gate' = [gate EXCEPT !.pc = "refused"]
  BY <1>1, <1>2, <1>3, RefusingKeeps
<1>4. CASE gate' = [gate EXCEPT !.pc = "config",
                      !.refs = {[commit |-> PushSha(gate), kind |-> "branch"]},
                      !.got = {[commit |-> PushSha(gate), kind |-> "branch"]}]
  <2>1. PushSha(gate) = gate.meant /\ gate.meant \in Commits
    BY <1>1 DEF PushSha, Gates
  <2>2. {[commit |-> PushSha(gate), kind |-> "branch"]} \subseteq Refs
    BY <2>1 DEF Refs
  <2>3. gate' \in Gates /\ gate'.pc = "config" /\ gate'.meant = gate.meant
        /\ gate'.refs = {[commit |-> gate.meant, kind |-> "branch"]}
        /\ gate'.got = gate'.refs
    BY <1>1, <1>4, <2>1, <2>2 DEF Gates
  <2>4. CheckedSoFar' /\ Staged'
    BY <1>1, <1>2, <2>3 DEF CheckedSoFar, Staged
  <2> QED
    BY <1>1, <1>2, <2>3, <2>4, NotesUntouched
<1> QED
  BY <1>3, <1>4 DEF CiHead, Goes

LEMMA ReadsConfigKeeps ==
  ASSUME IInv, NEW home \in Homes, ReadsConfig(home)
  PROVE  IInv'
<1> DEFINE file == ConfigOf[clone][IF gate.ci THEN gate.checkout ELSE head]
           loaded == LoadLayered(home, UserFile, file)
<1>1. gate \in Gates /\ passed = {} /\ gate.pc = "config" /\ clone \in Repos /\ head \in Commits
      /\ gate.got \subseteq gate.refs
  BY DEF IInv, GateInv, TypeOK, CheckedSoFar, ReadsConfig
<1>2. head' = head /\ clone' = clone /\ acts' = acts /\ notes' = notes /\ passed' = passed
  BY DEF ReadsConfig
<1>3. (IF gate.ci THEN gate.checkout ELSE head) \in Commits
  BY <1>1 DEF Gates
<1>4. file.kind \in FileKinds /\ file.cfg.reviews \in PolicySet
  BY <1>1, <1>3, ReviewAssumption
<1>5. loaded.cfg.reviews \in PolicySet
  BY <1>4, ReviewAssumption, LayeredPolicy
<1>6. gate' = IF loaded.status # "ok" \/ loaded.cfg.reviews = NoPolicy
              THEN [gate EXCEPT !.pc = "refused"]
              ELSE [gate EXCEPT !.pc = "refs", !.required = loaded.cfg.reviews]
  BY DEF ReadsConfig, Goes
<1> HIDE DEF loaded
<1>7. CASE gate' = [gate EXCEPT !.pc = "refused"]
  BY <1>1, <1>2, <1>7, RefusingKeeps
<1>8. CASE /\ gate' = [gate EXCEPT !.pc = "refs", !.required = loaded.cfg.reviews]
           /\ loaded.cfg.reviews # NoPolicy
  <2>1. gate' \in Gates /\ gate'.pc = "refs" /\ gate'.required = loaded.cfg.reviews
        /\ gate'.ci = gate.ci /\ gate'.refs = gate.refs /\ gate'.got = gate.got
        /\ gate'.meant = gate.meant
    BY <1>1, <1>5, <1>8 DEF Gates
  <2>2. CheckedSoFar' /\ Staged'
    BY <1>1, <1>2, <1>8, <2>1 DEF IInv, GateInv, CheckedSoFar, Staged
  <2> QED
    BY <1>1, <1>2, <2>1, <2>2, NotesUntouched
<1> QED
  BY <1>6, <1>7, <1>8

LEMMA TipsType ==
  ASSUME NEW refs \in SUBSET Refs
  PROVE  Tips(refs) \subseteq Commits
BY DEF Tips, Refs

LEMMA TipOfOne ==
  ASSUME NEW c
  PROVE  Tips({[commit |-> c, kind |-> "branch"]}) = {c}
<1> DEFINE line == [commit |-> c, kind |-> "branch"]
<1>1. line.kind = "branch" /\ line.commit = c
  OBVIOUS
<1> HIDE DEF line
<1>2. {r \in {line} : r.kind = "branch"} = {line}
  BY <1>1
<1>3. Tips({line}) = {c}
  BY <1>1, <1>2 DEF Tips
<1> QED
  BY <1>3 DEF line

LEMMA ReadsRefsKeeps ==
  ASSUME IInv, ReadsRefs
  PROVE  IInv'
<1>1. gate \in Gates /\ passed = {} /\ gate.pc = "refs" /\ gate.required # NoPolicy
  BY DEF IInv, GateInv, TypeOK, CheckedSoFar, Staged, ReadsRefs
<1>2. head' = head /\ clone' = clone /\ acts' = acts /\ notes' = notes /\ passed' = passed
  BY DEF ReadsRefs
<1>3. CASE gate.short
  BY <1>1, <1>2, <1>3, RefusingKeeps DEF ReadsRefs
<1>4. CASE ~gate.short
  <2>1. gate' = [gate EXCEPT !.pc = "check", !.todo = Tips(gate.got)]
    BY <1>4 DEF ReadsRefs
  <2>2. Tips(gate.got) \subseteq Commits
    BY <1>1, TipsType DEF Gates
  <2>3. gate' \in Gates /\ gate'.pc = "check" /\ gate'.todo = Tips(gate.got)
        /\ gate'.refs = gate.refs /\ gate'.got = gate.got
        /\ gate'.required = gate.required /\ (gate'.short <=> gate.short)
        /\ gate'.ci = gate.ci /\ gate'.meant = gate.meant
    BY <1>1, <2>1, <2>2 DEF Gates
  <2>4. CheckedSoFar' /\ Staged'
    BY <1>1, <1>2, <1>4, <2>3 DEF IInv, GateInv, CheckedSoFar, Staged
  <2> QED
    BY <1>1, <1>2, <2>3, <2>4, NotesUntouched
<1> QED
  BY <1>3, <1>4

\* What the check finds in order, a reviewer has read and passed.
LEMMA InOrderWasRead ==
  ASSUME IInv, NEW c \in Commits, Shortfall(notes[c], gate.required, c) = {}
  PROVE  ReadsAll(c)
<1>1. CASE gate.required = {}
  BY <1>1 DEF ReadsAll
<1>2. CASE Approved(notes[c], gate.required, c)
  <2>1. ASSUME NEW r \in gate.required
        PROVE  Read(c, r)
    <3>1. PICK line \in notes[c] : line.review = r /\ line.names = c
      BY <1>2, <2>1 DEF Approved
    <3>2. line.passed /\ notes[c] # NoNote /\ c # Unnamed
      BY <1>2, ReviewAssumption DEF Approved
    <3> QED
      BY <3>1, <3>2 DEF IInv, GateInv, LinesHonest
  <2> QED
    BY <2>1 DEF ReadsAll
<1> QED
  BY <1>1, <1>2, ShortfallExact

LEMMA ChecksTipKeeps ==
  ASSUME IInv, NEW c \in Commits, ChecksTip(c)
  PROVE  IInv'
<1> DEFINE short == Shortfall(notes[c], gate.required, c) # {}
<1>1. gate \in Gates /\ passed = {} /\ gate.pc = "check" /\ c \in gate.todo /\ CheckedSoFar
  BY DEF IInv, GateInv, TypeOK, CheckedSoFar, ChecksTip
<1>2. head' = head /\ clone' = clone /\ acts' = acts /\ notes' = notes /\ passed' = passed
  BY DEF ChecksTip
<1>3. gate' = [gate EXCEPT !.todo = gate.todo \ {c}, !.bad = gate.bad \/ short]
  BY DEF ChecksTip
<1>4. (gate.bad \/ short) \in BOOLEAN
  OBVIOUS
<1> HIDE DEF short
<1>5. gate' \in Gates /\ gate'.pc = "check" /\ gate'.todo = gate.todo \ {c}
      /\ gate'.bad = (gate.bad \/ short)
      /\ gate'.refs = gate.refs /\ gate'.got = gate.got
      /\ gate'.required = gate.required /\ (gate'.short <=> gate.short)
      /\ gate'.ci = gate.ci /\ gate'.meant = gate.meant
  BY <1>1, <1>3, <1>4 DEF Gates
<1>6. \A d : ReadsAll(d) => ReadsAll(d)'
  BY <1>2, <1>5 DEF ReadsAll, Read
<1>7. ~short => ReadsAll(c)
  BY InOrderWasRead DEF short
<1>8. ASSUME ~gate'.bad, NEW d \in Tips(gate'.got) \ gate'.todo
      PROVE  ReadsAll(d)'
  <2>1. ~gate.bad /\ ~short
    BY <1>5, <1>8
  <2>2. d = c \/ d \in Tips(gate.got) \ gate.todo
    BY <1>5, <1>8
  <2> QED
    BY <1>1, <1>6, <1>7, <2>1, <2>2 DEF CheckedSoFar
<1>9. CheckedSoFar'
  BY <1>1, <1>2, <1>5, <1>8 DEF CheckedSoFar
<1>10. Staged'
  BY <1>5 DEF Staged
<1> QED
  BY <1>1, <1>2, <1>5, <1>9, <1>10, NotesUntouched

LEMMA DecidesKeeps ==
  ASSUME IInv, Decides
  PROVE  IInv'
<1>1. gate \in Gates /\ passed = {} /\ gate.pc = "check" /\ gate.todo = {} /\ CheckedSoFar
  BY DEF IInv, GateInv, TypeOK, CheckedSoFar, Decides
<1>2. head' = head /\ clone' = clone /\ acts' = acts /\ notes' = notes
      /\ passed' = IF gate.bad THEN {} ELSE IF gate.ci THEN {gate.meant} ELSE Tips(gate.refs)
  BY DEF Decides
<1>3. CASE gate.bad
  <2>1. gate' = [gate EXCEPT !.pc = "refused"] /\ passed' = passed
    BY <1>1, <1>2, <1>3 DEF Decides, Goes
  <2> QED
    BY <1>1, <1>2, <2>1, RefusingKeeps
<1>4. CASE ~gate.bad
  <2>1. gate' = [gate EXCEPT !.pc = "passed"]
    BY <1>4 DEF Decides, Goes
  <2>2. gate' \in Gates /\ gate'.pc = "passed" /\ gate'.todo = gate.todo
        /\ gate'.bad = gate.bad
        /\ gate'.refs = gate.refs /\ gate'.got = gate.got
        /\ gate'.required = gate.required /\ (gate'.short <=> gate.short)
        /\ gate'.ci = gate.ci /\ gate'.meant = gate.meant
    BY <1>1, <2>1 DEF Gates
  <2>3. gate.ci => Tips(gate.refs) = {gate.meant}
    BY <1>1, TipOfOne DEF CheckedSoFar
  <2>4. passed' = Tips(gate.refs)
    BY <1>2, <1>4, <2>3
  <2>5. passed' \subseteq Commits
    BY <1>1, <2>4, TipsType DEF Gates
  <2>6. \A d : ReadsAll(d) => ReadsAll(d)'
    BY <1>2, <2>2 DEF ReadsAll, Read
  <2>7. CheckedSoFar'
    BY <1>1, <1>4, <2>2, <2>4, <2>6 DEF CheckedSoFar
  <2>8. Staged'
    BY <2>2 DEF Staged
  <2> QED
    BY <1>2, <2>2, <2>5, <2>7, <2>8, NotesUntouched
<1> QED
  BY <1>3, <1>4

LEMMA StepKeeps ==
  ASSUME IInv, [Next]_vars
  PROVE  IInv'
<1>1. CASE UNCHANGED vars
  BY <1>1 DEF vars, IInv, GateInv, TypeOK, LinesHonest, CheckedSoFar, Staged, Read, ReadsAll
<1>2. CASE Next
  BY <1>2, ReadsKeeps, SignsKeeps, RemarksKeeps, MovesKeeps, ChecksTipKeeps, CarriesKeeps,
     PushesKeeps, CiStartsKeeps, CiHeadKeeps, ReadsRefsKeeps, DecidesKeeps, ReadsConfigKeeps
  DEF Next
<1> QED
  BY <1>1, <1>2

-----------------------------------------------------------------------------
(* What a caller may rely on.                                              *)

\* Every step of the gate, of a reviewer and of a note keeps it.
THEOREM GateKeepsIInv == Spec => []IInv
<1>1. IInv /\ [Next]_vars => IInv'
  BY StepKeeps
<1> QED
  BY <1>1, InitOK, PTL DEF Spec

\* Of notes, reviewers and one run of the gate: a line tells what its writer found, and
\* what has been let pass so far, of the ref lines that the check got, was read
\* (reviewnote.rs, run_reviews_check).
THEOREM GateInvariant == Spec => []GateInv
<1>1. IInv => GateInv
  BY DEF IInv
<1> QED
  BY <1>1, GateKeepsIInv, PTL

\* No push and no run of CI lets a commit through that was not read and passed, that very
\* commit, for each review its policy requires; and none goes through without a policy
\* (shortfall, ci_head): but for the refs that a cut of the stream at a line's end or in its
\* last field kept from the check, which pass unread.
THEOREM WhatPassesWasRead == Spec => []PassedWasRead
<1>1. IInv => PassedWasRead
  <2> SUFFICES ASSUME IInv, gate.pc = "passed"
               PROVE  /\ gate.required # NoPolicy /\ ~gate.short
                      /\ \A c \in passed \ Unseen : ReadsAll(c)
    BY DEF PassedWasRead
  <2>1. CheckedSoFar
    BY DEF IInv, GateInv
  <2>2. \A c \in passed \ Unseen : c \in Tips(gate.got) \ gate.todo
    BY <2>1 DEF CheckedSoFar, Unseen
  <2> QED
    BY <2>1, <2>2 DEF CheckedSoFar
<1> QED
  BY <1>1, GateKeepsIInv, PTL

\* The gate refuses a tip exactly when its note does not approve it (shortfall).
THEOREM UnapprovedIsRefused == Spec => RefusesUnapproved
<1> DEFINE Exact == \A c \in Commits : ChecksTip(c) =>
                      (gate.bad' <=> gate.bad \/
                         ~(gate.required = {} \/ Approved(notes[c], gate.required, c)))
<1>1. IInv => Exact
  <2> SUFFICES ASSUME IInv, NEW c \in Commits, ChecksTip(c)
               PROVE  gate'.bad <=> gate.bad \/
                        ~(gate.required = {} \/ Approved(notes[c], gate.required, c))
    OBVIOUS
  <2> DEFINE short == Shortfall(notes[c], gate.required, c) # {}
  <2>1. gate \in Gates
    BY DEF IInv, GateInv, TypeOK
  <2>2. gate' = [gate EXCEPT !.todo = gate.todo \ {c}, !.bad = gate.bad \/ short]
    BY DEF ChecksTip
  <2>3. short <=> ~(gate.required = {} \/ Approved(notes[c], gate.required, c))
    BY ShortfallExact
  <2> HIDE DEF short
  <2>4. gate'.bad = (gate.bad \/ short)
    BY <2>1, <2>2 DEF Gates
  <2> QED
    BY <2>3, <2>4
<1>2. IInv /\ [Next]_vars => [Exact]_vars
  BY <1>1
<1> QED
  BY <1>2, GateKeepsIInv, PTL DEF Spec, RefusesUnapproved

\* With any repo in the working directory the user's config keeps its say (load_layered,
\* overlaid_with), whichever of the files that may be there are: but for an entry, or its
\* marker, whose name the bundle of a repo's profile has, and for the marker of an entry of
\* a bundle of the user's.
THEOREM RepoOnlyAdds == Spec => []RepoAddsOnly
<1>1. RepoAddsOnly
  BY NoTrespass DEF RepoAddsOnly
<1> QED
  BY <1>1, PTL

\* For all the declarations, trees and deaths of the instance (run_init_github).
THEOREM WorkflowsAlwaysSettle == Spec => []WorkflowsSettle
<1>1. WorkflowsSettle
  BY NothingUnsettled DEF WorkflowsSettle
<1> QED
  BY <1>1, PTL
=============================================================================
