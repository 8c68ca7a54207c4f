------------------------------- MODULE Guards -------------------------------
(***************************************************************************)
(* Whether a tool call goes through: the PreToolCall path of cli.rs        *)
(* `run_hook`, the allowances of state.rs that `gaff allow` grants, and    *)
(* the profile switches that decide which bundle's guards apply.  Several  *)
(* hooks of one session race.                                              *)
(*                                                                         *)
(* Abstracted: a guard is its name and the set of calls it refuses (the    *)
(* patterns, fields and heredocs of guard.rs); a guard with problems is    *)
(* not in the lists.  Default is the user's `default_profile`.             *)
(***************************************************************************)
EXTENDS Naturals, FiniteSets, Sequences

CONSTANTS Hooks,        \* the hook processes that may run at once
          Calls,        \* the tool calls an agent may make
          Names,        \* guard names, BuiltinName among them
          BuiltinName,  \* "gaff-privileged"
          File,         \* the file a guard's name is cleaned to (`sanitize`)
          Privileged,   \* the calls that run `gaff allow` or `gaff trust`
          UserGuards,   \* the guards of the user's config, in order
          Profiles,     \* every profile the config declares
          UserProfiles, \* those the user declared
          Bundle,       \* the guards of each profile, in order
          Policies,     \* the `transitions` a user may have declared: {} for none,
                        \* {s} for one whose agent_may_set is s
          Default,      \* default_profile, or NoProfile
          NoCall, NoProfile,
          Undeclared,   \* a profile name no config declares
          Situations,   \* the environments a hook may run in
          MaxGrants     \* bound: grants in one file

Guard == [name : Names, calls : SUBSET Calls]
Builtin == [name |-> BuiltinName, calls |-> Privileged]
Named == Profiles \union {NoProfile, Undeclared}

\* GAFF_PROFILE; whether the config parses, the payload names a session, and a state
\* directory resolves.
Situation == [env : Named, config : BOOLEAN, sid : BOOLEAN, store : BOOLEAN]

\* A repo's profile carries no guards.  A guard may have any name, the built-in's
\* too; no other name is cleaned to the built-in's, since `sanitize` puts `_` for
\* what it replaces.
ASSUME GuardsAssumption ==
  /\ BuiltinName \in Names /\ Privileged \subseteq Calls
  /\ UserGuards \in Seq(Guard)
  /\ UserProfiles \subseteq Profiles
  /\ Bundle \in [Profiles -> Seq(Guard)]
  /\ \A p \in Profiles \ UserProfiles : Bundle[p] = <<>>
  /\ \A n \in Names : File[n] = File[BuiltinName] => n = BuiltinName
  /\ \A t \in Policies : t \subseteq SUBSET Profiles /\ Cardinality(t) <= 1
  /\ NoProfile \notin Profiles /\ Undeclared \notin Profiles
  /\ NoProfile # Undeclared /\ NoCall \notin Calls
  /\ Default \in Named
  /\ Situations \subseteq Situation
  /\ MaxGrants \in Nat

VARIABLES allow,    \* the files of allow/
          session,  \* the session's profile file, NoProfile for none
          transitions, \* the policy of the user's config
          hook,     \* what each hook process knows, and where it stands
          granted,  \* history: grants per file
          waivers,  \* history: refusals waived per file
          chosen    \* history: the profiles a person set

vars == <<transitions, allow, session, hook, granted, waivers, chosen>>
history == <<granted, waivers, chosen>>

\* Two names may share a file.
Sanitized(name) == File[name]
Files == {Sanitized(n) : n \in Names}

AgentMaySet == UNION transitions
HasPolicy == transitions # {}

Calm == [env |-> NoProfile, config |-> TRUE, sid |-> TRUE, store |-> TRUE]
Idle == [pc |-> "idle", call |-> NoCall, in |-> Calm, profile |-> NoProfile,
         waived |-> {}, hit |-> BuiltinName]

Init ==
  /\ transitions \in Policies
  /\ allow = {} /\ session = NoProfile
  /\ hook = [h \in Hooks |-> Idle]
  /\ granted = [f \in Files |-> 0] /\ waivers = [f \in Files |-> 0]
  /\ chosen = {}

At(h, pc) == hook[h].pc = pc

-----------------------------------------------------------------------------
(* The guards of a hook.                                                   *)

\* Mutant: the built-in guard comes after the user's.
BaseGuardsBuiltinLast(config) ==
  IF config THEN UserGuards \o <<Builtin>> ELSE <<Builtin>>

\* The built-ins come first, and stand alone when the config is broken.
BaseGuards(config) == IF config THEN <<Builtin>> \o UserGuards ELSE <<Builtin>>

\* A broken config is the default one: it declares no profile.
BundleGuards(h) ==
  IF hook[h].in.config /\ hook[h].profile \in Profiles
    THEN Bundle[hook[h].profile] ELSE <<>>

Refusing(guards, call) == {i \in DOMAIN guards : call \in guards[i].calls}

\* first_refusal: only the first refusing guard counts.
FirstRefusal(guards, call) ==
  guards[CHOOSE i \in Refusing(guards, call) :
           \A j \in Refusing(guards, call) : i <= j].name

\* Mutant: the allowance is looked up and stays.
TakeAllowanceKept(name) == UNCHANGED allow

\* take_allowance: the removal of the file.
TakeAllowance(name) == allow' = allow \ {Sanitized(name)}

\* An allowance is a file of the session, so it needs a session id and a store.
Allowed(h, name) == hook[h].in.sid /\ hook[h].in.store /\ Sanitized(name) \in allow

\* One stage of guards: the call goes on, or is waived, or is refused.
Stage(h, stage, guards, next) ==
  LET call == hook[h].call
      name == FirstRefusal(guards, call)
  IN  \/ /\ Refusing(guards, call) = {}
         /\ hook' = [hook EXCEPT ![h].pc = next]
         /\ UNCHANGED <<allow, waivers>>
      \/ /\ Refusing(guards, call) # {} /\ Allowed(h, name)
         /\ TakeAllowance(name)
         /\ hook' = [hook EXCEPT ![h].pc = next,
                                 ![h].waived = @ \union {<<stage, name>>}]
         /\ waivers' = [waivers EXCEPT ![Sanitized(name)] = @ + 1]
      \/ /\ Refusing(guards, call) # {} /\ ~Allowed(h, name)
         /\ hook' = [hook EXCEPT ![h].pc = "refused", ![h].hit = name]
         /\ UNCHANGED <<allow, waivers>>

-----------------------------------------------------------------------------
(* A hook process.                                                         *)

Arrive(h, call, in) ==
  /\ At(h, "idle")
  /\ hook' = [hook EXCEPT ![h] = [Idle EXCEPT !.pc = "base", !.call = call, !.in = in]]
  /\ UNCHANGED <<transitions, allow, session, history>>

\* Without a store a call that passes here passes through.
BaseStage(h) ==
  /\ At(h, "base")
  /\ Stage(h, "base", BaseGuards(hook[h].in.config),
           IF hook[h].in.store THEN "resolve" ELSE "passed")
  /\ UNCHANGED <<transitions, session, granted, chosen>>

\* A bundle that carries guards is law, and so is one that carries a stop rule;
\* here every law has a guard.
CarriesLaw(p) == p \in UserProfiles /\ Bundle[p] # <<>>

\* Mutant: only a declared policy keeps the variable from a bundle of law.
FromEnvByPolicy(env) ==
  IF HasPolicy /\ env \in Profiles \ AgentMaySet THEN NoProfile ELSE env

FromEnv(env) ==
  IF /\ env \in Profiles \ AgentMaySet
     /\ CarriesLaw(env) \/ HasPolicy
    THEN NoProfile ELSE env

\* .gaff/profile is a repo file, and selects no profile of the user.
FromFile(file) == IF file \in UserProfiles THEN NoProfile ELSE file

FirstNamed(a, b) == IF a # NoProfile THEN a ELSE b

\* resolve_profile: the environment, the session, the repo's file, the default.  Under
\* a broken config whatever name is found names no profile.
Resolve(h, file) ==
  /\ At(h, "resolve")
  /\ LET named == IF hook[h].in.sid THEN session ELSE NoProfile
         found == FirstNamed(FromEnv(hook[h].in.env),
                    FirstNamed(named, FirstNamed(FromFile(file), Default)))
     IN  hook' = [hook EXCEPT ![h].pc = "bundle",
                    ![h].profile = IF hook[h].in.config THEN found ELSE NoProfile]
  /\ UNCHANGED <<transitions, allow, session, history>>

\* Mutant: one allowance lets the call through both stages.
BundleStageSkipped(h) ==
  /\ At(h, "bundle")
  /\ IF hook[h].waived = {}
       THEN Stage(h, "bundle", BundleGuards(h), "passed")
       ELSE /\ hook' = [hook EXCEPT ![h].pc = "passed"]
            /\ UNCHANGED <<allow, waivers>>
  /\ UNCHANGED <<transitions, session, granted, chosen>>

\* bundle_guard_refusal
BundleStage(h) ==
  /\ At(h, "bundle")
  /\ Stage(h, "bundle", BundleGuards(h), "passed")
  /\ UNCHANGED <<transitions, session, granted, chosen>>

\* The refusal was printed, with the remedy when it is not the built-in guard's.
Refused(h) ==
  /\ At(h, "refused")
  /\ hook' = [hook EXCEPT ![h] = Idle]
  /\ UNCHANGED <<transitions, allow, session, history>>

\* The hook exits 0 and the host runs the tool.
Passed(h) ==
  /\ At(h, "passed")
  /\ hook' = [hook EXCEPT ![h] = Idle]
  /\ UNCHANGED <<transitions, allow, session, history>>

-----------------------------------------------------------------------------
(* The user, and the agent's profile switches.                             *)

\* `gaff allow`, which knows the guards of the user's config and rejects the rest.
Known == {UserGuards[i].name : i \in DOMAIN UserGuards}

Allow(name) ==
  /\ name \in Known /\ granted[Sanitized(name)] < MaxGrants
  /\ allow' = allow \union {Sanitized(name)}
  /\ granted' = [granted EXCEPT ![Sanitized(name)] = @ + 1]
  /\ UNCHANGED <<transitions, session, hook, waivers, chosen>>

\* set_profile: a terminal on stdin is a human, and may set any profile.
SetProfile(p, who) ==
  /\ who = "agent" => p \in AgentMaySet
  /\ p # session
  /\ session' = p
  /\ chosen' = IF who = "human" THEN chosen \union {p} ELSE chosen
  /\ UNCHANGED <<transitions, allow, hook, granted, waivers>>

Next ==
  \/ \E h \in Hooks :
       \/ \E call \in Calls, in \in Situations : Arrive(h, call, in)
       \/ BaseStage(h)
       \/ \E file \in Named : Resolve(h, file)
       \/ BundleStage(h)
       \/ Refused(h)
       \/ Passed(h)
  \/ \E name \in Names : Allow(name)
  \/ \E p \in Profiles, who \in {"human", "agent"} : SetProfile(p, who)

Spec == Init /\ [][Next]_vars

-----------------------------------------------------------------------------
Hook == [pc : {"idle", "base", "resolve", "bundle", "passed", "refused"},
         call : Calls \union {NoCall}, in : Situation, profile : Named,
         waived : SUBSET ({"base", "bundle"} \X Names), hit : Names]

TypeOK ==
  /\ transitions \in Policies
  /\ allow \subseteq Files /\ session \in Named
  /\ hook \in [Hooks -> Hook]
  /\ granted \in [Files -> Nat] /\ waivers \in [Files -> Nat]
  /\ chosen \subseteq Profiles

-----------------------------------------------------------------------------
WaivedAt(h, stage) == {n \in Names : <<stage, n>> \in hook[h].waived}
RefusersOf(guards, call) == {guards[i].name : i \in Refusing(guards, call)}

\* No guard of the stage refuses the hook's call, or one that does was waived for it.
Stands(h, stage, guards) ==
  LET refusers == RefusersOf(guards, hook[h].call)
  IN  refusers # {} => refusers \intersect WaivedAt(h, stage) # {}

PastBase(h) == hook[h].pc \in {"resolve", "bundle", "passed"}

\* A call that goes through was refused by no base guard, or one of the guards that
\* refuse it was waived for this very call; the same holds of the bundle whose
\* profile the hook resolved, apart from the base guards.  The two stages of
\* `run_hook`, with other hooks of the session taking the same allowances and the
\* profile changing under them.
GuardsStand ==
  \A h \in Hooks :
    At(h, "passed") =>
      /\ Stands(h, "base", BaseGuards(hook[h].in.config))
      /\ Stands(h, "bundle", BundleGuards(h))

\* One grant of `gaff allow` lets at most one refusal through, whichever of the
\* racing hooks takes it, whichever of the two stages it is taken in, and whichever
\* of the guards whose names share its file it is taken for; and what was not taken
\* is still there.
AllowedOnce ==
  \A f \in Files :
    waivers[f] + (IF f \in allow THEN 1 ELSE 0) <= granted[f]

\* A privileged call that went on had the built-in's own refusal waived, in the name
\* that a guard of the config shares.
OwnWaiver(h) ==
  hook[h].call \in Privileged =>
    BuiltinName \in Known /\ <<"base", BuiltinName>> \in hook[h].waived

\* "No config declares them, and no config removes them": an agent's `gaff allow` or
\* `gaff trust` goes through on no allowance for another guard that refuses the same
\* call, and none of it hangs on the config or the store.  It goes through only where
\* the user's config names a guard like the built-in one and a person ran
\* `gaff allow` for that name, which takes the built-in's refusal of one call.
PrivilegedRefused ==
  \A h \in Hooks : At(h, "passed") => OwnWaiver(h)

\* A bundle that carries guards applies to a hook only when a person set it in this
\* session, or the user gave it to the agent or made it the default: neither
\* GAFF_PROFILE nor .gaff/profile selects it (resolve_profile).
LawIsChosen ==
  \A h \in Hooks :
    CarriesLaw(hook[h].profile) =>
      hook[h].profile \in AgentMaySet \union {Default} \union chosen

\* What the state of the hooks and of the session must be for the above to last: the
\* stages a hook is past stand, the profile of the session came from a person or was
\* given to the agent, and nothing is granted in the built-in's name that no guard
\* of the config has.
GuardsInv ==
  /\ TypeOK
  /\ \A h \in Hooks :
       /\ PastBase(h) => /\ Stands(h, "base", BaseGuards(hook[h].in.config))
                         /\ OwnWaiver(h)
       /\ At(h, "passed") => Stands(h, "bundle", BundleGuards(h))
       /\ hook[h].pc \in {"idle", "base", "resolve"} => hook[h].profile = NoProfile
  /\ AllowedOnce
  /\ LawIsChosen
  /\ session \in {NoProfile} \union AgentMaySet \union chosen
  /\ BuiltinName \notin Known => granted[Sanitized(BuiltinName)] = 0

\* A refusal offers `gaff allow <guard>` for the guard that refused (cli.rs
\* `guard_refusal`), and `gaff allow` accepts that guard.
RemedyWorks ==
  \A h \in Hooks :
    At(h, "refused") /\ hook[h].hit # BuiltinName => hook[h].hit \in Known
=============================================================================
