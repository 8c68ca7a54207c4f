---------------------------- MODULE GuardsProofs ----------------------------
(***************************************************************************)
(* What the two guard stages, the allowances and the profile switches of   *)
(* Guards promise, for every list of guards, bundle, policy and number of  *)
(* racing hooks.                                                           *)
(***************************************************************************)
EXTENDS Guards, WellFoundedInduction, TLAPS

\* A non-empty set of positions has a first one.
LEMMA FirstPosition ==
  ASSUME NEW S \in SUBSET Nat, S # {}
  PROVE  \E i \in S : \A j \in S : i <= j
<1>1. IsWellFoundedOn(OpToRel(<, Nat), Nat)
  BY NatLessThanWellFounded
<1>2. PICK i \in S : \A j \in S : ~(<<j, i>> \in OpToRel(<, Nat))
  BY <1>1, WFMin
<1>3. ASSUME NEW j \in S PROVE i <= j
  <2>1. ~(j < i)
    BY <1>2 DEF OpToRel
  <2> QED
    BY <2>1
<1> QED
  BY <1>3

\* The guard `first_refusal` returns is one of the refusing guards, at the first
\* position that refuses.
LEMMA FirstRefuses ==
  ASSUME NEW guards \in Seq(Guard), NEW call, Refusing(guards, call) # {}
  PROVE  \E i \in Refusing(guards, call) :
           /\ \A j \in Refusing(guards, call) : i <= j
           /\ FirstRefusal(guards, call) = guards[i].name
<1> DEFINE S == Refusing(guards, call)
           First(i) == \A j \in S : i <= j
           k == CHOOSE i \in S : First(i)
<1>1. S \in SUBSET Nat
  BY DEF Refusing
<1>2. \E i \in S : First(i)
  BY <1>1, FirstPosition
<1>3. k \in S /\ First(k)
  BY <1>2
<1>4. FirstRefusal(guards, call) = guards[k].name
  BY DEF FirstRefusal
<1> QED
  BY <1>3, <1>4

\* Guards are named, so the refusal names one of them.
LEMMA FirstNamesRefuser ==
  ASSUME NEW guards \in Seq(Guard), NEW call, Refusing(guards, call) # {}
  PROVE  /\ FirstRefusal(guards, call) \in RefusersOf(guards, call)
         /\ FirstRefusal(guards, call) \in Names
<1>1. PICK i \in Refusing(guards, call) : FirstRefusal(guards, call) = guards[i].name
  BY FirstRefuses
<1>2. guards[i] \in Guard
  BY DEF Refusing
<1> QED
  BY <1>1, <1>2 DEF RefusersOf, Guard

LEMMA BaseGuardsType ==
  ASSUME NEW config \in BOOLEAN
  PROVE  BaseGuards(config) \in Seq(Guard)
<1>1. Builtin \in Guard
  BY GuardsAssumption DEF Builtin, Guard
<1>2. UserGuards \in Seq(Guard)
  BY GuardsAssumption
<1>3. <<Builtin>> \in Seq(Guard)
  BY <1>1
<1> QED
  BY <1>2, <1>3 DEF BaseGuards

\* Every guard's allowance has a file.
LEMMA SanitizedIsFile == \A n \in Names : Sanitized(n) \in Files
BY DEF Files

\* The built-in guard comes first, so a privileged call is always refused in its name.
LEMMA BuiltinRefusesFirst ==
  ASSUME NEW config \in BOOLEAN, NEW call \in Privileged
  PROVE  /\ Refusing(BaseGuards(config), call) # {}
         /\ FirstRefusal(BaseGuards(config), call) = BuiltinName
<1> DEFINE guards == BaseGuards(config)
<1>1. guards \in Seq(Guard)
  BY BaseGuardsType
<1>2. 1 \in DOMAIN guards /\ guards[1] = Builtin
  BY GuardsAssumption DEF BaseGuards
<1>3. 1 \in Refusing(guards, call)
  BY <1>2 DEF Refusing, Builtin
<1>4. PICK i \in Refusing(guards, call) :
        /\ \A j \in Refusing(guards, call) : i <= j
        /\ FirstRefusal(guards, call) = guards[i].name
  BY <1>1, <1>3, FirstRefuses
<1>5. i = 1
  BY <1>3, <1>4, <1>1 DEF Refusing
<1> QED
  BY <1>2, <1>3, <1>4, <1>5 DEF Builtin

LEMMA BundleGuardsType ==
  ASSUME TypeOK, NEW h \in Hooks
  PROVE  BundleGuards(h) \in Seq(Guard)
BY GuardsAssumption DEF BundleGuards

-----------------------------------------------------------------------------
(* One stage of guards.                                                    *)

\* A stage changes its own hook, the allowances and the waivers as the types say.
LEMMA StageTypes ==
  ASSUME TypeOK, NEW h \in Hooks, NEW stage \in {"base", "bundle"},
         NEW guards \in Seq(Guard), NEW next \in {"resolve", "passed"},
         Stage(h, stage, guards, next)
  PROVE  /\ hook' \in [Hooks -> Hook]
         /\ allow' \subseteq Files
         /\ waivers' \in [Files -> Nat]
<1> DEFINE call == hook[h].call
           name == FirstRefusal(guards, call)
<1>0. hook[h] \in Hook
  BY DEF TypeOK
<1>1. CASE Refusing(guards, call) = {}
  <2>1. hook' = [hook EXCEPT ![h] = [hook[h] EXCEPT !.pc = next]]
    BY <1>1 DEF Stage
  <2>2. UNCHANGED <<allow, waivers>>
    BY <1>1 DEF Stage
  <2>3. hook' \in [Hooks -> Hook]
    BY <1>0, <2>1 DEF TypeOK, Hook
  <2> QED
    BY <2>2, <2>3 DEF TypeOK
<1>2. CASE Refusing(guards, call) # {} /\ Allowed(h, name)
  <2>1. name \in Names
    BY <1>2, FirstNamesRefuser
  <2>2. hook' = [hook EXCEPT ![h] = [hook[h] EXCEPT !.pc = next,
                   !.waived = hook[h].waived \union {<<stage, name>>}]]
    BY <1>2 DEF Stage
  <2>3. hook[h].waived \union {<<stage, name>>} \in SUBSET ({"base", "bundle"} \X Names)
    BY <1>0, <2>1 DEF Hook
  <2>4. hook' \in [Hooks -> Hook]
    BY <1>0, <2>2, <2>3 DEF TypeOK, Hook
  <2>5. waivers' = [waivers EXCEPT ![Sanitized(name)] = waivers[Sanitized(name)] + 1]
    BY <1>2 DEF Stage
  <2>6. waivers' \in [Files -> Nat]
    BY <2>1, <2>5, SanitizedIsFile DEF TypeOK
  <2> QED
    BY <1>2, <2>4, <2>6 DEF Stage, TakeAllowance, TypeOK
<1>3. CASE Refusing(guards, call) # {} /\ ~Allowed(h, name)
  <2>1. name \in Names
    BY <1>3, FirstNamesRefuser
  <2>2. hook' = [hook EXCEPT ![h] = [hook[h] EXCEPT !.pc = "refused", !.hit = name]]
    BY <1>3 DEF Stage
  <2>3. UNCHANGED <<allow, waivers>>
    BY <1>3 DEF Stage
  <2>4. hook' \in [Hooks -> Hook]
    BY <1>0, <2>1, <2>2 DEF TypeOK, Hook
  <2> QED
    BY <2>3, <2>4 DEF TypeOK
<1> QED
  BY <1>1, <1>2, <1>3

\* A call that goes on past a stage was refused by none of its guards or was waived
\* there, by an allowance that was present; and the allowance is gone.
LEMMA StageStands ==
  ASSUME TypeOK, NEW h \in Hooks, NEW stage \in {"base", "bundle"},
         NEW guards \in Seq(Guard), NEW next \in {"resolve", "passed"},
         Stage(h, stage, guards, next), granted' = granted
  PROVE  LET call == hook[h].call
             name == FirstRefusal(guards, call)
         IN  /\ \A g \in Hooks : g # h => hook'[g] = hook[g]
             /\ hook'[h].call = call
             /\ hook'[h].in = hook[h].in
             /\ hook'[h].profile = hook[h].profile
             /\ hook'[h].pc \in {next, "refused"}
             /\ hook[h].waived \subseteq hook'[h].waived
             /\ hook'[h].pc = next /\ Refusing(guards, call) # {} =>
                  Sanitized(name) \in allow /\ <<stage, name>> \in hook'[h].waived
             /\ AllowedOnce => AllowedOnce'
<1> DEFINE call == hook[h].call
           name == FirstRefusal(guards, call)
<1>0. hook[h] \in Hook /\ hook \in [Hooks -> Hook]
  BY DEF TypeOK
<1>1. CASE Refusing(guards, call) = {}
  <2>1. hook' = [hook EXCEPT ![h] = [hook[h] EXCEPT !.pc = next]]
    BY <1>1 DEF Stage
  <2>2. UNCHANGED <<allow, waivers>> /\ granted' = granted
    BY <1>1 DEF Stage
  <2>3. AllowedOnce => AllowedOnce'
    BY <2>2 DEF AllowedOnce
  <2> QED
    BY <1>0, <1>1, <2>1, <2>3 DEF Hook
<1>2. CASE Refusing(guards, call) # {} /\ Allowed(h, name)
  <2>1. hook' = [hook EXCEPT ![h] = [hook[h] EXCEPT !.pc = next,
                   !.waived = hook[h].waived \union {<<stage, name>>}]]
    BY <1>2 DEF Stage
  <2>2. name \in Names
    BY <1>2, FirstNamesRefuser
  <2> DEFINE f == Sanitized(name)
  <2>3. allow' = allow \ {f} /\ waivers' = [waivers EXCEPT ![f] = waivers[f] + 1]
    BY <1>2 DEF Stage, TakeAllowance
  <2>4. f \in allow
    BY <1>2 DEF Allowed
  <2>6. f \in Files
    BY <2>2, SanitizedIsFile
  <2> HIDE DEF f
  <2>5. ASSUME AllowedOnce PROVE AllowedOnce'
    <3> SUFFICES ASSUME NEW n \in Files
                 PROVE  waivers'[n] + (IF n \in allow' THEN 1 ELSE 0) <= granted[n]
      BY DEF AllowedOnce
    <3>1. waivers[n] + (IF n \in allow THEN 1 ELSE 0) <= granted[n]
      BY <2>5 DEF AllowedOnce
    <3>2. waivers \in [Files -> Nat] /\ granted[n] \in Nat
      BY DEF TypeOK
    <3> QED
      BY <2>3, <2>4, <2>6, <3>1, <3>2
  <2> QED
    BY <1>0, <2>1, <2>4, <2>5 DEF Hook, f
<1>3. CASE Refusing(guards, call) # {} /\ ~Allowed(h, name)
  <2>1. hook' = [hook EXCEPT ![h] = [hook[h] EXCEPT !.pc = "refused", !.hit = name]]
    BY <1>3 DEF Stage
  <2>2. UNCHANGED <<allow, waivers>>
    BY <1>3 DEF Stage
  <2>3. AllowedOnce => AllowedOnce'
    BY <2>2 DEF AllowedOnce
  <2> QED
    BY <1>0, <2>1, <2>3 DEF Hook
<1> QED
  BY <1>1, <1>2, <1>3

\* What GuardsInv says of one hook.
HookInv(h) ==
  /\ PastBase(h) => /\ Stands(h, "base", BaseGuards(hook[h].in.config))
                    /\ OwnWaiver(h)
  /\ At(h, "passed") => Stands(h, "bundle", BundleGuards(h))
  /\ hook[h].pc \in {"idle", "base", "resolve"} => hook[h].profile = NoProfile
  /\ CarriesLaw(hook[h].profile) =>
       hook[h].profile \in AgentMaySet \union {Default} \union chosen

SessionInv ==
  /\ AllowedOnce
  /\ session \in {NoProfile} \union AgentMaySet \union chosen
  /\ BuiltinName \notin Known => granted[Sanitized(BuiltinName)] = 0

LEMMA InvParts == GuardsInv <=> TypeOK /\ (\A h \in Hooks : HookInv(h)) /\ SessionInv
BY DEF GuardsInv, HookInv, SessionInv, LawIsChosen

LEMMA InvPartsNext ==
  GuardsInv' <=> TypeOK' /\ (\A h \in Hooks : HookInv(h)') /\ SessionInv'
BY DEF GuardsInv, HookInv, SessionInv, LawIsChosen

\* What is known of a hook that did not move lasts, while the policy stays and the
\* profiles a person set only grow.
LEMMA HookStays ==
  ASSUME NEW h \in Hooks, HookInv(h), hook'[h] = hook[h],
         transitions' = transitions, chosen \subseteq chosen'
  PROVE  HookInv(h)'
<1>1. Stands(h, "base", BaseGuards(hook[h].in.config))' <=>
        Stands(h, "base", BaseGuards(hook[h].in.config))
  BY DEF Stands, WaivedAt, BaseGuards, RefusersOf, Refusing
<1>2. Stands(h, "bundle", BundleGuards(h))' <=> Stands(h, "bundle", BundleGuards(h))
  BY DEF Stands, WaivedAt, BundleGuards, RefusersOf, Refusing
<1>3. PastBase(h)' <=> PastBase(h)
  BY DEF PastBase
<1>4. At(h, "passed")' <=> At(h, "passed")
  BY DEF At
<1>5. CarriesLaw(hook[h].profile)' <=> CarriesLaw(hook[h].profile)
  BY DEF CarriesLaw
<1>6. OwnWaiver(h)' <=> OwnWaiver(h)
  BY DEF OwnWaiver
<1> QED
  BY <1>1, <1>2, <1>3, <1>4, <1>5, <1>6 DEF HookInv, AgentMaySet

\* A hook that is not past the base stage, and resolved no profile yet, is fine.
LEMMA HookFresh ==
  ASSUME NEW h \in Hooks, hook'[h].pc \in {"idle", "base"},
         hook'[h].profile = NoProfile
  PROVE  HookInv(h)'
<1>1. ~PastBase(h)' /\ ~At(h, "passed")'
  BY DEF PastBase, At
<1>2. ~CarriesLaw(NoProfile)
  BY GuardsAssumption DEF CarriesLaw
<1> QED
  BY <1>1, <1>2 DEF HookInv, CarriesLaw

-----------------------------------------------------------------------------
\* Every step keeps the types.
LEMMA TypeStep == TypeOK /\ [Next]_vars => TypeOK'
<1> SUFFICES ASSUME TypeOK, [Next]_vars PROVE TypeOK'
  OBVIOUS
<1>1. ASSUME NEW h \in Hooks, NEW call \in Calls, NEW in \in Situations, Arrive(h, call, in)
      PROVE  TypeOK'
  <2>1. [Idle EXCEPT !.pc = "base", !.call = call, !.in = in] \in Hook
    BY GuardsAssumption DEF Idle, Hook, Named
  <2>2. hook' \in [Hooks -> Hook]
    BY <1>1, <2>1 DEF Arrive, TypeOK
  <2> QED
    BY <1>1, <2>2 DEF Arrive, TypeOK, history
<1>2. ASSUME NEW h \in Hooks, BaseStage(h) PROVE TypeOK'
  <2>1. hook[h].in.config \in BOOLEAN
    BY DEF TypeOK, Hook, Situation
  <2>2. BaseGuards(hook[h].in.config) \in Seq(Guard)
    BY <2>1, BaseGuardsType
  <2>3. PICK next \in {"resolve", "passed"} :
          Stage(h, "base", BaseGuards(hook[h].in.config), next)
    BY <1>2 DEF BaseStage
  <2>4. hook' \in [Hooks -> Hook] /\ allow' \subseteq Files /\ waivers' \in [Files -> Nat]
    BY <2>2, <2>3, StageTypes
  <2> QED
    BY <1>2, <2>4 DEF BaseStage, TypeOK
<1>3. ASSUME NEW h \in Hooks, NEW file \in Named, Resolve(h, file) PROVE TypeOK'
  <2>1. hook[h] \in Hook /\ session \in Named
    BY DEF TypeOK
  <2>2. hook[h].in.env \in Named
    BY <2>1 DEF Hook, Situation
  <2> DEFINE named == IF hook[h].in.sid THEN session ELSE NoProfile
             found == FirstNamed(FromEnv(hook[h].in.env),
                        FirstNamed(named, FirstNamed(FromFile(file), Default)))
             p == IF hook[h].in.config THEN found ELSE NoProfile
  <2>a. FromEnv(hook[h].in.env) \in Named /\ FromFile(file) \in Named
    BY <2>2 DEF FromEnv, FromFile, Named
  <2>b. found \in Named
    BY <2>1, <2>a, GuardsAssumption DEF FirstNamed
  <2>c. p \in Named
    BY <2>b DEF Named
  <2>3. hook' = [hook EXCEPT ![h] = [hook[h] EXCEPT !.pc = "bundle", !.profile = p]]
    BY <1>3 DEF Resolve
  <2> HIDE DEF p
  <2>4. hook' \in [Hooks -> Hook]
    BY <2>1, <2>c, <2>3 DEF TypeOK, Hook
  <2> QED
    BY <1>3, <2>4 DEF Resolve, TypeOK, history
<1>4. ASSUME NEW h \in Hooks, BundleStage(h) PROVE TypeOK'
  <2>1. BundleGuards(h) \in Seq(Guard)
    BY BundleGuardsType
  <2>2. Stage(h, "bundle", BundleGuards(h), "passed")
    BY <1>4 DEF BundleStage
  <2>3. hook' \in [Hooks -> Hook] /\ allow' \subseteq Files /\ waivers' \in [Files -> Nat]
    BY <2>1, <2>2, StageTypes
  <2> QED
    BY <1>4, <2>3 DEF BundleStage, TypeOK
<1>5. ASSUME NEW h \in Hooks, Refused(h) \/ Passed(h) PROVE TypeOK'
  <2>1. Idle \in Hook
    BY GuardsAssumption DEF Idle, Calm, Hook, Situation, Named
  <2> QED
    BY <1>5, <2>1 DEF Refused, Passed, TypeOK, history
<1>6. ASSUME NEW name \in Names, Allow(name) PROVE TypeOK'
  <2> DEFINE f == Sanitized(name)
  <2>1. f \in Files
    BY SanitizedIsFile
  <2>2. /\ allow' = allow \union {f} /\ granted' = [granted EXCEPT ![f] = granted[f] + 1]
        /\ UNCHANGED <<transitions, session, hook, waivers, chosen>>
    BY <1>6 DEF Allow
  <2> HIDE DEF f
  <2> QED
    BY <2>1, <2>2 DEF TypeOK
<1>7. ASSUME NEW p \in Profiles, NEW who \in {"human", "agent"}, SetProfile(p, who)
      PROVE  TypeOK'
  BY <1>7 DEF SetProfile, TypeOK, Named
<1>8. CASE UNCHANGED vars
  BY <1>8 DEF vars, TypeOK
<1> QED
  BY <1>1, <1>2, <1>3, <1>4, <1>5, <1>6, <1>7, <1>8 DEF Next

\* Calm hooks and no grant: the types and the invariant hold at the start.
LEMMA InvInit == Init => GuardsInv
<1> SUFFICES ASSUME Init PROVE GuardsInv
  OBVIOUS
<1>1. Idle \in Hook
  BY GuardsAssumption DEF Idle, Calm, Hook, Situation, Named
<1>2. TypeOK
  BY <1>1 DEF Init, TypeOK, Named
<1>3. \A h \in Hooks : HookInv(h)
  BY GuardsAssumption DEF Init, HookInv, PastBase, At, Idle, CarriesLaw
<1>4. SessionInv
  <2>1. \A f \in Files : granted[f] = 0 /\ waivers[f] = 0 /\ f \notin allow
    BY DEF Init
  <2>2. Sanitized(BuiltinName) \in Files
    BY GuardsAssumption, SanitizedIsFile
  <2> QED
    BY <2>1, <2>2 DEF Init, SessionInv, AllowedOnce
<1> QED
  BY <1>2, <1>3, <1>4, InvParts

\* A profile that carries law and that a hook resolves is one the user made the
\* default, gave to the agent, or set.
LEMMA ResolvedLaw ==
  ASSUME TypeOK, SessionInv, NEW h \in Hooks, NEW file \in Named, Resolve(h, file),
         CarriesLaw(hook'[h].profile)
  PROVE  hook'[h].profile \in AgentMaySet \union {Default} \union chosen
<1> DEFINE env == hook[h].in.env
           named == IF hook[h].in.sid THEN session ELSE NoProfile
           found == FirstNamed(FromEnv(env),
                      FirstNamed(named, FirstNamed(FromFile(file), Default)))
           p == IF hook[h].in.config THEN found ELSE NoProfile
<1>1. hook' = [hook EXCEPT ![h] = [hook[h] EXCEPT !.pc = "bundle", !.profile = p]]
  BY DEF Resolve
<1>2. hook[h] \in Hook /\ hook \in [Hooks -> Hook]
  BY DEF TypeOK
<1>3. hook'[h].profile = p
  BY <1>1, <1>2 DEF Hook
<1>4. CarriesLaw(p)
  BY <1>3
<1>5. ~CarriesLaw(NoProfile)
  BY GuardsAssumption DEF CarriesLaw
<1>6. p = found
  BY <1>4, <1>5
<1>7. found \in {FromEnv(env), named, FromFile(file), Default}
  BY DEF FirstNamed
<1>8. CASE found = FromEnv(env)
  <2>1. FromEnv(env) = env \/ FromEnv(env) = NoProfile
    BY DEF FromEnv
  <2>2. FromEnv(env) = env /\ CarriesLaw(env)
    BY <1>4, <1>5, <1>6, <1>8, <2>1
  <2>3. env \in Profiles
    BY <2>2, GuardsAssumption DEF CarriesLaw
  <2>4. env \in AgentMaySet \/ env = NoProfile
    BY <2>2, <2>3 DEF FromEnv
  <2> QED
    BY <1>3, <1>5, <1>6, <1>8, <2>2, <2>4
<1>9. CASE found = named
  <2>1. named \in {NoProfile} \union AgentMaySet \union chosen
    BY DEF SessionInv
  <2> QED
    BY <1>3, <1>4, <1>5, <1>6, <1>9, <2>1
<1>10. CASE found = FromFile(file)
  <2>1. FromFile(file) = NoProfile \/ FromFile(file) \notin UserProfiles
    BY DEF FromFile
  <2> QED
    BY <1>4, <1>5, <1>6, <1>10, <2>1 DEF CarriesLaw
<1>11. CASE found = Default
  BY <1>3, <1>6, <1>11
<1> HIDE DEF p, found, named, env
<1> QED
  BY <1>7, <1>8, <1>9, <1>10, <1>11

\* A hook keeps what is known of a stage it is past when its call and its situation
\* stay and its waivers only grow.
LEMMA StandsStays ==
  ASSUME NEW h \in Hooks, hook'[h].call = hook[h].call, hook'[h].in = hook[h].in,
         hook[h].waived \subseteq hook'[h].waived,
         Stands(h, "base", BaseGuards(hook[h].in.config))
  PROVE  Stands(h, "base", BaseGuards(hook[h].in.config))'
<1> DEFINE refusers == RefusersOf(BaseGuards(hook[h].in.config), hook[h].call)
<1>1. RefusersOf(BaseGuards(hook[h].in.config), hook[h].call)' = refusers
  BY DEF RefusersOf, Refusing, BaseGuards
<1>2. WaivedAt(h, "base") \subseteq WaivedAt(h, "base")'
  BY DEF WaivedAt
<1>3. refusers # {} => refusers \intersect WaivedAt(h, "base") # {}
  BY DEF Stands
<1>4. refusers # {} => refusers \intersect WaivedAt(h, "base")' # {}
  BY <1>2, <1>3
<1> HIDE DEF refusers
<1> QED
  BY <1>1, <1>4 DEF Stands

\* A stage stands once a hook is past it: no guard refused, or the first one that did
\* was waived.
LEMMA StageMakesStand ==
  ASSUME NEW h \in Hooks, NEW stage \in {"base", "bundle"}, NEW guards \in Seq(Guard),
         NEW call, Refusing(guards, call) # {} =>
           <<stage, FirstRefusal(guards, call)>> \in hook'[h].waived
  PROVE  LET refusers == RefusersOf(guards, call)
         IN  refusers # {} => refusers \intersect WaivedAt(h, stage)' # {}
<1> DEFINE name == FirstRefusal(guards, call)
<1> SUFFICES ASSUME RefusersOf(guards, call) # {}
             PROVE  RefusersOf(guards, call) \intersect WaivedAt(h, stage)' # {}
  OBVIOUS
<1>1. Refusing(guards, call) # {}
  BY DEF RefusersOf
<1>2. name \in RefusersOf(guards, call) /\ name \in Names
  BY <1>1, FirstNamesRefuser
<1>3. name \in WaivedAt(h, stage)'
  BY <1>1, <1>2 DEF WaivedAt
<1> QED
  BY <1>2, <1>3

-----------------------------------------------------------------------------
\* An allowance in the built-in's name is one for a guard of the config that has it.
LEMMA BuiltinAllowedIfKnown ==
  ASSUME TypeOK, SessionInv, Sanitized(BuiltinName) \in allow
  PROVE  BuiltinName \in Known
<1> DEFINE f == Sanitized(BuiltinName)
<1>1. f \in Files
  BY GuardsAssumption, SanitizedIsFile
<1>2. waivers[f] + (IF f \in allow THEN 1 ELSE 0) <= granted[f]
  BY <1>1 DEF SessionInv, AllowedOnce
<1>3. waivers[f] \in Nat /\ granted[f] \in Nat
  BY <1>1 DEF TypeOK
<1>4. granted[f] # 0
  BY <1>2, <1>3
<1> QED
  BY <1>4 DEF SessionInv

LEMMA BaseStageKeeps ==
  ASSUME TypeOK, \A g \in Hooks : HookInv(g), SessionInv, NEW h \in Hooks, BaseStage(h)
  PROVE  (\A g \in Hooks : HookInv(g)') /\ SessionInv'
<1> DEFINE guards == BaseGuards(hook[h].in.config)
           call == hook[h].call
           next == IF hook[h].in.store THEN "resolve" ELSE "passed"
           name == FirstRefusal(guards, call)
<1>1. hook[h] \in Hook /\ hook[h].in.config \in BOOLEAN
  BY DEF TypeOK, Hook, Situation
<1>2. guards \in Seq(Guard) /\ next \in {"resolve", "passed"}
  BY <1>1, BaseGuardsType
<1>3. Stage(h, "base", guards, next) /\ granted' = granted
  BY DEF BaseStage
<1>4. UNCHANGED <<transitions, session, chosen>>
  BY DEF BaseStage
<1>5. hook[h].profile = NoProfile
  BY DEF BaseStage, At, HookInv
<1> HIDE DEF guards, next
<1>6. /\ \A g \in Hooks : g # h => hook'[g] = hook[g]
      /\ hook'[h].call = call
      /\ hook'[h].in = hook[h].in
      /\ hook'[h].profile = hook[h].profile
      /\ hook'[h].pc \in {next, "refused"}
      /\ hook'[h].pc = next /\ Refusing(guards, call) # {} =>
           Sanitized(name) \in allow /\ <<"base", name>> \in hook'[h].waived
      /\ AllowedOnce => AllowedOnce'
  BY <1>2, <1>3, StageStands
<1>7. HookInv(h)'
  <2>1. CASE hook'[h].pc = "refused"
    BY <2>1, <1>5, <1>6, GuardsAssumption DEF HookInv, PastBase, At, CarriesLaw
  <2>2. CASE hook'[h].pc = next
    <3>1. Refusing(guards, call) # {} => <<"base", name>> \in hook'[h].waived
      BY <1>6, <2>2
    <3>2. LET refusers == RefusersOf(guards, call)
          IN  refusers # {} => refusers \intersect WaivedAt(h, "base")' # {}
      BY <1>2, <3>1, StageMakesStand
    <3>3. RefusersOf(BaseGuards(hook[h].in.config), hook[h].call)' = RefusersOf(guards, call)
      BY <1>6 DEF RefusersOf, Refusing, BaseGuards, guards
    <3>4. Stands(h, "base", BaseGuards(hook[h].in.config))'
      BY <3>2, <3>3 DEF Stands
    <3>5. OwnWaiver(h)'
      <4> SUFFICES ASSUME call \in Privileged
                   PROVE  BuiltinName \in Known /\ <<"base", BuiltinName>> \in hook'[h].waived
        BY <1>6 DEF OwnWaiver
      <4>1. Refusing(guards, call) # {} /\ name = BuiltinName
        BY <1>1, BuiltinRefusesFirst DEF guards
      <4>2. Sanitized(BuiltinName) \in allow
        BY <1>6, <2>2, <4>1
      <4> QED
        BY <3>1, <4>1, <4>2, BuiltinAllowedIfKnown
    <3>6. Stands(h, "bundle", BundleGuards(h))'
      BY <1>5, <1>6, GuardsAssumption DEF Stands, BundleGuards, RefusersOf, Refusing
    <3>7. ~CarriesLaw(hook[h].profile)'
      BY <1>5, <1>6, GuardsAssumption DEF CarriesLaw
    <3> QED
      BY <1>5, <1>6, <3>4, <3>5, <3>6, <3>7 DEF HookInv
  <2> QED
    BY <1>6, <2>1, <2>2
<1>8. ASSUME NEW g \in Hooks, g # h PROVE HookInv(g)'
  BY <1>4, <1>6, <1>8, HookStays
<1>9. SessionInv'
  BY <1>3, <1>4, <1>6 DEF SessionInv, AgentMaySet
<1> QED
  BY <1>7, <1>8, <1>9

LEMMA BundleStageKeeps ==
  ASSUME TypeOK, \A g \in Hooks : HookInv(g), SessionInv, NEW h \in Hooks, BundleStage(h)
  PROVE  (\A g \in Hooks : HookInv(g)') /\ SessionInv'
<1> DEFINE guards == BundleGuards(h)
           call == hook[h].call
           name == FirstRefusal(guards, call)
<1>1. guards \in Seq(Guard)
  BY BundleGuardsType
<1>2. Stage(h, "bundle", guards, "passed") /\ granted' = granted
  BY DEF BundleStage
<1>3. UNCHANGED <<transitions, session, chosen>>
  BY DEF BundleStage
<1>4. PastBase(h)
  BY DEF BundleStage, At, PastBase
<1> HIDE DEF guards
<1>5. /\ \A g \in Hooks : g # h => hook'[g] = hook[g]
      /\ hook'[h].call = call
      /\ hook'[h].in = hook[h].in
      /\ hook'[h].profile = hook[h].profile
      /\ hook'[h].pc \in {"passed", "refused"}
      /\ hook[h].waived \subseteq hook'[h].waived
      /\ hook'[h].pc = "passed" /\ Refusing(guards, call) # {} =>
           Sanitized(name) \in allow /\ <<"bundle", name>> \in hook'[h].waived
      /\ AllowedOnce => AllowedOnce'
  BY <1>1, <1>2, StageStands
<1>6. Stands(h, "base", BaseGuards(hook[h].in.config))'
  BY <1>4, <1>5, StandsStays DEF HookInv
<1>7. At(h, "passed")' => Stands(h, "bundle", BundleGuards(h))'
  <2> SUFFICES ASSUME hook'[h].pc = "passed" PROVE Stands(h, "bundle", BundleGuards(h))'
    BY DEF At
  <2>1. Refusing(guards, call) # {} => <<"bundle", name>> \in hook'[h].waived
    BY <1>5
  <2>2. LET refusers == RefusersOf(guards, call)
        IN  refusers # {} => refusers \intersect WaivedAt(h, "bundle")' # {}
    BY <1>1, <2>1, StageMakesStand
  <2>3. RefusersOf(BundleGuards(h), hook[h].call)' = RefusersOf(guards, call)
    BY <1>5 DEF RefusersOf, Refusing, BundleGuards, guards
  <2> QED
    BY <2>2, <2>3 DEF Stands
<1>8. CarriesLaw(hook[h].profile)' <=> CarriesLaw(hook[h].profile)
  BY <1>5 DEF CarriesLaw
<1>12. OwnWaiver(h)'
  BY <1>4, <1>5 DEF HookInv, OwnWaiver
<1>9. HookInv(h)'
  BY <1>3, <1>4, <1>5, <1>6, <1>7, <1>8, <1>12 DEF HookInv, AgentMaySet
<1>10. ASSUME NEW g \in Hooks, g # h PROVE HookInv(g)'
  BY <1>3, <1>5, <1>10, HookStays
<1>11. SessionInv'
  BY <1>2, <1>3, <1>5 DEF SessionInv, AgentMaySet
<1> QED
  BY <1>9, <1>10, <1>11

LEMMA ResolveKeeps ==
  ASSUME TypeOK, \A g \in Hooks : HookInv(g), SessionInv,
         NEW h \in Hooks, NEW file \in Named, Resolve(h, file)
  PROVE  (\A g \in Hooks : HookInv(g)') /\ SessionInv'
<1>1. UNCHANGED <<transitions, allow, session, granted, waivers, chosen>>
  BY DEF Resolve, history
<1>2. \E p : hook' = [hook EXCEPT ![h] = [hook[h] EXCEPT !.pc = "bundle", !.profile = p]]
  BY DEF Resolve
<1>3. hook[h] \in Hook /\ hook \in [Hooks -> Hook] /\ PastBase(h)
  BY DEF TypeOK, Resolve, At, PastBase
<1>4. /\ \A g \in Hooks : g # h => hook'[g] = hook[g]
      /\ hook'[h].pc = "bundle"
      /\ hook'[h].call = hook[h].call
      /\ hook'[h].in = hook[h].in
      /\ hook'[h].waived = hook[h].waived
  BY <1>2, <1>3 DEF Hook
<1>5. Stands(h, "base", BaseGuards(hook[h].in.config))'
  BY <1>3, <1>4, StandsStays DEF HookInv
<1>6. CarriesLaw(hook'[h].profile) =>
        hook'[h].profile \in AgentMaySet \union {Default} \union chosen
  BY ResolvedLaw
<1>10. OwnWaiver(h)'
  BY <1>3, <1>4 DEF HookInv, OwnWaiver
<1>7. HookInv(h)'
  BY <1>1, <1>3, <1>4, <1>5, <1>6, <1>10 DEF HookInv, At, AgentMaySet, CarriesLaw
<1>8. ASSUME NEW g \in Hooks, g # h PROVE HookInv(g)'
  BY <1>1, <1>4, <1>8, HookStays
<1>9. SessionInv'
  BY <1>1 DEF SessionInv, AllowedOnce, AgentMaySet
<1> QED
  BY <1>7, <1>8, <1>9

LEMMA InvStep == GuardsInv /\ [Next]_vars => GuardsInv'
<1> SUFFICES ASSUME GuardsInv, [Next]_vars PROVE GuardsInv'
  OBVIOUS
<1>a. TypeOK /\ (\A h \in Hooks : HookInv(h)) /\ SessionInv
  BY InvParts
<1>b. TypeOK'
  BY <1>a, TypeStep
<1> SUFFICES (\A h \in Hooks : HookInv(h)') /\ SessionInv'
  BY <1>b, InvPartsNext
<1>1. ASSUME NEW h \in Hooks, NEW call \in Calls, NEW in \in Situations, Arrive(h, call, in)
      PROVE  (\A g \in Hooks : HookInv(g)') /\ SessionInv'
  <2>1. /\ hook' = [hook EXCEPT ![h] = [Idle EXCEPT !.pc = "base", !.call = call, !.in = in]]
        /\ UNCHANGED <<transitions, allow, session, granted, waivers, chosen>>
    BY <1>1 DEF Arrive, history
  <2>2. HookInv(h)'
    BY <1>a, <2>1, HookFresh DEF TypeOK, Idle
  <2>3. ASSUME NEW g \in Hooks, g # h PROVE HookInv(g)'
    BY <1>a, <2>1, <2>3, HookStays DEF TypeOK
  <2>4. SessionInv'
    BY <1>a, <2>1 DEF SessionInv, AllowedOnce, AgentMaySet
  <2> QED
    BY <2>2, <2>3, <2>4
<1>2. ASSUME NEW h \in Hooks, BaseStage(h)
      PROVE  (\A g \in Hooks : HookInv(g)') /\ SessionInv'
  BY <1>a, <1>2, BaseStageKeeps
<1>3. ASSUME NEW h \in Hooks, NEW file \in Named, Resolve(h, file)
      PROVE  (\A g \in Hooks : HookInv(g)') /\ SessionInv'
  BY <1>a, <1>3, ResolveKeeps
<1>4. ASSUME NEW h \in Hooks, BundleStage(h)
      PROVE  (\A g \in Hooks : HookInv(g)') /\ SessionInv'
  BY <1>a, <1>4, BundleStageKeeps
<1>5. ASSUME NEW h \in Hooks, Refused(h) \/ Passed(h)
      PROVE  (\A g \in Hooks : HookInv(g)') /\ SessionInv'
  <2>1. /\ hook' = [hook EXCEPT ![h] = Idle]
        /\ UNCHANGED <<transitions, allow, session, granted, waivers, chosen>>
    BY <1>5 DEF Refused, Passed, history
  <2>2. HookInv(h)'
    BY <1>a, <2>1, HookFresh DEF TypeOK, Idle
  <2>3. ASSUME NEW g \in Hooks, g # h PROVE HookInv(g)'
    BY <1>a, <2>1, <2>3, HookStays DEF TypeOK
  <2>4. SessionInv'
    BY <1>a, <2>1 DEF SessionInv, AllowedOnce, AgentMaySet
  <2> QED
    BY <2>2, <2>3, <2>4
<1>6. ASSUME NEW name \in Names, Allow(name)
      PROVE  (\A g \in Hooks : HookInv(g)') /\ SessionInv'
  <2> DEFINE f == Sanitized(name)
  <2>1. BuiltinName \notin Known => f # Sanitized(BuiltinName)
    BY <1>6, GuardsAssumption DEF Allow, Sanitized
  <2>a. f \in Files /\ Sanitized(BuiltinName) \in Files
    BY GuardsAssumption, SanitizedIsFile
  <2>b. /\ allow' = allow \union {f} /\ waivers' = waivers
        /\ granted' = [granted EXCEPT ![f] = granted[f] + 1]
        /\ UNCHANGED <<transitions, session, chosen>>
    BY <1>6 DEF Allow
  <2>2. \A g \in Hooks : HookInv(g)'
    BY <1>a, <1>6, HookStays DEF Allow
  <2> HIDE DEF f
  <2>3. ASSUME NEW n \in Files
        PROVE  waivers'[n] + (IF n \in allow' THEN 1 ELSE 0) <= granted'[n]
    <3>1. waivers[n] + (IF n \in allow THEN 1 ELSE 0) <= granted[n]
      BY <1>a DEF SessionInv, AllowedOnce
    <3>2. waivers[n] \in Nat /\ granted[n] \in Nat /\ granted \in [Files -> Nat]
      BY <1>a DEF TypeOK
    <3> QED
      BY <2>b, <3>1, <3>2
  <2>5. BuiltinName \notin Known => granted'[Sanitized(BuiltinName)] = 0
    BY <1>a, <2>1, <2>a, <2>b DEF SessionInv, TypeOK
  <2>4. SessionInv'
    BY <1>a, <2>b, <2>3, <2>5 DEF SessionInv, AllowedOnce, AgentMaySet
  <2> QED
    BY <2>2, <2>4
<1>7. ASSUME NEW p \in Profiles, NEW who \in {"human", "agent"}, SetProfile(p, who)
      PROVE  (\A g \in Hooks : HookInv(g)') /\ SessionInv'
  <2>1. \A g \in Hooks : HookInv(g)'
    BY <1>a, <1>7, HookStays DEF SetProfile
  <2>2. SessionInv'
    BY <1>a, <1>7 DEF SessionInv, AllowedOnce, SetProfile, AgentMaySet
  <2> QED
    BY <2>1, <2>2
<1>8. CASE UNCHANGED vars
  <2>1. \A g \in Hooks : HookInv(g)'
    BY <1>a, <1>8, HookStays DEF vars
  <2>2. SessionInv'
    BY <1>a, <1>8 DEF SessionInv, AllowedOnce, vars, AgentMaySet
  <2> QED
    BY <2>1, <2>2
<1> QED
  BY <1>1, <1>2, <1>3, <1>4, <1>5, <1>6, <1>7, <1>8 DEF Next

-----------------------------------------------------------------------------
(* The remedy a refusal offers.                                            *)

\* The guard a stage refuses in the name of is one of the stage's.
LEMMA RefusedByTheStage ==
  ASSUME TypeOK, NEW h \in Hooks, NEW stage, NEW guards \in Seq(Guard), NEW next \in {"resolve", "passed"},
         NEW known, \A i \in DOMAIN guards : guards[i].name \in known,
         Stage(h, stage, guards, next)
  PROVE  /\ hook'[h].pc = "refused" => hook'[h].hit \in known
         /\ \A g \in Hooks \ {h} : hook'[g] = hook[g]
<1> DEFINE name == FirstRefusal(guards, hook[h].call)
<1>1. hook \in [Hooks -> Hook] /\ hook[h] \in Hook
  BY DEF TypeOK
<1>2. CASE Refusing(guards, hook[h].call) = {}
  <2>1. hook' = [hook EXCEPT ![h].pc = next]
    BY <1>2 DEF Stage
  <2>2. hook'[h].pc = next
    BY <1>1, <2>1 DEF Hook
  <2> QED
    BY <1>1, <2>1, <2>2
<1>3. CASE Refusing(guards, hook[h].call) # {} /\ Allowed(h, name)
  <2>1. PICK waived : hook' = [hook EXCEPT ![h].pc = next, ![h].waived = @ \union waived]
    BY <1>3 DEF Stage
  <2>2. hook'[h].pc = next
    BY <1>1, <2>1 DEF Hook
  <2> QED
    BY <1>1, <2>1, <2>2
<1>4. CASE Refusing(guards, hook[h].call) # {} /\ ~Allowed(h, name)
  <2>1. name \in known
    <3>1. name \in RefusersOf(guards, hook[h].call)
      BY <1>4, FirstNamesRefuser
    <3> QED
      BY <3>1 DEF RefusersOf, Refusing
  <2>2. hook' = [hook EXCEPT ![h].pc = "refused", ![h].hit = name]
    BY <1>4 DEF Stage
  <2> HIDE DEF name
  <2>3. hook'[h].hit = name
    BY <1>1, <2>2 DEF Hook
  <2> QED
    BY <1>1, <2>1, <2>2, <2>3
<1> QED
  BY <1>2, <1>3, <1>4

\* A refusal is in the name of the built-in guard or of one `gaff allow` knows.
RemedyKnown ==
  \A h \in Hooks : At(h, "refused") => hook[h].hit \in {BuiltinName} \union Known

LEMMA RemedyStep ==
  ASSUME TypeOK, RemedyKnown, [Next]_vars,
         \A p \in Profiles : \A i \in DOMAIN Bundle[p] : Bundle[p][i].name \in Known
  PROVE  RemedyKnown'
<1> DEFINE known == {BuiltinName} \union Known
<1>0. hook \in [Hooks -> Hook]
  BY DEF TypeOK
<1>1. ASSUME NEW h \in Hooks, NEW call \in Calls, NEW in \in Situations, Arrive(h, call, in)
      PROVE  RemedyKnown'
  <2>1. hook' = [hook EXCEPT ![h] = [Idle EXCEPT !.pc = "base", !.call = call, !.in = in]]
    BY <1>1 DEF Arrive
  <2>2. hook'[h].pc = "base"
    BY <1>0, <2>1 DEF Idle
  <2> QED
    BY <1>0, <2>1, <2>2 DEF RemedyKnown, At
<1>2. ASSUME NEW h \in Hooks, BaseStage(h) PROVE RemedyKnown'
  <2> DEFINE guards == BaseGuards(hook[h].in.config)
  <2>1. hook[h].in.config \in BOOLEAN
    BY DEF TypeOK, Hook, Situation
  <2>2. guards \in Seq(Guard)
    BY <2>1, BaseGuardsType
  <2>3. PICK next \in {"resolve", "passed"} : Stage(h, "base", guards, next)
    BY <1>2 DEF BaseStage
  <2>4. \A i \in DOMAIN guards : guards[i].name \in known
    <3>1. UserGuards \in Seq(Guard) /\ <<Builtin>> \in Seq(Guard)
      BY GuardsAssumption DEF Builtin, Guard
    <3>2. Builtin.name = BuiltinName
      BY DEF Builtin
    <3>3. \A i \in DOMAIN UserGuards : UserGuards[i].name \in known
      BY DEF Known
    <3>4. CASE guards = <<Builtin>>
      BY <3>2, <3>4
    <3>5. CASE guards = <<Builtin>> \o UserGuards
      <4>1. Len(guards) = 1 + Len(UserGuards) /\ DOMAIN guards = 1..Len(guards) /\ guards[1] = Builtin
        BY <3>1, <3>5
      <4>2. ASSUME NEW i \in DOMAIN guards, i # 1 PROVE guards[i].name \in known
        <5>1. i - 1 \in DOMAIN UserGuards /\ guards[i] = UserGuards[i - 1]
          BY <3>1, <3>5, <4>1, <4>2
        <5> QED
          BY <3>3, <5>1
      <4> QED
        BY <3>2, <4>1, <4>2
    <3> QED
      BY <3>4, <3>5 DEF BaseGuards
  <2> HIDE DEF guards, known
  <2>5. /\ hook'[h].pc = "refused" => hook'[h].hit \in known
        /\ \A g \in Hooks \ {h} : hook'[g] = hook[g]
    BY <2>2, <2>3, <2>4, RefusedByTheStage
  <2> QED
    BY <2>5 DEF RemedyKnown, At, known
<1>3. ASSUME NEW h \in Hooks, NEW file \in Named, Resolve(h, file) PROVE RemedyKnown'
  <2>1. PICK p : hook' = [hook EXCEPT ![h].pc = "bundle", ![h].profile = p]
    BY <1>3 DEF Resolve
  <2>2. hook'[h].pc = "bundle"
    BY <1>0, <2>1 DEF Hook
  <2> QED
    BY <1>0, <2>1, <2>2 DEF RemedyKnown, At
<1>4. ASSUME NEW h \in Hooks, BundleStage(h) PROVE RemedyKnown'
  <2>1. BundleGuards(h) \in Seq(Guard)
    BY BundleGuardsType
  <2>2. \A i \in DOMAIN BundleGuards(h) : BundleGuards(h)[i].name \in known
    BY DEF BundleGuards
  <2>3. Stage(h, "bundle", BundleGuards(h), "passed")
    BY <1>4 DEF BundleStage
  <2> HIDE DEF known
  <2>4. /\ hook'[h].pc = "refused" => hook'[h].hit \in known
        /\ \A g \in Hooks \ {h} : hook'[g] = hook[g]
    BY <2>1, <2>2, <2>3, RefusedByTheStage
  <2> QED
    BY <2>4 DEF RemedyKnown, At, known
<1>5. ASSUME NEW h \in Hooks, Refused(h) \/ Passed(h) PROVE RemedyKnown'
  <2>1. hook' = [hook EXCEPT ![h] = Idle] /\ Idle.pc = "idle"
    BY <1>5 DEF Refused, Passed, Idle
  <2> QED
    BY <1>0, <2>1 DEF RemedyKnown, At
<1>6. CASE UNCHANGED hook
  BY <1>6 DEF RemedyKnown, At
<1> QED
  BY <1>1, <1>2, <1>3, <1>4, <1>5, <1>6 DEF Next, Allow, SetProfile, vars

-----------------------------------------------------------------------------
\* The invariant of the hooks, the allowances and the profile holds throughout.
THEOREM GuardsInvariant == Spec => []GuardsInv
<1>1. Init => GuardsInv
  BY InvInit
<1>2. GuardsInv /\ [Next]_vars => GuardsInv'
  BY InvStep
<1> QED
  BY <1>1, <1>2, PTL DEF Spec

\* Whatever the guards and however the hooks race, a call that goes through was
\* refused by no guard of either stage, or was waived at each stage that refused it.
THEOREM GuardsAlwaysStand == Spec => []GuardsStand
<1>1. GuardsInv => GuardsStand
  BY DEF GuardsInv, GuardsStand, At, PastBase
<1> QED
  BY <1>1, GuardsInvariant, PTL

\* One grant of `gaff allow` waives at most one refusal, however many names share its file.
THEOREM AllowancesAreOneShot == Spec => []AllowedOnce
<1>1. GuardsInv => AllowedOnce
  BY DEF GuardsInv
<1> QED
  BY <1>1, GuardsInvariant, PTL

\* An agent's `gaff allow` or `gaff trust` goes through on a waiver of the built-in's own
\* refusal alone, by a person's `gaff allow` for a guard of the config that has its name;
\* AllowancesAreOneShot bounds those waivers by the grants.
THEOREM PrivilegedAlwaysRefused == Spec => []PrivilegedRefused
<1>1. GuardsInv => PrivilegedRefused
  BY DEF GuardsInv, PrivilegedRefused, At, PastBase
<1> QED
  BY <1>1, GuardsInvariant, PTL

\* A bundle of law in force was chosen by the user.
THEOREM LawIsTheUsers == Spec => []LawIsChosen
<1>1. GuardsInv => LawIsChosen
  BY DEF GuardsInv
<1> QED
  BY <1>1, GuardsInvariant, PTL

\* A refusal offers `gaff allow <guard>` (guard_refusal), and run_allow accepts that guard,
\* when each guard of a bundle is named like one of the config's own.  For the other
\* configs the remedy is one that fails: run_allow knows no guard of a bundle.
THEOREM RemediesWorkForKnownNames ==
  ASSUME \A p \in Profiles : \A i \in DOMAIN Bundle[p] : Bundle[p][i].name \in Known
  PROVE  Spec => []RemedyWorks
<1>1. Init => RemedyKnown
  BY DEF Init, RemedyKnown, At, Idle
<1>2. GuardsInv /\ RemedyKnown /\ [Next]_vars => RemedyKnown'
  BY RemedyStep DEF GuardsInv
<1>3. RemedyKnown => RemedyWorks
  BY DEF RemedyKnown, RemedyWorks
<1> QED
  BY <1>1, <1>2, <1>3, GuardsInvariant, PTL DEF Spec
=============================================================================
