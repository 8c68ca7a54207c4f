------------------------------ MODULE Session -------------------------------
(***************************************************************************)
(* One session directory and the gaff processes that share it: hooks       *)
(* (engine.rs, `handle_with` and `flush`), `gaff remind --after` and       *)
(* `gaff profile set`.  The markers are files without a lock, so           *)
(* a step here is one file operation.                                      *)
(*                                                                         *)
(* Counting is one step: Ledger shows that the locked record calls are.    *)
(* Which entries fit the cap is any subset here: FlushMerge decides it.    *)
(* Abstracted: the multiple in a pending marker and the cursor file, which *)
(* nothing reads; the config order within a kind; the trust, predicates    *)
(* and deadline that decide which due handlers run (any subset does);      *)
(* a section whose body cannot be read; IO errors.                         *)
(***************************************************************************)
EXTENDS Integers, FiniteSets

CONSTANTS Procs,        \* the gaff processes that may run at once
          Profiles,     \* the profiles of the config
          Cadences,     \* what counts arm: [name, kind, unit, every, profiles]
          Shots,        \* the ids of one-shot reminders
          Scenarios     \* bound: how often each of Causes happens, per behaviour

Units == {"tool_calls", "prompts"}
Kinds == {"section", "reminder", "handler"}
Causes == {"tool_call", "prompt", "session_start", "compact", "remind", "switch",
           "heldback", "kill"}
Names == {c.name : c \in Cadences}

ASSUME SessionAssumption ==
  /\ Cadences \subseteq [name : Names, kind : Kinds, unit : Units,
                         every : Nat \ {0}, profiles : SUBSET Profiles]
  /\ \A c, d \in Cadences : c.name = d.name => c = d
  /\ Names \intersect Shots = {}
  /\ Scenarios \subseteq [Causes -> Nat]
  /\ IsFiniteSet(Procs)

VARIABLES counts,    \* the ledger's counts per unit
          pending,   \* the names with a pending-<name> file
          shot,      \* oneshot-<id>.json: the count it waits for, 0 for no file
          fired,     \* the ids with a fired-<id> file
          profile,   \* the profile file
          reprime,   \* whether the reprime file exists
          proc,      \* what each process holds in memory
          owed,      \* history: names whose last crossing no output followed
          credit,    \* history: deliveries earned and not yet claimed
          unprimed,  \* history: a switch whose sections no flush delivered
          left       \* bound: how often each cause may still happen

markers == <<pending, shot, fired>>
vars == <<counts, pending, shot, fired, profile, reprime, proc,
          owed, credit, unprimed, left>>

Events == {"tool_call", "prompt", "session_start", "compact", "tool_batch"}

Active(kind, cfg) ==
  {c.name : c \in {d \in Cadences : d.kind = kind /\ cfg \in d.profiles}}

\* The entries of the profile whose cadence divides the count n of unit u.
Crossed(cfg, u, n) ==
  {c.name : c \in {d \in Cadences : d.unit = u /\ cfg \in d.profiles /\ n % d.every = 0}}

\* The order in which arm_crossings and flush walk the kinds.
Kind(x) == (CHOOSE c \in Cadences : c.name = x).kind
ArmRank(x) == CASE Kind(x) = "reminder" -> 1 [] Kind(x) = "section" -> 2 [] Kind(x) = "handler" -> 3
ReadRank(x) == IF Kind(x) = "section" THEN 1 ELSE 2

\* What a process holds: where it stands, the profile it resolved, the unit it
\* counts, the section mode of its flush ("start" at a session start, "all"
\* after a switch), the items left of its loop, the entries read, the names
\* emitted, and the count a one-shot will wait for.
Idle == [pc |-> "idle", cfg |-> CHOOSE q \in Profiles : TRUE, unit |-> "tool_calls",
         mode |-> "pending", todo |-> {}, got |-> {}, out |-> {}, at |-> 0]

At(p, phase) == proc[p].pc = phase

\* About to write the marker of x.
Arming(p, x) == At(p, "arm") /\ x \in proc[p].todo

\* The phase of a loop with these items left: the next one when there are none.
Turn(phase, items, next) == IF items = {} THEN next ELSE phase

Init ==
  /\ counts = [u \in Units |-> 0]
  /\ pending = {} /\ shot = [s \in Shots |-> 0] /\ fired = {}
  /\ profile \in Profiles /\ reprime = FALSE
  /\ proc = [p \in Procs |-> Idle]
  /\ owed = {} /\ unprimed = FALSE
  /\ credit = [x \in Names \union Shots |-> IF x \in Shots THEN 1 ELSE 0]
  /\ left \in Scenarios

-----------------------------------------------------------------------------
(* A hook resolves the profile and goes by its event.                      *)

\* Bound: one of the causes left is spent.
Spend(cause) == left[cause] > 0 /\ left' = [left EXCEPT ![cause] = @ - 1]

\* A flush reads the sections and the reminders first.
Collect(p, cfg, mode) ==
  LET todo == Active("section", cfg) \union Active("reminder", cfg)
  IN  proc' = [proc EXCEPT ![p] = [Idle EXCEPT
        !.pc = Turn("collect", todo, "oneshots"), !.cfg = cfg, !.mode = mode, !.todo = todo]]

Begin(p, ev) ==
  /\ At(p, "idle")
  /\ \/ /\ ev \in {"tool_call", "prompt"}
        /\ LET u == IF ev = "prompt" THEN "prompts" ELSE "tool_calls"
           IN  proc' = [proc EXCEPT ![p].pc = "record", ![p].cfg = profile, ![p].unit = u]
     \/ ev = "session_start" /\ Collect(p, profile, "start")
     \/ ev = "compact" /\ proc' = [proc EXCEPT ![p].pc = Turn("clear_fired", fired, "primed"),
                                               ![p].cfg = profile, ![p].todo = fired]
     \/ ev = "tool_batch" /\ proc' = [proc EXCEPT ![p].pc = "mode", ![p].cfg = profile]
  /\ IF ev = "tool_batch" THEN UNCHANGED left ELSE Spend(ev)
  /\ UNCHANGED <<counts, markers, profile, reprime, owed, credit, unprimed>>

\* A tool call is no flush point, a prompt is.
Armed(p, todo) ==
  proc' = CASE todo # {} -> [proc EXCEPT ![p].pc = "arm", ![p].todo = todo]
            [] todo = {} /\ proc[p].unit = "prompts" ->
                 [proc EXCEPT ![p].pc = "mode", ![p].todo = {}]
            [] OTHER -> [proc EXCEPT ![p] = Idle]

\* record_tool_call or record_prompt, and the cadences their count crosses.
Record(p) ==
  LET u == proc[p].unit
      crossed == Crossed(proc[p].cfg, u, counts[u] + 1)
  IN  /\ At(p, "record")
      /\ counts' = [counts EXCEPT ![u] = @ + 1]
      /\ Armed(p, crossed)
      /\ owed' = owed \union crossed
      /\ credit' = [x \in DOMAIN credit |-> credit[x] + (IF x \in crossed THEN 1 ELSE 0)]
      /\ UNCHANGED <<markers, profile, reprime, unprimed, left>>

\* write_pending, one marker after the other.
Arm(p) ==
  \E x \in proc[p].todo :
    /\ At(p, "arm")
    /\ \A y \in proc[p].todo : ArmRank(x) <= ArmRank(y)
    /\ pending' = pending \union {x}
    /\ Armed(p, proc[p].todo \ {x})
    /\ UNCHANGED <<counts, shot, fired, profile, reprime, owed, credit, unprimed, left>>

\* section_mode: the re-prime marker goes to the one flush that removes it.
Mode(p) ==
  /\ At(p, "mode")
  /\ reprime' = FALSE
  /\ Collect(p, proc[p].cfg, IF reprime THEN "all" ELSE "pending")
  /\ UNCHANGED <<counts, markers, profile, owed, credit, unprimed, left>>

\* A fired marker removed makes its one-shot eligible once more.
Unfire(s) ==
  /\ fired' = fired \ {s}
  /\ credit' = [credit EXCEPT ![s] = @ + (IF s \in fired THEN 1 ELSE 0)]

\* clear_fired: a compaction erased the one-shots from the context, so the
\* fired markers it lists are removed, one after the other.
ClearFired(p) ==
  \E s \in proc[p].todo :
    /\ At(p, "clear_fired")
    /\ Unfire(s)
    /\ proc' = [proc EXCEPT ![p].pc = Turn("clear_fired", proc[p].todo \ {s}, "primed"),
                            ![p].todo = @ \ {s}]
    /\ UNCHANGED <<counts, pending, shot, profile, reprime, owed, unprimed, left>>

\* Compacted, the session start goes on like any other.
Compacted(p) ==
  /\ At(p, "primed")
  /\ Collect(p, proc[p].cfg, "start")
  /\ UNCHANGED <<counts, markers, profile, reprime, owed, credit, unprimed, left>>

-----------------------------------------------------------------------------
(* flush: the sections, the reminders, the one-shots, then the handlers.   *)

Entry(x, marked) == [name |-> x, marked |-> marked]

\* A section or reminder is delivered when its marker is there, and a section
\* without one by a flush that primes.
Read(p) ==
  \E x \in proc[p].todo :
    LET wanted == x \in pending \/ (Kind(x) = "section" /\ proc[p].mode # "pending")
    IN  /\ At(p, "collect")
        /\ \A y \in proc[p].todo : ReadRank(x) <= ReadRank(y)
        /\ proc' = [proc EXCEPT
             ![p].pc = Turn("collect", proc[p].todo \ {x}, "oneshots"), ![p].todo = @ \ {x},
             ![p].got = IF wanted THEN @ \union {Entry(x, x \in pending)} ELSE @]
        /\ UNCHANGED <<counts, markers, profile, reprime, owed, credit, unprimed, left>>

\* The one-shots whose count has come and that have not fired.
ReadOneshots(p) ==
  LET eligible == {s \in Shots : shot[s] > 0 /\ counts["tool_calls"] >= shot[s] /\ s \notin fired}
  IN  /\ At(p, "oneshots")
      /\ proc' = [proc EXCEPT ![p].pc = "run",
                              ![p].got = @ \union {Entry(s, TRUE) : s \in eligible}]
      /\ UNCHANGED <<counts, markers, profile, reprime, owed, credit, unprimed, left>>

\* run_due: a handler is due at session start, and when it is armed.  Some of
\* the due ones run, and some of those print.
RunHandlers(p) ==
  LET due == {h \in Active("handler", proc[p].cfg) : proc[p].mode = "start" \/ h \in pending}
  IN  /\ At(p, "run")
      /\ \E ran \in SUBSET due : \E spoke \in SUBSET ran :
           proc' = [proc EXCEPT ![p].pc = Turn("spend", ran, "select"), ![p].todo = ran,
                                ![p].got = @ \union {Entry(h, FALSE) : h \in spoke}]
      /\ UNCHANGED <<counts, markers, profile, reprime, owed, credit, unprimed, left>>

\* "Spend the cadence on the attempt": whatever marker is there after the run.
SpendHandler(p) ==
  \E h \in proc[p].todo :
    /\ At(p, "spend")
    /\ pending' = pending \ {h}
    /\ proc' = [proc EXCEPT ![p].pc = Turn("spend", proc[p].todo \ {h}, "select"),
                            ![p].todo = @ \ {h}]
    /\ owed' = owed \ {h}
    /\ credit' = [credit EXCEPT ![h] = @ - (IF h \in pending THEN 1 ELSE 0)]
    /\ UNCHANGED <<counts, shot, fired, profile, reprime, unprimed, left>>

-----------------------------------------------------------------------------
(* merge: select what fits, consume each entry, emit it.                   *)

Keep(p, kept) ==
  /\ At(p, "select")
  /\ IF kept = proc[p].got THEN UNCHANGED left ELSE Spend("heldback")
  /\ proc' = [proc EXCEPT ![p].pc = "emit", ![p].got = kept]

\* Mutant: the markers of what does not fit are consumed as well.
SelectSpendsAll(p) ==
  \E kept \in SUBSET proc[p].got :
    /\ Keep(p, kept)
    /\ pending' = pending \ {e.name : e \in proc[p].got \ kept}
    /\ UNCHANGED <<counts, shot, fired, profile, reprime, owed, credit, unprimed>>

\* What fits is selected before anything is consumed.
Select(p) ==
  \E kept \in SUBSET proc[p].got :
    /\ Keep(p, kept)
    /\ UNCHANGED <<counts, markers, profile, reprime, owed, credit, unprimed>>

\* Mutant: an entry is emitted whether or not its marker could be consumed.
UnclaimedIgnored(e) == TRUE

\* The marker of an entry is still this process's to take.
Unclaimed(e) == IF e.name \in Shots THEN e.name \notin fired ELSE e.name \in pending

Emit(p) ==
  \E e \in proc[p].got :
    LET won == e.marked => Unclaimed(e)
    IN  /\ At(p, "emit")
        /\ proc' = [proc EXCEPT ![p].got = @ \ {e},
                                ![p].out = IF won THEN @ \union {e.name} ELSE @]
        /\ pending' = IF e.marked THEN pending \ {e.name} ELSE pending
        /\ fired' = IF e.name \in Shots THEN fired \union {e.name} ELSE fired
        /\ credit' = IF won /\ e.marked THEN [credit EXCEPT ![e.name] = @ - 1] ELSE credit
        /\ UNCHANGED <<counts, shot, profile, reprime, owed, unprimed, left>>

\* The output reaches the host.  A flush that primed under the profile in force
\* delivered its sections.
Printed(p) ==
  /\ At(p, "emit") /\ proc[p].got = {}
  /\ owed' = owed \ proc[p].out
  /\ unprimed' = (unprimed /\ (proc[p].mode = "pending" \/ proc[p].cfg # profile))
  /\ proc' = [proc EXCEPT ![p] = Idle]
  /\ UNCHANGED <<counts, markers, profile, reprime, credit, left>>

-----------------------------------------------------------------------------
(* gaff remind --after, and gaff profile set.                              *)

\* run_remind: the count to wait for is fixed before anything is written.
Remind(p, s) ==
  /\ At(p, "idle")
  /\ Spend("remind")
  /\ proc' = [proc EXCEPT ![p].pc = "unfire", ![p].todo = {s},
                          ![p].at = counts["tool_calls"] + 1]
  /\ UNCHANGED <<counts, markers, profile, reprime, owed, credit, unprimed>>

\* write_oneshot removes a stale fired marker ...
RemindUnfire(p) ==
  /\ At(p, "unfire")
  /\ \E s \in proc[p].todo : Unfire(s)
  /\ proc' = [proc EXCEPT ![p].pc = "write_oneshot"]
  /\ UNCHANGED <<counts, pending, shot, profile, reprime, owed, unprimed, left>>

\* ... and then writes the file.
WriteOneshot(p) ==
  /\ At(p, "write_oneshot")
  /\ \E s \in proc[p].todo : shot' = [shot EXCEPT ![s] = proc[p].at]
  /\ proc' = [proc EXCEPT ![p] = Idle]
  /\ UNCHANGED <<counts, pending, fired, profile, reprime, owed, credit, unprimed, left>>

\* set_profile: nothing for the profile in force, else the profile file ...
SetProfile(p, name) ==
  /\ At(p, "idle")
  /\ name # profile
  /\ Spend("switch")
  /\ profile' = name
  /\ unprimed' = TRUE
  /\ proc' = [proc EXCEPT ![p].pc = "reprime"]
  /\ UNCHANGED <<counts, markers, reprime, owed, credit>>

\* ... and then the re-prime marker.
WriteReprime(p) ==
  /\ At(p, "reprime")
  /\ reprime' = TRUE
  /\ proc' = [proc EXCEPT ![p] = Idle]
  /\ UNCHANGED <<counts, markers, profile, owed, credit, unprimed, left>>

-----------------------------------------------------------------------------
\* A crossing is still on its way: its marker is there, its hook is about to
\* write it, or a flush consumed it and has not printed yet.
OnItsWay(x, procs) ==
  \/ x \in pending
  \/ \E p \in procs : Arming(p, x)
  \/ \E p \in procs : At(p, "emit") /\ x \in proc[p].out

\* The host kills a process; what only this process carried is lost.
Kill(p) ==
  /\ ~At(p, "idle")
  /\ Spend("kill")
  /\ proc' = [proc EXCEPT ![p] = Idle]
  /\ owed' = {x \in owed : OnItsWay(x, Procs \ {p})}
  /\ UNCHANGED <<counts, markers, profile, reprime, credit, unprimed>>

Proceed(p) ==
  \/ Record(p) \/ Arm(p) \/ Mode(p) \/ ClearFired(p) \/ Compacted(p)
  \/ Read(p) \/ ReadOneshots(p) \/ RunHandlers(p) \/ SpendHandler(p)
  \/ Select(p) \/ Emit(p) \/ Printed(p)
  \/ RemindUnfire(p) \/ WriteOneshot(p) \/ WriteReprime(p)

Next ==
  \E p \in Procs :
    \/ \E ev \in Events : Begin(p, ev)
    \/ \E s \in Shots : Remind(p, s)
    \/ \E name \in Profiles : SetProfile(p, name)
    \/ Proceed(p)
    \/ Kill(p)

Spec == Init /\ [][Next]_vars

\* A process that runs goes on, and the turns of a session keep bringing tool
\* batches and stops.
FairSpec ==
  /\ Spec
  /\ \A p \in Procs : WF_vars(Proceed(p))
  /\ SF_vars(\E p \in Procs : Begin(p, "tool_batch"))

-----------------------------------------------------------------------------
Phases == {"idle", "record", "arm", "clear_fired", "primed", "mode", "collect", "oneshots", "run",
           "spend", "select", "emit", "unfire", "write_oneshot", "reprime"}
Modes == {"pending", "start", "all"}
States == [pc : Phases, cfg : Profiles, unit : Units, mode : Modes,
           todo : SUBSET (Names \union Shots),
           got : SUBSET [name : Names \union Shots, marked : BOOLEAN],
           out : SUBSET (Names \union Shots), at : Nat]

TypeOK ==
  /\ counts \in [Units -> Nat]
  /\ pending \subseteq Names
  /\ shot \in [Shots -> Nat]
  /\ fired \subseteq Shots
  /\ profile \in Profiles /\ reprime \in BOOLEAN /\ unprimed \in BOOLEAN
  /\ owed \subseteq Names
  /\ credit \in [Names \union Shots -> Int]
  /\ proc \in [Procs -> States]
  /\ left \in [Causes -> Nat]

\* A loop goes over cadences or over one-shots, and a one-shot is read with its marker.
Sorted(s) ==
  /\ s.pc \in {"arm", "collect", "spend"} => s.todo \subseteq Names
  /\ s.pc \in {"clear_fired", "unfire", "write_oneshot"} => s.todo \subseteq Shots
  /\ \A e \in s.got : e.name \in Shots => e.marked

Apart == \A p \in Procs : Sorted(proc[p])

\* A marker stands for a delivery that is earned: a pending file, or a hook
\* about to write one, for a crossing not claimed yet, and a missing fired file
\* for the one delivery its one-shot has left.
Backed ==
  /\ \A x \in Names :
       credit[x] >= (IF x \in pending THEN 1 ELSE 0)
                      + Cardinality({p \in Procs : Arming(p, x)})
  /\ \A s \in Shots : credit[s] = IF s \in fired THEN 0 ELSE 1

\* The types, and the reason why no marker is claimed twice.
SessionInv == TypeOK /\ Apart /\ Backed

\* The markers implement what they promise: whatever hooks race, a crossing is delivered
\* at most once, and a one-shot at most once for all the settings and compactions that
\* came since it fired ("exactly one racing invocation wins", claim_fired).
Markers == INSTANCE Deliveries WITH Crossers <- Names, earned <- credit
DeliversEarned == Markers!Spec

\* "gaff consumes an entry only when it emits the entry": a counted crossing is
\* never lost between the hooks, unless the process that carried it is killed.
CrossingKept == \A x \in owed : OnItsWay(x, Procs)

\* Every crossing of a section or reminder that every profile has is delivered,
\* if flushes keep coming and only finitely many hold something back.
CrossingDelivered ==
  \A c \in Cadences :
    (c.kind # "handler" /\ c.profiles = Profiles) => (c.name \in owed ~> c.name \notin owed)

\* "A switch re-primes: the next flush delivers every section": until a flush
\* primed under the new profile, the re-prime marker waits for one, or a process
\* is about to write it or to prime.
SwitchPrimes ==
  unprimed =>
    \/ reprime
    \/ \E p \in Procs : \/ At(p, "reprime")
                        \/ proc[p].mode # "pending" /\ proc[p].cfg = profile
=============================================================================
