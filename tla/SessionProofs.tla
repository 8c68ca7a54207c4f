---------------------------- MODULE SessionProofs ----------------------------
(***************************************************************************)
(* What the markers of a session promise, for any set of cadences, of      *)
(* profiles and of one-shots, and any number of processes on the files.    *)
(* A step is one process's: the proofs say what it does to its own record  *)
(* and to the files, and that the other processes' records stay.           *)
(***************************************************************************)
EXTENDS Session, FiniteSetTheorems, TLAPS

-----------------------------------------------------------------------------
(* The constants, and a process's record.                                  *)

\* Cadences have names of their own, apart from the one-shots'.
LEMMA NamesApart ==
  /\ IsFiniteSet(Procs)
  /\ \A x \in Names : x \notin Shots
  /\ \A kind, cfg : Active(kind, cfg) \subseteq Names
  /\ \A cfg, u, n : Crossed(cfg, u, n) \subseteq Names
<1>1. IsFiniteSet(Procs) /\ Names \intersect Shots = {}
  BY SessionAssumption
<1> QED
  BY <1>1 DEF Active, Crossed, Names

\* A process that has nothing in hand.
LEMMA IdleState == Profiles # {} => Idle \in States
BY DEF Idle, States, Phases, Modes, Units

\* A step of p puts a new record in the place of its old one.
LEMMA Replaced ==
  ASSUME proc \in [Procs -> States], NEW p \in Procs, NEW s \in States,
         proc' = [proc EXCEPT ![p] = s]
  PROVE  /\ proc' \in [Procs -> States]
         /\ proc'[p] = s
         /\ \A q \in Procs \ {p} : proc'[q] = proc[q]
OBVIOUS

\* The fields of a record.
LEMMA Fields ==
  ASSUME NEW s \in States
  PROVE  /\ s.pc \in Phases /\ s.cfg \in Profiles /\ s.unit \in Units /\ s.mode \in Modes
         /\ s.todo \subseteq Names \union Shots
         /\ s.got \subseteq [name : Names \union Shots, marked : BOOLEAN]
         /\ s.out \subseteq Names \union Shots /\ s.at \in Nat
BY DEF States

-----------------------------------------------------------------------------
(* What each step does to the record of its process.                       *)

Moves(p, s) == s \in States /\ Sorted(s) /\ proc' = [proc EXCEPT ![p] = s]

\* A process between the loops that carry crossings.
Quiet(s) == s.pc \notin {"arm", "emit"}

LEMMA IdleMoves ==
  ASSUME TypeOK, NEW p \in Procs, proc' = [proc EXCEPT ![p] = Idle]
  PROVE  Moves(p, Idle) /\ Quiet(Idle)
<1>1. Idle \in States
  BY IdleState DEF TypeOK
<1>2. Idle.pc = "idle" /\ Idle.got = {}
  BY DEF Idle
<1> QED
  BY <1>1, <1>2 DEF Moves, Quiet, Sorted

LEMMA CollectMoves ==
  ASSUME TypeOK, NEW p \in Procs, NEW cfg \in Profiles, NEW mode \in Modes, Collect(p, cfg, mode)
  PROVE  \E s : Moves(p, s) /\ Quiet(s)
<1> DEFINE todo == Active("section", cfg) \union Active("reminder", cfg)
           s == [Idle EXCEPT !.pc = Turn("collect", todo, "oneshots"), !.cfg = cfg, !.mode = mode,
                             !.todo = todo]
<1>1. todo \subseteq Names
  BY NamesApart
<1>2. proc' = [proc EXCEPT ![p] = s]
  BY DEF Collect
<1>3. Turn("collect", todo, "oneshots") \in {"collect", "oneshots"}
  BY DEF Turn
<1>4. Idle \in States /\ Idle.got = {}
  BY IdleState DEF TypeOK, Idle
<1> HIDE DEF todo
<1>5. s.pc \in {"collect", "oneshots"} /\ s.todo = todo /\ s.got = {} /\ s \in States
  BY <1>1, <1>3, <1>4 DEF States, Phases
<1> HIDE DEF s
<1> QED
  BY <1>1, <1>2, <1>5 DEF Moves, Quiet, Sorted

LEMMA BeginMoves ==
  ASSUME TypeOK, Apart, NEW p \in Procs, NEW ev \in Events, Begin(p, ev)
  PROVE  Quiet(proc[p]) /\ \E s : Moves(p, s) /\ Quiet(s)
<1>1. proc[p] \in States /\ Sorted(proc[p]) /\ profile \in Profiles /\ fired \subseteq Shots
  BY DEF TypeOK, Apart
<1>2. Quiet(proc[p])
  BY DEF Begin, At, Quiet
<1>3. CASE ev \in {"tool_call", "prompt"}
  <2> DEFINE s == [proc[p] EXCEPT !.pc = "record", !.cfg = profile,
                                  !.unit = IF ev = "prompt" THEN "prompts" ELSE "tool_calls"]
  <2>1. proc' = [proc EXCEPT ![p] = s]
    BY <1>3 DEF Begin, TypeOK
  <2>2. s \in States /\ s.pc = "record" /\ s.got = proc[p].got
    BY <1>1 DEF States, Phases, Units
  <2> HIDE DEF s
  <2> QED
    BY <1>1, <1>2, <2>1, <2>2 DEF Moves, Quiet, Sorted
<1>4. CASE ev = "session_start"
  BY <1>1, <1>2, <1>4, CollectMoves DEF Begin, Modes
<1>5. CASE ev = "compact"
  <2> DEFINE s == [proc[p] EXCEPT !.pc = Turn("clear_fired", fired, "primed"), !.cfg = profile,
                                  !.todo = fired]
  <2>1. proc' = [proc EXCEPT ![p] = s]
    BY <1>5 DEF Begin, TypeOK
  <2>2. Turn("clear_fired", fired, "primed") \in {"clear_fired", "primed"}
    BY DEF Turn
  <2>3. s \in States /\ s.pc \in {"clear_fired", "primed"} /\ s.got = proc[p].got /\ s.todo = fired
    BY <1>1, <2>2 DEF States, Phases
  <2> HIDE DEF s
  <2> QED
    BY <1>1, <1>2, <2>1, <2>3 DEF Moves, Quiet, Sorted
<1>6. CASE ev = "tool_batch"
  <2> DEFINE s == [proc[p] EXCEPT !.pc = "mode", !.cfg = profile]
  <2>1. proc' = [proc EXCEPT ![p] = s]
    BY <1>6 DEF Begin, TypeOK
  <2>2. s \in States /\ s.pc = "mode" /\ s.got = proc[p].got
    BY <1>1 DEF States, Phases
  <2> HIDE DEF s
  <2> QED
    BY <1>1, <1>2, <2>1, <2>2 DEF Moves, Quiet, Sorted
<1> QED
  BY <1>3, <1>4, <1>5, <1>6 DEF Events

\* After the loop that arms comes the flush of a prompt, or nothing.
LEMMA ArmedMoves ==
  ASSUME TypeOK, Apart, NEW p \in Procs, NEW todo \in SUBSET Names, Armed(p, todo)
  PROVE  \E s : /\ Moves(p, s) /\ s.pc # "emit"
                /\ \A x : (s.pc = "arm" /\ x \in s.todo) <=> x \in todo
<1>1. proc[p] \in States /\ Sorted(proc[p]) /\ Idle \in States
  BY IdleState DEF TypeOK, Apart
<1>2. CASE todo # {}
  <2> DEFINE s == [proc[p] EXCEPT !.pc = "arm", !.todo = todo]
  <2>1. proc' = [proc EXCEPT ![p] = s]
    BY <1>2 DEF Armed, TypeOK
  <2>2. s \in States /\ s.pc = "arm" /\ s.got = proc[p].got /\ s.todo = todo
    BY <1>1 DEF States, Phases
  <2> HIDE DEF s
  <2> QED
    BY <1>1, <2>1, <2>2 DEF Moves, Sorted
<1>3. CASE todo = {} /\ proc[p].unit = "prompts"
  <2> DEFINE s == [proc[p] EXCEPT !.pc = "mode", !.todo = {}]
  <2>1. proc' = [proc EXCEPT ![p] = s]
    BY <1>3 DEF Armed, TypeOK
  <2>2. s \in States /\ s.pc = "mode" /\ s.got = proc[p].got /\ s.todo = {}
    BY <1>1 DEF States, Phases
  <2> HIDE DEF s
  <2> QED
    BY <1>1, <1>3, <2>1, <2>2 DEF Moves, Sorted
<1>4. CASE todo = {} /\ proc[p].unit # "prompts"
  <2>1. proc' = [proc EXCEPT ![p] = Idle]
    BY <1>4 DEF Armed
  <2>2. Idle.pc = "idle"
    BY DEF Idle
  <2> QED
    BY <1>4, <2>1, <2>2, IdleMoves
<1> QED
  BY <1>2, <1>3, <1>4

\* The entries of a set of names, read with or without their markers.
LEMMA Entries ==
  ASSUME NEW xs \in SUBSET (Names \union Shots), NEW marked \in BOOLEAN
  PROVE  \A e \in {Entry(x, marked) : x \in xs} :
           /\ e \in [name : Names \union Shots, marked : BOOLEAN]
           /\ e.name \in xs /\ e.marked = marked
<1> TAKE e \in {Entry(x, marked) : x \in xs}
<1>1. PICK x \in xs : e = Entry(x, marked)
  OBVIOUS
<1>2. e = [name |-> x, marked |-> marked]
  BY <1>1 DEF Entry
<1> QED
  BY <1>2

\* Every other step starts and ends beside the loop that arms, and before the one that
\* emits or with nothing emitted.
QuietMove(p) == Quiet(proc[p]) /\ \E s : Moves(p, s) /\ s.pc # "arm"

LEMMA FlushStartsQuietly ==
  ASSUME TypeOK, NEW p \in Procs, Mode(p) \/ Compacted(p)
  PROVE  QuietMove(p)
<1>1. Quiet(proc[p]) /\ proc[p].cfg \in Profiles
  BY DEF Mode, Compacted, At, Quiet, TypeOK, States
<1>2. \E mode \in Modes : Collect(p, proc[p].cfg, mode)
  BY DEF Mode, Compacted, Modes
<1> QED
  BY <1>1, <1>2, CollectMoves DEF QuietMove, Quiet

\* A loop takes an item off its list, or a phase hands on.
LEMMA LoopsMoveQuietly ==
  ASSUME TypeOK, Apart, NEW p \in Procs,
         \/ ClearFired(p) \/ Read(p) \/ ReadOneshots(p) \/ RunHandlers(p) \/ SpendHandler(p)
         \/ Select(p) \/ RemindUnfire(p)
  PROVE  QuietMove(p)
<1> DEFINE old == proc[p]
<1>1. old \in States /\ Sorted(old) /\ pending \subseteq Names /\ proc \in [Procs -> States]
  BY DEF TypeOK, Apart
<1>2. Quiet(old)
  BY DEF ClearFired, Read, ReadOneshots, RunHandlers, SpendHandler, Select, Keep, RemindUnfire, At, Quiet
<1>3. ASSUME NEW pc, NEW next, NEW todo PROVE Turn(pc, todo, next) \in {pc, next}
  BY DEF Turn
<1>4. CASE ClearFired(p)
  <2>1. PICK x \in old.todo :
          /\ At(p, "clear_fired")
          /\ proc' = [proc EXCEPT ![p].pc = Turn("clear_fired", old.todo \ {x}, "primed"),
                                  ![p].todo = @ \ {x}]
    BY <1>4 DEF ClearFired
  <2> DEFINE s == [old EXCEPT !.pc = Turn("clear_fired", old.todo \ {x}, "primed"),
                              !.todo = old.todo \ {x}]
  <2>2. proc' = [proc EXCEPT ![p] = s]
    BY <1>1, <2>1
  <2>3. s \in States /\ s.pc \in {"clear_fired", "primed"} /\ s.got = old.got
        /\ s.todo = old.todo \ {x} /\ old.todo \subseteq Shots
    BY <1>1, <1>3, <2>1 DEF States, Phases, At, Sorted
  <2> HIDE DEF s
  <2> QED
    BY <1>1, <1>2, <2>2, <2>3 DEF QuietMove, Moves, Sorted
<1>5. CASE Read(p)
  <2>1. PICK x \in old.todo :
          /\ At(p, "collect")
          /\ LET wanted == x \in pending \/ (Kind(x) = "section" /\ old.mode # "pending")
             IN  proc' = [proc EXCEPT
                   ![p].pc = Turn("collect", old.todo \ {x}, "oneshots"), ![p].todo = @ \ {x},
                   ![p].got = IF wanted THEN @ \union {Entry(x, x \in pending)} ELSE @]
    BY <1>5 DEF Read
  <2> DEFINE e == Entry(x, x \in pending)
             wanted == x \in pending \/ (Kind(x) = "section" /\ old.mode # "pending")
             got == IF wanted THEN old.got \union {e} ELSE old.got
             s == [old EXCEPT !.pc = Turn("collect", old.todo \ {x}, "oneshots"),
                              !.todo = old.todo \ {x}, !.got = got]
  <2>2. proc' = [proc EXCEPT ![p] = s]
    BY <1>1, <2>1
  <2>3. old.todo \subseteq Names
    BY <1>1, <2>1 DEF At, Sorted
  <2>4. e \in [name : Names \union Shots, marked : BOOLEAN] /\ e.name \notin Shots
    BY <2>3, NamesApart DEF Entry
  <2> HIDE DEF e
  <2>5. /\ got \subseteq [name : Names \union Shots, marked : BOOLEAN]
        /\ \A y \in got : y.name \in Shots => y.marked
    BY <1>1, <2>4 DEF States, Sorted
  <2> HIDE DEF got, wanted
  <2>6. Turn("collect", old.todo \ {x}, "oneshots") \in {"collect", "oneshots"}
    BY DEF Turn
  <2>7. s \in States /\ s.pc \in {"collect", "oneshots"} /\ s.got = got /\ s.todo = old.todo \ {x}
    BY <1>1, <2>5, <2>6 DEF States, Phases
  <2> HIDE DEF s
  <2> QED
    BY <1>1, <1>2, <2>2, <2>3, <2>5, <2>7 DEF QuietMove, Moves, Sorted
<1>6. CASE ReadOneshots(p)
  <2>1. PICK shots \in SUBSET Shots :
          proc' = [proc EXCEPT ![p].pc = "run",
                               ![p].got = @ \union {Entry(x, TRUE) : x \in shots}]
    BY <1>6 DEF ReadOneshots
  <2> DEFINE new == {Entry(x, TRUE) : x \in shots}
             s == [old EXCEPT !.pc = "run", !.got = old.got \union new]
  <2>2. proc' = [proc EXCEPT ![p] = s]
    BY <1>1, <2>1
  <2>3. new \subseteq [name : Names \union Shots, marked : BOOLEAN] /\ \A e \in new : e.marked
    <3>1. shots \in SUBSET (Names \union Shots)
      OBVIOUS
    <3> QED
      BY <3>1, Entries
  <2> HIDE DEF new
  <2>4. s \in States /\ s.pc = "run" /\ s.got = old.got \union new
    BY <1>1, <2>3 DEF States, Phases
  <2> HIDE DEF s
  <2> QED
    BY <1>1, <1>2, <2>2, <2>3, <2>4 DEF QuietMove, Moves, Sorted
<1>7. CASE RunHandlers(p)
  <2>1. PICK ran \in SUBSET Active("handler", old.cfg) : \E spoke \in SUBSET ran :
          proc' = [proc EXCEPT ![p].pc = Turn("spend", ran, "select"), ![p].todo = ran,
                               ![p].got = @ \union {Entry(x, FALSE) : x \in spoke}]
    BY <1>7 DEF RunHandlers
  <2>2. PICK spoke \in SUBSET ran :
          proc' = [proc EXCEPT ![p].pc = Turn("spend", ran, "select"), ![p].todo = ran,
                               ![p].got = @ \union {Entry(x, FALSE) : x \in spoke}]
    BY <2>1
  <2> DEFINE new == {Entry(x, FALSE) : x \in spoke}
             s == [old EXCEPT !.pc = Turn("spend", ran, "select"), !.todo = ran,
                              !.got = old.got \union new]
  <2>3. proc' = [proc EXCEPT ![p] = s]
    BY <1>1, <2>2
  <2>4. ran \subseteq Names
    BY NamesApart
  <2>5. new \subseteq [name : Names \union Shots, marked : BOOLEAN] /\ \A e \in new : e.name \notin Shots
    <3>1. spoke \in SUBSET (Names \union Shots)
      BY <2>4
    <3> QED
      BY <2>4, <3>1, Entries, NamesApart
  <2> HIDE DEF new
  <2>6. Turn("spend", ran, "select") \in {"spend", "select"}
    BY DEF Turn
  <2>7. s \in States /\ s.pc \in {"spend", "select"} /\ s.got = old.got \union new /\ s.todo = ran
    BY <1>1, <2>4, <2>5, <2>6 DEF States, Phases
  <2> HIDE DEF s
  <2> QED
    BY <1>1, <1>2, <2>3, <2>4, <2>5, <2>7 DEF QuietMove, Moves, Sorted
<1>8. CASE SpendHandler(p)
  <2>1. PICK x \in old.todo :
          /\ At(p, "spend")
          /\ proc' = [proc EXCEPT ![p].pc = Turn("spend", old.todo \ {x}, "select"),
                                  ![p].todo = @ \ {x}]
    BY <1>8 DEF SpendHandler
  <2> DEFINE s == [old EXCEPT !.pc = Turn("spend", old.todo \ {x}, "select"),
                              !.todo = old.todo \ {x}]
  <2>2. proc' = [proc EXCEPT ![p] = s]
    BY <1>1, <2>1
  <2>3. s \in States /\ s.pc \in {"spend", "select"} /\ s.got = old.got
        /\ s.todo = old.todo \ {x} /\ old.todo \subseteq Names
    BY <1>1, <1>3, <2>1 DEF States, Phases, At, Sorted
  <2> HIDE DEF s
  <2> QED
    BY <1>1, <1>2, <2>2, <2>3 DEF QuietMove, Moves, Sorted
<1>9. CASE Select(p)
  <2>1. PICK kept \in SUBSET old.got : proc' = [proc EXCEPT ![p].pc = "emit", ![p].got = kept]
    BY <1>9 DEF Select, Keep
  <2> DEFINE s == [old EXCEPT !.pc = "emit", !.got = kept]
  <2>2. proc' = [proc EXCEPT ![p] = s]
    BY <1>1, <2>1
  <2>3. s \in States /\ s.pc = "emit" /\ s.got = kept
    BY <1>1 DEF States, Phases
  <2> HIDE DEF s
  <2> QED
    BY <1>1, <1>2, <2>2, <2>3 DEF QuietMove, Moves, Sorted
<1>10. CASE RemindUnfire(p)
  <2> DEFINE s == [old EXCEPT !.pc = "write_oneshot"]
  <2>1. proc' = [proc EXCEPT ![p] = s]
    BY <1>1, <1>10 DEF RemindUnfire
  <2>2. s \in States /\ s.pc = "write_oneshot" /\ s.got = old.got /\ s.todo = old.todo
        /\ old.todo \subseteq Shots
    BY <1>1, <1>10 DEF States, Phases, RemindUnfire, At, Sorted
  <2> HIDE DEF s
  <2> QED
    BY <1>1, <1>2, <2>1, <2>2 DEF QuietMove, Moves, Sorted
<1> QED
  BY <1>4, <1>5, <1>6, <1>7, <1>8, <1>9, <1>10

\* `gaff remind` and `gaff profile set`.
LEMMA CommandsMoveQuietly ==
  ASSUME TypeOK, Apart, NEW p \in Procs,
         \/ \E x \in Shots : Remind(p, x)
         \/ \E name \in Profiles : SetProfile(p, name)
         \/ WriteOneshot(p) \/ WriteReprime(p)
  PROVE  QuietMove(p)
<1> DEFINE old == proc[p]
<1>1. old \in States /\ Sorted(old) /\ proc \in [Procs -> States] /\ counts \in [Units -> Nat]
  BY DEF TypeOK, Apart
<1>2. Quiet(old)
  BY DEF Remind, SetProfile, WriteOneshot, WriteReprime, At, Quiet
<1>3. ASSUME NEW x \in Shots, Remind(p, x) PROVE QuietMove(p)
  <2> DEFINE s == [old EXCEPT !.pc = "unfire", !.todo = {x}, !.at = counts["tool_calls"] + 1]
  <2>1. proc' = [proc EXCEPT ![p] = s]
    BY <1>1, <1>3 DEF Remind
  <2>2. counts["tool_calls"] + 1 \in Nat
    BY <1>1 DEF Units
  <2>3. s \in States /\ s.pc = "unfire" /\ s.got = old.got /\ s.todo = {x}
    BY <1>1, <2>2 DEF States, Phases
  <2> HIDE DEF s
  <2> QED
    BY <1>1, <1>2, <2>1, <2>3 DEF QuietMove, Moves, Sorted
<1>4. ASSUME NEW name \in Profiles, SetProfile(p, name) PROVE QuietMove(p)
  <2> DEFINE s == [old EXCEPT !.pc = "reprime"]
  <2>1. proc' = [proc EXCEPT ![p] = s]
    BY <1>1, <1>4 DEF SetProfile
  <2>2. s \in States /\ s.pc = "reprime" /\ s.got = old.got
    BY <1>1 DEF States, Phases
  <2> HIDE DEF s
  <2> QED
    BY <1>1, <1>2, <2>1, <2>2 DEF QuietMove, Moves, Sorted
<1>5. CASE WriteOneshot(p) \/ WriteReprime(p)
  <2>1. proc' = [proc EXCEPT ![p] = Idle]
    BY <1>5 DEF WriteOneshot, WriteReprime
  <2>2. Idle.pc # "arm"
    BY DEF Idle
  <2> QED
    BY <1>2, <2>1, <2>2, IdleMoves DEF QuietMove
<1> QED
  BY <1>3, <1>4, <1>5

\* An entry goes from the list to the output, or is dropped.
LEMMA EmitMoves ==
  ASSUME TypeOK, Apart, NEW p \in Procs, NEW e \in proc[p].got, At(p, "emit"),
         NEW out \in {proc[p].out, proc[p].out \union {e.name}},
         proc' = [proc EXCEPT ![p].got = @ \ {e}, ![p].out = out]
  PROVE  \E s : Moves(p, s) /\ s.pc = "emit" /\ s.out = out
<1> DEFINE old == proc[p]
           s == [old EXCEPT !.got = @ \ {e}, !.out = out]
<1>1. old \in States /\ Sorted(old) /\ proc \in [Procs -> States] /\ old.pc = "emit"
  BY DEF TypeOK, Apart, At
<1>2. e.name \in Names \union Shots
  BY <1>1 DEF States
<1>3. proc' = [proc EXCEPT ![p] = s]
  BY <1>1
<1>4. s \in States /\ s.pc = "emit" /\ s.got = old.got \ {e} /\ s.out = out
  BY <1>1, <1>2 DEF States
<1> HIDE DEF s
<1> QED
  BY <1>1, <1>3, <1>4 DEF Moves, Sorted

-----------------------------------------------------------------------------
(* What a step does to the carriers of a crossing.                         *)

Bit(b) == IF b THEN 1 ELSE 0

\* The processes about to write the marker of x.
Armers(x) == {q \in Procs : Arming(q, x)}

LEMMA OneApart ==
  ASSUME NEW P, IsFiniteSet(P), NEW S \in SUBSET P, NEW p \in P
  PROVE  /\ Cardinality(S \ {p}) \in Nat
         /\ Cardinality(S) = Cardinality(S \ {p}) + Bit(p \in S)
<1>1. IsFiniteSet(S) /\ IsFiniteSet(S \ {p})
  BY FS_Subset
<1>2. Cardinality(S) \in Nat /\ Cardinality(S \ {p}) \in Nat
  BY <1>1, FS_CardinalityType
<1>3. CASE p \in S
  <2>1. Cardinality(S \ {p}) = Cardinality(S) - 1
    BY <1>1, <1>3, FS_RemoveElement
  <2> QED
    BY <1>2, <1>3, <2>1 DEF Bit
<1>4. CASE p \notin S
  <2>1. S \ {p} = S
    BY <1>4
  <2> QED
    BY <1>2, <1>4, <2>1 DEF Bit
<1> QED
  BY <1>3, <1>4

\* A step leaves the other processes' records, and its process is sorted as before.
LEMMA OthersStay ==
  ASSUME TypeOK, Apart, NEW p \in Procs, NEW s, Moves(p, s)
  PROVE  /\ proc' \in [Procs -> States] /\ Apart'
         /\ proc'[p] = s
         /\ \A q \in Procs \ {p} : proc'[q] = proc[q]
<1>1. s \in States /\ Sorted(s) /\ proc \in [Procs -> States] /\ proc' = [proc EXCEPT ![p] = s]
  BY DEF Moves, TypeOK
<1>2. /\ proc' \in [Procs -> States] /\ proc'[p] = s
      /\ \A q \in Procs \ {p} : proc'[q] = proc[q]
  BY <1>1, Replaced
<1>3. ASSUME NEW q \in Procs PROVE Sorted(proc'[q])
  <2>1. CASE q = p
    BY <1>1, <1>2, <2>1
  <2>2. CASE q # p
    BY <1>2, <2>2 DEF Apart
  <2> QED
    BY <2>1, <2>2
<1> QED
  BY <1>2, <1>3 DEF Apart, Sorted

\* The armers of a name but for the process of the step are the same.
LEMMA ArmersMove ==
  ASSUME TypeOK, Apart, NEW p \in Procs, NEW s, Moves(p, s), NEW x
  PROVE  \E others \in Nat :
           /\ Cardinality(Armers(x)) = others + Bit(Arming(p, x))
           /\ Cardinality(Armers(x)') = others + Bit(s.pc = "arm" /\ x \in s.todo)
<1> DEFINE rest == Cardinality(Armers(x) \ {p})
<1>1. Armers(x) \in SUBSET Procs /\ Armers(x)' \in SUBSET Procs /\ IsFiniteSet(Procs)
  BY NamesApart DEF Armers
<1>2. Armers(x)' \ {p} = Armers(x) \ {p}
  BY OthersStay DEF Armers, Arming, At
<1>3. /\ p \in Armers(x) <=> Arming(p, x)
      /\ p \in Armers(x)' <=> (s.pc = "arm" /\ x \in s.todo)
  BY OthersStay DEF Armers, Arming, At
<1>4. rest \in Nat /\ Cardinality(Armers(x)) = rest + Bit(p \in Armers(x))
  BY <1>1, OneApart
<1>5. Cardinality(Armers(x)') = rest + Bit(p \in Armers(x)')
  BY <1>1, <1>2, OneApart
<1> QED
  BY <1>3, <1>4, <1>5 DEF Bit

\* What is on its way without p stays on its way, if its marker stays.
LEMMA OthersCarry ==
  ASSUME TypeOK, Apart, NEW p \in Procs, NEW s, Moves(p, s), NEW x,
         x \in pending => x \in pending', OnItsWay(x, Procs \ {p})
  PROVE  OnItsWay(x, Procs)'
BY OthersStay DEF OnItsWay, Arming, At

\* What is on its way is so without p, or p carries it.
LEMMA CarriedBy ==
  ASSUME NEW p \in Procs, NEW x, OnItsWay(x, Procs)
  PROVE  \/ OnItsWay(x, Procs \ {p})
         \/ Arming(p, x)
         \/ At(p, "emit") /\ x \in proc[p].out
BY DEF OnItsWay

\* A quiet step neither writes a marker nor prints.
LEMMA QuietCarries ==
  ASSUME TypeOK, Apart, NEW p \in Procs, QuietMove(p)
  PROVE  /\ proc' \in [Procs -> States] /\ Apart'
         /\ \A x : Cardinality(Armers(x)') = Cardinality(Armers(x))
         /\ \A x : (OnItsWay(x, Procs) /\ (x \in pending => x \in pending')) => OnItsWay(x, Procs)'
<1>1. PICK s : Moves(p, s) /\ s.pc # "arm"
  BY DEF QuietMove
<1>2. ~At(p, "arm") /\ ~At(p, "emit")
  BY DEF QuietMove, Quiet, At
<1>3. ASSUME NEW x PROVE Cardinality(Armers(x)') = Cardinality(Armers(x))
  <2>1. ~Arming(p, x) /\ ~(s.pc = "arm" /\ x \in s.todo)
    BY <1>1, <1>2 DEF Arming
  <2> QED
    BY <1>1, <2>1, ArmersMove DEF Bit
<1>4. ASSUME NEW x, OnItsWay(x, Procs), x \in pending => x \in pending'
      PROVE  OnItsWay(x, Procs)'
  BY <1>1, <1>2, <1>4, CarriedBy, OthersCarry DEF Arming
<1> QED
  BY <1>1, <1>3, <1>4, OthersStay

\* Backed, in these terms.
LEMMA BackedCounts ==
  /\ Backed <=> /\ \A x \in Names : credit[x] >= Bit(x \in pending) + Cardinality(Armers(x))
                /\ \A s \in Shots : credit[s] = Bit(s \notin fired)
  /\ Backed' <=> /\ \A x \in Names : credit'[x] >= Bit(x \in pending') + Cardinality(Armers(x)')
                 /\ \A s \in Shots : credit'[s] = Bit(s \notin fired')
BY DEF Backed, Bit, Armers

-----------------------------------------------------------------------------
(* What a step does to the files and to the history.                       *)

\* TypeOK but for the processes' records.
FilesOK ==
  /\ counts \in [Units -> Nat]
  /\ pending \subseteq Names
  /\ shot \in [Shots -> Nat]
  /\ fired \subseteq Shots
  /\ profile \in Profiles /\ reprime \in BOOLEAN /\ unprimed \in BOOLEAN
  /\ owed \subseteq Names
  /\ credit \in [Names \union Shots -> Int]
  /\ left \in [Causes -> Nat]

LEMMA Typed ==
  /\ TypeOK <=> FilesOK /\ proc \in [Procs -> States]
  /\ TypeOK' <=> FilesOK' /\ proc' \in [Procs -> States]
BY DEF TypeOK, FilesOK

LEMMA Spent ==
  ASSUME left \in [Causes -> Nat], NEW cause \in Causes, Spend(cause)
  PROVE  left' \in [Causes -> Nat]
BY DEF Spend

\* The steps that touch none of the markers and of their history.
Aside(p) ==
  \/ \E ev \in Events : Begin(p, ev)
  \/ Mode(p) \/ Compacted(p) \/ Read(p) \/ ReadOneshots(p) \/ RunHandlers(p) \/ Select(p)
  \/ \E x \in Shots : Remind(p, x)
  \/ \E name \in Profiles : SetProfile(p, name)
  \/ WriteOneshot(p) \/ WriteReprime(p)

LEMMA AsideStep ==
  ASSUME TypeOK, Apart, NEW p \in Procs, Aside(p)
  PROVE  QuietMove(p) /\ FilesOK' /\ UNCHANGED <<pending, fired, owed, credit>>
<1> DEFINE Same == UNCHANGED <<pending, fired, owed, credit>>
<1>1. FilesOK /\ proc \in [Procs -> States]
  BY Typed
<1>2. ASSUME NEW ev \in Events, Begin(p, ev) PROVE QuietMove(p) /\ FilesOK' /\ Same
  <2>1. QuietMove(p)
    BY <1>2, BeginMoves DEF QuietMove, Quiet
  <2>2. left' \in [Causes -> Nat]
    BY <1>1, <1>2, Spent DEF Begin, FilesOK, Events, Causes
  <2> QED
    BY <1>1, <1>2, <2>1, <2>2 DEF Begin, FilesOK, markers
<1>3. ASSUME Mode(p) \/ Compacted(p) PROVE QuietMove(p) /\ FilesOK' /\ Same
  BY <1>1, <1>3, FlushStartsQuietly DEF Mode, Compacted, FilesOK, markers
<1>4. ASSUME Read(p) \/ ReadOneshots(p) \/ RunHandlers(p) PROVE QuietMove(p) /\ FilesOK' /\ Same
  <2>1. UNCHANGED <<counts, markers, profile, reprime, owed, credit, unprimed, left>>
    BY <1>4 DEF Read, ReadOneshots, RunHandlers
  <2> QED
    BY <1>1, <1>4, <2>1, LoopsMoveQuietly DEF FilesOK, markers
<1>5. ASSUME Select(p) PROVE QuietMove(p) /\ FilesOK' /\ Same
  <2>1. UNCHANGED left \/ Spend("heldback")
    BY <1>5 DEF Select, Keep
  <2>2. left' \in [Causes -> Nat]
    BY <1>1, <2>1, Spent DEF FilesOK, Causes
  <2>3. UNCHANGED <<counts, markers, profile, reprime, owed, credit, unprimed>>
    BY <1>5 DEF Select
  <2> QED
    BY <1>1, <1>5, <2>2, <2>3, LoopsMoveQuietly DEF FilesOK, markers
<1>6. ASSUME NEW x \in Shots, Remind(p, x) PROVE QuietMove(p) /\ FilesOK' /\ Same
  <2>1. left' \in [Causes -> Nat]
    BY <1>1, <1>6, Spent DEF Remind, FilesOK, Causes
  <2>2. UNCHANGED <<counts, markers, profile, reprime, owed, credit, unprimed>>
    BY <1>6 DEF Remind
  <2> QED
    BY <1>1, <1>6, <2>1, <2>2, CommandsMoveQuietly DEF FilesOK, markers
<1>7. ASSUME NEW name \in Profiles, SetProfile(p, name) PROVE QuietMove(p) /\ FilesOK' /\ Same
  <2>1. left' \in [Causes -> Nat]
    BY <1>1, <1>7, Spent DEF SetProfile, FilesOK, Causes
  <2>2. UNCHANGED <<counts, markers, reprime, owed, credit>> /\ profile' = name /\ unprimed' = TRUE
    BY <1>7 DEF SetProfile
  <2> QED
    BY <1>1, <1>7, <2>1, <2>2, CommandsMoveQuietly DEF FilesOK, markers
<1>8. ASSUME WriteOneshot(p) PROVE QuietMove(p) /\ FilesOK' /\ Same
  <2>1. shot' \in [Shots -> Nat]
    <3>1. proc[p].at \in Nat /\ proc[p].todo \subseteq Shots
      BY <1>1, <1>8 DEF States, Apart, Sorted, WriteOneshot, At
    <3>2. PICK x \in proc[p].todo : shot' = [shot EXCEPT ![x] = proc[p].at]
      BY <1>8 DEF WriteOneshot
    <3> QED
      BY <1>1, <3>1, <3>2 DEF FilesOK
  <2> QED
    BY <1>1, <1>8, <2>1, CommandsMoveQuietly DEF WriteOneshot, FilesOK
<1>9. ASSUME WriteReprime(p) PROVE QuietMove(p) /\ FilesOK' /\ Same
  BY <1>1, <1>9, CommandsMoveQuietly DEF WriteReprime, FilesOK, markers
<1> QED
  BY <1>2, <1>3, <1>4, <1>5, <1>6, <1>7, <1>8, <1>9 DEF Aside

\* What every step keeps: the invariant, and the crossings on their way.
Kept == SessionInv' /\ (CrossingKept => CrossingKept')

LEMMA AsideKeeps ==
  ASSUME SessionInv, NEW p \in Procs, Aside(p)
  PROVE  Kept
<1>1. TypeOK /\ Apart /\ Backed
  BY DEF SessionInv
<1>2. QuietMove(p) /\ FilesOK' /\ UNCHANGED <<pending, fired, owed, credit>>
  BY <1>1, AsideStep
<1>3. TypeOK' /\ Apart'
  BY <1>1, <1>2, QuietCarries, Typed
<1>4. Backed'
  BY <1>1, <1>2, QuietCarries, BackedCounts
<1>5. CrossingKept => CrossingKept'
  BY <1>1, <1>2, QuietCarries DEF CrossingKept
<1> QED
  BY <1>3, <1>4, <1>5 DEF Kept, SessionInv

-----------------------------------------------------------------------------
(* The steps on the markers.                                               *)

\* The count crosses, and the hook has the markers to write.
LEMMA RecordKeeps ==
  ASSUME SessionInv, NEW p \in Procs, Record(p)
  PROVE  Kept
<1> DEFINE u == proc[p].unit
           crossed == Crossed(proc[p].cfg, u, counts[u] + 1)
<1>1. TypeOK /\ Apart /\ Backed /\ FilesOK
  BY Typed DEF SessionInv
<1>2. /\ Armed(p, crossed) /\ owed' = owed \union crossed /\ ~At(p, "arm") /\ ~At(p, "emit")
      /\ credit' = [x \in DOMAIN credit |-> credit[x] + (IF x \in crossed THEN 1 ELSE 0)]
      /\ counts' = [counts EXCEPT ![u] = @ + 1]
      /\ UNCHANGED <<markers, profile, reprime, unprimed, left>>
  BY DEF Record, At
<1>3. crossed \in SUBSET Names /\ u \in Units
  BY <1>1, NamesApart DEF TypeOK, States
<1> HIDE DEF crossed, u
<1>4. PICK s : /\ Moves(p, s) /\ s.pc # "emit"
               /\ \A x : (s.pc = "arm" /\ x \in s.todo) <=> x \in crossed
  BY <1>1, <1>2, <1>3, ArmedMoves
<1>5. TypeOK' /\ Apart'
  <2>1. counts' \in [Units -> Nat]
    BY <1>1, <1>2, <1>3 DEF FilesOK
  <2>2. credit' \in [Names \union Shots -> Int]
    BY <1>1, <1>2 DEF FilesOK
  <2>3. FilesOK'
    BY <1>1, <1>2, <1>3, <2>1, <2>2 DEF FilesOK, markers
  <2> QED
    BY <1>1, <1>4, <2>3, OthersStay, Typed
<1>6. Backed'
  <2>1. ASSUME NEW x \in Names
        PROVE  credit'[x] >= Bit(x \in pending') + Cardinality(Armers(x)')
    <3>1. PICK others \in Nat : /\ Cardinality(Armers(x)) = others + Bit(Arming(p, x))
                                /\ Cardinality(Armers(x)') = others + Bit(s.pc = "arm" /\ x \in s.todo)
      BY <1>1, <1>4, ArmersMove
    <3>2. credit'[x] = credit[x] + Bit(x \in crossed) /\ credit[x] \in Int
      BY <1>1, <1>2 DEF FilesOK, Bit
    <3>3. credit[x] >= Bit(x \in pending) + others /\ pending' = pending
      BY <1>1, <1>2, <3>1, BackedCounts DEF Arming, Bit, markers
    <3> QED
      BY <1>4, <3>1, <3>2, <3>3 DEF Bit
  <2>2. ASSUME NEW x \in Shots PROVE credit'[x] = Bit(x \notin fired')
    BY <1>1, <1>2, <1>3, NamesApart, BackedCounts DEF FilesOK, Bit, markers
  <2> QED
    BY <2>1, <2>2, BackedCounts
<1>7. CrossingKept => CrossingKept'
  <2> SUFFICES ASSUME CrossingKept, NEW x \in owed' PROVE OnItsWay(x, Procs)'
    BY DEF CrossingKept
  <2>1. CASE x \in crossed
    BY <1>1, <1>4, <2>1, OthersStay DEF OnItsWay, Arming, At
  <2>2. CASE x \notin crossed
    <3>1. OnItsWay(x, Procs)
      BY <1>2, <2>2 DEF CrossingKept
    <3>2. OnItsWay(x, Procs \ {p})
      BY <1>2, <3>1, CarriedBy DEF Arming
    <3> QED
      BY <1>1, <1>2, <1>4, <3>2, OthersCarry DEF markers
  <2> QED
    BY <2>1, <2>2
<1> QED
  BY <1>5, <1>6, <1>7 DEF Kept, SessionInv

\* A marker is written.
LEMMA ArmKeeps ==
  ASSUME SessionInv, NEW p \in Procs, Arm(p)
  PROVE  Kept
<1>1. TypeOK /\ Apart /\ Backed /\ FilesOK
  BY Typed DEF SessionInv
<1>2. PICK a \in proc[p].todo :
        /\ At(p, "arm") /\ pending' = pending \union {a} /\ Armed(p, proc[p].todo \ {a})
        /\ UNCHANGED <<counts, shot, fired, profile, reprime, owed, credit, unprimed, left>>
  BY DEF Arm
<1>3. proc[p].todo \subseteq Names
  BY <1>1, <1>2 DEF Apart, Sorted, At
<1>4. PICK s : /\ Moves(p, s) /\ s.pc # "emit"
               /\ \A x : (s.pc = "arm" /\ x \in s.todo) <=> x \in proc[p].todo \ {a}
  BY <1>1, <1>2, <1>3, ArmedMoves
<1>5. TypeOK' /\ Apart'
  <2>1. FilesOK'
    BY <1>1, <1>2, <1>3 DEF FilesOK
  <2> QED
    BY <1>1, <1>4, <2>1, OthersStay, Typed
<1>6. Backed'
  <2>1. ASSUME NEW x \in Names
        PROVE  credit'[x] >= Bit(x \in pending') + Cardinality(Armers(x)')
    <3>1. PICK others \in Nat : /\ Cardinality(Armers(x)) = others + Bit(Arming(p, x))
                                /\ Cardinality(Armers(x)') = others + Bit(s.pc = "arm" /\ x \in s.todo)
      BY <1>1, <1>4, ArmersMove
    <3>2. Arming(p, x) <=> x \in proc[p].todo
      BY <1>2 DEF Arming
    <3>3. credit[x] >= Bit(x \in pending) + others + Bit(x \in proc[p].todo) /\ credit[x] \in Int
      BY <1>1, <3>1, <3>2, BackedCounts DEF Bit, FilesOK
    <3>4. Cardinality(Armers(x)') = others + Bit(x \in proc[p].todo \ {a})
      BY <1>4, <3>1 DEF Bit
    <3> QED
      BY <1>2, <3>3, <3>4 DEF Bit
  <2> QED
    BY <1>1, <1>2, <2>1, BackedCounts
<1>7. CrossingKept => CrossingKept'
  <2> SUFFICES ASSUME CrossingKept, NEW x \in owed' PROVE OnItsWay(x, Procs)'
    BY DEF CrossingKept
  <2>1. OnItsWay(x, Procs)
    BY <1>2 DEF CrossingKept
  <2>2. CASE x = a
    BY <1>2, <2>2 DEF OnItsWay
  <2>3. CASE Arming(p, x) /\ x # a
    BY <1>1, <1>4, <2>3, OthersStay DEF OnItsWay, Arming, At
  <2>4. CASE OnItsWay(x, Procs \ {p})
    BY <1>1, <1>2, <1>4, <2>4, OthersCarry
  <2> QED
    BY <1>2, <2>1, <2>2, <2>3, <2>4, CarriedBy DEF At
<1> QED
  BY <1>5, <1>6, <1>7 DEF Kept, SessionInv

\* A fired marker is removed.
LEMMA UnfireKeeps ==
  ASSUME SessionInv, NEW p \in Procs, ClearFired(p) \/ RemindUnfire(p)
  PROVE  Kept
<1>1. TypeOK /\ Apart /\ Backed /\ FilesOK
  BY Typed DEF SessionInv
<1>2. QuietMove(p)
  BY <1>1, LoopsMoveQuietly
<1>3. proc[p].todo \subseteq Shots
  BY <1>1 DEF Apart, Sorted, ClearFired, RemindUnfire, At
<1>4. PICK s \in Shots : Unfire(s)
  BY <1>3 DEF ClearFired, RemindUnfire
<1>5. UNCHANGED <<counts, pending, shot, profile, reprime, owed, unprimed, left>>
  BY DEF ClearFired, RemindUnfire
<1>6. /\ fired' = fired \ {s}
      /\ credit' = [credit EXCEPT ![s] = @ + Bit(s \in fired)]
  BY <1>4 DEF Unfire, Bit
<1>7. TypeOK' /\ Apart'
  <2>1. FilesOK'
    BY <1>1, <1>5, <1>6 DEF FilesOK, Bit
  <2> QED
    BY <1>1, <1>2, <2>1, QuietCarries, Typed
<1>8. Backed'
  <2>1. \A x \in Names : credit'[x] = credit[x]
    BY <1>1, <1>6, NamesApart DEF FilesOK
  <2>2. ASSUME NEW x \in Shots PROVE credit'[x] = Bit(x \notin fired')
    <3>1. credit[x] = Bit(x \notin fired)
      BY <1>1, BackedCounts
    <3>2. CASE x = s
      BY <1>1, <1>6, <3>1, <3>2 DEF FilesOK, Bit
    <3>3. CASE x # s
      BY <1>1, <1>6, <3>1, <3>3 DEF FilesOK, Bit
    <3> QED
      BY <3>2, <3>3
  <2> QED
    BY <1>1, <1>2, <1>5, <2>1, <2>2, QuietCarries, BackedCounts
<1>9. CrossingKept => CrossingKept'
  BY <1>1, <1>2, <1>5, QuietCarries DEF CrossingKept
<1> QED
  BY <1>7, <1>8, <1>9 DEF Kept, SessionInv

\* A handler that ran spends the marker that is there.
LEMMA SpendHandlerKeeps ==
  ASSUME SessionInv, NEW p \in Procs, SpendHandler(p)
  PROVE  Kept
<1>1. TypeOK /\ Apart /\ Backed /\ FilesOK
  BY Typed DEF SessionInv
<1>2. QuietMove(p)
  BY <1>1, LoopsMoveQuietly
<1>3. PICK h \in proc[p].todo :
        /\ At(p, "spend") /\ pending' = pending \ {h} /\ owed' = owed \ {h}
        /\ credit' = [credit EXCEPT ![h] = @ - (IF h \in pending THEN 1 ELSE 0)]
        /\ UNCHANGED <<counts, shot, fired, profile, reprime, unprimed, left>>
  BY DEF SpendHandler
<1>4. h \in Names
  BY <1>1, <1>3 DEF Apart, Sorted, At
<1>5. TypeOK' /\ Apart'
  <2>1. FilesOK'
    BY <1>1, <1>3, <1>4 DEF FilesOK
  <2> QED
    BY <1>1, <1>2, <2>1, QuietCarries, Typed
<1>6. Backed'
  <2>1. ASSUME NEW x \in Names
        PROVE  credit'[x] >= Bit(x \in pending') + Cardinality(Armers(x)')
    <3>1. /\ credit[x] >= Bit(x \in pending) + Cardinality(Armers(x)) /\ credit[x] \in Int
          /\ Cardinality(Armers(x)') = Cardinality(Armers(x))
      BY <1>1, <1>2, QuietCarries, BackedCounts DEF FilesOK
    <3>2. Cardinality(Armers(x)) \in Nat
      BY NamesApart, FS_Subset, FS_CardinalityType DEF Armers
    <3>3. CASE x = h
      BY <1>1, <1>3, <3>1, <3>2, <3>3 DEF FilesOK, Bit
    <3>4. CASE x # h
      BY <1>1, <1>3, <3>1, <3>2, <3>4 DEF FilesOK, Bit
    <3> QED
      BY <3>3, <3>4
  <2>2. \A x \in Shots : credit'[x] = credit[x]
    BY <1>1, <1>3, <1>4, NamesApart DEF FilesOK
  <2> QED
    BY <1>1, <1>3, <2>1, <2>2, BackedCounts
<1>7. CrossingKept => CrossingKept'
  BY <1>1, <1>2, <1>3, QuietCarries DEF CrossingKept
<1> QED
  BY <1>5, <1>6, <1>7 DEF Kept, SessionInv

\* An entry is claimed and emitted, or it is another process's.
LEMMA EmitKeeps ==
  ASSUME SessionInv, NEW p \in Procs, Emit(p)
  PROVE  Kept
<1>1. TypeOK /\ Apart /\ Backed /\ FilesOK
  BY Typed DEF SessionInv
<1>2. PICK e \in proc[p].got :
        LET won == e.marked => Unclaimed(e)
        IN  /\ At(p, "emit")
            /\ proc' = [proc EXCEPT ![p].got = @ \ {e},
                                    ![p].out = IF won THEN @ \union {e.name} ELSE @]
            /\ pending' = IF e.marked THEN pending \ {e.name} ELSE pending
            /\ fired' = IF e.name \in Shots THEN fired \union {e.name} ELSE fired
            /\ credit' = IF won /\ e.marked THEN [credit EXCEPT ![e.name] = @ - 1] ELSE credit
            /\ UNCHANGED <<counts, shot, profile, reprime, owed, unprimed, left>>
  BY DEF Emit
<1> DEFINE won == e.marked => Unclaimed(e)
<1>3. e.name \in Names \union Shots /\ e.marked \in BOOLEAN /\ (e.name \in Shots => e.marked)
  BY <1>1 DEF Apart, Sorted, TypeOK, States
<1>4. PICK s : /\ Moves(p, s) /\ s.pc = "emit"
               /\ s.out = IF won THEN proc[p].out \union {e.name} ELSE proc[p].out
  <2> DEFINE out == IF won THEN proc[p].out \union {e.name} ELSE proc[p].out
  <2>1. proc' = [proc EXCEPT ![p].got = @ \ {e}, ![p].out = out]
    BY <1>2
  <2>2. out \in {proc[p].out, proc[p].out \union {e.name}}
    OBVIOUS
  <2> HIDE DEF out
  <2>3. \E s : Moves(p, s) /\ s.pc = "emit" /\ s.out = out
    BY <1>1, <1>2, <2>1, <2>2, EmitMoves
  <2> QED
    BY <2>3 DEF out
<1>5. TypeOK' /\ Apart'
  <2>1. /\ pending' \subseteq Names /\ fired' \subseteq Shots
        /\ credit' \in [Names \union Shots -> Int]
    BY <1>1, <1>2, <1>3 DEF FilesOK
  <2>2. FilesOK'
    BY <1>1, <1>2, <2>1 DEF FilesOK
  <2> QED
    BY <1>1, <1>4, <2>2, OthersStay, Typed
<1>6. Backed'
  <2>1. ASSUME NEW x \in Names
        PROVE  credit'[x] >= Bit(x \in pending') + Cardinality(Armers(x)')
    <3>1. PICK others \in Nat : /\ Cardinality(Armers(x)) = others + Bit(Arming(p, x))
                                /\ Cardinality(Armers(x)') = others + Bit(s.pc = "arm" /\ x \in s.todo)
      BY <1>1, <1>4, ArmersMove
    <3>2. credit[x] >= Bit(x \in pending) + others /\ credit[x] \in Int
          /\ Cardinality(Armers(x)') = others
      BY <1>1, <1>2, <1>4, <3>1, BackedCounts DEF Arming, At, Bit, FilesOK
    <3>3. CASE x = e.name /\ e.marked /\ x \in pending
      <4>1. won /\ x \notin pending'
        BY <1>2, <3>3, NamesApart DEF Unclaimed
      <4>2. credit'[x] = credit[x] - 1
        BY <1>1, <1>2, <3>3, <4>1 DEF FilesOK
      <4> QED
        BY <3>2, <3>3, <4>1, <4>2 DEF Bit
    <3>4. CASE ~(x = e.name /\ e.marked /\ x \in pending)
      <4>1. x = e.name /\ e.marked => ~won
        BY <3>4, NamesApart DEF Unclaimed
      <4>2. credit'[x] = credit[x]
        BY <1>1, <1>2, <1>3, <4>1 DEF FilesOK
      <4>3. x \in pending' <=> x \in pending
        BY <1>2, <3>4
      <4> QED
        BY <3>2, <4>2, <4>3 DEF Bit
    <3> QED
      BY <3>3, <3>4
  <2>2. ASSUME NEW x \in Shots PROVE credit'[x] = Bit(x \notin fired')
    <3>1. credit[x] = Bit(x \notin fired)
      BY <1>1, BackedCounts
    <3>2. CASE x = e.name
      <4>1. e.marked /\ (won <=> x \notin fired) /\ x \in fired'
        BY <1>2, <1>3, <3>2 DEF Unclaimed
      <4> QED
        BY <1>1, <1>2, <3>1, <3>2, <4>1 DEF FilesOK, Bit
    <3>3. CASE x # e.name
      BY <1>1, <1>2, <1>3, <3>1, <3>3 DEF FilesOK, Bit
    <3> QED
      BY <3>2, <3>3
  <2> QED
    BY <2>1, <2>2, BackedCounts
<1>7. CrossingKept => CrossingKept'
  <2> SUFFICES ASSUME CrossingKept, NEW x \in owed' PROVE OnItsWay(x, Procs)'
    BY DEF CrossingKept
  <2>1. OnItsWay(x, Procs) /\ x \notin Shots
    BY <1>1, <1>2, NamesApart DEF CrossingKept, FilesOK
  <2>2. CASE x \in s.out
    BY <1>1, <1>4, <2>2, OthersStay DEF OnItsWay, At
  <2>3. CASE x \notin s.out
    <3>1. ~Arming(p, x) /\ x \notin proc[p].out
      BY <1>2, <1>4, <2>3 DEF Arming, At
    <3>2. OnItsWay(x, Procs \ {p})
      BY <2>1, <3>1, CarriedBy
    <3>3. x \in pending => x \in pending'
      BY <1>2, <1>4, <2>1, <2>3 DEF Unclaimed
    <3> QED
      BY <1>1, <1>4, <3>2, <3>3, OthersCarry
  <2> QED
    BY <2>2, <2>3
<1> QED
  BY <1>5, <1>6, <1>7 DEF Kept, SessionInv

-----------------------------------------------------------------------------
(* The end of a process.                                                   *)

\* A process that ends keeps no marker from being backed.
LEMMA IdleBacks ==
  ASSUME SessionInv, NEW p \in Procs, proc' = [proc EXCEPT ![p] = Idle], FilesOK',
         UNCHANGED <<pending, fired, credit>>
  PROVE  SessionInv'
<1>1. TypeOK /\ Apart /\ Backed /\ FilesOK
  BY Typed DEF SessionInv
<1>2. Moves(p, Idle) /\ Idle.pc # "arm"
  BY <1>1, IdleMoves DEF Quiet
<1>3. TypeOK' /\ Apart'
  BY <1>1, <1>2, OthersStay, Typed
<1>4. Backed'
  <2>1. ASSUME NEW x \in Names
        PROVE  credit'[x] >= Bit(x \in pending') + Cardinality(Armers(x)')
    <3>1. PICK others \in Nat : /\ Cardinality(Armers(x)) = others + Bit(Arming(p, x))
                                /\ Cardinality(Armers(x)') = others + Bit(Idle.pc = "arm" /\ x \in Idle.todo)
      BY <1>1, <1>2, ArmersMove
    <3> QED
      BY <1>1, <1>2, <3>1, BackedCounts DEF Bit, FilesOK
  <2> QED
    BY <1>1, <2>1, BackedCounts
<1> QED
  BY <1>3, <1>4 DEF SessionInv

LEMMA PrintedKeeps ==
  ASSUME SessionInv, NEW p \in Procs, Printed(p)
  PROVE  Kept
<1>1. TypeOK /\ Apart /\ FilesOK
  BY Typed DEF SessionInv
<1>2. /\ At(p, "emit") /\ owed' = owed \ proc[p].out
      /\ proc' = [proc EXCEPT ![p] = Idle] /\ unprimed' \in BOOLEAN
      /\ UNCHANGED <<counts, markers, profile, reprime, credit, left>>
  BY DEF Printed
<1>3. FilesOK'
  BY <1>1, <1>2 DEF FilesOK, markers
<1>4. SessionInv'
  BY <1>2, <1>3, IdleBacks DEF markers
<1>5. CrossingKept => CrossingKept'
  <2> SUFFICES ASSUME CrossingKept, NEW x \in owed' PROVE OnItsWay(x, Procs)'
    BY DEF CrossingKept
  <2>1. OnItsWay(x, Procs) /\ x \notin proc[p].out /\ ~Arming(p, x)
    BY <1>2 DEF CrossingKept, Arming, At
  <2>2. OnItsWay(x, Procs \ {p})
    BY <2>1, CarriedBy
  <2>3. Moves(p, Idle)
    BY <1>1, <1>2, IdleMoves
  <2> QED
    BY <1>1, <1>2, <2>2, <2>3, OthersCarry DEF markers
<1> QED
  BY <1>4, <1>5 DEF Kept

LEMMA KillKeeps ==
  ASSUME SessionInv, NEW p \in Procs, Kill(p)
  PROVE  Kept
<1>1. TypeOK /\ Apart /\ FilesOK
  BY Typed DEF SessionInv
<1>2. /\ owed' = {x \in owed : OnItsWay(x, Procs \ {p})}
      /\ proc' = [proc EXCEPT ![p] = Idle]
      /\ UNCHANGED <<counts, markers, profile, reprime, credit, unprimed>>
  BY DEF Kill
<1>3. left' \in [Causes -> Nat]
  BY <1>1, Spent DEF Kill, FilesOK, Causes
<1>4. FilesOK'
  BY <1>1, <1>2, <1>3 DEF FilesOK, markers
<1>5. SessionInv'
  BY <1>2, <1>4, IdleBacks DEF markers
<1>6. CrossingKept'
  <2> SUFFICES ASSUME NEW x \in owed' PROVE OnItsWay(x, Procs)'
    BY DEF CrossingKept
  <2>1. OnItsWay(x, Procs \ {p})
    BY <1>2
  <2>2. Moves(p, Idle)
    BY <1>1, <1>2, IdleMoves
  <2> QED
    BY <1>1, <1>2, <2>1, <2>2, OthersCarry DEF markers
<1> QED
  BY <1>5, <1>6 DEF Kept

-----------------------------------------------------------------------------
(* Processes that come one at a time.  SwitchPrimes fails in a run: these  *)
(* lemmas show that only a race or a kill can make it fail.                *)

\* The phases before a flush has its mode, and those that hold no profile.
Before == {"idle", "record", "arm", "clear_fired", "primed", "mode", "unfire", "write_oneshot",
           "reprime"}
Outside == {"idle", "unfire", "write_oneshot", "reprime"}

\* A process goes by the profile in force.
Current(s) ==
  /\ s.pc \in Before => s.mode = "pending"
  /\ s.pc \notin Outside => s.cfg = profile

Primes(s) == s.pc = "reprime" \/ (s.mode # "pending" /\ s.cfg = profile)

InTurn ==
  /\ left["kill"] = 0
  /\ \A p \in Procs : Current(proc[p]) /\ (unprimed => reprime \/ Primes(proc[p]))
  /\ Procs = {} => ~unprimed

\* A loop goes on with the profile and the mode it began with.
LEMMA LoopsGoOn ==
  ASSUME TypeOK, NEW p \in Procs,
         \/ Arm(p) \/ Record(p) \/ ClearFired(p) \/ Read(p) \/ ReadOneshots(p) \/ RunHandlers(p)
         \/ SpendHandler(p) \/ Select(p) \/ Emit(p)
  PROVE  /\ UNCHANGED <<profile, reprime, unprimed>> /\ proc[p].pc \notin Outside
         /\ \/ proc[p].pc \in Before /\ proc'[p] = Idle
            \/ /\ proc'[p].mode = proc[p].mode /\ proc'[p].cfg = proc[p].cfg
               /\ proc'[p].pc \notin Outside
               /\ proc'[p].pc \in Before <=> proc[p].pc \in Before
<1> DEFINE old == proc[p]
           Same == UNCHANGED <<profile, reprime, unprimed>>
           On(s) == /\ s.mode = old.mode /\ s.cfg = old.cfg /\ s.pc \notin Outside
                    /\ s.pc \in Before <=> old.pc \in Before
           Goal == /\ Same /\ old.pc \notin Outside
                   /\ (old.pc \in Before /\ proc'[p] = Idle) \/ On(proc'[p])
<1>1. proc \in [Procs -> States] /\ old \in States
  BY DEF TypeOK
<1>2. ASSUME NEW pc, NEW next, NEW todo PROVE Turn(pc, todo, next) \in {pc, next}
  BY DEF Turn
<1>3. ASSUME NEW todo, Armed(p, todo), old.pc \in {"record", "arm"}
      PROVE  old.pc \in Before /\ old.pc \notin Outside /\ (proc'[p] = Idle \/ On(proc'[p]))
  <2>1. \/ proc' = [proc EXCEPT ![p] = Idle]
        \/ proc' = [proc EXCEPT ![p].pc = "arm", ![p].todo = todo]
        \/ proc' = [proc EXCEPT ![p].pc = "mode", ![p].todo = {}]
    BY <1>3 DEF Armed
  <2>2. ASSUME NEW pc \in {"arm", "mode"}, NEW items,
               proc' = [proc EXCEPT ![p].pc = pc, ![p].todo = items]
        PROVE  On(proc'[p])
    <3>1. proc'[p].pc = pc /\ proc'[p].mode = old.mode /\ proc'[p].cfg = old.cfg
      BY <1>1, <2>2 DEF States
    <3> QED
      BY <1>3, <3>1 DEF Before, Outside
  <2>3. CASE proc' = [proc EXCEPT ![p] = Idle]
    BY <1>1, <1>3, <2>3 DEF Before, Outside
  <2> QED
    BY <1>3, <2>1, <2>2, <2>3 DEF Before, Outside
<1>4. CASE Arm(p) \/ Record(p)
  <2>1. \E todo : Armed(p, todo)
    BY <1>4 DEF Arm, Record
  <2>2. old.pc \in {"record", "arm"} /\ Same
    BY <1>4 DEF Arm, Record, At, markers
  <2> QED
    BY <1>3, <2>1, <2>2
<1>5. ASSUME NEW pc, NEW todo, NEW got, NEW out,
             proc' = [proc EXCEPT ![p].pc = pc, ![p].todo = todo, ![p].got = got, ![p].out = out]
      PROVE  proc'[p].pc = pc /\ proc'[p].mode = old.mode /\ proc'[p].cfg = old.cfg
  BY <1>1, <1>5 DEF States
<1>6. CASE ClearFired(p)
  <2>1. PICK x \in old.todo :
          proc' = [proc EXCEPT ![p].pc = Turn("clear_fired", old.todo \ {x}, "primed"),
                               ![p].todo = @ \ {x}]
    BY <1>6 DEF ClearFired
  <2>2. Turn("clear_fired", old.todo \ {x}, "primed") \in {"clear_fired", "primed"}
    BY <1>2
  <2>3. proc'[p].pc \in {"clear_fired", "primed"} /\ proc'[p].mode = old.mode /\ proc'[p].cfg = old.cfg
    BY <1>1, <2>1, <2>2 DEF States
  <2>4. old.pc = "clear_fired" /\ Same
    BY <1>6 DEF ClearFired, At
  <2> QED
    BY <2>3, <2>4 DEF Before, Outside
<1>7. CASE Read(p)
  <2>1. PICK x \in old.todo : \E got :
          proc' = [proc EXCEPT ![p].pc = Turn("collect", old.todo \ {x}, "oneshots"),
                               ![p].todo = @ \ {x}, ![p].got = got]
    BY <1>1, <1>7 DEF Read
  <2>2. Turn("collect", old.todo \ {x}, "oneshots") \in {"collect", "oneshots"}
    BY <1>2
  <2>3. proc'[p].pc \in {"collect", "oneshots"} /\ proc'[p].mode = old.mode /\ proc'[p].cfg = old.cfg
    BY <1>1, <2>1, <2>2 DEF States
  <2>4. old.pc = "collect" /\ Same
    BY <1>7 DEF Read, At
  <2> QED
    BY <2>3, <2>4 DEF Before, Outside
<1>8. CASE ReadOneshots(p)
  <2>1. PICK new : proc' = [proc EXCEPT ![p].pc = "run", ![p].got = @ \union new]
    BY <1>8 DEF ReadOneshots
  <2>2. proc'[p].pc = "run" /\ proc'[p].mode = old.mode /\ proc'[p].cfg = old.cfg
    BY <1>1, <2>1 DEF States
  <2>3. old.pc = "oneshots" /\ Same
    BY <1>8 DEF ReadOneshots, At
  <2> QED
    BY <2>2, <2>3 DEF Before, Outside
<1>9. CASE RunHandlers(p)
  <2>1. PICK ran : \E new :
          proc' = [proc EXCEPT ![p].pc = Turn("spend", ran, "select"), ![p].todo = ran,
                               ![p].got = @ \union new]
    BY <1>9 DEF RunHandlers
  <2>2. Turn("spend", ran, "select") \in {"spend", "select"}
    BY <1>2
  <2>3. proc'[p].pc \in {"spend", "select"} /\ proc'[p].mode = old.mode /\ proc'[p].cfg = old.cfg
    BY <1>1, <2>1, <2>2 DEF States
  <2>4. old.pc = "run" /\ Same
    BY <1>9 DEF RunHandlers, At
  <2> QED
    BY <2>3, <2>4 DEF Before, Outside
<1>10. CASE SpendHandler(p)
  <2>1. PICK x \in old.todo :
          proc' = [proc EXCEPT ![p].pc = Turn("spend", old.todo \ {x}, "select"),
                               ![p].todo = @ \ {x}]
    BY <1>10 DEF SpendHandler
  <2>2. Turn("spend", old.todo \ {x}, "select") \in {"spend", "select"}
    BY <1>2
  <2>3. proc'[p].pc \in {"spend", "select"} /\ proc'[p].mode = old.mode /\ proc'[p].cfg = old.cfg
    BY <1>1, <2>1, <2>2 DEF States
  <2>4. old.pc = "spend" /\ Same
    BY <1>10 DEF SpendHandler, At
  <2> QED
    BY <2>3, <2>4 DEF Before, Outside
<1>11. CASE Select(p)
  <2>1. PICK kept : proc' = [proc EXCEPT ![p].pc = "emit", ![p].got = kept]
    BY <1>11 DEF Select, Keep
  <2>2. proc'[p].pc = "emit" /\ proc'[p].mode = old.mode /\ proc'[p].cfg = old.cfg
    BY <1>1, <2>1 DEF States
  <2>3. old.pc = "select" /\ Same
    BY <1>11 DEF Select, Keep, At
  <2> QED
    BY <2>2, <2>3 DEF Before, Outside
<1>12. CASE Emit(p)
  <2>1. PICK e \in old.got : \E out : proc' = [proc EXCEPT ![p].got = @ \ {e}, ![p].out = out]
    BY <1>1, <1>12 DEF Emit
  <2>2. proc'[p].pc = old.pc /\ proc'[p].mode = old.mode /\ proc'[p].cfg = old.cfg
    BY <1>1, <2>1 DEF States
  <2>3. old.pc = "emit" /\ Same
    BY <1>12 DEF Emit, At
  <2> QED
    BY <2>2, <2>3 DEF Before, Outside
<1> QED
  BY <1>4, <1>6, <1>7, <1>8, <1>9, <1>10, <1>11, <1>12

\* A hook begins with the profile in force; a flush without the re-prime marker has no mode.
LEMMA BeginsInTurn ==
  ASSUME TypeOK, NEW p \in Procs, Current(proc[p]),
         \/ \E ev \in Events : Begin(p, ev)
         \/ Mode(p) \/ Compacted(p)
  PROVE  /\ UNCHANGED <<profile, unprimed>>
         /\ proc'[p].pc # "reprime" /\ proc[p].mode = "pending" /\ proc[p].pc # "reprime"
         /\ proc'[p].cfg = profile /\ proc'[p].pc \notin Outside
         /\ proc'[p].pc \in Before => proc'[p].mode = "pending"
         /\ reprime' = reprime \/ proc'[p].mode # "pending"
<1> DEFINE old == proc[p]
<1>1. proc \in [Procs -> States] /\ old \in States /\ Idle \in States /\ reprime \in BOOLEAN
  BY IdleState DEF TypeOK
<1>2. ASSUME NEW pc, NEW next, NEW todo PROVE Turn(pc, todo, next) \in {pc, next}
  BY DEF Turn
<1>3. ASSUME NEW cfg, NEW mode, Collect(p, cfg, mode)
      PROVE  proc'[p].pc \in {"collect", "oneshots"} /\ proc'[p].cfg = cfg /\ proc'[p].mode = mode
  <2>1. PICK todo : proc' = [proc EXCEPT ![p] = [Idle EXCEPT
          !.pc = Turn("collect", todo, "oneshots"), !.cfg = cfg, !.mode = mode, !.todo = todo]]
    BY <1>3 DEF Collect
  <2>2. proc'[p] = [Idle EXCEPT !.pc = Turn("collect", todo, "oneshots"), !.cfg = cfg, !.mode = mode,
                                !.todo = todo]
    BY <1>1, <2>1
  <2>3. Turn("collect", todo, "oneshots") \in {"collect", "oneshots"}
    BY <1>2
  <2> QED
    BY <1>1, <2>2, <2>3 DEF States
<1>4. ASSUME NEW ev \in Events, Begin(p, ev)
      PROVE  /\ UNCHANGED <<profile, unprimed, reprime>> /\ old.pc = "idle" /\ old.mode = "pending"
             /\ proc'[p].cfg = profile
             /\ \/ proc'[p].pc \in {"record", "clear_fired", "primed", "mode"} /\ proc'[p].mode = "pending"
                \/ proc'[p].pc \in {"collect", "oneshots"}
  <2>1. UNCHANGED <<profile, unprimed, reprime>> /\ old.pc = "idle"
    BY <1>4 DEF Begin, At
  <2>2. old.mode = "pending"
    BY <2>1 DEF Current, Before
  <2>3. CASE ev \in {"tool_call", "prompt"}
    <3>1. PICK u : proc' = [proc EXCEPT ![p].pc = "record", ![p].cfg = profile, ![p].unit = u]
      BY <1>4, <2>3 DEF Begin
    <3>2. proc'[p].pc = "record" /\ proc'[p].cfg = profile /\ proc'[p].mode = old.mode
      BY <1>1, <3>1 DEF States
    <3> QED
      BY <2>1, <2>2, <3>2
  <2>4. CASE ev = "session_start"
    <3>1. Collect(p, profile, "start")
      BY <1>4, <2>4 DEF Begin
    <3> QED
      BY <1>3, <2>1, <2>2, <3>1
  <2>5. CASE ev = "compact"
    <3>1. proc' = [proc EXCEPT ![p].pc = Turn("clear_fired", fired, "primed"), ![p].cfg = profile,
                               ![p].todo = fired]
      BY <1>4, <2>5 DEF Begin
    <3>2. Turn("clear_fired", fired, "primed") \in {"clear_fired", "primed"}
      BY <1>2
    <3>3. proc'[p].pc \in {"clear_fired", "primed"} /\ proc'[p].cfg = profile /\ proc'[p].mode = old.mode
      BY <1>1, <3>1, <3>2 DEF States
    <3> QED
      BY <2>1, <2>2, <3>3
  <2>6. CASE ev = "tool_batch"
    <3>1. proc' = [proc EXCEPT ![p].pc = "mode", ![p].cfg = profile]
      BY <1>4, <2>6 DEF Begin
    <3>2. proc'[p].pc = "mode" /\ proc'[p].cfg = profile /\ proc'[p].mode = old.mode
      BY <1>1, <3>1 DEF States
    <3> QED
      BY <2>1, <2>2, <3>2
  <2> QED
    BY <2>3, <2>4, <2>5, <2>6 DEF Events
<1>5. CASE Mode(p)
  <2>1. old.pc = "mode" /\ reprime' = FALSE /\ UNCHANGED <<profile, unprimed>>
    BY <1>5 DEF Mode, At
  <2>2. old.mode = "pending" /\ old.cfg = profile
    BY <2>1 DEF Current, Before, Outside
  <2>3. Collect(p, old.cfg, IF reprime THEN "all" ELSE "pending")
    BY <1>5 DEF Mode
  <2>4. /\ proc'[p].pc \in {"collect", "oneshots"} /\ proc'[p].cfg = profile
        /\ proc'[p].mode = IF reprime THEN "all" ELSE "pending"
    BY <1>3, <2>2, <2>3
  <2> QED
    BY <1>1, <2>1, <2>2, <2>4 DEF Before, Outside
<1>6. CASE Compacted(p)
  <2>1. old.pc = "primed" /\ UNCHANGED <<profile, unprimed, reprime>> /\ Collect(p, old.cfg, "start")
    BY <1>6 DEF Compacted, At
  <2>2. old.mode = "pending" /\ old.cfg = profile
    BY <2>1 DEF Current, Before, Outside
  <2>3. proc'[p].pc \in {"collect", "oneshots"} /\ proc'[p].cfg = profile
    BY <1>3, <2>1, <2>2
  <2> QED
    BY <2>1, <2>2, <2>3 DEF Before, Outside
<1> QED
  BY <1>4, <1>5, <1>6 DEF Before, Outside

\* The commands, and the end of a flush, which primed or leaves the marker.
LEMMA CommandsInTurn ==
  ASSUME TypeOK, NEW p \in Procs, Current(proc[p]), unprimed => reprime \/ Primes(proc[p]),
         \/ \E x \in Shots : Remind(p, x)
         \/ \E name \in Profiles : SetProfile(p, name)
         \/ RemindUnfire(p) \/ WriteOneshot(p) \/ WriteReprime(p) \/ Printed(p)
  PROVE  /\ proc'[p].pc \in Outside /\ proc'[p].mode = "pending"
         /\ unprimed' => reprime' \/ proc'[p].pc = "reprime"
<1> DEFINE old == proc[p]
<1>1. proc \in [Procs -> States] /\ old \in States /\ Idle \in States
  BY IdleState DEF TypeOK
<1>2. Idle.pc = "idle" /\ Idle.mode = "pending"
  BY DEF Idle
<1>3. ASSUME NEW x \in Shots, Remind(p, x)
      PROVE  /\ proc'[p].pc \in Outside /\ proc'[p].mode = "pending"
             /\ unprimed' => reprime'
  <2>1. old.pc = "idle" /\ old.mode = "pending" /\ UNCHANGED <<unprimed, reprime>>
    BY <1>3 DEF Remind, At, Current, Before
  <2>2. proc'[p].pc = "unfire" /\ proc'[p].mode = old.mode
    BY <1>1, <1>3 DEF Remind, States
  <2> QED
    BY <2>1, <2>2 DEF Outside, Primes
<1>4. ASSUME NEW name \in Profiles, SetProfile(p, name)
      PROVE  proc'[p].pc = "reprime" /\ proc'[p].mode = "pending"
  <2>1. old.pc = "idle" /\ old.mode = "pending"
    BY <1>4 DEF SetProfile, At, Current, Before
  <2>2. proc'[p].pc = "reprime" /\ proc'[p].mode = old.mode
    BY <1>1, <1>4 DEF SetProfile, States
  <2> QED
    BY <2>1, <2>2
<1>5. CASE RemindUnfire(p)
  <2>1. old.pc = "unfire" /\ old.mode = "pending" /\ UNCHANGED <<unprimed, reprime>>
    BY <1>5 DEF RemindUnfire, At, Current, Before
  <2>2. proc'[p].pc = "write_oneshot" /\ proc'[p].mode = old.mode
    BY <1>1, <1>5 DEF RemindUnfire, States
  <2> QED
    BY <2>1, <2>2 DEF Outside, Primes
<1>6. CASE WriteOneshot(p) \/ WriteReprime(p) \/ Printed(p)
  <2>1. proc'[p] = Idle
    BY <1>1, <1>6 DEF WriteOneshot, WriteReprime, Printed
  <2>2. unprimed' => reprime'
    <3>1. CASE WriteOneshot(p)
      <4>1. old.pc = "write_oneshot" /\ UNCHANGED <<unprimed, reprime>>
        BY <3>1 DEF WriteOneshot, At
      <4> QED
        BY <4>1 DEF Current, Before, Primes
    <3>2. CASE WriteReprime(p)
      BY <3>2 DEF WriteReprime
    <3>3. CASE Printed(p)
      <4>1. /\ old.pc = "emit" /\ reprime' = reprime
            /\ unprimed' = (unprimed /\ (old.mode = "pending" \/ old.cfg # profile))
        BY <3>3 DEF Printed, At
      <4> QED
        BY <4>1 DEF Primes
    <3> QED
      BY <1>6, <3>1, <3>2, <3>3
  <2> QED
    BY <1>2, <2>1, <2>2 DEF Outside
<1> QED
  BY <1>3, <1>4, <1>5, <1>6 DEF Outside

LEMMA TurnsAreKept ==
  ASSUME \A p, q \in Procs : p = q, TypeOK, InTurn, [Next]_vars
  PROVE  InTurn'
<1>1. CASE UNCHANGED vars
  BY <1>1 DEF vars, InTurn, Current, Primes
<1>2. ASSUME NEW p \in Procs,
             \/ \E ev \in Events : Begin(p, ev)
             \/ \E s \in Shots : Remind(p, s)
             \/ \E name \in Profiles : SetProfile(p, name)
             \/ Proceed(p)
             \/ Kill(p)
      PROVE  InTurn'
  <2>1. Current(proc[p]) /\ (unprimed => reprime \/ Primes(proc[p])) /\ left["kill"] = 0
    BY DEF InTurn
  <2>2. ~Kill(p) /\ (left["kill"] = 0 => left'["kill"] = 0)
    <3>1. left \in [Causes -> Nat]
      BY DEF TypeOK
    <3>2. \A cause \in Causes : Spend(cause) => (cause = "kill" => FALSE) /\ left'["kill"] = 0
      BY <2>1, <3>1 DEF Spend, Causes
    <3>3. UNCHANGED left \/ \E cause \in Causes : Spend(cause)
      <4>1. ASSUME NEW ev \in Events, Begin(p, ev) PROVE UNCHANGED left \/ \E cause \in Causes : Spend(cause)
        BY <4>1 DEF Begin, Events, Causes
      <4>2. Kill(p) => \E cause \in Causes : Spend(cause)
        BY DEF Kill, Causes
      <4>3. (\E s \in Shots : Remind(p, s)) => \E cause \in Causes : Spend(cause)
        BY DEF Remind, Causes
      <4>4. (\E name \in Profiles : SetProfile(p, name)) => \E cause \in Causes : Spend(cause)
        BY DEF SetProfile, Causes
      <4>5. Select(p) => UNCHANGED left \/ \E cause \in Causes : Spend(cause)
        BY DEF Select, Keep, Causes
      <4>6. Proceed(p) /\ ~Select(p) => UNCHANGED left
        BY DEF Proceed, Record, Arm, Mode, ClearFired, Compacted, Read, ReadOneshots, RunHandlers,
               SpendHandler, Emit, Printed, RemindUnfire, WriteOneshot, WriteReprime
      <4> QED
        BY <1>2, <4>1, <4>2, <4>3, <4>4, <4>5, <4>6
    <3>4. ~Kill(p)
      BY <2>1 DEF Kill, Spend
    <3> QED
      BY <3>2, <3>3, <3>4
  <2>3. Current(proc[p])' /\ (unprimed' => reprime' \/ Primes(proc[p])')
    <3>1. CASE \/ \E ev \in Events : Begin(p, ev)
               \/ Mode(p) \/ Compacted(p)
      BY <2>1, <3>1, BeginsInTurn DEF Current, Primes
    <3>2. CASE \/ \E x \in Shots : Remind(p, x)
               \/ \E name \in Profiles : SetProfile(p, name)
               \/ RemindUnfire(p) \/ WriteOneshot(p) \/ WriteReprime(p) \/ Printed(p)
      BY <2>1, <3>2, CommandsInTurn DEF Current, Primes
    <3>3. CASE \/ Arm(p) \/ Record(p) \/ ClearFired(p) \/ Read(p) \/ ReadOneshots(p)
               \/ RunHandlers(p) \/ SpendHandler(p) \/ Select(p) \/ Emit(p)
      <4>1. /\ UNCHANGED <<profile, reprime, unprimed>> /\ proc[p].pc \notin Outside
            /\ \/ proc[p].pc \in Before /\ proc'[p] = Idle
               \/ /\ proc'[p].mode = proc[p].mode /\ proc'[p].cfg = proc[p].cfg
                  /\ proc'[p].pc \notin Outside
                  /\ proc'[p].pc \in Before <=> proc[p].pc \in Before
        BY <3>3, LoopsGoOn
      <4>2. Idle.pc = "idle" /\ Idle.mode = "pending"
        BY DEF Idle
      <4>3. "idle" \in Outside /\ "reprime" \in Outside
        BY DEF Outside
      <4> QED
        BY <2>1, <4>1, <4>2, <4>3 DEF Current, Primes
    <3> QED
      BY <1>2, <2>2, <3>1, <3>2, <3>3 DEF Proceed
  <2> QED
    BY <2>1, <2>2, <2>3 DEF InTurn, Current, Primes
<1> QED
  BY <1>1, <1>2 DEF Next

-----------------------------------------------------------------------------
(* The theorems.                                                           *)

LEMMA InitHolds == Init => SessionInv /\ CrossingKept
<1> SUFFICES ASSUME Init PROVE SessionInv /\ CrossingKept
  OBVIOUS
<1>1. Idle \in States /\ Idle.pc = "idle" /\ Idle.got = {}
  BY IdleState DEF Init, Idle
<1>2. FilesOK
  <2>1. left \in [Causes -> Nat]
    BY SessionAssumption DEF Init
  <2>2. credit \in [Names \union Shots -> Int]
    BY DEF Init
  <2> QED
    BY <2>1, <2>2 DEF Init, FilesOK
<1>3. \A p \in Procs : proc[p] = Idle
  BY DEF Init
<1>4. TypeOK /\ Apart
  BY <1>1, <1>2, <1>3, Typed DEF Init, Apart, Sorted
<1>5. Backed
  <2>1. \A x : Cardinality(Armers(x)) = 0
    <3>1. \A x : Armers(x) = {}
      BY <1>1, <1>3 DEF Armers, Arming, At
    <3> QED
      BY <3>1, FS_EmptySet
  <2> QED
    BY <2>1, NamesApart, BackedCounts DEF Init, Bit
<1> QED
  BY <1>4, <1>5 DEF Init, SessionInv, CrossingKept

LEMMA NextKeeps ==
  ASSUME SessionInv, [Next]_vars
  PROVE  Kept
<1>1. CASE UNCHANGED vars
  BY <1>1 DEF Kept, SessionInv, CrossingKept, OnItsWay, Arming, At, TypeOK, Apart, Backed, Sorted,
              vars, markers
<1>2. ASSUME NEW p \in Procs,
             \/ \E ev \in Events : Begin(p, ev)
             \/ \E s \in Shots : Remind(p, s)
             \/ \E name \in Profiles : SetProfile(p, name)
             \/ Proceed(p)
             \/ Kill(p)
      PROVE  Kept
  <2>1. CASE Aside(p)
    BY <2>1, AsideKeeps
  <2>2. CASE ~Aside(p)
    BY <1>2, <2>2, RecordKeeps, ArmKeeps, UnfireKeeps, SpendHandlerKeeps, EmitKeeps, PrintedKeeps,
       KillKeeps DEF Aside, Proceed
  <2> QED
    BY <2>1, <2>2
<1> QED
  BY <1>1, <1>2 DEF Next

\* Every marker, and every one about to be written, stands for a delivery that is
\* earned and not claimed yet, whatever hooks, commands and flushes race on the
\* session and wherever one of them is killed.
THEOREM SessionInvariant == Spec => []SessionInv
<1>1. Init => SessionInv
  BY InitHolds
<1>2. SessionInv /\ [Next]_vars => SessionInv'
  BY NextKeeps DEF Kept
<1> QED
  BY <1>1, <1>2, PTL DEF Spec

\* A marker that is there is for a delivery still to be made.
LEMMA MarkedIsEarned ==
  ASSUME SessionInv
  PROVE  /\ credit \in [Names \union Shots -> Int]
         /\ \A x \in pending : x \in Names /\ credit[x] > 0
         /\ \A s \in Shots : credit[s] = Bit(s \notin fired)
<1>1. credit \in [Names \union Shots -> Int] /\ pending \subseteq Names
  BY DEF SessionInv, TypeOK
<1>2. ASSUME NEW x \in pending PROVE credit[x] > 0
  <2>1. Cardinality(Armers(x)) \in Nat
    BY NamesApart, FS_Subset, FS_CardinalityType DEF Armers
  <2>2. credit[x] >= 1 + Cardinality(Armers(x)) /\ credit[x] \in Int
    BY <1>1, BackedCounts DEF SessionInv, Bit
  <2> QED
    BY <2>1, <2>2
<1> QED
  BY <1>1, <1>2, BackedCounts DEF SessionInv

\* What the steps on the markers are to a reader of the promise.
LEMMA RecordCrosses ==
  ASSUME SessionInv, NEW p \in Procs, Record(p)
  PROVE  \E names \in SUBSET Names : Markers!Cross(names)
<1> DEFINE crossed == Crossed(proc[p].cfg, proc[p].unit, counts[proc[p].unit] + 1)
<1>1. crossed \in SUBSET Names
  BY NamesApart
<1>2. credit' = [x \in DOMAIN credit |-> credit[x] + (IF x \in crossed THEN 1 ELSE 0)]
  BY DEF Record
<1>3. DOMAIN credit = Names \union Shots
  BY MarkedIsEarned
<1> HIDE DEF crossed
<1> QED
  BY <1>1, <1>2, <1>3 DEF Markers!Cross

LEMMA UnfireRearms ==
  ASSUME SessionInv, NEW p \in Procs, ClearFired(p) \/ RemindUnfire(p)
  PROVE  (\E s \in Shots : Markers!Rearm(s)) \/ UNCHANGED credit
<1>1. proc[p].todo \subseteq Shots
  BY DEF SessionInv, Apart, Sorted, ClearFired, RemindUnfire, At
<1>2. PICK s \in Shots : Unfire(s)
  BY <1>1 DEF ClearFired, RemindUnfire
<1>3. /\ credit' = [credit EXCEPT ![s] = @ + Bit(s \in fired)]
      /\ credit \in [Names \union Shots -> Int] /\ credit[s] = Bit(s \notin fired)
  BY <1>2, MarkedIsEarned DEF Unfire, Bit
<1>4. CASE s \in fired
  <2>1. credit[s] = 0 /\ credit' = [credit EXCEPT ![s] = 1]
    BY <1>3, <1>4 DEF Bit
  <2> QED
    BY <2>1 DEF Markers!Rearm
<1>5. CASE s \notin fired
  <2>1. credit' = credit
    BY <1>3, <1>5 DEF Bit
  <2> QED
    BY <2>1
<1> QED
  BY <1>4, <1>5

LEMMA SpendDelivers ==
  ASSUME SessionInv, NEW p \in Procs, SpendHandler(p)
  PROVE  (\E x \in Names : Markers!Deliver(x)) \/ UNCHANGED credit
<1>1. PICK h \in proc[p].todo : credit' = [credit EXCEPT ![h] = @ - (IF h \in pending THEN 1 ELSE 0)]
  BY DEF SpendHandler
<1>2. credit \in [Names \union Shots -> Int] /\ h \in Names
  BY MarkedIsEarned DEF SessionInv, Apart, Sorted, SpendHandler, At
<1>3. CASE h \in pending
  <2>1. credit[h] > 0
    BY <1>3, MarkedIsEarned
  <2>2. credit' = [credit EXCEPT ![h] = @ - 1]
    BY <1>1, <1>3
  <2> QED
    BY <1>2, <2>1, <2>2 DEF Markers!Deliver
<1>4. CASE h \notin pending
  <2>1. credit' = credit
    BY <1>1, <1>2, <1>4
  <2> QED
    BY <2>1
<1> QED
  BY <1>3, <1>4

LEMMA EmitDelivers ==
  ASSUME SessionInv, NEW p \in Procs, Emit(p)
  PROVE  (\E x \in Names \union Shots : Markers!Deliver(x)) \/ UNCHANGED credit
<1>1. PICK e \in proc[p].got :
        credit' = IF Unclaimed(e) /\ e.marked THEN [credit EXCEPT ![e.name] = @ - 1] ELSE credit
  BY DEF Emit
<1>2. credit \in [Names \union Shots -> Int] /\ e.name \in Names \union Shots
  BY MarkedIsEarned DEF SessionInv, TypeOK, States
<1>3. CASE Unclaimed(e) /\ e.marked
  <2>1. credit[e.name] > 0
    <3>1. CASE e.name \in Shots
      BY <1>3, <3>1, MarkedIsEarned DEF Unclaimed, Bit
    <3>2. CASE e.name \notin Shots
      BY <1>3, <3>2, MarkedIsEarned DEF Unclaimed
    <3> QED
      BY <3>1, <3>2
  <2>2. credit' = [credit EXCEPT ![e.name] = @ - 1]
    BY <1>1, <1>3
  <2> QED
    BY <1>2, <2>1, <2>2 DEF Markers!Deliver
<1>4. CASE ~(Unclaimed(e) /\ e.marked)
  BY <1>1, <1>4
<1> QED
  BY <1>3, <1>4

\* The markers implement the promise: a step that claims a marker is a delivery that was
\* earned, one that removes a fired marker arms a one-shot that had none, a count that
\* crosses earns one delivery for each entry, and no other step is seen (arm_crossings,
\* clear_fired, write_oneshot, consume, claim_fired).  So no crossing is delivered twice.
THEOREM ImplementsDeliveries == Spec => DeliversEarned
<1>1. Init => Markers!Init
  BY DEF Init, Markers!Init
<1>2. SessionInv /\ [Next]_vars => [Markers!Next]_credit
  <2> SUFFICES ASSUME SessionInv, [Next]_vars PROVE Markers!Next \/ UNCHANGED credit
    OBVIOUS
  <2>1. CASE UNCHANGED vars
    BY <2>1 DEF vars
  <2>2. ASSUME NEW p \in Procs, Aside(p) \/ Arm(p) \/ Printed(p) \/ Kill(p)
        PROVE  UNCHANGED credit
    BY <2>2, AsideStep DEF SessionInv, Arm, Printed, Kill
  <2>3. ASSUME NEW p \in Procs,
               \/ Record(p) \/ ClearFired(p) \/ RemindUnfire(p) \/ SpendHandler(p) \/ Emit(p)
        PROVE  Markers!Next \/ UNCHANGED credit
    BY <2>3, RecordCrosses, UnfireRearms, SpendDelivers, EmitDelivers DEF Markers!Next
  <2> QED
    BY <2>1, <2>2, <2>3 DEF Next, Proceed, Aside
<1> QED
  BY <1>1, <1>2, SessionInvariant, PTL DEF Spec, DeliversEarned, Markers!Spec

\* And none is lost: its marker is there, or a process that is alive carries it.
THEOREM CrossingsAreKept == Spec => []CrossingKept
<1>1. Init => SessionInv /\ CrossingKept
  BY InitHolds
<1>2. SessionInv /\ CrossingKept /\ [Next]_vars => (SessionInv /\ CrossingKept)'
  BY NextKeeps DEF Kept
<1> QED
  BY <1>1, <1>2, PTL DEF Spec

\* "A switch re-primes: the next flush delivers every section" (configuration.md): so it
\* does, as long as the gaff processes of a session run one at a time and none is killed.
\* What breaks it in the run is the race (section_mode, set_profile).
THEOREM SwitchesPrimeInTurn ==
  ASSUME \A p, q \in Procs : p = q, \A s \in Scenarios : s["kill"] = 0
  PROVE  Spec => []SwitchPrimes
<1>1. Init => InTurn
  <2> SUFFICES ASSUME Init PROVE InTurn
    OBVIOUS
  <2>1. \A p \in Procs : proc[p] = Idle
    BY DEF Init
  <2>2. Idle.pc = "idle" /\ Idle.mode = "pending"
    BY DEF Idle
  <2>3. left["kill"] = 0 /\ ~unprimed
    BY DEF Init
  <2> QED
    BY <2>1, <2>2, <2>3 DEF InTurn, Current, Outside
<1>2. SessionInv /\ InTurn /\ [Next]_vars => InTurn'
  BY TurnsAreKept DEF SessionInv
<1>3. InTurn => SwitchPrimes
  BY DEF InTurn, SwitchPrimes, Primes, At
<1> QED
  BY <1>1, <1>2, <1>3, SessionInvariant, PTL DEF Spec
=============================================================================
