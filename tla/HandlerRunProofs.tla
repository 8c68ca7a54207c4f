--------------------------- MODULE HandlerRunProofs ---------------------------
(***************************************************************************)
(* What HandlerRun promises of the children gaff runs, for every list of   *)
(* handlers, budget, timeout and record of trusted directories.            *)
(***************************************************************************)
EXTENDS HandlerRun, TLAPS

-----------------------------------------------------------------------------
(* The inductive invariant.                                                *)

\* Before the run begins nothing has happened.
Fresh ==
  pc = "begin" => /\ todo = {} /\ now = 0 /\ hung = 0 /\ deadline = 0
                  /\ \A i \in Commands : outcome[i] = "none"

\* A flush runs handlers that are due, each within what is left of the budget.
Flushes ==
  job.kind # "agent" =>
    /\ todo \subseteq Due
    /\ Held => cur \in Due /\ limit <= deadline
    /\ pc = "recv" => now <= limit
    /\ now <= deadline + hung

\* An agent runs its context command before its runner, each within one timeout.
Agents ==
  job.kind = "agent" =>
    /\ hung = 0 /\ pc # "stderr"
    /\ todo \subseteq {Context, Runner}
    /\ pc = "next" /\ Context \in todo => now = 0
    /\ pc = "next" /\ Context \notin todo => now <= AgentTimeout
    /\ Held => cur \in {Context, Runner} /\ now <= limit /\ limit <= 2 * AgentTimeout
    /\ Held /\ cur = Context => limit <= AgentTimeout
    /\ now <= 2 * AgentTimeout
    /\ (/\ job.context
        /\ (pc = "next" /\ Context \notin todo) \/ (Held /\ cur = Runner)) =>
         outcome[Context] \in {"text", "silent"}

\* How a child may have ended, what a cut stream leaves, and when a stream ended that is
\* not received yet.
Endings ==
  /\ Held => /\ child.st # "killed"
             /\ child.st = "pipe" => child.flooded
             /\ child.flooded => child.read # "nothing" /\ trace.said # "nothing"
  /\ pc = "recv" /\ ~child.sent /\ trace.closed # Never => trace.closed = now
  /\ pc = "stderr" => trace.code = "fail" \/ (trace.code = "ok" /\ ~job.reapable)

IInv == RunInv /\ Fresh /\ Flushes /\ Agents /\ Endings

-----------------------------------------------------------------------------
(* Types of the pieces.                                                    *)

LEMMA CommandsHold == Context \in Commands /\ Runner \in Commands /\ Context < Runner
BY HandlerAssumption DEF Commands, Context, Runner

LEMMA TimeoutType ==
  ASSUME NEW i \in Commands
  PROVE  Timeout(i) \in Nat
BY HandlerAssumption DEF Timeout, Declarations

LEMMA NoChildType == NoChild \in Children
BY DEF NoChild, Children, Words, Verdicts

LEMMA NoGranterType == NoGranter \in Granters /\ NoGranter.st = "idle"
BY HandlerAssumption DEF NoGranter, Granters

LEMMA NoTraceType == NoTrace \in Traces
BY DEF NoTrace, Traces, Verdicts

\* A new child runs, holds its pipes and has written nothing.
Newborn(errs) == [NoChild EXCEPT !.st = "running", !.outs = {"child"}, !.errs = errs]

LEMMA NewbornFields ==
  ASSUME NEW errs \in SUBSET {"child", "heir"}
  PROVE  /\ Newborn(errs) \in Children
         /\ Newborn(errs).st = "running" /\ Newborn(errs).outs = {"child"}
         /\ ~Newborn(errs).flooded /\ ~Newborn(errs).large
         /\ ~Newborn(errs).sent /\ Newborn(errs).read = "nothing"
<1> DEFINE born == Newborn(errs)
<1>1. NoChild \in Children /\ ~NoChild.flooded /\ ~NoChild.large /\ ~NoChild.sent
      /\ NoChild.read = "nothing"
  BY NoChildType DEF NoChild
<1>2. born = [NoChild EXCEPT !.st = "running", !.outs = {"child"}, !.errs = errs]
  BY DEF Newborn
<1>3. born.st = "running" /\ born.outs = {"child"} /\ born.flooded = NoChild.flooded
      /\ born.large = NoChild.large /\ born.sent = NoChild.sent /\ born.read = NoChild.read
  BY <1>1, <1>2 DEF Children
<1>4. born \in Children
  BY <1>1, <1>2 DEF Children
<1> QED
  BY <1>1, <1>3, <1>4

\* Which handlers are due, and where children may run, depends on the job and the record.
LEMMA SameDue ==
  ASSUME job' = job
  PROVE  Due' = Due
BY DEF Due, Loaded, Mine

LEMMA SameTrust ==
  ASSUME UNCHANGED consent
  PROVE  /\ record' = record /\ granter' = granter /\ granted' = granted
         /\ IsTrusted(Here)' = IsTrusted(Here)
BY DEF consent, IsTrusted

LEMMA SettleTypes ==
  ASSUME IInv, NEW i \in Commands, NEW how \in Outcomes, Settle(i, how)
  PROVE  /\ outcome' \in [Commands -> Outcomes]
         /\ outcome'[i] = how
         /\ \A j \in Commands \ {i} : outcome'[j] = outcome[j]
         /\ child' = NoChild /\ trace' = NoTrace /\ limit' = Never
         /\ child' \in Children /\ trace' \in Traces /\ limit' \in Nat \cup {Never}
<1>1. outcome \in [Commands -> Outcomes]
  BY DEF IInv, RunInv, TypeOK
<1>2. outcome' = [outcome EXCEPT ![i] = how]
  BY DEF Settle
<1>3. child' = NoChild /\ trace' = NoTrace /\ limit' = Never
  BY DEF Settle
<1> QED
  BY <1>1, <1>2, <1>3, NoChildType, NoTraceType

LEMMA NoChildFields ==
  /\ NoChild.st = "none" /\ NoChild.outs = {} /\ NoChild.errs = {} /\ ~NoChild.sent
BY DEF NoChild

\* Once children run, the record and the job stay.
LEMMA ConsentKept ==
  ASSUME IInv, UNCHANGED consent, pc' \notin {"begin", "done", "block"} =>
                                    pc \notin {"begin", "done", "block"}
  PROVE  Consented'
BY SameTrust DEF IInv, RunInv, Consented, consent, Recordable, Names

-----------------------------------------------------------------------------
LEMMA InitOK == Init => IInv
<1> SUFFICES ASSUME Init
             PROVE  IInv
  OBVIOUS
<1>1. job \in Jobs /\ pc = "begin" /\ todo = {} /\ cur = 0 /\ now = 0 /\ deadline = 0
      /\ limit = Never /\ child = NoChild /\ trace = NoTrace /\ hung = 0
  BY DEF Init
<1>2. outcome = [i \in Commands |-> "none"]
  BY DEF Init
<1>3. outcome \in [Commands -> Outcomes]
  BY <1>2 DEF Outcomes
<1>4. record \in Records /\ (\A d \in record.paths : Recordable(d)) /\ granted = record.paths
  BY DEF Init
<1>5. granter = NoGranter
  BY DEF Init
<1>6. granter \in Granters /\ granter.st = "idle"
  BY <1>5, NoGranterType
<1>7. granted \subseteq Dirs
  BY <1>4 DEF Records
<1>8. TypeOK
  BY <1>1, <1>3, <1>4, <1>6, <1>7, NoChildType, NoTraceType, HandlerAssumption
  DEF TypeOK, Phases
<1>9. ~Held /\ child.st = "none"
  BY <1>1, NoChildFields DEF Held
<1>10. OneChild /\ Traced
  BY <1>1, <1>2, <1>9 DEF OneChild, Traced
<1>11. DueAnswered
  BY <1>1, <1>2 DEF DueAnswered
<1>12. Consented
  BY <1>1, <1>4, <1>6 DEF Consented
<1>13. Fresh
  BY <1>1, <1>2 DEF Fresh
<1>14. Flushes /\ Agents
  BY <1>1, <1>9, HandlerAssumption DEF Flushes, Agents
<1>15. Endings
  BY <1>1, <1>9 DEF Endings
<1> QED
  BY <1>8, <1>10, <1>11, <1>12, <1>13, <1>14, <1>15 DEF IInv, RunInv

-----------------------------------------------------------------------------
(* The person.                                                             *)

\* While the record is written nothing of the run changes.
LEMMA RunUntouched ==
  ASSUME IInv, pc = "begin", UNCHANGED <<run, history>>,
         record' \in Records, granter' \in Granters, granted' \subseteq Dirs,
         Consented'
  PROVE  IInv'
<1>1. job' = job /\ pc' = pc /\ todo' = todo /\ cur' = cur /\ now' = now
      /\ deadline' = deadline /\ limit' = limit /\ child' = child /\ outcome' = outcome
      /\ trace' = trace /\ hung' = hung
  BY DEF run, history
<1>2. TypeOK'
  BY <1>1 DEF IInv, RunInv, TypeOK
<1>3. OneChild' /\ Traced'
  BY <1>1 DEF IInv, RunInv, OneChild, Traced, Held
<1>4. pc' = "begin" /\ \A i \in Commands : outcome'[i] = "none"
  BY <1>1 DEF IInv, Fresh
<1>5. DueAnswered'
  BY <1>4 DEF DueAnswered
<1>6. Fresh' /\ Agents' /\ Endings'
  BY <1>1 DEF IInv, Fresh, Agents, Endings, Held
<1>7. Flushes'
  BY <1>1, SameDue DEF IInv, Flushes, Held
<1> QED
  BY <1>2, <1>3, <1>5, <1>6, <1>7 DEF IInv, RunInv

LEMMA PersonKeeps ==
  ASSUME IInv, Person
  PROVE  IInv'
<1>1. record \in Records /\ granter \in Granters /\ granted \subseteq Dirs
  BY DEF IInv, RunInv, TypeOK
<1>2. Consented
  BY DEF IInv, RunInv
<1>3. ASSUME NEW d \in Dirs, TrustReads(d)
      PROVE  IInv'
  <2>1. pc = "begin" /\ pc' = pc /\ UNCHANGED <<run, history>> /\ record' = record
        /\ granted' = granted /\ granter.st = "idle" /\ Recordable(d)
    BY <1>3 DEF TrustReads, run
  <2>2. granter' = [st |-> "read", dir |-> d, text |-> record.paths]
    BY <1>3 DEF TrustReads
  <2>3. granter' \in Granters
    BY <1>1, <2>2 DEF Granters, Records
  <2>4. Consented'
    BY <1>2, <2>1, <2>2 DEF Consented, Recordable
  <2> QED
    BY <1>1, <2>1, <2>3, <2>4, RunUntouched
<1>4. CASE TrustEmpties
  <2>1. pc = "begin" /\ pc' = pc /\ UNCHANGED <<run, history>> /\ granted' = granted
        /\ granter.st = "read"
    BY <1>4 DEF TrustEmpties, run
  <2>2. granter' = [granter EXCEPT !.st = "emptied"]
    BY <1>4 DEF TrustEmpties
  <2>3. record' = [record EXCEPT !.there = TRUE, !.paths = {}]
    BY <1>4 DEF TrustEmpties
  <2>4. granter' \in Granters /\ granter'.st = "emptied" /\ granter'.dir = granter.dir
        /\ granter'.text = granter.text
    BY <1>1, <2>2 DEF Granters
  <2>5. record' \in Records /\ record'.paths = {}
    BY <1>1, <2>3 DEF Records
  <2>6. Consented'
    BY <1>2, <2>1, <2>4, <2>5 DEF Consented, Recordable
  <2> QED
    BY <1>1, <2>1, <2>4, <2>5, <2>6, RunUntouched
<1>5. CASE TrustWrites
  <2>1. pc = "begin" /\ pc' = pc /\ UNCHANGED <<run, history>> /\ granter.st = "emptied"
        /\ granted' = granted \cup {granter.dir}
    BY <1>5 DEF TrustWrites, run
  <2>2. granter' = NoGranter
    BY <1>5 DEF TrustWrites
  <2>3. record' = [record EXCEPT !.paths = granter.text \cup Lines[granter.dir], !.loose = FALSE]
    BY <1>5 DEF TrustWrites
  <2>4. granter' \in Granters /\ granter'.st = "idle" /\ granter.dir \in Dirs
    BY <1>1, <2>2, NoGranterType DEF Granters
  <2>5. Lines[granter.dir] = {granter.dir} /\ granter.text = granted
    BY <1>2, <2>1 DEF Consented, Recordable
  <2>6. record' \in Records /\ record'.paths = granted \cup {granter.dir}
    BY <1>1, <2>3, <2>4, <2>5 DEF Records
  <2>7. Consented'
    BY <1>2, <2>1, <2>4, <2>6 DEF Consented
  <2> QED
    BY <1>1, <2>1, <2>4, <2>6, <2>7, RunUntouched
<1>6. CASE TrustDies
  <2>1. pc = "begin" /\ pc' = pc /\ UNCHANGED <<run, history>> /\ record' = record
        /\ granted' = IF granter.st = "emptied" THEN {} ELSE granted
    BY <1>6 DEF TrustDies, run
  <2>2. granter' = NoGranter
    BY <1>6 DEF TrustDies
  <2>3. granter' \in Granters /\ granter'.st = "idle"
    BY <2>2, NoGranterType
  <2>4. Consented' /\ granted' \subseteq Dirs
    BY <1>1, <1>2, <2>1, <2>3 DEF Consented
  <2> QED
    BY <1>1, <2>1, <2>3, <2>4, RunUntouched
<1>7. ASSUME NEW d \in Dirs, Revokes(d)
      PROVE  IInv'
  <2>1. pc = "begin" /\ pc' = pc /\ UNCHANGED <<run, history>> /\ granter' = granter
        /\ granted' = granted \ {d} /\ granter.st = "idle"
    BY <1>7 DEF Revokes, run
  <2>2. record' = [record EXCEPT !.paths = record.paths \ {d}]
    BY <1>7 DEF Revokes
  <2>3. record' \in Records /\ record'.paths = record.paths \ {d}
    BY <1>1, <2>2 DEF Records
  <2>4. Consented'
    BY <1>2, <2>1, <2>3 DEF Consented
  <2> QED
    BY <1>1, <2>1, <2>3, <2>4, RunUntouched
<1>8. CASE Tightens
  <2>1. pc = "begin" /\ pc' = pc /\ UNCHANGED <<run, history>> /\ granter' = granter
        /\ granted' = granted
    BY <1>8 DEF Tightens, run
  <2>2. record' \in {[record EXCEPT !.loose = FALSE], [record EXCEPT !.open = FALSE]}
    BY <1>8 DEF Tightens
  <2>3. record' \in Records /\ record'.paths = record.paths
    BY <1>1, <2>2 DEF Records
  <2>4. Consented'
    BY <1>2, <2>1, <2>3 DEF Consented, Recordable
  <2> QED
    BY <1>1, <2>1, <2>3, <2>4, RunUntouched
<1> QED
  BY <1>3, <1>4, <1>5, <1>6, <1>7, <1>8 DEF Person

-----------------------------------------------------------------------------
(* gaff.                                                                   *)

\* A command is settled, and no child is left.
LEMMA SettledKeeps ==
  ASSUME IInv, NEW i \in Commands, NEW how \in Outcomes \ {"none"}, Settle(i, how),
         job' = job, now' = now, deadline' = deadline, hung' = hung, cur' = i,
         UNCHANGED consent, todo' = todo \ {i},
         (pc = "next" /\ i \in todo) \/ (Held /\ i = cur),
         pc' \in {"next", "block", "admit", "panic"},
         job.kind = "agent" /\ pc' = "next" =>
           Held /\ i = Context /\ how \in {"text", "silent"}
  PROVE  IInv'
<1>1. TypeOK /\ OneChild /\ DueAnswered
  BY DEF IInv, RunInv
<1>2. /\ outcome' \in [Commands -> Outcomes]
      /\ outcome'[i] = how
      /\ \A j \in Commands \ {i} : outcome'[j] = outcome[j]
      /\ child' = NoChild /\ trace' = NoTrace /\ limit' = Never
      /\ child' \in Children /\ trace' \in Traces /\ limit' \in Nat \cup {Never}
  BY SettleTypes
<1>3. record' = record /\ granter' = granter /\ granted' = granted
  BY DEF consent
<1>4. pc \in {"next", "recv", "wait", "stderr"} /\ ~Held'
  BY DEF Held
<1>5. TypeOK'
  BY <1>1, <1>2, <1>3 DEF TypeOK, Phases, Commands
<1>6. OneChild'
  BY <1>1, <1>2, <1>4, NoChildFields DEF OneChild, TypeOK
<1>7. Traced' /\ Fresh' /\ Endings'
  BY <1>4 DEF Traced, Fresh, Endings, Held
<1>8. Consented'
  BY <1>4, ConsentKept
<1>9. DueAnswered'
  <2>1. CASE job.kind = "agent"
    BY <2>1 DEF DueAnswered
  <2>2. CASE job.kind # "agent"
    <3>1. Due' = Due
      BY SameDue
    <3>2. IsTrusted(Here)
      BY <1>4 DEF IInv, RunInv, Consented
    <3>3. \A j \in Commands :
            outcome[j] = "none" <=> j \notin Due \/ j \in todo \/ (Held /\ j = cur)
      BY <1>1, <1>4, <2>2, <3>2 DEF DueAnswered
    <3>4. i \in Due /\ (Held => i = cur)
      BY <1>4, <2>2 DEF IInv, Flushes, Held
    <3>5. ASSUME NEW j \in Commands
          PROVE  outcome'[j] = "none" <=> j \notin Due \/ j \in todo'
      BY <1>2, <3>3, <3>4
    <3> QED
      BY <1>4, <3>1, <3>5 DEF DueAnswered
  <2> QED
    BY <2>1, <2>2
<1>10. Flushes'
  BY <1>4, SameDue DEF IInv, Flushes, Held
<1>11. Agents'
  <2> SUFFICES ASSUME job.kind = "agent"
               PROVE  Agents'
    BY DEF Agents
  <2>1. hung = 0 /\ todo \subseteq {Context, Runner} /\ now <= 2 * AgentTimeout
    BY DEF IInv, Agents
  <2>2. CASE pc' = "next"
    <3>1. now <= limit /\ limit <= AgentTimeout
      BY <2>2 DEF IInv, Agents, Held
    <3>2. Context \notin todo' /\ outcome'[Context] \in {"text", "silent"}
      BY <1>2, <2>2
    <3>3. now <= AgentTimeout
      BY <1>1, <2>2, <3>1, HandlerAssumption DEF OneChild, TypeOK
    <3> QED
      BY <1>4, <2>1, <2>2, <3>2, <3>3 DEF Agents, Held
  <2>3. CASE pc' # "next"
    BY <1>4, <2>1, <2>3 DEF Agents, Held
  <2> QED
    BY <2>2, <2>3
<1> QED
  BY <1>5, <1>6, <1>7, <1>8, <1>9, <1>10, <1>11 DEF IInv, RunInv

LEMMA BeginKeeps ==
  ASSUME IInv, Begin
  PROVE  IInv'
<1>1. TypeOK /\ OneChild /\ Traced /\ Consented
  BY DEF IInv, RunInv
<1>2. pc = "begin" /\ job' = job /\ cur' = cur /\ now' = now /\ limit' = limit
      /\ child' = child /\ outcome' = outcome /\ trace' = trace /\ hung' = hung
      /\ deadline' = now + Budget[job.event] /\ UNCHANGED consent
  BY DEF Begin, history
<1>3. todo' = IF ~IsTrusted(Here) THEN {}
              ELSE IF job.kind # "agent" THEN Due
              ELSE IF job.context THEN {Context, Runner} ELSE {Runner}
  BY DEF Begin
<1>4. pc' = IF todo' = {} THEN Refused ELSE "next"
  BY DEF Begin
<1>5. now = 0 /\ hung = 0 /\ \A i \in Commands : outcome[i] = "none"
  BY <1>2 DEF IInv, Fresh
<1>6. deadline' \in Nat /\ deadline' >= now
  <2>1. Budget[job.event] \in Nat
    BY <1>1, HandlerAssumption DEF TypeOK, Jobs
  <2> QED
    BY <1>2, <1>5, <2>1
<1>7. pc' \in {"next", "block", "done"}
  BY <1>4 DEF Refused
<1>8. ~Held /\ ~Held'
  BY <1>2, <1>7 DEF Held
<1>9. todo' \subseteq Commands
  BY <1>3, CommandsHold DEF Due
<1>10. record' = record /\ granter' = granter /\ granted' = granted
       /\ IsTrusted(Here)' = IsTrusted(Here)
  BY <1>2, SameTrust
<1>11. TypeOK'
  BY <1>1, <1>2, <1>6, <1>7, <1>9, <1>10 DEF TypeOK, Phases
<1>12. OneChild'
  BY <1>1, <1>2, <1>5, <1>8, <1>9 DEF OneChild
<1>13. Traced' /\ Fresh' /\ Endings'
  BY <1>7 DEF Traced, Fresh, Endings, Held
<1>14. Consented'
  <2>1. pc' = "next" => IsTrusted(Here)
    BY <1>3, <1>4 DEF Refused
  <2>2. IsTrusted(Here) => Here \in Names(granted)
    BY <1>1 DEF Consented, IsTrusted, Names
  <2>3. Names(granted)' = Names(granted)
    BY <1>10 DEF Names
  <2> QED
    BY <1>1, <1>7, <1>10, <2>1, <2>2, <2>3 DEF Consented, Recordable
<1>15. Due' = Due
  BY <1>2, SameDue
<1>16. DueAnswered'
  <2>1. CASE ~IsTrusted(Here)
    BY <1>2, <1>5, <1>10, <2>1 DEF DueAnswered
  <2>2. CASE job.kind = "agent"
    BY <1>2, <2>2 DEF DueAnswered
  <2>3. CASE IsTrusted(Here) /\ job.kind # "agent"
    <3>1. todo' = Due
      BY <1>3, <2>3
    <3>2. \A i \in Commands : outcome'[i] = "none" <=> i \notin Due' \/ i \in todo'
      BY <1>2, <1>5, <1>15, <3>1
    <3> QED
      BY <1>8, <3>2 DEF DueAnswered
  <2> QED
    BY <2>1, <2>2, <2>3
<1>17. Flushes'
  BY <1>2, <1>3, <1>5, <1>6, <1>7, <1>8, <1>15 DEF Flushes
<1>18. Agents'
  <2> SUFFICES ASSUME job.kind = "agent"
               PROVE  Agents'
    BY <1>2 DEF Agents
  <2>1. todo' \subseteq {Context, Runner} /\ (todo' # {} /\ Context \notin todo' => ~job.context)
    BY <1>3, CommandsHold
  <2>2. pc' = "next" => todo' # {}
    BY <1>4 DEF Refused
  <2>3. 0 <= AgentTimeout /\ 0 <= 2 * AgentTimeout
    BY HandlerAssumption
  <2> QED
    BY <1>2, <1>5, <1>7, <1>8, <2>1, <2>2, <2>3 DEF Agents
<1> QED
  BY <1>11, <1>12, <1>13, <1>14, <1>16, <1>17, <1>18 DEF IInv, RunInv

LEMMA SkipKeeps ==
  ASSUME IInv, NEW i \in Commands, Skip(i)
  PROVE  IInv'
<1>1. Settle(i, "skipped") /\ pc = "next" /\ i \in todo /\ job.kind # "agent"
      /\ todo' = todo \ {i} /\ cur' = i /\ job' = job /\ pc' = pc /\ now' = now
      /\ deadline' = deadline /\ hung' = hung /\ UNCHANGED consent
  BY DEF Skip, First
<1> QED
  BY <1>1, SettledKeeps DEF Outcomes

LEMMA SpawnFailsKeeps ==
  ASSUME IInv, NEW i \in Commands, SpawnFails(i)
  PROVE  IInv'
<1>1. Settle(i, "unstarted") /\ pc = "next" /\ i \in todo
      /\ todo' = todo \ {i} /\ cur' = i /\ job' = job /\ now' = now
      /\ deadline' = deadline /\ hung' = hung /\ UNCHANGED consent
      /\ pc' = IF job.kind = "agent" THEN "block" ELSE "next"
  BY DEF SpawnFails, CanStart, First
<1> QED
  BY <1>1, SettledKeeps DEF Outcomes, Settled

LEMMA SpawnKeeps ==
  ASSUME IInv, NEW i \in Commands, Spawn(i)
  PROVE  IInv'
<1> DEFINE errs == IF job.kind = "agent" THEN {} ELSE {"child"}
<1>1. TypeOK /\ OneChild /\ DueAnswered /\ Consented
  BY DEF IInv, RunInv
<1>2. pc = "next" /\ First(i) /\ i \in todo /\ (job.kind = "agent" \/ now < deadline)
  BY DEF Spawn, CanStart, First
<1>3. limit' = ReadLimit(i) /\ todo' = todo \ {i} /\ cur' = i /\ pc' = "recv"
      /\ job' = job /\ now' = now /\ deadline' = deadline /\ outcome' = outcome
      /\ trace' = trace /\ hung' = hung /\ UNCHANGED consent
  BY DEF Spawn, history
<1>4. child' = Newborn(errs)
  BY DEF Spawn, Newborn
<1>5. child' \in Children /\ child'.st = "running" /\ child'.outs = {"child"}
      /\ child'.flooded = FALSE /\ child'.large = FALSE /\ child'.sent = FALSE
      /\ child'.read = "nothing"
  BY <1>4, NewbornFields DEF Children
<1>6. trace' = NoTrace /\ trace'.closed = Never /\ trace'.code = "none" /\ trace'.cut = FALSE
      /\ trace'.odd = FALSE /\ trace'.said = "nothing"
  BY <1>1, <1>2, <1>3 DEF OneChild, Held, NoTrace
<1>7. record' = record /\ granter' = granter /\ granted' = granted
  BY <1>3 DEF consent
<1>8. ~Held /\ Held'
  BY <1>2, <1>3 DEF Held
<1>9. ReadLimit(i) \in Nat
  BY <1>1, TimeoutType, HandlerAssumption DEF ReadLimit, TypeOK
<1>10. TypeOK'
  <2>1. cur' \in 0..N
    BY <1>3, HandlerAssumption DEF Commands
  <2>2. pc' \in Phases /\ todo' \subseteq Commands /\ limit' \in Nat \cup {Never}
    BY <1>1, <1>3, <1>9 DEF TypeOK, Phases
  <2> QED
    BY <1>1, <1>3, <1>5, <1>7, <2>1, <2>2 DEF TypeOK
<1>11. OneChild'
  BY <1>1, <1>2, <1>3, <1>5, <1>8, <1>9 DEF OneChild
<1>12. Traced'
  <2>1. child'.st \notin {"ok", "fail"} /\ child'.outs # {}
    BY <1>5
  <2> QED
    BY <1>5, <1>6, <2>1 DEF Traced
<1>13. Fresh' /\ Endings'
  BY <1>3, <1>5, <1>6 DEF Fresh, Endings, Held
<1>14. Consented'
  BY <1>2, <1>3, ConsentKept
<1>15. Due' = Due
  BY <1>3, SameDue
<1>16. DueAnswered'
  <2>1. CASE job.kind = "agent"
    BY <1>3, <2>1 DEF DueAnswered
  <2>2. CASE job.kind # "agent"
    <3>1. IsTrusted(Here)
      BY <1>1, <1>2 DEF Consented
    <3>2. \A j \in Commands : outcome[j] = "none" <=> j \notin Due \/ j \in todo
      BY <1>1, <1>2, <1>8, <2>2, <3>1 DEF DueAnswered
    <3>3. \A j \in Commands :
            outcome'[j] = "none" <=> j \notin Due' \/ j \in todo' \/ (Held' /\ j = cur')
      BY <1>2, <1>3, <1>8, <1>15, <3>2
    <3> QED
      BY <3>3 DEF DueAnswered
  <2> QED
    BY <2>1, <2>2
<1>17. Flushes'
  <2> SUFFICES ASSUME job.kind # "agent"
               PROVE  Flushes'
    BY <1>3 DEF Flushes
  <2>1. ReadLimit(i) <= deadline /\ now <= ReadLimit(i)
    BY <1>1, <1>2, TimeoutType DEF ReadLimit, TypeOK
  <2>2. todo \subseteq Due /\ now <= deadline + hung
    BY DEF IInv, Flushes
  <2> QED
    BY <1>2, <1>3, <1>15, <2>1, <2>2 DEF Flushes
<1>18. Agents'
  <2> SUFFICES ASSUME job.kind = "agent"
               PROVE  Agents'
    BY <1>3 DEF Agents
  <2>0. Agents
    BY DEF IInv
  <2>1. ReadLimit(i) = now + AgentTimeout
    BY DEF ReadLimit
  <2>2. i \in {Context, Runner} /\ now \in Nat /\ AgentTimeout \in Nat
    BY <1>1, <1>2, <2>0, HandlerAssumption DEF Agents, TypeOK
  <2>3. CASE i = Context
    <3>1. now = 0
      BY <1>2, <2>0, <2>3 DEF Agents
    <3> QED
      BY <1>2, <1>3, <2>0, <2>1, <2>2, <2>3, <3>1 DEF Agents, Context, Runner
  <2>4. CASE i = Runner
    <3>1. Context \notin todo
      BY <1>2, <2>4, CommandsHold DEF First, Commands
    <3>2. now <= AgentTimeout
      BY <1>2, <2>0, <3>1 DEF Agents
    <3>3. job.context => outcome[Context] \in {"text", "silent"}
      BY <1>2, <2>0, <3>1 DEF Agents
    <3> QED
      BY <1>2, <1>3, <2>0, <2>1, <2>2, <2>4, <3>2, <3>3, CommandsHold DEF Agents
  <2> QED
    BY <2>2, <2>3, <2>4
<1> QED
  BY <1>10, <1>11, <1>12, <1>13, <1>14, <1>16, <1>17, <1>18 DEF IInv, RunInv

LEMMA ReceiveKeeps ==
  ASSUME IInv, Receive
  PROVE  IInv'
<1>1. TypeOK /\ OneChild /\ Traced /\ DueAnswered
  BY DEF IInv, RunInv
<1>2. pc = "recv" /\ pc' = "wait" /\ job' = job /\ todo' = todo /\ cur' = cur /\ now' = now
      /\ deadline' = deadline /\ limit' = limit /\ child' = child /\ outcome' = outcome
      /\ trace' = trace /\ hung' = hung /\ UNCHANGED consent
  BY DEF Receive, history
<1>3. record' = record /\ granter' = granter /\ granted' = granted
      /\ IsTrusted(Here)' = IsTrusted(Here)
  BY <1>2, SameTrust
<1>4. Held /\ Held'
  BY <1>2 DEF Held
<1>5. TypeOK'
  BY <1>1, <1>2, <1>3 DEF TypeOK, Phases
<1>6. OneChild' /\ Traced'
  BY <1>1, <1>2, <1>4 DEF OneChild, Traced
<1>7. Consented'
  BY <1>2, ConsentKept
<1>8. Due' = Due
  BY <1>2, SameDue
<1>9. DueAnswered'
  BY <1>1, <1>2, <1>3, <1>4, <1>8 DEF DueAnswered
<1>10. Flushes' /\ Agents'
  BY <1>2, <1>4, <1>8 DEF IInv, Flushes, Agents
<1>11. Fresh' /\ Endings'
  BY <1>2, <1>4 DEF IInv, Fresh, Endings
<1> QED
  BY <1>5, <1>6, <1>7, <1>9, <1>10, <1>11 DEF IInv, RunInv

LEMMA ReadTimesOutKeeps ==
  ASSUME IInv, ReadTimesOut
  PROVE  IInv'
<1>1. Settle(cur, "late") /\ pc = "recv" /\ Held
      /\ todo' = todo /\ cur' = cur /\ job' = job /\ now' = now
      /\ deadline' = deadline /\ hung' = hung /\ UNCHANGED consent
      /\ pc' = IF job.kind = "agent" THEN "block" ELSE "next"
  BY DEF ReadTimesOut, Held
<1>2. cur \in Commands /\ todo' = todo \ {cur}
  BY <1>1 DEF IInv, RunInv, OneChild
<1> QED
  BY <1>1, <1>2, SettledKeeps DEF Outcomes, Settled

LEMMA ReadStderrKeeps ==
  ASSUME IInv, ReadStderr
  PROVE  IInv'
<1>1. Settle(cur, "failed") /\ pc = "stderr" /\ Held
      /\ todo' = todo /\ cur' = cur /\ job' = job /\ now' = now
      /\ deadline' = deadline /\ hung' = hung /\ UNCHANGED consent /\ pc' = "next"
  BY DEF ReadStderr, Held
<1>2. cur \in Commands /\ todo' = todo \ {cur} /\ job.kind # "agent"
  BY <1>1 DEF IInv, RunInv, OneChild, Agents
<1> QED
  BY <1>1, <1>2, SettledKeeps DEF Outcomes, Settled

LEMMA FinishKeeps ==
  ASSUME IInv, Finish
  PROVE  IInv'
<1>1. TypeOK /\ OneChild /\ Traced /\ DueAnswered /\ Consented
  BY DEF IInv, RunInv
<1>2. pc = "next" /\ pc' \in {"block", "done"} /\ job' = job /\ todo' = todo /\ cur' = cur
      /\ now' = now /\ deadline' = deadline /\ limit' = limit /\ child' = child
      /\ outcome' = outcome /\ trace' = trace /\ hung' = hung /\ UNCHANGED consent
  BY DEF Finish, history
<1>3. record' = record /\ granter' = granter /\ granted' = granted
      /\ IsTrusted(Here)' = IsTrusted(Here)
  BY <1>2, SameTrust
<1>4. ~Held /\ ~Held'
  BY <1>2 DEF Held
<1>5. TypeOK'
  BY <1>1, <1>2, <1>3 DEF TypeOK, Phases
<1>6. OneChild'
  BY <1>1, <1>2, <1>4 DEF OneChild
<1>7. Traced' /\ Fresh' /\ Endings'
  BY <1>2, <1>4 DEF Traced, Fresh, Endings
<1>8. Consented'
  BY <1>2, ConsentKept
<1>9. Due' = Due
  BY <1>2, SameDue
<1>10. DueAnswered'
  BY <1>1, <1>2, <1>3, <1>4, <1>9 DEF DueAnswered
<1>11. Flushes' /\ Agents'
  BY <1>2, <1>4, <1>9 DEF IInv, Flushes, Agents
<1> QED
  BY <1>5, <1>6, <1>7, <1>8, <1>10, <1>11 DEF IInv, RunInv

LEMMA HeardType == Heard \in {"silent", "text"}
BY DEF Heard

\* What a verdict rests on: the child's status, with its trace, when gaff waits for it.
LEMMA StatusTold ==
  ASSUME IInv, pc = "wait"
  PROVE  /\ cur \in Commands /\ outcome[cur] = "none"
         /\ child.st \in {"running", "ok", "fail", "pipe"}
         /\ child.st = "pipe" => child.flooded
         /\ child.st \in {"ok", "fail"} => trace.code = child.st
         /\ child.st \notin {"ok", "fail"} => trace.code = "none"
         /\ trace.cut = (child.flooded \/ child.large)
         /\ ~child.flooded => /\ (trace.odd <=> child.read = "odd")
                              /\ ~trace.odd => trace.said = child.read
         /\ child.large => job.kind = "agent" /\ cur = Context
         /\ child.flooded => child.read # "nothing" /\ trace.said # "nothing"
<1>1. Held /\ TypeOK /\ OneChild /\ Traced /\ Endings
  BY DEF Held, IInv, RunInv
<1>2. child.st \in {"running", "ok", "fail", "pipe"}
  BY <1>1 DEF OneChild, TypeOK, Children, Endings
<1> QED
  BY <1>1, <1>2 DEF OneChild, Traced, Endings

\* The status gaff judges by, and whether gaff killed the child.
LEMMA ConcludeKeeps ==
  ASSUME IInv, pc = "wait", NEW st, NEW killed \in BOOLEAN, Conclude(st, killed),
         (child.st # "running" /\ st = child.st) \/ killed,
         job' = job, todo' = todo, cur' = cur, now' = now, deadline' = deadline,
         hung' = hung, UNCHANGED consent
  PROVE  IInv'
<1>1. Held /\ cur \in Commands /\ todo' = todo \ {cur}
  BY DEF Held, IInv, RunInv, OneChild
<1>2. CASE job.kind = "agent"
  <2>1. Settle(cur, Heard) /\ pc' = Admitted(st)
    BY <1>2 DEF Conclude
  <2>2. pc' \in {"next", "block", "admit", "panic"} /\ (pc' = "next" => cur = Context)
    BY <2>1 DEF Admitted, Verdict
  <2> QED
    BY <1>1, <2>1, <2>2, HeardType, SettledKeeps DEF Outcomes, Settled
<1>3. CASE job.kind # "agent" /\ Judged(st, killed) # "failed"
  <2>1. Settle(cur, Heard) /\ pc' = "next"
    BY <1>3 DEF Conclude
  <2> QED
    BY <1>1, <1>3, <2>1, HeardType, SettledKeeps DEF Outcomes, Settled
<1>4. CASE job.kind # "agent" /\ Judged(st, killed) = "failed"
  <2>1. pc' = "stderr" /\ child' = child /\ outcome' = outcome /\ trace' = trace
        /\ limit' = limit
    BY <1>4 DEF Conclude
  <2>2. ~killed /\ ~child.flooded /\ st = child.st /\ child.st # "running"
        /\ ~(st = "ok" /\ job.reapable)
    BY <1>4 DEF Judged
  <2>3. trace.code = "fail" \/ (trace.code = "ok" /\ ~job.reapable)
    BY <2>2, StatusTold
  <2>4. TypeOK /\ OneChild /\ Traced /\ DueAnswered
    BY DEF IInv, RunInv
  <2>5. record' = record /\ granter' = granter /\ granted' = granted
        /\ IsTrusted(Here)' = IsTrusted(Here)
    BY SameTrust
  <2>6. Held'
    BY <2>1 DEF Held
  <2>7. TypeOK'
    BY <2>1, <2>4, <2>5 DEF TypeOK, Phases
  <2>8. OneChild' /\ Traced'
    BY <1>1, <2>1, <2>4, <2>6 DEF OneChild, Traced
  <2>9. Consented'
    BY ConsentKept
  <2>10. Due' = Due
    BY SameDue
  <2>11. DueAnswered'
    BY <1>1, <2>1, <2>4, <2>5, <2>6, <2>10 DEF DueAnswered
  <2>12. Flushes' /\ Agents'
    BY <1>1, <1>4, <2>1, <2>6, <2>10 DEF IInv, Flushes, Agents
  <2>13. Fresh' /\ Endings'
    BY <1>1, <2>1, <2>3, <2>6 DEF IInv, Fresh, Endings
  <2> QED
    BY <2>7, <2>8, <2>9, <2>11, <2>12, <2>13 DEF IInv, RunInv
<1> QED
  BY <1>2, <1>3, <1>4

LEMMA ReapKeeps ==
  ASSUME IInv, Reap
  PROVE  IInv'
BY ConcludeKeeps DEF Reap

LEMMA OverrunKeeps ==
  ASSUME IInv, Overrun
  PROVE  IInv'
BY ConcludeKeeps DEF Overrun

LEMMA GaffKeeps ==
  ASSUME IInv, Gaff
  PROVE  IInv'
BY BeginKeeps, ReceiveKeeps, ReadTimesOutKeeps, ReapKeeps, OverrunKeeps, ReadStderrKeeps,
   FinishKeeps, SkipKeeps, SpawnFailsKeeps, SpawnKeeps DEF Gaff

-----------------------------------------------------------------------------
(* The reader, the child, and the clock.                                   *)

LEMMA ReaderKeeps ==
  ASSUME IInv, ReaderSends
  PROVE  IInv'
<1>1. TypeOK /\ OneChild /\ Traced /\ DueAnswered
  BY DEF IInv, RunInv
<1>2. child.st # "none" /\ (child.outs = {} \/ child.flooded) /\ pc' = pc /\ job' = job
      /\ todo' = todo /\ cur' = cur /\ now' = now /\ deadline' = deadline /\ limit' = limit
      /\ outcome' = outcome /\ trace' = trace /\ hung' = hung /\ UNCHANGED consent
  BY DEF ReaderSends, history
<1>3. child' = [child EXCEPT !.sent = TRUE]
  BY DEF ReaderSends
<1>4. child' \in Children /\ child'.st = child.st /\ child'.outs = child.outs
      /\ child'.flooded = child.flooded /\ child'.large = child.large
      /\ child'.read = child.read /\ child'.sent
  BY <1>1, <1>3 DEF TypeOK, Children
<1>5. record' = record /\ granter' = granter /\ granted' = granted
      /\ IsTrusted(Here)' = IsTrusted(Here)
  BY <1>2, SameTrust
<1>6. Held /\ Held'
  BY <1>1, <1>2 DEF OneChild, Held
<1>7. TypeOK'
  BY <1>1, <1>2, <1>4, <1>5 DEF TypeOK
<1>8. OneChild' /\ Traced'
  BY <1>1, <1>2, <1>4, <1>6 DEF OneChild, Traced
<1>9. Consented'
  BY <1>2, ConsentKept
<1>10. Due' = Due
  BY <1>2, SameDue
<1>11. DueAnswered'
  BY <1>1, <1>2, <1>5, <1>6, <1>10 DEF DueAnswered
<1>12. Flushes' /\ Agents'
  BY <1>2, <1>6, <1>10 DEF IInv, Flushes, Agents
<1>13. Fresh' /\ Endings'
  BY <1>2, <1>4, <1>6 DEF IInv, Fresh, Endings
<1> QED
  BY <1>7, <1>8, <1>9, <1>11, <1>12, <1>13 DEF IInv, RunInv

\* What every step of the child or its heir does to the two: its trace tells how it ends
\* and what it says, a pipe that was left is not taken up again, a status once had stays.
Follows(c, t) ==
  /\ c \in Children /\ t \in Traces
  /\ c.st \notin {"none", "killed"} /\ c.sent = child.sent
  /\ child.st # "running" => c.st = child.st /\ t.code = trace.code
  /\ c.st \in {"ok", "fail"} => t.code = c.st
  /\ c.st \notin {"ok", "fail"} => t.code = "none"
  /\ c.st = "pipe" => c.flooded
  /\ t.cut = (c.flooded \/ c.large)
  /\ child.flooded => c.flooded
  /\ ~c.flooded => (t.odd <=> c.read = "odd") /\ (~t.odd => t.said = c.read)
  /\ c.large => job.kind = "agent" /\ cur = Context
  /\ t.odd => job.kind = "agent" /\ cur = Runner
  /\ c.flooded => c.read # "nothing" /\ t.said # "nothing"
  /\ child.outs = {} => c.outs = {}
  /\ c.st # "running" => "child" \notin c.outs
  /\ t.closed = trace.closed

LEMMA ChildStepKeeps ==
  ASSUME IInv, Held, NEW c, NEW t, ChildStep(c, t), Follows(c, t)
  PROVE  IInv'
<1>1. TypeOK /\ OneChild /\ Traced /\ DueAnswered /\ Endings
  BY DEF IInv, RunInv
<1>2. pc' = pc /\ job' = job /\ todo' = todo /\ cur' = cur /\ now' = now
      /\ deadline' = deadline /\ limit' = limit /\ outcome' = outcome /\ hung' = hung
      /\ child' = c /\ UNCHANGED consent
  BY DEF ChildStep
<1>3. trace' = IF c.outs = {} /\ child.outs # {} THEN [t EXCEPT !.closed = now] ELSE t
  BY DEF ChildStep
<1>4. c \in Children /\ t \in Traces /\ now \in Nat
  BY <1>1 DEF Follows, TypeOK
<1>5. /\ trace' \in Traces
      /\ trace'.code = t.code /\ trace'.cut = t.cut /\ trace'.said = t.said
      /\ trace'.odd = t.odd
      /\ trace'.closed = IF c.outs = {} /\ child.outs # {} THEN now ELSE trace.closed
  <2>1. CASE c.outs = {} /\ child.outs # {}
    <3>1. trace' = [t EXCEPT !.closed = now]
      BY <1>3, <2>1
    <3> QED
      BY <1>4, <2>1, <3>1 DEF Traces
  <2>2. CASE ~(c.outs = {} /\ child.outs # {})
    BY <1>3, <1>4, <2>2 DEF Follows
  <2> QED
    BY <2>1, <2>2
<1>6. record' = record /\ granter' = granter /\ granted' = granted
      /\ IsTrusted(Here)' = IsTrusted(Here)
  BY <1>2, SameTrust
<1>7. Held'
  BY <1>2 DEF Held
<1>8. TypeOK'
  BY <1>1, <1>2, <1>4, <1>5, <1>6 DEF TypeOK
<1>9. OneChild'
  BY <1>1, <1>2, <1>7 DEF OneChild, Follows
<1>10. Traced'
  <2>1. now # Never /\ (trace'.closed # Never <=> c.outs = {})
    BY <1>1, <1>4, <1>5 DEF Traced, Never, Follows
  <2>2. child'.sent => child'.outs = {} \/ child'.flooded
    BY <1>1, <1>2 DEF Traced, Follows
  <2> QED
    BY <1>2, <1>5, <2>1, <2>2 DEF Traced, Follows
<1>11. Consented'
  BY <1>2, ConsentKept
<1>12. Due' = Due
  BY <1>2, SameDue
<1>13. DueAnswered'
  BY <1>1, <1>2, <1>6, <1>7, <1>12 DEF DueAnswered
<1>14. Flushes' /\ Agents'
  BY <1>2, <1>7, <1>12 DEF IInv, Flushes, Agents
<1>15. Fresh'
  BY <1>2 DEF IInv, Fresh
<1>16. Endings'
  <2>1. pc = "recv" /\ ~child'.sent /\ trace'.closed # Never => trace'.closed = now
    BY <1>1, <1>2, <1>5 DEF Endings, Follows
  <2>2. pc = "stderr" => trace'.code = "fail" \/ (trace'.code = "ok" /\ ~job.reapable)
    <3> SUFFICES ASSUME pc = "stderr"
                 PROVE  trace'.code = "fail" \/ (trace'.code = "ok" /\ ~job.reapable)
      OBVIOUS
    <3>1. trace.code = "fail" \/ (trace.code = "ok" /\ ~job.reapable)
      BY <1>1 DEF Endings
    <3>2. child.st # "running"
      BY <1>1, <3>1 DEF Traced
    <3> QED
      BY <1>5, <3>1, <3>2 DEF Follows
  <2> QED
    BY <1>2, <1>5, <2>1, <2>2 DEF Endings, Follows
<1> QED
  BY <1>8, <1>9, <1>10, <1>11, <1>13, <1>14, <1>15, <1>16 DEF IInv, RunInv

LEMMA LastAgrees ==
  ASSUME NEW before \in Words, NEW said \in Verdicts, NEW line \in {"text", "pass", "fail"}
  PROVE  /\ before # "odd" => Last(before, line) = Said(before, line)
         /\ Last(before, line) = "odd" <=> before = "odd"
         /\ Last(before, line) \in Words \ {"nothing"}
         /\ Said(said, line) \in Verdicts \ {"nothing"}
BY DEF Last, Said, Verdicts, Words

LEMMA OddStays ==
  ASSUME NEW before
  PROVE  Last(before, "odd") = "odd"
BY DEF Last

\* A child that holds a pipe, or has not ended, is the one gaff waits for.
LEMMA OutsideKeeps ==
  ASSUME IInv, Outside
  PROVE  IInv'
<1>1. TypeOK /\ OneChild /\ Traced /\ Endings
  BY DEF IInv, RunInv
<1>2. child \in Children /\ trace \in Traces
  BY <1>1 DEF TypeOK
<1>3. child.outs # {} \/ child.errs # {} \/ child.st = "running" => Held
  BY <1>1, NoChildFields DEF OneChild
<1>4. Held => Follows(child, trace)
  BY <1>1, <1>2 DEF OneChild, Traced, Endings, Follows
<1>5. ASSUME NEW line \in {"text", "pass", "fail"}, Writes(line)
      PROVE  IInv'
  <2> DEFINE c == [child EXCEPT !.read = IF child.flooded THEN @ ELSE Last(@, line)]
             t == [trace EXCEPT !.said = Said(@, line)]
  <2>1. ChildStep(c, t) /\ Held
    BY <1>3, <1>5 DEF Writes
  <2>2. child.read \in Words /\ trace.said \in Verdicts
    BY <1>2 DEF Children, Traces
  <2>3. c \in Children /\ c.st = child.st /\ c.outs = child.outs /\ c.sent = child.sent
        /\ c.flooded = child.flooded /\ c.large = child.large
        /\ c.read = IF child.flooded THEN child.read ELSE Last(child.read, line)
    BY <1>2, <2>2, LastAgrees DEF Children
  <2>4. t \in Traces /\ t.closed = trace.closed /\ t.code = trace.code /\ t.cut = trace.cut
        /\ t.odd = trace.odd /\ t.said = Said(trace.said, line)
    BY <1>2, <2>2, LastAgrees DEF Traces
  <2> HIDE DEF c, t
  <2>5. /\ t.said # "nothing"
        /\ c.flooded => c.read # "nothing"
        /\ ~c.flooded => (t.odd <=> c.read = "odd") /\ (~t.odd => t.said = c.read)
    BY <1>4, <2>1, <2>2, <2>3, <2>4, LastAgrees DEF Follows
  <2>6. Follows(c, t)
    BY <1>4, <2>1, <2>3, <2>4, <2>5 DEF Follows
  <2> QED
    BY <2>1, <2>6, ChildStepKeeps
<1>13. ASSUME Writes("odd"), job.kind = "agent", cur = Runner
       PROVE  IInv'
  <2> DEFINE c == [child EXCEPT !.read = IF child.flooded THEN @ ELSE Last(@, "odd")]
             t == [trace EXCEPT !.odd = TRUE, !.said = Said(@, "text")]
  <2>1. ChildStep(c, t) /\ Held
    BY <1>3, <1>13 DEF Writes
  <2>2. child.read \in Words /\ trace.said \in Verdicts
    BY <1>2 DEF Children, Traces
  <2>3. c \in Children /\ c.st = child.st /\ c.outs = child.outs /\ c.sent = child.sent
        /\ c.flooded = child.flooded /\ c.large = child.large
        /\ c.read = IF child.flooded THEN child.read ELSE "odd"
    BY <1>2, <2>2, OddStays DEF Children, Words
  <2>4. t \in Traces /\ t.closed = trace.closed /\ t.code = trace.code /\ t.cut = trace.cut
        /\ t.odd = TRUE /\ t.said \in Verdicts \ {"nothing"}
    BY <1>2, <2>2, LastAgrees DEF Traces
  <2> HIDE DEF c, t
  <2>5. Follows(c, t)
    BY <1>4, <1>13, <2>1, <2>3, <2>4 DEF Follows
  <2> QED
    BY <2>1, <2>5, ChildStepKeeps
<1>14. CASE Swells
  <2> DEFINE c == [child EXCEPT !.large = TRUE, !.read = Last(@, "text")]
             t == [trace EXCEPT !.cut = TRUE, !.said = Said(@, "text")]
  <2>1. ChildStep(c, t) /\ Held /\ job.kind = "agent" /\ cur = Context /\ ~child.flooded
    BY <1>3, <1>14 DEF Swells
  <2>2. child.read \in Words /\ trace.said \in Verdicts
    BY <1>2 DEF Children, Traces
  <2>3. c \in Children /\ c.st = child.st /\ c.outs = child.outs /\ c.sent = child.sent
        /\ c.flooded = child.flooded /\ c.large = TRUE /\ c.read = Last(child.read, "text")
    BY <1>2, <2>2, LastAgrees DEF Children
  <2>4. t \in Traces /\ t.closed = trace.closed /\ t.code = trace.code /\ t.cut = TRUE
        /\ t.odd = trace.odd /\ t.said = Said(trace.said, "text")
    BY <1>2, <2>2, LastAgrees DEF Traces
  <2> HIDE DEF c, t
  <2>5. (t.odd <=> c.read = "odd") /\ (~t.odd => t.said = c.read)
    BY <1>4, <2>1, <2>2, <2>3, <2>4, LastAgrees DEF Follows
  <2>6. Follows(c, t)
    BY <1>4, <2>1, <2>3, <2>4, <2>5 DEF Follows
  <2> QED
    BY <2>1, <2>6, ChildStepKeeps
<1>6. CASE Floods
  <2> DEFINE c == [child EXCEPT !.flooded = TRUE, !.read = Last(@, "text")]
             t == [trace EXCEPT !.cut = TRUE, !.said = Said(@, "text")]
  <2>1. ChildStep(c, t) /\ Held
    BY <1>3, <1>6 DEF Floods
  <2>2. child.read \in Words /\ trace.said \in Verdicts
    BY <1>2 DEF Children, Traces
  <2>3. c \in Children /\ c.st = child.st /\ c.outs = child.outs /\ c.sent = child.sent
        /\ c.flooded = TRUE /\ c.large = child.large /\ c.read # "nothing"
    BY <1>2, <2>2, LastAgrees DEF Children
  <2>4. t \in Traces /\ t.closed = trace.closed /\ t.code = trace.code /\ t.cut = TRUE
        /\ t.odd = trace.odd /\ t.said # "nothing"
    BY <1>2, <2>2, LastAgrees DEF Traces
  <2> HIDE DEF c, t
  <2>5. Follows(c, t)
    BY <1>4, <2>1, <2>3, <2>4 DEF Follows
  <2> QED
    BY <2>1, <2>5, ChildStepKeeps
<1>7. CASE BrokenPipe
  <2> DEFINE c == Leave([child EXCEPT !.st = "pipe"], {"child"})
  <2>1. ChildStep(c, trace) /\ Held /\ child.st = "running" /\ child.flooded
    BY <1>3, <1>7 DEF BrokenPipe
  <2>2. c \in Children /\ c.st = "pipe" /\ c.outs = child.outs \ {"child"}
        /\ c.sent = child.sent /\ c.flooded = child.flooded /\ c.large = child.large
        /\ c.read = child.read
    BY <1>2 DEF Children, Leave
  <2> HIDE DEF c
  <2>3. Follows(c, trace)
    BY <1>4, <2>1, <2>2 DEF Follows
  <2> QED
    BY <2>1, <2>3, ChildStepKeeps
<1>8. CASE Complains
  <2> DEFINE c == [child EXCEPT !.noisy = TRUE]
  <2>1. ChildStep(c, trace) /\ Held
    BY <1>3, <1>8 DEF Complains
  <2>2. c \in Children /\ c.st = child.st /\ c.outs = child.outs
        /\ c.sent = child.sent /\ c.flooded = child.flooded /\ c.large = child.large
        /\ c.read = child.read
    BY <1>2 DEF Children
  <2> HIDE DEF c
  <2>3. Follows(c, trace)
    BY <1>4, <2>1, <2>2 DEF Follows
  <2> QED
    BY <2>1, <2>3, ChildStepKeeps
<1>9. CASE Forks
  <2>1. PICK out \in BOOLEAN, err \in BOOLEAN :
          ChildStep([child EXCEPT
            !.outs = IF out /\ "child" \in @ THEN @ \cup {"heir"} ELSE @,
            !.errs = IF err /\ "child" \in @ THEN @ \cup {"heir"} ELSE @], trace)
    BY <1>9 DEF Forks
  <2> DEFINE c == [child EXCEPT
                     !.outs = IF out /\ "child" \in @ THEN @ \cup {"heir"} ELSE @,
                     !.errs = IF err /\ "child" \in @ THEN @ \cup {"heir"} ELSE @]
  <2>2. ChildStep(c, trace)
    BY <2>1
  <2>3. Held /\ child.st = "running"
    BY <1>3, <1>9 DEF Forks
  <2>4. c \in Children /\ c.st = child.st /\ (child.outs = {} => c.outs = {})
        /\ c.sent = child.sent /\ c.flooded = child.flooded /\ c.large = child.large
        /\ c.read = child.read
    BY <1>2 DEF Children
  <2> HIDE DEF c
  <2>5. Follows(c, trace)
    BY <1>4, <2>3, <2>4 DEF Follows
  <2> QED
    BY <2>2, <2>3, <2>5, ChildStepKeeps
<1>10. CASE HeirLeaves
  <2> DEFINE c == Leave(child, {"heir"})
  <2>1. ChildStep(c, trace) /\ Held
    BY <1>3, <1>10 DEF HeirLeaves
  <2>2. c \in Children /\ c.st = child.st /\ c.outs \subseteq child.outs
        /\ c.sent = child.sent /\ c.flooded = child.flooded /\ c.large = child.large
        /\ c.read = child.read
    BY <1>2 DEF Children, Leave
  <2> HIDE DEF c
  <2>3. Follows(c, trace)
    BY <1>4, <2>1, <2>2 DEF Follows
  <2> QED
    BY <2>1, <2>3, ChildStepKeeps
<1>11. CASE ClosesStdout
  <2> DEFINE c == [child EXCEPT !.outs = @ \ {"child"}]
  <2>1. ChildStep(c, trace) /\ Held
    BY <1>3, <1>11 DEF ClosesStdout
  <2>2. c \in Children /\ c.st = child.st /\ c.outs \subseteq child.outs
        /\ c.sent = child.sent /\ c.flooded = child.flooded /\ c.large = child.large
        /\ c.read = child.read
    BY <1>2 DEF Children
  <2> HIDE DEF c
  <2>3. Follows(c, trace)
    BY <1>4, <2>1, <2>2 DEF Follows
  <2> QED
    BY <2>1, <2>3, ChildStepKeeps
<1>12. ASSUME NEW code \in {"ok", "fail"}, Exits(code)
       PROVE  IInv'
  <2> DEFINE c == Leave([child EXCEPT !.st = code], {"child"})
             t == [trace EXCEPT !.exited = now, !.code = code]
  <2>1. ChildStep(c, t) /\ Held /\ child.st = "running"
    BY <1>3, <1>12 DEF Exits
  <2>2. c \in Children /\ c.st = code /\ c.outs = child.outs \ {"child"}
        /\ c.sent = child.sent /\ c.flooded = child.flooded /\ c.large = child.large
        /\ c.read = child.read
    BY <1>2 DEF Children, Leave
  <2>3. t \in Traces /\ t.closed = trace.closed /\ t.code = code /\ t.cut = trace.cut
        /\ t.odd = trace.odd /\ t.said = trace.said
    BY <1>1, <1>2 DEF Traces, TypeOK
  <2> HIDE DEF c, t
  <2>4. Follows(c, t)
    BY <1>4, <2>1, <2>2, <2>3 DEF Follows
  <2> QED
    BY <2>1, <2>4, ChildStepKeeps
<1>15. ASSUME NEW line \in Written, Writes(line)
       PROVE  IInv'
  BY <1>5, <1>13, <1>15 DEF Written
<1> QED
  BY <1>6, <1>7, <1>8, <1>9, <1>10, <1>11, <1>12, <1>14, <1>15 DEF Outside

LEMMA TickKeeps ==
  ASSUME IInv, Tick
  PROVE  IInv'
<1>1. TypeOK /\ OneChild /\ Traced /\ DueAnswered /\ Endings
  BY DEF IInv, RunInv
<1>2. Waiting /\ now' = now + 1 /\ pc' = pc /\ job' = job /\ todo' = todo /\ cur' = cur
      /\ deadline' = deadline /\ limit' = limit /\ child' = child /\ outcome' = outcome
      /\ trace' = trace /\ UNCHANGED consent
      /\ hung' = IF pc = "stderr" THEN hung + 1 ELSE hung
  BY DEF Tick
<1>3. record' = record /\ granter' = granter /\ granted' = granted
      /\ IsTrusted(Here)' = IsTrusted(Here)
  BY <1>2, SameTrust
<1>4. pc \in {"recv", "wait", "stderr"} /\ Held /\ Held'
  BY <1>2 DEF Waiting, Held
<1>5. now \in Nat /\ hung \in Nat /\ deadline \in Nat /\ limit \in Nat
  BY <1>1, <1>4 DEF TypeOK, OneChild
<1>6. TypeOK'
  BY <1>1, <1>2, <1>3, <1>5 DEF TypeOK
<1>7. OneChild' /\ Traced'
  BY <1>1, <1>2, <1>4 DEF OneChild, Traced
<1>8. Consented'
  BY <1>2, ConsentKept
<1>9. Due' = Due
  BY <1>2, SameDue
<1>10. DueAnswered'
  BY <1>1, <1>2, <1>3, <1>4, <1>9 DEF DueAnswered
<1>11. Fresh' /\ Endings'
  BY <1>1, <1>2, <1>4 DEF Fresh, Endings, Waiting, Traced
<1>12. Flushes'
  <2> SUFFICES ASSUME job.kind # "agent"
               PROVE  Flushes'
    BY <1>2 DEF Flushes
  <2>0. Flushes
    BY DEF IInv
  <2>1. pc = "recv" => now < limit
    BY <1>2 DEF Waiting
  <2>2. pc = "wait" => now < deadline
    BY <1>2 DEF Waiting, WaitLimit
  <2>3. limit <= deadline /\ now <= deadline + hung /\ (pc = "recv" => now' <= limit')
    BY <1>2, <1>4, <1>5, <2>0, <2>1 DEF Flushes
  <2>4. now' <= deadline' + hung'
    BY <1>2, <1>4, <1>5, <2>1, <2>2, <2>3
  <2> QED
    BY <1>2, <1>4, <1>9, <2>0, <2>3, <2>4 DEF Flushes
<1>13. Agents'
  <2> SUFFICES ASSUME job.kind = "agent"
               PROVE  Agents'
    BY <1>2 DEF Agents
  <2>0. Agents
    BY DEF IInv
  <2>1. pc # "stderr" /\ now < limit
    BY <1>2, <2>0 DEF Waiting, WaitLimit, Agents
  <2>2. now' <= limit' /\ limit' <= 2 * AgentTimeout /\ now' <= 2 * AgentTimeout
    BY <1>2, <1>4, <1>5, <2>0, <2>1, HandlerAssumption DEF Agents
  <2> QED
    BY <1>2, <1>4, <2>0, <2>1, <2>2 DEF Agents
<1> QED
  BY <1>6, <1>7, <1>8, <1>10, <1>11, <1>12, <1>13 DEF IInv, RunInv

LEMMA StutterKeeps ==
  ASSUME IInv, UNCHANGED vars
  PROVE  IInv'
<1>1. /\ UNCHANGED <<job, pc, todo, cur, now, deadline, limit, child, outcome, trace, hung>>
      /\ UNCHANGED <<record, granter, granted>>
  BY DEF vars, run, history, consent
<1>2. RunInv'
  BY <1>1 DEF IInv, RunInv, TypeOK, OneChild, Traced, DueAnswered, Consented, Held, Due, Loaded,
              Mine, IsTrusted, Names
<1> QED
  BY <1>1, <1>2, SameDue DEF IInv, Fresh, Flushes, Agents, Endings, Held

LEMMA StepKeeps ==
  ASSUME IInv, [Next]_vars
  PROVE  IInv'
BY PersonKeeps, GaffKeeps, ReaderKeeps, OutsideKeeps, TickKeeps, StutterKeeps DEF Next

\* Every step of the run, the child and the person keeps it.
THEOREM RunKeepsIInv == Spec => []IInv
<1>1. IInv /\ [Next]_vars => IInv'
  BY StepKeeps
<1> QED
  BY <1>1, InitOK, PTL DEF Spec

\* Of one gaff process and the child it waits for: the types, the pipes and the trace
\* agree, every due handler is answered, and nothing runs where no line of what a person
\* granted, trimmed, names the directory (handler.rs run_due, run_one, is_trusted, trust).
THEOREM RunInvariant == Spec => []RunInv
<1>1. IInv => RunInv
  BY DEF IInv
<1> QED
  BY <1>1, RunKeepsIInv, PTL

\* No flush outlasts its budget, but for the read of a failed child's stderr, and no
\* review agent its two timeouts (run_due's deadline, run_capturing).
THEOREM BudgetIsKept == Spec => []BudgetKept
<1>1. IInv => BudgetKept
  <2> SUFFICES ASSUME IInv
               PROVE  BudgetKept
    OBVIOUS
  <2>1. CASE job.kind = "agent"
    BY <2>1 DEF IInv, Agents, BudgetKept, Held
  <2>2. CASE job.kind # "agent"
    BY <2>2 DEF IInv, Flushes, BudgetKept
  <2> QED
    BY <2>1, <2>2
<1> QED
  BY <1>1, RunKeepsIInv, PTL

-----------------------------------------------------------------------------
(* How a command that runs is settled.                                     *)

LEMMA SettledBy ==
  ASSUME IInv, [Next]_vars, Held, outcome'[cur] # "none"
  PROVE  ReadTimesOut \/ Reap \/ Overrun \/ ReadStderr
<1>1. outcome[cur] = "none" /\ pc \notin {"begin", "next"}
  BY DEF IInv, RunInv, OneChild, Held
<1>2. outcome' # outcome
  BY <1>1
<1>3. ~Person /\ ~ReaderSends /\ ~Outside /\ ~Tick /\ ~UNCHANGED vars
  BY <1>1, <1>2 DEF Person, TrustReads, TrustEmpties, TrustWrites, TrustDies, Revokes, Tightens,
     ReaderSends, Outside, Writes, Swells, Floods, BrokenPipe, Complains, Forks, HeirLeaves,
     ClosesStdout, Exits, ChildStep, Tick, vars, run
<1>4. ~Begin /\ ~Receive /\ ~Finish
  BY <1>1, <1>2 DEF Begin, Receive, Finish
<1>5. ASSUME NEW i \in Commands
      PROVE  ~Skip(i) /\ ~SpawnFails(i) /\ ~Spawn(i)
  BY <1>1 DEF Skip, SpawnFails, Spawn, CanStart
<1> QED
  BY <1>3, <1>4, <1>5 DEF Next, Gaff

\* A command that is judged either has its output heard or goes on to its stderr.
LEMMA ConcludedAs ==
  ASSUME IInv, pc = "wait", NEW st, NEW killed \in BOOLEAN, Conclude(st, killed),
         outcome'[cur] # "none"
  PROVE  /\ outcome'[cur] = Heard
         /\ job.kind = "agent" => pc' = Admitted(st)
         /\ job.kind # "agent" => Judged(st, killed) # "failed"
<1>1. cur \in Commands /\ outcome[cur] = "none"
  BY StatusTold
<1>2. CASE job.kind = "agent"
  <2>1. Settle(cur, Heard) /\ pc' = Admitted(st)
    BY <1>2 DEF Conclude
  <2>2. outcome'[cur] = Heard
    BY <1>1, <2>1, HeardType, SettleTypes DEF Outcomes, Settled
  <2> QED
    BY <1>2, <2>1, <2>2
<1>3. CASE job.kind # "agent"
  <2>1. Judged(st, killed) # "failed"
    BY <1>1, <1>3 DEF Conclude
  <2>2. Settle(cur, Heard)
    BY <1>3, <2>1 DEF Conclude
  <2>3. outcome'[cur] = Heard
    BY <1>1, <2>2, HeardType, SettleTypes DEF Outcomes, Settled
  <2> QED
    BY <1>3, <2>1, <2>3
<1> QED
  BY <1>2, <1>3

LEMMA TimedOutIsLate ==
  ASSUME IInv, ReadTimesOut
  PROVE  outcome'[cur] = "late"
<1>1. Held /\ Settle(cur, "late")
  BY DEF ReadTimesOut, Held
<1>2. cur \in Commands
  BY <1>1 DEF IInv, RunInv, OneChild
<1> QED
  BY <1>1, <1>2, SettleTypes DEF Outcomes, Settled

LEMMA ReadIsFailed ==
  ASSUME IInv, ReadStderr
  PROVE  /\ outcome'[cur] = "failed" /\ job.kind # "agent"
         /\ trace.code = "fail" \/ (trace.code = "ok" /\ ~job.reapable)
<1>1. Held /\ pc = "stderr" /\ Settle(cur, "failed")
  BY DEF ReadStderr, Held
<1>2. cur \in Commands
  BY <1>1 DEF IInv, RunInv, OneChild
<1>3. outcome'[cur] = "failed"
  BY <1>1, <1>2, SettleTypes DEF Outcomes, Settled
<1> QED
  BY <1>1, <1>3 DEF IInv, Agents, Endings

\* No deadline, kill or read cap of gaff's own makes a handler count as failed
\* (run_one).
THEOREM FailuresAreItsOwn == Spec => OwnExitOnly
<1> DEFINE A == (Held /\ outcome'[cur] = "failed") =>
                  trace.code = "fail" \/ (trace.code = "ok" /\ ~job.reapable)
<1>1. IInv /\ [Next]_vars => A
  <2> SUFFICES ASSUME IInv, [Next]_vars, Held, outcome'[cur] = "failed"
               PROVE  trace.code = "fail" \/ (trace.code = "ok" /\ ~job.reapable)
    OBVIOUS
  <2>1. ReadTimesOut \/ Reap \/ Overrun \/ ReadStderr
    BY SettledBy
  <2>2. ~ReadTimesOut
    BY TimedOutIsLate
  <2>3. CASE Reap
    <3>1. pc = "wait" /\ Conclude(child.st, FALSE)
      BY <2>3 DEF Reap
    <3> QED
      BY <3>1, ConcludedAs, HeardType
  <2>4. CASE Overrun
    <3>1. pc = "wait" /\ \E st \in {"killed", child.st} : Conclude(st, TRUE)
      BY <2>4 DEF Overrun
    <3> QED
      BY <3>1, ConcludedAs, HeardType
  <2>5. CASE ReadStderr
    BY <2>5, ReadIsFailed
  <2> QED
    BY <2>1, <2>2, <2>3, <2>4, <2>5
<1>2. IInv /\ [Next]_vars => [A]_vars
  BY <1>1
<1> QED
  BY <1>2, RunKeepsIInv, PTL DEF Spec, OwnExitOnly

\* An answer that was over in time is heard: not dropped, nor is a failure of its own
\* missed, nor a runner's `pass`, but for that of a runner that wrote an odd line too, on
\* which gaff panics (run_one, dispatch, strip_marker).
THEOREM InTimeIsHeard == Spec => InTimeHeard
<1> DEFINE Early == Held /\ outcome'[cur] # "none" /\ trace.closed # Never
                         /\ trace.closed < limit
           Kept == /\ outcome'[cur] # "late"
                   /\ (trace.code = "ok" /\ job.reapable /\ trace.said # "nothing") =>
                        outcome'[cur] = "text"
                   /\ (/\ job.kind # "agent" /\ trace.code = "fail"
                       /\ trace.exited < deadline /\ ~trace.cut) => outcome'[cur] = "failed"
                   /\ (/\ job.kind = "agent" /\ cur = Runner /\ trace.code = "ok"
                       /\ job.reapable /\ trace.exited < limit /\ ~trace.cut
                       /\ trace.said = "pass") =>
                        pc' = IF trace.odd THEN "panic" ELSE "admit"
<1>1. IInv /\ [Next]_vars => (Early => Kept)
  <2> SUFFICES ASSUME IInv, [Next]_vars, Early
               PROVE  Kept
    OBVIOUS
  <2>0. now \in Nat /\ deadline \in Nat /\ limit \in Nat /\ TypeOK
    BY DEF IInv, RunInv, TypeOK, OneChild
  <2>1. ReadTimesOut \/ Reap \/ Overrun \/ ReadStderr
    BY SettledBy
  <2>2. CASE ReadTimesOut
    <3>1. pc = "recv" /\ ~child.sent /\ now >= limit
      BY <2>2 DEF ReadTimesOut
    <3>2. trace.closed = now
      BY <3>1 DEF IInv, Endings
    <3> QED
      BY <2>0, <3>1, <3>2
  <2>3. CASE ReadStderr
    BY <2>3, ReadIsFailed
  <2>4. ASSUME pc = "wait", NEW st, NEW killed \in BOOLEAN, Conclude(st, killed),
               child.st \in {"ok", "fail"} => st = child.st,
               killed /\ child.st \in {"ok", "fail"} => now >= WaitLimit /\ trace.exited = now
        PROVE  Kept
    <3>1. /\ outcome'[cur] = Heard
          /\ job.kind = "agent" => pc' = Admitted(st)
          /\ job.kind # "agent" => Judged(st, killed) # "failed"
      BY <2>4, ConcludedAs
    <3>2. /\ child.st \notin {"ok", "fail"} => trace.code = "none"
          /\ child.st \in {"ok", "fail"} => trace.code = child.st
          /\ trace.cut = (child.flooded \/ child.large)
          /\ ~child.flooded => /\ (trace.odd <=> child.read = "odd")
                               /\ ~trace.odd => trace.said = child.read
          /\ child.large => job.kind = "agent"
          /\ child.flooded => child.read # "nothing"
      BY <2>4, StatusTold
    <3>3. trace.code \in {"ok", "fail"} => st = trace.code
      BY <2>4, <3>2
    <3>4. outcome'[cur] # "late" /\ (trace.said # "nothing" => outcome'[cur] = "text")
      BY <3>1, <3>2 DEF Heard
    <3>5. ASSUME job.kind # "agent", trace.code = "fail", trace.exited < deadline, ~trace.cut
          PROVE  FALSE
      <4>1. child.st \in {"ok", "fail"} /\ st = "fail"
        BY <3>2, <3>3, <3>5
      <4>2. ~killed
        BY <2>0, <2>4, <3>5, <4>1 DEF WaitLimit
      <4> QED
        BY <3>1, <3>2, <3>5, <4>1, <4>2 DEF Judged
    <3>6. ASSUME job.kind = "agent", cur = Runner, trace.code = "ok", job.reapable,
                 ~trace.cut, trace.said = "pass"
          PROVE  pc' = IF trace.odd THEN "panic" ELSE "admit"
      <4>1. st = "ok" /\ cur # Context
        BY <3>3, <3>6 DEF Context, Runner
      <4>2. ~child.flooded
        BY <3>2, <3>6
      <4>3. child.read = IF trace.odd THEN "odd" ELSE "pass"
        BY <3>2, <3>6, <4>2
      <4> QED
        BY <3>1, <3>6, <4>1, <4>2, <4>3 DEF Admitted, Verdict
    <3> QED
      BY <3>4, <3>5, <3>6
  <2>5. CASE Reap
    <3>1. pc = "wait" /\ Conclude(child.st, FALSE)
      BY <2>5 DEF Reap
    <3> QED
      BY <2>4, <3>1
  <2>6. CASE Overrun
    <3>1. pc = "wait" /\ now >= WaitLimit
      BY <2>6 DEF Overrun
    <3>2. CASE child.st = "running" /\ Conclude("killed", TRUE)
      BY <2>4, <3>1, <3>2
    <3>3. CASE child.st # "running" /\ trace.exited = now /\ Conclude(child.st, TRUE)
      BY <2>4, <3>1, <3>3
    <3> QED
      BY <2>6, <3>2, <3>3 DEF Overrun
  <2> QED
    BY <2>1, <2>2, <2>3, <2>5, <2>6
<1>2. IInv /\ [Next]_vars => [Early => Kept]_vars
  BY <1>1
<1> QED
  BY <1>2, RunKeepsIInv, PTL DEF Spec, InTimeHeard

\* `gaff run` admits only on a runner that exited 0 with `pass` as its last verdict and no
\* odd line, read whole, after a context command that exited 0 within its cap, and only
\* where a line of what a person granted, trimmed, names the directory (dispatch).
THEOREM AdmitsOnlyOnPass == Spec => AdmitsOnPass
<1> DEFINE Admits == (pc # "admit" /\ pc' = "admit") =>
                       /\ job.kind = "agent" /\ Here \in Names(granted) /\ cur = Runner
                       /\ trace.code = "ok" /\ ~trace.cut /\ ~trace.odd /\ trace.said = "pass"
                       /\ job.context => outcome[Context] \in {"text", "silent"}
           GoesOn == (job.kind = "agent" /\ pc = "wait" /\ pc' = "next") =>
                       trace.code = "ok" /\ ~trace.cut
<1>1. IInv /\ [Next]_vars => Admits /\ GoesOn
  <2> SUFFICES ASSUME IInv, [Next]_vars
               PROVE  Admits /\ GoesOn
    OBVIOUS
  <2>1. ASSUME pc = "wait", job.kind = "agent", NEW st, pc' = Admitted(st),
               child.st # "running" => st = child.st, child.st = "running" => st = "killed"
        PROVE  Admits /\ GoesOn
    <3>1. Held /\ cur \in {Context, Runner}
      BY <2>1 DEF Held, IInv, Agents
    <3>2. pc' \in {"admit", "next"} => trace.code = "ok" /\ ~child.flooded
      BY <2>1, StatusTold DEF Admitted, Verdict
    <3>3. pc' = "admit" => cur # Context /\ child.read = "pass"
      BY <2>1 DEF Admitted, Verdict
    <3>4. pc' \in {"admit", "next"} => ~trace.cut
      <4>1. pc' \in {"admit", "next"} => ~child.large
        BY <2>1, <3>3, StatusTold DEF Admitted, Verdict
      <4> QED
        BY <2>1, <3>2, <4>1, StatusTold
    <3>5. pc' = "admit" => ~trace.odd /\ trace.said = "pass"
      BY <2>1, <3>2, <3>3, StatusTold
    <3>6. Here \in Names(granted)
      BY <2>1 DEF IInv, RunInv, Consented
    <3>7. cur = Runner /\ job.context => outcome[Context] \in {"text", "silent"}
      BY <2>1, <3>1 DEF IInv, Agents
    <3> QED
      BY <2>1, <3>1, <3>2, <3>3, <3>4, <3>5, <3>6, <3>7
  <2>2. ASSUME pc = "wait", NEW st, NEW killed \in BOOLEAN, Conclude(st, killed),
               child.st # "running" => st = child.st, child.st = "running" => st = "killed"
        PROVE  Admits /\ GoesOn
    <3>1. CASE job.kind = "agent"
      BY <2>1, <2>2, <3>1 DEF Conclude
    <3>2. CASE job.kind # "agent"
      BY <2>2, <3>2 DEF Conclude
    <3> QED
      BY <3>1, <3>2
  <2>3. CASE Reap
    BY <2>2, <2>3 DEF Reap
  <2>4. CASE Overrun
    <3>1. CASE child.st = "running" /\ Conclude("killed", TRUE)
      BY <2>2, <2>4, <3>1 DEF Overrun
    <3>2. CASE child.st # "running" /\ Conclude(child.st, TRUE)
      BY <2>2, <2>4, <3>2 DEF Overrun
    <3> QED
      BY <2>4, <3>1, <3>2 DEF Overrun
  <2>5. CASE Gaff /\ ~Reap /\ ~Overrun
    <3>1. pc' = "admit" => FALSE
      BY <2>5 DEF Gaff, Begin, Refused, Receive, ReadTimesOut, ReadStderr, Finish, Skip,
                  SpawnFails, Spawn
    <3>2. pc = "wait" => FALSE
      BY <2>5 DEF Gaff, Begin, Receive, ReadTimesOut, ReadStderr, Finish, Skip,
                  SpawnFails, Spawn, CanStart
    <3> QED
      BY <3>1, <3>2
  <2>6. CASE ~Gaff
    <3>1. pc' = pc
      BY <2>6 DEF Next, Person, TrustReads, TrustEmpties, TrustWrites, TrustDies, Revokes,
         Tightens, ReaderSends, Outside, Writes, Swells, Floods, BrokenPipe, Complains, Forks,
         HeirLeaves, ClosesStdout, Exits, ChildStep, Tick, vars, run
    <3> QED
      BY <3>1
  <2> QED
    BY <2>3, <2>4, <2>5, <2>6
<1>2. IInv /\ [Next]_vars => [Admits /\ GoesOn]_vars
  BY <1>1
<1> QED
  BY <1>2, RunKeepsIInv, PTL DEF Spec, AdmitsOnPass
=============================================================================
