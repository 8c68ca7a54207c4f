----------------------------- MODULE HandlerRun -----------------------------
(***************************************************************************)
(* The children gaff runs under a deadline: the handlers of a flush and    *)
(* the blocking handlers of a stop (handler.rs `run_due`, `run_one`,       *)
(* `wait_bounded`), and the context command and the runner of a hook agent *)
(* (hookagent.rs `dispatch`, `run_capturing`).  One gaff process, one      *)
(* child at a time, the thread that reads the child's stdout, and the      *)
(* child and a process of its own making (`heir`) that may hold its pipes. *)
(* Before it, the record of the directories where a person lets children   *)
(* run (`is_trusted`, `trust`): it is read once, when a run begins, so its *)
(* writers step before that.                                               *)
(*                                                                         *)
(* Time is a clock in units of the smallest timeout.  gaff's own steps     *)
(* take no time: the clock moves only while gaff and its reader wait.  A   *)
(* child never has to do anything.                                         *)
(*                                                                         *)
(* Abstracted: what the output says other than a verdict, its sanitizing,  *)
(* and its size other than at the read cap and, for a context, at          *)
(* CONTEXT_CAP; the environment a child gets; the record's comments, and a *)
(* record that cannot be read as text, which the next grant replaces; two  *)
(* `gaff trust` at once, or an edit by hand during one, which lose or      *)
(* bring back a line of the record; a pipe's buffer (a child blocked on a  *)
(* full stderr is one that does nothing).                                  *)
(***************************************************************************)
EXTENDS Integers, FiniteSets

CONSTANTS N,               \* number of the last handler, in config order
          Handler,         \* its declaration
          Bundle,          \* the commands of the profile's bundle in handlers.yml
          Here,            \* the directory of the run
          Dirs,            \* directories
          Lines,           \* the lines a directory's name makes in the record
          Trim,            \* the directory a line names once it is trimmed
          Events,          \* names of events a handler may declare
          FlushEvents,     \* those that are flush points
          MaxTimeout,      \* MAX_TIMEOUT_MS
          Budget,          \* budget_for, by event
          AgentTimeout,    \* the agent's timeout_ms
          MaxClock         \* bound: the clock stops there

Start == "session_start"
StopEvent == "stop"
Commands == 1..N
Context == 1
Runner == 2

Declarations == [events : SUBSET Events, blocks : BOOLEAN, every : {"none", "zero", "some"},
                 timeout : Nat \ {0}, absolute : BOOLEAN, when : BOOLEAN]

ASSUME HandlerAssumption ==
  /\ N \in Nat /\ N >= 2
  /\ Handler \in [Commands -> Declarations]
  /\ Bundle \subseteq Commands
  /\ Here \in Dirs /\ Lines \in [Dirs -> SUBSET Dirs] /\ Trim \in [Dirs -> Dirs]
  /\ {Start, StopEvent} \subseteq FlushEvents /\ FlushEvents \subseteq Events
  /\ MaxTimeout \in Nat \ {0}
  /\ Budget \in [FlushEvents -> Nat \ {0}]
  /\ AgentTimeout \in Nat \ {0}
  /\ MaxClock \in Nat
  /\ \A e \in FlushEvents : Budget[e] <= MaxClock
  /\ 2 * AgentTimeout <= MaxClock

VARIABLES job,       \* what this gaff process was called for
          pc,        \* where it stands
          todo,      \* the commands still to run
          cur,       \* the one that runs, 0 before the first
          now,       \* the clock
          deadline,  \* of the flush
          limit,     \* the clock at which the read of its output times out
          child,     \* the child of `cur`, its pipes and gaff's reader
          outcome,   \* what run_one made of each command
          trace,     \* history: what that child really did
          hung,      \* history: time spent in the read of a failed child's stderr
          record,    \* $HOME/.config/gaff/trusted
          granter,   \* the `gaff trust` that runs, and what it read of the record
          granted    \* history: the directories granted, not revoked, and not lost

consent == <<record, granter, granted>>
run == <<job, pc, todo, cur, now, deadline, limit, child, outcome>>
history == <<trace, hung>>
vars == <<run, history, consent>>

Never == -1
Verdicts == {"nothing", "text", "pass", "fail"}
Words == Verdicts \cup {"odd"}
Jobs == [kind : {"flush", "stop", "agent"}, event : FlushEvents, armed : SUBSET Commands,
         handlers : {"none", "base", "bundle"}, context : BOOLEAN, reapable : BOOLEAN]
Records == [there : BOOLEAN, paths : SUBSET Dirs,
            loose : BOOLEAN,            \* writable by others
            open : BOOLEAN]             \* in a directory that others may write to
NoRecord == [there |-> FALSE, paths |-> {}, loose |-> FALSE, open |-> FALSE]
Granters == [st : {"idle", "read", "emptied"}, dir : Dirs, text : SUBSET Dirs]
NoGranter == [st |-> "idle", dir |-> Here, text |-> {}]
Children ==
  [st : {"none", "running", "ok", "fail", "pipe", "killed"},  \* how it ended, if it did
   outs : SUBSET {"child", "heir"},    \* who holds the write end of its stdout
   errs : SUBSET {"child", "heir"},    \* and of its stderr
   noisy : BOOLEAN,                    \* stderr holds the 200 bytes gaff reads of it
   flooded : BOOLEAN,                  \* stdout went over the read cap
   large : BOOLEAN,                    \* a context went over CONTEXT_CAP
   sent : BOOLEAN,                     \* the reader is done and has sent what it read
   read : Words]                       \* the last verdict in what it read, or an odd line
NoChild == [st |-> "none", outs |-> {}, errs |-> {}, noisy |-> FALSE, flooded |-> FALSE,
            large |-> FALSE, sent |-> FALSE, read |-> "nothing"]
Traces ==
  [closed : Nat \cup {Never},          \* when the last writer left its stdout
   exited : Nat \cup {Never},          \* when it exited by itself
   code : {"none", "ok", "fail"},      \* how it exited by itself
   cut : BOOLEAN,                      \* whether its stdout went over a cap
   odd : BOOLEAN,                      \* whether it wrote an odd line
   said : Verdicts]                    \* the last verdict written
NoTrace == [closed |-> Never, exited |-> Never, code |-> "none", cut |-> FALSE,
            odd |-> FALSE, said |-> "nothing"]
Settled == {"unstarted", "late", "failed", "text", "silent"}
Outcomes == Settled \cup {"none", "skipped"}
Phases == {"begin", "next", "recv", "wait", "stderr", "admit", "block", "panic", "done"}

\* A block exits 2 and a panic 101.
Ended == pc \in {"admit", "block", "panic", "done"}

-----------------------------------------------------------------------------
(* Which handlers are due.                                                 *)

\* Handler::timeout, its default resolved in the declaration
Timeout(i) == IF Handler[i].timeout < MaxTimeout THEN Handler[i].timeout ELSE MaxTimeout

\* Handler::problems
Usable(h) ==
  /\ h.absolute
  /\ h.events # {} /\ h.events \subseteq FlushEvents
  /\ (h.blocks <=> h.every = "none")
  /\ h.every # "zero"
  /\ h.blocks => StopEvent \in h.events

\* The blocking ones are refuse_stop's, the others push_handler_entries'.
Mine(i) == Handler[i].blocks <=> job.kind = "stop"

\* load: none under the kill switch, or when handlers.yml is missing, loose or broken; and
\* the bundle of the profile in force before the base ones.
Loaded(i) == \/ job.handlers = "bundle"
             \/ job.handlers = "base" /\ i \notin Bundle

\* The filters of run_due.  At a session start no count has crossed anything yet.
Due == {i \in Commands : /\ Loaded(i) /\ Mine(i)
                         /\ job.event \in Handler[i].events
                         /\ job.event = Start \/ Handler[i].blocks \/ i \in job.armed
                         /\ Usable(Handler[i])
                         /\ Handler[i].when}

\* Mutant: every handler gets its own timeout, whatever is left of the budget.
OwnTimeout(i) == now + Timeout(i)

\* The clock at which the read of command i's output times out.
ReadLimit(i) ==
  IF job.kind = "agent" THEN now + AgentTimeout
  ELSE IF now + Timeout(i) < deadline THEN now + Timeout(i) ELSE deadline

\* Mutant: a child that closed its stdout is waited for without a bound.
WaitUnbounded == MaxClock + 1

\* Mutant: the wait for the child ends with the time for its output.
WaitAsRead == limit

\* The clock at which the wait for the child itself ends.
WaitLimit == IF job.kind = "agent" THEN limit ELSE deadline

-----------------------------------------------------------------------------
(* Where children may run.                                                 *)

\* Each line is trimmed: one with white space at its end is a grant of another directory.
Names(lines) == {Trim[l] : l \in lines}

IsTrusted(d) == record.there /\ ~record.open /\ ~record.loose /\ d \in Names(record.paths)

\* Mutant: any name is written to the record.
RecordableAny(d) == TRUE

\* A name with a line break would make two records, one that is no UTF-8 none.
Recordable(d) == Lines[d] = {d}

\* trust up to its write: a loose record is refused, and a known directory needs nothing.
TrustReads(d) ==
  /\ pc = "begin" /\ granter.st = "idle"
  /\ ~(record.there /\ record.loose) /\ Recordable(d) /\ ~IsTrusted(d)
  /\ granter' = [st |-> "read", dir |-> d, text |-> record.paths]
  /\ UNCHANGED <<run, history, record, granted>>

\* write_owner_only opens the record and empties it, and then writes the whole of it.
TrustEmpties ==
  /\ pc = "begin" /\ granter.st = "read"
  /\ granter' = [granter EXCEPT !.st = "emptied"]
  /\ record' = [record EXCEPT !.there = TRUE, !.paths = {}]
  /\ UNCHANGED <<run, history, granted>>

TrustWrites ==
  /\ pc = "begin" /\ granter.st = "emptied"
  /\ granter' = NoGranter
  /\ record' = [record EXCEPT !.paths = granter.text \cup Lines[granter.dir], !.loose = FALSE]
  /\ granted' = granted \cup {granter.dir}
  /\ UNCHANGED <<run, history>>

\* A `gaff trust` that dies after it emptied the record takes every grant with it.
TrustDies ==
  /\ pc = "begin" /\ granter.st # "idle"
  /\ granter' = NoGranter
  /\ granted' = IF granter.st = "emptied" THEN {} ELSE granted
  /\ UNCHANGED <<run, history, record>>

\* A person removes a line of the record by hand, or mends a mode.
Revokes(d) ==
  /\ pc = "begin" /\ granter.st = "idle" /\ d \in record.paths
  /\ record' = [record EXCEPT !.paths = @ \ {d}]
  /\ granted' = granted \ {d}
  /\ UNCHANGED <<run, history, granter>>

Tightens ==
  /\ pc = "begin" /\ (record.loose \/ record.open)
  /\ record' \in {[record EXCEPT !.loose = FALSE], [record EXCEPT !.open = FALSE]}
  /\ UNCHANGED <<run, history, granter, granted>>

Person ==
  \/ TrustEmpties \/ TrustWrites \/ TrustDies \/ Tightens
  \/ \E d \in Dirs : TrustReads(d) \/ Revokes(d)

-----------------------------------------------------------------------------
Init ==
  /\ job \in {j \in Jobs :
       /\ \A i \in j.armed : Handler[i].every = "some"
       /\ (j.kind = "stop" => j.event = StopEvent /\ j.armed = {})
       /\ (j.kind = "agent" => j.event = Start /\ j.armed = {} /\ j.handlers = "none")
       /\ (j.kind # "agent" => ~j.context)}
  /\ pc = "begin"
  /\ todo = {} /\ cur = 0
  /\ now = 0 /\ deadline = 0
  /\ limit = Never
  /\ child = NoChild
  /\ outcome = [i \in Commands |-> "none"]
  /\ trace = NoTrace
  /\ hung = 0
  /\ record \in {r \in Records : r.there \/ r = [NoRecord EXCEPT !.open = r.open]}
  /\ \A d \in record.paths : Recordable(d)
  /\ granter = NoGranter
  /\ granted = record.paths

(* gaff.                                                                   *)

Refused == IF job.kind = "agent" THEN "block" ELSE "done"

\* run_due up to its loop, or run_run up to the context command.
Begin ==
  /\ pc = "begin"
  /\ todo' = IF ~IsTrusted(Here) THEN {}
             ELSE IF job.kind # "agent" THEN Due
             ELSE IF job.context THEN {Context, Runner} ELSE {Runner}
  /\ pc' = IF todo' = {} THEN Refused ELSE "next"
  /\ deadline' = now + Budget[job.event]
  /\ UNCHANGED <<job, cur, now, limit, child, outcome, history, consent>>

First(i) == i \in todo /\ \A j \in todo : i <= j

Settle(i, how) ==
  /\ outcome' = [outcome EXCEPT ![i] = how]
  /\ child' = NoChild /\ trace' = NoTrace /\ limit' = Never

\* The budget is spent: the handler is passed over and keeps its cadence.
Skip(i) ==
  /\ pc = "next" /\ First(i)
  /\ job.kind # "agent" /\ now >= deadline
  /\ Settle(i, "skipped")
  /\ todo' = todo \ {i} /\ cur' = i
  /\ UNCHANGED <<job, pc, now, deadline, hung, consent>>

CanStart(i) == pc = "next" /\ First(i) /\ (job.kind = "agent" \/ now < deadline)

SpawnFails(i) ==
  /\ CanStart(i)
  /\ Settle(i, "unstarted")
  /\ todo' = todo \ {i} /\ cur' = i
  /\ pc' = IF job.kind = "agent" THEN "block" ELSE "next"
  /\ UNCHANGED <<job, now, deadline, hung, consent>>

\* A handler's stderr is a pipe of gaff's, an agent's is gaff's own.
Spawn(i) ==
  /\ CanStart(i)
  /\ child' = [NoChild EXCEPT !.st = "running", !.outs = {"child"},
                              !.errs = IF job.kind = "agent" THEN {} ELSE {"child"}]
  /\ limit' = ReadLimit(i)
  /\ todo' = todo \ {i} /\ cur' = i
  /\ pc' = "recv"
  /\ UNCHANGED <<job, now, deadline, outcome, history, consent>>

Receive ==
  /\ pc = "recv" /\ child.sent
  /\ pc' = "wait"
  /\ UNCHANGED <<job, todo, cur, now, deadline, limit, child, outcome, history, consent>>

\* recv_timeout gives up: the group is killed, and what was read is lost.
ReadTimesOut ==
  /\ pc = "recv" /\ ~child.sent /\ now >= limit
  /\ Settle(cur, "late")
  /\ pc' = IF job.kind = "agent" THEN "block" ELSE "next"
  /\ UNCHANGED <<job, todo, cur, now, deadline, hung, consent>>

Heard == IF child.read = "nothing" THEN "silent" ELSE "text"

\* Mutant: a status that is no success is a failure, whoever ended the child.
BlamedForKill(st, killed) ==
  IF st = "ok" /\ job.reapable THEN "answered"
  ELSE IF child.flooded THEN "answered" ELSE "failed"

\* run_one's verdict: gaff ends a child by the cap on the read and by a kill, and
\* holds neither against it.  A child another reaped has no status to show.
Judged(st, killed) ==
  IF child.flooded \/ killed \/ (st = "ok" /\ job.reapable) THEN "answered" ELSE "failed"

Verdict(word) == IF word = "odd" THEN "panic" ELSE IF word = "pass" THEN "admit" ELSE "block"

\* Mutant: the cap on the runner's output is not looked at.
AdmittedCut(st) ==
  IF st # "ok" \/ ~job.reapable THEN "block"
  ELSE IF cur = Context THEN IF child.flooded \/ child.large THEN "block" ELSE "next"
  ELSE Verdict(child.read)

\* dispatch on a command's exit: a context within its cap goes on to the runner, and only
\* a runner's last word `pass` admits.
Admitted(st) ==
  IF st # "ok" \/ ~job.reapable \/ child.flooded THEN "block"
  ELSE IF cur = Context THEN IF child.large THEN "block" ELSE "next"
  ELSE Verdict(child.read)

Conclude(st, killed) ==
  IF job.kind = "agent"
  THEN /\ Settle(cur, Heard)
       /\ pc' = Admitted(st)
  ELSE IF Judged(st, killed) = "failed"
  THEN pc' = "stderr" /\ UNCHANGED <<child, outcome, trace, limit>>
  ELSE /\ Settle(cur, Heard)
       /\ pc' = "next"

\* wait_bounded finds the child gone.
Reap ==
  /\ pc = "wait" /\ child.st # "running"
  /\ Conclude(child.st, FALSE)
  /\ UNCHANGED <<job, todo, cur, now, deadline, hung, consent>>

\* wait_bounded kills it.  A child that exits between the look and the kill keeps the
\* status it chose.
Overrun ==
  /\ pc = "wait" /\ now >= WaitLimit
  /\ \/ child.st = "running" /\ Conclude("killed", TRUE)
     \/ child.st # "running" /\ trace.exited = now /\ Conclude(child.st, TRUE)
  /\ UNCHANGED <<job, todo, cur, now, deadline, hung, consent>>

\* A failed child's stderr is read to 200 bytes or its end: nothing bounds this wait.
ReadStderr ==
  /\ pc = "stderr" /\ (child.errs = {} \/ child.noisy)
  /\ Settle(cur, "failed")
  /\ pc' = "next"
  /\ UNCHANGED <<job, todo, cur, now, deadline, hung, consent>>

\* refuse_stop: one failed handler holds the stop.
Finish ==
  /\ pc = "next" /\ todo = {}
  /\ pc' = IF job.kind = "stop" /\ \E i \in Commands : outcome[i] = "failed"
           THEN "block" ELSE "done"
  /\ UNCHANGED <<job, todo, cur, now, deadline, limit, child, outcome, history, consent>>

Gaff ==
  \/ Begin \/ Receive \/ ReadTimesOut \/ Reap \/ Overrun \/ ReadStderr \/ Finish
  \/ \E i \in Commands : Skip(i) \/ SpawnFails(i) \/ Spawn(i)

-----------------------------------------------------------------------------
(* The reader thread.  It stops at the end of the stream or at the cap.    *)

ReaderSends ==
  /\ child.st # "none" /\ ~child.sent
  /\ child.outs = {} \/ child.flooded
  /\ child' = [child EXCEPT !.sent = TRUE]
  /\ UNCHANGED <<job, pc, todo, cur, now, deadline, limit, outcome, history, consent>>

-----------------------------------------------------------------------------
(* The child, and what it leaves behind.                                   *)

\* `t` is the trace so far, with what this step adds to it.
ChildStep(c, t) ==
  /\ child' = c
  /\ trace' = IF c.outs = {} /\ child.outs # {} THEN [t EXCEPT !.closed = now] ELSE t
  /\ UNCHANGED <<job, pc, todo, cur, now, deadline, limit, outcome, hung, consent>>

\* parse_decision: the last line that is a verdict counts.  strip_marker splits each line
\* after 13 bytes, and a line that is odd, with a character across that byte, panics.
Last(before, line) ==
  IF before = "odd" \/ (line = "text" /\ before # "nothing") THEN before ELSE line

\* The history's own account of the same.
Said(before, line) ==
  IF line \in {"pass", "fail"} \/ before = "nothing" THEN line ELSE before

\* What a line may be: only a runner's is looked at so closely that it may be odd.
Written == {"text", "pass", "fail"} \cup (IF job.kind = "agent" /\ cur = Runner THEN {"odd"} ELSE {})

Writes(line) ==
  /\ child.outs # {} /\ ~(child.sent /\ child.flooded)
  /\ ChildStep([child EXCEPT !.read = IF child.flooded THEN @ ELSE Last(@, line)],
               IF line = "odd" THEN [trace EXCEPT !.odd = TRUE, !.said = Said(@, "text")]
               ELSE [trace EXCEPT !.said = Said(@, line)])

\* A context grows over what a runner is given, below the read cap.
Swells ==
  /\ job.kind = "agent" /\ cur = Context
  /\ child.outs # {} /\ ~child.flooded /\ ~child.large
  /\ ChildStep([child EXCEPT !.large = TRUE, !.read = Last(@, "text")],
               [trace EXCEPT !.cut = TRUE, !.said = Said(@, "text")])

Floods ==
  /\ child.outs # {} /\ ~child.flooded
  /\ ChildStep([child EXCEPT !.flooded = TRUE, !.read = Last(@, "text")],
               [trace EXCEPT !.cut = TRUE, !.said = Said(@, "text")])

Leave(c, pipes) == [c EXCEPT !.outs = @ \ pipes, !.errs = @ \ pipes]

\* A writer to a pipe whose reader has left is ended by SIGPIPE.
BrokenPipe ==
  /\ child.st = "running" /\ "child" \in child.outs /\ child.sent /\ child.flooded
  /\ ChildStep(Leave([child EXCEPT !.st = "pipe"], {"child"}), trace)

Complains ==
  /\ child.errs # {} /\ ~child.noisy
  /\ ChildStep([child EXCEPT !.noisy = TRUE], trace)

\* The child starts a process that inherits some of its pipes.
Forks ==
  /\ child.st = "running"
  /\ \E out, err \in BOOLEAN :
       ChildStep([child EXCEPT
         !.outs = IF out /\ "child" \in @ THEN @ \cup {"heir"} ELSE @,
         !.errs = IF err /\ "child" \in @ THEN @ \cup {"heir"} ELSE @], trace)

HeirLeaves ==
  /\ "heir" \in child.outs \cup child.errs
  /\ ChildStep(Leave(child, {"heir"}), trace)

ClosesStdout ==
  /\ child.st = "running" /\ "child" \in child.outs
  /\ ChildStep([child EXCEPT !.outs = @ \ {"child"}], trace)

Exits(code) ==
  /\ child.st = "running"
  /\ ChildStep(Leave([child EXCEPT !.st = code], {"child"}),
               [trace EXCEPT !.exited = now, !.code = code])

Outside ==
  \/ \E line \in Written : Writes(line)
  \/ Swells \/ Floods \/ BrokenPipe \/ Complains \/ Forks \/ HeirLeaves \/ ClosesStdout
  \/ \E code \in {"ok", "fail"} : Exits(code)

-----------------------------------------------------------------------------
\* gaff and its reader have nothing to do before the clock moves.
Waiting ==
  \/ pc = "recv" /\ ~child.sent /\ ~child.flooded /\ child.outs # {} /\ now < limit
  \/ pc = "wait" /\ child.st = "running" /\ now < WaitLimit
  \/ pc = "stderr" /\ child.errs # {} /\ ~child.noisy

Tick ==
  /\ Waiting /\ now < MaxClock
  /\ now' = now + 1
  /\ hung' = IF pc = "stderr" THEN hung + 1 ELSE hung
  /\ UNCHANGED <<job, pc, todo, cur, deadline, limit, child, outcome, trace, consent>>

Next == Person \/ Gaff \/ ReaderSends \/ Outside \/ Tick

Spec == Init /\ [][Next]_vars

\* gaff's process and its reader are scheduled, and time passes.  A child owes nothing.
FairSpec == Spec /\ WF_vars(Gaff) /\ WF_vars(ReaderSends) /\ WF_vars(Tick)

-----------------------------------------------------------------------------
(* What a run keeps.                                                       *)

TypeOK ==
  /\ job \in Jobs /\ pc \in Phases /\ todo \subseteq Commands /\ cur \in 0..N
  /\ now \in Nat /\ deadline \in Nat /\ hung \in Nat
  /\ limit \in Nat \cup {Never}
  /\ child \in Children
  /\ outcome \in [Commands -> Outcomes]
  /\ trace \in Traces
  /\ record \in Records /\ granter \in Granters /\ granted \subseteq Dirs

Held == pc \in {"recv", "wait", "stderr"}

\* There is a child exactly while gaff waits for one, and it is the current command's,
\* which has not been judged.
OneChild ==
  /\ (Held <=> child.st # "none")
  /\ Held => cur \in Commands /\ cur \notin todo /\ outcome[cur] = "none"
  /\ ~Held => child = NoChild /\ trace = NoTrace
  /\ \A i \in todo : outcome[i] = "none"
  /\ Held => limit \in Nat

\* The pipes and the trace of the current child agree.
Traced ==
  Held => /\ child.st \in {"ok", "fail"} => trace.code = child.st
          /\ (trace.code # "none" <=> child.st \in {"ok", "fail"})
          /\ trace.cut = (child.flooded \/ child.large)
          /\ ~child.flooded => /\ (trace.odd <=> child.read = "odd")
                               /\ ~trace.odd => trace.said = child.read
          /\ child.large => job.kind = "agent" /\ cur = Context
          /\ trace.odd => job.kind = "agent" /\ cur = Runner
          /\ child.sent => child.outs = {} \/ child.flooded
          /\ (child.outs = {} <=> trace.closed # Never)
          /\ child.st # "running" => "child" \notin child.outs

\* Of the handlers due, those not to come and not running are settled or skipped, and no
\* other handler was touched.
DueAnswered ==
  \/ pc = "begin" /\ \A i \in Commands : outcome[i] = "none"
  \/ job.kind = "agent"
  \/ ~IsTrusted(Here) /\ \A i \in Commands : outcome[i] = "none"
  \/ \A i \in Commands :
       outcome[i] = "none" <=> i \notin Due \/ i \in todo \/ (Held /\ i = cur)

\* The record holds the directories a person granted, each on a line of its own, and a
\* child runs only where a line of such a grant, trimmed, names the place: not by a name
\* that makes several lines, nor by what a record that others may write to holds.  The
\* exceptions are those of the code: a grant of a directory whose name ends in white space
\* is one of the directory without it, and a `gaff trust` that dies after it emptied the
\* record takes all that was granted with it.
Consented ==
  /\ granter.st = "read" => granter.text = record.paths
  /\ granter.st = "emptied" => record.paths = {} /\ granter.text = granted
  /\ granter.st # "emptied" => record.paths = granted
  /\ granter.st # "idle" => Recordable(granter.dir)
  /\ pc \notin {"begin", "done", "block"} => IsTrusted(Here) /\ Here \in Names(granted)

RunInv == TypeOK /\ OneChild /\ Traced /\ DueAnswered /\ Consented

-----------------------------------------------------------------------------
(* What a caller may rely on.                                              *)

\* A handler counts as failed, which holds a stop, only by an exit of its own: not by
\* gaff's kill, nor by the SIGPIPE of the read cap (run_one).  Where a status cannot be
\* had because the child was reaped elsewhere, any exit counts as one.
OwnExitOnly ==
  [][(Held /\ outcome'[cur] = "failed") =>
       trace.code = "fail" \/ (trace.code = "ok" /\ ~job.reapable)]_vars

\* A command whose stdout is over before its read times out is heard, whatever it does
\* afterwards: its text is not dropped, a failure of its own before the deadline is not
\* missed, and a runner's `pass` admits.  The exception is a runner that wrote an odd line
\* as well: gaff panics on that (hookagent.rs:79), and the run admits nothing.
InTimeHeard ==
  [][(Held /\ outcome'[cur] # "none" /\ trace.closed # Never /\ trace.closed < limit) =>
       /\ outcome'[cur] # "late"
       /\ trace.code = "ok" /\ job.reapable /\ trace.said # "nothing" => outcome'[cur] = "text"
       /\ (/\ job.kind # "agent" /\ trace.code = "fail"
           /\ trace.exited < deadline /\ ~trace.cut) => outcome'[cur] = "failed"
       /\ (/\ job.kind = "agent" /\ cur = Runner /\ trace.code = "ok" /\ job.reapable
           /\ trace.exited < limit /\ ~trace.cut /\ trace.said = "pass") =>
            pc' = IF trace.odd THEN "panic" ELSE "admit"]_vars

\* `gaff run` admits on nothing but a runner that exited 0 by itself with `pass` as the
\* last verdict it wrote and no odd line, after a context command that exited 0 and stayed
\* within its cap, and only where a line of what a person granted names the directory
\* (dispatch; run_run).
AdmitsOnPass ==
  [][/\ (pc # "admit" /\ pc' = "admit") =>
          /\ job.kind = "agent" /\ Here \in Names(granted) /\ cur = Runner
          /\ trace.code = "ok" /\ ~trace.cut /\ ~trace.odd /\ trace.said = "pass"
          /\ job.context => outcome[Context] \in {"text", "silent"}
     /\ (job.kind = "agent" /\ pc = "wait" /\ pc' = "next") =>
          trace.code = "ok" /\ ~trace.cut]_vars

\* A flush takes no longer than its budget, whatever its handlers do, but for the time a
\* failed child's stderr stays open; an agent takes no longer than its two timeouts.
BudgetKept ==
  /\ now <= (IF job.kind = "agent" THEN 2 * AgentTimeout ELSE deadline + hung)
  /\ pc = "recv" => now <= limit
  /\ job.kind = "agent" => hung = 0

\* Every run ends, but for one kept by a process that a failed child left behind and that
\* holds its stderr: the read of that stderr has no bound (handler.rs:687).
RunEnds == <>Ended \/ <>[](pc = "stderr" /\ child.errs # {})
=============================================================================
