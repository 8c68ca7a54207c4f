--------------------------- MODULE StopHoldProofs ---------------------------
(***************************************************************************)
(* Theorems of StopHold, for every set of holds, any budgets they are set  *)
(* and set again with, every cap and any number of `gaff remind` processes.*)
(***************************************************************************)
EXTENDS StopHold, TLAPS

\* Facts of the constants that most steps use.
LEMMA Constants ==
  /\ Ids \subseteq Nat /\ ProfileHold \in Ids /\ None \notin Ids
  /\ NoTimes \notin Nat /\ Times \subseteq Nat
  /\ ProfileTimes \in Nat \union {NoTimes}
  /\ MaxStopRefusals \in Nat \ {0} /\ Absent \notin Holds
BY StopHoldAssumption DEF None, Holds

LEMMA HoldInvInit == Init => HoldInv
<1> SUFFICES ASSUME Init PROVE HoldInv
  OBVIOUS
<1>0. holds \in [Ids -> Holds \union {Absent}]
  <2>1. Times \union {NoTimes} \subseteq Nat \union {NoTimes}
    BY Constants
  <2>2. [times : Times \union {NoTimes}, refused : {0}] \subseteq Holds
    BY <2>1 DEF Holds
  <2>. QED
    BY <2>2 DEF Init
<1>1. TypeOK
  <2>1. asked \in [Ids -> Nat \union {NoTimes}]
    BY <1>0 DEF Init, Holds, Armed
  <2>2. /\ cmd \in [Commands -> {"idle", "mark", "remove_all"}]
        /\ pushed \in [Ids -> Nat]
    BY DEF Init
  <2>. QED
    BY <1>0, <2>1, <2>2 DEF Init, TypeOK, Phases
<1>2. StreakCovers
  BY Constants DEF Init, StreakCovers
<1>3. PushesCounted
  <2>1. \A i \in Ids : i \in Armed => asked[i] = holds[i].times
    BY DEF Init
  <2>2. \A i \in Ids : i \in Armed => holds[i].times \in Nat \union {NoTimes} /\ holds[i].refused \in Nat
    BY <1>0 DEF Armed, Holds
  <2>3. \A i \in Ids : pushed[i] = 0
    BY DEF Init
  <2>4. (~dir => Armed = {}) /\ pc = "idle"
    BY DEF Init
  <2>. QED
    BY <2>1, <2>2, <2>3, <2>4 DEF PushesCounted
<1>. QED
  BY <1>1, <1>2, <1>3 DEF HoldInv

\* Whatever is written is a hold again.
LEMMA OneMoreIsHold ==
  ASSUME NEW h \in Holds
  PROVE  /\ OneMore(h) \in Holds
         /\ OneMore(h).times = h.times
         /\ h.times # NoTimes /\ h.refused <= h.times => OneMore(h).refused = h.refused + 1
         /\ OneMore(h).refused >= h.refused
<1>1. CASE h.times # NoTimes /\ h.refused <= h.times
  <2>1. OneMore(h) = [h EXCEPT !.refused = h.refused + 1]
    BY <1>1 DEF OneMore
  <2>. QED
    BY <1>1, <2>1 DEF Holds
<1>2. CASE ~(h.times # NoTimes /\ h.refused <= h.times)
  <2>1. OneMore(h) = h
    BY <1>2 DEF OneMore
  <2>. QED
    BY <1>2, <2>1 DEF Holds
<1>. QED
  BY <1>1, <1>2

\* Every step of the hook and of the commands keeps the types.
LEMMA TypeStep == TypeOK /\ [Next]_vars => TypeOK'
<1> SUFFICES ASSUME TypeOK, [Next]_vars
             PROVE  TypeOK'
  OBVIOUS
<1> USE Constants DEF TypeOK, Phases, files, history
<1>0. \A times \in Nat \union {NoTimes} : [times |-> times, refused |-> 0] \in Holds
  BY DEF Holds
<1>1. CASE Stop
  BY <1>1 DEF Stop, StopArrives
<1>2. CASE HasHold \/ IsReleased \/ HandlersPass \/ NoHold
  BY <1>2 DEF HasHold, IsReleased, HandlersPass, NoHold
<1>3. CASE Materialize
  <2> DEFINE h == [times |-> ProfileTimes, refused |-> 0]
  <2>1. h \in Holds
    BY <1>0
  <2> HIDE DEF h
  <2>2. holds' = [holds EXCEPT ![ProfileHold] = h]
    BY <1>3 DEF Materialize, WriteHold, h
  <2>3. holds' \in [Ids -> Holds \union {Absent}]
    BY <2>1, <2>2
  <2>4. /\ asked' \in [Ids -> Nat \union {NoTimes}] /\ pushed' \in [Ids -> Nat]
        /\ undone' \subseteq Ids /\ dir' = TRUE /\ pc' = "handlers"
        /\ UNCHANGED <<released, streak, held, seen, cmd, inRow, gone>>
    BY <1>3 DEF Materialize, WriteHold
  <2>. QED
    BY <2>3, <2>4
<1>4. CASE HandlerFails \/ FindHold
  <2>1. UNCHANGED <<holds, dir, released, seen, cmd, inRow, asked, pushed, undone, gone>>
    BY <1>4 DEF HandlerFails, FindHold
  <2>2. /\ streak' \in Nat /\ held' \in Ids \union {None}
        /\ pc' \in {"refuse", "holds", "refuse_read", "mark_all"}
        /\ pc' = "refuse_read" => held' \in Ids
    BY <1>4 DEF HandlerFails, FindHold, Counted, Armed
  <2>. QED
    BY <2>1, <2>2
<1>5. CASE RefuseRead
  BY <1>5 DEF RefuseRead, Armed
<1>6. CASE RefuseWrite
  <2>1. pc = "refuse_write" /\ OneMore(seen) \in Holds /\ held \in Ids
    BY <1>6, OneMoreIsHold DEF RefuseWrite
  <2>2. holds' \in [Ids -> Holds \union {Absent}]
    BY <1>6, <2>1 DEF RefuseWrite
  <2>3. pushed' \in [Ids -> Nat]
    <3>1. pushed[held] + 1 \in Nat
      BY <2>1
    <3> DEFINE n == pushed[held] + 1
    <3> HIDE DEF n
    <3>2. pushed' = pushed \/ pushed' = [pushed EXCEPT ![held] = n]
      BY <1>6 DEF RefuseWrite, n
    <3>. QED
      BY <3>1, <3>2 DEF n
  <2>4. undone' \subseteq Ids
    BY <1>6, <2>1 DEF RefuseWrite
  <2>5. pc' \in {"clear_spent", "refuse"} /\ UNCHANGED <<dir, released, streak, held, seen, cmd, inRow, asked, gone>>
    BY <1>6 DEF RefuseWrite
  <2>. QED
    BY <2>1, <2>2, <2>3, <2>4, <2>5
<1>7. CASE ClearSpent
  BY <1>7 DEF ClearSpent, RemoveHold
<1>8. CASE MarkSpent
  BY <1>8 DEF MarkSpent, MarkReleased
<1>9. CASE MarkAll
  BY <1>9 DEF MarkAll
<1>10. CASE ClearAll
  BY <1>10 DEF ClearAll, RemoveAll
<1>11. CASE Refuse
  BY <1>11 DEF Refuse
<1>12. CASE LetThrough \/ Kill
  <2>1. /\ UNCHANGED <<holds, dir, released, cmd, asked, pushed, undone, gone>>
        /\ pc' = "idle" /\ held' = None /\ seen' = Absent /\ streak' \in Nat /\ inRow' = 0
    BY <1>12 DEF LetThrough, Kill
  <2>. QED
    BY <2>1
<1>13. ASSUME NEW c \in Commands, Command(c)
       PROVE  TypeOK'
  <2>1. CASE \E i \in Ids, times \in Times \union {NoTimes} : SetHold(c, i, times)
    <3>1. PICK i \in Ids, times \in Times \union {NoTimes} : SetHold(c, i, times)
      BY <2>1
    <3> DEFINE h == [times |-> times, refused |-> 0]
    <3>2. h \in Holds
      BY <1>0
    <3> HIDE DEF h
    <3>3. holds' = [holds EXCEPT ![i] = h]
      BY <3>1 DEF SetHold, WriteHold, h
    <3>4. holds' \in [Ids -> Holds \union {Absent}]
      BY <3>2, <3>3
    <3>5. /\ asked' \in [Ids -> Nat \union {NoTimes}] /\ pushed' \in [Ids -> Nat]
          /\ undone' \subseteq Ids /\ dir' = TRUE /\ gone' \in BOOLEAN
          /\ UNCHANGED <<released, streak, pc, held, seen, cmd, inRow>>
      BY <3>1 DEF SetHold, WriteHold
    <3>. QED
      BY <3>4, <3>5
  <2>2. CASE \E i \in Ids : ClearHold(c, i)
    BY <2>2 DEF ClearHold, RemoveHold
  <2>3. CASE CommandMarks(c)
    BY <2>3 DEF CommandMarks, MarkReleased
  <2>4. CASE CommandMarksAll(c)
    BY <2>4 DEF CommandMarksAll
  <2>5. CASE CommandClearsAll(c)
    BY <2>5 DEF CommandClearsAll, RemoveAll
  <2>. QED
    BY <1>13, <2>1, <2>2, <2>3, <2>4, <2>5 DEF Command
<1>14. CASE UNCHANGED vars
  BY <1>14 DEF vars
<1>. QED
  BY <1>1, <1>2, <1>3, <1>4, <1>5, <1>6, <1>7, <1>8, <1>9, <1>10, <1>11, <1>12,
     <1>13, <1>14 DEF Next, Proceed

\* What a step of a command leaves alone: the hook and its streak.
LEMMA CommandsLeaveHook ==
  ASSUME NEW c \in Commands, Command(c)
  PROVE  UNCHANGED <<streak, pc, held, seen, inRow>>
BY DEF Command, SetHold, ClearHold, CommandMarks, CommandMarksAll, CommandClearsAll,
       history

\* Only a stop that was counted, within the cap, is refused.
LEMMA StreakStep == TypeOK /\ StreakCovers /\ [Next]_vars => StreakCovers'
<1> SUFFICES ASSUME TypeOK, StreakCovers, [Next]_vars
             PROVE  StreakCovers'
  OBVIOUS
<1> USE Constants DEF TypeOK, StreakCovers, files, history
<1>1. CASE Stop
  BY <1>1 DEF Stop, StopArrives
<1>2. CASE HasHold \/ IsReleased \/ HandlersPass \/ NoHold \/ Materialize
  BY <1>2 DEF HasHold, IsReleased, HandlersPass, NoHold, Materialize
<1>3. CASE HandlerFails \/ FindHold
  BY <1>3 DEF HandlerFails, FindHold, Counted
<1>4. CASE RefuseRead \/ RefuseWrite
  BY <1>4 DEF RefuseRead, RefuseWrite
<1>5. CASE ClearSpent \/ MarkSpent \/ MarkAll \/ ClearAll
  BY <1>5 DEF ClearSpent, MarkSpent, MarkAll, ClearAll
<1>6. CASE Refuse
  BY <1>6 DEF Refuse
<1>7. CASE LetThrough \/ Kill
  BY <1>7 DEF LetThrough, Kill
<1>8. CASE \E c \in Commands : Command(c)
  BY <1>8, CommandsLeaveHook
<1>9. CASE UNCHANGED vars
  BY <1>9 DEF vars
<1>. QED
  BY <1>1, <1>2, <1>3, <1>4, <1>5, <1>6, <1>7, <1>8, <1>9 DEF Next, Proceed

\* What PushesCounted says of one hold.
Accounted(i) ==
  /\ i \notin Armed => pushed[i] = 0
  /\ i \in Armed =>
       /\ i \notin undone => holds[i].times = asked[i]
       /\ holds[i].times # NoTimes =>
            pushed[i] <= holds[i].times /\ pushed[i] <= holds[i].refused
  /\ held = i /\ pc = "refuse_write" /\ seen.times # NoTimes =>
       pushed[i] <= seen.times /\ pushed[i] <= seen.refused

LEMMA PushesAreAccounted ==
  PushesCounted <=> (~dir => Armed = {}) /\ \A i \in Ids : Accounted(i)
BY DEF PushesCounted, Accounted

\* Nothing that a hold's account is made of has changed.
LEMMA StillAccounted ==
  ASSUME NEW i \in Ids, Accounted(i),
         holds'[i] = holds[i], pushed'[i] = pushed[i], asked'[i] = asked[i],
         i \notin undone' => i \notin undone,
         pc' = "refuse_write" => UNCHANGED <<pc, held, seen>>
  PROVE  Accounted(i)'
BY DEF Accounted, Armed

\* A hold written anew, or removed, has pushed nobody yet.
LEMMA WriteKeepsPushes ==
  ASSUME TypeOK, PushesCounted, NEW i \in Ids,
         \/ \E times \in Nat \union {NoTimes} : WriteHold(i, times)
         \/ RemoveHold(i) /\ dir' = dir,
         pc' = "refuse_write" => UNCHANGED <<pc, held, seen>>
  PROVE  PushesCounted'
<1> USE Constants
<1>1. \A j \in Ids \ {i} : Accounted(j)'
  <2> SUFFICES ASSUME NEW j \in Ids \ {i} PROVE Accounted(j)'
    OBVIOUS
  <2>1. /\ holds'[j] = holds[j] /\ pushed'[j] = pushed[j] /\ asked'[j] = asked[j]
        /\ j \notin undone' => j \notin undone
    BY DEF WriteHold, RemoveHold, TypeOK
  <2>2. Accounted(j)
    BY PushesAreAccounted
  <2>. QED
    BY <2>1, <2>2, StillAccounted
<1>2. pushed'[i] = 0
  BY DEF WriteHold, RemoveHold, TypeOK
<1>3. pc' = "refuse_write" => seen' \in Holds
  BY DEF TypeOK
<1>4. CASE \E times \in Nat \union {NoTimes} : WriteHold(i, times)
  <2>1. PICK times \in Nat \union {NoTimes} : WriteHold(i, times)
    BY <1>4
  <2>2. /\ dir' = TRUE /\ i \notin undone' /\ asked'[i] = times
        /\ holds'[i] = [times |-> times, refused |-> 0]
    BY <2>1 DEF WriteHold, TypeOK
  <2>3. holds'[i] \in Holds /\ holds'[i].times = times /\ holds'[i].refused = 0
    BY <2>2 DEF Holds
  <2>4. Accounted(i)'
    BY <1>2, <1>3, <2>2, <2>3 DEF Accounted, Armed, Holds
  <2>. QED
    BY <1>1, <2>2, <2>4, PushesAreAccounted DEF PushesCounted, Accounted
<1>5. CASE RemoveHold(i) /\ dir' = dir
  <2>1. holds'[i] = Absent
    BY <1>5 DEF RemoveHold, TypeOK
  <2>2. Accounted(i)'
    BY <1>2, <1>3, <2>1 DEF Accounted, Armed, Holds
  <2>3. Armed' \subseteq Armed
    BY <1>5 DEF RemoveHold, TypeOK, Armed
  <2>. QED
    BY <1>1, <1>5, <2>2, <2>3 DEF PushesCounted, Accounted
<1>. QED
  BY <1>4, <1>5

LEMMA RemoveAllKeepsPushes ==
  ASSUME RemoveAll, pc' = "refuse_write" => seen' \in Holds
  PROVE  PushesCounted'
<1>1. \A j \in Ids : pushed'[j] = 0 /\ holds'[j] = Absent
  BY DEF RemoveAll
<1>2. Armed' = {}
  BY <1>1 DEF Armed
<1>. QED
  BY <1>1, <1>2 DEF PushesCounted, Holds

LEMMA PushStep == TypeOK /\ PushesCounted /\ [Next]_vars => PushesCounted'
<1> SUFFICES ASSUME TypeOK, PushesCounted, [Next]_vars
             PROVE  PushesCounted'
  OBVIOUS
<1> USE Constants DEF files, history
<1>1. CASE \/ Stop \/ HasHold \/ IsReleased \/ HandlersPass \/ HandlerFails \/ FindHold
           \/ NoHold \/ MarkSpent \/ MarkAll \/ Refuse \/ LetThrough \/ Kill
  <2>1. UNCHANGED <<holds, dir, asked, pushed, undone>> /\ pc' # "refuse_write"
    BY <1>1 DEF Stop, StopArrives, HasHold, IsReleased, HandlersPass, HandlerFails,
         FindHold, NoHold, MarkSpent, MarkAll, Refuse, LetThrough, Kill
  <2>. QED
    BY <2>1 DEF PushesCounted, Armed
<1>2. CASE Materialize
  BY <1>2, WriteKeepsPushes DEF Materialize
<1>3. CASE RefuseRead
  <2>1. UNCHANGED <<holds, dir, asked, pushed, undone, held>>
    BY <1>3 DEF RefuseRead
  <2>2. pc' = "refuse_write" => held \in Armed /\ seen' = holds[held]
    BY <1>3 DEF RefuseRead
  <2>. QED
    BY <2>1, <2>2 DEF PushesCounted, Armed
<1>4. CASE RefuseWrite
  <2>1. /\ held \in Ids /\ seen \in Holds /\ pushed \in [Ids -> Nat]
        /\ holds \in [Ids -> Holds \union {Absent}] /\ UNCHANGED <<dir, asked, held>>
        /\ pc' # "refuse_write" /\ pc = "refuse_write"
    BY <1>4 DEF RefuseWrite, TypeOK
  <2>2. seen.times \in Nat \union {NoTimes} /\ seen.refused \in Nat /\ pushed[held] \in Nat
    BY <2>1 DEF Holds
  <2>3. \A i \in Ids \ {held} : Accounted(i)'
    <3> SUFFICES ASSUME NEW i \in Ids \ {held} PROVE Accounted(i)'
      OBVIOUS
    <3>1. holds'[i] = holds[i] /\ pushed'[i] = pushed[i] /\ (i \notin undone' => i \notin undone)
      BY <1>4, <2>1 DEF RefuseWrite
    <3>. QED
      BY <2>1, <3>1, StillAccounted, PushesAreAccounted
  <2>4. CASE ~dir
    <3>1. Armed = {} /\ UNCHANGED <<holds, pushed>>
      BY <1>4, <2>4 DEF RefuseWrite, PushesCounted
    <3>. QED
      BY <2>1, <2>4, <3>1 DEF PushesCounted, Armed
  <2>5. CASE dir
    <3> DEFINE w == OneMore(seen)
    <3>1. /\ w \in Holds /\ w.times = seen.times /\ w.refused >= seen.refused
          /\ seen.times # NoTimes /\ seen.refused <= seen.times => w.refused = seen.refused + 1
          /\ w.times \in Nat \union {NoTimes} /\ w.refused \in Nat
      BY <2>1, OneMoreIsHold DEF Holds
    <3> HIDE DEF w
    <3>2. holds'[held] = w /\ held \in Armed'
      BY <1>4, <2>1, <2>5, <3>1 DEF RefuseWrite, Armed, w
    <3>3. held \notin undone' => w.times = asked[held]
      BY <1>4, <2>5, <3>1 DEF RefuseWrite
    <3>4. seen.times # NoTimes =>
            pushed'[held] <= seen.times /\ pushed'[held] <= w.refused
      <4> SUFFICES ASSUME seen.times # NoTimes
                   PROVE  pushed'[held] <= seen.times /\ pushed'[held] <= w.refused
        OBVIOUS
      <4>1. pushed[held] <= seen.refused /\ pushed[held] <= seen.times /\ seen.times \in Nat
        BY <2>1, <2>2 DEF PushesCounted
      <4>2. CASE Spent(seen, seen.refused + 1)
        <5>1. pushed' = pushed
          BY <1>4, <4>2 DEF RefuseWrite
        <5>. QED
          BY <2>2, <3>1, <4>1, <5>1
      <4>3. CASE ~Spent(seen, seen.refused + 1)
        <5>1. pushed'[held] = pushed[held] + 1
          BY <1>4, <2>1, <2>5, <4>3 DEF RefuseWrite
        <5>2. seen.refused + 1 <= seen.times
          BY <2>2, <4>1, <4>3 DEF Spent
        <5>. QED
          BY <2>2, <3>1, <4>1, <5>1, <5>2
      <4>. QED
        BY <4>2, <4>3
    <3>5. Accounted(held)'
      <4>1. held \in Armed' /\ holds'[held].times = seen.times /\ holds'[held].refused = w.refused
        BY <3>1, <3>2
      <4>2. held \notin undone' => holds'[held].times = asked'[held]
        BY <2>1, <3>1, <3>2, <3>3
      <4>. QED
        BY <2>1, <3>4, <4>1, <4>2 DEF Accounted
    <3>. QED
      <4>1. \A i \in Ids : Accounted(i)'
        BY <2>1, <2>3, <3>5
      <4>. QED
        BY <2>1, <2>5, <4>1 DEF PushesCounted, Accounted
  <2>. QED
    BY <2>1, <2>4, <2>5 DEF TypeOK
<1>5. CASE ClearSpent
  BY <1>5, WriteKeepsPushes DEF ClearSpent, TypeOK
<1>6. CASE ClearAll
  BY <1>6, RemoveAllKeepsPushes DEF ClearAll, TypeOK
<1>7. ASSUME NEW c \in Commands, Command(c)
      PROVE  PushesCounted'
  <2>1. CASE \E i \in Ids, times \in Times \union {NoTimes} : SetHold(c, i, times)
    BY <2>1, WriteKeepsPushes DEF SetHold
  <2>2. CASE \E i \in Ids : ClearHold(c, i)
    BY <2>2, WriteKeepsPushes DEF ClearHold
  <2>3. CASE CommandMarks(c) \/ CommandMarksAll(c)
    BY <2>3 DEF CommandMarks, CommandMarksAll, PushesCounted, Armed
  <2>4. CASE CommandClearsAll(c)
    BY <2>4, RemoveAllKeepsPushes DEF CommandClearsAll, TypeOK
  <2>. QED
    BY <1>7, <2>1, <2>2, <2>3, <2>4 DEF Command
<1>8. CASE UNCHANGED vars
  BY <1>8 DEF vars, PushesCounted, Armed
<1>. QED
  BY <1>1, <1>2, <1>3, <1>4, <1>5, <1>6, <1>7, <1>8 DEF Next, Proceed

\* Types, the streak and the pushes, for every constant.
THEOREM HoldInvariant == Spec => []HoldInv
<1>1. HoldInv /\ [Next]_vars => HoldInv'
  BY TypeStep, StreakStep, PushStep DEF HoldInv
<1>. QED
  BY <1>1, HoldInvInit, PTL DEF Spec

\* "Neither can wedge a session": no mixture of failing handlers and holds
\* refuses more than MaxStopRefusals stops in a row.
THEOREM RefusalsAreBounded == Spec => []RefusalsBounded
<1>1. HoldInv => RefusalsBounded
  BY DEF HoldInv, StreakCovers, RefusalsBounded
<1>. QED
  BY <1>1, HoldInvariant, PTL

\* "It refuses N stops and lets the next one through": at most the N of its last
\* set, whatever commands run in the middle of a stop and whatever budgets they
\* ask for; the N of the older record where refuse_hold wrote that over the set.
THEOREM BudgetsAreRespected == Spec => []BudgetRespected
<1>1. HoldInv => BudgetRespected
  <2> SUFFICES ASSUME HoldInv, NEW i \in Armed
               PROVE  LET times == IF i \in undone THEN holds[i].times ELSE asked[i]
                      IN  times # NoTimes => pushed[i] <= times
    BY DEF BudgetRespected
  <2>1. /\ i \notin undone => holds[i].times = asked[i]
        /\ holds[i].times # NoTimes => pushed[i] <= holds[i].times
    BY DEF HoldInv, PushesCounted, Armed
  <2>2. CASE i \in undone
    BY <2>1, <2>2
  <2>3. CASE i \notin undone
    BY <2>1, <2>3
  <2>. QED
    BY <2>2, <2>3
<1>. QED
  BY <1>1, HoldInvariant, PTL

\* Why a release lasts: no hook is past the lookup that would have seen it, and
\* none holds a count it would write back.
Sticky ==
  gone => /\ released /\ ProfileHold \notin Armed
          /\ pc # "materialize"
          /\ ~(pc = "refuse_write" /\ held = ProfileHold)

LEMMA StickyStep == TypeOK /\ Sticky /\ [Next]_vars => Sticky'
<1> SUFFICES ASSUME TypeOK, Sticky, [Next]_vars
             PROVE  Sticky'
  OBVIOUS
<1> USE Constants DEF files, history
<1>1. CASE \/ Stop \/ HasHold \/ IsReleased \/ HandlersPass \/ HandlerFails \/ FindHold
           \/ NoHold \/ Refuse \/ LetThrough \/ Kill
  <2>1. UNCHANGED <<holds, released, gone>> /\ pc' # "refuse_write"
    BY <1>1 DEF Stop, StopArrives, HasHold, IsReleased, HandlersPass, HandlerFails,
         FindHold, NoHold, Refuse, LetThrough, Kill
  <2>2. pc' = "materialize" => ~released
    BY <1>1 DEF Stop, StopArrives, HasHold, IsReleased, HandlersPass, HandlerFails,
         FindHold, NoHold, Refuse, LetThrough, Kill
  <2>. QED
    BY <2>1, <2>2 DEF Sticky, Armed
<1>2. CASE Materialize
  BY <1>2 DEF Materialize, Sticky
<1>3. CASE RefuseRead
  <2>1. UNCHANGED <<holds, released, gone, held>> /\ pc' # "materialize"
    BY <1>3 DEF RefuseRead
  <2>2. pc' = "refuse_write" => held \in Armed
    BY <1>3 DEF RefuseRead
  <2>. QED
    BY <2>1, <2>2 DEF Sticky, Armed
<1>4. CASE RefuseWrite
  <2>1. /\ UNCHANGED <<released, gone>> /\ pc' \in {"clear_spent", "refuse"}
        /\ held \in Ids /\ pc = "refuse_write"
    BY <1>4 DEF RefuseWrite, TypeOK
  <2>2. held # ProfileHold => holds'[ProfileHold] = holds[ProfileHold]
    BY <1>4, <2>1 DEF RefuseWrite, TypeOK
  <2>. QED
    BY <2>1, <2>2 DEF Sticky, Armed
<1>5. CASE ClearSpent
  BY <1>5 DEF ClearSpent, RemoveHold, Sticky, Armed, TypeOK
<1>6. CASE MarkSpent
  BY <1>6 DEF MarkSpent, MarkReleased, Sticky, Armed
<1>7. CASE MarkAll
  BY <1>7 DEF MarkAll, Sticky, Armed
<1>8. CASE ClearAll
  BY <1>8 DEF ClearAll, RemoveAll, Sticky, Armed
<1>9. ASSUME NEW c \in Commands, Command(c)
      PROVE  Sticky'
  <2>1. ASSUME NEW i \in Ids, NEW times \in Times \union {NoTimes}, SetHold(c, i, times)
        PROVE  Sticky'
    BY <2>1 DEF SetHold, WriteHold, Sticky, Armed, TypeOK
  <2>2. ASSUME NEW i \in Ids, ClearHold(c, i)
        PROVE  Sticky'
    BY <2>2 DEF ClearHold, RemoveHold, Sticky, Armed, TypeOK
  <2>3. CASE CommandMarks(c)
    BY <2>3 DEF CommandMarks, MarkReleased, Sticky, Armed
  <2>4. CASE CommandMarksAll(c)
    BY <2>4 DEF CommandMarksAll, Sticky, Armed
  <2>5. CASE CommandClearsAll(c)
    BY <2>5 DEF CommandClearsAll, RemoveAll, Sticky, Armed
  <2>. QED
    BY <1>9, <2>1, <2>2, <2>3, <2>4, <2>5 DEF Command
<1>10. CASE UNCHANGED vars
  BY <1>10 DEF vars, Sticky, Armed
<1>. QED
  BY <1>1, <1>2, <1>3, <1>4, <1>5, <1>6, <1>7, <1>8, <1>9, <1>10 DEF Next, Proceed

\* "A config-declared hold ... stays gone", for every set of holds and every
\* interleaving of the commands with the stops that follow.
THEOREM ReleasesStick == Spec => []ReleaseSticks
<1>1. Init => Sticky
  BY DEF Init, Sticky
<1>2. HoldInv => TypeOK
  BY DEF HoldInv
<1>3. Sticky => ReleaseSticks
  BY DEF Sticky, ReleaseSticks
<1>. QED
  BY <1>1, <1>2, <1>3, StickyStep, HoldInvariant, PTL DEF Spec

-----------------------------------------------------------------------------
(* Holds without a budget.  HeldStopRefused fails in a run: this is what   *)
(* it takes to fail.                                                       *)

\* No hold has a budget, so nothing is spent, and a stop that is let through found
\* no hold.
Unspent ==
  /\ \A i \in Armed : holds[i].times = NoTimes
  /\ pc = "refuse_write" => seen.times = NoTimes
  /\ pc \notin {"clear_spent", "mark"}
  /\ pc = "let_through" => Armed = {}

\* `gaff remind --at stop` runs between two stops.
SetsBetween ==
  \A c \in Commands, i \in Ids, times \in Times \union {NoTimes} :
    SetHold(c, i, times) => pc = "idle"

LEMMA UnspentStep ==
  ASSUME Times = {}, ProfileTimes = NoTimes,
         TypeOK, Unspent, [Next]_vars, [SetsBetween]_vars
  PROVE  Unspent'
<1> USE DEF Unspent, files, history
<1>1. CASE Stop
  BY <1>1 DEF Stop, StopArrives, Armed
<1>2. CASE HasHold \/ IsReleased \/ HandlersPass \/ HandlerFails
  BY <1>2 DEF HasHold, IsReleased, HandlersPass, HandlerFails, Armed
<1>3. CASE Materialize
  BY <1>3 DEF Materialize, WriteHold, Armed, TypeOK
<1>4. CASE FindHold \/ RefuseRead \/ MarkAll \/ Refuse \/ LetThrough \/ Kill
  BY <1>4 DEF FindHold, RefuseRead, MarkAll, Refuse, LetThrough, Kill, Armed
<1>5. CASE NoHold
  BY <1>5 DEF NoHold, Armed
<1>6. CASE RefuseWrite
  <2>1. pc' = "refuse"
    BY <1>6 DEF RefuseWrite, Spent
  <2>2. OneMore(seen).times = NoTimes
    BY <1>6 DEF RefuseWrite, OneMore
  <2>3. \A i \in Armed' : holds'[i].times = NoTimes
    BY <1>6, <2>2 DEF RefuseWrite, Armed, TypeOK
  <2>. QED
    BY <2>1, <2>3
<1>7. CASE ClearSpent \/ MarkSpent
  BY <1>7 DEF ClearSpent, MarkSpent
<1>8. CASE ClearAll
  <2>1. \A i \in Ids : holds'[i] = Absent
    BY <1>8 DEF ClearAll, RemoveAll
  <2>. QED
    BY <1>8, <2>1 DEF ClearAll, Armed
<1>9. CASE UNCHANGED vars
  BY <1>9 DEF vars, Armed
<1>10. ASSUME NEW c \in Commands, NEW i \in Ids, NEW times \in Times \union {NoTimes},
              SetHold(c, i, times), ~UNCHANGED vars
       PROVE  Unspent'
  <2>1. pc = "idle" /\ pc' = pc /\ times = NoTimes
    BY <1>10 DEF SetsBetween, SetHold
  <2>2. \A j \in Armed' : holds'[j].times = NoTimes
    BY <1>10, <2>1 DEF SetHold, WriteHold, Armed, TypeOK
  <2>. QED
    BY <2>1, <2>2
<1>11. ASSUME NEW c \in Commands, NEW i \in Ids, ClearHold(c, i)
       PROVE  Unspent'
  <2>1. /\ pc' = pc /\ seen' = seen /\ Armed' \subseteq Armed
        /\ \A j \in Armed' : holds'[j] = holds[j]
    BY <1>11 DEF ClearHold, RemoveHold, Armed, TypeOK
  <2>. QED
    BY <2>1
<1>12. ASSUME NEW c \in Commands, CommandMarks(c) \/ CommandMarksAll(c)
       PROVE  Unspent'
  BY <1>12 DEF CommandMarks, CommandMarksAll, Armed
<1>13. ASSUME NEW c \in Commands, CommandClearsAll(c)
       PROVE  Unspent'
  <2>1. pc' = pc /\ seen' = seen /\ Armed' = {}
    BY <1>13 DEF CommandClearsAll, RemoveAll, Armed
  <2>. QED
    BY <2>1
<1>14. ASSUME NEW c \in Commands, Command(c), ~UNCHANGED vars
       PROVE  Unspent'
  BY <1>14, <1>10, <1>11, <1>12, <1>13 DEF Command
<1>. QED
  BY <1>1, <1>2, <1>3, <1>4, <1>5, <1>6, <1>7, <1>8, <1>9, <1>14 DEF Next, Proceed

\* "A session may hold several times under different ids.  The first one still held refuses
\* the stop" (configuration.md): for any holds without `times`, and as long as nobody sets
\* one while a stop is half-way, a stop goes through only when none is left, whether the
\* cap released them or `gaff remind --clear` did (refuse_stop, clear_holds).
THEOREM HoldsWithoutBudgetsRefuse ==
  ASSUME Times = {}, ProfileTimes = NoTimes
  PROVE  Spec /\ [][SetsBetween]_vars => HeldStopRefused
<1>1. Init => Unspent
  BY DEF Init, Unspent, Armed
<1>2. HoldInv /\ Unspent /\ [Next]_vars /\ [SetsBetween]_vars => Unspent'
  BY UnspentStep DEF HoldInv
<1>3. Unspent => (LetThrough => Armed = {})
  BY DEF Unspent, LetThrough
<1>4. Unspent /\ [Next]_vars => [LetThrough => Armed = {}]_vars
  BY <1>3
<1>. QED
  BY <1>1, <1>2, <1>4, HoldInvariant, PTL DEF Spec, HeldStopRefused
=============================================================================
