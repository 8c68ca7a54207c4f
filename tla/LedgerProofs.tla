---------------------------- MODULE LedgerProofs ----------------------------
(***************************************************************************)
(* Theorems of Ledger, for every set of hooks, calls and prompts.          *)
(***************************************************************************)
EXTENDS Ledger, FiniteSetTheorems, TLAPS

\* The count of a unit is a natural number, and appending a line adds one to
\* the count of its own unit and nothing to the other's.  This is why the
\* count read before the append, plus one, is the count after it.
LEMMA CountAppend ==
  ASSUME NEW log \in Seq(Lines), NEW x \in Lines,
         NEW u \in Units
  PROVE  /\ Count(log, u) \in Nat
         /\ Count(Append(log, x), u)
              = Count(log, u) + (IF x.unit = u THEN 1 ELSE 0)
<1> DEFINE S == {i \in DOMAIN log : log[i].unit = u}
           T == {i \in DOMAIN Append(log, x) : Append(log, x)[i].unit = u}
           n == Len(log) + 1
<1>1. IsFiniteSet(S) /\ Cardinality(S) \in Nat
  <2>1. IsFiniteSet(1..Len(log))
    BY FS_Interval
  <2>2. S \subseteq 1..Len(log)
    OBVIOUS
  <2>. QED
    BY <2>1, <2>2, FS_Subset, FS_CardinalityType
<1>2. /\ DOMAIN Append(log, x) = (DOMAIN log) \union {n}
      /\ n \notin DOMAIN log
      /\ \A i \in DOMAIN log : Append(log, x)[i] = log[i]
      /\ Append(log, x)[n] = x
  OBVIOUS
<1>0. Count(log, u) = Cardinality(S) /\ Count(Append(log, x), u) = Cardinality(T)
  BY DEF Count
<1>3. CASE x.unit = u
  <2>1. T = S \union {n} /\ n \notin S
    BY <1>2, <1>3
  <2>2. Cardinality(T) = Cardinality(S) + 1
    BY <1>1, <2>1, FS_AddElement
  <2>. QED
    <3> HIDE DEF S, T
    <3>. QED
      BY <1>0, <1>1, <1>3, <2>2
<1>4. CASE x.unit # u
  <2>1. T = S
    BY <1>2, <1>4
  <2>. QED
    <3> HIDE DEF S, T
    <3>. QED
      BY <1>0, <1>1, <1>4, <2>1
<1>. QED
  BY <1>3, <1>4

\* Every variable keeps its type.
THEOREM TypeCorrect == Spec => []TypeOK
<1> USE DEF TypeOK, Steps
<1>0. PromptLine \in Lines /\ (\A c \in Calls : ToolLine(c) \in Lines) /\ (\A x \in Lines : x.unit \in Units)
  BY DEF PromptLine, ToolLine, Lines, Units
<1>1. Init => TypeOK
  BY <1>0 DEF Init
<1>2. TypeOK /\ [Next]_vars => TypeOK'
  <2> SUFFICES ASSUME TypeOK, [Next]_vars
               PROVE  TypeOK'
    OBVIOUS
  <2>1. ASSUME NEW h \in Hooks, NEW c \in Calls, StartCall(h, c)
        PROVE  TypeOK'
    BY <1>0, <2>1 DEF StartCall, Goto
  <2>2. ASSUME NEW h \in Hooks, StartPrompt(h)
        PROVE  TypeOK'
    BY <1>0, <2>2 DEF StartPrompt, Goto
  <2>3. ASSUME NEW h \in Hooks, Acquire(h)
        PROVE  TypeOK'
    BY <2>3 DEF Acquire, Goto
  <2>4. ASSUME NEW h \in Hooks, Read(h)
        PROVE  TypeOK'
    BY <2>4 DEF Read, Goto
  <2>9. ASSUME NEW h \in Hooks, ReadFails(h)
        PROVE  TypeOK'
    BY <2>9 DEF ReadFails, Goto
  <2>5. ASSUME NEW h \in Hooks, AppendLine(h)
        PROVE  TypeOK'
    <3>1. Count(seen[h], line[h].unit) + 1 \in Nat
      <4>1. seen[h] \in Seq(Lines) /\ line[h] \in Lines /\ line[h].unit \in Units
        BY <1>0
      <4>. QED
        BY <4>1, CountAppend
    <3>2. granted' \in [Units -> SUBSET Nat]
      BY <2>5, <3>1 DEF AppendLine, AppendCounting
    <3>3. ledger' \in Seq(Lines)
      BY <2>5 DEF AppendLine, AppendCounting
    <3>. QED
      BY <2>5, <3>2, <3>3 DEF AppendLine, AppendCounting
  <2>6. ASSUME NEW h \in Hooks, Unlock(h)
        PROVE  TypeOK'
    BY <2>6 DEF Unlock, Goto
  <2>7. ASSUME NEW h \in Hooks, Abort(h)
        PROVE  TypeOK'
    BY <2>7 DEF Abort
  <2>8. CASE UNCHANGED vars
    BY <2>8 DEF vars
  <2>. QED
    BY <2>1, <2>2, <2>3, <2>4, <2>5, <2>6, <2>7, <2>8, <2>9 DEF Next, Proceed
<1>. QED
  BY <1>1, <1>2, PTL DEF Spec

\* The lock works: between its read and its unlock a hook alone holds it, and
\* what it read is still the whole log.
THEOREM SnapshotStaysFresh == Spec => []SnapshotFresh
<1> USE LedgerAssumption, NoCallAssumption DEF TypeOK, SnapshotFresh, Steps
<1>1. Init => SnapshotFresh
  BY DEF Init
<1>2. TypeOK /\ SnapshotFresh /\ [Next]_vars => SnapshotFresh'
  <2> SUFFICES ASSUME TypeOK, SnapshotFresh, [Next]_vars
               PROVE  SnapshotFresh'
    OBVIOUS
  <2>1. ASSUME NEW h \in Hooks, NEW c \in Calls, StartCall(h, c)
        PROVE  SnapshotFresh'
    BY <2>1 DEF StartCall, Goto
  <2>2. ASSUME NEW h \in Hooks, StartPrompt(h)
        PROVE  SnapshotFresh'
    BY <2>2 DEF StartPrompt, Goto
  <2>3. ASSUME NEW h \in Hooks, Acquire(h)
        PROVE  SnapshotFresh'
    BY <2>3 DEF Acquire, Goto
  <2>4. ASSUME NEW h \in Hooks, Read(h)
        PROVE  SnapshotFresh'
    BY <2>4 DEF Read, Goto
  <2>9. ASSUME NEW h \in Hooks, ReadFails(h)
        PROVE  SnapshotFresh'
    BY <2>9 DEF ReadFails, Goto
  <2>5. ASSUME NEW h \in Hooks, AppendLine(h)
        PROVE  SnapshotFresh'
    <3>1. ledger' # <<>>
      <4>1. ledger' = Append(ledger, line[h])
        BY <2>5 DEF AppendLine, AppendCounting
      <4>2. Len(ledger') = Len(ledger) + 1 /\ Len(ledger) \in Nat
        BY <4>1
      <4>. QED
        BY <4>2
    <3>2. pc[h] \in {"append", "recount"} /\ lock = h /\ lock' = h
      BY <2>5 DEF AppendLine, AppendCounting
    <3>3. ASSUME NEW g \in Hooks, g # h
          PROVE  /\ pc'[g] = pc[g]
                 /\ pc[g] \notin {"read", "append", "recount", "unlock"}
      BY <2>5, <3>2, <3>3 DEF AppendLine, AppendCounting
    <3>4. pc'[h] = "unlock"
      BY <2>5 DEF AppendLine, AppendCounting
    <3>. QED
      BY <3>1, <3>2, <3>3, <3>4
  <2>6. ASSUME NEW h \in Hooks, Unlock(h)
        PROVE  SnapshotFresh'
    BY <2>6 DEF Unlock, Goto
  <2>7. ASSUME NEW h \in Hooks, Abort(h)
        PROVE  SnapshotFresh'
    BY <2>7 DEF Abort
  <2>8. CASE UNCHANGED vars
    BY <2>8 DEF vars
  <2>. QED
    BY <2>1, <2>2, <2>3, <2>4, <2>5, <2>6, <2>7, <2>8, <2>9 DEF Next, Proceed
<1>. QED
  BY <1>1, <1>2, TypeCorrect, PTL DEF Spec

\* The append of a hook under the lock, the one step that moves the ledger and
\* the counts handed out: it counts the whole log and holds a call that is not
\* there yet, or, with the log unread, it counts from 1.
LEMMA AppendIsRecord ==
  ASSUME TypeOK, SnapshotFresh, NEW h \in Hooks, AppendLine(h)
  PROVE  LET u == line[h].unit
         IN  /\ ledger' = Append(ledger, line[h])
             /\ \/ /\ granted' = [granted EXCEPT ![u] = @ \union {Count(ledger, u) + 1}]
                   /\ recounted' = recounted
                   /\ u = "tool_calls" => ~Holds(ledger, line[h].id)
                \/ /\ ledger # <<>>
                   /\ granted' = [granted EXCEPT ![u] = @ \union {1}]
                   /\ recounted' = [recounted EXCEPT ![u] = @ + 1]
<1> DEFINE u == line[h].unit
<1>1. u \in Units
  BY DEF TypeOK, Lines, ToolLine, PromptLine, Units
<1>2. /\ pc[h] \in {"append", "recount"}
      /\ ledger' = Append(ledger, line[h])
      /\ granted' = [granted EXCEPT ![u] = @ \union {Count(seen[h], u) + 1}]
      /\ recounted' = [recounted EXCEPT ![u] = IF pc[h] = "recount" THEN @ + 1 ELSE @]
  BY DEF AppendLine, AppendCounting
<1>3. CASE pc[h] = "append"
  <2>1. recounted' = recounted
    BY <1>1, <1>2, <1>3 DEF TypeOK
  <2>2. seen[h] = ledger /\ (u = "tool_calls" => ~Holds(ledger, line[h].id))
    BY <1>3 DEF SnapshotFresh
  <2>. QED
    BY <1>2, <2>1, <2>2
<1>4. CASE pc[h] = "recount"
  <2>1. seen[h] = <<>> /\ ledger # <<>>
    BY <1>4 DEF SnapshotFresh
  <2>2. Count(<<>>, u) + 1 = 1
    BY FS_EmptySet DEF Count
  <2>3. granted' = [granted EXCEPT ![u] = @ \union {1}]
    BY <1>2, <2>1, <2>2
  <2>4. recounted' = [recounted EXCEPT ![u] = @ + 1]
    BY <1>2, <1>4
  <2>. QED
    BY <1>2, <2>1, <2>3, <2>4
<1>. QED
  BY <1>2, <1>3, <1>4

\* Every step but the append leaves the ledger and the counts alone.
LEMMA OthersStutter ==
  ASSUME [Next]_vars, \A h \in Hooks : ~AppendLine(h)
  PROVE  UNCHANGED <<ledger, granted, recounted>>
BY DEF Next, vars, Proceed, StartCall, StartPrompt, Acquire, Read, ReadFails, Unlock, Abort

\* A step of the specification is one hook's append or leaves the ledger and
\* the counts alone.
LEMMA StepIsRecordOrStutter ==
  ASSUME TypeOK, SnapshotFresh, [Next]_vars
  PROVE  \/ \E h \in Hooks : AppendLine(h)
         \/ UNCHANGED <<ledger, granted, recounted>>
BY OthersStutter

\* "One tool call counts once", whatever the number of hooks, calls and
\* prompts and whichever of the hooks die, while no call was recorded with the
\* log unreadable.
THEOREM CallsCountedOnce == Spec => []CountedOnce
<1>1. Init => CountedOnce
  BY DEF Init, CountedOnce
<1>2. TypeOK /\ SnapshotFresh /\ CountedOnce /\ [Next]_vars => CountedOnce'
  <2> SUFFICES ASSUME TypeOK, SnapshotFresh, CountedOnce, [Next]_vars
               PROVE  CountedOnce'
    OBVIOUS
  <2>1. ASSUME NEW h \in Hooks, AppendLine(h)
        PROVE  CountedOnce'
    <3>0. SUFFICES ASSUME recounted'["tool_calls"] = 0
                   PROVE  CountedOnce'
      BY DEF CountedOnce
    <3>1. ledger' = Append(ledger, line[h])
      BY <2>1, AppendIsRecord
    <3>2. ledger \in Seq(Lines) /\ line[h] \in Lines /\ recounted \in [Units -> Nat]
      BY DEF TypeOK
    <3>7. /\ recounted["tool_calls"] = 0
          /\ line[h].unit = "tool_calls" => ~Holds(ledger, line[h].id)
      <4>1. line[h].unit \in Units /\ "tool_calls" \in Units
        BY <3>2 DEF Lines, ToolLine, PromptLine, Units
      <4>. QED
        BY <2>1, <3>0, <3>2, <4>1, AppendIsRecord
    <3>3. line[h].unit = "tool_calls" => \A i \in DOMAIN ledger : ledger[i] # line[h]
      <4>1. line[h].unit = "tool_calls" => line[h] = ToolLine(line[h].id)
        BY <3>2 DEF Lines, ToolLine, PromptLine
      <4>. QED
        BY <3>7, <4>1 DEF Holds
    <3>4. SUFFICES ASSUME NEW i \in DOMAIN ledger', NEW j \in DOMAIN ledger',
                          ledger'[i].unit = "tool_calls", ledger'[i] = ledger'[j]
                   PROVE  i = j
      BY DEF CountedOnce
    <3>5. CASE i \in DOMAIN ledger /\ j \in DOMAIN ledger
      BY <3>1, <3>2, <3>4, <3>5, <3>7 DEF CountedOnce
    <3>6. CASE i = Len(ledger) + 1 \/ j = Len(ledger) + 1
      BY <3>1, <3>2, <3>3, <3>4, <3>6
    <3>. QED
      BY <3>1, <3>2, <3>5, <3>6
  <2>2. CASE UNCHANGED <<ledger, granted, recounted>>
    BY <2>2 DEF CountedOnce
  <2>. QED
    BY <2>1, <2>2, StepIsRecordOrStutter
<1>. QED
  BY <1>1, <1>2, TypeCorrect, SnapshotStaysFresh, PTL DEF Spec

\* "The count is exact under concurrent hooks": the counts handed out are
\* exactly 1 up to the number of lines, so each crossing is met once, but for
\* one number lost to each line appended with the log unreadable.
THEOREM CountsStayExact == Spec => []CountsExact
<1>1. Init => CountsExact
  <2>1. \A u \in Units : Count(<<>>, u) = 0
    BY FS_EmptySet DEF Count
  <2>2. (1..0) \ {} = {} /\ Cardinality({}) = 0
    BY FS_EmptySet
  <2>. QED
    BY <2>1, <2>2 DEF Init, CountsExact
<1>2. TypeOK /\ SnapshotFresh /\ CountsExact /\ [Next]_vars => CountsExact'
  <2> SUFFICES ASSUME TypeOK, SnapshotFresh, CountsExact, [Next]_vars
               PROVE  CountsExact'
    OBVIOUS
  <2>1. ASSUME NEW h \in Hooks, AppendLine(h)
        PROVE  CountsExact'
    <3> DEFINE own == line[h].unit
    <3>0. /\ ledger' = Append(ledger, line[h])
          /\ \/ /\ granted' = [granted EXCEPT ![own] = @ \union {Count(ledger, own) + 1}]
                /\ recounted' = recounted
             \/ /\ granted' = [granted EXCEPT ![own] = @ \union {1}]
                /\ recounted' = [recounted EXCEPT ![own] = @ + 1]
      BY <2>1, AppendIsRecord
    <3>1. /\ ledger \in Seq(Lines) /\ line[h] \in Lines /\ own \in Units
          /\ granted \in [Units -> SUBSET Nat]
          /\ recounted \in [Units -> Nat]
      BY DEF TypeOK, Lines, ToolLine, PromptLine, Units
    <3>2. SUFFICES ASSUME NEW u \in Units
                   PROVE  /\ granted'[u] \subseteq 1..Count(ledger', u)
                          /\ Cardinality((1..Count(ledger', u)) \ granted'[u]) <= recounted'[u]
      BY DEF CountsExact
    <3> DEFINE n == Count(ledger, u)
               m == Count(ledger', u)
               G == granted[u]
               G2 == granted'[u]
               r == recounted[u]
               r2 == recounted'[u]
               missing == (1..n) \ G
    <3>3. n \in Nat /\ m = n + (IF own = u THEN 1 ELSE 0)
      BY <3>0, <3>1, CountAppend
    <3>4. G \subseteq 1..n /\ Cardinality(missing) <= r
      BY DEF CountsExact
    <3>5. /\ own # u => G2 = G /\ r2 = r
          /\ own = u => \/ G2 = G \union {n + 1} /\ r2 = r
                        \/ G2 = G \union {1} /\ r2 = r + 1
      BY <3>0, <3>1
    <3>6. IsFiniteSet(missing) /\ Cardinality(missing) \in Nat /\ r \in Nat
      <4>1. IsFiniteSet(1..n)
        BY <3>3, FS_Interval
      <4>. QED
        BY <3>1, <4>1, FS_Subset, FS_CardinalityType
    <3> HIDE DEF n, m, G, G2, r, r2, own
    <3>7. CASE own # u
      <4>1. m = n /\ G2 = G /\ r2 = r
        BY <3>3, <3>5, <3>7
      <4>. QED
        BY <3>4, <4>1 DEF m, G2, r2, missing
    <3>8. CASE own = u /\ G2 = G \union {n + 1} /\ r2 = r
      <4>1. m = n + 1
        BY <3>3, <3>8
      <4>2. (1..m) \ G2 = missing /\ G2 \subseteq 1..m
        BY <3>3, <3>4, <3>8, <4>1
      <4>. QED
        BY <3>4, <3>8, <4>2 DEF m, G2, r2
    <3>9. CASE own = u /\ G2 = G \union {1} /\ r2 = r + 1
      <4>1. m = n + 1
        BY <3>3, <3>9
      <4>2. (1..m) \ G2 \subseteq missing \union {n + 1} /\ G2 \subseteq 1..m
        BY <3>3, <3>4, <3>9, <4>1
      <4>3. /\ IsFiniteSet(missing \union {n + 1})
            /\ Cardinality(missing \union {n + 1}) = Cardinality(missing) + 1
        <5>1. n + 1 \notin missing
          BY <3>3
        <5>. QED
          <6> HIDE DEF missing
          <6>. QED
            BY <3>6, <5>1, FS_AddElement
      <4>4. /\ Cardinality((1..m) \ G2) <= Cardinality(missing \union {n + 1})
            /\ Cardinality((1..m) \ G2) \in Nat
        BY <4>2, <4>3, FS_Subset, FS_CardinalityType
      <4>5. Cardinality((1..m) \ G2) <= r2
        <5> HIDE DEF missing
        <5> DEFINE c == Cardinality((1..m) \ G2)
        <5> HIDE DEF c
        <5>1. c \in Nat /\ c <= Cardinality(missing) + 1
          BY <4>3, <4>4 DEF c
        <5>2. c <= r2
          BY <3>4, <3>6, <3>9, <5>1
        <5>. QED
          BY <5>2 DEF c
      <4>. QED
        BY <4>2, <4>5 DEF m, G2, r2
    <3>. QED
      BY <3>5, <3>7, <3>8, <3>9
  <2>2. CASE UNCHANGED <<ledger, granted, recounted>>
    BY <2>2 DEF CountsExact
  <2>. QED
    BY <2>1, <2>2, StepIsRecordOrStutter
<1>. QED
  BY <1>1, <1>2, TypeCorrect, SnapshotStaysFresh, PTL DEF Spec

\* The ledger implements the atomic counter: the append of record_tool_call
\* and record_prompt is the one step a reader of the abstract counter sees.
THEOREM ImplementsCallCounter == Spec => Linearizable
<1> USE DEF Counter!Units, Units, Counter!PromptLine, PromptLine, Counter!ToolLine, ToolLine,
            Counter!Lines, Lines
<1>1. Init => Counter!Init
  BY DEF Init, Counter!Init
<1>2. TypeOK /\ SnapshotFresh /\ [Next]_vars => [Counter!Next]_Counter!vars
  <2> SUFFICES ASSUME TypeOK, SnapshotFresh, [Next]_vars
               PROVE  [Counter!Next]_Counter!vars
    OBVIOUS
  <2>1. ASSUME NEW h \in Hooks, AppendLine(h)
        PROVE  Counter!Next
    <3>1. \A s, u : Count(s, u) = Counter!Count(s, u)
      BY DEF Count, Counter!Count, Cardinality, Counter!Cardinality,
             IsFiniteSet, Counter!IsFiniteSet
    <3>2. line[h] \in Lines
      BY DEF TypeOK
    <3> DEFINE u == line[h].unit
    <3>3. CASE /\ ledger # <<>>
               /\ granted' = [granted EXCEPT ![u] = @ \union {1}]
               /\ recounted' = [recounted EXCEPT ![u] = @ + 1]
      <4>1. Counter!Recount(line[h])
        BY <2>1, <3>3, AppendIsRecord DEF Counter!Recount, Counter!Record
      <4>. QED
        BY <3>2, <4>1 DEF Counter!Next
    <3>4. CASE /\ granted' = [granted EXCEPT ![u] = @ \union {Count(ledger, u) + 1}]
               /\ recounted' = recounted
               /\ u = "tool_calls" => ~Holds(ledger, line[h].id)
      <4>1. Counter!Exactly(line[h])
        BY <2>1, <3>1, <3>4, AppendIsRecord DEF Counter!Exactly, Counter!Record
      <4>2. CASE u = "tool_calls"
        <5>1. line[h] = Counter!ToolLine(line[h].id) /\ line[h].id \in Calls
          BY <3>2, <4>2
        <5>2. ~Counter!Holds(ledger, line[h].id)
          BY <3>4, <4>2 DEF Holds, Counter!Holds
        <5>. QED
          BY <4>1, <5>1, <5>2 DEF Counter!Next, Counter!CountCall
      <4>3. CASE u = "prompts"
        <5>1. line[h] = Counter!PromptLine
          BY <3>2, <4>3
        <5>. QED
          BY <4>1, <5>1 DEF Counter!Next, Counter!CountPrompt
      <4>. QED
        BY <3>2, <4>2, <4>3
    <3>. QED
      BY <2>1, <3>3, <3>4, AppendIsRecord
  <2>2. CASE UNCHANGED <<ledger, granted, recounted>>
    BY <2>2 DEF Counter!vars
  <2>. QED
    BY <2>1, <2>2, StepIsRecordOrStutter
<1>. QED
  BY <1>1, <1>2, TypeCorrect, SnapshotStaysFresh, PTL DEF Spec, Linearizable, Counter!Spec

\* Types hold and no snapshot is overtaken, whatever hooks race or die.
THEOREM LedgerInvariant == Spec => []LedgerInv
BY TypeCorrect, SnapshotStaysFresh, PTL DEF LedgerInv
=============================================================================
