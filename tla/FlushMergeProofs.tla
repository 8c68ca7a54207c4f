-------------------------- MODULE FlushMergeProofs --------------------------
(***************************************************************************)
(* Theorems of FlushMerge, for every backlog, cap and length of the marks. *)
(***************************************************************************)
EXTENDS FlushMerge, FiniteSetTheorems, SequenceTheorems, TLAPS

\* Reordering a list by positions gives a list of the same length.
LEMMA OrderIsSeq ==
  ASSUME NEW s \in Seq(Entries), NEW p \in MergeOrders(s)
  PROVE  /\ [k \in DOMAIN s |-> s[p[k]]] \in Seq(Entries)
         /\ Len([k \in DOMAIN s |-> s[p[k]]]) = Len(s)
<1>1. p \in [DOMAIN s -> DOMAIN s]
  BY DEF MergeOrders
<1>2. DOMAIN s = 1..Len(s) /\ Len(s) \in Nat
  OBVIOUS
<1>3. [k \in DOMAIN s |-> s[p[k]]] \in [1..Len(s) -> Entries]
  BY <1>1, <1>2
<1>. QED
  BY <1>2, <1>3, IsASeq

\* What a listing of positions offers is a list of entries.
LEMMA ListingIsSeq ==
  ASSUME NEW s \in Seq(Entries), NEW I \in SUBSET DOMAIN s, NEW p \in Listings(I)
  PROVE  [k \in DOMAIN p |-> Offered(s[p[k]])] \in Seq(Entries)
<1>1. IsFiniteSet(I)
  <2>1. IsFiniteSet(1..Len(s))
    BY FS_Interval
  <2>. QED
    BY <2>1, FS_Subset
<1>2. Cardinality(I) \in Nat
  BY <1>1, FS_CardinalityType
<1>3. p \in [1..Cardinality(I) -> I]
  BY DEF Listings
<1>4. \A e \in Entries : Offered(e) \in Entries
  BY DEF Offered, Entries, Kinds
<1>5. [k \in DOMAIN p |-> Offered(s[p[k]])] \in [1..Cardinality(I) -> Entries]
  BY <1>3, <1>4
<1>. QED
  BY <1>2, <1>5, IsASeq

\* `Used` is a natural number within the cap.
LEMMA UsedBounded ==
  ASSUME FlushInv
  PROVE  /\ Used \in Nat /\ Used <= budget /\ Used = UsedAfter(Len(texts))
         /\ budget \in Nat
BY FlushAssumption DEF FlushInv, TypeOK, Accounted, Used, UsedAfter

\* One entry considered with a size that fits keeps select's accounting.
LEMMA ConsiderAccounts ==
  ASSUME FlushInv, NEW size \in Nat, Consider(size), size = 0 \/ size <= Room,
         heldBack' \in BOOLEAN, truncated' \in BOOLEAN
  PROVE  TypeOK' /\ Accounted' /\ Emitting'
<1> DEFINE n == Len(texts)
           end == IF size = 0 THEN Used ELSE Used + Overhead + size
<1>1. /\ phase = "select" /\ n < Len(entries)
      /\ texts' = Append(texts, size) /\ ends' = Append(ends, end)
      /\ UNCHANGED <<budget, declared, entries, fresh, phase, emitted, out, settled>>
  BY DEF Consider, given
<1>2. /\ texts \in Seq(Nat) /\ ends \in Seq(Nat) /\ Len(ends) = n /\ n \in Nat
      /\ entries \in Seq(Entries)
  BY DEF FlushInv, TypeOK, Accounted
<1>3. /\ Used \in Nat /\ Used <= budget /\ budget \in Nat /\ Used = UsedAfter(n)
  BY UsedBounded
<1>4. end \in Nat /\ end <= budget
  BY <1>3, FlushAssumption DEF Overhead, Room
<1>5. TypeOK'
  BY <1>1, <1>2, <1>4 DEF FlushInv, TypeOK
<1>6. Accounted'
  <2>1. Len(ends') = Len(texts') /\ Len(texts') = n + 1 /\ Len(texts') <= Len(entries')
    BY <1>1, <1>2
  <2>2. \A j \in DOMAIN texts : texts'[j] = texts[j] /\ ends'[j] = ends[j]
    BY <1>1, <1>2, <1>4
  <2>3. \A j \in 0..n : UsedAfter(j)' = UsedAfter(j)
    <3>1. \A j \in 0..n : j = 0 \/ j \in DOMAIN texts
      BY <1>2
    <3>. QED
      BY <2>2, <3>1 DEF UsedAfter
  <2>4. texts'[n + 1] = size /\ ends'[n + 1] = end
    BY <1>1, <1>2, <1>4
  <2>5. ASSUME NEW j \in DOMAIN texts'
        PROVE  /\ ends'[j] <= budget'
               /\ ends'[j] = IF texts'[j] = 0 THEN UsedAfter(j - 1)'
                    ELSE UsedAfter(j - 1)' + texts'[j]
                           + (IF UsedAfter(j - 1)' = 0 THEN 0 ELSE Separator)
    <3>1. CASE j \in DOMAIN texts
      <4>1. j - 1 \in 0..n
        BY <1>2, <3>1
      <4>2. UsedAfter(j - 1)' = UsedAfter(j - 1)
        BY <2>3, <4>1
      <4>3. /\ ends[j] <= budget
            /\ ends[j] = IF texts[j] = 0 THEN UsedAfter(j - 1)
                    ELSE UsedAfter(j - 1) + texts[j]
                           + (IF UsedAfter(j - 1) = 0 THEN 0 ELSE Separator)
        BY <3>1 DEF FlushInv, Accounted
      <4>. QED
        BY <1>1, <2>2, <3>1, <4>2, <4>3
    <3>2. CASE j = n + 1
      <4>1. UsedAfter(j - 1)' = Used
        BY <1>2, <1>3, <2>3, <3>2
      <4>2. ends'[j] = end /\ texts'[j] = size /\ budget' = budget
        BY <1>1, <2>4, <3>2
      <4>3. end = IF size = 0 THEN Used ELSE Used + size + (IF Used = 0 THEN 0 ELSE Separator)
        BY <1>3, FlushAssumption DEF Overhead
      <4>. QED
        <5> HIDE DEF end
        <5>. QED
          BY <1>4, <4>1, <4>2, <4>3
    <3>. QED
      BY <1>1, <1>2, <2>1, <3>1, <3>2
  <2>. QED
    BY <1>1, <2>1, <2>5 DEF Accounted
<1>7. Emitting'
  BY <1>1 DEF FlushInv, Emitting
<1>. QED
  BY <1>5, <1>6, <1>7

\* The invariant holds initially and every step keeps it.
LEMMA FlushInvInit == Init => FlushInv
<1> SUFFICES ASSUME Init PROVE FlushInv
  OBVIOUS
<1>1. TypeOK
  <2>1. entries \in Seq(Entries)
    BY FlushAssumption DEF Init
  <2>2. <<>> \in Seq(Nat)
    OBVIOUS
  <2>. QED
    BY <2>1, <2>2 DEF Init, TypeOK
<1>. QED
  BY <1>1 DEF Init, FlushInv, Accounted, Emitting, Priority

LEMMA FlushInvStep == FlushInv /\ [Next]_vars => FlushInv'
<1> SUFFICES ASSUME FlushInv, [Next]_vars
             PROVE  FlushInv'
  OBVIOUS
<1> USE DEF FlushInv
<1>1. CASE Order
  <2>1. PICK p \in MergeOrders(entries) :
          entries' = [k \in DOMAIN entries |-> entries[p[k]]]
    BY <1>1 DEF Order
  <2>2. entries' \in Seq(Entries) /\ Len(entries') = Len(entries)
    BY <2>1, OrderIsSeq DEF TypeOK
  <2>3. TypeOK'
    BY <1>1, <2>2 DEF Order, TypeOK
  <2>4. Accounted' /\ Emitting'
    BY <1>1, <2>2 DEF Order, TypeOK, Accounted, Emitting
  <2>5. Priority'
    <3>1. \A i, j \in DOMAIN entries' : i < j /\ entries'[j].user => entries'[i].user
      <4>1. DOMAIN entries' = DOMAIN entries
        BY <2>1
      <4>2. \A j, k \in DOMAIN entries : j < k => Before(entries, p[j], p[k])
        BY DEF MergeOrders
      <4>3. \A k \in DOMAIN entries : entries'[k] = entries[p[k]]
        BY <2>1
      <4>. QED
        BY <4>1, <4>2, <4>3 DEF Before
    <3>. QED
      BY <1>1, <3>1 DEF Order, Accounted, Priority
  <2>. QED
    BY <2>3, <2>4, <2>5
<1>2. CASE SkipRepo
  <2>1. TypeOK' /\ Accounted' /\ Emitting'
    BY <1>2, ConsiderAccounts DEF SkipRepo, TypeOK
  <2>2. Priority'
    BY <1>2 DEF SkipRepo, Consider, Current, TypeOK, Accounted, Priority, given
  <2>. QED
    BY <2>1, <2>2
<1>3. CASE Admit
  <2>1. Current \in Entries
    BY <1>3 DEF Admit, Fits, Consider, Current, TypeOK, Accounted
  <2>2. Current.len \in Nat
    BY <2>1, FlushAssumption DEF Entries
  <2>3. TypeOK' /\ Accounted' /\ Emitting'
    BY <1>3, <2>2, ConsiderAccounts DEF Admit, Fits, TypeOK
  <2>4. Priority'
    BY <1>3, <2>2 DEF Admit, Fits, Consider, Current, TypeOK, Accounted, Priority, given
  <2>. QED
    BY <2>3, <2>4
<1>4. CASE HoldBack
  <2>1. PICK head \in Clipped(Current) : Consider(head)
    BY <1>4 DEF HoldBack, Fits
  <2>2. head \in Nat /\ (head = 0 \/ head <= Room)
    <3>1. Room \in Int
      BY UsedBounded, FlushAssumption DEF Room, Overhead
    <3>. QED
      BY <2>1, <3>1, FlushAssumption DEF Clipped
  <2>3. Current \in Entries
    BY <1>4 DEF HoldBack, Fits, Current, TypeOK, Accounted
  <2>4. heldBack' \in BOOLEAN /\ truncated' \in BOOLEAN
    BY <1>4, <2>3 DEF HoldBack, Fits, Entries, TypeOK
  <2>5. TypeOK' /\ Accounted' /\ Emitting'
    BY <2>1, <2>2, <2>4, ConsiderAccounts
  <2>6. Priority'
    BY <1>4, <2>1, <2>2, <2>3, <2>4
       DEF HoldBack, Fits, Consider, Current, TypeOK, Accounted, Priority, Entries, given
  <2>. QED
    BY <2>5, <2>6
<1>5. CASE Selected
  BY <1>5, UsedBounded DEF Selected, TypeOK, Accounted, Emitting, Priority, UsedAfter, given
<1>6. CASE Emit
  <2> DEFINE i == emitted + 1
  <2>0. /\ i \in DOMAIN texts /\ i \in DOMAIN entries /\ entries[i] \in Entries
        /\ texts[i] \in Nat /\ out \in Nat /\ emitted \in Nat /\ Separator \in Nat
    BY <1>6, FlushAssumption DEF Emit, TypeOK, Accounted, given
  <2>1. TypeOK'
    <3>1. entries[i].id \in Ids
      BY <2>0 DEF Entries
    <3>2. Pushed(texts[i]) \in Nat
      BY <2>0 DEF Pushed
    <3>. QED
      BY <1>6, <2>0, <3>1, <3>2 DEF Emit, TypeOK, given
  <2>2. Accounted' /\ Priority'
    BY <1>6 DEF Emit, Accounted, Priority, UsedAfter, given
  <2>3. Emitting'
    <3>1. UsedAfter(i) = IF texts[i] = 0 THEN UsedAfter(emitted)
                         ELSE UsedAfter(emitted) + texts[i]
                                + (IF UsedAfter(emitted) = 0 THEN 0 ELSE Separator)
      <4>1. UsedAfter(i) = ends[i] /\ i - 1 = emitted
        BY <2>0 DEF UsedAfter
      <4>. QED
        BY <2>0, <4>1 DEF Accounted
    <3>2. UsedAfter(emitted) \in Nat
      BY <2>0 DEF UsedAfter, TypeOK, Accounted
    <3>3. out <= UsedAfter(emitted)
      BY <1>6 DEF Emit, Emitting
    <3>4. out' <= UsedAfter(i)
      BY <1>6, <2>0, <3>1, <3>2, <3>3 DEF Emit, Pushed
    <3>5. UsedAfter(emitted)' = UsedAfter(i) /\ phase' = "emit" /\ emitted' <= Len(texts')
      BY <1>6, <2>0 DEF Emit, UsedAfter, TypeOK, given
    <3>. QED
      BY <3>4, <3>5 DEF Emitting
  <2>. QED
    BY <2>1, <2>2, <2>3
<1>7. CASE Finish
  <2>1. TypeOK'
    BY <1>7, FlushAssumption DEF Finish, Pushed, TypeOK, given
  <2>2. Accounted' /\ Priority'
    BY <1>7 DEF Finish, Accounted, Priority, UsedAfter, given
  <2>3. out <= Used /\ out \in Nat
    BY <1>7, UsedBounded DEF Finish, TypeOK, Accounted, Emitting, given
  <2>4. Emitting'
    BY <1>7, <2>3, UsedBounded, FlushAssumption
       DEF Finish, Pushed, MarkerFits, Emitting, Used, given
  <2>. QED
    BY <2>1, <2>2, <2>4
<1>8. CASE NextFlush
  <2>1. PICK again \in SUBSET {declared[i].id : i \in DOMAIN declared} :
          /\ fresh' = again
          /\ \E p \in Listings({i \in DOMAIN declared : declared[i].id \in Armed(again)}) :
               entries' = [k \in DOMAIN p |-> Offered(declared[p[k]])]
    BY <1>8 DEF NextFlush
  <2>2. entries' \in Seq(Entries)
    BY <2>1, ListingIsSeq DEF TypeOK
  <2>6. fresh' \subseteq Ids
    <3>1. \A i \in DOMAIN declared : declared[i] \in Entries
      BY DEF TypeOK
    <3>2. \A i \in DOMAIN declared : declared[i].id \in Ids
      BY <3>1 DEF Entries
    <3>. QED
      BY <2>1, <3>2
  <2>3. /\ phase' = "order" /\ texts' = <<>> /\ ends' = <<>> /\ emitted' = 0 /\ out' = 0
        /\ heldBack' = FALSE /\ truncated' = FALSE /\ settled' = {}
        /\ UNCHANGED <<budget, declared>>
    BY <1>8 DEF NextFlush
  <2>4. TypeOK'
    <3>1. texts' \in Seq(Nat) /\ ends' \in Seq(Nat)
      BY <2>3
    <3>2. /\ budget' \in Budgets /\ settled' \subseteq Ids /\ declared' \in Seq(Entries)
          /\ phase' \in {"order", "select", "emit", "done"}
          /\ heldBack' \in BOOLEAN /\ truncated' \in BOOLEAN
          /\ emitted' \in Nat /\ out' \in Nat
      BY <2>3 DEF TypeOK
    <3>. QED
      BY <2>2, <2>6, <3>1, <3>2 DEF TypeOK
  <2>5. Accounted' /\ Emitting' /\ Priority'
    BY <2>2, <2>3 DEF Accounted, Emitting, Priority
  <2>. QED
    BY <2>4, <2>5
<1>9. CASE UNCHANGED vars
  BY <1>9 DEF vars, TypeOK, Accounted, Emitting, Priority, UsedAfter, Used
<1>. QED
  BY <1>1, <1>2, <1>3, <1>4, <1>5, <1>6, <1>7, <1>8, <1>9 DEF Next, Select

\* The accounting of select and merge is an invariant of every flush.
THEOREM FlushInvariant == Spec => []FlushInv
BY FlushInvInit, FlushInvStep, PTL DEF Spec

\* "The hard cap ... includes the truncation marker", for every backlog and
\* every cap, but for the bare marker under a cap shorter than the marker.
THEOREM CapHolds == Spec => []CapRespected
<1>1. FlushInv => CapRespected
  BY DEF FlushInv, Emitting, CapRespected
<1>. QED
  BY <1>1, FlushInvariant, PTL

\* A step of select gives a repo entry nothing once a user entry was held back:
\* the entry considered is either the user's, and then no repo entry came
\* before it, or the repo's, and then every user entry before it is whole.
LEMMA ConsiderKeepsUserFirst ==
  ASSUME FlushInv, UserFirst, NEW size \in Nat, Consider(size),
         heldBack /\ ~Current.user => size = 0
  PROVE  UserFirst'
<1> DEFINE n == Len(texts)
<1>1. /\ n \in Nat /\ n + 1 \in DOMAIN entries /\ Current = entries[n + 1]
      /\ entries' = entries /\ texts' = Append(texts, size) /\ phase = "select"
      /\ texts \in Seq(Nat) /\ entries \in Seq(Entries) /\ n < Len(entries)
  BY DEF Consider, Current, FlushInv, TypeOK, Accounted, given
<1>2. /\ DOMAIN texts' = DOMAIN texts \union {n + 1}
      /\ texts'[n + 1] = size /\ \A j \in DOMAIN texts : texts'[j] = texts[j]
      /\ \A j \in DOMAIN texts : j < n + 1 /\ j \in DOMAIN entries
  BY <1>1
<1>3. \A j \in DOMAIN texts : entries[n + 1].user => entries[j].user
  BY <1>1, <1>2 DEF FlushInv, Priority
<1>4. \A j \in DOMAIN texts : entries[j].user /\ texts[j] # entries[j].len => heldBack
  BY DEF FlushInv, Priority
<1>. QED
  BY <1>1, <1>2, <1>3, <1>4 DEF UserFirst

LEMMA UserFirstStep == FlushInv /\ UserFirst /\ [Next]_vars => UserFirst'
<1> SUFFICES ASSUME FlushInv, UserFirst, [Next]_vars
             PROVE  UserFirst'
  OBVIOUS
<1>1. CASE Order
  <2>1. texts' = <<>>
    BY <1>1 DEF Order, FlushInv, Accounted
  <2>. QED
    BY <2>1 DEF UserFirst
<1>2. CASE SkipRepo
  BY <1>2, ConsiderKeepsUserFirst DEF SkipRepo
<1>3. CASE Admit
  <2>1. Current \in Entries
    BY <1>3 DEF Admit, Fits, Consider, Current, FlushInv, TypeOK, Accounted
  <2>2. Current.len \in Nat
    BY <2>1, FlushAssumption DEF Entries
  <2>. QED
    BY <1>3, <2>2, ConsiderKeepsUserFirst DEF Admit, Fits
<1>4. CASE HoldBack
  <2>1. PICK head \in Clipped(Current) : Consider(head)
    BY <1>4 DEF HoldBack, Fits
  <2>2. head \in Nat
    <3>1. Room \in Int
      BY UsedBounded, FlushAssumption DEF Room, Overhead
    <3>. QED
      BY <2>1, <3>1, FlushAssumption DEF Clipped
  <2>. QED
    BY <1>4, <2>1, <2>2, ConsiderKeepsUserFirst DEF HoldBack, Fits
<1>5. CASE Selected \/ Emit \/ Finish
  BY <1>5 DEF Selected, Emit, Finish, UserFirst, given
<1>6. CASE NextFlush
  <2>1. texts' = <<>>
    BY <1>6 DEF NextFlush
  <2>. QED
    BY <2>1 DEF UserFirst
<1>7. CASE UNCHANGED vars
  BY <1>7 DEF vars, UserFirst
<1>. QED
  BY <1>1, <1>2, <1>3, <1>4, <1>5, <1>6, <1>7 DEF Next, Select

\* "User entries are merged first so the repo can only spend what is left", for
\* every backlog, cap and length of the marks.
THEOREM UserComesFirst == Spec => []UserFirst
<1>1. Init => UserFirst
  BY DEF Init, UserFirst
<1>. QED
  BY <1>1, FlushInvariant, UserFirstStep, PTL DEF Spec
=============================================================================
