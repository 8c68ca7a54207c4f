----------------------------- MODULE FlushMerge -----------------------------
(***************************************************************************)
(* How engine.rs spends the byte cap: `merge`, `select` and `clip`.        *)
(*                                                                         *)
(* One flush orders its entries (the user's before the repo's), selects    *)
(* greedily what fits, then emits each selected entry after consuming its  *)
(* marker, which a racing hook may have done first.  What a flush held     *)
(* back is offered again by the next one, and before it any entry may be   *)
(* armed anew: a cadence crosses, a one-shot is set again.  A behaviour is *)
(* a first flush of a whole list, as at a session start, and those that    *)
(* follow it.                                                              *)
(*                                                                         *)
(* Abstracted: an entry's text is its length in bytes; when a cadence      *)
(* crosses (module Session).                                               *)
(***************************************************************************)
EXTENDS Integers, Sequences, FiniteSets

CONSTANTS Ids,        \* the names of entries
          Lengths,    \* the lengths an entry's text may have
          Budgets,    \* the values of max_inject_bytes
          Backlogs,   \* what the configs declare: the lists a first flush may collect
          Separator,  \* SEPARATOR.len(): 2 in the code
          Marker,     \* TRUNCATION_MARKER.len(): 16 in the code
          ClipMark    \* the length of clip's MARK: 32 in the code

Kinds == {"unconditional", "recurring", "oneshot", "handler"}
Entries == [id : Ids, kind : Kinds, user : BOOLEAN, len : Lengths]

ASSUME FlushAssumption ==
  /\ Lengths \subseteq Nat \ {0}
  /\ Separator \in Nat /\ Marker \in Nat \ {0} /\ ClipMark \in Nat
  /\ Backlogs \subseteq Seq(Entries)
  /\ \A b \in Backlogs : \A i, j \in DOMAIN b : b[i].id = b[j].id => i = j
  /\ Budgets \subseteq Nat

VARIABLES budget,     \* the cap of every flush of the behaviour
          declared,   \* the entries the config and the session declare, in order
          entries,    \* those of the flush under way
          fresh,      \* of a flush not yet ordered: the ids armed anew since the last
          phase,      \* what the flush is doing
          texts,      \* the bytes selected of each entry considered, 0 for none
          ends,       \* select's `used` after each entry considered
          heldBack,   \* select's `user_held_back`
          truncated,  \* the plan's `truncated`
          emitted,    \* merge's loop: how many entries it has walked
          out,        \* the length of the string built so far
          settled     \* the ids of this flush consumed, here or by a racing hook

vars == <<budget, declared, entries, fresh, phase, texts, ends, heldBack, truncated,
          emitted, out, settled>>

\* What stays as it is throughout a flush once its entries are ordered.
given == <<budget, declared, entries, fresh>>

\* Mutant: the config order decides who spends the cap.
BeforeAsListed(s, a, b) == a < b

\* merge: a stable partition, the user's entries first.
Before(s, a, b) == IF s[a].user = s[b].user THEN a < b ELSE s[a].user

\* The one way to list the positions of s in that order.
MergeOrders(s) ==
  {p \in [DOMAIN s -> DOMAIN s] : \A j, k \in DOMAIN s : j < k => Before(s, p[j], p[k])}

\* The one way to list the positions in I, a set of naturals, as they come.
Listings(I) ==
  {p \in [1..Cardinality(I) -> I] : \A j, k \in DOMAIN p : j < k => p[j] < p[k]}

Used == IF ends = <<>> THEN 0 ELSE ends[Len(ends)]
Current == entries[Len(texts) + 1]

\* Mutant: the separator before an entry is not counted.
NoOverhead == 0

\* The bytes the next entry may take, after the separator it needs.
Overhead == IF Used = 0 THEN 0 ELSE Separator
Room == budget - Used - Overhead

\* Mutant: an entry as long as the room left is held back.
FitsStrictly == Current.len < Room

Fits == Current.len <= Room

Init ==
  /\ budget \in Budgets
  /\ declared \in Backlogs
  /\ entries = declared /\ fresh = {}
  /\ phase = "order"
  /\ texts = <<>> /\ ends = <<>>
  /\ heldBack = FALSE /\ truncated = FALSE
  /\ emitted = 0 /\ out = 0
  /\ settled = {}

Order ==
  /\ phase = "order"
  /\ phase' = "select"
  /\ \E p \in MergeOrders(entries) : entries' = [k \in DOMAIN entries |-> entries[p[k]]]
  /\ fresh' = {}
  /\ UNCHANGED <<budget, declared, texts, ends, heldBack, truncated, emitted, out, settled>>

\* One entry considered by select: `size` of its bytes go into the plan.
Consider(size) ==
  /\ phase = "select"
  /\ Len(texts) < Len(entries)
  /\ texts' = Append(texts, size)
  /\ ends' = Append(ends, IF size = 0 THEN Used ELSE Used + Overhead + size)
  /\ UNCHANGED <<given, phase, emitted, out, settled>>

\* Once a user entry was held back, no repo entry is admitted.
SkipRepo ==
  /\ Consider(0)
  /\ heldBack /\ ~Current.user
  /\ truncated' = TRUE
  /\ UNCHANGED heldBack

Admit ==
  /\ Consider(Current.len)
  /\ ~(heldBack /\ ~Current.user)
  /\ Fits
  /\ UNCHANGED <<heldBack, truncated>>

\* The head of a handler's output that clip returns: it ends in MARK and is cut
\* back to a character boundary; none when MARK alone fills the room, or when
\* the first character does not fit.
Clipped(e) == IF e.kind = "handler" THEN {0} \union (ClipMark + 1)..Room ELSE {0}

HoldBack ==
  /\ phase = "select" /\ Len(texts) < Len(entries)
  /\ ~(heldBack /\ ~Current.user)
  /\ ~Fits
  /\ \E head \in Clipped(Current) : Consider(head)
  /\ heldBack' = (heldBack \/ Current.user)
  /\ truncated' = TRUE

Selected ==
  /\ phase = "select" /\ Len(texts) = Len(entries)
  /\ phase' = "emit"
  /\ UNCHANGED <<given, texts, ends, heldBack, truncated, emitted, out, settled>>

\* The string with n more bytes, after a separator if it is not empty.
Pushed(n) == out + (IF out = 0 THEN 0 ELSE Separator) + n

\* The next entry of the plan: consumed and pushed.  An entry with a marker
\* (recurring, one-shot) stays silent when a racing hook consumed it first.
Emit ==
  LET i == emitted + 1
  IN  /\ phase = "emit" /\ emitted < Len(entries)
      /\ emitted' = i
      /\ \/ texts[i] = 0 /\ UNCHANGED <<out, settled>>
         \/ /\ texts[i] > 0
            /\ out' = Pushed(texts[i])
            /\ settled' = settled \union {entries[i].id}
         \/ /\ texts[i] > 0 /\ entries[i].kind \in {"recurring", "oneshot"}
            /\ out' = out
            /\ settled' = settled \union {entries[i].id}
      /\ UNCHANGED <<given, phase, texts, ends, heldBack, truncated>>

\* Mutant: the marker's own separator is forgotten.
MarkerFitsBare == Used = 0 \/ budget - Used >= Marker

\* Whether the truncation marker fits, decided by what was selected.
MarkerFits == Used = 0 \/ budget - Used >= Marker + Separator

Finish ==
  /\ phase = "emit" /\ emitted = Len(entries)
  /\ phase' = "done"
  /\ out' = IF truncated /\ MarkerFits THEN Pushed(Marker) ELSE out
  /\ UNCHANGED <<given, texts, ends, heldBack, truncated, emitted, settled>>

\* What is still armed after a flush: a pending or unfired marker that was not
\* consumed.  A handler spent its cadence on the run, and a section delivered
\* unconditionally (SessionStart, or a re-prime) never had a marker.
StillArmed(e) == e.id \notin settled /\ e.kind \in {"recurring", "oneshot"}

\* The ids the next flush finds armed, `again` of them anew.
Armed(again) == {entries[i].id : i \in {k \in DOMAIN entries : StillArmed(entries[k])}} \union again

\* An entry that is armed: a section's pending file makes it a recurring one.
Offered(e) == IF e.kind = "unconditional" THEN [e EXCEPT !.kind = "recurring"] ELSE e

\* A later flush collects what is armed, in the order it is declared.
NextFlush ==
  /\ phase = "done"
  /\ phase' = "order"
  /\ \E again \in SUBSET {declared[i].id : i \in DOMAIN declared} :
       /\ fresh' = again
       /\ \E p \in Listings({i \in DOMAIN declared : declared[i].id \in Armed(again)}) :
            entries' = [k \in DOMAIN p |-> Offered(declared[p[k]])]
  /\ texts' = <<>> /\ ends' = <<>>
  /\ heldBack' = FALSE /\ truncated' = FALSE
  /\ emitted' = 0 /\ out' = 0
  /\ settled' = {}
  /\ UNCHANGED <<budget, declared>>

Select == SkipRepo \/ Admit \/ HoldBack

Next == Order \/ Select \/ Selected \/ Emit \/ Finish \/ NextFlush

Spec == Init /\ [][Next]_vars

\* A hook runs to its end, and the turns of a session keep bringing flush
\* points (every prompt, tool batch and stop is one).
FairSpec == Spec /\ WF_vars(Next)

-----------------------------------------------------------------------------
TypeOK ==
  /\ budget \in Budgets
  /\ declared \in Seq(Entries) /\ entries \in Seq(Entries)
  /\ fresh \subseteq Ids
  /\ phase \in {"order", "select", "emit", "done"}
  /\ texts \in Seq(Nat) /\ ends \in Seq(Nat)
  /\ heldBack \in BOOLEAN /\ truncated \in BOOLEAN
  /\ emitted \in Nat /\ out \in Nat
  /\ settled \subseteq Ids

\* `used` after j entries.
UsedAfter(j) == IF j = 0 THEN 0 ELSE ends[j]

\* select's accounting: `used` is what joining the selected texts takes, and it
\* never passes the cap.
Accounted ==
  /\ Len(ends) = Len(texts)
  /\ phase = "order" => texts = <<>>
  /\ Len(texts) <= Len(entries)
  /\ phase \in {"emit", "done"} => Len(texts) = Len(entries)
  /\ \A j \in DOMAIN texts :
       /\ ends[j] <= budget
       /\ ends[j] = IF texts[j] = 0 THEN UsedAfter(j - 1)
                    ELSE UsedAfter(j - 1) + texts[j]
                           + (IF UsedAfter(j - 1) = 0 THEN 0 ELSE Separator)

\* merge's accounting: what is emitted is at most what was selected so far,
\* less whatever a racing hook took.
Emitting ==
  /\ phase \in {"order", "select"} => out = 0 /\ emitted = 0
  /\ phase = "emit" => emitted <= Len(texts) /\ out <= UsedAfter(emitted)
  /\ phase = "done" => out <= budget \/ (Used = 0 /\ out = Marker)

\* Once ordered, the user's entries lead, and `user_held_back` is set
\* when one of those considered was not selected whole.
Priority ==
  /\ phase # "order" =>
       \A i, j \in DOMAIN entries : i < j /\ entries[j].user => entries[i].user
  /\ \A i \in DOMAIN texts : entries[i].user /\ texts[i] # entries[i].len => heldBack

\* The inductive invariant behind the cap and the user's priority.
FlushInv == TypeOK /\ Accounted /\ Emitting /\ Priority

\* "The hard cap per flush, truncation marker included": whatever is held back,
\* clipped or lost to a racing hook, the string merge returns fits the cap.  The
\* one exception is a cap shorter than the marker: the marker of a flush that
\* selected nothing is printed whatever the cap, and nothing else is.
CapRespected == phase = "done" => out <= budget \/ (Used = 0 /\ out = Marker)

\* "User entries are merged first so the repo can only spend what is left": as
\* long as a user entry is not delivered whole, no repo entry is selected.
UserFirst ==
  \A i, j \in DOMAIN texts :
    entries[i].user /\ texts[i] # entries[i].len /\ ~entries[j].user => texts[j] = 0

\* The entry x is offered, may wait for a later flush, and fits the cap alone.
Waits(x) ==
  /\ phase = "order"
  /\ \E i \in DOMAIN entries :
       entries[i].id = x /\ StillArmed(entries[i]) /\ entries[i].len <= budget

\* Nothing that merge puts before x was armed anew, and no armed user entry
\* that never fits keeps a repo's x out.
Unrivalled(x) ==
  \A i, j \in DOMAIN declared :
    declared[j].id = x /\ i # j /\ Before(declared, i, j) =>
      /\ declared[i].id \notin fresh
      /\ ~declared[j].user /\ declared[i].user /\ declared[i].len > budget =>
           \A k \in DOMAIN entries : entries[k].id # declared[i].id

\* "An entry that does not fit stays armed for the next flush": an armed entry
\* that fits the cap by itself gets through in the end, provided that from some
\* flush on nothing that goes before it is armed anew.  (Without the proviso an
\* entry of a short cadence takes the cap in every flush and the entry waits
\* for ever.)
BacklogDrains == \A x \in Ids : <>[]Unrivalled(x) => (Waits(x) ~> x \in settled)

\* "An entry that does not fit stays pending and is delivered by a later flush.
\* A handler entry is the exception" (engine.rs, select): so a prime section
\* that a session start holds back would be delivered later.
HeldBackSectionDelivered ==
  \A x \in Ids :
    (phase = "order" /\ \E i \in DOMAIN entries :
        entries[i].id = x /\ entries[i].kind = "unconditional"
          /\ entries[i].len <= budget)
      ~> x \in settled
=============================================================================
