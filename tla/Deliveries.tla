----------------------------- MODULE Deliveries ------------------------------
(***************************************************************************)
(* What the marker files of a session promise the user: each cadence that  *)
(* crosses earns one delivery, a one-shot that is set again, or whose text *)
(* a compaction erased, has one delivery and never two, and an entry is    *)
(* delivered only when one is earned, which that takes away.  All of these *)
(* are atomic here.                                                        *)
(*                                                                         *)
(* The markers (files without a lock, and processes that read them long    *)
(* before they claim them) are module Session, which implements this.      *)
(***************************************************************************)
EXTENDS Naturals

CONSTANTS Crossers,   \* the names of the entries with a cadence
          Shots       \* the ids of the one-shots

VARIABLE earned       \* deliveries earned and not made, per entry

Init == earned = [x \in Crossers \union Shots |-> IF x \in Shots THEN 1 ELSE 0]

\* A count crosses the cadences of these entries.
Cross(names) ==
  earned' = [x \in Crossers \union Shots |-> earned[x] + (IF x \in names THEN 1 ELSE 0)]

\* A one-shot that fired may fire once more.
Rearm(s) == earned[s] = 0 /\ earned' = [earned EXCEPT ![s] = 1]

\* One entry goes to the host, or a handler's cadence is spent on its run.
Deliver(x) == earned[x] > 0 /\ earned' = [earned EXCEPT ![x] = @ - 1]

Next ==
  \/ \E names \in SUBSET Crossers : Cross(names)
  \/ \E s \in Shots : Rearm(s)
  \/ \E x \in Crossers \union Shots : Deliver(x)

Spec == Init /\ [][Next]_earned
=============================================================================
