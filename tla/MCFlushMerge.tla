---------------------------- MODULE MCFlushMerge ----------------------------
(***************************************************************************)
(* FlushMerge on every list of up to three entries that `flush` can build: *)
(* sections first (unconditional or recurring), then reminders, one-shots  *)
(* and handlers.  Lengths, caps and the code's 2, 16 and 32 bytes are      *)
(* scaled down so that every comparison goes both ways.                    *)
(***************************************************************************)
EXTENDS FlushMerge

MCIds     == 1..3
MCLengths == {1, 3, 4}
MCBudgets == {1, 3, 5}

Rank(e) == CASE e.kind \in {"unconditional", "recurring"} -> 1
             [] e.kind = "oneshot" -> 2
             [] e.kind = "handler" -> 3

\* flush appends the kinds in this order.
Built(s) == \A i, j \in DOMAIN s : i < j => Rank(s[i]) <= Rank(s[j])

\* The lists of length n; a one-shot and a handler always belong to the user.
ListsOf(n) ==
  LET at(i) == {e \in [id : {i}, kind : Kinds, user : BOOLEAN, len : MCLengths] :
                  Rank(e) > 1 => e.user}
  IN  CASE n = 1 -> {<<a>> : a \in at(1)}
        [] n = 2 -> {<<a, b>> : a \in at(1), b \in at(2)}
        [] n = 3 -> {<<a, b, c>> : a \in at(1), b \in at(2), c \in at(3)}

MCBacklogs == {s \in UNION {ListsOf(n) : n \in 1..3} : Built(s)}
=============================================================================
