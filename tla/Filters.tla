------------------------------- MODULE Filters -------------------------------
(***************************************************************************)
(* What several components ask of sequences.  Filter is SelectSeq with a   *)
(* set in the place of the test: the elements of a sequence that are in    *)
(* the set, in their order.                                                *)
(***************************************************************************)
EXTENDS Naturals, Sequences

Filter(s, keep) ==
    LET kept[i \in 0 .. Len(s)] ==
            IF i = 0 THEN <<>>
            ELSE IF s[i] \in keep THEN Append(kept[i - 1], s[i]) ELSE kept[i - 1]
    IN  kept[Len(s)]

\* The elements of a sequence, and those that come after a position.
Elements(s) == {s[i] : i \in DOMAIN s}
ElementsAfter(s, p) == {s[i] : i \in {j \in DOMAIN s : j > p}}

\* The last n of a sequence.
LastN(s, n) == SubSeq(s, IF Len(s) > n THEN Len(s) - n + 1 ELSE 1, Len(s))

\* No element is in a sequence twice.
Injective(s) == \A i, j \in DOMAIN s : s[i] = s[j] => i = j
=============================================================================
