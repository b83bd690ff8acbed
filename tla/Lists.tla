------------------------------- MODULE Lists -------------------------------
(***************************************************************************)
(* What the parts of Programs need of sequences.  Each of them is an       *)
(* instance there, and with SequencesExt in each of them most of what a    *)
(* prover is given about Programs would be definitions nobody uses.        *)
(***************************************************************************)
EXTENDS Naturals, Sequences

Range(s) == {s[i] : i \in DOMAIN s}

Reverse(s) == [i \in 1..Len(s) |-> s[Len(s) - i + 1]]

\* From the first element to the last.
FoldLeft(op(_, _), base, s) ==
    LET upTo[i \in 0..Len(s)] == IF i = 0 THEN base ELSE op(upTo[i - 1], s[i])
    IN  upTo[Len(s)]

\* s without its k-th element.
RemoveAt(s, k) == [i \in 1..(Len(s) - 1) |-> IF i < k THEN s[i] ELSE s[i + 1]]

\* s without the first of its elements that is e.
RemoveFirst(s, e) ==
    LET places == {i \in DOMAIN s : s[i] = e}
    IN  IF places = {} THEN s ELSE RemoveAt(s, CHOOSE k \in places : \A i \in places : k <= i)
=============================================================================
