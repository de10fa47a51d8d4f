------------------------------- MODULE Intervals -------------------------------
(* Runs of neighbouring positions, used where texts are read as a whole.        *)
EXTENDS Naturals, FiniteSets, Sequences, SequencesExt

\* What ends a string, and is no character of it.
Nul == ""
Chars == STRING \ {Nul}

CharAt(s, i) == IF i \in DOMAIN s THEN s[i] ELSE Nul

\* What stands in f at some places, in their order.
InOrder(f, places) ==
    [k \in 1..Cardinality(places) |->
        f[CHOOSE i \in places : Cardinality({j \in places : j <= i}) = k]]

\* The longest intervals of positions that lie in a set: where they begin, and where
\* the one that begins at i ends.
Beginnings(positions) == {i \in positions : i - 1 \notin positions}
EndFrom(positions, i) ==
    CHOOSE e \in positions : /\ i <= e /\ i..e \subseteq positions
                             /\ e + 1 \notin positions

\* These intervals, in their order.
Intervals(positions) ==
    LET starts == Beginnings(positions)
    IN InOrder([i \in starts |-> <<i, EndFrom(positions, i)>>], starts)

Piece(s, interval) == SubSeq(s, interval[1], interval[2])
===============================================================================
