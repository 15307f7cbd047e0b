---------------------------- MODULE MCQuoteNumber ----------------------------
(***************************************************************************)
(* Two calls on a company whose first numbers, and an employee whose first *)
(* code, were migrated without their counters, when a new year may begin.  *)
(***************************************************************************)
EXTENDS QuoteNumber, TLC

CONSTANTS r1, r2

Number(p, n)  == <<p, 26, n>>
Row(id, num, code) ==
    [id |-> id, num |-> num, code |-> code, ver |-> 1, auto |-> FALSE, deleted |-> FALSE]
Gone(q) == [q EXCEPT !.deleted = TRUE]

TurnOfYear == {26, 27}

\* Two numbers and a code were migrated: with the number a client types there is
\* something to meet for each of the four tries.
TwoAndCode ==
    {Gone(Row(n - 1, Number("GN", n), IF n = 2 THEN Number("FP", 1) ELSE None)) : n \in 1 .. 2}
OneNumber == {Row(0, Number("GN", 1), None)}
Three == {Number("GN", 3)}

Pair == Permutations({r1, r2})
=============================================================================
