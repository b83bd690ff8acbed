------------------------------- MODULE Synth -------------------------------
(***************************************************************************)
(* The synthesis of PL/pgSQL from T-SQL (internal/spsynth): read the       *)
(* procedure, have the model convert it, and run both sides on a number of *)
(* arguments, comparing what they return.  CompareOutputs sorts both       *)
(* results by the text of their rows and compares them pairwise with a     *)
(* tolerance for numbers.  A row is modelled by one value, a number or a   *)
(* string; the numbers are multiples of half the tolerance, and a string   *)
(* has the text of the number it spells.  Which of two texts sorts first   *)
(* (10 before 9) is chosen with the initial state.                         *)
(***************************************************************************)
EXTENDS Integers, Sequences, FiniteSets, Lists

CONSTANTS
    Numbers,        \* the values of a column
    MaxRows,        \* bound on the rows of a result
    MaxRounds,      \* Rounds, and the size of the recorded InputSet
    DiffCap         \* diffCap

VARIABLES
    phase,          \* "read", "convert", "rounds", "done", "failed"
    validator,      \* "none", "property", "shadow"
    left,           \* rounds to go
    diffs,          \* DiffCount over the rounds so far
    method, passed, \* EquivEvidence
    textOrder,      \* rank of each number's text
    allSame,        \* ghost: every pair of results was the same but for order and tolerance
    allPermuted     \* ghost: every pair held the same rows exactly, and no two rows one text

vars == <<phase, validator, left, diffs, method, passed, textOrder, allSame, allPermuted>>

Values == [type : {"number", "string"}, num : Numbers]
Results == UNION {[1..n -> Values] : n \in 0..MaxRows}

RowKey(row) == textOrder[row.num]

\* The orders in which n rows can be put.
Orders(n) == {p \in [1..n -> 1..n] : /\ \A i \in 1..n : \E k \in 1..n : p[k] = i
                                     /\ \A i, k \in 1..n : p[i] = p[k] => i = k}

\* sort.Slice is not stable: rows of one text come in any order.
SortRows(rows) ==
    LET n == Len(rows)
    IN  {[k \in 1..n |-> rows[p[k]]] : p \in {q \in Orders(n) :
            \A i, k \in 1..n : i < k => RowKey(rows[q[i]]) <= RowKey(rows[q[k]])}}

NormalizeValue(a, b) == IF a.type = "number" /\ b.type = "number"
                        THEN a.num - b.num \in -1..1
                        ELSE a = b

Longer(a, b) == IF Len(a) > Len(b) THEN Len(a) ELSE Len(b)
Shorter(a, b) == IF Len(a) > Len(b) THEN Len(b) ELSE Len(a)

\* Positions that differ; a row the other side has no partner for differs, too.
Differing(a, b, positions) ==
    {i \in 1..positions : i > Len(a) \/ i > Len(b) \/ ~NormalizeValue(a[i], b[i])}
DiffCount(a, b, positions) ==
    LET count == Cardinality(Differing(a, b, positions))
    IN  IF count > DiffCap THEN DiffCap ELSE count

\* What the comparison may come to.
CompareShorter(tsqlOut, pgOut) ==
    {DiffCount(s, t, Shorter(s, t)) : s \in SortRows(tsqlOut), t \in SortRows(pgOut)}
CompareOutputs(tsqlOut, pgOut) ==
    {DiffCount(s, t, Longer(s, t)) : s \in SortRows(tsqlOut), t \in SortRows(pgOut)}

-----------------------------------------------------------------------------
\* What the comparison is to decide.
SameRows(a, b) == /\ Len(a) = Len(b)
                  /\ \E match \in Orders(Len(a)) : \A i \in 1..Len(a) : NormalizeValue(a[i], b[match[i]])
Permuted(a, b) == /\ Len(a) = Len(b)
                  /\ \E match \in Orders(Len(a)) : \A i \in 1..Len(a) : a[i] = b[match[i]]
                  /\ \A v, w \in Range(a) : v.num = w.num => v = w

Init == /\ phase = "read" /\ validator \in {"none", "property", "shadow"}
        /\ left \in (IF validator = "shadow" THEN 0..MaxRounds ELSE {MaxRounds})
        /\ diffs = 0 /\ method = "none" /\ passed = FALSE
        /\ textOrder \in {f \in [Numbers -> 1..Cardinality(Numbers)] :
                             \A m, n \in Numbers : m # n => f[m] # f[n]}
        /\ allSame = TRUE /\ allPermuted = TRUE

Rest == <<validator, left, diffs, textOrder, allSame, allPermuted>>

\* The file is missing, or the model fails or answers nothing.
Fails == /\ phase \in {"read", "convert"} /\ phase' = "failed" /\ UNCHANGED <<Rest, method, passed>>
Read == /\ phase = "read" /\ phase' = "convert" /\ UNCHANGED <<Rest, method, passed>>
Convert == /\ phase = "convert" /\ phase' = (IF validator = "none" THEN "done" ELSE "rounds")
           /\ UNCHANGED <<Rest, method, passed>>

Round == /\ phase = "rounds" /\ left > 0 /\ left' = left - 1
         /\ \E tsqlRows, pgRows \in Results :
                /\ \E count \in CompareOutputs(tsqlRows, pgRows) : diffs' = diffs + count
                /\ allSame' = (allSame /\ SameRows(tsqlRows, pgRows))
                /\ allPermuted' = (allPermuted /\ Permuted(tsqlRows, pgRows))
         /\ UNCHANGED <<phase, validator, textOrder, method, passed>>

\* A runner fails, and the evidence says so.
RunnerFails == /\ phase = "rounds" /\ left > 0 /\ phase' = "done"
               /\ method' = "error" /\ passed' = FALSE /\ UNCHANGED Rest
Report == /\ phase = "rounds" /\ left = 0 /\ phase' = "done"
          /\ method' = "validator" /\ passed' = (diffs = 0) /\ UNCHANGED Rest

Next == Fails \/ Read \/ Convert \/ Round \/ RunnerFails \/ Report
Spec == Init /\ [][Next]_vars

-----------------------------------------------------------------------------
\* Evidence that says passed is right: the validator ran all its rounds, and both
\* sides returned the same rows in each, in whatever order they came.
PassedMeansSame == passed => method = "validator" /\ left = 0 /\ allSame

\* The order of rows is never reported as a difference (CompareOutputs: sorted
\* before they are compared).
OrderIgnored == allPermuted => diffs = 0
=============================================================================
