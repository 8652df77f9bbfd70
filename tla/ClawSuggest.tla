----------------------------- MODULE ClawSuggest -----------------------------
(***************************************************************************)
(* The two searches for the name a user meant: suggest_field of            *)
(* config_validate.rs and suggest_closest_term of main.rs.  A word is the  *)
(* sequence of its code points.                                            *)
(***************************************************************************)
EXTENDS Integers, Sequences, SequencesExt

Lower(w) == [k \in DOMAIN w |-> IF w[k] \in 65 .. 90 THEN w[k] + 32 ELSE w[k]]
Least(a, b) == IF a <= b THEN a ELSE b

\* The cell of the edit distance table from the cell to the left, the one above and the one
\* above left.
\* Mutant of Cell: the cell above is taken without the cost of a deletion
CellFreeDeletion(left, above, diagonal, same) ==
    Least(Least(above, left + 1), diagonal + (IF same THEN 0 ELSE 1))
Cell(left, above, diagonal, same) ==
    Least(Least(above + 1, left + 1), diagonal + (IF same THEN 0 ELSE 1))
NextRow(previous, char, row, right) ==
    FoldLeft(LAMBDA current, j : Append(current, Cell(current[j], previous[j + 1], previous[j],
                                                      right[j] = char)),
             <<row>>, [j \in DOMAIN right |-> j])
SimpleEditDistance(left, right) ==
    IF left = <<>> THEN Len(right) ELSE IF right = <<>> THEN Len(left)
    ELSE Last(FoldLeft(LAMBDA previous, i : NextRow(previous, left[i], i, right),
                       [j \in 1 .. Len(right) + 1 |-> j - 1], [i \in DOMAIN left |-> i]))

\* The first of the candidates with the smallest distance, if that is at most 3.
SuggestField(input, candidates) ==
    LET distance == [k \in DOMAIN candidates |->
                       SimpleEditDistance(Lower(input), Lower(candidates[k]))]
        near == {k \in DOMAIN candidates : distance[k] <= 3}
    IN  IF near = {} THEN <<>>
        ELSE <<candidates[CHOOSE k \in near :
                 \A j \in near : distance[k] < distance[j] \/ (distance[k] = distance[j] /\ k <= j)]>>

(***************************************************************************)
(* The command line's table takes the cell's own old value, 0 at first, in *)
(* place of the cell to the left: every cell but the first stays 0.        *)
(***************************************************************************)
CliNextRow(previous, current, char, row, right) ==
    [j \in DOMAIN current |->
       IF j = 1 THEN row
       ELSE Least(Least(previous[j] + 1, current[j]),
                  previous[j - 1] + (IF right[j - 1] = char THEN 0 ELSE 1))]
LevenshteinDistance(left, right) ==
    IF left = <<>> THEN Len(right) ELSE IF right = <<>> THEN Len(left)
    ELSE LET zero == [j \in 1 .. Len(right) + 1 |-> 0]
             start == [previous |-> [j \in 1 .. Len(right) + 1 |-> j - 1], current |-> zero]
             Row(t, i) == LET row == CliNextRow(t.previous, t.current, left[i], i, right)
                          IN  [previous |-> row, current |-> row]
         IN  Last(FoldLeft(Row, start, [i \in DOMAIN left |-> i]).previous)

LexBefore(s, t) == \/ IsStrictPrefix(s, t)
                   \/ \E k \in DOMAIN s \cap DOMAIN t :
                         s[k] < t[k] /\ \A j \in 1 .. k - 1 : s[j] = t[j]
WithoutSlashes(w) == LET rest == {k \in DOMAIN w : w[k] # 47}
                     IN  IF rest = {} THEN <<>>
                         ELSE SubSeq(w, CHOOSE k \in rest : \A j \in rest : k <= j, Len(w))
Score(input, candidate) ==
    LET a == Lower(WithoutSlashes(input))
        b == Lower(WithoutSlashes(candidate))
    IN  LevenshteinDistance(a, b) + (IF IsPrefix(a, b) \/ IsPrefix(b, a) THEN 0 ELSE 1)
\* by score, then by name; three at most
RankedSuggestions(input, candidates) ==
    LET close == {c \in candidates : Score(input, c) <= 4}
        ranked == SetToSortSeq(close, LAMBDA c, d :
                     \/ Score(input, c) < Score(input, d)
                     \/ Score(input, c) = Score(input, d) /\ LexBefore(c, d))
    IN  SubSeq(ranked, 1, Least(3, Len(ranked)))
SuggestClosestTerm(input, candidates) ==
    LET ranked == RankedSuggestions(input, candidates)
    IN  IF ranked = <<>> THEN <<>> ELSE <<ranked[1]>>
=============================================================================
