--------------------------- MODULE SequenceMatcher ---------------------------
(***************************************************************************)
(* difflib.SequenceMatcher of the Python library, as store.py uses it to   *)
(* compare and to align two sequences (of fewer than 200 elements, beyond  *)
(* which it ignores popular ones).  It matches the longest common block,   *)
(* then in the same way what lies before and what lies after it.           *)
(***************************************************************************)
EXTENDS Naturals, FiniteSets, Sequences

\* The common blocks of a from its position box[1] to before box[2] and of b
\* from box[3] to before box[4], each to its end: where it begins, and how long
\* it is.
Blocks(a, b, box) ==
    LET equal == {at \in (box[1] .. box[2] - 1) \X (box[3] .. box[4] - 1) : a[at[1]] = b[at[2]]}
        Size(at) == CHOOSE k \in 1 .. box[2] - at[1] :
                        /\ <<at[1] + k, at[2] + k>> \notin equal
                        /\ \A d \in 1 .. k - 1 : <<at[1] + d, at[2] + d>> \in equal
    IN {<<at[1], at[2], Size(at)>> : at \in equal}

\* find_longest_match: of the longest blocks, the first in a; of those of one
\* place in a, the first in b.
Longest(blocks) ==
    CHOOSE x \in blocks : \A y \in blocks :
        \/ x[3] > y[3]
        \/ x[3] = y[3] /\ x[1] < y[1]
        \/ x[3] = y[3] /\ x[1] = y[1] /\ x[2] <= y[2]

\* get_matching_blocks: the pairs of positions of a and b that match.
Matched(a, b) ==
    LET pairs[box \in Nat \X Nat \X Nat \X Nat] ==
          LET blocks == Blocks(a, b, box)
              x == Longest(blocks)
          IN IF blocks = {} THEN {}
             ELSE {<<x[1] + d, x[2] + d>> : d \in 0 .. x[3] - 1}
                  \cup pairs[<<box[1], x[1], box[3], x[2]>>]
                  \cup pairs[<<x[1] + x[3], box[2], x[2] + x[3], box[4]>>]
    IN pairs[<<1, Len(a) + 1, 1, Len(b) + 1>>]

\* get_opcodes: the pairs of equal positions, and those of a part of a that is
\* replaced by a part of b of the same length.
Aligned(a, b) ==
    LET matched == Matched(a, b)
        fences  == matched \cup {<<0, 0>>, <<Len(a) + 1, Len(b) + 1>>}
    IN matched \cup
       {pair \in (1 .. Len(a)) \X (1 .. Len(b)) :
          \E x, y \in fences :
             /\ x[1] < pair[1] /\ pair[1] < y[1]
             /\ \A z \in fences : z[1] <= x[1] \/ y[1] <= z[1]
             /\ y[1] - x[1] = y[2] - x[2]
             /\ pair[1] - x[1] = pair[2] - x[2]}

\* ratio(), in the given number of parts.
Ratio(a, b, parts) ==
    IF a = <<>> /\ b = <<>> THEN parts
    ELSE (2 * parts * Cardinality(Matched(a, b))) \div (Len(a) + Len(b))

=============================================================================
