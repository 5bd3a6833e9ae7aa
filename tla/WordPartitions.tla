--------------------------- MODULE WordPartitions ---------------------------
(***************************************************************************)
(* StringPartition (spec 4.2): every ordered partition of a sequence of    *)
(* words into contiguous, non-empty groups.  A group is a sequence of      *)
(* words.  Used for the word combinations of a phrase (Tokeniser) and as   *)
(* the space of slicings of a query (QueryResolution).                     *)
(***************************************************************************)
EXTENDS Naturals, Sequences

RECURSIVE StringPartition(_)
StringPartition(ws) ==
    IF ws = <<>> THEN {<<>>}
    ELSE UNION { { <<SubSeq(ws, 1, k)>> \o rest :
                     rest \in StringPartition(SubSeq(ws, k + 1, Len(ws))) } :
                 k \in 1..Len(ws) }

=============================================================================
