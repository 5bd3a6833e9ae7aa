--------------------------- MODULE StringMatcher ---------------------------
(***************************************************************************)
(* The read side of the Xapian index and the static helpers of            *)
(* StringMatcher (StringMatcher.hpp): the retry forms of a phrase tried by *)
(* searchString, removeFurthestRightWord / removeFurthestLeftWord, and     *)
(* extractBestMatchingDocumentFromMSet.  Only the declarations are in      *)
(* src/; the behaviour is that of spec 4.6, which the declarations'        *)
(* comments summarise.                                                     *)
(*                                                                         *)
(* The index is abstracted to the term set of each document, its page     *)
(* rank and the top suggestion of the spelling dictionary for each word.   *)
(* An OR-query weighs a document by the number of distinct query terms it  *)
(* holds; its estimated relevance is that weight over the number of        *)
(* distinct query terms.                                                   *)
(***************************************************************************)
EXTENDS Naturals, SequencesExt

CONSTANTS
    Words,       \* the words a query is made of
    Docs,        \* Xapian docids, a set of positive integers
    NoDoc,       \* no matching document (0)
    DocTerms,    \* Docs -> SUBSET Words: the indexed terms of each document
    PageRank,    \* Docs -> Nat
    Suggest,     \* Words -> Words: top spelling suggestion (edit distance <= 2)
    TExact       \* T_exact, as a percentage

ASSUME /\ Docs \subseteq (Nat \ {0}) /\ NoDoc = 0
       /\ DocTerms \in [Docs -> SUBSET Words]
       /\ Suggest \in [Words -> Words]

Phrase == Seq(Words)

\* The phrase with each word replaced by its spelling suggestion.
Correct(ph) == [i \in DOMAIN ph |-> Suggest[ph[i]]]

\* Weight of document d for the OR-query over the terms of ph.
Raw(ph, d) == Cardinality(ToSet(ph) \cap DocTerms[d])

Matching(ph) == {d \in Docs : Raw(ph, d) > 0}

TopRaw(ph) == IF Matching(ph) = {} THEN 0
              ELSE Max({Raw(ph, d) : d \in Matching(ph)})

\* The best estimated relevance reaches T_exact.
Sufficient(ph) ==
    /\ ph # <<>>
    /\ TopRaw(ph) * 100 >= TExact * Cardinality(ToSet(ph))

(***************************************************************************)
(* removeFurthestRightWord / removeFurthestLeftWord, applied k times.      *)
(***************************************************************************)
RemoveFurthestRightWords(ph, k) == SubSeq(ph, 1, Len(ph) - k)
RemoveFurthestLeftWords(ph, k) == SubSeq(ph, k + 1, Len(ph))

(***************************************************************************)
(* The forms searchString tries, in order: the phrase, its spelling       *)
(* correction, then the corrected phrase shrunk by one word more at each   *)
(* round, from the right first and then from the left (spec 4.6, 1-3).    *)
(***************************************************************************)
Candidates(ph) ==
    LET cp == Correct(ph)
    IN  <<ph, cp>> \o
        FlattenSeq([k \in 1..(Len(ph) - 1) |->
                      <<RemoveFurthestRightWords(cp, k),
                        RemoveFurthestLeftWords(cp, k)>>])

(***************************************************************************)
(* extractBestMatchingDocumentFromMSet: the highest weight, then the       *)
(* higher page rank, then the lower docid (spec 4.6, 5).                   *)
(***************************************************************************)
RanksAbove(ph, d, e) ==
    \/ Raw(ph, d) > Raw(ph, e)
    \/ Raw(ph, d) = Raw(ph, e) /\ PageRank[d] > PageRank[e]
    \/ Raw(ph, d) = Raw(ph, e) /\ PageRank[d] = PageRank[e] /\ d < e

ExtractBestMatchingDocument(ph) ==
    IF Matching(ph) = {} THEN NoDoc
    ELSE CHOOSE d \in Matching(ph) :
             \A e \in Matching(ph) \ {d} : RanksAbove(ph, d, e)

=============================================================================
