----------------------------- MODULE Tokeniser -----------------------------
(***************************************************************************)
(* The term generation helpers of IndexBuilder.cpp:                        *)
(*   tokeniseAndAddToDocument     boost::tokenizer over a separator list, *)
(*                                 one add_spelling and one add_term per   *)
(*                                 token;                                  *)
(*   tokeniseAndAddToDocumentNew  the same, applied to every entry of the *)
(*                                 WordCombinationHolder of the phrase.    *)
(* StringPartition and WordCombinationHolder are declared in headers that  *)
(* are not part of src/; they are modelled from their contract.            *)
(* Neither helper is called by buildSearchIndex (nor anywhere else in      *)
(* src/): the index terms come from Place::buildIndexSets and addToXapian. *)
(*                                                                         *)
(* A phrase is a sequence of characters.  The module is a one-shot state   *)
(* machine: a phrase is chosen, the document is empty, and one call of     *)
(* tokeniseAndAddToDocumentNew fills its term set and the spelling         *)
(* dictionary of the database.                                             *)
(***************************************************************************)
EXTENDS Naturals, SequencesExt, TLC, WordPartitions

CONSTANTS
    Chars,        \* the characters a phrase is made of
    Separators,   \* lSepatorList, a subset of Chars
    Space,        \* the word separator of StringPartition
    CharRank,     \* Chars -> Nat, the byte order of std::string comparison
    MaxLen        \* the longest phrase enumerated

ASSUME Space \in Separators /\ Separators \subseteq Chars
ASSUME CharRank \in [Chars -> Nat]

Phrases == UNION {[1..n -> Chars] : n \in 0..MaxLen}

VARIABLES
    phrase,       \* iPhrase
    done,         \* the call has returned
    terms,        \* the term set of ioDocument
    spelling      \* the spelling dictionary of ioDatabase, a bag of words

vars == <<phrase, done, terms, spelling>>

(***************************************************************************)
(* boost::char_separator with its default empty_tokens = drop_empty_tokens *)
(* scans left to right: a separator ends the current token, which is      *)
(* emitted only when it is not empty; the end of input does the same.     *)
(***************************************************************************)
\* Mutant: a char_separator built with keep_empty_tokens.
RECURSIVE SplitAccKeepEmpty(_, _, _, _)
SplitAccKeepEmpty(s, seps, cur, acc) ==
    IF s = <<>> THEN Append(acc, cur)
    ELSE IF Head(s) \in seps
         THEN SplitAccKeepEmpty(Tail(s), seps, <<>>, Append(acc, cur))
         ELSE SplitAccKeepEmpty(Tail(s), seps, Append(cur, Head(s)), acc)

RECURSIVE SplitAcc(_, _, _, _)
SplitAcc(s, seps, cur, acc) ==
    LET flushed == IF cur = <<>> THEN acc ELSE Append(acc, cur)
    IN  IF s = <<>> THEN flushed
        ELSE IF Head(s) \in seps THEN SplitAcc(Tail(s), seps, <<>>, flushed)
        ELSE SplitAcc(Tail(s), seps, Append(cur, Head(s)), acc)

Split(s, seps) == SplitAcc(s, seps, <<>>, <<>>)

\* Tokeniser_T lTokens (iPhrase, lSepatorList)
Tokenise(s) == Split(s, Separators)

(***************************************************************************)
(* The words of a phrase, as StringPartition splits it (its partitions    *)
(* are WordPartitions!StringPartition).                                   *)
(***************************************************************************)
Words(s) == Split(s, {Space})

\* A sub-phrase as a string: its words joined by one space.
RECURSIVE JoinWords(_)
JoinWords(ws) ==
    IF Len(ws) <= 1 THEN FlattenSeq(ws)
    ELSE Head(ws) \o <<Space>> \o JoinWords(Tail(ws))

\* std::string operator<: byte-wise lexicographic order.
RECURSIVE StrLess(_, _)
StrLess(a, b) ==
    \/ a = <<>> /\ b # <<>>
    \/ /\ a # <<>> /\ b # <<>>
       /\ \/ CharRank[Head(a)] < CharRank[Head(b)]
          \/ Head(a) = Head(b) /\ StrLess(Tail(a), Tail(b))

\* The order of WordCombinationHolder::_list: more words first, then the
\* joined strings in lexicographic order.
CombinationBefore(c, d) ==
    \/ Len(c) > Len(d)
    \/ Len(c) = Len(d) /\ StrLess(JoinWords(c), JoinWords(d))

(***************************************************************************)
(* WordCombinationHolder (iPhrase)._list: the distinct groups of all the  *)
(* partitions, sorted.                                                    *)
(***************************************************************************)
WordCombinations(ws) ==
    LET groups == UNION { ToSet(p) : p \in StringPartition(ws) }
    IN  SetToSortSeq(groups, CombinationBefore)

(***************************************************************************)
(* tokeniseAndAddToDocument: each token is added to the spelling          *)
(* dictionary (frequency + 1) and to the document's term set.             *)
(***************************************************************************)
\* Mutant: add_spelling without add_term.
TokeniseAndAddToDocumentSpellingOnly(s, doc) ==
    [terms    |-> doc.terms,
     spelling |-> doc.spelling (+) ToBag(Tokenise(s))]

TokeniseAndAddToDocument(s, doc) ==
    [terms    |-> doc.terms \cup ToSet(Tokenise(s)),
     spelling |-> doc.spelling (+) ToBag(Tokenise(s))]

Init ==
    /\ phrase \in Phrases
    /\ done = FALSE
    /\ terms = {}
    /\ spelling = EmptyBag

(***************************************************************************)
(* tokeniseAndAddToDocumentNew: every word combination, in list order, is *)
(* tokenised again and added; the combination itself is not a term.       *)
(***************************************************************************)
\* Mutant: the commented-out add_term / add_spelling of the whole
\* combination are enabled.
TokeniseAndAddToDocumentNewWithCombination ==
    LET add(d, c) == LET t == TokeniseAndAddToDocument(JoinWords(c), d)
                     IN  [terms    |-> t.terms \cup {JoinWords(c)},
                          spelling |-> t.spelling (+) SetToBag({JoinWords(c)})]
        doc == FoldLeft(add, [terms |-> terms, spelling |-> spelling],
                        WordCombinations(Words(phrase)))
    IN  /\ ~done
        /\ done' = TRUE
        /\ terms' = doc.terms
        /\ spelling' = doc.spelling
        /\ UNCHANGED phrase

TokeniseAndAddToDocumentNew ==
    LET doc == FoldLeft(LAMBDA d, c : TokeniseAndAddToDocument(JoinWords(c), d),
                        [terms |-> terms, spelling |-> spelling],
                        WordCombinations(Words(phrase)))
    IN  /\ ~done
        /\ done' = TRUE
        /\ terms' = doc.terms
        /\ spelling' = doc.spelling
        /\ UNCHANGED phrase

Next == TokeniseAndAddToDocumentNew

Spec == Init /\ [][Next]_vars

-----------------------------------------------------------------------------
TypeOK ==
    /\ phrase \in Phrases
    /\ done \in BOOLEAN
    /\ terms \subseteq (Seq(Chars \ Separators) \ {<<>>})
    /\ IsABag(spelling) /\ BagToSet(spelling) = terms

(***************************************************************************)
(* Reference definition of the tokens of a phrase: the maximal runs of    *)
(* non-separator characters, in the order they start.                     *)
(***************************************************************************)
RunStarts(s) ==
    {i \in 1..Len(s) : s[i] \notin Separators /\ (i = 1 \/ s[i - 1] \in Separators)}

RunEnd(s, i) ==
    CHOOSE j \in i..Len(s) : /\ \A k \in i..j : s[k] \notin Separators
                            /\ (j = Len(s) \/ s[j + 1] \in Separators)

RefTokens(s) ==
    LET st == SetToSortSeq(RunStarts(s), <)
    IN  [k \in DOMAIN st |-> SubSeq(s, st[k], RunEnd(s, st[k]))]

(***************************************************************************)
(* The boost tokenizer of tokeniseAndAddToDocument yields exactly the     *)
(* maximal runs of non-separators of the phrase, in order: no empty term, *)
(* nothing lost at either end or between adjacent separators (spec 4.1).  *)
(***************************************************************************)
TokensAreMaximalRuns == Tokenise(phrase) = RefTokens(phrase)

(***************************************************************************)
(* After tokeniseAndAddToDocumentNew the document's terms are exactly the *)
(* tokens of the phrase itself: re-tokenising the word combinations adds  *)
(* no term the phrase does not have and loses none it has.                *)
(***************************************************************************)
DocumentTermsAreTokens ==
    done => terms = ToSet(Tokenise(phrase))

=============================================================================
