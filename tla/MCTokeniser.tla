---------------------------- MODULE MCTokeniser ----------------------------
EXTENDS Tokeniser

\* Two letters, the word separator and one other separator of lSepatorList.
MCChars == {"a", "b", " ", "."}
MCSeparators == {" ", "."}
MCCharRank == [c \in MCChars |-> CASE c = " " -> 32 [] c = "." -> 46
                                   [] c = "a" -> 97 [] c = "b" -> 98]
=============================================================================
