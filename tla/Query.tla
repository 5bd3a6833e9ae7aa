------------------------------- MODULE Query -------------------------------
(***************************************************************************)
(* The per-query pipeline of spec 4.9, one retry at a time:               *)
(*   START -> SLICED -> per slice: QUERIED -> CORRECTED -> SHRUNK ...      *)
(*         -> COMBINED -> BEST_SELECTED | NO_MATCH                         *)
(* QuerySlices probes the index greedily, left to right (spec 4.4).  One   *)
(* ResultHolder is built for the slicing and one for the whole-query       *)
(* reading (spec 4.8).  StringMatcher::searchString tries the retry forms  *)
(* of each slice in order.  ResultCombination::                            *)
(* chooseBestMatchingResultHolder walks the holder list keeping the best   *)
(* and returns whether there is one (ResultCombination.hpp).  A read of    *)
(* the index may fail; the query may be cancelled between retries and      *)
(* between slices (spec 5).                                                *)
(***************************************************************************)
EXTENDS StringMatcher

CONSTANTS Queries, PMissNum, PMissDen

VARIABLES
    query,     \* the travel query
    phase,     \* where the pipeline is
    holders,   \* the readings: holders[i] is a sequence of slices
    h,         \* the holder being searched
    s,         \* the slice being searched
    c,         \* the retry form of the slice being tried
    results,   \* results[i]: the MatchingDocuments of holder i, per slice
    best       \* _bestMatchingResultHolder: an index of holders, 0 if none

vars == <<query, phase, holders, h, s, c, results, best>>

Phases == {"start", "searching", "combined",
           "best_selected", "no_match", "index_error", "cancelled"}

(***************************************************************************)
(* The refinement mapping to QueryResolution: a query in progress is     *)
(* still START; the slicing and the answer appear when it is resolved.     *)
(***************************************************************************)
AbsState == IF phase \in {"start", "searching", "combined"} THEN "start" ELSE phase

AbsSlicing == IF phase \in {"best_selected", "no_match"} /\ holders # <<>>
              THEN holders[1] ELSE <<>>

AbsAnswer == IF phase = "best_selected"
             THEN [slices |-> holders[best], results |-> results[best]]
             ELSE [slices |-> <<>>, results |-> <<>>]

QR == INSTANCE QueryResolution
        WITH state <- AbsState, slicing <- AbsSlicing, answer <- AbsAnswer

(***************************************************************************)
(* QuerySlices: grow the buffer one word at a time while the index still  *)
(* has a document with all its words; otherwise close the slice at the    *)
(* previous word and restart from the word that did not fit.              *)
(***************************************************************************)
RECURSIVE SliceFrom(_, _, _)
SliceFrom(rest, buf, acc) ==
    IF rest = <<>> THEN (IF buf = <<>> THEN acc ELSE Append(acc, buf))
    ELSE IF buf = <<>> THEN SliceFrom(Tail(rest), <<Head(rest)>>, acc)
    ELSE IF QR!Probe(Append(buf, Head(rest)))
         THEN SliceFrom(Tail(rest), Append(buf, Head(rest)), acc)
         ELSE SliceFrom(rest, <<>>, Append(acc, buf))

QuerySlices(q) == SliceFrom(q, <<>>, <<>>)

CurrentSlice == holders[h][s]
Cands == Candidates(CurrentSlice)

Record(r) == results' = [results EXCEPT ![h] = Append(@, r)]

\* Mutant: the last slice of a holder is followed by a slice past its end.
NextSliceOffByOne ==
    IF s <= Len(holders[h]) THEN s' = s + 1 /\ h' = h /\ c' = 1 /\ UNCHANGED phase
    ELSE IF h < Len(holders) THEN h' = h + 1 /\ s' = 1 /\ c' = 1 /\ UNCHANGED phase
    ELSE phase' = "combined" /\ UNCHANGED <<h, s, c>>

\* Move to the next slice of the holder, the next holder, or combine.
NextSlice ==
    IF s < Len(holders[h]) THEN s' = s + 1 /\ h' = h /\ c' = 1 /\ UNCHANGED phase
    ELSE IF h < Len(holders) THEN h' = h + 1 /\ s' = 1 /\ c' = 1 /\ UNCHANGED phase
    ELSE phase' = "combined" /\ UNCHANGED <<h, s, c>>

Init ==
    /\ query \in Queries
    /\ phase = "start"
    /\ holders = <<>>
    /\ h = 1 /\ s = 1 /\ c = 1
    /\ results = <<>>
    /\ best = 0

\* An empty query is an InvalidQuery: an empty result (spec 7).
RejectEmptyQuery ==
    /\ phase = "start" /\ query = <<>>
    /\ phase' = "no_match"
    /\ UNCHANGED <<query, holders, h, s, c, results, best>>

SliceQuery ==
    /\ phase = "start" /\ query # <<>>
    /\ LET qs == QuerySlices(query)
           readings == IF qs = <<query>> THEN <<qs>> ELSE <<qs, <<query>>>>
       IN  /\ holders' = readings
           /\ results' = [i \in DOMAIN readings |-> <<>>]
    /\ phase' = "searching"
    /\ h' = 1 /\ s' = 1 /\ c' = 1
    /\ UNCHANGED <<query, best>>

\* searchString: the current retry form matches well enough.
QueryCandidate ==
    /\ phase = "searching"
    /\ Sufficient(Cands[c])
    /\ Record([corrected |-> Cands[c],
               doc |-> ExtractBestMatchingDocument(Cands[c])])
    /\ NextSlice
    /\ UNCHANGED <<query, holders, best>>

\* searchString: correct, or shrink, and retry.
RetryCandidate ==
    /\ phase = "searching"
    /\ ~Sufficient(Cands[c])
    /\ c < Len(Cands)
    /\ c' = c + 1
    /\ UNCHANGED <<query, phase, holders, h, s, results, best>>

\* searchString: no retry form is left; the slice has no match.
SliceMissed ==
    /\ phase = "searching"
    /\ ~Sufficient(Cands[c])
    /\ c = Len(Cands)
    /\ Record([corrected |-> <<>>, doc |-> NoDoc])
    /\ NextSlice
    /\ UNCHANGED <<query, holders, best>>

HolderAt(i) == [slices |-> holders[i], results |-> results[i]]

\* Mutant: the comparison of the walk is inverted.
ChooseBestInverted ==
    LET n == Len(query)
        keep(b, i) == IF /\ QR!HolderScore(HolderAt(i), n).num > 0
                         /\ b = 0 \/ QR!Preferred(HolderAt(b), HolderAt(i), n)
                      THEN i ELSE b
    IN  FoldLeft(keep, 0, [i \in DOMAIN holders |-> i])

\* Mutant: the walk keeps the first holder with a non-zero score.
ChooseBestFirstMatch ==
    LET n == Len(query)
        keep(b, i) == IF b = 0 /\ QR!HolderScore(HolderAt(i), n).num > 0
                      THEN i ELSE b
    IN  FoldLeft(keep, 0, [i \in DOMAIN holders |-> i])

\* The walk over _resultHolderList: a holder with a non-zero score replaces
\* the best so far when it is preferred to it.
ChooseBest ==
    LET n == Len(query)
        keep(b, i) == IF /\ QR!HolderScore(HolderAt(i), n).num > 0
                         /\ b = 0 \/ QR!Preferred(HolderAt(i), HolderAt(b), n)
                      THEN i ELSE b
    IN  FoldLeft(keep, 0, [i \in DOMAIN holders |-> i])

ChooseBestMatchingResultHolder ==
    /\ phase = "combined"
    /\ best' = ChooseBest
    /\ phase' = IF best' # 0 THEN "best_selected" ELSE "no_match"
    /\ UNCHANGED <<query, holders, h, s, c, results>>

\* Corrupt or unreadable index: IndexReadError, fatal to the query.
IndexReadError ==
    /\ \/ phase = "searching"
       \/ phase = "start" /\ query # <<>>
    /\ phase' = "index_error"
    /\ UNCHANGED <<query, holders, h, s, c, results, best>>

\* Cooperative cancellation between retries and between slices.
Cancel ==
    /\ phase = "searching"
    /\ phase' = "cancelled"
    /\ UNCHANGED <<query, holders, h, s, c, results, best>>

Step ==
    \/ RejectEmptyQuery \/ SliceQuery \/ QueryCandidate \/ RetryCandidate
    \/ SliceMissed \/ ChooseBestMatchingResultHolder

Next == Step \/ IndexReadError \/ Cancel

\* A query runs in one thread to its end unless it fails or is cancelled.
Spec == Init /\ [][Next]_vars /\ WF_vars(Step)

-----------------------------------------------------------------------------
MatchingDocumentsType == [corrected : Seq(Words), doc : Docs \cup {NoDoc}]

TypeOK ==
    /\ query \in Queries
    /\ phase \in Phases
    /\ holders \in Seq(Seq(Seq(Words)))
    /\ results \in [DOMAIN holders -> Seq(MatchingDocumentsType)]
    /\ best \in 0..Len(holders)
    /\ phase = "searching" =>
          /\ h \in DOMAIN holders
          /\ s \in DOMAIN holders[h]
          /\ c \in DOMAIN Candidates(holders[h][s])
          /\ Len(results[h]) = s - 1

(***************************************************************************)
(* The stepwise pipeline implements QueryResolution: greedy slicing gives *)
(* the optimal slicing, the retries give each slice its first sufficient  *)
(* form, the walk of chooseBestMatchingResultHolder gives a maximal       *)
(* holder, a failed or cancelled query reports no answer, and every query *)
(* is eventually resolved unless it fails or is cancelled.                *)
(***************************************************************************)
\* QR!Spec's weak fairness of a step that is enabled in every START state
\* makes it equivalent to its safety part and QR!Resolved.
ImplementsQueryResolution == QR!SafetySpec /\ QR!Resolved

(***************************************************************************)
(* A consequence of ResultHolder's score (spec 4.7) for                   *)
(* chooseBestMatchingResultHolder: the best document of a slice is the    *)
(* top document, at 100%, so a matched slice weighs its share of the      *)
(* query words and a matched whole-query reading scores 1; a QuerySlices  *)
(* reading of two or more slices scores less, and when the whole reading  *)
(* misses, so does the first slice.  The holder chosen is never the       *)
(* QuerySlices reading when a whole-query reading is listed beside it.    *)
(***************************************************************************)
WholeReadingPrevails ==
    phase = "best_selected" /\ Len(holders) = 2 => best = 2

(***************************************************************************)
(* chooseBestMatchingResultHolder returns "whether or not a best matching *)
(* ResultHolder exists" (ResultCombination.hpp), and a query whose slices  *)
(* all come back empty ends in NO_MATCH (spec 4.9, 8 boundary): a selected *)
(* holder has at least one slice with a document.                          *)
(***************************************************************************)
BestHolderHasAMatch ==
    phase = "best_selected" =>
        \E j \in DOMAIN results[best] : results[best][j].doc # NoDoc

=============================================================================
