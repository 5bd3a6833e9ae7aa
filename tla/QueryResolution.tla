-------------------------- MODULE QueryResolution --------------------------
(***************************************************************************)
(* What resolving one travel query promises (spec 4.4, 4.6 - 4.9), as one *)
(* atomic step:                                                            *)
(*   - the query slicing is a partition of the query into the fewest       *)
(*     slices that match the index, longer slices first on a tie;          *)
(*   - each slice resolves to the first of its retry forms whose match is  *)
(*     sufficient, and to that form's best document;                       *)
(*   - the answer is a ResultHolder of maximal aggregate score, fewer      *)
(*     slices first on a tie, among the slicing and the whole-query        *)
(*     reading; there is none when no holder scores above zero.            *)
(* A query may also end in an index read error or be cancelled.           *)
(***************************************************************************)
EXTENDS StringMatcher, WordPartitions, FiniteSets

CONSTANTS
    Queries,     \* the queries enumerated
    PMissNum,    \* P_miss = PMissNum / PMissDen, the factor of a missed slice
    PMissDen

VARIABLES
    query,       \* the query, a sequence of words
    state,       \* START / BEST_SELECTED / NO_MATCH / INDEX_ERROR / cancelled
    slicing,     \* the slices of the query, once resolved
    answer       \* the best ResultHolder: [slices, results]

avars == <<query, state, slicing, answer>>

States == {"start", "best_selected", "no_match", "index_error", "cancelled"}

NoAnswer == [slices |-> <<>>, results |-> <<>>]

\* The QuerySlices probe: one document holds every (corrected) word.
Probe(buf) == \E d \in Docs : ToSet(Correct(buf)) \subseteq DocTerms[d]

Feasible(g) == Len(g) = 1 \/ Probe(g)

LongerEarlier(p, r) ==
    \E i \in 1..Min({Len(p), Len(r)}) :
        /\ \A j \in 1..(i - 1) : Len(p[j]) = Len(r[j])
        /\ Len(p[i]) > Len(r[i])

OptimalSlicing(q) ==
    LET F == {p \in StringPartition(q) : \A i \in DOMAIN p : Feasible(p[i])}
    IN  CHOOSE p \in F :
            \A r \in F \ {p} : \/ Len(p) < Len(r)
                               \/ Len(p) = Len(r) /\ LongerEarlier(p, r)

\* A slice's MatchingDocuments: the corrected query and its best document.
SliceResult(ph) ==
    LET cs == Candidates(ph)
        ok == {i \in DOMAIN cs : Sufficient(cs[i])}
    IN  IF ok = {} THEN [corrected |-> <<>>, doc |-> NoDoc]
        ELSE [corrected |-> cs[Min(ok)],
              doc       |-> ExtractBestMatchingDocument(cs[Min(ok)])]

Holder(r) == [slices |-> r, results |-> [i \in DOMAIN r |-> SliceResult(r[i])]]

(***************************************************************************)
(* ResultHolder's aggregate score (spec 4.7), an exact fraction: per      *)
(* slice, the best document's percentage of the top weight times the     *)
(* slice's share of the n query words, or P_miss for a slice without a    *)
(* match.                                                                 *)
(***************************************************************************)
Factor(slice, res, n) ==
    IF res.doc = NoDoc THEN [num |-> PMissNum, den |-> PMissDen]
    ELSE [num |-> Raw(res.corrected, res.doc) * Len(slice),
          den |-> TopRaw(res.corrected) * n]

HolderScore(h, n) ==
    FoldLeft(LAMBDA acc, f : [num |-> acc.num * f.num, den |-> acc.den * f.den],
             [num |-> 1, den |-> 1],
             [i \in DOMAIN h.slices |-> Factor(h.slices[i], h.results[i], n)])

Above(x, y) == x.num * y.den > y.num * x.den

\* g is preferred to h: higher score, then fewer slices (spec 4.8).
Preferred(g, h, n) ==
    \/ Above(HolderScore(g, n), HolderScore(h, n))
    \/ /\ ~Above(HolderScore(h, n), HolderScore(g, n))
       /\ Len(g.slices) < Len(h.slices)

Init ==
    /\ query \in Queries
    /\ state = "start"
    /\ slicing = <<>>
    /\ answer = NoAnswer

Resolve ==
    /\ state = "start"
    /\ query # <<>>
    /\ LET n    == Len(query)
           hs   == {Holder(r) : r \in {OptimalSlicing(query), <<query>>}}
           best == {h \in hs : /\ HolderScore(h, n).num > 0
                               /\ \A g \in hs : ~Preferred(g, h, n)}
       IN  /\ slicing' = OptimalSlicing(query)
           /\ IF best = {} THEN state' = "no_match" /\ answer' = NoAnswer
              ELSE \E h \in best : state' = "best_selected" /\ answer' = h
    /\ UNCHANGED query

RejectEmptyQuery ==
    /\ state = "start" /\ query = <<>>
    /\ state' = "no_match"
    /\ UNCHANGED <<query, slicing, answer>>

Fail(outcome) ==
    /\ state = "start"
    /\ state' = outcome
    /\ UNCHANGED <<query, slicing, answer>>

Next == Resolve \/ RejectEmptyQuery \/ Fail("index_error") \/ Fail("cancelled")

SafetySpec == Init /\ [][Next]_avars

\* A query in START is resolved, fails or is cancelled.
Resolved == <>(state # "start")

Spec == SafetySpec /\ WF_avars(Resolve \/ RejectEmptyQuery)

=============================================================================
