CONSTANTS
    Words <- MCWords
    Docs = {1, 2, 3, 4}
    NoDoc = 0
    DocTerms <- MCDocTerms
    PageRank <- MCPageRank
    Suggest <- MCSuggest
    TExact = 50
    Queries <- MCQueries
    PMissNum = 1
    PMissDen = 10
SPECIFICATION Spec
CHECK_DEADLOCK FALSE
INVARIANT
    BestHolderHasAMatch
