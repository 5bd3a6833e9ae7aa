\* One builder, readers: what a reader can open while the build runs.
CONSTANTS
  k1 = k1  k2 = k2  t1 = t1  t2 = t2  t3 = t3  b1 = b1  b2 = b2
  Builders = {b1}
  Readers = {r1, r2}
  Keys = {k1, k2}
  Terms = {t1, t2, t3}
  NotAvailable = NotAvailable
  Missing = Missing
  NoDB = NoDB
  TermsOf <- MCTermsOf
  PORFile <- MCPORFileOne
  OldPORFile <- MCOldPORFile
  StoreFailure = FALSE
  PageRankOf <- MCPageRankOf
SPECIFICATION Spec
INVARIANT ReadersSeeCommittedIndex
