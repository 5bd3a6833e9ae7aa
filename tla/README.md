# TLA+ models of OpenTREP

This directory holds TLA+ specifications of OpenTREP, a travel search engine for
points of reference (POR). It covers the parts of the repository under `src/`
and the parts of the query pipeline that `spec.md` describes. Each module is
translated from the source. `PROJECT.json` maps every definition to the lines
it models and lists the TLC runs, the mutants, the findings and the hazards.

## 1. Inventory

### Components and their state

| Component | Source | State it keeps | Operations |
|---|---|---|---|
| IndexBuilder | `src/opentrep/command/IndexBuilder.cpp` | the Xapian index directory (database, transaction, next docid); one reused `Place` object; the entry count | `buildSearchIndex` (remove_all, DB_CREATE, begin_transaction, file check, one step per POR line, commit); `addDocumentToIndex`; `addToXapian`; the helpers `tokeniseAndAddToDocument(New)` (not called by the build) |
| Index readers | query side of the service (not in `src/`) | an open read handle on one revision of the directory | open and close the directory; search (see StringMatcher) |
| StringMatcher | `src/opentrep/bom/StringMatcher.hpp` (declaration only) | per-slice `MatchingDocuments`: corrected query, weighted results, best document | `searchString` (exact query, spelling correction, then shrinking the phrase from the right and the left), `extractBestMatchingDocumentFromMSet`, `removeFurthestRightWord/LeftWord` |
| ResultCombination / ResultHolder | `src/opentrep/bom/ResultCombination.hpp` (declaration only) | the list of ResultHolders for one query and a pointer to the best one | `chooseBestMatchingResultHolder` (returns whether one exists), `getBestMatchingResultHolder` (throws NoBestMatch) |
| QuerySlices | tested by `src/test/opentrep/SliceTestSuite.cpp` | the slices of a query | slicing a query left to right by probing the index |
| opentrep-dbmgr | `src/opentrep/ui/cmdline/opentrep-dbmgr.cpp` | session state (configuring, running, ended); the SQL connection string held by the service | `readConfiguration`; the read-line loop; `extractCommand`; `extractTokenListFor*` (regular expressions); `parsePlaceKey`; one case per command |
| FacOpenTrepServiceContext | `src/opentrep/factory/FacOpenTrepServiceContext.hpp` | singleton factory | create a service context |
| locale_less test | `src/test/localization_test.cpp` | — | unrelated to the search core |

### How they interact

- **Index build and queries share the index directory on disk.** There is no
  other shared state between them. The builder owns the only
  `WritableDatabase`. Query processes open `Xapian::Database` handles on the
  same path and read the revision they opened. The spec (section 5) asks for
  one writer and many readers, with readers seeing the previous committed
  index until the build's single commit.
- **A query runs as a chain of calls in one thread:** QuerySlices, then
  StringMatcher for each slice, then ResultHolder, then ResultCombination.
- **The CLI calls the service synchronously,** one command per line read.

### What is hard

- **Concurrency between a build and its readers,** and between two builds.
  The code deletes the directory (`remove_all`) before it takes Xapian's write
  lock, and before it checks that the POR file exists.
- **Partial failure:** `add_document` can throw in the middle of the file. The
  transaction is then cancelled by the destructor, but the old index is
  already gone.
- **Reused mutable state:** one `Place` object serves every line. Its term
  sets must be reset after each document.
- **Numeric and parsing edges in the CLI:** regular expressions with nested
  groups, a failed match read through an `unsigned short` loop, and a Geoname
  ID regex that accepts more digits than `GeonamesID_T` holds.
- **Query resolution:** the retry order in
  `searchString`, the tie-break among equally scored documents, and the
  choice among slicings.

### Properties that make each component correct

- **IndexBuilder:**
  - the directory only ever holds no database, an empty one, or a complete
    build;
  - each document carries exactly its own Place's terms;
  - the returned count equals the published documents;
  - every build ends;
  - readers see the old or the new index (spec);
  - a missing POR file leaves the old index (spec).
- **opentrep-dbmgr:**
  - a list_by_* command asks for exactly the typed code when it is well formed,
    and for the default otherwise;
  - the service is never asked for an empty key;
  - quit, in any case, ends the session;
  - an accepted Geoname ID is the one looked up;
  - the connection string is never emptied.
- **StringMatcher:**
  - the corrected query is one of the retried forms, tried in the documented
    order;
  - the best document has the maximal score, with ties broken
    deterministically;
  - percentages are at most 100.
- **ResultCombination:**
  - `chooseBestMatchingResultHolder` returns TRUE exactly when a best holder
    is set;
  - the chosen holder has the maximal aggregate score.
- **QuerySlices:** the slices cover the query, in order and without overlap.

## 2. Plan

Modules, in order of importance:

1. **`IndexBuild`** (done): the whole of `buildSearchIndex` with
   concurrent builders and readers.
2. **`DbMgr`** (done): the opentrep-dbmgr session loop and its argument
   parsing.
3. **`Tokeniser`** (done): `tokeniseAndAddToDocument(New)`, with the separator
   set and the word combinations. These are pure operators (RECURSIVE), checked
   against reference definitions over bounded inputs: tokens are the maximal
   runs of non-separators, and the document gets exactly the phrase's tokens.
4. **`StringMatcher`** (done): the read side of the index and the static
   helpers of `StringMatcher`: the retry forms of `searchString`,
   `removeFurthestRightWord/LeftWord` and `extractBestMatchingDocumentFromMSet`.
   Only the header is in `src/`, so these helpers are modelled from the spec
   and marked `spec_modelled` in the map; the header's declarations and
   comments are not counted as code they translate.
5. **`QueryResolution`** (done): the abstract specification of one query. In a
   single atomic step it finds the optimal slicing, each slice's first
   sufficient form, and a maximal-score holder, or it ends in failure or
   cancellation.
6. **`Query`** (done): QuerySlices, the per-slice retries, the holder list and
   `chooseBestMatchingResultHolder`, one step at a time, with index errors and
   cancellation. It is shown to implement `QueryResolution` through
   `INSTANCE ... WITH`.

## 3. Modules and how they correspond to the code

### `IndexBuild` (IndexBuilder.cpp)

**State.**

- `disk`: the committed content of the index directory. It is `NoDB`, or a
  sequence of documents where document i has Xapian docid i.
- `dirGen`: the generation of the directory. `remove_all` makes a new one.
- `bld[b]`: one builder running `buildSearchIndex`. It holds:
  - its program point;
  - the generation its database handle was opened in;
  - its uncommitted documents;
  - the current line;
  - `oNbOfEntries`;
  - the reused `Place`;
  - the outcome.
- `rdr[r]`: whether reader r has the index open, the revision it opened,
  and the result of its last search.

**Actions**, in code order:

- `RemoveIndexDirectory`: `remove_all`, `create_directories`.
- `CreateDatabase`: DB_CREATE. It throws if a database already exists.
- `BeginAndCheckPORFile`: `begin_transaction`, the file check that throws
  `FileNotFoundException`, and `FacPlace::create`.
- `SkipLine`: a NotAvailable line.
- `IndexLine`: `setLocation`, `addDocumentToIndex` (`buildIndexSets`,
  `addToXapian`, `add_document`, `setDocID`), `++oNbOfEntries`, and the reset
  of the Place. These are one step, as in the code.
- `AddDocumentFails`: a Xapian exception. The destructor cancels the
  transaction.
- `CommitBuild`: `commit_transaction`, `close`, return.
- `OpenIndex` and `CloseIndex`: readers.
- `Search(r, t)`: a one-term query on the revision reader r opened. It runs
  through `SM(s)`, an instance of `StringMatcher` whose documents, terms and
  page ranks are those of the revision `s`. The Place found is read back
  from the document's data.

**Document data.** `addDocumentToIndex` calls `set_data(toString())` before
`buildIndexSets` and `setDocID`. A document's data is modelled as the Place
key it serialises. The caller's `setLocation` has already set that key when
the data is written. Whether `Place::toString` also writes the docid (which
would then be the previous document's) or the index sets (which would then be
empty) cannot be read from `src/`, and nothing in `src/` reads them back.

**Abstraction.**

- A POR line is its Place key, or `NotAvailable`.
- Parsing is `PORStringParser`, which is not in `src/`. Its only effect here
  is that key.
- A Place's term set is the constant `TermsOf[key]`. It stands for
  `Place::buildIndexSets`, which is not in `src/`.
- A database handle opened in an older generation commits into removed files.
  The directory does not change. This is POSIX unlink semantics for files
  still held open.

### `DbMgr` (opentrep-dbmgr.cpp)

**State:**

- `session`: configuring, running or ended;
- `connStr`: the SQL connection string given to the service;
- `lookup`: the last `listBy*` call;
- `lastLine`: a history variable holding the last line read.

**Actions:**

- `ReadConfiguration`: `--help`, `--version` and `--prefix` return early.
- One action per command case of the loop: `EndOfInput`, `Quit`,
  `ListByIata/Icao/Faa` (through `ListByCode`), `ListByGeonameID`, `ListAll`,
  `ResetConnectionString`, `PrintCommand` (help, info, tutorial), `ListNb`,
  `CreateUser`, `ServiceCommand` (create_tables, create_indexes,
  fill_from_por_file) and `OtherCommand` (nop, and the default case, which
  `list_cont` also reaches because the switch has no case for it).

**Data.** An argument is a sequence of characters drawn from small
`[[:alpha:]]`, `[[:digit:]]` and other sets. The regular expressions are
operators that return their marked groups: the ICAO and FAA expressions have
an inner group.

**Undefined behaviour.** A failed match is a nondeterministic choice between
the outcomes boost can give (`what.size()` of 0 with a wrapping index, or the
group count). Both give empty tokens only.

**Numbers.** `boost::lexical_cast<GeonamesID_T>` is modelled exactly, as a
decimal comparison with `GeonamesIDMax` on digit strings. This avoids TLC's
32-bit integers. The MC module sets it to 4294967295, taking `GeonamesID_T`
to be `unsigned int` as OpenTREP's `OPENTREP_Types.hpp` declares it. That
header is not in `src/`.

### `Tokeniser` (IndexBuilder.cpp:29-78)

**State:** `phrase` (iPhrase), `done`, `terms` (the document's term set) and
`spelling` (the database's spelling dictionary, a bag: `add_spelling` adds 1 to
a word's frequency). One action, `TokeniseAndAddToDocumentNew`, is the whole
call. It folds `TokeniseAndAddToDocument` over the word combinations in list
order. Nothing in `src/` calls either helper: `buildSearchIndex` takes its
terms from `Place::buildIndexSets` through `addToXapian`, so this module
describes dead code.

**Operators:**

- `SplitAcc` is boost's `char_separator` scan with `drop_empty_tokens`.
  `Tokenise` applies it with the separator list and `Words` with the space.
- `StringPartition`, `WordCombinations` (distinct groups, more words first, then
  `std::string` order via `CharRank`) and `JoinWords` are modelled from spec
  4.2, 4.3 and 8, because neither class is in the repository.

A character is a one-letter string. The alphabet holds two letters, the space
and `.`, which stands for the rest of `lSepatorList`.

### `WordPartitions`

`StringPartition` as a RECURSIVE operator: every split of a word sequence into
non-empty contiguous groups. `Tokeniser` uses it, and so does the optimal
slicing of `QueryResolution`.

### `StringMatcher` (StringMatcher.hpp:34-72)

**Index abstraction.** The index is abstracted to:

- `DocTerms[d]`: the term set of each document;
- `PageRank[d]`;
- `Suggest[w]`: the top spelling suggestion for each word.

An OR-query weighs a document by the number of distinct query terms it holds
(`Raw`). Its relevance is that weight over the number of distinct terms.
`Sufficient` is "the top relevance reaches `T_exact`".

**Operators.**

- `Candidates(ph)` lists the forms `searchString` tries, in order:
  1. the phrase;
  2. its correction;
  3. then, for k = 1..n-1, the corrected phrase with k words removed from the
     right and then with k words removed from the left.

  This is our reading of spec 4.6 steps 1-3.
- `ExtractBestMatchingDocument` takes the highest weight, then the higher page
  rank, then the lower docid (spec 4.6 step 5).

### `QueryResolution` (abstract)

**State:** `query`, `state`, `slicing` and `answer`.

**`Resolve`** is one atomic step:

- The slicing is `OptimalSlicing`: among all `StringPartition`s whose
  multi-word slices pass the index probe, it has the fewest slices, and
  longer slices come first on a tie.
- A holder's score is an exact fraction `[num, den]`, the product over its
  slices of:
  - raw × |slice| / (top × n) for a slice with a match;
  - `P_miss` = 1/10 for a missed slice (spec 4.7).
- The answer is a holder with a non-zero score to which no other is
  `Preferred` (higher score, then fewer slices; spec 4.8). The candidates are
  the slicing and the whole-query reading. If no holder qualifies, the state
  is `no_match`.

**Other steps:** `RejectEmptyQuery` and `Fail` (an index error, or
cancellation).

### `Query` (detailed)

As with `StringMatcher`, `ResultCombination.hpp` holds declarations only, so
every definition of `Query` is `spec_modelled` (spec 4.4 to 4.9).

**State:**

- `phase`;
- `holders`: the readings. The first is the QuerySlices output. The whole
  query is appended when it differs.
- `h`, `s`, `c`: the holder, the slice and the retry form being tried;
- `results`: the MatchingDocuments of each holder;
- `best`: `_bestMatchingResultHolder` as an index, 0 when there is none.

**Actions:**

- `SliceQuery`: greedy QuerySlices (`SliceFrom`) and the holder list.
- `QueryCandidate`: a form is sufficient. Its best document is recorded and
  the query moves to the next slice.
- `RetryCandidate`: the next form.
- `SliceMissed`: no form is left.
- `ChooseBestMatchingResultHolder`: a `FoldLeft` walk over the list.
- `IndexReadError`.
- `Cancel`: between retries and between slices.

**Refinement mapping.**

- A query still in progress maps to `start`.
- `slicing` is `holders[1]` once the query is resolved.
- `answer` is the holder `best` points to.

## 4. Runs

| Run | Expect | What it shows |
|---|---|---|
| `index_build` | pass | One builder and two readers, with Xapian errors possible. The POR file is `<<k1, NotAvailable, k2>>` and the initial index is `<<k2>>`. It checks `TypeOK`, `AtomicPublication`, `DocumentTermsOwnPlace`, `SearchFindsItsPlace` (the round trip of spec 8 from a build to a search on the revision a reader opened), `SuccessfulBuildIsPublished` (an action property) and `BuildTerminates` (liveness). |
| `index_readers` | violation | `ReadersSeeCommittedIndex`: spec 5 says readers may continue to see the previous index while a build runs, so what a reader opens should be a committed index; a reader that opens during the build finds no database (or an empty one). |
| `index_missing_por` | violation | `MissingPORFileKeepsIndex`: a missing POR file is detected only after the index was replaced by an empty database. |
| `index_two_builders` | violation | `SuccessfulBuildIsPublished` with two builders. The second removes the directory under the first, and the first returns 2 with an empty directory. |
| `tokeniser` | pass | Every phrase of up to 5 characters. It checks `TokensAreMaximalRuns` against a reference definition and `DocumentTermsAreTokens` (re-tokenising every word combination gives the document exactly the phrase's own tokens). |
| `dbmgr_session` | pass | `TypeOK` and `LookupKeyIsArgumentOrDefault`, over 26 typed lines. These include codes that are well formed, too short, of the wrong class, or given as two tokens, and mixed-case commands. |
| `dbmgr_geoname` | violation | `GeonameLookupUsesArgument`: 4294967296 or 99999999999 is accepted and then replaced by 6299418. |
| `dbmgr_conn` | violation | `ConnectionStringNeverEmpty`: `reset_connection_string` with no argument. |
| `query` | pass | Fourteen queries on a four-document index (SFO, GIG, SJU, and a second "rio" document), with two misspellings, two unknown words, index errors and cancellation. It checks `TypeOK`, `WholeReadingPrevails` and `ImplementsQueryResolution`. The last is the abstract safety spec together with "every query is eventually resolved, fails or is cancelled". |
| `query_e1` | violation | `ScenarioE1` (spec 8, E1) fails. The whole-query reading, corrected and resolved to Rio de Janeiro, scores 1, which beats 2/5 × 3/5 for the two slices. Also, "san francicso" reaches 50% through "san" alone and resolves to San Juan. |
| `query_nomatch` | violation | `BestHolderHasAMatch` fails. For the query "xyz", `P_miss` > 0 gives the missed holder a score of 1/10, so it is selected instead of ending in NO_MATCH. |

**Bounds.** Two keys whose term sets overlap (`t2`), so a term leaking from
one Place to the next is visible. A POR file with two relevant lines and a
skipped one in between, which exercises the count and the reset. Page ranks make `k2`
the more prominent Place, so a term leaking from `k1` into `k2`'s document
would send the search for it to the wrong Place. One or two
builders, two readers, and every interleaving of their steps. The DbMgr lines
cover each regex at and beside its length bounds. They also cover the
`GeonamesID_T` boundary: 4294967295 is accepted, 4294967296 is not. Phrases
of up to 5 characters include every placement of leading, trailing and
adjacent separators. They include up to three words and repeated words
("a a a"), so a word combination repeats and is re-tokenised more than once.

The query model's queries cover the following cases:

- the empty query;
- a single known word and a single unknown word;
- queries that slice into 2, 3 or 4 slices;
- every retry form resolving some slice: exact, corrected, shrunk once from
  the right, once from the left, and twice from the right (checked by
  asserting, in a scratch copy, that each form is never used and letting TLC
  refute it);
- misspelled words that need correction;
- a word shared by two documents, so that the tie-break on page rank applies;
- a mix of unknown and known words (a missed slice);
- exactly 50% relevance, for both E1 scenarios.

**Fairness.** Weak fairness on each builder's step. A builder is one thread
running `buildSearchIndex` to completion, with no waits on other processes.
Readers and the CLI user get no fairness, because a user may stop typing.
`DbMgr` runs with `CHECK_DEADLOCK FALSE` because the process really exits
when the session ends. `Query` has weak fairness on its non-fault steps: a query
runs to its end in one thread. Index errors and cancellation are not fair,
because they may never happen. `Query` also runs with `CHECK_DEADLOCK FALSE`,
because a query ends.

**Refinement check.** The property is `QR!SafetySpec /\ QR!Resolved`. The
abstract `Resolve \/ RejectEmptyQuery` is enabled in every abstract START
state, so under the abstract spec's weak fairness this property is
equivalent to `QR!Spec`.

**Mutants.** Each property of a passing run is broken by a plausible bug in a
mapped definition (see `PROJECT.json`):

- dropping the NotAvailable guard;
- committing each document without the transaction;
- forgetting `resetIndexSets`;
- calling `set_data` after `add_document`, so the stored document has no data;
- counting skipped lines;
- not advancing past a skipped line;
- dropping `parsePlaceKey`'s empty-token check;
- taking the last regex group;
- keeping empty tokens;
- `add_spelling` without `add_term`;
- enabling the commented-out `add_term(lWordCombination)`;
- a slice-advance off by one;
- an inverted comparison in the holder walk;
- a holder walk that keeps the first matching holder.

**What the scoring implies.** `WholeReadingPrevails` holds for every query
of the model, and the argument behind it is general. The best document of a
slice is its top document, at 100%, so a matched slice weighs
|slice| / n. A matched whole-query reading therefore scores 1, and no
reading of two or more slices reaches 1. When the whole reading misses, so
does the first slice. The first slice is a single word or a slice that passed
the index probe, and its corrected form is a prefix that the whole reading
also tries. This assumes the spelling dictionary leaves indexed words
unchanged.
So under spec 4.7 and 4.8 the QuerySlices reading is never chosen. This is
the general form of the `query_e1` finding.

## 5. Not modelled (yet) and why

- The OpenTREP service behind the CLI: the SQL database (`DBManager`) and the
  `listBy*` queries. They are not in `src/`. `fill_from_por_file`'s
  crash-and-rerun hazard is listed without a property for that reason.
- What `Place::toString` writes besides the Place key: the rest of the
  hazard at `IndexBuilder.cpp:121` cannot be settled from this repository.
- Memory held by the `FacPlace` singleton pool.
- `FacOpenTrepServiceContext`: a singleton factory whose pool lives in
  `FacServiceAbstract`, which is not in `src/`. No query or build behaviour
  depends on it.
- `subtractParsedToRemaining`: its effect is covered by the slicing.
- Xapian's BM25 weights: relevance is abstracted to the fraction of distinct
  query terms held. Edit distance is abstracted to a given top suggestion per
  word.
- The STL multimap order behind "appears to be random" in
  `extractBestMatchingDocumentFromMSet`: the model follows the spec's
  deterministic tie-break.
- The display methods of `ResultCombination` and `ResultHolder`.
- Logging, help and tutorial text, read-line history files.
