----------------------------- MODULE IndexBuild -----------------------------
(***************************************************************************)
(* IndexBuilder::buildSearchIndex (src/opentrep/command/IndexBuilder.cpp)  *)
(* run by one or more builder processes on the same Xapian index           *)
(* directory, while reader processes open that directory to answer        *)
(* queries.                                                                *)
(*                                                                         *)
(* The directory holds at most one Xapian database. Its committed content *)
(* is `disk`: NoDB when there is no database, otherwise the sequence of    *)
(* documents, document i having Xapian docid i. A builder's handle on the *)
(* database remembers the generation of the directory it was opened in:   *)
(* remove_all makes a new generation, and a handle on an older one writes *)
(* into files that are no longer reachable from the directory.            *)
(***************************************************************************)
EXTENDS Naturals, Sequences

CONSTANTS
  Builders,      \* processes calling buildSearchIndex on the same directory
  Readers,       \* processes opening the directory read-only for queries
  Keys,          \* Place keys (IATA, ICAO, Geonames ID) of the POR records
  Terms,         \* index terms
  TermsOf,       \* TermsOf[l]: the term set Place::buildIndexSets derives for l
  NotAvailable,  \* a POR line whose common name is "NotAvailable"
  Missing,       \* a POR file path that does not exist
  NoDB,          \* no Xapian database in the directory
  PORFile,       \* PORFile[b]: the lines of builder b's POR file, or Missing
  OldPORFile,    \* the POR file of the build that made the initial index
  StoreFailure,  \* whether Xapian may throw while adding a document
  PageRankOf     \* PageRankOf[l]: the page rank of the POR record l

Lines == Keys \cup {NotAvailable}

ASSUME TermsOf \in [Lines -> SUBSET Terms]
ASSUME \A b \in Builders : PORFile[b] = Missing \/ PORFile[b] \in Seq(Lines)
ASSUME OldPORFile \in Seq(Lines)
ASSUME StoreFailure \in BOOLEAN
ASSUME PageRankOf \in [Lines -> Nat]

VARIABLES
  disk,     \* committed content of the index directory
  dirGen,   \* generation of the index directory (bumped by remove_all)
  bld,      \* bld[b]: the local state of builder b
  rdr       \* rdr[r]: whether reader r has the index open, what it sees,
            \* and the result of its last search

vars == <<disk, dirGen, bld, rdr>>

(* A Xapian document: its Place key (for the properties), its terms, and  *)
(* its data, the serialised Place (Place::toString), here the Place key    *)
(* it names, <<>> for an empty payload.                                     *)
Doc == [key : Keys, terms : SUBSET Terms, data : Seq(Lines)]

(* The index a complete, committed build of POR file f holds: one document *)
(* per line that is not NotAvailable, in file order.                       *)
FullIndex(f) ==
  LET avail == SelectSeq(f, LAMBDA l : l # NotAvailable)
  IN  [i \in 1..Len(avail) |-> [key |-> avail[i], terms |-> TermsOf[avail[i]],
                                 data |-> <<avail[i]>>]]

Outcomes == {"none", "ok", "DatabaseCreateError", "FileNotFound", "IndexWriteError"}

Place == [loc : Lines, terms : SUBSET Terms, docid : Nat]

EmptyPlace == [loc |-> NotAvailable, terms |-> {}, docid |-> 0]

-----------------------------------------------------------------------------
(* Helpers translated from IndexBuilder.cpp and Place.                      *)

(* Place::buildIndexSets: adds the terms derived from the Place's location *)
(* to the Place's term set (and spelling set).                              *)
BuildIndexSets(place) ==
  [place EXCEPT !.terms = @ \cup TermsOf[place.loc]]

(* addToXapian: every term of the Place's term set goes into the document, *)
(* which already carries its data.                                         *)
AddToXapian(place, data) == [key |-> place.loc, terms |-> place.terms, data |-> data]

(* Mutation: resetIndexSets forgotten, the term set is kept.              *)
ResetPlaceMatrixOnly(place) == place

(* lPlace.resetMatrix(); lPlace.resetIndexSets(): the Place object is      *)
(* reused for the next line, with its term sets emptied.                    *)
ResetPlace(place) == [place EXCEPT !.terms = {}]

(* Throwing out of buildSearchIndex: the WritableDatabase destructor       *)
(* cancels the open transaction, so nothing pending reaches the directory. *)
Abort(b, why) ==
  bld' = [bld EXCEPT ![b].pc = "failed", ![b].result = why, ![b].pending = <<>>]

-----------------------------------------------------------------------------
(* Builder steps, in the order buildSearchIndex takes them.                 *)

(* remove_all; create_directories: the directory is emptied, whatever      *)
(* database was in it, and whoever still has it open.                       *)
RemoveIndexDirectory(b) ==
  /\ bld[b].pc = "start"
  /\ disk' = NoDB
  /\ dirGen' = dirGen + 1
  /\ bld' = [bld EXCEPT ![b].pc = "create", ![b].count = 0]
  /\ UNCHANGED rdr

(* Xapian::WritableDatabase (dir, DB_CREATE): creates an empty database,   *)
(* and throws if one already exists in the directory.                      *)
CreateDatabase(b) ==
  /\ bld[b].pc = "create"
  /\ IF disk = NoDB
       THEN /\ disk' = <<>>
            /\ bld' = [bld EXCEPT ![b].pc = "begin", ![b].gen = dirGen]
       ELSE /\ Abort(b, "DatabaseCreateError")
            /\ UNCHANGED disk
  /\ UNCHANGED <<dirGen, rdr>>

(* begin_transaction, then the check that the POR file exists (throwing   *)
(* FileNotFoundException), then FacPlace::instance().create().              *)
BeginAndCheckPORFile(b) ==
  /\ bld[b].pc = "begin"
  /\ IF PORFile[b] = Missing
       THEN Abort(b, "FileNotFound")
       ELSE bld' = [bld EXCEPT ![b].pc = "parse", ![b].line = 1,
                               ![b].pending = <<>>, ![b].place = EmptyPlace]
  /\ UNCHANGED <<disk, dirGen, rdr>>

(* Mutation: the skipped line does not advance the reading position.      *)
SkipLineStuck(b) ==
  /\ bld[b].pc = "parse"
  /\ bld[b].line <= Len(PORFile[b])
  /\ PORFile[b][bld[b].line] = NotAvailable
  /\ UNCHANGED vars

(* Mutation: ++oNbOfEntries placed outside the NotAvailable check.         *)
SkipLineCounting(b) ==
  /\ bld[b].pc = "parse"
  /\ bld[b].line <= Len(PORFile[b])
  /\ PORFile[b][bld[b].line] = NotAvailable
  /\ bld' = [bld EXCEPT ![b].line = @ + 1, ![b].count = @ + 1]
  /\ UNCHANGED <<disk, dirGen, rdr>>

(* One getline whose Location has the common name "NotAvailable".          *)
SkipLine(b) ==
  /\ bld[b].pc = "parse"
  /\ bld[b].line <= Len(PORFile[b])
  /\ PORFile[b][bld[b].line] = NotAvailable
  /\ bld' = [bld EXCEPT ![b].line = @ + 1]
  /\ UNCHANGED <<disk, dirGen, rdr>>

(* Mutation: set_data called on lDocument after add_document, which has   *)
(* already copied it: the stored document has an empty payload.           *)
AddDocumentToIndexDataLate(place, pending) ==
  LET filled == BuildIndexSets(place)
  IN  [place   |-> [filled EXCEPT !.docid = Len(pending) + 1],
       pending |-> Append(pending, AddToXapian(filled, <<>>))]

(* IndexBuilder::addDocumentToIndex for the Place holding location loc:    *)
(* set the document data from the Place as it is (its location was set by *)
(* the caller), build the index sets, add the document (docid = last      *)
(* docid + 1) and hand the docid back to the Place.                         *)
AddDocumentToIndex(place, pending) ==
  LET data   == <<place.loc>>
      filled == BuildIndexSets(place)
  IN  [place   |-> [filled EXCEPT !.docid = Len(pending) + 1],
       pending |-> Append(pending, AddToXapian(filled, data))]

(* Mutation: the NotAvailable check of the loop dropped.                  *)
IndexLineUnchecked(b) ==
  /\ bld[b].pc = "parse"
  /\ bld[b].line <= Len(PORFile[b])
  /\ LET added == AddDocumentToIndex([bld[b].place EXCEPT
                                        !.loc = PORFile[b][bld[b].line]],
                                     bld[b].pending)
     IN  bld' = [bld EXCEPT ![b].pending = added.pending,
                            ![b].place = ResetPlace(added.place),
                            ![b].count = @ + 1,
                            ![b].line = @ + 1]
  /\ UNCHANGED <<disk, dirGen, rdr>>

(* Mutation: no begin_transaction, every document is committed as added.  *)
IndexLineAutoCommit(b) ==
  /\ bld[b].pc = "parse"
  /\ bld[b].line <= Len(PORFile[b])
  /\ PORFile[b][bld[b].line] # NotAvailable
  /\ LET added == AddDocumentToIndex([bld[b].place EXCEPT
                                        !.loc = PORFile[b][bld[b].line]],
                                     bld[b].pending)
     IN  /\ bld' = [bld EXCEPT ![b].pending = added.pending,
                               ![b].place = ResetPlace(added.place),
                               ![b].count = @ + 1,
                               ![b].line = @ + 1]
         /\ disk' = IF bld[b].gen = dirGen THEN added.pending ELSE disk
  /\ UNCHANGED <<dirGen, rdr>>

(* One getline with a relevant Location: setLocation, addDocumentToIndex, *)
(* ++oNbOfEntries, then the Place's sets are reset for the next turn.     *)
IndexLine(b) ==
  /\ bld[b].pc = "parse"
  /\ bld[b].line <= Len(PORFile[b])
  /\ PORFile[b][bld[b].line] # NotAvailable
  /\ LET added == AddDocumentToIndex([bld[b].place EXCEPT
                                        !.loc = PORFile[b][bld[b].line]],
                                     bld[b].pending)
     IN  bld' = [bld EXCEPT ![b].pending = added.pending,
                            ![b].place = ResetPlace(added.place),
                            ![b].count = @ + 1,
                            ![b].line = @ + 1]
  /\ UNCHANGED <<disk, dirGen, rdr>>

(* add_document throws (Xapian error): the exception leaves               *)
(* buildSearchIndex and the transaction is cancelled.                     *)
AddDocumentFails(b) ==
  /\ StoreFailure
  /\ bld[b].pc = "parse"
  /\ bld[b].line <= Len(PORFile[b])
  /\ PORFile[b][bld[b].line] # NotAvailable
  /\ Abort(b, "IndexWriteError")
  /\ UNCHANGED <<disk, dirGen, rdr>>

(* End of file: commit_transaction, close, return oNbOfEntries. A handle  *)
(* on a removed generation commits into unreachable files.                 *)
CommitBuild(b) ==
  /\ bld[b].pc = "parse"
  /\ bld[b].line > Len(PORFile[b])
  /\ disk' = IF bld[b].gen = dirGen THEN bld[b].pending ELSE disk
  /\ bld' = [bld EXCEPT ![b].pc = "done", ![b].result = "ok"]
  /\ UNCHANGED <<dirGen, rdr>>

-----------------------------------------------------------------------------
(* Readers: a query process opens the directory (Xapian::Database) and    *)
(* answers from the revision it opened; without a database the open fails *)
(* (the reader then sees NoDB).                                            *)

OpenIndex(r) ==
  /\ ~rdr[r].open
  /\ rdr' = [rdr EXCEPT ![r] = [open |-> TRUE, snap |-> disk, found |-> {}]]
  /\ UNCHANGED <<disk, dirGen, bld>>

(* StringMatcher over the revision s a reader opened: its documents, their *)
(* terms, their Places' page ranks; every indexed term is in the spelling *)
(* dictionary and is its own suggestion.                                   *)
SM(s) == INSTANCE StringMatcher
           WITH Words <- Terms, Docs <- DOMAIN s, NoDoc <- 0,
                DocTerms <- [i \in DOMAIN s |-> s[i].terms],
                PageRank <- [i \in DOMAIN s |-> PageRankOf[s[i].key]],
                Suggest <- [w \in Terms |-> w], TExact <- 50

(* A one-term query on the open revision: a document holding the term is a *)
(* sufficient exact match, so searchString keeps the exact form and        *)
(* extractBestMatchingDocumentFromMSet picks the document; its data is     *)
(* read back as the Place found.                                           *)
Search(r, t) ==
  /\ rdr[r].open /\ rdr[r].snap # NoDB
  /\ LET s == rdr[r].snap
         d == SM(s)!ExtractBestMatchingDocument(<<t>>)
     IN  rdr' = [rdr EXCEPT ![r].found =
                   IF d = 0 THEN {} ELSE {[term |-> t, data |-> s[d].data]}]
  /\ UNCHANGED <<disk, dirGen, bld>>

CloseIndex(r) ==
  /\ rdr[r].open
  /\ rdr' = [rdr EXCEPT ![r].open = FALSE]
  /\ UNCHANGED <<disk, dirGen, bld>>

-----------------------------------------------------------------------------
Init ==
  /\ disk = FullIndex(OldPORFile)
  /\ dirGen = 0
  /\ bld = [b \in Builders |-> [pc |-> "start", gen |-> 0, pending |-> <<>>,
                                line |-> 0, count |-> 0, place |-> EmptyPlace,
                                result |-> "none"]]
  /\ rdr = [r \in Readers |-> [open |-> FALSE, snap |-> NoDB, found |-> {}]]

BuilderStep(b) ==
  \/ RemoveIndexDirectory(b)
  \/ CreateDatabase(b)
  \/ BeginAndCheckPORFile(b)
  \/ SkipLine(b)
  \/ IndexLine(b)
  \/ AddDocumentFails(b)
  \/ CommitBuild(b)

Next ==
  \/ \E b \in Builders : BuilderStep(b)
  \/ \E r \in Readers : OpenIndex(r) \/ CloseIndex(r) \/ \E t \in Terms : Search(r, t)

(* A builder is one thread running buildSearchIndex to its end: it is     *)
(* never starved. Readers open and close at will.                         *)
Spec == Init /\ [][Next]_vars /\ \A b \in Builders : WF_vars(BuilderStep(b))

-----------------------------------------------------------------------------
(* Properties                                                               *)

Done(b) == bld[b].pc \in {"done", "failed"}

(* Type invariant; in particular a document is only ever made for a line   *)
(* with a real Place key, never for a "NotAvailable" line.                 *)
TypeOK ==
  /\ disk \in {NoDB} \cup Seq(Doc)
  /\ dirGen \in Nat
  /\ \A b \in Builders :
       /\ bld[b].pc \in {"start", "create", "begin", "parse", "done", "failed"}
       /\ bld[b].pending \in Seq(Doc)
       /\ bld[b].place \in Place
       /\ bld[b].result \in Outcomes
       /\ bld[b].count \in Nat
  /\ \A r \in Readers : /\ rdr[r].snap \in {NoDB} \cup Seq(Doc)
                        /\ rdr[r].found \subseteq [term : Terms, data : Seq(Lines)]

(* The single transaction of buildSearchIndex: the directory only ever     *)
(* holds no database, an empty one, or a complete build of some POR file, *)
(* never a partly indexed file.                                            *)
AtomicPublication ==
  disk \in {NoDB, <<>>, FullIndex(OldPORFile)}
             \cup {FullIndex(PORFile[b]) : b \in {c \in Builders : PORFile[c] # Missing}}

(* The reused Place object: every stored document carries exactly the    *)
(* terms of its own Place, none left over from an earlier line.           *)
DocumentTermsOwnPlace ==
  disk # NoDB => \A i \in 1..Len(disk) : disk[i].terms = TermsOf[disk[i].key]

(* When buildSearchIndex returns a count, the directory holds the complete *)
(* index of that builder's POR file, and the count is its number of        *)
(* documents.                                                              *)
SuccessfulBuildIsPublished ==
  [][\A b \in Builders :
       (bld[b].pc # "done" /\ bld'[b].pc = "done")
         => /\ disk' = FullIndex(PORFile[b])
            /\ bld'[b].count = Len(disk')]_vars

(* Spec 8, property 5 (round trip): a term searched on a revision a reader *)
(* opened resolves to a document whose data, the Place serialised by      *)
(* addDocumentToIndex, names a Place that has that term, whatever builds  *)
(* ran, failed or were interleaved with the reader before it opened.      *)
SearchFindsItsPlace ==
  \A r \in Readers : \A f \in rdr[r].found :
    f.data # <<>> /\ f.data[1] \in Keys /\ f.term \in TermsOf[f.data[1]]

(* Every build ends, by returning or by throwing.                         *)
BuildTerminates == <>(\A b \in Builders : Done(b))

(* Spec section 5: while a build runs, readers may continue to see the    *)
(* previous committed index; what a reader opens is always a committed    *)
(* index, the old one or a whole new one, never no index or an empty one. *)
ReadersSeeCommittedIndex ==
  \A r \in Readers :
    rdr[r].open => rdr[r].snap \in {FullIndex(OldPORFile)}
                      \cup {FullIndex(PORFile[b]) : b \in {c \in Builders : PORFile[c] # Missing}}

(* Spec section 4.5: a missing POR file fails the build with FileNotFound; *)
(* the index that was there stays usable.                                  *)
MissingPORFileKeepsIndex ==
  \A b \in Builders : bld[b].result = "FileNotFound" => disk = FullIndex(OldPORFile)

=============================================================================
