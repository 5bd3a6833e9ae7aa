------------------------------- MODULE DbMgr --------------------------------
(***************************************************************************)
(* The interactive session of opentrep-dbmgr                               *)
(* (src/opentrep/ui/cmdline/opentrep-dbmgr.cpp): readConfiguration, then  *)
(* a read-line loop that turns each line into a command and calls the     *)
(* OpenTREP service. The service itself is not modelled: what the model   *)
(* keeps is what the loop hands it (the lookup it asks for, the SQL        *)
(* connection string it sets) and when the session ends.                   *)
(*                                                                         *)
(* A line is the token list read-line produced: a command word followed    *)
(* by argument tokens, each a sequence of characters.                      *)
(***************************************************************************)
EXTENDS Naturals, Sequences

CONSTANTS
  Alpha, Digit, Other,   \* characters: [[:alpha:]], [[:digit:]], the rest
  DigitVal,              \* DigitVal[d]: the value of the digit character d
  CmdWords,              \* command words as typed (any case)
  LowerOf,               \* LowerOf[w]: boost::algorithm::to_lower of w
  Lines,                 \* the lines the user may type (records, see below)
  Options,               \* command-line options that may be given
  DefaultConn,           \* the connection string from the configuration
  DefaultIata, DefaultIcao, DefaultFaa, DefaultGeonameID,
                         \* the keys the code falls back to
  GeonamesIDMax,         \* the largest GeonamesID_T, as decimal digits
  MaxIdDigits,           \* the {1,11} bound of the Geoname ID regex
  NoLookup,              \* no lookup asked yet
  NoLine                 \* no line read yet

Chars == Alpha \cup Digit \cup Other
Str == Seq(Chars)

(* A line: end of input, or a command word and argument tokens.           *)
ASSUME \A l \in Lines : l.eof \in BOOLEAN /\ l.cmd \in CmdWords \cup {""}
ASSUME DigitVal \in [Digit -> 0..9]

VARIABLES
  session,    \* "config", "running" or "ended"
  connStr,    \* the SQL connection string the service holds
  lookup,     \* the last lookup asked of the service: [by, key]
  lastLine    \* the last line read (history, for the properties)

vars == <<session, connStr, lookup, lastLine>>

-----------------------------------------------------------------------------
(* toString (TokenList_T): the tokens joined with one space.              *)
RECURSIVE TokensToString(_)
TokensToString(ts) ==
  IF ts = <<>> THEN <<>>
  ELSE IF Len(ts) = 1 THEN ts[1]
  ELSE ts[1] \o <<" ">> \o TokensToString(Tail(ts))

IsAlnum(s) == \A i \in 1..Len(s) : s[i] \in Alpha \cup Digit

(* The regular expressions of extractTokenListFor*, on the whole line.     *)
(* Each maps a line to the list of its marked sub-expressions when it     *)
(* matches: the ICAO and FAA expressions have a second, inner group that  *)
(* holds the last character repeated.                                      *)
IataGroups(s) ==   \* ^([[:alpha:]]{3})$
  IF Len(s) = 3 /\ \A i \in 1..3 : s[i] \in Alpha THEN {<<s>>} ELSE {}
IcaoGroups(s) ==   \* ^(([[:alpha:]]|[[:digit:]]){4})$
  IF Len(s) = 4 /\ IsAlnum(s) THEN {<<s, <<s[4]>> >>} ELSE {}
FaaGroups(s) ==    \* ^(([[:alpha:]]|[[:digit:]]){3,4})$
  IF Len(s) \in 3..4 /\ IsAlnum(s) THEN {<<s, <<s[Len(s)]>> >>} ELSE {}
GeonameGroups(s) == \* ^([[:digit:]]{1,11})$
  IF Len(s) \in 1..MaxIdDigits /\ \A i \in 1..Len(s) : s[i] \in Digit
    THEN {<<s>>} ELSE {}

(* extractTokenList: the groups of the match. Without a match, the loop   *)
(* over what.size() produces only empty tokens (how many depends on what  *)
(* boost leaves in the match results; its unsigned short index may wrap): *)
(* the first token is empty in every case.                                 *)
ExtractTokenList(groups, nGroups) ==
  IF groups # {} THEN groups
  ELSE {[i \in 1..n |-> <<>>] : n \in {1, nGroups}}

(* Mutation: the empty-token check of parsePlaceKey dropped.              *)
ParsePlaceKeyUnchecked(tokens, default) ==
  IF tokens # <<>> THEN tokens[1] ELSE default

(* Mutation: the last token of the match taken instead of the first.      *)
ParsePlaceKeyLast(tokens, default) ==
  IF tokens # <<>> /\ tokens[Len(tokens)] # <<>> THEN tokens[Len(tokens)] ELSE default

(* parsePlaceKey: the first token when there is one and it is not empty,  *)
(* otherwise the default the caller put in the key.                        *)
ParsePlaceKey(tokens, default) ==
  IF tokens # <<>> /\ tokens[1] # <<>> THEN tokens[1] ELSE default

(* Decimal comparison of digit strings, for boost::lexical_cast.          *)
RECURSIVE StripZeros(_)
StripZeros(s) ==
  IF s # <<>> /\ DigitVal[s[1]] = 0 THEN StripZeros(Tail(s)) ELSE s

DecimalLeq(s, t) ==
  LET a == StripZeros(s)
      b == StripZeros(t)
  IN  \/ Len(a) < Len(b)
      \/ /\ Len(a) = Len(b)
         /\ \/ a = b
            \/ \E i \in 1..Len(a) : /\ \A j \in 1..(i - 1) : a[j] = b[j]
                                    /\ DigitVal[a[i]] < DigitVal[b[i]]

(* lexical_cast<GeonamesID_T>: the value when it fits the type, otherwise *)
(* bad_lexical_cast, caught by keeping the default ID.                    *)
CastGeonameID(s) ==
  IF DecimalLeq(s, GeonamesIDMax) THEN StripZeros(s) ELSE StripZeros(DefaultGeonameID)

-----------------------------------------------------------------------------
(* extractCommand: the first token, lower-cased, names the command.       *)
ExtractCommand(l) ==
  IF l.cmd = "" THEN "nop"
  ELSE IF LowerOf[l.cmd] \in {"help", "info", "tutorial", "create_user",
          "reset_connection_string", "create_tables", "create_indexes",
          "fill_from_por_file", "list_by_iata", "list_by_icao", "list_by_faa",
          "list_by_geonameid", "list_nb", "list_all", "list_cont", "quit"}
       THEN LowerOf[l.cmd]
       ELSE "unknown"

(* readConfiguration: --help, --version or --prefix return early and main *)
(* ends without a session.                                                 *)
ReadConfiguration(opts) ==
  /\ session = "config"
  /\ session' = IF opts = {} THEN "running" ELSE "ended"
  /\ UNCHANGED <<connStr, lookup, lastLine>>

(* A line read by GetLine while the loop runs.                             *)
Read(l) == session = "running" /\ lastLine' = l

(* GetLine reported end of input (CTRL-D): the loop breaks.               *)
EndOfInput(l) ==
  /\ Read(l)
  /\ l.eof
  /\ session' = "ended"
  /\ UNCHANGED <<connStr, lookup>>

Command(l) == IF l.eof THEN "eof" ELSE ExtractCommand(l)

(* QUIT: the while condition ends the loop.                               *)
Quit(l) ==
  /\ Read(l)
  /\ Command(l) = "quit"
  /\ session' = "ended"
  /\ UNCHANGED <<connStr, lookup>>

(* LIST_BY_IATA, LIST_BY_ICAO, LIST_BY_FAA: the argument, or the default, *)
(* goes to the service's listBy*Code call.                                 *)
ListByCode(l, cmd, by, Groups(_), nGroups, default) ==
  /\ Read(l)
  /\ Command(l) = cmd
  /\ \E tokens \in ExtractTokenList(Groups(TokensToString(l.args)), nGroups) :
       lookup' = [by |-> by, key |-> ParsePlaceKey(tokens, default)]
  /\ UNCHANGED <<session, connStr>>

ListByIata(l) == ListByCode(l, "list_by_iata", "iata", IataGroups, 1, DefaultIata)
ListByIcao(l) == ListByCode(l, "list_by_icao", "icao", IcaoGroups, 2, DefaultIcao)
ListByFaa(l)  == ListByCode(l, "list_by_faa", "faa", FaaGroups, 2, DefaultFaa)

(* LIST_BY_GEONAMEID: the argument is cast to GeonamesID_T before the     *)
(* service's listByGeonameID call.                                         *)
ListByGeonameID(l) ==
  /\ Read(l)
  /\ Command(l) = "list_by_geonameid"
  /\ \E tokens \in ExtractTokenList(GeonameGroups(TokensToString(l.args)), 1) :
       lookup' = [by |-> "geoname",
                  key |-> CastGeonameID(ParsePlaceKey(tokens, DefaultGeonameID))]
  /\ UNCHANGED <<session, connStr>>

(* LIST_ALL: hard-coded to the IATA code NCE.                             *)
ListAll(l) ==
  /\ Read(l)
  /\ Command(l) = "list_all"
  /\ lookup' = [by |-> "iata", key |-> DefaultIata]
  /\ UNCHANGED <<session, connStr>>

(* RESET_CONNECTION_STRING: the rest of the line, as re-joined by         *)
(* toString, becomes the service's SQL connection string.                 *)
ResetConnectionString(l) ==
  /\ Read(l)
  /\ Command(l) = "reset_connection_string"
  /\ connStr' = TokensToString(l.args)
  /\ UNCHANGED <<session, lookup>>

(* HELP, INFO, TUTORIAL: print the commands, the session details or the  *)
(* examples; the loop goes on.                                             *)
PrintCommand(l) ==
  /\ Read(l)
  /\ Command(l) \in {"help", "info", "tutorial"}
  /\ UNCHANGED <<session, connStr, lookup>>

(* LIST_NB: the service counts the POR of the SQL database.               *)
ListNb(l) ==
  /\ Read(l)
  /\ Command(l) = "list_nb"
  /\ UNCHANGED <<session, connStr, lookup>>

(* CREATE_USER: on MySQL the service creates the trep user and database  *)
(* with the connection string it holds; the loop goes on.                 *)
CreateUser(l) ==
  /\ Read(l)
  /\ Command(l) = "create_user"
  /\ UNCHANGED <<session, connStr, lookup>>

ServiceCommands == {"create_tables", "create_indexes", "fill_from_por_file"}

(* CREATE_TABLES, CREATE_INDEXES, FILL_FROM_POR_FILE: the service works   *)
(* on the SQL database with the connection string it holds.               *)
ServiceCommand(l) ==
  /\ Read(l)
  /\ Command(l) \in ServiceCommands
  /\ UNCHANGED <<session, connStr, lookup>>

(* NOP (an empty line) does nothing; LIST_CONT, which has no case of its  *)
(* own in the switch, and a command not understood reach the default and  *)
(* only print.                                                             *)
OtherCommand(l) ==
  /\ Read(l)
  /\ Command(l) \in {"nop", "list_cont", "unknown"}
  /\ UNCHANGED <<session, connStr, lookup>>

Init ==
  /\ session = "config"
  /\ connStr = DefaultConn
  /\ lookup = NoLookup
  /\ lastLine = NoLine

Next ==
  \/ \E opts \in SUBSET Options : ReadConfiguration(opts)
  \/ \E l \in Lines :
       \/ EndOfInput(l)
       \/ Quit(l)
       \/ ListByIata(l)
       \/ ListByIcao(l)
       \/ ListByFaa(l)
       \/ ListByGeonameID(l)
       \/ ListAll(l)
       \/ ResetConnectionString(l)
       \/ PrintCommand(l)
       \/ ListNb(l)
       \/ CreateUser(l)
       \/ ServiceCommand(l)
       \/ OtherCommand(l)

(* The process stops when the session ends.                               *)
Spec == Init /\ [][Next]_vars

-----------------------------------------------------------------------------
(* Properties                                                               *)

LookupKinds == {"iata", "icao", "faa", "geoname"}

(* Type invariant; the service is never asked for an empty key.          *)
TypeOK ==
  /\ session \in {"config", "running", "ended"}
  /\ connStr \in {DefaultConn} \cup Str
  /\ lookup \in {NoLookup} \cup [by : LookupKinds, key : Str \ {<<>>}]
  /\ lastLine \in {NoLine} \cup Lines

(* The argument of a list_by_* line, and what its kind of code looks like *)
(* (the formats the extractTokenListFor* comments give).                  *)
Arg(l) == TokensToString(l.args)
Typed(l, word) == lastLine # NoLine /\ ~l.eof /\ l.cmd # "" /\ LowerOf[l.cmd] = word

CodeOf == [list_by_iata |-> "iata", list_by_icao |-> "icao", list_by_faa |-> "faa"]
DefaultOf == [iata |-> DefaultIata, icao |-> DefaultIcao, faa |-> DefaultFaa]
WellFormedCode(by, s) ==
  CASE by = "iata" -> Len(s) = 3 /\ \A i \in 1..Len(s) : s[i] \in Alpha
    [] by = "icao" -> Len(s) = 4 /\ IsAlnum(s)
    [] by = "faa"  -> Len(s) \in 3..4 /\ IsAlnum(s)

(* list_by_iata, list_by_icao and list_by_faa ask the service for exactly *)
(* the code typed when it has the code's format, and for the default code *)
(* otherwise: regex groups, the token list built from them and            *)
(* parsePlaceKey together never hand over a part of the argument.         *)
LookupKeyIsArgumentOrDefault ==
  \A word \in DOMAIN CodeOf :
    Typed(lastLine, word) =>
      LET by == CodeOf[word]
      IN  lookup = [by |-> by, key |-> IF WellFormedCode(by, Arg(lastLine))
                                        THEN Arg(lastLine) ELSE DefaultOf[by]]

(* A Geoname ID of 1 to 11 digits, as the parser's comment allows, is the *)
(* ID the service is asked for.                                            *)
GeonameLookupUsesArgument ==
  (Typed(lastLine, "list_by_geonameid") /\ GeonameGroups(Arg(lastLine)) # {})
    => lookup.key = StripZeros(Arg(lastLine))

(* The help text: the connection string "must be given"; the service is  *)
(* never left with an empty one.                                          *)
ConnectionStringNeverEmpty == connStr # <<>>

=============================================================================
