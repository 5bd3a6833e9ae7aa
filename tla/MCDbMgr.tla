------------------------------ MODULE MCDbMgr -------------------------------
(* Characters, command words and typed lines for checking DbMgr with TLC. *)
EXTENDS DbMgr

MCAlpha == {"N", "C", "E", "L", "F", "M", "j", "f", "k"}
MCDigit == {"0", "1", "2", "3", "4", "5", "6", "7", "8", "9"}
MCDigitVal == [d \in MCDigit |->
                 CASE d = "0" -> 0 [] d = "1" -> 1 [] d = "2" -> 2 [] d = "3" -> 3
                   [] d = "4" -> 4 [] d = "5" -> 5 [] d = "6" -> 6 [] d = "7" -> 7
                   [] d = "8" -> 8 [] d = "9" -> 9]

MCCmdWords == {"quit", "QUIT", "help", "List_By_Iata", "list_by_iata", "list_by_icao",
               "list_by_faa", "list_by_geonameid", "list_all",
               "reset_connection_string", "fill_from_por_file", "frobnicate",
               "list_nb", "create_user"}
MCLowerOf == [w \in MCCmdWords |->
                CASE w = "QUIT" -> "quit" [] w = "List_By_Iata" -> "list_by_iata"
                  [] OTHER -> w]

Nce == <<"N", "C", "E">>
Lfmn == <<"L", "F", "M", "N">>
Jfk == <<"j", "f", "k">>
MCDefaultGeonameID == <<"6", "2", "9", "9", "4", "1", "8">>
(* UINT_MAX of a 32-bit unsigned int, 4294967295.                          *)
MCGeonamesIDMax == <<"4", "2", "9", "4", "9", "6", "7", "2", "9", "5">>
(* 4294967296 and 99999999999: accepted by the regex, above UINT_MAX.     *)
IdOver == <<"4", "2", "9", "4", "9", "6", "7", "2", "9", "6">>
IdEleven == [i \in 1..11 |-> "9"]
IdZeros == <<"0", "0", "1">>

L(cmd, args) == [eof |-> FALSE, cmd |-> cmd, args |-> args]

MCLines ==
  { [eof |-> TRUE, cmd |-> "", args |-> <<>>], L("", <<>>),
    L("quit", <<>>), L("QUIT", <<>>), L("help", <<>>), L("frobnicate", <<>>),
    L("list_nb", <<>>), L("create_user", <<>>),
    L("list_by_iata", <<Nce>>), L("List_By_Iata", <<<<"N", "C">> >>),
    L("list_by_iata", <<Nce, Jfk>>), L("list_by_iata", <<>>),
    L("list_by_icao", <<Lfmn>>), L("list_by_icao", <<Nce>>),
    L("list_by_faa", <<Jfk>>), L("list_by_faa", <<Lfmn>>),
    L("list_by_faa", <<<<"j", "-", "k">> >>),
    L("list_by_geonameid", <<MCDefaultGeonameID>>),
    L("list_by_geonameid", <<MCGeonamesIDMax>>),
    L("list_by_geonameid", <<IdZeros>>),
    L("list_by_geonameid", <<IdOver>>), L("list_by_geonameid", <<IdEleven>>),
    L("list_all", <<>>), L("fill_from_por_file", <<>>),
    L("reset_connection_string", <<Nce, Lfmn>>), L("reset_connection_string", <<>>) }

=============================================================================
