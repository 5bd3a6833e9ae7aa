------------------------------ MODULE MCQuery ------------------------------
(***************************************************************************)
(* An index with San Francisco, Rio de Janeiro, San Juan and a second     *)
(* document holding "rio", the misspellings of spec 8's scenarios, and    *)
(* queries from those scenarios and around them.  "xyz" and "paris" are  *)
(* in no document.                                                         *)
(***************************************************************************)
EXTENDS Query, TLC

MCWords == {"san", "francisco", "francicso", "rio", "de", "janeiro",
            "janero", "juan", "xyz", "paris"}

\* 1 San Francisco, 2 Rio de Janeiro, 3 San Juan, 4 another "rio" place with
\* the page rank of 2, so that "rio" ties on weight and page rank.
MCDocTerms == (1 :> {"san", "francisco"}) @@ (2 :> {"rio", "de", "janeiro"})
           @@ (3 :> {"san", "juan"}) @@ (4 :> {"rio"})
MCPageRank == (1 :> 1) @@ (2 :> 2) @@ (3 :> 5) @@ (4 :> 2)

MCSuggest == [w \in MCWords |-> CASE w = "francicso" -> "francisco"
                                  [] w = "janero" -> "janeiro"
                                  [] OTHER -> w]

E1 == <<"san", "francicso", "rio", "de", "janero">>
E2 == <<"rio", "de", "janero">>

MCQueries == {E1, E2, <<>>, <<"san">>, <<"rio">>, <<"xyz">>,
              <<"san", "juan">>, <<"xyz", "rio">>,
              <<"san", "francisco", "xyz">>, <<"rio", "san">>,
              <<"juan", "de", "janeiro">>,
              \* resolved, as a whole, by the corrected phrase shrunk once from
              \* the right, once from the left, and twice from the right
              <<"rio", "xyz", "juan">>, <<"xyz", "paris", "rio">>,
              <<"rio", "xyz", "paris", "juan">>}

(***************************************************************************)
(* Spec 8, scenario E1: "san francicso rio de janero" is read as the two  *)
(* slices "san francicso" and "rio de janero", resolved to San Francisco  *)
(* and Rio de Janeiro.                                                     *)
(***************************************************************************)
ScenarioE1 ==
    query = E1 /\ phase = "best_selected" =>
        /\ holders[best] = <<<<"san", "francicso">>, <<"rio", "de", "janero">>>>
        /\ [j \in DOMAIN results[best] |-> results[best][j].doc] = <<1, 2>>

=============================================================================
