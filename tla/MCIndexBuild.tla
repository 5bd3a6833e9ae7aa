---------------------------- MODULE MCIndexBuild ----------------------------
(* Model values and small POR files for checking IndexBuild with TLC.      *)
EXTENDS IndexBuild, TLC

CONSTANTS k1, k2, t1, t2, t3, b1, b2

(* k1 and k2 share the term t2, as two Places sharing a word do; the      *)
(* common name "NotAvailable" would yield a term of its own.              *)
MCTermsOf == (k1 :> {t1, t2}) @@ (k2 :> {t2, t3}) @@ (NotAvailable :> {t3})

(* k2 is the more prominent Place, so it wins a tie on a shared term.      *)
MCPageRankOf == (k1 :> 1) @@ (k2 :> 3) @@ (NotAvailable :> 0)

(* The previous build indexed only k2.                                     *)
MCOldPORFile == <<k2>>

(* Two relevant lines around a skipped "NotAvailable" line.               *)
MCPORFileOne == b1 :> <<k1, NotAvailable, k2>>

(* The POR file path given to the build does not exist.                   *)
MCPORFileMissing == b1 :> Missing

(* Two builders on the same directory: the second one's file is missing. *)
MCPORFileTwo == (b1 :> <<k1, NotAvailable, k2>>) @@ (b2 :> Missing)

=============================================================================
