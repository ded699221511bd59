--------------------------- MODULE MCStaticFiles ---------------------------
(***************************************************************************)
(* A root with its index, and d, a file or a directory with an index.      *)
(***************************************************************************)
EXTENDS StaticFiles

MCNames == {<<"index">>, <<"d">>, <<"d", "index">>}

(* Clean paths, paths to clean, and one of nothing; the root is in none    *)
(* but the last set.                                                       *)
MCUrls == {<<"d">>, <<"d", "">>, <<"", "d", "x", "..", ".", "index">>,
           <<"..", "nowhere">>}
AllUrls == MCUrls \cup {<<"">>}
============================================================================
