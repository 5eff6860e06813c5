---------------------------- MODULE MCJwksFetch ----------------------------
(***************************************************************************)
(* A few servers for JwksFetch.                                            *)
(***************************************************************************)
EXTENDS JwksFetch

AllUris == {"empty", "invalid", "https", "http"}

AllText == {"200", "404", "???", "junk", "h1", "k1", "k2", "k3"}

(* With status 200: no end of the header; a body in three pieces, one that *)
(* contains an empty line, and the empty one.  One answer for each other   *)
(* first line, whose rest is not looked at.                                *)
SomeAnswers ==
  [line : {"200"}, header : {<<"h1">>, << >>}, end : {TRUE},
   body : {<<"k1", "k2", "k3">>, <<"k1", Blank, "k2">>, << >>}]
  \cup [line : {"200"}, header : {<<"h1">>, << >>}, end : {FALSE}, body : {<< >>}]
  \cup [line : {"404", "???", "junk"}, header : {<<"h1">>}, end : {TRUE}, body : {<<"k1">>}]
=============================================================================
