--------------------------- MODULE MCStreamWriter ---------------------------
(***************************************************************************)
(* The contents a client writes: the pieces of "--", "?>" and "]]>", whole *)
(* and cut, and characters that need an escape.                            *)
(***************************************************************************)
EXTENDS StreamWriter

MCContents ==
  {<<>>, <<"-">>, <<"-", "-">>, <<"?">>, <<">">>, <<"?", ">">>, <<"]", "]">>,
   <<"]", "]", ">">>, <<"<", "q">>, <<"ctl">>, <<"bad">>}
MCValues == {<<>>, <<"<", "q">>, <<"ctl">>, <<"bad">>}
=============================================================================
