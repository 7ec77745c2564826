----------------------------- MODULE MCDecoder -----------------------------
(***************************************************************************)
(* Documents and TokenReaders for TLC.                                     *)
(***************************************************************************)
EXTENDS Decoder

Plain(k) == [kind |-> k, decl |-> [p \in Prefixes |-> 0]]
Binds(u) == [kind |-> "start", decl |-> [p \in Prefixes |-> u]]
Items(s) == [i \in DOMAIN s |-> Plain(s[i])]

Document(items) ==
  [kind |-> "reader", items |-> items, ends |-> "EOF", early |-> FALSE, prolog |-> <<>>,
   prologErr |-> FALSE, prologOnly |-> FALSE, starts |-> TRUE]
Reader(items) == [Document(items) EXCEPT !.kind = "tokens"]

\* <a xmlns:p="1">..<b xmlns:p="2">.</b>.</a>: a run of text, one cut by CDATA,
\* and one that ends the input when it is broken off there.
Nested == <<Binds(1), Plain("text"), Plain("text"), Binds(2), Plain("text"),
            Plain("cdata"), Plain("end"), Plain("text"), Plain("end")>>

\* Every mix of two pieces of character data, CDATA sections or other markup,
\* before an inner element with or without text, whole or broken off at the end.
Content(n) == UNION {[1 .. k -> {"text", "cdata", "misc"}] : k \in 0 .. n}
Mixed == {Document(<<Binds(1)>> \o Items(s) \o <<Binds(2)>> \o Items(t)
                     \o Items(<<"end", "end">>)) :
            s \in Content(2), t \in {<<>>, <<"text">>}}

MCInputs ==
  Mixed \cup {[d EXCEPT !.ends = "syntax"] : d \in Mixed} \cup
  {Document(Nested),
   [Document(SubSeq(Nested, 1, 8)) EXCEPT !.ends = "syntax", !.prolog = <<"misc", "badDecl">>],
   [Document(<<>>) EXCEPT !.prologErr = TRUE],
   [Document(<<>>) EXCEPT !.prologOnly = TRUE, !.prolog = <<"misc">>],
   [Document(Nested) EXCEPT !.starts = FALSE],
   Document(Items(<<"start", "start", "start", "end", "end", "end">>)),
   Reader(Items(<<"bom", "decl", "start", "nothing", "start", "end", "end">>)),
   [Reader(Items(<<"start", "decl", "start", "oddEnd", "end">>)) EXCEPT !.early = TRUE],
   Reader([i \in 1 .. 6 |-> Plain("start")]),
   [Reader(Items(<<"start", "oddStart", "text">>)) EXCEPT !.ends = "syntax"]}
=============================================================================
