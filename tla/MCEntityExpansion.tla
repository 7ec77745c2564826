------------------------- MODULE MCEntityExpansion -------------------------
(***************************************************************************)
(* Documents with two or three entities for TLC.                           *)
(***************************************************************************)
EXTENDS EntityExpansion

Text == [t |-> "text", e |-> NoEntity]
Open == [t |-> "start", e |-> NoEntity]
Shut == [t |-> "end", e |-> NoEntity]
A == Reference("a")
B == Reference("b")
C == Reference("c")
U == Reference("u")

\* Texts of the outer entity, which may refer to the inner one, to itself, or be
\* broken; texts of the inner one, which may refer back.
OuterTexts ==
  {<<>>, <<B>>, <<B, B>>, <<Text, B>>, <<Open, B, Shut>>, <<A>>, <<Shut, Open>>, <<Open>>}
InnerTexts ==
  {<<>>, <<Text>>, <<Text, Text, Text>>, <<Open, Text, Shut>>, <<Open, Open, Shut, Shut>>,
   <<C, C>>, <<A>>}

\* References side by side, inside elements, and in the other order.
Documents ==
  {<<Open, A, A, Shut>>, <<Open, A, Open, A, Shut, B, Shut>>, <<Open, B, A, B, Shut>>,
   <<Open, C, U, A, C, Shut>>}

In(doc, outer, inner, external, noEnt, dtdValid, noXXE, tree) ==
  [doc |-> doc, declared |-> {"a", "b", "c"}, external |-> external, unreadable |-> {},
   body |-> [e \in {"a", "b", "c"} |->
               CASE e = "a" -> outer [] e = "b" -> inner [] e = "c" -> <<Text, Text>>],
   noEnt |-> noEnt, dtdValid |-> dtdValid, noXXE |-> noXXE, lenient |-> TRUE, tree |-> tree]

Wild ==
  {In(doc, outer, inner, external, noEnt, dtdValid, noXXE, tree) :
     doc \in Documents, outer \in OuterTexts, inner \in InnerTexts,
     external \in {{}, {"b"}, {"a", "c"}}, noEnt, dtdValid, noXXE, tree \in BOOLEAN}

\* The options of external entities matter where there is one.  What follows a
\* stray end tag in an external entity is dropped, and left out here.
Sensible(in) ==
  /\ in.external # {} \/ (in.noXXE /\ ~in.dtdValid)
  /\ "a" \in in.external => Balanced(in.body["a"])

MCInputs ==
  {in \in Wild : Sensible(in) /\ (in.noEnt => in.tree)}
  \cup {[In(<<Open, U, Shut>>, <<>>, <<>>, {}, FALSE, FALSE, TRUE, TRUE) EXCEPT
           !.lenient = FALSE],
        [In(<<Open, A, B, Shut>>, <<B>>, <<Text>>, {"b"}, TRUE, FALSE, FALSE, TRUE) EXCEPT
           !.unreadable = {"b"}]}

\* A handler of events, with entities substituted.
TwiceInputs == {in \in Wild : Sensible(in) /\ in.noEnt /\ ~in.tree}
=============================================================================
