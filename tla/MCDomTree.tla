----------------------------- MODULE MCDomTree -----------------------------
(***************************************************************************)
(* Small worlds for TLC.  The names say what a node is: d document, e      *)
(* element, t text, h attribute, r reference, n entity, s DTD.             *)
(***************************************************************************)
EXTENDS DomTree

CONSTANTS d1, d2, e1, e2, t1, t2, h1, h2, r1, n1, s1

(* Entities and SetAttribute's attributes are on the heap.  So is the DTD;  *)
(* it counts with the document that made it and that owns it.  The two      *)
(* attributes have one QName in two namespaces.                             *)
WorldOf(nodes, content, replace) == [
  node |-> nodes,
  kind |-> [x \in nodes |->
    CASE x \in {d1, d2} -> "Document" [] x \in {e1, e2} -> "Element"
      [] x \in {t1, t2} -> "Text" [] x \in {h1, h2} -> "Attribute"
      [] x = r1 -> "EntityRef" [] x = n1 -> "Entity" [] x = s1 -> "DTD"],
  home |-> [x \in nodes |->
    CASE x \in {d2, e2, t2} /\ d2 \in nodes -> d2
      [] x \in {h1, h2, n1} -> Nil
      [] OTHER -> d1],
  qname |-> [x \in {h1, h2} |-> "p:x"],
  expanded |-> [x \in {h1, h2} |-> IF x = h1 THEN "urn:1 x" ELSE "urn:2 x"],
  declared |-> IF s1 \in nodes THEN <<n1>> ELSE << >>,
  subset |-> IF s1 \in nodes THEN s1 ELSE Nil,
  refEntity |-> [x \in {r1} |-> IF s1 \in nodes THEN n1 ELSE Nil],
  maxContent |-> content,
  maxReplace |-> replace,
  reowns |-> FALSE]

(* One document of two elements with a text, re-owned at will, or with an   *)
(* attribute; an element and two attributes; two documents that exchange    *)
(* nodes; and a document with a reference to a declared entity.             *)
EditWorlds ==
  {[WorldOf({d1, e1, e2, t1}, 2, 1) EXCEPT !.reowns = TRUE],
   WorldOf({d1, e1, e2, h1}, 1, 2),
   WorldOf({d1, e1, h1, h2}, 1, 1),
   WorldOf({d1, d2, e1, t1, t2}, 2, 1),
   WorldOf({d1, s1, n1, r1, e1}, 1, 2)}

(* TLC follows a tree no further once it has gone astray: no property        *)
(* speaks of it, and many calls on it would not return.                     *)
InOrder == ~astray

ReownedWorlds == {[WorldOf({d1, d2, e1, e2}, 1, 1) EXCEPT !.reowns = TRUE]}
=============================================================================
