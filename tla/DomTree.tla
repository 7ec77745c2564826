------------------------------ MODULE DomTree ------------------------------
(***************************************************************************)
(* The document tree of helium: node.go, node_leaf.go, element.go and      *)
(* document.go.  Nodes are cells linked by the raw pointers of docnode     *)
(* (parent, prev, next, firstChild, lastChild) and, on an element, the     *)
(* head of its attribute chain (properties).  Every exported edit is one   *)
(* action that runs the whole method: the guards, the slab-escape marks,   *)
(* the unlink from the old position and the splice into the new one.       *)
(*                                                                         *)
(* The heap is the record dom; an operation is an operator from a heap and *)
(* its operands to the heap it leaves and the error it returns.  A library *)
(* for one goroutine at a time: the interleaving is that of the calls.     *)
(***************************************************************************)
EXTENDS Naturals, Sequences, FiniteSets

CONSTANTS
  Worlds,      \* the clients' allocations, a set of records of the fields below
  Nil          \* the nil pointer

VARIABLES
  world,     \* the nodes the client allocated and what it does with them
  dom,       \* the heap: pointers, owners, character data, slabEscaped
  err,       \* what the last call returned
  freed,     \* documents on which the client called Free
  recycled,  \* documents whose slab chunks went back to the pools
  astray     \* whether a reference took a node as its own child behind the
             \*  Entity of the DTD that it shows (history)

vars == <<world, dom, err, freed, recycled, astray>>

Node == world.node                \* every node ever allocated, documents too
Kind == world.kind                \* [Node -> kind]: the Go type behind the interface
Home == world.home                \* [Node -> document whose slab holds it, or Nil: heap;
                                  \*  the DTD counts with the document that owns it]
QName == world.qname              \* [attributes -> serialized name]
Expanded == world.expanded        \* [attributes -> namespace URI and local name]
Declared == world.declared        \* the entities AddEntity declared, in order
Subset == world.subset            \* the DTD node of CreateInternalSubset, or Nil
RefEntity == world.refEntity      \* [entity references -> the Entity found, or Nil]
MaxContent == world.maxContent    \* bound: pieces of character data in one node
MaxReplace == world.maxReplace    \* bound: operands of one Replace call
Reowns == world.reowns            \* whether the client calls SetTreeDoc

Docs == {n \in Node : Kind[n] = "Document"}
Ptr == Node \cup {Nil}
Attrs == {n \in Node : Kind[n] = "Attribute"}
CharData == {n \in Node : Kind[n] \in {"Text", "Comment", "CDATA", "PI"}}

ASSUME DomAssumption == \A w \in Worlds :
  /\ Nil \notin w.node
  /\ IsFiniteSet(w.node)
  /\ w.kind \in [w.node -> {"Document", "Element", "Attribute", "Text", "Comment",
                            "CDATA", "PI", "EntityRef", "Entity", "DTD"}]
  /\ w.home \in [w.node -> w.node \cup {Nil}]
  /\ \A n \in w.node : w.home[n] # Nil => w.kind[w.home[n]] = "Document"
  /\ \A n \in w.node : w.kind[n] = "Document" => w.home[n] = n
  /\ w.declared \in Seq({n \in w.node : w.kind[n] = "Entity"})
  /\ \A i, j \in DOMAIN w.declared : w.declared[i] = w.declared[j] => i = j
  /\ \A i \in DOMAIN w.declared : w.home[w.declared[i]] = Nil
  /\ w.subset \in {n \in w.node : w.kind[n] = "DTD" /\ w.home[n] # Nil} \cup {Nil}
  /\ w.declared # << >> => w.subset # Nil
  /\ \A n \in w.node : w.kind[n] = "EntityRef" =>
       w.refEntity[n] = Nil \/ \E i \in DOMAIN w.declared : w.refEntity[n] = w.declared[i]
  /\ w.maxContent \in Nat /\ w.maxReplace \in Nat

-----------------------------------------------------------------------------
(* Walking the pointers.                                                    *)

Put(f, x, v) == IF x = Nil THEN f ELSE [f EXCEPT ![x] = v]

(* The nodes met from x by following the pointer field step; a cyclic chain *)
(* is cut after every node was met once more, where the code would spin.    *)
Walk(step, x) ==
  LET onward == [y \in Ptr |-> IF y = Nil THEN Nil ELSE step[y]]
      at[k \in 0 .. Cardinality(Node)] == IF k = 0 THEN x ELSE onward[at[k - 1]]
      met == {k \in 0 .. Cardinality(Node) : at[k] # Nil}
  IN  [i \in 1 .. Cardinality(met) |-> at[i - 1]]

Elems(s) == {s[i] : i \in DOMAIN s}

Tail1(s) == s[Len(s)]

(* NextAttribute: the next sibling, if it is an attribute.                  *)
NextAttribute(h) ==
  [n \in Node |-> IF h.next[n] \in Attrs THEN h.next[n] ELSE Nil]

Properties(h, e) == Walk(NextAttribute(h), h.props[e])

(* The attribute x is in its parent element's property chain, not in the    *)
(* child list a generic Replace or AddSibling may have put it into.         *)
IsProperty(h, x) ==
  /\ x \in Attrs
  /\ h.parent[x] # Nil
  /\ Kind[h.parent[x]] = "Element"
  /\ x \in Elems(Properties(h, h.parent[x]))

(* The children a traversal enumerates: it stops after a foreign child.     *)
OwnChildren(h, p) ==
  Elems(Walk([c \in Node |-> IF h.parent[c] = p THEN h.next[c] ELSE Nil], h.first[p]))

(* Everything childReaches visits from x, x included.                       *)
Reached(h, x) ==
  LET further == [s \in SUBSET Node |-> s \cup UNION {OwnChildren(h, p) : p \in s}]
      seen[k \in 0 .. Cardinality(Node)] == IF k = 0 THEN {x} ELSE further[seen[k - 1]]
  IN  seen[Cardinality(Node)]

(* Mutant: the ancestor walk alone, blind to a reference's shared Entity.   *)
AncestorIsOperand(h, p, cur) == cur \in Elems(Walk(h.parent, p))

WouldCreateCycle(h, p, cur) ==
  \/ cur \in Elems(Walk(h.parent, p))
  \/ p # Nil /\ h.first[cur] # Nil /\ p \in Reached(h, cur)

-----------------------------------------------------------------------------
(* The steps the edits share.                                               *)

Done(h) == [dom |-> h, err |-> "nil"]
Fail(h, e) == [dom |-> h, err |-> e]

DestinationDocument(h, n) == IF Kind[n] = "Document" THEN n ELSE h.owner[n]

(* Mutant: the destination is marked instead of the source.                 *)
NoteDestinationEscape(h, dest, cur) ==
  [h EXCEPT !.escaped = IF h.owner[cur] \in {Nil, dest} THEN @ ELSE @ \cup ({dest} \ {Nil})]


NoteCrossDocumentEscape(h, dest, cur) ==
  [h EXCEPT !.escaped = @ \cup ({h.owner[cur]} \ {Nil, dest})]

(* unlinkNode, and spliceOutAttribute when x is a property.                 *)
Unlink(h, x) ==
  LET p == h.parent[x]
      before == h.prev[x]
      after == h.next[x]
      prop == IsProperty(h, x)
  IN  [h EXCEPT
        !.props = IF prop /\ @[p] = x
                    THEN [@ EXCEPT ![p] = NextAttribute(h)[x]] ELSE @,
        !.first = IF ~prop /\ p # Nil /\ @[p] = x THEN [@ EXCEPT ![p] = after] ELSE @,
        !.last = IF ~prop /\ p # Nil /\ @[p] = x THEN [@ EXCEPT ![p] = before] ELSE @,
        !.next = [Put(@, before, after) EXCEPT ![x] = Nil],
        !.prev = [Put(@, after, before) EXCEPT ![x] = Nil],
        !.parent = [@ EXCEPT ![x] = Nil]]

(* Mutant: the auto-unlink is skipped.                                      *)
StaysLinked(h, x) == h


UnlinkIfLinked(h, x) ==
  IF h.parent[x] # Nil \/ h.prev[x] # Nil \/ h.next[x] # Nil THEN Unlink(h, x) ELSE h

AddChildPreflight(h, n, cur) ==
  LET marked == NoteCrossDocumentEscape(h, DestinationDocument(h, n), cur)
  IN  IF WouldCreateCycle(h, n, cur)
        THEN Fail(marked, "ErrCyclicNode")
        ELSE Done(UnlinkIfLinked(marked, cur))

AddSiblingPreflight(h, n, cur) ==
  LET marked == NoteCrossDocumentEscape(h, h.owner[n], cur)
  IN  IF cur = n \/ WouldCreateCycle(h, h.parent[n], cur)
        THEN Fail(marked, "ErrCyclicNode")
        ELSE Done(UnlinkIfLinked(marked, cur))

AttrMatches(a, b) == Expanded[a] = Expanded[b] \/ QName[a] = QName[b]

(* addProperty: the first colliding attribute gives up its place to a, or   *)
(* a becomes the last property.                                             *)
AddProperty(h, e, a) ==
  LET chain == Properties(h, e)
      hits == {i \in DOMAIN chain : AttrMatches(chain[i], a)}
      old == chain[CHOOSE i \in hits : \A j \in hits : i <= j]
  IN  IF chain = << >>
        THEN [h EXCEPT !.props[e] = a, !.parent[a] = e]
      ELSE IF hits = {}
        THEN [h EXCEPT !.next[Tail1(chain)] = a, !.prev[a] = Tail1(chain),
                       !.parent[a] = e]
      ELSE [h EXCEPT
             !.props[e] = IF @ = old THEN a ELSE @,
             !.next = [Put(@, h.prev[old], a) EXCEPT ![a] = h.next[old], ![old] = Nil],
             !.prev = [Put(@, h.next[old], a) EXCEPT ![a] = h.prev[old], ![old] = Nil],
             !.parent[a] = e, !.parent[old] = Nil]

(* Text.AppendText and its kin: the bytes are copied, cur keeps its own.    *)
Merge(h, n, cur) == [h EXCEPT !.content[n] = @ \o h.content[cur]]

-----------------------------------------------------------------------------
(* AddSibling.                                                              *)

LinkAtEnd(h, n, cur) ==
  LET end == Tail1(Walk(h.next, n))
      p == h.parent[end]
  IN  [h EXCEPT !.next[end] = cur, !.prev[cur] = end, !.parent[cur] = p,
                !.last = Put(@, p, cur)]

LinkAtEndOfChain(h, n, cur) ==
  LET end == Tail1(Walk(h.next, n))
  IN  [h EXCEPT !.next[end] = cur, !.prev[cur] = end, !.parent[cur] = h.parent[n]]

(* Mutant: an attribute's siblings go through the child-list path.          *)
ChildListAddSibling(h, n, cur) ==
  LET pre == AddSiblingPreflight(h, n, cur)
  IN  IF pre.err # "nil" THEN pre ELSE Done(LinkAtEnd(pre.dom, n, cur))

(* Mutant: an attribute's operand is unlinked before its type is checked.   *)
GenericAddSiblingChecksLate(h, n, cur) ==
  LET pre == AddSiblingPreflight(h, n, cur)
  IN  CASE pre.err # "nil" -> pre
        [] pre.err = "nil" /\ IsProperty(h, n) ->
             IF cur \notin Attrs THEN Fail(pre.dom, "ErrInvalidOperation")
             ELSE Done(LinkAtEndOfChain(pre.dom, n, cur))
        [] OTHER -> Done(LinkAtEnd(pre.dom, n, cur))


GenericAddSibling(h, n, cur) ==
  IF IsProperty(h, n)
    THEN IF cur \notin Attrs
           THEN Fail(h, "ErrInvalidOperation")
           ELSE LET pre == AddSiblingPreflight(h, n, cur)
                IN  IF pre.err # "nil" THEN pre
                    ELSE Done(LinkAtEndOfChain(pre.dom, n, cur))
    ELSE LET pre == AddSiblingPreflight(h, n, cur)
         IN  IF pre.err # "nil" THEN pre ELSE Done(LinkAtEnd(pre.dom, n, cur))

TextAddSibling(h, n, cur) ==
  LET pre == AddSiblingPreflight(h, n, cur)
  IN  IF pre.err # "nil" THEN pre
      ELSE IF Kind[cur] = "Text" THEN Done(Merge(pre.dom, n, cur))
      ELSE GenericAddSibling(pre.dom, n, cur)

AddSiblingResult(h, n, cur) ==
  CASE Kind[n] = "Document" -> Fail(h, "no sibling of a document")
    [] Kind[n] = "Text" -> TextAddSibling(h, n, cur)
    [] OTHER -> GenericAddSibling(h, n, cur)

-----------------------------------------------------------------------------
(* AddChild.                                                                *)

(* cur is detached; n takes it as its last child.                           *)
LinkLastChild(h, n, cur) ==
  LET l == h.last[n]
      texts == l # Nil /\ Kind[l] = "Text" /\ Kind[cur] = "Text"
  IN  IF l = Nil
        THEN Done([h EXCEPT !.first[n] = cur, !.last[n] = cur, !.parent[cur] = n])
      ELSE IF h.next[l] = Nil /\ ~texts
        THEN Done([h EXCEPT !.next[l] = cur, !.prev[cur] = l, !.parent[cur] = n,
                            !.last[n] = cur])
      ELSE LET sib == AddSiblingResult(h, l, cur)
           IN  IF sib.err = "nil" /\ texts
                 THEN Done([sib.dom EXCEPT !.last[n] = l]) ELSE sib

GenericAddChild(h, n, cur) ==
  IF cur \in Attrs /\ Kind[n] # "Element"
    THEN Fail(h, "ErrInvalidOperation")
    ELSE LET pre == AddChildPreflight(h, n, cur)
         IN  CASE pre.err # "nil" -> pre
               [] pre.err = "nil" /\ cur \in Attrs -> Done(AddProperty(pre.dom, n, cur))
               [] OTHER -> LinkLastChild(pre.dom, n, cur)

(* What a leaf absorbs instead of taking it as a child.                     *)
Absorbs(n, cur) ==
  \/ Kind[n] \in {"Text", "Comment"} /\ Kind[cur] = Kind[n]
  \/ Kind[n] = "PI" /\ Kind[cur] \in {"Text", "CDATA"}

LeafAddChild(h, n, cur) ==
  IF Absorbs(n, cur)
    THEN LET pre == AddChildPreflight(h, n, cur)
         IN  IF pre.err # "nil" THEN pre ELSE Done(Merge(pre.dom, n, cur))
    ELSE Fail(h, IF Kind[n] = "PI" /\ cur = n THEN "ErrCyclicNode"
                 ELSE "ErrInvalidOperation")

AddChildResult(h, n, cur) ==
  IF n \in CharData THEN LeafAddChild(h, n, cur) ELSE GenericAddChild(h, n, cur)

-----------------------------------------------------------------------------
(* Replace.                                                                 *)

(* Mutant: the replacements stay linked where they were.                    *)
UnlinkNone(h, ns, n) == h


UnlinkAll(h, ns, n) ==
  LET after[k \in 0 .. Len(ns)] ==
        IF k = 0 THEN h
        ELSE IF ns[k] = n THEN after[k - 1] ELSE Unlink(after[k - 1], ns[k])
  IN  after[Len(ns)]

(* The replacements are detached; they take n's place, in order.            *)
Splice(h, n, ns, attrList) ==
  LET cur == ns[1]
      end == Tail1(ns)
      p == h.parent[n]
      afterN == h.next[n]
      pos(x) == CHOOSE i \in DOMAIN ns : ns[i] = x
      ins == Elems(ns)
      placed == [h EXCEPT
        !.next = [x \in Node |->
                    CASE x \in ins -> IF x = end THEN afterN ELSE ns[pos(x) + 1]
                      [] x \notin ins /\ x = h.prev[n] -> cur
                      [] OTHER -> @[x]],
        !.prev = [x \in Node |->
                    CASE x \in ins -> IF x = cur THEN h.prev[n] ELSE ns[pos(x) - 1]
                      [] x \notin ins /\ x = afterN -> end
                      [] OTHER -> @[x]],
        !.parent = [x \in Node |-> IF x \in ins THEN p ELSE @[x]],
        !.props = IF p # Nil /\ attrList /\ @[p] = n THEN [@ EXCEPT ![p] = cur] ELSE @,
        !.first = IF p # Nil /\ ~attrList /\ @[p] = n THEN [@ EXCEPT ![p] = cur] ELSE @,
        !.last = IF p = Nil \/ attrList THEN @
                 ELSE IF afterN = Nil /\ Len(ns) > 1 THEN [@ EXCEPT ![p] = end]
                 ELSE IF @[p] = n THEN [@ EXCEPT ![p] = cur] ELSE @]
  IN  IF n \in ins THEN placed
      ELSE [placed EXCEPT !.parent[n] = Nil, !.prev[n] = Nil, !.next[n] = Nil]

(* The cycle guard of Replace stops at the first operand it refuses, and    *)
(* has marked the operands up to it.                                        *)
ReplaceResult(h, n, ns) ==
  LET attrList == IsProperty(h, n)
      p == h.parent[n]
      bad == {i \in DOMAIN ns : ns[i] # n /\ WouldCreateCycle(h, p, ns[i])}
      checked == {i \in DOMAIN ns : ns[i] # n /\ \A j \in bad : i <= j}
      marked == [h EXCEPT !.escaped =
                   @ \cup ({h.owner[ns[i]] : i \in checked} \ {Nil, h.owner[n]})]
  IN  CASE Kind[n] = "Document" \/ ns = << >> -> Fail(h, "ErrInvalidOperation")
        [] Kind[n] # "Document" /\ ns # << >>
             /\ (\/ attrList /\ \E x \in Elems(ns) : x # n /\ x \notin Attrs
                 \/ \E i, j \in DOMAIN ns : i < j /\ ns[i] = ns[j]) -> Fail(h, "ErrInvalidOperation")
        [] OTHER -> IF bad # {} THEN Fail(marked, "ErrCyclicNode")
                    ELSE Done(Splice(UnlinkAll(marked, ns, n), n, ns, attrList))

-----------------------------------------------------------------------------
(* Ownership.                                                               *)

(* setTreeDoc and setListDoc: a node that already reports doc is left alone *)
(* with all that hangs below it; attributes are always re-owned; a child    *)
(* list is followed by its raw next pointers.                               *)
Reowned(h, x, doc) ==
  LET below(y) ==
        (IF Kind[y] = "Element" THEN Elems(Properties(h, y)) ELSE {})
          \cup {c \in Elems(Walk(h.next, h.first[y])) : h.owner[c] # doc}
      met[k \in 0 .. Cardinality(Node)] ==
        IF k = 0 THEN {y \in {x} : h.owner[y] # doc}
        ELSE LET s == met[k - 1] IN s \cup UNION {below(y) : y \in s}
  IN  met[Cardinality(Node)]

SetTreeDocResult(h, x, doc) ==
  [h EXCEPT !.owner = [y \in Node |-> IF y \in Reowned(h, x, doc) THEN doc ELSE @[y]]]

(* The nodes at the top of the tree x hangs in: its topmost ancestor and    *)
(* that one's siblings.  The client gives a tree up when it frees the       *)
(* document that holds, or for a heap node owns, one of them.               *)
Tops(h, x) ==
  LET top == Tail1(Walk(h.parent, x))
  IN  Elems(Walk(h.prev, top)) \cup Elems(Walk(h.next, top))
Holder(y) == IF Home[y] = Nil THEN dom.owner[y] ELSE Home[y]
InUse(x) == \A y \in Tops(dom, x) : Holder(y) \notin freed

-----------------------------------------------------------------------------
(* The specification.  Create* calls have allocated the nodes: they are     *)
(* detached, but for the entities declared in the internal subset.          *)

Position(x) == CHOOSE i \in DOMAIN Declared : Declared[i] = x

Init ==
  /\ world \in Worlds
  /\ dom = [
       parent |-> [x \in Node |-> CASE x \in Elems(Declared) -> Subset
                                    [] x = Subset -> Home[Subset]
                                    [] OTHER -> Nil],
       next |-> [x \in Node |-> IF x \in Elems(Declared) /\ x # Tail1(Declared)
                                  THEN Declared[Position(x) + 1] ELSE Nil],
       prev |-> [x \in Node |-> IF x \in Elems(Declared) /\ x # Declared[1]
                                  THEN Declared[Position(x) - 1] ELSE Nil],
       first |-> [x \in Node |->
                    CASE x = Subset /\ Declared # << >> -> Declared[1]
                      [] x \in Docs /\ Subset # Nil /\ x = Home[Subset] -> Subset
                      [] Kind[x] = "EntityRef" -> RefEntity[x]
                      [] OTHER -> Nil],
       last |-> [x \in Node |->
                   CASE x = Subset /\ Declared # << >> -> Tail1(Declared)
                     [] x \in Docs /\ Subset # Nil /\ x = Home[Subset] -> Subset
                     [] Kind[x] = "EntityRef" -> RefEntity[x]
                     [] OTHER -> Nil],
       props |-> [x \in Node |-> Nil],
       owner |-> [x \in Node |-> CASE x \in Docs -> Nil
                                   [] x \in Elems(Declared) -> Home[Subset]
                                   [] OTHER -> Home[x]],
       content |-> [x \in Node |-> IF x \in CharData THEN <<x>> ELSE << >>],
       escaped |-> {}]
  /\ err = "nil"
  /\ freed = {}
  /\ recycled = {}
  /\ astray = FALSE

Returns(result) ==
  /\ dom' = result.dom
  /\ err' = result.err
  /\ \A x \in Node : Len(result.dom.content[x]) <= MaxContent
  /\ UNCHANGED <<world, freed, recycled>>

(* A reference whose only child is the Entity of the DTD.  addChild takes   *)
(* that Entity for the end of the reference's own list: when more follows   *)
(* it in the list it really is in, cur goes to the end of that list; when   *)
(* nothing does, cur is linked behind it and gets the reference as parent.  *)
(* Then one list hangs from two nodes, and the tree has gone astray.        *)
HoldsEntity(n) == Kind[n] = "EntityRef" /\ dom.first[n] # Nil /\ dom.parent[dom.first[n]] # n

StraysIfTaken(n, cur) == astray' = (astray \/ (HoldsEntity(n) /\ dom'.parent[cur] = n))

Detached(x) == dom.parent[x] = Nil /\ dom.prev[x] = Nil /\ dom.next[x] = Nil

AddChild(n, cur) ==
  /\ InUse(n) /\ InUse(cur)
  /\ Returns(AddChildResult(dom, n, cur))
  /\ StraysIfTaken(n, cur)

AddSibling(n, cur) ==
  /\ InUse(n) /\ InUse(cur)
  /\ Returns(AddSiblingResult(dom, n, cur))
  /\ UNCHANGED astray

Replace(n, ns) ==
  /\ InUse(n) /\ \A x \in Elems(ns) : InUse(x)
  /\ Returns(ReplaceResult(dom, n, ns))
  /\ UNCHANGED astray

UnlinkNode(n) ==
  /\ InUse(n)
  /\ Returns(Done(Unlink(dom, n)))
  /\ UNCHANGED astray

(* SetAttribute and SetAttributeNS: a is the heap-allocated attribute they  *)
(* make; it goes into the chain without the preflight of AddChild.          *)
SetAttribute(e, a) ==
  /\ InUse(e)
  /\ Kind[e] = "Element" /\ a \in Attrs /\ Home[a] = Nil /\ Detached(a)
  /\ dom.first[a] = Nil
  /\ Returns(Done(AddProperty([dom EXCEPT !.owner[a] = dom.owner[e]], e, a)))
  /\ UNCHANGED astray

(* RemoveAttribute and RemoveAttributeNS take the first match.              *)
RemoveAttribute(e, a) ==
  /\ InUse(e)
  /\ Kind[e] = "Element"
  /\ LET chain == Properties(dom, e)
     IN  \E i \in DOMAIN chain :
           /\ chain[i] = a
           /\ \/ \A j \in 1 .. i - 1 : QName[chain[j]] # QName[a]
              \/ \A j \in 1 .. i - 1 : Expanded[chain[j]] # Expanded[a]
  /\ Returns(Done(Unlink(dom, a)))
  /\ UNCHANGED astray

(* appendText: x stands for the bytes, and for the Text node made of them   *)
(* when the last child is not a Text.                                       *)
AppendText(n, x) ==
  /\ InUse(n)
  /\ Kind[x] = "Text" /\ Detached(x) /\ x # n /\ InUse(x)
  /\ dom.owner[x] = dom.owner[n]
  /\ LET l == dom.last[n]
     IN  Returns(CASE n \in CharData -> Done(Merge(dom, n, x))
                   [] n \notin CharData /\ l # Nil /\ Kind[l] = "Text" ->
                        Done(Merge(dom, l, x))
                   [] OTHER -> AddChildResult(dom, n, x))
  /\ StraysIfTaken(n, x)

SetDocumentElement(d, root) ==
  /\ InUse(d) /\ InUse(root)
  /\ Kind[d] = "Document"
  /\ LET children == Walk([c \in Node |-> IF dom.parent[c] = d THEN dom.next[c] ELSE Nil],
                          dom.first[d])
         roots == {i \in DOMAIN children : Kind[children[i]] = "Element"}
         old == children[CHOOSE i \in roots : \A j \in roots : i <= j]
     IN  Returns(CASE Kind[root] # "Element" -> Fail(dom, "ErrInvalidOperation")
                   [] Kind[root] = "Element" /\ roots = {} -> AddChildResult(dom, d, root)
                   [] OTHER -> ReplaceResult(dom, old, <<root>>))
  /\ UNCHANGED astray

SetTreeDoc(n, d) ==
  /\ Reowns
  /\ InUse(n) /\ d \notin freed
  /\ Returns(Done(SetTreeDocResult(dom, n, d)))
  /\ UNCHANGED astray

(* The chunks go back to the pools, where the next parse takes them, unless *)
(* a node escaped into another document.                                    *)
Free(d) ==
  /\ d \in Docs \ freed
  /\ freed' = freed \cup {d}
  /\ recycled' = IF d \in dom.escaped THEN recycled ELSE recycled \cup {d}
  /\ err' = "nil"
  /\ UNCHANGED <<world, dom, astray>>

Operand == Node \ Docs

Next ==
  \/ \E n \in Node, cur \in Operand : AddChild(n, cur)
  \/ \E n \in Node, cur \in Operand : AddSibling(n, cur)
  \/ \E n \in Node, ns \in UNION {[1 .. k -> Operand] : k \in 0 .. MaxReplace} : Replace(n, ns)
  \/ \E n \in Operand : UnlinkNode(n)
  \/ \E e \in Node, a \in Attrs : SetAttribute(e, a)
  \/ \E e \in Node, a \in Attrs : RemoveAttribute(e, a)
  \/ \E n \in Node, x \in Operand : AppendText(n, x)
  \/ \E d \in Docs, root \in Operand : SetDocumentElement(d, root)
  \/ \E n \in Operand, d \in Docs : SetTreeDoc(n, d)
  \/ \E d \in Docs : Free(d)

Spec == Init /\ [][Next]_vars

-----------------------------------------------------------------------------
(* Properties.                                                              *)

TypeOK ==
  /\ \A f \in {"parent", "next", "prev", "first", "last", "props", "owner"} :
       dom[f] \in [Node -> Ptr]
  /\ dom.escaped \subseteq Docs
  /\ err \in {"nil", "ErrCyclicNode", "ErrInvalidOperation", "no sibling of a document"}
  /\ freed \subseteq Docs /\ recycled \subseteq freed

(* "the guarded AddChild / AddSibling / Replace / UnlinkNode operations ...  *)
(* keep the reciprocal back-pointers consistent" (node.go): next and prev    *)
(* are inverse and siblings share their parent; a node with a parent is in   *)
(* exactly the list the parent's head pointer leads to, and firstChild,      *)
(* lastChild and properties point at the ends of the node's own lists.  A    *)
(* reference that holds the DTD's Entity is the one foreign child pointer.   *)
(* It holds until the tree goes astray: EntityRef.AddChild and AppendText    *)
(* may link a node behind that Entity with the reference as its parent.      *)
WellLinked ==
  ~astray =>
  /\ \A x, y \in Node :
       /\ dom.next[x] = y <=> dom.prev[y] = x
       /\ dom.next[x] = y => dom.parent[x] = dom.parent[y]
  /\ \A x \in Node : LET p == dom.parent[x] IN
       p # Nil =>
         IF IsProperty(dom, x)
           THEN x \notin Elems(Walk(dom.next, dom.first[p]))
           ELSE /\ x \in Elems(Walk(dom.next, dom.first[p]))
                /\ dom.next[x] = Nil => dom.last[p] = x
  /\ \A p \in Node :
       /\ dom.first[p] = Nil <=> dom.last[p] = Nil
       /\ dom.first[p] # Nil /\ ~HoldsEntity(p) =>
            /\ dom.parent[dom.first[p]] = p /\ dom.prev[dom.first[p]] = Nil
            /\ dom.parent[dom.last[p]] = p /\ dom.next[dom.last[p]] = Nil
       /\ dom.props[p] # Nil =>
            dom.parent[dom.props[p]] = p /\ dom.prev[dom.props[p]] = Nil

(* "... and reject cycles" (node.go): until the tree goes astray, no node is *)
(* reached from its own children, also through the Entity two references    *)
(* share, so every traversal of the tree ends.  The step that leads astray  *)
(* may close a cycle: a DTD whose last child is the Entity becomes its own   *)
(* child when it is added to the reference.                                 *)
Acyclic ==
  ~astray =>
  \A x \in Node : \A c \in OwnChildren(dom, x) : x \notin Reached(dom, c)

(* A call that returns an error "leaves the tree untouched" (node.go): also *)
(* when the guard that refuses is one the method reaches after other steps. *)
(* Only a call that adds to a reference which holds the DTD's Entity may    *)
(* have taken the operand out of its place before AddSibling refuses it.    *)
RejectedUntouched ==
  [][~astray /\ err' # "nil" =>
       \/ dom' = [dom EXCEPT !.escaped = dom'.escaped]
       \/ \E n \in Node, cur \in Operand :
            /\ HoldsEntity(n) /\ AddChild(n, cur)
            /\ dom' = [UnlinkIfLinked(dom, cur) EXCEPT !.escaped = dom'.escaped]]_vars

(* The concatenated character data below n, in document order.              *)
TextBelow(h, n) ==
  LET value[k \in 0 .. Cardinality(Node)] ==
        [x \in Node |->
           IF x \in CharData THEN h.content[x]
           ELSE IF k = 0 THEN << >>
           ELSE LET kids == IF h.first[x] # Nil /\ h.parent[h.first[x]] = x
                              THEN Walk(h.next, h.first[x]) ELSE << >>
                    upto[i \in 0 .. Len(kids)] ==
                      IF i = 0 THEN << >> ELSE upto[i - 1] \o value[k - 1][kids[i]]
                IN  upto[Len(kids)]]
  IN  value[Cardinality(Node)][n]

(* Adding character data to an element adds exactly that data at the end of *)
(* its text, whether AddChild links the node, merges it into the last Text  *)
(* child or takes it out of the same element first, until the tree goes      *)
(* astray.                                                                  *)
TextIsAppended ==
  [][\A n \in Node, cur \in CharData :
       /\ ~astray /\ err' = "nil" /\ (dom'.parent[cur] = n \/ dom'.content # dom.content)
       /\ Kind[n] \in {"Element", "Document"}
       /\ AddChild(n, cur)
       => TextBelow(dom', n) = TextBelow(Unlink(dom, cur), n) \o dom.content[cur]]_vars

(* "a moved node still references one of [the chunks], so returning it to   *)
(* the pool would let a later parse overwrite the live node" (document.go): *)
(* no node in a tree that is still in use lives in a recycled slab.         *)
SlabSafe ==
  \A x \in Node : InUse(x) => Home[x] \notin recycled

(* The rows of the heap: one for every node without a previous sibling.     *)
Rows ==
  {[owner |-> dom.parent[x],
    list |-> IF IsProperty(dom, x) THEN "attr" ELSE "child",
    seq |-> Walk(dom.next, x)] : x \in {y \in Operand : dom.prev[y] = Nil}}

Forest == INSTANCE DomRows WITH member <- Operand, rows <- Rows, lost <- astray

(* The pointers implement the forest of rows of DomRows: every method is    *)
(* one edit of it, or none, as long as no reference took a node behind the  *)
(* Entity it shows.                                                         *)
ImplementsRows == Forest!RowsSpec
=============================================================================
