------------------------- MODULE StreamWriterProofs -------------------------
(***************************************************************************)
(* Theorems about StreamWriter for all prefixes, namespaces and contents.  *)
(*                                                                         *)
(* Sound(x) relates the fields of a writer x to the reader of its output;  *)
(* the lemmas show for each call, in each state, that it is refused with   *)
(* nothing changed (the version at most), goes astray, or leads from a     *)
(* sound writer to a sound one.                                            *)
(***************************************************************************)
EXTENDS StreamWriter, FiniteSetTheorems, SequenceTheorems, WellFoundedInduction, TLAPS

\* A set of natural numbers has a least member.
LEMMA LeastNatural ==
  ASSUME NEW T \in SUBSET Nat, T # {}
  PROVE  \E m \in T : \A n \in T : m <= n
<1>1. PICK m \in T : \A n \in T : ~ (<<n, m>> \in OpToRel(<, Nat))
  <2>1. IsWellFoundedOn(OpToRel(<, Nat), Nat)
    BY NatLessThanWellFounded
  <2> QED BY <2>1, WFMin
<1>2. ASSUME NEW n \in T PROVE m <= n
  <2>1. m \in Nat /\ n \in Nat /\ <<n, m>> \in Nat \X Nat
    OBVIOUS
  <2>2. ~(<<n, m>>[1] < <<n, m>>[2])
    BY <1>1, <2>1 DEF OpToRel
  <2> QED BY <2>1, <2>2
<1> QED BY <1>2

\* Induction up to N over a set: what every loop of the writer is proved with.
LEMMA StepByStep ==
  ASSUME NEW N \in Nat, NEW T, 0 \in T,
         \A k \in 0 .. N - 1 : k \in T => k + 1 \in T
  PROVE  \A k \in 0 .. N : k \in T
<1> SUFFICES ASSUME {k \in 0 .. N : k \notin T} # {} PROVE FALSE
  OBVIOUS
<1>1. PICK m \in {k \in 0 .. N : k \notin T} : \A n \in {k \in 0 .. N : k \notin T} : m <= n
  <2>1. {k \in 0 .. N : k \notin T} \in SUBSET Nat
    OBVIOUS
  <2> QED BY <2>1, LeastNatural
<1>2. m # 0 /\ m - 1 \in 0 .. N - 1
  BY <1>1
<1>3. m - 1 \in T
  BY <1>1, <1>2
<1> QED BY <1>1, <1>2, <1>3

\* Where the reader stands after it has read all units.
ReadAll(r, units) == Loop(Read, r, units)

\* g is where it stands after each of the n units.
Reading(g, r, units, n) ==
    Len(units) = n /\ g[0] = r /\ \A k \in 1 .. n : g[k] = Read(g[k - 1], units[k])

\* Reading units one by one is reading them all.
LEMMA ReadLoop ==
  ASSUME NEW r, NEW units, NEW n \in Nat, NEW g, Reading(g, r, units, n)
  PROVE  ReadAll(r, units) = g[n]
<1> DEFINE Eq(f) == f = [k \in 0 .. n |-> IF k = 0 THEN r ELSE Read(f[k - 1], units[k])]
           h == [k \in 0 .. n |-> g[k]]
<1> USE DEF Reading
<1>1. Eq(h)
  <2>1. ASSUME NEW k \in 0 .. n PROVE g[k] = IF k = 0 THEN r ELSE Read(h[k - 1], units[k])
    OBVIOUS
  <2> QED BY <2>1
<1>2. ReadAll(r, units) = (CHOOSE f : Eq(f))[n]
  BY DEF Loop, ReadAll
<1>3. PICK f : f = (CHOOSE e : Eq(e)) /\ Eq(f)
  BY <1>1
<1>4. \A k \in 0 .. n : k \in {j \in 0 .. n : f[j] = g[j]}
  <2> DEFINE T == {j \in 0 .. n : f[j] = g[j]}
  <2>1. 0 \in T
    BY <1>3
  <2>2. ASSUME NEW k \in 0 .. n - 1, k \in T PROVE k + 1 \in T
    <3>1. /\ k + 1 \in 0 .. n /\ k \in 0 .. n /\ k + 1 \in 1 .. n
          /\ (k + 1) - 1 = k /\ k + 1 # 0
      OBVIOUS
    <3>2. f[k + 1] = Read(f[k], units[k + 1])
      BY <1>3, <3>1, Zenon
    <3>3. g[k + 1] = Read(g[k], units[k + 1])
      BY <3>1
    <3> QED BY <2>2, <3>1, <3>2, <3>3
  <2> QED BY <2>1, <2>2, StepByStep
<1> QED BY <1>2, <1>3, <1>4

States == {"None", "Document", "Text", "Name", "Attribute", "Comment", "PI", "PIText",
           "CDATA", "DTD", "DTDText"}
Decls == UNION {[D -> Nat] : D \in SUBSET NSPrefixes}
Elem == [name : NSPrefixes, empty : BOOLEAN]
Scope == [decls : Decls, emitted : SUBSET NSPrefixes]

\* The fields of a writer whose output is o.
Writer(o) ==
    [state : States, elems : Seq(Elem), ns : Seq(Scope), stateStack : Seq(States),
     err : BOOLEAN, commentDash : BOOLEAN, piQuestion : BOOLEAN, cdataBrackets : 0 .. 2,
     xml11 : BOOLEAN, out : {o}, ret : {"ok", "refused", "failed"}, written : Seq(Char), astray : BOOLEAN]
Control(x) == x \in Writer(x.out)

\* Two writers differ in nothing but their output, the state, the flags of the
\* elements and what was written.
Kin(x, y) ==
    /\ y.stateStack = x.stateStack /\ y.err = x.err /\ y.ret = x.ret /\ y.astray = x.astray
    /\ y.xml11 = x.xml11 /\ Len(y.elems) = Len(x.elems)
    /\ \A i \in 1 .. Len(x.elems) : y.elems[i].name = x.elems[i].name
    /\ Len(y.ns) = Len(x.ns)
    /\ \A i \in 1 .. Len(x.ns) : y.ns[i].decls = x.ns[i].decls

\* ... nor in what they remember of the end of the last write.
Alike(x, y) ==
    /\ Kin(x, y)
    /\ y.commentDash = x.commentDash /\ y.piQuestion = x.piQuestion
    /\ y.cdataBrackets = x.cdataBrackets

\* Emit changes the output only.
LEMMA EmitControl ==
  ASSUME NEW x, Control(x), NEW units
  PROVE  /\ Control(Emit(x, units)) /\ Alike(x, Emit(x, units))
         /\ Emit(x, units).state = x.state /\ Emit(x, units).written = x.written
         /\ Emit(x, units).elems = x.elems /\ Emit(x, units).ns = x.ns
         /\ Emit(x, units).out = ReadAll(x.out, units)
<1> DEFINE o == ReadAll(x.out, units)
<1>1. Emit(x, units) = [x EXCEPT !.out = o]
  BY DEF Emit, ReadAll
<1> HIDE DEF o
<1>2. Emit(x, units) \in Writer(o) /\ Emit(x, units).out = o
  BY <1>1 DEF Control, Writer
<1> QED BY <1>1, <1>2 DEF Control, Writer, Alike, Kin, o

\* NewText forgets the text, written and read.
LEMMA NewTextControl ==
  ASSUME NEW x, Control(x)
  PROVE  /\ Control(NewText(x)) /\ Alike(x, NewText(x))
         /\ NewText(x).state = x.state /\ NewText(x).written = <<>>
         /\ NewText(x).elems = x.elems /\ NewText(x).ns = x.ns
         /\ NewText(x).out = [x.out EXCEPT !.text = <<>>]
<1> DEFINE o == [x.out EXCEPT !.text = <<>>]
<1>1. NewText(x) = [x EXCEPT !.written = <<>>, !.out = o]
  BY DEF NewText
<1> HIDE DEF o
<1>2. NewText(x) \in Writer(o) /\ NewText(x).out = o
  <2>1. <<>> \in Seq(Char)
    BY EmptySeq
  <2> QED BY <1>1, <2>1 DEF Control, Writer
<1> QED BY <1>1, <1>2 DEF Control, Writer, Alike, Kin, o

\* NotEmpty changes a flag of the innermost element only.
LEMMA NotEmptyControl ==
  ASSUME NEW x, Control(x)
  PROVE  /\ Control(NotEmpty(x)) /\ Alike(x, NotEmpty(x))
         /\ NotEmpty(x).state = x.state /\ NotEmpty(x).written = x.written
         /\ NotEmpty(x).ns = x.ns /\ NotEmpty(x).out = x.out
<1> DEFINE n == Len(x.elems)
           e == [x.elems EXCEPT ![n].empty = FALSE]
<1>0. x.elems \in Seq(Elem)
  BY DEF Control, Writer
<1>1. CASE x.elems = <<>>
  BY <1>1 DEF NotEmpty, Alike, Kin
<1>2. CASE x.elems # <<>>
  <2>1. n \in 1 .. Len(x.elems) /\ x.elems[n] \in Elem
    BY <1>0, <1>2, EmptySeq, ElementOfSeq
  <2>2. [x.elems[n] EXCEPT !.empty = FALSE] \in Elem
        /\ [x.elems[n] EXCEPT !.empty = FALSE].name = x.elems[n].name
    BY <2>1 DEF Elem
  <2>3. /\ e \in Seq(Elem) /\ Len(e) = Len(x.elems)
        /\ \A i \in 1 .. Len(x.elems) : e[i].name = x.elems[i].name
    BY <1>0, <2>1, <2>2, ExceptSeq
  <2>4. NotEmpty(x) = [x EXCEPT !.elems = e]
    BY <1>2 DEF NotEmpty
  <2> HIDE DEF e, n
  <2>5. NotEmpty(x) \in Writer(x.out) /\ NotEmpty(x).out = x.out
    BY <2>3, <2>4 DEF Control, Writer
  <2> QED BY <2>3, <2>4, <2>5 DEF Control, Writer, Alike, Kin
<1> QED BY <1>1, <1>2

\* emitPendingNS changes the output and what counts as emitted.
LEMMA EmitPendingControl ==
  ASSUME NEW x, Control(x)
  PROVE  /\ Control(emitPendingNS(x)) /\ Alike(x, emitPendingNS(x))
         /\ emitPendingNS(x).state = x.state /\ emitPendingNS(x).written = x.written
         /\ emitPendingNS(x).elems = x.elems
<1> DEFINE n == Len(x.ns)
           d == DOMAIN Last(x.ns).decls
           e == [x.ns EXCEPT ![n].emitted = d]
           y == [x EXCEPT !.ns = e]
<1>0. x.ns \in Seq(Scope)
  BY DEF Control, Writer
<1>1. CASE x.ns = <<>>
  BY <1>1 DEF emitPendingNS, Alike, Kin
<1>2. CASE x.ns # <<>>
  <2>1. n \in 1 .. Len(x.ns) /\ x.ns[n] \in Scope /\ Last(x.ns) = x.ns[n]
    BY <1>0, <1>2, EmptySeq, ElementOfSeq DEF Last
  <2>2. d \in SUBSET NSPrefixes
    BY <2>1 DEF Scope, Decls
  <2> HIDE DEF d
  <2>3. [x.ns[n] EXCEPT !.emitted = d] \in Scope
        /\ [x.ns[n] EXCEPT !.emitted = d].decls = x.ns[n].decls
    BY <2>1, <2>2 DEF Scope
  <2>4. /\ e \in Seq(Scope) /\ Len(e) = Len(x.ns)
        /\ \A i \in 1 .. Len(x.ns) : e[i].decls = x.ns[i].decls
    BY <1>0, <2>1, <2>3, ExceptSeq
  <2> HIDE DEF e, n
  <2>5. /\ y \in Writer(x.out) /\ y.out = x.out /\ y.ns = e
        /\ y.state = x.state /\ y.written = x.written /\ y.elems = x.elems
    BY <2>4 DEF Control, Writer
  <2>6. Alike(x, y) /\ Control(y)
    BY <2>4, <2>5 DEF Control, Writer, Alike, Kin
  <2> HIDE DEF y
  <2>7. PICK u : emitPendingNS(x) = Emit(y, u)
    BY <1>2 DEF emitPendingNS, y, e, n, d
  <2>8. /\ Control(Emit(y, u)) /\ Alike(y, Emit(y, u)) /\ Emit(y, u).state = y.state
        /\ Emit(y, u).written = y.written /\ Emit(y, u).elems = y.elems
    BY <2>6, EmitControl
  <2> QED BY <2>5, <2>6, <2>7, <2>8 DEF Alike, Kin
<1> QED BY <1>1, <1>2

\* Setting the state changes nothing else.
LEMMA StateControl ==
  ASSUME NEW x, Control(x), NEW s \in States
  PROVE  /\ Control([x EXCEPT !.state = s]) /\ Alike(x, [x EXCEPT !.state = s])
         /\ [x EXCEPT !.state = s].state = s /\ [x EXCEPT !.state = s].written = x.written
         /\ [x EXCEPT !.state = s].elems = x.elems /\ [x EXCEPT !.state = s].ns = x.ns
         /\ [x EXCEPT !.state = s].out = x.out
<1> DEFINE y == [x EXCEPT !.state = s]
<1>1. y \in Writer(x.out) /\ y.out = x.out
  BY DEF Control, Writer
<1> QED BY <1>1 DEF Control, Writer, Alike, Kin

\* closeTagIfOpen leaves the state Name for Text.
LEMMA CloseTagControl ==
  ASSUME NEW x, Control(x)
  PROVE  /\ Control(closeTagIfOpen(x)) /\ Alike(x, closeTagIfOpen(x))
         /\ closeTagIfOpen(x).state = (IF x.state = "Name" THEN "Text" ELSE x.state)
         /\ closeTagIfOpen(x).written = x.written
<1>1. CASE x.state # "Name"
  BY <1>1 DEF closeTagIfOpen, Alike, Kin
<1>2. CASE x.state = "Name"
  <2> DEFINE a == emitPendingNS(x)
             b == Emit(a, <<Mark(">")>>)
             c == [b EXCEPT !.state = "Text"]
  <2>1. closeTagIfOpen(x) = NotEmpty(c)
    BY <1>2 DEF closeTagIfOpen
  <2>2. Control(a) /\ Alike(x, a) /\ a.written = x.written
    BY EmitPendingControl
  <2> HIDE DEF a
  <2>3. Control(b) /\ Alike(a, b) /\ b.written = a.written
    BY <2>2, EmitControl
  <2> HIDE DEF b
  <2>4. Control(c) /\ Alike(b, c) /\ c.written = b.written /\ c.state = "Text"
    BY <2>3, StateControl, ZenonT(30) DEF States
  <2> HIDE DEF c
  <2>5. /\ Control(NotEmpty(c)) /\ Alike(c, NotEmpty(c))
        /\ NotEmpty(c).written = c.written /\ NotEmpty(c).state = c.state
    BY <2>4, NotEmptyControl
  <2> QED BY <1>2, <2>1, <2>2, <2>3, <2>4, <2>5 DEF Alike, Kin
<1> QED BY <1>1, <1>2

\* A refusal changes ret only.
LEMMA RefuseControl ==
  ASSUME NEW x, Control(x)
  PROVE  Control(Refuse(x)) /\ Refuse(x).ret = "refused" /\ Refuse(x).astray = x.astray
<1>1. Refuse(x) \in Writer(x.out) /\ Refuse(x).out = x.out
  BY DEF Control, Writer, Refuse
<1> QED BY <1>1 DEF Control, Writer, Refuse

\* Two writers have the same fields but for the state and the stack of states.
SameBody(x, y) ==
    /\ y.elems = x.elems /\ y.ns = x.ns /\ y.err = x.err /\ y.commentDash = x.commentDash
    /\ y.piQuestion = x.piQuestion /\ y.cdataBrackets = x.cdataBrackets /\ y.out = x.out
    /\ y.ret = x.ret /\ y.written = x.written /\ y.astray = x.astray /\ y.xml11 = x.xml11

\* PushState remembers the state it leaves.
LEMMA PushControl ==
  ASSUME NEW x, Control(x), NEW s \in States
  PROVE  /\ Control(PushState(x, s)) /\ SameBody(x, PushState(x, s))
         /\ PushState(x, s).state = s
         /\ PushState(x, s).stateStack = Append(x.stateStack, x.state)
<1> DEFINE t == Append(x.stateStack, x.state)
<1>1. t \in Seq(States)
  BY AppendProperties DEF Control, Writer
<1>2. PushState(x, s) = [x EXCEPT !.stateStack = t, !.state = s]
  BY DEF PushState
<1> HIDE DEF t
<1>3. PushState(x, s) \in Writer(x.out) /\ PushState(x, s).out = x.out
  BY <1>1, <1>2 DEF Control, Writer
<1> QED BY <1>1, <1>2, <1>3 DEF Control, Writer, SameBody, t

\* popState goes back to the one state that was pushed.
LEMMA PopControl ==
  ASSUME NEW x, Control(x), NEW s \in States
  PROVE  /\ Control(popState(x, s)) /\ SameBody(x, popState(x, s))
         /\ \A t : x.stateStack = <<t>> =>
              popState(x, s).state = t /\ popState(x, s).stateStack = <<>>
<1>0. x.stateStack \in Seq(States)
  BY DEF Control, Writer
<1>1. CASE x.stateStack = <<>>
  <2>1. popState(x, s) = [x EXCEPT !.state = s]
    BY <1>1 DEF popState
  <2>2. popState(x, s) \in Writer(x.out) /\ popState(x, s).out = x.out
    BY <2>1 DEF Control, Writer
  <2>3. SameBody(x, popState(x, s))
    BY <2>1, <2>2 DEF Control, Writer, SameBody
  <2>4. \A t : x.stateStack # <<t>>
    BY <1>1
  <2> QED BY <2>2, <2>3, <2>4 DEF Control
<1>2. CASE x.stateStack # <<>>
  <2> DEFINE l == Last(x.stateStack)
             f == Front(x.stateStack)
  <2>1. l \in States /\ f \in Seq(States)
    <3>1. Len(x.stateStack) \in Nat \ {0}
      BY <1>0, <1>2, EmptySeq
    <3>2. l \in States
      BY <1>0, <3>1, ElementOfSeq DEF Last
    <3> QED BY <1>0, <3>1, <3>2, SubSeqProperties DEF Front
  <2>2. \A t : x.stateStack = <<t>> => l = t /\ f = <<>>
    BY DEF Last, Front
  <2>3. popState(x, s) = [x EXCEPT !.state = l, !.stateStack = f]
    BY <1>2 DEF popState
  <2> HIDE DEF l, f
  <2>4. popState(x, s) \in Writer(x.out) /\ popState(x, s).out = x.out
    BY <2>1, <2>3 DEF Control, Writer
  <2>5. SameBody(x, popState(x, s)) /\ popState(x, s).state = l /\ popState(x, s).stateStack = f
    BY <2>3, <2>4 DEF Control, Writer, SameBody
  <2> QED BY <2>2, <2>4, <2>5 DEF Control
<1> QED BY <1>1, <1>2

\* The scope of a new element.
LEMMA EmptyScope == [decls |-> <<>>, emitted |-> {}] \in Scope
<1>1. <<>> \in [{} -> Nat]
  OBVIOUS
<1>2. <<>> \in Decls
  BY <1>1 DEF Decls
<1> QED BY <1>2 DEF Scope

NewElem(p) == [name |-> p, empty |-> TRUE]
NewScope == [decls |-> <<>>, emitted |-> {}]
OpenUnit(p, u) == [t |-> "<", name |-> p, uri |-> u]

\* OpenElement where it is not refused, from the writer it has made ready.
Opened(z, p, u, from) ==
    [Emit(z, <<OpenUnit(p, u)>>) EXCEPT
       !.elems = Append(@, NewElem(p)),
       !.ns = Append(@, NewScope),
       !.state = "Name",
       !.astray = @ \/ from = "DTD"]

OpenedAs(z, p, u, from, y) ==
    /\ Control(y) /\ y.state = "Name" /\ y.stateStack = z.stateStack /\ y.ret = z.ret
    /\ y.xml11 = z.xml11
    /\ y.elems = Append(z.elems, NewElem(p)) /\ y.ns = Append(z.ns, NewScope)
    /\ from = "DTD" => y.astray
    /\ from # "DTD" /\ ~z.astray => ~y.astray
    /\ y.written = z.written
    /\ y.out = ReadAll(z.out, <<OpenUnit(p, u)>>)

\* What OpenElement does to the fields of the writer.
LEMMA OpenedControl ==
  ASSUME NEW z, Control(z), NEW p \in NSPrefixes, NEW u, NEW from,
         NEW y, y = Opened(z, p, u, from)
  PROVE  OpenedAs(z, p, u, from, y)
<1> DEFINE a == Emit(z, <<OpenUnit(p, u)>>)
           e == Append(z.elems, NewElem(p))
           n == Append(z.ns, NewScope)
           o == ReadAll(z.out, <<OpenUnit(p, u)>>)
           v == z.astray \/ from = "DTD"
<1>1. /\ Control(a) /\ a.out = o /\ a.elems = z.elems /\ a.ns = z.ns
      /\ a.stateStack = z.stateStack /\ a.ret = z.ret /\ a.astray = z.astray
      /\ a.written = z.written /\ a.xml11 = z.xml11
  BY EmitControl DEF Alike, Kin
<1>2. e \in Seq(Elem)
  <2>1. NewElem(p) \in Elem
    BY DEF Elem, NewElem
  <2> QED BY <2>1, AppendProperties DEF Control, Writer
<1>3. n \in Seq(Scope)
  BY EmptyScope, AppendProperties DEF Control, Writer, NewScope
<1>4. y = [a EXCEPT !.elems = e, !.ns = n, !.state = "Name", !.astray = v]
  BY <1>1 DEF Opened
<1>5. v \in BOOLEAN
  BY DEF Control, Writer
<1> HIDE DEF a, e, n, o, v
<1>6. y \in Writer(o) /\ y.out = o
  BY <1>1, <1>2, <1>3, <1>4, <1>5 DEF Control, Writer, States
<1>7. /\ y.state = "Name" /\ y.stateStack = z.stateStack /\ y.ret = z.ret
      /\ y.elems = e /\ y.ns = n /\ y.astray = v /\ y.written = z.written
      /\ y.xml11 = z.xml11
  BY <1>1, <1>4 DEF Control, Writer
<1> QED BY <1>6, <1>7 DEF Control, e, n, o, v, OpenedAs

\* The writer after the text and the tag before the next construct are closed.
Ready(x) == NewText(NotEmpty(closeTagIfOpen(x)))

\* What is done before new markup to the fields of the writer.
LEMMA ReadyControl ==
  ASSUME NEW x, Control(x)
  PROVE  /\ Control(Ready(x)) /\ Alike(x, Ready(x)) /\ Ready(x).written = <<>>
         /\ Ready(x).state = IF x.state = "Name" THEN "Text" ELSE x.state
<1> DEFINE a == closeTagIfOpen(x)
           b == NotEmpty(a)
<1>1. /\ Control(a) /\ Alike(x, a)
      /\ a.state = IF x.state = "Name" THEN "Text" ELSE x.state
  BY CloseTagControl
<1> HIDE DEF a
<1>2. Control(b) /\ Alike(a, b) /\ b.state = a.state
  BY <1>1, NotEmptyControl
<1> HIDE DEF b
<1>3. /\ Control(NewText(b)) /\ Alike(b, NewText(b)) /\ NewText(b).state = b.state
      /\ NewText(b).written = <<>>
  BY <1>2, NewTextControl
<1> QED BY <1>1, <1>2, <1>3 DEF Ready, a, b, Alike, Kin

OpenStates == {"None", "Document", "Text", "DTD", "Name"}

\* OpenElement in terms of Ready and Opened.
LEMMA OpenElementIs ==
  ASSUME NEW x, NEW p, NEW u
  PROVE  OpenElement(x, p, u) =
           IF p = BadName \/ x.state \notin OpenStates THEN Refuse(x)
           ELSE Opened(Ready(x), p, u, x.state)
BY DEF OpenElement, Opened, Ready, OpenStates, NewElem, NewScope, OpenUnit

\* y is x but for its innermost scope, where a declaration may have been added.
Declares(x, y) ==
    /\ y.state = x.state /\ y.stateStack = x.stateStack /\ y.elems = x.elems /\ y.err = x.err
    /\ y.commentDash = x.commentDash /\ y.piQuestion = x.piQuestion
    /\ y.cdataBrackets = x.cdataBrackets /\ y.out = x.out /\ y.ret = x.ret
    /\ y.written = x.written /\ y.astray = x.astray /\ y.xml11 = x.xml11
    /\ Len(y.ns) = Len(x.ns)
    /\ \A i \in 1 .. Len(x.ns) :
         /\ y.ns[i].emitted = x.ns[i].emitted
         /\ i < Len(x.ns) => y.ns[i] = x.ns[i]
         /\ IsFiniteSet(DOMAIN x.ns[i].decls) => IsFiniteSet(DOMAIN y.ns[i].decls)

\* declareNS adds to the declarations of the innermost scope only.
LEMMA DeclareControl ==
  ASSUME NEW x, Control(x), NEW p \in NSPrefixes, NEW u \in Nat
  PROVE  Control(declareNS(x, p, u)) /\ Declares(x, declareNS(x, p, u))
<1> DEFINE n == Len(x.ns)
           old == x.ns[n].decls
           d == [q \in DOMAIN old \cup {p} |-> IF q = p THEN u ELSE old[q]]
           e == [x.ns EXCEPT ![n].decls = d]
           y == declareNS(x, p, u)
<1>0. x.ns \in Seq(Scope)
  BY DEF Control, Writer
<1>1. CASE lookupNS(x, p, u) \/ x.ns = <<>> \/ p \in DOMAIN Last(x.ns).decls
  BY <1>1 DEF declareNS, Declares
<1>2. CASE ~(lookupNS(x, p, u) \/ x.ns = <<>> \/ p \in DOMAIN Last(x.ns).decls)
  <2>1. n \in 1 .. Len(x.ns) /\ x.ns[n] \in Scope
    BY <1>0, <1>2, EmptySeq, ElementOfSeq
  <2>2. d \in Decls
    <3>1. PICK D \in SUBSET NSPrefixes : old \in [D -> Nat]
      BY <2>1 DEF Scope, Decls
    <3>2. d \in [D \cup {p} -> Nat]
      BY <3>1
    <3> QED BY <3>2 DEF Decls
  <2>3. IsFiniteSet(DOMAIN old) => IsFiniteSet(DOMAIN d)
    BY FS_AddElement
  <2> HIDE DEF d
  <2>4. /\ [x.ns[n] EXCEPT !.decls = d] \in Scope /\ [x.ns[n] EXCEPT !.decls = d].decls = d
        /\ [x.ns[n] EXCEPT !.decls = d].emitted = x.ns[n].emitted
    BY <2>1, <2>2 DEF Scope
  <2>5. /\ e \in Seq(Scope) /\ Len(e) = Len(x.ns)
        /\ \A i \in 1 .. Len(x.ns) : e[i] = IF i = n THEN [x.ns[n] EXCEPT !.decls = d] ELSE x.ns[i]
    BY <1>0, <2>1, <2>4, ExceptSeq
  <2>6. y = [x EXCEPT !.ns = e]
    BY <1>2 DEF declareNS, d, Last
  <2> HIDE DEF e, y
  <2>7. y \in Writer(x.out) /\ y.out = x.out /\ y.ns = e
    BY <2>5, <2>6 DEF Control, Writer
  <2>8. \A i \in 1 .. Len(x.ns) :
         /\ e[i].emitted = x.ns[i].emitted
         /\ i < Len(x.ns) => e[i] = x.ns[i]
         /\ IsFiniteSet(DOMAIN x.ns[i].decls) => IsFiniteSet(DOMAIN e[i].decls)
    <3> TAKE i \in 1 .. Len(x.ns)
    <3>1. CASE i = n
      <4>1. e[i] = [x.ns[n] EXCEPT !.decls = d] /\ ~(i < Len(x.ns))
        BY <2>1, <2>5, <3>1
      <4>2. e[i].decls = d /\ e[i].emitted = x.ns[i].emitted
        BY <2>4, <3>1, <4>1, Zenon
      <4> QED BY <2>3, <3>1, <4>1, <4>2, Zenon
    <3>2. CASE i # n
      <4>1. e[i] = x.ns[i]
        BY <2>5, <3>2
      <4> QED BY <4>1
    <3> QED BY <3>1, <3>2
  <2> QED BY <2>5, <2>6, <2>7, <2>8 DEF Control, Writer, Declares, y
<1> QED BY <1>1, <1>2

-----------------------------------------------------------------------------
(***************************************************************************)
(* What the reader makes of the output.                                    *)
(***************************************************************************)
Modes == {"content", "tag", "attr", "comment", "pi", "cdata", "doctype", "subset"}
Tag == [name : NSPrefixes, binds : Decls, uses : SUBSET [prefix : NSPrefixes, uri : Int]]
Reader ==
    [mode : Modes, open : Seq([name : NSPrefixes, binds : [NSPrefixes -> Nat]]),
     tag : Tag, tail : 0 .. 2, text : Seq(Char), began : BOOLEAN, wrong : BOOLEAN]

\* Reading one unit.
LEMMA OneUnit ==
  ASSUME NEW r, NEW u
  PROVE  ReadAll(r, <<u>>) = Read(r, u)
<1> DEFINE v == <<u>>
           g == [k \in 0 .. 1 |-> IF k = 0 THEN r ELSE Read(r, u)]
<1>1. Len(v) = 1 /\ v[1] = u
  OBVIOUS
<1>2. g[0] = r /\ g[1] = Read(r, u)
  OBVIOUS
<1> HIDE DEF g, v
<1>3. \A k \in 1 .. 1 : g[k] = Read(g[k - 1], v[k])
  BY <1>1, <1>2
<1>4. Reading(g, r, v, 1)
  BY <1>1, <1>2, <1>3 DEF Reading
<1>5. ReadAll(r, v) = g[1]
  BY <1>4, ReadLoop
<1> QED BY <1>2, <1>5 DEF v

\* Reading two units.
LEMMA TwoUnits ==
  ASSUME NEW r, NEW u, NEW v
  PROVE  ReadAll(r, <<u, v>>) = Read(Read(r, u), v)
<1> DEFINE s == <<u, v>>
           g == [k \in 0 .. 2 |-> IF k = 0 THEN r ELSE
                                  IF k = 1 THEN Read(r, u) ELSE Read(Read(r, u), v)]
<1>1. Len(s) = 2 /\ s[1] = u /\ s[2] = v
  OBVIOUS
<1>2. g[0] = r /\ g[1] = Read(r, u) /\ g[2] = Read(Read(r, u), v)
  OBVIOUS
<1> HIDE DEF g, s
<1>3. \A k \in 1 .. 2 : g[k] = Read(g[k - 1], s[k])
  <2>1. \A k \in 1 .. 2 : k = 1 \/ k = 2
    OBVIOUS
  <2> QED BY <1>1, <1>2, <2>1
<1>4. Reading(g, r, s, 2)
  BY <1>1, <1>2, <1>3 DEF Reading
<1>5. ReadAll(r, s) = g[2]
  BY <1>4, ReadLoop
<1> QED BY <1>2, <1>5 DEF s

\* SetToSeq lists every member of a finite set.
LEMMA Listed ==
  ASSUME NEW S, IsFiniteSet(S)
  PROVE  /\ SetToSeq(S) \in [1 .. Cardinality(S) -> S] /\ Cardinality(S) \in Nat
         /\ \A i, j \in 1 .. Cardinality(S) : SetToSeq(S)[i] = SetToSeq(S)[j] => i = j
         /\ \A x \in S : \E i \in 1 .. Cardinality(S) : SetToSeq(S)[i] = x
<1> DEFINE n == Cardinality(S)
           s == SetToSeq(S)
<1>1. n \in Nat /\ ExistsBijection(1 .. n, S)
  BY FS_CardinalityType
<1>2. PICK f \in [1 .. n -> S] : IsInjective(f)
  BY <1>1 DEF ExistsBijection, Bijection, Injection, IsInjective
<1>3. s \in [1 .. n -> S] /\ IsInjective(s)
  BY <1>2 DEF SetToSeq
<1> HIDE DEF s
<1>4. s \in Injection(1 .. n, S)
  BY <1>3 DEF Injection, IsInjective
<1>5. Cardinality(1 .. n) = n /\ IsFiniteSet(1 .. n)
  BY <1>1, FS_Interval
<1>6. s \in Surjection(1 .. n, S)
  BY <1>4, <1>5, FS_Injection
<1>7. \A i, j \in 1 .. n : s[i] = s[j] => i = j
  BY <1>3 DEF IsInjective
<1>8. \A x \in S : \E i \in 1 .. n : s[i] = x
  BY <1>6 DEF Surjection
<1> QED BY <1>1, <1>3, <1>7, <1>8 DEF s

\* r with other declarations in the tag it is in.
WithBinds(r, b) == [r EXCEPT !.tag = [r.tag EXCEPT !.binds = b]]

\* The declarations b and one more.
Adding(b, q, v) == [p \in DOMAIN b \cup {q} |-> IF p = q THEN v ELSE b[p]]

\* A declaration of a prefix that the tag does not declare yet.
LEMMA ReadDeclaration ==
  ASSUME NEW r, r.mode = "tag", NEW q, q \notin DOMAIN r.tag.binds, NEW v
  PROVE  Read(r, [t |-> "xmlns=", name |-> q, uri |-> v]) =
           WithBinds(r, Adding(r.tag.binds, q, v))
<1> DEFINE u == [t |-> "xmlns=", name |-> q, uri |-> v]
<1>1. u.t = "xmlns=" /\ u.name = q /\ u.uri = v
  OBVIOUS
<1> HIDE DEF u
<1>2. Read(r, u) = Bind(r, u)
  BY <1>1 DEF Read
<1> QED BY <1>1, <1>2 DEF Bind, WithBinds, Adding, u

\* Replacing the declarations of the tag being read.
LEMMA WithBindsIs ==
  ASSUME NEW r \in Reader, NEW b
  PROVE  /\ WithBinds(r, b).mode = r.mode /\ WithBinds(r, b).tag.binds = b
         /\ \A c : WithBinds(WithBinds(r, b), c) = WithBinds(r, c)
         /\ WithBinds(r, r.tag.binds) = r
BY DEF WithBinds, Reader, Tag

\* emitPendingNS writes the declarations of the scope, all of them and each once, in
\* whatever order the map is iterated.
LEMMA PendingOut ==
  ASSUME NEW x, Control(x), x.ns # <<>>, x.out \in Reader, x.out.mode = "tag",
         x.out.tag.binds = <<>>, Last(x.ns).emitted = {},
         IsFiniteSet(DOMAIN Last(x.ns).decls)
  PROVE  emitPendingNS(x).out = WithBinds(x.out, Last(x.ns).decls)
<1> DEFINE r == x.out
           decls == Last(x.ns).decls
           D == DOMAIN decls
           n == Cardinality(D)
           pending == SetToSeq(D)
           y == [x EXCEPT !.ns[Len(x.ns)].emitted = D]
           units == [i \in DOMAIN pending |->
                       [t |-> "xmlns=", name |-> pending[i], uri |-> decls[pending[i]]]]
           Before(k) == {pending[j] : j \in 1 .. k}
           B(k) == [q \in Before(k) |-> decls[q]]
           g == [k \in 0 .. n |-> WithBinds(r, B(k))]
<1>1. x.ns \in Seq(Scope) /\ Len(x.ns) \in 1 .. Len(x.ns) /\ Last(x.ns) = x.ns[Len(x.ns)]
  BY EmptySeq DEF Last, Control, Writer
<1>2. decls \in Decls
  <2>1. Last(x.ns) \in Scope
    BY <1>1, ElementOfSeq
  <2> QED BY <2>1 DEF Scope
<1>3. /\ n \in Nat /\ pending \in [1 .. n -> D]
      /\ \A i, j \in 1 .. n : pending[i] = pending[j] => i = j
      /\ \A q \in D : \E i \in 1 .. n : pending[i] = q
  BY Listed
<1>4. D \ Last(x.ns).emitted = D
  OBVIOUS
<1>5. emitPendingNS(x) = Emit(y, units)
  BY <1>4 DEF emitPendingNS
<1>6. y.out = r
  BY DEF Control, Writer
<1>7. emitPendingNS(x).out = ReadAll(r, units)
  BY <1>5, <1>6 DEF Emit, ReadAll, Control, Writer
<1> HIDE DEF D, n, pending, y
<1>8. Len(units) = n /\ \A k \in 1 .. n : units[k] =
         [t |-> "xmlns=", name |-> pending[k], uri |-> decls[pending[k]]]
  BY <1>3
<1> HIDE DEF units, decls, r
<1>9. \A k \in 0 .. n : g[k] = WithBinds(r, B(k))
  OBVIOUS
<1>10. B(0) = <<>>
  OBVIOUS
<1>11. ASSUME NEW k \in 1 .. n
       PROVE  B(k) = Adding(B(k - 1), pending[k], decls[pending[k]])
              /\ pending[k] \notin DOMAIN B(k - 1)
  <2>1. pending[k] \notin Before(k - 1) /\ Before(k) = Before(k - 1) \cup {pending[k]}
    BY <1>3
  <2>2. DOMAIN B(k - 1) = Before(k - 1)
    OBVIOUS
  <2> QED BY <2>1, <2>2 DEF Adding
<1>12. B(n) = decls
  <2>1. Before(n) = D
    BY <1>3
  <2> QED BY <1>2, <2>1 DEF D, Decls
<1> HIDE DEF g, B
<1>13. g[0] = r
  BY <1>3, <1>9, <1>10, WithBindsIs DEF r
<1>14. ASSUME NEW k \in 1 .. n PROVE g[k] = Read(g[k - 1], units[k])
  <2>1. /\ g[k - 1] = WithBinds(r, B(k - 1)) /\ g[k] = WithBinds(r, B(k))
    BY <1>3, <1>9
  <2> DEFINE s == WithBinds(r, B(k - 1))
             q == pending[k]
  <2>2. s.mode = "tag" /\ s.tag.binds = B(k - 1) /\ WithBinds(s, B(k)) = WithBinds(r, B(k))
    BY WithBindsIs DEF r
  <2> HIDE DEF s, q
  <2>3. Read(s, [t |-> "xmlns=", name |-> q, uri |-> decls[q]]) = WithBinds(s, B(k))
    BY <1>11, <2>2, ReadDeclaration DEF q
  <2> QED BY <1>8, <2>1, <2>2, <2>3 DEF s, q
<1>15. ReadAll(r, units) = g[n]
  <2>1. Reading(g, r, units, n)
    BY <1>8, <1>13, <1>14 DEF Reading
  <2>2. n \in Nat
    BY <1>3
  <2> QED BY <2>1, <2>2, ReadLoop, Zenon
<1> QED BY <1>3, <1>7, <1>9, <1>12, <1>15 DEF r, decls

-----------------------------------------------------------------------------
(***************************************************************************)
(* The namespaces in scope.                                                *)
(***************************************************************************)
LEMMA Greatest ==
  ASSUME NEW n \in Nat, NEW S \in SUBSET (0 .. n), S # {}
  PROVE  Max(S) \in S /\ \A j \in S : j <= Max(S)
<1> DEFINE T == {n - j : j \in S}
<1>1. T \in SUBSET Nat /\ T # {}
  <2>1. \A j \in S : n - j \in Nat
    OBVIOUS
  <2>2. PICK j : j \in S
    OBVIOUS
  <2>3. n - j \in T
    BY <2>2
  <2> QED BY <2>1, <2>3
<1>2. PICK m \in T : \A k \in T : m <= k
  BY <1>1, LeastNatural
<1>3. PICK i \in S : m = n - i
  OBVIOUS
<1>4. \A j \in S : i >= j
  <2> TAKE j \in S
  <2>1. n - j \in T
    OBVIOUS
  <2>2. n - i <= n - j
    BY <1>2, <1>3, <2>1
  <2> QED BY <2>2
<1> QED BY <1>3, <1>4 DEF Max

\* The declarations of p among the first i scopes, and what they come to.
DeclaredAt(ns, i, p) == {j \in 1 .. i : p \in DOMAIN ns[j].decls}
InScope(ns, i, p) ==
    IF DeclaredAt(ns, i, p) = {} THEN 0 ELSE ns[Max(DeclaredAt(ns, i, p))].decls[p]

\* Two stacks of scopes declare the same up to scope i.
SameDecls(m, n, i) == \A j \in 1 .. i : m[j].decls = n[j].decls

\* What is in scope depends on the declarations only.
LEMMA InScopeAgain ==
  ASSUME NEW i \in Nat, NEW m, NEW n, SameDecls(m, n, i), NEW p
  PROVE  InScope(m, i, p) = InScope(n, i, p)
<1> USE DEF SameDecls
<1>1. DeclaredAt(m, i, p) = DeclaredAt(n, i, p)
  BY DEF DeclaredAt
<1>2. CASE DeclaredAt(n, i, p) = {}
  BY <1>1, <1>2 DEF InScope
<1>3. CASE DeclaredAt(n, i, p) # {}
  <2>1. DeclaredAt(n, i, p) \in SUBSET (1 .. i) /\ DeclaredAt(n, i, p) \in SUBSET (0 .. i)
    BY DEF DeclaredAt
  <2>2. Max(DeclaredAt(n, i, p)) \in 1 .. i
    BY <1>3, <2>1, Greatest
  <2> QED BY <1>1, <1>3, <2>2 DEF InScope
<1> QED BY <1>2, <1>3

\* Outside of all elements no prefix is bound.
LEMMA InScopeOutside == \A ns, p : InScope(ns, 0, p) = 0
BY DEF InScope, DeclaredAt

\* One scope further in: its declarations win.
LEMMA InScopeNext ==
  ASSUME NEW i \in Nat \ {0}, NEW ns, NEW p
  PROVE  InScope(ns, i, p) = IF p \in DOMAIN ns[i].decls THEN ns[i].decls[p]
                             ELSE InScope(ns, i - 1, p)
<1>1. CASE p \in DOMAIN ns[i].decls
  <2> DEFINE S == DeclaredAt(ns, i, p)
  <2>1. i \in S /\ S \in SUBSET (1 .. i) /\ S # {}
    BY <1>1 DEF DeclaredAt
  <2>2. Max(S) \in S /\ i <= Max(S)
    BY <2>1, Greatest
  <2>3. Max(S) = i
    BY <2>1, <2>2
  <2> QED BY <1>1, <2>1, <2>3 DEF InScope
<1>2. CASE p \notin DOMAIN ns[i].decls
  <2>1. DeclaredAt(ns, i, p) = DeclaredAt(ns, i - 1, p)
    BY <1>2 DEF DeclaredAt
  <2> QED BY <1>2, <2>1 DEF InScope
<1> QED BY <1>1, <1>2

\* Binding, which looks from the innermost scope outwards, finds what is in scope.
LEMMA BindingIs ==
  ASSUME NEW ns \in Seq(Scope), NEW i \in 0 .. Len(ns), NEW p
  PROVE  LET b == Binding(SubSeq(ns, 1, i), p)
         IN  InScope(ns, i, p) = IF b = Unset THEN 0 ELSE b
<1> DEFINE s == SubSeq(ns, 1, i)
           at == {j \in DOMAIN s : p \in DOMAIN s[j].decls}
<1>1. /\ s \in Seq(Scope) /\ Len(s) = i /\ DOMAIN s = 1 .. i
      /\ \A j \in 1 .. i : s[j] = ns[j]
  BY SubSeqProperties, LenProperties
<1>2. at = DeclaredAt(ns, i, p)
  BY <1>1 DEF DeclaredAt
<1>3. Binding(s, p) = IF at = {} THEN Unset ELSE s[Max(at)].decls[p]
  BY DEF Binding
<1> HIDE DEF s, at
<1>4. CASE at = {}
  BY <1>2, <1>3, <1>4 DEF InScope, s
<1>5. CASE at # {}
  <2>1. Max(at) \in at /\ at \subseteq 1 .. i
    <3>1. at \in SUBSET (1 .. i) /\ at \in SUBSET (0 .. i) /\ i \in Nat
      BY <1>2 DEF DeclaredAt
    <3> QED BY <1>5, <3>1, Greatest
  <2>2. s[Max(at)] = ns[Max(at)] /\ ns[Max(at)] \in Scope
    BY <1>1, <2>1, ElementOfSeq
  <2>3. p \in DOMAIN ns[Max(at)].decls
    BY <1>2, <2>1 DEF DeclaredAt
  <2>4. ns[Max(at)].decls[p] \in Nat
    BY <2>2, <2>3 DEF Scope, Decls
  <2>5. Binding(s, p) = ns[Max(at)].decls[p] /\ Binding(s, p) # Unset
    BY <1>3, <1>5, <2>2, <2>4 DEF Unset
  <2> QED BY <1>2, <1>5, <2>5 DEF InScope, s
<1> QED BY <1>4, <1>5

-----------------------------------------------------------------------------
(***************************************************************************)
(* The inductive invariant of a writer that has not gone astray.           *)
(***************************************************************************)
InTag(x) == x.state \in {"Name", "Attribute"}

\* The state, the stack of states and the stack of elements go together, so that
\* popState never needs its fallback.
Placed(x) ==
    /\ x.state \in {"None", "Document", "DTD", "DTDText"} => Len(x.elems) = 0 /\ x.stateStack = <<>>
    /\ x.state \in {"Text", "Name"} => Len(x.elems) > 0 /\ x.stateStack = <<>>
    /\ x.state = "Attribute" => Len(x.elems) > 0 /\ x.stateStack = <<"Name">>
    /\ x.state = "CDATA" => Len(x.elems) > 0 /\ x.stateStack = <<"Text">>
    /\ x.state \in {"Comment", "PI", "PIText"} =>
         \/ Len(x.elems) > 0 /\ x.stateStack = <<"Text">>
         \/ Len(x.elems) = 0 /\ x.stateStack \in {<<"None">>, <<"Document">>}

\* The reader is in the construct the state names and has read what was written.
InStep(x) == x.out \in Reader /\ x.out.mode = ModeOf(x.state) /\ x.out.text = x.written

\* The reader has the same elements open, but for the one whose tag is open.
Nested(x) ==
    /\ Len(x.ns) = Len(x.elems)
    /\ Len(x.out.open) = Len(x.elems) - (IF InTag(x) THEN 1 ELSE 0)
    /\ \A i \in 1 .. Len(x.out.open) : x.out.open[i].name = x.elems[i].name

\* What the writer remembers of the end of the last write is what the reader saw.
Trails(x) ==
    /\ x.state = "Comment" => x.out.tail = IF x.commentDash THEN 1 ELSE 0
    /\ x.state \in {"PI", "PIText"} => x.out.tail = IF x.piQuestion THEN 1 ELSE 0
    /\ x.state = "CDATA" => x.out.tail = x.cdataBrackets

\* No declaration of an open tag has been written yet.
Tagged(x) ==
    InTag(x) => /\ x.out.tag.name = x.elems[Len(x.elems)].name
                /\ x.out.tag.binds = <<>>
                /\ x.ns[Len(x.ns)].emitted = {}

\* The reader has the namespaces of every open element.
Scoped(x) ==
    /\ \A i \in 1 .. Len(x.ns) : IsFiniteSet(DOMAIN x.ns[i].decls)
    /\ \A i \in 1 .. Len(x.out.open) : \A p \in NSPrefixes :
         x.out.open[i].binds[p] = InScope(x.ns, i, p)

Sound(x) ==
    /\ Control(x) /\ ~x.astray
    /\ Placed(x) /\ InStep(x) /\ Nested(x) /\ Trails(x) /\ Tagged(x) /\ Scoped(x)

Inv == Sound(w) \/ (w.astray /\ w.ret = "ok")

-----------------------------------------------------------------------------
(***************************************************************************)
(* What the helpers of the writer do to it.                                *)
(***************************************************************************)
LEMMA SoundAgain ==
  ASSUME NEW x, Sound(x), NEW y, Control(y), Alike(x, y), y.state = x.state,
         \A i \in 1 .. Len(x.ns) : y.ns[i].emitted = x.ns[i].emitted,
         y.out \in Reader, y.out.mode = x.out.mode, y.out.open = x.out.open,
         y.out.tag = x.out.tag, y.out.tail = x.out.tail, y.out.text = y.written
  PROVE  Sound(y)
<1> USE DEF Alike, Kin
<1>1. x.ns \in Seq(Scope) /\ x.elems \in Seq(Elem) /\ Len(x.elems) \in Nat /\ Len(x.ns) \in Nat
  BY LenProperties DEF Sound, Control, Writer
<1>2. x.out.open \in Seq([name : NSPrefixes, binds : [NSPrefixes -> Nat]]) /\ Len(x.out.open) \in Nat
  BY LenProperties DEF Sound, InStep, Reader
<1>3. Placed(y) /\ InStep(y) /\ Trails(y)
  BY DEF Sound, Placed, InStep, Trails
<1>7. Len(x.out.open) <= Len(x.elems) /\ Len(x.ns) = Len(x.elems)
  <2>1. /\ Len(x.ns) = Len(x.elems)
        /\ Len(x.out.open) = Len(x.elems) - 1 \/ Len(x.out.open) = Len(x.elems) - 0
    BY DEF Sound, Nested
  <2> QED BY <1>1, <1>2, <2>1
<1>4. Nested(y)
  <2>1. \A i \in 1 .. Len(x.out.open) : y.out.open[i].name = y.elems[i].name
    BY <1>1, <1>2, <1>7 DEF Sound, Nested
  <2> QED BY <1>7, <2>1 DEF Sound, Nested, InTag
<1>5. Tagged(y)
  BY <1>1 DEF Sound, Tagged, InTag, Nested, Placed
<1>6. Scoped(y)
  <2>1. \A i \in 1 .. Len(y.ns) : IsFiniteSet(DOMAIN y.ns[i].decls)
    BY DEF Sound, Scoped
  <2>2. ASSUME NEW i \in 1 .. Len(y.out.open), NEW p \in NSPrefixes
        PROVE  y.out.open[i].binds[p] = InScope(y.ns, i, p)
    <3>1. i \in Nat /\ i <= Len(x.ns)
      BY <1>1, <1>2, <1>7, SMTT(30)
    <3>2. SameDecls(y.ns, x.ns, i)
      BY <1>1, <3>1 DEF SameDecls
    <3>3. InScope(y.ns, i, p) = InScope(x.ns, i, p)
      BY <3>1, <3>2, InScopeAgain
    <3>4. x.out.open[i].binds[p] = InScope(x.ns, i, p)
      BY DEF Sound, Scoped
    <3> QED BY <3>3, <3>4
  <2> QED BY <2>1, <2>2 DEF Scoped
<1> QED BY <1>3, <1>4, <1>5, <1>6 DEF Sound

\* The types and lengths that Sound gives.
LEMMA SoundTypes ==
  ASSUME NEW x, Sound(x)
  PROVE  /\ Control(x) /\ ~x.astray /\ x.ns \in Seq(Scope) /\ x.elems \in Seq(Elem)
         /\ x.stateStack \in Seq(States) /\ x.written \in Seq(Char)
         /\ Len(x.elems) \in Nat /\ Len(x.ns) = Len(x.elems)
         /\ x.out \in Reader /\ x.out.text = x.written
         /\ x.out.open \in Seq([name : NSPrefixes, binds : [NSPrefixes -> Nat]])
         /\ Len(x.out.open) = IF InTag(x) THEN Len(x.elems) - 1 ELSE Len(x.elems)
<1>1. /\ Control(x) /\ ~x.astray /\ x.ns \in Seq(Scope) /\ x.elems \in Seq(Elem)
      /\ x.stateStack \in Seq(States) /\ x.written \in Seq(Char)
  BY DEF Sound, Control, Writer
<1>2. Len(x.elems) \in Nat
  BY <1>1, LenProperties
<1>3. /\ x.out \in Reader /\ x.out.text = x.written /\ Len(x.ns) = Len(x.elems)
      /\ Len(x.out.open) = IF InTag(x) THEN Len(x.elems) - 1 ELSE Len(x.elems)
  BY <1>2 DEF Sound, InStep, Nested
<1> QED BY <1>1, <1>2, <1>3 DEF Reader

\* Forgetting the text keeps reader and writer in step.
LEMMA NewTextSound ==
  ASSUME NEW x, Sound(x)
  PROVE  Sound(NewText(x))
<1> DEFINE y == NewText(x)
<1>1. /\ Control(y) /\ Alike(x, y) /\ y.state = x.state /\ y.written = <<>> /\ y.ns = x.ns
      /\ y.out = [x.out EXCEPT !.text = <<>>]
  BY NewTextControl DEF Sound
<1> HIDE DEF y
<1>2. /\ y.out \in Reader /\ y.out.mode = x.out.mode /\ y.out.open = x.out.open
      /\ y.out.tag = x.out.tag /\ y.out.tail = x.out.tail /\ y.out.text = <<>>
  <2>1. x.out \in Reader /\ <<>> \in Seq(Char)
    BY EmptySeq DEF Sound, InStep
  <2> QED BY <1>1, <2>1 DEF Reader
<1>3. Sound(y)
  BY <1>1, <1>2, SoundAgain
<1> QED BY <1>3 DEF y

\* So does noting that the element is not empty.
LEMMA NotEmptySound ==
  ASSUME NEW x, Sound(x)
  PROVE  Sound(NotEmpty(x))
<1> DEFINE y == NotEmpty(x)
<1>1. /\ Control(y) /\ Alike(x, y) /\ y.state = x.state /\ y.written = x.written
      /\ y.ns = x.ns /\ y.out = x.out
  BY NotEmptyControl DEF Sound
<1> HIDE DEF y
<1>2. x.out \in Reader /\ x.out.text = x.written
  BY DEF Sound, InStep
<1>3. Sound(y)
  BY <1>1, <1>2, SoundAgain
<1> QED BY <1>3 DEF y

\* The tag that the reader is in is closed, with the declarations of its scope.
LEMMA ClosedTag ==
  ASSUME NEW x, Sound(x), x.state = "Name", NEW empty \in BOOLEAN
  PROVE  LET r == CloseTag(WithBinds(x.out, Last(x.ns).decls), empty)
             n == Len(x.elems)
         IN  /\ r \in Reader /\ r.mode = "content" /\ r.tail = x.out.tail /\ r.text = x.out.text
             /\ Len(r.open) = IF empty THEN n - 1 ELSE n
             /\ \A i \in 1 .. Len(r.open) : r.open[i].name = x.elems[i].name
             /\ \A i \in 1 .. Len(r.open) : \A p \in NSPrefixes :
                  r.open[i].binds[p] = InScope(x.ns, i, p)
<1> DEFINE n == Len(x.elems)
           d == Last(x.ns).decls
           q == WithBinds(x.out, d)
           r == CloseTag(q, empty)
           Open == [name : NSPrefixes, binds : [NSPrefixes -> Nat]]
           b == [p \in NSPrefixes |-> IF p \in DOMAIN d THEN d[p] ELSE Bound(x.out)[p]]
           top == [name |-> x.out.tag.name, binds |-> b]
           wr == x.out.wrong \/ \E use \in q.tag.uses : b[use.prefix] # use.uri
<1>1. /\ n \in Nat \ {0} /\ Len(x.ns) = n /\ x.ns \in Seq(Scope) /\ Last(x.ns) = x.ns[n]
      /\ x.elems \in Seq(Elem)
  BY LenProperties DEF Sound, Control, Writer, Nested, Placed, Last
<1>2. x.ns[n] \in Scope /\ d \in Decls
  <2>1. x.ns[n] \in Scope
    BY <1>1, ElementOfSeq
  <2> QED BY <1>1, <2>1 DEF Scope
<1>3. /\ x.out \in Reader /\ x.out.open \in Seq(Open) /\ Len(x.out.open) = n - 1
      /\ x.out.tag \in Tag
  BY <1>1 DEF Sound, InStep, Nested, InTag, Reader
<1>4. \A p \in NSPrefixes : Bound(x.out)[p] = InScope(x.ns, n - 1, p) /\ Bound(x.out)[p] \in Nat
  <2> TAKE p \in NSPrefixes
  <2>1. CASE x.out.open = <<>>
    <3>1. n - 1 = 0
      BY <1>1, <1>3, <2>1, EmptySeq
    <3> QED BY <2>1, <3>1, InScopeOutside DEF Bound
  <2>2. CASE x.out.open # <<>>
    <3>1. n - 1 \in 1 .. Len(x.out.open) /\ Last(x.out.open) = x.out.open[n - 1]
      BY <1>1, <1>3, <2>2, EmptySeq DEF Last
    <3>2. x.out.open[n - 1] \in Open
      BY <1>3, <3>1, ElementOfSeq
    <3>3. x.out.open[n - 1].binds[p] = InScope(x.ns, n - 1, p)
      BY <3>1 DEF Sound, Scoped
    <3> QED BY <2>2, <3>1, <3>2, <3>3 DEF Bound
  <2> QED BY <2>1, <2>2
<1>5. \A p \in NSPrefixes : b[p] = InScope(x.ns, n, p)
  BY <1>1, <1>4, InScopeNext
<1>6. b \in [NSPrefixes -> Nat]
  BY <1>2, <1>4 DEF Decls
<1>7. top \in Open /\ top.name = x.elems[n].name /\ top.binds = b
  <2>1. x.out.tag.name \in NSPrefixes
    BY <1>3 DEF Tag
  <2>2. x.out.tag.name = x.elems[n].name
    BY DEF Sound, Tagged, InTag
  <2> HIDE DEF b
  <2> QED BY <1>6, <2>1, <2>2
<1>8. /\ q.mode = x.out.mode /\ q.open = x.out.open /\ q.tail = x.out.tail /\ q.text = x.out.text
      /\ q.began = x.out.began /\ q.wrong = x.out.wrong /\ q.tag.binds = d
      /\ q.tag.name = x.out.tag.name /\ DOMAIN q = DOMAIN x.out
  BY <1>3 DEF WithBinds, Reader, Tag
<1>9. Bound(q) = Bound(x.out)
  BY <1>8 DEF Bound
<1>10. r = [q EXCEPT !.mode = "content", !.tag = NoTag,
                     !.open = IF empty THEN x.out.open ELSE Append(x.out.open, top), !.wrong = wr]
  BY <1>8, <1>9 DEF CloseTag
<1>11. /\ NoTag \in Tag /\ q \in Reader
  <2>1. <<>> \in Decls
    <3>1. <<>> \in [{} -> Nat]
      OBVIOUS
    <3> QED BY <3>1 DEF Decls
  <2>2. NoTag \in Tag
    BY <2>1, InputsAssumption DEF NoTag, Tag
  <2> QED BY <1>2, <1>3, <2>2 DEF WithBinds, Reader, Tag
<1>12. wr \in BOOLEAN
  BY <1>3 DEF Reader
<1> HIDE DEF q, top, wr, b, d
<1>13. CASE empty
  <2>1. /\ r \in Reader /\ r.mode = "content" /\ r.tail = x.out.tail /\ r.text = x.out.text
        /\ r.open = x.out.open
    BY <1>3, <1>8, <1>10, <1>11, <1>12, <1>13 DEF Reader, Modes
  <2>2. \A i \in 1 .. Len(x.out.open) : x.out.open[i].name = x.elems[i].name
    BY DEF Sound, Nested
  <2>3. \A i \in 1 .. Len(x.out.open) : \A p \in NSPrefixes :
          x.out.open[i].binds[p] = InScope(x.ns, i, p)
    BY DEF Sound, Scoped
  <2> HIDE DEF r
  <2> QED BY <1>3, <1>13, <2>1, <2>2, <2>3 DEF r, q, d
<1>14. CASE ~empty
  <2> DEFINE o == Append(x.out.open, top)
  <2>1. /\ o \in Seq(Open) /\ Len(o) = n /\ o[n] = top
        /\ \A i \in 1 .. n - 1 : o[i] = x.out.open[i]
    BY <1>1, <1>3, <1>7, AppendProperties
  <2> HIDE DEF o
  <2>2. /\ r \in Reader /\ r.mode = "content" /\ r.tail = x.out.tail /\ r.text = x.out.text
        /\ r.open = o
    BY <1>3, <1>8, <1>10, <1>11, <1>12, <1>14, <2>1 DEF Reader, Modes, o
  <2>3. \A i \in 1 .. n : o[i].name = x.elems[i].name
    <3>1. \A i \in 1 .. n - 1 : x.out.open[i].name = x.elems[i].name
      BY <1>3 DEF Sound, Nested
    <3> TAKE i \in 1 .. n
    <3>2. CASE i = n
      BY <1>7, <2>1, <3>2
    <3>3. CASE i # n
      <4>1. i \in 1 .. n - 1
        BY <1>1, <3>3
      <4> QED BY <2>1, <3>1, <4>1
    <3> QED BY <3>2, <3>3
  <2>4. ASSUME NEW i \in 1 .. n, NEW p \in NSPrefixes
        PROVE  o[i].binds[p] = InScope(x.ns, i, p)
    <3>1. CASE i = n
      BY <1>5, <1>7, <2>1, <3>1
    <3>2. CASE i # n
      <4>1. i \in 1 .. n - 1
        BY <1>1, <3>2
      <4>2. x.out.open[i].binds[p] = InScope(x.ns, i, p)
        BY <1>3, <4>1 DEF Sound, Scoped
      <4> QED BY <2>1, <4>1, <4>2
    <3> QED BY <3>1, <3>2
  <2> HIDE DEF r
  <2> QED BY <1>14, <2>1, <2>2, <2>3, <2>4 DEF r, q, d
<1> QED BY <1>13, <1>14

\* The end of a start tag.
LEMMA ReadTagEnd ==
  ASSUME NEW r, r.mode = "tag"
  PROVE  Read(r, Mark(">")) = CloseTag(r, FALSE) /\ Read(r, Mark("/>")) = CloseTag(r, TRUE)
<1> DEFINE u == Mark(">")
           v == Mark("/>")
<1>1. u.t = ">" /\ v.t = "/>"
  BY DEF Mark
<1> HIDE DEF u, v
<1>2. Read(r, u) = CloseTag(r, FALSE)
  BY <1>1 DEF Read
<1>3. Read(r, v) = CloseTag(r, TRUE)
  BY <1>1 DEF Read
<1> QED BY <1>2, <1>3 DEF u, v

\* What emitPendingNS gives, in an open tag.
LEMMA PendingSound ==
  ASSUME NEW x, Sound(x), x.state = "Name"
  PROVE  /\ Control(emitPendingNS(x)) /\ Alike(x, emitPendingNS(x))
         /\ emitPendingNS(x).out = WithBinds(x.out, Last(x.ns).decls)
         /\ emitPendingNS(x).written = x.written /\ emitPendingNS(x).elems = x.elems
         /\ emitPendingNS(x).out.mode = "tag"
<1>1. /\ Len(x.ns) \in Nat \ {0} /\ Last(x.ns) = x.ns[Len(x.ns)] /\ x.out \in Reader
      /\ x.out.mode = "tag" /\ x.out.tag.binds = <<>> /\ x.ns[Len(x.ns)].emitted = {}
      /\ x.ns \in Seq(Scope)
  BY LenProperties DEF Sound, Control, Writer, Nested, Placed, Last, InStep, Tagged, InTag, ModeOf
<1>2. x.ns # <<>>
  BY <1>1, EmptySeq
<1>3. IsFiniteSet(DOMAIN Last(x.ns).decls)
  BY <1>1 DEF Sound, Scoped
<1>4. emitPendingNS(x).out = WithBinds(x.out, Last(x.ns).decls)
  BY <1>1, <1>2, <1>3, PendingOut DEF Sound
<1>5. emitPendingNS(x).out.mode = "tag"
  BY <1>1, <1>4, WithBindsIs
<1> QED BY <1>4, <1>5, EmitPendingControl DEF Sound

\* Closing the start tag keeps them in step: the element is open for both.
LEMMA CloseTagSound ==
  ASSUME NEW x, Sound(x)
  PROVE  Sound(closeTagIfOpen(x))
<1>1. CASE x.state # "Name"
  BY <1>1 DEF closeTagIfOpen
<1>2. CASE x.state = "Name"
  <2> DEFINE a == emitPendingNS(x)
             b == Emit(a, <<Mark(">")>>)
             c == [b EXCEPT !.state = "Text"]
             r == CloseTag(WithBinds(x.out, Last(x.ns).decls), FALSE)
  <2>1. closeTagIfOpen(x) = NotEmpty(c)
    BY <1>2 DEF closeTagIfOpen
  <2>2. /\ Control(a) /\ Alike(x, a) /\ a.out = WithBinds(x.out, Last(x.ns).decls)
        /\ a.written = x.written /\ a.out.mode = "tag"
    BY <1>2, PendingSound
  <2> HIDE DEF a
  <2>3. Control(b) /\ Alike(a, b) /\ b.written = a.written /\ b.out = ReadAll(a.out, <<Mark(">")>>)
    BY <2>2, EmitControl
  <2>4. b.out = r
    BY <2>2, <2>3, OneUnit, ReadTagEnd
  <2> HIDE DEF b
  <2>5. Control(c) /\ Alike(b, c) /\ c.written = b.written /\ c.state = "Text" /\ c.out = b.out
    BY <2>3, StateControl, ZenonT(30) DEF States
  <2> HIDE DEF c
  <2>6. /\ r \in Reader /\ r.mode = "content" /\ r.tail = x.out.tail /\ r.text = x.out.text
        /\ Len(r.open) = Len(x.elems)
        /\ \A i \in 1 .. Len(r.open) : r.open[i].name = x.elems[i].name
        /\ \A i \in 1 .. Len(r.open) : \A p \in NSPrefixes :
                  r.open[i].binds[p] = InScope(x.ns, i, p)
    BY <1>2, ClosedTag
  <2> HIDE DEF r
  <2>7. Control(c) /\ Alike(x, c) /\ c.out = r /\ c.state = "Text" /\ c.written = x.written
    BY <2>2, <2>3, <2>4, <2>5 DEF Alike, Kin
  <2>8. Len(x.elems) \in Nat \ {0} /\ Len(x.ns) = Len(x.elems) /\ x.stateStack = <<>>
        /\ x.out.text = x.written /\ ~x.astray
    BY <1>2, LenProperties DEF Sound, Control, Writer, Nested, Placed, InStep
  <2>9. Placed(c) /\ InStep(c) /\ Trails(c) /\ Tagged(c) /\ ~c.astray
    BY <2>6, <2>7, <2>8 DEF Placed, InStep, Trails, Tagged, InTag, ModeOf, Alike, Kin
  <2>10. Nested(c)
    BY <2>6, <2>7, <2>8 DEF Nested, InTag, Alike, Kin
  <2>11. Scoped(c)
    <3>1. \A i \in 1 .. Len(c.ns) : IsFiniteSet(DOMAIN c.ns[i].decls)
      BY <2>7 DEF Alike, Kin, Sound, Scoped
    <3>2. ASSUME NEW i \in 1 .. Len(c.out.open), NEW p \in NSPrefixes
          PROVE  c.out.open[i].binds[p] = InScope(c.ns, i, p)
      <4>1. SameDecls(c.ns, x.ns, i) /\ i \in Nat
        BY <2>6, <2>7, <2>8 DEF SameDecls, Alike, Kin
      <4>2. InScope(c.ns, i, p) = InScope(x.ns, i, p)
        BY <4>1, InScopeAgain
      <4> QED BY <2>6, <2>7, <4>2
    <3> QED BY <3>1, <3>2 DEF Scoped
  <2>12. Sound(c)
    BY <2>7, <2>9, <2>10, <2>11 DEF Sound
  <2> QED BY <2>1, <2>12, NotEmptySound
<1> QED BY <1>1, <1>2

\* So does all that is done before new markup.
LEMMA ReadySound ==
  ASSUME NEW x, Sound(x)
  PROVE  Sound(Ready(x))
BY CloseTagSound, NotEmptySound, NewTextSound DEF Ready

-----------------------------------------------------------------------------
(***************************************************************************)
(* What the reader makes of each piece of markup in its place.             *)
(***************************************************************************)
LEMMA ReadMark ==
  ASSUME NEW r
  PROVE  /\ r.mode = "content" /\ ~r.began => Read(r, Mark("<?xml")) = Enter(r, "content")
         /\ r.mode = "content" => Read(r, Mark("<!--")) = Enter(r, "comment")
         /\ r.mode = "comment" /\ r.tail # 1 => Read(r, Mark("-->")) = Enter(r, "content")
         /\ r.mode = "content" => Read(r, Mark("<?")) = Enter(r, "pi")
         /\ r.mode = "pi" => Read(r, Mark("?>")) = Enter(r, "content")
         /\ r.mode = "content" /\ r.open # <<>> => Read(r, Mark("<![CDATA[")) = Enter(r, "cdata")
         /\ r.mode = "cdata" => Read(r, Mark("]]>")) = Enter(r, "content")
         /\ r.mode = "attr" => Read(r, Mark("quote")) = Enter(r, "tag")
         /\ r.mode = "content" /\ r.open = <<>> => Read(r, Mark("<!DOCTYPE")) = Enter(r, "doctype")
         /\ r.mode = "doctype" => Read(r, Mark("[")) = Enter(r, "subset")
         /\ r.mode = "subset" => Read(r, Mark("<!decl>")) = r
         /\ r.mode = "subset" => Read(r, Mark("]")) = Enter(r, "doctype")
         /\ r.mode = "doctype" => Read(r, Mark(">")) = Enter(r, "content")
<1> DEFINE M(t) == Mark(t)
<1>0. \A t : M(t).t = t
  BY DEF Mark
<1> HIDE DEF M
<1>1. r.mode = "content" /\ ~r.began => Read(r, M("<?xml")) = Enter(r, "content")
  BY <1>0 DEF Read
<1>2. r.mode = "content" => Read(r, M("<!--")) = Enter(r, "comment")
  BY <1>0 DEF Read
<1>3. r.mode = "comment" /\ r.tail # 1 => Read(r, M("-->")) = Enter(r, "content")
  BY <1>0 DEF Read
<1>4. r.mode = "content" => Read(r, M("<?")) = Enter(r, "pi")
  BY <1>0 DEF Read
<1>5. r.mode = "pi" => Read(r, M("?>")) = Enter(r, "content")
  BY <1>0 DEF Read
<1>6. r.mode = "content" /\ r.open # <<>> => Read(r, M("<![CDATA[")) = Enter(r, "cdata")
  BY <1>0 DEF Read
<1>7. r.mode = "cdata" => Read(r, M("]]>")) = Enter(r, "content")
  BY <1>0 DEF Read
<1>8. r.mode = "attr" => Read(r, M("quote")) = Enter(r, "tag")
  BY <1>0 DEF Read
<1>9. r.mode = "content" /\ r.open = <<>> => Read(r, M("<!DOCTYPE")) = Enter(r, "doctype")
  BY <1>0 DEF Read
<1>10. r.mode = "doctype" => Read(r, M("[")) = Enter(r, "subset")
  BY <1>0 DEF Read
<1>11. r.mode = "subset" => Read(r, M("<!decl>")) = r
  BY <1>0 DEF Read
<1>12. r.mode = "subset" => Read(r, M("]")) = Enter(r, "doctype")
  BY <1>0 DEF Read
<1>13. r.mode = "doctype" => Read(r, M(">")) = Enter(r, "content")
  BY <1>0 DEF Read
<1> QED BY <1>1, <1>2, <1>3, <1>4, <1>5, <1>6, <1>7, <1>8, <1>9, <1>10, <1>11, <1>12, <1>13 DEF M

\* The reader in another mode.
LEMMA EnterIs ==
  ASSUME NEW r \in Reader, NEW m \in Modes
  PROVE  /\ Enter(r, m) \in Reader /\ Enter(r, m).mode = m /\ Enter(r, m).tail = 0
         /\ Enter(r, m).open = r.open /\ Enter(r, m).text = r.text /\ Enter(r, m).tag = r.tag
<1> DEFINE T == 0 .. 2
           O == Seq([name : NSPrefixes, binds : [NSPrefixes -> Nat]])
<1>1. 0 \in T /\ Reader = [mode : Modes, open : O, tag : Tag, tail : T, text : Seq(Char),
                          began : BOOLEAN, wrong : BOOLEAN]
  BY DEF Reader
<1> HIDE DEF T, O
<1> QED BY <1>1 DEF Enter

\* The reader with its text forgotten.
LEMMA ForgetIs ==
  ASSUME NEW r \in Reader, NEW q, q = [r EXCEPT !.text = <<>>]
  PROVE  /\ q \in Reader /\ q.mode = r.mode /\ q.tail = r.tail /\ q.open = r.open
         /\ q.text = <<>> /\ q.tag = r.tag
<1> DEFINE T == 0 .. 2
           O == Seq([name : NSPrefixes, binds : [NSPrefixes -> Nat]])
           C == Seq(Char)
<1>1. <<>> \in C /\ Reader = [mode : Modes, open : O, tag : Tag, tail : T, text : C,
                            began : BOOLEAN, wrong : BOOLEAN]
  BY EmptySeq DEF Reader
<1> HIDE DEF T, O, C
<1> QED BY <1>1

\* The elements and the scopes of two writers agree.
SameStacks(x, y) ==
    /\ Len(y.elems) = Len(x.elems)
    /\ \A i \in 1 .. Len(x.elems) : y.elems[i].name = x.elems[i].name
    /\ Len(y.ns) = Len(x.ns)
    /\ \A i \in 1 .. Len(x.ns) : y.ns[i].decls = x.ns[i].decls

\* The reader moves to another place in the same element, and the writer with it.
LEMMA MoveSound ==
  ASSUME NEW x, Sound(x), NEW y, Control(y), ~y.astray, SameStacks(x, y),
         Placed(y), InStep(y), Trails(y), y.out.open = x.out.open, InTag(y) = InTag(x),
         InTag(y) => /\ y.out.tag.name = x.out.tag.name /\ y.out.tag.binds = x.out.tag.binds
                     /\ y.ns = x.ns
  PROVE  Sound(y)
<1>1. x.ns \in Seq(Scope) /\ x.elems \in Seq(Elem) /\ Len(x.elems) \in Nat /\ Len(x.ns) \in Nat
  BY LenProperties DEF Sound, Control, Writer
<1>2. x.out.open \in Seq([name : NSPrefixes, binds : [NSPrefixes -> Nat]]) /\ Len(x.out.open) \in Nat
  BY LenProperties DEF Sound, InStep, Reader
<1>3. Len(x.out.open) <= Len(x.elems) /\ Len(x.ns) = Len(x.elems)
  <2>1. /\ Len(x.ns) = Len(x.elems)
        /\ Len(x.out.open) = Len(x.elems) - 1 \/ Len(x.out.open) = Len(x.elems) - 0
    BY DEF Sound, Nested
  <2> QED BY <1>1, <1>2, <2>1
<1>4. Nested(y)
  <2>1. \A i \in 1 .. Len(x.out.open) : y.out.open[i].name = y.elems[i].name
    BY <1>1, <1>2, <1>3 DEF Sound, Nested, SameStacks
  <2> QED BY <1>3, <2>1 DEF Sound, Nested, SameStacks
<1>5. Tagged(y)
  <2>1. InTag(x) => Len(x.elems) > 0
    BY DEF Sound, InTag, Placed
  <2> QED BY <1>1, <2>1 DEF Sound, Tagged, SameStacks, Nested
<1>6. Scoped(y)
  <2>1. \A i \in 1 .. Len(y.ns) : IsFiniteSet(DOMAIN y.ns[i].decls)
    BY DEF Sound, Scoped, SameStacks
  <2>2. ASSUME NEW i \in 1 .. Len(y.out.open), NEW p \in NSPrefixes
        PROVE  y.out.open[i].binds[p] = InScope(y.ns, i, p)
    <3>1. i \in Nat /\ i <= Len(x.ns)
      BY <1>1, <1>2, <1>3, SMTT(30)
    <3>2. SameDecls(y.ns, x.ns, i)
      BY <1>1, <3>1 DEF SameDecls, SameStacks
    <3>3. InScope(y.ns, i, p) = InScope(x.ns, i, p)
      BY <3>1, <3>2, InScopeAgain
    <3>4. x.out.open[i].binds[p] = InScope(x.ns, i, p)
      BY DEF Sound, Scoped
    <3> QED BY <3>3, <3>4
  <2> QED BY <2>1, <2>2 DEF Scoped
<1> QED BY <1>4, <1>5, <1>6 DEF Sound

-----------------------------------------------------------------------------
(***************************************************************************)
(* Comments, processing instructions and CDATA sections.                   *)
(***************************************************************************)
LEMMA FlagControl ==
  ASSUME NEW x, Control(x), NEW y,
         \/ \E v \in BOOLEAN : y = [x EXCEPT !.commentDash = v]
         \/ \E v \in BOOLEAN : y = [x EXCEPT !.piQuestion = v]
         \/ \E v \in 0 .. 2 : y = [x EXCEPT !.cdataBrackets = v]
  PROVE  /\ Control(y) /\ Kin(x, y) /\ y.state = x.state /\ y.written = x.written
         /\ y.elems = x.elems /\ y.ns = x.ns /\ y.out = x.out
<1>1. y \in Writer(x.out) /\ y.out = x.out
  BY DEF Control, Writer
<1> QED BY <1>1 DEF Control, Writer, Kin

Bodies == {"Comment", "PI", "CDATA"}

\* The flag that belongs to a state says that nothing was written yet.
Cleared(x, s) ==
    /\ s = "Comment" => ~x.commentDash
    /\ s = "PI" => ~x.piQuestion
    /\ s = "CDATA" => x.cdataBrackets = 0

\* A comment, PI or CDATA section begins for both.
LEMMA StartSound ==
  ASSUME NEW x, Sound(x), x.state \in {"None", "Document", "Text"}, NEW s \in Bodies,
         s = "CDATA" => x.state = "Text",
         NEW c, Control(c), Kin(x, c), c.state = x.state, c.written = x.written,
         c.out = Enter(x.out, ModeOf(s)), Cleared(c, s)
  PROVE  /\ Sound(PushState(c, s)) /\ PushState(c, s).ret = x.ret
         /\ PushState(c, s).state = s /\ PushState(c, s).stateStack = <<x.state>>
         /\ Cleared(PushState(c, s), s)
<1> DEFINE y == PushState(c, s)
<1>1. s \in States /\ ModeOf(s) \in Modes /\ x.out \in Reader /\ x.out.text = x.written
      /\ x.stateStack = <<>> /\ ~x.astray
  BY DEF Bodies, States, ModeOf, Modes, Sound, InStep, Placed
<1>2. /\ Control(y) /\ SameBody(c, y) /\ y.state = s
      /\ y.stateStack = Append(c.stateStack, c.state)
  BY <1>1, PushControl
<1>3. y.stateStack = <<x.state>>
  <2>1. c.stateStack = <<>> /\ c.state = x.state
    BY <1>1 DEF Kin
  <2>2. Append(<<>>, x.state) = <<x.state>>
    OBVIOUS
  <2> QED BY <1>2, <2>1, <2>2, Zenon
<1> HIDE DEF y
<1>4. /\ y.out \in Reader /\ y.out.mode = ModeOf(s) /\ y.out.tail = 0
      /\ y.out.open = x.out.open /\ y.out.text = x.out.text
  BY <1>1, <1>2, EnterIs DEF SameBody
<1>5. SameStacks(x, y) /\ ~y.astray /\ y.written = x.written
  BY <1>1, <1>2 DEF SameStacks, SameBody, Kin
<1>6. InStep(y)
  BY <1>1, <1>2, <1>4, <1>5 DEF InStep
<1>7. Trails(y) /\ Cleared(y, s)
  BY <1>2, <1>4 DEF Trails, Cleared, Bodies, SameBody
<1>8. Placed(y)
  BY <1>2, <1>3, <1>5 DEF Placed, Bodies, Sound, SameStacks
<1>9. InTag(y) = InTag(x) /\ ~InTag(y)
  BY <1>2 DEF InTag, Bodies
<1>10. Sound(y)
  BY <1>2, <1>4, <1>5, <1>6, <1>7, <1>8, <1>9, MoveSound
<1> QED BY <1>2, <1>3, <1>5, <1>7, <1>10 DEF y, SameBody, Kin

\* An attribute, comment, PI or CDATA section ends for both.
LEMMA StopSound ==
  ASSUME NEW x, Sound(x), x.state \in {"Attribute", "Comment", "PI", "PIText", "CDATA"},
         NEW m, NEW fallback \in States, Read(x.out, Mark(m)) =
           Enter(x.out, IF x.state = "Attribute" THEN "tag" ELSE "content")
  PROVE  LET y == popState(NewText(Emit(x, <<Mark(m)>>)), fallback)
         IN  /\ Sound(y) /\ y.ret = x.ret /\ x.stateStack = <<y.state>>
             /\ y.elems = x.elems /\ y.ns = x.ns
<1> DEFINE a == Emit(x, <<Mark(m)>>)
           b == NewText(a)
           y == popState(b, fallback)
           mode == IF x.state = "Attribute" THEN "tag" ELSE "content"
<1>1. /\ Control(a) /\ Alike(x, a) /\ a.elems = x.elems /\ a.ns = x.ns
      /\ a.out = ReadAll(x.out, <<Mark(m)>>)
  BY EmitControl DEF Sound
<1>2. a.out = Enter(x.out, mode)
  BY <1>1, OneUnit
<1> HIDE DEF a
<1>3. /\ Control(b) /\ Alike(a, b) /\ b.elems = a.elems /\ b.ns = a.ns /\ b.written = <<>>
      /\ b.out = [a.out EXCEPT !.text = <<>>]
  BY <1>1, NewTextControl
<1> HIDE DEF b
<1>4. PICK t \in {"None", "Document", "Text", "Name"} : x.stateStack = <<t>>
  BY DEF Sound, Placed
<1>5. /\ Control(y) /\ SameBody(b, y) /\ y.state = t /\ y.stateStack = <<>>
  BY <1>1, <1>3, <1>4, PopControl DEF Alike, Kin
<1> HIDE DEF y
<1>6. /\ y.out \in Reader /\ y.out.mode = mode /\ y.out.open = x.out.open
      /\ y.out.text = <<>> /\ y.out.tag = x.out.tag
  <2>1. x.out \in Reader /\ mode \in Modes /\ <<>> \in Seq(Char)
    BY EmptySeq DEF Sound, InStep, Modes
  <2>2. /\ a.out \in Reader /\ a.out.mode = mode /\ a.out.open = x.out.open
        /\ a.out.tag = x.out.tag
    BY <1>2, <2>1, EnterIs
  <2>3. y.out = [a.out EXCEPT !.text = <<>>]
    BY <1>3, <1>5 DEF SameBody
  <2> QED BY <2>1, <2>2, <2>3 DEF Reader
<1>7. /\ y.elems = x.elems /\ y.ns = x.ns /\ y.written = <<>> /\ y.ret = x.ret /\ ~y.astray
  BY <1>1, <1>3, <1>5 DEF SameBody, Alike, Kin, Sound
<1>8. Placed(y) /\ InTag(y) = InTag(x) /\ mode = ModeOf(y.state)
  BY <1>4, <1>5, <1>7 DEF Placed, InTag, Sound, ModeOf
<1>9. InStep(y) /\ Trails(y)
  BY <1>5, <1>6, <1>7, <1>8 DEF InStep, Trails
<1>10. SameStacks(x, y)
  BY <1>7 DEF SameStacks
<1>11. Sound(y)
  BY <1>5, <1>6, <1>7, <1>8, <1>9, <1>10, MoveSound
<1> QED BY <1>4, <1>5, <1>7, <1>11 DEF a, b, y

\* A call is refused and changes nothing, or leaves a sound writer or one astray.
Fine(x, y) == y = Refuse(x) \/ (y.ret = "ok" /\ (y.astray \/ Sound(y)))

\* EndComment is refused after a dash; else the comment ends for both.
LEMMA EndCommentSound ==
  ASSUME NEW x, Sound(x), x.ret = "ok"
  PROVE  \/ EndComment(x) = Refuse(x) /\ (x.state # "Comment" \/ x.commentDash)
         \/ /\ Sound(EndComment(x)) /\ EndComment(x).ret = "ok"
            /\ x.state = "Comment" /\ ~x.commentDash /\ x.stateStack = <<EndComment(x).state>>
<1>1. CASE x.state # "Comment" \/ x.commentDash
  BY <1>1 DEF EndComment
<1>2. CASE x.state = "Comment" /\ ~x.commentDash
  <2>1. x.out.mode = "comment" /\ x.out.tail # 1
    BY <1>2 DEF Sound, InStep, ModeOf, Trails
  <2>2. Read(x.out, Mark("-->")) = Enter(x.out, "content")
    BY <2>1, ReadMark, Zenon
  <2>3. EndComment(x) = popState(NewText(Emit(x, <<Mark("-->")>>)), "Document")
    BY <1>2 DEF EndComment
  <2> QED BY <1>2, <2>2, <2>3, StopSound DEF States
<1> QED BY <1>1, <1>2

\* StartComment is refused or begins a comment for both.
LEMMA StartCommentSound ==
  ASSUME NEW x, Sound(x), x.ret = "ok"
  PROVE  \/ StartComment(x) = Refuse(x)
         \/ /\ Sound(StartComment(x)) /\ StartComment(x).ret = "ok"
            /\ StartComment(x).state = "Comment" /\ ~StartComment(x).commentDash
            /\ x.state = "Text" => StartComment(x).stateStack = <<"Text">>
<1> DEFINE a == Ready(x)
           b == Emit(a, <<Mark("<!--")>>)
           c == [b EXCEPT !.commentDash = FALSE]
           y == PushState(c, "Comment")
<1>1. CASE ~(Opens(x, {"None", "Document", "Text"}))
  BY <1>1 DEF StartComment
<1>2. CASE Opens(x, {"None", "Document", "Text"})
  <2>1. StartComment(x) = y
    BY <1>2 DEF StartComment, Ready
  <2>2. /\ Sound(a) /\ Control(a) /\ a.ret = "ok" /\ a.state \in {"None", "Document", "Text"}
        /\ a.out.mode = "content" /\ (x.state = "Text" => a.state = "Text")
    BY <1>2, ReadySound, ReadyControl DEF Alike, Kin, Opens, Sound, InStep, ModeOf
  <2> HIDE DEF a
  <2>3. /\ Control(b) /\ Kin(a, b) /\ b.state = a.state /\ b.written = a.written
        /\ b.out = ReadAll(a.out, <<Mark("<!--")>>)
    BY <2>2, EmitControl DEF Alike
  <2>4. b.out = Enter(a.out, "comment")
    <3>1. Read(a.out, Mark("<!--")) = Enter(a.out, "comment")
      BY <2>2, ReadMark
    <3> QED BY <2>3, <3>1, OneUnit
  <2> HIDE DEF b
  <2>5. /\ Control(c) /\ Kin(b, c) /\ c.state = b.state /\ c.written = b.written /\ c.out = b.out
    BY <2>3, FlagControl
  <2>6. ~c.commentDash
    BY <2>3 DEF Control, Writer
  <2> HIDE DEF c
  <2>7. Cleared(c, "Comment") /\ Kin(a, c) /\ c.out = Enter(a.out, ModeOf("Comment"))
    BY <2>3, <2>4, <2>5, <2>6 DEF Cleared, Kin, ModeOf
  <2>8. /\ Sound(y) /\ y.ret = a.ret /\ y.state = "Comment" /\ Cleared(y, "Comment")
        /\ y.stateStack = <<a.state>>
    BY <2>2, <2>3, <2>5, <2>7, StartSound DEF Bodies
  <2> QED BY <2>1, <2>2, <2>8 DEF Cleared
<1> QED BY <1>1, <1>2

\* StartPI is refused or begins a processing instruction for both.
LEMMA StartPISound ==
  ASSUME NEW x, Sound(x), x.ret = "ok", NEW ok \in BOOLEAN
  PROVE  \/ StartPI(x, ok) = Refuse(x)
         \/ /\ Sound(StartPI(x, ok)) /\ StartPI(x, ok).ret = "ok"
            /\ StartPI(x, ok).state = "PI" /\ ~StartPI(x, ok).piQuestion
            /\ x.state = "Text" => StartPI(x, ok).stateStack = <<"Text">>
<1> DEFINE a == Ready(x)
           b == Emit(a, <<Mark("<?")>>)
           c == [b EXCEPT !.piQuestion = FALSE]
           y == PushState(c, "PI")
<1>1. CASE ~(ok /\ Opens(x, {"None", "Document", "Text"}))
  BY <1>1 DEF StartPI
<1>2. CASE ok /\ Opens(x, {"None", "Document", "Text"})
  <2>1. StartPI(x, ok) = y
    BY <1>2 DEF StartPI, Ready
  <2>2. /\ Sound(a) /\ Control(a) /\ a.ret = "ok" /\ a.state \in {"None", "Document", "Text"}
        /\ a.out.mode = "content" /\ (x.state = "Text" => a.state = "Text")
    BY <1>2, ReadySound, ReadyControl DEF Alike, Kin, Opens, Sound, InStep, ModeOf
  <2> HIDE DEF a
  <2>3. /\ Control(b) /\ Kin(a, b) /\ b.state = a.state /\ b.written = a.written
        /\ b.out = ReadAll(a.out, <<Mark("<?")>>)
    BY <2>2, EmitControl DEF Alike
  <2>4. b.out = Enter(a.out, "pi")
    <3>1. Read(a.out, Mark("<?")) = Enter(a.out, "pi")
      BY <2>2, ReadMark
    <3> QED BY <2>3, <3>1, OneUnit
  <2> HIDE DEF b
  <2>5. /\ Control(c) /\ Kin(b, c) /\ c.state = b.state /\ c.written = b.written /\ c.out = b.out
    BY <2>3, FlagControl
  <2>6. ~c.piQuestion
    BY <2>3 DEF Control, Writer
  <2> HIDE DEF c
  <2>7. Cleared(c, "PI") /\ Kin(a, c) /\ c.out = Enter(a.out, ModeOf("PI"))
    BY <2>3, <2>4, <2>5, <2>6 DEF Cleared, Kin, ModeOf
  <2>8. /\ Sound(y) /\ y.ret = a.ret /\ y.state = "PI" /\ Cleared(y, "PI")
        /\ y.stateStack = <<a.state>>
    BY <2>2, <2>3, <2>5, <2>7, StartSound DEF Bodies
  <2> QED BY <2>1, <2>2, <2>8 DEF Cleared
<1> QED BY <1>1, <1>2

\* StartCDATA is refused outside of elements or begins a section for both.
LEMMA StartCDATASound ==
  ASSUME NEW x, Sound(x), x.ret = "ok"
  PROVE  \/ StartCDATA(x) = Refuse(x) /\ x.state \notin {"Text", "Name"}
         \/ /\ Sound(StartCDATA(x)) /\ StartCDATA(x).ret = "ok"
            /\ StartCDATA(x).state = "CDATA" /\ StartCDATA(x).cdataBrackets = 0
            /\ x.state = "Text" => StartCDATA(x).stateStack = <<"Text">>
<1> DEFINE a == Ready(x)
           b == Emit(a, <<Mark("<![CDATA[")>>)
           c == [b EXCEPT !.cdataBrackets = 0]
           y == PushState(c, "CDATA")
<1>1. CASE ~(Opens(x, {"Text"}))
  BY <1>1 DEF StartCDATA, Opens
<1>2. CASE Opens(x, {"Text"})
  <2>1. StartCDATA(x) = y
    BY <1>2 DEF StartCDATA, Ready
  <2>2. /\ Sound(a) /\ Control(a) /\ a.ret = "ok" /\ a.state \in {"Text"}
        /\ a.out.mode = "content" /\ (x.state = "Text" => a.state = "Text")
    BY <1>2, ReadySound, ReadyControl DEF Alike, Kin, Opens, Sound, InStep, ModeOf
  <2>9. a.out.open # <<>>
    <3>1. Len(a.out.open) = Len(a.elems) /\ Len(a.elems) \in Nat /\ Len(a.elems) > 0
      BY <2>2, SoundTypes DEF InTag, Sound, Placed
    <3> QED BY <3>1, EmptySeq
  <2> HIDE DEF a
  <2>3. /\ Control(b) /\ Kin(a, b) /\ b.state = a.state /\ b.written = a.written
        /\ b.out = ReadAll(a.out, <<Mark("<![CDATA[")>>)
    BY <2>2, EmitControl DEF Alike
  <2>4. b.out = Enter(a.out, "cdata")
    <3>1. Read(a.out, Mark("<![CDATA[")) = Enter(a.out, "cdata")
      BY <2>2, <2>9, ReadMark
    <3> QED BY <2>3, <3>1, OneUnit
  <2> HIDE DEF b
  <2>5. /\ Control(c) /\ Kin(b, c) /\ c.state = b.state /\ c.written = b.written /\ c.out = b.out
    BY <2>3, FlagControl
  <2>6. c.cdataBrackets = 0
    BY <2>3 DEF Control, Writer
  <2> HIDE DEF c
  <2>7. Cleared(c, "CDATA") /\ Kin(a, c) /\ c.out = Enter(a.out, ModeOf("CDATA"))
    BY <2>3, <2>4, <2>5, <2>6 DEF Cleared, Kin, ModeOf
  <2>8. /\ Sound(y) /\ y.ret = a.ret /\ y.state = "CDATA" /\ Cleared(y, "CDATA")
        /\ y.stateStack = <<a.state>>
    BY <2>2, <2>3, <2>5, <2>7, StartSound DEF Bodies
  <2> QED BY <2>1, <2>2, <2>8 DEF Cleared
<1> QED BY <1>1, <1>2

\* EndPI outside of a PI is refused; else it ends for both.
LEMMA EndPISound ==
  ASSUME NEW x, Sound(x), x.ret = "ok"
  PROVE  \/ EndPI(x) = Refuse(x) /\ ~(x.state \in {"PI", "PIText"})
         \/ /\ Sound(EndPI(x)) /\ EndPI(x).ret = "ok" /\ x.stateStack = <<EndPI(x).state>>
            /\ x.state \in {"PI", "PIText"} /\ EndPI(x).elems = x.elems /\ EndPI(x).ns = x.ns
<1>1. CASE ~(x.state \in {"PI", "PIText"})
  BY <1>1 DEF EndPI
<1>2. CASE x.state \in {"PI", "PIText"}
  <2>1. x.out.mode = "pi"
    BY <1>2 DEF Sound, InStep, ModeOf
  <2>2. Read(x.out, Mark("?>")) = Enter(x.out, "content")
    BY <2>1, ReadMark
  <2>3. EndPI(x) = popState(NewText(Emit(x, <<Mark("?>")>>)), "Document")
    BY <1>2 DEF EndPI
  <2> QED BY <1>2, <2>2, <2>3, StopSound DEF States
<1> QED BY <1>1, <1>2

\* EndCDATA outside of a section is refused; else it ends for both.
LEMMA EndCDATASound ==
  ASSUME NEW x, Sound(x), x.ret = "ok"
  PROVE  \/ EndCDATA(x) = Refuse(x) /\ ~(x.state = "CDATA")
         \/ /\ Sound(EndCDATA(x)) /\ EndCDATA(x).ret = "ok" /\ x.stateStack = <<EndCDATA(x).state>>
            /\ x.state = "CDATA" /\ EndCDATA(x).elems = x.elems /\ EndCDATA(x).ns = x.ns
<1>1. CASE ~(x.state = "CDATA")
  BY <1>1 DEF EndCDATA
<1>2. CASE x.state = "CDATA"
  <2>1. x.out.mode = "cdata"
    BY <1>2 DEF Sound, InStep, ModeOf
  <2>2. Read(x.out, Mark("]]>")) = Enter(x.out, "content")
    BY <2>1, ReadMark
  <2>3. EndCDATA(x) = popState(NewText(Emit(x, <<Mark("]]>")>>)), "Text")
    BY <1>2 DEF EndCDATA
  <2> QED BY <1>2, <2>2, <2>3, StopSound DEF States
<1> QED BY <1>1, <1>2

\* EndAttribute outside of an attribute is refused; else it ends for both.
LEMMA EndAttributeSound ==
  ASSUME NEW x, Sound(x), x.ret = "ok"
  PROVE  \/ EndAttribute(x) = Refuse(x) /\ ~(x.state = "Attribute")
         \/ /\ Sound(EndAttribute(x)) /\ EndAttribute(x).ret = "ok" /\ x.stateStack = <<EndAttribute(x).state>>
            /\ x.state = "Attribute" /\ EndAttribute(x).elems = x.elems /\ EndAttribute(x).ns = x.ns
<1>1. CASE ~(x.state = "Attribute")
  BY <1>1 DEF EndAttribute
<1>2. CASE x.state = "Attribute"
  <2>1. x.out.mode = "attr"
    BY <1>2 DEF Sound, InStep, ModeOf
  <2>2. Read(x.out, Mark("quote")) = Enter(x.out, "tag")
    BY <2>1, ReadMark
  <2>3. EndAttribute(x) = popState(NewText(Emit(x, <<Mark("quote")>>)), "Name")
    BY <1>2 DEF EndAttribute
  <2> QED BY <1>2, <2>2, <2>3, StopSound DEF States
<1> QED BY <1>1, <1>2

-----------------------------------------------------------------------------
(***************************************************************************)
(* The document and its DTD.                                               *)
(***************************************************************************)
Prolog == {"None", "Document", "DTD", "DTDText"}

\* Moving about in the prolog, where no element is open.
LEMMA PrologSound ==
  ASSUME NEW x, Sound(x), x.state \in Prolog, NEW y, Control(y), ~y.astray,
         y.state \in Prolog, y.elems = x.elems, y.ns = x.ns, y.stateStack = x.stateStack,
         y.out \in Reader, y.out.open = x.out.open, y.out.mode = ModeOf(y.state),
         y.out.text = y.written
  PROVE  Sound(y)
<1>1. Placed(y) /\ InStep(y) /\ Trails(y) /\ InTag(y) = InTag(x) /\ ~InTag(y)
  BY DEF Placed, InStep, Trails, InTag, Prolog, Sound
<1>2. SameStacks(x, y)
  BY DEF SameStacks
<1> QED BY <1>1, <1>2, MoveSound

\* x in another state, and astray if v says so.
Moved(x, s, v) == [x EXCEPT !.state = s, !.astray = v]

\* Changing the state, and whether the writer is astray.
LEMMA MovedControl ==
  ASSUME NEW x, Control(x), NEW s \in States, NEW v \in BOOLEAN, NEW y, y = Moved(x, s, v)
  PROVE  /\ Control(y) /\ y.state = s /\ y.astray = v /\ y.elems = x.elems /\ y.ns = x.ns
         /\ y.stateStack = x.stateStack /\ y.out = x.out /\ y.written = x.written /\ y.ret = x.ret
<1>1. y \in Writer(x.out) /\ y.out = x.out
  BY DEF Control, Writer, Moved
<1> QED BY <1>1 DEF Control, Writer, Moved

\* The writer of an XML 1.1 document.
Modern(x) == [x EXCEPT !.xml11 = TRUE]

\* The version is no matter of the reader's.
LEMMA VersionSound ==
  ASSUME NEW x, Sound(x), NEW v \in BOOLEAN, NEW y, y = [x EXCEPT !.xml11 = v]
  PROVE  Sound(y) /\ y.ret = x.ret /\ y.state = x.state /\ y.out = x.out /\ y.xml11 = v
<1>1. /\ Control(y) /\ y.state = x.state /\ y.elems = x.elems /\ y.ns = x.ns
      /\ y.stateStack = x.stateStack /\ y.commentDash = x.commentDash /\ y.piQuestion = x.piQuestion
      /\ y.cdataBrackets = x.cdataBrackets /\ y.out = x.out /\ y.written = x.written
      /\ y.astray = x.astray /\ y.ret = x.ret /\ y.xml11 = v
  BY DEF Sound, Control, Writer
<1>2. Placed(y) /\ Trails(y) /\ Tagged(y) /\ InStep(y)
  BY <1>1 DEF Sound, Placed, Trails, Tagged, InStep, InTag
<1>3. Nested(y) /\ Scoped(y)
  BY <1>1 DEF Sound, Nested, Scoped, InTag
<1> QED BY <1>1, <1>2, <1>3 DEF Sound

\* The XML declaration: one that comes late leads astray.
Declaration(x) ==
    [Emit(x, <<Mark("<?xml")>>) EXCEPT !.state = "Document", !.astray = @ \/ x.out.began]

LEMMA DeclarationSound ==
  ASSUME NEW x, Sound(x), x.ret = "ok", x.state = "None", NEW y, y = Declaration(x)
  PROVE  y.ret = "ok" /\ (y.astray \/ Sound(y))
<1> DEFINE a == Emit(x, <<Mark("<?xml")>>)
           v == x.astray \/ x.out.began
<1>1. /\ Control(a) /\ Alike(x, a) /\ a.written = x.written /\ a.elems = x.elems
      /\ a.ns = x.ns /\ a.out = Read(x.out, Mark("<?xml"))
  BY EmitControl, OneUnit DEF Sound
<1>2. y = Moved(a, "Document", v)
  BY <1>1 DEF Declaration, Alike, Kin, Moved
<1>3. v \in BOOLEAN /\ v = x.out.began
  BY SoundTypes DEF Reader
<1> HIDE DEF a, v
<1>4. /\ Control(y) /\ y.state = "Document" /\ y.astray = v /\ y.elems = a.elems /\ y.ns = a.ns
      /\ y.stateStack = a.stateStack /\ y.out = a.out /\ y.written = a.written /\ y.ret = a.ret
  <2>1. "Document" \in States
    BY DEF States
  <2> QED BY <1>1, <1>2, <1>3, <2>1, MovedControl
<1>5. CASE v
  BY <1>1, <1>4, <1>5 DEF Alike, Kin
<1>6. CASE ~v
  <2>1. x.out.mode = "content"
    BY DEF Sound, InStep, ModeOf
  <2>2. a.out = Enter(x.out, "content")
    BY <1>1, <1>3, <1>6, <2>1, ReadMark
  <2>3. /\ y.out \in Reader /\ y.out.mode = "content" /\ y.out.open = x.out.open
        /\ y.out.text = y.written
    <3>1. x.out \in Reader /\ x.out.text = x.written
      BY SoundTypes
    <3>2. "content" \in Modes
      BY DEF Modes
    <3>3. /\ a.out \in Reader /\ a.out.mode = "content" /\ a.out.open = x.out.open
          /\ a.out.text = x.out.text
      BY <2>2, <3>1, <3>2, EnterIs
    <3> QED BY <1>1, <1>4, <3>1, <3>3
  <2>4. Sound(y)
    BY <1>1, <1>4, <1>6, <2>3, PrologSound DEF Prolog, ModeOf, Alike, Kin
  <2> QED BY <1>1, <1>4, <2>4 DEF Alike, Kin
<1> QED BY <1>5, <1>6

\* StartDocument is refused with nothing changed, or for its encoding, when the
\* version 1.1 has been taken over; or it writes the declaration.
LEMMA StartDocumentSound ==
  ASSUME NEW x, Sound(x), x.ret = "ok", NEW v \in Versions, NEW ok \in BOOLEAN,
         NEW encoding \in BOOLEAN, NEW y, y = StartDocument(x, v, ok, encoding)
  PROVE  \/ Fine(x, y)
         \/ y = Refuse(Modern(x)) /\ y = StartDocument(x, "1.1", TRUE, FALSE)
<1> DEFINE z == [x EXCEPT !.xml11 = @ \/ v = "1.1"]
<1>1. CASE x.state # "None" \/ ~ok
  BY <1>1 DEF StartDocument, Fine
<1>2. CASE x.state = "None" /\ ok
  <2>1. x.xml11 \in BOOLEAN /\ x = [x EXCEPT !.xml11 = x.xml11]
    BY DEF Sound, Control, Writer
  <2>2. Sound(z) /\ z.ret = "ok" /\ z.state = "None" /\ z.out = x.out
    <3> DEFINE t == (x.xml11 \/ v = "1.1")
    <3>1. z = [x EXCEPT !.xml11 = t] /\ t \in BOOLEAN
      BY <2>1
    <3> HIDE DEF t, z
    <3> QED BY <1>2, <3>1, VersionSound
  <2>3. CASE ~encoding
    <3>1. y = Refuse(z)
      BY <1>2, <2>3 DEF StartDocument
    <3>2. CASE v = "1.1"
      <4>1. z = Modern(x)
        BY <3>2 DEF Modern
      <4>2. y = StartDocument(x, "1.1", TRUE, FALSE)
        BY <1>2, <3>1, <3>2 DEF StartDocument
      <4> QED BY <3>1, <4>1, <4>2
    <3>3. CASE v # "1.1"
      <4>1. z = [x EXCEPT !.xml11 = x.xml11]
        BY <2>1, <3>3
      <4> QED BY <2>1, <3>1, <4>1 DEF Fine
    <3> QED BY <3>2, <3>3
  <2>4. CASE encoding
    <3>1. y = Declaration(z)
      <4>1. y = [Emit(z, <<Mark("<?xml")>>) EXCEPT !.state = "Document", !.astray = @ \/ x.out.began]
        BY <1>2, <2>4 DEF StartDocument
      <4> HIDE DEF z
      <4> QED BY <2>2, <4>1 DEF Declaration
    <3> HIDE DEF z
    <3> QED BY <2>2, <3>1, DeclarationSound DEF Fine
  <2> QED BY <2>3, <2>4
<1> QED BY <1>1, <1>2

\* StartDTD is refused or begins a DTD for both.
LEMMA StartDTDSound ==
  ASSUME NEW x, Sound(x), x.ret = "ok", NEW ok \in BOOLEAN
  PROVE  \/ StartDTD(x, ok) = Refuse(x)
         \/ /\ Sound(StartDTD(x, ok)) /\ StartDTD(x, ok).ret = "ok"
            /\ StartDTD(x, ok).state = "DTD"
<1> DEFINE a == Emit(x, <<Mark("<!DOCTYPE")>>)
           b == NewText(a)
           y == [b EXCEPT !.state = "DTD"]
<1>1. CASE x.state # "Document" \/ ~ok
  BY <1>1 DEF StartDTD
<1>2. CASE x.state = "Document" /\ ok
  <2>1. StartDTD(x, ok) = y
    BY <1>2 DEF StartDTD
  <2>2. /\ Control(a) /\ Alike(x, a) /\ a.elems = x.elems /\ a.ns = x.ns
        /\ a.out = Read(x.out, Mark("<!DOCTYPE"))
    BY EmitControl, OneUnit DEF Sound
  <2>3. x.out.mode = "content" /\ x.out.open = <<>>
    <3>1. Len(x.out.open) = 0 /\ x.out.mode = "content"
      BY <1>2, SoundTypes DEF Sound, Placed, InTag, InStep, ModeOf
    <3> QED BY <3>1, SoundTypes, EmptySeq
  <2>4. a.out = Enter(x.out, "doctype")
    BY <2>2, <2>3, ReadMark
  <2> HIDE DEF a
  <2>5. /\ Control(b) /\ Alike(a, b) /\ b.written = <<>> /\ b.elems = a.elems /\ b.ns = a.ns
        /\ b.out = [a.out EXCEPT !.text = <<>>]
    BY <2>2, NewTextControl
  <2> HIDE DEF b
  <2>6. /\ Control(y) /\ Alike(b, y) /\ y.written = b.written /\ y.elems = b.elems /\ y.ns = b.ns
        /\ y.state = "DTD" /\ y.out = b.out
    BY <2>5, StateControl DEF States
  <2> HIDE DEF y
  <2>7. /\ a.out \in Reader /\ a.out.mode = "doctype" /\ a.out.open = x.out.open
    BY <2>4, SoundTypes, EnterIs DEF Modes
  <2>8. /\ y.out \in Reader /\ y.out.mode = "doctype" /\ y.out.open = x.out.open
        /\ y.out.text = y.written
    BY <2>5, <2>6, <2>7, ForgetIs
  <2>9. y.ret = "ok" /\ y.stateStack = x.stateStack /\ ~y.astray
    BY <2>2, <2>5, <2>6 DEF Alike, Kin, Sound
  <2>10. Sound(y)
    BY <1>2, <2>2, <2>5, <2>6, <2>8, <2>9, PrologSound, ZenonT(30) DEF Prolog, ModeOf
  <2> QED BY <2>1, <2>6, <2>9, <2>10
<1> QED BY <1>1, <1>2

InState(x, s) == [x EXCEPT !.state = s]

\* The reader of a DTD goes, in one move or two, to the mode of state s, or stays.
Leads(x, units, s) ==
    \/ ReadAll(x.out, units) = x.out /\ s = x.state
    \/ ReadAll(x.out, units) = Enter(x.out, ModeOf(s))
    \/ \E m \in Modes : ReadAll(x.out, units) = Enter(Enter(x.out, m), ModeOf(s))

\* A piece of markup inside the DTD, and the state it leads to.
LEMMA InDTDSound ==
  ASSUME NEW x, Sound(x), x.state \in {"DTD", "DTDText"}, NEW units,
         NEW s \in {"DTD", "DTDText", "Document"},
         Leads(x, units, s),
         NEW y, y = InState(Emit(x, units), s)
  PROVE  /\ Sound(y) /\ y.ret = x.ret /\ y.state = s /\ y.elems = x.elems
         /\ s = x.state => Emit(x, units) = y
<1> DEFINE a == Emit(x, units)
<1>1. /\ Control(a) /\ Alike(x, a) /\ a.elems = x.elems /\ a.ns = x.ns /\ a.state = x.state
      /\ a.out = ReadAll(x.out, units) /\ a.written = x.written
  BY EmitControl DEF Sound
<1> HIDE DEF a
<1>2. /\ Control(y) /\ Alike(a, y) /\ y.written = a.written /\ y.elems = a.elems /\ y.ns = a.ns
      /\ y.state = s /\ y.out = a.out
  <2>1. s \in States
    BY DEF States
  <2>2. y = [a EXCEPT !.state = s]
    BY DEF a, InState
  <2> DEFINE z == [a EXCEPT !.state = s]
  <2>3. /\ Control(z) /\ Alike(a, z) /\ z.written = a.written /\ z.elems = a.elems /\ z.ns = a.ns
        /\ z.state = s /\ z.out = a.out
    BY <1>1, <2>1, StateControl
  <2> HIDE DEF z
  <2> QED BY <2>2, <2>3, Zenon DEF z
<1>3. s = x.state => a = y
  BY <1>1 DEF Control, Writer, a, InState
<1>4. ModeOf(s) \in Modes
  BY DEF ModeOf, Modes
<1>5. /\ a.out \in Reader /\ a.out.mode = ModeOf(s) /\ a.out.open = x.out.open
      /\ a.out.text = x.out.text
  <2>1. x.out \in Reader /\ x.out.mode = ModeOf(x.state)
    BY DEF Sound, InStep
  <2>2. CASE ReadAll(x.out, units) = x.out /\ s = x.state
    BY <1>1, <2>1, <2>2
  <2>3. CASE ReadAll(x.out, units) = Enter(x.out, ModeOf(s))
    BY <1>1, <1>4, <2>1, <2>3, EnterIs
  <2>4. CASE \E m \in Modes : ReadAll(x.out, units) = Enter(Enter(x.out, m), ModeOf(s))
    <3>1. PICK m \in Modes : ReadAll(x.out, units) = Enter(Enter(x.out, m), ModeOf(s))
      BY <2>4
    <3>2. /\ Enter(x.out, m) \in Reader /\ Enter(x.out, m).open = x.out.open
          /\ Enter(x.out, m).text = x.out.text
      BY <2>1, EnterIs
    <3> QED BY <1>1, <1>4, <3>1, <3>2, EnterIs
  <2> QED BY <2>2, <2>3, <2>4 DEF Leads
<1>6. y.ret = x.ret /\ y.stateStack = x.stateStack /\ ~y.astray /\ y.out.text = y.written
  BY <1>1, <1>2, <1>5, SoundTypes DEF Alike, Kin
<1>7. Sound(y)
  BY <1>1, <1>2, <1>5, <1>6, PrologSound DEF Prolog
<1> QED BY <1>1, <1>2, <1>3, <1>6, <1>7 DEF a

\* Reading three units.
LEMMA ThreeUnits ==
  ASSUME NEW r, NEW u, NEW v, NEW q
  PROVE  ReadAll(r, <<u, v, q>>) = Read(Read(Read(r, u), v), q)
<1> DEFINE s == <<u, v, q>>
           g == [k \in 0 .. 3 |-> IF k = 0 THEN r ELSE IF k = 1 THEN Read(r, u) ELSE
                                  IF k = 2 THEN Read(Read(r, u), v) ELSE Read(Read(Read(r, u), v), q)]
<1>1. Len(s) = 3 /\ s[1] = u /\ s[2] = v /\ s[3] = q
  OBVIOUS
<1>2. /\ g[0] = r /\ g[1] = Read(r, u) /\ g[2] = Read(Read(r, u), v)
      /\ g[3] = Read(Read(Read(r, u), v), q)
  OBVIOUS
<1> HIDE DEF g, s
<1>3. \A k \in 1 .. 3 : g[k] = Read(g[k - 1], s[k])
  <2>1. \A k \in 1 .. 3 : k = 1 \/ k = 2 \/ k = 3
    OBVIOUS
  <2> QED BY <1>1, <1>2, <2>1
<1>4. Reading(g, r, s, 3)
  BY <1>1, <1>2, <1>3 DEF Reading
<1>5. ReadAll(r, s) = g[3]
  BY <1>4, ReadLoop
<1> QED BY <1>2, <1>5 DEF s

\* A declaration in the DTD, which opens the internal subset first.
LEMMA WriteDTDDeclSound ==
  ASSUME NEW x, Sound(x), x.ret = "ok", NEW ok \in BOOLEAN
  PROVE  Fine(x, WriteDTDDecl(x, ok))
<1>1. CASE x.state \notin {"DTD", "DTDText"} \/ ~ok
  BY <1>1 DEF WriteDTDDecl, Fine
<1>2. CASE x.state \in {"DTD", "DTDText"} /\ ok
  <2> DEFINE a == ensureDTDInternalSubset(x)
             units == <<Mark("<!decl>")>>
  <2>1. Sound(a) /\ a.ret = "ok" /\ a.state = "DTDText"
    <3>1. CASE x.state = "DTDText"
      BY <3>1 DEF ensureDTDInternalSubset
    <3>2. CASE x.state = "DTD"
      <4> DEFINE u == <<Mark("[")>>
      <4>1. ReadAll(x.out, u) = Enter(x.out, "subset")
        <5>1. x.out.mode = "doctype"
          BY <3>2 DEF Sound, InStep, ModeOf
        <5> QED BY <5>1, OneUnit, ReadMark
      <4>2. a = InState(Emit(x, u), "DTDText")
        BY <3>2 DEF ensureDTDInternalSubset, InState
      <4>3. Leads(x, u, "DTDText")
        BY <4>1 DEF ModeOf, Leads
      <4> HIDE DEF u, a
      <4>4. x.state \in {"DTD", "DTDText"} /\ "DTDText" \in {"DTD", "DTDText", "Document"}
        BY <3>2
      <4> QED BY <4>2, <4>3, <4>4, InDTDSound
    <3> QED BY <1>2, <3>1, <3>2
  <2>2. WriteDTDDecl(x, ok) = Emit(a, units)
    BY <1>2 DEF WriteDTDDecl
  <2> HIDE DEF a
  <2>3. Leads(a, units, "DTDText")
    <3>1. a.out.mode = "subset"
      BY <2>1 DEF Sound, InStep, ModeOf
    <3> QED BY <2>1, <3>1, OneUnit, ReadMark DEF Leads
  <2> DEFINE y == InState(Emit(a, units), "DTDText")
  <2> HIDE DEF units
  <2>4. y = InState(Emit(a, units), "DTDText")
    OBVIOUS
  <2> HIDE DEF y
  <2>5. Sound(y) /\ y.ret = a.ret /\ Emit(a, units) = y
    BY <2>1, <2>3, <2>4, InDTDSound
  <2> QED BY <2>1, <2>2, <2>5 DEF Fine
<1> QED BY <1>1, <1>2

\* EndDTD closes the internal subset if there is one.
LEMMA EndDTDSound ==
  ASSUME NEW x, Sound(x), x.ret = "ok"
  PROVE  \/ EndDTD(x) = Refuse(x) /\ x.state \notin {"DTD", "DTDText"}
         \/ /\ Sound(EndDTD(x)) /\ EndDTD(x).ret = "ok" /\ EndDTD(x).state = "Document"
            /\ EndDTD(x).elems = x.elems /\ x.state \in {"DTD", "DTDText"}
<1>1. CASE x.state \notin {"DTD", "DTDText"}
  BY <1>1 DEF EndDTD
<1>2. CASE x.state \in {"DTD", "DTDText"}
  <2> DEFINE u == <<Mark(">")>>
             v == <<Mark("]"), Mark(">")>>
             y == EndDTD(x)
  <2>0. x.out \in Reader /\ ModeOf("Document") = "content" /\ x.state # "Document"
        /\ x.out.mode # "content" /\ "content" \in Modes /\ "doctype" \in Modes
    BY <1>2 DEF Sound, InStep, ModeOf, Modes
  <2>1. CASE x.state = "DTD"
    <3>1. ReadAll(x.out, u) = Enter(x.out, "content")
      <4>1. x.out.mode = "doctype"
        BY <2>1 DEF Sound, InStep, ModeOf
      <4> QED BY <4>1, OneUnit, ReadMark
    <3>2. y = InState(Emit(x, u), "Document")
      BY <2>1 DEF EndDTD, InState
    <3>3. Leads(x, u, "Document")
      BY <2>0, <3>1 DEF Leads
    <3> HIDE DEF u, y
    <3>4. Sound(y) /\ y.ret = x.ret /\ y.state = "Document" /\ y.elems = x.elems
      <4>1. x.state \in {"DTD", "DTDText"} /\ "Document" \in {"DTD", "DTDText", "Document"}
        BY <2>1
      <4> QED BY <3>2, <3>3, <4>1, InDTDSound
    <3> QED BY <2>1, <3>4 DEF y
  <2>2. CASE x.state = "DTDText"
    <3>1. ReadAll(x.out, v) = Enter(Enter(x.out, "doctype"), "content")
      <4>1. x.out.mode = "subset"
        BY <2>2 DEF Sound, InStep, ModeOf
      <4>2. Enter(x.out, "doctype").mode = "doctype"
        BY <2>0, EnterIs
      <4> QED BY <4>1, <4>2, TwoUnits, ReadMark
    <3>2. y = InState(Emit(x, v), "Document")
      BY <2>2 DEF EndDTD, InState
    <3>3. Leads(x, v, "Document")
      BY <2>0, <3>1 DEF Leads
    <3> HIDE DEF v, y
    <3>5. Sound(y) /\ y.ret = x.ret /\ y.state = "Document" /\ y.elems = x.elems
      <4>1. x.state \in {"DTD", "DTDText"} /\ "Document" \in {"DTD", "DTDText", "Document"}
        BY <2>2
      <4> QED BY <3>2, <3>3, <4>1, InDTDSound
    <3> QED BY <2>2, <3>5 DEF y
  <2> QED BY <1>2, <2>1, <2>2
<1> QED BY <1>1, <1>2

\* A whole DTD.
LEMMA WriteDTDSound ==
  ASSUME NEW x, Sound(x), x.ret = "ok", NEW ok \in BOOLEAN, NEW subset \in BOOLEAN
  PROVE  Fine(x, WriteDTD(x, ok, subset))
<1> DEFINE a == StartDTD(x, ok)
           units == <<Mark("["), Mark("<!decl>"), Mark("]")>>
           b == IF subset THEN Emit(a, units) ELSE a
<1>1. WriteDTD(x, ok, subset) = IF a.ret = "refused" THEN a ELSE EndDTD(b)
  BY DEF WriteDTD, Then
<1>2. CASE a = Refuse(x)
  BY <1>1, <1>2, RefuseControl, SoundTypes DEF Fine
<1>3. CASE Sound(a) /\ a.ret = "ok" /\ a.state = "DTD"
  <2> HIDE DEF a
  <2>1. Sound(b) /\ b.ret = "ok" /\ b.state = "DTD"
    <3>1. CASE ~subset
      BY <1>3, <3>1
    <3>2. CASE subset
      <4>0. a.out \in Reader /\ a.out.mode = "doctype" /\ ModeOf("DTD") = "doctype"
            /\ "subset" \in Modes /\ "doctype" \in Modes
        BY <1>3 DEF Sound, InStep, ModeOf, Modes
      <4>1. ReadAll(a.out, units) = Enter(Enter(a.out, "subset"), "doctype")
        <5>1. Enter(a.out, "subset").mode = "subset"
          BY <4>0, EnterIs
        <5> QED BY <4>0, <5>1, ThreeUnits, ReadMark
      <4>2. Leads(a, units, "DTD")
        BY <4>0, <4>1 DEF Leads
      <4> DEFINE y == InState(Emit(a, units), "DTD")
      <4> HIDE DEF units
      <4>3. y = InState(Emit(a, units), "DTD")
        OBVIOUS
      <4> HIDE DEF y
      <4>4. Sound(y) /\ y.ret = a.ret /\ y.state = "DTD" /\ Emit(a, units) = y
        BY <1>3, <4>2, <4>3, InDTDSound
      <4> QED BY <1>3, <3>2, <4>4
    <3> QED BY <3>1, <3>2
  <2> HIDE DEF b
  <2>2. Sound(EndDTD(b)) /\ EndDTD(b).ret = "ok"
    BY <2>1, EndDTDSound
  <2> QED BY <1>1, <1>3, <2>2 DEF Fine
<1> QED BY <1>2, <1>3, StartDTDSound

-----------------------------------------------------------------------------
(***************************************************************************)
(* Start tags and attributes.                                              *)
(***************************************************************************)
AttrUnit(p, u) == [t |-> "attr=", name |-> p, uri |-> u]

\* The reader has come from r into a tag or a value of it.
Within(r, q, mode) ==
    q \in Reader /\ q.mode = mode /\ q.open = r.open /\ q.text = r.text

\* No declarations.
LEMMA NoDecls == <<>> \in Decls /\ IsFiniteSet(DOMAIN <<>>)
<1>1. <<>> \in [{} -> Nat] /\ DOMAIN <<>> = {}
  OBVIOUS
<1>2. <<>> \in Decls
  BY <1>1 DEF Decls
<1> QED BY <1>1, <1>2, FS_EmptySet

\* The reader takes the beginning of a start tag.
LEMMA ReadOpen ==
  ASSUME NEW r \in Reader, r.mode = "content", NEW p \in NSPrefixes, NEW u \in Int,
         NEW q, q = Read(r, OpenUnit(p, u))
  PROVE  Within(r, q, "tag") /\ q.tag.name = p /\ q.tag.binds = <<>>
<1> DEFINE m == OpenUnit(p, u)
           a == Enter(r, "tag")
           t == [name |-> p, binds |-> <<>>, uses |-> Use(m)]
           T == 0 .. 2
           O == Seq([name : NSPrefixes, binds : [NSPrefixes -> Nat]])
           C == Seq(Char)
<1>1. m.t = "<" /\ m.name = p /\ m.uri = u
  BY DEF OpenUnit
<1>6. q = Read(r, m)
  OBVIOUS
<1> HIDE DEF m
<1>2. q = [a EXCEPT !.tag = t]
  <2>1. Read(r, m) = [Enter(r, "tag") EXCEPT !.tag = [name |-> m.name, binds |-> <<>>,
                                                      uses |-> Use(m)]]
    <3>1. Read(r, m) = OpenTag(r, m)
      BY <1>1 DEF Read
    <3> QED BY <3>1 DEF OpenTag
  <2> QED BY <1>1, <1>6, <2>1
<1>3. t \in Tag /\ t.name = p /\ t.binds = <<>>
  <2>1. Use(m) \in SUBSET [prefix : NSPrefixes, uri : Int]
    BY <1>1 DEF Use
  <2>2. <<>> \in Decls
    BY NoDecls
  <2> QED BY <2>1, <2>2 DEF Tag
<1>4. a \in Reader /\ a.mode = "tag" /\ a.open = r.open /\ a.text = r.text
  BY EnterIs DEF Modes
<1>5. Reader = [mode : Modes, open : O, tag : Tag, tail : T, text : C,
                began : BOOLEAN, wrong : BOOLEAN]
  BY DEF Reader
<1> HIDE DEF T, O, C, a, t
<1> QED BY <1>2, <1>3, <1>4, <1>5 DEF Within

\* The reader takes the beginning of an attribute.
LEMMA ReadAttr ==
  ASSUME NEW r \in Reader, r.mode = "tag", NEW p \in NSPrefixes, NEW u \in Int,
         NEW q, q = Read(r, AttrUnit(p, u))
  PROVE  Within(r, q, "attr") /\ q.tag.name = r.tag.name /\ q.tag.binds = r.tag.binds
<1> DEFINE m == AttrUnit(p, u)
           a == Enter(r, "attr")
           t == [a.tag EXCEPT !.uses = @ \cup Use(m)]
           T == 0 .. 2
           O == Seq([name : NSPrefixes, binds : [NSPrefixes -> Nat]])
           C == Seq(Char)
<1>1. m.t = "attr=" /\ m.name = p /\ m.uri = u
  BY DEF AttrUnit
<1> HIDE DEF m
<1>2. q = [a EXCEPT !.tag = t]
  <2>1. Read(r, m) = NameAttribute(r, m)
    BY <1>1 DEF Read
  <2> QED BY <2>1 DEF NameAttribute, m
<1>3. /\ a \in Reader /\ a.mode = "attr" /\ a.open = r.open /\ a.text = r.text /\ a.tag = r.tag
      /\ a.tag \in Tag
  BY EnterIs DEF Modes, Reader
<1>4. t \in Tag /\ t.name = r.tag.name /\ t.binds = r.tag.binds
  <2>1. Use(m) \in SUBSET [prefix : NSPrefixes, uri : Int]
    BY <1>1 DEF Use
  <2> HIDE DEF a
  <2> QED BY <1>3, <2>1 DEF Tag
<1>5. Reader = [mode : Modes, open : O, tag : Tag, tail : T, text : C,
                began : BOOLEAN, wrong : BOOLEAN]
  BY DEF Reader
<1> HIDE DEF T, O, C, a, t
<1> QED BY <1>2, <1>3, <1>4, <1>5 DEF Within

\* A start tag begins for both.
LEMMA OpenedSound ==
  ASSUME NEW z, Sound(z), z.state \in {"None", "Document", "Text"}, NEW p \in NSPrefixes,
         NEW u \in Int, NEW from, from # "DTD", NEW y, y = Opened(z, p, u, from)
  PROVE  Sound(y)
<1> DEFINE n == Len(z.elems)
           e == NewElem(p)
           d == NewScope
<1>1. /\ Control(y) /\ y.state = "Name" /\ y.stateStack = z.stateStack
      /\ y.elems = Append(z.elems, e) /\ y.ns = Append(z.ns, d) /\ ~y.astray
      /\ y.written = z.written /\ y.out = ReadAll(z.out, <<OpenUnit(p, u)>>)
  <2>1. OpenedAs(z, p, u, from, y)
    BY OpenedControl, SoundTypes
  <2> QED BY <2>1, SoundTypes DEF OpenedAs
<1>2. /\ n \in Nat /\ Len(z.ns) = n /\ z.elems \in Seq(Elem) /\ z.ns \in Seq(Scope)
      /\ z.out \in Reader /\ z.out.text = z.written /\ Len(z.out.open) = n /\ z.stateStack = <<>>
      /\ z.out.mode = "content"
  BY SoundTypes DEF InTag, Sound, Placed, InStep, ModeOf
<1>3. Within(z.out, y.out, "tag") /\ y.out.tag.name = p /\ y.out.tag.binds = <<>>
  BY <1>1, <1>2, OneUnit, ReadOpen
<1>4. e \in Elem /\ e.name = p
  BY DEF Elem, NewElem
<1>5. d \in Scope /\ d.decls = <<>> /\ d.emitted = {}
  BY EmptyScope DEF NewScope
<1> HIDE DEF e, d
<1>6. /\ Len(y.elems) = n + 1 /\ y.elems[n + 1] = e
      /\ \A i \in 1 .. n : y.elems[i] = z.elems[i]
  BY <1>1, <1>2, <1>4, AppendProperties
<1>7. /\ Len(y.ns) = n + 1 /\ y.ns[n + 1] = d /\ \A i \in 1 .. n : y.ns[i] = z.ns[i]
  BY <1>1, <1>2, <1>5, AppendProperties
<1>8. Placed(y) /\ Trails(y)
  BY <1>1, <1>2, <1>6 DEF Placed, Trails
<1>9. InStep(y)
  BY <1>1, <1>2, <1>3 DEF InStep, Within, ModeOf
<1>10. Nested(y)
  <2>1. \A i \in 1 .. n : y.out.open[i].name = y.elems[i].name
    BY <1>2, <1>3, <1>6 DEF Sound, Nested, Within
  <2>2. Len(y.out.open) = n /\ Len(y.elems) - 1 = n
    BY <1>2, <1>3, <1>6 DEF Within
  <2> QED BY <1>1, <1>6, <1>7, <2>1, <2>2 DEF Nested, InTag
<1>11. Tagged(y)
  BY <1>3, <1>4, <1>5, <1>6, <1>7 DEF Tagged
<1>12. Scoped(y)
  <2>1. ASSUME NEW i \in 1 .. n + 1 PROVE IsFiniteSet(DOMAIN y.ns[i].decls)
    <3>1. CASE i = n + 1
      <4>1. y.ns[i].decls = <<>>
        BY <1>5, <1>7, <3>1
      <4> QED BY <4>1, NoDecls
    <3>2. CASE i # n + 1
      <4>1. i \in 1 .. n
        BY <1>2, <3>2
      <4> QED BY <1>2, <1>7, <4>1 DEF Sound, Scoped
    <3> QED BY <3>1, <3>2
  <2>2. ASSUME NEW i \in 1 .. n, NEW q \in NSPrefixes
        PROVE  y.out.open[i].binds[q] = InScope(y.ns, i, q)
    <3>1. SameDecls(y.ns, z.ns, i) /\ i \in Nat
      BY <1>2, <1>7, SMTT(30) DEF SameDecls
    <3>2. InScope(y.ns, i, q) = InScope(z.ns, i, q)
      BY <3>1, InScopeAgain
    <3>3. z.out.open[i].binds[q] = InScope(z.ns, i, q)
      BY <1>2 DEF Sound, Scoped
    <3> QED BY <1>3, <3>2, <3>3 DEF Within
  <2> QED BY <1>2, <1>3, <1>7, <2>1, <2>2 DEF Scoped, Within
<1> QED BY <1>1, <1>8, <1>9, <1>10, <1>11, <1>12 DEF Sound

\* A start tag has been written, by a writer that may be astray.
InNewTag(y) ==
    /\ Control(y) /\ y.ret = "ok" /\ y.state = "Name" /\ Len(y.elems) > 0
    /\ y.astray \/ Sound(y)

\* OpenElement is refused, goes astray in a DTD, or begins a tag for both.
LEMMA OpenElementSound ==
  ASSUME NEW x, Sound(x), x.ret = "ok", NEW p \in Names, NEW u \in Int
  PROVE  \/ OpenElement(x, p, u) = Refuse(x)
         \/ /\ InNewTag(OpenElement(x, p, u)) /\ p \in NSPrefixes
            /\ OpenElement(x, p, u).xml11 = x.xml11
<1> DEFINE z == Ready(x)
           y == OpenElement(x, p, u)
<1>1. CASE p = BadName \/ x.state \notin OpenStates
  BY <1>1, OpenElementIs
<1>2. CASE ~(p = BadName \/ x.state \notin OpenStates)
  <2>1. y = Opened(z, p, u, x.state) /\ p \in NSPrefixes
    BY <1>2, OpenElementIs DEF Names
  <2>2. Sound(z) /\ Control(z) /\ z.ret = "ok" /\ z.elems \in Seq(Elem)
        /\ z.xml11 = x.xml11
    BY ReadySound, ReadyControl, SoundTypes DEF Alike, Kin, Sound
  <2>3. z.state = IF x.state = "Name" THEN "Text" ELSE x.state
    BY ReadyControl DEF Sound
  <2> HIDE DEF z, y
  <2>4. /\ Control(y) /\ y.state = "Name" /\ y.ret = "ok" /\ (x.state = "DTD" => y.astray)
        /\ y.elems = Append(z.elems, NewElem(p)) /\ y.xml11 = x.xml11
    <3>1. OpenedAs(z, p, u, x.state, y)
      BY <2>1, <2>2, OpenedControl
    <3> QED BY <2>2, <3>1 DEF OpenedAs
  <2>5. Len(y.elems) > 0
    <3>1. NewElem(p) \in Elem
      BY <2>1 DEF Elem, NewElem
    <3>2. Len(y.elems) = Len(z.elems) + 1 /\ Len(z.elems) \in Nat
      BY <2>2, <2>4, <3>1, AppendProperties, LenProperties
    <3> QED BY <3>2
  <2>6. CASE x.state = "DTD"
    BY <2>1, <2>4, <2>5, <2>6 DEF InNewTag, y
  <2>7. CASE x.state # "DTD"
    <3>1. z.state \in {"None", "Document", "Text"} /\ x.state # "DTD"
      BY <1>2, <2>1, <2>3, <2>7 DEF OpenStates
    <3>2. Sound(y)
      BY <2>1, <2>2, <2>7, <3>1, OpenedSound
    <3> QED BY <2>1, <2>4, <2>5, <3>2 DEF InNewTag, y
  <2> QED BY <2>6, <2>7
<1> QED BY <1>1, <1>2

\* A declaration that is still to be written keeps both in step.
LEMMA DeclareSound ==
  ASSUME NEW x, Sound(x), x.state = "Name", NEW p \in NSPrefixes, NEW u \in Nat,
         NEW y, y = declareNS(x, p, u)
  PROVE  Sound(y)
<1>1. Control(y) /\ Declares(x, y)
  BY DeclareControl DEF Sound
<1>2. /\ Len(x.elems) \in Nat /\ Len(x.ns) = Len(x.elems) /\ Len(x.out.open) = Len(x.elems) - 1
      /\ Len(x.elems) > 0
  BY SoundTypes DEF InTag, Sound, Placed
<1>3. Placed(y) /\ InStep(y) /\ Nested(y) /\ Trails(y) /\ ~y.astray
  BY <1>1 DEF Sound, Placed, InStep, Nested, Trails, Declares, InTag
<1>4. Tagged(y)
  BY <1>1, <1>2 DEF Sound, Tagged, Declares, InTag
<1>5. Scoped(y)
  <2>1. \A i \in 1 .. Len(y.ns) : IsFiniteSet(DOMAIN y.ns[i].decls)
    BY <1>1 DEF Sound, Scoped, Declares
  <2>2. ASSUME NEW i \in 1 .. Len(y.out.open), NEW q \in NSPrefixes
        PROVE  y.out.open[i].binds[q] = InScope(y.ns, i, q)
    <3>1. y.out = x.out /\ i \in 1 .. Len(x.elems) - 1 /\ i \in Nat
      BY <1>1, <1>2 DEF Declares
    <3>2. SameDecls(y.ns, x.ns, i)
      <4>1. ASSUME NEW j \in 1 .. i PROVE y.ns[j] = x.ns[j]
        <5>1. j \in 1 .. Len(x.ns) /\ j < Len(x.ns)
          BY <1>2, <3>1
        <5> QED BY <1>1, <5>1 DEF Declares
      <4> QED BY <4>1 DEF SameDecls
    <3>3. InScope(y.ns, i, q) = InScope(x.ns, i, q)
      BY <3>1, <3>2, InScopeAgain
    <3>4. x.out.open[i].binds[q] = InScope(x.ns, i, q)
      BY <1>2, <3>1 DEF Sound, Scoped
    <3> QED BY <3>1, <3>3, <3>4
  <2> QED BY <2>1, <2>2 DEF Scoped
<1> QED BY <1>1, <1>3, <1>4, <1>5 DEF Sound

\* The same for a writer that may be astray.
LEMMA DeclareInTag ==
  ASSUME NEW x, InNewTag(x), NEW p \in NSPrefixes, NEW u \in Nat
  PROVE  InNewTag(declareNS(x, p, u))
<1> DEFINE y == declareNS(x, p, u)
<1>1. Control(y) /\ Declares(x, y)
  BY DeclareControl DEF InNewTag
<1>2. Sound(x) => Sound(y)
  BY DeclareSound DEF InNewTag
<1> HIDE DEF y
<1>3. InNewTag(y)
  BY <1>1, <1>2 DEF InNewTag, Declares
<1> QED BY <1>3 DEF y

\* StartElementNS: as OpenElement.
LEMMA StartElementNSSound ==
  ASSUME NEW x, Sound(x), x.ret = "ok", NEW p \in Names, NEW u \in URIs \cup {0}
  PROVE  \/ StartElementNS(x, p, u) = Refuse(x)
         \/ InNewTag(StartElementNS(x, p, u)) /\ StartElementNS(x, p, u).xml11 = x.xml11
<1> DEFINE v == IF u = 0 /\ p # "" THEN Unset ELSE u
           y == OpenElement(x, p, v)
<1>1. v \in Int /\ u \in Nat
  <2>1. u \in Nat
    <3>1. CASE u \in URIs
      BY <3>1, InputsAssumption
    <3>2. CASE u = 0
      BY <3>2
    <3> QED BY <3>1, <3>2
  <2>2. Unset \in Int
    BY DEF Unset
  <2> QED BY <2>1, <2>2
<1>2. StartElementNS(x, p, u) =
        IF y.ret = "refused" THEN y
        ELSE IF u # 0 THEN declareNS(y, p, u)
        ELSE IF p = "" /\ hasDefaultNSInScope(y) THEN declareNS(y, "", 0) ELSE y
  BY DEF StartElementNS, Then
<1>3. y = Refuse(x) \/ (InNewTag(y) /\ p \in NSPrefixes /\ y.xml11 = x.xml11)
  BY <1>1, OpenElementSound
<1> HIDE DEF v, y
<1>4. CASE y = Refuse(x)
  BY <1>2, <1>4, RefuseControl DEF Sound
<1>5. CASE InNewTag(y) /\ p \in NSPrefixes /\ y.xml11 = x.xml11
  <2>1. y.ret = "ok"
    BY <1>5 DEF InNewTag
  <2>2. InNewTag(declareNS(y, p, u)) /\ (p = "" => InNewTag(declareNS(y, "", 0)))
    BY <1>1, <1>5, DeclareInTag
  <2>3. declareNS(y, p, u).xml11 = y.xml11 /\ (p = "" => declareNS(y, "", 0).xml11 = y.xml11)
    <3>1. Control(y) /\ 0 \in Nat
      BY <1>5 DEF InNewTag
    <3>2. Declares(y, declareNS(y, p, u))
      BY <1>1, <1>5, <3>1, DeclareControl
    <3>3. ASSUME p = "" PROVE Declares(y, declareNS(y, "", 0))
      BY <1>5, <3>1, <3>3, DeclareControl
    <3>4. declareNS(y, p, u).xml11 = y.xml11
      BY <3>2 DEF Declares
    <3>5. ASSUME p = "" PROVE declareNS(y, "", 0).xml11 = y.xml11
      BY <3>3, <3>5 DEF Declares
    <3> QED BY <3>4, <3>5
  <2> QED BY <1>2, <1>5, <2>1, <2>2, <2>3
<1> QED BY <1>3, <1>4, <1>5

\* An attribute begins for both.
LEMMA StartAttributeOfSound ==
  ASSUME NEW x, Sound(x), x.ret = "ok", NEW p \in Names, NEW u \in Int,
         NEW y, y = StartAttributeOf(x, p, u)
  PROVE  \/ y = Refuse(x) /\ (p = BadName \/ x.state # "Name")
         \/ Sound(y) /\ y.ret = "ok" /\ y.state = "Attribute" /\ y.xml11 = x.xml11
<1> DEFINE a == Emit(x, <<AttrUnit(p, u)>>)
           b == NewText(a)
<1>1. CASE p = BadName \/ x.state # "Name"
  BY <1>1 DEF StartAttributeOf
<1>2. CASE ~(p = BadName \/ x.state # "Name")
  <2>0. p \in NSPrefixes
    BY <1>2 DEF Names
  <2>1. y = PushState(b, "Attribute")
    BY <1>2 DEF StartAttributeOf, AttrUnit
  <2>2. /\ Control(a) /\ Alike(x, a) /\ a.elems = x.elems /\ a.ns = x.ns /\ a.state = "Name"
        /\ a.out = Read(x.out, AttrUnit(p, u))
    BY <1>2, EmitControl, OneUnit DEF Sound
  <2>3. /\ Within(x.out, a.out, "attr") /\ a.out.tag.name = x.out.tag.name
        /\ a.out.tag.binds = x.out.tag.binds
    <3>1. x.out \in Reader /\ x.out.mode = "tag"
      BY <1>2 DEF Sound, InStep, ModeOf
    <3> QED BY <2>0, <2>2, <3>1, ReadAttr
  <2> HIDE DEF a
  <2>4. /\ Control(b) /\ Alike(a, b) /\ b.written = <<>> /\ b.elems = a.elems /\ b.ns = a.ns
        /\ b.out = [a.out EXCEPT !.text = <<>>] /\ b.state = a.state
    BY <2>2, NewTextControl
  <2>5. /\ b.out \in Reader /\ b.out.mode = "attr" /\ b.out.open = x.out.open
        /\ b.out.text = <<>> /\ b.out.tag = a.out.tag
    BY <2>3, <2>4, ForgetIs DEF Within
  <2> HIDE DEF b
  <2>6. "Attribute" \in States
    BY DEF States
  <2>7. /\ Control(y) /\ SameBody(b, y) /\ y.state = "Attribute"
        /\ y.stateStack = Append(b.stateStack, b.state)
    BY <2>1, <2>4, <2>6, PushControl
  <2>8. y.stateStack = <<"Name">>
    <3>1. b.stateStack = <<>> /\ b.state = "Name"
      BY <1>2, <2>2, <2>4 DEF Alike, Kin, Sound, Placed
    <3>2. Append(<<>>, "Name") = <<"Name">>
      OBVIOUS
    <3> QED BY <2>7, <3>1, <3>2, Zenon
  <2>9. /\ y.out = b.out /\ y.elems = x.elems /\ y.ns = x.ns /\ y.written = <<>> /\ y.ret = "ok"
        /\ ~y.astray /\ y.xml11 = x.xml11
    BY <2>2, <2>4, <2>7 DEF SameBody, Alike, Kin, Sound
  <2>10. Placed(y) /\ InStep(y) /\ Trails(y) /\ InTag(y) /\ InTag(x)
    BY <1>2, <2>5, <2>7, <2>8, <2>9 DEF Placed, InStep, Trails, InTag, ModeOf, Sound
  <2>11. SameStacks(x, y)
    BY <2>9 DEF SameStacks
  <2>12. Sound(y)
    BY <2>3, <2>5, <2>7, <2>9, <2>10, <2>11, MoveSound
  <2> QED BY <2>7, <2>9, <2>12
<1> QED BY <1>1, <1>2

\* The same with a namespace, whose declaration is kept for the tag's end.
LEMMA StartAttributeNSSound ==
  ASSUME NEW x, Sound(x), x.ret = "ok", NEW p \in Names, NEW u \in URIs \cup {0},
         NEW y, y = StartAttributeNS(x, p, u)
  PROVE  \/ y = Refuse(x)
         \/ Sound(y) /\ y.ret = "ok" /\ y.state = "Attribute" /\ y.xml11 = x.xml11
<1>1. Unset \in Int /\ u \in Int /\ u \in Nat
  <2>1. u \in Nat
    <3>1. CASE u \in URIs
      BY <3>1, InputsAssumption
    <3>2. CASE u = 0
      BY <3>2
    <3> QED BY <3>1, <3>2
  <2>2. Unset \in Int
    BY DEF Unset
  <2> QED BY <2>1, <2>2
<1>2. CASE p = BadName \/ x.state # "Name" \/ (u # 0 /\ p # "" /\ nsPrefixConflict(x, p, u))
  BY <1>2 DEF StartAttributeNS
<1>3. CASE p # BadName /\ x.state = "Name" /\ ~(u # 0 /\ p # "")
  <2>1. y = StartAttributeOf(x, p, Unset)
    BY <1>3 DEF StartAttributeNS
  <2> QED BY <1>1, <2>1, StartAttributeOfSound
<1>4. CASE p # BadName /\ x.state = "Name" /\ u # 0 /\ p # "" /\ ~nsPrefixConflict(x, p, u)
  <2> DEFINE z == declareNS(x, p, u)
  <2>1. y = StartAttributeOf(z, p, u)
    BY <1>4 DEF StartAttributeNS
  <2>2. p \in NSPrefixes
    BY <1>4 DEF Names
  <2>3. Sound(z) /\ z.ret = "ok" /\ z.state = "Name" /\ z.xml11 = x.xml11
    <3>1. Sound(z)
      BY <1>1, <1>4, <2>2, DeclareSound
    <3>2. Declares(x, z)
      BY <1>1, <2>2, DeclareControl DEF Sound
    <3> QED BY <1>4, <3>1, <3>2 DEF Declares
  <2> HIDE DEF z
  <2>4. \/ y = Refuse(z) /\ (p = BadName \/ z.state # "Name")
        \/ Sound(y) /\ y.ret = "ok" /\ y.state = "Attribute" /\ y.xml11 = z.xml11
    BY <1>1, <2>1, <2>3, StartAttributeOfSound
  <2> QED BY <1>4, <2>3, <2>4
<1> QED BY <1>2, <1>3, <1>4

-----------------------------------------------------------------------------
(***************************************************************************)
(* End tags.                                                               *)
(***************************************************************************)
\* f is s without its last member.
Cut(s, f) == Len(f) = Len(s) - 1 /\ \A i \in 1 .. Len(s) - 1 : f[i] = s[i]

\* A sequence without its last member.
LEMMA FrontIs ==
  ASSUME NEW S, NEW s \in Seq(S), s # <<>>, NEW f, f = Front(s)
  PROVE  /\ f \in Seq(S) /\ Len(s) \in Nat \ {0} /\ Cut(s, f)
         /\ Last(s) = s[Len(s)] /\ Last(s) \in S
<1>1. Len(s) \in Nat \ {0}
  BY EmptySeq
<1>2. s[Len(s)] \in S
  BY <1>1, ElementOfSeq
<1>3. \A i \in 1 .. Len(s) - 1 : s[i] \in S
  BY <1>1, ElementOfSeq
<1>4. /\ SubSeq(s, 1, Len(s) - 1) \in Seq(S) /\ Len(SubSeq(s, 1, Len(s) - 1)) = Len(s) - 1
      /\ \A i \in 1 .. Len(s) - 1 : SubSeq(s, 1, Len(s) - 1)[i] = s[i]
  <2> DEFINE n == Len(s) - 1
  <2>0. n \in Nat
    BY <1>1
  <2>1. n \in Int /\ 1 \in Int /\ n = n - 1 + 1 /\ n = IF 1 <= n THEN n - 1 + 1 ELSE 0
    <3> HIDE DEF n
    <3> QED BY <2>0
  <2>2. /\ SubSeq(s, 1, n) \in Seq(S) /\ Len(SubSeq(s, 1, n)) = IF 1 <= n THEN n - 1 + 1 ELSE 0
        /\ \A i \in 1 .. n - 1 + 1 : SubSeq(s, 1, n)[i] = s[1 + i - 1]
    <3> HIDE DEF n
    <3> QED BY <1>3, <2>1, SubSeqProperties DEF n
  <2> HIDE DEF n
  <2>3. ASSUME NEW i \in 1 .. n PROVE SubSeq(s, 1, n)[i] = s[i]
    <3>1. 1 + i - 1 = i /\ i \in 1 .. n - 1 + 1
      BY <2>1
    <3> QED BY <2>2, <3>1
  <2> QED BY <2>1, <2>2, <2>3 DEF n
<1> QED BY <1>1, <1>2, <1>4 DEF Front, Last, Cut

\* What PopElement makes of z.
PoppedAs(z, y) ==
    /\ Control(y) /\ y.ret = z.ret /\ y.stateStack = z.stateStack /\ y.out = z.out
    /\ y.written = z.written /\ y.elems = Front(z.elems)
    /\ z.ns # <<>> => y.ns = Front(z.ns)
    /\ y.state = IF Len(z.elems) > 1 THEN "Text" ELSE "Document"
    /\ z.astray \/ Misplaced(z) => y.astray
    /\ ~z.astray /\ ~Misplaced(z) => ~y.astray

\* What PopElement does to the fields of the writer.
LEMMA PopElementControl ==
  ASSUME NEW z, Control(z), z.elems # <<>>, NEW y, y = PopElement(z)
  PROVE  PoppedAs(z, y)
<1> DEFINE e == Front(z.elems)
           n == IF z.ns = <<>> THEN z.ns ELSE Front(z.ns)
           s == IF Len(z.elems) > 1 THEN "Text" ELSE "Document"
           v == z.astray \/ Misplaced(z)
<1>1. e \in Seq(Elem)
  BY FrontIs DEF Control, Writer
<1>2. n \in Seq(Scope)
  BY FrontIs DEF Control, Writer
<1>3. s \in States
  BY DEF States
<1>4. v \in BOOLEAN
  BY DEF Control, Writer, Misplaced
<1>5. y = [z EXCEPT !.elems = e, !.ns = n, !.state = s, !.astray = v]
  BY DEF PopElement
<1>6. z.ns # <<>> => n = Front(z.ns)
  OBVIOUS
<1> HIDE DEF e, n, s, v
<1>7. y \in Writer(z.out) /\ y.out = z.out
  BY <1>1, <1>2, <1>3, <1>4, <1>5, ZenonT(30) DEF Control, Writer
<1>8. /\ y.state = s /\ y.stateStack = z.stateStack /\ y.ret = z.ret
      /\ y.elems = e /\ y.ns = n /\ y.astray = v /\ y.written = z.written
  BY <1>5 DEF Control, Writer
<1> QED BY <1>6, <1>7, <1>8 DEF Control, e, s, v, PoppedAs

\* The reader has left the innermost element of x.
Left(x, r) ==
    /\ r \in Reader /\ r.mode = "content" /\ Len(r.open) = Len(x.elems) - 1
    /\ \A i \in 1 .. Len(r.open) : r.open[i].name = x.elems[i].name
    /\ \A i \in 1 .. Len(r.open) : \A p \in NSPrefixes :
         r.open[i].binds[p] = InScope(x.ns, i, p)

\* An element of x has ended.
Ended(x, y) ==
    /\ Sound(y) /\ y.ret = "ok" /\ Len(y.elems) = Len(x.elems) - 1
    /\ y.state \in {"Text", "Document"}

\* The innermost element is gone for both.
LEMMA PopSound ==
  ASSUME NEW x, Sound(x), x.state \in {"Name", "Text"}, x.ret = "ok", NEW z, Control(z), Kin(x, z),
         z.state \in {"Name", "Text"}, Left(x, z.out), z.out.text = z.written,
         NEW y, y = PopElement(z)
  PROVE  Ended(x, y)
<1> DEFINE n == Len(x.elems)
<1>1. /\ n \in Nat \ {0} /\ Len(z.elems) = n /\ Len(z.ns) = n /\ Len(x.ns) = n /\ ~z.astray
      /\ z.stateStack = <<>> /\ z.ret = "ok" /\ z.elems \in Seq(Elem) /\ z.ns \in Seq(Scope)
      /\ \A i \in 1 .. n : z.elems[i].name = x.elems[i].name /\ z.ns[i].decls = x.ns[i].decls
  <2>1. n \in Nat /\ Len(x.ns) = n /\ ~x.astray /\ n > 0 /\ x.stateStack = <<>>
    BY SoundTypes DEF Sound, Placed
  <2>2. z.elems \in Seq(Elem) /\ z.ns \in Seq(Scope)
    BY DEF Control, Writer
  <2> QED BY <2>1, <2>2 DEF Kin
<1>2. z.elems # <<>> /\ z.ns # <<>>
  BY <1>1, EmptySeq
<1>3. PoppedAs(z, y)
  BY <1>2, PopElementControl
<1>4. /\ y.elems \in Seq(Elem) /\ Len(y.elems) = n - 1
      /\ \A i \in 1 .. n - 1 : y.elems[i] = z.elems[i]
  <2>1. y.elems = Front(z.elems)
    BY <1>3 DEF PoppedAs
  <2>2. y.elems \in Seq(Elem) /\ Cut(z.elems, y.elems)
    BY <1>1, <1>2, <2>1, FrontIs
  <2> QED BY <1>1, <2>2 DEF Cut
<1>5. Len(y.ns) = n - 1 /\ \A i \in 1 .. n - 1 : y.ns[i] = z.ns[i]
  <2>1. y.ns = Front(z.ns)
    BY <1>2, <1>3 DEF PoppedAs
  <2>2. Cut(z.ns, y.ns)
    BY <1>1, <1>2, <2>1, FrontIs
  <2> QED BY <1>1, <2>2 DEF Cut
<1>6. /\ Control(y) /\ ~y.astray /\ y.ret = "ok" /\ y.stateStack = <<>> /\ y.out = z.out
      /\ y.written = z.written
  BY <1>1, <1>3 DEF PoppedAs, Misplaced
<1>7. y.state = IF n > 1 THEN "Text" ELSE "Document"
  BY <1>1, <1>3 DEF PoppedAs
<1> HIDE DEF n
<1>8. Placed(y)
  BY <1>1, <1>4, <1>6, <1>7 DEF Placed
<1>9. InStep(y) /\ Trails(y) /\ Tagged(y) /\ ~InTag(y)
  BY <1>6, <1>7 DEF InStep, Trails, Tagged, InTag, ModeOf, Left
<1>10. Nested(y)
  <2>1. Len(y.out.open) = n - 1 /\ n - 1 = n - 1 - 0
    BY <1>1, <1>6 DEF Left, n
  <2>2. ASSUME NEW i \in 1 .. n - 1 PROVE y.out.open[i].name = y.elems[i].name
    <3>1. i \in 1 .. n
      BY <1>1
    <3>2. z.out.open[i].name = x.elems[i].name
      BY <1>6, <2>1 DEF Left
    <3>3. y.elems[i] = z.elems[i] /\ z.elems[i].name = x.elems[i].name
      BY <1>1, <1>4, <3>1
    <3> QED BY <1>6, <3>2, <3>3
  <2> QED BY <1>4, <1>5, <1>9, <2>1, <2>2 DEF Nested
<1>11. Scoped(y)
  <2>1. ASSUME NEW i \in 1 .. n - 1 PROVE IsFiniteSet(DOMAIN y.ns[i].decls)
    <3>1. i \in 1 .. n
      BY <1>1
    <3>2. y.ns[i].decls = x.ns[i].decls
      BY <1>1, <1>5, <3>1
    <3> QED BY <1>1, <3>1, <3>2 DEF Sound, Scoped
  <2>2. ASSUME NEW i \in 1 .. n - 1, NEW p \in NSPrefixes
        PROVE  y.out.open[i].binds[p] = InScope(y.ns, i, p)
    <3>1. i \in Nat /\ i \in 1 .. Len(z.out.open)
      BY <1>1 DEF Left, n
    <3>2. ASSUME NEW j \in 1 .. i PROVE y.ns[j].decls = x.ns[j].decls
      <4>1. j \in 1 .. n - 1 /\ j \in 1 .. n
        BY <1>1
      <4> QED BY <1>1, <1>5, <4>1
    <3>3. SameDecls(y.ns, x.ns, i)
      BY <3>2 DEF SameDecls
    <3>4. InScope(y.ns, i, p) = InScope(x.ns, i, p)
      BY <3>1, <3>3, InScopeAgain
    <3> QED BY <1>6, <3>1, <3>4 DEF Left
  <2> QED BY <1>1, <1>5, <1>6, <2>1, <2>2 DEF Scoped, Left, n
<1>12. Sound(y)
  BY <1>6, <1>8, <1>9, <1>10, <1>11 DEF Sound
<1> QED BY <1>4, <1>6, <1>7, <1>12 DEF Ended, n

EndUnit(p) == [t |-> "</", name |-> p]

\* The reader takes an end tag that matches.
LEMMA ReadEnd ==
  ASSUME NEW r \in Reader, r.mode = "content", r.open # <<>>, NEW p, Last(r.open).name = p,
         NEW q, q = Read(r, EndUnit(p))
  PROVE  q \in Reader /\ q.mode = "content" /\ q.text = r.text /\ Cut(r.open, q.open)
<1> DEFINE m == EndUnit(p)
           f == Front(r.open)
           T == 0 .. 2
           O == Seq([name : NSPrefixes, binds : [NSPrefixes -> Nat]])
           C == Seq(Char)
<1>1. m.t = "</" /\ m.name = p
  BY DEF EndUnit
<1>2. q = Read(r, m)
  OBVIOUS
<1> HIDE DEF m
<1>3. q = [r EXCEPT !.open = f]
  <2>1. Read(r, m) = IF r.open # <<>> /\ Last(r.open).name = m.name THEN [r EXCEPT !.open = Front(@)]
                     ELSE Broken(r)
    <3>1. Read(r, m) = EndTag(r, m)
      BY <1>1 DEF Read
    <3> QED BY <3>1 DEF EndTag
  <2> QED BY <1>1, <1>2, <2>1
<1>4. r.open \in O
  BY DEF Reader
<1>5. f \in O /\ Cut(r.open, f)
  BY <1>4, FrontIs
<1>6. Reader = [mode : Modes, open : O, tag : Tag, tail : T, text : C,
                began : BOOLEAN, wrong : BOOLEAN]
  BY DEF Reader
<1> HIDE DEF T, O, C, f
<1> QED BY <1>3, <1>5, <1>6

\* An end tag ends the element for both.
LEMMA CloseByTag ==
  ASSUME NEW z, Sound(z), z.ret = "ok", z.state = "Text", NEW p, p = Last(z.elems).name,
         NEW y, y = PopElement(Emit(z, <<EndUnit(p)>>))
  PROVE  Ended(z, y)
<1> DEFINE a == Emit(z, <<EndUnit(p)>>)
           n == Len(z.elems)
<1>1. /\ Control(a) /\ Kin(z, a) /\ a.state = "Text" /\ a.written = z.written
      /\ a.out = Read(z.out, EndUnit(p))
  BY EmitControl, OneUnit DEF Sound, Alike
<1>2. /\ z.out \in Reader /\ z.out.mode = "content" /\ n \in Nat \ {0} /\ Len(z.out.open) = n
      /\ z.out.text = z.written /\ z.elems \in Seq(Elem)
      /\ z.out.open \in Seq([name : NSPrefixes, binds : [NSPrefixes -> Nat]])
  <2>1. z.out.mode = "content" /\ n > 0 /\ ~InTag(z)
    BY DEF Sound, InStep, ModeOf, Placed, InTag
  <2>2. n \in Nat /\ z.out \in Reader /\ z.out.text = z.written /\ z.elems \in Seq(Elem)
    BY SoundTypes
  <2>3. Len(z.out.open) = n
    BY <2>1, SoundTypes
  <2>4. z.out.open \in Seq([name : NSPrefixes, binds : [NSPrefixes -> Nat]])
    BY SoundTypes
  <2> QED BY <2>1, <2>2, <2>3, <2>4
<1>3. z.out.open # <<>> /\ Last(z.out.open).name = p
  <2>1. z.out.open # <<>> /\ z.elems # <<>>
    BY <1>2, EmptySeq
  <2>2. Last(z.out.open) = z.out.open[n] /\ Last(z.elems) = z.elems[n]
    BY <1>2 DEF Last
  <2>3. z.out.open[n].name = z.elems[n].name
    <3>1. n \in 1 .. Len(z.out.open)
      BY <1>2
    <3> QED BY <3>1 DEF Sound, Nested
  <2> QED BY <2>1, <2>2, <2>3
<1>4. a.out \in Reader /\ a.out.mode = "content" /\ a.out.text = z.out.text /\ Cut(z.out.open, a.out.open)
  BY <1>1, <1>2, <1>3, ReadEnd
<1> HIDE DEF a
<1>5. Left(z, a.out)
  <2>1. Len(a.out.open) = n - 1 /\ \A i \in 1 .. n - 1 : a.out.open[i] = z.out.open[i] /\ i \in 1 .. n
    BY <1>2, <1>4 DEF Cut
  <2>2. \A i \in 1 .. n - 1 : a.out.open[i].name = z.elems[i].name
    BY <1>2, <2>1 DEF Sound, Nested
  <2>3. \A i \in 1 .. n - 1 : \A q \in NSPrefixes : a.out.open[i].binds[q] = InScope(z.ns, i, q)
    BY <1>2, <2>1 DEF Sound, Scoped
  <2> QED BY <1>4, <2>1, <2>2, <2>3 DEF Left
<1> QED BY <1>1, <1>2, <1>4, <1>5, PopSound DEF a

\* An end tag inside a comment, PI or CDATA section leads astray.
LEMMA CloseAstray ==
  ASSUME NEW z, Control(z), z.ret = "ok", z.elems # <<>>, z.astray \/ Misplaced(z), NEW units,
         NEW y, y = PopElement(Emit(z, units))
  PROVE  y.ret = "ok" /\ y.astray
<1> DEFINE a == Emit(z, units)
<1>1. /\ Control(a) /\ a.ret = "ok" /\ a.elems = z.elems /\ a.astray = z.astray
      /\ a.state = z.state
  BY EmitControl DEF Alike, Kin
<1> HIDE DEF a
<1>2. PoppedAs(a, y)
  BY <1>1, PopElementControl DEF a
<1> QED BY <1>1, <1>2 DEF PoppedAs, Misplaced

\* Where an element may be ended.
LEMMA InElement ==
  ASSUME NEW x, Sound(x), x.elems # <<>>
  PROVE  /\ Misplaced(x) \/ x.state \in {"Text", "Name", "Attribute"}
         /\ ~(Misplaced(x) /\ x.state \in {"Text", "Name", "Attribute"})
<1>1. Len(x.elems) # 0 /\ x.state \in States
  BY SoundTypes, EmptySeq DEF Sound, Control, Writer
<1> QED BY <1>1 DEF Sound, Placed, States, Misplaced

\* The writer EndElement starts from: the attribute that is open has been ended.
Settled(x) == IF x.state = "Attribute" THEN EndAttribute(x) ELSE x

\* EndElement first ends the attribute.
LEMMA SettledSound ==
  ASSUME NEW x, Sound(x), x.ret = "ok", x.elems # <<>>, NEW y, y = Settled(x)
  PROVE  /\ Sound(y) /\ y.ret = "ok" /\ y.elems = x.elems
         /\ y.state = IF x.state = "Attribute" THEN "Name" ELSE x.state
<1>1. CASE x.state # "Attribute"
  BY <1>1 DEF Settled
<1>2. CASE x.state = "Attribute"
  <2>1. y = EndAttribute(x)
    BY <1>2 DEF Settled
  <2>2. Sound(y) /\ y.ret = "ok" /\ x.stateStack = <<y.state>> /\ y.elems = x.elems
    BY <1>2, <2>1, EndAttributeSound
  <2>3. x.stateStack = <<"Name">>
    BY <1>2 DEF Sound, Placed
  <2> QED BY <1>2, <2>2, <2>3
<1> QED BY <1>1, <1>2

\* What an end tag may come to.
EndsFine(x, y) ==
    \/ y = Refuse(x) /\ x.elems = <<>>
    \/ Misplaced(x) /\ y.ret = "ok" /\ y.astray
    \/ ~Misplaced(x) /\ Ended(x, y)

\* FullEndElement, in all states.
LEMMA FullEndElementSound ==
  ASSUME NEW x, Sound(x), x.ret = "ok", NEW y, y = FullEndElement(x)
  PROVE  EndsFine(x, y)
<1>1. CASE x.elems = <<>>
  BY <1>1 DEF FullEndElement, EndsFine
<1>2. CASE x.elems # <<>>
  <2> DEFINE s == Settled(x)
             c == closeTagIfOpen(s)
             z == NewText(c)
  <2>1. /\ Sound(s) /\ s.ret = "ok" /\ s.elems = x.elems
        /\ s.state = IF x.state = "Attribute" THEN "Name" ELSE x.state
    BY <1>2, SettledSound
  <2>2. y = PopElement(Emit(z, <<EndUnit(Last(z.elems).name)>>))
    BY <1>2 DEF FullEndElement, Settled, EndUnit
  <2> HIDE DEF s
  <2>3. /\ Sound(c) /\ Control(c) /\ c.ret = "ok" /\ Len(c.elems) = Len(s.elems)
        /\ c.state = IF s.state = "Name" THEN "Text" ELSE s.state
    BY <2>1, CloseTagSound, CloseTagControl DEF Sound, Alike, Kin
  <2> HIDE DEF c
  <2>4. Sound(z) /\ Control(z) /\ z.ret = "ok" /\ Len(z.elems) = Len(x.elems) /\ z.state = c.state
    BY <2>1, <2>3, NewTextSound, NewTextControl DEF Alike, Kin
  <2> HIDE DEF z
  <2>5. z.elems # <<>>
    BY <1>2, <2>4, SoundTypes, EmptySeq
  <2>6. CASE Misplaced(x)
    <3>1. Misplaced(z)
      BY <2>1, <2>3, <2>4, <2>6 DEF Misplaced
    <3> QED BY <2>2, <2>4, <2>5, <2>6, <3>1, CloseAstray DEF EndsFine
  <2>7. CASE ~Misplaced(x)
    <3>1. z.state = "Text"
      BY <1>2, <2>1, <2>3, <2>4, <2>7, InElement
    <3>2. Ended(z, y)
      BY <2>2, <2>4, <3>1, CloseByTag
    <3> QED BY <2>4, <2>7, <3>2 DEF EndsFine, Ended
  <2> QED BY <2>6, <2>7
<1> QED BY <1>1, <1>2

\* EndElement, in all states.
LEMMA EndElementSound ==
  ASSUME NEW x, Sound(x), x.ret = "ok", NEW y, y = EndElement(x)
  PROVE  EndsFine(x, y)
<1>1. CASE x.elems = <<>>
  BY <1>1 DEF EndElement, EndsFine
<1>2. CASE x.elems # <<>>
  <2> DEFINE s == Settled(x)
             z == NewText(s)
             entry == Last(z.elems)
             c == closeTagIfOpen(z)
             d == emitPendingNS(z)
             e == Emit(d, <<Mark("/>")>>)
  <2>1. /\ Sound(s) /\ s.ret = "ok" /\ s.elems = x.elems
        /\ s.state = IF x.state = "Attribute" THEN "Name" ELSE x.state
    BY <1>2, SettledSound
  <2>2. y = IF z.state = "Name" /\ entry.empty THEN PopElement(e)
            ELSE PopElement(Emit(c, <<EndUnit(entry.name)>>))
    BY <1>2 DEF EndElement, Settled, EndUnit
  <2> HIDE DEF s
  <2>3. Sound(z) /\ Control(z) /\ z.ret = "ok" /\ z.elems = x.elems /\ z.state = s.state
    BY <2>1, NewTextSound, NewTextControl DEF Alike, Kin, Sound
  <2> HIDE DEF z
  <2>4. CASE z.state = "Name" /\ entry.empty
    <3>1. /\ Control(d) /\ Alike(z, d) /\ d.written = z.written /\ d.state = z.state
          /\ d.out = WithBinds(z.out, Last(z.ns).decls) /\ d.out.mode = "tag"
      BY <2>3, <2>4, PendingSound, EmitPendingControl
    <3> HIDE DEF d
    <3>2. /\ Control(e) /\ Alike(d, e) /\ e.written = d.written /\ e.state = d.state
          /\ e.out = Read(d.out, Mark("/>"))
      BY <3>1, EmitControl, OneUnit
    <3>3. e.out = CloseTag(WithBinds(z.out, Last(z.ns).decls), TRUE)
      BY <3>1, <3>2, ReadTagEnd
    <3> HIDE DEF e
    <3>4. Left(z, e.out) /\ e.out.text = z.out.text
      <4> DEFINE r == CloseTag(WithBinds(z.out, Last(z.ns).decls), TRUE)
      <4>1. /\ r \in Reader /\ r.mode = "content" /\ r.text = z.out.text
            /\ Len(r.open) = Len(z.elems) - 1
            /\ \A i \in 1 .. Len(r.open) : r.open[i].name = z.elems[i].name
            /\ \A i \in 1 .. Len(r.open) : \A p \in NSPrefixes :
                 r.open[i].binds[p] = InScope(z.ns, i, p)
        BY <2>3, <2>4, ClosedTag
      <4> HIDE DEF r
      <4> QED BY <3>3, <4>1 DEF Left, r
    <3>5. Kin(z, e) /\ e.state = "Name" /\ e.out.text = e.written
      BY <2>3, <2>4, <3>1, <3>2, <3>4, SoundTypes DEF Alike, Kin
    <3>6. Ended(z, y)
      BY <2>2, <2>3, <2>4, <3>2, <3>4, <3>5, PopSound
    <3>7. ~Misplaced(x)
      BY <2>1, <2>3, <2>4 DEF Misplaced
    <3> QED BY <2>3, <3>6, <3>7 DEF EndsFine, Ended
  <2>5. CASE ~(z.state = "Name" /\ entry.empty)
    <3>1. /\ Sound(c) /\ Control(c) /\ Alike(z, c)
          /\ c.state = IF z.state = "Name" THEN "Text" ELSE z.state
      BY <2>3, CloseTagSound, CloseTagControl
    <3> HIDE DEF c
    <3>2. c.ret = "ok" /\ Len(c.elems) = Len(z.elems) /\ c.elems # <<>> /\ entry.name = Last(c.elems).name
      <4>1. c.ret = "ok" /\ Len(c.elems) = Len(z.elems)
        BY <2>3, <3>1 DEF Alike, Kin
      <4>2. Len(z.elems) \in Nat \ {0} /\ c.elems # <<>>
        BY <1>2, <2>3, <3>1, <4>1, SoundTypes, EmptySeq
      <4>3. c.elems[Len(z.elems)].name = z.elems[Len(z.elems)].name
        BY <3>1, <4>2 DEF Alike, Kin
      <4> QED BY <4>1, <4>2, <4>3 DEF Last
    <3>3. y = PopElement(Emit(c, <<EndUnit(entry.name)>>))
      BY <2>2, <2>5
    <3> HIDE DEF entry
    <3>4. CASE Misplaced(x)
      <4>1. Misplaced(c)
        BY <2>1, <2>3, <3>1, <3>4 DEF Misplaced
      <4> QED BY <3>1, <3>2, <3>3, <3>4, <4>1, CloseAstray DEF EndsFine
    <3>5. CASE ~Misplaced(x)
      <4>1. c.state = "Text"
        BY <1>2, <2>1, <2>3, <3>1, <3>5, InElement
      <4>2. Ended(c, y)
        BY <3>1, <3>2, <3>3, <4>1, CloseByTag
      <4> QED BY <2>3, <3>2, <3>5, <4>2 DEF EndsFine, Ended
    <3> QED BY <3>4, <3>5
  <2> QED BY <2>4, <2>5
<1> QED BY <1>1, <1>2

\* EndElement of a writer gone astray is not refused.
LEMMA EndElementAstray ==
  ASSUME NEW x, Control(x), x.ret = "ok", x.astray, x.state = "Text", Len(x.elems) > 0,
         NEW y, y = EndElement(x)
  PROVE  y.ret = "ok" /\ y.astray
<1> DEFINE z == NewText(x)
<1>1. x.elems # <<>>
  BY EmptySeq
<1>2. /\ Control(z) /\ z.ret = "ok" /\ z.astray /\ z.elems = x.elems /\ z.state = "Text"
  BY NewTextControl DEF Alike, Kin
<1>3. y = PopElement(Emit(closeTagIfOpen(z), <<EndUnit(Last(z.elems).name)>>))
  BY <1>1, <1>2 DEF EndElement, EndUnit
<1>4. closeTagIfOpen(z) = z
  BY <1>2 DEF closeTagIfOpen
<1> HIDE DEF z
<1> QED BY <1>1, <1>2, <1>3, <1>4, CloseAstray

-----------------------------------------------------------------------------
(***************************************************************************)
(* Characters: the reader takes in what is written, one after the other.   *)
(***************************************************************************)
LEMMA Reads ==
  ASSUME NEW r, NEW units, NEW n \in Nat, Len(units) = n
  PROVE  \E g : Reading(g, r, units, n) /\ ReadAll(r, units) = g[n]
<1> DEFINE Upto(g, m) == g[0] = r /\ \A k \in 1 .. m : g[k] = Read(g[k - 1], units[k])
           T == {m \in 0 .. n : \E g : Upto(g, m)}
<1>1. 0 \in T
  <2>1. Upto([k \in 0 .. 0 |-> r], 0)
    OBVIOUS
  <2>2. \E g : Upto(g, 0)
    BY <2>1
  <2> HIDE DEF Upto
  <2> QED BY <2>2
<1>2. ASSUME NEW m \in 0 .. n - 1, m \in T PROVE m + 1 \in T
  <2>1. PICK g : Upto(g, m)
    BY <1>2
  <2> DEFINE h == [k \in 0 .. m + 1 |-> IF k = m + 1 THEN Read(g[m], units[m + 1]) ELSE g[k]]
  <2>2. /\ h[m + 1] = Read(g[m], units[m + 1]) /\ h[0] = g[0] /\ \A k \in 0 .. m : h[k] = g[k]
    OBVIOUS
  <2> HIDE DEF h
  <2>3. ASSUME NEW k \in 1 .. m + 1 PROVE h[k] = Read(h[k - 1], units[k])
    <3>1. CASE k = m + 1
      <4>1. k - 1 = m /\ h[m] = g[m]
        BY <2>2, <3>1
      <4> QED BY <2>2, <3>1, <4>1
    <3>2. CASE k # m + 1
      <4>1. k \in 1 .. m /\ k \in 0 .. m /\ k - 1 \in 0 .. m
        BY <3>2
      <4> QED BY <2>1, <2>2, <4>1
    <3> QED BY <3>1, <3>2
  <2>4. Upto(h, m + 1)
    BY <2>1, <2>2, <2>3
  <2> HIDE DEF Upto
  <2> QED BY <2>4
<1>3. n \in T
  <2> HIDE DEF T
  <2>1. \A k \in 0 .. n : k \in T
    BY <1>1, <1>2, StepByStep
  <2> QED BY <2>1
<1>4. PICK g : Upto(g, n)
  BY <1>3
<1>5. Reading(g, r, units, n)
  BY <1>4 DEF Reading
<1> QED BY <1>5, ReadLoop

\* The text t with the first k characters of c after it.
Grown(t, c, k) == t \o SubSeq(c, 1, k)

\* A text grown by one more character.
LEMMA GrownNext ==
  ASSUME NEW t \in Seq(Char), NEW c \in Seq(Char), NEW k \in 0 .. Len(c) - 1
  PROVE  Append(Grown(t, c, k), c[k + 1]) = Grown(t, c, k + 1)
BY SMTT(30) DEF Grown

\* A text not grown yet, and one grown by all of c.
LEMMA GrownEnds ==
  ASSUME NEW t \in Seq(Char), NEW c \in Seq(Char)
  PROVE  Grown(t, c, 0) = t /\ Grown(t, c, Len(c)) = t \o c
<1>1. Grown(t, c, 0) = t
  BY DEF Grown
<1>2. SubSeq(c, 1, Len(c)) = c
  OBVIOUS
<1> QED BY <1>1, <1>2 DEF Grown

\* q is where the reader stands after ch, and r where it stood before.
Grows(r, q, ch) ==
    /\ q \in Reader /\ q.mode = r.mode /\ q.open = r.open /\ q.tag = r.tag
    /\ q.text = Append(r.text, ch)

CharUnit(ch) == [t |-> "char", c |-> ch]
RefUnit(ch) == [t |-> "ref", c |-> ch]

\* What ReadChar makes of a character that is mere text.
More(r, ch, tail) == [r EXCEPT !.text = Append(@, ch), !.tail = tail, !.began = TRUE]

\* More takes one character in.
LEMMA MoreGrows ==
  ASSUME NEW r \in Reader, NEW ch \in Char, NEW tail \in 0 .. 2, NEW q, q = More(r, ch, tail)
  PROVE  Grows(r, q, ch) /\ q.tail = tail
<1> DEFINE T == 0 .. 2
           O == Seq([name : NSPrefixes, binds : [NSPrefixes -> Nat]])
           C == Seq(Char)
           t == Append(r.text, ch)
<1>1. r.text \in C
  BY DEF Reader
<1>2. t \in C
  BY <1>1, AppendProperties
<1>3. Reader = [mode : Modes, open : O, tag : Tag, tail : T, text : C,
                began : BOOLEAN, wrong : BOOLEAN]
  BY DEF Reader
<1>4. q = [r EXCEPT !.text = t, !.tail = tail, !.began = TRUE]
  BY DEF More
<1> HIDE DEF T, O, C, t
<1> QED BY <1>2, <1>3, <1>4 DEF Grows, t, T

\* The reader takes a reference for its character.
LEMMA ReadRef ==
  ASSUME NEW r \in Reader, r.mode \in {"content", "attr"}, NEW ch \in Char,
         NEW q, q = Read(r, RefUnit(ch))
  PROVE  Grows(r, q, ch)
<1> DEFINE m == RefUnit(ch)
           T == 0 .. 2
           O == Seq([name : NSPrefixes, binds : [NSPrefixes -> Nat]])
           C == Seq(Char)
           t == Append(r.text, ch)
<1>1. m.t = "ref" /\ m.c = ch
  BY DEF RefUnit
<1>2. q = Read(r, m)
  OBVIOUS
<1> HIDE DEF m
<1>3. q = [r EXCEPT !.text = t, !.began = TRUE]
  <2>1. Read(r, m) = [r EXCEPT !.text = Append(@, m.c), !.began = TRUE]
    <3>1. Read(r, m) = TakeIn(r, m)
      BY <1>1 DEF Read
    <3> QED BY <3>1 DEF TakeIn
  <2> QED BY <1>1, <1>2, <2>1
<1>4. r.text \in C
  BY DEF Reader
<1>5. t \in C
  BY <1>4, AppendProperties
<1>6. Reader = [mode : Modes, open : O, tag : Tag, tail : T, text : C,
                began : BOOLEAN, wrong : BOOLEAN]
  BY DEF Reader
<1> HIDE DEF T, O, C, t
<1> QED BY <1>3, <1>5, <1>6 DEF Grows, t

\* A character on its own.
LEMMA ReadCharUnit ==
  ASSUME NEW r, NEW ch
  PROVE  Read(r, CharUnit(ch)) = ReadChar(r, ch)
<1> DEFINE m == CharUnit(ch)
<1>1. m.t = "char" /\ m.c = ch
  BY DEF CharUnit
<1> HIDE DEF m
<1>2. Read(r, m) = ReadChar(r, m.c)
  BY <1>1 DEF Read
<1> QED BY <1>1, <1>2 DEF m

\* Characters that the reader takes as they are.
LEMMA ReadCharIs ==
  ASSUME NEW r, NEW ch, ch \notin {"ctl", "bad"}
  PROVE  /\ r.mode = "content" /\ ch # "<" => ReadChar(r, ch) = More(r, ch, 0)
         /\ r.mode = "attr" /\ ch \notin {"<", "q"} => ReadChar(r, ch) = More(r, ch, 0)
         /\ r.mode = "comment" /\ ch # "-" => ReadChar(r, ch) = More(r, ch, 0)
         /\ r.mode = "pi" /\ ch # "?" /\ ~(ch = ">" /\ r.tail = 1) => ReadChar(r, ch) = More(r, ch, 0)
         /\ r.mode = "cdata" /\ ch # "]" /\ ~(ch = ">" /\ r.tail = 2) => ReadChar(r, ch) = More(r, ch, 0)
<1>1. r.mode = "content" /\ ch # "<" => ReadChar(r, ch) = More(r, ch, 0)
  BY DEF ReadChar, More
<1>2. r.mode = "attr" /\ ch \notin {"<", "q"} => ReadChar(r, ch) = More(r, ch, 0)
  BY DEF ReadChar, More
<1>3. r.mode = "comment" /\ ch # "-" => ReadChar(r, ch) = More(r, ch, 0)
  BY DEF ReadChar, More
<1>4. r.mode = "pi" /\ ch # "?" /\ ~(ch = ">" /\ r.tail = 1) => ReadChar(r, ch) = More(r, ch, 0)
  BY DEF ReadChar, More
<1>5. r.mode = "cdata" /\ ch # "]" /\ ~(ch = ">" /\ r.tail = 2) => ReadChar(r, ch) = More(r, ch, 0)
  BY DEF ReadChar, More
<1> QED BY <1>1, <1>2, <1>3, <1>4, <1>5

\* Characters that the reader counts, for they may end the construct.
LEMMA ReadCounted ==
  ASSUME NEW r \in Reader, NEW ch
  PROVE  /\ r.mode = "comment" /\ ch = "-" /\ r.tail # 1 => ReadChar(r, ch) = More(r, ch, r.tail + 1)
         /\ r.mode = "pi" /\ ch = "?" => ReadChar(r, ch) = More(r, ch, 1)
         /\ r.mode = "cdata" /\ ch = "]" => ReadChar(r, ch) = More(r, ch, Min({r.tail + 1, 2}))
<1> DEFINE m == Min({r.tail + 1, 2})
           t == Append(r.text, ch)
           more == [r EXCEPT !.text = t, !.tail = 0, !.began = TRUE]
<1>1. \A v : [more EXCEPT !.tail = v] = More(r, ch, v)
  BY DEF More, Reader
<1>2. more = [r EXCEPT !.text = Append(@, ch), !.tail = 0, !.began = TRUE]
  OBVIOUS
<1> HIDE DEF m, t, more
<1>3. r.mode = "comment" /\ ch = "-" /\ r.tail # 1 => ReadChar(r, ch) = [more EXCEPT !.tail = r.tail + 1]
  BY <1>2 DEF ReadChar
<1>4. r.mode = "pi" /\ ch = "?" => ReadChar(r, ch) = [more EXCEPT !.tail = 1]
  BY <1>2 DEF ReadChar
<1>5. r.mode = "cdata" /\ ch = "]" => ReadChar(r, ch) = [more EXCEPT !.tail = m]
  BY <1>2 DEF ReadChar, m
<1> QED BY <1>1, <1>3, <1>4, <1>5 DEF m

\* The reader has taken in the first k characters of c since r.
TakenIn(r, q, c, k) ==
    /\ q \in Reader /\ q.mode = r.mode /\ q.open = r.open /\ q.tag = r.tag
    /\ q.text = Grown(r.text, c, k)

\* One more character is taken in.
LEMMA TakenInNext ==
  ASSUME NEW r \in Reader, NEW c \in Seq(Char), NEW k \in 0 .. Len(c) - 1, NEW q, TakenIn(r, q, c, k),
         NEW next, Grows(q, next, c[k + 1])
  PROVE  TakenIn(r, next, c, k + 1)
<1>1. r.text \in Seq(Char)
  BY DEF Reader
<1> QED BY <1>1, GrownNext DEF TakenIn, Grows

\* None is, to begin with.
LEMMA TakenInNone ==
  ASSUME NEW r \in Reader, NEW c \in Seq(Char)
  PROVE  TakenIn(r, r, c, 0)
<1>1. r.text \in Seq(Char)
  BY DEF Reader
<1> QED BY <1>1, GrownEnds DEF TakenIn

\* What writeEscaped writes for c.
EscapedUnits(c, escaped) ==
    [i \in DOMAIN c |-> [t |-> IF c[i] \in escaped THEN "ref" ELSE "char", c |-> c[i]]]

\* Every character of c is escaped or one that XML allows.
Writable(c, escaped) == \A k \in DOMAIN c : c[k] \in escaped \/ c[k] \notin {"ctl", "bad"}

\* Escaped text is read back as it was before.
LEMMA ReadEscaped ==
  ASSUME NEW r \in Reader, r.mode \in {"content", "attr"}, NEW c \in Seq(Char), NEW escaped,
         Writable(c, escaped), "<" \in escaped, r.mode = "attr" => "q" \in escaped,
         NEW q, q = ReadAll(r, EscapedUnits(c, escaped))
  PROVE  TakenIn(r, q, c, Len(c))
<1> DEFINE n == Len(c)
           units == EscapedUnits(c, escaped)
<1>1. n \in Nat /\ DOMAIN c = 1 .. n /\ \A k \in 1 .. n : c[k] \in Char
  BY LenProperties, ElementOfSeq
<1>2. Len(units) = n
  BY <1>1 DEF EscapedUnits
<1>3. \A k \in 1 .. n : units[k] = IF c[k] \in escaped THEN RefUnit(c[k]) ELSE CharUnit(c[k])
  BY <1>1 DEF EscapedUnits, RefUnit, CharUnit
<1>4. PICK g : Reading(g, r, units, n) /\ ReadAll(r, units) = g[n]
  BY <1>1, <1>2, Reads
<1> DEFINE T == {k \in 0 .. n : TakenIn(r, g[k], c, k)}
<1>5. 0 \in T
  BY <1>1, <1>4, TakenInNone DEF Reading
<1>6. ASSUME NEW k \in 0 .. n - 1, k \in T PROVE k + 1 \in T
  <2>0. TakenIn(r, g[k], c, k)
    BY <1>6
  <2> HIDE DEF n, units, T
  <2>1. k + 1 \in 1 .. n /\ (k + 1) - 1 = k /\ k + 1 \in 0 .. n
    BY <1>1
  <2>2. g[k + 1] = Read(g[k], units[k + 1])
    BY <1>4, <2>1 DEF Reading
  <2>3. g[k] \in Reader /\ g[k].mode = r.mode
    BY <2>0 DEF TakenIn
  <2> DEFINE ch == c[k + 1]
  <2>4. ch \in Char
    BY <1>1, <2>1
  <2> HIDE DEF ch
  <2>5. Grows(g[k], g[k + 1], ch)
    <3>1. CASE ch \in escaped
      <4>1. units[k + 1] = RefUnit(ch)
        BY <1>3, <2>1, <3>1 DEF ch
      <4> QED BY <2>2, <2>3, <2>4, <4>1, ReadRef
    <3>2. CASE ch \notin escaped
      <4>1. units[k + 1] = CharUnit(ch)
        BY <1>3, <2>1, <3>2 DEF ch
      <4>2. ch # "<" /\ (r.mode = "attr" => ch # "q") /\ ch \notin {"ctl", "bad"}
        BY <1>1, <2>1, <3>2 DEF Writable, ch
      <4>3. ReadChar(g[k], ch) = More(g[k], ch, 0)
        BY <2>3, <4>2, ReadCharIs
      <4>4. g[k + 1] = More(g[k], ch, 0)
        BY <2>2, <4>1, <4>3, ReadCharUnit
      <4> QED BY <2>3, <2>4, <4>4, MoreGrows
    <3> QED BY <3>1, <3>2
  <2>6. TakenIn(r, g[k + 1], c, k + 1)
    BY <2>0, <2>5, TakenInNext DEF ch, n
  <2> QED BY <2>1, <2>6 DEF T
<1>7. n \in T
  <2> HIDE DEF T
  <2>1. \A k \in 0 .. n : k \in T
    BY <1>1, <1>5, <1>6, StepByStep
  <2> QED BY <1>1, <2>1
<1> QED BY <1>4, <1>7

\* Bodies whose end the writer keeps out: a and b one after the other would end it.
Guarded(mode, a, b) ==
    \/ mode = "comment" /\ a = "-" /\ b = "-"
    \/ mode = "pi" /\ a = "?" /\ b = ">"

\* The tail after the first k characters of c.
TailAfter(tail, c, k, a) == IF k = 0 THEN tail ELSE IF c[k] = a THEN 1 ELSE 0

CharUnits(c) == [i \in DOMAIN c |-> CharUnit(c[i])]

Ends(r, ch, b) == r.tail = 1 /\ ch = b
LastTail(ch, a) == IF ch = a THEN 1 ELSE 0

\* One character of a comment or PI.
LEMMA ReadGuarded ==
  ASSUME NEW r \in Reader, NEW a, NEW b, Guarded(r.mode, a, b), r.tail \in {0, 1}, NEW ch \in Char,
         ch \notin {"ctl", "bad"}, ~Ends(r, ch, b), NEW q, q = Read(r, CharUnit(ch))
  PROVE  Grows(r, q, ch) /\ q.tail = LastTail(ch, a)
<1> USE DEF Ends, LastTail
<1>0. q = ReadChar(r, ch)
  BY ReadCharUnit
<1>1. CASE ch = a
  <2>1. q = More(r, ch, 1)
    <3>1. CASE r.mode = "comment" /\ a = "-" /\ b = "-"
      <4>1. r.tail = 0 /\ r.tail + 1 = 1 /\ r.tail # 1
        BY <1>1, <3>1
      <4> QED BY <1>0, <1>1, <3>1, <4>1, ReadCounted
    <3>2. CASE r.mode = "pi" /\ a = "?" /\ b = ">"
      BY <1>0, <1>1, <3>2, ReadCounted
    <3> QED BY <3>1, <3>2 DEF Guarded
  <2>2. 1 \in 0 .. 2
    OBVIOUS
  <2> QED BY <1>1, <2>1, <2>2, MoreGrows
<1>2. CASE ch # a
  <2>1. q = More(r, ch, 0)
    <3>1. CASE r.mode = "comment" /\ a = "-" /\ b = "-"
      BY <1>0, <1>2, <3>1, ReadCharIs
    <3>2. CASE r.mode = "pi" /\ a = "?" /\ b = ">"
      BY <1>0, <1>2, <3>2, ReadCharIs
    <3> QED BY <3>1, <3>2 DEF Guarded
  <2>2. 0 \in 0 .. 2
    OBVIOUS
  <2> QED BY <1>2, <2>1, <2>2, MoreGrows
<1> QED BY <1>1, <1>2

\* No a in c has a b after it.
Apart(c, a, b) == \A k \in 1 .. Len(c) - 1 : ~(c[k] = a /\ c[k + 1] = b)

\* What does not occur is at no position.
LEMMA OccursNot ==
  ASSUME NEW c \in Seq(Char), NEW a, NEW b, ~Occurs(c, <<a, b>>)
  PROVE  Apart(c, a, b)
<1> SUFFICES ASSUME NEW k \in 1 .. Len(c) - 1, c[k] = a, c[k + 1] = b PROVE FALSE
  BY DEF Apart
<1>1. Len(<<a, b>>) = 2 /\ Len(c) \in Nat
  BY LenProperties
<1>2. SubSeq(c, k, k + 1) = <<a, b>>
  <2> DEFINE s == SubSeq(c, k, k + 1)
  <2>1. /\ k \in Int /\ k + 1 \in Int /\ k <= k + 1 /\ (k + 1) - k + 1 = 2
        /\ \A i \in k .. k + 1 : c[i] \in Char
    BY <1>1, ElementOfSeq
  <2>2. /\ s \in Seq(Char) /\ Len(s) = IF k <= k + 1 THEN (k + 1) - k + 1 ELSE 0
        /\ \A i \in 1 .. (k + 1) - k + 1 : s[i] = c[k + i - 1]
    BY <2>1, SubSeqProperties
  <2> HIDE DEF s
  <2>3. 1 \in 1 .. 2 /\ 2 \in 1 .. 2 /\ k + 1 - 1 = k /\ k + 2 - 1 = k + 1
    OBVIOUS
  <2>4. Len(s) = 2 /\ s[1] = a /\ s[2] = b
    BY <2>1, <2>2, <2>3
  <2>5. a \in Char /\ b \in Char
    BY <1>1, ElementOfSeq
  <2>6. <<a, b>> \in Seq(Char) /\ Len(<<a, b>>) = 2 /\ <<a, b>>[1] = a /\ <<a, b>>[2] = b
    BY <2>5
  <2>7. \A i \in 1 .. 2 : i = 1 \/ i = 2
    OBVIOUS
  <2>8. \A i \in 1 .. Len(s) : s[i] = <<a, b>>[i]
    BY <2>4, <2>6, <2>7
  <2>9. s = <<a, b>>
    BY <2>2, <2>4, <2>6, <2>8, SeqEqual
  <2> QED BY <2>9 DEF s
<1>3. k \in 1 .. Len(c) - 2 + 1 /\ k + 2 - 1 = k + 1
  BY <1>1
<1> QED BY <1>1, <1>2, <1>3 DEF Occurs

\* Text without the pair that would end the comment or PI is read as it is.
LEMMA ReadBody ==
  ASSUME NEW r \in Reader, NEW a, NEW b, Guarded(r.mode, a, b), r.tail \in {0, 1},
         NEW c \in Seq(Char), Valid(c), Apart(c, a, b), c # <<>> => ~(r.tail = 1 /\ c[1] = b),
         NEW q, q = ReadAll(r, CharUnits(c))
  PROVE  TakenIn(r, q, c, Len(c)) /\ q.tail = TailAfter(r.tail, c, Len(c), a)
<1> DEFINE n == Len(c)
           units == CharUnits(c)
<1>1. n \in Nat /\ DOMAIN c = 1 .. n /\ (\A k \in 1 .. n : c[k] \in Char) /\ (c = <<>> => n = 0)
  BY LenProperties, ElementOfSeq
<1>2. Len(units) = n /\ \A k \in 1 .. n : units[k] = CharUnit(c[k])
  BY <1>1 DEF CharUnits
<1>3. PICK g : Reading(g, r, units, n) /\ ReadAll(r, units) = g[n]
  BY <1>1, <1>2, Reads
<1> DEFINE T == {k \in 0 .. n : TakenIn(r, g[k], c, k) /\ g[k].tail = TailAfter(r.tail, c, k, a)}
<1>4. 0 \in T
  BY <1>1, <1>3, TakenInNone DEF Reading, TailAfter
<1>5. ASSUME NEW k \in 0 .. n - 1, k \in T PROVE k + 1 \in T
  <2>0. TakenIn(r, g[k], c, k) /\ g[k].tail = TailAfter(r.tail, c, k, a)
    BY <1>5
  <2> HIDE DEF n, units, T
  <2>1. k + 1 \in 1 .. n /\ (k + 1) - 1 = k /\ k + 1 \in 0 .. n /\ k + 1 # 0
    BY <1>1
  <2>2. g[k + 1] = Read(g[k], CharUnit(c[k + 1]))
    BY <1>2, <1>3, <2>1 DEF Reading
  <2>3. /\ g[k] \in Reader /\ g[k].mode = r.mode
        /\ c[k + 1] \in Char /\ c[k + 1] \notin {"ctl", "bad"}
    BY <1>1, <2>0, <2>1 DEF TakenIn, Valid
  <2>4. g[k].tail \in {0, 1} /\ ~(g[k].tail = 1 /\ c[k + 1] = b)
    <3>1. CASE k = 0
      BY <1>1, <2>0, <2>1, <3>1 DEF TailAfter
    <3>2. CASE k # 0
      <4>1. k \in 1 .. n - 1
        BY <1>1, <3>2
      <4>2. ~(c[k] = a /\ c[k + 1] = b)
        BY <4>1 DEF Apart, n
      <4> QED BY <2>0, <3>2, <4>2 DEF TailAfter
    <3> QED BY <3>1, <3>2
  <2>5. Grows(g[k], g[k + 1], c[k + 1]) /\ g[k + 1].tail = IF c[k + 1] = a THEN 1 ELSE 0
    <3> DEFINE f == g[k]
               h == g[k + 1]
               ch == c[k + 1]
    <3>1. /\ Guarded(f.mode, a, b) /\ h = Read(f, CharUnit(ch)) /\ f \in Reader /\ ch \in Char
          /\ ch \notin {"ctl", "bad"} /\ f.tail \in {0, 1} /\ ~Ends(f, ch, b)
      BY <2>2, <2>3, <2>4 DEF Ends
    <3> HIDE DEF f, h, ch
    <3>2. Grows(f, h, ch) /\ h.tail = LastTail(ch, a)
      BY <3>1, ReadGuarded
    <3> QED BY <3>2 DEF f, h, ch, LastTail
  <2>6. TakenIn(r, g[k + 1], c, k + 1)
    BY <2>0, <2>5, TakenInNext DEF n
  <2> QED BY <2>1, <2>5, <2>6 DEF T, TailAfter
<1>6. n \in T
  <2> HIDE DEF T
  <2>1. \A k \in 0 .. n : k \in T
    BY <1>1, <1>4, <1>5, StepByStep
  <2> QED BY <1>1, <2>1
<1> QED BY <1>3, <1>6

-----------------------------------------------------------------------------
(***************************************************************************)
(* WriteString and WriteRaw.                                               *)
(***************************************************************************)
LEMMA NoteControl ==
  ASSUME NEW x, Control(x), NEW c \in Seq(Char), NEW y, y = Note(x, c)
  PROVE  /\ Control(y) /\ Alike(x, y) /\ y.state = x.state /\ y.written = x.written \o c
         /\ y.elems = x.elems /\ y.ns = x.ns /\ y.out = x.out
<1> DEFINE v == x.written \o c
<1>1. v \in Seq(Char)
  BY ConcatProperties DEF Control, Writer
<1>2. y = [x EXCEPT !.written = v]
  BY DEF Note
<1> HIDE DEF v
<1>3. y \in Writer(x.out) /\ y.out = x.out
  BY <1>1, <1>2 DEF Control, Writer
<1> QED BY <1>1, <1>2, <1>3 DEF Control, Writer, Alike, Kin, v

\* EmitEscaped and EmitChars in terms of units.
LEMMA EmitUnits ==
  ASSUME NEW x, NEW c, NEW escaped
  PROVE  EmitEscaped(x, c, escaped) = Emit(x, EscapedUnits(c, Escaped(x, escaped)))
         /\ EmitChars(x, c) = Emit(x, CharUnits(c))
BY DEF EmitEscaped, EmitChars, EscapedUnits, CharUnits, CharUnit

\* The reader has taken in what the writer was given.
LEMMA TextSound ==
  ASSUME NEW z, Sound(z), NEW c \in Seq(Char), NEW y, Control(y), ~y.astray, SameStacks(z, y),
         y.ns = z.ns, Placed(y), Trails(y), ModeOf(y.state) = ModeOf(z.state), InTag(y) = InTag(z),
         y.written = z.written \o c, TakenIn(z.out, y.out, c, Len(c))
  PROVE  Sound(y)
<1>1. z.out \in Reader /\ z.out.text = z.written /\ z.written \in Seq(Char)
      /\ z.out.mode = ModeOf(z.state)
  BY SoundTypes DEF Sound, InStep
<1>2. y.out.text = y.written
  BY <1>1, GrownEnds DEF TakenIn
<1>3. InStep(y)
  BY <1>1, <1>2 DEF InStep, TakenIn
<1>4. y.out.open = z.out.open /\ y.out.tag = z.out.tag
  BY DEF TakenIn
<1> QED BY <1>3, <1>4, MoveSound

\* What a write that was not refused comes to.
AfterText(s) == IF s = "Name" THEN "Text" ELSE IF s = "PI" THEN "PIText" ELSE s
Wrote(x, c, y) ==
    /\ Sound(y) /\ y.ret = "ok" /\ Len(y.elems) = Len(x.elems) /\ y.state = AfterText(x.state)
    /\ x.state = "Comment" /\ ~x.commentDash /\ ~EndsWith(c, "-") => ~y.commentDash

Flat == {"None", "Document", "Text", "Attribute"}

\* Text in content or in an attribute.
LEMMA FlatSound ==
  ASSUME NEW z, Sound(z), z.state \in Flat, NEW c \in Seq(Char), NEW units,
         NEW y, y = Emit(Note(z, c), units), TakenIn(z.out, ReadAll(z.out, units), c, Len(c))
  PROVE  Sound(y) /\ y.ret = z.ret /\ Len(y.elems) = Len(z.elems) /\ y.state = z.state
<1> DEFINE b == Note(z, c)
<1>1. /\ Control(b) /\ Alike(z, b) /\ b.state = z.state /\ b.written = z.written \o c
      /\ b.elems = z.elems /\ b.ns = z.ns /\ b.out = z.out
  BY NoteControl DEF Sound
<1> HIDE DEF b
<1>2. /\ Control(y) /\ Alike(b, y) /\ y.state = b.state /\ y.written = b.written
      /\ y.elems = b.elems /\ y.ns = b.ns /\ y.out = ReadAll(z.out, units)
  BY <1>1, EmitControl DEF b
<1>3. /\ ~y.astray /\ y.ret = z.ret /\ y.stateStack = z.stateStack /\ y.state = z.state
      /\ y.elems = z.elems /\ y.ns = z.ns
  BY <1>1, <1>2 DEF Alike, Kin, Sound
<1>4. Placed(y) /\ Trails(y) /\ InTag(y) = InTag(z) /\ SameStacks(z, y)
  BY <1>3 DEF Placed, Trails, InTag, SameStacks, Sound, Flat
<1>5. Sound(y)
  BY <1>1, <1>2, <1>3, <1>4, TextSound
<1> QED BY <1>3, <1>5

\* The writer in the place where text goes.
Place(x) == NewText(closeTagIfOpen(x))

\* Text in content closes the start tag first.
LEMMA PlaceSound ==
  ASSUME NEW x, Sound(x), x.ret = "ok", NEW z, z = Place(x)
  PROVE  /\ Sound(z) /\ z.ret = "ok" /\ Len(z.elems) = Len(x.elems) /\ z.xml11 = x.xml11
         /\ z.state = IF x.state = "Name" THEN "Text" ELSE x.state
<1> DEFINE a == closeTagIfOpen(x)
<1>1. /\ Sound(a) /\ Control(a) /\ Alike(x, a)
      /\ a.state = IF x.state = "Name" THEN "Text" ELSE x.state
  BY CloseTagSound, CloseTagControl DEF Sound
<1> HIDE DEF a
<1>2. Sound(z) /\ Alike(a, z) /\ z.state = a.state
  BY <1>1, NewTextSound, NewTextControl DEF Place, a
<1> QED BY <1>1, <1>2 DEF Alike, Kin

\* WriteRaw, in all states.
LEMMA WriteRawSound ==
  ASSUME NEW x, Sound(x), x.ret = "ok", NEW y, y = WriteRaw(x)
  PROVE  Fine(x, y)
<1> DEFINE z == Place(x)
           c == <<"x">>
<1>1. CASE x.state \notin {"None", "Name", "Text", "Document", "Attribute"}
  BY <1>1 DEF WriteRaw, Fine
<1>2. CASE x.state \in {"None", "Name", "Text", "Document", "Attribute"}
  <2>1. y = EmitChars(Note(z, c), c)
    BY <1>2 DEF WriteRaw, Place
  <2>2. c \in Seq(Char) /\ Len(c) = 1 /\ DOMAIN c = 1 .. 1 /\ c[1] = "x" /\ "x" \in Char
    <3>1. "x" \in Char
      BY DEF Char
    <3> QED BY <3>1
  <2>3. CharUnits(c) = <<CharUnit("x")>>
    BY <2>2 DEF CharUnits
  <2>4. Sound(z) /\ z.ret = "ok" /\ z.state \in Flat
    BY <1>2, PlaceSound DEF Flat
  <2> HIDE DEF z, c
  <2>5. y = Emit(Note(z, c), <<CharUnit("x")>>)
    BY <2>1, <2>3, EmitUnits
  <2>6. TakenIn(z.out, ReadAll(z.out, <<CharUnit("x")>>), c, Len(c))
    <3> DEFINE q == Read(z.out, CharUnit("x"))
    <3>1. z.out \in Reader /\ z.out.mode \in {"content", "attr"}
      BY <2>4 DEF Sound, InStep, ModeOf, Flat
    <3>2. ReadChar(z.out, "x") = More(z.out, "x", 0)
      BY <3>1, ReadCharIs
    <3>3. q = More(z.out, "x", 0)
      BY <3>2, ReadCharUnit
    <3>4. Grows(z.out, q, c[1])
      BY <2>2, <3>1, <3>3, MoreGrows
    <3>5. ReadAll(z.out, <<CharUnit("x")>>) = q
      BY OneUnit
    <3> HIDE DEF q
    <3>6. TakenIn(z.out, z.out, c, 0) /\ 0 \in 0 .. Len(c) - 1 /\ 0 + 1 = 1
      BY <2>2, <3>1, TakenInNone
    <3>7. TakenIn(z.out, q, c, 1)
      BY <2>2, <3>1, <3>4, <3>6, TakenInNext
    <3> QED BY <2>2, <3>5, <3>7
  <2>7. Sound(y) /\ y.ret = z.ret
    BY <2>2, <2>4, <2>5, <2>6, FlatSound, ZenonT(30)
  <2> QED BY <2>4, <2>7 DEF Fine
<1> QED BY <1>1, <1>2

\* WriteString in content and attributes.
LEMMA WriteFlat ==
  ASSUME NEW x, Sound(x), x.ret = "ok", NEW c \in Seq(Char), ValidContent(x, c),
         x.state \in Flat \cup {"Name"}, NEW y, y = WriteString(x, c)
  PROVE  Wrote(x, c, y)
<1> DEFINE z == Place(x)
           esc == IF x.state = "Attribute" THEN {"<", ">", "q"} ELSE {"<", ">"}
<1>1. y = EmitEscaped(Note(z, c), c, esc)
  <2>1. CASE x.state = "Attribute"
    <3>1. y = EmitEscaped(Note(NewText(x), c), c, {"<", ">", "q"})
      BY <2>1 DEF WriteString, EscapedStates
    <3>2. z = NewText(x)
      BY <2>1 DEF Place, closeTagIfOpen
    <3> QED BY <2>1, <3>1, <3>2
  <2>2. CASE x.state # "Attribute"
    BY <2>2 DEF WriteString, EscapedStates, Place, Flat
  <2> QED BY <2>1, <2>2
<1>2. /\ Sound(z) /\ z.ret = "ok" /\ Len(z.elems) = Len(x.elems)
      /\ z.state = IF x.state = "Name" THEN "Text" ELSE x.state
  BY PlaceSound
<1>3. "<" \in esc /\ (x.state = "Attribute" => "q" \in esc)
  OBVIOUS
<1> DEFINE full == Escaped(Note(z, c), esc)
<1>9. full = IF x.xml11 THEN esc \cup {"ctl"} ELSE esc
  <2>1. z.xml11 = x.xml11
    BY PlaceSound
  <2> HIDE DEF z
  <2>2. Note(z, c).xml11 = z.xml11
    BY <1>2, NoteControl DEF Sound, Alike, Kin
  <2> QED BY <2>1, <2>2 DEF Escaped
<1> HIDE DEF z, esc, full
<1>10. "<" \in full /\ (x.state = "Attribute" => "q" \in full) /\ Writable(c, full)
  BY <1>3, <1>9 DEF Writable, ValidContent
<1>4. z.out \in Reader /\ z.out.mode \in {"content", "attr"} /\ (z.out.mode = "attr" => "q" \in full)
  BY <1>2, <1>10 DEF Sound, InStep, ModeOf, Flat
<1>5. TakenIn(z.out, ReadAll(z.out, EscapedUnits(c, full)), c, Len(c))
  BY <1>4, <1>10, ReadEscaped
<1>6. y = Emit(Note(z, c), EscapedUnits(c, full))
  BY <1>1, EmitUnits DEF full
<1>7. z.state \in Flat
  BY <1>2 DEF Flat
<1>8. Sound(y) /\ y.ret = z.ret /\ Len(y.elems) = Len(z.elems) /\ y.state = z.state
  BY <1>2, <1>5, <1>6, <1>7, FlatSound
<1> QED BY <1>2, <1>8 DEF Wrote, AfterText, Flat

\* WriteString by a writer astray in a start tag is not refused.
LEMMA WriteAstray ==
  ASSUME NEW x, Control(x), x.ret = "ok", x.astray, x.state = "Name", NEW c \in Seq(Char), ValidContent(x, c),
         NEW y, y = WriteString(x, c)
  PROVE  Control(y) /\ y.ret = "ok" /\ y.astray /\ y.state = "Text" /\ Len(y.elems) = Len(x.elems)
<1> DEFINE a == closeTagIfOpen(x)
           b == NewText(a)
           d == Note(b, c)
<1>1. y = EmitEscaped(d, c, {"<", ">"})
  BY DEF WriteString, EscapedStates
<1>2. Control(a) /\ Alike(x, a) /\ a.state = "Text"
  BY CloseTagControl
<1> HIDE DEF a
<1>3. Control(b) /\ Alike(a, b) /\ b.state = "Text"
  BY <1>2, NewTextControl
<1> HIDE DEF b
<1>4. Control(d) /\ Alike(b, d) /\ d.state = "Text"
  BY <1>3, NoteControl
<1> HIDE DEF d
<1>5. Control(y) /\ Alike(d, y) /\ y.state = "Text"
  BY <1>1, <1>4, EmitControl, EmitUnits
<1> QED BY <1>2, <1>3, <1>4, <1>5 DEF Alike, Kin

\* The end of c, for the flag that follows it.
LEMMA TrailIs ==
  ASSUME NEW c \in Seq(Char), NEW flag \in BOOLEAN, NEW tail, tail = (IF flag THEN 1 ELSE 0),
         NEW a, NEW v, v = Trail(flag, c, a)
  PROVE  v \in BOOLEAN /\ TailAfter(tail, c, Len(c), a) = IF v THEN 1 ELSE 0
<1>1. CASE c = <<>>
  BY <1>1 DEF Trail, TailAfter
<1>2. CASE c # <<>>
  <2>1. Len(c) # 0 /\ Last(c) = c[Len(c)]
    BY <1>2, EmptySeq DEF Last
  <2>2. v = (Last(c) = a)
    BY <1>2 DEF Trail, EndsWith
  <2> QED BY <2>1, <2>2 DEF TailAfter
<1> QED BY <1>1, <1>2

\* The characters of c do not end the body the reader is in.
Held(r, c, a, b) ==
    Guarded(r.mode, a, b) /\ r.tail \in {0, 1} /\ Apart(c, a, b) /\ (c # <<>> => ~(r.tail = 1 /\ c[1] = b))

\* The guard of WriteString holds back what could end the comment or PI, also across
\* two writes.
LEMMA HeldIs ==
  ASSUME NEW r, NEW c \in Seq(Char), NEW a, NEW b, NEW flag \in BOOLEAN,
         Guarded(r.mode, a, b), r.tail = (IF flag THEN 1 ELSE 0),
         ~((flag /\ StartsWith(c, b)) \/ Occurs(c, <<a, b>>))
  PROVE  Held(r, c, a, b)
<1>1. Apart(c, a, b)
  BY OccursNot
<1>2. c # <<>> => ~(r.tail = 1 /\ c[1] = b)
  BY DEF StartsWith
<1> QED BY <1>1, <1>2 DEF Held

\* WriteString in a comment.
LEMMA WriteComments ==
  ASSUME NEW x, Sound(x), x.ret = "ok", NEW c \in Seq(Char), Valid(c), x.state = "Comment",
         NEW y, y = WriteString(x, c)
  PROVE  \/ y = Refuse(x) /\ ((x.commentDash /\ StartsWith(c, "-")) \/ Occurs(c, <<"-", "-">>))
         \/ Wrote(x, c, y)
<1>1. CASE (x.commentDash /\ StartsWith(c, "-")) \/ Occurs(c, <<"-", "-">>)
  BY <1>1 DEF WriteString, EscapedStates
<1>2. CASE ~((x.commentDash /\ StartsWith(c, "-")) \/ Occurs(c, <<"-", "-">>))
  <2> DEFINE b == Note(x, c)
             a == Emit(b, CharUnits(c))
             v == Trail(x.commentDash, c, "-")
  <2>1. x.commentDash \in BOOLEAN /\ x.out.mode = "comment" /\ x.out \in Reader
        /\ x.out.tail = IF x.commentDash THEN 1 ELSE 0
    BY DEF Sound, Control, Writer, InStep, ModeOf, Trails
  <2>2. Held(x.out, c, "-", "-")
    BY <1>2, <2>1, HeldIs DEF Guarded
  <2>3. /\ TakenIn(x.out, ReadAll(x.out, CharUnits(c)), c, Len(c))
        /\ ReadAll(x.out, CharUnits(c)).tail = TailAfter(x.out.tail, c, Len(c), "-")
    BY <2>1, <2>2, ReadBody DEF Held
  <2>4. v \in BOOLEAN /\ TailAfter(x.out.tail, c, Len(c), "-") = IF v THEN 1 ELSE 0
    BY <2>1, TrailIs
  <2>5. /\ Control(b) /\ Alike(x, b) /\ b.state = x.state /\ b.written = x.written \o c
        /\ b.elems = x.elems /\ b.ns = x.ns /\ b.out = x.out
    BY NoteControl DEF Sound
  <2>6. y = [EmitChars(b, c) EXCEPT !.commentDash = Trail(@, c, "-")]
    BY <1>2 DEF WriteString, EscapedStates
  <2> HIDE DEF b
  <2>7. /\ Control(a) /\ Alike(b, a) /\ a.state = b.state /\ a.written = b.written
        /\ a.elems = b.elems /\ a.ns = b.ns /\ a.out = ReadAll(x.out, CharUnits(c))
    BY <2>5, EmitControl
  <2>8. y = [a EXCEPT !.commentDash = v]
    <3>1. EmitChars(b, c) = a
      BY EmitUnits
    <3> HIDE DEF a
    <3>2. a.commentDash = x.commentDash
      BY <2>5, <2>7 DEF Alike
    <3>3. y = [a EXCEPT !.commentDash = Trail(a.commentDash, c, "-")]
      BY <2>6, <3>1
    <3> QED BY <3>2, <3>3, Zenon
  <2>9. x.state = "Comment" /\ ~x.commentDash /\ ~EndsWith(c, "-") => ~v
    BY DEF Trail
  <2> HIDE DEF a, v
  <2>10. /\ Control(y) /\ Kin(a, y) /\ y.state = a.state /\ y.written = a.written
         /\ y.elems = a.elems /\ y.ns = a.ns /\ y.out = a.out
    BY <2>4, <2>7, <2>8, FlagControl
  <2>11. y.commentDash = v
    BY <2>7, <2>8 DEF Control, Writer
  <2>12. /\ ~y.astray /\ y.ret = "ok" /\ y.stateStack = x.stateStack /\ y.state = "Comment"
         /\ y.elems = x.elems /\ y.ns = x.ns /\ y.written = x.written \o c
         /\ y.out = ReadAll(x.out, CharUnits(c))
    BY <2>5, <2>7, <2>10 DEF Alike, Kin, Sound
  <2>13. Placed(y) /\ InTag(y) = InTag(x) /\ SameStacks(x, y) /\ ModeOf(y.state) = ModeOf(x.state)
    BY <2>12 DEF Placed, InTag, SameStacks, Sound
  <2>14. Trails(y)
    BY <2>3, <2>4, <2>11, <2>12 DEF Trails
  <2>15. Sound(y)
    BY <2>3, <2>10, <2>12, <2>13, <2>14, TextSound
  <2> QED BY <2>9, <2>11, <2>12, <2>15 DEF Wrote, AfterText
<1> QED BY <1>1, <1>2

\* WriteString in a processing instruction.
LEMMA WritePIs ==
  ASSUME NEW x, Sound(x), x.ret = "ok", NEW c \in Seq(Char), Valid(c), x.state \in {"PI", "PIText"},
         NEW y, y = WriteString(x, c)
  PROVE  \/ y = Refuse(x) /\ ((x.piQuestion /\ StartsWith(c, ">")) \/ Occurs(c, <<"?", ">">>))
         \/ Wrote(x, c, y)
<1>1. CASE (x.piQuestion /\ StartsWith(c, ">")) \/ Occurs(c, <<"?", ">">>)
  BY <1>1 DEF WriteString, EscapedStates
<1>2. CASE ~((x.piQuestion /\ StartsWith(c, ">")) \/ Occurs(c, <<"?", ">">>))
  <2> DEFINE b == Note(x, c)
             a == Emit(b, CharUnits(c))
             v == Trail(x.piQuestion, c, "?")
             d == [a EXCEPT !.piQuestion = v]
  <2>1. x.piQuestion \in BOOLEAN /\ x.out.mode = "pi" /\ x.out \in Reader
        /\ x.out.tail = IF x.piQuestion THEN 1 ELSE 0
    BY DEF Sound, Control, Writer, InStep, ModeOf, Trails
  <2>2. Held(x.out, c, "?", ">")
    BY <1>2, <2>1, HeldIs DEF Guarded
  <2>3. /\ TakenIn(x.out, ReadAll(x.out, CharUnits(c)), c, Len(c))
        /\ ReadAll(x.out, CharUnits(c)).tail = TailAfter(x.out.tail, c, Len(c), "?")
    BY <2>1, <2>2, ReadBody DEF Held
  <2>4. v \in BOOLEAN /\ TailAfter(x.out.tail, c, Len(c), "?") = IF v THEN 1 ELSE 0
    BY <2>1, TrailIs
  <2>5. /\ Control(b) /\ Alike(x, b) /\ b.state = x.state /\ b.written = x.written \o c
        /\ b.elems = x.elems /\ b.ns = x.ns /\ b.out = x.out
    BY NoteControl DEF Sound
  <2>6. y = [EmitChars(b, c) EXCEPT !.piQuestion = Trail(@, c, "?"), !.state = "PIText"]
    BY <1>2 DEF WriteString, EscapedStates
  <2> HIDE DEF b
  <2>7. /\ Control(a) /\ Alike(b, a) /\ a.state = b.state /\ a.written = b.written
        /\ a.elems = b.elems /\ a.ns = b.ns /\ a.out = ReadAll(x.out, CharUnits(c))
    BY <2>5, EmitControl
  <2>8. y = InState(d, "PIText")
    <3>1. EmitChars(b, c) = a
      BY EmitUnits
    <3> HIDE DEF a
    <3>2. a.piQuestion = x.piQuestion
      BY <2>5, <2>7 DEF Alike
    <3>3. y = [[a EXCEPT !.piQuestion = Trail(a.piQuestion, c, "?")] EXCEPT !.state = "PIText"]
      BY <2>6, <3>1
    <3> QED BY <3>2, <3>3, Zenon DEF InState
  <2> HIDE DEF a, v
  <2>10. /\ Control(d) /\ Kin(a, d) /\ d.state = a.state /\ d.written = a.written
         /\ d.elems = a.elems /\ d.ns = a.ns /\ d.out = a.out
    BY <2>4, <2>7, FlagControl
  <2>11. d.piQuestion = v
    BY <2>7 DEF Control, Writer
  <2> HIDE DEF d
  <2>17. "PIText" \in States
    BY DEF States
  <2>16. /\ Control(y) /\ Alike(d, y) /\ y.written = d.written
         /\ y.elems = d.elems /\ y.ns = d.ns /\ y.out = d.out /\ y.state = "PIText"
    BY <2>8, <2>10, <2>17, StateControl DEF InState
  <2>12. /\ ~y.astray /\ y.ret = "ok" /\ y.stateStack = x.stateStack /\ y.state = "PIText"
         /\ y.elems = x.elems /\ y.ns = x.ns /\ y.written = x.written \o c
         /\ y.out = ReadAll(x.out, CharUnits(c)) /\ y.piQuestion = v
    BY <2>5, <2>7, <2>10, <2>11, <2>16 DEF Alike, Kin, Sound
  <2>13. Placed(y) /\ InTag(y) = InTag(x) /\ SameStacks(x, y) /\ ModeOf(y.state) = ModeOf(x.state)
    BY <2>12 DEF Placed, InTag, SameStacks, Sound, ModeOf
  <2>14. Trails(y)
    BY <2>3, <2>4, <2>12 DEF Trails
  <2>15. Sound(y)
    BY <2>3, <2>16, <2>12, <2>13, <2>14, TextSound
  <2> QED BY <2>12, <2>15 DEF Wrote, AfterText
<1> QED BY <1>1, <1>2

\* writeCDATAEscaped, one character of it.
Reopened(y, ch) ==
    IF ch = ">" /\ y.cdataBrackets >= 2 THEN Emit(y, <<Mark("]]>"), Mark("<![CDATA[")>>) ELSE y
CDATAStep(y, ch) ==
    [EmitChars(Reopened(y, ch), <<ch>>) EXCEPT
       !.cdataBrackets = IF ch = "]" THEN Min({y.cdataBrackets + 1, 2}) ELSE 0]

\* g is the writer before the first and after each character.
Escaping(g, x, c) == g[0] = x /\ \A k \in 1 .. Len(c) : g[k] = CDATAStep(g[k - 1], c[k])

\* writeCDATAEscaped goes through its content character by character.
LEMMA EscapingLoop ==
  ASSUME NEW x, NEW c \in Seq(Char)
  PROVE  \E g : Escaping(g, x, c) /\ writeCDATAEscaped(x, c) = g[Len(c)]
<1> DEFINE n == Len(c)
           Eq(f) == f = [k \in 0 .. n |-> IF k = 0 THEN x ELSE CDATAStep(f[k - 1], c[k])]
           Upto(g, m) == g[0] = x /\ \A k \in 1 .. m : g[k] = CDATAStep(g[k - 1], c[k])
           T == {m \in 0 .. n : \E g : Upto(g, m)}
<1>0. n \in Nat
  BY LenProperties
<1>1. 0 \in T
  <2>1. Upto([k \in 0 .. 0 |-> x], 0)
    OBVIOUS
  <2>2. \E g : Upto(g, 0)
    BY <2>1
  <2> HIDE DEF Upto, n
  <2> QED BY <1>0, <2>2
<1>2. ASSUME NEW m \in 0 .. n - 1, m \in T PROVE m + 1 \in T
  <2>1. PICK g : Upto(g, m)
    BY <1>2
  <2> DEFINE h == [k \in 0 .. m + 1 |-> IF k = m + 1 THEN CDATAStep(g[m], c[m + 1]) ELSE g[k]]
  <2>2. /\ h[m + 1] = CDATAStep(g[m], c[m + 1]) /\ h[0] = g[0] /\ \A k \in 0 .. m : h[k] = g[k]
    OBVIOUS
  <2> HIDE DEF h, n
  <2>3. ASSUME NEW k \in 1 .. m + 1 PROVE h[k] = CDATAStep(h[k - 1], c[k])
    <3>1. CASE k = m + 1
      <4>1. k - 1 = m /\ h[m] = g[m]
        BY <2>2, <3>1
      <4> QED BY <2>2, <3>1, <4>1
    <3>2. CASE k # m + 1
      <4>1. k \in 1 .. m /\ k \in 0 .. m /\ k - 1 \in 0 .. m
        BY <3>2
      <4> QED BY <2>1, <2>2, <4>1
    <3> QED BY <3>1, <3>2
  <2>4. Upto(h, m + 1)
    BY <2>1, <2>2, <2>3
  <2> HIDE DEF Upto
  <2> QED BY <1>0, <2>4
<1>3. n \in T
  <2> HIDE DEF T, n
  <2>1. \A k \in 0 .. n : k \in T
    BY <1>0, <1>1, <1>2, StepByStep
  <2> QED BY <1>0, <2>1
<1>4. PICK g : Upto(g, n)
  BY <1>3
<1> DEFINE h == [k \in 0 .. n |-> g[k]]
<1>5. Eq(h)
  <2>1. ASSUME NEW k \in 0 .. n PROVE g[k] = IF k = 0 THEN x ELSE CDATAStep(h[k - 1], c[k])
    <3>1. CASE k = 0
      BY <1>4, <3>1
    <3>2. CASE k # 0
      <4>1. k \in 1 .. n /\ k - 1 \in 0 .. n
        BY <1>0, <3>2
      <4>2. h[k - 1] = g[k - 1]
        BY <4>1
      <4> QED BY <1>4, <3>2, <4>1, <4>2
    <3> QED BY <3>1, <3>2
  <2> QED BY <2>1
<1>6. writeCDATAEscaped(x, c) = (CHOOSE f : Eq(f))[n]
  BY DEF writeCDATAEscaped, Loop, CDATAStep, Reopened
<1>7. PICK f : f = (CHOOSE e : Eq(e)) /\ Eq(f)
  BY <1>5
<1>8. Escaping(f, x, c)
  <2>1. f[0] = x
    BY <1>0, <1>7
  <2>2. ASSUME NEW k \in 1 .. n PROVE f[k] = CDATAStep(f[k - 1], c[k])
    <3>1. k \in 0 .. n /\ k # 0
      BY <1>0
    <3> QED BY <1>7, <3>1, Zenon
  <2> QED BY <2>1, <2>2 DEF Escaping
<1> QED BY <1>6, <1>7, <1>8

\* The count of brackets stays within 2.
LEMMA MinIs ==
  ASSUME NEW t \in 0 .. 2
  PROVE  Min({t + 1, 2}) \in 0 .. 2
<1> DEFINE S == {t + 1, 2}
<1>1. \E m \in S : \A j \in S : m <= j
  OBVIOUS
<1>2. Min(S) \in S /\ \A j \in S : Min(S) <= j
  BY <1>1 DEF Min
<1>3. Min(S) <= 2 /\ (Min(S) = t + 1 \/ Min(S) = 2)
  BY <1>2
<1> HIDE DEF S
<1> QED BY <1>3 DEF S

\* y is x after the first k characters of c have been written in the section.
InCDATA(x, y, c, k) ==
    /\ Control(y) /\ Kin(x, y) /\ y.state = "CDATA" /\ y.elems = x.elems /\ y.ns = x.ns
    /\ y.written = x.written /\ y.out.tail = y.cdataBrackets
    /\ TakenIn(x.out, y.out, c, k)

\* The section is closed and reopened where its end would be complete.
LEMMA ReopenedIs ==
  ASSUME NEW y, Control(y), y.out \in Reader, y.out.mode = "cdata", y.out.open # <<>>,
         y.out.tail = y.cdataBrackets, NEW ch, NEW z, z = Reopened(y, ch)
  PROVE  /\ Control(z) /\ Alike(y, z) /\ z.state = y.state /\ z.elems = y.elems /\ z.ns = y.ns
         /\ z.written = y.written /\ z.out \in Reader /\ z.out.mode = "cdata"
         /\ z.out.open = y.out.open /\ z.out.tag = y.out.tag /\ z.out.text = y.out.text
         /\ ch # ">" => z.out.tail = y.cdataBrackets
         /\ ch = ">" => z.out.tail # 2
<1>0. y.cdataBrackets \in 0 .. 2
  BY DEF Control, Writer
<1>1. CASE ~(ch = ">" /\ y.cdataBrackets >= 2)
  <2>1. z = y
    BY <1>1 DEF Reopened
  <2> QED BY <1>0, <1>1, <2>1 DEF Alike, Kin
<1>2. CASE ch = ">" /\ y.cdataBrackets >= 2
  <2> DEFINE r == y.out
             m == Enter(r, "content")
             units == <<Mark("]]>"), Mark("<![CDATA[")>>
  <2>1. z = Emit(y, units)
    BY <1>2 DEF Reopened
  <2>2. /\ m \in Reader /\ m.mode = "content" /\ m.open = r.open /\ m.tag = r.tag /\ m.text = r.text
    BY EnterIs DEF Modes
  <2>3. ReadAll(r, units) = Enter(m, "cdata")
    <3>1. Read(r, Mark("]]>")) = m
      BY ReadMark
    <3>2. Read(m, Mark("<![CDATA[")) = Enter(m, "cdata")
      BY <2>2, ReadMark
    <3> QED BY <3>1, <3>2, TwoUnits
  <2> HIDE DEF m, units
  <2>4. /\ Control(z) /\ Alike(y, z) /\ z.state = y.state /\ z.elems = y.elems /\ z.ns = y.ns
        /\ z.written = y.written /\ z.out = Enter(m, "cdata")
    BY <2>1, <2>3, EmitControl
  <2>5. /\ z.out \in Reader /\ z.out.mode = "cdata" /\ z.out.tail = 0 /\ z.out.open = r.open
        /\ z.out.tag = r.tag /\ z.out.text = r.text
    BY <2>2, <2>4, EnterIs DEF Modes
  <2> QED BY <1>2, <2>4, <2>5
<1> QED BY <1>1, <1>2

\* One character of a section.
LEMMA CDATAStepIs ==
  ASSUME NEW x, x.out \in Reader, x.out.mode = "cdata", x.out.open # <<>>, NEW c \in Seq(Char),
         Valid(c), NEW k \in 0 .. Len(c) - 1, NEW y, InCDATA(x, y, c, k), NEW s, s = CDATAStep(y, c[k + 1])
  PROVE  InCDATA(x, s, c, k + 1)
<1> DEFINE ch == c[k + 1]
           z == Reopened(y, ch)
           a == EmitChars(z, <<ch>>)
           v == IF ch = "]" THEN Min({y.cdataBrackets + 1, 2}) ELSE 0
<1>1. /\ Control(y) /\ y.out \in Reader /\ y.out.mode = "cdata" /\ y.out.open = x.out.open
      /\ y.out.tail = y.cdataBrackets /\ y.cdataBrackets \in 0 .. 2
  BY DEF InCDATA, TakenIn, Control, Writer
<1>2. ch \in Char /\ ch \notin {"ctl", "bad"}
  <2>1. k + 1 \in 1 .. Len(c)
    BY LenProperties
  <2>2. k + 1 \in DOMAIN c
    BY <2>1, LenProperties
  <2> QED BY <2>1, <2>2, ElementOfSeq DEF Valid
<1>3. v \in 0 .. 2
  <2>1. Min({y.cdataBrackets + 1, 2}) \in 0 .. 2
    BY <1>1, MinIs
  <2>2. CASE ch = "]"
    BY <2>1, <2>2
  <2>3. CASE ch # "]"
    BY <2>3
  <2> QED BY <2>2, <2>3
<1>4. s = [a EXCEPT !.cdataBrackets = v]
  BY DEF CDATAStep
<1> HIDE DEF ch
<1>5. /\ Control(z) /\ Alike(y, z) /\ z.state = y.state /\ z.elems = y.elems /\ z.ns = y.ns
      /\ z.written = y.written /\ z.out \in Reader /\ z.out.mode = "cdata"
      /\ z.out.open = y.out.open /\ z.out.tag = y.out.tag /\ z.out.text = y.out.text
      /\ ch # ">" => z.out.tail = y.cdataBrackets
      /\ ch = ">" => z.out.tail # 2
  BY <1>1, ReopenedIs
<1> HIDE DEF z
<1>6. a = Emit(z, <<CharUnit(ch)>>)
  <2>1. CharUnits(<<ch>>) = <<CharUnit(ch)>>
    BY DEF CharUnits
  <2> QED BY <2>1, EmitUnits
<1>7. /\ Control(a) /\ Alike(z, a) /\ a.state = z.state /\ a.elems = z.elems /\ a.ns = z.ns
      /\ a.written = z.written /\ a.out = Read(z.out, CharUnit(ch))
  BY <1>5, <1>6, EmitControl, OneUnit
<1>8. a.out = More(z.out, ch, v)
  <2>1. a.out = ReadChar(z.out, ch)
    BY <1>7, ReadCharUnit
  <2>2. CASE ch = "]"
    <3>1. z.out.tail = y.cdataBrackets /\ v = Min({y.cdataBrackets + 1, 2})
      BY <1>5, <2>2
    <3> HIDE DEF v
    <3>2. ReadChar(z.out, ch) = More(z.out, ch, Min({z.out.tail + 1, 2}))
      BY <1>5, <2>2, ReadCounted
    <3> QED BY <2>1, <3>1, <3>2
  <2>3. CASE ch # "]"
    <3>1. ReadChar(z.out, ch) = More(z.out, ch, 0)
      BY <1>2, <1>5, <2>3, ReadCharIs
    <3> QED BY <2>1, <2>3, <3>1
  <2> QED BY <2>2, <2>3
<1> HIDE DEF a, v
<1>9. Grows(z.out, a.out, ch) /\ a.out.tail = v
  BY <1>2, <1>3, <1>5, <1>8, MoreGrows
<1>10. /\ Control(s) /\ Kin(a, s) /\ s.state = a.state /\ s.written = a.written
       /\ s.elems = a.elems /\ s.ns = a.ns /\ s.out = a.out
  BY <1>3, <1>4, <1>7, FlagControl
<1>11. s.cdataBrackets = v
  BY <1>4, <1>7 DEF Control, Writer
<1>12. Grows(y.out, s.out, ch)
  BY <1>1, <1>5, <1>9, <1>10 DEF Grows
<1>13. TakenIn(x.out, s.out, c, k + 1)
  BY <1>12, TakenInNext DEF InCDATA, ch
<1>14. Kin(x, s)
  <2>1. Kin(x, y) /\ Kin(y, z) /\ Kin(z, a) /\ Kin(a, s)
    BY <1>5, <1>7, <1>10 DEF InCDATA, Alike
  <2> QED BY <2>1 DEF Kin
<1> QED BY <1>5, <1>7, <1>9, <1>10, <1>11, <1>13, <1>14 DEF InCDATA

\* WriteString in a CDATA section.
LEMMA WriteCDATAs ==
  ASSUME NEW x, Sound(x), x.ret = "ok", NEW c \in Seq(Char), Valid(c), x.state = "CDATA",
         NEW y, y = WriteString(x, c)
  PROVE  Wrote(x, c, y)
<1> DEFINE b == Note(x, c)
           n == Len(c)
<1>1. y = writeCDATAEscaped(b, c)
  BY DEF WriteString, EscapedStates
<1>2. /\ Control(b) /\ Alike(x, b) /\ b.state = x.state /\ b.written = x.written \o c
      /\ b.elems = x.elems /\ b.ns = x.ns /\ b.out = x.out
  BY NoteControl DEF Sound
<1>3. x.out \in Reader /\ x.out.mode = "cdata" /\ x.out.tail = x.cdataBrackets /\ x.out.open # <<>>
  <2>1. x.out \in Reader /\ x.out.mode = "cdata" /\ x.out.tail = x.cdataBrackets
    BY DEF Sound, InStep, ModeOf, Trails
  <2>2. Len(x.elems) > 0 /\ ~InTag(x)
    BY DEF Sound, Placed, InTag
  <2>3. Len(x.out.open) = Len(x.elems) /\ Len(x.elems) \in Nat
    BY <2>2, SoundTypes
  <2>4. x.out.open # <<>>
    BY <2>2, <2>3, EmptySeq
  <2> QED BY <2>1, <2>4
<1> HIDE DEF b
<1>4. PICK g : Escaping(g, b, c) /\ writeCDATAEscaped(b, c) = g[n]
  BY EscapingLoop
<1>5. n \in Nat
  BY LenProperties
<1> DEFINE T == {k \in 0 .. n : InCDATA(b, g[k], c, k)}
<1>6. 0 \in T
  <2>1. g[0] = b
    BY <1>4 DEF Escaping
  <2>2. Kin(b, b)
    BY DEF Kin
  <2>3. b.out.tail = b.cdataBrackets
    BY <1>2, <1>3 DEF Alike
  <2>4. InCDATA(b, b, c, 0)
    BY <1>2, <1>3, <2>2, <2>3, TakenInNone DEF InCDATA
  <2> QED BY <1>5, <2>1, <2>4
<1>7. ASSUME NEW k \in 0 .. n - 1, k \in T PROVE k + 1 \in T
  <2>0. InCDATA(b, g[k], c, k)
    BY <1>7
  <2>1. k + 1 \in 1 .. n /\ (k + 1) - 1 = k /\ k + 1 \in 0 .. n
    BY <1>5
  <2>2. g[k + 1] = CDATAStep(g[k], c[k + 1])
    BY <1>4, <2>1 DEF Escaping
  <2>3. InCDATA(b, g[k + 1], c, k + 1)
    BY <1>2, <1>3, <2>0, <2>2, CDATAStepIs
  <2> HIDE DEF n
  <2> QED BY <2>1, <2>3
<1>8. n \in T
  <2> HIDE DEF T, n
  <2>1. \A k \in 0 .. n : k \in T
    BY <1>5, <1>6, <1>7, StepByStep
  <2> QED BY <1>5, <2>1
<1>9. InCDATA(b, y, c, n)
  BY <1>1, <1>4, <1>8
<1>10. /\ Control(y) /\ y.state = "CDATA" /\ y.elems = x.elems /\ y.ns = x.ns
       /\ y.written = x.written \o c /\ TakenIn(x.out, y.out, c, Len(c))
       /\ y.out.tail = y.cdataBrackets
  BY <1>2, <1>9 DEF InCDATA
<1>11. ~y.astray /\ y.ret = "ok" /\ y.stateStack = x.stateStack
  BY <1>2, <1>9 DEF InCDATA, Alike, Kin, Sound
<1>12. Placed(y) /\ Trails(y) /\ InTag(y) = InTag(x) /\ SameStacks(x, y)
       /\ ModeOf(y.state) = ModeOf(x.state)
  BY <1>10, <1>11 DEF Placed, Trails, InTag, SameStacks, Sound
<1>13. Sound(y)
  BY <1>10, <1>11, <1>12, TextSound
<1> QED BY <1>10, <1>11, <1>13 DEF Wrote, AfterText

\* WriteString in any state.
LEMMA WriteStringSound ==
  ASSUME NEW x, Sound(x), x.ret = "ok", NEW c \in Seq(Char), NEW y, y = WriteString(x, c)
  PROVE  Fine(x, y)
<1>1. CASE x.state \in Flat \cup {"Name"}
  <2>1. CASE ~ValidContent(x, c)
    BY <1>1, <2>1 DEF WriteString, EscapedStates, Flat, Fine
  <2>2. CASE ValidContent(x, c)
    BY <1>1, <2>2, WriteFlat DEF Fine, Wrote
  <2> QED BY <2>1, <2>2
<1>2. CASE Valid(c) /\ x.state \in {"Comment", "PI", "PIText", "CDATA"}
  <2>1. y = Refuse(x) \/ Wrote(x, c, y)
    BY <1>2, WriteComments, WritePIs, WriteCDATAs
  <2> QED BY <2>1 DEF Fine, Wrote
<1>3. CASE x.state \notin Flat \cup {"Name"} /\ ~Valid(c)
  BY <1>3 DEF WriteString, EscapedStates, Fine, Flat
<1>4. CASE x.state \notin Flat \cup {"Name", "Comment", "PI", "PIText", "CDATA"}
  BY <1>4 DEF WriteString, Fine, Flat
<1> QED BY <1>1, <1>2, <1>3, <1>4

-----------------------------------------------------------------------------
(***************************************************************************)
(* Calls made of other calls: only the first of them is ever refused.      *)
(***************************************************************************)
\* What WriteElement does after the start tag is accepted.
LEMMA ValueEnds ==
  ASSUME NEW y, InNewTag(y), NEW c \in Seq(Char), ValidContent(y, c), NEW z, z = WriteString(y, c),
         NEW e, e = EndElement(z)
  PROVE  z.ret = "ok" /\ e.ret = "ok" /\ (e.astray \/ Sound(e))
<1>0. y.ret = "ok" /\ y.state = "Name" /\ Len(y.elems) > 0 /\ Control(y)
  BY DEF InNewTag
<1>1. CASE Sound(y)
  <2>1. Wrote(y, c, z)
    BY <1>0, <1>1, WriteFlat
  <2>2. Sound(z) /\ z.ret = "ok" /\ Len(z.elems) > 0 /\ z.state = "Text"
    BY <1>0, <2>1 DEF Wrote, AfterText
  <2>3. EndsFine(z, e)
    BY <2>2, EndElementSound
  <2>4. z.elems # <<>> /\ ~Misplaced(z)
    <3>1. Len(<<>>) = 0
      OBVIOUS
    <3> QED BY <2>2, <3>1 DEF Misplaced
  <2> QED BY <2>2, <2>3, <2>4 DEF EndsFine, Ended
<1>2. CASE y.astray
  <2>1. Control(z) /\ z.ret = "ok" /\ z.astray /\ z.state = "Text" /\ Len(z.elems) = Len(y.elems)
    BY <1>0, <1>2, WriteAstray
  <2> QED BY <1>0, <2>1, EndElementAstray
<1> QED BY <1>1, <1>2 DEF InNewTag

\* A whole element: once its start tag is written, neither its text nor its end is refused.
LEMMA WriteElementSound ==
  ASSUME NEW x, Sound(x), x.ret = "ok", NEW p \in Names, NEW c \in Seq(Char),
         NEW y, y = WriteElement(x, p, c)
  PROVE  Fine(x, y)
<1> DEFINE s == StartElement(x, p)
<1>1. CASE ~ValidContent(x, c)
  BY <1>1 DEF WriteElement, Fine
<1>2. CASE ~(~ValidContent(x, c))
  <2>1. s = Refuse(x) \/ (InNewTag(s) /\ s.xml11 = x.xml11)
    <3>1. Unset \in Int
      BY DEF Unset
    <3> QED BY <3>1, OpenElementSound DEF StartElement
  <2>2. CASE s = Refuse(x)
    <3>1. s.ret = "refused"
      BY <2>2, RefuseControl DEF Sound
    <3> HIDE DEF s
    <3>2. y = s
      BY <1>2, <3>1 DEF WriteElement, Then, s
    <3> QED BY <2>2, <3>2 DEF Fine
  <2>3. CASE InNewTag(s) /\ s.xml11 = x.xml11
    <3> HIDE DEF s
    <3> DEFINE z == WriteString(s, c)
    <3>1. s.ret = "ok"
      BY <2>3 DEF InNewTag
    <3>2. /\ z.ret = "ok" /\ EndElement(z).ret = "ok"
          /\ EndElement(z).astray \/ Sound(EndElement(z))
      <4>1. ValidContent(s, c)
        BY <1>2, <2>3 DEF ValidContent
      <4> QED BY <2>3, <4>1, ValueEnds
    <3>3. y = EndElement(z)
      BY <1>2, <3>1, <3>2 DEF WriteElement, Then, s
    <3> QED BY <3>2, <3>3 DEF Fine
  <2> QED BY <2>1, <2>2, <2>3
<1> QED BY <1>1, <1>2

\* The same for an element with a namespace.
LEMMA WriteElementNSSound ==
  ASSUME NEW x, Sound(x), x.ret = "ok", NEW p \in NSPrefixes, NEW u \in URIs \cup {0}, NEW c \in Seq(Char),
         NEW y, y = WriteElementNS(x, p, u, c)
  PROVE  Fine(x, y)
<1> DEFINE s == StartElementNS(x, p, u)
<1>1. CASE ~ValidContent(x, c)
  BY <1>1 DEF WriteElementNS, Fine
<1>2. CASE ~(~ValidContent(x, c))
  <2>1. s = Refuse(x) \/ (InNewTag(s) /\ s.xml11 = x.xml11)
    <3>1. p \in Names
      BY DEF Names
    <3> QED BY <3>1, StartElementNSSound
  <2>2. CASE s = Refuse(x)
    <3>1. s.ret = "refused"
      BY <2>2, RefuseControl DEF Sound
    <3> HIDE DEF s
    <3>2. y = s
      BY <1>2, <3>1 DEF WriteElementNS, Then, s
    <3> QED BY <2>2, <3>2 DEF Fine
  <2>3. CASE InNewTag(s) /\ s.xml11 = x.xml11
    <3> HIDE DEF s
    <3> DEFINE z == WriteString(s, c)
    <3>1. s.ret = "ok"
      BY <2>3 DEF InNewTag
    <3>2. /\ z.ret = "ok" /\ EndElement(z).ret = "ok"
          /\ EndElement(z).astray \/ Sound(EndElement(z))
      <4>1. ValidContent(s, c)
        BY <1>2, <2>3 DEF ValidContent
      <4> QED BY <2>3, <4>1, ValueEnds
    <3>3. y = EndElement(z)
      BY <1>2, <3>1, <3>2 DEF WriteElementNS, Then, s
    <3> QED BY <3>2, <3>3 DEF Fine
  <2> QED BY <2>1, <2>2, <2>3
<1> QED BY <1>1, <1>2

\* What WriteAttribute does after the attribute has begun.
LEMMA AttributeEnds ==
  ASSUME NEW y, Sound(y), y.ret = "ok", y.state = "Attribute", NEW c \in Seq(Char), ValidContent(y, c),
         NEW z, z = WriteString(y, c), NEW e, e = EndAttribute(z)
  PROVE  z.ret = "ok" /\ e.ret = "ok" /\ Sound(e)
<1>1. Wrote(y, c, z)
  BY WriteFlat DEF Flat
<1>2. Sound(z) /\ z.ret = "ok" /\ z.state = "Attribute"
  BY <1>1 DEF Wrote, AfterText
<1> QED BY <1>2, EndAttributeSound

\* A whole attribute: once it has begun, neither its value nor its end is refused.
LEMMA WriteAttributeSound ==
  ASSUME NEW x, Sound(x), x.ret = "ok", NEW p \in Names, NEW c \in Seq(Char),
         NEW y, y = WriteAttribute(x, p, c)
  PROVE  Fine(x, y)
<1> DEFINE s == StartAttribute(x, p)
<1>1. CASE ~ValidContent(x, c)
  BY <1>1 DEF WriteAttribute, Fine
<1>2. CASE ~(~ValidContent(x, c))
  <2>1. s = Refuse(x) \/ (Sound(s) /\ s.ret = "ok" /\ s.state = "Attribute" /\ s.xml11 = x.xml11)
    <3>1. Unset \in Int
      BY DEF Unset
    <3> QED BY <3>1, StartAttributeOfSound DEF StartAttribute
  <2>2. CASE s = Refuse(x)
    <3>1. s.ret = "refused"
      BY <2>2, RefuseControl DEF Sound
    <3> HIDE DEF s
    <3>2. y = s
      BY <1>2, <3>1 DEF WriteAttribute, Then, s
    <3> QED BY <2>2, <3>2 DEF Fine
  <2>3. CASE Sound(s) /\ s.ret = "ok" /\ s.state = "Attribute" /\ s.xml11 = x.xml11
    <3> HIDE DEF s
    <3> DEFINE z == WriteString(s, c)
    <3>1. z.ret = "ok" /\ EndAttribute(z).ret = "ok" /\ Sound(EndAttribute(z))
      <4>1. ValidContent(s, c)
        BY <1>2, <2>3 DEF ValidContent
      <4> QED BY <2>3, <4>1, AttributeEnds
    <3>2. y = EndAttribute(z)
      BY <1>2, <2>3, <3>1 DEF WriteAttribute, Then, s
    <3> QED BY <3>1, <3>2 DEF Fine
  <2> QED BY <2>1, <2>2, <2>3
<1> QED BY <1>1, <1>2

\* The same for an attribute with a namespace.
LEMMA WriteAttributeNSSound ==
  ASSUME NEW x, Sound(x), x.ret = "ok", NEW p \in NSPrefixes, NEW u \in URIs \cup {0}, NEW c \in Seq(Char),
         NEW y, y = WriteAttributeNS(x, p, u, c)
  PROVE  Fine(x, y)
<1> DEFINE s == StartAttributeNS(x, p, u)
<1>1. CASE ~ValidContent(x, c)
  BY <1>1 DEF WriteAttributeNS, Fine
<1>2. CASE ~(~ValidContent(x, c))
  <2>1. s = Refuse(x) \/ (Sound(s) /\ s.ret = "ok" /\ s.state = "Attribute" /\ s.xml11 = x.xml11)
    <3>1. p \in Names
      BY DEF Names
    <3> QED BY <3>1, StartAttributeNSSound
  <2>2. CASE s = Refuse(x)
    <3>1. s.ret = "refused"
      BY <2>2, RefuseControl DEF Sound
    <3> HIDE DEF s
    <3>2. y = s
      BY <1>2, <3>1 DEF WriteAttributeNS, Then, s
    <3> QED BY <2>2, <3>2 DEF Fine
  <2>3. CASE Sound(s) /\ s.ret = "ok" /\ s.state = "Attribute" /\ s.xml11 = x.xml11
    <3> HIDE DEF s
    <3> DEFINE z == WriteString(s, c)
    <3>1. z.ret = "ok" /\ EndAttribute(z).ret = "ok" /\ Sound(EndAttribute(z))
      <4>1. ValidContent(s, c)
        BY <1>2, <2>3 DEF ValidContent
      <4> QED BY <2>3, <4>1, AttributeEnds
    <3>2. y = EndAttribute(z)
      BY <1>2, <2>3, <3>1 DEF WriteAttributeNS, Then, s
    <3> QED BY <3>1, <3>2 DEF Fine
  <2> QED BY <2>1, <2>2, <2>3
<1> QED BY <1>1, <1>2

\* A whole comment: the dashes that would spoil its end are refused before it begins.
LEMMA WriteCommentSound ==
  ASSUME NEW x, Sound(x), x.ret = "ok", NEW c \in Seq(Char),
         NEW y, y = WriteComment(x, c)
  PROVE  Fine(x, y)
<1> DEFINE s == StartComment(x)
<1>1. CASE ~Valid(c) \/ Occurs(c, <<"-", "-">>) \/ EndsWith(c, "-")
  BY <1>1 DEF WriteComment, Fine
<1>2. CASE ~(~Valid(c) \/ Occurs(c, <<"-", "-">>) \/ EndsWith(c, "-"))
  <2>1. s = Refuse(x) \/ (Sound(s) /\ s.ret = "ok" /\ s.state = "Comment" /\ ~s.commentDash)
    BY StartCommentSound
  <2>2. CASE s = Refuse(x)
    <3>1. s.ret = "refused"
      BY <2>2, RefuseControl DEF Sound
    <3> HIDE DEF s
    <3>2. y = s
      BY <1>2, <3>1 DEF WriteComment, Then, s
    <3> QED BY <2>2, <3>2 DEF Fine
  <2>3. CASE Sound(s) /\ s.ret = "ok" /\ s.state = "Comment" /\ ~s.commentDash
    <3> HIDE DEF s
    <3> DEFINE z == WriteString(s, c)
               e == EndComment(z)
    <3>1. Wrote(s, c, z)
      BY <1>2, <2>3, WriteComments
    <3>2. Sound(z) /\ z.ret = "ok" /\ z.state = "Comment" /\ ~z.commentDash
      BY <1>2, <2>3, <3>1 DEF Wrote, AfterText
    <3> HIDE DEF z
    <3>3. Sound(e) /\ e.ret = "ok"
      BY <3>2, EndCommentSound
    <3>4. y = e
      BY <1>2, <2>3, <3>2 DEF WriteComment, Then, s, z
    <3> QED BY <3>3, <3>4 DEF Fine
  <2> QED BY <2>1, <2>2, <2>3
<1> QED BY <1>1, <1>2

\* A whole processing instruction: a "?>" in it is refused before it begins.
LEMMA WritePISound ==
  ASSUME NEW x, Sound(x), x.ret = "ok", NEW ok \in BOOLEAN, NEW c \in Seq(Char),
         NEW y, y = WritePI(x, ok, c)
  PROVE  Fine(x, y)
<1> DEFINE s == StartPI(x, ok)
<1>1. CASE ~Valid(c) \/ Occurs(c, <<"?", ">">>)
  BY <1>1 DEF WritePI, Fine
<1>2. CASE ~(~Valid(c) \/ Occurs(c, <<"?", ">">>))
  <2>1. s = Refuse(x) \/ (Sound(s) /\ s.ret = "ok" /\ s.state = "PI" /\ ~s.piQuestion)
    BY StartPISound
  <2>2. CASE s = Refuse(x)
    <3>1. s.ret = "refused"
      BY <2>2, RefuseControl DEF Sound
    <3> HIDE DEF s
    <3>2. y = s
      BY <1>2, <3>1 DEF WritePI, Then, s
    <3> QED BY <2>2, <3>2 DEF Fine
  <2>3. CASE Sound(s) /\ s.ret = "ok" /\ s.state = "PI" /\ ~s.piQuestion
    <3> HIDE DEF s
    <3> DEFINE z == IF c = <<>> THEN s ELSE WriteString(s, c)
               e == EndPI(z)
    <3>1. Sound(z) /\ z.ret = "ok" /\ z.state \in {"PI", "PIText"}
      <4>1. CASE c = <<>>
        BY <2>3, <4>1
      <4>2. CASE c # <<>>
        <5>1. Wrote(s, c, z)
          BY <1>2, <2>3, <4>2, WritePIs
        <5> QED BY <2>3, <5>1 DEF Wrote, AfterText
      <4> QED BY <4>1, <4>2
    <3> HIDE DEF z
    <3>2. Sound(e) /\ e.ret = "ok"
      BY <3>1, EndPISound
    <3>3. y = e
      BY <1>2, <2>3, <3>1 DEF WritePI, Then, s, z
    <3> QED BY <3>2, <3>3 DEF Fine
  <2> QED BY <2>1, <2>2, <2>3
<1> QED BY <1>1, <1>2

\* WriteCDATA's loop, with names for its parts: section i ends before the ">" of
\* a "]]>" at i or at the end of c.
SectionEnds(c) ==
    {i \in 0 .. Len(c) : i = Len(c) \/ (i > 1 /\ SubSeq(c, i - 1, i + 1) = <<"]", "]", ">">>)}
Part(c, i) == SubSeq(c, 1 + Max({0} \cup {j \in SectionEnds(c) : j < i}), i)
Section(y, c, i) ==
    IF i \notin SectionEnds(c) THEN y
    ELSE Then(Then(Then(y, StartCDATA), LAMBDA z : WriteString(z, Part(c, i))), EndCDATA)
Sectioning(g, x, c) ==
    g[0] = x /\ \A k \in 1 .. Len(c) + 1 : g[k] = Section(g[k - 1], c, k - 1)

\* A part of the content is content that XML allows.
LEMMA PartIs ==
  ASSUME NEW c \in Seq(Char), Valid(c), NEW i \in 0 .. Len(c)
  PROVE  Part(c, i) \in Seq(Char) /\ Valid(Part(c, i))
<1> DEFINE n == Len(c)
           F == {0} \cup {j \in SectionEnds(c) : j < i}
           m == Max(F)
           s == SubSeq(c, 1 + m, i)
<1>1. n \in Nat
  BY LenProperties
<1>2. F \in SUBSET (0 .. n) /\ F # {}
  BY <1>1 DEF SectionEnds
<1> HIDE DEF F
<1>3. m \in 0 .. n
  BY <1>1, <1>2, Greatest
<1> HIDE DEF m
<1>4. \A k \in 1 + m .. i : k \in 1 .. n
  BY <1>1, <1>3
<1>5. \A k \in 1 + m .. i : c[k] \in Char /\ c[k] \notin {"ctl", "bad"}
  <2> TAKE k \in 1 + m .. i
  <2>1. k \in 1 .. n
    BY <1>4
  <2>2. c[k] \in Char
    BY <2>1, ElementOfSeq
  <2>3. k \in DOMAIN c
    BY <2>1, LenProperties
  <2> QED BY <2>2, <2>3 DEF Valid
<1>6. \A k \in 1 + m .. i : c[k] \in Char
  BY <1>5
<1>7. 1 + m \in Int /\ i \in Int
  BY <1>1, <1>3
<1>8. /\ s \in Seq(Char) /\ Len(s) = IF 1 + m <= i THEN i - (1 + m) + 1 ELSE 0
      /\ \A k \in 1 .. i - (1 + m) + 1 : s[k] = c[(1 + m) + k - 1]
  BY <1>6, <1>7, SubSeqProperties
<1>9. Valid(s)
  <2> SUFFICES ASSUME NEW k \in DOMAIN s PROVE s[k] \notin {"ctl", "bad"}
    BY DEF Valid
  <2>1. k \in 1 .. Len(s)
    BY <1>8, LenProperties
  <2> HIDE DEF s
  <2>2. k \in 1 .. i - (1 + m) + 1 /\ (1 + m) + k - 1 \in 1 + m .. i
    BY <1>3, <1>7, <1>8, <2>1
  <2> QED BY <1>5, <1>8, <2>2
<1>10. Part(c, i) = s
  BY DEF Part, m, F
<1> QED BY <1>8, <1>9, <1>10

\* WriteCDATA goes through its content position by position.
LEMMA SectionLoop ==
  ASSUME NEW x, NEW c \in Seq(Char), Valid(c)
  PROVE  \E g : Sectioning(g, x, c) /\ WriteCDATA(x, c) = g[Len(c) + 1]
<1> DEFINE n == Len(c) + 1
           at == [k \in 1 .. n |-> k - 1]
           Eq(f) == f = [k \in 0 .. n |-> IF k = 0 THEN x ELSE Section(f[k - 1], c, at[k])]
           Upto(g, m) == g[0] = x /\ \A k \in 1 .. m : g[k] = Section(g[k - 1], c, k - 1)
           T == {m \in 0 .. n : \E g : Upto(g, m)}
<1>0. n \in Nat /\ Len(at) = n
  BY LenProperties
<1>1. 0 \in T
  <2>1. Upto([k \in 0 .. 0 |-> x], 0)
    OBVIOUS
  <2>2. \E g : Upto(g, 0)
    BY <2>1
  <2> HIDE DEF Upto, n
  <2> QED BY <1>0, <2>2
<1>2. ASSUME NEW m \in 0 .. n - 1, m \in T PROVE m + 1 \in T
  <2>1. PICK g : Upto(g, m)
    BY <1>2
  <2> DEFINE h == [k \in 0 .. m + 1 |-> IF k = m + 1 THEN Section(g[m], c, m) ELSE g[k]]
  <2>2. /\ h[m + 1] = Section(g[m], c, m) /\ h[0] = g[0] /\ \A k \in 0 .. m : h[k] = g[k]
    OBVIOUS
  <2> HIDE DEF h, n
  <2>3. ASSUME NEW k \in 1 .. m + 1 PROVE h[k] = Section(h[k - 1], c, k - 1)
    <3>1. CASE k = m + 1
      <4>1. k - 1 = m /\ h[m] = g[m]
        BY <2>2, <3>1
      <4> QED BY <2>2, <3>1, <4>1
    <3>2. CASE k # m + 1
      <4>1. k \in 1 .. m /\ k \in 0 .. m /\ k - 1 \in 0 .. m
        BY <3>2
      <4> QED BY <2>1, <2>2, <4>1
    <3> QED BY <3>1, <3>2
  <2>4. Upto(h, m + 1)
    BY <2>1, <2>2, <2>3
  <2> HIDE DEF Upto
  <2> QED BY <1>0, <2>4
<1>3. n \in T
  <2> HIDE DEF T, n
  <2>1. \A k \in 0 .. n : k \in T
    BY <1>0, <1>1, <1>2, StepByStep
  <2> QED BY <1>0, <2>1
<1>4. PICK g : Upto(g, n)
  BY <1>3
<1>45. \A k \in 1 .. n : at[k] = k - 1
  OBVIOUS
<1> HIDE DEF at
<1> DEFINE h == [k \in 0 .. n |-> g[k]]
<1>5. Eq(h)
  <2>1. ASSUME NEW k \in 0 .. n PROVE g[k] = IF k = 0 THEN x ELSE Section(h[k - 1], c, at[k])
    <3>1. CASE k = 0
      BY <1>4, <3>1
    <3>2. CASE k # 0
      <4>1. k \in 1 .. n /\ k - 1 \in 0 .. n
        BY <1>0, <3>2
      <4>2. h[k - 1] = g[k - 1]
        BY <4>1
      <4>3. at[k] = k - 1
        BY <1>45, <4>1
      <4> QED BY <1>4, <3>2, <4>1, <4>2, <4>3
    <3> QED BY <3>1, <3>2
  <2> QED BY <2>1
<1>6. WriteCDATA(x, c) = (CHOOSE f : Eq(f))[n]
  <2>1. WriteCDATA(x, c) = LET after[k \in 0 .. Len(at)] ==
                                 IF k = 0 THEN x ELSE Section(after[k - 1], c, at[k])
                           IN  after[Len(at)]
    BY DEF WriteCDATA, Loop, Section, SectionEnds, Part, at
  <2> QED BY <1>0, <2>1
<1>7. PICK f : f = (CHOOSE e : Eq(e)) /\ Eq(f)
  BY <1>5
<1>8. Sectioning(f, x, c)
  <2>1. f[0] = x
    <3>1. 0 \in 0 .. n
      BY <1>0
    <3> QED BY <1>7, <3>1, Zenon
  <2>2. ASSUME NEW k \in 1 .. n PROVE f[k] = Section(f[k - 1], c, k - 1)
    <3>1. k \in 0 .. n /\ k # 0
      BY <1>0
    <3>2. at[k] = k - 1
      BY <1>45
    <3> QED BY <1>7, <3>1, <3>2, Zenon
  <2> QED BY <2>1, <2>2 DEF Sectioning
<1> QED BY <1>6, <1>7, <1>8

\* Where WriteCDATA is between two sections: before the first, refused at the
\* first, or back in the element's content.
Between(x, y) ==
    y = x \/ y = Refuse(x) \/ (Sound(y) /\ y.ret = "ok" /\ y.state = "Text")

\* One section: StartCDATA can only refuse the first.
LEMMA SectionIs ==
  ASSUME NEW x, Sound(x), x.ret = "ok", NEW c \in Seq(Char), Valid(c), NEW i \in 0 .. Len(c),
         NEW y, Between(x, y), NEW z, z = Section(y, c, i)
  PROVE  Between(x, z)
<1> DEFINE s == StartCDATA(y)
           p == Part(c, i)
           a == WriteString(s, p)
           e == EndCDATA(a)
<1>1. CASE i \notin SectionEnds(c)
  BY <1>1 DEF Section
<1>2. CASE i \in SectionEnds(c) /\ y = Refuse(x)
  <2>1. y.ret = "refused"
    BY <1>2, RefuseControl DEF Sound
  <2>2. z = y
    BY <1>2, <2>1 DEF Section, Then
  <2> QED BY <2>2
<1>3. CASE i \in SectionEnds(c) /\ y # Refuse(x)
  <2>1. Sound(y) /\ y.ret = "ok" /\ (y = x \/ y.state = "Text")
    BY <1>3 DEF Between
  <2>2. p \in Seq(Char) /\ Valid(p)
    BY PartIs
  <2>3. s = Refuse(x) \/ (Sound(s) /\ s.ret = "ok" /\ s.state = "CDATA")
    BY <2>1, StartCDATASound
  <2> HIDE DEF p
  <2>4. CASE s = Refuse(x)
    <3>1. s.ret = "refused"
      BY <2>4, RefuseControl DEF Sound
    <3> HIDE DEF s
    <3>2. z = s
      BY <1>3, <2>1, <3>1 DEF Section, Then, s
    <3> QED BY <2>4, <3>2 DEF Between
  <2>5. CASE Sound(s) /\ s.ret = "ok" /\ s.state = "CDATA"
    <3> HIDE DEF s
    <3>1. Wrote(s, p, a)
      BY <2>2, <2>5, WriteCDATAs
    <3>2. Sound(a) /\ a.ret = "ok" /\ a.state = "CDATA"
      BY <2>5, <3>1 DEF Wrote, AfterText
    <3> HIDE DEF a
    <3>3. Sound(e) /\ e.ret = "ok" /\ a.stateStack = <<e.state>>
      BY <3>2, EndCDATASound
    <3>4. a.stateStack = <<"Text">>
      BY <3>2 DEF Sound, Placed
    <3>5. e.state = "Text"
      BY <3>3, <3>4
    <3>6. z = e
      BY <1>3, <2>1, <2>5, <3>2 DEF Section, Then, s, a, p
    <3> QED BY <3>3, <3>5, <3>6 DEF Between
  <2> QED BY <2>3, <2>4, <2>5
<1> QED BY <1>1, <1>2, <1>3

\* All of WriteCDATA, which is refused as a whole or not at all.
LEMMA WriteCDATASound ==
  ASSUME NEW x, Sound(x), x.ret = "ok", NEW c \in Seq(Char), NEW y, y = WriteCDATA(x, c)
  PROVE  Fine(x, y)
<1>1. CASE ~Valid(c)
  BY <1>1 DEF WriteCDATA, Fine
<1>2. CASE Valid(c)
  <2> DEFINE n == Len(c) + 1
  <2>1. n \in Nat
    BY LenProperties
  <2>2. PICK g : Sectioning(g, x, c) /\ WriteCDATA(x, c) = g[n]
    BY <1>2, SectionLoop
  <2> DEFINE T == {k \in 0 .. n : Between(x, g[k])}
  <2>3. 0 \in T
    <3>1. Between(x, g[0])
      BY <2>2 DEF Between, Sectioning
    <3> HIDE DEF n
    <3> QED BY <2>1, <3>1
  <2>4. ASSUME NEW k \in 0 .. n - 1, k \in T PROVE k + 1 \in T
    <3>1. k + 1 \in 1 .. n /\ (k + 1) - 1 = k /\ k + 1 \in 0 .. n /\ k \in 0 .. Len(c)
      BY <2>1, LenProperties
    <3>2. g[k + 1] = Section(g[k], c, k)
      BY <2>2, <3>1 DEF Sectioning
    <3>3. Between(x, g[k])
      BY <2>4
    <3>4. Between(x, g[k + 1])
      BY <1>2, <3>1, <3>2, <3>3, SectionIs
    <3> HIDE DEF n
    <3> QED BY <3>1, <3>4
  <2>5. n \in T
    <3> HIDE DEF T, n
    <3>1. \A k \in 0 .. n : k \in T
      BY <2>1, <2>3, <2>4, StepByStep
    <3> QED BY <2>1, <3>1
  <2>6. Between(x, y)
    BY <2>2, <2>5
  <2> QED BY <2>6 DEF Between, Fine
<1> QED BY <1>1, <1>2

-----------------------------------------------------------------------------
(***************************************************************************)
(* The end of the document.                                                *)
(***************************************************************************)
\* EndDocument in its parts: what is open inside the innermost element is closed,
\* then the elements.
Finished(x) ==
    CASE x.state \in {"PI", "PIText"}   -> EndPI(x)
      [] x.state = "CDATA"              -> EndCDATA(x)
      [] x.state = "Comment"            -> EndComment(x)
      [] x.state \in {"DTD", "DTDText"} -> EndDTD(x)
      [] OTHER                          -> x
AllEnded(y) == Loop(LAMBDA z, e : EndElement(z), y, y.elems)
Anew(z) ==
    [NewText(z) EXCEPT !.state = "None", !.out = [FreshReader EXCEPT !.wrong = z.out.wrong]]
Ending(g, y, n) == g[0] = y /\ \A k \in 1 .. n : g[k] = EndElement(g[k - 1])

\* EndDocument in terms of its parts.
LEMMA EndDocumentIs ==
  ASSUME NEW x
  PROVE  EndDocument(x) = IF Finished(x).ret = "refused" THEN Finished(x)
                          ELSE Anew(AllEnded(Finished(x)))
BY DEF EndDocument, Then, Finished, AllEnded, Anew

\* EndDocument calls EndElement once for each open element.
LEMMA EndingLoop ==
  ASSUME NEW y, NEW n \in Nat, n = Len(y.elems)
  PROVE  \E g : Ending(g, y, n) /\ AllEnded(y) = g[n]
<1> DEFINE Eq(f) == f = [k \in 0 .. n |-> IF k = 0 THEN y ELSE EndElement(f[k - 1])]
           T == {m \in 0 .. n : \E g : Ending(g, y, m)}
<1>1. 0 \in T
  <2>1. Ending([k \in 0 .. 0 |-> y], y, 0)
    BY DEF Ending
  <2> QED BY <2>1
<1>2. ASSUME NEW m \in 0 .. n - 1, m \in T PROVE m + 1 \in T
  <2>1. PICK g : Ending(g, y, m)
    BY <1>2
  <2> DEFINE h == [k \in 0 .. m + 1 |-> IF k = m + 1 THEN EndElement(g[m]) ELSE g[k]]
  <2>2. /\ h[m + 1] = EndElement(g[m]) /\ h[0] = g[0] /\ \A k \in 0 .. m : h[k] = g[k]
    OBVIOUS
  <2> HIDE DEF h
  <2>3. ASSUME NEW k \in 1 .. m + 1 PROVE h[k] = EndElement(h[k - 1])
    <3>1. CASE k = m + 1
      <4>1. k - 1 = m /\ h[m] = g[m]
        BY <2>2, <3>1
      <4> QED BY <2>2, <3>1, <4>1
    <3>2. CASE k # m + 1
      <4>1. k \in 1 .. m /\ k \in 0 .. m /\ k - 1 \in 0 .. m
        BY <3>2
      <4> QED BY <2>1, <2>2, <4>1 DEF Ending
    <3> QED BY <3>1, <3>2
  <2>4. Ending(h, y, m + 1)
    BY <2>1, <2>2, <2>3 DEF Ending
  <2> QED BY <2>4
<1>3. n \in T
  <2> HIDE DEF T
  <2>1. \A k \in 0 .. n : k \in T
    BY <1>1, <1>2, StepByStep
  <2> QED BY <2>1
<1>4. PICK g : Ending(g, y, n)
  BY <1>3
<1> DEFINE h == [k \in 0 .. n |-> g[k]]
<1>5. Eq(h)
  <2>1. ASSUME NEW k \in 0 .. n PROVE g[k] = IF k = 0 THEN y ELSE EndElement(h[k - 1])
    <3>1. CASE k = 0
      BY <1>4, <3>1 DEF Ending
    <3>2. CASE k # 0
      <4>1. k \in 1 .. n /\ k - 1 \in 0 .. n
        BY <3>2
      <4>2. h[k - 1] = g[k - 1]
        BY <4>1
      <4> QED BY <1>4, <3>2, <4>1, <4>2 DEF Ending
    <3> QED BY <3>1, <3>2
  <2> QED BY <2>1
<1>6. AllEnded(y) = (CHOOSE f : Eq(f))[n]
  BY DEF AllEnded, Loop
<1>7. PICK f : f = (CHOOSE e : Eq(e)) /\ Eq(f)
  BY <1>5
<1>8. Ending(f, y, n)
  <2>1. f[0] = y
    BY <1>7
  <2>2. ASSUME NEW k \in 1 .. n PROVE f[k] = EndElement(f[k - 1])
    <3>1. k \in 0 .. n /\ k # 0
      OBVIOUS
    <3> QED BY <1>7, <3>1, Zenon
  <2> QED BY <2>1, <2>2 DEF Ending
<1> QED BY <1>6, <1>7, <1>8

\* With the body closed, every element ends, none astray.
Settling(y, k, n) ==
    Sound(y) /\ y.ret = "ok" /\ ~Misplaced(y) /\ Len(y.elems) = n - k
    /\ y.state \notin {"DTD", "DTDText"}

\* The elements end one by one until none is left.
LEMMA AllEndedSound ==
  ASSUME NEW y, Sound(y), y.ret = "ok", ~Misplaced(y), y.state \notin {"DTD", "DTDText"},
         NEW z, z = AllEnded(y)
  PROVE  Sound(z) /\ z.ret = "ok" /\ Len(z.elems) = 0 /\ ~Misplaced(z)
<1> DEFINE n == Len(y.elems)
<1>1. n \in Nat
  BY SoundTypes
<1>2. PICK g : Ending(g, y, n) /\ z = g[n]
  BY <1>1, EndingLoop
<1> DEFINE T == {k \in 0 .. n : Settling(g[k], k, n)}
<1>3. 0 \in T
  <2>1. Settling(g[0], 0, n)
    BY <1>1, <1>2 DEF Settling, Ending
  <2> HIDE DEF n
  <2> QED BY <1>1, <2>1
<1> HIDE DEF n
<1>4. ASSUME NEW k \in 0 .. n - 1, k \in T PROVE k + 1 \in T
  <2>1. k + 1 \in 1 .. n /\ (k + 1) - 1 = k /\ k + 1 \in 0 .. n /\ n - k > 0
    BY <1>1
  <2>2. g[k + 1] = EndElement(g[k])
    BY <1>2, <2>1 DEF Ending
  <2>3. Settling(g[k], k, n)
    BY <1>4
  <2>4. EndsFine(g[k], g[k + 1])
    BY <2>2, <2>3, EndElementSound DEF Settling
  <2>5. g[k].elems # <<>>
    <3>1. Len(<<>>) = 0
      OBVIOUS
    <3> QED BY <2>1, <2>3, <3>1 DEF Settling
  <2>6. Ended(g[k], g[k + 1])
    BY <2>3, <2>4, <2>5 DEF EndsFine, Settling
  <2>7. Settling(g[k + 1], k + 1, n)
    BY <1>1, <2>1, <2>3, <2>6 DEF Ended, Settling, Misplaced
  <2> QED BY <2>1, <2>7
<1>5. n \in T
  <2> HIDE DEF T
  <2>1. \A k \in 0 .. n : k \in T
    BY <1>1, <1>3, <1>4, StepByStep
  <2> QED BY <1>1, <2>1
<1>6. Settling(z, n, n)
  BY <1>2, <1>5
<1> QED BY <1>1, <1>6 DEF Settling

\* A reader that starts afresh.
LEMMA AnewReader ==
  ASSUME NEW z, z.out \in Reader, NEW r, r = [FreshReader EXCEPT !.wrong = z.out.wrong]
  PROVE  r \in Reader /\ r.mode = "content" /\ r.open = <<>> /\ r.text = <<>>
<1> DEFINE T == 0 .. 2
           O == Seq([name : NSPrefixes, binds : [NSPrefixes -> Nat]])
           C == Seq(Char)
<1>1. NoTag \in Tag
  <2>1. "" \in NSPrefixes
    BY InputsAssumption
  <2>2. <<>> \in Decls
    BY NoDecls
  <2> QED BY <2>1, <2>2 DEF NoTag, Tag
<1>2. 0 \in T /\ <<>> \in O /\ <<>> \in C
  BY EmptySeq
<1>3. z.out.wrong \in BOOLEAN
  BY DEF Reader
<1>4. Reader = [mode : Modes, open : O, tag : Tag, tail : T, text : C, began : BOOLEAN, wrong : BOOLEAN]
  BY DEF Reader
<1>5. "content" \in Modes
  BY DEF Modes
<1> HIDE DEF T, O, C
<1> QED BY <1>1, <1>2, <1>3, <1>4, <1>5 DEF FreshReader

\* A new document: the reader starts afresh.
LEMMA AnewSound ==
  ASSUME NEW z, Sound(z), z.ret = "ok", Len(z.elems) = 0, z.stateStack = <<>>, NEW y, y = Anew(z)
  PROVE  Sound(y) /\ y.ret = "ok"
<1> DEFINE t == NewText(z)
           r == [FreshReader EXCEPT !.wrong = z.out.wrong]
<1>1. /\ Control(t) /\ Alike(z, t) /\ t.written = <<>> /\ t.elems = z.elems /\ t.ns = z.ns
  BY NewTextControl DEF Sound
<1>2. r \in Reader /\ r.mode = "content" /\ r.open = <<>> /\ r.text = <<>>
  <2>1. z.out \in Reader
    BY SoundTypes
  <2> QED BY <2>1, AnewReader
<1>3. y = [t EXCEPT !.state = "None", !.out = r]
  BY DEF Anew
<1> HIDE DEF t, r
<1>4. /\ Control(y) /\ y.state = "None" /\ y.out = r /\ y.elems = t.elems /\ y.ns = t.ns
      /\ y.stateStack = t.stateStack /\ y.ret = t.ret /\ y.astray = t.astray /\ y.written = t.written
  BY <1>1, <1>3 DEF Control, Writer, States
<1>5. ~y.astray /\ y.ret = "ok" /\ y.stateStack = <<>> /\ Len(y.elems) = 0 /\ Len(y.ns) = 0
  BY <1>1, <1>4, SoundTypes DEF Alike, Kin
<1>6. Placed(y) /\ Trails(y) /\ Tagged(y)
  BY <1>4, <1>5 DEF Placed, Trails, Tagged, InTag
<1>7. InStep(y)
  BY <1>1, <1>2, <1>4 DEF InStep, ModeOf
<1>8. Nested(y) /\ Scoped(y)
  <2>1. Len(y.out.open) = 0
    BY <1>2, <1>4
  <2>2. Nested(y)
    <3>1. ~InTag(y)
      BY <1>4 DEF InTag
    <3>2. \A i \in 1 .. Len(y.out.open) : y.out.open[i].name = y.elems[i].name
      BY <2>1
    <3>3. (IF InTag(y) THEN 1 ELSE 0) = 0
      BY <3>1
    <3>4. Len(y.elems) = 0 /\ Len(y.ns) = 0
      BY <1>5
    <3>5. Len(y.out.open) = Len(y.elems) - (IF InTag(y) THEN 1 ELSE 0) /\ Len(y.ns) = Len(y.elems)
      <4>1. 0 = 0 - 0
        OBVIOUS
      <4> QED BY <2>1, <3>3, <3>4, <4>1, Zenon
    <3> QED BY <3>2, <3>5 DEF Nested
  <2>3. Scoped(y)
    BY <1>5, <2>1 DEF Scoped
  <2> QED BY <2>2, <2>3
<1> QED BY <1>4, <1>5, <1>6, <1>7, <1>8 DEF Sound

\* EndDocument is only refused where the comment in progress ends with a dash.
LEMMA EndDocumentSound ==
  ASSUME NEW x, Sound(x), x.ret = "ok", NEW y, y = EndDocument(x)
  PROVE  Fine(x, y)
<1> DEFINE f == Finished(x)
           z == AllEnded(f)
           Goes == Sound(f) /\ f.ret = "ok" /\ ~Misplaced(f) /\ f.state \notin {"DTD", "DTDText"}
           Outside == {"Text", "None", "Document"}
<1>1. f = Refuse(x) \/ Goes
  <2>0. x.state \in States
    BY DEF Sound, Control, Writer
  <2>1. CASE x.state \in {"PI", "PIText"}
    <3>1. f = EndPI(x)
      BY <2>1 DEF Finished
    <3>2. Sound(f) /\ f.ret = "ok" /\ x.stateStack = <<f.state>>
      BY <2>1, <3>1, EndPISound
    <3>3. f.state \in Outside
      BY <2>1, <3>2 DEF Sound, Placed
    <3> QED BY <3>2, <3>3 DEF Misplaced
  <2>2. CASE x.state = "CDATA"
    <3>1. f = EndCDATA(x)
      BY <2>2 DEF Finished
    <3>2. Sound(f) /\ f.ret = "ok" /\ x.stateStack = <<f.state>>
      BY <2>2, <3>1, EndCDATASound
    <3>3. f.state \in Outside
      BY <2>2, <3>2 DEF Sound, Placed
    <3> QED BY <3>2, <3>3 DEF Misplaced
  <2>3. CASE x.state = "Comment"
    <3>1. f = EndComment(x)
      BY <2>3 DEF Finished
    <3>2. f = Refuse(x) \/ (Sound(f) /\ f.ret = "ok" /\ x.stateStack = <<f.state>>)
      BY <3>1, EndCommentSound
    <3>3. f = Refuse(x) \/ f.state \in Outside
      BY <2>3, <3>2 DEF Sound, Placed
    <3> QED BY <3>2, <3>3 DEF Misplaced
  <2>4. CASE x.state \in {"DTD", "DTDText"}
    <3>1. f = EndDTD(x)
      BY <2>4 DEF Finished
    <3>2. Sound(f) /\ f.ret = "ok" /\ f.state = "Document"
      BY <2>4, <3>1, EndDTDSound
    <3> QED BY <3>2 DEF Misplaced
  <2>5. CASE x.state \notin {"PI", "PIText", "CDATA", "Comment", "DTD", "DTDText"}
    <3>1. f = x
      BY <2>5 DEF Finished
    <3> QED BY <2>5, <3>1 DEF Misplaced
  <2> QED BY <2>0, <2>1, <2>2, <2>3, <2>4, <2>5
<1>2. CASE f = Refuse(x)
  <2>1. f.ret = "refused"
    BY <1>2, RefuseControl DEF Sound
  <2> HIDE DEF f
  <2>2. y = f
    BY <2>1, EndDocumentIs DEF f
  <2> QED BY <1>2, <2>2 DEF Fine
<1>3. CASE Goes
  <2> HIDE DEF f
  <2>1. Sound(z) /\ z.ret = "ok" /\ Len(z.elems) = 0 /\ ~Misplaced(z)
    BY <1>3, AllEndedSound
  <2>2. z.stateStack = <<>>
    <3>1. z.state \in States
      BY <2>1 DEF Sound, Control, Writer
    <3> QED BY <2>1, <3>1 DEF Sound, Placed, Misplaced, States
  <2>3. y = Anew(z)
    BY <1>3, EndDocumentIs DEF f
  <2> HIDE DEF z
  <2> QED BY <2>1, <2>2, <2>3, AnewSound DEF Fine
<1> QED BY <1>1, <1>2, <1>3

-----------------------------------------------------------------------------
(***************************************************************************)
(* The writer as a whole.                                                  *)
(***************************************************************************)
\* A writer that has written nothing is in step with its reader, and so is the
\* one whose output failed, which nobody reads.
LEMMA NewWriterSound ==
  ASSUME NEW y, (\E v \in Versions : y = XMLVersion(NewWriter, v)) \/ y = [NewWriter EXCEPT !.err = TRUE, !.ret = "failed"]
  PROVE  Sound(y)
<1>1. /\ y.state = "None" /\ y.elems = <<>> /\ y.ns = <<>> /\ y.stateStack = <<>>
      /\ y.written = <<>> /\ y.astray = FALSE /\ y.out = FreshReader
  <2>1. CASE \E v \in Versions : y = XMLVersion(NewWriter, v)
    <3> HIDE DEF FreshReader
    <3> QED BY <2>1 DEF NewWriter, XMLVersion
  <2>2. CASE y = [NewWriter EXCEPT !.err = TRUE, !.ret = "failed"]
    <3> HIDE DEF FreshReader
    <3> QED BY <2>2 DEF NewWriter
  <2> QED BY <2>1, <2>2
<1>2. FreshReader \in Reader /\ FreshReader.mode = "content" /\ FreshReader.open = <<>> /\ FreshReader.text = <<>>
  <2> DEFINE T == 0 .. 2
             O == Seq([name : NSPrefixes, binds : [NSPrefixes -> Nat]])
             C == Seq(Char)
  <2>1. NoTag \in Tag
    <3>1. "" \in NSPrefixes
      BY InputsAssumption
    <3>2. <<>> \in Decls
      BY NoDecls
    <3> QED BY <3>1, <3>2 DEF NoTag, Tag
  <2>2. 0 \in T /\ <<>> \in O /\ <<>> \in C
    BY EmptySeq
  <2>3. Reader = [mode : Modes, open : O, tag : Tag, tail : T, text : C, began : BOOLEAN, wrong : BOOLEAN]
    BY DEF Reader
  <2>4. "content" \in Modes
    BY DEF Modes
  <2> HIDE DEF T, O, C
  <2> QED BY <2>1, <2>2, <2>3, <2>4 DEF FreshReader
<1>3. Control(y)
  <2> DEFINE T == 0 .. 2
             E == Seq(Elem)
             N == Seq(Scope)
             K == Seq(States)
             C == Seq(Char)
  <2>1. 0 \in T /\ <<>> \in E /\ <<>> \in N /\ <<>> \in K /\ <<>> \in C
    BY EmptySeq
  <2>2. Writer(y.out) =
          [state : States, elems : E, ns : N, stateStack : K, err : BOOLEAN, commentDash : BOOLEAN,
           piQuestion : BOOLEAN, cdataBrackets : T, xml11 : BOOLEAN, out : {y.out},
           ret : {"ok", "refused", "failed"}, written : C, astray : BOOLEAN]
    BY DEF Writer
  <2>3. "None" \in States
    BY DEF States
  <2> HIDE DEF T, E, N, K, C
  <2> QED BY <2>1, <2>2, <2>3 DEF NewWriter, XMLVersion, Control
<1>5. Len(y.elems) = 0 /\ Len(y.ns) = 0 /\ Len(y.out.open) = 0
  BY <1>1, <1>2
<1>6. Placed(y) /\ Trails(y) /\ Tagged(y)
  BY <1>1, <1>5 DEF Placed, Trails, Tagged, InTag
<1>7. InStep(y)
  BY <1>1, <1>2 DEF InStep, ModeOf
<1>8. Nested(y)
  BY <1>1, <1>5 DEF Nested, InTag
<1>9. Scoped(y)
  BY <1>5 DEF Scoped
<1> QED BY <1>3, <1>1, <1>6, <1>7, <1>8, <1>9 DEF Sound

\* The client reads a refusal off the writer and goes on.
LEMMA SeeSound ==
  ASSUME NEW x, Sound(x), NEW v \in {"ok", "refused"}, NEW y, y = [x EXCEPT !.ret = v]
  PROVE  Sound(y)
<1>1. /\ Control(y) /\ y.state = x.state /\ y.elems = x.elems /\ y.ns = x.ns
      /\ y.stateStack = x.stateStack /\ y.commentDash = x.commentDash /\ y.piQuestion = x.piQuestion
      /\ y.cdataBrackets = x.cdataBrackets /\ y.out = x.out /\ y.written = x.written
      /\ y.astray = x.astray
  BY DEF Sound, Control, Writer
<1>2. Placed(y) /\ Trails(y) /\ Tagged(y) /\ InStep(y)
  BY <1>1 DEF Sound, Placed, Trails, Tagged, InStep, InTag
<1>3. Nested(y) /\ Scoped(y)
  BY <1>1 DEF Sound, Nested, Scoped, InTag
<1> QED BY <1>1, <1>2, <1>3 DEF Sound

\* What a call on a writer in step may do.
LEMMA FineSound ==
  ASSUME NEW x, Sound(x), NEW y, Fine(x, y)
  PROVE  Sound(y) \/ (y.astray /\ y.ret = "ok")
<1>1. CASE y = Refuse(x)
  BY <1>1, SeeSound DEF Refuse
<1> QED BY <1>1 DEF Fine

Calls == Documents \/ Elements \/ Attributes \/ Texts \/ DTDs

\* Every call of the client but a failing one.
LEMMA CallsAreFine ==
  ASSUME Inv, Calls
  PROVE  /\ w.ret = "ok" /\ Sound(w)
         /\ \/ Fine(w, w')
            \/ w' = Refuse(Modern(w)) /\ w' = StartDocument(w, "1.1", TRUE, FALSE)
<1>0. w.ret = "ok" /\ Sound(w)
  BY DEF Inv, Calls, Documents, Elements, Attributes, Texts, DTDs, Call
<1>1. /\ \A c \in Contents : c \in Seq(Char)
      /\ \A c \in Values : c \in Seq(Char)
  BY InputsAssumption
<1>2. CASE Documents
  BY <1>0, <1>2, StartDocumentSound, EndDocumentSound DEF Documents, Call
<1>3. CASE Elements
  <2>1. CASE \E p \in Names : Call(StartElement(w, p))
    <3>1. PICK p \in Names : w' = OpenElement(w, p, Unset)
      BY <2>1 DEF Call, StartElement
    <3>2. Unset \in Int
      BY DEF Unset
    <3>3. w' = Refuse(w) \/ InNewTag(w')
      BY <1>0, <3>1, <3>2, OpenElementSound
    <3> QED BY <1>0, <3>3 DEF InNewTag, Fine
  <2>2. CASE \E p \in Names, u \in URIs \cup {0} : Call(StartElementNS(w, p, u))
    <3>1. PICK p \in Names, u \in URIs \cup {0} : w' = StartElementNS(w, p, u)
      BY <2>2 DEF Call
    <3>2. w' = Refuse(w) \/ InNewTag(w')
      BY <1>0, <3>1, StartElementNSSound
    <3> QED BY <1>0, <3>2 DEF InNewTag, Fine
  <2>3. CASE Call(EndElement(w)) \/ Call(FullEndElement(w))
    <3>1. EndsFine(w, w')
      BY <1>0, <2>3, EndElementSound, FullEndElementSound DEF Call
    <3> QED BY <1>0, <3>1 DEF EndsFine, Ended, Fine
  <2>4. CASE \E p \in Names, c \in Values : Call(WriteElement(w, p, c))
    BY <1>0, <1>1, <2>4, WriteElementSound DEF Call
  <2>5. CASE \E p \in NSPrefixes, u \in URIs \cup {0}, c \in Values : Call(WriteElementNS(w, p, u, c))
    BY <1>0, <1>1, <2>5, WriteElementNSSound DEF Call
  <2> QED BY <1>3, <2>1, <2>2, <2>3, <2>4, <2>5 DEF Elements
<1>4. CASE Attributes
  <2>1. CASE \E p \in Names : Call(StartAttribute(w, p))
    <3>1. PICK p \in Names : w' = StartAttributeOf(w, p, Unset)
      BY <2>1 DEF Call, StartAttribute
    <3>2. Unset \in Int
      BY DEF Unset
    <3>3. w' = Refuse(w) \/ (Sound(w') /\ w'.ret = "ok")
      BY <1>0, <3>1, <3>2, StartAttributeOfSound
    <3> QED BY <1>0, <3>3 DEF Fine
  <2>2. CASE \E p \in Names, u \in URIs \cup {0} : Call(StartAttributeNS(w, p, u))
    <3>1. PICK p \in Names, u \in URIs \cup {0} : w' = StartAttributeNS(w, p, u)
      BY <2>2 DEF Call
    <3>2. w' = Refuse(w) \/ (Sound(w') /\ w'.ret = "ok")
      BY <1>0, <3>1, StartAttributeNSSound
    <3> QED BY <1>0, <3>2 DEF Fine
  <2>3. CASE Call(EndAttribute(w))
    BY <1>0, <2>3, EndAttributeSound DEF Call, Fine
  <2>4. CASE \E p \in Names, c \in Values : Call(WriteAttribute(w, p, c))
    BY <1>0, <1>1, <2>4, WriteAttributeSound DEF Call
  <2>5. CASE \E p \in NSPrefixes, u \in URIs \cup {0}, c \in Values : Call(WriteAttributeNS(w, p, u, c))
    BY <1>0, <1>1, <2>5, WriteAttributeNSSound DEF Call
  <2> QED BY <1>4, <2>1, <2>2, <2>3, <2>4, <2>5 DEF Attributes
<1>5. CASE Texts
  <2>1. CASE \E c \in Contents : Call(WriteString(w, c))
    BY <1>0, <1>1, <2>1, WriteStringSound DEF Call
  <2>2. CASE Call(WriteRaw(w))
    BY <1>0, <2>2, WriteRawSound DEF Call
  <2>3. CASE Call(StartComment(w)) \/ Call(EndComment(w))
    <3>1. Fine(w, w')
      BY <1>0, <2>3, StartCommentSound, EndCommentSound DEF Call, Fine
    <3> QED BY <1>0, <3>1
  <2>4. CASE \E c \in Contents : Call(WriteComment(w, c))
    BY <1>0, <1>1, <2>4, WriteCommentSound DEF Call
  <2>5. CASE (\E ok \in BOOLEAN : Call(StartPI(w, ok))) \/ Call(EndPI(w))
    <3>1. Fine(w, w')
      BY <1>0, <2>5, StartPISound, EndPISound DEF Call, Fine
    <3> QED BY <1>0, <3>1
  <2>6. CASE \E ok \in BOOLEAN, c \in Contents : Call(WritePI(w, ok, c))
    BY <1>0, <1>1, <2>6, WritePISound DEF Call
  <2>7. CASE Call(StartCDATA(w)) \/ Call(EndCDATA(w))
    <3>1. Fine(w, w')
      BY <1>0, <2>7, StartCDATASound, EndCDATASound DEF Call, Fine
    <3> QED BY <1>0, <3>1
  <2>8. CASE \E c \in Contents : Call(WriteCDATA(w, c))
    BY <1>0, <1>1, <2>8, WriteCDATASound DEF Call
  <2> QED BY <1>5, <2>1, <2>2, <2>3, <2>4, <2>5, <2>6, <2>7, <2>8 DEF Texts
<1>6. CASE DTDs
  <2>1. CASE \E ok \in BOOLEAN : Call(StartDTD(w, ok))
    BY <1>0, <2>1, StartDTDSound DEF Call, Fine
  <2>2. CASE \E ok \in BOOLEAN : Call(WriteDTDDecl(w, ok))
    BY <1>0, <2>2, WriteDTDDeclSound DEF Call
  <2>3. CASE Call(EndDTD(w))
    BY <1>0, <2>3, EndDTDSound DEF Call, Fine
  <2>4. CASE \E ok, subset \in BOOLEAN : Call(WriteDTD(w, ok, subset))
    BY <1>0, <2>4, WriteDTDSound DEF Call
  <2> QED BY <1>6, <2>1, <2>2, <2>3, <2>4 DEF DTDs
<1>7. \/ Fine(w, w')
      \/ w' = Refuse(Modern(w)) /\ w' = StartDocument(w, "1.1", TRUE, FALSE)
  BY <1>2, <1>3, <1>4, <1>5, <1>6 DEF Calls
<1> QED BY <1>0, <1>7

\* The inductive invariant: while no call went astray, the fields of the writer and
\* the state of a parser of its output correspond (every step keeps Sound), and a
\* writer is never refused a call once it is astray.
THEOREM Invariance == Spec => []Inv
<1>1. Init => Inv
  BY NewWriterSound DEF Init, Inv
<1>2. ASSUME Inv, [Next]_w PROVE Inv'
  <2>1. CASE Calls
    <3>1. Sound(w) /\ (Fine(w, w') \/ w' = Refuse(Modern(w)))
      BY <1>2, <2>1, CallsAreFine
    <3>2. w' = Refuse(Modern(w)) => Sound(w')
      BY <3>1, VersionSound, SeeSound DEF Modern, Refuse
    <3>3. Sound(w') \/ (w'.astray /\ w'.ret = "ok")
      BY <3>1, <3>2, FineSound
    <3> QED BY <3>3 DEF Inv
  <2>2. CASE SeeRefusal
    <3>1. Sound(w) /\ w' = [w EXCEPT !.ret = "ok"]
      BY <1>2, <2>2 DEF SeeRefusal, Inv
    <3>2. Sound(w')
      BY <3>1, SeeSound
    <3> QED BY <3>2 DEF Inv
  <2>3. CASE IOError
    <3>1. Sound(w')
      BY <2>3, NewWriterSound DEF IOError, Call
    <3> QED BY <3>1 DEF Inv
  <2>4. CASE Flush \/ UNCHANGED w
    <3>1. w' = w
      BY <2>4 DEF Flush
    <3> QED BY <1>2, <3>1 DEF Inv
  <2> QED BY <1>2, <2>1, <2>2, <2>3, <2>4 DEF Next, Calls
<1> QED BY <1>1, <1>2, PTL DEF Spec

\* OutputAgrees for every behaviour: as long as the writer has accepted no call whose
\* markup does not belong where it stands (an EndElement in an open comment, PI or
\* CDATA section, a StartElement in a DOCTYPE, a StartDocument after other output),
\* and with whatever contents, a parser of the output finds no error, is in the
\* construct the writer's state names, has the elements of elemStack open and has
\* read the text the client wrote.  After such a call they no longer agree.
THEOREM ReaderFollowsWriter == Spec => []OutputAgrees
<1>1. ASSUME Inv PROVE OutputAgrees
  <2>1. SUFFICES ASSUME ~w.astray PROVE
          /\ w.out.mode = ModeOf(w.state)
          /\ w.out.text = w.written
          /\ [i \in DOMAIN w.out.open |-> w.out.open[i].name]
               = [i \in 1 .. Len(w.elems) - (IF w.state \in {"Name", "Attribute"} THEN 1 ELSE 0)
                    |-> w.elems[i].name]
    BY DEF OutputAgrees
  <2>2. Sound(w)
    BY <1>1, <2>1 DEF Inv
  <2>3. w.out.mode = ModeOf(w.state) /\ w.out.text = w.written
    BY <2>2 DEF Sound, InStep
  <2> DEFINE n == Len(w.elems) - (IF w.state \in {"Name", "Attribute"} THEN 1 ELSE 0)
  <2>4. Len(w.out.open) = n /\ \A i \in 1 .. Len(w.out.open) : w.out.open[i].name = w.elems[i].name
    BY <2>2 DEF Sound, Nested, InTag
  <2>5. DOMAIN w.out.open = 1 .. Len(w.out.open)
    BY <2>2, SoundTypes, LenProperties
  <2> HIDE DEF n
  <2>6. [i \in DOMAIN w.out.open |-> w.out.open[i].name] = [i \in 1 .. n |-> w.elems[i].name]
    BY <2>4, <2>5
  <2> QED BY <2>3, <2>6 DEF n
<1> QED BY <1>1, Invariance, PTL

\* ScopesAgree for every behaviour: what declareNS and lookupNS believe of a prefix
\* in an open element is what the declarations in the output say of it there.
THEOREM ScopesAreWritten == Spec => []ScopesAgree
<1>1. ASSUME Inv PROVE ScopesAgree
  <2>1. SUFFICES ASSUME ~w.astray, NEW i \in DOMAIN w.out.open, NEW p \in NSPrefixes
                 PROVE  LET b == Binding(SubSeq(w.ns, 1, i), p)
                        IN  w.out.open[i].binds[p] = IF b = Unset THEN 0 ELSE b
    BY DEF ScopesAgree
  <2>2. Sound(w)
    BY <1>1, <2>1 DEF Inv
  <2>3. /\ w.ns \in Seq(Scope) /\ Len(w.ns) \in Nat
        /\ i \in 1 .. Len(w.out.open) /\ Len(w.out.open) <= Len(w.ns)
    <3>1. i \in 1 .. Len(w.out.open)
      BY <2>2, SoundTypes, LenProperties
    <3>2. w.ns \in Seq(Scope) /\ Len(w.elems) \in Nat /\ Len(w.ns) = Len(w.elems)
      BY <2>2, SoundTypes
    <3>3. Len(w.out.open) = IF InTag(w) THEN Len(w.elems) - 1 ELSE Len(w.elems)
      BY <2>2, SoundTypes
    <3>4. Len(w.out.open) <= Len(w.elems)
      <4>1. CASE InTag(w)
        BY <3>2, <3>3, <4>1
      <4>2. CASE ~InTag(w)
        BY <3>2, <3>3, <4>2
      <4> QED BY <4>1, <4>2
    <3> QED BY <3>1, <3>2, <3>4
  <2>4. i \in 0 .. Len(w.ns)
    BY <2>3
  <2>5. w.out.open[i].binds[p] = InScope(w.ns, i, p)
    BY <2>2, <2>3 DEF Sound, Scoped
  <2>6. LET b == Binding(SubSeq(w.ns, 1, i), p)
        IN  InScope(w.ns, i, p) = IF b = Unset THEN 0 ELSE b
    BY <2>3, <2>4, BindingIs
  <2> QED BY <2>5, <2>6
<1> QED BY <1>1, Invariance, PTL

\* What a refusal may change.
Clean(x, y) ==
    /\ [y EXCEPT !.ret = x.ret, !.xml11 = x.xml11] = x
    /\ y.xml11 # x.xml11 => y.xml11 /\ y = StartDocument(x, "1.1", TRUE, FALSE)

\* RefusalIsClean for every behaviour: a call that is refused, composite calls too,
\* has written nothing and has changed nothing of the writer but the version, which
\* a StartDocument of XML 1.1 has set before it refuses the encoding.
THEOREM RefusedCallsAreClean == Spec => RefusalIsClean
<1>1. ASSUME Inv, [Next]_w PROVE [w'.ret = "refused" => Clean(w, w')]_w
  <2>1. SUFFICES ASSUME w' # w, w'.ret = "refused" PROVE Clean(w, w')
    OBVIOUS
  <2>2. CASE Calls
    <3>1. /\ Sound(w)
          /\ \/ Fine(w, w')
             \/ w' = Refuse(Modern(w)) /\ w' = StartDocument(w, "1.1", TRUE, FALSE)
      BY <1>1, <2>2, CallsAreFine
    <3>2. w \in Writer(w.out)
      BY <3>1 DEF Sound, Control
    <3>3. CASE w' = Refuse(w)
      <4>1. [w' EXCEPT !.ret = w.ret, !.xml11 = w.xml11] = w /\ w'.xml11 = w.xml11
        BY <3>2, <3>3 DEF Refuse, Writer
      <4> QED BY <4>1 DEF Clean
    <3>4. CASE w' = Refuse(Modern(w)) /\ w' = StartDocument(w, "1.1", TRUE, FALSE)
      <4>1. w' = [w EXCEPT !.xml11 = TRUE, !.ret = "refused"]
        BY <3>4 DEF Refuse, Modern
      <4>2. [w' EXCEPT !.ret = w.ret, !.xml11 = w.xml11] = w /\ w'.xml11
        BY <3>2, <4>1 DEF Writer
      <4> QED BY <3>4, <4>2 DEF Clean
    <3> QED BY <2>1, <3>1, <3>3, <3>4 DEF Fine
  <2>3. CASE SeeRefusal
    <3>1. Sound(w) /\ w' = [w EXCEPT !.ret = "ok"]
      BY <1>1, <2>3 DEF SeeRefusal, Inv
    <3>2. w \in Writer(w.out)
      BY <3>1 DEF Sound, Control
    <3>3. w'.ret = "ok"
      BY <3>1, <3>2 DEF Writer
    <3> QED BY <2>1, <3>3
  <2>4. CASE IOError
    <3>1. w'.ret = "failed"
      BY <2>4 DEF IOError, Call, NewWriter
    <3> QED BY <2>1, <3>1
  <2> QED BY <1>1, <2>1, <2>2, <2>3, <2>4 DEF Next, Calls, Flush
<1> QED BY <1>1, Invariance, PTL DEF Spec, RefusalIsClean, Clean
=============================================================================
