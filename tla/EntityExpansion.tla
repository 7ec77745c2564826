-------------------------- MODULE EntityExpansion --------------------------
(***************************************************************************)
(* parser_entity_ref.go and parser_entity_decl.go: what the parser does    *)
(* with the references to general entities in element content.             *)
(*                                                                         *)
(* A reference parses the entity's replacement text in a parser context of *)
(* its own, nested in the one that met the reference, and what that parse  *)
(* built is kept with the entity, to be replayed at the next reference.    *)
(* The state is the stack of contexts, the entities, and the counter that  *)
(* all contexts share.  A step is one item of content; a step changes p as *)
(* a whole, and its parts are operators from a parser to a parser.         *)
(***************************************************************************)
EXTENDS Integers, Sequences, SequencesExt, FiniteSetsExt

CONSTANTS
    Entities,           \* names of general entities
    Inputs,             \* documents, declarations and options (see InputOK)
    MaxElemDepth,       \* Parser.MaxDepth
    MaxNest,            \* the depth of nested contexts, 40
    FixedCost,          \* entityFixedCost
    AllowedExpansion,   \* entityAllowedExpansion
    HardCeiling,        \* entityHardCeiling
    MaxAmpl             \* Parser.MaxEntityAmplification, 0 for no such limit

NoEntity == "none"      \* the context of the document itself

ASSUME BoundsAssumption ==
    /\ MaxElemDepth \in Nat /\ MaxNest \in Nat /\ FixedCost \in Nat
    /\ AllowedExpansion \in Nat /\ HardCeiling \in Nat /\ MaxAmpl \in Nat
    /\ NoEntity \notin Entities /\ IsFiniteSet(Entities)

\* Content: a piece of text, a start tag, an end tag or a reference.
Item == [t : {"text", "start", "end"}, e : {NoEntity}] \cup [t : {"ref"}, e : Entities]
Reference(e) == [t |-> "ref", e |-> e]

\* doc is the content of the document, body an entity's replacement text.
InputOK(in) ==
    /\ in.doc \in Seq(Item)
    /\ in.declared \subseteq Entities /\ in.external \subseteq in.declared
    /\ in.unreadable \subseteq in.external      \* not resolved, or not to be read
    /\ DOMAIN in.body = in.declared /\ \A e \in in.declared : in.body[e] \in Seq(Item)
    /\ in.noEnt \in BOOLEAN         \* SubstituteEntities
    /\ in.dtdValid \in BOOLEAN      \* ValidateDTD
    /\ in.noXXE \in BOOLEAN         \* BlockXXE
    /\ in.lenient \in BOOLEAN       \* an external subset may declare what is missing
    /\ in.tree \in BOOLEAN          \* the handler builds a tree; otherwise it is told
                                    \* the events of nested contexts too

ASSUME InputsAssumption == \A in \in Inputs : InputOK(in)

VARIABLES
    input,      \* the document, its entities and the options of the parser
    p           \* the parser: frames, ents, sizeentcopy, out, status

vars == <<input, p>>

-----------------------------------------------------------------------------
\* A parser context: what it reads, and what hangs below its pseudo root.  turn,
\* was and before belong to the parseReference that opened it.
Context(e, src, depth, elemDepth, turn, was, before) ==
    [e |-> e, src |-> src, pos |-> 1, depth |-> depth, elemDepth |-> elemDepth,
     open |-> 0, built |-> <<>>, turn |-> turn, was |-> was, before |-> before]

Init ==
    /\ input \in Inputs
    /\ p = [frames |-> <<Context(NoEntity, input.doc, 0, 0, "first", FALSE, 0)>>,
            ents |-> [e \in input.declared |->
                        [checked |-> FALSE, expandedSize |-> 0, kids |-> <<>>]],
            sizeentcopy |-> 0,
            out |-> <<>>,
            status |-> "running"]

Top(x) == Last(x.frames)
NextItem(x) == Top(x).src[Top(x).pos]
SetTop(x, f) == [x EXCEPT !.frames = Append(Front(@), f)]
Advance(x) == SetTop(x, [Top(x) EXCEPT !.pos = @ + 1])
Fail(x, why) == [x EXCEPT !.status = why]
Then(x, Op(_)) == IF x.status = "running" THEN Op(x) ELSE x

\* The handler is told items.  A tree builder adds them to the tree of the
\* context; any other handler knows nothing of contexts.
Deliver(x, items) ==
    IF input.tree /\ Len(x.frames) > 1
    THEN SetTop(x, [Top(x) EXCEPT !.built = @ \o items])
    ELSE [x EXCEPT !.out = @ \o items]

-----------------------------------------------------------------------------
(***************************************************************************)
(* The limits on what entities expand to.                                  *)
(***************************************************************************)
entityCheckLimits(x) ==
    IF \/ x.sizeentcopy > HardCeiling
       \/ /\ MaxAmpl # 0 /\ x.sizeentcopy > AllowedExpansion
          /\ x.sizeentcopy \div MaxAmpl > Max({Len(input.doc), 1})
    THEN Fail(x, "limit") ELSE x

\* Mutant: a reference to an entity that was expanded before costs what stands in
\* its declaration.
entityCheckShallow(x, e, size) ==
    entityCheckLimits([x EXCEPT !.sizeentcopy = @ + FixedCost + size])

\* entityCheck: an entity that was expanded before costs what it expanded to.
entityCheck(x, e, size) ==
    LET known == e \in DOMAIN x.ents /\ x.ents[e].checked
    IN  entityCheckLimits([x EXCEPT !.sizeentcopy =
            @ + FixedCost + IF known THEN x.ents[e].expandedSize ELSE size])

entityCheckBytes(x, size) == entityCheckLimits([x EXCEPT !.sizeentcopy = @ + size])

-----------------------------------------------------------------------------
(***************************************************************************)
(* Expansion.                                                              *)
(***************************************************************************)
External(e) == e \in input.external

\* len(ent.content): an external entity has none of its own.
ContentLen(e) == IF External(e) THEN 0 ELSE Len(input.body[e])

\* parseExternalEntityPrivate gives up at once when external entities are blocked.
Blocked(e) == External(e) /\ input.noXXE

\* The text of an external entity is resolved, read whole and charged before it is
\* parsed, every time.
Load(x, e) ==
    CASE ~External(e)             -> x
      [] e \in input.unreadable   -> Fail(x, "unresolved")
      [] OTHER                    -> entityCheckBytes(x, Len(input.body[e]))

\* parseBalancedChunkInternal and parseExternalEntityPrivate, up to parseContent:
\* both count the nesting, in this context and again in the new one.
OpenChunk(x, e, turn, was) ==
    LET f == Top(x)
    IN  IF f.depth + 1 > MaxNest THEN Fail(x, "loop")
        ELSE Then(Load(x, e), LAMBDA y : [y EXCEPT !.frames = Append(@,
               Context(e, input.body[e], f.depth + 2, f.elemDepth, turn, was, x.sizeentcopy))])

\* The deepest element in a sequence of items.
Depth(s, i) ==
    LET count(t) == Cardinality({j \in 1 .. i : s[j].t = t}) IN count("start") - count("end")
Nesting(s) == Max({0} \cup {Depth(s, i) : i \in {j \in DOMAIN s : s[j].t = "start"}})

\* A sequence of items without its references.
Plain(s) ==
    LET upto[k \in 0 .. Len(s)] ==
          IF k = 0 THEN <<>>
          ELSE IF s[k].t = "ref" THEN upto[k - 1] ELSE Append(upto[k - 1], s[k])
    IN  upto[Len(s)]

\* replayEntityNode for all children of the entity, which honours MaxDepth and
\* passes over references.
replayEntityNodes(x, kids) ==
    IF Top(x).elemDepth + Nesting(kids) > MaxElemDepth THEN Fail(x, "depth")
    ELSE Deliver(x, Plain(kids))

\* The end of parseReference: the reference itself, or what stands for it.
Show(x, e) ==
    IF input.noEnt THEN replayEntityNodes(x, x.ents[e].kids) ELSE Deliver(x, <<Reference(e)>>)

\* Mutant: whether the entity was known before is read after its first parse.
ShowOrParseAnyway(x, e, was) ==
    IF x.ents[e].kids = <<>> /\ x.ents[e].checked /\ ~Blocked(e) THEN OpenChunk(x, e, "again", was)
    ELSE Show(x, e)

\* An entity known before and still without children is parsed once more, for the
\* events.
ShowOrParse(x, e, was) ==
    IF x.ents[e].kids = <<>> /\ was /\ ~Blocked(e) THEN OpenChunk(x, e, "again", was)
    ELSE Show(x, e)

\* The first parse is over: its size and its nodes are kept with the entity.
Keep(x, e, before, kids) ==
    [x EXCEPT !.ents[e] = [checked |-> TRUE,
                           expandedSize |-> x.sizeentcopy - before + ContentLen(e),
                           kids |-> IF @.kids = <<>> THEN kids ELSE @.kids]]

\* parseReference for an entity that is declared.
Expand(x, e) ==
    LET was == x.ents[e].checked
        parses == /\ ~was \/ (x.ents[e].kids = <<>> /\ input.noEnt)
                  /\ ~External(e) \/ input.noEnt \/ input.dtdValid
    IN  Then(entityCheck(x, e, ContentLen(e)), LAMBDA y :
          CASE parses /\ ~Blocked(e) -> OpenChunk(y, e, "first", was)
            [] parses /\ Blocked(e)  -> ShowOrParse(Keep(y, e, y.sizeentcopy, <<>>), e, was)
            [] OTHER                 -> ShowOrParse(y, e, was))

\* parseEntityRef without a declaration: an error, unless it may be somewhere else.
Undeclared(x, e) ==
    IF ~input.lenient THEN Fail(x, "undeclared")
    ELSE entityCheck(Deliver(x, <<Reference(e)>>), NoEntity, 0)

\* Mutant: text left over is no error in any entity.
CloseChunkLeftover(x) ==
    LET f == Top(x)
        y == [x EXCEPT !.frames = Front(@)]
        leftover == f.pos <= Len(f.src) /\ f.e = NoEntity
    IN  IF f.open > 0 \/ leftover THEN Fail(x, "unbalanced")
        ELSE IF f.e = NoEntity THEN Fail(x, "done")
        ELSE IF f.turn = "again" THEN Show(y, f.e)
        ELSE ShowOrParse(Keep(y, f.e, f.before, f.built), f.e, f.was)

\* parseContent has come to the end of the text, or to an end tag that closes
\* nothing in it.  An element left open is an error; and so is text left over,
\* except in an external entity.
CloseChunk(x) ==
    LET f == Top(x)
        y == [x EXCEPT !.frames = Front(@)]
        leftover == f.pos <= Len(f.src) /\ ~External(f.e)
    IN  IF f.open > 0 \/ leftover THEN Fail(x, "unbalanced")
        ELSE IF f.e = NoEntity THEN Fail(x, "done")
        ELSE IF f.turn = "again" THEN Show(y, f.e)
        ELSE ShowOrParse(Keep(y, f.e, f.before, f.built), f.e, f.was)

-----------------------------------------------------------------------------
(***************************************************************************)
(* parseContent.                                                           *)
(***************************************************************************)
\* The kind of what comes next; an end tag of an element that was not opened in
\* this text ends it.
Upcoming ==
    IF Top(p).pos > Len(Top(p).src) THEN "nothing"
    ELSE IF NextItem(p).t = "end" /\ Top(p).open = 0 THEN "nothing"
    ELSE NextItem(p).t

Reads(t) == p.status = "running" /\ Upcoming = t /\ UNCHANGED input

ReadText == Reads("text") /\ p' = Advance(Deliver(p, <<NextItem(p)>>))

\* parseElement up to its content.
ReadStart ==
    /\ Reads("start")
    /\ p' = IF Top(p).elemDepth + 1 > MaxElemDepth THEN Fail(p, "depth")
            ELSE LET x == Advance(Deliver(p, <<NextItem(p)>>))
                 IN  SetTop(x, [Top(x) EXCEPT !.elemDepth = @ + 1, !.open = @ + 1])

\* The end of an element of this text.
ReadEnd ==
    /\ Reads("end")
    /\ p' = LET x == Advance(Deliver(p, <<NextItem(p)>>))
            IN  SetTop(x, [Top(x) EXCEPT !.elemDepth = @ - 1, !.open = @ - 1])

ReadReference ==
    /\ Reads("ref")
    /\ p' = LET e == NextItem(p).e
            IN  IF e \in input.declared THEN Expand(Advance(p), e) ELSE Undeclared(Advance(p), e)

EndContent == Reads("nothing") /\ p' = CloseChunk(p)

\* The client cancels its context or stops the parser: parseContent looks before
\* every item, in every context.
Stop == p.status = "running" /\ p' = Fail(p, "stopped") /\ UNCHANGED input

Next == ReadText \/ ReadStart \/ ReadEnd \/ ReadReference \/ EndContent \/ Stop

Spec == Init /\ [][Next]_vars

-----------------------------------------------------------------------------
(***************************************************************************)
(* Properties.                                                             *)
(***************************************************************************)
\* The references that lead the parser into an entity.
Entered(s) ==
    {e \in input.declared : /\ \E i \in DOMAIN s : s[i] = Reference(e)
                            /\ ~External(e) \/ ((input.noEnt \/ input.dtdValid) /\ ~input.noXXE)}

\* The entities entered at all: those in every set that holds the ones the document
\* enters and the ones that its members enter.
Reached ==
    {e \in input.declared : \A S \in SUBSET input.declared :
       Entered(input.doc) \subseteq S /\ (\A f \in S : Entered(input.body[f]) \subseteq S) => e \in S}

\* Some of them are only entered from one another.
Cyclic ==
    \E S \in SUBSET Reached : S # {} /\ \A e \in S : \E f \in S : e \in Entered(input.body[f])

\* What a handler should be told of s, if n levels of entities are expanded: the
\* text of an entity for its reference when entities are substituted, the
\* reference when they are not; a handler of events is then told both.
Told[n \in 0 .. Cardinality(Entities)] ==
    [s \in {input.doc} \cup {input.body[e] : e \in input.declared} |->
       FlattenSeq([i \in DOMAIN s |->
         IF s[i].t # "ref" THEN <<s[i]>>
         ELSE (IF n > 0 /\ s[i].e \in Entered(s) /\ (input.noEnt \/ ~input.tree)
               THEN Told[n - 1][input.body[s[i].e]] ELSE <<>>)
              \o (IF input.noEnt /\ s[i].e \in input.declared THEN <<>> ELSE <<s[i]>>)])]

Right(s) == Told[Cardinality(Entities)][s]

Balanced(s) ==
    Depth(s, Len(s)) = 0 /\ \A i \in DOMAIN s : Depth(s, i) >= 0

\* No entity that is entered reaches itself, and the text of each is balanced.
WellFormed == ~Cyclic /\ \A e \in Reached : Balanced(input.body[e])

\* However often an entity is referred to, from the document or from another
\* entity, and whether it is parsed or replayed, the handler is told its text once
\* for each reference, in its place: no order of references changes the content.
ContentIsRight ==
    WellFormed => /\ IsPrefix(p.out, Right(input.doc))
                  /\ p.status = "done" => p.out = Right(input.doc)

\* What came from entities: all but what the document itself holds so far.
Expanded == Len(Plain(p.out)) - Len(Plain(SubSeq(input.doc, 1, p.frames[1].pos - 1)))

\* The limits mean what they say although the work is done in nested contexts and
\* its result replayed: no element is deeper than MaxDepth wherever its entity was
\* parsed first, and every piece of text that entities added has been charged.
LimitsHold == Nesting(p.out) <= MaxElemDepth /\ Expanded <= p.sizeentcopy

\* What is wrong with an entity is found wherever it is referred to: parseReference
\* lets no document pass that enters an entity from itself (only the nesting of
\* contexts is counted, never the names), or one whose text is not balanced.  This
\* is said of inputs whose external entities have no end tag that closes nothing:
\* parseExternalEntityPrivate accepts one and drops the text behind it.
AcceptedIsWellFormed == p.status = "done" => WellFormed
=============================================================================
