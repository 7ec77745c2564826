---------------------------- MODULE StreamWriter ----------------------------
(***************************************************************************)
(* stream/stream.go: the streaming writer, together with what a parser     *)
(* makes of the text it has written so far.                                *)
(*                                                                         *)
(* An operation takes the writer w, a record of the fields of Writer, and  *)
(* gives the writer after the call; ret says whether the call was refused. *)
(* The output is not kept: every piece of markup or character written is   *)
(* fed to a reader, and w.out is where that reader stands.  Names are their *)
(* prefixes, namespaces are numbers and 0 is no namespace.  Indentation    *)
(* and the DTD's identifiers are left out.                                 *)
(***************************************************************************)
EXTENDS Integers, Sequences, SequencesExt, FiniteSetsExt

CONSTANTS
    NSPrefixes,       \* prefixes of names, "" among them
    URIs,           \* namespaces, positive numbers
    Contents,       \* the contents a client writes: sequences of Char
    Values,         \* those of them it writes as a whole element or attribute
    MaxDepth,       \* bound on the elements open at a time
    MaxContent      \* bound on the characters in one construct

\* The characters that matter: "q" is the quote of attribute values, "ctl" a
\* control character, of XML 1.1 only and there a reference only, "bad" one that
\* XML does not allow at all, "x" any other.
Char == {"-", "?", "]", ">", "<", "q", "x", "ctl", "bad"}
Versions == {"1.0", "1.1"}
BadName == "!"      \* a name or namespace the validate functions refuse
Unset == -1           \* the client asked for no particular namespace

ASSUME InputsAssumption ==
    /\ "" \in NSPrefixes /\ BadName \notin NSPrefixes
    /\ URIs \subseteq Nat \ {0}
    /\ Contents \subseteq Seq(Char) /\ Values \subseteq Contents
ASSUME BoundsAssumption == MaxDepth \in Nat /\ MaxContent \in Nat

VARIABLE w

\* What Op makes of x, applied for every member of s in turn.
Loop(Op(_, _), x, s) ==
    LET after[k \in 0 .. Len(s)] == IF k = 0 THEN x ELSE Op(after[k - 1], s[k])
    IN  after[Len(s)]

-----------------------------------------------------------------------------
(***************************************************************************)
(* The reader of the output: a parser, as the XML standard has it, but one *)
(* that takes fragments too, and so is laxer: it does not count root       *)
(* elements, takes a DOCTYPE after other content, does not compare the     *)
(* attributes of a tag and knows the references of XML 1.1 in any text.    *)
(***************************************************************************)
NoTag == [name |-> "", binds |-> <<>>, uses |-> {}]

\* Where a reader begins; text is the character data of the construct in
\* progress, wrong that a name did not get the namespace it was written for.
FreshReader ==
    [mode |-> "content", open |-> <<>>, tag |-> NoTag, tail |-> 0, text |-> <<>>,
     began |-> FALSE, wrong |-> FALSE]

Broken(r) == [r EXCEPT !.mode = "broken", !.tag = NoTag, !.tail = 0, !.text = <<>>]

Enter(r, mode) == [r EXCEPT !.mode = mode, !.tail = 0, !.began = TRUE]

\* The namespaces in scope inside the innermost open element.
Bound(r) == IF r.open = <<>> THEN [p \in NSPrefixes |-> 0] ELSE Last(r.open).binds

\* The prefix of a name that was written for a certain namespace.
Use(u) == IF u.uri = Unset THEN {} ELSE {[prefix |-> u.name, uri |-> u.uri]}

\* The start tag is complete: its declarations hold for all of its names.
CloseTag(r, empty) ==
    LET tag == r.tag
        binds == [p \in NSPrefixes |-> IF p \in DOMAIN tag.binds THEN tag.binds[p] ELSE Bound(r)[p]]
    IN  [r EXCEPT !.mode = "content",
                  !.tag = NoTag,
                  !.open = IF empty THEN @ ELSE Append(@, [name |-> tag.name, binds |-> binds]),
                  !.wrong = @ \/ \E use \in tag.uses : binds[use.prefix] # use.uri]

\* One character, as it stands in the text.
ReadChar(r, c) ==
    LET more == [r EXCEPT !.text = Append(@, c), !.tail = 0, !.began = TRUE]
        count == [more EXCEPT !.tail = r.tail + 1]
    IN  IF c \in {"ctl", "bad"} THEN Broken(r)
        ELSE CASE r.mode = "content" -> IF c = "<" THEN Broken(r) ELSE more
               [] r.mode = "attr"    -> IF c = "q" THEN [r EXCEPT !.mode = "tag"]
                                        ELSE IF c = "<" THEN Broken(r) ELSE more
               [] r.mode = "comment" -> IF c # "-" THEN more
                                        ELSE IF r.tail = 1 THEN Broken(r) ELSE count
               [] r.mode = "pi"      -> IF c = ">" /\ r.tail = 1 THEN Enter(r, "content")
                                        ELSE IF c = "?" THEN [more EXCEPT !.tail = 1] ELSE more
               [] r.mode = "cdata"   -> IF c = ">" /\ r.tail = 2 THEN Enter(r, "content")
                                        ELSE IF c = "]" THEN [more EXCEPT !.tail = Min({r.tail + 1, 2})]
                                        ELSE more
               [] OTHER              -> Broken(r)

\* A character reference.
TakeIn(r, u) == [r EXCEPT !.text = Append(@, u.c), !.began = TRUE]

OpenTag(r, u) ==
    [Enter(r, "tag") EXCEPT !.tag = [name |-> u.name, binds |-> <<>>, uses |-> Use(u)]]

EndTag(r, u) ==
    IF r.open # <<>> /\ Last(r.open).name = u.name THEN [r EXCEPT !.open = Front(@)]
    ELSE Broken(r)

NameAttribute(r, u) == [Enter(r, "attr") EXCEPT !.tag.uses = @ \cup Use(u)]

\* A namespace declaration: a prefix has one in a tag.
Bind(r, u) ==
    IF u.name \in DOMAIN r.tag.binds THEN Broken(r)
    ELSE [r EXCEPT !.tag.binds = [p \in DOMAIN @ \cup {u.name} |->
                                    IF p = u.name THEN u.uri ELSE @[p]]]

\* Markup that does not belong where it is: mere text in some constructs.
Misread(r, u) ==
    IF r.mode \in {"comment", "pi", "cdata"} THEN [r EXCEPT !.text = Append(@, u.t), !.tail = 0]
    ELSE Broken(r)

\* One piece of markup: what it does depends on where it is read.
Read(r, u) ==
    CASE u.t = "char" -> ReadChar(r, u.c)
      [] u.t = "ref" /\ r.mode \in {"content", "attr"} -> TakeIn(r, u)
      [] u.t = "<?xml" /\ r.mode = "content" /\ ~r.began -> Enter(r, "content")
      [] u.t = "<" /\ r.mode = "content" -> OpenTag(r, u)
      [] u.t = "</" /\ r.mode = "content" -> EndTag(r, u)
      [] u.t = ">" /\ r.mode = "tag" -> CloseTag(r, FALSE)
      [] u.t = "/>" /\ r.mode = "tag" -> CloseTag(r, TRUE)
      [] u.t = "attr=" /\ r.mode = "tag" -> NameAttribute(r, u)
      [] u.t = "xmlns=" /\ r.mode = "tag" -> Bind(r, u)
      [] u.t = "quote" /\ r.mode = "attr" -> Enter(r, "tag")
      [] u.t = "<!--" /\ r.mode = "content" -> Enter(r, "comment")
      [] u.t = "-->" /\ r.mode = "comment" -> IF r.tail = 1 THEN Broken(r) ELSE Enter(r, "content")
      [] u.t = "<?" /\ r.mode = "content" -> Enter(r, "pi")
      [] u.t = "?>" /\ r.mode = "pi" -> Enter(r, "content")
      [] u.t = "<![CDATA[" /\ r.mode = "content" /\ r.open # <<>> -> Enter(r, "cdata")
      [] u.t = "]]>" /\ r.mode = "cdata" -> Enter(r, "content")
      [] u.t = "<!DOCTYPE" /\ r.mode = "content" /\ r.open = <<>> -> Enter(r, "doctype")
      [] u.t = "[" /\ r.mode = "doctype" -> Enter(r, "subset")
      [] u.t = "<!decl>" /\ r.mode = "subset" -> r
      [] u.t = "]" /\ r.mode = "subset" -> Enter(r, "doctype")
      [] u.t = ">" /\ r.mode = "doctype" -> Enter(r, "content")
      [] OTHER -> Misread(r, u)

-----------------------------------------------------------------------------
(***************************************************************************)
(* The writer.                                                             *)
(***************************************************************************)
\* written is history: what the client wrote in the construct in progress; and
\* so is astray: a call was accepted where its markup does not belong.
NewWriter ==
    [state |-> "None", elems |-> <<>>, ns |-> <<>>, stateStack |-> <<>>, err |-> FALSE,
     commentDash |-> FALSE, piQuestion |-> FALSE, cdataBrackets |-> 0, xml11 |-> FALSE,
     out |-> FreshReader, ret |-> "ok", written |-> <<>>, astray |-> FALSE]

XMLVersion(x, v) == [x EXCEPT !.xml11 = v = "1.1"]

Refuse(x) == [x EXCEPT !.ret = "refused"]
Then(x, Op(_)) == IF x.ret = "refused" THEN x ELSE Op(x)

Mark(t) == [t |-> t]
Emit(x, units) == [x EXCEPT !.out = Loop(Read, @, units)]
EmitChars(x, c) == Emit(x, [i \in DOMAIN c |-> [t |-> "char", c |-> c[i]]])

Escaped(x, markup) == IF x.xml11 THEN markup \cup {"ctl"} ELSE markup

\* writeEscaped: characters that would be markup become references.
EmitEscaped(x, c, markup) ==
    Emit(x, [i \in DOMAIN c |->
               [t |-> IF c[i] \in Escaped(x, markup) THEN "ref" ELSE "char", c |-> c[i]]])

\* A construct begins or ends: the text written in it is compared from here on.
NewText(x) == [x EXCEPT !.written = <<>>, !.out.text = <<>>]

\* Comments, instructions and CDATA sections have no references.
Valid(c) == \A i \in DOMAIN c : c[i] \notin {"ctl", "bad"}
ValidContent(x, c) == \A i \in DOMAIN c : c[i] \notin IF x.xml11 THEN {"bad"} ELSE {"ctl", "bad"}

Occurs(c, s) == \E i \in 1 .. Len(c) - Len(s) + 1 : SubSeq(c, i, i + Len(s) - 1) = s
StartsWith(c, ch) == c # <<>> /\ Head(c) = ch
EndsWith(c, ch) == c # <<>> /\ Last(c) = ch

PushState(x, s) == [x EXCEPT !.stateStack = Append(@, x.state), !.state = s]

popState(x, fallback) ==
    IF x.stateStack = <<>> THEN [x EXCEPT !.state = fallback]
    ELSE [x EXCEPT !.state = Last(x.stateStack), !.stateStack = Front(@)]

NotEmpty(x) == IF x.elems = <<>> THEN x ELSE [x EXCEPT !.elems[Len(x.elems)].empty = FALSE]

emitPendingNS(x) ==
    IF x.ns = <<>> THEN x
    ELSE LET scope == Last(x.ns)
             pending == SetToSeq(DOMAIN scope.decls \ scope.emitted)
         IN  Emit([x EXCEPT !.ns[Len(x.ns)].emitted = DOMAIN scope.decls],
                  [i \in DOMAIN pending |->
                     [t |-> "xmlns=", name |-> pending[i], uri |-> scope.decls[pending[i]]]])

closeTagIfOpen(x) ==
    IF x.state # "Name" THEN x
    ELSE NotEmpty([Emit(emitPendingNS(x), <<Mark(">")>>) EXCEPT !.state = "Text"])

\* The URI the scopes give a prefix, Unset if none of them declares it.
Binding(scopes, p) ==
    LET at == {i \in DOMAIN scopes : p \in DOMAIN scopes[i].decls}
    IN  IF at = {} THEN Unset ELSE scopes[Max(at)].decls[p]

lookupNS(x, p, u) == Binding(x.ns, p) = u
hasDefaultNSInScope(x) == Binding(x.ns, "") \notin {Unset, 0}

declareNS(x, p, u) ==
    IF lookupNS(x, p, u) \/ x.ns = <<>> \/ p \in DOMAIN Last(x.ns).decls THEN x
    ELSE [x EXCEPT !.ns[Len(x.ns)].decls = [q \in DOMAIN @ \cup {p} |-> IF q = p THEN u ELSE @[q]]]

nsPrefixConflict(x, p, u) ==
    x.ns # <<>> /\ p \in DOMAIN Last(x.ns).decls /\ Last(x.ns).decls[p] # u

-----------------------------------------------------------------------------
(***************************************************************************)
(* Documents and elements.                                                 *)
(***************************************************************************)
\* Once the version is taken over, the encoding may still be refused.
StartDocument(x, v, ok, encoding) ==
    IF x.state # "None" \/ ~ok THEN Refuse(x)
    ELSE LET y == [x EXCEPT !.xml11 = @ \/ v = "1.1"]
         IN  IF ~encoding THEN Refuse(y)
             ELSE [Emit(y, <<Mark("<?xml")>>) EXCEPT !.state = "Document",
                                                     !.astray = @ \/ x.out.began]

\* The start tag of a name written for namespace u.
OpenElement(x, p, u) ==
    IF p = BadName \/ x.state \notin {"None", "Document", "Text", "DTD", "Name"} THEN Refuse(x)
    ELSE LET y == NewText(NotEmpty(closeTagIfOpen(x)))
         IN  [Emit(y, <<[t |-> "<", name |-> p, uri |-> u]>>) EXCEPT
                !.elems = Append(@, [name |-> p, empty |-> TRUE]),
                !.ns = Append(@, [decls |-> <<>>, emitted |-> {}]),
                !.state = "Name",
                !.astray = @ \/ x.state = "DTD"]

StartElement(x, p) == OpenElement(x, p, Unset)

StartElementNS(x, p, u) ==
    Then(OpenElement(x, p, IF u = 0 /\ p # "" THEN Unset ELSE u),
         LAMBDA y : IF u # 0 THEN declareNS(y, p, u)
                    ELSE IF p = "" /\ hasDefaultNSInScope(y) THEN declareNS(y, "", 0) ELSE y)

EndAttribute(x) ==
    IF x.state # "Attribute" THEN Refuse(x)
    ELSE popState(NewText(Emit(x, <<Mark("quote")>>)), "Name")

\* Inside an open comment, PI or CDATA section the end tag is text.
Misplaced(x) == x.state \in {"Comment", "PI", "PIText", "CDATA"}

PopElement(x) ==
    [x EXCEPT !.elems = Front(@),
              !.ns = IF @ = <<>> THEN @ ELSE Front(@),
              !.state = IF Len(x.elems) > 1 THEN "Text" ELSE "Document",
              !.astray = @ \/ Misplaced(x)]

EndElement(x) ==
    IF x.elems = <<>> THEN Refuse(x)
    ELSE LET y == NewText(IF x.state = "Attribute" THEN EndAttribute(x) ELSE x)
             entry == Last(y.elems)
         IN  IF y.state = "Name" /\ entry.empty
             THEN PopElement(Emit(emitPendingNS(y), <<Mark("/>")>>))
             ELSE PopElement(Emit(closeTagIfOpen(y), <<[t |-> "</", name |-> entry.name]>>))

FullEndElement(x) ==
    IF x.elems = <<>> THEN Refuse(x)
    ELSE LET y == NewText(closeTagIfOpen(IF x.state = "Attribute" THEN EndAttribute(x) ELSE x))
         IN  PopElement(Emit(y, <<[t |-> "</", name |-> Last(y.elems).name]>>))

StartAttributeOf(x, p, u) ==
    IF p = BadName \/ x.state # "Name" THEN Refuse(x)
    ELSE PushState(NewText(Emit(x, <<[t |-> "attr=", name |-> p, uri |-> u]>>)), "Attribute")

StartAttribute(x, p) == StartAttributeOf(x, p, Unset)

\* Mutant: the state is only tested once the namespace has been declared.
StartAttributeNSDeclares(x, p, u) ==
    IF p = BadName THEN Refuse(x)
    ELSE IF u # 0 /\ p # ""
    THEN IF nsPrefixConflict(x, p, u) THEN Refuse(x)
         ELSE StartAttributeOf(declareNS(x, p, u), p, u)
    ELSE StartAttributeOf(x, p, Unset)

StartAttributeNS(x, p, u) ==
    IF p = BadName \/ x.state # "Name" THEN Refuse(x)
    ELSE IF u # 0 /\ p # ""
    THEN IF nsPrefixConflict(x, p, u) THEN Refuse(x)
         ELSE StartAttributeOf(declareNS(x, p, u), p, u)
    ELSE StartAttributeOf(x, p, Unset)

-----------------------------------------------------------------------------
(***************************************************************************)
(* Text, comments, processing instructions, CDATA sections and the DTD.    *)
(***************************************************************************)
Note(x, c) == [x EXCEPT !.written = @ \o c]

\* Mutant: an empty write forgets what the body ended with.
TrailForgets(trail, c, ch) == EndsWith(c, ch)

\* Whether the body ends with ch after c.
Trail(trail, c, ch) == IF c = <<>> THEN trail ELSE EndsWith(c, ch)

\* writeCDATAEscaped: the section is closed and reopened inside "]]>".
writeCDATAEscaped(x, c) ==
    LET step(y, ch) ==
          LET z == IF ch = ">" /\ y.cdataBrackets >= 2
                   THEN Emit(y, <<Mark("]]>"), Mark("<![CDATA[")>>) ELSE y
          IN  [EmitChars(z, <<ch>>) EXCEPT
                 !.cdataBrackets = IF ch = "]" THEN Min({y.cdataBrackets + 1, 2}) ELSE 0]
    IN  Loop(step, x, c)

EscapedStates == {"None", "Name", "Text", "Document", "Attribute"}

WriteString(x, c) ==
    IF ~(IF x.state \in EscapedStates THEN ValidContent(x, c) ELSE Valid(c)) THEN Refuse(x)
    ELSE CASE x.state \in {"None", "Name", "Text", "Document"} ->
                EmitEscaped(Note(NewText(closeTagIfOpen(x)), c), c, {"<", ">"})
           [] x.state = "Attribute" ->
                EmitEscaped(Note(NewText(x), c), c, {"<", ">", "q"})
           [] x.state = "Comment" ->
                IF (x.commentDash /\ StartsWith(c, "-")) \/ Occurs(c, <<"-", "-">>) THEN Refuse(x)
                ELSE [EmitChars(Note(x, c), c) EXCEPT !.commentDash = Trail(@, c, "-")]
           [] x.state \in {"PI", "PIText"} ->
                IF (x.piQuestion /\ StartsWith(c, ">")) \/ Occurs(c, <<"?", ">">>) THEN Refuse(x)
                ELSE [EmitChars(Note(x, c), c) EXCEPT !.piQuestion = Trail(@, c, "?"),
                                                      !.state = "PIText"]
           [] x.state = "CDATA" -> writeCDATAEscaped(Note(x, c), c)
           [] OTHER -> Refuse(x)

\* The caller answers for the content: here a character that is no markup.
WriteRaw(x) ==
    IF x.state \in {"None", "Name", "Text", "Document", "Attribute"}
    THEN EmitChars(Note(NewText(closeTagIfOpen(x)), <<"x">>), <<"x">>)
    ELSE Refuse(x)

Opens(x, states) == x.state \in states \cup {"Name"}

StartComment(x) ==
    IF ~Opens(x, {"None", "Document", "Text"}) THEN Refuse(x)
    ELSE PushState([Emit(NewText(NotEmpty(closeTagIfOpen(x))), <<Mark("<!--")>>) EXCEPT
                      !.commentDash = FALSE], "Comment")

EndComment(x) ==
    IF x.state # "Comment" \/ x.commentDash THEN Refuse(x)
    ELSE popState(NewText(Emit(x, <<Mark("-->")>>)), "Document")

\* The caller puts the space between the target and what it writes after it.
StartPI(x, ok) ==
    IF ~ok \/ ~Opens(x, {"None", "Document", "Text"}) THEN Refuse(x)
    ELSE PushState([Emit(NewText(NotEmpty(closeTagIfOpen(x))), <<Mark("<?")>>) EXCEPT
                      !.piQuestion = FALSE], "PI")

EndPI(x) ==
    IF x.state \notin {"PI", "PIText"} THEN Refuse(x)
    ELSE popState(NewText(Emit(x, <<Mark("?>")>>)), "Document")

StartCDATA(x) ==
    IF ~Opens(x, {"Text"}) THEN Refuse(x)
    ELSE PushState([Emit(NewText(NotEmpty(closeTagIfOpen(x))), <<Mark("<![CDATA[")>>) EXCEPT
                      !.cdataBrackets = 0], "CDATA")

EndCDATA(x) ==
    IF x.state # "CDATA" THEN Refuse(x)
    ELSE popState(NewText(Emit(x, <<Mark("]]>")>>)), "Text")

StartDTD(x, ok) ==
    IF x.state # "Document" \/ ~ok THEN Refuse(x)
    ELSE [NewText(Emit(x, <<Mark("<!DOCTYPE")>>)) EXCEPT !.state = "DTD"]

ensureDTDInternalSubset(x) ==
    IF x.state = "DTD" THEN [Emit(x, <<Mark("[")>>) EXCEPT !.state = "DTDText"] ELSE x

\* WriteDTDElement, WriteDTDAttlist, WriteDTDEntity and the like.
WriteDTDDecl(x, ok) ==
    IF x.state \notin {"DTD", "DTDText"} \/ ~ok THEN Refuse(x)
    ELSE Emit(ensureDTDInternalSubset(x), <<Mark("<!decl>")>>)

EndDTD(x) ==
    IF x.state \notin {"DTD", "DTDText"} THEN Refuse(x)
    ELSE [Emit(x, IF x.state = "DTDText" THEN <<Mark("]"), Mark(">")>> ELSE <<Mark(">")>>)
            EXCEPT !.state = "Document"]

-----------------------------------------------------------------------------
(***************************************************************************)
(* Calls made of other calls.                                              *)
(***************************************************************************)
WriteElement(x, p, c) ==
    IF ~ValidContent(x, c) THEN Refuse(x)
    ELSE Then(Then(StartElement(x, p), LAMBDA y : WriteString(y, c)), EndElement)

WriteElementNS(x, p, u, c) ==
    IF ~ValidContent(x, c) THEN Refuse(x)
    ELSE Then(Then(StartElementNS(x, p, u), LAMBDA y : WriteString(y, c)), EndElement)

WriteAttribute(x, p, c) ==
    IF ~ValidContent(x, c) THEN Refuse(x)
    ELSE Then(Then(StartAttribute(x, p), LAMBDA y : WriteString(y, c)), EndAttribute)

WriteAttributeNS(x, p, u, c) ==
    IF ~ValidContent(x, c) THEN Refuse(x)
    ELSE Then(Then(StartAttributeNS(x, p, u), LAMBDA y : WriteString(y, c)), EndAttribute)

\* Mutant: a dash at the end is left to EndComment.
WriteCommentLate(x, c) ==
    IF ~Valid(c) \/ Occurs(c, <<"-", "-">>) THEN Refuse(x)
    ELSE Then(Then(StartComment(x), LAMBDA y : WriteString(y, c)), EndComment)

WriteComment(x, c) ==
    IF ~Valid(c) \/ Occurs(c, <<"-", "-">>) \/ EndsWith(c, "-") THEN Refuse(x)
    ELSE Then(Then(StartComment(x), LAMBDA y : WriteString(y, c)), EndComment)

WritePI(x, ok, c) ==
    IF ~Valid(c) \/ Occurs(c, <<"?", ">">>) THEN Refuse(x)
    ELSE Then(Then(StartPI(x, ok), LAMBDA y : IF c = <<>> THEN y ELSE WriteString(y, c)), EndPI)

\* One section for everything up to each "]]" that a ">" follows.
WriteCDATA(x, c) ==
    LET ends == {i \in 0 .. Len(c) :
                   i = Len(c) \/ (i > 1 /\ SubSeq(c, i - 1, i + 1) = <<"]", "]", ">">>)}
        part(i) == SubSeq(c, 1 + Max({0} \cup {j \in ends : j < i}), i)
        section(y, i) ==
          IF i \notin ends THEN y
          ELSE Then(Then(Then(y, StartCDATA), LAMBDA z : WriteString(z, part(i))), EndCDATA)
    IN  IF ~Valid(c) THEN Refuse(x)
        ELSE Loop(section, x, [k \in 1 .. Len(c) + 1 |-> k - 1])

\* The caller answers for the subset, which may be missing.
WriteDTD(x, ok, subset) ==
    Then(StartDTD(x, ok),
         LAMBDA y : EndDTD(IF subset THEN Emit(y, <<Mark("["), Mark("<!decl>"), Mark("]")>>)
                           ELSE y))

\* Closes what is open; what the client writes next is another document.
EndDocument(x) ==
    LET y == CASE x.state \in {"PI", "PIText"}   -> EndPI(x)
               [] x.state = "CDATA"              -> EndCDATA(x)
               [] x.state = "Comment"            -> EndComment(x)
               [] x.state \in {"DTD", "DTDText"} -> EndDTD(x)
               [] OTHER                          -> x
        closed == Loop(LAMBDA z, e : EndElement(z), y, y.elems)
    IN  Then(y, LAMBDA z : [NewText(closed) EXCEPT !.state = "None",
                              !.out = [FreshReader EXCEPT !.wrong = closed.out.wrong]])

-----------------------------------------------------------------------------
(***************************************************************************)
(* The client.                                                             *)
(***************************************************************************)
\* With or without the option XMLVersion.
Init == \E v \in Versions : w = XMLVersion(NewWriter, v)

Names == NSPrefixes \cup {BadName}
Short(c) == Len(w.written) + Len(c) <= MaxContent
Room == Len(w.elems) < MaxDepth

\* A call on a writer without sticky error.  A writer gone astray is left there:
\* its state and its output no longer have anything to do with each other.
Call(x) == w.ret = "ok" /\ ~w.astray /\ w' = x

\* The client has seen the refusal and goes on with the writer as it is.
SeeRefusal == w.ret = "refused" /\ w' = [w EXCEPT !.ret = "ok"]

Documents ==
    \/ \E v \in Versions, ok, encoding \in BOOLEAN : Call(StartDocument(w, v, ok, encoding))
    \/ Call(EndDocument(w))

Elements ==
    \/ \E p \in Names : Room /\ Call(StartElement(w, p))
    \/ \E p \in Names, u \in URIs \cup {0} : Room /\ Call(StartElementNS(w, p, u))
    \/ Call(EndElement(w))
    \/ Call(FullEndElement(w))
    \/ \E p \in Names, c \in Values : Room /\ Call(WriteElement(w, p, c))
    \/ \E p \in NSPrefixes, u \in URIs \cup {0}, c \in Values :
         Room /\ Call(WriteElementNS(w, p, u, c))

Attributes ==
    \/ \E p \in Names : Call(StartAttribute(w, p))
    \/ \E p \in Names, u \in URIs \cup {0} : Call(StartAttributeNS(w, p, u))
    \/ Call(EndAttribute(w))
    \/ \E p \in Names, c \in Values : Call(WriteAttribute(w, p, c))
    \/ \E p \in NSPrefixes, u \in URIs \cup {0}, c \in Values :
         Call(WriteAttributeNS(w, p, u, c))

Texts ==
    \/ \E c \in Contents : Short(c) /\ Call(WriteString(w, c))
    \/ Short(<<"x">>) /\ Call(WriteRaw(w))
    \/ Call(StartComment(w))
    \/ Call(EndComment(w))
    \/ \E c \in Contents : Call(WriteComment(w, c))
    \/ \E ok \in BOOLEAN : Call(StartPI(w, ok))
    \/ Call(EndPI(w))
    \/ \E ok \in BOOLEAN, c \in Contents : Call(WritePI(w, ok, c))
    \/ Call(StartCDATA(w))
    \/ Call(EndCDATA(w))
    \/ \E c \in Contents : Call(WriteCDATA(w, c))

DTDs ==
    \/ \E ok \in BOOLEAN : Call(StartDTD(w, ok))
    \/ \E ok \in BOOLEAN : Call(WriteDTDDecl(w, ok))
    \/ Call(EndDTD(w))
    \/ \E ok, subset \in BOOLEAN : Call(WriteDTD(w, ok, subset))

\* A write to the underlying writer, or its Flush, fails in some call.  The
\* error sticks: no later call writes or changes anything, so that what the other
\* fields hold is of no consequence.
IOError == Call([NewWriter EXCEPT !.err = TRUE, !.ret = "failed"])
Flush == UNCHANGED w

Next == SeeRefusal \/ Documents \/ Elements \/ Attributes \/ Texts \/ DTDs \/ IOError \/ Flush

Spec == Init /\ [][Next]_w

-----------------------------------------------------------------------------
(***************************************************************************)
(* Properties.                                                             *)
(***************************************************************************)
\* Where the reader has to stand for each state of the writer.
ModeOf(state) ==
    CASE state \in {"None", "Document", "Text"} -> "content"
      [] state = "Name"                         -> "tag"
      [] state = "Attribute"                    -> "attr"
      [] state = "Comment"                      -> "comment"
      [] state \in {"PI", "PIText"}             -> "pi"
      [] state = "CDATA"                        -> "cdata"
      [] state = "DTD"                          -> "doctype"
      [] OTHER                                  -> "subset"       \* DTDText

\* A parser of the output stands where the writer thinks it does: it found no
\* syntax error, it is in the construct the state names, the elements it has
\* open are those of elemStack, and the text it read in the construct is the
\* text the client wrote, however the client cut it into writes.
OutputAgrees ==
    ~w.astray =>
        /\ w.out.mode = ModeOf(w.state)
        /\ w.out.text = w.written
        /\ [i \in DOMAIN w.out.open |-> w.out.open[i].name]
             = [i \in 1 .. Len(w.elems) - (IF w.state \in {"Name", "Attribute"} THEN 1 ELSE 0)
                  |-> w.elems[i].name]

\* What the scopes of nsStack say of a prefix is what the output says of it, in
\* every open element: no declaration is skipped because of one that was never
\* written or is no longer in scope.
ScopesAgree ==
    ~w.astray => \A i \in DOMAIN w.out.open : \A p \in NSPrefixes :
        LET b == Binding(SubSeq(w.ns, 1, i), p)
        IN  w.out.open[i].binds[p] = IF b = Unset THEN 0 ELSE b

\* "... so a rejected write leaves the writer unmutated", also when the call is
\* made of several others.  The one thing a refused call may leave behind is the
\* version, when StartDocument goes on to refuse the encoding: the writer then
\* takes the contents of XML 1.1 for good.
RefusalIsClean ==
    [][w'.ret = "refused" =>
         /\ [w' EXCEPT !.ret = w.ret, !.xml11 = w.xml11] = w
         /\ w'.xml11 # w.xml11 =>
              w'.xml11 /\ w' = StartDocument(w, "1.1", TRUE, FALSE)]_w

\* An element or attribute written for a namespace is in that namespace in the
\* output: "producing an attribute whose prefix resolves to the wrong namespace"
\* is what nsPrefixConflict is there to prevent.
NamesResolve == ~w.astray => ~w.out.wrong
=============================================================================
