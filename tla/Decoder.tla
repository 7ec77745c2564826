------------------------------- MODULE Decoder -------------------------------
(***************************************************************************)
(* shim/decoder.go: a pull Decoder on top of the push-style SAX parser.  A *)
(* goroutine parses and sends one event per SAX callback to a buffered     *)
(* channel; Token takes events, merges runs of character data with one     *)
(* event of lookahead, and Skip, Decode and DecodeElement drive Token in   *)
(* loops.  Close, or the caller's context, cancels the goroutine.  A       *)
(* Decoder may instead stand on a client's TokenReader, without goroutine. *)
(*                                                                         *)
(* The text of tokens is left out: an event is its position in the         *)
(* document, a token the interval of the events merged into it.            *)
(***************************************************************************)
EXTENDS Integers, Sequences, FiniteSets

CONSTANTS
    Inputs,         \* the documents and TokenReaders, records as in InputOK
    Prefixes,       \* namespace prefixes
    Cap,            \* the buffer of the events channel (64)
    MaxNesting,     \* maxNestingDepth
    MaxNoProgress   \* maxNoProgress

\* The kinds of tokens.  "decl" is an XML declaration, "bom" a byte-order mark
\* before it; the odd ones come only from a TokenReader: a start tag whose name
\* the tree refuses and an end tag that matches no start.  "nothing" is the
\* TokenReader's (nil, nil), which it may go on answering for ever.
Kind == {"start", "end", "text", "cdata", "misc", "decl", "bom",
         "oddStart", "oddEnd", "nothing"}
ParserKind == {"start", "end", "text", "cdata", "misc"}

IsStart(k) == k \in {"start", "oddStart"}
IsEnd(k) == k \in {"end", "oddEnd"}

\* Elements opened minus elements closed by the items i .. j.
Level(items, i, j) ==
    Cardinality({k \in i .. j : IsStart(items[k].kind)})
      - Cardinality({k \in i .. j : IsEnd(items[k].kind)})

\* What a decoder is made on: items it will meet, each with the namespaces a
\* start tag declares (URI 0: none), and how the input ends.  The parser calls
\* back for an end tag only when an element is open.
InputOK(in) ==
    /\ in.kind \in {"reader", "tokens"}
    /\ \A i \in DOMAIN in.items :
         /\ in.items[i].kind \in (IF in.kind = "reader" THEN ParserKind ELSE Kind)
         /\ in.items[i].decl \in [Prefixes -> Nat]
         /\ in.kind = "reader" => Level(in.items, 1, i) >= 0
    /\ in.ends \in {"EOF", "syntax"}        \* how the input ends
    /\ in.early \in BOOLEAN                 \* the end comes with the last token
    /\ in.prolog \in Seq({"misc", "badDecl"})   \* what scanProlog found
    /\ in.prologErr \in BOOLEAN             \* scanProlog met a syntax error
    /\ in.prologOnly \in BOOLEAN            \* and no root element: nothing to parse
    /\ in.prologOnly => in.ends = "EOF"
    /\ in.starts \in BOOLEAN                \* the charset policy accepts the input

ASSUME InputsAssumption ==
    \A in \in Inputs : in.items \in Seq([kind : Kind, decl : [Prefixes -> Nat]]) /\ InputOK(in)
ASSUME BoundsAssumption ==
    Cap \in Nat \ {0} /\ MaxNesting \in Nat \ {0} /\ MaxNoProgress \in Nat \ {0}

VARIABLES
    input,      \* the document or the TokenReader
    done,       \* the decoder's context is cancelled
    pp,         \* control point of the parse goroutine
    pos,        \* events it has sent, or items the TokenReader has given
    perr,       \* the error ParseReader returned
    nsScope,    \* in-scope namespaces: [Prefixes -> URI], 0 if unbound
    nsPrev,     \* nsScopePrevStack: what each open element's declarations hid
    events,     \* the channel: "nil", "open" or "closed"
    buf,        \* its buffered events
    saxStarted, prologIdx, prologErr, pending, savedErr, sawContent, lastToken,
    nestDepth,  \* fields of Decoder of the same names (pending: pendingEvent)
    call,       \* the client's call in progress
    pc,         \* where readToken is, "idle" between calls
    acc,        \* the run mergeCharData is building: an interval of events
    depth,      \* Skip's depth, or the number of populateElement frames
    tries,      \* the (nil, nil) answers driveToken has counted
    result,     \* what the last call returned
    out,        \* history: the tokens readToken returned, prolog left out
    base,       \* history: the start tag in out that the loop in progress is for
    reported    \* history: a call has returned an error that is not an end of file

parseVars == <<pp, pos, perr, nsScope, nsPrev>>
fieldVars == <<saxStarted, prologIdx, prologErr, savedErr, sawContent>>
loopVars == <<call, depth, tries, nestDepth>>
vars == <<input, done, parseVars, events, buf, fieldVars, pending, lastToken, loopVars,
          pc, acc, result, out, base, reported>>

Item(i) == input.items[i]
Total == Len(input.items)

\* A construct of the document, or the error that ended the parse.
Event == [at : 1 .. Total, err : {"nil"}] \cup [at : {0}, err : {"syntax", "ctx"}]
Run == [from : 1 .. Total, to : 1 .. Total]
NoRun == [from |-> 0, to |-> 0]
Errors == {"EOF", "syntax", "ctx", "UnexpectedEOF", "NoProgress", "depth", "refused",
           "charset", "mismatch", "notAtStart"}

TypeOK ==
    /\ input \in Inputs
    /\ done \in BOOLEAN
    /\ pp \in {"off", "parse", "push", "fail", "closing", "exit"}
    /\ pos \in 0 .. Total
    /\ perr \in {"nil", "syntax", "ctx"}
    /\ nsScope \in [Prefixes -> Nat]
    /\ \A k \in DOMAIN nsPrev : /\ DOMAIN nsPrev[k] \subseteq Prefixes
                              /\ \A q \in DOMAIN nsPrev[k] : nsPrev[k][q] \in Nat
    /\ events \in {"nil", "open", "closed"}
    /\ buf \in Seq(Event) /\ Len(buf) <= Cap
    /\ pending \in Seq(Event) /\ Len(pending) <= 1
    /\ prologIdx \in 0 .. Len(input.prolog)
    /\ {saxStarted, prologErr, sawContent} \subseteq BOOLEAN
    /\ savedErr \in {"nil", "EOF", "syntax"}
    /\ lastToken \in Kind \cup {"none"}
    /\ call \in {"none", "Token", "Skip", "Seek", "Populate"}
    /\ pc \in {"idle", "read", "recv", "merge"} /\ (pc = "idle" <=> call = "none")
    /\ acc \in (IF pc = "merge" THEN Run ELSE {NoRun})
    /\ depth \in Nat /\ tries \in 0 .. MaxNoProgress - 1 /\ nestDepth \in Nat
    /\ result \in {"none", "nil", "token", "nothing"} \cup Errors
    /\ out \in Seq(Run) /\ base \in 0 .. Len(out) /\ reported \in BOOLEAN

Init ==
    /\ input \in Inputs
    /\ done = FALSE
    /\ pp = "off" /\ pos = 0 /\ perr = "nil"
    /\ nsScope = [p \in Prefixes |-> 0] /\ nsPrev = <<>>
    /\ events = "nil" /\ buf = <<>>
    /\ saxStarted = FALSE /\ prologIdx = 0 /\ prologErr = input.prologErr
    /\ pending = <<>> /\ savedErr = "nil" /\ sawContent = FALSE
    /\ lastToken = "none" /\ nestDepth = 0
    /\ call = "none" /\ pc = "idle" /\ acc = NoRun
    /\ depth = 0 /\ tries = 0
    /\ result = "none" /\ out = <<>> /\ base = 0 /\ reported = FALSE

clientVars == <<fieldVars, pending, lastToken, loopVars, pc, acc, result, out, base, reported>>

\* Close, or the cancellation of the context given to NewDecoder.
Close ==
    /\ ~done /\ input.kind = "reader"
    /\ done' = TRUE
    /\ UNCHANGED <<input, parseVars, events, buf, clientVars>>

-----------------------------------------------------------------------------
(***************************************************************************)
(* The parse goroutine.                                                    *)
(***************************************************************************)
\* The prefixes a start tag declares, and what nsScope holds for them.
Declares(i) == {p \in Prefixes : Item(i).decl[p] # 0}

\* Mutant: the declarations of an element stay in scope after its end.
PopNamespacesNot == nsPrev' = SubSeq(nsPrev, 1, Len(nsPrev) - 1) /\ UNCHANGED nsScope

PushNamespaces(i) ==
    /\ nsPrev' = Append(nsPrev, [p \in Declares(i) |-> nsScope[p]])
    /\ nsScope' = [p \in Prefixes |-> IF p \in Declares(i) THEN Item(i).decl[p] ELSE nsScope[p]]

PopNamespaces ==
    LET hidden == nsPrev[Len(nsPrev)]
    IN  /\ nsPrev' = SubSeq(nsPrev, 1, Len(nsPrev) - 1)
        /\ nsScope' = [p \in Prefixes |-> IF p \in DOMAIN hidden THEN hidden[p] ELSE nsScope[p]]

\* The parser reaches its next construct and calls back.
Callback ==
    /\ pp = "parse" /\ pos < Total
    /\ pp' = "push"
    /\ CASE Item(pos + 1).kind = "start" -> PushNamespaces(pos + 1)
         [] Item(pos + 1).kind = "end"   -> PopNamespaces
         [] OTHER                        -> UNCHANGED <<nsScope, nsPrev>>
    /\ UNCHANGED <<input, done, pos, perr, events, buf, clientVars>>

\* push: the event is sent when there is room.
PushSend ==
    /\ pp = "push" /\ Len(buf) < Cap
    /\ buf' = Append(buf, [at |-> pos + 1, err |-> "nil"])
    /\ pos' = pos + 1
    /\ pp' = "parse"
    /\ UNCHANGED <<input, done, perr, nsScope, nsPrev, events, clientVars>>

\* Mutant: push does not listen to done.
ParseCancelledByParser ==
    /\ done /\ pp = "parse"
    /\ pp' = "fail" /\ perr' = "ctx"
    /\ UNCHANGED <<input, done, pos, nsScope, nsPrev, events, buf, clientVars>>

\* push returns the context's error, or the parser itself looks at its context.
ParseCancelled ==
    /\ done /\ pp \in {"parse", "push"}
    /\ pp' = "fail" /\ perr' = "ctx"
    /\ UNCHANGED <<input, done, pos, nsScope, nsPrev, events, buf, clientVars>>

\* Mutant: a syntax error ends the stream of events like the end of the document.
ParseEndSilent ==
    /\ pp = "parse" /\ pos = Total
    /\ pp' = "closing"
    /\ UNCHANGED <<input, done, pos, perr, nsScope, nsPrev, events, buf, clientVars>>

\* ParseReader returns at the end of the document or at a syntax error.
ParseEnd ==
    /\ pp = "parse" /\ pos = Total
    /\ IF input.ends = "EOF"
       THEN pp' = "closing" /\ UNCHANGED perr
       ELSE pp' = "fail" /\ perr' = "syntax"
    /\ UNCHANGED <<input, done, pos, nsScope, nsPrev, events, buf, clientVars>>

\* The error is sent when there is room ...
FailSend ==
    /\ pp = "fail" /\ Len(buf) < Cap
    /\ buf' = Append(buf, [at |-> 0, err |-> perr])
    /\ pp' = "closing"
    /\ UNCHANGED <<input, done, pos, perr, nsScope, nsPrev, events, clientVars>>

\* ... or dropped when the context is cancelled.
FailDropped ==
    /\ pp = "fail" /\ done
    /\ pp' = "closing"
    /\ UNCHANGED <<input, done, pos, perr, nsScope, nsPrev, events, buf, clientVars>>

\* The deferred close(d.events).
CloseEvents ==
    /\ pp = "closing"
    /\ events' = "closed"
    /\ pp' = "exit"
    /\ UNCHANGED <<input, done, pos, perr, nsScope, nsPrev, buf, clientVars>>

ParseGoroutine ==
    \/ Callback \/ PushSend \/ ParseCancelled \/ ParseEnd
    \/ FailSend \/ FailDropped \/ CloseEvents

-----------------------------------------------------------------------------
(***************************************************************************)
(* What a call does with what readToken gave it.                           *)
(***************************************************************************)
\* The call returns; the deferred decrements of the populateElement frames run.
Return(r, nested) ==
    /\ pc' = "idle" /\ call' = "none"
    /\ depth' = 0 /\ tries' = 0
    /\ nestDepth' = nested - IF call = "Populate" THEN depth ELSE 0
    /\ result' = r
    /\ reported' = (reported \/ r \in Errors \ {"EOF", "UnexpectedEOF"})
    /\ UNCHANGED base

\* The loop goes on with another driveToken.
Continue(c, d) ==
    /\ pc' = "read" /\ call' = c
    /\ depth' = d /\ tries' = 0
    /\ nestDepth' = nestDepth + IF c = "Populate" THEN d - depth ELSE 0
    /\ UNCHANGED <<result, reported>>

\* readToken has an error.  populateElement takes an end of file for too early.
Refuse(e) ==
    Return(IF e = "EOF" /\ call = "Populate" THEN "UnexpectedEOF" ELSE e, nestDepth)

\* populateElement: the counter goes up before the limit is tested, and the
\* decrement is deferred after it.
EnterElement ==
    IF nestDepth + 1 > MaxNesting
    THEN Return("depth", nestDepth + 1)
    ELSE Continue("Populate", depth + 1) /\ base' = IF depth = 0 THEN Len(out') ELSE base

\* Mutant: Skip stops at the first end tag.
SkipTakesFirst(k) ==
    IF IsEnd(k) THEN Return("nil", nestDepth) ELSE Continue("Skip", depth) /\ UNCHANGED base

\* Skip counts the tags until the element it stands in is closed.
SkipTakes(k) ==
    LET d == depth + (IF IsStart(k) THEN 1 ELSE 0) - (IF IsEnd(k) THEN 1 ELSE 0)
    IN  IF d = 0 THEN Return("nil", nestDepth) ELSE Continue("Skip", d) /\ UNCHANGED base

\* Decode looks for a start tag; buildElementFromTokens may refuse its name.
SeekTakes(k) ==
    CASE k = "start"    -> EnterElement
      [] k = "oddStart" -> Return("refused", nestDepth)
      [] OTHER          -> Continue("Seek", 0) /\ UNCHANGED base

\* populateElement's switch; the last frame returns from the call.
PopulateTakes(k) ==
    CASE k = "start"    -> EnterElement
      [] k = "oddStart" -> Return("refused", nestDepth)
      [] k = "oddEnd"   -> Return("mismatch", nestDepth)
      [] k = "end"      -> IF depth = 1 THEN Return("nil", nestDepth)
                           ELSE Continue("Populate", depth - 1) /\ UNCHANGED base
      [] OTHER          -> Continue("Populate", depth) /\ UNCHANGED base

Take(k) ==
    CASE call = "Token"    -> Return("token", nestDepth)
      [] call = "Skip"     -> SkipTakes(k)
      [] call = "Seek"     -> SeekTakes(k)
      [] OTHER             -> PopulateTakes(k)

\* Mutant: the bound is tested after one answer too many.
TakeNothingLate ==
    CASE call = "Token" -> Return("nothing", nestDepth)
      [] call # "Token" /\ tries = MaxNoProgress -> Return("NoProgress", nestDepth)
      [] OTHER -> /\ tries' = tries + 1
                  /\ UNCHANGED <<pc, call, depth, nestDepth, result, base, reported>>

\* (nil, nil): Token hands it on, driveToken tries again a bounded number of times.
TakeNothing ==
    CASE call = "Token" -> Return("nothing", nestDepth)
      [] call # "Token" /\ tries + 1 = MaxNoProgress -> Return("NoProgress", nestDepth)
      [] OTHER -> /\ tries' = tries + 1
                  /\ UNCHANGED <<pc, call, depth, nestDepth, result, base, reported>>

\* readToken returns the events from .. to as one token.
Deliver(from, to) ==
    /\ out' = Append(out, [from |-> from, to |-> to])
    /\ lastToken' = Item(from).kind
    /\ Take(Item(from).kind)

-----------------------------------------------------------------------------
(***************************************************************************)
(* readToken on a document.                                                *)
(***************************************************************************)
readerVars == <<input, done, parseVars>>

\* A token of the prolog; a declaration that checkXMLDecl refuses is an error.
ReadProlog ==
    /\ pc = "read" /\ prologIdx < Len(input.prolog)
    /\ prologIdx' = prologIdx + 1
    /\ lastToken' = "misc"
    /\ IF input.prolog[prologIdx + 1] = "badDecl" THEN Refuse("charset") ELSE Take("misc")
    /\ UNCHANGED <<readerVars, events, buf, saxStarted, prologErr, savedErr, sawContent,
                   pending, acc, out>>

\* The scanner's syntax error, once.
ReadPrologErr ==
    /\ pc = "read" /\ prologIdx = Len(input.prolog) /\ prologErr
    /\ prologErr' = FALSE
    /\ Refuse("syntax")
    /\ UNCHANGED <<readerVars, events, buf, saxStarted, prologIdx, savedErr, sawContent,
                   pending, lastToken, acc, out>>

PrologOver == prologIdx = Len(input.prolog) /\ ~prologErr

\* The lazy start: a closed channel, an error of the charset policy, or the
\* channel and its goroutine.
StartClosed ==
    /\ pc = "read" /\ PrologOver /\ input.kind = "reader" /\ ~saxStarted
    /\ input.prologOnly \/ input.prologErr
    /\ saxStarted' = TRUE
    /\ events' = "closed" /\ pc' = "recv"
    /\ UNCHANGED <<readerVars, buf, prologIdx, prologErr, savedErr, sawContent, pending,
                   lastToken, loopVars, acc, result, out, base, reported>>

StartRefused ==
    /\ pc = "read" /\ PrologOver /\ input.kind = "reader" /\ ~saxStarted
    /\ ~(input.prologOnly \/ input.prologErr) /\ ~input.starts
    /\ saxStarted' = TRUE
    /\ Refuse("charset")
    /\ UNCHANGED <<readerVars, events, buf, prologIdx, prologErr, savedErr, sawContent,
                   pending, lastToken, acc, out>>

StartSAX ==
    /\ pc = "read" /\ PrologOver /\ input.kind = "reader" /\ ~saxStarted
    /\ ~(input.prologOnly \/ input.prologErr) /\ input.starts
    /\ saxStarted' = TRUE
    /\ events' = "open" /\ pp' = "parse" /\ pc' = "recv"
    /\ UNCHANGED <<input, done, pos, perr, nsScope, nsPrev, buf, prologIdx, prologErr,
                   savedErr, sawContent, pending, lastToken, loopVars, acc, result, out,
                   base, reported>>

ReadOn ==
    /\ pc = "read" /\ PrologOver /\ saxStarted
    /\ pc' = "recv"
    /\ UNCHANGED <<readerVars, events, buf, fieldVars, pending, lastToken, loopVars, acc,
                   result, out, base, reported>>

IsText(e) == e.err = "nil" /\ Item(e.at).kind = "text"

\* An event from nextEvent: an error, a token, or the start of a run of text.
TakeEvent(e) ==
    CASE e.err # "nil" -> Refuse(e.err) /\ UNCHANGED <<lastToken, acc, out>>
      [] IsText(e) ->
           /\ acc' = [from |-> e.at, to |-> e.at]
           /\ pc' = "merge"
           /\ UNCHANGED <<lastToken, loopVars, result, out, base, reported>>
      [] OTHER -> Deliver(e.at, e.at) /\ UNCHANGED acc

\* Mutant: the channel is read before the lookahead.
NextEventSkipsPending ==
    /\ pc = "recv"
    /\ \/ /\ buf # <<>>
          /\ TakeEvent(Head(buf))
          /\ buf' = Tail(buf) /\ UNCHANGED pending
       \/ /\ buf = <<>> /\ pending # <<>>
          /\ TakeEvent(pending[1])
          /\ pending' = <<>> /\ UNCHANGED buf
    /\ UNCHANGED <<readerVars, events, fieldVars>>

NextEvent ==
    /\ pc = "recv"
    /\ \/ /\ pending # <<>>
          /\ TakeEvent(pending[1])
          /\ pending' = <<>> /\ UNCHANGED buf
       \/ /\ pending = <<>> /\ buf # <<>>
          /\ TakeEvent(Head(buf))
          /\ buf' = Tail(buf) /\ UNCHANGED pending
    /\ UNCHANGED <<readerVars, events, fieldVars>>

\* The channel is closed and drained.
NextEventEOF ==
    /\ pc = "recv" /\ pending = <<>> /\ buf = <<>> /\ events = "closed"
    /\ Refuse("EOF")
    /\ UNCHANGED <<readerVars, events, buf, fieldVars, pending, lastToken, acc, out>>

\* mergeCharData: the run grows over text, and ends before an event that is
\* kept for the next call ...
MergeMore ==
    /\ pc = "merge" /\ buf # <<>>
    /\ IsText(Head(buf))
    /\ acc' = [acc EXCEPT !.to = Head(buf).at]
    /\ buf' = Tail(buf)
    /\ UNCHANGED <<readerVars, events, fieldVars, pending, lastToken, loopVars, pc, result,
                   out, base, reported>>

MergeStop ==
    /\ pc = "merge" /\ buf # <<>>
    /\ ~IsText(Head(buf))
    /\ pending' = <<Head(buf)>>
    /\ buf' = Tail(buf)
    /\ Deliver(acc.from, acc.to) /\ acc' = NoRun
    /\ UNCHANGED <<readerVars, events, fieldVars>>

\* ... or with the channel.
MergeEOF ==
    /\ pc = "merge" /\ buf = <<>> /\ events = "closed"
    /\ Deliver(acc.from, acc.to) /\ acc' = NoRun
    /\ UNCHANGED <<readerVars, events, buf, fieldVars, pending>>

-----------------------------------------------------------------------------
(***************************************************************************)
(* readToken on a TokenReader.                                             *)
(***************************************************************************)
tokenVars == <<input, done, pp, perr, nsScope, nsPrev, events, buf, saxStarted, prologIdx,
               prologErr, pending, acc>>

ReadSaved ==
    /\ pc = "read" /\ input.kind = "tokens" /\ savedErr # "nil"
    /\ savedErr' = "nil"
    /\ Refuse(savedErr)
    /\ UNCHANGED <<tokenVars, pos, sawContent, lastToken, out>>

ReadEnd ==
    /\ pc = "read" /\ input.kind = "tokens" /\ savedErr = "nil" /\ pos = Total
    /\ Refuse(input.ends)
    /\ UNCHANGED <<tokenVars, pos, savedErr, sawContent, lastToken, out>>

\* (nil, nil), now and perhaps for ever.
ReadNothing ==
    /\ pc = "read" /\ input.kind = "tokens" /\ savedErr = "nil" /\ pos < Total
    /\ Item(pos + 1).kind = "nothing"
    /\ pos' \in {pos, pos + 1}
    /\ TakeNothing
    /\ UNCHANGED <<tokenVars, savedErr, sawContent, lastToken, out>>

\* A token, perhaps together with the error that follows it.  A declaration
\* after content is refused, and is gone.
ReadToken ==
    /\ pc = "read" /\ input.kind = "tokens" /\ savedErr = "nil" /\ pos < Total
    /\ Item(pos + 1).kind # "nothing"
    /\ pos' = pos + 1
    /\ savedErr' = IF input.early /\ pos + 1 = Total THEN input.ends ELSE "nil"
    /\ IF Item(pos + 1).kind = "decl" /\ sawContent
       THEN Refuse("notAtStart") /\ UNCHANGED <<sawContent, lastToken, out>>
       ELSE /\ sawContent' = (sawContent \/ Item(pos + 1).kind # "bom")
            /\ Deliver(pos + 1, pos + 1)
    /\ UNCHANGED tokenVars

-----------------------------------------------------------------------------
(***************************************************************************)
(* The client's calls.                                                     *)
(***************************************************************************)
Call(c, d) ==
    /\ pc = "idle"
    /\ pc' = "read" /\ call' = c /\ depth' = d
    /\ UNCHANGED <<readerVars, events, buf, fieldVars, pending, lastToken, tries, acc,
                   result, out, reported>>

\* Token and RawToken.
CallToken == Call("Token", 0) /\ UNCHANGED <<nestDepth, base>>

\* Skip returns at once unless it stands on a start tag.
CallSkip ==
    /\ IsStart(lastToken)
    /\ Call("Skip", 1)
    /\ base' = Len(out)
    /\ UNCHANGED nestDepth

CallDecode == Call("Seek", 0) /\ UNCHANGED <<nestDepth, base>>

\* DecodeElement with the start tag that Token has just returned.
CallDecodeElement ==
    /\ lastToken = "start" /\ result = "token" /\ nestDepth < MaxNesting
    /\ Call("Populate", 1)
    /\ nestDepth' = nestDepth + 1
    /\ base' = Len(out)

\* A counter that earlier refusals have left too high refuses this call too.
DecodeElementTooDeep ==
    /\ pc = "idle" /\ lastToken = "start" /\ result = "token" /\ nestDepth >= MaxNesting
    /\ nestDepth' = nestDepth + 1
    /\ result' = "depth" /\ reported' = TRUE
    /\ UNCHANGED <<readerVars, events, buf, fieldVars, pending, lastToken, call, depth, tries,
                   pc, acc, out, base>>

Client == CallToken \/ CallSkip \/ CallDecode \/ CallDecodeElement \/ DecodeElementTooDeep

ReadStep ==
    \/ ReadProlog \/ ReadPrologErr \/ StartClosed \/ StartRefused \/ StartSAX \/ ReadOn
    \/ NextEvent \/ NextEventEOF \/ MergeMore \/ MergeStop \/ MergeEOF
    \/ ReadSaved \/ ReadEnd \/ ReadNothing \/ ReadToken

Next == Close \/ ParseGoroutine \/ Client \/ ReadStep

Spec == Init /\ [][Next]_vars

(***************************************************************************)
(* Fairness: both goroutines run when they can, and what they read from    *)
(* (the document, the TokenReader) answers.  Nothing makes the client call *)
(* or cancel.                                                              *)
(***************************************************************************)
LiveSpec == Spec /\ WF_vars(ParseGoroutine) /\ WF_vars(ReadStep)

-----------------------------------------------------------------------------
(***************************************************************************)
(* Properties.                                                             *)
(***************************************************************************)
Consumed == IF out = <<>> THEN 0 ELSE out[Len(out)].to

\* The last event that is in a token or in the run being merged, and the events
\* that have left the parser since.
Arrived == IF pc = "merge" THEN acc.to ELSE Consumed
InTransit == pending \o buf

\* Every event the parser sent is in exactly one token or still in transit, in
\* document order and with an error only behind all of them, whatever is merged,
\* looked ahead at or cancelled; tokens are single events or whole runs of
\* character data, and two neighbouring tokens are never two halves of one run.
TokensInOrder == input.kind = "reader" =>
    /\ \A k \in DOMAIN out :
         /\ out[k].from = (IF k = 1 THEN 1 ELSE out[k - 1].to + 1)
         /\ out[k].from = out[k].to
              \/ \A i \in out[k].from .. out[k].to : Item(i).kind = "text"
         /\ k > 1 /\ Item(out[k].from).kind = "text" => Item(out[k - 1].to).kind # "text"
    /\ pc = "merge" => acc.from = Consumed + 1
    /\ \A i \in DOMAIN InTransit :
         IF InTransit[i].err = "nil" THEN InTransit[i].at = Arrived + i ELSE i = Len(InTransit)
    /\ pos = Arrived + Len(InTransit)
             - (IF \E i \in DOMAIN InTransit : InTransit[i].err # "nil" THEN 1 ELSE 0)

\* io.EOF means that the input is over: every token of the document has been
\* returned and so has the error that ended it, unless the decoder was closed
\* or its context cancelled.
EOFIsHonest ==
    input.kind = "reader" /\ result \in {"EOF", "UnexpectedEOF"} =>
        \/ done
        \/ /\ prologIdx = Len(input.prolog)
           /\ input.prologErr \/ input.ends = "syntax" => reported
           /\ input.prologErr \/ input.prologOnly \/ Consumed = Total

\* The items that the tokens returned so far begin with.
Returned == [k \in DOMAIN out |-> Item(out[k].from)]

\* Skip and Decode return without an error exactly at the end tag of the
\* element they were called for, so the next Token is the one after it.
LoopsStopAtMatch ==
    result = "nil" /\ pc = "idle" =>
        /\ Level(Returned, base, Len(out)) = 0
        /\ \A j \in base .. Len(out) - 1 : Level(Returned, base, j) > 0

\* The items the callbacks have seen, and the elements among them still open.
Seen == IF pp = "push" THEN pos + 1 ELSE pos
OpenElements ==
    {i \in 1 .. Seen : IsStart(Item(i).kind) /\ \A j \in i .. Seen : Level(input.items, i, j) > 0}

\* The prefix of an attribute means what the innermost open element that
\* declares it says: the declarations of closed elements are undone.
NamespacesInScope ==
    pp \in {"parse", "push"} => \A p \in Prefixes :
        LET by == {i \in OpenElements : Item(i).decl[p] # 0}
        IN  nsScope[p] = IF by = {} THEN 0
                         ELSE Item(CHOOSE i \in by : \A j \in by : j <= i).decl[p]

\* A failed lazy start leaves the channel nil.
Unstarted == saxStarted /\ events = "nil"

\* Every call returns, also when the context is cancelled in the middle of it or
\* the TokenReader answers (nil, nil) for ever, and a cancelled decoder leaves
\* no goroutine behind, also when nobody reads the channel it is sending to.
CallsReturn ==
    /\ (pc # "idle" /\ ~Unstarted) ~> pc = "idle"
    /\ (done /\ pp # "off") ~> pp = "exit"

\* "... so the shim can never hang internally" (driveToken): every call returns.
NeverHangs == pc # "idle" ~> pc = "idle"
=============================================================================
