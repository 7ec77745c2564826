--------------------------- MODULE DecoderProofs ---------------------------
(***************************************************************************)
(* Theorems about Decoder for all documents, TokenReaders and limits.      *)
(***************************************************************************)
EXTENDS Decoder, FiniteSetTheorems, SequenceTheorems, TLAPS

-----------------------------------------------------------------------------
(***************************************************************************)
(* What a call does with what readToken gave it.                           *)
(***************************************************************************)
CallType ==
  /\ call \in {"none", "Token", "Skip", "Seek", "Populate"}
  /\ pc \in {"idle", "read", "recv", "merge"} /\ (pc = "idle" <=> call = "none")
  /\ depth \in Nat /\ tries \in 0 .. MaxNoProgress - 1 /\ nestDepth \in Nat
  /\ result \in {"none", "nil", "token", "nothing"} \cup Errors
  /\ base \in 0 .. Len(out) /\ reported \in BOOLEAN

\* Skip and Decode are inside an element while they loop, and the counter of the
\* decoder holds at least the frames of the call in progress.
LoopInv ==
  /\ call \in {"none", "Token", "Seek"} => depth = 0
  /\ call \in {"Skip", "Populate"} => depth >= 1
  /\ call = "Populate" => depth <= nestDepth

\* What a call may leave behind: it returned or reads on, an end of file is not
\* made up, and an error that was reported stays reported.
Settled(r) ==
  /\ CallType' /\ LoopInv'
  /\ pc' \in {"idle", "read"}
  /\ result' \in {"EOF", "UnexpectedEOF"} => result' = result \/ r \in {"EOF", "UnexpectedEOF"}
  /\ reported \/ r \in Errors \ {"EOF", "UnexpectedEOF"} => reported'

Idle(e) == e \in {"nil", "token", "nothing"} \cup Errors

\* What a call leaves when it returns r: it is idle, and r is its result.
LEMMA ReturnEffect ==
  ASSUME CallType, LoopInv, call # "none", NEW r, Idle(r), NEW n \in Nat, n >= nestDepth,
         Return(r, n), Len(out) \in Nat, Len(out') \in Nat, Len(out) <= Len(out')
  PROVE  /\ CallType' /\ LoopInv' /\ pc' = "idle" /\ result' = r
         /\ reported \/ r \in Errors \ {"EOF", "UnexpectedEOF"} => reported'
<1>1. /\ pc' = "idle" /\ call' = "none" /\ depth' = 0 /\ tries' = 0
      /\ nestDepth' = n - IF call = "Populate" THEN depth ELSE 0
      /\ result' = r /\ base' = base
  BY DEF Return
<1>2. reported' = (reported \/ r \in Errors \ {"EOF", "UnexpectedEOF"})
  BY DEF Return
<1>3. nestDepth' \in Nat /\ base' \in 0 .. Len(out') /\ 0 \in 0 .. MaxNoProgress - 1
  BY <1>1, BoundsAssumption DEF CallType, LoopInv
<1>4. LoopInv'
  BY <1>1 DEF LoopInv
<1>5. reported' \in BOOLEAN
  BY <1>2 DEF CallType
<1>6. CallType'
  BY <1>1, <1>3, <1>5 DEF CallType, Idle
<1> QED
  BY <1>1, <1>2, <1>4, <1>6, Zenon

\* What a call leaves when its loop goes on to the next token.
LEMMA ContinueEffect ==
  ASSUME CallType, LoopInv, call # "none", NEW c, NEW d \in Nat,
         \/ c = "Skip" /\ call = "Skip" /\ d >= 1
         \/ c = "Seek" /\ call = "Seek" /\ d = 0
         \/ c = "Populate" /\ call \in {"Seek", "Populate"} /\ d >= 1,
         Continue(c, d), Len(out) \in Nat, Len(out') \in Nat, Len(out) <= Len(out'),
         base' \in 0 .. Len(out')
  PROVE  /\ CallType' /\ LoopInv' /\ pc' = "read" /\ result' = result /\ reported' = reported
BY BoundsAssumption DEF CallType, LoopInv, Continue

\* What a call leaves when readToken gave it the error e.
LEMMA RefuseEffect ==
  ASSUME CallType, LoopInv, call # "none", NEW e \in Errors, Refuse(e),
         Len(out) \in Nat, Len(out') \in Nat, Len(out) <= Len(out')
  PROVE  Settled(e)
<1>1. Idle(IF e = "EOF" /\ call = "Populate" THEN "UnexpectedEOF" ELSE e)
  BY DEF Idle, Errors
<1>2. nestDepth \in Nat /\ nestDepth >= nestDepth
  BY DEF CallType
<1>3. Return(IF e = "EOF" /\ call = "Populate" THEN "UnexpectedEOF" ELSE e, nestDepth)
  BY DEF Refuse
<1> DEFINE r == IF e = "EOF" /\ call = "Populate" THEN "UnexpectedEOF" ELSE e
<1>4. /\ CallType' /\ LoopInv' /\ pc' = "idle" /\ result' = r
      /\ reported \/ r \in Errors \ {"EOF", "UnexpectedEOF"} => reported'
  BY <1>1, <1>2, <1>3, ReturnEffect
<1>5. result' \in {"EOF", "UnexpectedEOF"} => e \in {"EOF", "UnexpectedEOF"}
  BY <1>4
<1>6. e \in Errors \ {"EOF", "UnexpectedEOF"} => r = e
  OBVIOUS
<1> HIDE DEF r
<1> QED
  BY <1>4, <1>5, <1>6 DEF Settled

\* What a call leaves when readToken gave it a token of kind k.
LEMMA TakeEffect ==
  ASSUME CallType, LoopInv, call # "none", NEW k \in Kind, Take(k),
         Len(out) \in Nat, Len(out') \in Nat, Len(out) <= Len(out')
  PROVE  Settled("nil")
<1> USE DEF Idle
<1>0. /\ nestDepth \in Nat /\ nestDepth + 1 \in Nat /\ nestDepth >= nestDepth
      /\ nestDepth + 1 >= nestDepth /\ base \in 0 .. Len(out') /\ depth \in Nat
  BY DEF CallType
<1>1. ASSUME NEW r \in {"nil", "token", "depth", "refused", "mismatch"},
             NEW n \in {nestDepth, nestDepth + 1}, Return(r, n)
      PROVE  Settled("nil")
  <2>1. Idle(r) /\ n \in Nat /\ n >= nestDepth
    BY <1>0 DEF Errors
  <2>2. /\ CallType' /\ LoopInv' /\ pc' = "idle" /\ result' = r
        /\ reported \/ r \in Errors \ {"EOF", "UnexpectedEOF"} => reported'
    BY <2>1, <1>1, ReturnEffect
  <2> QED
    BY <2>2 DEF Settled, Errors
<1>2. ASSUME NEW c, NEW d \in Nat, 
             \/ c = "Skip" /\ call = "Skip" /\ d >= 1
             \/ c = "Seek" /\ call = "Seek" /\ d = 0
             \/ c = "Populate" /\ call \in {"Seek", "Populate"} /\ d >= 1,
             Continue(c, d), base' \in 0 .. Len(out')
      PROVE  Settled("nil")
  BY <1>2, ContinueEffect DEF Settled, Errors
<1>3. ASSUME EnterElement, call \in {"Seek", "Populate"}
      PROVE  Settled("nil")
  <2>1. CASE nestDepth + 1 > MaxNesting
    BY <2>1, <1>3, <1>1 DEF EnterElement
  <2>2. CASE ~(nestDepth + 1 > MaxNesting)
    <3>1. Continue("Populate", depth + 1) /\ base' = IF depth = 0 THEN Len(out') ELSE base
      BY <2>2, <1>3 DEF EnterElement
    <3>2. depth + 1 \in Nat /\ depth + 1 >= 1 /\ base' \in 0 .. Len(out')
      BY <3>1, <1>0
    <3> QED
      BY <3>1, <3>2, <1>2, <1>3
  <2> QED
    BY <2>1, <2>2
<1>4. CASE call = "Token"
  BY <1>4, <1>1 DEF Take
<1>5. CASE call = "Skip"
  <2> DEFINE d == depth + (IF IsStart(k) THEN 1 ELSE 0) - (IF IsEnd(k) THEN 1 ELSE 0)
  <2>1. IF d = 0 THEN Return("nil", nestDepth) ELSE Continue("Skip", d) /\ UNCHANGED base
    BY <1>5 DEF Take, SkipTakes
  <2>2. depth >= 1
    BY <1>5 DEF LoopInv
  <2>3. d \in Nat /\ (d # 0 => d >= 1)
    BY <2>2, <1>0
  <2> HIDE DEF d
  <2> QED
    BY <2>1, <2>3, <1>0, <1>1, <1>2, <1>5
<1>6. CASE call = "Seek"
  <2>1. CASE k = "start"
    BY <2>1, <1>6, <1>3 DEF Take, SeekTakes
  <2>2. CASE k = "oddStart"
    BY <2>2, <1>6, <1>1 DEF Take, SeekTakes
  <2>3. CASE k \notin {"start", "oddStart"}
    <3>1. Continue("Seek", 0) /\ UNCHANGED base
      BY <2>3, <1>6 DEF Take, SeekTakes
    <3> QED
      BY <3>1, <1>0, <1>2, <1>6
  <2> QED
    BY <2>1, <2>2, <2>3
<1>7. CASE call = "Populate"
  <2>0. PopulateTakes(k) /\ depth >= 1
    BY <1>7 DEF Take, LoopInv
  <2>1. CASE k = "start"
    BY <2>0, <2>1, <1>7, <1>3 DEF PopulateTakes
  <2>2. CASE k = "oddStart" \/ k = "oddEnd"
    BY <2>0, <2>2, <1>1 DEF PopulateTakes
  <2>3. CASE k = "end" /\ depth = 1
    BY <2>0, <2>3, <1>1 DEF PopulateTakes
  <2>4. CASE k = "end" /\ depth # 1
    <3>1. Continue("Populate", depth - 1) /\ UNCHANGED base
      BY <2>0, <2>4 DEF PopulateTakes
    <3>2. depth - 1 \in Nat /\ depth - 1 >= 1
      BY <1>0, <2>0, <2>4
    <3> QED
      BY <3>1, <3>2, <1>0, <1>2, <1>7
  <2>5. CASE k \notin {"start", "oddStart", "oddEnd", "end"}
    <3>1. Continue("Populate", depth) /\ UNCHANGED base
      BY <2>0, <2>5 DEF PopulateTakes
    <3> QED
      BY <3>1, <1>0, <2>0, <1>2, <1>7
  <2> QED
    BY <2>1, <2>2, <2>3, <2>4, <2>5
<1> QED
  BY <1>4, <1>5, <1>6, <1>7 DEF CallType

\* What a call leaves when a TokenReader gave neither token nor error.
LEMMA TakeNothingEffect ==
  ASSUME CallType, LoopInv, call # "none", TakeNothing,
         Len(out) \in Nat, Len(out') \in Nat, Len(out) <= Len(out'), pc = "read"
  PROVE  Settled("nil")
<1> USE DEF Idle
<1>0. nestDepth \in Nat /\ nestDepth >= nestDepth
  BY DEF CallType
<1>1. CASE call = "Token"
  <2>1. Return("nothing", nestDepth) /\ Idle("nothing")
    BY <1>1 DEF TakeNothing
  <2> QED
    BY <2>1, <1>0, ReturnEffect DEF Settled, Errors
<1>2. CASE call # "Token" /\ tries + 1 = MaxNoProgress
  <2>1. Return("NoProgress", nestDepth) /\ Idle("NoProgress")
    BY <1>2 DEF TakeNothing, Errors
  <2> QED
    BY <2>1, <1>0, ReturnEffect DEF Settled, Errors
<1>3. CASE call # "Token" /\ tries + 1 # MaxNoProgress
  <2>1. /\ tries' = tries + 1
        /\ UNCHANGED <<pc, call, depth, nestDepth, result, base, reported>>
    BY <1>3 DEF TakeNothing
  <2>2. CallType' /\ LoopInv'
    BY <2>1, <1>3, BoundsAssumption DEF CallType, LoopInv
  <2> QED
    BY <2>1, <2>2 DEF Settled, Errors
<1> QED
  BY <1>1, <1>2, <1>3

-----------------------------------------------------------------------------
(***************************************************************************)
(* Types, and which parts of the decoder are at work.                      *)
(***************************************************************************)
LEMMA InputFacts ==
  ASSUME NEW in \in Inputs
  PROVE  /\ in.items \in Seq([kind : Kind, decl : [Prefixes -> Nat]])
         /\ in.kind \in {"reader", "tokens"}
         /\ in.ends \in {"EOF", "syntax"} /\ in.prolog \in Seq({"misc", "badDecl"})
         /\ in.prologOnly => in.ends = "EOF"
         /\ in.prologErr \in BOOLEAN /\ Len(in.items) \in Nat /\ Len(in.prolog) \in Nat
         /\ in.kind = "reader" =>
              \A i \in 1 .. Len(in.items) :
                in.items[i].kind \in ParserKind /\ Level(in.items, 1, i) >= 0
         /\ \A i \in 1 .. Len(in.items) :
              in.items[i].kind \in Kind /\ in.items[i].decl \in [Prefixes -> Nat]
<1>1. in.items \in Seq([kind : Kind, decl : [Prefixes -> Nat]]) /\ InputOK(in)
  BY InputsAssumption
<1>2. /\ in.prolog \in Seq({"misc", "badDecl"}) /\ in.kind \in {"reader", "tokens"}
      /\ in.ends \in {"EOF", "syntax"} /\ (in.prologOnly => in.ends = "EOF")
      /\ in.prologErr \in BOOLEAN
  BY <1>1 DEF InputOK
<1>3. /\ Len(in.items) \in Nat /\ Len(in.prolog) \in Nat /\ DOMAIN in.items = 1 .. Len(in.items)
      /\ \A i \in 1 .. Len(in.items) : in.items[i] \in [kind : Kind, decl : [Prefixes -> Nat]]
  BY <1>1, <1>2, LenProperties, ElementOfSeq
<1>4. in.kind = "reader" =>
        \A i \in 1 .. Len(in.items) :
          in.items[i].kind \in ParserKind /\ Level(in.items, 1, i) >= 0
  BY <1>1, <1>3 DEF InputOK
<1> QED
  BY <1>1, <1>2, <1>3, <1>4

\* TypeOK without the namespaces.
PlainType ==
  /\ input \in Inputs
  /\ done \in BOOLEAN
  /\ pp \in {"off", "parse", "push", "fail", "closing", "exit"}
  /\ pos \in 0 .. Total
  /\ perr \in {"nil", "syntax", "ctx"}
  /\ events \in {"nil", "open", "closed"}
  /\ buf \in Seq(Event) /\ Len(buf) <= Cap
  /\ pending \in Seq(Event) /\ Len(pending) <= 1
  /\ prologIdx \in 0 .. Len(input.prolog)
  /\ saxStarted \in BOOLEAN /\ prologErr \in BOOLEAN /\ sawContent \in BOOLEAN
  /\ savedErr \in {"nil", "EOF", "syntax"}
  /\ lastToken \in Kind \cup {"none"}
  /\ acc \in (IF pc = "merge" THEN Run ELSE {NoRun})
  /\ out \in Seq(Run)

\* The goroutine runs and the channel holds something only after the lazy start.
StageInv ==
  /\ pp = "push" => pos < Total
  /\ pp = "fail" => perr # "nil"
  /\ ~saxStarted => pp = "off" /\ events = "nil"
  /\ saxStarted => input.kind = "reader" /\ PrologOver
  /\ pc \in {"recv", "merge"} => saxStarted
  /\ pp = "off" => buf = <<>> /\ pending = <<>> /\ (input.kind = "reader" => pos = 0)
  /\ events = "nil" => pp = "off"
  /\ events = "closed" => pp \in {"off", "exit"}
  /\ pp = "off" /\ events = "closed" => input.prologOnly \/ input.prologErr

TypeInv == PlainType /\ CallType /\ LoopInv /\ StageInv

USE DEF Item, Total

\* One more run is returned; those before it stay as they are.
LEMMA OutGrows ==
  ASSUME out \in Seq(Run), NEW from \in 1 .. Total, NEW to \in 1 .. Total, input' = input,
         out' = Append(out, [from |-> from, to |-> to])
  PROVE  /\ out' \in Seq(Run)'
         /\ Len(out) \in Nat /\ Len(out') \in Nat /\ Len(out') = Len(out) + 1
         /\ \A k \in 1 .. Len(out) : out'[k] = out[k]
         /\ out'[Len(out')] = [from |-> from, to |-> to]
<1>1. [from |-> from, to |-> to] \in Run /\ Run' = Run
  BY DEF Run
<1> QED
  BY <1>1, AppendProperties, LenProperties

\* A token, perhaps of merged text, goes to the call that is waiting.
LEMMA DeliverEffect ==
  ASSUME TypeInv, call # "none", NEW from \in 1 .. Total, NEW to \in 1 .. Total,
         input' = input, Deliver(from, to)
  PROVE  /\ Settled("nil") /\ out' \in Seq(Run)' /\ lastToken' \in Kind
         /\ out' = Append(out, [from |-> from, to |-> to])
<1>1. /\ out' = Append(out, [from |-> from, to |-> to]) /\ Take(Item(from).kind)
      /\ lastToken' = Item(from).kind
  BY DEF Deliver
<1>2. input.items[from].kind \in Kind
  BY InputFacts DEF TypeInv, PlainType
<1>3. /\ out' \in Seq(Run)' /\ Len(out) \in Nat /\ Len(out') \in Nat /\ Len(out') = Len(out) + 1
  BY <1>1, OutGrows DEF TypeInv, PlainType
<1>4. Settled("nil")
  BY <1>1, <1>2, <1>3, TakeEffect DEF TypeInv
<1> QED
  BY <1>1, <1>2, <1>3, <1>4

\* A new decoder is of the right type.
LEMMA InitType == Init => TypeInv
<1> SUFFICES ASSUME Init PROVE TypeInv
  OBVIOUS
<1>1. input \in Inputs
  BY DEF Init
<1>0. <<>> \in Seq(Event) /\ <<>> \in Seq(Run) /\ Len(<<>>) = 0
  BY EmptySeq
<1>2. CallType /\ LoopInv
  <2>1. 0 \in 0 .. MaxNoProgress - 1 /\ base \in 0 .. Len(out)
    BY <1>0, BoundsAssumption DEF Init
  <2>2. LoopInv
    BY DEF Init, LoopInv
  <2> QED
    BY <2>1, <2>2 DEF Init, CallType
<1>3. PlainType
  <2>1. Len(buf) <= Cap /\ Len(pending) <= 1 /\ pos \in 0 .. Total
        /\ prologIdx \in 0 .. Len(input.prolog)
    BY <1>0, <1>1, InputFacts, BoundsAssumption DEF Init
  <2>2. prologErr \in BOOLEAN
    BY <1>1, InputFacts DEF Init
  <2> QED
    BY <1>0, <1>1, <2>1, <2>2 DEF Init, PlainType
<1>4. StageInv
  BY <1>1, InputFacts DEF Init, StageInv, PrologOver
<1> QED
  BY <1>2, <1>3, <1>4 DEF TypeInv

\* The first event of a queue and those behind it.
LEMMA HeadTail ==
  ASSUME NEW S, NEW s \in Seq(S), s # <<>>
  PROVE  /\ Head(s) \in S /\ Tail(s) \in Seq(S) /\ Len(s) \in Nat \ {0}
         /\ Len(Tail(s)) = Len(s) - 1 /\ Head(s) = s[1]
         /\ \A i \in 1 .. Len(s) - 1 : Tail(s)[i] = s[i + 1]
<1>1. Len(s) \in Nat \ {0} /\ 1 \in 1 .. Len(s)
  BY EmptySeq, LenProperties
<1>2. Head(s) = s[1] /\ s[1] \in S
  BY <1>1, ElementOfSeq
<1> QED
  BY <1>1, <1>2, HeadTailProperties

\* Steps of the goroutine and Close.
LEMMA GoroutineType ==
  ASSUME TypeInv, Close \/ ParseGoroutine
  PROVE  TypeInv'
<1>1. UNCHANGED <<input, clientVars>>
  BY DEF Close, ParseGoroutine, Callback, PushSend, ParseCancelled, ParseEnd, FailSend,
         FailDropped, CloseEvents
<1>2. CallType' /\ LoopInv'
  BY <1>1 DEF TypeInv, CallType, LoopInv, clientVars, loopVars
<1>3. Event' = Event /\ Run' = Run /\ PrologOver' = PrologOver
  BY <1>1 DEF Event, Run, PrologOver, clientVars, fieldVars
<1>4. /\ Len(buf) \in Nat /\ pos \in Nat /\ Len(input.items) \in Nat /\ Cap \in Nat \ {0}
  BY LenProperties, InputFacts, BoundsAssumption DEF TypeInv, PlainType
<1>5. ASSUME NEW e \in Event, Len(buf) < Cap, buf' = Append(buf, e)
      PROVE  buf' \in Seq(Event) /\ Len(buf') <= Cap
  BY <1>5, <1>4, AppendProperties DEF TypeInv, PlainType
<1> USE DEF PlainType, StageInv, clientVars, fieldVars, parseVars
<1>6. CASE Close
  BY <1>1, <1>2, <1>3, <1>6 DEF TypeInv, Close
<1>7. CASE Callback
  BY <1>1, <1>2, <1>3, <1>4, <1>7 DEF TypeInv, Callback
<1>8. CASE PushSend
  <2>1. [at |-> pos + 1, err |-> "nil"] \in Event /\ pos + 1 \in 0 .. Total
    BY <1>4, <1>8 DEF TypeInv, PushSend, Event
  <2>2. buf' \in Seq(Event) /\ Len(buf') <= Cap
    BY <2>1, <1>5, <1>8 DEF PushSend
  <2> QED
    BY <2>1, <2>2, <1>1, <1>2, <1>3, <1>4, <1>8 DEF TypeInv, PushSend
<1>9. CASE ParseCancelled
  BY <1>1, <1>2, <1>3, <1>9 DEF TypeInv, ParseCancelled
<1>10. CASE ParseEnd
  BY <1>1, <1>2, <1>3, <1>10 DEF TypeInv, ParseEnd
<1>11. CASE FailSend
  <2>1. [at |-> 0, err |-> perr] \in Event
    BY <1>11 DEF TypeInv, FailSend, Event
  <2>2. buf' \in Seq(Event) /\ Len(buf') <= Cap
    BY <2>1, <1>5, <1>11 DEF FailSend
  <2> QED
    BY <2>2, <1>1, <1>2, <1>3, <1>11 DEF TypeInv, FailSend
<1>12. CASE FailDropped
  BY <1>1, <1>2, <1>3, <1>12 DEF TypeInv, FailDropped
<1>13. CASE CloseEvents
  BY <1>1, <1>2, <1>3, <1>13 DEF TypeInv, CloseEvents
<1> QED
  BY <1>6, <1>7, <1>8, <1>9, <1>10, <1>11, <1>12, <1>13 DEF ParseGoroutine

\* Steps that start a call.
LEMMA ClientType ==
  ASSUME TypeInv, Client
  PROVE  TypeInv'
<1>1. /\ UNCHANGED <<readerVars, events, buf, fieldVars, pending, lastToken, acc, out>>
      /\ pc = "idle" /\ pc' \in {"idle", "read"}
  BY DEF Client, CallToken, CallSkip, CallDecode, CallDecodeElement, DecodeElementTooDeep, Call,
         TypeInv, CallType
<1>2. Event' = Event /\ Run' = Run /\ PrologOver' = PrologOver
  BY <1>1 DEF Event, Run, PrologOver, readerVars, fieldVars
<1>3. PlainType'
  BY <1>1, <1>2 DEF TypeInv, PlainType, readerVars, parseVars, fieldVars
<1>4. StageInv'
  BY <1>1, <1>2 DEF TypeInv, StageInv, readerVars, parseVars, fieldVars
<1>5. Len(out) \in Nat /\ Len(out') = Len(out)
  BY <1>1, LenProperties DEF TypeInv, PlainType
<1>6. LoopInv'
  BY BoundsAssumption DEF Client, CallToken, CallSkip, CallDecode, CallDecodeElement,
     DecodeElementTooDeep, Call, TypeInv, CallType, LoopInv
<1>7. CallType'
  <2>1. CASE CallToken \/ CallDecode
    BY <2>1, <1>5 DEF CallToken, CallDecode, Call, TypeInv, CallType
  <2>2. CASE CallSkip \/ CallDecodeElement
    BY <2>2, <1>5, BoundsAssumption DEF CallSkip, CallDecodeElement, Call, TypeInv, CallType
  <2>3. CASE DecodeElementTooDeep
    BY <2>3, <1>5, BoundsAssumption DEF DecodeElementTooDeep, TypeInv, CallType, Errors
  <2> QED
    BY <2>1, <2>2, <2>3 DEF Client
<1> QED
  BY <1>3, <1>4, <1>6, <1>7 DEF TypeInv

\* Steps of readToken on the prolog and the lazy start.
LEMMA StartType ==
  ASSUME TypeInv, ReadProlog \/ ReadPrologErr \/ StartClosed \/ StartRefused \/ StartSAX \/ ReadOn
  PROVE  TypeInv'
<1>1. /\ UNCHANGED <<input, done, pos, perr, buf, pending, acc, out>>
      /\ pc = "read" /\ call # "none"
  BY DEF ReadProlog, ReadPrologErr, StartClosed, StartRefused, StartSAX, ReadOn, readerVars,
         parseVars, TypeInv, CallType
<1>2. Event' = Event /\ Run' = Run
  BY <1>1 DEF Event, Run
<1>3. Len(out) \in Nat /\ Len(out') = Len(out)
  BY <1>1, LenProperties DEF TypeInv, PlainType
<1>4. Len(input.prolog) \in Nat /\ input.kind \in {"reader", "tokens"}
  BY InputFacts DEF TypeInv, PlainType
<1>5. ASSUME NEW e \in Errors, Refuse(e)
      PROVE  Settled(e)
  BY <1>5, <1>1, <1>3, RefuseEffect DEF TypeInv
<1>6. ASSUME CallType', LoopInv', pc' \in {"idle", "read"},
             UNCHANGED <<pp, events>>, saxStarted => saxStarted',
             saxStarted' => input.kind = "reader" /\ PrologOver',
             prologIdx' \in 0 .. Len(input.prolog), saxStarted' \in BOOLEAN,
             prologErr' \in BOOLEAN, sawContent' \in BOOLEAN, savedErr' = savedErr,
             lastToken' \in Kind \cup {"none"}
      PROVE  TypeInv'
  BY <1>1, <1>2, <1>6 DEF TypeInv, PlainType, StageInv
<1> USE DEF readerVars, parseVars, fieldVars
<1>7. CASE ReadProlog
  <2>1. Settled("charset") \/ Settled("nil")
    <3>1. Refuse("charset") \/ Take("misc")
      BY <1>7 DEF ReadProlog
    <3>2. Take("misc") => Settled("nil")
      <4>1. "misc" \in Kind
        BY DEF Kind
      <4> QED
        BY <4>1, <1>1, <1>3, TakeEffect DEF TypeInv
    <3> QED
      BY <3>1, <3>2, <1>5 DEF Errors
  <2>2. CallType' /\ LoopInv' /\ pc' \in {"idle", "read"}
    BY <2>1 DEF Settled
  <2>3. /\ prologIdx' \in 0 .. Len(input.prolog) /\ lastToken' \in Kind \cup {"none"}
        /\ UNCHANGED <<pp, events, saxStarted, prologErr, savedErr, sawContent>>
        /\ ~PrologOver
    BY <1>4, <1>7 DEF ReadProlog, TypeInv, PlainType, PrologOver, Kind
  <2>4. ~saxStarted
    BY <2>3 DEF TypeInv, StageInv
  <2> QED
    BY <2>2, <2>3, <2>4, <1>6 DEF TypeInv, PlainType
<1>8. CASE ReadPrologErr
  <2>1. CallType' /\ LoopInv' /\ pc' \in {"idle", "read"}
    BY <1>5, <1>8 DEF ReadPrologErr, Errors, Settled
  <2>2. ~PrologOver /\ prologErr' \in BOOLEAN
        /\ UNCHANGED <<pp, events, saxStarted, prologIdx, savedErr, sawContent, lastToken>>
    BY <1>8 DEF ReadPrologErr, PrologOver
  <2>3. ~saxStarted
    BY <2>2 DEF TypeInv, StageInv
  <2> QED
    BY <2>1, <2>2, <2>3, <1>6 DEF TypeInv, PlainType
<1>9. CASE StartRefused
  <2>1. CallType' /\ LoopInv' /\ pc' \in {"idle", "read"}
    BY <1>5, <1>9 DEF StartRefused, Errors, Settled
  <2>2. /\ UNCHANGED <<pp, events, prologIdx, prologErr, savedErr, sawContent, lastToken>>
        /\ saxStarted' = TRUE /\ input.kind = "reader" /\ PrologOver'
    BY <1>1, <1>9 DEF StartRefused, PrologOver
  <2> QED
    BY <2>1, <2>2, <1>6 DEF TypeInv, PlainType
<1>10. CASE StartClosed \/ StartSAX \/ ReadOn
  <2>1. /\ pc' = "recv" /\ PrologOver /\ saxStarted' = TRUE
        /\ UNCHANGED <<prologIdx, prologErr, savedErr, sawContent, lastToken, loopVars, result,
                       base, reported>>
    BY <1>10 DEF StartClosed, StartSAX, ReadOn, TypeInv, PlainType
  <2>2. PrologOver' /\ CallType' /\ LoopInv'
    BY <1>1, <1>3, <2>1 DEF PrologOver, TypeInv, CallType, LoopInv, loopVars
  <2>3. PlainType'
    BY <1>1, <1>2, <2>1, <1>10, ZenonT(30) DEF StartClosed, StartSAX, ReadOn, TypeInv, PlainType
  <2>4. StageInv'
    BY <1>1, <2>1, <2>2, <1>10 DEF StartClosed, StartSAX, ReadOn, TypeInv, StageInv
  <2> QED
    BY <2>2, <2>3, <2>4 DEF TypeInv
<1> QED
  BY <1>7, <1>8, <1>9, <1>10

\* Steps of readToken that take events from the lookahead or the channel.
LEMMA EventType ==
  ASSUME TypeInv, NextEvent \/ NextEventEOF \/ MergeMore \/ MergeStop \/ MergeEOF
  PROVE  TypeInv'
<1>1. /\ UNCHANGED <<input, done, pp, pos, perr, events, fieldVars>>
      /\ pc \in {"recv", "merge"} /\ call # "none" /\ saxStarted /\ input.kind = "reader"
  BY DEF NextEvent, NextEventEOF, MergeMore, MergeStop, MergeEOF, readerVars,
         parseVars, TypeInv, CallType, StageInv
<1>2. Event' = Event /\ Run' = Run /\ PrologOver' = PrologOver
  BY <1>1 DEF Event, Run, PrologOver, fieldVars
<1>3. Len(out) \in Nat
  BY <1>1, LenProperties DEF TypeInv, PlainType
<1>4. ASSUME NEW e \in Errors, Refuse(e), out' = out
      PROVE  CallType' /\ LoopInv' /\ pc' \in {"idle", "read"}
  BY <1>4, <1>1, <1>3, RefuseEffect DEF TypeInv, Settled
<1>5. ASSUME buf # <<>>
      PROVE  /\ Head(buf) \in Event /\ Tail(buf) \in Seq(Event) /\ Len(Tail(buf)) <= Cap
             /\ pp # "off"
  BY <1>5, HeadTail, BoundsAssumption DEF TypeInv, PlainType, StageInv
<1>6. ASSUME pending # <<>>
      PROVE  pending[1] \in Event /\ pp # "off"
  BY <1>6, HeadTail DEF TypeInv, PlainType, StageInv
<1>7. ASSUME CallType', LoopInv', acc' \in (IF pc' = "merge" THEN Run ELSE {NoRun}),
             out' \in Seq(Run), lastToken' \in Kind \cup {"none"},
             \/ UNCHANGED buf
             \/ buf # <<>> /\ buf' = Tail(buf),
             \/ pending' = pending
             \/ pending' = <<>>
             \/ buf # <<>> /\ pending' = <<Head(buf)>>
      PROVE  TypeInv'
  <2>1. buf' \in Seq(Event) /\ Len(buf') <= Cap /\ (pp = "off" => buf' = buf)
    BY <1>5, <1>7 DEF TypeInv, PlainType
  <2>2. /\ pending' \in Seq(Event) /\ Len(pending') <= 1
        /\ pp = "off" => pending' = pending \/ pending' = <<>>
    <3>1. CASE pending' = pending
      BY <3>1 DEF TypeInv, PlainType
    <3>2. CASE pending' = <<>>
      BY <3>2, EmptySeq
    <3>3. CASE buf # <<>> /\ pending' = <<Head(buf)>>
      BY <3>3, <1>5
    <3> QED
      BY <3>1, <3>2, <3>3, <1>7
  <2>3. PlainType'
    BY <1>1, <1>2, <1>7, <2>1, <2>2 DEF TypeInv, PlainType, fieldVars
  <2>4. StageInv'
    BY <1>1, <1>2, <2>1, <2>2 DEF TypeInv, StageInv, fieldVars
  <2> QED
    BY <1>7, <2>3, <2>4 DEF TypeInv
<1>8. CASE NextEvent
  <2>1. ASSUME NEW e \in Event, TakeEvent(e), pc = "recv"
        PROVE  /\ CallType' /\ LoopInv' /\ acc' \in (IF pc' = "merge" THEN Run ELSE {NoRun})
               /\ out' \in Seq(Run) /\ lastToken' \in Kind \cup {"none"}
    <3>0. acc = NoRun
      BY <2>1 DEF TypeInv, PlainType
    <3>1. CASE e.err # "nil"
      <4>1. e.err \in {"syntax", "ctx"} /\ Refuse(e.err) /\ UNCHANGED <<lastToken, acc, out>>
        <5>1. e.err \in {"syntax", "ctx"}
          BY <2>1, <3>1 DEF Event
        <5>2. Refuse(e.err) /\ UNCHANGED <<lastToken, acc, out>>
          BY <2>1, <3>1 DEF TakeEvent, IsText
        <5> QED
          BY <5>1, <5>2
      <4> QED
        BY <4>1, <1>4, <3>0 DEF Errors, TypeInv, PlainType
    <3>2. CASE e.err = "nil" /\ IsText(e)
      <4>1. /\ acc' = [from |-> e.at, to |-> e.at] /\ pc' = "merge" /\ e.at \in 1 .. Total
            /\ UNCHANGED <<lastToken, loopVars, result, out, base, reported>>
        BY <2>1, <3>2 DEF TakeEvent, Event
      <4>2. acc' \in Run
        BY <4>1 DEF Run
      <4>3. CallType' /\ LoopInv'
        BY <4>1, <1>1 DEF TypeInv, CallType, LoopInv, loopVars
      <4> QED
        BY <4>1, <4>2, <4>3 DEF TypeInv, PlainType
    <3>3. CASE e.err = "nil" /\ ~IsText(e)
      <4>1. Deliver(e.at, e.at) /\ UNCHANGED acc /\ e.at \in 1 .. Total
        BY <2>1, <3>3 DEF TakeEvent, Event
      <4> QED
        BY <4>1, <1>1, <1>2, <3>0, DeliverEffect DEF Settled
    <3> QED
      BY <3>1, <3>2, <3>3
  <2>2. CASE pending # <<>>
    <3>1. TakeEvent(pending[1]) /\ pending' = <<>> /\ UNCHANGED buf /\ pc = "recv"
      BY <2>2, <1>8 DEF NextEvent
    <3> QED
      BY <3>1, <2>1, <2>2, <1>6, <1>7
  <2>3. CASE pending = <<>>
    <3>1. TakeEvent(Head(buf)) /\ buf' = Tail(buf) /\ UNCHANGED pending /\ pc = "recv"
          /\ buf # <<>>
      BY <2>3, <1>8 DEF NextEvent
    <3> QED
      BY <3>1, <2>1, <1>5, <1>7
  <2> QED
    BY <2>2, <2>3
<1>9. CASE NextEventEOF
  <2>1. Refuse("EOF") /\ UNCHANGED <<buf, pending, lastToken, acc, out>> /\ pc = "recv"
    BY <1>9 DEF NextEventEOF
  <2>2. CallType' /\ LoopInv' /\ pc' \in {"idle", "read"}
    BY <2>1, <1>4 DEF Errors
  <2> QED
    BY <2>1, <2>2, <1>7 DEF TypeInv, PlainType
<1>10. CASE MergeMore
  <2>1. /\ acc' = [acc EXCEPT !.to = Head(buf).at] /\ buf' = Tail(buf) /\ buf # <<>>
        /\ IsText(Head(buf)) /\ pc = "merge"
        /\ UNCHANGED <<pending, lastToken, loopVars, pc, result, out, base, reported>>
    BY <1>10 DEF MergeMore
  <2>2. acc' \in Run
    <3>1. Head(buf).at \in 1 .. Total
      BY <2>1, <1>5 DEF Event, IsText
    <3> QED
      BY <3>1, <2>1 DEF TypeInv, PlainType, Run
  <2>3. CallType' /\ LoopInv'
    BY <2>1 DEF TypeInv, CallType, LoopInv, loopVars
  <2> QED
    BY <2>1, <2>2, <2>3, <1>7 DEF TypeInv, PlainType
<1>11. CASE MergeStop \/ MergeEOF
  <2>1. Deliver(acc.from, acc.to) /\ acc' = NoRun /\ pc = "merge"
    BY <1>11 DEF MergeStop, MergeEOF
  <2>2. acc.from \in 1 .. Total /\ acc.to \in 1 .. Total
    BY <2>1 DEF TypeInv, PlainType, Run
  <2>3. /\ CallType' /\ LoopInv' /\ pc' \in {"idle", "read"} /\ out' \in Seq(Run)
        /\ lastToken' \in Kind
    BY <2>1, <2>2, <1>1, <1>2, DeliverEffect DEF Settled
  <2> QED
    BY <2>1, <2>3, <1>7, <1>11 DEF MergeStop, MergeEOF
<1> QED
  BY <1>8, <1>9, <1>10, <1>11

\* Steps of readToken on a TokenReader.
LEMMA ReaderType ==
  ASSUME TypeInv, ReadSaved \/ ReadEnd \/ ReadNothing \/ ReadToken
  PROVE  TypeInv'
<1>1. /\ UNCHANGED <<input, done, pp, perr, events, buf, saxStarted, prologIdx, prologErr,
                     pending, acc>>
      /\ pc = "read" /\ call # "none" /\ input.kind = "tokens"
  BY DEF ReadSaved, ReadEnd, ReadNothing, ReadToken, tokenVars, TypeInv, CallType
<1>2. Event' = Event /\ Run' = Run /\ PrologOver' = PrologOver
  BY <1>1 DEF Event, Run, PrologOver
<1>3. /\ Len(out) \in Nat /\ input.ends \in {"EOF", "syntax"} /\ Len(input.items) \in Nat
      /\ pos \in 0 .. Len(input.items)
  BY LenProperties, InputFacts DEF TypeInv, PlainType
<1>4. ASSUME NEW e \in Errors, Refuse(e), out' = out
      PROVE  CallType' /\ LoopInv' /\ pc' \in {"idle", "read"}
  BY <1>4, <1>1, <1>3, RefuseEffect DEF TypeInv, Settled
<1>5. ASSUME CallType', LoopInv', pc' \in {"idle", "read"}, pos' \in 0 .. Total,
             out' \in Seq(Run), lastToken' \in Kind \cup {"none"},
             savedErr' \in {"nil", "EOF", "syntax"}, sawContent' \in BOOLEAN
      PROVE  TypeInv'
  <2>1. PlainType'
    BY <1>1, <1>2, <1>5 DEF TypeInv, PlainType
  <2>2. StageInv'
    BY <1>1, <1>2, <1>5 DEF TypeInv, StageInv
  <2> QED
    BY <2>1, <2>2, <1>5 DEF TypeInv
<1>6. CASE ReadSaved
  <2>1. savedErr \in Errors /\ Refuse(savedErr) /\ savedErr' = "nil"
        /\ UNCHANGED <<pos, sawContent, lastToken, out>>
    BY <1>6 DEF ReadSaved, TypeInv, PlainType, Errors
  <2> QED
    BY <2>1, <1>4, <1>5 DEF TypeInv, PlainType
<1>7. CASE ReadEnd
  <2>1. input.ends \in Errors /\ Refuse(input.ends)
        /\ UNCHANGED <<pos, savedErr, sawContent, lastToken, out>>
    BY <1>3, <1>7 DEF ReadEnd, Errors
  <2> QED
    BY <2>1, <1>4, <1>5 DEF TypeInv, PlainType
<1>8. CASE ReadNothing
  <2>1. /\ pos' \in 0 .. Total /\ TakeNothing /\ UNCHANGED <<savedErr, sawContent, lastToken, out>>
    BY <1>3, <1>8 DEF ReadNothing
  <2>2. CallType' /\ LoopInv' /\ pc' \in {"idle", "read"}
    BY <2>1, <1>1, <1>3, TakeNothingEffect DEF TypeInv, Settled
  <2> QED
    BY <2>1, <2>2, <1>5 DEF TypeInv, PlainType
<1>9. CASE ReadToken
  <2>1. pos' \in 1 .. Total /\ savedErr' \in {"nil", "EOF", "syntax"} /\ pos' = pos + 1
    BY <1>3, <1>9 DEF ReadToken
  <2>2. CASE Item(pos + 1).kind = "decl" /\ sawContent
    <3>1. Refuse("notAtStart") /\ UNCHANGED <<sawContent, lastToken, out>>
      BY <2>2, <1>9 DEF ReadToken
    <3>2. CallType' /\ LoopInv' /\ pc' \in {"idle", "read"}
      BY <3>1, <1>4 DEF Errors
    <3> QED
      BY <3>1, <3>2, <2>1, <1>5 DEF TypeInv, PlainType
  <2>3. CASE ~(Item(pos + 1).kind = "decl" /\ sawContent)
    <3>1. Deliver(pos + 1, pos + 1) /\ sawContent' = (sawContent \/ Item(pos + 1).kind # "bom")
      BY <2>3, <1>9 DEF ReadToken
    <3>2. sawContent' \in BOOLEAN
      BY <3>1
    <3>3. /\ CallType' /\ LoopInv' /\ pc' \in {"idle", "read"} /\ out' \in Seq(Run)
          /\ lastToken' \in Kind
      BY <3>1, <2>1, <1>1, <1>2, DeliverEffect DEF Settled
    <3> QED
      BY <3>2, <3>3, <2>1, <1>5
  <2> QED
    BY <2>2, <2>3
<1> QED
  BY <1>6, <1>7, <1>8, <1>9

\* Every step keeps the types and the stages of the decoder and its parser.
LEMMA TypeStep ==
  ASSUME TypeInv, [Next]_vars
  PROVE  TypeInv'
<1>1. CASE UNCHANGED vars
  <2>1. UNCHANGED <<input, done, parseVars, events, buf, fieldVars, pending, lastToken,
                    loopVars, pc, acc, result, out, base, reported>>
    BY <1>1 DEF vars
  <2>2. Event' = Event /\ Run' = Run /\ PrologOver' = PrologOver
    BY <2>1 DEF Event, Run, PrologOver, fieldVars
  <2> QED
    BY <2>1, <2>2 DEF TypeInv, PlainType, CallType, LoopInv, StageInv, parseVars, fieldVars,
       loopVars
<1>2. CASE Next
  BY <1>2, GoroutineType, ClientType, StartType, EventType, ReaderType DEF Next, ReadStep
<1> QED
  BY <1>1, <1>2

-----------------------------------------------------------------------------
(***************************************************************************)
(* The order of tokens: the tokens returned, the run being merged, the     *)
(* lookahead and the channel are consecutive pieces of the document.       *)
(***************************************************************************)
Erroneous(s) == \E i \in 1 .. Len(s) : s[i].err # "nil"
Failed == (pending # <<>> /\ pending[1].err # "nil") \/ Erroneous(buf)
Over == pp \in {"closing", "exit"}

\* The events of s follow one another from n + 1 on, and an error is the last.
Consecutive(s, n) ==
  \A i \in 1 .. Len(s) : IF s[i].err = "nil" THEN s[i].at = n + i ELSE i = Len(s)

OutInv ==
  \A k \in 1 .. Len(out) :
    /\ out[k].from = (IF k = 1 THEN 1 ELSE out[k - 1].to + 1)
    /\ out[k].from <= out[k].to
    /\ out[k].from = out[k].to
         \/ \A i \in out[k].from .. out[k].to : Item(i).kind = "text"
    /\ k > 1 /\ Item(out[k].from).kind = "text" => Item(out[k - 1].to).kind # "text"

\* A run is merged behind the last token, which is none of its own, and with
\* nothing looked ahead at.
RunInv ==
  pc = "merge" =>
    /\ acc.from = Consumed + 1 /\ acc.from <= acc.to /\ pending = <<>>
    /\ \A i \in acc.from .. acc.to : Item(i).kind = "text"
    /\ out # <<>> => Item(Consumed).kind # "text"

QueueInv ==
  /\ pending # <<>> => IF pending[1].err = "nil" THEN pending[1].at = Arrived + 1
                       ELSE buf = <<>>
  /\ Consecutive(buf, Arrived + Len(pending))
  /\ pos = Arrived + Len(pending) + Len(buf) - (IF Failed THEN 1 ELSE 0)
  /\ Failed => Over

\* A run of text that was returned is not continued.
CutInv ==
  pc # "merge" /\ out # <<>> /\ Item(Consumed).kind = "text" =>
    IF pending = <<>> THEN buf = <<>> /\ Over ELSE ~IsText(pending[1])

OrderInv == input.kind = "reader" => OutInv /\ RunInv /\ QueueInv /\ CutInv

\* The positions and lengths the order of tokens is told in.
LEMMA SizeFacts ==
  ASSUME TypeInv
  PROVE  /\ Len(buf) \in Nat /\ Len(out) \in Nat /\ Len(input.items) \in Nat
         /\ Len(pending) = (IF pending = <<>> THEN 0 ELSE 1)
         /\ Consumed \in 0 .. Total /\ Arrived \in 0 .. Total /\ pos \in 0 .. Total
         /\ out # <<>> => Len(out) \in 1 .. Len(out) /\ Consumed = out[Len(out)].to
         /\ \A k \in 1 .. Len(out) : out[k].from \in 1 .. Total /\ out[k].to \in 1 .. Total
         /\ \A i \in 1 .. Len(buf) : buf[i] \in Event
         /\ pending # <<>> => pending[1] \in Event
<1>1. /\ Len(buf) \in Nat /\ Len(out) \in Nat /\ Len(input.items) \in Nat /\ pos \in 0 .. Total
      /\ Len(pending) \in Nat
  BY LenProperties, InputFacts DEF TypeInv, PlainType
<1>2. \A k \in 1 .. Len(out) : out[k] \in Run
  BY ElementOfSeq DEF TypeInv, PlainType
<1>3. \A i \in 1 .. Len(buf) : buf[i] \in Event
  BY ElementOfSeq DEF TypeInv, PlainType
<1>4. /\ pending # <<>> => pending[1] \in Event /\ Len(pending) = 1
      /\ pending = <<>> => Len(pending) = 0
  <2>1. pending \in Seq(Event) /\ Len(pending) <= 1 /\ Len(<<>>) = 0
    BY EmptySeq DEF TypeInv, PlainType
  <2>2. pending # <<>> => Head(pending) = pending[1] /\ Head(pending) \in Event
                          /\ Len(pending) \in Nat \ {0}
    BY <2>1, HeadTail
  <2>3. pending # <<>> => Len(pending) = 1
    <3>1. \A n \in Nat \ {0} : n <= 1 => n = 1
      OBVIOUS
    <3>2. Len(pending) <= 1
      BY <2>1
    <3> QED
      BY <2>2, <3>1, <3>2, Zenon
  <2>4. pending = <<>> => Len(pending) = 0
    BY <2>1
  <2> QED
    BY <2>2, <2>3, <2>4, Zenon
<1>5. out # <<>> => Len(out) \in 1 .. Len(out)
  BY <1>1, EmptySeq DEF TypeInv, PlainType
<1>6. Consumed \in 0 .. Total
  BY <1>1, <1>2, <1>5 DEF Consumed, Run
<1>7. Arrived \in 0 .. Total
  BY <1>6 DEF Arrived, TypeInv, PlainType, Run
<1> QED
  BY <1>1, <1>2, <1>3, <1>4, <1>5, <1>6, <1>7 DEF Consumed, Run

\* The next event, from the lookahead or the channel, and what is behind it.
Behind(e, rest) ==
  \/ pending # <<>> /\ e = pending[1] /\ rest = buf
  \/ pending = <<>> /\ buf # <<>> /\ e = Head(buf) /\ rest = Tail(buf)

\* The event that nextEvent takes is the one after those that have arrived.
LEMMA NextInLine ==
  ASSUME TypeInv, QueueInv, NEW e, NEW rest, Behind(e, rest)
  PROVE  /\ e \in Event /\ rest \in Seq(Event) /\ Len(rest) \in Nat
         /\ e.err = "nil" =>
              /\ e.at = Arrived + 1 /\ Consecutive(rest, Arrived + 1)
              /\ pos = Arrived + 1 + Len(rest) - (IF Erroneous(rest) THEN 1 ELSE 0)
         /\ e.err # "nil" => rest = <<>> /\ pos = Arrived
         /\ e.err # "nil" \/ Erroneous(rest) => Over
<1>0. Len(buf) \in Nat /\ Arrived \in Nat /\ Len(<<>>) = 0
  BY SizeFacts, EmptySeq
<1>1. CASE pending # <<>> /\ e = pending[1] /\ rest = buf
  <2>1. Len(pending) = 1 /\ e \in Event /\ rest \in Seq(Event)
    BY <1>1, SizeFacts DEF TypeInv, PlainType
  <2>2. CASE e.err = "nil"
    <3>1. Failed <=> Erroneous(rest)
      BY <1>1, <2>2 DEF Failed
    <3> QED
      BY <1>0, <1>1, <2>1, <2>2, <3>1 DEF QueueInv
  <2>3. CASE e.err # "nil"
    <3>1. Failed /\ rest = <<>>
      BY <1>1, <2>3 DEF Failed, QueueInv
    <3> QED
      BY <1>0, <1>1, <2>1, <2>3, <3>1 DEF QueueInv
  <2> QED
    BY <2>2, <2>3
<1>2. CASE pending = <<>> /\ buf # <<>> /\ e = Head(buf) /\ rest = Tail(buf)
  <2>0. buf \in Seq(Event)
    BY DEF TypeInv, PlainType
  <2>1. /\ Len(pending) = 0 /\ e \in Event /\ rest \in Seq(Event) /\ Len(rest) = Len(buf) - 1
        /\ e = buf[1] /\ Len(buf) \in Nat \ {0} /\ \A i \in 1 .. Len(rest) : rest[i] = buf[i + 1]
    BY <1>2, <2>0, HeadTail, SizeFacts
  <2>2. Failed <=> e.err # "nil" \/ Erroneous(rest)
    <3>1. Failed <=> \E i \in 1 .. Len(buf) : buf[i].err # "nil"
      BY <1>2 DEF Failed, Erroneous
    <3>2. \A i \in 1 .. Len(buf) : i = 1 \/ (i - 1 \in 1 .. Len(rest) /\ rest[i - 1] = buf[i])
      BY <2>1
    <3>3. \A i \in 1 .. Len(rest) : i + 1 \in 1 .. Len(buf)
      BY <2>1
    <3> QED
      BY <2>1, <3>1, <3>2, <3>3 DEF Erroneous
  <2>3. \A i \in 1 .. Len(buf) : IF buf[i].err = "nil" THEN buf[i].at = Arrived + i
                                 ELSE i = Len(buf)
    BY <1>0, <2>1 DEF QueueInv, Consecutive
  <2>4. Consecutive(rest, Arrived + 1)
    <3>1. \A i \in 1 .. Len(rest) : i + 1 \in 1 .. Len(buf) /\ rest[i] = buf[i + 1]
      BY <2>1
    <3> QED
      BY <1>0, <2>1, <2>3, <3>1 DEF Consecutive
  <2>5. CASE e.err = "nil"
    <3>1. e.at = Arrived + 1
      BY <2>1, <2>3, <2>5
    <3>2. pos = Arrived + 1 + Len(rest) - (IF Erroneous(rest) THEN 1 ELSE 0)
      <4>1. pos = Arrived + Len(pending) + Len(buf) - (IF Failed THEN 1 ELSE 0)
        BY DEF QueueInv
      <4> QED
        BY <1>0, <2>1, <2>2, <2>5, <4>1
    <3> QED
      BY <2>1, <2>2, <2>4, <2>5, <3>1, <3>2 DEF QueueInv
  <2>6. CASE e.err # "nil"
    <3>1. Len(buf) = 1 /\ Len(rest) = 0
      BY <2>1, <2>3, <2>6
    <3>2. rest = <<>>
      BY <2>1, <3>1, EmptySeq
    <3> QED
      BY <1>0, <2>1, <2>2, <2>6, <3>1, <3>2 DEF QueueInv
  <2> QED
    BY <2>5, <2>6
<1> QED
  BY <1>1, <1>2 DEF Behind

\* A step that touches none of the queues keeps the order.
LEMMA OrderKept ==
  ASSUME OrderInv, UNCHANGED <<input, out, acc, pending, buf, pos>>,
         pc' = "merge" <=> pc = "merge", Over => Over'
  PROVE  OrderInv'
<1>1. Consumed' = Consumed /\ Arrived' = Arrived /\ Failed' = Failed
  BY DEF Consumed, Arrived, Failed, Erroneous
<1>2. OutInv => OutInv'
  BY DEF OutInv
<1>3. RunInv => RunInv'
  BY <1>1 DEF RunInv
<1>4. QueueInv => QueueInv'
  BY <1>1 DEF QueueInv, Consecutive
<1>5. CutInv => CutInv'
  BY <1>1 DEF CutInv, IsText
<1> QED
  BY <1>2, <1>3, <1>4, <1>5 DEF OrderInv

\* A run that begins where the last one ended keeps what was returned in order.
LEMMA OutStep ==
  ASSUME TypeInv, OutInv, NEW from \in 1 .. Total, NEW to \in 1 .. Total, input' = input,
         from = Consumed + 1, from <= to,
         from = to \/ \A i \in from .. to : Item(i).kind = "text",
         out # <<>> /\ Item(from).kind = "text" => Item(Consumed).kind # "text",
         out' = Append(out, [from |-> from, to |-> to])
  PROVE  OutInv' /\ Consumed' = to /\ out' # <<>>
<1>1. /\ Len(out) \in Nat /\ Len(out') = Len(out) + 1 /\ out' \in Seq(Run)
      /\ \A k \in 1 .. Len(out) : out'[k] = out[k]
      /\ out'[Len(out')] = [from |-> from, to |-> to]
  <2>1. Run' = Run
    BY DEF Run
  <2> QED
    BY <2>1, OutGrows DEF TypeInv, PlainType
<1>2. out' # <<>>
  BY <1>1, EmptySeq
<1>3. Consumed' = to
  BY <1>1, <1>2 DEF Consumed
<1>4. Len(out) = 0 => out = <<>>
  BY <1>1, EmptySeq DEF TypeInv, PlainType
<1>5. Consumed = IF Len(out) = 0 THEN 0 ELSE out[Len(out)].to
  BY <1>4, EmptySeq DEF Consumed
<1>6. ASSUME NEW k \in 1 .. Len(out')
      PROVE  /\ out'[k].from = (IF k = 1 THEN 1 ELSE out'[k - 1].to + 1)
             /\ out'[k].from <= out'[k].to
             /\ out'[k].from = out'[k].to
                  \/ \A i \in out'[k].from .. out'[k].to : input.items[i].kind = "text"
             /\ k > 1 /\ input.items[out'[k].from].kind = "text"
                  => input.items[out'[k - 1].to].kind # "text"
  <2>1. CASE k \in 1 .. Len(out)
    <3>1. out'[k] = out[k] /\ (k > 1 => out'[k - 1] = out[k - 1])
      BY <1>1, <2>1
    <3> QED
      BY <2>1, <3>1, SMTT(30) DEF OutInv
  <2>2. CASE k = Len(out) + 1
    <3>1. out'[k].from = from /\ out'[k].to = to /\ (k > 1 => out'[k - 1] = out[Len(out)])
      BY <1>1, <2>2
    <3>2. from = (IF k = 1 THEN 1 ELSE out'[k - 1].to + 1)
      BY <1>1, <1>5, <2>2, <3>1
    <3>3. k > 1 => out # <<>> /\ Consumed = out'[k - 1].to
      BY <1>1, <1>5, <2>2, <3>1, EmptySeq
    <3> QED
      BY <3>1, <3>2, <3>3
  <2> QED
    BY <1>1, <2>1, <2>2
<1>7. OutInv'
  BY <1>6, SMTT(30) DEF OutInv
<1> QED
  BY <1>2, <1>3, <1>7

\* The goroutine sends an event.
LEMMA OrderSend ==
  ASSUME TypeInv, OrderInv, PushSend \/ FailSend
  PROVE  OrderInv'
<1>0. SUFFICES ASSUME input.kind = "reader" PROVE OrderInv'
  BY DEF OrderInv, PushSend, FailSend
<1>1. /\ UNCHANGED <<input, clientVars>> /\ ~Over
      /\ OutInv /\ RunInv /\ QueueInv /\ CutInv
  BY <1>0 DEF PushSend, FailSend, OrderInv, Over
<1>2. UNCHANGED <<input, out, acc, pending, pc>>
  BY <1>1 DEF clientVars
<1>3. Consumed' = Consumed /\ Arrived' = Arrived /\ Arrived \in Nat /\ Len(buf) \in Nat
      /\ Len(pending) \in {0, 1} /\ pos \in Nat /\ buf \in Seq(Event)
  BY <1>2, SizeFacts DEF Consumed, Arrived, TypeInv, PlainType
<1>4. OutInv' /\ RunInv'
  BY <1>1, <1>2, <1>3 DEF OutInv, RunInv
<1>5. CutInv'
  BY <1>1, <1>2, <1>3 DEF CutInv, IsText
<1>6. ~Failed
  BY <1>1 DEF QueueInv
<1>7. PICK e \in Event : buf' = Append(buf, e) /\ (PushSend => e = [at |-> pos + 1, err |-> "nil"])
                         /\ (FailSend => e = [at |-> 0, err |-> perr])
  <2>1. CASE PushSend
    BY <2>1, <1>3, SizeFacts DEF PushSend, Event, TypeInv, StageInv, FailSend
  <2>2. CASE FailSend
    BY <2>2 DEF FailSend, Event, TypeInv, StageInv, PlainType, PushSend
  <2> QED
    BY <2>1, <2>2
<1>8. /\ Len(buf') = Len(buf) + 1 /\ buf'[Len(buf) + 1] = e
      /\ \A i \in 1 .. Len(buf) : buf'[i] = buf[i]
  BY <1>3, <1>7, AppendProperties
<1>9. \A i \in 1 .. Len(buf) : buf[i].err = "nil" /\ buf[i].at = Arrived + Len(pending) + i
  BY <1>1, <1>6 DEF Failed, Erroneous, QueueInv, Consecutive
<1>10. pos = Arrived + Len(pending) + Len(buf) /\ (pending # <<>> => pending[1].err = "nil")
  BY <1>1, <1>3, <1>6 DEF QueueInv, Failed
<1>11. CASE PushSend
  <2>1. pos' = pos + 1 /\ e.at = pos + 1 /\ e.err = "nil"
    BY <1>7, <1>11 DEF PushSend
  <2>2. \A i \in 1 .. Len(buf') : buf'[i].err = "nil" /\ buf'[i].at = Arrived + Len(pending) + i
    <3>1. \A i \in 1 .. Len(buf') : i \in 1 .. Len(buf) \/ i = Len(buf) + 1
      BY <1>3, <1>8
    <3>2. e.err = "nil" /\ e.at = Arrived + Len(pending) + (Len(buf) + 1)
      BY <1>3, <1>10, <2>1
    <3> QED
      BY <1>8, <1>9, <3>1, <3>2
  <2>3. ~Failed'
    BY <1>2, <1>10, <2>2 DEF Failed, Erroneous
  <2>4. Consecutive(buf', Arrived' + Len(pending'))
    BY <1>2, <1>3, <2>2 DEF Consecutive
  <2>5. pos' = Arrived' + Len(pending') + Len(buf') - 0
    BY <1>2, <1>3, <1>8, <1>10, <2>1
  <2>6. pending' # <<>> => pending'[1].err = "nil" /\ pending'[1].at = Arrived' + 1
    BY <1>1, <1>2, <1>3, <1>10 DEF QueueInv
  <2>7. QueueInv'
    BY <2>3, <2>4, <2>5, <2>6 DEF QueueInv
  <2> QED
    BY <1>2, <1>4, <1>5, <2>7 DEF OrderInv
<1>12. CASE FailSend
  <2>1. pos' = pos /\ e.err # "nil" /\ Over'
    BY <1>7, <1>12 DEF FailSend, TypeInv, StageInv, Over
  <2>2. \A i \in 1 .. Len(buf') : IF buf'[i].err = "nil"
                                  THEN buf'[i].at = Arrived + Len(pending) + i
                                  ELSE i = Len(buf')
    <3>1. \A i \in 1 .. Len(buf') : i \in 1 .. Len(buf) \/ i = Len(buf) + 1
      BY <1>3, <1>8
    <3> QED
      BY <1>8, <1>9, <2>1, <3>1
  <2>3. Failed'
    BY <1>3, <1>8, <2>1 DEF Failed, Erroneous
  <2>4. QueueInv'
    BY <1>1, <1>2, <1>3, <1>8, <1>10, <2>1, <2>2, <2>3 DEF QueueInv, Consecutive
  <2> QED
    BY <1>2, <1>4, <1>5, <2>4 DEF OrderInv
<1> QED
  BY <1>11, <1>12

\* The client takes an event.
LEMMA OrderNext ==
  ASSUME TypeInv, OrderInv, NextEvent
  PROVE  OrderInv'
<1>0. /\ UNCHANGED <<input, pos, pp>> /\ pc = "recv" /\ saxStarted
      /\ input.kind = "reader" /\ call # "none" /\ Over' = Over
  BY DEF NextEvent, readerVars, parseVars, TypeInv, StageInv, CallType, Over
<1>1. OutInv /\ RunInv /\ QueueInv /\ CutInv /\ acc = NoRun
  BY <1>0 DEF OrderInv, TypeInv, PlainType
<1>2. PICK e : Behind(e, buf') /\ TakeEvent(e) /\ pending' = <<>>
               /\ (pending # <<>> => e = pending[1])
  BY <1>0 DEF NextEvent, Behind
<1>3. /\ e \in Event /\ buf' \in Seq(Event) /\ Len(buf') \in Nat
      /\ e.err = "nil" =>
           /\ e.at = Arrived + 1 /\ Consecutive(buf', Arrived + 1)
           /\ pos = Arrived + 1 + Len(buf') - (IF Erroneous(buf') THEN 1 ELSE 0)
      /\ e.err # "nil" => buf' = <<>> /\ pos = Arrived
      /\ e.err # "nil" \/ Erroneous(buf') => Over
  BY <1>1, <1>2, NextInLine
<1>4. Arrived = Consumed /\ Arrived \in Nat /\ Len(pending') = 0 /\ (Failed' <=> Erroneous(buf'))
  BY <1>0, <1>2, SizeFacts, EmptySeq DEF Arrived, Failed, Erroneous
<1>5. CASE e.err # "nil"
  <2>1. Refuse(e.err) /\ UNCHANGED <<lastToken, acc, out>> /\ e.err \in Errors
    <3>1. e.err \in {"syntax", "ctx"}
      BY <1>3, <1>5 DEF Event
    <3> QED
      BY <1>2, <1>5, <3>1 DEF TakeEvent, IsText, Errors
  <2>2. pc' \in {"idle", "read"}
    BY <2>1 DEF Refuse, Return
  <2>3. Consumed' = Consumed /\ Arrived' = Arrived
    BY <1>4, <2>1, <2>2 DEF Consumed, Arrived
  <2>4. buf' = <<>> /\ Len(buf') = 0 /\ Over' /\ ~Failed' /\ pos' = Arrived
    BY <1>0, <1>3, <1>4, <1>5, EmptySeq DEF Erroneous
  <2>5. QueueInv' /\ RunInv' /\ CutInv'
    BY <1>2, <1>4, <2>2, <2>3, <2>4 DEF QueueInv, RunInv, CutInv, Consecutive
  <2>6. OutInv'
    BY <1>0, <1>1, <2>1 DEF OutInv
  <2> QED
    BY <2>5, <2>6 DEF OrderInv
<1>6. CASE e.err = "nil"
  <2>0. e.at \in 1 .. Total /\ e.at = Consumed + 1
    BY <1>3, <1>4, <1>6 DEF Event
  <2>1. CASE IsText(e)
    <3>1. acc' = [from |-> e.at, to |-> e.at] /\ pc' = "merge" /\ UNCHANGED out
      BY <1>2, <1>6, <2>1 DEF TakeEvent
    <3>2. acc'.from = e.at /\ acc'.to = e.at /\ Item(e.at).kind = "text"
      BY <3>1, <2>1 DEF IsText
    <3>3. Consumed' = Consumed /\ Arrived' = e.at /\ Arrived' = Arrived + 1
      BY <1>3, <1>6, <3>1, <3>2 DEF Consumed, Arrived
    <3>4. out # <<>> => Item(Consumed).kind # "text"
      <4>1. SUFFICES ASSUME out # <<>>, Item(Consumed).kind = "text" PROVE FALSE
        OBVIOUS
      <4>2. CASE pending = <<>>
        BY <4>1, <4>2, <1>0, <1>1, <1>2 DEF CutInv, Behind
      <4>3. CASE pending # <<>>
        BY <4>1, <4>3, <1>0, <1>1, <1>2, <2>1 DEF CutInv
      <4> QED
        BY <4>2, <4>3
    <3>5. RunInv'
      BY <1>0, <1>2, <2>0, <3>1, <3>2, <3>3, <3>4 DEF RunInv
    <3>6. QueueInv' /\ CutInv'
      BY <1>0, <1>2, <1>3, <1>4, <1>6, <3>1, <3>3 DEF QueueInv, CutInv, Consecutive
    <3>7. OutInv'
      BY <1>0, <1>1, <3>1 DEF OutInv
    <3> QED
      BY <3>5, <3>6, <3>7 DEF OrderInv
  <2>2. CASE ~IsText(e)
    <3>1. Deliver(e.at, e.at) /\ UNCHANGED acc
      BY <1>2, <1>6, <2>2 DEF TakeEvent
    <3>2. out' = Append(out, [from |-> e.at, to |-> e.at]) /\ pc' \in {"idle", "read"}
      BY <1>0, <2>0, <3>1, DeliverEffect DEF Settled
    <3>3. Item(e.at).kind # "text"
      BY <1>6, <2>2 DEF IsText
    <3>4. OutInv' /\ Consumed' = e.at /\ out' # <<>>
      BY <1>0, <1>1, <2>0, <3>2, <3>3, OutStep
    <3>5. Arrived' = Arrived + 1
      BY <1>3, <1>6, <3>2, <3>4 DEF Arrived
    <3>6. RunInv' /\ CutInv'
      BY <1>0, <3>2, <3>3, <3>4 DEF RunInv, CutInv
    <3>7. QueueInv'
      <4>1. Consecutive(buf, Arrived + Len(pending))'
        BY <1>3, <1>4, <1>6, <3>5 DEF Consecutive
      <4>2. (pos = Arrived + Len(pending) + Len(buf) - (IF Failed THEN 1 ELSE 0))'
        BY <1>0, <1>3, <1>4, <1>6, <3>5
      <4> QED
        BY <1>0, <1>2, <1>3, <1>4, <4>1, <4>2 DEF QueueInv
    <3> QED
      BY <3>4, <3>6, <3>7 DEF OrderInv
  <2> QED
    BY <2>1, <2>2
<1> QED
  BY <1>5, <1>6

\* A run grows, or is returned.
LEMMA OrderMerge ==
  ASSUME TypeInv, OrderInv, MergeMore \/ MergeStop \/ MergeEOF
  PROVE  OrderInv'
<1>0. /\ UNCHANGED <<input, pos, pp>> /\ pc = "merge" /\ saxStarted
      /\ input.kind = "reader" /\ call # "none" /\ Over' = Over
  BY DEF MergeMore, MergeStop, MergeEOF, readerVars, parseVars, TypeInv, StageInv, CallType, Over
<1>1. /\ OutInv /\ RunInv /\ QueueInv /\ CutInv /\ pending = <<>> /\ Arrived = acc.to
      /\ acc.from = Consumed + 1 /\ acc.from <= acc.to
      /\ acc \in Run /\ acc.from \in 1 .. Total /\ acc.to \in 1 .. Total
      /\ \A i \in acc.from .. acc.to : Item(i).kind = "text"
      /\ out # <<>> => Item(Consumed).kind # "text"
  BY <1>0 DEF OrderInv, TypeInv, PlainType, RunInv, Arrived, Run
<1>2. ASSUME buf # <<>>
      PROVE  /\ Head(buf) \in Event /\ Len(Tail(buf)) \in Nat
             /\ Head(buf).err = "nil" =>
                  /\ Head(buf).at = Arrived + 1 /\ Consecutive(Tail(buf), Arrived + 1)
                  /\ pos = Arrived + 1 + Len(Tail(buf)) - (IF Erroneous(Tail(buf)) THEN 1 ELSE 0)
             /\ Head(buf).err # "nil" => Tail(buf) = <<>> /\ pos = Arrived
             /\ Head(buf).err # "nil" \/ Erroneous(Tail(buf)) => Over
  <2>1. Behind(Head(buf), Tail(buf))
    BY <1>1, <1>2 DEF Behind
  <2> QED
    BY <2>1, <1>1, NextInLine
<1>3. Len(<<>>) = 0 /\ ~Erroneous(<<>>)
  BY EmptySeq DEF Erroneous
<1>4. CASE MergeMore
  <2>1. /\ acc' = [acc EXCEPT !.to = Head(buf).at] /\ buf' = Tail(buf) /\ buf # <<>>
        /\ IsText(Head(buf)) /\ UNCHANGED <<pending, pc, out>>
    BY <1>4 DEF MergeMore
  <2>2. /\ acc'.from = acc.from /\ acc'.to = Head(buf).at /\ Head(buf).at = Arrived + 1
        /\ Head(buf).err = "nil" /\ Item(Head(buf).at).kind = "text"
    BY <1>1, <1>2, <2>1 DEF IsText, Run
  <2>3. Consumed' = Consumed /\ Arrived' = Arrived + 1
    BY <1>0, <2>1, <2>2 DEF Consumed, Arrived
  <2>4. RunInv'
    <3>1. \A i \in acc'.from .. acc'.to : i \in acc.from .. acc.to \/ i = Head(buf).at
      BY <1>1, <2>2
    <3> QED
      BY <1>0, <1>1, <2>1, <2>2, <2>3, <3>1 DEF RunInv
  <2>5. Failed' <=> Erroneous(Tail(buf))
    BY <1>1, <2>1 DEF Failed
  <2>6. QueueInv' /\ CutInv'
    BY <1>0, <1>1, <1>2, <1>3, <2>1, <2>2, <2>3, <2>5 DEF QueueInv, CutInv
  <2>7. OutInv'
    BY <1>0, <1>1, <2>1 DEF OutInv
  <2> QED
    BY <2>4, <2>6, <2>7 DEF OrderInv
<1>5. CASE MergeStop \/ MergeEOF
  <2>1. Deliver(acc.from, acc.to) /\ acc' = NoRun
    BY <1>5 DEF MergeStop, MergeEOF
  <2>2. out' = Append(out, [from |-> acc.from, to |-> acc.to]) /\ pc' \in {"idle", "read"}
    BY <1>0, <1>1, <2>1, DeliverEffect DEF Settled
  <2>3. OutInv' /\ Consumed' = acc.to /\ out' # <<>>
    BY <1>0, <1>1, <2>2, OutStep
  <2>4. Arrived' = Arrived /\ RunInv' /\ Arrived \in Nat
    BY <1>1, <2>2, <2>3, SizeFacts DEF Arrived, RunInv
  <2>5. QueueInv' /\ CutInv'
    <3>1. CASE MergeStop
      <4>1. pending' = <<Head(buf)>> /\ buf' = Tail(buf) /\ buf # <<>> /\ ~IsText(Head(buf))
        BY <3>1 DEF MergeStop
      <4>2. pending' # <<>> /\ pending'[1] = Head(buf) /\ Len(pending') = 1
        BY <4>1
      <4>3. CutInv'
        BY <1>0, <4>1, <4>2 DEF CutInv, IsText
      <4>4. CASE Head(buf).err = "nil"
        <5>1. Failed' <=> Erroneous(Tail(buf))
          BY <4>1, <4>2, <4>4 DEF Failed
        <5>2. Consecutive(buf, Arrived + Len(pending))'
          BY <1>2, <2>4, <4>1, <4>2, <4>4 DEF Consecutive
        <5>3. (pos = Arrived + Len(pending) + Len(buf) - (IF Failed THEN 1 ELSE 0))'
          BY <1>0, <1>2, <2>4, <4>1, <4>2, <4>4, <5>1
        <5> QED
          BY <1>0, <1>2, <2>4, <4>1, <4>2, <4>3, <4>4, <5>1, <5>2, <5>3 DEF QueueInv
      <4>5. CASE Head(buf).err # "nil"
        <5>1. Failed' /\ buf' = <<>>
          BY <1>2, <4>1, <4>2, <4>5 DEF Failed
        <5>2. Consecutive(buf, Arrived + Len(pending))'
          BY <1>3, <5>1 DEF Consecutive
        <5>3. (pos = Arrived + Len(pending) + Len(buf) - (IF Failed THEN 1 ELSE 0))'
          <6>1. pos' = Arrived /\ Len(buf') = 0
            BY <1>0, <1>2, <1>3, <4>1, <4>5, <5>1
          <6> QED
            BY <2>4, <4>2, <5>1, <6>1
        <5>4. Over'
          BY <1>0, <1>2, <4>1, <4>5
        <5> QED
          BY <4>2, <4>3, <4>5, <5>1, <5>2, <5>3, <5>4 DEF QueueInv
      <4> QED
        BY <4>4, <4>5
    <3>2. CASE MergeEOF
      <4>1. buf = <<>> /\ events = "closed" /\ UNCHANGED <<buf, pending>>
        BY <3>2 DEF MergeEOF
      <4>2. ~Failed /\ ~Failed' /\ pos = Arrived
        BY <1>1, <1>3, <2>4, <4>1 DEF Failed, QueueInv
      <4>3. Over
        <5>1. pp # "off"
          BY <1>0, <1>1, <4>2 DEF TypeInv, StageInv
        <5> QED
          BY <4>1, <5>1 DEF TypeInv, StageInv, Over
      <4> QED
        BY <1>0, <1>1, <1>3, <2>4, <4>1, <4>2, <4>3 DEF QueueInv, CutInv, Consecutive
    <3> QED
      BY <3>1, <3>2, <1>5
  <2> QED
    BY <2>3, <2>4, <2>5 DEF OrderInv
<1> QED
  BY <1>4, <1>5

\* A new decoder has returned nothing, in order.
LEMMA InitOrder == Init => OrderInv
<1> SUFFICES ASSUME Init PROVE OrderInv
  OBVIOUS
<1>1. Len(<<>>) = 0
  BY EmptySeq
<1>2. Consumed = 0 /\ Arrived = 0 /\ ~Failed
  BY <1>1 DEF Init, Consumed, Arrived, Failed, Erroneous
<1> QED
  BY <1>1, <1>2 DEF Init, OrderInv, OutInv, RunInv, QueueInv, CutInv, Consecutive

\* Every step keeps the events in order from the parser to the client.
LEMMA OrderStep ==
  ASSUME TypeInv, OrderInv, [Next]_vars
  PROVE  OrderInv'
<1> USE DEF vars, clientVars, parseVars, fieldVars, loopVars, readerVars, tokenVars
<1>1. CASE UNCHANGED vars
  BY <1>1, OrderKept DEF Over
<1>2. CASE Close \/ Callback \/ ParseCancelled \/ ParseEnd \/ FailDropped \/ CloseEvents
  <2>1. UNCHANGED <<input, out, acc, pending, buf, pos, pc>> /\ (Over => Over')
    BY <1>2 DEF Close, Callback, ParseCancelled, ParseEnd, FailDropped, CloseEvents, Over
  <2> QED
    BY <2>1, OrderKept
<1>3. CASE Client
  <2>1. UNCHANGED <<input, out, acc, pending, buf, pos, pp>> /\ pc = "idle" /\ pc' \in {"idle", "read"}
    BY <1>3 DEF Client, CallToken, CallSkip, CallDecode, CallDecodeElement, DecodeElementTooDeep,
       Call
  <2> QED
    BY <2>1, OrderKept DEF Over
<1>4. CASE ReadProlog \/ ReadPrologErr \/ StartClosed \/ StartRefused \/ StartSAX \/ ReadOn
  <2>1. UNCHANGED <<input, out, acc, pending, buf, pos>> /\ pc = "read"
    BY <1>4 DEF ReadProlog, ReadPrologErr, StartClosed, StartRefused, StartSAX, ReadOn
  <2>2. Over => Over'
    BY <1>4 DEF ReadProlog, ReadPrologErr, StartClosed, StartRefused, StartSAX, ReadOn, Over,
       TypeInv, StageInv
  <2>3. TypeInv'
    BY <1>4, StartType
  <2>4. pc' # "merge"
    BY <2>1, <2>3 DEF TypeInv, PlainType, Run, NoRun
  <2> QED
    BY <2>1, <2>2, <2>4, OrderKept
<1>5. CASE NextEventEOF
  <2>1. UNCHANGED <<input, out, acc, pending, buf, pos, pp>> /\ pc = "recv" /\ pc' = "idle"
    BY <1>5 DEF NextEventEOF, Refuse, Return
  <2> QED
    BY <2>1, OrderKept DEF Over
<1>6. CASE ReadSaved \/ ReadEnd \/ ReadNothing \/ ReadToken
  <2>1. input.kind = "tokens" /\ input' = input
    BY <1>6 DEF ReadSaved, ReadEnd, ReadNothing, ReadToken
  <2> QED
    BY <2>1 DEF OrderInv
<1> QED
  BY <1>1, <1>2, <1>3, <1>4, <1>5, <1>6, OrderSend, OrderNext, OrderMerge
  DEF Next, ParseGoroutine, ReadStep

-----------------------------------------------------------------------------
(***************************************************************************)
(* The end of the input: the error that ended the parse is behind the last *)
(* event until a call has reported it.                                     *)
(***************************************************************************)
EndInv == input.kind = "reader" =>
  /\ input.prologErr /\ ~prologErr => reported
  /\ pp = "fail" => done \/ pos = Total
  /\ Over => done \/ (pos = Total /\ (input.ends = "EOF" \/ Failed \/ reported))
  /\ EOFIsHonest

\* What a step of the client keeps.
Keeps ==
  /\ reported => reported'
  /\ Failed => Failed' \/ reported'
  /\ Consumed = Total => Consumed' = Total
  /\ result' \in {"EOF", "UnexpectedEOF"} => result' = result \/ NextEventEOF
  /\ UNCHANGED <<input, done, pos>>
  /\ pp' = pp \/ (pp = "off" /\ pp' = "parse")
  /\ prologIdx = Len(input.prolog) => prologIdx' = prologIdx
  /\ ~prologErr' => ~prologErr \/ reported'

\* A step of the client forgets no error and makes up no end of file.
LEMMA ClientKeeps ==
  ASSUME TypeInv, Client
  PROVE  Keeps
<1> USE DEF readerVars, parseVars, fieldVars
<1>1. UNCHANGED <<input, done, pos, pp, prologIdx, prologErr, pending, buf, out>>
  BY DEF Client, CallToken, CallSkip, CallDecode, CallDecodeElement, DecodeElementTooDeep, Call
<1>2. UNCHANGED <<result, reported>> \/ (result' = "depth" /\ reported' = TRUE)
  BY DEF Client, CallToken, CallSkip, CallDecode, CallDecodeElement, DecodeElementTooDeep, Call
<1>3. Failed' = Failed /\ Consumed' = Consumed
  BY <1>1 DEF Failed, Erroneous, Consumed
<1> QED
  BY <1>1, <1>2, <1>3 DEF Keeps

\* A token is only returned while some are left.
LEMMA ConsumedGrows ==
  ASSUME TypeInv, input' = input, NEW from \in 1 .. Total, NEW to \in 1 .. Total,
         from = Consumed + 1, from <= to, out' = Append(out, [from |-> from, to |-> to])
  PROVE  Consumed # Total
BY SizeFacts

\* Nor does a step of the reading side, but for the end it is told of.
LEMMA ReaderKeeps ==
  ASSUME TypeInv, OrderInv, ReadStep, input.kind = "reader"
  PROVE  Keeps
<1> USE DEF readerVars, parseVars, fieldVars
<1>0. Len(out) \in Nat /\ Len(input.prolog) \in Nat /\ prologIdx \in 0 .. Len(input.prolog)
  BY SizeFacts, InputFacts DEF TypeInv, PlainType
<1>1. ASSUME NEW e \in Errors, Refuse(e), out' = out, call # "none"
      PROVE  Settled(e)
  BY <1>0, <1>1, RefuseEffect DEF TypeInv
<1>2. CASE ReadProlog \/ ReadPrologErr \/ StartClosed \/ StartRefused \/ StartSAX \/ ReadOn
  <2>1. /\ UNCHANGED <<input, done, pos, pending, buf, out>> /\ call # "none"
        /\ pp' = pp \/ (pp = "off" /\ pp' = "parse")
        /\ prologIdx = Len(input.prolog) => prologIdx' = prologIdx
    BY <1>0, <1>2 DEF ReadProlog, ReadPrologErr, StartClosed, StartRefused, StartSAX, ReadOn,
       TypeInv, CallType, StageInv
  <2>2. Failed' = Failed /\ Consumed' = Consumed
    BY <2>1 DEF Failed, Erroneous, Consumed
  <2>3. CASE StartClosed \/ StartSAX \/ ReadOn
    BY <2>1, <2>2, <2>3 DEF Keeps, StartClosed, StartSAX, ReadOn
  <2>4. CASE ReadPrologErr
    <3>1. Settled("syntax")
      BY <1>1, <2>1, <2>4 DEF ReadPrologErr, Errors
    <3> QED
      BY <2>1, <2>2, <3>1 DEF Settled, Errors, Keeps
  <2>5. CASE StartRefused
    <3>1. Settled("charset") /\ prologErr' = prologErr
      BY <1>1, <2>1, <2>5 DEF StartRefused, Errors
    <3> QED
      BY <2>1, <2>2, <3>1 DEF Settled, Errors, Keeps
  <2>6. CASE ReadProlog
    <3>1. Settled("charset") \/ Settled("nil")
      <4>1. Refuse("charset") => Settled("charset")
        BY <1>1, <2>1 DEF Errors
      <4>2. "misc" \in Kind
        BY DEF Kind
      <4>3. Take("misc") => Settled("nil")
        BY <4>2, <1>0, <2>1, TakeEffect DEF TypeInv
      <4> QED
        BY <4>1, <4>3, <2>6 DEF ReadProlog
    <3>2. prologErr' = prologErr
      BY <2>6 DEF ReadProlog
    <3> QED
      BY <2>1, <2>2, <3>1, <3>2 DEF Settled, Errors, Keeps
  <2> QED
    BY <1>2, <2>3, <2>4, <2>5, <2>6
<1>3. CASE NextEvent \/ NextEventEOF \/ MergeMore \/ MergeStop \/ MergeEOF
  <2>1. /\ UNCHANGED <<input, done, pos, pp, prologIdx, prologErr>> /\ call # "none"
        /\ OutInv /\ RunInv /\ QueueInv
    BY <1>3 DEF NextEvent, NextEventEOF, MergeMore, MergeStop, MergeEOF, TypeInv, CallType, OrderInv
  <2>2. ASSUME reported => reported', Failed => Failed' \/ reported', Consumed = Total => out' = out,
               result' \in {"EOF", "UnexpectedEOF"} => result' = result \/ NextEventEOF
        PROVE  Keeps
    BY <2>1, <2>2 DEF Keeps, Consumed
  <2>3. CASE NextEvent
    <3>1. PICK e : Behind(e, buf') /\ TakeEvent(e) /\ pending' = <<>> /\ pc = "recv"
      BY <2>3 DEF NextEvent, Behind
    <3>2. /\ e \in Event /\ (e.err = "nil" => e.at = Arrived + 1) /\ Arrived = Consumed
          /\ (e.err = "nil" => e.at \in 1 .. Total)
      BY <2>1, <3>1, NextInLine DEF Event, Arrived
    <3>3. CASE e.err # "nil"
      <4>1. e.err \in {"syntax", "ctx"} /\ Refuse(e.err) /\ out' = out
        BY <3>1, <3>2, <3>3 DEF TakeEvent, IsText, Event
      <4>2. Settled(e.err) /\ e.err \in Errors \ {"EOF", "UnexpectedEOF"}
        BY <1>1, <2>1, <4>1 DEF Errors
      <4> QED
        BY <2>2, <4>1, <4>2 DEF Settled
    <3>4. CASE e.err = "nil"
      <4>1. Failed => Failed'
        <5>1. CASE pending # <<>> /\ e = pending[1] /\ buf' = buf
          BY <3>4, <5>1 DEF Failed
        <5>2. CASE pending = <<>> /\ buf # <<>> /\ e = Head(buf) /\ buf' = Tail(buf)
          <6>1. /\ Len(buf') = Len(buf) - 1 /\ e = buf[1] /\ Len(buf) \in Nat \ {0}
                /\ \A i \in 1 .. Len(buf') : buf'[i] = buf[i + 1]
            BY <5>2, HeadTail DEF TypeInv, PlainType
          <6>2. \A i \in 1 .. Len(buf) : i = 1 \/ (i - 1 \in 1 .. Len(buf') /\ buf'[i - 1] = buf[i])
            BY <6>1
          <6> QED
            BY <3>4, <5>2, <6>1, <6>2 DEF Failed, Erroneous
        <5> QED
          BY <3>1, <5>1, <5>2 DEF Behind
      <4>2. CASE IsText(e)
        BY <2>2, <3>1, <3>4, <4>1, <4>2 DEF TakeEvent
      <4>3. CASE ~IsText(e)
        <5>1. Deliver(e.at, e.at)
          BY <3>1, <3>4, <4>3 DEF TakeEvent
        <5>2. Settled("nil") /\ out' = Append(out, [from |-> e.at, to |-> e.at])
          BY <2>1, <3>2, <3>4, <5>1, DeliverEffect
        <5>3. Consumed # Total
          BY <2>1, <3>2, <3>4, <5>2, ConsumedGrows
        <5> QED
          BY <2>2, <4>1, <5>2, <5>3 DEF Settled
      <4> QED
        BY <4>2, <4>3
    <3> QED
      BY <3>3, <3>4
  <2>4. CASE NextEventEOF
    <3>1. Refuse("EOF") /\ UNCHANGED <<buf, pending, out>>
      BY <2>4 DEF NextEventEOF
    <3>2. Settled("EOF") /\ Failed' = Failed
      BY <1>1, <2>1, <3>1 DEF Errors, Failed, Erroneous
    <3> QED
      BY <2>2, <2>4, <3>1, <3>2 DEF Settled
  <2>5. CASE MergeMore
    <3>1. buf # <<>> /\ buf' = Tail(buf) /\ IsText(Head(buf))
          /\ UNCHANGED <<pending, out, result, reported>>
      BY <2>5 DEF MergeMore
    <3>2. /\ Len(buf') = Len(buf) - 1 /\ Head(buf) = buf[1] /\ Len(buf) \in Nat \ {0}
          /\ \A i \in 1 .. Len(buf') : buf'[i] = buf[i + 1]
      BY <3>1, HeadTail DEF TypeInv, PlainType
    <3>3. \A i \in 1 .. Len(buf) : i = 1 \/ (i - 1 \in 1 .. Len(buf') /\ buf'[i - 1] = buf[i])
      BY <3>2
    <3>4. Failed => Failed'
      BY <3>1, <3>2, <3>3 DEF Failed, Erroneous, IsText
    <3> QED
      BY <2>2, <3>1, <3>4
  <2>6. CASE MergeStop \/ MergeEOF
    <3>1. Deliver(acc.from, acc.to) /\ pc = "merge"
      BY <2>6 DEF MergeStop, MergeEOF
    <3>2. /\ acc.from = Consumed + 1 /\ acc.from <= acc.to
          /\ acc.from \in 1 .. Total /\ acc.to \in 1 .. Total /\ pending = <<>>
      BY <2>1, <3>1 DEF RunInv, TypeInv, PlainType, Run
    <3>3. Settled("nil") /\ out' = Append(out, [from |-> acc.from, to |-> acc.to])
      BY <2>1, <3>1, <3>2, DeliverEffect
    <3>4. Consumed # Total
      BY <2>1, <3>2, <3>3, ConsumedGrows
    <3>5. Failed => Failed'
      <4>1. CASE MergeEOF
        BY <4>1 DEF MergeEOF, Failed, Erroneous
      <4>2. CASE MergeStop
        <5>1. buf # <<>> /\ buf' = Tail(buf) /\ pending' = <<Head(buf)>>
          BY <4>2 DEF MergeStop
        <5>2. /\ Len(buf') = Len(buf) - 1 /\ Head(buf) = buf[1] /\ Len(buf) \in Nat \ {0}
              /\ \A i \in 1 .. Len(buf') : buf'[i] = buf[i + 1]
          BY <5>1, HeadTail DEF TypeInv, PlainType
        <5>3. \A i \in 1 .. Len(buf) : i = 1 \/ (i - 1 \in 1 .. Len(buf') /\ buf'[i - 1] = buf[i])
          BY <5>2
        <5>4. pending' # <<>> /\ pending'[1] = buf[1]
          BY <5>1, <5>2
        <5> QED
          BY <3>2, <5>2, <5>3, <5>4 DEF Failed, Erroneous
      <4> QED
        BY <2>6, <4>1, <4>2
    <3> QED
      BY <2>2, <3>3, <3>4, <3>5 DEF Settled
  <2> QED
    BY <1>3, <2>3, <2>4, <2>5, <2>6
<1>4. CASE ReadSaved \/ ReadEnd \/ ReadNothing \/ ReadToken
  BY <1>4 DEF ReadSaved, ReadEnd, ReadNothing, ReadToken
<1> QED
  BY <1>2, <1>3, <1>4 DEF ReadStep

\* A new decoder has reported no end of file.
LEMMA InitEnd == Init => EndInv
BY DEF Init, EndInv, Over, EOFIsHonest

\* Every step keeps the end of file honest.
LEMMA EndStep ==
  ASSUME TypeInv, OrderInv, EndInv, [Next]_vars
  PROVE  EndInv'
<1>0. input' = input
  BY DEF Next, vars, Close, ParseGoroutine, Callback, PushSend, ParseCancelled, ParseEnd, FailSend,
     FailDropped, CloseEvents, Client, CallToken, CallSkip, CallDecode, CallDecodeElement,
     DecodeElementTooDeep, Call, ReadStep, ReadProlog, ReadPrologErr, StartClosed, StartRefused,
     StartSAX, ReadOn, NextEvent, NextEventEOF, MergeMore, MergeStop, MergeEOF, ReadSaved,
     ReadEnd, ReadNothing, ReadToken, readerVars, tokenVars
<1>1. SUFFICES ASSUME input.kind = "reader" PROVE EndInv'
  BY <1>0 DEF EndInv
<1> USE DEF clientVars, parseVars, fieldVars
<1>2. CASE UNCHANGED vars
  <2>1. UNCHANGED <<input, done, pp, pos, prologIdx, prologErr, pending, buf, reported, result, out>>
    BY <1>2 DEF vars
  <2>2. Failed' = Failed /\ Consumed' = Consumed /\ Over' = Over
    BY <2>1 DEF Failed, Erroneous, Consumed, Over
  <2> QED
    BY <2>1, <2>2, <1>1 DEF EndInv, EOFIsHonest
<1>3. CASE Close \/ ParseGoroutine
  <2>1. /\ UNCHANGED <<input, prologIdx, prologErr, pending, reported, result, out>>
        /\ done => done'
    BY <1>3 DEF Close, ParseGoroutine, Callback, PushSend, ParseCancelled, ParseEnd, FailSend,
       FailDropped, CloseEvents, TypeInv, PlainType
  <2>2. Consumed' = Consumed
    BY <2>1 DEF Consumed
  <2>3. EOFIsHonest'
    BY <2>1, <2>2, <1>1 DEF EndInv, EOFIsHonest
  <2>4. ASSUME UNCHANGED <<pos, buf>>
        PROVE  Failed' = Failed
    BY <2>1, <2>4 DEF Failed, Erroneous
  <2>5. pp' = "fail" => done' \/ pos' = Total
    BY <1>1, <1>3, <2>1 DEF Close, ParseGoroutine, Callback, PushSend, ParseCancelled, ParseEnd,
       FailSend, FailDropped, CloseEvents, EndInv
  <2>6. Over' => done' \/ (pos' = Total /\ (input.ends = "EOF" \/ Failed' \/ reported'))
    <3>1. CASE Close \/ CloseEvents
      BY <1>1, <2>1, <2>4, <3>1 DEF Close, CloseEvents, Over, EndInv
    <3>2. CASE Callback \/ PushSend \/ ParseCancelled
      BY <3>2 DEF Callback, PushSend, ParseCancelled, Over
    <3>3. CASE ParseEnd \/ FailDropped
      BY <3>3, <2>1 DEF ParseEnd, FailDropped, Over
    <3>4. CASE FailSend
      <4>1. /\ buf' = Append(buf, [at |-> 0, err |-> perr]) /\ perr # "nil" /\ pp = "fail"
            /\ UNCHANGED <<done, pos>> /\ Len(buf) \in Nat
            /\ [at |-> 0, err |-> perr] \in Event
        BY <3>4, SizeFacts DEF FailSend, TypeInv, StageInv, PlainType, Event
      <4>2. buf'[Len(buf')] = [at |-> 0, err |-> perr] /\ Len(buf') = Len(buf) + 1
        BY <4>1, AppendProperties DEF TypeInv, PlainType
      <4>3. Failed'
        BY <4>1, <4>2 DEF Failed, Erroneous
      <4> QED
        BY <1>1, <4>1, <4>3 DEF EndInv
    <3> QED
      BY <1>3, <3>1, <3>2, <3>3, <3>4 DEF ParseGoroutine
  <2> QED
    BY <1>0, <1>1, <2>1, <2>3, <2>5, <2>6 DEF EndInv
<1>4. CASE Client \/ ReadStep
  <2>1. Keeps
    BY <1>1, <1>4, ClientKeeps, ReaderKeeps
  <2>2. input.prologErr /\ ~prologErr' => reported'
    BY <1>1, <2>1 DEF Keeps, EndInv
  <2>3. pp' = "fail" => done' \/ pos' = Total
    BY <1>1, <2>1 DEF Keeps, EndInv
  <2>4. Over' => done' \/ (pos' = Total /\ (input.ends = "EOF" \/ Failed' \/ reported'))
    BY <1>1, <2>1 DEF Keeps, EndInv, Over
  <2>5. EOFIsHonest'
    <3>1. SUFFICES ASSUME result' \in {"EOF", "UnexpectedEOF"}, ~done'
                   PROVE  /\ prologIdx' = Len(input.prolog)
                          /\ input.prologErr \/ input.ends = "syntax" => reported'
                          /\ input.prologErr \/ input.prologOnly \/ Consumed' = Total
      BY <1>0 DEF EOFIsHonest
    <3>2. CASE result' = result
      BY <1>1, <2>1, <3>1, <3>2 DEF Keeps, EndInv, EOFIsHonest
    <3>3. CASE NextEventEOF
      <4>1. /\ pc = "recv" /\ pending = <<>> /\ buf = <<>> /\ events = "closed"
            /\ UNCHANGED <<out, done, pos, pp>>
        BY <3>3 DEF NextEventEOF, readerVars
      <4>2. Consumed' = Consumed /\ Arrived = Consumed /\ ~Failed /\ Len(<<>>) = 0
        BY <4>1, EmptySeq DEF Consumed, Arrived, Failed, Erroneous
      <4>3. pos = Consumed
        BY <1>1, <4>1, <4>2, SizeFacts DEF OrderInv, QueueInv
      <4>4. prologIdx = Len(input.prolog) /\ ~prologErr
        BY <4>1 DEF TypeInv, StageInv, PrologOver
      <4>5. input.prologErr => reported
        BY <1>1, <4>4 DEF EndInv
      <4>6. CASE pp = "off"
        <5>1. (input.prologOnly \/ input.prologErr) /\ (input.prologOnly => input.ends = "EOF")
          BY <4>1, <4>6, InputFacts DEF TypeInv, StageInv, PlainType
        <5> QED
          BY <2>1, <4>4, <4>5, <5>1 DEF Keeps
      <4>7. CASE pp = "exit"
        <5>1. pos = Total /\ (input.ends = "EOF" \/ reported)
          BY <1>1, <3>1, <4>1, <4>2, <4>7 DEF EndInv, Over
        <5> QED
          BY <2>1, <4>2, <4>3, <4>4, <4>5, <5>1 DEF Keeps
      <4> QED
        BY <4>1, <4>6, <4>7 DEF TypeInv, StageInv
    <3> QED
      BY <2>1, <3>1, <3>2, <3>3 DEF Keeps
  <2> QED
    BY <1>0, <2>2, <2>3, <2>4, <2>5 DEF EndInv
<1> QED
  BY <1>2, <1>3, <1>4 DEF Next

-----------------------------------------------------------------------------
(***************************************************************************)
(* Skip and Decode: the depth they count is the number of elements open    *)
(* since the start tag they are for.                                       *)
(***************************************************************************)
Up(k) == IF IsStart(k) THEN 1 ELSE IF IsEnd(k) THEN -1 ELSE 0

\* One more position: the count of those in S grows by at most one.
LEMMA CountStep ==
  ASSUME NEW i \in Int, NEW j \in Int, i <= j + 1, NEW S
  PROVE  /\ Cardinality(i .. j \cap S) \in Nat
         /\ Cardinality(i .. j + 1 \cap S)
              = Cardinality(i .. j \cap S) + (IF j + 1 \in S THEN 1 ELSE 0)
<1> DEFINE A == i .. j \cap S
           B == i .. j + 1 \cap S
<1>1. IsFiniteSet(A) /\ Cardinality(A) \in Nat
  <2>1. IsFiniteSet(i .. j)
    BY FS_Interval
  <2>2. IsFiniteSet(A)
    BY <2>1, FS_Subset
  <2> QED
    BY <2>2, FS_CardinalityType
<1>2. CASE j + 1 \in S
  <2>1. B = A \cup {j + 1} /\ j + 1 \notin A
    BY <1>2
  <2> HIDE DEF A, B
  <2>2. Cardinality(B) = Cardinality(A) + 1
    BY <1>1, <2>1, FS_AddElement
  <2> QED
    BY <1>1, <1>2, <2>2 DEF A, B
<1>3. CASE j + 1 \notin S
  <2>1. B = A
    BY <1>3
  <2> QED
    BY <1>1, <1>3, <2>1
<1> QED
  BY <1>2, <1>3

(* One item more changes the level by what the item does, and no item gives *)
(* level zero.                                                               *)
LEMMA LevelStep ==
  ASSUME NEW s, NEW i \in Int, NEW j \in Int, i <= j + 1
  PROVE  /\ Level(s, i, j) \in Int
         /\ Level(s, i, j + 1) = Level(s, i, j) + Up(s[j + 1].kind)
         /\ i = j + 1 => Level(s, i, j) = 0
<1> DEFINE S == {k \in Int : IsStart(s[k].kind)}
           E == {k \in Int : IsEnd(s[k].kind)}
<1>1. /\ {k \in i .. j : IsStart(s[k].kind)} = i .. j \cap S
      /\ {k \in i .. j : IsEnd(s[k].kind)} = i .. j \cap E
      /\ {k \in i .. j + 1 : IsStart(s[k].kind)} = i .. j + 1 \cap S
      /\ {k \in i .. j + 1 : IsEnd(s[k].kind)} = i .. j + 1 \cap E
  OBVIOUS
<1>3. /\ j + 1 \in S <=> IsStart(s[j + 1].kind)
      /\ j + 1 \in E <=> IsEnd(s[j + 1].kind)
      /\ ~(IsStart(s[j + 1].kind) /\ IsEnd(s[j + 1].kind))
  BY DEF IsStart, IsEnd
<1> HIDE DEF S, E
<1>2. /\ Level(s, i, j) = Cardinality(i .. j \cap S) - Cardinality(i .. j \cap E)
      /\ Level(s, i, j + 1) = Cardinality(i .. j + 1 \cap S) - Cardinality(i .. j + 1 \cap E)
  BY <1>1, Zenon DEF Level
<1>4. /\ Cardinality(i .. j \cap S) \in Nat
      /\ Cardinality(i .. j + 1 \cap S)
           = Cardinality(i .. j \cap S) + (IF j + 1 \in S THEN 1 ELSE 0)
  BY CountStep
<1>5. /\ Cardinality(i .. j \cap E) \in Nat
      /\ Cardinality(i .. j + 1 \cap E)
           = Cardinality(i .. j \cap E) + (IF j + 1 \in E THEN 1 ELSE 0)
  BY CountStep
<1>6. i = j + 1 => i .. j \cap S = {} /\ i .. j \cap E = {}
  OBVIOUS
<1>7. Level(s, i, j) \in Int /\ (i = j + 1 => Level(s, i, j) = 0)
  <2>1. Cardinality({}) = 0
    BY FS_EmptySet
  <2>2. i = j + 1 => Cardinality(i .. j \cap S) = 0 /\ Cardinality(i .. j \cap E) = 0
    BY <1>6, <2>1, Zenon
  <2> QED
    BY <1>2, <1>4, <1>5, <2>2
<1>8. Level(s, i, j + 1) = Level(s, i, j) + Up(s[j + 1].kind)
  BY <1>2, <1>3, <1>4, <1>5 DEF Up
<1> QED
  BY <1>7, <1>8

\* The level of a stretch depends on the tokens in it alone.
LEMMA LevelSame ==
  ASSUME NEW s, NEW t, NEW i \in Int, NEW j \in Int, \A k \in i .. j : s[k] = t[k]
  PROVE  Level(s, i, j) = Level(t, i, j)
<1>1. /\ {k \in i .. j : IsStart(s[k].kind)} = {k \in i .. j : IsStart(t[k].kind)}
      /\ {k \in i .. j : IsEnd(s[k].kind)} = {k \in i .. j : IsEnd(t[k].kind)}
  OBVIOUS
<1> QED
  BY <1>1 DEF Level

\* The start tag that Skip and DecodeElement are called on is the last token.
StartInv == IsStart(lastToken) => out # <<>> /\ Returned[Len(out)].kind = lastToken

\* A loop is inside its element, as deep as it counts.
InsideInv ==
  call \in {"Skip", "Populate"} =>
    /\ base \in 1 .. Len(out) /\ Level(Returned, base, Len(out)) = depth
    /\ \A j \in base .. Len(out) : Level(Returned, base, j) > 0

MatchInv == StartInv /\ InsideInv /\ LoopsStopAtMatch

\* A call that returns anything but nil claims nothing about tags.
LEMMA ReturnNot ==
  ASSUME NEW r, NEW n, Return(r, n), r # "nil"
  PROVE  InsideInv' /\ LoopsStopAtMatch'
BY DEF Return, InsideInv, LoopsStopAtMatch

\* Taking one token keeps depth the level since the loop's start tag.
LEMMA MatchTake ==
  ASSUME TypeInv, call # "none", NEW k \in Kind, Take(k), Len(out') \in Nat,
         call \in {"Skip", "Populate"} =>
           /\ base \in 1 .. Len(out')
           /\ Level(Returned', base, Len(out')) = depth + Up(k)
           /\ \A j \in base .. Len(out') - 1 : Level(Returned', base, j) > 0,
         IsStart(k) => Len(out') \in 1 .. Len(out') /\ Level(Returned', Len(out'), Len(out')) = 1
  PROVE  InsideInv' /\ LoopsStopAtMatch'
<1>0. nestDepth \in Nat /\ depth \in Nat /\ (call \in {"Skip", "Populate"} => depth >= 1)
      /\ (call = "Seek" => depth = 0)
  BY DEF TypeInv, CallType, LoopInv
<1>1. ASSUME NEW n, Return("nil", n), call \in {"Skip", "Populate"}, depth + Up(k) = 0
      PROVE  InsideInv' /\ LoopsStopAtMatch'
  BY <1>1 DEF Return, InsideInv, LoopsStopAtMatch
<1>2. ASSUME NEW c, NEW d \in Nat, Continue(c, d), call \in {"Skip", "Populate"}, base' = base,
             d = depth + Up(k), d >= 1
      PROVE  InsideInv' /\ LoopsStopAtMatch'
  <2>1. \A j \in base .. Len(out') : j \in base .. Len(out') - 1 \/ j = Len(out')
    BY <1>2
  <2>2. pc' = "read" /\ depth' = d
    BY <1>2 DEF Continue
  <2> QED
    BY <1>2, <2>1, <2>2 DEF InsideInv, LoopsStopAtMatch
<1>3. ASSUME EnterElement, k = "start", call \in {"Seek", "Populate"}
      PROVE  InsideInv' /\ LoopsStopAtMatch'
  <2>1. CASE nestDepth + 1 > MaxNesting
    <3>1. Return("depth", nestDepth + 1)
      BY <2>1, <1>3 DEF EnterElement
    <3> QED
      BY <3>1, ReturnNot
  <2>2. CASE ~(nestDepth + 1 > MaxNesting)
    <3>1. Continue("Populate", depth + 1) /\ base' = IF depth = 0 THEN Len(out') ELSE base
      BY <2>2, <1>3 DEF EnterElement
    <3>2. CASE depth = 0
      <4>1. base' = Len(out') /\ depth' = 1 /\ pc' = "read"
        BY <3>1, <3>2 DEF Continue
      <4>2. Len(out') \in 1 .. Len(out') /\ Level(Returned', Len(out'), Len(out')) = 1
        BY <1>3 DEF IsStart
      <4>3. \A j \in Len(out') .. Len(out') : j = Len(out')
        OBVIOUS
      <4> QED
        BY <4>1, <4>2, <4>3 DEF InsideInv, LoopsStopAtMatch
    <3>3. CASE depth # 0
      <4>1. base' = base /\ call \in {"Skip", "Populate"} /\ depth + 1 = depth + Up(k)
            /\ depth + 1 \in Nat /\ depth + 1 >= 1
        BY <1>0, <1>3, <3>1, <3>3 DEF Up, IsStart
      <4> QED
        BY <3>1, <4>1, <1>2
    <3> QED
      BY <3>2, <3>3
  <2> QED
    BY <2>1, <2>2
<1>4. CASE call = "Token"
  BY <1>4, ReturnNot DEF Take
<1>5. CASE call = "Skip"
  <2> DEFINE d == depth + (IF IsStart(k) THEN 1 ELSE 0) - (IF IsEnd(k) THEN 1 ELSE 0)
  <2>1. IF d = 0 THEN Return("nil", nestDepth) ELSE Continue("Skip", d) /\ UNCHANGED base
    BY <1>5 DEF Take, SkipTakes
  <2>2. d = depth + Up(k) /\ d \in Nat /\ (d # 0 => d >= 1)
    BY <1>0, <1>5 DEF Up, IsStart, IsEnd
  <2> HIDE DEF d
  <2> QED
    BY <2>1, <2>2, <1>1, <1>2, <1>5
<1>6. CASE call = "Seek"
  <2>1. CASE k = "start"
    BY <2>1, <1>6, <1>3 DEF Take, SeekTakes
  <2>2. CASE k = "oddStart"
    BY <2>2, <1>6, ReturnNot DEF Take, SeekTakes
  <2>3. CASE k \notin {"start", "oddStart"}
    <3>1. Continue("Seek", 0) /\ UNCHANGED base
      BY <2>3, <1>6 DEF Take, SeekTakes
    <3> QED
      BY <3>1 DEF Continue, InsideInv, LoopsStopAtMatch
  <2> QED
    BY <2>1, <2>2, <2>3
<1>7. CASE call = "Populate"
  <2>0. PopulateTakes(k)
    BY <1>7 DEF Take
  <2>1. CASE k = "start"
    BY <2>0, <2>1, <1>7, <1>3 DEF PopulateTakes
  <2>2. CASE k = "oddStart" \/ k = "oddEnd"
    BY <2>0, <2>2, ReturnNot DEF PopulateTakes
  <2>3. CASE k = "end" /\ depth = 1
    <3>1. Return("nil", nestDepth)
      BY <2>0, <2>3 DEF PopulateTakes
    <3>2. depth + Up(k) = 0
      BY <2>3 DEF Up, IsStart, IsEnd
    <3> QED
      BY <3>1, <3>2, <1>1, <1>7
  <2>4. CASE k = "end" /\ depth # 1
    <3>1. Continue("Populate", depth - 1) /\ UNCHANGED base
      BY <2>0, <2>4 DEF PopulateTakes
    <3>2. depth - 1 \in Nat /\ depth - 1 >= 1 /\ depth - 1 = depth + Up(k)
      BY <1>0, <1>7, <2>4 DEF Up, IsStart, IsEnd
    <3> QED
      BY <3>1, <3>2, <1>2, <1>7
  <2>5. CASE k \notin {"start", "oddStart", "oddEnd", "end"}
    <3>1. Continue("Populate", depth) /\ UNCHANGED base
      BY <2>0, <2>5 DEF PopulateTakes
    <3>2. depth = depth + Up(k)
      BY <1>0, <2>5 DEF Up, IsStart, IsEnd
    <3> QED
      BY <3>1, <3>2, <1>0, <1>2, <1>7
  <2> QED
    BY <2>1, <2>2, <2>3, <2>4, <2>5
<1> QED
  BY <1>4, <1>5, <1>6, <1>7 DEF TypeInv, CallType

\* A step that neither takes a token nor returns keeps it.
LEMMA MatchKept ==
  ASSUME MatchInv, UNCHANGED <<input, out, base, call, depth>>,
         lastToken' = lastToken \/ ~IsStart(lastToken'),
         result' = "nil" /\ pc' = "idle" => result = "nil" /\ pc = "idle"
  PROVE  MatchInv'
<1>1. Returned' = Returned
  BY DEF Returned
<1> QED
  BY <1>1 DEF MatchInv, StartInv, InsideInv, LoopsStopAtMatch

\* A call that returns an error keeps it.
LEMMA MatchRefuse ==
  ASSUME MatchInv, UNCHANGED <<input, out>>, lastToken' = lastToken \/ ~IsStart(lastToken'),
         NEW e \in Errors, Refuse(e)
  PROVE  MatchInv'
<1>1. Returned' = Returned
  BY DEF Returned
<1>2. StartInv'
  BY <1>1 DEF MatchInv, StartInv
<1>3. (IF e = "EOF" /\ call = "Populate" THEN "UnexpectedEOF" ELSE e) # "nil"
  BY DEF Errors
<1>4. InsideInv' /\ LoopsStopAtMatch'
  BY <1>3, ReturnNot DEF Refuse
<1> QED
  BY <1>2, <1>4 DEF MatchInv

\* A start tag alone is one level.
LEMMA LevelOne ==
  ASSUME NEW s, NEW n \in Nat, IsStart(s[n].kind)
  PROVE  Level(s, n, n) = 1
<1>1. n - 1 \in Int /\ n \in Int /\ n <= (n - 1) + 1 /\ n = (n - 1) + 1
  OBVIOUS
<1>2. /\ Level(s, n, (n - 1) + 1) = Level(s, n, n - 1) + Up(s[(n - 1) + 1].kind)
      /\ Level(s, n, n - 1) = 0
  BY <1>1, LevelStep
<1>3. Up(s[n].kind) = 1
  BY DEF Up
<1> QED
  BY <1>1, <1>2, <1>3

\* Delivering a token keeps it.
LEMMA MatchDeliver ==
  ASSUME TypeInv, MatchInv, call # "none", input' = input,
         NEW from \in 1 .. Total, NEW to \in 1 .. Total, Deliver(from, to)
  PROVE  MatchInv'
<1> DEFINE n == Len(out)
           k == Item(from).kind
<1>1. /\ out' = Append(out, [from |-> from, to |-> to]) /\ lastToken' = k /\ Take(k)
  BY DEF Deliver
<1>2. k \in Kind
  BY InputFacts DEF TypeInv, PlainType
<1>3. /\ out' \in Seq(Run)' /\ n \in Nat /\ Len(out') = n + 1 /\ out \in Seq(Run)
      /\ \A i \in 1 .. n : out'[i] = out[i]
      /\ out'[n + 1] = [from |-> from, to |-> to]
  BY <1>1, OutGrows DEF TypeInv, PlainType
<1>4. DOMAIN out = 1 .. n /\ DOMAIN out' = 1 .. n + 1
  BY <1>3, LenProperties
<1>5. /\ \A i \in 1 .. n : Returned'[i] = Returned[i]
      /\ Returned'[n + 1] = Item(from)
  BY <1>3, <1>4 DEF Returned
<1>6. ASSUME call \in {"Skip", "Populate"}
      PROVE  /\ base \in 1 .. n + 1
             /\ Level(Returned', base, n + 1) = depth + Up(k)
             /\ \A j \in base .. n : Level(Returned', base, j) > 0
  <2>1. /\ base \in 1 .. n /\ Level(Returned, base, n) = depth
        /\ \A j \in base .. n : Level(Returned, base, j) > 0
    BY <1>6 DEF MatchInv, InsideInv
  <2>2. \A j \in base .. n : Level(Returned', base, j) = Level(Returned, base, j)
    <3>1. TAKE j \in base .. n
    <3>2. \A i \in base .. j : Returned'[i] = Returned[i]
      BY <1>5, <2>1
    <3>3. base \in Int /\ j \in Int
      BY <1>3, <2>1
    <3> QED
      BY <3>2, <3>3, LevelSame
  <2>3. Level(Returned', base, n + 1) = Level(Returned', base, n) + Up(Returned'[n + 1].kind)
    <3>1. base \in Int /\ n \in Int /\ base <= n + 1
      BY <1>3, <2>1
    <3> QED
      BY <3>1, LevelStep
  <2>4. Level(Returned', base, n) = depth
    BY <1>3, <2>1, <2>2
  <2> QED
    BY <1>3, <1>5, <2>1, <2>2, <2>3, <2>4
<1>7. IsStart(k) => Level(Returned', n + 1, n + 1) = 1
  BY <1>3, <1>5, LevelOne
<1>8. /\ Len(out') \in Nat
      /\ call \in {"Skip", "Populate"} =>
           /\ base \in 1 .. Len(out')
           /\ Level(Returned', base, Len(out')) = depth + Up(k)
           /\ \A j \in base .. Len(out') - 1 : Level(Returned', base, j) > 0
      /\ IsStart(k) => Len(out') \in 1 .. Len(out') /\ Level(Returned', Len(out'), Len(out')) = 1
  <2>1. Len(out') - 1 = n /\ Len(out') = n + 1 /\ n + 1 \in Nat /\ n + 1 \in 1 .. n + 1
    BY <1>3
  <2> HIDE DEF n, k
  <2> QED
    BY <2>1, <1>6, <1>7
<1>9. StartInv'
  <2>1. out' # <<>> /\ Returned'[Len(out')].kind = k
    BY <1>3, <1>5, EmptySeq
  <2> QED
    BY <1>1, <2>1 DEF StartInv
<1> HIDE DEF n, k
<1>10. InsideInv' /\ LoopsStopAtMatch'
  BY <1>1, <1>2, <1>8, MatchTake
<1> QED
  BY <1>9, <1>10 DEF MatchInv

\* A new decoder is in no loop.
LEMMA InitMatch == Init => MatchInv
BY DEF Init, MatchInv, StartInv, InsideInv, LoopsStopAtMatch, IsStart

\* Every step keeps the loops of Skip and Decode at their level.
LEMMA MatchStep ==
  ASSUME TypeInv, MatchInv, [Next]_vars
  PROVE  MatchInv'
<1> USE DEF vars, clientVars, parseVars, fieldVars, loopVars, readerVars, tokenVars
<1>1. CASE UNCHANGED vars \/ Close \/ ParseGoroutine
  <2>1. UNCHANGED <<input, out, base, call, depth, lastToken, result, pc>>
    BY <1>1 DEF Close, ParseGoroutine, Callback, PushSend, ParseCancelled, ParseEnd, FailSend,
       FailDropped, CloseEvents
  <2> QED
    BY <2>1, MatchKept
<1>2. CASE Client
  <2>1. UNCHANGED <<input, out, lastToken>> /\ Returned' = Returned /\ pc = "idle"
    BY <1>2 DEF Client, CallToken, CallSkip, CallDecode, CallDecodeElement, DecodeElementTooDeep,
       Call, Returned
  <2>2. StartInv'
    BY <2>1 DEF MatchInv, StartInv
  <2>3. CASE CallSkip \/ CallDecodeElement
    <3>1. IsStart(lastToken) /\ pc' = "read" /\ depth' = 1 /\ base' = Len(out)
      BY <2>3 DEF CallSkip, CallDecodeElement, Call, IsStart
    <3>2. Returned[Len(out)].kind = lastToken /\ Len(out) \in Nat /\ Len(out) \in 1 .. Len(out)
      BY <3>1, SizeFacts DEF MatchInv, StartInv
    <3>3. Level(Returned, Len(out), Len(out)) = 1
      BY <3>1, <3>2, LevelOne
    <3>4. \A j \in Len(out) .. Len(out) : j = Len(out)
      BY <3>2
    <3>5. InsideInv' /\ LoopsStopAtMatch'
      BY <2>1, <3>1, <3>2, <3>3, <3>4 DEF InsideInv, LoopsStopAtMatch
    <3> QED
      BY <2>2, <3>5 DEF MatchInv
  <2>4. CASE CallToken \/ CallDecode
    BY <2>2, <2>4 DEF CallToken, CallDecode, Call, MatchInv, InsideInv, LoopsStopAtMatch
  <2>5. CASE DecodeElementTooDeep
    BY <2>1, <2>2, <2>5 DEF DecodeElementTooDeep, MatchInv, InsideInv, LoopsStopAtMatch, TypeInv,
       CallType
  <2> QED
    BY <1>2, <2>3, <2>4, <2>5 DEF Client
<1>3. CASE StartClosed \/ StartSAX \/ ReadOn \/ MergeMore
  <2>1. UNCHANGED <<input, out, base, call, depth, lastToken, result>> /\ pc' # "idle"
    BY <1>3 DEF StartClosed, StartSAX, ReadOn, MergeMore
  <2> QED
    BY <2>1, MatchKept
<1>4. CASE ReadPrologErr \/ StartRefused \/ NextEventEOF \/ ReadSaved \/ ReadEnd
  <2>1. UNCHANGED <<input, out, lastToken>> /\ \E e \in Errors : Refuse(e)
    BY <1>4, InputFacts DEF ReadPrologErr, StartRefused, NextEventEOF, ReadSaved, ReadEnd, Errors,
       TypeInv, PlainType
  <2> QED
    BY <2>1, MatchRefuse
<1>5. CASE ReadProlog
  <2>1. /\ UNCHANGED <<input, out>> /\ ~IsStart(lastToken') /\ Returned' = Returned /\ call # "none"
    BY <1>5 DEF ReadProlog, IsStart, Returned, TypeInv, CallType
  <2>2. CASE Refuse("charset")
    BY <2>1, <2>2, MatchRefuse DEF Errors
  <2>3. CASE Take("misc")
    <3>1. "misc" \in Kind /\ Up("misc") = 0 /\ ~IsStart("misc")
      BY DEF Kind, Up, IsStart, IsEnd
    <3>2. Len(out) \in Nat /\ depth \in Nat
      BY SizeFacts DEF TypeInv, CallType
    <3>3. call \in {"Skip", "Populate"} =>
            /\ base \in 1 .. Len(out') /\ Level(Returned', base, Len(out')) = depth + Up("misc")
            /\ \A j \in base .. Len(out') - 1 : Level(Returned', base, j) > 0
      BY <2>1, <3>1, <3>2 DEF MatchInv, InsideInv
    <3>4. InsideInv' /\ LoopsStopAtMatch'
      BY <2>1, <2>3, <3>1, <3>2, <3>3, MatchTake
    <3> QED
      BY <2>1, <3>4 DEF MatchInv, StartInv
  <2> QED
    BY <1>5, <2>2, <2>3 DEF ReadProlog
<1>6. CASE NextEvent
  <2>1. PICK e \in Event : TakeEvent(e)
    <3>1. /\ buf # <<>> => Head(buf) \in Event
          /\ pending # <<>> => pending[1] \in Event
      BY SizeFacts, HeadTail DEF TypeInv, PlainType
    <3> QED
      BY <1>6, <3>1 DEF NextEvent
  <2>2. input' = input /\ call # "none"
    BY <1>6 DEF NextEvent, TypeInv, CallType
  <2>3. CASE e.err # "nil"
    <3>1. e.err \in {"syntax", "ctx"}
      BY <2>1, <2>3 DEF Event
    <3>2. Refuse(e.err) /\ UNCHANGED <<lastToken, acc, out>> /\ e.err \in Errors
      BY <2>1, <2>3, <3>1 DEF TakeEvent, IsText, Errors
    <3> QED
      BY <2>2, <3>2, MatchRefuse
  <2>4. CASE e.err = "nil" /\ IsText(e)
    <3>1. UNCHANGED <<input, out, base, call, depth, lastToken, result>> /\ pc' = "merge"
      BY <2>1, <2>2, <2>4 DEF TakeEvent
    <3> QED
      BY <3>1, MatchKept
  <2>5. CASE e.err = "nil" /\ ~IsText(e)
    <3>1. Deliver(e.at, e.at) /\ e.at \in 1 .. Total
      BY <2>1, <2>5 DEF TakeEvent, Event
    <3> QED
      BY <2>2, <3>1, MatchDeliver
  <2> QED
    BY <2>3, <2>4, <2>5
<1>7. CASE MergeStop \/ MergeEOF
  <2>1. Deliver(acc.from, acc.to) /\ input' = input /\ call # "none" /\ pc = "merge"
    BY <1>7 DEF MergeStop, MergeEOF, TypeInv, CallType
  <2>2. acc.from \in 1 .. Total /\ acc.to \in 1 .. Total
    BY <2>1 DEF TypeInv, PlainType, Run
  <2> QED
    BY <2>1, <2>2, MatchDeliver
<1>8. CASE ReadNothing
  <2>1. UNCHANGED <<input, out, lastToken>> /\ TakeNothing /\ pc = "read"
    BY <1>8 DEF ReadNothing
  <2>2. CASE UNCHANGED <<pc, call, depth, nestDepth, result, base, reported>>
    BY <2>1, <2>2, MatchKept
  <2>3. CASE Return("nothing", nestDepth) \/ Return("NoProgress", nestDepth)
    <3>1. InsideInv' /\ LoopsStopAtMatch'
      BY <2>3, ReturnNot
    <3>2. Returned' = Returned
      BY <2>1 DEF Returned
    <3> QED
      BY <2>1, <3>1, <3>2 DEF MatchInv, StartInv
  <2> QED
    BY <2>1, <2>2, <2>3 DEF TakeNothing
<1>9. CASE ReadToken
  <2>1. input' = input /\ call # "none" /\ pos + 1 \in 1 .. Total
    BY <1>9, SizeFacts DEF ReadToken, TypeInv, CallType
  <2>2. CASE Item(pos + 1).kind = "decl" /\ sawContent
    <3>1. Refuse("notAtStart") /\ UNCHANGED <<lastToken, out>>
      BY <1>9, <2>2 DEF ReadToken
    <3> QED
      BY <2>1, <3>1, MatchRefuse DEF Errors
  <2>3. CASE ~(Item(pos + 1).kind = "decl" /\ sawContent)
    <3>1. Deliver(pos + 1, pos + 1)
      BY <1>9, <2>3 DEF ReadToken
    <3> QED
      BY <2>1, <3>1, MatchDeliver
  <2> QED
    BY <2>2, <2>3
<1> QED
  BY <1>1, <1>2, <1>3, <1>4, <1>5, <1>6, <1>7, <1>8, <1>9 DEF Next, ReadStep

-----------------------------------------------------------------------------
(***************************************************************************)
(* Namespaces: nsPrev is a stack of the open elements, and each entry      *)
(* holds what the elements below it bind.                                  *)
(***************************************************************************)
Hidden == UNION {[P -> Nat] : P \in SUBSET Prefixes}

Declaring(item) == {p \in Prefixes : item.decl[p] # 0}

OpenAt(items, n) ==
  {i \in 1 .. n : IsStart(items[i].kind) /\ \A j \in i .. n : Level(items, i, j) > 0}

\* The innermost of the first k elements of st that declares p binds it to v.
Binds(items, st, k, p, v) ==
  \/ v = 0 /\ \A j \in 1 .. k : items[st[j]].decl[p] = 0
  \/ /\ v # 0
     /\ \E j \in 1 .. k : /\ items[st[j]].decl[p] = v
                          /\ \A l \in j + 1 .. k : items[st[l]].decl[p] = 0

\* st lists the elements open after n items, outermost first.
Stack(items, st, n) ==
  /\ st \in Seq(Nat) /\ Level(items, 1, n) = Len(st)
  /\ \A k \in 1 .. Len(st) : /\ st[k] \in OpenAt(items, n)
                             /\ Level(items, st[k], n) = Len(st) - k + 1
  /\ \A k, l \in 1 .. Len(st) : k < l => st[k] < st[l]
  /\ \A i \in OpenAt(items, n) : \E k \in 1 .. Len(st) : i = st[k]

\* scope and prev are what the open elements make of them.
Scopes(items, st, prev, scope) ==
  /\ scope \in [Prefixes -> Nat] /\ prev \in Seq(Hidden) /\ Len(prev) = Len(st)
  /\ \A p \in Prefixes : Binds(items, st, Len(st), p, scope[p])
  /\ \A k \in 1 .. Len(st) :
       /\ prev[k] \in [Declaring(items[st[k]]) -> Nat]
       /\ \A p \in Declaring(items[st[k]]) : Binds(items, st, k - 1, p, prev[k][p])

ScopeInv ==
  /\ nsScope \in [Prefixes -> Nat] /\ nsPrev \in Seq(Hidden)
  /\ pp = "off" => nsPrev = <<>> /\ nsScope = [p \in Prefixes |-> 0]
  /\ pp \in {"parse", "push"} =>
       \E st \in Seq(Nat) : /\ Stack(input.items, st, Seen)
                            /\ Scopes(input.items, st, nsPrev, nsScope)

\* Which elements are open after one more token.
LEMMA OpenStep ==
  ASSUME NEW items, NEW n \in Nat
  PROVE  /\ \A i \in OpenAt(items, n) :
              Level(items, i, n) + Up(items[n + 1].kind) > 0 => i \in OpenAt(items, n + 1)
         /\ \A i \in OpenAt(items, n + 1) :
              \/ i = n + 1 /\ IsStart(items[n + 1].kind)
              \/ i \in OpenAt(items, n) /\ Level(items, i, n) + Up(items[n + 1].kind) > 0
         /\ IsStart(items[n + 1].kind) => n + 1 \in OpenAt(items, n + 1)
<1>1. \A i \in 1 .. n + 1 : Level(items, i, n + 1) = Level(items, i, n) + Up(items[n + 1].kind)
  <2>1. TAKE i \in 1 .. n + 1
  <2>2. i \in Int /\ n \in Int /\ i <= n + 1
    OBVIOUS
  <2> QED
    BY <2>2, LevelStep
<1>2. \A i \in 1 .. n : \A j \in i .. n + 1 : j \in i .. n \/ j = n + 1
  OBVIOUS
<1>3. \A i \in OpenAt(items, n) :
        Level(items, i, n) + Up(items[n + 1].kind) > 0 => i \in OpenAt(items, n + 1)
  BY <1>1, <1>2 DEF OpenAt
<1>4. ASSUME NEW i \in OpenAt(items, n + 1)
      PROVE  \/ i = n + 1 /\ IsStart(items[n + 1].kind)
             \/ i \in OpenAt(items, n) /\ Level(items, i, n) + Up(items[n + 1].kind) > 0
  <2>1. i \in 1 .. n + 1 /\ IsStart(items[i].kind) /\ \A j \in i .. n + 1 : Level(items, i, j) > 0
    BY <1>4 DEF OpenAt
  <2>2. CASE i = n + 1
    BY <2>1, <2>2
  <2>3. CASE i \in 1 .. n
    <3>1. n + 1 \in i .. n + 1 /\ \A j \in i .. n : j \in i .. n + 1
      BY <2>3
    <3> QED
      BY <1>1, <2>1, <2>3, <3>1 DEF OpenAt
  <2> QED
    BY <2>1, <2>2, <2>3
<1>5. IsStart(items[n + 1].kind) => n + 1 \in OpenAt(items, n + 1)
  <2>1. SUFFICES ASSUME IsStart(items[n + 1].kind) PROVE n + 1 \in OpenAt(items, n + 1)
    OBVIOUS
  <2>2. Level(items, n + 1, n + 1) = 1
    BY <2>1, LevelOne
  <2>3. \A j \in n + 1 .. n + 1 : j = n + 1
    OBVIOUS
  <2> QED
    BY <2>1, <2>2, <2>3 DEF OpenAt
<1> QED
  BY <1>3, <1>4, <1>5

(* An item that is no tag leaves the stack alone.                           *)
LEMMA StackOther ==
  ASSUME NEW items, NEW n \in Nat, NEW st, Stack(items, st, n), Up(items[n + 1].kind) = 0
  PROVE  Stack(items, st, n + 1)
<1>1. ~IsStart(items[n + 1].kind)
  BY DEF Up
<1>2. /\ 1 \in Int /\ n \in Int /\ 1 <= n + 1 /\ Len(st) \in Nat
      /\ \A k \in 1 .. Len(st) : st[k] \in 1 .. n
  BY LenProperties DEF Stack, OpenAt
<1>3. Level(items, 1, n + 1) = Len(st)
  BY <1>2, LevelStep DEF Stack
<1>4. \A k \in 1 .. Len(st) : Level(items, st[k], n + 1) = Len(st) - k + 1
  <2>1. TAKE k \in 1 .. Len(st)
  <2>2. st[k] \in Int /\ st[k] <= n + 1 /\ Level(items, st[k], n) = Len(st) - k + 1
    BY <1>2 DEF Stack
  <2>3. Level(items, st[k], n + 1) = Level(items, st[k], n) + Up(items[n + 1].kind)
    BY <1>2, <2>2, LevelStep
  <2> QED
    BY <1>2, <2>2, <2>3
<1>5. \A k \in 1 .. Len(st) : st[k] \in OpenAt(items, n + 1)
  <2>1. \A k \in 1 .. Len(st) : /\ st[k] \in OpenAt(items, n) /\ Len(st) - k + 1 > 0
                                /\ Level(items, st[k], n) = Len(st) - k + 1
    BY <1>2 DEF Stack
  <2> QED
    BY <1>2, <2>1, OpenStep
<1>6. \A i \in OpenAt(items, n + 1) : i \in OpenAt(items, n)
  BY <1>1, OpenStep
<1> QED
  BY <1>3, <1>4, <1>5, <1>6 DEF Stack

(* A start tag is pushed.                                                   *)
LEMMA StackPush ==
  ASSUME NEW items, NEW n \in Nat, NEW st, Stack(items, st, n), IsStart(items[n + 1].kind)
  PROVE  Stack(items, Append(st, n + 1), n + 1)
<1> DEFINE m == Len(st)
           tt == Append(st, n + 1)
<1>0. st \in Seq(Nat)
  BY DEF Stack
<1>1. /\ m \in Nat /\ tt \in Seq(Nat) /\ Len(tt) = m + 1 /\ tt[m + 1] = n + 1
      /\ \A k \in 1 .. m : tt[k] = st[k]
  BY <1>0, AppendProperties, LenProperties
<1>2. 1 \in Int /\ n \in Int /\ 1 <= n + 1 /\ \A k \in 1 .. m : st[k] \in 1 .. n
  BY DEF Stack, OpenAt
<1>3. Up(items[n + 1].kind) = 1
  BY DEF Up
<1>4. Level(items, 1, n + 1) = m + 1
  <2>1. Level(items, 1, n + 1) = Level(items, 1, n) + Up(items[n + 1].kind)
    BY <1>2, LevelStep
  <2> QED
    BY <1>1, <1>3, <2>1 DEF Stack
<1>5. \A k \in 1 .. m : /\ st[k] \in OpenAt(items, n) /\ Level(items, st[k], n) = m - k + 1
                        /\ m - k + 1 > 0
  BY <1>1 DEF Stack
<1>6. \A k \in 1 .. m : Level(items, st[k], n + 1) = m + 1 - k + 1
  <2>1. TAKE k \in 1 .. m
  <2>2. st[k] \in Int /\ st[k] <= n + 1
    BY <1>2
  <2>3. Level(items, st[k], n + 1) = Level(items, st[k], n) + Up(items[n + 1].kind)
    BY <1>2, <2>2, LevelStep
  <2> QED
    BY <1>1, <1>3, <1>5, <2>3
<1>7. \A k \in 1 .. m : st[k] \in OpenAt(items, n + 1)
  <2>1. TAKE k \in 1 .. m
  <2>2. Level(items, st[k], n) + Up(items[n + 1].kind) > 0
    BY <1>1, <1>3, <1>5
  <2> QED
    BY <1>5, <2>2, OpenStep
<1>8. n + 1 \in OpenAt(items, n + 1) /\ Level(items, n + 1, n + 1) = 1
  <2>1. n + 1 \in Nat
    OBVIOUS
  <2>2. Level(items, n + 1, n + 1) = 1
    BY <2>1, LevelOne
  <2> QED
    BY <2>2, OpenStep
<1>9. \A k \in 1 .. m + 1 : k \in 1 .. m \/ k = m + 1
  BY <1>1
<1>10. \A k \in 1 .. Len(tt) : /\ tt[k] \in OpenAt(items, n + 1)
                               /\ Level(items, tt[k], n + 1) = Len(tt) - k + 1
  BY <1>1, <1>6, <1>7, <1>8, <1>9
<1>11. \A k, l \in 1 .. Len(tt) : k < l => tt[k] < tt[l]
  <2>1. \A k, l \in 1 .. m : k < l => st[k] < st[l]
    BY DEF Stack
  <2> QED
    BY <1>1, <1>2, <1>9, <2>1
<1>12. \A i \in OpenAt(items, n + 1) : \E k \in 1 .. Len(tt) : i = tt[k]
  <2>1. \A i \in OpenAt(items, n + 1) : i = n + 1 \/ i \in OpenAt(items, n)
    BY OpenStep
  <2>2. \A i \in OpenAt(items, n) : \E k \in 1 .. m : i = st[k]
    BY DEF Stack
  <2>3. m + 1 \in 1 .. m + 1 /\ \A k \in 1 .. m : k \in 1 .. m + 1
    BY <1>1
  <2> HIDE DEF m, tt
  <2> QED
    BY <1>1, <2>1, <2>2, <2>3
<1> HIDE DEF m, tt
<1> QED
  BY <1>1, <1>4, <1>10, <1>11, <1>12 DEF Stack, tt

(* An end tag pops the innermost element.                                   *)
LEMMA StackPop ==
  ASSUME NEW items, NEW n \in Nat, NEW st, Stack(items, st, n), IsEnd(items[n + 1].kind),
         Level(items, 1, n + 1) >= 0
  PROVE  Len(st) \in Nat \ {0} /\ Stack(items, SubSeq(st, 1, Len(st) - 1), n + 1)
<1> DEFINE m == Len(st)
           tt == SubSeq(st, 1, m - 1)
<1>0. st \in Seq(Nat) /\ m \in Nat
  BY LenProperties DEF Stack
<1>2. 1 \in Int /\ n \in Int /\ 1 <= n + 1 /\ \A k \in 1 .. m : st[k] \in 1 .. n
  BY DEF Stack, OpenAt
<1>3. Up(items[n + 1].kind) = -1 /\ ~IsStart(items[n + 1].kind)
  BY DEF Up, IsStart, IsEnd
<1>4. Level(items, 1, n + 1) = m - 1 /\ m \in Nat \ {0}
  <2>1. Level(items, 1, n + 1) = Level(items, 1, n) + Up(items[n + 1].kind)
    BY <1>2, LevelStep
  <2> QED
    BY <1>0, <1>3, <2>1 DEF Stack
<1>1. /\ tt \in Seq(Nat) /\ Len(tt) = m - 1 /\ \A k \in 1 .. m - 1 : tt[k] = st[k]
  <2>1. 1 .. m - 1 \subseteq 1 .. m /\ m - 1 \in Nat
    BY <1>4
  <2>2. \A k \in 1 .. m : st[k] \in Nat
    BY <1>0, ElementOfSeq
  <2>3. tt = [k \in 1 .. m - 1 |-> st[k]]
    BY <1>0, <1>4
  <2> HIDE DEF m, tt
  <2>4. tt \in [1 .. m - 1 -> Nat]
    BY <2>1, <2>2, <2>3
  <2>5. tt \in Seq(Nat)
    BY <2>1, <2>4, SeqDef
  <2>6. Len(tt) \in Nat /\ DOMAIN tt = 1 .. Len(tt)
    BY <2>5, LenProperties
  <2>7. DOMAIN tt = 1 .. m - 1
    BY <2>4
  <2> QED
    BY <2>1, <2>3, <2>5, <2>6, <2>7
<1>5. \A k \in 1 .. m : st[k] \in OpenAt(items, n) /\ Level(items, st[k], n) = m - k + 1
  BY DEF Stack
<1>6. \A k \in 1 .. m - 1 : k \in 1 .. m /\ m - k > 0
  BY <1>0
<1>7. \A k \in 1 .. m : Level(items, st[k], n + 1) = m - k
  <2>1. TAKE k \in 1 .. m
  <2>2. st[k] \in Int /\ st[k] <= n + 1
    BY <1>2
  <2>3. Level(items, st[k], n + 1) = Level(items, st[k], n) + Up(items[n + 1].kind)
    BY <1>2, <2>2, LevelStep
  <2> QED
    BY <1>0, <1>3, <1>5, <2>3
<1>8. \A k \in 1 .. m - 1 : st[k] \in OpenAt(items, n + 1)
  <2>1. TAKE k \in 1 .. m - 1
  <2>2. Level(items, st[k], n) + Up(items[n + 1].kind) > 0 /\ st[k] \in OpenAt(items, n)
    BY <1>0, <1>3, <1>5, <1>6
  <2> QED
    BY <2>2, OpenStep
<1>10. \A k \in 1 .. Len(tt) : /\ tt[k] \in OpenAt(items, n + 1)
                               /\ Level(items, tt[k], n + 1) = Len(tt) - k + 1
  <2>1. TAKE k \in 1 .. Len(tt)
  <2>2. k \in 1 .. m - 1 /\ k \in 1 .. m /\ tt[k] = st[k] /\ m - k = (m - 1) - k + 1
    BY <1>0, <1>1
  <2> HIDE DEF m, tt
  <2> QED
    BY <1>1, <1>7, <1>8, <2>2
<1>11. \A k, l \in 1 .. Len(tt) : k < l => tt[k] < tt[l]
  <2>1. \A k, l \in 1 .. m : k < l => st[k] < st[l]
    BY DEF Stack
  <2> HIDE DEF m, tt
  <2> QED
    BY <1>0, <1>1, <1>6, <2>1
<1>12. \A i \in OpenAt(items, n + 1) : \E k \in 1 .. Len(tt) : i = tt[k]
  <2>1. TAKE i \in OpenAt(items, n + 1)
  <2>2. i \in OpenAt(items, n) /\ Level(items, i, n) + Up(items[n + 1].kind) > 0
    BY <1>3, OpenStep
  <2>3. PICK k \in 1 .. m : i = st[k]
    BY <2>2 DEF Stack
  <2>4. k \in 1 .. m - 1
    BY <1>0, <1>3, <1>5, <2>2, <2>3
  <2> HIDE DEF m, tt
  <2> QED
    BY <1>1, <2>3, <2>4
<1> HIDE DEF m, tt
<1> QED
  BY <1>1, <1>4, <1>10, <1>11, <1>12 DEF Stack, tt, m

(* Bindings depend on the elements they are about only.                     *)
LEMMA BindsSame ==
  ASSUME NEW items, NEW st, NEW tt, NEW k \in Nat, NEW p, NEW v,
         \A j \in 1 .. k : st[j] = tt[j], Binds(items, st, k, p, v)
  PROVE  Binds(items, tt, k, p, v)
<1>1. \A j \in 1 .. k : \A l \in j + 1 .. k : l \in 1 .. k
  OBVIOUS
<1> QED
  BY <1>1 DEF Binds

(* The next element's own declaration comes first, and otherwise nothing    *)
(* changes.                                                                 *)
LEMMA BindsNext ==
  ASSUME NEW items, NEW st, NEW k \in Nat, NEW p, NEW v \in Nat
  PROVE  /\ items[st[k + 1]].decl[p] # 0 =>
              Binds(items, st, k + 1, p, items[st[k + 1]].decl[p])
         /\ items[st[k + 1]].decl[p] = 0 =>
              (Binds(items, st, k + 1, p, v) <=> Binds(items, st, k, p, v))
<1>1. /\ \A j \in 1 .. k + 1 : j \in 1 .. k \/ j = k + 1
      /\ \A j \in 1 .. k : j \in 1 .. k + 1
      /\ \A j \in 1 .. k : \A l \in j + 1 .. k + 1 : l \in j + 1 .. k \/ l = k + 1
      /\ \A j \in 1 .. k : \A l \in j + 1 .. k : l \in j + 1 .. k + 1
      /\ k + 1 \in 1 .. k + 1 /\ (k + 1) + 1 .. k + 1 = {}
  OBVIOUS
<1>2. items[st[k + 1]].decl[p] # 0 => Binds(items, st, k + 1, p, items[st[k + 1]].decl[p])
  BY <1>1 DEF Binds
<1>3. ASSUME items[st[k + 1]].decl[p] = 0, Binds(items, st, k + 1, p, v)
      PROVE  Binds(items, st, k, p, v)
  BY <1>1, <1>3 DEF Binds
<1>4. ASSUME items[st[k + 1]].decl[p] = 0, Binds(items, st, k, p, v)
      PROVE  Binds(items, st, k + 1, p, v)
  BY <1>1, <1>4 DEF Binds
<1> QED
  BY <1>2, <1>3, <1>4

\* What a start tag hides, and what it leaves in scope.
Covered(item, scope) == [p \in Declaring(item) |-> scope[p]]
Covering(item, scope) == [p \in Prefixes |-> IF p \in Declaring(item) THEN item.decl[p] ELSE scope[p]]

\* A start tag covers the bindings of the prefixes it declares.
LEMMA ScopesPush ==
  ASSUME NEW items, NEW st \in Seq(Nat), NEW prev, NEW scope, Scopes(items, st, prev, scope),
         NEW i \in Nat, items[i].decl \in [Prefixes -> Nat]
  PROVE  Scopes(items, Append(st, i), Append(prev, Covered(items[i], scope)),
                Covering(items[i], scope))
<1> DEFINE m == Len(st)
           tt == Append(st, i)
           h == [p \in Declaring(items[i]) |-> scope[p]]
           qrev == Append(prev, h)
           tcope == [p \in Prefixes |-> IF p \in Declaring(items[i]) THEN items[i].decl[p]
                                        ELSE scope[p]]
<1>1. /\ m \in Nat /\ Len(tt) = m + 1 /\ tt[m + 1] = i /\ \A k \in 1 .. m : tt[k] = st[k]
  BY AppendProperties, LenProperties
<1>2. /\ scope \in [Prefixes -> Nat] /\ prev \in Seq(Hidden) /\ Len(prev) = m
      /\ \A p \in Prefixes : Binds(items, st, m, p, scope[p])
      /\ \A k \in 1 .. m :
           /\ prev[k] \in [Declaring(items[st[k]]) -> Nat]
           /\ \A p \in Declaring(items[st[k]]) : Binds(items, st, k - 1, p, prev[k][p])
  BY DEF Scopes
<1>3. h \in [Declaring(items[i]) -> Nat] /\ h \in Hidden /\ tcope \in [Prefixes -> Nat]
  <2>1. Declaring(items[i]) \in SUBSET Prefixes
    BY DEF Declaring
  <2>2. tcope \in [Prefixes -> Nat]
    BY <1>2
  <2>3. h \in [Declaring(items[i]) -> Nat]
    BY <1>2, <2>1
  <2> HIDE DEF h, tcope
  <2> QED
    BY <2>1, <2>2, <2>3 DEF Hidden
<1>4. /\ qrev \in Seq(Hidden) /\ Len(qrev) = m + 1 /\ qrev[m + 1] = h
      /\ \A k \in 1 .. m : qrev[k] = prev[k]
  BY <1>1, <1>2, <1>3, AppendProperties
<1>5. \A p \in Prefixes : Binds(items, tt, m, p, scope[p])
  <2>1. TAKE p \in Prefixes
  <2>2. Binds(items, st, m, p, scope[p])
    BY <1>2
  <2> HIDE DEF m, tt
  <2> QED
    BY <1>1, <2>2, BindsSame
<1>6. \A p \in Prefixes : Binds(items, tt, m + 1, p, tcope[p])
  <2>1. TAKE p \in Prefixes
  <2>2. scope[p] \in Nat /\ tcope[p] = (IF items[i].decl[p] # 0 THEN items[i].decl[p] ELSE scope[p])
    BY <1>2 DEF Declaring
  <2>3. Binds(items, tt, m, p, scope[p]) /\ items[tt[m + 1]].decl[p] = items[i].decl[p]
    BY <1>1, <1>5
  <2> HIDE DEF m, tt, tcope
  <2>4. /\ items[tt[m + 1]].decl[p] # 0 =>
              Binds(items, tt, m + 1, p, items[tt[m + 1]].decl[p])
        /\ items[tt[m + 1]].decl[p] = 0 =>
              (Binds(items, tt, m + 1, p, scope[p]) <=> Binds(items, tt, m, p, scope[p]))
    BY <1>1, <2>2, BindsNext
  <2> QED
    BY <2>2, <2>3, <2>4
<1>7. \A k \in 1 .. m + 1 :
        /\ qrev[k] \in [Declaring(items[tt[k]]) -> Nat]
        /\ \A p \in Declaring(items[tt[k]]) : Binds(items, tt, k - 1, p, qrev[k][p])
  <2>1. TAKE k \in 1 .. m + 1
  <2>2. CASE k \in 1 .. m
    <3>1. qrev[k] = prev[k] /\ tt[k] = st[k] /\ k - 1 \in Nat
          /\ \A j \in 1 .. k - 1 : st[j] = tt[j]
      BY <1>1, <1>4, <2>2
    <3>2. /\ prev[k] \in [Declaring(items[st[k]]) -> Nat]
          /\ \A p \in Declaring(items[st[k]]) : Binds(items, st, k - 1, p, prev[k][p])
      BY <1>2, <2>2
    <3> HIDE DEF m, tt, qrev
    <3>3. \A p \in Declaring(items[st[k]]) : Binds(items, tt, k - 1, p, prev[k][p])
      BY <3>1, <3>2, BindsSame
    <3> QED
      BY <3>1, <3>2, <3>3
  <2>3. CASE k = m + 1
    <3>1. qrev[k] = h /\ tt[k] = i /\ k - 1 = m
      BY <1>1, <1>4, <2>3
    <3>2. \A p \in Declaring(items[i]) : p \in Prefixes /\ h[p] = scope[p]
      BY DEF Declaring
    <3> HIDE DEF m, tt, qrev, h
    <3>3. ASSUME NEW p \in Declaring(items[tt[k]])
          PROVE  Binds(items, tt, k - 1, p, qrev[k][p])
      <4>1. p \in Prefixes /\ qrev[k][p] = scope[p]
        BY <3>1, <3>2, <3>3
      <4>2. Binds(items, tt, m, p, scope[p])
        BY <1>5, <4>1
      <4> QED
        BY <3>1, <4>1, <4>2
    <3> QED
      BY <1>3, <3>1, <3>3
  <2>4. k \in 1 .. m \/ k = m + 1
    BY <1>1
  <2> HIDE DEF m, tt, qrev
  <2> QED
    BY <2>2, <2>3, <2>4
<1> HIDE DEF m, tt, h, qrev, tcope
<1>8. Scopes(items, tt, qrev, tcope)
  BY <1>1, <1>3, <1>4, <1>6, <1>7 DEF Scopes
<1>9. h = Covered(items[i], scope) /\ tcope = Covering(items[i], scope)
  BY DEF h, tcope, Covered, Covering
<1> QED
  BY <1>8, <1>9 DEF tt, qrev

\* An end tag uncovers them again.
LEMMA ScopesPop ==
  ASSUME NEW items, NEW st \in Seq(Nat), NEW prev, NEW scope, Scopes(items, st, prev, scope),
         Len(st) \in Nat \ {0}
  PROVE  Scopes(items, SubSeq(st, 1, Len(st) - 1), SubSeq(prev, 1, Len(prev) - 1),
                [p \in Prefixes |-> IF p \in DOMAIN prev[Len(prev)] THEN prev[Len(prev)][p]
                                    ELSE scope[p]])
<1> DEFINE m == Len(st) - 1
           tt == SubSeq(st, 1, m)
           qrev == SubSeq(prev, 1, m)
           h == prev[m + 1]
           tcope == [p \in Prefixes |-> IF p \in DOMAIN h THEN h[p] ELSE scope[p]]
<1>0. /\ scope \in [Prefixes -> Nat] /\ prev \in Seq(Hidden) /\ Len(prev) = Len(st)
      /\ \A p \in Prefixes : Binds(items, st, Len(st), p, scope[p])
      /\ \A k \in 1 .. Len(st) :
           /\ prev[k] \in [Declaring(items[st[k]]) -> Nat]
           /\ \A p \in Declaring(items[st[k]]) : Binds(items, st, k - 1, p, prev[k][p])
  BY DEF Scopes
<1>1. m \in Nat /\ Len(st) = m + 1 /\ m + 1 \in 1 .. m + 1 /\ \A k \in 1 .. m : k \in 1 .. m + 1
  OBVIOUS
<1>2. ASSUME NEW S, NEW s \in Seq(S), Len(s) = m + 1
      PROVE  /\ SubSeq(s, 1, m) \in Seq(S) /\ Len(SubSeq(s, 1, m)) = m
             /\ \A k \in 1 .. m : SubSeq(s, 1, m)[k] = s[k]
  <2> HIDE DEF m
  <2>1. m \in Int /\ 1 \in Int /\ \A k \in 1 .. m : s[k] \in S
    BY <1>1, <1>2, ElementOfSeq
  <2>2. /\ SubSeq(s, 1, m) \in Seq(S)
        /\ Len(SubSeq(s, 1, m)) = IF 1 <= m THEN m - 1 + 1 ELSE 0
        /\ \A k \in 1 .. m - 1 + 1 : SubSeq(s, 1, m)[k] = s[1 + k - 1]
    BY <2>1, SubSeqProperties
  <2>3. m - 1 + 1 = m /\ (~(1 <= m) => m = 0) /\ \A k \in 1 .. m : 1 + k - 1 = k
    BY <1>1
  <2> QED
    BY <2>2, <2>3
<1> HIDE DEF m
<1>3. /\ Len(tt) = m /\ \A k \in 1 .. m : tt[k] = st[k]
      /\ qrev \in Seq(Hidden) /\ Len(qrev) = m /\ \A k \in 1 .. m : qrev[k] = prev[k]
  BY <1>0, <1>1, <1>2
<1>4. /\ h \in [Declaring(items[st[m + 1]]) -> Nat]
      /\ \A p \in Declaring(items[st[m + 1]]) : Binds(items, st, m, p, h[p])
  <2>1. (m + 1) - 1 = m
    BY <1>1
  <2> QED
    BY <1>0, <1>1, <2>1
<1>5. tcope \in [Prefixes -> Nat]
  BY <1>0, <1>4
<1>6. \A p \in Prefixes : Binds(items, st, m, p, tcope[p])
  <2>1. TAKE p \in Prefixes
  <2>2. CASE p \in Declaring(items[st[m + 1]])
    <3>1. tcope[p] = h[p]
      BY <1>4, <2>2
    <3> QED
      BY <1>4, <2>2, <3>1
  <2>3. CASE p \notin Declaring(items[st[m + 1]])
    <3>1. tcope[p] = scope[p] /\ items[st[m + 1]].decl[p] = 0 /\ scope[p] \in Nat
      BY <1>0, <1>4, <2>3 DEF Declaring
    <3>2. Binds(items, st, m + 1, p, scope[p])
      BY <1>0, <1>1
    <3>3. Binds(items, st, m + 1, p, scope[p]) <=> Binds(items, st, m, p, scope[p])
      BY <1>1, <3>1, BindsNext
    <3> QED
      BY <3>1, <3>2, <3>3
  <2> QED
    BY <2>2, <2>3
<1> HIDE DEF tt, qrev, h, tcope
<1>7. \A p \in Prefixes : Binds(items, tt, m, p, tcope[p])
  BY <1>1, <1>3, <1>6, BindsSame
<1>8. \A k \in 1 .. m :
        /\ qrev[k] \in [Declaring(items[tt[k]]) -> Nat]
        /\ \A p \in Declaring(items[tt[k]]) : Binds(items, tt, k - 1, p, qrev[k][p])
  <2>1. TAKE k \in 1 .. m
  <2>2. qrev[k] = prev[k] /\ tt[k] = st[k] /\ k - 1 \in Nat /\ \A j \in 1 .. k - 1 : st[j] = tt[j]
    BY <1>1, <1>3
  <2>3. /\ prev[k] \in [Declaring(items[st[k]]) -> Nat]
        /\ \A p \in Declaring(items[st[k]]) : Binds(items, st, k - 1, p, prev[k][p])
    BY <1>0, <1>1
  <2>4. \A p \in Declaring(items[st[k]]) : Binds(items, tt, k - 1, p, prev[k][p])
    BY <2>2, <2>3, BindsSame
  <2> QED
    BY <2>2, <2>3, <2>4
<1>9. Scopes(items, tt, qrev, tcope)
  BY <1>3, <1>5, <1>7, <1>8 DEF Scopes
<1>10. m = Len(st) - 1 /\ m = Len(prev) - 1 /\ m + 1 = Len(prev)
  BY <1>0, <1>1 DEF m
<1> QED
  BY <1>9, <1>10 DEF tt, h, qrev, tcope

\* Before the parser starts no prefix is bound.
LEMMA InitScope == Init => ScopeInv
<1>1. <<>> \in Seq(Hidden)
  BY EmptySeq
<1> QED
  BY <1>1 DEF Init, ScopeInv

\* Every step keeps nsScope and nsPrev those of the elements open in the parser.
LEMMA ScopeStep ==
  ASSUME TypeInv, ScopeInv, [Next]_vars
  PROVE  ScopeInv'
<1> USE DEF parseVars, readerVars, tokenVars
<1>0. /\ pos \in Nat /\ Len(input.items) \in Nat
      /\ \A i \in 1 .. Len(input.items) : input.items[i].decl \in [Prefixes -> Nat]
  BY SizeFacts, InputFacts, SMTT(30), ZenonT(30) DEF TypeInv, PlainType
<1>1. CASE Callback
  <2>1. /\ pp = "parse" /\ pp' = "push" /\ pos < Total /\ UNCHANGED <<input, pos>>
        /\ input.kind = "reader"
    BY <1>1 DEF Callback, TypeInv, StageInv
  <2>2. /\ Seen = pos /\ Seen' = pos + 1 /\ pos + 1 \in 1 .. Total /\ pos + 1 \in Nat
        /\ input.items[pos + 1].decl \in [Prefixes -> Nat]
        /\ input.items[pos + 1].kind \in ParserKind /\ Level(input.items, 1, pos + 1) >= 0
    BY <1>0, <2>1, InputFacts, SMTT(30) DEF Seen, TypeInv, PlainType
  <2>3. PICK st \in Seq(Nat) : /\ Stack(input.items, st, pos)
                               /\ Scopes(input.items, st, nsPrev, nsScope)
    BY <2>1, <2>2 DEF ScopeInv
  <2>4. ASSUME NEW tt \in Seq(Nat), Stack(input.items, tt, pos + 1),
               Scopes(input.items, tt, nsPrev', nsScope')
        PROVE  ScopeInv'
    <3>1. nsScope' \in [Prefixes -> Nat] /\ nsPrev' \in Seq(Hidden)
      BY <2>4 DEF Scopes
    <3> QED
      BY <2>1, <2>2, <2>4, <3>1 DEF ScopeInv
  <2>5. CASE Item(pos + 1).kind = "start"
    <3>1. PushNamespaces(pos + 1) /\ IsStart(input.items[pos + 1].kind)
      BY <1>1, <2>5 DEF Callback, IsStart
    <3>2. Declares(pos + 1) = Declaring(input.items[pos + 1])
      BY DEF Declares, Declaring
    <3>3. Scopes(input.items, Append(st, pos + 1), nsPrev', nsScope')
      <4>1. nsPrev' = Append(nsPrev, Covered(input.items[pos + 1], nsScope))
        BY <3>1, <3>2, Zenon DEF PushNamespaces, Covered
      <4>2. nsScope' = Covering(input.items[pos + 1], nsScope)
        BY <3>1, <3>2, Zenon DEF PushNamespaces, Covering
      <4> QED
        BY <2>2, <2>3, <4>1, <4>2, ScopesPush
    <3>4. Stack(input.items, Append(st, pos + 1), pos + 1)
      BY <1>0, <2>3, <3>1, StackPush
    <3>5. Append(st, pos + 1) \in Seq(Nat)
      BY <3>4 DEF Stack
    <3> QED
      BY <2>4, <3>3, <3>4, <3>5
  <2>6. CASE Item(pos + 1).kind = "end"
    <3>1. PopNamespaces /\ IsEnd(input.items[pos + 1].kind)
      BY <1>1, <2>6 DEF Callback, IsEnd
    <3>2. Len(st) \in Nat \ {0} /\ Stack(input.items, SubSeq(st, 1, Len(st) - 1), pos + 1)
      BY <1>0, <2>2, <2>3, <3>1, StackPop
    <3>3. Scopes(input.items, SubSeq(st, 1, Len(st) - 1), nsPrev', nsScope')
      BY <2>3, <3>1, <3>2, ScopesPop DEF PopNamespaces
    <3>4. SubSeq(st, 1, Len(st) - 1) \in Seq(Nat)
      BY <3>2 DEF Stack
    <3> QED
      BY <2>4, <3>2, <3>3, <3>4
  <2>7. CASE Item(pos + 1).kind \notin {"start", "end"}
    <3>1. UNCHANGED <<nsScope, nsPrev>>
      BY <1>1, <2>7 DEF Callback
    <3>2. Up(input.items[pos + 1].kind) = 0
      BY <2>2, <2>7 DEF Up, IsStart, IsEnd, ParserKind
    <3>3. Stack(input.items, st, pos + 1)
      BY <1>0, <2>3, <3>2, StackOther
    <3> QED
      BY <2>3, <2>4, <3>1, <3>3
  <2> QED
    BY <2>5, <2>6, <2>7
<1>2. CASE PushSend
  <2>1. UNCHANGED <<input, nsScope, nsPrev>> /\ Seen' = Seen /\ pp = "push" /\ pp' = "parse"
    BY <1>2 DEF PushSend, Seen
  <2> QED
    BY <2>1 DEF ScopeInv
<1>3. CASE StartSAX
  <2>1. /\ UNCHANGED <<input, nsScope, nsPrev, pos>> /\ pp = "off" /\ pp' = "parse" /\ pos = 0
    BY <1>3 DEF StartSAX, TypeInv, StageInv
  <2>2. Seen' = 0 /\ nsPrev' = <<>> /\ nsScope' = [p \in Prefixes |-> 0]
    BY <2>1 DEF Seen, ScopeInv
  <2>3. <<>> \in Seq(Nat) /\ <<>> \in Seq(Hidden) /\ Len(<<>>) = 0
    BY EmptySeq
  <2>4. Level(input.items, 1, 0) = 0 /\ OpenAt(input.items, 0) = {}
    <3>1. 1 \in Int /\ 0 \in Int /\ 1 <= 0 + 1 /\ 1 = 0 + 1
      OBVIOUS
    <3>2. Level(input.items, 1, 0) = 0
      BY <3>1, LevelStep
    <3> QED
      BY <3>2 DEF OpenAt
  <2>5. Stack(input.items, <<>>, 0)
    BY <2>3, <2>4 DEF Stack
  <2>6. Scopes(input.items, <<>>, nsPrev', nsScope')
    BY <2>2, <2>3 DEF Scopes, Binds
  <2> QED
    BY <2>1, <2>2, <2>3, <2>5, <2>6 DEF ScopeInv
<1>4. CASE ParseCancelled \/ ParseEnd \/ FailSend \/ FailDropped \/ CloseEvents
  <2>1. UNCHANGED <<nsScope, nsPrev>> /\ pp' \notin {"off", "parse", "push"}
    BY <1>4 DEF ParseCancelled, ParseEnd, FailSend, FailDropped, CloseEvents
  <2> QED
    BY <2>1 DEF ScopeInv
<1>5. CASE \/ Close \/ Client \/ UNCHANGED vars
           \/ ReadProlog \/ ReadPrologErr \/ StartClosed \/ StartRefused \/ ReadOn
           \/ NextEvent \/ NextEventEOF \/ MergeMore \/ MergeStop \/ MergeEOF
           \/ ReadSaved \/ ReadEnd
  <2>1. UNCHANGED <<input, nsScope, nsPrev, pp, pos>>
    BY <1>5 DEF vars, Close, Client, CallToken, CallSkip, CallDecode, CallDecodeElement,
       DecodeElementTooDeep, Call, ReadProlog, ReadPrologErr, StartClosed, StartRefused, ReadOn,
       NextEvent, NextEventEOF, MergeMore, MergeStop, MergeEOF, ReadSaved, ReadEnd
  <2>2. Seen' = Seen
    BY <2>1 DEF Seen
  <2> QED
    BY <2>1, <2>2 DEF ScopeInv
<1>6. CASE ReadNothing \/ ReadToken
  <2>1. UNCHANGED <<input, nsScope, nsPrev, pp>> /\ pp = "off"
    BY <1>6 DEF ReadNothing, ReadToken, TypeInv, StageInv, PlainType
  <2> QED
    BY <2>1 DEF ScopeInv
<1> QED
  BY <1>1, <1>2, <1>3, <1>4, <1>5, <1>6 DEF Next, ParseGoroutine, ReadStep

\* Then nsScope is what NamespacesInScope says it is.
LEMMA ScopeImplies ==
  ASSUME TypeInv, ScopeInv
  PROVE  NamespacesInScope
<1>1. SUFFICES ASSUME pp \in {"parse", "push"}, NEW p \in Prefixes
               PROVE  LET by == {i \in OpenElements : Item(i).decl[p] # 0}
                      IN  nsScope[p] = IF by = {} THEN 0
                            ELSE Item(CHOOSE i \in by : \A j \in by : j <= i).decl[p]
  BY DEF NamespacesInScope
<1> DEFINE by == {i \in OpenElements : Item(i).decl[p] # 0}
<1>2. PICK st \in Seq(Nat) : /\ Stack(input.items, st, Seen)
                             /\ Scopes(input.items, st, nsPrev, nsScope)
  BY <1>1 DEF ScopeInv
<1>3. OpenElements = OpenAt(input.items, Seen)
  BY DEF OpenElements, OpenAt
<1>4. Binds(input.items, st, Len(st), p, nsScope[p]) /\ Len(st) \in Nat
  BY <1>2, LenProperties DEF Scopes
<1>5. /\ \A k \in 1 .. Len(st) : st[k] \in OpenElements /\ st[k] \in Nat
      /\ \A k, l \in 1 .. Len(st) : k < l => st[k] < st[l]
      /\ \A i \in OpenElements : \E k \in 1 .. Len(st) : i = st[k]
  BY <1>2, <1>3, ElementOfSeq DEF Stack
<1>6. CASE nsScope[p] = 0 /\ \A j \in 1 .. Len(st) : input.items[st[j]].decl[p] = 0
  <2>1. by = {}
    BY <1>5, <1>6
  <2> QED
    BY <1>6, <2>1
<1>7. CASE \E j \in 1 .. Len(st) : /\ input.items[st[j]].decl[p] = nsScope[p] /\ nsScope[p] # 0
                                  /\ \A l \in j + 1 .. Len(st) : input.items[st[l]].decl[p] = 0
  <2>1. PICK j \in 1 .. Len(st) : /\ input.items[st[j]].decl[p] = nsScope[p] /\ nsScope[p] # 0
                                  /\ \A l \in j + 1 .. Len(st) : input.items[st[l]].decl[p] = 0
    BY <1>7
  <2>2. st[j] \in by
    BY <1>5, <2>1
  <2>3. \A i \in by : i <= st[j] /\ i \in Nat
    <3>1. TAKE i \in by
    <3>2. PICK k \in 1 .. Len(st) : i = st[k]
      BY <1>5
    <3>3. ~(k > j)
      <4>1. k > j => k \in j + 1 .. Len(st)
        BY <1>4
      <4> QED
        BY <2>1, <3>2, <4>1
    <3>4. k = j \/ k < j
      BY <3>3
    <3> QED
      BY <1>5, <3>2, <3>4
  <2>4. (CHOOSE i \in by : \A l \in by : l <= i) = st[j]
    <3> DEFINE c == CHOOSE i \in by : \A l \in by : l <= i
    <3>1. c \in by /\ \A l \in by : l <= c
      BY <2>2, <2>3
    <3> HIDE DEF c
    <3>2. c <= st[j] /\ st[j] <= c /\ c \in Nat /\ st[j] \in Nat
      BY <2>2, <2>3, <3>1
    <3>3. c = st[j]
      BY <3>2
    <3> QED
      BY <3>3 DEF c
  <2> QED
    BY <2>1, <2>2, <2>4
<1> QED
  BY <1>4, <1>6, <1>7 DEF Binds

-----------------------------------------------------------------------------
(***************************************************************************)
(* The theorems.                                                           *)
(***************************************************************************)
Inv == TypeInv /\ OrderInv /\ EndInv /\ MatchInv /\ ScopeInv

(* The inductive invariant: types and stages, order, end, loops and scopes. *)
THEOREM Invariance == Spec => []Inv
<1>1. Init => Inv
  BY InitType, InitOrder, InitEnd, InitMatch, InitScope DEF Inv
<1>2. Inv /\ [Next]_vars => Inv'
  BY TypeStep, OrderStep, EndStep, MatchStep, ScopeStep DEF Inv
<1> QED
  BY <1>1, <1>2, PTL DEF Spec

(* Type correctness.  The counter of nested elements never goes below zero  *)
(* however calls end, and the channel never holds more than its buffer.     *)
THEOREM TypeCorrect == Spec => []TypeOK
<1>1. Inv => TypeOK
  <2>1. SUFFICES ASSUME Inv PROVE TypeOK
    OBVIOUS
  <2>2. \A k \in DOMAIN nsPrev : /\ DOMAIN nsPrev[k] \subseteq Prefixes
                                 /\ \A q \in DOMAIN nsPrev[k] : nsPrev[k][q] \in Nat
    <3>1. TAKE k \in DOMAIN nsPrev
    <3>2. nsPrev[k] \in Hidden
      BY <2>1, LenProperties, ElementOfSeq DEF Inv, ScopeInv
    <3>3. PICK P \in SUBSET Prefixes : nsPrev[k] \in [P -> Nat]
      BY <3>2 DEF Hidden
    <3> QED
      BY <3>3
  <2>3. PlainType /\ CallType /\ nsScope \in [Prefixes -> Nat]
    BY <2>1 DEF Inv, TypeInv, ScopeInv
  <2> QED
    BY <2>2, <2>3 DEF TypeOK, PlainType, CallType
<1> QED
  BY <1>1, Invariance, PTL

(* No token is lost, repeated, cut in two or out of order, whatever the     *)
(* goroutine, the merging, the lookahead and Close do.                      *)
THEOREM TokensComeInOrder == Spec => []TokensInOrder
<1>1. Inv => TokensInOrder
  <2>1. SUFFICES ASSUME Inv, input.kind = "reader"
                 PROVE  /\ \A k \in DOMAIN out :
                             /\ out[k].from = (IF k = 1 THEN 1 ELSE out[k - 1].to + 1)
                             /\ out[k].from = out[k].to
                                  \/ \A i \in out[k].from .. out[k].to : Item(i).kind = "text"
                             /\ k > 1 /\ Item(out[k].from).kind = "text"
                                  => Item(out[k - 1].to).kind # "text"
                        /\ pc = "merge" => acc.from = Consumed + 1
                        /\ \A i \in DOMAIN InTransit :
                             IF InTransit[i].err = "nil" THEN InTransit[i].at = Arrived + i
                             ELSE i = Len(InTransit)
                        /\ pos = Arrived + Len(InTransit)
                             - (IF \E i \in DOMAIN InTransit : InTransit[i].err # "nil"
                                THEN 1 ELSE 0)
    BY DEF TokensInOrder
  <2>2. OutInv /\ RunInv /\ QueueInv /\ TypeInv
    BY <2>1 DEF Inv, OrderInv
  <2>3. /\ out \in Seq(Run) /\ DOMAIN out = 1 .. Len(out)
        /\ buf \in Seq(Event) /\ pending \in Seq(Event)
    BY <2>2, LenProperties DEF TypeInv, PlainType
  <2>4. /\ Len(buf) \in Nat /\ Arrived \in Nat /\ pos \in Nat
        /\ Len(pending) = (IF pending = <<>> THEN 0 ELSE 1)
    BY <2>2, SizeFacts
  <2>5. /\ InTransit \in Seq(Event) /\ Len(InTransit) = Len(pending) + Len(buf)
        /\ DOMAIN InTransit = 1 .. Len(InTransit)
        /\ \A i \in 1 .. Len(pending) + Len(buf) :
             InTransit[i] = IF i <= Len(pending) THEN pending[i] ELSE buf[i - Len(pending)]
    BY <2>3, <2>4, ConcatProperties, LenProperties DEF InTransit
  <2>6. \A i \in DOMAIN InTransit :
          \/ pending # <<>> /\ i = 1 /\ InTransit[i] = pending[1]
          \/ i - Len(pending) \in 1 .. Len(buf) /\ InTransit[i] = buf[i - Len(pending)]
    BY <2>4, <2>5
  <2>7. /\ \A i \in 1 .. Len(buf) : /\ i + Len(pending) \in DOMAIN InTransit
                                    /\ InTransit[i + Len(pending)] = buf[i]
        /\ pending # <<>> => 1 \in DOMAIN InTransit /\ InTransit[1] = pending[1]
    BY <2>4, <2>5
  <2>8. Failed <=> \E i \in DOMAIN InTransit : InTransit[i].err # "nil"
    BY <2>6, <2>7 DEF Failed, Erroneous
  <2>9. ASSUME NEW i \in DOMAIN InTransit
        PROVE  IF InTransit[i].err = "nil" THEN InTransit[i].at = Arrived + i
               ELSE i = Len(InTransit)
    <3>1. CASE pending # <<>> /\ i = 1 /\ InTransit[i] = pending[1]
      <4>1. pending[1].err = "nil" => pending[1].at = Arrived + 1
        BY <2>2, <3>1 DEF QueueInv
      <4>2. pending[1].err # "nil" => Len(buf) = 0
        BY <2>2, <3>1, EmptySeq DEF QueueInv
      <4> QED
        BY <2>4, <2>5, <3>1, <4>1, <4>2
    <3>2. CASE i - Len(pending) \in 1 .. Len(buf) /\ InTransit[i] = buf[i - Len(pending)]
      <4>1. IF buf[i - Len(pending)].err = "nil"
            THEN buf[i - Len(pending)].at = Arrived + Len(pending) + (i - Len(pending))
            ELSE i - Len(pending) = Len(buf)
        BY <2>2, <3>2 DEF QueueInv, Consecutive
      <4>2. i \in Nat /\ Len(pending) \in Nat
        BY <2>4, <2>5
      <4> QED
        BY <2>4, <2>5, <3>2, <4>1, <4>2
    <3> QED
      BY <2>6, <3>1, <3>2
  <2>10. pos = Arrived + Len(InTransit) - (IF Failed THEN 1 ELSE 0)
    BY <2>2, <2>4, <2>5 DEF QueueInv
  <2>11. pc = "merge" => acc.from = Consumed + 1
    BY <2>2 DEF RunInv
  <2>12. \A k \in DOMAIN out :
           /\ out[k].from = (IF k = 1 THEN 1 ELSE out[k - 1].to + 1)
           /\ out[k].from = out[k].to
                \/ \A i \in out[k].from .. out[k].to : Item(i).kind = "text"
           /\ k > 1 /\ Item(out[k].from).kind = "text" => Item(out[k - 1].to).kind # "text"
    BY <2>2, <2>3 DEF OutInv
  <2> QED
    BY <2>8, <2>9, <2>10, <2>11, <2>12
<1> QED
  BY <1>1, Invariance, PTL

(* An end of file is reported only when every token and every error of the  *)
(* document has been, or the decoder was closed.                            *)
THEOREM EndOfFileIsHonest == Spec => []EOFIsHonest
<1>1. Inv => EOFIsHonest
  BY DEF Inv, EndInv, EOFIsHonest
<1> QED
  BY <1>1, Invariance, PTL

(* Skip, Decode and DecodeElement return at the end tag that matches the    *)
(* start tag they are for, on a document and on any TokenReader.            *)
THEOREM LoopsMatchTags == Spec => []LoopsStopAtMatch
<1>1. Inv => LoopsStopAtMatch
  BY DEF Inv, MatchInv
<1> QED
  BY <1>1, Invariance, PTL

(* The one map of prefixes that serves all elements holds what the          *)
(* innermost open element that declares a prefix says.                      *)
THEOREM PrefixesMeanWhatIsOpen == Spec => []NamespacesInScope
<1>1. Inv => NamespacesInScope
  BY ScopeImplies DEF Inv
<1> QED
  BY <1>1, Invariance, PTL
=============================================================================
