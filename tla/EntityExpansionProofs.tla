----------------------- MODULE EntityExpansionProofs -----------------------
(***************************************************************************)
(* Theorems about EntityExpansion for all documents, entities and limits.  *)
(*                                                                         *)
(* The predicates take the input as a parameter, in, so that they can be   *)
(* carried over a step, which leaves the input alone.                      *)
(***************************************************************************)
EXTENDS EntityExpansion, FiniteSetTheorems, SequenceTheorems, WellFoundedInduction, TLAPS

-----------------------------------------------------------------------------
(***************************************************************************)
(* Types.                                                                  *)
(***************************************************************************)
Frame ==
    [e : Entities \cup {NoEntity}, src : Seq(Item), pos : Nat, depth : Nat, elemDepth : Int,
     open : Int, built : Seq(Item), turn : {"first", "again"}, was : BOOLEAN, before : Int]

Entity == [checked : BOOLEAN, expandedSize : Int, kids : Seq(Item)]

Outcomes ==
    {"running", "limit", "unresolved", "loop", "depth", "undeclared", "unbalanced", "done", "stopped"}

Parser(in) ==
    [frames : Seq(Frame), ents : [in.declared -> Entity], sizeentcopy : Int, out : Seq(Item),
     status : Outcomes]

\* A parser with at least one context.
Typed(in, x) == x \in Parser(in) /\ x.frames # <<>>

\* f is s without its last member.
Cut(s, f) == Len(f) = Len(s) - 1 /\ \A i \in 1 .. Len(s) - 1 : f[i] = s[i]

\* t is s with another last member, f.
Swapped(s, t, f) ==
    Len(t) = Len(s) /\ t[Len(s)] = f /\ \A i \in 1 .. Len(s) - 1 : t[i] = s[i]

\* A sequence without its last member.
LEMMA FrontIs ==
  ASSUME NEW S, NEW s \in Seq(S), s # <<>>, NEW f, f = Front(s)
  PROVE  /\ f \in Seq(S) /\ Len(s) \in Nat \ {0} /\ Cut(s, f)
         /\ Last(s) = s[Len(s)] /\ Last(s) \in S
<1>1. Len(s) \in Nat \ {0}
  BY EmptySeq
<1>2. s[Len(s)] \in S
  BY <1>1, ElementOfSeq
<1>3. \A i \in 1 .. Len(s) - 1 : s[i] \in S
  BY <1>1, ElementOfSeq
<1> DEFINE n == Len(s) - 1
<1>4. n \in Nat
  BY <1>1
<1> HIDE DEF n
<1>5. n \in Int /\ 1 \in Int /\ n = n - 1 + 1 /\ n = IF 1 <= n THEN n - 1 + 1 ELSE 0
  BY <1>4
<1>6. /\ SubSeq(s, 1, n) \in Seq(S) /\ Len(SubSeq(s, 1, n)) = IF 1 <= n THEN n - 1 + 1 ELSE 0
      /\ \A i \in 1 .. n - 1 + 1 : SubSeq(s, 1, n)[i] = s[1 + i - 1]
  BY <1>3, <1>5, SubSeqProperties DEF n
<1>7. ASSUME NEW i \in 1 .. n PROVE SubSeq(s, 1, n)[i] = s[i]
  <2>1. 1 + i - 1 = i /\ i \in 1 .. n - 1 + 1
    BY <1>5
  <2> QED BY <1>6, <2>1
<1> QED BY <1>1, <1>2, <1>5, <1>6, <1>7 DEF Front, Last, Cut, n

\* A stack with another last member.
LEMMA SwapIs ==
  ASSUME NEW s \in Seq(Frame), s # <<>>, NEW f \in Frame, NEW t, t = Append(Front(s), f)
  PROVE  /\ t \in Seq(Frame) /\ t # <<>> /\ Swapped(s, t, f) /\ Last(t) = f
         /\ Len(s) \in Nat \ {0} /\ Front(t) = Front(s)
<1> DEFINE g == Front(s)
<1>1. g \in Seq(Frame) /\ Len(s) \in Nat \ {0} /\ Cut(s, g)
  BY FrontIs
<1> HIDE DEF g
<1>2. /\ t \in Seq(Frame) /\ Len(t) = Len(g) + 1 /\ t[Len(g) + 1] = f
      /\ \A i \in 1 .. Len(g) : t[i] = g[i]
  BY <1>1, AppendProperties DEF g
<1>3. Len(g) = Len(s) - 1 /\ Len(g) + 1 = Len(s)
  BY <1>1 DEF Cut
<1>4. Len(t) = Len(s) /\ t[Len(s)] = f
  BY <1>2, <1>3
<1>5. \A i \in 1 .. Len(s) - 1 : t[i] = s[i]
  BY <1>1, <1>2, <1>3 DEF Cut
<1>6. t # <<>>
  BY <1>1, <1>2, <1>4, EmptySeq
<1>7. Front(t) = g
  <2>1. Front(t) \in Seq(Frame) /\ Cut(t, Front(t))
    BY <1>2, <1>6, FrontIs
  <2>2. Len(Front(t)) = Len(g)
    BY <1>3, <1>4, <2>1 DEF Cut
  <2>3. \A i \in 1 .. Len(g) : Front(t)[i] = g[i]
    BY <1>2, <1>3, <1>4, <2>1 DEF Cut
  <2> QED BY <1>1, <2>1, <2>2, <2>3, SeqEqual
<1> QED BY <1>1, <1>2, <1>4, <1>5, <1>6, <1>7 DEF Swapped, Last, g

-----------------------------------------------------------------------------
(***************************************************************************)
(* The contexts and their operators.                                       *)
(***************************************************************************)
\* What y has in common with x when only the stack of contexts changed.
SameRest(x, y) ==
    /\ y.ents = x.ents /\ y.sizeentcopy = x.sizeentcopy /\ y.out = x.out /\ y.status = x.status

\* A context that has built more, and a parser whose contexts may have.
Similar(f, g) ==
    /\ g.e = f.e /\ g.src = f.src /\ g.pos = f.pos /\ g.depth = f.depth /\ g.open = f.open
    /\ g.elemDepth = f.elemDepth /\ g.turn = f.turn /\ g.was = f.was /\ g.before = f.before

Likewise(x, y) ==
    /\ y.ents = x.ents /\ Len(y.frames) = Len(x.frames)
    /\ \A k \in 1 .. Len(x.frames) : Similar(x.frames[k], y.frames[k])

\* The context on top.
LEMMA TopIs ==
  ASSUME NEW in, NEW x, Typed(in, x)
  PROVE  /\ Top(x) \in Frame /\ Top(x) = x.frames[Len(x.frames)] /\ Len(x.frames) \in Nat \ {0}
         /\ x.frames \in Seq(Frame) /\ \A k \in 1 .. Len(x.frames) : x.frames[k] \in Frame
<1>1. x.frames \in Seq(Frame) /\ x.frames # <<>>
  BY DEF Typed, Parser
<1>2. \A k \in 1 .. Len(x.frames) : x.frames[k] \in Frame
  BY <1>1, ElementOfSeq
<1> QED BY <1>1, <1>2, FrontIs DEF Top

\* The context on top is replaced.
LEMMA SetTopIs ==
  ASSUME NEW in, NEW x, Typed(in, x), NEW f \in Frame, NEW y, y = SetTop(x, f)
  PROVE  /\ Typed(in, y) /\ Top(y) = f /\ SameRest(x, y)
         /\ Swapped(x.frames, y.frames, f)
<1> DEFINE S == Seq(Frame)
           E == [in.declared -> Entity]
           O == Seq(Item)
           t == Append(Front(x.frames), f)
<1>1. x \in [frames : S, ents : E, sizeentcopy : Int, out : O, status : Outcomes]
  BY DEF Typed, Parser
<1>2. t \in S /\ t # <<>> /\ Swapped(x.frames, t, f) /\ Last(t) = f
  <2>1. x.frames \in Seq(Frame) /\ x.frames # <<>>
    BY DEF Typed, Parser
  <2>2. t = Append(Front(x.frames), f)
    OBVIOUS
  <2> HIDE DEF t
  <2>3. t \in Seq(Frame) /\ t # <<>> /\ Swapped(x.frames, t, f) /\ Last(t) = f
    BY <2>1, <2>2, SwapIs
  <2> QED BY <2>3
<1>3. y = [x EXCEPT !.frames = t]
  BY DEF SetTop
<1> HIDE DEF S, E, O, t, Outcomes
<1>4. y \in [frames : S, ents : E, sizeentcopy : Int, out : O, status : Outcomes] /\ y.frames = t
  BY <1>1, <1>2, <1>3
<1>5. SameRest(x, y)
  BY <1>1, <1>3 DEF SameRest
<1> QED BY <1>2, <1>4, <1>5 DEF Typed, Parser, Top, S, E, O

\* The handler is told something: at most what a context built changes.
LEMMA DeliverIs ==
  ASSUME NEW x, Typed(input, x), NEW items \in Seq(Item), NEW y, y = Deliver(x, items)
  PROVE  /\ Typed(input, y) /\ Likewise(x, y) /\ y.sizeentcopy = x.sizeentcopy
         /\ y.status = x.status
<1> DEFINE f == Top(x)
           g == [f EXCEPT !.built = @ \o items]
<1>1. /\ f \in Frame /\ f = x.frames[Len(x.frames)] /\ Len(x.frames) \in Nat \ {0}
  BY TopIs
<1>2. g \in Frame /\ Similar(f, g)
  <2>1. f.built \o items \in Seq(Item)
    BY <1>1, ConcatProperties DEF Frame
  <2> HIDE DEF f
  <2> QED BY <1>1, <2>1 DEF Frame, Similar
<1>3. CASE input.tree /\ Len(x.frames) > 1
  <2>1. y = SetTop(x, g)
    BY <1>3 DEF Deliver
  <2> HIDE DEF g
  <2>2. Typed(input, y) /\ SameRest(x, y) /\ Swapped(x.frames, y.frames, g)
    BY <1>2, <2>1, SetTopIs
  <2>3. Likewise(x, y)
    <3>1. ASSUME NEW k \in 1 .. Len(x.frames) PROVE Similar(x.frames[k], y.frames[k])
      <4>1. CASE k = Len(x.frames)
        BY <1>1, <1>2, <2>2, <4>1 DEF Swapped
      <4>2. CASE k # Len(x.frames)
        <5>1. y.frames[k] = x.frames[k]
          BY <1>1, <2>2, <4>2 DEF Swapped
        <5> QED BY <5>1 DEF Similar
      <4> QED BY <4>1, <4>2
    <3> QED BY <2>2, <3>1 DEF Likewise, SameRest, Swapped
  <2> QED BY <2>2, <2>3 DEF SameRest
<1>4. CASE ~(input.tree /\ Len(x.frames) > 1)
  <2> DEFINE o == x.out \o items
             S == Seq(Frame)
             E == [input.declared -> Entity]
             O == Seq(Item)
  <2>1. y = [x EXCEPT !.out = o]
    BY <1>4 DEF Deliver
  <2>2. x \in [frames : S, ents : E, sizeentcopy : Int, out : O, status : Outcomes]
    BY DEF Typed, Parser
  <2>3. o \in O
    BY <2>2, ConcatProperties
  <2> HIDE DEF S, E, O, o, Outcomes, f, g
  <2>4. /\ y \in [frames : S, ents : E, sizeentcopy : Int, out : O, status : Outcomes]
        /\ y.frames = x.frames /\ y.ents = x.ents /\ y.sizeentcopy = x.sizeentcopy
        /\ y.status = x.status
    BY <2>1, <2>2, <2>3
  <2>5. Likewise(x, y)
    BY <2>4 DEF Likewise, Similar
  <2> QED BY <2>4, <2>5 DEF Typed, Parser, S, E, O
<1> QED BY <1>3, <1>4

-----------------------------------------------------------------------------
(***************************************************************************)
(* Depth.                                                                  *)
(***************************************************************************)
\* What an item does to the depth.
Up(item) == IF item.t = "start" THEN 1 ELSE IF item.t = "end" THEN -1 ELSE 0

\* One more position: the count of those in S grows by at most one.
LEMMA CountStep ==
  ASSUME NEW j \in Nat, NEW S
  PROVE  /\ Cardinality(1 .. j \cap S) \in Nat
         /\ Cardinality(1 .. j + 1 \cap S)
              = Cardinality(1 .. j \cap S) + (IF j + 1 \in S THEN 1 ELSE 0)
<1> DEFINE A == 1 .. j \cap S
           B == 1 .. j + 1 \cap S
<1>1. IsFiniteSet(A) /\ Cardinality(A) \in Nat
  <2>1. IsFiniteSet(1 .. j)
    BY FS_Interval
  <2>2. IsFiniteSet(A)
    BY <2>1, FS_Subset
  <2> QED BY <2>2, FS_CardinalityType
<1>2. CASE j + 1 \in S
  <2>1. B = A \cup {j + 1} /\ j + 1 \notin A
    BY <1>2
  <2> HIDE DEF A, B
  <2>2. Cardinality(B) = Cardinality(A) + 1
    BY <1>1, <2>1, FS_AddElement
  <2> QED BY <1>1, <1>2, <2>2 DEF A, B
<1>3. CASE j + 1 \notin S
  <2>1. B = A
    BY <1>3
  <2> QED BY <1>1, <1>3, <2>1
<1> QED BY <1>2, <1>3

\* No item is at depth zero, and one item more changes the depth by what it does.
LEMMA DepthStep ==
  ASSUME NEW s, NEW j \in Nat
  PROVE  /\ Depth(s, j) \in Int /\ Depth(s, 0) = 0
         /\ Depth(s, j + 1) = Depth(s, j) + Up(s[j + 1])
<1> DEFINE A == {k \in Int : s[k].t = "start"}
           B == {k \in Int : s[k].t = "end"}
<1>1. \A i \in Nat : /\ {k \in 1 .. i : s[k].t = "start"} = 1 .. i \cap A
                     /\ {k \in 1 .. i : s[k].t = "end"} = 1 .. i \cap B
  OBVIOUS
<1>2. \A i \in Nat : Depth(s, i) = Cardinality(1 .. i \cap A) - Cardinality(1 .. i \cap B)
  BY <1>1 DEF Depth
<1>3. j + 1 \in Nat /\ 0 \in Nat
  OBVIOUS
<1>4. /\ j + 1 \in A <=> s[j + 1].t = "start"
      /\ j + 1 \in B <=> s[j + 1].t = "end"
  OBVIOUS
<1>5. Cardinality(1 .. 0 \cap A) = 0 /\ Cardinality(1 .. 0 \cap B) = 0
  <2>1. 1 .. 0 \cap A = {} /\ 1 .. 0 \cap B = {}
    OBVIOUS
  <2> QED BY <2>1, FS_EmptySet
<1> HIDE DEF A, B
<1>6. /\ Cardinality(1 .. j \cap A) \in Nat /\ Cardinality(1 .. j \cap B) \in Nat
      /\ Cardinality(1 .. j + 1 \cap A) = Cardinality(1 .. j \cap A) + (IF j + 1 \in A THEN 1 ELSE 0)
      /\ Cardinality(1 .. j + 1 \cap B) = Cardinality(1 .. j \cap B) + (IF j + 1 \in B THEN 1 ELSE 0)
  BY CountStep
<1>7. Depth(s, j) = Cardinality(1 .. j \cap A) - Cardinality(1 .. j \cap B)
  BY <1>2
<1>8. Depth(s, j + 1) = Cardinality(1 .. j + 1 \cap A) - Cardinality(1 .. j + 1 \cap B)
  BY <1>2, <1>3
<1>9. Depth(s, 0) = 0
  BY <1>2, <1>3, <1>5
<1> QED BY <1>4, <1>6, <1>7, <1>8, <1>9 DEF Up

-----------------------------------------------------------------------------
(***************************************************************************)
(* The inductive invariant.                                                *)
(***************************************************************************)
\* References to e lead the parser into it.
CanEnter(in, e) ==
    /\ e \in in.declared
    /\ e \notin in.external \/ ((in.noEnt \/ in.dtdValid) /\ ~in.noXXE)

\* The entities that the first n items of s lead into.
Referred(in, s, n) ==
    {e \in in.declared : CanEnter(in, e) /\ \E i \in 1 .. n : s[i] = Reference(e)}

InBody(in, e) == Referred(in, in.body[e], Len(in.body[e]))

\* The entities that have been parsed to their end.
Parsed(in, x) == {e \in in.declared : x.ents[e].checked /\ CanEnter(in, e)}

\* The texts of the entities in K are balanced, lead only into K, and in no part of
\* K do all lead into one another.
Settled(in, K) ==
    /\ \A e \in K : Balanced(in.body[e]) /\ InBody(in, e) \subseteq K
    /\ \A S \in SUBSET K : S # {} => \E e \in S : \A f \in S : e \notin InBody(in, f)

\* The context at place k reads the document or an entity, and has met no stray end
\* tag.
Placed(in, K, k, f) ==
    /\ k = 1 => f.e = NoEntity /\ f.src = in.doc
    /\ k # 1 => CanEnter(in, f.e) /\ f.src = in.body[f.e]
    /\ f.turn = "again" => f.e \in K
    /\ f.pos \in 1 .. Len(f.src) + 1 /\ f.open = Depth(f.src, f.pos - 1)
    /\ \A i \in 0 .. f.pos - 1 : Depth(f.src, i) >= 0

\* The context is at a reference to e, and all that it met before is in K.
Waits(in, K, f, e) ==
    f.pos >= 2 /\ f.src[f.pos - 1] = Reference(e) /\ Referred(in, f.src, f.pos - 2) \subseteq K

\* All that the context has met is in K.
Ready(in, K, f) == Referred(in, f.src, f.pos - 1) \subseteq K

Chain(in, K, fr) ==
    /\ \A k \in 1 .. Len(fr) : Placed(in, K, k, fr[k])
    /\ \A k \in 1 .. Len(fr) - 1 : Waits(in, K, fr[k], fr[k + 1].e)

\* An entity is known because it was parsed, or because it is blocked.
Honest(in, x) ==
    \A e \in in.declared : x.ents[e].checked => CanEnter(in, e) \/ (e \in in.external /\ in.noXXE)

Base(in, x) ==
    /\ Typed(in, x) /\ Honest(in, x)
    /\ Settled(in, Parsed(in, x)) /\ Chain(in, Parsed(in, x), x.frames)

\* A parser between two items, and one that has just read a reference to e.
Good(in, x) == Base(in, x) /\ Ready(in, Parsed(in, x), Top(x))

Pending(in, x, e) == Base(in, x) /\ Waits(in, Parsed(in, x), Top(x), e)

\* A document that was parsed to its end.
Finished(in, x) ==
    Settled(in, Parsed(in, x)) /\ Referred(in, in.doc, Len(in.doc)) \subseteq Parsed(in, x)

\* What every step leaves behind.
Fine(in, x) ==
    /\ Typed(in, x)
    /\ x.status = "running" => Good(in, x)
    /\ x.status = "done" => Finished(in, x)

\* An external entity has no stray end tag: parseExternalEntityPrivate drops what
\* follows one, so that nothing is known of it.
Tidy(in) ==
    \A e \in in.external : \A i \in 0 .. Len(in.body[e]) : Depth(in.body[e], i) >= 0

\* The facts about the input.
LEMMA InputFacts ==
  ASSUME InputOK(input), NEW e \in input.declared
  PROVE  /\ input.doc \in Seq(Item) /\ input.body[e] \in Seq(Item) /\ e \in Entities
         /\ e # NoEntity /\ NoEntity \notin input.external
         /\ Len(input.doc) \in Nat /\ Len(input.body[e]) \in Nat
<1>1. /\ input.doc \in Seq(Item) /\ input.body[e] \in Seq(Item) /\ e \in Entities
      /\ input.external \subseteq Entities
  BY DEF InputOK
<1> QED BY <1>1, BoundsAssumption, LenProperties

\* What a handler is told changes nothing that matters here.
LEMMA LikewiseBase ==
  ASSUME NEW in, NEW x, Base(in, x), NEW y, Typed(in, y), Likewise(x, y)
  PROVE  Base(in, y) /\ Parsed(in, y) = Parsed(in, x) /\ Similar(Top(x), Top(y))
<1>1. Parsed(in, y) = Parsed(in, x) /\ Honest(in, y)
  BY DEF Likewise, Parsed, Honest, Base
<1> DEFINE K == Parsed(in, x)
<1> HIDE DEF K
<1>2. Len(x.frames) \in Nat \ {0} /\ Len(y.frames) = Len(x.frames)
  BY TopIs DEF Base, Likewise
<1>3. ASSUME NEW k \in 1 .. Len(y.frames) PROVE Placed(in, K, k, y.frames[k])
  <2>1. Placed(in, K, k, x.frames[k]) /\ Similar(x.frames[k], y.frames[k])
    BY <1>2 DEF Base, Chain, Likewise, K
  <2> QED BY <2>1 DEF Placed, Similar
<1>4. ASSUME NEW k \in 1 .. Len(y.frames) - 1 PROVE Waits(in, K, y.frames[k], y.frames[k + 1].e)
  <2>1. k \in 1 .. Len(x.frames) /\ k + 1 \in 1 .. Len(x.frames) /\ k \in 1 .. Len(x.frames) - 1
    BY <1>2
  <2>2. Waits(in, K, x.frames[k], x.frames[k + 1].e)
    BY <2>1 DEF Base, Chain, K
  <2>3. Similar(x.frames[k], y.frames[k]) /\ Similar(x.frames[k + 1], y.frames[k + 1])
    BY <2>1 DEF Likewise
  <2> QED BY <2>2, <2>3 DEF Waits, Similar
<1>5. Chain(in, K, y.frames)
  BY <1>3, <1>4 DEF Chain
<1>6. Similar(Top(x), Top(y))
  <2>1. Top(x) = x.frames[Len(x.frames)] /\ Top(y) = y.frames[Len(x.frames)]
    BY <1>2, TopIs DEF Base
  <2> QED BY <1>2, <2>1 DEF Likewise
<1> QED BY <1>1, <1>5, <1>6 DEF Base, K

\* Delivering to the handler (Deliver) leaves a good parser good.
LEMMA LikewiseGood ==
  ASSUME NEW in, NEW x, Good(in, x), NEW y, Typed(in, y), Likewise(x, y)
  PROVE  Good(in, y)
<1>1. Base(in, y) /\ Parsed(in, y) = Parsed(in, x) /\ Similar(Top(x), Top(y))
  BY LikewiseBase DEF Good
<1> QED BY <1>1 DEF Good, Ready, Similar

\* Delivering to the handler leaves the entity that was referred to pending.
LEMMA LikewisePending ==
  ASSUME NEW in, NEW x, NEW e, Pending(in, x, e), NEW y, Typed(in, y), Likewise(x, y)
  PROVE  Pending(in, y, e)
<1>1. Base(in, y) /\ Parsed(in, y) = Parsed(in, x) /\ Similar(Top(x), Top(y))
  BY LikewiseBase DEF Pending
<1> QED BY <1>1 DEF Pending, Waits, Similar

-----------------------------------------------------------------------------
(***************************************************************************)
(* Reading an item.                                                        *)
(***************************************************************************)
\* Replacing the context on top twice.
LEMMA SetTopTwice ==
  ASSUME NEW in, NEW x, Typed(in, x), NEW f \in Frame, NEW g \in Frame
  PROVE  SetTop(SetTop(x, f), g) = SetTop(x, g)
<1> DEFINE s == x.frames
           t == Append(Front(s), f)
<1>1. s \in Seq(Frame) /\ s # <<>>
  BY TopIs DEF Typed
<1>2. t = Append(Front(s), f)
  OBVIOUS
<1> HIDE DEF s, t
<1>3. Front(t) = Front(s)
  BY <1>1, <1>2, SwapIs
<1>4. SetTop(x, f) = [x EXCEPT !.frames = t] /\ SetTop(x, g) = [x EXCEPT !.frames = Append(Front(s), g)]
  BY <1>2 DEF SetTop, s
<1>5. [x EXCEPT !.frames = t].frames = t
  BY DEF Typed, Parser
<1>6. SetTop(SetTop(x, f), g) = [[x EXCEPT !.frames = t] EXCEPT !.frames = Append(Front(t), g)]
  BY <1>4, <1>5 DEF SetTop
<1>7. [[x EXCEPT !.frames = t] EXCEPT !.frames = Append(Front(s), g)] = [x EXCEPT !.frames = Append(Front(s), g)]
  OBVIOUS
<1> QED BY <1>3, <1>4, <1>6, <1>7

\* The context on top goes on, with all others where they are.
LEMMA ReplaceTop ==
  ASSUME NEW in, NEW x, Base(in, x), NEW f \in Frame, f.e = Top(x).e,
         Placed(in, Parsed(in, x), Len(x.frames), f), NEW y, y = SetTop(x, f)
  PROVE  Base(in, y) /\ Parsed(in, y) = Parsed(in, x) /\ Top(y) = f /\ SameRest(x, y)
<1>1. Typed(in, y) /\ Top(y) = f /\ SameRest(x, y) /\ Swapped(x.frames, y.frames, f)
  BY SetTopIs DEF Base
<1>2. Parsed(in, y) = Parsed(in, x) /\ Honest(in, y)
  BY <1>1 DEF Base, SameRest, Parsed, Honest
<1> DEFINE K == Parsed(in, x)
           n == Len(x.frames)
<1>3. n \in Nat \ {0} /\ Top(x) = x.frames[n]
  BY TopIs DEF Base
<1>4. /\ Len(y.frames) = n /\ y.frames[n] = f
      /\ \A i \in 1 .. n - 1 : y.frames[i] = x.frames[i]
  BY <1>1 DEF Swapped
<1>5. Chain(in, K, x.frames) /\ Placed(in, K, n, f)
  BY DEF Base
<1> HIDE DEF K, n
<1>6. ASSUME NEW k \in 1 .. Len(y.frames) PROVE Placed(in, K, k, y.frames[k])
  <2>1. CASE k = n
    BY <1>4, <1>5, <2>1
  <2>2. CASE k # n
    <3>1. k \in 1 .. n - 1 /\ k \in 1 .. n
      BY <1>3, <1>4, <2>2
    <3> QED BY <1>4, <1>5, <3>1 DEF Chain, n
  <2> QED BY <2>1, <2>2
<1>7. ASSUME NEW k \in 1 .. Len(y.frames) - 1 PROVE Waits(in, K, y.frames[k], y.frames[k + 1].e)
  <2>1. k \in 1 .. n - 1
    BY <1>4
  <2>2. Waits(in, K, x.frames[k], x.frames[k + 1].e) /\ y.frames[k] = x.frames[k]
    BY <1>4, <1>5, <2>1 DEF Chain, n
  <2>3. y.frames[k + 1].e = x.frames[k + 1].e
    <3>1. CASE k + 1 = n
      BY <1>3, <1>4, <3>1
    <3>2. CASE k + 1 # n
      <4>1. k + 1 \in 1 .. n - 1
        BY <1>3, <2>1, <3>2
      <4> QED BY <1>4, <4>1
    <3> QED BY <3>1, <3>2
  <2> QED BY <2>2, <2>3
<1>8. Chain(in, K, y.frames)
  BY <1>6, <1>7 DEF Chain
<1> QED BY <1>1, <1>2, <1>8 DEF Base, K

\* g is f one item further.
Further(f, g) ==
    /\ g \in Frame /\ g.e = f.e /\ g.src = f.src /\ g.turn = f.turn /\ g.pos = f.pos + 1
    /\ g.open = f.open + Up(f.src[f.pos])

\* A context one item further is in its place, if the item is not a stray end tag.
LEMMA FurtherPlaced ==
  ASSUME NEW in, NEW K, NEW k, NEW f \in Frame, Placed(in, K, k, f), f.pos <= Len(f.src),
         f.src[f.pos].t = "end" => f.open > 0, NEW g, Further(f, g)
  PROVE  Placed(in, K, k, g)
<1>1. f.src \in Seq(Item) /\ Len(f.src) \in Nat /\ f.pos \in 1 .. Len(f.src) /\ f.pos - 1 \in Nat
  BY LenProperties DEF Frame, Placed
<1>2. /\ f.open = Depth(f.src, f.pos - 1) /\ \A i \in 0 .. f.pos - 1 : Depth(f.src, i) >= 0
  BY DEF Placed
<1> DEFINE j == f.pos - 1
<1>3. j \in Nat /\ f.pos = j + 1
  BY <1>1
<1> HIDE DEF j
<1>4. Depth(f.src, j) \in Int /\ Depth(f.src, j + 1) = Depth(f.src, j) + Up(f.src[j + 1])
  BY <1>3, DepthStep
<1>5. Depth(f.src, f.pos) = f.open + Up(f.src[f.pos]) /\ f.open \in Int /\ f.open >= 0
  BY <1>1, <1>2, <1>3, <1>4 DEF j
<1>6. Depth(f.src, f.pos) >= 0
  BY <1>5 DEF Up
<1>7. g.pos = f.pos + 1 /\ g.src = f.src /\ g.open = Depth(g.src, g.pos - 1) /\ g.pos - 1 = f.pos
  BY <1>1, <1>5 DEF Further
<1>8. g.pos \in 1 .. Len(g.src) + 1
  BY <1>1, <1>7
<1>9. ASSUME NEW i \in 0 .. g.pos - 1 PROVE Depth(g.src, i) >= 0
  <2>1. i \in 0 .. f.pos - 1 \/ i = f.pos
    BY <1>1, <1>7
  <2> QED BY <1>2, <1>6, <1>7, <2>1
<1> QED BY <1>7, <1>8, <1>9 DEF Further, Placed

\* An item other than a reference.
LEMMA GoesOn ==
  ASSUME NEW in, NEW x, Good(in, x), NEW f, f = Top(x), f.pos <= Len(f.src),
         f.src[f.pos].t # "ref", f.src[f.pos].t = "end" => f.open > 0, NEW g, Further(f, g),
         NEW y, y = SetTop(x, g)
  PROVE  Good(in, y) /\ SameRest(x, y)
<1> DEFINE K == Parsed(in, x)
<1>1. /\ f \in Frame /\ Placed(in, K, Len(x.frames), f)
  BY TopIs DEF Good, Base, Chain
<1>2. Placed(in, K, Len(x.frames), g) /\ g \in Frame /\ g.e = f.e
  BY <1>1, FurtherPlaced DEF Further
<1> HIDE DEF K
<1>3. Base(in, y) /\ Parsed(in, y) = K /\ Top(y) = g /\ SameRest(x, y)
  BY <1>2, ReplaceTop DEF Good, K
<1>4. Ready(in, K, g)
  <2>1. Referred(in, f.src, f.pos - 1) \subseteq K
    BY DEF Good, Ready, K
  <2>2. f.pos \in Nat /\ g.src = f.src /\ g.pos - 1 = f.pos
    BY <1>1 DEF Frame, Further
  <2>3. ASSUME NEW e, NEW i \in 1 .. f.pos, f.src[i] = Reference(e) PROVE i \in 1 .. f.pos - 1
    BY <2>2, <2>3 DEF Reference
  <2>4. Referred(in, f.src, f.pos) \subseteq Referred(in, f.src, f.pos - 1)
    BY <2>3 DEF Referred
  <2> QED BY <2>1, <2>2, <2>4 DEF Ready
<1> QED BY <1>3, <1>4 DEF Good

\* A reference.
LEMMA GoesPast ==
  ASSUME NEW in, NEW x, Good(in, x), NEW f, f = Top(x), f.pos <= Len(f.src),
         f.src[f.pos].t = "ref", NEW y, y = Advance(x)
  PROVE  Pending(in, y, f.src[f.pos].e) /\ SameRest(x, y) /\ f.src[f.pos].e \in Entities
<1> DEFINE K == Parsed(in, x)
           g == [f EXCEPT !.pos = @ + 1]
           e == f.src[f.pos].e
<1>1. /\ f \in Frame /\ Placed(in, K, Len(x.frames), f)
  BY TopIs DEF Good, Base, Chain
<1>2. f.pos \in Nat /\ f.src \in Seq(Item) /\ f.pos \in 1 .. Len(f.src)
  BY <1>1 DEF Frame, Placed
<1>3. f.src[f.pos] \in Item
  BY <1>2, ElementOfSeq
<1>4. f.src[f.pos] = Reference(e) /\ e \in Entities
  BY <1>3 DEF Item, Reference
<1>5. Further(f, g)
  <2>1. Up(f.src[f.pos]) = 0
    BY DEF Up
  <2>2. f.pos + 1 \in Nat /\ f.open \in Int /\ f.open = f.open + 0
    BY <1>1 DEF Frame
  <2>3. g \in Frame
    BY <1>1, <2>2 DEF Frame
  <2>4. g.e = f.e /\ g.src = f.src /\ g.turn = f.turn /\ g.pos = f.pos + 1 /\ g.open = f.open
    BY <1>1 DEF Frame
  <2> QED BY <2>1, <2>2, <2>3, <2>4 DEF Further
<1>6. y = SetTop(x, g)
  BY DEF Advance
<1> HIDE DEF g, K, e
<1>7. Placed(in, K, Len(x.frames), g) /\ g \in Frame /\ g.e = f.e
  BY <1>1, <1>5, FurtherPlaced DEF Further
<1>8. Base(in, y) /\ Parsed(in, y) = K /\ Top(y) = g /\ SameRest(x, y)
  BY <1>6, <1>7, ReplaceTop DEF Good, K
<1>9. Waits(in, K, g, e)
  <2>1. Referred(in, f.src, f.pos - 1) \subseteq K
    BY DEF Good, Ready, K
  <2>2. g.src = f.src /\ g.pos - 1 = f.pos /\ g.pos - 2 = f.pos - 1 /\ g.pos >= 2
    BY <1>2, <1>5 DEF Further
  <2> QED BY <1>4, <2>1, <2>2 DEF Waits
<1> QED BY <1>4, <1>8, <1>9 DEF Pending, e

-----------------------------------------------------------------------------
(***************************************************************************)
(* Plain.                                                                  *)
(***************************************************************************)
\* Induction up to N over a set.
LEMMA StepByStep ==
  ASSUME NEW N \in Nat, NEW T, 0 \in T,
         \A k \in 0 .. N - 1 : k \in T => k + 1 \in T
  PROVE  \A k \in 0 .. N : k \in T
<1> SUFFICES ASSUME {k \in 0 .. N : k \notin T} # {} PROVE FALSE
  OBVIOUS
<1> DEFINE R == {k \in 0 .. N : k \notin T}
<1>1. PICK m \in R : \A n \in R : m <= n
  <2>1. R \in SUBSET Nat /\ R # {}
    OBVIOUS
  <2> HIDE DEF R
  <2>2. IsWellFoundedOn(OpToRel(<, Nat), Nat)
    BY NatLessThanWellFounded
  <2>3. PICK m \in R : \A n \in R : ~ (<<n, m>> \in OpToRel(<, Nat))
    BY <2>1, <2>2, WFMin
  <2>4. ASSUME NEW n \in R PROVE m <= n
    <3>1. m \in Nat /\ n \in Nat /\ <<n, m>> \in Nat \X Nat
      BY <2>1
    <3>2. ~(<<n, m>>[1] < <<n, m>>[2])
      BY <2>3, <3>1 DEF OpToRel
    <3> QED BY <3>1, <3>2
  <2> QED BY <2>4
<1>2. m # 0 /\ m - 1 \in 0 .. N - 1
  BY <1>1
<1>3. m - 1 \in T
  BY <1>1, <1>2
<1> QED BY <1>1, <1>2, <1>3

\* One item more.
WithItem(t, item) == IF item.t = "ref" THEN t ELSE Append(t, item)

\* f[k] is what is left of the first k items of s.
Upto(s, f, n) == f = [k \in 0 .. n |-> IF k = 0 THEN <<>> ELSE WithItem(f[k - 1], s[k])]

\* The same, item by item.
Plainly(s, f, n) ==
    DOMAIN f = 0 .. n /\ f[0] = <<>> /\ \A k \in 1 .. n : f[k] = WithItem(f[k - 1], s[k])

\* The recursion that Plain builds makes its values one item at a time.
LEMMA UptoIs ==
  ASSUME NEW s, NEW n \in Nat, NEW f
  PROVE  Upto(s, f, n) => Plainly(s, f, n)
<1> SUFFICES ASSUME Upto(s, f, n) PROVE Plainly(s, f, n)
  OBVIOUS
<1>1. DOMAIN f = 0 .. n /\ \A k \in 0 .. n : f[k] = IF k = 0 THEN <<>> ELSE WithItem(f[k - 1], s[k])
  BY DEF Upto
<1> QED BY <1>1 DEF Plainly

\* f with one item more.
Longer(s, f, n) == [k \in 0 .. n + 1 |-> IF k = n + 1 THEN WithItem(f[n], s[n + 1]) ELSE f[k]]

\* There are such functions.
LEMMA UptoExists ==
  ASSUME NEW s, NEW N \in Nat
  PROVE  \E f : Upto(s, f, N)
<1> DEFINE T == {n \in 0 .. N : \E f : Upto(s, f, n)}
<1>1. 0 \in T
  <2> DEFINE f == [k \in 0 .. 0 |-> <<>>]
  <2>1. Upto(s, f, 0)
    BY DEF Upto
  <2> QED BY <2>1
<1>2. ASSUME NEW n \in 0 .. N - 1, n \in T PROVE n + 1 \in T
  <2>1. PICK f : Upto(s, f, n)
    BY <1>2
  <2>2. Plainly(s, f, n) /\ n \in Nat
    BY <2>1, UptoIs
  <2> DEFINE g == Longer(s, f, n)
  <2>3. /\ DOMAIN g = 0 .. n + 1 /\ g[n + 1] = WithItem(f[n], s[n + 1])
        /\ \A k \in 0 .. n : g[k] = f[k]
    BY <2>2 DEF Longer
  <2>4. g = [k \in 0 .. n + 1 |-> g[k]]
    BY DEF Longer
  <2> HIDE DEF g
  <2>5. ASSUME NEW k \in 0 .. n + 1 PROVE g[k] = IF k = 0 THEN <<>> ELSE WithItem(g[k - 1], s[k])
    <3>1. CASE k = 0
      BY <2>2, <2>3, <3>1 DEF Plainly
    <3>2. CASE k = n + 1
      <4>1. k - 1 = n /\ k # 0 /\ n \in 0 .. n
        BY <2>2, <3>2
      <4> QED BY <2>3, <3>2, <4>1
    <3>3. CASE k # 0 /\ k # n + 1
      <4>1. k \in 1 .. n /\ k \in 0 .. n /\ k - 1 \in 0 .. n
        BY <2>2, <3>3
      <4> QED BY <2>2, <2>3, <3>3, <4>1 DEF Plainly
    <3> QED BY <3>1, <3>2, <3>3
  <2>6. Upto(s, g, n + 1)
    BY <2>4, <2>5 DEF Upto
  <2>7. n + 1 \in 0 .. N
    BY <2>2
  <2> QED BY <2>6, <2>7
<1> HIDE DEF T
<1>3. N \in T
  <2>1. \A n \in 0 .. N : n \in T
    BY <1>1, <1>2, StepByStep
  <2> QED BY <2>1
<1> QED BY <1>3 DEF T

\* Plain item by item.
LEMMA PlainIs ==
  ASSUME NEW s, NEW n \in Nat, Len(s) = n
  PROVE  \E f : Plainly(s, f, n) /\ Plain(s) = f[n]
<1> DEFINE f == CHOOSE g : Upto(s, g, n)
<1>1. Upto(s, f, n)
  BY UptoExists
<1>2. Plain(s) = f[n]
  BY DEF Plain, Upto, WithItem
<1> HIDE DEF f
<1>3. Plainly(s, f, n)
  BY <1>1, UptoIs
<1> QED BY <1>2, <1>3

\* What is left of some items are items.
LEMMA PlainType ==
  ASSUME NEW s \in Seq(Item)
  PROVE  Plain(s) \in Seq(Item)
<1> DEFINE n == Len(s)
<1>1. n \in Nat
  BY LenProperties
<1> HIDE DEF n
<1>2. PICK f : Plainly(s, f, n) /\ Plain(s) = f[n]
  BY <1>1, PlainIs DEF n
<1> DEFINE T == {k \in 0 .. n : f[k] \in Seq(Item)}
<1>3. 0 \in T
  <2>1. <<>> \in Seq(Item)
    BY EmptySeq
  <2>2. f[0] \in Seq(Item) /\ 0 \in 0 .. n
    BY <1>1, <1>2, <2>1 DEF Plainly
  <2> QED BY <2>2
<1>4. ASSUME NEW k \in 0 .. n - 1, k \in T PROVE k + 1 \in T
  <2>1. k + 1 \in 1 .. n /\ (k + 1) - 1 = k /\ k + 1 \in 0 .. n
    BY <1>1
  <2>2. f[k + 1] = WithItem(f[k], s[k + 1]) /\ f[k] \in Seq(Item)
    BY <1>2, <1>4, <2>1 DEF Plainly
  <2>3. s[k + 1] \in Item
    BY <2>1, ElementOfSeq DEF n
  <2>4. WithItem(f[k], s[k + 1]) \in Seq(Item)
    BY <2>2, <2>3, AppendProperties DEF WithItem
  <2> QED BY <2>1, <2>2, <2>4
<1> HIDE DEF T
<1>5. \A k \in 0 .. n : k \in T
  BY <1>1, <1>3, <1>4, StepByStep
<1>6. n \in T
  BY <1>1, <1>5
<1> QED BY <1>2, <1>6 DEF T

-----------------------------------------------------------------------------
(***************************************************************************)
(* The parts of parseReference.                                            *)
(***************************************************************************)
\* A parser that gives up is otherwise the same.
Stopped(x, y, why) ==
    /\ y.frames = x.frames /\ y.ents = x.ents /\ y.sizeentcopy = x.sizeentcopy /\ y.out = x.out
    /\ y.status = why

\* Fail changes the status alone, so a parser of the type stays one.
LEMMA FailIs ==
  ASSUME NEW in, NEW x, Typed(in, x), NEW why \in Outcomes, NEW y, y = Fail(x, why)
  PROVE  Typed(in, y) /\ Stopped(x, y, why)
<1> DEFINE S == Seq(Frame)
           E == [in.declared -> Entity]
           O == Seq(Item)
<1>1. x \in [frames : S, ents : E, sizeentcopy : Int, out : O, status : Outcomes]
  BY DEF Typed, Parser
<1>2. y = [x EXCEPT !.status = why]
  BY DEF Fail
<1> HIDE DEF S, E, O, Outcomes
<1>3. /\ y \in [frames : S, ents : E, sizeentcopy : Int, out : O, status : Outcomes]
      /\ Stopped(x, y, why)
  BY <1>1, <1>2 DEF Stopped
<1> QED BY <1>3 DEF Typed, Parser, S, E, O, Stopped

\* A parser after a charge: the same, or over a limit.
Charged(x, y) ==
    /\ y.frames = x.frames /\ y.ents = x.ents /\ y.out = x.out
    /\ y.status = x.status \/ y.status = "limit"

Charge(x, v) == entityCheckLimits([x EXCEPT !.sizeentcopy = v])

\* entityCheckLimits changes the counter and, over a limit, the status.
LEMMA ChargeIs ==
  ASSUME NEW x, Typed(input, x), NEW v \in Int, NEW y, y = Charge(x, v)
  PROVE  Typed(input, y) /\ Charged(x, y) /\ y.sizeentcopy = v
<1> DEFINE S == Seq(Frame)
           E == [input.declared -> Entity]
           O == Seq(Item)
           c == [x EXCEPT !.sizeentcopy = v]
<1>1. x \in [frames : S, ents : E, sizeentcopy : Int, out : O, status : Outcomes]
  BY DEF Typed, Parser
<1>2. y = c \/ y = Fail(c, "limit")
  BY DEF Charge, entityCheckLimits
<1>3. /\ c \in [frames : S, ents : E, sizeentcopy : Int, out : O, status : Outcomes]
      /\ c.frames = x.frames /\ c.ents = x.ents /\ c.out = x.out /\ c.status = x.status
      /\ c.sizeentcopy = v
  <2> HIDE DEF S, E, O, Outcomes
  <2> QED BY <1>1
<1> HIDE DEF c
<1>4. Typed(input, c)
  BY <1>3 DEF Typed, Parser
<1>5. CASE y = Fail(c, "limit")
  <2>1. "limit" \in Outcomes
    BY DEF Outcomes
  <2>2. Typed(input, y) /\ Stopped(c, y, "limit")
    BY <1>4, <1>5, <2>1, FailIs
  <2> QED BY <1>3, <2>2 DEF Stopped, Charged
<1>6. CASE y = c
  BY <1>3, <1>4, <1>6 DEF Charged
<1> QED BY <1>2, <1>5, <1>6

\* The charge for a reference.
LEMMA CheckIs ==
  ASSUME NEW x, Typed(input, x), NEW e, NEW size \in Int, NEW y, y = entityCheck(x, e, size)
  PROVE  Typed(input, y) /\ Charged(x, y)
<1> DEFINE known == e \in DOMAIN x.ents /\ x.ents[e].checked
           v == x.sizeentcopy + FixedCost + IF known THEN x.ents[e].expandedSize ELSE size
<1>1. y = Charge(x, v)
  BY DEF entityCheck, Charge
<1>2. x.sizeentcopy \in Int /\ x.ents \in [input.declared -> Entity]
  BY DEF Typed, Parser
<1>3. known => x.ents[e].expandedSize \in Int
  BY <1>2 DEF Entity
<1>4. v \in Int
  BY <1>2, <1>3, BoundsAssumption
<1> HIDE DEF v
<1> QED BY <1>1, <1>4, ChargeIs

\* A charge leaves a parser that goes on as it was.
LEMMA ChargedPending ==
  ASSUME NEW in, NEW x, NEW e, Pending(in, x, e), NEW y, Typed(in, y), Charged(x, y)
  PROVE  Pending(in, y, e) /\ Parsed(in, y) = Parsed(in, x)
<1>1. Likewise(x, y)
  BY DEF Charged, Likewise, Similar
<1>2. Parsed(in, y) = Parsed(in, x)
  BY DEF Charged, Parsed
<1> QED BY <1>1, <1>2, LikewisePending

\* All that the context has met is in K when e is.
LEMMA Arrives ==
  ASSUME NEW in, NEW x, NEW e, Pending(in, x, e), CanEnter(in, e) => e \in Parsed(in, x)
  PROVE  Good(in, x)
<1> DEFINE f == Top(x)
           K == Parsed(in, x)
<1>1. f.pos \in Nat /\ f.pos >= 2 /\ f.src[f.pos - 1] = Reference(e)
      /\ Referred(in, f.src, f.pos - 2) \subseteq K
  BY TopIs DEF Pending, Base, Waits, Frame
<1> HIDE DEF f, K
<1>2. ASSUME NEW g \in Referred(in, f.src, f.pos - 1) PROVE g \in K
  <2>1. PICK i \in 1 .. f.pos - 1 : f.src[i] = Reference(g)
    BY DEF Referred
  <2>2. g \in in.declared /\ CanEnter(in, g)
    BY DEF Referred
  <2>3. CASE i = f.pos - 1
    <3>1. Reference(g) = Reference(e)
      BY <1>1, <2>1, <2>3
    <3>2. g = e
      BY <3>1 DEF Reference
    <3> QED BY <2>2, <3>2 DEF K
  <2>4. CASE i # f.pos - 1
    <3>1. i \in 1 .. f.pos - 2
      BY <1>1, <2>4
    <3>2. g \in Referred(in, f.src, f.pos - 2)
      BY <2>1, <2>2, <3>1 DEF Referred
    <3> QED BY <1>1, <3>2
  <2> QED BY <2>3, <2>4
<1> QED BY <1>2 DEF Good, Pending, Ready, f, K

\* y is x with another context on top.
Pushed(x, y, c) == y.frames = Append(x.frames, c) /\ y.ents = x.ents

\* A context for e is opened where a reference to e was read.
LEMMA PushGood ==
  ASSUME NEW in, NEW x, NEW e, Pending(in, x, e), CanEnter(in, e), NEW c \in Frame,
         c.e = e, c.src = in.body[e], c.pos = 1, c.open = 0, Len(c.src) \in Nat,
         c.turn = "again" => e \in Parsed(in, x), NEW y, Typed(in, y), Pushed(x, y, c)
  PROVE  Good(in, y)
<1> DEFINE K == Parsed(in, x)
           n == Len(x.frames)
<1>1. Parsed(in, y) = K /\ Honest(in, y)
  BY DEF Pushed, Parsed, Pending, Base, Honest
<1>2. n \in Nat \ {0} /\ x.frames \in Seq(Frame) /\ Top(x) = x.frames[n]
  BY TopIs DEF Pending, Base
<1>3. /\ Len(y.frames) = n + 1 /\ y.frames[n + 1] = c
      /\ \A k \in 1 .. n : y.frames[k] = x.frames[k]
  BY <1>2, AppendProperties DEF Pushed
<1>4. Chain(in, K, x.frames) /\ Waits(in, K, Top(x), e)
  BY DEF Pending, Base
<1>5. Top(y) = c
  BY <1>3, TopIs
<1> HIDE DEF K, n
<1>6. Placed(in, K, n + 1, c)
  <2>1. c.pos - 1 = 0 /\ c.pos \in 1 .. Len(c.src) + 1
    OBVIOUS
  <2>2. Depth(c.src, 0) = 0
    BY DepthStep
  <2>3. \A i \in 0 .. c.pos - 1 : Depth(c.src, i) >= 0
    BY <2>1, <2>2
  <2>4. n + 1 # 1
    BY <1>2
  <2> QED BY <2>1, <2>2, <2>3, <2>4 DEF Placed, K
<1>7. ASSUME NEW k \in 1 .. Len(y.frames) PROVE Placed(in, K, k, y.frames[k])
  <2>1. k \in 1 .. n \/ k = n + 1
    BY <1>2, <1>3
  <2>2. CASE k \in 1 .. n
    BY <1>3, <1>4, <2>2 DEF Chain, n
  <2>3. CASE k = n + 1
    BY <1>3, <1>6, <2>3
  <2> QED BY <2>1, <2>2, <2>3
<1>8. ASSUME NEW k \in 1 .. Len(y.frames) - 1 PROVE Waits(in, K, y.frames[k], y.frames[k + 1].e)
  <2>1. k \in 1 .. n
    BY <1>2, <1>3
  <2>2. CASE k = n
    BY <1>2, <1>3, <1>4, <2>1, <2>2
  <2>3. CASE k # n
    <3>1. k \in 1 .. n - 1 /\ k + 1 \in 1 .. n
      BY <1>2, <2>1, <2>3
    <3>2. y.frames[k] = x.frames[k] /\ y.frames[k + 1] = x.frames[k + 1]
      BY <1>3, <2>1, <3>1
    <3> QED BY <1>4, <3>1, <3>2 DEF Chain, n
  <2> QED BY <2>2, <2>3
<1>9. Chain(in, K, y.frames)
  BY <1>7, <1>8 DEF Chain
<1>10. Ready(in, K, c)
  <2>1. c.pos - 1 = 0
    OBVIOUS
  <2>2. Referred(in, c.src, 0) = {}
    BY DEF Referred
  <2> QED BY <2>1, <2>2 DEF Ready
<1> QED BY <1>1, <1>5, <1>9, <1>10 DEF Good, Base, Pending, K

\* The text of an entity is loaded and charged, or the parser gives up.
LEMMA LoadIs ==
  ASSUME InputOK(input), NEW x, Typed(input, x), NEW e \in input.declared, NEW y, y = Load(x, e)
  PROVE  /\ Typed(input, y) /\ y.frames = x.frames /\ y.ents = x.ents
         /\ y.status \in {x.status, "limit", "unresolved"}
<1>1. CASE ~External(e)
  <2>0. e \notin input.unreadable
    BY <1>1 DEF InputOK, External
  <2>1. y = x
    BY <1>1, <2>0 DEF Load
  <2> QED BY <2>1
<1>2. CASE External(e) /\ e \in input.unreadable
  <2>1. y = Fail(x, "unresolved") /\ "unresolved" \in Outcomes
    BY <1>2 DEF Load, Outcomes
  <2>2. Typed(input, y) /\ Stopped(x, y, "unresolved")
    BY <2>1, FailIs
  <2> QED BY <2>2 DEF Stopped
<1>3. CASE External(e) /\ e \notin input.unreadable
  <2> DEFINE v == x.sizeentcopy + Len(input.body[e])
  <2>1. y = Charge(x, v)
    BY <1>3 DEF Load, entityCheckBytes, Charge
  <2>2. v \in Int
    BY InputFacts DEF Typed, Parser
  <2> HIDE DEF v
  <2>3. Typed(input, y) /\ Charged(x, y)
    BY <2>1, <2>2, ChargeIs
  <2> QED BY <2>3 DEF Charged
<1> QED BY <1>1, <1>2, <1>3

\* A parser that has given up.
LEMMA GivenUp ==
  ASSUME NEW in, NEW y, Typed(in, y), y.status \notin {"running", "done"}
  PROVE  Fine(in, y)
BY DEF Fine

\* parseBalancedChunkInternal or parseExternalEntityPrivate, up to parseContent.
LEMMA OpenChunkFine ==
  ASSUME InputOK(input), NEW x, NEW e, Pending(input, x, e), CanEnter(input, e),
         x.status = "running", NEW turn \in {"first", "again"}, NEW was \in BOOLEAN,
         turn = "again" => e \in Parsed(input, x), NEW y, y = OpenChunk(x, e, turn, was)
  PROVE  Fine(input, y)
<1> DEFINE f == Top(x)
           z == Load(x, e)
           c == Context(e, input.body[e], f.depth + 2, f.elemDepth, turn, was, x.sizeentcopy)
<1>1. e \in input.declared /\ Typed(input, x)
  BY DEF CanEnter, Pending, Base
<1>2. f \in Frame /\ x.frames \in Seq(Frame)
  BY <1>1, TopIs
<1>3. /\ Typed(input, z) /\ z.frames = x.frames /\ z.ents = x.ents
      /\ z.status \in {x.status, "limit", "unresolved"}
  BY <1>1, LoadIs
<1>4. CASE f.depth + 1 > MaxNest
  <2>1. y = Fail(x, "loop") /\ "loop" \in Outcomes
    BY <1>4 DEF OpenChunk, Outcomes
  <2>2. Typed(input, y) /\ Stopped(x, y, "loop")
    BY <1>1, <2>1, FailIs
  <2> QED BY <2>2, GivenUp DEF Stopped
<1>5. CASE ~(f.depth + 1 > MaxNest) /\ z.status # "running"
  <2>1. y = z
    BY <1>5 DEF OpenChunk, Then
  <2> QED BY <1>3, <1>5, <2>1, GivenUp
<1>6. CASE ~(f.depth + 1 > MaxNest) /\ z.status = "running"
  <2>1. y = [z EXCEPT !.frames = Append(@, c)]
    BY <1>6 DEF OpenChunk, Then
  <2>2. /\ input.body[e] \in Seq(Item) /\ e \in Entities \cup {NoEntity} /\ f.depth + 2 \in Nat
        /\ f.elemDepth \in Int /\ x.sizeentcopy \in Int /\ Len(input.body[e]) \in Nat
    <3>1. input.body[e] \in Seq(Item) /\ e \in Entities /\ Len(input.body[e]) \in Nat
      BY <1>1, InputFacts
    <3>2. f.depth \in Nat /\ f.elemDepth \in Int
      BY <1>2 DEF Frame
    <3>3. x.sizeentcopy \in Int
      BY <1>1 DEF Typed, Parser
    <3> QED BY <3>1, <3>2, <3>3
  <2>3. c \in Frame /\ c.e = e /\ c.src = input.body[e] /\ c.pos = 1 /\ c.open = 0 /\ c.turn = turn
    <3>1. c = Context(e, input.body[e], f.depth + 2, f.elemDepth, turn, was, x.sizeentcopy)
      OBVIOUS
    <3>2. e \in Entities \cup {NoEntity} /\ f.depth + 2 \in Nat
      BY <2>2
    <3> DEFINE b == input.body[e]
               d == f.depth + 2
               t == f.elemDepth
               n == x.sizeentcopy
    <3>3. b \in Seq(Item) /\ d \in Nat /\ t \in Int /\ n \in Int /\ c = Context(e, b, d, t, turn, was, n)
      BY <2>2, <3>1, <3>2
    <3> HIDE DEF c, f, b, d, t, n
    <3>4. c \in Frame /\ c.e = e /\ c.src = b /\ c.pos = 1 /\ c.open = 0 /\ c.turn = turn
      BY <3>2, <3>3, EmptySeq DEF Context, Frame
    <3> QED BY <3>4 DEF b
  <2> HIDE DEF c, z, f
  <2> DEFINE S == Seq(Frame)
             E == [input.declared -> Entity]
             O == Seq(Item)
             t == Append(x.frames, c)
  <2>4. t \in S /\ t # <<>>
    <3>1. t \in Seq(Frame) /\ Len(t) = Len(x.frames) + 1
      BY <1>2, <2>3, AppendProperties
    <3>2. Len(x.frames) \in Nat
      BY <1>2, LenProperties
    <3> QED BY <3>1, <3>2, EmptySeq
  <2>5. z \in [frames : S, ents : E, sizeentcopy : Int, out : O, status : Outcomes]
    BY <1>3 DEF Typed, Parser
  <2>6. y = [z EXCEPT !.frames = t]
    BY <1>3, <2>1
  <2> HIDE DEF S, E, O, t, Outcomes
  <2>7. /\ y \in [frames : S, ents : E, sizeentcopy : Int, out : O, status : Outcomes]
        /\ y.frames = t /\ y.ents = z.ents /\ y.status = z.status
    BY <2>4, <2>5, <2>6
  <2>8. Typed(input, y) /\ Pushed(x, y, c)
    BY <1>3, <2>4, <2>7 DEF Typed, Parser, S, E, O, Pushed, t
  <2>9. Good(input, y)
    BY <2>2, <2>3, <2>8, PushGood
  <2> QED BY <1>6, <2>7, <2>8, <2>9 DEF Fine
<1> QED BY <1>4, <1>5, <1>6

\* What stands for a reference to e.
LEMMA ShowFine ==
  ASSUME InputOK(input), NEW x, NEW e \in input.declared, Pending(input, x, e),
         x.status = "running", CanEnter(input, e) => e \in Parsed(input, x), NEW y, y = Show(x, e)
  PROVE  Fine(input, y)
<1>1. Good(input, x) /\ Typed(input, x)
  BY Arrives DEF Good, Base
<1>2. CASE input.noEnt
  <2> DEFINE kids == x.ents[e].kids
  <2>1. y = replayEntityNodes(x, kids)
    BY <1>2 DEF Show
  <2>2. kids \in Seq(Item)
    BY <1>1 DEF Typed, Parser, Entity
  <2> HIDE DEF kids
  <2>3. CASE Top(x).elemDepth + Nesting(kids) > MaxElemDepth
    <3>1. y = Fail(x, "depth") /\ "depth" \in Outcomes
      BY <2>1, <2>3 DEF replayEntityNodes, Outcomes
    <3>2. Typed(input, y) /\ Stopped(x, y, "depth")
      BY <1>1, <3>1, FailIs
    <3> QED BY <3>2, GivenUp DEF Stopped
  <2>4. CASE ~(Top(x).elemDepth + Nesting(kids) > MaxElemDepth)
    <3>1. y = Deliver(x, Plain(kids)) /\ Plain(kids) \in Seq(Item)
      BY <2>1, <2>2, <2>4, PlainType DEF replayEntityNodes
    <3>2. Typed(input, y) /\ Likewise(x, y) /\ y.status = x.status
      BY <1>1, <3>1, DeliverIs
    <3> QED BY <1>1, <3>2, LikewiseGood DEF Fine
  <2> QED BY <2>3, <2>4
<1>3. CASE ~input.noEnt
  <2>1. y = Deliver(x, <<Reference(e)>>)
    BY <1>3 DEF Show
  <2>2. <<Reference(e)>> \in Seq(Item)
    <3>1. Reference(e) \in Item
      BY InputFacts DEF Item, Reference
    <3> QED BY <3>1
  <2>3. Typed(input, y) /\ Likewise(x, y) /\ y.status = x.status
    BY <1>1, <2>1, <2>2, DeliverIs
  <2> QED BY <1>1, <2>3, LikewiseGood DEF Fine
<1> QED BY <1>2, <1>3

\* A known entity is in K unless it is blocked.
LEMMA KnownIsParsed ==
  ASSUME NEW in, NEW x, Base(in, x), NEW e \in in.declared, x.ents[e].checked,
         ~(e \in in.external /\ in.noXXE)
  PROVE  e \in Parsed(in, x) /\ CanEnter(in, e)
BY DEF Base, Honest, Parsed

\* The same for what stands for a reference to an entity without children.
LEMMA ShowOrParseFine ==
  ASSUME InputOK(input), NEW x, NEW e \in input.declared, Pending(input, x, e),
         x.status = "running", CanEnter(input, e) => e \in Parsed(input, x), NEW was \in BOOLEAN,
         was => x.ents[e].checked, NEW y, y = ShowOrParse(x, e, was)
  PROVE  Fine(input, y)
<1>1. CASE x.ents[e].kids = <<>> /\ was /\ ~Blocked(e)
  <2>1. y = OpenChunk(x, e, "again", was)
    BY <1>1 DEF ShowOrParse
  <2>2. e \in Parsed(input, x) /\ CanEnter(input, e)
    BY <1>1, KnownIsParsed DEF Pending, Blocked, External
  <2> QED BY <2>1, <2>2, OpenChunkFine
<1>2. CASE ~(x.ents[e].kids = <<>> /\ was /\ ~Blocked(e))
  <2>1. y = Show(x, e)
    BY <1>2 DEF ShowOrParse
  <2> QED BY <2>1, ShowFine
<1> QED BY <1>1, <1>2

-----------------------------------------------------------------------------
(***************************************************************************)
(* The end of an entity.                                                   *)
(***************************************************************************)
\* Only e has changed, and is known now.
Kept(x, y, e) ==
    /\ y.frames = x.frames /\ y.out = x.out /\ y.sizeentcopy = x.sizeentcopy /\ y.status = x.status
    /\ y.ents[e].checked /\ DOMAIN y.ents = DOMAIN x.ents
    /\ \A g \in DOMAIN x.ents \ {e} : y.ents[g] = x.ents[g]

\* What is kept with an entity after its first parse.
LEMMA KeepIs ==
  ASSUME InputOK(input), NEW x, Typed(input, x), NEW e \in input.declared, NEW before \in Int,
         NEW kids \in Seq(Item), NEW y, y = Keep(x, e, before, kids)
  PROVE  Typed(input, y) /\ Kept(x, y, e)
<1> DEFINE S == Seq(Frame)
           D == input.declared
           E == [D -> Entity]
           O == Seq(Item)
           v == [checked |-> TRUE, expandedSize |-> x.sizeentcopy - before + ContentLen(e),
                 kids |-> IF x.ents[e].kids = <<>> THEN kids ELSE x.ents[e].kids]
           t == [x.ents EXCEPT ![e] = v]
<1>1. x \in [frames : S, ents : E, sizeentcopy : Int, out : O, status : Outcomes]
  BY DEF Typed, Parser
<1>2. y = [x EXCEPT !.ents = t]
  BY DEF Keep
<1>3. v \in Entity /\ v.checked
  <2>1. ContentLen(e) \in Int
    BY InputFacts DEF ContentLen
  <2>2. x.ents[e] \in Entity /\ x.sizeentcopy \in Int
    BY <1>1
  <2>3. x.ents[e].kids \in Seq(Item)
    BY <2>2 DEF Entity
  <2> QED BY <2>1, <2>2, <2>3 DEF Entity
<1> HIDE DEF v
<1>4. /\ t \in E /\ t[e] = v /\ DOMAIN t = DOMAIN x.ents /\ e \in DOMAIN x.ents
      /\ \A g \in DOMAIN x.ents \ {e} : t[g] = x.ents[g]
  BY <1>1, <1>3
<1> HIDE DEF S, E, O, t, D, Outcomes
<1>5. /\ y \in [frames : S, ents : E, sizeentcopy : Int, out : O, status : Outcomes]
      /\ y.ents = t /\ y.frames = x.frames /\ y.out = x.out /\ y.sizeentcopy = x.sizeentcopy
      /\ y.status = x.status
  BY <1>1, <1>2, <1>4
<1>6. Typed(input, y)
  BY <1>5 DEF Typed, Parser, S, E, O, D
<1>7. Kept(x, y, e)
  BY <1>3, <1>4, <1>5 DEF Kept
<1> QED BY <1>6, <1>7

\* The entities parsed when e is known too.
LEMMA KeptParsed ==
  ASSUME NEW in, NEW x, Typed(in, x), NEW e \in in.declared, NEW y, Kept(x, y, e)
  PROVE  /\ CanEnter(in, e) => Parsed(in, y) = Parsed(in, x) \cup {e}
         /\ ~CanEnter(in, e) => Parsed(in, y) = Parsed(in, x)
<1>1. DOMAIN x.ents = in.declared
  BY DEF Typed, Parser
<1>2. /\ y.ents[e].checked /\ \A g \in in.declared \ {e} : y.ents[g] = x.ents[g]
  BY <1>1 DEF Kept
<1> QED BY <1>2 DEF Parsed

\* Keep marks as checked only an entity that may be entered, or one that is blocked.
LEMMA KeptHonest ==
  ASSUME NEW in, NEW x, Typed(in, x), Honest(in, x), NEW e \in in.declared, NEW y, Kept(x, y, e),
         CanEnter(in, e) \/ (e \in in.external /\ in.noXXE)
  PROVE  Honest(in, y)
<1>1. DOMAIN x.ents = in.declared
  BY DEF Typed, Parser
<1>2. \A g \in in.declared \ {e} : y.ents[g] = x.ents[g]
  BY <1>1 DEF Kept
<1> QED BY <1>2 DEF Honest

\* One more entity whose text is balanced and leads into K.
LEMMA SettledMore ==
  ASSUME NEW in, NEW K, Settled(in, K), NEW e, Balanced(in.body[e]), InBody(in, e) \subseteq K,
         NEW L, L = K \cup {e}
  PROVE  Settled(in, L)
<1>1. \A f \in K : Balanced(in.body[f]) /\ InBody(in, f) \subseteq K
  BY DEF Settled
<1>2. \A f \in L : Balanced(in.body[f]) /\ InBody(in, f) \subseteq L
  BY <1>1
<1>3. ASSUME NEW S \in SUBSET L, S # {} PROVE \E g \in S : \A f \in S : g \notin InBody(in, f)
  <2>1. CASE e \in S /\ e \notin K
    <3>1. \A f \in S : e \notin InBody(in, f)
      BY <1>1, <2>1
    <3> QED BY <2>1, <3>1
  <2>2. CASE ~(e \in S /\ e \notin K)
    <3>1. S \in SUBSET K
      BY <2>2
    <3> QED BY <1>3, <3>1 DEF Settled
  <2> QED BY <2>1, <2>2
<1> QED BY <1>2, <1>3 DEF Settled

\* More entities in K.
LEMMA Widen ==
  ASSUME NEW in, NEW K, NEW L, K \subseteq L, NEW fr, Chain(in, K, fr)
  PROVE  Chain(in, L, fr) /\ \A f, e : Waits(in, K, f, e) => Waits(in, L, f, e)
<1>1. \A k, f : Placed(in, K, k, f) => Placed(in, L, k, f)
  BY DEF Placed
<1>2. \A f, e : Waits(in, K, f, e) => Waits(in, L, f, e)
  BY DEF Waits
<1>3. Chain(in, L, fr)
  BY <1>1, <1>2 DEF Chain
<1> QED BY <1>2, <1>3

\* An entity was parsed to its end where a reference to it was read.
LEMMA KeptPending ==
  ASSUME NEW in, NEW x, NEW e \in in.declared, Pending(in, x, e), NEW y, Typed(in, y), Kept(x, y, e),
         CanEnter(in, e) \/ (e \in in.external /\ in.noXXE),
         CanEnter(in, e) => Balanced(in.body[e]) /\ InBody(in, e) \subseteq Parsed(in, x)
  PROVE  Pending(in, y, e) /\ (CanEnter(in, e) => e \in Parsed(in, y))
<1> DEFINE K == Parsed(in, x)
           L == Parsed(in, y)
<1>1. /\ Typed(in, x) /\ Honest(in, x) /\ Settled(in, K) /\ Chain(in, K, x.frames)
      /\ Waits(in, K, Top(x), e)
  BY DEF Pending, Base
<1>2. (CanEnter(in, e) => L = K \cup {e}) /\ (~CanEnter(in, e) => L = K)
  BY <1>1, KeptParsed
<1>3. Honest(in, y)
  BY <1>1, KeptHonest
<1>4. y.frames = x.frames /\ Top(y) = Top(x)
  BY DEF Kept, Top
<1>5. CanEnter(in, e) => Balanced(in.body[e]) /\ InBody(in, e) \subseteq K
  OBVIOUS
<1> HIDE DEF K, L
<1>6. Settled(in, L)
  BY <1>1, <1>2, <1>5, SettledMore
<1>7. K \subseteq L
  BY <1>2
<1>8. Chain(in, L, y.frames) /\ Waits(in, L, Top(y), e)
  BY <1>1, <1>4, <1>7, Widen
<1> QED BY <1>2, <1>3, <1>6, <1>8 DEF Pending, Base, L

\* y is x without its context on top.
Popped(x, y) == y = [x EXCEPT !.frames = Front(@)]

\* A context that is closed leaves its entity pending in the context below.
LEMMA PopPending ==
  ASSUME NEW in, NEW x, Base(in, x), Len(x.frames) > 1, NEW y, Popped(x, y)
  PROVE  /\ Pending(in, y, Top(x).e) /\ Parsed(in, y) = Parsed(in, x)
         /\ y.ents = x.ents /\ y.status = x.status /\ y.sizeentcopy = x.sizeentcopy
<1> DEFINE S == Seq(Frame)
           E == [in.declared -> Entity]
           O == Seq(Item)
           t == Front(x.frames)
           n == Len(x.frames)
           K == Parsed(in, x)
<1>1. /\ x \in [frames : S, ents : E, sizeentcopy : Int, out : O, status : Outcomes]
      /\ x.frames # <<>> /\ n \in Nat \ {0} /\ Top(x) = x.frames[n]
  BY TopIs DEF Base, Typed, Parser
<1>2. t \in S /\ Cut(x.frames, t)
  BY <1>1, FrontIs
<1>3. Len(t) = n - 1 /\ \A i \in 1 .. n - 1 : t[i] = x.frames[i]
  BY <1>2 DEF Cut
<1>4. t # <<>>
  BY <1>1, <1>3, EmptySeq
<1>5. y = [x EXCEPT !.frames = t]
  BY DEF Popped
<1>6. /\ y \in [frames : S, ents : E, sizeentcopy : Int, out : O, status : Outcomes]
      /\ y.frames = t /\ y.ents = x.ents /\ y.status = x.status /\ y.sizeentcopy = x.sizeentcopy
  <2> HIDE DEF S, E, O, t, n, K, Outcomes
  <2> QED BY <1>1, <1>2, <1>5
<1>7. Typed(in, y)
  BY <1>4, <1>6 DEF Typed, Parser
<1> HIDE DEF t
<1>8. Parsed(in, y) = K /\ Honest(in, y)
  BY <1>6 DEF Parsed, Honest, Base
<1>9. Chain(in, K, x.frames) /\ Settled(in, K)
  BY DEF Base
<1> HIDE DEF K, n
<1>10. Top(y) = x.frames[n - 1]
  <2>1. Top(y) = y.frames[Len(y.frames)] /\ n - 1 \in 1 .. n - 1
    BY <1>1, <1>7, TopIs DEF n
  <2> QED BY <1>3, <1>6, <2>1
<1>11. Chain(in, K, y.frames)
  <2>1. ASSUME NEW k \in 1 .. Len(y.frames) PROVE Placed(in, K, k, y.frames[k])
    <3>1. k \in 1 .. n /\ y.frames[k] = x.frames[k]
      BY <1>1, <1>3, <1>6
    <3> QED BY <1>9, <3>1 DEF Chain, n
  <2>2. ASSUME NEW k \in 1 .. Len(y.frames) - 1 PROVE Waits(in, K, y.frames[k], y.frames[k + 1].e)
    <3>1. k \in 1 .. n - 1 /\ k + 1 \in 1 .. n - 1
      BY <1>1, <1>3, <1>6
    <3>2. y.frames[k] = x.frames[k] /\ y.frames[k + 1] = x.frames[k + 1]
      BY <1>3, <1>6, <3>1
    <3> QED BY <1>9, <3>1, <3>2 DEF Chain, n
  <2> QED BY <2>1, <2>2 DEF Chain
<1>12. Waits(in, K, x.frames[n - 1], x.frames[n].e)
  <2>1. n - 1 \in 1 .. Len(x.frames) - 1 /\ (n - 1) + 1 = n
    BY <1>1 DEF n
  <2>2. Waits(in, K, x.frames[n - 1], x.frames[(n - 1) + 1].e)
    BY <1>9, <2>1 DEF Chain
  <2> QED BY <2>1, <2>2
<1> QED BY <1>1, <1>6, <1>7, <1>8, <1>9, <1>10, <1>11, <1>12 DEF Pending, Base, K, n

\* parseReference for an entity that is declared.
LEMMA ExpandFine ==
  ASSUME InputOK(input), NEW x, NEW e \in input.declared, Pending(input, x, e),
         x.status = "running", NEW y, y = Expand(x, e)
  PROVE  Fine(input, y)
<1> DEFINE z == entityCheck(x, e, ContentLen(e))
           was == x.ents[e].checked
           parses == /\ ~was \/ (x.ents[e].kids = <<>> /\ input.noEnt)
                     /\ ~External(e) \/ input.noEnt \/ input.dtdValid
<1>1. Typed(input, x) /\ was \in BOOLEAN
  BY DEF Pending, Base, Typed, Parser, Entity
<1>2. ContentLen(e) \in Int
  BY InputFacts DEF ContentLen
<1>3. Typed(input, z) /\ Charged(x, z)
  BY <1>1, <1>2, CheckIs
<1>4. CASE z.status # "running"
  <2>1. y = z
    BY <1>4 DEF Expand, Then
  <2> QED BY <1>3, <1>4, <2>1, GivenUp DEF Charged
<1>5. CASE z.status = "running"
  <2>1. y = CASE parses /\ ~Blocked(e) -> OpenChunk(z, e, "first", was)
              [] parses /\ Blocked(e)  -> ShowOrParse(Keep(z, e, z.sizeentcopy, <<>>), e, was)
              [] OTHER                 -> ShowOrParse(z, e, was)
    BY <1>5 DEF Expand, Then
  <2> HIDE DEF z
  <2>2. Pending(input, z, e) /\ z.ents = x.ents
    BY <1>3, ChargedPending DEF Charged
  <2>3. CASE parses /\ ~Blocked(e)
    <3>1. y = OpenChunk(z, e, "first", was)
      BY <2>1, <2>3
    <3>2. CanEnter(input, e)
      BY <2>3 DEF CanEnter, Blocked, External
    <3> HIDE DEF was, parses
    <3> QED BY <1>1, <1>5, <2>2, <3>1, <3>2, OpenChunkFine
  <2>4. CASE parses /\ Blocked(e)
    <3> DEFINE k == Keep(z, e, z.sizeentcopy, <<>>)
    <3>1. y = ShowOrParse(k, e, was)
      BY <2>1, <2>4
    <3>2. ~CanEnter(input, e) /\ e \in input.external /\ input.noXXE
      BY <2>4 DEF CanEnter, Blocked, External
    <3>3. z.sizeentcopy \in Int /\ <<>> \in Seq(Item)
      BY <1>3, EmptySeq DEF Typed, Parser
    <3>4. Typed(input, k) /\ Kept(z, k, e)
      BY <1>3, <3>3, KeepIs
    <3> HIDE DEF k, was, parses
    <3>5. Pending(input, k, e)
      BY <2>2, <3>2, <3>4, KeptPending
    <3>6. k.status = "running" /\ k.ents[e].checked
      BY <1>5, <3>4 DEF Kept
    <3> QED BY <1>1, <3>1, <3>2, <3>5, <3>6, ShowOrParseFine
  <2>5. CASE ~parses
    <3>1. y = ShowOrParse(z, e, was)
      BY <2>1, <2>5
    <3>2. CanEnter(input, e) => e \in Parsed(input, z)
      BY <2>2, <2>5 DEF CanEnter, Parsed, External
    <3>3. was => z.ents[e].checked
      BY <2>2
    <3> HIDE DEF was, parses
    <3> QED BY <1>1, <1>5, <2>2, <3>1, <3>2, <3>3, ShowOrParseFine
  <2> QED BY <2>3, <2>4, <2>5
<1> QED BY <1>4, <1>5

\* A reference to an entity that is not declared.
LEMMA UndeclaredFine ==
  ASSUME InputOK(input), NEW x, NEW e \in Entities, e \notin input.declared, Pending(input, x, e),
         x.status = "running", NEW y, y = Undeclared(x, e)
  PROVE  Fine(input, y)
<1>1. Typed(input, x)
  BY DEF Pending, Base
<1>2. CASE ~input.lenient
  <2>1. y = Fail(x, "undeclared") /\ "undeclared" \in Outcomes
    BY <1>2 DEF Undeclared, Outcomes
  <2>2. Typed(input, y) /\ Stopped(x, y, "undeclared")
    BY <1>1, <2>1, FailIs
  <2> QED BY <2>2, GivenUp DEF Stopped
<1>3. CASE input.lenient
  <2> DEFINE z == Deliver(x, <<Reference(e)>>)
  <2>1. y = entityCheck(z, NoEntity, 0)
    BY <1>3 DEF Undeclared
  <2>2. <<Reference(e)>> \in Seq(Item)
    <3>1. Reference(e) \in Item
      BY DEF Item, Reference
    <3> QED BY <3>1
  <2>3. Typed(input, z) /\ Likewise(x, z) /\ z.status = "running"
    BY <1>1, <2>2, DeliverIs
  <2> HIDE DEF z
  <2>4. Typed(input, y) /\ Charged(z, y)
    BY <2>1, <2>3, CheckIs
  <2>5. Pending(input, z, e)
    BY <2>3, LikewisePending
  <2>6. Pending(input, y, e)
    BY <2>4, <2>5, ChargedPending
  <2>7. ~CanEnter(input, e)
    BY DEF CanEnter
  <2>8. Good(input, y)
    BY <2>6, <2>7, Arrives
  <2> QED BY <2>3, <2>4, <2>8 DEF Charged, Fine
<1> QED BY <1>2, <1>3

\* parseContent is over at f: the text has ended, or there is a stray end tag.
AtEnd(f) == f.pos > Len(f.src) \/ (f.src[f.pos].t = "end" /\ f.open = 0)

\* A text that was read to its end is balanced.
LEMMA ReadBalanced ==
  ASSUME NEW in, NEW K, NEW k, NEW f \in Frame, Placed(in, K, k, f), AtEnd(f), ~(f.open > 0),
         f.pos > Len(f.src) \/ \A i \in 0 .. Len(f.src) : Depth(f.src, i) >= 0
  PROVE  f.pos = Len(f.src) + 1 /\ Balanced(f.src) /\ Len(f.src) \in Nat
<1>1. /\ f.src \in Seq(Item) /\ Len(f.src) \in Nat /\ DOMAIN f.src = 1 .. Len(f.src)
      /\ f.pos \in 1 .. Len(f.src) + 1
  BY LenProperties DEF Frame, Placed
<1>2. f.open = Depth(f.src, f.pos - 1) /\ \A i \in 0 .. f.pos - 1 : Depth(f.src, i) >= 0
  BY DEF Placed
<1>3. f.pos > Len(f.src)
  <2> SUFFICES ASSUME f.pos <= Len(f.src) PROVE FALSE
    BY <1>1
  <2>1. f.src[f.pos].t = "end" /\ f.open = 0
    BY <1>1 DEF AtEnd
  <2> DEFINE j == f.pos - 1
  <2>2. j \in Nat /\ f.pos = j + 1 /\ j + 1 \in 0 .. Len(f.src)
    BY <1>1
  <2> HIDE DEF j
  <2>3. Depth(f.src, j + 1) = Depth(f.src, j) + Up(f.src[j + 1])
    BY <2>2, DepthStep
  <2>4. Depth(f.src, j) = 0 /\ Up(f.src[j + 1]) = -1
    BY <1>2, <2>1, <2>2 DEF Up, j
  <2>5. Depth(f.src, j + 1) = -1
    BY <2>3, <2>4
  <2>6. Depth(f.src, j + 1) >= 0
    BY <1>1, <2>2
  <2> QED BY <2>5, <2>6
<1>4. f.pos = Len(f.src) + 1 /\ f.pos - 1 = Len(f.src)
  BY <1>1, <1>3
<1>5. Depth(f.src, Len(f.src)) \in Int
  BY <1>1, DepthStep
<1>6. Depth(f.src, Len(f.src)) = 0
  BY <1>1, <1>2, <1>4, <1>5
<1>7. \A i \in DOMAIN f.src : Depth(f.src, i) >= 0
  BY <1>1, <1>2, <1>4
<1> QED BY <1>1, <1>4, <1>6, <1>7 DEF Balanced

\* The end of a text: the entity is kept, or the document is done.
LEMMA CloseChunkFine ==
  ASSUME InputOK(input), Tidy(input), NEW x, Good(input, x), x.status = "running", AtEnd(Top(x)),
         NEW y, y = CloseChunk(x)
  PROVE  Fine(input, y)
<1> DEFINE f == Top(x)
           n == Len(x.frames)
           K == Parsed(input, x)
           z == [x EXCEPT !.frames = Front(@)]
           leftover == f.pos <= Len(f.src) /\ ~External(f.e)
<1>1. /\ Base(input, x) /\ Typed(input, x) /\ Ready(input, K, f) /\ f \in Frame
      /\ n \in Nat \ {0} /\ f = x.frames[n]
  BY TopIs DEF Good, Base
<1>2. Placed(input, K, n, f) /\ Settled(input, K)
  BY <1>1 DEF Base, Chain
<1>3. CASE f.open > 0 \/ leftover
  <2>1. y = Fail(x, "unbalanced") /\ "unbalanced" \in Outcomes
    BY <1>3 DEF CloseChunk, Outcomes
  <2>2. Typed(input, y) /\ Stopped(x, y, "unbalanced")
    BY <1>1, <2>1, FailIs
  <2> QED BY <2>2, GivenUp DEF Stopped
<1>4. CASE ~(f.open > 0 \/ leftover) /\ f.e = NoEntity
  <2>1. y = Fail(x, "done") /\ "done" \in Outcomes
    BY <1>4 DEF CloseChunk, Outcomes
  <2>2. Typed(input, y) /\ Stopped(x, y, "done")
    BY <1>1, <2>1, FailIs
  <2>3. ~External(NoEntity) /\ ~CanEnter(input, NoEntity)
    BY BoundsAssumption DEF External, InputOK, CanEnter
  <2>4. n = 1 /\ f.src = input.doc
    BY <1>1, <1>2, <1>4, <2>3 DEF Placed
  <2> HIDE DEF f, n, K
  <2>5. f.pos \in Nat /\ Len(f.src) \in Nat
    BY <1>1, LenProperties DEF Frame
  <2>6. f.pos > Len(f.src)
    BY <1>4, <2>3, <2>5
  <2>7. f.pos = Len(f.src) + 1
    BY <1>1, <1>2, <1>4, <2>6, ReadBalanced DEF f
  <2>8. Referred(input, input.doc, Len(input.doc)) \subseteq K
    BY <1>1, <2>4, <2>5, <2>7 DEF Ready
  <2>9. Parsed(input, y) = K
    BY <2>2 DEF Stopped, Parsed, K
  <2> QED BY <1>2, <2>2, <2>8, <2>9 DEF Fine, Finished, Stopped
<1>5. CASE ~(f.open > 0 \/ leftover) /\ f.e # NoEntity
  <2>1. y = IF f.turn = "again" THEN Show(z, f.e)
            ELSE ShowOrParse(Keep(z, f.e, f.before, f.built), f.e, f.was)
    BY <1>5 DEF CloseChunk
  <2>2. n # 1 /\ n > 1 /\ CanEnter(input, f.e) /\ f.src = input.body[f.e] /\ f.e \in input.declared
    <3> HIDE DEF f, n, K
    <3>1. n # 1
      BY <1>2, <1>5 DEF Placed
    <3>2. CanEnter(input, f.e) /\ f.src = input.body[f.e]
      BY <1>2, <3>1 DEF Placed
    <3> QED BY <1>1, <3>1, <3>2 DEF CanEnter
  <2>3. Popped(x, z)
    BY DEF Popped
  <2> HIDE DEF z
  <2>4. /\ Pending(input, z, f.e) /\ Parsed(input, z) = K /\ z.status = "running"
        /\ Typed(input, z)
    BY <1>1, <2>2, <2>3, PopPending DEF Pending, Base
  <2>5. CASE f.turn = "again"
    <3>1. y = Show(z, f.e) /\ f.e \in K
      BY <1>2, <2>1, <2>5 DEF Placed
    <3> QED BY <2>2, <2>4, <3>1, ShowFine
  <2>6. CASE f.turn # "again"
    <3> DEFINE k == Keep(z, f.e, f.before, f.built)
    <3>1. y = ShowOrParse(k, f.e, f.was)
      BY <2>1, <2>6
    <3>2. f.before \in Int /\ f.built \in Seq(Item) /\ f.was \in BOOLEAN /\ f.pos \in Nat
      BY <1>1 DEF Frame
    <3>3. Typed(input, k) /\ Kept(z, k, f.e)
      BY <2>2, <2>4, <3>2, KeepIs
    <3> HIDE DEF k
    <3>4. f.pos > Len(f.src) \/ \A i \in 0 .. Len(f.src) : Depth(f.src, i) >= 0
      <4>1. CASE External(f.e)
        BY <2>2, <4>1 DEF Tidy, External
      <4>2. CASE ~External(f.e)
        <5>1. Len(f.src) \in Nat
          BY <2>2, InputFacts
        <5> QED BY <1>5, <3>2, <4>2, <5>1
      <4> QED BY <4>1, <4>2
    <3>5. f.pos = Len(f.src) + 1 /\ Balanced(f.src) /\ Len(f.src) \in Nat
      BY <1>1, <1>2, <1>5, <3>4, ReadBalanced
    <3>6. InBody(input, f.e) \subseteq K
      <4>1. f.pos - 1 = Len(f.src)
        BY <3>5
      <4> QED BY <1>1, <2>2, <4>1 DEF Ready, InBody
    <3>7. Pending(input, k, f.e) /\ f.e \in Parsed(input, k)
      BY <2>2, <2>4, <3>3, <3>5, <3>6, KeptPending
    <3>8. k.status = "running" /\ k.ents[f.e].checked
      BY <2>4, <3>3 DEF Kept
    <3> HIDE DEF f
    <3> QED BY <2>2, <3>1, <3>2, <3>7, <3>8, ShowOrParseFine
  <2> QED BY <2>5, <2>6
<1> QED BY <1>3, <1>4, <1>5

-----------------------------------------------------------------------------
(***************************************************************************)
(* The steps, and the theorem.                                             *)
(***************************************************************************)
IInv == input \in Inputs /\ (Tidy(input) => Fine(input, p))

\* A parser that has read nothing.
LEMMA InitIInv == Init => IInv
<1> SUFFICES ASSUME Init PROVE IInv
  OBVIOUS
<1> DEFINE c == Context(NoEntity, input.doc, 0, 0, "first", FALSE, 0)
           n == [checked |-> FALSE, expandedSize |-> 0, kids |-> <<>>]
           t == <<c>>
           E == [input.declared -> Entity]
           O == Seq(Item)
           S == Seq(Frame)
           K == Parsed(input, p)
<1>1. input \in Inputs /\ InputOK(input)
  BY InputsAssumption DEF Init
<1>2. p = [frames |-> t, ents |-> [e \in input.declared |-> n], sizeentcopy |-> 0, out |-> <<>>,
           status |-> "running"]
  BY DEF Init
<1>3. input.doc \in Seq(Item) /\ Len(input.doc) \in Nat
  BY <1>1, LenProperties DEF InputOK
<1>4. c \in Frame /\ c.e = NoEntity /\ c.src = input.doc /\ c.pos = 1 /\ c.open = 0 /\ c.turn = "first"
  <2>1. <<>> \in Seq(Item)
    BY EmptySeq
  <2> QED BY <1>3, <2>1 DEF Context, Frame
<1> HIDE DEF c
<1>5. t \in S /\ Len(t) = 1 /\ t[1] = c /\ t # <<>>
  BY <1>4
<1>6. <<>> \in O /\ n \in Entity
  <2>1. <<>> \in Seq(Item)
    BY EmptySeq
  <2> QED BY <2>1 DEF Entity
<1>7. "running" \in Outcomes
  BY DEF Outcomes
<1> HIDE DEF S, O, t, Outcomes
<1>8. [e \in input.declared |-> n] \in E
  BY <1>6
<1> DEFINE ents == [e \in input.declared |-> n]
<1>9. p.frames = t /\ p.ents = ents /\ p.status = "running"
  BY <1>2
<1> HIDE DEF E, ents
<1>10. p \in [frames : S, ents : E, sizeentcopy : Int, out : O, status : Outcomes]
  BY <1>2, <1>5, <1>6, <1>7, <1>8 DEF ents
<1>11. Typed(input, p)
  BY <1>5, <1>9, <1>10 DEF Typed, Parser, S, E, O
<1>12. ASSUME NEW e \in input.declared PROVE p.ents[e].checked = FALSE
  BY <1>9 DEF ents
<1>13. K = {} /\ Honest(input, p)
  BY <1>12 DEF Parsed, Honest
<1> HIDE DEF K, n
<1>14. Settled(input, K)
  BY <1>13 DEF Settled
<1>15. Placed(input, K, 1, c)
  <2>1. c.pos - 1 = 0 /\ c.pos \in 1 .. Len(c.src) + 1
    BY <1>3, <1>4
  <2>2. Depth(c.src, 0) = 0
    BY DepthStep
  <2>3. \A i \in 0 .. c.pos - 1 : Depth(c.src, i) >= 0
    BY <2>1, <2>2
  <2> QED BY <1>4, <2>1, <2>2, <2>3 DEF Placed
<1>16. Chain(input, K, p.frames)
  <2>1. Len(p.frames) = 1 /\ p.frames[1] = c
    BY <1>5, <1>9
  <2>2. \A k \in 1 .. 1 : k = 1
    OBVIOUS
  <2>3. 1 .. 1 - 1 = {}
    OBVIOUS
  <2> QED BY <1>15, <2>1, <2>2, <2>3 DEF Chain
<1>17. Top(p) = c
  BY <1>5, <1>9 DEF Top, Last
<1>18. Ready(input, K, c)
  <2>1. c.pos - 1 = 0
    BY <1>4
  <2>2. Referred(input, c.src, 0) = {}
    BY DEF Referred
  <2> QED BY <2>1, <2>2 DEF Ready
<1>19. Good(input, p)
  BY <1>11, <1>13, <1>14, <1>16, <1>17, <1>18 DEF Good, Base, K
<1> QED BY <1>1, <1>9, <1>11, <1>19 DEF IInv, Fine

\* The context on top of a good parser, with the kind of what comes next.
LEMMA UpcomingIs ==
  ASSUME NEW f, f = Top(p), f \in Frame, f.pos >= 1
  PROVE  /\ Upcoming = "nothing" => AtEnd(f)
         /\ Upcoming # "nothing" => /\ f.pos <= Len(f.src) /\ f.src[f.pos].t = Upcoming
                                    /\ Upcoming = "end" => f.open # 0
         /\ NextItem(p) = f.src[f.pos]
<1>1. f.pos \in Nat /\ Len(f.src) \in Nat
  BY LenProperties DEF Frame
<1>2. NextItem(p) = f.src[f.pos]
  BY DEF NextItem
<1>3. f.src[f.pos].t # "nothing" \/ f.pos > Len(f.src)
  <2> SUFFICES ASSUME f.pos <= Len(f.src) PROVE f.src[f.pos].t # "nothing"
    BY <1>1
  <2>1. f.src[f.pos] \in Item
    BY <1>1, ElementOfSeq DEF Frame
  <2> QED BY <2>1 DEF Item
<1> QED BY <1>1, <1>2, <1>3 DEF Upcoming, AtEnd

\* The context on top of a good parser.
LEMMA GoodTop ==
  ASSUME NEW x, Good(input, x), NEW f, f = Top(x)
  PROVE  f \in Frame /\ f.pos >= 1 /\ f.open >= 0 /\ f.open \in Int /\ Typed(input, x)
<1>1. f \in Frame /\ f = x.frames[Len(x.frames)] /\ Len(x.frames) \in Nat \ {0} /\ Typed(input, x)
  BY TopIs DEF Good, Base
<1>2. Placed(input, Parsed(input, x), Len(x.frames), f)
  BY <1>1 DEF Good, Base, Chain
<1>3. f.pos \in 1 .. Len(f.src) + 1 /\ f.open = Depth(f.src, f.pos - 1)
      /\ \A i \in 0 .. f.pos - 1 : Depth(f.src, i) >= 0
  BY <1>2 DEF Placed
<1>4. f.pos \in Nat /\ Len(f.src) \in Nat /\ f.open \in Int
  BY <1>1, LenProperties DEF Frame
<1> QED BY <1>1, <1>3, <1>4

\* An item that the handler is told, and that moves the context on.
LEMMA TellsGood ==
  ASSUME NEW x, Good(input, x), x.status = "running", NEW f, f = Top(x), f.pos <= Len(f.src),
         f.src[f.pos].t # "ref", f.src[f.pos].t = "end" => f.open # 0,
         NEW z, z = Deliver(x, <<f.src[f.pos]>>), NEW g, Further(Top(z), g), NEW y, y = SetTop(z, g)
  PROVE  Fine(input, y)
<1>1. f \in Frame /\ f.pos >= 1 /\ f.open >= 0 /\ f.open \in Int /\ Typed(input, x)
  BY GoodTop
<1>2. <<f.src[f.pos]>> \in Seq(Item)
  <2>1. f.src[f.pos] \in Item
    BY <1>1, ElementOfSeq DEF Frame
  <2> QED BY <2>1
<1>3. Typed(input, z) /\ Likewise(x, z) /\ z.status = "running"
  <2>1. Typed(input, z) /\ Likewise(x, z) /\ z.status = x.status
    <3> DEFINE s == <<f.src[f.pos]>>
    <3>1. s \in Seq(Item) /\ z = Deliver(x, s)
      BY <1>2
    <3> HIDE DEF s
    <3> QED BY <1>1, <3>1, DeliverIs
  <2> QED BY <2>1
<1>4. Good(input, z)
  BY <1>3, LikewiseGood
<1>5. Similar(f, Top(z))
  BY <1>3, LikewiseBase DEF Good
<1>6. /\ Top(z).pos <= Len(Top(z).src) /\ Top(z).src[Top(z).pos].t # "ref"
      /\ Top(z).src[Top(z).pos].t = "end" => Top(z).open > 0
  BY <1>1, <1>5 DEF Similar
<1>7. Good(input, y) /\ SameRest(z, y)
  BY <1>4, <1>6, GoesOn
<1> QED BY <1>3, <1>7 DEF Fine, SameRest, Good, Base

\* A context one item further, where the item changes the depth by d.
Step(f, d) == [f EXCEPT !.pos = @ + 1, !.elemDepth = @ + d, !.open = @ + d]

\* Passing an item of content moves the context on by that item alone.
LEMMA StepIs ==
  ASSUME NEW f \in Frame, NEW d \in Int, Up(f.src[f.pos]) = d, NEW g, g = Step(f, d)
  PROVE  Further(f, g)
<1>1. f.pos + 1 \in Nat /\ f.elemDepth + d \in Int /\ f.open + d \in Int
  BY DEF Frame
<1>2. g \in Frame
  BY <1>1 DEF Step, Frame
<1>3. g.e = f.e /\ g.src = f.src /\ g.turn = f.turn /\ g.pos = f.pos + 1 /\ g.open = f.open + d
  BY DEF Step, Frame
<1> QED BY <1>2, <1>3 DEF Further

\* Advance, then a change of the depth: the context is replaced once.
LEMMA AdvanceStep ==
  ASSUME NEW in, NEW z, Typed(in, z), NEW d \in Int, NEW x, x = Advance(z)
  PROVE  SetTop(x, [Top(x) EXCEPT !.elemDepth = @ + d, !.open = @ + d]) = SetTop(z, Step(Top(z), d))
<1> DEFINE f == Top(z)
           g == [f EXCEPT !.pos = @ + 1]
           h == [g EXCEPT !.elemDepth = @ + d, !.open = @ + d]
<1>1. f \in Frame
  BY TopIs
<1> HIDE DEF f
<1>2. g \in Frame
  <2>1. f.pos + 1 \in Nat
    BY <1>1 DEF Frame
  <2> QED BY <1>1, <2>1 DEF Frame
<1>3. h = Step(f, d) /\ h \in Frame
  <2>1. f.elemDepth + d \in Int /\ f.open + d \in Int /\ f.pos + 1 \in Nat
    BY <1>1 DEF Frame
  <2>2. g.elemDepth = f.elemDepth /\ g.open = f.open
    BY <1>1 DEF Frame
  <2>3. h = Step(f, d)
    BY <1>1, <2>2 DEF Step, Frame
  <2>4. h \in Frame
    BY <1>2, <2>1, <2>2 DEF Frame
  <2> QED BY <2>3, <2>4
<1>4. x = SetTop(z, g)
  BY DEF Advance, f
<1> HIDE DEF g
<1>5. Top(x) = g
  BY <1>2, <1>4, SetTopIs
<1>6. SetTop(x, [Top(x) EXCEPT !.elemDepth = @ + d, !.open = @ + d]) = SetTop(x, h)
  BY <1>5
<1> HIDE DEF h
<1>7. SetTop(x, h) = SetTop(z, h)
  BY <1>2, <1>3, <1>4, SetTopTwice
<1> QED BY <1>3, <1>6, <1>7 DEF f

\* Every step leaves a fine parser behind.
LEMMA StepFine ==
  ASSUME InputOK(input), Tidy(input), Fine(input, p), Next
  PROVE  Fine(input, p') /\ input' = input
<1> DEFINE f == Top(p)
           z == Deliver(p, <<NextItem(p)>>)
<1>1. p.status = "running" /\ input' = input
  BY DEF Next, ReadText, ReadStart, ReadEnd, ReadReference, EndContent, Stop, Reads
<1> SUFFICES Fine(input, p')
  BY <1>1
<1>2. Good(input, p)
  BY <1>1 DEF Fine
<1>3. f \in Frame /\ f.pos >= 1 /\ f.open >= 0 /\ f.open \in Int /\ Typed(input, p)
  BY <1>2, GoodTop
<1>4. /\ Upcoming = "nothing" => AtEnd(f)
      /\ Upcoming # "nothing" => /\ f.pos <= Len(f.src) /\ f.src[f.pos].t = Upcoming
                                 /\ Upcoming = "end" => f.open # 0
      /\ NextItem(p) = f.src[f.pos]
  BY <1>3, UpcomingIs
<1>5. ASSUME Upcoming \in {"text", "start", "end"}
      PROVE  Typed(input, z) /\ Similar(f, Top(z)) /\ Top(z) \in Frame
  <2>1. f.src[f.pos] \in Item
    BY <1>3, <1>4, <1>5, ElementOfSeq DEF Frame
  <2>2. <<NextItem(p)>> \in Seq(Item)
    BY <1>4, <2>1
  <2>3. Typed(input, z) /\ Likewise(p, z)
    BY <1>3, <2>2, DeliverIs
  <2> QED BY <1>2, <2>3, LikewiseBase, TopIs DEF Good
<1>6. ASSUME Upcoming \in {"text", "start", "end"}, NEW d \in Int, Up(NextItem(p)) = d,
             p' = SetTop(z, Step(Top(z), d))
      PROVE  Fine(input, p')
  <2>1. Up(Top(z).src[Top(z).pos]) = d
    BY <1>4, <1>5, <1>6 DEF Similar
  <2>2. Further(Top(z), Step(Top(z), d))
    BY <1>5, <1>6, <2>1, StepIs
  <2>3. z = Deliver(p, <<f.src[f.pos]>>)
    BY <1>4
  <2> HIDE DEF z, f
  <2>4. f = Top(p) /\ f.pos <= Len(f.src) /\ f.src[f.pos].t # "ref"
        /\ (f.src[f.pos].t = "end" => f.open # 0)
    BY <1>4, <1>6 DEF f
  <2> QED BY <1>1, <1>2, <1>6, <2>2, <2>3, <2>4, TellsGood
<1>7. CASE ReadText
  <2>1. Upcoming = "text" /\ p' = Advance(z)
    BY <1>7 DEF ReadText, Reads
  <2>2. Up(NextItem(p)) = 0
    BY <1>4, <2>1 DEF Up
  <2>3. Advance(z) = SetTop(z, Step(Top(z), 0))
    <3>1. Step(Top(z), 0) = [Top(z) EXCEPT !.pos = @ + 1]
      <4> DEFINE g == Top(z)
      <4>1. g \in Frame
        BY <1>5, <2>1
      <4> HIDE DEF g
      <4>2. g.elemDepth \in Int /\ g.open \in Int
        BY <4>1 DEF Frame
      <4>3. g.elemDepth + 0 = g.elemDepth /\ g.open + 0 = g.open
        BY <4>2
      <4>4. Step(g, 0) = [g EXCEPT !.pos = @ + 1]
        BY <4>1, <4>3 DEF Step, Frame
      <4> QED BY <4>4 DEF g
    <3> QED BY <3>1 DEF Advance
  <2> HIDE DEF z
  <2> QED BY <1>6, <2>1, <2>2, <2>3
<1>8. CASE ReadStart
  <2>1. Upcoming = "start"
    BY <1>8 DEF ReadStart, Reads
  <2>2. CASE f.elemDepth + 1 > MaxElemDepth
    <3>1. p' = Fail(p, "depth") /\ "depth" \in Outcomes
      BY <1>8, <2>2 DEF ReadStart, Outcomes
    <3>2. Typed(input, p') /\ Stopped(p, p', "depth")
      BY <1>3, <3>1, FailIs
    <3> QED BY <3>2, GivenUp DEF Stopped
  <2>3. CASE ~(f.elemDepth + 1 > MaxElemDepth)
    <3> DEFINE x == Advance(z)
    <3>1. p' = SetTop(x, [Top(x) EXCEPT !.elemDepth = @ + 1, !.open = @ + 1])
      BY <1>8, <2>3 DEF ReadStart
    <3>2. p' = SetTop(z, Step(Top(z), 1))
      <4>1. x = Advance(z) /\ 1 \in Int
        OBVIOUS
      <4> HIDE DEF x, z
      <4> QED BY <1>5, <2>1, <3>1, <4>1, AdvanceStep
    <3>3. Up(NextItem(p)) = 1
      BY <1>4, <2>1 DEF Up
    <3> HIDE DEF z
    <3> QED BY <1>6, <2>1, <3>2, <3>3
  <2> QED BY <2>2, <2>3
<1>9. CASE ReadEnd
  <2>1. Upcoming = "end"
    BY <1>9 DEF ReadEnd, Reads
  <2> DEFINE x == Advance(z)
  <2>2. p' = SetTop(x, [Top(x) EXCEPT !.elemDepth = @ - 1, !.open = @ - 1])
    BY <1>9 DEF ReadEnd
  <2>3. p' = SetTop(z, Step(Top(z), -1))
    <3>1. x = Advance(z) /\ -1 \in Int
      OBVIOUS
    <3>2. Typed(input, z)
      BY <1>5, <2>1
    <3> HIDE DEF x, z
    <3>3. SetTop(x, [Top(x) EXCEPT !.elemDepth = @ + -1, !.open = @ + -1]) = SetTop(z, Step(Top(z), -1))
      BY <3>1, <3>2, AdvanceStep
    <3>4. Top(x) \in Frame
      <4> DEFINE g == [Top(z) EXCEPT !.pos = @ + 1]
      <4>1. g \in Frame
        <5> DEFINE h == Top(z)
        <5>1. h \in Frame
          BY <3>2, TopIs
        <5> HIDE DEF h
        <5>2. h.pos + 1 \in Nat
          BY <5>1 DEF Frame
        <5>3. [h EXCEPT !.pos = @ + 1] \in Frame
          BY <5>1, <5>2 DEF Frame
        <5> QED BY <5>3 DEF h
      <4>2. x = SetTop(z, g)
        BY <3>1 DEF Advance
      <4> HIDE DEF g
      <4> QED BY <3>2, <4>1, <4>2, SetTopIs
    <3>5. Top(x).elemDepth - 1 = Top(x).elemDepth + -1 /\ Top(x).open - 1 = Top(x).open + -1
      BY <3>4 DEF Frame
    <3> QED BY <2>2, <3>3, <3>5
  <2>4. Up(NextItem(p)) = -1
    BY <1>4, <2>1 DEF Up
  <2> HIDE DEF z
  <2> QED BY <1>6, <2>1, <2>3, <2>4
<1>10. CASE ReadReference
  <2> DEFINE e == NextItem(p).e
             x == Advance(p)
  <2>1. /\ Upcoming = "ref"
        /\ p' = IF e \in input.declared THEN Expand(x, e) ELSE Undeclared(x, e)
    BY <1>10 DEF ReadReference, Reads
  <2>2. Pending(input, x, e) /\ SameRest(p, x) /\ e \in Entities
    BY <1>2, <1>4, <2>1, GoesPast
  <2>3. x.status = "running"
    BY <1>1, <2>2 DEF SameRest
  <2> HIDE DEF e, x
  <2> QED BY <2>1, <2>2, <2>3, ExpandFine, UndeclaredFine
<1>11. CASE EndContent
  <2>1. AtEnd(f) /\ p' = CloseChunk(p)
    BY <1>4, <1>11 DEF EndContent, Reads
  <2> QED BY <1>1, <1>2, <2>1, CloseChunkFine
<1>12. CASE Stop
  <2>1. p' = Fail(p, "stopped") /\ "stopped" \in Outcomes
    BY <1>12 DEF Stop, Outcomes
  <2>2. Typed(input, p') /\ Stopped(p, p', "stopped")
    BY <1>3, <2>1, FailIs
  <2> QED BY <2>2, GivenUp DEF Stopped
<1> QED BY <1>1, <1>7, <1>8, <1>9, <1>10, <1>11, <1>12 DEF Next

\* The invariant is inductive.
THEOREM Invariance == Spec => []IInv
<1>1. ASSUME IInv, [Next]_vars PROVE IInv'
  <2>1. CASE Next
    <3>1. input' = input
      BY <2>1 DEF Next, ReadText, ReadStart, ReadEnd, ReadReference, EndContent, Stop, Reads
    <3>2. InputOK(input)
      BY <1>1, InputsAssumption DEF IInv
    <3>3. Tidy(input) => Fine(input, p')
      BY <1>1, <2>1, <3>2, StepFine DEF IInv
    <3> QED BY <1>1, <3>1, <3>3 DEF IInv
  <2>2. CASE UNCHANGED vars
    BY <1>1, <2>2 DEF IInv, vars
  <2> QED BY <1>1, <2>1, <2>2
<1> QED BY <1>1, InitIInv, PTL DEF Spec

\* A document that was parsed to its end is well formed.
LEMMA FinishedIsWellFormed ==
  ASSUME InputOK(input), Typed(input, p), Finished(input, p)
  PROVE  WellFormed
<1> DEFINE K == Parsed(input, p)
<1>1. \A s : Entered(s) = {e \in input.declared : CanEnter(input, e) /\ \E i \in DOMAIN s : s[i] = Reference(e)}
  BY DEF Entered, CanEnter, External
<1>2. \A s \in Seq(Item) : Entered(s) = Referred(input, s, Len(s))
  BY <1>1 DEF Referred
<1>3. /\ input.doc \in Seq(Item) /\ \A e \in input.declared : input.body[e] \in Seq(Item)
  BY DEF InputOK
<1>4. K \in SUBSET input.declared
  BY DEF Parsed
<1>5. Entered(input.doc) \subseteq K
  BY <1>2, <1>3 DEF Finished
<1>6. \A e \in K : Entered(input.body[e]) = InBody(input, e)
  BY <1>2, <1>3, <1>4 DEF InBody
<1> HIDE DEF K
<1>7. Settled(input, K)
  BY DEF Finished, K
<1>8. \A f \in K : Entered(input.body[f]) \subseteq K /\ Balanced(input.body[f])
  BY <1>6, <1>7 DEF Settled
<1>9. Reached \subseteq K
  BY <1>4, <1>5, <1>8 DEF Reached
<1>10. ~Cyclic
  <2> SUFFICES ASSUME NEW S \in SUBSET Reached, S # {},
                      \A e \in S : \E f \in S : e \in Entered(input.body[f])
               PROVE  FALSE
    BY DEF Cyclic
  <2>1. S \in SUBSET K
    BY <1>9
  <2>2. PICK e \in S : \A f \in S : e \notin InBody(input, f)
    BY <1>7, <2>1 DEF Settled
  <2> QED BY <1>6, <2>1, <2>2
<1> QED BY <1>8, <1>9, <1>10 DEF WellFormed

\* What is wrong with an entity is found wherever it is referred to, for every
\* document whose external entities have no stray end tag: parseReference lets none
\* pass that enters an entity from itself or one whose text is not balanced.
THEOREM AcceptedMeansWellFormed == Spec => [](Tidy(input) => AcceptedIsWellFormed)
<1>1. IInv => (Tidy(input) => AcceptedIsWellFormed)
  <2> SUFFICES ASSUME IInv, Tidy(input), p.status = "done" PROVE WellFormed
    BY DEF AcceptedIsWellFormed
  <2>1. InputOK(input)
    BY InputsAssumption DEF IInv
  <2>2. Typed(input, p) /\ Finished(input, p)
    BY DEF IInv, Fine
  <2> QED BY <2>1, <2>2, FinishedIsWellFormed
<1> QED BY <1>1, Invariance, PTL
-----------------------------------------------------------------------------
(***************************************************************************)
(* What a sequence of items weighs, and how deep it goes.                  *)
(***************************************************************************)
\* The items among the first k of s that are no references.
Marks(s, k) == Cardinality(1 .. k \cap {j \in Int : s[j].t # "ref"})

\* What a sequence adds to the text, and the depth at which it ends.
Weight(s) == Marks(s, Len(s))
Deep(s) == Depth(s, Len(s))

\* No start tag of s is deeper than m.
High(s, m) == \A i \in 1 .. Len(s) : s[i].t = "start" => Depth(s, i) <= m

\* What an item adds.
Counts(item) == IF item.t = "ref" THEN 0 ELSE 1

\* One position more adds what the item there counts.
LEMMA MarkStep ==
  ASSUME NEW s, NEW j \in Nat
  PROVE  /\ Marks(s, j) \in Nat /\ Marks(s, 0) = 0
         /\ Marks(s, j + 1) = Marks(s, j) + Counts(s[j + 1])
<1> DEFINE S == {i \in Int : s[i].t # "ref"}
<1>1. j + 1 \in S <=> s[j + 1].t # "ref"
  OBVIOUS
<1>2. Marks(s, j) = Cardinality(1 .. j \cap S) /\ Marks(s, j + 1) = Cardinality(1 .. j + 1 \cap S)
  BY DEF Marks
<1>3. Marks(s, 0) = 0
  <2>1. 1 .. 0 \cap S = {}
    OBVIOUS
  <2> QED BY <2>1, FS_EmptySet DEF Marks
<1> HIDE DEF S
<1>4. /\ Cardinality(1 .. j \cap S) \in Nat
      /\ Cardinality(1 .. j + 1 \cap S) = Cardinality(1 .. j \cap S) + (IF j + 1 \in S THEN 1 ELSE 0)
  BY CountStep
<1> QED BY <1>1, <1>2, <1>3, <1>4 DEF Counts

\* The numbers of a sequence.
LEMMA WeightType ==
  ASSUME NEW s \in Seq(Item)
  PROVE  Weight(s) \in Nat /\ Deep(s) \in Int /\ Len(s) \in Nat
<1>1. Len(s) \in Nat
  BY LenProperties
<1> QED BY <1>1, MarkStep, DepthStep DEF Weight, Deep

\* No more items are marked than there are.
LEMMA MarksBound ==
  ASSUME NEW s, NEW n \in Nat
  PROVE  Marks(s, n) \in 0 .. n
<1> DEFINE T == {k \in 0 .. n : Marks(s, k) \in 0 .. k}
<1>1. 0 \in T
  BY MarkStep
<1>2. ASSUME NEW k \in 0 .. n - 1, k \in T PROVE k + 1 \in T
  <2>1. k \in Nat /\ k + 1 \in 0 .. n /\ Marks(s, k) \in 0 .. k
    BY <1>2
  <2>2. Marks(s, k + 1) = Marks(s, k) + Counts(s[k + 1])
    BY <2>1, MarkStep
  <2>3. Marks(s, k + 1) \in 0 .. k + 1
    BY <2>1, <2>2 DEF Counts
  <2> QED BY <2>1, <2>3
<1> HIDE DEF T
<1>3. \A k \in 0 .. n : k \in T
  BY <1>1, <1>2, StepByStep
<1>4. n \in T
  BY <1>3
<1> QED BY <1>4 DEF T

\* Sequences that begin with the same items have the same marks and depths there.
LEMMA SameStart ==
  ASSUME NEW s, NEW t, NEW n \in Nat, \A i \in 1 .. n : s[i] = t[i]
  PROVE  \A k \in 0 .. n : Marks(s, k) = Marks(t, k) /\ Depth(s, k) = Depth(t, k)
<1> DEFINE T == {k \in 0 .. n : Marks(s, k) = Marks(t, k) /\ Depth(s, k) = Depth(t, k)}
<1>1. 0 \in T
  BY MarkStep, DepthStep
<1>2. ASSUME NEW k \in 0 .. n - 1, k \in T PROVE k + 1 \in T
  <2>1. /\ k \in Nat /\ k + 1 \in 0 .. n /\ k + 1 \in 1 .. n
        /\ Marks(s, k) = Marks(t, k) /\ Depth(s, k) = Depth(t, k)
    BY <1>2
  <2>2. s[k + 1] = t[k + 1]
    BY <2>1
  <2>3. /\ Marks(s, k + 1) = Marks(s, k) + Counts(s[k + 1])
        /\ Marks(t, k + 1) = Marks(t, k) + Counts(t[k + 1])
    BY <2>1, MarkStep
  <2>4. /\ Depth(s, k + 1) = Depth(s, k) + Up(s[k + 1])
        /\ Depth(t, k + 1) = Depth(t, k) + Up(t[k + 1])
    BY <2>1, DepthStep
  <2> QED BY <2>1, <2>2, <2>3, <2>4
<1> HIDE DEF T
<1>3. \A k \in 0 .. n : k \in T
  BY <1>1, <1>2, StepByStep
<1> QED BY <1>3 DEF T

\* t is s with u behind it.
Behind(s, u, t) ==
    /\ Len(t) = Len(s) + Len(u) /\ \A i \in 1 .. Len(s) : t[i] = s[i]
    /\ \A i \in 1 .. Len(u) : t[Len(s) + i] = u[i]

\* Marks and depths of a sequence that was made longer.
LEMMA BehindIs ==
  ASSUME NEW s, NEW u, NEW t, Behind(s, u, t), Len(s) \in Nat, Len(u) \in Nat
  PROVE  \A k \in 0 .. Len(u) : /\ Marks(t, Len(s) + k) = Weight(s) + Marks(u, k)
                                /\ Depth(t, Len(s) + k) = Deep(s) + Depth(u, k)
<1> DEFINE n == Len(u)
           m == Len(s)
           T == {k \in 0 .. n : /\ Marks(t, m + k) = Weight(s) + Marks(u, k)
                                /\ Depth(t, m + k) = Deep(s) + Depth(u, k)}
<1>1. n \in Nat /\ m \in Nat /\ \A i \in 1 .. n : t[m + i] = u[i]
  BY DEF Behind
<1>2. Weight(s) \in Nat /\ Deep(s) \in Int
  BY MarkStep, DepthStep DEF Weight, Deep
<1>3. 0 \in T
  <2>1. Marks(s, m) = Marks(t, m) /\ Depth(s, m) = Depth(t, m)
    <3>1. \A i \in 1 .. m : s[i] = t[i]
      BY DEF Behind
    <3>2. \A k \in 0 .. m : Marks(s, k) = Marks(t, k) /\ Depth(s, k) = Depth(t, k)
      BY <1>1, <3>1, SameStart
    <3> QED BY <1>1, <3>2
  <2>2. Marks(u, 0) = 0 /\ Depth(u, 0) = 0 /\ m + 0 = m
    BY <1>1, MarkStep, DepthStep
  <2> QED BY <1>1, <1>2, <2>1, <2>2 DEF Weight, Deep
<1>4. ASSUME NEW k \in 0 .. n - 1, k \in T PROVE k + 1 \in T
  <2>1. /\ k \in Nat /\ k + 1 \in 0 .. n /\ k + 1 \in 1 .. n
        /\ Marks(t, m + k) = Weight(s) + Marks(u, k)
        /\ Depth(t, m + k) = Deep(s) + Depth(u, k)
    BY <1>1, <1>4
  <2>2. t[m + k + 1] = u[k + 1] /\ m + (k + 1) = (m + k) + 1 /\ m + k \in Nat
    <3>1. t[m + (k + 1)] = u[k + 1] /\ m + (k + 1) = m + k + 1
      BY <1>1, <2>1
    <3> QED BY <1>1, <2>1, <3>1
  <2>3. /\ Marks(t, (m + k) + 1) = Marks(t, m + k) + Counts(t[(m + k) + 1])
        /\ Marks(u, k + 1) = Marks(u, k) + Counts(u[k + 1]) /\ Marks(u, k) \in Nat
    BY <2>1, <2>2, MarkStep
  <2>4. /\ Depth(t, (m + k) + 1) = Depth(t, m + k) + Up(t[(m + k) + 1])
        /\ Depth(u, k + 1) = Depth(u, k) + Up(u[k + 1]) /\ Depth(u, k) \in Int
    BY <2>1, <2>2, DepthStep
  <2> DEFINE w == Counts(u[k + 1])
             v == Up(u[k + 1])
  <2>5. w \in Int /\ v \in Int
    BY DEF Counts, Up
  <2>6. Marks(t, m + (k + 1)) = Weight(s) + Marks(u, k) + w /\ Depth(t, m + (k + 1)) = Deep(s) + Depth(u, k) + v
    BY <2>1, <2>2, <2>3, <2>4
  <2>7. Marks(u, k + 1) = Marks(u, k) + w /\ Depth(u, k + 1) = Depth(u, k) + v
    BY <2>3, <2>4
  <2> HIDE DEF w, v, T, m, n
  <2>8. Marks(t, m + (k + 1)) = Weight(s) + Marks(u, k + 1)
    <3>1. Marks(u, k) \in Nat
      BY <2>3
    <3> QED BY <1>2, <2>5, <2>6, <2>7, <3>1
  <2>9. Depth(t, m + (k + 1)) = Deep(s) + Depth(u, k + 1)
    <3>1. Depth(u, k) \in Int
      BY <2>4
    <3> QED BY <1>2, <2>5, <2>6, <2>7, <3>1
  <2> QED BY <2>1, <2>8, <2>9 DEF T
<1> HIDE DEF T
<1>5. \A k \in 0 .. n : k \in T
  BY <1>1, <1>3, <1>4, StepByStep
<1> QED BY <1>5 DEF T

\* What Deliver adds to what was delivered adds its weight and its depth, and stays
\* under the limit if it does from where it is added.
LEMMA AddedIs ==
  ASSUME NEW s \in Seq(Item), NEW u \in Seq(Item), NEW t, t = s \o u
  PROVE  /\ t \in Seq(Item) /\ Weight(s) \in Nat /\ Weight(u) \in Nat /\ Deep(s) \in Int /\ Deep(u) \in Int
         /\ Weight(t) = Weight(s) + Weight(u) /\ Deep(t) = Deep(s) + Deep(u)
         /\ \A m \in Int : High(s, m) /\ High(u, m - Deep(s)) => High(t, m)
<1>1. Len(s) \in Nat /\ Len(u) \in Nat
  BY LenProperties
<1>2. /\ t \in Seq(Item) /\ Len(t) = Len(s) + Len(u)
      /\ \A i \in 1 .. Len(s) + Len(u) : t[i] = IF i <= Len(s) THEN s[i] ELSE u[i - Len(s)]
  BY ConcatProperties
<1>3. Behind(s, u, t)
  <2>1. ASSUME NEW i \in 1 .. Len(s) PROVE t[i] = s[i]
    BY <1>1, <1>2
  <2>2. ASSUME NEW i \in 1 .. Len(u) PROVE t[Len(s) + i] = u[i]
    <3>1. Len(s) + i \in 1 .. Len(s) + Len(u) /\ ~(Len(s) + i <= Len(s)) /\ Len(s) + i - Len(s) = i
      BY <1>1
    <3> QED BY <1>2, <3>1
  <2> QED BY <1>2, <2>1, <2>2 DEF Behind
<1>4. \A k \in 0 .. Len(u) : /\ Marks(t, Len(s) + k) = Weight(s) + Marks(u, k)
                             /\ Depth(t, Len(s) + k) = Deep(s) + Depth(u, k)
  BY <1>1, <1>3, BehindIs
<1>5. Weight(t) = Weight(s) + Weight(u) /\ Deep(t) = Deep(s) + Deep(u)
  BY <1>1, <1>2, <1>4 DEF Weight, Deep
<1>6. /\ Weight(s) \in Nat /\ Weight(u) \in Nat /\ Deep(s) \in Int /\ Deep(u) \in Int
  BY <1>1, MarkStep, DepthStep DEF Weight, Deep
<1>7. ASSUME NEW m \in Int, High(s, m), High(u, m - Deep(s)), NEW i \in 1 .. Len(t), t[i].t = "start"
      PROVE  Depth(t, i) <= m
  <2>1. CASE i <= Len(s)
    <3>1. i \in 1 .. Len(s) /\ t[i] = s[i]
      BY <1>1, <1>2, <2>1
    <3>2. Depth(s, i) <= m
      BY <1>7, <3>1 DEF High
    <3>3. Depth(s, i) = Depth(t, i)
      <4>1. \A j \in 1 .. Len(s) : s[j] = t[j]
        BY <1>3 DEF Behind
      <4>2. \A j \in 0 .. Len(s) : Marks(s, j) = Marks(t, j) /\ Depth(s, j) = Depth(t, j)
        BY <1>1, <4>1, SameStart
      <4> QED BY <1>1, <3>1, <4>2
    <3> QED BY <3>2, <3>3
  <2>2. CASE ~(i <= Len(s))
    <3> DEFINE k == i - Len(s)
    <3>1. k \in 1 .. Len(u) /\ k \in 0 .. Len(u) /\ i = Len(s) + k /\ t[i] = u[k] /\ k \in Nat
      BY <1>1, <1>2, <2>2
    <3> HIDE DEF k
    <3>2. Depth(u, k) <= m - Deep(s) /\ Depth(u, k) \in Int
      BY <1>7, <3>1, DepthStep DEF High
    <3>3. Depth(t, i) = Deep(s) + Depth(u, k)
      BY <1>4, <3>1
    <3> QED BY <1>6, <3>2, <3>3
  <2> QED BY <2>1, <2>2
<1>8. \A m \in Int : High(s, m) /\ High(u, m - Deep(s)) => High(t, m)
  BY <1>7 DEF High
<1> QED BY <1>2, <1>5, <1>6, <1>8

\* Nothing, and one item.
LEMMA OneItem ==
  ASSUME NEW item \in Item
  PROVE  /\ <<item>> \in Seq(Item) /\ Weight(<<item>>) = Counts(item) /\ Deep(<<item>>) = Up(item)
         /\ \A m \in Int : (item.t = "start" => 1 <= m) => High(<<item>>, m)
         /\ Weight(<<>>) = 0 /\ Deep(<<>>) = 0 /\ \A m : High(<<>>, m)
<1> DEFINE s == <<item>>
<1>1. s \in Seq(Item) /\ Len(s) = 1 /\ s[1] = item
  OBVIOUS
<1>2. Len(<<>>) = 0
  BY EmptySeq
<1> HIDE DEF s
<1>3. 0 \in Nat /\ 0 + 1 = 1
  OBVIOUS
<1>4. Marks(s, 0) = 0 /\ Marks(s, 0 + 1) = Marks(s, 0) + Counts(s[0 + 1])
  BY <1>3, MarkStep
<1>5. Depth(s, 0) = 0 /\ Depth(s, 0 + 1) = Depth(s, 0) + Up(s[0 + 1])
  BY <1>3, DepthStep
<1>6. Counts(item) \in Int /\ Up(item) \in Int
  BY DEF Counts, Up
<1>7. Weight(s) = Counts(item) /\ Deep(s) = Up(item)
  BY <1>1, <1>3, <1>4, <1>5, <1>6 DEF Weight, Deep
<1>8. \A m \in Int : (item.t = "start" => 1 <= m) => High(s, m)
  <2>1. ASSUME NEW m \in Int, item.t = "start" => 1 <= m, NEW i \in 1 .. Len(s), s[i].t = "start"
        PROVE  Depth(s, i) <= m
    <3>1. i = 1 /\ Depth(s, 1) = Up(item)
      BY <1>1, <1>7 DEF Deep
    <3> QED BY <1>1, <2>1, <3>1 DEF Up
  <2> QED BY <2>1 DEF High
<1>9. Weight(<<>>) = 0 /\ Deep(<<>>) = 0
  <2>1. 0 \in Nat
    OBVIOUS
  <2> QED BY <1>2, <2>1, MarkStep, DepthStep DEF Weight, Deep
<1>10. \A m : High(<<>>, m)
  BY <1>2 DEF High
<1> QED BY <1>1, <1>7, <1>8, <1>9, <1>10 DEF s

\* One item behind the others.
LEMMA AppendIs ==
  ASSUME NEW s \in Seq(Item), NEW item \in Item, NEW t, t = Append(s, item)
  PROVE  /\ t \in Seq(Item) /\ Len(t) = Len(s) + 1 /\ t[Len(s) + 1] = item
         /\ \A i \in 1 .. Len(s) : t[i] = s[i]
         /\ Weight(s) \in Nat /\ Deep(s) \in Int
         /\ Weight(t) = Weight(s) + Counts(item) /\ Deep(t) = Deep(s) + Up(item)
         /\ \A m \in Int : High(s, m) /\ (item.t = "start" => Deep(s) + 1 <= m) => High(t, m)
<1>1. /\ t \in Seq(Item) /\ Len(t) = Len(s) + 1 /\ t[Len(s) + 1] = item /\ Len(s) \in Nat
      /\ \A i \in 1 .. Len(s) : t[i] = s[i]
  BY AppendProperties, LenProperties
<1> DEFINE u == <<item>>
<1>2. u \in Seq(Item) /\ Len(u) = 1 /\ u[1] = item
  OBVIOUS
<1>3. Weight(u) = Counts(item) /\ Deep(u) = Up(item)
  BY OneItem
<1>4. \A m \in Int : (item.t = "start" => 1 <= m) => High(u, m)
  BY OneItem
<1> HIDE DEF u
<1>5. t = s \o u
  <2>1. /\ s \o u \in Seq(Item) /\ Len(s \o u) = Len(s) + Len(u)
        /\ \A i \in 1 .. Len(s) + Len(u) : (s \o u)[i] = IF i <= Len(s) THEN s[i] ELSE u[i - Len(s)]
    BY <1>2, ConcatProperties
  <2>2. ASSUME NEW i \in 1 .. Len(t) PROVE t[i] = (s \o u)[i]
    <3>1. CASE i <= Len(s)
      BY <1>1, <1>2, <2>1, <3>1
    <3>2. CASE ~(i <= Len(s))
      <4>1. i = Len(s) + 1 /\ i - Len(s) = 1 /\ i \in 1 .. Len(s) + Len(u)
        BY <1>1, <1>2, <3>2
      <4>2. (s \o u)[i] = u[1]
        BY <2>1, <3>2, <4>1
      <4> QED BY <1>1, <1>2, <4>1, <4>2
    <3> QED BY <3>1, <3>2
  <2> QED BY <1>1, <1>2, <2>1, <2>2, SeqEqual
<1>6. /\ Weight(s) \in Nat /\ Deep(s) \in Int
      /\ Weight(t) = Weight(s) + Weight(u) /\ Deep(t) = Deep(s) + Deep(u)
      /\ \A m \in Int : High(s, m) /\ High(u, m - Deep(s)) => High(t, m)
  BY <1>2, <1>5, AddedIs
<1>7. ASSUME NEW m \in Int, High(s, m), item.t = "start" => Deep(s) + 1 <= m PROVE High(t, m)
  <2>1. m - Deep(s) \in Int /\ (item.t = "start" => 1 <= m - Deep(s))
    BY <1>6, <1>7
  <2>2. High(u, m - Deep(s))
    BY <1>4, <2>1
  <2> QED BY <1>6, <1>7, <2>2
<1> QED BY <1>1, <1>3, <1>6, <1>7

\* Plain drops the references, and they weigh nothing and have no depth.
LEMMA PlainKeeps ==
  ASSUME NEW s \in Seq(Item)
  PROVE  /\ Plain(s) \in Seq(Item) /\ Len(Plain(s)) = Weight(s) /\ Weight(Plain(s)) = Weight(s)
         /\ Deep(Plain(s)) = Deep(s)
         /\ \A m \in Int : High(s, m) => High(Plain(s), m)
<1> DEFINE n == Len(s)
<1>1. n \in Nat
  BY LenProperties
<1> HIDE DEF n
<1>2. PICK f : Plainly(s, f, n) /\ Plain(s) = f[n]
  BY <1>1, PlainIs DEF n
<1>3. ASSUME NEW m \in Int
      PROVE  /\ f[n] \in Seq(Item) /\ Len(f[n]) = Marks(s, n) /\ Weight(f[n]) = Marks(s, n)
             /\ Deep(f[n]) = Depth(s, n) /\ (High(s, m) => High(f[n], m))
  <2> DEFINE T == {k \in 0 .. n : /\ f[k] \in Seq(Item) /\ Len(f[k]) = Marks(s, k)
                                  /\ Weight(f[k]) = Marks(s, k) /\ Deep(f[k]) = Depth(s, k)
                                  /\ High(s, m) => High(f[k], m)}
  <2>1. 0 \in T
    <3>1. <<>> \in Seq(Item) /\ Len(<<>>) = 0
      BY EmptySeq
    <3>2. Weight(<<>>) = 0 /\ Deep(<<>>) = 0 /\ High(<<>>, m)
      <4>1. [t |-> "text", e |-> NoEntity] \in Item
        BY DEF Item
      <4> QED BY <4>1, OneItem
    <3>3. f[0] = <<>> /\ 0 \in 0 .. n
      BY <1>1, <1>2 DEF Plainly
    <3>4. Marks(s, 0) = 0 /\ Depth(s, 0) = 0
      BY <1>1, MarkStep, DepthStep
    <3> QED BY <3>1, <3>2, <3>3, <3>4
  <2>2. ASSUME NEW k \in 0 .. n - 1, k \in T PROVE k + 1 \in T
    <3> DEFINE g == f[k]
               h == f[k + 1]
               item == s[k + 1]
    <3>1. k \in Nat /\ k + 1 \in 1 .. n /\ (k + 1) - 1 = k /\ k + 1 \in 0 .. n
      BY <1>1
    <3>2. h = WithItem(g, item) /\ item \in Item
      <4>1. f[k + 1] = WithItem(f[(k + 1) - 1], s[k + 1])
        BY <1>2, <3>1 DEF Plainly
      <4>2. item \in Item
        BY <3>1, ElementOfSeq DEF n
      <4> QED BY <3>1, <4>1, <4>2
    <3>3. /\ g \in Seq(Item) /\ Len(g) = Marks(s, k) /\ Weight(g) = Marks(s, k)
          /\ Deep(g) = Depth(s, k) /\ (High(s, m) => High(g, m))
      BY <2>2
    <3>4. Marks(s, k) \in Nat /\ Marks(s, k + 1) = Marks(s, k) + Counts(item)
      BY <3>1, MarkStep
    <3>5. Depth(s, k) \in Int /\ Depth(s, k + 1) = Depth(s, k) + Up(item)
      BY <3>1, DepthStep
    <3> HIDE DEF g, h, T
    <3>6. CASE item.t = "ref"
      <4>1. h = g /\ Counts(item) = 0 /\ Up(item) = 0
        BY <3>2, <3>6 DEF WithItem, Counts, Up
      <4>2. Marks(s, k + 1) = Marks(s, k) /\ Depth(s, k + 1) = Depth(s, k)
        BY <3>4, <3>5, <4>1
      <4> QED BY <3>1, <3>3, <4>1, <4>2 DEF T, h
    <3>7. CASE item.t # "ref"
      <4>1. h = Append(g, item) /\ Counts(item) = 1
        BY <3>2, <3>7 DEF WithItem, Counts
      <4>2. /\ h \in Seq(Item) /\ Len(h) = Len(g) + 1
            /\ Weight(h) = Weight(g) + Counts(item) /\ Deep(h) = Deep(g) + Up(item)
            /\ High(g, m) /\ (item.t = "start" => Deep(g) + 1 <= m) => High(h, m)
        <5>1. \A M \in Int : High(g, M) /\ (item.t = "start" => Deep(g) + 1 <= M) => High(h, M)
          BY <3>2, <3>3, <4>1, AppendIs
        <5>2. h \in Seq(Item) /\ Len(h) = Len(g) + 1
          BY <3>2, <3>3, <4>1, AppendIs
        <5>3. Weight(h) = Weight(g) + Counts(item) /\ Deep(h) = Deep(g) + Up(item)
          <6>1. g \in Seq(Item)
            BY <3>3
          <6> HIDE DEF item
          <6> QED BY <3>2, <4>1, <6>1, AppendIs
        <5> QED BY <5>1, <5>2, <5>3
      <4>3. High(s, m) => High(h, m)
        <5>1. ASSUME High(s, m), item.t = "start" PROVE Deep(g) + 1 <= m
          <6>1. Depth(s, k + 1) <= m /\ Up(item) = 1
            BY <3>1, <5>1 DEF High, Up, n
          <6> QED BY <3>3, <3>5, <6>1
        <5> QED BY <3>3, <4>2, <5>1
      <4>4. Len(h) = Marks(s, k + 1) /\ Weight(h) = Marks(s, k + 1) /\ Deep(h) = Depth(s, k + 1)
        BY <3>3, <3>4, <3>5, <4>1, <4>2
      <4> QED BY <3>1, <4>2, <4>3, <4>4 DEF T, h
    <3> QED BY <3>6, <3>7
  <2> HIDE DEF T
  <2>3. \A k \in 0 .. n : k \in T
    BY <1>1, <2>1, <2>2, StepByStep
  <2>4. n \in T
    BY <1>1, <2>3
  <2> QED BY <2>4 DEF T
<1>4. 0 \in Int
  OBVIOUS
<1>5. Marks(s, n) = Weight(s) /\ Depth(s, n) = Deep(s)
  BY DEF Weight, Deep, n
<1> QED BY <1>2, <1>3, <1>4, <1>5

\* Nesting bounds the depth of every start tag, and is one of those bounds.
LEMMA NestingIs ==
  ASSUME NEW s \in Seq(Item), NEW m \in Int
  PROVE  Nesting(s) \in Nat /\ (m >= 0 => (Nesting(s) <= m <=> High(s, m)))
<1> DEFINE n == Len(s)
           D == {0} \cup {Depth(s, i) : i \in {j \in 1 .. n : s[j].t = "start"}}
           Upto1(k) == {0} \cup {Depth(s, i) : i \in {j \in 1 .. k : s[j].t = "start"}}
           T == {k \in 0 .. n : \E x \in Upto1(k) : \A y \in Upto1(k) : x >= y}
<1>1. n \in Nat /\ DOMAIN s = 1 .. n
  BY LenProperties
<1>2. \A i \in 1 .. n : Depth(s, i) \in Int
  <2>1. ASSUME NEW i \in 1 .. n PROVE Depth(s, i) \in Int
    <3>1. i \in Nat
      BY <1>1
    <3> QED BY <3>1, DepthStep
  <2> QED BY <2>1
<1>3. 0 \in T
  <2>1. Upto1(0) = {0} /\ 0 \in 0 .. n
    BY <1>1
  <2> QED BY <2>1
<1>4. ASSUME NEW k \in 0 .. n - 1, k \in T PROVE k + 1 \in T
  <2>1. k \in Nat /\ k + 1 \in 0 .. n /\ k + 1 \in 1 .. n
    BY <1>1
  <2>2. PICK x \in Upto1(k) : \A y \in Upto1(k) : x >= y
    BY <1>4
  <2>3. Upto1(k + 1) = IF s[k + 1].t = "start" THEN Upto1(k) \cup {Depth(s, k + 1)} ELSE Upto1(k)
    <3>1. 1 .. k + 1 = 1 .. k \cup {k + 1}
      BY <2>1
    <3> QED BY <3>1
  <2>4. Upto1(k) \subseteq Int /\ Depth(s, k + 1) \in Int
    BY <1>1, <1>2, <2>1
  <2> HIDE DEF Upto1
  <2>5. \E v \in Upto1(k + 1) : \A y \in Upto1(k + 1) : v >= y
    <3>1. CASE s[k + 1].t = "start" /\ Depth(s, k + 1) >= x
      BY <2>2, <2>3, <2>4, <3>1
    <3>2. CASE s[k + 1].t = "start" /\ ~(Depth(s, k + 1) >= x)
      BY <2>2, <2>3, <2>4, <3>2
    <3>3. CASE s[k + 1].t # "start"
      BY <2>2, <2>3, <3>3
    <3> QED BY <3>1, <3>2, <3>3
  <2> QED BY <2>1, <2>5
<1>5. n \in T
  <2> HIDE DEF T
  <2>1. \A k \in 0 .. n : k \in T
    BY <1>1, <1>3, <1>4, StepByStep
  <2> QED BY <1>1, <2>1
<1>6. \E x \in D : \A y \in D : x >= y
  BY <1>5
<1>7. Nesting(s) = Max(D)
  BY <1>1 DEF Nesting
<1>8. D \subseteq Int /\ 0 \in D
  BY <1>2
<1> HIDE DEF D
<1>9. Max(D) \in D /\ \A y \in D : Max(D) >= y
  BY <1>6 DEF Max
<1> DEFINE M == Max(D)
<1> HIDE DEF M
<1>10. M \in Nat /\ M \in D /\ \A y \in D : y <= M
  <2>1. M \in D /\ \A y \in D : M >= y
    BY <1>9 DEF M
  <2> QED BY <1>8, <2>1
<1>11. ASSUME m >= 0 PROVE M <= m <=> High(s, m)
  <2>1. ASSUME M <= m, NEW i \in 1 .. n, s[i].t = "start" PROVE Depth(s, i) <= m
    <3>1. Depth(s, i) \in D
      BY <2>1 DEF D
    <3>2. Depth(s, i) \in Int /\ Depth(s, i) <= M
      BY <1>2, <1>10, <3>1
    <3> QED BY <1>10, <2>1, <3>2
  <2>2. ASSUME High(s, m) PROVE M <= m
    <3>1. \A y \in D : y <= m
      BY <1>11, <2>2 DEF D, High
    <3> QED BY <1>10, <3>1
  <2> QED BY <2>1, <2>2 DEF High
<1> QED BY <1>7, <1>10, <1>11 DEF M

-----------------------------------------------------------------------------
(***************************************************************************)
(* The books: what is delivered and kept, against what was charged.        *)
(***************************************************************************)
\* What an entity's own text costs in parseReference, and what an external one costs
\* when it is loaded.
SizeOf(in, e) == IF e \in in.external THEN 0 ELSE Len(in.body[e])
Loaded(in, e) == IF e \in in.external THEN Len(in.body[e]) ELSE 0

\* The items that a context has passed, references apart.
Used(f) == Marks(f.src, f.pos - 1)

\* The context at place k reads the document or an entity, in the order in which the
\* contexts were opened.
Seated(in, k, f) ==
    /\ k = 1 => f.e = NoEntity /\ f.src = in.doc /\ f.before = 0
    /\ k # 1 => f.e \in in.declared /\ f.src = in.body[f.e]
    /\ f.turn = "first" /\ f.was => in.noEnt
    /\ f.pos \in 1 .. Len(f.src) + 1 /\ f.open >= 0

\* What is kept with the entity of an open context was charged since it was opened.
Covered(in, x, f) ==
    Weight(x.ents[f.e].kids) <= x.sizeentcopy - f.before + SizeOf(in, f.e)

Stacked(in, x) ==
    /\ \A k \in 1 .. Len(x.frames) :
         Seated(in, k, x.frames[k]) /\ x.frames[k].before <= x.sizeentcopy
    /\ \A j, k \in 1 .. Len(x.frames) : j <= k => x.frames[j].before <= x.frames[k].before
    /\ \A k \in 2 .. Len(x.frames) : Covered(in, x, x.frames[k])

\* What is kept with an entity is complete, and weighs no more than its next
\* reference will cost.
Stored(in, e, d) ==
    /\ Weight(d.kids) <= d.expandedSize /\ Deep(d.kids) = 0
    /\ ~d.checked => d.kids = <<>>
    /\ d.checked => SizeOf(in, e) <= d.expandedSize
    /\ ~in.tree => d.kids = <<>>

Known(in, x) == \A e \in in.declared : Stored(in, e, x.ents[e])

\* The depth that the parser counts is the depth of what was delivered: of the
\* document below its root and of each nested context below its pseudo root, or of
\* all that a handler of events was told.
LevelTree(x) ==
    /\ Deep(x.out) = x.frames[1].elemDepth
    /\ \A k \in 2 .. Len(x.frames) : Deep(x.frames[k].built) = x.frames[k].open

LevelFlat(x) ==
    /\ Deep(x.out) = x.frames[Len(x.frames)].elemDepth
    /\ \A k \in 2 .. Len(x.frames) :
         /\ x.frames[k].elemDepth = x.frames[k - 1].elemDepth + x.frames[k].open
         /\ x.frames[k].built = <<>>

Level(in, x) ==
    /\ High(x.out, MaxElemDepth)
    /\ in.tree => LevelTree(x)
    /\ ~in.tree => LevelFlat(x)

\* What the context at place k has built is what it has read, or was charged before
\* the counter stood at end.
Account(in, x, k, end) ==
    (IF k = 1 THEN Weight(x.out) ELSE Weight(x.frames[k].built)) + Loaded(in, x.frames[k].e)
      <= Used(x.frames[k]) - x.frames[k].before + end

\* With a tree, every context has an account of its own, which stands still while a
\* context above it is open.  g is what the one on top has not used up.
PaidTree(in, x, g) ==
    /\ Account(in, x, Len(x.frames), x.sizeentcopy - g)
    /\ \A k \in 1 .. Len(x.frames) - 1 :
         Account(in, x, k, x.frames[k + 1].before - SizeOf(in, x.frames[k + 1].e))

\* Without one, what the nested contexts still have to read was charged in advance:
\* r[k] is the sum of it up to the context at place k.
Reserve(x, r) ==
    /\ r \in [1 .. Len(x.frames) -> Nat] /\ r[1] = 0
    /\ \A k \in 2 .. Len(x.frames) :
         r[k] = r[k - 1] + Len(x.frames[k].src) - Used(x.frames[k])

PaidFlat(x, g) ==
    \E r : /\ Reserve(x, r)
           /\ Weight(x.out) + r[Len(x.frames)] + g <= Used(x.frames[1]) + x.sizeentcopy

\* A handler of events is told more than is charged when entities are substituted.
Paid(in, x, g) ==
    /\ in.tree => PaidTree(in, x, g)
    /\ ~in.tree /\ ~in.noEnt => PaidFlat(x, g)

Booked(in, x, g) ==
    Typed(in, x) /\ Stacked(in, x) /\ Known(in, x) /\ Level(in, x) /\ Paid(in, x, g)

\* The types of what the books are about.
LEMMA BookTypes ==
  ASSUME NEW in, InputOK(in), NEW x, NEW g, Booked(in, x, g)
  PROVE  /\ x.sizeentcopy \in Int /\ x.out \in Seq(Item) /\ Len(x.frames) \in Nat \ {0}
         /\ \A k \in 1 .. Len(x.frames) : x.frames[k] \in Frame
         /\ Weight(x.out) \in Nat /\ Deep(x.out) \in Int
         /\ Top(x) = x.frames[Len(x.frames)] /\ Top(x) \in Frame
<1>1. Typed(in, x)
  BY DEF Booked
<1>2. x.sizeentcopy \in Int /\ x.out \in Seq(Item)
  BY <1>1 DEF Typed, Parser
<1>3. Len(x.out) \in Nat
  BY <1>2, LenProperties
<1> QED BY <1>1, <1>2, <1>3, TopIs, MarkStep, DepthStep DEF Weight, Deep

\* The numbers of a context that has its place.
LEMMA FrameNumbers ==
  ASSUME NEW in, NEW k, NEW f \in Frame, Seated(in, k, f)
  PROVE  /\ f.pos \in Nat /\ f.pos >= 1 /\ f.open \in Nat /\ f.elemDepth \in Int /\ f.before \in Int
         /\ Len(f.src) \in Nat /\ f.built \in Seq(Item) /\ f.src \in Seq(Item)
         /\ Used(f) \in 0 .. Len(f.src) /\ Weight(f.built) \in Nat /\ Deep(f.built) \in Int
<1>1. /\ f.pos \in Nat /\ f.open \in Int /\ f.elemDepth \in Int /\ f.before \in Int
      /\ f.built \in Seq(Item) /\ f.src \in Seq(Item)
  BY DEF Frame
<1>2. Len(f.src) \in Nat /\ Len(f.built) \in Nat
  BY <1>1, LenProperties
<1>3. f.pos \in 1 .. Len(f.src) + 1 /\ f.open >= 0
  BY DEF Seated
<1>4. f.pos - 1 \in Nat /\ f.pos - 1 <= Len(f.src)
  BY <1>2, <1>3
<1>5. Marks(f.src, f.pos - 1) \in 0 .. f.pos - 1
  BY <1>4, MarksBound
<1>6. Used(f) \in 0 .. Len(f.src)
  BY <1>2, <1>4, <1>5 DEF Used
<1>7. Weight(f.built) \in Nat /\ Deep(f.built) \in Int
  BY <1>2, MarkStep, DepthStep DEF Weight, Deep
<1>8. f.pos >= 1
  BY <1>1, <1>2, <1>3
<1> QED BY <1>1, <1>2, <1>3, <1>6, <1>7, <1>8

\* The two costs of an entity are the length of its text.
LEMMA SizesAre ==
  ASSUME NEW in, InputOK(in)
  PROVE  /\ \A e \in in.declared : /\ SizeOf(in, e) \in Nat /\ Loaded(in, e) \in Nat
                                   /\ SizeOf(in, e) + Loaded(in, e) = Len(in.body[e])
         /\ Loaded(in, NoEntity) = 0
<1>1. ASSUME NEW e \in in.declared
      PROVE  SizeOf(in, e) \in Nat /\ Loaded(in, e) \in Nat
             /\ SizeOf(in, e) + Loaded(in, e) = Len(in.body[e])
  <2>1. in.body[e] \in Seq(Item)
    BY DEF InputOK
  <2>2. Len(in.body[e]) \in Nat
    BY <2>1, LenProperties
  <2> QED BY <2>2 DEF SizeOf, Loaded
<1>2. NoEntity \notin in.external
  BY BoundsAssumption DEF InputOK
<1> QED BY <1>1, <1>2 DEF Loaded

-----------------------------------------------------------------------------
(***************************************************************************)
(* The context on top goes on.                                             *)
(***************************************************************************)
\* y is x with c for the context on top, and perhaps more delivered.
Turned(x, y, c) ==
    /\ Swapped(x.frames, y.frames, c) /\ y.ents = x.ents /\ y.sizeentcopy = x.sizeentcopy

\* c is f further on.
Alike(f, c) ==
    /\ c.e = f.e /\ c.src = f.src /\ c.turn = f.turn /\ c.was = f.was /\ c.before = f.before
    /\ c.pos \in 1 .. Len(c.src) + 1 /\ c.open >= 0

\* What was delivered into the tree of a nested context, or to the handler, went to the
\* depth and the account of the context on top, f, which is c then.
InTree(x, y, f, c, g, h) ==
    /\ y.out = x.out /\ Deep(c.built) = c.open
    /\ Weight(c.built) + h - Used(c) <= Weight(f.built) + g - Used(f)

Outside(in, x, y, f, c, g, h) ==
    /\ Deep(y.out) = c.elemDepth /\ c.elemDepth - c.open = f.elemDepth - f.open
    /\ Weight(y.out) + h - Used(c) <= Weight(x.out) + g - Used(f)
    /\ ~in.tree => c.built = f.built

Moved(in, x, y, f, c, g, h) ==
    /\ High(y.out, MaxElemDepth)
    /\ in.tree /\ Len(x.frames) > 1 => InTree(x, y, f, c, g, h)
    /\ ~(in.tree /\ Len(x.frames) > 1) => Outside(in, x, y, f, c, g, h)

\* The contexts of y against those of x.
LEMMA TurnedIs ==
  ASSUME NEW in, NEW x, Typed(in, x), NEW c, NEW y, Turned(x, y, c), NEW n, n = Len(x.frames),
         NEW f, f = Top(x), Alike(f, c)
  PROVE  /\ n \in Nat \ {0} /\ Len(y.frames) = n /\ y.frames[n] = c /\ x.frames[n] = f
         /\ \A k \in 1 .. n - 1 : y.frames[k] = x.frames[k]
         /\ \A k \in 1 .. n : y.frames[k].e = x.frames[k].e /\ y.frames[k].before = x.frames[k].before
<1>1. n \in Nat \ {0} /\ x.frames[n] = f
  BY TopIs
<1>2. /\ Len(y.frames) = n /\ y.frames[n] = c /\ \A k \in 1 .. n - 1 : y.frames[k] = x.frames[k]
  BY DEF Turned, Swapped
<1>3. ASSUME NEW k \in 1 .. n
      PROVE  y.frames[k].e = x.frames[k].e /\ y.frames[k].before = x.frames[k].before
  <2>1. CASE k = n
    BY <1>1, <1>2, <2>1 DEF Alike
  <2>2. CASE k # n
    <3>1. k \in 1 .. n - 1
      BY <1>1, <2>2
    <3> QED BY <1>2, <3>1
  <2> QED BY <2>1, <2>2
<1> QED BY <1>1, <1>2, <1>3

\* The contexts keep their order.
LEMMA TurnedStacked ==
  ASSUME NEW in, NEW x, Typed(in, x), NEW c, NEW y, Turned(x, y, c), Alike(Top(x), c),
         Stacked(in, x)
  PROVE  Stacked(in, y)
<1> DEFINE n == Len(x.frames)
           f == Top(x)
<1>1. /\ n \in Nat \ {0} /\ Len(y.frames) = n /\ y.frames[n] = c /\ x.frames[n] = f
      /\ \A k \in 1 .. n - 1 : y.frames[k] = x.frames[k]
      /\ \A k \in 1 .. n : y.frames[k].e = x.frames[k].e /\ y.frames[k].before = x.frames[k].before
  BY TurnedIs
<1>2. y.ents = x.ents /\ y.sizeentcopy = x.sizeentcopy
  BY DEF Turned
<1> HIDE DEF n, f
<1>3. /\ \A k \in 1 .. n : Seated(in, k, x.frames[k]) /\ x.frames[k].before <= x.sizeentcopy
      /\ \A j, k \in 1 .. n : j <= k => x.frames[j].before <= x.frames[k].before
      /\ \A k \in 2 .. n : Covered(in, x, x.frames[k])
  BY DEF Stacked, n
<1>4. ASSUME NEW k \in 1 .. n PROVE Seated(in, k, y.frames[k])
  <2>1. CASE k = n
    <3>1. Seated(in, n, f)
      BY <1>1, <1>3
    <3>2. Alike(f, c)
      BY DEF f
    <3> QED BY <1>1, <2>1, <3>1, <3>2 DEF Seated, Alike
  <2>2. CASE k # n
    <3>1. k \in 1 .. n - 1
      BY <1>1, <2>2
    <3> QED BY <1>1, <1>3, <3>1
  <2> QED BY <2>1, <2>2
<1>5. ASSUME NEW k \in 2 .. n PROVE Covered(in, y, y.frames[k])
  <2>1. k \in 1 .. n /\ Covered(in, x, x.frames[k])
    BY <1>1, <1>3
  <2> QED BY <1>1, <1>2, <2>1 DEF Covered
<1> QED BY <1>1, <1>2, <1>3, <1>4, <1>5 DEF Stacked

\* The depths agree.
LEMMA TurnedLevel ==
  ASSUME NEW in, NEW x, Typed(in, x), NEW c, NEW y, Turned(x, y, c), Alike(Top(x), c),
         Level(in, x), NEW g, NEW h, Moved(in, x, y, Top(x), c, g, h), c \in Frame
  PROVE  Level(in, y)
<1> DEFINE n == Len(x.frames)
           f == Top(x)
<1>1. /\ n \in Nat \ {0} /\ Len(y.frames) = n /\ y.frames[n] = c /\ x.frames[n] = f
      /\ \A k \in 1 .. n - 1 : y.frames[k] = x.frames[k]
  BY TurnedIs
<1>2. f \in Frame /\ \A k \in 1 .. n : x.frames[k] \in Frame
  BY TopIs
<1>3. /\ High(y.out, MaxElemDepth)
      /\ in.tree /\ n > 1 => InTree(x, y, f, c, g, h)
      /\ ~(in.tree /\ n > 1) => Outside(in, x, y, f, c, g, h)
  BY DEF Moved
<1> HIDE DEF n, f
<1>4. ASSUME in.tree PROVE LevelTree(y)
  <2>1. Deep(x.out) = x.frames[1].elemDepth /\ \A k \in 2 .. n : Deep(x.frames[k].built) = x.frames[k].open
    BY <1>4 DEF Level, LevelTree, n
  <2>2. CASE n = 1
    <3>1. Deep(y.out) = y.frames[1].elemDepth
      BY <1>1, <1>3, <2>2 DEF Outside
    <3>2. 2 .. n = {}
      BY <2>2
    <3> QED BY <1>1, <3>1, <3>2 DEF LevelTree
  <2>3. CASE n > 1
    <3>1. y.out = x.out /\ Deep(c.built) = c.open
      BY <1>3, <1>4, <2>3 DEF InTree
    <3>2. y.frames[1] = x.frames[1]
      BY <1>1, <2>3
    <3>3. ASSUME NEW k \in 2 .. n PROVE Deep(y.frames[k].built) = y.frames[k].open
      <4>1. k \in 1 .. n - 1 \/ k = n
        BY <1>1
      <4> QED BY <1>1, <2>1, <3>1, <4>1
    <3> QED BY <1>1, <2>1, <3>1, <3>2, <3>3 DEF LevelTree
  <2> QED BY <1>1, <2>2, <2>3
<1>5. ASSUME ~in.tree PROVE LevelFlat(y)
  <2>1. /\ Deep(x.out) = x.frames[n].elemDepth
        /\ \A k \in 2 .. n : /\ x.frames[k].elemDepth = x.frames[k - 1].elemDepth + x.frames[k].open
                             /\ x.frames[k].built = <<>>
    BY <1>5 DEF Level, LevelFlat, n
  <2>2. /\ Deep(y.out) = c.elemDepth /\ c.elemDepth - c.open = f.elemDepth - f.open
        /\ c.built = f.built
    BY <1>3, <1>5 DEF Outside
  <2>3. ASSUME NEW k \in 2 .. n
        PROVE  /\ y.frames[k].elemDepth = y.frames[k - 1].elemDepth + y.frames[k].open
               /\ y.frames[k].built = <<>>
    <3>1. k - 1 \in 1 .. n - 1 /\ k - 1 \in 1 .. n
      BY <1>1
    <3>2. y.frames[k - 1] = x.frames[k - 1]
      BY <1>1, <3>1
    <3>3. CASE k = n
      <4> DEFINE d == x.frames[k - 1].elemDepth
      <4>1. d \in Int /\ c.elemDepth \in Int /\ c.open \in Int /\ f.elemDepth \in Int /\ f.open \in Int
        BY <1>2, <3>1 DEF Frame
      <4>2. f.elemDepth = d + f.open /\ f.built = <<>>
        BY <1>1, <2>1, <3>3
      <4> HIDE DEF d
      <4>3. c.elemDepth = d + c.open
        BY <2>2, <4>1, <4>2
      <4> QED BY <1>1, <2>2, <3>2, <3>3, <4>2, <4>3 DEF d
    <3>4. CASE k # n
      <4>1. k \in 1 .. n - 1
        BY <1>1, <3>4
      <4> QED BY <1>1, <2>1, <3>2, <4>1
    <3> QED BY <3>3, <3>4
  <2> QED BY <1>1, <2>2, <2>3 DEF LevelFlat
<1> QED BY <1>3, <1>4, <1>5 DEF Level

\* The numbers of all contexts.
LEMMA StackNumbers ==
  ASSUME NEW in, NEW x, Typed(in, x), Stacked(in, x), NEW k \in 1 .. Len(x.frames),
         NEW f, f = x.frames[k]
  PROVE  /\ f.pos \in Nat /\ f.open \in Nat /\ f.elemDepth \in Int /\ f.before \in Int
         /\ Len(f.src) \in Nat /\ f.built \in Seq(Item) /\ f.src \in Seq(Item)
         /\ Used(f) \in 0 .. Len(f.src) /\ Weight(f.built) \in Nat /\ Deep(f.built) \in Int
         /\ f \in Frame /\ Seated(in, k, f) /\ f.before <= x.sizeentcopy
<1>1. f \in Frame
  BY TopIs
<1>2. Seated(in, k, f) /\ f.before <= x.sizeentcopy
  BY DEF Stacked
<1> QED BY <1>1, <1>2, FrameNumbers

\* The account of a context that did not change.
LEMMA SameAccount ==
  ASSUME NEW in, NEW x, NEW y, NEW k, NEW end, Account(in, x, k, end), y.frames[k] = x.frames[k],
         k = 1 => y.out = x.out
  PROVE  Account(in, y, k, end)
BY DEF Account

\* The accounts, with a tree.
LEMMA TurnedPaidTree ==
  ASSUME NEW in, InputOK(in), NEW x, Typed(in, x), Stacked(in, x), NEW c \in Frame, NEW y, Typed(in, y),
         Turned(x, y, c), Alike(Top(x), c), Stacked(in, y),
         NEW g \in Int, NEW h \in Int, Moved(in, x, y, Top(x), c, g, h), in.tree, PaidTree(in, x, g)
  PROVE  PaidTree(in, y, h)
<1> DEFINE n == Len(x.frames)
           f == Top(x)
           S == x.sizeentcopy
<1>1. /\ n \in Nat \ {0} /\ Len(y.frames) = n /\ y.frames[n] = c /\ x.frames[n] = f
      /\ \A k \in 1 .. n - 1 : y.frames[k] = x.frames[k]
      /\ \A k \in 1 .. n : y.frames[k].e = x.frames[k].e /\ y.frames[k].before = x.frames[k].before
  BY TurnedIs
<1>2. /\ in.tree /\ n > 1 => InTree(x, y, f, c, g, h)
      /\ ~(in.tree /\ n > 1) => Outside(in, x, y, f, c, g, h)
  BY DEF Moved
<1>3. y.sizeentcopy = S /\ S \in Int /\ c.before = f.before /\ c.e = f.e
  BY DEF Turned, Typed, Parser, Alike
<1>4. n \in 1 .. n
  BY <1>1
<1>5. f.before \in Int /\ Used(f) \in Nat /\ Weight(f.built) \in Nat /\ Seated(in, n, f)
  <2>1. f = x.frames[n] /\ n \in 1 .. Len(x.frames)
    BY <1>1, <1>4
  <2> HIDE DEF n, f
  <2>2. /\ f.before \in Int /\ Used(f) \in 0 .. Len(f.src) /\ Weight(f.built) \in Nat /\ Len(f.src) \in Nat
        /\ Seated(in, n, f)
    BY <2>1, StackNumbers
  <2> QED BY <2>2
<1>6. Used(c) \in Nat /\ Weight(c.built) \in Nat
  <2>1. c = y.frames[n] /\ n \in 1 .. Len(y.frames)
    BY <1>1, <1>4
  <2> HIDE DEF n, f
  <2>2. Used(c) \in 0 .. Len(c.src) /\ Weight(c.built) \in Nat /\ Len(c.src) \in Nat
    BY <2>1, StackNumbers
  <2> QED BY <2>2
<1>7. Weight(x.out) \in Nat /\ Weight(y.out) \in Nat
  <2>1. x.out \in Seq(Item) /\ y.out \in Seq(Item)
    BY DEF Typed, Parser
  <2>2. Len(x.out) \in Nat /\ Len(y.out) \in Nat
    BY <2>1, LenProperties
  <2> QED BY <2>2, MarkStep DEF Weight
<1>8. Loaded(in, f.e) \in Nat
  <2>1. f.e \in in.declared \/ f.e = NoEntity
    BY <1>5 DEF Seated
  <2> QED BY <2>1, SizesAre
<1>9. /\ Account(in, x, n, S - g)
      /\ \A k \in 1 .. n - 1 : Account(in, x, k, x.frames[k + 1].before - SizeOf(in, x.frames[k + 1].e))
  BY DEF PaidTree
<1> HIDE DEF n, f, S
<1>10. Account(in, y, n, S - h)
  <2> DEFINE u == Used(f)
             v == Used(c)
             l == Loaded(in, f.e)
             b == f.before
  <2>1. u \in Nat /\ v \in Nat /\ l \in Nat /\ b \in Int
    BY <1>5, <1>6, <1>8
  <2>2. CASE n = 1
    <3> DEFINE w == Weight(x.out)
               t == Weight(y.out)
    <3>1. w + l <= u - b + (S - g) /\ t + h - v <= w + g - u
      BY <1>1, <1>2, <1>9, <2>2 DEF Account, Outside
    <3>2. w \in Nat /\ t \in Nat
      BY <1>7
    <3> HIDE DEF u, v, l, b, w, t
    <3>3. t + l <= v - b + (S - h)
      BY <1>3, <2>1, <3>1, <3>2
    <3> QED BY <1>1, <1>3, <2>2, <3>3 DEF Account, t, l, v, b
  <2>3. CASE n # 1
    <3> DEFINE w == Weight(f.built)
               t == Weight(c.built)
    <3>1. w + l <= u - b + (S - g) /\ t + h - v <= w + g - u
      BY <1>1, <1>2, <1>9, <2>3 DEF Account, InTree
    <3>2. w \in Nat /\ t \in Nat
      BY <1>5, <1>6
    <3> HIDE DEF u, v, l, b, w, t
    <3>3. t + l <= v - b + (S - h)
      BY <1>3, <2>1, <3>1, <3>2
    <3> QED BY <1>1, <1>3, <2>3, <3>3 DEF Account, t, l, v, b
  <2> QED BY <2>2, <2>3
<1>11. ASSUME NEW k \in 1 .. n - 1
       PROVE  Account(in, y, k, y.frames[k + 1].before - SizeOf(in, y.frames[k + 1].e))
  <2>1. k + 1 \in 1 .. n /\ n > 1
    BY <1>1
  <2>2. y.out = x.out
    BY <1>2, <2>1 DEF InTree
  <2> DEFINE end == x.frames[k + 1].before - SizeOf(in, x.frames[k + 1].e)
  <2>3. Account(in, x, k, end) /\ y.frames[k] = x.frames[k]
    BY <1>1, <1>9
  <2>4. end = y.frames[k + 1].before - SizeOf(in, y.frames[k + 1].e)
    BY <1>1, <2>1
  <2> HIDE DEF end
  <2>5. Account(in, y, k, end)
    BY <2>2, <2>3, SameAccount
  <2> QED BY <2>4, <2>5
<1> QED BY <1>1, <1>3, <1>10, <1>11 DEF PaidTree

\* A reserve with another last value.
Other(r, n, v) == [k \in 1 .. n |-> IF k = n THEN v ELSE r[k]]

\* The account, without a tree.
LEMMA TurnedPaidFlat ==
  ASSUME NEW in, InputOK(in), NEW x, Typed(in, x), Stacked(in, x), NEW c \in Frame, NEW y, Typed(in, y),
         Turned(x, y, c), Alike(Top(x), c), Stacked(in, y),
         NEW g \in Int, NEW h \in Int, Moved(in, x, y, Top(x), c, g, h), ~in.tree, PaidFlat(x, g)
  PROVE  PaidFlat(y, h)
<1> DEFINE n == Len(x.frames)
           f == Top(x)
           S == x.sizeentcopy
           u == Used(f)
           v == Used(c)
           w == Weight(x.out)
           t == Weight(y.out)
<1>1. /\ n \in Nat \ {0} /\ Len(y.frames) = n /\ y.frames[n] = c /\ x.frames[n] = f
      /\ \A k \in 1 .. n - 1 : y.frames[k] = x.frames[k]
  BY TurnedIs
<1>2. t + h - v <= w + g - u
  BY DEF Moved, Outside
<1>3. y.sizeentcopy = S /\ S \in Int /\ c.src = f.src
  BY DEF Turned, Typed, Parser, Alike
<1>4. n \in 1 .. n
  BY <1>1
<1>5. u \in 0 .. Len(f.src) /\ Len(f.src) \in Nat
  <2>1. f = x.frames[n] /\ n \in 1 .. Len(x.frames)
    BY <1>1, <1>4
  <2> HIDE DEF n, f
  <2> QED BY <2>1, StackNumbers
<1>6. v \in 0 .. Len(f.src)
  <2>1. c = y.frames[n] /\ n \in 1 .. Len(y.frames)
    BY <1>1, <1>4
  <2>2. Used(c) \in 0 .. Len(c.src)
    <3> HIDE DEF n, f
    <3> QED BY <2>1, StackNumbers
  <2> QED BY <1>3, <2>2
<1>7. w \in Nat /\ t \in Nat
  <2>1. x.out \in Seq(Item) /\ y.out \in Seq(Item)
    BY DEF Typed, Parser
  <2>2. Len(x.out) \in Nat /\ Len(y.out) \in Nat
    BY <2>1, LenProperties
  <2> QED BY <2>2, MarkStep DEF Weight
<1>8. PICK r : Reserve(x, r) /\ w + r[n] + g <= Used(x.frames[1]) + S
  BY DEF PaidFlat
<1>9. /\ r \in [1 .. n -> Nat] /\ r[1] = 0
      /\ \A k \in 2 .. n : r[k] = r[k - 1] + Len(x.frames[k].src) - Used(x.frames[k])
  BY <1>8 DEF Reserve
<1>10. CASE n = 1
  <2>1. 2 .. n = {} /\ r[n] = 0 /\ Used(x.frames[1]) = u /\ Used(y.frames[1]) = v
    BY <1>1, <1>9, <1>10
  <2>2. w + 0 + g <= u + S
    BY <1>8, <2>1
  <2> HIDE DEF u, v, w, t, S
  <2>3. t + 0 + h <= v + S
    <3>1. u \in Int /\ v \in Int
      BY <1>5, <1>6
    <3> QED BY <1>2, <1>3, <1>7, <2>2, <3>1
  <2>4. Reserve(y, r)
    BY <1>1, <1>9, <2>1 DEF Reserve
  <2> QED BY <1>1, <1>3, <2>1, <2>3, <2>4 DEF PaidFlat, t
<1>11. CASE n # 1
  <2> DEFINE b == r[n - 1] + Len(f.src) - v
             q == Other(r, n, b)
             d == Len(f.src)
  <2>1. n \in 2 .. n /\ n - 1 \in 1 .. n /\ n - 1 \in 1 .. n - 1 /\ 1 # n /\ 1 \in 1 .. n - 1
    <3>1. n \in Nat \ {0} /\ n # 1
      BY <1>1, <1>11
    <3> HIDE DEF n
    <3> QED BY <3>1
  <2>2. r[n - 1] \in Nat /\ r[n] = r[n - 1] + d - u
    BY <1>1, <1>9, <2>1
  <2>3. b \in Nat /\ b - r[n] = u - v /\ r[n] \in Int
    <3> DEFINE a == r[n - 1]
               z == r[n]
    <3>1. a \in Nat /\ d \in Nat /\ u \in Int /\ v \in 0 .. d /\ z = a + d - u /\ b = a + d - v
      BY <1>5, <1>6, <2>2
    <3> HIDE DEF a, d, u, v, b, z
    <3>2. b \in Nat /\ b - z = u - v /\ z \in Int
      BY <3>1
    <3> QED BY <3>2 DEF z
  <2>4. q[n] = b /\ \A k \in 1 .. n - 1 : q[k] = r[k]
    BY <1>1, <2>1 DEF Other
  <2> HIDE DEF b
  <2>5. q \in [1 .. n -> Nat]
    BY <1>9, <2>3 DEF Other
  <2> HIDE DEF q
  <2>6. ASSUME NEW k \in 2 .. n PROVE q[k] = q[k - 1] + Len(y.frames[k].src) - Used(y.frames[k])
    <3>1. k - 1 \in 1 .. n - 1
      BY <1>1
    <3>2. CASE k = n
      BY <1>1, <1>3, <2>4, <3>1, <3>2 DEF b
    <3>3. CASE k # n
      <4>1. k \in 1 .. n - 1
        BY <1>1, <3>3
      <4> QED BY <1>1, <1>9, <2>4, <3>1, <4>1
    <3> QED BY <3>2, <3>3
  <2>7. q[1] = 0 /\ y.frames[1] = x.frames[1]
    BY <1>1, <1>9, <2>1, <2>4
  <2>8. Reserve(y, q)
    BY <1>1, <2>5, <2>6, <2>7 DEF Reserve
  <2>9. t + q[n] + h <= Used(y.frames[1]) + S
    <3> DEFINE z == r[n]
               m == Used(x.frames[1])
    <3>1. /\ w + z + g <= m + S /\ b - z = u - v /\ z \in Int /\ b \in Nat
          /\ t + h - v <= w + g - u
      BY <1>2, <1>8, <2>3
    <3>2. u \in Int /\ v \in Int /\ w \in Int /\ t \in Int /\ S \in Int /\ m \in Int
      <4>1. 1 \in 1 .. Len(x.frames)
        BY <1>1
      <4>2. Used(x.frames[1]) \in 0 .. Len(x.frames[1].src) /\ Len(x.frames[1].src) \in Nat
        BY <4>1, StackNumbers
      <4>3. m \in Int
        BY <4>2
      <4> QED BY <1>3, <1>5, <1>6, <1>7, <4>3
    <3> HIDE DEF z, m, u, v, w, t, S
    <3>3. t + b + h <= m + S
      BY <3>1, <3>2
    <3> QED BY <2>4, <2>7, <3>3 DEF m
  <2> QED BY <1>1, <1>3, <2>8, <2>9 DEF PaidFlat
<1> QED BY <1>10, <1>11

\* What is told of an item that is passed, or in place of a reference, is booked.
LEMMA TurnedBooked ==
  ASSUME NEW in, InputOK(in), NEW x, NEW g \in Int, Booked(in, x, g), NEW c \in Frame, NEW y, Typed(in, y),
         Turned(x, y, c), Alike(Top(x), c), NEW h \in Int, Moved(in, x, y, Top(x), c, g, h)
  PROVE  Booked(in, y, h)
<1>1. Typed(in, x) /\ Stacked(in, x) /\ Known(in, x) /\ Level(in, x) /\ Paid(in, x, g)
  BY DEF Booked
<1>2. Stacked(in, y)
  BY <1>1, TurnedStacked
<1>3. Level(in, y)
  BY <1>1, TurnedLevel
<1>4. Known(in, y)
  BY <1>1 DEF Known, Turned
<1>5. in.tree => PaidTree(in, y, h)
  BY <1>1, <1>2, TurnedPaidTree DEF Paid
<1>6. ~in.tree /\ ~in.noEnt => PaidFlat(y, h)
  BY <1>1, <1>2, TurnedPaidFlat DEF Paid
<1> QED BY <1>2, <1>3, <1>4, <1>5, <1>6 DEF Booked, Paid

\* What Deliver tells of items is added where the context on top builds, or to out.
Given(in, x, y, f, c, items) ==
    /\ in.tree /\ Len(x.frames) > 1 => y.out = x.out /\ c.built = f.built \o items
    /\ ~(in.tree /\ Len(x.frames) > 1) => y.out = x.out \o items /\ c.built = f.built

Added(in, x, y, f, c, items) ==
    /\ Given(in, x, y, f, c, items)
    /\ c.elemDepth = f.elemDepth + Deep(items) /\ c.open = f.open + Deep(items)

\* What is told is booked, if it goes no deeper than the limit.
LEMMA AddedBooked ==
  ASSUME NEW in, InputOK(in), NEW x, NEW g \in Int, Booked(in, x, g), NEW f, f = Top(x),
         NEW c \in Frame, NEW y, Typed(in, y), Turned(x, y, c), Alike(f, c),
         NEW items \in Seq(Item), Added(in, x, y, f, c, items),
         High(items, MaxElemDepth - f.elemDepth),
         NEW h \in Int, h = g - Weight(items) + Used(c) - Used(f)
  PROVE  Booked(in, y, h)
<1> DEFINE n == Len(x.frames)
           d == Deep(items)
           a == Weight(items)
           u == Used(f)
           v == Used(c)
<1>1. Typed(in, x) /\ Stacked(in, x) /\ Level(in, x)
  BY DEF Booked
<1>2. f \in Frame /\ f = x.frames[n] /\ n \in Nat \ {0} /\ n \in 1 .. n
  BY <1>1, TopIs
<1>3. /\ f.open \in Nat /\ f.elemDepth \in Int /\ f.built \in Seq(Item) /\ u \in Int
      /\ Len(f.src) \in Nat
  <2>1. n \in 1 .. Len(x.frames) /\ f = x.frames[n]
    BY <1>2
  <2> HIDE DEF n
  <2>2. /\ f.open \in Nat /\ f.elemDepth \in Int /\ f.built \in Seq(Item) /\ Used(f) \in 0 .. Len(f.src)
        /\ Len(f.src) \in Nat
    BY <1>1, <2>1, StackNumbers
  <2> QED BY <2>2
<1>4. v \in Int
  <2>1. c.pos - 1 \in Nat
    <3>1. c.pos \in 1 .. Len(c.src) + 1 /\ c.src = f.src
      BY DEF Alike
    <3> QED BY <1>3, <3>1
  <2> QED BY <2>1, MarksBound DEF Used
<1>5. x.out \in Seq(Item)
  BY <1>1 DEF Typed, Parser
<1>6. a \in Int /\ d \in Int
  BY WeightType
<1> HIDE DEF d, a, u, v, n
<1>7. /\ High(x.out, MaxElemDepth)
      /\ in.tree => /\ Deep(x.out) = x.frames[1].elemDepth
                    /\ \A k \in 2 .. n : Deep(x.frames[k].built) = x.frames[k].open
      /\ ~in.tree => Deep(x.out) = x.frames[n].elemDepth
  BY <1>1 DEF Level, LevelTree, LevelFlat, n
<1>8. CASE in.tree /\ n > 1
  <2>1. y.out = x.out /\ c.built = f.built \o items
    BY <1>8 DEF Added, Given, n
  <2>2. Weight(f.built) \in Nat /\ Weight(c.built) = Weight(f.built) + a /\ Deep(c.built) = Deep(f.built) + d
    <3> DEFINE s == f.built
               t == c.built
    <3>1. s \in Seq(Item) /\ t = s \o items
      BY <1>3, <2>1
    <3> HIDE DEF s, t
    <3>2. Weight(s) \in Nat /\ Weight(t) = Weight(s) + a /\ Deep(t) = Deep(s) + d
      BY <3>1, AddedIs DEF a, d
    <3> QED BY <3>2 DEF s, t
  <2>3. Deep(c.built) = c.open
    <3>1. n \in 2 .. n
      BY <1>2, <1>8
    <3>2. Deep(f.built) = f.open
      BY <1>2, <1>7, <1>8, <3>1
    <3>3. c.open = f.open + d
      BY DEF Added, d
    <3> QED BY <2>2, <3>2, <3>3
  <2>4. Weight(c.built) + h - v <= Weight(f.built) + g - u
    <3> DEFINE w == Weight(f.built)
    <3>1. h = g - a + v - u /\ w \in Int
      BY <2>2 DEF a, u, v
    <3>2. Weight(c.built) = w + a
      BY <2>2
    <3> HIDE DEF w
    <3>3. w + a + h - v <= w + g - u
      BY <1>3, <1>4, <1>6, <3>1
    <3> QED BY <3>2, <3>3 DEF w
  <2>5. Moved(in, x, y, f, c, g, h)
    BY <1>7, <1>8, <2>1, <2>3, <2>4 DEF Moved, InTree, n, u, v
  <2> QED BY <2>5, TurnedBooked
<1>9. CASE ~(in.tree /\ n > 1)
  <2>1. y.out = x.out \o items /\ c.built = f.built
    BY <1>9 DEF Added, Given, n
  <2>2. Deep(x.out) = f.elemDepth
    <3>1. CASE in.tree
      <4>1. n = 1
        BY <1>2, <1>9, <3>1
      <4> QED BY <1>2, <1>7, <3>1, <4>1
    <3>2. CASE ~in.tree
      BY <1>2, <1>7, <3>2
    <3> QED BY <3>1, <3>2
  <2> DEFINE w == Weight(x.out)
  <2>3. /\ w \in Nat /\ Weight(y.out) = w + a /\ Deep(y.out) = Deep(x.out) + d
        /\ \A m \in Int : High(x.out, m) /\ High(items, m - Deep(x.out)) => High(y.out, m)
    BY <1>5, <2>1, AddedIs DEF a, d
  <2>4. High(y.out, MaxElemDepth)
    <3>1. MaxElemDepth \in Int
      BY BoundsAssumption
    <3> QED BY <1>7, <2>2, <2>3, <3>1
  <2>5. Weight(y.out) + h - v <= w + g - u
    <3>1. h = g - a + v - u /\ w \in Int /\ Weight(y.out) = w + a
      BY <2>3 DEF a, u, v
    <3> HIDE DEF w
    <3>2. w + a + h - v <= w + g - u
      BY <1>3, <1>4, <1>6, <3>1
    <3> QED BY <3>1, <3>2
  <2>6. Deep(y.out) = c.elemDepth /\ c.elemDepth - c.open = f.elemDepth - f.open
    <3>1. c.elemDepth = f.elemDepth + d /\ c.open = f.open + d
      BY DEF Added, d
    <3> QED BY <1>3, <1>6, <2>2, <2>3, <3>1
  <2>7. Moved(in, x, y, f, c, g, h)
    BY <1>9, <2>1, <2>4, <2>5, <2>6 DEF Moved, Outside, n, u, v
  <2> QED BY <2>7, TurnedBooked
<1> QED BY <1>8, <1>9

\* c is f with what was built of items, perhaps.
Filled(f, c) == Similar(f, c) /\ c \in Frame

\* Deliver: items for the tree of the context on top, or for the handler.
LEMMA DeliverGives ==
  ASSUME NEW x, Typed(input, x), NEW items \in Seq(Item), NEW y, y = Deliver(x, items)
  PROVE  /\ Typed(input, y) /\ Filled(Top(x), Top(y)) /\ Turned(x, y, Top(y))
         /\ Given(input, x, y, Top(x), Top(y), items)
         /\ y.status = x.status /\ y.ents = x.ents
<1> DEFINE f == Top(x)
           n == Len(x.frames)
<1>1. f \in Frame /\ f = x.frames[n] /\ n \in Nat \ {0}
  BY TopIs
<1>2. Typed(input, y) /\ y.status = x.status
  BY DeliverIs
<1>4. CASE input.tree /\ n > 1
  <2> DEFINE b == f.built \o items
             g == [f EXCEPT !.built = b]
  <2>1. g \in Frame /\ Similar(f, g) /\ g.built = b
    <3>1. b \in Seq(Item)
      BY <1>1, ConcatProperties DEF Frame
    <3> HIDE DEF f, b
    <3> QED BY <1>1, <3>1 DEF Frame, Similar
  <2>2. y = SetTop(x, g)
    BY <1>4 DEF Deliver
  <2> HIDE DEF g, b
  <2>3. Typed(input, y) /\ Top(y) = g /\ SameRest(x, y) /\ Swapped(x.frames, y.frames, g)
    BY <2>1, <2>2, SetTopIs
  <2>4. Turned(x, y, g)
    BY <2>3 DEF Turned, SameRest
  <2>5. Given(input, x, y, f, g, items)
    BY <1>4, <2>1, <2>3 DEF Given, SameRest, Similar, b
  <2> QED BY <1>2, <2>1, <2>3, <2>4, <2>5 DEF Filled, SameRest
<1>5. CASE ~(input.tree /\ n > 1)
  <2> DEFINE o == x.out \o items
             S == Seq(Frame)
             E == [input.declared -> Entity]
             O == Seq(Item)
  <2>1. y = [x EXCEPT !.out = o]
    BY <1>5 DEF Deliver
  <2>2. x \in [frames : S, ents : E, sizeentcopy : Int, out : O, status : Outcomes]
    BY DEF Typed, Parser
  <2>3. o \in O
    BY <2>2, ConcatProperties
  <2>4. /\ y.frames = x.frames /\ y.ents = x.ents /\ y.sizeentcopy = x.sizeentcopy /\ y.out = o
    <3> HIDE DEF S, E, O, o, Outcomes, f
    <3> QED BY <2>1, <2>2, <2>3
  <2>5. Top(y) = f
    BY <2>4 DEF Top
  <2> HIDE DEF f, o
  <2>6. Turned(x, y, f)
    <3>1. Swapped(x.frames, x.frames, f)
      BY <1>1 DEF Swapped
    <3> QED BY <2>4, <3>1 DEF Turned
  <2>7. Given(input, x, y, f, f, items)
    BY <1>5, <2>4 DEF Given, o
  <2>8. Filled(f, f)
    BY <1>1 DEF Filled, Similar
  <2> QED BY <1>2, <2>4, <2>5, <2>6, <2>7, <2>8 DEF f
<1> QED BY <1>4, <1>5

\* The same for items that are balanced.
LEMMA DeliverAdds ==
  ASSUME NEW x, Typed(input, x), NEW items \in Seq(Item), Deep(items) = 0, NEW y, y = Deliver(x, items)
  PROVE  /\ Typed(input, y) /\ Filled(Top(x), Top(y)) /\ Turned(x, y, Top(y))
         /\ Added(input, x, y, Top(x), Top(y), items)
         /\ y.status = x.status /\ y.ents = x.ents
<1> DEFINE f == Top(x)
           c == Top(y)
<1>1. /\ Typed(input, y) /\ Filled(f, c) /\ Turned(x, y, c) /\ Given(input, x, y, f, c, items)
      /\ y.status = x.status /\ y.ents = x.ents
  BY DeliverGives
<1>2. f \in Frame
  BY TopIs
<1> HIDE DEF f, c
<1>3. f.elemDepth + 0 = f.elemDepth /\ f.open + 0 = f.open /\ c.elemDepth = f.elemDepth /\ c.open = f.open
  BY <1>1, <1>2 DEF Frame, Filled, Similar
<1>4. Added(input, x, y, f, c, items)
  BY <1>1, <1>3 DEF Added
<1> QED BY <1>1, <1>4 DEF f, c

\* What Deliver adds without moving on is paid from what is left over.
LEMMA DeliverBooked ==
  ASSUME InputOK(input), NEW x, NEW g \in Int, Booked(input, x, g), NEW items \in Seq(Item),
         Deep(items) = 0, High(items, MaxElemDepth - Top(x).elemDepth), NEW y, y = Deliver(x, items)
  PROVE  Booked(input, y, g - Weight(items)) /\ y.ents = x.ents /\ y.status = x.status
<1> DEFINE f == Top(x)
           c == Top(y)
           n == Len(x.frames)
<1>1. Typed(input, x) /\ Stacked(input, x)
  BY DEF Booked
<1>2. /\ Typed(input, y) /\ Filled(f, c) /\ Turned(x, y, c)
      /\ Added(input, x, y, f, c, items) /\ y.status = x.status /\ y.ents = x.ents
  BY <1>1, DeliverAdds
<1>3. f \in Frame /\ f = x.frames[n] /\ n \in Nat \ {0} /\ n \in 1 .. n
  BY <1>1, TopIs
<1>4. Seated(input, n, f)
  BY <1>1, <1>3 DEF Stacked
<1>5. Weight(items) \in Int
  BY WeightType
<1> HIDE DEF f, c, n
<1>6. Alike(f, c)
  BY <1>2, <1>4 DEF Alike, Filled, Similar, Seated
<1>7. Used(c) = Used(f)
  BY <1>2 DEF Used, Filled, Similar
<1>8. Used(f) \in 0 .. Len(f.src) /\ Len(f.src) \in Nat
  BY <1>3, <1>4, FrameNumbers
<1> DEFINE k == g - Weight(items)
<1>9. k \in Int /\ k = g - Weight(items) + Used(c) - Used(f)
  BY <1>5, <1>7, <1>8
<1>10. f = Top(x) /\ c \in Frame /\ High(items, MaxElemDepth - f.elemDepth)
  BY <1>2 DEF f, Filled
<1> HIDE DEF k
<1>11. Booked(input, y, k)
  BY <1>2, <1>6, <1>9, <1>10, AddedBooked
<1> QED BY <1>2, <1>11 DEF k

\* A parser that charged more, and has not changed otherwise.
Charging(x, y) ==
    /\ y.frames = x.frames /\ y.ents = x.ents /\ y.out = x.out /\ y.sizeentcopy \in Int
    /\ y.sizeentcopy >= x.sizeentcopy

\* A charge is left over until something is told for it; less may be left over.
LEMMA GrownBooked ==
  ASSUME NEW in, InputOK(in), NEW x, NEW g \in Int, Booked(in, x, g), NEW y, Typed(in, y), Charging(x, y),
         NEW h \in Int, h <= g + y.sizeentcopy - x.sizeentcopy
  PROVE  Booked(in, y, h)
<1> DEFINE n == Len(x.frames)
           S == x.sizeentcopy
           T == y.sizeentcopy
<1>1. Typed(in, x) /\ Stacked(in, x) /\ Known(in, x) /\ Level(in, x) /\ Paid(in, x, g)
  BY DEF Booked
<1>2. S \in Int /\ T \in Int /\ T >= S /\ h <= g + T - S
  BY <1>1 DEF Charging, Typed, Parser
<1>3. /\ n \in Nat \ {0} /\ y.frames = x.frames /\ y.ents = x.ents /\ y.out = x.out
  BY <1>1, TopIs DEF Charging
<1>4. /\ \A k \in 1 .. n : Seated(in, k, x.frames[k]) /\ x.frames[k].before <= S
      /\ \A j, k \in 1 .. n : j <= k => x.frames[j].before <= x.frames[k].before
      /\ \A k \in 2 .. n : Covered(in, x, x.frames[k])
  BY <1>1 DEF Stacked
<1>5. ASSUME NEW k \in 1 .. n
      PROVE  x.frames[k].before \in Int /\ Used(x.frames[k]) \in Int
             /\ Weight(x.frames[k].built) \in Int /\ Loaded(in, x.frames[k].e) \in Int
             /\ x.frames[k].before <= T
  <2> DEFINE f == x.frames[k]
  <2>1. f = x.frames[k] /\ k \in 1 .. Len(x.frames)
    OBVIOUS
  <2> HIDE DEF f
  <2>2. /\ f.before \in Int /\ Used(f) \in 0 .. Len(f.src) /\ Len(f.src) \in Nat /\ Weight(f.built) \in Nat
        /\ Seated(in, k, f) /\ f.before <= S
    BY <1>1, <2>1, StackNumbers
  <2>3. f.e \in in.declared \/ f.e = NoEntity
    BY <2>2 DEF Seated
  <2>4. Loaded(in, f.e) \in Int
    BY <2>3, SizesAre
  <2>5. f.before <= T /\ Used(f) \in Int
    <3> HIDE DEF S, T, n
    <3> QED BY <1>2, <2>2
  <2> QED BY <2>2, <2>4, <2>5 DEF f
<1>6. ASSUME NEW k \in 2 .. n PROVE Covered(in, y, y.frames[k])
  <2> DEFINE f == x.frames[k]
             d == x.ents[f.e].kids
  <2>1. k \in 1 .. n /\ k # 1
    BY <1>3
  <2>2. f.e \in in.declared /\ f.before \in Int
    BY <1>4, <1>5, <2>1 DEF Seated
  <2>3. SizeOf(in, f.e) \in Int
    BY <2>2, SizesAre
  <2>4. Weight(d) \in Int
    <3>1. d \in Seq(Item)
      BY <1>1, <2>2 DEF Typed, Parser, Entity
    <3> QED BY <3>1, WeightType
  <2>5. Weight(d) <= S - f.before + SizeOf(in, f.e)
    BY <1>4 DEF Covered
  <2> DEFINE w == Weight(d)
             b == f.before
             z == SizeOf(in, f.e)
  <2>6. w \in Int /\ b \in Int /\ z \in Int /\ w <= S - b + z
    BY <2>2, <2>3, <2>4, <2>5
  <2> HIDE DEF w, b, z, S, T
  <2>7. w <= T - b + z
    BY <1>2, <2>6
  <2> QED BY <1>3, <2>7 DEF Covered, T, w, b, z
<1>7. Stacked(in, y)
  BY <1>3, <1>4, <1>5, <1>6 DEF Stacked
<1>8. Known(in, y) /\ Level(in, y)
  BY <1>1, <1>3 DEF Known, Level, LevelTree, LevelFlat
<1>9. Weight(x.out) \in Int
  <2>1. x.out \in Seq(Item)
    BY <1>1 DEF Typed, Parser
  <2> QED BY <2>1, WeightType
<1>10. ASSUME in.tree PROVE PaidTree(in, y, h)
  <2>1. /\ Account(in, x, n, S - g)
        /\ \A k \in 1 .. n - 1 : Account(in, x, k, x.frames[k + 1].before - SizeOf(in, x.frames[k + 1].e))
    BY <1>1, <1>10 DEF Paid, PaidTree
  <2>2. Account(in, y, n, T - h)
    <3> DEFINE v == IF n = 1 THEN Weight(x.out) ELSE Weight(x.frames[n].built)
               l == Loaded(in, x.frames[n].e)
               u == Used(x.frames[n])
               b == x.frames[n].before
    <3>1. n \in 1 .. n
      BY <1>3
    <3>2. v \in Int /\ l \in Int /\ u \in Int /\ b \in Int /\ v + l <= u - b + (S - g)
      BY <1>5, <1>9, <2>1, <3>1 DEF Account
    <3>3. y.frames[n] = x.frames[n] /\ y.out = x.out
      BY <1>3
    <3> HIDE DEF v, l, u, b, S, T
    <3>4. v + l <= u - b + (T - h)
      BY <1>2, <3>2
    <3> QED BY <3>3, <3>4 DEF Account, v, l, u, b
  <2> QED BY <1>3, <2>1, <2>2 DEF PaidTree, Account
<1>11. ASSUME ~in.tree, ~in.noEnt PROVE PaidFlat(y, h)
  <2>1. PICK r : Reserve(x, r) /\ Weight(x.out) + r[n] + g <= Used(x.frames[1]) + S
    BY <1>1, <1>11 DEF Paid, PaidFlat
  <2>2. Reserve(y, r) /\ n \in 1 .. n /\ r[n] \in Int /\ Used(x.frames[1]) \in Int
    <3>1. n \in 1 .. n /\ 1 \in 1 .. n
      BY <1>3
    <3>2. r[n] \in Int
      BY <2>1, <3>1 DEF Reserve
    <3>3. Used(x.frames[1]) \in Int
      BY <1>5, <3>1
    <3>4. Reserve(y, r)
      BY <1>3, <2>1 DEF Reserve
    <3> QED BY <3>1, <3>2, <3>3, <3>4
  <2> DEFINE w == Weight(x.out)
             q == r[n]
             u == Used(x.frames[1])
  <2>3. w \in Int /\ q \in Int /\ u \in Int /\ w + q + g <= u + S
    BY <1>9, <2>1, <2>2
  <2> HIDE DEF w, q, u, S, T
  <2>4. w + q + h <= u + T
    BY <1>2, <2>3
  <2> QED BY <1>3, <2>2, <2>4 DEF PaidFlat, w, q, u, T
<1> QED BY <1>7, <1>8, <1>10, <1>11 DEF Booked, Paid

\* A parser that gives up has its books in order.
LEMMA FailBooked ==
  ASSUME InputOK(input), NEW x, NEW g \in Int, Booked(input, x, g), NEW why \in Outcomes, NEW y,
         y = Fail(x, why)
  PROVE  Booked(input, y, g)
<1>1. Typed(input, x) /\ x.sizeentcopy \in Int
  BY DEF Booked, Typed, Parser
<1>2. Typed(input, y) /\ Stopped(x, y, why)
  BY <1>1, FailIs
<1>3. Charging(x, y) /\ g <= g + y.sizeentcopy - x.sizeentcopy
  BY <1>1, <1>2 DEF Charging, Stopped
<1> QED BY <1>2, <1>3, GrownBooked

\* Less is left over.
LEMMA LessBooked ==
  ASSUME InputOK(input), NEW x, NEW g \in Int, Booked(input, x, g), NEW h \in Int, h <= g
  PROVE  Booked(input, x, h)
<1>1. Typed(input, x) /\ x.sizeentcopy \in Int
  BY DEF Booked, Typed, Parser
<1>2. Charging(x, x) /\ h <= g + x.sizeentcopy - x.sizeentcopy
  BY <1>1 DEF Charging
<1> QED BY <1>1, <1>2, GrownBooked

\* A handler of events that is told the substituted text: no account is kept.
LEMMA NoAccount ==
  ASSUME NEW x, NEW g, Booked(input, x, g), ~input.tree, input.noEnt, NEW h
  PROVE  Booked(input, x, h)
BY DEF Booked, Paid

\* entityCheckLimits with a charge of d.
LEMMA ChargeBooked ==
  ASSUME InputOK(input), NEW x, NEW g \in Int, Booked(input, x, g), NEW d \in Nat, NEW y,
         y = Charge(x, x.sizeentcopy + d)
  PROVE  Booked(input, y, g + d) /\ Charged(x, y) /\ y.sizeentcopy = x.sizeentcopy + d
<1>1. Typed(input, x) /\ x.sizeentcopy \in Int
  BY DEF Booked, Typed, Parser
<1> DEFINE v == x.sizeentcopy + d
<1>2. v \in Int /\ y = Charge(x, v) /\ v >= x.sizeentcopy
  BY <1>1
<1> HIDE DEF v
<1>3. Typed(input, y) /\ Charged(x, y) /\ y.sizeentcopy = v
  BY <1>1, <1>2, ChargeIs
<1>4. Charging(x, y) /\ g + d \in Int /\ g + d <= g + y.sizeentcopy - x.sizeentcopy
  BY <1>1, <1>2, <1>3 DEF Charging, Charged, v
<1>5. Booked(input, y, g + d)
  BY <1>3, <1>4, GrownBooked
<1> QED BY <1>3, <1>5 DEF v

\* entityCheck leaves enough for what the entity's text, or what was kept of it, will
\* tell.
LEMMA CheckBooked ==
  ASSUME InputOK(input), NEW x, Booked(input, x, 0), NEW e \in input.declared, NEW y,
         y = entityCheck(x, e, ContentLen(e))
  PROVE  /\ Charged(x, y)
         /\ \E d \in Nat : /\ Booked(input, y, d) /\ SizeOf(input, e) <= d
                           /\ Weight(x.ents[e].kids) <= d
<1> DEFINE a == x.ents[e]
           m == IF a.checked THEN a.expandedSize ELSE SizeOf(input, e)
           d == FixedCost + m
<1>1. Typed(input, x) /\ x.ents \in [input.declared -> Entity] /\ x.sizeentcopy \in Int
  BY DEF Booked, Typed, Parser
<1>2. a \in Entity /\ e \in DOMAIN x.ents
  BY <1>1
<1>3. a.kids \in Seq(Item) /\ a.expandedSize \in Int
  BY <1>2 DEF Entity
<1>4. Stored(input, e, a)
  BY DEF Booked, Known
<1>5. Weight(a.kids) \in Nat
  BY <1>3, WeightType
<1>6. SizeOf(input, e) \in Nat /\ ContentLen(e) = SizeOf(input, e)
  BY SizesAre DEF SizeOf, ContentLen, External
<1>7. m \in Nat /\ SizeOf(input, e) <= m /\ Weight(a.kids) <= m
  <2>1. CASE a.checked
    BY <1>3, <1>4, <1>5, <1>6, <2>1 DEF Stored
  <2>2. CASE ~a.checked
    <3>1. a.kids = <<>>
      BY <1>4, <2>2 DEF Stored
    <3>2. Weight(<<>>) = 0
      <4>1. [t |-> "text", e |-> NoEntity] \in Item
        BY DEF Item
      <4> QED BY <4>1, OneItem
    <3> QED BY <1>6, <2>2, <3>1, <3>2
  <2> QED BY <2>1, <2>2
<1>8. y = Charge(x, x.sizeentcopy + FixedCost + m)
  BY <1>2, <1>6 DEF entityCheck, Charge
<1> HIDE DEF m, a
<1>9. d \in Nat /\ SizeOf(input, e) <= d /\ Weight(a.kids) <= d
  BY <1>5, <1>6, <1>7, BoundsAssumption
<1>10. y = Charge(x, x.sizeentcopy + d)
  BY <1>1, <1>7, <1>8, BoundsAssumption
<1> HIDE DEF d
<1>11. Booked(input, y, 0 + d) /\ Charged(x, y)
  <2>1. 0 \in Int
    OBVIOUS
  <2> QED BY <1>9, <1>10, <2>1, ChargeBooked
<1>12. 0 + d = d
  BY <1>9
<1> QED BY <1>9, <1>11, <1>12 DEF a

\* y is x with another context on top, for an entity that has nothing kept; its text
\* was loaded.
Opened(x, y, c) ==
    /\ y.frames = Append(x.frames, c) /\ y.ents = x.ents /\ y.out = x.out
    /\ y.sizeentcopy \in Int

\* The new context of OpenChunk.
Fresh(x, f, e, c) ==
    /\ c.e = e /\ c.src = input.body[e] /\ c.pos = 1 /\ c.open = 0 /\ c.built = <<>>
    /\ c.before = x.sizeentcopy /\ c.elemDepth = f.elemDepth
    /\ c.turn = "first" /\ c.was => input.noEnt

\* The contexts with a new one on top.
LEMMA OpenedIs ==
  ASSUME NEW in, NEW x, Typed(in, x), NEW c \in Frame, NEW y, Opened(x, y, c), NEW n, n = Len(x.frames)
  PROVE  /\ n \in Nat \ {0} /\ Len(y.frames) = n + 1 /\ y.frames[n + 1] = c
         /\ \A k \in 1 .. n : y.frames[k] = x.frames[k]
         /\ \A k \in 1 .. n + 1 : k \in 1 .. n \/ k = n + 1
<1>1. n \in Nat \ {0} /\ x.frames \in Seq(Frame)
  BY TopIs
<1>2. /\ Len(y.frames) = n + 1 /\ y.frames[n + 1] = c
      /\ \A k \in 1 .. n : y.frames[k] = x.frames[k]
  BY <1>1, AppendProperties DEF Opened
<1> QED BY <1>1, <1>2

\* The order of the contexts, with a new one.
LEMMA OpenedStacked ==
  ASSUME InputOK(input), NEW x, Typed(input, x), Stacked(input, x), NEW e \in input.declared,
         x.ents[e].kids = <<>>, NEW c \in Frame, NEW y, Opened(x, y, c), Fresh(x, Top(x), e, c),
         y.sizeentcopy >= x.sizeentcopy
  PROVE  Stacked(input, y)
<1> DEFINE n == Len(x.frames)
           S == x.sizeentcopy
           T == y.sizeentcopy
<1>1. /\ n \in Nat \ {0} /\ Len(y.frames) = n + 1 /\ y.frames[n + 1] = c
      /\ \A k \in 1 .. n : y.frames[k] = x.frames[k]
      /\ \A k \in 1 .. n + 1 : k \in 1 .. n \/ k = n + 1
  BY OpenedIs
<1>2. S \in Int /\ T \in Int /\ T >= S /\ y.ents = x.ents
  BY DEF Opened, Typed, Parser
<1>3. /\ \A k \in 1 .. n : Seated(input, k, x.frames[k]) /\ x.frames[k].before <= S
      /\ \A j, k \in 1 .. n : j <= k => x.frames[j].before <= x.frames[k].before
      /\ \A k \in 2 .. n : Covered(input, x, x.frames[k])
  BY DEF Stacked
<1>4. c.before = S /\ c.e = e
  BY DEF Fresh
<1>5. Seated(input, n + 1, c)
  <2>1. n + 1 # 1
    BY <1>1
  <2>2. c.pos = 1 /\ Len(c.src) \in Nat /\ c.open = 0
    BY LenProperties DEF Fresh, Frame
  <2> QED BY <2>1, <2>2 DEF Seated, Fresh
<1>6. ASSUME NEW k \in 1 .. n
      PROVE  x.frames[k].before \in Int /\ x.frames[k].before <= T
  <2>1. x.frames[k] \in Frame
    BY TopIs
  <2>2. x.frames[k].before \in Int
    BY <2>1 DEF Frame
  <2> QED BY <1>2, <1>3, <2>2
<1>7. ASSUME NEW k \in 2 .. n + 1 PROVE Covered(input, y, y.frames[k])
  <2>1. CASE k \in 1 .. n
    <3> DEFINE f == x.frames[k]
               d == x.ents[f.e].kids
    <3>1. k # 1 /\ k \in 2 .. n
      BY <1>1, <2>1
    <3>2. f.e \in input.declared /\ f.before \in Int /\ y.frames[k] = f
      BY <1>1, <1>3, <1>6, <2>1, <3>1 DEF Seated
    <3>3. SizeOf(input, f.e) \in Int
      BY <3>2, SizesAre
    <3>4. Weight(d) \in Int
      <4>1. d \in Seq(Item)
        BY <3>2 DEF Typed, Parser, Entity
      <4> QED BY <4>1, WeightType
    <3>5. Weight(d) <= S - f.before + SizeOf(input, f.e)
      BY <1>3, <3>1 DEF Covered
    <3> DEFINE w == Weight(d)
               b == f.before
               z == SizeOf(input, f.e)
    <3>6. w \in Int /\ b \in Int /\ z \in Int /\ w <= S - b + z
      BY <3>2, <3>3, <3>4, <3>5
    <3> HIDE DEF w, b, z, S, T
    <3>7. w <= T - b + z
      BY <1>2, <3>6
    <3> QED BY <1>2, <3>2, <3>7 DEF Covered, T, w, b, z
  <2>2. CASE k = n + 1
    <3>1. Weight(<<>>) = 0
      <4>1. [t |-> "text", e |-> NoEntity] \in Item
        BY DEF Item
      <4> QED BY <4>1, OneItem
    <3>2. SizeOf(input, e) \in Nat
      BY SizesAre
    <3>3. Weight(y.ents[e].kids) = 0
      BY <1>2, <3>1
    <3>4. 0 <= T - S + SizeOf(input, e)
      BY <1>2, <3>2
    <3> QED BY <1>1, <1>4, <2>2, <3>3, <3>4 DEF Covered
  <2> QED BY <1>1, <2>1, <2>2
<1>8. ASSUME NEW j \in 1 .. n + 1, NEW k \in 1 .. n + 1, j <= k
      PROVE  y.frames[j].before <= y.frames[k].before
  <2>1. CASE k \in 1 .. n
    <3>1. j \in 1 .. n
      BY <1>1, <1>8, <2>1
    <3> QED BY <1>1, <1>3, <1>8, <2>1, <3>1
  <2>2. CASE k = n + 1 /\ j \in 1 .. n
    BY <1>1, <1>3, <1>4, <2>2
  <2>3. CASE k = n + 1 /\ j = n + 1
    BY <1>1, <1>2, <1>4, <2>3
  <2> QED BY <1>1, <2>1, <2>2, <2>3
<1>9. ASSUME NEW k \in 1 .. n + 1
      PROVE  Seated(input, k, y.frames[k]) /\ y.frames[k].before <= T
  BY <1>1, <1>2, <1>3, <1>4, <1>5, <1>6
<1> QED BY <1>1, <1>7, <1>8, <1>9 DEF Stacked

\* The depths, with a new context.
LEMMA OpenedLevel ==
  ASSUME NEW x, Typed(input, x), Level(input, x), NEW e, NEW c \in Frame, NEW y, Opened(x, y, c),
         Fresh(x, Top(x), e, c)
  PROVE  Level(input, y)
<1> DEFINE n == Len(x.frames)
<1>1. /\ n \in Nat \ {0} /\ Len(y.frames) = n + 1 /\ y.frames[n + 1] = c
      /\ \A k \in 1 .. n : y.frames[k] = x.frames[k]
      /\ \A k \in 1 .. n + 1 : k \in 1 .. n \/ k = n + 1
  BY OpenedIs
<1>2. y.out = x.out /\ c.open = 0 /\ c.built = <<>> /\ c.elemDepth = x.frames[n].elemDepth
  BY TopIs DEF Opened, Fresh
<1>3. Deep(<<>>) = 0
  <2>1. [t |-> "text", e |-> NoEntity] \in Item
    BY DEF Item
  <2> QED BY <2>1, OneItem
<1>4. x.frames[n].elemDepth \in Int /\ n \in 1 .. n /\ 1 \in 1 .. n
  <2>1. n \in 1 .. n /\ 1 \in 1 .. n
    BY <1>1
  <2>2. x.frames[n] \in Frame
    BY <2>1, TopIs
  <2> QED BY <2>1, <2>2 DEF Frame
<1>5. ASSUME input.tree PROVE LevelTree(y)
  <2>1. Deep(x.out) = x.frames[1].elemDepth /\ \A k \in 2 .. n : Deep(x.frames[k].built) = x.frames[k].open
    BY <1>5 DEF Level, LevelTree
  <2>2. ASSUME NEW k \in 2 .. n + 1 PROVE Deep(y.frames[k].built) = y.frames[k].open
    <3>1. k \in 2 .. n \/ k = n + 1
      BY <1>1
    <3> QED BY <1>1, <1>2, <1>3, <2>1, <3>1
  <2> QED BY <1>1, <1>2, <1>4, <2>1, <2>2 DEF LevelTree
<1>6. ASSUME ~input.tree PROVE LevelFlat(y)
  <2>1. /\ Deep(x.out) = x.frames[n].elemDepth
        /\ \A k \in 2 .. n : /\ x.frames[k].elemDepth = x.frames[k - 1].elemDepth + x.frames[k].open
                             /\ x.frames[k].built = <<>>
    BY <1>6 DEF Level, LevelFlat
  <2>2. ASSUME NEW k \in 2 .. n + 1
        PROVE  /\ y.frames[k].elemDepth = y.frames[k - 1].elemDepth + y.frames[k].open
               /\ y.frames[k].built = <<>>
    <3>1. CASE k = n + 1
      <4>1. k - 1 = n
        BY <1>1, <3>1
      <4>2. y.frames[k - 1] = x.frames[n] /\ y.frames[k] = c
        BY <1>1, <1>4, <3>1, <4>1
      <4> QED BY <1>2, <1>4, <4>2
    <3>2. CASE k # n + 1
      <4>1. k \in 2 .. n /\ k \in 1 .. n /\ k - 1 \in 1 .. n
        BY <1>1, <3>2
      <4> QED BY <1>1, <2>1, <4>1
    <3> QED BY <3>1, <3>2
  <2> QED BY <1>1, <1>2, <2>1, <2>2 DEF LevelFlat
<1> QED BY <1>2, <1>5, <1>6 DEF Level

\* The accounts with a tree: the one of the context below stands still, and the new
\* one starts with what loading the text has cost.
LEMMA OpenedPaidTree ==
  ASSUME InputOK(input), NEW x, Typed(input, x), Stacked(input, x), NEW e \in input.declared,
         NEW c \in Frame, NEW y, Typed(input, y), Opened(x, y, c), Fresh(x, Top(x), e, c),
         y.sizeentcopy = x.sizeentcopy + Loaded(input, e),
         NEW g \in Int, SizeOf(input, e) <= g, PaidTree(input, x, g)
  PROVE  PaidTree(input, y, 0)
<1> DEFINE n == Len(x.frames)
           S == x.sizeentcopy
           T == y.sizeentcopy
           L == Loaded(input, e)
           Z == SizeOf(input, e)
<1>1. /\ n \in Nat \ {0} /\ Len(y.frames) = n + 1 /\ y.frames[n + 1] = c
      /\ \A k \in 1 .. n : y.frames[k] = x.frames[k]
      /\ \A k \in 1 .. n + 1 : k \in 1 .. n \/ k = n + 1
  BY OpenedIs
<1>2. S \in Int /\ L \in Nat /\ Z \in Nat /\ T = S + L
  BY SizesAre DEF Typed, Parser
<1>3. c.before = S /\ c.e = e /\ c.pos = 1 /\ c.built = <<>> /\ y.out = x.out
  BY DEF Fresh, Opened
<1>4. /\ Account(input, x, n, S - g)
      /\ \A k \in 1 .. n - 1 : Account(input, x, k, x.frames[k + 1].before - SizeOf(input, x.frames[k + 1].e))
  BY DEF PaidTree
<1>5. Weight(<<>>) = 0
  <2>1. [t |-> "text", e |-> NoEntity] \in Item
    BY DEF Item
  <2> QED BY <2>1, OneItem
<1>6. Used(c) = 0
  <2>1. c.pos - 1 = 0 /\ 0 \in Nat
    BY <1>3
  <2> QED BY <2>1, MarkStep DEF Used
<1>7. Account(input, y, n + 1, T - 0)
  <2>1. n + 1 # 1
    BY <1>1
  <2>2. 0 + L <= 0 - S + (T - 0)
    <3> HIDE DEF S, T, L
    <3> QED BY <1>2
  <2> QED BY <1>1, <1>3, <1>5, <1>6, <2>1, <2>2 DEF Account
<1>8. Account(input, y, n, S - Z)
  <2> DEFINE f == x.frames[n]
             w == IF n = 1 THEN Weight(x.out) ELSE Weight(f.built)
             l == Loaded(input, f.e)
             u == Used(f)
             b == f.before
  <2>1. n \in 1 .. n
    BY <1>1
  <2>2. w + l <= u - b + (S - g)
    BY <1>4 DEF Account
  <2>3. l \in Int /\ u \in Int /\ b \in Int /\ w \in Int
    <3>1. f = x.frames[n] /\ n \in 1 .. Len(x.frames)
      BY <2>1
    <3> HIDE DEF f
    <3>2. /\ f.before \in Int /\ Used(f) \in 0 .. Len(f.src) /\ Len(f.src) \in Nat
          /\ Weight(f.built) \in Nat /\ Seated(input, n, f)
      BY <3>1, StackNumbers
    <3>3. f.e \in input.declared \/ f.e = NoEntity
      BY <3>2 DEF Seated
    <3>4. Weight(x.out) \in Int
      <4>1. x.out \in Seq(Item)
        BY DEF Typed, Parser
      <4> QED BY <4>1, WeightType
    <3>5. u \in Int
      <4> HIDE DEF n
      <4> QED BY <3>2
    <3> QED BY <3>2, <3>3, <3>4, <3>5, SizesAre
  <2>4. y.frames[n] = f /\ Z <= g
    BY <1>1, <2>1
  <2> HIDE DEF f, w, l, u, b, S, Z
  <2>5. w + l <= u - b + (S - Z)
    BY <1>2, <2>2, <2>3, <2>4
  <2> QED BY <1>3, <2>4, <2>5 DEF Account, f, w, l, u, b
<1>9. ASSUME NEW k \in 1 .. (n + 1) - 1
      PROVE  Account(input, y, k, y.frames[k + 1].before - SizeOf(input, y.frames[k + 1].e))
  <2>1. k \in 1 .. n
    BY <1>1
  <2>2. CASE k = n
    BY <1>1, <1>3, <1>8, <2>2
  <2>3. CASE k # n
    <3>1. k \in 1 .. n - 1 /\ k + 1 \in 1 .. n
      BY <1>1, <2>1, <2>3
    <3> DEFINE end == x.frames[k + 1].before - SizeOf(input, x.frames[k + 1].e)
    <3>2. Account(input, x, k, end) /\ y.frames[k] = x.frames[k] /\ y.frames[k + 1] = x.frames[k + 1]
      BY <1>1, <1>4, <2>1, <3>1
    <3> HIDE DEF end
    <3>3. Account(input, y, k, end)
      BY <1>3, <3>2, SameAccount
    <3> QED BY <3>2, <3>3 DEF end
  <2> QED BY <2>2, <2>3
<1> QED BY <1>1, <1>7, <1>9 DEF PaidTree

\* A reserve for one more context.
More(r, n, v) == [k \in 1 .. n + 1 |-> IF k = n + 1 THEN v ELSE r[k]]

\* The account without a tree: what the entity's text will tell is put aside.
LEMMA OpenedPaidFlat ==
  ASSUME InputOK(input), NEW x, Typed(input, x), Stacked(input, x), NEW e \in input.declared,
         NEW c \in Frame, NEW y, Typed(input, y), Opened(x, y, c), Fresh(x, Top(x), e, c),
         y.sizeentcopy = x.sizeentcopy + Loaded(input, e),
         NEW g \in Int, SizeOf(input, e) <= g, PaidFlat(x, g)
  PROVE  PaidFlat(y, 0)
<1> DEFINE n == Len(x.frames)
           S == x.sizeentcopy
           L == Loaded(input, e)
           Z == SizeOf(input, e)
           w == Weight(x.out)
           m == Used(x.frames[1])
<1>1. /\ n \in Nat \ {0} /\ Len(y.frames) = n + 1 /\ y.frames[n + 1] = c
      /\ \A k \in 1 .. n : y.frames[k] = x.frames[k]
      /\ \A k \in 1 .. n + 1 : k \in 1 .. n \/ k = n + 1
  BY OpenedIs
<1>2. S \in Int /\ L \in Nat /\ Z \in Nat /\ Z + L = Len(c.src) /\ y.sizeentcopy = S + L
  BY SizesAre DEF Typed, Parser, Fresh
<1>3. Used(c) = 0
  <2>1. c.pos - 1 = 0 /\ 0 \in Nat
    BY DEF Fresh
  <2> QED BY <2>1, MarkStep DEF Used
<1>4. PICK r : Reserve(x, r) /\ w + r[n] + g <= m + S
  BY DEF PaidFlat
<1>5. /\ r \in [1 .. n -> Nat] /\ r[1] = 0
      /\ \A k \in 2 .. n : r[k] = r[k - 1] + Len(x.frames[k].src) - Used(x.frames[k])
  BY <1>4 DEF Reserve
<1>6. n \in 1 .. n /\ 1 \in 1 .. n /\ 1 # n + 1
  BY <1>1
<1> DEFINE b == r[n] + Len(c.src)
           q == More(r, n, b)
<1>7. b \in Nat /\ r[n] \in Nat
  <2>1. r[n] \in Nat
    BY <1>5, <1>6
  <2>2. Len(c.src) \in Nat
    BY LenProperties DEF Frame
  <2> QED BY <2>1, <2>2
<1>8. q[n + 1] = b /\ \A k \in 1 .. n : q[k] = r[k]
  BY <1>1 DEF More
<1> HIDE DEF b
<1>9. q \in [1 .. n + 1 -> Nat]
  BY <1>1, <1>5, <1>7 DEF More
<1> HIDE DEF q
<1>10. ASSUME NEW k \in 2 .. n + 1
       PROVE  q[k] = q[k - 1] + Len(y.frames[k].src) - Used(y.frames[k])
  <2>1. CASE k = n + 1
    <3>1. k - 1 = n /\ q[k] = b /\ q[k - 1] = r[n] /\ y.frames[k] = c
      BY <1>1, <1>6, <1>8, <2>1
    <3>2. b = r[n] + Len(c.src) - 0
      BY <1>2, <1>7 DEF b
    <3> QED BY <1>3, <3>1, <3>2
  <2>2. CASE k # n + 1
    <3>1. k \in 2 .. n /\ k \in 1 .. n /\ k - 1 \in 1 .. n
      BY <1>1, <2>2
    <3> QED BY <1>1, <1>5, <1>8, <3>1
  <2> QED BY <2>1, <2>2
<1>11. Reserve(y, q)
  BY <1>1, <1>5, <1>6, <1>8, <1>9, <1>10 DEF Reserve
<1>12. w + q[n + 1] + 0 <= m + (S + L)
  <2> DEFINE z == r[n]
             l == Len(c.src)
  <2>1. w \in Int /\ m \in Int
    <3>1. x.out \in Seq(Item)
      BY DEF Typed, Parser
    <3>2. 1 \in 1 .. Len(x.frames)
      BY <1>6
    <3>3. Used(x.frames[1]) \in 0 .. Len(x.frames[1].src) /\ Len(x.frames[1].src) \in Nat
      BY <3>2, StackNumbers
    <3> QED BY <3>1, <3>3, WeightType
  <2>2. w + z + g <= m + S /\ z \in Nat /\ Z + L = l /\ Z <= g /\ q[n + 1] = z + l
    BY <1>2, <1>4, <1>7, <1>8 DEF b
  <2> HIDE DEF z, l, w, m, S, Z, L
  <2>3. w + (z + l) + 0 <= m + (S + L)
    BY <1>2, <2>1, <2>2
  <2> QED BY <2>2, <2>3
<1>13. y.out = x.out /\ y.frames[1] = x.frames[1]
  BY <1>1, <1>6 DEF Opened
<1> QED BY <1>1, <1>2, <1>11, <1>12, <1>13 DEF PaidFlat

\* Load charges the text of an external entity.
LEMMA LoadBooked ==
  ASSUME InputOK(input), NEW x, NEW g \in Int, Booked(input, x, g), NEW e \in input.declared, NEW y,
         y = Load(x, e)
  PROVE  /\ Booked(input, y, g) /\ y.frames = x.frames /\ y.ents = x.ents /\ y.out = x.out
         /\ y.status = "running" => y.sizeentcopy = x.sizeentcopy + Loaded(input, e)
         /\ y.status \in {x.status, "limit", "unresolved"}
<1>1. Typed(input, x) /\ x.sizeentcopy \in Int
  BY DEF Booked, Typed, Parser
<1>2. Len(input.body[e]) \in Nat
  BY InputFacts
<1>3. CASE ~External(e)
  <2>0. e \notin input.unreadable
    BY <1>3 DEF InputOK, External
  <2>1. y = x /\ Loaded(input, e) = 0
    BY <1>3, <2>0 DEF Load, Loaded, External
  <2> QED BY <1>1, <2>1
<1>4. CASE External(e) /\ e \in input.unreadable
  <2>1. y = Fail(x, "unresolved") /\ "unresolved" \in Outcomes
    BY <1>4 DEF Load, Outcomes
  <2>2. Typed(input, y) /\ Stopped(x, y, "unresolved")
    BY <1>1, <2>1, FailIs
  <2>3. Booked(input, y, g)
    BY <2>1, FailBooked
  <2> QED BY <2>2, <2>3 DEF Stopped
<1>5. CASE External(e) /\ e \notin input.unreadable
  <2> DEFINE d == Len(input.body[e])
  <2>1. y = Charge(x, x.sizeentcopy + d) /\ d \in Nat /\ d = Loaded(input, e)
    BY <1>2, <1>5 DEF Load, entityCheckBytes, Charge, Loaded, External
  <2> HIDE DEF d
  <2>2. Booked(input, y, g + d) /\ Charged(x, y) /\ y.sizeentcopy = x.sizeentcopy + d
    BY <2>1, ChargeBooked
  <2>3. g + d \in Int /\ g <= g + d
    BY <2>1
  <2>4. Booked(input, y, g)
    BY <2>2, <2>3, LessBooked
  <2> QED BY <2>1, <2>2, <2>4 DEF Charged
<1> QED BY <1>3, <1>4, <1>5

\* parseBalancedChunkInternal or parseExternalEntityPrivate, up to parseContent: a
\* context for an entity whose text was paid for and of which nothing is kept.
LEMMA OpenChunkBooked ==
  ASSUME InputOK(input), NEW x, NEW g \in Int, Booked(input, x, g), x.status = "running",
         NEW e \in input.declared, x.ents[e].kids = <<>>, SizeOf(input, e) <= g,
         NEW turn \in {"first", "again"}, NEW was \in BOOLEAN,
         turn = "first" /\ was => input.noEnt, NEW y, y = OpenChunk(x, e, turn, was)
  PROVE  Booked(input, y, 0)
<1> DEFINE f == Top(x)
           z == Load(x, e)
           c == Context(e, input.body[e], f.depth + 2, f.elemDepth, turn, was, x.sizeentcopy)
<1>1. /\ Typed(input, x) /\ Stacked(input, x) /\ Known(input, x) /\ Level(input, x)
      /\ Paid(input, x, g)
  BY DEF Booked
<1>2. f \in Frame /\ x.frames \in Seq(Frame)
  BY <1>1, TopIs
<1>3. SizeOf(input, e) \in Nat /\ 0 <= g
  <2>1. SizeOf(input, e) \in Nat
    BY SizesAre
  <2> QED BY <2>1
<1>4. /\ Booked(input, z, g) /\ z.frames = x.frames /\ z.ents = x.ents /\ z.out = x.out
      /\ z.status = "running" => z.sizeentcopy = x.sizeentcopy + Loaded(input, e)
  BY LoadBooked
<1>5. CASE f.depth + 1 > MaxNest
  <2>1. y = Fail(x, "loop") /\ "loop" \in Outcomes
    BY <1>5 DEF OpenChunk, Outcomes
  <2>2. Booked(input, y, g)
    BY <2>1, FailBooked
  <2> QED BY <1>3, <2>2, LessBooked
<1>6. CASE ~(f.depth + 1 > MaxNest) /\ z.status # "running"
  <2>1. y = z
    BY <1>6 DEF OpenChunk, Then
  <2> HIDE DEF z
  <2> QED BY <1>3, <1>4, <2>1, LessBooked
<1>7. CASE ~(f.depth + 1 > MaxNest) /\ z.status = "running"
  <2>1. y = [z EXCEPT !.frames = Append(@, c)]
    BY <1>7 DEF OpenChunk, Then
  <2>2. /\ input.body[e] \in Seq(Item) /\ e \in Entities \cup {NoEntity} /\ f.depth + 2 \in Nat
        /\ f.elemDepth \in Int /\ x.sizeentcopy \in Int
    <3>1. input.body[e] \in Seq(Item) /\ e \in Entities
      BY InputFacts
    <3>2. f.depth \in Nat /\ f.elemDepth \in Int
      BY <1>2 DEF Frame
    <3>3. x.sizeentcopy \in Int
      BY <1>1 DEF Typed, Parser
    <3> QED BY <3>1, <3>2, <3>3
  <2>3. c \in Frame /\ Fresh(x, f, e, c)
    <3>1. c = Context(e, input.body[e], f.depth + 2, f.elemDepth, turn, was, x.sizeentcopy)
      OBVIOUS
    <3> DEFINE b == input.body[e]
               d == f.depth + 2
               t == f.elemDepth
               n == x.sizeentcopy
    <3>2. /\ e \in Entities \cup {NoEntity} /\ b \in Seq(Item) /\ d \in Nat /\ t \in Int /\ n \in Int
          /\ c = Context(e, b, d, t, turn, was, n)
      BY <2>2, <3>1
    <3> HIDE DEF c, f, b, d, t, n
    <3>3. /\ c \in Frame /\ c.e = e /\ c.src = b /\ c.pos = 1 /\ c.open = 0 /\ c.turn = turn /\ c.was = was
          /\ c.built = <<>> /\ c.before = n /\ c.elemDepth = t
      BY <3>2, EmptySeq DEF Context, Frame
    <3> QED BY <3>3 DEF Fresh, b, t, n
  <2> HIDE DEF c, z
  <2> DEFINE S == Seq(Frame)
             E == [input.declared -> Entity]
             O == Seq(Item)
             t == Append(x.frames, c)
  <2>4. t \in S /\ t # <<>>
    <3>1. t \in Seq(Frame) /\ Len(t) = Len(x.frames) + 1
      BY <1>2, <2>3, AppendProperties
    <3>2. Len(x.frames) \in Nat
      BY <1>2, LenProperties
    <3> QED BY <3>1, <3>2, EmptySeq
  <2>5. z \in [frames : S, ents : E, sizeentcopy : Int, out : O, status : Outcomes]
    BY <1>4 DEF Booked, Typed, Parser
  <2>6. y = [z EXCEPT !.frames = t]
    BY <1>4, <2>1
  <2> HIDE DEF S, E, O, t, Outcomes, f
  <2>7. /\ y \in [frames : S, ents : E, sizeentcopy : Int, out : O, status : Outcomes]
        /\ y.frames = t /\ y.ents = z.ents /\ y.out = z.out /\ y.sizeentcopy = z.sizeentcopy
    BY <2>4, <2>5, <2>6
  <2>8. Typed(input, y)
    BY <2>4, <2>7 DEF Typed, Parser, S, E, O
  <2>9. /\ Opened(x, y, c) /\ y.sizeentcopy = x.sizeentcopy + Loaded(input, e)
        /\ y.ents = x.ents
    BY <1>4, <1>7, <2>5, <2>7 DEF Opened, t
  <2>10. y.sizeentcopy >= x.sizeentcopy
    <3>1. Loaded(input, e) \in Nat
      BY SizesAre
    <3> QED BY <2>2, <2>9, <3>1
  <2>11. c \in Frame /\ Fresh(x, Top(x), e, c)
    BY <2>3 DEF f
  <2>12. Stacked(input, y)
    BY <1>1, <2>9, <2>10, <2>11, OpenedStacked
  <2>13. Level(input, y)
    BY <1>1, <2>9, <2>11, OpenedLevel
  <2>14. Known(input, y)
    BY <1>1, <2>9 DEF Known
  <2>15. input.tree => PaidTree(input, y, 0)
    BY <1>1, <2>8, <2>9, <2>11, OpenedPaidTree DEF Paid
  <2>16. ~input.tree /\ ~input.noEnt => PaidFlat(y, 0)
    BY <1>1, <2>8, <2>9, <2>11, OpenedPaidFlat DEF Paid
  <2> QED BY <2>8, <2>12, <2>13, <2>14, <2>15, <2>16 DEF Booked, Paid
<1> QED BY <1>5, <1>6, <1>7

-----------------------------------------------------------------------------
(***************************************************************************)
(* The books at the end of parseReference.                                 *)
(***************************************************************************)
\* What stands for a reference to e: a replay costs what was kept.
LEMMA ShowBooked ==
  ASSUME InputOK(input), NEW x, NEW g \in Int, Booked(input, x, g), NEW e \in input.declared,
         Weight(x.ents[e].kids) <= g, NEW y, y = Show(x, e)
  PROVE  Booked(input, y, 0)
<1> DEFINE kids == x.ents[e].kids
           f == Top(x)
<1>1. Typed(input, x) /\ f.elemDepth \in Int
  BY TopIs DEF Booked, Frame
<1>2. kids \in Seq(Item) /\ Deep(kids) = 0
  BY <1>1 DEF Typed, Parser, Entity, Booked, Known, Stored
<1>3. Weight(kids) \in Nat /\ 0 <= g
  <2>1. Weight(kids) \in Nat
    BY <1>2, WeightType
  <2> QED BY <2>1
<1>4. CASE input.noEnt
  <2>1. y = replayEntityNodes(x, kids)
    BY <1>4 DEF Show
  <2>2. Nesting(kids) \in Nat
    <3>1. 0 \in Int
      OBVIOUS
    <3> QED BY <1>2, <3>1, NestingIs
  <2>3. CASE f.elemDepth + Nesting(kids) > MaxElemDepth
    <3>1. y = Fail(x, "depth") /\ "depth" \in Outcomes
      BY <2>1, <2>3 DEF replayEntityNodes, Outcomes
    <3>2. Booked(input, y, g)
      BY <3>1, FailBooked
    <3> QED BY <1>3, <3>2, LessBooked
  <2>4. CASE ~(f.elemDepth + Nesting(kids) > MaxElemDepth)
    <3> DEFINE items == Plain(kids)
               m == MaxElemDepth - f.elemDepth
               v == g - Weight(items)
    <3>1. y = Deliver(x, items)
      BY <2>1, <2>4 DEF replayEntityNodes
    <3>2. m \in Int /\ Nesting(kids) <= m /\ m >= 0
      BY <1>1, <2>2, <2>4, BoundsAssumption
    <3> HIDE DEF m
    <3>3. High(kids, m)
      BY <1>2, <3>2, NestingIs DEF kids
    <3>4. items \in Seq(Item) /\ Weight(items) = Weight(kids) /\ Deep(items) = 0 /\ High(items, m)
      <4> HIDE DEF kids
      <4> QED BY <1>2, <3>2, <3>3, PlainKeeps
    <3> HIDE DEF items, kids
    <3>5. Booked(input, y, v)
      <4>1. High(items, MaxElemDepth - Top(x).elemDepth)
        BY <3>4 DEF m
      <4> QED BY <3>1, <3>4, <4>1, DeliverBooked
    <3>6. v \in Int /\ 0 <= v
      BY <1>3, <3>4 DEF kids
    <3> QED BY <3>5, <3>6, LessBooked
  <2> QED BY <2>3, <2>4
<1>5. CASE ~input.noEnt
  <2> DEFINE items == <<Reference(e)>>
             m == MaxElemDepth - f.elemDepth
  <2>1. y = Deliver(x, items)
    BY <1>5 DEF Show
  <2>2. Reference(e) \in Item /\ Counts(Reference(e)) = 0 /\ Up(Reference(e)) = 0
        /\ Reference(e).t # "start"
    BY InputFacts DEF Item, Reference, Counts, Up
  <2>3. m \in Int
    BY <1>1, BoundsAssumption
  <2>4. items \in Seq(Item) /\ Weight(items) = 0 /\ Deep(items) = 0 /\ High(items, m)
    <3> HIDE DEF m
    <3> QED BY <2>2, <2>3, OneItem
  <2> HIDE DEF items
  <2>5. Booked(input, y, g - Weight(items))
    BY <2>1, <2>4, DeliverBooked
  <2>6. g - Weight(items) = g
    BY <2>4
  <2> QED BY <1>3, <2>5, <2>6, LessBooked
<1> QED BY <1>4, <1>5

\* The same, or another parse of the entity's text, for the events, which costs the text.
LEMMA ShowOrParseBooked ==
  ASSUME InputOK(input), NEW x, NEW g \in Int, Booked(input, x, g), x.status = "running",
         NEW e \in input.declared, Weight(x.ents[e].kids) <= g, NEW was \in BOOLEAN,
         was => SizeOf(input, e) <= g, NEW y, y = ShowOrParse(x, e, was)
  PROVE  Booked(input, y, 0)
<1>1. CASE x.ents[e].kids = <<>> /\ was /\ ~Blocked(e)
  <2>1. y = OpenChunk(x, e, "again", was)
    BY <1>1 DEF ShowOrParse
  <2> QED BY <1>1, <2>1, OpenChunkBooked
<1>2. CASE ~(x.ents[e].kids = <<>> /\ was /\ ~Blocked(e))
  <2>1. y = Show(x, e)
    BY <1>2 DEF ShowOrParse
  <2> QED BY <2>1, ShowBooked
<1> QED BY <1>1, <1>2

\* What Keep keeps of kids with an entity: what was kept first stays.
Keeping(x, e, kids) == IF x.ents[e].kids = <<>> THEN kids ELSE x.ents[e].kids

\* Keep keeps what costs no more than was charged since the context was opened.
LEMMA KeepBooked ==
  ASSUME InputOK(input), NEW x, NEW g \in Int, Booked(input, x, g), NEW e \in input.declared,
         NEW before \in Int, NEW kids \in Seq(Item), NEW v, v = Keeping(x, e, kids),
         before <= x.sizeentcopy, \A k \in 1 .. Len(x.frames) : x.frames[k].before <= before,
         Weight(v) <= x.sizeentcopy - before + SizeOf(input, e), Deep(v) = 0,
         ~input.tree => v = <<>>, NEW y, y = Keep(x, e, before, kids)
  PROVE  Booked(input, y, g) /\ y.ents[e].kids = v /\ y.status = x.status
<1> DEFINE S == Seq(Frame)
           D == input.declared
           E == [D -> Entity]
           O == Seq(Item)
           size == x.sizeentcopy - before + ContentLen(e)
           d == [checked |-> TRUE, expandedSize |-> size, kids |-> v]
           t == [x.ents EXCEPT ![e] = d]
<1>1. /\ Typed(input, x) /\ Stacked(input, x) /\ Known(input, x) /\ Level(input, x)
      /\ Paid(input, x, g)
  BY DEF Booked
<1>2. x \in [frames : S, ents : E, sizeentcopy : Int, out : O, status : Outcomes]
  BY <1>1 DEF Typed, Parser
<1>3. y = [x EXCEPT !.ents = t]
  BY DEF Keep, Keeping
<1>4. Typed(input, y)
  BY <1>1, KeepIs
<1>5. x.ents \in E /\ e \in D
  BY <1>2
<1>6. SizeOf(input, e) \in Nat /\ ContentLen(e) = SizeOf(input, e) /\ x.sizeentcopy \in Int
  BY <1>2, SizesAre DEF SizeOf, ContentLen, External
<1>7. d.kids = v /\ d.checked /\ d.expandedSize = size
  OBVIOUS
<1> HIDE DEF d, D
<1>8. /\ t[e] = d /\ \A h \in D \ {e} : t[h] = x.ents[h]
  BY <1>5
<1> HIDE DEF S, E, O, t, Outcomes
<1>9. /\ y.ents = t /\ y.frames = x.frames /\ y.out = x.out /\ y.sizeentcopy = x.sizeentcopy
      /\ y.status = x.status
  BY <1>2, <1>3
<1>10. ASSUME NEW h \in input.declared PROVE Stored(input, h, y.ents[h])
  <2>1. CASE h = e
    <3>1. SizeOf(input, e) <= size /\ Weight(v) <= size
      BY <1>6
    <3> HIDE DEF size
    <3> QED BY <1>7, <1>8, <1>9, <2>1, <3>1 DEF Stored
  <2>2. CASE h # e
    BY <1>1, <1>8, <1>9, <2>2 DEF Known, D
  <2> QED BY <2>1, <2>2
<1>11. ASSUME NEW k \in 2 .. Len(x.frames) PROVE Covered(input, y, y.frames[k])
  <2> DEFINE f == x.frames[k]
  <2>1. k \in 1 .. Len(x.frames) /\ k # 1
    <3>1. Len(x.frames) \in Nat
      BY <1>1, TopIs
    <3> QED BY <3>1
  <2>2. f.before \in Int /\ f.e \in input.declared /\ f.before <= before /\ Covered(input, x, f)
    <3>1. f = x.frames[k] /\ k \in 1 .. Len(x.frames)
      BY <2>1
    <3>2. Covered(input, x, f)
      BY <1>1 DEF Stacked
    <3> HIDE DEF f
    <3>3. f.before \in Int /\ Seated(input, k, f)
      BY <1>1, <3>1, StackNumbers
    <3> QED BY <2>1, <3>1, <3>2, <3>3 DEF Seated
  <2> HIDE DEF f
  <2>3. CASE f.e = e
    <3>1. y.ents[f.e].kids = v
      BY <1>7, <1>8, <1>9, <2>3
    <3> DEFINE z == SizeOf(input, e)
               c == x.sizeentcopy
               b == f.before
               w == Weight(v)
    <3>2. Weight(v) \in Int
      <4>1. x.ents[e].kids \in Seq(Item)
        BY <1>1 DEF Typed, Parser, Entity
      <4>2. v \in Seq(Item)
        BY <4>1 DEF Keeping
      <4> QED BY <4>2, WeightType
    <3>3. w \in Int /\ z \in Int /\ c \in Int /\ b \in Int /\ b <= before /\ w <= c - before + z
      BY <1>6, <2>2, <3>2
    <3> HIDE DEF z, c, b, w
    <3>4. w <= c - b + z
      BY <3>3
    <3> QED BY <1>9, <2>3, <3>1, <3>4 DEF Covered, z, c, b, w, f
  <2>4. CASE f.e # e
    <3>1. y.ents[f.e] = x.ents[f.e]
      BY <1>8, <1>9, <2>2, <2>4 DEF D
    <3> QED BY <1>9, <2>2, <3>1 DEF Covered, f
  <2> QED BY <2>3, <2>4
<1>12. Stacked(input, y)
  BY <1>1, <1>9, <1>11 DEF Stacked
<1>13. Known(input, y)
  BY <1>10 DEF Known
<1>14. Level(input, y)
  BY <1>1, <1>9 DEF Level, LevelTree, LevelFlat
<1>15. Paid(input, y, g)
  BY <1>1, <1>9 DEF Paid, PaidTree, Account, PaidFlat, Reserve
<1> QED BY <1>4, <1>7, <1>8, <1>9, <1>12, <1>13, <1>14, <1>15 DEF Booked

\* The contexts without the one on top.
LEMMA PoppedIs ==
  ASSUME NEW in, NEW x, Typed(in, x), Len(x.frames) > 1, NEW y, Popped(x, y), NEW n, n = Len(x.frames)
  PROVE  /\ Typed(in, y) /\ n \in Nat /\ n > 1 /\ Len(y.frames) = n - 1
         /\ \A k \in 1 .. n - 1 : y.frames[k] = x.frames[k]
         /\ y.ents = x.ents /\ y.sizeentcopy = x.sizeentcopy /\ y.out = x.out /\ y.status = x.status
<1> DEFINE S == Seq(Frame)
           E == [in.declared -> Entity]
           O == Seq(Item)
           t == Front(x.frames)
<1>1. /\ x \in [frames : S, ents : E, sizeentcopy : Int, out : O, status : Outcomes]
      /\ x.frames # <<>> /\ n \in Nat \ {0}
  BY TopIs DEF Typed, Parser
<1>2. t \in S /\ Cut(x.frames, t)
  BY <1>1, FrontIs
<1>3. Len(t) = n - 1 /\ \A i \in 1 .. n - 1 : t[i] = x.frames[i]
  BY <1>2 DEF Cut
<1>4. t # <<>>
  BY <1>1, <1>3, EmptySeq
<1>5. y = [x EXCEPT !.frames = t]
  BY DEF Popped
<1>6. /\ y \in [frames : S, ents : E, sizeentcopy : Int, out : O, status : Outcomes]
      /\ y.frames = t /\ y.ents = x.ents /\ y.status = x.status /\ y.sizeentcopy = x.sizeentcopy
      /\ y.out = x.out
  <2> HIDE DEF S, E, O, t, Outcomes
  <2> QED BY <1>1, <1>2, <1>5
<1>7. Typed(in, y)
  BY <1>4, <1>6 DEF Typed, Parser
<1> QED BY <1>1, <1>3, <1>6, <1>7

\* The order and the depths, when the text of the context on top has been read.
LEMMA PoppedStacked ==
  ASSUME NEW in, NEW x, Typed(in, x), Stacked(in, x), Level(in, x), Len(x.frames) > 1, Top(x).open = 0,
         NEW y, Popped(x, y)
  PROVE  Stacked(in, y) /\ Level(in, y)
<1> DEFINE n == Len(x.frames)
<1>1. /\ n \in Nat /\ n > 1 /\ Len(y.frames) = n - 1
      /\ \A k \in 1 .. n - 1 : y.frames[k] = x.frames[k]
      /\ y.ents = x.ents /\ y.sizeentcopy = x.sizeentcopy /\ y.out = x.out
  BY PoppedIs
<1>2. /\ \A k \in 1 .. n - 1 : k \in 1 .. n
      /\ \A k \in 2 .. n - 1 : k \in 2 .. n /\ k \in 1 .. n - 1 /\ k - 1 \in 1 .. n - 1
      /\ 1 \in 1 .. n - 1 /\ n - 1 \in 1 .. n - 1 /\ n \in 2 .. n /\ n \in 1 .. n
  BY <1>1
<1>3. Top(x) = x.frames[n]
  BY TopIs
<1>4. x.frames[n - 1] \in Frame /\ x.frames[n] \in Frame
  BY <1>2, TopIs
<1> HIDE DEF n
<1>5. Stacked(in, y)
  <2>1. /\ \A k \in 1 .. n : Seated(in, k, x.frames[k]) /\ x.frames[k].before <= x.sizeentcopy
        /\ \A j, k \in 1 .. n : j <= k => x.frames[j].before <= x.frames[k].before
        /\ \A k \in 2 .. n : Covered(in, x, x.frames[k])
    BY DEF Stacked, n
  <2>2. \A k \in 2 .. n - 1 : Covered(in, y, y.frames[k])
    BY <1>1, <1>2, <2>1 DEF Covered
  <2>3. \A k \in 1 .. n - 1 : Seated(in, k, y.frames[k]) /\ y.frames[k].before <= y.sizeentcopy
    BY <1>1, <1>2, <2>1
  <2>4. \A j, k \in 1 .. n - 1 : j <= k => y.frames[j].before <= y.frames[k].before
    BY <1>1, <1>2, <2>1
  <2> QED BY <1>1, <2>2, <2>3, <2>4 DEF Stacked
<1>6. ASSUME in.tree PROVE LevelTree(y)
  <2>1. Deep(x.out) = x.frames[1].elemDepth /\ \A k \in 2 .. n : Deep(x.frames[k].built) = x.frames[k].open
    BY <1>6 DEF Level, LevelTree, n
  <2> QED BY <1>1, <1>2, <2>1 DEF LevelTree
<1>7. ASSUME ~in.tree PROVE LevelFlat(y)
  <2>1. /\ Deep(x.out) = x.frames[n].elemDepth
        /\ \A k \in 2 .. n : /\ x.frames[k].elemDepth = x.frames[k - 1].elemDepth + x.frames[k].open
                             /\ x.frames[k].built = <<>>
    BY <1>7 DEF Level, LevelFlat, n
  <2>2. x.frames[n].elemDepth = x.frames[n - 1].elemDepth
    <3>1. x.frames[n].elemDepth = x.frames[n - 1].elemDepth + 0
      BY <1>2, <1>3, <2>1
    <3>2. x.frames[n - 1].elemDepth \in Int
      BY <1>4 DEF Frame
    <3> QED BY <3>1, <3>2
  <2>3. Deep(y.out) = y.frames[n - 1].elemDepth
    BY <1>1, <1>2, <2>1, <2>2
  <2>4. ASSUME NEW k \in 2 .. n - 1
        PROVE  /\ y.frames[k].elemDepth = y.frames[k - 1].elemDepth + y.frames[k].open
               /\ y.frames[k].built = <<>>
    <3>1. k \in 2 .. n /\ y.frames[k] = x.frames[k] /\ y.frames[k - 1] = x.frames[k - 1]
      BY <1>1, <1>2
    <3> QED BY <2>1, <3>1
  <2> QED BY <1>1, <2>3, <2>4 DEF LevelFlat
<1> QED BY <1>1, <1>5, <1>6, <1>7 DEF Level

\* The accounts when the text of the context on top has been read: what it has built
\* costs what was charged since it was opened, and that is left over.
LEMMA PoppedPaidTree ==
  ASSUME NEW in, InputOK(in), NEW x, Typed(in, x), Stacked(in, x), Len(x.frames) > 1,
         NEW f, f = Top(x), NEW y, Popped(x, y), PaidTree(in, x, 0),
         NEW g, g = x.sizeentcopy - f.before + SizeOf(in, f.e)
  PROVE  PaidTree(in, y, g) /\ g \in Int /\ Weight(f.built) <= g
<1> DEFINE n == Len(x.frames)
           S == x.sizeentcopy
           Z == SizeOf(in, f.e)
           L == Loaded(in, f.e)
           b == f.before
           u == Used(f)
           w == Weight(f.built)
<1>1. /\ n \in Nat /\ n > 1 /\ Len(y.frames) = n - 1
      /\ \A k \in 1 .. n - 1 : y.frames[k] = x.frames[k]
      /\ y.sizeentcopy = S /\ y.out = x.out
  BY PoppedIs
<1>2. n \in 1 .. n /\ n # 1 /\ f = x.frames[n] /\ S \in Int /\ n - 1 \in 1 .. n - 1 /\ (n - 1) + 1 = n
  BY <1>1, TopIs DEF Typed, Parser
<1>3. /\ b \in Int /\ u \in 0 .. Len(f.src) /\ Len(f.src) \in Nat /\ w \in Nat /\ Seated(in, n, f)
  <2>1. n \in 1 .. Len(x.frames)
    BY <1>2
  <2> HIDE DEF n
  <2> QED BY <1>2, <2>1, StackNumbers
<1>4. f.e \in in.declared /\ f.src = in.body[f.e]
  BY <1>2, <1>3 DEF Seated
<1>5. Z \in Nat /\ L \in Nat /\ Z + L = Len(f.src)
  BY <1>4, SizesAre
<1>6. /\ Account(in, x, n, S - 0)
      /\ \A k \in 1 .. n - 1 : Account(in, x, k, x.frames[k + 1].before - SizeOf(in, x.frames[k + 1].e))
  BY DEF PaidTree
<1>7. g = S - b + Z
  OBVIOUS
<1>8. w + L <= u - b + (S - 0)
  BY <1>2, <1>6 DEF Account
<1>9. g \in Int /\ w <= g /\ S - g = b - Z
  <2> DEFINE l == Len(f.src)
  <2>1. Z + L = l /\ u \in 0 .. l /\ l \in Nat
    BY <1>3, <1>5
  <2>2. b \in Int /\ w \in Nat /\ S \in Int
    BY <1>2, <1>3
  <2> HIDE DEF l, w, u, b, S, L, Z, n
  <2> QED BY <1>5, <1>7, <1>8, <2>1, <2>2
<1>10. Account(in, y, n - 1, S - g)
  <2> DEFINE end == b - Z
  <2>1. Account(in, x, n - 1, end)
    <3>1. Account(in, x, n - 1, x.frames[(n - 1) + 1].before - SizeOf(in, x.frames[(n - 1) + 1].e))
      BY <1>2, <1>6
    <3> QED BY <1>2, <3>1
  <2>2. y.frames[n - 1] = x.frames[n - 1] /\ y.out = x.out
    BY <1>1, <1>2
  <2> HIDE DEF end, n, S
  <2>3. Account(in, y, n - 1, end)
    BY <2>1, <2>2, SameAccount
  <2> QED BY <1>9, <2>3 DEF end
<1>11. ASSUME NEW k \in 1 .. (n - 1) - 1
       PROVE  Account(in, y, k, y.frames[k + 1].before - SizeOf(in, y.frames[k + 1].e))
  <2>1. k \in 1 .. n - 1 /\ k + 1 \in 1 .. n - 1
    BY <1>1
  <2> DEFINE end == x.frames[k + 1].before - SizeOf(in, x.frames[k + 1].e)
  <2>2. Account(in, x, k, end) /\ y.frames[k] = x.frames[k] /\ y.frames[k + 1] = x.frames[k + 1]
    BY <1>1, <1>6, <2>1
  <2> HIDE DEF end
  <2>3. Account(in, y, k, end)
    BY <1>1, <2>2, SameAccount
  <2> QED BY <2>2, <2>3 DEF end
<1>12. PaidTree(in, y, g)
  BY <1>1, <1>10, <1>11 DEF PaidTree
<1> QED BY <1>9, <1>12

\* A reserve for one context less.
Fewer(r, n) == [k \in 1 .. n - 1 |-> r[k]]

\* The account without a tree: what was put aside for the entity's text is released.
LEMMA PoppedPaidFlat ==
  ASSUME NEW in, InputOK(in), NEW x, Typed(in, x), Stacked(in, x), Len(x.frames) > 1,
         NEW y, Popped(x, y), PaidFlat(x, 0)
  PROVE  PaidFlat(y, 0)
<1> DEFINE n == Len(x.frames)
           S == x.sizeentcopy
           w == Weight(x.out)
           m == Used(x.frames[1])
           f == x.frames[n]
<1>1. /\ n \in Nat /\ n > 1 /\ Len(y.frames) = n - 1
      /\ \A k \in 1 .. n - 1 : y.frames[k] = x.frames[k]
      /\ y.sizeentcopy = S /\ y.out = x.out
  <2> HIDE DEF S, w, m, f
  <2>1. /\ n \in Nat /\ n > 1 /\ Len(y.frames) = n - 1
        /\ y.sizeentcopy = x.sizeentcopy /\ y.out = x.out
    BY PoppedIs
  <2>2. \A k \in 1 .. n - 1 : y.frames[k] = x.frames[k]
    BY PoppedIs
  <2> QED BY <2>1, <2>2 DEF S
<1>2. /\ S \in Int /\ n - 1 \in 1 .. n - 1 /\ n \in 2 .. n /\ 1 \in 1 .. n - 1 /\ n \in 1 .. n
      /\ 1 \in 1 .. n
  <2>1. S \in Int
    BY DEF Typed, Parser
  <2>2. n \in Nat /\ n > 1
    BY <1>1
  <2> HIDE DEF n
  <2> QED BY <2>1, <2>2
<1>3. PICK r : Reserve(x, r) /\ w + r[n] + 0 <= m + S
  BY DEF PaidFlat
<1>4. /\ r \in [1 .. n -> Nat] /\ r[1] = 0
      /\ \A k \in 2 .. n : r[k] = r[k - 1] + Len(x.frames[k].src) - Used(x.frames[k])
  BY <1>3 DEF Reserve
<1>5. Used(f) \in 0 .. Len(f.src) /\ Len(f.src) \in Nat
  <2>1. f = x.frames[n] /\ n \in 1 .. Len(x.frames)
    BY <1>2
  <2> HIDE DEF f, n
  <2> QED BY <2>1, StackNumbers
<1>6. r[n - 1] <= r[n] /\ r[n - 1] \in Nat /\ r[n] \in Nat
  <2>1. r[n - 1] \in Nat /\ r[n] \in Nat
    <3>1. n \in Nat /\ n > 1 /\ r \in [1 .. n -> Nat]
      BY <1>1, <1>4
    <3> HIDE DEF n
    <3>2. n - 1 \in 1 .. n /\ n \in 1 .. n
      BY <3>1
    <3> QED BY <3>1, <3>2
  <2> DEFINE a == r[n - 1]
             z == r[n]
             l == Len(f.src)
             u == Used(f)
  <2>2. z = a + l - u /\ u \in 0 .. l /\ l \in Nat /\ a \in Nat
    BY <1>2, <1>4, <1>5, <2>1
  <2> HIDE DEF a, z, l, u
  <2>3. a <= z
    BY <2>2
  <2> QED BY <2>1, <2>3 DEF a, z
<1> DEFINE q == Fewer(r, n)
<1>7. \A k \in 1 .. n - 1 : q[k] = r[k]
  BY DEF Fewer
<1>8. q \in [1 .. n - 1 -> Nat]
  BY <1>1, <1>4 DEF Fewer
<1> HIDE DEF q, f
<1>9. ASSUME NEW k \in 2 .. n - 1
      PROVE  q[k] = q[k - 1] + Len(y.frames[k].src) - Used(y.frames[k])
  <2>1. k \in 2 .. n /\ k \in 1 .. n - 1 /\ k - 1 \in 1 .. n - 1
    BY <1>1
  <2> QED BY <1>1, <1>4, <1>7, <2>1
<1>10. Reserve(y, q)
  BY <1>1, <1>2, <1>4, <1>7, <1>8, <1>9 DEF Reserve
<1>11. w + q[n - 1] + 0 <= m + S
  <2>1. w \in Int /\ m \in Int
    <3>1. x.out \in Seq(Item)
      BY DEF Typed, Parser
    <3>2. 1 \in 1 .. Len(x.frames)
      BY <1>2
    <3>3. Used(x.frames[1]) \in 0 .. Len(x.frames[1].src) /\ Len(x.frames[1].src) \in Nat
      BY <3>2, StackNumbers
    <3> QED BY <3>1, <3>3, WeightType
  <2>2. q[n - 1] = r[n - 1]
    BY <1>2, <1>7
  <2> DEFINE a == r[n - 1]
             z == r[n]
  <2>3. w + z + 0 <= m + S /\ a <= z /\ a \in Nat /\ z \in Nat
    BY <1>3, <1>6
  <2> HIDE DEF a, z, w, m, S
  <2>4. w + a + 0 <= m + S
    BY <1>2, <2>1, <2>3
  <2> QED BY <2>2, <2>4 DEF a
<1>12. y.frames[1] = x.frames[1]
  BY <1>1, <1>2
<1> QED BY <1>1, <1>10, <1>11, <1>12 DEF PaidFlat

\* An entity's text was read to its end: what is left over for what stands for the
\* reference to it.  In a tree that is what was charged since the context was opened.
LEMMA PopBooked ==
  ASSUME InputOK(input), NEW x, Booked(input, x, 0), Len(x.frames) > 1, NEW f, f = Top(x),
         f.open = 0, NEW y, Popped(x, y), NEW v \in Int, v = x.sizeentcopy - f.before + SizeOf(input, f.e),
         NEW g, g = IF input.tree THEN v ELSE 0
  PROVE  /\ Booked(input, y, g) /\ g \in Int /\ y.status = x.status /\ y.ents = x.ents
         /\ y.sizeentcopy = x.sizeentcopy
         /\ f.e \in input.declared /\ f.before <= x.sizeentcopy
         /\ \A k \in 1 .. Len(y.frames) : y.frames[k].before <= f.before
         /\ Weight(x.ents[f.e].kids) <= v
         /\ input.tree => Weight(f.built) <= v /\ Deep(f.built) = 0
         /\ ~input.tree => f.built = <<>> /\ x.ents[f.e].kids = <<>>
         /\ f.turn = "first" /\ f.was => input.noEnt
<1> DEFINE n == Len(x.frames)
<1>1. /\ Typed(input, x) /\ Stacked(input, x) /\ Known(input, x) /\ Level(input, x)
      /\ Paid(input, x, 0)
  BY DEF Booked
<1>2. /\ n \in Nat /\ n > 1 /\ Len(y.frames) = n - 1 /\ Typed(input, y)
      /\ \A k \in 1 .. n - 1 : y.frames[k] = x.frames[k]
      /\ y.sizeentcopy = x.sizeentcopy /\ y.out = x.out /\ y.ents = x.ents /\ y.status = x.status
  BY <1>1, PoppedIs
<1>3. n \in 1 .. n /\ n \in 2 .. n /\ n # 1 /\ f = x.frames[n]
  <2>1. f = x.frames[n]
    BY <1>1, TopIs
  <2>2. n \in Nat /\ n > 1
    BY <1>2
  <2> HIDE DEF n
  <2> QED BY <2>1, <2>2
<1>4. Stacked(input, y) /\ Level(input, y)
  BY <1>1, PoppedStacked
<1>5. Known(input, y)
  BY <1>1, <1>2 DEF Known
<1> HIDE DEF n
<1>6. Seated(input, n, f) /\ f.before <= x.sizeentcopy /\ Covered(input, x, f)
  BY <1>1, <1>3 DEF Stacked, n
<1>7. f.e \in input.declared
  BY <1>3, <1>6 DEF Seated
<1>8. ASSUME NEW k \in 1 .. n - 1 PROVE y.frames[k].before <= f.before
  <2>1. k \in 1 .. n /\ k <= n
    BY <1>2
  <2>2. x.frames[k].before <= x.frames[n].before
    BY <1>1, <1>3, <2>1 DEF Stacked, n
  <2> QED BY <1>2, <1>3, <2>2
<1>9. CASE input.tree
  <2>1. PaidTree(input, x, 0)
    BY <1>1, <1>9 DEF Paid
  <2>2. PaidTree(input, y, v) /\ v \in Int /\ Weight(f.built) <= v
    BY <1>1, <2>1, PoppedPaidTree
  <2>3. Deep(f.built) = f.open
    BY <1>1, <1>3, <1>9 DEF Level, LevelTree, n
  <2>4. g = v
    BY <1>9
  <2>5. Booked(input, y, g)
    BY <1>2, <1>4, <1>5, <1>9, <2>2, <2>4 DEF Booked, Paid
  <2> QED BY <1>2, <1>6, <1>7, <1>8, <1>9, <2>2, <2>3, <2>4, <2>5 DEF Covered, Seated
<1>10. CASE ~input.tree
  <2>1. ~input.noEnt => PaidFlat(y, 0)
    BY <1>1, <1>10, PoppedPaidFlat DEF Paid
  <2>2. f.built = <<>>
    BY <1>1, <1>3, <1>10 DEF Level, LevelFlat, n
  <2>3. x.ents[f.e].kids = <<>>
    BY <1>1, <1>7, <1>10 DEF Known, Stored
  <2>4. g = 0
    BY <1>10
  <2>5. Booked(input, y, g)
    BY <1>2, <1>4, <1>5, <1>10, <2>1, <2>4 DEF Booked, Paid
  <2> QED BY <1>2, <1>6, <1>7, <1>8, <1>10, <2>2, <2>3, <2>4, <2>5 DEF Covered, Seated
<1> QED BY <1>9, <1>10

-----------------------------------------------------------------------------
(***************************************************************************)
(* The books over a step.                                                  *)
(***************************************************************************)
\* A context one item further counts the item.
LEMMA StepUsed ==
  ASSUME NEW f \in Frame, NEW item, item = f.src[f.pos], NEW k, Seated(input, k, f),
         f.pos <= Len(f.src), NEW d \in Int, NEW b \in Frame, Similar(f, b), f.open + d >= 0,
         NEW c, c = Step(b, d)
  PROVE  /\ Used(c) = Used(f) + Counts(item) /\ Alike(f, c) /\ c \in Frame /\ c.built = b.built
         /\ c.elemDepth = f.elemDepth + d /\ c.open = f.open + d
<1>1. /\ f.pos \in Nat /\ f.open \in Int /\ f.elemDepth \in Int /\ Len(f.src) \in Nat /\ f.pos >= 1
  BY FrameNumbers
<1>2. b.pos + 1 \in Nat /\ b.elemDepth + d \in Int /\ b.open + d \in Int
  <2>1. b.pos \in Nat /\ b.elemDepth \in Int /\ b.open \in Int
    BY DEF Frame
  <2> QED BY <2>1
<1>3. /\ c \in Frame /\ c.e = b.e /\ c.src = b.src /\ c.turn = b.turn /\ c.was = b.was
      /\ c.before = b.before /\ c.built = b.built /\ c.pos = b.pos + 1
      /\ c.elemDepth = b.elemDepth + d /\ c.open = b.open + d
  BY <1>2 DEF Step, Frame
<1>4. /\ b.e = f.e /\ b.src = f.src /\ b.turn = f.turn /\ b.was = f.was /\ b.before = f.before
      /\ b.pos = f.pos /\ b.elemDepth = f.elemDepth /\ b.open = f.open
  BY DEF Similar
<1>5. c.pos \in 1 .. Len(c.src) + 1 /\ c.pos = f.pos + 1
  BY <1>1, <1>3, <1>4
<1>6. Alike(f, c)
  BY <1>3, <1>4, <1>5 DEF Alike
<1> DEFINE j == f.pos - 1
<1>7. j \in Nat /\ f.pos = j + 1 /\ c.pos - 1 = j + 1
  BY <1>1, <1>5
<1> HIDE DEF j
<1>8. Marks(f.src, j + 1) = Marks(f.src, j) + Counts(f.src[j + 1])
  BY <1>7, MarkStep
<1>9. Used(f) = Marks(f.src, j) /\ Used(c) = Marks(f.src, j + 1)
  BY <1>3, <1>4, <1>7 DEF Used, j
<1> QED BY <1>3, <1>4, <1>6, <1>7, <1>8, <1>9

\* An item that the handler is told, and that moves the context on.
LEMMA ReadBooked ==
  ASSUME InputOK(input), NEW x, Booked(input, x, 0), NEW f, f = Top(x), f.pos <= Len(f.src),
         NEW item, item = f.src[f.pos], item.t # "ref", NEW d \in Int, d = Up(item), f.open + d >= 0,
         item.t = "start" => f.elemDepth + 1 <= MaxElemDepth,
         NEW z, z = Deliver(x, <<item>>), NEW y, y = SetTop(z, Step(Top(z), d))
  PROVE  Booked(input, y, 0)
<1> DEFINE n == Len(x.frames)
           b == Top(z)
           c == Step(b, d)
           items == <<item>>
<1>1. Typed(input, x) /\ Stacked(input, x)
  BY DEF Booked
<1>2. f \in Frame /\ f = x.frames[n] /\ n \in Nat \ {0} /\ n \in 1 .. n
  BY <1>1, TopIs
<1>3. Seated(input, n, f)
  BY <1>1, <1>2 DEF Stacked
<1>4. f.pos \in Nat /\ f.pos >= 1 /\ f.elemDepth \in Int /\ f.open \in Int /\ f.src \in Seq(Item)
      /\ Used(f) \in 0 .. Len(f.src) /\ Len(f.src) \in Nat
  <2> HIDE DEF n
  <2>1. /\ f.pos \in Nat /\ f.pos >= 1 /\ f.open \in Nat /\ f.elemDepth \in Int
        /\ f.src \in Seq(Item) /\ Used(f) \in 0 .. Len(f.src) /\ Len(f.src) \in Nat
    BY <1>2, <1>3, FrameNumbers
  <2> QED BY <2>1
<1>5. item \in Item
  BY <1>4, ElementOfSeq
<1>6. /\ items \in Seq(Item) /\ Weight(items) = Counts(item) /\ Deep(items) = d
      /\ \A m \in Int : (item.t = "start" => 1 <= m) => High(items, m)
  BY <1>5, OneItem
<1>7. z = Deliver(x, items)
  OBVIOUS
<1> HIDE DEF items
<1>8. /\ Typed(input, z) /\ Filled(f, b) /\ Turned(x, z, b) /\ Given(input, x, z, f, b, items)
  BY <1>1, <1>6, <1>7, DeliverGives
<1> HIDE DEF n, b
<1>9. b \in Frame /\ Similar(f, b)
  BY <1>8 DEF Filled
<1>10. /\ Used(c) = Used(f) + Counts(item) /\ Alike(f, c) /\ c \in Frame /\ c.built = b.built
       /\ c.elemDepth = f.elemDepth + d /\ c.open = f.open + d
  <2>1. c = Step(b, d) /\ f \in Frame
    BY <1>2
  <2> HIDE DEF c
  <2> QED BY <1>3, <1>9, <2>1, StepUsed
<1>11. y = SetTop(z, c)
  BY DEF b
<1> HIDE DEF c
<1>12. Typed(input, y) /\ SameRest(z, y) /\ Swapped(z.frames, y.frames, c)
  BY <1>8, <1>10, <1>11, SetTopIs
<1>13. Turned(x, y, c)
  <2> DEFINE s == x.frames
             t == z.frames
             r == y.frames
             m == Len(s)
  <2>1. Swapped(s, t, b) /\ Swapped(t, r, c)
    BY <1>8, <1>12 DEF Turned
  <2> HIDE DEF s, t, r
  <2>2. Len(r) = m /\ r[m] = c
    BY <2>1 DEF Swapped
  <2>3. \A i \in 1 .. m - 1 : r[i] = s[i]
    BY <2>1 DEF Swapped
  <2>4. Swapped(s, r, c)
    BY <2>2, <2>3 DEF Swapped
  <2> QED BY <1>8, <1>12, <2>4 DEF Turned, SameRest, s, r
<1>14. Added(input, x, y, f, c, items)
  BY <1>6, <1>8, <1>10, <1>12 DEF Added, Given, SameRest
<1>15. High(items, MaxElemDepth - f.elemDepth)
  <2>1. MaxElemDepth - f.elemDepth \in Int /\ (item.t = "start" => 1 <= MaxElemDepth - f.elemDepth)
    BY <1>4, BoundsAssumption
  <2> QED BY <1>6, <2>1
<1>16. 0 = 0 - Weight(items) + Used(c) - Used(f) /\ 0 \in Int
  <2>1. Counts(item) \in Int
    BY DEF Counts
  <2> DEFINE u == Used(f)
  <2>2. u \in Int /\ Used(c) = u + Counts(item)
    BY <1>4, <1>10
  <2> HIDE DEF u
  <2> QED BY <1>6, <2>1, <2>2 DEF u
<1> QED BY <1>6, <1>10, <1>12, <1>13, <1>14, <1>15, <1>16, AddedBooked

\* The context moves on over a reference, which counts nothing.
LEMMA PassBooked ==
  ASSUME InputOK(input), NEW x, Booked(input, x, 0), NEW f, f = Top(x), f.pos <= Len(f.src),
         f.src[f.pos].t = "ref", NEW y, y = Advance(x)
  PROVE  /\ Booked(input, y, 0) /\ y.status = x.status /\ f.src[f.pos].e \in Entities
<1> DEFINE n == Len(x.frames)
           c == Step(f, 0)
<1>1. Typed(input, x) /\ Stacked(input, x)
  BY DEF Booked
<1>2. f \in Frame /\ f = x.frames[n] /\ n \in Nat \ {0} /\ n \in 1 .. n
  BY <1>1, TopIs
<1>3. Seated(input, n, f)
  BY <1>1, <1>2 DEF Stacked
<1>4. f.pos \in Nat /\ f.pos >= 1 /\ f.elemDepth \in Int /\ f.open \in Nat /\ f.src \in Seq(Item)
      /\ Used(f) \in 0 .. Len(f.src) /\ Len(f.src) \in Nat /\ f.built \in Seq(Item)
  BY <1>2, <1>3, FrameNumbers
<1>5. f.src[f.pos] \in Item
  BY <1>4, ElementOfSeq
<1>6. f.src[f.pos].e \in Entities
  BY <1>5 DEF Item
<1>7. Similar(f, f) /\ f.open + 0 >= 0 /\ f.open + 0 = f.open /\ f.elemDepth + 0 = f.elemDepth
  BY <1>4 DEF Similar
<1> HIDE DEF n
<1>8. /\ Used(c) = Used(f) + Counts(f.src[f.pos]) /\ Alike(f, c) /\ c \in Frame /\ c.built = f.built
      /\ c.elemDepth = f.elemDepth + 0 /\ c.open = f.open + 0
  BY <1>2, <1>3, <1>7, StepUsed
<1>9. y = SetTop(x, c)
  <2>1. c = [f EXCEPT !.pos = @ + 1]
    <3> HIDE DEF n
    <3>1. f.elemDepth + 0 = f.elemDepth /\ f.open + 0 = f.open
      BY <1>7
    <3> QED BY <1>2, <3>1 DEF Step, Frame
  <2> QED BY <2>1 DEF Advance
<1> HIDE DEF c
<1>10. Typed(input, y) /\ SameRest(x, y) /\ Swapped(x.frames, y.frames, c)
  BY <1>1, <1>8, <1>9, SetTopIs
<1>11. Turned(x, y, c)
  BY <1>10 DEF Turned, SameRest
<1> DEFINE items == <<>>
<1>12. items \in Seq(Item) /\ Weight(items) = 0 /\ Deep(items) = 0 /\ \A m : High(items, m)
  BY <1>5, OneItem, EmptySeq
<1>13. f.built \o items = f.built /\ x.out \o items = x.out
  <2>1. x.out \in Seq(Item)
    BY <1>1 DEF Typed, Parser
  <2> QED BY <1>4, <2>1, ConcatEmptySeq
<1> HIDE DEF items
<1>14. Added(input, x, y, f, c, items)
  BY <1>8, <1>10, <1>12, <1>13 DEF Added, Given, SameRest
<1>15. 0 = 0 - Weight(items) + Used(c) - Used(f) /\ 0 \in Int
  <2>1. Counts(f.src[f.pos]) = 0
    BY DEF Counts
  <2> DEFINE u == Used(f)
  <2>2. u \in Int /\ Used(c) = u + 0
    BY <1>4, <1>8, <2>1
  <2> HIDE DEF u
  <2> QED BY <1>12, <2>2 DEF u
<1>16. Booked(input, y, 0)
  BY <1>8, <1>10, <1>11, <1>12, <1>14, <1>15, AddedBooked
<1> QED BY <1>6, <1>10, <1>16 DEF SameRest

\* The context on top after Advance.
LEMMA AdvancedTop ==
  ASSUME NEW in, NEW z, Typed(in, z), NEW x, x = Advance(z)
  PROVE  Top(x) \in Frame
<1> DEFINE h == Top(z)
           g == [h EXCEPT !.pos = @ + 1]
<1>1. h \in Frame
  BY TopIs
<1>2. x = SetTop(z, g)
  BY DEF Advance
<1> HIDE DEF h
<1>3. h.pos + 1 \in Nat
  BY <1>1 DEF Frame
<1>4. g \in Frame
  BY <1>1, <1>3 DEF Frame
<1> HIDE DEF g
<1> QED BY <1>2, <1>4, SetTopIs

\* parseReference for an entity that is declared: what is told or kept was charged.
LEMMA ExpandBooked ==
  ASSUME InputOK(input), NEW x, Booked(input, x, 0), x.status = "running",
         NEW e \in input.declared, NEW y, y = Expand(x, e)
  PROVE  Booked(input, y, 0)
<1> DEFINE z == entityCheck(x, e, ContentLen(e))
           was == x.ents[e].checked
           parses == /\ ~was \/ (x.ents[e].kids = <<>> /\ input.noEnt)
                     /\ ~External(e) \/ input.noEnt \/ input.dtdValid
<1>1. Typed(input, x) /\ x.ents[e] \in Entity /\ Stored(input, e, x.ents[e])
  BY DEF Booked, Typed, Parser, Known
<1>2. was \in BOOLEAN /\ x.ents[e].kids \in Seq(Item)
  BY <1>1 DEF Entity
<1>3. Charged(x, z) /\ z.ents = x.ents
  BY CheckBooked DEF Charged
<1>4. PICK g \in Nat : Booked(input, z, g) /\ SizeOf(input, e) <= g /\ Weight(x.ents[e].kids) <= g
  BY CheckBooked
<1>5. g \in Int /\ 0 \in Int /\ 0 <= g
  BY <1>4
<1>6. CASE z.status # "running"
  <2>1. y = z
    BY <1>6 DEF Expand, Then
  <2> HIDE DEF z
  <2> QED BY <1>4, <1>5, <2>1, LessBooked
<1>7. CASE z.status = "running"
  <2>1. y = CASE parses /\ ~Blocked(e) -> OpenChunk(z, e, "first", was)
              [] parses /\ Blocked(e)  -> ShowOrParse(Keep(z, e, z.sizeentcopy, <<>>), e, was)
              [] OTHER                 -> ShowOrParse(z, e, was)
    BY <1>7 DEF Expand, Then
  <2> HIDE DEF z
  <2>2. CASE parses /\ ~Blocked(e)
    <3>1. y = OpenChunk(z, e, "first", was)
      BY <2>1, <2>2
    <3>2. z.ents[e].kids = <<>> /\ (was => input.noEnt)
      BY <1>1, <1>3, <2>2 DEF Stored
    <3> HIDE DEF was, parses
    <3> QED BY <1>2, <1>4, <1>5, <1>7, <3>1, <3>2, OpenChunkBooked
  <2>3. CASE parses /\ Blocked(e)
    <3> DEFINE k == Keep(z, e, z.sizeentcopy, <<>>)
               v == Keeping(z, e, <<>>)
    <3>1. y = ShowOrParse(k, e, was)
      BY <2>1, <2>3
    <3>2. v = x.ents[e].kids
      BY <1>3 DEF Keeping
    <3>3. v = <<>>
      BY <1>1, <2>3, <3>2 DEF Stored
    <3>4. Weight(v) = 0 /\ Deep(v) = 0 /\ <<>> \in Seq(Item)
      <4>1. [t |-> "text", e |-> NoEntity] \in Item
        BY DEF Item
      <4> QED BY <3>3, <4>1, OneItem, EmptySeq
    <3> DEFINE b == z.sizeentcopy
    <3>5. b \in Int /\ b <= b /\ SizeOf(input, e) \in Nat
      BY <1>4, SizesAre DEF Booked, Typed, Parser
    <3>6. \A j \in 1 .. Len(z.frames) : z.frames[j].before <= b
      BY <1>4 DEF Booked, Stacked
    <3>7. Weight(v) <= b - b + SizeOf(input, e)
      <4> HIDE DEF b, v
      <4> QED BY <3>4, <3>5
    <3>8. k = Keep(z, e, b, <<>>) /\ v = Keeping(z, e, <<>>) /\ b <= z.sizeentcopy
          /\ Weight(v) <= z.sizeentcopy - b + SizeOf(input, e)
      BY <3>5, <3>7
    <3> DEFINE none == <<>>
    <3>9. none \in Seq(Item) /\ k = Keep(z, e, b, none) /\ v = Keeping(z, e, none)
      BY <3>4, <3>8
    <3>10. ~input.tree => v = <<>>
      BY <3>3
    <3> HIDE DEF k, v, b, was, parses, none
    <3>11. Booked(input, k, g) /\ k.ents[e].kids = v /\ k.status = z.status
      <4>1. b \in Int /\ b <= z.sizeentcopy /\ Deep(v) = 0
            /\ Weight(v) <= z.sizeentcopy - b + SizeOf(input, e)
        BY <3>4, <3>5, <3>8
      <4> QED BY <1>4, <1>5, <3>9, <3>10, <3>6, <4>1, KeepBooked
    <3>12. Weight(k.ents[e].kids) <= g
      BY <1>5, <3>4, <3>11
    <3> QED BY <1>2, <1>4, <1>5, <1>7, <3>1, <3>11, <3>12, ShowOrParseBooked
  <2>4. CASE ~parses
    <3>1. y = ShowOrParse(z, e, was)
      BY <2>1, <2>4
    <3>2. Weight(z.ents[e].kids) <= g
      BY <1>3, <1>4
    <3> HIDE DEF was, parses
    <3> QED BY <1>2, <1>4, <1>5, <1>7, <3>1, <3>2, ShowOrParseBooked
  <2> QED BY <2>2, <2>3, <2>4
<1> QED BY <1>6, <1>7

\* A reference to an entity that is not declared is told as it is, and costs something.
LEMMA UndeclaredBooked ==
  ASSUME InputOK(input), NEW x, Booked(input, x, 0), NEW e \in Entities, e \notin input.declared,
         NEW y, y = Undeclared(x, e)
  PROVE  Booked(input, y, 0)
<1>0. 0 \in Int /\ Typed(input, x)
  BY DEF Booked
<1>1. CASE ~input.lenient
  <2>1. y = Fail(x, "undeclared") /\ "undeclared" \in Outcomes
    BY <1>1 DEF Undeclared, Outcomes
  <2> QED BY <1>0, <2>1, FailBooked
<1>2. CASE input.lenient
  <2> DEFINE item == Reference(e)
             items == <<item>>
             z == Deliver(x, items)
  <2>1. y = entityCheck(z, NoEntity, 0)
    BY <1>2 DEF Undeclared
  <2>2. item \in Item /\ item.t = "ref"
    BY DEF Item, Reference
  <2>3. item.t # "start" /\ Counts(item) = 0 /\ Up(item) = 0
    BY <2>2 DEF Counts, Up
  <2> HIDE DEF item
  <2>4. items \in Seq(Item) /\ Weight(items) = 0 /\ Deep(items) = 0
        /\ \A m \in Int : High(items, m)
    BY <2>2, <2>3, OneItem
  <2>5. MaxElemDepth - Top(x).elemDepth \in Int
    <3>1. Top(x).elemDepth \in Int
      BY <1>0, TopIs DEF Frame
    <3> QED BY <3>1, BoundsAssumption
  <2>6. z = Deliver(x, items)
    OBVIOUS
  <2> HIDE DEF items, z
  <2>7. Booked(input, z, 0 - Weight(items)) /\ z.ents = x.ents
    BY <1>0, <2>4, <2>5, <2>6, DeliverBooked
  <2>8. Booked(input, z, 0)
    BY <2>4, <2>7
  <2>9. NoEntity \notin DOMAIN z.ents /\ z.sizeentcopy \in Int
    <3>1. z.ents \in [input.declared -> Entity] /\ z.sizeentcopy \in Int
      BY <2>8 DEF Booked, Typed, Parser
    <3>2. NoEntity \notin input.declared
      BY BoundsAssumption DEF InputOK
    <3> QED BY <3>1, <3>2
  <2>10. y = Charge(z, z.sizeentcopy + FixedCost + 0)
    BY <2>1, <2>9 DEF entityCheck, Charge
  <2>11. z.sizeentcopy + FixedCost + 0 = z.sizeentcopy + FixedCost /\ FixedCost \in Nat
    BY <2>9, BoundsAssumption
  <2>12. y = Charge(z, z.sizeentcopy + FixedCost)
    BY <2>10, <2>11
  <2>13. Booked(input, y, 0 + FixedCost)
    BY <1>0, <2>8, <2>11, <2>12, ChargeBooked
  <2>14. 0 + FixedCost \in Int /\ 0 <= 0 + FixedCost
    BY <2>11
  <2> QED BY <1>0, <2>13, <2>14, LessBooked
<1> QED BY <1>1, <1>2

\* The end of a text: what the entity keeps, and what is told for the reference to it,
\* was charged since its context was opened.
LEMMA CloseChunkBooked ==
  ASSUME InputOK(input), NEW x, Booked(input, x, 0), x.status = "running", NEW y, y = CloseChunk(x)
  PROVE  Booked(input, y, 0)
<1> DEFINE f == Top(x)
           n == Len(x.frames)
           z == [x EXCEPT !.frames = Front(@)]
           leftover == f.pos <= Len(f.src) /\ ~External(f.e)
<1>1. /\ Typed(input, x) /\ Stacked(input, x) /\ f \in Frame /\ f = x.frames[n]
      /\ n \in Nat \ {0} /\ n \in 1 .. n /\ 0 \in Int
  <2>1. Typed(input, x) /\ Stacked(input, x)
    BY DEF Booked
  <2> QED BY <2>1, TopIs
<1>2. Seated(input, n, f)
  BY <1>1 DEF Stacked
<1>3. CASE f.open > 0 \/ leftover
  <2>1. y = Fail(x, "unbalanced") /\ "unbalanced" \in Outcomes
    BY <1>3 DEF CloseChunk, Outcomes
  <2> QED BY <1>1, <2>1, FailBooked
<1>4. CASE ~(f.open > 0 \/ leftover) /\ f.e = NoEntity
  <2>1. y = Fail(x, "done") /\ "done" \in Outcomes
    BY <1>4 DEF CloseChunk, Outcomes
  <2> QED BY <1>1, <2>1, FailBooked
<1>5. CASE ~(f.open > 0 \/ leftover) /\ f.e # NoEntity
  <2>1. y = IF f.turn = "again" THEN Show(z, f.e)
            ELSE ShowOrParse(Keep(z, f.e, f.before, f.built), f.e, f.was)
    BY <1>5 DEF CloseChunk
  <2>2. n > 1
    <3>1. n # 1
      BY <1>2, <1>5 DEF Seated
    <3> HIDE DEF n
    <3> QED BY <1>1, <3>1
  <2>3. f.open = 0
    <3>1. f.open \in Nat
      <4> HIDE DEF f, n
      <4> QED BY <1>1, <1>2, FrameNumbers
    <3> QED BY <1>5, <3>1
  <2>4. Popped(x, z)
    BY DEF Popped
  <2> DEFINE v == x.sizeentcopy - f.before + SizeOf(input, f.e)
             g == IF input.tree THEN v ELSE 0
  <2>5. /\ f.before \in Int /\ f.built \in Seq(Item) /\ f.was \in BOOLEAN /\ x.sizeentcopy \in Int
        /\ f.turn \in {"first", "again"}
    BY <1>1 DEF Frame, Typed, Parser
  <2>6. f.e \in input.declared
    <3> HIDE DEF n
    <3>1. n # 1
      BY <1>1, <2>2
    <3> QED BY <1>2, <3>1 DEF Seated
  <2>7. SizeOf(input, f.e) \in Nat
    BY <2>6, SizesAre
  <2>8. v \in Int
    <3> HIDE DEF f
    <3> QED BY <2>5, <2>7
  <2>9. f = Top(x) /\ v = x.sizeentcopy - f.before + SizeOf(input, f.e) /\ g = IF input.tree THEN v ELSE 0
    OBVIOUS
  <2> HIDE DEF z, f, v, g
  <2>10. /\ Booked(input, z, g) /\ g \in Int /\ z.status = x.status /\ z.ents = x.ents
         /\ z.sizeentcopy = x.sizeentcopy /\ f.before <= x.sizeentcopy
         /\ \A k \in 1 .. Len(z.frames) : z.frames[k].before <= f.before
         /\ Weight(x.ents[f.e].kids) <= v
         /\ input.tree => Weight(f.built) <= v /\ Deep(f.built) = 0
         /\ ~input.tree => f.built = <<>> /\ x.ents[f.e].kids = <<>>
         /\ f.turn = "first" /\ f.was => input.noEnt
    BY <2>2, <2>3, <2>4, <2>8, <2>9, PopBooked DEF n
  <2>11. Weight(<<>>) = 0 /\ Deep(<<>>) = 0
    <3>1. [t |-> "text", e |-> NoEntity] \in Item
      BY DEF Item
    <3> QED BY <3>1, OneItem
  <2>12. Weight(z.ents[f.e].kids) <= g
    <3>1. CASE input.tree
      BY <2>9, <2>10, <3>1
    <3>2. CASE ~input.tree
      BY <2>9, <2>10, <2>11, <3>2
    <3> QED BY <3>1, <3>2
  <2>13. CASE f.turn = "again"
    <3>1. y = Show(z, f.e)
      BY <2>1, <2>13
    <3> QED BY <2>6, <2>10, <2>12, <3>1, ShowBooked
  <2>14. CASE f.turn # "again"
    <3> DEFINE k == Keep(z, f.e, f.before, f.built)
               w == Keeping(z, f.e, f.built)
    <3>1. y = ShowOrParse(k, f.e, f.was) /\ f.turn = "first"
      BY <2>1, <2>5, <2>14
    <3>2. w \in {f.built, x.ents[f.e].kids}
      BY <2>10 DEF Keeping
    <3>3. Deep(w) = 0 /\ (~input.tree => w = <<>>)
      <4>1. Deep(x.ents[f.e].kids) = 0
        BY <2>6 DEF Booked, Known, Stored
      <4> QED BY <2>10, <2>11, <3>2, <4>1
    <3>4. Weight(w) <= v
      <4>1. CASE input.tree
        BY <2>10, <3>2, <4>1
      <4>2. CASE ~input.tree
        BY <2>10, <3>3, <4>2
      <4> QED BY <4>1, <4>2
    <3>5. k = Keep(z, f.e, f.before, f.built) /\ w = Keeping(z, f.e, f.built)
          /\ Weight(w) <= z.sizeentcopy - f.before + SizeOf(input, f.e) /\ f.before <= z.sizeentcopy
      BY <2>9, <2>10, <3>4
    <3> HIDE DEF k, w
    <3> DEFINE b == f.before
               kids == f.built
    <3>6. /\ k = Keep(z, f.e, b, kids) /\ w = Keeping(z, f.e, kids) /\ b \in Int
          /\ kids \in Seq(Item) /\ Booked(input, z, g) /\ g \in Int /\ b <= z.sizeentcopy
          /\ Weight(w) <= z.sizeentcopy - b + SizeOf(input, f.e)
      BY <2>5, <2>10, <3>5
    <3>7. \A j \in 1 .. Len(z.frames) : z.frames[j].before <= b
      BY <2>10
    <3> HIDE DEF b, kids
    <3>8. Booked(input, k, g) /\ k.ents[f.e].kids = w /\ k.status = z.status
      BY <2>6, <3>3, <3>6, <3>7, KeepBooked
    <3>9. CASE input.tree
      <4>1. g = v
        BY <2>9, <3>9
      <4>2. SizeOf(input, f.e) <= g
        BY <2>5, <2>7, <2>9, <2>10, <4>1
      <4> QED BY <2>5, <2>6, <2>10, <3>1, <3>4, <3>8, <4>1, <4>2, ShowOrParseBooked
    <3>10. CASE ~input.tree
      <4>1. Weight(k.ents[f.e].kids) = 0
        BY <2>11, <3>3, <3>8, <3>10
      <4>2. CASE f.was
        <5>1. input.noEnt
          BY <2>10, <3>1, <4>2
        <5> DEFINE h == SizeOf(input, f.e)
        <5>2. Booked(input, k, h) /\ h \in Int /\ h \in Nat
          BY <2>7, <3>8, <3>10, <5>1, NoAccount
        <5>3. h = SizeOf(input, f.e) /\ h <= h
          BY <2>7
        <5> HIDE DEF h
        <5>4. Weight(k.ents[f.e].kids) <= h /\ SizeOf(input, f.e) <= h
          BY <4>1, <5>2, <5>3
        <5> QED BY <2>5, <2>6, <2>10, <3>1, <3>8, <5>2, <5>4, ShowOrParseBooked
      <4>3. CASE ~f.was
        <5>1. g = 0
          BY <2>9, <3>10
        <5>2. Weight(k.ents[f.e].kids) <= g
          BY <4>1, <5>1
        <5> QED BY <2>5, <2>6, <2>10, <3>1, <3>8, <4>3, <5>2, ShowOrParseBooked
      <4> QED BY <4>2, <4>3
    <3> QED BY <3>9, <3>10
  <2> QED BY <2>13, <2>14
<1> QED BY <1>3, <1>4, <1>5

\* Every step keeps the books.
LEMMA StepBooked ==
  ASSUME InputOK(input), Booked(input, p, 0), Next
  PROVE  Booked(input, p', 0) /\ input' = input
<1> DEFINE f == Top(p)
           item == NextItem(p)
           z == Deliver(p, <<item>>)
           n == Len(p.frames)
<1>1. p.status = "running" /\ input' = input
  BY DEF Next, ReadText, ReadStart, ReadEnd, ReadReference, EndContent, Stop, Reads
<1> SUFFICES Booked(input, p', 0)
  BY <1>1
<1>2. Typed(input, p) /\ Stacked(input, p) /\ 0 \in Int
  BY DEF Booked
<1>3. f \in Frame /\ f = p.frames[n] /\ n \in 1 .. n
  BY <1>2, TopIs
<1>4. Seated(input, n, f)
  BY <1>2, <1>3 DEF Stacked
<1>5. f.pos \in Nat /\ f.pos >= 1 /\ f.open \in Nat /\ f.elemDepth \in Int
  <2> HIDE DEF f, n
  <2> QED BY <1>3, <1>4, FrameNumbers
<1>6. /\ Upcoming = "nothing" => AtEnd(f)
      /\ Upcoming # "nothing" => /\ f.pos <= Len(f.src) /\ f.src[f.pos].t = Upcoming
                                 /\ Upcoming = "end" => f.open # 0
      /\ item = f.src[f.pos]
  BY <1>3, <1>5, UpcomingIs
<1>7. ASSUME Upcoming \in {"text", "start", "end"}
      PROVE  Typed(input, z)
  <2>1. f.src[f.pos] \in Item
    BY <1>3, <1>5, <1>6, <1>7, ElementOfSeq DEF Frame
  <2>2. <<item>> \in Seq(Item)
    BY <1>6, <2>1
  <2> DEFINE items == <<item>>
  <2>3. z = Deliver(p, items) /\ items \in Seq(Item)
    BY <2>2
  <2> HIDE DEF items
  <2> QED BY <1>2, <2>3, DeliverIs
<1>8. ASSUME Upcoming \in {"text", "start", "end"}, NEW d \in Int, d = Up(item), f.open + d >= 0,
             Upcoming = "start" => f.elemDepth + 1 <= MaxElemDepth,
             p' = SetTop(z, Step(Top(z), d))
      PROVE  Booked(input, p', 0)
  <2>1. item.t # "ref" /\ (item.t = "start" => f.elemDepth + 1 <= MaxElemDepth) /\ f.pos <= Len(f.src)
    BY <1>6, <1>8
  <2>2. f = Top(p) /\ item = f.src[f.pos] /\ z = Deliver(p, <<item>>)
    BY <1>6
  <2> HIDE DEF f, item, z
  <2> QED BY <1>8, <2>1, <2>2, ReadBooked
<1>9. CASE ReadText
  <2>1. Upcoming = "text" /\ p' = Advance(z)
    BY <1>9 DEF ReadText, Reads
  <2>2. Up(item) = 0 /\ f.open + 0 >= 0
    BY <1>5, <1>6, <2>1 DEF Up
  <2>3. Advance(z) = SetTop(z, Step(Top(z), 0))
    <3> DEFINE b == Top(z)
    <3>1. b \in Frame
      BY <1>7, <2>1, TopIs
    <3> HIDE DEF b
    <3>2. b.elemDepth + 0 = b.elemDepth /\ b.open + 0 = b.open
      BY <3>1 DEF Frame
    <3>3. Step(b, 0) = [b EXCEPT !.pos = @ + 1]
      BY <3>1, <3>2 DEF Step, Frame
    <3> QED BY <3>3 DEF Advance, b
  <2> HIDE DEF z, f, item
  <2> QED BY <1>8, <2>1, <2>2, <2>3
<1>10. CASE ReadStart
  <2>1. Upcoming = "start"
    BY <1>10 DEF ReadStart, Reads
  <2>2. CASE f.elemDepth + 1 > MaxElemDepth
    <3>1. p' = Fail(p, "depth") /\ "depth" \in Outcomes
      BY <1>10, <2>2 DEF ReadStart, Outcomes
    <3> QED BY <1>2, <3>1, FailBooked
  <2>3. CASE ~(f.elemDepth + 1 > MaxElemDepth)
    <3> DEFINE x == Advance(z)
    <3>1. p' = SetTop(x, [Top(x) EXCEPT !.elemDepth = @ + 1, !.open = @ + 1])
      BY <1>10, <2>3 DEF ReadStart
    <3>2. p' = SetTop(z, Step(Top(z), 1))
      <4>1. x = Advance(z) /\ 1 \in Int
        OBVIOUS
      <4> HIDE DEF x, z
      <4> QED BY <1>7, <2>1, <3>1, <4>1, AdvanceStep
    <3>3. Up(item) = 1
      BY <1>6, <2>1 DEF Up
    <3>4. f.open + 1 >= 0 /\ f.elemDepth + 1 <= MaxElemDepth
      <4> HIDE DEF f
      <4> QED BY <1>5, <2>3, BoundsAssumption
    <3> HIDE DEF z, f, item
    <3> QED BY <1>8, <2>1, <3>2, <3>3, <3>4
  <2> QED BY <2>2, <2>3
<1>11. CASE ReadEnd
  <2>1. Upcoming = "end"
    BY <1>11 DEF ReadEnd, Reads
  <2> DEFINE x == Advance(z)
  <2>2. p' = SetTop(x, [Top(x) EXCEPT !.elemDepth = @ - 1, !.open = @ - 1])
    BY <1>11 DEF ReadEnd
  <2>3. p' = SetTop(z, Step(Top(z), -1))
    <3>1. x = Advance(z) /\ -1 \in Int
      OBVIOUS
    <3>2. Typed(input, z)
      BY <1>7, <2>1
    <3> HIDE DEF x, z
    <3>3. SetTop(x, [Top(x) EXCEPT !.elemDepth = @ + -1, !.open = @ + -1]) = SetTop(z, Step(Top(z), -1))
      BY <3>1, <3>2, AdvanceStep
    <3>4. Top(x) \in Frame
      BY <3>1, <3>2, AdvancedTop
    <3>5. Top(x).elemDepth - 1 = Top(x).elemDepth + -1 /\ Top(x).open - 1 = Top(x).open + -1
      BY <3>4 DEF Frame
    <3> QED BY <2>2, <3>3, <3>5
  <2>4. Up(item) = -1
    BY <1>6, <2>1 DEF Up
  <2>5. f.open + -1 >= 0
    BY <1>5, <1>6, <2>1
  <2> HIDE DEF z, f, item
  <2> QED BY <1>8, <2>1, <2>3, <2>4, <2>5
<1>12. CASE ReadReference
  <2> DEFINE e == item.e
             x == Advance(p)
  <2>1. /\ Upcoming = "ref"
        /\ p' = IF e \in input.declared THEN Expand(x, e) ELSE Undeclared(x, e)
    BY <1>12 DEF ReadReference, Reads
  <2>2. f.pos <= Len(f.src) /\ f.src[f.pos].t = "ref"
    BY <1>6, <2>1
  <2>3. Booked(input, x, 0) /\ x.status = p.status /\ f.src[f.pos].e \in Entities
    <3>1. f = Top(p) /\ x = Advance(p)
      OBVIOUS
    <3> HIDE DEF f, x
    <3> QED BY <2>2, <3>1, PassBooked
  <2>4. e \in Entities
    BY <1>6, <2>3
  <2> HIDE DEF e, x
  <2> QED BY <1>1, <2>1, <2>3, <2>4, ExpandBooked, UndeclaredBooked
<1>13. CASE EndContent
  <2>1. p' = CloseChunk(p)
    BY <1>13 DEF EndContent, Reads
  <2> QED BY <1>1, <2>1, CloseChunkBooked
<1>14. CASE Stop
  <2>1. p' = Fail(p, "stopped") /\ "stopped" \in Outcomes
    BY <1>14 DEF Stop, Outcomes
  <2> QED BY <1>2, <2>1, FailBooked
<1> QED BY <1>1, <1>9, <1>10, <1>11, <1>12, <1>13, <1>14 DEF Next

Books == input \in Inputs /\ Booked(input, p, 0)

\* A parser that has read nothing has nothing to account for.
LEMMA InitBooks == Init => Books
<1> SUFFICES ASSUME Init PROVE Books
  OBVIOUS
<1> DEFINE c == Context(NoEntity, input.doc, 0, 0, "first", FALSE, 0)
           blank == [checked |-> FALSE, expandedSize |-> 0, kids |-> <<>>]
           t == <<c>>
           E == [input.declared -> Entity]
           O == Seq(Item)
           S == Seq(Frame)
           ents == [e \in input.declared |-> blank]
           none == <<>>
<1>1. input \in Inputs /\ InputOK(input)
  BY InputsAssumption DEF Init
<1>2. p = [frames |-> t, ents |-> ents, sizeentcopy |-> 0, out |-> none, status |-> "running"]
  BY DEF Init
<1>3. input.doc \in Seq(Item) /\ Len(input.doc) \in Nat
  BY <1>1, LenProperties DEF InputOK
<1>4. none \in Seq(Item) /\ Weight(none) = 0 /\ Deep(none) = 0 /\ High(none, MaxElemDepth)
  <2>1. [t |-> "text", e |-> NoEntity] \in Item
    BY DEF Item
  <2> QED BY <2>1, OneItem, EmptySeq
<1>5. /\ c \in Frame /\ c.e = NoEntity /\ c.src = input.doc /\ c.pos = 1 /\ c.open = 0
      /\ c.turn = "first" /\ c.was = FALSE /\ c.before = 0 /\ c.elemDepth = 0 /\ c.built = none
  BY <1>3, <1>4 DEF Context, Frame
<1> HIDE DEF c
<1>6. t \in S /\ Len(t) = 1 /\ t[1] = c /\ t # <<>>
  BY <1>5
<1>7. blank \in Entity /\ blank.kids = none /\ blank.checked = FALSE /\ blank.expandedSize = 0
  BY <1>4 DEF Entity
<1>8. "running" \in Outcomes
  BY DEF Outcomes
<1> HIDE DEF S, O, t, Outcomes, blank
<1>9. ents \in E /\ \A e \in input.declared : ents[e] = blank
  BY <1>7
<1> HIDE DEF E, ents, none
<1>10. /\ p.frames = t /\ p.ents = ents /\ p.sizeentcopy = 0 /\ p.out = none
       /\ p \in [frames : S, ents : E, sizeentcopy : Int, out : O, status : Outcomes]
  BY <1>2, <1>4, <1>6, <1>8, <1>9 DEF O
<1>11. Typed(input, p)
  BY <1>6, <1>10 DEF Typed, Parser, S, E, O
<1>12. /\ Len(p.frames) = 1 /\ p.frames[1] = c
       /\ (\A k \in 1 .. 1 : k = 1) /\ 2 .. 1 = {} /\ 1 .. 1 - 1 = {} /\ 1 \in 1 .. 1
  BY <1>6, <1>10
<1>13. Used(c) = 0
  <2>1. c.pos - 1 = 0
    BY <1>5
  <2> QED BY <2>1, MarkStep DEF Used
<1>14. Seated(input, 1, c)
  <2>1. c.pos \in 1 .. Len(c.src) + 1
    BY <1>3, <1>5
  <2> QED BY <1>5, <2>1 DEF Seated
<1>15. Stacked(input, p)
  BY <1>5, <1>10, <1>12, <1>14 DEF Stacked
<1>16. Known(input, p)
  <2> SUFFICES ASSUME NEW e \in input.declared PROVE Stored(input, e, p.ents[e])
    BY DEF Known
  <2>1. p.ents[e] = blank
    BY <1>9, <1>10
  <2> QED BY <1>4, <1>7, <2>1 DEF Stored, none
<1>17. Level(input, p)
  BY <1>4, <1>5, <1>10, <1>12 DEF Level, LevelTree, LevelFlat
<1>18. Paid(input, p, 0)
  <2>1. PaidTree(input, p, 0)
    <3>1. Loaded(input, NoEntity) = 0
      BY <1>1, SizesAre
    <3>2. Account(input, p, 1, 0 - 0)
      BY <1>4, <1>5, <1>10, <1>12, <1>13, <3>1 DEF Account
    <3> QED BY <1>10, <1>12, <3>2 DEF PaidTree
  <2>2. PaidFlat(p, 0)
    <3> DEFINE r == [k \in 1 .. 1 |-> 0]
    <3>1. r \in [1 .. 1 -> Nat] /\ r[1] = 0
      OBVIOUS
    <3> HIDE DEF r
    <3>2. Reserve(p, r)
      BY <1>12, <3>1 DEF Reserve
    <3>3. Weight(p.out) + r[Len(p.frames)] + 0 <= Used(p.frames[1]) + p.sizeentcopy
      BY <1>4, <1>10, <1>12, <1>13, <3>1
    <3> QED BY <3>2, <3>3 DEF PaidFlat
  <2> QED BY <2>1, <2>2 DEF Paid
<1> QED BY <1>1, <1>11, <1>15, <1>16, <1>17, <1>18 DEF Books, Booked

\* The books are kept, whatever the document, its entities, the options and the limits.
THEOREM BooksAreKept == Spec => []Books
<1>1. ASSUME Books, [Next]_vars PROVE Books'
  <2>1. CASE Next
    <3>1. input' = input
      BY <2>1 DEF Next, ReadText, ReadStart, ReadEnd, ReadReference, EndContent, Stop, Reads
    <3>2. InputOK(input)
      BY <1>1, InputsAssumption DEF Books
    <3>3. Booked(input, p', 0)
      BY <1>1, <2>1, <3>2, StepBooked DEF Books
    <3> QED BY <1>1, <3>1, <3>3 DEF Books
  <2>2. CASE UNCHANGED vars
    BY <1>1, <2>2 DEF Books, vars
  <2> QED BY <1>1, <2>1, <2>2
<1> QED BY <1>1, InitBooks, PTL DEF Spec

\* The items of the document that have been read, references apart.
LEMMA ReadIs ==
  ASSUME NEW s \in Seq(Item), NEW n \in 0 .. Len(s)
  PROVE  Len(Plain(SubSeq(s, 1, n))) = Marks(s, n)
<1> DEFINE t == SubSeq(s, 1, n)
<1>1. Len(s) \in Nat /\ n \in Nat /\ n <= Len(s)
  BY LenProperties
<1>2. \A i \in 1 .. n : s[i] \in Item
  BY <1>1, ElementOfSeq
<1>3. n \in Int /\ 1 \in Int /\ n = n - 1 + 1 /\ n = IF 1 <= n THEN n - 1 + 1 ELSE 0
  BY <1>1
<1>4. /\ t \in Seq(Item) /\ Len(t) = IF 1 <= n THEN n - 1 + 1 ELSE 0
      /\ \A i \in 1 .. n - 1 + 1 : t[i] = s[1 + i - 1]
  BY <1>2, <1>3, SubSeqProperties
<1> HIDE DEF t
<1>5. ASSUME NEW i \in 1 .. n PROVE t[i] = s[i]
  <2>1. 1 + i - 1 = i /\ i \in 1 .. n - 1 + 1
    BY <1>1
  <2> QED BY <1>4, <2>1
<1>6. Len(t) = n /\ n \in 0 .. n
  BY <1>1, <1>3, <1>4
<1>7. Marks(t, n) = Marks(s, n)
  BY <1>1, <1>5, <1>6, SameStart
<1>8. Len(Plain(t)) = Weight(t)
  BY <1>4, PlainKeeps
<1> QED BY <1>6, <1>7, <1>8 DEF Weight, t

\* What the handler was told is what was read of the document or was charged.
LEMMA ToldIsCharged ==
  ASSUME NEW in, InputOK(in), NEW x, Booked(in, x, 0), in.noEnt => in.tree
  PROVE  Weight(x.out) <= Used(x.frames[1]) + x.sizeentcopy
<1> DEFINE n == Len(x.frames)
           S == x.sizeentcopy
           f == x.frames[1]
           w == Weight(x.out)
           u == Used(f)
<1>1. Typed(in, x) /\ Stacked(in, x) /\ Paid(in, x, 0)
  BY DEF Booked
<1>2. S \in Int /\ w \in Nat /\ n \in Nat \ {0}
  BY BookTypes
<1> HIDE DEF n
<1>3. 1 \in 1 .. n
  BY <1>2
<1>4. u \in Int /\ f.before = 0 /\ f.e = NoEntity
  <2>1. f = x.frames[1] /\ 1 \in 1 .. Len(x.frames)
    BY <1>3 DEF n
  <2> HIDE DEF f
  <2>2. Seated(in, 1, f) /\ u \in 0 .. Len(f.src) /\ Len(f.src) \in Nat
    BY <1>1, <2>1, StackNumbers
  <2> HIDE DEF u
  <2> QED BY <2>2 DEF Seated
<1>5. Loaded(in, f.e) = 0
  BY <1>4, SizesAre
<1>6. ASSUME NEW end \in Int, Account(in, x, 1, end), end <= S
      PROVE  w <= u + S
  <2>1. w + 0 <= u - 0 + end
    BY <1>4, <1>5, <1>6 DEF Account
  <2> HIDE DEF w, u, S
  <2> QED BY <1>2, <1>4, <1>6, <2>1
<1>7. ASSUME in.tree /\ n = 1 PROVE w <= u + S
  <2>1. Account(in, x, 1, S - 0)
    BY <1>1, <1>7 DEF Paid, PaidTree, n
  <2> DEFINE end == S - 0
  <2>2. Account(in, x, 1, end) /\ end \in Int /\ end <= S
    BY <1>2, <2>1
  <2> HIDE DEF end, w, u, S
  <2> QED BY <1>6, <2>2
<1>8. ASSUME in.tree /\ n # 1 PROVE w <= u + S
  <2> DEFINE h == x.frames[2]
             end == h.before - SizeOf(in, h.e)
  <2>1. 2 \in 1 .. n /\ 2 # 1 /\ 1 \in 1 .. n - 1 /\ 1 + 1 = 2
    BY <1>2, <1>8
  <2>2. Account(in, x, 1, x.frames[1 + 1].before - SizeOf(in, x.frames[1 + 1].e))
    BY <1>1, <1>8, <2>1 DEF Paid, PaidTree, n
  <2>3. Account(in, x, 1, end)
    BY <2>1, <2>2
  <2>4. h.before \in Int /\ h.before <= S /\ h.e \in in.declared
    <3>1. h = x.frames[2] /\ 2 \in 1 .. Len(x.frames)
      BY <2>1 DEF n
    <3> HIDE DEF h
    <3>2. h.before \in Int /\ h.before <= S /\ Seated(in, 2, h)
      BY <1>1, <3>1, StackNumbers
    <3> QED BY <3>2 DEF Seated
  <2>5. SizeOf(in, h.e) \in Nat
    BY <2>4, SizesAre
  <2>6. end \in Int /\ end <= S
    <3> HIDE DEF h, S
    <3> QED BY <1>2, <2>4, <2>5
  <2> HIDE DEF end, w, u, S
  <2> QED BY <1>6, <2>3, <2>6
<1>9. ASSUME ~in.tree PROVE w <= u + S
  <2>1. PICK r : Reserve(x, r) /\ w + r[n] + 0 <= u + S
    BY <1>1, <1>9 DEF Paid, PaidFlat, n
  <2>2. r[n] \in Nat
    BY <1>2, <2>1 DEF Reserve, n
  <2> DEFINE a == r[n]
  <2> HIDE DEF w, u, S, a
  <2>3. w + a + 0 <= u + S /\ a \in Nat
    BY <2>1, <2>2 DEF a
  <2> QED BY <1>2, <1>4, <2>3
<1> QED BY <1>7, <1>8, <1>9

\* No element is deeper than MaxDepth, whatever the handler makes of the events and
\* wherever the entity that it is from was parsed first.
THEOREM DepthIsLimited == Spec => [](Nesting(p.out) <= MaxElemDepth)
<1>1. Books => Nesting(p.out) <= MaxElemDepth
  <2> SUFFICES ASSUME Books PROVE Nesting(p.out) <= MaxElemDepth
    OBVIOUS
  <2>1. InputOK(input) /\ Booked(input, p, 0)
    BY InputsAssumption DEF Books
  <2>2. p.out \in Seq(Item) /\ High(p.out, MaxElemDepth)
    BY <2>1, BookTypes DEF Booked, Level
  <2>3. MaxElemDepth \in Int /\ MaxElemDepth >= 0
    BY BoundsAssumption
  <2> QED BY <2>2, <2>3, NestingIs
<1> QED BY <1>1, BooksAreKept, PTL

\* The limits mean what they say: no element is deeper than MaxDepth, and every piece of
\* text that entities added was charged by entityCheck, unless the text is substituted
\* for a handler of events, which is told of it again.
THEOREM LimitsAreKept == Spec => []((input.noEnt => input.tree) => LimitsHold)
<1>1. Books => ((input.noEnt => input.tree) => Expanded <= p.sizeentcopy)
  <2> SUFFICES ASSUME Books, input.noEnt => input.tree PROVE Expanded <= p.sizeentcopy
    OBVIOUS
  <2> DEFINE f == p.frames[1]
             j == f.pos - 1
             w == Weight(p.out)
             m == Marks(input.doc, j)
             S == p.sizeentcopy
  <2>1. InputOK(input) /\ Booked(input, p, 0)
    BY InputsAssumption DEF Books
  <2>2. p.out \in Seq(Item) /\ S \in Int /\ w \in Nat /\ 1 \in 1 .. Len(p.frames)
    <3>1. p.out \in Seq(Item) /\ S \in Int /\ w \in Nat /\ Len(p.frames) \in Nat \ {0}
      BY <2>1, BookTypes
    <3> QED BY <3>1
  <2>3. Seated(input, 1, f) /\ f.pos \in Nat /\ f.pos >= 1 /\ input.doc \in Seq(Item)
    <3>1. f = p.frames[1] /\ Typed(input, p) /\ Stacked(input, p)
      BY <2>1 DEF Booked
    <3> HIDE DEF f
    <3>2. Seated(input, 1, f) /\ f \in Frame
      BY <2>2, <3>1, StackNumbers
    <3> QED BY <2>1, <3>2, FrameNumbers DEF InputOK
  <2>4. f.src = input.doc /\ j \in 0 .. Len(input.doc)
    <3>1. f.src = input.doc /\ f.pos \in 1 .. Len(input.doc) + 1 /\ Len(input.doc) \in Nat
      BY <2>3, LenProperties DEF Seated
    <3> QED BY <2>3, <3>1
  <2>5. w <= Used(f) + S
    BY <2>1, ToldIsCharged
  <2>6. Used(f) = m
    BY <2>4 DEF Used
  <2>7. m \in Int
    BY <2>3, <2>4, MarksBound, LenProperties
  <2>8. Len(Plain(SubSeq(input.doc, 1, j))) = m
    BY <2>3, <2>4, ReadIs
  <2>9. Len(Plain(p.out)) = w
    BY <2>2, PlainKeeps
  <2>10. Expanded = w - m
    BY <2>8, <2>9 DEF Expanded
  <2> HIDE DEF w, m, S, f
  <2>11. w - m <= S
    BY <2>2, <2>5, <2>6, <2>7
  <2> QED BY <2>10, <2>11 DEF S
<1> QED BY <1>1, BooksAreKept, DepthIsLimited, PTL DEF LimitsHold

-----------------------------------------------------------------------------
(***************************************************************************)
(* One sequence made of many.                                              *)
(***************************************************************************)
\* h[k] is made of the first k sequences of u.
Joins(u, N, h) ==
    DOMAIN h = 0 .. N /\ h[0] = <<>> /\ \A k \in 1 .. N : h[k] = h[k - 1] \o u[k]

\* h with one more.
Joined(u, n, h) == [k \in 0 .. n + 1 |-> IF k = n + 1 THEN h[n] \o u[n + 1] ELSE h[k]]

\* There is such an h.
LEMMA JoinsExist ==
  ASSUME NEW u, NEW N \in Nat
  PROVE  \E h : Joins(u, N, h)
<1> DEFINE T == {n \in 0 .. N : \E h : Joins(u, n, h)}
<1>1. 0 \in T
  <2> DEFINE h == [k \in 0 .. 0 |-> <<>>]
  <2>1. Joins(u, 0, h)
    BY DEF Joins
  <2> QED BY <2>1
<1>2. ASSUME NEW n \in 0 .. N - 1, n \in T PROVE n + 1 \in T
  <2>1. PICK h : Joins(u, n, h)
    BY <1>2
  <2> DEFINE g == Joined(u, n, h)
  <2>2. /\ DOMAIN g = 0 .. n + 1 /\ g[n + 1] = h[n] \o u[n + 1]
        /\ \A k \in 0 .. n : g[k] = h[k]
    <3>1. n + 1 \in 0 .. n + 1 /\ \A k \in 0 .. n : k \in 0 .. n + 1 /\ k # n + 1
      OBVIOUS
    <3>2. DOMAIN g = 0 .. n + 1
      BY DEF Joined
    <3>3. g[n + 1] = h[n] \o u[n + 1]
      BY ONLY <3>1 DEF Joined
    <3>4. \A k \in 0 .. n : g[k] = h[k]
      BY ONLY <3>1 DEF Joined
    <3> QED BY <3>2, <3>3, <3>4
  <2> HIDE DEF g
  <2>3. g[0] = <<>>
    BY <2>1, <2>2 DEF Joins
  <2>4. ASSUME NEW k \in 1 .. n + 1 PROVE g[k] = g[k - 1] \o u[k]
    <3>1. CASE k = n + 1
      <4>1. k - 1 = n /\ n \in 0 .. n
        BY <3>1
      <4>2. g[k - 1] = h[n]
        BY <2>2, <4>1
      <4> QED BY <2>2, <3>1, <4>2
    <3>2. CASE k # n + 1
      <4>1. k \in 1 .. n /\ k \in 0 .. n /\ k - 1 \in 0 .. n
        BY <3>2
      <4>2. h[k] = h[k - 1] \o u[k]
        BY <2>1, <4>1 DEF Joins
      <4>3. g[k] = h[k] /\ g[k - 1] = h[k - 1]
        BY <2>2, <4>1
      <4> QED BY <4>2, <4>3
    <3> QED BY <3>1, <3>2
  <2>5. Joins(u, n + 1, g)
    BY <2>2, <2>3, <2>4 DEF Joins
  <2>6. n + 1 \in 0 .. N
    OBVIOUS
  <2> QED BY <2>5, <2>6
<1> HIDE DEF T
<1>3. \A n \in 0 .. N : n \in T
  BY <1>1, <1>2, StepByStep
<1>4. N \in 0 .. N
  OBVIOUS
<1> QED BY <1>3, <1>4 DEF T

\* There is only one, up to each position.
LEMMA JoinsAgree ==
  ASSUME NEW N \in Nat, NEW u, NEW v, \A k \in 1 .. N : u[k] = v[k],
         NEW g, Joins(u, N, g), NEW h, Joins(v, N, h)
  PROVE  \A k \in 0 .. N : g[k] = h[k]
<1> DEFINE T == {k \in 0 .. N : g[k] = h[k]}
<1>1. 0 \in T
  BY DEF Joins
<1>2. ASSUME NEW k \in 0 .. N - 1, k \in T PROVE k + 1 \in T
  <2>1. k + 1 \in 1 .. N /\ k + 1 \in 0 .. N /\ (k + 1) - 1 = k
    OBVIOUS
  <2>2. g[k + 1] = g[k] \o u[k + 1] /\ h[k + 1] = h[k] \o v[k + 1]
    BY <2>1 DEF Joins
  <2> QED BY <1>2, <2>1, <2>2
<1> HIDE DEF T
<1>3. \A k \in 0 .. N : k \in T
  BY <1>1, <1>2, StepByStep
<1> QED BY <1>3 DEF T

\* t starts with s.
Begins(s, t) == \E r \in Seq(Item) : t = s \o r

\* Three sequences of items, one after the other.
LEMMA ThreeInARow ==
  ASSUME NEW a \in Seq(Item), NEW b \in Seq(Item), NEW c \in Seq(Item)
  PROVE  (a \o b) \o c = a \o (b \o c)
<1> DEFINE S == Item
<1>1. a \in Seq(S) /\ b \in Seq(S) /\ c \in Seq(S)
  OBVIOUS
<1> HIDE DEF S
<1> QED BY ONLY <1>1, ConcatAssociative

\* What begins with a beginning.
LEMMA BeginsFurther ==
  ASSUME NEW s \in Seq(Item), NEW t \in Seq(Item), NEW r \in Seq(Item), Begins(s, t), Begins(t, r)
  PROVE  Begins(s, r)
<1>1. PICK v \in Seq(Item) : t = s \o v
  BY DEF Begins
<1>2. PICK w \in Seq(Item) : r = t \o w
  BY DEF Begins
<1>3. r = s \o (v \o w) /\ v \o w \in Seq(Item)
  <2>0. s \in Seq(Item) /\ v \in Seq(Item) /\ w \in Seq(Item)
    OBVIOUS
  <2>1. v \o w \in Seq(Item)
    BY ONLY <2>0, ConcatProperties
  <2>2. (s \o v) \o w = s \o (v \o w)
    BY ONLY <2>0, ThreeInARow, SMTT(20)
  <2> QED BY <1>1, <1>2, <2>1, <2>2
<1> QED BY <1>3 DEF Begins

\* Every sequence begins with itself and with nothing.
LEMMA BeginsItself ==
  ASSUME NEW s \in Seq(Item)
  PROVE  Begins(s, s) /\ Begins(<<>>, s)
<1>1. s = s \o <<>> /\ s = <<>> \o s /\ <<>> \in Seq(Item)
  BY ConcatEmptySeq, EmptySeq
<1> QED BY <1>1 DEF Begins

\* A common start.
LEMMA BeginsAfter ==
  ASSUME NEW a \in Seq(Item), NEW s \in Seq(Item), NEW t \in Seq(Item), Begins(s, t)
  PROVE  Begins(a \o s, a \o t) /\ a \o s \in Seq(Item) /\ a \o t \in Seq(Item)
<1>1. PICK v \in Seq(Item) : t = s \o v
  BY DEF Begins
<1>2. a \o t = (a \o s) \o v
  <2>1. a \in Seq(Item) /\ s \in Seq(Item) /\ v \in Seq(Item)
    BY <1>1
  <2>2. (a \o s) \o v = a \o (s \o v)
    BY ONLY <2>1, ThreeInARow
  <2> QED BY <1>1, <2>2
<1> QED BY <1>2, ConcatProperties DEF Begins

\* The sequences made of the first ones are sequences of items, each the beginning of
\* the later ones.
LEMMA JoinsType ==
  ASSUME NEW N \in Nat, NEW u, \A k \in 1 .. N : u[k] \in Seq(Item), NEW h, Joins(u, N, h)
  PROVE  /\ \A k \in 0 .. N : h[k] \in Seq(Item)
         /\ \A j \in 0 .. N : \A k \in j .. N : Begins(h[j], h[k])
<1>1. \A k \in 0 .. N : h[k] \in Seq(Item)
  <2> DEFINE T == {k \in 0 .. N : h[k] \in Seq(Item)}
  <2>1. 0 \in T
    BY EmptySeq DEF Joins
  <2>2. ASSUME NEW k \in 0 .. N - 1, k \in T PROVE k + 1 \in T
    <3>1. k + 1 \in 1 .. N /\ k + 1 \in 0 .. N /\ (k + 1) - 1 = k
      OBVIOUS
    <3>2. h[k + 1] = h[k] \o u[k + 1] /\ u[k + 1] \in Seq(Item) /\ h[k] \in Seq(Item)
      BY <2>2, <3>1 DEF Joins
    <3>3. h[k + 1] \in Seq(Item)
      BY <3>2, ConcatProperties
    <3> QED BY <3>1, <3>3
  <2> HIDE DEF T
  <2>3. \A k \in 0 .. N : k \in T
    BY <2>1, <2>2, StepByStep
  <2> QED BY <2>3 DEF T
<1>2. ASSUME NEW j \in 0 .. N PROVE \A k \in j .. N : Begins(h[j], h[k])
  <2> DEFINE T == {k \in 0 .. N : k >= j => Begins(h[j], h[k])}
  <2>1. 0 \in T
    <3>1. 0 >= j => j = 0
      OBVIOUS
    <3> QED BY <1>1, <3>1, BeginsItself
  <2>2. ASSUME NEW k \in 0 .. N - 1, k \in T PROVE k + 1 \in T
    <3>1. k + 1 \in 1 .. N /\ k + 1 \in 0 .. N /\ (k + 1) - 1 = k /\ k \in 0 .. N
      OBVIOUS
    <3>2. h[k + 1] = h[k] \o u[k + 1] /\ u[k + 1] \in Seq(Item) /\ h[k] \in Seq(Item)
          /\ h[k + 1] \in Seq(Item) /\ h[j] \in Seq(Item)
      BY <1>1, <3>1 DEF Joins
    <3>3. Begins(h[k], h[k + 1])
      BY <3>2 DEF Begins
    <3>4. CASE k >= j
      <4>1. Begins(h[j], h[k])
        BY <2>2, <3>4
      <4>2. Begins(h[j], h[k + 1])
        BY <3>2, <3>3, <4>1, BeginsFurther
      <4> QED BY <3>1, <4>2
    <3>5. CASE ~(k >= j)
      <4>1. k + 1 >= j => k + 1 = j
        BY <3>5
      <4>2. Begins(h[j], h[j])
        BY <3>2, BeginsItself
      <4> QED BY <3>1, <4>1, <4>2
    <3> QED BY <3>4, <3>5
  <2> HIDE DEF T
  <2>3. \A k \in 0 .. N : k \in T
    BY <2>1, <2>2, StepByStep
  <2>4. \A k \in j .. N : k \in 0 .. N /\ k >= j
    OBVIOUS
  <2> QED BY <2>3, <2>4 DEF T
<1> QED BY <1>1, <1>2

\* The recursion that FlattenSeq builds.
Flat(u, n, f) == f = [i \in 1 .. n |-> IF i = 1 THEN u[i] ELSE f[i - 1] \o u[i]]

\* FlattenSeq makes one sequence of all.
LEMMA FlattenIs ==
  ASSUME NEW u \in Seq(Seq(Item)), NEW h, Joins(u, Len(u), h)
  PROVE  FlattenSeq(u) = h[Len(u)]
<1> DEFINE n == Len(u)
<1>1. n \in Nat /\ \A k \in 1 .. n : u[k] \in Seq(Item)
  BY LenProperties, ElementOfSeq
<1>2. CASE n = 0
  <2>1. u = <<>>
    BY <1>2, EmptySeq
  <2>2. FlattenSeq(u) = u
    BY <1>2 DEF FlattenSeq
  <2> QED BY <1>2, <2>1, <2>2 DEF Joins
<1>3. CASE n # 0
  <2> DEFINE f == CHOOSE g : Flat(u, n, g)
             e == [i \in 1 .. n |-> h[i]]
  <2>1. FlattenSeq(u) = f[n]
    BY <1>3 DEF FlattenSeq, Flat
  <2> HIDE DEF n
  <2>2. Flat(u, n, e)
    <3>1. ASSUME NEW i \in 1 .. n PROVE h[i] = IF i = 1 THEN u[i] ELSE e[i - 1] \o u[i]
      <4>1. h[i] = h[i - 1] \o u[i] /\ u[i] \in Seq(Item)
        BY <1>1 DEF Joins, n
      <4>2. CASE i = 1
        <5>1. h[i - 1] = <<>>
          BY <4>2 DEF Joins
        <5>2. <<>> \o u[i] = u[i]
          BY <4>1, ConcatEmptySeq
        <5> QED BY <4>1, <4>2, <5>1, <5>2
      <4>3. CASE i # 1
        <5>1. i - 1 \in 1 .. n
          BY <1>1, <4>3
        <5> QED BY <4>1, <4>3, <5>1
      <4> QED BY <4>2, <4>3
    <3> QED BY <3>1 DEF Flat
  <2>3. Flat(u, n, f)
    BY <2>2
  <2> HIDE DEF f, e
  <2> DEFINE T == {k \in 0 .. n : k # 0 => f[k] = h[k]}
  <2>4. 0 \in T
    BY <1>1
  <2>5. ASSUME NEW k \in 0 .. n - 1, k \in T PROVE k + 1 \in T
    <3>1. k + 1 \in 1 .. n /\ k + 1 \in 0 .. n /\ (k + 1) - 1 = k
      BY <1>1
    <3>2. f[k + 1] = IF k + 1 = 1 THEN u[k + 1] ELSE f[(k + 1) - 1] \o u[k + 1]
      BY <2>3, <3>1 DEF Flat
    <3>3. h[k + 1] = h[k] \o u[k + 1] /\ u[k + 1] \in Seq(Item)
      BY <1>1, <3>1 DEF Joins, n
    <3>4. CASE k = 0
      <4>1. h[k] = <<>>
        BY <3>4 DEF Joins
      <4>2. <<>> \o u[k + 1] = u[k + 1]
        BY <3>3, ConcatEmptySeq
      <4> QED BY <3>1, <3>2, <3>3, <3>4, <4>1, <4>2
    <3>5. CASE k # 0
      <4>1. k + 1 # 1 /\ f[k] = h[k]
        BY <2>5, <3>5
      <4> QED BY <3>1, <3>2, <3>3, <4>1
    <3> QED BY <3>4, <3>5
  <2> HIDE DEF T
  <2>6. \A k \in 0 .. n : k \in T
    BY <1>1, <2>4, <2>5, StepByStep
  <2>7. n \in 0 .. n
    BY <1>1
  <2> QED BY <1>3, <2>1, <2>6, <2>7 DEF T, n
<1> QED BY <1>2, <1>3

-----------------------------------------------------------------------------
(***************************************************************************)
(* What Told makes of the texts.                                           *)
(***************************************************************************)
Texts == {input.doc} \cup {input.body[e] : e \in input.declared}

\* What stands for the item at i, when T[n - 1] is what one level less makes of texts.
Piece(n, T, s, i) ==
    IF s[i].t # "ref" THEN <<s[i]>>
    ELSE (IF n > 0 /\ s[i].e \in Entered(s) /\ (input.noEnt \/ ~input.tree)
          THEN T[n - 1][input.body[s[i].e]] ELSE <<>>)
         \o (IF input.noEnt /\ s[i].e \in input.declared THEN <<>> ELSE <<s[i]>>)

Layer(n, T) == [s \in Texts |-> FlattenSeq([i \in DOMAIN s |-> Piece(n, T, s, i)])]

Layers(N, T) == T = [n \in 0 .. N |-> Layer(n, T)]

\* A layer rests on the one below it.
LEMMA SameLayer ==
  ASSUME NEW n \in Nat, NEW T, NEW U, n > 0 => T[n - 1] = U[n - 1]
  PROVE  Layer(n, T) = Layer(n, U)
<1>1. ASSUME NEW s \in Texts
      PROVE  FlattenSeq([i \in DOMAIN s |-> Piece(n, T, s, i)])
               = FlattenSeq([i \in DOMAIN s |-> Piece(n, U, s, i)])
  <2>1. \A i \in DOMAIN s : Piece(n, T, s, i) = Piece(n, U, s, i)
    BY DEF Piece
  <2> DEFINE a == [i \in DOMAIN s |-> Piece(n, T, s, i)]
             b == [i \in DOMAIN s |-> Piece(n, U, s, i)]
  <2>2. a = b
    BY <2>1
  <2> HIDE DEF a, b
  <2>3. FlattenSeq(a) = FlattenSeq(b)
    BY <2>2
  <2> QED BY <2>3 DEF a, b
<1> QED BY <1>1 DEF Layer

\* T with one layer more.
Higher(k, T) == [n \in 0 .. k + 1 |-> IF n = k + 1 THEN Layer(k + 1, T) ELSE T[n]]

\* There are such layers.
LEMMA LayersExist ==
  ASSUME NEW N \in Nat
  PROVE  \E T : Layers(N, T)
<1> DEFINE K == {k \in 0 .. N : \E T : Layers(k, T)}
<1>1. 0 \in K
  <2> DEFINE T == [n \in 0 .. 0 |-> Layer(0, <<>>)]
  <2>1. ASSUME NEW n \in 0 .. 0 PROVE Layer(0, <<>>) = Layer(n, T)
    <3>1. n = 0 /\ 0 \in Nat /\ ~(0 > 0)
      OBVIOUS
    <3> HIDE DEF T
    <3>2. Layer(0, <<>>) = Layer(0, T)
      BY <3>1, SameLayer
    <3> QED BY <3>1, <3>2
  <2>2. T = [n \in 0 .. 0 |-> T[n]] /\ \A n \in 0 .. 0 : T[n] = Layer(0, <<>>)
    OBVIOUS
  <2> HIDE DEF T
  <2>3. T = [n \in 0 .. 0 |-> Layer(n, T)]
    BY <2>1, <2>2
  <2>4. Layers(0, T)
    BY <2>3 DEF Layers
  <2> QED BY <2>4
<1>2. ASSUME NEW k \in 0 .. N - 1, k \in K PROVE k + 1 \in K
  <2>1. PICK T : Layers(k, T)
    BY <1>2
  <2> DEFINE U == Higher(k, T)
  <2>2. \A n \in 0 .. k : T[n] = Layer(n, T)
    BY <2>1 DEF Layers
  <2>3. /\ U = [n \in 0 .. k + 1 |-> U[n]] /\ U[k + 1] = Layer(k + 1, T)
        /\ \A n \in 0 .. k : U[n] = T[n]
    BY DEF Higher
  <2> HIDE DEF U
  <2>4. ASSUME NEW n \in 0 .. k + 1 PROVE U[n] = Layer(n, U)
    <3>1. n > 0 => T[n - 1] = U[n - 1]
      <4>1. n > 0 => n - 1 \in 0 .. k
        OBVIOUS
      <4> QED BY <2>3, <4>1
    <3>2. Layer(n, T) = Layer(n, U)
      BY <3>1, SameLayer
    <3>3. CASE n = k + 1
      BY <2>3, <3>2, <3>3
    <3>4. CASE n # k + 1
      <4>1. n \in 0 .. k
        BY <3>4
      <4> QED BY <2>2, <2>3, <3>2, <4>1
    <3> QED BY <3>3, <3>4
  <2>5. U = [n \in 0 .. k + 1 |-> Layer(n, U)]
    BY <2>3, <2>4
  <2>6. Layers(k + 1, U) /\ k + 1 \in 0 .. N
    BY <2>5 DEF Layers
  <2> QED BY <2>6
<1> HIDE DEF K
<1>3. \A k \in 0 .. N : k \in K
  BY <1>1, <1>2, StepByStep
<1>4. N \in 0 .. N
  OBVIOUS
<1> QED BY <1>3, <1>4 DEF K

\* What Told makes of a text, item by item, from what one level less makes of others.
LEMMA ToldIs ==
  ASSUME NEW N, N = Cardinality(Entities)
  PROVE  /\ N \in Nat
         /\ \A n \in 0 .. N : \A s \in Texts :
              Told[n][s] = FlattenSeq([i \in DOMAIN s |-> Piece(n, Told, s, i)])
<1>1. N \in Nat
  BY BoundsAssumption, FS_CardinalityType
<1>2. Told = CHOOSE T : Layers(N, T)
  BY DEF Told, Layers, Layer, Texts, Piece
<1>3. Layers(N, Told)
  BY <1>1, <1>2, LayersExist
<1>4. \A n \in 0 .. N : Told[n] = Layer(n, Told)
  BY <1>3 DEF Layers
<1> QED BY <1>1, <1>4 DEF Layer

\* The texts are sequences of items, and those of entities among them.
LEMMA TextFacts ==
  ASSUME InputOK(input)
  PROVE  /\ \A s \in Texts : /\ s \in Seq(Item) /\ Len(s) \in Nat /\ DOMAIN s = 1 .. Len(s)
                             /\ \A i \in 1 .. Len(s) : s[i] \in Item
                             /\ Entered(s) \subseteq input.declared
                             /\ Entered(s) = Referred(input, s, Len(s))
         /\ input.doc \in Texts /\ \A e \in input.declared : input.body[e] \in Texts
<1>1. ASSUME NEW s \in Texts
      PROVE  /\ s \in Seq(Item) /\ Len(s) \in Nat /\ DOMAIN s = 1 .. Len(s)
             /\ \A i \in 1 .. Len(s) : s[i] \in Item
  <2>1. s \in Seq(Item)
    BY DEF InputOK, Texts
  <2> QED BY <2>1, LenProperties, ElementOfSeq
<1>2. ASSUME NEW s \in Texts
      PROVE  Entered(s) \subseteq input.declared /\ Entered(s) = Referred(input, s, Len(s))
  <2>1. DOMAIN s = 1 .. Len(s)
    BY <1>1
  <2> QED BY <2>1 DEF Entered, Referred, CanEnter, External
<1> QED BY <1>1, <1>2 DEF Texts

\* A piece is a sequence of items if the level below is made of such.
LEMMA PieceType ==
  ASSUME InputOK(input), NEW n \in Nat, NEW T, NEW s \in Texts,
         n > 0 => \A r \in Texts : T[n - 1][r] \in Seq(Item), NEW i \in 1 .. Len(s)
  PROVE  Piece(n, T, s, i) \in Seq(Item)
<1>1. s[i] \in Item /\ <<>> \in Seq(Item)
  BY TextFacts, EmptySeq
<1>2. <<s[i]>> \in Seq(Item)
  BY <1>1
<1> DEFINE a == IF n > 0 /\ s[i].e \in Entered(s) /\ (input.noEnt \/ ~input.tree)
                THEN T[n - 1][input.body[s[i].e]] ELSE <<>>
           b == IF input.noEnt /\ s[i].e \in input.declared THEN <<>> ELSE <<s[i]>>
<1>3. a \in Seq(Item)
  BY <1>1, TextFacts
<1>4. b \in Seq(Item)
  BY <1>1, <1>2
<1>5. Piece(n, T, s, i) = IF s[i].t # "ref" THEN <<s[i]>> ELSE a \o b
  BY DEF Piece
<1> HIDE DEF a, b
<1> QED BY <1>2, <1>3, <1>4, <1>5, ConcatProperties

\* The pieces of a text, and what they make together.
LEMMA PiecesAre ==
  ASSUME InputOK(input), NEW n \in Nat, NEW T, NEW s \in Texts,
         n > 0 => \A r \in Texts : T[n - 1][r] \in Seq(Item),
         NEW u, \A i \in 1 .. Len(s) : u[i] = Piece(n, T, s, i), NEW h, Joins(u, Len(s), h)
  PROVE  FlattenSeq([i \in DOMAIN s |-> Piece(n, T, s, i)]) = h[Len(s)] /\ h[Len(s)] \in Seq(Item)
<1> DEFINE v == [i \in DOMAIN s |-> Piece(n, T, s, i)]
<1>1. Len(s) \in Nat /\ DOMAIN s = 1 .. Len(s)
  BY TextFacts
<1>2. \A i \in 1 .. Len(s) : Piece(n, T, s, i) \in Seq(Item)
  BY PieceType
<1>3. v \in Seq(Seq(Item)) /\ Len(v) = Len(s)
  <2> DEFINE N == Len(s)
             X == Seq(Item)
  <2>1. N \in Nat /\ v = [i \in 1 .. N |-> v[i]] /\ \A i \in 1 .. N : v[i] \in X
    BY <1>1, <1>2
  <2> HIDE DEF v, N, X
  <2>2. v \in [1 .. N -> X]
    BY <2>1
  <2>3. v \in Seq(X) /\ Len(v) = N
    BY <2>1, <2>2
  <2> QED BY <2>3 DEF X, N
<1>4. \A i \in 1 .. Len(s) : v[i] = u[i]
  BY <1>1
<1> HIDE DEF v
<1>5. Joins(v, Len(v), h)
  BY <1>1, <1>3, <1>4 DEF Joins
<1>6. FlattenSeq(v) = h[Len(s)]
  BY <1>3, <1>5, FlattenIs
<1>7. h[Len(s)] \in Seq(Item)
  <2>1. \A i \in 1 .. Len(s) : u[i] \in Seq(Item)
    BY <1>2
  <2>2. \A k \in 0 .. Len(s) : h[k] \in Seq(Item)
    BY <1>1, <2>1, JoinsType
  <2> QED BY <1>1, <2>2
<1> QED BY <1>6, <1>7 DEF v

\* What is told of a text are items.
LEMMA ToldType ==
  ASSUME InputOK(input), NEW N, N = Cardinality(Entities)
  PROVE  N \in Nat /\ \A n \in 0 .. N : \A s \in Texts : Told[n][s] \in Seq(Item)
<1>1. /\ N \in Nat
      /\ \A n \in 0 .. N : \A s \in Texts :
           Told[n][s] = FlattenSeq([i \in DOMAIN s |-> Piece(n, Told, s, i)])
  BY ToldIs
<1> DEFINE K == {n \in 0 .. N : \A s \in Texts : Told[n][s] \in Seq(Item)}
<1>2. ASSUME NEW n \in 0 .. N, n > 0 => \A s \in Texts : Told[n - 1][s] \in Seq(Item)
      PROVE  n \in K
  <2>1. ASSUME NEW s \in Texts PROVE Told[n][s] \in Seq(Item)
    <3> DEFINE u == [i \in 1 .. Len(s) |-> Piece(n, Told, s, i)]
    <3>1. \A i \in 1 .. Len(s) : u[i] = Piece(n, Told, s, i)
      OBVIOUS
    <3> HIDE DEF u
    <3>2. Len(s) \in Nat /\ n \in Nat
      BY <1>1, TextFacts
    <3>3. PICK h : Joins(u, Len(s), h)
      BY <3>2, JoinsExist
    <3>4. FlattenSeq([i \in DOMAIN s |-> Piece(n, Told, s, i)]) \in Seq(Item)
      <4>1. /\ FlattenSeq([i \in DOMAIN s |-> Piece(n, Told, s, i)]) = h[Len(s)]
            /\ h[Len(s)] \in Seq(Item)
        BY <1>2, <3>1, <3>2, <3>3, PiecesAre
      <4> QED BY <4>1
    <3> QED BY <1>1, <3>4
  <2> QED BY <2>1
<1>3. 0 \in K
  <2>1. 0 \in 0 .. N /\ ~(0 > 0)
    BY <1>1
  <2> HIDE DEF K
  <2> QED BY <1>2, <2>1
<1>4. ASSUME NEW n \in 0 .. N - 1, n \in K PROVE n + 1 \in K
  <2>1. n + 1 \in 0 .. N /\ (n + 1) - 1 = n
    BY <1>1
  <2>2. \A s \in Texts : Told[(n + 1) - 1][s] \in Seq(Item)
    BY <1>4, <2>1
  <2> HIDE DEF K
  <2> QED BY <1>2, <2>1, <2>2
<1> HIDE DEF K
<1>5. \A n \in 0 .. N : n \in K
  BY <1>1, <1>3, <1>4, StepByStep
<1> QED BY <1>1, <1>5 DEF K

-----------------------------------------------------------------------------
(***************************************************************************)
(* What is told of a text does not change any more once as many levels are *)
(* expanded as there are entities.                                         *)
(***************************************************************************)
\* The entities that are reached lead only to one another.
LEMMA ReachedIs ==
  ASSUME InputOK(input)
  PROVE  /\ Reached \subseteq input.declared /\ Reached \subseteq Entities /\ IsFiniteSet(Reached)
         /\ Cardinality(Reached) \in Nat /\ Cardinality(Reached) <= Cardinality(Entities)
         /\ Entered(input.doc) \subseteq Reached
         /\ \A e \in Reached : Entered(input.body[e]) \subseteq Reached
         /\ \A e \in Reached : CanEnter(input, e)
<1>1. Reached \subseteq input.declared /\ Reached \subseteq Entities
  BY DEF Reached, InputOK
<1>2. /\ IsFiniteSet(Reached) /\ Cardinality(Reached) \in Nat
      /\ Cardinality(Reached) <= Cardinality(Entities)
  BY <1>1, BoundsAssumption, FS_Subset, FS_CardinalityType
<1>3. \A s : Entered(s) \subseteq input.declared
  BY DEF Entered
<1>4. Entered(input.doc) \subseteq Reached
  BY <1>3 DEF Reached
<1>5. ASSUME NEW e \in Reached, NEW g \in Entered(input.body[e]) PROVE g \in Reached
  <2> SUFFICES ASSUME NEW S \in SUBSET input.declared, Entered(input.doc) \subseteq S,
                      \A f \in S : Entered(input.body[f]) \subseteq S
               PROVE  g \in S
    BY <1>3 DEF Reached
  <2>1. e \in S
    BY DEF Reached
  <2> QED BY <2>1
<1>6. ASSUME NEW e \in Reached PROVE CanEnter(input, e)
  <2> DEFINE S == {g \in input.declared : CanEnter(input, g)}
  <2>1. \A s : Entered(s) \subseteq S
    BY DEF Entered, CanEnter, External
  <2>2. S \in SUBSET input.declared
    OBVIOUS
  <2> HIDE DEF S
  <2>3. e \in S
    BY <2>1, <2>2 DEF Reached
  <2> QED BY <2>3 DEF S
<1> QED BY <1>1, <1>2, <1>4, <1>5, <1>6

\* A set of entities whose texts lead only into it.
Closed(D) == D \in SUBSET Reached /\ \A e \in D : Entered(input.body[e]) \subseteq D

\* One level more says the same of the texts of D.
Steady(D, k) == \A e \in D : Told[k + 1][input.body[e]] = Told[k][input.body[e]]

\* A level says the same as the one before if that holds one level lower for the
\* entities that a text leads into, or if there are none.
LEMMA SteadyText ==
  ASSUME InputOK(input), NEW N, N = Cardinality(Entities), NEW k \in 0 .. N - 1, NEW s \in Texts,
         NEW E, Entered(s) \subseteq E, k = 0 => E = {}, k # 0 => Steady(E, k - 1)
  PROVE  Told[k + 1][s] = Told[k][s]
<1>1. /\ N \in Nat
      /\ \A n \in 0 .. N : \A r \in Texts :
           Told[n][r] = FlattenSeq([i \in DOMAIN r |-> Piece(n, Told, r, i)])
  BY ToldIs
<1>2. k \in 0 .. N /\ k + 1 \in 0 .. N /\ (k + 1) - 1 = k /\ k + 1 > 0
  BY <1>1
<1>3. ASSUME NEW i \in DOMAIN s PROVE Piece(k + 1, Told, s, i) = Piece(k, Told, s, i)
  <2> DEFINE e == s[i].e
  <2>1. CASE e \in Entered(s)
    <3>1. e \in E /\ k # 0
      BY <2>1
    <3>2. Told[(k - 1) + 1][input.body[e]] = Told[k - 1][input.body[e]]
      BY <3>1 DEF Steady
    <3>3. (k - 1) + 1 = k /\ k > 0
      BY <1>2, <3>1
    <3>4. Told[(k + 1) - 1][input.body[e]] = Told[k - 1][input.body[e]]
      BY <1>2, <3>2, <3>3
    <3> QED BY <1>2, <3>3, <3>4 DEF Piece
  <2>2. CASE e \notin Entered(s)
    BY <2>2 DEF Piece
  <2> QED BY <2>1, <2>2
<1> DEFINE a == [i \in DOMAIN s |-> Piece(k + 1, Told, s, i)]
           b == [i \in DOMAIN s |-> Piece(k, Told, s, i)]
<1>4. a = b
  BY <1>3
<1>5. Told[k + 1][s] = FlattenSeq(a) /\ Told[k][s] = FlattenSeq(b)
  BY <1>1, <1>2
<1> HIDE DEF a, b
<1> QED BY <1>4, <1>5

\* The texts of m entities, none of which reaches itself, are m levels deep at most.
LEMMA SteadyAfter ==
  ASSUME InputOK(input), ~Cyclic, NEW N, N = Cardinality(Entities)
  PROVE  \A m \in 0 .. N : \A D : Closed(D) /\ Cardinality(D) = m =>
           \A k \in 0 .. N - 1 : k + 1 >= m => Steady(D, k)
<1>1. N \in Nat
  BY ToldIs
<1>2. \A D : Closed(D) => IsFiniteSet(D) /\ Cardinality(D) \in Nat /\ \A e \in D : input.body[e] \in Texts
  BY ReachedIs, FS_Subset, FS_CardinalityType, TextFacts DEF Closed
<1> DEFINE Settles(m) == \A D : Closed(D) /\ Cardinality(D) = m =>
                           \A k \in 0 .. N - 1 : k + 1 >= m => Steady(D, k)
           T == {m \in 0 .. N : Settles(m)}
<1>3. 0 \in T
  <2>1. ASSUME NEW D, Closed(D), Cardinality(D) = 0 PROVE \A k : Steady(D, k)
    <3>1. D = {}
      BY <1>2, <2>1, FS_EmptySet
    <3> QED BY <3>1 DEF Steady
  <2>2. 0 \in 0 .. N
    BY <1>1
  <2> QED BY <2>1, <2>2
<1>4. ASSUME NEW m \in 0 .. N - 1, m \in T PROVE m + 1 \in T
  <2>1. m + 1 \in 0 .. N /\ m \in Nat /\ m + 1 # 0 /\ (m + 1) - 1 = m
    BY <1>1
  <2>2. ASSUME NEW D, Closed(D), Cardinality(D) = m + 1, NEW k \in 0 .. N - 1, k + 1 >= m + 1
        PROVE  Steady(D, k)
    <3>1. D # {}
      BY <2>1, <2>2, FS_EmptySet
    <3>2. D \in SUBSET Reached
      BY <2>2 DEF Closed
    <3>3. PICK e \in D : \A f \in D : e \notin Entered(input.body[f])
      BY <3>1, <3>2 DEF Cyclic
    <3> DEFINE E == D \ {e}
    <3>4. Closed(E)
      BY <2>2, <3>3 DEF Closed
    <3>5. IsFiniteSet(D)
      BY <1>2, <2>2
    <3>6. Cardinality(E) = m
      BY <2>1, <2>2, <3>3, <3>5, FS_RemoveElement
    <3>7. \A f \in D : Entered(input.body[f]) \subseteq E
      BY <2>2, <3>3 DEF Closed
    <3> HIDE DEF E
    <3>8. k = 0 => E = {}
      <4>1. k = 0 => m = 0
        BY <2>1, <2>2
      <4> QED BY <1>2, <3>4, <3>6, <4>1, FS_EmptySet
    <3>9. k # 0 => Steady(E, k - 1)
      <4>1. k # 0 => k - 1 \in 0 .. N - 1 /\ (k - 1) + 1 >= m
        BY <1>1, <2>1, <2>2
      <4>2. Settles(m)
        BY <1>4
      <4> QED BY <3>4, <3>6, <4>1, <4>2
    <3>10. ASSUME NEW f \in D PROVE Told[k + 1][input.body[f]] = Told[k][input.body[f]]
      <4> DEFINE s == input.body[f]
      <4>1. s \in Texts /\ Entered(s) \subseteq E
        BY <1>2, <2>2, <3>7
      <4> HIDE DEF s
      <4>2. Told[k + 1][s] = Told[k][s]
        BY <3>8, <3>9, <4>1, SteadyText
      <4> QED BY <4>2 DEF s
    <3> QED BY <3>10 DEF Steady
  <2> QED BY <2>1, <2>2
<1> HIDE DEF T
<1>5. \A m \in 0 .. N : m \in T
  BY <1>1, <1>3, <1>4, StepByStep
<1> QED BY <1>5 DEF T

\* What the last level but one says of an entity that is reached is right.
LEMMA RightIs ==
  ASSUME InputOK(input), ~Cyclic, NEW N, N = Cardinality(Entities), NEW e \in Reached
  PROVE  N > 0 /\ N - 1 \in 0 .. N /\ Told[N - 1][input.body[e]] = Right(input.body[e])
<1>1. N \in Nat
  BY ToldIs
<1>2. Cardinality(Reached) \in 0 .. N /\ Closed(Reached)
  BY <1>1, ReachedIs DEF Closed
<1>3. N # 0
  <2>1. e \in Entities
    BY ReachedIs
  <2> QED BY <2>1, BoundsAssumption, FS_EmptySet
<1>4. N - 1 \in 0 .. N - 1 /\ (N - 1) + 1 = N /\ N >= Cardinality(Reached)
  BY <1>1, <1>2, <1>3
<1>5. Steady(Reached, N - 1)
  BY <1>2, <1>4, SteadyAfter
<1>6. Told[(N - 1) + 1][input.body[e]] = Told[N - 1][input.body[e]]
  BY <1>5 DEF Steady
<1> QED BY <1>1, <1>3, <1>4, <1>6 DEF Right

-----------------------------------------------------------------------------
(***************************************************************************)
(* What is right, item by item.                                            *)
(***************************************************************************)
\* What a handler is told of an item, where R[e] is what it is told of the text of e.
Says(in, R, item) ==
    IF item.t # "ref" THEN <<item>>
    ELSE (IF CanEnter(in, item.e) /\ (in.noEnt \/ ~in.tree) THEN R[item.e] ELSE <<>>)
         \o (IF in.noEnt /\ item.e \in in.declared THEN <<>> ELSE <<item>>)

\* Heard(in, R, s)[k] is what it is told of the first k items of s, Entire of all.
Saying(in, R, s) == [k \in 1 .. Len(s) |-> Says(in, R, s[k])]
Heard(in, R, s) == CHOOSE h : Joins(Saying(in, R, s), Len(s), h)
Entire(in, R, s) == Heard(in, R, s)[Len(s)]

\* The references of s lead only into Q.
Fits(in, Q, s) ==
    s \in Seq(Item) /\ \A i \in 1 .. Len(s) : s[i].t = "ref" /\ CanEnter(in, s[i].e) => s[i].e \in Q

\* No references.
Bare(s) == \A i \in 1 .. Len(s) : s[i].t # "ref"

\* Q are the entities that are entered, and R[e] is what a handler is told of e.
Table(in, Q, R) ==
    /\ Q \subseteq in.declared /\ R \in [Q -> Seq(Item)] /\ Fits(in, Q, in.doc)
    /\ \A e \in Q : /\ CanEnter(in, e) /\ Fits(in, Q, in.body[e]) /\ Balanced(in.body[e])
                    /\ R[e] = Entire(in, R, in.body[e])
                    /\ in.noEnt => Bare(R[e])
    /\ in.noEnt => in.tree

\* Entities are substituted in a tree, and the texts of those that are reached refer to
\* nothing that is not declared: a replay passes over such a reference, which the first
\* parse keeps.
Resolved ==
    input.noEnt => /\ input.tree
                   /\ \A e \in Reached : \A i \in DOMAIN input.body[e] :
                        input.body[e][i].t = "ref" => input.body[e][i].e \in input.declared

\* What is said of an item.
LEMMA SaysType ==
  ASSUME NEW in, NEW Q, NEW R \in [Q -> Seq(Item)], NEW item \in Item,
         item.t = "ref" /\ CanEnter(in, item.e) => item.e \in Q
  PROVE  Says(in, R, item) \in Seq(Item)
<1> DEFINE a == IF CanEnter(in, item.e) /\ (in.noEnt \/ ~in.tree) THEN R[item.e] ELSE <<>>
           b == IF in.noEnt /\ item.e \in in.declared THEN <<>> ELSE <<item>>
<1>1. <<item>> \in Seq(Item) /\ <<>> \in Seq(Item)
  BY EmptySeq
<1>2. CASE item.t = "ref"
  <2>1. a \in Seq(Item)
    BY <1>1, <1>2
  <2>2. b \in Seq(Item)
    BY <1>1
  <2>3. Says(in, R, item) = a \o b
    BY <1>2 DEF Says
  <2> HIDE DEF a, b
  <2> QED BY <2>1, <2>2, <2>3, ConcatProperties
<1>3. CASE item.t # "ref"
  <2>1. Says(in, R, item) = <<item>>
    BY <1>3 DEF Says
  <2> QED BY <1>1, <2>1
<1> QED BY <1>2, <1>3

\* What a handler is told of a text, item by item.
LEMMA HeardIs ==
  ASSUME NEW in, NEW Q, NEW R \in [Q -> Seq(Item)], NEW s, Fits(in, Q, s)
  PROVE  /\ Len(s) \in Nat /\ Heard(in, R, s)[0] = <<>>
         /\ \A k \in 1 .. Len(s) : /\ Says(in, R, s[k]) \in Seq(Item)
                                   /\ Heard(in, R, s)[k] = Heard(in, R, s)[k - 1] \o Says(in, R, s[k])
         /\ \A k \in 0 .. Len(s) : /\ Heard(in, R, s)[k] \in Seq(Item)
                                   /\ Begins(Heard(in, R, s)[k], Entire(in, R, s))
         /\ Joins(Saying(in, R, s), Len(s), Heard(in, R, s))
<1> DEFINE N == Len(s)
           u == Saying(in, R, s)
           h == Heard(in, R, s)
<1>1. N \in Nat /\ \A k \in 1 .. N : s[k] \in Item
  BY LenProperties, ElementOfSeq DEF Fits
<1>2. \A k \in 1 .. N : u[k] = Says(in, R, s[k])
  BY DEF Saying
<1>3. \A k \in 1 .. N : Says(in, R, s[k]) \in Seq(Item)
  BY <1>1, SaysType DEF Fits
<1> HIDE DEF N, u
<1>4. \E g : Joins(u, N, g)
  BY <1>1, JoinsExist
<1>5. h = CHOOSE g : Joins(u, N, g)
  BY DEF Heard, u, N
<1> HIDE DEF h
<1>6. Joins(u, N, h)
  BY <1>4, <1>5
<1>7. \A k \in 1 .. N : u[k] \in Seq(Item)
  BY <1>2, <1>3
<1>8. /\ \A k \in 0 .. N : h[k] \in Seq(Item)
      /\ \A j \in 0 .. N : \A k \in j .. N : Begins(h[j], h[k])
  BY <1>1, <1>6, <1>7, JoinsType
<1>9. \A k \in 0 .. N : Begins(h[k], h[N])
  <2>1. \A k \in 0 .. N : N \in k .. N
    BY <1>1
  <2> QED BY <1>8, <2>1
<1>10. h[0] = <<>> /\ \A k \in 1 .. N : h[k] = h[k - 1] \o Says(in, R, s[k])
  BY <1>2, <1>6 DEF Joins
<1> QED BY <1>1, <1>3, <1>6, <1>8, <1>9, <1>10 DEF Entire, N, h, u

\* What is right, of the entities that are reached.
Answers == [e \in Reached |-> Right(input.body[e])]

\* In a text that leads only to entities that are reached, the last level says of each
\* item what is right.
LEMMA PieceSays ==
  ASSUME InputOK(input), ~Cyclic, NEW N, N = Cardinality(Entities), NEW s \in Texts,
         Entered(s) \subseteq Reached, NEW i \in 1 .. Len(s)
  PROVE  Piece(N, Told, s, i) = Says(input, Answers, s[i])
<1>1. s[i] \in Item /\ DOMAIN s = 1 .. Len(s)
  BY TextFacts
<1>2. CASE s[i].t # "ref"
  BY <1>2 DEF Piece, Says
<1>3. CASE s[i].t = "ref"
  <2> DEFINE e == s[i].e
  <2>1. s[i] = Reference(e) /\ e \in Entities
    BY <1>1, <1>3 DEF Item, Reference
  <2>2. e \in Entered(s) <=> CanEnter(input, e)
    BY <1>1, <2>1 DEF Entered, CanEnter, External
  <2>3. CASE CanEnter(input, e)
    <3>1. e \in Reached
      BY <2>2, <2>3
    <3>2. N > 0 /\ Told[N - 1][input.body[e]] = Right(input.body[e])
      BY <3>1, RightIs
    <3>3. Answers[e] = Right(input.body[e])
      BY <3>1 DEF Answers
    <3> QED BY <1>3, <2>2, <2>3, <3>2, <3>3 DEF Piece, Says
  <2>4. CASE ~CanEnter(input, e)
    BY <1>3, <2>2, <2>4 DEF Piece, Says
  <2> QED BY <2>3, <2>4
<1> QED BY <1>2, <1>3

\* A text that leads only to entities that are reached, as a whole.
LEMMA EntireIs ==
  ASSUME InputOK(input), ~Cyclic, NEW s \in Texts, Entered(s) \subseteq Reached
  PROVE  /\ Fits(input, Reached, s) /\ Answers \in [Reached -> Seq(Item)]
         /\ Right(s) = Entire(input, Answers, s)
<1> DEFINE N == Cardinality(Entities)
<1>1. N \in Nat /\ \A n \in 0 .. N : \A r \in Texts : Told[n][r] \in Seq(Item)
  BY ToldType
<1>2. \A r \in Texts : Told[N][r] = FlattenSeq([i \in DOMAIN r |-> Piece(N, Told, r, i)])
  BY <1>1, ToldIs
<1>3. \A r \in Texts : Right(r) = Told[N][r] /\ Right(r) \in Seq(Item)
  BY <1>1 DEF Right
<1>4. Answers \in [Reached -> Seq(Item)]
  <2>1. \A e \in Reached : input.body[e] \in Texts
    BY ReachedIs, TextFacts
  <2>2. \A e \in Reached : Right(input.body[e]) \in Seq(Item)
    BY <1>3, <2>1
  <2> QED BY <2>2 DEF Answers
<1>5. s \in Seq(Item) /\ DOMAIN s = 1 .. Len(s) /\ \A i \in 1 .. Len(s) : s[i] \in Item
  BY TextFacts
<1>6. Fits(input, Reached, s)
  <2> SUFFICES ASSUME NEW i \in 1 .. Len(s), s[i].t = "ref", CanEnter(input, s[i].e)
               PROVE  s[i].e \in Reached
    BY <1>5 DEF Fits
  <2>1. s[i] = Reference(s[i].e)
    BY <1>5 DEF Item, Reference
  <2>2. s[i].e \in Entered(s)
    BY <1>5, <2>1 DEF Entered, CanEnter, External
  <2> QED BY <2>2
<1> DEFINE u == Saying(input, Answers, s)
           h == Heard(input, Answers, s)
<1>7. Joins(u, Len(s), h)
  BY <1>4, <1>6, HeardIs
<1> HIDE DEF N
<1>8. \A i \in 1 .. Len(s) : u[i] = Piece(N, Told, s, i)
  <2>1. \A i \in 1 .. Len(s) : Piece(N, Told, s, i) = Says(input, Answers, s[i])
    BY PieceSays DEF N
  <2> QED BY <2>1 DEF Saying
<1>9. N > 0 => \A r \in Texts : Told[N - 1][r] \in Seq(Item)
  <2>1. N > 0 => N - 1 \in 0 .. N
    BY <1>1
  <2> QED BY <1>1, <2>1
<1> HIDE DEF u, h
<1>10. FlattenSeq([i \in DOMAIN s |-> Piece(N, Told, s, i)]) = h[Len(s)]
  <2>1. InputOK(input) /\ N \in Nat /\ s \in Texts
    BY <1>1
  <2>2. /\ FlattenSeq([i \in DOMAIN s |-> Piece(N, Told, s, i)]) = h[Len(s)]
        /\ h[Len(s)] \in Seq(Item)
    BY ONLY <1>7, <1>8, <1>9, <2>1, PiecesAre
  <2> QED BY <2>2
<1> QED BY <1>2, <1>3, <1>4, <1>6, <1>10 DEF Entire, h

\* Two sequences without references, one after the other.
LEMMA BareTogether ==
  ASSUME NEW a \in Seq(Item), NEW b \in Seq(Item), Bare(a), Bare(b)
  PROVE  Bare(a \o b)
<1>1. Len(a) \in Nat /\ Len(b) \in Nat
  BY LenProperties
<1>2. /\ Len(a \o b) = Len(a) + Len(b)
      /\ \A i \in 1 .. Len(a) + Len(b) :
           (a \o b)[i] = IF i <= Len(a) THEN a[i] ELSE b[i - Len(a)]
  BY ConcatProperties
<1>3. ASSUME NEW i \in 1 .. Len(a) + Len(b) PROVE (a \o b)[i].t # "ref"
  <2>1. CASE i <= Len(a)
    <3>1. i \in 1 .. Len(a) /\ (a \o b)[i] = a[i]
      BY <1>1, <1>2, <2>1
    <3> QED BY <3>1 DEF Bare
  <2>2. CASE ~(i <= Len(a))
    <3>1. i - Len(a) \in 1 .. Len(b) /\ (a \o b)[i] = b[i - Len(a)]
      BY <1>1, <1>2, <2>2
    <3> QED BY <3>1 DEF Bare
  <2> QED BY <2>1, <2>2
<1> QED BY <1>2, <1>3 DEF Bare

\* A sequence without references is replayed as it is.
LEMMA BarePlain ==
  ASSUME NEW s \in Seq(Item), Bare(s)
  PROVE  Plain(s) = s
<1> DEFINE N == Len(s)
<1>1. N \in Nat /\ \A k \in 1 .. N : s[k] \in Item /\ s[k].t # "ref"
  BY LenProperties, ElementOfSeq DEF Bare
<1>2. PICK f : Plainly(s, f, N) /\ Plain(s) = f[N]
  BY <1>1, PlainIs
<1> DEFINE T == {k \in 0 .. N : /\ f[k] \in Seq(Item) /\ Len(f[k]) = k
                                /\ \A i \in 1 .. k : f[k][i] = s[i]}
<1> HIDE DEF N
<1>3. 0 \in T
  <2> DEFINE g == f[0]
  <2>1. g = <<>> /\ <<>> \in Seq(Item) /\ Len(<<>>) = 0
    BY <1>2, EmptySeq DEF Plainly
  <2> HIDE DEF g
  <2>2. g \in Seq(Item) /\ Len(g) = 0
    BY <2>1
  <2>3. 0 \in 0 .. N /\ \A i \in 1 .. 0 : g[i] = s[i]
    BY <1>1
  <2> QED BY <2>2, <2>3 DEF g
<1>4. ASSUME NEW k \in 0 .. N - 1, k \in T PROVE k + 1 \in T
  <2>1. k + 1 \in 1 .. N /\ k + 1 \in 0 .. N /\ (k + 1) - 1 = k /\ k \in Nat
    BY <1>1
  <2> DEFINE g == f[k]
             m == k + 1
  <2>2. f[m] = Append(g, s[m]) /\ s[m] \in Item
    BY <1>1, <1>2, <2>1 DEF Plainly, WithItem
  <2>3. g \in Seq(Item) /\ Len(g) = k /\ \A i \in 1 .. k : g[i] = s[i]
    BY <1>4
  <2> HIDE DEF g, T
  <2>4. /\ f[m] \in Seq(Item) /\ Len(f[m]) = Len(g) + 1 /\ f[m][Len(g) + 1] = s[m]
        /\ \A i \in 1 .. Len(g) : f[m][i] = g[i]
    BY <2>2, <2>3, AppendIs DEF m
  <2>5. Len(f[m]) = m /\ f[m][m] = s[m] /\ m \in 0 .. N
    BY <2>1, <2>3, <2>4
  <2>6. ASSUME NEW i \in 1 .. m PROVE f[m][i] = s[i]
    <3>1. i = m \/ i \in 1 .. k
      BY <2>1
    <3> QED BY <2>3, <2>4, <2>5, <3>1
  <2> QED BY <2>4, <2>5, <2>6 DEF T
<1> HIDE DEF T
<1>5. \A k \in 0 .. N : k \in T
  BY <1>1, <1>3, <1>4, StepByStep
<1>6. N \in T
  BY <1>1, <1>5
<1>7. f[N] \in Seq(Item) /\ Len(f[N]) = Len(s) /\ \A i \in 1 .. Len(s) : f[N][i] = s[i]
  BY <1>6 DEF T, N
<1>8. f[N] = s
  BY <1>7, SeqEqual
<1> QED BY <1>2, <1>8 DEF N


\* A sequence made of sequences without references has none.
LEMMA JoinsBare ==
  ASSUME NEW N \in Nat, NEW u, \A k \in 1 .. N : u[k] \in Seq(Item) /\ Bare(u[k]),
         NEW h, Joins(u, N, h)
  PROVE  \A k \in 0 .. N : Bare(h[k])
<1>1. \A k \in 0 .. N : h[k] \in Seq(Item)
  BY JoinsType
<1> DEFINE T == {k \in 0 .. N : Bare(h[k])}
<1>2. 0 \in T
  <2>1. h[0] = <<>> /\ Len(<<>>) = 0
    BY EmptySeq DEF Joins
  <2> QED BY <2>1 DEF Bare
<1>3. ASSUME NEW k \in 0 .. N - 1, k \in T PROVE k + 1 \in T
  <2>1. k + 1 \in 1 .. N /\ k + 1 \in 0 .. N /\ (k + 1) - 1 = k /\ k \in 0 .. N
    OBVIOUS
  <2> DEFINE a == h[k]
             b == u[k + 1]
  <2>2. h[k + 1] = a \o b /\ a \in Seq(Item) /\ b \in Seq(Item) /\ Bare(a) /\ Bare(b)
    BY <1>1, <1>3, <2>1 DEF Joins
  <2> HIDE DEF a, b
  <2>3. Bare(a \o b)
    BY <2>2, BareTogether
  <2> QED BY <2>1, <2>2, <2>3
<1> HIDE DEF T
<1>4. \A k \in 0 .. N : k \in T
  BY <1>2, <1>3, StepByStep
<1> QED BY <1>4 DEF T

\* When entities are substituted, what is right of one has no references.
LEMMA AnswersBare ==
  ASSUME InputOK(input), Resolved, input.noEnt
  PROVE  \A e \in Reached : Bare(Right(input.body[e]))
<1> DEFINE N == Cardinality(Entities)
           T == {n \in 0 .. N : \A e \in Reached : Bare(Told[n][input.body[e]])}
<1>1. N \in Nat /\ \A n \in 0 .. N : \A r \in Texts : Told[n][r] \in Seq(Item)
  BY ToldType
<1>2. \A n \in 0 .. N : \A r \in Texts :
        Told[n][r] = FlattenSeq([i \in DOMAIN r |-> Piece(n, Told, r, i)])
  BY ToldIs
<1>3. ASSUME NEW n \in 0 .. N, n > 0 => n - 1 \in 0 .. N /\ n - 1 \in T, NEW e \in Reached
      PROVE  Bare(Told[n][input.body[e]])
  <2> DEFINE s == input.body[e]
             u == [i \in 1 .. Len(s) |-> Piece(n, Told, s, i)]
  <2>1. s \in Texts /\ Entered(s) \subseteq Reached
    BY ReachedIs, TextFacts
  <2>2. DOMAIN s = 1 .. Len(s) /\ Len(s) \in Nat /\ \A i \in 1 .. Len(s) : s[i] \in Item
    BY <2>1, TextFacts
  <2>3. \A i \in 1 .. Len(s) : s[i].t = "ref" => s[i].e \in input.declared
    BY <2>2 DEF Resolved
  <2> HIDE DEF s
  <2>4. ASSUME NEW i \in 1 .. Len(s) PROVE Bare(Piece(n, Told, s, i))
    <3>1. CASE s[i].t # "ref"
      <4>1. Piece(n, Told, s, i) = <<s[i]>>
        BY <3>1 DEF Piece
      <4>2. Len(<<s[i]>>) = 1 /\ <<s[i]>>[1] = s[i]
        OBVIOUS
      <4> QED BY <3>1, <4>1, <4>2 DEF Bare
    <3>2. CASE s[i].t = "ref"
      <4> DEFINE a == IF n > 0 /\ s[i].e \in Entered(s) /\ (input.noEnt \/ ~input.tree)
                      THEN Told[n - 1][input.body[s[i].e]] ELSE <<>>
      <4>1. Piece(n, Told, s, i) = a \o <<>>
        BY <2>3, <3>2 DEF Piece
      <4>2. a \in Seq(Item) /\ Bare(a)
        <5>1. <<>> \in Seq(Item) /\ Bare(<<>>)
          BY EmptySeq DEF Bare
        <5>2. CASE n > 0 /\ s[i].e \in Entered(s) /\ (input.noEnt \/ ~input.tree)
          <6>1. a = Told[n - 1][input.body[s[i].e]] /\ s[i].e \in Reached
            BY <2>1, <5>2
          <6>2. input.body[s[i].e] \in Texts
            BY <6>1, ReachedIs, TextFacts
          <6> QED BY <1>1, <1>3, <5>2, <6>1, <6>2
        <5>3. CASE ~(n > 0 /\ s[i].e \in Entered(s) /\ (input.noEnt \/ ~input.tree))
          BY <5>1, <5>3
        <5> QED BY <5>2, <5>3
      <4> HIDE DEF a
      <4>3. a \o <<>> = a
        BY <4>2, ConcatEmptySeq
      <4> QED BY <4>1, <4>2, <4>3
    <3> QED BY <3>1, <3>2
  <2>5. n > 0 => \A r \in Texts : Told[n - 1][r] \in Seq(Item)
    BY <1>1, <1>3
  <2>6. n \in Nat
    BY <1>1
  <2>7. \A i \in 1 .. Len(s) : Piece(n, Told, s, i) \in Seq(Item)
    BY <2>1, <2>5, <2>6, PieceType
  <2>8. \A i \in 1 .. Len(s) : u[i] = Piece(n, Told, s, i)
    OBVIOUS
  <2> HIDE DEF u
  <2>9. PICK h : Joins(u, Len(s), h)
    BY <2>2, JoinsExist
  <2>10. Told[n][s] = h[Len(s)]
    <3>1. /\ FlattenSeq([i \in DOMAIN s |-> Piece(n, Told, s, i)]) = h[Len(s)]
          /\ h[Len(s)] \in Seq(Item)
      BY <2>1, <2>5, <2>6, <2>8, <2>9, PiecesAre
    <3> QED BY <1>2, <2>1, <3>1
  <2>11. \A i \in 1 .. Len(s) : u[i] \in Seq(Item) /\ Bare(u[i])
    BY <2>4, <2>7, <2>8
  <2>12. Bare(h[Len(s)])
    <3>1. Len(s) \in 0 .. Len(s)
      BY <2>2
    <3> QED BY <2>2, <2>9, <2>11, <3>1, JoinsBare
  <2> QED BY <2>10, <2>12 DEF s
<1> HIDE DEF N
<1>4. 0 \in T
  <2>1. 0 \in 0 .. N /\ ~(0 > 0)
    BY <1>1
  <2> QED BY <1>3, <2>1
<1>5. ASSUME NEW n \in 0 .. N - 1, n \in T PROVE n + 1 \in T
  <2>1. n + 1 \in 0 .. N /\ (n + 1) - 1 = n /\ n \in 0 .. N
    BY <1>1
  <2> DEFINE m == n + 1
  <2>2. m \in 0 .. N /\ m - 1 = n
    BY <2>1
  <2> HIDE DEF m, T
  <2>3. m > 0 => m - 1 \in 0 .. N /\ m - 1 \in T
    BY <1>5, <2>1, <2>2
  <2>4. \A e \in Reached : Bare(Told[m][input.body[e]])
    BY <1>3, <2>2, <2>3
  <2> QED BY <2>2, <2>4 DEF T, m
<1> HIDE DEF T
<1>6. \A n \in 0 .. N : n \in T
  BY <1>1, <1>4, <1>5, StepByStep
<1>7. N \in T
  BY <1>1, <1>6
<1> QED BY <1>7 DEF T, N, Right

\* What is right makes a table.
LEMMA TableIs ==
  ASSUME InputOK(input), WellFormed, Resolved
  PROVE  /\ Table(input, Reached, Answers)
         /\ Right(input.doc) = Entire(input, Answers, input.doc)
<1>1. ~Cyclic /\ \A e \in Reached : Balanced(input.body[e])
  BY DEF WellFormed
<1>2. /\ Reached \subseteq input.declared /\ Entered(input.doc) \subseteq Reached
      /\ \A e \in Reached : CanEnter(input, e) /\ Entered(input.body[e]) \subseteq Reached
  BY ReachedIs
<1>3. input.doc \in Texts /\ \A e \in Reached : input.body[e] \in Texts
  BY <1>2, TextFacts
<1>4. /\ Fits(input, Reached, input.doc) /\ Answers \in [Reached -> Seq(Item)]
      /\ Right(input.doc) = Entire(input, Answers, input.doc)
  BY <1>1, <1>2, <1>3, EntireIs
<1>5. ASSUME NEW e \in Reached
      PROVE  /\ Fits(input, Reached, input.body[e])
             /\ Answers[e] = Entire(input, Answers, input.body[e])
             /\ input.noEnt => Bare(Answers[e])
  <2>1. Answers[e] = Right(input.body[e])
    BY DEF Answers
  <2> DEFINE s == input.body[e]
  <2>2. s \in Texts /\ Entered(s) \subseteq Reached
    BY <1>2, <1>3
  <2> HIDE DEF s
  <2>3. Fits(input, Reached, s) /\ Right(s) = Entire(input, Answers, s)
    BY <1>1, <2>2, EntireIs
  <2>4. input.noEnt => Bare(Right(input.body[e]))
    BY <1>1, AnswersBare
  <2> QED BY <2>1, <2>3, <2>4 DEF s
<1> QED BY <1>1, <1>2, <1>4, <1>5 DEF Table, Resolved

-----------------------------------------------------------------------------
(***************************************************************************)
(* What the contexts have told.                                            *)
(***************************************************************************)
\* What is to be told of the text of f before its last d - 1 items that were read.
Line(in, R, f, d) == Heard(in, R, f.src)[f.pos - d]

\* The k-th context f reads the document or the text of an entity that is entered.
Sits(in, Q, ents, k, f) ==
    /\ k = 1 => f.e = NoEntity /\ f.src = in.doc
    /\ k # 1 => f.e \in Q /\ f.src = in.body[f.e]
    /\ k # 1 /\ f.turn = "again" => ents[f.e].checked
    /\ f.turn = "first" /\ f.was => in.noEnt
    /\ f.pos \in 1 .. Len(f.src) + 1 /\ f.open = Depth(f.src, f.pos - 1)
    /\ ~in.tree => f.built = <<>>

\* The item that f read last is a reference to e.
Refers(f, e) == f.pos >= 2 /\ f.src[f.pos - 1] = Reference(e)

\* Each context was opened for the reference that the one below read last.
Posted(in, Q, x) ==
    /\ \A k \in 1 .. Len(x.frames) : Sits(in, Q, x.ents, k, x.frames[k])
    /\ \A k \in 1 .. Len(x.frames) - 1 : Refers(x.frames[k], x.frames[k + 1].e)

\* What is kept with e is right.
Learns(in, Q, R, e, d) ==
    /\ d.checked => e \in Q \/ (e \in in.external /\ in.noXXE)
    /\ in.noEnt => d.kids = IF d.checked /\ e \in Q THEN R[e] ELSE <<>>
    /\ ~in.tree => d.kids = <<>>

Learnt(in, Q, R, ents) == \A e \in in.declared : Learns(in, Q, R, e, ents[e])

\* Where the k-th context builds its tree.
Own(x, k) == IF k = 1 THEN x.out ELSE x.frames[k].built

\* In a tree, t is what the context on top has built, and each of the others holds
\* what comes before the reference that it read last.
ToldTree(in, R, x, t) ==
    /\ Own(x, Len(x.frames)) = t
    /\ \A k \in 1 .. Len(x.frames) - 1 : Own(x, k) = Line(in, R, x.frames[k], 2)

\* b[k] is what the contexts below the k-th have told a handler of events.
Stack(in, R, x, b) ==
    /\ b \in [1 .. Len(x.frames) -> Seq(Item)] /\ b[1] = <<>>
    /\ \A k \in 2 .. Len(x.frames) : b[k] = b[k - 1] \o Line(in, R, x.frames[k - 1], 2)

ToldFlat(in, R, x, t) == \E b : Stack(in, R, x, b) /\ x.out = b[Len(x.frames)] \o t

\* The context on top has told t, and the others what they should.
Tells(in, Q, R, x, t) ==
    /\ Typed(in, x) /\ t \in Seq(Item) /\ Posted(in, Q, x) /\ Learnt(in, Q, R, x.ents)
    /\ in.tree => ToldTree(in, R, x, t)
    /\ ~in.tree => ToldFlat(in, R, x, t)

\* The context on top has told the beginning of what it should, and all it has read
\* as long as the parser goes on.
Between(in, Q, R, x) ==
    \E t : /\ Tells(in, Q, R, x, t) /\ Begins(t, Entire(in, R, Top(x).src))
           /\ x.status = "running" => t = Line(in, R, Top(x), 1)
           /\ x.status = "done" => x.out = Entire(in, R, in.doc)

\* What is to be told of the text of a context, up to where it is.
LEMMA LineIs ==
  ASSUME NEW in, NEW Q, NEW R, Table(in, Q, R), NEW ents, NEW k, NEW f, Sits(in, Q, ents, k, f)
  PROVE  /\ Fits(in, Q, f.src) /\ Len(f.src) \in Nat /\ f.pos \in Nat /\ f.pos >= 1
         /\ Entire(in, R, f.src) \in Seq(Item)
         /\ Line(in, R, f, 1) \in Seq(Item) /\ Begins(Line(in, R, f, 1), Entire(in, R, f.src))
         /\ f.pos = 1 => Line(in, R, f, 1) = <<>>
         /\ f.pos = Len(f.src) + 1 => Line(in, R, f, 1) = Entire(in, R, f.src)
         /\ f.pos >= 2 => /\ Line(in, R, f, 2) \in Seq(Item)
                          /\ Says(in, R, f.src[f.pos - 1]) \in Seq(Item)
                          /\ Line(in, R, f, 1) = Line(in, R, f, 2) \o Says(in, R, f.src[f.pos - 1])
                          /\ Begins(Line(in, R, f, 2), Entire(in, R, f.src))
<1> DEFINE s == f.src
<1>1. Fits(in, Q, s) /\ R \in [Q -> Seq(Item)]
  BY DEF Sits, Table
<1>2. f.pos \in 1 .. Len(s) + 1
  BY DEF Sits
<1> HIDE DEF s
<1>3. /\ Len(s) \in Nat /\ Heard(in, R, s)[0] = <<>>
      /\ \A i \in 1 .. Len(s) : /\ Says(in, R, s[i]) \in Seq(Item)
                                /\ Heard(in, R, s)[i] = Heard(in, R, s)[i - 1] \o Says(in, R, s[i])
      /\ \A i \in 0 .. Len(s) : /\ Heard(in, R, s)[i] \in Seq(Item)
                                /\ Begins(Heard(in, R, s)[i], Entire(in, R, s))
      /\ Joins(Saying(in, R, s), Len(s), Heard(in, R, s))
  BY <1>1, HeardIs
<1> DEFINE h == Heard(in, R, s)
           N == Len(s)
           j == f.pos - 1
<1>4. /\ Entire(in, R, s) = h[N] /\ N \in Nat /\ h[0] = <<>> /\ f.pos \in 1 .. N + 1
      /\ \A i \in 1 .. N : Says(in, R, s[i]) \in Seq(Item) /\ h[i] = h[i - 1] \o Says(in, R, s[i])
      /\ \A i \in 0 .. N : h[i] \in Seq(Item) /\ Begins(h[i], Entire(in, R, s))
  BY <1>2, <1>3 DEF Entire
<1> HIDE DEF h, N
<1>5. N \in 0 .. N /\ j \in 0 .. N /\ f.pos \in Nat /\ f.pos >= 1
  BY <1>4
<1>6. f.pos = N + 1 => j = N
  BY <1>4
<1>7. f.pos >= 2 => j \in 1 .. N /\ j - 1 \in 0 .. N /\ j - 1 = f.pos - 2
  BY <1>4
<1>8. Line(in, R, f, 1) = h[j] /\ Line(in, R, f, 2) = h[f.pos - 2]
  BY DEF Line, h, s
<1>9. f.pos >= 2 => /\ h[f.pos - 2] \in Seq(Item) /\ Says(in, R, s[j]) \in Seq(Item)
                    /\ h[j] = h[f.pos - 2] \o Says(in, R, s[j])
                    /\ Begins(h[f.pos - 2], Entire(in, R, s))
  BY <1>4, <1>7
<1>10. f.pos = 1 => j = 0
  BY <1>4
<1> QED BY <1>1, <1>4, <1>5, <1>6, <1>8, <1>9, <1>10 DEF s, N

\* The context on top tells more, or only goes on.
LEMMA TurnTells ==
  ASSUME NEW in, NEW Q, NEW R, NEW x, NEW t, Tells(in, Q, R, x, t), NEW f, f = Top(x),
         NEW c, NEW y, Typed(in, y), Swapped(x.frames, y.frames, c), y.ents = x.ents, c.e = f.e,
         Sits(in, Q, x.ents, Len(x.frames), c),
         NEW items \in Seq(Item), Given(in, x, y, f, c, items)
  PROVE  Tells(in, Q, R, y, t \o items)
<1> DEFINE n == Len(x.frames)
<1>1. /\ n \in Nat \ {0} /\ x.frames[n] = f /\ Len(y.frames) = n /\ y.frames[n] = c
      /\ \A k \in 1 .. n - 1 : y.frames[k] = x.frames[k]
  <2>1. n \in Nat \ {0} /\ x.frames[n] = f
    BY TopIs DEF Tells
  <2> QED BY <2>1 DEF Swapped
<1>2. t \in Seq(Item) /\ t \o items \in Seq(Item)
  BY ConcatProperties DEF Tells
<1>3. /\ \A k \in 1 .. n : Sits(in, Q, x.ents, k, x.frames[k])
      /\ \A k \in 1 .. n - 1 : Refers(x.frames[k], x.frames[k + 1].e)
  BY DEF Tells, Posted
<1>4. Sits(in, Q, x.ents, n, c)
  OBVIOUS
<1> HIDE DEF n
<1>5. \A k \in 1 .. n : k = n \/ k \in 1 .. n - 1
  BY <1>1
<1>6. \A k \in 1 .. n - 1 : k + 1 \in 1 .. n /\ k \in 1 .. n /\ k # n
  BY <1>1
<1>7. \A k \in 1 .. n : y.frames[k].e = x.frames[k].e
  BY <1>1, <1>5
<1>8. Posted(in, Q, y)
  <2>1. \A k \in 1 .. n : Sits(in, Q, y.ents, k, y.frames[k])
    BY <1>1, <1>3, <1>4, <1>5
  <2>2. \A k \in 1 .. n - 1 : Refers(y.frames[k], y.frames[k + 1].e)
    BY <1>1, <1>3, <1>6, <1>7
  <2> QED BY <1>1, <2>1, <2>2 DEF Posted
<1>9. Learnt(in, Q, R, y.ents)
  BY DEF Tells
<1>10. ASSUME in.tree PROVE ToldTree(in, R, y, t \o items)
  <2>1. Own(x, n) = t /\ \A k \in 1 .. n - 1 : Own(x, k) = Line(in, R, x.frames[k], 2)
    BY <1>10 DEF Tells, ToldTree, n
  <2>2. CASE n > 1
    <3>1. y.out = x.out /\ c.built = f.built \o items
      BY <1>10, <2>2 DEF Given, n
    <3>2. n # 1
      BY <2>2
    <3>3. Own(y, n) = t \o items
      BY <1>1, <2>1, <3>1, <3>2 DEF Own
    <3>4. \A k \in 1 .. n - 1 : Own(y, k) = Own(x, k)
      BY <1>1, <3>1 DEF Own
    <3> QED BY <1>1, <2>1, <3>3, <3>4 DEF ToldTree
  <2>3. CASE ~(n > 1)
    <3>1. n = 1 /\ 1 .. n - 1 = {}
      BY <1>1, <2>3
    <3>2. y.out = x.out \o items
      BY <2>3 DEF Given, n
    <3> QED BY <1>1, <2>1, <3>1, <3>2 DEF Own, ToldTree
  <2> QED BY <2>2, <2>3
<1>11. ASSUME ~in.tree PROVE ToldFlat(in, R, y, t \o items)
  <2>1. PICK b : Stack(in, R, x, b) /\ x.out = b[n] \o t
    BY <1>11 DEF Tells, ToldFlat, n
  <2>2. /\ b \in [1 .. n -> Seq(Item)] /\ b[1] = <<>>
        /\ \A k \in 2 .. n : b[k] = b[k - 1] \o Line(in, R, x.frames[k - 1], 2)
    BY <2>1 DEF Stack, n
  <2>3. \A k \in 2 .. n : k - 1 \in 1 .. n - 1
    BY <1>1
  <2>4. Stack(in, R, y, b)
    BY <1>1, <2>2, <2>3 DEF Stack
  <2>5. b[n] \in Seq(Item)
    BY <1>1, <2>2
  <2>6. y.out = x.out \o items
    BY <1>11 DEF Given
  <2> DEFINE a == b[n]
  <2>7. y.out = a \o (t \o items)
    <3>1. a \in Seq(Item) /\ y.out = (a \o t) \o items
      BY <2>1, <2>5, <2>6
    <3> HIDE DEF a
    <3>2. t \in Seq(Item) /\ items \in Seq(Item)
      BY <1>2
    <3>3. (a \o t) \o items = a \o (t \o items)
      BY ONLY <3>1, <3>2, ThreeInARow
    <3> QED BY <3>1, <3>3
  <2> QED BY <1>1, <2>4, <2>7 DEF ToldFlat
<1> QED BY <1>2, <1>8, <1>9, <1>10, <1>11 DEF Tells

\* A context is opened for the reference that the one on top read last.
LEMMA OpenTells ==
  ASSUME NEW in, NEW Q, NEW R, NEW x, NEW t, Tells(in, Q, R, x, t), NEW f, f = Top(x),
         t = Line(in, R, f, 2), NEW c \in Frame, NEW y, Typed(in, y), Opened(x, y, c),
         Refers(f, c.e), Sits(in, Q, x.ents, Len(x.frames) + 1, c), c.built = <<>>
  PROVE  Tells(in, Q, R, y, <<>>)
<1> DEFINE n == Len(x.frames)
<1>1. /\ n \in Nat \ {0} /\ x.frames[n] = f /\ Len(y.frames) = n + 1 /\ y.frames[n + 1] = c
      /\ \A k \in 1 .. n : y.frames[k] = x.frames[k]
      /\ y.ents = x.ents /\ y.out = x.out
  <2>1. n \in Nat \ {0} /\ x.frames[n] = f
    BY TopIs DEF Tells
  <2>2. Typed(in, x)
    BY DEF Tells
  <2>3. /\ n \in Nat \ {0} /\ Len(y.frames) = n + 1 /\ y.frames[n + 1] = c
        /\ \A k \in 1 .. n : y.frames[k] = x.frames[k]
        /\ \A k \in 1 .. n + 1 : k \in 1 .. n \/ k = n + 1
    BY <2>2, OpenedIs
  <2> QED BY <2>1, <2>3 DEF Opened
<1>2. t \in Seq(Item) /\ <<>> \in Seq(Item)
  BY EmptySeq DEF Tells
<1>3. /\ \A k \in 1 .. n : Sits(in, Q, x.ents, k, x.frames[k])
      /\ \A k \in 1 .. n - 1 : Refers(x.frames[k], x.frames[k + 1].e)
  BY DEF Tells, Posted
<1>4. Sits(in, Q, x.ents, n + 1, c)
  OBVIOUS
<1> DEFINE m == n + 1
<1> HIDE DEF n
<1>5. /\ m \in Nat /\ m # 1 /\ m - 1 = n /\ n \in 1 .. n /\ n \in 1 .. m - 1 /\ 1 # m /\ 1 \in 1 .. n
      /\ \A k \in 1 .. m : k = m \/ k \in 1 .. n
      /\ \A k \in 1 .. m - 1 : k \in 1 .. n /\ (k = n \/ (k \in 1 .. n - 1 /\ k + 1 \in 1 .. n))
  BY <1>1
<1>6. Posted(in, Q, y)
  <2>1. \A k \in 1 .. m : Sits(in, Q, y.ents, k, y.frames[k])
    BY <1>1, <1>3, <1>4, <1>5
  <2>2. ASSUME NEW k \in 1 .. m - 1 PROVE Refers(y.frames[k], y.frames[k + 1].e)
    <3>1. CASE k = n
      BY <1>1, <1>5, <3>1
    <3>2. CASE k # n
      <4>1. k \in 1 .. n - 1 /\ k + 1 \in 1 .. n /\ k \in 1 .. n
        BY <1>5, <3>2
      <4> QED BY <1>1, <1>3, <4>1
    <3> QED BY <3>1, <3>2
  <2> QED BY <1>1, <2>1, <2>2 DEF Posted
<1>7. Learnt(in, Q, R, y.ents)
  BY <1>1 DEF Tells
<1>8. ASSUME in.tree PROVE ToldTree(in, R, y, <<>>)
  <2>1. Own(x, n) = t /\ \A k \in 1 .. n - 1 : Own(x, k) = Line(in, R, x.frames[k], 2)
    BY <1>8 DEF Tells, ToldTree, n
  <2>2. Own(y, m) = <<>>
    BY <1>1, <1>5 DEF Own
  <2>3. \A k \in 1 .. n : Own(y, k) = Own(x, k)
    BY <1>1 DEF Own
  <2>4. ASSUME NEW k \in 1 .. m - 1 PROVE Own(y, k) = Line(in, R, y.frames[k], 2)
    <3>1. CASE k = n
      BY <1>1, <1>5, <2>1, <2>3, <3>1
    <3>2. CASE k # n
      BY <1>1, <1>5, <2>1, <2>3, <3>2
    <3> QED BY <3>1, <3>2
  <2> QED BY <1>1, <2>2, <2>4 DEF ToldTree
<1>9. ASSUME ~in.tree PROVE ToldFlat(in, R, y, <<>>)
  <2>1. PICK b : Stack(in, R, x, b) /\ x.out = b[n] \o t
    BY <1>9 DEF Tells, ToldFlat, n
  <2>2. /\ b \in [1 .. n -> Seq(Item)] /\ b[1] = <<>>
        /\ \A k \in 2 .. n : b[k] = b[k - 1] \o Line(in, R, x.frames[k - 1], 2)
    BY <2>1 DEF Stack, n
  <2> DEFINE v == b[n] \o t
             q == More(b, n, v)
  <2>3. v \in Seq(Item)
    <3>1. b[n] \in Seq(Item)
      BY <1>5, <2>2
    <3> QED BY <1>2, <3>1, ConcatProperties
  <2>4. q[m] = v /\ \A k \in 1 .. n : q[k] = b[k]
    BY <1>1 DEF More
  <2> HIDE DEF v
  <2>5. q \in [1 .. m -> Seq(Item)]
    BY <1>1, <2>2, <2>3 DEF More
  <2> HIDE DEF q
  <2>6. ASSUME NEW k \in 2 .. m PROVE q[k] = q[k - 1] \o Line(in, R, y.frames[k - 1], 2)
    <3>1. CASE k = m
      <4>1. k - 1 = n
        BY <1>5, <3>1
      <4>2. q[k] = b[n] \o Line(in, R, f, 2)
        BY <2>4, <3>1 DEF v
      <4> QED BY <1>1, <1>5, <2>4, <4>1, <4>2
    <3>2. CASE k # m
      <4>1. k \in 2 .. n /\ k \in 1 .. n /\ k - 1 \in 1 .. n
        BY <1>1, <3>2
      <4> QED BY <1>1, <2>2, <2>4, <4>1
    <3> QED BY <3>1, <3>2
  <2>7. q[1] = <<>>
    BY <1>5, <2>2, <2>4
  <2>8. Stack(in, R, y, q)
    BY <1>1, <2>5, <2>6, <2>7 DEF Stack
  <2>9. y.out = q[m] \o <<>>
    BY <1>1, <2>1, <2>3, <2>4, ConcatEmptySeq DEF v
  <2> QED BY <1>1, <2>8, <2>9 DEF ToldFlat
<1> QED BY <1>2, <1>6, <1>7, <1>8, <1>9 DEF Tells

\* The text of the context on top has been told, and that context is closed.
LEMMA PopTells ==
  ASSUME NEW in, NEW Q, NEW R, Table(in, Q, R), NEW x, NEW t, Tells(in, Q, R, x, t),
         Len(x.frames) > 1, NEW f, f = Top(x), NEW y, Popped(x, y), NEW g, g = Top(y)
  PROVE  /\ Tells(in, Q, R, y, Line(in, R, g, 2) \o (IF in.tree THEN <<>> ELSE t))
         /\ in.tree => f.built = t
         /\ Refers(g, f.e) /\ Sits(in, Q, x.ents, Len(x.frames), f)
         /\ y.ents = x.ents /\ y.status = x.status
<1> DEFINE n == Len(x.frames)
           m == n - 1
           l == Line(in, R, g, 2)
           s == l \o (IF in.tree THEN <<>> ELSE t)
<1>1. /\ Typed(in, y) /\ n \in Nat /\ n > 1 /\ Len(y.frames) = m
      /\ \A k \in 1 .. m : y.frames[k] = x.frames[k]
      /\ y.ents = x.ents /\ y.out = x.out /\ y.status = x.status /\ x.frames[n] = f
  <2>1. Typed(in, x)
    BY DEF Tells
  <2>2. x.frames[n] = f
    BY <2>1, TopIs
  <2>3. /\ Typed(in, y) /\ n \in Nat /\ n > 1 /\ Len(y.frames) = n - 1
        /\ \A k \in 1 .. n - 1 : y.frames[k] = x.frames[k]
        /\ y.ents = x.ents /\ y.sizeentcopy = x.sizeentcopy /\ y.out = x.out /\ y.status = x.status
    BY <2>1, PoppedIs
  <2> QED BY <2>2, <2>3
<1>2. t \in Seq(Item) /\ <<>> \in Seq(Item)
  BY EmptySeq DEF Tells
<1>3. /\ \A k \in 1 .. n : Sits(in, Q, x.ents, k, x.frames[k])
      /\ \A k \in 1 .. n - 1 : Refers(x.frames[k], x.frames[k + 1].e)
  BY DEF Tells, Posted
<1>4. g = y.frames[m]
  BY <1>1, TopIs
<1> HIDE DEF n
<1>5. /\ m \in Nat /\ m \in 1 .. m /\ m \in 1 .. n /\ n \in 1 .. n /\ n \in 2 .. n /\ n # 1 /\ m + 1 = n
      /\ 1 \in 1 .. m /\ 1 # n /\ \A k \in 1 .. m : k \in 1 .. n
      /\ \A k \in 1 .. m - 1 : k \in 1 .. m /\ k + 1 \in 1 .. m /\ k \in 1 .. n - 1
  BY <1>1
<1>6. g = x.frames[m]
  BY <1>1, <1>4, <1>5
<1> HIDE DEF m
<1>7. Posted(in, Q, y)
  <2>1. \A k \in 1 .. m : Sits(in, Q, y.ents, k, y.frames[k])
    BY <1>1, <1>3, <1>5
  <2>2. \A k \in 1 .. m - 1 : Refers(y.frames[k], y.frames[k + 1].e)
    BY <1>1, <1>3, <1>5
  <2> QED BY <1>1, <2>1, <2>2 DEF Posted
<1>8. Refers(g, f.e) /\ Sits(in, Q, x.ents, n, f)
  <2>1. m \in 1 .. n - 1
    BY <1>1, <1>5 DEF m
  <2> QED BY <1>1, <1>3, <1>5, <1>6, <2>1
<1>9. l \in Seq(Item)
  <2>1. Sits(in, Q, x.ents, m, g)
    BY <1>3, <1>5, <1>6
  <2>2. g.pos >= 2
    BY <1>8 DEF Refers
  <2> QED BY <2>1, <2>2, LineIs
<1> HIDE DEF l
<1>10. s \in Seq(Item) /\ (in.tree => s = l)
  BY <1>2, <1>9, ConcatProperties, ConcatEmptySeq
<1>11. ASSUME in.tree PROVE ToldTree(in, R, y, s) /\ f.built = t
  <2>1. Own(x, n) = t /\ \A k \in 1 .. n - 1 : Own(x, k) = Line(in, R, x.frames[k], 2)
    BY <1>11 DEF Tells, ToldTree, n
  <2>2. f.built = t
    BY <1>1, <1>5, <2>1 DEF Own
  <2>3. \A k \in 1 .. m : Own(y, k) = Own(x, k)
    BY <1>1 DEF Own
  <2>4. Own(y, m) = l
    BY <1>5, <1>6, <2>1, <2>3 DEF m, l
  <2>5. ASSUME NEW k \in 1 .. m - 1 PROVE Own(y, k) = Line(in, R, y.frames[k], 2)
    BY <1>1, <1>5, <2>1, <2>3
  <2> QED BY <1>1, <1>10, <1>11, <2>2, <2>4, <2>5 DEF ToldTree
<1>12. ASSUME ~in.tree PROVE ToldFlat(in, R, y, s)
  <2>1. PICK b : Stack(in, R, x, b) /\ x.out = b[n] \o t
    BY <1>12 DEF Tells, ToldFlat, n
  <2>2. /\ b \in [1 .. n -> Seq(Item)] /\ b[1] = <<>>
        /\ \A k \in 2 .. n : b[k] = b[k - 1] \o Line(in, R, x.frames[k - 1], 2)
    BY <2>1 DEF Stack, n
  <2> DEFINE q == Fewer(b, n)
             a == b[m]
  <2>3. \A k \in 1 .. m : q[k] = b[k]
    BY DEF Fewer, m
  <2>4. q \in [1 .. m -> Seq(Item)]
    BY <1>1, <2>2 DEF Fewer, m
  <2> HIDE DEF q
  <2>5. ASSUME NEW k \in 2 .. m PROVE q[k] = q[k - 1] \o Line(in, R, y.frames[k - 1], 2)
    <3>1. k \in 2 .. n /\ k \in 1 .. m /\ k - 1 \in 1 .. m
      BY <1>1, <1>5 DEF m
    <3> QED BY <1>1, <2>2, <2>3, <3>1
  <2>6. Stack(in, R, y, q)
    BY <1>1, <1>5, <2>2, <2>3, <2>4, <2>5 DEF Stack
  <2>7. a \in Seq(Item) /\ b[n] = a \o l
    <3>1. n - 1 = m
      BY DEF m
    <3> QED BY <1>5, <1>6, <2>2, <3>1 DEF l
  <2>8. s = l \o t
    BY <1>12
  <2> HIDE DEF a, s
  <2>9. y.out = a \o s
    <3>1. y.out = (a \o l) \o t
      BY <1>1, <2>1, <2>7
    <3>2. (a \o l) \o t = a \o (l \o t)
      BY <1>2, <1>9, <2>7, ThreeInARow
    <3> QED BY <2>8, <3>1, <3>2
  <2>10. q[m] = a
    BY <1>5, <2>3 DEF a
  <2> QED BY <1>1, <2>6, <2>9, <2>10 DEF ToldFlat
<1> HIDE DEF s
<1>13. Tells(in, Q, R, y, s)
  <2>1. Learnt(in, Q, R, y.ents)
    BY <1>1 DEF Tells
  <2> QED BY <1>1, <1>7, <1>10, <1>11, <1>12, <2>1 DEF Tells
<1> QED BY <1>1, <1>8, <1>11, <1>13 DEF s, l, n

\* What is kept with an entity is right.
LEMMA KeepTells ==
  ASSUME InputOK(input), NEW Q, NEW R, Table(input, Q, R), NEW x, NEW t, Tells(input, Q, R, x, t),
         NEW e \in input.declared, NEW before \in Int, NEW kids \in Seq(Item), NEW v,
         v = Keeping(x, e, kids), e \in Q \/ Blocked(e),
         input.noEnt => v = (IF e \in Q THEN R[e] ELSE <<>>), ~input.tree => v = <<>>,
         NEW y, y = Keep(x, e, before, kids)
  PROVE  /\ Tells(input, Q, R, y, t) /\ y.ents[e].kids = v /\ y.ents[e].checked
         /\ y.status = x.status /\ y.frames = x.frames
<1> DEFINE S == Seq(Frame)
           D == input.declared
           E == [D -> Entity]
           O == Seq(Item)
           size == x.sizeentcopy - before + ContentLen(e)
           d == [checked |-> TRUE, expandedSize |-> size, kids |-> v]
           u == [x.ents EXCEPT ![e] = d]
<1>1. Typed(input, x) /\ Posted(input, Q, x) /\ Learnt(input, Q, R, x.ents) /\ Q \subseteq D
  BY DEF Tells, Table
<1>2. x \in [frames : S, ents : E, sizeentcopy : Int, out : O, status : Outcomes]
  BY <1>1 DEF Typed, Parser
<1>3. y = [x EXCEPT !.ents = u]
  BY DEF Keep, Keeping
<1>4. Typed(input, y)
  BY <1>1, KeepIs
<1>5. x.ents \in E /\ e \in D
  BY <1>2
<1>6. d.kids = v /\ d.checked
  OBVIOUS
<1> HIDE DEF d, D
<1>7. /\ u[e] = d /\ \A h \in D \ {e} : u[h] = x.ents[h]
  BY <1>5
<1> HIDE DEF S, E, O, u, Outcomes
<1>8. /\ y.ents = u /\ y.frames = x.frames /\ y.out = x.out /\ y.status = x.status
  BY <1>2, <1>3
<1>9. Learnt(input, Q, R, y.ents)
  <2> SUFFICES ASSUME NEW h \in D PROVE Learns(input, Q, R, h, y.ents[h])
    BY DEF Learnt, D
  <2>1. CASE h = e
    <3>1. Learns(input, Q, R, e, d)
      BY <1>6 DEF Learns, Blocked, External
    <3> QED BY <1>7, <1>8, <2>1, <3>1
  <2>2. CASE h # e
    BY <1>1, <1>7, <1>8, <2>2 DEF Learnt, D
  <2> QED BY <2>1, <2>2
<1>10. ASSUME NEW k \in 1 .. Len(x.frames) PROVE Sits(input, Q, y.ents, k, x.frames[k])
  <2> DEFINE f == x.frames[k]
  <2>1. Sits(input, Q, x.ents, k, f)
    BY <1>1 DEF Posted
  <2> HIDE DEF f
  <2>2. ASSUME k # 1, f.turn = "again" PROVE y.ents[f.e].checked
    <3>1. f.e \in D /\ x.ents[f.e].checked
      BY <1>1, <2>1, <2>2 DEF Sits
    <3> QED BY <1>6, <1>7, <1>8, <3>1
  <2> QED BY <2>1, <2>2 DEF Sits, f
<1>11. Posted(input, Q, y)
  BY <1>1, <1>8, <1>10 DEF Posted
<1>12. input.tree => ToldTree(input, R, y, t)
  BY <1>8 DEF Tells, ToldTree, Own
<1>13. ~input.tree => ToldFlat(input, R, y, t)
  BY <1>8 DEF Tells, ToldFlat, Stack
<1>14. t \in Seq(Item)
  BY DEF Tells
<1> QED BY <1>4, <1>6, <1>7, <1>8, <1>9, <1>11, <1>12, <1>13, <1>14 DEF Tells

-----------------------------------------------------------------------------
(***************************************************************************)
(* What stands for a reference.                                            *)
(***************************************************************************)
\* What is told of a reference to e by the context for its text, and after it.
Before(in, R, e) == IF ~in.tree /\ CanEnter(in, e) THEN R[e] ELSE <<>>
After(in, R, e) ==
    IF in.noEnt THEN (IF CanEnter(in, e) THEN R[e] ELSE <<>>) ELSE <<Reference(e)>>

\* The context on top, which the others have not changed.
LEMMA TopSits ==
  ASSUME NEW in, NEW Q, NEW R, NEW x, NEW t, Tells(in, Q, R, x, t), NEW f, f = Top(x)
  PROVE  /\ f \in Frame /\ Sits(in, Q, x.ents, Len(x.frames), f) /\ Typed(in, x)
         /\ t \in Seq(Item) /\ Len(x.frames) \in Nat \ {0}
<1>1. /\ f \in Frame /\ f = x.frames[Len(x.frames)] /\ Len(x.frames) \in Nat \ {0}
      /\ Typed(in, x) /\ t \in Seq(Item)
  BY TopIs DEF Tells
<1>2. Len(x.frames) \in 1 .. Len(x.frames)
  BY <1>1
<1> QED BY <1>1, <1>2 DEF Tells, Posted

\* A parser with the same contexts, entities and output has told the same.
LEMMA SameTells ==
  ASSUME NEW in, NEW Q, NEW R, NEW x, NEW t, Tells(in, Q, R, x, t), NEW y, Typed(in, y),
         y.frames = x.frames, y.ents = x.ents, y.out = x.out
  PROVE  Tells(in, Q, R, y, t) /\ Top(y) = Top(x)
<1>1. Top(y) = Top(x)
  BY DEF Top
<1>2. Posted(in, Q, y) /\ Learnt(in, Q, R, y.ents) /\ t \in Seq(Item)
  BY DEF Tells, Posted
<1>3. in.tree => ToldTree(in, R, y, t)
  BY DEF Tells, ToldTree, Own
<1>4. ~in.tree => ToldFlat(in, R, y, t)
  BY DEF Tells, ToldFlat, Stack
<1> QED BY <1>1, <1>2, <1>3, <1>4 DEF Tells

\* A parser that fails keeps what it has told.
LEMMA FailTells ==
  ASSUME NEW in, NEW Q, NEW R, NEW x, NEW t, Tells(in, Q, R, x, t),
         Begins(t, Entire(in, R, Top(x).src)), NEW why \in Outcomes, why \notin {"running", "done"},
         NEW y, y = Fail(x, why)
  PROVE  Between(in, Q, R, y)
<1>1. Typed(in, x)
  BY DEF Tells
<1>2. Typed(in, y) /\ Stopped(x, y, why)
  BY <1>1, FailIs
<1>3. /\ y.frames = x.frames /\ y.ents = x.ents /\ y.out = x.out /\ y.status # "running"
      /\ y.status # "done"
  BY <1>2 DEF Stopped
<1>4. Tells(in, Q, R, y, t) /\ Top(y) = Top(x)
  BY <1>2, <1>3, SameTells
<1> QED BY <1>3, <1>4 DEF Between

\* Deliver tells items.
LEMMA DeliverTells ==
  ASSUME NEW Q, NEW R, NEW x, NEW t, Tells(input, Q, R, x, t), NEW items \in Seq(Item),
         NEW y, y = Deliver(x, items)
  PROVE  /\ Tells(input, Q, R, y, t \o items) /\ Similar(Top(x), Top(y))
         /\ y.status = x.status /\ y.ents = x.ents
<1> DEFINE f == Top(x)
           c == Top(y)
<1>1. f \in Frame /\ Sits(input, Q, x.ents, Len(x.frames), f) /\ Typed(input, x)
  BY TopSits
<1>2. /\ Typed(input, y) /\ Filled(f, c) /\ Turned(x, y, c) /\ Given(input, x, y, f, c, items)
      /\ y.status = x.status /\ y.ents = x.ents
  BY <1>1, DeliverGives
<1>3. f = Top(x)
  OBVIOUS
<1> HIDE DEF f, c
<1>4. Similar(f, c)
  BY <1>2 DEF Filled
<1>5. ~input.tree => c.built = f.built
  BY <1>2 DEF Given
<1>6. Sits(input, Q, x.ents, Len(x.frames), c)
  BY <1>1, <1>4, <1>5 DEF Sits, Similar
<1>7. Swapped(x.frames, y.frames, c) /\ c.e = f.e
  BY <1>2, <1>4 DEF Turned, Similar
<1>8. Tells(input, Q, R, y, t \o items)
  BY <1>2, <1>3, <1>6, <1>7, TurnTells
<1> QED BY <1>2, <1>4, <1>8 DEF f, c

\* What is to be told of a text whose last item that was read is a reference to e.
Parts(in, Q, R, f, e, t, a) ==
    /\ CanEnter(in, e) <=> e \in Q
    /\ a \in Seq(Item) /\ t \in Seq(Item) /\ Line(in, R, f, 1) = t \o a
    /\ Begins(t, Entire(in, R, f.src))
    /\ Line(in, R, f, 2) \in Seq(Item) /\ Begins(Line(in, R, f, 2), Entire(in, R, f.src))

\* The reference that a context read last, in what is to be told of its text.
LEMMA ReferIs ==
  ASSUME NEW in, InputOK(in), NEW Q, NEW R, Table(in, Q, R), NEW ents, NEW k, NEW f,
         Sits(in, Q, ents, k, f), NEW e \in in.declared, Refers(f, e),
         NEW t, t = Line(in, R, f, 2) \o Before(in, R, e)
  PROVE  Parts(in, Q, R, f, e, t, After(in, R, e))
<1> DEFINE l == Line(in, R, f, 2)
           a == Before(in, R, e)
           b == After(in, R, e)
           h == Entire(in, R, f.src)
           r == Reference(e)
<1>1. /\ Fits(in, Q, f.src) /\ Len(f.src) \in Nat /\ f.pos \in Nat /\ h \in Seq(Item)
      /\ Line(in, R, f, 1) \in Seq(Item) /\ Begins(Line(in, R, f, 1), h)
      /\ f.pos >= 2 => /\ l \in Seq(Item)
                       /\ Line(in, R, f, 1) = l \o Says(in, R, f.src[f.pos - 1])
                       /\ Begins(l, h)
  <2>1. /\ Fits(in, Q, f.src) /\ Len(f.src) \in Nat /\ f.pos \in Nat /\ f.pos >= 1
        /\ Entire(in, R, f.src) \in Seq(Item)
        /\ Line(in, R, f, 1) \in Seq(Item) /\ Begins(Line(in, R, f, 1), Entire(in, R, f.src))
        /\ f.pos = 1 => Line(in, R, f, 1) = <<>>
        /\ f.pos = Len(f.src) + 1 => Line(in, R, f, 1) = Entire(in, R, f.src)
        /\ f.pos >= 2 => /\ Line(in, R, f, 2) \in Seq(Item)
                         /\ Says(in, R, f.src[f.pos - 1]) \in Seq(Item)
                         /\ Line(in, R, f, 1) = Line(in, R, f, 2) \o Says(in, R, f.src[f.pos - 1])
                         /\ Begins(Line(in, R, f, 2), Entire(in, R, f.src))
    BY LineIs
  <2> QED BY <2>1
<1>2. f.pos >= 2 /\ f.src[f.pos - 1] = r
  BY DEF Refers
<1>3. r \in Item /\ r.t = "ref" /\ r.e = e
  <2>1. e \in Entities
    BY DEF InputOK
  <2> QED BY <2>1 DEF Reference, Item
<1>4. f.pos - 1 \in 1 .. Len(f.src)
  <2>1. f.pos \in 1 .. Len(f.src) + 1
    BY DEF Sits
  <2> QED BY <1>1, <1>2, <2>1
<1>5. CanEnter(in, e) <=> e \in Q
  <2>1. CanEnter(in, e) => e \in Q
    BY <1>1, <1>2, <1>3, <1>4 DEF Fits
  <2>2. e \in Q => CanEnter(in, e)
    BY DEF Table
  <2> QED BY <2>1, <2>2
<1>6. /\ R \in [Q -> Seq(Item)] /\ (in.noEnt => in.tree) /\ <<>> \in Seq(Item) /\ <<r>> \in Seq(Item)
      /\ CanEnter(in, e) => R[e] \in Seq(Item)
  BY <1>3, <1>5, EmptySeq DEF Table
<1> HIDE DEF l, h, r
<1>7. a \in Seq(Item) /\ b \in Seq(Item)
  BY <1>6 DEF Before, After, r
<1>8. Says(in, R, r) = a \o b
  <2> DEFINE v == IF CanEnter(in, e) THEN R[e] ELSE <<>>
  <2>1. v \in Seq(Item)
    BY <1>6
  <2>2. v \o <<>> = v /\ <<>> \o v = v /\ <<>> \o <<r>> = <<r>>
    <3>1. \A s \in Seq(Item) : s \o <<>> = s /\ <<>> \o s = s
      BY ConcatEmptySeq
    <3> HIDE DEF v
    <3> QED BY <1>6, <2>1, <3>1
  <2>3. CASE in.noEnt
    <3>1. Says(in, R, r) = v \o <<>>
      BY <1>3, <1>6, <2>3 DEF Says
    <3>2. a = <<>> /\ b = v
      BY <1>6, <2>3 DEF Before, After
    <3> HIDE DEF a, b, v
    <3> QED BY <2>2, <3>1, <3>2
  <2>4. CASE ~in.noEnt /\ in.tree
    <3>1. Says(in, R, r) = <<>> \o <<r>>
      BY <1>3, <2>4 DEF Says
    <3>2. a = <<>> /\ b = <<r>>
      BY <2>4 DEF Before, After, r
    <3> HIDE DEF a, b, v
    <3> QED BY <2>2, <3>1, <3>2
  <2>5. CASE ~in.noEnt /\ ~in.tree
    <3>1. Says(in, R, r) = v \o <<r>>
      BY <1>3, <2>5 DEF Says
    <3>2. a = v /\ b = <<r>>
      BY <2>5 DEF Before, After, r
    <3> HIDE DEF a, b, v
    <3> QED BY <3>1, <3>2
  <2> QED BY <2>3, <2>4, <2>5
<1>9. t = l \o a
  BY DEF l
<1> HIDE DEF a, b
<1>10. t \in Seq(Item) /\ Line(in, R, f, 1) = t \o b
  <2>1. l \o (a \o b) = (l \o a) \o b
    <3>1. l \in Seq(Item) /\ a \in Seq(Item) /\ b \in Seq(Item)
      BY <1>1, <1>2, <1>7
    <3> QED BY ONLY <3>1, ThreeInARow
  <2>2. t \in Seq(Item)
    <3>1. l \in Seq(Item) /\ a \in Seq(Item)
      BY <1>1, <1>2, <1>7
    <3>2. l \o a \in Seq(Item)
      BY ONLY <3>1, ConcatProperties
    <3> QED BY <1>9, <3>2
  <2> QED BY <1>1, <1>2, <1>8, <1>9, <2>1, <2>2
<1>11. Begins(t, h)
  <2>1. Begins(t, Line(in, R, f, 1))
    BY <1>7, <1>10 DEF Begins
  <2> QED BY <1>1, <1>10, <2>1, BeginsFurther
<1> QED BY <1>1, <1>2, <1>5, <1>7, <1>10, <1>11 DEF l, b, h, Parts

\* What stands for a reference is told after the text of its entity, where that is told.
LEMMA ShowTells ==
  ASSUME InputOK(input), NEW Q, NEW R, Table(input, Q, R), NEW x, NEW t, Tells(input, Q, R, x, t),
         x.status = "running", NEW e \in input.declared, NEW f, f = Top(x), Refers(f, e),
         t = Line(input, R, f, 2) \o Before(input, R, e),
         input.noEnt /\ CanEnter(input, e) => x.ents[e].checked, NEW y, y = Show(x, e)
  PROVE  Between(input, Q, R, y)
<1> DEFINE kids == x.ents[e].kids
           a == After(input, R, e)
<1>1. /\ f \in Frame /\ Sits(input, Q, x.ents, Len(x.frames), f) /\ Typed(input, x)
  BY TopSits
<1>2. /\ CanEnter(input, e) <=> e \in Q
      /\ a \in Seq(Item) /\ t \in Seq(Item) /\ Line(input, R, f, 1) = t \o a
      /\ Begins(t, Entire(input, R, f.src))
  <2>1. Parts(input, Q, R, f, e, t, After(input, R, e))
    BY <1>1, ReferIs
  <2> QED BY <2>1 DEF Parts
<1>3. Begins(Line(input, R, f, 1), Entire(input, R, f.src))
  BY <1>1, LineIs
<1> HIDE DEF a
<1>4. ASSUME y = Deliver(x, a) PROVE Between(input, Q, R, y)
  <2>1. /\ Tells(input, Q, R, y, t \o a) /\ Similar(Top(x), Top(y)) /\ y.status = x.status
    BY <1>2, <1>4, DeliverTells
  <2>2. Top(y).src = f.src /\ Top(y).pos = f.pos
    BY <2>1 DEF Similar
  <2>3. t \o a = Line(input, R, Top(y), 1)
    BY <1>2, <2>2 DEF Line
  <2>4. y.status = "running"
    BY <2>1
  <2> QED BY <1>2, <1>3, <2>1, <2>2, <2>3, <2>4 DEF Between
<1>5. CASE input.noEnt
  <2>1. y = replayEntityNodes(x, kids)
    BY <1>5 DEF Show
  <2>2. kids = a
    <3>1. Learns(input, Q, R, e, x.ents[e])
      BY DEF Tells, Learnt
    <3> QED BY <1>2, <1>5, <3>1 DEF Learns, After, a
  <2>3. Bare(a)
    <3>1. e \in Q => Bare(R[e])
      BY <1>5 DEF Table
    <3>2. Bare(<<>>)
      BY DEF Bare
    <3> QED BY <1>2, <1>5, <3>1, <3>2 DEF After, a
  <2>4. Plain(kids) = a
    BY <1>2, <2>2, <2>3, BarePlain
  <2>5. CASE f.elemDepth + Nesting(kids) > MaxElemDepth
    <3>1. y = Fail(x, "depth") /\ "depth" \in Outcomes
      BY <2>1, <2>5 DEF replayEntityNodes, Outcomes
    <3> QED BY <1>2, <3>1, FailTells
  <2>6. CASE ~(f.elemDepth + Nesting(kids) > MaxElemDepth)
    <3>1. y = Deliver(x, a)
      BY <2>1, <2>4, <2>6 DEF replayEntityNodes
    <3> QED BY <1>4, <3>1
  <2> QED BY <2>5, <2>6
<1>6. CASE ~input.noEnt
  <2>1. y = Deliver(x, a)
    BY <1>6 DEF Show, After, a
  <2> QED BY <1>4, <2>1
<1> QED BY <1>5, <1>6

\* A context for the text of an entity, for the reference that the one on top read last.
LEMMA OpenChunkTells ==
  ASSUME InputOK(input), NEW Q, NEW R, Table(input, Q, R), NEW x, NEW t, Tells(input, Q, R, x, t),
         x.status = "running", NEW e \in Q, NEW f, f = Top(x), Refers(f, e),
         t = Line(input, R, f, 2), NEW turn \in {"first", "again"}, NEW was \in BOOLEAN,
         turn = "first" /\ was => input.noEnt, turn = "again" => x.ents[e].checked,
         NEW y, y = OpenChunk(x, e, turn, was)
  PROVE  Between(input, Q, R, y)
<1> DEFINE z == Load(x, e)
           c == Context(e, input.body[e], f.depth + 2, f.elemDepth, turn, was, x.sizeentcopy)
<1>1. /\ f \in Frame /\ Sits(input, Q, x.ents, Len(x.frames), f) /\ Typed(input, x)
      /\ Len(x.frames) \in Nat \ {0} /\ e \in input.declared /\ x.frames \in Seq(Frame)
  <2>1. e \in input.declared
    BY DEF Table
  <2>2. Typed(input, x)
    BY DEF Tells
  <2> QED BY <2>1, <2>2, TopSits, TopIs
<1>2. Begins(t, Entire(input, R, f.src))
  <2>1. f.pos >= 2
    BY DEF Refers
  <2> QED BY <1>1, <2>1, LineIs
<1>3. /\ Typed(input, z) /\ z.frames = x.frames /\ z.ents = x.ents
      /\ z.status \in {x.status, "limit", "unresolved"}
  BY <1>1, LoadIs
<1>4. z.out = x.out
  <2>1. CASE ~External(e)
    <3>0. e \notin input.unreadable
      BY <2>1 DEF InputOK, External
    <3> QED BY <2>1, <3>0 DEF Load
  <2>2. CASE External(e) /\ e \in input.unreadable
    <3>1. z = Fail(x, "unresolved") /\ "unresolved" \in Outcomes
      BY <2>2 DEF Load, Outcomes
    <3> HIDE DEF z
    <3>2. Stopped(x, z, "unresolved")
      BY <1>1, <3>1, FailIs
    <3> QED BY <3>2 DEF Stopped
  <2>3. CASE External(e) /\ e \notin input.unreadable
    <3> DEFINE v == x.sizeentcopy + Len(input.body[e])
    <3>1. z = Charge(x, v)
      BY <2>3 DEF Load, entityCheckBytes, Charge
    <3>2. v \in Int
      <4>1. x.sizeentcopy \in Int
        BY <1>1 DEF Typed, Parser
      <4>2. Len(input.body[e]) \in Nat
        BY InputFacts
      <4> QED BY ONLY <4>1, <4>2
    <3> HIDE DEF v, z
    <3>3. Charged(x, z)
      BY <1>1, <3>1, <3>2, ChargeIs
    <3> QED BY <3>3 DEF Charged
  <2> QED BY <2>1, <2>2, <2>3
<1>5. CASE f.depth + 1 > MaxNest
  <2>1. y = Fail(x, "loop") /\ "loop" \in Outcomes
    BY <1>5 DEF OpenChunk, Outcomes
  <2> QED BY <1>2, <2>1, FailTells
<1>6. CASE ~(f.depth + 1 > MaxNest) /\ z.status # "running"
  <2>1. y = z
    BY <1>6 DEF OpenChunk, Then
  <2> HIDE DEF z
  <2>2. Tells(input, Q, R, y, t) /\ Top(y) = f
    BY <1>3, <1>4, <2>1, SameTells
  <2>3. y.status # "running" /\ y.status # "done"
    BY <1>3, <1>6, <2>1
  <2> QED BY <1>2, <2>2, <2>3 DEF Between
<1>7. CASE ~(f.depth + 1 > MaxNest) /\ z.status = "running"
  <2>1. y = [z EXCEPT !.frames = Append(@, c)]
    BY <1>7 DEF OpenChunk, Then
  <2>2. /\ input.body[e] \in Seq(Item) /\ e \in Entities \cup {NoEntity} /\ f.depth + 2 \in Nat
        /\ f.elemDepth \in Int /\ x.sizeentcopy \in Int /\ Len(input.body[e]) \in Nat
    <3>1. input.body[e] \in Seq(Item) /\ e \in Entities /\ Len(input.body[e]) \in Nat
      BY <1>1, InputFacts
    <3>2. f.depth \in Nat /\ f.elemDepth \in Int
      BY <1>1 DEF Frame
    <3>3. x.sizeentcopy \in Int
      BY <1>1 DEF Typed, Parser
    <3> QED BY <3>1, <3>2, <3>3
  <2>3. /\ c \in Frame /\ c.e = e /\ c.src = input.body[e] /\ c.pos = 1 /\ c.open = 0
        /\ c.turn = turn /\ c.was = was /\ c.built = <<>>
    <3> DEFINE b == input.body[e]
               d == f.depth + 2
               h == f.elemDepth
               n == x.sizeentcopy
    <3>1. /\ e \in Entities \cup {NoEntity} /\ b \in Seq(Item) /\ d \in Nat /\ h \in Int /\ n \in Int
          /\ c = Context(e, b, d, h, turn, was, n)
      BY <2>2
    <3> HIDE DEF c, b, d, h, n
    <3>2. /\ c \in Frame /\ c.e = e /\ c.src = b /\ c.pos = 1 /\ c.open = 0 /\ c.turn = turn
          /\ c.was = was /\ c.built = <<>>
      BY <3>1, EmptySeq DEF Context, Frame
    <3> QED BY <3>2 DEF b
  <2> HIDE DEF c, z
  <2> DEFINE S == Seq(Frame)
             E == [input.declared -> Entity]
             O == Seq(Item)
             u == Append(x.frames, c)
  <2>4. u \in S /\ u # <<>> /\ Last(u) = c
    <3>1. u \in Seq(Frame) /\ Len(u) = Len(x.frames) + 1 /\ u[Len(x.frames) + 1] = c
      BY <1>1, <2>3, AppendProperties
    <3>2. u # <<>>
      BY <1>1, <3>1, EmptySeq
    <3> QED BY <3>1, <3>2 DEF Last
  <2>5. z \in [frames : S, ents : E, sizeentcopy : Int, out : O, status : Outcomes]
    BY <1>3 DEF Typed, Parser
  <2>6. y = [z EXCEPT !.frames = u]
    BY <1>3, <2>1
  <2> HIDE DEF S, E, O, u, Outcomes
  <2>7. /\ y \in [frames : S, ents : E, sizeentcopy : Int, out : O, status : Outcomes]
        /\ y.frames = u /\ y.ents = z.ents /\ y.out = z.out /\ y.sizeentcopy \in Int
        /\ y.status = z.status
    BY <2>4, <2>5, <2>6
  <2>8. Typed(input, y)
    BY <2>4, <2>7 DEF Typed, Parser, S, E, O
  <2>9. Opened(x, y, c) /\ Top(y) = c
    BY <1>3, <1>4, <2>4, <2>7 DEF Opened, u, Top
  <2>10. Sits(input, Q, x.ents, Len(x.frames) + 1, c)
    <3>1. Len(x.frames) + 1 # 1
      BY <1>1
    <3>2. c.pos \in 1 .. Len(c.src) + 1 /\ c.open = Depth(c.src, c.pos - 1)
      <4>1. c.pos - 1 = 0 /\ Depth(c.src, 0) = 0
        <5>1. 0 \in Nat
          OBVIOUS
        <5> QED BY <2>3, <5>1, DepthStep
      <4> QED BY <2>2, <2>3, <4>1
    <3> QED BY <2>3, <3>1, <3>2 DEF Sits
  <2>11. Refers(f, c.e)
    BY <2>3
  <2>12. Tells(input, Q, R, y, <<>>)
    BY <2>3, <2>8, <2>9, <2>10, <2>11, OpenTells
  <2>13. /\ Entire(input, R, c.src) \in Seq(Item) /\ Line(input, R, c, 1) = <<>>
    BY <2>3, <2>10, LineIs
  <2>14. Begins(<<>>, Entire(input, R, c.src))
    BY <2>13, BeginsItself
  <2>15. y.status = "running"
    BY <1>7, <2>7
  <2> QED BY <2>9, <2>12, <2>13, <2>14, <2>15 DEF Between
<1> QED BY <1>5, <1>6, <1>7

\* The same, or another parse of the entity's text.
LEMMA ShowOrParseTells ==
  ASSUME InputOK(input), NEW Q, NEW R, Table(input, Q, R), NEW x, NEW t, Tells(input, Q, R, x, t),
         x.status = "running", NEW e \in input.declared, NEW f, f = Top(x), Refers(f, e),
         NEW was \in BOOLEAN,
         x.ents[e].kids = <<>> /\ was /\ ~Blocked(e) =>
           e \in Q /\ t = Line(input, R, f, 2) /\ x.ents[e].checked,
         ~(x.ents[e].kids = <<>> /\ was /\ ~Blocked(e)) =>
           /\ t = Line(input, R, f, 2) \o Before(input, R, e)
           /\ input.noEnt /\ CanEnter(input, e) => x.ents[e].checked,
         NEW y, y = ShowOrParse(x, e, was)
  PROVE  Between(input, Q, R, y)
<1>1. CASE x.ents[e].kids = <<>> /\ was /\ ~Blocked(e)
  <2>1. y = OpenChunk(x, e, "again", was)
    BY <1>1 DEF ShowOrParse
  <2>2. e \in Q /\ t = Line(input, R, f, 2) /\ x.ents[e].checked
    BY <1>1
  <2> QED BY <2>1, <2>2, OpenChunkTells
<1>2. CASE ~(x.ents[e].kids = <<>> /\ was /\ ~Blocked(e))
  <2>1. y = Show(x, e)
    BY <1>2 DEF ShowOrParse
  <2>2. /\ t = Line(input, R, f, 2) \o Before(input, R, e)
        /\ input.noEnt /\ CanEnter(input, e) => x.ents[e].checked
    BY <1>2
  <2> QED BY <2>1, <2>2, ShowTells
<1> QED BY <1>1, <1>2

\* parseReference for an entity that is declared.
LEMMA ExpandTells ==
  ASSUME InputOK(input), NEW Q, NEW R, Table(input, Q, R), NEW x, NEW t, Tells(input, Q, R, x, t),
         x.status = "running", NEW e \in input.declared, NEW f, f = Top(x), Refers(f, e),
         t = Line(input, R, f, 2), NEW y, y = Expand(x, e)
  PROVE  Between(input, Q, R, y)
<1> DEFINE z == entityCheck(x, e, ContentLen(e))
           was == x.ents[e].checked
           kids == x.ents[e].kids
           parses == /\ ~was \/ (kids = <<>> /\ input.noEnt)
                     /\ ~External(e) \/ input.noEnt \/ input.dtdValid
<1>1. /\ Typed(input, x) /\ x.ents[e] \in Entity /\ Learns(input, Q, R, e, x.ents[e])
      /\ f \in Frame /\ Sits(input, Q, x.ents, Len(x.frames), f)
  <2>1. Typed(input, x) /\ x.ents[e] \in Entity /\ Learns(input, Q, R, e, x.ents[e])
    BY DEF Tells, Typed, Parser, Learnt
  <2> QED BY <2>1, TopSits
<1>2. was \in BOOLEAN /\ kids \in Seq(Item) /\ <<>> \in Seq(Item)
  BY <1>1, EmptySeq DEF Entity
<1>3. Typed(input, z) /\ Charged(x, z)
  <2>1. ContentLen(e) \in Int
    BY InputFacts DEF ContentLen
  <2> DEFINE l == ContentLen(e)
  <2>2. z = entityCheck(x, e, l) /\ l \in Int
    BY <2>1
  <2> HIDE DEF z, l
  <2> QED BY <1>1, <2>2, CheckIs
<1>4. z.frames = x.frames /\ z.ents = x.ents /\ z.out = x.out /\ z.status \in {x.status, "limit"}
  BY <1>3 DEF Charged
<1>5. /\ CanEnter(input, e) <=> e \in Q
      /\ Line(input, R, f, 2) \in Seq(Item) /\ Begins(Line(input, R, f, 2), Entire(input, R, f.src))
  <2> DEFINE s == Line(input, R, f, 2) \o Before(input, R, e)
  <2>1. s = Line(input, R, f, 2) \o Before(input, R, e)
    OBVIOUS
  <2> HIDE DEF s
  <2>2. Parts(input, Q, R, f, e, s, After(input, R, e))
    BY <1>1, <2>1, ReferIs
  <2> QED BY <2>2 DEF Parts
<1>6. y = IF z.status = "running"
          THEN CASE parses /\ ~Blocked(e) -> OpenChunk(z, e, "first", was)
                 [] parses /\ Blocked(e)  -> ShowOrParse(Keep(z, e, z.sizeentcopy, <<>>), e, was)
                 [] OTHER                 -> ShowOrParse(z, e, was)
          ELSE z
  BY DEF Expand, Then
<1> HIDE DEF z
<1>7. Tells(input, Q, R, z, t) /\ Top(z) = f
  BY <1>3, <1>4, SameTells
<1>8. /\ ~CanEnter(input, e) <=> (External(e) /\ ~((input.noEnt \/ input.dtdValid) /\ ~input.noXXE))
      /\ Blocked(e) <=> External(e) /\ input.noXXE
  BY DEF CanEnter, External, Blocked
<1>9. was => CanEnter(input, e) \/ Blocked(e)
  BY <1>1, <1>5, <1>8 DEF Learns, External
<1>10. /\ input.noEnt => input.tree
       /\ ~input.tree \/ (input.noEnt /\ ~(e \in Q)) => kids = <<>>
       /\ input.tree \/ ~CanEnter(input, e) => Before(input, R, e) = <<>>
  BY <1>1 DEF Table, Learns, Before
<1>11. t \o <<>> = t
  BY <1>5, ConcatEmptySeq
<1> HIDE DEF was, kids
<1>12. CASE z.status # "running"
  <2>1. y = z /\ z.status # "done"
    BY <1>4, <1>6, <1>12
  <2> QED BY <1>5, <1>7, <1>12, <2>1 DEF Between
<1>13. CASE z.status = "running" /\ parses /\ ~Blocked(e)
  <2>1. y = OpenChunk(z, e, "first", was)
    BY <1>6, <1>13
  <2>2. e \in Q
    BY <1>5, <1>8, <1>13
  <2>3. was => input.noEnt
    BY <1>13
  <2> QED BY <1>2, <1>7, <1>13, <2>1, <2>2, <2>3, OpenChunkTells
<1>14. CASE z.status = "running" /\ parses /\ Blocked(e)
  <2> DEFINE b == z.sizeentcopy
             none == <<>>
             k == Keep(z, e, b, none)
             v == Keeping(z, e, none)
  <2>1. y = ShowOrParse(k, e, was)
    BY <1>6, <1>14
  <2>2. b \in Int
    BY <1>3 DEF Typed, Parser
  <2>3. ~CanEnter(input, e) /\ e \notin Q
    BY <1>5, <1>8, <1>14
  <2>4. none \in Seq(Item) /\ v = kids
    <3>1. v = kids
      BY <1>4 DEF Keeping, kids
    <3> QED BY <1>2, <3>1
  <2>5. input.noEnt => v = (IF e \in Q THEN R[e] ELSE <<>>)
    BY <1>10, <2>3, <2>4
  <2>6. ~input.tree => v = <<>>
    BY <1>10, <2>4
  <2>7. k = Keep(z, e, b, none) /\ v = Keeping(z, e, none)
    OBVIOUS
  <2>8. Before(input, R, e) = <<>>
    BY <1>10, <2>3
  <2> HIDE DEF k, v, b, none
  <2>9. /\ Tells(input, Q, R, k, t) /\ k.ents[e].kids = v /\ k.ents[e].checked
        /\ k.status = z.status /\ k.frames = z.frames
    BY <1>7, <1>14, <2>2, <2>4, <2>5, <2>6, <2>7, KeepTells
  <2>10. Top(k) = f
    BY <1>7, <2>9 DEF Top
  <2>11. t = Line(input, R, f, 2) \o Before(input, R, e)
    BY <1>11, <2>8
  <2>12. y = Show(k, e)
    BY <1>14, <2>1 DEF ShowOrParse
  <2>13. input.noEnt /\ CanEnter(input, e) => k.ents[e].checked
    BY <2>9
  <2>14. k.status = "running"
    BY <1>14, <2>9
  <2> QED BY <2>9, <2>10, <2>11, <2>12, <2>13, <2>14, ShowTells
<1>15. CASE z.status = "running" /\ ~parses
  <2>1. y = ShowOrParse(z, e, was)
    BY <1>6, <1>15
  <2>2. z.ents[e].kids = kids /\ z.ents[e].checked = was
    BY <1>4 DEF kids, was
  <2>3. z.ents[e].kids = <<>> /\ was /\ ~Blocked(e) =>
          e \in Q /\ t = Line(input, R, f, 2) /\ z.ents[e].checked
    BY <1>5, <1>9, <2>2
  <2>4. ~(z.ents[e].kids = <<>> /\ was /\ ~Blocked(e)) =>
          /\ t = Line(input, R, f, 2) \o Before(input, R, e)
          /\ input.noEnt /\ CanEnter(input, e) => z.ents[e].checked
    <3> SUFFICES ASSUME ~(z.ents[e].kids = <<>> /\ was /\ ~Blocked(e))
                 PROVE  /\ Before(input, R, e) = <<>>
                        /\ input.noEnt /\ CanEnter(input, e) => z.ents[e].checked
      BY <1>11
    <3>1. input.tree \/ ~CanEnter(input, e)
      <4>1. ~input.tree => ~(was /\ ~Blocked(e))
        BY <1>10, <2>2
      <4>2. Blocked(e) => ~CanEnter(input, e)
        BY <1>8
      <4>3. ~was => ~CanEnter(input, e)
        BY <1>8, <1>15
      <4> QED BY <4>1, <4>2, <4>3
    <3>2. input.noEnt /\ CanEnter(input, e) => was
      BY <1>8, <1>15
    <3> QED BY <1>10, <2>2, <3>1, <3>2
  <2> HIDE DEF parses
  <2>5. z.status = "running"
    BY <1>15
  <2> QED BY <1>2, <1>7, <2>1, <2>3, <2>4, <2>5, ShowOrParseTells
<1> QED BY <1>12, <1>13, <1>14, <1>15

\* A reference to an entity that is not declared is told as it is.
LEMMA UndeclaredTells ==
  ASSUME InputOK(input), NEW Q, NEW R, Table(input, Q, R), NEW x, NEW t, Tells(input, Q, R, x, t),
         x.status = "running", NEW e \in Entities, e \notin input.declared, NEW f, f = Top(x),
         Refers(f, e), t = Line(input, R, f, 2), NEW y, y = Undeclared(x, e)
  PROVE  Between(input, Q, R, y)
<1> DEFINE items == <<Reference(e)>>
           z == Deliver(x, items)
<1>1. /\ f \in Frame /\ Sits(input, Q, x.ents, Len(x.frames), f) /\ Typed(input, x)
      /\ t \in Seq(Item)
  BY TopSits
<1>2. Reference(e) \in Item /\ Reference(e).t = "ref" /\ Reference(e).e = e
  BY DEF Item, Reference
<1>3. Says(input, R, Reference(e)) = items
  <2>1. Says(input, R, Reference(e)) = <<>> \o items
    BY <1>2 DEF Says, CanEnter
  <2>2. items \in Seq(Item)
    BY <1>2
  <2> HIDE DEF items
  <2> QED BY <2>1, <2>2, ConcatEmptySeq
<1>4. items \in Seq(Item) /\ f.pos >= 2 /\ f.src[f.pos - 1] = Reference(e)
  BY <1>2 DEF Refers
<1> HIDE DEF items
<1>5. /\ Line(input, R, f, 1) = t \o items
      /\ Begins(t, Entire(input, R, f.src))
      /\ Begins(Line(input, R, f, 1), Entire(input, R, f.src))
  BY <1>1, <1>3, <1>4, LineIs
<1>6. CASE ~input.lenient
  <2>1. y = Fail(x, "undeclared") /\ "undeclared" \in Outcomes
    BY <1>6 DEF Undeclared, Outcomes
  <2> QED BY <1>5, <2>1, FailTells
<1>7. CASE input.lenient
  <2>1. y = entityCheck(z, NoEntity, 0)
    BY <1>7 DEF Undeclared, items
  <2>2. z = Deliver(x, items)
    OBVIOUS
  <2> HIDE DEF z
  <2>3. Tells(input, Q, R, z, t \o items) /\ Similar(f, Top(z)) /\ z.status = x.status
    BY <1>4, <2>2, DeliverTells
  <2>4. Typed(input, z) /\ 0 \in Int
    BY <2>3 DEF Tells
  <2>5. Typed(input, y) /\ Charged(z, y)
    BY <2>1, <2>4, CheckIs
  <2>6. Tells(input, Q, R, y, t \o items) /\ Top(y) = Top(z) /\ y.status # "done"
    <3>1. y.frames = z.frames /\ y.ents = z.ents /\ y.out = z.out /\ y.status # "done"
      BY <2>3, <2>5 DEF Charged
    <3> QED BY <2>3, <2>5, <3>1, SameTells
  <2>7. Top(y).src = f.src /\ Top(y).pos = f.pos
    BY <2>3, <2>6 DEF Similar
  <2>8. t \o items = Line(input, R, Top(y), 1)
    BY <1>5, <2>7 DEF Line
  <2> QED BY <1>5, <2>6, <2>7, <2>8 DEF Between
<1> QED BY <1>6, <1>7

-----------------------------------------------------------------------------
(***************************************************************************)
(* What is told over a step.                                               *)
(***************************************************************************)
\* A balanced text that is at its end has been read whole.
LEMMA ReadWhole ==
  ASSUME NEW in, NEW Q, NEW R, Table(in, Q, R), NEW ents, NEW k, NEW f, f \in Frame,
         Sits(in, Q, ents, k, f), AtEnd(f), ~(f.open > 0), k # 1
  PROVE  f.pos = Len(f.src) + 1 /\ f.open = 0
<1>1. /\ Len(f.src) \in Nat /\ DOMAIN f.src = 1 .. Len(f.src) /\ f.pos \in 1 .. Len(f.src) + 1
      /\ f.open = Depth(f.src, f.pos - 1) /\ f.e \in Q /\ f.src = in.body[f.e]
  BY LenProperties DEF Frame, Sits
<1>2. Balanced(f.src)
  BY <1>1 DEF Table
<1> DEFINE j == f.pos - 1
<1>3. j \in Nat /\ f.pos = j + 1 /\ j \in 0 .. Len(f.src)
  BY <1>1
<1> HIDE DEF j
<1>4. \A i \in 1 .. Len(f.src) : Depth(f.src, i) >= 0
  BY <1>1, <1>2 DEF Balanced
<1>5. Depth(f.src, 0) = 0 /\ Depth(f.src, j) \in Int
      /\ Depth(f.src, j + 1) = Depth(f.src, j) + Up(f.src[j + 1])
  BY <1>3, DepthStep
<1>6. Depth(f.src, j) >= 0
  <2>1. CASE j = 0
    BY <1>5, <2>1
  <2>2. CASE j # 0
    <3>1. j \in 1 .. Len(f.src)
      BY <1>3, <2>2
    <3> QED BY <1>4, <3>1
  <2> QED BY <2>1, <2>2
<1>7. f.open = 0
  <2>1. f.open = Depth(f.src, j)
    BY <1>1 DEF j
  <2> QED BY <1>5, <1>6, <2>1
<1>8. f.pos > Len(f.src)
  <2> SUFFICES ASSUME f.pos <= Len(f.src) PROVE FALSE
    BY <1>1
  <2>1. f.src[j + 1].t = "end"
    BY <1>1, <1>3 DEF AtEnd
  <2>2. Up(f.src[j + 1]) = -1
    BY <2>1 DEF Up
  <2>3. Depth(f.src, j) = 0
    BY <1>1, <1>7 DEF j
  <2>4. Depth(f.src, j + 1) = -1
    BY <1>5, <2>2, <2>3
  <2>5. j + 1 \in 1 .. Len(f.src)
    BY <1>1, <1>3
  <2> QED BY <1>4, <2>4, <2>5
<1> QED BY <1>1, <1>7, <1>8

\* The end of the document, or of an entity's text.
LEMMA CloseChunkTells ==
  ASSUME InputOK(input), NEW Q, NEW R, Table(input, Q, R), NEW x, NEW t, Tells(input, Q, R, x, t),
         x.status = "running", NEW f, f = Top(x), t = Line(input, R, f, 1), AtEnd(f),
         NEW y, y = CloseChunk(x)
  PROVE  Between(input, Q, R, y)
<1> DEFINE n == Len(x.frames)
           z == [x EXCEPT !.frames = Front(@)]
           leftover == f.pos <= Len(f.src) /\ ~External(f.e)
<1>1. /\ f \in Frame /\ Sits(input, Q, x.ents, n, f) /\ Typed(input, x) /\ t \in Seq(Item)
      /\ n \in Nat \ {0}
  BY TopSits
<1>2. /\ Len(f.src) \in Nat /\ Begins(t, Entire(input, R, f.src)) /\ f.pos \in Nat
      /\ f.pos = Len(f.src) + 1 => t = Entire(input, R, f.src)
  BY <1>1, LineIs
<1>3. Q \subseteq input.declared /\ input.declared \subseteq Entities /\ input.external \subseteq Entities
  BY DEF Table, InputOK
<1>4. CASE f.open > 0 \/ leftover
  <2>1. y = Fail(x, "unbalanced") /\ "unbalanced" \in Outcomes
    BY <1>4 DEF CloseChunk, Outcomes
  <2> QED BY <1>2, <2>1, FailTells
<1>5. CASE ~(f.open > 0 \/ leftover) /\ f.e = NoEntity
  <2>1. y = Fail(x, "done") /\ "done" \in Outcomes
    BY <1>5 DEF CloseChunk, Outcomes
  <2>2. Typed(input, y) /\ Stopped(x, y, "done")
    BY <1>1, <2>1, FailIs
  <2>3. Tells(input, Q, R, y, t) /\ Top(y) = f
    <3>1. y.frames = x.frames /\ y.ents = x.ents /\ y.out = x.out
      BY <2>2 DEF Stopped
    <3> QED BY <2>2, <3>1, SameTells
  <2>4. n = 1 /\ f.src = input.doc
    <3>1. NoEntity \notin Q
      BY <1>3, BoundsAssumption
    <3>2. n = 1
      BY <1>1, <1>5, <3>1 DEF Sits
    <3> QED BY <1>1, <3>2 DEF Sits
  <2>5. t = Entire(input, R, input.doc)
    <3>1. ~External(f.e)
      BY <1>3, <1>5, BoundsAssumption DEF External
    <3>2. f.pos = Len(f.src) + 1
      <4>1. f.pos \in 1 .. Len(f.src) + 1
        BY <1>1 DEF Sits
      <4> QED BY <1>2, <1>5, <3>1, <4>1
    <3> QED BY <1>2, <2>4, <3>2
  <2>6. x.out = t
    <3>1. CASE input.tree
      BY <2>4, <3>1 DEF Tells, ToldTree, Own
    <3>2. CASE ~input.tree
      <4>1. PICK b : Stack(input, R, x, b) /\ x.out = b[n] \o t
        BY <3>2 DEF Tells, ToldFlat
      <4>2. x.out = <<>> \o t
        BY <2>4, <4>1 DEF Stack
      <4> QED BY <1>1, <4>2, ConcatEmptySeq
    <3> QED BY <3>1, <3>2
  <2>7. y.out = Entire(input, R, input.doc) /\ y.status # "running"
    BY <2>2, <2>5, <2>6 DEF Stopped
  <2> QED BY <1>2, <2>3, <2>7 DEF Between
<1>6. CASE ~(f.open > 0 \/ leftover) /\ f.e # NoEntity
  <2> DEFINE e == f.e
             g == Top(z)
             s == Line(input, R, g, 2) \o (IF input.tree THEN <<>> ELSE t)
  <2>1. y = IF f.turn = "again" THEN Show(z, e)
            ELSE ShowOrParse(Keep(z, e, f.before, f.built), e, f.was)
    BY <1>6 DEF CloseChunk
  <2>2. n # 1 /\ n > 1 /\ ~(f.open > 0)
    <3>1. n # 1
      BY <1>1, <1>6 DEF Sits
    <3> HIDE DEF n
    <3> QED BY <1>1, <1>6, <3>1
  <2>3. /\ e \in Q /\ e \in input.declared /\ f.src = input.body[e] /\ CanEnter(input, e)
        /\ R[e] = Entire(input, R, input.body[e])
        /\ f.turn = "again" => x.ents[e].checked
        /\ f.turn = "first" /\ f.was => input.noEnt
        /\ ~input.tree => f.built = <<>>
    <3>1. /\ e \in Q /\ f.src = input.body[e]
          /\ f.turn = "again" => x.ents[e].checked
          /\ f.turn = "first" /\ f.was => input.noEnt
          /\ ~input.tree => f.built = <<>>
      BY <1>1, <2>2 DEF Sits
    <3>2. CanEnter(input, e) /\ R[e] = Entire(input, R, input.body[e])
      BY <3>1 DEF Table
    <3> QED BY <1>3, <3>1, <3>2
  <2>4. t = R[e]
    <3>1. f.pos = Len(f.src) + 1
      <4> HIDE DEF n
      <4> QED BY <1>1, <2>2, ReadWhole
    <3> QED BY <1>2, <2>3, <3>1
  <2>5. f.before \in Int /\ f.built \in Seq(Item) /\ f.was \in BOOLEAN /\ f.turn \in {"first", "again"}
    BY <1>1 DEF Frame
  <2>6. Popped(x, z) /\ g = Top(z) /\ Len(x.frames) > 1
    BY <2>2 DEF Popped
  <2> HIDE DEF z, g
  <2>7. /\ Tells(input, Q, R, z, s) /\ (input.tree => f.built = t) /\ Refers(g, e)
        /\ z.ents = x.ents /\ z.status = x.status
    <3>1. /\ Tells(input, Q, R, z, Line(input, R, g, 2) \o (IF input.tree THEN <<>> ELSE t))
          /\ input.tree => f.built = t
          /\ Refers(g, f.e) /\ Sits(input, Q, x.ents, Len(x.frames), f)
          /\ z.ents = x.ents /\ z.status = x.status
      BY <2>6, PopTells
    <3> QED BY <3>1
  <2>8. /\ s = Line(input, R, g, 2) \o Before(input, R, e)
        /\ input.tree => s = Line(input, R, g, 2)
    <3>1. Line(input, R, g, 2) \in Seq(Item)
      <4>1. Sits(input, Q, z.ents, Len(z.frames), g)
        BY <2>6, <2>7, TopSits
      <4>2. g.pos >= 2
        BY <2>7 DEF Refers
      <4> QED BY <4>1, <4>2, LineIs
    <3>2. Before(input, R, e) = IF input.tree THEN <<>> ELSE t
      BY <2>3, <2>4 DEF Before
    <3>3. Line(input, R, g, 2) \o <<>> = Line(input, R, g, 2)
      BY <3>1, ConcatEmptySeq
    <3> QED BY <3>2, <3>3
  <2> HIDE DEF s
  <2>9. CASE f.turn = "again"
    <3>1. y = Show(z, e) /\ z.ents[e].checked /\ z.status = "running"
      BY <2>1, <2>3, <2>7, <2>9
    <3> HIDE DEF e
    <3> QED BY <2>3, <2>6, <2>7, <2>8, <3>1, ShowTells
  <2>10. CASE f.turn # "again"
    <3> DEFINE b == f.before
               kids == f.built
               k == Keep(z, e, b, kids)
               v == Keeping(z, e, kids)
    <3>1. y = ShowOrParse(k, e, f.was) /\ f.turn = "first"
      BY <2>1, <2>5, <2>10
    <3>2. Learns(input, Q, R, e, z.ents[e])
      BY <2>3, <2>7 DEF Tells, Learnt
    <3>3. input.noEnt => input.tree
      BY DEF Table
    <3>4. input.noEnt => v = (IF e \in Q THEN R[e] ELSE <<>>)
      BY <2>3, <2>4, <2>7, <3>2, <3>3 DEF Keeping, Learns
    <3>5. ~input.tree => v = <<>>
      BY <2>3, <3>2 DEF Keeping, Learns
    <3>6. k = Keep(z, e, b, kids) /\ v = Keeping(z, e, kids) /\ b \in Int /\ kids \in Seq(Item)
      BY <2>5
    <3> HIDE DEF k, v, b, kids, e
    <3>7. /\ Tells(input, Q, R, k, s) /\ k.ents[e].kids = v /\ k.ents[e].checked
          /\ k.status = z.status /\ k.frames = z.frames
      BY <2>3, <2>7, <3>4, <3>5, <3>6, KeepTells
    <3>8. Top(k) = g /\ k.status = "running"
      BY <2>6, <2>7, <3>7 DEF Top
    <3>9. f.was => s = Line(input, R, g, 2)
      BY <2>3, <2>8, <3>1, <3>3
    <3>10. k.ents[e].kids = <<>> /\ f.was /\ ~Blocked(e) =>
             e \in Q /\ s = Line(input, R, g, 2) /\ k.ents[e].checked
      BY <2>3, <3>7, <3>9
    <3>11. ~(k.ents[e].kids = <<>> /\ f.was /\ ~Blocked(e)) =>
             /\ s = Line(input, R, g, 2) \o Before(input, R, e)
             /\ input.noEnt /\ CanEnter(input, e) => k.ents[e].checked
      BY <2>8, <3>7
    <3> DEFINE was == f.was
    <3>12. /\ was \in BOOLEAN /\ y = ShowOrParse(k, e, was)
           /\ k.ents[e].kids = <<>> /\ was /\ ~Blocked(e) =>
                e \in Q /\ s = Line(input, R, g, 2) /\ k.ents[e].checked
           /\ ~(k.ents[e].kids = <<>> /\ was /\ ~Blocked(e)) =>
                /\ s = Line(input, R, g, 2) \o Before(input, R, e)
                /\ input.noEnt /\ CanEnter(input, e) => k.ents[e].checked
      BY <2>5, <3>1, <3>10, <3>11
    <3> HIDE DEF was
    <3> QED BY <2>3, <2>7, <3>7, <3>8, <3>12, ShowOrParseTells
  <2> QED BY <2>9, <2>10
<1> QED BY <1>4, <1>5, <1>6

\* f, on top of x, goes one item further, and that gives g on top of y.
Passes(x, f, d, y, g) ==
    /\ f = Top(x) /\ f.pos <= Len(f.src) /\ d \in Int /\ d = Up(f.src[f.pos])
    /\ y = SetTop(x, Step(f, d)) /\ g = Top(y)

\* The context on top goes one item further.
LEMMA PassTells ==
  ASSUME NEW in, NEW Q, NEW R, Table(in, Q, R), NEW x, NEW t, Tells(in, Q, R, x, t),
         NEW f, NEW d, NEW y, NEW g, Passes(x, f, d, y, g)
  PROVE  /\ Tells(in, Q, R, y, t) /\ y.status = x.status /\ g.src = f.src
         /\ g.pos >= 2 /\ g.src[g.pos - 1] = f.src[f.pos]
         /\ Line(in, R, g, 2) = Line(in, R, f, 1)
         /\ Line(in, R, g, 1) = Line(in, R, f, 1) \o Says(in, R, f.src[f.pos])
         /\ Begins(Line(in, R, g, 1), Entire(in, R, g.src))
<1> DEFINE n == Len(x.frames)
           c == Step(f, d)
<1> /\ f = Top(x) /\ f.pos <= Len(f.src) /\ d \in Int /\ d = Up(f.src[f.pos])
    /\ y = SetTop(x, Step(f, d)) /\ g = Top(y)
  BY DEF Passes
<1>1. /\ f \in Frame /\ Sits(in, Q, x.ents, n, f) /\ Typed(in, x) /\ t \in Seq(Item)
  BY TopSits
<1>2. /\ f.pos \in 1 .. Len(f.src) + 1 /\ Len(f.src) \in Nat /\ f.pos \in Nat
      /\ f.open = Depth(f.src, f.pos - 1)
  BY <1>1, LenProperties DEF Sits, Frame
<1>3. /\ c \in Frame /\ c.e = f.e /\ c.src = f.src /\ c.turn = f.turn /\ c.was = f.was
      /\ c.built = f.built /\ c.pos = f.pos + 1 /\ c.open = f.open + d
  <2>1. f.pos + 1 \in Nat /\ f.elemDepth + d \in Int /\ f.open + d \in Int
    BY <1>1 DEF Frame
  <2> QED BY <1>1, <2>1 DEF Step, Frame
<1> HIDE DEF n, c
<1>4. /\ c.pos \in 1 .. Len(c.src) + 1 /\ c.pos >= 2 /\ c.pos - 1 = f.pos /\ c.pos - 2 = f.pos - 1
  BY <1>2, <1>3
<1>5. c.open = Depth(c.src, c.pos - 1)
  <2> DEFINE j == f.pos - 1
  <2>1. j \in Nat /\ j + 1 = f.pos
    BY <1>2
  <2> HIDE DEF j
  <2>2. Depth(f.src, j + 1) = Depth(f.src, j) + Up(f.src[j + 1])
    BY <2>1, DepthStep
  <2>3. f.open = Depth(f.src, j)
    BY <1>2 DEF j
  <2> QED BY <1>3, <1>4, <2>1, <2>2, <2>3
<1>6. Sits(in, Q, x.ents, n, c)
  BY <1>1, <1>3, <1>4, <1>5 DEF Sits
<1>7. Typed(in, y) /\ Top(y) = c /\ SameRest(x, y) /\ Swapped(x.frames, y.frames, c)
  <2>1. y = SetTop(x, c)
    BY DEF c
  <2> QED BY <1>1, <1>3, <2>1, SetTopIs
<1> DEFINE none == <<>>
<1>8. none \in Seq(Item) /\ Given(in, x, y, f, c, none) /\ t \o none = t
  <2>1. f.built \in Seq(Item) /\ x.out \in Seq(Item)
    BY <1>1 DEF Frame, Typed, Parser
  <2>2. f.built \o none = f.built /\ x.out \o none = x.out /\ t \o none = t /\ none \in Seq(Item)
    BY <1>1, <2>1, ConcatEmptySeq, EmptySeq
  <2> QED BY <1>3, <1>7, <2>2 DEF Given, SameRest
<1> HIDE DEF none
<1>9. Tells(in, Q, R, y, t)
  <2>1. y.ents = x.ents
    BY <1>7 DEF SameRest
  <2>2. Tells(in, Q, R, y, t \o none)
    BY <1>3, <1>6, <1>7, <1>8, <2>1, TurnTells DEF n
  <2> QED BY <1>8, <2>2
<1>10. /\ Line(in, R, c, 2) = Line(in, R, f, 1)
       /\ Line(in, R, c, 1) = Line(in, R, c, 2) \o Says(in, R, c.src[c.pos - 1])
       /\ Begins(Line(in, R, c, 1), Entire(in, R, c.src))
  <2>1. Line(in, R, c, 2) = Line(in, R, f, 1)
    BY <1>3, <1>4 DEF Line
  <2>2. /\ Line(in, R, c, 1) = Line(in, R, c, 2) \o Says(in, R, c.src[c.pos - 1])
        /\ Begins(Line(in, R, c, 1), Entire(in, R, c.src))
    BY <1>4, <1>6, LineIs
  <2> QED BY <2>1, <2>2
<1>11. c.src[c.pos - 1] = f.src[f.pos]
  BY <1>3, <1>4
<1> QED BY <1>3, <1>4, <1>7, <1>9, <1>10, <1>11 DEF SameRest

\* Every step tells what is right.
LEMMA StepTells ==
  ASSUME InputOK(input), NEW Q, NEW R, Table(input, Q, R), Between(input, Q, R, p), Next
  PROVE  Between(input, Q, R, p')
<1> DEFINE f == Top(p)
           item == NextItem(p)
           z == Deliver(p, <<item>>)
           n == Len(p.frames)
<1>1. p.status = "running"
  BY DEF Next, ReadText, ReadStart, ReadEnd, ReadReference, EndContent, Stop, Reads
<1>2. PICK t : /\ Tells(input, Q, R, p, t) /\ Begins(t, Entire(input, R, f.src))
               /\ t = Line(input, R, f, 1)
  BY <1>1 DEF Between
<1>3. /\ f \in Frame /\ Sits(input, Q, p.ents, n, f) /\ Typed(input, p) /\ t \in Seq(Item)
  BY <1>2, TopSits
<1>4. /\ f.pos \in Nat /\ f.pos >= 1 /\ f.src \in Seq(Item)
      /\ Len(f.src) \in Nat
  BY <1>3, LenProperties DEF Sits, Frame
<1>5. /\ Upcoming = "nothing" => AtEnd(f)
      /\ Upcoming # "nothing" => /\ f.pos <= Len(f.src) /\ f.src[f.pos].t = Upcoming
                                 /\ Upcoming = "end" => f.open # 0
      /\ item = f.src[f.pos]
  BY <1>3, <1>4, UpcomingIs
<1>6. ASSUME Upcoming \in {"text", "start", "end", "ref"} PROVE f.pos <= Len(f.src) /\ item \in Item
  <2>1. f.pos <= Len(f.src)
    BY <1>5, <1>6
  <2>2. f.src[f.pos] \in Item
    BY <1>4, <2>1, ElementOfSeq
  <2> QED BY <1>5, <2>1, <2>2
<1>7. ASSUME Upcoming \in {"text", "start", "end"}
      PROVE  Typed(input, z) /\ Tells(input, Q, R, z, t \o <<item>>) /\ Similar(f, Top(z))
             /\ z.status = p.status
  <2> DEFINE items == <<item>>
  <2>1. z = Deliver(p, items) /\ items \in Seq(Item)
    BY <1>6, <1>7
  <2> HIDE DEF items, z, item
  <2>2. Tells(input, Q, R, z, t \o items) /\ Similar(f, Top(z)) /\ z.status = p.status
    BY <1>2, <2>1, DeliverTells
  <2>3. Typed(input, z)
    BY <2>2 DEF Tells
  <2> QED BY <2>2, <2>3 DEF items
<1>8. ASSUME Upcoming \in {"text", "start", "end"}, NEW d \in Int, d = Up(item),
             p' = SetTop(z, Step(Top(z), d))
      PROVE  Between(input, Q, R, p')
  <2> DEFINE b == Top(z)
             g == Top(p')
             s == t \o <<item>>
             y == p'
  <2>1. Tells(input, Q, R, z, s) /\ Similar(f, b) /\ z.status = "running"
    BY <1>1, <1>7, <1>8
  <2>2. b.pos = f.pos /\ b.src = f.src /\ b.pos <= Len(b.src) /\ b.src[b.pos] = item
    BY <1>5, <1>6, <1>8, <2>1 DEF Similar
  <2>3. b = Top(z) /\ g = Top(y) /\ y = SetTop(z, Step(b, d)) /\ d = Up(b.src[b.pos])
    BY <1>8, <2>2
  <2>4. Says(input, R, item) = <<item>>
    BY <1>5, <1>8 DEF Says
  <2> HIDE DEF z, b, g, s, y, item, f
  <2>5. /\ Tells(input, Q, R, y, s) /\ y.status = z.status
        /\ Line(input, R, g, 1) = Line(input, R, b, 1) \o Says(input, R, b.src[b.pos])
        /\ Begins(Line(input, R, g, 1), Entire(input, R, g.src))
    <3>1. Passes(z, b, d, y, g)
      BY <1>8, <2>2, <2>3 DEF Passes
    <3> QED BY <2>1, <3>1, PassTells
  <2>6. Line(input, R, b, 1) = t
    BY <1>2, <2>2 DEF Line
  <2>7. Line(input, R, g, 1) = s
    BY <2>2, <2>4, <2>5, <2>6 DEF s
  <2>8. y.status = "running"
    BY <2>1, <2>5
  <2> QED BY <2>3, <2>5, <2>7, <2>8 DEF Between, y
<1>9. CASE ReadText
  <2>1. Upcoming = "text" /\ p' = Advance(z)
    BY <1>9 DEF ReadText, Reads
  <2>2. Up(item) = 0
    BY <1>5, <2>1 DEF Up
  <2>3. Advance(z) = SetTop(z, Step(Top(z), 0))
    <3> DEFINE b == Top(z)
    <3>1. b \in Frame
      BY <1>7, <2>1, TopIs
    <3> HIDE DEF b
    <3>2. b.elemDepth + 0 = b.elemDepth /\ b.open + 0 = b.open
      BY <3>1 DEF Frame
    <3>3. Step(b, 0) = [b EXCEPT !.pos = @ + 1]
      BY <3>1, <3>2 DEF Step, Frame
    <3> QED BY <3>3 DEF Advance, b
  <2> HIDE DEF z, f, item
  <2> QED BY <1>8, <2>1, <2>2, <2>3
<1>10. CASE ReadStart
  <2>1. Upcoming = "start"
    BY <1>10 DEF ReadStart, Reads
  <2>2. CASE f.elemDepth + 1 > MaxElemDepth
    <3>1. p' = Fail(p, "depth") /\ "depth" \in Outcomes
      BY <1>10, <2>2 DEF ReadStart, Outcomes
    <3> QED BY <1>2, <3>1, FailTells
  <2>3. CASE ~(f.elemDepth + 1 > MaxElemDepth)
    <3> DEFINE x == Advance(z)
    <3>1. p' = SetTop(x, [Top(x) EXCEPT !.elemDepth = @ + 1, !.open = @ + 1])
      BY <1>10, <2>3 DEF ReadStart
    <3>2. p' = SetTop(z, Step(Top(z), 1))
      <4>1. x = Advance(z) /\ 1 \in Int
        OBVIOUS
      <4> HIDE DEF x, z
      <4> QED BY <1>7, <2>1, <3>1, <4>1, AdvanceStep
    <3>3. Up(item) = 1
      BY <1>5, <2>1 DEF Up
    <3> HIDE DEF z, f, item
    <3> QED BY <1>8, <2>1, <3>2, <3>3
  <2> QED BY <2>2, <2>3
<1>11. CASE ReadEnd
  <2>1. Upcoming = "end"
    BY <1>11 DEF ReadEnd, Reads
  <2> DEFINE x == Advance(z)
  <2>2. p' = SetTop(x, [Top(x) EXCEPT !.elemDepth = @ - 1, !.open = @ - 1])
    BY <1>11 DEF ReadEnd
  <2>3. p' = SetTop(z, Step(Top(z), -1))
    <3>1. x = Advance(z) /\ -1 \in Int
      OBVIOUS
    <3>2. Typed(input, z)
      BY <1>7, <2>1
    <3> HIDE DEF x, z
    <3>3. SetTop(x, [Top(x) EXCEPT !.elemDepth = @ + -1, !.open = @ + -1]) = SetTop(z, Step(Top(z), -1))
      BY <3>1, <3>2, AdvanceStep
    <3>4. Top(x) \in Frame
      BY <3>1, <3>2, AdvancedTop
    <3>5. Top(x).elemDepth - 1 = Top(x).elemDepth + -1 /\ Top(x).open - 1 = Top(x).open + -1
      BY <3>4 DEF Frame
    <3> QED BY <2>2, <3>3, <3>5
  <2>4. Up(item) = -1
    BY <1>5, <2>1 DEF Up
  <2> HIDE DEF z, f, item
  <2> QED BY <1>8, <2>1, <2>3, <2>4
<1>12. CASE ReadReference
  <2> DEFINE e == item.e
             x == Advance(p)
             g == Top(x)
  <2>1. /\ Upcoming = "ref"
        /\ p' = IF e \in input.declared THEN Expand(x, e) ELSE Undeclared(x, e)
    BY <1>12 DEF ReadReference, Reads
  <2>2. item \in Item /\ item.t = "ref" /\ f.pos <= Len(f.src)
    BY <1>5, <1>6, <2>1
  <2>3. e \in Entities /\ item = Reference(e) /\ Up(item) = 0
    BY <2>2 DEF Item, Reference, Up
  <2>4. x = SetTop(p, Step(f, 0))
    <3> HIDE DEF f
    <3>1. f.elemDepth + 0 = f.elemDepth /\ f.open + 0 = f.open
      BY <1>3 DEF Frame
    <3>2. Step(f, 0) = [f EXCEPT !.pos = @ + 1]
      BY <1>3, <3>1 DEF Step, Frame
    <3> QED BY <3>2 DEF Advance, f
  <2>5. f = Top(p) /\ g = Top(x) /\ 0 = Up(f.src[f.pos]) /\ 0 \in Int
    BY <1>5, <2>3
  <2>6. item = f.src[f.pos]
    BY <1>5
  <2> HIDE DEF e, x, g, f, item
  <2>7. /\ Tells(input, Q, R, x, t) /\ x.status = p.status
        /\ g.pos >= 2 /\ g.src[g.pos - 1] = f.src[f.pos]
        /\ Line(input, R, g, 2) = Line(input, R, f, 1)
    <3>1. Passes(p, f, 0, x, g)
      BY <2>2, <2>4, <2>5 DEF Passes
    <3> QED BY <1>2, <3>1, PassTells
  <2>8. Refers(g, e)
    BY <2>3, <2>6, <2>7 DEF Refers
  <2>9. t = Line(input, R, g, 2) /\ x.status = "running"
    BY <1>1, <1>2, <2>7
  <2> DEFINE y == p'
  <2>10. y = IF e \in input.declared THEN Expand(x, e) ELSE Undeclared(x, e)
    BY <2>1
  <2> HIDE DEF y
  <2>11. Between(input, Q, R, y)
    <3>1. CASE e \in input.declared
      <4>1. y = Expand(x, e)
        BY <2>10, <3>1
      <4> QED BY <2>5, <2>7, <2>8, <2>9, <3>1, <4>1, ExpandTells
    <3>2. CASE e \notin input.declared
      <4>1. y = Undeclared(x, e)
        BY <2>10, <3>2
      <4> QED BY <2>3, <2>5, <2>7, <2>8, <2>9, <3>2, <4>1, UndeclaredTells
    <3> QED BY <3>1, <3>2
  <2> QED BY <2>11 DEF y
<1>13. CASE EndContent
  <2>1. p' = CloseChunk(p) /\ AtEnd(f)
    BY <1>5, <1>13 DEF EndContent, Reads
  <2> QED BY <1>1, <1>2, <2>1, CloseChunkTells
<1>14. CASE Stop
  <2>1. p' = Fail(p, "stopped") /\ "stopped" \in Outcomes
    BY <1>14 DEF Stop, Outcomes
  <2> QED BY <1>2, <2>1, FailTells
<1> QED BY <1>9, <1>10, <1>11, <1>12, <1>13, <1>14 DEF Next

-----------------------------------------------------------------------------
(***************************************************************************)
(* The content is right.                                                   *)
(***************************************************************************)
\* The text of an entity follows what the context below has told.
LEMMA BeginsNested ==
  ASSUME NEW in, NEW Q, NEW R, Table(in, Q, R), ~in.tree, NEW ents, NEW k, NEW f,
         Sits(in, Q, ents, k, f), NEW e \in Q, Refers(f, e), NEW a \in Seq(Item),
         NEW w \in Seq(Item), Begins(a \o Entire(in, R, f.src), w)
  PROVE  Begins((a \o Line(in, R, f, 2)) \o R[e], w)
<1> DEFINE l == Line(in, R, f, 2)
           r == R[e]
           s == Says(in, R, f.src[f.pos - 1])
           u == Entire(in, R, f.src)
           end == <<Reference(e)>>
<1>1. f.pos >= 2 /\ f.src[f.pos - 1] = Reference(e)
  BY DEF Refers
<1>2. /\ u \in Seq(Item) /\ Line(in, R, f, 1) \in Seq(Item) /\ Begins(Line(in, R, f, 1), u)
      /\ l \in Seq(Item) /\ s \in Seq(Item) /\ Line(in, R, f, 1) = l \o s
  BY <1>1, LineIs
<1>3. ~in.noEnt /\ CanEnter(in, e) /\ r \in Seq(Item)
  BY DEF Table
<1>4. end \in Seq(Item)
  <2>1. f.src \in Seq(Item) /\ Len(f.src) \in Nat /\ f.pos \in 1 .. Len(f.src) + 1
    <3>1. Fits(in, Q, f.src) /\ Len(f.src) \in Nat
      BY LineIs
    <3>2. f.pos \in 1 .. Len(f.src) + 1
      BY DEF Sits
    <3> QED BY <3>1, <3>2 DEF Fits
  <2>2. f.pos - 1 \in 1 .. Len(f.src)
    BY <1>1, <2>1
  <2>3. f.src[f.pos - 1] \in Item
    BY <2>1, <2>2, ElementOfSeq
  <2> QED BY <1>1, <2>3
<1>5. s = r \o end
  BY <1>1, <1>3 DEF Says, Reference
<1> HIDE DEF l, r, s, u, end
<1>6. Begins(r, s)
  BY <1>4, <1>5 DEF Begins
<1>7. Begins(l \o r, l \o s) /\ l \o r \in Seq(Item) /\ l \o s \in Seq(Item)
  BY <1>2, <1>3, <1>6, BeginsAfter
<1>8. Begins(l \o r, u)
  BY <1>2, <1>7, BeginsFurther
<1>9. Begins(a \o (l \o r), a \o u) /\ a \o (l \o r) \in Seq(Item) /\ a \o u \in Seq(Item)
  BY <1>2, <1>7, <1>8, BeginsAfter
<1>10. Begins(a \o u, w)
  BY DEF u
<1>11. Begins(a \o (l \o r), w)
  BY <1>9, <1>10, BeginsFurther
<1>12. (a \o l) \o r = a \o (l \o r)
  <2>1. a \in Seq(Item) /\ l \in Seq(Item) /\ r \in Seq(Item)
    BY <1>2, <1>3
  <2> QED BY ONLY <2>1, ThreeInARow
<1> QED BY <1>11, <1>12 DEF l, r

\* What the handler is told is the beginning of what it should be told.
LEMMA OutBegins ==
  ASSUME NEW in, NEW Q, NEW R, Table(in, Q, R), NEW x, Between(in, Q, R, x)
  PROVE  Begins(x.out, Entire(in, R, in.doc)) /\ Entire(in, R, in.doc) \in Seq(Item)
<1> DEFINE n == Len(x.frames)
           w == Entire(in, R, in.doc)
           F(k) == x.frames[k]
<1>1. PICK t : Tells(in, Q, R, x, t) /\ Begins(t, Entire(in, R, Top(x).src))
  BY DEF Between
<1>2. /\ n \in Nat \ {0} /\ Top(x) = F(n) /\ t \in Seq(Item)
      /\ \A k \in 1 .. n : Sits(in, Q, x.ents, k, F(k))
      /\ \A k \in 1 .. n - 1 : Refers(F(k), F(k + 1).e)
  BY <1>1, TopIs DEF Tells, Posted
<1>3. F(1).src = in.doc /\ 1 \in 1 .. n /\ n \in 1 .. n
  BY <1>2 DEF Sits
<1> HIDE DEF n, F
<1>4. \A k \in 1 .. n : Entire(in, R, F(k).src) \in Seq(Item)
  BY <1>2, LineIs
<1>5. w \in Seq(Item) /\ Entire(in, R, F(1).src) = w
  BY <1>3, <1>4
<1> HIDE DEF w
<1>6. CASE in.tree
  <2>1. Own(x, n) = t /\ \A k \in 1 .. n - 1 : Own(x, k) = Line(in, R, F(k), 2)
    BY <1>1, <1>6 DEF Tells, ToldTree, n, F
  <2>2. CASE n = 1
    BY <1>1, <1>2, <1>5, <2>1, <2>2 DEF Own, w
  <2>3. CASE n # 1
    <3>1. 1 \in 1 .. n - 1
      BY <1>2, <2>3
    <3>2. x.out = Line(in, R, F(1), 2) /\ F(1).pos >= 2
      BY <1>2, <2>1, <3>1 DEF Own, Refers
    <3>3. Begins(Line(in, R, F(1), 2), Entire(in, R, F(1).src))
      BY <1>2, <1>3, <3>2, LineIs
    <3> QED BY <1>5, <3>2, <3>3 DEF w
  <2> QED BY <2>2, <2>3
<1>7. CASE ~in.tree
  <2>1. PICK b : /\ b \in [1 .. n -> Seq(Item)] /\ b[1] = <<>>
                 /\ \A k \in 2 .. n : b[k] = b[k - 1] \o Line(in, R, F(k - 1), 2)
                 /\ x.out = b[n] \o t
    BY <1>1, <1>7 DEF Tells, ToldFlat, Stack, n, F
  <2> DEFINE U(k) == Entire(in, R, F(k).src)
             T == {k \in 0 .. n - 1 : Begins(b[k + 1] \o U(k + 1), w)}
  <2>2. 0 \in T
    <3>1. b[0 + 1] \o U(0 + 1) = w
      <4>1. <<>> \o w = w
        BY <1>5, ConcatEmptySeq
      <4>2. 0 + 1 = 1
        OBVIOUS
      <4> QED BY <1>5, <2>1, <4>1, <4>2
    <3>2. Begins(b[0 + 1] \o U(0 + 1), w)
      BY <1>5, <3>1, BeginsItself
    <3>3. 0 \in 0 .. n - 1
      BY <1>2
    <3> QED BY <3>2, <3>3
  <2>3. ASSUME NEW k \in 0 .. (n - 1) - 1, k \in T PROVE k + 1 \in T
    <3> DEFINE i == k + 1
               j == i + 1
               e == F(j).e
               a == b[i]
    <3>1. /\ i \in 1 .. n - 1 /\ i \in 1 .. n /\ j \in 2 .. n /\ j \in 1 .. n /\ j # 1 /\ j - 1 = i
          /\ k + 1 \in 0 .. n - 1
      BY <1>2
    <3>2. Begins(a \o U(i), w)
      BY <2>3
    <3> HIDE DEF i, j
    <3>3. e \in Q /\ F(j).src = in.body[e] /\ Sits(in, Q, x.ents, i, F(i)) /\ Refers(F(i), e)
      <4>1. Sits(in, Q, x.ents, j, F(j)) /\ Sits(in, Q, x.ents, i, F(i))
        BY <1>2, <3>1
      <4>2. Refers(F(i), F(i + 1).e)
        BY <1>2, <3>1
      <4> QED BY <3>1, <4>1, <4>2 DEF Sits, j
    <3>4. R[e] = U(j)
      BY <3>3 DEF Table
    <3>5. a \in Seq(Item) /\ b[j] = a \o Line(in, R, F(i), 2)
      BY <2>1, <3>1
    <3> DEFINE f == F(i)
    <3>6. f = F(i) /\ Begins(a \o Entire(in, R, f.src), w)
      BY <3>2
    <3> HIDE DEF e, a, f, U
    <3>7. Begins((a \o Line(in, R, f, 2)) \o R[e], w)
      BY <1>5, <1>7, <3>3, <3>5, <3>6, BeginsNested
    <3>8. Begins(b[j] \o U(j), w)
      BY <3>4, <3>5, <3>6, <3>7
    <3> QED BY <3>1, <3>8 DEF i, j
  <2>4. n - 1 \in Nat /\ n - 1 \in 0 .. n - 1 /\ (n - 1) + 1 = n
    BY <1>2
  <2>5. \A k \in 0 .. n - 1 : k \in T
    <3> HIDE DEF T
    <3> QED BY <2>2, <2>3, <2>4, StepByStep
  <2>6. Begins(b[n] \o U(n), w)
    BY <2>4, <2>5
  <2> DEFINE a == b[n]
             u == U(n)
  <2>7. a \in Seq(Item) /\ u \in Seq(Item) /\ Begins(t, u) /\ Begins(a \o u, w) /\ x.out = a \o t
    BY <1>1, <1>2, <1>3, <1>4, <2>1, <2>6
  <2> HIDE DEF a, u, T, U
  <2>8. Begins(a \o t, a \o u) /\ a \o t \in Seq(Item) /\ a \o u \in Seq(Item)
    BY <1>2, <2>7, BeginsAfter
  <2>9. Begins(a \o t, w)
    BY <1>5, <2>7, <2>8, BeginsFurther
  <2> QED BY <1>5, <2>7, <2>9 DEF w
<1> QED BY <1>6, <1>7

\* A parser that has read nothing has told nothing.
LEMMA InitTells ==
  ASSUME Init, NEW Q, NEW R, Table(input, Q, R)
  PROVE  Between(input, Q, R, p)
<1> DEFINE c == Context(NoEntity, input.doc, 0, 0, "first", FALSE, 0)
           blank == [checked |-> FALSE, expandedSize |-> 0, kids |-> <<>>]
           t == <<c>>
           E == [input.declared -> Entity]
           O == Seq(Item)
           S == Seq(Frame)
           ents == [e \in input.declared |-> blank]
           none == <<>>
<1>1. input \in Inputs /\ InputOK(input)
  BY InputsAssumption DEF Init
<1>2. p = [frames |-> t, ents |-> ents, sizeentcopy |-> 0, out |-> none, status |-> "running"]
  BY DEF Init
<1>3. input.doc \in Seq(Item) /\ Len(input.doc) \in Nat
  BY <1>1, LenProperties DEF InputOK
<1>4. none \in Seq(Item) /\ none \o none = none
  BY EmptySeq, ConcatEmptySeq
<1>5. /\ c \in Frame /\ c.e = NoEntity /\ c.src = input.doc /\ c.pos = 1 /\ c.open = 0
      /\ c.turn = "first" /\ c.was = FALSE /\ c.built = none
  BY <1>3, <1>4 DEF Context, Frame
<1> HIDE DEF c
<1>6. t \in S /\ Len(t) = 1 /\ t[1] = c /\ t # <<>>
  BY <1>5
<1>7. blank \in Entity /\ blank.kids = none /\ blank.checked = FALSE
  BY <1>4 DEF Entity
<1>8. "running" \in Outcomes
  BY DEF Outcomes
<1> HIDE DEF S, O, t, Outcomes, blank
<1>9. ents \in E /\ \A e \in input.declared : ents[e] = blank
  BY <1>7
<1> HIDE DEF E, ents
<1>10. none = <<>>
  OBVIOUS
<1> HIDE DEF none
<1>11. /\ p.frames = t /\ p.ents = ents /\ p.out = none /\ p.status = "running"
       /\ p \in [frames : S, ents : E, sizeentcopy : Int, out : O, status : Outcomes]
  BY <1>2, <1>4, <1>6, <1>8, <1>9 DEF O
<1>12. Typed(input, p)
  BY <1>6, <1>11 DEF Typed, Parser, S, E, O
<1>13. /\ Len(p.frames) = 1 /\ p.frames[1] = c /\ Top(p) = c
       /\ (\A k \in 1 .. 1 : k = 1) /\ 2 .. 1 = {} /\ 1 .. 1 - 1 = {} /\ 1 \in 1 .. 1
  <2>1. Len(p.frames) = 1 /\ p.frames[1] = c
    BY <1>6, <1>11
  <2>2. Top(p) = c
    BY <1>12, <2>1, TopIs
  <2> QED BY <2>1, <2>2
<1>14. Sits(input, Q, p.ents, 1, c)
  <2>1. c.pos \in 1 .. Len(c.src) + 1
    BY <1>3, <1>5
  <2>2. c.pos - 1 = 0 /\ Depth(c.src, 0) = 0
    BY <1>5, DepthStep
  <2> QED BY <1>5, <1>10, <2>1, <2>2 DEF Sits
<1>15. Posted(input, Q, p)
  BY <1>13, <1>14 DEF Posted
<1>16. Learnt(input, Q, R, p.ents)
  <2> SUFFICES ASSUME NEW e \in input.declared PROVE Learns(input, Q, R, e, p.ents[e])
    BY DEF Learnt
  <2>1. p.ents[e] = blank
    BY <1>9, <1>11
  <2> QED BY <1>7, <1>10, <2>1 DEF Learns
<1>17. ToldTree(input, R, p, none)
  BY <1>11, <1>13 DEF ToldTree, Own
<1>18. ToldFlat(input, R, p, none)
  <2> DEFINE b == [k \in 1 .. 1 |-> none]
  <2>1. b \in [1 .. 1 -> Seq(Item)] /\ b[1] = none
    BY <1>4
  <2> HIDE DEF b
  <2>2. Stack(input, R, p, b)
    BY <1>10, <1>13, <2>1 DEF Stack
  <2>3. p.out = b[1] \o none
    BY <1>4, <1>11, <2>1
  <2> QED BY <1>13, <2>2, <2>3 DEF ToldFlat
<1>19. Tells(input, Q, R, p, none)
  BY <1>4, <1>12, <1>15, <1>16, <1>17, <1>18 DEF Tells
<1>20. none = Line(input, R, c, 1) /\ Begins(none, Entire(input, R, c.src))
  <2>1. /\ Line(input, R, c, 1) = <<>>
        /\ Begins(Line(input, R, c, 1), Entire(input, R, c.src))
    BY <1>5, <1>14, LineIs
  <2> QED BY <1>10, <2>1
<1> QED BY <1>11, <1>13, <1>19, <1>20 DEF Between

\* The parser is between what it should have told and what it should tell, if there is
\* an answer for each entity that it enters.
Content ==
    /\ input \in Inputs
    /\ \A Q \in SUBSET Entities : \A R \in [Q -> Seq(Item)] :
         Table(input, Q, R) => Between(input, Q, R, p)

\* What is told stays right, whatever the document, its entities, the options and the
\* limits.
THEOREM ContentIsTold == Spec => []Content
<1>1. Init => Content
  <2> SUFFICES ASSUME Init PROVE Content
    OBVIOUS
  <2>1. input \in Inputs
    BY DEF Init
  <2> QED BY <2>1, InitTells DEF Content
<1>2. ASSUME Content, [Next]_vars PROVE Content'
  <2>1. CASE Next
    <3>1. input' = input
      BY <2>1 DEF Next, ReadText, ReadStart, ReadEnd, ReadReference, EndContent, Stop, Reads
    <3>2. InputOK(input)
      BY <1>2, InputsAssumption DEF Content
    <3>3. ASSUME NEW Q \in SUBSET Entities, NEW R \in [Q -> Seq(Item)], Table(input, Q, R)
          PROVE  Between(input, Q, R, p')
      <4>1. Between(input, Q, R, p)
        BY <1>2, <3>3 DEF Content
      <4> QED BY <2>1, <3>2, <3>3, <4>1, StepTells
    <3> QED BY <1>2, <3>1, <3>3 DEF Content
  <2>2. CASE UNCHANGED vars
    BY <1>2, <2>2 DEF Content, vars
  <2> QED BY <1>2, <2>1, <2>2
<1> QED BY <1>1, <1>2, PTL DEF Spec

\* What a sequence begins with is a prefix of it.
LEMMA BeginsPrefix ==
  ASSUME NEW s \in Seq(Item), NEW t \in Seq(Item), Begins(s, t)
  PROVE  IsPrefix(s, t)
<1>1. PICK r \in Seq(Item) : t = s \o r
  BY DEF Begins
<1>2. /\ Len(s) \in Nat /\ Len(r) \in Nat /\ Len(t) = Len(s) + Len(r)
      /\ \A i \in 1 .. Len(s) : t[i] = s[i]
  BY <1>1, ConcatProperties, LenProperties
<1> DEFINE n == Len(s)
           a == SubSeq(s, 1, n)
           b == SubSeq(t, 1, n)
<1>3. /\ n \in Nat /\ n = n - 1 + 1 /\ n = IF 1 <= n THEN n - 1 + 1 ELSE 0
      /\ n \in Int /\ 1 \in Int /\ \A i \in 1 .. n : s[i] \in Item /\ t[i] \in Item
  BY <1>2, ElementOfSeq
<1>4. /\ a \in Seq(Item) /\ Len(a) = IF 1 <= n THEN n - 1 + 1 ELSE 0
      /\ \A i \in 1 .. n - 1 + 1 : a[i] = s[1 + i - 1]
  BY <1>3, SubSeqProperties
<1>5. /\ b \in Seq(Item) /\ Len(b) = IF 1 <= n THEN n - 1 + 1 ELSE 0
      /\ \A i \in 1 .. n - 1 + 1 : b[i] = t[1 + i - 1]
  BY <1>3, SubSeqProperties
<1> HIDE DEF a, b
<1>6. \A i \in 1 .. n : a[i] = b[i]
  <2> SUFFICES ASSUME NEW i \in 1 .. n PROVE a[i] = b[i]
    OBVIOUS
  <2>1. 1 + i - 1 = i /\ i \in 1 .. n - 1 + 1
    BY <1>3
  <2> QED BY <1>2, <1>4, <1>5, <2>1
<1>7. a = b
  BY <1>3, <1>4, <1>5, <1>6, SeqEqual
<1> QED BY <1>2, <1>7 DEF IsPrefix, a, b

\* However often an entity is referred to, parsed or replayed, the handler is told its
\* text once for each reference, in its place: wherever a tree is built if entities are
\* substituted, and the texts of the entities refer to nothing that is not declared.
THEOREM ContentIsKept == Spec => [](Resolved => ContentIsRight)
<1>1. Content => (Resolved => ContentIsRight)
  <2> SUFFICES ASSUME Content, Resolved, WellFormed
               PROVE  /\ IsPrefix(p.out, Right(input.doc))
                      /\ p.status = "done" => p.out = Right(input.doc)
    BY DEF ContentIsRight
  <2> DEFINE Q == Reached
             R == Answers
             w == Right(input.doc)
  <2>1. InputOK(input)
    BY InputsAssumption DEF Content
  <2>2. Table(input, Q, R) /\ w = Entire(input, R, input.doc)
    BY <2>1, TableIs
  <2>3. Q \in SUBSET Entities
    BY <2>1, ReachedIs
  <2>4. R \in [Q -> Seq(Item)]
    BY <2>2 DEF Table
  <2> HIDE DEF Q, R, w
  <2>5. Between(input, Q, R, p)
    BY <2>2, <2>3, <2>4 DEF Content
  <2>6. Begins(p.out, w) /\ w \in Seq(Item)
    BY <2>2, <2>5, OutBegins
  <2>7. p.out \in Seq(Item)
    BY <2>5 DEF Between, Tells, Typed, Parser
  <2>8. p.status = "done" => p.out = w
    BY <2>2, <2>5 DEF Between
  <2> QED BY <2>6, <2>7, <2>8, BeginsPrefix DEF w
<1> QED BY <1>1, ContentIsTold, PTL
=============================================================================
