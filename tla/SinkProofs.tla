----------------------------- MODULE SinkProofs -----------------------------
(***************************************************************************)
(* Theorems about Sink for any number of callers, any capacity (zero too)  *)
(* and any number of items: no panic, exactly-once delivery in order, and  *)
(* Close means drained.  The last part is about ErrorCollector, the sink   *)
(* whose Handler collects errors: it inherits all that, and its list of    *)
(* errors follows the sink for every assignment of levels.                 *)
(***************************************************************************)
EXTENDS ErrorCollector, TLAPS

-----------------------------------------------------------------------------
(***************************************************************************)
(* The inductive invariant.                                                *)
(***************************************************************************)

\* Whoever is sending holds an item; outside the Handler the worker holds none.
ItemInv ==
    /\ \A p \in Procs : pc[p] = "send" => item[p] \in Item
    /\ pc[Worker] \in {"select", "drain", "exit"} => cur = NoItem

\* The life of the channel: senders registers exactly the goroutines between
\* Add and Done, once names the goroutine in the body of shutdown, and the
\* channel is closed by that goroutine when no sender is left and, the sink
\* being closed, none can come.
ChannelInv ==
    /\ \A p \in Procs : p \in senders <=> pc[p] \in {"send", "sent"}
    /\ \A p \in Procs : pc[p] \in {"lock", "wait", "closech"} <=> once = p
    /\ \A p \in Procs : pc[p] \in {"wait", "closech"} => closed
    /\ \A p \in Procs : pc[p] = "closech" => senders = {}
    /\ chClosed <=> once = "done"
    /\ chClosed => closed /\ senders = {}
    /\ done => chClosed /\ ch = <<>> /\ pc[Worker] = "exit"
    /\ ~panicked

IInv == TypeOK /\ ItemInv /\ ExactlyOnceInOrder /\ ChannelInv

-----------------------------------------------------------------------------
\* What Append returns.
LEMMA AppendType ==
  ASSUME NEW S, NEW s \in Seq(S), NEW x \in S
  PROVE  Append(s, x) \in Seq(S) /\ Len(Append(s, x)) = Len(s) + 1
  OBVIOUS

\* Appending to the channel appends to what was handled followed by it.
LEMMA AppendToChannel ==
  ASSUME NEW p, item[p] \in Item, ch \in Seq(Item), handled \in Seq(Item)
  PROVE  Append(handled \o ch, item[p]) = handled \o Append(ch, item[p])
  OBVIOUS

\* Moving the head of one sequence to the end of another leaves their
\* concatenation alone.
LEMMA MoveHead ==
  ASSUME NEW S, NEW s \in Seq(S), NEW t \in Seq(S), t # <<>>
  PROVE  Append(s, Head(t)) \o Tail(t) = s \o t
  OBVIOUS

\* Every step keeps every variable within its type.
LEMMA TypeStep == TypeOK /\ ItemInv /\ [Next]_vars => TypeOK'
<1> SUFFICES ASSUME TypeOK /\ ItemInv, [Next]_vars PROVE TypeOK'
  OBVIOUS
<1> USE WorkerAssumption, BoundsAssumption DEF TypeOK, ItemInv, Item, NoItem, Procs, CallerPoint, WorkerPoint,
         AtRest, Rest, AfterShutdown, WorkerReceives, chanVars, histVars, workVars
<1>1. CASE Cancel
  BY <1>1 DEF Cancel
<1>2. ASSUME NEW p \in Procs, HandleEnter(p) PROVE TypeOK'
  BY <1>2 DEF HandleEnter
<1>3. ASSUME NEW p \in Procs, SendBuffered(p) PROVE TypeOK'
  <2>1. item[p] \in Item /\ Len(ch) \in Nat
    BY <1>3 DEF SendBuffered
  <2>2. CASE chClosed
    BY <1>3, <2>2 DEF SendBuffered
  <2>3. CASE ~chClosed
    <3>1. /\ ch' = Append(ch, item[p]) /\ sent' = Append(sent, item[p])
          /\ Len(ch) < cap
      BY <1>3, <2>3 DEF SendBuffered
    <3>2. ch' \in Seq(Item) /\ Len(ch') = Len(ch) + 1 /\ sent' \in Seq(Item)
      BY <2>1, <3>1, AppendType
    <3>3. Len(ch') <= cap
      BY <2>1, <3>1, <3>2
    <3>4. QED
      BY <1>3, <2>3, <3>2, <3>3 DEF SendBuffered
  <2>4. QED
    BY <2>2, <2>3
<1>4. ASSUME NEW c \in Callers, SendRendezvous(c) PROVE TypeOK'
  <2>1. item[c] \in Item /\ c # Worker /\ pc[Worker] \in WorkerPoint
    BY <1>4 DEF SendRendezvous
  <2>2. CASE chClosed
    <3>1. /\ panicked' = TRUE
          /\ pc' = [pc EXCEPT ![c] = "sent"]
          /\ UNCHANGED <<cap, ctxDone, ch, chClosed, closing, closed, once, senders,
                         done, item, cur, back, next, sent, handled>>
      BY <1>4, <2>2 DEF SendRendezvous
    <3>2. QED
      BY <2>1, <3>1
  <2>3. CASE ~chClosed
    <3>1. /\ sent' = Append(sent, item[c]) /\ handled' = Append(handled, item[c])
          /\ pc' = [pc EXCEPT ![c] = "sent", ![Worker] = "handle"]
      BY <1>4, <2>3 DEF SendRendezvous
    <3>2. sent' \in Seq(Item) /\ handled' \in Seq(Item)
      BY <2>1, <3>1, AppendType
    <3>3. /\ pc' \in [Procs -> CallerPoint \cup WorkerPoint]
          /\ \A d \in Callers : pc'[d] \in CallerPoint
          /\ pc'[Worker] \in WorkerPoint
      BY <2>1, <3>1
    <3>4. QED
      BY <1>4, <2>1, <2>3, <3>2, <3>3 DEF SendRendezvous
  <2>4. QED
    BY <2>2, <2>3
<1>5. ASSUME NEW p \in Procs, SendClosing(p) PROVE TypeOK'
  BY <1>5 DEF SendClosing
<1>6. ASSUME NEW c \in Callers, SendAbandoned(c) PROVE TypeOK'
  BY <1>6 DEF SendAbandoned
<1>7. CASE SendDefault
  BY <1>7 DEF SendDefault
<1>8. ASSUME NEW p \in Procs, HandleDone(p) PROVE TypeOK'
  BY <1>8 DEF HandleDone
<1>9. ASSUME NEW p \in Procs, CallClose(p) PROVE TypeOK'
  BY <1>9 DEF CallClose
<1>10. ASSUME NEW p \in Procs, OnceEnter(p) PROVE TypeOK'
  BY <1>10 DEF OnceEnter
<1>11. ASSUME NEW p \in Procs, OnceSkip(p) PROVE TypeOK'
  BY <1>11 DEF OnceSkip
<1>12. ASSUME NEW p \in Procs, ShutLock(p) PROVE TypeOK'
  BY <1>12 DEF ShutLock
<1>13. ASSUME NEW p \in Procs, ShutWait(p) PROVE TypeOK'
  BY <1>13 DEF ShutWait
<1>14. ASSUME NEW p \in Procs, ShutCloseCh(p) PROVE TypeOK'
  BY <1>14 DEF ShutCloseCh
<1>15. ASSUME NEW c \in Callers, CloseReturn(c) PROVE TypeOK'
  BY <1>15 DEF CloseReturn
<1>16. CASE WorkerReceive
  BY <1>16 DEF WorkerReceive
<1>17. CASE HandlerReturn
  BY <1>17 DEF HandlerReturn
<1>18. CASE WorkerExit
  BY <1>18 DEF WorkerExit
<1>19. CASE WorkerCancelled
  BY <1>19 DEF WorkerCancelled
<1>20. CASE UNCHANGED vars
  BY <1>20 DEF vars
<1>21. QED
  BY <1>1, <1>2, <1>3, <1>4, <1>5, <1>6, <1>7, <1>8, <1>9, <1>10, <1>11,
     <1>12, <1>13, <1>14, <1>15, <1>16, <1>17, <1>18, <1>19, <1>20 DEF
     Procs, Next, CallerStep, CallerHandle, CallerClose, Shutdown,
     WorkerLoop, WorkerNested

\* A goroutine that is sending has an item; a worker outside the Handler has none.
LEMMA ItemStep == TypeOK /\ ItemInv /\ [Next]_vars => ItemInv'
<1> SUFFICES ASSUME TypeOK /\ ItemInv, [Next]_vars PROVE ItemInv'
  OBVIOUS
<1> USE WorkerAssumption, BoundsAssumption DEF TypeOK, ItemInv, Item, NoItem, Procs, CallerPoint, WorkerPoint,
         AtRest, Rest, AfterShutdown, WorkerReceives, chanVars, histVars, workVars
<1>1. CASE Cancel
  BY <1>1 DEF Cancel
<1>2. ASSUME NEW p \in Procs, HandleEnter(p) PROVE ItemInv'
  BY <1>2 DEF HandleEnter
<1>3. ASSUME NEW p \in Procs, SendBuffered(p) PROVE ItemInv'
  BY <1>3 DEF SendBuffered
<1>4. ASSUME NEW c \in Callers, SendRendezvous(c) PROVE ItemInv'
  BY <1>4 DEF SendRendezvous
<1>5. ASSUME NEW p \in Procs, SendClosing(p) PROVE ItemInv'
  BY <1>5 DEF SendClosing
<1>6. ASSUME NEW c \in Callers, SendAbandoned(c) PROVE ItemInv'
  BY <1>6 DEF SendAbandoned
<1>7. CASE SendDefault
  BY <1>7 DEF SendDefault
<1>8. ASSUME NEW p \in Procs, HandleDone(p) PROVE ItemInv'
  BY <1>8 DEF HandleDone
<1>9. ASSUME NEW p \in Procs, CallClose(p) PROVE ItemInv'
  BY <1>9 DEF CallClose
<1>10. ASSUME NEW p \in Procs, OnceEnter(p) PROVE ItemInv'
  BY <1>10 DEF OnceEnter
<1>11. ASSUME NEW p \in Procs, OnceSkip(p) PROVE ItemInv'
  BY <1>11 DEF OnceSkip
<1>12. ASSUME NEW p \in Procs, ShutLock(p) PROVE ItemInv'
  BY <1>12 DEF ShutLock
<1>13. ASSUME NEW p \in Procs, ShutWait(p) PROVE ItemInv'
  BY <1>13 DEF ShutWait
<1>14. ASSUME NEW p \in Procs, ShutCloseCh(p) PROVE ItemInv'
  BY <1>14 DEF ShutCloseCh
<1>15. ASSUME NEW c \in Callers, CloseReturn(c) PROVE ItemInv'
  BY <1>15 DEF CloseReturn
<1>16. CASE WorkerReceive
  BY <1>16 DEF WorkerReceive
<1>17. CASE HandlerReturn
  BY <1>17 DEF HandlerReturn
<1>18. CASE WorkerExit
  BY <1>18 DEF WorkerExit
<1>19. CASE WorkerCancelled
  BY <1>19 DEF WorkerCancelled
<1>20. CASE UNCHANGED vars
  BY <1>20 DEF vars
<1>21. QED
  BY <1>1, <1>2, <1>3, <1>4, <1>5, <1>6, <1>7, <1>8, <1>9, <1>10, <1>11,
     <1>12, <1>13, <1>14, <1>15, <1>16, <1>17, <1>18, <1>19, <1>20 DEF
     Procs, Next, CallerStep, CallerHandle, CallerClose, Shutdown,
     WorkerLoop, WorkerNested

\* A send extends the channel at its end, a receive consumes its head.
LEMMA OrderStep == TypeOK /\ ItemInv /\ ExactlyOnceInOrder /\ [Next]_vars => ExactlyOnceInOrder'
<1> SUFFICES ASSUME TypeOK /\ ItemInv /\ ExactlyOnceInOrder, [Next]_vars PROVE ExactlyOnceInOrder'
  OBVIOUS
<1> USE WorkerAssumption, BoundsAssumption DEF ExactlyOnceInOrder, WorkerReceives, chanVars, histVars, workVars
<1>1. CASE Cancel
  BY <1>1 DEF Cancel
<1>2. ASSUME NEW p \in Procs, HandleEnter(p) PROVE ExactlyOnceInOrder'
  BY <1>2 DEF HandleEnter
<1>3. ASSUME NEW p \in Procs, SendBuffered(p) PROVE ExactlyOnceInOrder'
  <2>1. CASE chClosed
    BY <1>3, <2>1 DEF SendBuffered
  <2>2. CASE ~chClosed
    <3>1. item[p] \in Item /\ ch \in Seq(Item) /\ handled \in Seq(Item)
      BY <1>3 DEF SendBuffered, ItemInv, TypeOK
    <3>2. /\ ch' = Append(ch, item[p]) /\ handled' = handled
          /\ sent' = Append(handled \o ch, item[p])
      BY <1>3, <2>2 DEF SendBuffered
    <3>3. Append(handled \o ch, item[p]) = handled \o Append(ch, item[p])
      BY <3>1, AppendToChannel, Zenon
    <3>4. QED
      BY <3>2, <3>3, Zenon
  <2>3. QED
    BY <2>1, <2>2 DEF TypeOK
<1>4. ASSUME NEW c \in Callers, SendRendezvous(c) PROVE ExactlyOnceInOrder'
  <2>1. CASE chClosed
    BY <1>4, <2>1 DEF SendRendezvous
  <2>2. CASE ~chClosed
    <3>1. item[c] \in Item /\ handled \in Seq(Item) /\ ch = <<>>
      BY <1>4 DEF SendRendezvous, ItemInv, TypeOK, Procs
    <3>2. sent = handled
      BY <3>1
    <3>3. /\ sent' = Append(handled, item[c])
          /\ handled' = Append(handled, item[c])
          /\ ch' = <<>>
      BY <1>4, <2>2, <3>1, <3>2 DEF SendRendezvous
    <3>4. Append(handled, item[c]) \in Seq(Item)
      BY <3>1
    <3>5. QED
      BY <3>3, <3>4
  <2>3. QED
    BY <2>1, <2>2 DEF TypeOK
<1>5. ASSUME NEW p \in Procs, SendClosing(p) PROVE ExactlyOnceInOrder'
  BY <1>5 DEF SendClosing
<1>6. ASSUME NEW c \in Callers, SendAbandoned(c) PROVE ExactlyOnceInOrder'
  BY <1>6 DEF SendAbandoned
<1>7. CASE SendDefault
  BY <1>7 DEF SendDefault
<1>8. ASSUME NEW p \in Procs, HandleDone(p) PROVE ExactlyOnceInOrder'
  BY <1>8 DEF HandleDone
<1>9. ASSUME NEW p \in Procs, CallClose(p) PROVE ExactlyOnceInOrder'
  BY <1>9 DEF CallClose
<1>10. ASSUME NEW p \in Procs, OnceEnter(p) PROVE ExactlyOnceInOrder'
  BY <1>10 DEF OnceEnter
<1>11. ASSUME NEW p \in Procs, OnceSkip(p) PROVE ExactlyOnceInOrder'
  BY <1>11 DEF OnceSkip
<1>12. ASSUME NEW p \in Procs, ShutLock(p) PROVE ExactlyOnceInOrder'
  BY <1>12 DEF ShutLock
<1>13. ASSUME NEW p \in Procs, ShutWait(p) PROVE ExactlyOnceInOrder'
  BY <1>13 DEF ShutWait
<1>14. ASSUME NEW p \in Procs, ShutCloseCh(p) PROVE ExactlyOnceInOrder'
  BY <1>14 DEF ShutCloseCh
<1>15. ASSUME NEW c \in Callers, CloseReturn(c) PROVE ExactlyOnceInOrder'
  BY <1>15 DEF CloseReturn
<1>16. CASE WorkerReceive
  <2>1. ch \in Seq(Item) /\ handled \in Seq(Item) /\ ch # <<>>
    BY <1>16 DEF WorkerReceive, TypeOK
  <2>2. QED
    BY <1>16, <2>1, MoveHead DEF WorkerReceive
<1>17. CASE HandlerReturn
  BY <1>17 DEF HandlerReturn
<1>18. CASE WorkerExit
  BY <1>18 DEF WorkerExit
<1>19. CASE WorkerCancelled
  BY <1>19 DEF WorkerCancelled
<1>20. CASE UNCHANGED vars
  BY <1>20 DEF vars
<1>21. QED
  BY <1>1, <1>2, <1>3, <1>4, <1>5, <1>6, <1>7, <1>8, <1>9, <1>10, <1>11,
     <1>12, <1>13, <1>14, <1>15, <1>16, <1>17, <1>18, <1>19, <1>20 DEF
     Procs, Next, CallerStep, CallerHandle, CallerClose, Shutdown,
     WorkerLoop, WorkerNested

\* The channel is closed by the one process that runs shutdown, after the last
\* sender that got past the closed test has finished.
LEMMA ChannelStep == TypeOK /\ ChannelInv /\ [Next]_vars => ChannelInv'
<1> SUFFICES ASSUME TypeOK /\ ChannelInv, [Next]_vars PROVE ChannelInv'
  OBVIOUS
<1> USE WorkerAssumption, BoundsAssumption DEF TypeOK, ChannelInv, Procs, CallerPoint, WorkerPoint,
         AtRest, Rest, AfterShutdown, WorkerReceives, chanVars, histVars, workVars
<1>1. CASE Cancel
  BY <1>1 DEF Cancel
<1>2. ASSUME NEW p \in Procs, HandleEnter(p) PROVE ChannelInv'
  BY <1>2 DEF HandleEnter
<1>3. ASSUME NEW p \in Procs, SendBuffered(p) PROVE ChannelInv'
  BY <1>3 DEF SendBuffered
<1>4. ASSUME NEW c \in Callers, SendRendezvous(c) PROVE ChannelInv'
  <2>1. c # Worker /\ c \in senders /\ ~chClosed /\ once # "done"
    BY <1>4 DEF SendRendezvous
  <2>2. /\ pc' = [pc EXCEPT ![c] = "sent", ![Worker] = "handle"]
        /\ UNCHANGED <<ch, chClosed, closed, once, senders, done, panicked>>
    BY <1>4, <2>1 DEF SendRendezvous
  <2>3. \A p \in Procs : pc'[p] = IF p = c THEN "sent"
                                 ELSE IF p = Worker THEN "handle" ELSE pc[p]
    BY <2>1, <2>2
  <2>4. pc[c] = "send" /\ pc[Worker] \in {"select", "drain"}
    BY <1>4, <2>1 DEF SendRendezvous
  <2>5. QED
    BY <2>1, <2>2, <2>3, <2>4
<1>5. ASSUME NEW p \in Procs, SendClosing(p) PROVE ChannelInv'
  BY <1>5 DEF SendClosing
<1>6. ASSUME NEW c \in Callers, SendAbandoned(c) PROVE ChannelInv'
  BY <1>6 DEF SendAbandoned
<1>7. CASE SendDefault
  BY <1>7 DEF SendDefault
<1>8. ASSUME NEW p \in Procs, HandleDone(p) PROVE ChannelInv'
  BY <1>8 DEF HandleDone
<1>9. ASSUME NEW p \in Procs, CallClose(p) PROVE ChannelInv'
  BY <1>9 DEF CallClose
<1>10. ASSUME NEW p \in Procs, OnceEnter(p) PROVE ChannelInv'
  BY <1>10 DEF OnceEnter
<1>11. ASSUME NEW p \in Procs, OnceSkip(p) PROVE ChannelInv'
  BY <1>11 DEF OnceSkip
<1>12. ASSUME NEW p \in Procs, ShutLock(p) PROVE ChannelInv'
  BY <1>12 DEF ShutLock
<1>13. ASSUME NEW p \in Procs, ShutWait(p) PROVE ChannelInv'
  BY <1>13 DEF ShutWait
<1>14. ASSUME NEW p \in Procs, ShutCloseCh(p) PROVE ChannelInv'
  BY <1>14 DEF ShutCloseCh
<1>15. ASSUME NEW c \in Callers, CloseReturn(c) PROVE ChannelInv'
  BY <1>15 DEF CloseReturn
<1>16. CASE WorkerReceive
  BY <1>16 DEF WorkerReceive
<1>17. CASE HandlerReturn
  BY <1>17 DEF HandlerReturn
<1>18. CASE WorkerExit
  BY <1>18 DEF WorkerExit
<1>19. CASE WorkerCancelled
  BY <1>19 DEF WorkerCancelled
<1>20. CASE UNCHANGED vars
  BY <1>20 DEF vars
<1>21. QED
  BY <1>1, <1>2, <1>3, <1>4, <1>5, <1>6, <1>7, <1>8, <1>9, <1>10, <1>11,
     <1>12, <1>13, <1>14, <1>15, <1>16, <1>17, <1>18, <1>19, <1>20 DEF
     Procs, Next, CallerStep, CallerHandle, CallerClose, Shutdown,
     WorkerLoop, WorkerNested

-----------------------------------------------------------------------------
\* A new sink satisfies the invariant.
LEMMA InitIInv == Init => IInv
<1> SUFFICES ASSUME Init PROVE IInv
  OBVIOUS
<1> USE WorkerAssumption, BoundsAssumption DEF Procs
<1>1. TypeOK
  <2>1. ch \in Seq(Item) /\ Len(ch) <= cap /\ sent \in Seq(Item) /\ handled \in Seq(Item)
    BY DEF Init
  <2>2. next \in 1 .. MaxItems + 1
    BY DEF Init
  <2>3. /\ pc \in [Procs -> CallerPoint \cup WorkerPoint]
        /\ \A c \in Callers : pc[c] \in CallerPoint
        /\ pc[Worker] \in WorkerPoint
    BY DEF Init, CallerPoint, WorkerPoint
  <2>4. QED
    BY <2>1, <2>2, <2>3 DEF Init, TypeOK
<1>2. ExactlyOnceInOrder
  BY DEF Init, ExactlyOnceInOrder
<1>3. ItemInv /\ ChannelInv
  BY DEF Init, ItemInv, ChannelInv
<1>4. QED
  BY <1>1, <1>2, <1>3 DEF IInv

\* The invariant is inductive, so it holds in every reachable state.
THEOREM Invariance == Spec => []IInv
<1>1. IInv /\ [Next]_vars => IInv'
  BY TypeStep, ItemStep, OrderStep, ChannelStep DEF IInv
<1>2. QED
  BY InitIInv, <1>1, PTL DEF Spec

\* Type correctness; in particular the buffer never exceeds its capacity.
THEOREM TypeCorrect == Spec => []TypeOK
<1>1. IInv => TypeOK
  BY DEF IInv
<1>2. QED
  BY Invariance, <1>1, PTL

\* Registering a sender before the lock is released (sink.go 124-131) and
\* waiting for the registered ones (184) rule out every panic on the channel.
THEOREM NeverPanics == Spec => []NoPanic
<1>1. IInv => NoPanic
  BY DEF IInv, ChannelInv, NoPanic
<1>2. QED
  BY Invariance, <1>1, PTL

\* Every item put on the channel is handled exactly once, in order.
THEOREM DeliveryInOrder == Spec => []ExactlyOnceInOrder
<1>1. IInv => ExactlyOnceInOrder
  BY DEF IInv
<1>2. QED
  BY Invariance, <1>1, PTL

\* The worker closes done when the channel is closed and empty.
LEMMA DrainedWhenDone == IInv => CloseMeansDrained
<1>1. SUFFICES ASSUME IInv, done
               PROVE  handled = sent /\ cur = NoItem /\ closed /\ senders = {}
  BY DEF CloseMeansDrained
<1>2. chClosed /\ ch = <<>> /\ closed /\ senders = {} /\ cur = NoItem
  BY <1>1 DEF IInv, ChannelInv, ItemInv
<1>3. handled \in Seq(Item) /\ sent = handled \o ch
  BY <1>1 DEF IInv, TypeOK, ExactlyOnceInOrder
<1>4. QED
  BY <1>2, <1>3

\* When done is closed, and so when an outside Close returns, all that was
\* accepted has been handled and nothing can be accepted any more.
THEOREM ClosedIsDrained == Spec => []CloseMeansDrained
  BY Invariance, DrainedWhenDone, PTL

-----------------------------------------------------------------------------
(***************************************************************************)
(* The composition with a Handler: ErrorCollector.                         *)
(***************************************************************************)

\* The worker is in the Handler with the last item it took.
CurInv ==
    /\ pc[Worker] \in {"handle", "send", "sent"} => cur # NoItem
    /\ cur # NoItem => handled # <<>> /\ cur = handled[Len(handled)]

\* The items whose Handler has returned.
Settled ==
    IF cur = NoItem THEN handled ELSE SubSeq(handled, 1, Len(handled) - 1)

\* The accumulator has listed exactly the wanted ones among those items.
CollectInv ==
    /\ errors \in Seq(Item)
    /\ collecting \in BOOLEAN
    /\ collecting => Lists(errors, Settled)

CIInv == IInv /\ CurInv /\ CollectInv

\* A step of the composition is a step of the sink.
LEMMA CollectorStep == [CNext]_cvars => [Next]_vars
  BY DEF CNext, cvars, Next, Accumulate, OwnHandler

\* The item that the worker takes becomes the last of the handled ones.
LEMMA TakenIsLast ==
  ASSUME NEW x \in Item, handled \in Seq(Item),
         handled' = Append(handled, x), cur' = x
  PROVE  /\ cur' # NoItem /\ handled' # <<>> /\ cur' = handled'[Len(handled')]
         /\ SubSeq(handled', 1, Len(handled') - 1) = handled
<1>1. cur' # NoItem
  BY BoundsAssumption DEF Item, NoItem
<1>2. Len(handled') = Len(handled) + 1 /\ Len(handled) \in Nat
  OBVIOUS
<1>3. handled' # <<>> /\ handled'[Len(handled) + 1] = x
  OBVIOUS
<1>4. SubSeq(handled', 1, Len(handled') - 1) = handled
  OBVIOUS
<1>5. QED
  BY <1>1, <1>2, <1>3, <1>4

\* The filter of errorAccumulator.Handle keeps what the collector wants.
LEMMA KeepsWanted == ASSUME NEW e \in Item PROVE Keeps(e) <=> Wants(e)
  BY WantedAssumption, LevelAssumption DEF Keeps, Wants, ErrorLevel

\* Listing one more item: it is appended when it is wanted,
LEMMA ListsWanted ==
  ASSUME NEW es \in Seq(Item), NEW s \in Seq(Item), NEW x \in Item,
         Lists(es, s), Wants(x)
  PROVE  Lists(Append(es, x), Append(s, x))
<1> DEFINE m == Len(es)
           n == Len(s)
           et == Append(es, x)
           t == Append(s, x)
<1>1. PICK at \in [1 .. m -> 1 .. n] :
         /\ \A i, j \in 1 .. m : i < j => at[i] < at[j]
         /\ \A k \in 1 .. n : Wants(s[k]) <=> \E i \in 1 .. m : at[i] = k
         /\ \A i \in 1 .. m : es[i] = s[at[i]]
  BY DEF Lists
<1>2. /\ m \in Nat /\ n \in Nat /\ Len(et) = m + 1 /\ Len(t) = n + 1
      /\ et[m + 1] = x /\ t[n + 1] = x
      /\ \A i \in 1 .. m : et[i] = es[i]
      /\ \A k \in 1 .. n : t[k] = s[k]
  OBVIOUS
<1> DEFINE bt == [i \in 1 .. m + 1 |-> IF i = m + 1 THEN n + 1 ELSE at[i]]
<1> HIDE DEF et, t, m, n
<1>3. bt \in [1 .. m + 1 -> 1 .. n + 1]
  BY <1>2
<1>4. /\ bt[m + 1] = n + 1
      /\ \A i \in 1 .. m : bt[i] = at[i] /\ at[i] \in 1 .. n
  BY <1>2
<1> HIDE DEF bt
<1>5. \A i \in 1 .. m + 1 : i = m + 1 \/ i \in 1 .. m
  BY <1>2
<1>6. \A i, j \in 1 .. m + 1 : i < j => bt[i] < bt[j]
  <2>1. SUFFICES ASSUME NEW i \in 1 .. m + 1, NEW j \in 1 .. m + 1, i < j
                 PROVE  bt[i] < bt[j]
    OBVIOUS
  <2>2. i \in 1 .. m
    BY <1>2, <2>1
  <2>3. CASE j = m + 1
    BY <1>2, <1>4, <2>2, <2>3
  <2>4. CASE j \in 1 .. m
    BY <1>1, <1>4, <2>1, <2>2, <2>4
  <2>5. QED
    BY <1>5, <2>3, <2>4
<1>7. \A k \in 1 .. n + 1 : Wants(t[k]) <=> \E i \in 1 .. m + 1 : bt[i] = k
  <2>1. SUFFICES ASSUME NEW k \in 1 .. n + 1
                 PROVE  Wants(t[k]) <=> \E i \in 1 .. m + 1 : bt[i] = k
    OBVIOUS
  <2>2. CASE k = n + 1
    BY <1>2, <1>4, <2>2
  <2>3. CASE k \in 1 .. n
    <3>1. t[k] = s[k] /\ (Wants(s[k]) <=> \E i \in 1 .. m : at[i] = k)
      BY <1>1, <1>2, <2>3
    <3>2. \A i \in 1 .. m : i \in 1 .. m + 1
      BY <1>2
    <3>3. k # n + 1
      BY <1>2, <2>3
    <3>4. (\E i \in 1 .. m : at[i] = k) <=> \E i \in 1 .. m + 1 : bt[i] = k
      BY <1>4, <1>5, <3>2, <3>3, Zenon
    <3>5. QED
      BY <3>1, <3>4
  <2>4. k = n + 1 \/ k \in 1 .. n
    BY <1>2
  <2>5. QED
    BY <2>2, <2>3, <2>4
<1>8. \A i \in 1 .. m + 1 : et[i] = t[bt[i]]
  <2>1. SUFFICES ASSUME NEW i \in 1 .. m + 1 PROVE et[i] = t[bt[i]]
    OBVIOUS
  <2>2. CASE i = m + 1
    BY <1>2, <1>4, <2>2
  <2>3. CASE i \in 1 .. m
    <3>1. et[i] = es[i] /\ es[i] = s[at[i]]
      BY <1>1, <1>2, <2>3
    <3>2. s[at[i]] = t[at[i]] /\ at[i] = bt[i]
      BY <1>2, <1>4, <2>3
    <3>3. QED
      BY <3>1, <3>2
  <2>4. QED
    BY <1>5, <2>2, <2>3
<1>9. Lists(et, t)
  <2>1. bt \in [1 .. Len(et) -> 1 .. Len(t)]
    BY <1>2, <1>3
  <2>2. \A i, j \in 1 .. Len(et) : i < j => bt[i] < bt[j]
    BY <1>2, <1>6
  <2>3. \A k \in 1 .. Len(t) : Wants(t[k]) <=> \E i \in 1 .. Len(et) : bt[i] = k
    BY <1>2, <1>7
  <2>4. \A i \in 1 .. Len(et) : et[i] = t[bt[i]]
    BY <1>2, <1>8
  <2>5. QED
    BY <2>1, <2>2, <2>3, <2>4, Zenon DEF Lists
<1>10. QED
  BY <1>9 DEF et, t

\* and the list stays when it is not.
LEMMA ListsUnwanted ==
  ASSUME NEW es \in Seq(Item), NEW s \in Seq(Item), NEW x \in Item,
         Lists(es, s), ~Wants(x)
  PROVE  Lists(es, Append(s, x))
<1> DEFINE m == Len(es)
           n == Len(s)
           t == Append(s, x)
<1>1. PICK at \in [1 .. m -> 1 .. n] :
         /\ \A i, j \in 1 .. m : i < j => at[i] < at[j]
         /\ \A k \in 1 .. n : Wants(s[k]) <=> \E i \in 1 .. m : at[i] = k
         /\ \A i \in 1 .. m : es[i] = s[at[i]]
  BY DEF Lists
<1>2. /\ m \in Nat /\ n \in Nat /\ Len(t) = n + 1
      /\ t[n + 1] = x
      /\ \A k \in 1 .. n : t[k] = s[k]
  OBVIOUS
<1> HIDE DEF t, m, n
<1>3. at \in [1 .. m -> 1 .. n + 1] /\ \A i \in 1 .. m : at[i] \in 1 .. n
  BY <1>2
<1>4. \A k \in 1 .. n + 1 : Wants(t[k]) <=> \E i \in 1 .. m : at[i] = k
  <2>1. SUFFICES ASSUME NEW k \in 1 .. n + 1
                 PROVE  Wants(t[k]) <=> \E i \in 1 .. m : at[i] = k
    OBVIOUS
  <2>2. CASE k = n + 1
    <3>1. k \notin 1 .. n
      BY <1>2, <2>2
    <3>2. QED
      BY <1>2, <1>3, <2>2, <3>1
  <2>3. CASE k \in 1 .. n
    BY <1>1, <1>2, <2>3
  <2>4. k = n + 1 \/ k \in 1 .. n
    BY <1>2
  <2>5. QED
    BY <2>2, <2>3, <2>4
<1>5. \A i \in 1 .. m : es[i] = t[at[i]]
  BY <1>1, <1>2, <1>3
<1>6. Lists(es, t)
  BY <1>1, <1>2, <1>3, <1>4, <1>5, ZenonT(30) DEF Lists, m
<1>7. QED
  BY <1>6 DEF t

\* The list that nothing has been added to.
LEMMA ListsNothing == Lists(<<>>, <<>>)
<1>1. [i \in 1 .. Len(<<>>) |-> i] \in [1 .. Len(<<>>) -> 1 .. Len(<<>>)]
  OBVIOUS
<1>2. \A i \in 1 .. Len(<<>>) : FALSE
  OBVIOUS
<1>3. QED
  BY <1>1, <1>2, Zenon DEF Lists

\* The worker enters the Handler with the item it has just taken, and the item is
\* gone when the Handler returns.
LEMMA CurStep == TypeOK /\ ItemInv /\ CurInv /\ [Next]_vars => CurInv'
<1> SUFFICES ASSUME TypeOK /\ ItemInv /\ CurInv, [Next]_vars PROVE CurInv'
  OBVIOUS
<1> USE WorkerAssumption, BoundsAssumption DEF TypeOK, ItemInv, CurInv, NoItem, Item, Procs, CallerPoint, WorkerPoint,
         AtRest, Rest, AfterShutdown, WorkerReceives, chanVars, histVars, workVars
<1>1. CASE Cancel
  BY <1>1 DEF Cancel
<1>2. ASSUME NEW p \in Procs, HandleEnter(p) PROVE CurInv'
  BY <1>2 DEF HandleEnter
<1>3. ASSUME NEW p \in Procs, SendBuffered(p) PROVE CurInv'
  BY <1>3 DEF SendBuffered
<1>4. ASSUME NEW c \in Callers, SendRendezvous(c) PROVE CurInv'
  <2>1. item[c] \in Item /\ c # Worker /\ handled \in Seq(Item)
    BY <1>4 DEF SendRendezvous
  <2>2. CASE chClosed
    BY <1>4, <2>1, <2>2 DEF SendRendezvous
  <2>3. CASE ~chClosed
    <3>1. handled' = Append(handled, item[c]) /\ cur' = item[c]
      BY <1>4, <2>3 DEF SendRendezvous
    <3>2. handled' # <<>> /\ cur' = handled'[Len(handled')]
      BY <2>1, <3>1, TakenIsLast
    <3>3. QED
      BY <2>1, <3>1, <3>2
  <2>4. QED
    BY <2>2, <2>3
<1>5. ASSUME NEW p \in Procs, SendClosing(p) PROVE CurInv'
  BY <1>5 DEF SendClosing
<1>6. ASSUME NEW c \in Callers, SendAbandoned(c) PROVE CurInv'
  BY <1>6 DEF SendAbandoned
<1>7. CASE SendDefault
  BY <1>7 DEF SendDefault
<1>8. ASSUME NEW p \in Procs, HandleDone(p) PROVE CurInv'
  BY <1>8 DEF HandleDone
<1>9. ASSUME NEW p \in Procs, CallClose(p) PROVE CurInv'
  BY <1>9 DEF CallClose
<1>10. ASSUME NEW p \in Procs, OnceEnter(p) PROVE CurInv'
  BY <1>10 DEF OnceEnter
<1>11. ASSUME NEW p \in Procs, OnceSkip(p) PROVE CurInv'
  BY <1>11 DEF OnceSkip
<1>12. ASSUME NEW p \in Procs, ShutLock(p) PROVE CurInv'
  BY <1>12 DEF ShutLock
<1>13. ASSUME NEW p \in Procs, ShutWait(p) PROVE CurInv'
  BY <1>13 DEF ShutWait
<1>14. ASSUME NEW p \in Procs, ShutCloseCh(p) PROVE CurInv'
  BY <1>14 DEF ShutCloseCh
<1>15. ASSUME NEW c \in Callers, CloseReturn(c) PROVE CurInv'
  BY <1>15 DEF CloseReturn
<1>16. CASE WorkerReceive
  <2>1. Head(ch) \in Item /\ handled \in Seq(Item)
    BY <1>16 DEF WorkerReceive
  <2>2. handled' = Append(handled, Head(ch)) /\ cur' = Head(ch)
    BY <1>16 DEF WorkerReceive
  <2>3. handled' # <<>> /\ cur' = handled'[Len(handled')]
    BY <2>1, <2>2, TakenIsLast
  <2>4. QED
    BY <2>1, <2>2, <2>3
<1>17. CASE HandlerReturn
  BY <1>17 DEF HandlerReturn
<1>18. CASE WorkerExit
  BY <1>18 DEF WorkerExit
<1>19. CASE WorkerCancelled
  BY <1>19 DEF WorkerCancelled
<1>20. CASE UNCHANGED vars
  BY <1>20 DEF vars
<1>21. QED
  BY <1>1, <1>2, <1>3, <1>4, <1>5, <1>6, <1>7, <1>8, <1>9, <1>10, <1>11,
     <1>12, <1>13, <1>14, <1>15, <1>16, <1>17, <1>18, <1>19, <1>20 DEF
     Procs, Next, CallerStep, CallerHandle, CallerClose, Shutdown,
     WorkerLoop, WorkerNested

\* Only the return of the Handler settles an item.
LEMMA SettledStep ==
  /\ TypeOK /\ ItemInv /\ CurInv
  /\ Cancel \/ (\E c \in Callers : CallerStep(c)) \/ WorkerLoop \/ WorkerNested
  => Settled' = Settled
<1> SUFFICES ASSUME TypeOK /\ ItemInv /\ CurInv,
                    Cancel \/ (\E c \in Callers : CallerStep(c)) \/ WorkerLoop \/ WorkerNested
             PROVE  Settled' = Settled
  OBVIOUS
<1> USE WorkerAssumption, BoundsAssumption DEF TypeOK, ItemInv, CurInv, Settled, NoItem, Item, Procs, CallerPoint, WorkerPoint,
         AtRest, Rest, AfterShutdown, WorkerReceives, chanVars, histVars, workVars
<1>1. CASE Cancel
  BY <1>1 DEF Cancel
<1>2. ASSUME NEW p \in Procs, HandleEnter(p) PROVE Settled' = Settled
  BY <1>2 DEF HandleEnter
<1>3. ASSUME NEW p \in Procs, SendBuffered(p) PROVE Settled' = Settled
  BY <1>3 DEF SendBuffered
<1>4. ASSUME NEW c \in Callers, SendRendezvous(c) PROVE Settled' = Settled
  <2>1. item[c] \in Item /\ c # Worker /\ handled \in Seq(Item)
    BY <1>4 DEF SendRendezvous
  <2>2. CASE chClosed
    BY <1>4, <2>2 DEF SendRendezvous
  <2>3. CASE ~chClosed
    <3>1. cur = NoItem /\ cur' = item[c] /\ handled' = Append(handled, item[c])
      BY <1>4, <2>3 DEF SendRendezvous
    <3>2. Settled = handled
      BY <3>1
    <3>3. Settled' = handled
      <4>1. cur' # NoItem /\ SubSeq(handled', 1, Len(handled') - 1) = handled
        BY <2>1, <3>1, TakenIsLast
      <4>2. QED
        BY <4>1
    <3>4. QED
      BY <3>2, <3>3
  <2>4. QED
    BY <2>2, <2>3
<1>5. ASSUME NEW p \in Procs, SendClosing(p) PROVE Settled' = Settled
  BY <1>5 DEF SendClosing
<1>6. ASSUME NEW c \in Callers, SendAbandoned(c) PROVE Settled' = Settled
  BY <1>6 DEF SendAbandoned
<1>7. CASE SendDefault
  BY <1>7 DEF SendDefault
<1>8. ASSUME NEW p \in Procs, HandleDone(p) PROVE Settled' = Settled
  BY <1>8 DEF HandleDone
<1>9. ASSUME NEW p \in Procs, CallClose(p) PROVE Settled' = Settled
  BY <1>9 DEF CallClose
<1>10. ASSUME NEW p \in Procs, OnceEnter(p) PROVE Settled' = Settled
  BY <1>10 DEF OnceEnter
<1>11. ASSUME NEW p \in Procs, OnceSkip(p) PROVE Settled' = Settled
  BY <1>11 DEF OnceSkip
<1>12. ASSUME NEW p \in Procs, ShutLock(p) PROVE Settled' = Settled
  BY <1>12 DEF ShutLock
<1>13. ASSUME NEW p \in Procs, ShutWait(p) PROVE Settled' = Settled
  BY <1>13 DEF ShutWait
<1>14. ASSUME NEW p \in Procs, ShutCloseCh(p) PROVE Settled' = Settled
  BY <1>14 DEF ShutCloseCh
<1>15. ASSUME NEW c \in Callers, CloseReturn(c) PROVE Settled' = Settled
  BY <1>15 DEF CloseReturn
<1>16. CASE WorkerReceive
  <2>1. Head(ch) \in Item /\ handled \in Seq(Item)
    BY <1>16, SMTT(30) DEF WorkerReceive
  <2>2. cur = NoItem /\ cur' = Head(ch) /\ handled' = Append(handled, Head(ch))
    BY <1>16 DEF WorkerReceive
  <2>3. Settled = handled
    BY <2>2
  <2>4. Settled' = handled
    <3>1. cur' # NoItem /\ SubSeq(handled', 1, Len(handled') - 1) = handled
      BY <2>1, <2>2, TakenIsLast
    <3>2. QED
      BY <3>1
  <2>5. QED
    BY <2>3, <2>4
<1>17. CASE WorkerExit
  BY <1>17 DEF WorkerExit
<1>18. CASE WorkerCancelled
  BY <1>18 DEF WorkerCancelled
<1>19. QED
  BY <1>1, <1>2, <1>3, <1>4, <1>5, <1>6, <1>7, <1>8, <1>9, <1>10, <1>11,
     <1>12, <1>13, <1>14, <1>15, <1>16, <1>17, <1>18 DEF Procs,
     CallerStep, CallerHandle, CallerClose, Shutdown, WorkerLoop,
     WorkerNested

\* The accumulator keeps up with the items the Handler settles.
LEMMA CollectStep == IInv /\ CurInv /\ CollectInv /\ [CNext]_cvars => CollectInv'
<1> SUFFICES ASSUME IInv, CurInv, CollectInv, [CNext]_cvars PROVE CollectInv'
  OBVIOUS
<1>1. CASE Accumulate
  <2>1. /\ collecting /\ collecting' /\ pc[Worker] = "handle"
        /\ cur' = NoItem /\ handled' = handled
        /\ errors' = IF Keeps(cur) THEN Append(errors, cur) ELSE errors
    BY <1>1 DEF Accumulate, HandlerReturn, histVars
  <2>2. cur \in Item /\ handled \in Seq(Item) /\ handled # <<>> /\ cur = handled[Len(handled)]
    BY <2>1 DEF IInv, TypeOK, CurInv
  <2>3. Settled \in Seq(Item) /\ handled = Append(Settled, cur)
    <3>1. Settled = SubSeq(handled, 1, Len(handled) - 1)
      BY <2>1 DEF CurInv, Settled
    <3>2. QED
      BY <2>2, <3>1
  <2>4. Settled' = Append(Settled, cur)
    BY <2>1, <2>3 DEF Settled
  <2>5. Lists(errors', Settled') /\ errors' \in Seq(Item)
    <3>1. errors \in Seq(Item) /\ Lists(errors, Settled)
      BY <2>1 DEF CollectInv
    <3>2. CASE Wants(cur)
      BY <2>1, <2>2, <2>3, <2>4, <3>1, <3>2, KeepsWanted, ListsWanted, AppendType
    <3>3. CASE ~Wants(cur)
      BY <2>1, <2>2, <2>3, <2>4, <3>1, <3>3, KeepsWanted, ListsUnwanted
    <3>4. QED
      BY <3>2, <3>3
  <2>6. QED
    BY <1>1, <2>1, <2>5 DEF CollectInv
<1>2. CASE OwnHandler
  BY <1>2 DEF OwnHandler, CollectInv
<1>3. CASE (Cancel \/ (\E c \in Callers : CallerStep(c)) \/ WorkerLoop \/ WorkerNested)
           /\ UNCHANGED <<collecting, errors>>
  BY <1>3, SettledStep DEF IInv, CollectInv
<1>4. CASE UNCHANGED cvars
  BY <1>4 DEF cvars, vars, workVars, histVars, CollectInv, Settled
<1>5. QED
  BY <1>1, <1>2, <1>3, <1>4 DEF CNext

\* The invariant of the composition.
THEOREM CInvariance == CSpec => []CIInv
<1>1. CInit => CIInv
  <2>1. SUFFICES ASSUME CInit PROVE IInv /\ CurInv /\ CollectInv
    BY DEF CIInv
  <2>2. IInv
    BY <2>1, InitIInv DEF CInit
  <2>3. CurInv
    BY <2>1, WorkerAssumption DEF CInit, Init, CurInv, Procs
  <2>4. Settled = <<>>
    BY <2>1 DEF CInit, Init, Settled
  <2>5. CollectInv
    BY <2>1, <2>4, ListsNothing DEF CInit, CollectInv
  <2>6. QED
    BY <2>2, <2>3, <2>5
<1>2. CIInv /\ [CNext]_cvars => CIInv'
  <2>1. SUFFICES ASSUME IInv, CurInv, CollectInv, [CNext]_cvars
                 PROVE  IInv' /\ CurInv' /\ CollectInv'
    BY DEF CIInv
  <2>2. [Next]_vars
    BY <2>1, CollectorStep
  <2>3. IInv'
    BY <2>1, <2>2, TypeStep, ItemStep, OrderStep, ChannelStep DEF IInv
  <2>4. CurInv'
    BY <2>1, <2>2, CurStep DEF IInv
  <2>5. QED
    BY <2>1, <2>3, <2>4, CollectStep
<1>3. QED
  BY <1>1, <1>2, PTL DEF CSpec

\* A sink with a Handler of either kind, the specification that TLC checks, has
\* the three safety properties of the sink: whatever Handler New is given.
THEOREM CollectorIsASink ==
  CSpec => [](NoPanic /\ ExactlyOnceInOrder /\ CloseMeansDrained)
<1>1. CIInv => NoPanic /\ ExactlyOnceInOrder /\ CloseMeansDrained
  <2>1. SUFFICES ASSUME IInv
                 PROVE  NoPanic /\ ExactlyOnceInOrder /\ CloseMeansDrained
    BY DEF CIInv
  <2>2. NoPanic /\ ExactlyOnceInOrder
    BY <2>1 DEF IInv, ChannelInv, NoPanic
  <2>3. CloseMeansDrained
    BY <2>1, DrainedWhenDone
  <2>4. QED
    BY <2>2, <2>3
<1>2. QED
  BY CInvariance, <1>1, PTL

\* The list of an ErrorCollector follows the sink: at any moment the wanted ones
\* among the first errors the sink took, all of them once Close has returned.
THEOREM ErrorsAreCollected == CSpec => []ErrorsFollowSink
<1>1. CIInv => ErrorsFollowSink
  <2>1. SUFFICES ASSUME CIInv, collecting
                 PROVE  /\ \E n \in 0 .. Len(sent) : Lists(errors, SubSeq(sent, 1, n))
                        /\ done => Lists(errors, sent)
    BY DEF ErrorsFollowSink
  <2>2. /\ handled \in Seq(Item) /\ ch \in Seq(Item) /\ sent = handled \o ch
        /\ Lists(errors, Settled)
    BY <2>1 DEF CIInv, IInv, TypeOK, ExactlyOnceInOrder, CollectInv
  <2>3. \E n \in 0 .. Len(sent) : Lists(errors, SubSeq(sent, 1, n))
    <3>1. CASE cur = NoItem
      <4>1. Len(handled) \in 0 .. Len(sent) /\ SubSeq(sent, 1, Len(handled)) = handled
        BY <2>2
      <4>2. QED
        BY <2>2, <3>1, <4>1 DEF Settled
    <3>2. CASE cur # NoItem
      <4>1. handled # <<>>
        BY <2>1, <3>2 DEF CIInv, CurInv
      <4>2. /\ Len(handled) - 1 \in 0 .. Len(sent)
            /\ SubSeq(sent, 1, Len(handled) - 1) = SubSeq(handled, 1, Len(handled) - 1)
        BY <2>2, <4>1
      <4>3. QED
        BY <2>2, <3>2, <4>2 DEF Settled
    <3>3. QED
      BY <3>1, <3>2
  <2>4. done => Lists(errors, sent)
    <3>1. SUFFICES ASSUME done PROVE Settled = sent
      BY <2>2
    <3>2. handled = sent /\ cur = NoItem
      BY <2>1, <3>1, DrainedWhenDone DEF CIInv, CloseMeansDrained
    <3>3. QED
      BY <3>2 DEF Settled
  <2>5. QED
    BY <2>3, <2>4
<1>2. QED
  BY CInvariance, <1>1, PTL
=============================================================================
