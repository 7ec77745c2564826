-------------------------------- MODULE Sink --------------------------------
(***************************************************************************)
(* sink/sink.go: a channel with a background worker that hands each item   *)
(* to a Handler.  Handle and Close may be called by any goroutine, the     *)
(* worker's own included (from within the Handler), and the worker also    *)
(* shuts the sink down itself when its context is cancelled.               *)
(*                                                                         *)
(* The critical sections of Sink.mu touch nothing that is shared outside   *)
(* the mutex and are one step each.                                        *)
(***************************************************************************)
EXTENDS Integers, Sequences, FiniteSets

CONSTANTS
    Callers,    \* the goroutines that call Handle and Close from outside
    Worker,     \* the goroutine of start
    Caps,       \* the buffer sizes a client asks for: 0 is an unbuffered channel
    MaxItems    \* bound: the Handle calls that get past the closed test

ASSUME WorkerAssumption ==
    Worker \notin Callers /\ {"free", "done"} \cap (Callers \cup {Worker}) = {}
ASSUME BoundsAssumption == Caps \subseteq Nat /\ MaxItems \in Nat

Procs == Callers \cup {Worker}

VARIABLES
    cap,        \* the capacity New gave the channel, fixed from then on
    ctxDone,    \* the context given to New has been cancelled
    ch,         \* the buffered items of Sink.ch
    chClosed,   \* Sink.ch has been closed
    closing,    \* Sink.closing has been closed
    closed,     \* Sink.closed
    once,       \* Sink.once: "free", the process running shutdown, or "done"
    senders,    \* Sink.senders: the processes between Add and Done
    done,       \* Sink.done has been closed
    pc,         \* control point of every goroutine
    item,       \* the item each goroutine is sending
    cur,        \* the item the Handler is working on
    back,       \* where the worker resumes: in select or in the drain loop
    next,       \* the next fresh item
    panicked,   \* a send on a closed channel, or a second close of one
    sent,       \* history: the items put on the channel, in that order
    handled     \* history: the items given to the Handler, in that order

chanVars == <<ch, chClosed, closing, closed, once, senders, done, panicked>>
histVars == <<next, sent, handled>>
workVars == <<cur, back>>
vars == <<cap, ctxDone, chanVars, pc, item, workVars, histVars>>

Item == 1 .. MaxItems
NoItem == 0

CallerPoint == {"idle", "send", "sent", "once", "lock", "wait", "closech", "await"}
WorkerPoint == {"select", "drain", "handle", "send", "sent", "once", "lock",
                "wait", "closech", "exit"}

TypeOK ==
    /\ cap \in Caps
    /\ ctxDone \in BOOLEAN
    /\ ch \in Seq(Item) /\ Len(ch) <= cap
    /\ chClosed \in BOOLEAN /\ closing \in BOOLEAN /\ closed \in BOOLEAN
    /\ once \in {"free", "done"} \cup Procs
    /\ senders \in SUBSET Procs
    /\ done \in BOOLEAN
    /\ pc \in [Procs -> CallerPoint \cup WorkerPoint]
    /\ \A c \in Callers : pc[c] \in CallerPoint
    /\ pc[Worker] \in WorkerPoint
    /\ item \in [Procs -> Item \cup {NoItem}]
    /\ cur \in Item \cup {NoItem}
    /\ back \in {"select", "drain"}
    /\ next \in 1 .. MaxItems + 1
    /\ panicked \in BOOLEAN
    /\ sent \in Seq(Item) /\ handled \in Seq(Item)

Init ==
    /\ cap \in Caps
    /\ ctxDone = FALSE
    /\ ch = <<>> /\ chClosed = FALSE /\ closing = FALSE /\ closed = FALSE
    /\ once = "free" /\ senders = {} /\ done = FALSE
    /\ pc = [p \in Procs |-> IF p = Worker THEN "select" ELSE "idle"]
    /\ item = [p \in Procs |-> NoItem]
    /\ cur = NoItem /\ back = "select"
    /\ next = 1
    /\ panicked = FALSE
    /\ sent = <<>> /\ handled = <<>>

\* The owner of the context given to New cancels it.
Cancel ==
    /\ ~ctxDone
    /\ ctxDone' = TRUE
    /\ UNCHANGED <<cap, chanVars, pc, item, workVars, histVars>>

-----------------------------------------------------------------------------
(***************************************************************************)
(* Handle.  The worker may call it from within the Handler ("handle").     *)
(***************************************************************************)
AtRest(p) == pc[p] = IF p = Worker THEN "handle" ELSE "idle"
Rest(p) == IF p = Worker THEN "handle" ELSE "idle"

\* RLock, the test of closed, senders.Add and RUnlock.
HandleEnter(p) ==
    /\ AtRest(p)
    /\ ~closed
    /\ next <= MaxItems
    /\ next' = next + 1
    /\ senders' = senders \cup {p}
    /\ pc' = [pc EXCEPT ![p] = "send"]
    /\ item' = [item EXCEPT ![p] = next]
    /\ UNCHANGED <<cap, ctxDone, ch, chClosed, closing, closed, once, done, panicked,
                   workVars, sent, handled>>

\* The select picks ch <- data.  On a buffered channel there is room; on an
\* unbuffered one the worker is receiving and takes the item at once.  A send
\* on a closed channel panics.
WorkerReceives == pc[Worker] \in {"select", "drain"}

SendBuffered(p) ==
    /\ pc[p] = "send"
    /\ cap > 0 /\ (Len(ch) < cap \/ chClosed)
    /\ IF chClosed
       THEN panicked' = TRUE /\ UNCHANGED <<ch, sent>>
       ELSE /\ ch' = Append(ch, item[p])
            /\ sent' = Append(sent, item[p])
            /\ UNCHANGED panicked
    /\ pc' = [pc EXCEPT ![p] = "sent"]
    /\ UNCHANGED <<cap, ctxDone, chClosed, closing, closed, once, senders, done,
                   item, workVars, next, handled>>

SendRendezvous(c) ==
    /\ pc[c] = "send"
    /\ cap = 0 /\ (WorkerReceives \/ chClosed)
    /\ IF chClosed
       THEN /\ panicked' = TRUE
            /\ pc' = [pc EXCEPT ![c] = "sent"]
            /\ UNCHANGED <<workVars, sent, handled>>
       ELSE /\ sent' = Append(sent, item[c])
            /\ handled' = Append(handled, item[c])
            /\ cur' = item[c]
            /\ back' = pc[Worker]
            /\ pc' = [pc EXCEPT ![c] = "sent", ![Worker] = "handle"]
            /\ UNCHANGED panicked
    /\ UNCHANGED <<cap, ctxDone, ch, chClosed, closing, closed, once, senders, done,
                   item, next>>

\* Mutant: Handle does not listen to closing.
SendClosingNever(p) == FALSE /\ UNCHANGED <<vars, p>>

\* The select picks <-closing: the item is dropped.
SendClosing(p) ==
    /\ pc[p] = "send" /\ closing
    /\ pc' = [pc EXCEPT ![p] = "sent"]
    /\ UNCHANGED <<cap, ctxDone, chanVars, item, workVars, histVars>>

\* The select picks <-ctx.Done(), the context of this call.
SendAbandoned(c) ==
    /\ pc[c] = "send"
    /\ pc' = [pc EXCEPT ![c] = "sent"]
    /\ UNCHANGED <<cap, ctxDone, chanVars, item, workVars, histVars>>

\* Mutant: a re-entrant send blocks like any other.
SendDefaultNever == FALSE /\ UNCHANGED vars

\* The default case of the worker's select: nothing is ready, drop the item.
SendDefault ==
    /\ pc[Worker] = "send"
    /\ ~closing
    /\ cap = 0 \/ Len(ch) = cap
    /\ pc' = [pc EXCEPT ![Worker] = "sent"]
    /\ UNCHANGED <<cap, ctxDone, chanVars, item, workVars, histVars>>

\* The deferred senders.Done and the return of Handle.
HandleDone(p) ==
    /\ pc[p] = "sent"
    /\ senders' = senders \ {p}
    /\ pc' = [pc EXCEPT ![p] = Rest(p)]
    /\ item' = [item EXCEPT ![p] = NoItem]
    /\ UNCHANGED <<cap, ctxDone, ch, chClosed, closing, closed, once, done, panicked,
                   workVars, histVars>>

-----------------------------------------------------------------------------
(***************************************************************************)
(* Close and shutdown.                                                     *)
(***************************************************************************)
CallClose(p) ==
    /\ AtRest(p)
    /\ pc' = [pc EXCEPT ![p] = "once"]
    /\ UNCHANGED <<cap, ctxDone, chanVars, item, workVars, histVars>>

\* Where a goroutine goes after shutdown: an outside caller of Close waits for
\* done; a self-close returns to the Handler; the worker whose context is
\* cancelled goes on to drain.
AfterShutdown(p) ==
    CASE p # Worker     -> "await"
      [] p = Worker /\ cur # NoItem -> "handle"
      [] p = Worker /\ cur = NoItem -> "drain"

\* once.Do: one process runs the body, the others wait until it is done.
OnceEnter(p) ==
    /\ pc[p] = "once" /\ once = "free"
    /\ once' = p
    /\ pc' = [pc EXCEPT ![p] = "lock"]
    /\ UNCHANGED <<cap, ctxDone, ch, chClosed, closing, closed, senders, done,
                   panicked, item, workVars, histVars>>

OnceSkip(p) ==
    /\ pc[p] = "once" /\ once = "done"
    /\ pc' = [pc EXCEPT ![p] = AfterShutdown(p)]
    /\ UNCHANGED <<cap, ctxDone, chanVars, item, workVars, histVars>>

\* Lock, closed = true, close(closing), Unlock.
ShutLock(p) ==
    /\ pc[p] = "lock"
    /\ closed' = TRUE
    /\ closing' = TRUE
    /\ pc' = [pc EXCEPT ![p] = "wait"]
    /\ UNCHANGED <<cap, ctxDone, ch, chClosed, once, senders, done, panicked, item,
                   workVars, histVars>>

\* Mutant: shutdown does not wait for the senders in flight.
ShutNoWait(p) ==
    /\ pc[p] = "wait"
    /\ pc' = [pc EXCEPT ![p] = "closech"]
    /\ UNCHANGED <<cap, ctxDone, chanVars, item, workVars, histVars>>

\* senders.Wait.
ShutWait(p) ==
    /\ pc[p] = "wait"
    /\ senders = {}
    /\ pc' = [pc EXCEPT ![p] = "closech"]
    /\ UNCHANGED <<cap, ctxDone, chanVars, item, workVars, histVars>>

\* close(s.ch) and the end of once.Do.
ShutCloseCh(p) ==
    /\ pc[p] = "closech"
    /\ panicked' = (panicked \/ chClosed)
    /\ chClosed' = TRUE
    /\ once' = "done"
    /\ pc' = [pc EXCEPT ![p] = AfterShutdown(p)]
    /\ UNCHANGED <<cap, ctxDone, ch, closing, closed, senders, done, item, workVars,
                   histVars>>

\* <-s.done, and Close returns to its outside caller.
CloseReturn(c) ==
    /\ pc[c] = "await" /\ done
    /\ pc' = [pc EXCEPT ![c] = "idle"]
    /\ UNCHANGED <<cap, ctxDone, chanVars, item, workVars, histVars>>

-----------------------------------------------------------------------------
(***************************************************************************)
(* The worker: start.                                                      *)
(***************************************************************************)
\* Mutant: the items left at a cancellation are drained but not handled.
WorkerReceiveDiscards ==
    /\ WorkerReceives
    /\ ch # <<>>
    /\ ch' = Tail(ch)
    /\ IF pc[Worker] = "drain"
       THEN UNCHANGED <<handled, cur, back, pc>>
       ELSE /\ handled' = Append(handled, Head(ch))
            /\ cur' = Head(ch)
            /\ back' = pc[Worker]
            /\ pc' = [pc EXCEPT ![Worker] = "handle"]
    /\ UNCHANGED <<cap, ctxDone, chClosed, closing, closed, once, senders, done,
                   panicked, item, next, sent>>

\* A receive, in the select or in the drain loop, gives an item to Handler.
WorkerReceive ==
    /\ WorkerReceives
    /\ ch # <<>>
    /\ ch' = Tail(ch)
    /\ handled' = Append(handled, Head(ch))
    /\ cur' = Head(ch)
    /\ back' = pc[Worker]
    /\ pc' = [pc EXCEPT ![Worker] = "handle"]
    /\ UNCHANGED <<cap, ctxDone, chClosed, closing, closed, once, senders, done,
                   panicked, item, next, sent>>

HandlerReturn ==
    /\ pc[Worker] = "handle"
    /\ pc' = [pc EXCEPT ![Worker] = back]
    /\ cur' = NoItem
    /\ UNCHANGED <<cap, ctxDone, chanVars, item, back, histVars>>

\* Mutant: start returns as soon as it sees the channel closed.
WorkerExitEarly ==
    /\ WorkerReceives
    /\ chClosed
    /\ done' = TRUE
    /\ pc' = [pc EXCEPT ![Worker] = "exit"]
    /\ UNCHANGED <<cap, ctxDone, ch, chClosed, closing, closed, once, senders,
                   panicked, item, workVars, histVars>>

\* The channel is closed and empty: start returns and closes done.
WorkerExit ==
    /\ WorkerReceives
    /\ ch = <<>> /\ chClosed
    /\ done' = TRUE
    /\ pc' = [pc EXCEPT ![Worker] = "exit"]
    /\ UNCHANGED <<cap, ctxDone, ch, chClosed, closing, closed, once, senders,
                   panicked, item, workVars, histVars>>

\* The select picks <-ctx.Done(): shut down, then drain.
WorkerCancelled ==
    /\ pc[Worker] = "select" /\ ctxDone
    /\ pc' = [pc EXCEPT ![Worker] = "once"]
    /\ UNCHANGED <<cap, ctxDone, chanVars, item, workVars, histVars>>

-----------------------------------------------------------------------------
CallerHandle(c) ==
    SendBuffered(c) \/ SendRendezvous(c) \/ SendClosing(c) \/ HandleDone(c)

Shutdown(p) ==
    OnceEnter(p) \/ OnceSkip(p) \/ ShutLock(p) \/ ShutWait(p) \/ ShutCloseCh(p)

CallerClose(c) == Shutdown(c) \/ CloseReturn(c)

\* What the worker does of its own accord, outside the Handler.
WorkerLoop == WorkerReceive \/ WorkerExit \/ WorkerCancelled

\* What the worker does on behalf of the Handler's calls of Handle and Close.
WorkerNested ==
    SendBuffered(Worker) \/ SendClosing(Worker) \/ SendDefault
      \/ HandleDone(Worker) \/ Shutdown(Worker)

CallerStep(c) ==
    \/ HandleEnter(c) \/ SendAbandoned(c) \/ CallClose(c)
    \/ CallerHandle(c) \/ CallerClose(c)

Next ==
    \/ Cancel
    \/ \E c \in Callers : CallerStep(c)
    \/ HandleEnter(Worker) \/ CallClose(Worker) \/ HandlerReturn
    \/ WorkerLoop \/ WorkerNested

Spec == Init /\ [][Next]_vars

(***************************************************************************)
(* Fairness.  Goroutines that can run do run; a select that is ready       *)
(* infinitely often is taken (the runtime queues blocked senders in FIFO   *)
(* order and picks among ready cases at random); a Handler returns, however*)
(* often it calls Handle or Close first.  Nothing obliges a caller to call *)
(* or a context to be cancelled.                                           *)
(***************************************************************************)
Fairness ==
    /\ \A c \in Callers : SF_vars(CallerHandle(c)) /\ SF_vars(CallerClose(c))
    /\ WF_vars(WorkerReceive \/ WorkerExit) /\ SF_vars(WorkerCancelled)
    /\ WF_vars(WorkerNested)
    /\ SF_vars(HandlerReturn)

LiveSpec == Spec /\ Fairness

-----------------------------------------------------------------------------
(***************************************************************************)
(* Properties.                                                             *)
(***************************************************************************)

\* The sink never sends on a closed channel and never closes one twice, so no
\* call of Handle or Close panics, whoever shuts the sink down and when.
NoPanic == ~panicked

\* Every item put on the channel is handled exactly once, in channel order:
\* what was sent is what was handled followed by what is still buffered.
ExactlyOnceInOrder == sent = handled \o ch

\* Once done is closed, hence once a Close has returned to an outside caller,
\* everything that was ever put on the channel has been through the Handler,
\* no sender is in flight and none can follow.
CloseMeansDrained ==
    done => handled = sent /\ cur = NoItem /\ closed /\ senders = {}

\* Every call returns.  Close does: to outside callers, and to a Handler that
\* closes its own sink, also while another goroutine or the cancellation shuts
\* it down.  Handle does: an outside caller is not stuck on a full buffer, and
\* the Handler is not stuck on the buffer that only its own goroutine drains.
CallsReturn == \A p \in Procs :
    /\ (pc[p] = "once") ~> (pc[p] \in {"idle", "handle", "drain"})
    /\ (pc[p] = "send") ~> AtRest(p)

\* Cancelling the sink's context stops the worker, with nobody calling Close.
CancelStopsWorker == ctxDone ~> done
=============================================================================
