----------------------------- MODULE PushStream -----------------------------
(***************************************************************************)
(* push/push.go: a push parser.  Callers Write chunks into a stream and    *)
(* Close it; a background goroutine runs a pull parser (a Source) whose    *)
(* Read blocks on a condition variable; a watcher goroutine turns the      *)
(* cancellation of the context into a wake-up of that Read.                *)
(*                                                                         *)
(* Every critical section of stream.mu is one step, except Read's: Read    *)
(* consults ctx.Err(), which the mutex does not protect, more than once    *)
(* while it holds the mutex, so each consultation is a step of its own.    *)
(***************************************************************************)
EXTENDS Integers, Sequences

CONSTANTS
    Callers,    \* the goroutines that call Push/Write and Close
    Byte,       \* the values a pushed byte may have
    Chunks,     \* the chunks a caller may push
    MaxBytes    \* bound: the bytes accepted in a behaviour

ASSUME ChunksAssumption == Chunks \subseteq Seq(Byte)
ASSUME MaxBytesAssumption == MaxBytes \in Nat

VARIABLES
    cancellable,  \* ctx.Done() # nil, fixed when the parser is created
    ctxDone,      \* the context has been cancelled
    buf,          \* stream.buf
    closed,       \* stream.closed
    wrErr,        \* stream.wrErr
    ctxErr,       \* stream.ctxErr # nil
    stop,         \* the channel stream.stop has been closed
    once,         \* Parser.closeOnce
    done,         \* the channel Parser.done, capacity 1
    pres,         \* Parser.res
    pp,           \* control point of the parse goroutine
    res,          \* its local result
    wp,           \* control point of the watcher goroutine
    cp,           \* control point of each caller
    accepted,     \* history: the bytes the Writes that returned nil accepted
    delivered,    \* history: the bytes the Reads returned
    lastRead,     \* history: what the last Read returned
    sawCtx,       \* history: some Read returned the context's error
    parsed,       \* history: what the Source returned
    wres,         \* history: the error of each caller's last Write
    cres          \* history: what each caller's Close calls returned

streamVars == <<buf, closed, wrErr, ctxErr, stop>>
parserVars == <<pp, res, parsed>>
readVars == <<delivered, lastRead, sawCtx>>
closeVars == <<once, done, pres, cp, cres>>
vars == <<cancellable, ctxDone, streamVars, parserVars, wp, readVars,
          closeVars, accepted, wres>>

-----------------------------------------------------------------------------
\* Errors: no error, the Source's own failure, a recovered panic, the
\* context's error, io.ErrClosedPipe.
ParseErr == {"parse", "panic", "canceled"}
Result == [val : {"zero", "value"}, err : {"nil"} \cup ParseErr]
NoResult == [val |-> "zero", err |-> "none"]

ReaderHolds == {"test", "wait", "exit"}   \* Read holds stream.mu here
Epilogue == {"epilogue", "closing", "stopping", "sending", "end"}
Published == pp \in {"stopping", "sending", "end"}
Locked == pp \in ReaderHolds

TypeOK ==
    /\ cancellable \in BOOLEAN
    /\ ctxDone \in BOOLEAN
    /\ buf \in Seq(Byte)
    /\ closed \in BOOLEAN
    /\ wrErr \in {"nil"} \cup ParseErr
    /\ ctxErr \in BOOLEAN
    /\ stop \in BOOLEAN
    /\ once \in {"free", "busy", "done"}
    /\ done \in {NoResult} \cup Result
    /\ pres \in {NoResult} \cup Result
    /\ pp \in {"run", "woken", "waiting"} \cup ReaderHolds \cup Epilogue
    /\ res \in Result
    /\ wp \in {"select", "lock", "exited"}
    /\ cp \in [Callers -> {"idle", "once", "close", "stop", "recv"}]
    /\ accepted \in Seq(Byte)
    /\ delivered \in Seq(Byte)
    /\ lastRead \in {"none", "data", "eof", "canceled"}
    /\ sawCtx \in BOOLEAN
    /\ parsed \in {NoResult} \cup Result
    /\ wres \in [Callers -> {"nil", "closedPipe"} \cup ParseErr]
    /\ cres \in [Callers -> SUBSET Result]

Zero == [val |-> "zero", err |-> "nil"]

\* New and newStream: no watcher for a context that cannot be cancelled.
Init ==
    /\ cancellable \in BOOLEAN
    /\ ctxDone = FALSE
    /\ buf = <<>> /\ closed = FALSE /\ wrErr = "nil"
    /\ ctxErr = FALSE /\ stop = FALSE
    /\ once = "free" /\ done = NoResult /\ pres = NoResult
    /\ pp = "run" /\ res = Zero
    /\ wp = IF cancellable THEN "select" ELSE "exited"
    /\ cp = [c \in Callers |-> "idle"]
    /\ accepted = <<>> /\ delivered = <<>>
    /\ lastRead = "none" /\ sawCtx = FALSE
    /\ parsed = NoResult
    /\ wres = [c \in Callers |-> "nil"]
    /\ cres = [c \in Callers |-> {}]

-----------------------------------------------------------------------------
\* cond.Signal and cond.Broadcast: Read is the only waiter, so either wakes it.
Wake == pp' = IF pp = "waiting" THEN "woken" ELSE pp

\* The owner of the context cancels it.
Cancel ==
    /\ cancellable /\ ~ctxDone
    /\ ctxDone' = TRUE
    /\ UNCHANGED <<cancellable, streamVars, parserVars, wp, readVars,
                   closeVars, accepted, wres>>

(***************************************************************************)
(* The watcher goroutine of newStream.                                     *)
(***************************************************************************)
WatchDone ==
    /\ wp = "select" /\ ctxDone
    /\ wp' = "lock"
    /\ UNCHANGED <<cancellable, ctxDone, streamVars, parserVars, readVars,
                   closeVars, accepted, wres>>

\* Mutant: the Broadcast is not under the mutex.
WatchBroadcastUnlocked ==
    /\ wp = "lock"
    /\ Wake
    /\ wp' = "exited"
    /\ UNCHANGED <<cancellable, ctxDone, streamVars, res, parsed, readVars,
                   closeVars, accepted, wres>>

WatchBroadcast ==
    /\ wp = "lock"
    /\ ~Locked
    /\ Wake
    /\ wp' = "exited"
    /\ UNCHANGED <<cancellable, ctxDone, streamVars, res, parsed, readVars,
                   closeVars, accepted, wres>>

WatchStop ==
    /\ wp = "select" /\ stop
    /\ wp' = "exited"
    /\ UNCHANGED <<cancellable, ctxDone, streamVars, parserVars, readVars,
                   closeVars, accepted, wres>>

(***************************************************************************)
(* stream.Read, called by the Source in the parse goroutine.               *)
(***************************************************************************)
\* cond.Wait returns: mutant, the wait is an if and not a loop.
ReadLockOnce ==
    /\ pp \in {"run", "woken"}
    /\ pp' = IF pp = "run" THEN "test" ELSE "exit"
    /\ UNCHANGED <<cancellable, ctxDone, streamVars, res, parsed, wp, readVars,
                   closeVars, accepted, wres>>

\* Read begins, or cond.Wait returns: the mutex is taken and the test is next.
ReadLock ==
    /\ pp \in {"run", "woken"}
    /\ pp' = "test"
    /\ UNCHANGED <<cancellable, ctxDone, streamVars, res, parsed, wp, readVars,
                   closeVars, accepted, wres>>

\* The loop's condition: the last conjunct reads the context, which is not
\* protected by the mutex.
KeepWaitingDeaf == buf = <<>> /\ ~closed
KeepWaiting == buf = <<>> /\ ~closed /\ ~ctxDone

ReadTest ==
    /\ pp = "test"
    /\ pp' = IF KeepWaiting THEN "wait" ELSE "exit"
    /\ UNCHANGED <<cancellable, ctxDone, streamVars, res, parsed, wp, readVars,
                   closeVars, accepted, wres>>

\* cond.Wait: enrol and release the mutex in one step.
ReadWait ==
    /\ pp = "wait"
    /\ pp' = "waiting"
    /\ UNCHANGED <<cancellable, ctxDone, streamVars, res, parsed, wp, readVars,
                   closeVars, accepted, wres>>

\* Mutant: a cancelled Read throws the buffered bytes away.
ReadCanceledDrains ==
    /\ pp = "exit" /\ ctxDone
    /\ ctxErr' = TRUE /\ sawCtx' = TRUE /\ lastRead' = "canceled"
    /\ buf' = <<>>
    /\ pp' = "run"
    /\ UNCHANGED <<cancellable, ctxDone, closed, wrErr, stop, res, parsed,
                   wp, delivered, closeVars, accepted, wres>>

\* After the loop: the context is consulted afresh, before the buffer.
ReadCanceled ==
    /\ pp = "exit" /\ ctxDone
    /\ ctxErr' = TRUE /\ sawCtx' = TRUE /\ lastRead' = "canceled"
    /\ pp' = "run"
    /\ UNCHANGED <<cancellable, ctxDone, buf, closed, wrErr, stop, res, parsed,
                   wp, delivered, closeVars, accepted, wres>>

\* io.EOF, from the test on closed or from bytes.Buffer.Read on an empty buffer.
ReadEOF ==
    /\ pp = "exit" /\ ~ctxDone
    /\ buf = <<>>
    /\ lastRead' = "eof"
    /\ pp' = "run"
    /\ UNCHANGED <<cancellable, ctxDone, streamVars, res, parsed, wp,
                   delivered, sawCtx, closeVars, accepted, wres>>

\* buf.Read(p): n is the smaller of len(p) and what the buffer holds.
ReadData(n) ==
    /\ pp = "exit" /\ ~ctxDone
    /\ n \in 1 .. Len(buf)
    /\ delivered' = delivered \o SubSeq(buf, 1, n)
    /\ buf' = SubSeq(buf, n + 1, Len(buf))
    /\ lastRead' = "data"
    /\ pp' = "run"
    /\ UNCHANGED <<cancellable, ctxDone, closed, wrErr, ctxErr, stop, res,
                   parsed, wp, sawCtx, closeVars, accepted, wres>>

-----------------------------------------------------------------------------
(***************************************************************************)
(* The parse goroutine of New.  The Source is any implementation of        *)
(* ParseReader: it may return before the end of input, swallow an error of *)
(* Read, consult the context itself, or panic.                             *)
(***************************************************************************)
SourceReturn(val, err) ==
    /\ pp = "run"
    /\ err = "canceled" => ctxDone
    /\ parsed' = [val |-> val, err |-> err]
    /\ res' = parsed'
    /\ pp' = "epilogue"
    /\ UNCHANGED <<cancellable, ctxDone, streamVars, wp, readVars, closeVars,
                   accepted, wres>>

\* recover(): ParseReader's results were never assigned, so res is zero.
SourcePanic ==
    /\ pp = "run"
    /\ parsed' = [val |-> "zero", err |-> "panic"]
    /\ res' = parsed'
    /\ pp' = "epilogue"
    /\ UNCHANGED <<cancellable, ctxDone, streamVars, wp, readVars, closeVars,
                   accepted, wres>>

SourceEnds ==
    \/ \E val \in {"zero", "value"}, err \in {"nil", "parse", "canceled"} :
          SourceReturn(val, err)
    \/ SourcePanic

\* Mutant: the epilogue consults ctx.Err() instead of what Read recorded.
EpilogueOverrideFresh ==
    /\ pp = "epilogue"
    /\ res' = IF res.err = "nil" /\ ctxDone
              THEN [val |-> "zero", err |-> "canceled"] ELSE res
    /\ pp' = "closing"
    /\ UNCHANGED <<cancellable, ctxDone, streamVars, parsed, wp, readVars,
                   closeVars, accepted, wres>>

\* readContextErr and the override of an error-free result.
EpilogueOverride ==
    /\ pp = "epilogue"
    /\ res' = IF res.err = "nil" /\ ctxErr
              THEN [val |-> "zero", err |-> "canceled"] ELSE res
    /\ pp' = "closing"
    /\ UNCHANGED <<cancellable, ctxDone, streamVars, parsed, wp, readVars,
                   closeVars, accepted, wres>>

\* Mutant: the stream is closed with the Source's error, before the override.
EpilogueCloseEarly ==
    /\ pp = "closing"
    /\ wrErr' = parsed.err
    /\ closed' = TRUE
    /\ pp' = "stopping"
    /\ UNCHANGED <<cancellable, ctxDone, buf, ctxErr, stop, res, parsed, wp,
                   readVars, closeVars, accepted, wres>>

\* Mutant: only the write error is set; the stream stays open after a success.
EpilogueCloseOpen ==
    /\ pp = "closing"
    /\ wrErr' = res.err
    /\ closed' = closed
    /\ pp' = "stopping"
    /\ UNCHANGED <<cancellable, ctxDone, buf, ctxErr, stop, res, parsed, wp,
                   readVars, closeVars, accepted, wres>>

\* stream.closeWithWriteError(res.err), up to its Unlock.
EpilogueClose ==
    /\ pp = "closing"
    /\ wrErr' = res.err
    /\ closed' = TRUE
    /\ pp' = "stopping"
    /\ UNCHANGED <<cancellable, ctxDone, buf, ctxErr, stop, res, parsed, wp,
                   readVars, closeVars, accepted, wres>>

\* stopWatcher: stopOnce makes a second close of the channel a no-op.
EpilogueStop ==
    /\ pp = "stopping"
    /\ stop' = TRUE
    /\ pp' = "sending"
    /\ UNCHANGED <<cancellable, ctxDone, buf, closed, wrErr, ctxErr, res,
                   parsed, wp, readVars, closeVars, accepted, wres>>

\* pp.done <- res: the channel has room for the one result it ever carries.
EpilogueSend ==
    /\ pp = "sending"
    /\ done = NoResult
    /\ done' = res
    /\ pp' = "end"
    /\ UNCHANGED <<cancellable, ctxDone, streamVars, res, parsed, wp, readVars,
                   once, pres, cp, cres, accepted, wres>>

-----------------------------------------------------------------------------
(***************************************************************************)
(* The callers: Push and Write are both stream.Write; Close.               *)
(***************************************************************************)
WriteAccept(c, chunk) ==
    /\ cp[c] = "idle" /\ ~Locked
    /\ wrErr = "nil" /\ ~closed
    /\ Len(accepted) + Len(chunk) <= MaxBytes
    /\ buf' = buf \o chunk
    /\ accepted' = accepted \o chunk
    /\ wres' = [wres EXCEPT ![c] = "nil"]
    /\ Wake
    /\ UNCHANGED <<cancellable, ctxDone, closed, wrErr, ctxErr, stop, res,
                   parsed, wp, readVars, closeVars>>

WriteReject(c) ==
    /\ cp[c] = "idle" /\ ~Locked
    /\ wrErr # "nil" \/ closed
    /\ wres' = [wres EXCEPT ![c] = IF wrErr # "nil" THEN wrErr
                                                    ELSE "closedPipe"]
    /\ UNCHANGED <<cancellable, ctxDone, streamVars, parserVars, wp, readVars,
                   closeVars, accepted>>

CallClose(c) ==
    /\ cp[c] = "idle"
    /\ cp' = [cp EXCEPT ![c] = "once"]
    /\ UNCHANGED <<cancellable, ctxDone, streamVars, parserVars, wp, readVars,
                   once, done, pres, cres, accepted, wres>>

\* closeOnce.Do: the first caller runs the body, the others wait for its end.
OnceEnter(c) ==
    /\ cp[c] = "once" /\ once = "free"
    /\ once' = "busy"
    /\ cp' = [cp EXCEPT ![c] = "close"]
    /\ UNCHANGED <<cancellable, ctxDone, streamVars, parserVars, wp, readVars,
                   done, pres, cres, accepted, wres>>

OnceSkip(c) ==
    /\ cp[c] = "once" /\ once = "done"
    /\ cp' = [cp EXCEPT ![c] = "idle"]
    /\ cres' = [cres EXCEPT ![c] = @ \cup {pres}]
    /\ UNCHANGED <<cancellable, ctxDone, streamVars, parserVars, wp, readVars,
                   once, done, pres, accepted, wres>>

\* Mutant: no Broadcast.
CloseStreamSilent(c) ==
    /\ cp[c] = "close" /\ ~Locked
    /\ closed' = TRUE
    /\ cp' = [cp EXCEPT ![c] = "stop"]
    /\ UNCHANGED <<cancellable, ctxDone, buf, wrErr, ctxErr, stop, parserVars,
                   wp, readVars, once, done, pres, cres, accepted, wres>>

\* stream.close, up to its Unlock.
CloseStream(c) ==
    /\ cp[c] = "close" /\ ~Locked
    /\ closed' = TRUE
    /\ Wake
    /\ cp' = [cp EXCEPT ![c] = "stop"]
    /\ UNCHANGED <<cancellable, ctxDone, buf, wrErr, ctxErr, stop, res, parsed,
                   wp, readVars, once, done, pres, cres, accepted, wres>>

CloseStop(c) ==
    /\ cp[c] = "stop"
    /\ stop' = TRUE
    /\ cp' = [cp EXCEPT ![c] = "recv"]
    /\ UNCHANGED <<cancellable, ctxDone, buf, closed, wrErr, ctxErr, parserVars,
                   wp, readVars, once, done, pres, cres, accepted, wres>>

\* Mutant: the result is returned to this caller and not kept for the others.
CloseRecvForgets(c) ==
    /\ cp[c] = "recv" /\ done # NoResult
    /\ done' = NoResult
    /\ once' = "done"
    /\ cp' = [cp EXCEPT ![c] = "idle"]
    /\ cres' = [cres EXCEPT ![c] = @ \cup {done}]
    /\ UNCHANGED <<cancellable, ctxDone, streamVars, parserVars, wp, readVars,
                   pres, accepted, wres>>

\* pp.res = <-pp.done, the end of closeOnce.Do and the return of Close.
CloseRecv(c) ==
    /\ cp[c] = "recv" /\ done # NoResult
    /\ pres' = done
    /\ done' = NoResult
    /\ once' = "done"
    /\ cp' = [cp EXCEPT ![c] = "idle"]
    /\ cres' = [cres EXCEPT ![c] = @ \cup {done}]
    /\ UNCHANGED <<cancellable, ctxDone, streamVars, parserVars, wp, readVars,
                   accepted, wres>>

-----------------------------------------------------------------------------
Watcher == WatchDone \/ WatchBroadcast \/ WatchStop

ReadReturn == ReadCanceled \/ ReadEOF \/ \E n \in 1 .. Len(buf) : ReadData(n)

\* The steps the parse goroutine takes whatever the Source decides.
ParseGoroutine ==
    \/ ReadTest \/ ReadWait \/ ReadReturn
    \/ EpilogueOverride \/ EpilogueClose \/ EpilogueStop \/ EpilogueSend

CloseSteps(c) ==
    OnceEnter(c) \/ OnceSkip(c) \/ CloseStream(c) \/ CloseStop(c) \/ CloseRecv(c)

Next ==
    \/ Cancel
    \/ Watcher
    \/ ReadLock \/ SourceEnds \/ ParseGoroutine
    \/ \E c \in Callers :
          \/ \E chunk \in Chunks : WriteAccept(c, chunk)
          \/ WriteReject(c)
          \/ CallClose(c)
          \/ CloseSteps(c)

Spec == Init /\ [][Next]_vars

(***************************************************************************)
(* Fairness.  Goroutines that can run do run, sync.Mutex hands the lock to *)
(* a waiter that has starved, and the Source neither stops calling nor     *)
(* goes on reading for ever once Read has returned EOF or an error.        *)
(* Nothing is assumed of the callers until they are inside Close, nor of   *)
(* the owner of the context.                                               *)
(***************************************************************************)
EndOfInput == lastRead \in {"eof", "canceled"}

Fairness ==
    /\ WF_vars(WatchDone) /\ SF_vars(WatchBroadcast) /\ WF_vars(WatchStop)
    /\ WF_vars(ParseGoroutine)
    /\ WF_vars(ReadLock \/ SourceEnds)
    /\ SF_vars(EndOfInput /\ SourceEnds)
    /\ \A c \in Callers : SF_vars(CloseSteps(c))

LiveSpec == Spec /\ Fairness

-----------------------------------------------------------------------------
(***************************************************************************)
(* Properties.                                                             *)
(***************************************************************************)

\* Bytes reach the Source in the order in which Write accepted them, none
\* lost, duplicated or thrown away by a cancellation: what was accepted is
\* what Read delivered followed by what stream.buf still holds.
FIFO == accepted = delivered \o buf

\* Read returns io.EOF only at the true end: the stream is closed and every
\* accepted byte has been delivered, so no Write can succeed afterwards and
\* a wake-up with nothing to read (an empty Push) is not taken for the end.
TrueEOF == lastRead = "eof" => closed /\ delivered = accepted

\* No lost wake-up: a Read asleep in cond.Wait has nothing to read, and if
\* the context is already cancelled the watcher has still to broadcast.
NoLostWakeup ==
    pp = "waiting" =>
        /\ buf = <<>> /\ ~closed
        /\ ctxDone => wp \in {"select", "lock"}

\* Close reports a cancellation exactly when the parse met it: an error-free
\* parse whose Reads never returned the context's error stays a success even
\* if the context is cancelled later, and a cancellation that some Read did
\* return is never reported as a success, even if the Source swallowed it.
OutcomeFaithful ==
    Published =>
        /\ res.err = "nil" <=> (parsed.err = "nil" /\ ~sawCtx)
        /\ res.err = "nil" => res = parsed
        /\ parsed.err # "nil" => res = parsed

\* Push and Close tell one story: an error that a Push returned is the error
\* every Close returns, and a Push is told "closed pipe" only if somebody
\* called Close or the parse has succeeded: a failure is never masked.
PushAgreesWithClose ==
    \A c \in Callers :
        /\ wres[c] \in ParseErr => Published /\ res.err = wres[c]
        /\ wres[c] = "closedPipe" =>
              once # "free" \/ (Published /\ res.err = "nil")

\* Close is idempotent: whoever calls it, and however often, it returns the
\* result the parse goroutine published, never an unset one.
CloseIdempotent ==
    \A c \in Callers : \A r \in cres[c] : Published /\ r = res

\* A Close that has been called returns.
CloseReturns == \A c \in Callers : (cp[c] = "once") ~> (cp[c] = "idle")

\* No goroutine is left behind: cancelling the context ends the parse even
\* though nobody calls Close and Read is blocked for want of data, and the
\* watcher does not outlive the parse, also when the context never fires.
NoGoroutineLeaks ==
    /\ ctxDone ~> pp = "end"
    /\ Published ~> wp = "exited"

-----------------------------------------------------------------------------
(***************************************************************************)
(* What the push parser promises (module PushPromise), and how the         *)
(* goroutines above implement it.                                          *)
(***************************************************************************)
Outcome == IF Published THEN res ELSE NoResult

Promise == INSTANCE PushPromise WITH
              outcome <- Outcome, inputClosed <- closed, returned <- cres

\* The goroutines implement the promise: one outcome, an append-only input
\* that closes for good, a delivered prefix.
ImplementsPromise == Promise!Spec
=============================================================================
