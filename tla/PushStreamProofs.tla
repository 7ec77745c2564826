--------------------------- MODULE PushStreamProofs ---------------------------
(***************************************************************************)
(* Theorems about PushStream for every set of callers, every alphabet and  *)
(* every choice of chunks: the safety properties that TLC checks on two    *)
(* callers follow from one inductive invariant.                            *)
(***************************************************************************)
EXTENDS PushStream, TLAPS

-----------------------------------------------------------------------------
(***************************************************************************)
(* The inductive invariant.                                                *)
(***************************************************************************)

\* A context without a Done channel is never cancelled; the watcher leaves its
\* select only for a reason; the channel stop is closed after the stream is.
WatchInv ==
    /\ ctxDone => cancellable
    /\ wp = "lock" => ctxDone
    /\ wp = "exited" => ~cancellable \/ stop \/ ctxDone
    /\ stop => closed
    /\ pp \in {"stopping", "sending", "end"} => closed
    /\ \A c \in Callers : cp[c] \in {"stop", "recv"} => closed

\* A Read that has decided to wait still has a reason to, or a wake-up coming;
\* one that has decided not to wait still has something to return.
ReadInv ==
    /\ pp \in {"wait", "waiting"} =>
          /\ buf = <<>> /\ ~closed
          /\ ctxDone => wp \in {"select", "lock"}
    /\ pp = "exit" => buf # <<>> \/ closed \/ ctxDone
    /\ lastRead = "eof" => closed /\ buf = <<>>

\* The result on its way from the Source to the callers of Close.
ResultInv ==
    /\ ctxErr = sawCtx
    /\ pp \in Epilogue => parsed \in Result
    /\ pp = "epilogue" => res = parsed
    /\ pp \in Epilogue \ {"epilogue"} =>
          /\ res.err = "nil" <=> (parsed.err = "nil" /\ ~sawCtx)
          /\ res.err = "nil" => res = parsed
          /\ parsed.err # "nil" => res = parsed
    /\ done # NoResult => pp = "end" /\ done = res
    /\ once = "done" => pp = "end" /\ pres = res
    /\ \A c \in Callers : \A r \in cres[c] : pp = "end" /\ r = res

\* What Write answers: the write error is that of the published result, and the
\* stream is not closed before a Close has begun or a result is published.
StoryInv ==
    /\ Published => wrErr = res.err
    /\ wrErr # "nil" => Published
    /\ closed => once # "free" \/ Published
    /\ \A c \in Callers : cp[c] \in {"close", "stop", "recv"} => once # "free"
    /\ PushAgreesWithClose

IInv == TypeOK /\ FIFO /\ WatchInv /\ ReadInv /\ ResultInv /\ StoryInv

-----------------------------------------------------------------------------
\* Moving a prefix of one sequence to the end of another leaves their
\* concatenation alone.
LEMMA SplitConcat ==
  ASSUME NEW S, NEW s \in Seq(S), NEW t \in Seq(S), NEW n \in 1 .. Len(t)
  PROVE  (s \o SubSeq(t, 1, n)) \o SubSeq(t, n + 1, Len(t)) = s \o t
<1> DEFINE u == SubSeq(t, 1, n)
           v == SubSeq(t, n + 1, Len(t))
<1>1. u \in Seq(S) /\ v \in Seq(S) /\ u \o v = t
  OBVIOUS
<1>2. \A x, y \in Seq(S) : (s \o x) \o y = s \o (x \o y)
  OBVIOUS
<1>3. (s \o u) \o v = s \o (u \o v)
  BY <1>1, <1>2, Zenon
<1>4. QED
  BY <1>1, <1>3, Zenon

\* Every step keeps every variable within its type.
LEMMA TypeStep == TypeOK /\ ResultInv /\ [Next]_vars => TypeOK'
<1> SUFFICES ASSUME TypeOK /\ ResultInv, [Next]_vars PROVE TypeOK'
  OBVIOUS
<1> USE DEF TypeOK, Wake, Locked, Result, NoResult, ParseErr, ReaderHolds, Epilogue,
         streamVars, parserVars, readVars, closeVars
<1>1. CASE Cancel
  BY <1>1 DEF Cancel
<1>2. CASE WatchDone
  BY <1>2 DEF WatchDone
<1>3. CASE WatchBroadcast
  BY <1>3 DEF WatchBroadcast
<1>4. CASE WatchStop
  BY <1>4 DEF WatchStop
<1>5. CASE ReadLock
  BY <1>5 DEF ReadLock
<1>6. ASSUME NEW val \in {"zero", "value"}, NEW err \in {"nil", "parse", "canceled"}, SourceReturn(val, err)
      PROVE  TypeOK'
  BY <1>6 DEF SourceReturn
<1>7. CASE SourcePanic
  BY <1>7 DEF SourcePanic
<1>8. CASE ReadTest
  BY <1>8 DEF ReadTest
<1>9. CASE ReadWait
  BY <1>9 DEF ReadWait
<1>10. CASE ReadCanceled
  BY <1>10 DEF ReadCanceled
<1>11. CASE ReadEOF
  BY <1>11 DEF ReadEOF
<1>12. ASSUME NEW n \in 1 .. Len(buf), ReadData(n)
      PROVE  TypeOK'
  BY <1>12 DEF ReadData
<1>13. CASE EpilogueOverride
  BY <1>13 DEF EpilogueOverride
<1>14. CASE EpilogueClose
  BY <1>14 DEF EpilogueClose
<1>15. CASE EpilogueStop
  BY <1>15 DEF EpilogueStop
<1>16. CASE EpilogueSend
  BY <1>16 DEF EpilogueSend
<1>17. ASSUME NEW c \in Callers, NEW chunk \in Chunks, WriteAccept(c, chunk)
      PROVE  TypeOK'
  BY <1>17, ChunksAssumption DEF WriteAccept
<1>18. ASSUME NEW c \in Callers, WriteReject(c)
      PROVE  TypeOK'
  BY <1>18 DEF WriteReject
<1>19. ASSUME NEW c \in Callers, CallClose(c)
      PROVE  TypeOK'
  BY <1>19 DEF CallClose
<1>20. ASSUME NEW c \in Callers, OnceEnter(c)
      PROVE  TypeOK'
  BY <1>20 DEF OnceEnter
<1>21. ASSUME NEW c \in Callers, OnceSkip(c)
      PROVE  TypeOK'
  <2>1. pres \in Result
    BY <1>21 DEF OnceSkip, ResultInv
  <2>2. cres' \in [Callers -> SUBSET Result]
    BY <2>1, <1>21 DEF OnceSkip
  <2>3. QED
    BY <2>2, <1>21 DEF OnceSkip
<1>22. ASSUME NEW c \in Callers, CloseStream(c)
      PROVE  TypeOK'
  BY <1>22 DEF CloseStream
<1>23. ASSUME NEW c \in Callers, CloseStop(c)
      PROVE  TypeOK'
  BY <1>23 DEF CloseStop
<1>24. ASSUME NEW c \in Callers, CloseRecv(c)
      PROVE  TypeOK'
  BY <1>24 DEF CloseRecv
<1>25. CASE UNCHANGED vars
  BY <1>25 DEF vars
<1>26. QED
  BY <1>1, <1>2, <1>3, <1>4, <1>5, <1>6, <1>7, <1>8, <1>9, <1>10, <1>11,
     <1>12, <1>13, <1>14, <1>15, <1>16, <1>17, <1>18, <1>19, <1>20,
     <1>21, <1>22, <1>23, <1>24, <1>25 DEF Next, Watcher, SourceEnds,
     ParseGoroutine, ReadReturn, CloseSteps

\* Only an accepted Write extends the input, only a Read that returns data
\* consumes it, and both at the end they should.
LEMMA FIFOStep == TypeOK /\ FIFO /\ [Next]_vars => FIFO'
<1> SUFFICES ASSUME TypeOK /\ FIFO, [Next]_vars PROVE FIFO'
  OBVIOUS
<1> USE DEF FIFO, Wake, streamVars, parserVars, readVars, closeVars
<1>1. CASE Cancel
  BY <1>1 DEF Cancel
<1>2. CASE WatchDone
  BY <1>2 DEF WatchDone
<1>3. CASE WatchBroadcast
  BY <1>3 DEF WatchBroadcast
<1>4. CASE WatchStop
  BY <1>4 DEF WatchStop
<1>5. CASE ReadLock
  BY <1>5 DEF ReadLock
<1>6. ASSUME NEW val \in {"zero", "value"}, NEW err \in {"nil", "parse", "canceled"}, SourceReturn(val, err)
      PROVE  FIFO'
  BY <1>6 DEF SourceReturn
<1>7. CASE SourcePanic
  BY <1>7 DEF SourcePanic
<1>8. CASE ReadTest
  BY <1>8 DEF ReadTest
<1>9. CASE ReadWait
  BY <1>9 DEF ReadWait
<1>10. CASE ReadCanceled
  BY <1>10 DEF ReadCanceled
<1>11. CASE ReadEOF
  BY <1>11 DEF ReadEOF
<1>12. ASSUME NEW n \in 1 .. Len(buf), ReadData(n)
      PROVE  FIFO'
  <2>1. buf \in Seq(Byte) /\ delivered \in Seq(Byte)
    BY DEF TypeOK
  <2>2. QED
    BY <2>1, SplitConcat, <1>12 DEF ReadData
<1>13. CASE EpilogueOverride
  BY <1>13 DEF EpilogueOverride
<1>14. CASE EpilogueClose
  BY <1>14 DEF EpilogueClose
<1>15. CASE EpilogueStop
  BY <1>15 DEF EpilogueStop
<1>16. CASE EpilogueSend
  BY <1>16 DEF EpilogueSend
<1>17. ASSUME NEW c \in Callers, NEW chunk \in Chunks, WriteAccept(c, chunk)
      PROVE  FIFO'
  <2>1. buf \in Seq(Byte) /\ delivered \in Seq(Byte) /\ chunk \in Seq(Byte)
    BY ChunksAssumption DEF TypeOK
  <2>2. (delivered \o buf) \o chunk = delivered \o (buf \o chunk)
    BY <2>1
  <2>3. QED
    BY <2>2, <1>17 DEF WriteAccept
<1>18. ASSUME NEW c \in Callers, WriteReject(c)
      PROVE  FIFO'
  BY <1>18 DEF WriteReject
<1>19. ASSUME NEW c \in Callers, CallClose(c)
      PROVE  FIFO'
  BY <1>19 DEF CallClose
<1>20. ASSUME NEW c \in Callers, OnceEnter(c)
      PROVE  FIFO'
  BY <1>20 DEF OnceEnter
<1>21. ASSUME NEW c \in Callers, OnceSkip(c)
      PROVE  FIFO'
  BY <1>21 DEF OnceSkip
<1>22. ASSUME NEW c \in Callers, CloseStream(c)
      PROVE  FIFO'
  BY <1>22 DEF CloseStream
<1>23. ASSUME NEW c \in Callers, CloseStop(c)
      PROVE  FIFO'
  BY <1>23 DEF CloseStop
<1>24. ASSUME NEW c \in Callers, CloseRecv(c)
      PROVE  FIFO'
  BY <1>24 DEF CloseRecv
<1>25. CASE UNCHANGED vars
  BY <1>25 DEF vars
<1>26. QED
  BY <1>1, <1>2, <1>3, <1>4, <1>5, <1>6, <1>7, <1>8, <1>9, <1>10, <1>11,
     <1>12, <1>13, <1>14, <1>15, <1>16, <1>17, <1>18, <1>19, <1>20,
     <1>21, <1>22, <1>23, <1>24, <1>25 DEF Next, Watcher, SourceEnds,
     ParseGoroutine, ReadReturn, CloseSteps

\* The watcher leaves its select only when the context is done or the stream is
\* closed.
LEMMA WatchStep == TypeOK /\ WatchInv /\ [Next]_vars => WatchInv'
<1> SUFFICES ASSUME TypeOK /\ WatchInv, [Next]_vars PROVE WatchInv'
  OBVIOUS
<1> USE DEF TypeOK, WatchInv, Wake, Locked, ReaderHolds, Epilogue,
         streamVars, parserVars, readVars, closeVars
<1>1. CASE Cancel
  BY <1>1 DEF Cancel
<1>2. CASE WatchDone
  BY <1>2 DEF WatchDone
<1>3. CASE WatchBroadcast
  BY <1>3 DEF WatchBroadcast
<1>4. CASE WatchStop
  BY <1>4 DEF WatchStop
<1>5. CASE ReadLock
  BY <1>5 DEF ReadLock
<1>6. ASSUME NEW val \in {"zero", "value"}, NEW err \in {"nil", "parse", "canceled"}, SourceReturn(val, err)
      PROVE  WatchInv'
  BY <1>6 DEF SourceReturn
<1>7. CASE SourcePanic
  BY <1>7 DEF SourcePanic
<1>8. CASE ReadTest
  BY <1>8 DEF ReadTest
<1>9. CASE ReadWait
  BY <1>9 DEF ReadWait
<1>10. CASE ReadCanceled
  BY <1>10 DEF ReadCanceled
<1>11. CASE ReadEOF
  BY <1>11 DEF ReadEOF
<1>12. ASSUME NEW n \in 1 .. Len(buf), ReadData(n)
      PROVE  WatchInv'
  BY <1>12 DEF ReadData
<1>13. CASE EpilogueOverride
  BY <1>13 DEF EpilogueOverride
<1>14. CASE EpilogueClose
  BY <1>14 DEF EpilogueClose
<1>15. CASE EpilogueStop
  BY <1>15 DEF EpilogueStop
<1>16. CASE EpilogueSend
  BY <1>16 DEF EpilogueSend
<1>17. ASSUME NEW c \in Callers, NEW chunk \in Chunks, WriteAccept(c, chunk)
      PROVE  WatchInv'
  BY <1>17 DEF WriteAccept
<1>18. ASSUME NEW c \in Callers, WriteReject(c)
      PROVE  WatchInv'
  BY <1>18 DEF WriteReject
<1>19. ASSUME NEW c \in Callers, CallClose(c)
      PROVE  WatchInv'
  BY <1>19 DEF CallClose
<1>20. ASSUME NEW c \in Callers, OnceEnter(c)
      PROVE  WatchInv'
  BY <1>20 DEF OnceEnter
<1>21. ASSUME NEW c \in Callers, OnceSkip(c)
      PROVE  WatchInv'
  BY <1>21 DEF OnceSkip
<1>22. ASSUME NEW c \in Callers, CloseStream(c)
      PROVE  WatchInv'
  BY <1>22 DEF CloseStream
<1>23. ASSUME NEW c \in Callers, CloseStop(c)
      PROVE  WatchInv'
  BY <1>23 DEF CloseStop
<1>24. ASSUME NEW c \in Callers, CloseRecv(c)
      PROVE  WatchInv'
  BY <1>24 DEF CloseRecv
<1>25. CASE UNCHANGED vars
  BY <1>25 DEF vars
<1>26. QED
  BY <1>1, <1>2, <1>3, <1>4, <1>5, <1>6, <1>7, <1>8, <1>9, <1>10, <1>11,
     <1>12, <1>13, <1>14, <1>15, <1>16, <1>17, <1>18, <1>19, <1>20,
     <1>21, <1>22, <1>23, <1>24, <1>25 DEF Next, Watcher, SourceEnds,
     ParseGoroutine, ReadReturn, CloseSteps

\* What a Read that holds the mutex has seen stays true until it returns, except
\* for the context, whose cancellation the watcher has still to announce.
LEMMA ReadStep == TypeOK /\ WatchInv /\ ReadInv /\ [Next]_vars => ReadInv'
<1> SUFFICES ASSUME TypeOK /\ WatchInv /\ ReadInv, [Next]_vars PROVE ReadInv'
  OBVIOUS
<1> USE DEF TypeOK, WatchInv, ReadInv, Wake, Locked, KeepWaiting, ReaderHolds,
         Epilogue, streamVars, parserVars, readVars, closeVars
<1>1. CASE Cancel
  BY <1>1 DEF Cancel
<1>2. CASE WatchDone
  BY <1>2 DEF WatchDone
<1>3. CASE WatchBroadcast
  BY <1>3 DEF WatchBroadcast
<1>4. CASE WatchStop
  BY <1>4 DEF WatchStop
<1>5. CASE ReadLock
  BY <1>5 DEF ReadLock
<1>6. ASSUME NEW val \in {"zero", "value"}, NEW err \in {"nil", "parse", "canceled"}, SourceReturn(val, err)
      PROVE  ReadInv'
  BY <1>6 DEF SourceReturn
<1>7. CASE SourcePanic
  BY <1>7 DEF SourcePanic
<1>8. CASE ReadTest
  BY <1>8 DEF ReadTest
<1>9. CASE ReadWait
  BY <1>9 DEF ReadWait
<1>10. CASE ReadCanceled
  BY <1>10 DEF ReadCanceled
<1>11. CASE ReadEOF
  BY <1>11 DEF ReadEOF
<1>12. ASSUME NEW n \in 1 .. Len(buf), ReadData(n)
      PROVE  ReadInv'
  BY <1>12 DEF ReadData
<1>13. CASE EpilogueOverride
  BY <1>13 DEF EpilogueOverride
<1>14. CASE EpilogueClose
  BY <1>14 DEF EpilogueClose
<1>15. CASE EpilogueStop
  BY <1>15 DEF EpilogueStop
<1>16. CASE EpilogueSend
  BY <1>16 DEF EpilogueSend
<1>17. ASSUME NEW c \in Callers, NEW chunk \in Chunks, WriteAccept(c, chunk)
      PROVE  ReadInv'
  BY <1>17 DEF WriteAccept
<1>18. ASSUME NEW c \in Callers, WriteReject(c)
      PROVE  ReadInv'
  BY <1>18 DEF WriteReject
<1>19. ASSUME NEW c \in Callers, CallClose(c)
      PROVE  ReadInv'
  BY <1>19 DEF CallClose
<1>20. ASSUME NEW c \in Callers, OnceEnter(c)
      PROVE  ReadInv'
  BY <1>20 DEF OnceEnter
<1>21. ASSUME NEW c \in Callers, OnceSkip(c)
      PROVE  ReadInv'
  BY <1>21 DEF OnceSkip
<1>22. ASSUME NEW c \in Callers, CloseStream(c)
      PROVE  ReadInv'
  BY <1>22 DEF CloseStream
<1>23. ASSUME NEW c \in Callers, CloseStop(c)
      PROVE  ReadInv'
  BY <1>23 DEF CloseStop
<1>24. ASSUME NEW c \in Callers, CloseRecv(c)
      PROVE  ReadInv'
  BY <1>24 DEF CloseRecv
<1>25. CASE UNCHANGED vars
  BY <1>25 DEF vars
<1>26. QED
  BY <1>1, <1>2, <1>3, <1>4, <1>5, <1>6, <1>7, <1>8, <1>9, <1>10, <1>11,
     <1>12, <1>13, <1>14, <1>15, <1>16, <1>17, <1>18, <1>19, <1>20,
     <1>21, <1>22, <1>23, <1>24, <1>25 DEF Next, Watcher, SourceEnds,
     ParseGoroutine, ReadReturn, CloseSteps

\* The result is fixed before it is published and travels unchanged.
LEMMA ResultStep == TypeOK /\ ResultInv /\ [Next]_vars => ResultInv'
<1> SUFFICES ASSUME TypeOK /\ ResultInv, [Next]_vars PROVE ResultInv'
  OBVIOUS
<1> USE DEF TypeOK, ResultInv, Wake, Locked, Result, NoResult, ParseErr,
         ReaderHolds, Epilogue, streamVars, parserVars, readVars, closeVars
<1>1. CASE Cancel
  BY <1>1 DEF Cancel
<1>2. CASE WatchDone
  BY <1>2 DEF WatchDone
<1>3. CASE WatchBroadcast
  BY <1>3 DEF WatchBroadcast
<1>4. CASE WatchStop
  BY <1>4 DEF WatchStop
<1>5. CASE ReadLock
  BY <1>5 DEF ReadLock
<1>6. ASSUME NEW val \in {"zero", "value"}, NEW err \in {"nil", "parse", "canceled"}, SourceReturn(val, err)
      PROVE  ResultInv'
  BY <1>6 DEF SourceReturn
<1>7. CASE SourcePanic
  BY <1>7 DEF SourcePanic
<1>8. CASE ReadTest
  BY <1>8 DEF ReadTest
<1>9. CASE ReadWait
  BY <1>9 DEF ReadWait
<1>10. CASE ReadCanceled
  BY <1>10 DEF ReadCanceled
<1>11. CASE ReadEOF
  BY <1>11 DEF ReadEOF
<1>12. ASSUME NEW n \in 1 .. Len(buf), ReadData(n)
      PROVE  ResultInv'
  BY <1>12 DEF ReadData
<1>13. CASE EpilogueOverride
  BY <1>13 DEF EpilogueOverride
<1>14. CASE EpilogueClose
  BY <1>14 DEF EpilogueClose
<1>15. CASE EpilogueStop
  BY <1>15 DEF EpilogueStop
<1>16. CASE EpilogueSend
  BY <1>16 DEF EpilogueSend
<1>17. ASSUME NEW c \in Callers, NEW chunk \in Chunks, WriteAccept(c, chunk)
      PROVE  ResultInv'
  BY <1>17 DEF WriteAccept
<1>18. ASSUME NEW c \in Callers, WriteReject(c)
      PROVE  ResultInv'
  BY <1>18 DEF WriteReject
<1>19. ASSUME NEW c \in Callers, CallClose(c)
      PROVE  ResultInv'
  BY <1>19 DEF CallClose
<1>20. ASSUME NEW c \in Callers, OnceEnter(c)
      PROVE  ResultInv'
  BY <1>20 DEF OnceEnter
<1>21. ASSUME NEW c \in Callers, OnceSkip(c)
      PROVE  ResultInv'
  BY <1>21 DEF OnceSkip
<1>22. ASSUME NEW c \in Callers, CloseStream(c)
      PROVE  ResultInv'
  BY <1>22 DEF CloseStream
<1>23. ASSUME NEW c \in Callers, CloseStop(c)
      PROVE  ResultInv'
  BY <1>23 DEF CloseStop
<1>24. ASSUME NEW c \in Callers, CloseRecv(c)
      PROVE  ResultInv'
  BY <1>24 DEF CloseRecv
<1>25. CASE UNCHANGED vars
  BY <1>25 DEF vars
<1>26. QED
  BY <1>1, <1>2, <1>3, <1>4, <1>5, <1>6, <1>7, <1>8, <1>9, <1>10, <1>11,
     <1>12, <1>13, <1>14, <1>15, <1>16, <1>17, <1>18, <1>19, <1>20,
     <1>21, <1>22, <1>23, <1>24, <1>25 DEF Next, Watcher, SourceEnds,
     ParseGoroutine, ReadReturn, CloseSteps

\* The write error is set when the result is published, from that result, and the
\* stream is closed only by a Close or by the publication.
LEMMA StoryStep == TypeOK /\ StoryInv /\ [Next]_vars => StoryInv'
<1> SUFFICES ASSUME TypeOK /\ StoryInv, [Next]_vars PROVE StoryInv'
  OBVIOUS
<1> USE DEF TypeOK, StoryInv, PushAgreesWithClose, Published, Wake, Locked, Result, ParseErr,
         ReaderHolds, Epilogue, streamVars, parserVars, readVars, closeVars
<1>1. CASE Cancel
  BY <1>1 DEF Cancel
<1>2. CASE WatchDone
  BY <1>2 DEF WatchDone
<1>3. CASE WatchBroadcast
  BY <1>3 DEF WatchBroadcast
<1>4. CASE WatchStop
  BY <1>4 DEF WatchStop
<1>5. CASE ReadLock
  BY <1>5 DEF ReadLock
<1>6. ASSUME NEW val \in {"zero", "value"}, NEW err \in {"nil", "parse", "canceled"}, SourceReturn(val, err)
      PROVE  StoryInv'
  BY <1>6 DEF SourceReturn
<1>7. CASE SourcePanic
  BY <1>7 DEF SourcePanic
<1>8. CASE ReadTest
  BY <1>8 DEF ReadTest
<1>9. CASE ReadWait
  BY <1>9 DEF ReadWait
<1>10. CASE ReadCanceled
  BY <1>10 DEF ReadCanceled
<1>11. CASE ReadEOF
  BY <1>11 DEF ReadEOF
<1>12. ASSUME NEW n \in 1 .. Len(buf), ReadData(n)
      PROVE  StoryInv'
  BY <1>12 DEF ReadData
<1>13. CASE EpilogueOverride
  BY <1>13 DEF EpilogueOverride
<1>14. CASE EpilogueClose
  BY <1>14 DEF EpilogueClose
<1>15. CASE EpilogueStop
  BY <1>15 DEF EpilogueStop
<1>16. CASE EpilogueSend
  BY <1>16 DEF EpilogueSend
<1>17. ASSUME NEW c \in Callers, NEW chunk \in Chunks, WriteAccept(c, chunk)
      PROVE  StoryInv'
  BY <1>17 DEF WriteAccept
<1>18. ASSUME NEW c \in Callers, WriteReject(c)
      PROVE  StoryInv'
  BY <1>18 DEF WriteReject
<1>19. ASSUME NEW c \in Callers, CallClose(c)
      PROVE  StoryInv'
  BY <1>19 DEF CallClose
<1>20. ASSUME NEW c \in Callers, OnceEnter(c)
      PROVE  StoryInv'
  BY <1>20 DEF OnceEnter
<1>21. ASSUME NEW c \in Callers, OnceSkip(c)
      PROVE  StoryInv'
  BY <1>21 DEF OnceSkip
<1>22. ASSUME NEW c \in Callers, CloseStream(c)
      PROVE  StoryInv'
  BY <1>22 DEF CloseStream
<1>23. ASSUME NEW c \in Callers, CloseStop(c)
      PROVE  StoryInv'
  BY <1>23 DEF CloseStop
<1>24. ASSUME NEW c \in Callers, CloseRecv(c)
      PROVE  StoryInv'
  BY <1>24 DEF CloseRecv
<1>25. CASE UNCHANGED vars
  BY <1>25 DEF vars
<1>26. QED
  BY <1>1, <1>2, <1>3, <1>4, <1>5, <1>6, <1>7, <1>8, <1>9, <1>10, <1>11,
     <1>12, <1>13, <1>14, <1>15, <1>16, <1>17, <1>18, <1>19, <1>20,
     <1>21, <1>22, <1>23, <1>24, <1>25 DEF Next, Watcher, SourceEnds,
     ParseGoroutine, ReadReturn, CloseSteps

\* Moving a prefix of what is left to what is delivered makes a longer prefix.
LEMMA PrefixGrows ==
  ASSUME NEW S, NEW s \in Seq(S), NEW t \in Seq(S), NEW n \in 1 .. Len(t)
  PROVE  /\ s \o SubSeq(t, 1, n) = SubSeq(s \o t, 1, Len(s) + n)
         /\ n \in 1 .. Len(s \o t) - Len(s)
  OBVIOUS

-----------------------------------------------------------------------------
\* The initial states of New satisfy the invariant.
LEMMA InitIInv == Init => IInv
<1> SUFFICES ASSUME Init PROVE IInv
  OBVIOUS
<1>1. TypeOK
  <2>1. res \in Result
    BY DEF Init, Result, Zero
  <2>2. buf \in Seq(Byte) /\ accepted \in Seq(Byte) /\ delivered \in Seq(Byte)
    BY DEF Init
  <2>3. /\ cp \in [Callers -> {"idle", "once", "close", "stop", "recv"}]
        /\ wres \in [Callers -> {"nil", "closedPipe"} \cup ParseErr]
        /\ cres \in [Callers -> SUBSET Result]
    BY DEF Init
  <2>4. QED
    BY <2>1, <2>2, <2>3 DEF Init, TypeOK
<1>2. FIFO
  BY DEF Init, FIFO
<1>3. WatchInv /\ ReadInv /\ ResultInv /\ StoryInv
  BY DEF Init, WatchInv, ReadInv, ResultInv, StoryInv, PushAgreesWithClose,
         Published, ParseErr, Epilogue
<1>4. QED
  BY <1>1, <1>2, <1>3 DEF IInv

\* The invariant is inductive, so it holds in every reachable state.
THEOREM Invariance == Spec => []IInv
<1>1. IInv /\ [Next]_vars => IInv'
  BY TypeStep, FIFOStep, WatchStep, ReadStep, ResultStep, StoryStep DEF IInv
<1>2. QED
  BY InitIInv, <1>1, PTL DEF Spec

\* Type correctness of the push parser's state.
THEOREM TypeCorrect == Spec => []TypeOK
<1>1. IInv => TypeOK
  BY DEF IInv
<1>2. QED
  BY Invariance, <1>1, PTL

\* stream.Write and stream.Read form a FIFO that neither loses nor repeats a
\* byte, whatever is cancelled or closed when.
THEOREM StreamIsFIFO == Spec => []FIFO
<1>1. IInv => FIFO
  BY DEF IInv
<1>2. QED
  BY Invariance, <1>1, PTL

\* No wake-up of a blocked Read is lost: the lock around the watcher's
\* Broadcast (push.go 64-69) and the order of close and stopWatcher suffice.
THEOREM WakeupsAreNotLost == Spec => []NoLostWakeup
<1>1. IInv => NoLostWakeup
  BY DEF IInv, ReadInv, NoLostWakeup
<1>2. QED
  BY Invariance, <1>1, PTL

\* Read reports io.EOF only when the stream is closed and drained.
THEOREM EOFIsTrue == Spec => []TrueEOF
<1>1. IInv => TrueEOF
  <2>1. SUFFICES ASSUME IInv, lastRead = "eof" PROVE closed /\ delivered = accepted
    BY DEF TrueEOF
  <2>2. closed /\ buf = <<>> /\ delivered \in Seq(Byte) /\ accepted = delivered \o buf
    BY <2>1 DEF IInv, ReadInv, TypeOK, FIFO
  <2>3. QED
    BY <2>2
<1>2. QED
  BY Invariance, <1>1, PTL

\* The epilogue of New turns a swallowed cancellation into an error and never
\* a success into a cancellation.
THEOREM OutcomeIsFaithful == Spec => []OutcomeFaithful
<1>1. IInv => OutcomeFaithful
  BY DEF IInv, ResultInv, OutcomeFaithful, Published, Epilogue
<1>2. QED
  BY Invariance, <1>1, PTL

\* Every Close returns the one published result.
THEOREM CloseIsIdempotent == Spec => []CloseIdempotent
<1>1. IInv => CloseIdempotent
  BY DEF IInv, ResultInv, CloseIdempotent, Published
<1>2. QED
  BY Invariance, <1>1, PTL

\* Push and Close tell one story: the error of a Push is the error of every
\* Close, and a failed parse is never masked by a "closed pipe".
THEOREM PushTellsTheSameStory == Spec => []PushAgreesWithClose
<1>1. IInv => PushAgreesWithClose
  BY DEF IInv, StoryInv
<1>2. QED
  BY Invariance, <1>1, PTL

-----------------------------------------------------------------------------
(***************************************************************************)
(* Refinement: PushStream implements PushPromise.                          *)
(***************************************************************************)

\* The parser starts where the promise starts.
LEMMA InitMaps == Init => Promise!Init
  BY DEF Init, Promise!Init, Outcome, Published, NoResult, Promise!NoResult

\* Every step of a goroutine or a caller is a step of the promise or a stutter.
LEMMA StepMaps == IInv /\ [Next]_vars => [Promise!Next]_Promise!vars
<1> SUFFICES ASSUME IInv, [Next]_vars PROVE [Promise!Next]_Promise!vars
  OBVIOUS
<1> USE DEF Promise!vars, Outcome, Published, Wake, streamVars, parserVars,
         readVars, closeVars
<1>1. CASE Cancel
  BY <1>1 DEF Cancel
<1>2. CASE WatchDone
  BY <1>2 DEF WatchDone
<1>3. CASE WatchBroadcast
  BY <1>3 DEF WatchBroadcast
<1>4. CASE WatchStop
  BY <1>4 DEF WatchStop
<1>5. CASE ReadLock
  BY <1>5 DEF ReadLock
<1>6. ASSUME NEW val \in {"zero", "value"}, NEW err \in {"nil", "parse", "canceled"}, SourceReturn(val, err)
      PROVE  [Promise!Next]_Promise!vars
  BY <1>6 DEF SourceReturn
<1>7. CASE SourcePanic
  BY <1>7 DEF SourcePanic
<1>8. CASE ReadTest
  BY <1>8 DEF ReadTest
<1>9. CASE ReadWait
  BY <1>9 DEF ReadWait
<1>10. CASE ReadCanceled
  BY <1>10 DEF ReadCanceled
<1>11. CASE ReadEOF
  BY <1>11 DEF ReadEOF
<1>12. ASSUME NEW n \in 1 .. Len(buf), ReadData(n)
      PROVE  [Promise!Next]_Promise!vars
  <2>1. /\ buf \in Seq(Byte) /\ delivered \in Seq(Byte)
        /\ accepted = delivered \o buf
    BY DEF IInv, TypeOK, FIFO
  <2>2. /\ delivered' = SubSeq(accepted, 1, Len(delivered) + n)
        /\ n \in 1 .. Len(accepted) - Len(delivered)
    BY <2>1, PrefixGrows, <1>12 DEF ReadData
  <2>3. Promise!Consume(n)
    BY <2>2, <1>12 DEF ReadData, Promise!Consume, Promise!Running, NoResult,
                       Promise!NoResult
  <2>4. QED
    BY <2>2, <2>3 DEF Promise!Next
<1>13. CASE EpilogueOverride
  BY <1>13 DEF EpilogueOverride
<1>14. CASE EpilogueClose
  <2>1. res \in Result
    BY DEF IInv, TypeOK
  <2>2. res # NoResult
    BY <2>1 DEF Result, NoResult, ParseErr
  <2>3. Promise!Publish
    BY <2>2, <1>14 DEF EpilogueClose, Promise!Publish, Promise!Running, NoResult,
                       Promise!NoResult
  <2>4. QED
    BY <2>3 DEF Promise!Next
<1>15. CASE EpilogueStop
  BY <1>15 DEF EpilogueStop
<1>16. CASE EpilogueSend
  BY <1>16 DEF EpilogueSend
<1>17. ASSUME NEW c \in Callers, NEW chunk \in Chunks, WriteAccept(c, chunk)
      PROVE  [Promise!Next]_Promise!vars
  <2>1. ~Published
    BY <1>17 DEF WriteAccept, IInv, WatchInv
  <2>2. Promise!Accept(chunk)
    BY <2>1, <1>17 DEF WriteAccept, Promise!Accept, Promise!Running, NoResult,
                       Promise!NoResult
  <2>3. QED
    BY <2>2 DEF Promise!Next
<1>18. ASSUME NEW c \in Callers, WriteReject(c)
      PROVE  [Promise!Next]_Promise!vars
  BY <1>18 DEF WriteReject
<1>19. ASSUME NEW c \in Callers, CallClose(c)
      PROVE  [Promise!Next]_Promise!vars
  BY <1>19 DEF CallClose
<1>20. ASSUME NEW c \in Callers, OnceEnter(c)
      PROVE  [Promise!Next]_Promise!vars
  BY <1>20 DEF OnceEnter
<1>21. ASSUME NEW c \in Callers, OnceSkip(c)
      PROVE  [Promise!Next]_Promise!vars
  <2>1. Published /\ pres = res /\ closed /\ res \in Result
    BY <1>21 DEF OnceSkip, IInv, WatchInv, ResultInv, TypeOK
  <2>2. res # NoResult
    BY <2>1 DEF Result, NoResult, ParseErr
  <2>3. Promise!Return(c)
    BY <2>1, <2>2, <1>21 DEF OnceSkip, Promise!Return, Promise!Running, NoResult,
                             Promise!NoResult
  <2>4. QED
    BY <2>3 DEF Promise!Next
<1>22. ASSUME NEW c \in Callers, CloseStream(c)
      PROVE  [Promise!Next]_Promise!vars
  <2>1. Promise!CloseInput
    BY <1>22 DEF CloseStream, Promise!CloseInput
  <2>2. QED
    BY <2>1 DEF Promise!Next
<1>23. ASSUME NEW c \in Callers, CloseStop(c)
      PROVE  [Promise!Next]_Promise!vars
  BY <1>23 DEF CloseStop
<1>24. ASSUME NEW c \in Callers, CloseRecv(c)
      PROVE  [Promise!Next]_Promise!vars
  <2>1. Published /\ done = res /\ closed /\ res \in Result
    BY <1>24 DEF CloseRecv, IInv, WatchInv, ResultInv, TypeOK
  <2>2. res # NoResult
    BY <2>1 DEF Result, NoResult, ParseErr
  <2>3. Promise!Return(c)
    BY <2>1, <2>2, <1>24 DEF CloseRecv, Promise!Return, Promise!Running, NoResult,
                             Promise!NoResult
  <2>4. QED
    BY <2>3 DEF Promise!Next
<1>25. CASE UNCHANGED vars
  BY <1>25 DEF vars
<1>26. QED
  BY <1>1, <1>2, <1>3, <1>4, <1>5, <1>6, <1>7, <1>8, <1>9, <1>10, <1>11,
     <1>12, <1>13, <1>14, <1>15, <1>16, <1>17, <1>18, <1>19, <1>20,
     <1>21, <1>22, <1>23, <1>24, <1>25 DEF Next, Watcher, SourceEnds,
     ParseGoroutine, ReadReturn, CloseSteps

\* The goroutines of push.go implement what the push parser promises: one
\* outcome, an append-only input that closes for good, a parse that consumes
\* a prefix of it, and Closes that all return the outcome.
THEOREM PromiseIsKept == Spec => ImplementsPromise
<1>1. QED
  BY InitMaps, StepMaps, Invariance, PTL DEF Spec, ImplementsPromise, Promise!Spec
=============================================================================
