--------------------------- MODULE ErrorCollector ---------------------------
(***************************************************************************)
(* errorhandler.go: ErrorCollector, an error handler made of a Sink whose  *)
(* Handler is an errorAccumulator.  This module composes the two: the sink *)
(* is module Sink, its Handler keeps the errors of the wanted level.       *)
(***************************************************************************)
EXTENDS Sink

CONSTANTS
    CollectorCaps, \* the buffer sizes a collector's sink is made with
    Wanted,     \* the collector's level; "none" (zero) collects everything
    LevelOf     \* the level of each error; "unleveled" is no ErrorLeveler

ErrorLevel == {"warning", "error", "fatal"}

ASSUME WantedAssumption == Wanted \in {"none"} \cup ErrorLevel
ASSUME LevelAssumption == LevelOf \in [Item -> {"unleveled"} \cup ErrorLevel]

VARIABLES
    collecting, \* this sink's Handler is an errorAccumulator, not the client's own
    errors      \* errorAccumulator.errors

cvars == <<vars, collecting, errors>>

CInit ==
    /\ Init
    /\ collecting \in BOOLEAN /\ (collecting => cap \in CollectorCaps)
    /\ errors = <<>>

\* Mutant: an error without a level of its own matches no wanted level.
KeepsLeveled(e) == Wanted = "none" \/ LevelOf[e] = Wanted

\* errorAccumulator.Handle's filter: an error without a level is a warning.
Keeps(e) ==
    \/ Wanted = "none"
    \/ LevelOf[e] = Wanted
    \/ LevelOf[e] = "unleveled" /\ Wanted = "warning"

\* errorAccumulator.Handle, run by the sink's worker; it calls nothing back.
Accumulate ==
    /\ collecting
    /\ HandlerReturn
    /\ errors' = IF Keeps(cur) THEN Append(errors, cur) ELSE errors
    /\ UNCHANGED collecting

\* A client's own Handler, which may call Handle and Close of its sink.
OwnHandler ==
    /\ ~collecting
    /\ HandleEnter(Worker) \/ CallClose(Worker) \/ HandlerReturn
    /\ UNCHANGED <<collecting, errors>>

CNext ==
    \/ Accumulate \/ OwnHandler
    \/ /\ \/ Cancel
          \/ \E c \in Callers : CallerStep(c)
          \/ WorkerLoop \/ WorkerNested
       /\ UNCHANGED <<collecting, errors>>

\* The specification of both kinds of sink; it allows what LiveSpec does.
CSpec == CInit /\ [][CNext]_cvars /\ Fairness

-----------------------------------------------------------------------------
\* es lists the errors of the wanted level among those of s: all of them, in
\* their order, each as often as it occurs.  ErrorLevelNone wants every error,
\* and whatever does not say how severe it is counts as a warning.
Wants(e) ==
    LET severity == IF LevelOf[e] = "unleveled" THEN "warning" ELSE LevelOf[e]
    IN  Wanted # "none" => severity = Wanted

Lists(es, s) ==
    \E at \in [1 .. Len(es) -> 1 .. Len(s)] :
        /\ \A i, j \in 1 .. Len(es) : i < j => at[i] < at[j]
        /\ \A k \in 1 .. Len(s) :
              Wants(s[k]) <=> \E i \in 1 .. Len(es) : at[i] = k
        /\ \A i \in 1 .. Len(es) : es[i] = s[at[i]]

\* Errors may be called at any time.  It lists the errors of the wanted level
\* among the first ones the sink took, in that order, never a later one without
\* an earlier one; once Close has returned, it lists all of them.
ErrorsFollowSink == collecting =>
    /\ \E n \in 0 .. Len(sent) : Lists(errors, SubSeq(sent, 1, n))
    /\ done => Lists(errors, sent)
=============================================================================
