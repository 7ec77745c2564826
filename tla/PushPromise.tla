---------------------------- MODULE PushPromise ----------------------------
(***************************************************************************)
(* What a push parser promises its callers, with no goroutine, lock or     *)
(* condition variable in sight: an input to which chunks are appended      *)
(* until it is closed, a parse that consumes a prefix of it, and one       *)
(* outcome that every Close returns.                                       *)
(***************************************************************************)
EXTENDS Integers, Sequences

CONSTANTS Callers, Chunks

VARIABLES
    accepted,     \* the bytes accepted so far
    delivered,    \* the bytes the parse has consumed
    inputClosed,  \* no further byte is accepted
    outcome,      \* the result of the parse, NoResult while it runs
    returned      \* what the Close calls of each caller returned

vars == <<accepted, delivered, inputClosed, outcome, returned>>

NoResult == [val |-> "zero", err |-> "none"]
Running == outcome = NoResult

Init ==
    /\ accepted = <<>> /\ delivered = <<>>
    /\ inputClosed = FALSE
    /\ outcome = NoResult
    /\ returned = [c \in Callers |-> {}]

Accept(chunk) ==
    /\ ~inputClosed /\ Running
    /\ accepted' = accepted \o chunk
    /\ UNCHANGED <<delivered, inputClosed, outcome, returned>>

\* The parse consumes the next bytes of the input, and nothing else.
Consume(n) ==
    /\ Running
    /\ n \in 1 .. Len(accepted) - Len(delivered)
    /\ delivered' = SubSeq(accepted, 1, Len(delivered) + n)
    /\ UNCHANGED <<accepted, inputClosed, outcome, returned>>

CloseInput ==
    /\ inputClosed' = TRUE
    /\ UNCHANGED <<accepted, delivered, outcome, returned>>

\* The parse ends, once, and takes no more input.
Publish ==
    /\ Running
    /\ outcome' # NoResult
    /\ inputClosed' = TRUE
    /\ UNCHANGED <<accepted, delivered, returned>>

\* Close returns only once there is an outcome, after the input was closed.
Return(c) ==
    /\ ~Running /\ inputClosed
    /\ returned' = [returned EXCEPT ![c] = @ \cup {outcome}]
    /\ UNCHANGED <<accepted, delivered, inputClosed, outcome>>

Next ==
    \/ \E chunk \in Chunks : Accept(chunk)
    \/ \E n \in 1 .. Len(accepted) - Len(delivered) : Consume(n)
    \/ CloseInput
    \/ Publish
    \/ \E c \in Callers : Return(c)

Spec == Init /\ [][Next]_vars
=============================================================================
