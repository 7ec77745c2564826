------------------------- MODULE CatalogLoadProofs -------------------------
(***************************************************************************)
(* Theorems about CatalogLoad for any number of concurrent resolutions.    *)
(***************************************************************************)
EXTENDS CatalogLoad, TLAPS

-----------------------------------------------------------------------------
(***************************************************************************)
(* The inductive invariant.                                                *)
(***************************************************************************)

\* Entry.loading names the resolution that is loading; an entry that has its
\* catalog has no load in flight, and is not marked as loaded without one.
FlightInv ==
    /\ \A r \in Resolvers : InFlight(r) <=> loading = r
    /\ catalog # None => loading = None
    /\ loaded => catalog # None

\* Results: a load returns what it loaded or nothing, the entry keeps the only
\* success, and no call has returned any other catalog.
ResultInv ==
    /\ loads \subseteq {catalog}
    /\ \A r \in Resolvers : pc[r] \in {"enter", "lock", "wait", "woken", "load"} => cat[r] = None
    /\ \A r \in Resolvers : pc[r] = "store" => cat[r] \in {r, None}
    /\ \A r \in Resolvers : pc[r] \in {"idle", "close"} /\ cat[r] # None => cat[r] = catalog

\* Channels: only a waiter watches an open channel, and its maker will close it.
WaitInv ==
    /\ \A r, s \in Resolvers :
          chan[r] = s => pc[r] = "wait" /\ pc[s] \in {"load", "store", "close"}
    /\ \A r \in Resolvers : pc[r] = "wait" => chan[r] # None

IInv == TypeOK /\ FlightInv /\ ResultInv /\ WaitInv

-----------------------------------------------------------------------------
\* Every step keeps every variable within its type.
LEMMA TypeStep == TypeOK /\ [Next]_vars => TypeOK'
<1> SUFFICES ASSUME TypeOK, [Next]_vars PROVE TypeOK'
  OBVIOUS
<1> USE NoneAssumption DEF TypeOK, Points, Catalogs, Return, InFlight, entryVars
<1>1. ASSUME NEW r \in Resolvers, Call(r) PROVE TypeOK'
  BY <1>1 DEF Call
<1>2. ASSUME NEW r \in Resolvers, Cancel(r) PROVE TypeOK'
  BY <1>2 DEF Cancel
<1>3. ASSUME NEW r \in Resolvers, Enter(r) PROVE TypeOK'
  BY <1>3 DEF Enter
<1>4. ASSUME NEW r \in Resolvers, EnterCanceled(r) PROVE TypeOK'
  BY <1>4 DEF EnterCanceled
<1>5. ASSUME NEW r \in Resolvers, UseCached(r) PROVE TypeOK'
  BY <1>5 DEF UseCached
<1>6. ASSUME NEW r \in Resolvers, NoLoader(r) PROVE TypeOK'
  BY <1>6 DEF NoLoader
<1>7. ASSUME NEW r \in Resolvers, Join(r) PROVE TypeOK'
  BY <1>7 DEF Join
<1>8. ASSUME NEW r \in Resolvers, Claim(r) PROVE TypeOK'
  BY <1>8 DEF Claim
<1>9. ASSUME NEW r \in Resolvers, WaitOver(r) PROVE TypeOK'
  BY <1>9 DEF WaitOver
<1>10. ASSUME NEW r \in Resolvers, WaitCanceled(r) PROVE TypeOK'
  BY <1>10 DEF WaitCanceled
<1>11. ASSUME NEW r \in Resolvers, NEW c \in {r, None}, LoadReturns(r, c) PROVE TypeOK'
  BY <1>11 DEF LoadReturns
<1>12. ASSUME NEW r \in Resolvers, Store(r) PROVE TypeOK'
  BY <1>12 DEF Store
<1>13. ASSUME NEW r \in Resolvers, Close(r) PROVE TypeOK'
  BY <1>13 DEF Close
<1>14. CASE UNCHANGED vars
  BY <1>14 DEF vars
<1>15. QED
  BY <1>1, <1>2, <1>3, <1>4, <1>5, <1>6, <1>7, <1>8, <1>9, <1>10, <1>11,
     <1>12, <1>13, <1>14 DEF Next, Run

\* The load in flight is the one whose channel the entry publishes.
LEMMA FlightStep == TypeOK /\ FlightInv /\ [Next]_vars => FlightInv'
<1> SUFFICES ASSUME TypeOK /\ FlightInv, [Next]_vars PROVE FlightInv'
  OBVIOUS
<1> USE NoneAssumption DEF TypeOK, FlightInv, Points, Catalogs, Return, InFlight, entryVars
<1>1. ASSUME NEW r \in Resolvers, Call(r) PROVE FlightInv'
  BY <1>1 DEF Call
<1>2. ASSUME NEW r \in Resolvers, Cancel(r) PROVE FlightInv'
  BY <1>2 DEF Cancel
<1>3. ASSUME NEW r \in Resolvers, Enter(r) PROVE FlightInv'
  BY <1>3 DEF Enter
<1>4. ASSUME NEW r \in Resolvers, EnterCanceled(r) PROVE FlightInv'
  BY <1>4 DEF EnterCanceled
<1>5. ASSUME NEW r \in Resolvers, UseCached(r) PROVE FlightInv'
  BY <1>5 DEF UseCached
<1>6. ASSUME NEW r \in Resolvers, NoLoader(r) PROVE FlightInv'
  BY <1>6 DEF NoLoader
<1>7. ASSUME NEW r \in Resolvers, Join(r) PROVE FlightInv'
  BY <1>7 DEF Join
<1>8. ASSUME NEW r \in Resolvers, Claim(r) PROVE FlightInv'
  BY <1>8 DEF Claim
<1>9. ASSUME NEW r \in Resolvers, WaitOver(r) PROVE FlightInv'
  BY <1>9 DEF WaitOver
<1>10. ASSUME NEW r \in Resolvers, WaitCanceled(r) PROVE FlightInv'
  BY <1>10 DEF WaitCanceled
<1>11. ASSUME NEW r \in Resolvers, NEW c \in {r, None}, LoadReturns(r, c) PROVE FlightInv'
  BY <1>11 DEF LoadReturns
<1>12. ASSUME NEW r \in Resolvers, Store(r) PROVE FlightInv'
  BY <1>12 DEF Store
<1>13. ASSUME NEW r \in Resolvers, Close(r) PROVE FlightInv'
  BY <1>13 DEF Close
<1>14. CASE UNCHANGED vars
  BY <1>14 DEF vars
<1>15. QED
  BY <1>1, <1>2, <1>3, <1>4, <1>5, <1>6, <1>7, <1>8, <1>9, <1>10, <1>11,
     <1>12, <1>13, <1>14 DEF Next, Run

\* A catalog that was returned is the one the entry keeps.
LEMMA ResultStep == TypeOK /\ FlightInv /\ ResultInv /\ [Next]_vars => ResultInv'
<1> SUFFICES ASSUME TypeOK /\ FlightInv /\ ResultInv, [Next]_vars PROVE ResultInv'
  OBVIOUS
<1> USE NoneAssumption DEF TypeOK, FlightInv, ResultInv, Points, Catalogs, Return, InFlight, entryVars
<1>1. ASSUME NEW r \in Resolvers, Call(r) PROVE ResultInv'
  BY <1>1 DEF Call
<1>2. ASSUME NEW r \in Resolvers, Cancel(r) PROVE ResultInv'
  BY <1>2 DEF Cancel
<1>3. ASSUME NEW r \in Resolvers, Enter(r) PROVE ResultInv'
  BY <1>3 DEF Enter
<1>4. ASSUME NEW r \in Resolvers, EnterCanceled(r) PROVE ResultInv'
  BY <1>4 DEF EnterCanceled
<1>5. ASSUME NEW r \in Resolvers, UseCached(r) PROVE ResultInv'
  BY <1>5 DEF UseCached
<1>6. ASSUME NEW r \in Resolvers, NoLoader(r) PROVE ResultInv'
  BY <1>6 DEF NoLoader
<1>7. ASSUME NEW r \in Resolvers, Join(r) PROVE ResultInv'
  BY <1>7 DEF Join
<1>8. ASSUME NEW r \in Resolvers, Claim(r) PROVE ResultInv'
  BY <1>8 DEF Claim
<1>9. ASSUME NEW r \in Resolvers, WaitOver(r) PROVE ResultInv'
  BY <1>9 DEF WaitOver
<1>10. ASSUME NEW r \in Resolvers, WaitCanceled(r) PROVE ResultInv'
  BY <1>10 DEF WaitCanceled
<1>11. ASSUME NEW r \in Resolvers, NEW c \in {r, None}, LoadReturns(r, c) PROVE ResultInv'
  BY <1>11 DEF LoadReturns
<1>12. ASSUME NEW r \in Resolvers, Store(r) PROVE ResultInv'
  BY <1>12 DEF Store
<1>13. ASSUME NEW r \in Resolvers, Close(r) PROVE ResultInv'
  BY <1>13 DEF Close
<1>14. CASE UNCHANGED vars
  BY <1>14 DEF vars
<1>15. QED
  BY <1>1, <1>2, <1>3, <1>4, <1>5, <1>6, <1>7, <1>8, <1>9, <1>10, <1>11,
     <1>12, <1>13, <1>14 DEF Next, Run

\* The channel a waiter watches is that of a load that has not closed it yet.
LEMMA WaitStep == TypeOK /\ FlightInv /\ WaitInv /\ [Next]_vars => WaitInv'
<1> SUFFICES ASSUME TypeOK /\ FlightInv /\ WaitInv, [Next]_vars PROVE WaitInv'
  OBVIOUS
<1> USE NoneAssumption DEF TypeOK, FlightInv, WaitInv, Points, Return, InFlight, entryVars
<1>1. ASSUME NEW r \in Resolvers, Call(r) PROVE WaitInv'
  BY <1>1 DEF Call
<1>2. ASSUME NEW r \in Resolvers, Cancel(r) PROVE WaitInv'
  BY <1>2 DEF Cancel
<1>3. ASSUME NEW r \in Resolvers, Enter(r) PROVE WaitInv'
  BY <1>3 DEF Enter
<1>4. ASSUME NEW r \in Resolvers, EnterCanceled(r) PROVE WaitInv'
  BY <1>4 DEF EnterCanceled
<1>5. ASSUME NEW r \in Resolvers, UseCached(r) PROVE WaitInv'
  BY <1>5 DEF UseCached
<1>6. ASSUME NEW r \in Resolvers, NoLoader(r) PROVE WaitInv'
  BY <1>6 DEF NoLoader
<1>7. ASSUME NEW r \in Resolvers, Join(r) PROVE WaitInv'
  BY <1>7 DEF Join
<1>8. ASSUME NEW r \in Resolvers, Claim(r) PROVE WaitInv'
  BY <1>8 DEF Claim
<1>9. ASSUME NEW r \in Resolvers, WaitOver(r) PROVE WaitInv'
  BY <1>9 DEF WaitOver
<1>10. ASSUME NEW r \in Resolvers, WaitCanceled(r) PROVE WaitInv'
  BY <1>10 DEF WaitCanceled
<1>11. ASSUME NEW r \in Resolvers, NEW c \in {r, None}, LoadReturns(r, c) PROVE WaitInv'
  BY <1>11 DEF LoadReturns
<1>12. ASSUME NEW r \in Resolvers, Store(r) PROVE WaitInv'
  BY <1>12 DEF Store
<1>13. ASSUME NEW r \in Resolvers, Close(r) PROVE WaitInv'
  BY <1>13 DEF Close
<1>14. CASE UNCHANGED vars
  BY <1>14 DEF vars
<1>15. QED
  BY <1>1, <1>2, <1>3, <1>4, <1>5, <1>6, <1>7, <1>8, <1>9, <1>10, <1>11,
     <1>12, <1>13, <1>14 DEF Next, Run

-----------------------------------------------------------------------------
\* A fresh entry, inlined or not, satisfies the invariant.
LEMMA InitIInv == Init => IInv
  BY NoneAssumption DEF Init, IInv, TypeOK, FlightInv, ResultInv, WaitInv, InFlight,
     Points, Catalogs

\* The invariant is inductive, so it holds in every reachable state.
THEOREM Invariance == Spec => []IInv
<1>1. IInv /\ [Next]_vars => IInv'
  BY TypeStep, FlightStep, ResultStep, WaitStep DEF IInv
<1>2. QED
  BY InitIInv, <1>1, PTL DEF Spec

\* Type correctness of an entry's load state.
THEOREM TypeCorrect == Spec => []TypeOK
<1>1. IInv => TypeOK
  BY DEF IInv
<1>2. QED
  BY Invariance, <1>1, PTL

\* No two resolutions load the same entry at the same time.
THEOREM FlightIsSingle == Spec => []SingleFlight
<1>1. IInv => SingleFlight
  BY DEF IInv, FlightInv, SingleFlight
<1>2. QED
  BY Invariance, <1>1, PTL

\* At most one load of an entry succeeds, all resolutions share its catalog,
\* and a failed load is not cached.
THEOREM LoadsOnce == Spec => []LoadedOnce
<1>1. IInv => LoadedOnce
  BY NoneAssumption DEF IInv, TypeOK, FlightInv, ResultInv, LoadedOnce
<1>2. QED
  BY Invariance, <1>1, PTL

\* Nobody waits on a channel that no resolution is going to close.
THEOREM WaitersAreServed == Spec => []NoOrphanWaiter
<1>1. IInv => NoOrphanWaiter
  <2>1. SUFFICES ASSUME IInv, NEW r \in Resolvers, pc[r] = "wait"
                 PROVE  \/ chan[r] = "closed"
                        \/ \E s \in Resolvers \ {r} :
                              chan[r] = s /\ pc[s] \in {"load", "store", "close"}
    BY DEF NoOrphanWaiter
  <2>2. chan[r] \in Resolvers \cup {"closed"}
    BY <2>1 DEF IInv, TypeOK, WaitInv
  <2>3. CASE chan[r] \in Resolvers
    BY <2>1, <2>3 DEF IInv, WaitInv
  <2>4. QED
    BY <2>2, <2>3
<1>2. QED
  BY Invariance, <1>1, PTL
=============================================================================
