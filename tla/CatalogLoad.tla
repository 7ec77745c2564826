----------------------------- MODULE CatalogLoad -----------------------------
(***************************************************************************)
(* internal/catalog/resolve.go, lazyLoad: the sub-catalog of a delegate or *)
(* nextCatalog entry is loaded on first use, at most once at a time, by    *)
(* whichever of the concurrent resolutions comes first; the others wait    *)
(* for it or for the end of their own context.                             *)
(*                                                                         *)
(* One entry is modelled (entries share nothing).  A load's channel is     *)
(* named after the resolution that made it: it makes no second one before  *)
(* it has closed the first.                                                *)
(***************************************************************************)
CONSTANTS
    Resolvers,  \* the concurrent resolutions
    None        \* no catalog, no channel

ASSUME NoneAssumption ==
    /\ None \notin Resolvers
    /\ {"inlined", "closed"} \cap (Resolvers \cup {None}) = {}

VARIABLES
    hasLoader,  \* Catalog.Loader # nil
    catalog,    \* Entry.Catalog: None, "inlined", or who loaded it
    loaded,     \* Entry.loaded
    loading,    \* Entry.loading: None or the channel of the load in flight
    pc,         \* control point of each resolution
    chan,       \* the channel a waiting resolution watches, "closed" once closed
    ctxDone,    \* the resolution's context has been cancelled
    cat,        \* what a load or a call returned: None on an error
    loads       \* history: the resolutions whose load succeeded

vars == <<hasLoader, catalog, loaded, loading, pc, chan, ctxDone, cat, loads>>
entryVars == <<hasLoader, catalog, loaded, loading, loads>>

Points == {"idle", "enter", "lock", "wait", "woken", "load", "store", "close"}
Catalogs == Resolvers \cup {"inlined"}

TypeOK ==
    /\ hasLoader \in BOOLEAN
    /\ catalog \in Catalogs \cup {None}
    /\ loaded \in BOOLEAN
    /\ loading \in Resolvers \cup {None}
    /\ pc \in [Resolvers -> Points]
    /\ chan \in [Resolvers -> Resolvers \cup {None, "closed"}]
    /\ ctxDone \in [Resolvers -> BOOLEAN]
    /\ cat \in [Resolvers -> Catalogs \cup {None}]
    /\ loads \in SUBSET Resolvers

Init ==
    /\ hasLoader \in BOOLEAN
    /\ catalog \in {None, "inlined"}
    /\ loaded = FALSE /\ loading = None
    /\ pc = [r \in Resolvers |-> "idle"]
    /\ chan = [r \in Resolvers |-> None]
    /\ ctxDone = [r \in Resolvers |-> FALSE]
    /\ cat = [r \in Resolvers |-> None]
    /\ loads = {}

\* A resolution reaches the entry, with a context of its own.
Call(r) ==
    /\ pc[r] = "idle"
    /\ pc' = [pc EXCEPT ![r] = "enter"]
    /\ ctxDone' = [ctxDone EXCEPT ![r] = FALSE]
    /\ cat' = [cat EXCEPT ![r] = None]
    /\ UNCHANGED <<entryVars, chan>>

Cancel(r) ==
    /\ ~ctxDone[r]
    /\ ctxDone' = [ctxDone EXCEPT ![r] = TRUE]
    /\ UNCHANGED <<entryVars, pc, chan, cat>>

Return(r, c) ==
    /\ pc' = [pc EXCEPT ![r] = "idle"]
    /\ cat' = [cat EXCEPT ![r] = c]
    /\ chan' = [chan EXCEPT ![r] = None]

\* The tests of ctx.Err(): on entry, and after a wait.
Enter(r) ==
    /\ pc[r] \in {"enter", "woken"}
    /\ ~ctxDone[r]
    /\ pc' = [pc EXCEPT ![r] = "lock"]
    /\ chan' = [chan EXCEPT ![r] = None]
    /\ UNCHANGED <<entryVars, ctxDone, cat>>

EnterCanceled(r) ==
    /\ pc[r] \in {"enter", "woken"}
    /\ ctxDone[r]
    /\ Return(r, None)
    /\ UNCHANGED <<entryVars, ctxDone>>

-----------------------------------------------------------------------------
(***************************************************************************)
(* The critical section at the top of the loop, one action per way out.    *)
(***************************************************************************)
\* Loaded already, or populated without a load.
UseCached(r) ==
    /\ pc[r] = "lock"
    /\ loaded \/ catalog # None
    /\ loaded' = TRUE
    /\ Return(r, catalog)
    /\ UNCHANGED <<hasLoader, catalog, loading, loads, ctxDone>>

NoLoader(r) ==
    /\ pc[r] = "lock"
    /\ ~loaded /\ catalog = None /\ ~hasLoader
    /\ Return(r, None)
    /\ UNCHANGED <<entryVars, ctxDone>>

\* A load is in flight: take its channel and wait without the lock.
Join(r) ==
    /\ pc[r] = "lock"
    /\ ~loaded /\ catalog = None /\ hasLoader
    /\ loading # None
    /\ chan' = [chan EXCEPT ![r] = loading]
    /\ pc' = [pc EXCEPT ![r] = "wait"]
    /\ UNCHANGED <<entryVars, ctxDone, cat>>

\* Mutant: the load in flight is not looked at.
ClaimAlways(r) ==
    /\ pc[r] = "lock"
    /\ ~loaded /\ catalog = None /\ hasLoader
    /\ loading' = r
    /\ pc' = [pc EXCEPT ![r] = "load"]
    /\ UNCHANGED <<hasLoader, catalog, loaded, loads, chan, ctxDone, cat>>

\* Publish a fresh channel and load outside the critical section.
Claim(r) ==
    /\ pc[r] = "lock"
    /\ ~loaded /\ catalog = None /\ hasLoader
    /\ loading = None
    /\ loading' = r
    /\ pc' = [pc EXCEPT ![r] = "load"]
    /\ UNCHANGED <<hasLoader, catalog, loaded, loads, chan, ctxDone, cat>>

-----------------------------------------------------------------------------
\* The select of a waiter.
WaitOver(r) ==
    /\ pc[r] = "wait" /\ chan[r] = "closed"
    /\ pc' = [pc EXCEPT ![r] = "woken"]
    /\ UNCHANGED <<entryVars, chan, ctxDone, cat>>

\* Mutant: the wait does not watch the context.
WaitCanceledNever(r) == FALSE /\ UNCHANGED <<vars, r>>

WaitCanceled(r) ==
    /\ pc[r] = "wait" /\ ctxDone[r]
    /\ Return(r, None)
    /\ UNCHANGED <<entryVars, ctxDone>>

(***************************************************************************)
(* Loader.Load returns: a catalog, or an error or nothing at all (None).   *)
(***************************************************************************)
LoadReturns(r, c) ==
    /\ pc[r] = "load"
    /\ c \in {r, None}
    /\ pc' = [pc EXCEPT ![r] = "store"]
    /\ cat' = [cat EXCEPT ![r] = c]
    /\ UNCHANGED <<entryVars, chan, ctxDone>>

\* Mutant: a failed load leaves the entry marked as loaded.
StoreFailure(r) ==
    /\ pc[r] = "store"
    /\ loading' = None
    /\ loaded' = TRUE
    /\ catalog' = cat[r]
    /\ loads' = IF cat[r] # None THEN loads \cup {r} ELSE loads
    /\ pc' = [pc EXCEPT ![r] = "close"]
    /\ UNCHANGED <<hasLoader, chan, ctxDone, cat>>

\* The second critical section: only a success is kept.
Store(r) ==
    /\ pc[r] = "store"
    /\ loading' = None
    /\ IF cat[r] # None
       THEN catalog' = cat[r] /\ loaded' = TRUE /\ loads' = loads \cup {r}
       ELSE UNCHANGED <<catalog, loaded, loads>>
    /\ pc' = [pc EXCEPT ![r] = "close"]
    /\ UNCHANGED <<hasLoader, chan, ctxDone, cat>>

\* Mutant: the channel is closed only after a success.
CloseOnSuccess(r) ==
    /\ pc[r] = "close"
    /\ pc' = [pc EXCEPT ![r] = "idle"]
    /\ chan' = [s \in Resolvers |-> IF chan[s] = r /\ cat[r] # None THEN "closed"
                                                                    ELSE chan[s]]
    /\ UNCHANGED <<entryVars, ctxDone, cat>>

\* close(loading) and the return of the load's own result.
Close(r) ==
    /\ pc[r] = "close"
    /\ pc' = [pc EXCEPT ![r] = "idle"]
    /\ chan' = [s \in Resolvers |-> IF chan[s] = r THEN "closed" ELSE chan[s]]
    /\ UNCHANGED <<entryVars, ctxDone, cat>>

-----------------------------------------------------------------------------
\* The steps of a resolution that no loader and no caller can hold up.
Run(r) ==
    \/ Enter(r) \/ EnterCanceled(r)
    \/ UseCached(r) \/ NoLoader(r) \/ Join(r) \/ Claim(r)
    \/ WaitOver(r) \/ WaitCanceled(r)
    \/ Store(r) \/ Close(r)

Next ==
    \E r \in Resolvers :
        \/ Call(r) \/ Cancel(r) \/ Run(r)
        \/ \E c \in {r, None} : LoadReturns(r, c)

Spec == Init /\ [][Next]_vars

(***************************************************************************)
(* Fairness: a resolution that can run does; a Loader may never return.    *)
(***************************************************************************)
LiveSpec == Spec /\ \A r \in Resolvers : WF_vars(Run(r))

-----------------------------------------------------------------------------
(***************************************************************************)
(* Properties.                                                             *)
(***************************************************************************)
InFlight(r) == pc[r] \in {"load", "store"}

\* Single flight: at most one resolution is loading the entry at any time.
SingleFlight ==
    \A r, s \in Resolvers : InFlight(r) /\ InFlight(s) => r = s

\* An entry is successfully loaded at most once, and not again once it holds a
\* catalog, so that every resolution sees the same sub-catalog for ever.  A
\* failure is never cached: whatever has happened, an entry without a catalog
\* is not marked as loaded, so a later resolution tries again.
LoadedOnce ==
    /\ loaded => catalog # None
    /\ \A r, s \in loads : r = s
    /\ catalog # None => \A r \in Resolvers : ~InFlight(r)
    /\ \A r \in Resolvers : pc[r] = "idle" /\ cat[r] # None => cat[r] = catalog

\* A waiter waits for a load that is still in flight and will close the channel,
\* or its channel is closed already: a failed load leaves nobody behind.
NoOrphanWaiter ==
    \A r \in Resolvers : pc[r] = "wait" =>
        \/ chan[r] = "closed"
        \/ \E s \in Resolvers \ {r} : chan[r] = s /\ pc[s] \in {"load", "store", "close"}

\* A waiter is released once the load it waits for has been stored, and the
\* cancellation of its context frees it even if the load in flight on another
\* goroutine never returns.
WaitersLeave ==
    \A r, s \in Resolvers :
        /\ (pc[r] = "wait" /\ chan[r] = s /\ pc[s] = "store") ~> (pc[r] # "wait")
        /\ (pc[r] = "wait" /\ ctxDone[r]) ~> (pc[r] = "idle")
=============================================================================
