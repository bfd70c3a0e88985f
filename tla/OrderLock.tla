----------------------------- MODULE OrderLock -----------------------------
(***************************************************************************)
(* The mutex of an order (controller/topup.go): a map from trade numbers   *)
(* to mutexes with a reference count.  createLock protects the count and   *)
(* the changes of the map; UnlockOrder looks its mutex up without it.      *)
(* The last user of a mutex removes it from the map, and a later LockOrder *)
(* makes a new one.                                                        *)
(***************************************************************************)
EXTENDS Integers, FiniteSets

CONSTANTS
    Handlers,   \* goroutines of one process
    Orders,     \* trade numbers
    Mutexes,    \* refCountedMutex objects
    None        \* no mutex, no handler

ASSUME OrderLockAssumption ==
    /\ IsFiniteSet(Handlers) /\ None \notin Handlers /\ None \notin Mutexes

VARIABLES
    pc,         \* where a handler is in LockOrder and UnlockOrder
    order,      \* tradeNo
    rcm,        \* the local variable rcm
    createLock, \* who holds createLock
    orderLocks, \* the map
    refCount,   \* of each mutex
    mu          \* who holds it

vars == <<pc, order, rcm, createLock, orderLocks, refCount, mu>>

---------------------------------------------------------------------------
Waiting == {"create", "load", "count", "mu"}
Holding == {"in", "lookup", "unlock"}
Leaving == {"recreate", "uncount"}
Positions == {"out"} \cup Waiting \cup Holding \cup Leaving

\* Values of the handlers' positions and of the locks.
TypeOK ==
    /\ pc \in [Handlers -> Positions]
    /\ order \in [Handlers -> Orders]
    /\ rcm \in [Handlers -> Mutexes \cup {None}]
    /\ createLock \in Handlers \cup {None}
    /\ orderLocks \in [Orders -> Mutexes \cup {None}]
    /\ refCount \in [Mutexes -> Nat]
    /\ mu \in [Mutexes -> Handlers \cup {None}]

Init ==
    /\ pc = [h \in Handlers |-> "out"]
    /\ order \in [Handlers -> Orders]
    /\ rcm = [h \in Handlers |-> None]
    /\ createLock = None
    /\ orderLocks = [o \in Orders |-> None]
    /\ refCount = [m \in Mutexes |-> 0]
    /\ mu = [m \in Mutexes |-> None]

Goto(h, at) == pc' = [pc EXCEPT ![h] = at]

---------------------------------------------------------------------------
(* LockOrder.                                                              *)

Call(h, o) ==
    /\ pc[h] = "out"
    /\ Goto(h, "create") /\ order' = [order EXCEPT ![h] = o]
    /\ UNCHANGED <<rcm, createLock, orderLocks, refCount, mu>>

\* createLock.Lock(), in LockOrder and in UnlockOrder.
TakeCreateLock(h) ==
    /\ pc[h] \in {"create", "recreate"} /\ createLock = None
    /\ createLock' = h
    /\ Goto(h, IF pc[h] = "create" THEN "load" ELSE "uncount")
    /\ UNCHANGED <<order, rcm, orderLocks, refCount, mu>>

\* A mutex nobody refers to: a new one, or one the garbage collector has taken.
Fresh(m) == (\A o \in Orders : orderLocks[o] # m) /\ (\A h \in Handlers : rcm[h] # m)

Load(h) ==
    /\ pc[h] = "load"
    /\ \/ /\ orderLocks[order[h]] # None
          /\ rcm' = [rcm EXCEPT ![h] = orderLocks[order[h]]]
          /\ UNCHANGED <<orderLocks, refCount, mu>>
       \/ /\ orderLocks[order[h]] = None
          /\ \E m \in Mutexes :
                /\ Fresh(m)
                /\ rcm' = [rcm EXCEPT ![h] = m]
                /\ orderLocks' = [orderLocks EXCEPT ![order[h]] = m]
                /\ refCount' = [refCount EXCEPT ![m] = 0] /\ mu' = [mu EXCEPT ![m] = None]
    /\ Goto(h, "count")
    /\ UNCHANGED <<order, createLock>>

Count(h) ==
    /\ pc[h] = "count"
    /\ refCount' = [refCount EXCEPT ![rcm[h]] = @ + 1] /\ createLock' = None
    /\ Goto(h, "mu")
    /\ UNCHANGED <<order, rcm, orderLocks, mu>>

\* Variant: the mutex is only tried.
LockMuTry(h) ==
    /\ pc[h] = "mu"
    /\ mu' = [mu EXCEPT ![rcm[h]] = IF @ = None THEN h ELSE @]
    /\ Goto(h, IF mu[rcm[h]] = None THEN "in" ELSE "recreate")
    /\ UNCHANGED <<order, rcm, createLock, orderLocks, refCount>>

\* rcm.mu.Lock()
LockMu(h) ==
    /\ pc[h] = "mu" /\ mu[rcm[h]] = None
    /\ mu' = [mu EXCEPT ![rcm[h]] = h]
    /\ Goto(h, "in")
    /\ UNCHANGED <<order, rcm, createLock, orderLocks, refCount>>

---------------------------------------------------------------------------
(* UnlockOrder.                                                            *)

CallUnlock(h) ==
    /\ pc[h] = "in" /\ Goto(h, "lookup")
    /\ UNCHANGED <<order, rcm, createLock, orderLocks, refCount, mu>>

\* orderLocks.Load; without an entry UnlockOrder returns at once.
Lookup(h) ==
    /\ pc[h] = "lookup"
    /\ rcm' = [rcm EXCEPT ![h] = orderLocks[order[h]]]
    /\ Goto(h, IF orderLocks[order[h]] = None THEN "out" ELSE "unlock")
    /\ UNCHANGED <<order, createLock, orderLocks, refCount, mu>>

\* rcm.mu.Unlock() does not look who has locked the mutex.
UnlockMu(h) ==
    /\ pc[h] = "unlock"
    /\ mu' = [mu EXCEPT ![rcm[h]] = None]
    /\ Goto(h, "recreate")
    /\ UNCHANGED <<order, rcm, createLock, orderLocks, refCount>>

\* Variant: the entry stays in the map.
UncountKeeping(h) ==
    /\ pc[h] = "uncount"
    /\ refCount' = [refCount EXCEPT ![rcm[h]] = @ - 1]
    /\ rcm' = [rcm EXCEPT ![h] = None] /\ createLock' = None
    /\ Goto(h, "out")
    /\ UNCHANGED <<order, orderLocks, mu>>

\* Variant: every user removes the entry.
UncountRemoving(h) ==
    /\ pc[h] = "uncount"
    /\ refCount' = [refCount EXCEPT ![rcm[h]] = @ - 1]
    /\ orderLocks' = [orderLocks EXCEPT ![order[h]] = None]
    /\ rcm' = [rcm EXCEPT ![h] = None] /\ createLock' = None
    /\ Goto(h, "out")
    /\ UNCHANGED <<order, mu>>

Uncount(h) ==
    /\ pc[h] = "uncount"
    /\ refCount' = [refCount EXCEPT ![rcm[h]] = @ - 1]
    /\ orderLocks' = IF refCount[rcm[h]] = 1
                     THEN [orderLocks EXCEPT ![order[h]] = None] ELSE orderLocks
    /\ rcm' = [rcm EXCEPT ![h] = None] /\ createLock' = None
    /\ Goto(h, "out")
    /\ UNCHANGED <<order, mu>>

Step(h) ==
    \/ TakeCreateLock(h) \/ Load(h) \/ Count(h) \/ LockMu(h)
    \/ CallUnlock(h) \/ Lookup(h) \/ UnlockMu(h) \/ Uncount(h)

Next == \E h \in Handlers : (\E o \in Orders : Call(h, o)) \/ Step(h)

Spec == Init /\ [][Next]_vars

\* Handlers that have a lock go on; a goroutine waiting for a sync.Mutex gets it.
FairSpec ==
    /\ Spec
    /\ \A h \in Handlers :
          WF_vars(Step(h)) /\ SF_vars(TakeCreateLock(h)) /\ SF_vars(LockMu(h))

---------------------------------------------------------------------------
\* The mutex in the map is the one the order's users have: LockOrder never makes a second
\* one while the first is in use, although its users look it up without createLock, and
\* UnlockOrder never misses its entry or unlocks a mutex that is not locked (a fatal error).
OneMutex ==
    \A h \in Handlers :
        /\ pc[h] \in Holding \cup Leaving \cup {"mu"} => orderLocks[order[h]] = rcm[h]
        /\ pc[h] \in Holding => mu[rcm[h]] = h

\* An order without users has no entry: the map does not grow with the orders handled
\* ("the last user removes it from the map").
NoLeak ==
    \A o \in Orders : orderLocks[o] # None =>
        \E h \in Handlers : order[h] = o /\ pc[h] # "out"

\* Every handler that calls LockOrder gets in.
EveryoneEnters == \A h \in Handlers : pc[h] = "create" ~> pc[h] = "in"

PhaseOf(at) ==
    IF at \in Waiting THEN "waiting" ELSE IF at \in Holding THEN "in" ELSE "out"
M == INSTANCE OrderMutex WITH phase <- [h \in Handlers |-> PhaseOf(pc[h])], wants <- order

\* LockOrder and UnlockOrder implement one mutex for each order.
IsOrderMutex == M!MSpec
============================================================================
