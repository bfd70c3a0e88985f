-------------------------- MODULE OrderLockProofs --------------------------
(***************************************************************************)
(* Proofs about OrderLock, for any number of handlers, orders and mutexes. *)
(***************************************************************************)
EXTENDS OrderLock, FiniteSetTheorems, TLAPS

\* The handlers refCount stands for.
Users(m) == { h \in Handlers : rcm[h] = m /\ pc[h] \in Holding \cup Leaving \cup {"mu"} }

Counted == \A m \in Mutexes : refCount[m] = Cardinality(Users(m))

CreateLocked ==
    \A h \in Handlers : pc[h] \in {"load", "count", "uncount"} <=> createLock = h

Referred ==
    \A h \in Handlers :
        /\ pc[h] \in Holding \cup Leaving \cup {"mu", "count"} =>
              rcm[h] # None /\ orderLocks[order[h]] = rcm[h]
        /\ pc[h] \in {"out", "create", "load"} => rcm[h] = None

Separate ==
    \A o, q \in Orders : orderLocks[o] = orderLocks[q] /\ orderLocks[o] # None => o = q

MuHeld ==
    \A h \in Handlers, m \in Mutexes : mu[m] = h <=> pc[h] \in Holding /\ rcm[h] = m

Used ==
    \A o \in Orders : orderLocks[o] # None =>
        \E h \in Handlers :
            rcm[h] = orderLocks[o] /\ pc[h] \in Holding \cup Leaving \cup {"mu", "count"}

\* Two handlers of an order have the same mutex, which has one holder, and a mutex is removed
\* only when nobody is counted and nobody else is between loading and counting it.
IInv ==
    TypeOK /\ Counted /\ CreateLocked /\ Referred /\ Separate /\ MuHeld /\ Used

---------------------------------------------------------------------------
\* A set of handlers is finite (Handlers is).
LEMMA UsersFinite ==
    ASSUME NEW m
    PROVE  IsFiniteSet(Users(m)) /\ Cardinality(Users(m)) \in Nat
  <1>1. Users(m) \in SUBSET Handlers
    BY DEF Users
  <1> QED
    BY <1>1, OrderLockAssumption, FS_Subset, FS_CardinalityType

\* A count of one leaves no other user, a greater one does.
LEMMA LastUser ==
    ASSUME TypeOK, Counted, NEW m \in Mutexes, NEW h \in Users(m)
    PROVE  refCount[m] = 1 <=> Users(m) \ {h} = {}
  <1>1. /\ IsFiniteSet(Users(m) \ {h})
        /\ Cardinality(Users(m) \ {h}) = Cardinality(Users(m)) - 1
    BY UsersFinite, FS_RemoveElement
  <1>2. Cardinality(Users(m) \ {h}) = 0 <=> Users(m) \ {h} = {}
    BY <1>1, FS_EmptySet
  <1> QED
    BY <1>1, <1>2, UsersFinite DEF Counted

\* Whatever a step of a handler does, the variables keep their types.
LEMMA TypeStep ==
    ASSUME TypeOK, Counted, Referred, [Next]_vars
    PROVE  TypeOK'
  <1> USE DEF TypeOK, Positions, Waiting, Holding, Leaving, Goto
  <1>1. CASE UNCHANGED vars
    BY <1>1 DEF vars
  <1>2. ASSUME NEW h \in Handlers, NEW o \in Orders, Call(h, o)
        PROVE  TypeOK'
    BY <1>2 DEF Call
  <1>3. ASSUME NEW h \in Handlers, TakeCreateLock(h)
        PROVE  TypeOK'
    BY <1>3 DEF TakeCreateLock
  <1>4. ASSUME NEW h \in Handlers, Load(h)
        PROVE  TypeOK'
    BY <1>4 DEF Load
  <1>5. ASSUME NEW h \in Handlers, Count(h)
        PROVE  TypeOK'
    BY <1>5 DEF Count, Referred
  <1>6. ASSUME NEW h \in Handlers, LockMu(h)
        PROVE  TypeOK'
    BY <1>6 DEF LockMu
  <1>7. ASSUME NEW h \in Handlers, CallUnlock(h)
        PROVE  TypeOK'
    BY <1>7 DEF CallUnlock
  <1>8. ASSUME NEW h \in Handlers, Lookup(h)
        PROVE  TypeOK'
    BY <1>8 DEF Lookup
  <1>9. ASSUME NEW h \in Handlers, UnlockMu(h)
        PROVE  TypeOK'
    BY <1>9 DEF UnlockMu
  <1>10. ASSUME NEW h \in Handlers, Uncount(h)
        PROVE  TypeOK'
    <2>1. rcm[h] \in Mutexes /\ h \in Users(rcm[h])
      BY <1>10 DEF Uncount, Referred, Users
    <2>2. refCount[rcm[h]] \in Nat \ {0}
      BY <2>1, UsersFinite, FS_EmptySet DEF Counted
    <2> QED
      BY <1>10, <2>1, <2>2 DEF Uncount
  <1> QED
    BY <1>1, <1>2, <1>3, <1>4, <1>5, <1>6, <1>7, <1>8, <1>9, <1>10 DEF Next, Step

\* refCount keeps counting its users: only Count and Uncount change either.
LEMMA CountedStep ==
    ASSUME IInv, [Next]_vars
    PROVE  Counted'
  <1> USE DEF IInv, TypeOK, Positions, Waiting, Holding, Leaving, Goto
  <1>0. ASSUME refCount' = refCount, \A m \in Mutexes : Users(m)' = Users(m)
        PROVE  Counted'
    BY <1>0 DEF Counted
  <1>1. CASE UNCHANGED vars
    BY <1>1 DEF vars, Counted, Users
  <1>2. ASSUME NEW h \in Handlers, NEW o \in Orders, Call(h, o)
        PROVE  Counted'
    BY <1>0, <1>2 DEF Call, Users
  <1>3. ASSUME NEW h \in Handlers, TakeCreateLock(h)
        PROVE  Counted'
    BY <1>0, <1>3 DEF TakeCreateLock, Users
  <1>4. ASSUME NEW h \in Handlers, Load(h)
        PROVE  Counted'
    <2>1. CASE orderLocks[order[h]] # None
      <3>1. \A m \in Mutexes : Users(m)' = Users(m)
        BY <1>4, <2>1 DEF Load, Users, Referred
      <3> QED
        BY <1>0, <1>4, <2>1, <3>1 DEF Load
    <2>2. CASE orderLocks[order[h]] = None
      <3>1. PICK m \in Mutexes : /\ Fresh(m) /\ rcm' = [rcm EXCEPT ![h] = m]
                                 /\ refCount' = [refCount EXCEPT ![m] = 0]
        BY <1>4, <2>2 DEF Load
      <3>2. \A k \in Mutexes : Users(k)' = Users(k)
        BY <1>4, <3>1 DEF Load, Users, Referred
      <3>3. Users(m) = {}
        BY <3>1 DEF Fresh, Users
      <3>4. refCount[m] = 0
        BY <3>3, FS_EmptySet DEF Counted
      <3>5. refCount' = refCount
        BY <3>1, <3>4
      <3> QED
        BY <1>0, <3>2, <3>5
    <2> QED
      BY <2>1, <2>2
  <1>5. ASSUME NEW h \in Handlers, Count(h)
        PROVE  Counted'
    <2>1. PICK u \in Mutexes : u = rcm[h] /\ h \notin Users(u)
      BY <1>5 DEF Count, Users, Referred
    <2>2. Users(u)' = Users(u) \cup {h}
      BY <1>5, <2>1, OrderLockAssumption DEF Count, Users
    <2>3. \A m \in Mutexes \ {u} : Users(m)' = Users(m) /\ refCount'[m] = refCount[m]
      BY <1>5, <2>1, OrderLockAssumption DEF Count, Users
    <2>4. Cardinality(Users(u) \cup {h}) = Cardinality(Users(u)) + 1
      BY <2>1, UsersFinite, FS_AddElement
    <2>5. refCount'[u] = refCount[u] + 1
      BY <1>5, <2>1 DEF Count
    <2>6. ASSUME NEW m \in Mutexes PROVE refCount'[m] = Cardinality(Users(m)')
      <3>1. CASE m = u
        BY <2>2, <2>4, <2>5, <3>1 DEF Counted
      <3>2. CASE m # u
        BY <2>3, <3>2 DEF Counted
      <3> QED
        BY <3>1, <3>2
    <2> QED
      BY <2>6 DEF Counted
  <1>6. ASSUME NEW h \in Handlers, LockMu(h)
        PROVE  Counted'
    BY <1>0, <1>6 DEF LockMu, Users
  <1>7. ASSUME NEW h \in Handlers, CallUnlock(h)
        PROVE  Counted'
    BY <1>0, <1>7 DEF CallUnlock, Users
  <1>8. ASSUME NEW h \in Handlers, Lookup(h)
        PROVE  Counted'
    BY <1>0, <1>8 DEF Lookup, Users, Referred
  <1>9. ASSUME NEW h \in Handlers, UnlockMu(h)
        PROVE  Counted'
    BY <1>0, <1>9 DEF UnlockMu, Users
  <1>10. ASSUME NEW h \in Handlers, Uncount(h)
        PROVE  Counted'
    <2>1. PICK u \in Mutexes : u = rcm[h] /\ h \in Users(u)
      BY <1>10 DEF Uncount, Users, Referred
    <2>2. Users(u)' = Users(u) \ {h}
      BY <1>10, <2>1, OrderLockAssumption DEF Uncount, Users
    <2>3. \A m \in Mutexes \ {u} : Users(m)' = Users(m) /\ refCount'[m] = refCount[m]
      BY <1>10, <2>1, OrderLockAssumption DEF Uncount, Users
    <2>4. Cardinality(Users(u) \ {h}) = Cardinality(Users(u)) - 1
      BY <2>1, UsersFinite, FS_RemoveElement
    <2>5. refCount'[u] = refCount[u] - 1
      BY <1>10, <2>1 DEF Uncount
    <2>6. ASSUME NEW m \in Mutexes PROVE refCount'[m] = Cardinality(Users(m)')
      <3>1. CASE m = u
        BY <2>2, <2>4, <2>5, <3>1 DEF Counted
      <3>2. CASE m # u
        BY <2>3, <3>2 DEF Counted
      <3> QED
        BY <3>1, <3>2
    <2> QED
      BY <2>6 DEF Counted
  <1> QED
    BY <1>1, <1>2, <1>3, <1>4, <1>5, <1>6, <1>7, <1>8, <1>9, <1>10 DEF Next, Step

\* createLock is held between loading and counting, and while the count is lowered.
LEMMA CreateLockedStep ==
    ASSUME IInv, [Next]_vars
    PROVE  CreateLocked'
  <1> USE OrderLockAssumption DEF IInv, TypeOK, Positions, Waiting, Holding, Leaving, Goto, CreateLocked
  <1>1. CASE UNCHANGED vars
    BY <1>1 DEF vars
  <1>2. ASSUME NEW h \in Handlers, NEW o \in Orders, Call(h, o)
        PROVE  CreateLocked'
    BY <1>2 DEF Call
  <1>3. ASSUME NEW h \in Handlers, TakeCreateLock(h)
        PROVE  CreateLocked'
    BY <1>3 DEF TakeCreateLock
  <1>4. ASSUME NEW h \in Handlers, Load(h)
        PROVE  CreateLocked'
    BY <1>4 DEF Load
  <1>5. ASSUME NEW h \in Handlers, Count(h)
        PROVE  CreateLocked'
    BY <1>5 DEF Count
  <1>6. ASSUME NEW h \in Handlers, LockMu(h)
        PROVE  CreateLocked'
    BY <1>6 DEF LockMu
  <1>7. ASSUME NEW h \in Handlers, CallUnlock(h)
        PROVE  CreateLocked'
    BY <1>7 DEF CallUnlock
  <1>8. ASSUME NEW h \in Handlers, Lookup(h)
        PROVE  CreateLocked'
    BY <1>8 DEF Lookup
  <1>9. ASSUME NEW h \in Handlers, UnlockMu(h)
        PROVE  CreateLocked'
    BY <1>9 DEF UnlockMu
  <1>10. ASSUME NEW h \in Handlers, Uncount(h)
        PROVE  CreateLocked'
    BY <1>10 DEF Uncount
  <1> QED
    BY <1>1, <1>2, <1>3, <1>4, <1>5, <1>6, <1>7, <1>8, <1>9, <1>10 DEF Next, Step

\* An entry stays in the map while somebody uses its mutex.
LEMMA ReferredStep ==
    ASSUME IInv, [Next]_vars
    PROVE  Referred'
  <1> USE OrderLockAssumption DEF IInv, TypeOK, Positions, Waiting, Holding, Leaving, Goto, Referred
  <1>1. CASE UNCHANGED vars
    BY <1>1 DEF vars
  <1>2. ASSUME NEW h \in Handlers, NEW o \in Orders, Call(h, o)
        PROVE  Referred'
    BY <1>2 DEF Call
  <1>3. ASSUME NEW h \in Handlers, TakeCreateLock(h)
        PROVE  Referred'
    BY <1>3 DEF TakeCreateLock
  <1>4. ASSUME NEW h \in Handlers, Load(h)
        PROVE  Referred'
    BY <1>4 DEF Load, CreateLocked
  <1>5. ASSUME NEW h \in Handlers, Count(h)
        PROVE  Referred'
    BY <1>5 DEF Count
  <1>6. ASSUME NEW h \in Handlers, LockMu(h)
        PROVE  Referred'
    BY <1>6 DEF LockMu
  <1>7. ASSUME NEW h \in Handlers, CallUnlock(h)
        PROVE  Referred'
    BY <1>7 DEF CallUnlock
  <1>8. ASSUME NEW h \in Handlers, Lookup(h)
        PROVE  Referred'
    BY <1>8 DEF Lookup
  <1>9. ASSUME NEW h \in Handlers, UnlockMu(h)
        PROVE  Referred'
    BY <1>9 DEF UnlockMu
  <1>10. ASSUME NEW h \in Handlers, Uncount(h)
        PROVE  Referred'
    <2>1. PICK u \in Mutexes : u = rcm[h] /\ h \in Users(u) /\ orderLocks[order[h]] = u
      BY <1>10 DEF Uncount, Users
    <2>2. refCount[u] = 1 => Users(u) \ {h} = {}
      BY <2>1, LastUser
    <2>3. ASSUME NEW g \in Handlers, g # h,
                 pc[g] \in Holding \cup Leaving \cup {"mu", "count"},
                 orderLocks'[order[g]] # orderLocks[order[g]]
          PROVE  FALSE
      <3>1. refCount[u] = 1 /\ order[g] = order[h]
        BY <1>10, <2>1, <2>3 DEF Uncount
      <3>2. g \in Users(u) \ {h}
        BY <1>10, <2>1, <2>3, <3>1 DEF Uncount, CreateLocked, Users
      <3> QED
        BY <2>2, <3>1, <3>2
    <2> QED
      BY <1>10, <2>3 DEF Uncount
  <1> QED
    BY <1>1, <1>2, <1>3, <1>4, <1>5, <1>6, <1>7, <1>8, <1>9, <1>10 DEF Next, Step

\* A new mutex belongs to one order.
LEMMA SeparateStep ==
    ASSUME IInv, [Next]_vars
    PROVE  Separate'
  <1> USE OrderLockAssumption DEF IInv, TypeOK, Positions, Waiting, Holding, Leaving, Goto, Separate
  <1>1. CASE UNCHANGED vars
    BY <1>1 DEF vars
  <1>2. ASSUME NEW h \in Handlers, NEW o \in Orders, Call(h, o)
        PROVE  Separate'
    BY <1>2 DEF Call
  <1>3. ASSUME NEW h \in Handlers, TakeCreateLock(h)
        PROVE  Separate'
    BY <1>3 DEF TakeCreateLock
  <1>4. ASSUME NEW h \in Handlers, Load(h)
        PROVE  Separate'
    BY <1>4 DEF Load, Fresh
  <1>5. ASSUME NEW h \in Handlers, Count(h)
        PROVE  Separate'
    BY <1>5 DEF Count
  <1>6. ASSUME NEW h \in Handlers, LockMu(h)
        PROVE  Separate'
    BY <1>6 DEF LockMu
  <1>7. ASSUME NEW h \in Handlers, CallUnlock(h)
        PROVE  Separate'
    BY <1>7 DEF CallUnlock
  <1>8. ASSUME NEW h \in Handlers, Lookup(h)
        PROVE  Separate'
    BY <1>8 DEF Lookup
  <1>9. ASSUME NEW h \in Handlers, UnlockMu(h)
        PROVE  Separate'
    BY <1>9 DEF UnlockMu
  <1>10. ASSUME NEW h \in Handlers, Uncount(h)
        PROVE  Separate'
    BY <1>10 DEF Uncount
  <1> QED
    BY <1>1, <1>2, <1>3, <1>4, <1>5, <1>6, <1>7, <1>8, <1>9, <1>10 DEF Next, Step

\* Who holds a mutex is inside.
LEMMA MuHeldStep ==
    ASSUME IInv, [Next]_vars
    PROVE  MuHeld'
  <1> USE OrderLockAssumption DEF IInv, TypeOK, Positions, Waiting, Holding, Leaving, Goto, MuHeld
  <1>1. CASE UNCHANGED vars
    BY <1>1 DEF vars
  <1>2. ASSUME NEW h \in Handlers, NEW o \in Orders, Call(h, o)
        PROVE  MuHeld'
    BY <1>2 DEF Call
  <1>3. ASSUME NEW h \in Handlers, TakeCreateLock(h)
        PROVE  MuHeld'
    BY <1>3 DEF TakeCreateLock, Referred, Separate
  <1>4. ASSUME NEW h \in Handlers, Load(h)
        PROVE  MuHeld'
    BY <1>4 DEF Load, Referred, Fresh
  <1>5. ASSUME NEW h \in Handlers, Count(h)
        PROVE  MuHeld'
    BY <1>5 DEF Count, Referred, Separate
  <1>6. ASSUME NEW h \in Handlers, LockMu(h)
        PROVE  MuHeld'
    BY <1>6 DEF LockMu, Referred, Separate
  <1>7. ASSUME NEW h \in Handlers, CallUnlock(h)
        PROVE  MuHeld'
    BY <1>7 DEF CallUnlock, Referred, Separate
  <1>8. ASSUME NEW h \in Handlers, Lookup(h)
        PROVE  MuHeld'
    BY <1>8 DEF Lookup, Referred, Separate
  <1>9. ASSUME NEW h \in Handlers, UnlockMu(h)
        PROVE  MuHeld'
    BY <1>9 DEF UnlockMu, Referred, Separate
  <1>10. ASSUME NEW h \in Handlers, Uncount(h)
        PROVE  MuHeld'
    BY <1>10 DEF Uncount, Referred, Separate
  <1> QED
    BY <1>1, <1>2, <1>3, <1>4, <1>5, <1>6, <1>7, <1>8, <1>9, <1>10 DEF Next, Step

\* The last user removes the entry.
LEMMA UsedStep ==
    ASSUME IInv, [Next]_vars
    PROVE  Used'
  <1> USE OrderLockAssumption DEF IInv, TypeOK, Positions, Waiting, Holding, Leaving, Goto, Used
  <1>1. CASE UNCHANGED vars
    BY <1>1 DEF vars
  <1>2. ASSUME NEW h \in Handlers, NEW o \in Orders, Call(h, o)
        PROVE  Used'
    BY <1>2 DEF Call, Referred
  <1>3. ASSUME NEW h \in Handlers, TakeCreateLock(h)
        PROVE  Used'
    BY <1>3 DEF TakeCreateLock, Referred
  <1>4. ASSUME NEW h \in Handlers, Load(h)
        PROVE  Used'
    BY <1>4 DEF Load, Referred
  <1>5. ASSUME NEW h \in Handlers, Count(h)
        PROVE  Used'
    BY <1>5 DEF Count
  <1>6. ASSUME NEW h \in Handlers, LockMu(h)
        PROVE  Used'
    BY <1>6 DEF LockMu
  <1>7. ASSUME NEW h \in Handlers, CallUnlock(h)
        PROVE  Used'
    BY <1>7 DEF CallUnlock
  <1>8. ASSUME NEW h \in Handlers, Lookup(h)
        PROVE  Used'
    BY <1>8 DEF Lookup, Referred
  <1>9. ASSUME NEW h \in Handlers, UnlockMu(h)
        PROVE  Used'
    BY <1>9 DEF UnlockMu
  <1>10. ASSUME NEW h \in Handlers, Uncount(h)
        PROVE  Used'
    <2>1. PICK u \in Mutexes : u = rcm[h] /\ h \in Users(u) /\ orderLocks[order[h]] = u
      BY <1>10 DEF Uncount, Users, Referred
    <2>2. refCount[u] # 1 => \E g \in Users(u) : g # h
      BY <2>1, LastUser
    <2>3. SUFFICES ASSUME NEW o \in Orders, orderLocks'[o] # None
                   PROVE  \E g \in Handlers : /\ g # h /\ rcm[g] = orderLocks[o]
                             /\ pc[g] \in Holding \cup Leaving \cup {"mu", "count"}
      BY <1>10 DEF Uncount
    <2>4. CASE o = order[h]
      <3>1. refCount[u] # 1
        BY <1>10, <2>1, <2>3, <2>4 DEF Uncount
      <3> QED
        BY <2>1, <2>2, <2>4, <3>1 DEF Users
    <2>5. CASE o # order[h]
      <3>1. orderLocks[o] # None
        BY <1>10, <2>3, <2>5 DEF Uncount
      <3>2. orderLocks[o] # u
        BY <2>1, <2>5, <3>1 DEF Separate
      <3> QED
        BY <2>1, <3>1, <3>2
    <2> QED
      BY <2>4, <2>5
  <1> QED
    BY <1>1, <1>2, <1>3, <1>4, <1>5, <1>6, <1>7, <1>8, <1>9, <1>10 DEF Next, Step

---------------------------------------------------------------------------
LEMMA InitIInv == Init => IInv
  <1> SUFFICES ASSUME Init PROVE IInv
    OBVIOUS
  <1> USE OrderLockAssumption DEF Init, Positions, Waiting, Holding, Leaving
  <1>1. TypeOK /\ CreateLocked /\ Referred /\ Separate /\ MuHeld /\ Used
    BY DEF TypeOK, CreateLocked, Referred, Separate, MuHeld, Used
  <1>2. \A m \in Mutexes : Users(m) = {}
    BY DEF Users
  <1>3. Counted
    BY <1>2, FS_EmptySet DEF Counted
  <1> QED
    BY <1>1, <1>3 DEF IInv

LEMMA NextIInv == IInv /\ [Next]_vars => IInv'
  <1> SUFFICES ASSUME IInv, [Next]_vars PROVE IInv'
    OBVIOUS
  <1>1. TypeOK'
    BY TypeStep DEF IInv
  <1> QED
    BY <1>1, CountedStep, CreateLockedStep, ReferredStep, SeparateStep, MuHeldStep, UsedStep
    DEF IInv

\* The bookkeeping of LockOrder and UnlockOrder is consistent in every reachable state.
THEOREM Invariance == Spec => []IInv
  BY InitIInv, NextIInv, PTL DEF Spec

\* The variables keep their types; in particular refCount is never negative.
THEOREM TypeCorrect == Spec => []TypeOK
  <1>1. IInv => TypeOK
    BY DEF IInv
  <1> QED
    BY <1>1, Invariance, PTL

\* The users of an order have one mutex, and UnlockOrder finds it, locked.
THEOREM OneMutexHolds == Spec => []OneMutex
  <1>1. IInv => OneMutex
    BY DEF IInv, TypeOK, Referred, MuHeld, OneMutex, Holding, Leaving
  <1> QED
    BY <1>1, Invariance, PTL

\* An order without users has no entry in the map.
THEOREM NoLeakHolds == Spec => []NoLeak
  <1>1. IInv => NoLeak
    <2> SUFFICES ASSUME IInv, NEW o \in Orders, orderLocks[o] # None
                 PROVE  \E h \in Handlers : order[h] = o /\ pc[h] # "out"
      BY DEF NoLeak
    <2>1. PICK h \in Handlers : /\ rcm[h] = orderLocks[o]
                                /\ pc[h] \in Holding \cup Leaving \cup {"mu", "count"}
      BY DEF IInv, Used
    <2>2. orderLocks[order[h]] = orderLocks[o]
      BY <2>1 DEF IInv, Referred
    <2>3. order[h] = o
      BY <2>2 DEF IInv, TypeOK, Separate
    <2> QED
      BY <2>1, <2>3 DEF Holding, Leaving
  <1> QED
    BY <1>1, Invariance, PTL

\* A mutex in the map that is not held lets its waiting handlers in alone: LockOrder and
\* UnlockOrder implement one mutex for each order.
THEOREM Refinement == Spec => IsOrderMutex
  <1> USE DEF Waiting, Holding, Leaving, Positions, PhaseOf
  <1>1. Init => M!MInit
    BY DEF Init, M!MInit
  <1>2. IInv /\ [Next]_vars => [M!MNext]_(M!mvars)
    <2> SUFFICES ASSUME IInv, [Next]_vars PROVE [M!MNext]_(M!mvars)
      OBVIOUS
    <2> USE DEF IInv, TypeOK, Goto, M!mvars
    <2>1. CASE UNCHANGED vars
      BY <2>1 DEF vars
    <2>2. ASSUME NEW h \in Handlers, NEW o \in Orders, Call(h, o)
          PROVE  M!MNext
      <3>1. M!Ask(h, o)
        BY <2>2 DEF Call, M!Ask
      <3> QED
        BY <3>1 DEF M!MNext
    <2>3. ASSUME NEW h \in Handlers, LockMu(h)
          PROVE  M!MNext
      <3>1. \A g \in Handlers : ~(pc[g] \in Holding /\ order[g] = order[h])
        BY <2>3, OrderLockAssumption DEF LockMu, Referred, MuHeld
      <3>2. M!Enter(h)
        BY <2>3, <3>1 DEF LockMu, M!Enter
      <3> QED
        BY <3>2 DEF M!MNext
    <2>4. ASSUME NEW h \in Handlers, UnlockMu(h)
          PROVE  M!MNext
      <3>1. M!Leave(h)
        BY <2>4 DEF UnlockMu, M!Leave
      <3> QED
        BY <3>1 DEF M!MNext
    <2>5. ASSUME NEW h \in Handlers,
                 \/ TakeCreateLock(h) \/ Load(h) \/ Count(h) \/ CallUnlock(h) \/ Lookup(h)
                 \/ Uncount(h)
          PROVE  UNCHANGED M!mvars
      BY <2>5 DEF TakeCreateLock, Load, Count, CallUnlock, Lookup, Uncount, Referred
    <2> QED
      BY <2>1, <2>2, <2>3, <2>4, <2>5 DEF Next, Step
  <1> QED
    BY <1>1, <1>2, Invariance, PTL DEF Spec, IsOrderMutex, M!MSpec
============================================================================
