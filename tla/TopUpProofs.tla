---------------------------- MODULE TopUpProofs ----------------------------
(***************************************************************************)
(* Proofs about TopUp on one node, for any number of orders, calls, faults *)
(* and crashes, where every notification is handled under the order's      *)
(* mutex: that is all providers except Waffo, whose failed payments are    *)
(* not, and redemption codes.                                              *)
(***************************************************************************)
EXTENDS TopUp, TLAPS

\* The instance the mutex of one process is enough for.
OneNode == \A m, n \in Nodes : m = n
LockedKinds == \A k \in Kinds : k.provider \notin {"waffo", "code"}

\* The order's kind is fixed when it is created.
KindsKept == \A o \in Orders : order[o].kind \in Kinds

\* Which calls an order can have: the automatic approval is for PromptPay, and transfers have
\* no gateway that notifies.
EventsFit ==
    \A c \in Calls : call[c] # Idle =>
        /\ call[c].event = "auto" => Provider(call[c].order) = "promptpay"
        /\ call[c].event \in {"pay", "fail", "expire"} => Provider(call[c].order) \notin Manual
        /\ call[c].at \in {"commit", "credit"} => call[c].event \in {"pay", "fail", "expire"}
        /\ call[c].at = "check" => call[c].event = "auto"

Locked(c) == call[c].at \in Working /\ call[c].event # "auto"

\* Two calls that work on an order under its mutex are one.
OneWorker ==
    \A c, d \in Calls : Locked(c) /\ Locked(d) /\ call[c].order = call[d].order => c = d

\* What a call has read is still so when it writes.
StillPending ==
    \A c \in Calls :
        /\ call[c].at = "commit" => order[call[c].order].status = "pending"
        /\ call[c].at = "credit" => /\ order[call[c].order].status = "success"
                                    /\ credit[call[c].order] = 0

Granted == CreditedOnce /\ ShownAsGranted

\* What holds on any number of nodes, whatever takes the mutex; and on one node.
TInv == TypeOK /\ KindsKept /\ EventsFit
IInv == TypeOK /\ KindsKept /\ EventsFit /\ OneWorker /\ StillPending /\ Granted

---------------------------------------------------------------------------
\* Finish and Goto change one call.
LEMMA CallSteps ==
    ASSUME TypeOK, NEW c \in Calls, call[c] # Idle, NEW at \in {"read", "commit", "credit"},
           NEW ok
    PROVE  /\ Goto(c, at) => call' \in [Calls -> Call \cup {Idle}]
           /\ Finish(c, ok) => /\ call' \in [Calls -> Call \cup {Idle}]
                               /\ acked' \in [Orders -> BOOLEAN]
  <1>1. call[c] \in Call
    BY DEF TypeOK
  <1>2. [call[c] EXCEPT !.at = at] \in Call
    BY <1>1 DEF Call
  <1>3. Goto(c, at) => call' \in [Calls -> Call \cup {Idle}]
    BY <1>2 DEF Goto, TypeOK
  <1>4. Finish(c, ok) => call' \in [Calls -> Call \cup {Idle}] /\ acked' \in [Orders -> BOOLEAN]
    BY DEF Finish, TypeOK
  <1> QED
    BY <1>3, <1>4

LEMMA FaultType ==
    ASSUME TypeOK, Fault \/ UNCHANGED faults
    PROVE  faults' \in 0..MaxFaults
  BY TopUpAssumption DEF TypeOK, Fault

\* SetStatus changes one row.
LEMMA OrderType ==
    ASSUME TypeOK, NEW o \in Orders, NEW st \in {"pending", "success", "failed", "expired"},
           SetStatus(o, st) \/ UNCHANGED order
    PROVE  order' \in [Orders -> [status: {"none", "pending", "success", "failed", "expired"},
                                  kind: AllKinds, slip: Slips]]
  <1>1. [order[o] EXCEPT !.status = st] \in
          [status: {"none", "pending", "success", "failed", "expired"}, kind: AllKinds,
           slip: Slips]
    BY DEF TypeOK
  <1> QED
    BY <1>1 DEF TypeOK, SetStatus

\* The variables keep their types.
LEMMA TypeStep ==
    ASSUME TypeOK, EventsFit, [Next]_vars
    PROVE  TypeOK'
  <1> USE TopUpAssumption
  <1>1. CASE UNCHANGED vars
    BY <1>1 DEF vars, TypeOK, Idle, Call, Goto, Finish, SetStatus, Fault, Events
  <1>2. ASSUME NEW o \in Orders, Create(o)
        PROVE  TypeOK'
    BY <1>2 DEF Create, TypeOK, Idle, Call, Goto, Finish, SetStatus, Fault, Events
  <1>3. ASSUME NEW o \in Orders, PaymentEnds(o)
        PROVE  TypeOK'
    BY <1>3 DEF PaymentEnds, TypeOK, Idle, Call, Goto, Finish, SetStatus, Fault, Events
  <1>4. ASSUME NEW c \in Calls, NEW o \in Orders, Notify(c, o)
        PROVE  TypeOK'
    BY <1>4 DEF Notify, Start, TypeOK, Idle, Call, Goto, Finish, SetStatus, Fault, Events
  <1>5. ASSUME NEW c \in Calls, NEW o \in Orders, Decide(c, o)
        PROVE  TypeOK'
    BY <1>5 DEF Decide, Start, TypeOK, Idle, Call, Goto, Finish, SetStatus, Fault, Events
  <1>6. ASSUME NEW c \in Calls, NEW o \in Orders, StartAuto(c, o)
        PROVE  TypeOK'
    BY <1>6 DEF StartAuto, Start, TypeOK, Idle, Call, Goto, Finish, SetStatus, Fault, Events
  <1>7. ASSUME NEW c \in Calls, LockOrder(c)
        PROVE  TypeOK'
    <2>1. call[c] # Idle
      BY <1>7 DEF LockOrder, Idle
    <2>2. call' \in [Calls -> Call \cup {Idle}]
      BY <1>7, <2>1, CallSteps DEF LockOrder
    <2> QED
      BY <1>7, <2>2 DEF LockOrder, TypeOK
  <1>8. ASSUME NEW c \in Calls, Read(c)
        PROVE  TypeOK'
    <2>1. call[c] # Idle /\ call[c].order \in Orders
      BY <1>8 DEF Read, TypeOK, Idle, Call
    <2>2. faults' \in 0..MaxFaults
      BY <1>8, FaultType DEF Read
    <2>3. /\ call' \in [Calls -> Call \cup {Idle}]
          /\ acked' \in [Orders -> BOOLEAN]
      BY <1>8, <2>1, CallSteps DEF Read, TypeOK
    <2> QED
      BY <1>8, <2>2, <2>3 DEF Read, TypeOK
  <1>9. ASSUME NEW c \in Calls, Commit(c)
        PROVE  TypeOK'
    <2>1. call[c] # Idle /\ call[c].order \in Orders
      BY <1>9 DEF Commit, TypeOK, Idle, Call
    <2>2. faults' \in 0..MaxFaults
      BY <1>9, FaultType DEF Commit
    <2>3. /\ call' \in [Calls -> Call \cup {Idle}]
          /\ acked' \in [Orders -> BOOLEAN]
      BY <1>9, <2>1, CallSteps DEF Commit, TypeOK
    <2>4. call[c].event \in {"pay", "fail", "expire"}
      BY <1>9, <2>1 DEF Commit, EventsFit
    <2>5. [pay |-> "success", fail |-> "failed", expire |-> "expired"][call[c].event]
            \in {"success", "failed", "expired"}
      BY <2>4
    <2>6. order' \in [Orders -> [status: {"none", "pending", "success", "failed", "expired"},
                                   kind: AllKinds, slip: Slips]]
      BY <1>9, <2>1, <2>5, OrderType DEF Commit
    <2>7. credit' \in [Orders -> Nat]
      <3>1. CASE call[c].event = "pay" /\ InTransaction(call[c])
        <4>1. UNCHANGED credit \/ credit' = [credit EXCEPT ![call[c].order] = credit[call[c].order] + 1]
          BY <1>9, <3>1 DEF Commit
        <4> QED
          BY <2>1, <4>1 DEF TypeOK
      <3>2. CASE ~(call[c].event = "pay" /\ InTransaction(call[c]))
        <4>1. UNCHANGED credit \/ credit' = [credit EXCEPT ![call[c].order] = credit[call[c].order] + 0]
          BY <1>9, <3>2 DEF Commit
        <4> QED
          BY <2>1, <4>1 DEF TypeOK
      <3> QED
        BY <3>1, <3>2
    <2> QED
      BY <1>9, <2>2, <2>3, <2>6, <2>7 DEF Commit, TypeOK
  <1>10. ASSUME NEW c \in Calls, Credit(c)
        PROVE  TypeOK'
    BY <1>10 DEF Credit, TypeOK, Idle, Call, Goto, Finish, SetStatus, Fault, Events
  <1>11. ASSUME NEW c \in Calls, Complete(c)
        PROVE  TypeOK'
    <2>1. call[c] # Idle /\ call[c].order \in Orders
      BY <1>11 DEF Complete, TypeOK, Idle, Call
    <2>2. faults' \in 0..MaxFaults
      BY <1>11, FaultType DEF Complete
    <2>3. /\ call' \in [Calls -> Call \cup {Idle}]
          /\ acked' \in [Orders -> BOOLEAN]
      BY <1>11, <2>1, CallSteps DEF Complete, TypeOK
    <2>4. order' \in [Orders -> [status: {"none", "pending", "success", "failed", "expired"},
                                   kind: AllKinds, slip: Slips]]
      BY <1>11, <2>1, OrderType DEF Complete
    <2>5. credit' \in [Orders -> Nat] /\ audit' \in [Orders -> Slips \cup {"manual", "none"}]
      BY <1>11, <2>1 DEF Complete, TypeOK
    <2> QED
      BY <1>11, <2>2, <2>3, <2>4, <2>5 DEF Complete, TypeOK
  <1>12. ASSUME NEW c \in Calls, Reject(c)
        PROVE  TypeOK'
    <2>1. call[c] # Idle /\ call[c].order \in Orders
      BY <1>12 DEF Reject, TypeOK, Idle, Call
    <2>2. faults' \in 0..MaxFaults
      BY <1>12, FaultType DEF Reject
    <2>3. /\ call' \in [Calls -> Call \cup {Idle}]
          /\ acked' \in [Orders -> BOOLEAN]
      BY <1>12, <2>1, CallSteps DEF Reject, TypeOK
    <2>4. order' \in [Orders -> [status: {"none", "pending", "success", "failed", "expired"},
                                   kind: AllKinds, slip: Slips]]
      BY <1>12, <2>1, OrderType DEF Reject
    <2> QED
      BY <1>12, <2>2, <2>3, <2>4 DEF Reject, TypeOK
  <1>13. ASSUME NEW c \in Calls, CheckAuto(c)
        PROVE  TypeOK'
    <2>1. call[c] # Idle /\ call[c].order \in Orders
      BY <1>13 DEF CheckAuto, TypeOK, Idle, Call
    <2>3. /\ call' \in [Calls -> Call \cup {Idle}]
          /\ acked' \in [Orders -> BOOLEAN]
      BY <1>13, <2>1, CallSteps DEF CheckAuto, TypeOK
    <2> QED
      BY <1>13, <2>3 DEF CheckAuto, TypeOK
  <1>14. ASSUME SwitchAuto
        PROVE  TypeOK'
    BY <1>14 DEF SwitchAuto, TypeOK, Idle, Call, Goto, Finish, SetStatus, Fault, Events
  <1>15. ASSUME NEW n \in Nodes, Crash(n)
        PROVE  TypeOK'
    BY <1>15 DEF Crash, TypeOK, Idle, Call, Goto, Finish, SetStatus, Fault, Events
  <1>16. ASSUME NEW c \in Calls, LookupFails(c)
        PROVE  TypeOK'
    <2>1. call[c] # Idle /\ call[c].order \in Orders
      BY <1>16 DEF LookupFails, TypeOK, Idle, Call
    <2>2. faults' \in 0..MaxFaults
      BY <1>16, FaultType DEF LookupFails
    <2>3. /\ call' \in [Calls -> Call \cup {Idle}]
          /\ acked' \in [Orders -> BOOLEAN]
      BY <1>16, <2>1, CallSteps DEF LookupFails, TypeOK
    <2> QED
      BY <1>16, <2>2, <2>3 DEF LookupFails, TypeOK
  <1> QED
    BY <1>1, <1>2, <1>3, <1>4, <1>5, <1>6, <1>7, <1>8, <1>9, <1>10, <1>11, <1>12, <1>13, <1>14,
       <1>15, <1>16 DEF Next, Handle

\* In this instance every call but the automatic approval takes the mutex.
LEMMA MutexTaken ==
    ASSUME LockedKinds, TypeOK, KindsKept, NEW c \in Calls, call[c] # Idle
    PROVE  TakesMutex(call[c]) <=> call[c].event # "auto"
  <1>1. call[c].order \in Orders
    BY DEF TypeOK, Call
  <1> QED
    BY <1>1 DEF TakesMutex, LockedKinds, KindsKept, Provider

\* A row keeps its kind.
LEMMA KindsStep ==
    ASSUME TypeOK, KindsKept, [Next]_vars
    PROVE  \A o \in Orders : order'[o].kind = order[o].kind
  <1> DEFINE Same == \A o \in Orders : order'[o].kind = order[o].kind
  <1>1. ASSUME NEW o \in Orders, NEW st, SetStatus(o, st) PROVE Same
    BY <1>1 DEF SetStatus, TypeOK
  <1>2. ASSUME UNCHANGED order PROVE Same
    BY <1>2
  <1>3. ASSUME NEW c \in Calls, call[c].at # "idle" PROVE call[c].order \in Orders
    BY <1>3 DEF TypeOK, Idle, Call
  <1>4. ASSUME NEW c \in Calls, LockOrder(c) \/ LookupFails(c) \/ Handle(c) PROVE Same
    <2>1. call[c].order \in Orders
      BY <1>3, <1>4 DEF LockOrder, LookupFails, Handle, Read, Commit, Credit, Complete, Reject, CheckAuto
    <2>2. (\E st : SetStatus(call[c].order, st)) \/ UNCHANGED order
      BY <1>4 DEF LockOrder, LookupFails, Handle, Read, Commit, Credit, Complete, Reject, CheckAuto
    <2> QED
      BY <1>1, <1>2, <2>1, <2>2
  <1>5. ASSUME NEW o \in Orders, Create(o) PROVE Same
    BY <1>1, <1>5 DEF Create
  <1>6. CASE UNCHANGED order
    BY <1>2, <1>6
  <1> QED
    BY <1>4, <1>5, <1>6
    DEF Next, vars, PaymentEnds, Notify, Decide, StartAuto, SwitchAuto, Crash

\* Goto and Finish leave the other calls alone, and Goto what the call is about.
LEMMA GotoCall ==
    ASSUME TypeOK, NEW c \in Calls, call[c] # Idle, NEW at, Goto(c, at)
    PROVE  /\ \A d \in Calls \ {c} : call'[d] = call[d]
           /\ call'[c].at = at /\ call'[c].order = call[c].order
           /\ call'[c].event = call[c].event
  BY DEF TypeOK, Goto, Call

LEMMA FinishCall ==
    ASSUME TypeOK, NEW c \in Calls, NEW ok, Finish(c, ok)
    PROVE  (\A d \in Calls \ {c} : call'[d] = call[d]) /\ call'[c] = Idle
  BY DEF TypeOK, Finish

LEMMA KindsKeptStep ==
    ASSUME TypeOK, KindsKept, [Next]_vars
    PROVE  KindsKept'
  BY KindsStep DEF KindsKept

\* Calls keep their event, and reach their positions with the events these are for.
LEMMA EventsStep ==
    ASSUME TInv, [Next]_vars
    PROVE  EventsFit'
  <1>0. \A o \in Orders : order'[o].kind = order[o].kind
    BY KindsStep DEF TInv
  <1>00. \A d \in Calls : call[d] # Idle => call[d] \in Call /\ call[d].order \in Orders
    BY DEF TInv, TypeOK, Call
  <1> USE <1>0, <1>00
  <1>1. CASE UNCHANGED vars
    BY <1>1 DEF vars, EventsFit, TInv, TypeOK, Idle, Goto, Finish, Provider, Manual
  <1>2. ASSUME NEW o \in Orders, Create(o)
        PROVE  EventsFit'
    BY <1>2 DEF Create, EventsFit, TInv, TypeOK, Idle, Goto, Finish, Provider, Manual
  <1>3. ASSUME NEW o \in Orders, PaymentEnds(o)
        PROVE  EventsFit'
    BY <1>3 DEF PaymentEnds, EventsFit, TInv, TypeOK, Idle, Goto, Finish, Provider, Manual
  <1>4. ASSUME NEW c \in Calls, NEW o \in Orders, Notify(c, o)
        PROVE  EventsFit'
    BY <1>4 DEF Notify, Start, EventsFit, TInv, TypeOK, Idle, Goto, Finish, Provider, Manual
  <1>5. ASSUME NEW c \in Calls, NEW o \in Orders, Decide(c, o)
        PROVE  EventsFit'
    BY <1>5 DEF Decide, Start, EventsFit, TInv, TypeOK, Idle, Goto, Finish, Provider, Manual
  <1>6. ASSUME NEW c \in Calls, NEW o \in Orders, StartAuto(c, o)
        PROVE  EventsFit'
    BY <1>6 DEF StartAuto, Start, EventsFit, TInv, TypeOK, Idle, Goto, Finish, Provider, Manual
  <1>7. ASSUME NEW c \in Calls, LockOrder(c)
        PROVE  EventsFit'
    BY <1>7 DEF LockOrder, EventsFit, TInv, TypeOK, Idle, Goto, Finish, Provider, Manual
  <1>8. ASSUME NEW c \in Calls, Read(c)
        PROVE  EventsFit'
    <2>1. call[c] # Idle
      BY <1>8 DEF Read, Idle
    <2>2. Goto(c, "commit") \/ \E ok : Finish(c, ok)
      BY <1>8 DEF Read
    <2>3. CASE Goto(c, "commit")
      BY <1>8, <2>1, <2>3, GotoCall DEF Read, EventsFit, TInv, Notified, Provider
    <2>4. CASE \E ok : Finish(c, ok)
      BY <2>4, FinishCall DEF EventsFit, TInv, Notified, Provider
    <2> QED
      BY <2>2, <2>3, <2>4
  <1>9. ASSUME NEW c \in Calls, Commit(c)
        PROVE  EventsFit'
    <2>1. call[c] # Idle
      BY <1>9 DEF Commit, Idle
    <2>2. Goto(c, "credit") \/ \E ok : Finish(c, ok)
      BY <1>9 DEF Commit
    <2>3. CASE Goto(c, "credit")
      BY <1>9, <2>1, <2>3, GotoCall DEF Commit, EventsFit, TInv, Notified, Provider
    <2>4. CASE \E ok : Finish(c, ok)
      BY <2>4, FinishCall DEF EventsFit, TInv, Notified, Provider
    <2> QED
      BY <2>2, <2>3, <2>4
  <1>10. ASSUME NEW c \in Calls, Credit(c)
        PROVE  EventsFit'
    BY <1>10 DEF Credit, EventsFit, TInv, TypeOK, Idle, Goto, Finish, Provider, Manual
  <1>11. ASSUME NEW c \in Calls, Complete(c)
        PROVE  EventsFit'
    BY <1>11 DEF Complete, EventsFit, TInv, TypeOK, Idle, Goto, Finish, Provider, Manual
  <1>12. ASSUME NEW c \in Calls, Reject(c)
        PROVE  EventsFit'
    BY <1>12 DEF Reject, EventsFit, TInv, TypeOK, Idle, Goto, Finish, Provider, Manual
  <1>13. ASSUME NEW c \in Calls, CheckAuto(c)
        PROVE  EventsFit'
    <2>1. call[c] # Idle
      BY <1>13 DEF CheckAuto, Idle
    <2>2. Goto(c, "read") \/ \E ok : Finish(c, ok)
      BY <1>13 DEF CheckAuto
    <2>3. CASE Goto(c, "read")
      BY <1>13, <2>1, <2>3, GotoCall DEF CheckAuto, EventsFit, TInv, Notified, Provider
    <2>4. CASE \E ok : Finish(c, ok)
      BY <2>4, FinishCall DEF EventsFit, TInv, Notified, Provider
    <2> QED
      BY <2>2, <2>3, <2>4
  <1>14. ASSUME SwitchAuto
        PROVE  EventsFit'
    BY <1>14 DEF SwitchAuto, EventsFit, TInv, TypeOK, Idle, Goto, Finish, Provider, Manual
  <1>15. ASSUME NEW n \in Nodes, Crash(n)
        PROVE  EventsFit'
    BY <1>15 DEF Crash, EventsFit, TInv, TypeOK, Idle, Goto, Finish, Provider, Manual
  <1>16. ASSUME NEW c \in Calls, LookupFails(c)
        PROVE  EventsFit'
    BY <1>16, FinishCall DEF LookupFails, EventsFit, TInv, Notified, Provider
  <1> QED
    BY <1>1, <1>2, <1>3, <1>4, <1>5, <1>6, <1>7, <1>8, <1>9, <1>10, <1>11, <1>12, <1>13, <1>14,
       <1>15, <1>16 DEF Next, Handle

\* LockOrder lets one call in.
LEMMA OneWorkerStep ==
    ASSUME OneNode, LockedKinds, IInv, [Next]_vars
    PROVE  OneWorker'
  <1>0. \A o \in Orders : order'[o].kind = order[o].kind
    BY KindsStep DEF IInv
  <1>00. \A d \in Calls : call[d] # Idle => call[d] \in Call /\ call[d].order \in Orders
    BY DEF IInv, TypeOK, Call
  <1> USE <1>00
  <1>1. CASE UNCHANGED vars
    BY <1>1 DEF vars, OneWorker, IInv, TypeOK, Idle, Goto, Finish, Locked, Working
  <1>2. ASSUME NEW o \in Orders, Create(o)
        PROVE  OneWorker'
    BY <1>2 DEF Create, OneWorker, IInv, TypeOK, Idle, Goto, Finish, Locked, Working
  <1>3. ASSUME NEW o \in Orders, PaymentEnds(o)
        PROVE  OneWorker'
    BY <1>3 DEF PaymentEnds, OneWorker, IInv, TypeOK, Idle, Goto, Finish, Locked, Working
  <1>4. ASSUME NEW c \in Calls, NEW o \in Orders, Notify(c, o)
        PROVE  OneWorker'
    BY <1>4 DEF Notify, Start, OneWorker, IInv, TypeOK, Idle, Goto, Finish, Locked, Working
  <1>5. ASSUME NEW c \in Calls, NEW o \in Orders, Decide(c, o)
        PROVE  OneWorker'
    BY <1>5 DEF Decide, Start, OneWorker, IInv, TypeOK, Idle, Goto, Finish, Locked, Working
  <1>6. ASSUME NEW c \in Calls, NEW o \in Orders, StartAuto(c, o)
        PROVE  OneWorker'
    BY <1>6 DEF StartAuto, Start, OneWorker, IInv, TypeOK, Idle, Goto, Finish, Locked, Working
  <1>7. ASSUME NEW c \in Calls, LockOrder(c)
        PROVE  OneWorker'
    <2>1. call[c] # Idle
      BY <1>7 DEF LockOrder, Idle
    <2>2. /\ \A d \in Calls \ {c} : call'[d] = call[d]
          /\ call'[c].at = "read" /\ call'[c].order = call[c].order
          /\ call'[c].event = call[c].event
      BY <1>7, <2>1, GotoCall DEF LockOrder, IInv
    <2>3. ASSUME NEW d \in Calls \ {c}, Locked(d), call[d].order = call[c].order,
                 call[c].event # "auto"
          PROVE  FALSE
      <3>1. call[d] # Idle
        BY <2>3 DEF Locked, Working, Idle
      <3>2. TakesMutex(call[c]) /\ TakesMutex(call[d])
        BY <2>1, <2>3, <3>1, MutexTaken DEF Locked, IInv
      <3>3. call[c].node = call[d].node
        BY <2>1, <3>1 DEF OneNode, Call
      <3> QED
        BY <1>7, <2>3, <3>2, <3>3 DEF LockOrder, Locked
    <2> QED
      BY <2>2, <2>3 DEF OneWorker, IInv, Locked
  <1>8. ASSUME NEW c \in Calls, Read(c)
        PROVE  OneWorker'
    <2>1. call[c] # Idle
      BY <1>8 DEF Read, Idle
    <2>2. Goto(c, "commit") \/ \E ok : Finish(c, ok)
      BY <1>8 DEF Read
    <2>3. CASE Goto(c, "commit")
      BY <1>8, <2>1, <2>3, GotoCall DEF Read, OneWorker, IInv, Locked, Working, Idle
    <2>4. CASE \E ok : Finish(c, ok)
      BY <2>4, FinishCall DEF OneWorker, IInv, Locked, Working, Idle
    <2> QED
      BY <2>2, <2>3, <2>4
  <1>9. ASSUME NEW c \in Calls, Commit(c)
        PROVE  OneWorker'
    <2>1. call[c] # Idle
      BY <1>9 DEF Commit, Idle
    <2>2. Goto(c, "credit") \/ \E ok : Finish(c, ok)
      BY <1>9 DEF Commit
    <2>3. CASE Goto(c, "credit")
      BY <1>9, <2>1, <2>3, GotoCall DEF Commit, OneWorker, IInv, Locked, Working, Idle
    <2>4. CASE \E ok : Finish(c, ok)
      BY <2>4, FinishCall DEF OneWorker, IInv, Locked, Working, Idle
    <2> QED
      BY <2>2, <2>3, <2>4
  <1>10. ASSUME NEW c \in Calls, Credit(c)
        PROVE  OneWorker'
    BY <1>10 DEF Credit, OneWorker, IInv, TypeOK, Idle, Goto, Finish, Locked, Working
  <1>11. ASSUME NEW c \in Calls, Complete(c)
        PROVE  OneWorker'
    BY <1>11 DEF Complete, OneWorker, IInv, TypeOK, Idle, Goto, Finish, Locked, Working
  <1>12. ASSUME NEW c \in Calls, Reject(c)
        PROVE  OneWorker'
    BY <1>12 DEF Reject, OneWorker, IInv, TypeOK, Idle, Goto, Finish, Locked, Working
  <1>13. ASSUME NEW c \in Calls, CheckAuto(c)
        PROVE  OneWorker'
    <2>1. call[c] # Idle
      BY <1>13 DEF CheckAuto, Idle
    <2>2. Goto(c, "read") \/ \E ok : Finish(c, ok)
      BY <1>13 DEF CheckAuto
    <2>3. CASE Goto(c, "read")
      BY <1>13, <2>1, <2>3, GotoCall DEF CheckAuto, OneWorker, IInv, Locked, Working, Idle, EventsFit
    <2>4. CASE \E ok : Finish(c, ok)
      BY <2>4, FinishCall DEF OneWorker, IInv, Locked, Working, Idle, EventsFit
    <2> QED
      BY <2>2, <2>3, <2>4
  <1>14. ASSUME SwitchAuto
        PROVE  OneWorker'
    BY <1>14 DEF SwitchAuto, OneWorker, IInv, TypeOK, Idle, Goto, Finish, Locked, Working
  <1>15. ASSUME NEW n \in Nodes, Crash(n)
        PROVE  OneWorker'
    BY <1>15 DEF Crash, OneWorker, IInv, TypeOK, Idle, Goto, Finish, Locked, Working
  <1>16. ASSUME NEW c \in Calls, LookupFails(c)
        PROVE  OneWorker'
    <2>1. (\A d \in Calls \ {c} : call'[d] = call[d]) /\ call'[c] = Idle
      BY <1>16, FinishCall DEF LookupFails, IInv
    <2>2. UNCHANGED <<order, credit>>
      BY <1>16 DEF LookupFails
    <2> QED
      BY <2>1, <2>2 DEF OneWorker, IInv, Locked, Working, Idle
  <1> QED
    BY <1>1, <1>2, <1>3, <1>4, <1>5, <1>6, <1>7, <1>8, <1>9, <1>10, <1>11, <1>12, <1>13, <1>14,
       <1>15, <1>16 DEF Next, Handle

\* While a call is between its read and its writes, no other call works on the order.
LEMMA Alone ==
    ASSUME IInv, NEW c \in Calls, NEW d \in Calls \ {c}, call[c].at \in Working,
           call[d].at \in {"commit", "credit"}
    PROVE  call[c].order # call[d].order
  <1>1. call[c] # Idle /\ call[d] # Idle
    BY DEF Idle, Working
  <1>2. /\ call[d].event \in {"pay", "fail", "expire"}
        /\ Provider(call[d].order) \notin Manual
    BY <1>1 DEF IInv, EventsFit
  <1>3. CASE call[c].event = "auto"
    BY <1>1, <1>2, <1>3 DEF IInv, EventsFit, Manual
  <1>4. CASE call[c].event # "auto"
    BY <1>2, <1>4 DEF IInv, OneWorker, Locked, Working
  <1> QED
    BY <1>3, <1>4

\* Nobody changes an order between a call's read and its write.
LEMMA StillPendingStep ==
    ASSUME IInv, [Next]_vars
    PROVE  StillPending'
  <1>0. \A o \in Orders : order'[o].kind = order[o].kind
    BY KindsStep DEF IInv
  <1>00. \A d \in Calls : call[d] # Idle => call[d] \in Call /\ call[d].order \in Orders
    BY DEF IInv, TypeOK, Call
  <1> USE <1>00
  <1>1. CASE UNCHANGED vars
    BY <1>1 DEF vars, StillPending, IInv, TypeOK, Idle
  <1>2. ASSUME NEW o \in Orders, Create(o)
        PROVE  StillPending'
    <2>1. \A p \in Orders : order[p].status # "none" => order'[p] = order[p]
      BY <1>2 DEF Create, Created, SetStatus, IInv, TypeOK
    <2> QED
      BY <1>2, <1>00, <2>1 DEF Create, StillPending, IInv, Idle
  <1>3. ASSUME NEW o \in Orders, PaymentEnds(o)
        PROVE  StillPending'
    BY <1>3 DEF PaymentEnds, StillPending, IInv, TypeOK, Idle
  <1>4. ASSUME NEW c \in Calls, NEW o \in Orders, Notify(c, o)
        PROVE  StillPending'
    BY <1>4 DEF Notify, Start, StillPending, IInv, TypeOK, Idle
  <1>5. ASSUME NEW c \in Calls, NEW o \in Orders, Decide(c, o)
        PROVE  StillPending'
    BY <1>5 DEF Decide, Start, StillPending, IInv, TypeOK, Idle
  <1>6. ASSUME NEW c \in Calls, NEW o \in Orders, StartAuto(c, o)
        PROVE  StillPending'
    BY <1>6 DEF StartAuto, Start, StillPending, IInv, TypeOK, Idle
  <1>7. ASSUME NEW c \in Calls, LockOrder(c)
        PROVE  StillPending'
    <2>1. call[c] # Idle
      BY <1>7 DEF LockOrder, Idle
    <2>2. /\ \A d \in Calls \ {c} : call'[d] = call[d]
          /\ call'[c] = Idle \/ call'[c].at = "read"
      BY <1>7, <2>1, GotoCall, FinishCall DEF LockOrder, IInv
    <2> QED
      BY <1>7, <2>2 DEF LockOrder, StillPending, IInv, Idle
  <1>8. ASSUME NEW c \in Calls, Read(c)
        PROVE  StillPending'
    <2>1. call[c] # Idle /\ call[c].order \in Orders
      BY <1>8, <1>00 DEF Read, Idle
    <2>2. \A d \in Calls \ {c} : call'[d] = call[d]
      BY <1>8, <2>1, GotoCall, FinishCall DEF Read, IInv
    <2>3. \A d \in Calls \ {c} : call[d].at \in {"commit", "credit"} =>
            call[d].order # call[c].order /\ call[d].order \in Orders
      BY <1>8, <1>00, Alone DEF Read, Working, Idle
    <2>4. CASE \E ok : Finish(c, ok)
      <3>1. call'[c] = Idle
        BY <2>4, FinishCall DEF IInv
      <3> QED
        BY <1>8, <2>2, <3>1 DEF Read, StillPending, IInv, Idle
    <2>5. CASE Goto(c, "commit") /\ Status(call[c].order) = "pending"
      <3>1. call'[c].at = "commit" /\ call'[c].order = call[c].order
        BY <2>1, <2>5, GotoCall DEF IInv
      <3> QED
        BY <1>8, <2>2, <2>5, <3>1 DEF Read, StillPending, IInv, Status
    <2> QED
      BY <1>8, <2>4, <2>5 DEF Read
  <1>9. ASSUME NEW c \in Calls, Commit(c)
        PROVE  StillPending'
    <2>1. call[c] # Idle /\ call[c].order \in Orders
      BY <1>9, <1>00 DEF Commit, Idle
    <2>2. \A d \in Calls \ {c} : call'[d] = call[d]
      BY <1>9, <2>1, GotoCall, FinishCall DEF Commit, IInv
    <2>3. \A d \in Calls \ {c} : call[d].at \in {"commit", "credit"} =>
            call[d].order # call[c].order /\ call[d].order \in Orders
      BY <1>9, <1>00, Alone DEF Commit, Working, Idle
    <2>4. order[call[c].order].status = "pending" /\ credit[call[c].order] = 0
      BY <1>9, <2>1 DEF Commit, StillPending, Granted, ShownAsGranted, IInv, TypeOK
    <2>5. /\ \A o \in Orders \ {call[c].order} : order'[o] = order[o]
          /\ \A o \in Orders \ {call[c].order} : credit'[o] = credit[o]
      BY <1>9, <2>1 DEF Commit, SetStatus, IInv, TypeOK
    <2>6. CASE \E ok : Finish(c, ok)
      <3>1. call'[c] = Idle
        BY <2>6, FinishCall DEF IInv
      <3> QED
        BY <2>2, <2>3, <2>5, <3>1 DEF StillPending, IInv, Idle
    <2>7. CASE /\ Goto(c, "credit") /\ call[c].event = "pay" /\ ~InTransaction(call[c])
               /\ SetStatus(call[c].order, "success")
               /\ credit' = [credit EXCEPT ![call[c].order] = credit[call[c].order] + 0]
      <3>1. call'[c].at = "credit" /\ call'[c].order = call[c].order
        BY <2>1, <2>7, GotoCall DEF IInv
      <3>2. order'[call[c].order].status = "success" /\ credit'[call[c].order] = 0
        BY <2>1, <2>4, <2>7 DEF SetStatus, IInv, TypeOK
      <3> QED
        BY <2>2, <2>3, <2>5, <3>1, <3>2 DEF StillPending, IInv
    <2>8. ASSUME ~\E ok : Finish(c, ok)
          PROVE  /\ Goto(c, "credit") /\ call[c].event = "pay" /\ ~InTransaction(call[c])
                 /\ SetStatus(call[c].order, "success")
                 /\ credit' = [credit EXCEPT ![call[c].order] = credit[call[c].order] + 0]
      <3>1. call[c].event = "pay" /\ ~InTransaction(call[c]) /\ Goto(c, "credit")
        BY <1>9, <2>8 DEF Commit
      <3>2. [pay |-> "success", fail |-> "failed", expire |-> "expired"][call[c].event]
              = "success"
        BY <3>1
      <3> QED
        BY <1>9, <2>8, <3>1, <3>2 DEF Commit
    <2> QED
      BY <2>6, <2>7, <2>8
  <1>10. ASSUME NEW c \in Calls, Credit(c)
        PROVE  StillPending'
    <2>1. call[c] # Idle /\ call[c].order \in Orders
      BY <1>10, <1>00 DEF Credit, Idle
    <2>2. \A d \in Calls \ {c} : call'[d] = call[d]
      BY <1>10, <2>1, GotoCall, FinishCall DEF Credit, IInv
    <2>3. \A d \in Calls \ {c} : call[d].at \in {"commit", "credit"} =>
            call[d].order # call[c].order /\ call[d].order \in Orders
      BY <1>10, <1>00, Alone DEF Credit, Working, Idle
    <2>4. call'[c] = Idle
      BY <1>10, FinishCall DEF Credit, IInv
    <2>5. /\ \A o \in Orders \ {call[c].order} : order'[o] = order[o]
          /\ UNCHANGED credit \/ \A o \in Orders \ {call[c].order} : credit'[o] = credit[o]
      BY <1>10, <2>1 DEF Credit, SetStatus, IInv, TypeOK
    <2> QED
      BY <2>2, <2>3, <2>4, <2>5 DEF StillPending, IInv, Idle
  <1>11. ASSUME NEW c \in Calls, Complete(c)
        PROVE  StillPending'
    <2>1. call[c] # Idle /\ call[c].order \in Orders
      BY <1>11, <1>00 DEF Complete, Idle
    <2>2. \A d \in Calls \ {c} : call'[d] = call[d]
      BY <1>11, <2>1, GotoCall, FinishCall DEF Complete, IInv
    <2>3. \A d \in Calls \ {c} : call[d].at \in {"commit", "credit"} =>
            call[d].order # call[c].order /\ call[d].order \in Orders
      BY <1>11, <1>00, Alone DEF Complete, Working, Idle
    <2>4. call'[c] = Idle
      BY <1>11, FinishCall DEF Complete, IInv
    <2>5. /\ \A o \in Orders \ {call[c].order} : order'[o] = order[o]
          /\ UNCHANGED credit \/ \A o \in Orders \ {call[c].order} : credit'[o] = credit[o]
      BY <1>11, <2>1 DEF Complete, SetStatus, IInv, TypeOK
    <2> QED
      BY <2>2, <2>3, <2>4, <2>5 DEF StillPending, IInv, Idle
  <1>12. ASSUME NEW c \in Calls, Reject(c)
        PROVE  StillPending'
    <2>1. call[c] # Idle /\ call[c].order \in Orders
      BY <1>12, <1>00 DEF Reject, Idle
    <2>2. \A d \in Calls \ {c} : call'[d] = call[d]
      BY <1>12, <2>1, GotoCall, FinishCall DEF Reject, IInv
    <2>3. \A d \in Calls \ {c} : call[d].at \in {"commit", "credit"} =>
            call[d].order # call[c].order /\ call[d].order \in Orders
      BY <1>12, <1>00, Alone DEF Reject, Working, Idle
    <2>4. call'[c] = Idle
      BY <1>12, FinishCall DEF Reject, IInv
    <2>5. /\ \A o \in Orders \ {call[c].order} : order'[o] = order[o]
          /\ UNCHANGED credit \/ \A o \in Orders \ {call[c].order} : credit'[o] = credit[o]
      BY <1>12, <2>1 DEF Reject, SetStatus, IInv, TypeOK
    <2> QED
      BY <2>2, <2>3, <2>4, <2>5 DEF StillPending, IInv, Idle
  <1>13. ASSUME NEW c \in Calls, CheckAuto(c)
        PROVE  StillPending'
    <2>1. call[c] # Idle
      BY <1>13 DEF CheckAuto, Idle
    <2>2. /\ \A d \in Calls \ {c} : call'[d] = call[d]
          /\ call'[c] = Idle \/ call'[c].at = "read"
      BY <1>13, <2>1, GotoCall, FinishCall DEF CheckAuto, IInv
    <2> QED
      BY <1>13, <2>2 DEF CheckAuto, StillPending, IInv, Idle
  <1>14. ASSUME SwitchAuto
        PROVE  StillPending'
    BY <1>14 DEF SwitchAuto, StillPending, IInv, TypeOK, Idle
  <1>15. ASSUME NEW n \in Nodes, Crash(n)
        PROVE  StillPending'
    BY <1>15 DEF Crash, StillPending, IInv, TypeOK, Idle
  <1>16. ASSUME NEW c \in Calls, LookupFails(c)
        PROVE  StillPending'
    <2>1. (\A d \in Calls \ {c} : call'[d] = call[d]) /\ call'[c] = Idle
      BY <1>16, FinishCall DEF LookupFails, IInv
    <2>2. UNCHANGED <<order, credit>>
      BY <1>16 DEF LookupFails
    <2> QED
      BY <2>1, <2>2 DEF StillPending, IInv, Idle
  <1> QED
    BY <1>1, <1>2, <1>3, <1>4, <1>5, <1>6, <1>7, <1>8, <1>9, <1>10, <1>11, <1>12, <1>13, <1>14,
       <1>15, <1>16 DEF Next, Handle

\* An order is granted when it becomes successful, or by the call that made it so.
LEMMA GrantedStep ==
    ASSUME IInv, [Next]_vars
    PROVE  Granted'
  <1>0. \A o \in Orders : order'[o].kind = order[o].kind
    BY KindsStep DEF IInv
  <1>00. \A d \in Calls : call[d] # Idle => call[d] \in Call /\ call[d].order \in Orders
    BY DEF IInv, TypeOK, Call
  <1>1. CASE UNCHANGED vars
    BY <1>1 DEF vars, Granted, CreditedOnce, ShownAsGranted, IInv
  <1>2. ASSUME NEW o \in Orders, Create(o)
        PROVE  Granted'
    <2>1. \A p \in Orders : order[p].status # "none" => order'[p] = order[p]
      BY <1>2 DEF Create, Created, SetStatus, IInv, TypeOK
    <2> QED
      BY <1>2, <2>1 DEF Create, Granted, CreditedOnce, ShownAsGranted, IInv
  <1>3. ASSUME NEW o \in Orders, PaymentEnds(o)
        PROVE  Granted'
    BY <1>3 DEF PaymentEnds, Granted, CreditedOnce, ShownAsGranted, IInv
  <1>4. ASSUME NEW c \in Calls, NEW o \in Orders, Notify(c, o)
        PROVE  Granted'
    BY <1>4 DEF Notify, Start, Granted, CreditedOnce, ShownAsGranted, IInv
  <1>5. ASSUME NEW c \in Calls, NEW o \in Orders, Decide(c, o)
        PROVE  Granted'
    BY <1>5 DEF Decide, Start, Granted, CreditedOnce, ShownAsGranted, IInv
  <1>6. ASSUME NEW c \in Calls, NEW o \in Orders, StartAuto(c, o)
        PROVE  Granted'
    BY <1>6 DEF StartAuto, Start, Granted, CreditedOnce, ShownAsGranted, IInv
  <1>7. ASSUME NEW c \in Calls, LockOrder(c)
        PROVE  Granted'
    BY <1>7 DEF LockOrder, Granted, CreditedOnce, ShownAsGranted, IInv
  <1>8. ASSUME NEW c \in Calls, Read(c)
        PROVE  Granted'
    BY <1>8 DEF Read, Granted, CreditedOnce, ShownAsGranted, IInv
  <1>9. ASSUME NEW c \in Calls, Commit(c)
        PROVE  Granted'
    <2>1. call[c] # Idle /\ call[c].order \in Orders
      BY <1>9, <1>00 DEF Commit, Idle
    <2>2. \A o \in Orders \ {call[c].order} : order'[o] = order[o] /\ credit'[o] = credit[o]
      BY <1>9, <2>1 DEF Commit, SetStatus, IInv, TypeOK
    <2>3. order[call[c].order].status = "pending" /\ credit[call[c].order] = 0
      BY <1>9, <2>1 DEF Commit, StillPending, Granted, ShownAsGranted, IInv, TypeOK
    <2>4. CASE UNCHANGED <<order, credit>>
      BY <2>4 DEF Granted, CreditedOnce, ShownAsGranted, IInv
    <2>5. CASE call[c].event = "pay" /\ ~UNCHANGED <<order, credit>>
      <3>1. [pay |-> "success", fail |-> "failed", expire |-> "expired"][call[c].event]
              = "success"
        BY <2>5
      <3>2. SetStatus(call[c].order, "success")
        BY <1>9, <2>5, <3>1 DEF Commit
      <3>3. order'[call[c].order].status = "success"
        BY <2>1, <3>2 DEF SetStatus, IInv, TypeOK
      <3>4. credit'[call[c].order] \in {0, 1}
        <4>1. CASE InTransaction(call[c])
          <5>1. credit' = [credit EXCEPT ![call[c].order] = credit[call[c].order] + 1]
            BY <1>9, <2>5, <4>1 DEF Commit
          <5> QED
            BY <2>1, <2>3, <5>1 DEF IInv, TypeOK
        <4>2. CASE ~InTransaction(call[c])
          <5>1. credit' = [credit EXCEPT ![call[c].order] = credit[call[c].order] + 0]
            BY <1>9, <2>5, <4>2 DEF Commit
          <5> QED
            BY <2>1, <2>3, <5>1 DEF IInv, TypeOK
        <4> QED
          BY <4>1, <4>2
      <3> QED
        BY <2>2, <3>3, <3>4 DEF Granted, CreditedOnce, ShownAsGranted, IInv
    <2>6. CASE call[c].event # "pay" /\ ~UNCHANGED <<order, credit>>
      <3>1. credit' = [credit EXCEPT ![call[c].order] = credit[call[c].order] + 0]
        BY <1>9, <2>6 DEF Commit
      <3>2. credit'[call[c].order] = 0
        BY <2>1, <2>3, <3>1 DEF IInv, TypeOK
      <3> QED
        BY <2>2, <3>2 DEF Granted, CreditedOnce, ShownAsGranted, IInv
    <2> QED
      BY <2>4, <2>5, <2>6
  <1>10. ASSUME NEW c \in Calls, Credit(c)
        PROVE  Granted'
    <2>1. call[c] # Idle /\ call[c].order \in Orders
      BY <1>10, <1>00 DEF Credit, Idle
    <2>2. \A o \in Orders \ {call[c].order} : order'[o] = order[o] /\ credit'[o] = credit[o]
      BY <1>10, <2>1 DEF Credit, SetStatus, IInv, TypeOK
    <2>3. order[call[c].order].status = "success" /\ credit[call[c].order] = 0
      BY <1>10 DEF Credit, StillPending, IInv
    <2>4. /\ order'[call[c].order].status = "success" /\ credit'[call[c].order] \in {0, 1}
      BY <1>10, <2>1, <2>3 DEF Credit, IInv, TypeOK
    <2> QED
      BY <2>2, <2>4 DEF Granted, CreditedOnce, ShownAsGranted, IInv
  <1>11. ASSUME NEW c \in Calls, Complete(c)
        PROVE  Granted'
    <2>1. call[c] # Idle /\ call[c].order \in Orders
      BY <1>11, <1>00 DEF Complete, Idle
    <2>2. \A o \in Orders \ {call[c].order} : order'[o] = order[o] /\ credit'[o] = credit[o]
      BY <1>11, <2>1 DEF Complete, SetStatus, IInv, TypeOK
    <2>3. \/ UNCHANGED <<order, credit>>
          \/ /\ order[call[c].order].status = "pending"
             /\ SetStatus(call[c].order, "success")
             /\ credit' = [credit EXCEPT ![call[c].order] = credit[call[c].order] + 1]
      BY <1>11 DEF Complete, Status
    <2>4. CASE UNCHANGED <<order, credit>>
      BY <2>4 DEF Granted, CreditedOnce, ShownAsGranted, IInv
    <2>5. CASE /\ order[call[c].order].status = "pending"
               /\ SetStatus(call[c].order, "success")
               /\ credit' = [credit EXCEPT ![call[c].order] = credit[call[c].order] + 1]
      <3>1. credit[call[c].order] = 0
        BY <2>1, <2>5 DEF Granted, ShownAsGranted, IInv, TypeOK
      <3>2. /\ order'[call[c].order].status = "success" /\ credit'[call[c].order] = 1
        BY <2>1, <2>5, <3>1 DEF SetStatus, IInv, TypeOK
      <3> QED
        BY <2>2, <3>2 DEF Granted, CreditedOnce, ShownAsGranted, IInv
    <2> QED
      BY <2>3, <2>4, <2>5
  <1>12. ASSUME NEW c \in Calls, Reject(c)
        PROVE  Granted'
    <2>1. call[c] # Idle /\ call[c].order \in Orders
      BY <1>12, <1>00 DEF Reject, Idle
    <2>2. \A o \in Orders \ {call[c].order} : order'[o] = order[o] /\ credit'[o] = credit[o]
      BY <1>12, <2>1 DEF Reject, SetStatus, IInv, TypeOK
    <2>3. UNCHANGED order \/ order[call[c].order].status = "pending"
      BY <1>12 DEF Reject, Status
    <2>4. UNCHANGED order \/ credit[call[c].order] = 0
      BY <2>1, <2>3 DEF Granted, ShownAsGranted, IInv, TypeOK
    <2>5. UNCHANGED credit
      BY <1>12 DEF Reject
    <2> QED
      BY <2>2, <2>4, <2>5 DEF Granted, CreditedOnce, ShownAsGranted, IInv
  <1>13. ASSUME NEW c \in Calls, CheckAuto(c)
        PROVE  Granted'
    BY <1>13 DEF CheckAuto, Granted, CreditedOnce, ShownAsGranted, IInv
  <1>14. ASSUME SwitchAuto
        PROVE  Granted'
    BY <1>14 DEF SwitchAuto, Granted, CreditedOnce, ShownAsGranted, IInv
  <1>15. ASSUME NEW n \in Nodes, Crash(n)
        PROVE  Granted'
    BY <1>15 DEF Crash, Granted, CreditedOnce, ShownAsGranted, IInv
  <1>16. ASSUME NEW c \in Calls, LookupFails(c)
        PROVE  Granted'
    BY <1>16 DEF LookupFails, Granted, CreditedOnce, ShownAsGranted, IInv
  <1> QED
    BY <1>1, <1>2, <1>3, <1>4, <1>5, <1>6, <1>7, <1>8, <1>9, <1>10, <1>11, <1>12, <1>13, <1>14,
       <1>15, <1>16 DEF Next, Handle

---------------------------------------------------------------------------
LEMMA NextTInv == TInv /\ [Next]_vars => TInv'
  BY TypeStep, KindsKeptStep, EventsStep DEF TInv

LEMMA InitIInv == Init => IInv
  <1> SUFFICES ASSUME Init PROVE IInv
    OBVIOUS
  <1>1. TypeOK
    BY TopUpAssumption DEF Init, TypeOK, Idle
  <1>2. KindsKept /\ Granted
    BY DEF Init, KindsKept, Granted, CreditedOnce, ShownAsGranted
  <1>3. EventsFit /\ OneWorker /\ StillPending
    BY DEF Init, EventsFit, OneWorker, StillPending, Locked, Working, Idle
  <1> QED
    BY <1>1, <1>2, <1>3 DEF IInv

LEMMA NextIInv ==
    ASSUME OneNode, LockedKinds
    PROVE  IInv /\ [Next]_vars => IInv'
  <1> SUFFICES ASSUME IInv, [Next]_vars PROVE IInv'
    OBVIOUS
  <1>1. TInv'
    BY NextTInv DEF IInv, TInv
  <1>2. TypeOK' /\ KindsKept' /\ EventsFit'
    BY <1>1 DEF TInv
  <1> QED
    BY <1>2, OneWorkerStep, StillPendingStep, GrantedStep DEF IInv

\* On one node, whatever is repeated, fails or dies, the mutex makes the notifications of
\* an order idempotent: it is granted once at most.
THEOREM OnceOnOneNode ==
    ASSUME OneNode, LockedKinds
    PROVE  Spec => []CreditedOnce
  <1>1. IInv => CreditedOnce
    BY DEF IInv, Granted
  <1> QED
    BY <1>1, InitIInv, NextIInv, PTL DEF Spec

\* On one node an order that was granted is never shown as failed, expired or pending.
THEOREM ShownOnOneNode ==
    ASSUME OneNode, LockedKinds
    PROVE  Spec => []ShownAsGranted
  <1>1. IInv => ShownAsGranted
    BY DEF IInv, Granted
  <1> QED
    BY <1>1, InitIInv, NextIInv, PTL DEF Spec

\* The tables and the calls keep their types, on any number of nodes and for every kind of order.
THEOREM TypeCorrect == Spec => []TypeOK
  <1>1. Init => TInv
    BY InitIInv DEF IInv, TInv
  <1>2. TInv => TypeOK
    BY DEF TInv
  <1> QED
    BY <1>1, <1>2, NextTInv, PTL DEF Spec

\* A transfer is approved automatically only while the rule allows it, although the rule was read
\* before the slip was verified and may have been switched since (completeManualTopUp reads it again
\* in its transaction): on any number of nodes, with or without row locks, whatever fails.
THEOREM AutoApprovedWhileOn == Spec => AutoOnlyWhileOn
  <1> DEFINE ByRule(o) == audit[o] = "none" /\ audit'[o] \in Slips => autoOn
  <1>1. ASSUME TypeOK, [Next]_vars, NEW o \in Orders PROVE ByRule(o)
    <2>1. CASE UNCHANGED audit
      BY <2>1, TopUpAssumption
    <2>2. ASSUME NEW c \in Calls, Complete(c) PROVE ByRule(o)
      <3>1. call[c].order \in Orders
        BY <1>1, <2>2 DEF Complete, TypeOK, Idle, Call
      <3>2. CASE call[c].event = "auto" /\ AutoAllowed(call[c].order)
        BY <3>2 DEF AutoAllowed
      <3>3. CASE UNCHANGED audit
        BY <2>1, <3>3
      <3>4. CASE audit' = [audit EXCEPT ![call[c].order] = "manual"]
        BY <1>1, <3>1, <3>4, TopUpAssumption DEF TypeOK
      <3> QED
        BY <2>2, <3>2, <3>3, <3>4 DEF Complete
    <2> QED
      BY <1>1, <2>1, <2>2
      DEF Next, vars, Create, PaymentEnds, Notify, Decide, StartAuto, LockOrder, LookupFails,
          Handle, Read, Commit, Credit, Reject, CheckAuto, SwitchAuto, Crash
  <1>2. TypeOK /\ [Next]_vars => [\A o \in Orders : ByRule(o)]_vars
    BY <1>1
  <1> QED
    BY <1>2, TypeCorrect, PTL DEF Spec, AutoOnlyWhileOn
============================================================================
