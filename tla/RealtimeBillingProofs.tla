------------------------ MODULE RealtimeBillingProofs ------------------------
(***************************************************************************)
(* What the total of a realtime session contains, for every set of         *)
(* messages and whatever the account can pay: the two safety properties of *)
(* RealtimeBilling, and the type invariant they rest on.                   *)
(*                                                                         *)
(* The reader of the upstream and the handler share usage, localUsage and  *)
(* sumUsage without a lock.  Each of them sums a message once at most; the *)
(* proofs show when both do: when the reader's turn ended between its sum  *)
(* and its reset, or the handler came to the object before the reader had  *)
(* gone, which takes a client that hangs up.                               *)
(***************************************************************************)
EXTENDS RealtimeBilling, TLAPS

-----------------------------------------------------------------------------
\* The parts of the inductive invariant.

Steps == {"sum", "check", "charge", "reset"}
Names == {"usage", "local"}
InTurn == { Turn(step, object) : step \in Steps, object \in Names }

\* The reader reads, is in a turn, or has ended; the handler waits, flushes, or has ended.
PlacesFit ==
    /\ pc["target"] \in {Reading, Ended} \cup InTurn
    /\ pc["handler"] \in {Waiting, Ended} \cup InTurn

\* A message is in one of the three sets at most, and only what was sent is counted or reported.
SentOnce ==
    /\ fresh \cap usage = {} /\ fresh \cap localUsage = {} /\ usage \cap localUsage = {}
    /\ fresh \cap reported = {} /\ fresh \cap exposed = {}
    /\ \A p \in Proc : fresh \cap owed[p] = {}
    /\ \A m \in fresh : sumUsage[m] = 0

\* The handler has left its select because a side has ended; only the handler settles.
HandlerCalled ==
    /\ pc["handler"] # Waiting => closed # {}
    /\ settled => pc["handler"] = Ended

\* Unless the client has hung up, the reader of the upstream is the side that ends first.
TargetFirst == ~hungUp /\ closed # {} => pc["target"] = Ended

IInv == TypeOK /\ PlacesFit /\ SentOnce /\ HandlerCalled /\ TargetFirst

\* The reader, and the handler, are past the sum of the object named.
TargetSummed(name) == pc["target"] \in { Turn(step, name) : step \in Steps \ {"sum"} }
HandlerSummed(name) ==
    IF name = "usage"
    THEN pc["handler"] \notin {Waiting, Turn("sum", "usage")}
    ELSE pc["handler"] \in {Ended} \cup { Turn(step, "local") : step \in Steps \ {"sum"} }

\* What the messages of the object named may count for before the next sum of it: nothing, or
\* one when they are exposed or the reader is past the sum of its turn; before the handler's
\* sum only a reader that has gone has exposed any.
ObjectOnce(name) ==
    /\ ~TargetSummed(name) /\ (~HandlerSummed(name) \/ pc["target"] # Ended)
          => \A m \in Object(name) : sumUsage[m] <= (IF m \in exposed THEN 1 ELSE 0)
    /\ TargetSummed(name) /\ ~HandlerSummed(name)
          => \A m \in Object(name) : sumUsage[m] <= (IF m \in owed["target"] THEN 1 ELSE 0)
    /\ ~HandlerSummed(name) /\ pc["target"] # Ended => Object(name) \cap exposed = {}

UncountedYet == CountedOnce /\ \A name \in Names : ObjectOnce(name)

OnceInv == IInv /\ UncountedYet

\* What the upstream has reported is in usage or in the total; a reader past the sum of its
\* turn, and a handler past the sum of usage, leave nothing of it out.
ReportsKept ==
    /\ \A m \in reported : m \in usage \/ sumUsage[m] >= 1
    /\ TargetSummed("usage") => \A m \in usage : sumUsage[m] >= 1
    /\ ~hungUp /\ pc["handler"] \notin {Waiting, Turn("sum", "usage")}
          => \A m \in reported : sumUsage[m] >= 1

KeptInv == IInv /\ ReportsKept

-----------------------------------------------------------------------------
\* Places and counts.

\* The places of a turn differ from each other and from those outside a turn.
LEMMA TurnFields ==
    /\ \A step, object : Turn(step, object).step = step /\ Turn(step, object).object = object
    /\ \A s1, o1, s2, o2 : Turn(s1, o1) = Turn(s2, o2) => s1 = s2 /\ o1 = o2
  <1>1. \A step, object : Turn(step, object).step = step /\ Turn(step, object).object = object
    BY DEF Turn
  <1>2. \A s1, o1, s2, o2 : Turn(s1, o1) = Turn(s2, o2) => s1 = s2 /\ o1 = o2
    <2> SUFFICES ASSUME NEW s1, NEW o1, NEW s2, NEW o2, Turn(s1, o1) = Turn(s2, o2)
                 PROVE  s1 = s2 /\ o1 = o2
      OBVIOUS
    <2>1. Turn(s1, o1).step = Turn(s2, o2).step /\ Turn(s1, o1).object = Turn(s2, o2).object
      OBVIOUS
    <2> QED BY <2>1, <1>1
  <1> QED BY <1>1, <1>2

\* A process in a step of a turn is at that step, on one of the two objects.
LEMMA InStep ==
    ASSUME PlacesFit, NEW p \in Proc, NEW s \in Steps, pc[p].step = s
    PROVE  /\ pc[p].object \in Names
           /\ pc[p] = Turn(s, pc[p].object)
  <1>1. pc[p] \in InTurn
    BY TurnFields DEF PlacesFit, Proc, Steps, Reading, Waiting, Ended
  <1>2. PICK step \in Steps, object \in Names : pc[p] = Turn(step, object)
    BY <1>1 DEF InTurn
  <1> QED BY <1>2, TurnFields

\* Every place is a place of a turn or one outside; moving a process leaves the other's place.
LEMMA Moves ==
    ASSUME TypeOK, NEW p \in Proc, NEW at, Goto(p, at)
    PROVE  /\ pc'[p] = at
           /\ \A q \in Proc : q # p => pc'[q] = pc[q]
  BY DEF TypeOK, Goto

\* Goto keeps the type of pc.
LEMMA MoveTyped ==
    ASSUME TypeOK, NEW p \in Proc, Goto(p, Reading) \/ Goto(p, Ended)
              \/ \E step \in Steps, object \in Names : Goto(p, Turn(step, object))
    PROVE  pc' \in [Proc -> [step : {"read", "select", "sum", "check", "charge", "reset", "ended"},
                             object : {"usage", "local"}]]
  <1>1. CASE Goto(p, Reading) BY <1>1 DEF TypeOK, Goto, Reading, Turn
  <1>2. CASE Goto(p, Ended) BY <1>2 DEF TypeOK, Goto, Ended, Turn
  <1>3. CASE \E step \in Steps, object \in Names : Goto(p, Turn(step, object))
    BY <1>3 DEF TypeOK, Goto, Turn, Steps, Names
  <1> QED BY <1>1, <1>2, <1>3

\* A sum counts each of the messages once more and no other.
LEMMA PlusCounts ==
    ASSUME NEW count \in [Message -> Nat], NEW messages
    PROVE  /\ Plus(count, messages) \in [Message -> Nat]
           /\ \A m \in Message : m \in messages => Plus(count, messages)[m] = count[m] + 1
           /\ \A m \in Message : m \notin messages => Plus(count, messages)[m] = count[m]
  BY DEF Plus

\* An object is a set of messages.
LEMMA Objects ==
    ASSUME TypeOK, NEW name
    PROVE  Object(name) \subseteq Message
  BY DEF TypeOK, Object

\* Unless the client has hung up, the reader has ended when the handler is at work.
LEMMA TargetGone ==
    ASSUME IInv, ~hungUp, pc["handler"] # Waiting
    PROVE  pc["target"] = Ended
  BY DEF IInv, HandlerCalled, TargetFirst

-----------------------------------------------------------------------------
\* The invariant of every session.

\* The session starts with every message unsent.
LEMMA InitIInv == Init => IInv
  <1> SUFFICES ASSUME Init PROVE IInv OBVIOUS
  <1>1. pc["target"] = Reading /\ pc["handler"] = Waiting BY DEF Init, Proc
  <1>2. TypeOK
    <2>1. pc \in [Proc -> [step : {"read", "select", "sum", "check", "charge", "reset", "ended"},
                           object : {"usage", "local"}]]
      BY DEF Init, Reading, Waiting, Turn
    <2> QED BY <2>1 DEF Init, TypeOK
  <1>3. PlacesFit BY <1>1 DEF PlacesFit
  <1>4. SentOnce BY DEF Init, SentOnce
  <1>5. HandlerCalled /\ TargetFirst BY <1>1 DEF Init, HandlerCalled, TargetFirst
  <1> QED BY <1>2, <1>3, <1>4, <1>5 DEF IInv

\* A message of either side moves from fresh to localUsage.
LEMMA MessageKeeps ==
    ASSUME IInv, NEW m \in Message, ClientMessage(m) \/ TargetMessage(m)
    PROVE  IInv'
  <1>0. m \in fresh /\ fresh' = fresh \ {m} /\ localUsage' = localUsage \cup {m}
        /\ UNCHANGED <<usage, sumUsage, taken, client, pc, owed, closed, reported, settled, hungUp,
                       exposed>>
    BY DEF ClientMessage, TargetMessage
  <1>1. TypeOK' BY <1>0 DEF IInv, TypeOK
  <1>2. PlacesFit' BY <1>0 DEF IInv, PlacesFit
  <1>3. SentOnce' BY <1>0 DEF IInv, SentOnce
  <1>4. HandlerCalled' BY <1>0 DEF IInv, HandlerCalled
  <1>5. TargetFirst' BY <1>0 DEF IInv, TargetFirst
  <1> QED BY <1>1, <1>2, <1>3, <1>4, <1>5 DEF IInv

\* A finished response moves from fresh to one of the two objects, and its turn begins.
LEMMA ResponseKeeps ==
    ASSUME IInv, NEW m \in Message, ResponseDone(m)
    PROVE  IInv'
  <1>1. PICK object \in Names : Goto("target", Turn("sum", object))
    BY DEF ResponseDone, Names
  <1>2. pc["target"] = Reading /\ pc'["target"] = Turn("sum", object)
        /\ pc'["handler"] = pc["handler"]
    BY <1>1, Moves DEF IInv, Proc, ResponseDone
  <1>3. TypeOK'
    <2>1. pc' \in [Proc -> [step : {"read", "select", "sum", "check", "charge", "reset", "ended"},
                             object : {"usage", "local"}]]
      BY <1>1, MoveTyped DEF IInv, Steps, Proc
    <2> QED BY <2>1 DEF IInv, TypeOK, ResponseDone
  <1>4. PlacesFit' BY <1>2 DEF IInv, PlacesFit, InTurn, Steps
  <1>5. SentOnce' BY DEF IInv, SentOnce, ResponseDone
  <1>6. HandlerCalled' BY <1>2 DEF IInv, HandlerCalled, ResponseDone
  <1>7. TargetFirst'
    BY <1>2, TurnFields DEF IInv, TargetFirst, ResponseDone, Reading, Ended
  <1> QED BY <1>3, <1>4, <1>5, <1>6, <1>7 DEF IInv

\* A side ends: the client before the upstream hangs up, unless the handler has returned.
LEMMA EndKeeps ==
    ASSUME IInv, ClientEnds \/ TargetEnds
    PROVE  IInv'
  <1>1. CASE ClientEnds
    <2>1. TypeOK' BY <1>1 DEF IInv, TypeOK, ClientEnds
    <2>2. PlacesFit' BY <1>1 DEF IInv, PlacesFit, ClientEnds
    <2>3. SentOnce' BY <1>1 DEF IInv, SentOnce, ClientEnds
    <2>4. HandlerCalled' BY <1>1 DEF IInv, HandlerCalled, ClientEnds
    <2>5. TargetFirst'
      <3>1. Ended # Waiting BY TurnFields DEF Ended, Waiting
      <3>2. CASE pc["handler"] = Ended \/ pc["target"] = Ended
        BY <3>1, <3>2, <1>1, TargetGone DEF TargetFirst, ClientEnds
      <3>3. CASE ~(pc["handler"] = Ended \/ pc["target"] = Ended)
        BY <3>3, <1>1 DEF TargetFirst, ClientEnds
      <3> QED BY <3>2, <3>3
    <2> QED BY <2>1, <2>2, <2>3, <2>4, <2>5 DEF IInv
  <1>2. CASE TargetEnds
    <2>0. pc'["target"] = Ended /\ pc'["handler"] = pc["handler"]
      BY <1>2, Moves DEF IInv, TargetEnds, Proc
    <2>1. TypeOK'
      <3>1. pc' \in [Proc -> [step : {"read", "select", "sum", "check", "charge", "reset", "ended"},
                               object : {"usage", "local"}]]
        BY <1>2, MoveTyped DEF IInv, TargetEnds, Proc
      <3> QED BY <3>1, <1>2 DEF IInv, TypeOK, TargetEnds
    <2>2. PlacesFit' BY <2>0 DEF IInv, PlacesFit
    <2>3. SentOnce' BY <1>2 DEF IInv, SentOnce, TargetEnds
    <2>4. HandlerCalled' BY <2>0, <1>2 DEF IInv, HandlerCalled, TargetEnds
    <2>5. TargetFirst' BY <2>0 DEF TargetFirst
    <2> QED BY <2>1, <2>2, <2>3, <2>4, <2>5 DEF IInv
  <1> QED BY <1>1, <1>2

\* A move of one process to a place of its own keeps both places legal.
LEMMA PlacesAfter ==
    ASSUME IInv, NEW p \in Proc,
           \/ p = "target" /\ Goto(p, Reading)
           \/ Goto(p, Ended)
           \/ \E step \in Steps, object \in Names : Goto(p, Turn(step, object))
    PROVE  /\ PlacesFit'
           /\ pc' \in [Proc -> [step : {"read", "select", "sum", "check", "charge", "reset", "ended"},
                                object : {"usage", "local"}]]
  <1>0. TypeOK BY DEF IInv
  <1>1. \E at \in {Reading, Ended} \cup InTurn :
           Goto(p, at) /\ (at = Reading => p = "target" \/ at \in {Ended} \cup InTurn)
    BY DEF InTurn
  <1>2. PICK at \in {Reading, Ended} \cup InTurn :
           Goto(p, at) /\ (at = Reading => p = "target" \/ at \in {Ended} \cup InTurn)
    BY <1>1
  <1>3. pc'[p] = at /\ \A q \in Proc : q # p => pc'[q] = pc[q]
    BY <1>0, <1>2, Moves
  <1>4. PlacesFit' BY <1>2, <1>3 DEF IInv, PlacesFit, Proc
  <1>5. pc' \in [Proc -> [step : {"read", "select", "sum", "check", "charge", "reset", "ended"},
                          object : {"usage", "local"}]]
    BY <1>0, MoveTyped
  <1> QED BY <1>4, <1>5

\* The first step of a turn: the object is added to the total.
LEMMA SumKeeps ==
    ASSUME IInv, NEW p \in Proc, Sum(p)
    PROVE  /\ IInv'
           /\ \A m \in Object(pc[p].object) : sumUsage'[m] = sumUsage[m] + 1
           /\ \A m \in Message \ Object(pc[p].object) : sumUsage'[m] = sumUsage[m]
  <1> DEFINE o == pc[p].object
  <1>0. TypeOK /\ PlacesFit BY DEF IInv
  <1>1. o \in Names /\ pc[p] = Turn("sum", o)
    BY <1>0, InStep DEF Sum, Steps
  <1>2. Goto(p, Turn("check", o)) BY DEF Sum
  <1>3. /\ sumUsage' \in [Message -> Nat]
        /\ \A m \in Object(o) : sumUsage'[m] = sumUsage[m] + 1
        /\ \A m \in Message \ Object(o) : sumUsage'[m] = sumUsage[m]
    BY <1>0, PlusCounts, Objects DEF Sum, TypeOK
  <1>4. pc'[p] = Turn("check", o) /\ \A q \in Proc : q # p => pc'[q] = pc[q]
    BY <1>0, <1>2, Moves
  <1>5. /\ PlacesFit'
        /\ pc' \in [Proc -> [step : {"read", "select", "sum", "check", "charge", "reset", "ended"},
                             object : {"usage", "local"}]]
    BY <1>1, <1>2, PlacesAfter DEF Steps
  <1>6. TypeOK'
    <2>1. exposed' \subseteq Message BY <1>0, Objects DEF TypeOK, Sum
    <2>2. owed' \in [Proc -> SUBSET Message] BY <1>0, Objects DEF TypeOK, Sum
    <2> QED BY <1>3, <1>5, <2>1, <2>2 DEF IInv, TypeOK, Sum
  <1>7. SentOnce'
    <2>1. \A m \in fresh : m \in Message \ Object(o)
      BY <1>0 DEF IInv, SentOnce, TypeOK, Object
    <2> QED BY <1>3, <2>1 DEF IInv, SentOnce, Sum
  <1>8. HandlerCalled'
    BY <1>1, <1>4, TurnFields DEF IInv, HandlerCalled, Sum, Proc, Waiting, Ended
  <1>9. TargetFirst'
    BY <1>1, <1>4, TurnFields DEF IInv, TargetFirst, Sum, Proc, Ended
  <1> QED BY <1>3, <1>5, <1>6, <1>7, <1>8, <1>9 DEF IInv

\* The next steps: the account is found to cover the turn, and pays it.
LEMMA ChargeKeeps ==
    ASSUME IInv, NEW p \in Proc, CheckQuota(p) \/ Charge(p)
    PROVE  /\ IInv'
           /\ pc[p].object \in Names
           /\ \/ /\ pc[p] = Turn("check", pc[p].object)
                 /\ pc'[p] = Turn("charge", pc[p].object)
              \/ /\ pc[p] = Turn("charge", pc[p].object)
                 /\ pc'[p] = Turn("reset", pc[p].object)
           /\ \A q \in Proc : q # p => pc'[q] = pc[q]
  <1> DEFINE o == pc[p].object
  <1>0. TypeOK /\ PlacesFit BY DEF IInv
  <1>1. /\ o \in Names
        /\ \/ pc[p] = Turn("check", o) /\ Goto(p, Turn("charge", o))
           \/ pc[p] = Turn("charge", o) /\ Goto(p, Turn("reset", o))
    BY <1>0, InStep DEF CheckQuota, Charge, Steps
  <1>2. /\ \/ pc[p] = Turn("check", o) /\ pc'[p] = Turn("charge", o)
           \/ pc[p] = Turn("charge", o) /\ pc'[p] = Turn("reset", o)
        /\ \A q \in Proc : q # p => pc'[q] = pc[q]
    BY <1>0, <1>1, Moves
  <1>3. taken' \in [Message -> Nat] BY <1>0, PlusCounts DEF CheckQuota, Charge, TypeOK
  <1>4. owed' \in [Proc -> SUBSET Message] BY <1>0, Objects DEF CheckQuota, Charge, TypeOK
  <1>5. /\ PlacesFit'
        /\ pc' \in [Proc -> [step : {"read", "select", "sum", "check", "charge", "reset", "ended"},
                             object : {"usage", "local"}]]
    BY <1>1, PlacesAfter DEF Steps
  <1>6. TypeOK' BY <1>3, <1>4, <1>5 DEF IInv, TypeOK, CheckQuota, Charge
  <1>7. SentOnce'
    <2>1. fresh \cap Object(o) = {} BY DEF IInv, SentOnce, Object
    <2>2. \A q \in Proc : fresh \cap owed'[q] = {}
      BY <1>0, <2>1 DEF IInv, SentOnce, TypeOK, CheckQuota, Charge
    <2> QED BY <2>2 DEF IInv, SentOnce, CheckQuota, Charge
  <1>8. HandlerCalled'
    BY <1>2, TurnFields DEF IInv, HandlerCalled, CheckQuota, Charge, Proc, Waiting, Ended
  <1>9. TargetFirst'
    BY <1>2, TurnFields DEF IInv, TargetFirst, CheckQuota, Charge, Proc, Ended
  <1> QED BY <1>1, <1>2, <1>5, <1>6, <1>7, <1>8, <1>9 DEF IInv

\* Or it cannot be charged: the reader ends, the handler goes on.
LEMMA ChargeFailsKeeps ==
    ASSUME IInv, NEW p \in Proc, ChargeFails(p)
    PROVE  /\ IInv'
           /\ pc[p].object \in Names
           /\ pc[p] \in {Turn("check", pc[p].object), Turn("charge", pc[p].object)}
           /\ \/ p = "target" /\ pc'["target"] = Ended /\ pc'["handler"] = pc["handler"]
              \/ /\ p = "handler" /\ pc'["handler"] = Turn("reset", pc[p].object)
                 /\ pc'["target"] = pc["target"]
  <1> DEFINE o == pc[p].object
  <1>0. TypeOK /\ PlacesFit BY DEF IInv
  <1>1. o \in Names /\ pc[p] \in {Turn("check", o), Turn("charge", o)}
    <2>1. pc[p].step \in {"check", "charge"} BY DEF ChargeFails
    <2> QED BY <1>0, <2>1, InStep DEF Steps
  <1>2. \/ p = "target" /\ Goto(p, Ended) /\ closed' = closed \cup {"target"}
        \/ p = "handler" /\ Goto(p, Turn("reset", o)) /\ UNCHANGED closed
    BY DEF ChargeFails
  <1>3. /\ PlacesFit'
        /\ pc' \in [Proc -> [step : {"read", "select", "sum", "check", "charge", "reset", "ended"},
                             object : {"usage", "local"}]]
    BY <1>1, <1>2, PlacesAfter DEF Steps
  <1>4. \/ p = "target" /\ pc'["target"] = Ended /\ pc'["handler"] = pc["handler"]
        \/ p = "handler" /\ pc'["handler"] = Turn("reset", o) /\ pc'["target"] = pc["target"]
    BY <1>0, <1>2, Moves DEF Proc
  <1>5. TypeOK'
    <2>1. Plus(taken, owed[p]) \in [Message -> Nat] BY <1>0, PlusCounts DEF TypeOK
    <2>2. taken' \in [Message -> Nat] BY <1>0, <2>1 DEF ChargeFails, TypeOK
    <2>3. exposed' \subseteq Message BY <1>0 DEF ChargeFails, TypeOK
    <2> QED BY <1>2, <1>3, <2>2, <2>3 DEF IInv, TypeOK, ChargeFails
  <1>6. SentOnce' BY DEF IInv, SentOnce, ChargeFails
  <1>7. HandlerCalled'
    <2>1. closed \subseteq closed' BY <1>2
    <2> QED BY <1>1, <1>4, <2>1, TurnFields
        DEF IInv, HandlerCalled, ChargeFails, Waiting, Ended
  <1>8. TargetFirst' BY <1>2, <1>4 DEF IInv, TargetFirst, ChargeFails
  <1> QED BY <1>1, <1>3, <1>4, <1>5, <1>6, <1>7, <1>8 DEF IInv

\* The reader's turn ends with empty objects.
LEMMA ResetKeeps ==
    ASSUME IInv, Reset
    PROVE  /\ IInv'
           /\ pc["target"].object \in Names
           /\ pc["target"] = Turn("reset", pc["target"].object)
           /\ pc'["target"] = Reading /\ pc'["handler"] = pc["handler"]
           /\ pc["handler"] = Waiting \/ hungUp
  <1>0. TypeOK /\ PlacesFit BY DEF IInv
  <1>1. pc["target"].object \in Names /\ pc["target"] = Turn("reset", pc["target"].object)
    BY <1>0, InStep DEF Reset, Steps, Proc
  <1>2. pc'["target"] = Reading /\ pc'["handler"] = pc["handler"]
    BY <1>0, Moves DEF Reset, Proc
  <1>3. /\ PlacesFit'
        /\ pc' \in [Proc -> [step : {"read", "select", "sum", "check", "charge", "reset", "ended"},
                             object : {"usage", "local"}]]
    BY PlacesAfter DEF Reset, Proc
  <1>4. TypeOK' BY <1>3 DEF IInv, TypeOK, Reset
  <1>5. SentOnce' BY DEF IInv, SentOnce, Reset
  <1>6. HandlerCalled' BY <1>2 DEF IInv, HandlerCalled, Reset
  <1>7. TargetFirst'
    BY <1>1, <1>2, TurnFields DEF IInv, TargetFirst, Reset, Ended
  <1>8. pc["handler"] = Waiting \/ hungUp
    BY <1>1, TargetGone, TurnFields DEF Ended
  <1> QED BY <1>1, <1>2, <1>3, <1>4, <1>5, <1>6, <1>7, <1>8 DEF IInv

\* The handler's own steps change its place and nothing else but settled.
LEMMA HandlerMoves ==
    ASSUME IInv, Select \/ FlushLocal \/ Settle
    PROVE  /\ IInv'
           /\ pc'["target"] = pc["target"]
           /\ Select => /\ pc["handler"] = Waiting
                        /\ \/ pc'["handler"] = Turn("sum", "usage")
                           \/ usage = {} /\ pc'["handler"] = Turn("reset", "usage")
           /\ FlushLocal => /\ pc["handler"] = Turn("reset", "usage")
                            /\ \/ pc'["handler"] = Turn("sum", "local")
                               \/ localUsage = {} /\ pc'["handler"] = Turn("reset", "local")
           /\ Settle => pc["handler"] = Turn("reset", "local") /\ pc'["handler"] = Ended
  <1>0. TypeOK /\ PlacesFit BY DEF IInv
  <1>1. Select => \/ Goto("handler", Turn("sum", "usage"))
                  \/ usage = {} /\ Goto("handler", Turn("reset", "usage"))
    BY DEF Select, Flush, Object
  <1>2. FlushLocal => \/ Goto("handler", Turn("sum", "local"))
                      \/ localUsage = {} /\ Goto("handler", Turn("reset", "local"))
    BY DEF FlushLocal, Flush, Object
  <1>3. Settle => Goto("handler", Ended) BY DEF Settle
  <1>4. /\ PlacesFit'
        /\ pc' \in [Proc -> [step : {"read", "select", "sum", "check", "charge", "reset", "ended"},
                             object : {"usage", "local"}]]
    <2>1. "handler" \in Proc BY DEF Proc
    <2>2. \/ Goto("handler", Ended)
          \/ \E step \in Steps, object \in Names : Goto("handler", Turn(step, object))
      BY <1>1, <1>2, <1>3 DEF Steps, Names
    <2> QED BY <2>1, <2>2, PlacesAfter
  <1>5. \A at : Goto("handler", at) => pc'["handler"] = at /\ pc'["target"] = pc["target"]
    BY <1>0, Moves DEF Proc
  <1>6. pc'["target"] = pc["target"] BY <1>1, <1>2, <1>3, <1>5
  <1>7. Select => /\ pc["handler"] = Waiting
                  /\ \/ pc'["handler"] = Turn("sum", "usage")
                     \/ usage = {} /\ pc'["handler"] = Turn("reset", "usage")
    BY <1>1, <1>5 DEF Select
  <1>8. FlushLocal => /\ pc["handler"] = Turn("reset", "usage")
                      /\ \/ pc'["handler"] = Turn("sum", "local")
                         \/ localUsage = {} /\ pc'["handler"] = Turn("reset", "local")
    BY <1>2, <1>5 DEF FlushLocal
  <1>9. Settle => pc["handler"] = Turn("reset", "local") /\ pc'["handler"] = Ended
    BY <1>3, <1>5 DEF Settle
  <1>10. TypeOK'
    <2>1. [m \in Message |-> taken[m] + sumUsage[m]] \in [Message -> Nat] BY <1>0 DEF TypeOK
    <2>2. taken' \in [Message -> Nat]
      BY <1>0, <2>1 DEF TypeOK, Select, FlushLocal, Settle
    <2> QED BY <1>4, <2>2 DEF IInv, TypeOK, Select, FlushLocal, Settle
  <1>11. SentOnce' BY DEF IInv, SentOnce, Select, FlushLocal, Settle
  <1>12. HandlerCalled'
    <2>1. closed # {}
      BY <1>7, <1>8, <1>9, TurnFields
      DEF IInv, HandlerCalled, Waiting, Select
    <2>2. closed' = closed BY DEF Select, FlushLocal, Settle
    <2>3. settled' => pc'["handler"] = Ended
      <3>1. CASE Select
        <4>1. pc["handler"] # Ended BY <3>1, <1>7, TurnFields DEF Waiting, Ended
        <4> QED BY <3>1, <4>1 DEF IInv, HandlerCalled, Select
      <3>2. CASE FlushLocal
        <4>1. pc["handler"] # Ended BY <3>2, <1>8, TurnFields DEF Ended
        <4> QED BY <3>2, <4>1 DEF IInv, HandlerCalled, FlushLocal
      <3>3. CASE Settle BY <3>3, <1>9
      <3> QED BY <3>1, <3>2, <3>3
    <2> QED BY <2>1, <2>2, <2>3 DEF HandlerCalled
  <1>13. TargetFirst' BY <1>6 DEF IInv, TargetFirst, Select, FlushLocal, Settle
  <1> QED BY <1>4, <1>6, <1>7, <1>8, <1>9, <1>10, <1>11, <1>12, <1>13 DEF IInv

\* Every step of the session is one of these.
LEMMA Cases ==
    ASSUME Next
    PROVE  \/ \E m \in Message : ClientMessage(m) \/ TargetMessage(m)
           \/ \E m \in Message : ResponseDone(m)
           \/ ClientEnds \/ TargetEnds
           \/ \E p \in Proc : Sum(p)
           \/ \E p \in Proc : CheckQuota(p) \/ Charge(p)
           \/ \E p \in Proc : ChargeFails(p)
           \/ Reset
           \/ Select \/ FlushLocal \/ Settle
  BY DEF Next, Handler, Target, PreConsumeUsage, Proc

\* IInv is inductive.
LEMMA NextIInv == IInv /\ [Next]_vars => IInv'
  <1> SUFFICES ASSUME IInv, [Next]_vars PROVE IInv' OBVIOUS
  <1>1. CASE UNCHANGED vars
    BY <1>1 DEF vars, IInv, TypeOK, PlacesFit, SentOnce, HandlerCalled, TargetFirst
  <1>2. CASE Next
    BY <1>2, Cases, MessageKeeps, ResponseKeeps, EndKeeps, SumKeeps, ChargeKeeps,
       ChargeFailsKeeps, ResetKeeps, HandlerMoves
  <1> QED BY <1>1, <1>2

\* Every reachable state of the session satisfies IInv.
LEMMA Safe == Spec => []IInv
  BY InitIInv, NextIInv, PTL DEF Spec

\* The values of a realtime session have their types, however the turns of the reader and of
\* the handler are interleaved and whichever of their charges fail.
THEOREM TypeCorrect == Spec => []TypeOK
  <1>1. IInv => TypeOK BY DEF IInv
  <1> QED BY <1>1, Safe, PTL

-----------------------------------------------------------------------------
\* Nothing is counted twice, unless it is exposed.

\* A message nobody had sent is not counted, not exposed and in no turn when it enters an object.
LEMMA MessageOnce ==
    ASSUME OnceInv, NEW m \in Message, ClientMessage(m) \/ TargetMessage(m) \/ ResponseDone(m)
    PROVE  UncountedYet'
  <1>0. IInv /\ TypeOK /\ UncountedYet /\ SentOnce BY DEF OnceInv, IInv
  <1>1. /\ m \in fresh /\ sumUsage[m] = 0 /\ m \notin exposed
        /\ \A name : Object(name)' \subseteq Object(name) \cup {m}
        /\ UNCHANGED <<sumUsage, owed, exposed>>
    BY <1>0 DEF SentOnce, Object, ClientMessage, TargetMessage, ResponseDone
  <1>2. CountedOnce' BY <1>0, <1>1 DEF UncountedYet, CountedOnce
  <1>3. ASSUME NEW name \in Names PROVE ObjectOnce(name)'
    <2>0. ObjectOnce(name) BY <1>0 DEF UncountedYet
    <2>1. CASE ClientMessage(m) \/ TargetMessage(m)
      <3>1. pc' = pc BY <2>1 DEF ClientMessage, TargetMessage
      <3> QED BY <1>1, <2>0, <3>1 DEF ObjectOnce, TargetSummed, HandlerSummed
    <2>2. CASE ResponseDone(m)
      <3>1. /\ pc["target"] = Reading /\ pc'["handler"] = pc["handler"]
            /\ \E o \in Names : pc'["target"] = Turn("sum", o)
        BY <1>0, <2>2, Moves DEF ResponseDone, Proc, Names
      <3>2. /\ ~TargetSummed(name) /\ ~TargetSummed(name)'
            /\ HandlerSummed(name)' <=> HandlerSummed(name)
            /\ pc["target"] # Ended /\ pc'["target"] # Ended
        BY <3>1, TurnFields DEF TargetSummed, HandlerSummed, Steps, Reading, Ended
      <3> QED BY <1>1, <2>0, <3>2 DEF ObjectOnce
    <2> QED BY <2>1, <2>2
  <1> QED BY <1>2, <1>3 DEF UncountedYet

\* A side that ends leaves the objects as they are.
LEMMA EndOnce ==
    ASSUME OnceInv, ClientEnds \/ TargetEnds
    PROVE  UncountedYet'
  <1>0. IInv /\ TypeOK /\ UncountedYet BY DEF OnceInv, IInv
  <1>1. UNCHANGED <<usage, localUsage, sumUsage, owed, exposed>> BY DEF ClientEnds, TargetEnds
  <1>2. CountedOnce' BY <1>0, <1>1 DEF UncountedYet, CountedOnce
  <1>3. ASSUME NEW name \in Names PROVE ObjectOnce(name)'
    <2>0. ObjectOnce(name) /\ Object(name)' = Object(name) BY <1>0, <1>1 DEF UncountedYet, Object
    <2>1. CASE ClientEnds
      BY <1>1, <2>0, <2>1 DEF ObjectOnce, TargetSummed, HandlerSummed, ClientEnds
    <2>2. CASE TargetEnds
      <3>1. pc["target"] = Reading /\ pc'["target"] = Ended /\ pc'["handler"] = pc["handler"]
        BY <1>0, <2>2, Moves DEF TargetEnds, Proc
      <3>2. /\ ~TargetSummed(name) /\ ~TargetSummed(name)'
            /\ HandlerSummed(name)' <=> HandlerSummed(name)
            /\ pc["target"] # Ended
        BY <3>1, TurnFields DEF TargetSummed, HandlerSummed, Steps, Reading, Ended
      <3> QED BY <1>1, <2>0, <3>1, <3>2 DEF ObjectOnce
    <2> QED BY <2>1, <2>2
  <1> QED BY <1>2, <1>3 DEF UncountedYet

\* What a sum does to the counts of its own object and of the other one.
LEMMA SumDoes ==
    ASSUME OnceInv, NEW p \in Proc, Sum(p)
    PROVE  /\ pc[p].object \in Names
           /\ pc[p] = Turn("sum", pc[p].object) /\ pc'[p] = Turn("check", pc[p].object)
           /\ \A q \in Proc : q # p => pc'[q] = pc[q]
           /\ \A name \in Names : Object(name)' = Object(name) /\ Object(name) \subseteq Message
           /\ \A m \in Message : sumUsage[m] \in Nat
           /\ \A m \in Object(pc[p].object) : sumUsage'[m] = sumUsage[m] + 1
           /\ \A m \in Message \ Object(pc[p].object) : sumUsage'[m] = sumUsage[m]
           /\ owed'[p] = Object(pc[p].object)
           /\ \A q \in Proc : q # p => owed'[q] = owed[q]
           /\ exposed' = IF p = "handler" /\ pc["target"] # Ended
                         THEN exposed \cup Object(pc[p].object) ELSE exposed
           /\ \A name \in Names : name # pc[p].object => Object(name) \cap Object(pc[p].object) = {}
  <1>0. IInv /\ TypeOK /\ PlacesFit /\ SentOnce BY DEF OnceInv, IInv
  <1>1. pc[p].object \in Names /\ pc[p] = Turn("sum", pc[p].object)
    BY <1>0, InStep DEF Sum, Steps
  <1>2. pc'[p] = Turn("check", pc[p].object) /\ \A q \in Proc : q # p => pc'[q] = pc[q]
    BY <1>0, Moves DEF Sum
  <1>3. \A name \in Names : Object(name)' = Object(name) /\ Object(name) \subseteq Message
    BY <1>0, Objects DEF Object, Sum
  <1>4. /\ \A m \in Object(pc[p].object) : sumUsage'[m] = sumUsage[m] + 1
        /\ \A m \in Message \ Object(pc[p].object) : sumUsage'[m] = sumUsage[m]
    BY <1>0, SumKeeps
  <1>5. owed'[p] = Object(pc[p].object) /\ \A q \in Proc : q # p => owed'[q] = owed[q]
    BY <1>0 DEF Sum, TypeOK
  <1>6. exposed' = IF p = "handler" /\ pc["target"] # Ended
                   THEN exposed \cup Object(pc[p].object) ELSE exposed
    BY DEF Sum
  <1>7. \A name \in Names : name # pc[p].object => Object(name) \cap Object(pc[p].object) = {}
    BY <1>0, <1>1 DEF SentOnce, Object, Names
  <1>8. \A m \in Message : sumUsage[m] \in Nat BY <1>0 DEF TypeOK
  <1> QED BY <1>1, <1>2, <1>3, <1>4, <1>5, <1>6, <1>7, <1>8

\* The reader's sum: what it adds was not counted, or only by a handler that came to the object
\* while the reader was at work.
LEMMA TargetSumOnce ==
    ASSUME OnceInv, Sum("target")
    PROVE  UncountedYet'
  <1>0. UncountedYet BY DEF OnceInv
  <1>o. PICK o \in Names : o = pc["target"].object BY SumDoes DEF Proc
  <1>1. /\ o \in Names
        /\ pc["target"] = Turn("sum", o) /\ pc'["target"] = Turn("check", o)
        /\ pc'["handler"] = pc["handler"]
        /\ \A name \in Names : Object(name)' = Object(name) /\ Object(name) \subseteq Message
        /\ \A m \in Message : sumUsage[m] \in Nat
        /\ \A m \in Object(o) : sumUsage'[m] = sumUsage[m] + 1
        /\ \A m \in Message \ Object(o) : sumUsage'[m] = sumUsage[m]
        /\ owed'["target"] = Object(o)
        /\ exposed' = exposed
        /\ \A name \in Names : name # o => Object(name) \cap Object(o) = {}
    BY <1>o, SumDoes DEF Proc
  <1>2. /\ \A name \in Names : ~TargetSummed(name)
        /\ \A name \in Names : name # o => ~TargetSummed(name)'
        /\ TargetSummed(o)'
        /\ \A name \in Names : HandlerSummed(name)' <=> HandlerSummed(name)
        /\ pc["target"] # Ended /\ pc'["target"] # Ended
    BY <1>1, TurnFields DEF TargetSummed, HandlerSummed, Steps, Ended
  <1>3. \A m \in Object(o) : sumUsage[m] <= (IF m \in exposed THEN 1 ELSE 0)
    BY <1>0, <1>1, <1>2 DEF UncountedYet, ObjectOnce
  <1>4. CountedOnce' BY <1>0, <1>1, <1>3 DEF UncountedYet, CountedOnce
  <1>5. ObjectOnce(o)'
    BY <1>0, <1>1, <1>2, <1>3 DEF UncountedYet, ObjectOnce
  <1>6. ASSUME NEW name \in Names, name # o PROVE ObjectOnce(name)'
    BY <1>0, <1>1, <1>2, <1>6 DEF UncountedYet, ObjectOnce
  <1> QED BY <1>4, <1>5, <1>6 DEF UncountedYet

\* The handler's sum: what it adds was counted by the reader at most.
LEMMA HandlerSumOnce ==
    ASSUME OnceInv, Sum("handler")
    PROVE  UncountedYet'
  <1>0. UncountedYet BY DEF OnceInv
  <1>o. PICK o \in Names : o = pc["handler"].object BY SumDoes DEF Proc
  <1>1. /\ o \in Names
        /\ pc["handler"] = Turn("sum", o) /\ pc'["handler"] = Turn("check", o)
        /\ pc'["target"] = pc["target"]
        /\ \A name \in Names : Object(name)' = Object(name) /\ Object(name) \subseteq Message
        /\ \A m \in Message : sumUsage[m] \in Nat
        /\ \A m \in Object(o) : sumUsage'[m] = sumUsage[m] + 1
        /\ \A m \in Message \ Object(o) : sumUsage'[m] = sumUsage[m]
        /\ owed'["target"] = owed["target"]
        /\ exposed' = IF pc["target"] # Ended THEN exposed \cup Object(o) ELSE exposed
        /\ \A name \in Names : name # o => Object(name) \cap Object(o) = {}
    BY <1>o, SumDoes DEF Proc
  <1>2. /\ \A name \in Names : TargetSummed(name)' <=> TargetSummed(name)
        /\ \A name \in Names : TargetSummed(name) => pc["target"] # Ended
        /\ ~HandlerSummed(o) /\ HandlerSummed(o)'
        /\ \A name \in Names : name # o => (HandlerSummed(name)' <=> HandlerSummed(name))
    BY <1>1, TurnFields DEF TargetSummed, HandlerSummed, Steps, Names, Waiting, Ended
  <1>3. CASE pc["target"] = Ended
    <2>1. \A m \in Object(o) : sumUsage[m] <= (IF m \in exposed THEN 1 ELSE 0)
      BY <1>0, <1>1, <1>2, <1>3 DEF UncountedYet, ObjectOnce
    <2>2. CountedOnce' BY <1>0, <1>1, <1>3, <2>1 DEF UncountedYet, CountedOnce
    <2>3. ObjectOnce(o)' BY <1>1, <1>2, <1>3 DEF ObjectOnce
    <2>4. ASSUME NEW name \in Names, name # o PROVE ObjectOnce(name)'
      BY <1>0, <1>1, <1>2, <1>3, <2>4 DEF UncountedYet, ObjectOnce
    <2> QED BY <2>2, <2>3, <2>4 DEF UncountedYet
  <1>4. CASE pc["target"] # Ended
    <2>1. \A m \in Object(o) : m \notin exposed /\ m \in exposed' /\ sumUsage[m] <= 1
                               /\ (~TargetSummed(o) => sumUsage[m] = 0)
      BY <1>0, <1>1, <1>2, <1>4 DEF UncountedYet, ObjectOnce
    <2>2. CountedOnce' BY <1>0, <1>1, <1>4, <2>1 DEF UncountedYet, CountedOnce
    <2>3. ObjectOnce(o)' BY <1>1, <1>2, <1>4, <2>1 DEF ObjectOnce
    <2>4. ASSUME NEW name \in Names, name # o PROVE ObjectOnce(name)'
      BY <1>0, <1>1, <1>2, <1>4, <2>4 DEF UncountedYet, ObjectOnce
    <2> QED BY <2>2, <2>3, <2>4 DEF UncountedYet
  <1> QED BY <1>3, <1>4

\* A turn that is checked and charged keeps its place past the sum, and owes no less.
LEMMA ChargeOnce ==
    ASSUME OnceInv, NEW p \in Proc, CheckQuota(p) \/ Charge(p)
    PROVE  UncountedYet'
  <1> DEFINE o == pc[p].object
  <1>0. IInv /\ TypeOK /\ UncountedYet BY DEF OnceInv, IInv
  <1>1. /\ o \in Names
        /\ \/ pc[p] = Turn("check", o) /\ pc'[p] = Turn("charge", o)
           \/ pc[p] = Turn("charge", o) /\ pc'[p] = Turn("reset", o)
        /\ \A q \in Proc : q # p => pc'[q] = pc[q]
    BY <1>0, ChargeKeeps
  <1>2. /\ \A name \in Names : TargetSummed(name)' <=> TargetSummed(name)
        /\ \A name \in Names : HandlerSummed(name)' <=> HandlerSummed(name)
        /\ pc'["target"] # Ended <=> pc["target"] # Ended
    BY <1>1, TurnFields DEF TargetSummed, HandlerSummed, Steps, Names, Proc, Waiting, Ended
  <1>3. /\ UNCHANGED <<usage, localUsage, sumUsage, exposed>>
        /\ owed["target"] \subseteq owed'["target"]
    BY <1>0 DEF CheckQuota, Charge, TypeOK, Proc
  <1>4. \A name : Object(name)' = Object(name) BY <1>3 DEF Object
  <1>5. CountedOnce' BY <1>0, <1>3 DEF UncountedYet, CountedOnce
  <1>6. ASSUME NEW name \in Names PROVE ObjectOnce(name)'
    <2>1. ObjectOnce(name) BY <1>0 DEF UncountedYet
    <2>2. \A m \in Object(name) : sumUsage[m] \in Nat BY <1>0, Objects DEF TypeOK
    <2> QED BY <1>2, <1>3, <1>4, <2>1, <2>2 DEF ObjectOnce
  <1> QED BY <1>5, <1>6 DEF UncountedYet

\* A reader that goes with its turn uncharged leaves what it has summed exposed.
LEMMA ChargeFailsOnce ==
    ASSUME OnceInv, NEW p \in Proc, ChargeFails(p)
    PROVE  UncountedYet'
  <1> DEFINE o == pc[p].object
  <1>0. IInv /\ TypeOK /\ UncountedYet BY DEF OnceInv, IInv
  <1>1. /\ o \in Names /\ pc[p] \in {Turn("check", o), Turn("charge", o)}
        /\ \/ p = "target" /\ pc'["target"] = Ended /\ pc'["handler"] = pc["handler"]
           \/ p = "handler" /\ pc'["handler"] = Turn("reset", o) /\ pc'["target"] = pc["target"]
    BY <1>0, ChargeFailsKeeps
  <1>2. /\ UNCHANGED <<usage, localUsage, sumUsage, owed>>
        /\ exposed' = IF p = "target" THEN exposed \cup owed["target"] ELSE exposed
    BY DEF ChargeFails
  <1>3. \A name : Object(name)' = Object(name) BY <1>2 DEF Object
  <1>4. \A m \in Message : sumUsage[m] \in Nat BY <1>0 DEF TypeOK
  <1>5. CountedOnce' BY <1>0, <1>2, <1>4 DEF UncountedYet, CountedOnce
  <1>6. ASSUME NEW name \in Names PROVE ObjectOnce(name)'
    <2>1. ObjectOnce(name) BY <1>0 DEF UncountedYet
    <2>2. \A m \in Object(name) : sumUsage[m] \in Nat BY <1>0, <1>4, Objects
    <2>3. HandlerSummed(name)' <=> HandlerSummed(name)
      BY <1>1, TurnFields DEF HandlerSummed, Steps, Names, Waiting, Ended
    <2>4. CASE p = "handler"
      <3>1. TargetSummed(name)' <=> TargetSummed(name) BY <1>1, <2>4 DEF TargetSummed
      <3> QED BY <1>1, <1>2, <1>3, <2>1, <2>3, <2>4, <3>1 DEF ObjectOnce
    <2>5. CASE p = "target"
      <3>1. pc["target"] # Ended /\ pc'["target"] = Ended /\ ~TargetSummed(name)'
        BY <1>1, <2>5, TurnFields DEF TargetSummed, Steps, Ended
      <3> QED BY <1>2, <1>3, <2>1, <2>2, <2>3, <2>5, <3>1 DEF ObjectOnce
    <2> QED BY <2>4, <2>5, <1>1
  <1> QED BY <1>5, <1>6 DEF UncountedYet

\* A reset empties the object its turn has summed.
LEMMA ResetOnce ==
    ASSUME OnceInv, Reset
    PROVE  UncountedYet'
  <1> DEFINE o == pc["target"].object
  <1>0. IInv /\ UncountedYet BY DEF OnceInv
  <1>1. /\ o \in Names
        /\ pc["target"] = Turn("reset", o)
        /\ pc'["target"] = Reading /\ pc'["handler"] = pc["handler"]
    BY <1>0, ResetKeeps
  <1>2. /\ localUsage' = {} /\ usage' = IF o = "usage" THEN {} ELSE usage
        /\ UNCHANGED <<sumUsage, owed, exposed>>
    BY DEF Reset
  <1>3. CountedOnce' BY <1>0, <1>2 DEF UncountedYet, CountedOnce
  <1>4. ASSUME NEW name \in Names PROVE ObjectOnce(name)'
    <2>1. CASE name = "local" \/ o = "usage"
      <3>1. Object(name)' = {} BY <1>2, <2>1 DEF Object, Names
      <3> QED BY <3>1 DEF ObjectOnce
    <2>2. CASE name = "usage" /\ o = "local"
      <3>1. Object(name)' = Object(name) BY <1>2, <2>2 DEF Object
      <3>2. /\ ~TargetSummed(name) /\ ~TargetSummed(name)'
            /\ pc["target"] # Ended /\ pc'["target"] # Ended
            /\ HandlerSummed(name)' <=> HandlerSummed(name)
        BY <1>1, <2>2, TurnFields DEF TargetSummed, HandlerSummed, Steps, Reading, Ended
      <3> QED BY <1>0, <1>2, <3>1, <3>2 DEF UncountedYet, ObjectOnce
    <2> QED BY <2>1, <2>2, <1>1 DEF Names
  <1> QED BY <1>3, <1>4 DEF UncountedYet

\* The handler comes to an object before it is summed, and passes it by only when it is empty.
LEMMA HandlerOnce ==
    ASSUME OnceInv, Select \/ FlushLocal \/ Settle
    PROVE  UncountedYet'
  <1>0. IInv /\ UncountedYet BY DEF OnceInv
  <1>1. UNCHANGED <<usage, localUsage, sumUsage, owed, exposed>> /\ pc'["target"] = pc["target"]
    BY <1>0, HandlerMoves DEF Select, FlushLocal, Settle
  <1>2. /\ \A name : TargetSummed(name)' <=> TargetSummed(name)
        /\ \A name : Object(name)' = Object(name)
    BY <1>1 DEF TargetSummed, Object
  <1>3. CountedOnce' BY <1>0, <1>1 DEF UncountedYet, CountedOnce
  <1>4. ASSUME NEW name \in Names PROVE (HandlerSummed(name)' <=> HandlerSummed(name)) \/ Object(name) = {}
    <2>1. CASE Select
      BY <1>0, <2>1, HandlerMoves, TurnFields DEF HandlerSummed, Object, Names, Steps, Waiting, Ended
    <2>2. CASE FlushLocal
      BY <1>0, <2>2, HandlerMoves, TurnFields DEF HandlerSummed, Object, Names, Steps, Waiting, Ended
    <2>3. CASE Settle
      BY <1>0, <2>3, HandlerMoves, TurnFields DEF HandlerSummed, Object, Names, Steps, Waiting, Ended
    <2> QED BY <2>1, <2>2, <2>3
  <1>5. ASSUME NEW name \in Names PROVE ObjectOnce(name)'
    BY <1>0, <1>1, <1>2, <1>4 DEF UncountedYet, ObjectOnce
  <1> QED BY <1>3, <1>5 DEF UncountedYet

\* OnceInv is inductive.
LEMMA NextOnce == OnceInv /\ [Next]_vars => OnceInv'
  <1> SUFFICES ASSUME OnceInv, [Next]_vars PROVE OnceInv' OBVIOUS
  <1>0. IInv' BY NextIInv DEF OnceInv
  <1>1. CASE UNCHANGED vars
    BY <1>0, <1>1 DEF vars, OnceInv, UncountedYet, CountedOnce, ObjectOnce, Object, TargetSummed,
       HandlerSummed
  <1>2. CASE Next
    <2>1. \A p \in Proc : Sum(p) => UncountedYet' BY TargetSumOnce, HandlerSumOnce DEF Proc
    <2>2. UncountedYet'
      BY <1>2, <2>1, Cases, MessageOnce, EndOnce, ChargeOnce, ChargeFailsOnce, ResetOnce,
         HandlerOnce
    <2> QED BY <1>0, <2>2 DEF OnceInv
  <1> QED BY <1>1, <1>2

\* The total of a session holds every message at most twice, and twice only when the reader's
\* turn failed after its sum or the handler flushed while the reader was still at work, for
\* every number of messages and whichever charges fail.
THEOREM CountedAtMostOnce == Spec => []CountedOnce
  <1>1. Init => OnceInv
    <2> SUFFICES ASSUME Init PROVE OnceInv OBVIOUS
    <2>1. \A name : Object(name) = {} BY DEF Init, Object
    <2>2. CountedOnce
      <3> SUFFICES ASSUME NEW m \in Message PROVE sumUsage[m] <= (IF m \in exposed THEN 2 ELSE 1)
        BY DEF CountedOnce
      <3>1. sumUsage[m] = 0 /\ m \notin exposed BY DEF Init
      <3> QED BY <3>1
    <2> QED BY <2>1, <2>2, InitIInv DEF OnceInv, UncountedYet, ObjectOnce
  <1>2. OnceInv => CountedOnce BY DEF OnceInv, UncountedYet
  <1> QED BY <1>1, <1>2, NextOnce, PTL DEF Spec

-----------------------------------------------------------------------------
\* Nothing reported is left out.

\* A message keeps a handler waiting as it is; a reported one enters usage while the reader reads.
LEMMA MessageKept ==
    ASSUME KeptInv, NEW m \in Message,
           ClientMessage(m) \/ TargetMessage(m) \/ ResponseDone(m)
    PROVE  ReportsKept'
  <1>0. IInv /\ TypeOK /\ ReportsKept BY DEF KeptInv, IInv
  <1>1. CASE ClientMessage(m) \/ TargetMessage(m)
    BY <1>0, <1>1 DEF ReportsKept, TargetSummed, ClientMessage, TargetMessage
  <1>2. CASE ResponseDone(m)
    <2>1. pc["target"] = Reading BY <1>2 DEF ResponseDone
    <2>2. ~hungUp => pc["handler"] = Waiting
      BY <1>0, <2>1, TargetGone, TurnFields DEF Reading, Ended
    <2>3. pc'["handler"] = pc["handler"]
          /\ \E o \in Names : pc'["target"] = Turn("sum", o)
      BY <1>0, <1>2, Moves DEF ResponseDone, Proc, Names
    <2>4. ~TargetSummed("usage")'
      BY <2>3, TurnFields DEF TargetSummed, Steps
    <2>5. \A n \in reported' : n \in usage' \/ sumUsage'[n] >= 1
      BY <1>0, <1>2 DEF ReportsKept, ResponseDone
    <2> QED BY <1>2, <2>2, <2>3, <2>4, <2>5 DEF ReportsKept, ResponseDone
  <1> QED BY <1>1, <1>2

\* A side that ends changes neither what is reported nor what is counted.
LEMMA EndKept ==
    ASSUME KeptInv, ClientEnds \/ TargetEnds
    PROVE  ReportsKept'
  <1>0. IInv /\ TypeOK /\ ReportsKept BY DEF KeptInv, IInv
  <1>1. CASE ClientEnds
    <2>1. ~hungUp' => ~hungUp BY <1>1 DEF ClientEnds
    <2> QED BY <1>0, <1>1, <2>1 DEF ReportsKept, TargetSummed, ClientEnds
  <1>2. CASE TargetEnds
    <2>1. pc'["target"] = Ended /\ pc'["handler"] = pc["handler"]
      BY <1>0, <1>2, Moves DEF TargetEnds, Proc
    <2>2. ~TargetSummed("usage")' BY <2>1, TurnFields DEF TargetSummed, Steps, Ended
    <2> QED BY <1>0, <1>2, <2>1, <2>2 DEF ReportsKept, TargetEnds
  <1> QED BY <1>1, <1>2

\* The sum of usage puts all that was reported into the total, and the total never shrinks.
LEMMA SumKept ==
    ASSUME KeptInv, NEW p \in Proc, Sum(p)
    PROVE  ReportsKept'
  <1> DEFINE o == pc[p].object
  <1>0. IInv /\ TypeOK /\ PlacesFit /\ ReportsKept BY DEF KeptInv, IInv
  <1>1. o \in Names /\ pc[p] = Turn("sum", o)
    BY <1>0, InStep DEF Sum, Steps
  <1>2. pc'[p] = Turn("check", o) /\ \A q \in Proc : q # p => pc'[q] = pc[q]
    BY <1>0, Moves DEF Sum
  <1>3. UNCHANGED <<usage, localUsage, reported, hungUp>> BY DEF Sum
  <1>4. /\ \A m \in Message : sumUsage'[m] >= sumUsage[m]
        /\ \A m \in Object(o) : sumUsage'[m] >= 1
    <2>1. /\ \A m \in Object(o) : sumUsage'[m] = sumUsage[m] + 1
          /\ \A m \in Message \ Object(o) : sumUsage'[m] = sumUsage[m]
      BY <1>0, SumKeeps
    <2>2. Object(o) \subseteq Message BY <1>0, Objects
    <2>3. \A m \in Message : sumUsage[m] \in Nat BY <1>0 DEF TypeOK
    <2> QED BY <2>1, <2>2, <2>3
  <1>5. \A m \in Message : sumUsage[m] >= 1 => sumUsage'[m] >= 1
    <2>1. \A m \in Message : sumUsage[m] \in Nat /\ sumUsage'[m] \in Nat
      BY <1>0, SumKeeps DEF IInv, TypeOK
    <2> QED BY <1>4, <2>1
  <1>6. reported \subseteq Message /\ usage \subseteq Message BY <1>0 DEF TypeOK
  <1>7. \A m \in reported' : m \in usage' \/ sumUsage'[m] >= 1
    BY <1>0, <1>3, <1>5, <1>6 DEF ReportsKept
  <1>8. TargetSummed("usage")' => \A m \in usage' : sumUsage'[m] >= 1
    <2>1. CASE o = "usage" BY <2>1, <1>3, <1>4 DEF Object
    <2>2. CASE o = "local"
      <3>1. TargetSummed("usage")' => TargetSummed("usage")
        BY <2>2, <1>2, TurnFields DEF TargetSummed, Steps, Proc
      <3> QED BY <3>1, <1>0, <1>3, <1>5, <1>6 DEF ReportsKept
    <2> QED BY <2>1, <2>2, <1>1 DEF Names
  <1>9. ~hungUp' /\ pc'["handler"] \notin {Waiting, Turn("sum", "usage")}
           => \A m \in reported' : sumUsage'[m] >= 1
    <2>1. CASE o = "usage"
      <3>1. \A m \in reported' : sumUsage'[m] >= 1
        BY <2>1, <1>0, <1>3, <1>4, <1>5, <1>6 DEF ReportsKept, Object
      <3> QED BY <3>1
    <2>2. CASE o = "local"
      <3>1. pc'["handler"] \notin {Waiting, Turn("sum", "usage")}
               => pc["handler"] \notin {Waiting, Turn("sum", "usage")}
        BY <2>2, <1>1, <1>2, TurnFields DEF Proc, Waiting
      <3> QED BY <3>1, <1>0, <1>3, <1>5, <1>6 DEF ReportsKept
    <2> QED BY <2>1, <2>2, <1>1 DEF Names
  <1> QED BY <1>7, <1>8, <1>9 DEF ReportsKept

\* A charge, paid or not, comes after the sum of its object.
LEMMA ChargeKept ==
    ASSUME KeptInv, NEW p \in Proc, CheckQuota(p) \/ Charge(p) \/ ChargeFails(p)
    PROVE  ReportsKept'
  <1> DEFINE o == pc[p].object
  <1>0. IInv /\ ReportsKept BY DEF KeptInv
  <1>1. /\ o \in Names /\ pc[p] \in {Turn("check", o), Turn("charge", o)}
        /\ pc'[p] \in {Turn("charge", o), Turn("reset", o)} \/ (p = "target" /\ pc'[p] = Ended)
        /\ \A q \in Proc : q # p => pc'[q] = pc[q]
    BY <1>0, ChargeKeeps, ChargeFailsKeeps DEF Proc
  <1>2. TargetSummed("usage")' => TargetSummed("usage")
    BY <1>1, TurnFields DEF TargetSummed, Steps, Proc, Ended
  <1>3. pc'["handler"] \notin {Waiting, Turn("sum", "usage")}
           => pc["handler"] \notin {Waiting, Turn("sum", "usage")}
    BY <1>1, TurnFields DEF Proc, Waiting
  <1>4. UNCHANGED <<usage, reported, sumUsage, hungUp>>
    BY DEF CheckQuota, Charge, ChargeFails
  <1> QED BY <1>0, <1>2, <1>3, <1>4 DEF ReportsKept

\* A reset of usage drops what is in the total already.
LEMMA ResetKept ==
    ASSUME KeptInv, Reset
    PROVE  ReportsKept'
  <1>0. IInv /\ ReportsKept BY DEF KeptInv
  <1>1. /\ pc["target"].object \in Names
        /\ pc["target"] = Turn("reset", pc["target"].object)
        /\ pc'["target"] = Reading /\ pc'["handler"] = pc["handler"]
    BY <1>0, ResetKeeps
  <1>2. UNCHANGED <<sumUsage, reported, hungUp>> BY DEF Reset
  <1>3. ~TargetSummed("usage")' BY <1>1, TurnFields DEF TargetSummed, Steps, Reading
  <1>4. \A m \in reported' : m \in usage' \/ sumUsage'[m] >= 1
    <2>1. CASE pc["target"].object = "usage"
      <3>1. TargetSummed("usage") BY <1>1, <2>1 DEF TargetSummed, Steps
      <3> QED BY <1>0, <1>2, <3>1 DEF ReportsKept
    <2>2. CASE pc["target"].object = "local"
      BY <1>0, <1>2, <2>2 DEF ReportsKept, Reset
    <2> QED BY <1>1, <2>1, <2>2 DEF Names
  <1> QED BY <1>0, <1>1, <1>2, <1>3, <1>4 DEF ReportsKept

\* The handler passes usage by only when it is empty: all that was reported is in the total.
LEMMA HandlerKept ==
    ASSUME KeptInv, Select \/ FlushLocal \/ Settle
    PROVE  ReportsKept'
  <1>0. IInv /\ ReportsKept BY DEF KeptInv
  <1>1. UNCHANGED <<usage, reported, sumUsage, hungUp>> /\ pc'["target"] = pc["target"]
    BY <1>0, HandlerMoves DEF Select, FlushLocal, Settle
  <1>2. TargetSummed("usage")' <=> TargetSummed("usage") BY <1>1 DEF TargetSummed
  <1>3. CASE Select
    BY <1>0, <1>1, <1>2, <1>3, HandlerMoves DEF ReportsKept
  <1>4. CASE FlushLocal \/ Settle
    <2>1. pc["handler"] \notin {Waiting, Turn("sum", "usage")}
      BY <1>0, <1>4, HandlerMoves, TurnFields DEF Waiting
    <2> QED BY <1>0, <1>1, <1>2, <2>1 DEF ReportsKept
  <1> QED BY <1>3, <1>4

\* KeptInv is inductive.
LEMMA NextKept == KeptInv /\ [Next]_vars => KeptInv'
  <1> SUFFICES ASSUME KeptInv, [Next]_vars PROVE KeptInv' OBVIOUS
  <1>0. IInv' BY NextIInv DEF KeptInv
  <1>1. CASE UNCHANGED vars
    BY <1>0, <1>1 DEF vars, KeptInv, ReportsKept, TargetSummed
  <1>2. CASE Next
    <2>1. ReportsKept'
      BY <1>2, Cases, MessageKept, EndKept, SumKept, ChargeKept, ResetKept, HandlerKept
    <2> QED BY <1>0, <2>1 DEF KeptInv
  <1> QED BY <1>1, <1>2

\* When a session that the client has not hung up on is settled, every usage the upstream has
\* reported is in its total, whether or not the user could pay the turns.
THEOREM ReportsAreSettled == Spec => []ReportedSettled
  <1>1. Init => KeptInv
    <2> SUFFICES ASSUME Init PROVE KeptInv OBVIOUS
    <2>1. usage = {} /\ reported = {} BY DEF Init
    <2> QED BY <2>1, InitIInv DEF KeptInv, ReportsKept
  <1>2. KeptInv => ReportedSettled
    BY TurnFields DEF KeptInv, IInv, HandlerCalled, ReportsKept, ReportedSettled, Ended, Waiting
  <1> QED BY <1>1, <1>2, NextKept, PTL DEF Spec
=============================================================================
