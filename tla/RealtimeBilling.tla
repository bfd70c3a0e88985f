--------------------------- MODULE RealtimeBilling ---------------------------
(***************************************************************************)
(* Billing of a realtime (web socket) session: OpenaiRealtimeHandler and   *)
(* preConsumeUsage (relay/channel/openai/relay_realtime.go), the charge of *)
(* one turn, PreWssConsumeQuota, and the settlement of the session,        *)
(* PostWssConsumeQuota (service/quota.go), under WssHelper                 *)
(* (relay/websocket.go), which closes the upstream connection.             *)
(*                                                                         *)
(* Two goroutines read the two connections and a third, the handler, waits *)
(* for one of them to end; they share usage, localUsage and sumUsage       *)
(* without a lock.  A number of tokens is the set of the messages it       *)
(* counts; sumUsage and taken count how often each message is in the total *)
(* and in what the user's account was charged.  The account is shared with *)
(* the user's other requests, so it may be short at any check.             *)
(***************************************************************************)
EXTENDS Integers

CONSTANT Message      \* the messages of the session

VARIABLES fresh,       \* messages that nobody has sent yet
          usage,       \* tokens of responses the upstream has reported the usage of
          localUsage,  \* tokens the gateway has counted itself
          sumUsage,    \* per message: how often it is in sumUsage
          taken,       \* per message: how often the account was charged for it
          client,      \* the client's reader: "read" or "ended"
          pc,          \* the target's reader and the handler: where they are in a turn
          owed,        \* per process: what its turn has summed, then what it charges
          closed,      \* clientClosed, targetClosed and errChan: who has ended
          reported,    \* history: the responses whose usage the upstream has reported
          settled,     \* PostWssConsumeQuota has settled the session
          hungUp,      \* history: the client is the side that has ended the session
          exposed      \* history: the messages summed in a turn of the reader that could not
                       \* be charged, or by the handler while the reader was still at work

vars == <<fresh, usage, localUsage, sumUsage, taken, client, pc, owed, closed, reported, settled,
          hungUp, exposed>>

Proc == {"target", "handler"}
\* In preConsumeUsage on the object named: before the sum, before PreWssConsumeQuota has checked
\* the account, before it takes the quota, after it.
Turn(step, object) == [step |-> step, object |-> object]
Reading == Turn("read", "usage")
Waiting == Turn("select", "usage")
Ended == Turn("ended", "usage")

Goto(p, at) == pc' = [pc EXCEPT ![p] = at]
Plus(count, messages) == [m \in Message |-> IF m \in messages THEN count[m] + 1 ELSE count[m]]
Object(name) == IF name = "usage" THEN usage ELSE localUsage

Init ==
    /\ fresh = Message
    /\ usage = {} /\ localUsage = {}
    /\ sumUsage = [m \in Message |-> 0] /\ taken = [m \in Message |-> 0]
    /\ client = "read"
    /\ pc = [p \in Proc |-> IF p = "target" THEN Reading ELSE Waiting]
    /\ owed = [p \in Proc |-> {}]
    /\ closed = {} /\ reported = {} /\ settled = FALSE /\ hungUp = FALSE /\ exposed = {}

-----------------------------------------------------------------------------
\* The readers.  Once the handler has returned, both connections are closed.

\* A message of the client is counted and passed on.
ClientMessage(m) ==
    /\ client = "read" /\ pc["handler"] # Ended /\ m \in fresh
    /\ fresh' = fresh \ {m}
    /\ localUsage' = localUsage \cup {m}
    /\ UNCHANGED <<usage, sumUsage, taken, client, pc, owed, closed, reported, settled, hungUp,
                   exposed>>

\* The client closes its connection, or it or a message of it fails.
ClientEnds ==
    /\ client = "read"
    /\ client' = "ended" /\ closed' = closed \cup {"client"}
    /\ hungUp' = (hungUp \/ (pc["handler"] # Ended /\ pc["target"] # Ended))
    /\ UNCHANGED <<fresh, usage, localUsage, sumUsage, taken, pc, owed, reported, settled, exposed>>

\* An output of the upstream is counted and passed on.
TargetMessage(m) ==
    /\ pc["target"] = Reading /\ pc["handler"] # Ended /\ m \in fresh
    /\ fresh' = fresh \ {m}
    /\ localUsage' = localUsage \cup {m}
    /\ UNCHANGED <<usage, sumUsage, taken, client, pc, owed, closed, reported, settled, hungUp,
                   exposed>>

\* response.done, with the usage reported or without it.
ResponseDone(m) ==
    /\ pc["target"] = Reading /\ pc["handler"] # Ended /\ m \in fresh
    /\ fresh' = fresh \ {m}
    /\ \/ /\ usage' = usage \cup {m} /\ reported' = reported \cup {m}
          /\ Goto("target", Turn("sum", "usage"))
          /\ UNCHANGED localUsage
       \/ /\ localUsage' = localUsage \cup {m}
          /\ Goto("target", Turn("sum", "local"))
          /\ UNCHANGED <<usage, reported>>
    /\ UNCHANGED <<sumUsage, taken, client, owed, closed, settled, hungUp, exposed>>

TargetEnds ==
    /\ pc["target"] = Reading
    /\ Goto("target", Ended) /\ closed' = closed \cup {"target"}
    /\ UNCHANGED <<fresh, usage, localUsage, sumUsage, taken, client, owed, reported, settled, hungUp, exposed>>

-----------------------------------------------------------------------------
\* One turn: preConsumeUsage and what follows it.

\* Variant: a turn is charged and not added to the total.
SumNothing(p) ==
    /\ pc[p].step = "sum"
    /\ Goto(p, Turn("check", pc[p].object))
    /\ UNCHANGED <<fresh, usage, localUsage, sumUsage, taken, client, owed, closed, reported,
                   settled, hungUp, exposed>>

\* totalUsage += usage.  Two sums at once may lose one of them, which the model leaves out: the
\* total is then smaller, and the client has hung up.
Sum(p) ==
    LET summed == Object(pc[p].object)
    IN /\ pc[p].step = "sum"
       /\ sumUsage' = Plus(sumUsage, summed)
       /\ owed' = [owed EXCEPT ![p] = summed]
       /\ Goto(p, Turn("check", pc[p].object))
       /\ exposed' = IF p = "handler" /\ pc["target"] # Ended THEN exposed \cup summed ELSE exposed
       /\ UNCHANGED <<fresh, usage, localUsage, taken, client, closed, reported, settled, hungUp>>

\* PreWssConsumeQuota finds enough in the account and in the token.  It prices what the object
\* counts by now, the client's messages since the sum included; the handler keeps the object it
\* has summed, though the reader has put a new one in its place.
CheckQuota(p) ==
    LET object == Object(pc[p].object)
    IN /\ pc[p].step = "check"
       /\ owed' = [owed EXCEPT ![p] = IF @ \subseteq object THEN object ELSE @]
       /\ Goto(p, Turn("charge", pc[p].object))
       /\ UNCHANGED <<fresh, usage, localUsage, sumUsage, taken, client, closed, reported, settled,
                      hungUp, exposed>>

\* PostConsumeQuota takes it, whatever is left in the account by then.
Charge(p) ==
    /\ pc[p].step = "charge"
    /\ taken' = Plus(taken, owed[p])
    /\ Goto(p, Turn("reset", pc[p].object))
    /\ UNCHANGED <<fresh, usage, localUsage, sumUsage, client, owed, closed, reported, settled,
                   hungUp, exposed>>

\* A read fails, the account or the token is short, or PostConsumeQuota fails, which may be
\* after the account has paid, at the token: the reader ends with an error, the handler goes on.
ChargeFails(p) ==
    /\ \/ pc[p].step = "check" /\ UNCHANGED taken
       \/ pc[p].step = "charge" /\ taken' \in {taken, Plus(taken, owed[p])}
    /\ \/ /\ p = "target" /\ Goto(p, Ended)
          /\ closed' = closed \cup {"target"} /\ exposed' = exposed \cup owed[p]
       \/ /\ p = "handler" /\ Goto(p, Turn("reset", pc[p].object))
          /\ UNCHANGED <<closed, exposed>>
    /\ UNCHANGED <<fresh, usage, localUsage, sumUsage, client, owed, reported, settled, hungUp>>

\* Variant: the reported usage is kept for the next turn.
ResetLocal ==
    /\ pc["target"].step = "reset"
    /\ localUsage' = {}
    /\ Goto("target", Reading)
    /\ UNCHANGED <<fresh, usage, sumUsage, taken, client, owed, closed, reported, settled, hungUp,
                   exposed>>

\* The reader starts the next turn with new objects.
Reset ==
    /\ pc["target"].step = "reset"
    /\ usage' = IF pc["target"].object = "usage" THEN {} ELSE usage
    /\ localUsage' = {}
    /\ Goto("target", Reading)
    /\ UNCHANGED <<fresh, sumUsage, taken, client, owed, closed, reported, settled, hungUp,
                   exposed>>

-----------------------------------------------------------------------------
\* The handler.

\* The handler has come to the object named: it takes a turn if that is not empty.
Flush(name, next) == Goto("handler", IF Object(name) # {} THEN Turn("sum", name) ELSE next)

\* Variant: the handler waits for the client alone.
SelectClient ==
    /\ pc["handler"] = Waiting /\ "client" \in closed
    /\ Flush("usage", Turn("reset", "usage"))
    /\ UNCHANGED <<fresh, usage, localUsage, sumUsage, taken, client, owed, closed, reported, settled, hungUp,
                   exposed>>

\* One of the channels of the select is ready.
Select ==
    /\ pc["handler"] = Waiting /\ closed # {}
    /\ Flush("usage", Turn("reset", "usage"))
    /\ UNCHANGED <<fresh, usage, localUsage, sumUsage, taken, client, owed, closed, reported, settled, hungUp,
                   exposed>>

FlushLocal ==
    /\ pc["handler"] = Turn("reset", "usage")
    /\ Flush("local", Turn("reset", "local"))
    /\ UNCHANGED <<fresh, usage, localUsage, sumUsage, taken, client, owed, closed, reported, settled, hungUp,
                   exposed>>

\* OpenaiRealtimeHandler returns; PostWssConsumeQuota charges the account for sumUsage, the
\* reservation included, or logs that it could not; WssHelper and Relay close the connections.
Settle ==
    /\ pc["handler"] = Turn("reset", "local")
    /\ settled' = TRUE
    /\ taken' \in {taken, [m \in Message |-> taken[m] + sumUsage[m]]}
    /\ Goto("handler", Ended)
    /\ UNCHANGED <<fresh, usage, localUsage, sumUsage, client, owed, closed, reported, hungUp, exposed>>

PreConsumeUsage(p) == Sum(p) \/ CheckQuota(p) \/ Charge(p) \/ ChargeFails(p)
Handler == Select \/ FlushLocal \/ Settle \/ PreConsumeUsage("handler")
Target == Reset \/ PreConsumeUsage("target")

Next ==
    \/ \E m \in Message : ClientMessage(m) \/ TargetMessage(m) \/ ResponseDone(m)
    \/ ClientEnds \/ TargetEnds
    \/ Handler \/ Target

Spec == Init /\ [][Next]_vars

\* The goroutines go on with what they have begun.  Nothing is assumed of the two
\* connections, except that a reader notices that its connection was closed.
FairSpec ==
    /\ Spec
    /\ WF_vars(Handler) /\ WF_vars(Target)
    /\ WF_vars(pc["handler"] = Ended /\ (ClientEnds \/ TargetEnds))

-----------------------------------------------------------------------------
\* Properties.

\* Values of the session.
TypeOK ==
    /\ fresh \subseteq Message /\ usage \subseteq Message /\ localUsage \subseteq Message
    /\ sumUsage \in [Message -> Nat] /\ taken \in [Message -> Nat]
    /\ client \in {"read", "ended"}
    /\ pc \in [Proc -> [step : {"read", "select", "sum", "check", "charge", "reset", "ended"},
                        object : {"usage", "local"}]]
    /\ owed \in [Proc -> SUBSET Message]
    /\ closed \subseteq {"client", "target"}
    /\ reported \subseteq Message /\ settled \in BOOLEAN
    /\ hungUp \in BOOLEAN /\ exposed \subseteq Message

\* The usage of a turn is in the total that the session is settled with at most once, though
\* the reader and the handler both add to it, and never more than twice: twice only when the
\* charge of the reader's turn failed after its sum, or when the handler flushed while the
\* reader was still at work (preConsumeUsage sums first and the handler's flush has no lock).
CountedOnce == \A m \in Message : sumUsage[m] <= (IF m \in exposed THEN 2 ELSE 1)

\* Every usage the upstream has reported is in the total when the session is settled,
\* whatever the client sends meanwhile and whether the turns could be charged, if the upstream
\* is the side that ends it.
ReportedSettled == settled /\ ~hungUp => \A m \in reported : sumUsage[m] >= 1

\* A message of the session is paid once: by its turn or by the settlement.
PaidOnce == settled => \A m \in Message : taken[m] <= 1

\* Once a side has ended, the session is settled and both readers end, whatever the
\* other side does.
SessionEnds == closed # {} ~> settled /\ client = "ended" /\ pc["target"] = Ended
=============================================================================
