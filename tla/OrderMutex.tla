----------------------------- MODULE OrderMutex -----------------------------
(***************************************************************************)
(* What LockOrder and UnlockOrder (controller/topup.go) promise to the     *)
(* handlers of a process: the handlers of one order work one at a time,    *)
(* those of different orders do not wait for each other.                   *)
(***************************************************************************)
CONSTANTS Handlers, Orders

VARIABLES
    phase,  \* each handler is "out", "waiting" or "in"
    wants   \* the order it asked for last

mvars == <<phase, wants>>

MInit == phase = [h \in Handlers |-> "out"] /\ wants \in [Handlers -> Orders]

Ask(h, o) ==
    /\ phase[h] = "out"
    /\ phase' = [phase EXCEPT ![h] = "waiting"] /\ wants' = [wants EXCEPT ![h] = o]

Enter(h) ==
    /\ phase[h] = "waiting"
    /\ \A g \in Handlers : ~(phase[g] = "in" /\ wants[g] = wants[h])
    /\ phase' = [phase EXCEPT ![h] = "in"] /\ UNCHANGED wants

Leave(h) ==
    /\ phase[h] = "in"
    /\ phase' = [phase EXCEPT ![h] = "out"] /\ UNCHANGED wants

MNext == \E h \in Handlers : (\E o \in Orders : Ask(h, o)) \/ Enter(h) \/ Leave(h)

MSpec == MInit /\ [][MNext]_mvars
============================================================================
