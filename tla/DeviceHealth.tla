------------------------------ MODULE DeviceHealth ------------------------------
(***************************************************************************)
(* What Core is promised about the health of each configured device: it is *)
(* unset until the first read, then online or offline as the last read     *)
(* ended, and an event announces a read only when it changes that.         *)
(***************************************************************************)
CONSTANT Configs

VARIABLES
    health,      \* of each configuration: "absent" while it is not registered
    announced    \* the last health event of the registration

vars == <<health, announced>>

Init ==
    /\ health = [c \in Configs |-> "absent"]
    /\ announced = [c \in Configs |-> "none"]

Set(c, value, event) ==
    /\ health' = [health EXCEPT ![c] = value]
    /\ announced' = [announced EXCEPT ![c] = event]

\* A configuration is applied, for the first time or again.
Apply(c) == Set(c, "unset", "none")

Remove(c) == Set(c, "absent", "none")

FirstRead(c) ==
    /\ health[c] = "unset"
    /\ Set(c, "online", announced[c]) \/ Set(c, "offline", "initial_failed")

Fail(c) == health[c] = "online" /\ Set(c, "offline", "failed")

Recover(c) == health[c] = "offline" /\ Set(c, "online", "recovered")

Next == \E c \in Configs : Apply(c) \/ Remove(c) \/ FirstRead(c) \/ Fail(c) \/ Recover(c)

Spec == Init /\ [][Next]_vars
=============================================================================
