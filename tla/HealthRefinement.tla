---------------------------- MODULE HealthRefinement ----------------------------
(* AirthingsRuntime implements DeviceHealth, when Core sends one configuration *)
(* request at a time and nothing but the poll task polls.                      *)
EXTENDS AirthingsRuntime

healthOf ==
    [c \in Configs |-> IF Registered(c) THEN entry[registry[c]].poll_health ELSE "absent"]

announcedOf == [c \in Configs |-> recent_events[c].latest]

Device == INSTANCE DeviceHealth WITH health <- healthOf, announced <- announcedOf

\* The events appended for a device (663-715, 818-836, 724-741) tell every change
\* of its health and nothing else: each step of the runtime is a step of
\* DeviceHealth or leaves health and last event alone, across replacements,
\* removals, cancelled polls and commands that read beside the poll task.
ImplementsDeviceHealth == Device!Spec
=============================================================================
