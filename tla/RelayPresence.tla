---------------------------- MODULE RelayPresence ----------------------------
(***************************************************************************)
(* The relay as its clients know it: which devices have a session, and the *)
(* latest of them, to which a command goes that names none.  HaCommands    *)
(* and DashboardControl are composed with this relay; RelaySessions        *)
(* implements it with the registry of vendor/smartrelay/relay.py.          *)
(***************************************************************************)
CONSTANTS
    Devices,   \* the client ids of the devices
    None       \* no device

VARIABLES
    sessions,  \* the devices with a session
    latest     \* the latest of them, or None

vars == <<sessions, latest>>

Init ==
    /\ sessions = {}
    /\ latest = None

\* A device connects, perhaps in place of a session it had.
Begins(d) ==
    /\ sessions' = sessions \cup {d}
    /\ latest' = d

\* The session of a device ends, and if it was the latest, some other one is.
Ends(d) ==
    /\ d \in sessions
    /\ sessions' = sessions \ {d}
    /\ latest' \in IF latest # d THEN {latest}
                   ELSE IF sessions' = {} THEN {None} ELSE sessions'

Next == \E d \in Devices : Begins(d) \/ Ends(d)

Spec == Init /\ [][Next]_vars
=============================================================================
