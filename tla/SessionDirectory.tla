-------------------------- MODULE SessionDirectory --------------------------
(***************************************************************************)
(* What the relay's registry promises to the sessions of the devices and   *)
(* to the observers, without locks, threads or a dict: it is exact at      *)
(* every moment.  The session that came last with a client id is the one   *)
(* of that id until it ends; when it ends it leaves in the same moment;    *)
(* only sessions that another one has superseded are cut off; and a        *)
(* command keeps the session that was the right one when it came.          *)
(***************************************************************************)
CONSTANTS
    Sessions,
    ClientIds,
    Observers,
    None

VARIABLES
    life,      \* life[s]: "none", "new", "served" or "over"
    device,    \* device[s]: the client id s has come with, or None
    open,      \* open[s]: the connection can be written to
    current,   \* current[c]: the session of c, or None
    default,   \* the id that a command without a target goes to, or None
    command    \* command[o]: what o is about to send, and to which session

vars == <<life, device, open, current, default, command>>

Nothing == [target |-> None, session |-> None, named |-> None]

Present == {c \in ClientIds : current[c] # None}

Init ==
    /\ life = [s \in Sessions |-> "none"]
    /\ device = [s \in Sessions |-> None]
    /\ open = [s \in Sessions |-> FALSE]
    /\ current = [c \in ClientIds |-> None]
    /\ default = None
    /\ command = [o \in Observers |-> Nothing]

-----------------------------------------------------------------------------
\* A new connection: no command is on its way to a former one of this name.
Connect(s) ==
    /\ life[s] = "none"
    /\ \A o \in Observers : command[o].session # s
    /\ life' = [life EXCEPT ![s] = "new"]
    /\ open' = [open EXCEPT ![s] = TRUE]
    /\ UNCHANGED <<device, current, default, command>>

Begin(s, c) ==
    /\ life[s] = "new"
    /\ life' = [life EXCEPT ![s] = "served"]
    /\ device' = [device EXCEPT ![s] = c]
    /\ current' = [current EXCEPT ![c] = s]
    /\ default' = c
    /\ UNCHANGED <<open, command>>

NeverBegins(s) ==
    /\ life[s] = "new"
    /\ life' = [life EXCEPT ![s] = "over"]
    /\ UNCHANGED <<device, open, current, default, command>>

\* The session of an id leaves the directory; any other id that is present
\* becomes the default in place of its own.
Leave(c) ==
    /\ current' = [current EXCEPT ![c] = None]
    /\ default' \in IF default # c THEN {default}
                    ELSE IF Present = {c} THEN {None} ELSE Present \ {c}

End(s) ==
    /\ life[s] = "served"
    /\ life' = [life EXCEPT ![s] = "over"]
    /\ IF current[device[s]] = s THEN Leave(device[s]) ELSE UNCHANGED <<current, default>>
    /\ UNCHANGED <<device, open, command>>

\* A session that another one of its id has superseded is cut off.
Cut(s) ==
    /\ life[s] \in {"served", "over"}
    /\ \A c \in ClientIds : current[c] # s
    /\ open' = [open EXCEPT ![s] = FALSE]
    /\ UNCHANGED <<life, device, current, default, command>>

Close(s) ==
    /\ life[s] = "over"
    /\ life' = [life EXCEPT ![s] = "none"]
    /\ device' = [device EXCEPT ![s] = None]
    /\ open' = [open EXCEPT ![s] = FALSE]
    /\ UNCHANGED <<current, default, command>>

-----------------------------------------------------------------------------
Or(target) == IF target = None THEN default ELSE target

\* A command finds the session of its target, or of the default id.
Find(o, target) ==
    /\ command[o] = Nothing
    /\ \E c \in Present :
         /\ c = Or(target)
         /\ command' = [command EXCEPT ![o] =
                          [target |-> target, session |-> current[c], named |-> None]]
    /\ UNCHANGED <<life, device, open, current, default>>

\* It names its target; without one, the default id of this moment.
Name(o) ==
    /\ command[o] # Nothing
    /\ command[o].named = None
    /\ command' = [command EXCEPT ![o].named = Or(command[o].target)]
    /\ UNCHANGED <<life, device, open, current, default>>

\* It is written, or lost.
Finish(o) ==
    /\ command[o] # Nothing
    /\ command' = [command EXCEPT ![o] = Nothing]
    /\ UNCHANGED <<life, device, open, current, default>>

-----------------------------------------------------------------------------
Next ==
    \/ \E s \in Sessions :
         \/ Connect(s) \/ NeverBegins(s) \/ End(s) \/ Cut(s) \/ Close(s)
         \/ \E c \in ClientIds : Begin(s, c)
    \/ \E o \in Observers :
         \/ Name(o) \/ Finish(o)
         \/ \E target \in ClientIds \cup {None} : Find(o, target)

Spec == Init /\ [][Next]_vars
=============================================================================
