---------------------------- MODULE RelaySessions ----------------------------
(***************************************************************************)
(* The relay's registry of live device sessions                            *)
(* (vendor/smartrelay/relay.py, class DeviceRegistry), the threads that    *)
(* register and unregister device sessions in it, and the observer         *)
(* connections that look a session up in it and write a command to its     *)
(* socket.                                                                 *)
(*                                                                         *)
(* A session is one TLS connection with the thread that serves it          *)
(* (handle_tls, run_server_session; in Proxy mode pump and _ProxyTap): its *)
(* identity is the identity of its socket object, which is what            *)
(* unregister compares.  A session name is taken again once nothing holds  *)
(* the old socket object any more, so a model of a few sessions has        *)
(* behaviours with any number of reconnects.                               *)
(*                                                                         *)
(* Assumed of the devices: one CONNECT on each connection, with a client   *)
(* id that is not empty.  The relay does not insist on either: an empty id *)
(* is registered and never unregistered (relay.py:705, 797), and a second  *)
(* CONNECT leaves the first id registered (mqtt_session.py:89).            *)
(*                                                                         *)
(* Each step that the code makes under the registry lock is one action;    *)
(* what it does after it lets the lock go (closing the displaced socket,   *)
(* sending, reading the latest client id) is another.                      *)
(***************************************************************************)
EXTENDS Naturals, Sequences, SequencesExt

CONSTANTS
    Sessions,   \* device connections (socket objects with their threads)
    ClientIds,  \* MQTT client ids of the devices
    Observers,  \* plain-MQTT observer connections (HA bridge, dashboard)
    None        \* Python's None

ASSUME NoneAssumption == None \notin Sessions \cup ClientIds

VARIABLES
    pc,         \* pc[s]: where the thread of session s is
    clientId,   \* clientId[s]: session.client_id, None before CONNECT
    sockOpen,   \* sockOpen[s]: the relay has not closed the socket of s
    victim,     \* victim[s]: the displaced socket register() still has to close
    registry,   \* registry[c]: _sessions[c], None when c is not a key
    order,      \* the keys of _sessions in dict insertion order
    latest,     \* _latest
    opc,        \* opc[o]: where the thread of observer o is
    ask,        \* ask[o]: the device_client_id of the command, None if omitted
    entry,      \* entry[o]: the session DEVICE_REGISTRY.get returned
    addressee   \* addressee[o]: the device_client_id of the inject context

sessionVars  == <<pc, clientId, sockOpen, victim>>
registryVars == <<registry, order, latest>>
observerVars == <<opc, ask, entry, addressee>>
vars == <<sessionVars, registryVars, observerVars>>

(***************************************************************************)
(* A session thread: "idle" (no connection), "open" (TLS is up, the first  *)
(* packet has not been handled), "displacing" (registered, the displaced   *)
(* duplicate is to be closed), "greeting" (registered, CONNACK to be       *)
(* sent), "live" (in the receive loop), "ending" (out of the loop, on_close *)
(* to be called), "closing" (unregistered, its socket is to be closed).    *)
(***************************************************************************)
SessionPC  == {"idle", "open", "displacing", "greeting", "live", "ending", "closing"}
Serving    == {"displacing", "greeting", "live", "ending"}
ObserverPC == {"ready", "located", "writing", "down"}

TypeOK ==
    /\ pc \in [Sessions -> SessionPC]
    /\ clientId \in [Sessions -> ClientIds \cup {None}]
    /\ sockOpen \in [Sessions -> BOOLEAN]
    /\ victim \in [Sessions -> Sessions \cup {None}]
    /\ registry \in [ClientIds -> Sessions \cup {None}]
    /\ order \in Seq(ClientIds)
    /\ latest \in ClientIds \cup {None}
    /\ opc \in [Observers -> ObserverPC]
    /\ ask \in [Observers -> ClientIds \cup {None}]
    /\ entry \in [Observers -> Sessions \cup {None}]
    /\ addressee \in [Observers -> ClientIds \cup {None}]

Init ==
    /\ pc = [s \in Sessions |-> "idle"]
    /\ clientId = [s \in Sessions |-> None]
    /\ sockOpen = [s \in Sessions |-> FALSE]
    /\ victim = [s \in Sessions |-> None]
    /\ registry = [c \in ClientIds |-> None]
    /\ order = << >>
    /\ latest = None
    /\ opc = [o \in Observers |-> "ready"]
    /\ ask = [o \in Observers |-> None]
    /\ entry = [o \in Observers |-> None]
    /\ addressee = [o \in Observers |-> None]

-----------------------------------------------------------------------------
(***************************************************************************)
(* The device sessions                                                     *)
(***************************************************************************)

\* Something still holds the socket object of s.
Referenced(s) ==
    \/ \E t \in Sessions : victim[t] = s
    \/ \E o \in Observers : entry[o] = s

\* A device connects and the TLS handshake succeeds.
Accept(s) ==
    /\ pc[s] = "idle"
    /\ ~Referenced(s)
    /\ pc' = [pc EXCEPT ![s] = "open"]
    /\ sockOpen' = [sockOpen EXCEPT ![s] = TRUE]
    /\ UNCHANGED <<clientId, victim, registryVars, observerVars>>

\* CONNECT with client id c: DeviceRegistry.register under its lock.  A key
\* that is already in the dict keeps its place; _latest becomes c.
Register(s, c) ==
    LET old == registry[c]
    IN  /\ pc[s] = "open"
        /\ clientId' = [clientId EXCEPT ![s] = c]
        /\ registry' = [registry EXCEPT ![c] = s]
        /\ order' = IF old = None THEN Append(order, c) ELSE order
        /\ latest' = c
        /\ victim' = [victim EXCEPT ![s] = old]
        /\ pc' = [pc EXCEPT ![s] = IF old = None THEN "greeting" ELSE "displacing"]
        /\ UNCHANGED <<sockOpen, observerVars>>

\* A mutant: the socket to close is read from the registry again.
CloseNewcomer(s) ==
    /\ pc[s] = "displacing"
    /\ sockOpen' = [sockOpen EXCEPT ![registry[clientId[s]]] = FALSE]
    /\ victim' = [victim EXCEPT ![s] = None]
    /\ pc' = [pc EXCEPT ![s] = "greeting"]
    /\ UNCHANGED <<clientId, registryVars, observerVars>>

\* A mutant: the displaced socket is forgotten, not closed.
ForgetDisplaced(s) ==
    /\ pc[s] = "displacing"
    /\ victim' = [victim EXCEPT ![s] = None]
    /\ pc' = [pc EXCEPT ![s] = "greeting"]
    /\ UNCHANGED <<clientId, sockOpen, registryVars, observerVars>>

\* register, after the lock: the stale duplicate connection is torn down.
CloseDisplaced(s) ==
    /\ pc[s] = "displacing"
    /\ sockOpen' = [sockOpen EXCEPT ![victim[s]] = FALSE]
    /\ victim' = [victim EXCEPT ![s] = None]
    /\ pc' = [pc EXCEPT ![s] = "greeting"]
    /\ UNCHANGED <<clientId, registryVars, observerVars>>

\* CONNACK; on a socket that another session has closed meanwhile the send
\* raises and the session ends.
Greet(s) ==
    /\ pc[s] = "greeting"
    /\ pc' = [pc EXCEPT ![s] = IF sockOpen[s] THEN "live" ELSE "ending"]
    /\ UNCHANGED <<clientId, sockOpen, victim, registryVars, observerVars>>

\* The device disconnects, falls silent for the receive timeout, sends
\* DISCONNECT or something that makes a handler raise.
DeviceGone(s) ==
    /\ pc[s] \in {"greeting", "live"}
    /\ sockOpen[s]
    /\ pc' = [pc EXCEPT ![s] = "ending"]
    /\ UNCHANGED <<clientId, sockOpen, victim, registryVars, observerVars>>

\* The connection ends before a CONNECT, or turns out not to be MQTT.
NoSession(s) ==
    /\ pc[s] = "open"
    /\ pc' = [pc EXCEPT ![s] = "closing"]
    /\ UNCHANGED <<clientId, sockOpen, victim, registryVars, observerVars>>

\* The receive loop of a session whose socket register() has closed fails,
\* at the latest when the receive timeout expires.
Displaced(s) ==
    /\ pc[s] = "live"
    /\ ~sockOpen[s]
    /\ pc' = [pc EXCEPT ![s] = "ending"]
    /\ UNCHANGED <<clientId, sockOpen, victim, registryVars, observerVars>>

\* Where c is in the insertion order.
PositionOf(c) == CHOOSE i \in DOMAIN order : order[i] = c

\* A mutant: _latest is left alone.
EvictKeepingLatest(c) ==
    /\ registry' = [registry EXCEPT ![c] = None]
    /\ order' = RemoveAt(order, PositionOf(c))
    /\ UNCHANGED latest

\* The registry without client id c: del _sessions[c], and when c was the
\* latest id, the last key of what is left.
Evict(c) ==
    LET rest == RemoveAt(order, PositionOf(c))
    IN  /\ registry' = [registry EXCEPT ![c] = None]
        /\ order' = rest
        /\ latest' = IF latest # c THEN latest
                     ELSE IF rest = << >> THEN None ELSE Last(rest)

\* A mutant: the entry is removed whichever socket it holds.
UnregisterAnySocket(s) ==
    /\ pc[s] = "ending"
    /\ IF registry[clientId[s]] # None
       THEN Evict(clientId[s])
       ELSE UNCHANGED registryVars
    /\ pc' = [pc EXCEPT ![s] = "closing"]
    /\ UNCHANGED <<clientId, sockOpen, victim, observerVars>>

\* on_close: DeviceRegistry.unregister under its lock removes the entry only
\* if it is this very socket.
Unregister(s) ==
    /\ pc[s] = "ending"
    /\ IF registry[clientId[s]] = s
       THEN Evict(clientId[s])
       ELSE UNCHANGED registryVars
    /\ pc' = [pc EXCEPT ![s] = "closing"]
    /\ UNCHANGED <<clientId, sockOpen, victim, observerVars>>

\* The end of handle_tls: the socket is closed and the thread returns.
CloseOwn(s) ==
    /\ pc[s] = "closing"
    /\ pc' = [pc EXCEPT ![s] = "idle"]
    /\ sockOpen' = [sockOpen EXCEPT ![s] = FALSE]
    /\ clientId' = [clientId EXCEPT ![s] = None]
    /\ UNCHANGED <<victim, registryVars, observerVars>>

-----------------------------------------------------------------------------
(***************************************************************************)
(* The observers                                                           *)
(***************************************************************************)

\* A mutant: the id is returned in place of its session.
LookupId(target) ==
    LET cid == IF target = None THEN latest ELSE target
    IN  IF cid = None \/ registry[cid] = None THEN None ELSE cid

\* A mutant: the latest id goes before the one that was asked for.
LookupLatestFirst(target) ==
    LET cid == IF latest # None THEN latest ELSE target
    IN  IF cid = None THEN None ELSE registry[cid]

\* DeviceRegistry.get: the session of the id that was asked for, or of the
\* latest id when the command names none.
Lookup(target) ==
    LET cid == IF target = None THEN latest ELSE target
    IN  IF cid = None THEN None ELSE registry[cid]

\* A command arrives: the session is looked up, in one locked read.
Locate(o, target) ==
    /\ opc[o] = "ready"
    /\ Lookup(target) # None
    /\ ask' = [ask EXCEPT ![o] = target]
    /\ entry' = [entry EXCEPT ![o] = Lookup(target)]
    /\ opc' = [opc EXCEPT ![o] = "located"]
    /\ UNCHANGED <<addressee, sessionVars, registryVars>>

\* The command is done with: nothing of it is kept.
Forget(o, next) ==
    /\ opc' = [opc EXCEPT ![o] = next]
    /\ ask' = [ask EXCEPT ![o] = None]
    /\ entry' = [entry EXCEPT ![o] = None]
    /\ addressee' = [addressee EXCEPT ![o] = None]

\* The inject context is built: a command without a target is addressed to
\* the latest id, which is read again.  Without any id on_local_inject
\* returns nothing to send.
Address(o) ==
    LET to == IF ask[o] = None THEN latest ELSE ask[o]
    IN  /\ opc[o] = "located"
        /\ \/ /\ to # None
              /\ addressee' = [addressee EXCEPT ![o] = to]
              /\ opc' = [opc EXCEPT ![o] = "writing"]
              /\ UNCHANGED <<ask, entry>>
           \/ /\ to = None
              /\ Forget(o, "ready")
        /\ UNCHANGED <<sessionVars, registryVars>>

\* The command frame is written to the socket of the session that was found;
\* on a closed socket the send raises, which ends the observer's session.
Write(o) ==
    /\ opc[o] = "writing"
    /\ Forget(o, IF sockOpen[entry[o]] THEN "ready" ELSE "down")
    /\ UNCHANGED <<sessionVars, registryVars>>

\* The observer connects again.
ObserverReconnect(o) ==
    /\ opc[o] = "down"
    /\ opc' = [opc EXCEPT ![o] = "ready"]
    /\ UNCHANGED <<ask, entry, addressee, sessionVars, registryVars>>

-----------------------------------------------------------------------------
SessionStep(s) ==
    \/ Accept(s)
    \/ \E c \in ClientIds : Register(s, c)
    \/ CloseDisplaced(s)
    \/ Greet(s)
    \/ DeviceGone(s)
    \/ NoSession(s)
    \/ Displaced(s)
    \/ Unregister(s)
    \/ CloseOwn(s)

ObserverStep(o) ==
    \/ \E target \in ClientIds \cup {None} : Locate(o, target)
    \/ Address(o)
    \/ Write(o)
    \/ ObserverReconnect(o)

Next ==
    \/ \E s \in Sessions : SessionStep(s)
    \/ \E o \in Observers : ObserverStep(o)

Spec == Init /\ [][Next]_vars

(***************************************************************************)
(* The steps a session thread makes on its own: nothing it waits for can   *)
(* hold it up for ever (a blocked receive ends with the receive timeout).  *)
(* Devices and observers promise nothing.                                  *)
(***************************************************************************)
ThreadStep(s) ==
    \/ CloseDisplaced(s)
    \/ Greet(s)
    \/ Displaced(s)
    \/ Unregister(s)
    \/ CloseOwn(s)

FairSpec == Spec /\ \A s \in Sessions : WF_vars(ThreadStep(s))

-----------------------------------------------------------------------------
(***************************************************************************)
(* Properties                                                              *)
(***************************************************************************)

\* The registry never hands out a dead session: a registered socket belongs
\* to a session of that client id, whose thread has not called on_close yet,
\* and has not been closed by the relay.
RegisteredIsUsable ==
    \A c \in ClientIds : registry[c] # None =>
        /\ clientId[registry[c]] = c
        /\ pc[registry[c]] \in Serving
        /\ sockOpen[registry[c]]

\* No device is lost from the registry: a session that is being served and
\* is not the registered one of its client id has been displaced, that is,
\* its socket is closed or the session that displaced it is about to close it.
ServedIsRegistered ==
    \A s \in Sessions : pc[s] \in Serving =>
        \/ registry[clientId[s]] = s
        \/ ~sockOpen[s]
        \/ \E t \in Sessions : victim[t] = s

\* _latest is None exactly when no session is registered, and otherwise names
\* a registered session, so that a command without a target finds one
\* whenever there is one.
LatestIsRegistered ==
    IF latest = None
    THEN \A c \in ClientIds : registry[c] = None
    ELSE registry[latest] # None

\* The registry is exact: it hands out no dead session, has every live one
\* that is not displaced, and a default target among them.
RegistryIsExact == RegisteredIsUsable /\ ServedIsRegistered /\ LatestIsRegistered

\* A command that names its device is written to a socket of that device.
TargetedWrite ==
    \A o \in Observers : opc[o] = "writing" /\ ask[o] # None =>
        /\ addressee[o] = ask[o]
        /\ clientId[entry[o]] \in {ask[o], None}

\* What the directory sees of a thread: a session is served until it is
\* unregistered.
Life(at) ==
    CASE at = "idle"     -> "none"
      [] at = "open"     -> "new"
      [] at \in Serving  -> "served"
      [] at = "closing"  -> "over"

\* And of a command.
InHand(o) == [target |-> ask[o], session |-> entry[o], named |-> addressee[o]]

Directory == INSTANCE SessionDirectory WITH
    life    <- [s \in Sessions |-> Life(pc[s])],
    device  <- clientId,
    open    <- sockOpen,
    current <- registry,
    default <- latest,
    command <- [o \in Observers |-> InHand(o)]

\* To devices and observers the registry is a directory that is exact at every
\* moment, though it displaces, closes and unregisters in separate steps: only
\* superseded sessions are cut off, and a command keeps the session it found.
IsDirectory == Directory!Spec

Presence == INSTANCE RelayPresence WITH
    Devices  <- ClientIds,
    sessions <- {c \in ClientIds : registry[c] # None},
    latest   <- latest

\* To the bridge and the dashboard the relay is the small one that their
\* modules are composed with: a device is there from its registration to the
\* end of its last session, and a default is always one that is there.
IsPresence == Presence!Spec

\* A stale session that closes late does not evict a newer one: an entry
\* goes away only by the hand of the session it holds.
OnlyOwnerEvicts ==
    [][\A c \in ClientIds : registry[c] # None /\ registry'[c] = None =>
        pc[registry[c]] = "ending" /\ pc'[registry[c]] = "closing"]_vars

\* A displaced session does not linger: its thread ends.
DisplacedEnds ==
    \A s \in Sessions :
        (pc[s] \in Serving /\ registry[clientId[s]] # s) ~> pc[s] = "idle"
=============================================================================
