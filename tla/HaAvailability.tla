---------------------------- MODULE HaAvailability ----------------------------
(***************************************************************************)
(* What the Home Assistant bridge (bridge/mttl_ha_bridge.py) publishes     *)
(* about each device: HA discovery, availability with its grace period,    *)
(* and outlet state.  One loop thread reads devices.json and the relay's   *)
(* session list, runs the AvailabilityMachine, and publishes what changed, *)
(* comparing with its record of what it published last.  Publishing is     *)
(* silently skipped while the MQTT client is not connected; the client     *)
(* thread sets a flag when it has reconnected, and the loop then forgets   *)
(* its record and publishes everything anew.  The discovery of a device is *)
(* its `base' entities, and its `sensors' (voltage, temperature, energy)   *)
(* once devices.json marks the device as one that reports them.            *)
(*                                                                         *)
(* The broker is external: it keeps what is retained, and publishes the    *)
(* will.  A publish of several topics for one device is one step; the      *)
(* connection may break between devices and between the loop's stages.     *)
(* `power' stands for all the retained values of a device.                 *)
(***************************************************************************)
EXTENDS Naturals, FiniteSets

CONSTANTS
    Devices,   \* devices with a MAC
    Values,    \* values of a device's retained topics
    Vtpe,      \* values of an entry that has the vtpe_seen mark
    Blank,     \* an entry of devices.json without values
    None       \* no entry, nothing published

ASSUME ValuesAssumption == /\ None \notin Values \cup {Blank, "online", "offline"}
                           /\ Blank \notin Values
                           /\ Vtpe \subseteq Values

VARIABLES
    telemetry,   \* telemetry[d]: d's entry in devices.json, None when there is none
    listed,      \* the relay's last session list: {} before one came, and once it is stale
    pc,          \* the stage of the loop
    todo,        \* the devices that the loop has not handled in this stage
    entry,       \* state, as the loop read it from devices.json in this round
    live,        \* live_slugs of this round
    state,       \* AvailabilityMachine: state[d]
    record,      \* _last_pub: avail and power last published
    sensors,     \* _vtpe_pub: devices whose discovery was published with the sensors
    republish,   \* _ha_need_republish
    link,        \* the connection to the broker; "broken": not noticed yet
    announced,   \* on_connect has run for this connection
    retained,    \* the broker's retained topics: avail, power, discovery
    status,      \* the broker's retained bridge/status; none at all counts as offline
    subscribed   \* the broker has the bridge's subscription

environmentVars == <<telemetry, listed>>
loopVars == <<pc, todo, entry, live>>
brokerVars == <<retained, status, subscribed>>
linkVars == <<link, announced>>
recordVars == <<record, sensors>>
vars == <<environmentVars, loopVars, state, recordVars, republish, linkVars, brokerVars>>

Nothing == [avail |-> None, power |-> None]
Connected == link \in {"up", "broken"}
Known == {d \in Devices : entry[d] # None}
Unmarked(entries) == {d \in Devices : entries[d] \in Vtpe /\ d \notin sensors}

TypeOK ==
    /\ telemetry \in [Devices -> Values \cup {Blank, None}]
    /\ listed \subseteq Devices
    /\ pc \in {"read", "republish", "discover", "observe", "publish"}
    /\ todo \subseteq Devices
    /\ entry \in [Devices -> Values \cup {Blank, None}]
    /\ live \subseteq Devices
    /\ state \in [Devices -> {"init", "up", "grace", "down"}]
    /\ record \in [Devices -> [avail : {"online", "offline", None}, power : Values \cup {None}]]
    /\ sensors \subseteq Devices
    /\ republish \in BOOLEAN
    /\ link \in {"down", "up", "broken"}
    /\ announced \in BOOLEAN
    /\ retained \in [Devices -> [avail : {"online", "offline", None},
                                 power : Values \cup {None},
                                 discovery : SUBSET {"base", "sensors"}]]
    /\ status \in {"online", "offline"}
    /\ subscribed \in BOOLEAN

NothingRetained == [d \in Devices |-> [avail |-> None, power |-> None, discovery |-> {}]]

Init ==
    /\ listed = {}
    /\ telemetry = [d \in Devices |-> None]
    /\ pc = "read" /\ todo = {} /\ live = {}
    /\ entry = [d \in Devices |-> None]
    /\ state = [d \in Devices |-> "init"]
    /\ record = [d \in Devices |-> Nothing] /\ sensors = {}
    /\ republish = FALSE
    /\ link = "down" /\ announced = FALSE
    /\ retained = NothingRetained /\ status = "offline" /\ subscribed = FALSE

-----------------------------------------------------------------------------
(***************************************************************************)
(* Publishing.  What is sent arrives when the connection is up; the record *)
(* says that it was published in any case.                                 *)
(***************************************************************************)

\* What the record becomes: values that the entry does not have are kept.
WithState(rec, v) == IF v \in Values THEN [rec EXCEPT !.power = v] ELSE rec

\* build_discovery: the entities of a device.
Discovery(v) == IF v \in Vtpe THEN {"base", "sensors"} ELSE {"base"}

\* The discovery of d is sent when disc; of the topics in `new' those that are
\* not in `old', or all when forced.
Publish(d, disc, force, old, new) ==
    LET discovery == IF disc THEN Discovery(entry[d]) ELSE {}
    IN  /\ record' = [record EXCEPT ![d] = new]
        /\ sensors' = IF ~disc THEN sensors
                      ELSE IF entry[d] \in Vtpe THEN sensors \cup {d} ELSE sensors \ {d}
        /\ retained' =
             IF link # "up" THEN retained
             ELSE [retained EXCEPT ![d] =
                     [avail |-> IF new.avail # old.avail THEN new.avail ELSE @.avail,
                      power |-> IF new.power # old.power \/ (force /\ new.power # None)
                                THEN new.power ELSE @.power,
                      discovery |-> @.discovery \cup discovery]]

-----------------------------------------------------------------------------
(***************************************************************************)
(* One round of the loop                                                   *)
(***************************************************************************)

\* A mutant: what was published on the lost connection is still on record.
ReadKeepingRecord ==
    /\ pc = "read"
    /\ entry' = telemetry
    /\ live' = listed
    /\ IF republish /\ Connected
       THEN /\ pc' = "republish"
            /\ todo' = {d \in Devices : telemetry[d] # None}
            /\ republish' = FALSE
            /\ status' = IF link = "up" THEN "online" ELSE status
       ELSE /\ pc' = "discover"
            /\ todo' = Unmarked(telemetry)
            /\ UNCHANGED <<republish, status>>
    /\ UNCHANGED <<environmentVars, state, recordVars, linkVars, retained, subscribed>>

\* The loop reads its inputs and checks the flag: when the client is connected
\* again, the record is forgotten and bridge/status published.  (The inputs are
\* read one after the other; they change independently of each other.)
Read ==
    /\ pc = "read"
    /\ entry' = telemetry
    /\ live' = listed
    /\ IF republish /\ Connected
       THEN /\ pc' = "republish"
            /\ todo' = {d \in Devices : telemetry[d] # None}
            /\ republish' = FALSE
            /\ sensors' = {}
            /\ record' = [d \in Devices |-> Nothing]
            /\ status' = IF link = "up" THEN "online" ELSE status
       ELSE /\ pc' = "discover"
            /\ todo' = Unmarked(telemetry)
            /\ UNCHANGED <<republish, recordVars, status>>
    /\ UNCHANGED <<environmentVars, state, linkVars, retained, subscribed>>

\* A mutant: every device is republished as online.
RepublishAsOnline(d) ==
    /\ pc = "republish"
    /\ d \in todo
    /\ Publish(d, TRUE, TRUE, record[d],
               WithState([record[d] EXCEPT !.avail = "online"], entry[d]))
    /\ todo' = todo \ {d}
    /\ UNCHANGED <<environmentVars, pc, entry, live, state, republish, linkVars,
                   status, subscribed>>

\* Discovery, availability and, of a device that is up, the values: all anew.
Republish(d) ==
    /\ pc = "republish"
    /\ d \in todo
    /\ LET up == state[d] = "up"
           available == [record[d] EXCEPT !.avail = IF up THEN "online" ELSE "offline"]
       IN  Publish(d, TRUE, up, record[d],
                   IF up THEN WithState(available, entry[d]) ELSE available)
    /\ todo' = todo \ {d}
    /\ UNCHANGED <<environmentVars, pc, entry, live, state, republish, linkVars,
                   status, subscribed>>

\* The command topics are subscribed to last.
Subscribe ==
    /\ pc = "republish"
    /\ todo = {}
    /\ subscribed' = (link = "up" \/ subscribed)
    /\ pc' = "discover"
    /\ todo' = Unmarked(entry)
    /\ UNCHANGED <<environmentVars, entry, live, state, recordVars, republish,
                   linkVars, retained, status>>

\* A mutant: the sensors are taken as discovered although nothing can be sent.
DiscoverSensorsOffline(d) ==
    /\ pc = "discover"
    /\ d \in todo
    /\ sensors' = sensors \cup {d}
    /\ UNCHANGED <<record, retained>>
    /\ todo' = todo \ {d}
    /\ UNCHANGED <<environmentVars, pc, entry, live, state, republish, linkVars,
                   status, subscribed>>

\* A device that has come to report the sensors is discovered with them, once.
DiscoverSensors(d) ==
    /\ pc = "discover"
    /\ d \in todo
    /\ IF Connected
       THEN Publish(d, TRUE, state[d] = "up", record[d],
                    IF state[d] = "up" THEN WithState(record[d], entry[d]) ELSE record[d])
       ELSE UNCHANGED <<recordVars, retained>>
    /\ todo' = todo \ {d}
    /\ UNCHANGED <<environmentVars, pc, entry, live, state, republish, linkVars,
                   status, subscribed>>

Discovered ==
    /\ pc = "discover"
    /\ todo = {}
    /\ pc' = "observe"
    /\ todo' = Known
    /\ UNCHANGED <<environmentVars, entry, live, state, recordVars, republish, linkVars,
                   brokerVars>>

\* A mutant: the end of the grace period has no event.
GraceExpiresSilently(d) ==
    /\ state[d] = "grace" /\ d \notin live
    /\ state' = [state EXCEPT ![d] = "down"]
    /\ UNCHANGED <<recordVars, retained>>

\* A mutant: the state is named as its event.
GraceExpiresOffline(d) ==
    /\ state[d] = "grace" /\ d \notin live
    /\ state' = [state EXCEPT ![d] = "offline"]
    /\ Publish(d, FALSE, FALSE, record[d], [record[d] EXCEPT !.avail = "offline"])

\* AvailabilityMachine.observe of one device, and what its event publishes.
\* MTTL_HA_GRACE_SECONDS may have passed in any round of the grace period.
ComesOnline(d) ==
    /\ state[d] \in {"init", "down"} /\ d \in live
    /\ state' = [state EXCEPT ![d] = "up"]
    /\ Publish(d, record[d] = Nothing, TRUE, record[d],
               WithState([record[d] EXCEPT !.avail = "online"], entry[d]))

GraceExpires(d) ==
    /\ state[d] = "grace" /\ d \notin live
    /\ state' = [state EXCEPT ![d] = "down"]
    /\ Publish(d, FALSE, FALSE, record[d], [record[d] EXCEPT !.avail = "offline"])

EntersGrace(d) ==
    /\ state[d] = "up" /\ d \notin live
    /\ state' = [state EXCEPT ![d] = "grace"]
    /\ UNCHANGED <<recordVars, retained>>

RecoversWithinGrace(d) ==
    /\ state[d] = "grace" /\ d \in live
    /\ state' = [state EXCEPT ![d] = "up"]
    /\ UNCHANGED <<recordVars, retained>>

NoEvent(d) ==
    /\ \/ state[d] \in {"init", "down", "grace"} /\ d \notin live
       \/ state[d] = "up" /\ d \in live
    /\ UNCHANGED <<state, recordVars, retained>>

Observe(d) ==
    /\ pc = "observe"
    /\ d \in todo
    /\ todo' = todo \ {d}
    /\ \/ ComesOnline(d)
       \/ GraceExpires(d)
       \/ EntersGrace(d)
       \/ RecoversWithinGrace(d)
       \/ NoEvent(d)
    /\ UNCHANGED <<environmentVars, pc, entry, live, republish, linkVars, status, subscribed>>

\* The next round reads its inputs anew.
RoundEnds ==
    /\ pc' = "read" /\ todo' = {} /\ live' = {}
    /\ entry' = [d \in Devices |-> None]

\* After the events, the values that changed are due, or not before
\* MTTL_HA_STATE_INTERVAL has passed.
Observed ==
    /\ pc = "observe"
    /\ todo = {}
    /\ \/ pc' = "publish" /\ todo' = {d \in Known : state[d] = "up"} /\ UNCHANGED <<entry, live>>
       \/ RoundEnds
    /\ UNCHANGED <<environmentVars, state, recordVars, republish, linkVars, brokerVars>>

PublishState(d) ==
    /\ pc = "publish"
    /\ d \in todo
    /\ Publish(d, FALSE, FALSE, record[d], WithState(record[d], entry[d]))
    /\ todo' = todo \ {d}
    /\ UNCHANGED <<environmentVars, pc, entry, live, state, republish, linkVars,
                   status, subscribed>>

Published ==
    /\ pc = "publish"
    /\ todo = {}
    /\ RoundEnds
    /\ UNCHANGED <<environmentVars, state, recordVars, republish, linkVars, brokerVars>>

-----------------------------------------------------------------------------
(***************************************************************************)
(* The MQTT client thread, and the connection                              *)
(***************************************************************************)

\* CONNACK: a clean session.
Connect ==
    /\ link = "down"
    /\ link' = "up"
    /\ announced' = FALSE
    /\ UNCHANGED <<environmentVars, loopVars, state, recordVars, republish, brokerVars>>

\* A mutant: nothing is republished after a reconnect.
OnConnectWithoutRepublish ==
    /\ Connected
    /\ ~announced
    /\ announced' = TRUE
    /\ UNCHANGED <<environmentVars, loopVars, state, recordVars, republish, link, brokerVars>>

\* ... and then on_connect.
OnConnect ==
    /\ Connected
    /\ ~announced
    /\ announced' = TRUE
    /\ republish' = TRUE
    /\ UNCHANGED <<environmentVars, loopVars, state, recordVars, link, brokerVars>>

\* The connection breaks; the broker publishes the will, or has restarted
\* without what it retained.
Break ==
    /\ link = "up"
    /\ link' = "broken"
    /\ subscribed' = FALSE
    /\ status' = "offline"
    /\ retained' \in {retained, NothingRetained}
    /\ UNCHANGED <<environmentVars, loopVars, state, recordVars, republish, announced>>

\* The client thread leaves its receive loop.
Notice ==
    /\ link = "broken"
    /\ announced
    /\ link' = "down"
    /\ UNCHANGED <<environmentVars, loopVars, state, recordVars, republish, announced,
                   brokerVars>>

\* The bridge process dies and is started again.
Restart ==
    /\ pc' = "read" /\ todo' = {} /\ live' = {}
    /\ entry' = [d \in Devices |-> None]
    /\ state' = [d \in Devices |-> "init"]
    /\ record' = [d \in Devices |-> Nothing] /\ sensors' = {}
    /\ republish' = FALSE
    /\ link' = "down" /\ announced' = FALSE
    /\ subscribed' = FALSE
    /\ status' = IF link = "up" THEN "offline" ELSE status
    /\ UNCHANGED <<environmentVars, retained>>

-----------------------------------------------------------------------------
(***************************************************************************)
(* Devices, relay and clock                                                *)
(***************************************************************************)

\* The feed rule has an entry for d once it has seen it.
EntryAppears(d) ==
    /\ telemetry[d] = None
    /\ telemetry' = [telemetry EXCEPT ![d] = Blank]
    /\ UNCHANGED <<listed, loopVars, state, recordVars, republish, linkVars, brokerVars>>

\* The device reports a value.  The vtpe_seen mark stays once it is set.
Report(d, v) ==
    /\ telemetry[d] \notin {None, v}
    /\ telemetry[d] \in Vtpe => v \in Vtpe
    /\ telemetry' = [telemetry EXCEPT ![d] = v]
    /\ UNCHANGED <<listed, loopVars, state, recordVars, republish, linkVars, brokerVars>>

\* An answer to the bridge's {"list": true} arrives; or none for
\* MTTL_HA_LIST_STALE_SECONDS, or the observer connection is lost: then S = {}.
Listed(S) ==
    /\ listed # S
    /\ listed' = S
    /\ UNCHANGED <<telemetry, loopVars, state, recordVars, republish, linkVars, brokerVars>>

-----------------------------------------------------------------------------
LoopStep ==
    \/ Read \/ Subscribe \/ Discovered \/ Observed \/ Published
    \/ \E d \in Devices : Republish(d) \/ DiscoverSensors(d) \/ Observe(d) \/ PublishState(d)

ClientStep == Connect \/ OnConnect \/ Notice

EnvironmentStep ==
    \/ \E d \in Devices : EntryAppears(d)
    \/ \E d \in Devices, v \in Values : Report(d, v)
    \/ \E S \in SUBSET Devices : Listed(S)
    \/ Break
    \/ Restart

Next == LoopStep \/ ClientStep \/ EnvironmentStep

Spec == Init /\ [][Next]_vars

(***************************************************************************)
(* Fairness: the loop and the client thread run, grace periods end, and    *)
(* the interval of the state publishes passes.  Nothing is assumed of      *)
(* devices, the relay's lists, breaks or restarts.                         *)
(***************************************************************************)
FairSpec ==
    /\ Spec
    /\ WF_vars(LoopStep)
    /\ SF_vars(Observed /\ pc' = "publish")
    /\ WF_vars(ClientStep)
    /\ \A d \in Devices : SF_vars(Observe(d) /\ state'[d] = "down")

-----------------------------------------------------------------------------
(***************************************************************************)
(* Properties                                                              *)
(***************************************************************************)

\* The bridge has published on this connection, and nothing has happened to
\* the connection since.
Settled == link = "up" /\ announced /\ ~republish /\ pc # "republish"

\* What the broker retains is what the bridge has on record, across lost
\* connections, skipped publishes and broker restarts, so that comparing with
\* the record never leaves a stale value on the broker; and no entity has
\* values before it has been discovered.
BrokerFollowsRecord ==
    Settled => \A d \in Devices :
        record[d] # Nothing =>
            /\ "base" \in retained[d].discovery
            /\ d \in sensors => "sensors" \in retained[d].discovery
            /\ retained[d].avail = record[d].avail
            /\ record[d].power # None => retained[d].power = record[d].power

\* Settled, the bridge is online in Home Assistant and receives commands.
BridgeIsServing ==
    Settled => status = "online" /\ subscribed

\* Settled, Home Assistant has what the bridge believes it has, its own status
\* and subscription included.
SettledIsInStep == BrokerFollowsRecord /\ BridgeIsServing

\* The record says online only of a device that is up or in its grace period.
OnlineOnlyWithinGrace ==
    \A d \in Devices : record[d].avail = "online" => state[d] \in {"up", "grace"}

\* A device that stays away is shown as offline, for good.
AbsenceIsShown ==
    \A d \in Devices :
        <>[](d \notin listed /\ telemetry[d] # None /\ link = "up")
            => <>[](retained[d].avail # "online")

\* While a device is connected and reports a value, Home Assistant comes to
\* show that value.
TelemetryIsShown ==
    \A d \in Devices, v \in Values :
        <>[](d \in listed /\ telemetry[d] = v /\ link = "up") => <>[](retained[d].power = v)

\* A device marked as reporting the sensors has them in Home Assistant, whenever
\* the mark appears and however often the connection is lost in between.
SensorsAreDiscovered ==
    \A d \in Devices :
        <>[](telemetry[d] \in Vtpe /\ link = "up")
            => <>[](retained[d].discovery = {"base", "sensors"})

\* What stays the case of a device comes to be shown, and stays so.
ReportsAreShown == AbsenceIsShown /\ TelemetryIsShown /\ SensorsAreDiscovered

\* A device that stays connected is shown as online, for good.
PresenceIsShown ==
    \A d \in Devices :
        <>[](d \in listed /\ telemetry[d] # None /\ link = "up")
            => <>[](retained[d].avail = "online")
=============================================================================
