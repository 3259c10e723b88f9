----------------------- MODULE HaAvailability_proofs ------------------------
(***************************************************************************)
(* Proofs about what the Home Assistant bridge publishes, for any sets of  *)
(* devices and values.                                                     *)
(***************************************************************************)
EXTENDS HaAvailability, TLAPS

(***************************************************************************)
(* The inductive invariant.  That the broker is in step while the flag is  *)
(* down rests on two things: no path leads from a broken connection to one *)
(* that is up without the flag, and nothing is ever sent of a device that  *)
(* is not on record but together with its discovery.                       *)
(***************************************************************************)

\* on_connect has run on this connection, and the loop has seen the flag.
Announced == link = "up" /\ announced /\ ~republish

\* What is on record of d is retained.
InStep(d) ==
    record[d] # Nothing =>
        /\ "base" \in retained[d].discovery
        /\ d \in sensors => "sensors" \in retained[d].discovery
        /\ retained[d].avail = record[d].avail
        /\ record[d].power # None => retained[d].power = record[d].power

\* From the round that saw the flag the broker is in step, also while the
\* devices are republished one by one; the subscription comes at its end.
AnnouncedInStep ==
    Announced =>
        /\ \A d \in Devices : InStep(d)
        /\ status = "online"
        /\ pc # "republish" => subscribed

\* Values are on record only of a device whose availability is.
AvailabilityFirst ==
    \A d \in Devices : record[d].avail = None => record[d].power = None

\* An entry of devices.json never vanishes.
EntriesStay ==
    \A d \in Devices : entry[d] # None => telemetry[d] # None

\* What the loop goes through.
TodoIsKnown ==
    /\ pc \in {"republish", "observe", "publish"} => todo \subseteq Known
    /\ pc = "publish" => \A d \in todo : state[d] = "up"

\* A device that has come online is on record, or about to be republished.
ObservedIsRecorded ==
    \A d \in Devices :
        state[d] # "init" =>
            /\ telemetry[d] # None
            /\ record[d].avail = None => pc = "republish" /\ d \in todo

BridgeInv ==
    /\ TypeOK
    /\ AvailabilityFirst
    /\ EntriesStay
    /\ TodoIsKnown
    /\ ObservedIsRecorded
    /\ AnnouncedInStep
    /\ OnlineOnlyWithinGrace

Topics == [avail : {"online", "offline", None}, power : Values \cup {None}]
Retained == [avail : {"online", "offline", None}, power : Values \cup {None},
             discovery : SUBSET {"base", "sensors"}]

-----------------------------------------------------------------------------
(***************************************************************************)
(* Lemmas about publishing.                                                *)
(***************************************************************************)

\* The record without values, and with those of an entry.
LEMMA WithStateType ==
  ASSUME NEW rec \in Topics, NEW v
  PROVE  /\ WithState(rec, v) \in Topics
         /\ WithState(rec, v).avail = rec.avail
  BY DEF WithState, Topics

LEMMA NothingType ==
  /\ Nothing \in Topics /\ Nothing.avail = None /\ Nothing.power = None
  /\ \A rec \in Topics : rec.avail = None /\ rec.power = None => rec = Nothing
  BY DEF Nothing, Topics

\* Publishing keeps the types, whatever it sends.
LEMMA PublishType ==
  ASSUME TypeOK, NEW d \in Devices, NEW disc \in BOOLEAN, NEW force \in BOOLEAN,
         NEW new \in Topics, Publish(d, disc, force, record[d], new)
  PROVE  /\ record' \in [Devices -> Topics]
         /\ record'[d] = new /\ \A e \in Devices \ {d} : record'[e] = record[e]
         /\ sensors' \subseteq Devices
         /\ retained' \in [Devices -> Retained]
<1>1. record \in [Devices -> Topics] /\ retained \in [Devices -> Retained]
  BY DEF TypeOK, Topics, Retained
<1>2. record' = [record EXCEPT ![d] = new]
  BY DEF Publish
<1>3. record' \in [Devices -> Topics] /\ record'[d] = new
      /\ \A e \in Devices \ {d} : record'[e] = record[e]
  BY <1>1, <1>2
<1>4. sensors' \subseteq Devices
  BY DEF Publish, TypeOK
<1>5. retained' \in [Devices -> Retained]
  <2>1. CASE link # "up"
    BY <1>1, <2>1 DEF Publish
  <2>2. CASE link = "up"
    <3> DEFINE r == [avail |-> IF new.avail # record[d].avail THEN new.avail ELSE retained[d].avail,
                     power |-> IF new.power # record[d].power \/ (force /\ new.power # None)
                               THEN new.power ELSE retained[d].power,
                     discovery |-> retained[d].discovery
                                     \cup (IF disc THEN Discovery(entry[d]) ELSE {})]
    <3>1. retained' = [retained EXCEPT ![d] = r]
      BY <2>2 DEF Publish
    <3>2. r \in Retained
      BY <1>1 DEF Topics, Retained, Discovery
    <3> HIDE DEF r
    <3>3. QED
      BY <1>1, <3>1, <3>2
  <2>3. QED
    BY <2>1, <2>2
<1>6. QED
  BY <1>3, <1>4, <1>5

\* A publish on a connection that is up keeps the broker in step, if what
\* was not on record comes with its discovery and has an availability.
LEMMA PublishInStep ==
  ASSUME TypeOK, NEW d \in Devices, NEW disc \in BOOLEAN, NEW force \in BOOLEAN,
         NEW new \in Topics, Publish(d, disc, force, record[d], new),
         link = "up", \A e \in Devices : InStep(e),
         record[d] = Nothing /\ new # Nothing => disc /\ new.avail # None
  PROVE  \A e \in Devices : InStep(e)'
<1>1. /\ retained \in [Devices -> Retained] /\ record \in [Devices -> Topics]
      /\ record'[d] = new /\ \A e \in Devices \ {d} : record'[e] = record[e]
  BY PublishType DEF TypeOK, Topics, Retained
<1> DEFINE r == [avail |-> IF new.avail # record[d].avail THEN new.avail ELSE retained[d].avail,
                 power |-> IF new.power # record[d].power \/ (force /\ new.power # None)
                           THEN new.power ELSE retained[d].power,
                 discovery |-> retained[d].discovery
                                 \cup (IF disc THEN Discovery(entry[d]) ELSE {})]
<1>2. retained' = [retained EXCEPT ![d] = r]
  BY DEF Publish
<1>3. retained'[d] = r /\ \A e \in Devices \ {d} : retained'[e] = retained[e]
  BY <1>1, <1>2
<1>4. /\ \A e \in Devices \ {d} : e \in sensors' <=> e \in sensors
      /\ d \in sensors' => IF disc THEN entry[d] \in Vtpe ELSE d \in sensors
  BY DEF Publish
<1>5. \A e \in Devices \ {d} : InStep(e)'
  BY <1>1, <1>3, <1>4 DEF InStep
<1>6. ASSUME new # Nothing
      PROVE  /\ "base" \in r.discovery
             /\ d \in sensors' => "sensors" \in r.discovery
  <2>1. CASE disc
    BY <2>1, <1>4 DEF Discovery
  <2>2. CASE ~disc
    <3>1. record[d] # Nothing
      BY <2>2, <1>6
    <3>2. InStep(d)
      OBVIOUS
    <3>3. QED
      BY <2>2, <3>1, <3>2, <1>4 DEF InStep
  <2>3. QED
    BY <2>1, <2>2
<1>7. ASSUME new # Nothing
      PROVE  /\ r.avail = new.avail
             /\ new.power # None => r.power = new.power
  <2>1. CASE record[d] = Nothing
    BY <2>1, <1>7, NothingType
  <2>2. CASE record[d] # Nothing
    <3>1. InStep(d)
      OBVIOUS
    <3>2. QED
      BY <2>2, <3>1 DEF InStep
  <2>3. QED
    BY <2>1, <2>2
<1>8. InStep(d)'
  BY <1>1, <1>3, <1>6, <1>7 DEF InStep, Nothing
<1>9. QED
  BY <1>5, <1>8

-----------------------------------------------------------------------------
(***************************************************************************)
(* The steps of the loop.                                                  *)
(***************************************************************************)

States == {"init", "up", "grace", "down"}

\* What a step of the loop that handles d leaves alone.
HandlesOne(d) ==
    /\ d \in todo /\ todo' = todo \ {d}
    /\ UNCHANGED <<environmentVars, pc, entry, live, republish, linkVars, status, subscribed>>

\* Every step that publishes something of d keeps the invariant, if it names
\* the availability of a device that has come online, and calls it online
\* only while it is up or in its grace period.
LEMMA PublishKeeps ==
  ASSUME BridgeInv, NEW d \in Devices, HandlesOne(d),
         NEW disc \in BOOLEAN, NEW force \in BOOLEAN, NEW new \in Topics,
         Publish(d, disc, force, record[d], new),
         state' \in [Devices -> States], \A e \in Devices \ {d} : state'[e] = state[e],
         pc = "publish" => state' = state,
         new.avail = None => new.power = None,
         record[d] = Nothing /\ new # Nothing => disc,
         state'[d] # "init" => telemetry[d] # None /\ new.avail # None,
         new.avail = "online" => state'[d] \in {"up", "grace"}
  PROVE  BridgeInv'
<1>1. TypeOK
  BY DEF BridgeInv
<1>2. /\ record' \in [Devices -> Topics] /\ record'[d] = new
      /\ \A e \in Devices \ {d} : record'[e] = record[e]
      /\ sensors' \subseteq Devices /\ retained' \in [Devices -> Retained]
  BY <1>1, PublishType
<1>3. UNCHANGED <<telemetry, listed, pc, entry, live, republish, link, announced, status,
                  subscribed>>
      /\ todo' = todo \ {d}
  BY DEF HandlesOne, environmentVars, linkVars
<1>4. TypeOK'
  BY <1>1, <1>2, <1>3 DEF TypeOK, Topics, Retained, States
<1>5. AvailabilityFirst' /\ OnlineOnlyWithinGrace'
  BY <1>2 DEF BridgeInv, AvailabilityFirst, OnlineOnlyWithinGrace
<1>6. EntriesStay' /\ TodoIsKnown'
  BY <1>3 DEF BridgeInv, EntriesStay, TodoIsKnown, Known
<1>7. ObservedIsRecorded'
  BY <1>2, <1>3 DEF BridgeInv, ObservedIsRecorded
<1>8. AnnouncedInStep'
  <2>1. SUFFICES ASSUME Announced PROVE AnnouncedInStep'
    BY <1>3 DEF AnnouncedInStep, Announced
  <2>2. new # Nothing => new.avail # None
    BY NothingType
  <2>3. link = "up" /\ \A e \in Devices : InStep(e)
    BY <2>1 DEF BridgeInv, AnnouncedInStep, Announced
  <2>4. \A e \in Devices : InStep(e)'
    BY <1>1, <2>2, <2>3, PublishInStep
  <2>5. QED
    BY <2>1, <2>4, <1>3 DEF BridgeInv, AnnouncedInStep
<1>9. QED
  BY <1>4, <1>5, <1>6, <1>7, <1>8 DEF BridgeInv

\* A step that handles d and publishes nothing.
LEMMA SilentKeeps ==
  ASSUME BridgeInv, NEW d \in Devices, HandlesOne(d), UNCHANGED <<recordVars, retained>>,
         pc # "republish",
         state' \in [Devices -> States], \A e \in Devices \ {d} : state'[e] = state[e],
         pc = "publish" => state' = state,
         state'[d] = "init" <=> state[d] = "init",
         state[d] \in {"up", "grace"} => state'[d] \in {"up", "grace"}
  PROVE  BridgeInv'
<1>1. UNCHANGED <<telemetry, listed, pc, entry, live, republish, link, announced, status,
                  subscribed, record, sensors, retained>>
      /\ todo' = todo \ {d}
  BY DEF HandlesOne, environmentVars, linkVars, recordVars
<1>2. TypeOK'
  BY <1>1 DEF BridgeInv, TypeOK, States
<1>3. AvailabilityFirst' /\ OnlineOnlyWithinGrace'
  BY <1>1 DEF BridgeInv, AvailabilityFirst, OnlineOnlyWithinGrace
<1>4. EntriesStay' /\ TodoIsKnown'
  BY <1>1 DEF BridgeInv, EntriesStay, TodoIsKnown, Known
<1>5. ObservedIsRecorded'
  BY <1>1 DEF BridgeInv, ObservedIsRecorded
<1>6. AnnouncedInStep'
  BY <1>1 DEF BridgeInv, AnnouncedInStep, Announced, InStep
<1>7. QED
  BY <1>2, <1>3, <1>4, <1>5, <1>6 DEF BridgeInv

LEMMA RepublishKeeps ==
  ASSUME BridgeInv, NEW d \in Devices, Republish(d)
  PROVE  BridgeInv'
<1> DEFINE up == state[d] = "up"
           available == [record[d] EXCEPT !.avail = IF up THEN "online" ELSE "offline"]
           new == IF up THEN WithState(available, entry[d]) ELSE available
<1>1. pc = "republish" /\ HandlesOne(d) /\ Publish(d, TRUE, up, record[d], new)
      /\ state' = state
  BY DEF Republish, HandlesOne
<1>2. record[d] \in Topics /\ state' \in [Devices -> States]
  BY <1>1 DEF BridgeInv, TypeOK, Topics, States
<1>3. available \in Topics /\ available.avail = IF up THEN "online" ELSE "offline"
  BY <1>2 DEF Topics
<1>4. new \in Topics /\ new.avail = IF up THEN "online" ELSE "offline"
  BY <1>3, WithStateType
<1>5. d \in todo /\ telemetry[d] # None
  BY <1>1 DEF BridgeInv, TodoIsKnown, EntriesStay, Known, HandlesOne
<1>6. up \in BOOLEAN /\ new.avail # None
  BY <1>4, ValuesAssumption
<1> HIDE DEF new
<1>7. new.avail = "online" => state'[d] \in {"up", "grace"}
  BY <1>1, <1>4
<1>8. QED
  BY <1>1, <1>2, <1>4, <1>5, <1>6, <1>7, PublishKeeps

LEMMA DiscoverSensorsKeeps ==
  ASSUME BridgeInv, NEW d \in Devices, DiscoverSensors(d)
  PROVE  BridgeInv'
<1> DEFINE up == state[d] = "up"
           new == IF up THEN WithState(record[d], entry[d]) ELSE record[d]
<1>1. pc = "discover" /\ HandlesOne(d) /\ state' = state
  BY DEF DiscoverSensors, HandlesOne
<1>2. record[d] \in Topics /\ state' \in [Devices -> States]
  BY <1>1 DEF BridgeInv, TypeOK, Topics, States
<1>3. CASE Connected
  <2>1. Publish(d, TRUE, up, record[d], new)
    BY <1>3 DEF DiscoverSensors
  <2>2. new \in Topics /\ new.avail = record[d].avail
    BY <1>2, WithStateType
  <2>3. state[d] # "init" => telemetry[d] # None /\ new.avail # None
    BY <1>1, <2>2 DEF BridgeInv, ObservedIsRecorded
  <2>4. new.avail = None => new.power = None
    BY <2>2, <2>3 DEF BridgeInv, AvailabilityFirst
  <2>5. new.avail = "online" => state[d] \in {"up", "grace"}
    BY <2>2 DEF BridgeInv, OnlineOnlyWithinGrace
  <2>6. up \in BOOLEAN
    OBVIOUS
  <2> HIDE DEF new
  <2>7. QED
    BY <1>1, <1>2, <2>1, <2>2, <2>3, <2>4, <2>5, <2>6, PublishKeeps
<1>4. CASE ~Connected
  <2>1. UNCHANGED <<recordVars, retained>>
    BY <1>4 DEF DiscoverSensors
  <2>2. QED
    BY <1>1, <1>2, <2>1, SilentKeeps
<1>5. QED
  BY <1>3, <1>4

LEMMA ObserveKeeps ==
  ASSUME BridgeInv, NEW d \in Devices, Observe(d)
  PROVE  BridgeInv'
<1>1. pc = "observe" /\ HandlesOne(d)
  BY DEF Observe, HandlesOne
<1>2. record[d] \in Topics /\ state \in [Devices -> States]
  BY DEF BridgeInv, TypeOK, Topics, States
<1>3. telemetry[d] # None
  BY <1>1 DEF BridgeInv, TodoIsKnown, EntriesStay, Known, HandlesOne
<1>4. ASSUME NEW s \in States, state' = [state EXCEPT ![d] = s]
      PROVE  /\ state' \in [Devices -> States] /\ state'[d] = s
             /\ \A e \in Devices \ {d} : state'[e] = state[e]
  BY <1>2, <1>4
<1>5. CASE ComesOnline(d)
  <2> DEFINE available == [record[d] EXCEPT !.avail = "online"]
             new == WithState(available, entry[d])
             disc == record[d] = Nothing
  <2>1. Publish(d, disc, TRUE, record[d], new) /\ state' = [state EXCEPT ![d] = "up"]
    BY <1>5 DEF ComesOnline
  <2>2. available \in Topics /\ available.avail = "online"
    BY <1>2 DEF Topics
  <2>3. new \in Topics /\ new.avail = "online" /\ new.avail # None
    BY <2>2, WithStateType, ValuesAssumption
  <2>4. "up" \in States /\ disc \in BOOLEAN
    BY DEF States
  <2>5. /\ state' \in [Devices -> States] /\ state'[d] = "up"
        /\ \A e \in Devices \ {d} : state'[e] = state[e]
    BY <1>4, <2>1, <2>4
  <2>6. record[d] = Nothing /\ new # Nothing => disc
    OBVIOUS
  <2> HIDE DEF new, disc
  <2>7. QED
    BY <1>1, <1>3, <2>1, <2>3, <2>4, <2>5, <2>6, PublishKeeps
<1>6. CASE GraceExpires(d)
  <2> DEFINE new == [record[d] EXCEPT !.avail = "offline"]
  <2>1. Publish(d, FALSE, FALSE, record[d], new) /\ state' = [state EXCEPT ![d] = "down"]
        /\ state[d] = "grace"
    BY <1>6 DEF GraceExpires
  <2>2. new \in Topics /\ new.avail = "offline" /\ new.avail # None
    BY <1>2, ValuesAssumption DEF Topics
  <2>3. record[d] # Nothing
    BY <1>1, <2>1, NothingType DEF BridgeInv, ObservedIsRecorded
  <2>4. /\ state' \in [Devices -> States] /\ state'[d] = "down"
        /\ \A e \in Devices \ {d} : state'[e] = state[e]
    BY <1>4, <2>1 DEF States
  <2> HIDE DEF new
  <2>5. QED
    BY <1>1, <1>3, <2>1, <2>2, <2>3, <2>4, PublishKeeps
<1>7. CASE EntersGrace(d) \/ RecoversWithinGrace(d)
  <2>1. PICK s \in {"up", "grace"} : state' = [state EXCEPT ![d] = s]
    BY <1>7 DEF EntersGrace, RecoversWithinGrace
  <2>2. state[d] \in {"up", "grace"} /\ UNCHANGED <<recordVars, retained>>
    BY <1>7 DEF EntersGrace, RecoversWithinGrace
  <2>3. /\ state' \in [Devices -> States] /\ state'[d] = s
        /\ \A e \in Devices \ {d} : state'[e] = state[e]
    BY <1>4, <2>1 DEF States
  <2>4. QED
    BY <1>1, <2>1, <2>2, <2>3, SilentKeeps
<1>8. CASE NoEvent(d)
  BY <1>1, <1>2, <1>8, SilentKeeps DEF NoEvent
<1>9. QED
  BY <1>5, <1>6, <1>7, <1>8 DEF Observe

LEMMA PublishStateKeeps ==
  ASSUME BridgeInv, NEW d \in Devices, PublishState(d)
  PROVE  BridgeInv'
<1> DEFINE new == WithState(record[d], entry[d])
<1>1. /\ pc = "publish" /\ HandlesOne(d) /\ state' = state
      /\ Publish(d, FALSE, FALSE, record[d], new)
  BY DEF PublishState, HandlesOne
<1>2. record[d] \in Topics /\ state' \in [Devices -> States]
  BY <1>1 DEF BridgeInv, TypeOK, Topics, States
<1>3. new \in Topics /\ new.avail = record[d].avail
  BY <1>2, WithStateType
<1>4. state[d] = "up"
  BY <1>1 DEF BridgeInv, TodoIsKnown, HandlesOne
<1>5. telemetry[d] # None /\ new.avail # None /\ record[d] # Nothing
  BY <1>1, <1>3, <1>4, NothingType DEF BridgeInv, ObservedIsRecorded
<1> HIDE DEF new
<1>6. QED
  BY <1>1, <1>2, <1>3, <1>4, <1>5, PublishKeeps

-----------------------------------------------------------------------------
\* The inputs of a round.  When the flag is seen nothing is on record any
\* more, and every device that has ever come online is to be republished.
LEMMA ReadKeeps ==
  ASSUME BridgeInv, Read
  PROVE  BridgeInv'
<1>1. /\ pc = "read" /\ entry' = telemetry /\ live' = listed
      /\ UNCHANGED <<telemetry, listed, state, link, announced, retained, subscribed>>
  BY DEF Read, environmentVars, linkVars
<1>2. EntriesStay'
  BY <1>1 DEF EntriesStay
<1>3. CASE republish /\ Connected
  <2>1. /\ pc' = "republish" /\ todo' = {d \in Devices : telemetry[d] # None}
        /\ republish' = FALSE /\ sensors' = {}
        /\ record' = [d \in Devices |-> Nothing]
        /\ status' = IF link = "up" THEN "online" ELSE status
    BY <1>3 DEF Read
  <2>2. \A d \in Devices : record'[d] = Nothing
    BY <2>1
  <2>3. record' \in [Devices -> Topics]
    BY <2>1, NothingType
  <2>4. TypeOK'
    BY <1>1, <2>1, <2>3 DEF BridgeInv, TypeOK, Topics
  <2>5. AvailabilityFirst' /\ OnlineOnlyWithinGrace'
    BY <2>2, NothingType, ValuesAssumption DEF AvailabilityFirst, OnlineOnlyWithinGrace
  <2>6. TodoIsKnown'
    BY <1>1, <2>1 DEF TodoIsKnown, Known
  <2>7. ObservedIsRecorded'
    BY <1>1, <2>1 DEF BridgeInv, ObservedIsRecorded
  <2>8. AnnouncedInStep'
    BY <1>1, <2>1, <2>2 DEF AnnouncedInStep, Announced, InStep, Nothing
  <2>9. QED
    BY <1>2, <2>4, <2>5, <2>6, <2>7, <2>8 DEF BridgeInv
<1>4. CASE ~(republish /\ Connected)
  <2>1. /\ pc' = "discover" /\ todo' = Unmarked(telemetry)
        /\ UNCHANGED <<republish, record, sensors, status>>
    BY <1>4 DEF Read, recordVars
  <2>2. TypeOK'
    BY <1>1, <2>1 DEF BridgeInv, TypeOK, Unmarked
  <2>3. AvailabilityFirst' /\ OnlineOnlyWithinGrace' /\ TodoIsKnown'
    BY <1>1, <2>1 DEF BridgeInv, AvailabilityFirst, OnlineOnlyWithinGrace, TodoIsKnown
  <2>4. ObservedIsRecorded'
    BY <1>1, <2>1 DEF BridgeInv, ObservedIsRecorded
  <2>5. AnnouncedInStep'
    BY <1>1, <2>1 DEF BridgeInv, AnnouncedInStep, Announced, InStep
  <2>6. QED
    BY <1>2, <2>2, <2>3, <2>4, <2>5 DEF BridgeInv
<1>5. QED
  BY <1>3, <1>4

\* The end of a stage begins the next one.
LEMMA StageKeeps ==
  ASSUME BridgeInv, Subscribe \/ Discovered \/ Observed \/ Published
  PROVE  BridgeInv'
<1>1. UNCHANGED <<telemetry, listed, state, record, sensors, republish, link, announced,
                  retained, status>>
      /\ todo = {}
  BY DEF Subscribe, Discovered, Observed, Published, environmentVars, linkVars, recordVars,
         brokerVars
<1>2. ASSUME pc' # "republish",
             pc = "republish" => (link = "up" => subscribed'),
             pc # "republish" => subscribed' = subscribed
      PROVE  AnnouncedInStep'
  BY <1>1, <1>2 DEF BridgeInv, AnnouncedInStep, Announced, InStep
<1>3. AvailabilityFirst' /\ OnlineOnlyWithinGrace' /\ ObservedIsRecorded'
  BY <1>1 DEF BridgeInv, AvailabilityFirst, OnlineOnlyWithinGrace, ObservedIsRecorded
<1>4. CASE Subscribe
  <2>1. /\ pc = "republish" /\ pc' = "discover" /\ todo' = Unmarked(entry)
        /\ subscribed' = (link = "up" \/ subscribed) /\ UNCHANGED <<entry, live>>
    BY <1>4 DEF Subscribe
  <2>2. subscribed' \in BOOLEAN
    BY <2>1 DEF BridgeInv, TypeOK
  <2>3. TypeOK'
    BY <1>1, <2>1, <2>2 DEF BridgeInv, TypeOK, Unmarked
  <2>4. EntriesStay' /\ TodoIsKnown'
    BY <1>1, <2>1 DEF BridgeInv, EntriesStay, TodoIsKnown
  <2>5. QED
    BY <1>2, <1>3, <2>1, <2>3, <2>4 DEF BridgeInv
<1>5. CASE Discovered
  <2>1. /\ pc = "discover" /\ pc' = "observe" /\ todo' = Known
        /\ UNCHANGED <<entry, live, subscribed>>
    BY <1>5 DEF Discovered, brokerVars
  <2>2. TypeOK'
    BY <1>1, <2>1 DEF BridgeInv, TypeOK, Known
  <2>3. EntriesStay' /\ TodoIsKnown'
    BY <1>1, <2>1 DEF BridgeInv, EntriesStay, TodoIsKnown, Known
  <2>4. QED
    BY <1>2, <1>3, <2>1, <2>2, <2>3 DEF BridgeInv
<1>6. ASSUME Observed, pc' = "publish", todo' = {d \in Known : state[d] = "up"},
             UNCHANGED <<entry, live>>
      PROVE  BridgeInv'
  <2>1. pc = "observe" /\ subscribed' = subscribed
    BY <1>6 DEF Observed, brokerVars
  <2>2. TypeOK'
    BY <1>1, <1>6, <2>1 DEF BridgeInv, TypeOK, Known
  <2>3. EntriesStay' /\ TodoIsKnown'
    BY <1>1, <1>6 DEF BridgeInv, EntriesStay, TodoIsKnown, Known
  <2>4. QED
    BY <1>2, <1>3, <1>6, <2>1, <2>2, <2>3 DEF BridgeInv
<1>7. ASSUME RoundEnds, pc # "republish", subscribed' = subscribed
      PROVE  BridgeInv'
  <2>1. /\ pc' = "read" /\ todo' = {} /\ live' = {}
        /\ entry' = [d \in Devices |-> None]
    BY <1>7 DEF RoundEnds
  <2>2. TypeOK'
    BY <1>1, <1>7, <2>1 DEF BridgeInv, TypeOK
  <2>3. EntriesStay' /\ TodoIsKnown'
    BY <2>1 DEF EntriesStay, TodoIsKnown
  <2>4. QED
    BY <1>2, <1>3, <1>7, <2>1, <2>2, <2>3 DEF BridgeInv
<1>8. CASE Observed
  <2>1. pc = "observe" /\ subscribed' = subscribed
    BY <1>8 DEF Observed, brokerVars
  <2>2. QED
    BY <1>6, <1>7, <1>8, <2>1 DEF Observed
<1>9. CASE Published
  BY <1>7, <1>9 DEF Published, brokerVars
<1>10. QED
  BY <1>4, <1>5, <1>8, <1>9

-----------------------------------------------------------------------------
(***************************************************************************)
(* The connection, the devices and the relay.                              *)
(***************************************************************************)

\* No step of the connection makes it look announced; on_connect sets the flag.
LEMMA ConnectionKeeps ==
  ASSUME BridgeInv, Connect \/ OnConnect \/ Break \/ Notice
  PROVE  BridgeInv'
<1>1. UNCHANGED <<telemetry, listed, pc, todo, entry, live, state, record, sensors>>
  BY DEF Connect, OnConnect, Break, Notice, environmentVars, loopVars, recordVars
<1>2. AvailabilityFirst' /\ EntriesStay' /\ TodoIsKnown' /\ ObservedIsRecorded'
      /\ OnlineOnlyWithinGrace'
  BY <1>1 DEF BridgeInv, AvailabilityFirst, EntriesStay, TodoIsKnown, Known, ObservedIsRecorded,
              OnlineOnlyWithinGrace
<1>3. ~Announced'
  BY DEF Connect, OnConnect, Break, Notice, Announced
<1>4. link' \in {"down", "up", "broken"} /\ announced' \in BOOLEAN /\ republish' \in BOOLEAN
  BY DEF BridgeInv, TypeOK, Connect, OnConnect, Break, Notice
<1>5. /\ retained' \in [Devices -> Retained] /\ status' \in {"online", "offline"}
      /\ subscribed' \in BOOLEAN
  <2>1. NothingRetained \in [Devices -> Retained]
    BY DEF NothingRetained, Retained
  <2>2. CASE Break
    BY <2>1, <2>2 DEF BridgeInv, TypeOK, Break, Retained
  <2>3. CASE Connect \/ OnConnect \/ Notice
    BY <2>3 DEF BridgeInv, TypeOK, Connect, OnConnect, Notice, brokerVars, Retained
  <2>4. QED
    BY <2>2, <2>3
<1>6. TypeOK'
  BY <1>1, <1>4, <1>5 DEF BridgeInv, TypeOK, Retained
<1>7. QED
  BY <1>2, <1>3, <1>6 DEF BridgeInv, AnnouncedInStep

\* A new process has no record and no connection.
LEMMA RestartKeeps ==
  ASSUME BridgeInv, Restart
  PROVE  BridgeInv'
<1>1. /\ pc' = "read" /\ todo' = {} /\ live' = {} /\ entry' = [d \in Devices |-> None]
      /\ state' = [d \in Devices |-> "init"]
      /\ record' = [d \in Devices |-> Nothing] /\ sensors' = {}
      /\ republish' = FALSE /\ link' = "down" /\ announced' = FALSE /\ subscribed' = FALSE
      /\ status' \in {"offline", status} /\ UNCHANGED <<telemetry, listed, retained>>
  BY DEF Restart, environmentVars
<1>2. record' \in [Devices -> Topics] /\ \A d \in Devices : record'[d] = Nothing
  BY <1>1, NothingType
<1>3. TypeOK'
  BY <1>1, <1>2 DEF BridgeInv, TypeOK, Topics
<1>4. AvailabilityFirst' /\ OnlineOnlyWithinGrace'
  BY <1>2, NothingType, ValuesAssumption DEF AvailabilityFirst, OnlineOnlyWithinGrace
<1>5. EntriesStay' /\ TodoIsKnown' /\ ObservedIsRecorded' /\ AnnouncedInStep'
  BY <1>1 DEF EntriesStay, TodoIsKnown, ObservedIsRecorded, AnnouncedInStep, Announced
<1>6. QED
  BY <1>3, <1>4, <1>5 DEF BridgeInv

\* Devices and the relay only change what the next round reads.
LEMMA InputKeeps ==
  ASSUME BridgeInv,
         \/ \E d \in Devices : EntryAppears(d)
         \/ \E d \in Devices, v \in Values : Report(d, v)
         \/ \E S \in SUBSET Devices : Listed(S)
  PROVE  BridgeInv'
<1>1. UNCHANGED <<pc, todo, entry, live, state, record, sensors, republish, link, announced,
                  retained, status, subscribed>>
  BY DEF EntryAppears, Report, Listed, loopVars, recordVars, linkVars, brokerVars
<1>2. /\ telemetry' \in [Devices -> Values \cup {Blank, None}] /\ listed' \subseteq Devices
      /\ \A d \in Devices : telemetry[d] # None => telemetry'[d] # None
  <2>1. CASE \E d \in Devices : EntryAppears(d)
    BY <2>1 DEF BridgeInv, TypeOK, EntryAppears
  <2>2. CASE \E d \in Devices, v \in Values : Report(d, v)
    BY <2>2, ValuesAssumption DEF BridgeInv, TypeOK, Report
  <2>3. CASE \E S \in SUBSET Devices : Listed(S)
    BY <2>3 DEF BridgeInv, TypeOK, Listed
  <2>4. QED
    BY <2>1, <2>2, <2>3
<1>3. TypeOK'
  BY <1>1, <1>2 DEF BridgeInv, TypeOK
<1>4. AvailabilityFirst' /\ OnlineOnlyWithinGrace' /\ TodoIsKnown' /\ AnnouncedInStep'
  BY <1>1 DEF BridgeInv, AvailabilityFirst, OnlineOnlyWithinGrace, TodoIsKnown, Known,
              AnnouncedInStep, Announced, InStep
<1>5. EntriesStay' /\ ObservedIsRecorded'
  BY <1>1, <1>2 DEF BridgeInv, EntriesStay, ObservedIsRecorded
<1>6. QED
  BY <1>3, <1>4, <1>5 DEF BridgeInv

-----------------------------------------------------------------------------
LEMMA InitBridge == Init => BridgeInv
<1> SUFFICES ASSUME Init PROVE BridgeInv
  OBVIOUS
<1>1. record \in [Devices -> Topics] /\ \A d \in Devices : record[d] = Nothing
  BY NothingType DEF Init
<1>2. retained \in [Devices -> Retained]
  BY DEF Init, NothingRetained, Retained
<1>3. TypeOK
  BY <1>1, <1>2 DEF Init, TypeOK, Topics, Retained
<1>4. AvailabilityFirst /\ OnlineOnlyWithinGrace
  BY <1>1, NothingType, ValuesAssumption DEF AvailabilityFirst, OnlineOnlyWithinGrace
<1>5. EntriesStay /\ TodoIsKnown /\ ObservedIsRecorded /\ AnnouncedInStep
  BY DEF Init, EntriesStay, TodoIsKnown, ObservedIsRecorded, AnnouncedInStep, Announced
<1>6. QED
  BY <1>3, <1>4, <1>5 DEF BridgeInv

\* Every step of the loop, the client thread and the environment keeps it.
LEMMA NextBridge == BridgeInv /\ [Next]_vars => BridgeInv'
<1> SUFFICES ASSUME BridgeInv, [Next]_vars PROVE BridgeInv'
  OBVIOUS
<1>1. CASE LoopStep
  BY <1>1, ReadKeeps, StageKeeps, RepublishKeeps, DiscoverSensorsKeeps, ObserveKeeps,
     PublishStateKeeps DEF LoopStep
<1>2. CASE ClientStep
  BY <1>2, ConnectionKeeps DEF ClientStep
<1>3. CASE EnvironmentStep
  BY <1>3, InputKeeps, ConnectionKeeps, RestartKeeps DEF EnvironmentStep
<1>4. CASE UNCHANGED vars
  <2>1. UNCHANGED <<telemetry, listed, pc, todo, entry, live, state, record, sensors, republish,
                    link, announced, retained, status, subscribed>>
    BY <1>4 DEF vars, environmentVars, loopVars, recordVars, linkVars, brokerVars
  <2>2. QED
    BY <2>1 DEF BridgeInv, TypeOK, AvailabilityFirst, EntriesStay, TodoIsKnown, Known,
                ObservedIsRecorded, AnnouncedInStep, Announced, InStep, OnlineOnlyWithinGrace
<1>5. QED
  BY <1>1, <1>2, <1>3, <1>4 DEF Next

-----------------------------------------------------------------------------
(***************************************************************************)
(* The theorems.                                                           *)
(***************************************************************************)

\* The invariant, for any sets of devices and values.
THEOREM BridgeInvariant == Spec => []BridgeInv
<1>1. QED
  BY InitBridge, NextBridge, PTL DEF Spec

\* The loop's record, the broker's topics and both threads' variables are
\* well typed.
THEOREM TypeCorrect == Spec => []TypeOK
<1>1. BridgeInv => TypeOK
  BY DEF BridgeInv
<1>2. QED
  BY <1>1, BridgeInvariant, PTL

\* Once the bridge has published on a connection, and for as long as nothing
\* happens to it, the broker retains what the bridge has on record of every
\* device, with its discovery, and the bridge is online and subscribed:
\* however often connections broke unnoticed, publishes were skipped, or the
\* broker or the bridge was restarted before.
THEOREM SettledBridgeIsInStep == Spec => []SettledIsInStep
<1>1. BridgeInv => SettledIsInStep
  <2> SUFFICES ASSUME BridgeInv, Settled PROVE BrokerFollowsRecord /\ BridgeIsServing
    BY DEF SettledIsInStep, BrokerFollowsRecord, BridgeIsServing
  <2>1. Announced /\ pc # "republish"
    BY DEF Settled, Announced
  <2>2. QED
    BY <2>1 DEF BridgeInv, AnnouncedInStep, InStep, BrokerFollowsRecord, BridgeIsServing
<1>2. QED
  BY <1>1, BridgeInvariant, PTL

\* No republish, retry or event puts a device on record as online that the
\* AvailabilityMachine does not take for up or in its grace period.
THEOREM OnlineIsUpOrInGrace == Spec => []OnlineOnlyWithinGrace
<1>1. BridgeInv => OnlineOnlyWithinGrace
  BY DEF BridgeInv
<1>2. QED
  BY <1>1, BridgeInvariant, PTL

\* Settled, Home Assistant shows a device that the bridge has observed as
\* online only while the bridge takes it for up or in its grace period, and
\* never without its discovery.  (One that was last observed before the bridge
\* was restarted keeps what is retained of it.)
THEOREM ShownOnlineIsUpOrInGrace ==
  Spec => [](Settled => \A d \in Devices :
                 record[d] # Nothing /\ retained[d].avail = "online" =>
                     state[d] \in {"up", "grace"} /\ "base" \in retained[d].discovery)
<1>1. BridgeInv => (Settled => \A d \in Devices :
                 record[d] # Nothing /\ retained[d].avail = "online" =>
                     state[d] \in {"up", "grace"} /\ "base" \in retained[d].discovery)
  BY DEF BridgeInv, AnnouncedInStep, Announced, InStep, Settled, OnlineOnlyWithinGrace
<1>2. QED
  BY <1>1, BridgeInvariant, PTL
=============================================================================
