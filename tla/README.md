# A verification project for the local MTTL-W01 relay and its Home Assistant bridge

The repository keeps MTTL-W01 power strips working without their manufacturer's
cloud: a relay terminates their TLS, answers their HTTPS and MQTT requests from
rule files, a bridge shows them in Home Assistant, a dashboard in the browser.
Here are TLA+ modules of the parts in which order and failure matter, TLC
configurations that check them on small instances, and proofs for all instances
where they were in reach. Paths are relative to the repository; `bridge` below
is `bridge/mttl_ha_bridge.py`, `relay.py` is `vendor/smartrelay/relay.py`.

## 1. The system

    device --TLS--> relay (thread per connection) --> rules 10, 15, 16, 99
                      |  DeviceRegistry, TapBus         |        |
                      |                         devices.json   OTA state, ARM file
      observers <--plain MQTT--+                        |
      (bridge, dashboard)                               |
                      HA bridge: loop thread + client thread --> MQTT broker of HA

| component | state it keeps | operations | with whom | what makes it correct | here |
|---|---|---|---|---|---|
| Relay sessions (`relay.py` `DeviceRegistry`, `handle_tls`; `mqtt_session.py`) | `_sessions` (a dict in insertion order), `_latest`, the sockets | register on CONNECT, displace a duplicate, unregister on close, `get` | a thread per device, observers | the registry hands out only sessions being served; a late close evicts nobody else | `RelaySessions`, `SessionDirectory`, `RelayPresence` |
| Observer connections (`handle_observer_conn`) | the registry entry a command found | list, inject | registry, rules, device sockets | a command is written to the device it names | `RelaySessions` |
| Firmware rule (`15-firmware-ota.py`) and `_serve_stream` | state file (phase, offer), ARM file, running streams | version check, download, completion | operator, device, relay restart | one armed update, spent by a whole transfer and by nothing else; it goes through | `FirmwareOta`, `OneShot` |
| HA bridge: publishing (`_loop`, `AvailabilityMachine`, `mttl_mqtt_client.py`) | `_last_pub`, `_vtpe_pub`, the machine, `_ha_need_republish` | a round of the loop; connect, reconnect | devices.json, session list, broker | the broker shows what the devices do, after any break | `HaAvailability` |
| HA bridge: commands (`_on_ha_message`, `_check_pending`) | `_slug2cid`, `_pending` | accept, inject, confirm, time out | client thread, loop thread, relay | a command reaches its device; asks once; ends | `HaCommands` |
| Identity (`10-dashboard-feed.py`, `merge_entry`, `SlugMap`) | devices.json, the slugmap file | file by client id or IP, merge, prune; learn | relay hooks, bridge | identities mix only by way of a shared address; a binding stays; a device is found | `DeviceIdentity` |
| Dashboard control (`mttl_dashboard.py`) | list of sessions, last view, link state | select, inject, confirm | relay, browser | a request acts on the card it was made for; the list becomes right again | `DashboardControl` |
| Tap bus and MQTT framing (`relay.py` `TapBus`, `mqtt_wire.py`, the receive loop of `mttl_mqtt_client.py`) | subscribers, a `write_lock` for each, the unread bytes of a framer | subscribe, publish, feed | device threads, the observer's own session | packets arrive whole, in order, once; a slow observer does not stop devices for ever | `MqttStream`, `PacketChannel` |
| Rules engine (`rules_engine.py`) | modules, mtimes | load, reload, dispatch | every thread | what is not reloaded is current; a faulty edit keeps the rule in service | `RulesEngine` |
| Default rule (`99-default.py`), and the values the feed keeps (`mttl_telemetry.py`) | `_DEVICE_STATE`; the values in devices.json | answer the registration, bootstrap, take telemetry, turn commands into messages | device, observers, two threads of one device | the file comes to show the switches; a complete status is right | `DeviceTelemetry` |
| QMS sink (`16-qms-sink.py`) | counters, log | record a hit | HTTP threads, another instance of itself | what was answered is in the log; the file can be read | `QmsSink` |
| Certificates (`relay.py`) | files per domain | mint a leaf | TLS threads | a chain that is used is complete | not modelled, see 5 |
| DNS lookup and proxying to the old cloud | none of its own | pump | | | not modelled: bytes are passed on |
| Telemetry parsing, HA discovery payloads | none | | | | what they decide, not their formats: in `DeviceTelemetry`, `DeviceIdentity`, `HaAvailability` |
| Dashboard HTML | none | | | | not modelled: rendering |
| Provisioning tools, deployment scripts | none at run time | | | | not modelled: one-shot, sequential |

What is hard to test here is in `PROJECT.json` under `hazards`, each at its
line. In short: several threads share a registry and files; sockets are used
after the lock that found them is released; the bridge's two threads share
dictionaries without a lock; the MQTT client drops what is published while it
is not connected; a process may stop between two writes; and devices are
recognised by addresses that may be given to others.

## 2. The modules and the code

Each action is a piece of code that runs without anyone else seeing its middle:
what is under one lock, or one stage of the loop for one device. A variable
that is not named below is described where it is declared.

**`RelaySessions`.** A session is a socket object with its thread; its name is
used again only when nothing holds the old object, so three sessions have
behaviours of any length. `Register` is `DeviceRegistry.register` under its lock,
`CloseDisplaced` what it does after the lock: any interleaving of other threads
may come between. `Unregister` compares the socket, as the code does, and
`Evict` moves `_latest` to the last key of the dict. An observer's command is
three steps: `Locate` (`get`), `Address` (the context, which for an untargeted
command asks for the latest id again), `Write`. `Displaced` is the receive loop
of a socket that somebody else closed; closing does not wake it, its receive
timeout does. In proxy mode registration and removal are the same calls. Of the
devices it is assumed that they send one CONNECT on a connection, with a client
id that is not empty, as these plugs do with what `/mef` gives them. The relay does
not insist: an empty id is registered and never unregistered (`relay.py:705`,
`relay.py:797`), and a second CONNECT leaves the first id registered
(`mqtt_session.py:89`).

**`SessionDirectory`** is what the registry promises, without locks, threads or
a dict: a session is the one of its client id from the moment it begins, an end
takes it out in the same moment and nobody else with it, only sessions that
another one has superseded are cut off, and a command keeps the session that was
the right one when it came. A command without a target may name another id than
the one whose session it found, as in the code (section 5). `RelaySessions`
implements it (`IsDirectory`): `Register` is the beginning of a session,
`CloseDisplaced` the cutting off, `Unregister` its end, `Locate`, `Address` and `Write`
the three steps of a command; what a thread does for itself is a stutter.

**`RelayPresence`** is the relay as its clients know it, the devices that have
a session and the latest of them. `HaCommands` and `DashboardControl` are
composed with it: their `SessionBegins` and `SessionEnds` are its `Begins` and `Ends`
together with what they mean to the client. `RelaySessions` implements it, too
(`IsPresence`), which is why a client's module may have it in place of the registry.

**`FirmwareOta`.** Each request handler runs under `_LOCK` and is one action
(`VersionCheck`, `FirmwareGet`); what both check is `Admitted`. The stream then
runs outside the lock: `OpenImage`, `SendAll` or `Break`, and the callback
`FinishFull`, then `Burn` (two writes, the lock held, a crash possible in
between), or `FinishPartial`; `FinishUnwritten` when the state file cannot be
written. Every look at the state file is a `Reading`, which may fail and is then
taken for no state; what the callback writes back is what it has read (`Note`).
`Restart` loses the streams and keeps the files, and may bring another
configuration: a target and the deny lists. The operator writes ARM files
(`WriteArm`), replaces the image, removes the state file. A unit is its source
address together with its origin, and two units may have one address: a request
that carries no origin is matched by the address alone, shortly after the offer,
and then the deny list of origins does not see it (`Denied`). An image stands for
its bytes, hash, version and path, and is opened after the answer, whatever is at
the path by then. A rejected request changes nothing and is no action.

**`OneShot`** is what an update promises, without files, lock and stages:
transfers begin while it is open, and only one that has delivered the whole image
spends it, and afterwards uses up the authorisation. A transfer that breaks off
opens the update again, also when another has spent it meanwhile, and so does an
offer after a failed read: that is what the code does (sections 3 and 5).
`FirmwareOta` implements it (`IsOneShot`); an update is unused, open or spent by
the phase in the state file, and the authorisations used up are the ARM files
renamed away.

**`HaAvailability`.** The stages of one round of the loop are `Read` (inputs and
the republish flag), `Republish` of each device and `Subscribe`,
`DiscoverSensors`, `Observe` (the availability machine with what its event
publishes) and `PublishState`. `Publish` is the one place where something is
sent: it arrives only if the connection is really up, and the record is updated
in any case, which is what `_pub` does. A link is `up`, `broken` (not noticed
yet: the client says connected) or `down`. `OnConnect` sets the flag some time
after `Connect`. `Break` also lets the broker publish the will and perhaps lose
what it retained. The periodic `STATUS_GET` changes no state and is left out.

**`HaCommands`.** The client thread's callback is `Accept` (the look-up),
`SendInject` (the second look at `_slug2cid`, which decides whether the inject
names its device) and `Remember`; the loop empties and refills the map (`Empty`,
`Fill`) and goes through `_pending` key by key (`Hold`, `Settle`). Entries are
objects with an identity, since the callback may replace one that the loop
holds. The relay is that of `RelayPresence`. The
commands are those of the All switch, whose entry owes one `STATUS_GET`.

**`DeviceIdentity`.** devices.json is an ordered map (`entry`, `order`) and its
`ip:` entries (`pseudo`). `FromClient` and `FromAddress` are `_record` with and
without a client id; `Merged`, `Pruned` and `FirstAt` are `merge_entry`, `_prune`
and the search by IP of `_get_entry`. `Mef` files a MAC by address, `Contact` is
an MQTT message, `Inject` an observer's command, which carries the observer's
address. The post may lack the MAC, and then leaves an `ip:` entry that is `Blank`.
The bridge is `Resolve` (learn once, save if possible) and `BridgeRestart` (load, or
fail to). A device that is switched on gets any address of its `Leases` that is free, one that
another device had before among them, and a client id of its own, another one than
the last time if it has several. `had`, the addresses a device has had, and `misread`, that
the bridge has once started without its map, are history variables.
Values, timestamps and counters in an entry are left out.

**`DashboardControl`.** The relay is that of `RelayPresence`. An observer's question
for the list is answered in two steps, as in the code:
`Compute` in the thread of the observer that asked, `Broadcast` to all of them, so
that the answer to the bridge reaches the dashboard too, and an older answer may
come last (`answer[o]` is what was computed and not sent yet). `Connect`, `Break`,
`Notice` are the link, which keeps `view` when it is lost; `ViewAges` is the
15 seconds after which `fresh` no longer holds. A request is a thread of the
HTTP server: `Ask` (`do_control` up to `_target_selection`, which may refuse, and
which finds no client id for a card that devices.json knows by address only, or
when the file cannot be read: `WantCid`),
`Publish`, `StartConfirm`, `Poll`. `Deliver` is the relay taking a command, which
it sends to the device named or to its latest session. `steady` is a history
variable that no guard reads: the list was right at `Ask`, and no session has
begun or ended since.

**`MqttStream`** is one direction of an observer connection, byte by byte. A
packet is its first byte and a body; `Varint`, `Value`, `LengthEnd` and
`Framed` are the length encoding and the framer with any base in place of 128.
The threads are `Engine`, the observer's own session, and `Guests`, device threads
that publish through the tap. Each takes the `write_lock` (`Acquire`) and sends in
pieces of any size (`Write`) as long as TCP has room. When the client does not
read, `TimeOut` ends the send: for a tapped packet the exception is swallowed and
the connection lives on with half a packet on it (`torn`), in the session it ends
the connection. `Recv` is the client, which drops all packets up to and with
the CONNACK; `Stall` holds its process up or lets it go on. `Break` resets the
connection; a thread that still holds the old socket fails on it (`Fail`).

**`PacketChannel`** is what such a connection promises, without bytes: offered
packets are accepted whole and in order, given up, taken, or lost all together.
Only after a write that ended half way may something else arrive. `MqttStream`
implements it with the packets that the framer would find in `buf \o wire` as
the queue and what each writer is sending as its offer (`IsChannel`).

**`RulesEngine`.** A hook call is `List` (`listdir`, before the lock is taken),
`Enter`, then for each file `Check` (its mtime) and `Load` (which reads what the file
is by then), `Sweep` (modules not listed are dropped, the lock is released), `Snapshot` (the
lock is taken again to copy the modules) and `Return`. The operator's `Edit` and
`RemoveFile` come between any two of these. A version is the number of the edit that
wrote it, and its mtime; `faulty` are those that raise when they are loaded.

**`DeviceTelemetry`.** Every message of a device goes through two rules in the
thread of its connection: `Feed` (`10-dashboard-feed.py`: read, merged by
`MergeDelta` and saved under its lock) and then `DefaultRule` (`99-default.py`),
which answers a registration request (`Answer`, `Reply`), begins the status anew
(`Bootstrap`), or adds to the status reports seen (`Telemetry`) and, without a
lock, then decides whether they are complete (`Settle`). The `present` thread
takes messages (`Take`); when the device connects again (`Connect`), the `former`
one still finishes the message it has in hand, with the same `_DEVICE_STATE`.
`verdict` is what it will settle on if a bootstrap has replaced the set that it
had fetched. `OnLocalInject` is a command that becomes a message, `ControlOf` its
header, which names the device by its id or by a guess; `AskStatus` is the one
that the dashboard repeats. `Reload` gives `99-default` a new, empty memory, while
calls under way stay with the old one (`loaded`); `Restart` ends everything but
the file. The device is external: buttons, commands, and one report for each
selector (`Told`). A press of the button for all tells of every outlet, as
`mttl_telemetry.py` takes it; a command for all is answered by a message about
selector 0 alone, so that the outlets it switched are `untold`, a history
variable, until a status report or an event tells of them. Selector 0, the whole
strip, is in the status reports but is no switch of its own in `power`. `view` is
a history variable: whether `cache` is the present connection's alone. Left out:
further messages that came in one piece with the one in hand, malformed values,
the buckets beside the switches, which are filled in the same way, and what
`99-default` keeps of them, which nobody reads.

**`QmsSink`.** A hit is `Request` (the engine has chosen the instance of the module),
`Record` (its lock, the log line, which may fail or end half way and spoil the next
one, and the state as read: an error is taken for a file that counts nothing), `Open`,
`Write`, `Replace` (the temporary file, then the rename, the answer), or `Fail` at any
of the last three. `Reload` makes another instance, with a lock of its own, the one
that is called from then on; `RelayRestarts` may leave a temporary file. The content of
the state file is the set of hits it counts. An open file is followed by the name
it has, because a rename by another instance takes it along. The feed and the
firmware rule save their files by the same three steps.

Definitions under the words "A mutant:" are wrong on purpose: no action uses
them. Each shows that the property it is listed with can fail.

## 3. The runs

| run | question | states |
|---|---|---|
| `relay_registry` | Three connections, two client ids, one observer. Is a registered session always one that is served, is no served session lost, is there a default target whenever there is a session; does it implement the directory, and the relay its clients are composed with; does a displaced thread end? | 135 000 |
| `ota` | Two overlapping streams, two ARM files, two images, four units on two addresses, three configurations, one read of the state that fails. Is the rule a one-shot, spent by a whole transfer and burned after that; does an armed update go through? | 41 000 |
| `ha_availability` | One device, two values, one with the sensors' mark. Does the broker hold what the record says; do absence, values and sensors come through? | 159 000 |
| `ha_commands` | Two devices, one of which gets its MAC on the way, two commands of the All switch. Is `STATUS_GET` sent at most once, does an older entry never come back, does each pending end? | 177 000 |
| `identity` | Two devices, one with two client ids, one that may get the other's address. Do identities mix by way of a shared address only, does a MAC stay on file, is a binding write-once, is the device found? | 153 000 |
| `dashboard` | Two devices, two observers that ask for the list, one request. Does a request from a right list reach the device of its card; does the list become right however answers overtake; is a device that is gone shown as such? | 271 000 |
| `stream` | The session and two guests on one connection, two-byte bodies, three bytes of room. Does the byte stream implement the channel; does the handshake end and everything arrive; is a device thread held up only for a time? | 42 000 |
| `telemetry` | One device with one outlet, switched by the button and by the command for all, one message on its way, a former connection's thread, reloads and restarts. Is a complete status right; does the file come to show the switches? | 738 000 |
| `qms` | Three threads, three hits, two instances of the rule. Is what was answered in the log and, as far as the file could be read, in the counters; can the file be read after every failed write and stop; is every hit answered? | 168 000 |
| `rules` | Two files, two threads, three edits. Is a skipped file current, does an edit take effect, does a faulty edit leave the rule in service? | 366 000 |

`RegistryIsExact`, `SettledIsInStep`, `ReportsAreShown` and
`PresenceIsShown` are conjunctions of properties with names and comments of their
own; each of their important parts has a mutant.

Two runs state what a comment says and the code does not do; TLC shows how.

| run | what the source says | what happens |
|---|---|---|
| `ota_spent` | SPENT is terminal (`15-firmware-ota.py:34`, `docs/firmware-ota.md:53`) | the device retries while the relay still sends to its former connection; the retry completes and writes SPENT, then the former transfer ends, incomplete, and writes TRANSFERRING |
| `ha_presence` | back within the grace period is still up | a republish in the grace period publishes offline, and the recovery has no event |

**Why these bounds.** Displacing needs two sessions of one client id, and a third
lets the displacing one be displaced, or hold another id. Overlap needs two
streams, re-arming a second ARM file; a second image tells what is on disk from
what is armed. Two units share an address, one of them with an origin that is
denied, and a restart may bring another target, on the other address, or deny the
target itself. One device is enough for the record and the broker, which are kept
device by device (the order among devices within a stage is free); a republish
broken off between two devices is not in this run. Two commands for two devices
give one entry that replaces another, or two at once; "more than one device" needs
two. In `DeviceIdentity` two devices suffice for one entry to be taken for
another's: the second has both addresses to get, the first has a new client id the
second time it is switched on; both cases in one behaviour take more than the two
switchings-on of the run, and the proofs have them. In `DashboardControl` the
target rule changes between one device and two; two observers let two answers
overtake each other; requests do not look at each other, and the name of the one
is taken again. In `stream` a digit of a length has two values (`Base` = 2) and a
body is empty or `<<3, 0>>`: a body of two bytes has a length of two bytes, so a
length, too, can be cut in two, and the bytes of a body read as a packet of its
own if the framer loses its place. Three bytes of room are fewer than a packet of
five, so every packet with a body can be torn, and two guests and the session
compete for the lock. (Lengths that need the fourth byte, or a fifth, do not
occur.) In `rules` two threads have old listings beside new ones, and three edits
give a file, a faulty version of it and a good one. In `telemetry` one outlet and
selector 0 are the two cases of a report (a switch, the aggregate), and the button
and the command for all change both; `Switched` = {0}, since the command for all
is the one whose answer does not tell of the outlets (switching single ones is in
the proof); the thread of a former connection beside the present one is what one
device can have without a third connection in a row; one message may wait while
two are in hand. In `qms` a lock is contended by two threads while a third, in the
other instance, interferes. `MaxArms`, `MaxCommands`, `MaxPackets` (written on one
connection; a new one begins at zero), `MaxEdits`, `MaxSent` (messages that wait),
`MaxHits` and `MaxLoads` are the only counters' bounds; `Switched` names the
selectors that are switched. No run uses a state constraint, and none turns off
the deadlock check.

**Fairness.** It is asked of threads that the code keeps running, never of
devices, users, operators, breaks or restarts. `RelaySessions`: a session thread
goes on, because its receive call has a timeout. `FirmwareOta`: a device with an
update keeps asking (as the documents describe it) and streams go on; strong
fairness of opening, sending and of writing the state says that a transfer that
is tried for ever does not fail for ever. `HaAvailability`: the loop and the
client's threads run; strong fairness of the end of a grace period and of the
state publish, since each is decided by a clock that the model leaves open in
every round. `HaCommands`: the loop runs and time passes. `DeviceIdentity`: a
device that is on keeps sending, and the loop learns, strongly because a lost
file makes the entry come and go. `DashboardControl`: the link connects again and
asks every four seconds, the relay broadcasts what it computed, and time passes.
`MqttStream`: threads go on, a lock that is free again and again is had in the
end, and a send either makes progress or times out; nobody makes a client that
is held up go on. `RulesEngine`: a call goes on and gets its lock in the end;
whether calls are made at all is left open. `DeviceTelemetry`: the threads go
on, a device that stays connected goes on with its registration and its reports,
and the dashboard asks for the status every so often (strongly fair, like the
reports, because other messages get in between; `AUTO_STATUS_INTERVAL` must not
be 0). `QmsSink`: a thread goes on and gets a lock that is free again and again.

## 4. The proofs

Checked by TLAPS, for every value of the constants:

* `Relay_proofs` is about the relay itself, its sessions and its rules engine. For
  the sessions, `RegistryInv` is inductive: besides the
  properties it says that a thread's `victim` is no registered session
  (`VictimIsOut`), which keeps `CloseDisplaced` from closing a live one; that the
  insertion order lists the keys once each (`OrderIsKeys`) and contains the latest
  (`LatestInOrder`), which is what makes `_latest` right after an eviction; and
  that an observer holds a session of the id it asked for or one that is over
  (`EntryIsConnected`). From it: `TypeOK`, `RegisteredIsUsable`,
  `ServedIsRegistered`, `LatestIsRegistered`, together `RegistryIsExact`,
  `TargetedWrite` (a command that names its device is written to a socket of that
  device), and the action property `OnlyOwnerEvicts`. `RegistryIsADirectory` proves
  that every action is a step of `SessionDirectory` or a stutter: an eviction is a
  `Leave` because the last key of the dict is some id that is present, and closing
  a displaced socket is a `Cut` because of `VictimIsOut`. `RegistryIsTheClientsRelay`
  proves the same for `RelayPresence`: no session comes or goes, and no default
  changes, in a way that the clients' modules do not allow for. (That an inject
  without a target takes two steps, `Locate` and `Address`, they leave out.)
  For the engine,
  `EngineInv` says that no file is older on disk than what any
  thread or module has of it (`DiskIsNewest`), that an mtime is noted before the version it is
  noted for is read, so that it is never the newer of the two (`NotedBefore`), and
  the same of a load under way (`LoadingInv`). From it: `EngineTypeOK`, with the mutual
  exclusion of the lock, `SkippedIsCurrent`, and the action property
  `FaultyEditIsSkipped`.
* `Rules_proofs` is about the two rules that keep a state file. For the firmware
  update, `OtaInv` adds to the types who holds the rule's lock
  and that under it the state file says SPENT, or was removed (`LockInv`). From it: `TypeOK`
  and `BurnedAfterSpent`.
  `RuleIsAOneShot` proves that every action is a step of `OneShot` or a stutter: the
  lock, held from the one write of `_on_stream_done` to the other (`LockInv`), makes
  the renaming a `UseUp` of an update that is spent. Under the assumptions that there is one stream
  and that no read of the state fails, `OneStreamServesNothingOnceSpent` proves that nothing
  is under way while the phase is SPENT, and hence `OneStreamSpentIsTerminal` that SPENT is
  terminal: what the run `ota_spent` shows comes of the overlap.
  For the sink, `SinkInv` says that until instances overlap the one thread in the critical section
  (`Alone`) has in memory the state file as it is, but for what a failed read has
  forgotten, plus its own hit, and the temporary file holds what it wrote there
  (`UpToDate`); and at all times that whatever it will write is in the
  log or noted as lost (`Appended`). Hence `SinkTypeOK`, with the mutual
  exclusion of each lock, `AnsweredIsRecorded` and `FileStaysReadable`. Of
  `AnsweredIsRecorded` the half about the log holds through overlaps, too; the counters and
  the file are spoilt by one (section 5).
* `DashboardControl_proofs`. `DashboardInv` says of a steady request that is not
  executed yet that it names its own, live device, or no device, and then its own is
  the only live one (`OnItsWay`); that the latest session is a live one whenever
  there is any (`LatestIsLive`); and that the wire holds each request at most once,
  and none that is still to be published (`WireInv`), so that what a delivery
  executes is the request as it was asked. Hence `TypeOK` and `SteadyRequestLands`.
* `DeviceIdentity_proofs`, for addresses that are given to one device after the
  other and client ids that change. Two devices are linked if they have had one
  address. `IdentityInv` says that a device that is on has had its address
  (`AtHome`), that an entry's address is one that its device has had, and its MAC
  that of a linked device (`EntryIsLinked`), and that an `ip:` entry's MAC is of a
  device that has had the address (`PseudoIsHad`): a MAC travels from the `ip:`
  entry of an address, or by the search for one (`FirstAt`), to an entry with that
  address, and no further. Hence `TypeOK` and `TakenOverOnlyByAddress`.
  `NoClientAtPseudo`, that an `ip:` entry exists only while no client id has its
  address, gives `MacStaysOnFile`: the entry that `_prune` drops is one whose MAC
  the client id that comes to the address has taken in before.
  `SavedIsRemembered`, that the map in memory has what the file has, gives
  `WriteOnce`.
* `HaAvailability_proofs`. `BridgeInv` says that from the round that saw the
  republish flag the broker is in step, also while the devices are republished one
  by one (`AnnouncedInStep`); that values are on record only of a device whose
  availability is (`AvailabilityFirst`), and that a device that has come online is
  on record or about to be republished (`ObservedIsRecorded`), so that nothing is
  published of a device without its discovery. Hence `TypeOK`, `SettledIsInStep`,
  `OnlineOnlyWithinGrace`, and together `ShownOnlineIsUpOrInGrace`: what Home
  Assistant is shown as online is there, or within its grace.
* `HaCommands_proofs`. `CommandInv` says that nothing refers to a command
  before the client thread has noted it (`NothingAhead`) and that a command that was
  asked for owes nothing (`AskedIsSettled`); hence `TypeOK`, `AskedAtMostOnce`
  and `PendingIsLatest`.
* `DeviceTelemetry_proofs`. `TelemetryInv` says how far the handshake is
  (`RegistersFirst`: nothing is reported before the device is registered) and, while
  the view is the connection's own, that the last message under way that tells
  of an outlet is right about it, and the entry is where none tells of it
  (`OwnViewIsRight`), the message that the thread has in hand being the first of them;
  all this for the outlets that are not `untold`.
  Hence `TypeOK` and `CompleteViewIsRight`.
* `MqttStream_proofs` proves that the stream implements `PacketChannel`, for any
  packets, any writers and any division of the bytes into sends. The functions of the
  framing are recursive, and the provers have no induction over data; but they have
  well-founded induction in its set form (`WFMin`: a set of numbers that is not empty has a
  smallest one). With it the recursive functions have values (`Recursion`),
  decoding undoes encoding (`ValueOfVarint`), a length is found where it ends and not
  before (`WholePacketIsFound`, `HalfAPacketIsNotFound`), and framing a stream in two
  goes comes to what framing it in one does (`FramingInTwo`), which is what makes
  the framer of `feed` indifferent to how TCP divides a packet. `StreamInv` says
  that, until a write has ended half way, what the framer would keep of all the
  bytes under way is what the holder of `write_lock` has sent of its own packet, and
  nothing when the lock is free (`FragmentIsWritten`); a writer that waits has its
  packet whole (`WaitingIsWhole`), and the observer's thread has nothing to write
  before its connection is subscribed (`EngineIsFree`). Hence `TypeOK`, with the mutual
  exclusion of `write_lock`, and `IsChannel` step by step: `Recv` takes packets, the
  last `Write` of a packet is its `Accept`, any other one a stutter, or `Garble` on a
  torn stream; `TimeOut` gives the packet up or ends the connection, and `Greet` and
  `Offer` are offers.

A module of proofs may be about two components, where they belong together
(the relay, the rules with a state file); it extends both, so the definitions
that every module has carry a prefix in the second one (`EngineInit`, `SinkTypeOK`).

The constants' assumptions are in the modules that declare them: the null values
are different from the others, bounds are natural numbers, and the length of a
body fits into the four bytes that MQTT has for it (`LengthAssumption`).

Only model-checked: what needs fairness, that is all liveness properties (liveness
and ENABLED are beyond this prover).

## 5. Seen while modelling, and not a run

* The image is hashed when it is asked for (`15-firmware-ota.py:334`) and opened later
  (`relay.py:571`): one that the operator puts there in between is sent unchecked and
  spends the update.
* A download without an origin is told from others by its address alone
  (`15-firmware-ota.py:352`): another unit at the target's address, one whose
  origin is denied too, is sent the image shortly after the offer, and the update is spent then
  without the target having it. The comment at line 30 describes it.
* A state file that cannot be read is taken for none (`15-firmware-ota.py:144`): after
  that a new offer opens a spent update, and a callback forgets whose offer it was, so that
  the device must check again.
* An All command is answered by a message about the strip as a whole, which
  `mttl_telemetry.py:185` does not expand, so the outlets in devices.json are wrong
  until the `STATUS_GET` that the bridge sends after its own commands
  (`bridge:22`). `CompleteViewIsRight` excepts them; the dashboard's commands wait for its
  periodic one.
* With two devices known a command may reach the other one (`bridge:484`, against
  the test at `bridge/tests/ha_bridge_test.py:628`): looked up just before the loop
  empties its map, it is sent without a target and goes to the latest session.
  `CommandsReachTheirDevice` is the property; TLC refutes it.
* A device whose entry vanishes from devices.json while the bridge restarts and
  connects is not republished (`bridge:655`); when the entry is back and the
  device is not, its state is "init" and has no event: it stays online for good.
  If the device is there, its values come without discovery (`bridge:692`). With an
  action that removes entries TLC refutes `AbsenceIsShown`.
* `status_complete` may be about two connections: the thread of the former one
  compares the set it fetched (`99-default.py:494`) after the bootstrap of the new one
  has replaced it. Nobody reads the result yet. A former thread may also write an
  older value over a newer one in devices.json until the next report.
* Loading `99-default.py` again forgets the devices' ids until they connect again, so
  commands name the device by a guess (`99-default.py:531`). Both counters of request
  ids begin again at a random place (`99-default.py:543`).
* Devices that post neither MAC nor serial number all get the credentials of
  `unknown-device` (`99-default.py:77`) and so one client id: they displace each other.
* `99-default.py:323` takes no configuration whose enable byte is neither 0 nor 1,
  `mttl_telemetry.py:208` takes it for disabled.
* A state file of the sink that cannot be read for a moment is taken for none
  (`16-qms-sink.py:128`), and the counters begin again at zero; a line of the log that was
  cut off by a full disk spoils the next one.
* Two instances of a rule that were called at the same time lose each other's counts,
  and one may rename the temporary file into place while the other has it open
  (`16-qms-sink.py:137`; `10-dashboard-feed.py:74` and the firmware rule do the same).
* A stop while a chain is written (`relay.py:204`) leaves an empty or a half file,
  which exists and is therefore used from then on (`relay.py:182`); after
  `gen-ca --force` old leaves stay signed by the old CA.
* After an eviction `_latest` is the key inserted last (`relay.py:349`); a client
  id that registers again keeps its place, so that is not the session that
  connected last.
* `_mark_spent` renames whatever file is at the ARM path (`15-firmware-ota.py:171`),
  also one written during the transfer.
* With `ProtectSystem=full` in the relay's unit an ARM file under `/etc` cannot be
  renamed; `Burn` models the failure, and SPENT alone then stops the update.
* A command that replaces an entry the loop is settling is popped with it
  (`bridge:729`, `bridge:734`), and loses its `STATUS_GET`; `PendingIsLatest` is about
  the other direction, an old entry that comes back.
* While a second device has no MAC yet, every command for the first goes out
  without a target (`bridge:484`).
* An inject records the observer's address as the device's
  (`10-dashboard-feed.py:116`), so the next MEF post makes a second entry.
* `SlugMap._load` takes an unreadable file for an empty one (`bridge:176`), and the
  next binding overwrites it: `WriteOnce` ends there. `_load` of the feed
  (`10-dashboard-feed.py:68`) does the same with devices.json, whose MACs are then gone
  until the devices post again; bindings stay.
* A device that changes its client id has its MAC filed under the old one, which
  has the same address (`10-dashboard-feed.py:100`); unless its device id is its MAC the new
  client id has no slug, while `docs/home-assistant.md:77-78` promises it the same one.
* The socket and the address of an untargeted command come from two calls
  (`relay.py:880`, `relay.py:885`); the latest session may change in between,
  and the command for one device is written to another.
* After SPENT a new ARM file is not read until the state file is removed
  (`15-firmware-ota.py:284`); `docs/firmware-ota.md:114` can be read as if
  the ARM file alone were enough.
* A reused address files the MAC of one device under another's client id
  (`10-dashboard-feed.py:100`), and the bridge binds it for ever, against what `bridge:158-159` and
  `docs/home-assistant.md:79-81` say. It takes an address that both have had:
  `TakenOverOnlyByAddress`; reserved addresses are what the documents should ask for.
* Two client ids with one MAC share a slug (`bridge:638`).
* The dashboard's target selection does not look at the age of its list
  (`mttl_dashboard.py:325`); with one session on it, it sends without a target,
  whichever card was pressed. `SteadyRequestLands` is about right lists only: one
  that is old, or overtaken by a session, takes the request to another device.
* Any new report of success in a card's entry, also on a command of the bridge,
  makes a request "acked" (`mttl_dashboard.py:345`).
* After a tapped send that timed out (`relay.py:397`), half a packet stays on the
  connection and everything after it is garbled until the connection ends; the
  comment takes it for dead. The client drops packets that come together with
  its CONNACK.
* A hook call with an old listing drops a module that another call has just
  loaded; if the file was edited meanwhile into a version that does not load,
  the rule stays away. `FaultyEditIsSkipped` names this exception. Python's bytecode
  cache, which goes by second and size, may also load an older version (left
  out). Nothing calls `on_tick`.

## 6. The plan

Done: the registry, the firmware rule, the two halves of the bridge, identity, the
dashboard, the observer stream against its abstract channel, the rules engine,
the default rule with the telemetry, the QMS sink; the registry against its
directory and its clients' relay, the firmware rule against its one-shot; proofs for
all of them. In
this order still:

1. An abstract specification for `HaAvailability`, a mirror of the devices, and the
   proof that the bridge implements it.
2. `MqttClient`: packet ids of two threads, a partial write, keepalive without
   a PINGRESP; it promises `HaAvailability` its link.
3. The observer's connection in `HaCommands` and `DashboardControl`, which may break
   under an inject, as `MqttStream` has it; a
   connection with two CONNECTs (`mqtt_session.py:91`: only the second id is
   unregistered); two devices through a broken republish.
