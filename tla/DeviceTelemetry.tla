--------------------------- MODULE DeviceTelemetry ---------------------------
(***************************************************************************)
(* What the relay knows of a device: the default rule (99-default.py),     *)
(* which registers it, remembers its id and which status reports have come *)
(* since (_DEVICE_STATE), and turns commands into device_control messages; *)
(* and the feed (10-dashboard-feed.py with mttl_telemetry.py), which keeps *)
(* its values in devices.json.  Every message goes through both, the feed  *)
(* first, in the thread of its connection.                                 *)
(*                                                                         *)
(* One device with one client id.  When it connects again, the relay       *)
(* closes its former connection; the thread of that one still finishes the *)
(* message it has in hand, beside the thread of the present connection.    *)
(* Of the values in an entry the switches are kept: the other buckets are  *)
(* filled in the same way.  Values are well formed.                        *)
(***************************************************************************)
EXTENDS Naturals, Sequences

CONSTANTS
    Outlets,    \* the outlets; selector 0 stands for the whole strip
    Switched,   \* bound: the selectors that buttons and commands switch
    MaxSent,    \* bound on the messages sent and not taken by the thread
    None

ASSUME OutletsAssumption == 0 \notin Outlets /\ Switched \subseteq {0} \cup Outlets
ASSUME MaxSentAssumption == MaxSent \in Nat \ {0}
ASSUME NoneAssumption == None \notin BOOLEAN

VARIABLES
    \* the device
    power,      \* power[n]: outlet n is on
    link,       \* its connection is up, for itself
    asked,      \* registration requests it has sent on this connection
    answered,   \* and replies it has got
    owed,       \* the selectors it still has to report for a STATUS_GET
    untold,     \* history: outlets switched since it last told of them
    \* the connection
    up,         \* messages to the relay
    down,       \* the device_control message to the device, or None
    \* the relay
    hand,       \* hand[r]: the message the thread r is handling
    entry,      \* entry[n]: power of its entry in devices.json, None at first
    cache,      \* its _DEVICE_STATE in the loaded instance of 99-default
    view        \* history: what cache was filled from (see Touch)

deviceVars == <<power, link, asked, answered, owed, untold>>
vars == <<deviceVars, up, down, hand, entry, cache, view>>

Selectors == {0} \cup Outlets
(* What a device sends first: requests that are only answered (the retrieve *)
(* and the creates, for which one stands here), then the bootstrap.        *)
Registration == <<"create", "smartplugbootstrap">>
Threads == {"present", "former"}

(* A button is told as a POWER_EVENT, a command carried out as a POWER_SET, *)
(* which for the whole strip says nothing of its outlets (mttl_ha_bridge.py *)
(* pulls them); POWERn_EVENT for one outlet, and STATUSn_EVENT, say no more. *)
Message == [rqi : {Registration[i] : i \in 1..2} \cup {"STATUS_REPORT", "POWER_EVENT", "POWER_SET"},
            selector : Selectors, on : BOOLEAN \cup {None}]
Request(i) == [rqi |-> Registration[i], selector |-> 0, on |-> None]
Event(n, v) == [rqi |-> "POWER_EVENT", selector |-> n, on |-> v]
(* Told(rqi, n, p): of selector n alone, p being the power of the outlets;  *)
(* what is told of the strip as a whole is not kept.                        *)
Told(rqi, n, p) == [rqi |-> rqi, selector |-> n, on |-> IF n = 0 THEN None ELSE p[n]]

(* What observers ask for; own says that the header names the device by its *)
(* own id, not by the guess of _control_header.                            *)
Command == [action : {"status"}, outlet : {0}, on : {FALSE}]
             \cup [action : {"power"}, outlet : Switched, on : BOOLEAN]
Control == [action : {"status", "power"}, outlet : Selectors, on : BOOLEAN, own : BOOLEAN]

(* A thread is "idle", before the "feed", before the "default" rule, or     *)
(* before it will "settle" whether the status is complete.  loaded: the     *)
(* instance of 99-default it calls is the loaded one; with an older one it  *)
(* has no "settle", as nobody sees what it would settle there.  verdict:    *)
(* what it will settle on if the set it has fetched is not the cache's any  *)
(* more.                                                                    *)
Hand == [pc : {"idle", "feed", "default", "settle"}, msg : Message, loaded : BOOLEAN,
         verdict : BOOLEAN \cup {None}]
Idle == [pc |-> "idle", msg |-> Request(1), loaded |-> TRUE, verdict |-> None]

NoState == [device_id |-> FALSE, seen |-> {}, status_complete |-> FALSE]

TypeOK ==
    /\ power \in [Outlets -> BOOLEAN]
    /\ link \in BOOLEAN
    /\ answered \in 0..2 /\ asked \in {answered, answered + 1} \cap 0..2
    /\ owed \subseteq Selectors /\ untold \subseteq Outlets
    /\ up \in Seq(Message) /\ Len(up) <= MaxSent
    /\ down \in Control \cup {None}
    /\ hand \in [Threads -> Hand]
    /\ entry \in [Outlets -> BOOLEAN \cup {None}]
    /\ cache \in [device_id : BOOLEAN, seen : SUBSET Selectors, status_complete : BOOLEAN]
    /\ view \in {"none", "own", "mixed"}
    /\ ~link => asked = 0 /\ owed = {} /\ untold = {} /\ down = None /\ view = "none"

Init ==
    /\ power \in [Outlets -> BOOLEAN]
    /\ link = FALSE
    /\ asked = 0 /\ answered = 0 /\ owed = {} /\ untold = {}
    /\ up = << >> /\ down = None
    /\ hand = [r \in Threads |-> Idle]
    /\ entry = [n \in Outlets |-> None]
    /\ cache = NoState
    /\ view = "none"

(* The device. *)

(* It connects, and the relay closes the former connection: what its thread *)
(* has not taken is lost.  One thread of former connections at a time.      *)
Connect ==
    /\ ~link /\ hand["former"].pc = "idle"
    /\ link' = TRUE
    /\ up' = << >>
    /\ hand' = [hand EXCEPT !["former"] = hand["present"], !["present"] = Idle]
    /\ UNCHANGED <<power, asked, answered, owed, untold, down, entry, cache, view>>

Disconnected ==
    /\ link' = FALSE /\ asked' = 0 /\ answered' = 0 /\ owed' = {} /\ untold' = {}
    /\ down' = None
    /\ view' = "none"

(* The connection breaks, and some of what was sent is lost. *)
Lose ==
    /\ link
    /\ Disconnected
    /\ \E k \in 0..Len(up) : up' = SubSeq(up, 1, k)
    /\ UNCHANGED <<power, hand, entry, cache>>

(* The next registration request, when the last one is answered. *)
Register ==
    /\ link /\ asked = answered /\ asked < 2
    /\ asked' = asked + 1
    /\ up' = Append(up, Request(asked'))
    /\ UNCHANGED <<power, link, answered, owed, untold, down, hand, entry, cache, view>>

Registered == link /\ answered = 2
Turned(n, v) == [m \in Outlets |-> IF n \in {0, m} THEN v ELSE power[m]]

(* It sends m, which tells of the outlets about. *)
Send(m, about) ==
    /\ Len(up) < MaxSent /\ up' = Append(up, m)
    /\ untold' = {n \in Outlets \ about : n \in untold \/ power'[n] # power[n]}

(* A button: of an outlet, or the one for all.  It works without the relay. *)
Press(n, v) ==
    /\ power # Turned(n, v)
    /\ power' = Turned(n, v)
    /\ IF Registered THEN Send(Event(n, v), IF n = 0 THEN Outlets ELSE {n})
       ELSE UNCHANGED <<up, untold>>
    /\ UNCHANGED <<link, asked, answered, owed, down, hand, entry, cache, view>>

(* A device_control message.  One that names the device by a guess may be   *)
(* taken or not.                                                           *)
Execute ==
    /\ Registered /\ down # None /\ owed = {} /\ Len(up) < MaxSent
    /\ down' = None
    /\ \/ /\ down.action = "status"
          /\ owed' = Selectors
          /\ UNCHANGED <<power, up, untold>>
       \/ /\ down.action = "power"
          /\ power' = Turned(down.outlet, down.on)
          /\ Send(Told("POWER_SET", down.outlet, power'), {down.outlet} \cap Outlets)
          /\ UNCHANGED owed
       \/ /\ ~down.own
          /\ UNCHANGED <<power, up, owed, untold>>
    /\ UNCHANGED <<link, asked, answered, hand, entry, cache, view>>

(* One report for each selector, with what is the case when it is sent. *)
Report ==
    /\ UNCHANGED <<power, link, asked, answered, down, hand, entry, cache, view>>
    /\ \E n \in owed :
         /\ Send(Told("STATUS_REPORT", n, power), {n} \cap Outlets)
         /\ owed' = owed \ {n}

(* Commands. *)

(* The header names the device by the id of its bootstrap, or by a guess.  *)
ControlOf(c) ==
    [action |-> c.action, outlet |-> c.outlet, on |-> c.on, own |-> cache.device_id]

(* A mutant: nobody asks whether there is a session. *)
InjectAnyway(c) ==
    /\ down = None
    /\ down' = ControlOf(c)
    /\ UNCHANGED <<deviceVars, up, hand, entry, cache, view>>

(* An observer's command becomes a device_control message.  An outlet that  *)
(* there is not, an unknown action or a missing session change nothing.     *)
OnLocalInject(c) ==
    /\ link /\ down = None
    /\ down' = ControlOf(c)
    /\ UNCHANGED <<deviceVars, up, hand, entry, cache, view>>

(* The dashboard asks for the status again and again. *)
AskStatus == \E c \in Command : c.action = "status" /\ OnLocalInject(c)

(* The threads. *)

(* A step of the former connection's thread, once the cache is the present *)
(* connection's, mixes the two.                                            *)
Touch(r) == view' = IF r = "former" /\ view = "own" THEN "mixed" ELSE view

(* The next message is acknowledged, and the call of the hooks begins with *)
(* the modules loaded at that time.                                        *)
Take ==
    /\ hand["present"].pc = "idle" /\ up # << >>
    /\ hand' = [hand EXCEPT !["present"] = [Idle EXCEPT !.pc = "feed", !.msg = Head(up)]]
    /\ up' = Tail(up)
    /\ UNCHANGED <<deviceVars, down, entry, cache, view>>

(* A mutant: the button for all is taken for the aggregate. *)
PowerOfSelector(m) == {m.selector} \cap Outlets

(* parse_onem2m_message: the outlets a message tells of. *)
PowerOf(m) == IF m.rqi = "POWER_EVENT" /\ m.selector = 0 THEN Outlets
              ELSE {m.selector} \cap Outlets

(* A mutant: what is in the entry stays. *)
MergeKeeping(e, m) ==
    [n \in Outlets |-> IF n \in PowerOf(m) /\ e[n] = None THEN m.on ELSE e[n]]

(* What a message changes in an entry. *)
MergeDelta(e, m) == [n \in Outlets |-> IF n \in PowerOf(m) THEN m.on ELSE e[n]]

(* on_message of the feed: read, merged and saved under its lock.  The      *)
(* default rule does not look at the value any more.                       *)
Feed(r) ==
    /\ hand[r].pc = "feed"
    /\ entry' = MergeDelta(entry, hand[r].msg)
    /\ hand' = [hand EXCEPT ![r].pc = "default", ![r].msg.on = None]
    /\ Touch(r)
    /\ UNCHANGED <<deviceVars, up, down, cache>>

(* The reply to a registration request goes to the thread's own connection. *)
Reply(r) ==
    /\ answered' = IF r = "present" /\ link THEN asked ELSE answered
    /\ UNCHANGED <<power, link, asked, owed, untold, up, down, entry>>

(* on_message of the default rule: a request that is only answered. *)
Answer(r) ==
    /\ hand[r].pc = "default" /\ hand[r].msg.rqi = "create"
    /\ hand' = [hand EXCEPT ![r] = Idle]
    /\ Reply(r)
    /\ UNCHANGED <<cache, view>>

(* A mutant: what was seen on the last connection counts. *)
BootstrapKeepingSeen(r) ==
    /\ hand[r].pc = "default" /\ hand[r].msg.rqi = "smartplugbootstrap"
    /\ hand' = [hand EXCEPT ![r] = Idle]
    /\ cache' = [cache EXCEPT !.device_id = TRUE]
    /\ view' = IF r = "present" /\ link THEN "own" ELSE view
    /\ Reply(r)

(* The bootstrap: the id is noted and the status begins anew, with another *)
(* set than the one a thread may have fetched.                             *)
Bootstrap(r) ==
    /\ hand[r].pc = "default" /\ hand[r].msg.rqi = "smartplugbootstrap"
    /\ IF hand[r].loaded
         THEN /\ cache' = [NoState EXCEPT !.device_id = TRUE]
              /\ hand' = [q \in Threads |->
                   IF q = r THEN Idle
                   ELSE IF hand[q].pc # "settle" \/ hand[q].verdict # None THEN hand[q]
                   ELSE [hand[q] EXCEPT !.verdict = cache.seen = Selectors]]
              /\ IF r = "present" /\ link THEN view' = "own" ELSE Touch(r)
         ELSE hand' = [hand EXCEPT ![r] = Idle] /\ UNCHANGED <<cache, view>>
    /\ Reply(r)

(* _parse_telemetry_params: the selectors that a message reports. *)
Reported(m) == IF m.rqi = "STATUS_REPORT" THEN {m.selector} ELSE {}

(* _handle_telemetry: what the message reports joins the set of the         *)
(* instance the thread calls.                                              *)
Telemetry(r) ==
    /\ hand[r].pc = "default" /\ hand[r].msg.rqi \notin {"create", "smartplugbootstrap"}
    /\ IF hand[r].loaded
         THEN /\ cache' = [cache EXCEPT !.seen = @ \cup Reported(hand[r].msg)]
              /\ hand' = [hand EXCEPT ![r] = [Idle EXCEPT !.pc = "settle"]]
              /\ Touch(r)
         ELSE hand' = [hand EXCEPT ![r] = Idle] /\ UNCHANGED <<cache, view>>
    /\ UNCHANGED <<deviceVars, up, down, entry>>

(* Its end: whether the set is complete. *)
Settle(r) ==
    /\ hand[r].pc = "settle"
    /\ cache' = [cache EXCEPT !.status_complete =
                   IF hand[r].verdict = None THEN cache.seen = Selectors ELSE hand[r].verdict]
    /\ hand' = [hand EXCEPT ![r] = Idle]
    /\ Touch(r)
    /\ UNCHANGED <<deviceVars, up, down, entry>>

DefaultRule(r) == Answer(r) \/ Bootstrap(r) \/ Telemetry(r) \/ Settle(r)

(* 99-default is loaded again: a new instance that remembers nothing, while *)
(* calls under way stay with the old one, and settle nothing in the new.   *)
Reload ==
    /\ cache' = NoState
    /\ hand' = [r \in Threads |-> IF hand[r].pc \in {"idle", "settle"} THEN Idle
                                  ELSE [hand[r] EXCEPT !.loaded = FALSE, !.verdict = None]]
    /\ UNCHANGED <<deviceVars, up, down, entry, view>>

(* The relay stops and starts; devices.json stays. *)
Restart ==
    /\ Disconnected
    /\ up' = << >>
    /\ hand' = [r \in Threads |-> Idle]
    /\ cache' = NoState
    /\ UNCHANGED <<power, entry>>

DeviceStep == Connect \/ Lose \/ Register \/ Execute \/ Report
Next ==
    \/ DeviceStep
    \/ \E n \in Switched, v \in BOOLEAN : Press(n, v)
    \/ \E c \in Command : OnLocalInject(c)
    \/ Take
    \/ \E r \in Threads : Feed(r) \/ DefaultRule(r)
    \/ Reload
    \/ Restart

(* The thread of the present connection goes on; a connected device         *)
(* registers, executes and reports; the dashboard comes to ask, and the    *)
(* device to report, though others may send in between.                    *)
Fairness ==
    /\ WF_vars(Take \/ Feed("present") \/ DefaultRule("present"))
    /\ WF_vars(Register \/ Execute)
    /\ SF_vars(Report) /\ SF_vars(AskStatus)

Spec == Init /\ [][Next]_vars /\ Fairness

(* Properties. *)

(* No message is on its way. *)
AtRest == up = << >> /\ \A r \in Threads : hand[r].pc = "idle"

(* "Judged by connection": once status_complete is set on a connection, and *)
(* no thread of a former one interfered, devices.json shows a switch as it  *)
(* is whenever no message is on its way, whatever happened while the device *)
(* was away.  The exception is what a command for the whole strip switched  *)
(* and the device has not told of since: for that status_complete stays set *)
(* over a view that is wrong, until the next STATUS_GET.                    *)
CompleteViewIsRight ==
    cache.status_complete /\ view = "own" /\ link /\ AtRest
      => \A n \in Outlets \ untold : entry[n] = power[n]

(* If the device stays connected, the relay knows its id, and nobody        *)
(* switches any more, devices.json comes to show the switches as they are, *)
(* and the status is complete, both for good: also after a thread of a      *)
(* former connection wrote an old value over a new one, or a command for    *)
(* the whole strip switched outlets that the device did not tell of.       *)
ViewConverges ==
    <>[](link /\ cache.device_id) /\ <>[][FALSE]_power
      => <>[](cache.status_complete /\ entry = power)
=============================================================================
