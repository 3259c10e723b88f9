------------------------------ MODULE HaCommands ------------------------------
(***************************************************************************)
(* The way of a switch command through the Home Assistant bridge           *)
(* (bridge/mttl_ha_bridge.py): the MQTT client thread looks the device up  *)
(* in _slug2cid, decides whether the inject must name it, injects, and     *)
(* leaves a _pending entry; the loop thread rebuilds _slug2cid from        *)
(* devices.json entry by entry in every round, and then goes through       *)
(* _pending.  Neither holds a lock.                                        *)
(*                                                                         *)
(* Commands are those of the "All" switch, whose pending entry also owes   *)
(* one STATUS_GET; the entry of a single outlet only produces log lines.   *)
(* A device stands for its client id and for its slug.  The relay is that  *)
(* of RelayPresence: it hands an inject that names no device to its latest *)
(* session.                                                                *)
(***************************************************************************)
EXTENDS Naturals, FiniteSets, Sequences

CONSTANTS
    Devices,      \* devices
    Identified,   \* those whose MAC the bridge knows when it starts
    MaxCommands,  \* bound: how many commands the user gives
    None          \* no device

ASSUME IdentifiedAssumption == Identified \subseteq Devices
ASSUME MaxCommandsAssumption == MaxCommands \in Nat
ASSUME NoneAssumption == None \notin Devices

VARIABLES
    identified,  \* the devices in devices.json that have a MAC, there or remembered
    sessions,    \* the devices with a session at the relay
    latest,      \* the latest of them, or None
    slug2cid,    \* _slug2cid, as the set of the devices in it
    unread,      \* loop: the devices of this round not yet in slug2cid
    pc,          \* loop: "fill" or "check"
    todo,        \* loop: the keys of _pending still to look at
    held,        \* loop: the command whose pending entry it holds, or 0
    cpc,         \* client thread: "idle", "found" or "injected"
    count,       \* the number of commands so far
    subscribed,  \* the command topics are subscribed to: the first round is over
    entry,       \* entry[n]: the pending entry object made for command n
    pending,     \* _pending[d]: the command whose entry it is, 0 when there is none
    wire,        \* injects on their way to the relay
    arrived,     \* history: injects with the session they were handed to
    asked        \* history: asked[n]: how often the STATUS_GET of command n went out

loopVars == <<slug2cid, unread, pc, todo, held, subscribed>>
clientVars == <<cpc, count>>
relayVars == <<identified, sessions, latest>>
vars == <<loopVars, clientVars, relayVars, entry, pending, wire, arrived, asked>>

Relay == INSTANCE RelayPresence

Commands == 1..MaxCommands
Ages == {"none", "new", "due", "late"}  \* no entry; status_at, and the deadline, passed
Entry == [for : Devices \cup {None}, age : Ages, owes : BOOLEAN]
NoEntry == [for |-> None, age |-> "none", owes |-> FALSE]
Inject == [for : Devices, names : Devices \cup {None}]

TypeOK ==
    /\ identified \subseteq Devices
    /\ sessions \subseteq Devices
    /\ latest \in sessions \cup {None}
    /\ slug2cid \subseteq identified
    /\ unread \subseteq identified
    /\ pc \in {"fill", "check"}
    /\ todo \subseteq Devices
    /\ held \in Commands \cup {0}
    /\ cpc \in {"idle", "found", "injected"}
    /\ count \in 0..MaxCommands
    /\ subscribed \in BOOLEAN
    /\ entry \in [Commands -> Entry]
    /\ pending \in [Devices -> Commands \cup {0}]
    /\ wire \in Seq(Inject)
    /\ arrived \subseteq [for : Devices, at : Devices]
    /\ asked \in [Commands -> Nat]

Init ==
    /\ identified = Identified
    /\ Relay!Init
    /\ slug2cid = {} /\ unread = {} /\ pc = "check" /\ todo = {} /\ held = 0
    /\ cpc = "idle" /\ count = 0 /\ subscribed = FALSE
    /\ entry = [n \in Commands |-> NoEntry]
    /\ pending = [d \in Devices |-> 0]
    /\ wire = <<>>
    /\ arrived = {}
    /\ asked = [n \in Commands |-> 0]

-----------------------------------------------------------------------------
(***************************************************************************)
(* The MQTT client thread: _on_ha_message                                  *)
(***************************************************************************)

\* A command for d, and d is in _slug2cid at this moment.
Accept(d) ==
    /\ cpc = "idle"
    /\ subscribed
    /\ count < MaxCommands
    /\ d \in slug2cid
    /\ cpc' = "found"
    /\ count' = count + 1
    /\ entry' = [entry EXCEPT ![count + 1].for = d]
    /\ UNCHANGED <<loopVars, relayVars, pending, wire, arrived, asked>>

\* The inject names the device when _slug2cid now has more than one; it is
\* lost when the observer connection is down.
SendInject ==
    /\ cpc = "found"
    /\ LET d == entry[count].for
           multi == Cardinality(slug2cid) > 1
           inject == [for |-> d, names |-> IF multi THEN d ELSE None]
       IN  wire' \in {Append(wire, inject), wire}
    /\ cpc' = "injected"
    /\ UNCHANGED <<loopVars, relayVars, count, entry, pending, arrived, asked>>

\* The pending entry, over the one of an earlier command.
Remember ==
    /\ cpc = "injected"
    /\ entry' = [entry EXCEPT ![count].age = "new", ![count].owes = TRUE]
    /\ pending' = [pending EXCEPT ![entry[count].for] = count]
    /\ cpc' = "idle"
    /\ UNCHANGED <<loopVars, relayVars, count, wire, arrived, asked>>

-----------------------------------------------------------------------------
(***************************************************************************)
(* The loop thread                                                         *)
(***************************************************************************)

\* A round begins: _slug2cid is emptied, devices.json has been read.
Empty ==
    /\ pc = "check" /\ todo = {} /\ held = 0
    /\ pc' = "fill"
    /\ slug2cid' = {}
    /\ unread' = identified
    /\ UNCHANGED <<clientVars, relayVars, todo, held, subscribed, entry, pending, wire, arrived,
                   asked>>

Fill(d) ==
    /\ pc = "fill"
    /\ d \in unread
    /\ slug2cid' = slug2cid \cup {d}
    /\ unread' = unread \ {d}
    /\ UNCHANGED <<clientVars, relayVars, pc, todo, held, subscribed, entry, pending, wire,
                   arrived, asked>>

\* The command topics have been subscribed to, in the first round at the
\* earliest; _check_pending goes through the keys that there are now.
StartCheck ==
    /\ pc = "fill"
    /\ unread = {}
    /\ subscribed' = TRUE
    /\ pc' = "check"
    /\ todo' = {d \in Devices : pending[d] # 0}
    /\ UNCHANGED <<clientVars, relayVars, slug2cid, unread, held, entry, pending, wire, arrived,
                   asked>>

\* A mutant: the key is held in place of the entry.
HoldKey(d) ==
    /\ pc = "check" /\ held = 0
    /\ d \in todo
    /\ held' = d
    /\ UNCHANGED <<clientVars, relayVars, slug2cid, unread, pc, todo, subscribed, entry, pending,
                   wire, arrived, asked>>

\* p = self._pending[key]
Hold(d) ==
    /\ pc = "check" /\ held = 0
    /\ d \in todo
    /\ held' = pending[d]
    /\ UNCHANGED <<clientVars, relayVars, slug2cid, unread, pc, todo, subscribed, entry, pending,
                   wire, arrived, asked>>

\* A mutant: status_at is not cleared.
SettleStillOwing(confirmed) ==
    /\ held # 0
    /\ LET p == entry[held]
           asks == p.owes /\ p.age \in {"due", "late"}
           done == (confirmed /\ (asks \/ ~p.owes)) \/ p.age = "late"
       IN  /\ asked' = [asked EXCEPT ![held] = @ + IF asks THEN 1 ELSE 0]
           /\ pending' = IF done THEN [pending EXCEPT ![p.for] = 0] ELSE pending
           /\ todo' = todo \ {p.for}
    /\ held' = 0
    /\ UNCHANGED <<clientVars, relayVars, slug2cid, unread, pc, subscribed, entry, wire, arrived>>

\* A mutant: an entry that is not done with is put back.
SettlePuttingBack(confirmed) ==
    /\ held # 0
    /\ LET p == entry[held]
           asks == p.owes /\ p.age \in {"due", "late"}
           done == (confirmed /\ (asks \/ ~p.owes)) \/ p.age = "late"
       IN  /\ entry' = [entry EXCEPT ![held].owes = p.owes /\ ~asks]
           /\ asked' = [asked EXCEPT ![held] = @ + IF asks THEN 1 ELSE 0]
           /\ pending' = [pending EXCEPT ![p.for] = IF done THEN 0 ELSE held]
           /\ todo' = todo \ {p.for}
    /\ held' = 0
    /\ UNCHANGED <<clientVars, relayVars, slug2cid, unread, pc, subscribed, wire, arrived>>

\* A mutant: there is no deadline.
SettleWithoutDeadline(confirmed) ==
    /\ held # 0
    /\ LET p == entry[held]
           asks == p.owes /\ p.age \in {"due", "late"}
           done == confirmed /\ (asks \/ ~p.owes)
       IN  /\ entry' = [entry EXCEPT ![held].owes = p.owes /\ ~asks]
           /\ asked' = [asked EXCEPT ![held] = @ + IF asks THEN 1 ELSE 0]
           /\ pending' = IF done THEN [pending EXCEPT ![p.for] = 0] ELSE pending
           /\ todo' = todo \ {p.for}
    /\ held' = 0
    /\ UNCHANGED <<clientVars, relayVars, slug2cid, unread, pc, subscribed, wire, arrived>>

\* The STATUS_GET is sent when it is due, and the key is removed from _pending
\* when the device reports what was wanted and nothing is owed any more, or
\* when the deadline has passed.
Settle(confirmed) ==
    /\ held # 0
    /\ LET p == entry[held]
           asks == p.owes /\ p.age \in {"due", "late"}
           done == (confirmed /\ (asks \/ ~p.owes)) \/ p.age = "late"
       IN  /\ entry' = [entry EXCEPT ![held].owes = p.owes /\ ~asks]
           /\ asked' = [asked EXCEPT ![held] = @ + IF asks THEN 1 ELSE 0]
           /\ pending' = IF done THEN [pending EXCEPT ![p.for] = 0] ELSE pending
           /\ todo' = todo \ {p.for}
    /\ held' = 0
    /\ UNCHANGED <<clientVars, relayVars, slug2cid, unread, pc, subscribed, wire, arrived>>

\* The delay of the STATUS_GET passes, then the confirm timeout.
Age(n) ==
    /\ entry[n].age \in {"new", "due"}
    /\ pending[entry[n].for] = n
    /\ entry' = [entry EXCEPT ![n].age = IF @ = "new" THEN "due" ELSE "late"]
    /\ UNCHANGED <<loopVars, clientVars, relayVars, pending, wire, arrived, asked>>

-----------------------------------------------------------------------------
(***************************************************************************)
(* Devices and the relay                                                   *)
(***************************************************************************)

\* A MAC of d becomes known.
Identify(d) ==
    /\ d \notin identified
    /\ identified' = identified \cup {d}
    /\ UNCHANGED <<loopVars, clientVars, sessions, latest, entry, pending, wire, arrived, asked>>

SessionBegins(d) ==
    /\ d # latest
    /\ Relay!Begins(d)
    /\ UNCHANGED <<loopVars, clientVars, identified, entry, pending, wire, arrived, asked>>

SessionEnds(d) ==
    /\ Relay!Ends(d)
    /\ UNCHANGED <<loopVars, clientVars, identified, entry, pending, wire, arrived, asked>>

\* The relay takes an inject: to the session it names, or to the latest one;
\* there may be none.
Deliver ==
    /\ wire # <<>>
    /\ LET to == IF Head(wire).names # None THEN Head(wire).names ELSE latest
       IN  arrived' = IF to \in sessions
                      THEN arrived \cup {[for |-> Head(wire).for, at |-> to]} ELSE arrived
    /\ wire' = Tail(wire)
    /\ UNCHANGED <<loopVars, clientVars, relayVars, entry, pending, asked>>

-----------------------------------------------------------------------------
LoopStep ==
    \/ Empty \/ StartCheck
    \/ \E d \in Devices : Fill(d) \/ Hold(d)
    \/ \E confirmed \in BOOLEAN : Settle(confirmed)

ClientStep ==
    \/ \E d \in Devices : Accept(d)
    \/ SendInject
    \/ Remember

RelayStep ==
    \/ \E d \in Devices : Identify(d) \/ SessionBegins(d) \/ SessionEnds(d)
    \/ Deliver

Next == LoopStep \/ ClientStep \/ RelayStep \/ \E n \in Commands : Age(n)

Spec == Init /\ [][Next]_vars

(***************************************************************************)
(* Fairness: the loop runs and time passes.  Nothing is assumed of the     *)
(* user, the devices or the relay.                                         *)
(***************************************************************************)
FairSpec ==
    /\ Spec
    /\ WF_vars(LoopStep)
    /\ \A n \in Commands : WF_vars(Age(n))

-----------------------------------------------------------------------------
(***************************************************************************)
(* Properties                                                              *)
(***************************************************************************)

\* The STATUS_GET of a command is sent at most once, though the client thread
\* replaces entries that the loop holds.
AskedAtMostOnce ==
    \A n \in Commands : asked[n] <= 1

\* The entry in _pending is that of the last command for the device: a round
\* of the loop never brings an older one back.
PendingIsLatest ==
    \A d \in Devices, n \in Commands :
        pending[d] # 0 /\ entry[n].for = d /\ entry[n].age # "none" => n <= pending[d]

\* A command does not stay pending: it is confirmed, times out, or gives way
\* to a later one.
PendingEnds ==
    \A n \in Commands : (\E d \in Devices : pending[d] = n) ~> (\A d \in Devices : pending[d] # n)

\* A command reaches the device whose slug its topic gives, and no other.
CommandsReachTheirDevice ==
    \A a \in arrived : a.at = a.for
=============================================================================
