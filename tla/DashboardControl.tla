-------------------------- MODULE DashboardControl --------------------------
(***************************************************************************)
(* The dashboard (dashboard/mttl_dashboard.py): the observer link with the *)
(* list of live sessions it learns from the relay, the presence shown on a *)
(* card (decorate), and the HTTP requests that choose a target from that   *)
(* list, inject a command and wait for its effect in devices.json          *)
(* (do_control, _target_selection, _confirm).                              *)
(*                                                                         *)
(* A device has one client id and one card; the card's entry may lack the  *)
(* client id.  The list the relay sends is computed by the thread of the   *)
(* observer that asked and then broadcast to all observers, so answers may *)
(* overtake each other.                                                    *)
(*                                                                         *)
(* What devices.json says of an outlet is left open (Poll), and a request  *)
(* is known by its name: the name is taken again once nothing is left of   *)
(* the earlier request.                                                    *)
(***************************************************************************)
EXTENDS Naturals, FiniteSets, Sequences

CONSTANTS
    Devices,    \* devices, their client ids, their cards
    Observers,  \* observer connections that ask the relay for its list
    Dashboard,  \* the dashboard's own
    Requests,   \* POST /api/control requests being served
    None        \* Python's None

ASSUME DevicesAssumption == IsFiniteSet(Devices)
ASSUME DashboardAssumption == Dashboard \in Observers
ASSUME NoneAssumption == None \notin Devices

VARIABLES
    sessions,   \* client ids in the relay's registry
    latest,     \* its _latest
    answer,     \* answer[o]: {the list computed for o, not broadcast yet}, or {}
    link,       \* the link: "up", "broken" (not noticed yet), "down"
    view,       \* live_ids, kept when the link is lost
    fresh,      \* live_ts is less than 15 seconds ago
    request,    \* request[r]: the thread that serves request r
    wire        \* injected commands on their way to the relay, in order

relayVars == <<sessions, latest, answer>>
linkVars  == <<link, view, fresh>>
vars      == <<relayVars, linkVars, request, wire>>

Relay == INSTANCE RelayPresence

(***************************************************************************)
(* A request: "chosen" (it has a target), "published", "waiting" (_confirm *)
(* has read the report to compare with); then it is answered, "acked",     *)
(* "refused" (409) or "idle" (applied, sent, 502).  card is the card it is *)
(* for, dest the device it names, heard that the card's entry shows a new   *)
(* report of success, done the device that executed the command.           *)
(* steady is a history: when the target was chosen the list was right, with *)
(* the card's device alone in it or the card's client id known, and no      *)
(* session has begun or ended since, until the command was executed.       *)
(***************************************************************************)
Answered  == {"idle", "acked", "refused"}
RequestPC == {"chosen", "published", "waiting"} \cup Answered

Request == [pc : RequestPC, card : Devices \cup {None}, dest : Devices \cup {None},
            heard : BOOLEAN, done : Devices \cup {None}, steady : BOOLEAN]

Idle == [pc |-> "idle", card |-> None, dest |-> None, heard |-> FALSE,
         done |-> None, steady |-> FALSE]

TypeOK ==
    /\ sessions \subseteq Devices
    /\ latest \in sessions \cup {None}
    /\ answer \in [Observers -> {{}} \cup {{S} : S \in SUBSET Devices}]
    /\ link \in {"up", "broken", "down"}
    /\ view \subseteq Devices
    /\ fresh \in BOOLEAN
    /\ request \in [Requests -> Request]
    /\ wire \in Seq(Requests)

Init ==
    /\ Relay!Init
    /\ answer = [o \in Observers |-> {}]
    /\ link = "down"
    /\ view = {}
    /\ fresh = FALSE
    /\ request = [r \in Requests |-> Idle]
    /\ wire = << >>

(* The relay: its sessions are those of RelayPresence. *)

(* A session begins or ends: no request still on its way is steady any more. *)
Unsettled == request' = [r \in Requests |->
                 [request[r] EXCEPT !.steady = @ /\ request[r].done # None]]

SessionBegins(d) ==
    /\ Relay!Begins(d)
    /\ Unsettled
    /\ UNCHANGED <<answer, linkVars, wire>>

(* A mutant: an ended session may stay the default target. *)
SessionEndsKeepingLatest(d) ==
    /\ d \in sessions
    /\ sessions' = sessions \ {d}
    /\ Unsettled
    /\ UNCHANGED <<latest, answer, linkVars, wire>>

SessionEnds(d) ==
    /\ Relay!Ends(d)
    /\ Unsettled
    /\ UNCHANGED <<answer, linkVars, wire>>

(* The thread of observer o computes the answer to {"list": true}. *)
Compute(o) ==
    /\ o = Dashboard => link = "up"
    /\ answer[o] = {}
    /\ answer' = [answer EXCEPT ![o] = {sessions}]
    /\ UNCHANGED <<sessions, latest, linkVars, request, wire>>

(* A mutant: an answer adds to the list in place of replacing it. *)
BroadcastMerging(o) ==
    /\ \E S \in answer[o] :
         IF link = "up" THEN view' = view \cup S /\ fresh' = TRUE ELSE UNCHANGED <<view, fresh>>
    /\ answer' = [answer EXCEPT ![o] = {}]
    /\ UNCHANGED <<sessions, latest, link, request, wire>>

(* It broadcasts the answer: the dashboard takes it, if it is connected. *)
Broadcast(o) ==
    /\ \E S \in answer[o] :
         IF link = "up" THEN view' = S /\ fresh' = TRUE ELSE UNCHANGED <<view, fresh>>
    /\ answer' = [answer EXCEPT ![o] = {}]
    /\ UNCHANGED <<sessions, latest, link, request, wire>>

(* The device a command reaches, None if there is no such session. *)
Reached(dest) ==
    IF dest = None THEN latest ELSE IF dest \in sessions THEN dest ELSE None

(* The relay takes the next command of the dashboard. *)
Deliver ==
    /\ wire # << >>
    /\ request' = [request EXCEPT ![Head(wire)].done = Reached(request[Head(wire)].dest)]
    /\ wire' = Tail(wire)
    /\ UNCHANGED <<relayVars, linkVars>>

(* What devices.json shows. *)

(* Device d reports on a command, whose ever it was and with success or    *)
(* not: this replaces the last report in the entry of d.                   *)
Report(d, success) ==
    /\ d \in sessions
    /\ request' = [r \in Requests |->
          [request[r] EXCEPT !.heard = IF request[r].pc = "waiting" /\ request[r].card = d
                                         THEN success ELSE @]]
    /\ UNCHANGED <<relayVars, linkVars, wire>>

(* The link. *)

Connect ==
    /\ link = "down"
    /\ link' = "up"
    /\ UNCHANGED <<relayVars, view, fresh, request, wire>>

(* The connection is lost with what is on it; the dashboard may not see it. *)
Break ==
    /\ link = "up"
    /\ link' \in {"broken", "down"}
    /\ wire' = << >>
    /\ UNCHANGED <<relayVars, view, fresh, request>>

Notice ==
    /\ link = "broken"
    /\ link' = "down"
    /\ UNCHANGED <<relayVars, view, fresh, request, wire>>

(* Fifteen seconds pass without an answer. *)
ViewAges ==
    /\ fresh
    /\ fresh' = FALSE
    /\ UNCHANGED <<relayVars, link, view, request, wire>>

(* A mutant: the age of the list is not looked at. *)
ListedAtAnyAge(d) == link # "down" /\ d \in view

(* decorate: card d is online by the relay's list.  Without a fresh list the *)
(* page goes by the age of the telemetry, which is not modelled.           *)
Listed(d) == link # "down" /\ fresh /\ d \in view

(* Requests. *)

(* The client id devices.json gives for the card of d: none for an entry    *)
(* without one, or when the file cannot be read.                           *)
WantCid(d) == {d, None}

(* A mutant: with two live devices a request still relies on the latest. *)
SelectionsOffByOne(want) ==
    IF link = "down" THEN {want}
    ELSE IF Cardinality(view) <= 2 THEN {None}
    ELSE {want} \cap view

(* _target_selection: None names no device, and a refused request has no   *)
(* target.                                                                 *)
Selections(want) ==
    IF link = "down" THEN {want}
    ELSE IF Cardinality(view) <= 1 THEN {None}
    ELSE {want} \cap view

(* A request for the card of d chooses its target. *)
Ask(r, d) ==
    /\ request[r].pc \in Answered
    /\ r \notin {wire[i] : i \in DOMAIN wire}
    /\ \E want \in WantCid(d) :
         LET right == /\ view = sessions /\ d \in sessions /\ link = "up"
                      /\ want = d \/ view = {d}
             asked == [Idle EXCEPT !.card = d, !.steady = right]
         IN  \/ \E t \in Selections(want) :
                  request' = [request EXCEPT ![r] = [asked EXCEPT !.pc = "chosen", !.dest = t]]
             \/ /\ Selections(want) = {}
                /\ request' = [request EXCEPT ![r] = [asked EXCEPT !.pc = "refused"]]
    /\ UNCHANGED <<relayVars, linkVars, wire>>

(* publish_inject, which fails without a socket (502).  A request for      *)
(* status is answered at once (202).                                       *)
Publish(r) ==
    /\ request[r].pc = "chosen"
    /\ \/ link # "down" /\ request' = [request EXCEPT ![r].pc = "published"]
       \/ request' = [request EXCEPT ![r].pc = "idle"]
    /\ wire' = IF link = "up" THEN Append(wire, r) ELSE wire
    /\ UNCHANGED <<relayVars, linkVars>>

(* _confirm reads the report that is there before it waits. *)
StartConfirm(r) ==
    /\ request[r].pc = "published"
    /\ request' = [request EXCEPT ![r].pc = "waiting", ![r].heard = FALSE]
    /\ UNCHANGED <<relayVars, linkVars, wire>>

(* The wait ends: the outlet is as asked, a report has come, or time is up. *)
Poll(r) ==
    /\ request[r].pc = "waiting"
    /\ \/ request' = [request EXCEPT ![r].pc = "idle", ![r].heard = FALSE]
       \/ request[r].heard /\ request' = [request EXCEPT ![r].pc = "acked"]
    /\ UNCHANGED <<relayVars, linkVars, wire>>

RelayStep == \/ \E d \in Devices : SessionBegins(d) \/ SessionEnds(d)
             \/ \E d \in Devices, success \in BOOLEAN : Report(d, success)
             \/ \E o \in Observers : Compute(o) \/ Broadcast(o)
             \/ Deliver
LinkStep == Connect \/ Break \/ Notice \/ ViewAges
RequestStep(r) == \/ \E d \in Devices : Ask(r, d)
                  \/ Publish(r) \/ StartConfirm(r) \/ Poll(r)

Next == RelayStep \/ LinkStep \/ \E r \in Requests : RequestStep(r)

(* The link asks every four seconds and tries to connect again, the relay  *)
(* broadcasts what it computed, and time passes.                           *)
Fairness ==
    /\ WF_vars(Connect)
    /\ WF_vars(Compute(Dashboard))
    /\ \A o \in Observers : WF_vars(Broadcast(o))
    /\ WF_vars(ViewAges)

Spec == Init /\ [][Next]_vars /\ Fairness

(* Properties. *)

(* A request made when the list was right, for a card whose client id was  *)
(* known or whose device was alone, and not overtaken by a session that    *)
(* begins or ends, is not refused and is executed by the device of its     *)
(* card, whether it names the device or relies on the latest session.      *)
SteadyRequestLands ==
    \A r \in Requests : request[r].steady =>
        /\ request[r].pc # "refused"
        /\ request[r].done \in {None, request[r].card}

(* However old the answers that are still on their way, and whichever way  *)
(* they overtake each other: when the sessions and the link stay as they   *)
(* are, the list in the end is right and stays right.                      *)
ViewConverges ==
    \A S \in SUBSET Devices :
        <>[](sessions = S /\ link = "up") => <>[](view = S)

(* A device that is gone for good is in the end shown as offline for good, *)
(* also over a link that is lost and has not been noticed.                 *)
AbsenceIsShown ==
    \A d \in Devices : <>[](d \notin sessions) => <>[]~Listed(d)

(* The cards come to show who is there and who is not.                     *)
PresenceIsShown == ViewConverges /\ AbsenceIsShown
=============================================================================
