----------------------- MODULE DashboardControl_proofs -----------------------
(***************************************************************************)
(* Proofs about the dashboard, for any numbers of devices, observers and   *)
(* requests: a request that is not overtaken by a change of the sessions   *)
(* is executed by the device of its card.                                  *)
(***************************************************************************)
EXTENDS DashboardControl, FiniteSetTheorems, SequenceTheorems, TLAPS

\* While there are sessions one of them is the latest.
LatestIsLive == sessions # {} => latest \in sessions

\* A steady command that has not been executed names a live device, or goes
\* without a name to the only one there is.
OnItsWay ==
    \A r \in Requests : request[r].steady /\ request[r].done = None =>
        /\ request[r].pc # "refused"
        /\ request[r].card \in sessions
        /\ \/ request[r].dest = request[r].card
           \/ request[r].dest = None /\ sessions = {request[r].card}

\* A command is on the wire at most once, after its target was chosen and
\* before it is executed.
WireInv ==
    /\ \A r \in Requests : request[r].pc = "chosen" => request[r].done = None
    /\ \A i \in DOMAIN wire : /\ request[wire[i]].pc # "chosen"
                              /\ request[wire[i]].done = None
                              /\ \A j \in DOMAIN wire : wire[i] = wire[j] => i = j

DashboardInv ==
    /\ TypeOK
    /\ LatestIsLive
    /\ OnItsWay
    /\ WireInv
    /\ SteadyRequestLands

-----------------------------------------------------------------------------
LEMMA InitEstablishes == Init => DashboardInv
<1> SUFFICES ASSUME Init PROVE DashboardInv
  OBVIOUS
<1>1. Idle \in Request
  BY DEF Idle, Request, RequestPC, Answered
<1>2. TypeOK
  <2>1. /\ request \in [Requests -> Request]
        /\ answer \in [Observers -> {{}} \cup {{S} : S \in SUBSET Devices}]
    BY <1>1 DEF Init
  <2>2. wire \in Seq(Requests)
    BY DEF Init
  <2> QED
    BY <2>1, <2>2 DEF Init, Relay!Init, TypeOK
<1>3. LatestIsLive /\ OnItsWay /\ WireInv /\ SteadyRequestLands
  BY DEF Init, Relay!Init, LatestIsLive, OnItsWay, WireInv, SteadyRequestLands, Idle
<1> QED
  BY <1>2, <1>3 DEF DashboardInv

LEMMA WireElements ==
    ASSUME wire \in Seq(Requests)
    PROVE  /\ Len(wire) \in Nat /\ DOMAIN wire = 1..Len(wire)
           /\ \A i \in DOMAIN wire : wire[i] \in Requests
BY LenProperties, ElementOfSeq

\* What a change of the sessions does to the requests.
LEMMA UnsettledPreserves ==
    ASSUME DashboardInv, Unsettled, UNCHANGED wire
    PROVE  /\ request' \in [Requests -> Request]
           /\ OnItsWay' /\ WireInv' /\ SteadyRequestLands'
<1> USE DEF DashboardInv, TypeOK
<1>1. ASSUME NEW r \in Requests
      PROVE  /\ request'[r] \in Request
             /\ request'[r].pc = request[r].pc /\ request'[r].card = request[r].card
             /\ request'[r].done = request[r].done
             /\ request'[r].steady => request[r].steady /\ request[r].done # None
  BY <1>1 DEF Unsettled, Request
<1>2. request' \in [Requests -> Request]
  BY <1>1 DEF Unsettled
<1>3. OnItsWay' /\ SteadyRequestLands'
  BY <1>1 DEF OnItsWay, SteadyRequestLands
<1>4. \A i \in DOMAIN wire : wire[i] \in Requests
  OBVIOUS
<1>5. WireInv'
  BY <1>1, <1>4 DEF WireInv
<1> QED
  BY <1>2, <1>3, <1>5

LEMMA SessionBeginsPreserves ==
    ASSUME DashboardInv, NEW d \in Devices, SessionBegins(d)
    PROVE  DashboardInv'
<1>1. /\ request' \in [Requests -> Request]
      /\ OnItsWay' /\ WireInv' /\ SteadyRequestLands'
  BY UnsettledPreserves DEF SessionBegins
<1>2. TypeOK' /\ LatestIsLive'
  BY <1>1 DEF SessionBegins, Relay!Begins, DashboardInv, TypeOK, LatestIsLive, linkVars
<1> QED
  BY <1>1, <1>2 DEF DashboardInv

LEMMA SessionEndsPreserves ==
    ASSUME DashboardInv, NEW d \in Devices, SessionEnds(d)
    PROVE  DashboardInv'
<1>1. /\ request' \in [Requests -> Request]
      /\ OnItsWay' /\ WireInv' /\ SteadyRequestLands'
  BY UnsettledPreserves DEF SessionEnds
<1>2. latest' \in sessions' \cup {None} /\ LatestIsLive'
  BY DEF SessionEnds, Relay!Ends, DashboardInv, TypeOK, LatestIsLive
<1>3. TypeOK'
  BY <1>1, <1>2 DEF SessionEnds, Relay!Ends, DashboardInv, TypeOK, linkVars
<1> QED
  BY <1>1, <1>2, <1>3 DEF DashboardInv

\* Asking for the list, and receiving it, touches no request.
LEMMA ListPreserves ==
    ASSUME DashboardInv, NEW o \in Observers, Compute(o) \/ Broadcast(o)
    PROVE  DashboardInv'
<1> USE DEF DashboardInv
<1>1. TypeOK'
  <2>1. CASE Compute(o)
    BY <2>1 DEF Compute, TypeOK, linkVars
  <2>2. CASE Broadcast(o)
    <3>1. PICK S \in answer[o] :
            IF link = "up" THEN view' = S /\ fresh' = TRUE ELSE UNCHANGED <<view, fresh>>
      BY <2>2 DEF Broadcast
    <3>2. S \subseteq Devices
      BY DEF TypeOK
    <3>3. view' \subseteq Devices /\ fresh' \in BOOLEAN
      BY <3>1, <3>2 DEF TypeOK
    <3>4. answer' \in [Observers -> {{}} \cup {{T} : T \in SUBSET Devices}]
      BY <2>2 DEF Broadcast, TypeOK
    <3> QED
      BY <2>2, <3>3, <3>4 DEF Broadcast, TypeOK
  <2> QED
    BY <2>1, <2>2
<1>2. UNCHANGED <<sessions, latest, request, wire>>
  BY DEF Compute, Broadcast
<1>3. LatestIsLive' /\ OnItsWay' /\ WireInv' /\ SteadyRequestLands'
  BY <1>2 DEF LatestIsLive, OnItsWay, WireInv, SteadyRequestLands
<1> QED
  BY <1>1, <1>3

LEMMA LinkPreserves ==
    ASSUME DashboardInv, LinkStep
    PROVE  DashboardInv'
<1> USE DEF DashboardInv
<1>1. /\ UNCHANGED <<relayVars, view, request>>
      /\ wire' = wire \/ wire' = << >>
      /\ fresh' \in BOOLEAN /\ link' \in {"up", "broken", "down"}
  BY DEF LinkStep, Connect, Break, Notice, ViewAges, TypeOK
<1>2. TypeOK'
  <2>1. wire' \in Seq(Requests)
    BY <1>1, EmptySeq DEF TypeOK
  <2>2. /\ sessions' \subseteq Devices /\ latest' \in sessions' \cup {None}
        /\ view' \subseteq Devices
        /\ answer' \in [Observers -> {{}} \cup {{S} : S \in SUBSET Devices}]
        /\ request' \in [Requests -> Request]
    BY <1>1 DEF TypeOK, relayVars
  <2> QED
    BY <1>1, <2>1, <2>2 DEF TypeOK
<1>3. LatestIsLive' /\ OnItsWay' /\ WireInv' /\ SteadyRequestLands'
  BY <1>1 DEF LatestIsLive, OnItsWay, WireInv, SteadyRequestLands, relayVars
<1> QED
  BY <1>2, <1>3

\* The command at the head of the wire is executed.
LEMMA DeliverPreserves ==
    ASSUME DashboardInv, Deliver
    PROVE  DashboardInv'
<1> DEFINE h == Head(wire)
<1> USE DEF DashboardInv
<1>1. /\ wire \in Seq(Requests) /\ wire # << >> /\ h \in Requests /\ h = wire[1]
      /\ 1 \in DOMAIN wire /\ wire' \in Seq(Requests)
      /\ DOMAIN wire' = 1..(Len(wire) - 1) /\ DOMAIN wire = 1..Len(wire)
      /\ \A i \in DOMAIN wire' : /\ wire'[i] = wire[i + 1]
                               /\ i + 1 \in DOMAIN wire /\ wire[i + 1] \in Requests
  <2>1. wire \in Seq(Requests) /\ wire # << >> /\ wire' = Tail(wire)
    BY DEF Deliver, TypeOK
  <2>2. /\ Len(wire) \in Nat /\ Len(wire) > 0 /\ DOMAIN wire = 1..Len(wire)
        /\ \A i \in 1..Len(wire) : wire[i] \in Requests
    BY <2>1, EmptySeq, ElementOfSeq, LenProperties
  <2>3. wire' \in Seq(Requests) /\ Len(wire') = Len(wire) - 1 /\ h = wire[1]
        /\ \A i \in 1..Len(wire') : wire'[i] = wire[i + 1]
    BY <2>1, HeadTailProperties
  <2>4. DOMAIN wire' = 1..Len(wire')
    BY <2>3, LenProperties
  <2> QED
    BY <2>1, <2>2, <2>3, <2>4
<1>2. request[h].done = None /\ request[h].pc # "chosen"
  BY <1>1 DEF WireInv
<1>3. Reached(request[h].dest) \in Devices \cup {None}
  BY <1>1 DEF Reached, TypeOK, Request
<1>4. request' = [request EXCEPT ![h].done = Reached(request[h].dest)]
  BY DEF Deliver
<1>5. request[h].steady => Reached(request[h].dest) = request[h].card
  <2>1. SUFFICES ASSUME request[h].steady
                 PROVE  Reached(request[h].dest) = request[h].card
    OBVIOUS
  <2>2. /\ request[h].card \in sessions
        /\ \/ request[h].dest = request[h].card
           \/ request[h].dest = None /\ sessions = {request[h].card}
    BY <1>1, <1>2, <2>1 DEF OnItsWay
  <2> QED
    BY <2>2, NoneAssumption DEF Reached, LatestIsLive, TypeOK
<1> HIDE DEF h
<1>6. /\ request'[h] \in Request
      /\ request'[h].pc = request[h].pc /\ request'[h].card = request[h].card
      /\ request'[h].steady = request[h].steady
      /\ request'[h].done = Reached(request[h].dest)
      /\ \A r \in Requests : r # h => request'[r] = request[r]
  <2>1. request \in [Requests -> Request] /\ request[h] \in Request
    BY <1>1 DEF TypeOK
  <2> HIDE DEF DashboardInv
  <2> QED
    BY <1>1, <1>3, <1>4, <2>1 DEF Request
<1>7. UNCHANGED <<sessions, latest, answer, link, view, fresh>>
  BY DEF Deliver, relayVars, linkVars
<1>8. TypeOK'
  BY <1>1, <1>4, <1>6, <1>7 DEF TypeOK
<1>9. LatestIsLive'
  BY <1>7 DEF LatestIsLive
<1>10. OnItsWay'
  <2>1. ASSUME request[h].steady, request'[h].done = None PROVE FALSE
    <3>1. request[h].card \in sessions
      BY <1>1, <1>2, <2>1 DEF OnItsWay
    <3> QED
      BY <1>5, <1>6, <2>1, <3>1, NoneAssumption DEF TypeOK
  <2> QED
    BY <1>1, <1>6, <1>7, <2>1 DEF OnItsWay
<1>11. WireInv'
  <2>1. ASSUME NEW i \in DOMAIN wire' PROVE wire'[i] # h
    <3>1. i + 1 \in DOMAIN wire /\ i + 1 # 1 /\ wire'[i] = wire[i + 1]
      BY <1>1, <2>1
    <3> QED
      BY <1>1, <3>1 DEF WireInv
  <2>2. ASSUME NEW i \in DOMAIN wire', NEW j \in DOMAIN wire', wire'[i] = wire'[j]
        PROVE  i = j
    <3>1. i + 1 = j + 1
      BY <1>1, <2>2 DEF WireInv
    <3> QED
      BY <1>1, <3>1, <2>2
  <2>3. \A i \in DOMAIN wire' : request'[wire'[i]].pc # "chosen" /\ request'[wire'[i]].done = None
    BY <1>1, <1>6, <2>1 DEF WireInv
  <2>4. \A r \in Requests : request'[r].pc = "chosen" => request'[r].done = None
    BY <1>2, <1>6 DEF WireInv
  <2> QED
    BY <2>2, <2>3, <2>4 DEF WireInv
<1>12. SteadyRequestLands'
  BY <1>1, <1>5, <1>6 DEF SteadyRequestLands
<1> QED
  BY <1>8, <1>9, <1>10, <1>11, <1>12

\* A report changes what a waiting request has heard, and nothing else.
LEMMA ReportPreserves ==
    ASSUME DashboardInv, NEW d \in Devices, NEW success \in BOOLEAN, Report(d, success)
    PROVE  DashboardInv'
<1>1. request \in [Requests -> Request]
  BY DEF DashboardInv, TypeOK
<1>2. /\ request' \in [Requests -> Request]
      /\ \A r \in Requests :
           /\ request'[r].pc = request[r].pc /\ request'[r].card = request[r].card
           /\ request'[r].dest = request[r].dest /\ request'[r].done = request[r].done
           /\ request'[r].steady = request[r].steady
  BY <1>1 DEF Report, Request
<1>3. UNCHANGED <<sessions, latest, answer, link, view, fresh, wire>>
  BY DEF Report, relayVars, linkVars
<1>4. TypeOK' /\ LatestIsLive'
  BY <1>2, <1>3 DEF DashboardInv, TypeOK, LatestIsLive
<1>5. OnItsWay' /\ SteadyRequestLands'
  BY <1>2, <1>3 DEF DashboardInv, OnItsWay, SteadyRequestLands
<1>6. \A i \in DOMAIN wire : wire[i] \in Requests
  BY DEF DashboardInv, TypeOK
<1>7. WireInv'
  BY <1>2, <1>3, <1>6 DEF DashboardInv, WireInv
<1> QED
  BY <1>4, <1>5, <1>7 DEF DashboardInv

\* The target is chosen: a request that is steady from here on finds its
\* device in the list, which is the registry.
LEMMA AskPreserves ==
    ASSUME DashboardInv, NEW r \in Requests, NEW d \in Devices, Ask(r, d)
    PROVE  DashboardInv'
<1>0. PICK want \in WantCid(d) :
        LET right == /\ view = sessions /\ d \in sessions /\ link = "up"
                     /\ want = d \/ view = {d}
            asked == [Idle EXCEPT !.card = d, !.steady = right]
        IN  \/ \E t \in Selections(want) :
                 request' = [request EXCEPT ![r] = [asked EXCEPT !.pc = "chosen", !.dest = t]]
            \/ /\ Selections(want) = {}
               /\ request' = [request EXCEPT ![r] = [asked EXCEPT !.pc = "refused"]]
  BY DEF Ask
<1> DEFINE steady == /\ view = sessions /\ d \in sessions /\ link = "up"
                     /\ want = d \/ view = {d}
<1>1. /\ request \in [Requests -> Request] /\ wire \in Seq(Requests)
      /\ view \subseteq Devices /\ steady \in BOOLEAN
  BY DEF DashboardInv, TypeOK
<1>2. UNCHANGED <<sessions, latest, answer, link, view, fresh, wire>>
  BY DEF Ask, relayVars, linkVars
<1>3. \A i \in DOMAIN wire : wire[i] \in Requests /\ wire[i] # r
  BY <1>1, WireElements DEF Ask
<1>4. PICK pc \in {"chosen", "refused"}, t \in Devices \cup {None} :
        /\ request' = [request EXCEPT ![r] =
                         [pc |-> pc, card |-> d, dest |-> t, heard |-> FALSE,
                          done |-> None, steady |-> steady]]
        /\ pc = "chosen" => t \in Selections(want)
        /\ pc = "refused" => Selections(want) = {}
  <2>1. Selections(want) \subseteq Devices \cup {None}
    BY <1>1 DEF Selections, WantCid
  <2> QED
    BY <1>0, <2>1 DEF Idle
<1>5. steady => /\ pc # "refused"
                /\ t = d \/ (t = None /\ sessions = {d})
  <2>1. SUFFICES ASSUME steady
                 PROVE  pc # "refused" /\ (t = d \/ (t = None /\ sessions = {d}))
    OBVIOUS
  <2>2. CASE Cardinality(view) <= 1
    <3>1. IsFiniteSet(view)
      BY <1>1, DevicesAssumption, FS_Subset
    <3>2. Cardinality(view) \in Nat /\ Cardinality(view) # 0
      BY <2>1, <3>1, FS_CardinalityType, FS_EmptySet
    <3>3. Cardinality(view) = 1
      BY <2>2, <3>2
    <3>4. PICK x : view = {x}
      BY <3>1, <3>3, FS_Singleton
    <3>5. sessions = {d}
      BY <2>1, <3>4
    <3>6. Selections(want) = {None}
      BY <2>1, <2>2 DEF Selections
    <3> QED
      BY <1>4, <3>5, <3>6
  <2>3. CASE ~(Cardinality(view) <= 1)
    <3>1. view # {d}
      BY <2>3, FS_Singleton
    <3>2. Selections(want) = {d}
      BY <2>1, <2>3, <3>1 DEF Selections
    <3> QED
      BY <1>4, <3>2
  <2> QED
    BY <2>2, <2>3
<1> HIDE DEF steady
<1>6. /\ request'[r] = [pc |-> pc, card |-> d, dest |-> t, heard |-> FALSE,
                        done |-> None, steady |-> steady]
      /\ \A q \in Requests : q # r => request'[q] = request[q]
  BY <1>1, <1>4
<1>7. request' \in [Requests -> Request]
  BY <1>1, <1>4 DEF Request, RequestPC, Answered
<1>8. TypeOK' /\ LatestIsLive'
  BY <1>2, <1>7 DEF DashboardInv, TypeOK, LatestIsLive
<1>9. OnItsWay'
  <2>1. steady => d \in sessions
    BY DEF steady
  <2> QED
    BY <1>2, <1>5, <1>6, <2>1 DEF DashboardInv, OnItsWay
<1>10. SteadyRequestLands'
  BY <1>5, <1>6 DEF DashboardInv, SteadyRequestLands
<1>11. WireInv'
  BY <1>2, <1>3, <1>6 DEF DashboardInv, WireInv
<1> QED
  BY <1>8, <1>9, <1>10, <1>11 DEF DashboardInv

\* The command goes out, once.
LEMMA PublishPreserves ==
    ASSUME DashboardInv, NEW r \in Requests, Publish(r)
    PROVE  DashboardInv'
<1>1. /\ request \in [Requests -> Request] /\ wire \in Seq(Requests)
      /\ request[r].pc = "chosen" /\ request[r].done = None
  BY DEF DashboardInv, TypeOK, WireInv, Publish
<1>2. PICK pc \in {"published", "idle"} : request' = [request EXCEPT ![r].pc = pc]
  BY DEF Publish
<1>3. /\ request'[r] = [request[r] EXCEPT !.pc = pc]
      /\ \A q \in Requests : q # r => request'[q] = request[q]
      /\ request' \in [Requests -> Request]
  <2>1. request[r] \in Request
    BY <1>1
  <2>2. [request[r] EXCEPT !.pc = pc] \in Request
    BY <2>1 DEF Request, RequestPC, Answered
  <2>3. request' = [request EXCEPT ![r] = [request[r] EXCEPT !.pc = pc]]
    BY <1>1, <1>2
  <2> QED
    BY <1>1, <2>2, <2>3
<1>4. /\ request'[r].pc = pc /\ request'[r].card = request[r].card
      /\ request'[r].dest = request[r].dest /\ request'[r].done = request[r].done
      /\ request'[r].steady = request[r].steady
  <2>1. request[r] \in Request
    BY <1>1
  <2> QED
    BY <1>3, <2>1 DEF Request
<1>5. UNCHANGED <<sessions, latest, answer, link, view, fresh>>
  BY DEF Publish, relayVars, linkVars
<1>6. wire' = wire \/ wire' = Append(wire, r)
  BY DEF Publish
<1>7. wire' \in Seq(Requests)
  BY <1>1, <1>6, AppendProperties
<1>8. TypeOK' /\ LatestIsLive'
  <2>1. /\ sessions \subseteq Devices /\ latest \in sessions \cup {None} /\ LatestIsLive
        /\ answer \in [Observers -> {{}} \cup {{S} : S \in SUBSET Devices}]
        /\ link \in {"up", "broken", "down"} /\ view \subseteq Devices /\ fresh \in BOOLEAN
    BY DEF DashboardInv, TypeOK
  <2> QED
    BY <1>3, <1>5, <1>7, <2>1 DEF TypeOK, LatestIsLive
<1>9. OnItsWay' /\ SteadyRequestLands'
  <2>1. pc # "refused" /\ \A q \in Requests : q # r => request'[q] = request[q]
    BY <1>3
  <2>2. OnItsWay /\ SteadyRequestLands
    BY DEF DashboardInv
  <2>3. OnItsWay'
    BY <1>1, <1>4, <1>5, <2>1, <2>2 DEF OnItsWay
  <2>4. SteadyRequestLands'
    BY <1>1, <1>4, <2>1, <2>2 DEF SteadyRequestLands
  <2> QED
    BY <2>3, <2>4
<1>10. \A i \in DOMAIN wire : wire[i] \in Requests /\ wire[i] # r
  BY <1>1, WireElements DEF DashboardInv, WireInv
<1>11. \A q \in Requests : request'[q].pc = "chosen" => request'[q].done = None
  BY <1>1, <1>3, <1>4 DEF DashboardInv, WireInv
<1>12. /\ \A i \in DOMAIN wire : /\ request[wire[i]].pc # "chosen" /\ request[wire[i]].done = None
                                  /\ \A j \in DOMAIN wire : wire[i] = wire[j] => i = j
  BY DEF DashboardInv, WireInv
<1>13. \A i \in DOMAIN wire : request'[wire[i]].pc # "chosen" /\ request'[wire[i]].done = None
  BY <1>3, <1>10, <1>12
<1>14. WireInv'
  <2>1. CASE wire' = wire
    BY <1>11, <1>12, <1>13, <2>1 DEF WireInv
  <2>2. CASE wire' = Append(wire, r)
    <3>1. /\ Len(wire) \in Nat /\ DOMAIN wire = 1..Len(wire)
          /\ Len(wire') = Len(wire) + 1
          /\ \A i \in 1..Len(wire) : wire'[i] = wire[i]
          /\ wire'[Len(wire) + 1] = r
      BY <1>1, <2>2, AppendProperties, LenProperties
    <3>2. DOMAIN wire' = 1..Len(wire')
      BY <1>7, LenProperties
    <3>3. \A i \in DOMAIN wire' : \/ i \in DOMAIN wire /\ wire'[i] = wire[i]
                                  \/ i = Len(wire) + 1 /\ wire'[i] = r
      BY <3>1, <3>2
    <3>4. request'[r].pc # "chosen" /\ request'[r].done = None
      BY <1>1, <1>4
    <3>5. \A i \in DOMAIN wire' : request'[wire'[i]].pc # "chosen" /\ request'[wire'[i]].done = None
      BY <1>13, <3>3, <3>4
    <3>6. \A i, j \in DOMAIN wire' : wire'[i] = wire'[j] => i = j
      BY <1>10, <1>12, <3>3
    <3> QED
      BY <1>11, <3>5, <3>6 DEF WireInv
  <2> QED
    BY <1>6, <2>1, <2>2
<1> QED
  BY <1>8, <1>9, <1>14 DEF DashboardInv

\* Waiting for the effect changes only where the request is and what it heard.
LEMMA ConfirmPreserves ==
    ASSUME DashboardInv, NEW r \in Requests, StartConfirm(r) \/ Poll(r)
    PROVE  DashboardInv'
<1>1. /\ request \in [Requests -> Request]
      /\ \A i \in DOMAIN wire : wire[i] \in Requests
  BY DEF DashboardInv, TypeOK
<1>2. PICK pc \in {"waiting", "idle", "acked"}, heard \in BOOLEAN :
        request' = [request EXCEPT ![r].pc = pc, ![r].heard = heard]
  <2>1. request[r].heard \in BOOLEAN /\ request[r] \in Request
    BY <1>1 DEF Request
  <2>2. CASE StartConfirm(r)
    BY <2>2 DEF StartConfirm
  <2>3. CASE Poll(r)
    <3>1. CASE request' = [request EXCEPT ![r].pc = "idle", ![r].heard = FALSE]
      BY <3>1
    <3>2. CASE request' = [request EXCEPT ![r].pc = "acked"]
      <4>1. request' = [request EXCEPT ![r].pc = "acked", ![r].heard = request[r].heard]
        BY <1>1, <2>1, <3>2 DEF Request
      <4> QED
        BY <2>1, <4>1
    <3> QED
      BY <2>3, <3>1, <3>2 DEF Poll
  <2> QED
    BY <2>2, <2>3
<1>3. request[r] \in Request
  BY <1>1
<1>4. /\ request' \in [Requests -> Request]
      /\ request'[r].pc = pc /\ request'[r].card = request[r].card
      /\ request'[r].dest = request[r].dest /\ request'[r].done = request[r].done
      /\ request'[r].steady = request[r].steady
      /\ \A q \in Requests : q # r => request'[q] = request[q]
  BY <1>1, <1>2, <1>3 DEF Request, RequestPC, Answered
<1>5. UNCHANGED <<sessions, latest, answer, link, view, fresh, wire>>
  BY DEF StartConfirm, Poll, relayVars, linkVars
<1>6. TypeOK' /\ LatestIsLive'
  BY <1>4, <1>5 DEF DashboardInv, TypeOK, LatestIsLive
<1>7. OnItsWay' /\ SteadyRequestLands'
  BY <1>4, <1>5 DEF DashboardInv, OnItsWay, SteadyRequestLands
<1>8. WireInv'
  BY <1>1, <1>4, <1>5 DEF DashboardInv, WireInv
<1> QED
  BY <1>6, <1>7, <1>8 DEF DashboardInv

LEMMA NextPreserves == DashboardInv /\ [Next]_vars => DashboardInv'
<1> SUFFICES ASSUME DashboardInv, [Next]_vars PROVE DashboardInv'
  OBVIOUS
<1>1. CASE UNCHANGED vars
  BY <1>1 DEF vars, relayVars, linkVars, DashboardInv, TypeOK, LatestIsLive, OnItsWay, WireInv,
              SteadyRequestLands
<1>2. CASE RelayStep
  BY <1>2, SessionBeginsPreserves, SessionEndsPreserves, ReportPreserves, ListPreserves,
     DeliverPreserves DEF RelayStep
<1>3. CASE LinkStep
  BY <1>3, LinkPreserves
<1>4. CASE \E r \in Requests : RequestStep(r)
  BY <1>4, AskPreserves, PublishPreserves, ConfirmPreserves DEF RequestStep
<1> QED
  BY <1>1, <1>2, <1>3, <1>4 DEF Next

THEOREM DashboardInvariant == Spec => []DashboardInv
<1>1. Init => DashboardInv
  BY InitEstablishes
<1>2. DashboardInv /\ [Next]_vars => DashboardInv'
  BY NextPreserves
<1> QED
  BY <1>1, <1>2, PTL DEF Spec

\* TypeOK: what the variables of the dashboard and the small relay hold.
THEOREM TypeCorrect == Spec => []TypeOK
<1>1. DashboardInv => TypeOK
  BY DEF DashboardInv
<1> QED
  BY <1>1, DashboardInvariant, PTL

\* _target_selection: a request made from a list that is right, for a card whose
\* client id is known or whose device is alone, and not overtaken by a session,
\* is executed by its own device, for any number of devices, requests and
\* answers under way.
THEOREM SteadyRequestsLand == Spec => []SteadyRequestLands
<1>1. DashboardInv => SteadyRequestLands
  BY DEF DashboardInv
<1> QED
  BY <1>1, DashboardInvariant, PTL
=============================================================================
