------------------------ MODULE DeviceTelemetry_proofs ------------------------
(***************************************************************************)
(* Proofs about what the relay knows of a device, for any outlets and any  *)
(* bound on the messages under way.                                        *)
(***************************************************************************)
EXTENDS DeviceTelemetry, TLAPS

(***************************************************************************)
(* The inductive invariant.  That a complete view is right is a statement  *)
(* about a connection at rest; what holds all the time is that of the      *)
(* messages under way the last one that tells of an outlet tells what is   *)
(* the case, and that the entry does where there is none; but for the outlets  *)
(* that the device has switched and not told of.                           *)
(***************************************************************************)

Tells(m) == m.rqi \in {"STATUS_REPORT", "POWER_EVENT", "POWER_SET"}

\* A device registers one request at a time, and tells nothing before the
\* last one is answered; so the bootstrap is alone on its connection.
RegistersFirst ==
    link =>
        /\ answered = 2 =>
             /\ \A i \in DOMAIN up : Tells(up[i])
             /\ hand["present"].pc \in {"feed", "default"} => Tells(hand["present"].msg)
        /\ answered # 2 => owed = {}
        /\ answered # 2 /\ asked = answered => up = << >> /\ hand["present"].pc = "idle"
        /\ asked # answered =>
             \/ up = <<Request(asked)>> /\ hand["present"].pc = "idle"
             \/ /\ up = << >> /\ hand["present"].pc \in {"feed", "default"}
                /\ hand["present"].msg = Request(asked)

\* No message that is still to be taken tells of outlet n.
NoneSent(n) == \A i \in DOMAIN up : n \notin PowerOf(up[i])

\* The last message under way that tells of n is right about it.
LastSentIsRight(n) ==
    \A i \in DOMAIN up :
        /\ n \in PowerOf(up[i])
        /\ \A j \in DOMAIN up : j > i => n \notin PowerOf(up[j])
        => up[i].on = power[n]

\* The thread has in hand, and has not given to the feed, a message about n.
InHand(n) == hand["present"].pc = "feed" /\ n \in PowerOf(hand["present"].msg)

HandIsRight(n) ==
    InHand(n) /\ NoneSent(n) => hand["present"].msg.on = power[n]

\* A report of n has gone to the feed and will join the set.
Joining(n) == hand["present"].pc = "default" /\ n \in Reported(hand["present"].msg)

EntryIsRight(n) ==
    (n \in cache.seen \/ Joining(n)) /\ ~InHand(n) /\ NoneSent(n) => entry[n] = power[n]

\* While the view is the connection's own.
OwnViewIsRight ==
    view = "own" =>
        /\ answered = 2
        /\ hand["present"].verdict = None
        /\ cache.status_complete => cache.seen = Selectors
        /\ \A n \in Outlets \ untold :
             LastSentIsRight(n) /\ HandIsRight(n) /\ EntryIsRight(n)

TelemetryInv ==
    /\ TypeOK
    /\ RegistersFirst
    /\ OwnViewIsRight

-----------------------------------------------------------------------------
(***************************************************************************)
(* Lemmas about messages and about the sequence of those under way.        *)
(***************************************************************************)

LEMMA RequestFacts ==
  /\ \A i \in 1..2 : Request(i) \in Message /\ ~Tells(Request(i))
  /\ Request(1).rqi = "create" /\ Request(2).rqi = "smartplugbootstrap"
<1>1. Registration[1] = "create" /\ Registration[2] = "smartplugbootstrap"
  BY DEF Registration
<1>2. \A i \in 1..2 : Registration[i] \in {"create", "smartplugbootstrap"}
  BY <1>1
<1>3. 0 \in Selectors
  BY DEF Selectors
<1>4. \A i \in 1..2 : Request(i) \in Message
  BY <1>3 DEF Request, Message
<1>5. QED
  BY <1>1, <1>2, <1>4 DEF Request, Tells

LEMMA EventFacts ==
  ASSUME NEW n \in Selectors, NEW v \in BOOLEAN
  PROVE  /\ Event(n, v) \in Message /\ Tells(Event(n, v)) /\ Event(n, v).on = v
         /\ PowerOf(Event(n, v)) = IF n = 0 THEN Outlets ELSE {n}
  BY OutletsAssumption DEF Event, Message, Tells, PowerOf, Selectors

LEMMA ToldFacts ==
  ASSUME NEW n \in Selectors, NEW p \in [Outlets -> BOOLEAN],
         NEW rqi \in {"STATUS_REPORT", "POWER_SET"}
  PROVE  /\ Told(rqi, n, p) \in Message /\ Tells(Told(rqi, n, p))
         /\ PowerOf(Told(rqi, n, p)) = {n} \cap Outlets
         /\ \A k \in PowerOf(Told(rqi, n, p)) : Told(rqi, n, p).on = p[k]
<1> DEFINE on == IF n = 0 THEN None ELSE p[n]
<1>1. on \in BOOLEAN \cup {None}
  BY OutletsAssumption DEF Selectors
<1>2. Told(rqi, n, p) = [rqi |-> rqi, selector |-> n, on |-> on]
  BY DEF Told
<1>3. n # 0 => on = p[n]
  OBVIOUS
<1> HIDE DEF on
<1>4. Told(rqi, n, p) \in Message /\ Tells(Told(rqi, n, p))
  BY <1>1, <1>2 DEF Message, Tells
<1>5. PowerOf(Told(rqi, n, p)) = {n} \cap Outlets
  BY <1>2 DEF PowerOf
<1>6. \A k \in PowerOf(Told(rqi, n, p)) : Told(rqi, n, p).on = p[k]
  BY <1>2, <1>3, <1>5, OutletsAssumption
<1>7. QED
  BY <1>4, <1>5, <1>6

LEMMA IdleFacts ==
  /\ Idle \in Hand /\ Idle.pc = "idle" /\ Idle.verdict = None
  /\ PowerOf(Idle.msg) = {} /\ Reported(Idle.msg) = {}
<1>1. Request(1) \in Message /\ Request(1).selector = 0 /\ Request(1).rqi = "create"
  BY RequestFacts DEF Request
<1>2. Idle \in Hand
  BY <1>1 DEF Idle, Hand
<1>3. Idle.msg = Request(1)
  BY DEF Idle
<1>4. QED
  BY <1>1, <1>2, <1>3, OutletsAssumption DEF Idle, PowerOf, Reported

\* The outlets a message tells of are outlets, and one that tells of an outlet
\* names its power.
LEMMA PowerOfType == \A m \in Message : PowerOf(m) \subseteq Outlets
  BY DEF PowerOf

LEMMA AppendSent ==
  ASSUME up \in Seq(Message), NEW m \in Message, up' = Append(up, m), NEW n \in Outlets
  PROVE  /\ NoneSent(n)' <=> NoneSent(n) /\ n \notin PowerOf(m)
         /\ n \in PowerOf(m) /\ m.on = power'[n] => LastSentIsRight(n)'
         /\ n \notin PowerOf(m) /\ power'[n] = power[n] /\ LastSentIsRight(n)
              => LastSentIsRight(n)'
<1>1. /\ Len(up) \in Nat /\ DOMAIN up = 1..Len(up) /\ DOMAIN up' = 1..(Len(up) + 1)
      /\ \A i \in DOMAIN up : up'[i] = up[i]
      /\ up'[Len(up) + 1] = m
  OBVIOUS
<1>2. NoneSent(n)' <=> NoneSent(n) /\ n \notin PowerOf(m)
  BY <1>1 DEF NoneSent
<1>3. ASSUME n \in PowerOf(m), m.on = power'[n] PROVE LastSentIsRight(n)'
  <2>1. SUFFICES ASSUME NEW i \in DOMAIN up', n \in PowerOf(up'[i]),
                        \A j \in DOMAIN up' : j > i => n \notin PowerOf(up'[j])
                 PROVE  up'[i].on = power'[n]
    BY DEF LastSentIsRight
  <2>2. i = Len(up) + 1
    BY <1>1, <1>3, <2>1
  <2>3. QED
    BY <1>1, <1>3, <2>2
<1>4. ASSUME n \notin PowerOf(m), power'[n] = power[n], LastSentIsRight(n)
      PROVE  LastSentIsRight(n)'
  <2>1. SUFFICES ASSUME NEW i \in DOMAIN up', n \in PowerOf(up'[i]),
                        \A j \in DOMAIN up' : j > i => n \notin PowerOf(up'[j])
                 PROVE  up'[i].on = power'[n]
    BY DEF LastSentIsRight
  <2>2. i \in DOMAIN up /\ up'[i] = up[i]
    BY <1>1, <1>4, <2>1
  <2>3. \A j \in DOMAIN up : j > i => n \notin PowerOf(up[j])
    BY <1>1, <2>1
  <2>4. QED
    BY <1>4, <2>1, <2>2, <2>3 DEF LastSentIsRight
<1>5. QED
  BY <1>2, <1>3, <1>4

LEMMA TakeSent ==
  ASSUME up \in Seq(Message), up # << >>, up' = Tail(up), power' = power, NEW n \in Outlets,
         LastSentIsRight(n)
  PROVE  /\ Head(up) \in Message /\ up' \in Seq(Message)
         /\ LastSentIsRight(n)'
         /\ NoneSent(n) <=> NoneSent(n)' /\ n \notin PowerOf(Head(up))
         /\ NoneSent(n)' /\ n \in PowerOf(Head(up)) => Head(up).on = power[n]
<1>1. /\ Len(up) \in Nat \ {0} /\ DOMAIN up = 1..Len(up) /\ DOMAIN up' = 1..(Len(up) - 1)
      /\ \A i \in DOMAIN up' : up'[i] = up[i + 1]
      /\ Head(up) = up[1] /\ Head(up) \in Message /\ up' \in Seq(Message)
  <2>1. Len(up) \in Nat \ {0} /\ DOMAIN up = 1..Len(up)
    OBVIOUS
  <2>2. up' \in Seq(Message) /\ Len(up') = Len(up) - 1 /\ DOMAIN up' = 1..(Len(up) - 1)
    BY <2>1
  <2>3. \A i \in 1..(Len(up) - 1) : up'[i] = up[i + 1]
    BY <2>1
  <2>4. Head(up) = up[1] /\ Head(up) \in Message
    BY <2>1
  <2>5. QED
    BY <2>1, <2>2, <2>3, <2>4
<1>2. ASSUME NEW i \in DOMAIN up
      PROVE  i = 1 \/ (i - 1 \in DOMAIN up' /\ up[i] = up'[i - 1])
  <2>1. i \in Nat /\ i >= 1 /\ i <= Len(up) /\ Len(up) \in Nat
    BY <1>1
  <2>2. CASE i # 1
    <3> DEFINE k == i - 1
    <3>1. k \in 1..(Len(up) - 1) /\ k + 1 = i
      BY <2>1, <2>2
    <3>2. k \in DOMAIN up' /\ up'[k] = up[k + 1]
      BY <1>1, <3>1
    <3>3. QED
      BY <3>1, <3>2
  <2>3. QED
    BY <2>2
<1>3. NoneSent(n) <=> NoneSent(n)' /\ n \notin PowerOf(Head(up))
  <2>1. ASSUME NoneSent(n) PROVE NoneSent(n)' /\ n \notin PowerOf(Head(up))
    <3>1. 1 \in DOMAIN up /\ \A i \in DOMAIN up' : i + 1 \in DOMAIN up
      BY <1>1
    <3>2. QED
      BY <1>1, <2>1, <3>1 DEF NoneSent
  <2>2. ASSUME NoneSent(n)', n \notin PowerOf(Head(up)) PROVE NoneSent(n)
    <3>1. ASSUME NEW i \in DOMAIN up PROVE n \notin PowerOf(up[i])
      <4>1. CASE i = 1
        BY <1>1, <2>2, <4>1
      <4>2. CASE i # 1
        BY <1>2, <2>2, <4>2 DEF NoneSent
      <4>3. QED
        BY <4>1, <4>2
    <3>2. QED
      BY <3>1 DEF NoneSent
  <2>3. QED
    BY <2>1, <2>2
<1>4. LastSentIsRight(n)'
  <2>1. SUFFICES ASSUME NEW i \in DOMAIN up', n \in PowerOf(up'[i]),
                        \A j \in DOMAIN up' : j > i => n \notin PowerOf(up'[j])
                 PROVE  up'[i].on = power'[n]
    BY DEF LastSentIsRight
  <2>2. i + 1 \in DOMAIN up /\ up'[i] = up[i + 1]
    BY <1>1
  <2>3. ASSUME NEW j \in DOMAIN up, j > i + 1 PROVE n \notin PowerOf(up[j])
    <3>1. j \in Nat /\ i \in Nat /\ i >= 1
      BY <1>1, <2>3
    <3>2. j # 1 /\ j - 1 > i
      BY <2>3, <3>1
    <3>3. j - 1 \in DOMAIN up' /\ up[j] = up'[j - 1]
      BY <1>2, <3>2
    <3>4. QED
      BY <2>1, <3>2, <3>3
  <2>4. QED
    BY <2>1, <2>2, <2>3 DEF LastSentIsRight
<1>5. ASSUME NoneSent(n)', n \in PowerOf(Head(up)) PROVE Head(up).on = power[n]
  <2>1. 1 \in DOMAIN up /\ up[1] = Head(up)
    BY <1>1
  <2>2. ASSUME NEW j \in DOMAIN up, j > 1 PROVE n \notin PowerOf(up[j])
    <3>1. j # 1
      BY <2>2
    <3>2. QED
      BY <1>2, <1>5, <3>1 DEF NoneSent
  <2>3. QED
    BY <1>5, <2>1, <2>2 DEF LastSentIsRight
<1>6. QED
  BY <1>1, <1>3, <1>4, <1>5

-----------------------------------------------------------------------------
(***************************************************************************)
(* Steps of the device.                                                    *)
(***************************************************************************)

\* A connection is up, and its device registered, while the view is its own.
LEMMA OwnIsRegistered ==
  TelemetryInv /\ view = "own" => link /\ answered = 2
  BY DEF TelemetryInv, TypeOK, OwnViewIsRight

\* What concerns the registration depends on.
LEMMA RegistrationFrame ==
  ASSUME RegistersFirst, UNCHANGED <<link, asked, answered, owed, up>>,
         hand'["present"].pc = hand["present"].pc,
         hand'["present"].pc \in {"feed", "default"} =>
           hand'["present"].msg = hand["present"].msg
  PROVE  RegistersFirst'
  BY DEF RegistersFirst

LEMMA ConnectKeeps ==
  ASSUME TelemetryInv, Connect PROVE TelemetryInv'
<1>1. /\ asked = 0 /\ answered = 0 /\ owed = {} /\ down = None /\ view = "none"
  BY DEF TelemetryInv, TypeOK, Connect
<1>2. /\ hand' \in [Threads -> Hand] /\ hand'["present"].pc = "idle"
  BY IdleFacts DEF TelemetryInv, TypeOK, Connect, Threads
<1>3. up' \in Seq(Message) /\ Len(up') <= MaxSent
  BY MaxSentAssumption DEF Connect
<1>4. TypeOK'
  BY <1>1, <1>2, <1>3 DEF TelemetryInv, TypeOK, Connect
<1>5. RegistersFirst'
  BY <1>1, <1>2 DEF RegistersFirst, Connect
<1>6. OwnViewIsRight'
  BY <1>1 DEF OwnViewIsRight, Connect
<1>7. QED
  BY <1>4, <1>5, <1>6 DEF TelemetryInv

LEMMA LoseKeeps ==
  ASSUME TelemetryInv, Lose PROVE TelemetryInv'
<1>1. up' \in Seq(Message) /\ Len(up') <= MaxSent
  <2>1. PICK k \in 0..Len(up) : up' = SubSeq(up, 1, k)
    BY DEF Lose
  <2>2. up \in Seq(Message) /\ Len(up) <= MaxSent /\ Len(up) \in Nat
    BY DEF TelemetryInv, TypeOK
  <2>3. k \in Nat /\ k <= Len(up)
    BY <2>2
  <2>4. up' \in Seq(Message) /\ Len(up') = k
    BY <2>1, <2>2, <2>3
  <2>5. QED
    BY <2>2, <2>3, <2>4, MaxSentAssumption
<1>2. TypeOK'
  BY <1>1 DEF TelemetryInv, TypeOK, Lose, Disconnected
<1>3. RegistersFirst' /\ OwnViewIsRight'
  BY DEF RegistersFirst, OwnViewIsRight, Lose, Disconnected
<1>4. QED
  BY <1>2, <1>3 DEF TelemetryInv

LEMMA RegisterKeeps ==
  ASSUME TelemetryInv, Register PROVE TelemetryInv'
<1>1. /\ link /\ answered \in 0..1 /\ asked = answered /\ asked' = asked + 1
      /\ owed = {} /\ up = << >> /\ hand["present"].pc = "idle"
  BY DEF TelemetryInv, TypeOK, RegistersFirst, Register
<1>2. Request(asked') \in Message /\ asked' \in 1..2
  BY <1>1, RequestFacts
<1>3. up' = <<Request(asked')>>
  BY <1>1 DEF Register
<1>4. up' \in Seq(Message) /\ Len(up') = 1
  BY <1>2, <1>3
<1>5. TypeOK'
  BY <1>1, <1>4, MaxSentAssumption DEF TelemetryInv, TypeOK, Register
<1>6. RegistersFirst'
  BY <1>1, <1>3 DEF RegistersFirst, Register
<1>7. view # "own"
  BY <1>1, OwnIsRegistered
<1>8. OwnViewIsRight'
  BY <1>7 DEF OwnViewIsRight, Register
<1>9. QED
  BY <1>5, <1>6, <1>8 DEF TelemetryInv

\* What a registered device sends is right about what it tells of, and what
\* else it switched is not told.
LEMMA SendKeeps ==
  ASSUME TelemetryInv, link, answered = 2,
         NEW m \in Message, Tells(m), NEW about, Send(m, about),
         \A n \in Outlets : (n \in PowerOf(m) <=> n \in about)
                              /\ (n \in PowerOf(m) => m.on = power'[n]),
         UNCHANGED <<link, asked, answered, hand, entry, cache, view>>
  PROVE  /\ up' \in Seq(Message) /\ Len(up') <= MaxSent
         /\ untold' \subseteq Outlets
         /\ RegistersFirst'
         /\ OwnViewIsRight'
<1>0. /\ Len(up) < MaxSent /\ up' = Append(up, m)
      /\ \A n \in Outlets \ untold' :
           n \in PowerOf(m) \/ (n \notin untold /\ power'[n] = power[n])
      /\ untold' \subseteq Outlets
  BY DEF Send
<1>1. up \in Seq(Message) /\ Len(up) \in Nat
  BY DEF TelemetryInv, TypeOK
<1>2. /\ up' \in Seq(Message) /\ Len(up') = Len(up) + 1
      /\ DOMAIN up' = 1..(Len(up) + 1) /\ DOMAIN up = 1..Len(up)
      /\ \A i \in DOMAIN up : up'[i] = up[i]
      /\ up'[Len(up) + 1] = m
  BY <1>0, <1>1
<1>3. Len(up') <= MaxSent
  BY <1>0, <1>1, <1>2, MaxSentAssumption
<1>4. RegistersFirst'
  <2>1. /\ \A i \in DOMAIN up : Tells(up[i])
        /\ hand["present"].pc \in {"feed", "default"} => Tells(hand["present"].msg)
    BY DEF TelemetryInv, RegistersFirst
  <2>2. ASSUME NEW i \in DOMAIN up' PROVE Tells(up'[i])
    <3>1. i \in DOMAIN up \/ i = Len(up) + 1
      BY <1>1, <1>2
    <3>2. CASE i \in DOMAIN up
      BY <1>2, <2>1, <3>2
    <3>3. CASE i = Len(up) + 1
      BY <1>2, <3>3
    <3>4. QED
      BY <3>1, <3>2, <3>3
  <2>3. answered' = 2 /\ asked' = 2 /\ hand' = hand
    BY DEF TelemetryInv, TypeOK
  <2>4. QED
    BY <2>1, <2>2, <2>3 DEF RegistersFirst
<1>5. OwnViewIsRight'
  <2>1. SUFFICES ASSUME view = "own" PROVE OwnViewIsRight'
    BY DEF OwnViewIsRight
  <2>2. /\ hand["present"].verdict = None
        /\ cache.status_complete => cache.seen = Selectors
        /\ \A n \in Outlets \ untold :
             LastSentIsRight(n) /\ HandIsRight(n) /\ EntryIsRight(n)
    BY <2>1 DEF TelemetryInv, OwnViewIsRight
  <2>3. ASSUME NEW n \in Outlets \ untold'
        PROVE  LastSentIsRight(n)' /\ HandIsRight(n)' /\ EntryIsRight(n)'
    <3>1. CASE n \in PowerOf(m)
      <4>1. m.on = power'[n] /\ n \in Outlets
        BY <3>1
      <4>2. LastSentIsRight(n)' /\ ~NoneSent(n)'
        BY <1>0, <1>1, <3>1, <4>1, AppendSent
      <4>3. QED
        BY <4>2 DEF HandIsRight, EntryIsRight
    <3>2. CASE n \notin PowerOf(m)
      <4>1. n \in Outlets /\ n \notin untold /\ power'[n] = power[n]
        BY <1>0, <3>2
      <4>2. LastSentIsRight(n) /\ HandIsRight(n) /\ EntryIsRight(n)
        BY <2>2, <4>1
      <4>3. LastSentIsRight(n)' /\ (NoneSent(n)' => NoneSent(n))
        BY <1>0, <1>1, <3>2, <4>1, <4>2, AppendSent
      <4>4. HandIsRight(n)'
        BY <4>1, <4>2, <4>3 DEF HandIsRight, InHand
      <4>5. EntryIsRight(n)'
        BY <4>1, <4>2, <4>3 DEF EntryIsRight, InHand, Joining
      <4>6. QED
        BY <4>3, <4>4, <4>5
    <3>3. QED
      BY <3>1, <3>2
  <2>4. QED
    BY <2>2, <2>3 DEF OwnViewIsRight
<1>6. QED
  BY <1>0, <1>2, <1>3, <1>4, <1>5

LEMMA PressKeeps ==
  ASSUME TelemetryInv, NEW n \in Switched, NEW v \in BOOLEAN, Press(n, v)
  PROVE  TelemetryInv'
<1>1. n \in Selectors /\ power \in [Outlets -> BOOLEAN]
  BY OutletsAssumption DEF Selectors, TelemetryInv, TypeOK
<1>2. /\ power' \in [Outlets -> BOOLEAN]
      /\ \A m \in Outlets : power'[m] = IF n \in {0, m} THEN v ELSE power[m]
  BY <1>1 DEF Press, Turned
<1>3. CASE Registered
  <2> DEFINE about == IF n = 0 THEN Outlets ELSE {n}
  <2>1. \A k \in Outlets : (k \in PowerOf(Event(n, v)) <=> k \in about)
          /\ (k \in PowerOf(Event(n, v)) => Event(n, v).on = power'[k])
    BY <1>1, <1>2, EventFacts
  <2>2. /\ link /\ answered = 2 /\ Send(Event(n, v), about)
        /\ UNCHANGED <<link, asked, answered, owed, down, hand, entry, cache, view>>
    BY <1>3 DEF Press, Registered
  <2> HIDE DEF about
  <2>3. Event(n, v) \in Message /\ Tells(Event(n, v))
    BY <1>1, EventFacts
  <2>4. /\ up' \in Seq(Message) /\ Len(up') <= MaxSent /\ untold' \subseteq Outlets
        /\ RegistersFirst' /\ OwnViewIsRight'
    BY <2>1, <2>2, <2>3, SendKeeps
  <2>5. TypeOK'
    BY <1>2, <2>2, <2>4 DEF TelemetryInv, TypeOK
  <2>6. QED
    BY <2>4, <2>5 DEF TelemetryInv
<1>4. CASE ~Registered
  <2>1. UNCHANGED <<link, asked, answered, owed, untold, up, down, hand, entry, cache, view>>
    BY <1>4 DEF Press
  <2>2. view # "own"
    BY <1>4, OwnIsRegistered DEF Registered
  <2>3. TypeOK'
    BY <1>2, <2>1 DEF TelemetryInv, TypeOK
  <2>4. RegistersFirst'
    BY <2>1, RegistrationFrame DEF TelemetryInv
  <2>5. OwnViewIsRight'
    BY <2>1, <2>2 DEF OwnViewIsRight
  <2>6. QED
    BY <2>3, <2>4, <2>5 DEF TelemetryInv
<1>5. QED
  BY <1>3, <1>4

\* What the invariant says but for the switches and what is under way depends
\* on nothing that an order to the device, or its reply, changes.
LEMMA OrderKeeps ==
  ASSUME TelemetryInv, link, answered = 2, owed' \subseteq Selectors,
         down' \in Control \cup {None},
         UNCHANGED <<power, link, asked, answered, untold, up, hand, entry, cache, view>>
  PROVE  TelemetryInv'
<1>1. TypeOK'
  BY DEF TelemetryInv, TypeOK
<1>2. asked = 2
  BY DEF TelemetryInv, TypeOK
<1>3. RegistersFirst'
  BY <1>2 DEF TelemetryInv, RegistersFirst
<1>4. OwnViewIsRight'
  BY DEF TelemetryInv, OwnViewIsRight, LastSentIsRight, HandIsRight, EntryIsRight,
         NoneSent, InHand, Joining
<1>5. QED
  BY <1>1, <1>3, <1>4 DEF TelemetryInv

LEMMA ExecuteKeeps ==
  ASSUME TelemetryInv, Execute PROVE TelemetryInv'
<1>1. /\ link /\ answered = 2 /\ down # None /\ owed = {} /\ Len(up) < MaxSent /\ down' = None
      /\ UNCHANGED <<link, asked, answered, hand, entry, cache, view>>
  BY DEF Execute, Registered
<1>2. down.outlet \in Selectors /\ down.on \in BOOLEAN
  BY <1>1 DEF TelemetryInv, TypeOK, Control
<1>3. CASE owed' \subseteq Selectors /\ UNCHANGED <<power, up, untold>>
  BY <1>1, <1>3, OrderKeeps
<1>4. CASE /\ power' = Turned(down.outlet, down.on)
           /\ Send(Told("POWER_SET", down.outlet, power'), {down.outlet} \cap Outlets)
           /\ UNCHANGED owed
  <2>1. power' \in [Outlets -> BOOLEAN] /\ owed' = {}
    BY <1>1, <1>2, <1>4 DEF Turned, TelemetryInv, TypeOK
  <2> DEFINE m == Told("POWER_SET", down.outlet, power')
             about == {down.outlet} \cap Outlets
  <2>2. /\ m \in Message /\ Tells(m) /\ PowerOf(m) = about
        /\ \A k \in PowerOf(m) : m.on = power'[k]
    BY <1>2, <2>1, ToldFacts
  <2>3. Send(m, about)
    BY <1>4
  <2> HIDE DEF m, about
  <2>4. /\ up' \in Seq(Message) /\ Len(up') <= MaxSent /\ untold' \subseteq Outlets
        /\ RegistersFirst' /\ OwnViewIsRight'
    BY <1>1, <2>2, <2>3, SendKeeps
  <2>5. TypeOK'
    BY <1>1, <2>1, <2>4 DEF TelemetryInv, TypeOK
  <2>6. QED
    BY <2>4, <2>5 DEF TelemetryInv
<1>5. QED
  BY <1>1, <1>3, <1>4 DEF Execute

LEMMA ReportKeeps ==
  ASSUME TelemetryInv, Report PROVE TelemetryInv'
<1>1. PICK n \in owed :
        /\ Send(Told("STATUS_REPORT", n, power), {n} \cap Outlets)
        /\ owed' = owed \ {n}
  BY DEF Report
<1>2. UNCHANGED <<power, link, asked, answered, down, hand, entry, cache, view>>
  BY DEF Report
<1>3. n \in Selectors /\ link /\ answered = 2 /\ power \in [Outlets -> BOOLEAN]
  BY DEF TelemetryInv, TypeOK, RegistersFirst
<1> DEFINE m == Told("STATUS_REPORT", n, power)
           about == {n} \cap Outlets
<1>4. /\ m \in Message /\ Tells(m) /\ PowerOf(m) = about
      /\ \A k \in PowerOf(m) : m.on = power[k]
  BY <1>3, ToldFacts
<1>5. Send(m, about)
  BY <1>1
<1> HIDE DEF m, about
<1>6. /\ up' \in Seq(Message) /\ Len(up') <= MaxSent /\ untold' \subseteq Outlets
      /\ RegistersFirst' /\ OwnViewIsRight'
  BY <1>2, <1>3, <1>4, <1>5, SendKeeps
<1>7. TypeOK'
  BY <1>1, <1>2, <1>3, <1>6 DEF TelemetryInv, TypeOK
<1>8. QED
  BY <1>6, <1>7 DEF TelemetryInv

LEMMA InjectKeeps ==
  ASSUME TelemetryInv, NEW c \in Command, OnLocalInject(c) PROVE TelemetryInv'
<1>1. ControlOf(c) \in Control
  BY OutletsAssumption DEF ControlOf, Control, Command, Selectors, TelemetryInv, TypeOK
<1>2. /\ link /\ down' = ControlOf(c)
      /\ UNCHANGED <<deviceVars, up, hand, entry, cache, view>>
  BY DEF OnLocalInject
<1>3. TypeOK'
  BY <1>1, <1>2 DEF TelemetryInv, TypeOK, deviceVars
<1>4. RegistersFirst'
  BY <1>2, RegistrationFrame DEF TelemetryInv, deviceVars
<1>5. OwnViewIsRight'
  BY <1>2 DEF TelemetryInv, deviceVars, OwnViewIsRight, LastSentIsRight, HandIsRight,
              EntryIsRight, NoneSent, InHand, Joining
<1>6. QED
  BY <1>3, <1>4, <1>5 DEF TelemetryInv

-----------------------------------------------------------------------------
(***************************************************************************)
(* Steps of the threads.                                                   *)
(***************************************************************************)

LEMMA ThreadsFacts == /\ "present" \in Threads /\ "former" \in Threads
                      /\ "present" # "former"
                      /\ \A r \in Threads : r = "present" \/ r = "former"
  BY DEF Threads

\* A step that touches the cache ends the view of its own, or was made for the
\* present connection.
LEMMA TouchFacts ==
  ASSUME TelemetryInv, NEW r \in Threads, Touch(r)
  PROVE  /\ view' \in {"none", "own", "mixed"}
         /\ ~link => view' = "none"
         /\ view' = "own" => view = "own" /\ r = "present"
  BY DEF Touch, Threads, TelemetryInv, TypeOK

LEMMA TakeKeeps ==
  ASSUME TelemetryInv, Take PROVE TelemetryInv'
<1>1. /\ hand["present"].pc = "idle" /\ up # << >> /\ up' = Tail(up)
      /\ UNCHANGED <<power, link, asked, answered, owed, untold, down, entry, cache, view>>
  BY DEF Take, deviceVars
<1>2. /\ up \in Seq(Message) /\ hand \in [Threads -> Hand] /\ Len(up) \in Nat
      /\ Len(up) <= MaxSent
  BY DEF TelemetryInv, TypeOK
<1>3. Head(up) \in Message /\ up' \in Seq(Message) /\ Len(up') = Len(up) - 1
  BY <1>1, <1>2
<1>4. Len(up') <= MaxSent
  BY <1>2, <1>3, MaxSentAssumption
<1>5. /\ hand' \in [Threads -> Hand]
      /\ hand'["present"].pc = "feed" /\ hand'["present"].msg = Head(up)
      /\ hand'["present"].verdict = None
  <2> DEFINE h == [Idle EXCEPT !.pc = "feed", !.msg = Head(up)]
  <2>1. h \in Hand
    BY <1>3, IdleFacts DEF Hand
  <2>2. h.pc = "feed" /\ h.msg = Head(up) /\ h.verdict = None
    BY IdleFacts DEF Idle
  <2>3. hand' = [hand EXCEPT !["present"] = h]
    BY DEF Take
  <2> HIDE DEF h
  <2>4. QED
    BY <1>2, <2>1, <2>2, <2>3, ThreadsFacts
<1>6. TypeOK'
  BY <1>1, <1>3, <1>4, <1>5 DEF TelemetryInv, TypeOK
<1>7. RegistersFirst'
  <2>1. SUFFICES ASSUME link PROVE RegistersFirst'
    BY <1>1 DEF RegistersFirst
  <2>2. CASE answered = 2
    <3>1. asked = 2
      BY <2>2 DEF TelemetryInv, TypeOK
    <3>2. \A i \in DOMAIN up : Tells(up[i])
      BY <2>1, <2>2 DEF TelemetryInv, RegistersFirst
    <3>3. Tells(Head(up)) /\ \A i \in DOMAIN up' : Tells(up'[i])
      <4>1. 1 \in DOMAIN up /\ Head(up) = up[1]
        BY <1>1, <1>2
      <4>2. \A i \in DOMAIN up' : i + 1 \in DOMAIN up /\ up'[i] = up[i + 1]
        BY <1>1, <1>2, <1>3
      <4>3. QED
        BY <3>2, <4>1, <4>2
    <3>4. QED
      BY <1>1, <1>5, <2>2, <3>1, <3>3 DEF RegistersFirst
  <2>3. CASE answered # 2
    <3>1. owed = {} /\ asked # answered /\ up = <<Request(asked)>>
      BY <1>1, <2>1, <2>3 DEF TelemetryInv, RegistersFirst
    <3>2. Head(up) = Request(asked) /\ up' = << >>
      BY <1>1, <3>1
    <3>3. QED
      BY <1>1, <1>5, <2>3, <3>1, <3>2 DEF RegistersFirst
  <2>4. QED
    BY <2>2, <2>3
<1>8. OwnViewIsRight'
  <2>1. SUFFICES ASSUME view = "own" PROVE OwnViewIsRight'
    BY <1>1 DEF OwnViewIsRight
  <2>2. /\ answered = 2
        /\ cache.status_complete => cache.seen = Selectors
        /\ \A n \in Outlets \ untold : LastSentIsRight(n) /\ EntryIsRight(n)
    BY <2>1 DEF TelemetryInv, OwnViewIsRight
  <2>3. ASSUME NEW n \in Outlets \ untold
        PROVE  LastSentIsRight(n)' /\ HandIsRight(n)' /\ EntryIsRight(n)'
    <3>1. /\ LastSentIsRight(n)'
          /\ NoneSent(n) <=> NoneSent(n)' /\ n \notin PowerOf(Head(up))
          /\ NoneSent(n)' /\ n \in PowerOf(Head(up)) => Head(up).on = power[n]
      BY <1>1, <1>2, <2>2, TakeSent
    <3>2. HandIsRight(n)'
      BY <1>1, <1>5, <3>1 DEF HandIsRight, InHand
    <3>3. EntryIsRight(n)'
      BY <1>1, <1>5, <2>2, <3>1 DEF EntryIsRight, InHand, Joining
    <3>4. QED
      BY <3>1, <3>2, <3>3
  <2>4. QED
    BY <1>1, <1>5, <2>2, <2>3 DEF OwnViewIsRight
<1>9. QED
  BY <1>6, <1>7, <1>8 DEF TelemetryInv

\* What a report is about, the feed notes as well.
LEMMA ReportedIsTold ==
  ASSUME NEW m \in Message
  PROVE  /\ Reported(m) \subseteq Selectors
         /\ \A n \in Outlets : n \in Reported(m) => n \in PowerOf(m)
  BY DEF Reported, PowerOf, Message

LEMMA FeedKeeps ==
  ASSUME TelemetryInv, NEW r \in Threads, Feed(r) PROVE TelemetryInv'
<1>1. /\ hand[r].pc = "feed" /\ entry' = MergeDelta(entry, hand[r].msg) /\ Touch(r)
      /\ hand' = [hand EXCEPT ![r].pc = "default", ![r].msg.on = None]
      /\ UNCHANGED <<power, link, asked, answered, owed, untold, up, down, cache>>
  BY DEF Feed, deviceVars
<1>2. hand \in [Threads -> Hand] /\ hand[r] \in Hand /\ hand[r].msg \in Message
  BY DEF TelemetryInv, TypeOK, Hand
<1>3. /\ hand' \in [Threads -> Hand]
      /\ hand'[r] = [hand[r] EXCEPT !.pc = "default", !.msg.on = None]
      /\ \A q \in Threads : q # r => hand'[q] = hand[q]
  <2>1. [hand[r] EXCEPT !.pc = "default", !.msg.on = None] \in Hand
    BY <1>2 DEF Hand, Message
  <2>2. QED
    BY <1>1, <1>2, <2>1
<1>4. /\ hand'[r].pc = "default" /\ hand'[r].verdict = hand[r].verdict
      /\ Reported(hand'[r].msg) = Reported(hand[r].msg)
      /\ Tells(hand[r].msg) => Tells(hand'[r].msg)
      /\ \A i \in 1..2 : hand[r].msg = Request(i) => hand'[r].msg = Request(i)
  <2>1. /\ hand'[r].pc = "default" /\ hand'[r].verdict = hand[r].verdict
        /\ hand'[r].msg = [hand[r].msg EXCEPT !.on = None]
    BY <1>2, <1>3 DEF Hand
  <2>2. /\ hand'[r].msg.rqi = hand[r].msg.rqi
        /\ hand'[r].msg.selector = hand[r].msg.selector
    BY <1>2, <2>1 DEF Message
  <2>3. ASSUME NEW i \in 1..2, hand[r].msg = Request(i) PROVE hand'[r].msg = Request(i)
    BY <2>1, <2>3 DEF Request
  <2>4. QED
    BY <2>1, <2>2, <2>3 DEF Reported, Tells
<1>5. /\ entry' \in [Outlets -> BOOLEAN \cup {None}]
      /\ \A n \in Outlets : entry'[n] = IF n \in PowerOf(hand[r].msg) THEN hand[r].msg.on
                                        ELSE entry[n]
  <2>1. hand[r].msg.on \in BOOLEAN \cup {None}
    BY <1>2 DEF Message
  <2>2. entry \in [Outlets -> BOOLEAN \cup {None}]
    BY DEF TelemetryInv, TypeOK
  <2>3. QED
    BY <1>1, <2>1, <2>2 DEF MergeDelta
<1>6. TypeOK'
  BY <1>1, <1>3, <1>5, TouchFacts DEF TelemetryInv, TypeOK
<1>7. RegistersFirst'
  <2>1. CASE r = "present"
    <3>1. SUFFICES ASSUME link PROVE RegistersFirst'
      BY <1>1 DEF RegistersFirst
    <3>2. CASE answered = 2
      <4>1. /\ \A i \in DOMAIN up : Tells(up[i])
            /\ Tells(hand["present"].msg)
        BY <1>1, <2>1, <3>1, <3>2 DEF TelemetryInv, RegistersFirst
      <4>2. answered' = 2 /\ asked' = 2 /\ up' = up /\ Tells(hand'["present"].msg)
        BY <1>1, <1>4, <2>1, <3>2, <4>1 DEF TelemetryInv, TypeOK
      <4>3. QED
        BY <4>1, <4>2 DEF RegistersFirst
    <3>3. CASE answered # 2
      <4>1. owed = {} /\ asked # answered /\ asked \in 1..2
        BY <1>1, <2>1, <3>1, <3>3 DEF TelemetryInv, TypeOK, RegistersFirst
      <4>2. up = << >> /\ hand["present"].msg = Request(asked)
        BY <1>1, <2>1, <3>1, <3>3, <4>1 DEF TelemetryInv, RegistersFirst
      <4>3. QED
        BY <1>1, <1>4, <2>1, <3>3, <4>1, <4>2 DEF RegistersFirst
    <3>4. QED
      BY <3>2, <3>3
  <2>2. CASE r # "present"
    BY <1>1, <1>3, <2>2, ThreadsFacts, RegistrationFrame DEF TelemetryInv
  <2>3. QED
    BY <2>1, <2>2
<1>8. OwnViewIsRight'
  <2>1. SUFFICES ASSUME view' = "own" PROVE OwnViewIsRight'
    BY DEF OwnViewIsRight
  <2>2. view = "own" /\ r = "present"
    BY <1>1, <2>1, TouchFacts
  <2>3. /\ answered = 2 /\ hand["present"].verdict = None
        /\ cache.status_complete => cache.seen = Selectors
        /\ \A n \in Outlets \ untold :
             LastSentIsRight(n) /\ HandIsRight(n) /\ EntryIsRight(n)
    BY <2>2 DEF TelemetryInv, OwnViewIsRight
  <2>4. ASSUME NEW n \in Outlets \ untold
        PROVE  LastSentIsRight(n)' /\ HandIsRight(n)' /\ EntryIsRight(n)'
    <3>1. LastSentIsRight(n)' /\ (NoneSent(n)' <=> NoneSent(n))
      BY <1>1, <2>3 DEF LastSentIsRight, NoneSent
    <3>2. HandIsRight(n)'
      BY <1>4, <2>2 DEF HandIsRight, InHand
    <3>3. SUFFICES ASSUME n \in cache.seen \/ n \in Reported(hand["present"].msg),
                          NoneSent(n)
                   PROVE  entry'[n] = power[n]
      BY <1>1, <1>4, <2>2, <3>1, <3>2 DEF EntryIsRight, Joining
    <3>4. CASE n \in PowerOf(hand["present"].msg)
      BY <1>1, <1>5, <2>2, <2>3, <3>3, <3>4 DEF HandIsRight, InHand
    <3>5. CASE n \notin PowerOf(hand["present"].msg)
      <4>1. n \in cache.seen
        BY <1>2, <2>2, <3>3, <3>5, ReportedIsTold
      <4>2. QED
        BY <1>5, <2>2, <2>3, <3>3, <3>5, <4>1 DEF EntryIsRight, InHand
    <3>6. QED
      BY <3>4, <3>5
  <2>5. QED
    BY <1>1, <1>4, <2>2, <2>3, <2>4 DEF OwnViewIsRight
<1>9. QED
  BY <1>6, <1>7, <1>8 DEF TelemetryInv

\* A thread that goes back to idle changes nothing for the other.
LEMMA IdleStep ==
  ASSUME hand \in [Threads -> Hand], NEW r \in Threads, hand' = [hand EXCEPT ![r] = Idle]
  PROVE  /\ hand' \in [Threads -> Hand] /\ hand'[r] = Idle
         /\ \A q \in Threads : q # r => hand'[q] = hand[q]
  BY IdleFacts

\* A request of a registration that the present connection's thread has in hand
\* is the one its device waits for.
LEMMA RequestInHand ==
  ASSUME TelemetryInv, link, hand["present"].pc \in {"feed", "default"},
         ~Tells(hand["present"].msg)
  PROVE  /\ answered # 2 /\ asked = answered + 1 /\ asked \in 1..2
         /\ up = << >> /\ owed = {} /\ hand["present"].msg = Request(asked)
<1>1. answered # 2
  BY DEF TelemetryInv, RegistersFirst
<1>2. asked # answered /\ owed = {}
  BY <1>1 DEF TelemetryInv, RegistersFirst
<1>3. up = << >> /\ hand["present"].msg = Request(asked)
  BY <1>2 DEF TelemetryInv, RegistersFirst
<1>4. asked = answered + 1 /\ asked \in 1..2
  BY <1>2 DEF TelemetryInv, TypeOK
<1>5. QED
  BY <1>1, <1>2, <1>3, <1>4

\* A step that changes nothing, but for the former connection's thread.
LEMMA FormerReplies ==
  ASSUME TelemetryInv, hand' \in [Threads -> Hand], hand'["present"] = hand["present"],
         UNCHANGED <<deviceVars, up, down, entry, cache, view>>
  PROVE  TelemetryInv'
<1>1. TypeOK'
  BY DEF TelemetryInv, TypeOK, deviceVars
<1>2. RegistersFirst'
  BY RegistrationFrame DEF TelemetryInv, deviceVars
<1>3. OwnViewIsRight'
  BY DEF TelemetryInv, deviceVars, OwnViewIsRight, LastSentIsRight, HandIsRight,
         EntryIsRight, NoneSent, InHand, Joining
<1>4. QED
  BY <1>1, <1>2, <1>3 DEF TelemetryInv

LEMMA AnswerKeeps ==
  ASSUME TelemetryInv, NEW r \in Threads, Answer(r) PROVE TelemetryInv'
<1>1. /\ hand[r].pc = "default" /\ hand[r].msg.rqi = "create" /\ ~Tells(hand[r].msg)
      /\ hand' = [hand EXCEPT ![r] = Idle]
      /\ answered' = IF r = "present" /\ link THEN asked ELSE answered
      /\ UNCHANGED <<power, link, asked, owed, untold, up, down, entry, cache, view>>
  BY DEF Answer, Reply, Tells
<1>2. hand \in [Threads -> Hand]
  BY DEF TelemetryInv, TypeOK
<1>3. /\ hand' \in [Threads -> Hand] /\ hand'[r] = Idle
      /\ \A q \in Threads : q # r => hand'[q] = hand[q]
  BY <1>1, <1>2, IdleStep
<1>4. CASE r = "present" /\ link
  <2>1. /\ answered # 2 /\ asked \in 1..2 /\ up = << >> /\ owed = {}
        /\ hand["present"].msg = Request(asked)
    BY <1>1, <1>4, RequestInHand
  <2>2. asked = 1
    BY <1>1, <1>4, <2>1, RequestFacts
  <2>3. view # "own"
    BY <2>1, OwnIsRegistered
  <2>4. TypeOK'
    BY <1>1, <1>3, <1>4, <2>2 DEF TelemetryInv, TypeOK
  <2>5. RegistersFirst'
    BY <1>1, <1>3, <1>4, <2>1, <2>2, IdleFacts DEF RegistersFirst
  <2>6. OwnViewIsRight'
    BY <1>1, <2>3 DEF OwnViewIsRight
  <2>7. QED
    BY <2>4, <2>5, <2>6 DEF TelemetryInv
<1>5. CASE ~link
  <2>1. view' # "own"
    BY <1>1, <1>5 DEF TelemetryInv, TypeOK
  <2>2. TypeOK'
    BY <1>1, <1>3, <1>5 DEF TelemetryInv, TypeOK
  <2>3. RegistersFirst' /\ OwnViewIsRight'
    BY <1>1, <1>5, <2>1 DEF RegistersFirst, OwnViewIsRight
  <2>4. QED
    BY <2>2, <2>3 DEF TelemetryInv
<1>6. CASE r # "present"
  <2>1. hand'["present"] = hand["present"]
    BY <1>3, <1>6, ThreadsFacts
  <2>2. UNCHANGED <<deviceVars, up, down, entry, cache, view>>
    BY <1>1, <1>6 DEF deviceVars
  <2>3. QED
    BY <1>3, <2>1, <2>2, FormerReplies
<1>7. QED
  BY <1>4, <1>5, <1>6

\* The bootstrap, in the loaded instance: another thread may have its verdict.
LEMMA BootstrapHand ==
  ASSUME hand \in [Threads -> Hand], NEW r \in Threads,
         hand' = [q \in Threads |->
                   IF q = r THEN Idle
                   ELSE IF hand[q].pc # "settle" \/ hand[q].verdict # None THEN hand[q]
                   ELSE [hand[q] EXCEPT !.verdict = cache.seen = Selectors]]
  PROVE  /\ hand' \in [Threads -> Hand] /\ hand'[r] = Idle
         /\ \A q \in Threads : q # r => /\ hand'[q].pc = hand[q].pc
                                        /\ hand'[q].msg = hand[q].msg
<1> DEFINE V == (cache.seen = Selectors)
<1>1. V \in BOOLEAN
  OBVIOUS
<1>2. \A q \in Threads : hand'[q] = IF q = r THEN Idle
                   ELSE IF hand[q].pc # "settle" \/ hand[q].verdict # None THEN hand[q]
                   ELSE [hand[q] EXCEPT !.verdict = V]
  OBVIOUS
<1>3. DOMAIN hand' = Threads /\ hand' = [q \in Threads |-> hand'[q]]
  OBVIOUS
<1> HIDE DEF V
<1>4. ASSUME NEW q \in Threads
      PROVE  /\ [hand[q] EXCEPT !.verdict = V] \in Hand
             /\ [hand[q] EXCEPT !.verdict = V].pc = hand[q].pc
             /\ [hand[q] EXCEPT !.verdict = V].msg = hand[q].msg
  <2>1. hand[q] \in Hand
    OBVIOUS
  <2>2. QED
    BY <1>1, <2>1 DEF Hand
<1>5. \A q \in Threads : hand'[q] \in Hand
  BY <1>2, <1>4, IdleFacts
<1>6. \A q \in Threads : q # r => hand'[q].pc = hand[q].pc /\ hand'[q].msg = hand[q].msg
  BY <1>2, <1>4
<1>7. QED
  BY ONLY <1>2, <1>3, <1>5, <1>6

LEMMA BootstrapKeeps ==
  ASSUME TelemetryInv, NEW r \in Threads, Bootstrap(r) PROVE TelemetryInv'
<1>1. /\ hand[r].pc = "default" /\ hand[r].msg.rqi = "smartplugbootstrap"
      /\ ~Tells(hand[r].msg)
      /\ answered' = IF r = "present" /\ link THEN asked ELSE answered
      /\ UNCHANGED <<power, link, asked, owed, untold, up, down, entry>>
  BY DEF Bootstrap, Reply, Tells
<1>2. hand \in [Threads -> Hand]
  BY DEF TelemetryInv, TypeOK
<1>3. /\ hand' \in [Threads -> Hand] /\ hand'[r] = Idle
      /\ \A q \in Threads : q # r => /\ hand'[q].pc = hand[q].pc
                                     /\ hand'[q].msg = hand[q].msg
  <2>1. CASE hand[r].loaded
    BY <1>2, <2>1, BootstrapHand DEF Bootstrap
  <2>2. CASE ~hand[r].loaded
    BY <1>2, <2>2, IdleStep DEF Bootstrap
  <2>3. QED
    BY <2>1, <2>2
<1>4. CASE hand[r].loaded
  <2>1. cache' = [NoState EXCEPT !.device_id = TRUE]
    BY <1>4 DEF Bootstrap
  <2>2. /\ cache' \in [device_id : BOOLEAN, seen : SUBSET Selectors, status_complete : BOOLEAN]
        /\ cache'.seen = {} /\ cache'.status_complete = FALSE
    BY <2>1 DEF NoState
  <2>3. CASE r = "present" /\ link
    <3>1. view' = "own"
      BY <1>4, <2>3 DEF Bootstrap
    <3>2. /\ answered # 2 /\ asked = answered + 1 /\ asked \in 1..2 /\ up = << >>
          /\ owed = {} /\ hand["present"].msg = Request(asked)
      BY <1>1, <2>3, RequestInHand
    <3>3. asked = 2 /\ answered' = 2 /\ up' = << >>
      BY <1>1, <2>3, <3>2, RequestFacts
    <3>4. TypeOK'
      BY <1>1, <1>3, <2>2, <2>3, <3>1, <3>3 DEF TelemetryInv, TypeOK
    <3>5. hand'["present"].pc = "idle" /\ hand'["present"].verdict = None
      BY <1>3, <2>3, IdleFacts
    <3>6. RegistersFirst'
      BY <1>1, <3>3, <3>5 DEF RegistersFirst
    <3>7. ASSUME NEW n \in Outlets
          PROVE  LastSentIsRight(n)' /\ HandIsRight(n)' /\ EntryIsRight(n)'
      BY <2>2, <3>3, <3>5 DEF LastSentIsRight, HandIsRight, EntryIsRight, InHand, Joining
    <3>8. OwnViewIsRight'
      BY <2>2, <3>3, <3>5, <3>7 DEF OwnViewIsRight
    <3>9. QED
      BY <3>4, <3>6, <3>8 DEF TelemetryInv
  <2>4. CASE ~(r = "present" /\ link)
    <3>1. Touch(r) /\ answered' = answered
      BY <1>1, <1>4, <2>4 DEF Bootstrap
    <3>2. /\ view' \in {"none", "own", "mixed"} /\ view' # "own"
          /\ ~link => view' = "none"
      BY <2>4, <3>1, OwnIsRegistered, TouchFacts
    <3>3. TypeOK'
      BY <1>1, <1>3, <2>2, <3>1, <3>2 DEF TelemetryInv, TypeOK
    <3>4. RegistersFirst'
      <4>1. CASE ~link
        BY <1>1, <4>1 DEF RegistersFirst
      <4>2. CASE r # "present"
        BY <1>1, <1>3, <3>1, <4>2, ThreadsFacts, RegistrationFrame DEF TelemetryInv
      <4>3. QED
        BY <2>4, <4>1, <4>2
    <3>5. OwnViewIsRight'
      BY <3>2 DEF OwnViewIsRight
    <3>6. QED
      BY <3>3, <3>4, <3>5 DEF TelemetryInv
  <2>5. QED
    BY <2>3, <2>4
<1>5. CASE ~hand[r].loaded
  <2>1. hand' = [hand EXCEPT ![r] = Idle] /\ UNCHANGED <<cache, view>>
    BY <1>5 DEF Bootstrap
  <2>2. CASE r = "present" /\ link
    <3>1. /\ answered # 2 /\ asked = answered + 1 /\ asked \in 1..2 /\ up = << >>
          /\ owed = {} /\ hand["present"].msg = Request(asked)
      BY <1>1, <2>2, RequestInHand
    <3>2. asked = 2 /\ answered' = 2 /\ up' = << >>
      BY <1>1, <2>2, <3>1, RequestFacts
    <3>3. TypeOK'
      BY <1>1, <1>3, <2>1, <2>2, <3>2 DEF TelemetryInv, TypeOK
    <3>4. hand'["present"].pc = "idle"
      BY <1>3, <2>2, IdleFacts
    <3>5. RegistersFirst'
      BY <1>1, <3>2, <3>4 DEF RegistersFirst
    <3>6. OwnViewIsRight'
      BY <2>1, <3>1, OwnIsRegistered DEF OwnViewIsRight
    <3>7. QED
      BY <3>3, <3>5, <3>6 DEF TelemetryInv
  <2>3. CASE ~link
    <3>1. view' # "own"
      BY <2>1, <2>3 DEF TelemetryInv, TypeOK
    <3>2. TypeOK'
      BY <1>1, <1>3, <2>1, <2>3 DEF TelemetryInv, TypeOK
    <3>3. RegistersFirst' /\ OwnViewIsRight'
      BY <1>1, <2>3, <3>1 DEF RegistersFirst, OwnViewIsRight
    <3>4. QED
      BY <3>2, <3>3 DEF TelemetryInv
  <2>4. CASE r # "present"
    <3>1. hand'["present"] = hand["present"]
      BY <1>2, <2>1, <2>4, ThreadsFacts
    <3>2. UNCHANGED <<deviceVars, up, down, entry, cache, view>>
      BY <1>1, <2>1, <2>4 DEF deviceVars
    <3>3. QED
      BY <1>3, <3>1, <3>2, FormerReplies
  <2>5. QED
    BY <2>2, <2>3, <2>4
<1>6. QED
  BY <1>4, <1>5

LEMMA TelemetryKeeps ==
  ASSUME TelemetryInv, NEW r \in Threads, Telemetry(r) PROVE TelemetryInv'
<1>1. hand \in [Threads -> Hand] /\ hand[r] \in Hand /\ hand[r].msg \in Message
  BY DEF TelemetryInv, TypeOK, Hand
<1>2. /\ hand[r].pc = "default" /\ Tells(hand[r].msg)
      /\ view' = view \/ Touch(r)
      /\ UNCHANGED <<power, link, asked, answered, owed, untold, up, down, entry>>
  <2>1. hand[r].msg.rqi \notin {"create", "smartplugbootstrap"}
    BY DEF Telemetry
  <2>2. Tells(hand[r].msg)
    BY <1>1, <2>1 DEF Message, Registration, Tells
  <2>3. QED
    BY <2>2 DEF Telemetry, deviceVars
<1>3. /\ hand' \in [Threads -> Hand]
      /\ hand'[r].pc \in {"settle", "idle"} /\ hand'[r].verdict = None
      /\ \A q \in Threads : q # r => hand'[q] = hand[q]
  <2>1. CASE hand[r].loaded
    <3> DEFINE h == [Idle EXCEPT !.pc = "settle"]
    <3>1. h \in Hand
      BY IdleFacts DEF Hand
    <3>2. h.pc = "settle" /\ h.verdict = None
      BY DEF Idle
    <3>3. hand' = [hand EXCEPT ![r] = h]
      BY <2>1 DEF Telemetry
    <3> HIDE DEF h
    <3>4. QED
      BY <1>1, <3>1, <3>2, <3>3
  <2>2. CASE ~hand[r].loaded
    <3>1. hand' = [hand EXCEPT ![r] = Idle]
      BY <2>2 DEF Telemetry
    <3>2. QED
      BY <1>1, <3>1, IdleFacts
  <2>3. QED
    BY <2>1, <2>2
<1>4. /\ cache' \in [device_id : BOOLEAN, seen : SUBSET Selectors, status_complete : BOOLEAN]
      /\ cache.seen \subseteq cache'.seen /\ cache'.seen \subseteq Selectors
      /\ cache'.seen \subseteq cache.seen \cup Reported(hand[r].msg)
      /\ cache'.status_complete = cache.status_complete
  <2>1. cache \in [device_id : BOOLEAN, seen : SUBSET Selectors, status_complete : BOOLEAN]
    BY DEF TelemetryInv, TypeOK
  <2>2. Reported(hand[r].msg) \subseteq Selectors
    BY <1>1, ReportedIsTold
  <2>3. CASE hand[r].loaded
    <3> DEFINE s == cache.seen \cup Reported(hand[r].msg)
    <3>1. s \in SUBSET Selectors /\ cache.seen \subseteq s
      BY <2>1, <2>2
    <3>2. cache' = [cache EXCEPT !.seen = s]
      BY <2>3 DEF Telemetry
    <3>3. s \subseteq cache.seen \cup Reported(hand[r].msg)
      OBVIOUS
    <3> HIDE DEF s
    <3>4. cache'.seen = s /\ cache'.status_complete = cache.status_complete
      BY <2>1, <3>2
    <3>5. cache' \in [device_id : BOOLEAN, seen : SUBSET Selectors, status_complete : BOOLEAN]
      BY <2>1, <3>1, <3>2
    <3>6. QED
      BY <3>1, <3>3, <3>4, <3>5
  <2>4. CASE ~hand[r].loaded
    BY <2>1, <2>4 DEF Telemetry
  <2>5. QED
    BY <2>3, <2>4
<1>5. TypeOK'
  <2>1. view' \in {"none", "own", "mixed"} /\ (view = "none" => view' = "none")
    BY <1>2, TouchFacts DEF TelemetryInv, TypeOK
  <2>2. QED
    BY <1>2, <1>3, <1>4, <2>1 DEF TelemetryInv, TypeOK
<1>6. RegistersFirst'
  <2>1. CASE r = "present" /\ link
    <3>1. answered = 2
      BY <1>2, <2>1, RequestFacts DEF TelemetryInv, TypeOK, RegistersFirst
    <3>2. asked = 2
      BY <3>1 DEF TelemetryInv, TypeOK
    <3>3. QED
      BY <1>2, <1>3, <2>1, <3>1, <3>2 DEF TelemetryInv, RegistersFirst
  <2>2. CASE ~link
    BY <1>2, <2>2 DEF RegistersFirst
  <2>3. CASE r # "present"
    BY <1>2, <1>3, <2>3, ThreadsFacts, RegistrationFrame DEF TelemetryInv
  <2>4. QED
    BY <2>1, <2>2, <2>3
<1>7. OwnViewIsRight'
  <2>1. SUFFICES ASSUME view' = "own" PROVE OwnViewIsRight'
    BY DEF OwnViewIsRight
  <2>2. view = "own" /\ (r = "present" \/ ~hand[r].loaded)
    <3>1. CASE hand[r].loaded
      BY <2>1, <3>1, TouchFacts DEF Telemetry
    <3>2. CASE ~hand[r].loaded
      BY <2>1, <3>2 DEF Telemetry
    <3>3. QED
      BY <3>1, <3>2
  <2>3. CASE r = "present"
    <3>1. /\ answered = 2 /\ hand["present"].verdict = None
          /\ cache.status_complete => cache.seen = Selectors
          /\ \A n \in Outlets \ untold : LastSentIsRight(n) /\ EntryIsRight(n)
      BY <2>2 DEF TelemetryInv, OwnViewIsRight
    <3>2. cache'.status_complete => cache'.seen = Selectors
      BY <1>4, <3>1
    <3>3. ASSUME NEW n \in Outlets \ untold
          PROVE  LastSentIsRight(n)' /\ HandIsRight(n)' /\ EntryIsRight(n)'
      <4>1. LastSentIsRight(n)' /\ (NoneSent(n)' <=> NoneSent(n))
        BY <1>2, <3>1 DEF LastSentIsRight, NoneSent
      <4>2. HandIsRight(n)'
        BY <1>3, <2>3 DEF HandIsRight, InHand
      <4>3. n \in cache'.seen => n \in cache.seen \/ Joining(n)
        BY <1>2, <1>4, <2>3 DEF Joining
      <4>4. ~InHand(n) /\ ~Joining(n)'
        BY <1>2, <1>3, <2>3 DEF InHand, Joining
      <4>5. EntryIsRight(n)'
        BY <1>2, <3>1, <4>1, <4>3, <4>4 DEF EntryIsRight
      <4>6. QED
        BY <4>1, <4>2, <4>5
    <3>4. QED
      BY <1>2, <1>3, <2>3, <3>1, <3>2, <3>3 DEF OwnViewIsRight
  <2>4. CASE r # "present"
    <3>1. cache' = cache /\ hand'["present"] = hand["present"]
      BY <1>3, <2>2, <2>4, ThreadsFacts DEF Telemetry
    <3>2. QED
      BY <1>2, <2>2, <3>1 DEF TelemetryInv, OwnViewIsRight, LastSentIsRight, NoneSent,
           HandIsRight, InHand, EntryIsRight, Joining
  <2>5. QED
    BY <2>3, <2>4
<1>8. QED
  BY <1>5, <1>6, <1>7 DEF TelemetryInv

LEMMA SettleKeeps ==
  ASSUME TelemetryInv, NEW r \in Threads, Settle(r) PROVE TelemetryInv'
<1>1. /\ hand[r].pc = "settle" /\ Touch(r)
      /\ hand' = [hand EXCEPT ![r] = Idle]
      /\ UNCHANGED <<power, link, asked, answered, owed, untold, up, down, entry>>
  BY DEF Settle, deviceVars
<1>2. hand \in [Threads -> Hand] /\ hand[r] \in Hand
  BY DEF TelemetryInv, TypeOK
<1>3. /\ hand' \in [Threads -> Hand] /\ hand'[r] = Idle
      /\ \A q \in Threads : q # r => hand'[q] = hand[q]
  BY <1>1, <1>2, IdleStep
<1> DEFINE V == IF hand[r].verdict = None THEN cache.seen = Selectors ELSE hand[r].verdict
<1>4. V \in BOOLEAN /\ (hand[r].verdict = None => (V <=> cache.seen = Selectors))
  <2>1. hand[r].verdict \in BOOLEAN \cup {None}
    BY <1>2 DEF Hand
  <2>2. QED
    BY <2>1
<1>5. cache' = [cache EXCEPT !.status_complete = V]
  BY DEF Settle
<1> HIDE DEF V
<1>6. /\ cache' \in [device_id : BOOLEAN, seen : SUBSET Selectors, status_complete : BOOLEAN]
      /\ cache'.seen = cache.seen
      /\ cache'.status_complete = V
  <2>1. cache \in [device_id : BOOLEAN, seen : SUBSET Selectors, status_complete : BOOLEAN]
    BY DEF TelemetryInv, TypeOK
  <2>2. QED
    BY <1>4, <1>5, <2>1
<1>7. TypeOK'
  BY <1>1, <1>3, <1>6, TouchFacts DEF TelemetryInv, TypeOK
<1>8. RegistersFirst'
  <2>1. CASE r = "present" /\ link
    <3>1. answered = 2
      BY <1>1, <2>1 DEF TelemetryInv, TypeOK, RegistersFirst
    <3>2. asked = 2
      BY <3>1 DEF TelemetryInv, TypeOK
    <3>3. QED
      BY <1>1, <1>3, <2>1, <3>1, <3>2, IdleFacts DEF TelemetryInv, RegistersFirst
  <2>2. CASE ~link
    BY <1>1, <2>2 DEF RegistersFirst
  <2>3. CASE r # "present"
    BY <1>1, <1>3, <2>3, ThreadsFacts, RegistrationFrame DEF TelemetryInv
  <2>4. QED
    BY <2>1, <2>2, <2>3
<1>9. OwnViewIsRight'
  <2>1. SUFFICES ASSUME view' = "own" PROVE OwnViewIsRight'
    BY DEF OwnViewIsRight
  <2>2. view = "own" /\ r = "present"
    BY <1>1, <2>1, TouchFacts
  <2>3. /\ answered = 2 /\ hand["present"].verdict = None
        /\ cache.status_complete => cache.seen = Selectors
        /\ \A n \in Outlets \ untold : LastSentIsRight(n) /\ EntryIsRight(n)
    BY <2>2 DEF TelemetryInv, OwnViewIsRight
  <2>4. cache'.status_complete => cache'.seen = Selectors
    BY <1>4, <1>6, <2>2, <2>3
  <2>5. hand'["present"].pc = "idle" /\ hand'["present"].verdict = None
    BY <1>3, <2>2, IdleFacts
  <2>6. ASSUME NEW n \in Outlets \ untold
        PROVE  LastSentIsRight(n)' /\ HandIsRight(n)' /\ EntryIsRight(n)'
    <3>1. LastSentIsRight(n)' /\ (NoneSent(n)' <=> NoneSent(n))
      BY <1>1, <2>3 DEF LastSentIsRight, NoneSent
    <3>2. HandIsRight(n)'
      BY <2>5 DEF HandIsRight, InHand
    <3>3. ~InHand(n) /\ ~Joining(n)'
      BY <1>1, <2>2, <2>5 DEF InHand, Joining
    <3>4. EntryIsRight(n)'
      BY <1>1, <1>6, <2>3, <3>1, <3>3 DEF EntryIsRight
    <3>5. QED
      BY <3>1, <3>2, <3>4
  <2>7. QED
    BY <1>1, <2>2, <2>3, <2>4, <2>5, <2>6 DEF OwnViewIsRight
<1>10. QED
  BY <1>7, <1>8, <1>9 DEF TelemetryInv

-----------------------------------------------------------------------------
(***************************************************************************)
(* What happens to the relay, and the theorems.                            *)
(***************************************************************************)

LEMMA ReloadKeeps ==
  ASSUME TelemetryInv, Reload PROVE TelemetryInv'
<1>1. /\ cache' = NoState
      /\ hand' = [r \in Threads |-> IF hand[r].pc \in {"idle", "settle"} THEN Idle
                                    ELSE [hand[r] EXCEPT !.loaded = FALSE, !.verdict = None]]
      /\ UNCHANGED <<power, link, asked, answered, owed, untold, up, down, entry, view>>
  BY DEF Reload, deviceVars
<1>2. hand \in [Threads -> Hand]
  BY DEF TelemetryInv, TypeOK
<1>3. /\ cache' \in [device_id : BOOLEAN, seen : SUBSET Selectors, status_complete : BOOLEAN]
      /\ cache'.seen = {} /\ cache'.status_complete = FALSE
  BY <1>1 DEF NoState
<1>4. ASSUME NEW r \in Threads
      PROVE  /\ hand'[r] \in Hand /\ hand'[r].verdict = None
             /\ hand[r].pc \in {"idle", "settle"} => hand'[r].pc = "idle"
             /\ hand[r].pc \notin {"idle", "settle"} =>
                  hand'[r].pc = hand[r].pc /\ hand'[r].msg = hand[r].msg
  <2>1. hand'[r] = IF hand[r].pc \in {"idle", "settle"} THEN Idle
                   ELSE [hand[r] EXCEPT !.loaded = FALSE, !.verdict = None]
    BY <1>1
  <2>2. CASE hand[r].pc \in {"idle", "settle"}
    BY <2>1, <2>2, IdleFacts
  <2>3. CASE hand[r].pc \notin {"idle", "settle"}
    <3>1. hand[r] \in Hand
      BY <1>2
    <3>2. hand'[r] = [hand[r] EXCEPT !.loaded = FALSE, !.verdict = None]
      BY <2>1, <2>3
    <3>3. QED
      BY <2>3, <3>1, <3>2 DEF Hand
  <2>4. QED
    BY <2>2, <2>3
<1>5. hand' \in [Threads -> Hand]
  <2>1. DOMAIN hand' = Threads /\ hand' = [r \in Threads |-> hand'[r]]
    BY <1>1
  <2>2. QED
    BY <1>4, <2>1
<1>6. TypeOK'
  BY <1>1, <1>3, <1>5 DEF TelemetryInv, TypeOK
<1>7. /\ hand["present"].pc \in {"idle", "settle"} => hand'["present"].pc = "idle"
      /\ hand["present"].pc \notin {"idle", "settle"} =>
           /\ hand'["present"].pc = hand["present"].pc
           /\ hand'["present"].msg = hand["present"].msg
      /\ hand'["present"].verdict = None
  BY <1>4, ThreadsFacts
<1>8. RegistersFirst'
  BY <1>1, <1>7 DEF TelemetryInv, RegistersFirst
<1>9. OwnViewIsRight'
  <2>1. SUFFICES ASSUME view = "own" PROVE OwnViewIsRight'
    BY <1>1 DEF OwnViewIsRight
  <2>2. /\ answered = 2
        /\ \A n \in Outlets \ untold :
             LastSentIsRight(n) /\ HandIsRight(n) /\ EntryIsRight(n)
    BY <2>1 DEF TelemetryInv, OwnViewIsRight
  <2>3. ASSUME NEW n \in Outlets \ untold
        PROVE  LastSentIsRight(n)' /\ HandIsRight(n)' /\ EntryIsRight(n)'
    <3>1. LastSentIsRight(n)' /\ (NoneSent(n)' <=> NoneSent(n))
      BY <1>1, <2>2 DEF LastSentIsRight, NoneSent
    <3>2. (InHand(n)' <=> InHand(n)) /\ (Joining(n)' <=> Joining(n))
      BY <1>7 DEF InHand, Joining
    <3>3. HandIsRight(n)'
      BY <1>1, <1>7, <2>2, <3>1, <3>2 DEF HandIsRight, InHand
    <3>4. EntryIsRight(n)'
      BY <1>1, <1>3, <2>2, <3>1, <3>2 DEF EntryIsRight
    <3>5. QED
      BY <3>1, <3>3, <3>4
  <2>4. QED
    BY <1>1, <1>3, <1>7, <2>2, <2>3 DEF OwnViewIsRight
<1>10. QED
  BY <1>6, <1>8, <1>9 DEF TelemetryInv

LEMMA RestartKeeps ==
  ASSUME TelemetryInv, Restart PROVE TelemetryInv'
<1>1. up' \in Seq(Message) /\ Len(up') <= MaxSent
  BY MaxSentAssumption DEF Restart
<1>2. hand' \in [Threads -> Hand]
  BY IdleFacts DEF Restart
<1>3. cache' \in [device_id : BOOLEAN, seen : SUBSET Selectors, status_complete : BOOLEAN]
  BY DEF Restart, NoState
<1>4. TypeOK'
  BY <1>1, <1>2, <1>3 DEF TelemetryInv, TypeOK, Restart, Disconnected
<1>5. RegistersFirst' /\ OwnViewIsRight'
  BY DEF RegistersFirst, OwnViewIsRight, Restart, Disconnected
<1>6. QED
  BY <1>4, <1>5 DEF TelemetryInv

LEMMA InitEstablishes ==
  ASSUME Init PROVE TelemetryInv
<1>1. up \in Seq(Message) /\ Len(up) <= MaxSent
  BY MaxSentAssumption DEF Init
<1>2. hand \in [Threads -> Hand]
  BY IdleFacts DEF Init
<1>3. cache \in [device_id : BOOLEAN, seen : SUBSET Selectors, status_complete : BOOLEAN]
  BY DEF Init, NoState
<1>4. TypeOK
  <2>1. answered \in 0..2 /\ asked \in {answered, answered + 1} \cap 0..2
    BY DEF Init
  <2>2. entry \in [Outlets -> BOOLEAN \cup {None}]
    BY DEF Init
  <2>3. QED
    BY <1>1, <1>2, <1>3, <2>1, <2>2 DEF TypeOK, Init
<1>5. RegistersFirst /\ OwnViewIsRight
  BY DEF RegistersFirst, OwnViewIsRight, Init
<1>6. QED
  BY <1>4, <1>5 DEF TelemetryInv

LEMMA NextKeeps ==
  ASSUME TelemetryInv, [Next]_vars PROVE TelemetryInv'
<1>1. CASE UNCHANGED vars
  <2>1. UNCHANGED <<power, link, asked, answered, owed, untold, up, down, hand, entry, cache, view>>
    BY <1>1 DEF vars, deviceVars
  <2>2. TypeOK'
    BY <2>1 DEF TelemetryInv, TypeOK
  <2>3. hand' \in [Threads -> Hand] /\ UNCHANGED deviceVars
    BY <2>1, <2>2 DEF TypeOK, deviceVars
  <2>4. QED
    BY <2>1, <2>3, FormerReplies
<1>2. CASE DeviceStep
  BY <1>2, ConnectKeeps, LoseKeeps, RegisterKeeps, ExecuteKeeps, ReportKeeps DEF DeviceStep
<1>3. CASE \E n \in Switched, v \in BOOLEAN : Press(n, v)
  BY <1>3, PressKeeps
<1>4. CASE \E c \in Command : OnLocalInject(c)
  BY <1>4, InjectKeeps
<1>5. CASE Take
  BY <1>5, TakeKeeps
<1>6. CASE \E r \in Threads : Feed(r) \/ DefaultRule(r)
  BY <1>6, FeedKeeps, AnswerKeeps, BootstrapKeeps, TelemetryKeeps, SettleKeeps
     DEF DefaultRule
<1>7. CASE Reload \/ Restart
  BY <1>7, ReloadKeeps, RestartKeeps
<1>8. QED
  BY <1>1, <1>2, <1>3, <1>4, <1>5, <1>6, <1>7 DEF Next

\* The invariant the two theorems below rest on.
THEOREM TelemetryInvariant == Spec => []TelemetryInv
<1>1. Init => TelemetryInv
  BY InitEstablishes
<1>2. TelemetryInv /\ [Next]_vars => TelemetryInv'
  BY NextKeeps
<1>3. QED
  BY <1>1, <1>2, PTL DEF Spec

\* What the relay and the device keep has the form the code gives it: among
\* others, no report is owed and no order is on its way without a connection.
THEOREM TypeCorrect == Spec => []TypeOK
<1>1. TelemetryInv => TypeOK
  BY DEF TelemetryInv
<1>2. QED
  BY <1>1, TelemetryInvariant, PTL

\* Once status_complete is set on a connection, and no thread of a former one
\* interfered, devices.json shows a switch as it is whenever no message is on
\* its way, unless a command for the whole strip switched it and the device has
\* not told of it since: with any outlets, whatever buttons, commands, reloads
\* of the rule and lost connections there have been.
THEOREM ACompleteViewIsRight == Spec => []CompleteViewIsRight
<1>1. TelemetryInv => CompleteViewIsRight
  <2>1. SUFFICES ASSUME TelemetryInv, cache.status_complete, view = "own", AtRest,
                        NEW n \in Outlets \ untold
                 PROVE  entry[n] = power[n]
    BY DEF CompleteViewIsRight
  <2>2. cache.seen = Selectors /\ EntryIsRight(n)
    BY <2>1 DEF TelemetryInv, OwnViewIsRight
  <2>3. n \in cache.seen
    BY <2>2 DEF Selectors
  <2>4. NoneSent(n) /\ ~InHand(n)
    BY <2>1, ThreadsFacts DEF AtRest, NoneSent, InHand
  <2>5. QED
    BY <2>2, <2>3, <2>4 DEF EntryIsRight
<1>2. QED
  BY <1>1, TelemetryInvariant, PTL
=============================================================================
