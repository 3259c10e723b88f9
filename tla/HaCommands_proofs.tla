------------------------- MODULE HaCommands_proofs --------------------------
(***************************************************************************)
(* Proofs about the way of commands through the Home Assistant bridge, for *)
(* any devices and any number of commands.                                 *)
(***************************************************************************)
EXTENDS HaCommands, TLAPS

(***************************************************************************)
(* Commands.  That a command is asked for once, and that the latest one is *)
(* pending, both rest on the order in which the client thread works: until *)
(* it notes a command, nothing refers to it; once it has, no other is      *)
(* noted before the next is given.                                         *)
(***************************************************************************)

\* Commands not given yet, and the one that the client thread has not noted.
Ahead(n) == n > count \/ (n = count /\ cpc # "idle")

\* Nothing refers to a command before the client thread has noted it.
NothingAhead ==
    /\ \A n \in Commands :
         Ahead(n) => /\ asked[n] = 0 /\ entry[n].age = "none" /\ ~entry[n].owes
                     /\ held # n /\ \A d \in Devices : pending[d] # n
    /\ cpc # "idle" => count \in Commands /\ entry[count].for \in Devices

\* The entry of a command that was asked for owes nothing any more.
AskedIsSettled ==
    \A n \in Commands : asked[n] # 0 => asked[n] = 1 /\ ~entry[n].owes

CommandInv == TypeOK /\ NothingAhead /\ AskedIsSettled /\ PendingIsLatest

LEMMA CommandsAhead ==
  ASSUME CommandInv, NEW n \in Commands, Ahead(n)
  PROVE  /\ n # 0 /\ asked[n] = 0 /\ entry[n].age = "none" /\ ~entry[n].owes /\ held # n
         /\ \A d \in Devices : pending[d] # n
  BY MaxCommandsAssumption DEF CommandInv, NothingAhead, Commands

\* Steps that leave the commands given so far, and their entries, alone.
LEMMA CommandFrame ==
  ASSUME CommandInv, TypeOK',
         UNCHANGED <<held, cpc, count, entry, pending, asked>>
  PROVE  CommandInv'
  BY DEF CommandInv, NothingAhead, Ahead, AskedIsSettled, PendingIsLatest

LEMMA CommandInit ==
  ASSUME Init PROVE CommandInv
<1>1. NoEntry \in Entry /\ NoEntry.age = "none" /\ ~NoEntry.owes
  BY DEF NoEntry, Entry, Ages
<1>2. entry \in [Commands -> Entry]
  BY <1>1 DEF Init
<1>3. /\ count \in 0..MaxCommands /\ cpc = "idle" /\ held = 0
      /\ pending \in [Devices -> Commands \cup {0}] /\ \A d \in Devices : pending[d] = 0
      /\ asked \in [Commands -> Nat] /\ \A n \in Commands : asked[n] = 0 /\ entry[n] = NoEntry
      /\ wire \in Seq(Inject)
  BY IdentifiedAssumption, MaxCommandsAssumption, NoneAssumption DEF Init, Relay!Init
<1>4. TypeOK
  BY IdentifiedAssumption, MaxCommandsAssumption, NoneAssumption, <1>2, <1>3
     DEF Init, Relay!Init, TypeOK
<1>5. NothingAhead /\ AskedIsSettled /\ PendingIsLatest
  BY <1>1, <1>3 DEF NothingAhead, AskedIsSettled, PendingIsLatest, Commands, Ahead
<1>6. QED
  BY <1>4, <1>5 DEF CommandInv

LEMMA AcceptKeeps ==
  ASSUME CommandInv, NEW d \in Devices, Accept(d) PROVE CommandInv'
<1>1. /\ cpc = "idle" /\ cpc' = "found" /\ count < MaxCommands /\ count' = count + 1
      /\ entry' = [entry EXCEPT ![count + 1].for = d]
      /\ UNCHANGED <<identified, sessions, latest, slug2cid, unread, pc, todo, held,
                     subscribed, pending, wire, arrived, asked>>
  BY DEF Accept, loopVars, relayVars
<1>2. /\ count \in 0..MaxCommands /\ count + 1 \in Commands /\ Ahead(count + 1)
      /\ entry \in [Commands -> Entry]
  BY IdentifiedAssumption, MaxCommandsAssumption, NoneAssumption, <1>1
     DEF CommandInv, TypeOK, Commands, Ahead
<1>3. /\ entry' \in [Commands -> Entry]
      /\ entry'[count + 1].for = d
      /\ \A n \in Commands : /\ entry'[n].age = entry[n].age /\ entry'[n].owes = entry[n].owes
                             /\ n # count + 1 => entry'[n] = entry[n]
  BY <1>1, <1>2 DEF Entry
<1>4. TypeOK'
  BY IdentifiedAssumption, MaxCommandsAssumption, NoneAssumption, <1>1, <1>2, <1>3
     DEF CommandInv, TypeOK
<1>5. NothingAhead'
  <2>1. ASSUME NEW n \in Commands, Ahead(n)' PROVE Ahead(n)
    BY IdentifiedAssumption, MaxCommandsAssumption, NoneAssumption, <1>1, <1>2, <2>1
       DEF Ahead, Commands
  <2>2. \A n \in Commands :
          Ahead(n)' => /\ asked'[n] = 0 /\ entry'[n].age = "none" /\ ~entry'[n].owes
                       /\ held' # n /\ \A e \in Devices : pending'[e] # n
    BY <1>1, <1>3, <2>1, CommandsAhead
  <2>3. count' \in Commands /\ entry'[count'].for \in Devices
    BY <1>1, <1>2, <1>3
  <2>4. QED
    BY <2>2, <2>3 DEF NothingAhead
<1>6. AskedIsSettled'
  BY <1>1, <1>3 DEF CommandInv, AskedIsSettled
<1>7. PendingIsLatest'
  <2>1. entry[count + 1].age = "none"
    BY <1>2, CommandsAhead
  <2>2. QED
    BY <1>1, <1>2, <1>3, <2>1 DEF CommandInv, PendingIsLatest
<1>8. QED
  BY <1>4, <1>5, <1>6, <1>7 DEF CommandInv

LEMMA SendInjectKeeps ==
  ASSUME CommandInv, SendInject PROVE CommandInv'
<1>1. /\ cpc = "found" /\ cpc' = "injected"
      /\ UNCHANGED <<identified, sessions, latest, slug2cid, unread, pc, todo, held,
                     subscribed, count, entry, pending, arrived, asked>>
  BY DEF SendInject, loopVars, relayVars
<1>2. wire' \in Seq(Inject)
  <2>1. entry[count].for \in Devices /\ wire \in Seq(Inject)
    BY <1>1 DEF CommandInv, NothingAhead, TypeOK
  <2> DEFINE d == entry[count].for
  <2>2. \/ wire' = wire
        \/ wire' = Append(wire, [for |-> d, names |-> d])
        \/ wire' = Append(wire, [for |-> d, names |-> None])
    BY DEF SendInject
  <2> HIDE DEF d
  <2>3. [for |-> d, names |-> d] \in Inject /\ [for |-> d, names |-> None] \in Inject
    BY <2>1 DEF Inject, d
  <2>4. QED
    BY <2>1, <2>2, <2>3
<1>3. TypeOK'
  BY <1>1, <1>2 DEF CommandInv, TypeOK
<1>4. NothingAhead' /\ AskedIsSettled' /\ PendingIsLatest'
  BY <1>1 DEF CommandInv, NothingAhead, Ahead, AskedIsSettled, PendingIsLatest
<1>5. QED
  BY <1>3, <1>4 DEF CommandInv

LEMMA RememberKeeps ==
  ASSUME CommandInv, Remember
  PROVE  CommandInv'
<1>1. /\ cpc = "injected" /\ cpc' = "idle" /\ count \in Commands
      /\ entry[count].for \in Devices /\ asked[count] = 0
      /\ pending' = [pending EXCEPT ![entry[count].for] = count]
      /\ entry' = [entry EXCEPT ![count].age = "new", ![count].owes = TRUE]
      /\ UNCHANGED <<identified, sessions, latest, slug2cid, unread, pc, todo, held,
                     subscribed, count, wire, arrived, asked>>
  BY IdentifiedAssumption, MaxCommandsAssumption, NoneAssumption
     DEF CommandInv, NothingAhead, Ahead, Remember, loopVars, relayVars, Commands
<1>2. entry \in [Commands -> Entry] /\ pending \in [Devices -> Commands \cup {0}]
  BY DEF CommandInv, TypeOK
<1>3. /\ entry' \in [Commands -> Entry]
      /\ \A n \in Commands : /\ entry'[n].for = entry[n].for
                             /\ n # count => entry'[n] = entry[n]
      /\ entry'[count].owes /\ entry'[count].age = "new"
  BY <1>1, <1>2 DEF Entry, Ages
<1>4. /\ pending' \in [Devices -> Commands \cup {0}]
      /\ \A d \in Devices : pending'[d] = IF d = entry[count].for THEN count ELSE pending[d]
  BY <1>1, <1>2
<1>5. TypeOK'
  BY <1>1, <1>3, <1>4 DEF CommandInv, TypeOK
<1>6. NothingAhead'
  BY <1>1, <1>3, <1>4 DEF CommandInv, NothingAhead, Ahead, Commands
<1>7. AskedIsSettled'
  BY <1>1, <1>3 DEF CommandInv, AskedIsSettled
<1>8. PendingIsLatest'
  BY <1>1, <1>2, <1>3, <1>4 DEF CommandInv, PendingIsLatest, NothingAhead, Ahead, Commands
<1>9. QED
  BY <1>5, <1>6, <1>7, <1>8 DEF CommandInv

LEMMA EmptyKeeps ==
  ASSUME CommandInv, Empty PROVE CommandInv'
<1>1. /\ TypeOK /\ pc' = "fill" /\ slug2cid' = {} /\ unread' = identified
      /\ UNCHANGED <<identified, sessions, latest, todo, held, cpc, count, subscribed, entry,
                     pending, wire, arrived, asked>>
  BY DEF Empty, clientVars, relayVars, CommandInv
<1>2. TypeOK'
  BY <1>1 DEF TypeOK
<1>3. QED
  BY <1>1, <1>2, CommandFrame

LEMMA FillKeeps ==
  ASSUME CommandInv, NEW d \in Devices, Fill(d) PROVE CommandInv'
<1>1. /\ TypeOK /\ d \in unread /\ slug2cid' = slug2cid \cup {d} /\ unread' = unread \ {d}
      /\ UNCHANGED <<identified, sessions, latest, pc, todo, held, cpc, count, subscribed, entry,
                     pending, wire, arrived, asked>>
  BY DEF Fill, clientVars, relayVars, CommandInv
<1>2. slug2cid' \subseteq identified /\ unread' \subseteq identified
  BY <1>1 DEF TypeOK
<1>3. TypeOK'
  BY <1>1, <1>2 DEF TypeOK
<1>4. QED
  BY <1>1, <1>3, CommandFrame

LEMMA StartCheckKeeps ==
  ASSUME CommandInv, StartCheck PROVE CommandInv'
<1>1. /\ TypeOK /\ pc' = "check" /\ subscribed' = TRUE /\ todo' \subseteq Devices
      /\ UNCHANGED <<identified, sessions, latest, slug2cid, unread, held, cpc, count, entry,
                     pending, wire, arrived, asked>>
  BY DEF StartCheck, clientVars, relayVars, CommandInv
<1>2. TypeOK'
  BY <1>1 DEF TypeOK
<1>3. QED
  BY <1>1, <1>2, CommandFrame

LEMMA HoldKeeps ==
  ASSUME CommandInv, NEW d \in Devices, Hold(d) PROVE CommandInv'
<1>1. /\ TypeOK /\ held' = pending[d]
      /\ UNCHANGED <<identified, sessions, latest, slug2cid, unread, pc, todo, cpc, count,
                     subscribed, entry, pending, wire, arrived, asked>>
  BY DEF Hold, clientVars, relayVars, CommandInv
<1>2. TypeOK'
  BY <1>1 DEF TypeOK
<1>3. NothingAhead' /\ AskedIsSettled' /\ PendingIsLatest'
  BY <1>1 DEF CommandInv, NothingAhead, Ahead, AskedIsSettled, PendingIsLatest
<1>4. QED
  BY <1>2, <1>3 DEF CommandInv

LEMMA SettleKeeps ==
  ASSUME CommandInv, NEW confirmed \in BOOLEAN, Settle(confirmed)
  PROVE  CommandInv'
<1> DEFINE p == entry[held]
           asks == p.owes /\ p.age \in {"due", "late"}
           done == (confirmed /\ (asks \/ ~p.owes)) \/ p.age = "late"
           left == p.owes /\ ~asks
<1>1. /\ held # 0 /\ held' = 0
      /\ entry' = [entry EXCEPT ![held].owes = left]
      /\ asked' = [asked EXCEPT ![held] = @ + IF asks THEN 1 ELSE 0]
      /\ pending' = IF done THEN [pending EXCEPT ![p.for] = 0] ELSE pending
      /\ todo' = todo \ {p.for}
      /\ UNCHANGED <<identified, sessions, latest, slug2cid, unread, pc, cpc, count, subscribed,
                     wire, arrived>>
  BY DEF Settle, clientVars, relayVars
<1>2. /\ held \in Commands /\ entry \in [Commands -> Entry] /\ p \in Entry
      /\ asked \in [Commands -> Nat] /\ pending \in [Devices -> Commands \cup {0}]
  BY <1>1 DEF CommandInv, TypeOK
<1>3. left \in BOOLEAN /\ (asks => p.owes /\ ~left) /\ (left => p.owes)
  BY <1>2 DEF Entry
<1>4. asks => asked[held] = 0
  BY <1>2, <1>3 DEF CommandInv, AskedIsSettled
<1> HIDE DEF asks, done, left, p
<1>5. /\ entry' \in [Commands -> Entry]
      /\ entry'[held].owes = left
      /\ \A n \in Commands : /\ entry'[n].for = entry[n].for /\ entry'[n].age = entry[n].age
                             /\ n # held => entry'[n] = entry[n]
  BY <1>1, <1>2, <1>3 DEF Entry
<1>6. /\ asked' \in [Commands -> Nat]
      /\ asked'[held] = asked[held] + IF asks THEN 1 ELSE 0
      /\ \A n \in Commands : n # held => asked'[n] = asked[n]
  BY <1>1, <1>2
<1>7. /\ pending' \in [Devices -> Commands \cup {0}]
      /\ \A d \in Devices : pending'[d] \in {0, pending[d]}
  BY <1>1, <1>2
<1>8. TypeOK'
  BY <1>1, <1>5, <1>6, <1>7 DEF CommandInv, TypeOK
<1>9. NothingAhead'
  <2>1. \A n \in Commands : Ahead(n) => n # held
    BY CommandsAhead
  <2>2. \A n \in Commands : Ahead(n)' <=> Ahead(n)
    BY <1>1 DEF Ahead
  <2>3. ASSUME NEW n \in Commands, Ahead(n)
        PROVE  /\ asked'[n] = 0 /\ entry'[n].age = "none" /\ ~entry'[n].owes
               /\ held' # n /\ \A d \in Devices : pending'[d] # n
    BY <1>1, <1>5, <1>6, <1>7, <2>1, <2>3, CommandsAhead
  <2>4. cpc' # "idle" => count' \in Commands /\ entry'[count'].for \in Devices
    BY <1>1, <1>5 DEF CommandInv, NothingAhead
  <2>5. QED
    BY <2>2, <2>3, <2>4 DEF NothingAhead
<1>10. AskedIsSettled'
  <2>1. ASSUME NEW n \in Commands, asked'[n] # 0 PROVE asked'[n] = 1 /\ ~entry'[n].owes
    <3>1. CASE n # held
      <4>1. asked'[n] = asked[n] /\ entry'[n] = entry[n]
        BY <1>5, <1>6, <2>1, <3>1
      <4>2. asked[n] = 1 /\ ~entry[n].owes
        BY <2>1, <4>1 DEF CommandInv, AskedIsSettled
      <4>3. QED
        BY <4>1, <4>2
    <3>2. CASE n = held /\ asks
      BY <1>3, <1>4, <1>5, <1>6, <3>2
    <3>3. CASE n = held /\ ~asks
      <4>1. asked[held] \in Nat /\ asked'[held] = asked[held]
        BY <1>2, <1>6, <3>3
      <4>2. asked[held] = 1 /\ ~entry[held].owes
        BY <1>2, <2>1, <3>3, <4>1 DEF CommandInv, AskedIsSettled
      <4>3. ~left
        BY <1>3, <4>2 DEF p
      <4>4. QED
        BY <1>5, <3>3, <4>1, <4>2, <4>3
    <3>4. QED
      BY <3>1, <3>2, <3>3
  <2>2. QED
    BY <2>1 DEF AskedIsSettled
<1>11. PendingIsLatest'
  <2>1. ASSUME NEW d \in Devices, NEW n \in Commands,
               pending'[d] # 0, entry'[n].for = d, entry'[n].age # "none"
        PROVE  n <= pending'[d]
    <3>1. pending'[d] = pending[d] /\ pending[d] # 0
      BY <1>7, <2>1
    <3>2. entry[n].for = d /\ entry[n].age # "none"
      BY <1>5, <2>1
    <3>3. n <= pending[d]
      BY <3>1, <3>2 DEF CommandInv, PendingIsLatest
    <3>4. QED
      BY <3>1, <3>3
  <2>2. QED
    BY <2>1 DEF PendingIsLatest
<1>12. QED
  BY <1>8, <1>9, <1>10, <1>11 DEF CommandInv

LEMMA AgeKeeps ==
  ASSUME CommandInv, NEW n \in Commands, Age(n) PROVE CommandInv'
<1> DEFINE a == IF entry[n].age = "new" THEN "due" ELSE "late"
<1>1. /\ entry[n].age \in {"new", "due"} /\ entry' = [entry EXCEPT ![n].age = a]
      /\ UNCHANGED <<identified, sessions, latest, slug2cid, unread, pc, todo, held, cpc,
                     count, subscribed, pending, wire, arrived, asked>>
  BY DEF Age, loopVars, clientVars, relayVars
<1>2. entry \in [Commands -> Entry] /\ a \in Ages /\ a # "none" /\ ~Ahead(n)
  BY <1>1, CommandsAhead DEF CommandInv, TypeOK, Ages
<1> HIDE DEF a
<1>3. /\ entry' \in [Commands -> Entry]
      /\ \A m \in Commands : /\ entry'[m].for = entry[m].for /\ entry'[m].owes = entry[m].owes
                             /\ m # n => entry'[m] = entry[m]
  BY <1>1, <1>2 DEF Entry
<1>4. TypeOK'
  BY <1>1, <1>3 DEF CommandInv, TypeOK
<1>5. NothingAhead'
  <2>1. \A m \in Commands : Ahead(m)' <=> Ahead(m)
    BY <1>1 DEF Ahead
  <2>2. QED
    BY <1>1, <1>2, <1>3, <2>1 DEF CommandInv, NothingAhead
<1>6. AskedIsSettled'
  BY <1>1, <1>3 DEF CommandInv, AskedIsSettled
<1>7. PendingIsLatest'
  BY <1>1, <1>3 DEF CommandInv, PendingIsLatest
<1>8. QED
  BY <1>4, <1>5, <1>6, <1>7 DEF CommandInv

LEMMA RelayStepKeeps ==
  ASSUME CommandInv, RelayStep PROVE CommandInv'
<1>1. /\ TypeOK
      /\ UNCHANGED <<slug2cid, unread, pc, todo, held, subscribed, cpc, count, entry, pending,
                     asked>>
  BY DEF RelayStep, Identify, SessionBegins, SessionEnds, Deliver, loopVars,
         clientVars, CommandInv
<1>2. ASSUME NEW d \in Devices, Identify(d) PROVE TypeOK'
  BY <1>1, <1>2 DEF Identify, TypeOK
<1>3. ASSUME NEW d \in Devices, SessionBegins(d) PROVE TypeOK'
  BY <1>1, <1>3 DEF SessionBegins, Relay!Begins, TypeOK
<1>4. ASSUME NEW d \in Devices, SessionEnds(d) PROVE TypeOK'
  <2>1. /\ sessions' = sessions \ {d}
        /\ latest' \in IF latest # d THEN {latest}
                       ELSE IF sessions' = {} THEN {None} ELSE sessions'
        /\ UNCHANGED <<identified, wire, arrived>>
    BY <1>4 DEF SessionEnds, Relay!Ends
  <2>2. latest \in sessions \cup {None} /\ sessions \subseteq Devices
    BY <1>1 DEF TypeOK
  <2>3. latest' \in sessions' \cup {None} /\ sessions' \subseteq Devices
    BY <2>1, <2>2
  <2>4. QED
    BY <1>1, <2>1, <2>3 DEF TypeOK
<1>5. ASSUME Deliver PROVE TypeOK'
  <2>1. /\ wire # << >> /\ wire' = Tail(wire)
        /\ UNCHANGED <<identified, sessions, latest>>
    BY <1>5 DEF Deliver, relayVars
  <2>2. wire \in Seq(Inject) /\ sessions \subseteq Devices
    BY <1>1 DEF TypeOK
  <2>3. wire' \in Seq(Inject) /\ Head(wire) \in Inject
    BY <2>1, <2>2
  <2>4. Head(wire).for \in Devices
    BY <2>3 DEF Inject
  <2>5. arrived' \subseteq [for : Devices, at : Devices]
    <3> DEFINE to == IF Head(wire).names # None THEN Head(wire).names ELSE latest
    <3>1. arrived' = IF to \in sessions
                     THEN arrived \cup {[for |-> Head(wire).for, at |-> to]} ELSE arrived
      BY <1>5 DEF Deliver
    <3> HIDE DEF to
    <3>2. arrived \subseteq [for : Devices, at : Devices]
      BY <1>1 DEF TypeOK
    <3>3. QED
      BY <2>2, <2>4, <3>1, <3>2
  <2>6. QED
    BY <1>1, <2>1, <2>3, <2>5 DEF TypeOK
<1>6. TypeOK'
  BY <1>2, <1>3, <1>4, <1>5 DEF RelayStep
<1>7. QED
  BY <1>1, <1>6, CommandFrame

\* The invariant that the theorems on commands rest on.
THEOREM CommandInvariant == Spec => []CommandInv
<1>1. Init => CommandInv
  BY CommandInit
<1>2. CommandInv /\ [Next]_vars => CommandInv'
  <2>1. SUFFICES ASSUME CommandInv, [Next]_vars PROVE CommandInv'
    OBVIOUS
  <2>2. CASE UNCHANGED vars
    BY <2>1, <2>2 DEF vars, loopVars, clientVars, relayVars, CommandInv, TypeOK,
                      NothingAhead, Ahead, AskedIsSettled, PendingIsLatest
  <2>3. CASE LoopStep
    BY <2>1, <2>3, EmptyKeeps, StartCheckKeeps, FillKeeps, HoldKeeps, SettleKeeps
       DEF LoopStep
  <2>4. CASE ClientStep
    BY <2>1, <2>4, AcceptKeeps, SendInjectKeeps, RememberKeeps DEF ClientStep
  <2>5. CASE RelayStep
    BY <2>1, <2>5, RelayStepKeeps
  <2>6. CASE \E n \in Commands : Age(n)
    BY <2>1, <2>6, AgeKeeps
  <2>7. QED
    BY <2>1, <2>2, <2>3, <2>4, <2>5, <2>6 DEF Next
<1>3. QED
  BY <1>1, <1>2, PTL DEF Spec

\* What the threads share and the relay keeps has the form the code gives it:
\* _slug2cid holds identified devices only, and the latest session is one.
THEOREM CommandTypeCorrect == Spec => []TypeOK
<1>1. CommandInv => TypeOK
  BY DEF CommandInv
<1>2. QED
  BY <1>1, CommandInvariant, PTL

\* The STATUS_GET of a command goes out at most once, with any number of
\* devices and commands, though the client thread replaces the entry of a
\* command that the loop holds.
THEOREM NoCommandIsAskedForTwice == Spec => []AskedAtMostOnce
<1>1. CommandInv => AskedAtMostOnce
  BY DEF CommandInv, AskedIsSettled, AskedAtMostOnce, TypeOK
<1>2. QED
  BY <1>1, CommandInvariant, PTL

\* A round of the loop never brings an older command of a device back into
\* _pending.
THEOREM TheLatestCommandIsPending == Spec => []PendingIsLatest
<1>1. CommandInv => PendingIsLatest
  BY DEF CommandInv
<1>2. QED
  BY <1>1, CommandInvariant, PTL
=============================================================================
