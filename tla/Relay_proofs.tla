---------------------------- MODULE Relay_proofs ----------------------------
(***************************************************************************)
(* Proofs about the relay (vendor/smartrelay): about its registry of       *)
(* device sessions (RelaySessions), for any sets of connections, client    *)
(* ids and observers, and about its rules engine (RulesEngine), for any    *)
(* number of files, threads and edits.                                     *)
(***************************************************************************)
EXTENDS RelaySessions, RulesEngine, SequenceTheorems, TLAPS

(***************************************************************************)
(* The inductive invariant.  RegisteredIsUsable and ServedIsRegistered are *)
(* not inductive by themselves: that closing a displaced socket leaves the *)
(* registered ones open needs to know that a displaced session is in no    *)
(* entry and never gets back into one.                                     *)
(***************************************************************************)

\* A thread that serves has a client id; one that has not got to CONNECT has
\* none, and nobody has closed its socket; without a thread there is none.
ThreadState ==
    \A s \in Sessions :
        /\ pc[s] \in Serving => clientId[s] \in ClientIds
        /\ pc[s] \in {"idle", "open"} => clientId[s] = None
        /\ pc[s] = "open" => sockOpen[s]
        /\ pc[s] = "idle" => ~sockOpen[s]

\* A thread has a socket to close exactly while it is displacing; that
\* session is in no entry and has been connected.
VictimIsOut ==
    \A t \in Sessions :
        /\ pc[t] = "displacing" <=> victim[t] # None
        /\ victim[t] # None =>
            /\ pc[victim[t]] # "open"
            /\ \A c \in ClientIds : registry[c] # victim[t]

\* The insertion order lists the registered ids, each once.
OrderIsKeys ==
    /\ \A c \in ClientIds : registry[c] # None <=> \E i \in DOMAIN order : order[i] = c
    /\ \A i, j \in DOMAIN order : order[i] = order[j] => i = j

\* _latest is an id of the insertion order, or None when that is empty.
LatestInOrder ==
    IF latest = None THEN order = << >> ELSE \E i \in DOMAIN order : order[i] = latest

\* What an observer has located is a session that has been connected; one
\* that was asked for by its id had that id.  Between commands it has nothing.
EntryIsConnected ==
    \A o \in Observers :
        /\ opc[o] \in {"located", "writing"} =>
            /\ entry[o] \in Sessions
            /\ pc[entry[o]] # "open"
            /\ ask[o] # None => clientId[entry[o]] \in {ask[o], None}
            /\ ask[o] # None /\ opc[o] = "writing" => addressee[o] = ask[o]
        /\ opc[o] \in {"ready", "down"} => ask[o] = None /\ entry[o] = None
        /\ opc[o] # "writing" => addressee[o] = None

RegistryInv ==
    /\ TypeOK
    /\ RegisteredIsUsable
    /\ ServedIsRegistered
    /\ ThreadState
    /\ VictimIsOut
    /\ OrderIsKeys
    /\ LatestInOrder
    /\ EntryIsConnected

-----------------------------------------------------------------------------
\* What is left of a sequence when its i-th element is removed.
LEMMA RemoveAtElements ==
    ASSUME NEW S, NEW q \in Seq(S), NEW i \in DOMAIN q
    PROVE  /\ RemoveAt(q, i) \in Seq(S)
           /\ Len(RemoveAt(q, i)) = Len(q) - 1
           /\ \A j \in 1..(Len(q) - 1) :
                RemoveAt(q, i)[j] = IF j < i THEN q[j] ELSE q[j + 1]
<1> DEFINE head == SubSeq(q, 1, i - 1)
           tail == SubSeq(q, i + 1, Len(q))
<1>1. /\ i \in 1..Len(q)
      /\ Len(q) \in Nat
  BY LenProperties
<1>2. /\ head \in Seq(S)
      /\ Len(head) = i - 1
      /\ \A j \in 1..(i - 1) : head[j] = q[j]
  BY <1>1, ElementOfSeq
<1>3. /\ tail \in Seq(S)
      /\ Len(tail) = Len(q) - i
      /\ \A j \in 1..(Len(q) - i) : tail[j] = q[i + j]
  BY <1>1, ElementOfSeq
<1> HIDE DEF head, tail
<1>4. /\ i \in Int /\ Len(q) \in Int /\ 1 <= i /\ i <= Len(q)
      /\ Len(head) = i - 1 /\ Len(tail) = Len(q) - i
  BY <1>1, <1>2, <1>3
<1>5. /\ head \o tail \in Seq(S)
      /\ Len(head \o tail) = Len(head) + Len(tail)
      /\ \A j \in 1..(Len(head) + Len(tail)) :
            (head \o tail)[j] = IF j <= Len(head) THEN head[j]
                                ELSE tail[j - Len(head)]
  BY <1>2, <1>3, ConcatProperties
<1>6. RemoveAt(q, i) = head \o tail
  BY DEF RemoveAt, head, tail
<1>7. \A j \in 1..(Len(q) - 1) :
        RemoveAt(q, i)[j] = IF j < i THEN q[j] ELSE q[j + 1]
  <2> TAKE j \in 1..(Len(q) - 1)
  <2>1. CASE j < i
    <3>1. /\ j \in 1..(Len(head) + Len(tail))
          /\ j <= Len(head)
          /\ j \in 1..(i - 1)
      BY <2>1, <1>4
    <3>2. (head \o tail)[j] = head[j]
      BY <3>1, <1>5
    <3> QED
      BY <2>1, <3>1, <3>2, <1>2, <1>6
  <2>2. CASE ~(j < i)
    <3>1. /\ j \in 1..(Len(head) + Len(tail))
          /\ ~(j <= Len(head))
          /\ j - Len(head) \in 1..(Len(q) - i)
          /\ i + (j - Len(head)) = j + 1
      BY <2>2, <1>4
    <3>2. (head \o tail)[j] = tail[j - Len(head)]
      BY <3>1, <1>5
    <3> QED
      BY <2>2, <3>1, <3>2, <1>3, <1>6
  <2> QED
    BY <2>1, <2>2
<1>8. RemoveAt(q, i) \in Seq(S)
  BY <1>5, <1>6
<1>9. Len(RemoveAt(q, i)) = Len(q) - 1
  <2>1. Len(head) + Len(tail) = Len(q) - 1
    BY <1>4
  <2> QED
    BY <2>1, <1>5, <1>6, Zenon
<1> QED
  BY <1>7, <1>8, <1>9

-----------------------------------------------------------------------------
LEMMA InitEstablishes == Init => RegistryInv
<1> SUFFICES ASSUME Init PROVE RegistryInv
  OBVIOUS
<1>1. TypeOK
  BY NoneAssumption, EmptySeq
     DEF Init, TypeOK, SessionPC, ObserverPC
<1>2. /\ RegisteredIsUsable
      /\ ServedIsRegistered
      /\ ThreadState
      /\ VictimIsOut
  BY DEF Init, RegisteredIsUsable, ServedIsRegistered, ThreadState,
         VictimIsOut, Serving
<1>3. OrderIsKeys /\ LatestInOrder /\ EntryIsConnected
  BY DEF Init, OrderIsKeys, LatestInOrder, EntryIsConnected
<1> QED
  BY <1>1, <1>2, <1>3 DEF RegistryInv

\* A new connection: nothing refers to it, so nothing said of the others
\* changes.
LEMMA AcceptPreserves ==
    ASSUME RegistryInv, NEW s \in Sessions, Accept(s)
    PROVE  RegistryInv'
<1> USE NoneAssumption DEF RegistryInv, Accept, registryVars, observerVars
<1>1. TypeOK'
  BY DEF TypeOK, SessionPC
<1>2. \A c \in ClientIds : registry[c] # s
  BY DEF RegisteredIsUsable, Serving, TypeOK
<1>3. RegisteredIsUsable'
  BY <1>2 DEF RegisteredIsUsable, Serving, TypeOK
<1>4. ServedIsRegistered'
  BY DEF ServedIsRegistered, Serving, TypeOK
<1>5. ThreadState'
  BY DEF ThreadState, Serving, TypeOK
<1>6. VictimIsOut'
  BY DEF VictimIsOut, Referenced, TypeOK
<1>7. OrderIsKeys' /\ LatestInOrder'
  BY DEF OrderIsKeys, LatestInOrder
<1>8. EntryIsConnected'
  BY DEF EntryIsConnected, Referenced, TypeOK
<1> QED
  BY <1>1, <1>3, <1>4, <1>5, <1>6, <1>7, <1>8

\* CONNECT: the entry of c moves to s, and the session it held before, if
\* any, becomes the victim of s.
LEMMA RegisterPreserves ==
    ASSUME RegistryInv, NEW s \in Sessions, NEW c \in ClientIds, Register(s, c)
    PROVE  RegistryInv'
<1> USE NoneAssumption DEF RegistryInv, Register, observerVars
<1>1. TypeOK'
  BY AppendProperties DEF TypeOK, SessionPC
<1>2. /\ \A d \in ClientIds : registry[d] # s
      /\ \A t \in Sessions : victim[t] # s
      /\ \A o \in Observers : opc[o] \in {"located", "writing"} => entry[o] # s
  BY DEF RegisteredIsUsable, VictimIsOut, EntryIsConnected, Serving, TypeOK
<1>3. RegisteredIsUsable'
  BY <1>2 DEF RegisteredIsUsable, ThreadState, Serving, TypeOK
<1>4. ServedIsRegistered'
  <2> SUFFICES ASSUME NEW t \in Sessions, pc'[t] \in Serving,
                      registry'[clientId'[t]] # t
               PROVE  ~sockOpen'[t] \/ \E u \in Sessions : victim'[u] = t
    BY DEF ServedIsRegistered
  <2>1. /\ t # s
        /\ pc[t] \in Serving
        /\ clientId'[t] = clientId[t]
        /\ clientId[t] \in ClientIds
    BY DEF ThreadState, Serving, TypeOK
  <2>2. CASE registry[clientId[t]] = t
    BY <2>1, <2>2 DEF TypeOK
  <2>3. CASE registry[clientId[t]] # t
    <3>1. ~sockOpen[t] \/ \E u \in Sessions : victim[u] = t /\ u # s
      BY <2>1, <2>3 DEF ServedIsRegistered, VictimIsOut
    <3> QED
      BY <3>1 DEF TypeOK
  <2> QED
    BY <2>2, <2>3
<1>5. ThreadState'
  BY DEF ThreadState, Serving, TypeOK
<1>6. VictimIsOut'
  BY <1>2 DEF VictimIsOut, RegisteredIsUsable, Serving, TypeOK
<1>7. OrderIsKeys'
  <2>1. CASE registry[c] # None
    BY <2>1 DEF OrderIsKeys, TypeOK
  <2>2. CASE registry[c] = None
    <3>1. /\ order \in Seq(ClientIds)
          /\ order' = Append(order, c)
          /\ Len(order) \in Nat
          /\ DOMAIN order = 1..Len(order)
      BY <2>2, LenProperties DEF TypeOK
    <3>2. /\ DOMAIN order' = 1..(Len(order) + 1)
          /\ \A i \in 1..Len(order) : order'[i] = order[i]
          /\ order'[Len(order) + 1] = c
      BY <3>1, AppendProperties, LenProperties
    <3>3. \A i \in 1..Len(order) : order[i] # c
      BY <2>2, <3>1 DEF OrderIsKeys
    <3>4. \A d \in ClientIds :
            registry'[d] # None <=> \E i \in DOMAIN order' : order'[i] = d
      <4> TAKE d \in ClientIds
      <4>1. CASE d = c
        BY <4>1, <3>1, <3>2 DEF TypeOK
      <4>2. CASE d # c
        BY <4>2, <3>1, <3>2 DEF OrderIsKeys, TypeOK
      <4> QED
        BY <4>1, <4>2
    <3>5. \A i, j \in DOMAIN order' : order'[i] = order'[j] => i = j
      BY <3>1, <3>2, <3>3 DEF OrderIsKeys
    <3> QED
      BY <3>4, <3>5 DEF OrderIsKeys
  <2> QED
    BY <2>1, <2>2
<1>8. LatestInOrder'
  BY AppendProperties DEF LatestInOrder, OrderIsKeys, TypeOK
<1>9. EntryIsConnected'
  BY <1>2 DEF EntryIsConnected, TypeOK
<1> QED
  BY <1>1, <1>3, <1>4, <1>5, <1>6, <1>7, <1>8, <1>9

\* The victim is closed: it is in no entry, so no registered socket closes.
LEMMA CloseDisplacedPreserves ==
    ASSUME RegistryInv, NEW s \in Sessions, CloseDisplaced(s)
    PROVE  RegistryInv'
<1> USE NoneAssumption DEF RegistryInv, CloseDisplaced, registryVars, observerVars
<1>1. TypeOK'
  BY DEF TypeOK, SessionPC
<1>2. victim[s] \in Sessions
  BY DEF VictimIsOut, TypeOK
<1>3. RegisteredIsUsable'
  BY <1>2 DEF RegisteredIsUsable, VictimIsOut, Serving, TypeOK
<1>4. ServedIsRegistered'
  BY <1>2 DEF ServedIsRegistered, Serving, TypeOK
<1>5. ThreadState' /\ VictimIsOut'
  BY <1>2 DEF ThreadState, VictimIsOut, Serving, TypeOK
<1>6. OrderIsKeys' /\ LatestInOrder' /\ EntryIsConnected'
  BY DEF OrderIsKeys, LatestInOrder, EntryIsConnected, TypeOK
<1> QED
  BY <1>1, <1>3, <1>4, <1>5, <1>6

\* CONNACK, the end of the receive loop, and a connection that never becomes
\* a session only move the thread.
LEMMA MovePreserves ==
    ASSUME RegistryInv, NEW s \in Sessions,
           Greet(s) \/ DeviceGone(s) \/ NoSession(s) \/ Displaced(s)
    PROVE  RegistryInv'
<1> USE NoneAssumption
    DEF RegistryInv, Greet, DeviceGone, NoSession, Displaced, registryVars, observerVars
<1>1. /\ pc[s] \in {"greeting", "live", "open"}
      /\ \E p \in {"live", "ending", "closing"} :
            /\ pc' = [pc EXCEPT ![s] = p]
            /\ pc[s] = "open" <=> p = "closing"
      /\ UNCHANGED <<clientId, sockOpen, victim, registryVars, observerVars>>
  BY DEF TypeOK
<1>2. TypeOK'
  BY <1>1 DEF TypeOK, SessionPC
<1>3. RegisteredIsUsable'
  BY <1>1 DEF RegisteredIsUsable, Serving, TypeOK
<1>4. ServedIsRegistered'
  BY <1>1 DEF ServedIsRegistered, Serving, TypeOK
<1>5. ThreadState' /\ VictimIsOut'
  BY <1>1 DEF ThreadState, VictimIsOut, Serving, TypeOK
<1>6. OrderIsKeys' /\ LatestInOrder' /\ EntryIsConnected'
  BY <1>1 DEF OrderIsKeys, LatestInOrder, EntryIsConnected, TypeOK
<1> QED
  BY <1>2, <1>3, <1>4, <1>5, <1>6

\* Evicting a registered id keeps the insertion order the list of the keys,
\* and leaves a key, if there is one, as the latest.
LEMMA EvictKeepsOrder ==
    ASSUME TypeOK, OrderIsKeys, LatestInOrder,
           NEW c \in ClientIds, registry[c] # None, Evict(c)
    PROVE  /\ order' \in Seq(ClientIds)
           /\ latest' \in ClientIds \cup {None}
           /\ OrderIsKeys'
           /\ LatestInOrder'
<1> DEFINE i == PositionOf(c)
           n == Len(order)
           rest == RemoveAt(order, i)
<1>1. /\ order \in Seq(ClientIds)
      /\ n \in Nat
      /\ DOMAIN order = 1..n
      /\ \A j \in 1..n : order[j] \in ClientIds
  BY LenProperties, ElementOfSeq DEF TypeOK
<1>2. i \in DOMAIN order /\ order[i] = c
  BY DEF OrderIsKeys, PositionOf
<1>3. /\ rest \in Seq(ClientIds)
      /\ Len(rest) = n - 1
      /\ \A j \in 1..(n - 1) : rest[j] = IF j < i THEN order[j] ELSE order[j + 1]
  BY <1>1, <1>2, RemoveAtElements
<1>4. /\ order' = rest
      /\ registry' = [registry EXCEPT ![c] = None]
      /\ latest' = IF latest # c THEN latest
                   ELSE IF rest = << >> THEN None ELSE Last(rest)
  BY DEF Evict
<1> HIDE DEF i, n, rest
<1>5. DOMAIN rest = 1..(n - 1)
  BY <1>3, LenProperties
\* Every other element of the order is still there, and c is not.
<1>6. \A j \in 1..n : j # i => \E k \in 1..(n - 1) : rest[k] = order[j]
  <2> SUFFICES ASSUME NEW j \in 1..n, j # i
               PROVE  \E k \in 1..(n - 1) : rest[k] = order[j]
    OBVIOUS
  <2>1. CASE j < i
    <3>1. j \in 1..(n - 1) /\ rest[j] = order[j]
      BY <2>1, <1>1, <1>2, <1>3
    <3> QED
      BY <3>1
  <2>2. CASE ~(j < i)
    <3>1. /\ j - 1 \in 1..(n - 1)
          /\ ~(j - 1 < i)
          /\ (j - 1) + 1 = j
      BY <2>2, <1>1, <1>2
    <3>2. rest[j - 1] = order[j]
      BY <3>1, <1>3
    <3> QED
      BY <3>1, <3>2
  <2> QED
    BY <2>1, <2>2
<1>7. \A k \in 1..(n - 1) : \E j \in 1..n : j # i /\ rest[k] = order[j]
  BY <1>1, <1>2, <1>3
<1>8. \A d \in ClientIds :
        registry'[d] # None <=> \E k \in DOMAIN order' : order'[k] = d
  <2> TAKE d \in ClientIds
  <2>1. CASE d = c
    <3>1. \A k \in 1..(n - 1) : rest[k] # c
      BY <1>1, <1>2, <1>7 DEF OrderIsKeys
    <3> QED
      BY <2>1, <3>1, <1>4, <1>5 DEF TypeOK
  <2>2. CASE d # c
    <3>1. registry'[d] = registry[d]
      BY <2>2, <1>4 DEF TypeOK
    <3>2. registry[d] # None <=> \E j \in 1..n : order[j] = d
      BY <1>1 DEF OrderIsKeys
    <3>3. \A j \in 1..n : order[j] = d => j # i
      BY <2>2, <1>2
    <3> QED
      BY <3>1, <3>2, <3>3, <1>4, <1>5, <1>6, <1>7
  <2> QED
    BY <2>1, <2>2
<1>9. \A k, l \in DOMAIN order' : order'[k] = order'[l] => k = l
  <2> SUFFICES ASSUME NEW k \in 1..(n - 1), NEW l \in 1..(n - 1), rest[k] = rest[l]
               PROVE  k = l
    BY <1>4, <1>5
  <2> DEFINE at(x) == IF x < i THEN x ELSE x + 1
  <2>1. /\ at(k) \in 1..n
        /\ at(l) \in 1..n
        /\ rest[k] = order[at(k)]
        /\ rest[l] = order[at(l)]
    BY <1>1, <1>2, <1>3
  <2>2. at(k) = at(l)
    <3> HIDE DEF at
    <3>1. \A x, y \in 1..n : order[x] = order[y] => x = y
      BY <1>1 DEF OrderIsKeys
    <3>2. order[at(k)] = order[at(l)]
      BY <2>1
    <3> QED
      BY <2>1, <3>1, <3>2
  <2> QED
    BY <2>2, <1>1, <1>2
<1>10. LatestInOrder' /\ latest' \in ClientIds \cup {None}
  <2>1. CASE latest # c
    <3>1. latest' = latest
      BY <2>1, <1>4
    <3>2. latest # None
      BY <1>1, <1>2, EmptySeq DEF LatestInOrder
    <3>3. \E j \in 1..n : j # i /\ order[j] = latest
      BY <2>1, <3>2, <1>1, <1>2 DEF LatestInOrder
    <3>4. \E k \in DOMAIN order' : order'[k] = latest'
      BY <3>1, <3>3, <1>4, <1>5, <1>6
    <3> QED
      BY <3>1, <3>2, <3>4 DEF LatestInOrder, TypeOK
  <2>2. CASE latest = c /\ rest = << >>
    BY <2>2, <1>4 DEF LatestInOrder
  <2>3. CASE latest = c /\ rest # << >>
    <3>1. n - 1 \in DOMAIN rest /\ Last(rest) = rest[n - 1]
      BY <2>3, <1>1, <1>2, <1>3, <1>5, EmptySeq DEF Last
    <3>2. latest' = rest[n - 1] /\ rest[n - 1] \in ClientIds
      BY <2>3, <3>1, <1>3, <1>4, ElementOfSeq, <1>5
    <3> QED
      BY <3>1, <3>2, <1>4, NoneAssumption DEF LatestInOrder
  <2> QED
    BY <2>1, <2>2, <2>3
<1> QED
  BY <1>3, <1>4, <1>8, <1>9, <1>10 DEF OrderIsKeys

\* on_close: only the registered session takes its own entry away; what is
\* displaced already has no entry.
LEMMA UnregisterPreserves ==
    ASSUME RegistryInv, NEW s \in Sessions, Unregister(s)
    PROVE  RegistryInv'
<1> USE NoneAssumption DEF RegistryInv, Unregister, registryVars, observerVars
<1>1. /\ clientId[s] \in ClientIds
      /\ pc[s] = "ending"
      /\ pc' = [pc EXCEPT ![s] = "closing"]
      /\ UNCHANGED <<clientId, sockOpen, victim, observerVars>>
  BY DEF ThreadState, Serving
<1>2. /\ registry' = [registry EXCEPT ![clientId[s]] =
                        IF registry[clientId[s]] = s THEN None ELSE @]
      /\ order' \in Seq(ClientIds)
      /\ latest' \in ClientIds \cup {None}
      /\ OrderIsKeys'
      /\ LatestInOrder'
  <2>1. CASE registry[clientId[s]] = s
    <3>1. Evict(clientId[s]) /\ registry[clientId[s]] # None
      BY <2>1
    <3> QED
      BY <1>1, <2>1, <3>1, EvictKeepsOrder DEF Evict
  <2>2. CASE registry[clientId[s]] # s
    BY <1>1, <2>2 DEF OrderIsKeys, LatestInOrder, TypeOK
  <2> QED
    BY <2>1, <2>2
<1>3. TypeOK'
  BY <1>1, <1>2 DEF TypeOK, SessionPC
<1>4. /\ \A c \in ClientIds : registry'[c] = registry[c] \/ registry'[c] = None
      /\ \A c \in ClientIds : registry'[c] # s
      /\ \A c \in ClientIds : registry[c] # s => registry'[c] = registry[c]
  BY <1>1, <1>2 DEF RegisteredIsUsable, TypeOK
<1>5. RegisteredIsUsable'
  BY <1>1, <1>4 DEF RegisteredIsUsable, Serving, TypeOK
<1>6. ServedIsRegistered'
  <2> SUFFICES ASSUME NEW t \in Sessions, pc'[t] \in Serving
               PROVE  \/ registry'[clientId'[t]] = t
                      \/ ~sockOpen'[t]
                      \/ \E u \in Sessions : victim'[u] = t
    BY DEF ServedIsRegistered
  <2>1. t # s /\ pc[t] \in Serving /\ clientId[t] \in ClientIds
    BY <1>1 DEF ThreadState, Serving, TypeOK
  <2> QED
    BY <2>1, <1>1, <1>4 DEF ServedIsRegistered
<1>7. ThreadState'
  BY <1>1 DEF ThreadState, Serving, TypeOK
<1>8. VictimIsOut'
  BY <1>1, <1>4 DEF VictimIsOut, TypeOK
<1>9. EntryIsConnected'
  BY <1>1 DEF EntryIsConnected, TypeOK
<1> QED
  BY <1>2, <1>3, <1>5, <1>6, <1>7, <1>8, <1>9

\* The thread ends: its session is in no entry by then.
LEMMA CloseOwnPreserves ==
    ASSUME RegistryInv, NEW s \in Sessions, CloseOwn(s)
    PROVE  RegistryInv'
<1> USE NoneAssumption DEF RegistryInv, CloseOwn, registryVars, observerVars
<1>1. TypeOK'
  BY DEF TypeOK, SessionPC
<1>2. \A c \in ClientIds : registry[c] # s
  BY DEF RegisteredIsUsable, Serving, TypeOK
<1>3. RegisteredIsUsable'
  BY <1>2 DEF RegisteredIsUsable, Serving, TypeOK
<1>4. ServedIsRegistered'
  BY DEF ServedIsRegistered, Serving, TypeOK
<1>5. ThreadState' /\ VictimIsOut'
  BY DEF ThreadState, VictimIsOut, Serving, TypeOK
<1>6. OrderIsKeys' /\ LatestInOrder'
  BY DEF OrderIsKeys, LatestInOrder
<1>7. EntryIsConnected'
  BY DEF EntryIsConnected, TypeOK
<1> QED
  BY <1>1, <1>3, <1>4, <1>5, <1>6, <1>7

\* The observers change nothing of the sessions.
LEMMA ObserverPreserves ==
    ASSUME RegistryInv, NEW o \in Observers, ObserverStep(o)
    PROVE  RegistryInv'
<1> USE NoneAssumption DEF RegistryInv, sessionVars, registryVars
<1>1. UNCHANGED <<sessionVars, registryVars>>
  BY DEF ObserverStep, Locate, Address, Write, ObserverReconnect
<1>2. /\ RegisteredIsUsable'
      /\ ServedIsRegistered'
      /\ ThreadState'
      /\ VictimIsOut'
  BY <1>1 DEF RegisteredIsUsable, ServedIsRegistered, ThreadState, VictimIsOut
<1>3. OrderIsKeys' /\ LatestInOrder'
  BY <1>1 DEF OrderIsKeys, LatestInOrder
<1>4. CASE \E target \in ClientIds \cup {None} : Locate(o, target)
  <2> PICK target \in ClientIds \cup {None} : Locate(o, target)
    BY <1>4
  <2>1. /\ Lookup(target) \in Sessions
        /\ \E c \in ClientIds : registry[c] = Lookup(target) /\ (target # None => c = target)
    BY DEF Locate, Lookup, TypeOK
  <2>2. /\ pc[Lookup(target)] # "open"
        /\ target # None => clientId[Lookup(target)] = target
    BY <2>1 DEF RegisteredIsUsable, Serving
  <2>3. TypeOK'
    BY <2>1, <1>1 DEF TypeOK, Locate, ObserverPC
  <2>4. EntryIsConnected'
    BY <2>1, <2>2, <1>1 DEF EntryIsConnected, Locate, TypeOK
  <2> QED
    BY <2>3, <2>4, <1>2, <1>3
<1>5. CASE Address(o)
  <2>1. TypeOK'
    BY <1>5, <1>1 DEF TypeOK, Address, Forget, ObserverPC
  <2>2. EntryIsConnected'
    BY <1>5, <1>1 DEF EntryIsConnected, Address, Forget, TypeOK
  <2> QED
    BY <2>1, <2>2, <1>2, <1>3
<1>6. CASE Write(o)
  <2>1. TypeOK'
    BY <1>6, <1>1 DEF TypeOK, Write, Forget, ObserverPC
  <2>2. EntryIsConnected'
    BY <1>6, <1>1 DEF EntryIsConnected, Write, Forget, TypeOK
  <2> QED
    BY <2>1, <2>2, <1>2, <1>3
<1>7. CASE ObserverReconnect(o)
  <2>1. TypeOK'
    BY <1>7, <1>1 DEF TypeOK, ObserverReconnect, ObserverPC
  <2>2. EntryIsConnected'
    BY <1>7, <1>1 DEF EntryIsConnected, ObserverReconnect, TypeOK
  <2> QED
    BY <2>1, <2>2, <1>2, <1>3
<1> QED
  BY <1>4, <1>5, <1>6, <1>7 DEF ObserverStep

LEMMA StutterPreserves == RegistryInv /\ UNCHANGED vars => RegistryInv'
  BY DEF RegistryInv, vars, sessionVars, registryVars, observerVars, TypeOK,
         RegisteredIsUsable, ServedIsRegistered, ThreadState, VictimIsOut,
         OrderIsKeys, LatestInOrder, EntryIsConnected

-----------------------------------------------------------------------------
\* The invariant holds in every state of every behaviour.
THEOREM RegistryInvariant == Spec => []RegistryInv
<1>1. RegistryInv /\ [Next]_vars => RegistryInv'
  <2> SUFFICES ASSUME RegistryInv, Next PROVE RegistryInv'
    BY StutterPreserves
  <2>1. ASSUME NEW s \in Sessions, SessionStep(s) PROVE RegistryInv'
    BY <2>1, AcceptPreserves, RegisterPreserves, CloseDisplacedPreserves,
       MovePreserves, UnregisterPreserves, CloseOwnPreserves DEF SessionStep
  <2>2. ASSUME NEW o \in Observers, ObserverStep(o) PROVE RegistryInv'
    BY <2>2, ObserverPreserves
  <2> QED
    BY <2>1, <2>2 DEF Next
<1> QED
  BY <1>1, InitEstablishes, PTL DEF Spec

\* Every variable keeps its type.
THEOREM TypeCorrect == Spec => []TypeOK
<1>1. RegistryInv => TypeOK
  BY DEF RegistryInv
<1> QED
  BY <1>1, RegistryInvariant, PTL

\* Whatever the number of devices, reconnects and observers, the registry
\* hands out no session that has ended or whose socket the relay has closed.
THEOREM RegistryHandsOutUsableSessions == Spec => []RegisteredIsUsable
<1>1. RegistryInv => RegisteredIsUsable
  BY DEF RegistryInv
<1> QED
  BY <1>1, RegistryInvariant, PTL

\* No interleaving of registrations and late closes drops a session from the
\* registry that nobody has displaced.
THEOREM NoServedSessionIsLost == Spec => []ServedIsRegistered
<1>1. RegistryInv => ServedIsRegistered
  BY DEF RegistryInv
<1> QED
  BY <1>1, RegistryInvariant, PTL

\* A command without a target finds a session whenever one is registered.
THEOREM LatestAlwaysRegistered == Spec => []LatestIsRegistered
<1>1. RegistryInv => LatestIsRegistered
  <2> SUFFICES ASSUME RegistryInv PROVE LatestIsRegistered
    OBVIOUS
  <2>1. order \in Seq(ClientIds) /\ DOMAIN order = 1..Len(order)
    BY LenProperties DEF RegistryInv, TypeOK
  <2>2. CASE latest = None
    BY <2>1, <2>2, EmptySeq
       DEF RegistryInv, LatestInOrder, OrderIsKeys, LatestIsRegistered
  <2>3. CASE latest # None
    <3>1. latest \in ClientIds
      BY <2>3 DEF RegistryInv, TypeOK
    <3> QED
      BY <2>3, <3>1 DEF RegistryInv, LatestInOrder, OrderIsKeys, LatestIsRegistered
  <2> QED
    BY <2>2, <2>3
<1> QED
  BY <1>1, RegistryInvariant, PTL

\* The registry of DeviceRegistry is exact, whatever the interleaving of
\* sessions that register, displace each other and end.
THEOREM RegistryExact == Spec => []RegistryIsExact
<1>1. RegisteredIsUsable /\ ServedIsRegistered /\ LatestIsRegistered => RegistryIsExact
  BY DEF RegistryIsExact
<1> QED
  BY <1>1, RegistryHandsOutUsableSessions, NoServedSessionIsLost, LatestAlwaysRegistered, PTL

\* A command that names a device is never written to another device's socket.
THEOREM TargetedCommandsStayOnTarget == Spec => []TargetedWrite
<1>1. RegistryInv => TargetedWrite
  BY DEF RegistryInv, EntryIsConnected, TargetedWrite
<1> QED
  BY <1>1, RegistryInvariant, PTL

\* A stale session that closes late evicts no other session.
THEOREM StaleCloseEvictsNobody == Spec => OnlyOwnerEvicts
<1> DEFINE OwnerEvicts ==
        \A c \in ClientIds : registry[c] # None /\ registry'[c] = None =>
            pc[registry[c]] = "ending" /\ pc'[registry[c]] = "closing"
<1>1. RegistryInv /\ [Next]_vars => [OwnerEvicts]_vars
  <2> SUFFICES ASSUME RegistryInv, Next,
                      NEW c \in ClientIds, registry[c] # None, registry'[c] = None
               PROVE  pc[registry[c]] = "ending" /\ pc'[registry[c]] = "closing"
    BY DEF vars
  <2> USE NoneAssumption DEF RegistryInv, TypeOK
  <2>1. ~ UNCHANGED registry
    OBVIOUS
  <2>2. PICK s \in Sessions : SessionStep(s)
    BY <2>1 DEF Next, ObserverStep, Locate, Address, Write, ObserverReconnect, registryVars
  <2>3. ASSUME NEW d \in ClientIds, Register(s, d) PROVE FALSE
    BY <2>3 DEF Register
  <2>4. Unregister(s)
    BY <2>1, <2>2, <2>3 DEF SessionStep, Accept, CloseDisplaced, Greet, DeviceGone,
       NoSession, Displaced, CloseOwn, registryVars
  <2>5. c = clientId[s] /\ registry[c] = s
    BY <2>1, <2>4 DEF Unregister, Evict, registryVars
  <2> QED
    BY <2>4, <2>5 DEF Unregister
<1> QED
  BY <1>1, RegistryInvariant, PTL DEF Spec, OnlyOwnerEvicts

-----------------------------------------------------------------------------
(***************************************************************************)
(* The registry implements the directory.  Every step of a session thread  *)
(* and of an observer is mapped to a step of the directory, or to none.    *)
(***************************************************************************)

\* What the directory sees of the threads.
SessionLives == [t \in Sessions |-> Life(pc[t])]

\* A thread that goes from one place to another changes its own life only.
LEMMA LifeMoves ==
    ASSUME TypeOK, NEW s \in Sessions, NEW at \in SessionPC, pc' = [pc EXCEPT ![s] = at]
    PROVE  /\ SessionLives' = [SessionLives EXCEPT ![s] = Life(at)]
           /\ Life(at) = Life(pc[s]) => UNCHANGED SessionLives
<1> DEFINE life(p) == [t \in Sessions |-> Life(p[t])]
<1>1. pc \in [Sessions -> SessionPC] /\ pc' \in [Sessions -> SessionPC]
  BY DEF TypeOK
<1>2. \A t \in Sessions : pc'[t] = IF t = s THEN at ELSE pc[t]
  BY <1>1
<1> HIDE DEF Life
<1>3. \A t \in Sessions : life(pc')[t] = IF t = s THEN Life(at) ELSE life(pc)[t]
  BY <1>2
<1>4. life(pc') = [life(pc) EXCEPT ![s] = Life(at)]
  BY <1>3
<1>5. Life(at) = Life(pc[s]) => life(pc') = life(pc)
  BY <1>2
<1> QED
  BY <1>4, <1>5 DEF SessionLives

\* The places that make a life.
LEMMA Lives ==
    /\ Life("idle") = "none" /\ Life("open") = "new" /\ Life("closing") = "over"
    /\ \A at \in Serving : Life(at) = "served"
    /\ Serving \subseteq SessionPC /\ {"idle", "open", "closing"} \subseteq SessionPC
  BY DEF Life, Serving, SessionPC

LEMMA DirectoryInit == Init => Directory!Init
  BY Lives DEF Init, InHand, Directory!Init, Directory!Nothing

LEMMA AcceptIsConnect ==
    ASSUME RegistryInv, NEW s \in Sessions, Accept(s) PROVE Directory!Connect(s)
<1>1. /\ pc[s] = "idle" /\ pc' = [pc EXCEPT ![s] = "open"]
      /\ sockOpen' = [sockOpen EXCEPT ![s] = TRUE]
      /\ \A o \in Observers : entry[o] # s
      /\ UNCHANGED <<clientId, registry, latest, ask, entry, addressee>>
  BY DEF Accept, Referenced, registryVars, observerVars
<1>2. SessionLives' = [SessionLives EXCEPT ![s] = "new"]
  BY <1>1, Lives, LifeMoves DEF RegistryInv
<1> QED
  BY <1>1, <1>2, Lives DEF InHand, SessionLives, Directory!Connect

LEMMA RegisterIsBegin ==
    ASSUME RegistryInv, NEW s \in Sessions, NEW c \in ClientIds, Register(s, c)
    PROVE  Directory!Begin(s, c)
<1>1. /\ pc[s] = "open"
      /\ clientId' = [clientId EXCEPT ![s] = c]
      /\ registry' = [registry EXCEPT ![c] = s] /\ latest' = c
      /\ UNCHANGED <<sockOpen, ask, entry, addressee>>
      /\ \E at \in {"greeting", "displacing"} : pc' = [pc EXCEPT ![s] = at]
  BY DEF Register, observerVars
<1>2. SessionLives' = [SessionLives EXCEPT ![s] = "served"]
  <2>1. PICK at \in {"greeting", "displacing"} : pc' = [pc EXCEPT ![s] = at]
    BY <1>1
  <2>2. at \in Serving
    BY DEF Serving
  <2> QED
    BY <2>1, <2>2, Lives, LifeMoves DEF RegistryInv
<1> QED
  BY <1>1, <1>2, Lives DEF InHand, SessionLives, Directory!Begin

\* What is closed is out of the registry, so it is superseded; a thread that
\* has ended by then has closed it itself.
LEMMA CloseDisplacedIsCut ==
    ASSUME RegistryInv, NEW s \in Sessions, CloseDisplaced(s)
    PROVE  Directory!Cut(victim[s]) \/ UNCHANGED Directory!vars
<1> DEFINE v == victim[s]
<1>1. /\ pc[s] = "displacing" /\ pc' = [pc EXCEPT ![s] = "greeting"]
      /\ sockOpen' = [sockOpen EXCEPT ![v] = FALSE]
      /\ UNCHANGED <<clientId, registry, latest, ask, entry, addressee>>
  BY DEF CloseDisplaced, registryVars, observerVars
<1>2. /\ v \in Sessions /\ pc[v] # "open"
      /\ \A c \in ClientIds : registry[c] # v
      /\ pc[v] = "idle" => ~sockOpen[v]
      /\ pc \in [Sessions -> SessionPC] /\ sockOpen \in [Sessions -> BOOLEAN]
  BY <1>1 DEF RegistryInv, VictimIsOut, ThreadState, TypeOK
<1>3. UNCHANGED SessionLives
  <2>1. "displacing" \in Serving /\ "greeting" \in Serving
    BY DEF Serving
  <2> QED
    BY <2>1, <1>1, Lives, LifeMoves DEF RegistryInv
<1> HIDE DEF v
<1>4. CASE pc[v] = "idle"
  <2>1. sockOpen' = sockOpen
    BY <1>1, <1>2, <1>4
  <2> QED
    BY <2>1, <1>1, <1>3 DEF InHand, SessionLives, Directory!vars
<1>5. CASE pc[v] # "idle"
  <2>1. pc[v] \in Serving \/ pc[v] = "closing"
    BY <1>2, <1>5 DEF SessionPC, Serving
  <2>2. Life(pc[v]) \in {"served", "over"}
    BY <2>1, Lives
  <2>3. Directory!Cut(v)
    BY <2>2, <1>1, <1>2, <1>3 DEF InHand, SessionLives, Directory!Cut
  <2> QED
    BY <2>3 DEF v
<1> QED
  BY <1>4, <1>5

\* CONNACK and the end of the receive loop are nothing to the directory.
LEMMA MoveIsNothing ==
    ASSUME RegistryInv, NEW s \in Sessions, Greet(s) \/ DeviceGone(s) \/ Displaced(s)
    PROVE  UNCHANGED Directory!vars
<1>1. /\ pc[s] \in {"greeting", "live"}
      /\ \E at \in {"live", "ending"} : pc' = [pc EXCEPT ![s] = at]
      /\ UNCHANGED <<clientId, sockOpen, registry, latest, ask, entry, addressee>>
  BY DEF Greet, DeviceGone, Displaced, registryVars, observerVars
<1>2. PICK at \in {"live", "ending"} : pc' = [pc EXCEPT ![s] = at]
  BY <1>1
<1>3. pc[s] \in Serving /\ at \in Serving
  BY <1>1 DEF Serving
<1>4. UNCHANGED SessionLives
  BY <1>2, <1>3, Lives, LifeMoves DEF RegistryInv
<1> QED
  BY <1>1, <1>4 DEF InHand, SessionLives, Directory!vars

LEMMA NoSessionNeverBegins ==
    ASSUME RegistryInv, NEW s \in Sessions, NoSession(s) PROVE Directory!NeverBegins(s)
<1>1. /\ pc[s] = "open" /\ pc' = [pc EXCEPT ![s] = "closing"]
      /\ UNCHANGED <<clientId, sockOpen, registry, latest, ask, entry, addressee>>
  BY DEF NoSession, registryVars, observerVars
<1>2. SessionLives' = [SessionLives EXCEPT ![s] = "over"]
  BY <1>1, Lives, LifeMoves DEF RegistryInv
<1> QED
  BY <1>1, <1>2, Lives DEF InHand, SessionLives, Directory!NeverBegins

\* The last key of the dict is some id that is present.
LEMMA EvictIsLeave ==
    ASSUME TypeOK, OrderIsKeys, LatestInOrder,
           NEW c \in ClientIds, registry[c] # None, Evict(c)
    PROVE  Directory!Leave(c)
<1>1. /\ registry' = [registry EXCEPT ![c] = None]
      /\ latest # c => latest' = latest
      /\ registry \in [ClientIds -> Sessions \cup {None}]
  BY DEF Evict, TypeOK
<1>2. /\ order' \in Seq(ClientIds) /\ latest' \in ClientIds \cup {None}
      /\ OrderIsKeys' /\ LatestInOrder'
  BY EvictKeepsOrder
<1>3. latest' = None => Directory!Present = {c}
  <2> SUFFICES ASSUME latest' = None PROVE \A d \in ClientIds : registry[d] # None => d = c
    BY DEF Directory!Present
  <2>1. \A d \in ClientIds : registry'[d] = None
    BY <1>2, EmptySeq DEF OrderIsKeys, LatestInOrder
  <2> QED
    BY <2>1, <1>1
<1>4. latest' # None => latest' \in Directory!Present \ {c}
  <2> SUFFICES ASSUME latest' # None PROVE latest' \in Directory!Present \ {c}
    OBVIOUS
  <2>1. latest' \in ClientIds /\ registry'[latest'] # None
    BY <1>2 DEF OrderIsKeys, LatestInOrder
  <2> QED
    BY <2>1, <1>1 DEF Directory!Present
<1> QED
  BY <1>1, <1>3, <1>4 DEF Directory!Leave

LEMMA UnregisterIsEnd ==
    ASSUME RegistryInv, NEW s \in Sessions, Unregister(s) PROVE Directory!End(s)
<1>1. /\ pc[s] = "ending" /\ pc' = [pc EXCEPT ![s] = "closing"]
      /\ UNCHANGED <<clientId, sockOpen, ask, entry, addressee>>
      /\ clientId[s] \in ClientIds
  BY DEF Unregister, observerVars, RegistryInv, ThreadState, Serving
<1>2. SessionLives' = [SessionLives EXCEPT ![s] = "over"]
  BY <1>1, Lives, LifeMoves DEF RegistryInv
<1>3. Life(pc[s]) = "served"
  BY <1>1, Lives DEF Serving
<1>4. IF registry[clientId[s]] = s
      THEN Directory!Leave(clientId[s]) ELSE UNCHANGED <<registry, latest>>
  <2>1. CASE registry[clientId[s]] = s
    <3>1. Evict(clientId[s]) /\ registry[clientId[s]] # None
      BY <2>1, NoneAssumption DEF Unregister
    <3> QED
      BY <2>1, <3>1, <1>1, EvictIsLeave DEF RegistryInv
  <2>2. CASE registry[clientId[s]] # s
    BY <2>2 DEF Unregister, registryVars
  <2> QED
    BY <2>1, <2>2
<1> QED
  BY <1>1, <1>2, <1>3, <1>4 DEF InHand, SessionLives, Directory!End

LEMMA CloseOwnIsClose ==
    ASSUME RegistryInv, NEW s \in Sessions, CloseOwn(s) PROVE Directory!Close(s)
<1>1. /\ pc[s] = "closing" /\ pc' = [pc EXCEPT ![s] = "idle"]
      /\ sockOpen' = [sockOpen EXCEPT ![s] = FALSE]
      /\ clientId' = [clientId EXCEPT ![s] = None]
      /\ UNCHANGED <<registry, latest, ask, entry, addressee>>
  BY DEF CloseOwn, registryVars, observerVars
<1>2. SessionLives' = [SessionLives EXCEPT ![s] = "none"]
  BY <1>1, Lives, LifeMoves DEF RegistryInv
<1> QED
  BY <1>1, <1>2, Lives DEF InHand, SessionLives, Directory!Close

\* The three things an observer keeps of its command are one in the directory.
LEMMA CommandChanges ==
    ASSUME NEW o \in Observers,
           \A p \in Observers : p # o => /\ ask'[p] = ask[p] /\ entry'[p] = entry[p]
                                         /\ addressee'[p] = addressee[p]
    PROVE  [p \in Observers |-> InHand(p)]'
             = [[p \in Observers |-> InHand(p)] EXCEPT ![o] = InHand(o)']
<1>1. \A p \in Observers : p # o => InHand(p)' = InHand(p)
  BY DEF InHand
<1> QED
  BY <1>1

LEMMA ForgetIsFinish ==
    ASSUME RegistryInv, NEW o \in Observers, NEW next, Forget(o, next),
           InHand(o) # Directory!Nothing,
           UNCHANGED <<pc, clientId, sockOpen, registry, latest>>
    PROVE  Directory!Finish(o)
<1>1. /\ ask' = [ask EXCEPT ![o] = None] /\ entry' = [entry EXCEPT ![o] = None]
      /\ addressee' = [addressee EXCEPT ![o] = None]
  BY DEF Forget
<1>2. InHand(o)' = Directory!Nothing
  BY <1>1 DEF InHand, Directory!Nothing, RegistryInv, TypeOK
<1>3. [p \in Observers |-> InHand(p)]'
        = [[p \in Observers |-> InHand(p)] EXCEPT ![o] = InHand(o)']
  BY <1>1, CommandChanges DEF RegistryInv, TypeOK
<1> QED
  BY <1>2, <1>3 DEF Directory!Finish

LEMMA LocateIsFind ==
    ASSUME RegistryInv, NEW o \in Observers, NEW target \in ClientIds \cup {None},
           Locate(o, target)
    PROVE  Directory!Find(o, target)
<1> DEFINE cid == IF target = None THEN latest ELSE target
<1>1. /\ opc[o] = "ready" /\ Lookup(target) # None
      /\ ask' = [ask EXCEPT ![o] = target] /\ entry' = [entry EXCEPT ![o] = Lookup(target)]
      /\ UNCHANGED <<addressee, pc, clientId, sockOpen, registry, latest>>
  BY DEF Locate, sessionVars, registryVars
<1>2. /\ cid \in ClientIds /\ Lookup(target) = registry[cid] /\ registry[cid] # None
  BY <1>1 DEF Lookup, RegistryInv, TypeOK
<1>3. InHand(o) = Directory!Nothing
  BY <1>1 DEF RegistryInv, EntryIsConnected, InHand, Directory!Nothing
<1>4. InHand(o)' = [target |-> target, session |-> registry[cid], named |-> None]
  BY <1>1, <1>2 DEF RegistryInv, TypeOK, EntryIsConnected, InHand
<1>5. [p \in Observers |-> InHand(p)]'
        = [[p \in Observers |-> InHand(p)] EXCEPT ![o] = InHand(o)']
  BY <1>1, CommandChanges DEF RegistryInv, TypeOK
<1>6. cid \in Directory!Present /\ cid = Directory!Or(target)
  BY <1>2 DEF Directory!Present, Directory!Or
<1> HIDE DEF cid
<1> QED
  BY <1>1, <1>3, <1>4, <1>5, <1>6 DEF Directory!Find

LEMMA AddressIsNameOrFinish ==
    ASSUME RegistryInv, NEW o \in Observers, Address(o)
    PROVE  Directory!Name(o) \/ Directory!Finish(o)
<1> DEFINE to == IF ask[o] = None THEN latest ELSE ask[o]
<1>1. /\ opc[o] = "located" /\ entry[o] \in Sessions /\ addressee[o] = None
      /\ UNCHANGED <<pc, clientId, sockOpen, registry, latest>>
  BY DEF Address, sessionVars, registryVars, RegistryInv, EntryIsConnected
<1>2. InHand(o) # Directory!Nothing /\ InHand(o).named = None /\ InHand(o).target = ask[o]
  BY <1>1, NoneAssumption DEF InHand, Directory!Nothing
<1>3. CASE to # None
  <2>1. /\ addressee' = [addressee EXCEPT ![o] = to] /\ UNCHANGED <<ask, entry>>
    BY <1>3 DEF Address
  <2>2. InHand(o)' = [InHand(o) EXCEPT !.named = to]
    BY <2>1 DEF InHand, RegistryInv, TypeOK
  <2>3. [p \in Observers |-> InHand(p)]'
          = [[p \in Observers |-> InHand(p)] EXCEPT ![o] = InHand(o)']
    BY <2>1, CommandChanges DEF RegistryInv, TypeOK
  <2>4. to = Directory!Or(ask[o])
    BY DEF Directory!Or
  <2> HIDE DEF to
  <2>5. Directory!Name(o)
    BY <1>1, <1>2, <2>2, <2>3, <2>4 DEF Directory!Name
  <2> QED
    BY <2>5
<1>4. CASE to = None
  <2>1. Forget(o, "ready")
    BY <1>4 DEF Address
  <2> QED
    BY <1>1, <1>2, <2>1, ForgetIsFinish
<1> QED
  BY <1>3, <1>4

LEMMA WriteIsFinish ==
    ASSUME RegistryInv, NEW o \in Observers, Write(o) PROVE Directory!Finish(o)
<1>1. /\ opc[o] = "writing" /\ entry[o] \in Sessions
      /\ UNCHANGED <<pc, clientId, sockOpen, registry, latest>>
  BY DEF Write, sessionVars, registryVars, RegistryInv, EntryIsConnected
<1>2. InHand(o) # Directory!Nothing
  BY <1>1, NoneAssumption DEF InHand, Directory!Nothing
<1> QED
  BY <1>1, <1>2, ForgetIsFinish DEF Write

LEMMA StepIsDirectoryStep ==
    ASSUME RegistryInv, Next PROVE Directory!Next \/ UNCHANGED Directory!vars
<1>1. ASSUME NEW s \in Sessions, SessionStep(s)
      PROVE  Directory!Next \/ UNCHANGED Directory!vars
  <2>1. CASE Accept(s)
    BY <2>1, AcceptIsConnect DEF Directory!Next
  <2>2. ASSUME NEW c \in ClientIds, Register(s, c) PROVE Directory!Next
    BY <2>2, RegisterIsBegin DEF Directory!Next
  <2>3. CASE CloseDisplaced(s)
    <3>1. victim[s] \in Sessions
      BY <2>3 DEF CloseDisplaced, RegistryInv, VictimIsOut, TypeOK
    <3> QED
      BY <2>3, <3>1, CloseDisplacedIsCut DEF Directory!Next
  <2>4. CASE Greet(s) \/ DeviceGone(s) \/ Displaced(s)
    BY <2>4, MoveIsNothing
  <2>5. CASE NoSession(s)
    BY <2>5, NoSessionNeverBegins DEF Directory!Next
  <2>6. CASE Unregister(s)
    BY <2>6, UnregisterIsEnd DEF Directory!Next
  <2>7. CASE CloseOwn(s)
    BY <2>7, CloseOwnIsClose DEF Directory!Next
  <2> QED
    BY <1>1, <2>1, <2>2, <2>3, <2>4, <2>5, <2>6, <2>7 DEF SessionStep
<1>2. ASSUME NEW o \in Observers, ObserverStep(o)
      PROVE  Directory!Next \/ UNCHANGED Directory!vars
  <2>1. ASSUME NEW target \in ClientIds \cup {None}, Locate(o, target) PROVE Directory!Next
    BY <2>1, LocateIsFind DEF Directory!Next
  <2>2. CASE Address(o)
    BY <2>2, AddressIsNameOrFinish DEF Directory!Next
  <2>3. CASE Write(o)
    BY <2>3, WriteIsFinish DEF Directory!Next
  <2>4. CASE ObserverReconnect(o)
    BY <2>4 DEF ObserverReconnect, sessionVars, registryVars, InHand, Directory!vars
  <2> QED
    BY <1>2, <2>1, <2>2, <2>3, <2>4 DEF ObserverStep
<1> QED
  BY <1>1, <1>2 DEF Next

\* Whatever the interleaving of registrations, closes and lookups, devices
\* and observers see a directory that is exact at every moment.
THEOREM RegistryIsADirectory == Spec => IsDirectory
<1>1. RegistryInv /\ [Next]_vars => [Directory!Next]_Directory!vars
  <2>1. UNCHANGED vars => UNCHANGED Directory!vars
    BY DEF vars, sessionVars, registryVars, observerVars, InHand, Directory!vars
  <2> QED
    BY <2>1, StepIsDirectoryStep
<1> QED
  BY <1>1, DirectoryInit, RegistryInvariant, PTL DEF Spec, IsDirectory, Directory!Spec

-----------------------------------------------------------------------------
(***************************************************************************)
(* The relay that the bridge and the dashboard are composed with.          *)
(***************************************************************************)

Registered == {c \in ClientIds : registry[c] # None}

\* A registration is a beginning, whether or not it displaces another session.
LEMMA RegisterBegins ==
    ASSUME RegistryInv, NEW s \in Sessions, NEW c \in ClientIds, Register(s, c)
    PROVE  Presence!Begins(c)
<1>1. registry' = [registry EXCEPT ![c] = s] /\ latest' = c
  BY DEF Register
<1>2. registry \in [ClientIds -> Sessions \cup {None}] /\ s # None
  BY NoneAssumption DEF RegistryInv, TypeOK
<1>3. Registered' = Registered \cup {c}
  BY <1>1, <1>2 DEF Registered
<1> QED
  BY <1>1, <1>3 DEF Presence!Begins, Registered

\* A session that is unregistered ends its device's presence, unless another
\* one has displaced it.
LEMMA UnregisterEndsOrNothing ==
    ASSUME RegistryInv, NEW s \in Sessions, Unregister(s)
    PROVE  (\E c \in ClientIds : Presence!Ends(c)) \/ UNCHANGED <<registry, latest>>
<1>1. clientId[s] \in ClientIds
  BY DEF Unregister, RegistryInv, ThreadState, Serving
<1>2. CASE registry[clientId[s]] = s
  <2> PICK c \in ClientIds : c = clientId[s]
    BY <1>1
  <2>1. registry[c] # None /\ Evict(c)
    BY <1>2, NoneAssumption DEF Unregister
  <2>2. Directory!Leave(c)
    BY <2>1, EvictIsLeave DEF RegistryInv
  <2>3. /\ registry' = [registry EXCEPT ![c] = None]
        /\ registry \in [ClientIds -> Sessions \cup {None}]
    BY <2>2 DEF Directory!Leave, RegistryInv, TypeOK
  <2>4. Registered' = Registered \ {c} /\ c \in Registered
    BY <2>1, <2>3 DEF Registered
  <2>5. Registered = Directory!Present
    BY DEF Registered, Directory!Present
  <2>6. latest' \in IF latest # c THEN {latest}
                    ELSE IF Registered' = {} THEN {None} ELSE Registered'
    BY <2>2, <2>4, <2>5 DEF Directory!Leave
  <2>7. Presence!Ends(c)
    BY <2>4, <2>6 DEF Presence!Ends, Registered
  <2> QED
    BY <2>7
<1>3. CASE registry[clientId[s]] # s
  BY <1>3 DEF Unregister, registryVars
<1> QED
  BY <1>2, <1>3

LEMMA StepIsPresenceStep ==
    ASSUME RegistryInv, [Next]_vars PROVE [Presence!Next]_(Presence!vars)
<1>1. UNCHANGED <<registry, latest>> => UNCHANGED Presence!vars
  BY DEF Presence!vars
<1>2. ASSUME NEW s \in Sessions, NEW c \in ClientIds, Register(s, c) PROVE Presence!Next
  BY <1>2, RegisterBegins DEF Presence!Next
<1>3. ASSUME NEW s \in Sessions, Unregister(s) PROVE [Presence!Next]_(Presence!vars)
  BY <1>1, <1>3, UnregisterEndsOrNothing DEF Presence!Next
<1>4. \/ \E s \in Sessions, c \in ClientIds : Register(s, c)
      \/ \E s \in Sessions : Unregister(s)
      \/ UNCHANGED <<registry, latest>>
  BY DEF Next, SessionStep, ObserverStep, Accept, CloseDisplaced, Greet, DeviceGone, Displaced,
         NoSession, CloseOwn, Locate, Address, Write, ObserverReconnect, registryVars, vars
<1> QED
  BY <1>1, <1>2, <1>3, <1>4

\* The registry implements the relay that HaCommands and DashboardControl are
\* composed with: what they prove of the relay's clients holds with the relay
\* of relay.py, its locks and displaced sessions included.
THEOREM RegistryIsTheClientsRelay == Spec => IsPresence
<1>1. Init => Presence!Init
  BY DEF Init, Presence!Init
<1>2. RegistryInv /\ [Next]_vars => [Presence!Next]_(Presence!vars)
  BY StepIsPresenceStep
<1> QED
  BY <1>1, <1>2, RegistryInvariant, PTL DEF Spec, IsPresence, Presence!Spec

-----------------------------------------------------------------------------
(***************************************************************************)
(* The rules engine: what a reload skips is up to date, and a version that *)
(* cannot be loaded does not take its rule out of service.                 *)
(***************************************************************************)

\* Nothing is newer than what is on disk, and no edit is newer than the last.
DiskIsNewest ==
    \A f \in Files : /\ disk[f] <= edits /\ loaded[f].version <= edits
                     /\ disk[f] # 0 => loaded[f].version <= disk[f]

\* An mtime is noted no later than the version is read that it stands for.
NotedBefore == \A f \in Files : loaded[f].mtime <= loaded[f].version

\* So it is with the one a thread has noted for the file it is about to read.
LoadingInv ==
    \A t \in Threads : thread[t].pc = "loading" =>
        /\ thread[t].file \in Files
        /\ disk[thread[t].file] # 0 => thread[t].mtime <= disk[thread[t].file]
        /\ thread[t].mtime <= edits

EngineInv == EngineTypeOK /\ DiskIsNewest /\ NotedBefore /\ LoadingInv

-----------------------------------------------------------------------------
LEMMA VersionIsNat == Version \subseteq Nat /\ 0 \in Version
BY EditsAssumption DEF Version

LEMMA EngineInitEstablishes == EngineInit => EngineInv
<1> SUFFICES ASSUME EngineInit PROVE EngineInv
  OBVIOUS
<1>1. Idle \in Thread
  BY VersionIsNat DEF Idle, Thread, NoMods
<1>2. EngineTypeOK
  BY <1>1, VersionIsNat, AbsentAssumption DEF EngineInit, EngineTypeOK, Unloaded, Idle
<1>3. DiskIsNewest /\ NotedBefore /\ LoadingInv
  BY VersionIsNat DEF EngineInit, DiskIsNewest, NotedBefore, LoadingInv, Unloaded, Idle
<1> QED
  BY <1>2, <1>3 DEF EngineInv

LEMMA EngineOperatorPreserves ==
    ASSUME EngineInv, NEW f \in Files, Edit(f) \/ RemoveFile(f)
    PROVE  EngineInv'
<1> USE VersionIsNat, EditsAssumption DEF EngineInv, EngineTypeOK
<1>1. /\ edits' \in Version /\ edits' >= edits
      /\ disk' \in [Files -> Version] /\ disk'[f] \in {0, edits'}
      /\ \A g \in Files : g # f => disk'[g] = disk[g]
  BY DEF Edit, RemoveFile, Version
<1>2. disk'[f] # 0 => edits < disk'[f]
  BY DEF Edit, RemoveFile, Version
<1>3. EngineTypeOK'
  BY <1>1 DEF Edit, RemoveFile
<1>4. DiskIsNewest' /\ NotedBefore'
  BY <1>1, <1>2 DEF Edit, RemoveFile, DiskIsNewest, NotedBefore, Version
<1>5. LoadingInv'
  <2> SUFFICES ASSUME NEW t \in Threads, thread[t].pc = "loading"
               PROVE  /\ thread[t].file \in Files
                      /\ disk'[thread[t].file] # 0 => thread[t].mtime <= disk'[thread[t].file]
                      /\ thread[t].mtime <= edits'
    BY DEF LoadingInv, Edit, RemoveFile
  <2>1. thread[t].mtime \in Version
    BY DEF Thread
  <2> QED
    BY <1>1, <1>2, <2>1 DEF LoadingInv, Version
<1> QED
  BY <1>3, <1>4, <1>5

LEMMA EngineCallPreserves ==
    ASSUME EngineInv, NEW t \in Threads,
           List(t) \/ Enter(t) \/ Check(t) \/ Snapshot(t) \/ Return(t)
    PROVE  EngineInv'
<1> USE VersionIsNat DEF EngineInv
<1>1. UNCHANGED <<disk, faulty, loaded, edits>>
  BY DEF List, Enter, Check, Snapshot, Return
<1>2. thread[t] \in Thread
  BY DEF EngineTypeOK
<1>3. /\ thread' = [thread EXCEPT ![t] = thread'[t]] /\ thread'[t] \in Thread
      /\ thread'[t].pc = "loading" =>
           /\ thread'[t].file \in Files /\ thread'[t].mtime = disk[thread'[t].file]
  <2>1. CASE List(t)
    BY <2>1, <1>2 DEF List, Idle, Thread, NoMods, EngineTypeOK
  <2>2. CASE Enter(t)
    BY <2>2, <1>2 DEF Enter, Thread, EngineTypeOK
  <2>3. CASE Check(t)
    <3>1. thread[t].todo \subseteq Files
      BY <1>2 DEF Thread
    <3>2. PICK f \in thread[t].todo :
            thread' = IF disk[f] \in {0, loaded[f].mtime}
                        THEN [thread EXCEPT ![t].todo = @ \ {f}]
                        ELSE [thread EXCEPT ![t].todo = @ \ {f}, ![t].pc = "loading",
                                            ![t].file = f, ![t].mtime = disk[f]]
      BY <2>3 DEF Check
    <3>3. f \in Files /\ disk[f] \in Version /\ thread[t].pc = "checking"
      BY <2>3, <3>1 DEF Check, EngineTypeOK
    <3> QED
      BY <1>2, <3>2, <3>3 DEF Thread, EngineTypeOK
  <2>4. CASE Snapshot(t)
    <3>1. [f \in Files |-> loaded[f].version] \in [Files -> Version]
      BY DEF EngineTypeOK
    <3> QED
      BY <2>4, <1>2, <3>1 DEF Snapshot, Idle, Thread, EngineTypeOK
  <2>5. CASE Return(t)
    BY <2>5, <1>2 DEF Return, Idle, Thread, NoMods, EngineTypeOK
  <2> QED
    BY <2>1, <2>2, <2>3, <2>4, <2>5
<1>4. /\ lock' \in Threads \cup {Absent}
      /\ \A s \in Threads : lock' = s <=> thread'[s].pc \in {"checking", "loading"}
  <2>1. CASE List(t)
    BY <2>1, <1>3 DEF List, Idle, EngineTypeOK
  <2>2. CASE Enter(t)
    <3>1. thread'[t].pc = "checking"
      BY <2>2, <1>2 DEF Enter, Thread, EngineTypeOK
    <3> QED
      BY <2>2, <1>3, <3>1, AbsentAssumption DEF Enter, EngineTypeOK
  <2>3. CASE Check(t)
    <3>1. PICK f \in thread[t].todo :
            thread' = IF disk[f] \in {0, loaded[f].mtime}
                        THEN [thread EXCEPT ![t].todo = @ \ {f}]
                        ELSE [thread EXCEPT ![t].todo = @ \ {f}, ![t].pc = "loading",
                                            ![t].file = f, ![t].mtime = disk[f]]
      BY <2>3 DEF Check
    <3>2. thread[t].pc = "checking" /\ thread'[t].pc \in {"checking", "loading"} /\ lock' = lock
      BY <2>3, <1>2, <3>1 DEF Check, Thread, EngineTypeOK
    <3>3. \A s \in Threads : s # t => thread'[s] = thread[s]
      BY <1>3 DEF EngineTypeOK
    <3> QED
      BY <3>2, <3>3 DEF EngineTypeOK
  <2>4. CASE Snapshot(t)
    BY <2>4, <1>3 DEF Snapshot, Idle, EngineTypeOK
  <2>5. CASE Return(t)
    BY <2>5, <1>3 DEF Return, Idle, EngineTypeOK
  <2> QED
    BY <2>1, <2>2, <2>3, <2>4, <2>5
<1>5. EngineTypeOK'
  BY <1>1, <1>3, <1>4 DEF EngineTypeOK
<1>6. DiskIsNewest' /\ NotedBefore'
  BY <1>1 DEF DiskIsNewest, NotedBefore
<1>7. LoadingInv'
  <2> SUFFICES ASSUME NEW s \in Threads, thread'[s].pc = "loading"
               PROVE  /\ thread'[s].file \in Files
                      /\ disk[thread'[s].file] # 0 => thread'[s].mtime <= disk[thread'[s].file]
                      /\ thread'[s].mtime <= edits
    BY <1>1 DEF LoadingInv
  <2>1. CASE s # t
    BY <2>1, <1>3 DEF LoadingInv, EngineTypeOK
  <2>2. CASE s = t
    <3>1. disk[thread'[t].file] \in Nat /\ disk[thread'[t].file] <= edits
      BY <2>2, <1>3 DEF EngineTypeOK, DiskIsNewest
    <3> QED
      BY <2>2, <3>1, <1>3
  <2> QED
    BY <2>1, <2>2
<1> QED
  BY <1>5, <1>6, <1>7

LEMMA EngineLoadPreserves ==
    ASSUME EngineInv, NEW t \in Threads, Load(t)
    PROVE  EngineInv'
<1> USE VersionIsNat DEF EngineInv
<1> DEFINE f == thread[t].file
<1>1. /\ thread[t] \in Thread /\ thread[t].pc = "loading" /\ f \in Files
      /\ disk[f] # 0 => thread[t].mtime <= disk[f]
      /\ UNCHANGED <<disk, faulty, lock, edits>>
  BY DEF Load, EngineTypeOK, LoadingInv
<1>2. /\ thread' = [thread EXCEPT ![t].pc = "checking"] /\ thread'[t] \in Thread
      /\ \A s \in Threads : s # t => thread'[s] = thread[s]
      /\ thread'[t].pc = "checking"
  BY <1>1 DEF Load, EngineTypeOK, Thread
<1>3. CASE loaded' = loaded
  BY <1>1, <1>2, <1>3 DEF EngineTypeOK, DiskIsNewest, NotedBefore, LoadingInv
<1>4. CASE /\ disk[f] # 0
           /\ loaded' = [loaded EXCEPT ![f] = [version |-> disk[f], mtime |-> thread[t].mtime]]
  <2>1. thread[t].mtime \in Version /\ disk[f] \in Version /\ disk[f] <= edits
    BY <1>1 DEF Thread, EngineTypeOK, DiskIsNewest
  <2>2. /\ loaded' \in [Files -> [version : Version, mtime : Version]]
        /\ loaded'[f] = [version |-> disk[f], mtime |-> thread[t].mtime]
        /\ \A g \in Files : g # f => loaded'[g] = loaded[g]
    BY <1>1, <1>4, <2>1 DEF EngineTypeOK
  <2>3. EngineTypeOK'
    BY <1>1, <1>2, <2>2 DEF EngineTypeOK
  <2>4. DiskIsNewest' /\ NotedBefore'
    <3>1. disk[f] \in Nat /\ thread[t].mtime \in Nat /\ thread[t].mtime <= disk[f]
      BY <1>1, <1>4, <2>1
    <3>2. /\ loaded'[f].version = disk[f] /\ loaded'[f].mtime = thread[t].mtime
          /\ UNCHANGED <<disk, edits>>
      BY <1>1, <2>2
    <3>3. DiskIsNewest'
      BY <2>1, <2>2, <3>1, <3>2 DEF DiskIsNewest
    <3>4. NotedBefore'
      BY <2>2, <3>1, <3>2 DEF NotedBefore
    <3> QED
      BY <3>3, <3>4
  <2>5. LoadingInv'
    BY <1>1, <1>2 DEF LoadingInv
  <2> QED
    BY <2>3, <2>4, <2>5
<1>5. loaded' = IF disk[f] = 0 \/ disk[f] \in faulty THEN loaded
                ELSE [loaded EXCEPT ![f] = [version |-> disk[f], mtime |-> thread[t].mtime]]
  BY DEF Load
<1> QED
  BY <1>3, <1>4, <1>5

LEMMA EngineSweepPreserves ==
    ASSUME EngineInv, NEW t \in Threads, Sweep(t)
    PROVE  EngineInv'
<1> USE VersionIsNat DEF EngineInv
<1>0. thread[t] \in Thread
  BY DEF EngineTypeOK
<1>1. /\ thread' = [thread EXCEPT ![t].pc = "reloaded"] /\ thread'[t] \in Thread
      /\ \A s \in Threads : s # t => thread'[s] = thread[s]
      /\ thread'[t].pc = "reloaded" /\ thread[t].pc = "checking"
      /\ UNCHANGED <<disk, faulty, edits>> /\ lock' = Absent
  BY <1>0 DEF Sweep, EngineTypeOK, Thread
<1>2. \A g \in Files : loaded'[g] \in {loaded[g], Unloaded}
  BY DEF Sweep
<1>3. loaded' \in [Files -> [version : Version, mtime : Version]]
  BY DEF Sweep, EngineTypeOK, Unloaded
<1>4. \A s \in Threads : ~(thread'[s].pc \in {"checking", "loading"})
  BY <1>1 DEF EngineTypeOK
<1>5. EngineTypeOK'
  BY <1>1, <1>3, <1>4, AbsentAssumption DEF EngineTypeOK
<1>6. DiskIsNewest' /\ NotedBefore'
  BY <1>1, <1>2 DEF DiskIsNewest, NotedBefore, Unloaded, EngineTypeOK
<1>7. LoadingInv'
  BY <1>4 DEF LoadingInv
<1> QED
  BY <1>5, <1>6, <1>7

LEMMA EngineNextPreserves == EngineInv /\ [EngineNext]_engineVars => EngineInv'
<1> SUFFICES ASSUME EngineInv, [EngineNext]_engineVars PROVE EngineInv'
  OBVIOUS
<1>1. CASE UNCHANGED engineVars
  BY <1>1 DEF engineVars, EngineInv, EngineTypeOK, DiskIsNewest, NotedBefore, LoadingInv
<1>2. CASE \E f \in Files : Edit(f) \/ RemoveFile(f)
  BY <1>2, EngineOperatorPreserves
<1>3. CASE \E t \in Threads : List(t) \/ Proceed(t)
  BY <1>3, EngineCallPreserves, EngineLoadPreserves, EngineSweepPreserves DEF Proceed, Reload
<1> QED
  BY <1>1, <1>2, <1>3 DEF EngineNext

THEOREM EngineInvariant == EngineSpec => []EngineInv
<1>1. EngineInit => EngineInv
  BY EngineInitEstablishes
<1>2. EngineInv /\ [EngineNext]_engineVars => EngineInv'
  BY EngineNextPreserves
<1> QED
  BY <1>1, <1>2, PTL DEF EngineSpec

\* EngineTypeOK, with one thread at a time in _reload.
THEOREM EngineTypeCorrect == EngineSpec => []EngineTypeOK
<1>1. EngineInv => EngineTypeOK
  BY DEF EngineInv
<1> QED
  BY <1>1, EngineInvariant, PTL

\* _reload: a file whose mtime is the one noted is loaded as it is on disk,
\* although it may be edited between getmtime and exec_module.
THEOREM NothingStaleIsSkipped == EngineSpec => []SkippedIsCurrent
<1>1. EngineInv => SkippedIsCurrent
  <2> SUFFICES ASSUME EngineInv, NEW f \in Files, disk[f] # 0, loaded[f].mtime = disk[f]
               PROVE  loaded[f].version = disk[f]
    BY DEF SkippedIsCurrent
  <2>1. disk[f] \in Nat /\ loaded[f].version \in Nat
    BY VersionIsNat DEF EngineInv, EngineTypeOK
  <2> QED
    BY <2>1 DEF EngineInv, DiskIsNewest, NotedBefore
<1> QED
  BY <1>1, EngineInvariant, PTL

\* _reload: only a call whose listing is older than the file drops a rule
\* that is in service; a version that raises does not.
THEOREM OnlyAnOldListingDrops == EngineSpec => FaultyEditIsSkipped
<1>1. EngineInv /\ [EngineNext]_engineVars =>
        [\A f \in Files :
           loaded[f].version # 0 /\ (\A t \in Threads : ~Outdated(t, f))
             => loaded'[f].version # 0]_engineVars
  <2> SUFFICES ASSUME EngineInv, EngineNext, NEW f \in Files, loaded[f].version # 0,
                      \A t \in Threads : ~Outdated(t, f)
               PROVE  loaded'[f].version # 0
    OBVIOUS
  <2>1. CASE loaded' = loaded
    BY <2>1
  <2>2. ASSUME NEW t \in Threads, Load(t) PROVE loaded'[f].version # 0
    BY <2>2 DEF Load, EngineInv, EngineTypeOK
  <2>3. ASSUME NEW t \in Threads, Sweep(t) PROVE loaded'[f].version # 0
    BY <2>3 DEF Sweep, Outdated
  <2> QED
    BY <2>1, <2>2, <2>3 DEF EngineNext, Edit, RemoveFile, List, Proceed, Reload, Enter, Check,
                            Snapshot, Return
<1> QED
  BY <1>1, EngineInvariant, PTL DEF EngineSpec, FaultyEditIsSkipped
=============================================================================
