------------------------ MODULE DeviceIdentity_proofs ------------------------
(***************************************************************************)
(* Proofs about device identities, for any sets of devices, client ids and *)
(* addresses, and any leases: devices may get each other's addresses.      *)
(***************************************************************************)
EXTENDS DeviceIdentity, WellFoundedInduction, TLAPS

(***************************************************************************)
(* The inductive invariant.  That a binding is to the MAC of a device that *)
(* is linked to the user of the client id rests on the MAC in the entry    *)
(* being of such a device, which rests on every address in the file being  *)
(* one that the device of its entry, or the poster of its MAC, has had.    *)
(***************************************************************************)

\* A device that is on has an address that it has had, and a client id of its own.
AtHome ==
    \A d \in Devices :
        /\ address[d] \in had[d] \cup {None}
        /\ client[d] # None => Owner(client[d]) = d
        /\ address[d] # None => client[d] # None

\* What is filed under a client id is of its device, or of one that is linked.
EntryIsLinked ==
    \A c \in ClientIds :
        /\ entry[c].ip \in had[Owner(c)] \cup {Observer, None}
        /\ entry[c].mac # None => Linked(entry[c].mac, Owner(c))
        /\ entry[c].id \in {Owner(c), None}

\* A MAC that is filed under an address is of a device that has had it.
PseudoIsHad ==
    \A a \in Addresses : \A d \in Devices : pseudo[a] = d => a \in had[d]

\* There is an ip: entry only of an address that no client id has: the client
\* id that comes to have it is the one being filed, and has taken the MAC in.
NoClientAtPseudo ==
    \A a \in Addresses :
        pseudo[a] # None => \A c \in ToSet(order) : entry[c].ip # a

\* What is in the slugmap file is in memory, while the file could be read.
SavedIsRemembered ==
    ~misread => \A c \in ClientIds : stored[c] # None => sticky[c] = stored[c]

FilesInv == EntryIsLinked /\ PseudoIsHad /\ NoClientAtPseudo
BindingsInv == TakenOverOnlyByAddress /\ SavedIsRemembered

IdentityInv == TypeOK /\ AtHome /\ FilesInv /\ BindingsInv

FileTypes ==
    /\ entry \in [ClientIds -> Entry]
    /\ order \in Seq(ClientIds)
    /\ pseudo \in [Addresses -> Devices \cup {Blank, None}]

-----------------------------------------------------------------------------
\* A client id is of one device.
LEMMA OwnerType == \A c \in ClientIds : Owner(c) \in Devices
  BY DevicesAssumption

\* FirstAt picks an entry that has the address, if there is one.
LEMMA FirstAtHasAddress ==
  ASSUME NEW a, order \in Seq(ClientIds), \E c \in ToSet(order) : entry[c].ip = a
  PROVE  FirstAt(a) \in ClientIds /\ FirstAt(a) \in ToSet(order) /\ entry[FirstAt(a)].ip = a
<1> DEFINE T == {i \in DOMAIN order : entry[order[i]].ip = a}
           R == OpToRel(<, Nat)
<1>1. T \subseteq Nat /\ T # {}
  BY DEF ToSet
<1>2. \E i \in T : \A j \in T : ~(<<j, i>> \in R)
  BY <1>1, NatLessThanWellFounded, WFMin, Zenon
<1>3. PICK i \in T : \A j \in T : ~(<<j, i>> \in R)
  BY <1>2
<1>4. \A j \in T : ~(j < i)
  BY <1>1, <1>3 DEF OpToRel
<1>5. \E k \in DOMAIN order :
          entry[order[k]].ip = a /\ \A j \in 1..(k - 1) : entry[order[j]].ip # a
  BY <1>4
<1>6. PICK k \in DOMAIN order : FirstAt(a) = order[k] /\ entry[order[k]].ip = a
  BY <1>5 DEF FirstAt
<1>7. QED
  BY <1>6 DEF ToSet

\* Has and ToSet say the same of the file's order.
LEMMA HasIsToSet == \A c : Has(c) <=> c \in ToSet(order)
  BY DEF Has, Contains, ToSet

\* An appended client id joins the set.
LEMMA AppendToSet ==
  ASSUME order \in Seq(ClientIds), NEW c \in ClientIds,
         order' = IF Has(c) THEN order ELSE Append(order, c)
  PROVE  ToSet(order') = ToSet(order) \cup {c}
<1>1. CASE Has(c)
  BY <1>1, HasIsToSet
<1>2. CASE ~Has(c)
  <2>1. order' = Append(order, c)
    BY <1>2
  <2>2. /\ Len(order') = Len(order) + 1
        /\ \A i \in 1..Len(order) : order'[i] = order[i]
        /\ order'[Len(order) + 1] = c
        /\ DOMAIN order = 1..Len(order) /\ DOMAIN order' = 1..(Len(order) + 1)
        /\ Len(order) \in Nat
    BY <2>1
  <2>3. ToSet(order') \subseteq ToSet(order) \cup {c}
    BY <2>2 DEF ToSet
  <2>4. ToSet(order) \cup {c} \subseteq ToSet(order')
    BY <2>2 DEF ToSet
  <2>5. QED
    BY <2>3, <2>4
<1>3. QED
  BY <1>1, <1>2

\* Where the MAC of d is, in terms of ToSet.
Kept(d) ==
    \/ \E a \in Pool : pseudo[a] = d
    \/ \E c \in ClientIds : Owner(c) = d /\ c \in ToSet(order) /\ entry[c].mac = d

LEMMA KeptIsOnFile == \A d : Kept(d) <=> OnFile(d)
  BY HasIsToSet DEF Kept, OnFile

-----------------------------------------------------------------------------
\* Filing under a client id: the ip: entry that goes has been taken in, and
\* the MAC of a device that shares no address is still there.
LEMMA FromClientKeeps ==
  ASSUME TypeOK, FilesInv, UNCHANGED had,
         NEW c \in ClientIds, NEW a \in had[Owner(c)] \cup {Observer},
         NEW id \in {Owner(c), None}, FromClient(c, a, id)
  PROVE  /\ FileTypes' /\ FilesInv'
         /\ \A d \in Devices : Alone(d) /\ Kept(d) => Kept(d)'
<1> DEFINE merged == Merged(entry[c], pseudo[a])
           new == [merged EXCEPT !.ip = a, !.id = IF id = None THEN @ ELSE id]
<1>1. /\ Owner(c) \in Devices /\ had[Owner(c)] \subseteq Pool
      /\ a \in Addresses
      /\ None \notin Devices /\ None \notin Addresses
  BY OwnerType, NoneAssumption DEF TypeOK, Addresses
<1>2. /\ entry[c] \in Entry /\ entry \in [ClientIds -> Entry]
      /\ entry[c].mac # None => Linked(entry[c].mac, Owner(c))
      /\ entry[c].id \in {Owner(c), None}
  BY DEF FilesInv, TypeOK, EntryIsLinked
<1>3. pseudo[a] \in Devices => a \in had[pseudo[a]] /\ a \in had[Owner(c)]
  <2>1. ASSUME pseudo[a] \in Devices PROVE a \in had[pseudo[a]]
    BY <1>1, <2>1 DEF FilesInv, PseudoIsHad
  <2>2. ASSUME pseudo[a] \in Devices PROVE had[pseudo[a]] \subseteq Pool
    BY <2>2 DEF TypeOK
  <2> QED
    BY <2>1, <2>2, ObserverAssumption
<1>4. /\ merged \in Entry
      /\ merged.mac # None => Linked(merged.mac, Owner(c))
      /\ merged.id \in {Owner(c), None}
      /\ entry[c].mac # None => merged.mac = entry[c].mac
      /\ entry[c].mac = None /\ pseudo[a] \in Devices => merged.mac = pseudo[a]
  <2>1. CASE entry[c].mac = None /\ pseudo[a] \in Devices
    <3>1. merged = [entry[c] EXCEPT !.mac = pseudo[a]]
      BY <2>1 DEF Merged
    <3>2. Linked(pseudo[a], Owner(c))
      BY <1>3, <2>1 DEF Linked
    <3> QED
      BY <1>2, <2>1, <3>1, <3>2 DEF Entry
  <2>2. CASE ~(entry[c].mac = None /\ pseudo[a] \in Devices)
    <3>1. merged = entry[c]
      BY <2>2 DEF Merged
    <3> QED
      BY <1>2, <2>2, <3>1
  <2> QED
    BY <2>1, <2>2
<1> HIDE DEF merged
<1>5. /\ new \in Entry /\ new.ip = a /\ new.mac = merged.mac
      /\ new.id \in {Owner(c), None}
  BY <1>1, <1>4 DEF Entry
<1>6. entry' = [entry EXCEPT ![c] = new]
  BY DEF FromClient, merged
<1> HIDE DEF new
<1>7. /\ entry' \in [ClientIds -> Entry]
      /\ entry'[c] = new /\ \A k \in ClientIds \ {c} : entry'[k] = entry[k]
  BY <1>2, <1>5, <1>6
<1>8. EntryIsLinked'
  <2>1. \A k \in ClientIds :
          /\ entry'[k].ip \in had[Owner(k)] \cup {Observer, None}
          /\ entry'[k].mac # None => Linked(entry'[k].mac, Owner(k))
          /\ entry'[k].id \in {Owner(k), None}
    BY <1>4, <1>5, <1>7 DEF FilesInv, EntryIsLinked
  <2> QED
    BY <2>1 DEF EntryIsLinked, Linked
<1>9. order' \in Seq(ClientIds) /\ ToSet(order') = ToSet(order) \cup {c}
  BY AppendToSet DEF FromClient, TypeOK
<1>10. /\ pseudo' = [b \in Addresses |-> pseudo'[b]]
       /\ \A b \in Addresses :
            pseudo'[b] = IF \E k \in ToSet(order') : entry'[k].ip = b THEN None ELSE pseudo[b]
  BY DEF FromClient, Pruned
<1>11. pseudo' \in [Addresses -> Devices \cup {Blank, None}]
  BY <1>10 DEF TypeOK
<1>12. PseudoIsHad' /\ NoClientAtPseudo'
  BY <1>1, <1>10 DEF FilesInv, PseudoIsHad, NoClientAtPseudo
<1>13. ToSet(order) \subseteq ClientIds
  BY DEF TypeOK, ToSet
<1>14. ASSUME NEW d \in Devices, Alone(d), NEW b \in Pool, pseudo[b] = d PROVE Kept(d)'
  <2>1. b \in Addresses /\ b \in had[d] /\ b # Observer /\ d # None
    BY <1>1, <1>14, ObserverAssumption DEF FilesInv, PseudoIsHad, Addresses
  <2>2. CASE pseudo'[b] = d
    BY <2>2 DEF Kept
  <2>3. CASE pseudo'[b] # d
    <3>1. PICK k \in ToSet(order') : entry'[k].ip = b
      BY <1>10, <1>14, <2>1, <2>3
    <3>2. \A j \in ToSet(order) : entry[j].ip # b
      BY <1>14, <2>1 DEF FilesInv, NoClientAtPseudo
    <3>3. k = c
      BY <1>7, <1>9, <1>13, <3>1, <3>2
    <3>4. a = b
      BY <1>5, <1>7, <3>1, <3>3
    <3>5. Owner(c) = d
      BY <1>1, <1>14, <2>1, <3>4 DEF Alone, Linked
    <3>6. merged.mac = d
      <4>1. entry[c].mac \in Devices \cup {None}
        BY <1>2 DEF Entry
      <4>2. entry[c].mac \in {d, None}
        BY <1>2, <1>14, <3>5, <4>1 DEF Alone, Linked
      <4> QED
        BY <1>4, <1>14, <2>1, <3>4, <4>2
    <3>7. entry'[c].mac = d /\ c \in ToSet(order')
      BY <1>5, <1>7, <1>9, <3>6
    <3>8. QED
      BY <3>5, <3>7 DEF Kept
  <2>4. QED
    BY <2>2, <2>3
<1>15. ASSUME NEW d \in Devices,
              NEW k \in ClientIds, Owner(k) = d, k \in ToSet(order), entry[k].mac = d
       PROVE  Kept(d)'
  <2>1. entry'[k].mac = d
    BY <1>1, <1>4, <1>5, <1>7, <1>15
  <2>2. QED
    BY <1>9, <1>15, <2>1 DEF Kept
<1>16. \A d \in Devices : Alone(d) /\ Kept(d) => Kept(d)'
  BY <1>14, <1>15 DEF Kept
<1>17. QED
  BY <1>7, <1>8, <1>9, <1>11, <1>12, <1>16 DEF FileTypes, FilesInv

\* Filing under an address that the device that posted has had, or without a MAC.
LEMMA FromAddressKeeps ==
  ASSUME TypeOK, FilesInv, UNCHANGED had,
         NEW a \in Addresses, NEW mac \in Devices \cup {Blank}, mac # Blank => a \in had[mac],
         FromAddress(a, mac)
  PROVE  /\ FileTypes' /\ FilesInv'
         /\ \A d \in Devices : Alone(d) /\ Kept(d) => Kept(d)'
<1>1. /\ mac \in Devices <=> mac # Blank
      /\ None \notin Devices /\ Blank \notin Devices /\ Blank # None
      /\ mac \in Devices => a \in had[mac] /\ a # Observer /\ a # None
  <2>1. None \notin Devices /\ Blank \notin Devices /\ Blank # None
    BY NoneAssumption
  <2>2. ASSUME mac \in Devices PROVE a \in had[mac] /\ had[mac] \subseteq Pool
    BY <2>1, <2>2 DEF TypeOK
  <2> QED
    BY <2>1, <2>2, ObserverAssumption, NoneAssumption
<1>2. entry \in [ClientIds -> Entry] /\ ToSet(order) \subseteq ClientIds
  BY DEF TypeOK, ToSet
<1>3. CASE \E c \in ToSet(order) : entry[c].ip = a
  <2> DEFINE f == FirstAt(a)
             new == [entry[f] EXCEPT !.mac = mac]
  <2>1. f \in ClientIds /\ f \in ToSet(order) /\ entry[f].ip = a /\ Owner(f) \in Devices
    BY <1>3, FirstAtHasAddress, OwnerType DEF TypeOK
  <2>2. /\ UNCHANGED <<order, pseudo>>
        /\ entry' = IF mac \in Devices THEN [entry EXCEPT ![f] = new] ELSE entry
    BY <1>3 DEF FromAddress
  <2>3. mac \in Devices => a \in had[Owner(f)] /\ Linked(mac, Owner(f))
    BY <1>1, <2>1 DEF FilesInv, EntryIsLinked, Linked
  <2>4. mac \in Devices => /\ new \in Entry /\ new.mac = mac
                           /\ new.ip = entry[f].ip /\ new.id = entry[f].id
    BY <1>2, <2>1 DEF Entry
  <2> HIDE DEF f, new
  <2>5. /\ entry' \in [ClientIds -> Entry]
        /\ \A c \in ClientIds : entry'[c].ip = entry[c].ip /\ entry'[c].id = entry[c].id
        /\ \A c \in ClientIds \ {f} : entry'[c].mac = entry[c].mac
        /\ entry'[f].mac = IF mac \in Devices THEN mac ELSE entry[f].mac
    BY <1>2, <2>1, <2>2, <2>4
  <2>6. EntryIsLinked'
    <3>1. \A k \in ClientIds :
            /\ entry'[k].ip \in had[Owner(k)] \cup {Observer, None}
            /\ entry'[k].mac # None => Linked(entry'[k].mac, Owner(k))
            /\ entry'[k].id \in {Owner(k), None}
      BY <2>3, <2>5 DEF FilesInv, EntryIsLinked
    <3> QED
      BY <3>1 DEF EntryIsLinked, Linked
  <2>7. PseudoIsHad' /\ NoClientAtPseudo'
    BY <1>2, <2>2, <2>5 DEF FilesInv, PseudoIsHad, NoClientAtPseudo
  <2>8. ASSUME NEW d \in Devices, Alone(d), Kept(d) PROVE Kept(d)'
    <3>1. mac \in Devices /\ Owner(f) = d => mac = d
      BY <2>3, <2>8 DEF Alone, Linked
    <3> QED
      BY <2>2, <2>5, <2>8, <3>1 DEF Kept
  <2>9. QED
    BY <2>2, <2>5, <2>6, <2>7, <2>8 DEF FileTypes, FilesInv, TypeOK
<1>4. CASE ~ \E c \in ToSet(order) : entry[c].ip = a
  <2>1. /\ UNCHANGED <<entry, order>>
        /\ pseudo' = [pseudo EXCEPT ![a] = IF mac = Blank /\ @ # None THEN @ ELSE mac]
    BY <1>4 DEF FromAddress
  <2>2. /\ pseudo' \in [Addresses -> Devices \cup {Blank, None}]
        /\ \A b \in Addresses \ {a} : pseudo'[b] = pseudo[b]
        /\ pseudo'[a] = IF mac = Blank /\ pseudo[a] # None THEN pseudo[a] ELSE mac
    BY <2>1 DEF TypeOK
  <2>3. NoClientAtPseudo'
    BY <1>4, <2>1, <2>2 DEF FilesInv, NoClientAtPseudo
  <2>4. EntryIsLinked'
    BY <2>1 DEF FilesInv, EntryIsLinked, Linked
  <2>5. PseudoIsHad'
    BY <1>1, <2>2 DEF FilesInv, PseudoIsHad
  <2>6. ASSUME NEW d \in Devices, Alone(d), Kept(d) PROVE Kept(d)'
    <3>1. CASE \E c \in ClientIds : Owner(c) = d /\ c \in ToSet(order) /\ entry[c].mac = d
      BY <2>1, <3>1 DEF Kept
    <3>2. ASSUME NEW b \in Pool, pseudo[b] = d PROVE pseudo'[b] = d
      <4>1. b \in Addresses /\ b \in had[d]
        BY <3>2 DEF FilesInv, PseudoIsHad, Addresses
      <4>2. mac \in Devices /\ a = b => mac = d
        BY <1>1, <2>6, <4>1 DEF Alone, Linked
      <4> QED
        BY <1>1, <2>2, <3>2, <4>1, <4>2
    <3> QED
      BY <2>6, <3>1, <3>2 DEF Kept
  <2>7. QED
    BY <2>1, <2>2, <2>3, <2>4, <2>5, <2>6 DEF FileTypes, FilesInv, TypeOK
<1>5. QED
  BY <1>3, <1>4

-----------------------------------------------------------------------------
LEMMA InitIdentity == Init => IdentityInv
<1> SUFFICES ASSUME Init PROVE IdentityInv
  OBVIOUS
<1>1. NewEntry \in Entry /\ NewEntry.ip = None /\ NewEntry.mac = None /\ NewEntry.id = None
  BY DEF NewEntry, Entry
<1>2. entry \in [ClientIds -> Entry] /\ \A c \in ClientIds : entry[c] = NewEntry
  BY <1>1 DEF Init
<1>3. TypeOK
  <2>1. 0 \in 0..MaxJoins /\ 0 \in 0..MaxLosses
    BY IdentityBoundsAssumption
  <2>2. /\ sticky \in [ClientIds -> Devices \cup {None}]
        /\ stored \in [ClientIds -> Devices \cup {None}]
        /\ address \in [Devices -> Pool \cup {None}]
        /\ client \in [Devices -> ClientIds \cup {None}]
        /\ had \in [Devices -> SUBSET Pool]
        /\ pseudo \in [Addresses -> Devices \cup {Blank, None}]
    BY DEF Init, Unbound
  <2>3. order \in Seq(ClientIds) /\ joins \in 0..MaxJoins /\ losses \in 0..MaxLosses
        /\ misread \in BOOLEAN
    <3>1. order = << >> /\ joins = 0 /\ losses = 0 /\ misread = FALSE
      BY DEF Init
    <3>2. << >> \in Seq(ClientIds)
      OBVIOUS
    <3> QED
      BY <2>1, <3>1, <3>2
  <2> QED
    BY <1>2, <2>2, <2>3 DEF TypeOK
<1>4. AtHome
  BY DEF Init, AtHome
<1>5. FilesInv
  BY <1>1, <1>2, NoneAssumption DEF Init, FilesInv, EntryIsLinked, PseudoIsHad, NoClientAtPseudo
<1>6. BindingsInv
  BY DEF Init, BindingsInv, TakenOverOnlyByAddress, SavedIsRemembered, Unbound
<1>7. QED
  BY <1>3, <1>4, <1>5, <1>6 DEF IdentityInv

\* What a hook leaves alone: it keeps the invariant if it keeps the file's part.
LEMMA HookKeeps ==
  ASSUME IdentityInv, FileTypes', FilesInv', UNCHANGED <<networkVars, bridgeVars, losses>>
  PROVE  IdentityInv'
<1>1. TypeOK'
  BY DEF IdentityInv, TypeOK, FileTypes, networkVars, bridgeVars
<1>2. AtHome'
  BY DEF IdentityInv, AtHome, networkVars
<1>3. BindingsInv'
  BY DEF IdentityInv, BindingsInv, TakenOverOnlyByAddress, SavedIsRemembered, Linked,
         networkVars, bridgeVars
<1> QED
  BY <1>1, <1>2, <1>3 DEF IdentityInv

\* The hooks keep the invariant, and the MAC of a device that shares no address.
LEMMA HooksKeep ==
  ASSUME IdentityInv,
         \/ \E d \in Devices, mac \in Devices \cup {Blank} : Mef(d, mac)
         \/ \E d \in Devices : Inject(d)
         \/ \E d \in Devices, bootstrap \in BOOLEAN : Contact(d, bootstrap)
         \/ InjectUnaddressed
  PROVE  IdentityInv' /\ \A d \in Devices : Alone(d) /\ Kept(d) => Kept(d)'
<1>1. TypeOK /\ AtHome /\ FilesInv
  BY DEF IdentityInv
<1>2. UNCHANGED <<networkVars, bridgeVars, losses>> /\ UNCHANGED had
  BY DEF Mef, Inject, Contact, InjectUnaddressed, networkVars
<1>3. ASSUME NEW d \in Devices, NEW mac \in Devices \cup {Blank}, Mef(d, mac)
      PROVE  FileTypes' /\ FilesInv' /\ \A e \in Devices : Alone(e) /\ Kept(e) => Kept(e)'
  <2>1. address[d] \in had[d] /\ address[d] \in Addresses
    BY <1>1, <1>3 DEF Mef, AtHome, TypeOK, Addresses
  <2>2. FromAddress(address[d], mac) /\ (mac # Blank => mac = d)
    BY <1>3 DEF Mef
  <2> QED
    BY <1>1, <1>2, <2>1, <2>2, FromAddressKeeps
<1>4. ASSUME NEW d \in Devices, NEW bootstrap \in BOOLEAN, Contact(d, bootstrap)
      PROVE  FileTypes' /\ FilesInv' /\ \A e \in Devices : Alone(e) /\ Kept(e) => Kept(e)'
  <2>1. client[d] \in ClientIds /\ Owner(client[d]) = d /\ address[d] \in had[d]
    BY <1>1, <1>4 DEF Contact, AtHome, TypeOK
  <2>2. PICK id \in {d, None} : FromClient(client[d], address[d], id)
    BY <1>4 DEF Contact, CleanMac
  <2> QED
    BY <1>1, <1>2, <2>1, <2>2, FromClientKeeps
<1>5. ASSUME NEW d \in Devices, Inject(d)
      PROVE  FileTypes' /\ FilesInv' /\ \A e \in Devices : Alone(e) /\ Kept(e) => Kept(e)'
  <2>1. client[d] \in ClientIds /\ FromClient(client[d], Observer, None)
    BY <1>1, <1>5 DEF Inject, AtHome, TypeOK
  <2> QED
    BY <1>1, <1>2, <2>1, FromClientKeeps
<1>6. ASSUME InjectUnaddressed
      PROVE  FileTypes' /\ FilesInv' /\ \A e \in Devices : Alone(e) /\ Kept(e) => Kept(e)'
  <2>1. FromAddress(Observer, Blank) /\ Observer \in Addresses
    BY <1>6 DEF InjectUnaddressed, Addresses
  <2> QED
    BY <1>1, <1>2, <2>1, FromAddressKeeps
<1>7. FileTypes' /\ FilesInv' /\ \A e \in Devices : Alone(e) /\ Kept(e) => Kept(e)'
  BY <1>3, <1>4, <1>5, <1>6
<1> QED
  BY <1>2, <1>7, HookKeeps

\* Devices that are linked stay so when the addresses they have had only grow.
LEMMA JoinKeeps ==
  ASSUME IdentityInv, NEW d \in Devices, NEW a \in Pool, NEW c \in ClientIds, Join(d, a, c)
  PROVE  IdentityInv'
<1>1. had' \in [Devices -> SUBSET Pool] /\ \A e \in Devices : had[e] \subseteq had'[e]
  BY DEF Join, IdentityInv, TypeOK
<1>2. \A e, f \in Devices : Linked(e, f) => Linked(e, f)'
  BY <1>1 DEF Linked
<1>3. joins' \in 0..MaxJoins
  BY IdentityBoundsAssumption DEF Join, IdentityInv, TypeOK
<1>4. UNCHANGED <<fileVars, bridgeVars, losses>>
  BY DEF Join
<1>5. TypeOK'
  <2>1. address' \in [Devices -> Pool \cup {None}] /\ client' \in [Devices -> ClientIds \cup {None}]
    BY DEF Join, IdentityInv, TypeOK
  <2> QED
    BY <1>1, <1>3, <1>4, <2>1 DEF IdentityInv, TypeOK, fileVars, bridgeVars
<1>6. AtHome'
  <2>1. address[d] = None /\ Owner(c) = d /\ c # None
    BY NoneAssumption DEF Join
  <2>2. /\ address'[d] = a /\ client'[d] = c /\ a \in had'[d]
        /\ \A e \in Devices \ {d} :
             address'[e] = address[e] /\ client'[e] = client[e] /\ had'[e] = had[e]
    BY DEF Join, IdentityInv, TypeOK
  <2> QED
    BY <2>1, <2>2 DEF IdentityInv, AtHome
<1>7. FilesInv'
  <2>1. \A k \in ClientIds :
          /\ entry[k].ip \in had'[Owner(k)] \cup {Observer, None}
          /\ entry[k].mac # None => Linked(entry[k].mac, Owner(k))'
    <3>1. \A k \in ClientIds : entry[k].mac \in Devices \cup {None} /\ Owner(k) \in Devices
      BY OwnerType DEF IdentityInv, TypeOK, Entry
    <3>2. ASSUME NEW k \in ClientIds, entry[k].mac # None PROVE Linked(entry[k].mac, Owner(k))'
      <4>1. Linked(entry[k].mac, Owner(k)) /\ entry[k].mac \in Devices /\ Owner(k) \in Devices
        BY <3>1, <3>2 DEF IdentityInv, FilesInv, EntryIsLinked
      <4>2. entry'[k].mac = entry[k].mac
        BY <1>4 DEF fileVars
      <4> QED
        BY <1>1, <4>1, <4>2 DEF Linked
    <3>3. \A k \in ClientIds : entry[k].ip \in had'[Owner(k)] \cup {Observer, None}
      BY <1>1, <3>1 DEF IdentityInv, FilesInv, EntryIsLinked
    <3> QED
      BY <1>4, <3>2, <3>3 DEF fileVars
  <2>2. EntryIsLinked'
    BY <1>4, <2>1 DEF IdentityInv, FilesInv, EntryIsLinked, fileVars
  <2>3. PseudoIsHad' /\ NoClientAtPseudo'
    BY <1>1, <1>4 DEF IdentityInv, FilesInv, PseudoIsHad, NoClientAtPseudo, fileVars
  <2> QED
    BY <2>2, <2>3 DEF FilesInv
<1>8. BindingsInv'
  <2>1. \A k \in ClientIds : \A e \in {sticky[k], stored[k]} \ {None} :
          e \in Devices /\ Owner(k) \in Devices /\ Linked(e, Owner(k))
    BY OwnerType DEF IdentityInv, TypeOK, BindingsInv, TakenOverOnlyByAddress
  <2>2. \A k \in ClientIds : \A e \in {sticky[k], stored[k]} \ {None} : Linked(e, Owner(k))'
    BY <1>2, <2>1
  <2>3. TakenOverOnlyByAddress'
    BY <1>4, <2>2 DEF TakenOverOnlyByAddress, bridgeVars
  <2> QED
    BY <1>4, <2>3 DEF IdentityInv, BindingsInv, SavedIsRemembered, bridgeVars
<1> QED
  BY <1>5, <1>6, <1>7, <1>8 DEF IdentityInv

\* The file and the network being left alone, their part of the invariant is kept.
LEMMA BridgeKeeps ==
  ASSUME IdentityInv, UNCHANGED <<networkVars, fileVars, losses>>
  PROVE  AtHome' /\ FilesInv' /\ FileTypes' /\ UNCHANGED had
BY DEF IdentityInv, AtHome, FilesInv, EntryIsLinked, PseudoIsHad, NoClientAtPseudo, Linked,
       FileTypes, TypeOK, networkVars, fileVars

LEMMA ResolveKeeps ==
  ASSUME IdentityInv, NEW c \in ClientIds, NEW saved \in BOOLEAN, Resolve(c, saved)
  PROVE  IdentityInv'
<1>1. UNCHANGED <<networkVars, fileVars, losses>> /\ misread' = misread
  BY DEF Resolve
<1>2. AtHome' /\ FilesInv' /\ FileTypes' /\ UNCHANGED had
  BY <1>1, BridgeKeeps
<1> DEFINE mac == Candidate(entry[c])
<1>3. Owner(c) \in Devices /\ mac \in Devices /\ Linked(mac, Owner(c)) /\ mac # None
  <2>1. /\ entry[c].mac \in Devices \cup {None} /\ entry[c].id \in {Owner(c), None}
        /\ entry[c].mac # None => Linked(entry[c].mac, Owner(c))
    BY DEF IdentityInv, TypeOK, Entry, FilesInv, EntryIsLinked
  <2>2. Linked(Owner(c), Owner(c))
    BY DEF Linked
  <2> QED
    BY <2>1, <2>2, OwnerType DEF Resolve, Candidate
<1> HIDE DEF mac
<1>4. /\ sticky[c] = None /\ sticky' = [sticky EXCEPT ![c] = mac]
      /\ stored' \in {sticky', stored}
  BY DEF Resolve, mac
<1>5. /\ sticky' \in [ClientIds -> Devices \cup {None}]
      /\ stored' \in [ClientIds -> Devices \cup {None}]
  BY <1>3, <1>4 DEF IdentityInv, TypeOK
<1>6. TypeOK'
  BY <1>1, <1>2, <1>5 DEF IdentityInv, TypeOK, FileTypes, networkVars
<1>7. TakenOverOnlyByAddress'
  <2>1. \A k \in ClientIds : \A e \in {sticky'[k], stored'[k]} \ {None} : Linked(e, Owner(k))
    BY <1>3, <1>4 DEF IdentityInv, TypeOK, BindingsInv, TakenOverOnlyByAddress
  <2> QED
    BY <1>2, <2>1 DEF TakenOverOnlyByAddress, Linked
<1>8. SavedIsRemembered'
  BY <1>1, <1>4 DEF IdentityInv, TypeOK, BindingsInv, SavedIsRemembered
<1> QED
  BY <1>2, <1>6, <1>7, <1>8 DEF IdentityInv, BindingsInv

\* No step disturbs the invariant.
LEMMA StepIdentity ==
  ASSUME IdentityInv, [Next]_vars
  PROVE  IdentityInv'
<1>1. CASE \/ \E d \in Devices, mac \in Devices \cup {Blank} : Mef(d, mac)
           \/ \E d \in Devices : Inject(d)
           \/ \E d \in Devices, bootstrap \in BOOLEAN : Contact(d, bootstrap)
           \/ InjectUnaddressed
  BY <1>1, HooksKeep
<1>2. CASE LoseFile
  <2>1. entry' \in [ClientIds -> Entry] /\ \A c \in ClientIds : entry'[c] = NewEntry
    BY <1>2 DEF LoseFile, NewEntry, Entry
  <2>2. order' = << >> /\ pseudo' = [a \in Addresses |-> None] /\ losses' \in 0..MaxLosses
    BY <1>2, IdentityBoundsAssumption DEF LoseFile, IdentityInv, TypeOK
  <2>3. UNCHANGED <<networkVars, bridgeVars>>
    BY <1>2 DEF LoseFile
  <2>4. TypeOK'
    BY <2>1, <2>2, <2>3 DEF IdentityInv, TypeOK, networkVars, bridgeVars
  <2>5. FilesInv'
    BY <2>1, <2>2, NoneAssumption
       DEF FilesInv, EntryIsLinked, PseudoIsHad, NoClientAtPseudo, NewEntry
  <2>6. AtHome' /\ BindingsInv'
    BY <2>3 DEF IdentityInv, AtHome, BindingsInv, TakenOverOnlyByAddress, SavedIsRemembered,
                Linked, networkVars, bridgeVars
  <2> QED
    BY <2>4, <2>5, <2>6 DEF IdentityInv
<1>3. ASSUME NEW d \in Devices, NEW a \in Pool, NEW c \in ClientIds, Join(d, a, c)
      PROVE  IdentityInv'
  BY <1>3, JoinKeeps
<1>4. ASSUME NEW d \in Devices, Leave(d) PROVE IdentityInv'
  <2>1. /\ address' \in [Devices -> Pool \cup {None}]
        /\ client' \in [Devices -> ClientIds \cup {None}]
        /\ AtHome'
    BY <1>4 DEF Leave, IdentityInv, TypeOK, AtHome
  <2>2. UNCHANGED <<had, joins, fileVars, bridgeVars, losses>>
    BY <1>4 DEF Leave
  <2>3. TypeOK'
    BY <2>1, <2>2 DEF IdentityInv, TypeOK, fileVars, bridgeVars
  <2>4. FilesInv' /\ BindingsInv'
    BY <2>2 DEF IdentityInv, FilesInv, EntryIsLinked, PseudoIsHad, NoClientAtPseudo, BindingsInv,
                TakenOverOnlyByAddress, SavedIsRemembered, Linked, fileVars, bridgeVars
  <2> QED
    BY <2>1, <2>3, <2>4 DEF IdentityInv
<1>5. ASSUME NEW c \in ClientIds, NEW saved \in BOOLEAN, Resolve(c, saved) PROVE IdentityInv'
  BY <1>5, ResolveKeeps
<1>6. ASSUME NEW loaded \in BOOLEAN, BridgeRestart(loaded) PROVE IdentityInv'
  <2>1. /\ UNCHANGED <<networkVars, fileVars, losses>> /\ stored' = stored
        /\ misread' = (misread \/ ~loaded)
        /\ sticky' = IF loaded THEN stored ELSE Unbound
    BY <1>6 DEF BridgeRestart
  <2>2. AtHome' /\ FilesInv' /\ FileTypes' /\ UNCHANGED had
    BY <2>1, BridgeKeeps
  <2>3. misread \in BOOLEAN /\ stored \in [ClientIds -> Devices \cup {None}]
        /\ \A c \in ClientIds : Unbound[c] = None /\ Unbound \in [ClientIds -> Devices \cup {None}]
    BY DEF IdentityInv, TypeOK, Unbound
  <2>4. sticky' \in [ClientIds -> Devices \cup {None}]
    BY <2>1, <2>3 DEF Unbound
  <2>5. TypeOK'
    BY <2>1, <2>2, <2>3, <2>4 DEF IdentityInv, TypeOK, FileTypes, networkVars
  <2>6. TakenOverOnlyByAddress'
    BY <2>1, <2>2, <2>3 DEF IdentityInv, BindingsInv, TakenOverOnlyByAddress, Linked
  <2>7. SavedIsRemembered'
    BY <2>1 DEF SavedIsRemembered
  <2> QED
    BY <2>2, <2>5, <2>6, <2>7 DEF IdentityInv, BindingsInv
<1>7. CASE UNCHANGED vars
  <2>1. UNCHANGED <<networkVars, fileVars, losses>> /\ UNCHANGED bridgeVars
    BY <1>7 DEF vars
  <2>2. AtHome' /\ FilesInv' /\ FileTypes' /\ UNCHANGED had
    BY <2>1, BridgeKeeps
  <2>3. TypeOK' /\ BindingsInv'
    BY <2>1, <2>2 DEF IdentityInv, TypeOK, FileTypes, BindingsInv, TakenOverOnlyByAddress,
                      SavedIsRemembered, Linked, networkVars, bridgeVars
  <2> QED
    BY <2>2, <2>3 DEF IdentityInv
<1>8. QED
  BY <1>1, <1>2, <1>3, <1>4, <1>5, <1>6, <1>7 DEF Next

-----------------------------------------------------------------------------
(***************************************************************************)
(* The theorems                                                            *)
(***************************************************************************)

\* The invariant, whatever addresses the devices get.
THEOREM IdentityInvariant == Spec => []IdentityInv
<1>1. IdentityInv /\ [Next]_vars => IdentityInv'
  BY StepIdentity
<1>2. QED
  BY InitIdentity, <1>1, PTL DEF Spec

\* devices.json, the bindings and the network are well typed.
THEOREM TypeCorrect == Spec => []TypeOK
<1>1. IdentityInv => TypeOK
  BY DEF IdentityInv
<1>2. QED
  BY IdentityInvariant, <1>1, PTL

\* A client id is bound to the MAC of another device, in memory or in the
\* slugmap file, only if the two have had an address in common, whatever the
\* order of posts, messages, injects, lost files and restarts.
THEOREM NoTakeoverWithoutAddress == Spec => []TakenOverOnlyByAddress
<1>1. IdentityInv => TakenOverOnlyByAddress
  BY DEF IdentityInv, BindingsInv
<1>2. QED
  BY IdentityInvariant, <1>1, PTL

\* A MAC that devices.json has, of a device that has shared no address, is lost
\* by no order of merges, overwrites and prunings, but only with the file.
THEOREM MacsStayOnFile == Spec => MacStaysOnFile
<1>1. ASSUME IdentityInv, [Next]_vars
      PROVE  [\A d \in Devices : OnFile(d) /\ Alone(d)' => OnFile(d)' \/ FileIsEmpty']_vars
  <2>1. \A d : (Kept(d) <=> OnFile(d)) /\ (Kept(d)' <=> OnFile(d)')
    <3>1. (\A c : Has(c) <=> c \in ToSet(order))'
      BY HasIsToSet, PTL
    <3> QED
      BY <3>1, KeptIsOnFile DEF Kept, OnFile
  <2> SUFFICES ASSUME Next, NEW d \in Devices, OnFile(d), Alone(d)', ~FileIsEmpty'
               PROVE  OnFile(d)'
    BY <1>1
  <2>2. CASE \/ \E e \in Devices, mac \in Devices \cup {Blank} : Mef(e, mac)
             \/ \E e \in Devices : Inject(e)
             \/ \E e \in Devices, bootstrap \in BOOLEAN : Contact(e, bootstrap)
             \/ InjectUnaddressed
    <3>1. UNCHANGED had
      BY <2>2 DEF Mef, Inject, Contact, InjectUnaddressed, networkVars
    <3>2. Alone(d)
      BY <3>1 DEF Alone, Linked
    <3> QED
      BY <1>1, <2>1, <2>2, <3>2, HooksKeep
  <2>3. ~LoseFile
    BY DEF LoseFile, FileIsEmpty
  <2>4. CASE UNCHANGED fileVars
    BY <2>4 DEF fileVars, OnFile, Has
  <2> QED
    BY <2>2, <2>3, <2>4 DEF Next, Join, Leave, Resolve, BridgeRestart
<1>2. QED
  BY IdentityInvariant, <1>1, PTL DEF Spec, MacStaysOnFile

\* A binding in the slugmap file is never changed, nor forgotten by the bridge,
\* as long as the bridge has been able to read the file.
THEOREM BindingsAreWriteOnce == Spec => WriteOnce
<1>1. ASSUME IdentityInv, [Next]_vars
      PROVE  [\A c \in ClientIds :
                stored[c] # None =>
                    (stored'[c] = stored[c] /\ sticky'[c] = stored[c]) \/ misread']_vars
  <2> SUFFICES ASSUME Next, NEW c \in ClientIds, stored[c] # None, ~misread'
               PROVE  stored'[c] = stored[c] /\ sticky'[c] = stored[c]
    BY <1>1
  <2>1. misread => misread'
    BY DEF Next, Mef, Inject, Contact, InjectUnaddressed, LoseFile, Join, Leave, Resolve,
           BridgeRestart, bridgeVars
  <2>2. sticky[c] = stored[c]
    BY <1>1, <2>1 DEF IdentityInv, BindingsInv, SavedIsRemembered
  <2>3. ASSUME NEW k \in ClientIds, NEW saved \in BOOLEAN, Resolve(k, saved)
        PROVE  stored'[c] = stored[c] /\ sticky'[c] = stored[c]
    BY <1>1, <2>2, <2>3 DEF Resolve, IdentityInv, TypeOK
  <2>4. ASSUME NEW loaded \in BOOLEAN, BridgeRestart(loaded)
        PROVE  stored'[c] = stored[c] /\ sticky'[c] = stored[c]
    BY <2>4 DEF BridgeRestart
  <2>5. CASE UNCHANGED bridgeVars
    BY <2>2, <2>5 DEF bridgeVars
  <2> QED
    BY <2>3, <2>4, <2>5
       DEF Next, Mef, Inject, Contact, InjectUnaddressed, LoseFile, Join, Leave
<1>2. QED
  BY IdentityInvariant, <1>1, PTL DEF Spec, WriteOnce
=============================================================================
