---------------------------- MODULE DeviceIdentity ----------------------------
(***************************************************************************)
(* How a device comes by its Home Assistant identity.  The feed rule       *)
(* (relay/rules/10-dashboard-feed.py) writes what it sees to devices.json: *)
(* the MEF POST on :443 gives a MAC but no client id, and is filed by      *)
(* source address; an MQTT message gives the client id; an inject gives a  *)
(* client id too, but the address of the observer.  The bridge             *)
(* (bridge/mttl_ha_bridge.py, SlugMap and _resolve_mac) binds a client id  *)
(* to the first MAC that it finds in its entry, write-once, and keeps the  *)
(* bindings in a file.                                                     *)
(*                                                                         *)
(* A hook runs under the rule's lock from reading the file to replacing    *)
(* it, and is one action.  A device stands for its MAC, and gets whatever  *)
(* address of the pool is free: one that another device had before, too.   *)
(* A MAC-like device id is that of the device; any other counts as None.   *)
(***************************************************************************)
EXTENDS Naturals, Sequences, SequencesExt

CONSTANTS
    Devices,    \* devices, and so their MACs
    ClientIds,  \* client ids, each a pair of a device and a name
    Pool,       \* the addresses that devices get
    Leases,     \* the addresses that a device may get: pairs of a device and an address
    MacAsId,    \* devices whose device id is their MAC
    Observer,   \* the address of the observers
    Blank,      \* an ip: entry without a MAC
    MaxJoins,   \* bound: how often devices are switched on
    MaxLosses,  \* bound: how often devices.json is lost
    None        \* no address, MAC or entry

\* The relay issues the client id on /mef, as a hash of the MAC (99-default.py):
\* it tells devices apart.  The name is what else it depends on: whether it was
\* made from the MAC or the serial number, and who issued it.
Owner(c) == c[1]

ASSUME DevicesAssumption == MacAsId \subseteq Devices /\ \A c \in ClientIds : Owner(c) \in Devices
ASSUME ObserverAssumption == Observer \notin Pool
ASSUME IdentityBoundsAssumption == MaxJoins \in Nat /\ MaxLosses \in Nat
ASSUME NoneAssumption ==
    /\ None \notin Devices \cup ClientIds \cup Pool \cup {Observer, Blank}
    /\ Blank \notin Devices

Addresses == Pool \cup {Observer}

VARIABLES
    address,  \* address[d]: the address d has, None while it is off
    client,   \* client[d]: the client id d uses, None while it is off
    entry,    \* devices.json: entry[c]: ip, mac and device id of client id c
    order,    \* devices.json: the client ids that have an entry, in file order
    pseudo,   \* devices.json: pseudo[a]: the MAC in "ip:<a>", Blank, or None if absent
    sticky,   \* SlugMap._m: sticky[c]: the MAC bound to c
    stored,   \* the slugmap file
    had,      \* history: had[d]: the addresses that d has had
    misread,  \* history: the bridge has once been started without the slugmap file
    joins,    \* how often devices have been switched on
    losses    \* how often devices.json has been lost

fileVars == <<entry, order, pseudo>>
networkVars == <<address, client, had, joins>>
bridgeVars == <<sticky, stored, misread>>
vars == <<networkVars, fileVars, bridgeVars, losses>>

Entry == [ip : Addresses \cup {None}, mac : Devices \cup {None}, id : Devices \cup {None}]
NewEntry == [ip |-> None, mac |-> None, id |-> None]
Unbound == [c \in ClientIds |-> None]

Has(c) == Contains(order, c)

TypeOK ==
    /\ address \in [Devices -> Pool \cup {None}]
    /\ client \in [Devices -> ClientIds \cup {None}]
    /\ entry \in [ClientIds -> Entry]
    /\ order \in Seq(ClientIds)
    /\ pseudo \in [Addresses -> Devices \cup {Blank, None}]
    /\ sticky \in [ClientIds -> Devices \cup {None}]
    /\ stored \in [ClientIds -> Devices \cup {None}]
    /\ had \in [Devices -> SUBSET Pool]
    /\ misread \in BOOLEAN
    /\ joins \in 0..MaxJoins /\ losses \in 0..MaxLosses

Init ==
    /\ address = [d \in Devices |-> None]
    /\ client = [d \in Devices |-> None]
    /\ entry = [c \in ClientIds |-> NewEntry]
    /\ order = << >>
    /\ pseudo = [a \in Addresses |-> None]
    /\ sticky = Unbound /\ stored = Unbound
    /\ had = [d \in Devices |-> {}]
    /\ misread = FALSE
    /\ joins = 0 /\ losses = 0

-----------------------------------------------------------------------------
(***************************************************************************)
(* The feed rule                                                           *)
(***************************************************************************)

\* A mutant: the ip: entry is dropped.
MergedNothing(e, p) == e

\* merge_entry: a value that is there already wins.
Merged(e, p) ==
    IF e.mac = None /\ p \in Devices THEN [e EXCEPT !.mac = p] ELSE e

\* _prune: no ip: entry whose address belongs to a client id stays.
Pruned(pseudos, keys, entries) ==
    [a \in Addresses |->
        IF \E c \in ToSet(keys) : entries[c].ip = a THEN None ELSE pseudos[a]]

\* _record with client id c, from address a: its entry, new if need be, takes
\* in the ip: entry of a, and then what the hook found, here a device id.
FromClient(c, a, id) ==
    LET merged == Merged(entry[c], pseudo[a])
    IN  /\ entry' = [entry EXCEPT ![c] = [merged EXCEPT !.ip = a,
                                                        !.id = IF id = None THEN @ ELSE id]]
        /\ order' = IF Has(c) THEN order ELSE Append(order, c)
        /\ pseudo' = Pruned(pseudo, order', entry')

\* A mutant: any entry will do.
FirstInFile(a) == order[1]

\* The first entry in the file that has address a.
FirstAt(a) ==
    order[CHOOSE i \in DOMAIN order :
             /\ entry[order[i]].ip = a
             /\ \A j \in 1..(i - 1) : entry[order[j]].ip # a]

\* _record without a client id, from address a: into the first entry with that
\* address, or else into the ip: entry.
FromAddress(a, mac) ==
    IF \E c \in ToSet(order) : entry[c].ip = a
    THEN /\ entry' = IF mac \in Devices THEN [entry EXCEPT ![FirstAt(a)].mac = mac] ELSE entry
         /\ UNCHANGED <<order, pseudo>>
    ELSE /\ pseudo' = [pseudo EXCEPT ![a] = IF mac = Blank /\ @ # None THEN @ ELSE mac]
         /\ UNCHANGED <<entry, order>>

\* The device posts to /mef, with or without its MAC.
Mef(d, mac) ==
    /\ address[d] # None
    /\ mac \in {d, Blank}
    /\ FromAddress(address[d], mac)
    /\ UNCHANGED <<networkVars, bridgeVars, losses>>

\* clean_mac of the device id of d.
CleanMac(d) == IF d \in MacAsId THEN d ELSE None

\* A session start or an MQTT message, the bootstrap message with the device
\* id among them.
Contact(d, bootstrap) ==
    /\ address[d] # None
    /\ FromClient(client[d], address[d], IF bootstrap THEN CleanMac(d) ELSE None)
    /\ UNCHANGED <<networkVars, bridgeVars, losses>>

\* An observer's command for a device that has a session.
Inject(d) ==
    /\ address[d] # None
    /\ FromClient(client[d], Observer, None)
    /\ UNCHANGED <<networkVars, bridgeVars, losses>>

\* ... and one that has lost its addressee in between.
InjectUnaddressed ==
    /\ FromAddress(Observer, Blank)
    /\ UNCHANGED <<networkVars, bridgeVars, losses>>

\* devices.json is removed, or cannot be read when a hook is about to write it.
LoseFile ==
    /\ losses < MaxLosses
    /\ entry' = [c \in ClientIds |-> NewEntry]
    /\ order' = << >>
    /\ pseudo' = [a \in Addresses |-> None]
    /\ losses' = losses + 1
    /\ UNCHANGED <<networkVars, bridgeVars>>

-----------------------------------------------------------------------------
(***************************************************************************)
(* The devices                                                             *)
(***************************************************************************)

\* d gets an address that is free, and a client id.
Join(d, a, c) ==
    /\ joins < MaxJoins
    /\ address[d] = None
    /\ <<d, a>> \in Leases /\ \A e \in Devices : address[e] # a
    /\ Owner(c) = d
    /\ address' = [address EXCEPT ![d] = a]
    /\ client' = [client EXCEPT ![d] = c]
    /\ had' = [had EXCEPT ![d] = @ \cup {a}]
    /\ joins' = joins + 1
    /\ UNCHANGED <<fileVars, bridgeVars, losses>>

Leave(d) ==
    /\ address[d] # None
    /\ address' = [address EXCEPT ![d] = None]
    /\ client' = [client EXCEPT ![d] = None]
    /\ UNCHANGED <<had, joins, fileVars, bridgeVars, losses>>

-----------------------------------------------------------------------------
(***************************************************************************)
(* The bridge                                                              *)
(***************************************************************************)

\* A mutant: the address serves when there is no MAC.
CandidateFromAddress(e) == IF e.mac # None THEN e.mac ELSE e.ip

\* _resolve_mac: the MAC of an entry, or else a device id that is one.
Candidate(e) == IF e.mac # None THEN e.mac ELSE e.id

\* A mutant: the binding follows the entry.
ResolveRebinds(c, saved) ==
    /\ Has(c)
    /\ Candidate(entry[c]) # None
    /\ sticky' = [sticky EXCEPT ![c] = Candidate(entry[c])]
    /\ stored' = IF saved THEN sticky' ELSE stored
    /\ UNCHANGED <<networkVars, fileVars, misread, losses>>

\* SlugMap.learn for a client id that has no binding yet: it is bound, and the
\* file written, if it can be.
Resolve(c, saved) ==
    /\ Has(c)
    /\ sticky[c] = None
    /\ Candidate(entry[c]) # None
    /\ sticky' = [sticky EXCEPT ![c] = Candidate(entry[c])]
    /\ stored' = IF saved THEN sticky' ELSE stored
    /\ UNCHANGED <<networkVars, fileVars, misread, losses>>

\* The bridge is restarted and loads the file, or fails to and goes on.
BridgeRestart(loaded) ==
    /\ sticky' = IF loaded THEN stored ELSE Unbound
    /\ misread' = (misread \/ ~loaded)
    /\ UNCHANGED <<networkVars, fileVars, stored, losses>>

-----------------------------------------------------------------------------
Next ==
    \/ \E d \in Devices, mac \in Devices \cup {Blank} : Mef(d, mac)
    \/ \E d \in Devices : Inject(d) \/ Leave(d)
    \/ \E d \in Devices, bootstrap \in BOOLEAN : Contact(d, bootstrap)
    \/ InjectUnaddressed
    \/ LoseFile
    \/ \E d \in Devices, a \in Pool, c \in ClientIds : Join(d, a, c)
    \/ \E c \in ClientIds, saved \in BOOLEAN : Resolve(c, saved)
    \/ \E loaded \in BOOLEAN : BridgeRestart(loaded)

Spec == Init /\ [][Next]_vars

(***************************************************************************)
(* Fairness: a device that is on keeps sending messages, and the bridge's  *)
(* loop runs.  Nothing is assumed of devices that are off, of injects, of  *)
(* the files or of restarts.                                               *)
(***************************************************************************)
FairSpec ==
    /\ Spec
    /\ \A d \in Devices : WF_vars(Contact(d, FALSE))
    /\ \A c \in ClientIds : SF_vars(\E saved \in BOOLEAN : Resolve(c, saved))

-----------------------------------------------------------------------------
(***************************************************************************)
(* Properties                                                              *)
(***************************************************************************)

\* Devices that have had an address in common, or are one.
Linked(d, e) == d = e \/ had[d] \cap had[e] # {}

\* No other device has had an address of d.
Alone(d) == \A e \in Devices : Linked(d, e) => e = d

\* A device takes over the identity of another only by way of an address that
\* both have had: a client id is bound, in memory and in the file, to the MAC
\* of the device that uses it or of one that it has shared an address with.
TakenOverOnlyByAddress ==
    \A c \in ClientIds :
        \A d \in {sticky[c], stored[c]} \ {None} : Linked(d, Owner(c))

\* Where devices.json has the MAC that d has posted: under a client id of d,
\* or waiting in an ip: entry for the first message.
OnFile(d) ==
    \/ \E a \in Pool : pseudo[a] = d
    \/ \E c \in ClientIds : Owner(c) = d /\ Has(c) /\ entry[c].mac = d

FileIsEmpty == order = << >> /\ \A a \in Addresses : pseudo[a] = None

\* A MAC on file is not lost among the merges, overwrites and prunings, as long
\* as no other device gets the address: it goes only with the whole file.
MacStaysOnFile ==
    [][\A d \in Devices : OnFile(d) /\ Alone(d)' => OnFile(d)' \/ FileIsEmpty']_vars

\* Bindings are write-once, through restarts of the bridge, lost files and
\* devices that swap addresses and names: one that is in the slugmap file stays
\* there and in memory, unless the bridge has once failed to read the file.
WriteOnce ==
    [][\A c \in ClientIds :
            stored[c] # None =>
                (stored'[c] = stored[c] /\ sticky'[c] = stored[c]) \/ misread']_vars

\* A device whose MAC waits under its address, or whose bootstrap message named
\* it, gets a slug for the client id it uses, if it stays on.
DeviceIsDiscovered ==
    \A c \in ClientIds :
        LET d == Owner(c)
        IN  (/\ client[d] = c
             /\ pseudo[address[d]] = d \/ (Has(c) /\ entry[c].id = d))
                ~> (sticky[c] # None \/ client[d] # c \/ FileIsEmpty)
=============================================================================
