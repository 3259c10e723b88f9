----------------------------- MODULE FirmwareOta -----------------------------
(***************************************************************************)
(* The firmware update rule (relay/rules/15-firmware-ota.py) with the      *)
(* streaming of the image that the relay does for it outside the rule's    *)
(* lock (vendor/smartrelay/relay.py, _serve_stream), the operator who      *)
(* writes the ARM file, and relay crashes.                                 *)
(*                                                                         *)
(* A request handler runs from its first check to its last write under     *)
(* _LOCK and is one action; a request that is BLOCKed changes nothing and  *)
(* is no action.  The completion callback of a stream takes the lock       *)
(* again: it writes the state file and then, still under the lock, renames *)
(* the ARM file, with a possible crash in between.                         *)
(*                                                                         *)
(* A unit is known by its source address and the origin it may send; two   *)
(* units may have one address.  An image stands for the                    *)
(* firmware's bytes, hash, offered version and file name; a device asks    *)
(* for the path it was offered, and any other path is a BLOCK.             *)
(***************************************************************************)
EXTENDS Naturals, FiniteSets

CONSTANTS
    Addresses,    \* source addresses
    Origins,      \* values of X-M2M-Origin
    Configs,      \* the configurations that the relay may be started with
    Images,       \* firmware images
    Streams,      \* connections on which the relay may be streaming an image
    MaxArms,      \* bound: how many ARM files the operator writes
    MaxMisreads,  \* bound: how many reads of the state file fail
    None          \* no unit, image, ARM file or stream

\* A unit, and the environment: MTTL_OTA_TARGET_IP and _ORIGIN,
\* MTTL_OTA_DENY_IPS and _ORIGINS.
Unit == [ip : Addresses, origin : Origins]
Config == [target : Unit, denyIps : SUBSET Addresses, denyOrigins : SUBSET Origins]

ASSUME ConfigsAssumption == Configs \subseteq Config
ASSUME OtaBoundsAssumption == MaxArms \in Nat /\ MaxMisreads \in Nat
ASSUME NoneAssumption == None \notin Unit \cup Images \cup Streams

(***************************************************************************)
(* The ARM files the operator writes are numbered; "live" says that the    *)
(* file is well formed and has not expired.                                *)
(***************************************************************************)
ArmIds == 1..MaxArms
Arm == [id : ArmIds, image : Images, target : Unit, live : BOOLEAN]
NoArm == [id |-> 0, image |-> None, target |-> None, live |-> FALSE]

\* Units that an ARM file is written for.
Targets == {c.target : c \in Configs}

Phases == {"OFF", "OFFERED", "TRANSFERRING", "SPENT"}
Stages == {"idle", "granted", "sending", "sent", "broken", "burning"}

(***************************************************************************)
(* A stream: "granted" (the response with the StreamPlan is on its way to  *)
(* _serve_stream), "sending" (the file is open), "sent" and "broken" (all  *)
(* bytes, or fewer, are handed to the socket, on_complete to be called),   *)
(* "burning" (state SPENT written, the ARM file to be renamed).            *)
(***************************************************************************)
VARIABLES
    config,     \* the environment the relay was started with
    arm,        \* the ARM file, NoArm when there is none
    nextArm,    \* the number of the next ARM file
    disk,       \* the image at the path the ARM file names
    phase,      \* state file: phase, "OFF" when there is no state
    offer,      \* state file: the unit of the stored offer, or None
    fresh,      \* the stored offer is younger than CORRELATION_TTL_SECONDS
    stream,     \* stream[k]: what connection k is streaming
    lock,       \* the stream whose completion callback holds _LOCK, or None
    spentArms,  \* the ARM files that have been renamed away
    misreads    \* reads of the state file that have failed

stateFile == <<phase, offer, fresh>>
operatorVars == <<config, arm, nextArm, disk>>
vars == <<operatorVars, stateFile, stream, lock, spentArms, misreads>>

target == config.target

TypeOK ==
    /\ config \in Configs
    /\ arm \in Arm \cup {NoArm}
    /\ nextArm \in 1..(MaxArms + 1)
    /\ disk \in Images
    /\ phase \in Phases
    /\ offer \in Unit \cup {None}
    /\ fresh \in BOOLEAN
    /\ stream \in [Streams -> Stages]
    /\ lock \in Streams \cup {None}
    /\ spentArms \subseteq ArmIds
    /\ misreads \in 0..MaxMisreads

Init ==
    /\ config \in Configs
    /\ arm = NoArm
    /\ nextArm = 1
    /\ disk \in Images
    /\ phase = "OFF"
    /\ offer = None
    /\ fresh = FALSE
    /\ stream = [k \in Streams |-> "idle"]
    /\ lock = None
    /\ spentArms = {}
    /\ misreads = 0

-----------------------------------------------------------------------------
(***************************************************************************)
(* Requests                                                                *)
(***************************************************************************)

\* What _read_state returns: the state, or nothing when the read fails.
Stored == [phase |-> phase, offer |-> offer, fresh |-> fresh]
Nothing == [phase |-> "OFF", offer |-> None, fresh |-> FALSE]
Reading(st) ==
    \/ st = Stored /\ UNCHANGED misreads
    \/ st = Nothing /\ misreads < MaxMisreads /\ misreads' = misreads + 1

\* The deny lists look at the origin that a request carries.
Denied(u, withOrigin) ==
    \/ u.ip \in config.denyIps
    \/ withOrigin /\ u.origin \in config.denyOrigins

\* A mutant: SPENT is not looked at.
AdmittedWhenSpent(u, withOrigin, st) ==
    /\ lock = None
    /\ ~Denied(u, withOrigin)
    /\ arm.live
    /\ arm.target = target
    /\ disk = arm.image

\* What both handlers demand of a request before they look at the rest: the
\* sender is not denied, the update is not known to be spent, the ARM file is
\* live and of the configured target, the image on disk is the one it names.
Admitted(u, withOrigin, st) ==
    /\ lock = None
    /\ ~Denied(u, withOrigin)
    /\ st.phase # "SPENT"
    /\ arm.live
    /\ arm.target = target
    /\ disk = arm.image

\* A mutant: the offered image is stored in place of the unit.
VersionCheckStoresImage(u) ==
    /\ \E st \in {Stored, Nothing} : Reading(st) /\ Admitted(u, TRUE, st)
    /\ u = target
    /\ phase' = "OFFERED"
    /\ offer' = arm.image
    /\ fresh' = TRUE
    /\ UNCHANGED <<operatorVars, stream, lock, spentArms>>

\* The version check of the target, with its origin: the offer is stored and
\* made.  (A failing write of the state file is a BLOCK.)
VersionCheck(u) ==
    /\ \E st \in {Stored, Nothing} : Reading(st) /\ Admitted(u, TRUE, st)
    /\ u = target
    /\ phase' = "OFFERED"
    /\ offer' = u
    /\ fresh' = TRUE
    /\ UNCHANGED <<operatorVars, stream, lock, spentArms>>

\* The firmware GET of unit u on connection k.  With an origin it must be the
\* target (case A); without one its address must be the target's, shortly
\* after an offer (case B).  A read that fails is a BLOCK: no active offer.
FirmwareGet(k, u, withOrigin) ==
    /\ stream[k] = "idle"
    /\ Admitted(u, withOrigin, Stored)
    /\ phase \in {"OFFERED", "TRANSFERRING"}
    /\ offer = target
    /\ IF withOrigin THEN u = target ELSE u.ip = target.ip /\ fresh
    /\ phase' = "TRANSFERRING"
    /\ stream' = [stream EXCEPT ![k] = "granted"]
    /\ UNCHANGED <<operatorVars, offer, fresh, lock, spentArms, misreads>>

-----------------------------------------------------------------------------
(***************************************************************************)
(* Streaming                                                               *)
(***************************************************************************)

\* _serve_stream opens the file and sends what it finds there, whether or not
\* it is what was hashed.
OpenImage(k) ==
    /\ stream[k] = "granted"
    /\ stream' = [stream EXCEPT ![k] = "sending"]
    /\ UNCHANGED <<operatorVars, stateFile, lock, spentArms, misreads>>

\* All bytes are handed to the socket.
SendAll(k) ==
    /\ stream[k] = "sending"
    /\ stream' = [stream EXCEPT ![k] = "sent"]
    /\ UNCHANGED <<operatorVars, stateFile, lock, spentArms, misreads>>

\* The connection breaks, or a send runs into the socket timeout.
Break(k) ==
    /\ stream[k] \in {"granted", "sending"}
    /\ stream' = [stream EXCEPT ![k] = "broken"]
    /\ UNCHANGED <<operatorVars, stateFile, lock, spentArms, misreads>>

\* A mutant: the ARM file is renamed away before the state file is written.
FinishFullBurnsFirst(k) ==
    /\ lock = None
    /\ stream[k] = "sent"
    /\ arm' = NoArm
    /\ spentArms' = spentArms \cup ({arm.id} \ {0})
    /\ stream' = [stream EXCEPT ![k] = "burning"]
    /\ lock' = k
    /\ UNCHANGED <<config, nextArm, disk, stateFile, misreads>>

\* The callback writes phase p, beside what it has read of the offer.
Note(p) ==
    \E st \in {Stored, Nothing} :
        /\ Reading(st)
        /\ phase' = p /\ offer' = st.offer /\ fresh' = st.fresh

\* on_complete(sent, filesize) with sent = filesize: the state file says
\* SPENT.
FinishFull(k) ==
    /\ lock = None
    /\ stream[k] = "sent"
    /\ Note("SPENT")
    /\ stream' = [stream EXCEPT ![k] = "burning"]
    /\ lock' = k
    /\ UNCHANGED <<operatorVars, spentArms>>

\* ... and the ARM file is renamed away, under whatever number it has by now.
\* The rename fails when there is no ARM file, or when /etc is read-only.
Burn(k) ==
    /\ stream[k] = "burning"
    /\ \/ /\ arm # NoArm
          /\ arm' = NoArm
          /\ spentArms' = spentArms \cup {arm.id}
       \/ UNCHANGED <<arm, spentArms>>
    /\ stream' = [stream EXCEPT ![k] = "idle"]
    /\ lock' = None
    /\ UNCHANGED <<config, nextArm, disk, stateFile, misreads>>

\* A mutant: a partial transfer spends the update.
FinishPartialSpends(k) ==
    /\ lock = None
    /\ stream[k] = "broken"
    /\ Note("SPENT")
    /\ stream' = [stream EXCEPT ![k] = "idle"]
    /\ UNCHANGED <<operatorVars, lock, spentArms>>

\* A mutant: a partial transfer leaves the lock taken.
FinishPartialKeepsLock(k) ==
    /\ lock = None
    /\ stream[k] = "broken"
    /\ Note("TRANSFERRING")
    /\ stream' = [stream EXCEPT ![k] = "idle"]
    /\ lock' = k
    /\ UNCHANGED <<operatorVars, spentArms>>

\* on_complete with sent < filesize: the device may retry.
FinishPartial(k) ==
    /\ lock = None
    /\ stream[k] = "broken"
    /\ Note("TRANSFERRING")
    /\ stream' = [stream EXCEPT ![k] = "idle"]
    /\ UNCHANGED <<operatorVars, lock, spentArms>>

\* The state file cannot be written: the callback raises, its caller logs it.
FinishUnwritten(k) ==
    /\ lock = None
    /\ stream[k] \in {"sent", "broken"}
    /\ stream' = [stream EXCEPT ![k] = "idle"]
    /\ UNCHANGED <<operatorVars, stateFile, lock, spentArms, misreads>>

-----------------------------------------------------------------------------
(***************************************************************************)
(* The operator, the clock, and the machine                                *)
(***************************************************************************)

\* An ARM file for image i and unit t is written, over one that is there.
WriteArm(i, t) ==
    /\ nextArm <= MaxArms
    /\ arm' = [id |-> nextArm, image |-> i, target |-> t, live |-> TRUE]
    /\ nextArm' = nextArm + 1
    /\ UNCHANGED <<config, disk, stateFile, stream, lock, spentArms, misreads>>

\* expires_epoch passes.
ArmExpires ==
    /\ arm.live
    /\ arm' = [arm EXCEPT !.live = FALSE]
    /\ UNCHANGED <<config, nextArm, disk, stateFile, stream, lock, spentArms, misreads>>

\* Another image is put at the path.
ReplaceImage(i) ==
    /\ disk # i
    /\ disk' = i
    /\ UNCHANGED <<config, arm, nextArm, stateFile, stream, lock, spentArms, misreads>>

\* CORRELATION_TTL_SECONDS pass after the offer.
OfferAges ==
    /\ fresh
    /\ fresh' = FALSE
    /\ UNCHANGED <<operatorVars, phase, offer, stream, lock, spentArms, misreads>>

\* The state file is removed by hand.
RemoveState ==
    /\ phase # "OFF"
    /\ phase' = "OFF"
    /\ offer' = None
    /\ fresh' = FALSE
    /\ UNCHANGED <<operatorVars, stream, lock, spentArms, misreads>>

\* The relay stops, at any point, and starts again, perhaps configured for
\* another target or other deny lists: the files survive, the streams and the
\* lock do not.
Restart(c) ==
    /\ config' = c
    /\ stream' = [k \in Streams |-> "idle"]
    /\ lock' = None
    /\ UNCHANGED <<arm, nextArm, disk, stateFile, spentArms, misreads>>

-----------------------------------------------------------------------------
StreamStep(k) ==
    \/ \E u \in Unit, withOrigin \in BOOLEAN : FirmwareGet(k, u, withOrigin)
    \/ OpenImage(k)
    \/ SendAll(k)
    \/ Break(k)
    \/ FinishFull(k)
    \/ Burn(k)
    \/ FinishPartial(k)
    \/ FinishUnwritten(k)

OperatorStep ==
    \/ \E i \in Images, t \in Targets : WriteArm(i, t)
    \/ ArmExpires
    \/ \E i \in Images : ReplaceImage(i)
    \/ OfferAges
    \/ RemoveState
    \/ \E c \in Configs : Restart(c)

Next ==
    \/ \E u \in Unit : VersionCheck(u)
    \/ \E k \in Streams : StreamStep(k)
    \/ OperatorStep

Spec == Init /\ [][Next]_vars

(***************************************************************************)
(* Fairness: a device with an update to fetch keeps asking, with its       *)
(* origin, and the relay's threads go on.  A transfer that is retried for  *)
(* ever is not broken off, and a state file not unwritable, for ever: that *)
(* is strong fairness of their succeeding.  Nothing is assumed of the      *)
(* operator or of restarts.                                                *)
(***************************************************************************)
Fairness ==
    /\ WF_vars(\E u \in Unit : VersionCheck(u))
    /\ SF_vars(\E k \in Streams, u \in Unit : FirmwareGet(k, u, TRUE))
    /\ \A k \in Streams :
        /\ SF_vars(OpenImage(k))
        /\ SF_vars(SendAll(k))
        /\ SF_vars(FinishFull(k))
        /\ WF_vars(FinishPartial(k) \/ FinishUnwritten(k))
        /\ WF_vars(Burn(k))

FairSpec == Spec /\ Fairness

-----------------------------------------------------------------------------
(***************************************************************************)
(* Properties                                                              *)
(***************************************************************************)

\* The ARM file is renamed away only once the state file says SPENT, so that
\* a crash between the two leaves the update spent (unless the state file is
\* removed by hand at that moment).
BurnedAfterSpent ==
    [][spentArms' # spentArms => phase \in {"SPENT", "OFF"}]_vars

\* SPENT is terminal: once the state file says SPENT it says so until it is
\* removed by hand.
SpentIsTerminal ==
    [][phase = "SPENT" => phase' \in {"SPENT", "OFF"}]_vars

\* What a one-shot sees of the phase and of a stream.
StateOf(p) ==
    CASE p = "OFF"                         -> "unused"
      [] p \in {"OFFERED", "TRANSFERRING"} -> "open"
      [] p = "SPENT"                       -> "spent"
ProgressOf(at) ==
    CASE at = "idle"                             -> "none"
      [] at \in {"granted", "sending", "broken"} -> "running"
      [] at = "sent"                             -> "whole"
      [] at = "burning"                          -> "spending"

Update == INSTANCE OneShot WITH
    Transfers      <- Streams,
    Authorisations <- ArmIds,
    state          <- StateOf(phase),
    transfer       <- [k \in Streams |-> ProgressOf(stream[k])],
    used           <- spentArms,
    misreads       <- misreads

\* The rule, with its state file written and its ARM file renamed in separate
\* steps, transfers that overlap, and restarts in between, is a one-shot: it
\* is spent only by a transfer that has sent the whole image, an ARM file is
\* burned only after that, and no transfer begins once it is spent.
IsOneShot == Update!Spec

\* The target may be offered the image that the ARM file names.
Armed ==
    arm.live /\ arm.target = target /\ disk = arm.image /\ ~Denied(target, TRUE)

\* An armed update goes through: however often transfers break and the relay
\* restarts, the update is spent in the end, unless it is disarmed.
UpdateCompletes ==
    Armed ~> (phase = "SPENT" \/ ~Armed)
=============================================================================
