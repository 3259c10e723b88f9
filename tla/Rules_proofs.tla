---------------------------- MODULE Rules_proofs ----------------------------
(***************************************************************************)
(* Proofs about the relay's rules that keep a state file: about the        *)
(* firmware update (FirmwareOta), for any units, configurations, images,   *)
(* overlapping transfers and failing reads, and that SPENT is terminal     *)
(* when transfers do not overlap and the state can be read; and about the  *)
(* QMS sink (QmsSink), for any number of threads, hits and instances of    *)
(* the module.                                                             *)
(***************************************************************************)
EXTENDS FirmwareOta, QmsSink, TLAPS

(***************************************************************************)
(* The firmware update.                                                    *)
(***************************************************************************)

\* The rule's lock is held over the step between the two writes of a
\* completion callback, and by nobody else; in between the state file says
\* SPENT, unless it has been removed by hand.
LockInv ==
    /\ \A k \in Streams : stream[k] = "burning" <=> lock = k
    /\ lock # None => phase \in {"SPENT", "OFF"}

OtaInv == TypeOK /\ LockInv

-----------------------------------------------------------------------------
LEMMA InitEstablishes == Init => OtaInv
<1> SUFFICES ASSUME Init PROVE OtaInv
  OBVIOUS
<1>1. TypeOK
  <2>1. 1 \in 1..(MaxArms + 1) /\ 0 \in 0..MaxMisreads
    BY OtaBoundsAssumption
  <2>2. stream \in [Streams -> Stages]
    BY DEF Init, Stages
  <2>3. /\ config \in Configs /\ arm \in Arm \cup {NoArm} /\ disk \in Images
        /\ offer \in Unit \cup {None} /\ fresh \in BOOLEAN
        /\ lock \in Streams \cup {None} /\ spentArms \subseteq ArmIds
    BY DEF Init
  <2>4. phase \in Phases /\ nextArm = 1 /\ misreads = 0
    BY DEF Init, Phases
  <2> QED
    BY <2>1, <2>2, <2>3, <2>4 DEF TypeOK
<1>2. LockInv
  BY NoneAssumption DEF Init, LockInv
<1> QED
  BY <1>1, <1>2 DEF OtaInv

\* What is read of the state file is a state, and one more read may have failed.
LEMMA ReadingType ==
    ASSUME TypeOK, NEW st \in {Stored, Nothing}, Reading(st)
    PROVE  /\ st.phase \in Phases /\ st.offer \in Unit \cup {None} /\ st.fresh \in BOOLEAN
           /\ misreads' \in 0..MaxMisreads
           /\ misreads' \in {misreads, misreads + 1}
           /\ st.phase = phase \/ misreads' = misreads + 1
<1>1. misreads \in 0..MaxMisreads /\ MaxMisreads \in Nat
  BY OtaBoundsAssumption DEF TypeOK
<1>2. /\ misreads' \in 0..MaxMisreads
      /\ misreads' \in {misreads, misreads + 1}
      /\ st = Stored \/ misreads' = misreads + 1
  BY <1>1 DEF Reading
<1>3. \A r \in {Stored, Nothing} :
        r.phase \in Phases /\ r.offer \in Unit \cup {None} /\ r.fresh \in BOOLEAN
  <2>1. /\ Stored.phase \in Phases /\ Stored.offer \in Unit \cup {None}
        /\ Stored.fresh \in BOOLEAN
    <3>1. Stored.phase = phase /\ Stored.offer = offer /\ Stored.fresh = fresh
      BY DEF Stored
    <3> QED
      BY <3>1 DEF TypeOK
  <2>2. /\ Nothing.phase \in Phases /\ Nothing.offer \in Unit \cup {None}
        /\ Nothing.fresh \in BOOLEAN
    BY DEF Nothing, Phases
  <2> QED
    BY <2>1, <2>2
<1>4. Stored.phase = phase
  BY DEF Stored
<1> QED
  BY <1>2, <1>3, <1>4

\* An offer moves no stream; it is made of an update that is not spent, or
\* was not read to be.
LEMMA VersionCheckPreserves ==
    ASSUME OtaInv, NEW u \in Unit, VersionCheck(u)
    PROVE  /\ OtaInv'
           /\ phase' = "OFFERED" /\ UNCHANGED <<stream, spentArms>>
           /\ (phase # "SPENT" /\ misreads' = misreads) \/ misreads' = misreads + 1
<1>1. PICK st \in {Stored, Nothing} : Reading(st) /\ Admitted(u, TRUE, st)
  BY DEF VersionCheck
<1>2. /\ misreads' \in 0..MaxMisreads /\ misreads' \in {misreads, misreads + 1}
      /\ st.phase = phase \/ misreads' = misreads + 1
  BY <1>1, ReadingType DEF OtaInv
<1>3. lock = None /\ st.phase # "SPENT"
  BY <1>1 DEF Admitted
<1>4. /\ phase' = "OFFERED" /\ offer' = u /\ fresh' = TRUE
      /\ UNCHANGED <<config, arm, nextArm, disk, stream, lock, spentArms>>
  BY DEF VersionCheck, operatorVars
<1>5. TypeOK'
  BY <1>2, <1>4 DEF OtaInv, TypeOK, Phases
<1>6. LockInv'
  BY <1>3, <1>4 DEF OtaInv, LockInv
<1> QED
  BY <1>2, <1>3, <1>4, <1>5, <1>6 DEF OtaInv

\* A transfer begins, whoever asks for it, with the lock free and the update open.
LEMMA FirmwareGetPreserves ==
    ASSUME OtaInv, NEW k \in Streams, NEW u \in Unit, NEW withOrigin \in BOOLEAN,
           FirmwareGet(k, u, withOrigin)
    PROVE  OtaInv'
<1>1. /\ lock = None /\ stream[k] = "idle" /\ phase' = "TRANSFERRING"
      /\ stream' = [stream EXCEPT ![k] = "granted"]
      /\ UNCHANGED <<config, arm, nextArm, disk, offer, fresh, lock, spentArms, misreads>>
  BY DEF FirmwareGet, Admitted, operatorVars
<1>2. TypeOK'
  BY <1>1 DEF OtaInv, TypeOK, Phases, Stages
<1>3. LockInv'
  BY <1>1, NoneAssumption DEF OtaInv, TypeOK, LockInv
<1> QED
  BY <1>2, <1>3 DEF OtaInv

\* Opening the file, sending it, and a broken connection.
LEMMA TransferPreserves ==
    ASSUME OtaInv, NEW k \in Streams, OpenImage(k) \/ SendAll(k) \/ Break(k)
    PROVE  OtaInv'
<1>1. /\ UNCHANGED <<config, arm, nextArm, disk, phase, offer, fresh, lock, spentArms, misreads>>
      /\ stream[k] \in {"granted", "sending"}
      /\ \E to \in {"sending", "sent", "broken"} : stream' = [stream EXCEPT ![k] = to]
  BY DEF OpenImage, SendAll, Break, operatorVars, stateFile
<1>2. TypeOK'
  BY <1>1 DEF OtaInv, TypeOK, Stages
<1>3. LockInv'
  BY <1>1 DEF OtaInv, TypeOK, LockInv
<1> QED
  BY <1>2, <1>3 DEF OtaInv

\* What the callback notes is of the types of the state file.
LEMMA NoteType ==
    ASSUME TypeOK, NEW p \in Phases, Note(p)
    PROVE  /\ phase' = p /\ offer' \in Unit \cup {None} /\ fresh' \in BOOLEAN
           /\ misreads' \in 0..MaxMisreads /\ misreads' \in {misreads, misreads + 1}
<1>1. PICK st \in {Stored, Nothing} :
        Reading(st) /\ phase' = p /\ offer' = st.offer /\ fresh' = st.fresh
  BY DEF Note
<1> QED
  BY <1>1, ReadingType

\* The completion callback.
LEMMA FinishPreserves ==
    ASSUME OtaInv, NEW k \in Streams,
           FinishFull(k) \/ FinishPartial(k) \/ FinishUnwritten(k) \/ Burn(k)
    PROVE  OtaInv'
<1>1. CASE FinishFull(k)
  <2>1. /\ stream' = [stream EXCEPT ![k] = "burning"] /\ lock' = k /\ lock = None
        /\ Note("SPENT") /\ UNCHANGED <<config, arm, nextArm, disk, spentArms>>
    BY <1>1 DEF FinishFull, operatorVars
  <2>2. /\ phase' = "SPENT" /\ offer' \in Unit \cup {None} /\ fresh' \in BOOLEAN
        /\ misreads' \in 0..MaxMisreads
    BY <2>1, NoteType DEF OtaInv, Phases
  <2>3. TypeOK'
    BY <2>1, <2>2 DEF OtaInv, TypeOK, Stages, Phases
  <2>4. LockInv'
    BY <2>1, <2>2, NoneAssumption DEF OtaInv, TypeOK, LockInv
  <2> QED
    BY <2>3, <2>4 DEF OtaInv
<1>2. CASE FinishPartial(k)
  <2>1. /\ stream' = [stream EXCEPT ![k] = "idle"] /\ lock = None /\ lock' = lock
        /\ stream[k] = "broken"
        /\ Note("TRANSFERRING") /\ UNCHANGED <<config, arm, nextArm, disk, spentArms>>
    BY <1>2 DEF FinishPartial, operatorVars
  <2>2. /\ phase' = "TRANSFERRING" /\ offer' \in Unit \cup {None} /\ fresh' \in BOOLEAN
        /\ misreads' \in 0..MaxMisreads
    BY <2>1, NoteType DEF OtaInv, Phases
  <2>3. TypeOK'
    BY <2>1, <2>2 DEF OtaInv, TypeOK, Stages, Phases
  <2>4. LockInv'
    BY <2>1, NoneAssumption DEF OtaInv, TypeOK, LockInv
  <2> QED
    BY <2>3, <2>4 DEF OtaInv
<1>3. CASE FinishUnwritten(k)
  <2>1. /\ stream' = [stream EXCEPT ![k] = "idle"] /\ lock = None /\ stream[k] # "burning"
        /\ UNCHANGED <<config, arm, nextArm, disk, phase, offer, fresh, lock, spentArms,
                       misreads>>
    BY <1>3 DEF FinishUnwritten, operatorVars, stateFile
  <2>2. TypeOK'
    BY <2>1 DEF OtaInv, TypeOK, Stages
  <2>3. LockInv'
    BY <2>1 DEF OtaInv, TypeOK, LockInv
  <2> QED
    BY <2>2, <2>3 DEF OtaInv
<1>4. CASE Burn(k)
  <2>1. /\ stream' = [stream EXCEPT ![k] = "idle"]
        /\ stream[k] = "burning" /\ lock = k /\ lock' = None
        /\ UNCHANGED <<config, nextArm, disk, phase, offer, fresh, misreads>>
    BY <1>4 DEF Burn, OtaInv, LockInv, stateFile
  <2>2. /\ arm' \in Arm \cup {NoArm}
        /\ spentArms' \subseteq ArmIds
    BY <1>4 DEF Burn, OtaInv, TypeOK, Arm
  <2>3. TypeOK'
    BY <2>1, <2>2 DEF OtaInv, TypeOK, Stages
  <2>4. LockInv'
    BY <2>1, NoneAssumption DEF OtaInv, TypeOK, LockInv
  <2> QED
    BY <2>3, <2>4 DEF OtaInv
<1> QED
  BY <1>1, <1>2, <1>3, <1>4

\* The operator, the clock and the machine.
LEMMA OperatorPreserves ==
    ASSUME OtaInv, OperatorStep
    PROVE  OtaInv'
<1> USE DEF OtaInv, operatorVars, stateFile
<1>1. ASSUME NEW i \in Images, NEW t \in Targets, WriteArm(i, t) PROVE OtaInv'
  <2>1. t \in Unit
    BY ConfigsAssumption DEF Targets, Config
  <2>2. arm' \in Arm /\ nextArm' \in 1..(MaxArms + 1)
    BY <1>1, <2>1, OtaBoundsAssumption DEF WriteArm, TypeOK, Arm, ArmIds
  <2>3. UNCHANGED <<config, disk, phase, offer, fresh, stream, lock, spentArms, misreads>>
    BY <1>1 DEF WriteArm
  <2> QED
    BY <2>2, <2>3 DEF TypeOK, LockInv
<1>2. CASE ArmExpires
  <2>1. arm' \in Arm
    <3>1. arm \in Arm
      BY <1>2 DEF ArmExpires, TypeOK, NoArm
    <3>2. [arm EXCEPT !.live = FALSE] \in Arm
      BY <3>1 DEF Arm
    <3> QED
      BY <1>2, <3>2 DEF ArmExpires
  <2>2. UNCHANGED <<config, nextArm, disk, phase, offer, fresh, stream, lock, spentArms, misreads>>
    BY <1>2 DEF ArmExpires
  <2> QED
    BY <2>1, <2>2 DEF TypeOK, LockInv
<1>3. ASSUME NEW i \in Images, ReplaceImage(i) PROVE OtaInv'
  BY <1>3 DEF ReplaceImage, TypeOK, LockInv
<1>4. CASE OfferAges
  BY <1>4 DEF OfferAges, TypeOK, LockInv
<1>5. CASE RemoveState
  BY <1>5 DEF RemoveState, TypeOK, Phases, LockInv
<1>6. ASSUME NEW c \in Configs, Restart(c) PROVE OtaInv'
  <2>1. /\ config' = c /\ stream' = [k \in Streams |-> "idle"] /\ lock' = None
        /\ UNCHANGED <<arm, nextArm, disk, phase, offer, fresh, spentArms, misreads>>
    BY <1>6 DEF Restart
  <2>2. TypeOK'
    BY <2>1 DEF TypeOK, Stages
  <2>3. LockInv'
    BY <2>1, NoneAssumption DEF LockInv
  <2> QED
    BY <2>2, <2>3
<1> QED
  BY <1>1, <1>2, <1>3, <1>4, <1>5, <1>6 DEF OperatorStep

LEMMA NextPreserves ==
    ASSUME OtaInv, [Next]_vars
    PROVE  OtaInv'
<1>1. CASE \E u \in Unit : VersionCheck(u)
  BY <1>1, VersionCheckPreserves
<1>2. ASSUME NEW k \in Streams, StreamStep(k) PROVE OtaInv'
  <2>1. CASE \E u \in Unit, withOrigin \in BOOLEAN : FirmwareGet(k, u, withOrigin)
    BY <2>1, FirmwareGetPreserves
  <2>2. CASE OpenImage(k) \/ SendAll(k) \/ Break(k)
    BY <2>2, TransferPreserves
  <2>3. CASE FinishFull(k) \/ FinishPartial(k) \/ FinishUnwritten(k) \/ Burn(k)
    BY <2>3, FinishPreserves
  <2> QED
    BY <1>2, <2>1, <2>2, <2>3 DEF StreamStep
<1>3. CASE OperatorStep
  BY <1>3, OperatorPreserves
<1>4. CASE UNCHANGED vars
  BY <1>4 DEF vars, operatorVars, stateFile, OtaInv, TypeOK, LockInv
<1> QED
  BY <1>1, <1>2, <1>3, <1>4 DEF Next

\* OtaInv holds throughout.
THEOREM OtaInvariant == Spec => []OtaInv
<1>1. Init => OtaInv
  BY InitEstablishes
<1>2. OtaInv /\ [Next]_vars => OtaInv'
  BY NextPreserves
<1> QED
  BY <1>1, <1>2, PTL DEF Spec

-----------------------------------------------------------------------------
\* The variables of the rule stay within their types.
THEOREM TypeCorrect == Spec => []TypeOK
<1>1. OtaInv => TypeOK
  BY DEF OtaInv
<1> QED
  BY OtaInvariant, <1>1, PTL

\* The ARM file is renamed only after the state file says SPENT, so that a
\* crash between the two writes of _on_stream_done does not rearm the update.
THEOREM SpentBeforeBurned == Spec => BurnedAfterSpent
<1>1. OtaInv /\ [Next]_vars => [spentArms' # spentArms => phase \in {"SPENT", "OFF"}]_vars
  <2> SUFFICES ASSUME OtaInv, [Next]_vars, spentArms' # spentArms
               PROVE  phase \in {"SPENT", "OFF"}
    OBVIOUS
  <2>1. PICK k \in Streams : Burn(k)
    BY DEF Next, StreamStep, OperatorStep, VersionCheck, FirmwareGet, OpenImage, SendAll,
           Break, FinishFull, FinishPartial, FinishUnwritten, WriteArm, ArmExpires,
           ReplaceImage, OfferAges, RemoveState, Restart, vars
  <2>2. lock = k
    BY <2>1 DEF OtaInv, LockInv, Burn
  <2> QED
    BY <2>2, NoneAssumption DEF OtaInv, LockInv
<1> QED
  BY OtaInvariant, <1>1, PTL DEF Spec, BurnedAfterSpent

-----------------------------------------------------------------------------
\* With one stream at a time, and a state file that can be read, SPENT is
\* terminal: the theorem says what the rule relies on (docs/firmware-ota.md,
\* the state machine) and does not enforce.
OneStream == \A k, l \in Streams : k = l

Quiet == \A k \in Streams : stream[k] \in {"idle", "burning"}
NothingServedOnceSpent == phase = "SPENT" => Quiet

SingleInv == OtaInv /\ NothingServedOnceSpent

LEMMA SpentStays ==
    ASSUME OneStream, SingleInv, [Next]_vars
    PROVE  /\ NothingServedOnceSpent'
           /\ phase = "SPENT" => phase' \in {"SPENT", "OFF"} \/ misreads' # misreads
<1> USE DEF SingleInv, NothingServedOnceSpent, Quiet
<1>1. CASE \E u \in Unit : VersionCheck(u)
  <2>1. /\ phase' = "OFFERED"
        /\ (phase # "SPENT" /\ misreads' = misreads) \/ misreads' = misreads + 1
    BY <1>1, VersionCheckPreserves
  <2>2. misreads \in Nat
    BY OtaBoundsAssumption DEF OtaInv, TypeOK
  <2> QED
    BY <2>1, <2>2
<1>2. ASSUME NEW k \in Streams, StreamStep(k)
      PROVE  /\ NothingServedOnceSpent'
             /\ phase = "SPENT" => phase' \in {"SPENT", "OFF"}
  <2>1. stream \in [Streams -> Stages] /\ \A l \in Streams : l = k
    BY DEF OtaInv, TypeOK, OneStream
  <2>2. CASE \E u \in Unit, withOrigin \in BOOLEAN : FirmwareGet(k, u, withOrigin)
    BY <2>2 DEF FirmwareGet
  <2>3. CASE OpenImage(k) \/ SendAll(k) \/ Break(k)
    BY <2>1, <2>3 DEF OpenImage, SendAll, Break, stateFile
  <2>4. CASE FinishFull(k) \/ FinishPartial(k) \/ FinishUnwritten(k) \/ Burn(k)
    <3>1. CASE FinishFull(k)
      <4>1. phase' = "SPENT" /\ stream'[k] = "burning"
        BY <2>1, <3>1 DEF FinishFull, Note
      <4> QED
        BY <2>1, <4>1
    <3>2. CASE FinishPartial(k)
      <4>1. phase' = "TRANSFERRING" /\ stream[k] = "broken"
        BY <3>2 DEF FinishPartial, Note
      <4> QED
        BY <4>1
    <3>3. CASE FinishUnwritten(k) \/ Burn(k)
      BY <2>1, <3>3 DEF FinishUnwritten, Burn, stateFile
    <3> QED
      BY <2>4, <3>1, <3>2, <3>3
  <2> QED
    BY <1>2, <2>2, <2>3, <2>4 DEF StreamStep
<1>3. CASE OperatorStep
  BY <1>3 DEF OperatorStep, WriteArm, ArmExpires, ReplaceImage, OfferAges, RemoveState, Restart,
              stateFile
<1>4. CASE UNCHANGED vars
  BY <1>4 DEF vars, stateFile
<1> QED
  BY <1>1, <1>2, <1>3, <1>4 DEF Next

\* Without overlapping transfers, nothing is served once the update is spent
\* (_on_stream_done, _handle_firmware_get).
THEOREM OneStreamServesNothingOnceSpent ==
    OneStream => (Spec => []NothingServedOnceSpent)
<1> SUFFICES ASSUME OneStream PROVE Spec => []NothingServedOnceSpent
  OBVIOUS
<1>1. Init => SingleInv
  BY InitEstablishes DEF Init, SingleInv, NothingServedOnceSpent, Quiet
<1>2. SingleInv /\ [Next]_vars => SingleInv'
  BY SpentStays, NextPreserves DEF SingleInv
<1>3. SingleInv => NothingServedOnceSpent
  BY DEF SingleInv
<1> QED
  BY <1>1, <1>2, <1>3, PTL DEF Spec

\* Without overlapping transfers, and while the state file can be read, SPENT
\* is left only by hand.
THEOREM OneStreamSpentIsTerminal ==
    ASSUME OneStream, MaxMisreads = 0
    PROVE  Spec => SpentIsTerminal
<1>1. OtaInv /\ NothingServedOnceSpent /\ [Next]_vars
        => [phase = "SPENT" => phase' \in {"SPENT", "OFF"}]_vars
  <2> SUFFICES ASSUME OtaInv, NothingServedOnceSpent, Next, phase = "SPENT"
               PROVE  phase' \in {"SPENT", "OFF"}
    OBVIOUS
  <2>1. misreads = 0 /\ misreads' = 0
    BY NextPreserves DEF OtaInv, TypeOK
  <2> QED
    BY <2>1, SpentStays DEF SingleInv
<1> QED
  BY <1>1, OtaInvariant, OneStreamServesNothingOnceSpent, PTL DEF Spec, SpentIsTerminal

-----------------------------------------------------------------------------
(***************************************************************************)
(* The rule is a one-shot.  Every action is a step of OneShot, or none, in *)
(* a state with OtaInv, under the mapping of FirmwareOta's Update.         *)
(***************************************************************************)
Transfer == [k \in Streams |-> ProgressOf(stream[k])]

\* What the mapping makes of each stage.
LEMMA StagesMap ==
    /\ StateOf("OFF") = "unused" /\ StateOf("SPENT") = "spent"
    /\ StateOf("OFFERED") = "open" /\ StateOf("TRANSFERRING") = "open"
    /\ ProgressOf("idle") = "none" /\ ProgressOf("granted") = "running"
    /\ ProgressOf("sending") = "running" /\ ProgressOf("broken") = "running"
    /\ ProgressOf("sent") = "whole" /\ ProgressOf("burning") = "spending"
BY DEF StateOf, ProgressOf

\* An update that is not spent stands open or unused, and conversely.
LEMMA StatesOf ==
    ASSUME TypeOK
    PROVE  /\ phase # "SPENT" => StateOf(phase) # "spent"
           /\ phase \in {"SPENT", "OFF"} => StateOf(phase) # "open"
           /\ phase \in {"OFFERED", "TRANSFERRING"} => StateOf(phase) = "open"
BY StagesMap DEF TypeOK, Phases

\* When one stream changes its stage, one transfer does.
LEMMA TransferMoves ==
    ASSUME stream \in [Streams -> Stages], NEW k \in Streams, NEW to \in Stages,
           stream' = [stream EXCEPT ![k] = to]
    PROVE  /\ Transfer' = [Transfer EXCEPT ![k] = ProgressOf(to)]
           /\ Transfer[k] = ProgressOf(stream[k])
<1>1. stream' \in [Streams -> Stages] /\ stream'[k] = to
      /\ \A l \in Streams \ {k} : stream'[l] = stream[l]
  OBVIOUS
<1> QED
  BY <1>1 DEF Transfer

LEMMA InitIsOneShotInit == Init => Update!Init
<1> SUFFICES ASSUME Init PROVE Update!Init
  OBVIOUS
<1>1. [k \in Streams |-> ProgressOf(stream[k])] = [k \in Streams |-> "none"]
  BY StagesMap DEF Init
<1>2. StateOf(phase) = "unused" /\ spentArms = {} /\ misreads = 0
  BY StagesMap DEF Init
<1> QED
  BY <1>1, <1>2 DEF Update!Init

\* A version check makes the offer, or renews it.
LEMMA VersionCheckIsOffer ==
    ASSUME OtaInv, NEW u \in Unit, VersionCheck(u)
    PROVE  Update!Offer
<1>1. /\ phase' = "OFFERED" /\ UNCHANGED <<stream, spentArms>>
      /\ (phase # "SPENT" /\ misreads' = misreads) \/ misreads' = misreads + 1
  BY VersionCheckPreserves
<1>2. (StateOf(phase) # "spent" /\ misreads' = misreads) \/ misreads' = misreads + 1
  BY <1>1, StatesOf DEF OtaInv
<1>3. StateOf(phase') = "open"
  BY <1>1, StagesMap
<1>4. Transfer' = Transfer
  BY <1>1 DEF Transfer
<1> QED
  BY <1>1, <1>2, <1>3, <1>4 DEF Update!Offer, Update!Read, Update!Misread, Transfer

\* A granted GET begins a transfer, of an update that is open.
LEMMA FirmwareGetIsBegin ==
    ASSUME OtaInv, NEW k \in Streams, NEW u \in Unit, NEW withOrigin \in BOOLEAN,
           FirmwareGet(k, u, withOrigin)
    PROVE  Update!Begin(k)
<1>1. /\ stream[k] = "idle" /\ phase \in {"OFFERED", "TRANSFERRING"}
      /\ phase' = "TRANSFERRING"
      /\ stream' = [stream EXCEPT ![k] = "granted"]
      /\ spentArms' = spentArms /\ misreads' = misreads
  BY DEF FirmwareGet
<1>2. Transfer' = [Transfer EXCEPT ![k] = "running"] /\ Transfer[k] = "none"
  <2>1. stream \in [Streams -> Stages] /\ "granted" \in Stages
    BY DEF OtaInv, TypeOK, Stages
  <2> QED
    BY <1>1, <2>1, TransferMoves, StagesMap
<1>3. StateOf(phase) = "open" /\ StateOf(phase') = "open"
  BY <1>1, StagesMap
<1> QED
  BY <1>1, <1>2, <1>3 DEF Update!Begin, Transfer

\* Opening the file and a broken connection are steps within a transfer; that
\* everything is sent is its delivery.
LEMMA TransferIsDelivery ==
    ASSUME OtaInv, NEW k \in Streams, OpenImage(k) \/ SendAll(k) \/ Break(k)
    PROVE  Update!Deliver(k) \/ UNCHANGED Update!vars
<1>1. /\ UNCHANGED <<phase, spentArms, misreads>>
      /\ \E to \in {"sending", "sent", "broken"} :
           /\ stream' = [stream EXCEPT ![k] = to]
           /\ to = "sent" => stream[k] = "sending"
           /\ stream[k] \in {"granted", "sending"}
  BY DEF OpenImage, SendAll, Break, stateFile
<1>2. PICK to \in {"sending", "sent", "broken"} :
        /\ stream' = [stream EXCEPT ![k] = to]
        /\ to = "sent" => stream[k] = "sending"
        /\ stream[k] \in {"granted", "sending"}
  BY <1>1
<1>3. /\ Transfer' = [Transfer EXCEPT ![k] = ProgressOf(to)]
      /\ Transfer[k] = "running"
  <2>1. stream \in [Streams -> Stages] /\ to \in Stages
    BY DEF OtaInv, TypeOK, Stages
  <2> QED
    BY <1>2, <2>1, TransferMoves, StagesMap
<1>4. CASE to = "sent"
  BY <1>1, <1>3, <1>4, StagesMap DEF Update!Deliver, Transfer
<1>5. CASE to # "sent"
  <2>1. ProgressOf(to) = "running"
    BY <1>5, StagesMap
  <2>2. Transfer' = Transfer
    BY <1>3, <2>1 DEF Transfer
  <2> QED
    BY <1>1, <2>2 DEF Update!vars, Transfer
<1> QED
  BY <1>4, <1>5

\* The completion callback: a whole transfer spends the update and then uses
\* up the authorisation, one that broke off opens it again, and one whose
\* outcome cannot be written leaves it as it is.
LEMMA FinishIsOutcome ==
    ASSUME OtaInv, NEW k \in Streams,
           FinishFull(k) \/ FinishPartial(k) \/ FinishUnwritten(k) \/ Burn(k)
    PROVE  Update!Spend(k) \/ Update!UseUp(k) \/ Update!BreakOff(k) \/ Update!Unnoted(k)
<1>1. stream \in [Streams -> Stages] /\ {"idle", "burning"} \subseteq Stages
  BY DEF OtaInv, TypeOK, Stages
<1>2. CASE FinishFull(k)
  <2>1. /\ stream[k] = "sent" /\ stream' = [stream EXCEPT ![k] = "burning"]
        /\ Note("SPENT") /\ spentArms' = spentArms
    BY <1>2 DEF FinishFull
  <2>2. phase' = "SPENT" /\ misreads' \in {misreads, misreads + 1}
    BY <2>1, NoteType DEF OtaInv, Phases
  <2>3. /\ Transfer[k] = "whole" /\ Transfer' = [Transfer EXCEPT ![k] = "spending"]
        /\ StateOf(phase') = "spent"
    BY <1>1, <2>1, <2>2, TransferMoves, StagesMap
  <2>4. Update!Spend(k)
    BY <2>1, <2>2, <2>3 DEF Update!Spend, Update!Read, Update!Misread, Transfer
  <2> QED
    BY <2>4
<1>3. CASE Burn(k)
  <2>1. /\ stream[k] = "burning" /\ stream' = [stream EXCEPT ![k] = "idle"]
        /\ phase' = phase /\ misreads' = misreads
        /\ (arm # NoArm /\ spentArms' = spentArms \cup {arm.id}) \/ spentArms' = spentArms
    BY <1>3 DEF Burn, stateFile
  <2>2. phase \in {"SPENT", "OFF"}
    BY <2>1, NoneAssumption DEF OtaInv, LockInv
  <2>3. arm # NoArm => arm.id \in ArmIds
    BY DEF OtaInv, TypeOK, Arm
  <2>4. StateOf(phase) # "open" /\ StateOf(phase') = StateOf(phase)
    BY <2>1, <2>2, StatesOf DEF OtaInv
  <2>5. (\E a \in ArmIds : spentArms' = spentArms \cup {a}) \/ spentArms' = spentArms
    BY <2>1, <2>3
  <2>6. Transfer[k] = "spending" /\ Transfer' = [Transfer EXCEPT ![k] = "none"]
    BY <1>1, <2>1, TransferMoves, StagesMap
  <2>7. Update!UseUp(k)
    BY <2>1, <2>4, <2>5, <2>6 DEF Update!UseUp, Transfer
  <2> QED
    BY <2>7
<1>4. CASE FinishPartial(k)
  <2>1. /\ stream[k] = "broken" /\ stream' = [stream EXCEPT ![k] = "idle"]
        /\ Note("TRANSFERRING") /\ spentArms' = spentArms
    BY <1>4 DEF FinishPartial
  <2>2. phase' = "TRANSFERRING" /\ misreads' \in {misreads, misreads + 1}
    BY <2>1, NoteType DEF OtaInv, Phases
  <2>3. /\ Transfer[k] = "running" /\ Transfer' = [Transfer EXCEPT ![k] = "none"]
        /\ StateOf(phase') = "open"
    BY <1>1, <2>1, <2>2, TransferMoves, StagesMap
  <2>4. Update!BreakOff(k)
    BY <2>1, <2>2, <2>3 DEF Update!BreakOff, Update!Read, Update!Misread, Transfer
  <2> QED
    BY <2>4
<1>5. CASE FinishUnwritten(k)
  <2>1. /\ stream[k] \in {"sent", "broken"} /\ stream' = [stream EXCEPT ![k] = "idle"]
        /\ UNCHANGED <<phase, spentArms, misreads>>
    BY <1>5 DEF FinishUnwritten, stateFile
  <2>2. /\ Transfer[k] \in {"whole", "running"}
        /\ Transfer' = [Transfer EXCEPT ![k] = "none"]
        /\ StateOf(phase') = StateOf(phase)
    BY <1>1, <2>1, TransferMoves, StagesMap
  <2>3. CASE Transfer[k] = "whole"
    <3>1. Update!Unnoted(k)
      BY <2>1, <2>2, <2>3 DEF Update!Unnoted, Transfer
    <3> QED
      BY <3>1
  <2>4. CASE Transfer[k] = "running"
    <3>1. Update!BreakOff(k)
      BY <2>1, <2>2, <2>4 DEF Update!BreakOff, Update!Read, Update!Misread, Transfer
    <3> QED
      BY <3>1
  <2> QED
    BY <2>2, <2>3, <2>4
<1> QED
  BY <1>2, <1>3, <1>4, <1>5

\* Removing the state file forgets the update, a restart stops its transfers;
\* the ARM file, the image and the age of the offer are details.
LEMMA OperatorIsForgetOrStop ==
    ASSUME OtaInv, OperatorStep
    PROVE  Update!Forget \/ Update!Stop \/ UNCHANGED Update!vars
<1>1. CASE RemoveState
  <2>1. phase' = "OFF" /\ UNCHANGED <<stream, spentArms, misreads>>
    BY <1>1 DEF RemoveState
  <2>2. StateOf(phase') = "unused" /\ Transfer' = Transfer
    BY <2>1, StagesMap DEF Transfer
  <2> QED
    BY <2>1, <2>2 DEF Update!Forget, Transfer
<1>2. ASSUME NEW c \in Configs, Restart(c) PROVE Update!Stop
  <2>1. /\ stream' = [k \in Streams |-> "idle"]
        /\ UNCHANGED <<phase, spentArms, misreads>>
    BY <1>2 DEF Restart, stateFile
  <2>2. Transfer' = [k \in Streams |-> "none"] /\ StateOf(phase') = StateOf(phase)
    BY <2>1, StagesMap DEF Transfer
  <2> QED
    BY <2>1, <2>2 DEF Update!Stop, Transfer
<1>3. ASSUME \/ \E i \in Images, t \in Targets : WriteArm(i, t)
             \/ ArmExpires
             \/ \E i \in Images : ReplaceImage(i)
             \/ OfferAges
      PROVE  UNCHANGED Update!vars
  <2>1. UNCHANGED <<phase, stream, spentArms, misreads>>
    BY <1>3 DEF WriteArm, ArmExpires, ReplaceImage, OfferAges, stateFile
  <2>2. Transfer' = Transfer /\ StateOf(phase') = StateOf(phase)
    BY <2>1 DEF Transfer
  <2> QED
    BY <2>1, <2>2 DEF Update!vars, Transfer
<1> QED
  BY <1>1, <1>2, <1>3 DEF OperatorStep

LEMMA StepIsOneShotStep ==
    ASSUME OtaInv, [Next]_vars
    PROVE  [Update!Next]_(Update!vars)
<1>1. ASSUME NEW u \in Unit, VersionCheck(u) PROVE Update!Next
  BY <1>1, VersionCheckIsOffer DEF Update!Next
<1>2. ASSUME NEW k \in Streams, StreamStep(k) PROVE Update!Next \/ UNCHANGED Update!vars
  <2>1. CASE \E u \in Unit, withOrigin \in BOOLEAN : FirmwareGet(k, u, withOrigin)
    BY <2>1, FirmwareGetIsBegin DEF Update!Next
  <2>2. CASE OpenImage(k) \/ SendAll(k) \/ Break(k)
    BY <2>2, TransferIsDelivery DEF Update!Next
  <2>3. CASE FinishFull(k) \/ FinishPartial(k) \/ FinishUnwritten(k) \/ Burn(k)
    BY <2>3, FinishIsOutcome DEF Update!Next
  <2> QED
    BY <1>2, <2>1, <2>2, <2>3 DEF StreamStep
<1>3. CASE OperatorStep
  BY <1>3, OperatorIsForgetOrStop DEF Update!Next
<1>4. CASE UNCHANGED vars
  <2>1. UNCHANGED <<phase, stream, spentArms, misreads>>
    BY <1>4 DEF vars, stateFile
  <2>2. Transfer' = Transfer /\ StateOf(phase') = StateOf(phase)
    BY <2>1 DEF Transfer
  <2> QED
    BY <2>1, <2>2 DEF Update!vars, Transfer
<1> QED
  BY <1>1, <1>2, <1>3, <1>4 DEF Next

\* The rule implements the one-shot (_handle_version_check,
\* _handle_firmware_get, _on_stream_done): whatever transfers overlap, whatever
\* reads fail and wherever the relay stops, the update is spent, and an ARM
\* file burned after that, by a transfer that sent the whole image, and by
\* nothing else.
THEOREM RuleIsAOneShot == Spec => IsOneShot
<1>1. Init => Update!Init
  BY InitIsOneShotInit
<1>2. OtaInv /\ [Next]_vars => [Update!Next]_(Update!vars)
  BY StepIsOneShotStep
<1> QED
  BY <1>1, <1>2, OtaInvariant, PTL DEF Spec, IsOneShot, Update!Spec


-----------------------------------------------------------------------------
(***************************************************************************)
(* The QMS sink.                                                           *)
(***************************************************************************)

(***************************************************************************)
(* The inductive invariant.  What a thread writes was computed from the    *)
(* state file before it opened the temporary one: it is still right when   *)
(* it is renamed only because no other thread came in between, and the     *)
(* temporary file holds this thread's bytes for the same reason.           *)
(***************************************************************************)

\* A call has a hit of its own number.
Numbered == \A t \in Threads : hook[t].pc # "idle" => hook[t].hit \in Hits

\* What a call in the critical section is about to write, and what is in the
\* temporary file, was appended to the log before, or failed to be.
Appended ==
    /\ \A t \in Threads : Critical(t) => hook[t].hit \in hook[t].st
                                     /\ hook[t].st \subseteq log \cup unlogged
    /\ tmp \notin {Garbled, Empty, NoFile} => tmp \subseteq log \cup unlogged

\* Until instances overlap, one thread at most is in the critical section.
Alone ==
    ~overlap => \A t, u \in Threads : Critical(t) /\ Critical(u) => t = u

\* What that thread has in memory, and in the temporary file, is up to date,
\* but for what a failed read has forgotten.
UpToDate ==
    ~overlap =>
        \A t \in Threads :
            /\ fd[t] \in {"tmp", NoFile}
            /\ Critical(t) => Counted \subseteq hook[t].st \cup forgotten
            /\ hook[t].pc = "opened" => tmp = Empty
            /\ hook[t].pc = "written" => tmp = hook[t].st

SinkInv ==
    /\ SinkTypeOK
    /\ Numbered
    /\ Appended
    /\ Alone
    /\ UpToDate
    /\ FileStaysReadable
    /\ AnsweredIsRecorded

-----------------------------------------------------------------------------
\* What is read from the state file are hits.
LEMMA CountedType == SinkTypeOK => Counted \subseteq Hits
  BY DEF SinkTypeOK, Counted, Contents

\* The invariant holds at first.
LEMMA SinkInitInv == SinkInit => SinkInv
<1> SUFFICES ASSUME SinkInit PROVE SinkInv
  OBVIOUS
<1>1. \A t \in Threads : ~Critical(t)
  BY DEF SinkInit, Critical, Idle
<1>2. SinkTypeOK
  <2>1. hook \in [Threads -> [pc : {"idle", "waiting", "logged", "opened", "written"},
                              module : 1..MaxLoads, hit : 0..MaxHits, st : SUBSET Hits]]
    BY BoundsAssumption DEF SinkInit, Idle
  <2>2. file \in Contents /\ tmp \in Contents \cup {NoFile}
    BY DEF SinkInit, Contents
  <2>3. \A t \in Threads : fd[t] = NoFile /\ hook[t].pc = "idle"
    BY DEF SinkInit, Idle
  <2>4. {log, answered, unlogged, unwritten, forgotten} \subseteq SUBSET Hits
    BY DEF SinkInit
  <2>5. loaded \in 1..MaxLoads /\ hits \in 0..MaxHits
    BY BoundsAssumption DEF SinkInit
  <2>6. {torn, overlap} \subseteq BOOLEAN
    BY DEF SinkInit
  <2>7. fd \in [Threads -> {"tmp", "file", "gone", NoFile}]
    BY DEF SinkInit
  <2>8. \A t \in Threads : fd[t] # NoFile <=> hook[t].pc = "opened"
    BY <2>3
  <2>9. QED
    BY <1>1, <2>1, <2>2, <2>4, <2>5, <2>6, <2>7, <2>8 DEF SinkTypeOK
<1>3. Numbered /\ Appended /\ Alone /\ UpToDate
  BY <1>1 DEF SinkInit, Numbered, Appended, Alone, UpToDate, Idle
<1>4. file = {} /\ Counted = {} /\ file \notin {Garbled, Empty}
  BY ValuesAssumption DEF SinkInit, Counted
<1>5. FileStaysReadable /\ AnsweredIsRecorded
  BY <1>4 DEF SinkInit, FileStaysReadable, AnsweredIsRecorded
<1>6. QED
  BY <1>2, <1>3, <1>5 DEF SinkInv

-----------------------------------------------------------------------------
\* A call that begins is in no critical section.
LEMMA RequestKeeps ==
  ASSUME SinkInv, NEW t \in Threads, Request(t)
  PROVE  SinkInv'
<1>1. \A u \in Threads \ {t} : hook'[u] = hook[u]
  BY DEF SinkInv, SinkTypeOK, Request
<1>2. /\ hook'[t] = [pc |-> "waiting", module |-> loaded, hit |-> hits + 1, st |-> {}]
      /\ hits' = hits + 1 /\ hits + 1 \in Hits
  BY BoundsAssumption DEF SinkInv, SinkTypeOK, Request, Hits
<1>3. ~Critical(t) /\ ~Critical(t)' /\ \A u \in Threads \ {t} : Critical(u)' <=> Critical(u)
  BY <1>1, <1>2 DEF Critical, Request
<1>4. /\ UNCHANGED <<loaded, fd, log, torn, file, tmp>>
      /\ UNCHANGED <<answered, unlogged, unwritten, forgotten, overlap>>
  BY DEF Request, fileVars, pastVars
<1>5. SinkTypeOK'
  BY <1>1, <1>2, <1>3, <1>4 DEF SinkInv, SinkTypeOK, Request, Hits
<1>6. Numbered' /\ Appended' /\ Alone' /\ UpToDate'
  BY <1>1, <1>2, <1>3, <1>4
     DEF SinkInv, Numbered, Appended, Alone, UpToDate, Counted
<1>7. FileStaysReadable' /\ AnsweredIsRecorded'
  BY <1>4 DEF SinkInv, FileStaysReadable, AnsweredIsRecorded, Counted
<1>8. QED
  BY <1>5, <1>6, <1>7 DEF SinkInv

\* A thread that gets the lock finds the state file as it will leave it,
\* plus its hit, unless another instance is at work or the read fails.
LEMMA RecordKeeps ==
  ASSUME SinkInv, NEW t \in Threads, Record(t)
  PROVE  SinkInv'
<1> DEFINE h == hook[t].hit
<1>0. PICK st \in ReadState :
        /\ hook' = [hook EXCEPT ![t].pc = "logged", ![t].st = st \cup {h}]
        /\ forgotten' = forgotten \cup (Counted \ st)
  BY DEF Record, Enter
<1>1. \A u \in Threads \ {t} : hook'[u] = hook[u]
  BY <1>0 DEF SinkInv, SinkTypeOK
<1>2. /\ hook[t].pc = "waiting" /\ h \in Hits
      /\ hook'[t] = [hook[t] EXCEPT !.pc = "logged", !.st = st \cup {h}]
  BY <1>0 DEF SinkInv, SinkTypeOK, Record, Enter, Numbered
<1>3. /\ hook'[t].pc = "logged" /\ hook'[t].hit = h
      /\ hook'[t].module = hook[t].module /\ hook'[t].st = st \cup {h}
  BY <1>2 DEF SinkInv, SinkTypeOK
<1>4. /\ ~Critical(t) /\ Critical(t)'
      /\ \A u \in Threads \ {t} : Critical(u)' <=> Critical(u)
  BY <1>1, <1>2, <1>3 DEF Critical
<1>5. /\ UNCHANGED <<loaded, hits, fd, file, tmp, answered, unwritten>>
      /\ log \cup unlogged \cup {h} = log' \cup unlogged'
  <2>1. UNCHANGED <<loaded, hits, fd, file, tmp, answered, unwritten>> /\ AppendLog(h)
    BY DEF Record, Enter
  <2>2. QED
    BY <2>1 DEF AppendLog
<1>6. log' \subseteq Hits /\ unlogged' \subseteq Hits /\ torn' \in BOOLEAN
  <2>1. AppendLog(h)
    BY DEF Record, Enter
  <2>2. QED
    BY <1>2, <2>1 DEF SinkInv, SinkTypeOK, AppendLog
<1>7. \A u \in Threads : Critical(u) => hook[u].module # hook[t].module
  BY DEF Record
<1>8. overlap' = (overlap \/ \E u \in Threads : Critical(u))
  <2>1. overlap' = (overlap \/ \E u \in Threads : Critical(u) /\ hook[u].module # hook[t].module)
    BY DEF Record, Enter
  <2>2. QED
    BY <1>7, <2>1
<1>9. st \subseteq Counted /\ Counted \subseteq Hits /\ Counted' = Counted
  BY <1>0, <1>5, CountedType DEF SinkInv, ReadState, Counted
<1>10. SinkTypeOK'
  <2> DEFINE Call == [pc : {"idle", "waiting", "logged", "opened", "written"},
                      module : 1..MaxLoads, hit : 0..MaxHits, st : SUBSET Hits]
  <2>1. hook' \in [Threads -> Call]
    <3>1. hook \in [Threads -> Call] /\ st \cup {h} \in SUBSET Hits
      BY <1>2, <1>9 DEF SinkInv, SinkTypeOK
    <3>2. hook'[t] \in Call
      BY <1>2, <3>1
    <3>3. hook' = [u \in Threads |-> hook'[u]]
      BY <1>0, <3>1
    <3>4. \A u \in Threads \ {t} : hook'[u] \in Call
      BY <1>1, <3>1
    <3> HIDE DEF Call
    <3>5. \A u \in Threads : hook'[u] \in Call
      BY <3>2, <3>4
    <3>6. QED
      BY <3>3, <3>5
  <2>2. \A u \in Threads : fd'[u] # NoFile <=> hook'[u].pc = "opened"
    <3>1. \A u \in Threads : fd[u] # NoFile <=> hook[u].pc = "opened"
      BY DEF SinkInv, SinkTypeOK
    <3>2. fd' = fd
      BY <1>5
    <3>3. \A u \in Threads : hook'[u].pc = "opened" <=> hook[u].pc = "opened"
      BY <1>1, <1>2, <1>3
    <3>4. QED
      BY <3>1, <3>2, <3>3
  <2>3. \A u, v \in Threads :
          u # v /\ Critical(u)' /\ Critical(v)' => hook'[u].module # hook'[v].module
    BY <1>1, <1>3, <1>4, <1>7 DEF SinkInv, SinkTypeOK
  <2>4. overlap' \in BOOLEAN /\ forgotten' \subseteq Hits
    BY <1>0, <1>8, <1>9 DEF SinkInv, SinkTypeOK
  <2>5. QED
    BY <2>1, <2>2, <2>3, <2>4, <1>5, <1>6 DEF SinkInv, SinkTypeOK
<1>11. Numbered'
  BY <1>1, <1>2, <1>3 DEF SinkInv, Numbered
<1>12. Appended'
  <2>1. Counted \subseteq log \cup unlogged
    BY DEF SinkInv, AnsweredIsRecorded
  <2>2. QED
    BY <2>1, <1>1, <1>3, <1>4, <1>5, <1>9 DEF SinkInv, Appended
<1>13. ~overlap' => ~overlap /\ \A u \in Threads : ~Critical(u)
  BY <1>8
<1>14. Alone'
  BY <1>4, <1>13 DEF Alone
<1>15. UpToDate'
  BY <1>0, <1>1, <1>3, <1>4, <1>5, <1>9, <1>13 DEF SinkInv, UpToDate
<1>16. FileStaysReadable' /\ AnsweredIsRecorded'
  BY <1>0, <1>5, <1>9, <1>13 DEF SinkInv, FileStaysReadable, AnsweredIsRecorded
<1>17. QED
  BY <1>10, <1>11, <1>12, <1>14, <1>15, <1>16 DEF SinkInv

-----------------------------------------------------------------------------
\* A thread that opens the temporary file is the only one to have it open.
LEMMA OpenKeeps ==
  ASSUME SinkInv, NEW t \in Threads, Open(t)
  PROVE  SinkInv'
<1>1. /\ hook[t].pc = "logged" /\ hook' = [hook EXCEPT ![t].pc = "opened"]
      /\ fd' = [fd EXCEPT ![t] = "tmp"] /\ tmp' = Empty
  BY DEF Open
<1>2. UNCHANGED <<loaded, hits, log, torn, file, answered, unlogged, unwritten, forgotten, overlap>>
  BY DEF Open, pastVars
<1>3. /\ \A u \in Threads \ {t} : hook'[u] = hook[u] /\ fd'[u] = fd[u]
      /\ hook'[t] = [hook[t] EXCEPT !.pc = "opened"] /\ fd'[t] = "tmp"
  BY <1>1 DEF SinkInv, SinkTypeOK
<1>4. /\ hook'[t].pc = "opened" /\ hook'[t].hit = hook[t].hit
      /\ hook'[t].module = hook[t].module /\ hook'[t].st = hook[t].st
  BY <1>3 DEF SinkInv, SinkTypeOK
<1>5. Critical(t) /\ \A u \in Threads : Critical(u)' <=> Critical(u)
  BY <1>1, <1>3, <1>4 DEF Critical
<1>6. SinkTypeOK'
  <2>1. hook' \in [Threads -> [pc : {"idle", "waiting", "logged", "opened", "written"},
                              module : 1..MaxLoads, hit : 0..MaxHits, st : SUBSET Hits]]
    BY <1>1 DEF SinkInv, SinkTypeOK
  <2>2. /\ fd' \in [Threads -> {"tmp", "file", "gone", NoFile}]
        /\ \A u \in Threads : fd'[u] # NoFile <=> hook'[u].pc = "opened"
    BY <1>1, <1>3, <1>4, ValuesAssumption DEF SinkInv, SinkTypeOK
  <2>3. \A u, v \in Threads :
          u # v /\ Critical(u)' /\ Critical(v)' => hook'[u].module # hook'[v].module
    BY <1>3, <1>4, <1>5 DEF SinkInv, SinkTypeOK
  <2>4. tmp' \in Contents
    BY <1>1 DEF Contents
  <2>5. QED
    BY <2>1, <2>2, <2>3, <2>4, <1>2 DEF SinkInv, SinkTypeOK
<1>7. Numbered' /\ Appended' /\ Alone'
  BY <1>1, <1>2, <1>3, <1>4, <1>5 DEF SinkInv, Numbered, Appended, Alone
<1>8. UpToDate'
  BY <1>1, <1>2, <1>3, <1>4, <1>5 DEF SinkInv, Alone, UpToDate, Counted, Critical
<1>9. FileStaysReadable' /\ AnsweredIsRecorded'
  BY <1>2 DEF SinkInv, FileStaysReadable, AnsweredIsRecorded, Counted
<1>10. QED
  BY <1>6, <1>7, <1>8, <1>9 DEF SinkInv

\* What bytes put into an open file leave: contents, and alone they come
\* to the temporary file, never to the state file.
LEMMA PutType ==
  ASSUME SinkInv, NEW t \in Threads, NEW c \in Contents, Put(t, c)
  PROVE  /\ file' \in Contents /\ tmp' \in Contents \cup {NoFile}
         /\ ~overlap => file' = file
  BY ValuesAssumption DEF SinkInv, SinkTypeOK, UpToDate, Put, Contents

LEMMA WriteKeeps ==
  ASSUME SinkInv, NEW t \in Threads, Write(t)
  PROVE  SinkInv'
<1>1. /\ hook[t].pc = "opened" /\ hook' = [hook EXCEPT ![t].pc = "written"]
      /\ fd' = [fd EXCEPT ![t] = NoFile] /\ Put(t, hook[t].st)
  BY DEF Write, Put
<1>2. UNCHANGED <<loaded, hits, log, torn, answered, unlogged, unwritten, forgotten, overlap>>
  BY DEF Write, pastVars
<1>3. /\ \A u \in Threads \ {t} : hook'[u] = hook[u] /\ fd'[u] = fd[u]
      /\ hook'[t] = [hook[t] EXCEPT !.pc = "written"] /\ fd'[t] = NoFile
  BY <1>1 DEF SinkInv, SinkTypeOK
<1>4. /\ hook'[t].pc = "written" /\ hook'[t].hit = hook[t].hit
      /\ hook'[t].module = hook[t].module /\ hook'[t].st = hook[t].st
  BY <1>3 DEF SinkInv, SinkTypeOK
<1>5. Critical(t) /\ \A u \in Threads : Critical(u)' <=> Critical(u)
  BY <1>1, <1>3, <1>4 DEF Critical
<1>6. hook[t].st \in Contents
  BY DEF SinkInv, SinkTypeOK, Contents
<1>7. /\ file' \in Contents /\ tmp' \in Contents \cup {NoFile}
      /\ ~overlap => file' = file
  BY <1>1, <1>6, PutType
<1>8. SinkTypeOK'
  <2>1. hook' \in [Threads -> [pc : {"idle", "waiting", "logged", "opened", "written"},
                              module : 1..MaxLoads, hit : 0..MaxHits, st : SUBSET Hits]]
    BY <1>1 DEF SinkInv, SinkTypeOK
  <2>2. /\ fd' \in [Threads -> {"tmp", "file", "gone", NoFile}]
        /\ \A u \in Threads : fd'[u] # NoFile <=> hook'[u].pc = "opened"
    BY <1>1, <1>3, <1>4 DEF SinkInv, SinkTypeOK
  <2>3. \A u, v \in Threads :
          u # v /\ Critical(u)' /\ Critical(v)' => hook'[u].module # hook'[v].module
    BY <1>3, <1>4, <1>5 DEF SinkInv, SinkTypeOK
  <2>4. /\ {log, answered, unlogged, unwritten, forgotten}' \subseteq SUBSET Hits
        /\ {torn, overlap}' \subseteq BOOLEAN
        /\ loaded' \in 1..MaxLoads /\ hits' \in 0..MaxHits
    BY <1>2 DEF SinkInv, SinkTypeOK
  <2>5. QED
    BY <2>1, <2>2, <2>3, <2>4, <1>7 DEF SinkTypeOK
<1>9. Numbered' /\ Alone'
  BY <1>1, <1>2, <1>3, <1>4, <1>5 DEF SinkInv, Numbered, Alone
<1>10. /\ tmp' \in {tmp, hook[t].st, Garbled}
      /\ file' \in {file, hook[t].st, Garbled}
  BY <1>1 DEF Put
<1>11. hook[t].st \subseteq log \cup unlogged
  BY <1>5 DEF SinkInv, Appended
<1>12. Appended'
  <2>1. tmp' \notin {Garbled, Empty, NoFile} => tmp' \subseteq log' \cup unlogged'
    BY <1>2, <1>10, <1>11 DEF SinkInv, Appended
  <2>2. \A u \in Threads : Critical(u)' => hook'[u].hit \in hook'[u].st
                                        /\ hook'[u].st \subseteq log' \cup unlogged'
    BY <1>2, <1>3, <1>4, <1>5 DEF SinkInv, Appended
  <2>3. QED
    BY <2>1, <2>2 DEF Appended
<1>13. UpToDate'
  <2>1. SUFFICES ASSUME ~overlap PROVE UpToDate'
    BY <1>2 DEF UpToDate
  <2>2. /\ fd[t] = "tmp" /\ tmp = Empty /\ UNCHANGED file
        /\ \A u \in Threads : Critical(u) => u = t
    BY <2>1, <1>1, <1>5, <1>7 DEF SinkInv, SinkTypeOK, UpToDate, Alone
  <2>3. tmp' = hook[t].st
    BY <2>2, <1>1 DEF Put
  <2>4. UNCHANGED <<Counted, forgotten>>
    BY <2>2, <1>2 DEF Counted
  <2>5. Counted \subseteq hook[t].st \cup forgotten /\ \A u \in Threads : fd[u] \in {"tmp", NoFile}
    BY <2>1, <1>5 DEF SinkInv, UpToDate
  <2>6. \A u \in Threads \ {t} : ~Critical(u)' /\ fd'[u] \in {"tmp", NoFile}
    BY <2>2, <2>5, <1>3, <1>5
  <2>7. hook'[t].pc = "written" /\ tmp' = hook'[t].st /\ fd'[t] = NoFile
    BY <2>3, <1>3, <1>4
  <2>8. Counted' \subseteq hook'[t].st \cup forgotten'
    BY <2>4, <2>5, <1>4
  <2>9. QED
    BY <2>6, <2>7, <2>8 DEF UpToDate, Critical
<1>14. FileStaysReadable' /\ AnsweredIsRecorded'
  <2>1. Counted' \subseteq Counted \cup hook[t].st /\ (~overlap => Counted' = Counted)
    BY <1>7, <1>10 DEF Counted
  <2>2. QED
    BY <2>1, <1>2, <1>7, <1>11 DEF SinkInv, FileStaysReadable, AnsweredIsRecorded
<1>15. QED
  BY <1>8, <1>9, <1>12, <1>13, <1>14 DEF SinkInv

-----------------------------------------------------------------------------
\* The state in which a thread has no call is a state of hook.
LEMMA IdleType ==
  ASSUME SinkTypeOK, NEW t \in Threads, hook' = [hook EXCEPT ![t] = Idle]
  PROVE  /\ hook' \in [Threads -> [pc : {"idle", "waiting", "logged", "opened", "written"},
                                   module : 1..MaxLoads, hit : 0..MaxHits, st : SUBSET Hits]]
         /\ hook'[t].pc = "idle" /\ ~Critical(t)'
         /\ \A u \in Threads \ {t} : hook'[u] = hook[u] /\ (Critical(u)' <=> Critical(u))
<1>1. Idle \in [pc : {"idle", "waiting", "logged", "opened", "written"},
                module : 1..MaxLoads, hit : 0..MaxHits, st : SUBSET Hits]
  BY BoundsAssumption DEF Idle
<1>2. Idle.pc = "idle"
  BY DEF Idle
<1>3. hook'[t] = Idle /\ \A u \in Threads \ {t} : hook'[u] = hook[u]
  BY DEF SinkTypeOK
<1>4. QED
  BY <1>1, <1>2, <1>3 DEF SinkTypeOK, Critical

\* Alone, a thread renames a file that holds what it wrote.
LEMMA ReplaceKeeps ==
  ASSUME SinkInv, NEW t \in Threads, Replace(t)
  PROVE  SinkInv'
<1> DEFINE h == hook[t].hit
<1>1. /\ hook[t].pc = "written" /\ tmp # NoFile /\ file' = tmp /\ tmp' = NoFile
      /\ hook' = [hook EXCEPT ![t] = Idle] /\ answered' = answered \cup {h}
      /\ fd' = [u \in Threads |-> CASE fd[u] = "tmp" -> "file" [] fd[u] = "file" -> "gone"
                                    [] OTHER -> fd[u]]
      /\ UNCHANGED <<loaded, hits, log, torn, unlogged, unwritten, forgotten, overlap>>
  BY DEF Replace, Answer
<1>2. SinkTypeOK /\ Critical(t)
  BY <1>1 DEF SinkInv, Critical
<1>3. /\ hook' \in [Threads -> [pc : {"idle", "waiting", "logged", "opened", "written"},
                                module : 1..MaxLoads, hit : 0..MaxHits, st : SUBSET Hits]]
      /\ hook'[t].pc = "idle" /\ ~Critical(t)'
      /\ \A u \in Threads \ {t} : hook'[u] = hook[u] /\ (Critical(u)' <=> Critical(u))
  BY <1>1, <1>2, IdleType
<1>4. h \in Hits /\ h \in log \cup unlogged
  BY <1>1, <1>2 DEF SinkInv, Numbered, Appended
<1>5. fd[t] = NoFile
  BY <1>1 DEF SinkInv, SinkTypeOK
<1>6. SinkTypeOK'
  <2>1. /\ fd' \in [Threads -> {"tmp", "file", "gone", NoFile}]
        /\ \A u \in Threads : fd'[u] = NoFile <=> fd[u] = NoFile
    BY <1>1, <1>2, ValuesAssumption DEF SinkTypeOK
  <2>2. \A u \in Threads : fd'[u] # NoFile <=> hook'[u].pc = "opened"
    BY <1>2, <1>3, <1>5, <2>1 DEF SinkTypeOK
  <2>3. \A u, v \in Threads :
          u # v /\ Critical(u)' /\ Critical(v)' => hook'[u].module # hook'[v].module
    BY <1>2, <1>3 DEF SinkTypeOK
  <2>4. file' \in Contents /\ tmp' \in Contents \cup {NoFile} /\ answered' \subseteq Hits
    BY <1>1, <1>2, <1>4 DEF SinkTypeOK
  <2>5. QED
    BY <1>1, <1>2, <1>3, <2>1, <2>2, <2>3, <2>4 DEF SinkTypeOK
<1>7. Numbered' /\ Appended' /\ Alone'
  BY <1>1, <1>3 DEF SinkInv, Numbered, Appended, Alone
<1>8. ASSUME ~overlap
      PROVE  /\ file' = hook[t].st
             /\ file' \notin {Garbled, Empty}
             /\ Counted' = hook[t].st
             /\ Counted \subseteq hook[t].st \cup forgotten
             /\ \A u \in Threads \ {t} : ~Critical(u)
             /\ \A u \in Threads : fd[u] = NoFile
  <2>1. file' = hook[t].st /\ Counted \subseteq hook[t].st \cup forgotten
    BY <1>1, <1>2, <1>8 DEF SinkInv, UpToDate
  <2>2. file' \in SUBSET Hits
    BY <1>2, <2>1 DEF SinkTypeOK
  <2>3. file' \notin {Garbled, Empty}
    BY <2>2, ValuesAssumption
  <2>4. Counted' = file'
    BY <2>3 DEF Counted
  <2>5. \A u \in Threads \ {t} : ~Critical(u)
    BY <1>2, <1>8 DEF SinkInv, Alone
  <2>6. \A u \in Threads : fd[u] = NoFile
    BY <1>5, <2>5 DEF SinkInv, SinkTypeOK, Critical
  <2>7. QED
    BY <2>1, <2>3, <2>4, <2>5, <2>6
<1>9. UpToDate'
  <2>1. SUFFICES ASSUME ~overlap PROVE UpToDate'
    BY <1>1 DEF UpToDate
  <2>2. \A u \in Threads : fd'[u] = NoFile /\ ~Critical(u)'
    BY <1>1, <1>3, <1>8, <2>1, ValuesAssumption
  <2>3. QED
    BY <2>2 DEF UpToDate, Critical
<1>10. FileStaysReadable'
  BY <1>1, <1>8 DEF FileStaysReadable
<1>11. AnsweredIsRecorded'
  <2>1. Counted' \subseteq log \cup unlogged
    BY <1>1 DEF SinkInv, Appended, Counted
  <2>2. answered' \subseteq log \cup unlogged
    BY <1>1, <1>4 DEF SinkInv, AnsweredIsRecorded
  <2>3. ~overlap => answered' \subseteq Counted' \cup unwritten \cup forgotten
    BY <1>1, <1>2, <1>8 DEF SinkInv, Appended, AnsweredIsRecorded
  <2>4. QED
    BY <1>1, <2>1, <2>2, <2>3 DEF AnsweredIsRecorded
<1>12. QED
  BY <1>6, <1>7, <1>9, <1>10, <1>11 DEF SinkInv

\* A write that fails touches the temporary file alone, and is noted.
LEMMA FailKeeps ==
  ASSUME SinkInv, NEW t \in Threads, Fail(t)
  PROVE  SinkInv'
<1> DEFINE h == hook[t].hit
<1>1. /\ Critical(t) /\ fd' = [fd EXCEPT ![t] = NoFile]
      /\ hook' = [hook EXCEPT ![t] = Idle]
      /\ answered' = answered \cup {h} /\ unwritten' = unwritten \cup {h}
      /\ UNCHANGED <<loaded, hits, log, torn, unlogged, forgotten, overlap>>
  BY DEF Fail, Answer, Put
<1>2. SinkTypeOK
  BY DEF SinkInv
<1>3. /\ hook' \in [Threads -> [pc : {"idle", "waiting", "logged", "opened", "written"},
                                module : 1..MaxLoads, hit : 0..MaxHits, st : SUBSET Hits]]
      /\ hook'[t].pc = "idle" /\ ~Critical(t)'
      /\ \A u \in Threads \ {t} : hook'[u] = hook[u] /\ (Critical(u)' <=> Critical(u))
  BY <1>1, <1>2, IdleType
<1>4. h \in Hits /\ h \in log \cup unlogged
  BY <1>1 DEF SinkInv, Numbered, Appended, Critical
<1>5. /\ file' \in Contents /\ tmp' \in Contents \cup {NoFile}
      /\ ~overlap => file' = file
  <2>1. CASE Put(t, Garbled)
    BY <2>1, PutType DEF Contents
  <2>2. CASE UNCHANGED <<tmp, file>>
    BY <1>2, <2>2 DEF SinkTypeOK
  <2>3. QED
    BY <2>1, <2>2 DEF Fail
<1>6. SinkTypeOK'
  <2>1. /\ fd' \in [Threads -> {"tmp", "file", "gone", NoFile}]
        /\ fd'[t] = NoFile /\ \A u \in Threads \ {t} : fd'[u] = fd[u]
    BY <1>1, <1>2 DEF SinkTypeOK
  <2>2. \A u \in Threads : fd'[u] # NoFile <=> hook'[u].pc = "opened"
    BY <1>2, <1>3, <2>1 DEF SinkTypeOK
  <2>3. \A u, v \in Threads :
          u # v /\ Critical(u)' /\ Critical(v)' => hook'[u].module # hook'[v].module
    BY <1>2, <1>3 DEF SinkTypeOK
  <2>4. answered' \subseteq Hits /\ unwritten' \subseteq Hits
    BY <1>1, <1>2, <1>4 DEF SinkTypeOK
  <2>5. /\ {log, unlogged, forgotten}' \subseteq SUBSET Hits
        /\ {torn, overlap}' \subseteq BOOLEAN
        /\ loaded' \in 1..MaxLoads /\ hits' \in 0..MaxHits
    BY <1>1, <1>2 DEF SinkTypeOK
  <2>6. QED
    BY <1>3, <1>5, <2>1, <2>2, <2>3, <2>4, <2>5 DEF SinkTypeOK
<1>7. Numbered' /\ Appended' /\ Alone'
  <2>1. tmp' \in {tmp, Garbled}
    BY <1>1 DEF Fail, Put
  <2>2. QED
    BY <1>1, <1>3, <2>1 DEF SinkInv, Numbered, Appended, Alone
<1>8. UpToDate'
  <2>1. SUFFICES ASSUME ~overlap PROVE UpToDate'
    BY <1>1 DEF UpToDate
  <2>2. \A u \in Threads : ~Critical(u)'
    BY <1>1, <1>3, <2>1 DEF SinkInv, Alone
  <2>3. \A u \in Threads : fd'[u] \in {"tmp", NoFile}
    BY <1>1, <1>2, <2>1 DEF SinkInv, UpToDate, SinkTypeOK
  <2>4. QED
    BY <2>2, <2>3 DEF UpToDate, Critical
<1>9. FileStaysReadable' /\ AnsweredIsRecorded'
  <2>1. Counted' \subseteq Counted /\ (~overlap => Counted' = Counted)
    <3>1. file' \in {file, Garbled}
      BY <1>1 DEF Fail, Put
    <3>2. QED
      BY <1>5, <3>1 DEF Counted
  <2>2. answered' \cup Counted' \subseteq log \cup unlogged
    BY <1>1, <1>4, <2>1 DEF SinkInv, AnsweredIsRecorded
  <2>3. ~overlap => answered' \subseteq Counted' \cup unwritten' \cup forgotten
    BY <1>1, <2>1 DEF SinkInv, AnsweredIsRecorded
  <2>4. QED
    BY <1>1, <1>5, <2>2, <2>3 DEF SinkInv, FileStaysReadable, AnsweredIsRecorded
<1>10. QED
  BY <1>6, <1>7, <1>8, <1>9 DEF SinkInv

-----------------------------------------------------------------------------
\* A reload touches only what new calls go to.
LEMMA ReloadKeeps ==
  ASSUME SinkInv, Reload
  PROVE  SinkInv'
<1>1. /\ UNCHANGED <<hits, hook, fd, log, torn, file, tmp>>
      /\ UNCHANGED <<answered, unlogged, unwritten, forgotten, overlap>>
  BY DEF Reload, fileVars, pastVars
<1>2. loaded' \in 1..MaxLoads
  BY BoundsAssumption DEF SinkInv, SinkTypeOK, Reload
<1>3. QED
  BY <1>1, <1>2 DEF SinkInv, SinkTypeOK, Numbered, Appended, Alone, UpToDate, Critical,
                    FileStaysReadable, AnsweredIsRecorded, Counted

\* A restart ends every call.
LEMMA SinkRestartKeeps ==
  ASSUME SinkInv, RelayRestarts
  PROVE  SinkInv'
<1>1. UNCHANGED <<loaded, hits, log, torn, file, answered, unlogged, unwritten, forgotten, overlap>>
  BY DEF RelayRestarts, pastVars
<1>2. /\ hook' \in [Threads -> [pc : {"idle", "waiting", "logged", "opened", "written"},
                                module : 1..MaxLoads, hit : 0..MaxHits, st : SUBSET Hits]]
      /\ \A t \in Threads : hook'[t].pc = "idle" /\ fd'[t] = NoFile
  BY BoundsAssumption DEF RelayRestarts, Idle
<1>3. \A t \in Threads : ~Critical(t)'
  BY <1>2 DEF Critical
<1>4. SinkTypeOK'
  <2>1. /\ fd' \in [Threads -> {"tmp", "file", "gone", NoFile}]
        /\ tmp' \in Contents \cup {NoFile}
    BY DEF SinkInv, SinkTypeOK, RelayRestarts
  <2>2. \A t \in Threads : fd'[t] # NoFile <=> hook'[t].pc = "opened"
    BY <1>2
  <2>3. /\ {log, answered, unlogged, unwritten, forgotten}' \subseteq SUBSET Hits
        /\ {torn, overlap}' \subseteq BOOLEAN
        /\ loaded' \in 1..MaxLoads /\ hits' \in 0..MaxHits /\ file' \in Contents
    BY <1>1 DEF SinkInv, SinkTypeOK
  <2>4. QED
    BY <1>2, <1>3, <2>1, <2>2, <2>3 DEF SinkTypeOK
<1>5. Numbered' /\ Appended' /\ Alone' /\ UpToDate'
  <2>1. tmp' \in {tmp, NoFile}
    BY DEF RelayRestarts
  <2>2. QED
    BY <1>1, <1>2, <1>3, <2>1 DEF SinkInv, Numbered, Appended, Alone, UpToDate
<1>6. FileStaysReadable' /\ AnsweredIsRecorded'
  BY <1>1 DEF SinkInv, FileStaysReadable, AnsweredIsRecorded, Counted
<1>7. QED
  BY <1>4, <1>5, <1>6 DEF SinkInv

\* Every step keeps the invariant.
LEMMA SinkNextKeeps == SinkInv /\ [SinkNext]_sinkVars => SinkInv'
<1> SUFFICES ASSUME SinkInv, [SinkNext]_sinkVars PROVE SinkInv'
  OBVIOUS
<1>1. CASE \E t \in Threads : Request(t) \/ Record(t) \/ Step(t)
  BY <1>1, RequestKeeps, RecordKeeps, OpenKeeps, WriteKeeps, ReplaceKeeps, FailKeeps DEF Step
<1>2. CASE Reload
  BY <1>2, ReloadKeeps
<1>3. CASE RelayRestarts
  BY <1>3, SinkRestartKeeps
<1>4. CASE UNCHANGED sinkVars
  BY <1>4 DEF sinkVars, fileVars, pastVars, SinkInv, SinkTypeOK, Numbered, Appended, Alone,
              UpToDate, Critical, FileStaysReadable, AnsweredIsRecorded, Counted
<1>5. QED
  BY <1>1, <1>2, <1>3, <1>4 DEF SinkNext

-----------------------------------------------------------------------------
(***************************************************************************)
(* The theorems.                                                           *)
(***************************************************************************)

\* The inductive invariant holds in every reachable state.
THEOREM SinkInvariant == SinkSpec => []SinkInv
<1>1. SinkInit => SinkInv
  BY SinkInitInv
<1>2. SinkInv /\ [SinkNext]_sinkVars => SinkInv'
  BY SinkNextKeeps
<1>3. QED
  BY <1>1, <1>2, PTL DEF SinkSpec

\* Types: among others, no two calls of one instance of the module are in
\* its critical section (_LOCK).
THEOREM SinkTypeCorrect == SinkSpec => []SinkTypeOK
<1>1. SinkInv => SinkTypeOK
  BY DEF SinkInv
<1>2. QED
  BY <1>1, SinkInvariant, PTL

\* What on_http_request answered is in the counters and the log, unless
\* that write failed, as long as no two instances were at work at once.
THEOREM UploadsAreRecorded == SinkSpec => []AnsweredIsRecorded
<1>1. SinkInv => AnsweredIsRecorded
  BY DEF SinkInv
<1>2. QED
  BY <1>1, SinkInvariant, PTL

\* The temporary file and os.replace keep the state file readable through
\* failed writes and stops, as long as no two instances were at work at once.
THEOREM StateFileIsReadable == SinkSpec => []FileStaysReadable
<1>1. SinkInv => FileStaysReadable
  BY DEF SinkInv
<1>2. QED
  BY <1>1, SinkInvariant, PTL
=============================================================================
