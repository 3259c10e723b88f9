------------------------------- MODULE QmsSink -------------------------------
(***************************************************************************)
(* The sink for diagnostic uploads (relay/rules/16-qms-sink.py): each hit  *)
(* is appended to a log and counted in a state file, which is read, then   *)
(* written to a temporary file that is renamed over it, all under the lock *)
(* of the module.  A hot reload makes a second instance of the module,     *)
(* with a lock of its own and the same temporary name, while calls to the  *)
(* first are still under way.                                              *)
(*                                                                         *)
(* The contents of the state file are the hits it counts.  A file that is  *)
(* open is followed under the names it has: "tmp", then "file" once it is  *)
(* renamed, then "gone".  The feed and the firmware rule keep devices.json *)
(* and their state in the same way.                                        *)
(***************************************************************************)
EXTENDS Naturals

CONSTANTS
    Threads,    \* threads that serve HTTP requests
    MaxHits,    \* bound on hits
    MaxLoads,   \* bound on instances of the module
    Garbled,    \* contents that are no JSON
    Empty,      \* a file of no bytes, which is no JSON either
    NoFile

ASSUME BoundsAssumption == MaxHits \in Nat /\ MaxLoads \in Nat \ {0}

VARIABLES
    loaded,     \* the instance that new calls go to
    hits,       \* hits so far, which are numbered
    hook,       \* hook[t]: the call of on_http_request that t is in
    fd,         \* fd[t]: what has become of the file that t has open, or NoFile
    log,        \* the hits that have a line of their own in the log
    torn,       \* the log ends in half a line
    file,       \* the state file, {} if there is none
    tmp,        \* the temporary file, or NoFile
    answered,   \* hits that were answered with 200
    unlogged,   \* hits whose append failed, or went on with half a line
    unwritten,  \* hits whose write failed
    forgotten,  \* hits in the state file when a read of it failed
    overlap     \* history: two instances were in their critical sections at once

fileVars == <<fd, log, torn, file, tmp>>
pastVars == <<answered, unlogged, unwritten, forgotten, overlap>>
sinkVars == <<loaded, hits, hook, fileVars, pastVars>>

Hits == 1..MaxHits
Contents == (SUBSET Hits) \cup {Garbled, Empty}

ASSUME ValuesAssumption ==
    /\ \A c \in SUBSET Hits : c \notin {Garbled, Empty}
    /\ NoFile \notin {"tmp", "file", "gone"}

(* "waiting" for the lock, "logged" (the state is read and st is what will  *)
(* be written), "opened" the temporary file, "written" it.                  *)
Idle == [pc |-> "idle", module |-> 1, hit |-> 0, st |-> {}]
Critical(t) == hook[t].pc \in {"logged", "opened", "written"}

SinkTypeOK ==
    /\ loaded \in 1..MaxLoads /\ hits \in 0..MaxHits
    /\ hook \in [Threads -> [pc : {"idle", "waiting", "logged", "opened", "written"},
                             module : 1..MaxLoads, hit : 0..MaxHits, st : SUBSET Hits]]
    /\ fd \in [Threads -> {"tmp", "file", "gone", NoFile}]
    /\ \A t \in Threads : fd[t] # NoFile <=> hook[t].pc = "opened"
    /\ \A t, u \in Threads :
         t # u /\ Critical(t) /\ Critical(u) => hook[t].module # hook[u].module
    /\ file \in Contents /\ tmp \in Contents \cup {NoFile}
    /\ {log, answered, unlogged, unwritten, forgotten} \subseteq SUBSET Hits
    /\ {torn, overlap} \subseteq BOOLEAN

SinkInit ==
    /\ loaded = 1 /\ hits = 0
    /\ hook = [t \in Threads |-> Idle]
    /\ fd = [t \in Threads |-> NoFile]
    /\ log = {} /\ torn = FALSE /\ file = {} /\ tmp = NoFile
    /\ answered = {} /\ unlogged = {} /\ unwritten = {} /\ forgotten = {}
    /\ overlap = FALSE

(* What _read_state finds in a file that it can read. *)
Counted == IF file \in {Garbled, Empty} THEN {} ELSE file

(* _read_state: an OSError, too, leaves a dictionary that counts nothing. *)
ReadState == {Counted, {}}

(* on_http_request for a QMS host, step by step. *)

(* The module to call is chosen before its lock is asked for. *)
Request(t) ==
    /\ hook[t].pc = "idle" /\ hits < MaxHits
    /\ hits' = hits + 1
    /\ hook' = [hook EXCEPT ![t] = [pc |-> "waiting", module |-> loaded, hit |-> hits', st |-> {}]]
    /\ UNCHANGED <<loaded, fileVars, pastVars>>

(* _append_log: a line behind half a line cannot be read, and a write that  *)
(* fails may leave half of its own.                                        *)
AppendLog(h) ==
    \/ /\ ~torn
       /\ log' = log \cup {h} /\ UNCHANGED <<unlogged, torn>>
    \/ /\ torn /\ torn' = FALSE
       /\ unlogged' = unlogged \cup {h} /\ log' = log
    \/ /\ torn' \in {torn, TRUE}
       /\ unlogged' = unlogged \cup {h} /\ log' = log

(* The append, and the state that is read; what was in a file that could   *)
(* not be read will be lost when st is written over it.                    *)
Enter(t) ==
    LET h == hook[t].hit
    IN  /\ hook[t].pc = "waiting"
        /\ AppendLog(h)
        /\ \E st \in ReadState :
             /\ hook' = [hook EXCEPT ![t].pc = "logged", ![t].st = st \cup {h}]
             /\ forgotten' = forgotten \cup (Counted \ st)
        /\ overlap' = (overlap \/ \E u \in Threads : Critical(u) /\ hook[u].module # hook[t].module)
        /\ UNCHANGED <<loaded, hits, fd, file, tmp, answered, unwritten>>

(* A mutant: there is no lock. *)
RecordUnlocked(t) == Enter(t)

(* The lock of the instance is free. *)
Record(t) ==
    /\ \A u \in Threads : Critical(u) => hook[u].module # hook[t].module
    /\ Enter(t)

(* A mutant: the state file is written in place. *)
OpenInPlace(t) ==
    /\ hook[t].pc = "logged"
    /\ hook' = [hook EXCEPT ![t].pc = "opened"]
    /\ fd' = [fd EXCEPT ![t] = "file"]
    /\ tmp' = tmp /\ file' = Empty
    /\ UNCHANGED <<loaded, hits, log, torn, pastVars>>

(* The temporary file is made, or emptied, whoever has it open. *)
Open(t) ==
    /\ hook[t].pc = "logged"
    /\ hook' = [hook EXCEPT ![t].pc = "opened"]
    /\ fd' = [fd EXCEPT ![t] = "tmp"]
    /\ tmp' = Empty
    /\ UNCHANGED <<loaded, hits, log, torn, file, pastVars>>

(* Bytes c go to the open file, from its beginning: where another's bytes   *)
(* are longer, their end stays.                                            *)
Put(t, c) ==
    LET Over(old) == IF old = Empty THEN {c} ELSE {c, Garbled}
    IN  /\ tmp' \in IF fd[t] = "tmp" THEN Over(tmp) ELSE {tmp}
        /\ file' \in IF fd[t] = "file" THEN Over(file) ELSE {file}
        /\ fd' = [fd EXCEPT ![t] = NoFile]

Write(t) ==
    /\ hook[t].pc = "opened"
    /\ Put(t, hook[t].st)
    /\ hook' = [hook EXCEPT ![t].pc = "written"]
    /\ UNCHANGED <<loaded, hits, log, torn, pastVars>>

(* The lock is released and the upload answered. *)
Answer(t) ==
    /\ answered' = answered \cup {hook[t].hit}
    /\ hook' = [hook EXCEPT ![t] = Idle]
    /\ UNCHANGED <<loaded, hits, log, torn, unlogged, forgotten, overlap>>

(* os.replace, which takes along whoever has the temporary file open. *)
Replace(t) ==
    /\ hook[t].pc = "written" /\ tmp # NoFile
    /\ file' = tmp /\ tmp' = NoFile
    /\ fd' = [u \in Threads |-> CASE fd[u] = "tmp" -> "file" [] fd[u] = "file" -> "gone"
                                  [] OTHER -> fd[u]]
    /\ Answer(t)
    /\ UNCHANGED unwritten

(* A mutant: an error while writing leaves the lock taken. *)
FailHolding(t) ==
    /\ Critical(t)
    /\ unwritten' = unwritten \cup {hook[t].hit}
    /\ UNCHANGED <<loaded, hits, hook, fileVars, answered, unlogged, forgotten, overlap>>

(* An OSError anywhere in _write_state; bytes may have been written. *)
Fail(t) ==
    /\ Critical(t)
    /\ \/ Put(t, Garbled)
       \/ fd' = [fd EXCEPT ![t] = NoFile] /\ UNCHANGED <<tmp, file>>
    /\ unwritten' = unwritten \cup {hook[t].hit}
    /\ Answer(t)

(* The rule is edited, and the engine loads it again. *)
Reload ==
    /\ loaded < MaxLoads
    /\ loaded' = loaded + 1
    /\ UNCHANGED <<hits, hook, fileVars, pastVars>>

(* The relay stops and starts at any point; a temporary file may be left,   *)
(* under the new process's name or another.                                *)
RelayRestarts ==
    /\ hook' = [t \in Threads |-> Idle]
    /\ fd' = [t \in Threads |-> NoFile]
    /\ tmp' \in {tmp, NoFile}
    /\ UNCHANGED <<loaded, hits, log, torn, file, pastVars>>

Step(t) == Open(t) \/ Write(t) \/ Replace(t) \/ Fail(t)
SinkNext ==
    \/ \E t \in Threads : Request(t) \/ Record(t) \/ Step(t)
    \/ Reload
    \/ RelayRestarts

(* A thread goes on, and gets a lock that is free again and again. *)
SinkSpec ==
    /\ SinkInit /\ [][SinkNext]_sinkVars
    /\ \A t \in Threads : WF_sinkVars(Step(t)) /\ SF_sinkVars(Record(t))

(* Properties. *)

(* Every upload that was answered or counted has its line in the log unless *)
(* the log could not be written for it, also when two instances were at     *)
(* work at once.  Until then it is in the counters as well, unless its own  *)
(* write failed or the counters were started anew after a read that failed. *)
AnsweredIsRecorded ==
    /\ answered \cup Counted \subseteq log \cup unlogged
    /\ ~overlap => answered \subseteq Counted \cup unwritten \cup forgotten

(* The state file can be read at any time, also after a failed write or a   *)
(* stop in the middle of one, as long as no two instances shared the       *)
(* temporary file: then one may rename it while the other writes.           *)
FileStaysReadable == ~overlap => file \notin {Garbled, Empty}

(* Every upload is answered unless the relay stops, whatever fails. *)
HitIsAnswered == \A t \in Threads : hook[t].pc = "waiting" ~> hook[t].pc = "idle"
=============================================================================
