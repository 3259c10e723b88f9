----------------------------- MODULE RulesEngine -----------------------------
(***************************************************************************)
(* The rules engine (vendor/smartrelay/rules_engine.py): every hook call   *)
(* of every thread lists the directory, brings the loaded modules up to    *)
(* date under a lock (RulesHandle._reload), then takes the lock again for  *)
(* the modules to call (_ordered_mods).  Files are edited meanwhile.       *)
(*                                                                         *)
(* A version is known by the number of the edit that wrote it, which is    *)
(* also its mtime: no two edits fall into one tick of the file system.     *)
(* exec_module compiles what it reads; that Python may take the bytecode   *)
(* of an earlier version with the same size and second is left out.        *)
(***************************************************************************)
EXTENDS Naturals, FiniteSets

CONSTANTS
    Files,      \* the names *.py
    Threads,    \* threads that serve requests and sessions
    MaxEdits,   \* bound on edits
    Absent

ASSUME EditsAssumption == MaxEdits \in Nat
ASSUME AbsentAssumption == Absent \notin Files \cup Threads

VARIABLES
    disk,       \* disk[f]: the version in the directory, 0 if there is no file
    faulty,     \* versions that raise when they are loaded
    loaded,     \* loaded[f]: _modules, the version and the mtime noted for it
    lock,       \* the thread in _reload, or Absent
    thread,     \* thread[t]: a call of _ordered_mods and the hooks it calls
    edits       \* edits so far

engineVars == <<disk, faulty, loaded, lock, thread, edits>>

Version == 0..MaxEdits
Unloaded == [version |-> 0, mtime |-> 0]

(***************************************************************************)
(* A thread is "idle", "listed" (listdir done, waits for the lock),        *)
(* "checking" the files in todo, "loading" file, for which it has noted an *)
(* mtime, "reloaded" (the lock is free again), "calling" the hooks of mods,*)
(* mods[f] being the version it calls.                                     *)
(***************************************************************************)
Thread == [pc : {"idle", "listed", "checking", "loading", "reloaded", "calling"},
           files : SUBSET Files, todo : SUBSET Files, file : Files \cup {Absent},
           mtime : Version, mods : [Files -> Version]]

NoMods == [f \in Files |-> 0]
Idle == [pc |-> "idle", files |-> {}, todo |-> {}, file |-> Absent, mtime |-> 0, mods |-> NoMods]

EngineTypeOK ==
    /\ disk \in [Files -> Version]
    /\ faulty \subseteq Version
    /\ loaded \in [Files -> [version : Version, mtime : Version]]
    /\ lock \in Threads \cup {Absent}
    /\ \A t \in Threads : lock = t <=> thread[t].pc \in {"checking", "loading"}
    /\ thread \in [Threads -> Thread]
    /\ edits \in Version

(* Files that are there from the start are the first edits.  The _reload of *)
(* __init__ is done by a thread like any other.                            *)
EngineInit ==
    /\ disk = [f \in Files |-> 0]
    /\ faulty = {}
    /\ loaded = [f \in Files |-> Unloaded]
    /\ lock = Absent
    /\ thread = [t \in Threads |-> Idle]
    /\ edits = 0

(* The operator. *)

(* A file is written or replaced, with a version that may not load. *)
Edit(f) ==
    /\ edits < MaxEdits
    /\ edits' = edits + 1
    /\ disk' = [disk EXCEPT ![f] = edits']
    /\ faulty' \in {faulty, faulty \cup {edits'}}
    /\ UNCHANGED <<loaded, lock, thread>>

RemoveFile(f) ==
    /\ disk[f] # 0
    /\ disk' = [disk EXCEPT ![f] = 0]
    /\ UNCHANGED <<faulty, loaded, lock, thread, edits>>

(* A thread calls a hook. *)

(* listdir, before the lock is taken. *)
List(t) ==
    /\ thread[t].pc = "idle"
    /\ thread' = [thread EXCEPT ![t] = [Idle EXCEPT !.pc = "listed",
                                         !.files = {f \in Files : disk[f] # 0}]]
    /\ UNCHANGED <<disk, faulty, loaded, lock, edits>>

(* A mutant: the lock is not waited for. *)
EnterUnlocked(t) ==
    /\ thread[t].pc = "listed"
    /\ lock' = t
    /\ thread' = [thread EXCEPT ![t].pc = "checking", ![t].todo = thread[t].files]
    /\ UNCHANGED <<disk, faulty, loaded, edits>>

Enter(t) ==
    /\ thread[t].pc = "listed"
    /\ lock = Absent
    /\ lock' = t
    /\ thread' = [thread EXCEPT ![t].pc = "checking", ![t].todo = thread[t].files]
    /\ UNCHANGED <<disk, faulty, loaded, edits>>

(* getmtime of the next file, which may be gone, or not have changed. *)
Check(t) ==
    /\ thread[t].pc = "checking"
    /\ \E f \in thread[t].todo :
         IF disk[f] \in {0, loaded[f].mtime}
           THEN thread' = [thread EXCEPT ![t].todo = @ \ {f}]
           ELSE thread' = [thread EXCEPT ![t].todo = @ \ {f}, ![t].pc = "loading",
                                         ![t].file = f, ![t].mtime = disk[f]]
    /\ UNCHANGED <<disk, faulty, loaded, lock, edits>>

(* A mutant: what cannot be loaded is dropped. *)
LoadDropping(t) ==
    /\ thread[t].pc = "loading"
    /\ LET f == thread[t].file
       IN  loaded' = [loaded EXCEPT ![f] = IF disk[f] = 0 \/ disk[f] \in faulty THEN Unloaded
                                           ELSE [version |-> disk[f], mtime |-> thread[t].mtime]]
    /\ thread' = [thread EXCEPT ![t].pc = "checking"]
    /\ UNCHANGED <<disk, faulty, lock, edits>>

(* A mutant: the file is read first, its mtime afterwards. *)
LoadNotingLate(t) ==
    /\ thread[t].pc = "loading"
    /\ LET f == thread[t].file
       IN  loaded' = IF disk[f] = 0 \/ thread[t].mtime \in faulty THEN loaded
                     ELSE [loaded EXCEPT ![f] = [version |-> thread[t].mtime, mtime |-> disk[f]]]
    /\ thread' = [thread EXCEPT ![t].pc = "checking"]
    /\ UNCHANGED <<disk, faulty, lock, edits>>

(* exec_module reads what the file is by now; one that cannot be loaded    *)
(* leaves the version loaded before.                                       *)
Load(t) ==
    /\ thread[t].pc = "loading"
    /\ LET f == thread[t].file
       IN  loaded' = IF disk[f] = 0 \/ disk[f] \in faulty THEN loaded
                     ELSE [loaded EXCEPT ![f] = [version |-> disk[f], mtime |-> thread[t].mtime]]
    /\ thread' = [thread EXCEPT ![t].pc = "checking"]
    /\ UNCHANGED <<disk, faulty, lock, edits>>

(* A mutant: modules of removed files stay loaded. *)
SweepNothing(t) ==
    /\ thread[t].pc = "checking" /\ thread[t].todo = {}
    /\ lock' = Absent
    /\ thread' = [thread EXCEPT ![t].pc = "reloaded"]
    /\ UNCHANGED <<disk, faulty, loaded, edits>>

(* Modules whose file was not listed are dropped; the lock is released. *)
Sweep(t) ==
    /\ thread[t].pc = "checking" /\ thread[t].todo = {}
    /\ loaded' = [f \in Files |-> IF f \in thread[t].files THEN loaded[f] ELSE Unloaded]
    /\ lock' = Absent
    /\ thread' = [thread EXCEPT ![t].pc = "reloaded"]
    /\ UNCHANGED <<disk, faulty, edits>>

(* The lock is taken again for the list of modules. *)
Snapshot(t) ==
    /\ thread[t].pc = "reloaded"
    /\ lock = Absent
    /\ thread' = [thread EXCEPT ![t] =
           [Idle EXCEPT !.pc = "calling", !.mods = [f \in Files |-> loaded[f].version]]]
    /\ UNCHANGED <<disk, faulty, loaded, lock, edits>>

(* The hooks return. *)
Return(t) ==
    /\ thread[t].pc = "calling"
    /\ thread' = [thread EXCEPT ![t] = Idle]
    /\ UNCHANGED <<disk, faulty, loaded, lock, edits>>

Reload(t) == Enter(t) \/ Check(t) \/ Load(t) \/ Sweep(t)
Proceed(t) == Reload(t) \/ Snapshot(t) \/ Return(t)

EngineNext ==
    \/ \E f \in Files : Edit(f) \/ RemoveFile(f)
    \/ \E t \in Threads : List(t) \/ Proceed(t)

(* A thread inside a call goes on, and gets a lock that is free again and  *)
(* again.  New calls come or do not come.                                  *)
EngineFairness ==
    \A t \in Threads : /\ WF_engineVars(Check(t) \/ Load(t) \/ Sweep(t) \/ Return(t))
                       /\ SF_engineVars(Enter(t)) /\ SF_engineVars(Snapshot(t))

EngineSpec == EngineInit /\ [][EngineNext]_engineVars /\ EngineFairness

(* Properties. *)

(* A file that the engine takes for unchanged is loaded as it is: what it  *)
(* skips over, for the mtime it noted, is never an older version.          *)
SkippedIsCurrent ==
    \A f \in Files : disk[f] # 0 /\ loaded[f].mtime = disk[f] => loaded[f].version = disk[f]

(* "Hot reload: takes effect within seconds": once the edits are over, and  *)
(* in the model they are some time, every call goes to the version of the  *)
(* file if it loads, and to none if there is no file, for good, whatever   *)
(* was being listed and loaded at the time.                                *)
TakesEffect ==
    \A f \in Files :
        <>[](disk[f] \notin faulty =>
               \A t \in Threads : thread[t].pc = "calling" => thread[t].mods[f] = disk[f])

(* A call that holds a listing from before f was there. *)
Outdated(t, f) == thread[t].pc \in {"listed", "checking", "loading"} /\ f \notin thread[t].files

(* A version that does not load is skipped and the rule stays in service;  *)
(* only a call that listed the directory without the file takes it out.    *)
FaultyEditIsSkipped ==
    [][\A f \in Files :
         loaded[f].version # 0 /\ (\A t \in Threads : ~Outdated(t, f))
           => loaded'[f].version # 0]_engineVars
=============================================================================
