---------------------------- MODULE ReviewJobProofs ----------------------------
(***************************************************************************)
(* What holds of a ReviewJob for any number of starts, cancels and faults: *)
(* its engine starts once, a sandbox that outlives the job is accounted    *)
(* for, and it implements JobPromise.                                      *)
(***************************************************************************)
EXTENDS ReviewJob, TLAPS

\* What the object has stored, by where its two activities are.
Course ==
  /\ state # "none" \/ at["run"] # "idle" \/ at["cancel"] # "idle" => review
  /\ at["run"] # "idle" => state # "none"
  /\ at["cancel"] # "idle" => cancelled
  /\ at["cancel"] \in {"status", "head", "put", "end"} => state = "done"
  /\ state = "done" /\ at["run"] # "idle" => cancelled

\* The engine has not been started before the run is set up.
Engines ==
  /\ state = "none" \/ at["run"] \in {"setup", "clone", "lanes", "start"} => engines = 0
  /\ engines <= 1

\* A run that is about to end has lost its sandbox, or has said so; after it only a
\* run that was cut short leaves one.
Sandboxes ==
  /\ state = "done" /\ at["run"] = "idle" => sandbox = "down" \/ reported \/ stranded
  /\ at["run"] \in {"head", "put", "end"} => sandbox = "down" \/ reported
  /\ at["run"] = "restartHead" => sandbox = "down" \/ reason["run"] = "destroy_failed"
  /\ reason["run"] # "superseded"

\* Where a run has not stored its receipt yet.
Early == {"setup", "clone", "lanes", "start", "engine", "output", "store"}

\* A run that was not cancelled writes the first receipt, and has one when it ends.
Records ==
  /\ state = "none" => receipt = "none"
  /\ state # "done" /\ at["run"] \in Early \union {"put"} => receipt = "none"
  /\ at["run"] = "store" => output # "none"
  /\ at["run"] \in {"evidence", "finally"} /\ reason["run"] = "none" => receipt # "none"
  /\ at["run"] = "end" => receipt # "none"

Inv == TypeOK /\ Course /\ Engines /\ Sandboxes /\ Records

-----------------------------------------------------------------------------
(* The invariant is inductive. *)

Labels == {"idle", "restart", "restartHead", "setup", "clone", "lanes", "start", "engine", "output", "store",
           "evidence", "finally", "status", "head", "put", "end", "destroy"}

\* An activity that goes on, a call, and an exception keep the types.
LEMMA GoTyped ==
  ASSUME TypeOK, NEW a \in Actors, NEW label \in Labels, Go(a, label)
  PROVE  at' \in [Actors -> Labels]
BY DEF TypeOK, Go, Labels

LEMMA CallTyped == ASSUME TypeOK, NEW o, Call(o) PROVE faults' \in 0..MaxFaults
BY BoundsAssumption DEF TypeOK, Call

LEMMA ThrownTyped ==
  ASSUME TypeOK, NEW a \in Actors, Thrown(a)
  PROVE  /\ at' \in [Actors -> Labels] /\ reason' \in [Actors -> Reasons]
         /\ alarm' \in BOOLEAN /\ output' \in {"none", "publishable", "unusable"} /\ stranded' \in BOOLEAN
<1>1. at' \in [Actors -> Labels]
  BY DEF TypeOK, Thrown, Labels
<1>2. reason' \in [Actors -> Reasons]
  BY DEF TypeOK, Thrown, Reasons
<1>3. output' \in {"none", "publishable", "unusable"}
  BY DEF TypeOK, Thrown
<1>4. alarm' \in BOOLEAN
  BY Zenon DEF TypeOK, Thrown
<1>5. stranded' \in BOOLEAN
  BY Zenon DEF TypeOK, Thrown
<1> QED BY <1>1, <1>2, <1>3, <1>4, <1>5

LEMMA GoOrThrownTyped ==
  ASSUME TypeOK, NEW a \in Actors, NEW label \in Labels,
         (Go(a, label) /\ UNCHANGED <<alarm, reason, output, stranded>>) \/ Thrown(a)
  PROVE  /\ at' \in [Actors -> Labels] /\ reason' \in [Actors -> Reasons]
         /\ alarm' \in BOOLEAN /\ output' \in {"none", "publishable", "unusable"} /\ stranded' \in BOOLEAN
<1>1. CASE Thrown(a)
  BY <1>1, ThrownTyped
<1>2. CASE Go(a, label) /\ UNCHANGED <<alarm, reason, output, stranded>>
  <2>1. at' \in [Actors -> Labels]
    BY <1>2, GoTyped
  <2> QED BY <1>2, <2>1 DEF TypeOK
<1> QED BY <1>1, <1>2

LEMMA StartKeeps == ASSUME Inv, Start PROVE Inv'
<1>1. TypeOK'
  BY BoundsAssumption DEF Inv, TypeOK, Start, history
<1>2. Course'
  BY DEF Inv, Course, Start, history
<1>3. Engines'
  BY DEF Inv, Engines, Start
<1>4. Sandboxes'
  BY DEF Inv, Sandboxes, Start, history
<1>5. Records'
  BY DEF Inv, Records, Early, Start
<1> QED BY <1>1, <1>2, <1>3, <1>4, <1>5 DEF Inv

LEMMA AlarmFiresKeeps == ASSUME Inv, AlarmFires PROVE Inv'
<1>1. TypeOK'
  <2>1. at' \in [Actors -> Labels] /\ state' \in {"none", "running", "done"}
    <3>1. CASE UNCHANGED <<state, at>>
      BY <3>1 DEF Inv, TypeOK, Labels
    <3>2. CASE \E label \in {"restart", "setup"} : Go("run", label) /\ state' \in {state, "running"}
      BY <3>2, GoTyped DEF Inv, TypeOK, Labels, Actors
    <3> QED BY <3>1, <3>2 DEF AlarmFires
  <2> QED BY <2>1 DEF Inv, TypeOK, AlarmFires, Labels, world, bounds, history
<1>2. Course'
  BY DEF Inv, TypeOK, Course, AlarmFires, Interrupted, Go, history, Actors
<1>3. Engines'
  BY DEF Inv, TypeOK, Engines, AlarmFires, Interrupted, Go
<1>4. Sandboxes'
  BY DEF Inv, TypeOK, Sandboxes, AlarmFires, Go, world, history
<1>5. Records'
  BY DEF Inv, TypeOK, Records, Early, AlarmFires, Interrupted, Go, world
<1> QED BY <1>1, <1>2, <1>3, <1>4, <1>5 DEF Inv

LEMMA RestartKeeps == ASSUME Inv, NEW o \in Outcomes, Restart(o) PROVE Inv'
<1>1. TypeOK'
  BY BoundsAssumption DEF Inv, TypeOK, Restart, Destroyed, Contents, Call, Go, GoFor, storage, history, Actors, Reasons
<1>2. Course'
  BY DEF Inv, Course, Restart, Go, GoFor, storage, history
<1>3. Engines'
  BY DEF Inv, Engines, Restart, Go, GoFor, storage
<1>4. Sandboxes'
  BY DEF Inv, TypeOK, Sandboxes, Course, Restart, Destroyed, Go, GoFor, storage
<1>5. Records'
  BY DEF Inv, Records, Early, Restart, Go, GoFor, storage
<1> QED BY <1>1, <1>2, <1>3, <1>4, <1>5 DEF Inv

LEMMA RestartHeadKeeps == ASSUME Inv, NEW o \in {"ok", "down"}, RestartHead(o) PROVE Inv'
<1>1. TypeOK'
  <2>1. faults' \in 0..MaxFaults
    BY CallTyped DEF Inv, RestartHead
  <2>2. /\ at' \in [Actors -> Labels] /\ reason' \in [Actors -> Reasons]
        /\ alarm' \in BOOLEAN /\ output' \in {"none", "publishable", "unusable"} /\ stranded' \in BOOLEAN
    BY GoOrThrownTyped DEF Inv, Actors, Labels, RestartHead
  <2>3. UNCHANGED <<review, state, sandbox, receipt, status, engines, starts, cancels, cancelled, reported>>
    BY DEF RestartHead, world
  <2> QED BY <2>1, <2>2, <2>3 DEF Inv, TypeOK, Labels
<1>2. Course'
  BY DEF Inv, TypeOK, Course, RestartHead, Go, Thrown, world, history, Actors
<1>3. Engines'
  BY DEF Inv, TypeOK, Engines, RestartHead, Go, Thrown
<1>4. Sandboxes'
  BY DEF Inv, TypeOK, Sandboxes, Course, RestartHead, Go, Thrown, world
<1>5. Records'
  BY DEF Inv, TypeOK, Records, Early, RestartHead, Unrecorded, Go, Thrown, world
<1> QED BY <1>1, <1>2, <1>3, <1>4, <1>5 DEF Inv

LEMMA SetupKeeps == ASSUME Inv, Setup PROVE Inv'
<1>1. TypeOK'
  <2>1. at' \in [Actors -> Labels]
    BY GoTyped DEF Inv, TypeOK, Setup, Fails, GoFor, Actors, Labels
  <2>2. reason' \in [Actors -> Reasons]
    BY DEF Inv, TypeOK, Setup, Fails, GoFor, Reasons
  <2>3. sandbox' \in Contents
    BY DEF Inv, TypeOK, Setup, Woken, Contents
  <2> QED BY <2>1, <2>2, <2>3 DEF Inv, TypeOK, Setup, Labels, Reasons, storage, bounds, history
<1>2. Course'
  BY DEF Inv, TypeOK, Course, Setup, Fails, Go, GoFor, storage, history, Actors
<1>3. Engines'
  BY DEF Inv, TypeOK, Engines, Course, Setup, Fails, Go, GoFor, storage, Actors
<1>4. Sandboxes'
  BY DEF Inv, TypeOK, Sandboxes, Setup, Fails, Go, GoFor, storage, history, Actors
<1>5. Records'
  BY DEF Inv, TypeOK, Records, Early, Setup, Fails, Go, GoFor, storage, Actors
<1> QED BY <1>1, <1>2, <1>3, <1>4, <1>5 DEF Inv

LEMMA CloneKeeps == ASSUME Inv, Clone PROVE Inv'
<1>1. TypeOK'
  <2>1. at' \in [Actors -> Labels]
    BY GoTyped DEF Inv, TypeOK, Clone, Fails, GoFor, Actors, Labels
  <2>2. reason' \in [Actors -> Reasons]
    BY DEF Inv, TypeOK, Clone, Fails, GoFor, Reasons
  <2>3. sandbox' \in Contents
    BY DEF Inv, TypeOK, Clone, Woken, Contents
  <2> QED BY <2>1, <2>2, <2>3 DEF Inv, TypeOK, Clone, Labels, Reasons, storage, bounds, history
<1>2. Course'
  BY DEF Inv, TypeOK, Course, Clone, Fails, Go, GoFor, storage, history, Actors
<1>3. Engines'
  BY DEF Inv, TypeOK, Engines, Course, Clone, Fails, Go, GoFor, storage, Actors
<1>4. Sandboxes'
  BY DEF Inv, TypeOK, Sandboxes, Clone, Fails, Go, GoFor, storage, history, Actors
<1>5. Records'
  BY DEF Inv, TypeOK, Records, Early, Clone, Fails, Go, GoFor, storage, Actors
<1> QED BY <1>1, <1>2, <1>3, <1>4, <1>5 DEF Inv

LEMMA LanesKeeps == ASSUME Inv, Lanes PROVE Inv'
<1>1. TypeOK'
  <2>1. at' \in [Actors -> Labels]
    BY GoTyped DEF Inv, TypeOK, Lanes, Fails, GoFor, Actors, Labels
  <2>2. reason' \in [Actors -> Reasons]
    BY DEF Inv, TypeOK, Lanes, Fails, GoFor, Reasons
  <2>3. sandbox' \in Contents
    BY DEF Inv, TypeOK, Lanes, Woken, Contents
  <2> QED BY <2>1, <2>2, <2>3 DEF Inv, TypeOK, Lanes, Labels, Reasons, storage, bounds, history
<1>2. Course'
  BY DEF Inv, TypeOK, Course, Lanes, Fails, Go, GoFor, storage, history, Actors
<1>3. Engines'
  BY DEF Inv, TypeOK, Engines, Course, Lanes, Fails, Go, GoFor, storage, Actors
<1>4. Sandboxes'
  BY DEF Inv, TypeOK, Sandboxes, Lanes, Fails, Go, GoFor, storage, history, Actors
<1>5. Records'
  BY DEF Inv, TypeOK, Records, Early, Lanes, Fails, Go, GoFor, storage, Actors
<1> QED BY <1>1, <1>2, <1>3, <1>4, <1>5 DEF Inv

LEMMA StartEngineKeeps == ASSUME Inv, StartEngine PROVE Inv'
<1>1. TypeOK'
  <2>1. at' \in [Actors -> Labels]
    BY GoTyped DEF Inv, TypeOK, StartEngine, Fails, GoFor, Actors, Labels
  <2>2. reason' \in [Actors -> Reasons]
    BY DEF Inv, TypeOK, StartEngine, Fails, GoFor, Reasons
  <2>3. sandbox' \in Contents
    BY DEF Inv, TypeOK, StartEngine, Woken, Contents
  <2> QED BY <2>1, <2>2, <2>3 DEF Inv, TypeOK, StartEngine, Labels, Reasons, storage, bounds, history
<1>2. Course'
  BY DEF Inv, TypeOK, Course, StartEngine, Fails, Go, GoFor, storage, history, Actors
<1>3. Engines'
  BY DEF Inv, TypeOK, Engines, Course, StartEngine, Fails, Go, GoFor, storage, Actors
<1>4. Sandboxes'
  BY DEF Inv, TypeOK, Sandboxes, StartEngine, Fails, Go, GoFor, storage, history, Actors
<1>5. Records'
  BY DEF Inv, TypeOK, Records, Early, StartEngine, Fails, Go, GoFor, storage, Actors
<1> QED BY <1>1, <1>2, <1>3, <1>4, <1>5 DEF Inv

LEMMA EngineKeeps == ASSUME Inv, Engine PROVE Inv'
<1>1. TypeOK'
  <2>1. at' \in [Actors -> Labels]
    BY GoTyped DEF Inv, TypeOK, Engine, Fails, GoFor, Actors, Labels
  <2>2. reason' \in [Actors -> Reasons]
    BY DEF Inv, TypeOK, Engine, Fails, GoFor, Reasons
  <2>3. sandbox' \in Contents
    BY DEF Inv, TypeOK, Engine, Woken, Contents
  <2> QED BY <2>1, <2>2, <2>3 DEF Inv, TypeOK, Engine, Labels, Reasons, storage, bounds, history
<1>2. Course'
  BY DEF Inv, TypeOK, Course, Engine, Fails, Go, GoFor, storage, history, Actors
<1>3. Engines'
  BY DEF Inv, TypeOK, Engines, Course, Engine, Fails, Go, GoFor, storage, Actors
<1>4. Sandboxes'
  BY DEF Inv, TypeOK, Sandboxes, Engine, Fails, Go, GoFor, storage, history, Actors
<1>5. Records'
  BY DEF Inv, TypeOK, Records, Early, Engine, Fails, Go, GoFor, storage, Actors
<1> QED BY <1>1, <1>2, <1>3, <1>4, <1>5 DEF Inv

LEMMA OutputKeeps == ASSUME Inv, Output PROVE Inv'
<1>1. TypeOK'
  <2>1. at' \in [Actors -> Labels]
    BY GoTyped DEF Inv, TypeOK, Output, Fails, GoFor, Actors, Labels
  <2>2. reason' \in [Actors -> Reasons]
    BY DEF Inv, TypeOK, Output, Fails, GoFor, Reasons
  <2>3. sandbox' \in Contents
    BY DEF Inv, TypeOK, Output, Woken, Contents
  <2> QED BY <2>1, <2>2, <2>3 DEF Inv, TypeOK, Output, Labels, Reasons, storage, bounds, history
<1>2. Course'
  BY DEF Inv, TypeOK, Course, Output, Fails, Go, GoFor, storage, history, Actors
<1>3. Engines'
  BY DEF Inv, TypeOK, Engines, Course, Output, Fails, Go, GoFor, storage, Actors
<1>4. Sandboxes'
  BY DEF Inv, TypeOK, Sandboxes, Output, Fails, Go, GoFor, storage, history, Actors
<1>5. Records'
  BY DEF Inv, TypeOK, Records, Early, Output, Fails, Go, GoFor, storage, Actors
<1> QED BY <1>1, <1>2, <1>3, <1>4, <1>5 DEF Inv

LEMMA EvidenceKeeps == ASSUME Inv, Evidence PROVE Inv'
<1>1. TypeOK'
  <2>1. at' \in [Actors -> Labels]
    BY GoTyped DEF Inv, TypeOK, Evidence, Fails, GoFor, Actors, Labels
  <2>2. reason' \in [Actors -> Reasons]
    BY DEF Inv, TypeOK, Evidence, Fails, GoFor, Reasons
  <2>3. sandbox' \in Contents
    BY DEF Inv, TypeOK, Evidence, Woken, Contents
  <2> QED BY <2>1, <2>2, <2>3 DEF Inv, TypeOK, Evidence, Labels, Reasons, storage, bounds, history
<1>2. Course'
  BY DEF Inv, TypeOK, Course, Evidence, Fails, Go, GoFor, storage, history, Actors
<1>3. Engines'
  BY DEF Inv, TypeOK, Engines, Course, Evidence, Fails, Go, GoFor, storage, Actors
<1>4. Sandboxes'
  BY DEF Inv, TypeOK, Sandboxes, Evidence, Fails, Go, GoFor, storage, history, Actors
<1>5. Records'
  BY DEF Inv, TypeOK, Records, Early, Evidence, Fails, Go, GoFor, storage, Actors
<1> QED BY <1>1, <1>2, <1>3, <1>4, <1>5 DEF Inv

LEMMA StoreKeeps == ASSUME Inv, NEW o \in Outcomes, Store(o) PROVE Inv'
<1>1. TypeOK'
  BY BoundsAssumption DEF Inv, TypeOK, Store, Call, Go, GoFor, storage, history, Actors, Reasons, Receipts
<1>2. Course'
  BY DEF Inv, Course, Store, Go, GoFor, storage, history
<1>3. Engines'
  BY DEF Inv, Engines, Store, Go, GoFor, storage
<1>4. Sandboxes'
  BY DEF Inv, Sandboxes, Course, Store, Go, GoFor, storage
<1>5. Records'
  BY DEF Inv, TypeOK, Records, Early, Course, Store, Go, GoFor, storage, Actors
<1> QED BY <1>1, <1>2, <1>3, <1>4, <1>5 DEF Inv

LEMMA FinallyKeeps == ASSUME Inv, NEW o \in Outcomes, Finally(o) PROVE Inv'
<1>1. TypeOK'
  BY BoundsAssumption DEF Inv, TypeOK, Finally, Failure, Destroyed, Woken, Contents, Call, Go, GoFor, storage, history, Actors, Reasons
<1>2. Course'
  BY DEF Inv, Course, Finally, Go, GoFor, storage, history
<1>3. Engines'
  BY DEF Inv, Engines, Finally, Go, GoFor, storage
<1>4. Sandboxes'
  BY DEF Inv, TypeOK, Sandboxes, Finally, Failure, Destroyed, Woken, history, Actors, Go, GoFor, storage
<1>5. Records'
  BY DEF Inv, Records, Early, Finally, Failure, Go, GoFor, storage
<1> QED BY <1>1, <1>2, <1>3, <1>4, <1>5 DEF Inv

LEMMA EndRunKeeps == ASSUME Inv, EndRun PROVE Inv'
<1>1. TypeOK'
  BY DEF Inv, TypeOK, EndRun, Go, GoFor, world, bounds, history, Reasons
<1>2. Course'
  BY DEF Inv, TypeOK, Course, EndRun, Go, GoFor, history, Actors
<1>3. Engines'
  BY DEF Inv, Engines, EndRun, Go, GoFor
<1>4. Sandboxes'
  BY DEF Inv, Sandboxes, EndRun, Go, GoFor, world, history
<1>5. Records'
  BY DEF Inv, Records, Early, EndRun, Go, GoFor, world
<1> QED BY <1>1, <1>2, <1>3, <1>4, <1>5 DEF Inv

LEMMA RecordStatusKeeps == ASSUME Inv, NEW a \in Actors, NEW o \in Outcomes, RecordStatus(a, o) PROVE Inv'
<1>1. TypeOK'
  <2>1. faults' \in 0..MaxFaults
    BY CallTyped DEF Inv, RecordStatus
  <2>2. /\ at' \in [Actors -> Labels] /\ reason' \in [Actors -> Reasons]
        /\ alarm' \in BOOLEAN /\ output' \in {"none", "publishable", "unusable"} /\ stranded' \in BOOLEAN
    BY GoOrThrownTyped DEF Inv, Labels, RecordStatus
  <2>3. status' \in Reasons \union {"reviewing", "observed"} /\ reported' \in BOOLEAN
    BY DEF Inv, TypeOK, RecordStatus
  <2> QED BY <2>1, <2>2, <2>3 DEF Inv, TypeOK, RecordStatus, Labels
<1>2. Course'
  BY DEF Inv, TypeOK, Course, RecordStatus, Go, Thrown, Actors
<1>3. Engines'
  BY DEF Inv, TypeOK, Engines, RecordStatus, Go, Thrown, Actors
<1>4. Sandboxes'
  BY DEF Inv, TypeOK, Sandboxes, RecordStatus, Go, Thrown, Actors
<1>5. Records'
  BY DEF Inv, TypeOK, Records, Early, RecordStatus, Go, Thrown, Actors
<1> QED BY <1>1, <1>2, <1>3, <1>4, <1>5 DEF Inv

LEMMA HeadKeeps == ASSUME Inv, NEW a \in Actors, NEW o \in {"ok", "down"}, Head(a, o) PROVE Inv'
<1>1. TypeOK'
  <2>1. faults' \in 0..MaxFaults
    BY CallTyped DEF Inv, Head
  <2>2. /\ at' \in [Actors -> Labels] /\ reason' \in [Actors -> Reasons]
        /\ alarm' \in BOOLEAN /\ output' \in {"none", "publishable", "unusable"} /\ stranded' \in BOOLEAN
    BY GoOrThrownTyped DEF Inv, Labels, Head
  <2>3. UNCHANGED <<review, state, sandbox, receipt, status, engines, starts, cancels, cancelled, reported>>
    BY DEF Head, world
  <2> QED BY <2>1, <2>2, <2>3 DEF Inv, TypeOK, Labels
<1>2. Course'
  BY DEF Inv, TypeOK, Course, Head, Go, Thrown, world, history, Actors
<1>3. Engines'
  BY DEF Inv, TypeOK, Engines, Head, Go, Thrown, Actors
<1>4. Sandboxes'
  BY DEF Inv, TypeOK, Sandboxes, Head, Go, Thrown, world, history, Actors
<1>5. Records'
  BY DEF Inv, TypeOK, Records, Early, Head, Unrecorded, Go, Thrown, world, Actors
<1> QED BY <1>1, <1>2, <1>3, <1>4, <1>5 DEF Inv

LEMMA PutKeeps == ASSUME Inv, NEW a \in Actors, NEW o \in Outcomes, Put(a, o) PROVE Inv'
<1>1. TypeOK'
  <2>1. faults' \in 0..MaxFaults
    BY CallTyped DEF Inv, Put
  <2>2. /\ at' \in [Actors -> Labels] /\ reason' \in [Actors -> Reasons]
        /\ alarm' \in BOOLEAN /\ output' \in {"none", "publishable", "unusable"} /\ stranded' \in BOOLEAN
    BY GoOrThrownTyped DEF Inv, Labels, Put
  <2>3. receipt' \in Receipts \union {"none"}
    BY DEF Inv, TypeOK, Put, Recorded, Receipts
  <2> QED BY <2>1, <2>2, <2>3 DEF Inv, TypeOK, Put, Labels, history
<1>2. Course'
  BY DEF Inv, TypeOK, Course, Put, Go, Thrown, history, Actors
<1>3. Engines'
  BY DEF Inv, TypeOK, Engines, Put, Go, Thrown, Actors
<1>4. Sandboxes'
  BY DEF Inv, TypeOK, Sandboxes, Put, Go, Thrown, history, Actors
<1>5. Records'
  BY DEF Inv, TypeOK, Records, Early, Course, Put, Recorded, Go, Thrown, Actors
<1> QED BY <1>1, <1>2, <1>3, <1>4, <1>5 DEF Inv

LEMMA CancelKeeps == ASSUME Inv, Cancel PROVE Inv'
<1>1. TypeOK'
  <2>1. at' \in [Actors -> Labels]
    BY GoTyped DEF Inv, Cancel, Labels, Actors
  <2>2. cancels' \in 0..MaxCancels
    BY BoundsAssumption DEF Inv, TypeOK, Cancel
  <2> QED BY <2>1, <2>2 DEF Inv, TypeOK, Cancel, Labels, world
<1>2. Course'
  BY DEF Inv, Course, Cancel, Go
<1>3. Engines'
  BY DEF Inv, Engines, Cancel, Go
<1>4. Sandboxes'
  BY DEF Inv, Sandboxes, Cancel, Go, world
<1>5. Records'
  BY DEF Inv, Records, Early, Cancel, Go, world
<1> QED BY <1>1, <1>2, <1>3, <1>4, <1>5 DEF Inv

LEMMA CancelDestroyKeeps == ASSUME Inv, NEW o \in Outcomes, CancelDestroy(o) PROVE Inv'
<1>1. TypeOK'
  BY BoundsAssumption DEF Inv, TypeOK, CancelDestroy, Destroyed, Contents, Call, Go, GoFor, history, Reasons
<1>2. Course'
  BY DEF Inv, TypeOK, Course, CancelDestroy, Go, history, Actors
<1>3. Engines'
  BY DEF Inv, TypeOK, Engines, CancelDestroy, Go, GoFor, Actors
<1>4. Sandboxes'
  BY DEF Inv, TypeOK, Sandboxes, CancelDestroy, Destroyed, Go, GoFor, history, Actors
<1>5. Records'
  BY DEF Inv, TypeOK, Records, Early, CancelDestroy, Go, GoFor, Actors
<1> QED BY <1>1, <1>2, <1>3, <1>4, <1>5 DEF Inv

LEMMA EndCancelKeeps == ASSUME Inv, EndCancel PROVE Inv'
<1>1. TypeOK'
  BY DEF Inv, TypeOK, EndCancel, Go, GoFor, storage, world, bounds, history, Actors, Reasons
<1>2. Course'
  BY DEF Inv, Course, EndCancel, Go, GoFor, storage, world, history
<1>3. Engines'
  BY DEF Inv, Engines, EndCancel, Go, GoFor, storage
<1>4. Sandboxes'
  BY DEF Inv, Sandboxes, Course, EndCancel, Go, GoFor, world, history
<1>5. Records'
  BY DEF Inv, Records, Early, EndCancel, Go, GoFor, storage, world
<1> QED BY <1>1, <1>2, <1>3, <1>4, <1>5 DEF Inv

LEMMA CrashKeeps == ASSUME Inv, Crash PROVE Inv'
<1>1. TypeOK'
  <2>1. faults' \in 0..MaxFaults
    BY CallTyped DEF Inv, Crash
  <2>2. alarm' \in BOOLEAN
    BY DEF Inv, TypeOK, Crash
  <2>3. at' \in [Actors -> Labels] /\ reason' \in [Actors -> Reasons]
    BY DEF Crash, Labels, Reasons
  <2> QED BY <2>1, <2>2, <2>3 DEF Inv, TypeOK, Crash, world, history
<1>2. Course'
  BY DEF Inv, Course, Crash, Actors
<1>3. Engines'
  BY DEF Inv, Engines, Crash, Actors
<1>4. Sandboxes'
  BY DEF Inv, Sandboxes, Crash, world, history, Actors
<1>5. Records'
  BY DEF Inv, Records, Early, Crash, world, Actors
<1> QED BY <1>1, <1>2, <1>3, <1>4, <1>5 DEF Inv

LEMMA InitHolds == Init => Inv
<1> SUFFICES ASSUME Init PROVE Inv
  OBVIOUS
<1>1. \A a \in Actors : at[a] = "idle" /\ reason[a] = "none"
  BY DEF Init
<1>2. at["run"] = "idle" /\ at["cancel"] = "idle" /\ reason["run"] = "none"
  BY <1>1 DEF Actors
<1>3. reason \in [Actors -> Reasons]
  BY DEF Init, Reasons
<1>4. at \in [Actors -> Labels]
  BY DEF Init, Labels
<1>5. faults \in 0..MaxFaults /\ starts \in 0..MaxStarts /\ cancels \in 0..MaxCancels
  BY BoundsAssumption DEF Init
<1>6. TypeOK
  BY <1>3, <1>4, <1>5 DEF Init, TypeOK, Reasons, Labels, Contents
<1>7. Course /\ Engines /\ Sandboxes /\ Records
  BY <1>2 DEF Init, Course, Engines, Sandboxes, Records
<1> QED BY <1>6, <1>7 DEF Inv

LEMMA NextKeeps == Inv /\ [Next]_vars => Inv'
<1> SUFFICES ASSUME Inv, [Next]_vars PROVE Inv'
  OBVIOUS
<1>1. CASE UNCHANGED vars
  BY <1>1 DEF vars, storage, world, bounds, history, Inv, TypeOK, Course, Engines, Sandboxes, Records
<1>2. CASE RunStep
  BY <1>2, RestartKeeps, RestartHeadKeeps, FinallyKeeps, SetupKeeps, CloneKeeps, LanesKeeps, StartEngineKeeps,
     EngineKeeps, OutputKeeps, StoreKeeps, EvidenceKeeps, EndRunKeeps
  DEF RunStep, Outcomes
<1>3. CASE CancelStep
  BY <1>3, CancelDestroyKeeps, EndCancelKeeps DEF CancelStep
<1>4. ASSUME NEW a \in Actors, FinishStep(a) PROVE Inv'
  BY <1>4, RecordStatusKeeps, PutKeeps, HeadKeeps DEF FinishStep
<1> QED BY <1>1, <1>2, <1>3, <1>4, StartKeeps, AlarmFiresKeeps, CancelKeeps, CrashKeeps DEF Next

LEMMA Invariant == Spec => []Inv
BY InitHolds, NextKeeps, PTL DEF Spec

-----------------------------------------------------------------------------
(* The refinement of JobPromise. *)

St == IF ~review THEN "none"
      ELSE IF state # "none" THEN state
      ELSE IF alarm THEN "scheduled" ELSE "parked"

LEMMA Stutters ==
  ASSUME St' = St, UNCHANGED <<receipt, cancelled>>
  PROVE  [Promise!Next]_(Promise!vars)
BY DEF St, Promise!vars

\* A receipt is the first one, or that of a job that was cancelled.
LEMMA Writes ==
  ASSUME Inv, UNCHANGED <<review, state, cancelled>>, alarm' = alarm \/ state # "none", receipt' \in Receipts,
         state # "none", state # "done" => receipt = "none", state = "done" => cancelled
  PROVE  [Promise!Next]_(Promise!vars)
<1>1. St = state /\ St' = St /\ state \in {"running", "done"}
  BY DEF St, Inv, TypeOK, Course
<1> QED BY <1>1 DEF Promise!Next, Promise!Record, Promise!Overwrite, St

LEMMA StartMaps == ASSUME Inv, Start PROVE [Promise!Next]_(Promise!vars)
<1>1. UNCHANGED <<receipt, cancelled>> /\ (St' = St \/ (St \in {"none", "parked"} /\ St' = "scheduled"))
  BY DEF Start, history, St, Inv, Course
<1> QED BY <1>1, Stutters DEF Promise!Next, Promise!Start, St

LEMMA AlarmFiresMaps == ASSUME Inv, AlarmFires PROVE [Promise!Next]_(Promise!vars)
<1>1. UNCHANGED <<receipt, cancelled>> /\ (St' = St \/ (St = "scheduled" /\ St' = "running"))
  BY DEF AlarmFires, Interrupted, world, history, St, Inv, TypeOK
<1> QED BY <1>1, Stutters DEF Promise!Next, Promise!Begin, St

LEMMA CancelMaps == ASSUME Inv, Cancel PROVE [Promise!Next]_(Promise!vars)
<1>1. /\ cancelled' = TRUE /\ receipt' = receipt /\ St \notin {"none", "done"}
      /\ St' = St \/ (St = "scheduled" /\ St' = "parked")
  BY DEF Cancel, world, St
<1> QED BY <1>1 DEF Promise!Next, Promise!Cancel, St

LEMMA CancelDestroyMaps ==
  ASSUME Inv, NEW o \in Outcomes, CancelDestroy(o) PROVE [Promise!Next]_(Promise!vars)
<1>1. cancelled = TRUE /\ cancelled' = TRUE /\ review /\ St # "none"
  BY DEF CancelDestroy, history, St, Inv, Course
<1>2. receipt' = receipt /\ (St' = St \/ St' = "done")
  BY <1>1 DEF CancelDestroy, St
<1>3. CASE St' = St
  BY <1>1, <1>2, <1>3, Stutters
<1>4. CASE St' = "done" /\ St # "done"
  BY <1>1, <1>2, <1>4 DEF Promise!Next, Promise!Cancel, St
<1> QED BY <1>2, <1>3, <1>4

LEMMA CrashMaps == ASSUME Inv, Crash PROVE [Promise!Next]_(Promise!vars)
<1>1. UNCHANGED <<receipt, cancelled, review, state>> /\ (alarm' = alarm \/ state # "none")
  BY DEF Crash, world, history, Inv, Course
<1> QED BY <1>1, Stutters DEF St

\* The steps of the run that write no receipt.
LEMMA RunMaps ==
  ASSUME Inv,
         \/ Setup \/ Clone \/ Lanes \/ StartEngine \/ Engine \/ Output \/ Evidence
         \/ \E o \in Outcomes : Restart(o) \/ RestartHead(o) \/ Finally(o)
  PROVE  [Promise!Next]_(Promise!vars)
<1>1. at["run"] # "idle" /\ UNCHANGED <<receipt, cancelled, review, state>>
  BY DEF Setup, Clone, Lanes, StartEngine, Engine, Output, Evidence, Restart, RestartHead, Finally, storage,
         world, history
<1>2. state # "none"
  BY <1>1 DEF Inv, Course
<1> QED BY <1>1, <1>2, Stutters DEF St

LEMMA StoreMaps == ASSUME Inv, NEW o \in Outcomes, Store(o) PROVE [Promise!Next]_(Promise!vars)
<1>1. /\ at["run"] = "store" /\ UNCHANGED <<cancelled, review, state, alarm>>
      /\ receipt' = receipt \/ receipt' = output
  BY DEF Store, storage, history
<1>2. output \in Receipts
  BY <1>1 DEF Inv, TypeOK, Records, Early, Receipts
<1>3. state # "none" /\ (state # "done" => receipt = "none") /\ (state = "done" => cancelled)
  BY <1>1 DEF Inv, Course, Records, Early
<1>4. CASE receipt' = receipt
  BY <1>1, <1>4, Stutters DEF St
<1>5. CASE receipt' = output
  BY <1>1, <1>2, <1>3, <1>5, Writes
<1> QED BY <1>1, <1>4, <1>5

LEMMA EndRunMaps == ASSUME Inv, EndRun PROVE [Promise!Next]_(Promise!vars)
<1>1. /\ at["run"] = "end" /\ state' = "done" /\ UNCHANGED <<receipt, cancelled, review>>
  BY DEF EndRun, world, history
<1>2. receipt # "none" /\ review /\ state \in {"running", "done"}
  BY <1>1 DEF Inv, TypeOK, Course, Records
<1>3. St \in {"running", "done"} /\ St' = "done"
  BY <1>1, <1>2 DEF St
<1> QED BY <1>1, <1>2, <1>3, Stutters DEF Promise!Next, Promise!End, St

LEMMA FinishMaps == ASSUME Inv, NEW a \in Actors, FinishStep(a) PROVE [Promise!Next]_(Promise!vars)
<1>1. at[a] \in {"status", "head", "put"} /\ UNCHANGED <<cancelled, review, state>>
      /\ (alarm' = alarm \/ at["run"] # "idle")
  BY DEF FinishStep, RecordStatus, Head, Put, Thrown, history
<1>2. state # "none" /\ (state = "done" => cancelled)
  BY <1>1 DEF Inv, Course, Actors
<1>3. ASSUME receipt' = receipt PROVE [Promise!Next]_(Promise!vars)
  BY <1>1, <1>2, <1>3, Stutters DEF St
<1>4. ASSUME NEW o \in Outcomes, Put(a, o), receipt' # receipt PROVE [Promise!Next]_(Promise!vars)
  <2>1. receipt' = Recorded(a) /\ at[a] = "put"
    BY <1>4 DEF Put
  <2>2. receipt' \in Receipts
    BY <2>1 DEF Recorded, Receipts, Inv, TypeOK
  <2>3. state # "done" => receipt = "none"
    BY <2>1 DEF Inv, Course, Records, Actors
  <2> QED BY <1>1, <1>2, <2>2, <2>3, Writes
<1>5. ASSUME NEW o \in Outcomes, RecordStatus(a, o) \/ Head(a, o) PROVE receipt' = receipt
  BY <1>5 DEF RecordStatus, Head, world
<1> QED BY <1>3, <1>4, <1>5 DEF FinishStep, Outcomes

LEMMA EndCancelMaps == ASSUME EndCancel PROVE [Promise!Next]_(Promise!vars)
BY Stutters DEF EndCancel, storage, world, history, St

LEMMA Maps == Inv /\ [Next]_vars => [Promise!Next]_(Promise!vars)
<1> SUFFICES ASSUME Inv, [Next]_vars PROVE [Promise!Next]_(Promise!vars)
  OBVIOUS
<1>1. CASE UNCHANGED vars
  BY <1>1, Stutters DEF vars, storage, world, history, St
<1>2. CASE RunStep
  BY <1>2, RunMaps, StoreMaps, EndRunMaps DEF RunStep, Outcomes
<1>3. CASE CancelStep
  BY <1>3, CancelDestroyMaps, EndCancelMaps DEF CancelStep
<1> QED BY <1>1, <1>2, <1>3, StartMaps, AlarmFiresMaps, CancelMaps, CrashMaps, FinishMaps DEF Next

LEMMA InitMaps == Init => Promise!Init
BY DEF Init, Promise!Init

-----------------------------------------------------------------------------
(* The results. *)

\* However often start() is repeated, the alarm redelivered and the review cancelled, the
\* engine starts at most once, and a sandbox that outlives a finished job was recorded, or
\* is that of a cancelled run that was cut short
\* (ReviewJob.alarm, runCloudReview, ReviewJob.cancel).
THEOREM RunsOnce == Spec => []RunIsAccounted
<1>1. Inv => RunIsAccounted
  BY DEF Inv, Engines, Sandboxes, RunIsAccounted, OneEngine, SandboxAccounted
<1> QED BY <1>1, Invariant, PTL

\* What the pull request's object assumes of its job (JobPromise), the job does:
\* every step of ReviewJob is one of the promise's or changes nothing of it.
THEOREM PromiseKept == Spec => ImplementsPromise
<1>1. Spec => Promise!Spec
  BY InitMaps, Maps, Invariant, PTL DEF Spec, Promise!Spec
<1> QED BY <1>1 DEF ImplementsPromise
===============================================================================
