------------------------------ MODULE ReviewJob ------------------------------
(***************************************************************************)
(* One ReviewJob object (worker.ts): the alarm that runs a cloud review in *)
(* a sandbox and leaves its receipt in R2, and the cancel RPC that may     *)
(* arrive at any await of it.  The alarm's code and the cancel's code both *)
(* go through finishReview; they are the actors "run" and "cancel".        *)
(*                                                                         *)
(* A call's outcome is ok, lost (it was applied, the caller saw an error)  *)
(* or down (it was not).  A sandbox is known by its name: one that was     *)
(* destroyed comes up again, with nothing in it, at the next call.         *)
(*                                                                         *)
(* ThrownAway, AlwaysUnrecorded and IgnoredTeardown are faulty variants of *)
(* the definition each precedes, against which the properties are tested;  *)
(* no action uses them.                                                    *)
(***************************************************************************)
EXTENDS Naturals

CONSTANTS MaxFaults,  \* bound: failing calls, failed destroys and crashes
          MaxStarts,  \* bound: start() calls
          MaxCancels  \* bound: cancel() calls

ASSUME BoundsAssumption == {MaxFaults, MaxStarts, MaxCancels} \subseteq Nat

Actors   == {"run", "cancel"}
Receipts == {"publishable", "lost", "unusable"}
\* Why a review failed: the platform took its run away, or anything else.
Reasons  == {"none", "platform", "other", "interrupted", "destroy_failed", "undestroyed",
             "superseded"}
\* What a sandbox that is up has in it: nothing, the run's directory, the clone, the
\* engine and its files.
Contents == {"down", "bare", "ready", "cloned", "engine"}

VARIABLES
  \* storage of the object
  review, state, alarm,
  \* memory of its two activities: where each is, and the failure it records
  at, reason, output,
  \* the world
  sandbox, receipt, status,
  engines, faults, starts, cancels,
  \* history: a cancel got past its early return; a failure was recorded while
  \* the sandbox was still up; a run was cut short after its cancel had ended
  cancelled, reported, stranded

storage == <<review, state, alarm>>
world   == <<sandbox, receipt, status>>
bounds  == <<faults, starts, cancels>>
history == <<cancelled, reported, stranded>>
vars == <<storage, at, reason, output, world, engines, bounds, history>>

Init ==
  /\ review = FALSE /\ state = "none" /\ alarm = FALSE
  /\ at = [a \in Actors |-> "idle"]
  /\ reason = [a \in Actors |-> "none"] /\ output = "none"
  /\ sandbox = "down" /\ receipt = "none" /\ status = "none"
  /\ engines = 0 /\ faults = 0 /\ starts = 0 /\ cancels = 0
  /\ cancelled = FALSE /\ reported = FALSE /\ stranded = FALSE

Call(o) == IF o = "ok" THEN UNCHANGED faults
           ELSE faults < MaxFaults /\ faults' = faults + 1

Go(a, label) == at' = [at EXCEPT ![a] = label]
GoFor(a, label, why) == Go(a, label) /\ reason' = [reason EXCEPT ![a] = why]
Fails(label) == \E why \in {"platform", "other"} : GoFor("run", label, why)

\* getSandbox(): a call brings a sandbox up that is not.
Woken == IF sandbox = "down" THEN "bare" ELSE sandbox

\* destroySandbox(): what was destroyed but not acknowledged is gone all the same.
Destroyed(o) == sandbox' = IF o = "down" THEN sandbox ELSE "down"

\* startReview(): the initial status, then ReviewJob.start().
Start ==
  /\ starts < MaxStarts /\ starts' = starts + 1
  /\ status' = "reviewing"
  /\ review' = TRUE /\ alarm' = TRUE
  /\ UNCHANGED <<state, at, reason, output, sandbox, receipt, engines, faults,
                 cancels, history>>

-----------------------------------------------------------------------------
(* alarm() *)

Interrupted == state = "running"

AlarmFires ==
  /\ alarm /\ at["run"] = "idle"
  /\ alarm' = FALSE
  /\ IF ~review \/ state = "done" THEN UNCHANGED <<state, at>>
     ELSE IF Interrupted THEN Go("run", "restart") /\ UNCHANGED state
     ELSE Go("run", "setup") /\ state' = "running"
  /\ UNCHANGED <<review, reason, output, world, engines, bounds, history>>

\* A run that was interrupted: its sandbox goes, and a receipt it left stays.
Restart(o) ==
  /\ at["run"] = "restart"
  /\ Call(o)
  /\ Destroyed(o)
  /\ GoFor("run", "restartHead", IF o = "ok" THEN "interrupted" ELSE "destroy_failed")
  /\ UNCHANGED <<storage, output, receipt, status, engines, starts, cancels, history>>

ThrownAway(a) ==
  /\ at' = [at EXCEPT ![a] = "idle"] /\ reason' = [reason EXCEPT ![a] = "none"]
  /\ output' = "none" /\ UNCHANGED <<alarm, stranded>>

\* An exception out of alarm() brings the alarm back; out of cancel(), the
\* caller.  After cancel()'s deleteAlarm the platform may not bring it back.
Thrown(a) ==
  /\ at' = [at EXCEPT ![a] = "idle"] /\ reason' = [reason EXCEPT ![a] = "none"]
  /\ IF a = "run"
     THEN /\ alarm' = TRUE \/ (cancelled /\ UNCHANGED alarm)
          /\ output' = "none" /\ stranded' = (stranded \/ state = "done")
     ELSE UNCHANGED <<alarm, output, stranded>>

AlwaysUnrecorded == TRUE

\* A receipt in R2 is not written again.
Unrecorded == receipt = "none"

RestartHead(o) ==
  /\ at["run"] = "restartHead"
  /\ Call(o)
  /\ IF o = "ok"
     THEN /\ Go("run", IF Unrecorded \/ reason["run"] = "destroy_failed"
                      THEN "status" ELSE "end")
          /\ UNCHANGED <<alarm, reason, output, stranded>>
     ELSE Thrown("run")
  /\ UNCHANGED <<review, state, world, engines, starts, cancels, cancelled, reported>>

\* runCloudReview() up to the clone: the fingerprint and the run's directory.  No
\* step of the run looks whether the job was cancelled.
Setup ==
  /\ at["run"] = "setup"
  /\ \/ sandbox' = "ready" /\ Go("run", "clone") /\ UNCHANGED reason
     \/ sandbox' \in {sandbox, Woken, "ready"} /\ Fails("finally")
  /\ UNCHANGED <<storage, output, receipt, status, engines, bounds, history>>

Clone ==
  /\ at["run"] = "clone"
  /\ \/ /\ sandbox = "ready" /\ sandbox' = "cloned"
        /\ Go("run", "lanes") /\ UNCHANGED reason
     \/ sandbox' \in {sandbox, Woken} /\ Fails("finally")
  /\ UNCHANGED <<storage, output, receipt, status, engines, bounds, history>>

\* The lanes' directories, settings and model sessions.
Lanes ==
  /\ at["run"] = "lanes"
  /\ \/ sandbox' = Woken /\ Go("run", "start") /\ UNCHANGED reason
     \/ sandbox' \in {sandbox, Woken} /\ Fails("finally")
  /\ UNCHANGED <<storage, output, receipt, status, engines, bounds, history>>

\* startProcess(): without a clone to change to, the process ends at once.
StartEngine ==
  /\ at["run"] = "start"
  /\ \/ /\ sandbox = "cloned" /\ sandbox' = "engine" /\ engines' = engines + 1
        /\ \/ Go("run", "engine") /\ UNCHANGED reason
           \/ Fails("evidence")
     \/ /\ sandbox # "cloned" /\ sandbox' = Woken /\ UNCHANGED engines
        /\ Go("run", "engine") /\ UNCHANGED reason
     \/ sandbox' \in {sandbox, Woken} /\ UNCHANGED engines /\ Fails("evidence")
  /\ UNCHANGED <<storage, output, receipt, status, bounds, history>>

\* One round of the polling loop: the engine's status file goes to R2.
Engine ==
  /\ at["run"] = "engine"
  /\ \/ /\ sandbox = "engine" /\ status' = "observed"
        /\ (UNCHANGED at \/ Go("run", "output"))
        /\ UNCHANGED <<sandbox, reason>>
     \/ sandbox' \in {sandbox, Woken} /\ Fails("evidence") /\ UNCHANGED status
  /\ UNCHANGED <<storage, output, receipt, engines, bounds, history>>

\* The receipt file, read out of the sandbox.
Output ==
  /\ at["run"] = "output"
  /\ \/ /\ sandbox = "engine" /\ output' \in {"publishable", "unusable"}
        /\ Go("run", "store") /\ UNCHANGED <<sandbox, reason>>
     \/ sandbox' \in {sandbox, Woken} /\ Fails("evidence") /\ UNCHANGED output
  /\ UNCHANGED <<storage, receipt, status, engines, bounds, history>>

Store(o) ==
  /\ at["run"] = "store"
  /\ Call(o)
  /\ receipt' = IF o = "down" THEN receipt ELSE output
  /\ GoFor("run", "evidence", IF o = "ok" THEN "none" ELSE "other")
  /\ UNCHANGED <<storage, output, sandbox, status, engines, starts, cancels, history>>

\* storeEvidence(), once the engine was asked to start; what fails of it is dropped.
Evidence ==
  /\ at["run"] = "evidence"
  /\ sandbox' \in {sandbox, Woken} /\ Go("run", "finally")
  /\ UNCHANGED <<storage, reason, output, receipt, status, engines, bounds, history>>

IgnoredTeardown(o) == reason["run"]

\* The end of the finally clause: the model sessions are cleared, which may bring the
\* sandbox up, and it is destroyed; a failure to is recorded after whatever failed
\* before it.
Failure(o) == IF o = "ok" \/ reason["run"] = "platform" THEN reason["run"]
              ELSE "undestroyed"

Finally(o) ==
  /\ at["run"] = "finally"
  /\ Call(o)
  /\ Destroyed(o) \/ (o = "down" /\ sandbox' = Woken)
  /\ GoFor("run", IF Failure(o) = "none" THEN "end" ELSE "status", Failure(o))
  /\ UNCHANGED <<storage, output, receipt, status, engines, starts, cancels, history>>

EndRun ==
  /\ at["run"] = "end"
  /\ state' = "done"
  /\ GoFor("run", "idle", "none") /\ output' = "none"
  /\ UNCHANGED <<review, alarm, world, engines, bounds, history>>

-----------------------------------------------------------------------------
(* finishReview(), for the run and for the cancel *)

RecordStatus(a, o) ==
  /\ at[a] = "status"
  /\ Call(o)
  /\ status' = IF o = "down" THEN status ELSE reason[a]
  /\ reported' = (reported \/ (o # "down" /\ sandbox # "down" /\ reason[a] # "superseded"))
  /\ IF o = "ok" THEN Go(a, "head") /\ UNCHANGED <<alarm, reason, output, stranded>>
     ELSE Thrown(a)
  /\ UNCHANGED <<review, state, sandbox, receipt, engines, starts, cancels, cancelled>>

Head(a, o) ==
  /\ at[a] = "head"
  /\ Call(o)
  /\ IF o = "ok"
     THEN /\ Go(a, IF Unrecorded THEN "put" ELSE "end")
          /\ UNCHANGED <<alarm, reason, output, stranded>>
     ELSE Thrown(a)
  /\ UNCHANGED <<review, state, world, engines, starts, cancels, cancelled, reported>>

\* The run's own receipt, if it read one; otherwise a failed one, which names the
\* reason: a failure to destroy the sandbox is told in words of its own when it
\* follows a run (lostToPlatform).
Recorded(a) ==
  IF a = "run" /\ output # "none" THEN output
  ELSE IF reason[a] \in {"platform", "interrupted", "destroy_failed"} THEN "lost"
       ELSE "unusable"

Put(a, o) ==
  /\ at[a] = "put"
  /\ Call(o)
  /\ receipt' = IF o = "down" THEN receipt ELSE Recorded(a)
  /\ IF o = "ok" THEN Go(a, "end") /\ UNCHANGED <<alarm, reason, output, stranded>>
     ELSE Thrown(a)
  /\ UNCHANGED <<review, state, sandbox, status, engines, starts, cancels, cancelled,
                 reported>>

-----------------------------------------------------------------------------
(* cancel() *)

\* Without a review, or with a finished one, there is nothing to cancel.
Cancel ==
  /\ at["cancel"] = "idle" /\ cancels < MaxCancels /\ cancels' = cancels + 1
  /\ review /\ state # "done"
  /\ alarm' = FALSE /\ cancelled' = TRUE
  /\ Go("cancel", "destroy")
  /\ UNCHANGED <<review, state, reason, output, world, engines, faults, starts, reported,
                 stranded>>

CancelDestroy(o) ==
  /\ at["cancel"] = "destroy"
  /\ Call(o)
  /\ Destroyed(o)
  /\ IF o = "ok"
     THEN state' = "done" /\ GoFor("cancel", "status", "superseded")
     ELSE Go("cancel", "idle") /\ UNCHANGED <<state, reason>>
  /\ UNCHANGED <<review, alarm, output, receipt, status, engines, starts, cancels, history>>

EndCancel ==
  /\ at["cancel"] = "end"
  /\ GoFor("cancel", "idle", "none")
  /\ UNCHANGED <<storage, output, world, engines, bounds, history>>

\* The object loses both activities; a running alarm is delivered again.
Crash ==
  /\ \E a \in Actors : at[a] # "idle"
  /\ Call("down")
  /\ at' = [a \in Actors |-> "idle"] /\ reason' = [a \in Actors |-> "none"]
  /\ output' = "none"
  /\ \/ at["run"] # "idle" /\ alarm' = TRUE
     \/ (at["run"] = "idle" \/ cancelled) /\ UNCHANGED alarm
  /\ stranded' = (stranded \/ (at["run"] # "idle" /\ state = "done"))
  /\ UNCHANGED <<review, state, world, engines, starts, cancels, cancelled, reported>>

-----------------------------------------------------------------------------
Outcomes == {"ok", "lost", "down"}

RunStep == \/ \E o \in Outcomes : Restart(o) \/ Store(o) \/ Finally(o)
           \/ \E o \in {"ok", "down"} : RestartHead(o)
           \/ Setup \/ Clone \/ Lanes \/ StartEngine \/ Engine \/ Output \/ Evidence
           \/ EndRun

FinishStep(a) == \/ \E o \in Outcomes : RecordStatus(a, o) \/ Put(a, o)
                 \/ \E o \in {"ok", "down"} : Head(a, o)

CancelStep == \/ \E o \in Outcomes : CancelDestroy(o)
              \/ EndCancel

Next == \/ Start \/ AlarmFires \/ RunStep \/ Cancel \/ CancelStep \/ Crash
        \/ \E a \in Actors : FinishStep(a)

Spec == Init /\ [][Next]_vars

(***************************************************************************)
(* A set alarm fires, an await ends, and the engine ends: it runs under a  *)
(* deadline that each of its steps checks.                                 *)
(***************************************************************************)
EngineEnds == Engine /\ at["run"]' # "engine"

Fairness == /\ WF_vars(AlarmFires) /\ WF_vars(RunStep) /\ WF_vars(EngineEnds)
            /\ WF_vars(FinishStep("run")) /\ WF_vars(FinishStep("cancel"))
            /\ WF_vars(CancelStep)

FairSpec == Spec /\ Fairness

-----------------------------------------------------------------------------
(* Properties *)

\* Every variable has its type: the object's storage, where its two activities are
\* and what they leave in R2 (ReviewJob, finishReview).
TypeOK ==
  /\ review \in BOOLEAN /\ state \in {"none", "running", "done"} /\ alarm \in BOOLEAN
  /\ at \in [Actors -> {"idle", "restart", "restartHead", "setup", "clone", "lanes", "start",
                        "engine", "output", "store", "evidence", "finally", "status", "head",
                        "put", "end", "destroy"}]
  /\ reason \in [Actors -> Reasons]
  /\ output \in {"none", "publishable", "unusable"}
  /\ sandbox \in Contents
  /\ receipt \in Receipts \union {"none"}
  /\ status \in Reasons \union {"reviewing", "observed"}
  /\ engines \in Nat /\ faults \in 0..MaxFaults
  /\ starts \in 0..MaxStarts /\ cancels \in 0..MaxCancels
  /\ {cancelled, reported, stranded} \subseteq BOOLEAN

OneEngine == engines <= 1

SandboxAccounted ==
  state = "done" /\ sandbox # "down" => at["run"] # "idle" \/ reported \/ stranded

\* However often start() is repeated, the alarm redelivered and the review
\* cancelled, the engine, and the model budget it spends, starts at most once, and a
\* sandbox that a cancelled run brings up again goes with that run: one outlives a
\* finished job only if the failure to destroy it was recorded, or if its run was cut
\* short after the cancel (ReviewJob.alarm, runCloudReview, ReviewJob.cancel).
RunIsAccounted == TypeOK /\ OneEngine /\ SandboxAccounted

\* A job that nobody cancels ends, and then its receipt is there to be read: a
\* failed or expired review records a failed one (README.md, runCloudReview).
JobEnds == review ~> (cancelled \/ (state = "done" /\ receipt # "none"))

Promise == INSTANCE JobPromise WITH
  st <- IF ~review THEN "none"
        ELSE IF state # "none" THEN state
        ELSE IF alarm THEN "scheduled" ELSE "parked"

\* The job keeps what the object that started it relies on: one run, and a receipt
\* that is there when it is done and stays (JobPromise).
ImplementsPromise == Promise!Spec
=============================================================================
