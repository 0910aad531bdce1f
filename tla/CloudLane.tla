------------------------------- MODULE CloudLane -------------------------------
(***************************************************************************)
(* A lane of the cloud engine: its driver (main of src/drive.ts), the      *)
(* Worker's control API it calls (the /runs routes of worker.ts), and the  *)
(* sandbox of one run, which keeps LanePromise.                            *)
(*                                                                         *)
(* The driver sees the lane only through GET state: first the artifacts,   *)
(* then the processes, each of which may be unreadable, and it works on    *)
(* that picture through every command of the pass.  A request may be lost  *)
(* before or after it took effect.  POST /runs is a handler of its own     *)
(* that a driver which stopped waiting does not stop.                      *)
(*                                                                         *)
(* TrustsEmptyList, AnyEndIsWhole and WaitsForLane are faulty variants of  *)
(* the definition each precedes; no action uses them.                      *)
(***************************************************************************)
EXTENDS LanePromise, Naturals

CONSTANT MaxCorrections    \* MAX_FORMAT_CORRECTIONS
ASSUME CorrectionsAssumption == MaxCorrections \in Nat

Pass == {"list", "judge", "brief", "cand", "finalize", "cancel", "gone"}
Busy == {"start", "look"} \union Pass
Cleaning == {"stop", "receipt"}

\* Why a run is over, if not in order.
Errors == {"lost", "failure", "brief", "contract", "grace", "no report", "late", "interrupted"}

Drivers ==
  [pc : Busy \union Cleaning \union {"over", "killed"}, canary : BOOLEAN, started : BOOLEAN,
   accepted : BOOLEAN, briefed : BOOLEAN, finalized : BOOLEAN, cancelled : {"no", "sent"},
   corrections : 0..MaxCorrections, ending : {"none", "returned"} \union Errors]
Sights ==
  [cand : Results, failure : BOOLEAN, ready : BOOLEAN, review : BOOLEAN,
   report : BOOLEAN, alive : BOOLEAN, observed : BOOLEAN]

VARIABLES
  drv,      \* the driver
  sees,     \* the run state it polled last
  request,  \* POST /runs: "none", "sent", "session", "process", "done", "failed" or "cut"
  box,      \* the sandbox: "none", "up" or "gone"
  runner,   \* its review process: "none", "alive" or "exited"
  session,  \* the model session, with the bearer, in the sandbox's object
  late,     \* the run's deadline has passed
  host,     \* report.json in the output directory
  receipt   \* receipt.json

cloudVars == <<drv, sees, request, box, runner, session, late, host, receipt>>
vars == <<laneVars, cloudVars>>

\* ready: phase review with an idle child; alive and observed: the process list.
Nothing == [cand |-> "none", failure |-> FALSE, ready |-> FALSE, review |-> FALSE,
            report |-> FALSE, alive |-> FALSE, observed |-> FALSE]

Driver == [pc |-> "start", canary |-> FALSE, started |-> FALSE, accepted |-> FALSE, briefed |-> TRUE,
           finalized |-> FALSE, cancelled |-> "no", corrections |-> 0,
           ending |-> "none"]

Init ==
  /\ LaneInit
  /\ \E canary, brief \in BOOLEAN :
       drv = [Driver EXCEPT !.canary = canary, !.briefed = canary \/ ~brief]
  /\ sees = Nothing /\ request = "none" /\ box = "none" /\ runner = "none"
  /\ session = FALSE /\ late = FALSE /\ host = "none"
  /\ receipt = [exit |-> "none", acked |-> FALSE, killError |-> FALSE]

At(pc)   == drv.pc = pc
Goto(pc) == drv' = [drv EXCEPT !.pc = pc] /\ UNCHANGED sees
Does(d)  == drv' = d /\ UNCHANGED sees
\* Every end of the run is followed by the cleanup, which uses none of its pictures.
Leaves(ending) ==
  /\ drv' = [drv EXCEPT !.pc = "stop", !.ending = ending, !.accepted = FALSE, !.finalized = FALSE,
                        !.cancelled = "no", !.corrections = 0]
  /\ sees' = Nothing
Returns       == Leaves("returned")
Throws(error) == Leaves(error)
Lost          == Throws("lost")

Answers    == runner = "alive" /\ link = "up"
LaneKeeps  == UNCHANGED laneVars
BoxKeeps   == UNCHANGED <<request, box, runner, session>>
DriverOnly == LaneKeeps /\ BoxKeeps /\ UNCHANGED <<late, host, receipt>>

-----------------------------------------------------------------------------
(* POST /runs. *)

Send ==
  /\ At("start") /\ request = "none" /\ request' = "sent"
  /\ LaneKeeps /\ UNCHANGED <<drv, sees, box, runner, session, late, host, receipt>>

\* destroySandbox, acknowledged or not.
Destroyed == box' \in {box, "gone"} /\ runner' = IF box' = "gone" /\ runner = "alive" THEN "exited" ELSE runner

\* A mismatch of the fingerprint, a step that throws: the sandbox is destroyed,
\* the model session is not cleared.
StartFails ==
  /\ request \in {"sent", "session", "process"} /\ request' = "failed"
  /\ (request = "sent" /\ UNCHANGED <<box, runner>>) \/ Destroyed
  /\ LaneKeeps /\ UNCHANGED <<drv, sees, session, late, host, receipt>>

\* The fingerprint is the first command; it brings the sandbox up.
Fingerprint ==
  /\ request = "sent" /\ request' = "session" /\ box' = "up"
  /\ LaneKeeps /\ UNCHANGED <<drv, sees, runner, session, late, host, receipt>>

PutSession ==
  /\ request = "session" /\ request' = "process" /\ session' = TRUE
  /\ LaneKeeps /\ UNCHANGED <<drv, sees, box, runner, late, host, receipt>>

\* The files and the review process; a canary asks the provider instead.
StartProcess ==
  /\ request = "process" /\ request' = "done" /\ box' = "up"
  /\ runner' = IF drv.canary THEN runner ELSE "alive"
  /\ LaneKeeps /\ UNCHANGED <<drv, sees, session, late, host, receipt>>

\* A request whose client is gone may be cut.
StartCut ==
  /\ request \in {"sent", "session", "process"} /\ ~At("start") /\ request' = "cut"
  /\ LaneKeeps /\ UNCHANGED <<drv, sees, box, runner, session, late, host, receipt>>

StartAnswered ==
  /\ At("start")
  /\ \/ /\ request = "done"
        /\ Does([drv EXCEPT !.started = TRUE, !.pc = IF drv.canary THEN "stop" ELSE "look",
                            !.ending = IF drv.canary THEN "returned" ELSE @])
     \/ request # "none" /\ Lost
  /\ DriverOnly

-----------------------------------------------------------------------------
(* GET state. *)

\* What status.json, review-error.json and the report's files show, which are
\* read at once; one that cannot be read is absent.
Pictures ==
  {p \in [cand : Results, failure : BOOLEAN, ready : BOOLEAN, review : BOOLEAN,
          report : BOOLEAN, alive : {FALSE}, observed : {FALSE}] :
     /\ p.cand # "none" \/ p.failure \/ p.ready => link # "soon"
     /\ p.ready => p.review
     /\ p.report => report # "none"}

Look ==
  /\ At("look") /\ ~late
  /\ sees' \in Pictures /\ host' = IF sees'.report THEN report ELSE host
  /\ drv' = [drv EXCEPT !.pc = "list"]
  /\ LaneKeeps /\ BoxKeeps /\ UNCHANGED <<late, receipt>>

LookFails == At("look") /\ ~late /\ Lost /\ DriverOnly

\* The processes, or the error that stands for them.
List ==
  /\ At("list") /\ drv' = [drv EXCEPT !.pc = "judge"]
  /\ \/ sees' = [sees EXCEPT !.observed = TRUE, !.alive = runner = "alive"]
     \/ UNCHANGED sees
  /\ DriverOnly

\* TrustsEmptyList takes a list that could not be served for an empty one.
TrustsEmptyList == ~sees.alive
SeenGone == sees.observed /\ ~sees.alive

\* AnyEndIsWhole forgets to look whether a report is there.
AnyEndIsWhole == ~sees.alive
Complete == sees.report /\ ~sees.alive

Judge ==
  /\ At("judge")
  /\ LET failure == ~drv.accepted /\ sees.failure
     IN CASE failure /\ SeenGone -> Throws("failure")
          [] ~(failure /\ SeenGone) /\ Complete -> Returns
          [] OTHER -> Goto("brief")
  /\ DriverOnly

-----------------------------------------------------------------------------
(* The commands of a pass, on the picture of its poll. *)

\* Skips to the next step, unless this one applies.
Passes(pc, applies, next) == At(pc) /\ ~applies /\ Goto(next) /\ DriverOnly

\* A command that does not reach the bridge ends the run.
CommandLost(pc, applies) == At(pc) /\ applies /\ Lost /\ DriverOnly

\* A brief may not be there yet, be malformed, or say that nothing is left.
ReadsBrief ==
  /\ At("brief") /\ ~drv.briefed
  /\ \/ Goto("cand")
     \/ Throws("brief")
     \/ Returns
     \/ /\ sees.ready /\ Answers     \* the answer to the prompt is not looked at
        /\ Does([drv EXCEPT !.pc = "cand", !.briefed = TRUE])
  /\ DriverOnly

HasCandidate == ~drv.accepted /\ sees.cand # "none"
OnContract   == sees.cand # "bad"

MayCorrect == drv.corrections < MaxCorrections

Corrects ==
  /\ At("cand") /\ HasCandidate /\ ~OnContract
  /\ \/ ~MayCorrect /\ Throws("contract")
     \/ /\ MayCorrect /\ Answers
        /\ Does([drv EXCEPT !.pc = "finalize", !.corrections = @ + 1])
  /\ DriverOnly

Accepts ==
  /\ At("cand") /\ HasCandidate /\ OnContract /\ Answers
  /\ \/ Accept /\ (Does([drv EXCEPT !.pc = "finalize", !.accepted = TRUE]) \/ Lost)
     \/ Goto("finalize") /\ LaneKeeps
  /\ BoxKeeps /\ UNCHANGED <<late, host, receipt>>

\* The request cap or the verdict's deadline is near.
MayFinalize == ~drv.accepted /\ ~drv.finalized /\ drv.briefed /\ sees.review

Finalizes ==
  /\ At("finalize") /\ MayFinalize
  /\ \/ Answers /\ \E success \in BOOLEAN : Does([drv EXCEPT !.pc = "cancel", !.finalized = success])
     \/ Goto("cancel")
  /\ DriverOnly

Failing == sees.failure /\ ~drv.accepted

\* One cancel, whose answer does not count; then thirty seconds for the report.
Cancels ==
  /\ At("cancel") /\ Failing
  /\ \/ drv.cancelled = "no" /\ Does([drv EXCEPT !.pc = "gone", !.cancelled = "sent"])
     \/ drv.cancelled = "sent" /\ (Goto("gone") \/ Throws("grace"))
  /\ DriverOnly

EndsPass ==
  /\ At("gone")
  /\ IF SeenGone /\ ~sees.report THEN Throws("no report") ELSE drv' = [drv EXCEPT !.pc = "look"] /\ sees' = Nothing
  /\ DriverOnly

Command ==
  \/ ReadsBrief \/ Passes("brief", ~drv.briefed, "cand") \/ CommandLost("brief", ~drv.briefed /\ sees.ready)
  \/ Corrects \/ Accepts \/ Passes("cand", HasCandidate, "finalize") \/ CommandLost("cand", HasCandidate)
  \/ Finalizes \/ Passes("finalize", MayFinalize, "cancel") \/ CommandLost("finalize", MayFinalize)
  \/ Cancels \/ Passes("cancel", Failing, "gone")
  \/ EndsPass

-----------------------------------------------------------------------------
(* The end of the driver. *)

DeadlinePasses == ~late /\ ~At("over") /\ ~At("killed") /\ late' = TRUE /\ LaneKeeps
                  /\ UNCHANGED <<drv, sees, request, box, runner, session, host, receipt>>

\* WaitsForLane lets a lane that still runs keep its driver.
WaitsForLane == At("look") /\ late /\ runner # "alive"
TimeIsUp == At("look") /\ late

Deadline == TimeIsUp /\ Throws("late") /\ DriverOnly

\* The first SIGINT or SIGTERM aborts a wait; it leaves the cleanup alone.
Interrupt == drv.pc \in Busy /\ Throws("interrupted") /\ DriverOnly

\* A second signal, or SIGKILL.
Killed == drv.pc \in Busy \union Cleaning /\ Goto("killed") /\ DriverOnly

\* POST stop: the processes are killed, the artifacts read, the session cleared
\* and the sandbox destroyed; every part is tried whatever became of the others.
Stop ==
  /\ At("stop") /\ Goto("receipt")
  /\ Destroyed
  /\ session' \in {FALSE, session}
  /\ \/ /\ receipt' = [receipt EXCEPT !.acked = (box' = "gone"), !.killError = session']
        /\ host' \in {host, IF report = "none" THEN host ELSE report}
     \/ UNCHANGED <<receipt, host>>
  /\ LaneKeeps /\ UNCHANGED <<request, late>>

\* A sandbox that never was is destroyed as well as any.
StopNothing ==
  /\ At("stop") /\ box = "none" /\ Goto("receipt")
  /\ receipt' = [receipt EXCEPT !.acked = TRUE]
  /\ LaneKeeps /\ BoxKeeps /\ UNCHANGED <<late, host>>

StopLost == At("stop") /\ Goto("receipt") /\ DriverOnly

WriteReceipt ==
  /\ At("receipt") /\ Goto("over")
  /\ receipt' = [receipt EXCEPT !.exit = IF drv.ending = "returned" /\ receipt.acked THEN "ok" ELSE "failed"]
  /\ LaneKeeps /\ BoxKeeps /\ UNCHANGED <<late, host>>

-----------------------------------------------------------------------------

Worker == StartFails \/ Fingerprint \/ PutSession \/ StartProcess \/ StartCut

Drive ==
  \/ Send \/ StartAnswered \/ Look \/ LookFails \/ List \/ Judge \/ Command \/ Deadline
  \/ Stop \/ StopNothing \/ StopLost \/ WriteReceipt

Inside == drv.pc \notin {"over", "killed"} /\ runner = "alive" /\ (Opens \/ Closes) /\ UNCHANGED cloudVars

\* The runner's own end, its window, or a container that dies.
RunnerExits ==
  /\ runner = "alive" /\ runner' = "exited" /\ link' = "gone"
  /\ UNCHANGED <<report, taken, ended, drv, sees, request, box, session, late, host, receipt>>

Next == Worker \/ Drive \/ Interrupt \/ Killed \/ Inside \/ RunnerExits \/ DeadlinePasses

\* Every wait of the driver is bounded by a timer; time passes.
Fairness == WF_vars(Drive) /\ WF_vars(DeadlinePasses)

Spec == Init /\ [][Next]_vars /\ Fairness

-----------------------------------------------------------------------------
(* Properties. *)

\* What each part of the lane may be.
TypeOK ==
  /\ drv \in Drivers /\ sees \in Sights
  /\ request \in {"none", "sent", "session", "process", "done", "failed", "cut"}
  /\ box \in {"none", "up", "gone"} /\ runner \in {"none", "alive", "exited"}
  /\ session \in BOOLEAN /\ late \in BOOLEAN
  /\ report \in {"none", "partial", "complete"} /\ host \in {"none", "partial", "complete"}
  /\ receipt \in [exit : {"none", "ok", "failed"}, acked : BOOLEAN, killError : BOOLEAN]

\* A driver that exits with 0 leaves its report on the host, no sandbox and no
\* process, and no model session unless the stop said so (drive.ts:925-1087); a
\* lane that ended for want of work, and a canary, have no report.
CleanExitIsWhole ==
  receipt.exit = "ok" =>
    /\ host = "none" => drv.canary \/ ~drv.briefed
    /\ box = "gone" /\ runner # "alive"
    /\ session => receipt.killError

\* Only a review that is over is taken for one: a process list that could not be
\* served says nothing of it (drive.ts:252-257).
HealthyLaneIsKept ==
  drv.ending \in {"failure", "no report"} => runner # "alive"

\* The driver ends, whatever becomes of the lane.
DriverEnds == drv.pc \in Busy \union Cleaning ~> drv.pc \in {"over", "killed"}
===============================================================================
