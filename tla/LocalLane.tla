------------------------------- MODULE LocalLane -------------------------------
(***************************************************************************)
(* A lane of the local engine: its driver (main of src/local.ts), the      *)
(* container of LaneRunner it owns, and a second invocation that steers,   *)
(* inspects, cancels, resumes or reconnects the same run, at any moment.   *)
(* Both are processes of the host and share the container, the run's       *)
(* metadata and its output directory with the one receipt.                 *)
(*                                                                         *)
(* A call to the container is one step, and may be lost before or after it *)
(* took effect.  Between two of them the review may come to any state that  *)
(* LanePromise lets a driver see, so what it sees is chosen at the look.   *)
(* SIGINT, SIGTERM, SIGHUP and the run's deadline abort the wait of a      *)
(* driver, never what the container was asked.                             *)
(*                                                                         *)
(* AcceptsBlind, Untimed and RevokesAtEnd are faulty variants of the       *)
(* definition each precedes; no action uses them.                          *)
(***************************************************************************)
EXTENDS LanePromise, Naturals

CONSTANTS
  lane, ctl,        \* the run's own driver and the second invocation
  MaxCorrections    \* MAX_FORMAT_CORRECTIONS

ASSUME LaneAssumption == lane # ctl /\ "none" \notin {lane, ctl} /\ MaxCorrections \in Nat

Invocations == {lane, ctl}
Controls    == {"inspect", "steer", "cancel", "resume", "reconnect"}
Busy        == {"host", "stage", "launch", "poll", "nobody", "correct", "brief", "accept", "final", "final2",
                "inspect", "steer", "cancel", "resume", "restart"}
TearingDown == {"export", "remove", "receipt"}
\* A process that is gone wrote its receipt, returned without a teardown or was killed.
Gone        == {"over", "returned", "killed"}

Drivers ==
  [pc : Busy \union TearingDown \union {"off"} \union Gone, kind : Controls \union {"none", "start"},
   owns : BOOLEAN, tried : BOOLEAN, started : BOOLEAN, broker : BOOLEAN, torn : BOOLEAN,
   ending : {"none", "final", "late", "thrown", "auth_blocked"} \union Endings,
   interrupted : BOOLEAN, corrections : 0..MaxCorrections, briefed : BOOLEAN]

VARIABLES
  drv,        \* the two invocations
  container,  \* "absent", "up" or "removed"
  launched,   \* the runner was started in it
  bearer,     \* a broker with the credential is in the container
  metadata,   \* metadata.json is written
  evidence,   \* report.json in the output directory
  receipt     \* local-receipt.json: its last writer and the outcome

hostVars == <<drv, container, launched, bearer, metadata, evidence, receipt>>
localVars == <<laneVars, hostVars>>

Off == [pc |-> "off", kind |-> "none", owns |-> FALSE, tried |-> FALSE,
        started |-> FALSE, broker |-> FALSE, ending |-> "none", torn |-> FALSE,
        interrupted |-> FALSE, corrections |-> 0, briefed |-> TRUE]

LocalInit ==
  /\ LaneInit
  /\ \E brief \in BOOLEAN : drv = [d \in Invocations |->
              IF d = lane THEN [Off EXCEPT !.pc = "host", !.kind = "start", !.briefed = ~brief]
              ELSE Off]
  /\ container = "absent" /\ launched = FALSE /\ bearer = FALSE /\ metadata = FALSE
  /\ evidence = "none" /\ receipt = [by |-> "none", outcome |-> "none", torn |-> FALSE]

At(d, pc)  == drv[d].pc = pc
Goto(d, pc) == drv' = [drv EXCEPT ![d].pc = pc]
\* A process that is gone leaves nothing but what became of it.
Exits(d, pc) ==
  drv' = [drv EXCEPT ![d] = [Off EXCEPT !.pc = pc, !.kind = drv[d].kind, !.started = drv[d].started,
                                        !.broker = drv[d].broker, !.torn = drv[d].torn]]
\* What ends the work of an invocation: "final" (accepted and observed), "late"
\* (the deadline), "thrown" (every other runError), or the review's own ending.
\* The loop's own count and brief are of no use past it.
Leaves(d, ending) ==
  drv' = [drv EXCEPT ![d].pc = "export", ![d].ending = ending,
                     ![d].corrections = 0, ![d].briefed = TRUE]
Fails(d) == Leaves(d, "thrown")
Ending(x) == IF x.reason = "auth_blocked" THEN "auth_blocked" ELSE x.state
HostKeeps == UNCHANGED <<container, launched, bearer, metadata, evidence, receipt>>
LaneKeeps == UNCHANGED laneVars
Reachable == container = "up"
Answers   == Reachable /\ link = "up"

-----------------------------------------------------------------------------
(* A fresh start. *)

\* Everything before docker run, and docker run, whose answer may be lost.
CreateContainer ==
  /\ At(lane, "host")
  /\ \/ Fails(lane) /\ UNCHANGED container
     \/ /\ container' = "up"
        /\ drv' = [drv EXCEPT ![lane].tried = TRUE, ![lane].owns = TRUE,
                              ![lane].broker = TRUE, ![lane].pc = "stage"]
     \/ /\ container' \in {"absent", "up"}
        /\ drv' = [drv EXCEPT ![lane].tried = TRUE, ![lane].broker = TRUE,
                              ![lane].ending = "thrown", ![lane].pc = "export"]
  /\ LaneKeeps /\ UNCHANGED <<launched, bearer, metadata, evidence, receipt>>

\* The uploads, the broker, the fingerprint gate, and the metadata at the end.
Stage ==
  /\ At(lane, "stage")
  /\ \/ bearer' = TRUE /\ metadata' = TRUE /\ Goto(lane, "launch")
     \/ bearer' \in BOOLEAN /\ Fails(lane) /\ UNCHANGED metadata
  /\ LaneKeeps /\ UNCHANGED <<container, launched, evidence, receipt>>

\* The detached exec, whose answer may be lost.
Launch ==
  /\ At(lane, "launch")
  /\ \/ /\ Reachable /\ launched' = TRUE
        /\ drv' = [drv EXCEPT ![lane].started = TRUE, ![lane].pc = "poll"]
     \/ Fails(lane) /\ launched' \in {FALSE, Reachable}
  /\ LaneKeeps /\ UNCHANGED <<container, bearer, metadata, evidence, receipt>>

-----------------------------------------------------------------------------
(* The poll loop. *)

MayCorrect(x)  == x.corrections < MaxCorrections

\* What one answered inspect makes the driver do.
Judge(d, v) ==
  LET wantsBrief == v.state = "idle" /\ v.cand # "busy" /\ ~drv[d].briefed
  IN \/ v.state \in Endings /\ Leaves(d, Ending(v))
     \/ v.state = "done" /\ Goto(d, "final")
     \/ wantsBrief /\ \E next \in {"brief", "nobody"} : Goto(d, next)
     \/ wantsBrief /\ Fails(d)
     \/ /\ v.state = "idle"
        /\ \/ v.cand = "good" /\ Goto(d, "accept")
           \/ v.cand = "bad" /\ ~MayCorrect(drv[d]) /\ Fails(d)
           \/ v.cand = "bad" /\ MayCorrect(drv[d]) /\ Goto(d, "correct")

Poll(d) ==
  /\ At(d, "poll") /\ Answers
  /\ \E v \in Looks : Judge(d, v)
  /\ HostKeeps /\ LaneKeeps

\* No answer: status.json is the only witness, and only of a lane's failure.
PollMisses(d) ==
  /\ At(d, "poll") /\ Reachable /\ ended
  /\ \E e \in Ends : Leaves(d, Ending(e))
  /\ HostKeeps /\ LaneKeeps

\* A command that was lost on the way.
CallThrows(d) ==
  /\ drv[d].pc \in {"nobody", "correct", "brief", "accept", "inspect", "steer", "resume", "restart"}
  /\ Fails(d) /\ HostKeeps /\ LaneKeeps

\* A refused correction is not told from a taken one; a refused brief throws.
Prompts(d) ==
  /\ drv[d].pc \in {"correct", "brief"} /\ Answers
  /\ drv' = [drv EXCEPT ![d].pc = "poll", ![d].briefed = TRUE,
                        ![d].corrections = IF At(d, "brief") THEN @ ELSE @ + 1]
  /\ HostKeeps /\ LaneKeeps

\* A null brief: the lane ends unused.
CancelUnused(d) ==
  /\ At(d, "nobody") /\ Answers
  /\ drv' = [drv EXCEPT ![d].pc = "poll", ![d].briefed = TRUE]
  /\ HostKeeps /\ LaneKeeps

\* AcceptsBlind takes a refused accept for an accepted one.
AcceptsBlind(d) ==
  /\ At(d, "accept") /\ Answers
  /\ (Accept \/ LaneKeeps) /\ (Goto(d, "final") \/ Fails(d))
  /\ HostKeeps

\* A refused accept is polled on.
Accepts(d) ==
  /\ At(d, "accept") /\ Answers
  /\ \/ Accept /\ (Goto(d, "final") \/ Fails(d))
     \/ Goto(d, "poll") /\ LaneKeeps
  /\ HostKeeps

\* observeFinalization reads review-error.json, then report.json; a read that
\* fails is an absent file.
ReadsError(d) ==
  /\ At(d, "final")
  /\ \/ Reachable /\ Fails(d)
     \/ Goto(d, "final2")
  /\ HostKeeps /\ LaneKeeps

ReadsReport(d) ==
  /\ At(d, "final2")
  /\ \/ Reachable /\ report # "none" /\ Leaves(d, "final")
     \/ Goto(d, "final")
     \/ Fails(d)
  /\ HostKeeps /\ LaneKeeps

-----------------------------------------------------------------------------
(* The second invocation. *)

\* Attaching holds the container to its metadata, and asks nothing of a driver
\* that may still be there.
Attach(kind) ==
  /\ At(ctl, "off")
  /\ LET to == IF kind = "reconnect" THEN "poll" ELSE kind
     IN \/ /\ metadata /\ Reachable
           /\ drv' = [drv EXCEPT ![ctl] = [Off EXCEPT !.kind = kind, !.owns = TRUE,
                                                      !.started = TRUE, !.pc = to]]
        \/ drv' = [drv EXCEPT ![ctl] = [Off EXCEPT !.kind = kind, !.ending = "thrown", !.pc = "export"]]
  /\ HostKeeps /\ LaneKeeps

\* The artifacts that leave the container.
Exported == IF report = "none" THEN evidence ELSE report

\* A one-shot action returns without the teardown.
Steer ==
  /\ At(ctl, "steer") /\ Answers /\ (Exits(ctl, "returned") \/ Fails(ctl))
  /\ HostKeeps /\ LaneKeeps

Inspect ==
  /\ At(ctl, "inspect") /\ Reachable /\ Exits(ctl, "returned")
  /\ evidence' = Exported
  /\ LaneKeeps /\ UNCHANGED <<container, launched, bearer, metadata, receipt>>

\* The bridge's answer, or none: then the ending is thrown.
Cancel ==
  /\ At(ctl, "cancel") /\ ((Answers /\ Goto(ctl, "export")) \/ Fails(ctl))
  /\ HostKeeps /\ LaneKeeps

\* An auth-blocked review gets the renewed credential.
ResumeRun ==
  /\ At(ctl, "resume") /\ Answers
  /\ \/ bearer' = TRUE /\ drv' = [drv EXCEPT ![ctl].pc = "restart", ![ctl].broker = TRUE]
     \/ /\ bearer' \in {bearer, FALSE}
        /\ drv' = [drv EXCEPT ![ctl].pc = "export", ![ctl].ending = "thrown", ![ctl].broker = TRUE]
  /\ LaneKeeps /\ UNCHANGED <<container, launched, metadata, evidence, receipt>>

\* restart_process.  Without --reconnect the invocation returns.
Restart ==
  /\ At(ctl, "restart") /\ Answers /\ (Exits(ctl, "returned") \/ Goto(ctl, "poll"))
  /\ HostKeeps /\ LaneKeeps

-----------------------------------------------------------------------------
(* The end of an invocation. *)

Interrupt(d) ==
  /\ drv[d].pc \in Busy \union TearingDown /\ ~drv[d].interrupted
  /\ drv' = [drv EXCEPT ![d].interrupted = TRUE,
                        ![d].corrections = 0, ![d].briefed = TRUE,
                        ![d].ending = IF drv[d].pc \in Busy THEN "thrown" ELSE @,
                        ![d].pc = IF @ \in Busy THEN "export" ELSE @]
  /\ HostKeeps /\ LaneKeeps

\* Untimed bounds what the driver asks, and not its wait for a lane that runs.
Untimed == Busy \ {"poll"}
Timed   == Busy

Deadline(d) ==
  /\ drv[d].pc \in Timed
  /\ Leaves(d, "late")
  /\ HostKeeps /\ LaneKeeps

\* A second signal, or SIGKILL.
Killed(d) ==
  /\ drv[d].pc \in Busy \union TearingDown /\ Exits(d, "killed")
  /\ HostKeeps /\ LaneKeeps

TeardownFails(d, next) == drv' = [drv EXCEPT ![d].torn = TRUE, ![d].pc = next]

\* RevokesAtEnd leaves the bearer of a run that did not end with a report.
RevokesAtEnd(x) == x.broker /\ x.ending = "final"
Revokes(x)      == x.broker

\* The owned container is looked up by its label when docker run gave no answer;
\* its artifacts leave it, and then the bearer goes.  An invocation that never
\* attached owns none, and has nothing to fail at.
Export(d) ==
  /\ At(d, "export")
  /\ \/ /\ Reachable /\ (drv[d].owns \/ drv[d].tried)
        /\ evidence' = Exported
        /\ \/ /\ drv' = [drv EXCEPT ![d].owns = TRUE, ![d].pc = "remove"]
              /\ bearer' = (bearer /\ ~Revokes(drv[d]))
           \/ /\ drv' = [drv EXCEPT ![d].owns = TRUE, ![d].pc = "remove", ![d].torn = TRUE]
              /\ UNCHANGED bearer
     \/ /\ ~drv[d].owns /\ (drv[d].tried => ~Reachable) /\ Goto(d, "remove")
        /\ UNCHANGED <<bearer, evidence>>
     \/ /\ drv[d].owns \/ drv[d].kind = "start"
        /\ TeardownFails(d, "remove") /\ UNCHANGED <<bearer, evidence>>
  /\ LaneKeeps /\ UNCHANGED <<container, launched, metadata, receipt>>

Over(ending)   == ending \notin {"none", "thrown", "auth_blocked"}
Disposable(x)  == x.kind = "cancel" \/ ~x.started \/ Over(x.ending)

RemoveContainer(d) ==
  /\ At(d, "remove")
  /\ IF drv[d].owns /\ Disposable(drv[d])
     THEN \/ container' = "removed" /\ bearer' = FALSE /\ Goto(d, "receipt")
          \/ TeardownFails(d, "receipt") /\ UNCHANGED <<container, launched, bearer>>
     ELSE Goto(d, "receipt") /\ UNCHANGED <<container, launched, bearer>>
  /\ LaneKeeps /\ UNCHANGED <<launched, metadata, evidence, receipt>>

Outcome(x) ==
  CASE x.kind = "cancel" /\ x.started ->
         IF x.ending # "none" /\ container # "removed" THEN "unverified" ELSE "cancelled"
    [] ~(x.kind = "cancel" /\ x.started) /\ x.ending = "final" /\ ~x.torn /\ evidence # "none" ->
         "completed"
    [] OTHER -> CASE x.interrupted -> "interrupted"
                  [] ~x.interrupted /\ x.ending = "auth_blocked" -> "blocked"
                  [] ~x.interrupted /\ x.ending \in {"blocked", "cancelled"} -> x.ending
                  [] OTHER -> "failed"

Receipt(d) ==
  /\ At(d, "receipt") /\ Exits(d, "over")
  /\ receipt' = [by |-> d, outcome |-> Outcome(drv[d]), torn |-> drv[d].torn]
  /\ LaneKeeps /\ UNCHANGED <<container, launched, bearer, metadata, evidence>>

-----------------------------------------------------------------------------

Drive(d) ==
  \/ Poll(d) \/ PollMisses(d) \/ CallThrows(d) \/ Prompts(d)
  \/ CancelUnused(d) \/ Accepts(d) \/ ReadsError(d) \/ ReadsReport(d)
  \/ Export(d) \/ RemoveContainer(d) \/ Receipt(d)

Start == CreateContainer \/ Stage \/ Launch
Control == (\E kind \in Controls : Attach(kind)) \/ Steer \/ Inspect \/ Cancel \/ ResumeRun \/ Restart

\* Once nobody looks any more the rest is not told apart.
Inside == (\E d \in Invocations : drv[d].pc \notin Gone) /\ Reachable /\ launched /\ (Opens \/ Closes) /\ UNCHANGED hostVars

LocalNext ==
  \/ Start \/ Control \/ Inside
  \/ \E d \in Invocations : Drive(d) \/ Interrupt(d) \/ Deadline(d) \/ Killed(d)

\* A driver runs, and its timer fires; nothing is owed by the container.
Fairness ==
  /\ WF_localVars(Start)
  /\ \A d \in Invocations : WF_localVars(Drive(d)) /\ WF_localVars(Deadline(d))

LocalSpec == LocalInit /\ [][LocalNext]_localVars /\ Fairness

-----------------------------------------------------------------------------
(* Properties. *)

\* What each part of the lane may be.
LocalTypeOK ==
  /\ link \in {"soon", "up", "gone"} /\ taken \in Results /\ report \in {"none", "partial", "complete"}
  /\ ended \in BOOLEAN
  /\ drv \in [Invocations -> Drivers]
  /\ container \in {"absent", "up", "removed"} /\ launched \in BOOLEAN /\ bearer \in BOOLEAN
  /\ metadata \in BOOLEAN /\ evidence \in {"none", "partial", "complete"}
  /\ receipt \in [by : Invocations \union {"none"}, torn : BOOLEAN,
                 outcome : {"none", "completed", "interrupted", "unverified"} \union Endings]

\* A completed receipt of the run's own driver stands for a result the bridge
\* accepted and a report on the host (local.ts:3225-3290, 3330-3375).
CompletedMeansAccepted ==
  receipt.outcome = "completed" => taken # "none" /\ evidence # "none"

\* A container may outlive its driver.  The run's own driver, once it has written
\* its receipt, left no bearer in it unless a teardown failed and it says so, or a
\* resume installed another; so did a resume that came to its receipt, and a
\* cancel, whatever driver died before it.  What an inspect, a steer, a reconnect
\* or a refused attach does meanwhile changes none of it (local.ts:2094-2245,
\* 2422-2428).
NoBearerLeftBehind ==
  bearer =>
    /\ drv[lane].pc = "over" => drv[lane].torn \/ drv[ctl].broker
    /\ drv[ctl].pc = "over" /\ (drv[ctl].broker \/ (drv[ctl].kind = "cancel" /\ drv[ctl].started)) =>
         drv[ctl].torn

\* Every invocation ends, whatever becomes of the container it waits for (the
\* run's deadline, local.ts:2065).
DriverEnds ==
  \A d \in Invocations :
    drv[d].pc \in Busy \union TearingDown ~> drv[d].pc \in Gone
===============================================================================
