------------------------------ MODULE LaneRunner ------------------------------
(***************************************************************************)
(* What runs inside a lane's container (container/review-run.sh): the      *)
(* shell runner with its steps and its last word, the RPC bridge its       *)
(* review step starts, and the Pi child the bridge speaks to.  LocalLane   *)
(* and CloudLane add the driver that polls it.                             *)
(*                                                                         *)
(* The bridge is one event loop, so a handler is one step up to its first  *)
(* await and its rest a step of its own (ops, asked).  A command is        *)
(* answered before the child it ends is gone; what Pi prints meanwhile is  *)
(* still read.  status is status.json, which the runner and the bridge     *)
(* write in turn, and what a rejected promise writes right after the       *)
(* handler that rejected it is part of that handler's step.                *)
(*                                                                         *)
(* Bounds: MaxAttempts, and one prompt and one restart at a time that have *)
(* no answer yet.                                                          *)
(*                                                                         *)
(* AnyIdle, WaitsForever and AnyTurn are faulty variants of the definition *)
(* each precedes; no action uses them.                                     *)
(***************************************************************************)
EXTENDS Naturals, LaneSight

CONSTANTS
  MaxAttempts   \* bound: prompts, the first one included

ASSUME RunnerAssumption == MaxAttempts \in Nat \ {0}

\* What a provider's refusal is classified as.  budget_exhausted is told from
\* quota_blocked nowhere but in its wording.
Blockers == {"auth_blocked", "quota_blocked"}

States  == {"running", "idle", "done"} \union Endings
\* "failure" is model_error, stdin_error or process_exit, which nothing tells apart.
Reasons == Blockers \union {"none", "completed", "cancelled", "failure"}
Standings == [state : States, reason : Reasons, idle : BOOLEAN, cand : Results]
Accounts  == [state : States, reason : Reasons, idle : BOOLEAN, cand : Results,
              attempt : 0..MaxAttempts, turned : BOOLEAN, errs : Blockers \union {"none"}]
Statuses  == [phase : {"none", "starting", "install", "review", "evidence", "finished"},
              state : States \union {"none"}]

VARIABLES
  warm,         \* the lane was started without a prompt, or has sent it
  step,         \* of the shell runner
  status,       \* status.json
  bridge,       \* "none", "up", "closing" (its socket is gone) or "gone"
  b,            \* the bridge's own account of the review
  child,        \* the Pi process: "none", "up", "dying" (being stopped) or "dead"
  pi,           \* the agent in it: "idle", "working" or "ended" (and not settled)
  left,         \* for the report: the raw stream's last turn_end (that it stopped) and
                \* agent_end, and that pi.attempt.stderr holds a refusal
  asked,        \* the prompt Pi has not answered, and what it would restore
  ops,          \* handlers that wait for the child to be gone
  code,         \* what the bridge exits with, 0 or not
  kept,         \* REVIEW_STATE
  report,       \* report.json's completion
  taken         \* history: the candidate the bridge accepted

shellVars  == <<warm, taken, step, code, kept, report>>
bridgeVars == <<bridge, b, child, pi, left, asked, ops>>
vars       == <<shellVars, bridgeVars, status>>

\* The reasons in status.json and review-error.json are left out: no one reads them.
Said(phase, state) == [phase |-> phase, state |-> state]

\* turned: the current attempt has reached a terminal event.  errs: its stderr.
Fresh == [state |-> "running", reason |-> "none", idle |-> FALSE, cand |-> "none",
          attempt |-> 0, turned |-> TRUE, errs |-> "none"]
Standing(x) == [state |-> x.state, reason |-> x.reason, idle |-> x.idle, cand |-> x.cand]
NotAsked == [out |-> FALSE, prev |-> Standing(Fresh)]

Init ==
  /\ warm \in BOOLEAN
  /\ step = "none" /\ status = Said("none", "none")
  /\ bridge = "none" /\ b = Fresh /\ child = "none" /\ pi = "idle"
  /\ left = [stopped |-> FALSE, cand |-> "none", refused |-> FALSE]
  /\ asked = NotAsked /\ ops = {} /\ code = 0
  /\ kept = "none" /\ report = "none" /\ taken = "none"

-----------------------------------------------------------------------------
(* The bridge's pieces. *)

Written(x) == Said("review", x.state)

\* An authentication refusal is looked for first.
Worst(x, y) == IF "auth_blocked" \in {x, y} THEN "auth_blocked"
               ELSE IF x = "none" THEN y ELSE x

BeginAttempt(x) ==
  [Fresh EXCEPT !.attempt = x.attempt + 1, !.turned = FALSE]

Restored(x) ==
  IF x.turned \/ ~asked.out THEN x
  ELSE [x EXCEPT !.state = asked.prev.state, !.reason = asked.prev.reason,
                 !.idle = asked.prev.idle, !.cand = asked.prev.cand]

\* The first caller of shutdownBridge decides the exit code.
Shutdown(c) == /\ bridge' = IF bridge = "up" THEN "closing" ELSE bridge
               /\ code' = IF bridge = "up" THEN c ELSE code

StaysUp == UNCHANGED <<bridge, code>>
\* A rejection that nobody handles ends the bridge at once.
Crash == bridge' = "closing" /\ code' = 1 /\ ops' = {}

\* The attempt is terminal: a prompt that is then refused restores nothing.
Settles == asked' = [asked EXCEPT !.prev = Standing(Fresh)]

Listening == bridge \in {"up", "closing"}
Alive     == child \in {"up", "dying"}
Heard     == Listening /\ Alive

\* pi.attempt.stderr is emptied with the account's own.
Forgets == left' = [left EXCEPT !.refused = FALSE]

-----------------------------------------------------------------------------
(* The runner before its review: clone, install and check. *)

Launch ==
  /\ step = "none" /\ step' = "prepare" /\ status' = Said("starting", "running")
  /\ UNCHANGED <<warm, taken, bridgeVars, code, kept, report>>

PrepareFails ==
  /\ step = "prepare"
  /\ step' = "dead" /\ status' = Said("install", "failed")
  /\ UNCHANGED <<warm, taken, bridgeVars, code, kept, report>>

StartReview ==
  /\ step = "prepare"
  /\ step' = "review" /\ bridge' = "up" /\ child' = "up" /\ status' = Written(Fresh)
  /\ UNCHANGED <<warm, taken, b, pi, left, asked, ops, code, kept, report>>

-----------------------------------------------------------------------------
(* What the Pi child does, and what the bridge makes of it. *)

\* get_state answered before the first prompt; a later answer is the restart's.
ChildIsIdle ==
  /\ Heard /\ b.attempt = 0 /\ pi = "idle" /\ ~b.idle
  /\ b' = [b EXCEPT !.idle = TRUE, !.state = "idle"] /\ status' = Written(b')
  /\ UNCHANGED <<shellVars, bridge, child, pi, left, asked, ops>>

\* The init handler prompts after get_state was answered, refused or cut, and
\* hears nothing of a prompt that was rejected.
FirstPrompt ==
  /\ Listening /\ ~warm /\ warm' = TRUE /\ ~asked.out /\ b.attempt < MaxAttempts
  /\ b' = BeginAttempt(b) /\ status' = Written(b')
  /\ pi' \in IF Alive THEN {pi, "working"} ELSE {pi}
  /\ Forgets /\ UNCHANGED <<taken, step, code, kept, report, bridge, child, asked, ops>>

\* agent_start, message_* and the tool events, of a retry or a queued message too.
PiWorks ==
  /\ Heard /\ pi # "idle" /\ pi' = "working"
  /\ b' = [b EXCEPT !.idle = FALSE] /\ status' = Written(b')
  /\ UNCHANGED <<shellVars, bridge, child, left, asked, ops>>

Refusal(errs, end) == Worst(errs, IF end \in Blockers THEN end ELSE "none")

\* end: a refusal in the turn's error, or else its stop reason.  Nothing tells the
\* run of an earlier prompt from that of the current one.
TurnEnd(end) ==
  /\ Heard /\ pi = "working"
  /\ left' = [left EXCEPT !.stopped = end = "stop"]
  /\ LET refusal == Refusal(b.errs, end)
         ended(s, r) == [b EXCEPT !.turned = TRUE, !.state = s, !.reason = r]
     IN CASE refusal # "none" ->
               /\ b' = ended("blocked", refusal)
               /\ StaysUp /\ UNCHANGED <<ops, child>>
          [] refusal = "none" /\ end = "error" ->
               /\ b' = ended("failed", "failure")
               /\ IF b.cand = "none" /\ bridge = "up"
                  THEN Shutdown(1) /\ ops' = ops \union {"shutdown"} /\ child' = "dying"
                  ELSE StaysUp /\ UNCHANGED <<ops, child>>
          [] OTHER ->
               /\ b' = ended(b.state, b.reason)
               /\ StaysUp /\ UNCHANGED <<ops, child>>
  /\ status' = Written(b')
  /\ Settles /\ UNCHANGED <<warm, taken, step, kept, report, pi>>

\* agent_end carries the candidate, of whichever prompt's run it is.  A retry, a
\* recovery or a queued message may follow it; agent_settled says that none does.
AgentEnd(cand) ==
  /\ Heard /\ pi = "working" /\ pi' = "ended"
  /\ b' = [b EXCEPT !.turned = TRUE, !.cand = cand] /\ left' = [left EXCEPT !.cand = cand]
  /\ Settles /\ status' = Written(b')
  /\ UNCHANGED <<shellVars, bridge, child, ops>>

AgentSettled ==
  /\ Heard /\ pi = "ended" /\ pi' = "idle"
  /\ b' = [b EXCEPT !.idle = TRUE, !.state = IF @ = "running" THEN "idle" ELSE @]
  /\ status' = Written(b')
  /\ UNCHANGED <<shellVars, bridge, child, left, asked, ops>>

\* No provider is asked before the first prompt.
StderrRefusal(msg) ==
  /\ Heard /\ b.attempt > 0
  /\ b' = [b EXCEPT !.errs = Worst(@, msg), !.state = "blocked", !.reason = msg]
  /\ left' = [left EXCEPT !.refused = TRUE]
  /\ status' = Written(b')
  /\ UNCHANGED <<shellVars, bridge, child, pi, asked, ops>>

\* Anything else on stderr brings the file up to date.
StderrText ==
  /\ Heard /\ left.refused # (b.errs # "none") /\ left' = [left EXCEPT !.refused = ~@]
  /\ UNCHANGED <<shellVars, bridge, b, child, pi, asked, ops, status>>

StdinError ==
  /\ Heard /\ b.state \notin {"done", "cancelled"}
  /\ b' = [b EXCEPT !.state = "failed", !.reason = "failure"]
  /\ status' = Written(b')
  /\ UNCHANGED <<shellVars, bridge, child, pi, left, asked, ops>>

\* What the close makes of a child: one that is being stopped, was refused, had
\* failed or is simply lost.  The last two take the bridge with them.
Lost == child = "up" /\ b.reason \notin Blockers
Gone ==
  LET gone == [b EXCEPT !.idle = TRUE]
      Ended(s, r) == [gone EXCEPT !.state = s, !.reason = r]
  IN CASE child = "dying" -> gone
       [] child = "up" /\ b.reason \in Blockers -> Ended("blocked", b.reason)
       [] OTHER -> Ended("failed", "failure")

\* A prompt it never answered is rejected, and what it restores is written over
\* what the close wrote; so is a restart's question, which nobody handles.
ChildCloses ==
  /\ Heard
  /\ child' = "dead" /\ pi' = "idle"
  /\ b' = Restored(Gone) /\ status' = Written(b') /\ asked' = NotAsked
  /\ IF "state" \in ops THEN Crash ELSE UNCHANGED ops /\ IF Lost THEN Shutdown(1) ELSE StaysUp
  /\ UNCHANGED <<warm, taken, step, kept, report, left>>

-----------------------------------------------------------------------------
(* The commands of a driver, as far as their answer. *)

CanPrompt == bridge = "up" /\ ~asked.out /\ b.attempt < MaxAttempts

\* A child that is gone refuses the prompt at once; one that is being stopped by
\* an accept, a cancel or a restart may still take it.
TakePrompt ==
  /\ CanPrompt
  /\ asked' = IF Alive THEN [out |-> TRUE, prev |-> Standing(b)] ELSE asked
  /\ LET begun == BeginAttempt(b)
     IN b' = IF Alive THEN begun
             ELSE [begun EXCEPT !.state = b.state, !.reason = b.reason,
                                !.idle = b.idle, !.cand = b.cand]
  /\ Forgets /\ status' = Written(b')
  /\ UNCHANGED <<shellVars, bridge, child, pi, ops>>

PromptTaken ==
  /\ Heard /\ asked.out /\ pi' \in {pi, "working"}
  /\ asked' = NotAsked
  /\ UNCHANGED <<shellVars, bridge, b, child, left, ops, status>>

\* Refused, or not answered in ten seconds: Pi may work on it all the same.
PromptRefused ==
  /\ Listening /\ asked.out
  /\ pi' \in IF Alive THEN {pi, "working"} ELSE {pi}
  /\ b' = Restored(b) /\ status' = Written(b')
  /\ asked' = NotAsked
  /\ UNCHANGED <<shellVars, bridge, child, left, ops>>

\* A steer before the first prompt is no review's.
TakeSteer ==
  /\ bridge = "up" /\ Alive /\ b.attempt > 0 /\ pi' \in {pi, "working"}
  /\ UNCHANGED <<shellVars, bridge, b, child, left, asked, ops, status>>

\* AnyIdle accepts whatever the state.
AnyIdle == b.idle /\ b.cand # "none"
Acceptable == b.state \in {"idle", "failed", "blocked"} /\ b.idle /\ b.cand # "none"

TakeAccept ==
  /\ bridge = "up" /\ Acceptable
  /\ b' = [b EXCEPT !.state = "done", !.reason = "completed"]
  /\ ops' = ops \union {"accept"}
  /\ child' = IF child = "up" THEN "dying" ELSE child
  /\ taken' = b.cand /\ UNCHANGED <<warm, step, code, kept, report, bridge, pi, left, asked, status>>

TakeCancel ==
  /\ bridge = "up"
  /\ b' = IF b.state \in {"failed", "blocked"} THEN b
          ELSE [b EXCEPT !.state = "cancelled", !.reason = "cancelled"]
  /\ ops' = ops \union {"cancel"}
  /\ child' = IF child = "up" THEN "dying" ELSE child
  /\ UNCHANGED <<shellVars, bridge, pi, left, asked, status>>

Restartable == bridge = "up" /\ b.reason = "auth_blocked" /\ b.idle

TakeRestart ==
  /\ Restartable
  /\ ops' = ops \union {"restart"}
  /\ child' = IF child = "up" THEN "dying" ELSE child
  /\ UNCHANGED <<shellVars, bridge, b, pi, left, asked, status>>

-----------------------------------------------------------------------------
(* What the commands do once the child is gone, or is not and will not go. *)

\* WaitsForever sets no timer on the stop of the child.
WaitsForever(verified) == verified /\ child # "dying"
Verdict(verified)      == verified = (child # "dying")

AcceptEnds(verified) ==
  /\ "accept" \in ops /\ Listening /\ Verdict(verified)
  /\ ops' = ops \ {"accept"}
  /\ b' = IF verified THEN [b EXCEPT !.idle = TRUE]
          ELSE [b EXCEPT !.state = "failed", !.reason = "failure"]
  /\ status' = Written(b') /\ Shutdown(IF verified THEN 0 ELSE 1)
  /\ UNCHANGED <<warm, taken, step, kept, report, child, pi, left, asked>>

CancelEnds(verified) ==
  /\ "cancel" \in ops /\ Listening /\ Verdict(verified)
  /\ ops' = ops \ {"cancel"}
  /\ b' = IF verified THEN [b EXCEPT !.idle = TRUE] ELSE b
  /\ status' = Written(b') /\ Shutdown(1)
  /\ UNCHANGED <<warm, taken, step, kept, report, child, pi, left, asked>>

\* shutdownBridge with a child that is still running.
ShutdownEnds(verified) ==
  /\ "shutdown" \in ops /\ Verdict(verified)
  /\ ops' = ops \ {"shutdown"} /\ status' = Written(b)
  /\ UNCHANGED <<shellVars, bridge, b, child, pi, left, asked>>

\* The session continues in a new child, unless its file is missing.  The
\* account's stderr is emptied, the file the report reads is not.
Restarts ==
  /\ "restart" \in ops /\ Listening /\ child = "dead"
  /\ \/ /\ child' = "up"
        /\ b' = [b EXCEPT !.errs = "none", !.state = "running", !.reason = "none",
                          !.idle = FALSE]
        /\ status' = Written(b') /\ ops' = (ops \ {"restart"}) \union {"state"}
     \/ ops' = ops \ {"restart"} /\ UNCHANGED <<child, b, status>>
  /\ UNCHANGED <<shellVars, bridge, pi, left, asked>>

\* The new child answers get_state; answers something else; or is silent for
\* five seconds.
RestartAnswered ==
  /\ "state" \in ops /\ Heard
  /\ \/ /\ \E idle \in {TRUE, pi = "idle"} :
             b' = [b EXCEPT !.idle = idle, !.state = IF idle THEN "idle" ELSE "running"]
        /\ status' = Written(b') /\ ops' = ops \ {"state"} /\ StaysUp
     \/ /\ b' = [b EXCEPT !.state = "failed", !.reason = "failure"]
        /\ status' = Written(b') /\ ops' = ops \ {"state"} /\ StaysUp
     \/ Crash /\ UNCHANGED <<b, status>>
  /\ UNCHANGED <<warm, taken, step, kept, report, child, pi, left, asked>>

RestartUnverified ==
  /\ "restart" \in ops /\ child = "dying" /\ ops' = ops \ {"restart"}
  /\ UNCHANGED <<shellVars, bridge, b, child, pi, left, asked, status>>

-----------------------------------------------------------------------------
(* The runner after its review. *)

\* keep_review_ending: c is review.exit, or -1 when the step was cut.
Kept(c) ==
  CASE kept # "none" -> kept
    [] kept = "none" /\ status.phase = "review" /\ status.state \in Endings -> status.state
    [] kept = "none" /\ ~(status.phase = "review" /\ status.state \in Endings) /\ c > 0 -> "failed"
    [] OTHER -> "none"

LastWord(k) == Said("finished", IF k = "none" THEN "done" ELSE k)

BridgeExits ==
  /\ bridge = "closing" /\ "shutdown" \notin ops
  /\ bridge' = "gone" /\ child' = "dead" /\ ops' = {}
  /\ asked' = NotAsked
  /\ kept' = Kept(code) /\ step' = IF code = 0 THEN "report" ELSE "partial"
  /\ status' = Said("evidence", "running")
  /\ b' = Fresh /\ pi' = "idle"
  /\ UNCHANGED <<warm, taken, code, left, report>>

\* AnyTurn is satisfied by an exit code and a text.
AnyTurn     == ~left.refused /\ left.cand # "none"
ValidEvents == ~left.refused /\ left.stopped /\ left.cand # "none"

Report ==
  /\ step = "report"
  /\ IF ValidEvents
     THEN report' = "complete" /\ step' = "final"
     ELSE step' = "partial" /\ UNCHANGED report
  /\ UNCHANGED <<warm, taken, bridgeVars, code, kept, status>>

PartialReport ==
  /\ step = "partial" /\ step' = "final" /\ report' = "partial"
  /\ UNCHANGED <<warm, taken, bridgeVars, code, kept, status>>

LastStatus ==
  /\ step = "final" /\ step' = "ended"
  /\ kept' = Kept(code) /\ status' = LastWord(kept')
  /\ UNCHANGED <<warm, taken, bridgeVars, code, report>>

\* The outer timeout of the cloud's start command: the trap writes what there is, and the KILL is 15 s behind.
WindowSpent ==
  /\ step \in {"prepare", "review", "report", "partial", "final"}
  /\ bridge' = IF bridge = "none" THEN "none" ELSE "gone"
  /\ child' = IF child = "none" THEN "none" ELSE "dead"
  /\ ops' = {}
  /\ \/ /\ report' = IF report = "none" THEN "partial" ELSE report
        /\ kept' = Kept(IF step \in {"prepare", "review"} THEN 0 ELSE code)
        /\ status' = LastWord(kept') /\ step' = "ended"
     \/ step' = "dead" /\ UNCHANGED <<report, kept, status>>
  /\ asked' = NotAsked
  /\ b' = Fresh /\ pi' = "idle"
  /\ UNCHANGED <<warm, taken, code, left>>

\* Whatever the agent and its provider may do.
PiStep ==
  \/ PiWorks \/ AgentSettled \/ StderrText \/ StdinError
  \/ \E end \in Blockers \union {"stop", "other", "error"} : TurnEnd(end)
  \/ \E cand \in Results : AgentEnd(cand)
  \/ \E msg \in Blockers : StderrRefusal(msg)

\* Any driver, at any moment.
Command == TakePrompt \/ TakeSteer \/ TakeAccept \/ TakeCancel \/ TakeRestart

BridgeStep ==
  \/ ChildIsIdle \/ FirstPrompt \/ ChildCloses \/ PromptTaken \/ PromptRefused
  \/ Restarts \/ RestartAnswered \/ RestartUnverified

ShellStep == Launch \/ StartReview \/ PrepareFails \/ WindowSpent

\* Every wait of an ending is bounded by a timer, and what follows by nothing.
WindDown ==
  \/ \E verified \in BOOLEAN : AcceptEnds(verified) \/ CancelEnds(verified) \/ ShutdownEnds(verified)
  \/ BridgeExits \/ Report \/ PartialReport \/ LastStatus

Next == PiStep \/ Command \/ BridgeStep \/ ShellStep \/ WindDown

Fairness == WF_vars(WindDown)

Spec == Init /\ [][Next]_vars /\ Fairness

-----------------------------------------------------------------------------
(* Properties. *)

\* What each part of the container may be.
TypeOK ==
  /\ warm \in BOOLEAN /\ step \in {"none", "prepare", "review", "report", "partial", "final", "ended", "dead"}
  /\ status \in Statuses
  /\ bridge \in {"none", "up", "closing", "gone"} /\ child \in {"none", "up", "dying", "dead"}
  /\ b \in Accounts /\ asked \in [out : BOOLEAN, prev : Standings]
  /\ pi \in {"idle", "working", "ended"} /\ ops \subseteq {"accept", "cancel", "restart", "state", "shutdown"}
  /\ left \in [stopped : BOOLEAN, cand : Results, refused : BOOLEAN]
  /\ taken \in Results
  /\ code \in {0, 1} /\ report \in {"none", "partial", "complete"}
  /\ kept \in Endings \union {"none"}

\* The report that counts as whole is one of an accepted review whose child was
\* seen to end and whose last turn stopped by itself; a lane that failed, was
\* cancelled before its accept or cut leaves at most a partial one
\* (review-run.sh:1274-1330, 1452-1543).
CompleteIsEarned ==
  report = "complete" =>
    taken # "none" /\ code = 0 /\ left.stopped

\* An accepted review is over in the end: the runner writes its last word or is
\* cut by its window, whatever the child does.
AcceptedEnds == taken # "none" ~> step \in {"ended", "dead"}

\* What a driver outside sees of all this is what a lane promises.
Reason(r) == CASE r \in {"none", "auth_blocked"} -> r [] OTHER -> "other"
Seen ==
  View(b.state,
       CASE b.state \in Endings -> Reason(b.reason) [] b.state = "done" -> "other" [] OTHER -> "none",
       IF Acceptable \/ (b.state = "idle" /\ b.idle) THEN b.cand ELSE "busy")
Promise ==
  INSTANCE LanePromise WITH
    link <- CASE bridge = "up" -> "up"
              [] bridge = "none" /\ step \notin {"ended", "dead"} -> "soon"
              [] OTHER -> "gone",
    ended <- status.phase # "review" /\ status.state \in Endings
KeepsPromise == Promise!LaneSpec /\ [](bridge = "up" => Seen \in Promise!Looks)
=============================================================================
