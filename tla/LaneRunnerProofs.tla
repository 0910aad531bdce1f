---------------------------- MODULE LaneRunnerProofs ----------------------------
(***************************************************************************)
(* What holds of a lane's container for any number of prompts and any      *)
(* candidates: its types, that only an accepted review leaves a complete   *)
(* report, and that it implements LanePromise.                             *)
(***************************************************************************)
EXTENDS LaneRunner, TLAPS

\* The reason is the state's.
Agrees(x) ==
  /\ x.state = "failed" => x.reason = "failure"
  /\ x.state = "blocked" => x.reason \in Blockers
  /\ x.state = "cancelled" => x.reason = "cancelled"

\* Where the bridge, the report and the last status are, by the runner's step.
Stage ==
  /\ step = "review" <=> Listening
  /\ step \in {"none", "prepare"} => bridge = "none"
  /\ step \in {"report", "partial", "final"} => bridge = "gone"
  /\ ops # {} => Listening
  /\ step \in {"none", "prepare", "review", "report", "partial"} => report = "none"
  /\ Listening => status.phase = "review"
  /\ step \in {"none", "prepare", "report", "partial", "final"} => status.state \notin Endings

\* A taken accept is what an exit code of 0 stands for.
Earned ==
  /\ "accept" \in ops => taken # "none"
  /\ bridge = "closing" /\ code = 0 => taken # "none"
  /\ step = "report" => code = 0 /\ taken # "none"
  /\ report = "complete" => code = 0 /\ taken # "none" /\ left.stopped
  /\ b.state = "done" => taken # "none"
  /\ asked.prev.state = "done" => taken # "none"
  /\ Agrees(b) /\ Agrees(asked.prev)

Inv == TypeOK /\ Stage /\ Earned

-----------------------------------------------------------------------------
(* Records. *)

\* A status is typed if what it says is.
LEMMA SaidTyped ==
  ASSUME NEW phase \in {"none", "starting", "install", "review", "evidence", "finished"},
         NEW state \in States \union {"none"}
  PROVE  Said(phase, state) \in Statuses
BY DEF Said, Statuses

LEMMA WrittenTyped == ASSUME NEW x \in Accounts PROVE Written(x) \in Statuses
BY SaidTyped DEF Written, Accounts

LEMMA FreshTyped == Fresh \in Accounts /\ NotAsked \in [out : BOOLEAN, prev : Standings]
BY RunnerAssumption DEF Fresh, NotAsked, Standing, Accounts, Standings, States, Reasons, Results

LEMMA StandingTyped == ASSUME NEW x \in Accounts PROVE Standing(x) \in Standings
BY DEF Standing, Accounts, Standings

LEMMA SettledTyped ==
  ASSUME asked \in [out : BOOLEAN, prev : Standings], Settles
  PROVE  asked' \in [out : BOOLEAN, prev : Standings]
BY FreshTyped, StandingTyped DEF Settles

LEMMA SettledAgrees ==
  ASSUME Inv, Settles PROVE asked'.prev.state # "done" /\ Agrees(asked'.prev)
BY DEF Inv, TypeOK, Settles, Standing, Fresh, Agrees

LEMMA BegunTyped == ASSUME NEW x \in Accounts, x.attempt < MaxAttempts PROVE BeginAttempt(x) \in Accounts
<1>1. PICK n \in 0..MaxAttempts : n = x.attempt + 1
  BY RunnerAssumption DEF Accounts
<1>2. BeginAttempt(x) = [Fresh EXCEPT !.attempt = n, !.turned = FALSE]
  BY <1>1 DEF BeginAttempt
<1> QED BY ONLY <1>2, FreshTyped DEF Accounts

LEMMA WorstTyped ==
  ASSUME NEW x \in Blockers \union {"none"}, NEW y \in Blockers \union {"none"}
  PROVE  Worst(x, y) \in Blockers \union {"none"}
BY DEF Worst, Blockers

\* An account with another state and reason.
LEMMA EndedTyped ==
  ASSUME NEW x \in Accounts, NEW s \in States, NEW r \in Reasons
  PROVE  [x EXCEPT !.state = s, !.reason = r] \in Accounts
BY DEF Accounts

LEMMA RestoredTyped ==
  ASSUME NEW x \in Accounts, asked \in [out : BOOLEAN, prev : Standings]
  PROVE  Restored(x) \in Accounts
BY DEF Restored, Accounts, Standings

LEMMA RefusalTyped ==
  ASSUME NEW errs \in Blockers \union {"none"}, NEW end PROVE Refusal(errs, end) \in Blockers \union {"none"}
BY DEF Refusal, Worst, Blockers

LEMMA KeptTyped ==
  ASSUME TypeOK, NEW c PROVE Kept(c) \in Endings \union {"none"}
BY DEF Kept, TypeOK, Statuses, Endings

LEMMA LastWordTyped ==
  ASSUME NEW k \in Endings \union {"none"} PROVE LastWord(k) \in Statuses
BY SaidTyped DEF LastWord, States

LEMMA LaunchKeeps == ASSUME Inv, Launch PROVE Inv'
<1>1. TypeOK'
  BY SaidTyped DEF Inv, TypeOK, Launch, Reasons, States, bridgeVars
<1>2. Stage'
  BY DEF Inv, Stage, Said, Endings, Launch, Listening, bridgeVars
<1>3. Earned'
  BY DEF Inv, Earned, Launch, bridgeVars
<1> QED BY <1>1, <1>2, <1>3 DEF Inv

LEMMA PrepareFailsKeeps == ASSUME Inv, PrepareFails PROVE Inv'
<1>1. TypeOK'
  <2>1. status' \in Statuses
    BY SaidTyped DEF PrepareFails, States, Endings
  <2> QED BY <2>1 DEF Inv, TypeOK, PrepareFails, bridgeVars
<1>2. Stage'
  BY DEF Inv, Stage, PrepareFails, Listening, bridgeVars
<1>3. Earned'
  BY DEF Inv, Earned, PrepareFails, bridgeVars
<1> QED BY <1>1, <1>2, <1>3 DEF Inv

LEMMA StartReviewKeeps == ASSUME Inv, StartReview PROVE Inv'
<1>1. TypeOK'
  BY WrittenTyped, FreshTyped DEF Inv, TypeOK, StartReview
<1>2. Stage'
  BY DEF Inv, Stage, Written, Said, StartReview, Listening
<1>3. Earned'
  BY DEF Inv, Earned, StartReview
<1> QED BY <1>1, <1>2, <1>3 DEF Inv

LEMMA ChildIsIdleKeeps == ASSUME Inv, ChildIsIdle PROVE Inv'
<1>1. TypeOK'
  <2>1. b' \in Accounts
    BY DEF Inv, TypeOK, ChildIsIdle, Accounts, States, CanPrompt, Restartable, Acceptable
  <2> QED BY <2>1, WrittenTyped DEF Inv, TypeOK, ChildIsIdle, shellVars
<1>2. Stage'
  BY DEF Inv, Stage, Written, Said, Endings, ChildIsIdle, Listening, shellVars
<1>3. Earned'
  BY DEF Inv, Earned, Agrees, ChildIsIdle, shellVars
<1> QED BY <1>1, <1>2, <1>3 DEF Inv

LEMMA FirstPromptKeeps == ASSUME Inv, FirstPrompt PROVE Inv'
<1>1. TypeOK'
  <2>1. b' \in Accounts
    BY BegunTyped, RunnerAssumption DEF Inv, TypeOK, FirstPrompt
  <2> QED BY <2>1, WrittenTyped DEF Inv, TypeOK, FirstPrompt, Forgets, Reasons, shellVars
<1>2. Stage'
  BY DEF Inv, Stage, Written, Said, FirstPrompt, Listening, shellVars
<1>3. Earned'
  BY DEF Inv, Earned, TypeOK, Agrees, FirstPrompt, Forgets, Fresh, BeginAttempt, shellVars
<1> QED BY <1>1, <1>2, <1>3 DEF Inv

LEMMA PiWorksKeeps == ASSUME Inv, PiWorks PROVE Inv'
<1>1. TypeOK'
  <2>1. b' \in Accounts
    BY DEF Inv, TypeOK, PiWorks, Accounts
  <2> QED BY <2>1, WrittenTyped DEF Inv, TypeOK, PiWorks, shellVars
<1>2. Stage'
  BY DEF Inv, Stage, Written, Said, PiWorks, Listening, Heard, shellVars
<1>3. Earned'
  BY DEF Inv, Earned, Agrees, PiWorks, shellVars
<1> QED BY <1>1, <1>2, <1>3 DEF Inv

LEMMA TurnEndKeeps == ASSUME Inv, NEW end \in Blockers \union {"stop", "other", "error"}, TurnEnd(end) PROVE Inv'
<1>1. TypeOK'
  <2>1. b' \in Accounts
    <3>1. b \in Accounts /\ Refusal(b.errs, end) \in Blockers \union {"none"}
      BY RefusalTyped DEF Inv, TypeOK, Accounts
    <3>2. PICK s \in States, r \in Reasons : b' = [b EXCEPT !.turned = TRUE, !.state = s, !.reason = r]
      BY ZenonT(60), <3>1 DEF TurnEnd, Accounts, States, Reasons, Endings
    <3> QED BY ONLY <3>1, <3>2 DEF Accounts
  <2>2. left' \in [stopped : BOOLEAN, cand : Results, refused : BOOLEAN]
    <3>1. PICK s \in BOOLEAN : s = (end = "stop")
      OBVIOUS
    <3> QED BY <3>1 DEF Inv, TypeOK, TurnEnd
  <2> QED BY <2>1, <2>2, WrittenTyped, SettledTyped DEF Inv, TypeOK, TurnEnd, Reasons, Shutdown, StaysUp
<1>2. Stage'
  BY DEF Inv, Stage, Written, Said, TurnEnd, Listening, Heard, Shutdown, StaysUp
<1>3. Earned'
  <2>1. b \in Accounts /\ Refusal(b.errs, end) \in Blockers \union {"none"} /\ Agrees(b)
    BY RefusalTyped DEF Inv, TypeOK, Accounts, Earned
  <2>2. PICK s \in States, r \in Reasons :
          /\ b' = [b EXCEPT !.turned = TRUE, !.state = s, !.reason = r]
          /\ \/ s = b.state /\ r = b.reason
             \/ s = "blocked" /\ r \in Blockers
             \/ s = "failed" /\ r = "failure"
    <3>1. CASE Refusal(b.errs, end) # "none"
      BY <2>1, <3>1 DEF TurnEnd, States, Reasons, Endings
    <3>2. CASE Refusal(b.errs, end) = "none" /\ end = "error"
      BY <3>2 DEF TurnEnd, States, Reasons, Endings
    <3>3. CASE Refusal(b.errs, end) = "none" /\ end # "error"
      <4>1. b.state \in States /\ b.reason \in Reasons
        BY <2>1 DEF Accounts
      <4> QED BY <3>3, <4>1 DEF TurnEnd
    <3> QED BY <3>1, <3>2, <3>3
  <2>3. b'.state = s /\ b'.reason = r
    BY ONLY <2>1, <2>2 DEF Accounts
  <2>4. Agrees(b)' /\ (b'.state = "done" => taken # "none")
    BY <2>1, <2>2, <2>3 DEF Inv, Earned, Agrees
  <2>5. (bridge' = "closing" /\ code' = 0 => taken # "none") /\ ("accept" \in ops' => taken # "none")
    BY DEF Inv, Earned, TurnEnd, Shutdown, StaysUp
  <2>6. UNCHANGED <<taken, step, report>> /\ Listening
    BY DEF TurnEnd, Heard
  <2>7. step = "review" /\ report # "complete"
    BY <2>6 DEF Inv, Stage
  <2>8. Settles
    BY DEF TurnEnd
  <2> QED BY <2>4, <2>5, <2>6, <2>7, <2>8, SettledAgrees DEF Inv, Earned
<1> QED BY <1>1, <1>2, <1>3 DEF Inv

LEMMA AgentEndKeeps == ASSUME Inv, NEW cand \in Results, AgentEnd(cand) PROVE Inv'
<1>1. TypeOK'
  <2>1. b' \in Accounts
    BY DEF Inv, TypeOK, AgentEnd, Accounts
  <2> QED BY <2>1, WrittenTyped, SettledTyped DEF Inv, TypeOK, AgentEnd, shellVars
<1>2. Stage'
  BY DEF Inv, Stage, Written, Said, AgentEnd, Listening, Heard, shellVars
<1>3. Earned'
  <2>1. b'.state = b.state /\ b'.reason = b.reason
    BY DEF Inv, TypeOK, Accounts, AgentEnd
  <2>2. left'.stopped = left.stopped
    BY DEF Inv, TypeOK, AgentEnd
  <2>3. Settles
    BY DEF AgentEnd
  <2> QED BY <2>1, <2>2, <2>3, SettledAgrees DEF Inv, Earned, Agrees, AgentEnd, shellVars
<1> QED BY <1>1, <1>2, <1>3 DEF Inv

LEMMA AgentSettledKeeps == ASSUME Inv, AgentSettled PROVE Inv'
<1>0. PICK s \in States : /\ b' = [b EXCEPT !.idle = TRUE, !.state = s]
                         /\ (s = b.state \/ s = "idle")
  BY DEF Inv, TypeOK, AgentSettled, Accounts, States
<1>1. TypeOK'
  <2>1. b' \in Accounts
    BY <1>0 DEF Inv, TypeOK, Accounts
  <2> QED BY <2>1, WrittenTyped DEF Inv, TypeOK, AgentSettled, shellVars
<1>2. Stage'
  BY DEF Inv, Stage, Written, Said, AgentSettled, Listening, Heard, shellVars
<1>3. Earned'
  <2>1. b'.state = s /\ b'.reason = b.reason
    BY <1>0 DEF Inv, TypeOK, Accounts
  <2> QED BY <1>0, <2>1 DEF Inv, Earned, Agrees, AgentSettled, shellVars
<1> QED BY <1>1, <1>2, <1>3 DEF Inv

LEMMA StderrTextKeeps == ASSUME Inv, StderrText PROVE Inv'
<1>1. TypeOK'
  <2>1. left' \in [stopped : BOOLEAN, cand : Results, refused : BOOLEAN]
    <3>1. PICK r \in BOOLEAN : r = ~left.refused
      OBVIOUS
    <3> QED BY <3>1 DEF Inv, TypeOK, StderrText
  <2> QED BY <2>1 DEF Inv, TypeOK, StderrText, shellVars
<1>2. Stage'
  BY DEF Inv, Stage, StderrText, Listening, shellVars
<1>3. Earned'
  BY DEF Inv, TypeOK, Earned, StderrText, shellVars
<1> QED BY <1>1, <1>2, <1>3 DEF Inv

LEMMA StderrRefusalKeeps == ASSUME Inv, NEW msg \in Blockers, StderrRefusal(msg) PROVE Inv'
<1>1. TypeOK'
  <2>1. b' \in Accounts
    <3>1. b \in Accounts /\ b.errs \in Blockers \union {"none"}
      BY DEF Inv, TypeOK, Accounts
    <3>2. PICK e \in Blockers \union {"none"} : e = Worst(b.errs, msg)
      BY <3>1, WorstTyped
    <3>3. b' = [b EXCEPT !.errs = e, !.state = "blocked", !.reason = msg]
      BY <3>2 DEF StderrRefusal
    <3> QED BY ONLY <3>1, <3>3 DEF Accounts, States, Reasons, Endings
  <2>2. left' \in [stopped : BOOLEAN, cand : Results, refused : BOOLEAN]
    BY DEF Inv, TypeOK, StderrRefusal
  <2> QED BY <2>1, <2>2, WrittenTyped DEF Inv, TypeOK, StderrRefusal, shellVars
<1>2. Stage'
  BY DEF Inv, Stage, Written, Said, StderrRefusal, Listening, Heard, shellVars
<1>3. Earned'
  BY DEF Inv, Earned, Agrees, StderrRefusal, shellVars
<1> QED BY <1>1, <1>2, <1>3 DEF Inv

LEMMA StdinErrorKeeps == ASSUME Inv, StdinError PROVE Inv'
<1>1. TypeOK'
  <2>1. b' \in Accounts
    BY DEF Inv, TypeOK, StdinError, Accounts, States, Reasons, Endings, CanPrompt, Restartable, Acceptable
  <2> QED BY <2>1, WrittenTyped DEF Inv, TypeOK, StdinError, Reasons, shellVars
<1>2. Stage'
  BY DEF Inv, Stage, Written, Said, StdinError, Listening, Heard, shellVars
<1>3. Earned'
  BY DEF Inv, Earned, Agrees, StdinError, shellVars
<1> QED BY <1>1, <1>2, <1>3 DEF Inv

\* What is left of an account whose child has closed.
LEMMA GoneTyped ==
  ASSUME b \in Accounts, Agrees(b)
  PROVE  Gone \in Accounts /\ Agrees(Gone) /\ (Gone.state = "done" => b.state = "done")
<1>1. PICK s \in States, r \in Reasons :
        /\ Gone = [b EXCEPT !.idle = TRUE, !.state = s, !.reason = r]
        /\ \/ s = b.state /\ r = b.reason
           \/ s = "blocked" /\ r \in Blockers
           \/ s = "failed" /\ r = "failure"
  <2>1. b.state \in States /\ b.reason \in Reasons
        /\ [b EXCEPT !.idle = TRUE] = [b EXCEPT !.idle = TRUE, !.state = b.state, !.reason = b.reason]
    BY DEF Accounts
  <2>2. CASE child = "dying"
    BY <2>1, <2>2 DEF Gone
  <2>3. CASE child # "dying"
    BY <2>1, <2>3 DEF Gone, States, Reasons, Endings
  <2> QED BY <2>2, <2>3
<1>2. Gone \in Accounts /\ Gone.state = s /\ Gone.reason = r
  BY <1>1 DEF Accounts
<1> QED BY <1>1, <1>2 DEF Agrees

LEMMA ChildClosesKeeps == ASSUME Inv, ChildCloses PROVE Inv'
<1>0. /\ b \in Accounts /\ Agrees(b) /\ Agrees(asked.prev) /\ asked.prev \in Standings
      /\ asked \in [out : BOOLEAN, prev : Standings]
  BY DEF Inv, TypeOK, Earned
<1>1. Gone \in Accounts /\ Agrees(Gone) /\ (Gone.state = "done" => b.state = "done")
  BY <1>0, GoneTyped
<1>2. TypeOK'
  <2>1. b' \in Accounts
    BY <1>0, <1>1, RestoredTyped DEF ChildCloses
  <2>2. status' \in Statuses /\ asked' \in [out : BOOLEAN, prev : Standings]
    BY <2>1, WrittenTyped, FreshTyped DEF ChildCloses
  <2>3. /\ bridge' \in {bridge, "closing"} /\ code' \in {code, 1} /\ ops' \in {ops, {}}
        /\ UNCHANGED <<warm, taken, step, kept, report, left>> /\ child' = "dead" /\ pi' = "idle"
    BY DEF ChildCloses, Shutdown, StaysUp, Crash
  <2> QED BY <2>1, <2>2, <2>3 DEF Inv, TypeOK
<1>3. Stage'
  BY DEF Inv, Stage, Written, Said, ChildCloses, Listening, Heard, Shutdown, StaysUp, Crash
<1>4. Earned'
  <2>1. Agrees(b')
    BY <1>0, <1>1 DEF Restored, Agrees, ChildCloses, Accounts
  <2>2. b'.state = "done" => taken # "none"
    BY <1>0, <1>1 DEF Restored, Inv, Earned, ChildCloses, Accounts
  <2>3. asked'.prev.state # "done" /\ Agrees(asked'.prev)
    BY DEF ChildCloses, NotAsked, Standing, Fresh, Agrees
  <2>4. /\ bridge' = "closing" /\ code' = 0 => taken # "none"
        /\ ops' \subseteq ops /\ UNCHANGED <<taken, step, report, left>> /\ Listening
    BY DEF Inv, Earned, ChildCloses, Shutdown, StaysUp, Crash, Heard
  <2>5. step = "review" /\ report # "complete"
    BY <2>4 DEF Inv, Stage
  <2> QED BY <2>1, <2>2, <2>3, <2>4, <2>5 DEF Inv, Earned
<1> QED BY <1>2, <1>3, <1>4 DEF Inv

LEMMA TakePromptKeeps == ASSUME Inv, TakePrompt PROVE Inv'
<1>1. TypeOK'
  <2>1. b' \in Accounts
    <3>1. b \in Accounts /\ b.attempt < MaxAttempts
      BY DEF Inv, TypeOK, TakePrompt, Forgets, CanPrompt
    <3>2. BeginAttempt(b) \in Accounts
      BY <3>1, BegunTyped
    <3>3. [BeginAttempt(b) EXCEPT !.state = b.state, !.reason = b.reason, !.idle = b.idle, !.cand = b.cand] \in Accounts
      BY ONLY <3>1, <3>2 DEF Accounts
    <3> QED BY <3>2, <3>3 DEF TakePrompt
  <2>2. left' \in [stopped : BOOLEAN, cand : Results, refused : BOOLEAN]
    BY DEF Inv, TypeOK, TakePrompt, Forgets
  <2>3. asked' \in [out : BOOLEAN, prev : Standings]
    BY StandingTyped DEF Inv, TypeOK, TakePrompt
  <2> QED BY <2>1, <2>2, <2>3, WrittenTyped DEF Inv, TypeOK, TakePrompt, shellVars
<1>2. Stage'
  BY DEF Inv, Stage, Written, Said, TakePrompt, Listening, shellVars, CanPrompt
<1>3. Earned'
  BY DEF Inv, Earned, TypeOK, Agrees, TakePrompt, Forgets, Fresh, BeginAttempt, Standing, shellVars
<1> QED BY <1>1, <1>2, <1>3 DEF Inv

LEMMA PromptTakenKeeps == ASSUME Inv, PromptTaken PROVE Inv'
<1>1. TypeOK'
  BY FreshTyped DEF Inv, TypeOK, PromptTaken, shellVars
<1>2. Stage'
  BY DEF Inv, Stage, PromptTaken, Listening, shellVars
<1>3. Earned'
  BY DEF Inv, Earned, Agrees, PromptTaken, Fresh, NotAsked, Standing, shellVars
<1> QED BY <1>1, <1>2, <1>3 DEF Inv

LEMMA PromptRefusedKeeps == ASSUME Inv, PromptRefused PROVE Inv'
<1>1. TypeOK'
  <2>1. b' \in Accounts
    BY RestoredTyped DEF Inv, TypeOK, PromptRefused
  <2> QED BY <2>1, WrittenTyped, FreshTyped DEF Inv, TypeOK, PromptRefused, shellVars
<1>2. Stage'
  BY DEF Inv, Stage, Written, Said, PromptRefused, Listening, shellVars
<1>3. Earned'
  BY DEF Inv, Earned, Agrees, PromptRefused, Restored, Fresh, NotAsked, Standing, shellVars
<1> QED BY <1>1, <1>2, <1>3 DEF Inv

LEMMA TakeSteerKeeps == ASSUME Inv, TakeSteer PROVE Inv'
<1>1. TypeOK'
  BY DEF Inv, TypeOK, TakeSteer, shellVars
<1>2. Stage'
  BY DEF Inv, Stage, TakeSteer, Listening, shellVars
<1>3. Earned'
  BY DEF Inv, Earned, TakeSteer, shellVars
<1> QED BY <1>1, <1>2, <1>3 DEF Inv

LEMMA TakeAcceptKeeps == ASSUME Inv, TakeAccept PROVE Inv'
<1>1. TypeOK'
  <2>1. b' \in Accounts
    BY EndedTyped DEF Inv, TypeOK, TakeAccept, States, Reasons
  <2>2. b.cand \in Results
    BY DEF Inv, TypeOK, Accounts
  <2> QED BY <2>1, <2>2 DEF Inv, TypeOK, TakeAccept
<1>2. Stage'
  BY DEF Inv, Stage, TakeAccept, Listening
<1>3. Earned'
  BY DEF Inv, Earned, Agrees, TakeAccept, Acceptable
<1> QED BY <1>1, <1>2, <1>3 DEF Inv

LEMMA TakeCancelKeeps == ASSUME Inv, TakeCancel PROVE Inv'
<1>1. TypeOK'
  <2>1. b' \in Accounts
    BY ZenonT(60), RestoredTyped, BegunTyped, RefusalTyped DEF Inv, TypeOK, TakeCancel, Accounts, States, Reasons,
       Blockers, Endings, CanPrompt, Restartable, Acceptable
  <2> QED BY <2>1 DEF Inv, TypeOK, TakeCancel, shellVars
<1>2. Stage'
  BY DEF Inv, Stage, TakeCancel, Listening, shellVars
<1>3. Earned'
  BY DEF Inv, Earned, Agrees, TakeCancel, shellVars
<1> QED BY <1>1, <1>2, <1>3 DEF Inv

LEMMA TakeRestartKeeps == ASSUME Inv, TakeRestart PROVE Inv'
<1>1. TypeOK'
  BY DEF Inv, TypeOK, TakeRestart, shellVars
<1>2. Stage'
  BY DEF Inv, Stage, TakeRestart, Listening, shellVars, Restartable
<1>3. Earned'
  BY DEF Inv, Earned, TakeRestart, shellVars
<1> QED BY <1>1, <1>2, <1>3 DEF Inv

LEMMA AcceptEndsKeeps == ASSUME Inv, NEW verified \in BOOLEAN, AcceptEnds(verified) PROVE Inv'
<1>1. TypeOK'
  <2>1. b' \in Accounts
    BY ZenonT(60), RestoredTyped, BegunTyped, RefusalTyped DEF Inv, TypeOK, AcceptEnds, Accounts, States, Reasons,
       Blockers, Endings, CanPrompt, Restartable, Acceptable
  <2> QED BY <2>1, WrittenTyped DEF Inv, TypeOK, AcceptEnds, Shutdown
<1>2. Stage'
  BY DEF Inv, Stage, Written, Said, AcceptEnds, Listening, Shutdown
<1>3. Earned'
  BY DEF Inv, Earned, Stage, Agrees, AcceptEnds
<1> QED BY <1>1, <1>2, <1>3 DEF Inv

LEMMA CancelEndsKeeps == ASSUME Inv, NEW verified \in BOOLEAN, CancelEnds(verified) PROVE Inv'
<1>1. TypeOK'
  <2>1. b' \in Accounts
    BY DEF Inv, TypeOK, CancelEnds, Accounts, Blockers, Endings, CanPrompt, Restartable, Acceptable
  <2> QED BY <2>1, WrittenTyped DEF Inv, TypeOK, CancelEnds, Shutdown
<1>2. Stage'
  BY DEF Inv, Stage, Written, Said, CancelEnds, Listening, Shutdown
<1>3. Earned'
  BY DEF Inv, Earned, Stage, Agrees, CancelEnds, Shutdown
<1> QED BY <1>1, <1>2, <1>3 DEF Inv

LEMMA ShutdownEndsKeeps == ASSUME Inv, NEW verified \in BOOLEAN, ShutdownEnds(verified) PROVE Inv'
<1>1. TypeOK'
  BY WrittenTyped DEF Inv, TypeOK, ShutdownEnds, shellVars
<1>2. Stage'
  BY DEF Inv, Stage, Written, Said, ShutdownEnds, Listening, shellVars
<1>3. Earned'
  BY DEF Inv, Earned, ShutdownEnds, shellVars
<1> QED BY <1>1, <1>2, <1>3 DEF Inv

LEMMA RestartsKeeps == ASSUME Inv, Restarts PROVE Inv'
<1>1. TypeOK'
  <2>1. b' \in Accounts
    BY ZenonT(60), RestoredTyped, BegunTyped, RefusalTyped DEF Inv, TypeOK, Restarts, Accounts, States, Reasons,
       Blockers, Endings, CanPrompt, Restartable, Acceptable
  <2> QED BY <2>1, WrittenTyped DEF Inv, TypeOK, Restarts, Reasons, shellVars
<1>2. Stage'
  BY DEF Inv, Stage, Written, Said, Restarts, Listening, shellVars
<1>3. Earned'
  <2>1. CASE b' = [b EXCEPT !.errs = "none", !.state = "running", !.reason = "none", !.idle = FALSE]
    <3>1. b \in Accounts
      BY DEF Inv, TypeOK
    <3>2. b'.state = "running"
      BY ONLY <2>1, <3>1 DEF Accounts
    <3> QED BY <3>2 DEF Inv, Earned, Agrees, Restarts, shellVars
  <2>2. CASE UNCHANGED b
    BY <2>2 DEF Inv, Earned, Restarts, shellVars
  <2> QED BY <2>1, <2>2 DEF Restarts
<1> QED BY <1>1, <1>2, <1>3 DEF Inv

LEMMA RestartAnsweredKeeps == ASSUME Inv, RestartAnswered PROVE Inv'
<1>0. b \in Accounts /\ Agrees(b)
  BY DEF Inv, TypeOK, Earned
<1>1. \/ b' = b
      \/ \E idle \in BOOLEAN, s \in {"idle", "running"} : b' = [b EXCEPT !.idle = idle, !.state = s]
      \/ b' = [b EXCEPT !.state = "failed", !.reason = "failure"]
  BY DEF RestartAnswered
<1>2. b' \in Accounts /\ Agrees(b') /\ (b'.state = "done" => b.state = "done")
  BY <1>0, <1>1 DEF Accounts, Agrees, States, Reasons, Endings
<1>3. TypeOK'
  BY <1>2, WrittenTyped DEF Inv, TypeOK, RestartAnswered, StaysUp, Crash
<1>4. Stage'
  BY DEF Inv, Stage, Written, Said, RestartAnswered, Listening, Heard, StaysUp, Crash
<1>5. Earned'
  <2>1. /\ bridge' = "closing" /\ code' = 0 => taken # "none"
        /\ ops' \subseteq ops /\ UNCHANGED <<taken, step, report, left, asked>> /\ Listening
    BY DEF Inv, Earned, RestartAnswered, StaysUp, Crash, Heard
  <2>2. step = "review" /\ report # "complete"
    BY <2>1 DEF Inv, Stage
  <2> QED BY <1>2, <2>1, <2>2 DEF Inv, Earned
<1> QED BY <1>3, <1>4, <1>5 DEF Inv

LEMMA RestartUnverifiedKeeps == ASSUME Inv, RestartUnverified PROVE Inv'
<1>1. TypeOK'
  BY DEF Inv, TypeOK, RestartUnverified, shellVars
<1>2. Stage'
  BY DEF Inv, Stage, RestartUnverified, Listening, shellVars
<1>3. Earned'
  BY DEF Inv, Earned, RestartUnverified, shellVars
<1> QED BY <1>1, <1>2, <1>3 DEF Inv

LEMMA BridgeExitsKeeps == ASSUME Inv, BridgeExits PROVE Inv'
<1>1. TypeOK'
  <2>1. b' \in Accounts
    BY FreshTyped DEF BridgeExits
  <2> QED BY <2>1, SaidTyped, FreshTyped, KeptTyped DEF Inv, TypeOK, BridgeExits, Reasons, States
<1>2. Stage'
  BY DEF Inv, Stage, Said, Endings, BridgeExits, Listening
<1>3. Earned'
  BY DEF Inv, Earned, Agrees, BridgeExits, Fresh, NotAsked, Standing
<1> QED BY <1>1, <1>2, <1>3 DEF Inv

LEMMA ReportKeeps == ASSUME Inv, Report PROVE Inv'
<1>1. TypeOK'
  BY RefusalTyped DEF Inv, TypeOK, Report, Reasons, bridgeVars
<1>2. Stage'
  BY DEF Inv, Stage, Report, Listening, bridgeVars
<1>3. Earned'
  BY DEF Inv, Earned, Report, ValidEvents, bridgeVars
<1> QED BY <1>1, <1>2, <1>3 DEF Inv

LEMMA PartialReportKeeps == ASSUME Inv, PartialReport PROVE Inv'
<1>1. TypeOK'
  BY DEF Inv, TypeOK, PartialReport, bridgeVars
<1>2. Stage'
  BY DEF Inv, Stage, PartialReport, Listening, bridgeVars
<1>3. Earned'
  BY DEF Inv, Earned, PartialReport, bridgeVars
<1> QED BY <1>1, <1>2, <1>3 DEF Inv

LEMMA LastStatusKeeps == ASSUME Inv, LastStatus PROVE Inv'
<1>1. TypeOK'
  BY KeptTyped, LastWordTyped DEF Inv, TypeOK, LastStatus, bridgeVars
<1>2. Stage'
  BY DEF Inv, Stage, LastStatus, Listening, bridgeVars
<1>3. Earned'
  BY DEF Inv, Earned, LastStatus, bridgeVars
<1> QED BY <1>1, <1>2, <1>3 DEF Inv

LEMMA WindowSpentKeeps == ASSUME Inv, WindowSpent PROVE Inv'
<1>1. TypeOK'
  <2>1. b' \in Accounts
    BY FreshTyped DEF WindowSpent
  <2> QED BY <2>1, FreshTyped, KeptTyped, LastWordTyped DEF Inv, TypeOK, WindowSpent
<1>2. Stage'
  BY DEF Stage, WindowSpent, Listening
<1>3. Earned'
  BY DEF Inv, Earned, Agrees, WindowSpent, Fresh, NotAsked, Standing
<1> QED BY <1>1, <1>2, <1>3 DEF Inv

-----------------------------------------------------------------------------
(* The invariant. *)

LEMMA InitHolds == Init => Inv
<1> SUFFICES ASSUME Init PROVE Inv
  OBVIOUS
<1>1. TypeOK
  <2>1. status \in Statuses
    BY SaidTyped DEF Init, Reasons
  <2> QED BY <2>1, FreshTyped DEF Init, TypeOK, Results, Reasons
<1>2. Stage
  BY DEF Init, Stage, Listening, Said, Endings
<1>3. Earned
  BY DEF Init, Earned, Agrees, Fresh, NotAsked, Standing
<1> QED BY <1>1, <1>2, <1>3 DEF Inv

LEMMA NextKeeps == Inv /\ [Next]_vars => Inv'
<1> SUFFICES ASSUME Inv, [Next]_vars PROVE Inv'
  OBVIOUS
<1>1. CASE UNCHANGED vars
  BY <1>1 DEF vars, shellVars, bridgeVars, Inv, TypeOK, Stage, Listening, Earned
<1>2. CASE PiStep
  BY <1>2, PiWorksKeeps, AgentSettledKeeps, StderrTextKeeps, StdinErrorKeeps, TurnEndKeeps, AgentEndKeeps, StderrRefusalKeeps DEF PiStep
<1>3. CASE Command
  BY <1>3, TakePromptKeeps, TakeSteerKeeps, TakeAcceptKeeps, TakeCancelKeeps, TakeRestartKeeps DEF Command
<1>4. CASE BridgeStep
  BY <1>4, ChildIsIdleKeeps, FirstPromptKeeps, ChildClosesKeeps, PromptTakenKeeps, PromptRefusedKeeps,
     RestartsKeeps, RestartAnsweredKeeps, RestartUnverifiedKeeps DEF BridgeStep
<1>5. CASE ShellStep
  BY <1>5, LaunchKeeps, StartReviewKeeps, PrepareFailsKeeps, WindowSpentKeeps DEF ShellStep
<1>6. CASE WindDown
  BY <1>6, AcceptEndsKeeps, CancelEndsKeeps, ShutdownEndsKeeps, BridgeExitsKeeps, ReportKeeps, PartialReportKeeps,
     LastStatusKeeps DEF WindDown
<1> QED BY <1>1, <1>2, <1>3, <1>4, <1>5, <1>6 DEF Next

LEMMA Invariant == Spec => []Inv
BY InitHolds, NextKeeps, PTL DEF Spec

-----------------------------------------------------------------------------
(* The refinement of LanePromise. *)

Link == CASE bridge = "up" -> "up"
          [] bridge = "none" /\ step \notin {"ended", "dead"} -> "soon"
          [] OTHER -> "gone"
LastWordSaid == status.phase # "review" /\ status.state \in Endings

\* The bridge goes on, or closes, and nothing is reported.
LEMMA BridgeMaps ==
  ASSUME Inv, Listening, bridge' \in {bridge, "closing"}, UNCHANGED <<report, taken>>,
         status' = status \/ status'.phase = "review"
  PROVE  [Promise!LaneNext]_(Promise!laneVars)
<1>1. ~LastWordSaid /\ ~LastWordSaid'
  BY DEF Inv, Stage, LastWordSaid
<1>2. Link' = Link \/ (Link = "up" /\ Link' = "gone")
  BY DEF Listening, Link
<1> QED BY <1>1, <1>2 DEF Promise!LaneNext, Promise!Closes, Promise!laneVars, Link, LastWordSaid

LEMMA PiMaps == ASSUME Inv, PiStep PROVE [Promise!LaneNext]_(Promise!laneVars)
<1>1. /\ Listening /\ UNCHANGED <<report, taken>> /\ bridge' \in {bridge, "closing"}
      /\ status' = status \/ status'.phase = "review"
  <2>1. ASSUME NEW end, TurnEnd(end)
        PROVE  Listening /\ UNCHANGED <<report, taken>> /\ status'.phase = "review" /\ bridge' \in {bridge, "closing"}
    BY <2>1 DEF TurnEnd, Heard, Shutdown, StaysUp, Written, Said
  <2>2. ASSUME NEW cand, AgentEnd(cand)
        PROVE  Listening /\ UNCHANGED <<report, taken, bridge>> /\ status'.phase = "review"
    BY <2>2 DEF AgentEnd, Heard, Written, Said, shellVars
  <2>3. ASSUME NEW msg, StderrRefusal(msg)
        PROVE  Listening /\ UNCHANGED <<report, taken, bridge>> /\ status'.phase = "review"
    BY <2>3 DEF StderrRefusal, Heard, Written, Said, shellVars
  <2>4. ASSUME PiWorks \/ AgentSettled \/ StdinError
        PROVE  Listening /\ UNCHANGED <<report, taken, bridge>> /\ status'.phase = "review"
    BY <2>4 DEF PiWorks, AgentSettled, StdinError, Heard, Written, Said, shellVars
  <2>5. ASSUME StderrText
        PROVE  Listening /\ UNCHANGED <<report, taken, bridge, status>>
    BY <2>5 DEF StderrText, Heard, shellVars
  <2> QED BY <2>1, <2>2, <2>3, <2>4, <2>5 DEF PiStep
<1> QED BY <1>1, BridgeMaps

LEMMA CommandMaps == ASSUME Inv, Command PROVE [Promise!LaneNext]_(Promise!laneVars)
<1>1. CASE TakeAccept
  <2>1. Link = "up" /\ Link' = "up" /\ taken' \in Candidates /\ UNCHANGED report /\ LastWordSaid' = LastWordSaid
    BY <1>1 DEF TakeAccept, Acceptable, Link, LastWordSaid, Inv, TypeOK, Accounts, Results
  <2> QED BY <2>1 DEF Promise!LaneNext, Promise!Accept, Link, LastWordSaid
<1>2. CASE TakePrompt \/ TakeSteer \/ TakeCancel \/ TakeRestart
  <2>1. /\ Listening /\ bridge' = bridge /\ UNCHANGED <<report, taken>>
        /\ status' = status \/ status'.phase = "review"
    BY <1>2 DEF TakePrompt, CanPrompt, TakeSteer, TakeCancel, TakeRestart, Restartable, Listening, Written,
       Said, shellVars
  <2> QED BY <2>1, BridgeMaps
<1> QED BY <1>1, <1>2 DEF Command

LEMMA BridgeStepMaps == ASSUME Inv, BridgeStep PROVE [Promise!LaneNext]_(Promise!laneVars)
<1>1. Listening
  BY DEF BridgeStep, ChildIsIdle, FirstPrompt, ChildCloses, PromptTaken, PromptRefused, Restarts, RestartAnswered,
     RestartUnverified, Heard, Inv, Stage
<1>2. UNCHANGED <<report, taken>> /\ bridge' \in {bridge, "closing"} /\ (status' = status \/ status'.phase = "review")
  <2>1. ASSUME ChildCloses
        PROVE  UNCHANGED <<report, taken>> /\ bridge' \in {bridge, "closing"} /\ status'.phase = "review"
    BY <2>1 DEF ChildCloses, Shutdown, StaysUp, Crash, Written, Said
  <2>2. ASSUME Restarts \/ RestartAnswered \/ RestartUnverified
        PROVE  UNCHANGED <<report, taken>> /\ bridge' \in {bridge, "closing"} /\ (status' = status \/ status'.phase = "review")
    BY <2>2 DEF Restarts, RestartAnswered, RestartUnverified, Crash, StaysUp, Written, Said, shellVars
  <2>3. ASSUME ChildIsIdle \/ FirstPrompt \/ PromptTaken \/ PromptRefused
        PROVE  UNCHANGED <<report, taken>> /\ bridge' \in {bridge, "closing"} /\ (status' = status \/ status'.phase = "review")
    BY <2>3 DEF ChildIsIdle, FirstPrompt, PromptTaken, PromptRefused, Written, Said, shellVars
  <2> QED BY <2>1, <2>2, <2>3 DEF BridgeStep
<1> QED BY <1>1, <1>2, BridgeMaps

\* The bridge is gone for good: a report and the last word.
LEMMA ClosedMaps ==
  ASSUME ~LastWordSaid, Link' = "gone", taken' = taken,
         \/ report' = report
         \/ report = "none" /\ report' = "partial"
         \/ report = "none" /\ report' = "complete" /\ taken # "none" /\ Link = "gone"
  PROVE  [Promise!LaneNext]_(Promise!laneVars)
BY DEF Promise!LaneNext, Promise!Closes, Link, LastWordSaid

LEMMA ShellMaps == ASSUME Inv, ShellStep PROVE [Promise!LaneNext]_(Promise!laneVars)
<1>1. CASE Launch
  <2>1. Link' = Link /\ UNCHANGED <<report, taken>> /\ LastWordSaid' = LastWordSaid
    BY <1>1 DEF Launch, Inv, Stage, Link, LastWordSaid, Said, Endings, bridgeVars
  <2> QED BY <2>1 DEF Promise!laneVars, Link, LastWordSaid
<1>2. CASE StartReview
  <2>1. Link = "soon" /\ Link' = "up" /\ UNCHANGED <<report, taken>> /\ LastWordSaid' = LastWordSaid
    BY <1>2 DEF StartReview, Inv, Stage, Link, LastWordSaid, Written, Said
  <2> QED BY <2>1 DEF Promise!LaneNext, Promise!Opens, Link, LastWordSaid
<1>3. CASE PrepareFails
  <2>1. ~LastWordSaid /\ Link' = "gone" /\ UNCHANGED <<report, taken>>
    BY <1>3 DEF PrepareFails, Inv, Stage, Link, LastWordSaid, bridgeVars
  <2> QED BY <2>1, ClosedMaps
<1>4. CASE WindowSpent
  <2>1. ~LastWordSaid
    BY <1>4 DEF WindowSpent, Inv, Stage, LastWordSaid
  <2>2. Link' = "gone" /\ taken' = taken
    BY <1>4 DEF WindowSpent, Link
  <2>3. report' = report \/ (report = "none" /\ report' = "partial")
    BY <1>4 DEF WindowSpent
  <2> QED BY <2>1, <2>2, <2>3, ClosedMaps
<1> QED BY <1>1, <1>2, <1>3, <1>4 DEF ShellStep

LEMMA WindDownMaps == ASSUME Inv, WindDown PROVE [Promise!LaneNext]_(Promise!laneVars)
<1>1. ASSUME NEW verified \in BOOLEAN, AcceptEnds(verified) \/ CancelEnds(verified) \/ ShutdownEnds(verified)
      PROVE  [Promise!LaneNext]_(Promise!laneVars)
  <2>1. Listening
    BY <1>1 DEF AcceptEnds, CancelEnds, ShutdownEnds, Inv, Stage
  <2>2. UNCHANGED <<report, taken>> /\ status'.phase = "review" /\ bridge' \in {bridge, "closing"}
    BY <1>1 DEF AcceptEnds, CancelEnds, ShutdownEnds, Shutdown, Written, Said, shellVars
  <2> QED BY <2>1, <2>2, BridgeMaps
<1>2. CASE BridgeExits
  <2>1. ~LastWordSaid /\ Link' = "gone" /\ UNCHANGED <<report, taken>>
    BY <1>2 DEF BridgeExits, Inv, Stage, Listening, Link, LastWordSaid
  <2> QED BY <2>1, ClosedMaps
<1>3. CASE Report \/ PartialReport \/ LastStatus
  <2>1. ~LastWordSaid
    BY <1>3 DEF Report, PartialReport, LastStatus, Inv, Stage, LastWordSaid
  <2>2. bridge \notin {"up", "none"} /\ bridge' = bridge
    BY <1>3 DEF Report, PartialReport, LastStatus, Inv, Stage, bridgeVars
  <2>3. Link = "gone" /\ Link' = "gone"
    BY <2>2 DEF Link
  <2>4. taken' = taken /\ \/ report' = report
                          \/ report = "none" /\ report' = "partial"
                          \/ report = "none" /\ report' = "complete" /\ taken # "none"
    BY <1>3 DEF Report, PartialReport, LastStatus, Inv, Stage, Earned
  <2> QED BY <2>1, <2>3, <2>4, ClosedMaps
<1> QED BY <1>1, <1>2, <1>3 DEF WindDown

LEMMA Maps == Inv /\ [Next]_vars => [Promise!LaneNext]_(Promise!laneVars)
<1> SUFFICES ASSUME Inv, [Next]_vars PROVE [Promise!LaneNext]_(Promise!laneVars)
  OBVIOUS
<1>1. CASE UNCHANGED vars
  BY <1>1 DEF vars, shellVars, bridgeVars, Promise!laneVars
<1> QED BY <1>1, PiMaps, CommandMaps, BridgeStepMaps, ShellMaps, WindDownMaps DEF Next

LEMMA InitMaps == Init => Promise!LaneInit
BY DEF Init, Promise!LaneInit, Said, Endings

\* What an inspect shows is a view of the account, and a review is done by an accept.
LEMMA SeenIsALook == Inv => (bridge = "up" => Seen \in Promise!Looks)
<1> SUFFICES ASSUME Inv PROVE Seen \in Promise!Looks
  OBVIOUS
<1>1. b.state \in States /\ b.reason \in Reasons /\ b.cand \in Results /\ Agrees(b)
  BY DEF Inv, TypeOK, Accounts, Earned
<1> DEFINE r == CASE b.state \in Endings -> Reason(b.reason) [] b.state = "done" -> "other" [] OTHER -> "none"
           c == IF Acceptable \/ (b.state = "idle" /\ b.idle) THEN b.cand ELSE "busy"
<1>2. Seen = View(b.state, r, c)
  BY DEF Seen
<1>3. /\ b.state \in {"running", "idle"} => r = "none"
      /\ b.state \in {"done", "cancelled", "failed"} => r = "other"
      /\ b.state = "blocked" => r \in {"other", "auth_blocked"}
  BY <1>1 DEF Reason, Agrees, Endings, Blockers
<1>4. /\ b.state \in {"running", "done", "cancelled"} => c = "busy"
      /\ b.state = "idle" => c \in Results \union {"busy"}
      /\ b.state \in {"failed", "blocked"} => c \in Candidates \union {"busy"}
  BY <1>1 DEF Acceptable, Results
<1>5. Seen.state = b.state
  BY <1>2 DEF View
<1> HIDE DEF r, c
<1>6. Seen \in Views
  <2>1. CASE b.state \in {"running", "done", "cancelled"}
    BY <1>2, <1>3, <1>4, <2>1 DEF Views
  <2>2. CASE b.state = "idle"
    BY <1>2, <1>3, <1>4, <2>2 DEF Views
  <2>3. CASE b.state \in {"failed", "blocked"}
    <3>1. PICK e \in Ends : e.state = b.state /\ e.reason = r /\ e.state # "cancelled"
      BY <1>3, <2>3 DEF Ends
    <3>2. View(e.state, e.reason, c) \in Views
      BY <1>4, <2>3, <3>1 DEF Views
    <3> QED BY <1>2, <3>1, <3>2
  <2> QED BY <1>1, <2>1, <2>2, <2>3 DEF States, Endings
<1>7. b.state = "done" => taken # "none"
  BY DEF Inv, Earned
<1>8. Promise!Views = Views
  BY DEF Promise!Views, Views, Promise!View, View, Promise!Ends, Ends, Promise!Results, Results
<1> QED BY <1>5, <1>6, <1>7, <1>8 DEF Promise!Looks

-----------------------------------------------------------------------------
(* The results. *)

\* Each part of the container is what it may be (run_rpc_bridge, main of review-run.sh),
\* and no more prompts are counted than were sent.
THEOREM RunnerTypes == Spec => []TypeOK
<1>1. Inv => TypeOK
  BY DEF Inv
<1> QED BY <1>1, Invariant, PTL

\* A complete report is one of an accepted review that stopped by itself
\* (review-run.sh:1274-1330, 1452-1543).
THEOREM CompleteReportsEarned == Spec => []CompleteIsEarned
<1>1. Inv => CompleteIsEarned
  BY DEF Inv, Earned, CompleteIsEarned
<1> QED BY <1>1, Invariant, PTL

\* The container implements LanePromise, and what an inspect answers is one of its Looks
\* (review-run.sh:984-1005, 1039-1081, 1504-1531).
THEOREM PromiseKept == Spec => KeepsPromise
<1>1. Spec => Promise!LaneSpec
  BY InitMaps, Maps, Invariant, PTL DEF Spec, Promise!LaneSpec
<1>2. Spec => [](bridge = "up" => Seen \in Promise!Looks)
  BY SeenIsALook, Invariant, PTL
<1> QED BY <1>1, <1>2 DEF KeepsPromise
===============================================================================
