----------------------------- MODULE HybridEngine -----------------------------
(***************************************************************************)
(* The hybrid engine (src/hybrid.ts): reviewers and then verifiers, each a *)
(* Pi process under a deadline, whose reports are adjudicated into one     *)
(* receipt.  A lane is one runPi(): its kill timer, its report timer, its  *)
(* turn cap and the close of its process race, and a lane that is out of   *)
(* turns or nearly out of time is killed once and started again, without   *)
(* tools, to write its report.  Pi tries a failed turn again by itself, in *)
(* the same process (worker.ts, PI_REVIEW_SETTINGS): the attempt ends like *)
(* the lane would, its agent_end included, and the next turn follows.      *)
(*                                                                         *)
(* The engine is one event loop.  While it assigns candidates it handles   *)
(* no event, but time passes.  What a lane does when its process closes is *)
(* one step: resolving its promise, parsing its report and queueing the    *)
(* status that says so.  Status bodies are queued as they are made and     *)
(* written one after the other.                                            *)
(*                                                                         *)
(* NoCapCheck, ClearedForReport and OnlyFirst are faulty variants of the   *)
(* definition each precedes; no action uses them.                          *)
(***************************************************************************)
EXTENDS Naturals, Sequences, FiniteSets

CONSTANTS
  Reviewers,  \* reviewer lanes
  Keys,       \* what a finding is identified by: its location and mechanism
  FamilyOf,   \* the model family of each reviewer
  Verifiers,  \* the verifier families, in lanes.json order
  TurnCap,    \* turnCap
  PiRetries,  \* retry.maxRetries
  PerFamily,  \* verificationsPerFamily
  ReviewDeadline, RunDeadline, VerifyWindow,  \* in ticks
  MaxTurns,   \* bound: turns of each lane
  MaxFaults   \* bound: failed writes, failed packs and signals

VerifierFamilies == {Verifiers[i] : i \in DOMAIN Verifiers}
Families         == {FamilyOf[r] : r \in Reviewers} \union VerifierFamilies

ASSUME EngineAssumption ==
  /\ Reviewers \intersect Keys = {} /\ Reviewers # {}
  /\ "main" \notin Reviewers \union Keys   \* it awaits status bodies like a lane
  /\ {TurnCap, PerFamily, ReviewDeadline, VerifyWindow} \subseteq Nat \ {0}
  /\ {RunDeadline, PiRetries, MaxFaults} \subseteq Nat /\ MaxTurns \in [Reviewers \union Keys -> Nat]
  /\ ReviewDeadline <= RunDeadline
  /\ DOMAIN Verifiers = 1..Len(Verifiers)
  /\ \A i, j \in DOMAIN Verifiers : Verifiers[i] = Verifiers[j] => i = j

Lanes == Reviewers \union Keys   \* a candidate's verifier is named by its key
Texts == {"malformed", "partial", "complete"}

\* pi is where the lane's process is in its stream of events; procs, how many
\* processes the lane has started; fails, how many turns failed one after another;
\* wrote, that finalText is not empty; spoke (history), that it was not when Pi tried
\* a failed turn again.
Lane == [st : {"idle", "running", "killed", "saving", "settled", "broken"},
         pi : {"ready", "turn", "ending", "ended"}, procs : Nat, turns : Nat,
         last : {"none", "toolUse", "stop", "error"}, fails : Nat,
         wrote : BOOLEAN, spoke : BOOLEAN,
         cut : BOOLEAN, handoff : BOOLEAN, report : BOOLEAN, deadline : Nat]

Idle == [st |-> "idle", pi |-> "ready", procs |-> 0, turns |-> 0, last |-> "none",
         fails |-> 0, wrote |-> FALSE, spoke |-> FALSE, cut |-> FALSE,
         handoff |-> FALSE, report |-> FALSE, deadline |-> 0]

\* A lane whose process is gone is forgotten.
Over(st) == [Idle EXCEPT !.st = st]

VARIABLES
  now,
  main,      \* runHybrid(): where its code is
  phase,     \* status.phase
  queue,     \* status bodies to write: who awaits each, and its phase
  disk,      \* the phase in status.json
  lane,      \* each reviewer's and each verifier's runPi()
  outcome,   \* reviewerOutcomes
  row,       \* the status of each reviewer's lane row
  reports,   \* the candidates of each reviewer's parsed report
  todo,      \* candidates still to assign
  judge,     \* the family that was given a candidate
  verdict, reasons,
  receipt,
  faults

status  == <<phase, queue, disk>>
reviews == <<outcome, row, reports>>
rulings == <<todo, judge, verdict, reasons>>
vars == <<now, main, status, lane, reviews, rulings, receipt, faults>>

NoReceipt == [status |-> "none", candidates |-> {}, unverified |-> {}, reasons |-> {}]

Body(who) == [who |-> who, phase |-> phase']

Init ==
  /\ now = 0 /\ main = "opening" /\ phase = "reviewing" /\ disk = "none"
  /\ queue = <<[who |-> "main", phase |-> "reviewing"]>>
  /\ lane = [l \in Lanes |-> Idle]
  /\ outcome = [r \in Reviewers |-> "none"] /\ row = [r \in Reviewers |-> "none"]
  /\ reports = [r \in Reviewers |-> {}]
  /\ todo = {} /\ judge = [k \in Keys |-> "none"]
  /\ verdict = [k \in Keys |-> "none"] /\ reasons = {}
  /\ receipt = NoReceipt /\ faults = 0

Fault == faults < MaxFaults /\ faults' = faults + 1

\* The event loop is free.
Listening == main \notin {"opening", "assigning", "ended"}

Tick ==
  /\ now < RunDeadline /\ main # "ended"
  /\ now' = now + 1
  /\ UNCHANGED <<main, status, lane, reviews, rulings, receipt, faults>>

-----------------------------------------------------------------------------
(* runPi(): one lane *)

Live(l) == lane[l].st \in {"running", "killed"}

\* A process started for lane record r: the first, or the one for the report.
Spawned(r) == [r EXCEPT !.st = "running", !.pi = "ready", !.procs = @ + 1, !.fails = 0]

\* A killed process's last lines count unless the lane killed it.
Hears(l) == Listening /\ Live(l) /\ ~lane[l].cut /\ ~lane[l].handoff

LaneStep(l, r) ==
  /\ lane' = [lane EXCEPT ![l] = r]
  /\ UNCHANGED <<now, main, status, reviews, rulings, receipt, faults>>

\* requestReport() has something to do: there is no report, and none was asked for.
NeedsReport(r) == ~r.cut /\ ~r.report /\ ~r.handoff /\ ~r.wrote

AskReport(r) == [r EXCEPT !.handoff = TRUE, !.st = "killed"]

\* kill(): nothing the lane has heard counts any more.
Cut(l) == [Over("killed") EXCEPT !.cut = TRUE, !.procs = lane[l].procs]

NoCapCheck(r) == FALSE

PastCap(r) == r.report /\ r.turns > TurnCap

TurnStarts(l) ==
  /\ Hears(l) /\ lane[l].pi = "ready" /\ lane[l].turns < MaxTurns[l]
  /\ LaneStep(l, IF PastCap(lane[l])
                 THEN Cut(l)
                 ELSE [lane[l] EXCEPT !.pi = "turn"])

TurnEnds(l, stop) ==
  LET r == [lane[l] EXCEPT !.turns = @ + 1, !.last = stop,
                           !.fails = IF stop = "error" THEN @ + 1 ELSE 0,
                           !.pi = IF stop = "toolUse" THEN "ready" ELSE "ending"]
  IN /\ Hears(l) /\ lane[l].pi = "turn"
     /\ LaneStep(l, IF r.turns >= TurnCap /\ stop = "toolUse" /\ NeedsReport(r)
                    THEN AskReport(r) ELSE r)

\* Pi may try a failed turn again, a transient failure as it judges it.
Retries(r) == r.last = "error" /\ r.fails <= PiRetries

\* The last message's text is the lane's, also that of a failed attempt.
AgentEnds(l, wrote, again) ==
  /\ Hears(l) /\ lane[l].pi = "ending" /\ (again => Retries(lane[l]))
  /\ LaneStep(l, [lane[l] EXCEPT !.pi = IF again THEN "ready" ELSE "ended",
                                 !.wrote = wrote, !.spoke = @ \/ (again /\ wrote)])

ClearedForReport(r) == now >= r.deadline /\ ~r.cut /\ ~r.report

\* The kill timer is cleared by nothing but the lane's end.
Expired(r) == now >= r.deadline /\ ~r.cut

KillTimer(l) ==
  /\ Listening /\ Live(l) /\ Expired(lane[l])
  /\ LaneStep(l, Cut(l))

\* A quarter of the lane's time, at most a minute, is kept for the report: one tick.
ReportTimer(l) ==
  /\ Listening /\ Live(l) /\ now + 1 >= lane[l].deadline /\ NeedsReport(lane[l])
  /\ LaneStep(l, AskReport(lane[l]))

InTime(r) == r.handoff /\ ~r.cut /\ now < r.deadline

ReportStarts(l) ==
  /\ Listening /\ lane[l].st = "killed" /\ InTime(lane[l])
  /\ LaneStep(l, Spawned([lane[l] EXCEPT !.handoff = FALSE, !.report = TRUE]))

\* The lane's process closed, and no other is started: its status.
LaneStatus(r, code) ==
  IF r.cut \/ r.handoff THEN "cut"
  ELSE IF code = 0 /\ r.last # "error" THEN "completed" ELSE "failed"

-----------------------------------------------------------------------------
(* The status file, and the ends of the run *)

\* stop(): every process is killed.
Stopped(lanes) ==
  [l \in Lanes |-> IF lanes[l].st = "running" THEN [lanes[l] EXCEPT !.st = "killed"]
                   ELSE lanes[l]]

\* The run ends through its finally clause.
Ends(lanes) == main' = "ended" /\ lane' = Stopped(lanes)

\* The catch clause: the failed phase is queued like any other.
Catch ==
  /\ main' = "failing" /\ phase' = "failed"
  /\ queue' = Append(queue, Body("main"))
  /\ UNCHANGED disk

\* A reviewer's packing may throw; the others are started.
Launch(failing) ==
  lane' = [l \in Lanes |->
             IF l \in Keys THEN lane[l]
             ELSE IF l \in failing THEN [lane[l] EXCEPT !.st = "broken"]
             ELSE Spawned([lane[l] EXCEPT !.deadline = ReviewDeadline])]

\* The first body lands, and who awaits it goes on.
StatusWritten ==
  LET b == Head(queue) IN
  /\ queue # <<>> /\ main # "ended" /\ main # "assigning"
  /\ disk' = b.phase
  /\ queue' = Tail(queue)
  /\ UNCHANGED phase
  /\ CASE b.who # "main" -> lane' = [lane EXCEPT ![b.who].st = "settled"] /\ UNCHANGED main
       [] b.who = "main" /\ main = "opening" -> main' = "reviewing" /\ Launch({})
       [] b.who = "main" /\ main = "collapsing" -> main' = "assigning" /\ UNCHANGED lane
       [] b.who = "main" /\ main \in {"closing", "failing"} -> Ends(lane)
  /\ UNCHANGED <<now, reviews, rulings, receipt, faults>>

\* A write that fails fails every later one, the failed phase's too: the run ends.
StatusFails ==
  /\ queue # <<>> /\ main # "ended" /\ main # "assigning" /\ Fault
  /\ IF main = "opening" THEN UNCHANGED phase ELSE phase' = "failed"
  /\ queue' = <<>> /\ UNCHANGED disk
  /\ Ends(lane)
  /\ UNCHANGED <<now, reviews, rulings, receipt>>

PackFails ==
  /\ main = "opening" /\ queue # <<>> /\ Fault
  /\ disk' = "reviewing" /\ phase' = "failed" /\ main' = "failing"
  /\ queue' = <<Body("main")>>
  /\ \E r \in Reviewers : Launch({r})
  /\ UNCHANGED <<now, reviews, rulings, receipt>>

\* SIGINT or SIGTERM: the lanes are killed, the run goes on.
Signal ==
  /\ Listening /\ Fault
  /\ lane' = Stopped(lane)
  /\ UNCHANGED <<now, main, status, reviews, rulings, receipt>>

-----------------------------------------------------------------------------
(* Reviewers *)

\* parseCandidates(): what a report holds.
Parsed(text, found) == IF text \in {"partial", "complete"} THEN found ELSE {}


\* Only a lane that completed has its report parsed.
Reported(s, text, found) == IF s = "completed" THEN Parsed(text, found) ELSE {}

RowStatus(s, text) ==
  CASE s = "completed" /\ text = "complete" -> "completed"
    [] s = "completed" /\ text = "partial" -> "blocked"
    [] s = "completed" /\ text \notin {"complete", "partial"} -> "malformed"
    [] s = "cut" -> "cancelled"
    [] s = "failed" -> "failed"

ReviewerCloses(r, code, text, found) ==
  LET s == LaneStatus(lane[r], code) IN
  /\ Listening /\ Live(r) /\ ~InTime(lane[r])
  /\ lane[r].wrote \/ text = "malformed"
  /\ outcome' = [outcome EXCEPT ![r] = s]
  /\ row' = [row EXCEPT ![r] = RowStatus(s, text)]
  /\ reports' = [reports EXCEPT ![r] = Reported(s, text, found)]
  /\ lane' = [lane EXCEPT ![r] = Over("saving")]
  /\ UNCHANGED phase /\ queue' = Append(queue, Body(r))
  /\ UNCHANGED <<now, main, disk, rulings, receipt, faults>>

-----------------------------------------------------------------------------
(* Verifiers *)

\* collapseIdenticalCandidates(): one candidate for each location and mechanism.
Candidates == UNION {reports[r] : r \in Reviewers}

Collapse ==
  /\ main = "reviewing" /\ \A r \in Reviewers : lane[r].st = "settled"
  /\ main' = "collapsing" /\ phase' = "verifying" /\ todo' = Candidates
  /\ queue' = Append(queue, Body("main"))
  /\ UNCHANGED <<now, disk, lane, reviews, judge, verdict, reasons, receipt, faults>>

Finders(k) == {FamilyOf[r] : r \in {q \in Reviewers : k \in reports[q]}}

With(s) == {FamilyOf[r] : r \in {q \in Reviewers : outcome[q] = s}}


\* The families that may rule on a candidate.
Eligible(k) == VerifierFamilies \ (Finders(k) \union With("failed"))

Open(k) == {f \in Eligible(k) : Cardinality({c \in Keys : judge[c] = f}) < PerFamily}

\* The first of some families, in lanes.json order: at most one.
FirstOf(S) ==
  {f \in S : \A g \in S : \A i, j \in DOMAIN Verifiers :
                (Verifiers[i] = f /\ Verifiers[j] = g) => i <= j}

\* A family whose reviewer was cut rules only if no other can.
Chosen(k) == IF Open(k) \ With("cut") # {} THEN FirstOf(Open(k) \ With("cut"))
             ELSE FirstOf(Open(k))

Sooner(a, b) == IF a <= b THEN a ELSE b

\* One candidate, most severe first.
Assign(k) ==
  /\ main = "assigning" /\ k \in todo
  /\ todo' = todo \ {k}
  /\ IF Chosen(k) = {} \/ now >= RunDeadline
     THEN reasons' = reasons \union {k} /\ UNCHANGED <<judge, lane>>
     ELSE /\ \E f \in Chosen(k) : judge' = [judge EXCEPT ![k] = f]
          /\ lane' = [lane EXCEPT ![k] = Spawned([Idle EXCEPT
                        !.deadline = Sooner(now + VerifyWindow, RunDeadline)])]
          /\ UNCHANGED reasons
  /\ UNCHANGED <<now, main, status, reviews, verdict, receipt, faults>>

\* Its brief or its pack throws: it has its family's share and no lane.
BriefFails(k) ==
  /\ main = "assigning" /\ k \in todo /\ Fault
  /\ todo' = todo \ {k}
  /\ \E f \in Chosen(k) : judge' = [judge EXCEPT ![k] = f]
  /\ lane' = [lane EXCEPT ![k].st = "broken"]
  /\ UNCHANGED <<now, main, status, reviews, verdict, reasons, receipt>>

Assigned ==
  /\ main = "assigning" /\ todo = {}
  /\ IF \E k \in Keys : lane[k].st = "broken" THEN Catch
     ELSE main' = "verifying" /\ UNCHANGED status
  /\ UNCHANGED <<now, lane, reviews, rulings, receipt, faults>>

\* A verifier that did not rule is the reason.
Explained(k, ruled) == reasons' = IF ruled THEN reasons ELSE reasons \union {k}

\* A report for one candidate is a ruling on it, or malformed.
VerifierCloses(k, code, text) ==
  LET ruled == LaneStatus(lane[k], code) = "completed" /\ text = "complete" IN
  /\ Listening /\ Live(k) /\ ~InTime(lane[k])
  /\ lane[k].wrote \/ text = "malformed"
  /\ UNCHANGED phase
  /\ IF ruled
     THEN /\ verdict' = [verdict EXCEPT ![k] = "ruled"]
          /\ lane' = [lane EXCEPT ![k] = Over("saving")]
          /\ queue' = Append(queue, Body(k))
     ELSE /\ lane' = [lane EXCEPT ![k] = Over("settled")]
          /\ UNCHANGED <<verdict, queue>>
  /\ Explained(k, ruled)
  /\ UNCHANGED <<now, main, disk, reviews, todo, judge, receipt, faults>>

-----------------------------------------------------------------------------
(* The receipt *)

OnlyFirst == {k \in Candidates : judge[k] # "none" /\ verdict[k] = "none"}

\* applyVerdicts(): a candidate without a verdict is unverified.
Unverified == {k \in Candidates : verdict[k] = "none"}

Complete == (\A r \in Reviewers : row[r] = "completed") /\ Unverified = {}


\* Every verifier has returned.
Verified == \A k \in Keys : lane[k].st \in {"idle", "settled"}

Adjudicate ==
  /\ main = "verifying" /\ Verified
  /\ receipt' = [status |-> IF Complete THEN "completed" ELSE "partial",
                 candidates |-> Candidates, unverified |-> Unverified,
                 reasons |-> reasons]
  /\ phase' = "done" /\ main' = "closing"
  /\ queue' = Append(queue, Body("main"))
  /\ UNCHANGED <<now, disk, lane, reviews, rulings, faults>>

\* The receipt is not publishable, or cannot be written.
ReceiptFails ==
  /\ main = "verifying" /\ Verified
  /\ Fault /\ Catch
  /\ UNCHANGED <<now, lane, reviews, rulings, receipt>>

-----------------------------------------------------------------------------
Stops == {"toolUse", "stop", "error"}

PiStep(l) == \/ TurnStarts(l)
             \/ \E stop \in Stops : TurnEnds(l, stop)
             \/ \E wrote, again \in BOOLEAN : AgentEnds(l, wrote, again)

Timers(l) == KillTimer(l) \/ ReportTimer(l)

Closes(l) ==
  \/ ReportStarts(l)
  \/ /\ l \in Reviewers
     /\ \E code \in {0, 1}, text \in Texts, found \in SUBSET Keys : ReviewerCloses(l, code, text, found)
  \/ /\ l \in Keys
     /\ \E code \in {0, 1}, text \in {"malformed", "complete"} : VerifierCloses(l, code, text)

MainStep == \/ StatusWritten \/ Collapse \/ (\E k \in Keys : Assign(k))
            \/ Assigned \/ Adjudicate

Failures == \/ StatusFails \/ PackFails \/ Signal \/ ReceiptFails
            \/ \E k \in Keys : BriefFails(k)

Next == \/ Tick \/ MainStep \/ Failures
        \/ \E l \in Lanes : PiStep(l) \/ Timers(l) \/ Closes(l)

Spec == Init /\ [][Next]_vars

(***************************************************************************)
(* Time passes, timers fire, a killed process closes and the engine's own  *)
(* steps go on.  Pi itself may hang for ever.                              *)
(***************************************************************************)
Fairness ==
  /\ WF_vars(Tick) /\ WF_vars(MainStep)
  /\ \A l \in Lanes : /\ WF_vars(KillTimer(l))
                      /\ WF_vars(lane[l].st = "killed" /\ Closes(l))

FairSpec == Spec /\ Fairness

-----------------------------------------------------------------------------
(* Properties *)

\* Every variable has its type; a status body is awaited by a lane that waits for
\* it or by the run (writeStatus), and a lane asked for its report has not been
\* asked before (runPi).
TypeOK ==
  /\ now \in 0..RunDeadline
  /\ main \in {"opening", "reviewing", "collapsing", "assigning", "verifying",
               "closing", "failing", "ended"}
  /\ phase \in {"reviewing", "verifying", "done", "failed"}
  /\ queue \in Seq([who : Lanes \union {"main"},
                    phase : {"reviewing", "verifying", "done", "failed"}])
  /\ \A i \in DOMAIN queue : queue[i].who # "main" => lane[queue[i].who].st = "saving"
  /\ disk \in {"none", "reviewing", "verifying", "done", "failed"}
  /\ lane \in [Lanes -> Lane]
  /\ \A l \in Lanes : ~(lane[l].handoff /\ lane[l].report)
  /\ outcome \in [Reviewers -> {"none", "completed", "failed", "cut"}]
  /\ row \in [Reviewers -> {"none", "completed", "blocked", "malformed", "cancelled", "failed"}]
  /\ reports \in [Reviewers -> SUBSET Keys] /\ todo \subseteq Keys
  /\ judge \in [Keys -> Families \union {"none"}]
  /\ verdict \in [Keys -> {"none", "ruled"}] /\ reasons \subseteq Keys
  /\ receipt \in [status : {"none", "completed", "partial"}, candidates : SUBSET Keys,
                  unverified : SUBSET Keys, reasons : SUBSET Keys]
  /\ faults \in 0..MaxFaults

\* How far a lane may go beyond its cap: as long as Pi tries a failed turn again, and
\* one turn for the report.
Beyond == IF PiRetries = 0 THEN 1 ELSE PiRetries

\* A lane runs Pi at most twice and is asked for its report once; it has at most one
\* turn beyond its cap, or the turns that failed in a row and that Pi tries again,
\* whichever of the report timer, the turn cap and the kill timer comes first, unless
\* a failed attempt had left text: then requestReport() takes the lane for one that
\* has its report.  And none runs on when the run has ended, well or not (runPi,
\* stop).
LaneIsBounded ==
  /\ TypeOK
  /\ \A l \in Lanes :
       /\ lane[l].procs <= 2
       /\ ~lane[l].spoke => lane[l].turns <= TurnCap + Beyond
       /\ main = "ended" => lane[l].st # "running"

VerifierIsIndependent ==
  \A k \in Keys : verdict[k] # "none" =>
    \A r \in Reviewers :
      FamilyOf[r] = judge[k] => k \notin reports[r] /\ outcome[r] # "failed"

CandidatesAccounted ==
  /\ receipt.status = "completed" =>
       /\ \A k \in receipt.candidates : verdict[k] # "none"
       /\ \A r \in Reviewers : outcome[r] = "completed"
  /\ receipt.unverified \subseteq receipt.reasons

OnlyWholeReportsCount ==
  receipt.status # "none" =>
    receipt.candidates = UNION {reports[r] : r \in {q \in Reviewers : outcome[q] = "completed"}}

DoneIsFinal ==
  disk = "done" =>
    /\ receipt.status # "none" /\ queue = <<>>
    /\ \A l \in Lanes : lane[l].st \in {"idle", "settled"}

\* A completed receipt has a verdict on every candidate and no reviewer that was
\* cut, failed or malformed, and in any other a candidate without a verdict says
\* why; the candidates are those of the lanes that completed and of no other; each
\* is ruled on by an independent family, in whatever order the lanes ended; and
\* once status.json says done the receipt is there and nothing changes it
\* (README.md, runHybrid, writeStatus).
ReceiptTellsTheTruth ==
  VerifierIsIndependent /\ CandidatesAccounted /\ OnlyWholeReportsCount /\ DoneIsFinal

\* The run ends, whatever Pi does.
RunEnds == <>(main = "ended")
===============================================================================
