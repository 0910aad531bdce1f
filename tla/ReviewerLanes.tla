----------------------------- MODULE ReviewerLanes -----------------------------
(***************************************************************************)
(* A swarm run with one verifier (main of src/swarm.ts): its preparation,  *)
(* the reviewer lanes and their relaunches, the verifier that may be       *)
(* started beside them and told later what to rule on, and the receipt.    *)
(* A lane is a detached driver ("sandbox"), a driver in an Orca terminal   *)
(* ("orca", with src/orca.ts) or a request of this process ("packed").     *)
(*                                                                         *)
(* How one launch of a lane ends, and what it leaves to be read, is an     *)
(* End; the drivers themselves are LocalLane and CloudLane.  Two ledgers   *)
(* are kept: one row for each launch (attempt.ts), and the terminals       *)
(* opened (orca.ts), each of which may stop being writable.                *)
(*                                                                         *)
(* PackedOnly, ForgetsRelaunched, SwallowsFailure and WindowOnly are       *)
(* faulty variants of the definition each precedes; no action uses them.   *)
(***************************************************************************)
EXTENDS Naturals, Sequences, FiniteSets

CONSTANTS
  Reviewers,
  Files,        \* the changed files
  Relaunches,   \* LANE_RELAUNCHES
  Limit         \* MAX_CONCURRENT_LANES

ASSUME LanesAssumption ==
  "verifier" \notin Reviewers /\ Relaunches \in Nat /\ Limit \in Nat \ {0}

Lanes == Reviewers \union {"verifier"}

VARIABLES
  mode,     \* how lanes are run
  main,     \* where main is
  abort,    \* why the run is cut: "none", "interrupted" or "deadline"
  plan,     \* the files assigned to each reviewer
  refused,  \* lanes whose model the canary refused
  lane,     \* each lane
  rows,     \* pi-sessions.json: the status of each launch of each lane
  brief,    \* what a verifier started early was told: "none", "null" or "ids"
  entries,  \* the terminals recorded, and
  disk,     \*   those of orca-lanes.json
  broken,   \* the ledgers that can no longer be written
  receipt   \* the status in swarm-receipt.json

vars == <<mode, main, abort, plan, refused, lane, rows, brief, entries, disk, broken, receipt>>
given == <<mode, plan, refused>>

-----------------------------------------------------------------------------
(* The end of a launch: exit code 0, the outcome in the lane's receipt,      *)
(* whether that counts requests, and the answer: "bad" is unsealed, partial, *)
(* cut or against the contract, "found" has a candidate, "clean" has none.   *)

End(ok, outcome, asked, answer) == [ok |-> ok, outcome |-> outcome, asked |-> asked, answer |-> answer]
NoEnd == End(FALSE, "none", FALSE, "none")
EndStates == [ok : BOOLEAN, outcome : {"none", "damaged", "failed", "interrupted", "completed"}, asked : BOOLEAN,
              answer : {"none", "bad", "clean", "found"}]
Answered == {end \in EndStates : end.ok /\ end.outcome = "completed" /\ end.asked /\ end.answer # "none"}
\* The last one is an answer whose sandbox could not be stopped.
Failures ==
  {end \in EndStates :
     /\ ~end.ok
     /\ \/ end.outcome \in {"none", "damaged"} /\ ~end.asked /\ end.answer \in {"none", "bad"}
        \/ end.outcome \in {"failed", "interrupted"} /\ end.answer = "bad"
        \/ end.outcome = "completed" /\ end.asked /\ end.answer = "found"}
Unused == End(TRUE, "completed", FALSE, "none")

\* Only an absent receipt, or one that counts no request, is a record of nothing.
NeverReachedModel(end) == end.outcome \in {"none", "failed", "interrupted"} /\ ~end.asked

Verdicts == {"completed", "failed", "cancelled", "not_run"}
LaneStates ==
  [pc : {"todo", "opening", "recording", "sending", "running", "reclaiming", "asking", "settled", "backoff", "done"},
   launch : Nat, cut : BOOLEAN, unknown : BOOLEAN, status : {"none"} \union Verdicts, end : EndStates]

Init ==
  /\ mode \in {"sandbox", "orca", "packed"} /\ main = "prepare" /\ abort = "none"
  /\ plan = [l \in Reviewers |-> {}] /\ refused = {}
  /\ lane = [l \in Lanes |-> [pc |-> "todo", launch |-> 0, cut |-> FALSE, end |-> NoEnd,
                              unknown |-> FALSE, status |-> "none"]]
  /\ rows = [l \in Lanes |-> <<>>] /\ brief = "none"
  /\ entries = {} /\ disk = {} /\ broken = {} /\ receipt = "none"

Moves(l, changed) == lane' = [lane EXCEPT ![l] = changed]
Becomes(l, pc)    == Moves(l, [lane[l] EXCEPT !.pc = pc])
Settles(l, end)   == Moves(l, [lane[l] EXCEPT !.pc = "settled", !.end = end])
Aborts(reason)    == abort' = IF abort = "none" THEN reason ELSE abort
At(l, pc)         == lane[l].pc = pc /\ main \notin {"over", "threw"}
Ledgers           == <<rows, entries, disk, broken>>
LaneOnly          == UNCHANGED <<given, main, brief, receipt>>

\* WindowOnly leaves the swarm's own signal out.
WindowOnly(l) == lane[l].cut
Signalled(l)  == lane[l].cut \/ abort # "none"

-----------------------------------------------------------------------------
(* Preparation. *)

\* Every file to every lane if they are few or a pack holds them all, else dealt one by one.
Assigned(files, whole) ==
  IF whole \/ Cardinality(files) < Cardinality(Reviewers)
  THEN [l \in Reviewers |-> files]
  ELSE CHOOSE deal \in [Reviewers -> SUBSET files] :
         /\ UNION {deal[l] : l \in Reviewers} = files
         /\ \A l, k \in Reviewers : deal[l] # {} /\ (l # k => deal[l] \intersect deal[k] = {})

\* A packed run leaves out the files that no pack holds.
Assignments ==
  IF mode = "packed"
  THEN {Assigned(files, whole) : files \in SUBSET Files \ {{}}, whole \in BOOLEAN}
  ELSE {Assigned(Files, FALSE)}

\* A stage fails, the abort among the reasons: the receipt says so and main throws.
PreparationFails ==
  /\ main = "prepare" /\ main' = "threw" /\ receipt' = "failed"
  /\ UNCHANGED <<given, abort, lane, brief>> /\ UNCHANGED Ledgers

Open(l) == rows' = [rows EXCEPT ![l] = Append(@, "open")]
Finishes(l, status) == rows' = [rows EXCEPT ![l] = [@ EXCEPT ![Len(@)] = status]]

\* A process the launch before left unknown is forgotten: its row says relaunched.
Launched(l) ==
  [lane[l] EXCEPT !.launch = @ + 1, !.cut = FALSE, !.end = NoEnd, !.unknown = FALSE,
                  !.pc = CASE mode = "packed" -> "asking" [] mode = "orca" -> "opening" [] OTHER -> "running"]

\* The models of a packed run that the canary refused.
Refusals == IF mode = "packed" THEN SUBSET Lanes ELSE {{}}

\* A sandbox verifier starts with the reviewers and waits for its brief.
WarmStart ==
  IF mode = "sandbox" /\ abort = "none"
  THEN Open("verifier") /\ Moves("verifier", Launched("verifier"))
  ELSE UNCHANGED <<rows, lane>>

Prepared ==
  /\ main = "prepare" /\ main' = "lanes"
  /\ plan' \in Assignments /\ refused' \in Refusals
  /\ WarmStart
  /\ UNCHANGED <<mode, abort, brief, entries, disk, broken, receipt>>

-----------------------------------------------------------------------------
(* A launch. *)

Working == {l \in Reviewers : lane[l].pc \notin {"todo", "done"}}

\* A lane begun after the abort is not launched.
Skips(l) == Moves(l, [lane[l] EXCEPT !.pc = "done", !.status = "cancelled"]) /\ UNCHANGED rows

Starts(l) ==
  /\ Open(l)
  /\ IF l \in refused THEN Settles(l, End(FALSE, "failed", FALSE, "bad")) ELSE Moves(l, Launched(l))

Begin(l) ==
  /\ main = "lanes" /\ l \in Reviewers /\ At(l, "todo") /\ Cardinality(Working) < Limit
  /\ IF abort = "none" THEN Starts(l) ELSE Skips(l)
  /\ LaneOnly /\ UNCHANGED <<abort, entries, disk, broken>>

\* A packed reviewer's answer that cannot be read is asked for once more.
Asks(l) ==
  /\ At(l, "asking")
  /\ \/ \E end \in Answered \union {End(FALSE, "failed", FALSE, "bad")} : Settles(l, end)
     \/ /\ l # "verifier" /\ lane[l].launch = 1 /\ abort = "none"
        /\ Moves(l, [lane[l] EXCEPT !.launch = 2])
  /\ LaneOnly /\ UNCHANGED <<abort, Ledgers>>

\* Orca: the terminal is opened empty, its handle written down, and only then
\* is the driver sent to it.
OpenTerminal(l) ==
  /\ At(l, "opening")
  /\ \/ Becomes(l, "recording") /\ entries' = entries \union {<<l, lane[l].launch>>} /\ UNCHANGED abort
     \/ Settles(l, NoEnd) /\ Aborts("interrupted") /\ UNCHANGED entries
  /\ LaneOnly /\ UNCHANGED <<rows, disk, broken>>

\* SwallowsFailure catches the write's error, as the ledger's other writes do.
SwallowsFailure(written) == "sending"
AfterRecord(written) == IF written THEN "sending" ELSE "reclaiming"

\* A failed write fails every later one; a lane recorded after the abort is not started.
Record(l) ==
  /\ At(l, "recording")
  /\ \E written \in {"terminals" \notin broken, FALSE} :
       /\ disk' = IF written THEN entries ELSE disk
       /\ broken' = IF written THEN broken ELSE broken \union {"terminals"}
       /\ IF written /\ Signalled(l)
          THEN Settles(l, NoEnd) /\ UNCHANGED abort
          ELSE Becomes(l, AfterRecord(written)) /\ IF written THEN UNCHANGED abort ELSE Aborts("interrupted")
  /\ LaneOnly /\ UNCHANGED <<rows, entries>>

SendDriver(l) ==
  /\ At(l, "sending")
  /\ \/ Becomes(l, "running") /\ UNCHANGED abort
     \/ Becomes(l, "reclaiming") /\ Aborts("interrupted")
  /\ LaneOnly /\ UNCHANGED Ledgers

\* A verifier that waits for its brief has no answer, and no work with a null one.
Fits(l, end) ==
  l = "verifier" /\ mode = "sandbox" /\ brief # "ids" =>
    \/ end \in {NoEnd, End(FALSE, "failed", FALSE, "bad")}
    \/ brief = "null" /\ end = Unused

DriverEnds(l) ==
  /\ At(l, "running")
  /\ \E end \in Answered \union Failures \union {Unused} :
       /\ end = Unused => brief = "null"
       /\ Fits(l, end) /\ Settles(l, end)
  /\ LaneOnly /\ UNCHANGED <<abort, Ledgers>>

\* An exit code of 0 does not count beside an unknown process.
Returned(end, unknown) == [end EXCEPT !.ok = @ /\ ~unknown]

SettlesUnknown(l, end, unknown) ==
  Moves(l, [lane[l] EXCEPT !.pc = "settled", !.end = Returned(end, unknown), !.unknown = unknown])

\* What a driver left that was cut, or the cancel of the container it kept.
Remnants == Answered \union Failures

\* The signal: SIGINT, then SIGKILL or, of a terminal, a close that may not be
\* confirmed and is followed by a last look for the exit code.
Stopped(l) ==
  /\ At(l, "running") /\ Signalled(l)
  /\ \/ \E end \in Remnants, unknown \in {FALSE, mode = "orca"} :
          Fits(l, end) /\ SettlesUnknown(l, end, unknown)
     \/ /\ mode = "orca"
        /\ \E unknown \in BOOLEAN : Moves(l, [lane[l] EXCEPT !.pc = "reclaiming", !.unknown = unknown])
  /\ LaneOnly /\ UNCHANGED <<abort, Ledgers>>

\* The terminal is gone and left no exit code.
TerminalLost(l) ==
  /\ mode = "orca" /\ At(l, "running") /\ Becomes(l, "reclaiming")
  /\ LaneOnly /\ UNCHANGED <<abort, Ledgers>>

\* The driver's own cancel, in a process of its own that may fail or take too long.
Reclaim(l) ==
  /\ At(l, "reclaiming")
  /\ \E end \in Failures, failed \in BOOLEAN : SettlesUnknown(l, end, lane[l].unknown \/ failed)
  /\ LaneOnly /\ UNCHANGED <<abort, Ledgers>>

-----------------------------------------------------------------------------
(* After a launch. *)

\* The verifier's relaunches look at the swarm's signal only.
Over(l) == IF l = "verifier" THEN abort # "none" ELSE Signalled(l)

MayLaunch(l)  == lane[l].launch <= Relaunches
Repeats(l)    == mode # "packed" /\ MayLaunch(l) /\ ~Over(l) /\ NeverReachedModel(lane[l].end)
Turn(l)       == main = IF l = "verifier" THEN "verify" ELSE "lanes"

BacksOff(l) ==
  /\ Turn(l) /\ At(l, "settled") /\ Repeats(l)
  /\ Finishes(l, "relaunched") /\ Becomes(l, "backoff")
  /\ LaneOnly /\ UNCHANGED <<abort, entries, disk, broken>>

\* ForgetsRelaunched launches again under the row it has.
ForgetsRelaunched(l) == UNCHANGED rows
Claims(l) == Open(l)

Relaunch(l) ==
  /\ At(l, "backoff") /\ ~Over(l)
  /\ Claims(l) /\ Moves(l, Launched(l))
  /\ LaneOnly /\ UNCHANGED <<abort, entries, disk, broken>>

Whole == {"clean", "found"}

Status(l) ==
  CASE abort # "none" \/ lane[l].end.outcome = "interrupted" -> "cancelled"
    [] OTHER -> IF l \notin refused /\ lane[l].end.ok /\ lane[l].end.outcome = "completed" /\ lane[l].end.answer \in Whole
                THEN "completed" ELSE "failed"

\* Of a launch that is not relaunched, its window too short included.
Judge(l) ==
  /\ Turn(l) /\ ((At(l, "settled") /\ ~Repeats(l)) \/ At(l, "backoff"))
  /\ Finishes(l, Status(l))
  /\ Moves(l, [lane[l] EXCEPT !.pc = "done", !.status = Status(l),
                              !.end = IF Status(l) = "completed" THEN @ ELSE NoEnd])
  /\ LaneOnly /\ UNCHANGED <<abort, entries, disk, broken>>

-----------------------------------------------------------------------------
(* The verifier, and the receipt. *)

Reviewed   == {l \in Reviewers : lane[l].status = "completed"}
Candidates == {l \in Reviewed : lane[l].end.answer = "found"}

\* What becomes of a verifier that rules on nothing.
Unruled == IF abort = "none" THEN "not_run" ELSE "cancelled"
NotRun  == Moves("verifier", [lane["verifier"] EXCEPT !.pc = "done", !.status = Unruled, !.end = NoEnd])

ReviewersDone ==
  /\ main = "lanes" /\ \A l \in Reviewers : At(l, "done")
  /\ LET started == lane["verifier"].launch > 0
     IN IF Candidates # {} /\ abort = "none"
        THEN /\ main' = "verify" /\ brief' = "ids"
             /\ IF started THEN UNCHANGED <<rows, lane>> ELSE Starts("verifier")
        ELSE /\ brief' = "null" /\ UNCHANGED rows
             /\ IF started THEN main' = "unneeded" /\ UNCHANGED lane ELSE main' = "receipt" /\ NotRun
  /\ UNCHANGED <<given, abort, entries, disk, broken, receipt>>

\* One started early is told that there is nothing to rule on, and waited for.
\* Its row is closed first; its own status is taken after that write.
VerifierUnneeded ==
  /\ main = "unneeded" /\ main' = "unruled"
  /\ At("verifier", "settled") /\ Finishes("verifier", Unruled)
  /\ UNCHANGED <<given, abort, lane, brief, entries, disk, broken, receipt>>

VerifierNotRun ==
  /\ main = "unruled" /\ main' = "receipt" /\ NotRun
  /\ UNCHANGED <<given, abort, brief, receipt>> /\ UNCHANGED Ledgers

VerifierDone ==
  /\ main = "verify" /\ At("verifier", "done") /\ main' = "receipt"
  /\ UNCHANGED <<given, abort, lane, brief, receipt>> /\ UNCHANGED Ledgers

Covered == UNION {plan[l] : l \in Reviewed}

\* PackedOnly counts the files that were assigned, not those that changed.
PackedOnly == UNION {plan[l] : l \in Reviewers} \ Covered
Uncovered  == Files \ Covered

Unverified == Candidates # {} /\ lane["verifier"].status # "completed"

SwarmStatus ==
  CASE Reviewed = {} -> "failed"
    [] Reviewed = Reviewers /\ lane["verifier"].status \in {"completed", "not_run"}
         /\ Uncovered = {} /\ ~Unverified -> "completed"
    [] OTHER -> "partial"

WriteReceipt ==
  /\ main = "receipt" /\ main' = "over" /\ receipt' = SwarmStatus
  /\ UNCHANGED <<given, abort, lane, brief>> /\ UNCHANGED Ledgers

\* A row that cannot be written throws out of main: no receipt, lanes left running.
SessionsFail ==
  /\ \/ main = "prepare" /\ mode = "sandbox" /\ abort = "none"
     \/ main = "lanes" /\ abort = "none" /\ \E l \in Reviewers : lane[l].pc = "todo"
     \/ \E l \in Lanes : Turn(l) /\ lane[l].pc \in {"settled", "backoff"}
     \/ main = "unneeded" /\ lane["verifier"].pc = "settled"
     \/ /\ main = "lanes" /\ abort = "none" /\ \A l \in Reviewers : lane[l].pc = "done"
        /\ Candidates # {} /\ lane["verifier"].launch = 0
  /\ main' = "threw"
  /\ broken' = broken \union {"sessions"}
  /\ UNCHANGED <<given, abort, lane, rows, brief, entries, disk, receipt>>

-----------------------------------------------------------------------------
(* Signals and timers. *)

CutOnly == LaneOnly /\ UNCHANGED Ledgers

Interrupt == abort = "none" /\ main \notin {"over", "threw"} /\ Aborts("interrupted")
             /\ CutOnly /\ UNCHANGED lane

\* Set once the lanes start, cleared when they have settled.
Deadline == abort = "none" /\ main \in {"lanes", "verify", "unneeded", "unruled"} /\ Aborts("deadline")
            /\ CutOnly /\ UNCHANGED lane

\* The lane's own window and its grace.
WindowEnds(l) ==
  /\ lane[l].pc \in {"opening", "recording", "sending", "running"} /\ main \notin {"over", "threw"}
  /\ ~lane[l].cut /\ Moves(l, [lane[l] EXCEPT !.cut = TRUE])
  /\ CutOnly /\ UNCHANGED abort

LaneSteps(l) ==
  Begin(l) \/ Asks(l) \/ OpenTerminal(l) \/ Record(l) \/ SendDriver(l) \/ Stopped(l) \/ Reclaim(l)
    \/ BacksOff(l) \/ Relaunch(l) \/ Judge(l)

MainSteps ==
  Prepared \/ PreparationFails \/ ReviewersDone \/ VerifierUnneeded \/ VerifierNotRun \/ VerifierDone \/ WriteReceipt

Next ==
  \/ MainSteps \/ SessionsFail \/ Interrupt \/ Deadline
  \/ \E l \in Lanes : LaneSteps(l) \/ DriverEnds(l) \/ TerminalLost(l) \/ WindowEnds(l)

\* main and what it awaits move on, a request is answered or times out, and the
\* run's deadline comes; a driver need never end by itself.  A cut lane may wait
\* for a cancel that has no timeout here: it is an invocation of LocalLane, which
\* ends by its own deadline.
Fairness == WF_vars(MainSteps) /\ WF_vars(Deadline) /\ \A l \in Lanes : WF_vars(LaneSteps(l))

Spec == Init /\ [][Next]_vars /\ Fairness

-----------------------------------------------------------------------------
(* Properties. *)

\* What each part of the run may be; no lane is launched more often than relaunches allow.
TypeOK ==
  /\ mode \in {"sandbox", "orca", "packed"}
  /\ main \in {"prepare", "lanes", "verify", "unneeded", "unruled", "receipt", "over", "threw"}
  /\ abort \in {"none", "interrupted", "deadline"} /\ refused \subseteq Lanes
  /\ lane \in [Lanes -> LaneStates]
  /\ mode # "packed" => \A l \in Lanes : lane[l].launch <= Relaunches + 1
  /\ rows \in [Lanes -> Seq({"open", "relaunched"} \union Verdicts)]
  /\ brief \in {"none", "null", "ids"} /\ disk \subseteq entries /\ broken \subseteq {"sessions", "terminals"}
  /\ receipt \in {"none", "completed", "partial", "failed"}

\* A lane that completed left a whole answer, and the launch that left it no process
\* unaccounted for (an earlier launch may have); and a run that completed has every changed file read by such a
\* lane and every candidate ruled on by one (swarm.ts:1445-1470, 3617-3660),
\* whatever was relaunched, cut or lost.
CompletedIsWhole ==
  /\ \A l \in Lanes : lane[l].status = "completed" => lane[l].end.ok /\ lane[l].end.answer \in Whole /\ ~lane[l].unknown
  /\ receipt = "completed" =>
       /\ \A file \in Files : \E l \in Reviewers : file \in plan[l] /\ lane[l].status = "completed"
       /\ (\E l \in Reviewers : lane[l].end.answer = "found") => lane["verifier"].status = "completed"

\* No hidden restarts (attempt.ts:91-101): when the receipt is written, every
\* launch of a lane has its row, all but the last say it was relaunched, and
\* the last says what became of the lane; but an abort that comes after the row of
\* an idle verifier was closed as not run still makes its lane cancelled.
RowsTellTheLanes ==
  main = "over" /\ receipt # "none" =>
    \A l \in Lanes :
      /\ mode # "packed" => Len(rows[l]) = lane[l].launch
      /\ \A k \in 1..Len(rows[l]) :
           \/ rows[l][k] = IF k = Len(rows[l]) THEN lane[l].status ELSE "relaunched"
           \/ /\ l = "verifier" /\ brief = "null" /\ k = Len(rows[l])
              /\ rows[l][k] = "not_run" /\ lane[l].status = "cancelled"

\* Nothing owns a container until its handle is on disk (swarm.ts:1703-1705): a
\* coordinator that dies anywhere leaves the name of every terminal a driver
\* was sent to.
HandleOnDisk ==
  mode = "orca" => \A l \in Lanes : lane[l].pc = "running" => <<l, lane[l].launch>> \in disk

\* Every attempt leaves its receipt, unless its own rows cannot be written.
RunEnds == main = "prepare" ~> receipt # "none" \/ "sessions" \in broken
=============================================================================
