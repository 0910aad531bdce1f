--------------------------- MODULE LocalEngineProofs ---------------------------
(***************************************************************************)
(* What holds of the local engine: of a lane's driver and the invocations  *)
(* beside it, for any limit on corrections, and of the model broker it     *)
(* starts in the lane's container, for any number of requests, brokers and *)
(* faults, any caps and any size of answers.                               *)
(***************************************************************************)
EXTENDS LocalLane, ModelBroker, FiniteSetTheorems, TLAPS

(***************************************************************************)
(* The driver.                                                             *)
(***************************************************************************)

\* A driver waits for the report, or has it, of an accepted result only.
FinalIsTaken ==
  \A d \in Invocations :
    drv[d].pc \in {"final", "final2"} \/ drv[d].ending = "final" => taken # "none"

\* Nobody attaches before the metadata is written, so after it only a resume puts
\* a bearer in the container; and whoever is past its export, and owed the
\* bearer's end, has seen to it or has a teardown to tell of.
Sound(l, c, box, held, written) ==
  /\ l.pc \in {"host", "stage"} => ~written
  /\ l.pc = "host" => ~held
  /\ l.pc = "stage" \/ held => box = "up"
  /\ l.pc = "stage" \/ held \/ written => l.broker
  /\ l.pc \in Busy \union {"export"} /\ l.broker => l.tried
  /\ c.pc \notin {"host", "stage", "launch"} /\ ~c.tried
  /\ c.pc \in Busy => c.started
  /\ c.broker => c.started /\ c.pc # "off"
  /\ c.owns => c.started
  /\ c.started => written
  /\ c.pc \in Busy \union TearingDown /\ c.started => c.owns
  /\ held /\ l.pc \in {"remove", "receipt", "over"} => l.torn \/ c.broker
  /\ held /\ c.pc \in {"remove", "receipt", "over"} /\ c.broker => c.torn
  /\ held /\ c.pc \in {"receipt", "over"} /\ c.kind = "cancel" /\ c.started => c.torn

BearerIsKnown == Sound(drv[lane], drv[ctl], container, bearer, metadata)

\* A correction that is on its way is one of those allowed.
CorrectsWithin ==
  \A d \in Invocations : drv[d].pc = "correct" => drv[d].corrections < MaxCorrections

Inv == LocalTypeOK /\ CorrectsWithin /\ FinalIsTaken /\ BearerIsKnown /\ CompletedMeansAccepted

LEMMA Distinct == lane \in Invocations /\ ctl \in Invocations /\ lane # ctl /\ "none" \notin {lane, ctl}
BY LaneAssumption DEF Invocations

-----------------------------------------------------------------------------
(* What a step does to the driver that takes it. *)

Places == Busy \union TearingDown \union {"off"} \union Gone

LEMMA OffTypes ==
  /\ Off \in Drivers /\ Off.pc = "off" /\ Off.ending = "none"
  /\ ~Off.torn /\ ~Off.broker /\ ~Off.started /\ ~Off.owns /\ ~Off.tried
<1>1. 0 \in 0..MaxCorrections
  BY LaneAssumption
<1> QED
  BY <1>1 DEF Off, Drivers

LEMMA NoneCounted == 0 \in 0..MaxCorrections
BY LaneAssumption

LEMMA Updated ==
  ASSUME LocalTypeOK, NEW d \in Invocations, NEW x \in Drivers, drv' = [drv EXCEPT ![d] = x]
  PROVE  /\ drv' \in [Invocations -> Drivers] /\ drv'[d] = x
         /\ \A e \in Invocations : e # d => drv'[e] = drv[e]
BY DEF LocalTypeOK

\* What an invocation has of the container and its bearer.
SameHold(x, y) ==
  /\ x.broker = y.broker /\ x.torn = y.torn /\ x.kind = y.kind
  /\ x.started = y.started /\ x.owns = y.owns /\ x.tried = y.tried

\* A step in the course of a run, or a signal in its teardown.
Steps(d) ==
  \E x \in Drivers :
    /\ drv' = [drv EXCEPT ![d] = x]
    /\ drv[d].pc \in Busy \union TearingDown
    /\ x.pc = drv[d].pc \/ (drv[d].pc \in Busy /\ x.pc \in (Busy \ {"host", "stage", "launch"}) \union {"export"})
    /\ SameHold(x, drv[d])
    /\ x.pc \in {"final", "final2"} \/ x.ending = "final" => taken' # "none"
    /\ x.pc = "correct" => x.corrections < MaxCorrections

\* The end of a process.
Left(x, y) ==
  /\ x.pc \in Gone /\ (x.pc = "over" => y.pc = "receipt") /\ x.ending = "none"
  /\ x.broker = y.broker /\ x.torn = y.torn /\ x.kind = y.kind /\ x.started = y.started
  /\ ~x.owns /\ ~x.tried

Leaving(d) ==
  \E x \in Drivers :
    /\ drv' = [drv EXCEPT ![d] = x]
    /\ drv[d].pc \in Busy \union TearingDown
    /\ Left(x, drv[d])

Open == (Busy \ {"host", "stage", "launch"}) \union {"export"}
Reasons == {"final", "late", "thrown", "auth_blocked"} \union Endings

LEMMA GotoSteps ==
  ASSUME LocalTypeOK, FinalIsTaken, NEW d \in Invocations, NEW pc \in Open, drv[d].pc \in Busy, Goto(d, pc),
         taken # "none" \/ pc \in {"final", "final2"} => taken' # "none",
         pc = "correct" => drv[d].corrections < MaxCorrections
  PROVE  Steps(d)
<1> DEFINE x == [drv[d] EXCEPT !.pc = pc]
<1>1. drv[d] \in Drivers /\ pc \in Busy \union {"export"}
  BY DEF LocalTypeOK, Open
<1>2. /\ x \in Drivers /\ x.pc = pc /\ SameHold(x, drv[d])
      /\ x.ending = drv[d].ending /\ x.corrections = drv[d].corrections
  BY <1>1 DEF SameHold, Drivers, TearingDown
<1>3. drv' = [drv EXCEPT ![d] = x]
  BY DEF Goto
<1>4. x.ending = "final" => taken # "none"
  BY <1>2 DEF FinalIsTaken
<1> HIDE DEF x
<1> QED
  BY <1>2, <1>3, <1>4 DEF Steps, Open

LEMMA LeavesSteps ==
  ASSUME LocalTypeOK, NEW d \in Invocations, NEW ending \in Reasons, drv[d].pc \in Busy, Leaves(d, ending),
         ending = "final" => taken' # "none"
  PROVE  Steps(d)
<1> DEFINE x == [drv[d] EXCEPT !.pc = "export", !.ending = ending, !.corrections = 0, !.briefed = TRUE]
<1>1. drv[d] \in Drivers
  BY DEF LocalTypeOK
<1>2. x \in Drivers /\ x.pc = "export" /\ SameHold(x, drv[d]) /\ x.ending = ending
  BY <1>1, NoneCounted DEF SameHold, Drivers, TearingDown, Reasons
<1>3. drv' = [drv EXCEPT ![d] = x]
  BY DEF Leaves
<1> HIDE DEF x
<1> QED
  BY <1>2, <1>3 DEF Steps

LEMMA FailsSteps ==
  ASSUME LocalTypeOK, NEW d \in Invocations, drv[d].pc \in Busy, Fails(d)
  PROVE  Steps(d)
BY LeavesSteps DEF Fails, Reasons

LEMMA ExitsLeave ==
  ASSUME LocalTypeOK, NEW d \in Invocations, drv[d].pc \in Busy \union TearingDown, NEW pc \in Gone,
         Exits(d, pc), pc = "over" => drv[d].pc = "receipt"
  PROVE  Leaving(d)
<1> DEFINE x == [Off EXCEPT !.pc = pc, !.kind = drv[d].kind, !.started = drv[d].started,
                            !.broker = drv[d].broker, !.torn = drv[d].torn]
<1>1. drv[d] \in Drivers
  BY DEF LocalTypeOK
<1>2. x \in Drivers /\ Left(x, drv[d])
  BY <1>1, OffTypes DEF Drivers, Left
<1>3. drv' = [drv EXCEPT ![d] = x]
  BY DEF Exits
<1> HIDE DEF x
<1> QED
  BY <1>2, <1>3 DEF Leaving

LEMMA AcceptTakes == Accept => taken' \in Candidates /\ taken' # "none"
BY CandidateAssumption DEF Accept

LEMMA PollSteps == ASSUME LocalTypeOK, FinalIsTaken, NEW d \in Invocations, Poll(d) PROVE Steps(d)
<1>1. drv[d].pc \in Busy /\ taken' = taken
  BY DEF Poll, At, Busy, LaneKeeps, laneVars
<1> PICK v \in Looks : Judge(d, v)
  BY DEF Poll
<1>2. CASE v.state \in Endings /\ Leaves(d, Ending(v))
  <2>1. Ending(v) \in Reasons \ {"final"}
    BY <1>2 DEF Ending, Reasons, Endings
  <2> QED
    BY <1>1, <1>2, <2>1, LeavesSteps DEF Reasons
<1>3. CASE v.state = "done" /\ Goto(d, "final")
  BY <1>1, <1>3, GotoSteps DEF Looks, Open, Busy
<1>4. ASSUME NEW next \in {"brief", "nobody", "accept", "correct"}, Goto(d, next),
             next = "correct" => MayCorrect(drv[d])
      PROVE  Steps(d)
  BY <1>1, <1>4, GotoSteps DEF Open, Busy, MayCorrect
<1>5. CASE Fails(d)
  BY <1>1, <1>5, FailsSteps
<1> QED
  BY <1>2, <1>3, <1>4, <1>5 DEF Judge

LEMMA PromptSteps ==
  ASSUME LocalTypeOK, CorrectsWithin, FinalIsTaken, NEW d \in Invocations, Prompts(d)
  PROVE  Steps(d)
<1> DEFINE corrections == IF At(d, "brief") THEN drv[d].corrections ELSE drv[d].corrections + 1
           x == [drv[d] EXCEPT !.pc = "poll", !.briefed = TRUE, !.corrections = corrections]
<1>1. drv[d] \in Drivers /\ drv[d].pc \in Busy /\ taken' = taken
  BY DEF Prompts, At, Busy, LaneKeeps, laneVars, LocalTypeOK
<1>2. corrections \in 0..MaxCorrections
  <2>1. drv[d].corrections \in 0..MaxCorrections
    BY <1>1 DEF Drivers
  <2>2. ~At(d, "brief") => drv[d].corrections < MaxCorrections
    BY DEF Prompts, At, CorrectsWithin
  <2> QED
    BY <2>1, <2>2, LaneAssumption
<1>3. drv' = [drv EXCEPT ![d] = x]
  BY DEF Prompts
<1> HIDE DEF corrections
<1>4. /\ x \in Drivers /\ x.pc = "poll" /\ SameHold(x, drv[d])
      /\ x.ending = drv[d].ending
  BY <1>1, <1>2 DEF SameHold, Drivers, Busy
<1>5. x.ending = "final" => taken # "none"
  BY <1>4 DEF FinalIsTaken
<1> HIDE DEF x
<1> QED
  BY <1>1, <1>3, <1>4, <1>5 DEF Steps, Busy

LEMMA UnusedSteps == ASSUME LocalTypeOK, FinalIsTaken, NEW d \in Invocations, CancelUnused(d) PROVE Steps(d)
<1> DEFINE x == [drv[d] EXCEPT !.pc = "poll", !.briefed = TRUE]
<1>1. drv[d] \in Drivers /\ drv[d].pc \in Busy /\ taken' = taken
  BY DEF CancelUnused, At, Busy, LaneKeeps, laneVars, LocalTypeOK
<1>2. drv' = [drv EXCEPT ![d] = x]
  BY DEF CancelUnused
<1>3. /\ x \in Drivers /\ x.pc = "poll" /\ SameHold(x, drv[d])
      /\ x.ending = drv[d].ending
  BY <1>1 DEF SameHold, Drivers, Busy
<1>4. x.ending = "final" => taken # "none"
  BY <1>3 DEF FinalIsTaken
<1> HIDE DEF x
<1> QED
  BY <1>1, <1>2, <1>3, <1>4 DEF Steps, Busy

LEMMA AcceptSteps == ASSUME LocalTypeOK, FinalIsTaken, NEW d \in Invocations, Accepts(d) PROVE Steps(d)
<1>1. drv[d].pc \in Busy
  BY DEF Accepts, At, Busy
<1>2. CASE Accept /\ Goto(d, "final")
  BY <1>1, <1>2, AcceptTakes, GotoSteps DEF Open, Busy
<1>3. CASE Fails(d)
  BY <1>1, <1>3, FailsSteps
<1>4. CASE Goto(d, "poll") /\ LaneKeeps
  BY <1>1, <1>4, GotoSteps DEF Open, Busy, LaneKeeps, laneVars
<1> QED
  BY <1>2, <1>3, <1>4 DEF Accepts

LEMMA ReadSteps ==
  ASSUME LocalTypeOK, FinalIsTaken, NEW d \in Invocations, ReadsError(d) \/ ReadsReport(d) PROVE Steps(d)
<1>1. drv[d].pc \in Busy /\ taken' = taken /\ taken # "none"
  BY DEF ReadsError, ReadsReport, At, Busy, LaneKeeps, laneVars, FinalIsTaken
<1>2. CASE Fails(d)
  BY <1>1, <1>2, FailsSteps
<1>3. CASE Goto(d, "final") \/ Goto(d, "final2")
  BY <1>1, <1>3, GotoSteps DEF Open, Busy
<1>4. CASE Leaves(d, "final")
  BY <1>1, <1>4, LeavesSteps DEF Reasons
<1> QED
  BY <1>2, <1>3, <1>4 DEF ReadsError, ReadsReport

LEMMA SignalSteps == ASSUME LocalTypeOK, FinalIsTaken, NEW d \in Invocations, Interrupt(d) PROVE Steps(d)
<1> DEFINE ending == IF drv[d].pc \in Busy THEN "thrown" ELSE drv[d].ending
           pc     == IF drv[d].pc \in Busy THEN "export" ELSE drv[d].pc
           x      == [drv[d] EXCEPT !.interrupted = TRUE, !.corrections = 0, !.briefed = TRUE,
                                        !.ending = ending, !.pc = pc]
<1>1. drv[d] \in Drivers /\ drv[d].pc \in Busy \union TearingDown /\ taken' = taken
  BY DEF Interrupt, LaneKeeps, laneVars, LocalTypeOK
<1>2. /\ ending \in {"none"} \union Reasons /\ pc \in TearingDown
      /\ pc = drv[d].pc \/ (drv[d].pc \in Busy /\ pc = "export")
      /\ ending \in {"thrown", drv[d].ending}
  BY <1>1 DEF Drivers, Reasons, TearingDown
<1>3. drv' = [drv EXCEPT ![d] = x]
  BY DEF Interrupt
<1> HIDE DEF ending, pc
<1>4. x \in Drivers /\ x.pc = pc /\ SameHold(x, drv[d]) /\ x.ending = ending
  BY <1>1, <1>2, NoneCounted DEF SameHold, Drivers, Reasons, TearingDown
<1>5. x.ending = "final" => taken # "none"
  BY <1>2, <1>4 DEF FinalIsTaken
<1>6. x.pc \notin {"final", "final2", "correct"}
  BY <1>2, <1>4 DEF TearingDown
<1> HIDE DEF x
<1> QED
  BY <1>1, <1>2, <1>3, <1>4, <1>5, <1>6 DEF Steps

-----------------------------------------------------------------------------
(* The invariant. *)

LEMMA InitLane == LocalInit => Inv
<1> SUFFICES ASSUME LocalInit PROVE Inv
  OBVIOUS
<1>1. PICK brief \in BOOLEAN :
        drv = [d \in Invocations |-> IF d = lane THEN [Off EXCEPT !.pc = "host", !.kind = "start", !.briefed = ~brief]
                                     ELSE Off]
  BY DEF LocalInit
<1> DEFINE x == [Off EXCEPT !.pc = "host", !.kind = "start", !.briefed = ~brief]
<1>2. x \in Drivers /\ x.pc = "host" /\ x.ending = "none" /\ ~x.broker
  BY OffTypes DEF Drivers, Busy
<1> HIDE DEF x
<1>3. drv \in [Invocations -> Drivers] /\ drv[lane] = x /\ drv[ctl] = Off
  BY <1>1, <1>2, OffTypes, Distinct DEF x
<1>4. \A d \in Invocations : drv[d].pc \in {"host", "off"} /\ drv[d].ending = "none"
  BY <1>2, <1>3, OffTypes DEF Invocations
<1>5. LocalTypeOK
  BY <1>3 DEF LocalInit, LaneInit, LocalTypeOK, Results
<1>6. BearerIsKnown
  BY <1>2, <1>3, OffTypes DEF LocalInit, BearerIsKnown, Sound, Busy, TearingDown
<1> QED
  BY <1>4, <1>5, <1>6, Distinct DEF LocalInit, Inv, CorrectsWithin, FinalIsTaken, CompletedMeansAccepted

\* What the container may do meanwhile.
LaneMay ==
  /\ link' \in {"soon", "up", "gone"} /\ report' \in {"none", "partial", "complete"} /\ ended' \in BOOLEAN
  /\ taken' \in Results /\ (taken # "none" => taken' # "none")

LEMMA LaneKeepsMay == ASSUME LocalTypeOK, LaneKeeps PROVE LaneMay
BY DEF LocalTypeOK, LaneKeeps, laneVars, LaneMay

LEMMA StepsKeep ==
  ASSUME Inv, NEW d \in Invocations, Steps(d), HostKeeps, LaneMay
  PROVE  Inv'
<1> USE DEF Inv, HostKeeps
<1> PICK x \in Drivers :
      /\ drv' = [drv EXCEPT ![d] = x]
      /\ drv[d].pc \in Busy \union TearingDown
      /\ x.pc = drv[d].pc \/ (drv[d].pc \in Busy /\ x.pc \in (Busy \ {"host", "stage", "launch"}) \union {"export"})
      /\ SameHold(x, drv[d])
      /\ x.pc \in {"final", "final2"} \/ x.ending = "final" => taken' # "none"
      /\ x.pc = "correct" => x.corrections < MaxCorrections
  BY DEF Steps
<1>1. /\ drv' \in [Invocations -> Drivers] /\ drv'[d] = x
      /\ \A e \in Invocations : e # d => drv'[e] = drv[e]
  BY Updated
<1>2. LocalTypeOK'
  BY <1>1 DEF LocalTypeOK, LaneMay
<1>3. CorrectsWithin' /\ FinalIsTaken' /\ CompletedMeansAccepted'
  BY <1>1 DEF CorrectsWithin, FinalIsTaken, CompletedMeansAccepted, LaneMay
<1>4. BearerIsKnown'
  <2>1. CASE d = ctl
    <3>1. drv'[lane] = drv[lane] /\ drv'[ctl] = x
      BY <1>1, <2>1, Distinct
    <3>2. Sound(drv[lane], x, container, bearer, metadata)
      BY <2>1 DEF BearerIsKnown, Sound, SameHold, Busy, TearingDown
    <3> QED
      BY <3>1, <3>2 DEF BearerIsKnown
  <2>2. CASE d = lane
    <3>1. drv'[ctl] = drv[ctl] /\ drv'[lane] = x
      BY <1>1, <2>2, Distinct
    <3>2. Sound(x, drv[ctl], container, bearer, metadata)
      BY <2>2 DEF BearerIsKnown, Sound, SameHold, Busy, TearingDown
    <3> QED
      BY <3>1, <3>2 DEF BearerIsKnown
  <2> QED
    BY <2>1, <2>2 DEF Invocations
<1> QED
  BY <1>2, <1>3, <1>4

LEMMA LeavingKeeps ==
  ASSUME Inv, NEW d \in Invocations, Leaving(d), LaneKeeps,
         UNCHANGED <<container, launched, bearer, metadata>>,
         evidence' \in {evidence, report} \ {"none"} \/ evidence' = evidence,
         \/ receipt' = receipt
         \/ /\ receipt' = [by |-> d, outcome |-> Outcome(drv[d]), torn |-> drv[d].torn]
            /\ evidence' = evidence /\ drv[d].pc = "receipt" /\ drv'[d].pc = "over"
  PROVE  Inv'
<1> USE DEF Inv
<1> PICK x \in Drivers :
      /\ drv' = [drv EXCEPT ![d] = x]
      /\ drv[d].pc \in Busy \union TearingDown
      /\ Left(x, drv[d])
  BY DEF Leaving
<1>1. /\ drv' \in [Invocations -> Drivers] /\ drv'[d] = x
      /\ \A e \in Invocations : e # d => drv'[e] = drv[e]
  BY Updated
<1>2. /\ taken' = taken /\ link' = link /\ report' = report /\ ended' = ended
      /\ evidence' \in {"none", "partial", "complete"} /\ (evidence # "none" => evidence' # "none")
  BY DEF LaneKeeps, laneVars, LocalTypeOK
<1>3. drv[d] \in Drivers
  BY DEF LocalTypeOK
<1>4. Outcome(drv[d]) \in {"none", "completed", "interrupted", "unverified"} \union Endings
  BY <1>3 DEF Outcome, Endings
<1>5. receipt' \in [by : Invocations \union {"none"}, torn : BOOLEAN,
                    outcome : {"none", "completed", "interrupted", "unverified"} \union Endings]
  <2>1. drv[d].torn \in BOOLEAN
    BY <1>3 DEF Drivers
  <2> QED
    BY <1>4, <2>1 DEF LocalTypeOK
<1>6. LocalTypeOK'
  BY <1>1, <1>2, <1>5 DEF LocalTypeOK
<1>7. CorrectsWithin' /\ FinalIsTaken'
  BY <1>1, <1>2 DEF CorrectsWithin, FinalIsTaken, Left, Gone
<1>8. CompletedMeansAccepted'
  <2>1. CASE receipt' = receipt
    BY <1>2, <2>1 DEF CompletedMeansAccepted
  <2>2. CASE receipt'.outcome = Outcome(drv[d]) /\ evidence' = evidence
    <3>1. Outcome(drv[d]) = "completed" => drv[d].ending = "final" /\ evidence # "none"
      BY <1>3 DEF Outcome
    <3> QED
      BY <1>2, <2>2, <3>1 DEF CompletedMeansAccepted, FinalIsTaken
  <2> QED
    BY <2>1, <2>2
<1>9. BearerIsKnown'
  <2>1. CASE d = ctl
    <3>1. drv'[lane] = drv[lane] /\ drv'[ctl] = x
      BY <1>1, <2>1, Distinct
    <3>2. Sound(drv[lane], x, container, bearer, metadata)
      BY <2>1 DEF BearerIsKnown, Sound, Left, Busy, TearingDown, Gone
    <3> QED
      BY <3>1, <3>2 DEF BearerIsKnown
  <2>2. CASE d = lane
    <3>1. drv'[ctl] = drv[ctl] /\ drv'[lane] = x
      BY <1>1, <2>2, Distinct
    <3>2. Sound(x, drv[ctl], container, bearer, metadata)
      BY <2>2 DEF BearerIsKnown, Sound, Left, Busy, TearingDown, Gone
    <3> QED
      BY <3>1, <3>2 DEF BearerIsKnown
  <2> QED
    BY <2>1, <2>2 DEF Invocations
<1> QED
  BY <1>6, <1>7, <1>8, <1>9

\* A report leaves a container that has one.
LEMMA ExportTypes ==
  ASSUME LocalTypeOK
  PROVE  Exported \in {evidence, report} \ {"none"} \/ Exported = evidence
BY DEF Exported, LocalTypeOK

LEMMA CourseKeeps ==
  ASSUME Inv, NEW d \in Invocations,
         \/ Poll(d) \/ PollMisses(d) \/ CallThrows(d) \/ Prompts(d) \/ CancelUnused(d) \/ Accepts(d)
         \/ ReadsError(d) \/ ReadsReport(d) \/ Interrupt(d) \/ Deadline(d)
  PROVE  Inv'
<1>1. HostKeeps
  BY DEF Poll, PollMisses, CallThrows, Prompts, CancelUnused, Accepts, ReadsError, ReadsReport, Interrupt, Deadline
<1>2. LaneMay
  <2>1. CASE LaneKeeps
    BY <2>1, LaneKeepsMay DEF Inv
  <2>2. CASE Accept
    BY <2>2, AcceptTakes DEF Accept, LaneMay, Inv, LocalTypeOK, Results
  <2> QED
    BY <2>1, <2>2 DEF Poll, PollMisses, CallThrows, Prompts, CancelUnused, Accepts, ReadsError, ReadsReport, Interrupt,
       Deadline
<1>3. CASE PollMisses(d)
  <2>1. PICK e \in Ends : Leaves(d, Ending(e))
    BY <1>3 DEF PollMisses
  <2>2. Ending(e) \in Reasons \ {"final"}
    BY DEF Ending, Ends, Reasons, Endings
  <2>3. drv[d].pc \in Busy
    BY <1>3 DEF PollMisses, At, Busy
  <2> QED
    BY <1>1, <1>2, <2>1, <2>2, <2>3, LeavesSteps, StepsKeep DEF Inv
<1>4. CASE CallThrows(d)
  <2>1. drv[d].pc \in Busy /\ Fails(d)
    BY <1>4 DEF CallThrows, Busy
  <2> QED
    BY <1>1, <1>2, <2>1, FailsSteps, StepsKeep DEF Inv
<1>5. CASE Deadline(d)
  <2>1. drv[d].pc \in Busy /\ Leaves(d, "late")
    BY <1>5 DEF Deadline, Timed
  <2> QED
    BY <1>1, <1>2, <2>1, LeavesSteps, StepsKeep DEF Inv, Reasons
<1> QED
  BY <1>1, <1>2, <1>3, <1>4, <1>5, PollSteps, PromptSteps, UnusedSteps, AcceptSteps, ReadSteps, SignalSteps, StepsKeep
  DEF Inv

LEMMA KilledKeeps == ASSUME Inv, NEW d \in Invocations, Killed(d) PROVE Inv'
<1>1. /\ Leaving(d) /\ LaneKeeps /\ UNCHANGED <<container, launched, bearer, metadata>>
      /\ evidence' = evidence /\ receipt' = receipt
  BY ExitsLeave DEF Killed, HostKeeps, Inv, Gone
<1> QED
  BY <1>1, LeavingKeeps

LEMMA ReceiptKeeps == ASSUME Inv, NEW d \in Invocations, Receipt(d) PROVE Inv'
<1>1. drv[d].pc = "receipt" /\ Exits(d, "over")
  BY DEF Receipt, At
<1>2. Leaving(d)
  BY <1>1, ExitsLeave DEF Inv, TearingDown, Gone
<1>3. drv'[d].pc = "over"
  BY <1>1 DEF Exits, Inv, LocalTypeOK, Off
<1> QED
  BY <1>1, <1>2, <1>3, LeavingKeeps DEF Receipt

LEMMA ControlKeeps == ASSUME Inv, Steer \/ Inspect \/ Cancel \/ Restart PROVE Inv'
<1> USE DEF Inv
<1>1. drv[ctl].pc \in Busy /\ LaneKeeps /\ LaneMay
  BY LaneKeepsMay DEF Steer, Inspect, Cancel, Restart, At, Busy
<1>2. CASE Exits(ctl, "returned") /\ HostKeeps
  <2>1. Leaving(ctl)
    BY <1>1, <1>2, ExitsLeave, Distinct DEF Gone
  <2> QED
    BY <1>1, <1>2, <2>1, LeavingKeeps, Distinct DEF HostKeeps
<1>3. CASE Inspect
  <2>1. Leaving(ctl)
    BY <1>1, <1>3, ExitsLeave, Distinct DEF Inspect, Gone
  <2> QED
    BY <1>1, <1>3, <2>1, LeavingKeeps, ExportTypes, Distinct DEF Inspect
<1>4. CASE Fails(ctl) /\ HostKeeps
  BY <1>1, <1>4, FailsSteps, StepsKeep, Distinct
<1>5. CASE (Goto(ctl, "export") \/ Goto(ctl, "poll")) /\ HostKeeps
  <2>1. taken' = taken
    BY <1>1 DEF LaneKeeps, laneVars
  <2>2. Steps(ctl)
    BY <1>1, <1>5, <2>1, GotoSteps, Distinct DEF Open, Busy
  <2> QED
    BY <1>1, <1>5, <2>2, StepsKeep, Distinct
<1> QED
  BY <1>2, <1>3, <1>4, <1>5 DEF Steer, Cancel, Restart

\* What a step of a driver may do to the container it works on.
Hands(d, x) ==
  /\ evidence' \in {evidence, report} \ {"none"} \/ evidence' = evidence
  /\ container' \in {"absent", "up", "removed"} /\ launched' \in BOOLEAN /\ bearer' \in BOOLEAN
  /\ metadata' \in BOOLEAN /\ receipt' = receipt
  /\ x.pc \in (Busy \ {"host", "correct", "final", "final2"}) \union TearingDown
  /\ x.ending = "final" => drv[d].ending = "final"
  /\ d = lane => Sound(x, drv[ctl], container', bearer', metadata')
  /\ d = ctl  => Sound(drv[lane], x, container', bearer', metadata')

LEMMA HandsKeep ==
  ASSUME Inv, NEW d \in Invocations, NEW x \in Drivers, drv' = [drv EXCEPT ![d] = x], LaneKeeps, Hands(d, x)
  PROVE  Inv'
<1> USE DEF Inv
<1>1. /\ drv' \in [Invocations -> Drivers] /\ drv'[d] = x
      /\ \A e \in Invocations : e # d => drv'[e] = drv[e]
  BY Updated
<1>2. /\ taken' = taken /\ link' = link /\ report' = report /\ ended' = ended
      /\ evidence' \in {"none", "partial", "complete"} /\ (evidence # "none" => evidence' # "none")
  BY DEF LaneKeeps, laneVars, LocalTypeOK, Hands
<1>3. LocalTypeOK'
  BY <1>1, <1>2 DEF LocalTypeOK, Hands
<1>4. CorrectsWithin' /\ FinalIsTaken' /\ CompletedMeansAccepted'
  BY <1>1, <1>2 DEF Hands, Busy, TearingDown, CorrectsWithin, FinalIsTaken, CompletedMeansAccepted
<1>5. BearerIsKnown'
  BY <1>1, Distinct DEF Hands, BearerIsKnown, Invocations
<1> QED
  BY <1>3, <1>4, <1>5

\* What the driver of the run makes of the container it has, and the second
\* invocation of it.
LEMMA LaneHands ==
  ASSUME Inv, NEW x \in Drivers, drv' = [drv EXCEPT ![lane] = x], LaneKeeps,
         evidence' \in {evidence, report} \ {"none"} \/ evidence' = evidence,
         container' \in {"absent", "up", "removed"}, launched' \in BOOLEAN, bearer' \in BOOLEAN,
         metadata' \in BOOLEAN, receipt' = receipt,
         x.pc \in (Busy \ {"host", "correct", "final", "final2"}) \union TearingDown,
         x.ending = "final" => drv[lane].ending = "final",
         Sound(x, drv[ctl], container', bearer', metadata')
  PROVE  Inv'
<1>1. Hands(lane, x)
  BY Distinct DEF Hands
<1> QED
  BY <1>1, HandsKeep, Distinct

LEMMA ControlHands ==
  ASSUME Inv, NEW x \in Drivers, drv' = [drv EXCEPT ![ctl] = x], LaneKeeps,
         evidence' \in {evidence, report} \ {"none"} \/ evidence' = evidence,
         container' \in {"absent", "up", "removed"}, launched' \in BOOLEAN, bearer' \in BOOLEAN,
         metadata' \in BOOLEAN, receipt' = receipt,
         x.pc \in (Busy \ {"host", "correct", "final", "final2"}) \union TearingDown,
         x.ending = "final" => drv[ctl].ending = "final",
         Sound(drv[lane], x, container', bearer', metadata')
  PROVE  Inv'
<1>1. Hands(ctl, x)
  BY Distinct DEF Hands
<1> QED
  BY <1>1, HandsKeep, Distinct

LEMMA CreateKeeps == ASSUME Inv, CreateContainer PROVE Inv'
<1> USE DEF Inv
<1>1. /\ drv[lane] \in Drivers /\ drv[lane].pc = "host" /\ LaneKeeps /\ LaneMay
      /\ UNCHANGED <<launched, bearer, metadata, evidence, receipt>>
  BY LaneKeepsMay, Distinct DEF CreateContainer, At, LocalTypeOK
<1>2. CASE Fails(lane) /\ container' = container
  BY <1>1, <1>2, FailsSteps, StepsKeep, Distinct DEF Busy, HostKeeps
<1>3. CASE /\ container' = "up"
           /\ drv' = [drv EXCEPT ![lane].tried = TRUE, ![lane].owns = TRUE, ![lane].broker = TRUE, ![lane].pc = "stage"]
  <2> DEFINE x == [drv[lane] EXCEPT !.tried = TRUE, !.owns = TRUE, !.broker = TRUE, !.pc = "stage"]
  <2>1. x \in Drivers /\ x.pc = "stage" /\ x.broker /\ x.tried /\ x.ending = drv[lane].ending
    BY <1>1 DEF Drivers, Busy
  <2>2. drv' = [drv EXCEPT ![lane] = x]
    BY <1>3
  <2> HIDE DEF x
  <2>3. Sound(x, drv[ctl], container', bearer', metadata')
    BY <1>1, <1>3, <2>1 DEF BearerIsKnown, Sound, Busy, TearingDown
  <2> QED
    BY <1>1, <1>3, <2>1, <2>2, <2>3, LaneHands DEF LocalTypeOK, Busy, TearingDown
<1>4. CASE /\ container' \in {"absent", "up"}
           /\ drv' = [drv EXCEPT ![lane].tried = TRUE, ![lane].broker = TRUE, ![lane].ending = "thrown",
                                 ![lane].pc = "export"]
  <2> DEFINE x == [drv[lane] EXCEPT !.tried = TRUE, !.broker = TRUE, !.ending = "thrown", !.pc = "export"]
  <2>1. x \in Drivers /\ x.pc = "export" /\ x.broker /\ x.tried /\ x.ending = "thrown"
    BY <1>1 DEF Drivers, TearingDown
  <2>2. drv' = [drv EXCEPT ![lane] = x]
    BY <1>4
  <2> HIDE DEF x
  <2>3. Sound(x, drv[ctl], container', bearer', metadata')
    BY <1>1, <1>4, <2>1 DEF BearerIsKnown, Sound, Busy, TearingDown
  <2> QED
    BY <1>1, <1>4, <2>1, <2>2, <2>3, LaneHands DEF LocalTypeOK, Busy, TearingDown
<1> QED
  BY <1>2, <1>3, <1>4 DEF CreateContainer

LEMMA StageKeeps == ASSUME Inv, Stage PROVE Inv'
<1> USE DEF Inv
<1>1. /\ drv[lane] \in Drivers /\ drv[lane].pc = "stage" /\ LaneKeeps /\ bearer' \in BOOLEAN
      /\ metadata' \in BOOLEAN /\ UNCHANGED <<container, launched, evidence, receipt>>
  BY Distinct DEF Stage, At, LocalTypeOK
<1>2. ~metadata /\ drv[lane].broker /\ container = "up"
  BY <1>1 DEF BearerIsKnown, Sound
<1>3. ASSUME NEW x \in Drivers, drv' = [drv EXCEPT ![lane] = x], x.pc \in {"launch", "export"},
             SameHold(x, drv[lane]), x.ending \in {"thrown", drv[lane].ending}
      PROVE  Inv'
  <2>1. Sound(x, drv[ctl], container', bearer', metadata')
    BY <1>1, <1>2, <1>3 DEF BearerIsKnown, Sound, SameHold, Busy, TearingDown
  <2> QED
    BY <1>1, <1>3, <2>1, LaneHands DEF LocalTypeOK, Busy, TearingDown
<1>4. CASE Goto(lane, "launch")
  <2> DEFINE x == [drv[lane] EXCEPT !.pc = "launch"]
  <2>1. x \in Drivers /\ x.pc = "launch" /\ SameHold(x, drv[lane]) /\ x.ending = drv[lane].ending
    BY <1>1 DEF Drivers, Busy, SameHold
  <2>2. drv' = [drv EXCEPT ![lane] = x]
    BY <1>4 DEF Goto
  <2> HIDE DEF x
  <2> QED
    BY <1>3, <2>1, <2>2
<1>5. CASE Fails(lane)
  <2> DEFINE x == [drv[lane] EXCEPT !.pc = "export", !.ending = "thrown", !.corrections = 0, !.briefed = TRUE]
  <2>1. x \in Drivers /\ x.pc = "export" /\ SameHold(x, drv[lane]) /\ x.ending = "thrown"
    BY <1>1, NoneCounted DEF Drivers, TearingDown, SameHold
  <2>2. drv' = [drv EXCEPT ![lane] = x]
    BY <1>5 DEF Fails, Leaves
  <2> HIDE DEF x
  <2> QED
    BY <1>3, <2>1, <2>2
<1> QED
  BY <1>4, <1>5 DEF Stage

LEMMA LaunchKeeps == ASSUME Inv, Launch PROVE Inv'
<1> USE DEF Inv
<1>1. /\ drv[lane] \in Drivers /\ drv[lane].pc = "launch" /\ LaneKeeps /\ launched' \in BOOLEAN
      /\ UNCHANGED <<container, bearer, metadata, evidence, receipt>>
  BY Distinct DEF Launch, At, LocalTypeOK, Reachable
<1>2. ASSUME NEW x \in Drivers, drv' = [drv EXCEPT ![lane] = x], x.pc \in {"poll", "export"},
             x.broker = drv[lane].broker, x.torn = drv[lane].torn, x.tried = drv[lane].tried,
             x.ending \in {"thrown", drv[lane].ending}
      PROVE  Inv'
  <2>1. Sound(x, drv[ctl], container', bearer', metadata')
    BY <1>1, <1>2 DEF BearerIsKnown, Sound, Busy, TearingDown
  <2> QED
    BY <1>1, <1>2, <2>1, LaneHands DEF LocalTypeOK, Busy, TearingDown
<1>3. CASE drv' = [drv EXCEPT ![lane].started = TRUE, ![lane].pc = "poll"]
  <2> DEFINE x == [drv[lane] EXCEPT !.started = TRUE, !.pc = "poll"]
  <2>1. /\ x \in Drivers /\ x.pc = "poll" /\ x.broker = drv[lane].broker /\ x.torn = drv[lane].torn
        /\ x.tried = drv[lane].tried /\ x.ending = drv[lane].ending
    BY <1>1 DEF Drivers, Busy
  <2>2. drv' = [drv EXCEPT ![lane] = x]
    BY <1>3
  <2> HIDE DEF x
  <2> QED
    BY <1>2, <2>1, <2>2
<1>4. CASE Fails(lane)
  <2> DEFINE x == [drv[lane] EXCEPT !.pc = "export", !.ending = "thrown", !.corrections = 0, !.briefed = TRUE]
  <2>1. /\ x \in Drivers /\ x.pc = "export" /\ x.broker = drv[lane].broker /\ x.torn = drv[lane].torn
        /\ x.tried = drv[lane].tried /\ x.ending = "thrown"
    BY <1>1, NoneCounted DEF Drivers, TearingDown
  <2>2. drv' = [drv EXCEPT ![lane] = x]
    BY <1>4 DEF Fails, Leaves
  <2> HIDE DEF x
  <2> QED
    BY <1>2, <2>1, <2>2
<1> QED
  BY <1>3, <1>4 DEF Launch

LEMMA AttachKeeps == ASSUME Inv, NEW kind \in Controls, Attach(kind) PROVE Inv'
<1> USE DEF Inv
<1>1. /\ drv[ctl].pc = "off" /\ LaneKeeps
      /\ UNCHANGED <<container, launched, bearer, metadata, evidence, receipt>>
  BY DEF Attach, At, HostKeeps
<1>2. ASSUME NEW x \in Drivers, drv' = [drv EXCEPT ![ctl] = x], ~x.tried, ~x.broker, x.ending # "final",
             \/ /\ metadata /\ x.started /\ x.owns
                /\ x.pc \in {"poll", "inspect", "steer", "cancel", "resume"}
             \/ ~x.started /\ ~x.owns /\ x.pc = "export"
      PROVE  Inv'
  <2>1. Sound(drv[lane], x, container', bearer', metadata')
    BY <1>1, <1>2 DEF BearerIsKnown, Sound, Busy
  <2> QED
    BY <1>1, <1>2, <2>1, ControlHands DEF LocalTypeOK, Busy, TearingDown
<1> DEFINE to == IF kind = "reconnect" THEN "poll" ELSE kind
           x  == [Off EXCEPT !.kind = kind, !.owns = TRUE, !.started = TRUE, !.pc = to]
           y  == [Off EXCEPT !.kind = kind, !.ending = "thrown", !.pc = "export"]
<1>3. to \in {"poll", "inspect", "steer", "cancel", "resume"}
  BY DEF Controls
<1> HIDE DEF to
<1>4. x \in Drivers /\ x.pc = to /\ x.ending = "none" /\ x.started /\ x.owns /\ ~x.tried /\ ~x.broker
  BY <1>3, OffTypes DEF Drivers, Busy
<1>5. y \in Drivers /\ y.pc = "export" /\ y.ending = "thrown" /\ ~y.started /\ ~y.owns /\ ~y.tried /\ ~y.broker
  BY OffTypes DEF Drivers, TearingDown
<1>6. (metadata /\ drv' = [drv EXCEPT ![ctl] = x]) \/ drv' = [drv EXCEPT ![ctl] = y]
  BY DEF Attach, to
<1> HIDE DEF x, y
<1> QED
  BY <1>2, <1>3, <1>4, <1>5, <1>6

LEMMA LocalResumeKeeps == ASSUME Inv, ResumeRun PROVE Inv'
<1> USE DEF Inv
<1>1. /\ drv[ctl] \in Drivers /\ drv[ctl].pc = "resume" /\ LaneKeeps /\ bearer' \in BOOLEAN
      /\ UNCHANGED <<container, launched, metadata, evidence, receipt>> /\ container = "up"
  BY Distinct DEF ResumeRun, At, LocalTypeOK, Answers, Reachable
<1> DEFINE x == [drv[ctl] EXCEPT !.pc = "restart", !.broker = TRUE]
           y == [drv[ctl] EXCEPT !.pc = "export", !.ending = "thrown", !.broker = TRUE]
<1>2. /\ x \in Drivers /\ x.pc = "restart" /\ x.ending = drv[ctl].ending /\ x.broker
      /\ x.started = drv[ctl].started /\ x.owns = drv[ctl].owns /\ x.tried = drv[ctl].tried
      /\ y \in Drivers /\ y.pc = "export" /\ y.ending = "thrown" /\ y.broker
      /\ y.started = drv[ctl].started /\ y.owns = drv[ctl].owns /\ y.tried = drv[ctl].tried
  BY <1>1 DEF Drivers, Busy, TearingDown
<1>3. drv' = [drv EXCEPT ![ctl] = x] \/ drv' = [drv EXCEPT ![ctl] = y]
  BY DEF ResumeRun
<1> HIDE DEF x, y
<1>4. drv[ctl].started /\ drv[ctl].owns /\ ~drv[ctl].tried /\ metadata
  BY <1>1 DEF BearerIsKnown, Sound, Busy
<1>5. Sound(drv[lane], x, container', bearer', metadata') /\ Sound(drv[lane], y, container', bearer', metadata')
  BY <1>1, <1>2, <1>4 DEF BearerIsKnown, Sound, Busy, TearingDown
<1> QED
  BY <1>1, <1>2, <1>3, <1>5, ControlHands DEF LocalTypeOK, Busy, TearingDown

\* A teardown raises no bearer: it takes the one it owes, and tells of the one it
\* could not take.
LEMMA TearsDown ==
  ASSUME Inv, NEW d \in Invocations, NEW x \in Drivers, drv' = [drv EXCEPT ![d] = x], LaneKeeps,
         evidence' \in {evidence, report} \ {"none"} \/ evidence' = evidence,
         UNCHANGED <<launched, metadata, receipt>>, bearer' \in BOOLEAN, bearer' => bearer,
         container' = container \/ (container' = "removed" /\ ~bearer' /\ (d = lane \/ drv[ctl].started)),
         drv[d].pc \in TearingDown, x.pc \in TearingDown, x.pc # "export", x.ending = drv[d].ending,
         x.broker = drv[d].broker, x.kind = drv[d].kind, x.started = drv[d].started, x.tried = drv[d].tried,
         d = ctl => (x.started <=> x.owns),
         d = lane => (bearer' => x.torn \/ drv[ctl].broker),
         d = ctl => (bearer' /\ x.broker => x.torn),
         d = ctl => (bearer' /\ x.pc = "receipt" /\ x.kind = "cancel" /\ x.started => x.torn)
  PROVE  Inv'
<1> USE DEF Inv
<1>1. container' \in {"absent", "up", "removed"} /\ launched' \in BOOLEAN /\ metadata' \in BOOLEAN
  BY DEF LocalTypeOK
<1>2. CASE d = lane
  <2>1. Sound(x, drv[ctl], container', bearer', metadata')
    BY <1>2 DEF BearerIsKnown, Sound, Busy, TearingDown
  <2> QED
    BY <1>1, <1>2, <2>1, LaneHands
<1>3. CASE d = ctl
  <2>1. drv[ctl].started => metadata /\ drv[lane].pc # "stage"
    BY DEF BearerIsKnown, Sound
  <2>2. Sound(drv[lane], x, container', bearer', metadata')
    BY <1>3, <2>1, Distinct DEF BearerIsKnown, Sound, Busy, TearingDown
  <2> QED
    BY <1>1, <1>3, <2>2, ControlHands
<1> QED
  BY <1>2, <1>3 DEF Invocations

LEMMA ExportKeeps == ASSUME Inv, NEW d \in Invocations, Export(d) PROVE Inv'
<1> USE DEF Inv
<1>1. /\ drv[d] \in Drivers /\ drv[d].pc = "export" /\ LaneKeeps /\ bearer' \in BOOLEAN
      /\ UNCHANGED <<container, launched, metadata, receipt>>
      /\ evidence' \in {evidence, report} \ {"none"} \/ evidence' = evidence
  BY ExportTypes DEF Export, At, LocalTypeOK, Revokes
<1>0. bearer' => bearer
  <2>1. bearer' = (bearer /\ ~Revokes(drv[d])) \/ bearer' = bearer
    BY DEF Export
  <2> QED
    BY <2>1
<1>2. /\ d = lane /\ bearer => drv[d].broker /\ drv[d].tried /\ container = "up"
      /\ d = ctl => ~drv[d].tried /\ (drv[d].owns <=> drv[d].started) /\ (drv[d].broker => drv[d].owns)
  <2>1. CASE d = lane
    BY <1>1, <2>1, Distinct DEF BearerIsKnown, Sound
  <2>2. CASE d = ctl
    BY <1>1, <2>2, Distinct DEF BearerIsKnown, Sound, TearingDown
  <2> QED
    BY <2>1, <2>2 DEF Invocations
<1>3. ASSUME NEW x \in Drivers, drv' = [drv EXCEPT ![d] = x], x.pc = "remove", x.ending = drv[d].ending,
             x.broker = drv[d].broker, x.kind = drv[d].kind, x.started = drv[d].started, x.tried = drv[d].tried,
             d = ctl => x.owns = drv[d].owns, bearer' /\ (d = lane \/ drv[d].broker) => x.torn
      PROVE  Inv'
  BY <1>0, <1>1, <1>2, <1>3, TearsDown, Distinct DEF TearingDown
<1>4. CASE /\ drv[d].owns \/ drv[d].tried
           /\ drv' = [drv EXCEPT ![d].owns = TRUE, ![d].pc = "remove"] /\ bearer' = (bearer /\ ~Revokes(drv[d]))
  <2> DEFINE x == [drv[d] EXCEPT !.owns = TRUE, !.pc = "remove"]
  <2>1. /\ x \in Drivers /\ x.pc = "remove" /\ x.ending = drv[d].ending /\ x.broker = drv[d].broker
        /\ x.kind = drv[d].kind /\ x.started = drv[d].started /\ x.tried = drv[d].tried /\ x.owns
    BY <1>1 DEF Drivers, TearingDown
  <2>2. drv' = [drv EXCEPT ![d] = x]
    BY <1>4
  <2>3. bearer' => ~(d = lane \/ drv[d].broker)
    BY <1>2, <1>4 DEF Revokes
  <2>4. d = ctl => drv[d].owns
    BY <1>2, <1>4
  <2> HIDE DEF x
  <2> QED
    BY <1>1, <1>3, <2>1, <2>2, <2>3, <2>4 DEF Drivers
<1>5. CASE /\ drv[d].owns \/ drv[d].tried
           /\ drv' = [drv EXCEPT ![d].owns = TRUE, ![d].pc = "remove", ![d].torn = TRUE] /\ bearer' = bearer
  <2> DEFINE x == [drv[d] EXCEPT !.owns = TRUE, !.pc = "remove", !.torn = TRUE]
  <2>1. /\ x \in Drivers /\ x.pc = "remove" /\ x.ending = drv[d].ending /\ x.broker = drv[d].broker
        /\ x.kind = drv[d].kind /\ x.started = drv[d].started /\ x.tried = drv[d].tried /\ x.owns /\ x.torn
    BY <1>1 DEF Drivers, TearingDown
  <2>2. drv' = [drv EXCEPT ![d] = x]
    BY <1>5
  <2>3. d = ctl => drv[d].owns
    BY <1>2, <1>5
  <2> HIDE DEF x
  <2> QED
    BY <1>1, <1>3, <2>1, <2>2, <2>3 DEF Drivers
<1>6. CASE ~drv[d].owns /\ (drv[d].tried => ~Reachable) /\ Goto(d, "remove") /\ bearer' = bearer
  <2> DEFINE x == [drv[d] EXCEPT !.pc = "remove"]
  <2>1. /\ x \in Drivers /\ x.pc = "remove" /\ x.ending = drv[d].ending /\ x.broker = drv[d].broker
        /\ x.kind = drv[d].kind /\ x.started = drv[d].started /\ x.tried = drv[d].tried /\ x.owns = drv[d].owns
    BY <1>1 DEF Drivers, TearingDown
  <2>2. drv' = [drv EXCEPT ![d] = x]
    BY <1>6 DEF Goto
  <2>3. bearer' => ~(d = lane \/ drv[d].broker)
    BY <1>2, <1>6 DEF Reachable, Invocations
  <2> HIDE DEF x
  <2> QED
    BY <1>3, <2>1, <2>2, <2>3
<1>7. CASE TeardownFails(d, "remove") /\ bearer' = bearer
  <2> DEFINE x == [drv[d] EXCEPT !.torn = TRUE, !.pc = "remove"]
  <2>1. /\ x \in Drivers /\ x.pc = "remove" /\ x.ending = drv[d].ending /\ x.broker = drv[d].broker /\ x.torn
        /\ x.kind = drv[d].kind /\ x.started = drv[d].started /\ x.tried = drv[d].tried /\ x.owns = drv[d].owns
    BY <1>1 DEF Drivers, TearingDown
  <2>2. drv' = [drv EXCEPT ![d] = x]
    BY <1>7 DEF TeardownFails
  <2> HIDE DEF x
  <2> QED
    BY <1>3, <2>1, <2>2
<1> QED
  BY <1>4, <1>5, <1>6, <1>7 DEF Export

LEMMA RemoveKeeps == ASSUME Inv, NEW d \in Invocations, RemoveContainer(d) PROVE Inv'
<1> USE DEF Inv
<1>1. /\ drv[d] \in Drivers /\ drv[d].pc = "remove" /\ LaneKeeps
      /\ UNCHANGED <<launched, metadata, evidence, receipt>>
      /\ \/ container' = "removed" /\ bearer' = FALSE /\ Goto(d, "receipt") /\ drv[d].owns
         \/ TeardownFails(d, "receipt") /\ UNCHANGED <<container, bearer>>
         \/ Goto(d, "receipt") /\ UNCHANGED <<container, bearer>> /\ ~(drv[d].owns /\ Disposable(drv[d]))
  BY DEF RemoveContainer, At, LocalTypeOK
<1>2. /\ d = lane /\ bearer => drv[d].torn \/ drv[ctl].broker
      /\ d = ctl => /\ drv[d].owns <=> drv[d].started
                    /\ bearer /\ drv[d].broker => drv[d].torn
  BY <1>1 DEF BearerIsKnown, Sound, Busy, TearingDown
<1> DEFINE x == [drv[d] EXCEPT !.pc = "receipt"]
           y == [drv[d] EXCEPT !.torn = TRUE, !.pc = "receipt"]
<1>3. /\ x \in Drivers /\ x.pc = "receipt" /\ x.ending = drv[d].ending /\ SameHold(x, drv[d])
      /\ y \in Drivers /\ y.pc = "receipt" /\ y.ending = drv[d].ending /\ y.torn
      /\ y.broker = drv[d].broker /\ y.kind = drv[d].kind /\ y.started = drv[d].started
      /\ y.owns = drv[d].owns /\ y.tried = drv[d].tried
  BY <1>1 DEF Drivers, TearingDown, SameHold
<1>4. CASE drv' = [drv EXCEPT ![d] = x] /\ bearer' = FALSE /\ container' = "removed" /\ drv[d].owns
  <2> HIDE DEF x
  <2> QED
    BY <1>1, <1>2, <1>3, <1>4, TearsDown, Distinct DEF TearingDown, SameHold, Invocations
<1>5. CASE drv' = [drv EXCEPT ![d] = x] /\ UNCHANGED <<container, bearer>> /\ ~(drv[d].owns /\ Disposable(drv[d]))
  <2> HIDE DEF x
  <2>1. d = ctl /\ x.kind = "cancel" /\ x.started => FALSE
    BY <1>2, <1>3, <1>5 DEF Disposable, SameHold
  <2> QED
    BY <1>1, <1>2, <1>3, <1>5, <2>1, TearsDown, Distinct DEF TearingDown, SameHold, LocalTypeOK
<1>6. CASE drv' = [drv EXCEPT ![d] = y] /\ UNCHANGED <<container, bearer>>
  <2> HIDE DEF y
  <2> QED
    BY <1>1, <1>2, <1>3, <1>6, TearsDown, Distinct DEF TearingDown, LocalTypeOK
<1> QED
  BY <1>1, <1>4, <1>5, <1>6 DEF Goto, TeardownFails

LEMMA InsideKeeps == ASSUME Inv, LaneMay, UNCHANGED hostVars PROVE Inv'
BY DEF Inv, LaneMay, hostVars, LocalTypeOK, CorrectsWithin, FinalIsTaken, BearerIsKnown, CompletedMeansAccepted

LEMMA StepLane == ASSUME Inv, [LocalNext]_localVars PROVE Inv'
<1>1. CASE UNCHANGED localVars
  <2>1. LaneMay /\ UNCHANGED hostVars
    BY <1>1, LaneKeepsMay DEF localVars, LaneKeeps, Inv
  <2> QED
    BY <2>1, InsideKeeps
<1>2. CASE Inside
  <2>1. LaneMay /\ UNCHANGED hostVars
    BY <1>2 DEF Inside, Opens, Closes, LaneMay, Inv, LocalTypeOK
  <2> QED
    BY <2>1, InsideKeeps
<1>3. CASE Start \/ Control
  BY <1>3, CreateKeeps, StageKeeps, LaunchKeeps, AttachKeeps, ControlKeeps, LocalResumeKeeps DEF Start, Control
<1>4. ASSUME NEW d \in Invocations, Drive(d) \/ Interrupt(d) \/ Deadline(d) \/ Killed(d) PROVE Inv'
  BY <1>4, CourseKeeps, ExportKeeps, RemoveKeeps, ReceiptKeeps, KilledKeeps DEF Drive
<1> QED
  BY <1>1, <1>2, <1>3, <1>4 DEF LocalNext

LEMMA LaneInvariant == LocalSpec => []Inv
BY InitLane, StepLane, PTL DEF LocalSpec

\* The types of both invocations, the container they share and the receipt.
THEOREM LocalLaneTypes == LocalSpec => []LocalTypeOK
BY LaneInvariant, PTL DEF Inv

\* Whatever calls are lost and whoever interferes, a receipt that says completed
\* stands for an accepted result and a report on the host.
THEOREM CompletionsAccepted == LocalSpec => []CompletedMeansAccepted
BY LaneInvariant, PTL DEF Inv

\* Whatever dies and whoever interferes: once the run's driver has its receipt, or a
\* resume or a cancel has, the bearer is gone, or that receipt tells of a failed
\* teardown, or a later resume put another there.
THEOREM BearersRevoked == LocalSpec => []NoBearerLeftBehind
<1>1. Inv => NoBearerLeftBehind
  BY DEF Inv, BearerIsKnown, Sound, NoBearerLeftBehind
<1> QED
  BY <1>1, LaneInvariant, PTL

-----------------------------------------------------------------------------
(***************************************************************************)
(* The broker.                                                             *)
(***************************************************************************)

InFlight == {c \in Calls : call[c].at \in {"fetching", "streaming"}}

\* t accounts for every request: its usage was heard, or it is known to be
\* missing.
Accounts(t, h) ==
    t.requests = t.unended + t.unobserved + h.usages /\ t.input = h.tokens

\* While the process runs its counters account for everything, and the requests
\* in flight are among those it knows to be unended.
BrokerInv ==
    /\ TypeOK
    /\ broker.up => /\ Accounts(totals, heard[broker.number])
                    /\ Cardinality(InFlight) <= totals.unended
                    /\ heard[broker.number].usages + Cardinality(InFlight)
                         <= asked[broker.number]
    /\ asked[broker.number] <= totals.requests
    /\ \A b \in Brokers : b > broker.number =>
         asked[b] = 0 /\ heard[b].usages = 0 /\ heard[b].tokens = 0

HasLast(lines) ==
    Whole(lines) # {} => \E i \in Whole(lines) : \A j \in Whole(lines) : j <= i

\* What the ledger tells: the last totals know of every request still in flight.
ReadingInv ==
    /\ HasLast(ledger)
    /\ ReadOf \in 1 .. broker.number
    /\ broker.up /\ ReadOf = broker.number => Cardinality(InFlight) <= ReadLedger.unended
    /\ ReadOf # broker.number => asked[broker.number] = 0
    /\ LedgerTellsTheTruth

\* Counters that could be those of the process while c is not in flight.
Fits(t, c, h) ==
    /\ t \in Totals
    /\ Accounts(t, h)
    /\ Cardinality(InFlight \ {c}) <= t.unended
    /\ totals.requests <= t.requests

\* What every tick of a handler that writes has in common.
Tick(c, lines, next, sends) ==
    /\ broker.up
    /\ lines \in Seq(Lines) /\ lines # << >>
    /\ \A i \in 1 .. Len(lines) : /\ lines[i].by = broker.number
                                  /\ Fits(lines[i].totals, c, heard'[broker.number])
    /\ next \in Handlers
    /\ sends \in {0, 1}
    /\ next.at \in {"fetching", "streaming"} =>
         sends = 1 /\ Cardinality(InFlight \ {c}) + 1 <= Last(lines).totals.unended
    /\ sends = 1 => /\ totals.requests < MaxRequests
                    /\ heard[broker.number].tokens < MaxInput
                    /\ asked[broker.number] + 1 <= Last(lines).totals.requests
    /\ heard' \in [Brokers -> [usages : Nat, tokens : Nat]]
    /\ \A b \in Brokers : b # broker.number => heard'[b] = heard[b]
    /\ heard[broker.number].tokens <= heard'[broker.number].tokens
    /\ heard' # heard => c \in InFlight
    /\ heard'[broker.number].usages + Cardinality(InFlight \ {c}) <= asked[broker.number]
    /\ blocked' \in BOOLEAN
    /\ Appends(c, lines, next, sends)

SendIsAllowed ==
    \A b \in Brokers : asked'[b] # asked[b] =>
        asked[b] < MaxRequests /\ heard[b].tokens < MaxInput

Keeps == BrokerInv' /\ ReadingInv' /\ SendIsAllowed

-----------------------------------------------------------------------------
(* Counting. *)

LEMMA InFlightFinite ==
    /\ IsFiniteSet(InFlight) /\ Cardinality(InFlight) \in Nat
    /\ \A c : IsFiniteSet(InFlight \ {c}) /\ Cardinality(InFlight \ {c}) \in Nat
<1>1. IsFiniteSet(InFlight)
  <2>1. InFlight \subseteq Calls
    BY DEF InFlight
  <2> QED
    BY <2>1, FS_Subset, BrokerAssumption
<1>2. ASSUME NEW c PROVE IsFiniteSet(InFlight \ {c}) /\ Cardinality(InFlight \ {c}) \in Nat
  BY <1>1, FS_Subset, FS_CardinalityType
<1> QED
  BY <1>1, <1>2, FS_CardinalityType

LEMMA OneLess ==
  ASSUME NEW c \in InFlight
  PROVE  Cardinality(InFlight \ {c}) = Cardinality(InFlight) - 1
BY InFlightFinite, FS_RemoveElement

LEMMA NoMore ==
  ASSUME NEW c
  PROVE  Cardinality(InFlight \ {c}) <= Cardinality(InFlight)
<1>1. InFlight \ {c} \subseteq InFlight
  OBVIOUS
<1> QED
  BY <1>1, InFlightFinite, FS_Subset

\* A step that moves only c's handler leaves at most c more in flight.
LEMMA OnlyOneMoves ==
  ASSUME NEW c \in Calls, call \in [Calls -> Handlers], NEW h \in Handlers,
         call' = [call EXCEPT ![c] = h]
  PROVE  /\ h.at \notin {"fetching", "streaming"} => InFlight' = InFlight \ {c}
         /\ h.at \in {"fetching", "streaming"} =>
              Cardinality(InFlight') = Cardinality(InFlight \ {c}) + 1
<1>1. h.at \notin {"fetching", "streaming"} => InFlight' = InFlight \ {c}
  BY DEF InFlight
<1>2. ASSUME h.at \in {"fetching", "streaming"}
      PROVE Cardinality(InFlight') = Cardinality(InFlight \ {c}) + 1
  <2>1. InFlight' = (InFlight \ {c}) \union {c}
    BY <1>2 DEF InFlight
  <2> QED
    BY <2>1, InFlightFinite, FS_AddElement
<1> QED
  BY <1>1, <1>2

-----------------------------------------------------------------------------
(* The lines of the ledger, and the ticks that write them. *)

LEMMA ConstantTypes ==
    /\ MaxRetries * MaxRequests \in Nat
    /\ Zero \in Totals
    /\ Torn \in Lines
<1>1. MaxRetries * MaxRequests \in Nat
  BY BrokerAssumption
<1>2. Zero \in Totals
  BY <1>1, BrokerAssumption DEF Zero, Totals
<1>3. 0 \in 0 .. MaxBrokers
  BY BrokerAssumption
<1> QED
  BY <1>1, <1>2, <1>3 DEF Torn, Lines

LEMMA LedgerGrows ==
  ASSUME ledger \in Seq(Lines), NEW lines \in Seq(Lines), NEW k \in 1 .. Len(lines)
  PROVE  /\ ledger \o lines \in Seq(Lines)
         /\ ledger \o SubSeq(lines, 1, k - 1) \in Seq(Lines)
         /\ Append(ledger \o SubSeq(lines, 1, k - 1), Torn) \in Seq(Lines)
<1>1. SubSeq(lines, 1, k - 1) \in Seq(Lines)
  <2>1. \A i \in 1 .. k - 1 : lines[i] \in Lines
    OBVIOUS
  <2> QED
    BY <2>1
<1>2. ledger \o SubSeq(lines, 1, k - 1) \in Seq(Lines)
  BY <1>1
<1> QED
  BY <1>2, ConstantTypes

LEMMA TickKeeps ==
  ASSUME BrokerInv, NEW c \in Calls, NEW lines, NEW next, NEW sends,
         Tick(c, lines, next, sends)
  PROVE  BrokerInv'
<1> DEFINE n == broker.number
           free == Cardinality(InFlight \ {c})
<1> USE DEF BrokerInv, TypeOK
<1>1. n \in Brokers /\ lines \in Seq(Lines) /\ Len(lines) \in 1 .. Len(lines)
      /\ Last(lines) = lines[Len(lines)]
  <2>1. lines \in Seq(Lines) /\ lines # << >>
    BY DEF Tick
  <2>2. Len(lines) \in 1 .. Len(lines)
    BY <2>1
  <2> QED
    BY <2>1, <2>2 DEF Last
<1>2. blocked' \in BOOLEAN /\ next \in Handlers /\ sends \in {0, 1}
      /\ heard' \in [Brokers -> [usages : Nat, tokens : Nat]]
  BY DEF Tick
<1>3. Down \in [number : Brokers, up : BOOLEAN] /\ Down.number = n /\ ~Down.up
  BY DEF Down
<1>4. \A b \in Brokers : b > n => b # n /\ heard'[b].usages = 0 /\ heard'[b].tokens = 0
  <2>1. \A b \in Brokers : b > n => b # n
    BY <1>1, BrokerAssumption DEF Brokers
  <2> QED
    BY <2>1 DEF Tick
<1>5. free \in Nat /\ asked[n] \in Nat /\ heard'[n].usages \in Nat
      /\ heard'[n].usages + free <= asked[n]
  <2>1. free \in Nat
    BY InFlightFinite
  <2>2. asked[n] \in Nat /\ heard'[n].usages \in Nat
    BY <1>1, <1>2
  <2>3. heard'[n].usages + free <= asked[n]
    BY DEF Tick
  <2> QED
    BY <2>1, <2>2, <2>3
<1>6. CASE Written(c, lines, next, sends)
  <2> DEFINE t == Last(lines).totals
  <2>1. Fits(t, c, heard'[n])
    BY <1>1 DEF Tick
  <2>2. totals' = t /\ ledger' = ledger \o lines /\ call' = [call EXCEPT ![c] = next]
        /\ faults' = faults /\ asked' = [asked EXCEPT ![n] = @ + sends]
    BY <1>6 DEF Written
  <2>3. broker' \in {broker, Down}
    BY <1>6 DEF Written
  <2>4. ledger' \in Seq(Lines)
    BY <2>2, <1>1, LedgerGrows
  <2>5. t.requests \in 0 .. MaxRequests /\ t.requests \in Nat /\ t.unended \in Nat
        /\ totals.requests <= t.requests /\ totals.requests \in Nat
    BY <2>1, BrokerAssumption DEF Fits, Totals
  <2>6. asked[n] + sends <= t.requests
    <3>1. CASE sends = 0
      BY <1>5, <2>5, <3>1
    <3>2. CASE sends = 1
      BY <3>2 DEF Tick
    <3> QED
      BY <1>2, <3>1, <3>2
  <2>7. asked' \in [Brokers -> 0 .. MaxRequests] /\ asked'[n] = asked[n] + sends
        /\ \A b \in Brokers : b # n => asked'[b] = asked[b]
    <3>1. asked[n] + sends \in 0 .. MaxRequests
      BY <1>2, <1>5, <2>5, <2>6, BrokerAssumption
    <3> QED
      BY <2>2, <3>1, <1>1
  <2>8. Cardinality(InFlight') <= t.unended
        /\ heard'[n].usages + Cardinality(InFlight') <= asked[n] + sends
    <3>1. CASE next.at \notin {"fetching", "streaming"}
      <4>1. Cardinality(InFlight') = free
        BY <1>2, <2>2, <3>1, OnlyOneMoves
      <4> QED
        BY <1>2, <1>5, <2>1, <4>1 DEF Fits
    <3>2. CASE next.at \in {"fetching", "streaming"}
      <4>1. Cardinality(InFlight') = free + 1
        BY <1>2, <2>2, <3>2, OnlyOneMoves
      <4>2. sends = 1 /\ free + 1 <= t.unended
        BY <3>2 DEF Tick
      <4> QED
        BY <1>5, <4>1, <4>2
    <3> QED
      BY <3>1, <3>2
  <2>9. TypeOK'
    BY <2>1, <2>2, <2>3, <2>4, <2>7, <1>2, <1>3 DEF Fits
  <2>10. \A b \in Brokers : b > n => asked'[b] = 0
    BY <2>7, <1>4
  <2>11. broker'.number = n
    BY <2>3, <1>3
  <2>12. Accounts(totals', heard'[n])
    BY <2>1, <2>2 DEF Fits
  <2> HIDE DEF t
  <2> QED
    BY <2>2, <2>6, <2>7, <2>8, <2>9, <2>10, <2>11, <2>12, <1>4
<1>7. CASE KilledWriting(lines)
  <2>1. ledger' \in Seq(Lines)
    BY <1>7, <1>1, LedgerGrows DEF KilledWriting
  <2>2. broker' = Down /\ UNCHANGED <<call, totals, asked, faults>>
    BY <1>7 DEF KilledWriting
  <2> QED
    BY <2>1, <2>2, <1>2, <1>3, <1>4
<1>8. CASE WriteFails(c, lines)
  <2>1. PICK k \in 1 .. Len(lines) : ledger' = ledger \o SubSeq(lines, 1, k - 1)
                                     /\ totals' = lines[k].totals
    BY <1>8 DEF WriteFails
  <2>2. ledger' \in Seq(Lines)
    BY <2>1, <1>1, LedgerGrows
  <2>3. faults' \in 0 .. MaxFaults
    <3>1. faults < MaxFaults /\ faults' = faults + 1
      BY <1>8 DEF WriteFails
    <3> QED
      BY <3>1, BrokerAssumption
  <2> DEFINE h == [call[c] EXCEPT !.at = "closed"]
  <2>4. h \in Handlers /\ h.at = "closed" /\ call' = [call EXCEPT ![c] = h]
    BY <1>8 DEF WriteFails, Handlers
  <2>5. asked' = asked /\ broker' \in {broker, Down}
    BY <1>8 DEF WriteFails
  <2>6. Fits(totals', c, heard'[n])
    BY <2>1 DEF Tick
  <2> HIDE DEF h
  <2>7. InFlight' = InFlight \ {c}
    BY <2>4, OnlyOneMoves
  <2>8. TypeOK'
    BY <2>2, <2>3, <2>4, <2>5, <2>6, <1>2, <1>3 DEF Fits
  <2>9. totals.requests \in Nat /\ totals'.requests \in Nat
    BY <2>6 DEF Fits, Totals
  <2>10. asked[n] <= totals'.requests
    BY <2>6, <2>9, <1>5 DEF Fits
  <2> QED
    BY <2>5, <2>6, <2>7, <2>8, <2>10, <1>3, <1>4, <1>5 DEF Fits
<1> QED
  BY <1>6, <1>7, <1>8 DEF Tick, Appends

LEMMA TickSends ==
  ASSUME BrokerInv, NEW c \in Calls, NEW lines, NEW next, NEW sends,
         Tick(c, lines, next, sends)
  PROVE  SendIsAllowed
<1> SUFFICES ASSUME NEW b \in Brokers, asked'[b] # asked[b]
             PROVE asked[b] < MaxRequests /\ heard[b].tokens < MaxInput
  BY DEF SendIsAllowed
<1>1. asked' = [asked EXCEPT ![broker.number] = @ + sends] \/ asked' = asked
  BY DEF Tick, Appends, Written, KilledWriting, WriteFails
<1>2. b = broker.number /\ sends # 0
  BY <1>1 DEF BrokerInv, TypeOK
<1>3. asked[b] <= totals.requests /\ asked[b] \in Nat /\ totals.requests \in Nat
  BY <1>2 DEF BrokerInv, TypeOK, Totals
<1>4. totals.requests < MaxRequests /\ heard[b].tokens < MaxInput
  BY <1>2 DEF Tick
<1> QED
  BY <1>3, <1>4, BrokerAssumption

-----------------------------------------------------------------------------
(* What a reading makes of a longer ledger. *)

LEMMA LastOfWhole ==
  ASSUME NEW s \in Seq(Lines), NEW i \in Whole(s), \A j \in Whole(s) : j <= i
  PROVE  LastTotals(s) = s[i]
<1> DEFINE m == CHOOSE k \in Whole(s) : \A j \in Whole(s) : j <= k
<1>1. m \in Whole(s) /\ \A j \in Whole(s) : j <= m
  OBVIOUS
<1>2. m <= i /\ i <= m
  BY <1>1
<1>3. i \in Nat /\ m \in Nat
  <2>1. Whole(s) \subseteq 1 .. Len(s)
    BY DEF Whole
  <2> HIDE DEF m
  <2> QED
    BY <1>1, <2>1
<1>4. m = i
  BY <1>2, <1>3
<1>5. Whole(s) # {}
  OBVIOUS
<1> QED
  BY <1>4, <1>5 DEF LastTotals

LEMMA ReadingTypes ==
  ASSUME NEW s \in Seq(Lines), HasLast(s)
  PROVE  LastTotals(s).totals \in Totals
<1>1. CASE Whole(s) = {}
  BY <1>1, ConstantTypes DEF LastTotals
<1>2. CASE Whole(s) # {}
  <2>1. PICK i \in Whole(s) : \A j \in Whole(s) : j <= i
    BY <1>2 DEF HasLast
  <2>2. LastTotals(s) = s[i]
    BY <2>1, LastOfWhole
  <2>3. s[i] \in Lines
    BY DEF Whole
  <2> QED
    BY <2>2, <2>3 DEF Lines
<1> QED
  BY <1>1, <1>2

\* A ledger that ends in a line with totals is read by that line.
LEMMA ReadsTheEnd ==
  ASSUME NEW s \in Seq(Lines), s # << >>, s[Len(s)] # Torn
  PROVE  LastTotals(s) = s[Len(s)] /\ HasLast(s)
<1>1. Len(s) \in Whole(s)
  <2>1. Len(s) \in DOMAIN s
    OBVIOUS
  <2> QED
    BY <2>1 DEF Whole
<1>2. \A j \in Whole(s) : j <= Len(s)
  BY DEF Whole
<1> QED
  BY <1>1, <1>2, LastOfWhole DEF HasLast

\* A torn line after it changes nothing but what is known.
LEMMA TornIsSkipped ==
  ASSUME NEW s \in Seq(Lines), HasLast(s)
  PROVE  /\ LastTotals(Append(s, Torn)) = LastTotals(s)
         /\ HasLast(Append(s, Torn))
         /\ Whole(Append(s, Torn)) # DOMAIN Append(s, Torn)
<1> DEFINE t == Append(s, Torn)
<1>1. t \in Seq(Lines) /\ Len(t) = Len(s) + 1 /\ t[Len(s) + 1] = Torn
      /\ \A i \in 1 .. Len(s) : t[i] = s[i]
  <2>1. t \in Seq(Lines)
    BY ConstantTypes
  <2>2. Len(t) = Len(s) + 1 /\ t[Len(s) + 1] = Torn
    OBVIOUS
  <2>3. \A i \in 1 .. Len(s) : t[i] = s[i]
    OBVIOUS
  <2> QED
    BY <2>1, <2>2, <2>3
<1> HIDE DEF t
<1>2. DOMAIN t = 1 .. Len(s) + 1 /\ DOMAIN s = 1 .. Len(s) /\ Len(s) \in Nat
  BY <1>1
<1>3. Whole(t) = Whole(s) /\ Whole(t) # DOMAIN t
  <2>1. Len(s) + 1 \in DOMAIN t /\ Len(s) + 1 \notin Whole(t)
    BY <1>1, <1>2 DEF Whole
  <2>2. \A i \in DOMAIN t : i # Len(s) + 1 <=> i \in DOMAIN s
    BY <1>2
  <2>3. \A i : i \in Whole(t) <=> i \in Whole(s)
    BY <1>1, <1>2, <2>1, <2>2 DEF Whole
  <2> QED
    BY <2>1, <2>3
<1>4. LastTotals(t) = LastTotals(s)
  <2>1. CASE Whole(s) = {}
    BY <1>3, <2>1 DEF LastTotals
  <2>2. CASE Whole(s) # {}
    <3>1. PICK i \in Whole(s) : \A j \in Whole(s) : j <= i
      BY <2>2 DEF HasLast
    <3>2. LastTotals(s) = s[i] /\ LastTotals(t) = t[i]
      BY <1>1, <1>3, <3>1, LastOfWhole
    <3>3. i \in 1 .. Len(s)
      BY <1>2 DEF Whole
    <3> QED
      BY <1>1, <3>2, <3>3
  <2> QED
    BY <2>1, <2>2
<1>5. HasLast(t)
  BY <1>3 DEF HasLast
<1> QED
  BY <1>3, <1>4, <1>5 DEF t

\* Lines of totals after it are read by the last of them, and leave it as
\* known as it was.
LEMMA LinesAreRead ==
  ASSUME NEW s \in Seq(Lines), NEW lines \in Seq(Lines), lines # << >>,
         \A i \in 1 .. Len(lines) : lines[i] # Torn
  PROVE  /\ LastTotals(s \o lines) = lines[Len(lines)]
         /\ HasLast(s \o lines)
         /\ Whole(s \o lines) = DOMAIN (s \o lines) => Whole(s) = DOMAIN s
<1> DEFINE t == s \o lines
<1>1. t \in Seq(Lines) /\ Len(t) = Len(s) + Len(lines) /\ Len(lines) \in 1 .. Len(lines)
      /\ Len(s) \in Nat
  <2>1. t \in Seq(Lines) /\ Len(t) = Len(s) + Len(lines) /\ Len(s) \in Nat
    OBVIOUS
  <2>2. Len(lines) \in 1 .. Len(lines)
    OBVIOUS
  <2> QED
    BY <2>1, <2>2
<1>2. \A i \in 1 .. Len(s) : t[i] = s[i]
  OBVIOUS
<1>3. t[Len(s) + Len(lines)] = lines[Len(lines)]
  BY <1>1
<1> HIDE DEF t
<1>4. t # << >> /\ t[Len(t)] # Torn
  BY <1>1, <1>3
<1>5. LastTotals(t) = lines[Len(lines)] /\ HasLast(t)
  BY <1>1, <1>3, <1>4, ReadsTheEnd
<1>6. ASSUME Whole(t) = DOMAIN t PROVE Whole(s) = DOMAIN s
  <2>1. \A i \in 1 .. Len(s) : i \in Whole(t)
    BY <1>1, <1>6
  <2>2. \A i \in 1 .. Len(s) : t[i] # Torn
    BY <2>1 DEF Whole
  <2>3. \A i \in 1 .. Len(s) : s[i] # Torn
    BY <1>2, <2>2
  <2>4. DOMAIN s = 1 .. Len(s)
    OBVIOUS
  <2>5. \A i : i \in Whole(s) <=> i \in DOMAIN s
    BY <2>3, <2>4 DEF Whole
  <2> QED
    BY <2>5
<1> QED
  BY <1>5, <1>6 DEF t

LEMMA CutLinesAreRead ==
  ASSUME NEW s \in Seq(Lines), HasLast(s), NEW lines \in Seq(Lines),
         \A i \in 1 .. Len(lines) : lines[i] # Torn, NEW k \in 1 .. Len(lines)
  PROVE  LET t == s \o SubSeq(lines, 1, k - 1)
         IN  /\ t \in Seq(Lines) /\ HasLast(t)
             /\ Whole(t) = DOMAIN t => Whole(s) = DOMAIN s
             /\ \/ LastTotals(t) = LastTotals(s)
                \/ \E i \in 1 .. Len(lines) : LastTotals(t) = lines[i]
<1> DEFINE pre == SubSeq(lines, 1, k - 1)
<1>1. CASE k = 1
  <2>1. pre = << >>
    BY <1>1
  <2>2. s \o pre = s
    BY <2>1
  <2> QED
    BY <2>2
<1>2. CASE k # 1
  <2>1. pre \in Seq(Lines) /\ Len(pre) = k - 1 /\ \A i \in 1 .. k - 1 : pre[i] = lines[i]
    <3>1. \A i \in 1 .. k - 1 : lines[i] \in Lines
      OBVIOUS
    <3>2. pre \in Seq(Lines)
      BY <3>1
    <3>3. Len(pre) = k - 1
      OBVIOUS
    <3>4. \A i \in 1 .. k - 1 : pre[i] = lines[i]
      OBVIOUS
    <3> QED
      BY <3>2, <3>3, <3>4
  <2> HIDE DEF pre
  <2>2. pre # << >> /\ \A i \in 1 .. Len(pre) : pre[i] # Torn
    BY <1>2, <2>1
  <2>3. LastTotals(s \o pre) = pre[Len(pre)] /\ HasLast(s \o pre)
        /\ (Whole(s \o pre) = DOMAIN (s \o pre) => Whole(s) = DOMAIN s)
    BY <2>1, <2>2, LinesAreRead
  <2>4. k - 1 \in 1 .. Len(lines) /\ LastTotals(s \o pre) = lines[k - 1]
    BY <1>2, <2>1, <2>3
  <2>5. s \o pre \in Seq(Lines)
    BY <2>1
  <2> QED
    BY <2>3, <2>4, <2>5 DEF pre
<1> QED
  BY <1>1, <1>2

LEMMA TickIsRead ==
  ASSUME BrokerInv, HasLast(ledger), NEW c \in Calls, NEW lines, NEW next, NEW sends,
         Tick(c, lines, next, sends)
  PROVE  /\ HasLast(ledger')
         /\ Known' => Known
         /\ \/ /\ LastTotals(ledger') = LastTotals(ledger)
               /\ ~Written(c, lines, next, sends)
            \/ \E i \in 1 .. Len(lines) :
                 /\ LastTotals(ledger') = lines[i]
                 /\ Written(c, lines, next, sends) => i = Len(lines)
<1>1. lines \in Seq(Lines) /\ lines # << >> /\ ledger \in Seq(Lines)
  BY DEF Tick, BrokerInv, TypeOK
<1>2. \A i \in 1 .. Len(lines) : lines[i] # Torn
  <2>1. broker.number # 0
    BY BrokerAssumption DEF BrokerInv, TypeOK, Brokers
  <2>2. \A i \in 1 .. Len(lines) : lines[i].by = broker.number
    BY DEF Tick
  <2> QED
    BY <2>1, <2>2 DEF Torn
<1>3. CASE Written(c, lines, next, sends)
  <2>1. ledger' = ledger \o lines
    BY <1>3 DEF Written
  <2>2. LastTotals(ledger') = lines[Len(lines)] /\ HasLast(ledger') /\ (Known' => Known)
    BY <1>1, <1>2, <2>1, LinesAreRead DEF Known
  <2>3. Len(lines) \in 1 .. Len(lines)
    BY <1>1
  <2> QED
    BY <2>2, <2>3
<1>4. CASE ~Written(c, lines, next, sends)
  <2>1. PICK k \in 1 .. Len(lines) :
          \/ ledger' = ledger \o SubSeq(lines, 1, k - 1)
          \/ ledger' = Append(ledger \o SubSeq(lines, 1, k - 1), Torn)
    BY <1>4 DEF Tick, Appends, KilledWriting, WriteFails
  <2> DEFINE t == ledger \o SubSeq(lines, 1, k - 1)
  <2>2. /\ t \in Seq(Lines) /\ HasLast(t)
        /\ Whole(t) = DOMAIN t => Known
        /\ \/ LastTotals(t) = LastTotals(ledger)
           \/ \E i \in 1 .. Len(lines) : LastTotals(t) = lines[i]
    BY <1>1, <1>2, CutLinesAreRead DEF Known
  <2>3. CASE ledger' = t
    BY <1>4, <2>2, <2>3 DEF Known
  <2>4. CASE ledger' = Append(t, Torn)
    <3> HIDE DEF t
    <3>1. LastTotals(ledger') = LastTotals(t) /\ HasLast(ledger') /\ ~Known'
      BY <2>2, <2>4, TornIsSkipped DEF Known
    <3> QED
      BY <1>4, <2>2, <3>1
  <2> QED
    BY <2>1, <2>3, <2>4
<1> QED
  BY <1>3, <1>4

\* What a tick does to the counts.
LEMMA TickCounts ==
  ASSUME BrokerInv, NEW c \in Calls, NEW lines, NEW next, NEW sends,
         Tick(c, lines, next, sends)
  PROVE  LET n == broker.number
         IN  /\ n \in Brokers /\ broker'.number = n
             /\ asked[n] \in Nat /\ asked'[n] \in Nat /\ asked[n] <= asked'[n]
             /\ \A b \in Brokers : b # n => asked'[b] = asked[b]
             /\ ~Written(c, lines, next, sends) => asked' = asked
             /\ ~Written(c, lines, next, sends) /\ broker'.up => InFlight' = InFlight \ {c}
<1> DEFINE n == broker.number
<1>1. n \in Brokers /\ asked \in [Brokers -> 0 .. MaxRequests] /\ call \in [Calls -> Handlers]
  BY DEF BrokerInv, TypeOK
<1>2. asked[n] \in Nat
  BY <1>1, BrokerAssumption
<1>3. Down.number = n /\ ~Down.up
  BY DEF Down, BrokerInv, TypeOK
<1>4. broker'.number = n
  BY <1>3 DEF Tick, Appends, Written, KilledWriting, WriteFails
<1>5. CASE Written(c, lines, next, sends)
  <2>1. asked' = [asked EXCEPT ![n] = @ + sends] /\ sends \in {0, 1}
    BY <1>5 DEF Written, Tick
  <2> QED
    BY <1>1, <1>2, <1>4, <1>5, <2>1
<1>6. CASE ~Written(c, lines, next, sends)
  <2>1. asked' = asked
    BY <1>6 DEF Tick, Appends, KilledWriting, WriteFails
  <2>2. ASSUME broker'.up PROVE InFlight' = InFlight \ {c}
    <3> DEFINE h == [call[c] EXCEPT !.at = "closed"]
    <3>1. h \in Handlers /\ h.at = "closed"
      BY <1>1 DEF Handlers
    <3>2. call' = [call EXCEPT ![c] = h]
      BY <1>3, <1>6, <2>2 DEF Tick, Appends, KilledWriting, WriteFails
    <3> HIDE DEF h
    <3> QED
      BY <1>1, <3>1, <3>2, OnlyOneMoves
  <2> QED
    BY <1>1, <1>2, <1>4, <2>1, <2>2
<1> QED
  BY <1>5, <1>6

\* A tick leaves the reading true, whichever of its writes is cut or fails.
LEMMA TickReads ==
  ASSUME BrokerInv, BrokerInv', ReadingInv, NEW c \in Calls, NEW lines, NEW next, NEW sends,
         Tick(c, lines, next, sends)
  PROVE  ReadingInv'
<1> DEFINE n == broker.number
           free == Cardinality(InFlight \ {c})
           W == Written(c, lines, next, sends)
<1>1. /\ n \in Brokers /\ broker'.number = n
      /\ asked[n] \in Nat /\ asked'[n] \in Nat /\ asked[n] <= asked'[n]
      /\ \A b \in Brokers : b # n => asked'[b] = asked[b]
      /\ ~W => asked' = asked
      /\ ~W /\ broker'.up => InFlight' = InFlight \ {c}
  BY TickCounts
<1>2. /\ HasLast(ledger') /\ (Known' => Known)
      /\ \/ LastTotals(ledger') = LastTotals(ledger) /\ ~W
         \/ \E i \in 1 .. Len(lines) : LastTotals(ledger') = lines[i] /\ (W => i = Len(lines))
  BY TickIsRead DEF ReadingInv
<1>3. n \in 1 .. n /\ 1 .. n \subseteq Brokers
  BY <1>1, BrokerAssumption DEF Brokers
<1>4. heard \in [Brokers -> [usages : Nat, tokens : Nat]]
      /\ heard' \in [Brokers -> [usages : Nat, tokens : Nat]]
  BY DEF BrokerInv, TypeOK
<1>5. free \in Nat
  BY InFlightFinite
<1>6. ASSUME NEW i \in 1 .. Len(lines), LastTotals(ledger') = lines[i], W => i = Len(lines)
      PROVE ReadingInv'
  <2> DEFINE t == lines[i].totals
             h == heard'[n]
  <2>1. ReadLedger' = t /\ ReadOf' = n
    <3>1. lines[i].by = n
      BY DEF Tick
    <3> QED
      BY <1>6, <3>1 DEF ReadLedger, ReadOf
  <2>2. Fits(t, c, h)
    BY DEF Tick
  <2>3. t \in Totals /\ t.requests = t.unended + t.unobserved + h.usages
        /\ t.input = h.tokens /\ free <= t.unended /\ totals.requests <= t.requests
    BY <2>2 DEF Fits, Accounts
  <2>4. t.requests \in Nat /\ t.unended \in Nat /\ t.unobserved \in Nat /\ t.input \in Nat
        /\ h.usages \in Nat /\ h.tokens \in Nat /\ totals.requests \in Nat
    <3>1. totals \in Totals
      BY DEF BrokerInv, TypeOK
    <3>2. \A x \in Totals : x.requests \in Nat /\ x.unended \in Nat /\ x.unobserved \in Nat /\ x.input \in Nat
      BY DEF Totals
    <3>3. h.usages \in Nat /\ h.tokens \in Nat
      BY <1>1, <1>4
    <3> HIDE DEF t, h
    <3> QED
      BY <2>3, <3>1, <3>2, <3>3
  <2>5. W => totals' = t
    <3>1. ASSUME W PROVE totals' = t
      <4>1. totals' = Last(lines).totals
        BY <3>1 DEF Written
      <4>2. i = Len(lines)
        BY <3>1, <1>6
      <4> QED
        BY <4>1, <4>2 DEF Last
    <3> QED
      BY <3>1
  <2> HIDE DEF t, h
  <2>6. asked'[n] <= t.requests
    <3>1. CASE W
      <4>1. asked'[n] <= totals'.requests
        BY <1>1 DEF BrokerInv
      <4> QED
        BY <2>5, <3>1, <4>1
    <3>2. CASE ~W
      <4>1. asked[n] <= totals.requests /\ asked'[n] = asked[n]
        BY <1>1, <3>2 DEF BrokerInv
      <4> QED
        BY <1>1, <2>3, <2>4, <4>1
    <3> QED
      BY <3>1, <3>2
  <2>7. broker'.up => Cardinality(InFlight') <= t.unended
    <3>1. CASE W
      BY <2>5, <3>1 DEF BrokerInv
    <3>2. CASE ~W
      BY <1>1, <2>3, <3>2
    <3> QED
      BY <3>1, <3>2
  <2>8. h.usages <= asked'[n]
    <3>1. h.usages + free <= asked[n]
      BY DEF Tick, h
    <3> QED
      BY <1>1, <1>5, <2>4, <3>1
  <2>9. ASSUME t.unended = 0, t.unobserved = 0
        PROVE t.requests = asked'[n] /\ h.usages = asked'[n]
    <3>1. t.requests = h.usages
      BY <2>3, <2>4, <2>9
    <3> QED
      BY <1>1, <2>4, <2>6, <2>8, <3>1
  <2>10. t.input <= h.tokens
    BY <2>3, <2>4
  <2>11. LedgerTellsTheTruth'
    <3>1. t.requests >= asked'[n]
      BY <1>1, <2>4, <2>6
    <3>2. SaysComplete' => t.unended = 0 /\ t.unobserved = 0
      BY <2>1 DEF SaysComplete
    <3> QED
      BY <2>1, <2>3, <2>9, <2>10, <3>1, <3>2 DEF LedgerTellsTheTruth, h
  <2> QED
    BY <1>1, <1>2, <1>3, <2>1, <2>7, <2>11 DEF ReadingInv
<1>7. ASSUME LastTotals(ledger') = LastTotals(ledger), ~W
      PROVE ReadingInv'
  <2> DEFINE t == ReadLedger
             b == ReadOf
  <2>1. ReadLedger' = t /\ ReadOf' = b
    BY <1>7 DEF ReadLedger, ReadOf
  <2>2. b \in 1 .. n /\ b \in Brokers /\ asked' = asked
    BY <1>1, <1>3, <1>7 DEF ReadingInv
  <2>3. t \in Totals
    BY ReadingTypes DEF ReadingInv, BrokerInv, TypeOK, ReadLedger
  <2>4. t.unended \in Nat /\ t.input \in Nat /\ heard[b].tokens \in Nat
        /\ heard'[b].tokens \in Nat
    BY <1>4, <2>2, <2>3 DEF Totals
  <2> HIDE DEF t, b
  <2>5. heard[b].tokens <= heard'[b].tokens
    <3>1. CASE b = n
      BY <3>1 DEF Tick
    <3>2. CASE b # n
      BY <2>2, <2>4, <3>2 DEF Tick
    <3> QED
      BY <3>1, <3>2
  <2>6. t.input <= heard'[b].tokens
    <3>1. t.input <= heard[b].tokens
      BY DEF ReadingInv, LedgerTellsTheTruth, t, b
    <3> QED
      BY <2>4, <2>5, <3>1
  <2>7. ASSUME SaysComplete' PROVE SaysComplete /\ heard'[b] = heard[b]
    <3>1. SaysComplete /\ t.unended = 0
      BY <1>2, <2>1, <2>7 DEF SaysComplete, t
    <3>2. CASE b # n
      BY <2>2, <3>1, <3>2 DEF Tick
    <3>3. CASE b = n
      <4>1. Cardinality(InFlight) <= 0
        BY <3>1, <3>3 DEF ReadingInv, Tick, t, b
      <4>2. InFlight = {}
        BY <4>1, InFlightFinite, FS_EmptySet
      <4>3. heard' = heard
        BY <4>2 DEF Tick
      <4> QED
        BY <3>1, <4>3
    <3> QED
      BY <3>2, <3>3
  <2>8. broker'.up /\ b = n => Cardinality(InFlight') <= t.unended
    <3>1. ASSUME broker'.up, b = n PROVE Cardinality(InFlight') <= t.unended
      <4>1. Cardinality(InFlight) <= t.unended
        BY <3>1 DEF ReadingInv, Tick, t, b
      <4>2. InFlight' = InFlight \ {c}
        BY <1>1, <1>7, <3>1
      <4>3. free <= Cardinality(InFlight) /\ Cardinality(InFlight) \in Nat
        BY NoMore, InFlightFinite
      <4> QED
        BY <1>5, <2>4, <4>1, <4>2, <4>3
    <3> QED
      BY <3>1
  <2>9. LedgerTellsTheTruth'
    BY <2>1, <2>2, <2>6, <2>7 DEF ReadingInv, LedgerTellsTheTruth, t, b
  <2>10. b # n => asked'[n] = 0
    BY <2>2 DEF ReadingInv, b
  <2> QED
    BY <1>1, <1>2, <2>1, <2>2, <2>8, <2>9, <2>10 DEF ReadingInv
<1> QED
  BY <1>2, <1>6, <1>7

LEMMA TickIsSafe ==
  ASSUME BrokerInv, ReadingInv, NEW c \in Calls, NEW lines, NEW next, NEW sends,
         Tick(c, lines, next, sends)
  PROVE  Keeps
BY TickKeeps, TickReads, TickSends DEF Keeps

-----------------------------------------------------------------------------
(* One turn of the retry loop. *)

LEMMA ReservedFits ==
  ASSUME NEW c \in Calls, NEW h \in [usages : Nat, tokens : Nat], NEW t, Fits(t, c, h),
         NEW isRetry \in BOOLEAN, ~CapViolation(t), totals.requests \in Nat
  PROVE  /\ Fits(Reserved(t, isRetry), c, h)
         /\ Reserved(t, isRetry).requests = t.requests + 1
         /\ Reserved(t, isRetry).unended = t.unended + 1
         /\ Reserved(t, isRetry).input = t.input
<1>1. t \in Totals /\ t.requests < MaxRequests /\ t.retries < MaxRetries * MaxRequests
  BY ConstantTypes, BrokerAssumption DEF Fits, Totals, CapViolation
<1> DEFINE K == MaxRetries * MaxRequests
           r == Reserved(t, isRetry)
<1>2. K \in Nat
  BY ConstantTypes
<1>3. /\ r.requests = t.requests + 1 /\ r.unended = t.unended + 1
      /\ r.retries = IF isRetry THEN t.retries + 1 ELSE t.retries
      /\ r.input = t.input /\ r.unobserved = t.unobserved
  BY <1>1 DEF Reserved, Totals
<1>4. Accounts(t, h) /\ Cardinality(InFlight \ {c}) <= t.unended
      /\ totals.requests <= t.requests
  BY DEF Fits
<1>5. t.unended \in Nat /\ t.unobserved \in Nat /\ t.requests \in Nat /\ t.retries \in Nat
      /\ h.usages \in Nat
  BY <1>1 DEF Totals
<1>6. r \in [requests : Nat, retries : Nat, input : Nat, unended : Nat, unobserved : Nat]
  <2>1. t \in [requests : Nat, retries : Nat, input : Nat, unended : Nat, unobserved : Nat]
    BY <1>1, <1>2 DEF Totals
  <2> DEFINE x == t.requests + 1
             y == t.unended + 1
             z == IF isRetry THEN t.retries + 1 ELSE t.retries
  <2>2. x \in Nat /\ y \in Nat /\ z \in Nat
    BY <1>5
  <2>3. r = [t EXCEPT !.requests = x, !.unended = y, !.retries = z]
    BY DEF Reserved
  <2> HIDE DEF x, y, z, r
  <2>4. [t EXCEPT !.requests = x, !.unended = y, !.retries = z]
          \in [requests : Nat, retries : Nat, input : Nat, unended : Nat, unobserved : Nat]
    BY <2>1, <2>2
  <2> QED
    BY <2>3, <2>4
<1>7. r.requests \in 0 .. MaxRequests /\ r.unended \in 0 .. MaxRequests
      /\ r.unobserved \in 0 .. MaxRequests
  BY <1>1, <1>3, <1>4, <1>5, BrokerAssumption DEF Accounts
<1>8. r.retries \in 0 .. K
  BY <1>1, <1>2, <1>3, <1>5
<1>9. r \in Totals
  BY <1>6, <1>7, <1>8 DEF Totals
<1>10. Accounts(r, h) /\ totals.requests <= r.requests
  BY <1>3, <1>4, <1>5 DEF Accounts
<1>11. Cardinality(InFlight \ {c}) <= r.unended
  <2>1. Cardinality(InFlight \ {c}) \in Nat
    BY InFlightFinite
  <2> QED
    BY <2>1, <1>3, <1>4, <1>5
<1> QED
  BY <1>3, <1>9, <1>10, <1>11 DEF Fits

LEMMA LineTypes ==
  ASSUME BrokerInv, NEW t \in Totals,
         NEW event \in {"denied", "provider_admitted", "provider_retry", "provider_error",
                        "provider_request"}
  PROVE  Line(event, t) \in Lines /\ Line(event, t).totals = t
         /\ Line(event, t).by = broker.number
<1>1. broker.number \in 0 .. MaxBrokers
  BY BrokerAssumption DEF BrokerInv, TypeOK, Brokers
<1> QED
  BY <1>1 DEF Line, Lines

\* The lines a turn of the loop follows: none, or the end of the attempt before.
Before(lines, t) ==
    \/ lines = << >>
    \/ \E event \in {"provider_retry", "provider_error"} : lines = <<Line(event, t)>>

LEMMA AppendedLines ==
  ASSUME BrokerInv, NEW t \in Totals, NEW lines, Before(lines, t), NEW line \in Lines,
         line.by = broker.number
  PROVE  /\ Append(lines, line) \in Seq(Lines) /\ Append(lines, line) # << >>
         /\ Last(Append(lines, line)) = line
         /\ \A i \in 1 .. Len(Append(lines, line)) :
              /\ Append(lines, line)[i].totals \in {t, line.totals}
              /\ Append(lines, line)[i].by = broker.number
<1>1. lines \in Seq(Lines) /\ \A i \in 1 .. Len(lines) : lines[i].totals = t /\ lines[i].by = broker.number
  <2>1. CASE lines = << >>
    BY <2>1
  <2>2. ASSUME NEW event \in {"provider_retry", "provider_error"}, lines = <<Line(event, t)>>
        PROVE lines \in Seq(Lines) /\ \A i \in 1 .. Len(lines) : lines[i].totals = t /\ lines[i].by = broker.number
    <3> DEFINE one == Line(event, t)
    <3>1. one \in Lines /\ one.totals = t /\ one.by = broker.number
      BY LineTypes
    <3>2. lines = <<one>>
      BY <2>2
    <3> HIDE DEF one
    <3> QED
      BY <3>1, <3>2
  <2> QED
    BY <2>1, <2>2 DEF Before
<1>2. \A i \in 1 .. Len(lines) : lines[i].totals = t /\ lines[i].by = broker.number
  BY <1>1
<1>3. Append(lines, line) \in Seq(Lines) /\ Append(lines, line) # << >>
      /\ Len(Append(lines, line)) = Len(lines) + 1
      /\ Append(lines, line)[Len(lines) + 1] = line
      /\ \A i \in 1 .. Len(lines) : Append(lines, line)[i] = lines[i]
  <2>1. lines \in Seq(Lines)
    BY <1>1
  <2>2. Append(lines, line) \in Seq(Lines)
    BY <2>1
  <2>3. Len(Append(lines, line)) = Len(lines) + 1 /\ Append(lines, line)[Len(lines) + 1] = line
    BY <2>1
  <2>4. \A i \in 1 .. Len(lines) : Append(lines, line)[i] = lines[i]
    BY <2>1
  <2>5. Append(lines, line) # << >>
    BY <2>1, <2>3
  <2> QED
    BY <2>2, <2>3, <2>4, <2>5
<1>4. Last(Append(lines, line)) = line
  BY <1>3 DEF Last
<1>5. \A i \in 1 .. Len(lines) + 1 : i \in 1 .. Len(lines) \/ i = Len(lines) + 1
  BY <1>1
<1> QED
  BY <1>2, <1>3, <1>4, <1>5


\* A tick in which the provider reports nothing.
LEMMA HearsNothing ==
  ASSUME BrokerInv, broker.up, NEW c \in Calls, UNCHANGED <<blocked, heard>>
  PROVE  LET n == broker.number
         IN  /\ heard' \in [Brokers -> [usages : Nat, tokens : Nat]]
             /\ \A b \in Brokers : b # n => heard'[b] = heard[b]
             /\ heard'[n] = heard[n] /\ heard[n].tokens <= heard'[n].tokens
             /\ heard' = heard
             /\ heard'[n].usages + Cardinality(InFlight \ {c}) <= asked[n]
             /\ blocked' \in BOOLEAN
<1> DEFINE n == broker.number
<1>1. heard \in [Brokers -> [usages : Nat, tokens : Nat]] /\ n \in Brokers
      /\ asked \in [Brokers -> 0 .. MaxRequests] /\ blocked \in BOOLEAN
  BY DEF BrokerInv, TypeOK
<1>2. heard[n].usages \in Nat /\ heard[n].tokens \in Nat /\ asked[n] \in Nat
  BY <1>1, BrokerAssumption
<1>3. heard[n].usages + Cardinality(InFlight) <= asked[n]
  BY DEF BrokerInv
<1>4. heard[n].usages + Cardinality(InFlight \ {c}) <= asked[n]
  BY <1>2, <1>3, NoMore, InFlightFinite
<1> QED
  BY <1>1, <1>2, <1>4

LEMMA RefusedKeeps ==
  ASSUME BrokerInv, ReadingInv, broker.up, NEW c \in Calls, NEW t,
         Fits(t, c, heard[broker.number]), NEW lines, Before(lines, t),
         Refused(c, lines, t), UNCHANGED <<blocked, heard>>
  PROVE  Keeps
<1> DEFINE line == Line("denied", t)
           all == Append(lines, line)
           next == [call[c] EXCEPT !.at = "closed"]
<1>1. t \in Totals
  BY DEF Fits
<1>2. line \in Lines /\ line.totals = t /\ line.by = broker.number
  BY <1>1, LineTypes
<1>3. all \in Seq(Lines) /\ all # << >>
      /\ \A i \in 1 .. Len(all) : all[i].totals = t /\ all[i].by = broker.number
  BY <1>1, <1>2, AppendedLines
<1>4. next \in Handlers /\ next.at = "closed"
  BY DEF BrokerInv, TypeOK, Handlers
<1>5. Appends(c, all, next, 0)
  BY DEF Refused
<1> HIDE DEF line, all, next
<1>6. heard'[broker.number] = heard[broker.number]
  OBVIOUS
<1>7. \A i \in 1 .. Len(all) : /\ all[i].by = broker.number
                               /\ Fits(all[i].totals, c, heard'[broker.number])
  BY <1>3, <1>6
<1> DEFINE n == broker.number
<1>8. /\ heard' \in [Brokers -> [usages : Nat, tokens : Nat]]
      /\ \A b \in Brokers : b # n => heard'[b] = heard[b]
      /\ heard[n].tokens <= heard'[n].tokens /\ heard' = heard
      /\ heard'[n].usages + Cardinality(InFlight \ {c}) <= asked[n]
      /\ blocked' \in BOOLEAN
  BY HearsNothing
<1>9. 0 \in {0, 1} /\ 0 # 1 /\ next.at \notin {"fetching", "streaming"}
  BY <1>4
<1>10. Tick(c, all, next, 0)
  BY <1>3, <1>4, <1>5, <1>7, <1>8, <1>9 DEF Tick
<1> QED
  BY <1>10, TickIsSafe

LEMMA AttemptKeeps ==
  ASSUME BrokerInv, ReadingInv, broker.up, NEW c \in Calls, NEW t,
         Fits(t, c, heard[broker.number]), NEW lines, Before(lines, t),
         NEW a \in Nat, Attempt(c, lines, t, a), UNCHANGED <<blocked, heard>>
  PROVE  Keeps
<1>1. CASE a > MaxRetries \/ CapViolation(t)
  BY <1>1, RefusedKeeps DEF Attempt
<1>2. CASE ~(a > MaxRetries \/ CapViolation(t))
  <2> DEFINE n == broker.number
             r == Reserved(t, a > 0)
             line == Line("provider_admitted", r)
             all == Append(lines, line)
             next == [call[c] EXCEPT !.at = "fetching", !.attempt = a]
  <2>1. totals.requests \in Nat /\ t \in Totals /\ asked[n] \in Nat
        /\ heard[n] \in [usages : Nat, tokens : Nat]
    BY DEF BrokerInv, TypeOK, Totals, Fits
  <2>2. Fits(r, c, heard[n]) /\ r.requests = t.requests + 1 /\ r.unended = t.unended + 1
    <3> DEFINE isRetry == a > 0
               h == heard[n]
    <3>1. isRetry \in BOOLEAN /\ ~CapViolation(t)
      BY <1>2
    <3>2. h \in [usages : Nat, tokens : Nat] /\ Fits(t, c, h)
      BY <2>1
    <3> HIDE DEF isRetry, h
    <3>3. Fits(Reserved(t, isRetry), c, h)
          /\ Reserved(t, isRetry).requests = t.requests + 1
          /\ Reserved(t, isRetry).unended = t.unended + 1
      BY <2>1, <3>1, <3>2, ReservedFits
    <3>4. r = Reserved(t, isRetry)
      BY DEF isRetry
    <3> HIDE DEF line, all, next, r
    <3> QED
      BY <3>3, <3>4 DEF h
  <2>3. line \in Lines /\ line.totals = r /\ line.by = n
    BY <2>2, LineTypes DEF Fits
  <2>4. all \in Seq(Lines) /\ all # << >> /\ Last(all) = line
        /\ \A i \in 1 .. Len(all) : all[i].totals \in {t, r} /\ all[i].by = n
    <3> HIDE DEF line, next, r
    <3> QED
      BY <2>1, <2>3, AppendedLines
  <2>5. next \in Handlers
    <3>1. a \in 0 .. MaxRetries
      BY <1>2, BrokerAssumption
    <3>2. call[c] \in Handlers
      BY DEF BrokerInv, TypeOK
    <3> QED
      BY <3>1, <3>2 DEF Handlers
  <2>6. Appends(c, all, next, 1)
    BY <1>2 DEF Attempt
  <2>7. Cardinality(InFlight \ {c}) + 1 <= r.unended
    <3>1. Cardinality(InFlight \ {c}) \in Nat /\ t.unended \in Nat
      <4>1. t.unended \in Nat
        BY <2>1 DEF Totals
      <4> QED
        BY <4>1, InFlightFinite
    <3>2. Cardinality(InFlight \ {c}) <= t.unended
      BY DEF Fits
    <3>3. r.unended = t.unended + 1
      BY <2>2
    <3> HIDE DEF r
    <3> QED
      BY <3>1, <3>2, <3>3
  <2>8. asked[n] + 1 <= r.requests
    BY <2>1, <2>2 DEF Fits, BrokerInv, Totals
  <2>9. totals.requests < MaxRequests /\ heard[n].tokens < MaxInput
    <3>1. t.requests < MaxRequests /\ t.input < MaxInput
      BY <1>2, <2>1, BrokerAssumption DEF CapViolation, Totals
    <3> QED
      BY <2>1, <3>1, BrokerAssumption DEF Fits, Accounts, Totals
  <2> HIDE DEF r, line, all, next
  <2>10. \A i \in 1 .. Len(all) : all[i].by = n /\ Fits(all[i].totals, c, heard'[n])
    BY <2>2, <2>4
  <2>11. Tick(c, all, next, 1)
    BY <2>3, <2>4, <2>5, <2>6, <2>7, <2>8, <2>9, <2>10, HearsNothing DEF Tick
  <2> QED
    BY <2>11, TickIsSafe
<1> QED
  BY <1>1, <1>2

-----------------------------------------------------------------------------
(* The end of an attempt. *)

\* What the provider has reported to this broker once it reports usage too.
HeardWith(usage) ==
    LET h == heard[broker.number]
    IN  IF usage = Unreported THEN h
        ELSE [h EXCEPT !.usages = @ + 1, !.tokens = @ + usage]

LEMMA EndedFits ==
  ASSUME BrokerInv, broker.up, NEW c \in InFlight, NEW usage \in 0 .. Unreported
  PROVE  Fits(Ended(totals, usage), c, HeardWith(usage))
<1> DEFINE u == totals.unended - 1
           o == IF usage = Unreported THEN totals.unobserved + 1 ELSE totals.unobserved
           i == IF usage = Unreported THEN totals.input ELSE totals.input + usage
           t == Ended(totals, usage)
           h == heard[broker.number]
           g == HeardWith(usage)
<1>1. totals \in Totals /\ Accounts(totals, h) /\ Cardinality(InFlight) <= totals.unended
      /\ h \in [usages : Nat, tokens : Nat]
  BY DEF BrokerInv, TypeOK
<1>2. totals.requests \in 0 .. MaxRequests /\ totals.unended \in Nat
      /\ totals.unobserved \in Nat /\ totals.input \in Nat /\ h.usages \in Nat
      /\ totals.requests = totals.unended + totals.unobserved + h.usages
  BY <1>1 DEF Totals, Accounts
<1>3. Cardinality(InFlight \ {c}) = Cardinality(InFlight) - 1
      /\ Cardinality(InFlight \ {c}) \in Nat /\ Cardinality(InFlight) \in Nat
  BY OneLess, InFlightFinite
<1>4. Cardinality(InFlight \ {c}) <= u /\ u \in Nat
  BY <1>1, <1>2, <1>3
<1>5. usage \in Nat
  BY BrokerAssumption DEF Unreported
<1>6. o \in Nat /\ i \in Nat /\ u + o <= totals.requests
  BY <1>2, <1>4, <1>5
<1>7. u \in 0 .. MaxRequests /\ o \in 0 .. MaxRequests
  BY <1>2, <1>4, <1>6, BrokerAssumption
<1>8. g.usages = (IF usage = Unreported THEN h.usages ELSE h.usages + 1) /\ g.tokens = i
  BY <1>1 DEF HeardWith, Accounts
<1>9. totals.requests = u + o + g.usages
  BY <1>2, <1>4, <1>8
<1>10. t = [totals EXCEPT !.unended = u, !.unobserved = o, !.input = i]
  BY DEF Ended
<1> HIDE DEF u, o, i, t, g
<1>11. [totals EXCEPT !.unended = u, !.unobserved = o, !.input = i] \in Totals
  BY <1>1, <1>6, <1>7 DEF Totals
<1>12. t \in Totals /\ t.unended = u /\ t.unobserved = o /\ t.input = i
       /\ t.requests = totals.requests
  BY <1>1, <1>10, <1>11 DEF Totals
<1>13. totals.requests <= t.requests
  BY <1>2, <1>12
<1>14. Accounts(t, g)
  BY <1>8, <1>9, <1>12 DEF Accounts
<1>15. Fits(t, c, g)
  BY <1>4, <1>12, <1>13, <1>14 DEF Fits
<1> QED
  BY <1>15 DEF t, g

LEMMA TriesAgainKeeps ==
  ASSUME BrokerInv, ReadingInv, broker.up, NEW c \in InFlight,
         NEW event \in {"provider_retry", "provider_error"}, TriesAgain(c, event),
         UNCHANGED <<blocked, heard>>
  PROVE  Keeps
<1> DEFINE t == Ended(totals, Unreported)
           lines == <<Line(event, t)>>
           a == call[c].attempt + 1
<1>1. Unreported \in 0 .. Unreported
  BY BrokerAssumption DEF Unreported
<1>2. Fits(t, c, heard[broker.number])
  BY <1>1, EndedFits DEF HeardWith
<1>3. c \in Calls /\ Before(lines, t)
  BY DEF InFlight, Before
<1>4. a \in Nat
  <2>1. call[c] \in Handlers
    BY DEF BrokerInv, TypeOK, InFlight
  <2> QED
    BY <2>1, BrokerAssumption DEF Handlers
<1>5. Attempt(c, lines, t, a)
  BY DEF TriesAgain
<1> HIDE DEF t, lines, a
<1> QED
  BY <1>2, <1>3, <1>4, <1>5, AttemptKeeps

LEMMA StreamEndsKeeps ==
  ASSUME BrokerInv, ReadingInv, NEW c \in Calls, NEW usage \in 0 .. Unreported,
         NEW authFailed \in BOOLEAN, StreamEnds(c, usage, authFailed)
  PROVE  Keeps
<1> DEFINE n == broker.number
           t == Ended(totals, usage)
           line == Line("provider_request", t)
           next == [call[c] EXCEPT !.at = "closed"]
           h == HeardWith(usage)
           free == Cardinality(InFlight \ {c})
<1>1. broker.up /\ c \in InFlight
  BY DEF StreamEnds, Runs, InFlight
<1>2. Fits(t, c, h)
  BY <1>1, EndedFits
<1>3. line \in Lines /\ line.totals = t /\ line.by = n
  BY <1>2, LineTypes DEF Fits
<1>4. next \in Handlers /\ next.at = "closed"
  BY DEF BrokerInv, TypeOK, Handlers
<1>5. Appends(c, <<line>>, next, 0)
  BY DEF StreamEnds
<1>6. heard \in [Brokers -> [usages : Nat, tokens : Nat]] /\ n \in Brokers
      /\ heard[n].tokens \in Nat /\ heard[n].usages \in Nat /\ asked[n] \in Nat
      /\ heard[n].usages + Cardinality(InFlight) <= asked[n]
  <2>1. heard \in [Brokers -> [usages : Nat, tokens : Nat]] /\ n \in Brokers
        /\ asked \in [Brokers -> 0 .. MaxRequests]
    BY DEF BrokerInv, TypeOK
  <2>2. heard[n].usages + Cardinality(InFlight) <= asked[n]
    BY <1>1 DEF BrokerInv
  <2> QED
    BY <2>1, <2>2
<1>7. h \in [usages : Nat, tokens : Nat] /\ heard[n].tokens <= h.tokens
      /\ (h.usages = heard[n].usages \/ h.usages = heard[n].usages + 1)
      /\ heard' = [heard EXCEPT ![n] = h]
  <2>1. heard[n] \in [usages : Nat, tokens : Nat]
    BY <1>6
  <2>2. CASE usage = Unreported
    <3>1. h = heard[n] /\ heard' = heard
      BY <2>2 DEF StreamEnds, HeardWith
    <3> QED
      BY <1>6, <2>1, <3>1
  <2>3. CASE usage # Unreported
    <3>1. usage \in Nat
      BY BrokerAssumption DEF Unreported
    <3>2. h = [heard[n] EXCEPT !.usages = @ + 1, !.tokens = @ + usage]
      BY <2>3 DEF HeardWith
    <3>3. heard' = [heard EXCEPT ![n].usages = @ + 1, ![n].tokens = @ + usage]
      BY <2>3 DEF StreamEnds
    <3>4. [heard EXCEPT ![n].usages = @ + 1, ![n].tokens = @ + usage]
          = [heard EXCEPT ![n] = [heard[n] EXCEPT !.usages = @ + 1, !.tokens = @ + usage]]
      BY ONLY <1>6, <2>1
    <3>5. h \in [usages : Nat, tokens : Nat] /\ h.usages = heard[n].usages + 1 /\ h.tokens = heard[n].tokens + usage
      <4> DEFINE k == [heard[n] EXCEPT !.usages = @ + 1]
                 x == heard[n].tokens + usage
      <4>1. x \in Nat /\ heard[n].usages + 1 \in Nat
        BY ONLY <2>1, <3>1
      <4>2. k \in [usages : Nat, tokens : Nat] /\ k.usages = heard[n].usages + 1
        BY ONLY <2>1, <4>1
      <4>3. h = [k EXCEPT !.tokens = x]
        BY ONLY <3>2
      <4> HIDE DEF k, x
      <4>4. h \in [usages : Nat, tokens : Nat] /\ h.usages = k.usages /\ h.tokens = x
        BY ONLY <4>1, <4>2, <4>3
      <4> QED
        BY ONLY <4>2, <4>4 DEF x
    <3> QED
      BY <1>6, <3>1, <3>2, <3>3, <3>4, <3>5
  <2> QED
    BY <2>2, <2>3
<1>8. blocked' \in BOOLEAN
  BY DEF StreamEnds, BrokerInv, TypeOK
<1> DEFINE lines == <<line>>
<1> HIDE DEF line, t, next, h
<1>9. heard' \in [Brokers -> [usages : Nat, tokens : Nat]] /\ heard'[n] = h
      /\ \A b \in Brokers : b # n => heard'[b] = heard[b]
  BY <1>6, <1>7
<1>10. h.usages + free <= asked[n]
  <2>1. free = Cardinality(InFlight) - 1 /\ free \in Nat
    BY <1>1, OneLess, InFlightFinite
  <2>2. Cardinality(InFlight) \in Nat
    BY InFlightFinite
  <2> HIDE DEF free
  <2> QED
    BY <1>6, <1>7, <2>1, <2>2
<1>11. lines \in Seq(Lines) /\ lines # << >> /\ Len(lines) = 1 /\ lines[1] = line
  BY <1>3
<1>12. Appends(c, lines, next, 0)
  BY <1>5
<1> HIDE DEF lines
<1>13. \A k \in 1 .. Len(lines) : lines[k].by = n /\ Fits(lines[k].totals, c, heard'[n])
  BY <1>2, <1>3, <1>9, <1>11
<1>14. Tick(c, lines, next, 0)
  BY <1>1, <1>4, <1>7, <1>8, <1>9, <1>10, <1>11, <1>12, <1>13 DEF Tick
<1> QED
  BY <1>14, TickIsSafe

-----------------------------------------------------------------------------
(* The other steps. *)

\* A step that writes nothing, and leaves no more in flight, leaves the reading
\* as true as it was.
LEMMA ReadingStays ==
  ASSUME BrokerInv, ReadingInv, UNCHANGED <<ledger, asked, heard>>,
         broker'.number = broker.number, broker'.up => broker.up,
         Cardinality(InFlight') <= Cardinality(InFlight), Cardinality(InFlight') \in Nat
  PROVE  ReadingInv'
<1>1. ReadLedger' = ReadLedger /\ ReadOf' = ReadOf /\ (Known' <=> Known)
      /\ (HasLast(ledger') <=> HasLast(ledger))
  BY DEF ReadLedger, ReadOf, Known
<1>2. LedgerTellsTheTruth'
  BY <1>1 DEF ReadingInv, LedgerTellsTheTruth, SaysComplete
<1>3. ReadLedger.unended \in Nat
  <2>1. ReadLedger \in Totals
    BY ReadingTypes DEF ReadingInv, BrokerInv, TypeOK, ReadLedger
  <2> QED
    BY <2>1 DEF Totals
<1>4. broker'.up /\ ReadOf = broker.number => Cardinality(InFlight') <= ReadLedger.unended
  BY <1>3, InFlightFinite DEF ReadingInv
<1> QED
  BY <1>1, <1>2, <1>4 DEF ReadingInv

\* A step that only moves a handler on, and leaves its attempt in flight or not.
LEMMA MovesOn ==
  ASSUME BrokerInv, ReadingInv, NEW c \in Calls, NEW h \in Handlers, call' = [call EXCEPT ![c] = h],
         h.at \in {"fetching", "streaming"} => c \in InFlight,
         UNCHANGED <<totals, ledger, broker, asked, faults, blocked, heard>>
  PROVE  Keeps
<1>1. TypeOK'
  BY DEF BrokerInv, TypeOK
<1>2. Cardinality(InFlight') <= Cardinality(InFlight)
  <2>1. InFlight' \subseteq InFlight
    BY DEF InFlight, BrokerInv, TypeOK
  <2> QED
    BY <2>1, InFlightFinite, FS_Subset
<1>3. IsFiniteSet(InFlight') /\ Cardinality(InFlight') \in Nat
  <2>1. InFlight' \subseteq InFlight
    BY DEF InFlight, BrokerInv, TypeOK
  <2> QED
    BY <2>1, InFlightFinite, FS_Subset, FS_CardinalityType
<1>4. broker.up => Cardinality(InFlight') <= totals.unended
  <2>1. totals.unended \in Nat
    BY DEF BrokerInv, TypeOK, Totals
  <2> QED
    BY <1>2, <1>3, <2>1, InFlightFinite DEF BrokerInv
<1>5. broker.up => heard[broker.number].usages + Cardinality(InFlight') <= asked[broker.number]
  <2>1. broker.number \in Brokers /\ asked[broker.number] \in 0 .. MaxRequests
        /\ heard[broker.number].usages \in Nat
    BY DEF BrokerInv, TypeOK
  <2>2. asked[broker.number] \in Nat
    BY <2>1, BrokerAssumption
  <2> QED
    BY <1>2, <1>3, <2>1, <2>2, InFlightFinite DEF BrokerInv
<1>6. BrokerInv'
  BY <1>1, <1>4, <1>5 DEF BrokerInv, Accounts
<1>7. ReadingInv'
  BY <1>2, <1>3, ReadingStays
<1> QED
  BY <1>6, <1>7 DEF Keeps, SendIsAllowed

LEMMA FitsNow ==
  ASSUME BrokerInv, broker.up, NEW c \in Calls
  PROVE  Fits(totals, c, heard[broker.number])
<1>1. totals \in Totals /\ totals.unended \in Nat /\ totals.requests \in Nat
  BY DEF BrokerInv, TypeOK, Totals
<1>2. Cardinality(InFlight \ {c}) <= totals.unended
  <2>1. Cardinality(InFlight \ {c}) \in Nat /\ Cardinality(InFlight) \in Nat
        /\ Cardinality(InFlight \ {c}) <= Cardinality(InFlight)
    BY InFlightFinite, NoMore
  <2> QED
    BY <1>1, <2>1 DEF BrokerInv
<1> QED
  BY <1>1, <1>2 DEF Fits, BrokerInv

LEMMA HandlerKeeps ==
  ASSUME BrokerInv, ReadingInv, NEW c \in Calls,
         \/ Arrive(c) \/ BodyRead(c) \/ FetchFails(c) \/ ServerFails(c)
         \/ Answered(c) \/ StreamBreaks(c)
  PROVE  Keeps
<1> DEFINE Reading == [call[c] EXCEPT !.at = "reading"]
           Streaming == [call[c] EXCEPT !.at = "streaming", !.begun = TRUE]
<1>1. call[c] \in Handlers /\ Reading \in Handlers /\ Reading.at = "reading"
      /\ Streaming \in Handlers
  BY DEF BrokerInv, TypeOK, Handlers
<1>2. Before(<< >>, totals)
  BY DEF Before
<1>3. CASE Arrive(c)
  <2>1. broker.up /\ UNCHANGED <<blocked, heard>>
    BY <1>3 DEF Arrive, Runs
  <2>2. CASE Refused(c, << >>, totals)
    BY <1>2, <2>1, <2>2, FitsNow, RefusedKeeps
  <2>3. CASE /\ call' = [call EXCEPT ![c].at = "reading"]
             /\ UNCHANGED <<totals, ledger, broker, asked, faults>>
    <3>1. call' = [call EXCEPT ![c] = Reading]
      BY <2>3
    <3> HIDE DEF Reading
    <3> QED
      BY <1>1, <2>1, <2>3, <3>1, MovesOn
  <2> QED
    BY <1>3, <2>2, <2>3 DEF Arrive
<1>4. CASE BodyRead(c)
  <2>1. broker.up /\ UNCHANGED <<blocked, heard>>
    BY <1>4 DEF BodyRead, Runs
  <2>2. CASE Refused(c, << >>, totals)
    BY <1>2, <2>1, <2>2, FitsNow, RefusedKeeps
  <2>3. CASE Attempt(c, << >>, totals, 0)
    BY <1>2, <2>1, <2>3, FitsNow, AttemptKeeps
  <2> QED
    BY <1>4, <2>2, <2>3 DEF BodyRead
<1>5. CASE FetchFails(c)
  BY <1>5, TriesAgainKeeps DEF FetchFails, Runs, InFlight
<1>6. CASE ServerFails(c)
  BY <1>6, TriesAgainKeeps DEF ServerFails, Runs, InFlight
<1>7. CASE Answered(c)
  <2>1. broker.up /\ c \in InFlight /\ UNCHANGED <<blocked, heard>>
    BY <1>7 DEF Answered, Runs, InFlight
  <2>2. CASE call[c].begun
    BY <1>7, <2>1, <2>2, TriesAgainKeeps DEF Answered
  <2>3. CASE ~call[c].begun
    <3>1. call' = [call EXCEPT ![c] = Streaming]
          /\ UNCHANGED <<totals, ledger, broker, asked, faults>>
      BY <1>7, <2>3 DEF Answered
    <3> HIDE DEF Streaming
    <3> QED
      BY <1>1, <2>1, <3>1, MovesOn
  <2> QED
    BY <2>2, <2>3
<1>8. CASE StreamBreaks(c)
  BY <1>8, TriesAgainKeeps DEF StreamBreaks, Runs, InFlight
<1> QED
  BY <1>3, <1>4, <1>5, <1>6, <1>7, <1>8

LEMMA KillKeeps ==
  ASSUME BrokerInv, ReadingInv, Kill
  PROVE  Keeps
<1>1. broker'.number = broker.number /\ ~broker'.up
      /\ broker' \in [number : Brokers, up : BOOLEAN]
  BY DEF Kill, Down, BrokerInv, TypeOK
<1>2. UNCHANGED <<call, totals, ledger, blocked, asked, heard, faults>>
  BY DEF Kill
<1>3. BrokerInv'
  BY <1>1, <1>2 DEF BrokerInv, TypeOK
<1>4. InFlight' = InFlight
  BY <1>2 DEF InFlight
<1>5. ReadingInv'
  <2>1. Cardinality(InFlight') <= Cardinality(InFlight) /\ Cardinality(InFlight') \in Nat
    BY <1>4, InFlightFinite
  <2> QED
    BY <1>1, <1>2, <2>1, ReadingStays
<1> QED
  BY <1>2, <1>3, <1>5 DEF Keeps, SendIsAllowed

LEMMA ResumeKeeps ==
  ASSUME BrokerInv, ReadingInv, Resume
  PROVE  Keeps
<1> DEFINE n == broker.number
<1>1. n \in Nat /\ n + 1 \in Brokers /\ n + 1 > n
  BY BrokerAssumption DEF BrokerInv, TypeOK, Resume, Brokers
<1>2. broker' = [number |-> n + 1, up |-> TRUE] /\ totals' = Zero
      /\ UNCHANGED <<ledger, asked, heard, faults>> /\ blocked' = FALSE
  BY DEF Resume
<1>3. call' \in [Calls -> Handlers] /\ \A c \in Calls : call'[c].at \in {"away", "closed"}
  BY DEF Resume, BrokerInv, TypeOK, Handlers
<1>4. InFlight' = {} /\ Cardinality(InFlight') = 0
  BY <1>3, FS_EmptySet DEF InFlight
<1>5. asked[n + 1] = 0 /\ heard[n + 1].usages = 0 /\ heard[n + 1].tokens = 0
  BY <1>1 DEF BrokerInv
<1>6. \A b \in Brokers : b > n + 1 => b > n
  BY <1>1, BrokerAssumption DEF Brokers
<1>7. TypeOK'
  BY <1>1, <1>2, <1>3, ConstantTypes DEF BrokerInv, TypeOK
<1>8. Zero.unended = 0 /\ Zero.unobserved = 0 /\ Zero.requests = 0 /\ Zero.input = 0
  BY DEF Zero
<1>9. BrokerInv'
  BY <1>1, <1>2, <1>4, <1>5, <1>6, <1>7, <1>8 DEF BrokerInv, Accounts
<1>10. ReadLedger' = ReadLedger /\ ReadOf' = ReadOf /\ (Known' <=> Known)
       /\ (HasLast(ledger') <=> HasLast(ledger))
  BY <1>2 DEF ReadLedger, ReadOf, Known
<1>11. ReadOf \in 1 .. n + 1 /\ ReadOf # n + 1
  BY <1>1 DEF ReadingInv
<1>12. LedgerTellsTheTruth'
  BY <1>2, <1>10 DEF ReadingInv, LedgerTellsTheTruth, SaysComplete
<1>13. ReadingInv'
  BY <1>2, <1>5, <1>10, <1>11, <1>12 DEF ReadingInv
<1> QED
  BY <1>2, <1>9, <1>13 DEF Keeps, SendIsAllowed

LEMMA StepKeeps ==
  ASSUME BrokerInv, ReadingInv, [Next]_vars
  PROVE  BrokerInv' /\ ReadingInv' /\ [SendIsAllowed]_vars
<1>1. ASSUME NEW c \in Calls,
             \/ Arrive(c) \/ BodyRead(c) \/ FetchFails(c) \/ ServerFails(c)
             \/ Answered(c) \/ StreamBreaks(c)
      PROVE Keeps
  BY <1>1, HandlerKeeps
<1>2. ASSUME NEW c \in Calls, NEW usage \in 0 .. Unreported, StreamEnds(c, usage, FALSE)
      PROVE Keeps
  BY <1>2, StreamEndsKeeps
<1>3. ASSUME NEW c \in Calls, StreamEnds(c, Unreported, TRUE)
      PROVE Keeps
  <2>1. Unreported \in 0 .. Unreported
    BY BrokerAssumption DEF Unreported
  <2> QED
    BY <1>3, <2>1, StreamEndsKeeps
<1>4. CASE UNCHANGED vars
  <2>1. BrokerInv'
    BY <1>4 DEF vars, BrokerInv, TypeOK, InFlight, Accounts
  <2>2. InFlight' = InFlight
    BY <1>4 DEF vars, InFlight
  <2>3. Cardinality(InFlight') <= Cardinality(InFlight) /\ Cardinality(InFlight') \in Nat
    BY <2>2, InFlightFinite
  <2>4. ReadingInv'
    BY <1>4, <2>3, ReadingStays DEF vars
  <2> QED
    BY <1>4, <2>1, <2>4
<1> QED
  BY <1>1, <1>2, <1>3, <1>4, KillKeeps, ResumeKeeps DEF Next, Keeps

LEMMA InitKeeps == Init => BrokerInv /\ ReadingInv
<1> SUFFICES ASSUME Init PROVE BrokerInv /\ ReadingInv
  OBVIOUS
<1>1. 1 \in Brokers /\ 0 \in 0 .. MaxRequests /\ 0 \in 0 .. MaxRetries /\ 0 \in 0 .. MaxFaults
  BY BrokerAssumption DEF Brokers
<1>2. TypeOK
  <2>1. [at |-> "away", attempt |-> 0, begun |-> FALSE] \in Handlers
    BY <1>1 DEF Handlers
  <2>2. call \in [Calls -> Handlers] /\ totals \in Totals
    BY <2>1, ConstantTypes DEF Init
  <2>3. broker \in [number : Brokers, up : BOOLEAN] /\ blocked \in BOOLEAN
    BY <1>1 DEF Init
  <2>4. ledger \in Seq(Lines)
    BY DEF Init
  <2>5. asked \in [Brokers -> 0 .. MaxRequests] /\ faults \in 0 .. MaxFaults
    BY <1>1 DEF Init
  <2>6. heard \in [Brokers -> [usages : Nat, tokens : Nat]]
    BY DEF Init
  <2> QED
    BY <2>2, <2>3, <2>4, <2>5, <2>6 DEF TypeOK
<1>3. InFlight = {} /\ Cardinality(InFlight) = 0
  BY FS_EmptySet DEF Init, InFlight
<1>4. BrokerInv
  BY <1>1, <1>2, <1>3 DEF Init, BrokerInv, Zero, Accounts
<1>5. Whole(ledger) = {} /\ DOMAIN ledger = {}
  BY DEF Init, Whole
<1>6. ReadLedger = Zero /\ ReadOf = 1 /\ HasLast(ledger)
  BY <1>5 DEF ReadLedger, ReadOf, LastTotals, HasLast
<1>7. asked[1] = 0 /\ heard[1].usages = 0 /\ heard[1].tokens = 0 /\ broker.number = 1
  BY <1>1 DEF Init
<1>8. LedgerTellsTheTruth
  BY <1>6, <1>7 DEF LedgerTellsTheTruth, Zero
<1>9. ReadingInv
  BY <1>3, <1>6, <1>7, <1>8 DEF ReadingInv, Zero
<1> QED
  BY <1>4, <1>9

-----------------------------------------------------------------------------
LEMMA AlwaysInv == Spec => [](BrokerInv /\ ReadingInv)
<1>1. BrokerInv /\ ReadingInv /\ [Next]_vars => (BrokerInv /\ ReadingInv)'
  BY StepKeeps
<1> QED
  BY <1>1, InitKeeps, PTL DEF Spec

\* The types of the broker and its ledger; and no broker reserves past its caps,
\* for any number of concurrent requests, retries, kills and resumes.
THEOREM BrokerTypes == Spec => []TypeOK
<1>1. BrokerInv => TypeOK
  BY DEF BrokerInv
<1> QED
  BY <1>1, AlwaysInv, PTL

\* No broker sends a request past its caps, whatever other answers spend while
\* a retry waits (reserveAttempt, the loop of model-broker.ts).
THEOREM SendsWithinCaps == Spec => SentWithinCaps
<1>1. BrokerInv /\ ReadingInv /\ [Next]_vars =>
        [\A b \in Brokers : asked'[b] # asked[b] =>
            asked[b] < MaxRequests /\ heard[b].tokens < MaxInput]_vars
  BY StepKeeps DEF SendIsAllowed
<1> QED
  BY <1>1, AlwaysInv, PTL DEF Spec, SentWithinCaps

\* What readLedgerUsage makes of the ledger is true of the broker that wrote its
\* last totals, at every moment, wherever a line was cut or could not be written
\* (src/provider-budget.ts).
THEOREM LedgerIsTrue == Spec => []LedgerTellsTheTruth
<1>1. ReadingInv => LedgerTellsTheTruth
  BY DEF ReadingInv
<1> QED
  BY <1>1, AlwaysInv, PTL
===============================================================================
