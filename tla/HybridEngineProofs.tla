--------------------------- MODULE HybridEngineProofs ---------------------------
(***************************************************************************)
(* What holds of the hybrid engine for any reviewers, candidates, verifier *)
(* families, caps and deadlines: how far a lane may run, and that the      *)
(* receipt and status.json tell the truth.                                 *)
(*                                                                         *)
(* A lane is bounded by the record its process leaves: LaneOK tells, for   *)
(* each place in its stream of events, how many turns it has had and       *)
(* whether it may be asked for its report.  QueueInv makes the queue of    *)
(* status bodies name who waits, each once: so what a written body         *)
(* resumes is there to be resumed.  StageInv says where main's code has    *)
(* left the lanes, RulingInv where each candidate is between its finding   *)
(* and its verdict, and ReceiptInv that nothing moves once there is a      *)
(* receipt.                                                                *)
(***************************************************************************)
EXTENDS HybridEngine, SequenceTheorems, TLAPS

\* A process that may have another turn.
MayGoOn(r) == r.pi \in {"ready", "turn"} \/ (r.pi = "ending" /\ r.last = "error")

\* A lane's process, by where it is in its stream of events: its turns are those that
\* did not fail, fewer than its cap, and those that failed since.
LaneOK(r) ==
  /\ ~(r.handoff /\ r.report)
  /\ r.procs <= 2 /\ (~r.report /\ ~r.cut => r.procs <= 1)
  /\ r.handoff \/ (~r.spoke /\ r.pi # "ended") => ~r.wrote
  /\ ~r.spoke => r.turns <= TurnCap + Beyond
  /\ ~r.spoke /\ ~r.report /\ ~r.handoff /\ MayGoOn(r) => r.turns < TurnCap + r.fails
  /\ r.pi \in {"ready", "turn"} => r.fails <= PiRetries
  /\ r.report /\ r.pi = "turn" => r.turns <= TurnCap

ReviewersSettled == \A r \in Reviewers : lane[r].st = "settled"

\* Who waits for a body, waits for one, and the run only where its code awaits it.
QueueInv ==
  /\ \A i, j \in DOMAIN queue : queue[i].who = queue[j].who => i = j
  /\ \A i \in DOMAIN queue : queue[i].who = "main" =>
       main \in {"opening", "collapsing", "closing", "failing"}
  /\ \A i \in DOMAIN queue : queue[i].phase = "done" => main \in {"closing", "ended"}

\* Where the code of the run has left the lanes.
StageInv ==
  /\ main = "opening" => \A l \in Lanes : lane[l] = Idle
  /\ main \in {"reviewing", "collapsing"} => \A k \in Keys : lane[k].st = "idle"
  /\ \A k \in todo : lane[k].st = "idle"
  /\ main \in {"collapsing", "assigning", "verifying", "closing"} => ReviewersSettled
  /\ main = "verifying" => todo = {}
  /\ phase = "done" => main \in {"closing", "ended"}
  /\ main = "ended" => \A l \in Lanes : lane[l].st # "running"

LanesOK == \A l \in Lanes : LaneOK(lane[l])

Inv == TypeOK /\ LanesOK /\ QueueInv /\ StageInv

-----------------------------------------------------------------------------
(* One lane *)

LEMMA Numbers ==
  /\ TurnCap \in Nat /\ TurnCap > 0 /\ RunDeadline \in Nat /\ MaxFaults \in Nat
  /\ ReviewDeadline \in Nat /\ VerifyWindow \in Nat
  /\ PiRetries \in Nat /\ Beyond \in Nat /\ Beyond >= 1 /\ Beyond >= PiRetries
  /\ \A l \in Lanes : l # "main"
BY EngineAssumption DEF Lanes, Beyond

LEMMA IdleLane == Idle \in Lane /\ LaneOK(Idle) /\ Idle.st = "idle" /\ Idle.procs = 0
BY Numbers DEF Idle, Lane, LaneOK, MayGoOn

LEMMA OverLane ==
  ASSUME NEW st \in {"killed", "saving", "settled"}
  PROVE  Over(st) \in Lane /\ LaneOK(Over(st)) /\ Over(st).st = st
<1>1. /\ Over(st) \in Lane /\ Over(st).st = st /\ Over(st).pi = "ready"
      /\ Over(st).procs = 0 /\ Over(st).turns = 0 /\ ~Over(st).wrote
      /\ ~Over(st).cut /\ ~Over(st).handoff /\ ~Over(st).report /\ Over(st).fails = 0
  BY DEF Over, Idle, Lane
<1> HIDE DEF Over
<1> QED BY <1>1, Numbers DEF LaneOK, MayGoOn

\* A process started: nothing else of the lane changes.
LEMMA SpawnedFields ==
  ASSUME NEW r \in Lane
  PROVE  LET s == Spawned(r)
         IN  /\ s \in Lane /\ s.st = "running" /\ s.pi = "ready" /\ s.procs = r.procs + 1
             /\ s.turns = r.turns /\ s.wrote = r.wrote /\ s.cut = r.cut
             /\ s.fails = 0 /\ s.spoke = r.spoke
             /\ s.handoff = r.handoff /\ s.report = r.report
<1> DEFINE n == r.procs + 1
<1>1. n \in Nat
  BY DEF Lane
<1>2. Spawned(r) = [r EXCEPT !.st = "running", !.pi = "ready", !.procs = n, !.fails = 0]
  BY DEF Spawned
<1>3. n = r.procs + 1
  OBVIOUS
<1> HIDE DEF n
<1>4. [r EXCEPT !.st = "running", !.pi = "ready", !.procs = n, !.fails = 0] \in Lane
  BY <1>1 DEF Lane
<1> QED BY <1>2, <1>3, <1>4 DEF Lane

\* A process started for a lane that had none.
LEMMA SpawnedLane ==
  ASSUME NEW d \in Nat
  PROVE  LET r == Spawned([Idle EXCEPT !.deadline = d])
         IN  r \in Lane /\ LaneOK(r) /\ r.st = "running"
<1> DEFINE i == [Idle EXCEPT !.deadline = d]
           r == Spawned(i)
<1>1. /\ i \in Lane /\ i.procs = 0 /\ i.turns = 0 /\ ~i.wrote /\ ~i.cut /\ ~i.handoff
      /\ ~i.report
  BY DEF Idle, Lane
<1> HIDE DEF i
<1>2. /\ r \in Lane /\ r.st = "running" /\ r.pi = "ready" /\ r.procs = 1 /\ r.fails = 0
      /\ r.turns = 0 /\ ~r.wrote /\ ~r.cut /\ ~r.handoff /\ ~r.report
  BY <1>1, SpawnedFields
<1> HIDE DEF r
<1>3. LaneOK(r)
  BY <1>2, Numbers DEF LaneOK, MayGoOn
<1> QED BY <1>2, <1>3 DEF r, i

LEMMA CutLane ==
  ASSUME NEW l, lane[l] \in Lane, LaneOK(lane[l])
  PROVE  Cut(l) \in Lane /\ LaneOK(Cut(l)) /\ Cut(l).st = "killed"
<1>1. /\ Cut(l) \in Lane /\ Cut(l).st = "killed" /\ Cut(l).pi = "ready"
      /\ Cut(l).procs = lane[l].procs /\ Cut(l).turns = 0 /\ ~Cut(l).wrote
      /\ Cut(l).cut /\ ~Cut(l).handoff /\ ~Cut(l).report /\ Cut(l).fails = 0
  BY DEF Cut, Over, Idle, Lane
<1>2. lane[l].procs \in Nat /\ lane[l].procs <= 2
  BY DEF Lane, LaneOK
<1> QED BY <1>1, <1>2, Numbers DEF LaneOK

LEMMA AskReportLane ==
  ASSUME NEW r \in Lane, NeedsReport(r), ~(r.handoff /\ r.report),
         r.procs <= 1, ~r.spoke => r.turns <= TurnCap + Beyond,
         r.pi \in {"ready", "turn"} => r.fails <= PiRetries
  PROVE  AskReport(r) \in Lane /\ LaneOK(AskReport(r)) /\ AskReport(r).st = "killed"
<1> DEFINE a == AskReport(r)
<1>1. /\ a \in Lane /\ a.st = "killed" /\ a.pi = r.pi /\ a.procs = r.procs
      /\ a.turns = r.turns /\ a.wrote = r.wrote /\ a.cut = r.cut /\ a.handoff
      /\ a.report = r.report /\ a.fails = r.fails /\ a.spoke = r.spoke
  BY DEF AskReport, Lane
<1>2. r.procs \in Nat /\ r.turns \in Nat /\ ~r.report /\ ~r.wrote
  BY DEF Lane, NeedsReport
<1> HIDE DEF a
<1>3. LaneOK(a)
  BY <1>1, <1>2, Numbers DEF LaneOK
<1> QED BY <1>1, <1>3 DEF a

\* What an event of a lane's process, or one of its timers, makes of the lane.
LEMMA LaneMoves ==
  ASSUME TypeOK, NEW l \in Lanes, LaneOK(lane[l]),
         PiStep(l) \/ Timers(l) \/ ReportStarts(l)
  PROVE  /\ Listening /\ Live(l)
         /\ \E r \in Lane : LaneStep(l, r) /\ r.st \in {"running", "killed"} /\ LaneOK(r)
<1>1. lane[l] \in Lane
  BY DEF TypeOK
<1> DEFINE x == lane[l]
           Good(r) == r \in Lane /\ r.st \in {"running", "killed"} /\ LaneOK(r)
<1>2. Listening /\ Live(l)
  BY DEF PiStep, TurnStarts, TurnEnds, AgentEnds, Hears, Timers, KillTimer, ReportTimer,
         ReportStarts, Live
<1>3. Good(Cut(l))
  BY <1>1, CutLane
<1>4. CASE TurnStarts(l)
  <2>1. ~PastCap(x) => Good([x EXCEPT !.pi = "turn"])
    BY <1>1, <1>2, <1>4, Numbers DEF TurnStarts, Hears, Live, PastCap, Lane, LaneOK, MayGoOn
  <2> QED BY <1>2, <1>3, <1>4, <2>1 DEF TurnStarts
<1>5. ASSUME NEW stop \in Stops, TurnEnds(l, stop)
      PROVE  \E r : LaneStep(l, r) /\ Good(r)
  <2> DEFINE n == x.turns + 1
             f == IF stop = "error" THEN x.fails + 1 ELSE 0
             p == IF stop = "toolUse" THEN "ready" ELSE "ending"
             r == [x EXCEPT !.turns = n, !.last = stop, !.fails = f, !.pi = p]
  <2>1. /\ x.turns \in Nat /\ x.procs \in Nat /\ x.fails \in Nat
        /\ n \in Nat /\ f \in Nat /\ p \in {"ready", "ending"}
    BY <1>1 DEF Lane
  <2>2. x.pi = "turn" /\ ~x.cut /\ ~x.handoff /\ x.st \in {"running", "killed"}
    BY <1>5 DEF TurnEnds, Hears, Live
  <2>3. LaneStep(l, IF r.turns >= TurnCap /\ stop = "toolUse" /\ NeedsReport(r)
                    THEN AskReport(r) ELSE r)
    BY <1>5 DEF TurnEnds
  <2>4. /\ n = x.turns + 1 /\ (stop = "error" => f = x.fails + 1) /\ (stop # "error" => f = 0)
        /\ (p = "ready" <=> stop = "toolUse")
    OBVIOUS
  <2> HIDE DEF n, f, p
  <2>5. /\ r \in Lane /\ r.turns = n /\ r.st = x.st /\ r.procs = x.procs /\ r.last = stop
        /\ r.handoff = x.handoff /\ r.report = x.report /\ r.cut = x.cut /\ r.wrote = x.wrote
        /\ r.pi = p /\ r.fails = f /\ r.spoke = x.spoke
    BY <1>1, <2>1 DEF Lane, Stops
  <2> HIDE DEF r
  <2>6. ~x.spoke => n <= TurnCap + Beyond
    BY <2>1, <2>2, <2>4, Numbers DEF LaneOK, MayGoOn
  <2>7. NeedsReport(r) => Good(AskReport(r))
    <3>1. NeedsReport(r) => r.procs <= 1 /\ ~(r.handoff /\ r.report)
      BY <2>1, <2>2, <2>5 DEF NeedsReport, LaneOK
    <3>2. r.pi \in {"ready", "turn"} => r.fails <= PiRetries
      BY <2>1, <2>4, <2>5, Numbers
    <3> QED BY <2>5, <2>6, <3>1, <3>2, AskReportLane
  <2>8. ~(n >= TurnCap /\ stop = "toolUse" /\ NeedsReport(r)) => Good(r)
    <3>1. ~r.spoke /\ ~r.report /\ stop = "error" => n < TurnCap + f
      BY <2>1, <2>2, <2>4, <2>5, Numbers DEF LaneOK, MayGoOn
    <3>2. ~(n >= TurnCap /\ stop = "toolUse" /\ NeedsReport(r)) /\ ~r.spoke /\ ~r.report
            /\ stop = "toolUse" => n < TurnCap + f
      BY <2>1, <2>2, <2>4, <2>5, Numbers DEF NeedsReport, LaneOK
    <3>3. r.pi \in {"ready", "turn"} => r.fails <= PiRetries
      BY <2>1, <2>4, <2>5, Numbers
    <3>4. r.pi # "turn" /\ (MayGoOn(r) => stop \in {"error", "toolUse"})
      BY <2>1, <2>4, <2>5 DEF MayGoOn
    <3> QED BY <2>1, <2>2, <2>5, <2>6, <3>1, <3>2, <3>3, <3>4 DEF LaneOK
  <2> QED BY <2>3, <2>5, <2>7, <2>8
<1>6. ASSUME NEW wrote \in BOOLEAN, NEW again \in BOOLEAN, AgentEnds(l, wrote, again)
      PROVE  \E r : LaneStep(l, r) /\ Good(r)
  <2> DEFINE p == IF again THEN "ready" ELSE "ended"
             k == x.spoke \/ (again /\ wrote)
             r == [x EXCEPT !.pi = p, !.wrote = wrote, !.spoke = k]
  <2>1. p \in {"ready", "ended"} /\ k \in BOOLEAN /\ x.fails \in Nat /\ x.turns \in Nat
    BY <1>1 DEF Lane
  <2>2. LaneStep(l, r) /\ x.pi = "ending" /\ ~x.handoff /\ (again => Retries(x))
    BY <1>6 DEF AgentEnds, Hears
  <2>3. (p = "ready" <=> again) /\ (k <=> x.spoke \/ (again /\ wrote))
    OBVIOUS
  <2> HIDE DEF p, k
  <2>4. /\ r \in Lane /\ r.turns = x.turns /\ r.st = x.st /\ r.procs = x.procs
        /\ r.last = x.last /\ r.handoff = x.handoff /\ r.report = x.report /\ r.cut = x.cut
        /\ r.pi = p /\ r.wrote = wrote /\ r.spoke = k /\ r.fails = x.fails
    BY <1>1, <2>1 DEF Lane
  <2> HIDE DEF r
  <2>5. Good(r)
    BY <1>2, <2>1, <2>2, <2>3, <2>4 DEF LaneOK, MayGoOn, Retries, Live
  <2> QED BY <2>2, <2>5
<1>7. CASE KillTimer(l)
  BY <1>3, <1>7 DEF KillTimer
<1>8. CASE ReportTimer(l)
  <2>1. NeedsReport(x) => Good(AskReport(x))
    BY <1>1, AskReportLane DEF NeedsReport, LaneOK
  <2> QED BY <1>8, <2>1 DEF ReportTimer
<1>9. CASE ReportStarts(l)
  <2> DEFINE h == [x EXCEPT !.handoff = FALSE, !.report = TRUE]
             r == Spawned(h)
  <2>1. /\ h \in Lane /\ h.procs = x.procs /\ h.turns = x.turns /\ h.wrote = x.wrote
        /\ h.cut = x.cut /\ ~h.handoff /\ h.report /\ h.spoke = x.spoke
    BY <1>1 DEF Lane
  <2>2. x.handoff /\ ~x.cut /\ LaneStep(l, r)
    BY <1>9 DEF ReportStarts, InTime
  <2>3. x.procs \in Nat /\ x.turns \in Nat
    BY <1>1 DEF Lane
  <2> HIDE DEF h
  <2>4. /\ r \in Lane /\ r.st = "running" /\ r.pi = "ready" /\ r.procs = x.procs + 1
        /\ r.turns = x.turns /\ r.wrote = x.wrote /\ r.cut = x.cut /\ ~r.handoff
        /\ r.report /\ r.fails = 0 /\ r.spoke = x.spoke
    BY <2>1, SpawnedFields
  <2> HIDE DEF r
  <2>5. x.procs <= 1 /\ ~x.wrote /\ (~x.spoke => x.turns <= TurnCap + Beyond)
    BY <2>2 DEF LaneOK
  <2>6. /\ r.procs <= 2 /\ ~r.wrote /\ r.fails <= PiRetries
        /\ ~r.spoke => r.turns <= TurnCap + Beyond
    BY <2>2, <2>3, <2>4, <2>5, Numbers
  <2>7. LaneOK(r)
    BY <2>4, <2>6 DEF LaneOK
  <2> QED BY <1>2, <2>2, <2>4, <2>7
<1> QED BY <1>2, <1>4, <1>5, <1>6, <1>7, <1>8, <1>9 DEF PiStep, Timers

-----------------------------------------------------------------------------
(* The queue of status bodies *)

Bodies == [who : Lanes \union {"main"}, phase : {"reviewing", "verifying", "done", "failed"}]

Alone == \A i, j \in DOMAIN queue : queue[i].who = queue[j].who => i = j

\* A body added to the queue is its last.
LEMMA Appended ==
  ASSUME queue \in Seq(Bodies), NEW b \in Bodies, queue' = Append(queue, b)
  PROVE  /\ queue' \in Seq(Bodies)
         /\ \A i \in DOMAIN queue' : \/ i \in DOMAIN queue /\ queue'[i] = queue[i]
                                     \/ i = Len(queue) + 1 /\ queue'[i] = b
         /\ Alone /\ (\A i \in DOMAIN queue : queue[i].who # b.who) => Alone'
<1>1. queue' \in Seq(Bodies) /\ Len(queue') = Len(queue) + 1
  BY AppendProperties
<1>2. ASSUME NEW i \in DOMAIN queue'
      PROVE  \/ i \in DOMAIN queue /\ queue'[i] = queue[i]
             \/ i = Len(queue) + 1 /\ queue'[i] = b
  <2>1. i \in 1..(Len(queue) + 1) /\ Len(queue) \in Nat
    BY <1>1, <1>2, LenProperties
  <2>2. i \in 1..Len(queue) \/ i = Len(queue) + 1
    BY <2>1
  <2> QED BY <2>2, AppendProperties, LenProperties
<1> QED BY <1>1, <1>2 DEF Alone

\* A written body leaves the others, none of which has its waiter.
LEMMA Tailed ==
  ASSUME queue \in Seq(Bodies), queue # <<>>, queue' = Tail(queue), Alone
  PROVE  /\ queue' \in Seq(Bodies) /\ Alone'
         /\ Head(queue) \in Bodies /\ 1 \in DOMAIN queue /\ Head(queue) = queue[1]
         /\ \A i \in DOMAIN queue' : \E j \in DOMAIN queue :
              queue'[i] = queue[j] /\ queue[j].who # Head(queue).who
<1>1. /\ queue' \in Seq(Bodies) /\ Len(queue') = Len(queue) - 1
      /\ \A i \in 1..Len(queue') : queue'[i] = queue[i + 1]
      /\ Head(queue) \in Bodies /\ Head(queue) = queue[1]
  BY HeadTailProperties
<1>2. Len(queue) \in Nat /\ Len(queue) > 0 /\ DOMAIN queue = 1..Len(queue)
  BY EmptySeq, LenProperties
<1>3. 1 \in DOMAIN queue
  BY <1>2
<1>4. ASSUME NEW i \in DOMAIN queue'
      PROVE  i + 1 \in DOMAIN queue /\ i + 1 # 1 /\ queue'[i] = queue[i + 1] /\ i \in Nat
  <2>1. i \in 1..(Len(queue) - 1)
    BY <1>1, <1>4, LenProperties
  <2>2. i + 1 \in 1..Len(queue) /\ i + 1 # 1 /\ i \in Nat
    BY <1>2, <2>1
  <2> QED BY <1>1, <1>2, <2>1, <2>2
<1>5. Alone'
  <2>1. ASSUME NEW i \in DOMAIN queue', NEW j \in DOMAIN queue',
               queue'[i].who = queue'[j].who
        PROVE  i = j
    <3>1. i + 1 = j + 1
      BY <1>4, <2>1 DEF Alone
    <3> QED BY <1>4, <3>1
  <2> QED BY <2>1 DEF Alone
<1>6. ASSUME NEW i \in DOMAIN queue'
      PROVE  \E j \in DOMAIN queue : queue'[i] = queue[j] /\ queue[j].who # Head(queue).who
  BY <1>1, <1>3, <1>4, <1>6 DEF Alone
<1> QED BY <1>1, <1>3, <1>5, <1>6

\* Every lane is there, whatever was killed, and none is running.
LEMMA StoppedLanes ==
  ASSUME lane \in [Lanes -> Lane], LanesOK
  PROVE  /\ Stopped(lane) \in [Lanes -> Lane]
         /\ \A l \in Lanes :
              /\ LaneOK(Stopped(lane)[l])
              /\ Stopped(lane)[l].st # "running"
              /\ lane[l].st # "running" => Stopped(lane)[l] = lane[l]
              /\ lane[l].st = "running" => Stopped(lane)[l].st = "killed"
              /\ Stopped(lane)[l].handoff = lane[l].handoff
              /\ Stopped(lane)[l].report = lane[l].report
<1> DEFINE K(l) == [lane[l] EXCEPT !.st = "killed"]
<1>1. ASSUME NEW l \in Lanes
      PROVE  /\ K(l) \in Lane /\ LaneOK(K(l)) /\ K(l).st = "killed"
             /\ K(l).handoff = lane[l].handoff /\ K(l).report = lane[l].report
  <2>1. lane[l] \in Lane /\ LaneOK(lane[l])
    BY DEF LanesOK
  <2>2. K(l) \in Lane /\ K(l).st = "killed"
    BY <2>1 DEF Lane
  <2>3. /\ K(l).handoff = lane[l].handoff /\ K(l).report = lane[l].report
        /\ K(l).procs = lane[l].procs /\ K(l).cut = lane[l].cut /\ K(l).pi = lane[l].pi
        /\ K(l).wrote = lane[l].wrote /\ K(l).turns = lane[l].turns
        /\ K(l).spoke = lane[l].spoke /\ K(l).fails = lane[l].fails /\ K(l).last = lane[l].last
    BY <2>1 DEF Lane
  <2> QED BY <2>1, <2>2, <2>3 DEF LaneOK, MayGoOn
<1>2. \A l \in Lanes : Stopped(lane)[l] = IF lane[l].st = "running" THEN K(l) ELSE lane[l]
  BY DEF Stopped
<1>3. Stopped(lane) = [l \in Lanes |-> IF lane[l].st = "running" THEN K(l) ELSE lane[l]]
  BY DEF Stopped
<1> HIDE DEF K
<1>4. Stopped(lane) \in [Lanes -> Lane]
  BY <1>1, <1>3
<1> QED BY <1>1, <1>2, <1>4 DEF LanesOK

-----------------------------------------------------------------------------
(* The invariant, step by step *)

\* The invariant as it is used: its parts, with the lanes' records.
LEMMA InvParts ==
  ASSUME Inv
  PROVE  /\ TypeOK /\ LanesOK /\ QueueInv /\ StageInv /\ Alone
         /\ queue \in Seq(Bodies) /\ lane \in [Lanes -> Lane]
         /\ \A l \in Lanes : lane[l] \in Lane /\ LaneOK(lane[l])
         /\ \A i \in DOMAIN queue : queue[i] \in Bodies
         /\ Reviewers \subseteq Lanes /\ Keys \subseteq Lanes
         /\ \A l \in Lanes : l \notin Keys => l \in Reviewers
<1>1. queue \in Seq(Bodies)
  BY DEF Inv, TypeOK, Bodies
<1>2. \A i \in DOMAIN queue : queue[i] \in Bodies
  BY <1>1, ElementOfSeq, LenProperties
<1> QED BY <1>1, <1>2 DEF Inv, TypeOK, LanesOK, QueueInv, Alone, Lanes

\* A step that changes one lane nobody waits for, and leaves it no report it was
\* asked for twice.
LEMMA OneLane ==
  ASSUME Inv, NEW l \in Lanes, NEW r \in Lane, LaneOK(r), lane' = [lane EXCEPT ![l] = r]
  PROVE  /\ lane' \in [Lanes -> Lane] /\ lane'[l] = r /\ LanesOK'
         /\ \A k \in Lanes : k # l => lane'[k] = lane[k]
         /\ \A k \in Lanes : ~(lane'[k].handoff /\ lane'[k].report)
<1>1. /\ lane' \in [Lanes -> Lane] /\ lane'[l] = r
      /\ \A k \in Lanes : k # l => lane'[k] = lane[k]
  BY InvParts
<1>2. \A k \in Lanes : LaneOK(lane'[k])
  BY <1>1, InvParts
<1> QED BY <1>1, <1>2 DEF LanesOK, LaneOK

LEMMA TickInv ==
  ASSUME Inv, Tick  PROVE Inv'
<1>1. now' \in 0..RunDeadline
  BY Numbers DEF Inv, TypeOK, Tick
<1> QED BY <1>1 DEF Inv, TypeOK, LanesOK, QueueInv, StageInv, ReviewersSettled, Tick, status,
           reviews, rulings

\* An event of a lane's process, a timer of a lane, the start of its report.
LEMMA LaneInv ==
  ASSUME Inv, NEW l \in Lanes, PiStep(l) \/ Timers(l) \/ ReportStarts(l)  PROVE Inv'
<1>1. Listening /\ Live(l)
  BY InvParts, LaneMoves
<1>2. PICK r \in Lane : LaneStep(l, r) /\ r.st \in {"running", "killed"} /\ LaneOK(r)
  BY InvParts, LaneMoves
<1>3. /\ lane' = [lane EXCEPT ![l] = r]
      /\ UNCHANGED <<now, main, phase, queue, disk, outcome, row, reports, todo, judge,
                     verdict, reasons, receipt, faults>>
  BY <1>2 DEF LaneStep, status, reviews, rulings
<1>4. /\ lane' \in [Lanes -> Lane] /\ lane'[l] = r /\ LanesOK'
      /\ \A k \in Lanes : k # l => lane'[k] = lane[k]
      /\ \A k \in Lanes : ~(lane'[k].handoff /\ lane'[k].report)
  BY <1>2, <1>3, OneLane
<1>5. \A i \in DOMAIN queue' : queue'[i].who # "main" => lane'[queue'[i].who].st = "saving"
  BY <1>1, <1>3, <1>4, InvParts DEF TypeOK, Live, Bodies
<1>6. TypeOK'
  BY <1>3, <1>4, <1>5, InvParts DEF TypeOK
<1>7. QueueInv'
  BY <1>3, InvParts DEF QueueInv
<1>8. StageInv'
  <2>1. \A k \in Keys : lane[k].st = "idle" => lane'[k].st = "idle"
    BY <1>1, <1>4, InvParts DEF Live
  <2>2. ReviewersSettled => ReviewersSettled'
    BY <1>1, <1>4, InvParts DEF Live, ReviewersSettled
  <2>3. main' # "opening" /\ main' # "ended"
    BY <1>1, <1>3 DEF Listening
  <2>4. todo \subseteq Keys
    BY InvParts DEF TypeOK
  <2> QED BY <1>3, <2>1, <2>2, <2>3, <2>4, InvParts DEF StageInv
<1> QED BY <1>4, <1>6, <1>7, <1>8 DEF Inv

\* The run's end, and a signal, leave every lane but the running ones.
LEMMA StopsInv ==
  ASSUME Inv, lane' = Stopped(lane)
  PROVE  /\ lane' \in [Lanes -> Lane] /\ LanesOK'
         /\ \A l \in Lanes : lane[l].st # "running" => lane'[l] = lane[l]
         /\ \A l \in Lanes : lane'[l].st # "running"
         /\ \A l \in Lanes : ~(lane'[l].handoff /\ lane'[l].report)
         /\ \A k \in Keys : lane[k].st = "idle" => lane'[k].st = "idle"
         /\ ReviewersSettled => ReviewersSettled'
BY InvParts, StoppedLanes DEF LanesOK, LaneOK, ReviewersSettled

\* What main's launch makes of the lanes.
LEMMA LaunchLanes ==
  ASSUME Inv, main = "opening", NEW F \in SUBSET Reviewers, Launch(F)
  PROVE  /\ lane' \in [Lanes -> Lane] /\ LanesOK'
         /\ \A k \in Keys : lane'[k] = Idle
         /\ \A r \in Reviewers : lane'[r].st \in {"running", "broken"}
         /\ \A l \in Lanes : ~(lane'[l].handoff /\ lane'[l].report)
<1>1. \A l \in Lanes : lane[l] = Idle
  BY InvParts DEF StageInv
<1> DEFINE b == [Idle EXCEPT !.st = "broken"]
           s == Spawned([Idle EXCEPT !.deadline = ReviewDeadline])
<1>2. b \in Lane /\ LaneOK(b) /\ b.st = "broken"
  <2>1. b \in Lane /\ b.st = "broken" /\ b.procs = 0 /\ b.turns = 0 /\ ~b.wrote /\ ~b.report
        /\ ~b.handoff /\ b.fails = 0 /\ b.pi = "ready"
    BY DEF Idle, Lane
  <2> HIDE DEF b
  <2> QED BY <2>1, Numbers DEF LaneOK, MayGoOn
<1>3. s \in Lane /\ LaneOK(s) /\ s.st = "running"
  BY Numbers, SpawnedLane
<1>4. lane' = [l \in Lanes |-> IF l \in Keys THEN Idle ELSE IF l \in F THEN b ELSE s]
  BY <1>1 DEF Launch
<1> HIDE DEF b, s
<1>5. \A l \in Lanes : lane'[l] = IF l \in Keys THEN Idle ELSE IF l \in F THEN b ELSE s
  BY <1>4
<1>6. \A l \in Lanes : lane'[l] \in Lane /\ LaneOK(lane'[l])
  BY <1>2, <1>3, <1>5, IdleLane
<1>7. \A r \in Reviewers : lane'[r].st \in {"running", "broken"}
  BY <1>2, <1>3, <1>5, InvParts, EngineAssumption
<1>8. lane' \in [Lanes -> Lane]
  BY <1>2, <1>3, <1>4, IdleLane
<1> QED BY <1>5, <1>6, <1>7, <1>8, InvParts DEF LanesOK, LaneOK

LEMMA StatusWrittenInv ==
  ASSUME Inv, StatusWritten  PROVE Inv'
<1> DEFINE b == Head(queue)
<1>1. /\ queue # <<>> /\ queue' = Tail(queue) /\ main \notin {"ended", "assigning"}
      /\ disk' = b.phase
      /\ UNCHANGED <<now, phase, outcome, row, reports, todo, judge, verdict, reasons,
                     receipt, faults>>
  BY DEF StatusWritten, reviews, rulings
<1>2. /\ queue' \in Seq(Bodies) /\ Alone' /\ b \in Bodies /\ 1 \in DOMAIN queue /\ b = queue[1]
      /\ \A i \in DOMAIN queue' : \E j \in DOMAIN queue :
           queue'[i] = queue[j] /\ queue[j].who # b.who
  BY <1>1, InvParts, Tailed
<1> HIDE DEF b
<1>3. \A i \in DOMAIN queue : queue[i].who # "main" => lane[queue[i].who].st = "saving"
  BY InvParts DEF TypeOK
<1>4. todo \subseteq Keys /\ disk' \in {"reviewing", "verifying", "done", "failed"}
  BY <1>1, <1>2, InvParts DEF TypeOK, Bodies
<1>5. ASSUME lane' \in [Lanes -> Lane], LanesOK', StageInv',
             \A l \in Lanes : ~(lane'[l].handoff /\ lane'[l].report),
             \A i \in DOMAIN queue' : queue'[i].who # "main" => lane'[queue'[i].who].st = "saving",
             \A i \in DOMAIN queue' : queue'[i].who = "main" =>
               main' \in {"opening", "collapsing", "closing", "failing"},
             \A i \in DOMAIN queue' : queue'[i].phase = "done" => main' \in {"closing", "ended"},
             main' \in {"opening", "reviewing", "collapsing", "assigning", "verifying",
                        "closing", "failing", "ended"}
      PROVE  Inv'
  <2>1. TypeOK'
    BY <1>1, <1>2, <1>4, <1>5, InvParts DEF TypeOK, Bodies
  <2>2. QueueInv'
    BY <1>2, <1>5 DEF QueueInv, Alone
  <2> QED BY <1>5, <2>1, <2>2 DEF Inv
<1>6. CASE b.who # "main"
  <2>1. b.who \in Lanes /\ lane[b.who].st = "saving"
    BY <1>2, <1>3, <1>6 DEF Bodies
  <2> DEFINE r == [lane[b.who] EXCEPT !.st = "settled"]
  <2>2. lane' = [lane EXCEPT ![b.who] = r] /\ main' = main
    BY <1>6, <2>1 DEF StatusWritten, b
  <2>3. r \in Lane /\ r.st = "settled" /\ LaneOK(r)
    <3>1. lane[b.who] \in Lane /\ LaneOK(lane[b.who])
      BY <2>1, InvParts
    <3>2. r \in Lane /\ r.st = "settled"
      BY <3>1 DEF Lane
    <3>3. /\ r.handoff = lane[b.who].handoff /\ r.report = lane[b.who].report
          /\ r.procs = lane[b.who].procs /\ r.cut = lane[b.who].cut
          /\ r.pi = lane[b.who].pi /\ r.wrote = lane[b.who].wrote
          /\ r.turns = lane[b.who].turns /\ r.fails = lane[b.who].fails
          /\ r.last = lane[b.who].last /\ r.spoke = lane[b.who].spoke
      BY <3>1 DEF Lane
    <3> QED BY <3>1, <3>2, <3>3 DEF LaneOK, MayGoOn
  <2> HIDE DEF r
  <2>4. /\ lane' \in [Lanes -> Lane] /\ lane'[b.who] = r /\ LanesOK'
        /\ \A k \in Lanes : k # b.who => lane'[k] = lane[k]
        /\ \A k \in Lanes : ~(lane'[k].handoff /\ lane'[k].report)
    BY <2>1, <2>2, <2>3, OneLane
  <2>5. \A i \in DOMAIN queue' : queue'[i].who # "main" => lane'[queue'[i].who].st = "saving"
    BY <1>2, <1>3, <2>4, InvParts DEF Bodies
  <2>6. /\ \A i \in DOMAIN queue' : queue'[i].who = "main" =>
             main' \in {"opening", "collapsing", "closing", "failing"}
        /\ \A i \in DOMAIN queue' : queue'[i].phase = "done" => main' \in {"closing", "ended"}
    BY <1>2, <2>2, InvParts DEF QueueInv
  <2>7. StageInv'
    <3>1. main # "opening"
      BY <2>1, InvParts, IdleLane DEF StageInv
    <3>2. \A k \in Keys : lane[k].st = "idle" => lane'[k].st = "idle"
      BY <2>1, <2>4, InvParts
    <3>3. ReviewersSettled => ReviewersSettled'
      BY <2>3, <2>4, InvParts DEF ReviewersSettled
    <3> QED BY <1>1, <1>4, <2>2, <3>1, <3>2, <3>3, InvParts DEF StageInv
  <2> QED BY <1>5, <2>2, <2>4, <2>5, <2>6, <2>7, InvParts DEF TypeOK
<1>7. CASE b.who = "main"
  <2>1. main \in {"opening", "collapsing", "closing", "failing"}
    BY <1>2, <1>7, InvParts DEF QueueInv
  <2>2. \A i \in DOMAIN queue' : queue'[i].who # "main"
    BY <1>2, <1>7
  <2>3. CASE main = "opening"
    <3>1. main' = "reviewing" /\ Launch({})
      BY <1>7, <2>3 DEF StatusWritten, b
    <3>2. \A i \in DOMAIN queue : queue[i].who = "main"
      BY <1>3, <2>3, InvParts, IdleLane DEF StageInv, Bodies
    <3>3. \A i \in DOMAIN queue' : FALSE
      BY <1>2, <1>7, <3>2
    <3>4. /\ lane' \in [Lanes -> Lane] /\ LanesOK' /\ \A k \in Keys : lane'[k] = Idle
          /\ \A l \in Lanes : ~(lane'[l].handoff /\ lane'[l].report)
      BY <2>3, <3>1, LaunchLanes
    <3>5. StageInv'
      BY <1>1, <1>4, <2>3, <3>1, <3>4, IdleLane, InvParts DEF StageInv
    <3> QED BY <1>5, <3>1, <3>3, <3>4, <3>5
  <2>4. CASE main = "collapsing"
    <3>1. main' = "assigning" /\ lane' = lane
      BY <1>7, <2>4 DEF StatusWritten, b
    <3>2. StageInv'
      BY <1>1, <2>4, <3>1, InvParts DEF StageInv, ReviewersSettled
    <3>3. \A l \in Lanes : ~(lane'[l].handoff /\ lane'[l].report)
      BY <3>1, InvParts DEF LaneOK
    <3>4. \A i \in DOMAIN queue' : queue'[i].phase # "done"
      BY <1>2, <2>4, InvParts DEF QueueInv
    <3>5. \A i \in DOMAIN queue' : queue'[i].who # "main" => lane'[queue'[i].who].st = "saving"
      BY <1>2, <1>3, <3>1
    <3>6. LanesOK' /\ lane' \in [Lanes -> Lane]
      BY <3>1, InvParts DEF LanesOK
    <3> QED BY <1>5, <2>2, <3>1, <3>2, <3>3, <3>4, <3>5, <3>6
  <2>5. CASE main \in {"closing", "failing"}
    <3>1. main' = "ended" /\ lane' = Stopped(lane)
      BY <1>7, <2>5 DEF StatusWritten, b, Ends
    <3>2. /\ lane' \in [Lanes -> Lane] /\ LanesOK'
          /\ \A l \in Lanes : lane[l].st # "running" => lane'[l] = lane[l]
          /\ \A l \in Lanes : lane'[l].st # "running"
          /\ \A l \in Lanes : ~(lane'[l].handoff /\ lane'[l].report)
          /\ \A k \in Keys : lane[k].st = "idle" => lane'[k].st = "idle"
      BY <3>1, StopsInv
    <3>3. StageInv'
      BY <1>1, <1>4, <3>1, <3>2, InvParts DEF StageInv
    <3>4. \A i \in DOMAIN queue' : queue'[i].who # "main" => lane'[queue'[i].who].st = "saving"
      BY <1>2, <1>3, <3>2, InvParts DEF Bodies
    <3> QED BY <1>5, <2>2, <3>1, <3>2, <3>3, <3>4
  <2> QED BY <2>1, <2>3, <2>4, <2>5
<1> QED BY <1>6, <1>7

LEMMA EmptyQueue == <<>> \in Seq(Bodies) /\ DOMAIN <<>> = {}
BY EmptySeq, LenProperties

LEMMA OneBody ==
  ASSUME NEW b \in Bodies
  PROVE  <<b>> \in Seq(Bodies) /\ \A i \in DOMAIN <<b>> : i = 1 /\ <<b>>[i] = b
OBVIOUS

LEMMA Faulted ==
  ASSUME TypeOK, Fault  PROVE faults' \in 0..MaxFaults
BY Numbers DEF TypeOK, Fault

LEMMA StatusFailsInv ==
  ASSUME Inv, StatusFails  PROVE Inv'
<1>1. /\ queue' = <<>> /\ main' = "ended" /\ lane' = Stopped(lane) /\ phase' \in {phase, "failed"}
      /\ UNCHANGED <<now, disk, outcome, row, reports, todo, judge, verdict, reasons, receipt>>
  BY DEF StatusFails, Ends, reviews, rulings
<1>2. /\ lane' \in [Lanes -> Lane] /\ LanesOK'
      /\ \A l \in Lanes : lane'[l].st # "running"
      /\ \A l \in Lanes : ~(lane'[l].handoff /\ lane'[l].report)
      /\ \A k \in Keys : lane[k].st = "idle" => lane'[k].st = "idle"
  BY <1>1, StopsInv
<1>3. queue' \in Seq(Bodies) /\ DOMAIN queue' = {}
  BY <1>1, EmptyQueue
<1>4. faults' \in 0..MaxFaults
  BY InvParts, Faulted DEF StatusFails
<1>5. TypeOK'
  BY <1>1, <1>2, <1>3, <1>4, InvParts DEF TypeOK, Bodies
<1>6. QueueInv' /\ StageInv'
  BY <1>1, <1>2, <1>3, InvParts DEF QueueInv, StageInv, TypeOK
<1> QED BY <1>2, <1>5, <1>6 DEF Inv

LEMMA PackFailsInv ==
  ASSUME Inv, PackFails  PROVE Inv'
<1> DEFINE b == [who |-> "main", phase |-> "failed"]
<1>1. /\ main = "opening" /\ disk' = "reviewing" /\ phase' = "failed" /\ main' = "failing"
      /\ queue' = <<b>>
      /\ UNCHANGED <<now, outcome, row, reports, todo, judge, verdict, reasons, receipt>>
  BY DEF PackFails, Body, reviews, rulings
<1>2. PICK r \in Reviewers : Launch({r})
  BY DEF PackFails
<1>3. /\ lane' \in [Lanes -> Lane] /\ LanesOK' /\ \A k \in Keys : lane'[k] = Idle
      /\ \A l \in Lanes : ~(lane'[l].handoff /\ lane'[l].report)
  BY <1>1, <1>2, LaunchLanes
<1>4. b \in Bodies /\ b.who = "main" /\ b.phase = "failed"
  BY DEF Bodies
<1> HIDE DEF b
<1>5. queue' \in Seq(Bodies) /\ \A i \in DOMAIN queue' : i = 1 /\ queue'[i] = b
  BY <1>1, <1>4, OneBody
<1>6. faults' \in 0..MaxFaults
  BY InvParts, Faulted DEF PackFails
<1>7. TypeOK'
  BY <1>1, <1>3, <1>4, <1>5, <1>6, InvParts DEF TypeOK, Bodies
<1>8. QueueInv'
  BY <1>1, <1>4, <1>5 DEF QueueInv
<1>9. StageInv'
  BY <1>1, <1>3, IdleLane, InvParts DEF StageInv, TypeOK
<1> QED BY <1>3, <1>7, <1>8, <1>9 DEF Inv

LEMMA SignalInv ==
  ASSUME Inv, Signal  PROVE Inv'
<1>1. /\ main \notin {"opening", "ended"} /\ lane' = Stopped(lane)
      /\ UNCHANGED <<now, main, phase, queue, disk, outcome, row, reports, todo, judge,
                     verdict, reasons, receipt>>
  BY DEF Signal, Listening, status, reviews, rulings
<1>2. /\ lane' \in [Lanes -> Lane] /\ LanesOK'
      /\ \A l \in Lanes : lane[l].st # "running" => lane'[l] = lane[l]
      /\ \A l \in Lanes : ~(lane'[l].handoff /\ lane'[l].report)
      /\ \A k \in Keys : lane[k].st = "idle" => lane'[k].st = "idle"
      /\ ReviewersSettled => ReviewersSettled'
  BY <1>1, StopsInv
<1>3. faults' \in 0..MaxFaults
  BY InvParts, Faulted DEF Signal
<1>4. \A i \in DOMAIN queue' : queue'[i].who # "main" => lane'[queue'[i].who].st = "saving"
  BY <1>1, <1>2, InvParts DEF TypeOK, Bodies
<1>5. TypeOK'
  BY <1>1, <1>2, <1>3, <1>4, InvParts DEF TypeOK
<1>6. QueueInv'
  BY <1>1, InvParts DEF QueueInv
<1>7. StageInv'
  BY <1>1, <1>2, InvParts DEF StageInv, TypeOK
<1> QED BY <1>2, <1>5, <1>6, <1>7 DEF Inv

\* A lane's process has closed and its status is queued: the lane saves it.
LEMMA SavedInv ==
  ASSUME Inv, NEW l \in Lanes, Listening, Live(l), lane' = [lane EXCEPT ![l] = Over("saving")],
         phase' = phase, main' = main, queue' = Append(queue, Body(l)), todo' = todo
  PROVE  /\ lane' \in [Lanes -> Lane] /\ LanesOK' /\ QueueInv' /\ StageInv'
         /\ queue' \in Seq(Bodies)
         /\ \A i \in DOMAIN queue' : queue'[i].who # "main" => lane'[queue'[i].who].st = "saving"
         /\ \A k \in Lanes : ~(lane'[k].handoff /\ lane'[k].report)
<1> DEFINE b == [who |-> l, phase |-> phase]
<1>1. b \in Bodies /\ b.who = l /\ b.phase = phase /\ queue' = Append(queue, b)
  BY InvParts DEF Bodies, Body, TypeOK
<1> HIDE DEF b
<1>2. \A i \in DOMAIN queue : queue[i].who # "main" => lane[queue[i].who].st = "saving"
  BY InvParts DEF TypeOK
<1>3. \A i \in DOMAIN queue : queue[i].who # l
  BY <1>2, Numbers, InvParts DEF Live
<1>4. /\ queue' \in Seq(Bodies) /\ Alone'
      /\ \A i \in DOMAIN queue' : \/ i \in DOMAIN queue /\ queue'[i] = queue[i]
                                  \/ i = Len(queue) + 1 /\ queue'[i] = b
  BY <1>1, <1>3, InvParts, Appended
<1> DEFINE r == Over("saving")
<1>5. r \in Lane /\ LaneOK(r) /\ r.st = "saving" /\ lane' = [lane EXCEPT ![l] = r]
  BY OverLane
<1> HIDE DEF r
<1>6. /\ lane' \in [Lanes -> Lane] /\ lane'[l] = r /\ LanesOK'
      /\ \A k \in Lanes : k # l => lane'[k] = lane[k]
      /\ \A k \in Lanes : ~(lane'[k].handoff /\ lane'[k].report)
  BY <1>5, OneLane
<1>7. \A i \in DOMAIN queue' : queue'[i].who # "main" => lane'[queue'[i].who].st = "saving"
  BY <1>1, <1>2, <1>3, <1>4, <1>5, <1>6, InvParts DEF Bodies
<1>8. main \notin {"opening", "ended"} /\ todo \subseteq Keys
  BY InvParts DEF Listening, TypeOK
<1>9. QueueInv'
  BY <1>1, <1>4, <1>8, Numbers, InvParts DEF QueueInv, StageInv, Alone
<1>10. StageInv'
  BY <1>5, <1>6, <1>8, InvParts DEF StageInv, ReviewersSettled, Live
<1> QED BY <1>4, <1>6, <1>7, <1>9, <1>10

LEMMA Statuses ==
  ASSUME NEW r, NEW code  PROVE LaneStatus(r, code) \in {"completed", "failed", "cut"}
BY DEF LaneStatus

LEMMA ReviewerClosesInv ==
  ASSUME Inv, NEW r \in Reviewers, NEW code \in {0, 1}, NEW text \in Texts,
         NEW found \in SUBSET Keys, ReviewerCloses(r, code, text, found)
  PROVE  Inv'
<1> DEFINE s == LaneStatus(lane[r], code)
<1>1. /\ Listening /\ Live(r) /\ lane' = [lane EXCEPT ![r] = Over("saving")]
      /\ queue' = Append(queue, Body(r))
      /\ outcome' = [outcome EXCEPT ![r] = s]
      /\ row' = [row EXCEPT ![r] = RowStatus(s, text)]
      /\ reports' = [reports EXCEPT ![r] = Reported(s, text, found)]
      /\ UNCHANGED <<now, main, phase, disk, todo, judge, verdict, reasons, receipt, faults>>
  BY DEF ReviewerCloses, rulings
<1>2. /\ lane' \in [Lanes -> Lane] /\ LanesOK' /\ QueueInv' /\ StageInv'
      /\ queue' \in Seq(Bodies)
      /\ \A i \in DOMAIN queue' : queue'[i].who # "main" => lane'[queue'[i].who].st = "saving"
      /\ \A k \in Lanes : ~(lane'[k].handoff /\ lane'[k].report)
  BY <1>1, InvParts, SavedInv
<1>3. /\ s \in {"completed", "failed", "cut"}
      /\ RowStatus(s, text) \in {"completed", "blocked", "malformed", "cancelled", "failed"}
      /\ Reported(s, text, found) \in SUBSET Keys
  BY Statuses DEF RowStatus, Reported, Parsed
<1> HIDE DEF s
<1>4. /\ outcome' \in [Reviewers -> {"none", "completed", "failed", "cut"}]
      /\ row' \in [Reviewers -> {"none", "completed", "blocked", "malformed", "cancelled", "failed"}]
      /\ reports' \in [Reviewers -> SUBSET Keys]
  BY <1>1, <1>3, InvParts DEF TypeOK
<1>5. TypeOK'
  BY <1>1, <1>2, <1>4, InvParts DEF TypeOK, Bodies
<1> QED BY <1>2, <1>5 DEF Inv

\* The run queues a body of its own, which nobody else of the run awaits.
LEMMA MainAwaits ==
  ASSUME Inv, queue' = Append(queue, Body("main")), lane' = lane,
         main \notin {"opening", "collapsing", "closing", "failing"},
         main' \in {"collapsing", "closing", "failing"},
         phase' \in {"reviewing", "verifying", "done", "failed"},
         phase' = "done" => main' = "closing",
         \A i \in DOMAIN queue : queue[i].phase # "done"
  PROVE  /\ lane' \in [Lanes -> Lane] /\ LanesOK' /\ QueueInv' /\ queue' \in Seq(Bodies)
         /\ \A i \in DOMAIN queue' : queue'[i].who # "main" => lane'[queue'[i].who].st = "saving"
         /\ \A k \in Lanes : ~(lane'[k].handoff /\ lane'[k].report)
<1> DEFINE b == [who |-> "main", phase |-> phase']
<1>1. b \in Bodies /\ b.who = "main" /\ b.phase = phase' /\ queue' = Append(queue, b)
  BY DEF Bodies, Body
<1> HIDE DEF b
<1>2. \A i \in DOMAIN queue : queue[i].who # "main"
  BY InvParts DEF QueueInv
<1>3. /\ queue' \in Seq(Bodies) /\ Alone'
      /\ \A i \in DOMAIN queue' : \/ i \in DOMAIN queue /\ queue'[i] = queue[i]
                                  \/ i = Len(queue) + 1 /\ queue'[i] = b
  BY <1>1, <1>2, InvParts, Appended
<1>4. \A i \in DOMAIN queue' : queue'[i].who # "main" => lane'[queue'[i].who].st = "saving"
  BY <1>1, <1>3, InvParts DEF TypeOK
<1>5. QueueInv'
  BY <1>1, <1>2, <1>3 DEF QueueInv, Alone
<1> QED BY <1>3, <1>4, <1>5, InvParts DEF LanesOK, LaneOK

LEMMA CandidatesAreKeys ==
  ASSUME TypeOK  PROVE Candidates \subseteq Keys
BY DEF TypeOK, Candidates

LEMMA CollapseInv ==
  ASSUME Inv, Collapse  PROVE Inv'
<1>1. /\ main = "reviewing" /\ ReviewersSettled /\ main' = "collapsing" /\ phase' = "verifying"
      /\ todo' = Candidates /\ queue' = Append(queue, Body("main"))
      /\ UNCHANGED <<now, disk, lane, outcome, row, reports, judge, verdict, reasons, receipt,
                     faults>>
  BY DEF Collapse, ReviewersSettled, reviews
<1>2. /\ lane' \in [Lanes -> Lane] /\ LanesOK' /\ QueueInv' /\ queue' \in Seq(Bodies)
      /\ \A i \in DOMAIN queue' : queue'[i].who # "main" => lane'[queue'[i].who].st = "saving"
      /\ \A k \in Lanes : ~(lane'[k].handoff /\ lane'[k].report)
  BY <1>1, MainAwaits, InvParts DEF QueueInv
<1>3. todo' \subseteq Keys
  BY <1>1, CandidatesAreKeys, InvParts
<1>4. TypeOK'
  BY <1>1, <1>2, <1>3, InvParts DEF TypeOK, Bodies
<1>5. StageInv'
  BY <1>1, <1>3, InvParts DEF StageInv, ReviewersSettled
<1> QED BY <1>2, <1>4, <1>5 DEF Inv

\* A family that is chosen is one of the verifiers', and may rule.
LEMMA ChosenFamily ==
  ASSUME NEW k, NEW f \in Chosen(k)
  PROVE  f \in Eligible(k) /\ f \in Families
BY DEF Chosen, FirstOf, Open, Eligible, Families

\* While it assigns, a candidate's lane starts or breaks; nothing else moves.
LEMMA AssigningInv ==
  ASSUME Inv, main = "assigning", main' = main, phase' = phase, queue' = queue,
         NEW k \in todo, todo' = todo \ {k}, NEW r \in Lane, LaneOK(r),
         lane' = [lane EXCEPT ![k] = r]
  PROVE  /\ lane' \in [Lanes -> Lane] /\ LanesOK' /\ QueueInv' /\ StageInv'
         /\ \A i \in DOMAIN queue' : queue'[i].who # "main" => lane'[queue'[i].who].st = "saving"
         /\ \A l \in Lanes : ~(lane'[l].handoff /\ lane'[l].report)
<1>1. k \in Keys /\ k \in Lanes /\ lane[k].st = "idle" /\ k \notin Reviewers /\ todo \subseteq Keys
  BY InvParts, EngineAssumption DEF StageInv, TypeOK
<1>2. /\ lane' \in [Lanes -> Lane] /\ lane'[k] = r /\ LanesOK'
      /\ \A l \in Lanes : l # k => lane'[l] = lane[l]
      /\ \A l \in Lanes : ~(lane'[l].handoff /\ lane'[l].report)
  BY <1>1, OneLane
<1>3. \A i \in DOMAIN queue' : queue'[i].who # "main" => lane'[queue'[i].who].st = "saving"
  BY <1>1, <1>2, InvParts DEF TypeOK, Bodies
<1>4. QueueInv'
  BY InvParts DEF QueueInv
<1>5. StageInv'
  BY <1>1, <1>2, InvParts DEF StageInv, ReviewersSettled
<1> QED BY <1>2, <1>3, <1>4, <1>5

LEMMA AssignInv ==
  ASSUME Inv, NEW k \in Keys, Assign(k)  PROVE Inv'
<1>1. /\ main = "assigning" /\ k \in todo /\ todo' = todo \ {k}
      /\ UNCHANGED <<now, main, phase, queue, disk, outcome, row, reports, verdict, receipt,
                     faults>>
  BY DEF Assign, status, reviews
<1> DEFINE Moved == /\ lane' \in [Lanes -> Lane] /\ LanesOK' /\ QueueInv' /\ StageInv'
                    /\ \A i \in DOMAIN queue' :
                         queue'[i].who # "main" => lane'[queue'[i].who].st = "saving"
                    /\ \A l \in Lanes : ~(lane'[l].handoff /\ lane'[l].report)
<1>2. judge' \in [Keys -> Families \union {"none"}] /\ reasons' \subseteq Keys
  BY ChosenFamily, InvParts DEF Assign, TypeOK
<1>3. Moved
  <2>1. CASE lane' = lane
    <3>1. lane' = [lane EXCEPT ![k] = lane[k]] /\ lane[k] \in Lane /\ LaneOK(lane[k])
      BY <2>1, InvParts
    <3> QED BY <1>1, <3>1, AssigningInv
  <2>2. CASE lane' # lane
    <3> DEFINE d == Sooner(now + VerifyWindow, RunDeadline)
               r == Spawned([Idle EXCEPT !.deadline = d])
    <3>1. lane' = [lane EXCEPT ![k] = r]
      BY <2>2 DEF Assign
    <3>2. d \in Nat
      BY InvParts, Numbers DEF Sooner, TypeOK
    <3>3. r \in Lane /\ LaneOK(r)
      BY <3>2, SpawnedLane
    <3> HIDE DEF r
    <3> QED BY <1>1, <3>1, <3>3, AssigningInv
  <2> QED BY <2>1, <2>2
<1>4. TypeOK'
  BY <1>1, <1>2, <1>3, InvParts DEF TypeOK
<1> QED BY <1>3, <1>4 DEF Inv

LEMMA BriefFailsInv ==
  ASSUME Inv, NEW k \in Keys, BriefFails(k)  PROVE Inv'
<1> DEFINE r == [lane[k] EXCEPT !.st = "broken"]
<1>1. /\ main = "assigning" /\ k \in todo /\ todo' = todo \ {k} /\ lane' = [lane EXCEPT ![k] = r]
      /\ UNCHANGED <<now, main, phase, queue, disk, outcome, row, reports, verdict, reasons,
                     receipt>>
  BY DEF BriefFails, status, reviews
<1>2. judge' \in [Keys -> Families \union {"none"}]
  BY ChosenFamily, InvParts DEF BriefFails, TypeOK
<1>3. r \in Lane /\ LaneOK(r)
  <2>1. lane[k] \in Lane /\ LaneOK(lane[k])
    BY InvParts
  <2>2. /\ r \in Lane /\ r.handoff = lane[k].handoff /\ r.report = lane[k].report
        /\ r.procs = lane[k].procs /\ r.cut = lane[k].cut /\ r.pi = lane[k].pi
        /\ r.wrote = lane[k].wrote /\ r.turns = lane[k].turns /\ r.fails = lane[k].fails
        /\ r.last = lane[k].last /\ r.spoke = lane[k].spoke
    BY <2>1 DEF Lane
  <2> HIDE DEF r
  <2> QED BY <2>1, <2>2 DEF LaneOK, MayGoOn
<1> HIDE DEF r
<1>4. /\ lane' \in [Lanes -> Lane] /\ LanesOK' /\ QueueInv' /\ StageInv'
      /\ \A i \in DOMAIN queue' : queue'[i].who # "main" => lane'[queue'[i].who].st = "saving"
      /\ \A l \in Lanes : ~(lane'[l].handoff /\ lane'[l].report)
  BY <1>1, <1>3, AssigningInv
<1>5. faults' \in 0..MaxFaults
  BY InvParts, Faulted DEF BriefFails
<1>6. TypeOK'
  BY <1>1, <1>2, <1>4, <1>5, InvParts DEF TypeOK
<1> QED BY <1>4, <1>6 DEF Inv

\* The run has failed, and goes through its catch clause.
LEMMA CaughtInv ==
  ASSUME Inv, main \in {"assigning", "verifying"}, Catch,
         faults' \in 0..MaxFaults,
         UNCHANGED <<now, lane, reviews, rulings, receipt>>
  PROVE  Inv'
<1>1. /\ main' = "failing" /\ phase' = "failed" /\ queue' = Append(queue, Body("main"))
      /\ UNCHANGED <<now, disk, lane, outcome, row, reports, todo, judge, verdict, reasons,
                     receipt>>
  BY DEF Catch, reviews, rulings
<1>2. /\ lane' \in [Lanes -> Lane] /\ LanesOK' /\ QueueInv' /\ queue' \in Seq(Bodies)
      /\ \A i \in DOMAIN queue' : queue'[i].who # "main" => lane'[queue'[i].who].st = "saving"
      /\ \A k \in Lanes : ~(lane'[k].handoff /\ lane'[k].report)
  BY <1>1, MainAwaits, InvParts DEF QueueInv
<1>3. TypeOK'
  BY <1>1, <1>2, InvParts DEF TypeOK, Bodies
<1>4. StageInv'
  BY <1>1, InvParts DEF StageInv
<1> QED BY <1>2, <1>3, <1>4 DEF Inv

LEMMA AssignedInv ==
  ASSUME Inv, Assigned  PROVE Inv'
<1>1. /\ main = "assigning" /\ todo = {}
      /\ UNCHANGED <<now, lane, outcome, row, reports, todo, judge, verdict, reasons, receipt,
                     faults>>
  BY DEF Assigned, reviews, rulings
<1>2. CASE Catch
  BY <1>1, <1>2, CaughtInv, InvParts DEF TypeOK, reviews, rulings
<1>3. CASE main' = "verifying" /\ UNCHANGED status
  <2>1. UNCHANGED <<phase, queue, disk>>
    BY <1>3 DEF status
  <2>2. TypeOK'
    BY <1>1, <1>3, <2>1, InvParts DEF TypeOK
  <2>3. QueueInv' /\ LanesOK'
    BY <1>1, <1>3, <2>1, InvParts DEF QueueInv, LanesOK
  <2>4. StageInv'
    BY <1>1, <1>3, <2>1, InvParts DEF StageInv, ReviewersSettled
  <2> QED BY <2>2, <2>3, <2>4 DEF Inv
<1> QED BY <1>2, <1>3 DEF Assigned

LEMMA VerifierClosesInv ==
  ASSUME Inv, NEW k \in Keys, NEW code \in {0, 1}, NEW text \in {"malformed", "complete"},
         VerifierCloses(k, code, text)
  PROVE  Inv'
<1>1. /\ Listening /\ Live(k)
      /\ UNCHANGED <<now, main, phase, disk, outcome, row, reports, todo, judge, receipt,
                     faults>>
      /\ \/ /\ verdict' = [verdict EXCEPT ![k] = "ruled"]
            /\ lane' = [lane EXCEPT ![k] = Over("saving")] /\ queue' = Append(queue, Body(k))
         \/ /\ lane' = [lane EXCEPT ![k] = Over("settled")] /\ UNCHANGED <<verdict, queue>>
      /\ reasons' \in {reasons, reasons \union {k}}
  BY DEF VerifierCloses, Explained, reviews
<1>2. verdict' \in [Keys -> {"none", "ruled"}] /\ reasons' \subseteq Keys
  BY <1>1, InvParts DEF TypeOK
<1>3. /\ lane' \in [Lanes -> Lane] /\ LanesOK' /\ QueueInv' /\ StageInv'
      /\ queue' \in Seq(Bodies)
      /\ \A i \in DOMAIN queue' : queue'[i].who # "main" => lane'[queue'[i].who].st = "saving"
      /\ \A l \in Lanes : ~(lane'[l].handoff /\ lane'[l].report)
  <2>1. CASE lane' = [lane EXCEPT ![k] = Over("saving")] /\ queue' = Append(queue, Body(k))
    BY <1>1, <2>1, InvParts, SavedInv
  <2>2. CASE lane' = [lane EXCEPT ![k] = Over("settled")] /\ UNCHANGED queue
    <3> DEFINE r == Over("settled")
    <3>1. r \in Lane /\ LaneOK(r) /\ lane' = [lane EXCEPT ![k] = r]
      BY <2>2, OverLane
    <3> HIDE DEF r
    <3>2. /\ lane' \in [Lanes -> Lane] /\ lane'[k] = r /\ LanesOK'
          /\ \A l \in Lanes : l # k => lane'[l] = lane[l]
          /\ \A l \in Lanes : ~(lane'[l].handoff /\ lane'[l].report)
      BY <3>1, InvParts, OneLane
    <3>3. \A i \in DOMAIN queue' :
            queue'[i].who # "main" => lane'[queue'[i].who].st = "saving"
      BY <1>1, <2>2, <3>2, InvParts DEF TypeOK, Bodies, Live
    <3>4. main \notin {"opening", "ended"} /\ todo \subseteq Keys /\ k \notin Reviewers
      BY <1>1, InvParts, EngineAssumption DEF Listening, TypeOK
    <3>5. QueueInv' /\ queue' \in Seq(Bodies)
      BY <1>1, <2>2, InvParts DEF QueueInv
    <3>6. StageInv'
      BY <1>1, <3>2, <3>4, InvParts DEF StageInv, ReviewersSettled, Live
    <3> QED BY <3>2, <3>3, <3>5, <3>6
  <2> QED BY <1>1, <2>1, <2>2
<1>4. TypeOK'
  BY <1>1, <1>2, <1>3, InvParts DEF TypeOK, Bodies
<1> QED BY <1>3, <1>4 DEF Inv

LEMMA AdjudicateInv ==
  ASSUME Inv, Adjudicate  PROVE Inv'
<1>1. /\ main = "verifying" /\ main' = "closing" /\ phase' = "done"
      /\ queue' = Append(queue, Body("main"))
      /\ receipt' = [status |-> IF Complete THEN "completed" ELSE "partial",
                     candidates |-> Candidates, unverified |-> Unverified,
                     reasons |-> reasons]
      /\ UNCHANGED <<now, disk, lane, outcome, row, reports, todo, judge, verdict, reasons,
                     faults>>
  BY DEF Adjudicate, reviews, rulings
<1>2. /\ lane' \in [Lanes -> Lane] /\ LanesOK' /\ QueueInv' /\ queue' \in Seq(Bodies)
      /\ \A i \in DOMAIN queue' : queue'[i].who # "main" => lane'[queue'[i].who].st = "saving"
      /\ \A k \in Lanes : ~(lane'[k].handoff /\ lane'[k].report)
  BY <1>1, MainAwaits, InvParts DEF QueueInv
<1>3. receipt' \in [status : {"none", "completed", "partial"}, candidates : SUBSET Keys,
                    unverified : SUBSET Keys, reasons : SUBSET Keys]
  <2>1. Candidates \in SUBSET Keys /\ reasons \in SUBSET Keys
    BY InvParts, CandidatesAreKeys DEF TypeOK
  <2>2. Unverified \in SUBSET Keys
    BY <2>1 DEF Unverified
  <2> QED BY <1>1, <2>1, <2>2
<1>4. TypeOK'
  BY <1>1, <1>2, <1>3, InvParts DEF TypeOK, Bodies
<1>5. StageInv'
  BY <1>1, InvParts DEF StageInv, ReviewersSettled
<1> QED BY <1>2, <1>4, <1>5 DEF Inv

LEMMA ReceiptFailsInv ==
  ASSUME Inv, ReceiptFails  PROVE Inv'
<1>1. faults' \in 0..MaxFaults
  BY InvParts, Faulted DEF ReceiptFails
<1> QED BY <1>1, CaughtInv DEF ReceiptFails

LEMMA InvInit == Init => Inv
<1> SUFFICES ASSUME Init PROVE Inv
  OBVIOUS
<1> DEFINE b == [who |-> "main", phase |-> "reviewing"]
<1>1. /\ now = 0 /\ main = "opening" /\ phase = "reviewing" /\ disk = "none" /\ queue = <<b>>
      /\ lane = [l \in Lanes |-> Idle] /\ todo = {} /\ reasons = {} /\ faults = 0
      /\ outcome = [r \in Reviewers |-> "none"] /\ row = [r \in Reviewers |-> "none"]
      /\ reports = [r \in Reviewers |-> {}] /\ judge = [k \in Keys |-> "none"]
      /\ verdict = [k \in Keys |-> "none"] /\ receipt = NoReceipt
  BY DEF Init
<1>2. b \in Bodies /\ b.who = "main" /\ b.phase = "reviewing"
  BY DEF Bodies
<1> HIDE DEF b
<1>3. queue \in Seq(Bodies) /\ \A i \in DOMAIN queue : i = 1 /\ queue[i] = b
  BY <1>1, <1>2, OneBody
<1>4. lane \in [Lanes -> Lane] /\ \A l \in Lanes : lane[l] = Idle
  BY <1>1, IdleLane
<1>5. LanesOK /\ \A l \in Lanes : ~(lane[l].handoff /\ lane[l].report)
  BY <1>4, IdleLane DEF LanesOK, LaneOK
<1>6. receipt \in [status : {"none", "completed", "partial"}, candidates : SUBSET Keys,
                   unverified : SUBSET Keys, reasons : SUBSET Keys]
  BY <1>1 DEF NoReceipt
<1>7. now \in 0..RunDeadline /\ faults \in 0..MaxFaults
  BY <1>1, Numbers
<1>8. TypeOK
  BY <1>1, <1>2, <1>3, <1>4, <1>5, <1>6, <1>7 DEF TypeOK, Bodies
<1>9. QueueInv /\ StageInv
  BY <1>1, <1>2, <1>3, <1>4, IdleLane DEF QueueInv, StageInv
<1> QED BY <1>5, <1>8, <1>9 DEF Inv

LEMMA InvStep == Inv /\ [Next]_vars => Inv'
<1> SUFFICES ASSUME Inv, [Next]_vars PROVE Inv'
  OBVIOUS
<1>1. CASE Tick
  BY <1>1, TickInv
<1>2. CASE MainStep
  BY <1>2, StatusWrittenInv, CollapseInv, AssignInv, AssignedInv, AdjudicateInv DEF MainStep
<1>3. CASE Failures
  BY <1>3, StatusFailsInv, PackFailsInv, SignalInv, ReceiptFailsInv, BriefFailsInv DEF Failures
<1>4. ASSUME NEW l \in Lanes, PiStep(l) \/ Timers(l) \/ Closes(l)
      PROVE  Inv'
  BY <1>4, LaneInv, ReviewerClosesInv, VerifierClosesInv DEF Closes
<1>5. CASE UNCHANGED vars
  <2>1. UNCHANGED <<now, main, phase, queue, disk, lane, outcome, row, reports, todo, judge,
                    verdict, reasons, receipt, faults>>
    BY <1>5 DEF vars, status, reviews, rulings
  <2> QED BY <2>1 DEF Inv, TypeOK, LanesOK, QueueInv, StageInv, ReviewersSettled
<1> QED BY <1>1, <1>2, <1>3, <1>4, <1>5 DEF Next

\* Of any run, whatever its reviewers, caps, deadlines and Pi's own retries: a lane has
\* at most two processes and, if no failed attempt left text, one turn beyond its cap
\* or as many as Pi tries a failed turn again; and none runs on when the run has ended
\* (runPi, stop).
THEOREM LanesBounded == Spec => []LaneIsBounded
<1>1. Inv => LaneIsBounded
  <2> SUFFICES ASSUME Inv PROVE LaneIsBounded
    OBVIOUS
  <2>1. \A l \in Lanes :
          lane[l].procs <= 2 /\ (~lane[l].spoke => lane[l].turns <= TurnCap + Beyond)
    BY InvParts DEF LaneOK
  <2>2. main = "ended" => \A l \in Lanes : lane[l].st # "running"
    BY InvParts DEF StageInv
  <2> QED BY <2>1, <2>2, InvParts DEF LaneIsBounded
<1> QED BY <1>1, InvInit, InvStep, PTL DEF Spec

-----------------------------------------------------------------------------
(* The receipt *)

\* The family a candidate was given to did not find it, and did not fail.
Independent(k) ==
  \A r \in Reviewers : FamilyOf[r] = judge[k] => k \notin reports[r] /\ outcome[r] # "failed"

Underway == {"collapsing", "assigning", "verifying"}

\* Where each candidate is, from its finding to its verdict.
RulingInv ==
  /\ \A k \in Keys : lane[k].st \notin {"idle", "broken"} => Independent(k) /\ ReviewersSettled
  /\ \A k \in Keys : verdict[k] # "none" => lane[k].st \in {"saving", "settled"}
  /\ \A r \in Reviewers : reports[r] # {} \/ row[r] = "completed" => outcome[r] = "completed"
  /\ main \in Underway => \A k \in Candidates :
       k \in todo \/ verdict[k] # "none" \/ k \in reasons
         \/ lane[k].st \in {"running", "killed", "broken"}

Quiet == \A l \in Lanes : lane[l].st \in {"idle", "settled"}

\* Nothing moves once there is a receipt.
ReceiptInv ==
  /\ receipt.status = "none" => receipt = NoReceipt
  /\ receipt.status # "none" =>
       main \in {"closing", "ended"} /\ Quiet /\ CandidatesAccounted /\ OnlyWholeReportsCount
  /\ main = "closing" =>
       queue = <<[who |-> "main", phase |-> "done"]>> /\ receipt.status # "none"
  /\ disk = "done" => main = "ended" /\ receipt.status # "none" /\ queue = <<>>

\* What every step that starts no verifier leaves of the lanes.
Following ==
  /\ \A k \in Keys :
       /\ lane[k].st \in {"idle", "broken"} => lane'[k].st \in {"idle", "broken"}
       /\ lane[k].st \in {"saving", "settled"} => lane'[k].st \in {"saving", "settled"}
       /\ lane[k].st \in {"running", "killed", "broken"} =>
            lane'[k].st \in {"running", "killed", "broken"}
  /\ ReviewersSettled => ReviewersSettled'

LEMMA FollowingKeeps ==
  ASSUME Inv, RulingInv, Following,
         UNCHANGED <<outcome, row, reports, judge, verdict, reasons>>,
         main' \in Underway => main \in Underway /\ todo' = todo
  PROVE  RulingInv'
<1>1. \A k \in Keys : lane'[k].st \notin {"idle", "broken"} => Independent(k)' /\ ReviewersSettled'
  BY DEF Following, RulingInv, Independent
<1>2. Candidates' = Candidates /\ Candidates \subseteq Keys
  BY CandidatesAreKeys, InvParts DEF Candidates
<1>3. main' \in Underway => \A k \in Candidates' :
        k \in todo' \/ verdict'[k] # "none" \/ k \in reasons'
          \/ lane'[k].st \in {"running", "killed", "broken"}
  BY <1>2 DEF RulingInv, Following
<1>4. /\ \A k \in Keys : verdict'[k] # "none" => lane'[k].st \in {"saving", "settled"}
      /\ \A r \in Reviewers : reports'[r] # {} \/ row'[r] = "completed" => outcome'[r] = "completed"
  BY DEF RulingInv, Following
<1> QED BY <1>1, <1>3, <1>4 DEF RulingInv

LEMMA SameFollows ==
  ASSUME lane' = lane  PROVE Following
BY DEF Following, ReviewersSettled

\* A live lane, and nobody's receipt.
LEMMA LiveFollows ==
  ASSUME Inv, NEW l \in Lanes, Live(l), NEW r \in Lane, r.st \in {"running", "killed"},
         lane' = [lane EXCEPT ![l] = r]
  PROVE  Following
<1>1. lane'[l] = r /\ \A k \in Lanes : k # l => lane'[k] = lane[k]
  BY InvParts
<1> QED BY <1>1, InvParts DEF Following, ReviewersSettled, Live

LEMMA StoppedFollows ==
  ASSUME Inv, lane' = Stopped(lane)
  PROVE  Following /\ (Quiet => Quiet')
<1>1. \A l \in Lanes : /\ lane[l].st # "running" => lane'[l] = lane[l]
                       /\ lane[l].st = "running" => lane'[l].st = "killed"
  BY InvParts, StoppedLanes
<1> QED BY <1>1, InvParts DEF Following, ReviewersSettled, Quiet

LEMMA LaunchFollows ==
  ASSUME Inv, main = "opening", NEW F \in SUBSET Reviewers, Launch(F)
  PROVE  Following
<1>1. \A l \in Lanes : lane[l].st = "idle"
  BY InvParts, IdleLane DEF StageInv
<1>2. \A k \in Keys : lane'[k].st = "idle"
  BY LaunchLanes, IdleLane
<1>3. ~ReviewersSettled
  BY <1>1, EngineAssumption, InvParts DEF ReviewersSettled
<1> QED BY <1>1, <1>2, <1>3, InvParts DEF Following

\* A body is written: the lane that waited has settled, the run goes on.
LEMMA WrittenFollows ==
  ASSUME Inv, StatusWritten
  PROVE  /\ Following
         /\ main' \in Underway => main \in Underway
<1> DEFINE b == Head(queue)
<1>1. queue # <<>> /\ queue' = Tail(queue)
  BY DEF StatusWritten
<1>2. b \in Bodies /\ 1 \in DOMAIN queue /\ b = queue[1]
  BY <1>1, InvParts, Tailed
<1> HIDE DEF b
<1>3. CASE b.who # "main"
  <2> DEFINE r == [lane[b.who] EXCEPT !.st = "settled"]
  <2>1. b.who \in Lanes /\ lane[b.who].st = "saving"
    BY <1>2, <1>3, InvParts DEF Bodies, TypeOK
  <2>2. lane' = [lane EXCEPT ![b.who] = r] /\ main' = main
    BY <1>3, <2>1 DEF StatusWritten, b
  <2>3. r.st = "settled"
    BY <2>1, InvParts DEF Lane
  <2> HIDE DEF r
  <2>4. lane'[b.who] = r /\ \A k \in Lanes : k # b.who => lane'[k] = lane[k]
    BY <2>1, <2>2, InvParts
  <2> QED BY <2>1, <2>2, <2>3, <2>4, InvParts DEF Following, ReviewersSettled
<1>4. CASE b.who = "main"
  <2>1. main \in {"opening", "collapsing", "closing", "failing"}
    BY <1>2, <1>4, InvParts DEF QueueInv
  <2>2. CASE main = "opening"
    BY <1>4, <2>2, LaunchFollows DEF StatusWritten, b, Underway
  <2>3. CASE main = "collapsing"
    BY <1>4, <2>3, SameFollows DEF StatusWritten, b, Underway
  <2>4. CASE main \in {"closing", "failing"}
    <3>1. main' = "ended" /\ lane' = Stopped(lane)
      BY <1>4, <2>4 DEF StatusWritten, b, Ends
    <3> QED BY <3>1, StoppedFollows DEF Underway
  <2> QED BY <2>1, <2>2, <2>3, <2>4
<1> QED BY <1>3, <1>4

\* A lane that has returned once there is a receipt, or none; nothing of a lane
\* in between.
LEMMA LiveIsBefore ==
  ASSUME Inv, ReceiptInv, NEW l \in Lanes, Live(l), Listening
  PROVE  receipt.status = "none" /\ main \notin {"closing", "ended"} /\ disk # "done"
BY DEF ReceiptInv, Quiet, Live, Listening

\* Before the receipt there is none to be true.
LEMMA BeforeReceipt ==
  ASSUME ReceiptInv, main \notin {"closing", "ended"}, receipt' = receipt, main' # "closing",
         disk' \in {disk, "reviewing"}
  PROVE  ReceiptInv'
BY DEF ReceiptInv

LEMMA RulingLane ==
  ASSUME Inv, RulingInv, ReceiptInv, NEW l \in Lanes,
         PiStep(l) \/ Timers(l) \/ ReportStarts(l)
  PROVE  RulingInv' /\ ReceiptInv'
<1>1. Listening /\ Live(l)
  BY InvParts, LaneMoves
<1>2. PICK r \in Lane : LaneStep(l, r) /\ r.st \in {"running", "killed"} /\ LaneOK(r)
  BY InvParts, LaneMoves
<1>3. /\ lane' = [lane EXCEPT ![l] = r]
      /\ UNCHANGED <<now, main, phase, queue, disk, outcome, row, reports, todo, judge,
                     verdict, reasons, receipt, faults>>
  BY <1>2 DEF LaneStep, status, reviews, rulings
<1>4. Following
  BY <1>1, <1>2, <1>3, LiveFollows
<1> QED BY <1>1, <1>3, <1>4, FollowingKeeps, LiveIsBefore, BeforeReceipt

\* A reviewer closes while no candidate is with a verifier.
LEMMA RulingReviewer ==
  ASSUME Inv, RulingInv, ReceiptInv, NEW r \in Reviewers, NEW code \in {0, 1},
         NEW text \in Texts, NEW found \in SUBSET Keys, ReviewerCloses(r, code, text, found)
  PROVE  RulingInv' /\ ReceiptInv'
<1> DEFINE s == LaneStatus(lane[r], code)
<1>1. /\ Listening /\ Live(r) /\ lane' = [lane EXCEPT ![r] = Over("saving")]
      /\ outcome' = [outcome EXCEPT ![r] = s]
      /\ row' = [row EXCEPT ![r] = RowStatus(s, text)]
      /\ reports' = [reports EXCEPT ![r] = Reported(s, text, found)]
      /\ UNCHANGED <<main, disk, todo, judge, verdict, reasons, receipt>>
  BY DEF ReviewerCloses, rulings
<1>2. s \in {"completed", "failed", "cut"}
  BY Statuses
<1> HIDE DEF s
<1>3. RowStatus(s, text) = "completed" \/ Reported(s, text, found) # {} => s = "completed"
  BY <1>2 DEF RowStatus, Reported
<1>4. ~ReviewersSettled /\ main \notin Underway
  BY <1>1, InvParts DEF StageInv, ReviewersSettled, Live, Underway
<1>5. \A k \in Keys : lane'[k] = lane[k]
  BY <1>1, InvParts, EngineAssumption
<1>6. \A q \in Reviewers :
        reports'[q] # {} \/ row'[q] = "completed" => outcome'[q] = "completed"
  <2>1. /\ outcome'[r] = s /\ row'[r] = RowStatus(s, text)
        /\ reports'[r] = Reported(s, text, found)
        /\ \A q \in Reviewers : q # r =>
             outcome'[q] = outcome[q] /\ row'[q] = row[q] /\ reports'[q] = reports[q]
    BY <1>1, InvParts DEF TypeOK
  <2> QED BY <1>3, <2>1 DEF RulingInv
<1>7. \A k \in Keys : /\ lane'[k].st \in {"idle", "broken"}
                      /\ verdict'[k] # "none" => lane'[k].st \in {"saving", "settled"}
  BY <1>1, <1>4, <1>5 DEF RulingInv
<1>8. RulingInv'
  BY <1>1, <1>4, <1>6, <1>7 DEF RulingInv
<1> QED BY <1>1, <1>8, InvParts, LiveIsBefore, BeforeReceipt

LEMMA RulingCollapse ==
  ASSUME Inv, RulingInv, ReceiptInv, Collapse
  PROVE  RulingInv' /\ ReceiptInv'
<1>1. /\ main = "reviewing" /\ main' = "collapsing" /\ todo' = Candidates
      /\ UNCHANGED <<disk, lane, outcome, row, reports, judge, verdict, reasons, receipt>>
  BY DEF Collapse, reviews
<1>2. Candidates' = Candidates
  BY <1>1 DEF Candidates
<1>3. RulingInv'
  BY <1>1, <1>2 DEF RulingInv, Independent, ReviewersSettled
<1> QED BY <1>1, <1>3, BeforeReceipt

\* A candidate is given to a family that may rule on it, or to none.
LEMMA RulingAssign ==
  ASSUME Inv, RulingInv, ReceiptInv, NEW k \in Keys, Assign(k)
  PROVE  RulingInv' /\ ReceiptInv'
<1>1. /\ main = "assigning" /\ k \in todo /\ todo' = todo \ {k}
      /\ UNCHANGED <<main, disk, outcome, row, reports, verdict, receipt>>
  BY DEF Assign, status, reviews
<1>2. /\ ReviewersSettled /\ lane[k].st = "idle" /\ k \notin Reviewers
      /\ Candidates' = Candidates /\ Candidates \subseteq Keys
  BY <1>1, InvParts, CandidatesAreKeys, EngineAssumption DEF StageInv, Candidates
<1>3. CASE reasons' = reasons \union {k} /\ UNCHANGED <<judge, lane>>
  <2>1. RulingInv'
    BY <1>1, <1>2, <1>3 DEF RulingInv, Independent, ReviewersSettled, Underway
  <2> QED BY <1>1, <2>1, BeforeReceipt
<1>4. ASSUME NEW f \in Chosen(k), judge' = [judge EXCEPT ![k] = f], UNCHANGED reasons,
             lane' = [lane EXCEPT ![k] = Spawned([Idle EXCEPT
                        !.deadline = Sooner(now + VerifyWindow, RunDeadline)])]
      PROVE  RulingInv'
  <2> DEFINE d == Sooner(now + VerifyWindow, RunDeadline)
             r == Spawned([Idle EXCEPT !.deadline = d])
  <2>1. r.st = "running"
    <3>1. d \in Nat
      BY InvParts, Numbers DEF Sooner, TypeOK
    <3> QED BY <3>1, SpawnedLane
  <2>2. lane' = [lane EXCEPT ![k] = r]
    BY <1>4
  <2> HIDE DEF r
  <2>3. /\ lane'[k] = r /\ \A l \in Lanes : l # k => lane'[l] = lane[l]
        /\ judge'[k] = f /\ \A c \in Keys : c # k => judge'[c] = judge[c]
    BY <1>4, <2>2, InvParts DEF TypeOK
  <2>4. Independent(k)'
    <3>1. f \in Eligible(k)
      BY ChosenFamily
    <3>2. \A q \in Reviewers : FamilyOf[q] = f => k \notin reports[q] /\ outcome[q] # "failed"
      BY <3>1 DEF Eligible, Finders, With
    <3> QED BY <1>1, <2>3, <3>2 DEF Independent
  <2>5. ReviewersSettled'
    BY <1>2, <2>3, InvParts DEF ReviewersSettled
  <2>6. \A c \in Keys : lane'[c].st \notin {"idle", "broken"} => Independent(c)'
    BY <1>1, <2>3, <2>4, InvParts DEF RulingInv, Independent
  <2>7. \A c \in Keys : verdict'[c] # "none" => lane'[c].st \in {"saving", "settled"}
    BY <1>1, <1>2, <2>3, InvParts DEF RulingInv
  <2>8. \A c \in Candidates : c \in todo' \/ verdict'[c] # "none" \/ c \in reasons'
                                \/ lane'[c].st \in {"running", "killed", "broken"}
    BY <1>1, <1>2, <1>4, <2>1, <2>3, InvParts DEF RulingInv, Underway
  <2> QED BY <1>1, <1>2, <2>5, <2>6, <2>7, <2>8 DEF RulingInv
<1> QED BY <1>1, <1>3, <1>4, BeforeReceipt DEF Assign

LEMMA RulingBrief ==
  ASSUME Inv, RulingInv, ReceiptInv, NEW k \in Keys, BriefFails(k)
  PROVE  RulingInv' /\ ReceiptInv'
<1> DEFINE r == [lane[k] EXCEPT !.st = "broken"]
<1>1. /\ main = "assigning" /\ k \in todo /\ todo' = todo \ {k} /\ lane' = [lane EXCEPT ![k] = r]
      /\ UNCHANGED <<main, disk, outcome, row, reports, verdict, reasons, receipt>>
  BY DEF BriefFails, status, reviews
<1>2. PICK f \in Chosen(k) : judge' = [judge EXCEPT ![k] = f]
  BY DEF BriefFails
<1>3. r.st = "broken"
  BY InvParts DEF Lane
<1> HIDE DEF r
<1>4. /\ lane'[k] = r /\ \A l \in Lanes : l # k => lane'[l] = lane[l]
      /\ \A c \in Keys : c # k => judge'[c] = judge[c]
  BY <1>1, <1>2, InvParts DEF TypeOK
<1>5. /\ lane[k].st = "idle" /\ k \notin Reviewers /\ ReviewersSettled
      /\ Candidates' = Candidates /\ Candidates \subseteq Keys
  BY <1>1, InvParts, CandidatesAreKeys, EngineAssumption DEF StageInv, Candidates
<1>6. ReviewersSettled'
  BY <1>4, <1>5, InvParts DEF ReviewersSettled
<1>7. \A c \in Keys : lane'[c].st \notin {"idle", "broken"} => Independent(c)'
  BY <1>1, <1>3, <1>4, InvParts DEF RulingInv, Independent
<1>8. \A c \in Keys : verdict'[c] # "none" => lane'[c].st \in {"saving", "settled"}
  BY <1>1, <1>4, <1>5, InvParts DEF RulingInv
<1>9. \A c \in Candidates : c \in todo' \/ verdict'[c] # "none" \/ c \in reasons'
                              \/ lane'[c].st \in {"running", "killed", "broken"}
  BY <1>1, <1>3, <1>4, <1>5, InvParts DEF RulingInv, Underway
<1>10. RulingInv'
  BY <1>1, <1>5, <1>6, <1>7, <1>8, <1>9 DEF RulingInv
<1> QED BY <1>1, <1>10, BeforeReceipt

LEMMA RulingVerifier ==
  ASSUME Inv, RulingInv, ReceiptInv, NEW k \in Keys, NEW code \in {0, 1},
         NEW text \in {"malformed", "complete"}, VerifierCloses(k, code, text)
  PROVE  RulingInv' /\ ReceiptInv'
<1>1. /\ Listening /\ Live(k) /\ k \in Lanes /\ k \notin Reviewers
      /\ UNCHANGED <<main, disk, outcome, row, reports, todo, judge, receipt>>
      /\ \/ /\ verdict' = [verdict EXCEPT ![k] = "ruled"] /\ reasons' = reasons
            /\ lane' = [lane EXCEPT ![k] = Over("saving")]
         \/ /\ verdict' = verdict /\ reasons' = reasons \union {k}
            /\ lane' = [lane EXCEPT ![k] = Over("settled")]
  BY InvParts, EngineAssumption DEF VerifierCloses, Explained, reviews
<1>2. /\ lane'[k].st \in {"saving", "settled"} /\ \A l \in Lanes : l # k => lane'[l] = lane[l]
      /\ verdict'[k] = "ruled" \/ (k \in reasons' /\ verdict'[k] = verdict[k])
      /\ \A c \in Keys : c # k => verdict'[c] = verdict[c]
      /\ reasons \subseteq reasons'
  <2>1. verdict \in [Keys -> {"none", "ruled"}] /\ lane \in [Lanes -> Lane]
    BY InvParts DEF TypeOK
  <2>2. CASE verdict' = verdict
    BY <1>1, <2>1, <2>2, OverLane
  <2>3. CASE /\ verdict' = [verdict EXCEPT ![k] = "ruled"] /\ reasons' = reasons
             /\ lane' = [lane EXCEPT ![k] = Over("saving")]
    BY <1>1, <2>1, <2>3, OverLane
  <2> QED BY <1>1, <2>2, <2>3
<1>3. /\ Candidates' = Candidates /\ Candidates \subseteq Keys
      /\ lane[k].st \in {"running", "killed"}
  BY <1>1, InvParts, CandidatesAreKeys DEF Candidates, Live
<1>4. ReviewersSettled /\ ReviewersSettled'
  BY <1>1, <1>2, <1>3, InvParts DEF RulingInv, ReviewersSettled
<1>5. \A c \in Keys : lane'[c].st \notin {"idle", "broken"} => Independent(c)'
  BY <1>1, <1>2, <1>3, InvParts DEF RulingInv, Independent
<1>6. \A c \in Keys : verdict'[c] # "none" => lane'[c].st \in {"saving", "settled"}
  BY <1>2, InvParts DEF RulingInv
<1>7. main' \in Underway => \A c \in Candidates' :
        c \in todo' \/ verdict'[c] # "none" \/ c \in reasons'
          \/ lane'[c].st \in {"running", "killed", "broken"}
  BY <1>1, <1>2, <1>3, InvParts DEF RulingInv
<1>8. RulingInv'
  BY <1>1, <1>4, <1>5, <1>6, <1>7 DEF RulingInv
<1> QED BY <1>1, <1>8, LiveIsBefore, BeforeReceipt

\* Nobody waits when main alone is left, so the queue is empty.
LEMMA NobodyWaits ==
  ASSUME Inv, main = "verifying", Verified
  PROVE  queue = <<>> /\ Quiet
<1>1. Quiet
  BY InvParts DEF Verified, StageInv, ReviewersSettled, Quiet
<1>2. \A i \in DOMAIN queue : FALSE
  <2>1. \A i \in DOMAIN queue : queue[i].who # "main" /\ queue[i].who \in Lanes
    BY InvParts DEF QueueInv, Bodies
  <2> QED BY <1>1, <2>1, InvParts DEF TypeOK, Quiet
<1>3. queue = <<>>
  <2>1. Len(queue) \in Nat /\ DOMAIN queue = 1..Len(queue)
    BY InvParts, LenProperties
  <2>2. Len(queue) = 0
    BY <1>2, <2>1
  <2> QED BY <2>2, InvParts, EmptySeq
<1> QED BY <1>1, <1>3

\* The receipt is made of what the lanes came to.
LEMMA ReceiptAdjudicate ==
  ASSUME Inv, RulingInv, ReceiptInv, Adjudicate
  PROVE  RulingInv' /\ ReceiptInv'
<1>1. /\ main = "verifying" /\ Verified /\ main' = "closing" /\ phase' = "done"
      /\ queue' = Append(queue, Body("main"))
      /\ receipt' = [status |-> IF Complete THEN "completed" ELSE "partial",
                     candidates |-> Candidates, unverified |-> Unverified,
                     reasons |-> reasons]
      /\ UNCHANGED <<disk, lane, outcome, row, reports, todo, judge, verdict, reasons>>
  BY DEF Adjudicate, reviews, rulings
<1>2. queue = <<>> /\ Quiet
  BY <1>1, NobodyWaits
<1>3. queue' = <<[who |-> "main", phase |-> "done"]>>
  BY <1>1, <1>2 DEF Body
<1>4. /\ receipt'.status = IF Complete THEN "completed" ELSE "partial"
      /\ receipt'.candidates = Candidates /\ receipt'.unverified = Unverified
      /\ receipt'.reasons = reasons
  BY <1>1
<1>5. Candidates \subseteq Keys /\ todo = {}
  BY <1>1, InvParts, CandidatesAreKeys DEF StageInv
<1>6. CandidatesAccounted'
  <2>1. Complete => /\ \A k \in Candidates : verdict[k] # "none"
                    /\ \A r \in Reviewers : outcome[r] = "completed"
    BY DEF Complete, Unverified, RulingInv
  <2>2. Unverified \subseteq reasons
    BY <1>1, <1>5 DEF Unverified, RulingInv, Underway, Verified
  <2> QED BY <1>1, <1>4, <2>1, <2>2 DEF CandidatesAccounted
<1>7. OnlyWholeReportsCount'
  <2>1. Candidates = UNION {reports[r] : r \in {q \in Reviewers : outcome[q] = "completed"}}
    BY DEF Candidates, RulingInv
  <2> QED BY <1>1, <1>4, <2>1 DEF OnlyWholeReportsCount
<1>8. Quiet' /\ disk' # "done" /\ receipt'.status # "none"
  BY <1>1, <1>2, <1>4 DEF Quiet, ReceiptInv
<1>9. ReceiptInv'
  BY <1>1, <1>3, <1>6, <1>7, <1>8 DEF ReceiptInv
<1>10. RulingInv'
  BY <1>1, SameFollows, FollowingKeeps DEF Underway
<1> QED BY <1>9, <1>10

\* What the receipt says stays true of what it was made of.
LEMMA ReceiptKept ==
  ASSUME ReceiptInv, UNCHANGED <<outcome, reports, verdict, receipt>>, Quiet => Quiet',
         main' \in {main, "ended"}
  PROVE  receipt'.status # "none" =>
           main' \in {"closing", "ended"} /\ Quiet' /\ CandidatesAccounted'
             /\ OnlyWholeReportsCount'
BY DEF ReceiptInv, CandidatesAccounted, OnlyWholeReportsCount

LEMMA ReceiptWritten ==
  ASSUME Inv, RulingInv, ReceiptInv, StatusWritten
  PROVE  RulingInv' /\ ReceiptInv'
<1> DEFINE b == Head(queue)
<1>1. /\ queue # <<>> /\ queue' = Tail(queue) /\ main \notin {"ended", "assigning"}
      /\ disk' = b.phase
      /\ UNCHANGED <<outcome, row, reports, todo, judge, verdict, reasons, receipt>>
  BY DEF StatusWritten, reviews, rulings
<1>2. b \in Bodies /\ 1 \in DOMAIN queue /\ b = queue[1]
  BY <1>1, InvParts, Tailed
<1>3. RulingInv'
  BY <1>1, WrittenFollows, FollowingKeeps
<1>4. CASE main = "closing"
  <2>1. queue = <<[who |-> "main", phase |-> "done"]>> /\ receipt.status # "none"
    BY <1>4 DEF ReceiptInv
  <2>2. b.who = "main" /\ Tail(queue) = <<>>
    BY <2>1
  <2>3. main' = "ended" /\ lane' = Stopped(lane)
    BY <1>4, <2>2 DEF StatusWritten, Ends
  <2>4. Quiet => Quiet'
    BY <2>3, StoppedFollows
  <2> QED BY <1>1, <1>3, <2>1, <2>2, <2>3, <2>4, ReceiptKept DEF ReceiptInv
<1>5. CASE main # "closing"
  <2>1. receipt.status = "none"
    BY <1>1, <1>5 DEF ReceiptInv
  <2>2. b.phase # "done"
    BY <1>1, <1>2, <1>5, InvParts DEF QueueInv
  <2>3. main' # "closing"
    <3>1. b.who = "main" => main \in {"opening", "collapsing", "closing", "failing"}
      BY <1>2, InvParts DEF QueueInv
    <3> QED BY <1>5, <3>1 DEF StatusWritten, Ends
  <2> QED BY <1>1, <1>3, <2>1, <2>2, <2>3 DEF ReceiptInv
<1> QED BY <1>4, <1>5

LEMMA ReceiptStatusFails ==
  ASSUME Inv, RulingInv, ReceiptInv, StatusFails
  PROVE  RulingInv' /\ ReceiptInv'
<1>1. /\ queue' = <<>> /\ main' = "ended" /\ lane' = Stopped(lane) /\ main # "ended"
      /\ UNCHANGED <<disk, outcome, row, reports, todo, judge, verdict, reasons, receipt>>
  BY DEF StatusFails, Ends, reviews, rulings
<1>2. Following /\ (Quiet => Quiet')
  BY <1>1, StoppedFollows
<1>3. RulingInv'
  BY <1>1, <1>2, FollowingKeeps DEF Underway
<1>4. disk' # "done"
  BY <1>1 DEF ReceiptInv
<1> QED BY <1>1, <1>2, <1>3, <1>4, ReceiptKept DEF ReceiptInv

LEMMA ReceiptPackFails ==
  ASSUME Inv, RulingInv, ReceiptInv, PackFails
  PROVE  RulingInv' /\ ReceiptInv'
<1>1. /\ main = "opening" /\ disk' = "reviewing" /\ main' = "failing"
      /\ UNCHANGED <<outcome, row, reports, todo, judge, verdict, reasons, receipt>>
  BY DEF PackFails, reviews, rulings
<1>2. Following
  BY <1>1, LaunchFollows DEF PackFails
<1> QED BY <1>1, <1>2, FollowingKeeps, BeforeReceipt DEF Underway

LEMMA ReceiptSignal ==
  ASSUME Inv, RulingInv, ReceiptInv, Signal
  PROVE  RulingInv' /\ ReceiptInv'
<1>1. /\ lane' = Stopped(lane)
      /\ UNCHANGED <<main, queue, disk, outcome, row, reports, todo, judge, verdict, reasons,
                     receipt>>
  BY DEF Signal, status, reviews, rulings
<1>2. Following /\ (Quiet => Quiet')
  BY <1>1, StoppedFollows
<1> QED BY <1>1, <1>2, FollowingKeeps, ReceiptKept DEF ReceiptInv

\* The run goes to its verifiers, or fails, without a receipt.
LEMMA ReceiptStage ==
  ASSUME Inv, RulingInv, ReceiptInv, Assigned \/ ReceiptFails
  PROVE  RulingInv' /\ ReceiptInv'
<1>1. /\ main \in {"assigning", "verifying"} /\ main' \in {"verifying", "failing"}
      /\ main' = "verifying" => main = "assigning"
      /\ UNCHANGED <<disk, lane, outcome, row, reports, todo, judge, verdict, reasons, receipt>>
  BY DEF Assigned, ReceiptFails, Catch, status, reviews, rulings
<1> QED BY <1>1, SameFollows, FollowingKeeps, BeforeReceipt DEF Underway

LEMMA ReceiptInit == Init => RulingInv /\ ReceiptInv
<1> SUFFICES ASSUME Init PROVE RulingInv /\ ReceiptInv
  OBVIOUS
<1>1. \A l \in Lanes : lane[l].st = "idle"
  BY IdleLane DEF Init
<1>2. RulingInv
  BY <1>1 DEF Init, RulingInv, Underway, Lanes
<1> QED BY <1>2 DEF Init, ReceiptInv, NoReceipt

LEMMA ReceiptStep == Inv /\ RulingInv /\ ReceiptInv /\ [Next]_vars => RulingInv' /\ ReceiptInv'
<1> SUFFICES ASSUME Inv, RulingInv, ReceiptInv, [Next]_vars PROVE RulingInv' /\ ReceiptInv'
  OBVIOUS
<1>1. CASE Tick \/ UNCHANGED vars
  <2>1. UNCHANGED <<main, queue, disk, lane, outcome, row, reports, todo, judge, verdict,
                    reasons, receipt>>
    BY <1>1 DEF Tick, vars, status, reviews, rulings
  <2>2. Quiet => Quiet'
    BY <2>1 DEF Quiet
  <2> QED BY <2>1, <2>2, SameFollows, FollowingKeeps, ReceiptKept DEF ReceiptInv
<1>2. CASE MainStep
  BY <1>2, ReceiptWritten, RulingCollapse, RulingAssign, ReceiptStage, ReceiptAdjudicate
     DEF MainStep
<1>3. CASE Failures
  BY <1>3, ReceiptStatusFails, ReceiptPackFails, ReceiptSignal, ReceiptStage, RulingBrief
     DEF Failures
<1>4. ASSUME NEW l \in Lanes, PiStep(l) \/ Timers(l) \/ Closes(l)
      PROVE  RulingInv' /\ ReceiptInv'
  BY <1>4, RulingLane, RulingReviewer, RulingVerifier DEF Closes
<1> QED BY <1>1, <1>2, <1>3, <1>4 DEF Next

\* Of any run: the receipt says of each candidate what became of it, its candidates
\* are those of the lanes that completed, each verdict is of an independent family,
\* and status.json says done only with the receipt there and nothing left to move
\* (runHybrid, writeStatus, applyVerdicts).
THEOREM ReceiptTrue == Spec => []ReceiptTellsTheTruth
<1>1. Inv /\ RulingInv /\ ReceiptInv => ReceiptTellsTheTruth
  <2> SUFFICES ASSUME Inv, RulingInv, ReceiptInv PROVE ReceiptTellsTheTruth
    OBVIOUS
  <2>1. VerifierIsIndependent
    BY DEF RulingInv, Independent, VerifierIsIndependent
  <2>2. DoneIsFinal
    BY DEF ReceiptInv, DoneIsFinal, Quiet
  <2>3. CandidatesAccounted /\ OnlyWholeReportsCount
    BY DEF ReceiptInv, CandidatesAccounted, OnlyWholeReportsCount, NoReceipt
  <2> QED BY <2>1, <2>2, <2>3 DEF ReceiptTellsTheTruth
<1> QED BY <1>1, InvInit, InvStep, ReceiptInit, ReceiptStep, PTL DEF Spec
===============================================================================
