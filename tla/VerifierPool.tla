----------------------------- MODULE VerifierPool -----------------------------
(***************************************************************************)
(* The swarm's verifier pool (src/swarm.ts): warm lanes that start beside  *)
(* the packed reviewers, claim one file's candidates each from a queue of  *)
(* files the moment it is published, and rule on them; a lane that died    *)
(* before a model saw its claim hands it back, and a later wave of fresh   *)
(* lanes takes what is left.                                               *)
(*                                                                         *)
(* Three activities share the queue: main(), which publishes it once the   *)
(* reviewers have settled; the pool loop, which launches waves; and in     *)
(* each lane a brief writer, which may outlive the lane's container.  A    *)
(* claim is a rename, so of two lanes that list the same name one wins.    *)
(* Lanes are numbered within their wave.  A lane's container and driver    *)
(* are one actor: it may exit at any time, and its receipt counts the      *)
(* model requests of the last state the driver polled (src/drive.ts), so a *)
(* driver that loses sight of the lane, or dies, may count none.           *)
(*                                                                         *)
(* AlwaysWon, SettledNow, NeverSettled, DamagedIsNothing and NeverPutBack  *)
(* are faulty variants of the definition each precedes, for testing the    *)
(* properties; no action uses them.                                        *)
(***************************************************************************)
EXTENDS Naturals, FiniteSets

CONSTANTS
  PoolLanes,      \* CLOUD_CONCURRENT_LANES
  LaneRelaunches, \* LANE_RELAUNCHES
  MaxGroups,      \* bound: groups of candidates
  MaxBlind        \* bound: drivers whose receipt misses the model's first request

ASSUME PoolAssumption == /\ {PoolLanes, MaxGroups} \subseteq Nat \ {0}
                         /\ {LaneRelaunches, MaxBlind} \subseteq Nat

Waves  == 1 + LaneRelaunches   \* VERIFIER_POOL_WAVES
Groups == 1..MaxGroups         \* in the order of their names
Slots  == 1..PoolLanes

VARIABLES
  phase,        \* main(): reviewing, publishing the queue, frozen
  unpublished,  \* groups publish() has still to write
  pending,      \* the directory a lane claims from
  pool, wave, refusal,   \* the pool loop
  lane,         \* the lanes of the running wave
  narrow,       \* the window left is too short for a fresh lane
  aborted,      \* the run was interrupted or met its deadline
  reviewed,     \* every reviewer completed and every file is covered
  statuses,     \* of the lanes that settled
  verdicts,     \* groups ruled on
  final,        \* the run's status
  \* history: groups that ever were claimed, groups whose lane had them to itself
  \* and failed, how many models read each, groups whose reading was not recorded,
  \* groups published when the pool had ended already
  claimed, failed, reads, lost, blind, late

queue   == <<phase, unpublished, pending>>
loop    == <<pool, wave, refusal>>
run     == <<narrow, aborted, reviewed>>
results == <<statuses, verdicts, final>>
history == <<claimed, failed, reads, lost, blind, late>>
vars == <<queue, loop, lane, run, results, history>>

\* A lane: what its container left behind when it exited, whether a model read its
\* brief, where its brief writer is, what it saw when it asked for work (frozen),
\* the names it listed and its claim.
Lane == [on : BOOLEAN, exited : {"no", "none", "unstarted", "damaged", "failed", "completed"},
         reached : BOOLEAN, writer : {"asking", "listing", "claiming", "briefing", "done"},
         frozen : BOOLEAN, names : SUBSET Groups, claim : Groups \union {0},
         brief : {"none", "claim", "null"}, cut : BOOLEAN]

Off   == [on |-> FALSE, exited |-> "no", reached |-> FALSE, writer |-> "asking",
          frozen |-> FALSE, names |-> {}, claim |-> 0, brief |-> "none",
          cut |-> FALSE]
Fresh == [Off EXCEPT !.on = TRUE]

Init ==
  /\ phase = "reviewing" /\ unpublished = {} /\ pending = {}
  /\ pool = "deciding" /\ wave = 0 /\ refusal = "none"
  /\ lane = [s \in Slots |-> Off]
  /\ narrow = FALSE /\ aborted = FALSE /\ reviewed \in BOOLEAN
  /\ statuses = {} /\ verdicts = {} /\ final = "none"
  /\ claimed = {} /\ failed = {} /\ lost = {} /\ blind = 0 /\ late = {}
  /\ reads = [g \in Groups |-> 0]

\* The first name of a sorted list: at most one.
First(S) == {n \in S : \A m \in S : n <= m}

Published == {g \in Groups : g \in pending \union claimed}

-----------------------------------------------------------------------------
(* main(): the reviewers settle, the queue is published, the set is frozen *)

ReviewersSettle ==
  /\ phase = "reviewing"
  /\ phase' = "publishing"
  /\ \E n \in 0..MaxGroups : unpublished' = 1..n
  /\ UNCHANGED <<pending, loop, lane, run, results, history>>

\* The groups are written one after another, while lanes claim and settle and the
\* pool loop counts what is left.
Publish ==
  /\ phase = "publishing"
  /\ \E g \in First(unpublished) :
       /\ pending' = pending \union {g}
       /\ unpublished' = unpublished \ {g}
       /\ late' = IF pool = "done" THEN late \union {g} ELSE late
  /\ UNCHANGED <<phase, loop, lane, run, results, claimed, failed, reads, lost, blind>>

Freeze ==
  /\ phase = "publishing" /\ unpublished = {}
  /\ phase' = "frozen"
  /\ UNCHANGED <<unpublished, pending, loop, lane, run, results, history>>

-----------------------------------------------------------------------------
(* The pool loop *)

\* verifierWavePlan(): the number of lanes, or why there are none.
WavesSpent(left) == wave >= Waves

Decide ==
  /\ pool = "deciding"
  /\ LET left == IF wave = 0 THEN PoolLanes ELSE Cardinality(pending)
         stop(why) == pool' = "done" /\ refusal' = why /\ UNCHANGED <<wave, lane>>
     IN CASE aborted -> stop("none")
          [] ~aborted /\ wave > 0 /\ left = 0 -> stop("none")
          [] ~aborted /\ wave > 0 /\ left # 0 /\ WavesSpent(left) -> stop("waves")
          [] ~aborted /\ wave > 0 /\ left # 0 /\ ~WavesSpent(left) /\ narrow -> stop("window")
          [] OTHER -> /\ pool' = "running" /\ wave' = wave + 1 /\ UNCHANGED refusal
                      /\ lane' = [s \in Slots |-> IF s <= left THEN Fresh ELSE Off]
  /\ UNCHANGED <<queue, run, results, history>>

WaveSettled ==
  /\ pool = "running" /\ \A s \in Slots : ~lane[s].on
  /\ pool' = "deciding"
  /\ UNCHANGED <<queue, wave, refusal, lane, run, results, history>>

-----------------------------------------------------------------------------
(* A lane's brief writer: nextVerifierBrief() and claimQueue.claim() *)

\* Lane s, and no other, becomes l.
Becomes(s, l) == lane' = [lane EXCEPT ![s] = l]

Writer(s, label) == lane[s].on /\ lane[s].writer = label

\* What the call is given is read before the queue is.
Ask(s) ==
  /\ Writer(s, "asking")
  /\ Becomes(s, IF aborted \/ lane[s].cut
                THEN [lane[s] EXCEPT !.writer = "done"]
                ELSE [lane[s] EXCEPT !.writer = "listing", !.frozen = (phase = "frozen")])
  /\ UNCHANGED <<queue, loop, run, results, history>>

List(s) ==
  /\ Writer(s, "listing")
  /\ Becomes(s, [lane[s] EXCEPT !.writer = "claiming", !.names = pending])
  /\ UNCHANGED <<queue, loop, run, results, history>>

\* The rename finds its source.
AlwaysWon(g) == TRUE

Won(g) == g \in pending

Claim(s) ==
  /\ Writer(s, "claiming")
  /\ \E g \in First(lane[s].names) :
     IF Won(g)
     THEN /\ pending' = pending \ {g}
          /\ claimed' = claimed \union {g}
          /\ Becomes(s, [lane[s] EXCEPT !.writer = "briefing", !.claim = g, !.names = {}])
     ELSE /\ Becomes(s, [lane[s] EXCEPT !.names = @ \ {g}])
          /\ UNCHANGED <<pending, claimed>>
  /\ UNCHANGED <<phase, unpublished, loop, run, results, failed, reads, lost, blind, late>>

\* Nothing to claim: the lane ends on a null brief, or waits and asks again.
SettledNow(s) == phase = "frozen"

NeverSettled(s) == FALSE

Settled(s) == lane[s].frozen

NothingToClaim(s) ==
  /\ Writer(s, "claiming") /\ lane[s].names = {}
  /\ Becomes(s, IF Settled(s) THEN [lane[s] EXCEPT !.writer = "done", !.brief = "null"]
                ELSE [lane[s] EXCEPT !.writer = "asking"])
  /\ UNCHANGED <<queue, loop, run, results, history>>

Brief(s) ==
  /\ Writer(s, "briefing")
  /\ Becomes(s, [lane[s] EXCEPT !.writer = "done", !.brief = "claim"])
  /\ UNCHANGED <<queue, loop, run, results, history>>

-----------------------------------------------------------------------------
(* The lane's container and driver *)

ModelReads(s) ==
  LET l == lane[s] IN
  /\ l.on /\ l.exited = "no" /\ l.brief = "claim" /\ ~l.reached
  /\ Becomes(s, [l EXCEPT !.reached = TRUE])
  /\ reads' = [reads EXCEPT ![l.claim] = @ + 1]
  /\ UNCHANGED <<queue, loop, run, results, claimed, failed, lost, blind, late>>

\* What the driver's receipt says: nothing, no request, it cannot be parsed, a
\* failed or a completed run.  It is written from the last poll.
Exits(s, evidence) ==
  LET l == lane[s] IN
  /\ l.on /\ l.exited = "no"
  /\ IF ~l.reached
     THEN evidence \in {"none", "unstarted", "damaged"} /\ UNCHANGED <<lost, blind>>
     ELSE \/ evidence \in {"completed", "failed", "damaged"} /\ UNCHANGED <<lost, blind>>
          \/ /\ evidence \in {"none", "unstarted"} /\ blind < MaxBlind /\ blind' = blind + 1
             /\ lost' = lost \union {l.claim}
  /\ Becomes(s, [l EXCEPT !.exited = evidence])
  /\ UNCHANGED <<queue, loop, run, results, claimed, failed, reads, late>>

\* neverReachedModel(): a damaged receipt is not a record of nothing.
DamagedIsNothing(l) == l.exited \in {"none", "unstarted", "damaged"}

NeverReachedModel(l) == l.exited \in {"none", "unstarted"}

\* release()
NeverPutBack(g) == UNCHANGED pending

PutBack(g) == pending' = pending \union {g}

\* The end of runPoolLane(): the container and the writer are both done.
Settle(s, rules) ==
  LET l == lane[s]
      released == l.claim # 0 /\ NeverReachedModel(l)
      status == IF released THEN "not_run"
                ELSE IF l.claim = 0 THEN (IF aborted THEN "cancelled" ELSE "not_run")
                ELSE IF aborted THEN "cancelled"
                ELSE IF l.exited = "completed" /\ rules THEN "completed" ELSE "failed"
  IN
  /\ l.on /\ l.exited # "no" /\ l.writer = "done"
  /\ IF released THEN PutBack(l.claim) ELSE UNCHANGED pending
  /\ statuses' = statuses \union {status}
  /\ verdicts' = IF status = "completed" THEN verdicts \union {l.claim} ELSE verdicts
  /\ failed' = IF l.claim # 0 /\ status \in {"failed", "cancelled"}
               THEN failed \union {l.claim} ELSE failed
  /\ Becomes(s, Off)
  /\ UNCHANGED <<phase, unpublished, loop, run, final, claimed, reads, lost, blind, late>>

-----------------------------------------------------------------------------
(* Time, and the end of the run *)

Narrows ==
  /\ ~narrow /\ narrow' = TRUE
  /\ UNCHANGED <<queue, loop, lane, aborted, reviewed, results, history>>

Abort ==
  /\ ~aborted /\ final = "none" /\ aborted' = TRUE
  /\ UNCHANGED <<queue, loop, lane, narrow, reviewed, results, history>>

\* A lane's window is all that is left of the run, beyond what the reviewers have.
LaneCut(s) ==
  /\ lane[s].on /\ ~lane[s].cut /\ phase = "frozen" /\ narrow
  /\ Becomes(s, [lane[s] EXCEPT !.cut = TRUE])
  /\ UNCHANGED <<queue, loop, run, results, history>>

\* unadjudicated()
Unruled == Published \ verdicts

\* swarmStatus(), where some reviewer completed.
SwarmStatus ==
  LET required == Published # {} /\ ~aborted
      settled == IF required THEN statuses # {} /\ statuses \subseteq {"completed", "not_run"}
                 ELSE statuses \subseteq {"not_run"}
  IN IF reviewed /\ settled /\ Unruled = {} THEN "completed" ELSE "partial"

Finish ==
  /\ phase = "frozen" /\ pool = "done" /\ final = "none"
  /\ final' = SwarmStatus
  /\ UNCHANGED <<queue, loop, lane, run, statuses, verdicts, history>>

-----------------------------------------------------------------------------
MainStep   == ReviewersSettle \/ Publish \/ Freeze \/ Finish
PoolStep   == Decide \/ WaveSettled
WriterStep(s) == Ask(s) \/ List(s) \/ Claim(s) \/ NothingToClaim(s) \/ Brief(s)
Evidence   == {"none", "unstarted", "damaged", "failed", "completed"}
LaneExits(s)  == \E e \in Evidence : Exits(s, e)
LaneSettles(s) == \E rules \in BOOLEAN : Settle(s, rules)

Next == \/ MainStep \/ PoolStep \/ Narrows \/ Abort
        \/ \E s \in Slots : \/ WriterStep(s) \/ ModelReads(s) \/ LaneExits(s)
                            \/ LaneSettles(s) \/ LaneCut(s)

Spec == Init /\ [][Next]_vars

(***************************************************************************)
(* main(), the loop and a writer go on; a container exits, for it is       *)
(* wrapped in its window.  No model need ever read a brief, and no run     *)
(* need ever be cut.                                                       *)
(***************************************************************************)
Fairness == /\ WF_vars(MainStep) /\ WF_vars(PoolStep)
            /\ \A s \in Slots : /\ WF_vars(WriterStep(s)) /\ WF_vars(LaneExits(s))
                                /\ WF_vars(LaneSettles(s))

FairSpec == Spec /\ Fairness

-----------------------------------------------------------------------------
(* Properties *)

\* Every variable has its type; a wave is never launched beyond the retries a group
\* is allowed.
TypeOK ==
  /\ phase \in {"reviewing", "publishing", "frozen"}
  /\ unpublished \subseteq Groups /\ pending \subseteq Groups
  /\ pool \in {"deciding", "running", "done"} /\ wave \in 0..Waves
  /\ refusal \in {"none", "waves", "window"}
  /\ lane \in [Slots -> Lane]
  /\ narrow \in BOOLEAN /\ aborted \in BOOLEAN /\ reviewed \in BOOLEAN
  /\ statuses \subseteq {"completed", "not_run", "cancelled", "failed"}
  /\ verdicts \subseteq Groups /\ final \in {"none", "completed", "partial"}
  /\ {claimed, failed, lost, late} \subseteq SUBSET Groups
  /\ reads \in [Groups -> Nat] /\ blind \in 0..MaxBlind

\* A group belongs to one lane, or waits in the queue, never both: two lanes that
\* listed the same name do not share it, and a claim handed back is nobody's
\* (claimQueue).
ClaimIsExclusive ==
  \A s \in Slots : lane[s].claim # 0 =>
    /\ lane[s].claim \notin pending
    /\ \A t \in Slots \ {s} : lane[t].claim # lane[s].claim

\* No group is read by two models, unless the first one's receipt missed it: a
\* claim is handed back only by a lane whose receipt shows no request, never by
\* one whose receipt is damaged (runPoolLane, neverReachedModel).
ReadOnce == \A g \in Groups : reads[g] > 1 => g \in lost

\* A lane is told there is nothing left for it only when every group was claimed
\* at some time: the frozen flag is read before the queue is, so no lane ends on
\* an empty queue that is still being filled (nextVerifierBrief).
NullBriefIsFinal ==
  (\E s \in Slots : lane[s].brief = "null") => unpublished = {} /\ pending \subseteq claimed

\* A run that completed has a verdict on every candidate (swarmStatus).  Of a run
\* that was not aborted, and whose pool refused no wave, a group left without one was
\* failed by the lane that had it, or was written to the queue after the pool loop
\* had counted an empty one and ended (runPoolLane, verifierWavePlan, poolRun): a
\* claim that was handed back is never what is left.
GroupsAccounted ==
  /\ final = "completed" => Published \subseteq verdicts
  /\ (final # "none" /\ ~aborted /\ refusal = "none") => Unruled \subseteq failed \union late

\* The pool ends and the run reports its status, whatever its lanes do.
RunEnds == <>(final # "none")
===============================================================================
