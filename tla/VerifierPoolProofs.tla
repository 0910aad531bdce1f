-------------------------- MODULE VerifierPoolProofs --------------------------
(***************************************************************************)
(* Proofs about VerifierPool: its types, that a claim belongs to one lane, *)
(* that a lane sent home was not sent home early, that no group is read    *)
(* twice unless the first reading went unrecorded, and that none is        *)
(* forgotten.                                                              *)
(*                                                                         *)
(* QueueInv says where a group may be.  It has to name unpublished: a      *)
(* group not yet written cannot be claimed, so writing it gives no lane's  *)
(* claim back to the queue.  SeenInv carries what a lane saw when it asked *)
(* to the step at which it is sent home: a lane that asked when the set    *)
(* was frozen has listed every group that nobody had claimed.  ReadInv     *)
(* ties a reading to the lane that shows it, as long as it has the claim:  *)
(* Briefed, that such a lane has one, comes with the types.  AccountInv    *)
(* says where a claimed group is until the pool has ended, and that a pool *)
(* that ended by itself saw an empty queue: what waits in it came late.    *)
(***************************************************************************)
EXTENDS VerifierPool, FiniteSetTheorems, TLAPS

Briefed(l) ==
  (l.brief = "claim" \/ l.reached \/ l.writer = "briefing") => l.claim # 0

TypeInv == TypeOK /\ \A s \in Slots : Briefed(lane[s])

QueueInv ==
  /\ phase = "reviewing" => unpublished = {} /\ pending = {} /\ claimed = {}
  /\ phase = "frozen" => unpublished = {}
  /\ unpublished \intersect (pending \union claimed) = {}
  /\ \A s \in Slots : lane[s].claim # 0 => lane[s].claim \in claimed
  /\ ClaimIsExclusive

Seen(l) ==
  /\ l.frozen => phase = "frozen"
  /\ (l.writer = "claiming" /\ l.frozen) => pending \subseteq l.names \union claimed
  /\ l.brief = "null" => phase = "frozen" /\ pending \subseteq claimed

SeenInv == \A s \in Slots : Seen(lane[s])

\* A group that a model read, and whose reading was recorded, is not in the queue,
\* and the lane that has it, if one still does, shows that it was read.
Recorded(g) ==
  /\ reads[g] > 0 => g \in claimed
  /\ g \notin lost => reads[g] <= 1
  /\ (g \notin lost /\ reads[g] = 1) =>
       /\ g \notin pending
       /\ \A s \in Slots : lane[s].claim = g => lane[s].reached /\ ~NeverReachedModel(lane[s])

ReadInv == \A g \in Groups : Recorded(g)

-----------------------------------------------------------------------------
(* Types *)

\* One lane changes, keeping its type and what Briefed says of it.
LEMMA OneLane ==
  ASSUME TypeInv, NEW s \in Slots, NEW l \in Lane, Briefed(l), Becomes(s, l)
  PROVE  lane' \in [Slots -> Lane] /\ \A t \in Slots : Briefed(lane'[t])
<1>1. lane \in [Slots -> Lane] /\ \A t \in Slots : Briefed(lane[t])
  BY DEF TypeInv, TypeOK
<1>2. lane' \in [Slots -> Lane]
  BY <1>1 DEF Becomes
<1>3. ASSUME NEW t \in Slots PROVE Briefed(lane'[t])
  <2>1. CASE t = s
    BY <1>1, <2>1 DEF Becomes
  <2>2. CASE t # s
    <3>1. lane'[t] = lane[t]
      BY <1>1, <2>2 DEF Becomes
    <3> QED BY <1>1, <3>1
  <2> QED BY <2>1, <2>2
<1> QED BY <1>2, <1>3

LEMMA OffType == Off \in Lane /\ Fresh \in Lane /\ Briefed(Off) /\ Briefed(Fresh)
BY DEF Lane, Off, Fresh, Briefed

LEMMA AskLane ==
  ASSUME TypeInv, NEW s \in Slots, Ask(s)
  PROVE  lane' \in [Slots -> Lane] /\ \A t \in Slots : Briefed(lane'[t])
<1> DEFINE quit == [lane[s] EXCEPT !.writer = "done"]
           go   == [lane[s] EXCEPT !.writer = "listing", !.frozen = (phase = "frozen")]
<1>1. lane[s] \in Lane /\ Briefed(lane[s]) /\ lane[s].writer = "asking"
  BY DEF TypeInv, TypeOK, Ask, Writer
<1>2. quit \in Lane /\ Briefed(quit)
  BY <1>1 DEF Lane, Briefed
<1>3. go \in Lane /\ Briefed(go)
  BY <1>1 DEF Lane, Briefed
<1>4. CASE aborted \/ lane[s].cut
  <2>1. Becomes(s, quit)
    BY <1>4 DEF Ask
  <2> QED BY <1>2, <2>1, OneLane
<1>5. CASE ~(aborted \/ lane[s].cut)
  <2>1. Becomes(s, go)
    BY <1>5 DEF Ask
  <2> QED BY <1>3, <2>1, OneLane
<1> QED BY <1>4, <1>5

LEMMA ListLane ==
  ASSUME TypeInv, NEW s \in Slots, List(s)
  PROVE  lane' \in [Slots -> Lane] /\ \A t \in Slots : Briefed(lane'[t])
<1> DEFINE l == [lane[s] EXCEPT !.writer = "claiming", !.names = pending]
<1>1. lane[s] \in Lane /\ Briefed(lane[s]) /\ pending \in SUBSET Groups
  BY DEF TypeInv, TypeOK
<1>2. l \in Lane /\ Briefed(l)
  BY <1>1 DEF Lane, Briefed
<1> QED BY <1>2, OneLane DEF List

LEMMA ClaimLane ==
  ASSUME TypeInv, NEW s \in Slots, Claim(s)
  PROVE  /\ lane' \in [Slots -> Lane] /\ \A t \in Slots : Briefed(lane'[t])
         /\ pending' \subseteq Groups /\ claimed' \subseteq Groups
<1>1. lane[s] \in Lane /\ Briefed(lane[s]) /\ lane[s].writer = "claiming"
  BY DEF TypeInv, TypeOK, Claim, Writer
<1>2. PICK g \in First(lane[s].names) :
        IF Won(g)
        THEN /\ pending' = pending \ {g}
             /\ claimed' = claimed \union {g}
             /\ Becomes(s, [lane[s] EXCEPT !.writer = "briefing", !.claim = g, !.names = {}])
        ELSE /\ Becomes(s, [lane[s] EXCEPT !.names = @ \ {g}])
             /\ UNCHANGED <<pending, claimed>>
  BY DEF Claim
<1> DEFINE won  == [lane[s] EXCEPT !.writer = "briefing", !.claim = g, !.names = {}]
           next == [lane[s] EXCEPT !.names = @ \ {g}]
<1>3. g \in Groups /\ g # 0
  BY <1>1 DEF First, Lane, Groups
<1>4. won \in Lane /\ Briefed(won)
  BY <1>1, <1>3 DEF Lane, Briefed
<1>5. next \in Lane /\ Briefed(next)
  BY <1>1 DEF Lane, Briefed
<1>6. pending \subseteq Groups /\ claimed \subseteq Groups
  BY DEF TypeInv, TypeOK
<1>7. CASE Won(g)
  <2>1. Becomes(s, won)
    BY <1>2, <1>7
  <2>2. pending' \subseteq Groups /\ claimed' \subseteq Groups
    BY <1>2, <1>3, <1>6, <1>7
  <2> QED BY <1>4, <2>1, <2>2, OneLane
<1>8. CASE ~Won(g)
  <2>1. Becomes(s, next)
    BY <1>2, <1>8
  <2>2. pending' \subseteq Groups /\ claimed' \subseteq Groups
    BY <1>2, <1>6, <1>8
  <2> QED BY <1>5, <2>1, <2>2, OneLane
<1> QED BY <1>7, <1>8

LEMMA NothingLane ==
  ASSUME TypeInv, NEW s \in Slots, NothingToClaim(s)
  PROVE  lane' \in [Slots -> Lane] /\ \A t \in Slots : Briefed(lane'[t])
<1> DEFINE home == [lane[s] EXCEPT !.writer = "done", !.brief = "null"]
           wait == [lane[s] EXCEPT !.writer = "asking"]
<1>1. lane[s] \in Lane /\ Briefed(lane[s])
  BY DEF TypeInv, TypeOK
<1>2. home \in Lane /\ Briefed(home)
  BY <1>1 DEF Lane, Briefed
<1>3. wait \in Lane /\ Briefed(wait)
  BY <1>1 DEF Lane, Briefed
<1>4. Becomes(s, home) \/ Becomes(s, wait)
  BY DEF NothingToClaim
<1> QED BY <1>2, <1>3, <1>4, OneLane

LEMMA BriefLane ==
  ASSUME TypeInv, NEW s \in Slots, Brief(s)
  PROVE  lane' \in [Slots -> Lane] /\ \A t \in Slots : Briefed(lane'[t])
<1> DEFINE l == [lane[s] EXCEPT !.writer = "done", !.brief = "claim"]
<1>1. lane[s] \in Lane /\ Briefed(lane[s]) /\ lane[s].writer = "briefing"
  BY DEF TypeInv, TypeOK, Brief, Writer
<1>2. l \in Lane /\ Briefed(l)
  BY <1>1 DEF Lane, Briefed
<1> QED BY <1>2, OneLane DEF Brief

LEMMA ReadsLane ==
  ASSUME TypeInv, NEW s \in Slots, ModelReads(s)
  PROVE  /\ lane' \in [Slots -> Lane] /\ \A t \in Slots : Briefed(lane'[t])
         /\ lane[s].claim \in Groups
<1> DEFINE l == [lane[s] EXCEPT !.reached = TRUE]
<1>1. lane[s] \in Lane /\ Briefed(lane[s]) /\ lane[s].brief = "claim"
  BY DEF TypeInv, TypeOK, ModelReads
<1>2. l \in Lane /\ Briefed(l) /\ lane[s].claim \in Groups
  BY <1>1 DEF Lane, Briefed
<1> QED BY <1>2, OneLane DEF ModelReads

LEMMA ExitsLane ==
  ASSUME TypeInv, NEW s \in Slots, NEW e \in Evidence, Exits(s, e)
  PROVE  /\ lane' \in [Slots -> Lane] /\ \A t \in Slots : Briefed(lane'[t])
         /\ lane[s].reached => lane[s].claim \in Groups
<1> DEFINE l == [lane[s] EXCEPT !.exited = e]
<1>1. lane[s] \in Lane /\ Briefed(lane[s])
  BY DEF TypeInv, TypeOK
<1>2. l \in Lane /\ Briefed(l) /\ (lane[s].reached => lane[s].claim \in Groups)
  BY <1>1 DEF Lane, Briefed, Evidence
<1> QED BY <1>2, OneLane DEF Exits

LEMMA CutLane ==
  ASSUME TypeInv, NEW s \in Slots, LaneCut(s)
  PROVE  lane' \in [Slots -> Lane] /\ \A t \in Slots : Briefed(lane'[t])
<1> DEFINE l == [lane[s] EXCEPT !.cut = TRUE]
<1>1. lane[s] \in Lane /\ Briefed(lane[s])
  BY DEF TypeInv, TypeOK
<1>2. l \in Lane /\ Briefed(l)
  BY <1>1 DEF Lane, Briefed
<1> QED BY <1>2, OneLane DEF LaneCut

LEMMA DecideLanes ==
  ASSUME TypeInv, Decide
  PROVE  /\ lane' \in [Slots -> Lane] /\ \A t \in Slots : Briefed(lane'[t])
         /\ wave' \in 0..Waves
<1>1. lane \in [Slots -> Lane] /\ (\A t \in Slots : Briefed(lane[t])) /\ wave \in 0..Waves
  BY DEF TypeInv, TypeOK
<1>2. Waves \in Nat /\ Waves >= 1
  BY PoolAssumption DEF Waves
<1>3. CASE UNCHANGED <<wave, lane>>
  BY <1>1, <1>3
<1>4. ASSUME NEW left, wave' = wave + 1, wave = 0 \/ ~WavesSpent(left),
             lane' = [s \in Slots |-> IF s <= left THEN Fresh ELSE Off]
      PROVE  /\ lane' \in [Slots -> Lane] /\ \A t \in Slots : Briefed(lane'[t])
             /\ wave' \in 0..Waves
  <2>1. wave' \in 0..Waves
    BY <1>1, <1>2, <1>4 DEF WavesSpent
  <2>2. \A t \in Slots : lane'[t] \in {Fresh, Off}
    BY <1>4
  <2>3. lane' \in [Slots -> Lane]
    BY <1>4, OffType
  <2> QED BY <2>1, <2>2, <2>3, OffType
<1> DEFINE left == IF wave = 0 THEN PoolLanes ELSE Cardinality(pending)
<1>5. CASE aborted
  BY <1>3, <1>5 DEF Decide
<1>6. CASE ~aborted /\ wave > 0 /\ (left = 0 \/ WavesSpent(left) \/ narrow)
  BY <1>3, <1>6 DEF Decide
<1>7. CASE ~aborted /\ ~(wave > 0 /\ (left = 0 \/ WavesSpent(left) \/ narrow))
  <2>1. wave' = wave + 1 /\ lane' = [s \in Slots |-> IF s <= left THEN Fresh ELSE Off]
    BY <1>7 DEF Decide
  <2>2. wave = 0 \/ ~WavesSpent(left)
    BY <1>1, <1>2, <1>7
  <2> QED BY <1>4, <2>1, <2>2
<1> QED BY <1>5, <1>6, <1>7

LEMMA TypeInit == Init => TypeInv
<1> SUFFICES ASSUME Init PROVE TypeInv
  OBVIOUS
<1>1. 0 \in 0..Waves /\ 0 \in 0..MaxBlind
  BY PoolAssumption DEF Waves
<1>2. lane \in [Slots -> Lane] /\ \A s \in Slots : Briefed(lane[s])
  BY OffType DEF Init
<1>3. TypeOK
  BY <1>1, <1>2 DEF Init, TypeOK
<1> QED BY <1>2, <1>3 DEF TypeInv

LEMMA TypeStep == TypeInv /\ [Next]_vars => TypeInv'
<1> SUFFICES ASSUME TypeInv, [Next]_vars PROVE TypeInv'
  OBVIOUS
<1> USE DEF queue, loop, run, results, history
<1>1. CASE ReviewersSettle
  <2>1. PICK n \in 0..MaxGroups : unpublished' = 1..n
    BY <1>1 DEF ReviewersSettle
  <2>2. 1..n \subseteq Groups
    BY PoolAssumption DEF Groups
  <2> QED BY <1>1, <2>1, <2>2 DEF ReviewersSettle, TypeInv, TypeOK
<1>2. CASE Publish
  BY <1>2 DEF Publish, TypeInv, TypeOK, First
<1>3. CASE Freeze
  BY <1>3 DEF Freeze, TypeInv, TypeOK
<1>4. CASE Finish
  <2>1. SwarmStatus \in {"completed", "partial"}
    BY DEF SwarmStatus
  <2> QED BY <1>4, <2>1 DEF Finish, TypeInv, TypeOK
<1>5. CASE Decide
  BY <1>5, DecideLanes DEF Decide, TypeInv, TypeOK
<1>6. CASE WaveSettled
  BY <1>6 DEF WaveSettled, TypeInv, TypeOK
<1>7. CASE Narrows \/ Abort
  BY <1>7 DEF Narrows, Abort, TypeInv, TypeOK
<1>8. ASSUME NEW s \in Slots, WriterStep(s) PROVE TypeInv'
  <2>1. CASE Ask(s)
    BY <2>1, AskLane DEF Ask, TypeInv, TypeOK
  <2>2. CASE List(s)
    BY <2>2, ListLane DEF List, TypeInv, TypeOK
  <2>3. CASE Claim(s)
    BY <2>3, ClaimLane DEF Claim, TypeInv, TypeOK
  <2>4. CASE NothingToClaim(s)
    BY <2>4, NothingLane DEF NothingToClaim, TypeInv, TypeOK
  <2>5. CASE Brief(s)
    BY <2>5, BriefLane DEF Brief, TypeInv, TypeOK
  <2> QED BY <1>8, <2>1, <2>2, <2>3, <2>4, <2>5 DEF WriterStep
<1>9. ASSUME NEW s \in Slots, ModelReads(s) PROVE TypeInv'
  <2>1. lane[s].claim \in Groups /\ reads \in [Groups -> Nat]
    BY <1>9, ReadsLane DEF TypeInv, TypeOK
  <2>2. reads' = [reads EXCEPT ![lane[s].claim] = @ + 1]
    BY <1>9 DEF ModelReads
  <2>3. reads' \in [Groups -> Nat]
    BY <2>1, <2>2
  <2> QED BY <1>9, <2>3, ReadsLane DEF ModelReads, TypeInv, TypeOK
<1>10. ASSUME NEW s \in Slots, NEW e \in Evidence, Exits(s, e) PROVE TypeInv'
  <2>1. lost' \subseteq Groups /\ blind' \in 0..MaxBlind
    BY <1>10, ExitsLane, PoolAssumption DEF Exits, TypeInv, TypeOK
  <2> QED BY <1>10, <2>1, ExitsLane DEF Exits, TypeInv, TypeOK
<1>11. ASSUME NEW s \in Slots, LaneCut(s) PROVE TypeInv'
  BY <1>11, CutLane DEF LaneCut, TypeInv, TypeOK
<1>12. ASSUME NEW s \in Slots, NEW rules \in BOOLEAN, Settle(s, rules) PROVE TypeInv'
  <2>1. lane' \in [Slots -> Lane] /\ \A t \in Slots : Briefed(lane'[t])
    BY <1>12, OneLane, OffType DEF Settle
  <2>2. lane[s].claim \in Groups \union {0}
    BY DEF TypeInv, TypeOK, Lane
  <2>3. pending' \subseteq Groups
    BY <1>12, <2>2 DEF Settle, PutBack, TypeInv, TypeOK
  <2>4. statuses' \subseteq {"completed", "not_run", "cancelled", "failed"}
    BY <1>12 DEF Settle, TypeInv, TypeOK
  <2>5. verdicts' \subseteq Groups /\ failed' \subseteq Groups
    BY <1>12, <2>2 DEF Settle, TypeInv, TypeOK
  <2> QED BY <1>12, <2>1, <2>3, <2>4, <2>5 DEF Settle, TypeInv, TypeOK
<1>13. CASE UNCHANGED vars
  BY <1>13 DEF vars, TypeInv, TypeOK
<1> QED
  BY <1>1, <1>2, <1>3, <1>4, <1>5, <1>6, <1>7, <1>8, <1>9, <1>10, <1>11, <1>12, <1>13
  DEF Next, MainStep, PoolStep, LaneExits, LaneSettles

\* Every variable keeps its type, and no wave is launched beyond the retries a
\* group is allowed (verifierWavePlan).
THEOREM PoolTypes == Spec => []TypeOK
<1>1. TypeInv => TypeOK
  BY DEF TypeInv
<1> QED BY <1>1, TypeInit, TypeStep, PTL DEF Spec

-----------------------------------------------------------------------------
(* Where a group is *)

\* A step of one lane that leaves its claim, and the queue, as they were.
LEMMA ClaimKept ==
  ASSUME TypeInv, QueueInv, NEW s \in Slots, NEW l, l.claim = lane[s].claim,
         Becomes(s, l), UNCHANGED <<queue, claimed>>
  PROVE  QueueInv'
<1>1. lane \in [Slots -> Lane]
  BY DEF TypeInv, TypeOK
<1>2. \A t \in Slots : lane'[t].claim = lane[t].claim
  BY <1>1 DEF Becomes
<1>3. UNCHANGED <<phase, unpublished, pending, claimed>>
  BY DEF queue
<1> QED BY <1>2, <1>3 DEF QueueInv, ClaimIsExclusive

LEMMA ClaimQueue ==
  ASSUME TypeInv, QueueInv, NEW s \in Slots, Claim(s)
  PROVE  QueueInv'
<1>1. lane \in [Slots -> Lane] /\ UNCHANGED <<phase, unpublished>>
  BY DEF TypeInv, TypeOK, Claim
<1>2. PICK g \in First(lane[s].names) :
        IF Won(g)
        THEN /\ pending' = pending \ {g}
             /\ claimed' = claimed \union {g}
             /\ Becomes(s, [lane[s] EXCEPT !.writer = "briefing", !.claim = g, !.names = {}])
        ELSE /\ Becomes(s, [lane[s] EXCEPT !.names = @ \ {g}])
             /\ UNCHANGED <<pending, claimed>>
  BY DEF Claim
<1>3. CASE ~Won(g)
  <2>1. \A t \in Slots : lane'[t].claim = lane[t].claim
    BY <1>1, <1>2, <1>3 DEF Becomes, Lane
  <2> QED BY <1>1, <1>2, <1>3, <2>1 DEF QueueInv, ClaimIsExclusive
<1>4. CASE Won(g)
  <2>1. /\ lane'[s].claim = g
        /\ \A t \in Slots \ {s} : lane'[t].claim = lane[t].claim
    BY <1>1, <1>2, <1>4 DEF Becomes, Lane
  <2>2. g \in pending /\ pending' = pending \ {g} /\ claimed' = claimed \union {g}
    BY <1>2, <1>4 DEF Won
  <2>3. \A t \in Slots : lane[t].claim # g
    BY <2>2 DEF QueueInv, ClaimIsExclusive, First, Groups, TypeInv, TypeOK
  <2>4. ClaimIsExclusive'
    BY <2>1, <2>2, <2>3 DEF QueueInv, ClaimIsExclusive
  <2>5. \A t \in Slots : lane'[t].claim # 0 => lane'[t].claim \in claimed'
    BY <2>1, <2>2 DEF QueueInv
  <2>6. phase # "reviewing"
    BY <2>2 DEF QueueInv
  <2> QED BY <1>1, <2>2, <2>4, <2>5, <2>6 DEF QueueInv
<1> QED BY <1>3, <1>4

LEMMA SettleQueue ==
  ASSUME TypeInv, QueueInv, NEW s \in Slots, NEW rules \in BOOLEAN, Settle(s, rules)
  PROVE  QueueInv'
<1>1. /\ lane \in [Slots -> Lane] /\ UNCHANGED <<phase, unpublished, claimed>>
      /\ Becomes(s, Off)
      /\ \/ pending' = pending
         \/ lane[s].claim # 0 /\ pending' = pending \union {lane[s].claim}
  BY DEF TypeInv, TypeOK, Settle, PutBack
<1>2. /\ lane'[s].claim = 0
      /\ \A t \in Slots \ {s} : lane'[t].claim = lane[t].claim
  BY <1>1 DEF Becomes, Off
<1>3. \A t \in Slots \ {s} : lane[s].claim # 0 => lane[t].claim # lane[s].claim
  BY DEF QueueInv, ClaimIsExclusive
<1>4. ClaimIsExclusive'
  BY <1>1, <1>2, <1>3 DEF QueueInv, ClaimIsExclusive
<1>5. lane[s].claim # 0 => lane[s].claim \in claimed /\ phase # "reviewing"
  BY DEF QueueInv
<1> QED BY <1>1, <1>2, <1>4, <1>5 DEF QueueInv

LEMMA QueueStep == TypeInv /\ QueueInv /\ [Next]_vars => QueueInv'
<1> SUFFICES ASSUME TypeInv, QueueInv, [Next]_vars PROVE QueueInv'
  OBVIOUS
<1> USE DEF queue, history
<1>1. CASE ReviewersSettle
  BY <1>1 DEF ReviewersSettle, QueueInv, ClaimIsExclusive
<1>2. CASE Publish
  <2>1. PICK g \in First(unpublished) : /\ pending' = pending \union {g}
                                        /\ unpublished' = unpublished \ {g}
    BY <1>2 DEF Publish
  <2>2. UNCHANGED <<phase, claimed, lane>> /\ phase = "publishing"
    BY <1>2 DEF Publish
  <2>3. g \in unpublished /\ g \notin claimed
    BY DEF First, QueueInv
  <2>4. \A s \in Slots : lane[s].claim # 0 => lane[s].claim # g
    BY <2>3 DEF QueueInv
  <2>5. ClaimIsExclusive'
    BY <2>1, <2>2, <2>4 DEF QueueInv, ClaimIsExclusive
  <2> QED BY <2>1, <2>2, <2>3, <2>5 DEF QueueInv
<1>3. CASE Freeze
  BY <1>3 DEF Freeze, QueueInv, ClaimIsExclusive
<1>4. CASE Decide
  <2>1. UNCHANGED <<queue, claimed>>
    BY <1>4 DEF Decide
  <2>2. lane' = lane \/ \A s \in Slots : lane'[s].claim = 0
    <3>1. \A left : \A s \in Slots :
            [t \in Slots |-> IF t <= left THEN Fresh ELSE Off][s].claim = 0
      BY DEF Fresh, Off
    <3> QED BY <1>4, <3>1 DEF Decide
  <2> QED BY <2>1, <2>2 DEF QueueInv, ClaimIsExclusive
<1>5. CASE Finish \/ WaveSettled \/ Narrows \/ Abort
  BY <1>5 DEF Finish, WaveSettled, Narrows, Abort, QueueInv, ClaimIsExclusive
<1>6. ASSUME NEW s \in Slots, WriterStep(s) PROVE QueueInv'
  <2>0. lane[s] \in Lane
    BY DEF TypeInv, TypeOK
  <2>1. CASE Ask(s)
    <3> DEFINE quit == [lane[s] EXCEPT !.writer = "done"]
               go   == [lane[s] EXCEPT !.writer = "listing", !.frozen = (phase = "frozen")]
    <3>1. quit.claim = lane[s].claim /\ go.claim = lane[s].claim
      BY <2>0 DEF Lane
    <3>2. Becomes(s, quit) \/ Becomes(s, go)
      BY <2>1 DEF Ask
    <3>3. UNCHANGED <<queue, claimed>>
      BY <2>1 DEF Ask
    <3> HIDE DEF quit, go
    <3> QED BY <3>1, <3>2, <3>3, ClaimKept
  <2>2. CASE List(s)
    BY <2>0, <2>2, ClaimKept DEF List, Lane
  <2>3. CASE Claim(s)
    BY <2>3, ClaimQueue
  <2>4. CASE NothingToClaim(s)
    <3>1. PICK l : l.claim = lane[s].claim /\ Becomes(s, l)
      BY <2>0, <2>4 DEF NothingToClaim, Lane
    <3> QED BY <2>4, <3>1, ClaimKept DEF NothingToClaim
  <2>5. CASE Brief(s)
    BY <2>0, <2>5, ClaimKept DEF Brief, Lane
  <2> QED BY <1>6, <2>1, <2>2, <2>3, <2>4, <2>5 DEF WriterStep
<1>7. ASSUME NEW s \in Slots, ModelReads(s) \/ LaneExits(s) \/ LaneCut(s) PROVE QueueInv'
  <2>0. lane[s] \in Lane
    BY DEF TypeInv, TypeOK
  <2>1. PICK l : l.claim = lane[s].claim /\ Becomes(s, l)
    <3>1. \A e : [lane[s] EXCEPT !.exited = e].claim = lane[s].claim
      BY <2>0 DEF Lane
    <3>2. /\ [lane[s] EXCEPT !.reached = TRUE].claim = lane[s].claim
          /\ [lane[s] EXCEPT !.cut = TRUE].claim = lane[s].claim
      BY <2>0 DEF Lane
    <3> QED BY <1>7, <3>1, <3>2 DEF ModelReads, LaneExits, Exits, LaneCut
  <2>2. UNCHANGED <<queue, claimed>>
    BY <1>7 DEF ModelReads, LaneExits, Exits, LaneCut
  <2> QED BY <2>1, <2>2, ClaimKept
<1>8. ASSUME NEW s \in Slots, LaneSettles(s) PROVE QueueInv'
  BY <1>8, SettleQueue DEF LaneSettles
<1>9. CASE UNCHANGED vars
  BY <1>9 DEF vars, QueueInv, ClaimIsExclusive
<1> QED
  BY <1>1, <1>2, <1>3, <1>4, <1>5, <1>6, <1>7, <1>8, <1>9 DEF Next, MainStep, PoolStep

\* A group of candidates belongs to one lane, or waits in the queue, never both: no
\* interleaving of publishing, listing, renaming and handing back gives it to two
\* (claimQueue).
THEOREM ClaimsExclusive == Spec => []ClaimIsExclusive
<1>1. Init => QueueInv
  <2>1. Off.claim = 0
    BY DEF Off
  <2> QED BY <2>1 DEF Init, QueueInv, ClaimIsExclusive
<1>2. QueueInv => ClaimIsExclusive
  BY DEF QueueInv
<1> QED BY <1>1, <1>2, TypeInit, TypeStep, QueueStep, PTL DEF Spec

-----------------------------------------------------------------------------
(* What a lane saw *)

\* A step of one lane that adds to the queue only what was claimed before.
LEMMA SeenKept ==
  ASSUME TypeInv, SeenInv, NEW s \in Slots, NEW l, Becomes(s, l),
         phase' = phase, pending' \subseteq pending \union claimed, claimed \subseteq claimed',
         (l.writer = "claiming" /\ l.frozen) => pending' \subseteq l.names \union claimed',
         l.frozen => phase = "frozen",
         l.brief = "null" => phase = "frozen" /\ pending \subseteq claimed
  PROVE  SeenInv'
<1>1. lane \in [Slots -> Lane]
  BY DEF TypeInv, TypeOK
<1>2. ASSUME NEW t \in Slots PROVE Seen(lane[t])'
  <2>1. CASE t = s
    <3>1. lane'[t] = l
      BY <1>1, <2>1 DEF Becomes
    <3> QED BY <3>1 DEF Seen
  <2>2. CASE t # s
    <3>1. lane'[t] = lane[t] /\ Seen(lane[t])
      BY <1>1, <2>2 DEF Becomes, SeenInv
    <3> QED BY <3>1 DEF Seen
  <2> QED BY <2>1, <2>2
<1> QED BY <1>2 DEF SeenInv

\* A step of one lane's container: what the writer saw does not change.
LEMMA SeenSame ==
  ASSUME TypeInv, SeenInv, NEW s \in Slots, NEW l, Becomes(s, l), UNCHANGED <<queue, claimed>>,
         l.frozen = lane[s].frozen, l.writer = lane[s].writer,
         l.names = lane[s].names, l.brief = lane[s].brief
  PROVE  SeenInv'
<1>1. UNCHANGED <<phase, pending>>
  BY DEF queue
<1>2. Seen(lane[s])
  BY DEF SeenInv
<1> QED BY <1>1, <1>2, SeenKept DEF Seen

LEMMA SeenStep == TypeInv /\ QueueInv /\ SeenInv /\ [Next]_vars => SeenInv'
<1> SUFFICES ASSUME TypeInv, QueueInv, SeenInv, [Next]_vars PROVE SeenInv'
  OBVIOUS
<1> USE DEF queue, history
<1>1. CASE ReviewersSettle \/ Publish \/ Freeze
  <2>1. phase # "frozen" /\ lane' = lane
    BY <1>1 DEF ReviewersSettle, Publish, Freeze
  <2> QED BY <2>1 DEF SeenInv, Seen
<1>2. CASE Decide
  <2>1. UNCHANGED <<phase, pending, claimed>>
    BY <1>2 DEF Decide
  <2>2. lane' = lane \/ \A s \in Slots : lane'[s] \in {Fresh, Off}
    <3>1. \A left : \A s \in Slots :
            [t \in Slots |-> IF t <= left THEN Fresh ELSE Off][s] \in {Fresh, Off}
      OBVIOUS
    <3> QED BY <1>2, <3>1 DEF Decide
  <2>3. /\ ~Fresh.frozen /\ Fresh.brief # "null"
        /\ ~Off.frozen /\ Off.brief # "null"
    BY DEF Fresh, Off
  <2>4. CASE lane' = lane
    BY <2>1, <2>4 DEF SeenInv, Seen
  <2>5. CASE \A s \in Slots : lane'[s] \in {Fresh, Off}
    BY <2>3, <2>5 DEF SeenInv, Seen
  <2> QED BY <2>2, <2>4, <2>5
<1>3. CASE Finish \/ WaveSettled \/ Narrows \/ Abort
  BY <1>3 DEF Finish, WaveSettled, Narrows, Abort, SeenInv, Seen
<1>4. ASSUME NEW s \in Slots, WriterStep(s) PROVE SeenInv'
  <2>0. lane[s] \in Lane /\ Seen(lane[s])
    BY DEF TypeInv, TypeOK, SeenInv
  <2>1. CASE Ask(s)
    <3> DEFINE quit == [lane[s] EXCEPT !.writer = "done"]
               go   == [lane[s] EXCEPT !.writer = "listing", !.frozen = (phase = "frozen")]
    <3>1. /\ quit.writer = "done" /\ quit.frozen = lane[s].frozen /\ quit.brief = lane[s].brief
          /\ go.writer = "listing" /\ go.frozen = (phase = "frozen") /\ go.brief = lane[s].brief
      BY <2>0 DEF Lane
    <3>2. Becomes(s, quit) \/ Becomes(s, go)
      BY <2>1 DEF Ask
    <3>3. UNCHANGED <<phase, pending, claimed>>
      BY <2>1 DEF Ask
    <3> HIDE DEF quit, go
    <3>4. CASE Becomes(s, quit)
      BY <2>0, <3>1, <3>3, <3>4, SeenKept DEF Seen
    <3>5. CASE Becomes(s, go)
      BY <2>0, <3>1, <3>3, <3>5, SeenKept DEF Seen
    <3> QED BY <3>2, <3>4, <3>5
  <2>2. CASE List(s)
    <3> DEFINE l == [lane[s] EXCEPT !.writer = "claiming", !.names = pending]
    <3>1. l.names = pending /\ l.frozen = lane[s].frozen /\ l.brief = lane[s].brief
      BY <2>0 DEF Lane
    <3>2. Becomes(s, l) /\ UNCHANGED <<phase, pending, claimed>>
      BY <2>2 DEF List
    <3> HIDE DEF l
    <3> QED BY <2>0, <3>1, <3>2, SeenKept DEF Seen
  <2>3. CASE Claim(s)
    <3> DEFINE won(g)  == [lane[s] EXCEPT !.writer = "briefing", !.claim = g, !.names = {}]
               next(g) == [lane[s] EXCEPT !.names = @ \ {g}]
    <3>1. PICK g \in First(lane[s].names) :
            IF Won(g)
            THEN /\ pending' = pending \ {g}
                 /\ claimed' = claimed \union {g}
                 /\ Becomes(s, won(g))
            ELSE /\ Becomes(s, next(g))
                 /\ UNCHANGED <<pending, claimed>>
      BY <2>3 DEF Claim
    <3>2. /\ won(g).writer = "briefing" /\ won(g).frozen = lane[s].frozen
          /\ won(g).brief = lane[s].brief
          /\ next(g).writer = lane[s].writer /\ next(g).frozen = lane[s].frozen
          /\ next(g).brief = lane[s].brief /\ next(g).names = lane[s].names \ {g}
      BY <2>0 DEF Lane
    <3>3. UNCHANGED phase
      BY <2>3 DEF Claim
    <3> HIDE DEF won, next
    <3>4. CASE Won(g)
      BY <2>0, <3>1, <3>2, <3>3, <3>4, SeenKept DEF Seen
    <3>5. CASE ~Won(g)
      BY <2>0, <3>1, <3>2, <3>3, <3>5, SeenKept DEF Seen, Won
    <3> QED BY <3>4, <3>5
  <2>4. CASE NothingToClaim(s)
    <3> DEFINE home == [lane[s] EXCEPT !.writer = "done", !.brief = "null"]
               wait == [lane[s] EXCEPT !.writer = "asking"]
    <3>1. /\ home.writer = "done" /\ home.frozen = lane[s].frozen
          /\ wait.writer = "asking" /\ wait.frozen = lane[s].frozen
          /\ wait.brief = lane[s].brief
      BY <2>0 DEF Lane
    <3>2. /\ IF Settled(s) THEN Becomes(s, home) ELSE Becomes(s, wait)
          /\ UNCHANGED <<phase, pending, claimed>>
          /\ lane[s].writer = "claiming" /\ lane[s].names = {}
      BY <2>4 DEF NothingToClaim, Writer
    <3> HIDE DEF home, wait
    <3>3. CASE Settled(s)
      <4>1. phase = "frozen" /\ pending \subseteq claimed
        BY <2>0, <3>2, <3>3 DEF Settled, Seen
      <4> QED BY <3>1, <3>2, <3>3, <4>1, SeenKept
    <3>4. CASE ~Settled(s)
      BY <2>0, <3>1, <3>2, <3>4, SeenKept DEF Seen
    <3> QED BY <3>3, <3>4
  <2>5. CASE Brief(s)
    <3> DEFINE l == [lane[s] EXCEPT !.writer = "done", !.brief = "claim"]
    <3>1. l.writer = "done" /\ l.frozen = lane[s].frozen /\ l.brief = "claim"
      BY <2>0 DEF Lane
    <3>2. Becomes(s, l) /\ UNCHANGED <<phase, pending, claimed>>
      BY <2>5 DEF Brief
    <3> HIDE DEF l
    <3> QED BY <2>0, <3>1, <3>2, SeenKept DEF Seen
  <2> QED BY <1>4, <2>1, <2>2, <2>3, <2>4, <2>5 DEF WriterStep
<1>5. ASSUME NEW s \in Slots, ModelReads(s) \/ LaneExits(s) \/ LaneCut(s) PROVE SeenInv'
  <2>0. lane[s] \in Lane
    BY DEF TypeInv, TypeOK
  <2>1. PICK l : /\ l.frozen = lane[s].frozen /\ l.writer = lane[s].writer
                 /\ l.names = lane[s].names /\ l.brief = lane[s].brief
                 /\ Becomes(s, l)
    <3> DEFINE out(e) == [lane[s] EXCEPT !.exited = e]
               read == [lane[s] EXCEPT !.reached = TRUE]
               cut == [lane[s] EXCEPT !.cut = TRUE]
    <3>1. \A e : /\ out(e).frozen = lane[s].frozen /\ out(e).writer = lane[s].writer
                 /\ out(e).names = lane[s].names /\ out(e).brief = lane[s].brief
      BY <2>0 DEF Lane
    <3>2. /\ read.frozen = lane[s].frozen /\ read.writer = lane[s].writer
          /\ read.names = lane[s].names /\ read.brief = lane[s].brief
      BY <2>0 DEF Lane
    <3>3. /\ cut.frozen = lane[s].frozen /\ cut.writer = lane[s].writer
          /\ cut.names = lane[s].names /\ cut.brief = lane[s].brief
      BY <2>0 DEF Lane
    <3>4. (\E e : Becomes(s, out(e))) \/ Becomes(s, read) \/ Becomes(s, cut)
      BY <1>5 DEF ModelReads, LaneExits, Exits, LaneCut
    <3> HIDE DEF out, read, cut
    <3> QED BY <3>1, <3>2, <3>3, <3>4
  <2>2. UNCHANGED <<queue, claimed>>
    BY <1>5 DEF ModelReads, LaneExits, Exits, LaneCut
  <2> QED BY <2>1, <2>2, SeenSame
<1>6. ASSUME NEW s \in Slots, NEW rules \in BOOLEAN, Settle(s, rules) PROVE SeenInv'
  <2>1. UNCHANGED <<phase, claimed>> /\ Becomes(s, Off)
    BY <1>6 DEF Settle
  <2>2. pending' \subseteq pending \union claimed
    BY <1>6 DEF Settle, PutBack, QueueInv
  <2>3. ~Off.frozen /\ Off.brief # "null"
    BY DEF Off
  <2> QED BY <2>1, <2>2, <2>3, SeenKept
<1>7. CASE UNCHANGED vars
  BY <1>7 DEF vars, SeenInv, Seen
<1> QED
  BY <1>1, <1>2, <1>3, <1>4, <1>5, <1>6, <1>7 DEF Next, MainStep, PoolStep, LaneSettles

\* A lane is sent home on a null brief only when every group was claimed at some
\* time, though the flag it is told by and the queue it lists are read at different
\* moments (nextVerifierBrief).
THEOREM NullBriefsFinal == Spec => []NullBriefIsFinal
<1>1. Init => QueueInv /\ SeenInv
  <2>1. Off.claim = 0 /\ ~Off.frozen /\ Off.brief # "null"
    BY DEF Off
  <2> QED BY <2>1 DEF Init, QueueInv, ClaimIsExclusive, SeenInv, Seen
<1>2. QueueInv /\ SeenInv => NullBriefIsFinal
  BY DEF QueueInv, SeenInv, Seen, NullBriefIsFinal
<1> QED BY <1>1, <1>2, TypeInit, TypeStep, QueueStep, SeenStep, PTL DEF Spec

-----------------------------------------------------------------------------
(* How often a group is read *)

\* A step that leaves the readings alone, adds nothing to the queue that is claimed,
\* and gives no lane a claim, or takes from it what shows the reading.
LEMMA ReadKept ==
  ASSUME TypeInv, ReadInv, UNCHANGED <<reads, lost>>, claimed \subseteq claimed',
         pending' \intersect claimed \subseteq pending,
         \A s \in Slots : lane'[s].claim # 0 =>
           \/ lane'[s].claim \in pending
           \/ /\ lane'[s].claim = lane[s].claim /\ (lane[s].reached => lane'[s].reached)
              /\ (lane[s].reached /\ NeverReachedModel(lane'[s]) => NeverReachedModel(lane[s]))
  PROVE  ReadInv'
<1>1. ASSUME NEW g \in Groups PROVE Recorded(g)'
  <2>1. Recorded(g) /\ g # 0 /\ reads[g] \in Nat
    BY DEF ReadInv, Groups, TypeInv, TypeOK
  <2>2. (reads[g] > 0 => g \in claimed)' /\ (g \notin lost => reads[g] <= 1)'
    BY <2>1 DEF Recorded
  <2>3. ASSUME g \notin lost, reads[g] = 1
        PROVE  /\ g \notin pending'
               /\ \A s \in Slots : lane'[s].claim = g
                    => lane'[s].reached /\ ~NeverReachedModel(lane'[s])
    <3>1. g \notin pending /\ g \in claimed
      BY <2>1, <2>3 DEF Recorded
    <3> QED BY <2>1, <2>3, <3>1 DEF Recorded
  <2> QED BY <2>2, <2>3 DEF Recorded, NeverReachedModel
<1> QED BY <1>1 DEF ReadInv

\* A step of one lane's writer that leaves its claim as it was.
LEMMA ReadSame ==
  ASSUME TypeInv, ReadInv, NEW s \in Slots, NEW l, Becomes(s, l),
         UNCHANGED <<queue, claimed, reads, lost>>,
         l.claim = lane[s].claim, l.reached = lane[s].reached, l.exited = lane[s].exited
  PROVE  ReadInv'
<1>1. lane \in [Slots -> Lane]
  BY DEF TypeInv, TypeOK
<1>2. \A t \in Slots : /\ lane'[t].claim = lane[t].claim /\ lane'[t].reached = lane[t].reached
                       /\ lane'[t].exited = lane[t].exited
  BY <1>1 DEF Becomes
<1> QED BY <1>2, ReadKept DEF queue, NeverReachedModel

LEMMA ReadsRead ==
  ASSUME TypeInv, QueueInv, ReadInv, NEW s \in Slots, ModelReads(s)
  PROVE  ReadInv'
<1> DEFINE l == [lane[s] EXCEPT !.reached = TRUE]
           c == lane[s].claim
<1>1. /\ lane \in [Slots -> Lane] /\ lane[s] \in Lane /\ reads \in [Groups -> Nat]
      /\ lane[s].exited = "no" /\ ~lane[s].reached
      /\ UNCHANGED <<pending, claimed, lost>>
  BY DEF TypeInv, TypeOK, ModelReads, queue
<1>2. c \in Groups
  BY ReadsLane
<1>3. /\ lane'[s].claim = c /\ lane'[s].reached /\ lane'[s].exited = "no"
      /\ \A t \in Slots \ {s} : lane'[t] = lane[t]
  BY <1>1 DEF ModelReads, Becomes, Lane
<1>4. /\ reads'[c] = reads[c] + 1
      /\ \A g \in Groups \ {c} : reads'[g] = reads[g]
  BY <1>1, <1>2 DEF ModelReads
<1>5. /\ c # 0 /\ c \in claimed /\ c \notin pending
      /\ \A t \in Slots \ {s} : lane[t].claim # c
  BY <1>2 DEF QueueInv, ClaimIsExclusive, Groups
<1>6. c \notin lost => reads[c] = 0
  BY <1>1, <1>2 DEF ReadInv, Recorded
<1>7. ASSUME NEW g \in Groups PROVE Recorded(g)'
  <2>0. Recorded(g)
    BY DEF ReadInv
  <2>1. CASE g = c
    <3>1. \A t \in Slots : lane'[t].claim = g => t = s
      BY <1>3, <1>5, <2>1
    <3>2. ~NeverReachedModel(lane'[s])
      BY <1>3 DEF NeverReachedModel
    <3> QED BY <1>1, <1>3, <1>4, <1>5, <1>6, <2>1, <3>1, <3>2 DEF Recorded, NeverReachedModel
  <2>2. CASE g # c
    <3>1. \A t \in Slots : lane'[t].claim = g => lane'[t] = lane[t]
      BY <1>3, <2>2
    <3> QED BY <1>1, <1>4, <2>0, <2>2, <3>1 DEF Recorded, NeverReachedModel
  <2> QED BY <2>1, <2>2
<1> QED BY <1>7 DEF ReadInv

LEMMA ReadsExits ==
  ASSUME TypeInv, QueueInv, ReadInv, NEW s \in Slots, NEW e \in Evidence, Exits(s, e)
  PROVE  ReadInv'
<1> DEFINE c == lane[s].claim
<1>1. /\ lane \in [Slots -> Lane] /\ lane[s] \in Lane
      /\ UNCHANGED <<pending, claimed, reads>>
      /\ lost' \in {lost, lost \union {c}}
      /\ (lane[s].reached /\ e \in {"none", "unstarted"}) => c \in lost'
      /\ Becomes(s, [lane[s] EXCEPT !.exited = e])
  BY DEF TypeInv, TypeOK, Exits, queue
<1>2. /\ lane'[s].claim = c /\ lane'[s].reached = lane[s].reached /\ lane'[s].exited = e
      /\ \A t \in Slots \ {s} : lane'[t] = lane[t]
  BY <1>1 DEF Becomes, Lane
<1>3. ASSUME NEW g \in Groups PROVE Recorded(g)'
  <2>0. Recorded(g)
    BY DEF ReadInv
  <2>1. \A t \in Slots :
          (g \notin lost' /\ reads[g] = 1 /\ lane'[t].claim = g)
            => lane'[t].reached /\ ~NeverReachedModel(lane'[t])
    <3>1. SUFFICES ASSUME NEW t \in Slots, g \notin lost', reads[g] = 1, lane'[t].claim = g
                   PROVE  lane'[t].reached /\ ~NeverReachedModel(lane'[t])
      OBVIOUS
    <3>2. g \notin lost
      BY <1>1, <3>1
    <3>3. CASE t = s
      BY <1>1, <1>2, <2>0, <3>1, <3>2, <3>3 DEF Recorded, NeverReachedModel
    <3>4. CASE t # s
      BY <1>2, <2>0, <3>1, <3>2, <3>4 DEF Recorded, NeverReachedModel
    <3> QED BY <3>3, <3>4
  <2> QED BY <1>1, <2>0, <2>1 DEF Recorded, NeverReachedModel
<1> QED BY <1>3 DEF ReadInv

LEMMA ReadsSettle ==
  ASSUME TypeInv, QueueInv, ReadInv, NEW s \in Slots, NEW rules \in BOOLEAN, Settle(s, rules)
  PROVE  ReadInv'
<1> DEFINE c == lane[s].claim
<1>1. /\ lane \in [Slots -> Lane] /\ UNCHANGED <<claimed, reads, lost>> /\ Becomes(s, Off)
      /\ \/ pending' = pending
         \/ c # 0 /\ NeverReachedModel(lane[s]) /\ pending' = pending \union {c}
  BY DEF TypeInv, TypeOK, Settle, PutBack
<1>2. /\ lane'[s].claim = 0
      /\ \A t \in Slots \ {s} : lane'[t] = lane[t]
  BY <1>1 DEF Becomes, Off
<1>3. ASSUME NEW g \in Groups PROVE Recorded(g)'
  <2>0. Recorded(g) /\ g # 0
    BY DEF ReadInv, Groups
  <2>1. (g \notin lost /\ reads[g] = 1) => g \notin pending'
    BY <1>1, <2>0 DEF Recorded
  <2>2. \A t \in Slots : lane'[t].claim = g => lane'[t] = lane[t]
    BY <1>2, <2>0
  <2> QED BY <1>1, <2>0, <2>1, <2>2 DEF Recorded, NeverReachedModel
<1> QED BY <1>3 DEF ReadInv

LEMMA ReadsClaim ==
  ASSUME TypeInv, QueueInv, ReadInv, NEW s \in Slots, Claim(s)
  PROVE  ReadInv'
<1>1. lane \in [Slots -> Lane] /\ lane[s] \in Lane /\ UNCHANGED <<reads, lost>>
  BY DEF TypeInv, TypeOK, Claim
<1> DEFINE won(g)  == [lane[s] EXCEPT !.writer = "briefing", !.claim = g, !.names = {}]
           next(g) == [lane[s] EXCEPT !.names = @ \ {g}]
<1>2. PICK g \in First(lane[s].names) :
        IF Won(g)
        THEN /\ pending' = pending \ {g}
             /\ claimed' = claimed \union {g}
             /\ Becomes(s, won(g))
        ELSE /\ Becomes(s, next(g))
             /\ UNCHANGED <<pending, claimed>>
  BY DEF Claim
<1>3. /\ won(g).claim = g
      /\ next(g).claim = lane[s].claim /\ next(g).reached = lane[s].reached
      /\ next(g).exited = lane[s].exited
  BY <1>1 DEF Lane
<1> HIDE DEF won, next
<1>4. CASE Won(g)
  <2>1. g \in pending /\ lane'[s].claim = g /\ \A t \in Slots \ {s} : lane'[t] = lane[t]
    BY <1>1, <1>2, <1>3, <1>4 DEF Won, Becomes
  <2>2. \A t \in Slots : lane'[t].claim \in pending \/ lane'[t] = lane[t]
    BY <2>1
  <2> QED BY <1>1, <1>2, <1>4, <2>2, ReadKept DEF NeverReachedModel
<1>5. CASE ~Won(g)
  <2>1. /\ lane'[s].claim = lane[s].claim /\ lane'[s].reached = lane[s].reached
        /\ lane'[s].exited = lane[s].exited
        /\ \A t \in Slots \ {s} : lane'[t] = lane[t]
    BY <1>1, <1>2, <1>3, <1>5 DEF Becomes
  <2>2. \A t \in Slots : /\ lane'[t].claim = lane[t].claim /\ lane'[t].reached = lane[t].reached
                         /\ lane'[t].exited = lane[t].exited
    BY <2>1
  <2> QED BY <1>1, <1>2, <1>5, <2>2, ReadKept DEF NeverReachedModel
<1> QED BY <1>4, <1>5

LEMMA ReadStep == TypeInv /\ QueueInv /\ ReadInv /\ [Next]_vars => ReadInv'
<1> SUFFICES ASSUME TypeInv, QueueInv, ReadInv, [Next]_vars PROVE ReadInv'
  OBVIOUS
<1> USE DEF queue, history
<1>1. CASE ReviewersSettle \/ Freeze \/ Finish \/ WaveSettled \/ Narrows \/ Abort \/ UNCHANGED vars
  BY <1>1 DEF ReviewersSettle, Freeze, Finish, WaveSettled, Narrows, Abort, vars,
              ReadInv, Recorded, NeverReachedModel
<1>2. CASE Publish
  <2>1. PICK g \in unpublished : pending' = pending \union {g}
    BY <1>2 DEF Publish, First
  <2>2. g \notin claimed
    BY DEF QueueInv
  <2> QED BY <1>2, <2>1, <2>2, ReadKept DEF Publish, NeverReachedModel
<1>3. CASE Decide
  <2>1. lane' = lane \/ \A s \in Slots : lane'[s].claim = 0
    <3>1. \A left : \A s \in Slots :
            [t \in Slots |-> IF t <= left THEN Fresh ELSE Off][s].claim = 0
      BY DEF Fresh, Off
    <3> QED BY <1>3, <3>1 DEF Decide
  <2> QED BY <1>3, <2>1, ReadKept DEF Decide, NeverReachedModel
<1>4. ASSUME NEW s \in Slots, WriterStep(s), ~Claim(s) PROVE ReadInv'
  <2>0. lane[s] \in Lane
    BY DEF TypeInv, TypeOK
  <2>1. PICK l : /\ l.claim = lane[s].claim /\ l.reached = lane[s].reached
                 /\ l.exited = lane[s].exited /\ Becomes(s, l)
    <3> DEFINE done  == [lane[s] EXCEPT !.writer = "done"]
               go    == [lane[s] EXCEPT !.writer = "listing", !.frozen = (phase = "frozen")]
               list  == [lane[s] EXCEPT !.writer = "claiming", !.names = pending]
               home  == [lane[s] EXCEPT !.writer = "done", !.brief = "null"]
               wait  == [lane[s] EXCEPT !.writer = "asking"]
               brief == [lane[s] EXCEPT !.writer = "done", !.brief = "claim"]
               same(l) == /\ l.claim = lane[s].claim /\ l.reached = lane[s].reached
                          /\ l.exited = lane[s].exited
    <3>1. same(done) /\ same(go) /\ same(list)
      BY <2>0 DEF Lane
    <3>2. same(home) /\ same(wait) /\ same(brief)
      BY <2>0 DEF Lane
    <3>3. \/ Becomes(s, done) \/ Becomes(s, go) \/ Becomes(s, list)
          \/ Becomes(s, home) \/ Becomes(s, wait) \/ Becomes(s, brief)
      BY <1>4 DEF WriterStep, Ask, List, NothingToClaim, Brief
    <3> HIDE DEF done, go, list, home, wait, brief
    <3> QED BY <3>1, <3>2, <3>3
  <2>2. UNCHANGED <<queue, claimed, reads, lost>>
    BY <1>4 DEF WriterStep, Ask, List, NothingToClaim, Brief
  <2> QED BY <2>1, <2>2, ReadSame
<1>5. ASSUME NEW s \in Slots, LaneCut(s) PROVE ReadInv'
  <2> DEFINE l == [lane[s] EXCEPT !.cut = TRUE]
  <2>1. l.claim = lane[s].claim /\ l.reached = lane[s].reached /\ l.exited = lane[s].exited
    BY DEF TypeInv, TypeOK, Lane
  <2>2. Becomes(s, l) /\ UNCHANGED <<queue, claimed, reads, lost>>
    BY <1>5 DEF LaneCut
  <2> HIDE DEF l
  <2> QED BY <2>1, <2>2, ReadSame
<1> QED
  BY <1>1, <1>2, <1>3, <1>4, <1>5, ReadsRead, ReadsExits, ReadsSettle, ReadsClaim
  DEF Next, MainStep, PoolStep, WriterStep, LaneExits, LaneSettles

\* No group is read by two models unless the first reading was not recorded: a claim
\* goes back to the queue only from a lane that shows no request (runPoolLane).
THEOREM ReadAtMostOnce == Spec => []ReadOnce
<1>1. Init => QueueInv /\ ReadInv
  <2>1. Off.claim = 0
    BY DEF Off
  <2> QED BY <2>1 DEF Init, QueueInv, ClaimIsExclusive, ReadInv, Recorded
<1>2. TypeInv /\ ReadInv => ReadOnce
  BY DEF TypeInv, TypeOK, ReadInv, Recorded, ReadOnce
<1> QED BY <1>1, <1>2, TypeInit, TypeStep, QueueStep, ReadStep, PTL DEF Spec

-----------------------------------------------------------------------------
(* What becomes of every group *)

\* A writer that has claimed nothing yet.
Seeking == {"asking", "listing", "claiming"}

\* The lanes of a wave are on until they settle, and only a lane that found work has
\* a claim.
LanesInv ==
  /\ pool # "running" => \A s \in Slots : ~lane[s].on
  /\ \A s \in Slots : /\ ~lane[s].on => lane[s].claim = 0
                      /\ lane[s].writer \in Seeking => lane[s].claim = 0

\* A group that was claimed waits again, is held, was ruled on or has failed; and a
\* pool that ends without a reason saw an empty queue: what waits was written later.
AccountInv ==
  /\ \A g \in claimed \ (pending \union verdicts \union failed) :
       \E s \in Slots : lane[s].claim = g
  /\ pool = "done" /\ ~aborted /\ refusal = "none" => pending \subseteq late
  /\ final # "none" => pool = "done" /\ phase = "frozen"
  /\ final = "completed" => Published \subseteq verdicts

\* What the loop does when it decides: it stops, for a reason or because nothing is
\* left, or it launches a wave.
LEMMA DecideOutcome ==
  ASSUME TypeInv, Decide
  PROVE  \/ /\ pool' = "done" /\ UNCHANGED <<wave, lane>>
            /\ \/ aborted
               \/ refusal' # "none"
               \/ pending = {}
         \/ pool' = "running" /\ \A s \in Slots : lane'[s] \in {Fresh, Off}
<1>1. pending \subseteq 1..MaxGroups /\ MaxGroups \in Nat /\ wave \in Nat
  BY PoolAssumption DEF TypeInv, TypeOK, Groups
<1>2. Cardinality(pending) = 0 => pending = {}
  <2>1. 1 \in Int /\ MaxGroups \in Int
    BY <1>1
  <2>2. IsFiniteSet(1..MaxGroups)
    BY <2>1, FS_Interval
  <2>3. IsFiniteSet(pending)
    BY <1>1, <2>2, FS_Subset
  <2> QED BY <2>3, FS_EmptySet
<1> DEFINE left == IF wave = 0 THEN PoolLanes ELSE Cardinality(pending)
<1>3. CASE aborted
  BY <1>3 DEF Decide
<1>4. CASE ~aborted /\ wave > 0 /\ left = 0
  BY <1>1, <1>2, <1>4 DEF Decide
<1>5. CASE ~aborted /\ wave > 0 /\ left # 0 /\ (WavesSpent(left) \/ narrow)
  BY <1>5 DEF Decide
<1>6. CASE ~aborted /\ ~(wave > 0 /\ (left = 0 \/ WavesSpent(left) \/ narrow))
  <2>1. /\ pool' = "running"
        /\ lane' = [s \in Slots |-> IF s <= left THEN Fresh ELSE Off]
    BY <1>6 DEF Decide
  <2> QED BY <2>1
<1> QED BY <1>3, <1>4, <1>5, <1>6

\* A step of one lane that keeps it on, and its claim.
LEMMA LanesKept ==
  ASSUME TypeInv, LanesInv, NEW s \in Slots, NEW l, Becomes(s, l),
         UNCHANGED pool, lane[s].on, l.on,
         l.writer \in Seeking => l.claim = 0
  PROVE  LanesInv'
<1>1. /\ lane'[s] = l
      /\ \A t \in Slots \ {s} : lane'[t] = lane[t]
  BY DEF Becomes, TypeInv, TypeOK
<1>2. pool = "running"
  BY DEF LanesInv
<1>3. ASSUME NEW t \in Slots
      PROVE  /\ ~lane'[t].on => lane'[t].claim = 0
             /\ lane'[t].writer \in Seeking => lane'[t].claim = 0
  BY <1>1 DEF LanesInv
<1> QED BY <1>2, <1>3 DEF LanesInv

LEMMA LanesStep == TypeInv /\ LanesInv /\ [Next]_vars => LanesInv'
<1> SUFFICES ASSUME TypeInv, LanesInv, [Next]_vars PROVE LanesInv'
  OBVIOUS
<1> USE DEF queue, loop, run
<1>1. CASE ReviewersSettle \/ Publish \/ Freeze \/ Finish \/ Narrows \/ Abort \/ UNCHANGED vars
  BY <1>1 DEF ReviewersSettle, Publish, Freeze, Finish, Narrows, Abort, vars, LanesInv
<1>2. CASE Decide
  <2>1. Fresh.on /\ Fresh.claim = 0 /\ ~Off.on /\ Off.claim = 0
    BY DEF Fresh, Off
  <2>2. CASE pool' = "done" /\ UNCHANGED lane
    BY <1>2, <2>2 DEF LanesInv, Decide
  <2>3. CASE pool' = "running" /\ \A s \in Slots : lane'[s] \in {Fresh, Off}
    BY <2>1, <2>3 DEF LanesInv
  <2> QED BY <1>2, <2>2, <2>3, DecideOutcome
<1>3. CASE WaveSettled
  BY <1>3 DEF WaveSettled, LanesInv
<1>4. ASSUME NEW s \in Slots,
             \/ WriterStep(s) \/ ModelReads(s) \/ LaneExits(s) \/ LaneCut(s)
      PROVE  LanesInv'
  <2>1. /\ lane[s] \in Lane /\ (lane[s].writer \in Seeking => lane[s].claim = 0)
    BY DEF TypeInv, TypeOK, LanesInv
  <2>2. UNCHANGED pool /\ lane[s].on
    BY <1>4 DEF WriterStep, Ask, List, Claim, NothingToClaim, Brief, Writer, ModelReads,
                LaneExits, Exits, LaneCut
  <2> DEFINE good(l) == l.on /\ (l.writer \in Seeking => l.claim = 0)
  <2>3. \E l : Becomes(s, l) /\ good(l)
    <3>1. CASE Ask(s)
      <4> DEFINE quit == [lane[s] EXCEPT !.writer = "done"]
                 go   == [lane[s] EXCEPT !.writer = "listing", !.frozen = (phase = "frozen")]
      <4>1. good(go) /\ good(quit)
        BY <2>1, <2>2, <3>1 DEF Ask, Writer, Seeking, Lane
      <4>2. Becomes(s, IF aborted \/ lane[s].cut THEN quit ELSE go)
        BY <3>1 DEF Ask
      <4> QED BY <4>1, <4>2
    <3>2. CASE List(s)
      <4>1. good([lane[s] EXCEPT !.writer = "claiming", !.names = pending])
        BY <2>1, <2>2, <3>2 DEF List, Writer, Seeking, Lane
      <4> QED BY <3>2, <4>1 DEF List
    <3>3. CASE Claim(s)
      <4> DEFINE won(g)  == [lane[s] EXCEPT !.writer = "briefing", !.claim = g, !.names = {}]
                 next(g) == [lane[s] EXCEPT !.names = @ \ {g}]
      <4>1. \A g : good(won(g)) /\ good(next(g))
        BY <2>1, <2>2, <3>3 DEF Claim, Writer, Seeking, Lane
      <4>2. \E g : Becomes(s, won(g)) \/ Becomes(s, next(g))
        BY <3>3 DEF Claim
      <4> HIDE DEF won, next, good
      <4> QED BY <4>1, <4>2
    <3>4. CASE NothingToClaim(s)
      <4> DEFINE home == [lane[s] EXCEPT !.writer = "done", !.brief = "null"]
                 wait == [lane[s] EXCEPT !.writer = "asking"]
      <4>1. good(wait) /\ good(home)
        BY <2>1, <2>2, <3>4 DEF NothingToClaim, Writer, Seeking, Lane
      <4>2. Becomes(s, IF Settled(s) THEN home ELSE wait)
        BY <3>4 DEF NothingToClaim
      <4> QED BY <4>1, <4>2
    <3>5. CASE Brief(s)
      <4>1. good([lane[s] EXCEPT !.writer = "done", !.brief = "claim"])
        BY <2>1, <2>2 DEF Seeking, Lane
      <4> QED BY <3>5, <4>1 DEF Brief
    <3>6. CASE ModelReads(s)
      BY <2>1, <2>2, <3>6 DEF ModelReads, Lane
    <3>7. CASE LaneExits(s)
      BY <2>1, <2>2, <3>7 DEF LaneExits, Exits, Lane
    <3>8. CASE LaneCut(s)
      BY <2>1, <2>2, <3>8 DEF LaneCut, Lane
    <3> QED BY <1>4, <3>1, <3>2, <3>3, <3>4, <3>5, <3>6, <3>7, <3>8 DEF WriterStep
  <2> QED BY <2>2, <2>3, LanesKept
<1>5. ASSUME NEW s \in Slots, NEW rules \in BOOLEAN, Settle(s, rules) PROVE LanesInv'
  <2>1. /\ lane'[s] = Off /\ \A t \in Slots \ {s} : lane'[t] = lane[t]
        /\ UNCHANGED pool /\ lane[s].on
    BY <1>5 DEF Settle, Becomes, TypeInv, TypeOK
  <2>2. ~Off.on /\ Off.claim = 0
    BY DEF Off
  <2> QED BY <2>1, <2>2 DEF LanesInv
<1> QED
  BY <1>1, <1>2, <1>3, <1>4, <1>5 DEF Next, MainStep, PoolStep, LaneSettles

\* While a lane is on, only what it does with its claim matters.
LEMMA AccountKept ==
  ASSUME TypeInv, LanesInv, AccountInv, NEW s \in Slots, lane[s].on, UNCHANGED <<queue, loop>>,
         UNCHANGED <<aborted, final, verdicts, failed, claimed, late>>,
         NEW l, Becomes(s, l), l.on, l.claim = lane[s].claim
  PROVE  AccountInv'
<1>1. /\ lane'[s].on
      /\ \A t \in Slots : lane'[t].claim = lane[t].claim
  BY DEF Becomes, TypeInv, TypeOK
<1>2. pool = "running"
  BY DEF LanesInv
<1> QED BY <1>1, <1>2 DEF AccountInv, queue, loop, Published

LEMMA AccountClaim ==
  ASSUME TypeInv, QueueInv, LanesInv, AccountInv, NEW s \in Slots, Claim(s)
  PROVE  AccountInv'
<1> DEFINE won(g)  == [lane[s] EXCEPT !.writer = "briefing", !.claim = g, !.names = {}]
           next(g) == [lane[s] EXCEPT !.names = @ \ {g}]
<1>1. /\ lane[s].on /\ lane[s] \in Lane /\ lane \in [Slots -> Lane]
      /\ UNCHANGED <<phase, unpublished, pool, wave, refusal, aborted, final, verdicts, failed>>
      /\ UNCHANGED late
      /\ lane[s].writer = "claiming"
  BY DEF Claim, Writer, loop, run, results, TypeInv, TypeOK
<1>2. pool = "running" /\ final = "none"
  BY <1>1 DEF LanesInv, AccountInv
<1>3. PICK g \in First(lane[s].names) :
        IF Won(g)
        THEN /\ pending' = pending \ {g}
             /\ claimed' = claimed \union {g}
             /\ Becomes(s, won(g))
        ELSE Becomes(s, next(g)) /\ UNCHANGED <<pending, claimed>>
  BY DEF Claim
<1>4. /\ won(g).on /\ won(g).claim = g
      /\ next(g).on /\ next(g).claim = lane[s].claim
  BY <1>1 DEF Lane
<1> HIDE DEF won, next
<1>5. CASE ~Won(g)
  BY <1>1, <1>3, <1>4, <1>5, AccountKept DEF queue, loop
<1>6. CASE Won(g)
  <2>1. /\ lane'[s].on /\ lane'[s].claim = g
        /\ \A t \in Slots \ {s} : lane'[t].claim = lane[t].claim
    BY <1>1, <1>3, <1>4, <1>6 DEF Becomes
  <2>2. lane[s].claim = 0
    BY <1>1 DEF LanesInv, Seeking
  <2>3. 0 \notin claimed
    BY DEF TypeInv, TypeOK, Groups
  <2>4. ASSUME NEW h \in claimed' \ (pending' \union verdicts' \union failed')
        PROVE  \E t \in Slots : lane'[t].claim = h
    <3>1. CASE h = g
      BY <2>1, <3>1
    <3>2. CASE h # g
      <4>1. h \in claimed \ (pending \union verdicts \union failed)
        BY <1>1, <1>3, <1>6, <2>4, <3>2
      <4>2. PICK t \in Slots : lane[t].claim = h
        BY <4>1 DEF AccountInv
      <4> QED BY <2>1, <2>2, <2>3, <4>1, <4>2
    <3> QED BY <3>1, <3>2
  <2> QED BY <1>1, <1>2, <2>1, <2>4 DEF AccountInv
<1> QED BY <1>5, <1>6

LEMMA AccountSettle ==
  ASSUME TypeInv, QueueInv, LanesInv, AccountInv, NEW s \in Slots, NEW rules \in BOOLEAN,
         Settle(s, rules)
  PROVE  AccountInv'
<1> DEFINE c == lane[s].claim
<1>1. /\ lane[s].on /\ lane[s] \in Lane /\ lane[s].writer = "done"
      /\ lane' = [lane EXCEPT ![s] = Off] /\ lane \in [Slots -> Lane]
      /\ UNCHANGED <<phase, pool, wave, refusal, aborted, final, claimed>>
  BY DEF Settle, Becomes, loop, run, TypeInv, TypeOK
<1>2. pool = "running" /\ final = "none"
  BY <1>1 DEF LanesInv, AccountInv
<1>3. c # 0 /\ NeverReachedModel(lane[s]) =>
        pending' = pending \union {c} /\ verdicts' = verdicts /\ failed' = failed
  BY DEF Settle, PutBack
<1>4. c # 0 /\ ~NeverReachedModel(lane[s]) =>
        /\ pending' = pending
        /\ \/ verdicts' = verdicts \union {c} /\ failed' = failed
           \/ verdicts' = verdicts /\ failed' = failed \union {c}
  BY DEF Settle
<1>5. c = 0 => pending' = pending /\ verdicts' = verdicts /\ failed' = failed
  BY DEF Settle
<1>6. /\ pending \subseteq pending' /\ verdicts \subseteq verdicts' /\ failed \subseteq failed'
      /\ c # 0 => c \in pending' \union verdicts' \union failed'
  BY <1>3, <1>4, <1>5
<1>7. ASSUME NEW g \in claimed' \ (pending' \union verdicts' \union failed')
      PROVE  \E t \in Slots : lane'[t].claim = g
  <2>1. g # 0
    BY <1>1, <1>7 DEF TypeInv, TypeOK, Groups
  <2>2. g \in claimed \ (pending \union verdicts \union failed)
    BY <1>1, <1>6, <1>7
  <2>3. PICK t \in Slots : lane[t].claim = g
    BY <2>2 DEF AccountInv
  <2>4. t # s
    BY <1>6, <1>7, <2>1, <2>3
  <2> QED BY <1>1, <2>3, <2>4
<1> QED BY <1>1, <1>2, <1>7 DEF AccountInv

LEMMA AccountStep ==
  TypeInv /\ QueueInv /\ LanesInv /\ AccountInv /\ [Next]_vars => AccountInv'
<1> SUFFICES ASSUME TypeInv, QueueInv, LanesInv, AccountInv, [Next]_vars PROVE AccountInv'
  OBVIOUS
<1> USE DEF queue, loop, run, results, history
<1>1. CASE ReviewersSettle \/ Freeze \/ WaveSettled \/ Narrows \/ Abort \/ UNCHANGED vars
  BY <1>1 DEF ReviewersSettle, Freeze, WaveSettled, Narrows, Abort, vars, AccountInv, Published
<1>2. CASE Publish
  <2>1. PICK g : /\ pending' = pending \union {g}
                 /\ late' = IF pool = "done" THEN late \union {g} ELSE late
    BY <1>2 DEF Publish
  <2>2. phase = "publishing" /\ final = "none"
    BY <1>2 DEF Publish, AccountInv
  <2> QED BY <1>2, <2>1, <2>2 DEF Publish, AccountInv
<1>3. CASE Finish
  <2>1. SwarmStatus = "completed" => Published \subseteq verdicts
    BY DEF SwarmStatus, Unruled
  <2> QED BY <1>3, <2>1 DEF Finish, AccountInv, Published
<1>4. CASE Decide
  <2>1. /\ UNCHANGED <<queue, aborted, final, verdicts, failed, claimed, late>>
        /\ pool = "deciding" /\ final = "none"
        /\ \A s \in Slots : lane[s].claim = 0
    BY <1>4 DEF Decide, LanesInv, AccountInv
  <2>2. claimed \ (pending \union verdicts \union failed) = {}
    BY <2>1 DEF AccountInv, TypeInv, TypeOK, Groups
  <2>3. CASE /\ pool' = "done"
             /\ aborted \/ refusal' # "none" \/ pending = {}
    BY <2>1, <2>2, <2>3 DEF AccountInv
  <2>4. CASE pool' = "running"
    BY <2>1, <2>2, <2>4 DEF AccountInv
  <2> QED BY <1>4, <2>3, <2>4, DecideOutcome
<1>5. ASSUME NEW s \in Slots,
             \/ (WriterStep(s) /\ ~Claim(s)) \/ ModelReads(s) \/ LaneExits(s) \/ LaneCut(s)
      PROVE  AccountInv'
  <2>1. lane[s] \in Lane /\ lane[s].on
    BY <1>5 DEF WriterStep, Ask, List, NothingToClaim, Brief, Writer, ModelReads,
                LaneExits, Exits, LaneCut, TypeInv, TypeOK
  <2>2. UNCHANGED <<queue, loop, aborted, final, verdicts, failed, claimed, late>>
    BY <1>5 DEF WriterStep, Ask, List, NothingToClaim, Brief, ModelReads, LaneExits, Exits,
                LaneCut
  <2> DEFINE same(l) == l.on /\ l.claim = lane[s].claim
             done  == [lane[s] EXCEPT !.writer = "done"]
             go    == [lane[s] EXCEPT !.writer = "listing", !.frozen = (phase = "frozen")]
             list  == [lane[s] EXCEPT !.writer = "claiming", !.names = pending]
             home  == [lane[s] EXCEPT !.writer = "done", !.brief = "null"]
             wait  == [lane[s] EXCEPT !.writer = "asking"]
             brief == [lane[s] EXCEPT !.writer = "done", !.brief = "claim"]
             read  == [lane[s] EXCEPT !.reached = TRUE]
             out(e) == [lane[s] EXCEPT !.exited = e]
             cut   == [lane[s] EXCEPT !.cut = TRUE]
  <2>3. same(done) /\ same(go) /\ same(list)
    BY <2>1 DEF Lane
  <2>4. same(home) /\ same(wait) /\ same(brief)
    BY <2>1 DEF Lane
  <2>5. same(read) /\ same(cut) /\ \A e : same(out(e))
    BY <2>1 DEF Lane
  <2>6. \/ Becomes(s, done) \/ Becomes(s, go) \/ Becomes(s, list)
        \/ Becomes(s, home) \/ Becomes(s, wait) \/ Becomes(s, brief)
        \/ Becomes(s, read) \/ Becomes(s, cut) \/ \E e : Becomes(s, out(e))
    BY <1>5 DEF WriterStep, Ask, List, NothingToClaim, Brief, ModelReads, LaneExits, Exits,
                LaneCut
  <2> HIDE DEF done, go, list, home, wait, brief, read, out, cut
  <2> QED BY <2>1, <2>2, <2>3, <2>4, <2>5, <2>6, AccountKept
<1> QED
  BY <1>1, <1>2, <1>3, <1>4, <1>5, AccountClaim, AccountSettle
  DEF Next, MainStep, PoolStep, WriterStep, LaneSettles

\* A completed run has a verdict on every candidate, and one that ends short of that,
\* neither aborted nor refused a wave, has only candidates whose lane failed or that
\* were published after the pool had ended: no claim is dropped between a lane's death
\* and the wave that takes it up (runPoolLane, verifierWavePlan, swarmStatus).
THEOREM EveryGroupAccounted == Spec => []GroupsAccounted
<1>1. Init => QueueInv /\ LanesInv /\ AccountInv
  <2>1. Off.claim = 0 /\ ~Off.on
    BY DEF Off
  <2> QED BY <2>1 DEF Init, QueueInv, ClaimIsExclusive, LanesInv, AccountInv
<1>2. TypeInv /\ LanesInv /\ AccountInv => GroupsAccounted
  <2> SUFFICES ASSUME TypeInv, LanesInv, AccountInv,
                      final # "none", ~aborted, refusal = "none"
               PROVE  Unruled \subseteq failed \union late
    BY DEF GroupsAccounted, AccountInv
  <2>1. pool = "done" /\ pending \subseteq late /\ \A s \in Slots : lane[s].claim = 0
    BY DEF AccountInv, LanesInv
  <2>2. claimed \subseteq pending \union verdicts \union failed
    BY <2>1 DEF AccountInv, TypeInv, TypeOK, Groups
  <2> QED BY <2>1, <2>2 DEF Unruled, Published
<1> QED
  BY <1>1, <1>2, TypeInit, TypeStep, QueueStep, LanesStep, AccountStep, PTL DEF Spec
===============================================================================
