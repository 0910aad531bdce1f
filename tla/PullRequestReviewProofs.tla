----------------------- MODULE PullRequestReviewProofs -----------------------
(***************************************************************************)
(* What holds of PullRequestReview for any number of deliveries, checks,   *)
(* reviews and faults.                                                     *)
(*                                                                         *)
(* The handler works on a copy of what is stored, so each result rests on  *)
(* what the copy may still be: SyncInv, that it is what is stored unless a *)
(* newer generation is.  ListInv and CheckInv tell of the checks and who   *)
(* will complete them; HandlerInv and TruthInv what a check may say, by    *)
(* where the handler is; DoneInv to DismissedInv which cloud reviews run,  *)
(* and for whom; OfferInv what became of a push's offer.                   *)
(***************************************************************************)
EXTENDS PullRequestReview, FiniteSetTheorems, TLAPS

-----------------------------------------------------------------------------
(* The records of the object and their updates *)

LEMMA NoReviewType == NoReview \in AppReview
BY ConstantsAssumption DEF NoReview, AppReview, Phases, Window, ReviewIds, CheckIds

LEMMA AppReviewUpdates ==
  ASSUME NEW s \in AppReview
  PROVE  /\ \A p \in Phases : [s EXCEPT !.phase = p] \in AppReview
         /\ \A n \in Nat, p \in Phases : [s EXCEPT !.gen = n, !.phase = p] \in AppReview
         /\ \A c \in CheckIds : [s EXCEPT !.check = c] \in AppReview
         /\ [s EXCEPT !.base = TRUE] \in AppReview
         /\ \A b \in BOOLEAN, r \in ReviewIds :
              [s EXCEPT !.shadow = b, !.review = r] \in AppReview
         /\ \A a \in 0..(Window + 1) : [s EXCEPT !.age = a] \in AppReview
BY DEF AppReview

LEMMA RetriedType ==
  ASSUME NEW s \in AppReview
  PROVE  [s EXCEPT !.retried = TRUE, !.review = 0, !.age = 0, !.phase = "pending"]
           \in AppReview
<1>1. 0 \in 0..(Window + 1)
  BY ConstantsAssumption DEF Window
<1> QED
  BY <1>1 DEF AppReview, Phases

LEMMA RetiringType ==
  ASSUME NEW state \in AppReview, Supersedes(state)
  PROVE  Retiring(state) \in Retiree
BY DEF AppReview, Supersedes, Retiring, Retiree

LEMMA RetireeUpdates ==
  ASSUME NEW e \in Retiree
  PROVE  /\ \A n \in Nat : [e EXCEPT !.cancelFails = n] \in Retiree
         /\ [e EXCEPT !.due = TRUE] \in Retiree
BY DEF Retiree

LEMMA CompletionFailedType ==
  ASSUME NEW e \in Retiree
  PROVE  CompletionFailed(e) \in Retiree
<1>1. /\ e.completeFails + 1 \in Nat
      /\ (IF Stopped(e) THEN e.cancelFails ELSE e.cancelFails - 1) \in Nat
  BY ConstantsAssumption DEF Stopped, Retiree
<1> QED
  BY <1>1 DEF CompletionFailed, Retiree

-----------------------------------------------------------------------------
(* The ends of the handler's steps *)

\* A generation whose cloud review was started names it, and so does the handler
\* wherever it asks for it.
Named(s) == s.phase \in {"running", "publishing"} => s.review # 0

NamedAt(label, s) ==
  /\ Named(s)
  /\ label = "token" => s.phase \notin {"none", "done"}
  /\ label \in {"start", "poll", "isDone"} => s.review # 0

NamedInv == Named(current) /\ NamedAt(pc, mem)

\* What a step of advance leaves well typed, besides the world and the history.
StepOK == /\ current' \in AppReview /\ alarm' \in {"none", "now", "later"}
          /\ HandlerOK' /\ pc' # "complete" /\ NamedInv'

LEMMA EndType ==
  ASSUME StorageOK, NEW retry \in BOOLEAN, End(retry), current' \in AppReview,
         Named(current')
  PROVE  StepOK
<1>1. HandlerOK' /\ pc' = "idle" /\ mem' = NoReview
  BY NoReviewType DEF HandlerOK, End, Forget, Pcs, Receipts, Endings
<1> QED
  BY <1>1 DEF StepOK, StorageOK, End, NamedInv, NamedAt, Named, NoReview

LEMMA GotoType ==
  ASSUME StorageOK, HandlerOK, NEW label \in Pcs \ {"complete"}, Goto(label),
         current' \in AppReview, mem' \in AppReview, seen' \in Receipts,
         ending' \in Endings, again' \in BOOLEAN,
         Named(current'), NamedAt(label, mem')
  PROVE  StepOK
BY DEF StepOK, StorageOK, HandlerOK, Goto, retire, offer, NamedInv

LEMMA PlainGotoType ==
  ASSUME StorageOK, HandlerOK, NEW label \in Pcs \ {"complete"}, Goto(label),
         UNCHANGED <<current, advance>>, Named(current), NamedAt(label, mem)
  PROVE  StepOK
BY GotoType DEF StorageOK, HandlerOK, advance

LEMMA SaveAndType ==
  ASSUME StorageOK, HandlerOK, NEW s \in AppReview, NEW label \in Pcs \ {"complete"},
         SaveAnd(s, label), Named(current), NamedAt(label, s)
  PROVE  StepOK
<1>1. CASE Owns(s)
  BY <1>1, GotoType DEF SaveAnd, StorageOK, HandlerOK, NamedAt
<1>2. CASE ~Owns(s)
  BY <1>2, EndType DEF SaveAnd, StorageOK
<1> QED
  BY <1>1, <1>2

LEMMA EndAsType ==
  ASSUME StorageOK, HandlerOK, NamedInv, NEW e \in Endings, EndAs(e)
  PROVE  StepOK
BY GotoType DEF EndAs, StorageOK, HandlerOK, Pcs, NamedInv, NamedAt

LEMMA CaughtType ==
  ASSUME StorageOK, HandlerOK, NamedInv, NEW o, Caught(o)
  PROVE  StepOK
<1>1. CASE o # "refused"
  BY <1>1, EndType DEF Caught, StorageOK, NamedInv
<1>2. CASE o = "refused" /\ mem.check = 0
  <2>1. [mem EXCEPT !.phase = "done"] \in AppReview /\ Named([mem EXCEPT !.phase = "done"])
    <3>1. [mem EXCEPT !.phase = "done"] \in AppReview
      BY AppReviewUpdates DEF HandlerOK, Phases
    <3> QED
      BY <3>1 DEF HandlerOK, Named, AppReview
  <2> QED
    BY <1>2, <2>1, EndType DEF Caught, StorageOK, NamedInv, Owns
<1>3. CASE o = "refused" /\ mem.check # 0
  BY <1>3, GotoType DEF Caught, StorageOK, HandlerOK, Pcs, Endings, NamedInv, NamedAt
<1> QED
  BY <1>1, <1>2, <1>3

-----------------------------------------------------------------------------
(* What calls do to the world *)

LEMMA CallType ==
  ASSUME WorldOK, NEW o, Call(o)
  PROVE  faults' \in 0..MaxFaults
BY ConstantsAssumption DEF WorldOK, Call

LEMMA CompleteCheckType ==
  ASSUME WorldOK, NEW c, NEW state \in Endings, NEW review \in ReviewIds \union {0},
         CompleteCheck(c, state, review)
  PROVE  checks' \in [CheckIds -> Check]
BY DEF WorldOK, CompleteCheck, Check

LEMMA CloseCheckType ==
  ASSUME WorldOK, NEW c \in CheckIds, NEW state \in Endings,
         CompleteCheck(c, state, checks[c].review)
  PROVE  checks' \in [CheckIds -> Check]
BY DEF WorldOK, CompleteCheck, Check

JobStates == {"none", "scheduled", "parked", "running", "done"}

LEMMA JobUpdates ==
  ASSUME NEW j \in Job
  PROVE  /\ \A st \in JobStates : [j EXCEPT !.st = st] \in Job
         /\ \A st \in JobStates : [j EXCEPT !.st = st, !.cancelled = TRUE] \in Job
         /\ \A st \in JobStates : [j EXCEPT !.cancelled = TRUE, !.st = st] \in Job
         /\ \A k \in Receipts : [j EXCEPT !.receipt = k] \in Job
         /\ \A n \in Nat : [j EXCEPT !.gen = n] \in Job
         /\ \A a \in 0..Deadline : [j EXCEPT !.age = a] \in Job
BY DEF Job, JobStates

LEMMA ScheduledType ==
  ASSUME NEW j \in Job
  PROVE  [j EXCEPT !.st = "scheduled", !.age = 0] \in Job
<1>1. 0 \in 0..Deadline
  BY ConstantsAssumption
<1> QED
  BY <1>1 DEF Job

LEMMA CancelJobType ==
  ASSUME WorldOK, NEW r, NEW o, CancelJob(r, o)
  PROVE  jobs' \in [ReviewIds -> Job]
<1>1. CASE r \notin ReviewIds
  BY <1>1 DEF WorldOK, CancelJob
<1>2. CASE r \in ReviewIds
  <2> DEFINE j == jobs[r]
  <2>1. j \in Job /\ j.st \in JobStates
    <3>1. j \in Job
      BY <1>2, Zenon DEF WorldOK
    <3> QED
      BY <3>1 DEF Job, JobStates
  <2>2. /\ [j EXCEPT !.st = "done", !.cancelled = TRUE] \in Job
        /\ [j EXCEPT !.cancelled = TRUE,
                     !.st = IF j.st = "scheduled" THEN "parked" ELSE j.st] \in Job
    <3>1. (IF j.st = "scheduled" THEN "parked" ELSE j.st) \in JobStates
      BY <2>1 DEF JobStates
    <3> QED
      BY <2>1, <3>1, JobUpdates DEF JobStates
  <2> QED
    BY <1>2, <2>2 DEF WorldOK, CancelJob
<1> QED
  BY <1>1, <1>2

LEMMA StartJobType ==
  ASSUME WorldOK, NEW r, StartJob(r)
  PROVE  jobs' \in [ReviewIds -> Job]
<1>1. CASE r \notin ReviewIds
  BY <1>1 DEF WorldOK, StartJob
<1>2. CASE r \in ReviewIds
  BY <1>2, ScheduledType DEF WorldOK, StartJob
<1> QED
  BY <1>1, <1>2

-----------------------------------------------------------------------------
(* Type correctness, action by action *)

\* The entry whose check is being completed is a superseded generation's.
TypeInv == TypeOK /\ NamedInv /\ (pc = "complete" => entry \in Retiree)

LEMMA NamedFrame ==
  ASSUME NamedInv, UNCHANGED mem, current' = current \/ Named(current'),
         pc' \notin {"token", "start", "poll", "isDone"} \/ UNCHANGED pc
  PROVE  NamedInv'
BY DEF NamedInv, NamedAt, Named

LEMMA InitType == Init => TypeInv
<1> SUFFICES ASSUME Init PROVE TypeInv
  OBVIOUS
<1>1. StorageOK /\ HandlerOK /\ HistoryOK
  BY NoReviewType DEF Init, StorageOK, HandlerOK, HistoryOK, Pcs, Receipts, Endings
<1>2. WorldOK
  BY ConstantsAssumption DEF Init, WorldOK, Check, Job, Receipts
<1> QED
  BY <1>1, <1>2 DEF TypeInv, TypeOK, Init, NamedInv, NamedAt, Named, NoReview

LEMMA WebhookType ==
  ASSUME TypeInv, Webhook
  PROVE  TypeInv'
<1> USE DEF TypeInv, TypeOK, StorageOK, HandlerOK, WorldOK, HistoryOK, vars, storage,
            advance, retire, offer, github, history
<1>1. ASSUME NEW d \in Deliveries, Accept(d) PROVE TypeInv'
  <2>1. current' \in AppReview
    <3>1. current.gen + 1 \in Nat
      BY DEF AppReview
    <3> QED
      BY <1>1, <3>1, NoReviewType, AppReviewUpdates DEF Accept, NextGeneration, Phases
  <2>2. superseded' \subseteq Retiree
    BY <1>1, RetiringType DEF Accept, NextGeneration
  <2>3. NamedInv'
    <3>1. Named(current')
      BY <1>1 DEF Accept, NextGeneration, Named, NoReview
    <3> QED
      BY <1>1, <3>1, NamedFrame DEF Accept, NextGeneration
  <2> QED
    BY <1>1, <2>1, <2>2, <2>3 DEF Accept, NextGeneration
<1>2. ASSUME NEW d \in OfferDeliveries, Offer(d) PROVE TypeInv'
  BY <1>2, NamedFrame DEF Offer
<1> QED
  BY <1>1, <1>2 DEF Webhook

LEMMA RetireType ==
  ASSUME TypeInv, Retire
  PROVE  TypeInv'
<1> USE DEF TypeInv, TypeOK, StorageOK, HandlerOK, HistoryOK, vars, storage,
            advance, retire, offer, github, history
<1>1. ASSUME NEW e \in todo, NEW o \in Transient, RetireCancel(e, o) PROVE TypeInv'
  <2>1. WorldOK'
    BY <1>1, CallType, CancelJobType DEF RetireCancel, WorldOK
  <2>2. /\ [e EXCEPT !.cancelFails = RetireAttempts] \in Retiree
        /\ [e EXCEPT !.cancelFails = @ + 1] \in Retiree
    <3>1. e \in Retiree /\ RetireAttempts \in Nat /\ e.cancelFails + 1 \in Nat
      BY ConstantsAssumption DEF Retiree
    <3> QED
      BY <3>1, RetireeUpdates
  <2>3. HandlerOK' /\ (pc' = "complete" => entry' \in Retiree)
    BY <1>1, <2>2 DEF RetireCancel, Pcs
  <2> QED
    BY <1>1, <2>1, <2>3, NamedFrame DEF RetireCancel
<1>2. ASSUME NEW o \in GitHub, RetireComplete(o) PROVE TypeInv'
  <2>1. entry \in Retiree /\ entry.check \in CheckIds /\ entry.gen \in Nat
    BY <1>2 DEF RetireComplete, Retiree
  <2>2. WorldOK'
    BY <1>2, <2>1, CallType, CloseCheckType DEF RetireComplete, WorldOK, Endings
  <2>3. patched' \subseteq Retiree
    <3>1. patched' = patched \/ patched' = patched \union {CompletionFailed(entry)}
      BY <1>2 DEF RetireComplete
    <3> QED
      BY <2>1, <3>1, CompletionFailedType
  <2>4. HandlerOK' /\ pc' # "complete"
    BY <1>2, <2>1, <2>3 DEF RetireComplete, Pcs
  <2> QED
    BY <1>2, <2>1, <2>2, <2>4, NamedFrame DEF RetireComplete
<1>3. CASE RetireDone
  BY <1>3, NamedFrame DEF RetireDone, StillSuperseded, WorldOK, Pcs
<1>4. ASSUME NEW d \in offering, NEW o \in GitHub, OfferOne(d, o) PROVE TypeInv'
  <2>1. HeadOf[d] \in STRING
    BY ConstantsAssumption
  <2> QED
    BY <1>4, <2>1, CallType, NamedFrame DEF OfferOne, WorldOK
<1>5. CASE OffersDone
  BY <1>5, NamedFrame DEF OffersDone, StillOffered, WorldOK, Pcs
<1> QED
  BY <1>1, <1>2, <1>3, <1>4, <1>5 DEF Retire

LEMMA AlarmType ==
  ASSUME TypeInv, AlarmFires \/ Crash
  PROVE  TypeInv'
<1> USE DEF TypeInv, TypeOK, StorageOK, HandlerOK, HistoryOK, vars, storage,
            advance, retire, offer, github, history
<1>1. CASE AlarmFires
  BY <1>1, NamedFrame DEF AlarmFires, WorldOK, Pcs
<1>2. CASE Crash
  <2>1. HandlerOK' /\ pc' # "complete"
    BY <1>2, NoReviewType DEF Crash, Forget, Pcs, Receipts, Endings
  <2>2. NamedInv'
    BY <1>2 DEF Crash, Forget, NamedInv, NamedAt, Named, NoReview
  <2> QED
    BY <1>2, <2>1, <2>2, CallType DEF Crash, WorldOK
<1> QED
  BY <1>1, <1>2

LEMMA OlderType ==
  ASSUME NEW bound \in Nat, NEW age \in 0..bound
  PROVE  Older(age, bound) \in 0..bound
BY DEF Older

LEMMA JobStepType ==
  ASSUME WorldOK, NEW r \in ReviewIds,
         \/ JobBegins(r)
         \/ \E k \in Receipts : JobRecords(r, k) \/ CancelledRecords(r, k)
         \/ JobEnds(r)
         \/ \E st \in {"parked", "done"} : CancelGoesOn(r, st)
  PROVE  jobs' \in [ReviewIds -> Job]
<1> USE DEF WorldOK
<1>1. CASE JobBegins(r)
  BY <1>1, JobUpdates DEF JobBegins, JobStates
<1>2. ASSUME NEW k \in Receipts, JobRecords(r, k) \/ CancelledRecords(r, k)
      PROVE jobs' \in [ReviewIds -> Job]
  <2>1. jobs' = [jobs EXCEPT ![r].receipt = k]
    BY <1>2 DEF JobRecords, CancelledRecords
  <2> QED
    BY <2>1, JobUpdates
<1>3. CASE JobEnds(r)
  BY <1>3, JobUpdates DEF JobEnds, JobStates
<1>4. ASSUME NEW st \in {"parked", "done"}, CancelGoesOn(r, st) PROVE jobs' \in [ReviewIds -> Job]
  BY <1>4, JobUpdates DEF CancelGoesOn, JobStates
<1> QED
  BY <1>1, <1>2, <1>3, <1>4

LEMMA EnvironmentType ==
  ASSUME TypeInv, Environment
  PROVE  TypeInv'
<1> USE DEF TypeInv, TypeOK, StorageOK, HandlerOK, HistoryOK, WorldOK, vars, storage,
            advance, retire, offer, github, history
<1>1. ASSUME NEW r \in ReviewIds, JobSteps(r) PROVE TypeInv'
  <2>1. jobs' \in [ReviewIds -> Job]
    BY <1>1, JobStepType DEF JobSteps
  <2> QED
    BY <1>1, <2>1, NamedFrame DEF JobSteps, JobBegins, JobRecords, JobEnds, CancelledRecords, CancelGoesOn
<1>3. CASE Tick
  <2>1. current' \in AppReview
    <3>1. Window + 1 \in Nat /\ current.age \in 0..(Window + 1)
      BY ConstantsAssumption DEF Window, AppReview
    <3>2. Older(current.age, Window + 1) \in 0..(Window + 1)
      BY <3>1, OlderType
    <3>3. \E a \in 0..(Window + 1) : current' = [current EXCEPT !.age = a]
      BY <1>3, <3>1, <3>2 DEF Tick
    <3> QED
      BY <3>3, AppReviewUpdates
  <2>2. jobs' \in [ReviewIds -> Job]
    <3>1. \A r \in ReviewIds : Older(jobs[r].age, Deadline) \in 0..Deadline
      BY OlderType, ConstantsAssumption DEF Job
    <3> QED
      BY <1>3, <3>1, JobUpdates DEF Tick
  <2>3. Named(current')
    BY <1>3 DEF Tick, NamedInv, Named, AppReview
  <2> QED
    BY <1>3, <2>1, <2>2, <2>3, NamedFrame DEF Tick
<1>4. ASSUME NEW e \in superseded, BackoffElapses(e) PROVE TypeInv'
  BY <1>4, RetireeUpdates, NamedFrame DEF BackoffElapses
<1> QED
  BY <1>1, <1>3, <1>4 DEF Environment

\* A step of advance touches neither list.
LEMMA StepType ==
  ASSUME TypeInv, StepOK, UNCHANGED <<superseded, offers, delivered>>, WorldOK', HistoryOK'
  PROVE  TypeInv'
BY DEF TypeInv, TypeOK, StorageOK, StepOK

LEMMA StartingType ==
  ASSUME TypeInv,
         \/ AdvanceRead
         \/ \E o \in {"ok", "down", "refused"} : Token(o) \/ MergeBase(o)
         \/ \E o \in {"ok", "down"}, shadow \in BOOLEAN : Prepare(o, shadow)
         \/ \E o \in Transient : Start(o)
  PROVE  TypeInv'
<1> USE DEF TypeInv, TypeOK, NamedInv
<1>1. CASE AdvanceRead
  <2>1. StepOK
    <3>1. CASE current.phase \in {"none", "done"}
      BY <1>1, <3>1, EndType DEF AdvanceRead, StorageOK, storage
    <3>2. CASE current.phase \notin {"none", "done"}
      BY <1>1, <3>2, GotoType DEF AdvanceRead, StorageOK, HandlerOK, storage, Pcs, NamedAt
    <3> QED
      BY <3>1, <3>2
  <2> QED
    BY <1>1, <2>1, StepType DEF AdvanceRead, WorldOK, HistoryOK, storage, github, history
<1>2. ASSUME NEW o, Token(o) PROVE TypeInv'
  <2>1. StepOK
    <3>1. CASE o = "ok"
      <4>1. /\ mem.phase = "pending" => NamedAt("create", mem)
            /\ mem.phase # "pending" => NamedAt("poll", mem)
        BY <1>2 DEF Token, NamedAt, Named, HandlerOK, AppReview, Phases
      <4> QED
        BY <1>2, <3>1, <4>1, PlainGotoType DEF Token, Pcs
    <3>2. CASE o # "ok"
      BY <1>2, <3>2, CaughtType DEF Token
    <3> QED
      BY <3>1, <3>2
  <2> QED
    BY <1>2, <2>1, StepType, CallType DEF Token, WorldOK, HistoryOK, github, history
<1>3. ASSUME NEW o, MergeBase(o) PROVE TypeInv'
  <2>1. StepOK
    <3>1. /\ [mem EXCEPT !.base = TRUE] \in AppReview
          /\ NamedAt("prepare", [mem EXCEPT !.base = TRUE])
      BY AppReviewUpdates DEF HandlerOK, NamedAt, Named, AppReview
    <3> QED
      BY <1>3, <3>1, CaughtType, SaveAndType DEF MergeBase, Pcs
  <2> QED
    BY <1>3, <2>1, StepType, CallType DEF MergeBase, WorldOK, HistoryOK, github, history
<1>4. ASSUME NEW o, NEW shadow \in BOOLEAN, Prepare(o, shadow) PROVE TypeInv'
  <2>1. StepOK
    <3>1. ASSUME NEW r \in ReviewIds
          PROVE  LET s == [mem EXCEPT !.shadow = shadow, !.review = r]
                 IN  s \in AppReview /\ NamedAt("start", s)
      <4>1. [mem EXCEPT !.shadow = shadow, !.review = r] \in AppReview
        BY AppReviewUpdates DEF HandlerOK
      <4>2. r # 0 /\ [mem EXCEPT !.shadow = shadow, !.review = r].review = r
        BY DEF HandlerOK, AppReview, ReviewIds
      <4> QED
        BY <4>1, <4>2 DEF NamedAt, Named
    <3>2. CASE o # "ok"
      BY <1>4, <3>2, CaughtType DEF Prepare
    <3>3. CASE o = "ok"
      BY <1>4, <3>1, <3>3, SaveAndType DEF Prepare, Pcs
    <3> QED
      BY <3>2, <3>3
  <2>2. jobs' \in [ReviewIds -> Job]
    <3>1. \A r \in ReviewIds : [jobs[r] EXCEPT !.gen = mem.gen] \in Job
      BY JobUpdates DEF WorldOK, HandlerOK, AppReview
    <3>2. \/ jobs' = jobs
          \/ \E r \in ReviewIds : jobs' = [jobs EXCEPT ![r].gen = mem.gen]
      BY <1>4 DEF Prepare
    <3> QED
      BY <3>1, <3>2 DEF WorldOK
  <2> QED
    BY <1>4, <2>1, <2>2, StepType, CallType DEF Prepare, WorldOK, HistoryOK, github, history
<1>5. ASSUME NEW o, Start(o) PROVE TypeInv'
  <2>1. StepOK
    <3>1. /\ [mem EXCEPT !.phase = "running"] \in AppReview
          /\ NamedAt("poll", [mem EXCEPT !.phase = "running"])
      <4>1. [mem EXCEPT !.phase = "running"] \in AppReview
        <5>1. mem \in AppReview /\ "running" \in Phases
          BY DEF HandlerOK, Phases
        <5> QED
          BY <5>1 DEF AppReview
      <4> QED
        BY <1>5, <4>1 DEF Start, HandlerOK, NamedAt, Named, AppReview
    <3> QED
      BY <1>5, <3>1, CaughtType, SaveAndType DEF Start, Pcs
  <2>2. jobs' \in [ReviewIds -> Job]
    BY <1>5, StartJobType DEF Start, WorldOK
  <2> QED
    BY <1>5, <2>1, <2>2, StepType, CallType DEF Start, WorldOK, HistoryOK, github, history
<1> QED
  BY <1>1, <1>2, <1>3, <1>4, <1>5

LEMMA CheckType ==
  ASSUME TypeInv, \/ KeepCheck
                  \/ \E o \in GitHub : CreateCheck(o) \/ Disown(o)
  PROVE  TypeInv'
<1> USE DEF TypeInv, TypeOK, NamedInv
<1>1. ASSUME NEW s \in AppReview, Named(s), CreatedAs(s)
      PROVE  StepOK /\ recorded' \subseteq CheckIds \union {0}
  <2>1. CASE Owns(s)
    BY <1>1, <2>1, GotoType DEF CreatedAs, StorageOK, HandlerOK, HistoryOK, Pcs, AppReview,
       NamedAt
  <2>2. CASE ~Owns(s)
    BY <1>1, <2>2, GotoType DEF CreatedAs, StorageOK, HandlerOK, HistoryOK, Pcs, NamedAt
  <2> QED
    BY <2>1, <2>2
<1>2. ASSUME NEW o, CreateCheck(o) PROVE TypeInv'
  <2> PICK c \in CheckIds :
       /\ checks' = IF Applied(o)
                    THEN [checks EXCEPT ![c].state = "open", ![c].gen = mem.gen]
                    ELSE checks
       /\ IF o = "ok" THEN CreatedAs([mem EXCEPT !.check = c])
          ELSE Caught(o) /\ UNCHANGED recorded
    BY <1>2 DEF CreateCheck
  <2>1. StepOK /\ recorded' \subseteq CheckIds \union {0}
    <3>1. [mem EXCEPT !.check = c] \in AppReview /\ Named([mem EXCEPT !.check = c])
      BY AppReviewUpdates DEF HandlerOK, NamedAt, Named, AppReview
    <3> QED
      BY <3>1, <1>1, CaughtType DEF HistoryOK
  <2>2. checks' \in [CheckIds -> Check]
    <3>1. mem.gen \in Nat
      BY DEF HandlerOK, AppReview
    <3> QED
      BY <3>1 DEF WorldOK, Check
  <2> QED
    BY <1>2, <2>1, <2>2, StepType, CallType DEF CreateCheck, WorldOK, HistoryOK
<1>3. CASE KeepCheck
  <2>1. StepOK /\ recorded' \subseteq CheckIds \union {0}
    BY <1>3, <1>1 DEF KeepCheck, HandlerOK, NamedAt
  <2> QED
    BY <1>3, <2>1, StepType DEF KeepCheck, WorldOK, HistoryOK, github
<1>4. ASSUME NEW o, Disown(o) PROVE TypeInv'
  <2>1. StepOK
    BY <1>4, CaughtType, EndType DEF Disown, StorageOK
  <2>2. checks' \in [CheckIds -> Check]
    <3>1. CASE mem.check \in CheckIds
      BY <1>4, <3>1, CloseCheckType DEF Disown, WorldOK, Endings
    <3>2. CASE mem.check \notin CheckIds
      BY <1>4, <3>2 DEF Disown, CompleteCheck, WorldOK
    <3> QED
      BY <3>1, <3>2
  <2> QED
    BY <1>4, <2>1, <2>2, StepType, CallType DEF Disown, WorldOK, HistoryOK, history
<1> QED
  BY <1>2, <1>3, <1>4

LEMMA WaitingType ==
  ASSUME TypeInv,
         \/ \E o \in {"ok", "down"} : Poll(o) \/ IsDone(o) \/ Destroy(o)
         \/ Progress
         \/ \E o \in GitHub : UpdateCheck(o)
         \/ Judge
  PROVE  TypeInv'
<1> USE DEF TypeInv, TypeOK, NamedInv
<1>1. ASSUME NEW o, Poll(o) PROVE TypeInv'
  <2>1. StepOK
    <3>1. CASE o = "ok"
      <4>1. mem.review \in ReviewIds
        BY <1>1 DEF Poll, NamedAt, HandlerOK, AppReview
      <4>2. jobs[mem.review].receipt \in Receipts
        BY <4>1 DEF WorldOK, Job
      <4>3. NamedAt("isDone", mem) /\ NamedAt("judge", mem)
        BY <1>1 DEF Poll, NamedAt
      <4> QED
        BY <1>1, <3>1, <4>2, <4>3, GotoType DEF Poll, StorageOK, HandlerOK, Pcs
    <3>2. CASE o # "ok"
      BY <1>1, <3>2, CaughtType DEF Poll
    <3> QED
      BY <3>1, <3>2
  <2> QED
    BY <1>1, <2>1, StepType, CallType DEF Poll, WorldOK, HistoryOK, github, history
<1>2. ASSUME NEW o, IsDone(o) PROVE TypeInv'
  <2>1. StepOK
    <3>1. /\ [mem EXCEPT !.phase = "publishing"] \in AppReview
          /\ NamedAt("judge", [mem EXCEPT !.phase = "publishing"])
          /\ NamedAt("progress", mem)
      <4>1. [mem EXCEPT !.phase = "publishing"] \in AppReview
        <5>1. mem \in AppReview /\ "publishing" \in Phases
          BY DEF HandlerOK, Phases
        <5> QED
          BY <5>1 DEF AppReview
      <4> QED
        BY <1>2, <4>1 DEF IsDone, HandlerOK, NamedAt, Named, AppReview
    <3> QED
      BY <1>2, <3>1, CaughtType, SaveAndType, EndAsType, PlainGotoType
         DEF IsDone, Pcs, Endings
  <2> QED
    BY <1>2, <2>1, StepType, CallType DEF IsDone, WorldOK, HistoryOK, github, history
<1>3. ASSUME NEW o, Destroy(o) PROVE TypeInv'
  <2>1. StepOK
    <3>1. CASE o # "ok"
      BY <1>3, <3>1, EndAsType DEF Destroy, Endings
    <3>2. CASE o = "ok"
      <4>1. current' \in AppReview /\ Named(current')
        BY <1>3, <3>2, RetriedType DEF Destroy, StorageOK, HandlerOK, Named, AppReview
      <4>2. Owns(mem) \in BOOLEAN
        BY DEF Owns
      <4> QED
        BY <1>3, <3>2, <4>1, <4>2, EndType DEF Destroy
    <3> QED
      BY <3>1, <3>2
  <2> QED
    BY <1>3, <2>1, StepType, CallType DEF Destroy, WorldOK, HistoryOK, github, history
<1>4. CASE Progress
  <2>1. StepOK
    BY <1>4, EndType, PlainGotoType DEF Progress, StorageOK, Pcs, storage, NamedAt
  <2> QED
    BY <1>4, <2>1, StepType DEF Progress, WorldOK, HistoryOK, storage, github, history
<1>5. ASSUME NEW o, UpdateCheck(o) PROVE TypeInv'
  <2>1. StepOK
    BY <1>5, EndType DEF UpdateCheck, StorageOK, storage
  <2>2. checks' \in [CheckIds -> Check]
    BY <1>5 DEF UpdateCheck, WorldOK, Check
  <2> QED
    BY <1>5, <2>1, <2>2, StepType, CallType DEF UpdateCheck, WorldOK, HistoryOK, storage,
       history
<1>6. CASE Judge
  <2>1. StepOK
    BY <1>6, EndAsType, PlainGotoType DEF Judge, Pcs, Endings, NamedAt
  <2> QED
    BY <1>6, <2>1, StepType DEF Judge, WorldOK, HistoryOK, github, history
<1> QED
  BY <1>1, <1>2, <1>3, <1>4, <1>5, <1>6

LEMMA PublishingType ==
  ASSUME TypeInv,
         \/ \E o \in {"ok", "down", "refused", "moved"} : Revalidate(o)
         \/ \E o \in GitHub \union {"broken"} : Post(o)
         \/ Finish
         \/ \E o \in GitHub : Completing(o)
  PROVE  TypeInv'
<1> USE DEF TypeInv, TypeOK, NamedInv
<1>1. ASSUME NEW o \in {"ok", "down", "refused", "moved"}, Revalidate(o) PROVE TypeInv'
  <2>1. StepOK
    <3>1. NamedAt("post", mem)
      BY DEF NamedAt
    <3> QED
      BY <1>1, <3>1, EndAsType, CaughtType, PlainGotoType, EndType
         DEF Revalidate, Endings, Pcs, StorageOK
  <2> QED
    BY <1>1, <2>1, StepType, CallType DEF Revalidate, WorldOK, HistoryOK, github, history
<1>2. ASSUME NEW o \in GitHub \union {"broken"}, Post(o) PROVE TypeInv'
  <2>1. StepOK
    <3>1. EndAs("published") \/ EndAs("neutral") \/ Caught(o)
      BY <1>2 DEF Post, GitHub, Transient
    <3> QED
      BY <3>1, EndAsType, CaughtType DEF Endings
  <2>2. posts' \in [ReviewIds -> Nat]
    <3>1. posts' = posts \/ posts' = [posts EXCEPT ![mem.review] = @ + 1]
      BY <1>2 DEF Post
    <3> QED
      BY <3>1 DEF WorldOK
  <2> QED
    BY <1>2, <2>1, <2>2, StepType, CallType DEF Post, WorldOK, HistoryOK, history
<1>3. CASE Finish
  <2>1. StepOK
    BY <1>3, PlainGotoType, EndType DEF Finish, NamedAt, Pcs, storage, StorageOK
  <2> QED
    BY <1>3, <2>1, StepType DEF Finish, WorldOK, HistoryOK, storage, github, history
<1>4. ASSUME NEW o \in GitHub, Completing(o) PROVE TypeInv'
  <2>1. StepOK
    <3>1. [mem EXCEPT !.phase = "done"] \in AppReview
      BY AppReviewUpdates DEF HandlerOK, Phases
    <3>2. Named([mem EXCEPT !.phase = "done"])
      BY <3>1 DEF HandlerOK, Named, AppReview
    <3> QED
      BY <1>4, <3>1, <3>2, EndType, CaughtType DEF Completing, StorageOK
  <2>2. checks' \in [CheckIds -> Check]
    BY <1>4, CompleteCheckType DEF Completing, WorldOK, HandlerOK, AppReview
  <2>3. waived' \subseteq CheckIds \union {0}
    BY <1>4 DEF Completing, HistoryOK, HandlerOK, AppReview
  <2> QED
    BY <1>4, <2>1, <2>2, <2>3, StepType, CallType DEF Completing, WorldOK, HistoryOK
<1> QED
  BY <1>1, <1>2, <1>3, <1>4

-----------------------------------------------------------------------------
(* The theorems *)

LEMMA AdvanceType ==
  ASSUME TypeInv, Advance
  PROVE  TypeInv'
BY StartingType, CheckType, WaitingType, PublishingType DEF Advance

LEMMA TypeInductive == TypeInv /\ [Next]_vars => TypeInv'
<1> SUFFICES ASSUME TypeInv, [Next]_vars PROVE TypeInv'
  OBVIOUS
<1>1. CASE Next
  BY <1>1, WebhookType, RetireType, AlarmType, EnvironmentType, AdvanceType DEF Next
<1>2. CASE UNCHANGED vars
  BY <1>2 DEF vars, storage, advance, retire, offer, github, history, TypeInv, TypeOK,
     StorageOK, HandlerOK, WorldOK, HistoryOK, NamedInv, NamedAt, Named
<1> QED
  BY <1>1, <1>2

\* The invariant the others rest on: the types, with a running or publishing
\* generation naming the cloud review it waits for, and a retirement its check.
THEOREM TypeCorrect == Spec => []TypeInv
BY InitType, TypeInductive, PTL DEF Spec

\* Every variable keeps its type: the object's storage, the handler's memory and
\* the checks, reviews and cloud reviews it acts on (advance, retireSuperseded).
THEOREM TypeSafe == Spec => []TypeOK
<1>1. TypeInv => TypeOK
  BY DEF TypeInv
<1> QED
  BY <1>1, TypeCorrect, PTL

-----------------------------------------------------------------------------
(* A review is posted once *)

\* A handler about to post has just seen that its review's marker is missing, and
\* nobody else posts in between.
PostInv == PostedOnce /\ (pc = "post" => ~Marked)

LEMMA PostFrame ==
  ASSUME PostInv, UNCHANGED posts, pc' # "post" \/ UNCHANGED <<pc, mem>>
  PROVE  PostInv'
BY DEF PostInv, PostedOnce, Marked

\* Where a step of advance that neither looks for the marker nor posts ends.
LEMMA StepsElsewhere ==
  ASSUME Advance,
         ~ \E o \in {"ok", "down", "refused", "moved"} : Revalidate(o),
         ~ \E o \in GitHub \union {"broken"} : Post(o)
  PROVE  UNCHANGED posts /\ pc' # "post"
<1> USE DEF Caught, SaveAnd, EndAs, End, Goto, github, storage
<1>1. CASE AdvanceRead \/ KeepCheck \/ Progress \/ Judge \/ Finish
  BY <1>1 DEF AdvanceRead, KeepCheck, CreatedAs, Progress, Judge, Finish
<1>2. ASSUME NEW o, Token(o) \/ MergeBase(o) PROVE UNCHANGED posts /\ pc' # "post"
  BY <1>2 DEF Token, MergeBase
<1>3. ASSUME NEW o, CreateCheck(o) \/ Disown(o) PROVE UNCHANGED posts /\ pc' # "post"
  BY <1>3 DEF CreateCheck, CreatedAs, Disown
<1>4. ASSUME NEW o, Poll(o) \/ IsDone(o) \/ Destroy(o) PROVE UNCHANGED posts /\ pc' # "post"
  BY <1>4 DEF Poll, IsDone, Destroy
<1>5. ASSUME NEW o, NEW shadow, Prepare(o, shadow) PROVE UNCHANGED posts /\ pc' # "post"
  BY <1>5 DEF Prepare
<1>6. ASSUME NEW o, Start(o) \/ UpdateCheck(o) \/ Completing(o)
      PROVE UNCHANGED posts /\ pc' # "post"
  BY <1>6 DEF Start, UpdateCheck, Completing
<1> QED
  BY <1>1, <1>2, <1>3, <1>4, <1>5, <1>6 DEF Advance

LEMMA PostInductive == TypeInv /\ PostInv /\ [Next]_vars => PostInv'
<1> SUFFICES ASSUME TypeInv, PostInv, [Next]_vars PROVE PostInv'
  OBVIOUS
<1>1. CASE Webhook
  BY <1>1, PostFrame DEF Webhook, Accept, Offer, github, advance
<1>2. CASE AlarmFires \/ Crash
  BY <1>2, PostFrame DEF AlarmFires, Crash, github
<1>3. CASE Retire
  BY <1>3, PostFrame DEF Retire, RetireCancel, RetireComplete, RetireDone, OfferOne,
     OffersDone, github, advance
<1>4. CASE Environment
  BY <1>4, PostFrame DEF Environment, JobSteps, JobBegins, JobRecords, JobEnds,
     CancelledRecords, CancelGoesOn, Tick, BackoffElapses, github, advance
<1>5. ASSUME NEW o \in {"ok", "down", "refused", "moved"}, Revalidate(o) PROVE PostInv'
  <2>1. UNCHANGED posts /\ (pc' = "post" => ~Marked /\ UNCHANGED mem)
    BY <1>5 DEF Revalidate, Caught, EndAs, End, Goto, github, advance
  <2> QED
    BY <2>1 DEF PostInv, PostedOnce, Marked
<1>6. ASSUME NEW o \in GitHub \union {"broken"}, Post(o) PROVE PostInv'
  <2>1. pc' # "post"
    BY <1>6 DEF Post, Caught, EndAs, End, Goto, GitHub, Transient
  <2>2. posts' = posts \/ posts' = [posts EXCEPT ![mem.review] = @ + 1]
    BY <1>6 DEF Post
  <2>3. mem.review \in ReviewIds => posts[mem.review] = 0
    BY <1>6 DEF Post, PostInv, Marked, TypeInv, TypeOK, WorldOK
  <2> QED
    BY <2>1, <2>2, <2>3 DEF PostInv, PostedOnce, TypeInv, TypeOK, WorldOK
<1>7. CASE Advance
  BY <1>5, <1>6, <1>7, StepsElsewhere, PostFrame
<1>8. CASE UNCHANGED vars
  BY <1>8, PostFrame DEF vars, github, advance
<1> QED
  BY <1>1, <1>2, <1>3, <1>4, <1>7, <1>8 DEF Next

\* However many calls fail, answers are lost and handlers crash, no review is on
\* a pull request twice (publish).
THEOREM PostsOnce == Spec => []PostedOnce
<1>1. Init => PostInv
  BY DEF Init, PostInv, PostedOnce
<1>2. PostInv => PostedOnce
  BY DEF PostInv
<1> QED
  BY <1>1, <1>2, PostInductive, TypeCorrect, PTL DEF Spec

-----------------------------------------------------------------------------
(* A handler of an older generation changes nothing *)

\* Where the handler goes on with what it read of the current generation.
Active == Pcs \ {"idle", "retire", "complete", "offer", "advance"}

\* What the handler goes on with is unfinished, and is what is stored unless a
\* newer generation is.
SyncInv == /\ mem.gen <= current.gen
           /\ pc \in Active => /\ mem.phase \notin {"none", "done"}
                               /\ Owns(mem) => current = mem

\* What CurrentOnlyAdvances says of a step that accepts no webhook.
Keeps == /\ current'.gen = current.gen
         /\ current.phase = "done" => current'.phase = "done"
         /\ current.retried => current'.retried
         /\ current.check # 0 => current'.check = current.check

\* How a step of advance may change what it goes on with.
Successor(s) == /\ s \in AppReview /\ s.gen = mem.gen
                /\ mem.retried => s.retried
                /\ mem.check # 0 => s.check = mem.check

SyncStep == SyncInv' /\ Keeps

LEMMA EndSync ==
  ASSUME TypeInv, SyncInv, pc \in Active, NEW retry, End(retry),
         \/ UNCHANGED current
         \/ \E s : Successor(s) /\ current' = IF Owns(mem) THEN s ELSE current
  PROVE  SyncStep
<1>1. pc' = "idle" /\ mem' = NoReview
  BY DEF End, Forget
<1>2. current' \in AppReview /\ Keeps
  BY DEF SyncInv, Keeps, Successor, TypeInv, TypeOK, StorageOK, HandlerOK, AppReview, Owns
<1> QED
  BY <1>1, <1>2 DEF SyncStep, SyncInv, NoReview, AppReview, Active

LEMMA GotoSync ==
  ASSUME TypeInv, SyncInv, pc \in Active, NEW label, Goto(label),
         UNCHANGED <<current, mem>>
  PROVE  SyncStep
BY DEF Goto, SyncStep, SyncInv, Keeps, Owns, TypeInv, TypeOK, StorageOK, AppReview

LEMMA SaveAndSync ==
  ASSUME TypeInv, SyncInv, pc \in Active, NEW s, Successor(s),
         s.phase \notin {"none", "done"}, NEW label, SaveAnd(s, label)
  PROVE  SyncStep
<1>1. CASE Owns(s)
  <2>1. current' = s /\ mem' = s /\ s.gen \in Nat
    BY <1>1 DEF SaveAnd, Successor, AppReview
  <2>2. Keeps
    BY <1>1, <2>1 DEF SyncInv, Keeps, Successor, Owns
  <2> QED
    BY <1>1, <2>1, <2>2 DEF SyncStep, SyncInv
<1>2. CASE ~Owns(s)
  BY <1>2, EndSync DEF SaveAnd
<1> QED
  BY <1>1, <1>2

LEMMA EndAsSync ==
  ASSUME TypeInv, SyncInv, pc \in Active, NEW e, EndAs(e)
  PROVE  SyncStep
BY GotoSync DEF EndAs

LEMMA MemUpdates ==
  ASSUME TypeInv
  PROVE  /\ \A p \in Phases : LET s == [mem EXCEPT !.phase = p]
                              IN  Successor(s) /\ s.phase = p
         /\ Successor([mem EXCEPT !.retried = TRUE, !.review = 0, !.age = 0,
                                  !.phase = "pending"])
         /\ \A c \in CheckIds : LET s == [mem EXCEPT !.check = c]
              IN  mem.check = 0 => Successor(s) /\ s.phase = mem.phase
         /\ LET s == [mem EXCEPT !.base = TRUE]
            IN  Successor(s) /\ s.phase = mem.phase
         /\ \A b \in BOOLEAN, r \in ReviewIds :
              LET s == [mem EXCEPT !.shadow = b, !.review = r]
              IN  Successor(s) /\ s.phase = mem.phase
<1>1. mem \in AppReview
  BY DEF TypeInv, TypeOK, HandlerOK
<1>2. ASSUME NEW p \in Phases
      PROVE  LET s == [mem EXCEPT !.phase = p] IN Successor(s) /\ s.phase = p
  <2>1. [mem EXCEPT !.phase = p] \in AppReview
    BY <1>1, AppReviewUpdates
  <2> QED
    BY <1>1, <2>1 DEF Successor, AppReview
<1>3. Successor([mem EXCEPT !.retried = TRUE, !.review = 0, !.age = 0, !.phase = "pending"])
  <2>1. [mem EXCEPT !.retried = TRUE, !.review = 0, !.age = 0, !.phase = "pending"]
           \in AppReview
    BY <1>1, RetriedType
  <2> QED
    BY <1>1, <2>1 DEF Successor, AppReview
<1>4. ASSUME NEW c \in CheckIds, mem.check = 0
      PROVE  LET s == [mem EXCEPT !.check = c] IN Successor(s) /\ s.phase = mem.phase
  <2>1. [mem EXCEPT !.check = c] \in AppReview
    BY <1>1, AppReviewUpdates
  <2> QED
    BY <1>1, <1>4, <2>1 DEF Successor, AppReview
<1>5. LET s == [mem EXCEPT !.base = TRUE] IN Successor(s) /\ s.phase = mem.phase
  <2>1. [mem EXCEPT !.base = TRUE] \in AppReview
    BY <1>1, AppReviewUpdates
  <2> QED
    BY <1>1, <2>1 DEF Successor, AppReview
<1>6. ASSUME NEW b \in BOOLEAN, NEW r \in ReviewIds
      PROVE  LET s == [mem EXCEPT !.shadow = b, !.review = r]
             IN  Successor(s) /\ s.phase = mem.phase
  <2>1. [mem EXCEPT !.shadow = b, !.review = r] \in AppReview
    BY <1>1, AppReviewUpdates
  <2> QED
    BY <1>1, <2>1 DEF Successor, AppReview
<1> QED
  BY <1>2, <1>3, <1>4, <1>5, <1>6

LEMMA CaughtSync ==
  ASSUME TypeInv, SyncInv, pc \in Active, NEW o, Caught(o)
  PROVE  SyncStep
<1>1. CASE o # "refused"
  BY <1>1, EndSync DEF Caught
<1>2. CASE o = "refused" /\ mem.check = 0
  <2>1. Successor([mem EXCEPT !.phase = "done"])
    BY MemUpdates DEF Phases
  <2> QED
    BY <1>2, <2>1, EndSync DEF Caught
<1>3. CASE o = "refused" /\ mem.check # 0
  BY <1>3, GotoSync DEF Caught
<1> QED
  BY <1>1, <1>2, <1>3

LEMMA SyncFrame ==
  ASSUME TypeInv, SyncInv, UNCHANGED <<current, mem>>, pc' \notin Active \/ UNCHANGED pc
  PROVE  SyncStep
BY DEF SyncStep, SyncInv, Keeps, Owns, TypeInv, TypeOK, StorageOK, AppReview

LEMMA AdvanceReadSync ==
  ASSUME TypeInv, SyncInv, AdvanceRead
  PROVE  SyncStep
<1>1. CASE current.phase \in {"none", "done"}
  BY <1>1 DEF AdvanceRead, storage, End, Forget, NoReview, SyncStep, SyncInv, Keeps, Active,
     TypeInv, TypeOK, StorageOK, AppReview
<1>2. CASE current.phase \notin {"none", "done"}
  BY <1>2 DEF AdvanceRead, storage, Goto, SyncStep, SyncInv, Keeps, Owns, Active,
     TypeInv, TypeOK, StorageOK, AppReview
<1> QED
  BY <1>1, <1>2

LEMMA StartingSync ==
  ASSUME TypeInv, SyncInv, NEW o,
         \/ Token(o) \/ MergeBase(o) \/ Start(o)
         \/ \E shadow \in BOOLEAN : Prepare(o, shadow)
  PROVE  SyncStep
<1>1. CASE Token(o)
  BY <1>1, GotoSync, CaughtSync DEF Token, Active, Pcs, advance
<1>2. CASE MergeBase(o)
  <2>1. mem.phase \notin {"none", "done"} /\ pc \in Active
    BY <1>2 DEF MergeBase, Active, Pcs, SyncInv
  <2> QED
    BY <1>2, <2>1, MemUpdates, SaveAndSync, CaughtSync DEF MergeBase
<1>3. CASE Start(o)
  <2>1. mem.phase \notin {"none", "done"} /\ pc \in Active
    BY <1>3 DEF Start, Active, Pcs, SyncInv
  <2> QED
    BY <1>3, <2>1, MemUpdates, SaveAndSync, CaughtSync DEF Start, Phases
<1>4. ASSUME NEW shadow \in BOOLEAN, Prepare(o, shadow) PROVE SyncStep
  <2>1. mem.phase \notin {"none", "done"} /\ pc \in Active
    BY <1>4 DEF Prepare, Active, Pcs, SyncInv
  <2>2. CASE o # "ok"
    BY <1>4, <2>1, <2>2, CaughtSync DEF Prepare
  <2>3. CASE o = "ok"
    <3> PICK r \in ReviewIds : SaveAnd([mem EXCEPT !.shadow = shadow, !.review = r], "start")
      BY <1>4, <2>3 DEF Prepare
    <3> DEFINE s == [mem EXCEPT !.shadow = shadow, !.review = r]
    <3>1. Successor(s) /\ s.phase = mem.phase
      BY MemUpdates
    <3> QED
      BY <2>1, <3>1, SaveAndSync
  <2> QED
    BY <2>2, <2>3
<1> QED
  BY <1>1, <1>2, <1>3, <1>4

LEMMA CheckSync ==
  ASSUME TypeInv, SyncInv, NEW o, CreateCheck(o) \/ KeepCheck \/ Disown(o)
  PROVE  SyncStep
<1>1. pc \in Active /\ mem.phase \notin {"none", "done"}
  BY DEF CreateCheck, KeepCheck, Disown, Active, Pcs, SyncInv
<1>2. ASSUME NEW s, Successor(s), s.phase = mem.phase, CreatedAs(s) PROVE SyncStep
  <2>1. CASE Owns(s)
    <3>1. current' = s /\ mem' = s /\ pc' = "merge" /\ s.gen \in Nat
      BY <1>2, <2>1 DEF CreatedAs, Goto, Successor, AppReview
    <3>2. Keeps
      BY <1>2, <2>1, <3>1, <1>1 DEF SyncInv, Keeps, Successor, Owns
    <3> QED
      BY <1>1, <1>2, <3>1, <3>2 DEF SyncStep, SyncInv
  <2>2. CASE ~Owns(s)
    <3>1. current' = current /\ mem' = s /\ pc' = "disown" /\ s.gen = mem.gen
      BY <1>2, <2>2 DEF CreatedAs, Goto, Successor
    <3> QED
      BY <1>1, <1>2, <2>2, <3>1 DEF SyncStep, SyncInv, Keeps, Owns, TypeInv, TypeOK,
         StorageOK, AppReview
  <2> QED
    BY <2>1, <2>2
<1>3. CASE CreateCheck(o)
  <2>1. CASE o # "ok"
    BY <1>1, <1>3, <2>1, CaughtSync DEF CreateCheck
  <2>2. CASE o = "ok"
    <3> PICK c \in CheckIds : CreatedAs([mem EXCEPT !.check = c])
      BY <1>3, <2>2 DEF CreateCheck
    <3> DEFINE s == [mem EXCEPT !.check = c]
    <3>1. Successor(s) /\ s.phase = mem.phase
      BY <1>3, MemUpdates DEF CreateCheck
    <3> QED
      BY <3>1, <1>2
  <2> QED
    BY <2>1, <2>2
<1>4. CASE KeepCheck
  <2>1. Successor(mem)
    BY DEF Successor, TypeInv, TypeOK, HandlerOK
  <2> QED
    BY <1>2, <1>4, <2>1 DEF KeepCheck
<1>5. CASE Disown(o)
  BY <1>1, <1>5, CaughtSync, EndSync DEF Disown
<1> QED
  BY <1>3, <1>4, <1>5

LEMMA WaitingSync ==
  ASSUME TypeInv, SyncInv, NEW o,
         Poll(o) \/ IsDone(o) \/ Progress \/ UpdateCheck(o) \/ Judge \/ Destroy(o)
  PROVE  SyncStep
<1>1. pc \in Active /\ mem.phase \notin {"none", "done"}
  BY DEF Poll, IsDone, Progress, UpdateCheck, Judge, Destroy, Active, Pcs, SyncInv
<1>2. CASE Poll(o)
  BY <1>1, <1>2, GotoSync, CaughtSync DEF Poll
<1>3. CASE IsDone(o)
  <2> DEFINE s == [mem EXCEPT !.phase = "publishing"]
  <2>1. Successor(s) /\ s.phase = "publishing"
    BY MemUpdates DEF Phases
  <2> QED
    BY <1>1, <1>3, <2>1, SaveAndSync, CaughtSync, EndAsSync, GotoSync DEF IsDone, advance
<1>4. CASE Progress
  BY <1>1, <1>4, EndSync, GotoSync DEF Progress, advance, storage
<1>5. CASE UpdateCheck(o)
  BY <1>1, <1>5, EndSync DEF UpdateCheck, storage
<1>6. CASE Judge
  BY <1>1, <1>6, EndAsSync, GotoSync DEF Judge, advance
<1>7. CASE Destroy(o)
  BY <1>1, <1>7, EndAsSync, EndSync, MemUpdates DEF Destroy
<1> QED
  BY <1>2, <1>3, <1>4, <1>5, <1>6, <1>7

LEMMA PublishingSync ==
  ASSUME TypeInv, SyncInv,
         \/ \E o \in {"ok", "down", "refused", "moved"} : Revalidate(o)
         \/ \E o \in GitHub \union {"broken"} : Post(o)
         \/ Finish
         \/ \E o \in GitHub : Completing(o)
  PROVE  SyncStep
<1>1. ASSUME NEW o \in {"ok", "down", "refused", "moved"}, Revalidate(o) PROVE SyncStep
  BY <1>1, EndAsSync, CaughtSync, GotoSync, EndSync DEF Revalidate, Active, Pcs, advance
<1>2. ASSUME NEW o \in GitHub \union {"broken"}, Post(o) PROVE SyncStep
  BY <1>2, EndAsSync, CaughtSync DEF Post, Active, Pcs, GitHub, Transient
<1>3. CASE Finish
  BY <1>3, GotoSync, EndSync DEF Finish, Active, Pcs, advance, storage
<1>4. ASSUME NEW o \in GitHub, Completing(o) PROVE SyncStep
  <2>1. Successor([mem EXCEPT !.phase = "done"])
    BY MemUpdates DEF Phases
  <2> QED
    BY <1>4, <2>1, CaughtSync, EndSync DEF Completing, Active, Pcs
<1> QED
  BY <1>1, <1>2, <1>3, <1>4

LEMMA AdvanceSync ==
  ASSUME TypeInv, SyncInv, Advance
  PROVE  SyncStep
BY AdvanceReadSync, StartingSync, CheckSync, WaitingSync, PublishingSync DEF Advance

LEMMA AcceptSync ==
  ASSUME TypeInv, SyncInv, NEW d \in Deliveries, Accept(d)
  PROVE  SyncInv' /\ current'.gen = current.gen + 1
BY DEF Accept, NextGeneration, NoReview, advance, SyncInv, Owns, TypeInv, TypeOK, StorageOK, HandlerOK,
   AppReview

LEMMA SyncInductive ==
  ASSUME TypeInv, SyncInv, [Next]_vars, ~ \E d \in Deliveries : Accept(d)
  PROVE  SyncStep
<1>1. ASSUME NEW d \in OfferDeliveries, Offer(d) PROVE SyncStep
  BY <1>1, SyncFrame DEF Offer, advance
<1>2. CASE AlarmFires
  BY <1>2, SyncFrame DEF AlarmFires, advance, storage, Active
<1>3. CASE Crash
  BY <1>3 DEF Crash, Forget, NoReview, storage, Active, SyncStep, SyncInv, Keeps,
     TypeInv, TypeOK, StorageOK, AppReview
<1>4. CASE Retire
  BY <1>4, SyncFrame DEF Retire, RetireCancel, RetireComplete, RetireDone, OfferOne,
     OffersDone, storage, advance, Active
<1>5. CASE Tick
  BY <1>5 DEF Tick, advance, Active, SyncStep, SyncInv, Keeps, TypeInv, TypeOK,
     StorageOK, AppReview
<1>6. CASE Environment /\ ~Tick
  BY <1>6, SyncFrame DEF Environment, JobSteps, JobBegins, JobRecords, JobEnds,
     CancelledRecords, CancelGoesOn, BackoffElapses, storage, advance
<1>7. CASE UNCHANGED vars
  BY <1>7, SyncFrame DEF vars, storage, advance
<1> QED
  BY <1>1, <1>2, <1>3, <1>4, <1>5, <1>6, <1>7, AdvanceSync DEF Next, Webhook

\* A finished generation is not brought back, a retried one is not forgotten, and
\* a newer one is not replaced, whatever handler was under way (save).
THEOREM CurrentAdvances == Spec => CurrentOnlyAdvances
<1> DEFINE Advances == \/ current'.gen > current.gen
                       \/ /\ current'.gen = current.gen
                          /\ current.phase = "done" => current'.phase = "done"
                          /\ current.retried => current'.retried
                          /\ current.check # 0 => current'.check = current.check
<1>1. Init => SyncInv
  BY DEF Init, SyncInv, NoReview, Active
<1>2. TypeInv /\ SyncInv /\ [Next]_vars => SyncInv' /\ Advances
  <2>1. \A d \in Deliveries : TypeInv /\ SyncInv /\ Accept(d) => current'.gen > current.gen
    BY AcceptSync DEF TypeInv, TypeOK, StorageOK, AppReview
  <2> QED
    BY <2>1, AcceptSync, SyncInductive DEF SyncStep, Keeps
<1>3. CurrentOnlyAdvances <=> [][Advances]_vars
  BY DEF CurrentOnlyAdvances
<1> QED
  BY <1>1, <1>2, <1>3, TypeCorrect, PTL DEF Spec

-----------------------------------------------------------------------------
(* A delivery starts one generation *)

DeliveryInv == IsFiniteSet(delivered) /\ OneGenerationPerDelivery

LEMMA CardinalityMonotone ==
  ASSUME NEW S, IsFiniteSet(S), NEW d, NEW n \in Nat, n <= Cardinality(S \intersect Deliveries)
  PROVE  /\ IsFiniteSet(S \union {d})
         /\ n <= Cardinality((S \union {d}) \intersect Deliveries)
         /\ d \in Deliveries /\ d \notin S =>
              n + 1 <= Cardinality((S \union {d}) \intersect Deliveries)
<1> DEFINE D == S \intersect Deliveries
<1>1. IsFiniteSet(D) /\ Cardinality(D) \in Nat
  BY FS_Intersection, FS_CardinalityType
<1>2. IsFiniteSet(S \union {d})
  BY FS_AddElement
<1>3. CASE d \notin Deliveries
  <2>1. (S \union {d}) \intersect Deliveries = D
    BY <1>3
  <2> QED
    BY <1>2, <1>3, <2>1
<1>4. CASE d \in S
  <2>1. (S \union {d}) \intersect Deliveries = D
    BY <1>4
  <2> QED
    BY <1>2, <1>4, <2>1
<1>5. CASE d \in Deliveries /\ d \notin S
  <2>1. (S \union {d}) \intersect Deliveries = D \union {d} /\ d \notin D
    BY <1>5
  <2>2. Cardinality(D \union {d}) = Cardinality(D) + 1
    BY <1>1, <2>1, FS_AddElement
  <2>3. Cardinality((S \union {d}) \intersect Deliveries) = Cardinality(D) + 1
    BY <2>1, <2>2
  <2>4. n <= Cardinality(D)
    OBVIOUS
  <2> HIDE DEF D
  <2> QED
    BY <1>1, <1>2, <2>3, <2>4
<1> QED
  BY <1>3, <1>4, <1>5

LEMMA DeliveryInductive ==
  ASSUME TypeInv, SyncInv, DeliveryInv, [Next]_vars
  PROVE  DeliveryInv'
<1>1. current.gen \in Nat
  BY DEF TypeInv, TypeOK, StorageOK, AppReview
<1>2. ASSUME NEW d \in Deliveries, Accept(d) PROVE DeliveryInv'
  <2>1. d \notin delivered /\ delivered' = delivered \union {d}
    BY <1>2 DEF Accept, NextGeneration, Duplicate
  <2>2. current'.gen = current.gen + 1
    BY <1>2, AcceptSync
  <2> QED
    BY <1>1, <2>1, <2>2, CardinalityMonotone DEF DeliveryInv, OneGenerationPerDelivery
<1>3. CASE ~ \E d \in Deliveries : Accept(d)
  <2>1. current'.gen = current.gen
    BY <1>3, SyncInductive DEF SyncStep, Keeps
  <2>2. UNCHANGED delivered \/ \E d \in OfferDeliveries : delivered' = delivered \union {d}
    <3>1. CASE Webhook
      BY <1>3, <3>1 DEF Webhook, Offer
    <3>2. CASE AlarmFires \/ Crash \/ Environment
      BY <3>2 DEF AlarmFires, Crash, Environment, JobSteps, JobBegins, JobRecords, JobEnds,
         CancelledRecords, CancelGoesOn, Tick, BackoffElapses, storage
    <3>3. CASE Retire
      BY <3>3 DEF Retire, RetireCancel, RetireComplete, RetireDone, OfferOne, OffersDone,
         storage
    <3>4. CASE Advance
      BY <3>4 DEF Advance, AdvanceRead, Token, CreateCheck, KeepCheck, Disown, MergeBase,
         Prepare, Start, Poll, IsDone, Progress, UpdateCheck, Judge, Destroy, Revalidate,
         Post, Finish, Completing, storage
    <3>5. CASE UNCHANGED vars
      BY <3>5 DEF vars, storage
    <3> QED
      BY <3>1, <3>2, <3>3, <3>4, <3>5 DEF Next
  <2> QED
    BY <1>1, <2>1, <2>2, CardinalityMonotone DEF DeliveryInv, OneGenerationPerDelivery
<1> QED
  BY <1>2, <1>3

\* A webhook delivered again starts nothing (accept).
THEOREM DeliveredOnce == Spec => []OneGenerationPerDelivery
<1>1. Init => SyncInv /\ DeliveryInv
  <2>1. {} \intersect Deliveries = {}
    OBVIOUS
  <2> QED
    BY <2>1, FS_EmptySet DEF Init, SyncInv, NoReview, Active, DeliveryInv,
       OneGenerationPerDelivery
<1>2. TypeInv /\ SyncInv /\ [Next]_vars => SyncInv'
  BY AcceptSync, SyncInductive DEF SyncStep
<1>3. TypeInv /\ SyncInv /\ DeliveryInv /\ [Next]_vars => DeliveryInv'
  BY DeliveryInductive
<1>4. DeliveryInv => OneGenerationPerDelivery
  BY DEF DeliveryInv
<1> QED
  BY <1>1, <1>2, <1>3, <1>4, TypeCorrect, PTL DEF Spec

-----------------------------------------------------------------------------
(* No check is forgotten, and none reopened *)

\* What is known of a superseded generation: as stored, and as the handler that
\* retires it holds it.
Entries == superseded \union todo \union patched
             \union (IF pc = "complete" THEN {entry} ELSE {})

\* The entries of one generation name one check, and only older generations are
\* retired.
ListInv ==
  /\ \A x, y \in Entries : x.gen = y.gen => x.check = y.check
  /\ \A x \in Entries : x.gen < current.gen
  /\ \A g \in retired : g < current.gen
  /\ pc \notin {"retire", "complete"} => todo = {} /\ patched = {} /\ retired = {}

Queued(c) == \E e \in superseded : e.check = c

\* Every stored check exists on GitHub; the current one is the current
\* generation's; a handler about to update a check of an older generation finds
\* it in the list; and what is about to leave the list has been completed.
CheckInv ==
  /\ NoCheckForgotten
  /\ \A c \in recorded : c \in CheckIds /\ checks[c].state # "absent"
  /\ current.check # 0 => /\ current.check \in recorded
                          /\ checks[current.check].gen = current.gen
  /\ pc = "updating" /\ ~Owns(mem) => mem.check = 0 \/ Queued(mem.check)
  /\ \A e \in superseded :
       e.gen \in retired => e.check \in waived \/ checks[e.check].state # "open"

\* A step of advance leaves the superseded list alone.
LEMMA AdvanceKeepsList ==
  ASSUME Advance
  PROVE  /\ UNCHANGED <<superseded, waivedHeads, dismissed>>
         /\ pc \notin {"idle", "retire", "complete", "offer"}
         /\ pc' \notin {"retire", "complete", "offer", "advance"}
         /\ UNCHANGED retire \/ (todo' = {} /\ patched' = {} /\ retired' = {})
<1> USE DEF Caught, SaveAnd, EndAs, End, Forget, Goto, github, storage, history
<1>1. CASE AdvanceRead \/ KeepCheck \/ Progress \/ Judge \/ Finish
  BY <1>1 DEF AdvanceRead, KeepCheck, CreatedAs, Progress, Judge, Finish
<1>2. CASE \E o : Token(o) \/ MergeBase(o)
  BY <1>2 DEF Token, MergeBase
<1>3. CASE \E o : CreateCheck(o) \/ Disown(o)
  BY <1>3 DEF CreateCheck, CreatedAs, Disown
<1>4. CASE \E o : Poll(o) \/ IsDone(o) \/ Destroy(o)
  BY <1>4 DEF Poll, IsDone, Destroy
<1>5. CASE \E o, shadow : Prepare(o, shadow)
  BY <1>5 DEF Prepare
<1>6. CASE \E o : Start(o) \/ UpdateCheck(o) \/ Completing(o)
  BY <1>6 DEF Start, UpdateCheck, Completing
<1>7. CASE \E o \in {"ok", "down", "refused", "moved"} : Revalidate(o)
  BY <1>7 DEF Revalidate
<1>8. CASE \E o \in GitHub \union {"broken"} : Post(o)
  BY <1>8 DEF Post, GitHub, Transient
<1> QED
  BY <1>1, <1>2, <1>3, <1>4, <1>5, <1>6, <1>7, <1>8 DEF Advance

\* An entry is what a newer request left of the current generation, or what is
\* known already of a superseded one, with its failures counted.
EntriesFrom(x, y) == x.gen = y.gen /\ x.check = y.check /\ x.review = y.review

LEMMA EntryUpdates ==
  ASSUME NEW e \in Retiree
  PROVE  /\ EntriesFrom([e EXCEPT !.cancelFails = RetireAttempts], e)
         /\ EntriesFrom([e EXCEPT !.cancelFails = @ + 1], e)
         /\ EntriesFrom([e EXCEPT !.due = TRUE], e)
         /\ EntriesFrom(CompletionFailed(e), e)
BY DEF EntriesFrom, Retiree, CompletionFailed

LEMMA EntriesChange ==
  ASSUME TypeInv, [Next]_vars, NEW x \in Entries'
  PROVE  \/ \E y \in Entries : EntriesFrom(x, y)
         \/ (\E d \in Deliveries : Accept(d)) /\ x = Retiring(current)
<1>1. \A y \in Entries : EntriesFrom(y, y)
  BY DEF EntriesFrom
<1>2. ASSUME NEW d \in Deliveries, Accept(d) PROVE x \in Entries \/ x = Retiring(current)
  BY <1>2 DEF Accept, Entries, retire
<1>3. ASSUME NEW e \in todo, NEW o \in Transient, RetireCancel(e, o)
      PROVE  x \in Entries \/ EntriesFrom(x, e)
  <2>1. e \in Retiree
    BY DEF TypeInv, TypeOK, HandlerOK
  <2> QED
    BY <1>3, <2>1, EntryUpdates DEF RetireCancel, Entries, storage
<1>4. ASSUME NEW o \in GitHub, RetireComplete(o) PROVE x \in Entries \/ EntriesFrom(x, entry)
  <2>1. entry \in Retiree
    BY <1>4 DEF RetireComplete, TypeInv
  <2> QED
    BY <1>4, <2>1, EntryUpdates DEF RetireComplete, Entries, storage
<1>5. ASSUME NEW e \in superseded, BackoffElapses(e) PROVE x \in Entries \/ EntriesFrom(x, e)
  <2>1. e \in Retiree
    BY DEF TypeInv, TypeOK, StorageOK
  <2> QED
    BY <1>5, <2>1, EntryUpdates DEF BackoffElapses, Entries, retire
<1>6. CASE RetireDone
  BY <1>1, <1>6 DEF RetireDone, StillSuperseded, Entries
<1>7. CASE \/ \E d \in OfferDeliveries : Offer(d)
           \/ \E d \in offering, o \in GitHub : OfferOne(d, o)
           \/ OffersDone \/ Tick
           \/ \E r \in ReviewIds : JobSteps(r)
           \/ UNCHANGED vars
  BY <1>1, <1>7 DEF Offer, OfferOne, OffersDone, Tick, JobSteps, JobBegins, JobRecords, JobEnds,
     CancelledRecords, CancelGoesOn, vars, Entries, retire, storage
<1>8. CASE AlarmFires \/ Crash
  BY <1>1, <1>8 DEF AlarmFires, Crash, Forget, Entries, storage
<1>9. CASE Advance
  BY <1>1, <1>9, AdvanceKeepsList DEF Entries, retire
<1>10. entry \in Entries \/ pc # "complete"
  BY DEF Entries
<1>11. \A o \in GitHub : RetireComplete(o) => pc = "complete"
  BY DEF RetireComplete
<1>12. todo \subseteq Entries /\ superseded \subseteq Entries
  BY DEF Entries
<1> QED
  BY <1>1, <1>2, <1>3, <1>4, <1>5, <1>6, <1>7, <1>8, <1>9, <1>10, <1>11, <1>12
     DEF Next, Webhook, Retire, Environment

LEMMA RetiredChange ==
  ASSUME TypeInv, ListInv, [Next]_vars
  PROVE  /\ \A g \in retired' : g \in retired \/ \E y \in Entries : g = y.gen
         /\ pc' \notin {"retire", "complete"} => todo' = {} /\ patched' = {} /\ retired' = {}
<1>1. CASE Advance
  BY <1>1, AdvanceKeepsList DEF ListInv, retire
<1>2. ASSUME NEW o \in GitHub, RetireComplete(o)
      PROVE  pc' = "retire" /\ \A g \in retired' : g \in retired \/ \E y \in Entries : g = y.gen
  BY <1>2 DEF RetireComplete, Entries
<1>3. CASE Retire /\ ~ \E o \in GitHub : RetireComplete(o)
  BY <1>3 DEF Retire, RetireCancel, RetireDone, OfferOne, OffersDone, ListInv, retire
<1>4. CASE Webhook \/ AlarmFires \/ Crash \/ UNCHANGED vars
  BY <1>4 DEF Webhook, Accept, Offer, AlarmFires, Crash, Forget, vars, ListInv, retire
<1>5. CASE Environment
  BY <1>5 DEF Environment, JobSteps, JobBegins, JobRecords, JobEnds, CancelledRecords, CancelGoesOn, Tick,
     BackoffElapses, ListInv, retire
<1> QED
  BY <1>1, <1>2, <1>3, <1>4, <1>5 DEF Next, Retire

\* A new request gives the next generation its number; no other step does.
LEMMA GenChange ==
  ASSUME TypeInv, SyncInv, [Next]_vars
  PROVE  /\ current.gen \in Nat
         /\ (\E d \in Deliveries : Accept(d)) => current'.gen = current.gen + 1
         /\ ~(\E d \in Deliveries : Accept(d)) => current'.gen = current.gen
BY AcceptSync, SyncInductive DEF SyncStep, Keeps, TypeInv, TypeOK, StorageOK, AppReview

LEMMA ListInductive ==
  ASSUME TypeInv, SyncInv, ListInv, [Next]_vars
  PROVE  ListInv'
<1>1. \A y \in Entries : y.gen \in Nat /\ y.gen < current.gen
  BY DEF Entries, ListInv, TypeInv, TypeOK, StorageOK, HandlerOK, Retiree
<1>2. Retiring(current).gen = current.gen
  BY DEF Retiring
<1>3. ASSUME NEW x \in Entries' PROVE x.gen < current'.gen
  BY <1>1, <1>2, EntriesChange, GenChange DEF EntriesFrom
<1>4. ASSUME NEW x \in Entries', NEW y \in Entries', x.gen = y.gen PROVE x.check = y.check
  <2>1. CASE x = Retiring(current) \/ y = Retiring(current)
    BY <1>1, <1>2, <1>4, <2>1, EntriesChange, GenChange DEF EntriesFrom
  <2>2. CASE x # Retiring(current) /\ y # Retiring(current)
    BY <1>4, <2>2, EntriesChange DEF EntriesFrom, ListInv
  <2> QED
    BY <2>1, <2>2
<1>5. ASSUME NEW g \in retired' PROVE g < current'.gen
  <2>1. g \in Nat /\ g < current.gen
    BY <1>1, RetiredChange DEF ListInv, TypeInv, TypeOK, HandlerOK
  <2> QED
    BY <2>1, GenChange
<1> QED
  BY <1>3, <1>4, <1>5, RetiredChange DEF ListInv

\* What a step of advance that neither creates nor completes a check does to the
\* current generation's.
Quiet == /\ UNCHANGED <<checks, recorded, waived>>
         /\ current'.check = current.check
         /\ current'.phase = "done" => current.phase = "done" \/ current.check = 0
         /\ pc' = "updating" => Owns(mem) /\ UNCHANGED mem

LEMMA CaughtQuiet ==
  ASSUME TypeInv, SyncInv, pc \in Active, NEW o, Caught(o), UNCHANGED <<checks, recorded, waived>>
  PROVE  Quiet
<1>1. CASE o = "refused" /\ mem.check = 0
  <2>1. mem \in AppReview
    BY DEF TypeInv, TypeOK, HandlerOK
  <2> QED
    BY <1>1, <2>1 DEF Caught, End, Owns, SyncInv, Quiet, AppReview
<1>2. CASE ~(o = "refused" /\ mem.check = 0)
  BY <1>2 DEF Caught, End, Goto, Quiet
<1> QED
  BY <1>1, <1>2

LEMMA SaveAndQuiet ==
  ASSUME TypeInv, SyncInv, pc \in Active, NEW s, s.check = mem.check, s.gen = mem.gen,
         s.phase # "done", NEW label \in Pcs \ {"updating"}, SaveAnd(s, label),
         UNCHANGED <<checks, recorded, waived>>
  PROVE  Quiet
BY DEF SaveAnd, End, Goto, Owns, SyncInv, Quiet

LEMMA AdvanceQuiet ==
  ASSUME TypeInv, SyncInv, Advance,
         ~ \E o \in GitHub : CreateCheck(o) \/ Disown(o) \/ UpdateCheck(o) \/ Completing(o),
         ~ KeepCheck
  PROVE  Quiet
<1> USE DEF github, history, storage
<1>1. CASE AdvanceRead \/ Judge \/ Finish
  BY <1>1 DEF AdvanceRead, Judge, Finish, EndAs, End, Goto, Quiet
<1>2. CASE Progress
  BY <1>2 DEF Progress, End, Goto, Quiet, advance
<1>3. ASSUME NEW o \in {"ok", "down", "refused"}, Token(o) PROVE Quiet
  BY <1>3, CaughtQuiet DEF Token, Goto, Quiet, Active, Pcs
<1>4. mem \in AppReview /\ (pc \in Active => mem.phase # "done")
  BY DEF TypeInv, TypeOK, HandlerOK, SyncInv
<1>5. ASSUME NEW o \in {"ok", "down", "refused"}, MergeBase(o) PROVE Quiet
  <2> DEFINE s == [mem EXCEPT !.base = TRUE]
  <2>1. s.check = mem.check /\ s.gen = mem.gen /\ s.phase = mem.phase
    BY <1>4 DEF AppReview
  <2> QED
    BY <1>4, <1>5, <2>1, CaughtQuiet, SaveAndQuiet DEF MergeBase, Active, Pcs
<1>6. ASSUME NEW o \in {"ok", "down"}, NEW shadow \in BOOLEAN, Prepare(o, shadow) PROVE Quiet
  <2>1. ASSUME NEW r \in ReviewIds
        PROVE  LET s == [mem EXCEPT !.shadow = shadow, !.review = r]
               IN  s.check = mem.check /\ s.gen = mem.gen /\ s.phase = mem.phase
    BY <1>4 DEF AppReview
  <2>2. CASE o # "ok"
    BY <1>6, <2>2, CaughtQuiet DEF Prepare, Active, Pcs
  <2>3. CASE o = "ok"
    <3> PICK r \in ReviewIds : SaveAnd([mem EXCEPT !.shadow = shadow, !.review = r], "start")
      BY <1>6, <2>3 DEF Prepare
    <3> QED
      BY <1>4, <1>6, <2>1, SaveAndQuiet DEF Prepare, Active, Pcs
  <2> QED
    BY <2>2, <2>3
<1>7. ASSUME NEW o \in Transient, Start(o) PROVE Quiet
  <2> DEFINE s == [mem EXCEPT !.phase = "running"]
  <2>1. s.check = mem.check /\ s.gen = mem.gen /\ s.phase = "running"
    BY <1>4 DEF AppReview
  <2> QED
    BY <1>4, <1>7, <2>1, CaughtQuiet, SaveAndQuiet DEF Start, Active, Pcs
<1>8. ASSUME NEW o \in {"ok", "down"}, Poll(o) PROVE Quiet
  BY <1>8, CaughtQuiet DEF Poll, Goto, Quiet, Active, Pcs
<1>9. ASSUME NEW o \in {"ok", "down"}, IsDone(o) PROVE Quiet
  <2> DEFINE s == [mem EXCEPT !.phase = "publishing"]
  <2>1. s.check = mem.check /\ s.gen = mem.gen /\ s.phase = "publishing"
    BY <1>4 DEF AppReview
  <2>2. CASE o # "ok"
    BY <1>9, <2>2, CaughtQuiet DEF IsDone, Active, Pcs
  <2>3. CASE SaveAnd(s, "judge")
    BY <1>9, <2>1, <2>3, SaveAndQuiet DEF IsDone, Active, Pcs
  <2>4. CASE UNCHANGED current /\ pc' # "updating"
    BY <1>9, <2>4 DEF IsDone, Quiet
  <2> QED
    BY <1>9, <2>2, <2>3, <2>4 DEF IsDone, EndAs, Goto
<1>10. ASSUME NEW o \in {"ok", "down"}, Destroy(o) PROVE Quiet
  BY <1>4, <1>10 DEF Destroy, EndAs, End, Goto, Quiet, Owns, SyncInv, Active, Pcs, AppReview
<1>11. ASSUME NEW o \in {"ok", "down", "refused", "moved"}, Revalidate(o) PROVE Quiet
  <2>1. CASE Caught(o)
    BY <1>11, <2>1, CaughtQuiet DEF Revalidate, Active, Pcs
  <2>2. CASE ~Caught(o)
    BY <1>11, <2>2 DEF Revalidate, EndAs, End, Goto, Quiet
  <2> QED
    BY <2>1, <2>2
<1>12. ASSUME NEW o \in GitHub \union {"broken"}, Post(o) PROVE Quiet
  <2>1. EndAs("published") \/ EndAs("neutral") \/ Caught(o)
    BY <1>12 DEF Post, GitHub, Transient
  <2> QED
    BY <1>12, <2>1, CaughtQuiet DEF Post, EndAs, Goto, Quiet, Active, Pcs
<1> QED
  BY <1>1, <1>2, <1>3, <1>5, <1>6, <1>7, <1>8, <1>9, <1>10, <1>11, <1>12 DEF Advance

LEMMA CheckFrame ==
  ASSUME TypeInv, SyncInv, ListInv, CheckInv, Quiet, current'.gen = current.gen,
         UNCHANGED superseded, UNCHANGED retired \/ retired' = {}
  PROVE  CheckInv'
<1>1. NoCheckForgotten'
  <2>1. \A c \in recorded : c # 0
    BY DEF CheckInv, CheckIds
  <2> QED
    BY <2>1 DEF Quiet, CheckInv, NoCheckForgotten
<1>2. current'.check # 0 => current'.check \in recorded' /\ checks'[current'.check].gen = current'.gen
  BY DEF Quiet, CheckInv
<1>3. pc' = "updating" /\ ~Owns(mem)' => FALSE
  BY DEF Quiet, Owns
<1> QED
  BY <1>1, <1>2, <1>3 DEF Quiet, CheckInv, Queued

LEMMA CreateCheckInv ==
  ASSUME TypeInv, SyncInv, ListInv, CheckInv, NEW o \in GitHub, CreateCheck(o)
  PROVE  CheckInv'
<1> PICK c \in CheckIds :
      /\ FreshCheck(c)
      /\ checks' = IF Applied(o)
                   THEN [checks EXCEPT ![c].state = "open", ![c].gen = mem.gen]
                   ELSE checks
      /\ IF o = "ok" THEN CreatedAs([mem EXCEPT !.check = c])
         ELSE Caught(o) /\ UNCHANGED recorded
  BY DEF CreateCheck
<1> DEFINE s == [mem EXCEPT !.check = c]
<1>1. /\ mem.check = 0 /\ c # 0 /\ c \notin recorded /\ pc = "create" /\ pc \in Active
      /\ mem \in AppReview
  BY DEF CreateCheck, CheckInv, FreshCheck, CheckIds, Active, Pcs, TypeInv, TypeOK, HandlerOK
<1>2. s.check = c /\ s.gen = mem.gen /\ s.phase = mem.phase
  BY <1>1 DEF AppReview
<1>3. /\ \A b \in CheckIds \ {c} : checks'[b] = checks[b]
      /\ Applied(o) => checks'[c].state = "open" /\ checks'[c].gen = mem.gen
      /\ ~Applied(o) => checks' = checks
  BY DEF TypeInv, TypeOK, WorldOK, Check
<1>4. UNCHANGED <<superseded, waived>> /\ retired' = {} /\ retired = {} /\ pc' # "updating"
  BY <1>1 DEF CreateCheck, CreatedAs, Caught, End, Forget, Goto, retire, ListInv
<1>5. \/ UNCHANGED recorded /\ UNCHANGED current
      \/ UNCHANGED recorded /\ current.check = 0 /\ current'.check = 0
      \/ /\ o = "ok" /\ current.check = 0 /\ current' = s
         /\ recorded' = recorded \union {c}
  BY <1>1, <1>2 DEF CreatedAs, Caught, End, Owns, SyncInv, AppReview
<1>6. o = "ok" => Applied(o)
  BY DEF Applied
<1>7. \A b \in recorded : b \in CheckIds \ {c}
  BY <1>1 DEF CheckInv
<1>8. NoCheckForgotten'
  <2>1. s.phase # "done"
    BY <1>1, <1>2 DEF SyncInv
  <2>2. \A b \in recorded : b # 0
    BY DEF CheckInv, CheckIds
  <2>3. ASSUME NEW b \in recorded \ waived, checks'[b].state = "open"
        PROVE  (current'.check = b /\ current'.phase # "done") \/ Queued(b)'
    <3>1. (current.check = b /\ current.phase # "done") \/ Queued(b)
      BY <1>3, <1>7, <2>3 DEF CheckInv, NoCheckForgotten, Queued
    <3> QED
      BY <1>4, <1>5, <2>2, <3>1 DEF Queued
  <2> HIDE DEF s
  <2> QED
    BY <1>2, <1>4, <1>5, <2>1, <2>3 DEF NoCheckForgotten, Queued
<1>9. /\ \A b \in recorded' : b \in CheckIds /\ checks'[b].state # "absent"
      /\ current'.check # 0 => /\ current'.check \in recorded'
                               /\ checks'[current'.check].gen = current'.gen
  BY <1>2, <1>3, <1>5, <1>6, <1>7 DEF CheckInv
<1> QED
  BY <1>4, <1>8, <1>9 DEF CheckInv

LEMMA KeepCheckInv ==
  ASSUME TypeInv, SyncInv, ListInv, CheckInv, KeepCheck
  PROVE  CheckInv'
<1>1. mem.phase # "done" /\ (Owns(mem) => current = mem)
  BY DEF KeepCheck, SyncInv, Active, Pcs
<1>2. /\ UNCHANGED <<checks, superseded, waived, current>> /\ pc' # "updating"
      /\ retired' = {} \/ UNCHANGED retired
      /\ recorded' = recorded
  BY <1>1 DEF KeepCheck, CreatedAs, Goto, github, retire, Owns, CheckInv
<1> QED
  BY <1>2 DEF CheckInv, NoCheckForgotten, Queued

LEMMA UpdateCheckInv ==
  ASSUME TypeInv, SyncInv, ListInv, CheckInv, NEW o \in GitHub, UpdateCheck(o)
  PROVE  CheckInv'
<1>1. /\ UNCHANGED <<current, superseded, recorded, waived>>
      /\ pc = "updating" /\ pc' = "idle" /\ retired' = {} /\ retired = {}
  BY DEF UpdateCheck, End, Forget, storage, history, ListInv
<1>2. checks' = checks \/ checks' = [checks EXCEPT ![mem.check].state = "open"]
  BY DEF UpdateCheck
<1>3. \A c \in CheckIds : /\ c # mem.check => checks'[c] = checks[c]
                          /\ checks'[c].gen = checks[c].gen
                          /\ checks[c].state # "absent" => checks'[c].state # "absent"
  BY <1>2 DEF TypeInv, TypeOK, WorldOK, Check
<1>4. \/ Queued(mem.check) \/ mem.check = 0
      \/ current.check = mem.check /\ current.phase # "done"
  BY <1>1 DEF CheckInv, SyncInv, Active, Pcs
<1>5. \A c \in recorded : c \in CheckIds /\ c # 0
  BY DEF CheckInv, CheckIds
<1>6. NoCheckForgotten'
  BY <1>1, <1>3, <1>4, <1>5 DEF CheckInv, NoCheckForgotten, Queued
<1> QED
  BY <1>1, <1>3, <1>5, <1>6 DEF CheckInv

\* Completing a check of GitHub's, which takes nothing out of the list.
LEMMA CompletedInv ==
  ASSUME TypeInv, SyncInv, ListInv, CheckInv, NEW c, NEW st \in Endings, NEW rev,
         CompleteCheck(c, st, rev) \/ UNCHANGED checks,
         UNCHANGED recorded, waived \subseteq waived', UNCHANGED superseded, retired' = {}
           \/ UNCHANGED retired,
         pc' # "updating",
         current'.check = current.check, current'.gen = current.gen,
         current'.phase = "done" =>
           \/ current.phase = "done" \/ current.check = 0 \/ current.check \in waived'
           \/ current.check = c /\ CompleteCheck(c, st, rev)
  PROVE  CheckInv'
<1>1. \A b \in CheckIds : /\ checks'[b].gen = checks[b].gen
                          /\ checks[b].state # "absent" => checks'[b].state # "absent"
                          /\ checks'[b].state = "open" => checks[b].state = "open"
                          /\ b = c /\ CompleteCheck(c, st, rev) => checks'[b].state # "open"
  BY DEF TypeInv, TypeOK, WorldOK, Check, CompleteCheck, Endings
<1>2. \A b \in recorded : b \in CheckIds /\ b # 0
  BY DEF CheckInv, CheckIds
<1>3. NoCheckForgotten'
  BY <1>1, <1>2 DEF CheckInv, NoCheckForgotten
<1>4. \A e \in superseded : e.check \in CheckIds
  BY DEF TypeInv, TypeOK, StorageOK, Retiree
<1>5. current'.check # 0 => /\ current'.check \in recorded'
                            /\ checks'[current'.check].gen = current'.gen
  BY <1>1, <1>2 DEF CheckInv
<1> QED
  BY <1>1, <1>2, <1>3, <1>4, <1>5 DEF CheckInv

LEMMA FinishedInv ==
  ASSUME TypeInv, SyncInv, ListInv, CheckInv, NEW o \in GitHub, Disown(o) \/ Completing(o)
  PROVE  CheckInv'
<1>1. pc \in Active /\ mem \in AppReview
  BY DEF Disown, Completing, Active, Pcs, TypeInv, TypeOK, HandlerOK
<1>2. /\ UNCHANGED <<superseded, recorded>> /\ pc' # "updating"
      /\ retired' = {} \/ UNCHANGED retired
  BY DEF Disown, Completing, Caught, End, Forget, Goto, retire, history
<1>3. ASSUME Caught(o)
      PROVE  /\ current'.check = current.check /\ current'.gen = current.gen
             /\ current'.phase = "done" => current.phase = "done" \/ current.check = 0
  BY <1>1, <1>3 DEF Caught, End, Owns, SyncInv, AppReview
<1>4. CASE Disown(o)
  <2>1. CompleteCheck(mem.check, "neutral", checks[mem.check].review) \/ UNCHANGED checks
    BY <1>4 DEF Disown
  <2>2. UNCHANGED waived /\ (Caught(o) \/ UNCHANGED current)
    BY <1>4 DEF Disown, history
  <2> QED
    BY <1>2, <1>3, <2>1, <2>2, CompletedInv DEF Endings
<1>5. CASE Completing(o)
  <2>1. CompleteCheck(mem.check, ending, mem.review) \/ UNCHANGED checks
    BY <1>5 DEF Completing
  <2>2. waived \subseteq waived' /\ ending \in Endings
    BY <1>5 DEF Completing, TypeInv, TypeOK, HandlerOK
  <2>3. \/ Caught(o)
        \/ UNCHANGED current
        \/ /\ Owns(mem) /\ current' = [mem EXCEPT !.phase = "done"]
           /\ \/ mem.check \in waived'
              \/ CompleteCheck(mem.check, ending, mem.review)
    BY <1>5 DEF Completing, Applied
  <2>4. ASSUME Owns(mem), current' = [mem EXCEPT !.phase = "done"]
        PROVE  current = mem /\ current'.check = mem.check /\ current'.gen = mem.gen
    BY <1>1, <2>4 DEF SyncInv, AppReview
  <2> QED
    BY <1>2, <1>3, <2>1, <2>2, <2>3, <2>4, CompletedInv
<1> QED
  BY <1>4, <1>5

LEMMA AdvanceCheckInv ==
  ASSUME TypeInv, SyncInv, ListInv, CheckInv, Advance
  PROVE  CheckInv'
<1>1. CASE \E o \in GitHub : CreateCheck(o) \/ Disown(o) \/ UpdateCheck(o) \/ Completing(o)
  BY <1>1, CreateCheckInv, FinishedInv, UpdateCheckInv
<1>2. CASE KeepCheck
  BY <1>2, KeepCheckInv
<1>3. CASE ~KeepCheck /\ ~ \E o \in GitHub : CreateCheck(o) \/ Disown(o)
                                              \/ UpdateCheck(o) \/ Completing(o)
  <2>1. Quiet /\ current'.gen = current.gen
    BY <1>3, AdvanceQuiet, AdvanceSync DEF SyncStep, Keeps
  <2>2. UNCHANGED superseded /\ (UNCHANGED retired \/ retired' = {})
    BY AdvanceKeepsList DEF retire
  <2> QED
    BY <2>1, <2>2, CheckFrame
<1> QED
  BY <1>1, <1>2, <1>3

LEMMA AcceptCheckInv ==
  ASSUME TypeInv, SyncInv, ListInv, CheckInv, NEW d \in Deliveries, Accept(d)
  PROVE  CheckInv'
<1> DEFINE QueuedNext(c) == \E e \in superseded' : e.check = c
<1>1. /\ current'.check = 0 /\ current'.gen = current.gen + 1 /\ current.gen \in Nat
      /\ UNCHANGED <<checks, recorded, waived, pc, mem, retired>>
  BY AcceptSync DEF Accept, NextGeneration, NoReview, github, history, advance, retire,
     TypeInv, TypeOK, StorageOK, AppReview
<1>2. superseded' = IF Supersedes(current) THEN superseded \union {Retiring(current)}
                    ELSE superseded
  BY DEF Accept
<1>3. Retiring(current).gen = current.gen /\ Retiring(current).check = current.check
  BY DEF Retiring
<1>4. \A c : Queued(c) => QueuedNext(c)
  BY <1>2 DEF Queued
<1>5. current.check # 0 /\ current.phase # "done" => QueuedNext(current.check)
  BY <1>2, <1>3 DEF Supersedes
<1>6. \A c \in recorded : c # 0
  BY DEF CheckInv, CheckIds
<1>7. NoCheckForgotten'
  <2>1. ASSUME NEW c \in recorded \ waived, checks[c].state = "open" PROVE QueuedNext(c)
    <3>1. (current.check = c /\ current.phase # "done") \/ Queued(c)
      BY <2>1 DEF CheckInv, NoCheckForgotten, Queued
    <3> HIDE DEF QueuedNext
    <3> QED
      BY <1>4, <1>5, <1>6, <3>1
  <2> QED
    BY <1>1, <2>1 DEF NoCheckForgotten
<1>8. pc = "updating" => mem.check = 0 \/ QueuedNext(mem.check)
  <2>1. CASE Owns(mem) /\ pc = "updating"
    BY <1>5, <2>1 DEF SyncInv, Active, Pcs
  <2>2. CASE ~Owns(mem)
    BY <1>4, <2>2 DEF CheckInv
  <2> QED
    BY <2>1, <2>2
<1>9. \A g \in retired : g # current.gen
  BY <1>1 DEF ListInv, TypeInv, TypeOK, HandlerOK
<1>10. \A e \in superseded' :
         e.gen \in retired => e.check \in waived \/ checks[e.check].state # "open"
  BY <1>2, <1>3, <1>9 DEF CheckInv
<1> QED
  BY <1>1, <1>7, <1>8, <1>10 DEF CheckInv, Queued

LEMMA RetireCheckInv ==
  ASSUME TypeInv, SyncInv, ListInv, CheckInv, Retire
  PROVE  CheckInv'
<1>1. ASSUME NEW e \in todo, NEW o \in Transient, RetireCancel(e, o) PROVE CheckInv'
  BY <1>1 DEF RetireCancel, storage, github, history, advance, CheckInv, NoCheckForgotten,
     Queued, Owns
<1>2. ASSUME NEW o \in GitHub, RetireComplete(o) PROVE CheckInv'
  <2>1. /\ entry \in Retiree /\ entry.check \in CheckIds /\ entry \in Entries
        /\ pc' = "retire" /\ UNCHANGED <<current, superseded, recorded, mem>>
    BY <1>2 DEF RetireComplete, Entries, TypeInv, storage, advance, Retiree
  <2>2. /\ waived \subseteq waived'
        /\ \/ UNCHANGED checks
           \/ CompleteCheck(entry.check, "neutral", checks[entry.check].review)
        /\ \/ UNCHANGED retired
           \/ /\ retired' = retired \union {entry.gen}
              /\ \/ entry.check \in waived'
                 \/ CompleteCheck(entry.check, "neutral", checks[entry.check].review)
    BY <1>2 DEF RetireComplete, Applied, GitHub, Transient
  <2>3. \A b \in CheckIds :
          /\ checks'[b].gen = checks[b].gen
          /\ checks[b].state # "absent" => checks'[b].state # "absent"
          /\ checks'[b].state = "open" => checks[b].state = "open"
          /\ CompleteCheck(entry.check, "neutral", checks[entry.check].review)
               /\ b = entry.check => checks'[b].state # "open"
    BY <2>2 DEF TypeInv, TypeOK, WorldOK, Check, CompleteCheck
  <2>4. \A c \in recorded : c \in CheckIds
    BY DEF CheckInv
  <2>5. NoCheckForgotten'
    BY <2>1, <2>2, <2>3, <2>4 DEF CheckInv, NoCheckForgotten
  <2>6. \A e \in superseded : e.gen = entry.gen => e.check = entry.check
    BY <2>1 DEF ListInv, Entries
  <2>7. \A e \in superseded : e.check \in CheckIds
    BY DEF TypeInv, TypeOK, StorageOK, Retiree
  <2>8. \A e \in superseded' : e.gen \in retired' =>
          e.check \in waived' \/ checks'[e.check].state # "open"
    BY <2>1, <2>2, <2>3, <2>6, <2>7 DEF CheckInv
  <2> QED
    BY <2>1, <2>3, <2>4, <2>5, <2>8 DEF CheckInv
<1>3. CASE RetireDone
  <2>1. /\ UNCHANGED <<current, checks, recorded, waived, mem>>
        /\ retired' = {} /\ pc' = "offer"
    BY <1>3 DEF RetireDone, github, history, advance
  <2>2. ASSUME NEW c, Queued(c)
        PROVE  Queued(c)' \/ c \in waived \/ checks[c].state # "open"
    <3> PICK e \in superseded : e.check = c
      BY <2>2 DEF Queued
    <3>1. CASE e.gen \in retired
      BY <3>1 DEF CheckInv
    <3>2. CASE e \in StillSuperseded
      BY <1>3, <3>2 DEF RetireDone, Queued
    <3>3. CASE e.gen \notin retired /\ e \notin StillSuperseded
      <4> PICK p \in patched : p.gen = e.gen
        BY <3>3 DEF StillSuperseded
      <4>1. p.check = c
        BY DEF ListInv, Entries
      <4>2. p \in StillSuperseded
        BY <3>3 DEF StillSuperseded
      <4> QED
        BY <1>3, <4>1, <4>2 DEF RetireDone, Queued
    <3> QED
      BY <3>1, <3>2, <3>3
  <2>3. NoCheckForgotten'
    BY <2>1, <2>2 DEF CheckInv, NoCheckForgotten, Queued
  <2> QED
    BY <2>1, <2>3 DEF CheckInv
<1>4. CASE \/ \E d \in offering, o \in GitHub : OfferOne(d, o)
           \/ OffersDone
  BY <1>4 DEF OfferOne, OffersDone, storage, github, history, retire, advance, CheckInv,
     NoCheckForgotten, Queued, Owns
<1> QED
  BY <1>1, <1>2, <1>3, <1>4 DEF Retire

LEMMA CheckInductive ==
  ASSUME TypeInv, SyncInv, ListInv, CheckInv, [Next]_vars
  PROVE  CheckInv'
<1> USE DEF storage, github, history, retire, advance
<1>1. ASSUME NEW d \in OfferDeliveries, Offer(d) PROVE CheckInv'
  BY <1>1 DEF Offer, CheckInv, NoCheckForgotten, Queued, Owns
<1>2. CASE AlarmFires \/ Crash
  BY <1>2 DEF AlarmFires, Crash, Forget, CheckInv, NoCheckForgotten, Queued, Owns
<1>3. CASE Tick
  <2>1. /\ current'.gen = current.gen /\ current'.check = current.check
        /\ current'.phase = current.phase /\ current'.review = current.review
    BY <1>3 DEF Tick, TypeInv, TypeOK, StorageOK, AppReview
  <2> QED
    BY <1>3, <2>1 DEF Tick, CheckInv, NoCheckForgotten, Queued, Owns
<1>4. ASSUME NEW e \in superseded, BackoffElapses(e) PROVE CheckInv'
  <2>1. [e EXCEPT !.due = TRUE].gen = e.gen /\ [e EXCEPT !.due = TRUE].check = e.check
    BY DEF TypeInv, TypeOK, StorageOK, Retiree
  <2>2. /\ \A c : Queued(c) => Queued(c)'
        /\ \A x \in superseded' : \E y \in superseded : x.gen = y.gen /\ x.check = y.check
    BY <1>4, <2>1 DEF BackoffElapses, Queued
  <2>3. UNCHANGED <<current, checks, recorded, waived, mem, pc, retired>>
    BY <1>4 DEF BackoffElapses
  <2>4. NoCheckForgotten' /\ (pc' = "updating" /\ ~Owns(mem)' => mem'.check = 0 \/ Queued(mem.check)')
    BY <2>2, <2>3 DEF CheckInv, NoCheckForgotten, Queued, Owns
  <2>5. \A x \in superseded' : x.gen \in retired => x.check \in waived \/ checks[x.check].state # "open"
    BY <2>2 DEF CheckInv
  <2> QED
    BY <2>3, <2>4, <2>5 DEF CheckInv, Owns
<1>5. CASE \/ \E r \in ReviewIds : JobSteps(r)
           \/ UNCHANGED vars
  BY <1>5 DEF JobSteps, JobBegins, JobRecords, JobEnds, CancelledRecords, CancelGoesOn, vars,
     CheckInv, NoCheckForgotten, Queued, Owns
<1> QED
  BY <1>1, <1>2, <1>3, <1>4, <1>5, AcceptCheckInv, RetireCheckInv, AdvanceCheckInv
     DEF Next, Webhook, Environment

\* What a step may do to GitHub's checks: complete one, create the next one, or
\* update the one the handler holds.
LEMMA ChecksChange ==
  ASSUME TypeInv, SyncInv, [Next]_vars
  PROVE  \/ UNCHANGED checks
         \/ \E c, rev, st : st \in Endings /\ CompleteCheck(c, st, rev)
         \/ \E c \in CheckIds :
              /\ FreshCheck(c)
              /\ checks' = [checks EXCEPT ![c].state = "open", ![c].gen = mem.gen]
         \/ /\ pc = "updating"
            /\ checks' = [checks EXCEPT ![mem.check].state = "open"]
<1> USE DEF github, history, storage
<1>1. CASE Webhook \/ AlarmFires \/ Crash \/ Environment \/ UNCHANGED vars
  BY <1>1 DEF Webhook, Accept, Offer, AlarmFires, Crash, Environment, JobSteps, JobBegins,
     JobRecords, JobEnds, CancelledRecords, CancelGoesOn, Tick, BackoffElapses, vars
<1>2. CASE Retire
  <2>1. CASE \E o \in GitHub : RetireComplete(o)
    BY <2>1 DEF RetireComplete, Endings
  <2>2. CASE ~ \E o \in GitHub : RetireComplete(o)
    BY <1>2, <2>2 DEF Retire, RetireCancel, RetireDone, OfferOne, OffersDone
  <2> QED
    BY <2>1, <2>2
<1>3. ending \in Endings
  BY DEF TypeInv, TypeOK, HandlerOK
<1>4. CASE \E o \in GitHub : CreateCheck(o)
  BY <1>4 DEF CreateCheck
<1>5. CASE \E o \in GitHub : UpdateCheck(o)
  BY <1>5 DEF UpdateCheck
<1>6. CASE \E o \in GitHub : Disown(o) \/ Completing(o)
  BY <1>3, <1>6 DEF Disown, Completing, Endings
<1>7. CASE KeepCheck
  BY <1>7 DEF KeepCheck
<1>8. CASE /\ Advance /\ ~KeepCheck
           /\ ~ \E o \in GitHub : CreateCheck(o) \/ Disown(o) \/ UpdateCheck(o) \/ Completing(o)
  BY <1>8, AdvanceQuiet DEF Quiet
<1> QED
  BY <1>1, <1>2, <1>4, <1>5, <1>6, <1>7, <1>8 DEF Next

LEMMA InitCheckInv == Init => ListInv /\ CheckInv /\ SyncInv
BY DEF Init, ListInv, Entries, CheckInv, NoCheckForgotten, NoReview, NoRetiree, SyncInv, Active

LEMMA CheckStep ==
  ASSUME TypeInv, SyncInv, ListInv, CheckInv, [Next]_vars
  PROVE  SyncInv' /\ ListInv' /\ CheckInv'
BY AcceptSync, SyncInductive, ListInductive, CheckInductive DEF SyncStep

\* A check the object stored is answered for until it is completed or given up,
\* wherever requests, crashes and lost answers fall (accept, save,
\* retireSuperseded, finish).
THEOREM ChecksAnsweredFor == Spec => []NoCheckForgotten
<1>1. CheckInv => NoCheckForgotten
  BY DEF CheckInv
<1> QED
  BY <1>1, InitCheckInv, CheckStep, TypeCorrect, PTL DEF Spec

\* A handler still reporting progress for an older generation never reopens a
\* check that retireSuperseded has completed (reportProgress, save).
THEOREM RetiredStayClosed == Spec => RetiredStaysClosed
<1> DEFINE Closed(c) == /\ checks[c].gen < current.gen
                        /\ checks[c].state \in Endings
                        /\ \A e \in superseded : e.check # c
           Stays == \A c \in recorded : Closed(c) => checks'[c].state \in Endings
<1>1. ASSUME TypeInv, SyncInv, ListInv, CheckInv, [Next]_vars PROVE Stays
  <2> SUFFICES ASSUME NEW c \in recorded, Closed(c) PROVE checks'[c].state \in Endings
    OBVIOUS
  <2>1. c \in CheckIds /\ checks \in [CheckIds -> Check]
    BY <1>1 DEF CheckInv, TypeInv, TypeOK, WorldOK
  <2>2. pc = "updating" => mem.check # c
    <3>1. pc = "updating" /\ Owns(mem) => current = mem
      BY <1>1 DEF SyncInv, Active, Pcs
    <3>2. current.check # c
      BY <1>1, <2>1 DEF CheckInv, CheckIds, TypeInv, TypeOK, StorageOK, AppReview, Check
    <3> QED
      BY <1>1, <2>1, <3>1, <3>2 DEF CheckInv, Queued, CheckIds
  <2>3. ASSUME NEW b \in CheckIds, FreshCheck(b) PROVE b # c
    BY <2>3 DEF FreshCheck, Endings
  <2> QED
    BY <1>1, <2>1, <2>2, <2>3, ChecksChange DEF CompleteCheck, Check
<1>2. RetiredStaysClosed <=> [][Stays]_vars
  BY DEF RetiredStaysClosed
<1> QED
  BY <1>1, <1>2, InitCheckInv, CheckStep, TypeCorrect, PTL DEF Spec

-----------------------------------------------------------------------------
(* Every step takes a cloud review where its promise allows *)

\* The steps of JobPromise, of the job of review r.
JobMove(r) ==
  LET j == jobs[r]
      k == jobs'[r]
  IN  \/ k.st = j.st /\ k.receipt = j.receipt /\ k.cancelled = j.cancelled
      \/ /\ \/ j.st \in {"none", "parked"} /\ k.st = "scheduled"
            \/ j.st = "scheduled" /\ k.st = "running"
            \/ j.st = "running" /\ j.receipt # "none" /\ k.st = "done"
         /\ k.receipt = j.receipt /\ k.cancelled = j.cancelled
      \/ /\ \/ j.st = "running" /\ j.receipt = "none"
            \/ j.st = "done" /\ j.cancelled
         /\ k.receipt \in Receipts \ {"none"}
         /\ k.st = j.st /\ k.cancelled = j.cancelled
      \/ /\ j.st \notin {"none", "done"} /\ k.cancelled = TRUE
         /\ k.st \in {j.st, "done"} \union (IF j.st = "scheduled" THEN {"parked"} ELSE {})
         /\ k.receipt = j.receipt

\* Such a step that gives the job to no other generation and does not start it.
Onward(r) == /\ JobMove(r)
             /\ jobs'[r].gen = jobs[r].gen
             /\ jobs[r].st \in {"none", "done"} => jobs'[r].st = jobs[r].st

LEMMA JobUnmoved ==
  ASSUME NEW r, UNCHANGED jobs
  PROVE  Onward(r)
BY DEF JobMove, Onward

LEMMA AdvanceKeepsJobs ==
  ASSUME Advance,
         ~ \E o \in {"ok", "down"}, shadow \in BOOLEAN : Prepare(o, shadow),
         ~ \E o \in Transient : Start(o)
  PROVE  UNCHANGED jobs
BY DEF Advance, AdvanceRead, Token, CreateCheck, KeepCheck, Disown, MergeBase, Poll, IsDone,
   Progress, UpdateCheck, Judge, Destroy, Revalidate, Post, Finish, Completing, github

LEMMA CancelMove ==
  ASSUME TypeInv, NEW q, NEW o, CancelJob(q, o), NEW r \in ReviewIds
  PROVE  Onward(r)
<1>1. jobs \in [ReviewIds -> Job] /\ jobs[r] \in Job
  BY DEF TypeInv, TypeOK, WorldOK
<1>2. CASE r # q
  BY <1>1, <1>2 DEF CancelJob, JobMove, Onward
<1>3. CASE r = q
  <2> DEFINE j == jobs[r]
             st == IF j.st = "scheduled" THEN "parked" ELSE j.st
  <2>1. \/ jobs' = jobs
        \/ /\ j.st \notin {"none", "done"}
           /\ \/ jobs' = [jobs EXCEPT ![r] = [j EXCEPT !.st = "done", !.cancelled = TRUE]]
              \/ jobs' = [jobs EXCEPT ![r] = [j EXCEPT !.cancelled = TRUE, !.st = st]]
    BY <1>3 DEF CancelJob
  <2>2. CASE jobs' = [jobs EXCEPT ![r] = [j EXCEPT !.cancelled = TRUE, !.st = st]]
             /\ j.st \notin {"none", "done"}
    <3> HIDE DEF st
    <3>1. /\ jobs'[r].st = st /\ jobs'[r].cancelled = TRUE /\ jobs'[r].gen = j.gen
          /\ jobs'[r].receipt = j.receipt
      BY <1>1, <2>2 DEF Job
    <3>2. st \in {j.st} \union (IF j.st = "scheduled" THEN {"parked"} ELSE {})
      BY DEF st
    <3> QED
      BY <2>2, <3>1, <3>2 DEF JobMove, Onward
  <2>3. CASE jobs' = [jobs EXCEPT ![r] = [j EXCEPT !.st = "done", !.cancelled = TRUE]]
             /\ j.st \notin {"none", "done"}
    BY <1>1, <2>3 DEF JobMove, Onward, Job
  <2> QED
    BY <2>1, <2>2, <2>3, JobUnmoved
<1> QED
  BY <1>2, <1>3

LEMMA PrepareMove ==
  ASSUME TypeInv, NEW o, NEW shadow, Prepare(o, shadow), NEW r \in ReviewIds
  PROVE  JobMove(r) /\ jobs'[r].st = jobs[r].st
<1>1. jobs \in [ReviewIds -> Job] /\ jobs[r] \in Job
  BY DEF TypeInv, TypeOK, WorldOK
<1>2. UNCHANGED jobs \/ \E q : jobs' = [jobs EXCEPT ![q].gen = mem.gen]
  BY DEF Prepare
<1> QED
  BY <1>1, <1>2 DEF JobMove, Job

LEMMA StartMove ==
  ASSUME TypeInv, NEW q, StartJob(q), NEW r \in ReviewIds
  PROVE  /\ JobMove(r) /\ jobs'[r].gen = jobs[r].gen
         /\ r # q => Onward(r)
         /\ jobs[r].st = "done" => jobs'[r].st = "done"
<1>1. jobs \in [ReviewIds -> Job] /\ jobs[r] \in Job
  BY DEF TypeInv, TypeOK, WorldOK
<1> QED
  BY <1>1 DEF StartJob, JobMove, Onward, Job

LEMMA EnvironmentMove ==
  ASSUME TypeInv, Environment, NEW r \in ReviewIds
  PROVE  Onward(r)
<1>1. jobs \in [ReviewIds -> Job] /\ jobs[r] \in Job
  BY DEF TypeInv, TypeOK, WorldOK
<1>2. ASSUME NEW q \in ReviewIds, JobSteps(q) PROVE Onward(r)
  <2>1. CASE r # q
    BY <1>1, <1>2, <2>1 DEF JobSteps, JobBegins, JobRecords, JobEnds, CancelledRecords, CancelGoesOn,
       JobMove, Onward, Job
  <2>2. ASSUME NEW k \in Receipts \ {"none"}, r = q, JobRecords(r, k) \/ CancelledRecords(r, k)
        PROVE  Onward(r)
    BY <1>1, <2>2 DEF JobRecords, CancelledRecords, PromisedJob!Record, PromisedJob!Overwrite,
       JobMove, Onward, Job
  <2>3. CASE r = q /\ JobBegins(r)
    BY <1>1, <2>3 DEF JobBegins, PromisedJob!Begin, JobMove, Onward, Job
  <2>4. CASE r = q /\ JobEnds(r)
    BY <1>1, <2>4 DEF JobEnds, PromisedJob!End, JobMove, Onward, Job
  <2>5. ASSUME NEW st \in {"parked", "done"}, r = q, CancelGoesOn(r, st) PROVE Onward(r)
    BY <1>1, <2>5 DEF CancelGoesOn, PromisedJob!Cancel, JobMove, Onward, Job
  <2> QED
    BY <1>2, <2>1, <2>2, <2>3, <2>4, <2>5 DEF JobSteps
<1>4. CASE Tick
  BY <1>1, <1>4 DEF Tick, JobMove, Onward, Job
<1>5. CASE \E e \in superseded : BackoffElapses(e)
  BY <1>5 DEF BackoffElapses, JobMove, Onward
<1> QED
  BY <1>2, <1>4, <1>5 DEF Environment

LEMMA RetireMove ==
  ASSUME TypeInv, Retire, NEW r \in ReviewIds
  PROVE  Onward(r)
<1>1. ASSUME NEW e \in todo, NEW o \in Transient, RetireCancel(e, o)
      PROVE  Onward(r)
  BY <1>1, CancelMove, JobUnmoved DEF RetireCancel
<1>2. CASE ~ \E e \in todo, o \in Transient : RetireCancel(e, o)
  BY <1>2, JobUnmoved DEF Retire, RetireComplete, RetireDone, OfferOne, OffersDone, github
<1> QED
  BY <1>1, <1>2

LEMMA JobsMove ==
  ASSUME TypeInv, [Next]_vars, NEW r \in ReviewIds
  PROVE  /\ JobMove(r)
         /\ jobs[r].st = "done" => jobs'[r].st = "done"
         /\ pc # "prepare" => jobs'[r].gen = jobs[r].gen
         /\ \/ Onward(r)
            \/ pc = "prepare" /\ jobs'[r].st = jobs[r].st
            \/ pc = "start" /\ r = mem.review
<1>1. CASE Webhook \/ AlarmFires \/ Crash \/ UNCHANGED vars
  BY <1>1, JobUnmoved DEF Webhook, Accept, Offer, AlarmFires, Crash, vars, Onward
<1>2. CASE Advance
  <2>1. ASSUME NEW o, NEW shadow, Prepare(o, shadow)
        PROVE  JobMove(r) /\ pc = "prepare" /\ jobs'[r].st = jobs[r].st
    BY <2>1, PrepareMove DEF Prepare
  <2>2. ASSUME NEW o, Start(o)
        PROVE  /\ JobMove(r) /\ jobs'[r].gen = jobs[r].gen /\ pc = "start"
               /\ Onward(r) \/ r = mem.review
               /\ jobs[r].st = "done" => jobs'[r].st = "done"
    BY <2>2, StartMove, JobUnmoved DEF Start, Onward
  <2> QED
    BY <1>2, <2>1, <2>2, AdvanceKeepsJobs, JobUnmoved DEF Onward
<1> QED
  BY <1>1, <1>2, RetireMove, EnvironmentMove DEF Next, Onward

-----------------------------------------------------------------------------
(* A check says what became of its review *)

Unposted(s) == s.phase \in {"none", "pending"}

\* Where a cloud review's answer is waited for or acted on.
Reading == {"poll", "isDone", "judge", "destroy", "revalidate", "post"}

\* What the handler knows of the generation s it goes on with at a label, with
\* the ending e it has chosen.
At(label, s, e) ==
  /\ label \in Active => s.gen # 0
  /\ label \in {"create", "disown", "merge", "prepare", "start"} => s.phase = "pending"
  /\ label \in Reading => s.review # 0 /\ ~Unposted(s)
  /\ label = "isDone" => s.phase = "running"
  /\ label \in {"revalidate", "post"} => ~s.shadow
  /\ label \in {"finish", "completing"} /\ e \in {"published", "shadow"} =>
       s.review # 0 /\ ~Unposted(s) /\ (e = "shadow" => s.shadow)

HandlerInv == /\ current.phase # "none" => current.gen # 0
              /\ At(pc, mem, ending)

LEMMA EndAt ==
  ASSUME HandlerInv, NEW retry, End(retry), UNCHANGED current \/ current'.gen # 0
  PROVE  HandlerInv'
BY DEF HandlerInv, At, End, Forget, Active, Reading

LEMMA GotoAt ==
  ASSUME HandlerInv, NEW label, Goto(label), UNCHANGED current \/ current'.gen # 0,
         At(label, mem', ending')
  PROVE  HandlerInv'
BY DEF HandlerInv, At, Goto

LEMMA SaveAndAt ==
  ASSUME HandlerInv, NEW s, s.gen # 0, NEW label, SaveAnd(s, label), At(label, s, ending)
  PROVE  HandlerInv'
BY EndAt, GotoAt DEF SaveAnd

LEMMA EndAsAt ==
  ASSUME HandlerInv, NEW e, EndAs(e), At("finish", mem, e)
  PROVE  HandlerInv'
<1>1. mem' = mem /\ ending' = e
  BY DEF EndAs
<1> QED
  BY <1>1, GotoAt DEF EndAs

LEMMA CaughtAt ==
  ASSUME TypeInv, HandlerInv, pc \in Active, NEW o, Caught(o)
  PROVE  HandlerInv'
<1>1. mem \in AppReview /\ mem.gen # 0
  BY DEF TypeInv, TypeOK, HandlerOK, HandlerInv, At
<1>2. CASE o # "refused"
  BY <1>2, EndAt DEF Caught
<1>3. CASE o = "refused" /\ mem.check = 0
  BY <1>1, <1>3, EndAt DEF Caught, AppReview
<1>4. CASE o = "refused" /\ mem.check # 0
  <2>1. mem' = mem /\ ending' = "neutral" /\ Goto("finish") /\ current' = current
    BY <1>4 DEF Caught
  <2> QED
    BY <1>1, <2>1, GotoAt DEF At, Active, Pcs, Reading
<1> QED
  BY <1>2, <1>3, <1>4

LEMMA AdvanceAt ==
  ASSUME TypeInv, SyncInv, HandlerInv, Advance
  PROVE  HandlerInv'
<1> USE DEF storage, github, history, advance
<1>1. mem \in AppReview /\ current \in AppReview
  BY DEF TypeInv, TypeOK, HandlerOK, StorageOK
<1>2. pc \in Active => /\ mem.phase \notin {"none", "done"} /\ mem.gen # 0
  BY DEF SyncInv, HandlerInv, At
<1>3. CASE AdvanceRead
  BY <1>3, <1>1, EndAt, GotoAt DEF AdvanceRead, HandlerInv, At, Active, Pcs, Reading
<1>4. ASSUME NEW o \in {"ok", "down", "refused"}, Token(o) PROVE HandlerInv'
  <2>1. pc \in Active /\ At("token", mem, ending) /\ (mem.phase # "pending" => mem.review # 0)
    BY <1>1, <1>4 DEF Token, Active, Pcs, HandlerInv, TypeInv, NamedInv, NamedAt, Named, AppReview,
       Phases
  <2>2. CASE o = "ok"
    <3>1. /\ mem.phase = "pending" => At("create", mem, ending)
          /\ mem.phase # "pending" => At("poll", mem, ending)
      BY <1>2, <2>1 DEF At, Active, Pcs, Reading, Unposted
    <3> QED
      BY <1>4, <2>2, <3>1, GotoAt DEF Token
  <2> QED
    BY <1>4, <2>1, <2>2, CaughtAt DEF Token
<1>5. ASSUME NEW s \in AppReview, s.gen = mem.gen, s.phase = mem.phase, pc = "create",
             CreatedAs(s)
      PROVE  HandlerInv'
  <2>1. At("merge", s, ending) /\ At("disown", s, ending) /\ s.gen # 0
    BY <1>2, <1>5 DEF At, Active, Pcs, Reading, HandlerInv
  <2> QED
    BY <1>5, <2>1, GotoAt DEF CreatedAs
<1>6. ASSUME NEW o \in GitHub, CreateCheck(o) PROVE HandlerInv'
  <2>1. CASE o = "ok"
    <3> PICK c \in CheckIds : CreatedAs([mem EXCEPT !.check = c])
      BY <1>6, <2>1 DEF CreateCheck
    <3> DEFINE s == [mem EXCEPT !.check = c]
    <3>1. s \in AppReview /\ s.gen = mem.gen /\ s.phase = mem.phase
      BY <1>1 DEF AppReview
    <3> HIDE DEF s
    <3> QED
      BY <1>5, <1>6, <3>1 DEF CreateCheck, s
  <2>2. CASE o # "ok"
    BY <1>6, <2>2, CaughtAt DEF CreateCheck, Active, Pcs
  <2> QED
    BY <2>1, <2>2
<1>7. CASE KeepCheck
  BY <1>1, <1>5, <1>7 DEF KeepCheck
<1>8. ASSUME NEW o \in GitHub, Disown(o) PROVE HandlerInv'
  BY <1>8, CaughtAt, EndAt DEF Disown, Active, Pcs
<1>9. ASSUME NEW o \in {"ok", "down", "refused"}, MergeBase(o) PROVE HandlerInv'
  <2> DEFINE s == [mem EXCEPT !.base = TRUE]
  <2>1. pc \in Active /\ mem.phase = "pending"
    BY <1>9 DEF MergeBase, HandlerInv, At, Active, Pcs
  <2>2. s.gen # 0 /\ At("prepare", s, ending)
    BY <1>1, <1>2, <2>1 DEF AppReview, At, Active, Pcs, Reading
  <2> HIDE DEF s
  <2> QED
    BY <1>9, <2>1, <2>2, CaughtAt, SaveAndAt DEF MergeBase, s
<1>10. ASSUME NEW o \in {"ok", "down"}, NEW shadow \in BOOLEAN, Prepare(o, shadow)
       PROVE  HandlerInv'
  <2>1. pc \in Active /\ mem.phase = "pending"
    BY <1>10 DEF Prepare, HandlerInv, At, Active, Pcs
  <2>2. CASE o = "ok"
    <3> PICK r \in ReviewIds : SaveAnd([mem EXCEPT !.shadow = shadow, !.review = r], "start")
      BY <1>10, <2>2 DEF Prepare
    <3> DEFINE s == [mem EXCEPT !.shadow = shadow, !.review = r]
    <3>1. s.gen # 0 /\ At("start", s, ending)
      BY <1>1, <1>2, <2>1 DEF AppReview, At, Active, Pcs, Reading
    <3> HIDE DEF s
    <3> QED
      BY <3>1, SaveAndAt DEF s
  <2> QED
    BY <1>10, <2>1, <2>2, CaughtAt DEF Prepare
<1>11. ASSUME NEW o \in Transient, Start(o) PROVE HandlerInv'
  <2> DEFINE s == [mem EXCEPT !.phase = "running"]
  <2>1. pc \in Active /\ mem.review # 0
    BY <1>11 DEF Start, TypeInv, NamedInv, NamedAt, Active, Pcs
  <2>2. s.gen # 0 /\ At("poll", s, ending)
    BY <1>1, <1>2, <2>1 DEF AppReview, At, Active, Pcs, Reading, Unposted
  <2> HIDE DEF s
  <2> QED
    BY <1>11, <2>1, <2>2, CaughtAt, SaveAndAt DEF Start, s
<1>12. ASSUME pc \in Reading
       PROVE  /\ pc \in Active /\ mem.review # 0 /\ ~Unposted(mem) /\ mem.gen # 0
              /\ pc = "isDone" => mem.phase = "running"
              /\ pc \in {"revalidate", "post"} => ~mem.shadow
  BY <1>12 DEF HandlerInv, At, Active, Pcs, Reading
<1>13. ASSUME pc \in Reading
       PROVE  /\ At("finish", mem, "neutral") /\ At("finish", mem, "late")
              /\ At("finish", mem, "published")
              /\ mem.shadow => At("finish", mem, "shadow")
  BY <1>12, <1>13 DEF At, Active, Pcs, Reading
<1>14. ASSUME NEW o \in {"ok", "down"}, Poll(o) PROVE HandlerInv'
  <2>1. pc \in Reading
    BY <1>14 DEF Poll, Reading
  <2>2. CASE o = "ok"
    <3>1. mem.phase = "running" => At("isDone", mem, ending)
      BY <1>12, <2>1 DEF At, Active, Pcs, Reading
    <3>2. At("judge", mem, ending)
      BY <1>12, <2>1 DEF At, Active, Pcs, Reading
    <3> QED
      BY <1>14, <2>2, <3>1, <3>2, GotoAt DEF Poll
  <2> QED
    BY <1>12, <1>14, <2>1, <2>2, CaughtAt DEF Poll
<1>15. ASSUME NEW o \in {"ok", "down"}, IsDone(o) PROVE HandlerInv'
  <2> DEFINE s == [mem EXCEPT !.phase = "publishing"]
  <2>1. pc \in Reading
    BY <1>15 DEF IsDone, Reading
  <2>2. s.gen # 0 /\ At("judge", s, ending) /\ At("progress", mem, ending)
    BY <1>1, <1>12, <2>1 DEF AppReview, At, Active, Pcs, Reading, Unposted
  <2> HIDE DEF s
  <2> QED
    BY <1>12, <1>13, <1>15, <2>1, <2>2, CaughtAt, SaveAndAt, EndAsAt, GotoAt DEF IsDone, s
<1>16. CASE Progress
  <2>1. At("updating", mem, ending)
    BY <1>2, <1>16 DEF Progress, At, Active, Pcs, Reading
  <2> QED
    BY <1>16, <2>1, EndAt, GotoAt DEF Progress
<1>17. ASSUME NEW o \in GitHub, UpdateCheck(o) PROVE HandlerInv'
  BY <1>17, EndAt DEF UpdateCheck
<1>18. CASE Judge
  <2>1. pc \in Reading
    BY <1>18 DEF Judge, Reading
  <2>2. At("destroy", mem, ending) /\ (~mem.shadow => At("revalidate", mem, ending))
    BY <1>12, <2>1 DEF At, Active, Pcs, Reading
  <2> QED
    BY <1>13, <1>18, <2>1, <2>2, EndAsAt, GotoAt DEF Judge
<1>19. ASSUME NEW o \in {"ok", "down"}, Destroy(o) PROVE HandlerInv'
  <2>1. pc \in Reading
    BY <1>19 DEF Destroy, Reading
  <2> QED
    BY <1>1, <1>12, <1>13, <1>19, <2>1, EndAsAt, EndAt DEF Destroy, AppReview
<1>20. ASSUME NEW o \in {"ok", "down", "refused", "moved"}, Revalidate(o) PROVE HandlerInv'
  <2>1. pc \in Reading /\ pc = "revalidate"
    BY <1>20 DEF Revalidate, Reading
  <2>2. At("post", mem, ending)
    BY <1>12, <2>1 DEF At, Active, Pcs, Reading
  <2> QED
    BY <1>12, <1>13, <1>20, <2>1, <2>2, EndAsAt, GotoAt, EndAt, CaughtAt DEF Revalidate
<1>21. ASSUME NEW o \in GitHub \union {"broken"}, Post(o) PROVE HandlerInv'
  <2>1. pc \in Reading
    BY <1>21 DEF Post, Reading
  <2>2. EndAs("published") \/ EndAs("neutral") \/ Caught(o)
    BY <1>21 DEF Post, GitHub, Transient
  <2> QED
    BY <1>12, <1>13, <2>1, <2>2, EndAsAt, CaughtAt
<1>22. CASE Finish
  <2>1. At("completing", mem, ending)
    BY <1>2, <1>22 DEF Finish, HandlerInv, At, Active, Pcs, Reading
  <2> QED
    BY <1>22, <2>1, EndAt, GotoAt DEF Finish
<1>23. ASSUME NEW o \in GitHub, Completing(o) PROVE HandlerInv'
  <2>1. pc \in Active
    BY <1>23 DEF Completing, Active, Pcs
  <2> QED
    BY <1>1, <1>2, <1>23, <2>1, EndAt, CaughtAt DEF Completing, AppReview
<1> QED
  BY <1>3, <1>4, <1>6, <1>7, <1>8, <1>9, <1>10, <1>11, <1>14, <1>15, <1>16, <1>17, <1>18,
     <1>19, <1>20, <1>21, <1>22, <1>23 DEF Advance

ShadowIn(r, cs) == \E c \in CheckIds : cs[c].state = "shadow" /\ cs[c].review = r

\* What is known of the cloud review a generation names: it was started for this
\* generation, and is on the pull request, or spoken of as shadow, only once the
\* generation's mode was settled so.
Held(s, js, ps, cs) ==
  s.review # 0 =>
    /\ js[s.review].gen = s.gen
    /\ ps[s.review] > 0 => ~s.shadow /\ ~Unposted(s)
    /\ ShadowIn(s.review, cs) => s.shadow /\ ~Unposted(s)

TruthInv ==
  /\ CheckTellsTheTruth
  /\ \A c \in CheckIds : checks[c].state \in {"published", "shadow"} =>
       checks[c].review # 0 /\ jobs[checks[c].review].gen # 0
  /\ \A r \in ReviewIds : posts[r] > 0 => jobs[r].gen # 0
  /\ Held(current, jobs, posts, checks) /\ Held(mem, jobs, posts, checks)
  /\ pc \in {"finish", "completing"} /\ ending = "published" => posts[mem.review] = 1

\* What a step of advance makes of the generation it goes on with, other than by
\* naming a cloud review: it publishes what has stopped, and starts over, once,
\* what was lost.
Follows(s) ==
  /\ s.gen = mem.gen /\ s.shadow = mem.shadow
  /\ \/ /\ s.review = mem.review /\ s.retried = mem.retried
        /\ Unposted(s) => Unposted(mem)
     \/ pc = "destroy" /\ s.review = 0 /\ s.retried /\ s.phase = "pending"
  /\ s.phase = "publishing" =>
       mem.phase = "publishing" \/ (pc = "isDone" /\ jobs[mem.review].st = "done")

Moves(s) == /\ mem' = s \/ mem' = NoReview
            /\ UNCHANGED current \/ (Owns(mem) /\ current' = s)

LEMMA FollowsItself == Follows(mem)
BY DEF Follows

LEMMA CaughtMoves ==
  ASSUME TypeInv, NEW o, Caught(o)
  PROVE  \E s : Follows(s) /\ Moves(s)
<1>1. CASE o # "refused" \/ mem.check # 0
  <2>1. Moves(mem)
    BY <1>1 DEF Caught, End, Forget, Moves
  <2> QED
    BY <2>1, FollowsItself
<1>2. CASE o = "refused" /\ mem.check = 0
  <2> DEFINE s == [mem EXCEPT !.phase = "done"]
  <2>1. Follows(s)
    BY DEF TypeInv, TypeOK, HandlerOK, AppReview, Follows, Unposted
  <2>2. Moves(s)
    BY <1>2 DEF Caught, End, Forget, Moves
  <2> QED
    BY <2>1, <2>2
<1> QED
  BY <1>1, <1>2

LEMMA AdvanceMoves ==
  ASSUME TypeInv, HandlerInv, Advance, ~AdvanceRead,
         ~ \E o \in {"ok", "down"}, shadow \in BOOLEAN : Prepare(o, shadow)
  PROVE  \E s : Follows(s) /\ Moves(s)
<1> USE DEF storage, github, history, advance
<1>1. mem \in AppReview
  BY DEF TypeInv, TypeOK, HandlerOK
<1>2. Moves(mem) => \E s : Follows(s) /\ Moves(s)
  BY FollowsItself
<1>3. CASE \E o \in {"ok", "down", "refused"} : Token(o)
  BY <1>2, <1>3, CaughtMoves DEF Token, Goto, Moves
<1>4. ASSUME NEW c \in CheckIds, CreatedAs([mem EXCEPT !.check = c])
      PROVE  \E s : Follows(s) /\ Moves(s)
  <2> DEFINE s == [mem EXCEPT !.check = c]
  <2>1. Follows(s) /\ s.gen = mem.gen
    BY <1>1 DEF AppReview, Follows, Unposted
  <2>2. Moves(s)
    BY <1>4, <2>1 DEF CreatedAs, Owns, Moves
  <2> QED
    BY <2>1, <2>2
<1>5. CASE \E o \in GitHub : CreateCheck(o)
  BY <1>4, <1>5, CaughtMoves DEF CreateCheck
<1>6. CASE KeepCheck
  BY <1>2, <1>6 DEF KeepCheck, CreatedAs, Moves, Owns
<1>7. CASE \E o \in GitHub : Disown(o)
  BY <1>2, <1>7, CaughtMoves DEF Disown, End, Forget, Moves
<1>8. ASSUME NEW s, Follows(s), NEW label, SaveAnd(s, label)
      PROVE  \E q : Follows(q) /\ Moves(q)
  BY <1>8, <1>2 DEF SaveAnd, End, Forget, Moves, Follows, Owns
<1>9. ASSUME NEW p \in {"running", "publishing", "done"},
             p = "publishing" => pc = "isDone" /\ jobs[mem.review].st = "done"
      PROVE  Follows([mem EXCEPT !.phase = p])
  BY <1>1, <1>9 DEF AppReview, Follows, Unposted
<1>10. CASE \E o \in {"ok", "down", "refused"} : MergeBase(o)
  <2>1. Follows([mem EXCEPT !.base = TRUE])
    BY <1>1 DEF AppReview, Follows, Unposted
  <2> QED
    BY <1>8, <1>10, <2>1, CaughtMoves DEF MergeBase
<1>11. CASE \E o \in Transient : Start(o)
  BY <1>8, <1>9, <1>11, CaughtMoves DEF Start
<1>12. CASE \E o \in {"ok", "down"} : Poll(o)
  BY <1>2, <1>12, CaughtMoves DEF Poll, Moves
<1>13. CASE \E o \in {"ok", "down"} : IsDone(o)
  <2>1. PICK o \in {"ok", "down"} : IsDone(o)
    BY <1>13
  <2>2. \/ Caught(o)
        \/ /\ SaveAnd([mem EXCEPT !.phase = "publishing"], "judge")
           /\ pc = "isDone" /\ jobs[mem.review].st = "done"
        \/ UNCHANGED <<current, mem>>
    BY <2>1 DEF IsDone, EndAs, Final
  <2> QED
    BY <1>2, <1>8, <1>9, <2>2, CaughtMoves DEF Moves
<1>14. CASE Progress
  BY <1>2, <1>14 DEF Progress, End, Forget, Moves
<1>15. CASE \E o \in GitHub : UpdateCheck(o)
  BY <1>2, <1>15 DEF UpdateCheck, End, Forget, Moves
<1>16. CASE Judge
  BY <1>2, <1>16 DEF Judge, EndAs, Moves
<1>17. CASE \E o \in {"ok", "down"} : Destroy(o)
  <2> DEFINE s == [mem EXCEPT !.retried = TRUE, !.review = 0, !.age = 0, !.phase = "pending"]
  <2>1. Follows(s)
    BY <1>1, <1>17 DEF Destroy, AppReview, Follows
  <2>2. Moves(mem) \/ Moves(s)
    BY <1>17 DEF Destroy, EndAs, End, Forget, Moves
  <2> HIDE DEF s
  <2> QED
    BY <1>2, <2>1, <2>2
<1>18. CASE \E o \in {"ok", "down", "refused", "moved"} : Revalidate(o)
  BY <1>2, <1>18, CaughtMoves DEF Revalidate, EndAs, End, Forget, Goto, Moves
<1>19. ASSUME NEW o \in GitHub \union {"broken"}, Post(o) PROVE \E s : Follows(s) /\ Moves(s)
  <2>1. EndAs("published") \/ EndAs("neutral") \/ Caught(o)
    BY <1>19 DEF Post, GitHub, Transient
  <2> QED
    BY <1>2, <2>1, CaughtMoves DEF EndAs, Moves
<1>20. CASE Finish
  BY <1>2, <1>20 DEF Finish, End, Forget, Moves
<1>21. CASE \E o \in GitHub : Completing(o)
  <2>1. \/ \E o : Caught(o)
        \/ Moves(mem) \/ Moves([mem EXCEPT !.phase = "done"])
    BY <1>21 DEF Completing, End, Forget, Moves
  <2> QED
    BY <1>2, <1>9, <2>1, CaughtMoves
<1> QED
  BY <1>3, <1>5, <1>6, <1>7, <1>10, <1>11, <1>12, <1>13, <1>14, <1>15, <1>16, <1>17, <1>18,
     <1>19, <1>20, <1>21 DEF Advance

\* Only finish completes a check with a verdict about a cloud review.
LEMMA VerdictsChange ==
  ASSUME TypeInv, SyncInv, [Next]_vars, NEW c \in CheckIds,
         checks'[c].state \in {"published", "shadow"}
  PROVE  \/ checks'[c].state = checks[c].state /\ checks'[c].review = checks[c].review
         \/ /\ pc = "completing"
            /\ checks'[c].state = ending /\ checks'[c].review = mem.review
<1>1. checks \in [CheckIds -> Check]
  BY DEF TypeInv, TypeOK, WorldOK
<1>2. CASE UNCHANGED checks
  BY <1>2
<1>3. ASSUME NEW b, NEW r, CompleteCheck(b, "neutral", r)
      PROVE  checks'[c].state = checks[c].state /\ checks'[c].review = checks[c].review
  BY <1>1, <1>3 DEF CompleteCheck, Check
<1>4. CASE \E o \in GitHub : RetireComplete(o) \/ Disown(o)
  BY <1>2, <1>3, <1>4 DEF RetireComplete, Disown
<1>5. CASE \E o \in GitHub : CreateCheck(o) \/ UpdateCheck(o)
  BY <1>1, <1>5 DEF CreateCheck, UpdateCheck, Check
<1>6. CASE \E o \in GitHub : Completing(o)
  BY <1>1, <1>6 DEF Completing, CompleteCheck, Check
<1>7. CASE ~ \E o \in GitHub : RetireComplete(o) \/ Disown(o) \/ CreateCheck(o)
                                 \/ UpdateCheck(o) \/ Completing(o)
  <2> USE DEF github, history
  <2>1. CASE Webhook \/ AlarmFires \/ Crash \/ Environment \/ UNCHANGED vars
    BY <1>2, <2>1 DEF Webhook, Accept, Offer, AlarmFires, Crash, Environment, JobSteps,
       JobBegins, JobRecords, JobEnds, CancelledRecords, CancelGoesOn, Tick, BackoffElapses, vars
  <2>2. CASE Retire
    BY <1>2, <1>7, <2>2 DEF Retire, RetireCancel, RetireDone, OfferOne, OffersDone
  <2>3. CASE Advance
    BY <1>2, <1>7, <2>3, AdvanceQuiet DEF Quiet, KeepCheck
  <2> QED
    BY <2>1, <2>2, <2>3 DEF Next
<1> QED
  BY <1>4, <1>5, <1>6, <1>7

\* Only publish posts, and only the review the handler holds.
LEMMA PostsChange ==
  ASSUME [Next]_vars
  PROVE  \/ UNCHANGED posts
         \/ pc = "post" /\ posts' = [posts EXCEPT ![mem.review] = @ + 1]
<1> USE DEF github, history, storage
<1>1. CASE Webhook \/ AlarmFires \/ Crash \/ Environment \/ UNCHANGED vars
  BY <1>1 DEF Webhook, Accept, Offer, AlarmFires, Crash, Environment, JobSteps, JobBegins,
     JobRecords, JobEnds, CancelledRecords, CancelGoesOn, Tick, BackoffElapses, vars
<1>2. CASE Retire
  BY <1>2 DEF Retire, RetireCancel, RetireComplete, RetireDone, OfferOne, OffersDone
<1>3. CASE \E o \in {"ok", "down", "refused", "moved"} : Revalidate(o)
  BY <1>3 DEF Revalidate
<1>4. CASE \E o \in GitHub \union {"broken"} : Post(o)
  BY <1>4 DEF Post
<1> QED
  BY <1>1, <1>2, <1>3, <1>4, StepsElsewhere DEF Next

\* What is known of the handler's own review where its step changes the world.
LEMMA OwnReview ==
  ASSUME HandlerInv, TruthInv, pc \in {"post", "completing"}, ending \in Endings
  PROVE  /\ mem.gen # 0
         /\ pc = "post" => mem.review # 0 /\ ~mem.shadow /\ ~Unposted(mem)
         /\ pc = "completing" /\ ending \in {"published", "shadow"} =>
              mem.review # 0 /\ ~Unposted(mem) /\ (ending = "shadow" => mem.shadow)
BY DEF HandlerInv, At, Active, Pcs, Reading

\* What the object and its handler know of a review stays known while neither
\* turns to another one.
LEMMA HeldStays ==
  ASSUME TypeInv, SyncInv, HandlerInv, TruthInv, [Next]_vars, pc # "prepare",
         NEW s \in AppReview, s = current \/ s = mem
  PROVE  Held(s, jobs', posts', checks')
<1> SUFFICES ASSUME s.review # 0 PROVE Held(s, jobs', posts', checks')
  BY DEF Held
<1> DEFINE r == s.review
<1>1. r \in ReviewIds /\ Held(s, jobs, posts, checks)
  BY DEF AppReview, TruthInv
<1>2. jobs'[r].gen = s.gen
  BY <1>1, JobsMove DEF Held
<1>3. mem.review = r /\ pc \in {"post", "completing"} => s = mem
  <2>1. mem.review = r => mem.gen = s.gen
    BY <1>1 DEF Held, TruthInv
  <2>2. pc \in {"post", "completing"} /\ current.gen = mem.gen => current = mem
    BY DEF SyncInv, Owns, Active, Pcs
  <2> QED
    BY <2>1, <2>2
<1>4. posts'[r] > 0 => ~s.shadow /\ ~Unposted(s)
  <2>1. CASE posts'[r] = posts[r]
    BY <1>1, <2>1 DEF Held
  <2>2. CASE pc = "post" /\ mem.review = r
    BY <1>3, <2>2, OwnReview DEF TypeInv, TypeOK, HandlerOK
  <2>3. posts \in [ReviewIds -> Nat]
    BY DEF TypeInv, TypeOK, WorldOK
  <2> QED
    BY <1>1, <2>1, <2>2, <2>3, PostsChange
<1>5. ASSUME NEW c \in CheckIds, checks'[c].state = "shadow", checks'[c].review = r
      PROVE  s.shadow /\ ~Unposted(s)
  <2>1. CASE checks[c].state = "shadow" /\ checks[c].review = r
    BY <1>1, <2>1 DEF Held, ShadowIn
  <2>2. CASE pc = "completing" /\ ending = "shadow" /\ mem.review = r
    BY <1>3, <2>2, OwnReview DEF TypeInv, TypeOK, HandlerOK
  <2> QED
    BY <1>5, <2>1, <2>2, VerdictsChange
<1> QED
  BY <1>2, <1>4, <1>5 DEF Held, ShadowIn

LEMMA FollowsHeld ==
  ASSUME NEW s, Follows(s), NEW js, NEW ps, NEW cs, Held(mem, js, ps, cs)
  PROVE  Held(s, js, ps, cs)
BY DEF Follows, Held

\* A review being started is a new one, or is still what the generation names.
LEMMA PrepareHeld ==
  ASSUME TypeInv, SyncInv, HandlerInv, TruthInv, NEW o, NEW shadow \in BOOLEAN,
         Prepare(o, shadow)
  PROVE  /\ Held(current, jobs, posts, checks)' /\ Held(mem, jobs, posts, checks)'
         /\ \A r \in ReviewIds : jobs[r].gen # 0 => jobs'[r].gen = jobs[r].gen
<1>1. /\ mem \in AppReview /\ jobs \in [ReviewIds -> Job] /\ UNCHANGED <<posts, checks>>
      /\ pc = "prepare" /\ mem.gen # 0 /\ mem.phase = "pending"
  BY DEF Prepare, github, TypeInv, TypeOK, HandlerOK, WorldOK, HandlerInv, At, Active, Pcs
<1>2. /\ Held(current, jobs, posts', checks') /\ Held(mem, jobs, posts', checks')
      /\ Held(NoReview, jobs', posts', checks')
  BY <1>1 DEF TruthInv, Held, NoReview
<1>3. CASE o # "ok" \/ ~Owns(mem)
  <2>1. UNCHANGED jobs
    BY <1>3 DEF Prepare
  <2>2. \E s : Follows(s) /\ Moves(s)
    <3>1. \/ Caught(o)
          \/ \E r : SaveAnd([mem EXCEPT !.shadow = shadow, !.review = r], "start")
      BY DEF Prepare
    <3>2. \A r : [mem EXCEPT !.shadow = shadow, !.review = r].gen = mem.gen
      BY <1>1 DEF AppReview
    <3>3. CASE o = "ok"
      <4>1. ~Owns(mem) /\ \E r : SaveAnd([mem EXCEPT !.shadow = shadow, !.review = r], "start")
        BY <1>3, <3>3 DEF Prepare
      <4>2. End(FALSE) /\ UNCHANGED current
        BY <3>2, <4>1 DEF SaveAnd, Owns
      <4>3. Moves(mem)
        BY <4>2 DEF End, Forget, Moves
      <4> QED
        BY <4>3, FollowsItself
    <3>4. CASE o # "ok"
      BY <3>4, CaughtMoves DEF Prepare
    <3> QED
      BY <3>3, <3>4
  <2> QED
    BY <1>2, <2>1, <2>2, FollowsHeld DEF Moves
<1>4. CASE o = "ok" /\ Owns(mem)
  <2> PICK r \in ReviewIds :
        /\ IF mem.review = 0 THEN FreshReview(r) ELSE r = mem.review
        /\ SaveAnd([mem EXCEPT !.shadow = shadow, !.review = r], "start")
        /\ jobs' = [jobs EXCEPT ![r].gen = mem.gen]
    BY <1>4 DEF Prepare
  <2> DEFINE s == [mem EXCEPT !.shadow = shadow, !.review = r]
  <2>1. s.gen = mem.gen /\ s.review = r /\ s.phase = "pending"
    BY <1>1 DEF AppReview
  <2>2. current' = s /\ mem' = s
    BY <1>4, <2>1 DEF SaveAnd, Owns
  <2>3. jobs'[r].gen = mem.gen /\ \A q \in ReviewIds \ {r} : jobs'[q].gen = jobs[q].gen
    BY <1>1 DEF Job
  <2>4. jobs[r].gen = 0 \/ (r = mem.review /\ jobs[r].gen = mem.gen)
    BY <1>1 DEF FreshReview, TruthInv, Held, ReviewIds
  <2>5. ~(posts[r] > 0) /\ ~ShadowIn(r, checks)
    <3>1. CASE jobs[r].gen = 0
      BY <3>1 DEF TruthInv, ShadowIn
    <3>2. CASE r = mem.review
      BY <1>1, <3>2 DEF TruthInv, Held, Unposted, ReviewIds
    <3> QED
      BY <2>4, <3>1, <3>2
  <2>6. Held(s, jobs', posts', checks')
    BY <1>1, <2>1, <2>3, <2>5 DEF Held
  <2> HIDE DEF s
  <2> QED
    BY <2>2, <2>3, <2>4, <2>6
<1> QED
  BY <1>3, <1>4

LEMMA WorldTruth ==
  ASSUME TypeInv, SyncInv, PostInv, HandlerInv, TruthInv, [Next]_vars,
         \A r \in ReviewIds : jobs[r].gen # 0 => jobs'[r].gen = jobs[r].gen
  PROVE  /\ CheckTellsTheTruth'
         /\ \A c \in CheckIds : checks'[c].state \in {"published", "shadow"} =>
              checks'[c].review # 0 /\ jobs'[checks'[c].review].gen # 0
         /\ \A r \in ReviewIds : posts'[r] > 0 => jobs'[r].gen # 0
<1> USE DEF TypeInv, TypeOK, WorldOK, HandlerOK
<1>1. /\ checks \in [CheckIds -> Check] /\ posts \in [ReviewIds -> Nat]
      /\ mem \in AppReview /\ ending \in Endings /\ \A r \in ReviewIds : r # 0
  BY DEF ReviewIds
<1>2. ASSUME NEW c \in CheckIds, checks'[c].state \in {"published", "shadow"}
      PROVE  /\ checks'[c].review \in ReviewIds
             /\ jobs[checks'[c].review].gen # 0
             /\ checks'[c].state = "published" => posts[checks'[c].review] = 1
             /\ checks'[c].state = "shadow" => posts[checks'[c].review] = 0
             /\ checks'[c].state = "shadow" /\ pc = "post" => checks'[c].review # mem.review
  <2>1. CASE checks'[c].state = checks[c].state /\ checks'[c].review = checks[c].review
    <3>1. checks[c].review \in ReviewIds /\ jobs[checks[c].review].gen # 0
      BY <1>1, <1>2, <2>1 DEF TruthInv, Check
    <3>2. pc = "post" /\ checks[c].state = "shadow" => checks[c].review # mem.review
      BY <1>1, <3>1, OwnReview DEF TruthInv, Held, ShadowIn
    <3> QED
      BY <1>2, <2>1, <3>1, <3>2 DEF TruthInv, CheckTellsTheTruth
  <2>2. CASE pc = "completing" /\ checks'[c].state = ending /\ checks'[c].review = mem.review
    <3>1. mem.review \in ReviewIds /\ mem.gen # 0 /\ (ending = "shadow" => mem.shadow)
      BY <1>1, <1>2, <2>2, OwnReview DEF AppReview
    <3>2. jobs[mem.review].gen = mem.gen /\ (posts[mem.review] > 0 => ~mem.shadow)
      BY <1>1, <3>1 DEF TruthInv, Held
    <3>3. ending = "published" => posts[mem.review] = 1
      BY <2>2 DEF TruthInv
    <3>4. posts[mem.review] \in Nat
      BY <1>1, <3>1
    <3> QED
      BY <1>2, <2>2, <3>1, <3>2, <3>3, <3>4
  <2> QED
    BY <1>2, <2>1, <2>2, VerdictsChange
<1>3. pc = "post" => mem.review \in ReviewIds /\ posts[mem.review] = 0
                     /\ jobs[mem.review].gen # 0
  <2>1. pc = "post" => mem.review \in ReviewIds /\ mem.gen # 0
    BY <1>1, OwnReview DEF AppReview
  <2> QED
    BY <1>1, <2>1 DEF PostInv, Marked, TruthInv, Held
<1>4. \A r \in ReviewIds : /\ r # mem.review \/ pc # "post" => posts'[r] = posts[r]
                           /\ posts'[r] > 0 => posts[r] > 0 \/ (pc = "post" /\ r = mem.review)
  BY <1>1, PostsChange
<1>5. \A r \in ReviewIds : posts'[r] > 0 => jobs'[r].gen # 0
  BY <1>3, <1>4 DEF TruthInv
<1>6. ASSUME NEW c \in CheckIds
      PROVE  /\ checks'[c].state = "published" => posts'[checks'[c].review] = 1
             /\ checks'[c].state = "shadow" => posts'[checks'[c].review] = 0
  BY <1>2, <1>3, <1>4
<1> QED
  BY <1>1, <1>2, <1>5, <1>6 DEF CheckTellsTheTruth

\* A handler that ends as published has just seen its review on the pull request.
LEMMA EndingTruth ==
  ASSUME TypeInv, SyncInv, PostInv, HandlerInv, TruthInv, [Next]_vars,
         pc' \in {"finish", "completing"}, ending' = "published"
  PROVE  posts'[mem'.review] = 1
<1> USE DEF storage, github, history, advance
<1>1. CASE Finish
  BY <1>1 DEF Finish, End, Goto, TruthInv
<1>2. CASE \E o \in GitHub : Completing(o)
  BY <1>2 DEF Completing, Caught, End, Goto
<1>3. ASSUME NEW o \in {"ok", "down", "refused", "moved"}, Revalidate(o) PROVE posts'[mem'.review] = 1
  <2>1. UNCHANGED <<posts, mem>> /\ Marked
    BY <1>3 DEF Revalidate, EndAs, Caught, End, Goto
  <2>2. mem.review \in ReviewIds /\ posts[mem.review] \in Nat /\ posts[mem.review] <= 1
    BY <1>3 DEF Revalidate, HandlerInv, At, Reading, TypeInv, TypeOK, HandlerOK, WorldOK,
       AppReview, PostInv, PostedOnce
  <2> QED
    BY <2>1, <2>2 DEF Marked
<1>4. ASSUME NEW o \in GitHub \union {"broken"}, Post(o) PROVE posts'[mem'.review] = 1
  <2>1. o = "ok" /\ mem' = mem
    BY <1>4 DEF Post, EndAs, Caught, End, Goto, GitHub, Transient
  <2>2. mem.review \in ReviewIds /\ posts[mem.review] = 0 /\ posts \in [ReviewIds -> Nat]
    BY <1>4 DEF Post, HandlerInv, At, Reading, TypeInv, TypeOK, HandlerOK, WorldOK,
       AppReview, PostInv, Marked
  <2> QED
    BY <1>4, <2>1, <2>2 DEF Post, Applied
<1>5. CASE Webhook \/ AlarmFires \/ Crash \/ Environment \/ UNCHANGED vars
  BY <1>5 DEF Webhook, Accept, Offer, AlarmFires, Crash, Forget, Environment, JobSteps,
     JobBegins, JobRecords, JobEnds, CancelledRecords, CancelGoesOn, Tick, BackoffElapses, vars, TruthInv
<1>6. CASE Retire
  BY <1>6 DEF Retire, RetireCancel, RetireComplete, RetireDone, OfferOne, OffersDone
<1>7. CASE AdvanceRead \/ KeepCheck \/ Progress \/ Judge
  BY <1>7 DEF AdvanceRead, KeepCheck, CreatedAs, Progress, Judge, EndAs, End, Goto
<1>8. ASSUME NEW o, Token(o) \/ MergeBase(o) \/ Poll(o) \/ Start(o) \/ Destroy(o)
                    \/ \E shadow : Prepare(o, shadow)
      PROVE  FALSE
  BY <1>8 DEF Token, MergeBase, Poll, Start, Destroy, Prepare, SaveAnd, EndAs, Caught, End, Goto
<1>9. ASSUME NEW o, IsDone(o) PROVE FALSE
  BY <1>9 DEF IsDone, SaveAnd, EndAs, Caught, End, Goto
<1>10. ASSUME NEW o, CreateCheck(o) \/ Disown(o) \/ UpdateCheck(o) PROVE FALSE
  BY <1>10 DEF CreateCheck, CreatedAs, Disown, UpdateCheck, Caught, End, Goto
<1> QED
  BY <1>1, <1>2, <1>3, <1>4, <1>5, <1>6, <1>7, <1>8, <1>9, <1>10 DEF Next, Advance

LEMMA TruthInductive ==
  ASSUME TypeInv, SyncInv, PostInv, HandlerInv, TruthInv, [Next]_vars
  PROVE  TruthInv'
<1>1. current \in AppReview /\ mem \in AppReview
  BY DEF TypeInv, TypeOK, StorageOK, HandlerOK
<1>2. Held(NoReview, jobs', posts', checks')
  BY DEF Held, NoReview
<1>3. /\ Held(current', jobs', posts', checks') /\ Held(mem', jobs', posts', checks')
      /\ \A r \in ReviewIds : jobs[r].gen # 0 => jobs'[r].gen = jobs[r].gen
  <2>1. CASE \E o \in {"ok", "down"}, shadow \in BOOLEAN : Prepare(o, shadow)
    BY <2>1, PrepareHeld
  <2>2. CASE /\ ~ \E o \in {"ok", "down"}, shadow \in BOOLEAN : Prepare(o, shadow)
             /\ Advance /\ ~AdvanceRead
    <3>1. PICK s : Follows(s) /\ Moves(s)
      BY <2>2, AdvanceMoves
    <3>2. CASE pc # "prepare"
      <4>1. Held(current, jobs', posts', checks') /\ Held(mem, jobs', posts', checks')
        BY <1>1, <3>2, HeldStays
      <4>2. Held(s, jobs', posts', checks')
        BY <3>1, <4>1, FollowsHeld
      <4> QED
        BY <1>2, <3>1, <3>2, <4>1, <4>2, JobsMove DEF Moves
    <3>3. pc # "prepare"
      BY <2>2 DEF Advance, Token, CreateCheck, KeepCheck, Disown, MergeBase, Start, Poll, IsDone,
         Progress, UpdateCheck, Judge, Destroy, Revalidate, Post, Finish, Completing
    <3> QED
      BY <3>2, <3>3
  <2>3. CASE AdvanceRead
    <3>1. pc # "prepare" /\ current' = current /\ (mem' = current \/ mem' = NoReview)
      BY <2>3 DEF AdvanceRead, End, Forget, storage
    <3> QED
      BY <1>1, <1>2, <2>3, <3>1, HeldStays, JobsMove
  <2>4. CASE ~Advance
    <3>1. UNCHANGED <<posts, checks>> \/ pc # "prepare"
      BY <2>4 DEF Next, Webhook, Accept, Offer, AlarmFires, Crash, Environment, JobSteps, JobBegins,
         JobRecords, JobEnds, CancelledRecords, CancelGoesOn, Tick, BackoffElapses, Retire, RetireCancel,
         RetireComplete, RetireDone, OfferOne, OffersDone, vars, github
    <3>2. \A r \in ReviewIds : jobs'[r].gen = jobs[r].gen
      BY <2>4, RetireMove, EnvironmentMove DEF Onward, Next, Webhook, Accept, Offer, AlarmFires, Crash, vars
    <3>3. Held(current, jobs', posts', checks') /\ Held(mem, jobs', posts', checks')
      <4>1. CASE pc # "prepare"
        BY <1>1, <4>1, HeldStays
      <4>2. CASE UNCHANGED <<posts, checks>>
        BY <1>1, <3>2, <4>2 DEF TruthInv, Held, AppReview
      <4> QED
        BY <3>1, <4>1, <4>2
    <3>4. /\ mem' = mem \/ mem' = NoReview
          /\ \/ current' = current \/ current'.review = 0
             \/ /\ current'.review = current.review /\ current'.gen = current.gen
                /\ current'.shadow = current.shadow /\ current'.phase = current.phase
      <4>1. CASE Webhook \/ AlarmFires \/ Crash \/ UNCHANGED vars
        BY <4>1 DEF Webhook, Accept, NextGeneration, NoReview, Offer, AlarmFires, Crash, Forget,
           vars, storage, advance
      <4>2. CASE Retire
        BY <4>2 DEF Retire, RetireCancel, RetireComplete, RetireDone, OfferOne, OffersDone,
           storage, advance
      <4>3. CASE Environment
        BY <1>1, <4>3 DEF Environment, JobSteps, JobBegins, JobRecords, JobEnds, CancelledRecords, CancelGoesOn,
           Tick, BackoffElapses, storage, advance, AppReview
      <4> QED
        BY <2>4, <4>1, <4>2, <4>3 DEF Next
    <3> QED
      BY <1>2, <3>2, <3>3, <3>4 DEF Held, Unposted
  <2> QED
    BY <2>1, <2>2, <2>3, <2>4
<1> QED
  BY <1>3, WorldTruth, EndingTruth DEF TruthInv

LEMMA HandlerInductive ==
  ASSUME TypeInv, SyncInv, HandlerInv, [Next]_vars
  PROVE  HandlerInv'
<1> USE DEF storage, advance
<1>1. CASE Advance
  BY <1>1, AdvanceAt
<1>2. ASSUME NEW d \in Deliveries, Accept(d) PROVE HandlerInv'
  <2>1. current'.gen # 0 /\ UNCHANGED <<pc, mem, ending>>
    BY <1>2, AcceptSync DEF Accept, TypeInv, TypeOK, StorageOK, AppReview
  <2> QED
    BY <2>1 DEF HandlerInv
<1>3. CASE Tick
  <2>1. current'.gen = current.gen /\ current'.phase = current.phase
    BY <1>3 DEF Tick, TypeInv, TypeOK, StorageOK, AppReview
  <2> QED
    BY <1>3, <2>1 DEF Tick, HandlerInv
<1>4. CASE AlarmFires \/ Retire
  BY <1>4 DEF AlarmFires, Retire, RetireCancel, RetireComplete, RetireDone, OfferOne, OffersDone,
     HandlerInv, At, Active, Reading
<1>5. CASE Crash
  BY <1>5 DEF Crash, Forget, HandlerInv, At, Active, Reading
<1>6. CASE \/ \E d \in OfferDeliveries : Offer(d)
           \/ Environment /\ ~Tick
           \/ UNCHANGED vars
  BY <1>6 DEF Offer, Environment, JobSteps, JobBegins, JobRecords, JobEnds, CancelledRecords, CancelGoesOn,
     BackoffElapses, vars, HandlerInv
<1> QED
  BY <1>1, <1>2, <1>3, <1>4, <1>5, <1>6 DEF Next, Webhook, Environment

LEMMA InitTruth == Init => SyncInv /\ PostInv /\ HandlerInv /\ TruthInv
BY DEF Init, SyncInv, NoReview, Active, PostInv, PostedOnce, HandlerInv, At, Reading, TruthInv,
   CheckTellsTheTruth, Held

LEMMA HandlerStep ==
  ASSUME TypeInv, SyncInv, HandlerInv, [Next]_vars
  PROVE  SyncInv' /\ HandlerInv'
BY AcceptSync, SyncInductive, HandlerInductive DEF SyncStep

\* A check never says published of a review that is not on the pull request, nor
\* shadow of one that is, though its mode is chosen, its posting repeated and its
\* completion retried by handlers that may crash in between (finish, publish).
THEOREM ChecksTellTheTruth == Spec => []CheckTellsTheTruth
<1>1. TruthInv => CheckTellsTheTruth
  BY DEF TruthInv
<1> QED
  BY <1>1, InitTruth, HandlerStep, PostInductive, TruthInductive, TypeCorrect, PTL DEF Spec

-----------------------------------------------------------------------------
(* No cloud review runs unanswered for *)

\* What is being published has stopped.
Stops(s) == s.phase = "publishing" => s.review # 0 /\ jobs[s.review].st = "done"

DoneInv ==
  /\ Stops(current) /\ Stops(mem)
  /\ pc \in {"judge", "destroy", "revalidate", "post"} => jobs[mem.review].st = "done"
  /\ pc = "destroy" => ~mem.retried

\* How the handler comes to act on a cloud review's answer.
LEMMA ReadingSteps ==
  ASSUME TypeInv, HandlerInv, [Next]_vars, pc' \in {"judge", "destroy", "revalidate", "post"}
  PROVE  \/ pc = "poll" /\ mem.phase # "running" /\ mem' = mem /\ pc' = "judge"
         \/ /\ pc = "isDone" /\ jobs[mem.review].st = "done" /\ mem'.review = mem.review
            /\ pc' = "judge"
         \/ /\ pc \in {"judge", "destroy", "revalidate", "post"} /\ mem' = mem
            /\ pc' = "destroy" => ~mem.retried \/ pc = "destroy"
<1> USE DEF storage, github, history, advance, Caught, SaveAnd, EndAs, End, Goto
<1>1. CASE Webhook \/ Environment \/ UNCHANGED vars
  BY <1>1 DEF Webhook, Accept, Offer, Environment, JobSteps, JobBegins, JobRecords, JobEnds,
     CancelledRecords, CancelGoesOn, Tick, BackoffElapses, vars
<1>2. CASE AlarmFires \/ Crash \/ Retire
  BY <1>2 DEF AlarmFires, Crash, Retire, RetireCancel, RetireComplete, RetireDone, OfferOne,
     OffersDone
<1>3. CASE AdvanceRead \/ KeepCheck \/ Progress \/ Judge \/ Finish
  BY <1>3 DEF AdvanceRead, KeepCheck, CreatedAs, Progress, Judge, Finish
<1>4. CASE \E o : Token(o) \/ MergeBase(o)
  BY <1>4 DEF Token, MergeBase
<1>5. CASE \E o : Destroy(o)
  BY <1>5 DEF Destroy
<1>6. CASE \E o : CreateCheck(o) \/ Disown(o)
  BY <1>6 DEF CreateCheck, CreatedAs, Disown
<1>7. CASE \E o : Poll(o)
  BY <1>7 DEF Poll
<1>8. CASE \E o : IsDone(o)
  <2>1. [mem EXCEPT !.phase = "publishing"].review = mem.review
    BY DEF TypeInv, TypeOK, HandlerOK, AppReview
  <2> QED
    BY <1>8, <2>1 DEF IsDone, Final
<1>9. CASE \E o, shadow : Prepare(o, shadow)
  BY <1>9 DEF Prepare
<1>10. CASE \E o : Start(o) \/ UpdateCheck(o) \/ Completing(o)
  BY <1>10 DEF Start, UpdateCheck, Completing
<1>11. CASE \E o \in {"ok", "down", "refused", "moved"} : Revalidate(o)
  BY <1>11 DEF Revalidate
<1>12. CASE \E o \in GitHub \union {"broken"} : Post(o)
  BY <1>12 DEF Post, GitHub, Transient
<1> QED
  BY <1>1, <1>2, <1>3, <1>4, <1>5, <1>6, <1>7, <1>8, <1>9, <1>10, <1>11, <1>12
     DEF Next, Advance

\* What a step makes of the current generation and of what the handler holds,
\* besides a new request and the naming of a cloud review.
LEMMA HoldersChange ==
  ASSUME TypeInv, HandlerInv, [Next]_vars,
         ~ \E o \in {"ok", "down"}, shadow \in BOOLEAN : Prepare(o, shadow)
  PROVE  \/ Advance /\ ~AdvanceRead /\ \E s : Follows(s) /\ Moves(s)
         \/ AdvanceRead /\ UNCHANGED current /\ (mem' = current \/ mem' = NoReview)
         \/ /\ ~Advance /\ (mem' = mem \/ mem' = NoReview)
            /\ \/ (\E d \in Deliveries : Accept(d)) /\ current' = NextGeneration(current)
               \/ \E a : current' = [current EXCEPT !.age = a]
               \/ UNCHANGED current
<1>1. CASE AdvanceRead
  BY <1>1 DEF AdvanceRead, End, Forget, storage
<1>2. CASE Advance /\ ~AdvanceRead
  BY <1>2, AdvanceMoves
<1>3. CASE ~Advance /\ (Webhook \/ AlarmFires \/ Crash \/ UNCHANGED vars)
  BY <1>3 DEF Webhook, Accept, Offer, AlarmFires, Crash, Forget, vars, storage, advance
<1>4. CASE ~Advance /\ Retire
  BY <1>4 DEF Retire, RetireCancel, RetireComplete, RetireDone, OfferOne, OffersDone,
     storage, advance
<1>5. CASE ~Advance /\ Environment
  BY <1>5 DEF Environment, JobSteps, JobBegins, JobRecords, JobEnds, CancelledRecords, CancelGoesOn,
     Tick, BackoffElapses, storage, advance
<1> QED
  BY <1>1, <1>2, <1>3, <1>4, <1>5 DEF Next, Advance

LEMMA PrepareSteps ==
  ASSUME TypeInv, SyncInv, HandlerInv, NEW o, NEW shadow \in BOOLEAN, Prepare(o, shadow)
  PROVE  \/ UNCHANGED jobs /\ \E s : Follows(s) /\ Moves(s)
         \/ \E r \in ReviewIds :
              /\ IF mem.review = 0 THEN FreshReview(r) ELSE r = mem.review
              /\ current = mem
              /\ current' = [mem EXCEPT !.shadow = shadow, !.review = r]
              /\ mem' = current'
              /\ jobs' = [jobs EXCEPT ![r].gen = mem.gen]
<1>1. mem \in AppReview /\ (Owns(mem) => current = mem)
  BY DEF Prepare, TypeInv, TypeOK, HandlerOK, SyncInv, Active, Pcs
<1>2. \A r : [mem EXCEPT !.shadow = shadow, !.review = r].gen = mem.gen
  BY <1>1 DEF AppReview
<1>3. CASE o # "ok"
  BY <1>3, CaughtMoves DEF Prepare
<1>4. CASE o = "ok" /\ ~Owns(mem)
  <2>1. UNCHANGED jobs /\ \E r : SaveAnd([mem EXCEPT !.shadow = shadow, !.review = r], "start")
    BY <1>4 DEF Prepare
  <2>2. Moves(mem)
    BY <1>2, <1>4, <2>1 DEF SaveAnd, Owns, End, Forget, Moves
  <2> QED
    BY <2>1, <2>2, FollowsItself
<1>5. CASE o = "ok" /\ Owns(mem)
  BY <1>1, <1>2, <1>5 DEF Prepare, SaveAnd, Owns
<1> QED
  BY <1>3, <1>4, <1>5

LEMMA DoneInductive ==
  ASSUME TypeInv, SyncInv, HandlerInv, DoneInv, [Next]_vars
  PROVE  DoneInv'
<1>1. /\ current \in AppReview /\ mem \in AppReview
      /\ \A r \in ReviewIds : jobs[r].st = "done" => jobs'[r].st = "done"
  BY JobsMove DEF TypeInv, TypeOK, StorageOK, HandlerOK
<1> DEFINE StopsNext(s) == s.phase = "publishing" => s.review # 0 /\ jobs'[s.review].st = "done"
<1>2. StopsNext(current) /\ StopsNext(mem) /\ StopsNext(NoReview)
  BY <1>1 DEF DoneInv, Stops, AppReview, NoReview
<1>3. StopsNext(current') /\ StopsNext(mem')
  <2>1. ASSUME NEW s, Follows(s), Moves(s) PROVE StopsNext(current') /\ StopsNext(mem')
    <3>1. StopsNext(s)
      <4>1. pc = "isDone" => mem.review \in ReviewIds
        BY <1>1 DEF HandlerInv, At, Reading, AppReview
      <4> QED
        BY <1>1, <1>2, <2>1, <4>1 DEF Follows, ReviewIds
    <3> HIDE DEF StopsNext
    <3> QED
      BY <1>2, <2>1, <3>1 DEF Moves
  <2>2. CASE \E o \in {"ok", "down"}, shadow \in BOOLEAN : Prepare(o, shadow)
    <3>1. PICK o \in {"ok", "down"}, shadow \in BOOLEAN : Prepare(o, shadow)
      BY <2>2
    <3>2. mem.phase = "pending"
      BY <3>1 DEF Prepare, HandlerInv, At
    <3>3. \A r : [mem EXCEPT !.shadow = shadow, !.review = r].phase = "pending"
      BY <1>1, <3>2 DEF AppReview
    <3> QED
      BY <2>1, <3>1, <3>3, PrepareSteps
  <2>3. CASE ~ \E o \in {"ok", "down"}, shadow \in BOOLEAN : Prepare(o, shadow)
    <3>1. NextGeneration(current).phase = "pending"
      BY DEF NextGeneration, NoReview
    <3>2. \A a : /\ [current EXCEPT !.age = a].phase = current.phase
                 /\ [current EXCEPT !.age = a].review = current.review
      BY <1>1 DEF AppReview
    <3>3. \A a : StopsNext([current EXCEPT !.age = a])
      BY <1>2, <3>2
    <3>4. StopsNext(NextGeneration(current))
      BY <3>1
    <3> HIDE DEF StopsNext
    <3> QED
      BY <1>2, <2>1, <2>3, <3>3, <3>4, HoldersChange
  <2> QED
    BY <2>2, <2>3
<1>4. ASSUME pc' \in {"judge", "destroy", "revalidate", "post"}
      PROVE  jobs'[mem'.review].st = "done" /\ (pc' = "destroy" => ~mem'.retried)
  <2>1. CASE pc = "poll" /\ mem.phase # "running" /\ mem' = mem /\ pc' = "judge"
    <3>1. mem.phase = "publishing"
      BY <1>1, <2>1 DEF HandlerInv, At, Reading, Unposted, SyncInv, Active, Pcs, AppReview, Phases
    <3> QED
      BY <1>2, <2>1, <3>1
  <2>2. CASE pc \in {"isDone", "judge", "destroy", "revalidate", "post"}
    <3>1. mem.review \in ReviewIds
      BY <1>1, <2>2 DEF HandlerInv, At, Reading, AppReview
    <3> QED
      BY <1>1, <1>4, <2>2, <3>1, ReadingSteps DEF DoneInv
  <2> QED
    BY <1>4, <2>1, <2>2, ReadingSteps
<1> QED
  BY <1>3, <1>4 DEF DoneInv, Stops

\* Review ids are issued in order, to the current generation, and a job that has
\* started has its id.
NumberInv ==
  /\ \A r \in ReviewIds : /\ jobs[r].gen <= current.gen
                          /\ jobs[r].gen = 0 => jobs[r].st = "none"
  /\ \A r, q \in ReviewIds : r < q /\ jobs[q].gen # 0 => jobs[r].gen # 0

\* What the current generation ran before it started over has stopped, and is one
\* review, older than the one it names now.
SiblingInv ==
  \A r \in ReviewIds :
    jobs[r].gen = current.gen /\ jobs[r].gen # 0 /\ r # current.review =>
      /\ current.retried /\ jobs[r].st = "done"
      /\ current.review # 0 => r < current.review
      /\ \A p \in ReviewIds : jobs[p].gen = current.gen /\ p # current.review => p = r

LEMMA SiblingsAlone ==
  ASSUME TypeInv, SiblingInv, NEW r \in ReviewIds, NEW q \in ReviewIds, r < q,
         jobs[r].gen # 0, jobs[r].gen = jobs[q].gen, jobs[r].gen = current.gen
  PROVE  /\ jobs[r].st = "done"
         /\ \A p \in ReviewIds \ {r, q} : jobs[p].gen # jobs[r].gen
<1>1. r \in Nat /\ q \in Nat /\ MaxReviews \in Nat
  BY ConstantsAssumption DEF ReviewIds
<1>2. r # current.review
  <2> SUFFICES ASSUME r = current.review PROVE FALSE
    OBVIOUS
  <2>1. q # current.review /\ r # 0
    BY <1>1 DEF ReviewIds
  <2>2. q < current.review
    BY <2>1 DEF SiblingInv
  <2> QED
    BY <1>1, <2>2
<1>3. q = current.review
  <2> SUFFICES ASSUME q # current.review PROVE q = r
    BY <1>1
  <2> QED
    BY <1>2 DEF SiblingInv
<1> QED
  BY <1>2, <1>3 DEF SiblingInv

\* A generation is given to a job only as it is named: an id used before, by this
\* generation, or the next one never used.
LEMMA JobGens ==
  ASSUME TypeInv, SyncInv, HandlerInv, TruthInv, NumberInv, [Next]_vars
  PROVE  \/ \A r \in ReviewIds : jobs'[r].gen = jobs[r].gen
         \/ \E r \in ReviewIds :
              /\ FreshReview(r) /\ current = mem /\ mem.review = 0 /\ mem.gen # 0
              /\ current'.review = r /\ current'.gen = current.gen
              /\ current'.retried = current.retried
              /\ jobs'[r].gen = current.gen /\ jobs'[r].st = jobs[r].st
              /\ \A q \in ReviewIds \ {r} : jobs'[q] = jobs[q]
<1>1. /\ mem \in AppReview /\ jobs \in [ReviewIds -> Job]
      /\ \A r \in ReviewIds : r # 0
  BY DEF TypeInv, TypeOK, HandlerOK, WorldOK, ReviewIds
<1>2. CASE ~ \E o \in {"ok", "down"}, shadow \in BOOLEAN : Prepare(o, shadow)
  <2>1. pc # "prepare" \/ UNCHANGED jobs \/ ~Advance
    BY <1>2, AdvanceKeepsJobs DEF Start
  <2>2. ~Advance => \A r \in ReviewIds : jobs'[r].gen = jobs[r].gen
    BY RetireMove, EnvironmentMove DEF Onward, Next, Webhook, Accept, Offer, AlarmFires, Crash, vars
  <2> QED
    BY <2>1, <2>2, JobsMove
<1>3. ASSUME NEW o \in {"ok", "down"}, NEW shadow \in BOOLEAN, Prepare(o, shadow),
             NEW r \in ReviewIds, current = mem,
             IF mem.review = 0 THEN FreshReview(r) ELSE r = mem.review,
             current' = [mem EXCEPT !.shadow = shadow, !.review = r],
             jobs' = [jobs EXCEPT ![r].gen = mem.gen]
      PROVE  \/ \A q \in ReviewIds : jobs'[q].gen = jobs[q].gen
             \/ /\ FreshReview(r) /\ mem.review = 0 /\ mem.gen # 0
                /\ current'.review = r /\ current'.gen = current.gen
                /\ current'.retried = current.retried
                /\ jobs'[r].gen = current.gen /\ jobs'[r].st = jobs[r].st
                /\ \A q \in ReviewIds \ {r} : jobs'[q] = jobs[q]
  <2>1. CASE mem.review = 0
    <3>1. mem.gen # 0
      BY <1>3 DEF Prepare, HandlerInv, At, Active, Pcs
    <3>2. /\ jobs'[r].gen = mem.gen /\ jobs'[r].st = jobs[r].st
          /\ \A q \in ReviewIds \ {r} : jobs'[q] = jobs[q]
      BY <1>1, <1>3 DEF Job
    <3>3. /\ current'.review = r /\ current'.gen = mem.gen /\ current'.retried = mem.retried
      BY <1>1, <1>3 DEF AppReview
    <3> QED
      BY <1>3, <2>1, <3>1, <3>2, <3>3
  <2>2. CASE mem.review # 0
    <3>1. jobs[r].gen = mem.gen
      BY <1>3, <2>2 DEF TruthInv, Held
    <3> QED
      BY <1>1, <1>3, <3>1 DEF Job
  <2> QED
    BY <2>1, <2>2
<1>4. CASE \E o \in {"ok", "down"}, shadow \in BOOLEAN : Prepare(o, shadow)
  <2> PICK o \in {"ok", "down"}, shadow \in BOOLEAN : Prepare(o, shadow)
    BY <1>4
  <2>1. CASE UNCHANGED jobs
    BY <2>1
  <2>2. CASE ~UNCHANGED jobs
    <3> PICK r \in ReviewIds :
          /\ IF mem.review = 0 THEN FreshReview(r) ELSE r = mem.review
          /\ current = mem
          /\ current' = [mem EXCEPT !.shadow = shadow, !.review = r]
          /\ jobs' = [jobs EXCEPT ![r].gen = mem.gen]
      BY <2>2, PrepareSteps
    <3> QED
      BY <1>3
  <2> QED
    BY <2>1, <2>2
<1> QED
  BY <1>2, <1>4

LEMMA NumberInductive ==
  ASSUME TypeInv, SyncInv, HandlerInv, TruthInv, NumberInv, [Next]_vars
  PROVE  NumberInv'
<1>1. current.gen \in Nat /\ current'.gen \in Nat /\ current.gen <= current'.gen
  BY GenChange
<1>2. jobs \in [ReviewIds -> Job] /\ \A r \in ReviewIds : jobs[r].gen \in Nat /\ r \in Nat
  BY ConstantsAssumption DEF TypeInv, TypeOK, WorldOK, Job, ReviewIds
<1>3. ASSUME NEW r \in ReviewIds PROVE jobs'[r].gen <= current'.gen
  BY <1>1, <1>2, JobGens DEF NumberInv
<1>4. ASSUME NEW r \in ReviewIds, jobs'[r].gen = 0 PROVE jobs'[r].st = "none"
  <2>1. jobs[r].gen = 0 /\ jobs[r].st = "none"
    BY <1>4, JobGens DEF NumberInv
  <2>2. CASE Onward(r)
    BY <2>1, <2>2 DEF Onward
  <2>3. CASE pc = "start" /\ r = mem.review
    BY <2>1, <2>3 DEF TruthInv, Held, HandlerInv, At, Active, Pcs, ReviewIds
  <2> QED
    BY <2>1, <2>2, <2>3, JobsMove
<1>5. ASSUME NEW r \in ReviewIds, NEW q \in ReviewIds, r < q, jobs'[q].gen # 0
      PROVE  jobs'[r].gen # 0
  <2>1. CASE \A p \in ReviewIds : jobs'[p].gen = jobs[p].gen
    BY <1>5, <2>1 DEF NumberInv
  <2>2. ASSUME NEW f \in ReviewIds, FreshReview(f), current = mem, mem.gen # 0,
               jobs'[f].gen = current.gen, \A p \in ReviewIds \ {f} : jobs'[p] = jobs[p]
        PROVE  jobs'[r].gen # 0
    BY <1>5, <2>2 DEF NumberInv, FreshReview
  <2> QED
    BY <2>1, <2>2, JobGens
<1> QED
  BY <1>3, <1>4, <1>5 DEF NumberInv

\* Unless a job is being named, the current generation names the cloud review it
\* named; it names none after a loss, or as a new one.
LEMMA CurrentReview ==
  ASSUME TypeInv, SyncInv, HandlerInv, TruthInv, [Next]_vars,
         \A r \in ReviewIds : jobs'[r].gen = jobs[r].gen
  PROVE  \/ /\ current'.gen = current.gen /\ current'.review = current.review
            /\ current'.retried = current.retried
         \/ /\ pc = "destroy" /\ current = mem /\ current'.gen = current.gen
            /\ current'.review = 0 /\ current'.retried
         \/ (\E d \in Deliveries : Accept(d)) /\ current'.gen = current.gen + 1
<1>1. /\ current \in AppReview /\ mem \in AppReview /\ jobs \in [ReviewIds -> Job]
      /\ pc \in Active => (Owns(mem) => current = mem)
  BY DEF TypeInv, TypeOK, StorageOK, HandlerOK, WorldOK, SyncInv
<1>2. ASSUME NEW s, Follows(s), Moves(s), pc \in Active
      PROVE  \/ /\ current'.gen = current.gen /\ current'.review = current.review
                /\ current'.retried = current.retried
             \/ /\ pc = "destroy" /\ current = mem /\ current'.gen = current.gen
                /\ current'.review = 0 /\ current'.retried
  BY <1>1, <1>2 DEF Follows, Moves
<1>3. CASE \E o \in {"ok", "down"}, shadow \in BOOLEAN : Prepare(o, shadow)
  <2> PICK o \in {"ok", "down"}, shadow \in BOOLEAN : Prepare(o, shadow)
    BY <1>3
  <2>1. pc \in Active
    BY DEF Prepare, Active, Pcs
  <2>2. ASSUME NEW r \in ReviewIds, current = mem,
               IF mem.review = 0 THEN FreshReview(r) ELSE r = mem.review,
               current' = [mem EXCEPT !.shadow = shadow, !.review = r],
               jobs' = [jobs EXCEPT ![r].gen = mem.gen]
        PROVE  /\ current'.gen = current.gen /\ current'.review = current.review
               /\ current'.retried = current.retried
    <3>1. jobs'[r].gen = mem.gen /\ mem.gen # 0
      BY <1>1, <2>1, <2>2 DEF Job, HandlerInv, At
    <3>2. mem.review # 0
      BY <2>2, <3>1 DEF FreshReview
    <3> QED
      BY <1>1, <2>2, <3>2 DEF AppReview
  <2> QED
    BY <1>2, <2>1, <2>2, PrepareSteps
<1>4. CASE ~ \E o \in {"ok", "down"}, shadow \in BOOLEAN : Prepare(o, shadow)
  <2>1. Advance /\ ~AdvanceRead => pc \in Active
    BY DEF Advance, Token, CreateCheck, KeepCheck, Disown, MergeBase, Prepare, Start, Poll,
       IsDone, Progress, UpdateCheck, Judge, Destroy, Revalidate, Post, Finish, Completing,
       Active, Pcs
  <2>2. \A a : /\ [current EXCEPT !.age = a].gen = current.gen
               /\ [current EXCEPT !.age = a].review = current.review
               /\ [current EXCEPT !.age = a].retried = current.retried
    BY <1>1 DEF AppReview
  <2>3. (\E d \in Deliveries : Accept(d)) => current'.gen = current.gen + 1
    BY GenChange
  <2> QED
    BY <1>2, <1>4, <2>1, <2>2, <2>3, HoldersChange
<1> QED
  BY <1>3, <1>4

\* The numbers the next two lemmas compare are numbers, and what is done stays done.
LEMMA JobsKnown ==
  ASSUME TypeInv, [Next]_vars
  PROVE  /\ \A r \in ReviewIds : /\ jobs[r].gen \in Nat /\ r \in Nat /\ r # 0
                                 /\ jobs[r].st = "done" => jobs'[r].st = "done"
         /\ current.gen \in Nat
<1>1. ASSUME NEW r \in ReviewIds PROVE r \in Nat /\ r # 0
  <2>1. MaxReviews \in Nat
    BY ConstantsAssumption
  <2> QED
    BY <2>1 DEF ReviewIds
<1>2. jobs \in [ReviewIds -> Job] /\ current \in AppReview
  BY DEF TypeInv, TypeOK, WorldOK, StorageOK
<1>3. ASSUME NEW r \in ReviewIds PROVE jobs[r].gen \in Nat
  BY <1>2 DEF Job
<1>4. ASSUME NEW r \in ReviewIds PROVE jobs[r].st = "done" => jobs'[r].st = "done"
  BY JobsMove
<1> QED
  BY <1>1, <1>2, <1>3, <1>4 DEF AppReview

LEMMA SiblingInductive ==
  ASSUME TypeInv, SyncInv, HandlerInv, TruthInv, DoneInv, NumberInv, SiblingInv, [Next]_vars
  PROVE  SiblingInv'
<1>1. /\ \A r \in ReviewIds : /\ jobs[r].gen \in Nat /\ r \in Nat /\ r # 0
                              /\ jobs[r].st = "done" => jobs'[r].st = "done"
      /\ current.gen \in Nat
  BY JobsKnown
<1>2. CASE \A r \in ReviewIds : jobs'[r].gen = jobs[r].gen
  <2>1. CASE /\ current'.gen = current.gen /\ current'.review = current.review
             /\ current'.retried = current.retried
    BY <1>1, <1>2, <2>1 DEF SiblingInv
  <2>2. CASE /\ pc = "destroy" /\ current = mem /\ current'.gen = current.gen
             /\ current'.review = 0 /\ current'.retried
    <3>1. ~current.retried /\ jobs[current.review].st = "done"
      BY <2>2 DEF DoneInv
    <3>2. ASSUME NEW r \in ReviewIds, jobs[r].gen = current.gen, jobs[r].gen # 0
          PROVE  r = current.review
      BY <3>1, <3>2 DEF SiblingInv
    <3> QED
      BY <1>1, <1>2, <2>2, <3>1, <3>2 DEF SiblingInv
  <2>3. CASE current'.gen = current.gen + 1
    <3>1. \A r \in ReviewIds : jobs[r].gen # current'.gen
      BY <1>1, <2>3 DEF NumberInv
    <3> QED
      BY <1>2, <3>1 DEF SiblingInv
  <2> QED
    BY <1>2, <2>1, <2>2, <2>3, CurrentReview
<1>3. ASSUME NEW f \in ReviewIds, FreshReview(f), current = mem, mem.review = 0, mem.gen # 0,
             current'.review = f, current'.gen = current.gen,
             current'.retried = current.retried,
             \A q \in ReviewIds \ {f} : jobs'[q] = jobs[q]
      PROVE  SiblingInv'
  <2>1. jobs[f].gen = 0
    BY <1>3 DEF FreshReview
  <2>2. ASSUME NEW r \in ReviewIds, jobs[r].gen # 0, r # f PROVE r < f
    <3>1. ~(f < r)
      BY <2>1, <2>2 DEF NumberInv
    <3> QED
      BY <1>1, <2>2, <3>1
  <2> QED
    BY <1>1, <1>3, <2>2 DEF SiblingInv
<1> QED
  BY <1>2, <1>3, JobGens

LEMMA AloneInductive ==
  ASSUME TypeInv, SyncInv, HandlerInv, TruthInv, NumberInv, SiblingInv, RetriedOnceAndAlone,
         [Next]_vars
  PROVE  RetriedOnceAndAlone'
<1>1. /\ \A r \in ReviewIds : /\ jobs[r].gen \in Nat /\ r \in Nat /\ r # 0
                              /\ jobs[r].st = "done" => jobs'[r].st = "done"
      /\ current.gen \in Nat
  BY JobsKnown
<1>2. CASE \A r \in ReviewIds : jobs'[r].gen = jobs[r].gen
  BY <1>1, <1>2 DEF RetriedOnceAndAlone
<1>3. ASSUME NEW f \in ReviewIds, FreshReview(f), current = mem, mem.review = 0, mem.gen # 0,
             jobs'[f].gen = current.gen,
             \A q \in ReviewIds \ {f} : jobs'[q] = jobs[q],
             NEW r \in ReviewIds, NEW q \in ReviewIds, r < q,
             jobs'[r].gen # 0, jobs'[r].gen = jobs'[q].gen
      PROVE  /\ jobs'[r].st = "done"
             /\ \A p \in ReviewIds \ {r, q} : jobs'[p].gen # jobs'[r].gen
  <2>1. CASE jobs'[r].gen = current.gen
    <3>1. \A p \in ReviewIds : p # f /\ jobs[p].gen = current.gen =>
            /\ jobs[p].st = "done"
            /\ \A u \in ReviewIds : u # f /\ jobs[u].gen = current.gen => u = p
      BY <1>1, <1>3 DEF SiblingInv
    <3>2. q = f /\ r # f
      <4>1. r = f \/ q = f
        <5> SUFFICES ASSUME r # f, q # f PROVE q = r
          BY <1>1, <1>3
        <5>1. jobs[r].gen = current.gen /\ jobs[q].gen = current.gen
          BY <1>3, <2>1
        <5> QED
          BY <3>1, <5>1
      <4>2. ~(f < q)
        BY <1>1, <1>3, <2>1 DEF FreshReview, NumberInv
      <4> QED
        BY <1>1, <1>3, <4>1, <4>2
    <3> QED
      BY <1>3, <2>1, <3>1, <3>2
  <2>2. CASE jobs'[r].gen # current.gen
    <3>1. r # f /\ q # f
      BY <1>3, <2>2
    <3> QED
      BY <1>3, <2>2, <3>1 DEF RetriedOnceAndAlone
  <2> QED
    BY <2>1, <2>2
<1> QED
  BY <1>2, <1>3, JobGens DEF RetriedOnceAndAlone

\* A superseded generation's other review has stopped.
EntryInv ==
  \A e \in Entries, r \in ReviewIds :
    jobs[r].gen = e.gen /\ jobs[r].gen # 0 => r = e.review \/ jobs[r].st = "done"

LEMMA EntryInductive ==
  ASSUME TypeInv, SyncInv, HandlerInv, TruthInv, ListInv, NumberInv, SiblingInv, EntryInv,
         [Next]_vars
  PROVE  EntryInv'
<1> SUFFICES ASSUME NEW x \in Entries', NEW r \in ReviewIds,
                    jobs'[r].gen = x.gen, jobs'[r].gen # 0
             PROVE  r = x.review \/ jobs'[r].st = "done"
  BY DEF EntryInv
<1>1. CASE (\E d \in Deliveries : Accept(d)) /\ x = Retiring(current)
  <2>1. x.gen = current.gen /\ x.review = current.review /\ UNCHANGED jobs
    BY <1>1 DEF Accept, Retiring
  <2> QED
    BY <2>1 DEF SiblingInv
<1>2. ASSUME NEW y \in Entries, EntriesFrom(x, y)
      PROVE  r = x.review \/ jobs'[r].st = "done"
  <2>1. y.gen < current.gen /\ x.gen = y.gen /\ x.review = y.review
    BY <1>2 DEF ListInv, EntriesFrom
  <2>2. jobs[r].gen = y.gen /\ jobs[r].gen # 0
    <3>1. current.gen \in Nat
      BY DEF TypeInv, TypeOK, StorageOK, AppReview
    <3> QED
      BY <2>1, <3>1, JobGens
  <2> QED
    BY <2>1, <2>2, JobsMove DEF EntryInv
<1> QED
  BY <1>1, <1>2, EntriesChange

\* What a dismissed generation ran has stopped, no handler goes on with one, and
\* the entry whose cancel was answered is about to be one.
DismissedInv ==
  /\ DismissedIsStopped
  /\ \A g \in dismissed : g < current.gen
  /\ pc \in Active => mem.gen \notin dismissed
  /\ pc = "complete" /\ Stopped(entry) =>
       \A r \in ReviewIds : jobs[r].gen = entry.gen => jobs[r].st \in {"none", "done"}

\* A generation is dismissed as its check is completed.
LEMMA DismissedChange ==
  ASSUME [Next]_vars
  PROVE  \/ UNCHANGED dismissed
         \/ /\ pc = "complete" /\ Stopped(entry) /\ dismissed' = dismissed \union {entry.gen}
            /\ pc' = "retire" /\ UNCHANGED <<jobs, current>>
<1>1. CASE Retire
  BY <1>1 DEF Retire, RetireCancel, RetireComplete, RetireDone, OfferOne, OffersDone, history,
     storage
<1>2. CASE Advance
  BY <1>2, AdvanceKeepsList
<1>3. CASE Webhook \/ AlarmFires \/ Crash \/ Environment \/ UNCHANGED vars
  BY <1>3 DEF Webhook, Accept, Offer, AlarmFires, Crash, Environment, JobSteps, JobBegins,
     JobRecords, JobEnds, CancelledRecords, CancelGoesOn, Tick, BackoffElapses, vars, history
<1> QED
  BY <1>1, <1>2, <1>3 DEF Next

\* The handler holds the generation it held, or the current one.
LEMMA HeldGeneration ==
  ASSUME TypeInv, SyncInv, HandlerInv, [Next]_vars, pc' \in Active
  PROVE  \/ pc \in Active /\ mem'.gen = mem.gen
         \/ UNCHANGED current /\ mem' = current
<1>1. mem'.gen # 0
  BY HandlerInductive DEF HandlerInv, At
<1>2. mem' # NoReview
  BY <1>1 DEF NoReview
<1>3. mem \in AppReview
  BY DEF TypeInv, TypeOK, HandlerOK
<1>4. Advance /\ ~AdvanceRead => pc \in Active
  BY DEF Advance, Token, CreateCheck, KeepCheck, Disown, MergeBase, Prepare, Start, Poll,
     IsDone, Progress, UpdateCheck, Judge, Destroy, Revalidate, Post, Finish, Completing,
     Active, Pcs
<1>5. CASE \E o \in {"ok", "down"}, shadow \in BOOLEAN : Prepare(o, shadow)
  <2> PICK o \in {"ok", "down"}, shadow \in BOOLEAN : Prepare(o, shadow)
    BY <1>5
  <2>1. pc \in Active
    BY DEF Prepare, Active, Pcs
  <2>2. \A r : [mem EXCEPT !.shadow = shadow, !.review = r].gen = mem.gen
    BY <1>3 DEF AppReview
  <2> QED
    BY ZenonT(60), <1>2, <2>1, <2>2, PrepareSteps DEF Follows, Moves
<1>6. CASE ~ \E o \in {"ok", "down"}, shadow \in BOOLEAN : Prepare(o, shadow)
  <2>1. ~Advance => pc \in Active
    BY DEF Next, Webhook, Accept, Offer, AlarmFires, Crash, Retire, RetireCancel, RetireComplete,
       RetireDone, OfferOne, OffersDone, Environment, JobSteps, JobBegins, JobRecords, JobEnds,
       CancelledRecords, CancelGoesOn, Tick, BackoffElapses, vars, Active, Pcs
  <2> QED
    BY <1>2, <1>4, <1>6, <2>1, HoldersChange DEF Follows, Moves
<1> QED
  BY <1>5, <1>6

\* An entry reaches its completion once its review's cancel was answered or given up.
LEMMA CompletionReached ==
  ASSUME TypeInv, [Next]_vars, pc' = "complete"
  PROVE  \/ pc = "complete" /\ entry' = entry
         \/ /\ pc = "retire"
            /\ \E e \in todo : /\ entry'.gen = e.gen
                               /\ Stopped(entry)' => /\ entry' = e
                                                     /\ e.review # 0 => CancelJob(e.review, "ok")
<1>1. CASE Advance
  BY <1>1, AdvanceKeepsList
<1>2. ASSUME NEW e \in todo, NEW o \in Transient, RetireCancel(e, o)
      PROVE  /\ pc = "retire" /\ entry'.gen = e.gen
             /\ Stopped(entry)' => /\ entry' = e
                                   /\ e.review # 0 => CancelJob(e.review, "ok")
  <2>1. e \in Retiree /\ RetireAttempts \in Nat
    BY ConstantsAssumption DEF TypeInv, TypeOK, HandlerOK
  <2>2. LET f == [e EXCEPT !.cancelFails = RetireAttempts]
        IN  f.gen = e.gen /\ f.cancelFails = RetireAttempts
    BY <2>1 DEF Retiree
  <2>3. CASE o = "ok"
    BY <1>2, <2>3 DEF RetireCancel
  <2>4. CASE o # "ok"
    <3>1. pc = "retire" /\ entry' = [e EXCEPT !.cancelFails = RetireAttempts]
      BY <1>2, <2>4 DEF RetireCancel
    <3> QED
      BY <2>1, <2>2, <3>1 DEF Stopped
  <2> QED
    BY <2>3, <2>4
<1>3. CASE Retire /\ ~ \E e \in todo, o \in Transient : RetireCancel(e, o)
  BY <1>3 DEF Retire, RetireComplete, RetireDone, OfferOne, OffersDone
<1>4. CASE Webhook \/ AlarmFires \/ Crash \/ Environment \/ UNCHANGED vars
  BY <1>4 DEF Webhook, Accept, Offer, AlarmFires, Crash, Environment, JobSteps, JobBegins,
     JobRecords, JobEnds, CancelledRecords, CancelGoesOn, Tick, BackoffElapses, vars, retire
<1> QED
  BY <1>1, <1>2, <1>3, <1>4 DEF Next

LEMMA DismissedInductive ==
  ASSUME TypeInv, SyncInv, HandlerInv, TruthInv, ListInv, NumberInv, EntryInv, DismissedInv,
         [Next]_vars
  PROVE  DismissedInv'
<1>1. /\ current.gen \in Nat /\ current'.gen \in Nat /\ current.gen <= current'.gen
      /\ dismissed \subseteq Nat
  BY GenChange DEF TypeInv, TypeOK, HistoryOK
<1>2. pc = "complete" => entry.gen < current.gen
  BY DEF ListInv, Entries
<1>3. \A g \in dismissed' : g < current.gen /\ g < current'.gen
  <2>1. \A g \in dismissed : g < current.gen
    BY DEF DismissedInv
  <2>2. \A g \in dismissed' : g < current.gen /\ g \in Nat
    BY <1>1, <1>2, <2>1, DismissedChange DEF TypeInv, Retiree
  <2> QED
    BY <1>1, <2>2
<1>4. ASSUME pc' \in Active PROVE mem'.gen \notin dismissed'
  <2>1. CASE pc \in Active /\ mem'.gen = mem.gen
    BY <2>1, DismissedChange DEF DismissedInv, Active, Pcs
  <2>2. CASE UNCHANGED current /\ mem' = current
    BY <1>1, <1>3, <2>2
  <2> QED
    BY <1>4, <2>1, <2>2, HeldGeneration
<1>5. ASSUME NEW r \in ReviewIds, jobs'[r].gen \in dismissed'
      PROVE  jobs'[r].st \in {"none", "done"}
  <2>1. jobs'[r].gen = jobs[r].gen
    BY <1>1, <1>3, <1>5, JobGens
  <2>2. CASE dismissed' = dismissed
    <3>1. jobs[r].st \in {"none", "done"}
      BY <1>5, <2>1, <2>2 DEF DismissedInv, DismissedIsStopped
    <3>2. CASE pc = "start" /\ r = mem.review
      BY <1>5, <2>1, <2>2, <3>2 DEF DismissedInv, TruthInv, Held, Active, Pcs, ReviewIds
    <3> QED
      BY <3>1, <3>2, JobsMove DEF Onward
  <2>3. CASE /\ pc = "complete" /\ Stopped(entry)
             /\ dismissed' = dismissed \union {entry.gen} /\ UNCHANGED jobs
    BY <1>5, <2>3 DEF DismissedInv, DismissedIsStopped
  <2> QED
    BY <2>2, <2>3, DismissedChange
<1>6. ASSUME pc' = "complete", Stopped(entry)', NEW r \in ReviewIds, jobs'[r].gen = entry'.gen
      PROVE  jobs'[r].st \in {"none", "done"}
  <2>1. pc \in {"complete", "retire"} /\ jobs'[r].gen = jobs[r].gen
    BY <1>6, CompletionReached, JobsMove
  <2>2. CASE pc = "complete" /\ entry' = entry
    BY <1>6, <2>1, <2>2, JobsMove DEF DismissedInv, Onward, Stopped
  <2>3. ASSUME NEW e \in todo, entry' = e, e.review # 0 => CancelJob(e.review, "ok")
        PROVE  jobs'[r].st \in {"none", "done"}
    <3>1. jobs[r].st \in {"none", "done"} => jobs'[r].st = jobs[r].st
      BY <2>1, JobsMove DEF Onward
    <3>2. CASE jobs[r].gen = 0
      BY <3>1, <3>2 DEF NumberInv
    <3>3. CASE r = e.review
      <4>1. CancelJob(r, "ok") /\ jobs \in [ReviewIds -> Job]
        BY <2>3, <3>3 DEF TypeInv, TypeOK, WorldOK, ReviewIds
      <4> QED
        BY <4>1 DEF CancelJob, Applied, Job
    <3> QED
      BY <1>6, <2>1, <2>3, <3>1, <3>2, <3>3 DEF EntryInv, Entries
  <2> QED
    BY <1>6, <2>2, <2>3, CompletionReached
<1> QED
  BY <1>3, <1>4, <1>5, <1>6 DEF DismissedInv, DismissedIsStopped

LEMMA InitOwned ==
  Init => DoneInv /\ NumberInv /\ SiblingInv /\ RetriedOnceAndAlone /\ EntryInv /\ DismissedInv
BY DEF Init, NoReview, DoneInv, Stops, NumberInv, SiblingInv, RetriedOnceAndAlone, EntryInv,
   DismissedInv, DismissedIsStopped, Active, Entries

\* A generation runs one cloud review, and a second only once the first has stopped
\* and was lost; and what a retired generation ran has stopped and stays stopped, if
\* its cancel was answered, even when the handler that would start it is still out.
THEOREM ReviewsOwned == Spec => []ReviewsAreOwned
<1>1. RetriedOnceAndAlone /\ DismissedInv => ReviewsAreOwned
  BY DEF ReviewsAreOwned, DismissedInv
<1> QED
  BY <1>1, InitOwned, InitTruth, InitCheckInv, HandlerStep, PostInductive, TruthInductive,
     ListInductive, DoneInductive, NumberInductive, SiblingInductive, AloneInductive,
     EntryInductive, DismissedInductive, TypeCorrect, PTL DEF Spec

-----------------------------------------------------------------------------
(* A push's offer *)

\* What the handler has offered in this pass has its check, or was refused it.
OfferInv == OffersAccounted /\ offered \subseteq offerChecks \union waivedHeads

\* A step that leaves the offers alone, and forgets what it offered or does not.
LEMMA OfferFrame ==
  ASSUME OfferInv, UNCHANGED <<offers, delivered, offerChecks, waivedHeads>>,
         offered' \in {offered, {}}
  PROVE  OfferInv'
BY DEF OfferInv, OffersAccounted

\* No step of advance touches an offer.
LEMMA AdvanceOffers ==
  ASSUME Advance
  PROVE  UNCHANGED <<offers, delivered, offerChecks, waivedHeads>> /\ offered' \in {offered, {}}
<1> USE DEF Caught, SaveAnd, EndAs, End, EndWithoutWake, Forget, Goto, github, storage, history, offer
<1>1. CASE AdvanceRead \/ KeepCheck \/ Progress \/ Judge \/ Finish
  BY <1>1 DEF AdvanceRead, KeepCheck, CreatedAs, Progress, Judge, Finish
<1>2. CASE \E o : Token(o) \/ MergeBase(o)
  BY <1>2 DEF Token, MergeBase
<1>3. CASE \E o : CreateCheck(o) \/ Disown(o)
  BY <1>3 DEF CreateCheck, CreatedAs, Disown
<1>4. CASE \E o : Poll(o) \/ IsDone(o) \/ Destroy(o)
  BY <1>4 DEF Poll, IsDone, Destroy
<1>5. CASE \E o, shadow : Prepare(o, shadow)
  BY <1>5 DEF Prepare
<1>6. CASE \E o : Start(o) \/ UpdateCheck(o) \/ Completing(o)
  BY <1>6 DEF Start, UpdateCheck, Completing
<1>7. CASE \E o \in {"ok", "down", "refused", "moved"} : Revalidate(o)
  BY <1>7 DEF Revalidate
<1>8. CASE \E o \in GitHub \union {"broken"} : Post(o)
  BY <1>8 DEF Post, GitHub, Transient
<1> QED
  BY <1>1, <1>2, <1>3, <1>4, <1>5, <1>6, <1>7, <1>8 DEF Advance

LEMMA OfferInductive == TypeInv /\ OfferInv /\ [Next]_vars => OfferInv'
<1> SUFFICES ASSUME TypeInv, OfferInv, [Next]_vars PROVE OfferInv'
  OBVIOUS
<1>1. ASSUME NEW d \in Deliveries, Accept(d) PROVE OfferInv'
  <2>1. /\ delivered' = delivered \union {d} /\ d \notin OfferDeliveries
        /\ UNCHANGED <<offers, offered, offerChecks, waivedHeads>>
    BY <1>1, ConstantsAssumption DEF Accept, offer, github, history
  <2> QED BY <2>1 DEF OfferInv, OffersAccounted
<1>2. ASSUME NEW d \in OfferDeliveries, Offer(d) PROVE OfferInv'
  BY <1>2 DEF Offer, offer, github, history, OfferInv, OffersAccounted
<1>3. CASE AlarmFires \/ Crash
  BY <1>3, OfferFrame DEF AlarmFires, Crash, Forget, storage, offer, github, history
<1>4. ASSUME NEW d \in offering, NEW o \in GitHub, OfferOne(d, o) PROVE OfferInv'
  <2>1. /\ UNCHANGED <<offers, delivered>>
        /\ offerChecks \subseteq offerChecks' /\ waivedHeads \subseteq waivedHeads'
        /\ offered' \subseteq offered \union offerChecks' \union waivedHeads'
    BY <1>4 DEF OfferOne, Applied, storage
  <2> QED BY <2>1 DEF OfferInv, OffersAccounted
<1>5. CASE OffersDone
  <2>1. /\ offers' = StillOffered /\ offered' = {}
        /\ UNCHANGED <<delivered, offerChecks, waivedHeads>>
    BY <1>5 DEF OffersDone, github, history
  <2> QED BY <2>1 DEF OfferInv, OffersAccounted, StillOffered
<1>6. CASE RetireDone
  BY <1>6, OfferFrame DEF RetireDone, github, history
<1>7. CASE \E e \in todo, o \in Transient : RetireCancel(e, o)
  BY <1>7, OfferFrame DEF RetireCancel, storage, offer, github, history
<1>8. CASE \E o \in GitHub : RetireComplete(o)
  BY <1>8, OfferFrame DEF RetireComplete, storage, offer
<1>9. CASE Advance
  BY <1>9, AdvanceOffers, OfferFrame
<1>10. CASE Environment
  BY <1>10, OfferFrame
     DEF Environment, JobSteps, JobBegins, JobRecords, JobEnds, CancelledRecords, CancelGoesOn, Tick,
         BackoffElapses, storage, offer, github, history
<1>11. CASE UNCHANGED vars
  BY <1>11, OfferFrame DEF vars, storage, offer, github, history
<1> QED
  BY <1>1, <1>2, <1>3, <1>4, <1>5, <1>6, <1>7, <1>8, <1>9, <1>10, <1>11
     DEF Next, Webhook, Retire

\* At any moment the offer of a push that was delivered is waiting in the list, its
\* head has the check that offers a review, or GitHub refused it one: no crash, lost
\* answer or push meanwhile loses it (offer, offerReviews).
THEOREM OffersKept == Spec => []OffersAccounted
<1>1. Init => OfferInv
  BY DEF Init, OfferInv, OffersAccounted
<1>2. OfferInv => OffersAccounted
  BY DEF OfferInv
<1> QED
  BY <1>1, <1>2, OfferInductive, TypeCorrect, PTL DEF Spec
===============================================================================
