-------------------------- MODULE PullRequestReview --------------------------
(***************************************************************************)
(* The GitHub App's side of a review: the Durable Object there is one of   *)
(* per pull request (worker.ts, class PullRequestReview), together with    *)
(* what it talks to, GitHub's check runs and reviews, and the ReviewJob    *)
(* objects that run its cloud reviews.                                     *)
(*                                                                         *)
(* The object's storage (current, superseded, offers, deliveries, alarm)   *)
(* survives a crash; everything the alarm handler holds between two awaits *)
(* (pc, mem, ...) does not.  A storage operation closes the object's input *)
(* gate, so webhooks interleave with the handler only where it awaits a    *)
(* fetch or an RPC: those are the handler's steps here.                    *)
(*                                                                         *)
(* A remote call has one of these outcomes:                                *)
(*   ok       it was applied and answered                                  *)
(*   lost     it was applied, and the caller saw a retryable error         *)
(*   down     it was not applied: an outage, a 5xx or a rate limit         *)
(*   refused  GitHub answered 403, 404 or 422 with no reset to wait for    *)
(*   broken   a review was posted, and its answer could not be parsed      *)
(*   moved    the pull request no longer is what was reviewed              *)
(*                                                                         *)
(* The definitions named Never..., Only..., Any..., ...Any, ...Always,     *)
(* ...Only, EndWithoutWake and SameCheckAgain are faulty variants of the   *)
(* definition that follows each: the properties are tested against them,   *)
(* and no action uses them.                                                *)
(***************************************************************************)
EXTENDS Naturals, FiniteSets

CONSTANTS
  Deliveries,       \* webhook deliveries that ask for a review
  OfferDeliveries,  \* webhook deliveries of a push, which offer one
  HeadOf,           \* the head commit an offer is for
  RetireAttempts,   \* RETIRE_ATTEMPTS
  Deadline,         \* a review's deadline, in ticks of the clock
  Grace,            \* the 120 s the object waits beyond it
  MaxChecks,        \* bound: check runs GitHub may be asked for
  MaxReviews,       \* bound: review ids that may be issued
  MaxFaults         \* bound: calls that fail and crashes of the object

ASSUME ConstantsAssumption ==
  /\ HeadOf \in [OfferDeliveries -> STRING]
  /\ Deliveries \intersect OfferDeliveries = {}   \* one webhook, one handler
  /\ {RetireAttempts, MaxChecks, MaxReviews} \subseteq Nat \ {0}
  /\ {Deadline, Grace, MaxFaults} \subseteq Nat

CheckIds  == 1..MaxChecks
ReviewIds == 1..MaxReviews
Window    == Deadline + Grace

Phases   == {"none", "pending", "running", "publishing", "done"}
\* What a receipt comes to: one that can be published, one of a run the platform
\* lost, or any other (another failure, a wrong revision, no JSON object).
Receipts == {"none", "publishable", "lost", "unusable"}
\* How a generation ends, and what its completed check says.  Only published
\* and shadow are GitHub's conclusion success.
Endings  == {"published", "shadow", "neutral", "late"}

\* The stored state of a generation; 0 stands for null in check and review.
AppReview == [gen : Nat, check : CheckIds \union {0}, base : BOOLEAN,
              review : ReviewIds \union {0}, phase : Phases,
              retried : BOOLEAN, shadow : BOOLEAN, age : 0..(Window + 1)]
\* A superseded generation, with the failures its retirement has met.
Retiree   == [gen : Nat, check : CheckIds, review : ReviewIds \union {0},
              cancelFails : Nat, completeFails : Nat, due : BOOLEAN]
Check     == [state : {"absent", "open"} \union Endings, gen : Nat,
              review : ReviewIds \union {0}]
Job       == [gen : Nat, st : {"none", "scheduled", "parked", "running", "done"},
              receipt : Receipts, cancelled : BOOLEAN, age : 0..Deadline]

NoReview == [gen |-> 0, check |-> 0, base |-> FALSE, review |-> 0,
             phase |-> "none", retried |-> FALSE, shadow |-> FALSE, age |-> 0]
NoRetiree == [gen |-> 0, check |-> 0, review |-> 0, cancelFails |-> 0,
              completeFails |-> 0, due |-> FALSE]

Pcs == {"idle", "retire", "complete", "offer", "advance", "token", "create",
        "disown", "merge", "prepare", "start", "poll", "isDone", "progress",
        "updating", "judge", "destroy", "revalidate", "post", "finish",
        "completing"}

VARIABLES
  \* storage of the object
  current, superseded, offers, delivered, alarm,
  \* memory of a running alarm handler
  pc, mem, seen, ending, again, wake, todo, entry, retired, patched,
  offering, offered,
  \* the world
  checks,       \* GitHub's check runs, by id
  posts,        \* GitHub's reviews carrying the marker of each review id
  offerChecks,  \* heads that got a neutral check with a Review button
  jobs,         \* the ReviewJob object of each review id, as ReviewJob promises
  faults,
  \* history: checks ever stored, checks the code gave up, heads refused,
  \* generations retired with their cloud review's cancel answered
  recorded, waived, waivedHeads, dismissed

storage == <<current, superseded, offers, delivered>>
advance == <<mem, seen, ending, again>>
retire  == <<todo, entry, retired, patched>>
offer   == <<offering, offered>>
github  == <<checks, posts, offerChecks>>
history == <<recorded, waived, waivedHeads, dismissed>>
vars == <<storage, alarm, pc, advance, wake, retire, offer, github, jobs,
          faults, history>>

Init ==
  /\ current = NoReview /\ superseded = {} /\ offers = {} /\ delivered = {}
  /\ alarm = "none"
  /\ pc = "idle" /\ mem = NoReview /\ seen = "none" /\ ending = "neutral"
  /\ again = FALSE /\ wake = FALSE
  /\ todo = {} /\ entry = NoRetiree /\ retired = {} /\ patched = {}
  /\ offering = {} /\ offered = {}
  /\ checks = [c \in CheckIds |-> [state |-> "absent", gen |-> 0, review |-> 0]]
  /\ posts = [r \in ReviewIds |-> 0]
  /\ offerChecks = {}
  /\ jobs = [r \in ReviewIds |-> [gen |-> 0, st |-> "none", receipt |-> "none",
                                  cancelled |-> FALSE, age |-> 0]]
  /\ faults = 0
  /\ recorded = {} /\ waived = {} /\ waivedHeads = {} /\ dismissed = {}

-----------------------------------------------------------------------------
(* Webhooks *)

\* What a generation leaves to retire when a newer one replaces it.
Supersedes(state) == state.check # 0 /\ state.phase # "done"

RetiringCheckOnly(state) == [gen |-> state.gen, check |-> state.check, review |-> 0,
                             cancelFails |-> 0, completeFails |-> 0, due |-> TRUE]

Retiring(state) == [gen |-> state.gen, check |-> state.check,
                    review |-> state.review, cancelFails |-> 0,
                    completeFails |-> 0, due |-> TRUE]

NeverDuplicate(d) == FALSE

SameCheckAgain(state) == [state EXCEPT !.gen = @ + 1, !.phase = "pending"]

\* Nothing of the older generation is carried over.
NextGeneration(state) == [NoReview EXCEPT !.gen = state.gen + 1, !.phase = "pending"]

\* The delivery is already in the list.
Duplicate(d) == d \in delivered

Accept(d) ==
  /\ ~Duplicate(d)
  /\ delivered' = delivered \union {d}
  /\ superseded' = IF Supersedes(current)
                   THEN superseded \union {Retiring(current)} ELSE superseded
  /\ current' = NextGeneration(current)
  /\ alarm' = "now"
  /\ UNCHANGED <<offers, pc, advance, wake, retire, offer, github, jobs,
                 faults, history>>

Offer(d) ==
  /\ ~Duplicate(d)
  /\ delivered' = delivered \union {d}
  /\ offers' = offers \union {d}
  /\ alarm' = "now"
  /\ UNCHANGED <<current, superseded, pc, advance, wake, retire, offer, github,
                 jobs, faults, history>>

-----------------------------------------------------------------------------
(* Remote calls and the ends of the handler *)

Applied(o) == o \in {"ok", "lost", "broken"}

Call(o) == IF o \in {"ok", "moved"} THEN UNCHANGED faults
           ELSE faults < MaxFaults /\ faults' = faults + 1

OwnsAlways(state) == TRUE

\* save(): a handler of an older generation stores nothing.
Owns(state) == current.gen = state.gen

Forget ==
  /\ mem' = NoReview /\ seen' = "none" /\ ending' = "neutral" /\ again' = FALSE
  /\ wake' = FALSE /\ todo' = {} /\ entry' = NoRetiree /\ retired' = {}
  /\ patched' = {} /\ offering' = {} /\ offered' = {}

EndWithoutWake(retry) ==
  /\ pc' = "idle"
  /\ alarm' = IF retry THEN "later" ELSE alarm
  /\ Forget

\* The alarm handler returns: it sets the next alarm when a step asked for one,
\* over whatever a webhook set meanwhile.
End(retry) ==
  /\ pc' = "idle"
  /\ alarm' = IF wake \/ retry THEN "later" ELSE alarm
  /\ Forget

Goto(label) == pc' = label /\ UNCHANGED <<alarm, wake, retire, offer>>

Crash ==
  /\ pc # "idle" /\ Call("down")
  /\ pc' = "idle" /\ alarm' = "now"
  /\ Forget
  /\ UNCHANGED <<storage, github, jobs, history>>

-----------------------------------------------------------------------------
(* alarm(): retireSuperseded, offerReviews, advance *)

AlarmFires ==
  /\ pc = "idle" /\ alarm # "none"
  /\ alarm' = "none"
  /\ pc' = "retire"
  /\ todo' = {e \in superseded : e.due}
  /\ UNCHANGED <<storage, advance, wake, entry, retired, patched, offer, github,
                 jobs, faults, history>>

\* ReviewJob.cancel() as its caller sees it.
CancelJob(r, o) ==
  LET j == jobs[r]
      live == j.st \notin {"none", "done"} IN
  IF Applied(o)
  THEN jobs' = IF live
               THEN [jobs EXCEPT ![r] = [j EXCEPT !.st = "done", !.cancelled = TRUE]]
               ELSE jobs
  ELSE \/ jobs' = jobs
       \/ live /\ jobs' = [jobs EXCEPT ![r] = [j EXCEPT !.cancelled = TRUE,
                             !.st = IF j.st = "scheduled" THEN "parked" ELSE j.st]]

RetireCancel(e, o) ==
  /\ pc = "retire" /\ e \in todo
  /\ IF e.review = 0 THEN o = "ok" /\ UNCHANGED jobs ELSE CancelJob(e.review, o)
  /\ Call(o)
  /\ todo' = todo \ {e}
  /\ IF o = "ok" \/ e.cancelFails + 1 >= RetireAttempts
     THEN /\ pc' = "complete" /\ UNCHANGED patched
          /\ entry' = IF o = "ok" THEN e ELSE [e EXCEPT !.cancelFails = RetireAttempts]
     ELSE /\ patched' = patched \union {[e EXCEPT !.cancelFails = @ + 1]}
          /\ UNCHANGED <<pc, entry>>
  /\ UNCHANGED <<storage, alarm, advance, wake, retired, offer, github,
                 history>>

CompleteCheck(c, state, review) ==
  checks' = [checks EXCEPT ![c].state = state, ![c].review = review]

\* The entry's cancel was answered; one given up on keeps its stored count.
Stopped(e) == e.cancelFails < RetireAttempts

\* The entry as it is stored for the next try, after a backoff.
CompletionFailed(e) ==
  [e EXCEPT !.completeFails = @ + 1, !.due = FALSE,
            !.cancelFails = IF Stopped(e) THEN @ ELSE @ - 1]

RetireComplete(o) ==
  /\ pc = "complete"
  /\ Call(o)
  /\ IF Applied(o) THEN CompleteCheck(entry.check, "neutral", checks[entry.check].review)
     ELSE UNCHANGED checks
  /\ LET givenUp == o = "refused" \/ (o # "ok" /\ entry.completeFails + 1 >= RetireAttempts)
     IN IF o = "ok" \/ givenUp
        THEN /\ retired' = retired \union {entry.gen}
             /\ waived' = IF givenUp THEN waived \union {entry.check} ELSE waived
             /\ dismissed' = IF Stopped(entry) THEN dismissed \union {entry.gen}
                             ELSE dismissed
             /\ UNCHANGED patched
        ELSE /\ patched' = patched \union {CompletionFailed(entry)}
             /\ UNCHANGED <<retired, waived, dismissed>>
  /\ entry' = NoRetiree
  /\ pc' = "retire"
  /\ UNCHANGED <<storage, alarm, advance, wake, todo, offer, posts, offerChecks,
                 jobs, recorded, waivedHeads>>

OnlyPatched == {p \in patched : p.gen \notin retired}

\* The list is read again, for what a webhook added while the calls were out.
StillSuperseded ==
  {e \in superseded : e.gen \notin retired /\ \A p \in patched : p.gen # e.gen}
    \union {p \in patched : p.gen \notin retired}

RetireDone ==
  /\ pc = "retire" /\ todo = {}
  /\ superseded' = StillSuperseded
  /\ wake' = (superseded' # {})
  /\ retired' = {} /\ patched' = {}
  /\ offering' = offers
  /\ pc' = "offer"
  /\ UNCHANGED <<current, offers, delivered, alarm, advance, todo, entry, offered,
                 github, jobs, faults, history>>

OfferOne(d, o) ==
  /\ pc = "offer" /\ d \in offering
  /\ Call(o)
  /\ offering' = offering \ {d}
  /\ offerChecks' = IF Applied(o) THEN offerChecks \union {HeadOf[d]} ELSE offerChecks
  /\ offered' = IF o \in {"ok", "refused"} THEN offered \union {HeadOf[d]} ELSE offered
  /\ waivedHeads' = IF o = "refused" THEN waivedHeads \union {HeadOf[d]} ELSE waivedHeads
  /\ UNCHANGED <<storage, alarm, pc, advance, wake, retire, checks, posts, jobs, recorded, waived, dismissed>>

\* One offer serves every delivery for its head.
StillOffered == {d \in offers : HeadOf[d] \notin offered}

OffersDone ==
  /\ pc = "offer" /\ offering = {}
  /\ offers' = StillOffered
  /\ wake' = (wake \/ offers' # {})
  /\ offered' = {}
  /\ pc' = "advance"
  /\ UNCHANGED <<current, superseded, delivered, alarm, advance, retire, offering,
                 github, jobs, faults, history>>

-----------------------------------------------------------------------------
(* advance() *)

AdvanceRead ==
  /\ pc = "advance"
  /\ IF current.phase \in {"none", "done"}
     THEN End(FALSE)
     ELSE /\ mem' = current /\ Goto("token")
          /\ UNCHANGED <<seen, ending, again>>
  /\ UNCHANGED <<storage, github, jobs, faults, history>>

\* The catch clause: a refusal ends the generation, with its check if it has
\* one; anything else is tried again.
Caught(o) ==
  IF o # "refused"
  THEN End(TRUE) /\ UNCHANGED current
  ELSE IF mem.check = 0
       THEN /\ End(FALSE)
            /\ current' = IF Owns(mem) THEN [mem EXCEPT !.phase = "done"] ELSE current
       ELSE /\ ending' = "neutral" /\ again' = TRUE
            /\ Goto("finish")
            /\ UNCHANGED <<current, mem, seen>>

\* Store s and go on, or stop because a newer generation was accepted.
SaveAnd(s, label) ==
  IF Owns(s)
  THEN current' = s /\ mem' = s /\ Goto(label) /\ UNCHANGED <<seen, ending, again>>
  ELSE End(FALSE) /\ UNCHANGED current

EndAs(e) ==
  ending' = e /\ Goto("finish") /\ UNCHANGED <<current, mem, seen, again>>

Token(o) ==
  /\ pc = "token"
  /\ Call(o)
  /\ IF o = "ok"
     THEN /\ Goto(IF mem.phase = "pending" THEN "create" ELSE "poll")
          /\ UNCHANGED <<current, advance>>
     ELSE Caught(o)
  /\ UNCHANGED <<superseded, offers, delivered, github, jobs, history>>

FreshCheck(c) ==
  checks[c].state = "absent" /\ \A b \in CheckIds : b < c => checks[b].state # "absent"

\* The check created last is stored, or completed at once by a handler that
\* finds itself superseded.
CreatedAs(s) ==
  IF Owns(s)
  THEN current' = s /\ mem' = s /\ recorded' = recorded \union {s.check} /\ Goto("merge")
       /\ UNCHANGED <<seen, ending, again>>
  ELSE mem' = s /\ Goto("disown") /\ UNCHANGED <<current, recorded, seen, ending, again>>

CreateCheck(o) ==
  /\ pc = "create" /\ mem.check = 0
  /\ Call(o)
  /\ \E c \in CheckIds :
       /\ FreshCheck(c)
       /\ checks' = IF Applied(o)
                    THEN [checks EXCEPT ![c].state = "open", ![c].gen = mem.gen]
                    ELSE checks
       /\ IF o = "ok" THEN CreatedAs([mem EXCEPT !.check = c])
          ELSE Caught(o) /\ UNCHANGED recorded
  /\ UNCHANGED <<superseded, offers, delivered, posts, offerChecks, jobs,
                 waived, waivedHeads, dismissed>>

KeepCheck ==
  /\ pc = "create" /\ mem.check # 0
  /\ CreatedAs(mem)
  /\ UNCHANGED <<superseded, offers, delivered, github, jobs, faults,
                 waived, waivedHeads, dismissed>>

Disown(o) ==
  /\ pc = "disown"
  /\ Call(o)
  /\ IF Applied(o) THEN CompleteCheck(mem.check, "neutral", checks[mem.check].review)
     ELSE UNCHANGED checks
  /\ IF o = "ok" THEN End(FALSE) /\ UNCHANGED current ELSE Caught(o)
  /\ UNCHANGED <<superseded, offers, delivered, posts, offerChecks, jobs,
                 history>>

MergeBase(o) ==
  /\ pc = "merge" /\ (mem.base => o = "ok")
  /\ Call(o)
  /\ IF o = "ok" THEN SaveAnd([mem EXCEPT !.base = TRUE], "prepare") ELSE Caught(o)
  /\ UNCHANGED <<superseded, offers, delivered, github, jobs, history>>

FreshReview(r) ==
  jobs[r].gen = 0 /\ \A q \in ReviewIds : q < r => jobs[q].gen # 0

\* readBrief, readConfig and the tier turn a refusal into a default; the review
\* id is stored before the job starts, so that whoever supersedes this
\* generation can cancel it.
Prepare(o, shadow) ==
  /\ pc = "prepare"
  /\ Call(o)
  /\ IF o # "ok"
     THEN Caught(o) /\ UNCHANGED jobs
     ELSE \E r \in ReviewIds :
            /\ IF mem.review = 0 THEN FreshReview(r) ELSE r = mem.review
            /\ SaveAnd([mem EXCEPT !.shadow = shadow, !.review = r], "start")
            /\ jobs' = IF Owns(mem) THEN [jobs EXCEPT ![r].gen = mem.gen] ELSE jobs
  /\ UNCHANGED <<superseded, offers, delivered, github, history>>

\* ReviewJob.start(): starting again a job that began changes nothing it will read.
StartJob(r) ==
  jobs' = IF jobs[r].st \in {"none", "scheduled", "parked"}
          THEN [jobs EXCEPT ![r].st = "scheduled", ![r].age = 0]
          ELSE jobs

Start(o) ==
  /\ pc = "start"
  /\ Call(o)
  /\ IF Applied(o) THEN StartJob(mem.review) ELSE UNCHANGED jobs
  /\ IF o = "ok" THEN SaveAnd([mem EXCEPT !.phase = "running"], "poll") ELSE Caught(o)
  /\ UNCHANGED <<superseded, offers, delivered, github, history>>

Poll(o) ==
  /\ pc = "poll"
  /\ Call(o)
  /\ IF o = "ok"
     THEN /\ seen' = jobs[mem.review].receipt
          /\ Goto(IF mem.phase = "running" THEN "isDone" ELSE "judge")
          /\ UNCHANGED <<current, mem, ending, again>>
     ELSE Caught(o)
  /\ UNCHANGED <<superseded, offers, delivered, github, jobs, history>>

\* A receipt counts once the job is done with its sandbox.
Final == seen # "none" /\ jobs[mem.review].st = "done"

NeverLate == FALSE

Late == mem.age > Window

IsDone(o) ==
  /\ pc = "isDone" /\ (seen = "none" => o = "ok")
  /\ Call(o)
  /\ IF o # "ok" THEN Caught(o)
     ELSE \/ Final /\ SaveAnd([mem EXCEPT !.phase = "publishing"], "judge")
          \/ ~Final /\ Late /\ EndAs("late")
          \/ ~Final /\ ~Late /\ Goto("progress") /\ UNCHANGED <<current, advance>>
  /\ UNCHANGED <<superseded, offers, delivered, github, jobs, history>>

\* reportProgress(): nothing new to say, or a newer generation, sends nothing.
Progress ==
  /\ pc = "progress"
  /\ \/ End(TRUE)
     \/ Owns(mem) /\ Goto("updating") /\ UNCHANGED advance
  /\ UNCHANGED <<storage, github, jobs, faults, history>>

\* updateCheck() sets the status in_progress, whatever it was.
UpdateCheck(o) ==
  /\ pc = "updating"
  /\ Call(o)
  /\ checks' = IF Applied(o) THEN [checks EXCEPT ![mem.check].state = "open"] ELSE checks
  /\ End(TRUE)
  /\ UNCHANGED <<storage, posts, offerChecks, jobs, history>>

Judge ==
  /\ pc = "judge"
  /\ \/ seen \in {"none", "unusable"} /\ EndAs("neutral")
     \/ seen = "lost" /\ mem.retried /\ EndAs("neutral")
     \/ seen = "lost" /\ ~mem.retried /\ Goto("destroy") /\ UNCHANGED <<current, advance>>
     \/ seen = "publishable" /\ mem.shadow /\ EndAs("shadow")
     \/ seen = "publishable" /\ ~mem.shadow /\ Goto("revalidate")
          /\ UNCHANGED <<current, advance>>
  /\ UNCHANGED <<superseded, offers, delivered, github, jobs, faults, history>>

\* A review lost to the platform starts over, once, with a new id and clock.
Destroy(o) ==
  /\ pc = "destroy"
  /\ Call(o)
  /\ IF o # "ok" THEN EndAs("neutral")
     ELSE /\ End(Owns(mem))
          /\ current' = IF Owns(mem)
                        THEN [mem EXCEPT !.retried = TRUE, !.review = 0, !.age = 0,
                                         !.phase = "pending"]
                        ELSE current
  /\ UNCHANGED <<superseded, offers, delivered, github, jobs, history>>

NeverMarked == FALSE

AnyMarked == \E r \in ReviewIds : posts[r] > 0

\* alreadyPublished(): the pull request carries this review's marker.
Marked == posts[mem.review] > 0

Revalidate(o) ==
  /\ pc = "revalidate"
  /\ Call(o)
  /\ CASE o \in {"moved", "refused"} -> EndAs("neutral")
       [] o = "down" -> Caught(o)
       [] o = "ok" -> \/ Marked /\ EndAs("published")
                      \/ ~Marked /\ Owns(mem) /\ Goto("post") /\ UNCHANGED <<current, advance>>
                      \/ ~Marked /\ ~Owns(mem) /\ End(FALSE) /\ UNCHANGED current
  /\ UNCHANGED <<superseded, offers, delivered, github, jobs, history>>

Post(o) ==
  /\ pc = "post"
  /\ Call(o)
  /\ posts' = IF Applied(o) THEN [posts EXCEPT ![mem.review] = @ + 1] ELSE posts
  /\ CASE o = "ok" -> EndAs("published")
       [] o \in {"refused", "broken"} -> EndAs("neutral")
       [] o \in {"lost", "down"} -> Caught(o)
  /\ UNCHANGED <<superseded, offers, delivered, checks, offerChecks, jobs,
                 history>>

\* finish(): the generation is read, then the check completed, then it is stored.
Finish ==
  /\ pc = "finish"
  /\ IF Owns(mem) THEN Goto("completing") /\ UNCHANGED advance ELSE End(FALSE)
  /\ UNCHANGED <<storage, github, jobs, faults, history>>

Completing(o) ==
  /\ pc = "completing"
  /\ Call(o)
  /\ IF Applied(o) THEN CompleteCheck(mem.check, ending, mem.review) ELSE UNCHANGED checks
  /\ IF o = "ok" \/ (o = "refused" /\ again)
     THEN /\ current' = IF Owns(mem) THEN [mem EXCEPT !.phase = "done"] ELSE current
          /\ waived' = IF o = "refused" /\ Owns(mem) THEN waived \union {mem.check} ELSE waived
          /\ End(FALSE)
     ELSE Caught(o) /\ UNCHANGED waived
  /\ UNCHANGED <<superseded, offers, delivered, posts, offerChecks, jobs,
                 recorded, waivedHeads, dismissed>>

-----------------------------------------------------------------------------
(* The cloud reviews, which do whatever ReviewJob's promise allows, and the clock *)

PromisedJob(r) == INSTANCE JobPromise WITH
  Receipts <- Receipts \ {"none"}, st <- jobs[r].st,
  receipt <- jobs[r].receipt, cancelled <- jobs[r].cancelled

JobBegins(r) ==
  /\ jobs' = [jobs EXCEPT ![r].st = "running"] /\ PromisedJob(r)!Begin
  /\ UNCHANGED <<storage, alarm, pc, advance, wake, retire, offer, github, faults, history>>

JobRecords(r, receipt) ==
  /\ jobs' = [jobs EXCEPT ![r].receipt = receipt] /\ PromisedJob(r)!Record
  /\ UNCHANGED <<storage, alarm, pc, advance, wake, retire, offer, github, faults, history>>

JobEnds(r) ==
  /\ jobs' = [jobs EXCEPT ![r].st = "done"] /\ PromisedJob(r)!End
  /\ UNCHANGED <<storage, alarm, pc, advance, wake, retire, offer, github, faults, history>>

\* A cancel whose caller saw an error goes on behind its back.
CancelGoesOn(r, st) ==
  /\ jobs[r].cancelled
  /\ jobs' = [jobs EXCEPT ![r].st = st] /\ PromisedJob(r)!Cancel
  /\ UNCHANGED <<storage, alarm, pc, advance, wake, retire, offer, github, faults, history>>

\* A cancelled job's record and its run race for the receipt.
CancelledRecords(r, receipt) ==
  /\ jobs' = [jobs EXCEPT ![r].receipt = receipt] /\ PromisedJob(r)!Overwrite
  /\ UNCHANGED <<storage, alarm, pc, advance, wake, retire, offer, github, faults, history>>

Older(age, bound) == IF age < bound THEN age + 1 ELSE age

\* Minutes pass between alarms that are not due, not inside a handler.
Tick ==
  /\ pc = "idle" /\ alarm # "now"
  /\ current' = [current EXCEPT !.age = IF current.phase \in {"none", "done"} THEN @
                                        ELSE Older(@, Window + 1)]
  /\ jobs' = [r \in ReviewIds |->
                IF jobs[r].st \in {"scheduled", "running"}
                THEN [jobs[r] EXCEPT !.age = Older(@, Deadline)] ELSE jobs[r]]
  /\ UNCHANGED <<superseded, offers, delivered, alarm, pc, advance, wake, retire,
                 offer, github, faults, history>>

\* completionRetryAt comes.
BackoffElapses(e) ==
  /\ e \in superseded /\ ~e.due
  /\ superseded' = (superseded \ {e}) \union {[e EXCEPT !.due = TRUE]}
  /\ UNCHANGED <<current, offers, delivered, alarm, pc, advance, wake, retire, offer,
                 github, jobs, faults, history>>

-----------------------------------------------------------------------------
Transient == {"ok", "lost", "down"}
GitHub    == Transient \union {"refused"}

Webhook == \/ \E d \in Deliveries : Accept(d)
           \/ \E d \in OfferDeliveries : Offer(d)

Retire == \/ \E e \in todo, o \in Transient : RetireCancel(e, o)
          \/ \E o \in GitHub : RetireComplete(o)
          \/ RetireDone
          \/ \E d \in offering, o \in GitHub : OfferOne(d, o)
          \/ OffersDone

Advance == \/ AdvanceRead
           \/ \E o \in {"ok", "down", "refused"} : Token(o)
           \/ \E o \in GitHub : CreateCheck(o)
           \/ KeepCheck
           \/ \E o \in GitHub : Disown(o)
           \/ \E o \in {"ok", "down", "refused"} : MergeBase(o)
           \/ \E o \in {"ok", "down"}, shadow \in BOOLEAN : Prepare(o, shadow)
           \/ \E o \in Transient : Start(o)
           \/ \E o \in {"ok", "down"} : Poll(o)
           \/ \E o \in {"ok", "down"} : IsDone(o)
           \/ Progress
           \/ \E o \in GitHub : UpdateCheck(o)
           \/ Judge
           \/ \E o \in {"ok", "down"} : Destroy(o)
           \/ \E o \in {"ok", "down", "refused", "moved"} : Revalidate(o)
           \/ \E o \in GitHub \union {"broken"} : Post(o)
           \/ Finish
           \/ \E o \in GitHub : Completing(o)

JobSteps(r) == \/ JobBegins(r)
               \/ \E k \in Receipts \ {"none"} : JobRecords(r, k) \/ CancelledRecords(r, k)
               \/ JobEnds(r)
               \/ \E st \in {"parked", "done"} : CancelGoesOn(r, st)

Environment == \/ \E r \in ReviewIds : JobSteps(r)
               \/ Tick
               \/ \E e \in superseded : BackoffElapses(e)

Next == Webhook \/ AlarmFires \/ Retire \/ Advance \/ Environment \/ Crash

Spec == Init /\ [][Next]_vars

(***************************************************************************)
(* Cloudflare delivers a set alarm at least once, a handler's awaits end,  *)
(* and time passes: between two alarms of a polling handler it does so     *)
(* again and again, which is why the clock's fairness is strong.  Nothing  *)
(* is assumed of the cloud reviews: one may hang.  Faults are finitely     *)
(* many by their bound: an outage ends.                                    *)
(***************************************************************************)
Fairness == /\ WF_vars(AlarmFires) /\ WF_vars(Retire) /\ WF_vars(Advance)
            /\ SF_vars(Tick)
            /\ WF_vars(\E e \in superseded : BackoffElapses(e))

FairSpec == Spec /\ Fairness
-----------------------------------------------------------------------------
(* Properties *)

StorageOK ==
  /\ current \in AppReview /\ superseded \subseteq Retiree
  /\ offers \subseteq OfferDeliveries
  /\ delivered \subseteq Deliveries \union OfferDeliveries
  /\ alarm \in {"none", "now", "later"}

HandlerOK ==
  /\ pc \in Pcs
  /\ mem \in AppReview /\ seen \in Receipts /\ ending \in Endings
  /\ again \in BOOLEAN /\ wake \in BOOLEAN
  /\ todo \subseteq Retiree /\ entry \in Retiree \union {NoRetiree}
  /\ retired \subseteq Nat /\ patched \subseteq Retiree
  /\ offering \subseteq OfferDeliveries /\ offered \subseteq STRING

WorldOK ==
  /\ checks \in [CheckIds -> Check] /\ posts \in [ReviewIds -> Nat]
  /\ offerChecks \subseteq STRING /\ jobs \in [ReviewIds -> Job]
  /\ faults \in 0..MaxFaults

HistoryOK ==
  /\ recorded \subseteq CheckIds \union {0} /\ waived \subseteq CheckIds \union {0}
  /\ waivedHeads \subseteq STRING /\ dismissed \subseteq Nat

\* Every variable has its type; in particular, a superseded generation has a check
\* to complete (accept).
TypeOK == StorageOK /\ HandlerOK /\ WorldOK /\ HistoryOK

\* A review is posted on the pull request at most once, whatever answers were
\* lost and wherever the object crashed: every attempt looks for the review's
\* marker first (publish, worker.ts).
PostedOnce == \A r \in ReviewIds : posts[r] <= 1

\* A check that says its review was published names a review that is on the
\* pull request; one that says shadow names a review that is not (finish).
CheckTellsTheTruth ==
  \A c \in CheckIds :
    /\ checks[c].state = "published" => posts[checks[c].review] = 1
    /\ checks[c].state = "shadow" => posts[checks[c].review] = 0

\* A check storage once named, still in progress on GitHub and not given up, is
\* the unfinished current generation's or waits in the superseded list: neither
\* accept, save, retireSuperseded nor finish loses it.
NoCheckForgotten ==
  \A c \in recorded \ waived :
    checks[c].state = "open" =>
      \/ current.check = c /\ current.phase # "done"
      \/ \E e \in superseded : e.check = c

\* Once a superseded generation's check was completed and dropped from the list,
\* no late progress update reopens it (reportProgress, save).
RetiredStaysClosed ==
  [][\A c \in recorded :
       /\ checks[c].gen < current.gen
       /\ checks[c].state \in Endings
       /\ \A e \in superseded : e.check # c
       => checks'[c].state \in Endings]_vars

\* A handler that went on with an older generation never replaces the newer one,
\* brings a finished one back, or forgets that one was retried (save).
CurrentOnlyAdvances ==
  [][\/ current'.gen > current.gen
     \/ /\ current'.gen = current.gen
        /\ current.phase = "done" => current'.phase = "done"
        /\ current.retried => current'.retried
        /\ current.check # 0 => current'.check = current.check]_vars

\* A webhook delivered twice starts one generation (accept).
OneGenerationPerDelivery == current.gen <= Cardinality(delivered \intersect Deliveries)

RetriedOnceAndAlone ==
  \A r, q \in ReviewIds :
    (r < q /\ jobs[r].gen # 0 /\ jobs[r].gen = jobs[q].gen) =>
      /\ jobs[r].st = "done"
      /\ \A p \in ReviewIds \ {r, q} : jobs[p].gen # jobs[r].gen

DismissedIsStopped ==
  \A r \in ReviewIds :
    jobs[r].gen \in dismissed => jobs[r].st \in {"none", "done"}

\* No cloud review runs that the object does not answer for.  A generation runs
\* at most two, the second only after the platform lost the first and the first
\* has stopped (advance, lostToPlatform); and when a superseded generation has
\* been retired and its cancel answered, its job is over or was never started, and
\* stays so: the review id is stored before the job is started, and a job started
\* late finds itself in the list (advance, retireSuperseded).  A job is over
\* when its state says so: the run a cancel cut into may go on for a while, which is
\* ReviewJob's matter.
ReviewsAreOwned == RetriedOnceAndAlone /\ DismissedIsStopped

OffersAccounted ==
  \A d \in OfferDeliveries \intersect delivered :
    d \in offers \/ HeadOf[d] \in offerChecks \union waivedHeads

\* The newest review request ends: published, in shadow, or with its reason
\* (alarm, advance), once no more requests come.
EveryReviewEnds == <>[](current.phase \in {"none", "done"} /\ superseded = {})

\* Every check the object stored is completed in the end, unless GitHub refused
\* it for good or five attempts failed.
EveryStoredCheckCompletes ==
  \A c \in CheckIds : <>[](c \in recorded \ waived => checks[c].state \in Endings)

\* A push is not lost: at any moment its offer is waiting, or its head has the
\* check that offers a review, or GitHub refused one; and in the end none waits
\* (offer, offerReviews).
EveryOfferAnswered == []OffersAccounted /\ <>[](offers = {})
=============================================================================
