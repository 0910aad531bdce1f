# swarm-review: specification

TLA+ models of swarm-review: what its Worker, its swarm of lanes, their drivers
and containers, and its hybrid engine do when calls fail, answers are lost, processes die and timers race, with
TLC runs on small instances and TLAPS proofs of the properties that matter most.
Source paths are relative to the repository's root.

## 1. The system

swarm-review reviews pull requests with language models. A GitHub App (a
Cloudflare Worker) accepts webhooks and runs each review in a cloud sandbox; the
review itself is a run of an engine, the swarm (`src/swarm.ts`) or the hybrid
engine (`src/hybrid.ts`), whose lanes read the change, whose verifiers rule on
what the lanes report, and whose receipt is published on the pull request. The
swarm runs each lane in a container of its own, through a driver: the local one
(`src/local.ts`), possibly in an Orca terminal, or the cloud one (`src/drive.ts`).

| component | state | operations | interacts with | what is hard | what makes it correct |
|---|---|---|---|---|---|
| **Pull request object** `worker.ts` `PullRequestReview` | current generation, superseded list, offers, deliveries, alarm | `accept`, `offer`, `alarm` (`retireSuperseded`, `offerReviews`, `advance`, `reportProgress`, `publish`, `finish`), `save` | GitHub (checks, reviews), `ReviewJob`, R2 | webhooks between any two awaits of the alarm; lost answers; crash and redelivered alarm; a retry after the platform loses a sandbox | one review per generation on the pull request; every check ends and says the truth; a superseded review stops |
| **Review job** `worker.ts` `ReviewJob` | parameters, state, alarm; status and receipt in R2 | `start`, `alarm`/`runCloudReview`, `cancel`, `isDone`, `finishReview` | sandbox, R2 | a cancel at any await; redelivered alarm; failing teardown | the engine starts once; a job that is done has a receipt that stays; no sandbox is forgotten |
| **Credential vault** `src/credential-vault.ts` | stored pair, refresh in flight | `seed`, `credential`, `refresh`, `refreshOnce` | authorization server, operator, model proxy | a rotating refresh token is spent once; sign-in during a refresh; eviction | a seed is never overwritten by an older rotation; the stored token is spendable |
| **Lane container** `container/review-run.sh` | the shell's step, the bridge's account of the review, the Pi child, `status.json`, `report.json` | runner steps, `spawnPiChild`, `handlePiEvent`, the commands of the socket (`prompt`, `steer`, `inspect`, `cancel`, `accept`, `restart_process`), the window | the driver, Pi | a command between two turns; a refusal on two channels; a child that will not die; the window | a complete report is one of an accepted review that stopped by itself; the runner ends |
| **Local driver** `src/local.ts`, `src/isolation.ts` | place in `main`, container, broker, `metadata.json`, receipt | start, stage, poll, correct, accept, observe, tear down; `--inspect`, `--steer`, `--cancel`, `--resume`, `--reconnect` of a second invocation | container, broker | two processes of one run; signals and the deadline at any await; a failing teardown | completed means accepted; no secret outlives the driver unsaid |
| **Cloud driver** `src/drive.ts`, `worker.ts` `/runs` | last polled picture, place in `driveUntilComplete`, sandbox, model session | start, poll, brief, correct, accept, finalize, cancel, stop, receipt | Worker, sandbox | the picture is old or half unreadable; a lost start or command | exit 0 means a report on the host and no sandbox; a healthy lane is not given up |
| **Terminal supervision** `src/orca.ts` | ledger of terminals | open, record, send, watch, reclaim | terminals, files | death between two entries; an unknown process | a driver's terminal is on disk before it is sent |
| **Swarm: lanes and receipt** `src/swarm.ts`, `src/attempt.ts` | lanes, their rows, plan, brief, abort | assign, launch, relaunch, brief the verifier, cover, judge, receipt | drivers | relaunches against the window and signals; a verifier that waits for a brief | a run that completed is covered and ruled on; each row says what became of its lane |
| **Verifier pool** `src/swarm.ts` | queue directory, claims, lanes of a wave | `claimQueue` (`publish`, `claim`, `release`), `nextVerifierBrief`, `runPoolLane`, `poolRun`, `verifierWavePlan`, `swarmStatus` | containers, cloud driver | rename races, lanes that die with a claim, frozen flag against queue | a claim has one owner; nothing is read twice or left without a reason; completed means ruled |
| **Model broker** `container/model-broker.ts` | totals, ledger | reserve, forward, retry, account | providers | admission against totals only answers raise | caps hold; each attempt is accounted |
| **Hybrid engine** `src/hybrid.ts` | lanes, timers, status writes, verdicts | `runPi`, `runHybrid` | Pi processes, files | kill timer, report timer, turn cap and exit race; a failing write | bounded lanes, independent verifiers, a receipt that says what was ruled on |
| **Model sessions** `worker.ts` `ReviewSandbox`, `src/model-proxy.ts` | attempts, tokens of a review | `consumeModelAttempt`, `recordModelAttempt`, proxy and its 401 retry | vault, providers | concurrent attempts on one budget | caps hold; an attempt is recorded once |
| **Adjudication** `src/swarm.ts`, `src/jev.ts` | none | `parseCandidates`, `parseVerdicts`, `collapseIdenticalCandidates`, `applyVerdicts` | | conflicting, missing and foreign verdicts | each candidate has one finding |
| **Codex relay** `src/codex-relay.ts`, `relay/server.ts` | refusals | forward or bypass | provider | refusals of concurrent requests | a refusal is not retried through the relay |
| **Budget and admission** `src/provider-budget.ts`, `src/admission.ts` | none (pure functions) | `reserveTrial`, `readLedgerUsage` | | torn ledger lines | worst case is admitted or refused as a whole |
| **Publisher** `src/publish.ts` | comments and reviews on GitHub | `alreadyPublished`, `postReview`, `upsertRunComment` | GitHub | failing edit or delete | one review, one run comment |
| **Control API** `worker.ts`, **git proxy**, **Action and cloud client**, **packing**, **operator scripts**, **fast review**, **evals** | none of their own | requests, formatting, file and process I/O | | | |

`PROJECT.json` names the files of each component and whether it is modelled, and
lists the hazards at the lines where they bite.

How the parts interact: a webhook makes the pull request object set its alarm;
the alarm creates a check, starts a `ReviewJob` and polls its receipt; the job's
alarm runs an engine in a sandbox, whose model requests pass through the proxy
and the vault; the engine's receipt comes back through R2 and is published. The
swarm starts one driver per lane; a driver starts a container, sends commands to
the bridge in it and reads what it writes; a driver's exit code, receipt and
report are all the swarm knows of a lane.

## 2. The modules

| module | stands for | lines it models |
|---|---|---|
| `PullRequestReview` | the pull request object with GitHub and its jobs | `worker.ts` 186-724 |
| `JobPromise` | abstract: what a job promises to the object that started it | `worker.ts` 727-777 |
| `ReviewJob` | one job in detail; implements `JobPromise` | `worker.ts` 727-777, 1236-1380, 1576-1702 |
| `CredentialVault` | the vault with the authorization server and operator | `src/credential-vault.ts` |
| `LaneSight` | what can be told of a lane's review from outside its container | `container/review-run.sh` 984-1005 |
| `LanePromise` | abstract: what a lane's container promises to its driver | the commands and endings of `container/review-run.sh` |
| `LaneRunner` | the container in detail: shell, bridge, child; implements `LanePromise` | `container/review-run.sh` 42-121, 264-1196, 1237-1531 |
| `LocalLane` | the local driver and a second invocation, on top of `LanePromise` | `src/local.ts` 393-423, 992-1004, 1670-1849, 2000-3451 |
| `CloudLane` | the cloud driver and the Worker's `/runs` routes, on top of `LanePromise` | `src/drive.ts` 71-136, 195-399, 464-1087; `worker.ts` 1016-1111, 2388-2770 |
| `ReviewerLanes` | a run of the swarm with one verifier: lanes, rows, terminals, receipt | `src/swarm.ts` 447-465, 1421-1813, 1951-2169, 2171-2926, 3225-3735; `src/orca.ts` 209-454; `src/attempt.ts` 101-153 |
| `VerifierPool` | queue, pool loop, lanes, run status | `src/swarm.ts` 1004-1512, 2140-2169, 2945-3260 |
| `HybridEngine` | `runPi` and `runHybrid` | `src/hybrid.ts` 128-750 |
| `ModelBroker` | the broker's handler and counters, its ledger and the reading of it, kill and resume | `container/model-broker.ts` 68-101, 162-355; `src/provider-budget.ts` 296-338; `src/local.ts` 2189-2215, 2602-2665 |
| `MC...` | the constants for TLC of the modules that need definitions for them | |
| `...Proofs` | theorems and proofs, one module for each of the above, except that `LocalEngineProofs` holds those of `LocalLane` and of the `ModelBroker` it starts, and `WorkerProofs` those of `CredentialVault` and `CloudLane`; which is why `LocalLane` names its specification `LocalSpec` and `CredentialVault` its own `VaultSpec` | |

**Composition.** Two abstract specifications separate what a part promises from
how it keeps it.

- `JobPromise`: `ReviewJob` implements it (`ImplementsPromise`), and everything
  `PullRequestReview` lets a job do is a step of it (`JobsPromised`). What one
  assumes is thus what the other was shown to keep: one run, a receipt that is
  there when the job is done and does not change, except after a cancel, when the
  cancel's record and the run's may both be written.
- `LanePromise`: `LaneRunner` implements it (`KeepsPromise`), and `LocalLane` and
  `CloudLane` extend it: its actions are what the container does beside the
  driver, and an `inspect` answers any of its `Looks`. `KeepsPromise` says that
  what the real bridge would answer is one of them.

How a launch of a lane ends in `ReviewerLanes` (an end) is what the drivers leave
behind: exit code, receipt, report.

**Steps.** A Durable Object's storage operations close its input gate, so other
calls interleave only where a handler awaits a fetch or an RPC. Each such await
is one value of `pc` (or of `at[actor]` in `ReviewJob`), and an action runs from
one await to the next, saves included. In `VerifierPool` a step is the code
between two file operations another lane can see. `HybridEngine`, `ModelBroker`
and the bridge of `LaneRunner` are event loops: a step is one event with all the
synchronous code it runs up to its first await; what follows the await is a step
of its own (`ops` and `asked` in `LaneRunner`). The shell runner of `LaneRunner`
and the bridge are two processes that share files. In `LocalLane` both
invocations are processes of the host, and a step is one call to the container
or to the host. In `CloudLane` the driver, the handler of `POST /runs` and the
review's process are three actors. `ReviewerLanes` is one process with one
coroutine per lane, beside its drivers.

**Calls.** A remote call is `ok`, `lost` (applied, and the caller sees a
retryable error), `down` (not applied), `refused`, `broken` (posted, answer not
parsable) or `moved`. A crash loses what the handler holds; a running alarm is
delivered again. A driver's calls may be lost before or after they took effect,
and a driver may be killed at any step.

**State.** In `PullRequestReview`, `current`, `superseded`, `offers`,
`delivered` and `alarm` are the object's storage; `pc`, `mem` (the handler's copy of the
state), `seen`, `entry`, `ending` are its memory; `checks`, `posts`,
`offerChecks` are GitHub; `jobs` the jobs with their receipts; the rest is
history used by properties only. In `ReviewJob`, `review`/`state`/`alarm` are
storage, `at`/`reason`/`output` the memory of its two activities, and `sandbox`,
`receipt`, `status` the world. In `CredentialVault` a token is a number within
the family of the seed it descends from, `flight` the refresh requests, `valid`
what the server accepts. In `LaneRunner`, `step`, `kept` and `report` are the
shell's, `b` is the bridge's own account of the review, `child`/`pi`/`turn` the Pi
process, its agent and the last `turn_end` it printed, `status` and
`reviewError` the two files. In `LocalLane`, `drv` is each invocation (its place,
what it owns, why it ends), `bearer` a broker with the credential in the
container. In `CloudLane`, `sees` is the picture of the last poll, `request` the
handler of the start, `box`, `runner` and `session` what is in the cloud. In
`ReviewerLanes`, `lane` is each lane's coroutine and last end, `rows` its rows of
`pi-sessions.json`, `entries` and `disk` the terminals in memory and on disk. In
`VerifierPool`, `pending` is the directory of groups
to claim, `lane[s].claim` what a lane renamed to itself, `lost` the groups whose
reader's request no receipt shows. In `HybridEngine`, `lane` is each `runPi` (its
process, its events, its timers), `queue` the chain of status writes, `judge`
the family a candidate was given to. In `ModelBroker`, `totals` is the process's
memory, `ledger` the file, `broker` which start of the process it is; `asked` and
`heard` are what truly crossed its socket.

**Faulty variants.** Each module holds a few definitions that no action uses
(named in its header), each placed before the definition it is a plausible
mistake of: a dropped guard, a missing re-read, a wrong order. Substituting one
breaks the property listed with it in `PROJECT.json`, which shows that the
property depends on that line of the code.

## 3. What each run checks

| run | size (distinct states) | what it shows |
|---|---|---|
| `PullRequestReview` | 4.1 M | two requests, two faults: `PostedOnce`, `CheckTellsTheTruth`, `NoCheckForgotten`, `OneGenerationPerDelivery`, `ReviewsAreOwned` (a review is retried once, alone, and a dismissed one is stopped), `RetiredStaysClosed`, `CurrentOnlyAdvances`, `JobsPromised` |
| `PullRequestLive` | 844 k | under fairness, one fault, two requests or two pushes of one head: the newest review ends, every stored check completes even if a job hangs, and every push is answered (`EveryOfferAnswered`) |
| `ReviewJob` | 33 k | three faults, two starts, two cancels: `RunIsAccounted` (types, one engine, no sandbox forgotten), `ImplementsPromise`, `JobEnds` |
| `CredentialVault` | 455 k | two callers asking again, two seeds, two refreshes, two faults: `SeedWins`, `StoredIsSpendable`, `CallersAreServed` (a rejected token is replaced, and every waiter returns) |
| `VerifierPool` | 1.7 M | two lanes, two waves, three groups: `ClaimIsExclusive`, `ReadOnce`, `NullBriefIsFinal`, `GroupsAccounted`, `RunEnds` |
| `HybridEngine` | 1.3 M | two reviewers, two candidates, two verifier families, one fault: `LaneIsBounded` (with the types), `ReceiptTellsTheTruth` (independent verifiers, accounted candidates, whole reports, a final `done`), `RunEnds` |
| `ModelBroker` | 239 k | three requests, a retry each, two brokers, one unwritable line, kills and torn lines anywhere: `SentWithinCaps`, `LedgerTellsTheTruth` |
| `LaneRunner` | 585 k | two prompts, refusals on either channel, every command at every await, a child that will not die, the window: `CompleteIsEarned`, `KeepsPromise`, `AcceptedEnds` |
| `LocalLane` | 787 k | a driver and a second invocation of each kind, one correction, lost calls, signals, the deadline and a kill at any step: `CompletedMeansAccepted`, `NoBearerLeftBehind`, `DriverEnds` |
| `CloudLane` | 783 k | two corrections, pictures that are old or half unreadable, lost and overtaken requests: `CleanExitIsWhole`, `HealthyLaneIsKept`, `DriverEnds` |
| `ReviewerLanes` | 877 k | two reviewers and a verifier in each transport, two files, one relaunch, an unwritable ledger: `CompletedIsWhole`, `RowsTellTheLanes`, `HandleOnDisk`, `RunEnds` |

One run finds a disagreement between the code and what its comment says:

| run | the document says | the code does |
|---|---|---|
| `ResumedLedger` | a lane's usage is what the broker saw cross its socket (`src/local.ts:3392`) | a resume starts the counters at zero over the same ledger, and the last totals are read: the requests of the first broker are gone, and the ledger still reads as complete |

**Bounds, and why they are enough.**

- `PullRequestReview`: two deliveries make a supersession with the older handler
  at any await; a third adds one more entry to a list whose entries are handled
  alike. `MaxFaults` = 2 lets any two calls fail, or one fail and the object
  crash. `RetireAttempts` is 2 (the code has 5): only the last attempt differs
  from the others. `Deadline` and `Grace` are 0 or 1 ticks: what matters is
  whether they have passed. `MaxChecks` and `MaxReviews` are above what two
  generations with one retry and two lost answers ask for (`PullRequestLive`
  has fewer faults and needs fewer checks).
- `ReviewJob`: two starts and two cancels put one at every await of the other
  activity, and again after it; three faults let a call fail, its compensation
  fail and the object crash.
- `CredentialVault`: two callers are what sharing, joining and rejecting need;
  each asks again, so a third adds no new relation of a caller to a flight.
- `VerifierPool`: `PoolLanes` = 2 (the code has 3) gives every race for a claim; `LaneRelaunches` = 1
  (the code has 2) gives a wave after a wave; three groups leave one to the second wave.
- `HybridEngine`: `TurnCap` is 1 (16 in the code) and `PerFamily` 1 (8 in the
  code), so that both bind; two candidates exhaust a family's share; three ticks
  put the report's reserve, the review deadline and the run deadline apart.
- `ModelBroker`: three requests with `MaxRetries` = 1 give up to six attempts against
  `MaxRequests` = 3 and a token cap that one answer can reach (`MaxInput` = 2,
  `MaxTokens` = 2), so both caps bind while other requests are in flight. Two
  brokers are one resume; `MaxFaults` = 1 is one unwritable line, and a kill is
  possible in every state. Input and output tokens are counted by the same code.
- `LaneRunner`: `MaxAttempts` = 2 lets a prompt follow one that ended in any way;
  a third meets the same account as the second. One candidate text: the bridge
  never reads it.
- `CloudLane` allows the two corrections of the code (`MAX_FORMAT_CORRECTIONS`);
  `LocalLane` one, which gives a correction and the refusal of one; a candidate on contract and one that is not. Calls
  fail and pictures are partial without a bound.
- `ReviewerLanes`: two reviewers give every order of two ends before main goes
  on; `Limit` = 2 lanes at a time under three lanes; `Relaunches` = 1 (2 in the
  code) is a relaunch and the refusal of one; two files make a partition.

**Fairness.** `PullRequestReview`: a set alarm is delivered, an await ends, and
time passes; the clock's fairness is strong because its step is possible only
between alarms. Nothing is assumed of a job, which may hang. `ReviewJob`: the
engine ends, for its steps check a deadline. `CredentialVault`: a request is
answered or times out (`AbortSignal.timeout`). `VerifierPool`: code goes on and
a container exits, for it runs in a window; no model need read anything.
`HybridEngine`: time passes, timers fire and a killed process closes; Pi may
hang. `LaneRunner`: only the wind-down is fair, since each of its waits has a
timer; nothing is assumed of Pi or of whoever sends commands. `LocalLane` and
`CloudLane`: the driver runs and the run's deadline comes (`createBudget`,
`drive.ts:916`); nothing is owed by the container or the Worker.
`ReviewerLanes`: main and the lanes' code go on and the run's deadline comes; a
driver need never end by itself, because the lane that waits for it takes the signal.
Faults are finitely many by their bound where a bound is named: liveness is
claimed once outages end. `CHECK_DEADLOCK FALSE` everywhere, since each system
stops when its work is done; that it does not stop earlier is what the liveness
properties say.

## 4. What is proved

For every value of the constants, from the assumptions named in the modules
(`ConstantsAssumption`, `BoundsAssumption`, `CallersAssumption`, `PoolAssumption`,
`BrokerAssumption`, `CandidateAssumption`, `RunnerAssumption`, `LaneAssumption`,
`CorrectionsAssumption`, `LanesAssumption`, `EngineAssumption`):

| theorem | property | the argument |
|---|---|---|
| `TypeSafe` | `PullRequestReview!TypeOK` | `TypeInv` adds `NamedInv`: a generation past its start names its cloud review, wherever the handler asks for it, so an index is never out of range |
| `PostsOnce` | `PostedOnce` | `PostInv`: while the handler is about to post, no marker is on the pull request; only `Post` raises a count, and it leaves the place |
| `CurrentAdvances` | `CurrentOnlyAdvances` | `SyncInv`: the handler's copy is never of a newer generation than storage, and agrees with storage where it is of the same one; so `save`, which compares generations, only advances |
| `DeliveredOnce` | `OneGenerationPerDelivery` | the delivered set is finite and grows by one with each new generation |
| `ChecksAnsweredFor` | `NoCheckForgotten` | `ListInv` (the entries of one generation name one check, and only older generations are retired) and `CheckInv` (a handler about to update an older generation's check finds it in the list, and what is about to leave the list has been completed) |
| `RetiredStayClosed` | `RetiredStaysClosed` | the same two, with `SyncInv`: a copy of a generation that left the list is never the one a handler updates |
| `JobsKeepPromise` | `JobsPromised` | `JobMove`: each action is, for every job at once, a step of `JobPromise` or none |
| `ChecksTellTheTruth` | `CheckTellsTheTruth` | `HandlerInv` (what the handler knows of its generation, by where it is) and `TruthInv`, which holds of the stored generation and of the handler's copy alike: the review one names was started for it, and is on the pull request, or told of as shadow, only once the generation's mode was settled so |
| `ReviewsOwned` | `ReviewsAreOwned` | `NumberInv` (ids are issued in order), `SiblingInv` (what a generation ran before it started over has stopped, and is one review), `EntryInv` and `DismissedInv` (the same of a superseded generation, and that no handler goes on with a dismissed one) |
| `OffersKept` | `OffersAccounted`, the safety half of `EveryOfferAnswered` | `OfferInv`: what the handler takes out of the list has its check or was refused one |
| `VaultTypes` | `CredentialVault!VaultTypeOK` | with `RepliesKeepFamily` |
| `SeedPrevails` | `SeedWins` | `RepliesKeepFamily`: a rotation has the family of the pair it was asked for; `refreshOnce` writes only over that very pair |
| `RejectedTokenReplaced` | `RejectedIsReplaced`, the safety half of `CallersAreServed` | `NewestNumber`: the pair a granted refresh brings is newer than any a caller was given or rejects |
| `StoredPairSpendable` | `StoredIsSpendable` | `AwaitedFlight` (the awaited request was sent for the stored pair or for a family a sign-in has replaced; if granted, it brings that family's newest pair) and `FamiliesAhead` (no request was sent for a family nobody has signed in to) |
| `PoolTypes` | `VerifierPool!TypeOK` | `Briefed`: a lane with a brief, or one whose model has read it, has a claim |
| `ClaimsExclusive` | `ClaimIsExclusive` | `QueueInv`: a group still unpublished is neither pending nor was it ever claimed, and a lane's claim was claimed; a rename takes a name only out of `pending` |
| `NullBriefsFinal` | `NullBriefIsFinal` | `SeenInv`: a lane that saw the flag set before it listed the queue has listed every pending group that was never claimed |
| `ReadAtMostOnce` | `ReadOnce` | `ReadInv`: a group that is in the queue, or claimed and not yet read, was read only by lanes whose receipts missed it |
| `EveryGroupAccounted` | `GroupsAccounted` | `LanesInv` (no lane settles before the queue is being published) and `AccountInv`: a group once claimed waits again, is held, was ruled on or has failed, and a pool that ends without a reason leaves none waiting |
| `BrokerTypes` | `ModelBroker!TypeOK` | `BrokerInv`: while the process runs, each request reserved is unended, unobserved or heard of (`Accounts`), and every request in flight is among the unended; `TickKeeps` shows it of any tick whose lines fit, whichever of its writes is cut or fails |
| `SendsWithinCaps` | `SentWithinCaps` | the counters of a running broker hold the tokens reported to it, and every turn of the loop reads them in the tick it sends in (`TickSends`) |
| `LedgerIsTrue` | `LedgerTellsTheTruth` | `ReadingInv`: the last totals know of every request still in flight, so an answer heard after them finds something unended; `LinesAreRead`, `CutLinesAreRead` and `TornIsSkipped` say what a reading makes of a ledger that grew by whole lines, some of them, or a torn one |
| `RunsOnce` | `ReviewJob!RunIsAccounted` | `Course` (what is stored, by where the two activities are), `Engines` (none was started before the set-up), `Sandboxes` (a run about to end has lost its sandbox or has said so) |
| `PromiseKept` (`ReviewJobProofs`) | `ImplementsPromise` | with `Records` (a run that was not cancelled writes the first receipt), each action of either activity is mapped to a step of `JobPromise` or to none |
| `RunnerTypes` | `LaneRunner!TypeOK` | with `Stage`: where the bridge, the report and the last status are, by the step of the shell |
| `CompleteReportsEarned` | `CompleteIsEarned` | `Earned`: an exit code of 0 stands for an accept that was taken, and a report is complete only where the validator saw a turn that stopped |
| `PromiseKept` (`LaneRunnerProofs`) | `KeepsPromise` | each action is a step of `LanePromise` or none of it; `Agrees` (a state has its reason) makes every answer of `inspect` one of the `Looks` |
| `LocalLaneTypes` | `LocalLane!LocalTypeOK` | `CorrectsWithin`: a correction on its way is one of those allowed |
| `CompletionsAccepted` | `CompletedMeansAccepted` | `FinalIsTaken`: a driver that waits for the report, or has it, does so for an accepted result |
| `BearersRevoked` | `NoBearerLeftBehind` | `BearerIsKnown`: while the driver is alone, a bearer is in a container it knows of, and one that outlived the export has been told of |
| `CloudLaneTypes` | `CloudLane!TypeOK` | with `Course` |
| `CleanExits` | `CleanExitIsWhole` | `Course` (what a pass has shown is on the host, by the driver's place) and `StoppedIsGone` (an acknowledged stop leaves nothing running) |
| `HealthyLanesKept` | `HealthyLaneIsKept` | `PolledIsStarted` and `GoneIsGone`: a process missing from an observed list was started and has exited, and stays so however long the picture is used |
| `ReviewerTypes` | `ReviewerLanes!TypeOK` | `LanesSound`, `MainTypes` |
| `HandlesWritten` | `HandleOnDisk` | `HandleHeld`: from the record on, the handle is on disk; entries never leave it |
| `RowsTell` | `RowsTellTheLanes` | `RowsSound`: until a lane is done its last row is open and those before it were relaunched |
| `LanesBounded` | `LaneIsBounded`, with the types | `LaneOK` (turns and processes of a lane, by its place in Pi's stream of events), `QueueInv` (who waits for a status body waits for one of those queued, each once) and `StageInv` (where main's code has left the lanes) |
| `ReceiptTrue` | `ReceiptTellsTheTruth` | `RulingInv` (a candidate is to be assigned, with its verifier, ruled on or has its reason) and `ReceiptInv` (nothing moves once there is a receipt, and only `done` is still to be written) |
| `WholeRuns` | `CompletedIsWhole` | `EndSound` (a launch that ended well left no unknown process), `MainInStep` (where the lanes are, by where main is), `ReceiptSound` |

The bounds are constants of the models, so the theorems hold for any number of
faults, callers, deliveries, groups, prompts, corrections, reviewers or
relaunches. The types of every module but `ReviewJob` and `HybridEngine`, where they
are a conjunct of an invariant the run checks, are a theorem only.

Each proof has the same form. The strengthened invariant is shown of `Init`, and
of `Next` action by action; where actions share a way to go on (`save` and what
follows it in `PullRequestReview`, the writing of a status in `HybridEngine`, a
lane's file operations in `VerifierPool`), a lemma states what that way keeps, and
the actions cite it. `PullRequestReview` adds one invariant to the next: the
handler's copy is known to be current (`SyncInv`) before anything is said of
checks, reviews or jobs.

**Only model-checked.** Liveness, for which the prover has no rules here:
`EveryReviewEnds`, `EveryStoredCheckCompletes`, the `<>[]` half of
`EveryOfferAnswered`, `JobEnds`, the `WaitersReturn` half of `CallersAreServed`,
`RunEnds`, `AcceptedEnds` and `DriverEnds`. Every safety and action property a
passing run checks is a theorem; what `ResumedLedger` checks is false.

## 5. What the models leave out

- Text: prompts, packs, the body of a check or review, logging.
- `PullRequestReview`: the app's signature, webhook verification, rate-limit
  arithmetic (a wait is a later alarm). A job is what `JobPromise` says.
- `CredentialVault`: whether a token is old is a free choice at every call.
- `VerifierPool`: a lane may be cut by the deadline only once the queue is
  frozen, and a claim that is kept is settled outside `publish()`: the other
  orders differ in no state a property reads. An interrupted receipt is a failed
  one. `swarmStatus` is modelled where some reviewer completed; without any the
  run is partial or cancelled before it reads the pool.
- `HybridEngine`: the assignment of files to reviewers (a change is covered when
  every reviewer completed); a finding is its location and mechanism; a process
  that was killed by a signal may still have ended by itself. A status write
  that fails leaves the later ones rejected, so the `failed` phase is not
  written either; the model has that, and no document speaks of it.
- `ModelBroker`: why a request is refused; the seal and the parsing of usage
  frames; how the runner decides that a run is auth-blocked (an answer that
  refuses the credential). The `broker_start` line carries no totals and is not
  modelled. An answer to a response an earlier attempt had begun cannot be
  relayed (setting its headers throws), and a refusal of one throws outside every
  handler: whether the process survives that is left open. It claims no
  liveness: the broker has no timeout of its own.
- `LaneRunner`: clone, install, checks and the evidence steps are one preparation
  that may fail; `budget_exhausted` is told from `quota_blocked` nowhere but in
  its wording. A child that cannot be spawned is one that closes.
- `LocalLane`: uploads, networks and images are one step that may fail; the
  broker's own behaviour is `ModelBroker`'s, the review's `LanePromise`'s. A
  second invocation is of any kind, but there is one at a time.
- `CloudLane`: revision lookup and the start's payload. The sandbox goes only by
  a stop or by the start's own cleanup; a platform that takes it away is a runner
  that exits.
- `ReviewerLanes`: availability checks of Orca, worktrees and the budget's
  reservation are a preparation that may fail. What a launch leaves is chosen
  among the ends of `EndStates`. The pool of verifiers is `VerifierPool`.
- The components marked `not_modelled` in `PROJECT.json`, with the reason there.

**Disagreements met while modelling, which no run states.** Each was read in the
code against a sentence of its documents or comments:

- `src/drive.ts:638-646` with `worker.ts:2657-2661`: the Worker reads the artifacts
  before the processes, so a review that ended between the two reads is failed as
  "review process exited without a matching report checkout" though its report is
  complete. `CloudLane` has it: `HealthyLaneIsKept` claims no more than that the
  lane was over.
- `worker.ts:506`, README.md:167: the object counts a review's deadline from the
  acceptance, which a wait before the start does not refresh; a review may be given up
  before its own deadline.
- `worker.ts:434`, README.md:197: a check whose creation was applied and not answered is
  created again; the first stays in progress.
- `src/drive.ts:1060`, `src/swarm.ts:3058-3060`: a driver that misses the lane's
  first request leaves a receipt without it, and a claim a model already read
  goes back to the queue. `ReadOnce` names that exception.
- `src/drive.ts:892`: a stop that overtakes its start leaves the sandbox running;
  the driver that did so exits with an error.
- `src/swarm.ts:1784-1785`: a lane whose first launch was lost to an unknown
  process may pass on a later one.
- `src/swarm.ts:2514-2525`, `src/orca.ts:386-392`: the ledger entry taken for a
  relaunched lane is its first terminal's.
- When `pi-sessions.json` cannot be written, the failure leaves main, with no
  receipt and with lanes still running; `RunEnds` of `ReviewerLanes` excepts it.

## 6. Plan

Done, in this order: `PullRequestReview` with its job's promise, `ReviewJob`,
`CredentialVault`, `VerifierPool`, their first theorems, `HybridEngine`,
`ModelBroker`, `LaneRunner` with `LanePromise`, `LocalLane`, `CloudLane`,
`ReviewerLanes`, the theorems of these four and the two refinements; then the
invariants of `PullRequestReview`, `VerifierPool`, `CredentialVault` and
`HybridEngine` that had only been checked.

Next modules, in order:

1. `ModelSession`: the same caps kept by the Worker's sandbox object and the
   proxy; an abstract `Budget` (nothing is sent past a cap) implemented by it
   and by `ModelBroker`.
2. `Adjudication`: `parseVerdicts`, `applyVerdicts`, `collapse` as operators,
   compared with a reference definition over all small inputs.
3. `RunComments`, `CodexRelay`, `ProviderBudget`.
4. `ReviewerLanes` and `VerifierPool` over one set of groups.

Next theorems: of `ModelSession`, its types and that it and `ModelBroker` implement
`Budget`; of `Adjudication`, that `applyVerdicts` gives each candidate one finding,
stated without recursion so that it can be proved; of 4, that the groups a
completed run of the pool accounts for are those a run of the swarm needs ruled on.
