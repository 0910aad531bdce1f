---------------------------- MODULE ModelBroker ----------------------------
(***************************************************************************)
(* The model broker of one local lane: the process of the container that   *)
(* holds the credential, counts what it sends against the caps and writes  *)
(* the usage ledger (container/model-broker.ts), the reading of that       *)
(* ledger (readLedgerUsage, src/provider-budget.ts), and what the local    *)
(* engine does to the broker: it is killed at teardown and started again,  *)
(* over the same ledger, when an auth-blocked run is resumed               *)
(* (src/local.ts).                                                         *)
(*                                                                         *)
(* A handler runs from one await to the next in one step.  Each line of    *)
(* the ledger is appended by a synchronous write, and that write can be    *)
(* cut by a kill, which leaves a torn line, or fail, which leaves none.  A *)
(* write that fails half way is one cut by a kill: that the broker lives   *)
(* on after it, so that the next line joins the torn one, is left out.     *)
(* Input and output tokens are counted alike, so one side is modelled.     *)
(*                                                                         *)
(* EndedForFree and CheckedOnce are faulty variants of the definition each *)
(* precedes; no action uses them.                                          *)
(***************************************************************************)
EXTENDS Naturals, SequencesExt

CONSTANTS
    Calls,        \* the HTTP requests pi makes of the broker
    MaxRequests,  \* caps.maxRequests
    MaxRetries,   \* caps.maxRetriesPerRequest
    MaxInput,     \* caps.maxCumulativeInputTokens
    MaxTokens,    \* the most tokens one answer reports
    MaxBrokers,   \* bound: brokers started over the lane's ledger
    MaxFaults     \* bound: ledger writes that fail

ASSUME BrokerAssumption ==
    /\ IsFiniteSet(Calls)
    /\ MaxRequests \in Nat /\ MaxRetries \in Nat
    /\ MaxInput \in Nat \ {0} /\ MaxTokens \in Nat
    /\ MaxBrokers \in Nat \ {0} /\ MaxFaults \in Nat

VARIABLES
    call,     \* one record per request: where its handler is
    totals,   \* the counters in the broker's memory
    ledger,   \* the lines of provider-usage.jsonl that can hold totals
    broker,   \* the broker's process: which start it is of, and whether it runs
    blocked,  \* the runner ended the run auth-blocked
    asked,    \* history: requests each broker sent to the provider
    heard,    \* history: usages the provider reported to each broker, and their tokens
    faults    \* ledger writes that failed

vars == <<call, totals, ledger, broker, blocked, asked, heard, faults>>

Unreported == MaxTokens + 1
Zero == [requests |-> 0, retries |-> 0, input |-> 0, unended |-> 0, unobserved |-> 0]
Brokers == 1 .. MaxBrokers

\* A line names its broker for the properties only: the file does not.
Line(event, t) == [event |-> event, totals |-> t, by |-> broker.number]
Torn == [event |-> "torn", totals |-> Zero, by |-> 0]

Init ==
    /\ call = [c \in Calls |-> [at |-> "away", attempt |-> 0, begun |-> FALSE]]
    /\ totals = Zero
    /\ ledger = << >>
    /\ broker = [number |-> 1, up |-> TRUE]
    /\ blocked = FALSE
    /\ asked = [b \in Brokers |-> 0]
    /\ heard = [b \in Brokers |-> [usages |-> 0, tokens |-> 0]]
    /\ faults = 0

-----------------------------------------------------------------------------
(* The counters. *)

CapViolation(t) ==
    \/ t.requests >= MaxRequests
    \/ t.retries >= MaxRetries * MaxRequests
    \/ t.input >= MaxInput

Reserved(t, isRetry) ==
    [t EXCEPT !.requests = @ + 1, !.unended = @ + 1,
              !.retries = IF isRetry THEN @ + 1 ELSE @]

EndedForFree(t, usage) ==
    [t EXCEPT !.unended = @ - 1,
              !.input = IF usage = Unreported THEN @ ELSE @ + usage]

Ended(t, usage) ==
    [t EXCEPT !.unended = @ - 1,
              !.unobserved = IF usage = Unreported THEN @ + 1 ELSE @,
              !.input = IF usage = Unreported THEN @ ELSE @ + usage]

-----------------------------------------------------------------------------
(* One tick of call c that appends lines, each with the totals at that      *)
(* moment.  All are written, the handler goes on to next, and sends         *)
(* requests leave for the provider; or the process is killed inside a       *)
(* write, which leaves a torn line; or a write throws, which leaves the     *)
(* handler there with its response open, and the unhandled rejection may    *)
(* end the process.  A refusal of a response already begun throws too, once *)
(* its line is written.                                                     *)

Down == [broker EXCEPT !.up = FALSE]
IsRefusal(line) == line.event = "denied"

Written(c, lines, next, sends) ==
    /\ ledger' = ledger \o lines
    /\ totals' = Last(lines).totals
    /\ call' = [call EXCEPT ![c] = next]
    /\ asked' = [asked EXCEPT ![broker.number] = @ + sends]
    /\ broker' \in IF IsRefusal(Last(lines)) /\ call[c].begun THEN {broker, Down} ELSE {broker}
    /\ UNCHANGED faults

KilledWriting(lines) ==
    /\ \E k \in 1 .. Len(lines) : ledger' = Append(ledger \o SubSeq(lines, 1, k - 1), Torn)
    /\ broker' = Down
    /\ UNCHANGED <<call, totals, asked, faults>>

WriteFails(c, lines) ==
    /\ faults < MaxFaults
    /\ faults' = faults + 1
    /\ \E k \in 1 .. Len(lines) : /\ ledger' = ledger \o SubSeq(lines, 1, k - 1)
                                  /\ totals' = lines[k].totals
    /\ call' = [call EXCEPT ![c].at = "closed"]
    /\ broker' \in {broker, Down}
    /\ UNCHANGED asked

Appends(c, lines, next, sends) ==
    \/ Written(c, lines, next, sends)
    \/ KilledWriting(lines)
    \/ WriteFails(c, lines)

-----------------------------------------------------------------------------
(* The handler of one request. *)

Runs(c, at) == broker.up /\ call[c].at = at

Refused(c, lines, t) ==
    Appends(c, Append(lines, Line("denied", t)), [call[c] EXCEPT !.at = "closed"], 0)

CheckedOnce(c, lines, t, a) ==
    IF a > MaxRetries \/ (a = 0 /\ CapViolation(t))
    THEN Refused(c, lines, t)
    ELSE Appends(c, Append(lines, Line("provider_admitted", Reserved(t, a > 0))),
                 [call[c] EXCEPT !.at = "fetching", !.attempt = a], 1)

\* One turn of the retry loop, in the same tick as the lines before it.
Attempt(c, lines, t, a) ==
    IF a > MaxRetries \/ CapViolation(t)
    THEN Refused(c, lines, t)
    ELSE Appends(c, Append(lines, Line("provider_admitted", Reserved(t, a > 0))),
                 [call[c] EXCEPT !.at = "fetching", !.attempt = a], 1)

\* The attempt ended without an answer the lane can hold; the loop turns.
TriesAgain(c, event) ==
    LET t == Ended(totals, Unreported)
    IN  Attempt(c, <<Line(event, t)>>, t, call[c].attempt + 1)

\* Headers are in: a wrong handle, a broken cap or a target outside the
\* upstream refuses the request; otherwise its body is awaited.
Arrive(c) ==
    /\ Runs(c, "away")
    /\ \/ Refused(c, << >>, totals)
       \/ /\ ~CapViolation(totals)
          /\ call' = [call EXCEPT ![c].at = "reading"]
          /\ UNCHANGED <<totals, ledger, broker, asked, faults>>
    /\ UNCHANGED <<blocked, heard>>

\* The body is unreadable or too large, or the first attempt is made.
BodyRead(c) ==
    /\ Runs(c, "reading")
    /\ \/ Refused(c, << >>, totals)
       \/ Attempt(c, << >>, totals, 0)
    /\ UNCHANGED <<blocked, heard>>

FetchFails(c) ==
    /\ Runs(c, "fetching")
    /\ TriesAgain(c, "provider_error")
    /\ UNCHANGED <<blocked, heard>>

\* A 5xx that has a retry left.
ServerFails(c) ==
    /\ Runs(c, "fetching")
    /\ call[c].attempt < MaxRetries
    /\ TriesAgain(c, "provider_retry")
    /\ UNCHANGED <<blocked, heard>>

\* Any other answer is relayed; its headers cannot be set a second time on a
\* response an earlier attempt had begun.
Answered(c) ==
    /\ Runs(c, "fetching")
    /\ IF call[c].begun
       THEN TriesAgain(c, "provider_error")
       ELSE /\ call' = [call EXCEPT ![c].at = "streaming", ![c].begun = TRUE]
            /\ UNCHANGED <<totals, ledger, broker, asked, faults>>
    /\ UNCHANGED <<blocked, heard>>

StreamBreaks(c) ==
    /\ Runs(c, "streaming")
    /\ TriesAgain(c, "provider_error")
    /\ UNCHANGED <<blocked, heard>>

\* The answer is relayed whole.  An answer that refuses the credential is
\* relayed as any other, and ends the run auth-blocked.
StreamEnds(c, usage, authFailed) ==
    /\ Runs(c, "streaming")
    /\ Appends(c, <<Line("provider_request", Ended(totals, usage))>>,
               [call[c] EXCEPT !.at = "closed"], 0)
    /\ heard' = IF usage = Unreported THEN heard
                ELSE [heard EXCEPT ![broker.number].usages = @ + 1,
                                   ![broker.number].tokens = @ + usage]
    /\ blocked' = (blocked \/ authFailed)

-----------------------------------------------------------------------------
(* What the local engine does. *)

\* The teardown's pkill, after it read the ledger; or the process dies.
Kill ==
    /\ broker.up
    /\ broker' = Down
    /\ UNCHANGED <<call, totals, ledger, blocked, asked, heard, faults>>

\* A resume of an auth-blocked run starts the broker again with the same
\* ledger path: its counters begin at zero and its lines follow the old ones.
\* (Its broker_start line carries no totals, and is lost when the line
\* before it is torn.)  The requests the old process held are gone.
Resume ==
    /\ blocked
    /\ broker.number < MaxBrokers
    /\ broker' = [number |-> broker.number + 1, up |-> TRUE]
    /\ totals' = Zero
    /\ call' = [c \in Calls |-> IF call[c].at = "away" THEN call[c]
                                ELSE [call[c] EXCEPT !.at = "closed"]]
    /\ blocked' = FALSE
    /\ UNCHANGED <<ledger, asked, heard, faults>>

Next ==
    \/ \E c \in Calls :
         \/ Arrive(c) \/ BodyRead(c) \/ FetchFails(c) \/ ServerFails(c)
         \/ Answered(c) \/ StreamBreaks(c)
         \/ \E usage \in 0 .. Unreported : StreamEnds(c, usage, FALSE)
         \/ StreamEnds(c, Unreported, TRUE)
    \/ Kill
    \/ Resume

Spec == Init /\ [][Next]_vars

-----------------------------------------------------------------------------
(* readLedgerUsage: the totals of the last line that has some; a torn line  *)
(* leaves the number of unended requests unknown.                           *)

Whole(lines) == {i \in DOMAIN lines : lines[i] # Torn}
LastTotals(lines) ==
    IF Whole(lines) = {} THEN [totals |-> Zero, by |-> 1]
    ELSE lines[CHOOSE i \in Whole(lines) : \A j \in Whole(lines) : j <= i]

ReadLedger == LastTotals(ledger).totals
ReadOf == LastTotals(ledger).by
Known == Whole(ledger) = DOMAIN ledger

\* The reading says of itself that nothing is missing from its sums.
SaysComplete == Known /\ ReadLedger.unended = 0 /\ ReadLedger.unobserved = 0

-----------------------------------------------------------------------------
(* Properties. *)

Handlers == [at : {"away", "reading", "fetching", "streaming", "closed"},
             attempt : 0 .. MaxRetries, begun : BOOLEAN]
Totals == [requests : 0 .. MaxRequests, retries : 0 .. MaxRetries * MaxRequests,
           input : Nat, unended : 0 .. MaxRequests, unobserved : 0 .. MaxRequests]

Lines == [event : {"denied", "provider_admitted", "provider_retry", "provider_error",
                   "provider_request", "torn"},
          totals : Totals, by : 0 .. MaxBrokers]

\* Types; and no broker reserves more requests or retries than its caps,
\* whatever its handlers interleave (reserveAttempt).
TypeOK ==
    /\ call \in [Calls -> Handlers]
    /\ totals \in Totals
    /\ ledger \in Seq(Lines)
    /\ broker \in [number : Brokers, up : BOOLEAN]
    /\ blocked \in BOOLEAN
    /\ asked \in [Brokers -> 0 .. MaxRequests]
    /\ heard \in [Brokers -> [usages : Nat, tokens : Nat]]
    /\ faults \in 0 .. MaxFaults

\* A broker sends no request once the provider has reported tokens up to the
\* cap to it: not the retry of a request that was admitted under the cap and
\* waited while another answer spent the rest (the loop of model-broker.ts).
SentWithinCaps ==
    [][\A b \in Brokers : asked'[b] # asked[b] =>
          asked[b] < MaxRequests /\ heard[b].tokens < MaxInput]_vars

\* A reading of the ledger, at any moment, is true of the broker that wrote
\* the last totals: it never counts fewer requests than were sent or more
\* tokens than were reported, and when it says that nothing is missing - no
\* request unended, none unobserved, no line torn - every request sent has
\* reported its usage and is in the sums, whatever was killed or could not be
\* written.
LedgerTellsTheTruth ==
    /\ ReadLedger.requests >= asked[ReadOf]
    /\ ReadLedger.input <= heard[ReadOf].tokens
    /\ SaysComplete => /\ ReadLedger.requests = asked[ReadOf]
                       /\ ReadLedger.input = heard[ReadOf].tokens
                       /\ heard[ReadOf].usages = asked[ReadOf]

\* What src/local.ts:3392-3397 says of the receipt of a lane: "The lane's usage
\* is what the broker saw cross its own socket", "The broker's own count: a lane
\* cut after it spent requests is finished work".
LaneUsageIsWhole ==
    SaysComplete => \A b \in Brokers : asked[b] > 0 => b = ReadOf

=============================================================================
