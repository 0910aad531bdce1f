--------------------------- MODULE CredentialVault ---------------------------
(***************************************************************************)
(* The Worker's vault of the openai-codex credential                       *)
(* (src/credential-vault.ts): one Durable Object that hands an access      *)
(* token to every model attempt, refreshes the pair when it is old or was  *)
(* rejected, and lets an operator seed a new one at any time.              *)
(*                                                                         *)
(* A pair is named by the seed it descends from and a number; the access   *)
(* token's number is new with each refresh, the refresh token's only if    *)
(* the authorization server rotates it.  Storage operations close the      *)
(* object's input gate, so other calls interleave only at the refresh      *)
(* request.  The authorization server and the seeding operator are         *)
(* external.  The definitions named Never... and Only... are faulty        *)
(* variants of the one they precede; no action uses them.                  *)
(***************************************************************************)
EXTENDS Naturals

CONSTANTS
  Callers,     \* model attempts that may ask at the same time
  MaxSeeds,    \* bound: seed() calls
  MaxRefresh,  \* bound: refreshes the server grants
  MaxFaults    \* bound: failed refreshes and losses of the object's memory

ASSUME BoundsAssumption == {MaxSeeds, MaxRefresh, MaxFaults} \subseteq Nat

NoOne   == "no one"
ASSUME CallersAssumption == NoOne \notin Callers

\* access and refresh number the tokens of the family a seed began.
Pair   == [family : Nat, access : Nat, refresh : Nat]
NoPair == [family |-> 0, access |-> 0, refresh |-> 0]

VARIABLES
  stored,    \* the pair in storage
  inFlight,  \* refreshInFlight: the caller whose refresh is pending
  flight,    \* by the caller that sent it: a refresh request, and its answer
  at,        \* where each caller is: idle, waiting, answered, failed
  waitsFor,  \* the caller whose refresh a waiting caller awaits
  got,       \* the pair a caller was answered with
  rejected,  \* the pair whose token a caller reported as rejected
  valid,     \* the refresh token number the server accepts, by family
  granted, seeds, faults,
  lost       \* history: a granted pair never reached the object

vaultVars == <<stored, inFlight, flight, at, waitsFor, got, rejected, valid,
               granted, seeds, faults, lost>>

callers == <<at, waitsFor, got, rejected>>

NoFlight == [base |-> NoPair, reply |-> NoPair, stage |-> "none"]
Flights  == [base : Pair, reply : Pair,
             stage : {"none", "sent", "granted", "refused"}]

VaultInit ==
  /\ stored = NoPair /\ inFlight = NoOne
  /\ flight = [c \in Callers |-> NoFlight]
  /\ at = [c \in Callers |-> "idle"]
  /\ waitsFor = [c \in Callers |-> NoOne]
  /\ got = [c \in Callers |-> NoPair]
  /\ rejected = [c \in Callers |-> NoPair]
  /\ valid = [f \in 0..MaxSeeds |-> 1]
  /\ granted = 0 /\ seeds = 0 /\ faults = 0 /\ lost = FALSE

\* An operator signs in again: a new family of tokens.
Seed ==
  /\ seeds < MaxSeeds
  /\ seeds' = seeds + 1
  /\ stored' = [family |-> seeds + 1, access |-> 1, refresh |-> 1]
  /\ UNCHANGED <<inFlight, flight, callers, valid, granted, faults, lost>>

-----------------------------------------------------------------------------
(* credential(), up to its answer or to the refresh it awaits *)

Answer(c, pair) ==
  /\ at' = [at EXCEPT ![c] = "answered"]
  /\ got' = [got EXCEPT ![c] = pair]
  /\ waitsFor' = [waitsFor EXCEPT ![c] = NoOne]

\* What the caller asks with: nothing, or the token it was answered with last,
\* which the upstream rejected.
Asks(c, bad) == /\ at[c] \in {"idle", "answered"}
                /\ bad \in {NoPair} \union (IF at[c] = "answered" THEN {got[c]} ELSE {})
                /\ rejected' = [rejected EXCEPT ![c] = bad]

Unconfigured(c, bad) ==
  /\ Asks(c, bad) /\ stored = NoPair
  /\ at' = [at EXCEPT ![c] = "failed"]
  /\ UNCHANGED <<stored, inFlight, flight, waitsFor, got, valid, granted, seeds, faults,
                 lost>>

NeverRejected(bad) == FALSE

IsRejected(bad) == bad # NoPair /\ bad.family = stored.family /\ bad.access = stored.access

Fresh(c, bad) ==
  /\ Asks(c, bad) /\ stored # NoPair /\ ~IsRejected(bad)
  /\ Answer(c, stored)
  /\ UNCHANGED <<stored, inFlight, flight, valid, granted, seeds, faults, lost>>

NeverPending == FALSE

\* One refresh at a time: a later caller joins it.
Pending == inFlight # NoOne

\* The stored token is rejected, near its expiry or eight days old; time decides
\* the last two.
Refresh(c, bad) ==
  /\ Asks(c, bad) /\ stored # NoPair
  /\ at' = [at EXCEPT ![c] = "waiting"]
  /\ IF Pending
     THEN /\ waitsFor' = [waitsFor EXCEPT ![c] = inFlight]
          /\ UNCHANGED <<inFlight, flight>>
     ELSE /\ flight[c].stage = "none"
          /\ waitsFor' = [waitsFor EXCEPT ![c] = c]
          /\ inFlight' = c
          /\ flight' = [flight EXCEPT ![c] = [NoFlight EXCEPT !.base = stored,
                                                              !.stage = "sent"]]
  /\ UNCHANGED <<stored, got, valid, granted, seeds, faults, lost>>

-----------------------------------------------------------------------------
(* The authorization server *)

\* A request whose object lost its memory is nobody's: its answer is dropped.
Awaited(c) == inFlight = c

\* A refresh token it rotated away is refused.
Grant(c, rotate) ==
  LET base == flight[c].base
      n == granted + 2 IN
  /\ flight[c].stage = "sent" /\ base.refresh = valid[base.family]
  /\ granted < MaxRefresh /\ granted' = granted + 1
  /\ valid' = IF rotate THEN [valid EXCEPT ![base.family] = n] ELSE valid
  /\ flight' = [flight EXCEPT ![c].stage = "granted",
                  ![c].reply = [base EXCEPT !.access = n,
                                            !.refresh = IF rotate THEN n ELSE @]]
  /\ lost' = (lost \/ ~Awaited(c))
  /\ UNCHANGED <<stored, inFlight, callers, seeds, faults>>

Refuse(c) ==
  /\ flight[c].stage = "sent"
  /\ \/ flight[c].base.refresh # valid[flight[c].base.family] /\ UNCHANGED faults
     \/ granted = MaxRefresh /\ UNCHANGED faults
     \/ faults < MaxFaults /\ faults' = faults + 1
  /\ flight' = [flight EXCEPT ![c].stage = "refused"]
  /\ UNCHANGED <<stored, inFlight, callers, valid, granted, seeds, lost>>

-----------------------------------------------------------------------------
(* refreshOnce(), after the answer; every caller of the flight continues *)

Landed(c) == flight' = [flight EXCEPT ![c] = NoFlight]
             /\ inFlight' = IF inFlight = c THEN NoOne ELSE inFlight

OnlyStarter(c) == {c} \intersect {d \in Callers : at[d] = "waiting"}

Joined(c) == {d \in Callers : at[d] = "waiting" /\ waitsFor[d] = c}

AnswerAll(c, pair) ==
  /\ at' = [d \in Callers |-> IF d \in Joined(c) THEN "answered" ELSE at[d]]
  /\ got' = [d \in Callers |-> IF d \in Joined(c) THEN pair ELSE got[d]]
  /\ waitsFor' = [d \in Callers |-> IF d \in Joined(c) THEN NoOne ELSE waitsFor[d]]

FailAll(c) ==
  /\ at' = [d \in Callers |-> IF d \in Joined(c) THEN "failed" ELSE at[d]]
  /\ waitsFor' = [d \in Callers |-> IF d \in Joined(c) THEN NoOne ELSE waitsFor[d]]
  /\ UNCHANGED got

NeverReplaced(c) == FALSE

\* The storage is read again: somebody may have signed in meanwhile.
Replaced(c) == stored # flight[c].base

Lands(c) ==
  /\ flight[c].stage = "granted" /\ Awaited(c)
  /\ Landed(c)
  /\ IF Replaced(c)
     THEN AnswerAll(c, stored) /\ UNCHANGED stored
     ELSE AnswerAll(c, flight[c].reply) /\ stored' = flight[c].reply
  /\ UNCHANGED <<rejected, valid, granted, seeds, faults, lost>>

\* An unreachable server, an answer that is not ok, or one that cannot be parsed.
Fails(c) ==
  /\ flight[c].stage \in {"granted", "refused"} /\ Awaited(c)
  /\ IF flight[c].stage = "granted"
     THEN faults < MaxFaults /\ faults' = faults + 1 /\ lost' = TRUE
     ELSE UNCHANGED <<faults, lost>>
  /\ Landed(c) /\ FailAll(c)
  /\ UNCHANGED <<stored, rejected, valid, granted, seeds>>

Dropped(c) ==
  /\ flight[c].stage \in {"granted", "refused"} /\ ~Awaited(c)
  /\ Landed(c)
  /\ UNCHANGED <<stored, callers, valid, granted, seeds, faults, lost>>

\* The object is evicted: refreshInFlight and every waiting call are gone, a
\* request that is out is not.
Evict ==
  /\ faults < MaxFaults /\ faults' = faults + 1
  /\ inFlight' = NoOne
  /\ at' = [c \in Callers |-> IF at[c] = "waiting" THEN "failed" ELSE at[c]]
  /\ waitsFor' = [c \in Callers |-> NoOne]
  /\ lost' = (lost \/ \E c \in Callers : Awaited(c) /\ flight[c].stage = "granted")
  /\ UNCHANGED <<stored, flight, got, rejected, valid, granted, seeds>>

\* A new model attempt in a caller's place.
Again(c) ==
  /\ at[c] \in {"answered", "failed"}
  /\ at' = [at EXCEPT ![c] = "idle"]
  /\ got' = [got EXCEPT ![c] = NoPair] /\ rejected' = [rejected EXCEPT ![c] = NoPair]
  /\ UNCHANGED <<stored, inFlight, flight, waitsFor, valid, granted, seeds, faults, lost>>

Ask(c) == \E bad \in {NoPair, got[c]} : Unconfigured(c, bad) \/ Fresh(c, bad) \/ Refresh(c, bad)

Reply(c) == Refuse(c) \/ \E rotate \in BOOLEAN : Grant(c, rotate)

Return(c) == Lands(c) \/ Fails(c) \/ Dropped(c)

VaultNext == Seed \/ Evict \/ \E c \in Callers : Ask(c) \/ Reply(c) \/ Return(c) \/ Again(c)

VaultSpec == VaultInit /\ [][VaultNext]_vaultVars

\* What awaited an answer goes on once it is there.  Nothing is assumed of the
\* authorization server: refreshOnce's request has no timeout, and one that is never
\* answered holds every later caller (README.md).
VaultFairness == \A c \in Callers : WF_vaultVars(Return(c))

FairVaultSpec == VaultSpec /\ VaultFairness

-----------------------------------------------------------------------------
(* Properties *)

\* Every variable has its type, and the refresh callers join is one that was sent
\* (refreshInFlight).
VaultTypeOK ==
  /\ stored \in Pair
  /\ inFlight \in Callers \union {NoOne}
  /\ inFlight # NoOne => flight[inFlight].stage # "none"
  /\ flight \in [Callers -> Flights]
  /\ at \in [Callers -> {"idle", "waiting", "answered", "failed"}]
  /\ waitsFor \in [Callers -> Callers \union {NoOne}]
  /\ got \in [Callers -> Pair] /\ rejected \in [Callers -> Pair]
  /\ valid \in [0..MaxSeeds -> Nat]
  /\ granted \in 0..MaxRefresh /\ seeds \in 0..MaxSeeds /\ faults \in 0..MaxFaults
  /\ lost \in BOOLEAN

\* A pair an operator seeded is never replaced by the rotation of an older one,
\* whenever the refresh that was pending comes back (refreshOnce reads the
\* storage again before it writes).
SeedWins == stored.family = seeds

\* The stored refresh token is the one the server accepts, unless a refresh it
\* granted is on its way to the object or its answer was lost: two refreshes
\* never spend the same token, and a rotated pair is stored before anybody uses
\* it (refresh, refreshOnce).
StoredIsSpendable ==
  \/ lost \/ stored = NoPair
  \/ stored.refresh = valid[stored.family]
  \/ \E c \in Callers : /\ flight[c].stage = "granted" /\ Awaited(c)
                         /\ flight[c].base = stored

JoinedStaleFlight(c) == waitsFor[c] # NoOne /\ flight[waitsFor[c]].base # stored

AnsweredWithRejected(c) ==
  at[c] = "answered" /\ rejected[c] # NoPair /\ got[c] = rejected[c]

\* One that reports a rejected token is answered with another one, unless it joined a
\* refresh that began before a newer sign-in: that one comes back with whatever is
\* stored (credential, refresh, refreshOnce).
RejectedIsReplaced ==
  [][\A c \in Callers :
       AnsweredWithRejected(c)' => AnsweredWithRejected(c) \/ JoinedStaleFlight(c)]_vaultVars

HasAnswer(c) == flight[c].stage \in {"granted", "refused"}

\* One answer of the authorization server serves every call that joined the refresh:
\* each is answered or fails, whoever sent the request, whatever was seeded meanwhile
\* (refresh).
AnswerServesAll ==
  \A c \in Callers :
    (at[c] = "waiting" /\ HasAnswer(waitsFor[c])) ~> (at[c] # "waiting")
=============================================================================
