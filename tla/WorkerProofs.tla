----------------------------- MODULE WorkerProofs -----------------------------
(***************************************************************************)
(* What holds of the Worker's side of a review.  Of the credential vault:  *)
(* the pair it stores is the newest sign-in's and can be spent, and what   *)
(* was rejected is replaced, for any number of callers, sign-ins,          *)
(* refreshes and failures.  Of a cloud lane: how its driver ends it,       *)
(* whatever its reports, requests and signals, for any limit on its        *)
(* corrections.                                                            *)
(***************************************************************************)
EXTENDS CredentialVault, CloudLane, TLAPS

(***************************************************************************)
(* The vault.                                                              *)
(***************************************************************************)

\* A granted refresh comes back with a pair of the family it was sent for.
RepliesKeepFamily ==
  \A c \in Callers : flight[c].stage = "granted" =>
                       flight[c].reply.family = flight[c].base.family

VaultInv == VaultTypeOK /\ SeedWins /\ RepliesKeepFamily

LEMMA NoPairType == NoPair \in Pair /\ NoFlight \in Flights /\ NoFlight.stage = "none"
BY DEF NoPair, Pair, NoFlight, Flights

LEMMA InitVault == VaultInit => VaultInv
<1> SUFFICES ASSUME VaultInit PROVE VaultInv
  OBVIOUS
<1>1. NoPair.family = 0 /\ 0 \in 0..MaxSeeds /\ 0 \in 0..MaxRefresh /\ 0 \in 0..MaxFaults
  BY BoundsAssumption DEF NoPair
<1> QED
  BY <1>1, NoPairType DEF VaultInit, VaultInv, VaultTypeOK, SeedWins, RepliesKeepFamily

-----------------------------------------------------------------------------
(* Step by step *)

LEMMA SeedVault == ASSUME VaultInv, Seed PROVE VaultInv'
<1>1. seeds + 1 \in 0..MaxSeeds /\ stored' \in Pair
  BY BoundsAssumption DEF VaultInv, VaultTypeOK, Seed, Pair
<1> QED
  BY <1>1 DEF VaultInv, VaultTypeOK, SeedWins, RepliesKeepFamily, Seed, callers

LEMMA AskVault == ASSUME VaultInv, NEW c \in Callers, Ask(c) PROVE VaultInv'
<1> USE DEF VaultInv, VaultTypeOK, SeedWins, RepliesKeepFamily
<1> PICK bad \in {NoPair, got[c]} : Unconfigured(c, bad) \/ Fresh(c, bad) \/ Refresh(c, bad)
  BY DEF Ask
<1>1. bad \in Pair
  BY NoPairType
<1>2. CASE Unconfigured(c, bad)
  BY <1>1, <1>2 DEF Unconfigured, Asks
<1>3. CASE Fresh(c, bad)
  BY <1>1, <1>3 DEF Fresh, Asks, Answer
<1>4. CASE Refresh(c, bad) /\ Pending
  BY <1>1, <1>4 DEF Refresh, Asks, Pending
<1>5. CASE Refresh(c, bad) /\ ~Pending
  <2> DEFINE sent == [NoFlight EXCEPT !.base = stored, !.stage = "sent"]
  <2>1. sent \in Flights /\ sent.stage = "sent"
    BY NoPairType DEF Flights, NoFlight
  <2>2. flight' = [flight EXCEPT ![c] = sent] /\ inFlight' = c
    BY <1>5 DEF Refresh
  <2> HIDE DEF sent
  <2> QED
    BY <1>1, <1>5, <2>1, <2>2 DEF Refresh, Asks
<1> QED
  BY <1>2, <1>3, <1>4, <1>5

LEMMA ReplyVault == ASSUME VaultInv, NEW c \in Callers, Reply(c) PROVE VaultInv'
<1> USE DEF VaultInv, VaultTypeOK, SeedWins, RepliesKeepFamily
<1>1. CASE Refuse(c)
  <2>1. [flight[c] EXCEPT !.stage = "refused"] \in Flights
    BY DEF Flights
  <2>2. faults' \in 0..MaxFaults
    <3>1. faults' = faults \/ (faults < MaxFaults /\ faults' = faults + 1)
      BY <1>1 DEF Refuse
    <3> QED
      BY <3>1, BoundsAssumption
  <2> QED
    BY <1>1, <2>1, <2>2 DEF Refuse, callers
<1>2. ASSUME NEW rotate \in BOOLEAN, Grant(c, rotate) PROVE VaultInv'
  <2> DEFINE base  == flight[c].base
             n     == granted + 2
             reply == [base EXCEPT !.access = n, !.refresh = IF rotate THEN n ELSE @]
             sent  == [flight[c] EXCEPT !.stage = "granted", !.reply = reply]
  <2>1. base \in Pair /\ n \in Nat /\ base.refresh \in Nat
    BY BoundsAssumption DEF Flights, Pair
  <2>2. reply \in Pair /\ reply.family = base.family
    <3>1. (IF rotate THEN n ELSE base.refresh) \in Nat
      BY <2>1
    <3> HIDE DEF n, base
    <3> QED
      BY <2>1, <3>1 DEF Pair
  <2>3. /\ sent \in Flights /\ sent.stage = "granted"
        /\ sent.reply = reply /\ sent.base = base
    BY <2>2 DEF Flights
  <2>4. flight' = [flight EXCEPT ![c] = sent]
    BY <1>2 DEF Grant
  <2>5. valid' \in [0..MaxSeeds -> Nat] /\ granted' \in 0..MaxRefresh
    <3>1. valid' = valid \/ valid' = [valid EXCEPT ![base.family] = n]
      BY <1>2 DEF Grant
    <3>2. granted < MaxRefresh /\ granted' = granted + 1
      BY <1>2 DEF Grant
    <3> HIDE DEF n, base
    <3>3. valid' \in [0..MaxSeeds -> Nat]
      BY <2>1, <3>1
    <3> QED
      BY <3>2, <3>3, BoundsAssumption
  <2> HIDE DEF reply, sent, base, n
  <2>6. RepliesKeepFamily'
    BY <2>2, <2>3, <2>4
  <2> QED
    BY <1>2, <2>3, <2>4, <2>5, <2>6 DEF Grant, callers
<1> QED
  BY <1>1, <1>2 DEF Reply

LEMMA ReturnVault == ASSUME VaultInv, NEW c \in Callers, Return(c) PROVE VaultInv'
<1> USE DEF VaultInv, VaultTypeOK, SeedWins, RepliesKeepFamily
<1>1. /\ flight' = [flight EXCEPT ![c] = NoFlight]
      /\ inFlight' = IF inFlight = c THEN NoOne ELSE inFlight
  BY DEF Return, Lands, Fails, Dropped, Landed
<1>2. /\ flight' \in [Callers -> Flights] /\ RepliesKeepFamily'
      /\ inFlight' \in Callers \union {NoOne}
      /\ inFlight' # NoOne => flight'[inFlight'].stage # "none"
  BY <1>1, NoPairType DEF NoFlight
<1>3. CASE Lands(c)
  <2>1. flight[c].reply \in Pair /\ flight[c].base \in Pair
    BY DEF Flights
  <2>2. stored' \in Pair /\ stored'.family = stored.family
    BY <1>3, <2>1 DEF Lands, Replaced
  <2>3. /\ at' \in [Callers -> {"idle", "waiting", "answered", "failed"}]
        /\ waitsFor' \in [Callers -> Callers \union {NoOne}]
        /\ got' \in [Callers -> Pair]
    BY <1>3, <2>1 DEF Lands, AnswerAll
  <2> QED
    BY <1>2, <1>3, <2>2, <2>3 DEF Lands
<1>4. CASE Fails(c)
  <2>1. /\ at' \in [Callers -> {"idle", "waiting", "answered", "failed"}]
        /\ waitsFor' \in [Callers -> Callers \union {NoOne}]
    BY <1>4 DEF Fails, FailAll
  <2>2. faults' \in 0..MaxFaults /\ lost' \in BOOLEAN
    <3>1. faults' = faults \/ (faults < MaxFaults /\ faults' = faults + 1)
      BY <1>4 DEF Fails
    <3>2. lost' = lost \/ lost' = TRUE
      BY <1>4 DEF Fails
    <3>3. faults' \in 0..MaxFaults
      BY <3>1, BoundsAssumption
    <3> QED
      BY <3>2, <3>3
  <2> QED
    BY <1>2, <1>4, <2>1, <2>2 DEF Fails, FailAll
<1>5. CASE Dropped(c)
  BY <1>2, <1>5 DEF Dropped, callers
<1> QED
  BY <1>3, <1>4, <1>5 DEF Return

LEMMA VaultInductive == VaultInv /\ [VaultNext]_vaultVars => VaultInv'
<1> SUFFICES ASSUME VaultInv, [VaultNext]_vaultVars PROVE VaultInv'
  OBVIOUS
<1> USE DEF VaultInv, VaultTypeOK, SeedWins, RepliesKeepFamily
<1>1. CASE Evict
  BY <1>1, BoundsAssumption DEF Evict
<1>2. ASSUME NEW c \in Callers, Again(c) PROVE VaultInv'
  BY <1>2, NoPairType DEF Again
<1>3. CASE UNCHANGED vaultVars
  BY <1>3 DEF vaultVars
<1> QED
  BY <1>1, <1>2, <1>3, SeedVault, AskVault, ReplyVault, ReturnVault DEF VaultNext

-----------------------------------------------------------------------------
(* The theorems *)

LEMMA VaultCorrect == VaultSpec => []VaultInv
BY InitVault, VaultInductive, PTL DEF VaultSpec

\* Every variable keeps its type, and a pending refresh is one that was sent.
THEOREM VaultTypes == VaultSpec => []VaultTypeOK
<1>1. VaultInv => VaultTypeOK
  BY DEF VaultInv
<1> QED
  BY <1>1, VaultCorrect, PTL

\* However late a refresh comes back, and however often the object is evicted
\* meanwhile, it never replaces the pair of a newer sign-in (seed, refreshOnce).
THEOREM SeedPrevails == VaultSpec => []SeedWins
<1>1. VaultInv => SeedWins
  BY DEF VaultInv
<1> QED
  BY <1>1, VaultCorrect, PTL

-----------------------------------------------------------------------------
(* The stored refresh token is the one the server accepts *)

\* The request whose answer the object awaits was sent for the stored pair, or for
\* one of a family that a sign-in has replaced; if it was granted, the pair it
\* brings is the family's newest.
AwaitedFlight ==
  inFlight # NoOne =>
    LET f == flight[inFlight] IN
    /\ f.base = stored \/ f.base.family # stored.family
    /\ ~lost /\ f.stage = "granted" => f.reply.refresh = valid[f.base.family]

\* No request has been sent yet for a family nobody has signed in to.
FamiliesAhead ==
  /\ \A c \in Callers : flight[c].stage # "none" => flight[c].base.family <= seeds
  /\ \A f \in 0..MaxSeeds : f > seeds => valid[f] = 1

Bringing == inFlight # NoOne /\ flight[inFlight].stage = "granted"
            /\ flight[inFlight].base = stored

Spendable == lost \/ stored = NoPair \/ stored.refresh = valid[stored.family] \/ Bringing

SpendInv == AwaitedFlight /\ FamiliesAhead /\ Spendable

LEMMA InitSpend == VaultInit => SpendInv
BY NoPairType DEF VaultInit, SpendInv, AwaitedFlight, FamiliesAhead, Spendable

LEMMA SeedSpend == ASSUME VaultInv, SpendInv, Seed PROVE SpendInv'
<1>1. /\ seeds \in Nat /\ seeds' = seeds + 1 /\ seeds + 1 \in 0..MaxSeeds
      /\ stored' = [family |-> seeds + 1, access |-> 1, refresh |-> 1]
      /\ UNCHANGED <<inFlight, flight, valid, lost>>
  BY BoundsAssumption DEF Seed, VaultInv, VaultTypeOK
<1>2. inFlight # NoOne =>
        inFlight \in Callers /\ flight[inFlight].stage # "none"
          /\ flight[inFlight].base \in Pair
  BY DEF VaultInv, VaultTypeOK, Flights
<1>3. FamiliesAhead'
  <2>1. \A c \in Callers : flight[c].stage # "none" =>
          flight[c].base.family \in Nat /\ flight[c].base.family <= seeds
    BY DEF VaultInv, VaultTypeOK, SpendInv, FamiliesAhead, Flights, Pair
  <2> QED
    BY <1>1, <2>1 DEF SpendInv, FamiliesAhead
<1>4. AwaitedFlight'
  <2>1. inFlight # NoOne => flight[inFlight].base.family <= seeds
                            /\ flight[inFlight].base.family \in Nat
    BY <1>2 DEF SpendInv, FamiliesAhead, Pair
  <2> QED
    BY <1>1, <1>2, <2>1 DEF SpendInv, AwaitedFlight
<1>5. Spendable'
  BY <1>1 DEF SpendInv, FamiliesAhead, Spendable
<1> QED
  BY <1>3, <1>4, <1>5 DEF SpendInv

LEMMA AskSpend == ASSUME VaultInv, SpendInv, NEW c \in Callers, Ask(c) PROVE SpendInv'
<1> PICK bad : Unconfigured(c, bad) \/ Fresh(c, bad) \/ Refresh(c, bad)
  BY DEF Ask
<1>1. UNCHANGED <<stored, valid, seeds, lost>>
  BY DEF Unconfigured, Fresh, Refresh
<1>2. CASE UNCHANGED <<inFlight, flight>>
  BY <1>1, <1>2 DEF SpendInv, AwaitedFlight, FamiliesAhead, Spendable, Bringing
<1>3. CASE Refresh(c, bad) /\ ~Pending
  <2> DEFINE sent == [NoFlight EXCEPT !.base = stored, !.stage = "sent"]
  <2>1. sent.base = stored /\ sent.stage = "sent"
    BY DEF NoFlight
  <2>2. flight' = [flight EXCEPT ![c] = sent] /\ inFlight' = c /\ inFlight = NoOne
        /\ flight \in [Callers -> Flights]
    BY <1>3 DEF Refresh, Pending, VaultInv, VaultTypeOK
  <2>3. stored.family <= seeds
    BY DEF VaultInv, SeedWins, VaultTypeOK
  <2> HIDE DEF sent
  <2> QED
    BY <1>1, <2>1, <2>2, <2>3 DEF SpendInv, AwaitedFlight, FamiliesAhead, Spendable, Bringing
<1> QED
  BY <1>2, <1>3 DEF Unconfigured, Fresh, Refresh

LEMMA RefuseSpend == ASSUME VaultInv, SpendInv, NEW c \in Callers, Refuse(c) PROVE SpendInv'
<1> DEFINE refused == [flight[c] EXCEPT !.stage = "refused"]
<1>1. /\ refused.stage = "refused" /\ refused.base = flight[c].base
      /\ flight[c].stage = "sent" /\ flight \in [Callers -> Flights]
  BY DEF Refuse, VaultInv, VaultTypeOK, Flights
<1>2. flight' = [flight EXCEPT ![c] = refused]
      /\ UNCHANGED <<stored, inFlight, valid, seeds, lost>>
  BY DEF Refuse
<1>3. inFlight # NoOne => inFlight \in Callers
  BY DEF VaultInv, VaultTypeOK
<1> HIDE DEF refused
<1> QED
  BY <1>1, <1>2, <1>3 DEF SpendInv, AwaitedFlight, FamiliesAhead, Spendable, Bringing

LEMMA GrantSpend ==
  ASSUME VaultInv, SpendInv, NEW c \in Callers, NEW rotate \in BOOLEAN, Grant(c, rotate)
  PROVE  SpendInv'
<1> DEFINE base  == flight[c].base
           n     == granted + 2
           reply == [base EXCEPT !.access = n, !.refresh = IF rotate THEN n ELSE @]
           sent  == [flight[c] EXCEPT !.stage = "granted", !.reply = reply]
<1>1. /\ base \in Pair /\ base.family \in Nat /\ base.family <= seeds
      /\ seeds \in 0..MaxSeeds /\ base.family \in 0..MaxSeeds
  <2>1. flight[c].stage # "none" /\ flight[c] \in Flights
    BY DEF Grant, VaultInv, VaultTypeOK
  <2>2. base \in Pair /\ base.family \in Nat
    BY <2>1 DEF Flights, Pair
  <2>3. base.family <= seeds
    BY <2>1 DEF SpendInv, FamiliesAhead
  <2>4. seeds \in 0..MaxSeeds /\ MaxSeeds \in Nat
    BY BoundsAssumption DEF VaultInv, VaultTypeOK
  <2> HIDE DEF base
  <2> QED
    BY <2>2, <2>3, <2>4
<1>2. /\ sent.stage = "granted" /\ sent.reply = reply /\ sent.base = base
      /\ flight[c].stage = "sent"
  BY DEF Grant, VaultInv, VaultTypeOK, Flights
<1>3. reply.refresh = IF rotate THEN n ELSE base.refresh
  BY <1>1 DEF Pair
<1>4. /\ flight' = [flight EXCEPT ![c] = sent] /\ flight \in [Callers -> Flights]
      /\ valid' = IF rotate THEN [valid EXCEPT ![base.family] = n] ELSE valid
      /\ base.refresh = valid[base.family] /\ valid \in [0..MaxSeeds -> Nat]
      /\ lost' = (lost \/ inFlight # c)
      /\ UNCHANGED <<stored, inFlight, seeds>>
  BY DEF Grant, Awaited, VaultInv, VaultTypeOK
<1> HIDE DEF reply, sent, base, n
<1>5. reply.refresh = valid'[base.family]
  BY <1>1, <1>3, <1>4
<1>6. \A f \in 0..MaxSeeds : f # base.family => valid'[f] = valid[f]
  BY <1>4
<1>7. FamiliesAhead'
  <2>1. \A d \in Callers : flight'[d].stage # "none" => flight'[d].base.family <= seeds
    BY <1>1, <1>2, <1>4 DEF SpendInv, FamiliesAhead
  <2>2. \A f \in 0..MaxSeeds : f > seeds => valid'[f] = 1
    BY <1>1, <1>6 DEF SpendInv, FamiliesAhead
  <2> QED
    BY <1>4, <2>1, <2>2 DEF FamiliesAhead
<1>8. CASE inFlight # c
  BY <1>2, <1>4, <1>7, <1>8 DEF SpendInv, AwaitedFlight, Spendable, VaultInv, VaultTypeOK
<1>9. CASE inFlight = c
  <2>0. c # NoOne /\ stored.family = seeds
    BY CallersAssumption DEF VaultInv, SeedWins
  <2>1. flight'[c] = sent
    BY <1>4
  <2>2. base = stored \/ base.family # stored.family
    BY <1>9, <2>0 DEF SpendInv, AwaitedFlight, base
  <2>3. AwaitedFlight'
    BY <1>2, <1>4, <1>5, <1>9, <2>1, <2>2 DEF AwaitedFlight
  <2>4. Spendable'
    <3>1. CASE base = stored
      BY <1>2, <1>4, <1>9, <2>0, <2>1, <3>1 DEF Spendable, Bringing
    <3>2. CASE base.family # stored.family
      <4>1. ~Bringing
        BY <1>2, <1>9 DEF Bringing
      <4>2. valid'[stored.family] = valid[stored.family]
        BY <1>1, <1>6, <2>0, <3>2
      <4> QED
        BY <1>4, <4>1, <4>2 DEF SpendInv, Spendable
    <3> QED
      BY <2>2, <3>1, <3>2
  <2> QED
    BY <1>7, <2>3, <2>4 DEF SpendInv
<1> QED
  BY <1>8, <1>9

LEMMA ReturnSpend == ASSUME VaultInv, SpendInv, NEW c \in Callers, Return(c) PROVE SpendInv'
<1>1. /\ flight' = [flight EXCEPT ![c] = NoFlight] /\ flight \in [Callers -> Flights]
      /\ inFlight' = IF inFlight = c THEN NoOne ELSE inFlight
      /\ UNCHANGED <<valid, seeds>>
  BY DEF Return, Lands, Fails, Dropped, Landed, VaultInv, VaultTypeOK, callers
<1>2. FamiliesAhead'
  BY <1>1, NoPairType DEF SpendInv, FamiliesAhead
<1>3. CASE Dropped(c)
  <2>1. inFlight # c /\ UNCHANGED <<stored, lost>>
    BY <1>3 DEF Dropped, Awaited
  <2>2. inFlight # NoOne => inFlight \in Callers
    BY DEF VaultInv, VaultTypeOK
  <2> QED
    BY <1>1, <1>2, <2>1, <2>2 DEF SpendInv, AwaitedFlight, Spendable, Bringing
<1>4. inFlight = c /\ c # NoOne => AwaitedFlight'
  BY <1>1 DEF AwaitedFlight
<1>5. c # NoOne
  BY CallersAssumption
<1>6. CASE Lands(c)
  <2>1. inFlight = c /\ flight[c].stage = "granted" /\ UNCHANGED lost
    BY <1>6 DEF Lands, Awaited
  <2>2. CASE Replaced(c)
    <3>1. UNCHANGED stored /\ ~Bringing
      BY <1>6, <2>1, <2>2 DEF Lands, Replaced, Bringing
    <3> QED
      BY <1>1, <1>2, <1>4, <1>5, <2>1, <3>1 DEF SpendInv, Spendable
  <2>3. CASE ~Replaced(c)
    <3>1. stored' = flight[c].reply
      BY <1>6, <2>3 DEF Lands
    <3>2. flight[c].reply.family = flight[c].base.family
      BY <2>1 DEF VaultInv, RepliesKeepFamily
    <3>3. ~lost => flight[c].reply.refresh = valid[flight[c].base.family]
      BY <1>5, <2>1 DEF SpendInv, AwaitedFlight
    <3> QED
      BY <1>1, <1>2, <1>4, <1>5, <2>1, <3>1, <3>2, <3>3 DEF SpendInv, Spendable
  <2> QED
    BY <2>2, <2>3
<1>7. CASE Fails(c)
  <2>1. inFlight = c /\ UNCHANGED stored
        /\ (flight[c].stage = "granted" => lost' = TRUE)
        /\ (flight[c].stage # "granted" => UNCHANGED lost)
    BY <1>7 DEF Fails, Awaited
  <2> QED
    BY <1>1, <1>2, <1>4, <1>5, <2>1 DEF SpendInv, Spendable, Bringing
<1> QED
  BY <1>3, <1>6, <1>7 DEF Return

LEMMA SpendInductive == VaultInv /\ SpendInv /\ [VaultNext]_vaultVars => SpendInv'
<1> SUFFICES ASSUME VaultInv, SpendInv, [VaultNext]_vaultVars PROVE SpendInv'
  OBVIOUS
<1>1. CASE Evict
  <2>1. /\ inFlight' = NoOne /\ UNCHANGED <<stored, flight, valid, seeds>>
        /\ lost' = (lost \/ \E c \in Callers : Awaited(c) /\ flight[c].stage = "granted")
    BY <1>1 DEF Evict
  <2>2. Bringing => lost'
    BY <2>1 DEF Bringing, Awaited, VaultInv, VaultTypeOK
  <2> QED
    BY <2>1, <2>2 DEF SpendInv, AwaitedFlight, FamiliesAhead, Spendable
<1>2. ASSUME NEW c \in Callers, Again(c) PROVE SpendInv'
  BY <1>2 DEF Again, SpendInv, AwaitedFlight, FamiliesAhead, Spendable, Bringing
<1>3. CASE UNCHANGED vaultVars
  BY <1>3 DEF vaultVars, SpendInv, AwaitedFlight, FamiliesAhead, Spendable, Bringing
<1> QED
  BY <1>1, <1>2, <1>3, SeedSpend, AskSpend, RefuseSpend, GrantSpend, ReturnSpend
     DEF VaultNext, Reply

\* As long as no granted answer is lost, the object never keeps a refresh token
\* that the server has rotated away, except while the pair that replaces it is on
\* its way: concurrent callers never spend one token twice (refresh, refreshOnce).
THEOREM StoredPairSpendable == VaultSpec => []StoredIsSpendable
<1>1. VaultInv /\ SpendInv => StoredIsSpendable
  BY DEF VaultInv, VaultTypeOK, SpendInv, Spendable, Bringing, StoredIsSpendable, Awaited
<1> QED
  BY <1>1, InitSpend, SpendInductive, VaultCorrect, PTL DEF VaultSpec

-----------------------------------------------------------------------------
(* What was rejected is replaced *)

\* Access tokens are numbered as they are granted, and the refresh that is awaited
\* brings a number nobody has been given.
NewestNumber ==
  /\ stored.access <= granted + 1
  /\ \A c \in Callers :
       /\ got[c].access <= granted + 1 /\ rejected[c].access <= granted + 1
       /\ flight[c].stage = "granted" =>
            /\ flight[c].reply.access <= granted + 1 /\ 1 < flight[c].reply.access
            /\ inFlight = c => /\ stored.access < flight[c].reply.access
                               /\ \A d \in Callers :
                                    /\ got[d].access < flight[c].reply.access
                                    /\ rejected[d].access < flight[c].reply.access

\* The numbers the invariant compares are numbers.
LEMMA Accesses ==
  ASSUME VaultTypeOK
  PROVE  /\ stored.access \in Nat /\ granted \in Nat /\ NoPair.access = 0
         /\ \A c \in Callers : /\ got[c].access \in Nat /\ rejected[c].access \in Nat
                               /\ flight[c].reply.access \in Nat /\ flight[c].reply \in Pair
                               /\ flight[c].base \in Pair
BY BoundsAssumption DEF VaultTypeOK, Pair, Flights, NoPair

LEMMA InitNumber == VaultInit => NewestNumber
<1> SUFFICES ASSUME VaultInit PROVE NewestNumber
  OBVIOUS
<1>1. NoPair.access = 0 /\ NoFlight.stage = "none"
  BY DEF NoPair, NoFlight
<1> QED BY <1>1 DEF VaultInit, NewestNumber

LEMMA SeedNumber == ASSUME VaultInv, NewestNumber, Seed PROVE NewestNumber'
<1>1. stored'.access = 1 /\ UNCHANGED <<inFlight, flight, got, rejected, granted>>
  BY DEF Seed, callers
<1>2. ASSUME NEW c \in Callers, flight[c].stage = "granted", inFlight = c
      PROVE  1 < flight[c].reply.access
  BY <1>2 DEF NewestNumber
<1> QED BY <1>1, Accesses DEF VaultInv, NewestNumber

LEMMA AskNumber == ASSUME VaultInv, NewestNumber, NEW c \in Callers, Ask(c) PROVE NewestNumber'
<1>1. PICK bad \in {NoPair, got[c]} : Unconfigured(c, bad) \/ Fresh(c, bad) \/ Refresh(c, bad)
  BY DEF Ask
<1>2. /\ UNCHANGED <<stored, granted>> /\ rejected' = [rejected EXCEPT ![c] = bad]
      /\ got' = got \/ got' = [got EXCEPT ![c] = stored]
      /\ got \in [Callers -> Pair] /\ rejected \in [Callers -> Pair]
  BY <1>1 DEF Unconfigured, Fresh, Refresh, Asks, Answer, VaultInv, VaultTypeOK
<1>3. \A d \in Callers : /\ got'[d] \in {got[d], stored}
                         /\ rejected'[d] \in {rejected[d], got[d], NoPair}
  BY <1>1, <1>2
<1>4. ASSUME NEW d \in Callers, flight'[d].stage = "granted"
      PROVE  flight'[d] = flight[d] /\ (inFlight' = d => inFlight = d)
  <2>1. CASE UNCHANGED <<inFlight, flight>>
    BY <2>1
  <2>2. CASE Refresh(c, bad) /\ ~Pending
    <3> DEFINE sent == [NoFlight EXCEPT !.base = stored, !.stage = "sent"]
    <3>1. sent.stage = "sent"
      BY DEF NoFlight
    <3>2. /\ flight' = [flight EXCEPT ![c] = sent] /\ inFlight' = c
          /\ flight \in [Callers -> Flights]
      BY <2>2 DEF Refresh, VaultInv, VaultTypeOK
    <3> HIDE DEF sent
    <3> QED BY <1>4, <3>1, <3>2
  <2> QED BY <1>1, <2>1, <2>2 DEF Unconfigured, Fresh, Refresh
<1>5. ASSUME NEW d \in Callers
      PROVE  /\ got'[d].access <= granted' + 1 /\ rejected'[d].access <= granted' + 1
  BY <1>2, <1>3, Accesses DEF VaultInv, NewestNumber
<1>6. ASSUME NEW e \in Callers, flight'[e].stage = "granted", inFlight' = e, NEW d \in Callers
      PROVE  /\ got'[d].access < flight'[e].reply.access
             /\ rejected'[d].access < flight'[e].reply.access
  <2>1. flight'[e] = flight[e] /\ flight[e].stage = "granted" /\ inFlight = e
    BY <1>4, <1>6
  <2>2. /\ stored.access < flight[e].reply.access /\ got[d].access < flight[e].reply.access
        /\ rejected[d].access < flight[e].reply.access /\ 1 < flight[e].reply.access
    BY <2>1 DEF NewestNumber
  <2>3. NoPair.access < flight[e].reply.access
    BY <2>2, Accesses DEF VaultInv
  <2> QED BY <1>3, <2>1, <2>2, <2>3
<1> QED BY <1>2, <1>4, <1>5, <1>6 DEF NewestNumber

LEMMA ReplyNumber == ASSUME VaultInv, NewestNumber, NEW c \in Callers, Reply(c) PROVE NewestNumber'
<1>1. CASE Refuse(c)
  <2>1. /\ flight' = [flight EXCEPT ![c].stage = "refused"] /\ flight \in [Callers -> Flights]
        /\ UNCHANGED <<stored, inFlight, got, rejected, granted>>
    BY <1>1 DEF Refuse, callers, VaultInv, VaultTypeOK
  <2>2. \A d \in Callers : flight'[d].stage = "granted" => flight'[d] = flight[d]
    BY <2>1 DEF Flights
  <2> QED BY <2>1, <2>2 DEF NewestNumber
<1>2. ASSUME NEW rotate \in BOOLEAN, Grant(c, rotate)
      PROVE  NewestNumber'
  <2> DEFINE base  == flight[c].base
             n     == granted + 2
             reply == [base EXCEPT !.access = n, !.refresh = IF rotate THEN n ELSE @]
             sent  == [flight[c] EXCEPT !.stage = "granted", !.reply = reply]
  <2>1. /\ flight' = [flight EXCEPT ![c] = sent] /\ flight \in [Callers -> Flights]
        /\ granted' = granted + 1 /\ UNCHANGED <<stored, inFlight, got, rejected>>
    BY <1>2 DEF Grant, callers, VaultInv, VaultTypeOK
  <2>2. sent.reply.access = n
    <3>1. base \in Pair
      BY Accesses DEF VaultInv
    <3>2. sent.reply = reply
      BY <2>1 DEF Flights
    <3> HIDE DEF n, base, sent
    <3> QED BY <3>1, <3>2 DEF Pair
  <2>3. n = granted + 2 /\ granted \in Nat
    BY Accesses DEF VaultInv
  <2> HIDE DEF base, n, reply, sent
  <2>4. \A d \in Callers : d # c => flight'[d] = flight[d]
    BY <2>1
  <2>5. flight'[c] = sent
    BY <2>1
  <2>6. stored.access < n /\ n <= granted' + 1 /\ 1 < n
    BY <2>1, <2>3, Accesses DEF VaultInv, NewestNumber
  <2>7. \A d \in Callers : got[d].access < n /\ rejected[d].access < n
    BY <2>3, Accesses DEF VaultInv, NewestNumber
  <2>8. ASSUME NEW d \in Callers
        PROVE  /\ got'[d].access <= granted' + 1 /\ rejected'[d].access <= granted' + 1
    BY <2>1, <2>3, <2>8, Accesses DEF VaultInv, NewestNumber
  <2>9. stored'.access <= granted' + 1
    BY <2>1, <2>3, Accesses DEF VaultInv, NewestNumber
  <2>10. ASSUME NEW d \in Callers, d # c, flight'[d].stage = "granted"
         PROVE  flight'[d].reply.access <= granted' + 1
    BY <2>1, <2>3, <2>4, <2>10, Accesses DEF VaultInv, NewestNumber
  <2>11. ASSUME NEW d \in Callers, flight'[d].stage = "granted"
         PROVE  /\ flight'[d].reply.access <= granted' + 1 /\ 1 < flight'[d].reply.access
                /\ inFlight' = d => /\ stored'.access < flight'[d].reply.access
                                    /\ \A e \in Callers :
                                         /\ got'[e].access < flight'[d].reply.access
                                         /\ rejected'[e].access < flight'[d].reply.access
    <3>1. CASE d = c
      BY <2>1, <2>2, <2>5, <2>6, <2>7, <3>1
    <3>2. CASE d # c
      BY <2>1, <2>4, <2>10, <2>11, <3>2 DEF NewestNumber
    <3> QED BY <3>1, <3>2
  <2> QED BY <2>8, <2>9, <2>11 DEF NewestNumber
<1> QED BY <1>1, <1>2 DEF Reply

LEMMA ReturnNumber == ASSUME VaultInv, NewestNumber, NEW c \in Callers, Return(c) PROVE NewestNumber'
<1>1. /\ flight' = [flight EXCEPT ![c] = NoFlight] /\ flight \in [Callers -> Flights]
      /\ inFlight' = IF inFlight = c THEN NoOne ELSE inFlight
      /\ UNCHANGED <<rejected, granted>>
  BY DEF Return, Lands, Fails, Dropped, Landed, VaultInv, VaultTypeOK, callers
<1>2. \A d \in Callers : flight'[d].stage = "granted" => d # c /\ flight'[d] = flight[d]
  BY <1>1, NoPairType
<1>3. CASE UNCHANGED <<stored, got>>
  BY <1>1, <1>2, <1>3, CallersAssumption DEF NewestNumber
<1>4. CASE Lands(c)
  <2>1. inFlight' = NoOne /\ flight[c].stage = "granted"
    BY <1>1, <1>4 DEF Lands, Awaited
  <2>2. /\ stored' \in {stored, flight[c].reply}
        /\ \A d \in Callers : got'[d] \in {got[d], stored, flight[c].reply}
    BY <1>4 DEF Lands, AnswerAll
  <2>3. /\ stored'.access <= granted' + 1 /\ \A d \in Callers : got'[d].access <= granted' + 1
    BY <1>1, <2>1, <2>2 DEF NewestNumber
  <2> QED BY <1>1, <1>2, <2>1, <2>3, CallersAssumption DEF NewestNumber
<1> QED BY <1>3, <1>4 DEF Return, Fails, FailAll, Dropped, callers

LEMMA NumberInductive == VaultInv /\ NewestNumber /\ [VaultNext]_vaultVars => NewestNumber'
<1> SUFFICES ASSUME VaultInv, NewestNumber, [VaultNext]_vaultVars PROVE NewestNumber'
  OBVIOUS
<1>1. CASE Evict
  BY <1>1, CallersAssumption DEF Evict, NewestNumber
<1>2. ASSUME NEW c \in Callers, Again(c) PROVE NewestNumber'
  <2>1. /\ UNCHANGED <<stored, inFlight, flight, granted>>
        /\ \A d \in Callers : /\ got'[d] \in {got[d], NoPair}
                              /\ rejected'[d] \in {rejected[d], NoPair}
    BY <1>2 DEF Again, VaultInv, VaultTypeOK
  <2>2. NoPair.access = 0 /\ granted \in Nat
    BY Accesses DEF VaultInv
  <2>3. \A d \in Callers : got'[d].access <= granted + 1 /\ rejected'[d].access <= granted + 1
    BY <2>1, <2>2 DEF NewestNumber
  <2>4. ASSUME NEW e \in Callers, flight[e].stage = "granted", inFlight = e, NEW d \in Callers
        PROVE  /\ got'[d].access < flight[e].reply.access
               /\ rejected'[d].access < flight[e].reply.access
    BY <2>1, <2>2, <2>4, Accesses DEF VaultInv, NewestNumber
  <2> QED BY <2>1, <2>3, <2>4 DEF NewestNumber
<1>3. CASE UNCHANGED vaultVars
  BY <1>3 DEF vaultVars, NewestNumber
<1> QED
  BY <1>1, <1>2, <1>3, SeedNumber, AskNumber, ReplyNumber, ReturnNumber DEF VaultNext

\* A call that comes to be answered was answered with what is stored, which it did
\* not reject, or by the refresh it joined.
LEMMA AnswersAre ==
  ASSUME VaultInv, NewestNumber, [VaultNext]_vaultVars, NEW c \in Callers,
         AnsweredWithRejected(c)', ~AnsweredWithRejected(c)
  PROVE  JoinedStaleFlight(c)
<1>1. /\ at'[c] = "answered" /\ rejected'[c] # NoPair /\ got'[c] = rejected'[c]
      /\ ~(at[c] = "answered" /\ rejected[c] # NoPair /\ got[c] = rejected[c])
  BY DEF AnsweredWithRejected
<1>2. /\ at \in [Callers -> {"idle", "waiting", "answered", "failed"}]
      /\ got \in [Callers -> Pair] /\ rejected \in [Callers -> Pair]
  BY DEF VaultInv, VaultTypeOK
<1>3. ASSUME NEW d \in Callers, Ask(d) PROVE FALSE
  <2>1. PICK bad : Unconfigured(d, bad) \/ Fresh(d, bad) \/ Refresh(d, bad)
    BY <1>3 DEF Ask
  <2>2. d = c
    BY <1>1, <1>2, <2>1 DEF Unconfigured, Fresh, Refresh, Asks, Answer
  <2>3. CASE Fresh(c, bad)
    <3>1. /\ ~IsRejected(bad) /\ rejected'[c] = bad /\ got'[c] = stored
      BY <1>2, <2>3 DEF Fresh, Asks, Answer
    <3> QED BY <1>1, <3>1 DEF IsRejected
  <2> QED BY <1>1, <1>2, <2>1, <2>2, <2>3 DEF Unconfigured, Refresh
<1>4. ASSUME NEW d \in Callers, Lands(d) PROVE JoinedStaleFlight(c)
  <2>1. c \in Joined(d) /\ at[c] = "waiting" /\ waitsFor[c] = d /\ UNCHANGED rejected
    BY <1>1, <1>4 DEF Lands, AnswerAll, Joined
  <2>2. CASE Replaced(d)
    BY <2>1, <2>2, CallersAssumption DEF Replaced, JoinedStaleFlight
  <2>3. CASE ~Replaced(d)
    <3>1. got'[c] = flight[d].reply
      BY <1>4, <2>1, <2>3 DEF Lands, AnswerAll
    <3>2. /\ rejected[c].access < flight[d].reply.access
          /\ rejected[c].access \in Nat /\ flight[d].reply.access \in Nat
      BY <1>4, Accesses DEF Lands, Awaited, NewestNumber, VaultInv
    <3> QED BY <1>1, <2>1, <3>1, <3>2
  <2> QED BY <2>2, <2>3
<1>5. CASE Seed \/ Evict \/ UNCHANGED vaultVars
  BY <1>1, <1>5 DEF Seed, Evict, vaultVars, callers
<1>6. ASSUME NEW d \in Callers, Reply(d) \/ Fails(d) \/ Dropped(d) \/ Again(d) PROVE FALSE
  BY <1>1, <1>2, <1>6 DEF Reply, Refuse, Grant, Fails, FailAll, Dropped, Again, callers
<1> QED BY <1>3, <1>4, <1>5, <1>6 DEF VaultNext, Return

\* A caller that reports its token as rejected is answered with another one,
\* whatever refreshes it joins and whenever they come back, unless a sign-in has
\* overtaken the one it joined (credential, refresh, refreshOnce).
THEOREM RejectedTokenReplaced == VaultSpec => RejectedIsReplaced
<1>1. VaultInv /\ NewestNumber /\ [VaultNext]_vaultVars =>
        [\A c \in Callers :
           AnsweredWithRejected(c)' => AnsweredWithRejected(c) \/ JoinedStaleFlight(c)]_vaultVars
  BY AnswersAre
<1>2. VaultSpec => []NewestNumber
  BY InitVault, VaultInductive, InitNumber, NumberInductive, PTL DEF VaultSpec
<1> QED BY <1>1, <1>2, VaultCorrect, PTL DEF VaultSpec, RejectedIsReplaced

(***************************************************************************)
(* The cloud lane.                                                         *)
(***************************************************************************)

\* The driver polls a lane that was started, and a start is answered once.
PolledIsStarted ==
  /\ drv.pc \in Pass \union {"look"} \/ sees.observed \/ drv.ending \in {"returned", "failure", "no report"} =>
       request = "done"
  /\ request = "done" => box # "none"

\* What the driver saw to be gone is gone: the list is asked once it was started.
GoneIsGone ==
  /\ SeenGone => runner # "alive"
  /\ HealthyLaneIsKept

\* Where a driver stands in its run; what a pass has shown is on the host.
Course ==
  /\ drv.ending # "none" => drv.pc \notin Busy
  /\ drv.pc \in Busy => ~receipt.acked
  /\ drv.pc \in Busy \union Cleaning => receipt.exit = "none"
  /\ sees.report => host # "none"
  /\ drv.canary => drv.briefed
  /\ drv.ending = "returned" => host # "none" \/ drv.canary \/ ~drv.briefed

\* A run that was returned from and a stop that was acknowledged leave nothing.
StoppedIsGone ==
  /\ drv.ending = "returned" /\ receipt.acked =>
       box = "gone" /\ runner # "alive" /\ (session => receipt.killError)
  /\ receipt.exit = "ok" => drv.ending = "returned" /\ receipt.acked

Inv == TypeOK /\ PolledIsStarted /\ GoneIsGone /\ Course /\ StoppedIsGone

-----------------------------------------------------------------------------
(* Types. *)

Places == Busy \union Cleaning \union {"over", "killed"}

LEMMA DriverTypes ==
  ASSUME NEW d \in Drivers, NEW pc \in Places, NEW flag \in BOOLEAN
  PROVE  /\ [d EXCEPT !.pc = pc] \in Drivers
         /\ [d EXCEPT !.pc = pc, !.accepted = flag] \in Drivers
         /\ [d EXCEPT !.pc = pc, !.briefed = flag] \in Drivers
         /\ [d EXCEPT !.pc = pc, !.finalized = flag] \in Drivers
         /\ [d EXCEPT !.pc = pc, !.cancelled = "sent"] \in Drivers
BY DEF Drivers, Places

LEMMA CorrectionTypes ==
  ASSUME NEW d \in Drivers, d.corrections < MaxCorrections
  PROVE  [d EXCEPT !.pc = "finalize", !.corrections = @ + 1] \in Drivers
<1>1. d.corrections + 1 \in 0..MaxCorrections
  BY CorrectionsAssumption DEF Drivers
<1> QED
  BY <1>1 DEF Drivers, Busy, Pass

LEMMA LeaveTypes ==
  ASSUME drv \in Drivers, NEW ending \in {"returned"} \union Errors, Leaves(ending)
  PROVE  /\ drv' \in Drivers /\ sees' \in Sights /\ sees' = Nothing
         /\ drv'.pc = "stop" /\ drv'.ending = ending
         /\ drv'.canary = drv.canary /\ drv'.briefed = drv.briefed
<1>1. 0 \in 0..MaxCorrections
  BY CorrectionsAssumption
<1>2. drv' = [drv EXCEPT !.pc = "stop", !.ending = ending, !.accepted = FALSE, !.finalized = FALSE,
                         !.cancelled = "no", !.corrections = 0]
  BY DEF Leaves
<1>3. drv' \in Drivers
  BY <1>1, <1>2 DEF Drivers, Cleaning
<1>4. /\ drv'.pc = "stop" /\ drv'.ending = ending
      /\ drv'.canary = drv.canary /\ drv'.briefed = drv.briefed
  BY <1>2 DEF Drivers
<1>5. sees' = Nothing /\ sees' \in Sights
  BY DEF Leaves, Nothing, Sights, Results
<1> QED
  BY <1>3, <1>4, <1>5

-----------------------------------------------------------------------------
(* What a step of the driver alone may do. *)

\* It goes on with its pass,
Works ==
  /\ drv.pc \in Pass /\ drv'.pc \in Pass \union {"look"} /\ drv' \in Drivers
  /\ drv'.canary = drv.canary /\ drv'.ending = drv.ending /\ drv'.briefed \in {drv.briefed, TRUE}
  /\ sees' \in {sees, Nothing}

\* or leaves its run for a reason.
Abandons ==
  \E ending \in {"returned"} \union Errors :
    /\ drv.pc \in Busy /\ Leaves(ending)
    /\ ending = "returned" => drv.pc \in Pass /\ (sees.report \/ ~drv.briefed)
    /\ ending \in {"failure", "no report"} => drv.pc \in Pass /\ SeenGone

LEMMA AbandonTypes ==
  ASSUME drv \in Drivers, Abandons PROVE drv' \in Drivers /\ sees' \in Sights
BY LeaveTypes DEF Abandons

LEMMA WorkTypes ==
  ASSUME sees \in Sights, Works PROVE drv' \in Drivers /\ sees' \in Sights
<1>1. Nothing \in Sights
  BY DEF Nothing, Sights, Results
<1> QED
  BY <1>1 DEF Works

LEMMA Going ==
  ASSUME drv \in Drivers, drv.pc \in Pass, NEW pc \in Pass \union {"look"}, Goto(pc)
  PROVE  Works
<1>1. drv' = [drv EXCEPT !.pc = pc] /\ sees' = sees /\ pc \in Places
  BY DEF Goto, Places, Busy
<1>2. drv' \in Drivers
  BY <1>1, DriverTypes
<1>3. /\ drv'.pc = pc /\ drv'.canary = drv.canary /\ drv'.ending = drv.ending
      /\ drv'.briefed = drv.briefed
  BY <1>1 DEF Drivers
<1> QED
  BY <1>1, <1>2, <1>3 DEF Works, At, Pass

LEMMA Leaving ==
  ASSUME NEW ending \in {"returned"} \union Errors, drv.pc \in Busy, Leaves(ending),
         ending = "returned" => drv.pc \in Pass /\ (sees.report \/ ~drv.briefed),
         ending \in {"failure", "no report"} => drv.pc \in Pass /\ SeenGone
  PROVE  Abandons
BY DEF Abandons

LEMMA Losing ==
  ASSUME drv.pc \in Busy, Lost PROVE Abandons
<1>1. Leaves("lost") /\ "lost" \in Errors
  BY DEF Lost, Throws, Errors
<1> QED
  BY <1>1, Leaving

LEMMA JudgeWorks == ASSUME TypeOK, Judge PROVE Works \/ Abandons
<1>1. drv \in Drivers /\ drv.pc = "judge" /\ drv.pc \in Pass /\ drv.pc \in Busy
  BY DEF TypeOK, Judge, At, Pass, Busy
<1>2. CASE Leaves("failure") /\ SeenGone
  BY <1>1, <1>2, Leaving DEF Errors
<1>3. CASE Leaves("returned") /\ sees.report
  BY <1>1, <1>3, Leaving DEF Errors
<1>4. CASE Goto("brief")
  BY <1>1, <1>4, Going DEF Pass
<1> QED
  BY <1>2, <1>3, <1>4 DEF Judge, Throws, Returns, Complete

LEMMA BriefWorks == ASSUME TypeOK, ReadsBrief PROVE Works \/ Abandons
<1>1. drv \in Drivers /\ drv.pc = "brief" /\ drv.pc \in Pass /\ drv.pc \in Busy /\ ~drv.briefed
  BY DEF TypeOK, ReadsBrief, At, Pass, Busy
<1>2. CASE Goto("cand")
  BY <1>1, <1>2, Going DEF Pass
<1>3. CASE Leaves("brief")
  BY <1>1, <1>3, Leaving DEF Errors
<1>4. CASE Leaves("returned")
  BY <1>1, <1>4, Leaving DEF Errors
<1>5. CASE Does([drv EXCEPT !.pc = "cand", !.briefed = TRUE])
  <2>1. drv' = [drv EXCEPT !.pc = "cand", !.briefed = TRUE] /\ sees' = sees
    BY <1>5, Zenon DEF Does
  <2>2. drv' \in Drivers
    BY <1>1, <2>1, DriverTypes DEF Places, Busy, Pass
  <2>3. drv'.pc = "cand" /\ drv'.briefed = TRUE /\ drv'.canary = drv.canary /\ drv'.ending = drv.ending
    BY <1>1, <2>1 DEF Drivers
  <2> QED
    BY <1>1, <2>1, <2>2, <2>3 DEF Works, Pass
<1> QED
  BY <1>2, <1>3, <1>4, <1>5 DEF ReadsBrief, Throws, Returns

LEMMA CorrectWorks == ASSUME TypeOK, Corrects PROVE Works \/ Abandons
<1>1. drv \in Drivers /\ drv.pc = "cand" /\ drv.pc \in Pass /\ drv.pc \in Busy
  BY DEF TypeOK, Corrects, At, Pass, Busy
<1>2. CASE Leaves("contract")
  BY <1>1, <1>2, Leaving DEF Errors
<1>3. CASE MayCorrect /\ Does([drv EXCEPT !.pc = "finalize", !.corrections = @ + 1])
  <2>1. drv' = [drv EXCEPT !.pc = "finalize", !.corrections = @ + 1] /\ sees' = sees
    BY <1>3 DEF Does
  <2>2. drv' \in Drivers
    BY <1>1, <1>3, <2>1, CorrectionTypes DEF MayCorrect
  <2>3. /\ drv'.pc = "finalize" /\ drv'.briefed = drv.briefed
        /\ drv'.canary = drv.canary /\ drv'.ending = drv.ending
    BY <1>1, <2>1 DEF Drivers
  <2> QED
    BY <1>1, <2>1, <2>2, <2>3 DEF Works, Pass
<1> QED
  BY <1>2, <1>3 DEF Corrects, Throws

LEMMA AcceptWorks == ASSUME TypeOK, Accepts PROVE Works \/ Abandons
<1>1. drv \in Drivers /\ drv.pc = "cand" /\ drv.pc \in Pass /\ drv.pc \in Busy
  BY DEF TypeOK, Accepts, At, Pass, Busy
<1>2. CASE Does([drv EXCEPT !.pc = "finalize", !.accepted = TRUE])
  <2>1. drv' = [drv EXCEPT !.pc = "finalize", !.accepted = TRUE] /\ sees' = sees
    BY <1>2, Zenon DEF Does
  <2>2. drv' \in Drivers
    BY <1>1, <2>1, DriverTypes DEF Places, Busy, Pass
  <2>3. /\ drv'.pc = "finalize" /\ drv'.briefed = drv.briefed
        /\ drv'.canary = drv.canary /\ drv'.ending = drv.ending
    BY <1>1, <2>1 DEF Drivers
  <2> QED
    BY <1>1, <2>1, <2>2, <2>3 DEF Works, Pass
<1>3. CASE Lost
  BY <1>1, <1>3, Losing
<1>4. CASE Goto("finalize")
  BY <1>1, <1>4, Going DEF Pass
<1> QED
  BY <1>2, <1>3, <1>4 DEF Accepts

LEMMA FinalizeWorks == ASSUME TypeOK, Finalizes PROVE Works
<1>1. drv \in Drivers /\ drv.pc = "finalize" /\ drv.pc \in Pass
  BY DEF TypeOK, Finalizes, At, Pass
<1>2. ASSUME NEW success \in BOOLEAN, Does([drv EXCEPT !.pc = "cancel", !.finalized = success])
      PROVE  Works
  <2>1. drv' = [drv EXCEPT !.pc = "cancel", !.finalized = success] /\ sees' = sees
    BY <1>2, Zenon DEF Does
  <2>2. drv' \in Drivers
    BY <1>1, <2>1, DriverTypes DEF Places, Busy, Pass
  <2>3. /\ drv'.pc = "cancel" /\ drv'.briefed = drv.briefed
        /\ drv'.canary = drv.canary /\ drv'.ending = drv.ending
    BY <1>1, <2>1 DEF Drivers
  <2> QED
    BY <1>1, <2>1, <2>2, <2>3 DEF Works, Pass
<1>3. CASE Goto("cancel")
  BY <1>1, <1>3, Going DEF Pass
<1> QED
  BY <1>2, <1>3 DEF Finalizes

LEMMA CancelWorks == ASSUME TypeOK, Cancels PROVE Works \/ Abandons
<1>1. drv \in Drivers /\ drv.pc = "cancel" /\ drv.pc \in Pass /\ drv.pc \in Busy
  BY DEF TypeOK, Cancels, At, Pass, Busy
<1>2. CASE Does([drv EXCEPT !.pc = "gone", !.cancelled = "sent"])
  <2>1. drv' = [drv EXCEPT !.pc = "gone", !.cancelled = "sent"] /\ sees' = sees
    BY <1>2, Zenon DEF Does
  <2>2. drv' \in Drivers
    BY <1>1, <2>1, DriverTypes DEF Places, Busy, Pass
  <2>3. /\ drv'.pc = "gone" /\ drv'.briefed = drv.briefed
        /\ drv'.canary = drv.canary /\ drv'.ending = drv.ending
    BY <1>1, <2>1 DEF Drivers
  <2> QED
    BY <1>1, <2>1, <2>2, <2>3 DEF Works, Pass
<1>3. CASE Goto("gone")
  BY <1>1, <1>3, Going DEF Pass
<1>4. CASE Leaves("grace")
  BY <1>1, <1>4, Leaving DEF Errors
<1> QED
  BY <1>2, <1>3, <1>4 DEF Cancels, Throws

LEMMA PassWorks == ASSUME TypeOK, EndsPass PROVE Works \/ Abandons
<1>1. drv \in Drivers /\ drv.pc = "gone" /\ drv.pc \in Pass /\ drv.pc \in Busy
  BY DEF TypeOK, EndsPass, At, Pass, Busy
<1>2. CASE Leaves("no report") /\ SeenGone
  BY <1>1, <1>2, Leaving DEF Errors
<1>3. CASE drv' = [drv EXCEPT !.pc = "look"] /\ sees' = Nothing
  <2>1. drv' \in Drivers
    BY <1>1, <1>3, DriverTypes DEF Places, Busy
  <2>2. /\ drv'.pc = "look" /\ drv'.briefed = drv.briefed
        /\ drv'.canary = drv.canary /\ drv'.ending = drv.ending
    BY <1>1, <1>3 DEF Drivers
  <2> QED
    BY SMTT(30), <1>1, <1>3, <2>1, <2>2 DEF Works, Pass
<1> QED
  BY <1>2, <1>3 DEF EndsPass, Throws

LEMMA CommandWorks == ASSUME TypeOK, Command PROVE Works \/ Abandons
<1>1. ASSUME NEW pc \in Pass, NEW next \in Pass, NEW applies, Passes(pc, applies, next) PROVE Works
  BY <1>1, Going DEF TypeOK, Passes, At
<1>2. ASSUME NEW pc \in Pass, NEW applies, CommandLost(pc, applies) PROVE Abandons
  BY <1>2, Losing DEF CommandLost, At, Busy
<1>3. {"brief", "cand", "finalize", "cancel", "gone"} \subseteq Pass
  BY DEF Pass
<1> QED
  BY <1>1, <1>2, <1>3, BriefWorks, CorrectWorks, AcceptWorks, FinalizeWorks, CancelWorks, PassWorks
  DEF Command

-----------------------------------------------------------------------------
(* The invariant. *)

LEMMA InitLane == Init => Inv
<1> SUFFICES ASSUME Init PROVE Inv
  OBVIOUS
<1>1. drv.pc = "start" /\ drv.ending = "none" /\ (drv.canary => drv.briefed) /\ drv \in Drivers
  <2>1. 0 \in 0..MaxCorrections
    BY CorrectionsAssumption
  <2> QED
    BY <2>1 DEF Init, Driver, Drivers, Busy
<1>2. TypeOK
  BY <1>1 DEF Init, LaneInit, TypeOK, Sights, Nothing, Results
<1> QED
  BY <1>1, <1>2 DEF Init, Inv, PolledIsStarted, GoneIsGone, HealthyLaneIsKept, SeenGone, Course,
     StoppedIsGone, Nothing, Busy, Pass

\* What a step of the driver alone leaves as it is.
Beside == UNCHANGED <<report, request, box, runner, session, late, host, receipt>>

LEMMA BesideTypes ==
  ASSUME TypeOK, Beside, drv' \in Drivers, sees' \in Sights PROVE TypeOK'
BY DEF TypeOK, Beside

LEMMA WorkKeeps == ASSUME Inv, Works, Beside PROVE Inv'
<1> USE DEF Inv, Beside
<1>1. TypeOK'
  BY WorkTypes, BesideTypes DEF TypeOK
<1>2. PolledIsStarted'
  BY DEF Works, PolledIsStarted, Nothing
<1>3. /\ drv.pc \in Busy /\ drv'.ending = drv.ending /\ drv'.canary = drv.canary
      /\ drv'.briefed \in {drv.briefed, TRUE} /\ (SeenGone' => SeenGone) /\ (sees'.report => sees.report)
  <2>1. sees' = sees \/ (~sees'.observed /\ ~sees'.report)
    BY DEF Works, Nothing
  <2> QED
    BY <2>1 DEF Works, SeenGone, Busy
<1>4. GoneIsGone'
  BY <1>3 DEF GoneIsGone, HealthyLaneIsKept
<1>5. drv.ending = "none" /\ drv'.pc \in Busy
  BY <1>3 DEF Works, Course, Busy
<1>6. Course'
  BY <1>3, <1>5 DEF Course
<1>7. StoppedIsGone'
  BY DEF Works, StoppedIsGone
<1> QED
  BY <1>1, <1>2, <1>4, <1>6, <1>7

LEMMA AbandonKeeps == ASSUME Inv, Abandons, Beside PROVE Inv'
<1> USE DEF Inv, Beside
<1> PICK ending \in {"returned"} \union Errors :
      /\ drv.pc \in Busy /\ Leaves(ending)
      /\ ending = "returned" => drv.pc \in Pass /\ (sees.report \/ ~drv.briefed)
      /\ ending \in {"failure", "no report"} => drv.pc \in Pass /\ SeenGone
  BY DEF Abandons
<1>1. /\ drv' \in Drivers /\ sees' \in Sights /\ sees' = Nothing
      /\ drv'.pc = "stop" /\ drv'.ending = ending
      /\ drv'.canary = drv.canary /\ drv'.briefed = drv.briefed
  BY LeaveTypes DEF TypeOK
<1>2. TypeOK'
  BY <1>1, BesideTypes
<1>3. PolledIsStarted'
  BY <1>1 DEF PolledIsStarted, Nothing, Pass
<1>4. GoneIsGone'
  BY <1>1 DEF GoneIsGone, HealthyLaneIsKept, SeenGone, Nothing
<1>5. Course'
  BY <1>1 DEF Course, Nothing, Busy, Pass
<1>6. StoppedIsGone'
  BY <1>1 DEF StoppedIsGone, Course
<1> QED
  BY <1>2, <1>3, <1>4, <1>5, <1>6

LEMMA DriveKeeps ==
  ASSUME Inv, Judge \/ Command \/ LookFails \/ Deadline \/ Interrupt PROVE Inv'
<1>1. Beside
  BY DEF Beside, Judge, Command, ReadsBrief, Corrects, Accepts, Accept, Finalizes, Cancels, EndsPass, Passes,
     CommandLost, LookFails, Deadline, Interrupt, DriverOnly, BoxKeeps, LaneKeeps, laneVars
<1>2. CASE Judge \/ Command
  BY <1>1, <1>2, JudgeWorks, CommandWorks, WorkKeeps, AbandonKeeps DEF Inv
<1>3. CASE LookFails
  BY <1>1, <1>3, Losing, AbandonKeeps DEF LookFails, At, Busy
<1>4. CASE Deadline
  BY <1>1, <1>4, Leaving, AbandonKeeps DEF Deadline, TimeIsUp, At, Busy, Throws, Errors
<1>5. CASE Interrupt
  BY <1>1, <1>5, Leaving, AbandonKeeps DEF Interrupt, Throws, Errors
<1> QED
  BY <1>2, <1>3, <1>4, <1>5

LEMMA AnswerKeeps == ASSUME Inv, StartAnswered PROVE Inv'
<1>1. Beside /\ drv.pc = "start" /\ drv \in Drivers
  BY DEF Beside, StartAnswered, At, DriverOnly, BoxKeeps, LaneKeeps, laneVars, Inv, TypeOK
<1>2. CASE Lost
  BY <1>1, <1>2, Losing, AbandonKeeps DEF Busy
<1>3. CASE request = "done" /\ Does([drv EXCEPT !.started = TRUE, !.pc = IF drv.canary THEN "stop" ELSE "look",
                                                !.ending = IF drv.canary THEN "returned" ELSE @])
  <2> DEFINE pc     == IF drv.canary THEN "stop" ELSE "look"
             ending == IF drv.canary THEN "returned" ELSE drv.ending
  <2>1. pc \in {"stop", "look"} /\ ending \in {"none", "returned"} \union Errors
    BY <1>1 DEF Drivers
  <2>2. drv' = [drv EXCEPT !.started = TRUE, !.pc = pc, !.ending = ending] /\ sees' = sees
    BY <1>3 DEF Does
  <2> HIDE DEF pc, ending
  <2>3. drv' \in Drivers
    BY <1>1, <2>1, <2>2 DEF Drivers, Busy, Cleaning
  <2>4. /\ drv'.pc = pc /\ drv'.ending = ending
        /\ drv'.canary = drv.canary /\ drv'.briefed = drv.briefed
    BY <1>1, <2>2 DEF Drivers
  <2>5. /\ TypeOK' /\ PolledIsStarted'
    BY <1>1, <1>3, <2>1, <2>2, <2>3, <2>4, BesideTypes DEF Inv, TypeOK, PolledIsStarted, Beside
  <2>6. drv.ending = "none" /\ ~receipt.acked /\ receipt.exit = "none"
    BY <1>1 DEF Inv, Course, Busy
  <2>7. /\ ending \in {"none", "returned"} /\ (ending # "none" => drv.canary /\ pc = "stop")
    BY <2>6 DEF pc, ending
  <2>8. GoneIsGone'
    BY <1>1, <2>2, <2>4, <2>7 DEF Inv, GoneIsGone, HealthyLaneIsKept, SeenGone, Beside
  <2>9. Course'
    BY <1>1, <2>1, <2>2, <2>4, <2>6, <2>7 DEF Inv, Course, Busy, Pass, Beside
  <2>10. StoppedIsGone'
    BY <1>1, <2>6, <2>4 DEF Inv, StoppedIsGone, Beside
  <2> QED
    BY <2>5, <2>8, <2>9, <2>10 DEF Inv
<1> QED
  BY <1>2, <1>3 DEF StartAnswered

LEMMA LookKeeps == ASSUME Inv, Look PROVE Inv'
<1>1. /\ drv \in Drivers /\ drv.pc = "look" /\ drv' = [drv EXCEPT !.pc = "list"] /\ sees' \in Pictures
      /\ host' = IF sees'.report THEN report ELSE host
      /\ UNCHANGED <<report, request, box, runner, session, late, receipt>>
  BY DEF Look, At, LaneKeeps, laneVars, BoxKeeps, Inv, TypeOK
<1>2. drv' \in Drivers
  BY <1>1, DriverTypes DEF Places, Busy, Pass
<1>3. /\ drv'.pc = "list" /\ drv'.ending = drv.ending
      /\ drv'.canary = drv.canary /\ drv'.briefed = drv.briefed
  BY <1>1 DEF Drivers
<1>4. sees' \in Sights /\ ~sees'.observed /\ ~sees'.alive /\ (sees'.report => report # "none")
  BY <1>1 DEF Pictures, Sights
<1>5. host' \in {"none", "partial", "complete"} /\ (host # "none" => host' # "none")
  BY <1>1, <1>4 DEF Inv, TypeOK
<1>6. TypeOK' /\ PolledIsStarted'
  BY <1>1, <1>2, <1>3, <1>4, <1>5 DEF Inv, TypeOK, PolledIsStarted, Pass
<1>7. GoneIsGone' /\ StoppedIsGone'
  BY <1>1, <1>3, <1>4 DEF Inv, GoneIsGone, HealthyLaneIsKept, SeenGone, StoppedIsGone
<1>8. Course'
  BY <1>1, <1>3, <1>4, <1>5 DEF Inv, Course, Busy, Pass
<1> QED
  BY <1>6, <1>7, <1>8 DEF Inv

LEMMA ListKeeps == ASSUME Inv, List PROVE Inv'
<1>1. /\ drv \in Drivers /\ sees \in Sights /\ drv.pc = "list" /\ drv' = [drv EXCEPT !.pc = "judge"] /\ Beside
  BY DEF List, At, DriverOnly, LaneKeeps, laneVars, BoxKeeps, Beside, Inv, TypeOK
<1>2. drv' \in Drivers
  BY <1>1, DriverTypes DEF Places, Busy, Pass
<1>3. /\ drv'.pc = "judge" /\ drv'.ending = drv.ending
      /\ drv'.canary = drv.canary /\ drv'.briefed = drv.briefed
  BY <1>1 DEF Drivers
<1>4. /\ sees' \in Sights /\ sees'.report = sees.report
      /\ sees' = sees \/ (sees'.observed /\ (sees'.alive <=> runner = "alive"))
  BY <1>1 DEF List, Sights
<1>5. TypeOK' /\ PolledIsStarted'
  BY <1>1, <1>2, <1>3, <1>4, BesideTypes DEF Inv, PolledIsStarted, Pass, Beside
<1>6. GoneIsGone' /\ StoppedIsGone'
  BY <1>1, <1>3, <1>4 DEF Inv, GoneIsGone, HealthyLaneIsKept, SeenGone, StoppedIsGone, Beside
<1>7. Course'
  BY <1>1, <1>3, <1>4 DEF Inv, Course, Busy, Pass, Beside
<1> QED
  BY <1>5, <1>6, <1>7 DEF Inv

\* The Worker, the lane itself and the clock leave the driver and its receipt alone.
LEMMA AroundKeeps ==
  ASSUME Inv, Worker \/ Send \/ Inside \/ RunnerExits \/ DeadlinePasses PROVE Inv'
<1>1. UNCHANGED <<drv, sees, host, receipt>>
  BY DEF Worker, StartFails, Fingerprint, PutSession, StartProcess, StartCut, Send, Inside, RunnerExits,
     DeadlinePasses, cloudVars
<1>2. /\ request' \in {"sent", "session", "process", "done", "failed", "cut"} \union {request}
      /\ request = "done" => /\ request' = "done" /\ box' = box /\ session' = session
                             /\ runner' \in {runner, "exited"}
      /\ request' = "done" => box' # "none"
      /\ box' \in {box, "up", "gone"} /\ runner' \in {runner, "alive", "exited"}
      /\ session' \in {session, TRUE} /\ late' \in {late, TRUE}
  BY DEF Worker, StartFails, Fingerprint, PutSession, StartProcess, StartCut, Send, Inside, RunnerExits,
     DeadlinePasses, cloudVars, Destroyed, Inv, PolledIsStarted
<1>3. report' \in {report, "partial", "complete"}
  BY DEF Worker, StartFails, Fingerprint, PutSession, StartProcess, StartCut, Send, Inside, RunnerExits,
     DeadlinePasses, LaneKeeps, laneVars, Opens, Closes
<1>4. TypeOK'
  <2>1. request' \in {"none", "sent", "session", "process", "done", "failed", "cut"}
    BY <1>2 DEF Inv, TypeOK
  <2>2. box' \in {"none", "up", "gone"} /\ runner' \in {"none", "alive", "exited"}
    BY <1>2 DEF Inv, TypeOK
  <2>3. session' \in BOOLEAN /\ late' \in BOOLEAN
    BY <1>2 DEF Inv, TypeOK
  <2>4. report' \in {"none", "partial", "complete"}
    BY <1>3 DEF Inv, TypeOK
  <2> QED
    BY <1>1, <2>1, <2>2, <2>3, <2>4 DEF Inv, TypeOK
<1>5. PolledIsStarted'
  BY <1>1, <1>2 DEF Inv, PolledIsStarted
<1>6. GoneIsGone'
  BY <1>1, <1>2 DEF Inv, GoneIsGone, HealthyLaneIsKept, SeenGone, PolledIsStarted
<1>7. Course'
  BY <1>1 DEF Inv, Course
<1>8. StoppedIsGone'
  <2>1. drv.ending = "returned" => request = "done"
    BY DEF Inv, PolledIsStarted
  <2> QED
    BY <1>1, <1>2, <2>1 DEF Inv, StoppedIsGone
<1> QED
  BY <1>4, <1>5, <1>6, <1>7, <1>8 DEF Inv

LEMMA CleanupKeeps ==
  ASSUME Inv, Stop \/ StopNothing \/ StopLost \/ WriteReceipt \/ Killed PROVE Inv'
<1>1. PICK pc \in {"receipt", "over", "killed"} : Goto(pc)
  BY DEF Stop, StopNothing, StopLost, WriteReceipt, Killed
<1>2. /\ drv \in Drivers /\ sees \in Sights /\ drv' = [drv EXCEPT !.pc = pc] /\ sees' = sees
  BY <1>1 DEF Inv, TypeOK, Goto
<1>3. drv' \in Drivers
  BY <1>2, DriverTypes DEF Places, Cleaning
<1>4. /\ drv'.pc = pc /\ drv'.ending = drv.ending
      /\ drv'.canary = drv.canary /\ drv'.briefed = drv.briefed
  BY <1>2 DEF Drivers
<1>5. CASE Stop
  <2>1. /\ UNCHANGED <<report, request, late>> /\ Destroyed /\ session' \in {FALSE, session}
        /\ \/ receipt' = [receipt EXCEPT !.acked = (box' = "gone"), !.killError = session']
           \/ receipt' = receipt
        /\ host' \in {host, IF report = "none" THEN host ELSE report} /\ drv.pc = "stop"
    BY <1>5 DEF Stop, LaneKeeps, laneVars, At
  <2>2. /\ box' \in {box, "gone"} /\ runner' \in {runner, "exited"}
        /\ box' = "gone" => runner' # "alive"
    BY <2>1 DEF Destroyed
  <2>3. session' \in BOOLEAN
    BY <2>1 DEF Inv, TypeOK
  <2>4. /\ receipt' \in [exit : {"none", "ok", "failed"}, acked : BOOLEAN, killError : BOOLEAN]
        /\ receipt'.exit = receipt.exit
        /\ \/ receipt' = receipt
           \/ (receipt'.acked => box' = "gone") /\ receipt'.killError = session'
    BY <2>1, <2>3 DEF Inv, TypeOK
  <2>5. host' \in {"none", "partial", "complete"} /\ (host # "none" => host' # "none")
    BY <2>1 DEF Inv, TypeOK
  <2>6. TypeOK' /\ PolledIsStarted'
    BY <1>2, <1>3, <1>4, <2>1, <2>2, <2>3, <2>4, <2>5 DEF Inv, TypeOK, PolledIsStarted, Pass
  <2>7. GoneIsGone'
    BY <1>2, <1>4, <2>1, <2>2 DEF Inv, GoneIsGone, HealthyLaneIsKept, SeenGone
  <2>9. Course'
    <3>1. receipt.exit = "none" /\ drv'.pc \notin Busy
      BY <1>5, <1>4, <2>1 DEF Inv, Course, Cleaning, Stop, Goto, Busy, Pass
    <3> QED
      BY <1>2, <1>4, <2>4, <2>5, <3>1 DEF Inv, Course
  <2>8. StoppedIsGone'
    <3>1. drv.ending = "returned" /\ receipt'.acked =>
            box' = "gone" /\ runner' # "alive" /\ (session' => receipt'.killError)
      <4>1. CASE receipt' = receipt
        BY <4>1, <2>1, <2>2, <2>3 DEF Inv, StoppedIsGone
      <4>2. CASE (receipt'.acked => box' = "gone") /\ receipt'.killError = session'
        BY <4>2, <2>2
      <4> QED
        BY <4>1, <4>2, <2>4
    <3>2. receipt'.exit # "ok"
      BY <2>1, <2>4 DEF Inv, Course, Cleaning
    <3> QED
      BY <1>4, <3>1, <3>2 DEF StoppedIsGone
  <2> QED
    BY <2>6, <2>7, <2>8, <2>9 DEF Inv
<1>6. CASE StopNothing \/ StopLost \/ WriteReceipt \/ Killed
  <2>1. UNCHANGED <<report, request, box, runner, session, late, host>>
    BY <1>6 DEF StopNothing, StopLost, WriteReceipt, Killed, DriverOnly, LaneKeeps, laneVars, BoxKeeps
  <2>2. /\ receipt' \in [exit : {"none", "ok", "failed"}, acked : BOOLEAN, killError : BOOLEAN]
        /\ \/ receipt' = receipt
           \/ StopNothing /\ receipt'.exit = receipt.exit
           \/ /\ receipt'.acked = receipt.acked /\ receipt'.killError = receipt.killError
              /\ receipt'.exit = "ok" => drv.ending = "returned" /\ receipt.acked
    BY <1>6 DEF StopNothing, StopLost, WriteReceipt, Killed, DriverOnly, Inv, TypeOK
  <2>3. StopNothing => box = "none"
    BY DEF StopNothing
  <2>9. drv'.pc \in Cleaning => receipt'.exit = "none"
    <3>1. CASE StopNothing \/ StopLost
      <4>1. drv.pc \in Cleaning /\ receipt'.exit = receipt.exit
        BY <3>1, <2>2 DEF StopNothing, StopLost, DriverOnly, At, Cleaning, Inv, TypeOK
      <4> QED
        BY <4>1 DEF Inv, Course
    <3>2. CASE WriteReceipt \/ Killed
      <4>1. drv'.pc \in {"over", "killed"}
        BY <3>2, <1>2 DEF WriteReceipt, Killed, Goto, Inv, TypeOK, Drivers
      <4> QED
        BY <4>1 DEF Cleaning
    <3> QED
      BY <1>6, <3>1, <3>2
  <2>4. TypeOK'
    BY <1>2, <1>3, <2>1, <2>2 DEF Inv, TypeOK
  <2>7. PolledIsStarted'
    BY <1>1, <1>2, <1>4, <2>1 DEF Inv, PolledIsStarted, Pass
  <2>5. GoneIsGone'
    BY <1>2, <1>4, <2>1 DEF Inv, GoneIsGone, HealthyLaneIsKept, SeenGone
  <2>8. Course'
    <3>1. drv'.pc \notin Busy
      BY <1>4 DEF Busy, Pass
    <3> QED
      BY <1>2, <1>4, <2>1, <2>9, <3>1 DEF Inv, Course
  <2>6. StoppedIsGone'
    BY <1>4, <2>1, <2>2, <2>3 DEF Inv, StoppedIsGone, PolledIsStarted
  <2> QED
    BY <2>4, <2>5, <2>6, <2>7, <2>8 DEF Inv
<1> QED
  BY <1>5, <1>6

LEMMA StepLane == ASSUME Inv, [Next]_vars PROVE Inv'
<1>1. CASE Next
  BY <1>1, DriveKeeps, AnswerKeeps, LookKeeps, ListKeeps, AroundKeeps, CleanupKeeps DEF Next, Drive
<1>2. CASE UNCHANGED vars
  <2>1. Beside /\ drv' = drv /\ sees' = sees
    BY <1>2 DEF vars, laneVars, cloudVars, Beside
  <2>2. TypeOK' /\ PolledIsStarted'
    BY <2>1, BesideTypes DEF Inv, TypeOK, PolledIsStarted, Beside
  <2>3. GoneIsGone' /\ StoppedIsGone'
    BY <2>1 DEF Inv, GoneIsGone, HealthyLaneIsKept, SeenGone, StoppedIsGone, Beside
  <2>4. Course'
    BY <2>1 DEF Inv, Course, Beside
  <2> QED
    BY <2>2, <2>3, <2>4 DEF Inv
<1> QED
  BY <1>1, <1>2

LEMMA LaneInvariant == Spec => []Inv
BY InitLane, StepLane, PTL DEF Spec

\* The types of the driver, its picture, the sandbox and the receipt.
THEOREM CloudLaneTypes == Spec => []TypeOK
BY LaneInvariant, PTL DEF Inv

\* Whatever requests are lost, a driver that exits with 0 has the report of a
\* lane that had work, and left no sandbox and no process behind.
THEOREM CleanExits == Spec => []CleanExitIsWhole
<1>1. Inv => CleanExitIsWhole
  BY DEF Inv, StoppedIsGone, Course, CleanExitIsWhole
<1> QED
  BY <1>1, LaneInvariant, PTL

\* However old its picture of the lane, a driver only ends as failed one that
\* had ended.
THEOREM HealthyLanesKept == Spec => []HealthyLaneIsKept
<1>1. Inv => HealthyLaneIsKept
  BY DEF Inv, GoneIsGone
<1> QED
  BY <1>1, LaneInvariant, PTL
===============================================================================
