-------------------------- MODULE ReviewerLanesProofs --------------------------
(***************************************************************************)
(* What holds of a swarm run for any number of reviewers, files and        *)
(* relaunches, and any limit on the lanes that run at once.                *)
(***************************************************************************)
EXTENDS ReviewerLanes, SequenceTheorems, TLAPS

RowStatus == {"open", "relaunched"} \union Verdicts

\* Before a row is closed it is open, and those before it were relaunched; the
\* verifier's last one may say less than its lane does.
RowsSound(m, b, l, x, r) ==
  /\ r \in Seq(RowStatus)
  /\ m # "packed" => x.launch <= Relaunches + 1 /\ Len(r) = x.launch
  /\ x.pc = "asking" => m = "packed"
  /\ x.pc = "todo" => r = <<>>
  /\ x.pc \notin {"todo", "done"} => Len(r) > 0
  /\ x.pc = "backoff" => x.launch <= Relaunches /\ m # "packed"
  /\ \A k \in 1..Len(r) : k # Len(r) => r[k] = "relaunched"
  /\ x.pc = "backoff" => r[Len(r)] = "relaunched"
  /\ x.pc = "done" /\ Len(r) > 0 =>
       \/ r[Len(r)] = x.status
       \/ l = "verifier" /\ b = "null" /\ r[Len(r)] = "not_run" /\ x.status = "cancelled"

\* A terminal that was opened is recorded before its driver is sent.
HandleHeld(m, l, x, E, D) ==
  m = "orca" =>
    /\ x.pc = "recording" => <<l, x.launch>> \in E
    /\ x.pc \in {"sending", "running"} => <<l, x.launch>> \in D

\* A launch that ended well left nothing unknown; one that did not complete is
\* not asked what it found.
EndSound(x) ==
  /\ x.pc \in {"todo", "opening", "recording", "sending", "running", "asking"} => ~x.unknown
  /\ x.pc \in {"settled", "backoff"} => (x.end.ok => ~x.unknown)
  /\ x.pc = "todo" => x.launch = 0 /\ x.end = NoEnd
  /\ x.status = "none" <=> x.pc # "done"
  /\ x.status = "completed" => x.end.ok /\ x.end.answer \in Whole /\ ~x.unknown
  /\ x.status # "completed" /\ x.pc = "done" => x.end = NoEnd

Sound(m, b, l, x, r, E, D) ==
  x \in LaneStates /\ RowsSound(m, b, l, x, r) /\ HandleHeld(m, l, x, E, D) /\ EndSound(x)

LanesSound == lane \in [Lanes -> LaneStates] /\ rows \in [Lanes -> Seq(RowStatus)]
              /\ \A l \in Lanes : Sound(mode, brief, l, lane[l], rows[l], entries, disk)

MainTypes ==
  /\ mode \in {"sandbox", "orca", "packed"}
  /\ main \in {"prepare", "lanes", "verify", "unneeded", "unruled", "receipt", "over", "threw"}
  /\ abort \in {"none", "interrupted", "deadline"} /\ refused \subseteq Lanes
  /\ brief \in {"none", "null", "ids"} /\ disk \subseteq entries /\ broken \subseteq {"sessions", "terminals"}
  /\ receipt \in {"none", "completed", "partial", "failed"}
  /\ mode # "packed" => refused = {}
  /\ main \in {"prepare", "lanes"} => brief = "none"

\* Where the lanes are, by where main is.
MainInStep ==
  LET verifier == lane["verifier"].pc
  IN /\ main = "prepare" => \A l \in Lanes : lane[l].pc = "todo"
     /\ main \in {"verify", "unneeded", "unruled", "receipt", "over"} => \A l \in Reviewers : lane[l].pc = "done"
     /\ main \in {"receipt", "over"} => verifier = "done"
     /\ main \in {"lanes", "unneeded", "unruled"} => verifier \notin {"done", "backoff"}
     /\ main \in {"lanes", "unneeded", "unruled"} /\ mode # "sandbox" => verifier = "todo"

\* An idle verifier whose row was closed: as not run, or as cancelled by an abort.
ClosedUnruled(r) ==
  /\ lane["verifier"].pc = "settled" /\ brief = "null" /\ Len(r) > 0
  /\ r[Len(r)] = "not_run" \/ (r[Len(r)] = "cancelled" /\ abort # "none")
IdleSound ==
  /\ main = "unneeded" => brief = "null"
  /\ main = "unruled" => ClosedUnruled(rows["verifier"])

\* What the receipt says of the files and the candidates.
ReceiptSound ==
  receipt = "completed" =>
    /\ main = "over"
    /\ \A file \in Files : \E l \in Reviewers : file \in plan[l] /\ lane[l].status = "completed"
    /\ (\E l \in Reviewers : lane[l].end.answer = "found") => lane["verifier"].status = "completed"

Inv == MainTypes /\ LanesSound /\ MainInStep /\ IdleSound /\ ReceiptSound

-----------------------------------------------------------------------------
(* Records. *)

\* Every end a launch may have is of the type a lane keeps.
LEMMA EndsTyped ==
  /\ NoEnd \in EndStates /\ ~NoEnd.ok
  /\ End(FALSE, "failed", FALSE, "bad") \in EndStates
  /\ Answered \union Failures \union {Unused} \subseteq EndStates
<1>1. Answered \union Failures \subseteq EndStates
  BY DEF Answered, Failures
<1>2. NoEnd \in EndStates /\ Unused \in EndStates /\ End(FALSE, "failed", FALSE, "bad") \in EndStates
  BY DEF NoEnd, Unused, End, EndStates
<1> QED BY <1>1, <1>2 DEF NoEnd, End

-----------------------------------------------------------------------------
(* A step of one lane. *)

\* The other lanes' records, rows and handles stay sound when one lane moves.
LEMMA LaneMoves ==
  ASSUME LanesSound, NEW l \in Lanes, NEW y, NEW s,
         lane' = [lane EXCEPT ![l] = y], rows' = [rows EXCEPT ![l] = s], mode' = mode, brief' = brief \/ brief = "none",
         entries \subseteq entries', disk \subseteq disk',
         Sound(mode, brief', l, y, s, entries', disk')
  PROVE  LanesSound'
<1>1. y \in LaneStates /\ s \in Seq(RowStatus)
  BY DEF Sound, RowsSound
<1>2. lane' \in [Lanes -> LaneStates] /\ rows' \in [Lanes -> Seq(RowStatus)]
  BY <1>1 DEF LanesSound
<1>3. ASSUME NEW k \in Lanes PROVE Sound(mode', brief', k, lane'[k], rows'[k], entries', disk')
  <2>1. CASE k = l
    BY <2>1 DEF LanesSound
  <2>2. CASE k # l
    <3>1. lane'[k] = lane[k] /\ rows'[k] = rows[k]
      BY <2>2 DEF LanesSound
    <3>2. Sound(mode, brief, k, lane[k], rows[k], entries, disk)
      BY DEF LanesSound
    <3>3. Sound(mode, brief', k, lane[k], rows[k], entries', disk')
      BY <3>2 DEF Sound, HandleHeld, RowsSound
    <3> QED BY <3>1, <3>3
  <2> QED BY <2>1, <2>2
<1> QED BY <1>2, <1>3 DEF LanesSound

\* Where main is agrees with where the lanes are, and there is no receipt yet.
LEMMA LaneStep ==
  ASSUME Inv, NEW l \in Lanes, NEW y, NEW s,
         lane' = [lane EXCEPT ![l] = y], rows' = [rows EXCEPT ![l] = s],
         UNCHANGED <<mode, plan, refused, main, brief, receipt>>,
         entries \subseteq entries', disk \subseteq disk', disk' \subseteq entries',
         abort' \in {"none", "interrupted", "deadline"}, broken' \subseteq {"sessions", "terminals"},
         Sound(mode, brief, l, y, s, entries', disk'),
         main \notin {"over", "threw"}, lane[l].pc # "done", y.pc # "todo",
         lane[l].pc = "todo" => l \in Reviewers /\ main = "lanes", lane[l].pc = "settled" => Turn(l),
         l = "verifier" /\ y.pc \in {"done", "backoff"} => main = "verify"
  PROVE  Inv'
<1>0. "verifier" \in Lanes /\ Reviewers \subseteq Lanes /\ "verifier" \notin Reviewers
  BY LanesAssumption DEF Lanes
<1>1. MainTypes'
  BY DEF Inv, MainTypes
<1>2. LanesSound'
  BY LaneMoves DEF Inv
<1>3. /\ \A k \in Lanes : k # l => lane'[k] = lane[k]
      /\ lane'[l] = y
  BY DEF Inv, LanesSound
<1>4. MainInStep'
  <2>1. main # "prepare"
    BY DEF Inv, MainInStep
  <2>2. main \in {"verify", "unneeded", "unruled", "receipt", "over"} =>
          l = "verifier" /\ \A k \in Reviewers : lane'[k].pc = "done"
    BY <1>0, <1>3 DEF Inv, MainInStep, Lanes
  <2>3. main # "receipt"
    BY <1>0, <2>2 DEF Inv, MainInStep
  <2>4. main \in {"lanes", "unneeded", "unruled"} => lane'["verifier"].pc \notin {"done", "backoff"}
    BY <1>0, <1>3 DEF Inv, MainInStep
  <2>5. main \in {"lanes", "unneeded", "unruled"} /\ mode # "sandbox" => lane'["verifier"].pc = "todo"
    BY <1>0, <1>3 DEF Inv, MainInStep
  <2> QED BY <2>1, <2>2, <2>3, <2>4, <2>5 DEF MainInStep
<1>5. ReceiptSound'
  BY DEF Inv, ReceiptSound
<1>6. IdleSound'
  <2>1. main # "unruled"
    BY <1>0 DEF Inv, MainInStep, IdleSound, ClosedUnruled, Turn, Lanes
  <2> QED BY <2>1 DEF Inv, IdleSound
<1> QED BY <1>1, <1>2, <1>4, <1>5, <1>6 DEF Inv

\* What is known of a lane by where it is.
LEMMA Known ==
  ASSUME Inv, NEW l \in Lanes
  PROVE  /\ lane[l] \in LaneStates /\ rows[l] \in Seq(RowStatus)
         /\ RowsSound(mode, brief, l, lane[l], rows[l]) /\ HandleHeld(mode, l, lane[l], entries, disk) /\ EndSound(lane[l])
         /\ lane = [lane EXCEPT ![l] = lane[l]] /\ rows = [rows EXCEPT ![l] = rows[l]]
         /\ disk \subseteq entries /\ broken \subseteq {"sessions", "terminals"}
         /\ abort \in {"none", "interrupted", "deadline"} /\ mode \in {"sandbox", "orca", "packed"}
         /\ "verifier" \in Lanes
BY DEF Inv, LanesSound, Sound, MainTypes, Lanes

\* A row is open while its launch is, so a lane past "todo" has one.
LEMMA RowsStay ==
  ASSUME NEW m, NEW b, NEW l, NEW x, NEW y, NEW r, RowsSound(m, b, l, x, r), y.launch = x.launch, y.status = x.status,
         x.pc \notin {"todo", "backoff", "done"}, y.pc \notin {"todo", "asking", "backoff", "done"}
  PROVE  RowsSound(m, b, l, y, r)
BY DEF RowsSound

\* A lane that goes on within its launch: its rows stay, and it is no driver's yet.
LEMMA WithinLaunch ==
  ASSUME Inv, NEW l \in Lanes, NEW y \in LaneStates,
         lane' = [lane EXCEPT ![l] = y], UNCHANGED rows, LaneOnly,
         y.launch = lane[l].launch, y.status = lane[l].status,
         lane[l].pc \notin {"todo", "settled", "backoff", "done"}, y.pc \notin {"todo", "asking", "backoff", "done"},
         main \notin {"over", "threw"},
         entries \subseteq entries', disk \subseteq disk', disk' \subseteq entries',
         abort' \in {"none", "interrupted", "deadline"}, broken' \subseteq {"sessions", "terminals"},
         HandleHeld(mode, l, y, entries', disk'), EndSound(y)
  PROVE  Inv'
<1>1. RowsSound(mode, brief, l, y, rows[l])
  BY Known, RowsStay
<1>2. Sound(mode, brief, l, y, rows[l], entries', disk')
  BY <1>1 DEF Sound
<1>3. rows' = [rows EXCEPT ![l] = rows[l]]
  BY Known
<1> QED BY <1>2, <1>3, LaneStep DEF LaneOnly, given

-----------------------------------------------------------------------------
(* A launch. *)

LEMMA AsksKeeps == ASSUME Inv, NEW l \in Lanes, Asks(l) PROVE Inv'
<1> USE Known
<1>0. lane[l] \in LaneStates
  OBVIOUS
<1>1. lane[l].pc = "asking" /\ main \notin {"over", "threw"} /\ ~lane[l].unknown
  BY DEF Asks, At, EndSound
<1>2. UNCHANGED <<rows, entries, disk, broken, abort>> /\ LaneOnly
  BY DEF Asks, Ledgers
<1>3. ASSUME NEW e \in Answered \union Failures \union {Unused}, Settles(l, e) PROVE Inv'
  <2> DEFINE y == [lane[l] EXCEPT !.pc = "settled", !.end = e]
  <2>1. y \in LaneStates /\ y.pc = "settled" /\ y.unknown = lane[l].unknown
        /\ y.launch = lane[l].launch /\ y.status = lane[l].status
    BY ONLY <1>0, EndsTyped DEF LaneStates
  <2>2. lane' = [lane EXCEPT ![l] = y]
    BY <1>3 DEF Settles, Moves
  <2> HIDE DEF y
  <2>3. HandleHeld(mode, l, y, entries', disk') /\ EndSound(y)
    BY <1>1, <2>1 DEF HandleHeld, EndSound
  <2> QED BY <1>1, <1>2, <2>1, <2>2, <2>3, WithinLaunch
<1>4. ASSUME Moves(l, [lane[l] EXCEPT !.launch = 2]) PROVE Inv'
  <2> DEFINE y == [lane[l] EXCEPT !.launch = 2]
  <2>1. y \in LaneStates /\ y.pc = "asking" /\ y.unknown = lane[l].unknown
        /\ y.status = lane[l].status /\ y.end = lane[l].end
    BY <1>1 DEF LaneStates
  <2>2. lane' = [lane EXCEPT ![l] = y] /\ rows' = [rows EXCEPT ![l] = rows[l]]
    BY <1>2, <1>4 DEF Moves
  <2> HIDE DEF y
  <2>3. HandleHeld(mode, l, y, entries', disk') /\ EndSound(y)
    BY <1>1, <2>1 DEF HandleHeld, EndSound
  <2>4. RowsSound(mode, brief, l, y, rows[l])
    BY <1>1, <2>1 DEF RowsSound
  <2>5. Sound(mode, brief, l, y, rows[l], entries', disk')
    BY <2>1, <2>3, <2>4 DEF Sound
  <2> QED BY <1>1, <1>2, <2>1, <2>2, <2>5, LaneStep DEF LaneOnly, given
<1>5. End(FALSE, "failed", FALSE, "bad") \in Failures
  BY DEF End, Failures, EndStates
<1> QED BY <1>3, <1>4, <1>5 DEF Asks

LEMMA OpenTerminalKeeps == ASSUME Inv, NEW l \in Lanes, OpenTerminal(l) PROVE Inv'
<1> USE Known
<1>0. lane[l] \in LaneStates
  OBVIOUS
<1>1. lane[l].pc = "opening" /\ main \notin {"over", "threw"} /\ ~lane[l].unknown
  BY DEF OpenTerminal, At, EndSound
<1>2. UNCHANGED <<rows, disk, broken>> /\ LaneOnly
  BY DEF OpenTerminal
<1>3. CASE Becomes(l, "recording") /\ entries' = entries \union {<<l, lane[l].launch>>} /\ UNCHANGED abort
  <2> DEFINE y == [lane[l] EXCEPT !.pc = "recording"]
  <2>1. y \in LaneStates /\ y.pc = "recording" /\ y.unknown = lane[l].unknown /\ y.end = lane[l].end
        /\ y.launch = lane[l].launch /\ y.status = lane[l].status
    BY ONLY <1>0 DEF LaneStates
  <2>2. lane' = [lane EXCEPT ![l] = y]
    BY <1>3 DEF Becomes, Moves
  <2> HIDE DEF y
  <2>3. HandleHeld(mode, l, y, entries', disk')
    BY <1>3, <2>1 DEF HandleHeld
  <2>4. EndSound(y)
    BY <1>1, <2>1 DEF EndSound
  <2> QED BY <1>1, <1>2, <1>3, <2>1, <2>2, <2>3, <2>4, WithinLaunch
<1>4. CASE Settles(l, NoEnd) /\ Aborts("interrupted") /\ UNCHANGED entries
  <2> DEFINE y == [lane[l] EXCEPT !.pc = "settled", !.end = NoEnd]
  <2>1. y \in LaneStates /\ y.pc = "settled" /\ y.unknown = lane[l].unknown
        /\ y.launch = lane[l].launch /\ y.status = lane[l].status
    BY ONLY <1>0, EndsTyped DEF LaneStates
  <2>2. lane' = [lane EXCEPT ![l] = y]
    BY <1>4 DEF Settles, Moves
  <2> HIDE DEF y
  <2>3. HandleHeld(mode, l, y, entries', disk') /\ EndSound(y)
    BY <1>1, <2>1 DEF HandleHeld, EndSound
  <2>4. abort' \in {"none", "interrupted", "deadline"}
    BY <1>4 DEF Aborts
  <2> QED BY <1>1, <1>2, <1>4, <2>1, <2>2, <2>3, <2>4, WithinLaunch
<1> QED BY <1>3, <1>4 DEF OpenTerminal

LEMMA RecordKeeps == ASSUME Inv, NEW l \in Lanes, Record(l) PROVE Inv'
<1> USE Known
<1>0. lane[l] \in LaneStates
  OBVIOUS
<1>1. lane[l].pc = "recording" /\ main \notin {"over", "threw"} /\ ~lane[l].unknown
  BY DEF Record, At, EndSound
<1>2. UNCHANGED <<rows, entries>> /\ LaneOnly
  BY DEF Record
<1>3. PICK written \in BOOLEAN :
        /\ disk' = IF written THEN entries ELSE disk
        /\ broken' = IF written THEN broken ELSE broken \union {"terminals"}
        /\ IF written /\ Signalled(l)
           THEN Settles(l, NoEnd) /\ UNCHANGED abort
           ELSE Becomes(l, AfterRecord(written)) /\ IF written THEN UNCHANGED abort ELSE Aborts("interrupted")
  BY DEF Record
<1>4. /\ disk \subseteq disk' /\ disk' \subseteq entries' /\ broken' \subseteq {"sessions", "terminals"}
      /\ abort' \in {"none", "interrupted", "deadline"}
  BY <1>2, <1>3 DEF Aborts
<1>5. CASE written /\ Signalled(l)
  <2> DEFINE y == [lane[l] EXCEPT !.pc = "settled", !.end = NoEnd]
  <2>1. y \in LaneStates /\ y.pc = "settled" /\ y.unknown = lane[l].unknown
        /\ y.launch = lane[l].launch /\ y.status = lane[l].status
    BY ONLY <1>0, EndsTyped DEF LaneStates
  <2>2. lane' = [lane EXCEPT ![l] = y]
    BY <1>3, <1>5 DEF Settles, Moves
  <2> HIDE DEF y
  <2>3. HandleHeld(mode, l, y, entries', disk') /\ EndSound(y)
    BY <1>1, <2>1 DEF HandleHeld, EndSound
  <2> QED BY <1>1, <1>2, <1>4, <2>1, <2>2, <2>3, WithinLaunch
<1>6. CASE ~(written /\ Signalled(l))
  <2> DEFINE p == AfterRecord(written)
             y == [lane[l] EXCEPT !.pc = p]
  <2>1. p \in {"sending", "reclaiming"} /\ (p = "sending" => written)
    BY DEF AfterRecord
  <2>2. y \in LaneStates /\ y.pc = p /\ y.unknown = lane[l].unknown /\ y.end = lane[l].end
        /\ y.launch = lane[l].launch /\ y.status = lane[l].status
    BY ONLY <1>0, <2>1 DEF LaneStates
  <2>3. lane' = [lane EXCEPT ![l] = y]
    BY <1>3, <1>6 DEF Becomes, Moves
  <2> HIDE DEF y, p
  <2>4. HandleHeld(mode, l, y, entries', disk')
    BY <1>1, <1>3, <2>1, <2>2 DEF HandleHeld
  <2>5. EndSound(y)
    BY <1>1, <2>1, <2>2 DEF EndSound
  <2> QED BY <1>1, <1>2, <1>4, <2>1, <2>2, <2>3, <2>4, <2>5, WithinLaunch
<1> QED BY <1>5, <1>6

LEMMA SendDriverKeeps == ASSUME Inv, NEW l \in Lanes, SendDriver(l) PROVE Inv'
<1> USE Known
<1>0. lane[l] \in LaneStates
  OBVIOUS
<1>1. lane[l].pc = "sending" /\ main \notin {"over", "threw"} /\ ~lane[l].unknown
  BY DEF SendDriver, At, EndSound
<1>2. UNCHANGED <<rows, entries, disk, broken>> /\ LaneOnly
  BY DEF SendDriver, Ledgers
<1>3. PICK p \in {"running", "reclaiming"} : Becomes(l, p) /\ abort' \in {abort, "interrupted"}
  BY DEF SendDriver, Aborts
<1> DEFINE y == [lane[l] EXCEPT !.pc = p]
<1>4. y \in LaneStates /\ y.pc = p /\ y.unknown = lane[l].unknown /\ y.end = lane[l].end
      /\ y.launch = lane[l].launch /\ y.status = lane[l].status
  BY ONLY <1>0 DEF LaneStates
<1>5. lane' = [lane EXCEPT ![l] = y]
  BY <1>3 DEF Becomes, Moves
<1> HIDE DEF y
<1>6. HandleHeld(mode, l, y, entries', disk') /\ EndSound(y)
  BY <1>1, <1>2, <1>4 DEF HandleHeld, EndSound
<1> QED BY <1>1, <1>2, <1>3, <1>4, <1>5, <1>6, WithinLaunch

\* However a driver ends, an exit code of 0 does not count beside an unknown process.
LEMMA SettlesKeeps ==
  ASSUME Inv, NEW l \in Lanes, NEW e \in EndStates, NEW u \in BOOLEAN, SettlesUnknown(l, e, u),
         lane[l].pc \in {"running", "reclaiming"}, main \notin {"over", "threw"}, LaneOnly, UNCHANGED <<abort, Ledgers>>
  PROVE  Inv'
<1> USE Known
<1>0. lane[l] \in LaneStates
  OBVIOUS
<1> DEFINE r == Returned(e, u)
           y == [lane[l] EXCEPT !.pc = "settled", !.end = r, !.unknown = u]
<1>1. r \in EndStates /\ (r.ok => ~u)
  BY ONLY DEF Returned, EndStates
<1>2. lane' = [lane EXCEPT ![l] = y]
  BY DEF SettlesUnknown, Moves
<1> HIDE DEF r
<1>3. y \in LaneStates /\ y.pc = "settled" /\ y.unknown = u /\ y.end = r
      /\ y.launch = lane[l].launch /\ y.status = lane[l].status
  BY ONLY <1>0, <1>1 DEF LaneStates
<1> HIDE DEF y
<1>4. HandleHeld(mode, l, y, entries', disk')
  BY <1>3 DEF HandleHeld
<1>5. lane[l].status = "none"
  BY DEF EndSound
<1>6. EndSound(y)
  BY <1>1, <1>3, <1>5 DEF EndSound
<1> QED BY <1>2, <1>3, <1>4, <1>6, WithinLaunch DEF Ledgers

LEMMA DriverEndsKeeps == ASSUME Inv, NEW l \in Lanes, DriverEnds(l) PROVE Inv'
<1> USE Known
<1>0. lane[l] \in LaneStates
  OBVIOUS
<1>1. lane[l].pc = "running" /\ main \notin {"over", "threw"} /\ ~lane[l].unknown
  BY DEF DriverEnds, At, EndSound
<1>2. UNCHANGED <<abort, rows, entries, disk, broken>> /\ LaneOnly
  BY DEF DriverEnds, Ledgers
<1>3. PICK e \in EndStates : Settles(l, e)
  BY EndsTyped DEF DriverEnds
<1> DEFINE y == [lane[l] EXCEPT !.pc = "settled", !.end = e]
<1>4. y \in LaneStates /\ y.pc = "settled" /\ y.unknown = lane[l].unknown
      /\ y.launch = lane[l].launch /\ y.status = lane[l].status
  BY ONLY <1>0 DEF LaneStates
<1>5. lane' = [lane EXCEPT ![l] = y]
  BY <1>3 DEF Settles, Moves
<1> HIDE DEF y
<1>6. HandleHeld(mode, l, y, entries', disk') /\ EndSound(y)
  BY <1>1, <1>4 DEF HandleHeld, EndSound
<1> QED BY <1>1, <1>2, <1>4, <1>5, <1>6, WithinLaunch

\* A terminal whose driver is to be reclaimed, its close confirmed or not.
LEMMA ReclaimingKeeps ==
  ASSUME Inv, NEW l \in Lanes, NEW u \in BOOLEAN,
         lane' = [lane EXCEPT ![l] = [lane[l] EXCEPT !.pc = "reclaiming", !.unknown = u]],
         lane[l].pc = "running", main \notin {"over", "threw"}, LaneOnly, UNCHANGED <<abort, Ledgers>>
  PROVE  Inv'
<1> USE Known
<1>0. lane[l] \in LaneStates
  OBVIOUS
<1> DEFINE y == [lane[l] EXCEPT !.pc = "reclaiming", !.unknown = u]
<1>1. y \in LaneStates /\ y.pc = "reclaiming" /\ y.end = lane[l].end
      /\ y.launch = lane[l].launch /\ y.status = lane[l].status
  BY ONLY <1>0 DEF LaneStates
<1>2. lane' = [lane EXCEPT ![l] = y]
  OBVIOUS
<1> HIDE DEF y
<1>3. HandleHeld(mode, l, y, entries', disk') /\ EndSound(y)
  BY <1>1 DEF HandleHeld, EndSound
<1> QED BY <1>1, <1>2, <1>3, WithinLaunch DEF Ledgers

LEMMA StoppedKeeps == ASSUME Inv, NEW l \in Lanes, Stopped(l) PROVE Inv'
<1>1. lane[l].pc = "running" /\ main \notin {"over", "threw"} /\ LaneOnly /\ UNCHANGED <<abort, Ledgers>>
  BY DEF Stopped, At
<1>2. CASE \E e \in Remnants, u \in {FALSE, mode = "orca"} : SettlesUnknown(l, e, u)
  <2>1. PICK e \in EndStates, u \in BOOLEAN : SettlesUnknown(l, e, u)
    BY <1>2, EndsTyped DEF Remnants
  <2> QED BY <1>1, <2>1, SettlesKeeps
<1>3. CASE \E u \in BOOLEAN : Moves(l, [lane[l] EXCEPT !.pc = "reclaiming", !.unknown = u])
  BY <1>1, <1>3, ReclaimingKeeps DEF Moves
<1> QED BY <1>2, <1>3 DEF Stopped

LEMMA TerminalLostKeeps == ASSUME Inv, NEW l \in Lanes, TerminalLost(l) PROVE Inv'
<1>0. lane[l] \in LaneStates
  BY Known
<1>1. lane[l].pc = "running" /\ main \notin {"over", "threw"} /\ LaneOnly /\ UNCHANGED <<abort, Ledgers>>
  BY DEF TerminalLost, At
<1>2. [lane[l] EXCEPT !.pc = "reclaiming"] = [lane[l] EXCEPT !.pc = "reclaiming", !.unknown = lane[l].unknown]
      /\ lane[l].unknown \in BOOLEAN
  BY ONLY <1>0 DEF LaneStates
<1> QED BY <1>1, <1>2, ReclaimingKeeps DEF TerminalLost, Becomes, Moves

LEMMA ReclaimKeeps == ASSUME Inv, NEW l \in Lanes, Reclaim(l) PROVE Inv'
<1>1. lane[l].pc = "reclaiming" /\ main \notin {"over", "threw"} /\ LaneOnly /\ UNCHANGED <<abort, Ledgers>>
  BY DEF Reclaim, At
<1>2. PICK e \in Failures, failed \in BOOLEAN : SettlesUnknown(l, e, lane[l].unknown \/ failed)
  BY DEF Reclaim
<1>3. e \in EndStates /\ (lane[l].unknown \/ failed) \in BOOLEAN
  BY EndsTyped
<1> QED BY <1>1, <1>2, <1>3, SettlesKeeps

LEMMA WindowEndsKeeps == ASSUME Inv, NEW l \in Lanes, WindowEnds(l) PROVE Inv'
<1> USE Known
<1>0. lane[l] \in LaneStates
  OBVIOUS
<1>1. lane[l].pc \in {"opening", "recording", "sending", "running"} /\ main \notin {"over", "threw"}
      /\ LaneOnly /\ UNCHANGED <<abort, rows, entries, disk, broken>>
  BY DEF WindowEnds, CutOnly, Ledgers
<1> DEFINE y == [lane[l] EXCEPT !.cut = TRUE]
<1>2. y \in LaneStates /\ y.pc = lane[l].pc /\ y.end = lane[l].end /\ y.unknown = lane[l].unknown
      /\ y.launch = lane[l].launch /\ y.status = lane[l].status
  BY ONLY <1>0 DEF LaneStates
<1>3. lane' = [lane EXCEPT ![l] = y]
  BY DEF WindowEnds, Moves
<1> HIDE DEF y
<1>4. HandleHeld(mode, l, y, entries', disk')
  BY <1>1, <1>2 DEF HandleHeld
<1>5. EndSound(y)
  BY <1>2 DEF EndSound
<1> QED BY <1>1, <1>2, <1>3, <1>4, <1>5, WithinLaunch

-----------------------------------------------------------------------------
(* Rows. *)

\* The last row is closed, or a row is opened after it.
LEMMA FinishedRow ==
  ASSUME NEW r \in Seq(RowStatus), Len(r) > 0, NEW v \in RowStatus
  PROVE  LET s == [r EXCEPT ![Len(r)] = v]
         IN /\ s \in Seq(RowStatus) /\ Len(s) = Len(r) /\ s[Len(s)] = v
            /\ \A k \in 1..Len(s) : k # Len(s) => s[k] = r[k]
<1>1. Len(r) \in 1..Len(r)
  BY LenProperties
<1> QED BY <1>1, ExceptSeq

LEMMA OpenedRow ==
  ASSUME NEW r \in Seq(RowStatus)
  PROVE  LET s == Append(r, "open")
         IN /\ s \in Seq(RowStatus) /\ Len(s) = Len(r) + 1
            /\ \A k \in 1..Len(s) : k # Len(s) => s[k] = r[k] /\ k \in 1..Len(r)
<1>1. "open" \in RowStatus
  BY DEF RowStatus
<1> QED BY <1>1, AppendProperties, LenProperties

LEMMA LaunchedLane ==
  ASSUME Inv, NEW l \in Lanes
  PROVE  /\ Launched(l) \in LaneStates /\ Launched(l).launch = lane[l].launch + 1
         /\ Launched(l).end = NoEnd /\ Launched(l).unknown = FALSE /\ Launched(l).status = lane[l].status
         /\ Launched(l).pc \in {"asking", "opening", "running"}
         /\ (Launched(l).pc = "asking" <=> mode = "packed") /\ (Launched(l).pc = "running" <=> mode = "sandbox")
<1>1. lane[l] \in LaneStates /\ mode \in {"sandbox", "orca", "packed"}
  BY Known
<1> DEFINE p == CASE mode = "packed" -> "asking" [] mode = "orca" -> "opening" [] OTHER -> "running"
<1>2. p \in {"asking", "opening", "running"} /\ (p = "asking" <=> mode = "packed") /\ (p = "running" <=> mode = "sandbox")
  BY <1>1
<1>3. Launched(l) = [lane[l] EXCEPT !.launch = @ + 1, !.cut = FALSE, !.end = NoEnd, !.unknown = FALSE, !.pc = p]
  BY DEF Launched
<1> HIDE DEF p
<1>4. lane[l].launch \in Nat
  BY <1>1 DEF LaneStates
<1>5. PICK n \in Nat : n = lane[l].launch + 1
  BY <1>4
<1>6. Launched(l) = [lane[l] EXCEPT !.launch = n, !.cut = FALSE, !.end = NoEnd, !.unknown = FALSE, !.pc = p]
  BY <1>3, <1>5
<1> QED BY ONLY <1>1, <1>2, <1>5, <1>6, EndsTyped DEF LaneStates

\* A lane not yet begun has its first row opened, and is launched unless its model was refused.
LEMMA StartSound ==
  ASSUME Inv, NEW l \in Lanes, lane[l].pc = "todo", Starts(l)
  PROVE  \E y \in LaneStates, s \in Seq(RowStatus) :
           /\ lane' = [lane EXCEPT ![l] = y] /\ rows' = [rows EXCEPT ![l] = s]
           /\ Sound(mode, brief, l, y, s, entries, disk) /\ y.pc \notin {"todo", "done", "backoff"}
<1> USE Known
<1>0. lane[l] \in LaneStates /\ lane[l].launch = 0 /\ rows[l] = <<>> /\ lane[l].status = "none" /\ ~lane[l].unknown
  BY DEF EndSound, RowsSound
<1> DEFINE s == Append(rows[l], "open")
<1>1. s \in Seq(RowStatus) /\ Len(s) = 1 /\ rows' = [rows EXCEPT ![l] = s]
  BY <1>0, OpenedRow DEF Starts, Open
<1> HIDE DEF s
<1>2. CASE l \notin refused
  <2>0. PICK y : y = Launched(l)
    OBVIOUS
  <2>1. /\ y \in LaneStates /\ y.end = NoEnd /\ y.unknown = FALSE /\ y.status = "none"
        /\ y.pc \in {"asking", "opening", "running"}
        /\ (y.pc = "asking" <=> mode = "packed") /\ (y.pc = "running" <=> mode = "sandbox")
    BY ONLY Inv, l \in Lanes, <1>0, <2>0, LaunchedLane
  <2>4. y.launch = lane[l].launch + 1
    BY ONLY Inv, l \in Lanes, <2>0, LaunchedLane
  <2>5. y.launch = 1
    BY ONLY <1>0, <2>4
  <2>2. lane' = [lane EXCEPT ![l] = y]
    BY <1>2, <2>0 DEF Starts, Moves
  <2>3. RowsSound(mode, brief, l, y, s)
    BY <1>1, <2>1, <2>5, LanesAssumption DEF RowsSound
  <2>6. HandleHeld(mode, l, y, entries, disk) /\ EndSound(y)
    BY <2>1, EndsTyped DEF HandleHeld, EndSound
  <2> QED BY <1>1, <2>1, <2>2, <2>3, <2>6 DEF Sound
<1>3. CASE l \in refused
  <2> DEFINE e == End(FALSE, "failed", FALSE, "bad")
             y == [lane[l] EXCEPT !.pc = "settled", !.end = e]
  <2>0. mode = "packed" /\ e \in EndStates
    BY <1>3, EndsTyped DEF Inv, MainTypes
  <2>1. lane' = [lane EXCEPT ![l] = y]
    BY <1>3 DEF Starts, Settles, Moves
  <2> HIDE DEF e
  <2>2. y \in LaneStates /\ y.pc = "settled" /\ y.unknown = lane[l].unknown
        /\ y.launch = lane[l].launch /\ y.status = lane[l].status
    BY ONLY <1>0, <2>0 DEF LaneStates
  <2> HIDE DEF y
  <2>3. RowsSound(mode, brief, l, y, s)
    BY <1>1, <2>0, <2>2 DEF RowsSound
  <2>4. HandleHeld(mode, l, y, entries, disk) /\ EndSound(y)
    BY <1>0, <2>0, <2>2 DEF HandleHeld, EndSound
  <2> QED BY <1>1, <2>1, <2>2, <2>3, <2>4 DEF Sound
<1> QED BY <1>2, <1>3

LEMMA BeginKeeps == ASSUME Inv, NEW l \in Lanes, Begin(l) PROVE Inv'
<1> USE Known
<1>0. lane[l] \in LaneStates
  OBVIOUS
<1>1. lane[l].pc = "todo" /\ main = "lanes" /\ l \in Reviewers /\ l # "verifier"
      /\ LaneOnly /\ UNCHANGED <<abort, entries, disk, broken>>
  BY LanesAssumption DEF Begin, At
<1>2. CASE Starts(l)
  <2>1. PICK y \in LaneStates, s \in Seq(RowStatus) :
          /\ lane' = [lane EXCEPT ![l] = y] /\ rows' = [rows EXCEPT ![l] = s]
          /\ Sound(mode, brief, l, y, s, entries, disk) /\ y.pc \notin {"todo", "done", "backoff"}
    BY <1>1, <1>2, StartSound
  <2>2. Sound(mode, brief, l, y, s, entries', disk')
    BY <1>1, <2>1
  <2> QED BY <1>1, <2>1, <2>2, LaneStep DEF LaneOnly, given
<1>3. CASE Skips(l)
  <2> DEFINE y == [lane[l] EXCEPT !.pc = "done", !.status = "cancelled"]
  <2>0. "cancelled" \in Verdicts
    BY DEF Verdicts
  <2>1. y \in LaneStates /\ y.pc = "done" /\ y.status = "cancelled" /\ y.end = lane[l].end
        /\ y.launch = lane[l].launch /\ y.unknown = lane[l].unknown
    BY ONLY <1>0, <2>0 DEF LaneStates
  <2>2. lane' = [lane EXCEPT ![l] = y] /\ rows' = [rows EXCEPT ![l] = rows[l]]
    BY <1>3 DEF Skips, Moves
  <2> HIDE DEF y
  <2>3. RowsSound(mode, brief, l, y, rows[l])
    BY <1>1, <2>1 DEF RowsSound
  <2>4. HandleHeld(mode, l, y, entries', disk') /\ EndSound(y)
    BY <1>1, <2>1 DEF HandleHeld, EndSound
  <2>5. Sound(mode, brief, l, y, rows[l], entries', disk')
    BY <2>1, <2>3, <2>4 DEF Sound
  <2> QED BY <1>1, <2>1, <2>2, <2>5, LaneStep DEF LaneOnly, given
<1> QED BY <1>2, <1>3 DEF Begin

LEMMA BacksOffKeeps == ASSUME Inv, NEW l \in Lanes, BacksOff(l) PROVE Inv'
<1> USE Known
<1>0. lane[l] \in LaneStates
  OBVIOUS
<1>1. lane[l].pc = "settled" /\ main \notin {"over", "threw"} /\ (l = "verifier" => main = "verify") /\ Turn(l)
      /\ mode # "packed" /\ lane[l].launch <= Relaunches
      /\ LaneOnly /\ UNCHANGED <<abort, entries, disk, broken>>
  BY DEF BacksOff, At, Turn, Repeats, MayLaunch
<1>2. Len(rows[l]) > 0 /\ "relaunched" \in RowStatus
  BY <1>1 DEF RowsSound, RowStatus
<1> DEFINE y == [lane[l] EXCEPT !.pc = "backoff"]
           s == [rows[l] EXCEPT ![Len(rows[l])] = "relaunched"]
<1>3. y \in LaneStates /\ y.pc = "backoff" /\ y.end = lane[l].end /\ y.unknown = lane[l].unknown
      /\ y.launch = lane[l].launch /\ y.status = lane[l].status
  BY ONLY <1>0 DEF LaneStates
<1>4. /\ s \in Seq(RowStatus) /\ Len(s) = Len(rows[l]) /\ s[Len(s)] = "relaunched"
      /\ \A k \in 1..Len(s) : k # Len(s) => s[k] = rows[l][k]
  BY <1>2, FinishedRow
<1>5. lane' = [lane EXCEPT ![l] = y] /\ rows' = [rows EXCEPT ![l] = s]
  BY DEF BacksOff, Becomes, Moves, Finishes
<1> HIDE DEF y, s
<1>6. RowsSound(mode, brief, l, y, s)
  BY <1>1, <1>2, <1>3, <1>4 DEF RowsSound
<1>7. HandleHeld(mode, l, y, entries', disk') /\ EndSound(y)
  BY <1>1, <1>3 DEF HandleHeld, EndSound
<1>8. Sound(mode, brief, l, y, s, entries', disk')
  BY <1>3, <1>6, <1>7 DEF Sound
<1> QED BY <1>1, <1>3, <1>5, <1>8, LaneStep DEF LaneOnly, given

LEMMA RelaunchKeeps == ASSUME Inv, NEW l \in Lanes, Relaunch(l) PROVE Inv'
<1> USE Known
<1>1. lane[l].pc = "backoff" /\ main \notin {"over", "threw"}
      /\ LaneOnly /\ UNCHANGED <<abort, entries, disk, broken>>
  BY DEF Relaunch, At
<1>2. Len(rows[l]) > 0 /\ rows[l][Len(rows[l])] = "relaunched" /\ mode # "packed" /\ lane[l].launch <= Relaunches
      /\ Len(rows[l]) = lane[l].launch /\ lane[l].status = "none"
      /\ \A k \in 1..Len(rows[l]) : k # Len(rows[l]) => rows[l][k] = "relaunched"
  BY <1>1 DEF RowsSound, EndSound
<1>0. lane[l].launch \in Nat
  BY DEF LaneStates
<1> DEFINE s == Append(rows[l], "open")
<1>3. PICK y : y = Launched(l)
  OBVIOUS
<1>4. /\ y \in LaneStates /\ y.end = NoEnd /\ y.unknown = FALSE /\ y.status = lane[l].status
      /\ y.pc \in {"asking", "opening", "running"} /\ y.launch = lane[l].launch + 1
      /\ (y.pc = "asking" <=> mode = "packed") /\ (y.pc = "running" <=> mode = "sandbox")
  BY ONLY Inv, l \in Lanes, <1>3, LaunchedLane
<1>5. /\ s \in Seq(RowStatus) /\ Len(s) = Len(rows[l]) + 1
      /\ \A k \in 1..Len(s) : k # Len(s) => s[k] = rows[l][k] /\ k \in 1..Len(rows[l])
  BY OpenedRow
<1>6. lane' = [lane EXCEPT ![l] = y] /\ rows' = [rows EXCEPT ![l] = s]
  BY <1>3 DEF Relaunch, Claims, Open, Moves
<1> HIDE DEF s
<1>7. y.launch <= Relaunches + 1 /\ Len(s) = y.launch /\ Len(s) > 0
  BY <1>0, <1>2, <1>4, <1>5, LanesAssumption
<1>8. \A k \in 1..Len(s) : k # Len(s) => s[k] = "relaunched"
  BY <1>2, <1>5
<1>9. RowsSound(mode, brief, l, y, s)
  BY <1>2, <1>4, <1>5, <1>7, <1>8 DEF RowsSound
<1>10. HandleHeld(mode, l, y, entries', disk') /\ EndSound(y)
  BY <1>2, <1>4, EndsTyped DEF HandleHeld, EndSound
<1>11. Sound(mode, brief, l, y, s, entries', disk')
  BY <1>4, <1>9, <1>10 DEF Sound
<1> QED BY <1>1, <1>4, <1>6, <1>11, LaneStep DEF LaneOnly, given

LEMMA JudgeKeeps == ASSUME Inv, NEW l \in Lanes, Judge(l) PROVE Inv'
<1> USE Known
<1>0. lane[l] \in LaneStates
  OBVIOUS
<1>1. lane[l].pc \in {"settled", "backoff"} /\ main \notin {"over", "threw"} /\ (l = "verifier" => main = "verify") /\ Turn(l)
      /\ LaneOnly /\ UNCHANGED <<abort, entries, disk, broken>>
  BY DEF Judge, At, Turn
<1>2. Len(rows[l]) > 0 /\ (lane[l].end.ok => ~lane[l].unknown)
  BY <1>1 DEF RowsSound, EndSound
<1>3. PICK v \in {"cancelled", "completed", "failed"} :
        v = Status(l) /\ (v = "completed" => lane[l].end.ok /\ lane[l].end.answer \in Whole)
  BY DEF Status
<1>4. v \in Verdicts /\ v \in RowStatus /\ v # "none"
  BY DEF Verdicts, RowStatus
<1> DEFINE e == IF v = "completed" THEN lane[l].end ELSE NoEnd
           y == [lane[l] EXCEPT !.pc = "done", !.status = v, !.end = e]
           s == [rows[l] EXCEPT ![Len(rows[l])] = v]
<1>5. e \in EndStates /\ (v = "completed" => e = lane[l].end) /\ (v # "completed" => e = NoEnd)
  BY <1>0, EndsTyped DEF LaneStates
<1>6. lane' = [lane EXCEPT ![l] = y] /\ rows' = [rows EXCEPT ![l] = s]
  BY <1>3 DEF Judge, Moves, Finishes
<1> HIDE DEF e
<1>7. y \in LaneStates /\ y.pc = "done" /\ y.status = v /\ y.end = e
      /\ y.launch = lane[l].launch /\ y.unknown = lane[l].unknown
  BY ONLY <1>0, <1>4, <1>5 DEF LaneStates
<1>8. /\ s \in Seq(RowStatus) /\ Len(s) = Len(rows[l]) /\ s[Len(s)] = v
      /\ \A k \in 1..Len(s) : k # Len(s) => s[k] = rows[l][k]
  BY <1>2, <1>4, FinishedRow
<1> HIDE DEF y, s
<1>9. RowsSound(mode, brief, l, y, s)
  BY <1>1, <1>2, <1>7, <1>8 DEF RowsSound
<1>10. HandleHeld(mode, l, y, entries', disk')
  BY <1>7 DEF HandleHeld
<1>11. EndSound(y)
  BY <1>2, <1>3, <1>4, <1>5, <1>7 DEF EndSound
<1>12. Sound(mode, brief, l, y, s, entries', disk')
  BY <1>7, <1>9, <1>10, <1>11 DEF Sound
<1> QED BY <1>1, <1>6, <1>7, <1>12, LaneStep DEF LaneOnly, given

-----------------------------------------------------------------------------
(* The run. *)

\* Nothing of a lane changes.
LEMMA LanesStay ==
  ASSUME LanesSound, UNCHANGED <<mode, lane, rows, entries, disk>>, brief' = brief \/ brief = "none"
  PROVE  LanesSound'
BY DEF LanesSound, Sound, RowsSound

LEMMA Names ==
  "verifier" \in Lanes /\ Reviewers \subseteq Lanes /\ "verifier" \notin Reviewers
BY LanesAssumption DEF Lanes

LEMMA PreparedKeeps == ASSUME Inv, Prepared PROVE Inv'
<1>1. main = "prepare" /\ main' = "lanes" /\ (refused' = {} \/ (mode = "packed" /\ refused' \subseteq Lanes))
      /\ WarmStart /\ UNCHANGED <<mode, abort, brief, entries, disk, broken, receipt>>
  BY DEF Prepared, Refusals
<1>2. \A l \in Lanes : lane[l].pc = "todo"
  BY <1>1 DEF Inv, MainInStep
<1>3. MainTypes' /\ ReceiptSound' /\ IdleSound'
  BY <1>1 DEF Inv, MainTypes, ReceiptSound, IdleSound
<1>4. CASE mode = "sandbox" /\ abort = "none"
  <2>1. Starts("verifier")
    BY <1>1, <1>4 DEF WarmStart, Starts, Inv, MainTypes
  <2>2. PICK y \in LaneStates, s \in Seq(RowStatus) :
          /\ lane' = [lane EXCEPT !["verifier"] = y] /\ rows' = [rows EXCEPT !["verifier"] = s]
          /\ Sound(mode, brief, "verifier", y, s, entries, disk) /\ y.pc \notin {"todo", "done", "backoff"}
    BY <1>2, <2>1, Names, StartSound
  <2>3. Sound(mode, brief, "verifier", y, s, entries', disk')
    BY <1>1, <2>2
  <2>4. LanesSound'
    BY <1>1, <2>2, <2>3, Names, LaneMoves DEF Inv
  <2>5. lane'["verifier"] = y
    BY <2>2, Names DEF Inv, LanesSound
  <2>6. MainInStep'
    BY <1>1, <1>4, <2>2, <2>5 DEF MainInStep
  <2> QED BY <1>3, <2>4, <2>6 DEF Inv
<1>5. CASE ~(mode = "sandbox" /\ abort = "none")
  <2>1. UNCHANGED <<rows, lane>>
    BY <1>1, <1>5 DEF WarmStart
  <2>2. LanesSound'
    BY <1>1, <2>1, LanesStay DEF Inv
  <2>3. MainInStep'
    BY <1>1, <1>2, <2>1, Names DEF MainInStep
  <2> QED BY <1>3, <2>2, <2>3 DEF Inv
<1> QED BY <1>4, <1>5

\* The verifier rules on nothing: its row, if it has one, is closed already.
LEMMA NotRunSound ==
  ASSUME Inv, NotRun, UNCHANGED <<mode, rows, entries, disk>>, brief' = "null", brief \in {"none", "null"},
         LET r == rows["verifier"]
         IN lane["verifier"].pc = "todo" \/ (mode = "sandbox" /\ ClosedUnruled(r))
  PROVE  LanesSound' /\ lane'["verifier"].pc = "done" /\ \A l \in Reviewers : lane'[l] = lane[l]
<1> DEFINE x == lane["verifier"]
           r == rows["verifier"]
<1>1. x \in LaneStates /\ r \in Seq(RowStatus) /\ RowsSound(mode, brief, "verifier", x, r) /\ EndSound(x)
      /\ rows' = [rows EXCEPT !["verifier"] = r]
  BY Known, Names
<1>2. PICK v \in {"not_run", "cancelled"} : v = Unruled /\ (v = "not_run" <=> abort = "none")
  BY DEF Unruled
<1>3. v \in Verdicts /\ v \notin {"none", "completed"}
  BY DEF Verdicts
<1> DEFINE y == [x EXCEPT !.pc = "done", !.status = v, !.end = NoEnd]
<1>4. y \in LaneStates /\ y.pc = "done" /\ y.status = v /\ y.end = NoEnd /\ y.launch = x.launch /\ y.unknown = x.unknown
  BY ONLY <1>1, <1>3, EndsTyped DEF LaneStates
<1>5. lane' = [lane EXCEPT !["verifier"] = y]
  BY <1>2 DEF NotRun, Moves
<1> HIDE DEF y
<1>6. HandleHeld(mode, "verifier", y, entries', disk') /\ EndSound(y)
  BY <1>3, <1>4 DEF HandleHeld, EndSound
<1>7. RowsSound(mode, "null", "verifier", y, r)
  <2>1. CASE x.pc = "todo"
    BY <1>1, <1>4, <2>1 DEF RowsSound
  <2>2. CASE x.pc # "todo"
    <3>1. Len(r) > 0 /\ (r[Len(r)] = "not_run" \/ (r[Len(r)] = "cancelled" /\ abort # "none"))
      BY <2>2 DEF ClosedUnruled
    <3>2. r[Len(r)] = v \/ (r[Len(r)] = "not_run" /\ v = "cancelled")
      BY <1>2, <3>1
    <3>3. x.pc = "settled" /\ mode = "sandbox"
      BY <2>2 DEF ClosedUnruled
    <3> QED BY <1>1, <1>4, <3>2, <3>3 DEF RowsSound
  <2> QED BY <2>1, <2>2
<1>8. Sound(mode, brief', "verifier", y, r, entries', disk')
  BY <1>4, <1>6, <1>7 DEF Sound
<1>9. brief' = brief \/ brief = "none"
  OBVIOUS
<1>10. LanesSound'
  BY <1>1, <1>5, <1>8, <1>9, Names, LaneMoves DEF Inv
<1>11. lane'["verifier"] = y /\ \A l \in Reviewers : lane'[l] = lane[l]
  BY <1>5, Names DEF Inv, LanesSound
<1> QED BY <1>4, <1>10, <1>11

LEMMA ReviewersDoneKeeps == ASSUME Inv, ReviewersDone PROVE Inv'
<1>1. main = "lanes" /\ (\A l \in Reviewers : lane[l].pc = "done") /\ main' \in {"verify", "unneeded", "receipt"}
      /\ brief = "none" /\ brief' \in {"null", "ids"} /\ (main' # "verify" => brief' = "null")
      /\ UNCHANGED <<mode, plan, refused, abort, entries, disk, broken, receipt>>
  BY DEF ReviewersDone, At, given, Inv, MainTypes
<1>2. MainTypes' /\ ReceiptSound' /\ IdleSound'
  BY <1>1 DEF Inv, MainTypes, ReceiptSound, IdleSound
<1>3. lane["verifier"].pc \notin {"done", "backoff"} /\ (mode # "sandbox" => lane["verifier"].pc = "todo")
  BY <1>1 DEF Inv, MainInStep
<1>4. CASE UNCHANGED <<rows, lane>> /\ main' # "receipt"
  <2>1. LanesSound'
    BY <1>1, <1>4, LanesStay DEF Inv
  <2>2. MainInStep'
    BY <1>1, <1>3, <1>4 DEF MainInStep
  <2> QED BY <1>2, <2>1, <2>2 DEF Inv
<1>5. CASE lane["verifier"].launch = 0 /\ main' = "verify" /\ Starts("verifier")
  <2>1. lane["verifier"].pc = "todo"
    BY <1>3, <1>5, Known, Names DEF RowsSound
  <2>2. PICK y \in LaneStates, s \in Seq(RowStatus) :
          /\ lane' = [lane EXCEPT !["verifier"] = y] /\ rows' = [rows EXCEPT !["verifier"] = s]
          /\ Sound(mode, brief, "verifier", y, s, entries, disk) /\ y.pc \notin {"todo", "done", "backoff"}
    BY <1>5, <2>1, Names, StartSound
  <2>3. Sound(mode, brief', "verifier", y, s, entries', disk')
    BY <1>1, <2>2 DEF Sound, RowsSound
  <2>4. LanesSound'
    BY <1>1, <2>2, <2>3, Names, LaneMoves DEF Inv
  <2>5. \A l \in Reviewers : lane'[l] = lane[l]
    BY <2>2, Names DEF Inv, LanesSound
  <2>6. MainInStep'
    BY <1>1, <1>5, <2>5 DEF MainInStep
  <2> QED BY <1>2, <2>4, <2>6 DEF Inv
<1>6. CASE lane["verifier"].launch = 0 /\ main' = "receipt" /\ brief' = "null" /\ UNCHANGED rows /\ NotRun
  <2>1. lane["verifier"].pc = "todo"
    BY <1>3, <1>6, Known, Names DEF RowsSound
  <2>2. LanesSound' /\ lane'["verifier"].pc = "done" /\ \A l \in Reviewers : lane'[l] = lane[l]
    BY <1>1, <1>6, <2>1, NotRunSound
  <2>3. MainInStep'
    BY <1>1, <1>6, <2>2 DEF MainInStep
  <2> QED BY <1>2, <2>2, <2>3 DEF Inv
<1>7. lane["verifier"].launch \in Nat
  BY Known, Names DEF LaneStates
<1> QED BY <1>1, <1>4, <1>5, <1>6, <1>7 DEF ReviewersDone

LEMMA VerifierUnneededKeeps == ASSUME Inv, VerifierUnneeded PROVE Inv'
<1> DEFINE x == lane["verifier"]
           r == rows["verifier"]
<1>1. main = "unneeded" /\ main' = "unruled" /\ x.pc = "settled" /\ brief = "null"
      /\ UNCHANGED <<mode, plan, refused, abort, lane, brief, entries, disk, broken, receipt>>
  BY DEF VerifierUnneeded, given, At, Inv, IdleSound
<1>2. x \in LaneStates /\ r \in Seq(RowStatus) /\ RowsSound(mode, brief, "verifier", x, r) /\ EndSound(x)
      /\ HandleHeld(mode, "verifier", x, entries, disk) /\ lane = [lane EXCEPT !["verifier"] = x]
  BY Known, Names
<1>3. PICK v \in {"not_run", "cancelled"} : v = Unruled /\ (v = "cancelled" => abort # "none")
  BY DEF Unruled
<1> DEFINE s == [r EXCEPT ![Len(r)] = v]
<1>4. rows' = [rows EXCEPT !["verifier"] = s]
  BY <1>3 DEF VerifierUnneeded, Finishes
<1>5. Len(r) > 0 /\ v \in RowStatus
  BY <1>1, <1>2 DEF RowsSound, RowStatus, Verdicts
<1>6. /\ s \in Seq(RowStatus) /\ Len(s) = Len(r) /\ s[Len(s)] = v
      /\ \A k \in 1..Len(s) : k # Len(s) => s[k] = r[k]
  BY <1>2, <1>5, FinishedRow
<1> HIDE DEF s
<1>7. RowsSound(mode, brief, "verifier", x, s)
  BY <1>1, <1>2, <1>6 DEF RowsSound
<1>8. Sound(mode, brief', "verifier", x, s, entries', disk')
  BY <1>1, <1>2, <1>7 DEF Sound
<1>9. LanesSound'
  BY <1>1, <1>2, <1>4, <1>8, Names, LaneMoves DEF Inv
<1>10. rows'["verifier"] = s
  BY <1>4, Names DEF Inv, LanesSound
<1>11. IdleSound'
  BY <1>1, <1>3, <1>5, <1>6, <1>10 DEF IdleSound, ClosedUnruled
<1>12. MainInStep'
  BY <1>1 DEF Inv, MainInStep
<1>13. MainTypes' /\ ReceiptSound'
  BY <1>1 DEF Inv, MainTypes, ReceiptSound
<1> QED BY <1>9, <1>11, <1>12, <1>13 DEF Inv

LEMMA VerifierNotRunKeeps == ASSUME Inv, VerifierNotRun PROVE Inv'
<1>1. main = "unruled" /\ main' = "receipt" /\ NotRun
      /\ UNCHANGED <<mode, plan, refused, abort, brief, receipt, rows, entries, disk, broken>>
  BY DEF VerifierNotRun, given, Ledgers
<1>2. brief = "null" /\ ClosedUnruled(rows["verifier"]) /\ mode = "sandbox"
  BY <1>1 DEF Inv, IdleSound, ClosedUnruled, MainInStep
<1>3. LanesSound' /\ lane'["verifier"].pc = "done" /\ \A l \in Reviewers : lane'[l] = lane[l]
  BY <1>1, <1>2, NotRunSound
<1>4. MainInStep' /\ IdleSound'
  BY <1>1, <1>3 DEF Inv, MainInStep, IdleSound
<1>5. MainTypes' /\ ReceiptSound'
  BY <1>1 DEF Inv, MainTypes, ReceiptSound
<1> QED BY <1>3, <1>4, <1>5 DEF Inv

\* A run that completed had every lane done, and none of its answers came from a lane that did not.
LEMMA WriteReceiptKeeps == ASSUME Inv, WriteReceipt PROVE Inv'
<1>1. main = "receipt" /\ main' = "over" /\ receipt' = SwarmStatus
      /\ UNCHANGED <<mode, plan, refused, abort, lane, brief, rows, entries, disk, broken>>
  BY DEF WriteReceipt, given, Ledgers
<1>2. LanesSound'
  BY <1>1, LanesStay DEF Inv
<1>3. MainTypes'
  BY <1>1 DEF Inv, MainTypes, SwarmStatus
<1>4. MainInStep' /\ IdleSound'
  BY <1>1 DEF Inv, MainInStep, IdleSound
<1>5. ReceiptSound'
  <2> SUFFICES ASSUME receipt' = "completed"
               PROVE  /\ \A file \in Files : \E l \in Reviewers : file \in plan[l] /\ lane[l].status = "completed"
                      /\ (\E l \in Reviewers : lane[l].end.answer = "found") => lane["verifier"].status = "completed"
    BY <1>1 DEF ReceiptSound
  <2>1. Uncovered = {} /\ ~Unverified
    BY <1>1 DEF SwarmStatus
  <2>2. \A file \in Files : \E l \in Reviewers : file \in plan[l] /\ lane[l].status = "completed"
    BY <2>1 DEF Uncovered, Covered, Reviewed
  <2>3. ASSUME NEW l \in Reviewers, lane[l].end.answer = "found" PROVE lane["verifier"].status = "completed"
    <3>1. lane[l].pc = "done" /\ EndSound(lane[l])
      BY <1>1, Names, Known DEF Inv, MainInStep
    <3>2. lane[l].status = "completed"
      BY <2>3, <3>1 DEF EndSound, NoEnd, End
    <3> QED BY <2>1, <2>3, <3>2 DEF Unverified, Candidates, Reviewed
  <2> QED BY <2>2, <2>3
<1> QED BY <1>2, <1>3, <1>4, <1>5 DEF Inv

\* What ends or cuts the run moves no lane.
LEMMA CutKeeps ==
  ASSUME Inv, PreparationFails \/ VerifierDone \/ SessionsFail \/ Interrupt \/ Deadline
  PROVE  Inv'
<1>1. UNCHANGED <<mode, lane, rows, entries, disk, refused, plan>>
  BY DEF PreparationFails, VerifierDone, SessionsFail, Interrupt, Deadline, CutOnly, LaneOnly, Ledgers, given
<1>2. LanesSound'
  <2>1. brief' = brief
    BY DEF PreparationFails, VerifierDone, SessionsFail, Interrupt, Deadline, CutOnly, LaneOnly
  <2> QED BY <1>1, <2>1, LanesStay DEF Inv
<1>3. CASE PreparationFails \/ SessionsFail
  <2>1. main' = "threw" /\ UNCHANGED <<abort, brief>> /\ receipt' \in {receipt, "failed"}
        /\ broken' \subseteq broken \union {"sessions"} /\ main # "over"
    BY <1>3 DEF PreparationFails, SessionsFail, Ledgers, Turn
  <2> QED BY <1>1, <1>2, <2>1 DEF Inv, MainTypes, MainInStep, IdleSound, ClosedUnruled, ReceiptSound
<1>4. CASE VerifierDone
  <2>1. main = "verify" /\ main' = "receipt" /\ lane["verifier"].pc = "done" /\ UNCHANGED <<abort, brief, receipt, broken>>
    BY <1>4 DEF VerifierDone, At, Ledgers
  <2> QED BY <1>1, <1>2, <2>1 DEF Inv, MainTypes, MainInStep, IdleSound, ClosedUnruled, ReceiptSound
<1>5. CASE Interrupt \/ Deadline
  <2>1. UNCHANGED <<main, brief, receipt, broken>> /\ abort' \in {"none", "interrupted", "deadline"} /\ abort = "none" /\ abort' # "none"
    BY <1>5 DEF Interrupt, Deadline, Aborts, CutOnly, LaneOnly, Ledgers
  <2> QED BY <1>1, <1>2, <2>1 DEF Inv, MainTypes, MainInStep, IdleSound, ClosedUnruled, ReceiptSound
<1> QED BY <1>3, <1>4, <1>5

LEMMA InitHolds == Init => Inv
<1> SUFFICES ASSUME Init PROVE Inv
  OBVIOUS
<1> DEFINE x == [pc |-> "todo", launch |-> 0, cut |-> FALSE, end |-> NoEnd, unknown |-> FALSE, status |-> "none"]
<1>1. x \in LaneStates /\ x.pc = "todo" /\ x.launch = 0 /\ x.end = NoEnd /\ x.unknown = FALSE /\ x.status = "none"
  BY ONLY EndsTyped DEF LaneStates
<1>2. lane = [l \in Lanes |-> x] /\ rows = [l \in Lanes |-> <<>>]
  BY DEF Init
<1> HIDE DEF x
<1>3. EndSound(x) /\ \A l \in Lanes : RowsSound(mode, brief, l, x, <<>>)
  BY <1>1, LanesAssumption, EndsTyped DEF RowsSound, EndSound
<1>4. \A l \in Lanes : HandleHeld(mode, l, x, entries, disk)
  BY <1>1 DEF HandleHeld
<1>5. LanesSound
  BY <1>1, <1>2, <1>3, <1>4 DEF LanesSound, Sound
<1>6. MainTypes /\ ReceiptSound
  BY DEF Init, MainTypes, ReceiptSound
<1>7. MainInStep /\ IdleSound
  BY <1>1, <1>2 DEF Init, MainInStep, IdleSound
<1> QED BY <1>5, <1>6, <1>7 DEF Inv

LEMMA NextKeeps == Inv /\ [Next]_vars => Inv'
<1> SUFFICES ASSUME Inv, [Next]_vars PROVE Inv'
  OBVIOUS
<1>1. CASE UNCHANGED vars
  <2>1. LanesSound'
    BY <1>1, LanesStay DEF Inv, vars
  <2> QED BY <1>1, <2>1 DEF Inv, vars, MainTypes, MainInStep, IdleSound, ClosedUnruled, ReceiptSound
<1>2. CASE MainSteps
  BY <1>2, PreparedKeeps, CutKeeps, ReviewersDoneKeeps, VerifierUnneededKeeps, VerifierNotRunKeeps,
     WriteReceiptKeeps DEF MainSteps
<1>3. CASE SessionsFail \/ Interrupt \/ Deadline
  BY <1>3, CutKeeps
<1>4. ASSUME NEW l \in Lanes, LaneSteps(l) \/ DriverEnds(l) \/ TerminalLost(l) \/ WindowEnds(l) PROVE Inv'
  BY <1>4, BeginKeeps, AsksKeeps, OpenTerminalKeeps, RecordKeeps, SendDriverKeeps, StoppedKeeps, ReclaimKeeps,
     BacksOffKeeps, RelaunchKeeps, JudgeKeeps, DriverEndsKeeps, TerminalLostKeeps, WindowEndsKeeps DEF LaneSteps
<1> QED BY <1>1, <1>2, <1>3, <1>4 DEF Next

LEMMA Invariant == Spec => []Inv
BY InitHolds, NextKeeps, PTL DEF Spec

-----------------------------------------------------------------------------
(* The results. *)

\* Whatever main, the lanes and the signals do (swarm.ts:3080-3735), each part of a run
\* is what it may be and no lane is launched more often than its relaunches allow.
THEOREM ReviewerTypes == Spec => []TypeOK
<1>1. Inv => TypeOK
  BY DEF Inv, MainTypes, LanesSound, Sound, RowsSound, RowStatus, TypeOK
<1> QED BY <1>1, Invariant, PTL

\* No driver runs in a terminal whose handle is not on disk (swarm.ts:1703-1705).
THEOREM HandlesWritten == Spec => []HandleOnDisk
<1>1. Inv => HandleOnDisk
  BY DEF Inv, LanesSound, Sound, HandleHeld, HandleOnDisk
<1> QED BY <1>1, Invariant, PTL

\* When the receipt is written, each launch of each lane has its row and the last
\* tells what became of the lane (attempt.ts:91-101), but for an idle verifier that
\* an abort overtakes between its row and its own status (swarm.ts:3278, 3551).
THEOREM RowsTell == Spec => []RowsTellTheLanes
<1>1. Inv => RowsTellTheLanes
  <2> SUFFICES ASSUME Inv, main = "over", NEW l \in Lanes
               PROVE  /\ mode # "packed" => Len(rows[l]) = lane[l].launch
                      /\ \A k \in 1..Len(rows[l]) :
                           \/ rows[l][k] = IF k = Len(rows[l]) THEN lane[l].status ELSE "relaunched"
                           \/ /\ l = "verifier" /\ brief = "null" /\ k = Len(rows[l])
                              /\ rows[l][k] = "not_run" /\ lane[l].status = "cancelled"
    BY DEF RowsTellTheLanes
  <2>1. lane[l].pc = "done"
    BY Names DEF Inv, MainInStep, Lanes
  <2>2. RowsSound(mode, brief, l, lane[l], rows[l]) /\ rows[l] \in Seq(RowStatus)
    BY Known
  <2> QED BY <2>1, <2>2 DEF RowsSound
<1> QED BY <1>1, Invariant, PTL

\* A completed lane's answer is whole and its last launch left no unknown process; a
\* completed run has every file read by such a lane and every candidate ruled on
\* (swarm.ts:1445-1470, 3617-3660).
THEOREM WholeRuns == Spec => []CompletedIsWhole
<1>1. Inv => CompletedIsWhole
  BY DEF Inv, LanesSound, Sound, EndSound, ReceiptSound, CompletedIsWhole
<1> QED BY <1>1, Invariant, PTL
===============================================================================
