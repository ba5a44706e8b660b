----------------------------- MODULE StudyProofs -----------------------------
(***************************************************************************)
(* Proofs about the components that keep accounts of their own, studied    *)
(* side by side (MCBooks).  Each of them is typed: where the inductive     *)
(* invariant of BudgetProofs or BooksProofs does not hold the whole type,  *)
(* the rest is inductive beside it.  A behaviour of the joint instance is  *)
(* one of every component, so all of it is typed.                          *)
(***************************************************************************)
EXTENDS MCBooks, BudgetProofs, BooksProofs

-----------------------------------------------------------------------------
(* The components whose inductive invariant holds their type. *)

LEMMA FreeStaysTyped == FreeSpec => []FreeTypeOK
<1>1. FreeInv => FreeTypeOK
  BY DEF FreeInv
<1> QED
  BY <1>1, FreeStarts, FreeStep, PTL DEF FreeSpec

LEMMA LimitStaysTyped == LimitSpec => []LimitTypeOK
<1>1. LimitInv => LimitTypeOK
  BY DEF LimitInv
<1> QED
  BY <1>1, LimitStarts, LimitStep, PTL DEF LimitSpec

LEMMA SlotStaysTyped == SlotSpec => []SlotTypeOK
<1>1. SlotInv => SlotTypeOK
  BY DEF SlotInv
<1> QED
  BY <1>1, SlotStarts, SlotStep, PTL DEF SlotSpec

LEMMA DepositStaysTyped == DepositSpec => []DepositTypeOK
<1>1. DepositInv => DepositTypeOK
  BY DEF DepositInv
<1> QED
  BY <1>1, DepositStarts, DepositStep, PTL DEF DepositSpec

LEMMA PayoutStaysTyped == PayoutSpec => []PayoutTypeOK
<1>1. PayoutInv => PayoutTypeOK
  <2> SUFFICES ASSUME PayoutInv PROVE PayoutTypeOK
    OBVIOUS
  <2>1. PayoutTyped
    BY DEF PayoutInv
  <2>2. ASSUME NEW s \in Senders
        PROVE  /\ DOMAIN sender[s].seen \subseteq Payees
               /\ \A p \in DOMAIN sender[s].seen : sender[s].seen[p] \in Rows
               /\ sender[s].phase \in {"off", "rows", "signed", "recorded", "waiting"}
               /\ sender[s].payee \in Payees \union {NoPayee}
               /\ sender[s].nonce \in Nonces /\ sender[s].tx \in 0..MaxTries
    <3>1. sender[s] \in SenderRows
      BY <2>1 DEF PayoutTyped
    <3>2. PICK D \in SUBSET Payees : sender[s].seen \in [D -> Rows]
      BY <3>1 DEF SenderRows, Seens
    <3> QED
      BY <3>1, <3>2 DEF SenderRows
  <2> QED
    BY <2>1, <2>2 DEF PayoutTyped, PayoutTypeOK, ChainRows
<1> QED
  BY <1>1, PayoutStarts, PayoutNextKeeps, PTL DEF PayoutSpec

LEMMA RewardStaysTyped == RewardSpec => []RewardTypeOK
<1>1. RewardInv => RewardTypeOK
  BY DEF RewardInv
<1> QED
  BY <1>1, RewardStarts, RewardNextKeeps, PTL DEF RewardSpec

LEMMA X402StaysTyped == X402Spec => []X402TypeOK
<1>1. PaymentInv => X402TypeOK
  BY DEF PaymentInv
<1> QED
  BY <1>1, PaymentInductive, PTL

-----------------------------------------------------------------------------
(* The token stream. *)

USE StreamAssumption

LEMMA StreamTypeKept ==
    ASSUME StreamInv, StreamInv', StreamTypeOK, [StreamNext]_streamVars
    PROVE  StreamTypeOK'
<1>1. /\ entry' \in [id : 1..MaxEntries, state : {"new", "pending", "acked"}]
      /\ serving' \in [Carriers -> Servings]
      /\ events' \in Seq(EventRows) /\ tab' \in Tabs
  BY DEF StreamInv, EntryIds
<1>2. Len(events') \in Nat /\ Len(events) \in Nat
  BY <1>1, StreamTypes
<1>3. Len(events') >= Len(events)
  <2>1. events' = events \/ \E e : events' = Append(events, e)
    BY DEF StreamNext, Serve, Requeue, AckEntry, RelayToken, RecordAndSettle, PublishDone, FailsVisibly,
           PublishError, ReleaseHold, ServerCrash, Reclaim, SweepTab, Read, IdleTimeout, ClientLeaves,
           Publishes, streamVars
  <2>2. ASSUME NEW e, events' = Append(events, e) PROVE Len(events') = Len(events) + 1
    BY <2>2 DEF StreamInv
  <2> QED
    BY <1>2, <2>1, <2>2
<1>4. reader' \in [state : {"reading", "completed", "failed", "left"}, cursor : 0..Len(events')]
  <2>0. reader \in [state : {"reading", "completed", "failed", "left"}, cursor : 0..Len(events)]
    BY DEF StreamTypeOK
  <2>1. CASE reader' = reader
    BY <1>2, <1>3, <2>0, <2>1
  <2>2. CASE Read
    <3>1. PICK e : e = events[reader.cursor + 1]
      OBVIOUS
    <3>2. e \in EventRows
      BY <1>2, <2>0, <2>2, <3>1, StreamTypes DEF Read
    <3>3. reader' = [cursor |-> reader.cursor + 1,
                     state |-> CASE e.kind = "done"  -> "completed"
                                 [] e.kind = "error" -> "failed"
                                 [] e.kind = "token" -> "reading"]
      BY <2>2, <3>1 DEF Read
    <3>4. e.kind \in {"done", "error", "token"}
      BY <3>2 DEF EventRows
    <3>5. events' = events /\ reader.cursor + 1 \in 0..Len(events)
      BY <1>2, <2>0, <2>2 DEF Read
    <3> QED
      BY <3>3, <3>4, <3>5
  <2>3. CASE IdleTimeout \/ ClientLeaves
    BY <2>0, <2>3 DEF IdleTimeout, ClientLeaves
  <2> QED
    BY <2>1, <2>2, <2>3 DEF StreamNext, Serve, Requeue, AckEntry, RelayToken, RecordAndSettle, PublishDone,
       FailsVisibly, PublishError, ReleaseHold, ServerCrash, Reclaim, SweepTab, streamVars
<1> QED
  BY <1>1, <1>4 DEF StreamTypeOK, Servings, EventRows, Tabs, EntryIds, Units

LEMMA StreamStaysTyped == StreamSpec => []StreamTypeOK
<1>1. StreamInit => StreamInv /\ StreamTypeOK
  <2> SUFFICES ASSUME StreamInit PROVE StreamTypeOK
    BY StreamStarts
  <2>1. StreamInv
    BY StreamStarts
  <2>2. reader \in [state : {"reading", "completed", "failed", "left"}, cursor : 0..Len(events)]
    BY DEF StreamInit
  <2> QED
    BY <2>1, <2>2 DEF StreamInv, StreamTypeOK, Servings, EventRows, Tabs, EntryIds, Units
<1>2. StreamInv /\ StreamTypeOK /\ [StreamNext]_streamVars => (StreamInv /\ StreamTypeOK)'
  BY StreamKept, StreamTypeKept
<1> QED
  BY <1>1, <1>2, PTL DEF StreamSpec

HIDE StreamAssumption

-----------------------------------------------------------------------------
(* The probe quorum. *)

USE QuorumAssumption

SeatRows == [probe : {"not_started", "running", "failed", "completed"}, lapsed : BOOLEAN,
             attempts : 0..ProbeAttempts, evidence : 0..ProbeAttempts]
CloserRows == [step : {"idle", "listed", "counted"}, outcome : Outcomes]
GroupRows == [status : Statuses, outcome : Outcomes]

\* A completed probe has the number of an attempt as its evidence.
SeatTyped(place) == place \in SeatRows /\ (place.probe = "completed" => place.evidence # 0)
SeatsTyped == \A v \in Seated : SeatTyped(seat[v])

(***************************************************************************)
(* What is inductive beside QuorumInv.                                     *)
(***************************************************************************)
QuorumTyped ==
    /\ phase \in {"open", "grace", "due"} /\ group \in GroupRows
    /\ SeatsTyped
    /\ probing \subseteq Validators \X (1..ProbeAttempts)
    /\ ballot \union votes \subseteq Ballots
    /\ closer \in [Finalizers -> CloserRows]

LEMMA TallyTyped ==
    ASSUME NEW cast
    PROVE  Tally(cast) \in GroupRows /\ FinalOutcome(cast) \in Outcomes
<1>1. Cardinality(Winners(cast)) = 1 => Sole(Winners(cast)) \in Verdicts
  BY SoleWinner
<1> QED
  BY <1>1 DEF Tally, FinalOutcome, GroupRows, Statuses, Outcomes

\* One seat is written, with a place of the type.
LEMMA SeatWritten ==
    ASSUME SeatsTyped, NEW v \in Seated, Seated' = Seated, \A w \in Seated \ {v} : seat'[w] = seat[w],
           NEW place, seat'[v] = place, SeatTyped(place)
    PROVE  SeatsTyped'
BY DEF SeatsTyped, SeatTyped

LEMMA SeatsStayTyped ==
    ASSUME QuorumInv, QuorumTyped, NEW v \in Validators,
           \/ ClaimProbe(v) \/ LeaseLapses(v)
           \/ \E attempt \in 1..ProbeAttempts : MarkCompleted(v, attempt) \/ MarkFailed(v, attempt)
    PROVE  SeatsTyped' /\ probing' \subseteq Validators \X (1..ProbeAttempts)
<1>0. v \in Seated
  BY DEF ClaimProbe, LeaseLapses, MarkCompleted, MarkFailed, QuorumInv, ProbesOK
<1>1. PICK place : place = seat[v]
  OBVIOUS
<1>2. place \in SeatRows /\ (place.probe = "completed" => place.evidence # 0)
  BY <1>0, <1>1 DEF QuorumTyped, SeatsTyped, SeatTyped
<1>3. \A new : seat' = [seat EXCEPT ![v] = new] =>
        Seated' = Seated /\ seat'[v] = new /\ \A w \in Seated \ {v} : seat'[w] = seat[w]
  BY <1>0 DEF Seated
<1>4. CASE ClaimProbe(v)
  <2>1. PICK new : new = [place EXCEPT !.probe = "running", !.lapsed = FALSE, !.attempts = @ + 1]
    OBVIOUS
  <2>2. seat' = [seat EXCEPT ![v] = new]
    BY <1>1, <1>4, <2>1 DEF ClaimProbe
  <2>3. place.attempts < ProbeAttempts
    BY <1>1, <1>4 DEF ClaimProbe
  <2>4. SeatTyped(new)
    <3>1. new = [probe |-> "running", lapsed |-> FALSE, attempts |-> place.attempts + 1,
                 evidence |-> place.evidence]
      BY <1>2, <2>1 DEF SeatRows
    <3>2. place.attempts + 1 \in 0..ProbeAttempts /\ place.evidence \in 0..ProbeAttempts
      BY <1>2, <2>3 DEF SeatRows
    <3> QED
      BY <3>1, <3>2 DEF SeatRows, SeatTyped
  <2>5. place.attempts + 1 \in 1..ProbeAttempts
    BY <1>2, <2>3 DEF SeatRows
  <2>6. probing' \subseteq Validators \X (1..ProbeAttempts)
    BY <1>1, <1>4, <2>5 DEF ClaimProbe, QuorumTyped
  <2> QED
    BY <1>0, <1>3, <2>2, <2>4, <2>6, SeatWritten DEF QuorumTyped
<1>5. CASE LeaseLapses(v)
  <2>1. PICK new : new = [place EXCEPT !.lapsed = TRUE]
    OBVIOUS
  <2>2. seat' = [seat EXCEPT ![v] = new]
    BY <1>1, <1>5, <2>1 DEF LeaseLapses
  <2>3. SeatTyped(new)
    <3>1. new = [probe |-> place.probe, lapsed |-> TRUE, attempts |-> place.attempts,
                 evidence |-> place.evidence]
      BY <1>2, <2>1 DEF SeatRows
    <3> QED
      BY <1>2, <3>1 DEF SeatRows, SeatTyped
  <2> QED
    BY <1>0, <1>3, <1>5, <2>2, <2>3, SeatWritten DEF QuorumTyped, LeaseLapses
<1>6. ASSUME NEW attempt \in 1..ProbeAttempts, MarkCompleted(v, attempt)
      PROVE  SeatsTyped' /\ probing' \subseteq Validators \X (1..ProbeAttempts)
  <2>1. PICK new : new = [place EXCEPT !.probe = "completed", !.lapsed = FALSE, !.evidence = attempt]
    OBVIOUS
  <2>2. seat' = [seat EXCEPT ![v] = new] \/ seat' = seat
    BY <1>1, <1>6, <2>1 DEF MarkCompleted
  <2>3. SeatTyped(new)
    <3>1. new = [probe |-> "completed", lapsed |-> FALSE, attempts |-> place.attempts,
                 evidence |-> attempt]
      BY <1>2, <2>1 DEF SeatRows
    <3>2. attempt \in 0..ProbeAttempts /\ attempt # 0
      OBVIOUS
    <3> QED
      BY <1>2, <3>1, <3>2 DEF SeatRows, SeatTyped
  <2>4. probing' \subseteq Validators \X (1..ProbeAttempts)
    BY <1>6 DEF MarkCompleted, Answered, QuorumTyped
  <2>5. CASE seat' = seat
    BY <2>4, <2>5 DEF QuorumTyped, SeatsTyped, Seated
  <2> QED
    BY <1>0, <1>3, <2>2, <2>3, <2>4, <2>5, SeatWritten DEF QuorumTyped
<1>7. ASSUME NEW attempt \in 1..ProbeAttempts, MarkFailed(v, attempt)
      PROVE  SeatsTyped' /\ probing' \subseteq Validators \X (1..ProbeAttempts)
  <2>1. PICK new : new = [place EXCEPT !.probe = "failed", !.lapsed = FALSE]
    OBVIOUS
  <2>2. seat' = [seat EXCEPT ![v] = new] \/ seat' = seat
    BY <1>1, <1>7, <2>1 DEF MarkFailed
  <2>3. SeatTyped(new)
    BY <1>2, <2>1 DEF SeatRows, SeatTyped
  <2>4. probing' \subseteq Validators \X (1..ProbeAttempts)
    BY <1>7 DEF MarkFailed, Answered, QuorumTyped
  <2>5. CASE seat' = seat
    BY <2>4, <2>5 DEF QuorumTyped, SeatsTyped, Seated
  <2> QED
    BY <1>0, <1>3, <2>2, <2>3, <2>4, <2>5, SeatWritten DEF QuorumTyped
<1> QED
  BY <1>4, <1>5, <1>6, <1>7

LEMMA TakeSeatTyped ==
    ASSUME QuorumTyped, NEW v \in Validators, TakeSeat(v)
    PROVE  SeatsTyped'
<1>1. SeatTyped(NoProbe)
  BY DEF NoProbe, SeatRows, SeatTyped
<1>2. CASE seat' = seat
  BY <1>2 DEF QuorumTyped, SeatsTyped, Seated
<1>3. CASE seat' = [w \in Seated \union {v} |-> IF w = v THEN NoProbe ELSE seat[w]]
  <2>1. Seated' = Seated \union {v} /\ seat'[v] = NoProbe /\ \A w \in Seated \ {v} : seat'[w] = seat[w]
    BY <1>3 DEF Seated
  <2> QED
    BY <1>1, <2>1 DEF QuorumTyped, SeatsTyped
<1> QED
  BY <1>2, <1>3 DEF TakeSeat

LEMMA VotesStayTyped ==
    ASSUME QuorumTyped,
           CommitVote \/ VoteFails \/ \E v \in Validators, verdict \in Verdicts : Attest(v, verdict)
    PROVE  ballot' \union votes' \subseteq Ballots
<1>1. CASE CommitVote \/ VoteFails
  BY <1>1 DEF CommitVote, VoteFails, QuorumTyped
<1>2. ASSUME NEW v \in Validators, NEW verdict \in Verdicts, Attest(v, verdict)
      PROVE  ballot' \union votes' \subseteq Ballots
  <2>1. SeatTyped(seat[v]) /\ seat[v].probe = "completed"
    BY <1>2 DEF Attest, QuorumTyped, SeatsTyped
  <2>2. seat[v].evidence \in 1..ProbeAttempts
    BY <2>1 DEF SeatTyped, SeatRows
  <2>3. ballot' = {[validator |-> v, verdict |-> verdict, evidence |-> seat[v].evidence]} /\ votes' = votes
    BY <1>2 DEF Attest
  <2> QED
    BY <2>2, <2>3 DEF QuorumTyped, Ballots
<1> QED
  BY <1>1, <1>2

LEMMA ClosersStayTyped ==
    ASSUME QuorumTyped, NEW f \in Finalizers,
           ListDue(f) \/ CountDue(f) \/ WriteFinal(f) \/ PollDies(f)
    PROVE  closer' \in [Finalizers -> CloserRows] /\ group' \in GroupRows
<1>1. NoOutcome \in Outcomes /\ Idle \in CloserRows
  BY DEF Outcomes, Idle, CloserRows
<1>2. closer[f] \in CloserRows /\ [closer[f] EXCEPT !.step = "listed"] \in CloserRows
  BY DEF QuorumTyped, CloserRows
<1>3. [step |-> "counted", outcome |-> FinalOutcome(votes)] \in CloserRows
  BY TallyTyped DEF CloserRows
<1>4. closer' \in [Finalizers -> CloserRows]
  BY <1>1, <1>2, <1>3 DEF QuorumTyped, ListDue, CountDue, WriteFinal, PollDies
<1>5. [status |-> "finalized", outcome |-> closer[f].outcome] \in GroupRows
  BY <1>2 DEF CloserRows, GroupRows, Statuses
<1> QED
  BY <1>4, <1>5 DEF QuorumTyped, ListDue, CountDue, WriteFinal, PollDies

LEMMA QuorumTypedKept ==
    ASSUME QuorumInv, QuorumTyped, [QuorumNext]_quorumVars
    PROVE  QuorumTyped'
<1>1. ASSUME NEW v \in Validators,
             \/ ClaimProbe(v) \/ LeaseLapses(v)
             \/ \E attempt \in 1..ProbeAttempts : MarkCompleted(v, attempt) \/ MarkFailed(v, attempt)
      PROVE  QuorumTyped'
  <2>1. UNCHANGED <<phase, group, ballot, votes, closer>>
    BY <1>1 DEF ClaimProbe, LeaseLapses, MarkCompleted, MarkFailed
  <2>2. SeatsTyped' /\ probing' \subseteq Validators \X (1..ProbeAttempts)
    BY <1>1, SeatsStayTyped
  <2> QED
    BY <2>1, <2>2 DEF QuorumTyped
<1>2. ASSUME NEW v \in Validators, DecideSeat(v) \/ TakeSeat(v) PROVE QuorumTyped'
  <2>1. UNCHANGED <<phase, group, probing, ballot, votes, closer>>
    BY <1>2 DEF DecideSeat, TakeSeat
  <2>2. SeatsTyped'
    BY <1>2, TakeSeatTyped DEF DecideSeat, QuorumTyped, SeatsTyped, Seated
  <2> QED
    BY <2>1, <2>2 DEF QuorumTyped
<1>3. CASE CommitVote \/ VoteFails \/ \E v \in Validators, verdict \in Verdicts : Attest(v, verdict)
  <2>1. UNCHANGED <<phase, seat, probing, closer>>
    BY <1>3 DEF CommitVote, VoteFails, Attest
  <2>2. group' \in GroupRows
    BY <1>3, TallyTyped DEF CommitVote, VoteFails, Attest, QuorumTyped
  <2>3. ballot' \union votes' \subseteq Ballots
    BY <1>3, VotesStayTyped
  <2> QED
    BY <2>1, <2>2, <2>3 DEF QuorumTyped, SeatsTyped, Seated
<1>4. ASSUME NEW f \in Finalizers, ListDue(f) \/ CountDue(f) \/ WriteFinal(f) \/ PollDies(f)
      PROVE  QuorumTyped'
  <2>1. UNCHANGED <<phase, seat, probing, ballot, votes>>
    BY <1>4 DEF ListDue, CountDue, WriteFinal, PollDies
  <2>2. closer' \in [Finalizers -> CloserRows] /\ group' \in GroupRows
    BY <1>4, ClosersStayTyped
  <2> QED
    BY <2>1, <2>2 DEF QuorumTyped, SeatsTyped, Seated
<1>5. CASE TimePasses \/ UNCHANGED quorumVars
  BY <1>5 DEF TimePasses, quorumVars, QuorumTyped, SeatsTyped, Seated
<1> QED
  BY <1>1, <1>2, <1>3, <1>4, <1>5 DEF QuorumNext

LEMMA QuorumHasTypes == ASSUME QuorumInv, QuorumTyped PROVE QuorumTypeOK
<1>1. Cardinality(ballot) <= 1
  <2>1. Cardinality({}) = 0 /\ \A b : Cardinality({b}) = 1
    BY FS_EmptySet, FS_Singleton
  <2>2. CASE ballot = {}
    BY <2>1, <2>2
  <2>3. CASE \E b : ballot = {b}
    BY <2>1, <2>3
  <2> QED
    BY <2>2, <2>3 DEF QuorumInv, VotesOK
<1>2. verdicts \subseteq Verdicts
  BY DEF QuorumInv, ShownOK, Winners
<1>3. issuing \subseteq Validators /\ DOMAIN seat \subseteq Validators
  BY DEF QuorumInv, SeatsOK, Seated
<1> QED
  BY <1>1, <1>2, <1>3 DEF QuorumTyped, QuorumTypeOK, SeatsTyped, SeatTyped, SeatRows, CloserRows, GroupRows, Seated

LEMMA QuorumStaysTyped == QuorumSpec => []QuorumTypeOK
<1>1. QuorumInit => QuorumInv /\ QuorumTyped
  <2> SUFFICES ASSUME QuorumInit PROVE QuorumTyped
    BY QuorumStarts
  <2> QED
    BY DEF QuorumInit, QuorumTyped, SeatsTyped, Seated, GroupRows, CloserRows, Idle, Statuses, Outcomes
<1>2. QuorumInv /\ QuorumTyped /\ [QuorumNext]_quorumVars => (QuorumInv /\ QuorumTyped)'
  BY QuorumKept, QuorumTypedKept
<1>3. QuorumInv /\ QuorumTyped => QuorumTypeOK
  BY QuorumHasTypes
<1> QED
  BY <1>1, <1>2, <1>3, PTL DEF QuorumSpec

HIDE QuorumAssumption

-----------------------------------------------------------------------------
(* Enrollment. *)

USE EnrollmentAssumption

\* Locks are held by requests; EnrollInv has the rest.
LocksTyped ==
    /\ guard \in [Enrollments -> Visits \union {Nobody}]
    /\ rowLock \in [Enrollments -> Visits \union {Nobody}]
    /\ faults \in 0..MaxFaults /\ mergedAway \in BOOLEAN

LEMMA LocksFree ==
    ASSUME LocksTyped, NEW v \in Visits, GoesAway(v)
    PROVE  /\ guard' \in [Enrollments -> Visits \union {Nobody}]
           /\ rowLock' \in [Enrollments -> Visits \union {Nobody}]
BY DEF LocksTyped, GoesAway

LEMMA FaultsTyped ==
    ASSUME LocksTyped, NoFault \/ Fault
    PROVE  faults' \in 0..MaxFaults /\ mergedAway' \in BOOLEAN
BY DEF LocksTyped, NoFault, Fault

LEMMA VisitLocksTyped ==
    ASSUME LocksTyped, NEW v \in Visits,
           \/ \E e \in Enrollments, kind \in Kinds : Loads(v, e, kind)
           \/ Ends(v) \/ SavePrepared(v)
           \/ InstallKey(v) \/ InstallUnheard(v)
           \/ PublishCertificate(v) \/ PublishFails(v) \/ UndoInstall(v)
           \/ ReadLabel(v) \/ WriteOwnRow(v) \/ RevokeOlder(v) \/ PublishActivated(v)
    PROVE  LocksTyped'
<1>1. faults' \in 0..MaxFaults /\ mergedAway' \in BOOLEAN
  <2>1. NoFault \/ Fault
    BY DEF Loads, Ends, SavePrepared, InstallKey, InstallUnheard, PublishCertificate, PublishFails,
           UndoInstall, ReadLabel, WriteOwnRow, RevokeOlder, PublishActivated
  <2> QED
    BY <2>1, FaultsTyped
<1>2. CASE GoesAway(v)
  BY <1>1, <1>2, LocksFree DEF LocksTyped
<1>3. ASSUME NEW e \in Enrollments, NEW kind \in Kinds, Loads(v, e, kind) PROVE LocksTyped'
  <2>1. guard' = [guard EXCEPT ![e] = v] /\ rowLock' = rowLock
    BY <1>3 DEF Loads
  <2> QED
    BY <1>1, <2>1 DEF LocksTyped
<1>4. CASE InstallKey(v) \/ PublishFails(v) \/ ReadLabel(v)
  <2>1. UNCHANGED <<guard, rowLock>>
    BY <1>4 DEF InstallKey, PublishFails, ReadLabel
  <2> QED
    BY <1>1, <2>1 DEF LocksTyped
<1>5. CASE WriteOwnRow(v) \/ RevokeOlder(v)
  <2>1. PICK e : e = visit[v].at
    OBVIOUS
  <2>2. guard' = guard /\ (rowLock' = [rowLock EXCEPT ![e] = v] \/ rowLock' = [rowLock EXCEPT ![e] = Nobody])
    BY <1>5, <2>1 DEF WriteOwnRow, RevokeOlder
  <2> QED
    BY <1>1, <2>2 DEF LocksTyped
<1> QED
  BY <1>2, <1>3, <1>4, <1>5 DEF Ends, SavePrepared, InstallUnheard, PublishCertificate, UndoInstall, PublishActivated

LEMMA LocksStayTyped == ASSUME LocksTyped, [EnrollNext]_enrollVars PROVE LocksTyped'
<1>1. CASE UNCHANGED enrollVars
  BY <1>1 DEF enrollVars, LocksTyped
<1>2. ASSUME NEW e \in Enrollments, Lapses(e) PROVE LocksTyped'
  <2>1. guard' = [guard EXCEPT ![e] = Nobody] /\ rowLock' = rowLock /\ Fault
    BY <1>2 DEF Lapses
  <2> QED
    BY <2>1, FaultsTyped DEF LocksTyped
<1>3. ASSUME NEW e \in Enrollments, RecordExpires(e) \/ OwnerRevokes(e) PROVE LocksTyped'
  <2>1. UNCHANGED <<guard, rowLock>> /\ NoFault
    BY <1>3 DEF RecordExpires, OwnerRevokes
  <2> QED
    BY <2>1, FaultsTyped DEF LocksTyped
<1>4. CASE MergeOwner
  BY <1>4 DEF MergeOwner, LocksTyped
<1> QED
  BY <1>1, <1>2, <1>3, <1>4, VisitLocksTyped DEF EnrollNext

LEMMA EnrollStaysTyped == EnrollSpec => []EnrollTypeOK
<1>1. EnrollInit => EnrollInv /\ LocksTyped
  <2> SUFFICES ASSUME EnrollInit PROVE LocksTyped
    BY EnrollStarts
  <2>1. 0 \in 0..MaxFaults
    OBVIOUS
  <2> QED
    BY <2>1, Zenon DEF EnrollInit, LocksTyped
<1>2. EnrollInv /\ LocksTyped /\ [EnrollNext]_enrollVars => (EnrollInv /\ LocksTyped)'
  BY EnrollKept, LocksStayTyped
<1>3. EnrollInv /\ LocksTyped => EnrollTypeOK
  BY DEF EnrollInv, LocksTyped, EnrollTypeOK, TicketRows, KeyRows, VisitRows, Steps
<1> QED
  BY <1>1, <1>2, <1>3, PTL DEF EnrollSpec

HIDE EnrollmentAssumption

-----------------------------------------------------------------------------
(* Audit budgets. *)

USE AuditAssumption

\* What is inductive beside AuditInv: reservations and caps are configured
\* ones, an audit works what it may, and a counter is of some job and hour.
JobTyped(j) == audit[j].units \in AuditUnits \union {0} /\ audit[j].actual \in 0..TopUnits

CountersTyped ==
    /\ DOMAIN counter \subseteq UNION {CountersIn(h, j) : h \in Hours, j \in AuditJobs}
    /\ \A k \in DOMAIN counter : counter[k].cap \in HourlyCaps

AuditTyped ==
    /\ CountersTyped
    /\ \A j \in AuditJobs : JobTyped(j)
    /\ demand \subseteq AuditJobs /\ expired \subseteq AuditJobs
    /\ doubled \subseteq AuditJobs /\ listed \subseteq AuditJobs

LEMMA CapsOnTop == \A cap \in HourlyCaps : cap \in Nat /\ cap <= TopUnits
<1>1. /\ AuditUnits \union HourlyCaps \subseteq Int /\ AuditUnits \union HourlyCaps # {}
      /\ HourlyCaps \subseteq Nat
  OBVIOUS
<1>2. IsFiniteSet(AuditUnits \union HourlyCaps)
  BY FS_Union
<1>3. \A x \in AuditUnits \union HourlyCaps : x <= TopUnits
  BY <1>1, <1>2, MaxOf DEF TopUnits
<1> QED
  BY <1>1, <1>3

LEMMA CountersReturn ==
    ASSUME CountersTyped, NEW j \in AuditJobs, NEW actual, Returned(j, actual)
    PROVE  CountersTyped'
<1>1. DOMAIN counter' = DOMAIN counter /\ \A k \in DOMAIN counter : counter'[k].cap = counter[k].cap
  BY DEF Returned
<1> QED
  BY <1>1 DEF CountersTyped

LEMMA CountersOpen ==
    ASSUME AuditInv, CountersTyped, NEW j \in AuditJobs, NEW units \in AuditUnits, NEW cap \in HourlyCaps,
           ReserveAudit(j, units, cap)
    PROVE  CountersTyped'
<1>1. PICK K : K = CountersIn(hour, j)
  OBVIOUS
<1>2. counter' = [k \in DOMAIN counter \union K |->
         IF k \in K THEN [Opened(k, cap) EXCEPT !.reserved = @ + units] ELSE counter[k]]
  BY <1>1 DEF ReserveAudit
<1>3. \A k \in K : Opened(k, cap) \in [cap : HourlyCaps, reserved : Nat, spent : Nat]
  <2> TAKE k \in K
  <2>1. CASE k \in DOMAIN counter
    <3>1. counter[k] \in CounterRows /\ counter[k].cap \in HourlyCaps
      BY <2>1, AuditTypes DEF CountersTyped
    <3> QED
      BY <2>1, <3>1 DEF CounterRows, Opened
  <2>2. CASE k \notin DOMAIN counter
    BY <2>2 DEF Opened
  <2> QED
    BY <2>1, <2>2
<1>4. \A k \in K : counter'[k].cap \in HourlyCaps
  BY <1>2, <1>3
<1>5. \A k \in DOMAIN counter \ K : counter'[k] = counter[k]
  BY <1>2
<1>6. DOMAIN counter' = DOMAIN counter \union K
  BY <1>2
<1>7. K \subseteq UNION {CountersIn(h, i) : h \in Hours, i \in AuditJobs}
  BY <1>1 DEF AuditInv
<1> QED
  BY <1>4, <1>5, <1>6, <1>7 DEF CountersTyped

\* One audit changes.
LEMMA JobChanges ==
    ASSUME AuditInv, \A i \in AuditJobs : JobTyped(i), NEW j \in AuditJobs, NEW row1,
           audit' = [audit EXCEPT ![j] = row1],
           row1.units \in AuditUnits \union {0}, row1.actual \in 0..TopUnits
    PROVE  \A i \in AuditJobs : JobTyped(i)'
<1>1. \A i \in AuditJobs : audit'[i] = IF i = j THEN row1 ELSE audit[i]
  BY DEF AuditInv
<1> QED
  BY <1>1 DEF JobTyped

LEMMA JobCloses ==
    ASSUME AuditInv, \A i \in AuditJobs : JobTyped(i), NEW j \in AuditJobs, NEW status, Close(j, status)
    PROVE  \A i \in AuditJobs : JobTyped(i)'
<1>1. PICK row1 : row1 = [audit[j] EXCEPT !.status = status]
  OBVIOUS
<1>2. audit[j] \in AuditRows
  BY DEF AuditInv
<1>3. row1.units = audit[j].units /\ row1.actual = audit[j].actual
  BY <1>1, <1>2 DEF AuditRows
<1>4. audit' = [audit EXCEPT ![j] = row1]
  BY <1>1 DEF Close
<1> QED
  BY <1>3, <1>4, JobChanges DEF JobTyped

LEMMA NoAuditMoves ==
    ASSUME AuditTyped, UNCHANGED <<audit, counter>>
    PROVE  CountersTyped' /\ \A i \in AuditJobs : JobTyped(i)'
BY DEF AuditTyped, CountersTyped, JobTyped

LEMMA AuditTypedKept ==
    ASSUME AuditInv, AuditTyped, [AuditNext]_auditVars
    PROVE  AuditTyped'
<1>1. demand' \subseteq AuditJobs /\ expired' \subseteq AuditJobs
      /\ doubled' \subseteq AuditJobs /\ listed' \subseteq AuditJobs
  BY DEF AuditTyped, AuditNext, auditVars, ListExpired, SweepStops, NextHour, ReserveAudit, AuditTerminal,
         ReserveDemand, OtherTerminal, DuplicateTerminal, ReconcileDuplicate, ReleaseAudit, AuditExpires,
         SweepAudit
<1>2. CountersTyped' /\ \A i \in AuditJobs : JobTyped(i)'
  <2>0. CountersTyped /\ \A i \in AuditJobs : JobTyped(i)
    BY DEF AuditTyped
  <2>1. CASE UNCHANGED <<audit, counter>>
    BY <2>1, NoAuditMoves
  <2>2. ASSUME NEW j \in AuditJobs, NEW units \in AuditUnits, NEW cap \in HourlyCaps,
               ReserveAudit(j, units, cap)
        PROVE  CountersTyped' /\ \A i \in AuditJobs : JobTyped(i)'
    <3>1. PICK row1 : row1 = [status |-> "held", hour |-> hour, units |-> units, actual |-> 0]
      OBVIOUS
    <3>2. audit' = [audit EXCEPT ![j] = row1]
      BY <2>2, <3>1 DEF ReserveAudit
    <3>3. row1.units \in AuditUnits \union {0} /\ row1.actual \in 0..TopUnits
      BY <3>1, CapsAreNat
    <3> QED
      BY <2>0, <2>2, <3>2, <3>3, JobChanges, CountersOpen
  <2>3. ASSUME NEW j \in AuditJobs, NEW actual \in 1..TopUnits, AuditTerminal(j, actual)
        PROVE  CountersTyped' /\ \A i \in AuditJobs : JobTyped(i)'
    <3>1. PICK row1 : row1 = [audit[j] EXCEPT !.status = "settled", !.actual = actual]
      OBVIOUS
    <3>2. audit' = [audit EXCEPT ![j] = row1] /\ Returned(j, actual)
      BY <2>3, <3>1 DEF AuditTerminal
    <3>3. audit[j] \in AuditRows /\ audit[j].units \in AuditUnits \union {0}
      BY <2>0 DEF AuditInv, JobTyped
    <3>4. row1.units = audit[j].units /\ row1.actual = actual
      BY <3>1, <3>3 DEF AuditRows
    <3>5. row1.actual \in 0..TopUnits
      BY <3>4
    <3> QED
      BY <2>0, <3>2, <3>3, <3>4, <3>5, JobChanges, CountersReturn
  <2>4. ASSUME NEW j \in AuditJobs, NEW status, Close(j, status), counter' = counter \/ Returned(j, 0)
        PROVE  CountersTyped' /\ \A i \in AuditJobs : JobTyped(i)'
    <3>1. CountersTyped'
      BY <2>0, <2>4, CountersReturn DEF CountersTyped
    <3> QED
      BY <2>0, <2>4, <3>1, JobCloses
  <2>5. ASSUME NEW j \in AuditJobs, ReconcileDuplicate(j) \/ ReleaseAudit(j) \/ SweepAudit(j)
        PROVE  \/ UNCHANGED <<audit, counter>>
               \/ \E status : Close(j, status) /\ (counter' = counter \/ Returned(j, 0))
    BY <2>5 DEF ReconcileDuplicate, ReleaseAudit, SweepAudit
  <2>6. CASE ListExpired \/ SweepStops \/ NextHour \/ UNCHANGED auditVars
    BY <2>1, <2>6 DEF ListExpired, SweepStops, NextHour, auditVars
  <2>7. ASSUME NEW j \in AuditJobs, ReserveDemand(j) \/ OtherTerminal(j) \/ DuplicateTerminal(j) \/ AuditExpires(j)
        PROVE  UNCHANGED <<audit, counter>>
    BY <2>7 DEF ReserveDemand, OtherTerminal, DuplicateTerminal, AuditExpires
  <2> QED
    BY <2>1, <2>2, <2>3, <2>4, <2>5, <2>6, <2>7 DEF AuditNext
<1> QED
  BY <1>1, <1>2 DEF AuditTyped

LEMMA AuditHasTypes == ASSUME AuditInv, AuditTyped PROVE AuditTypeOK
<1>1. \A k \in DOMAIN counter : counter[k] \in [cap : HourlyCaps, reserved : 0..TopUnits, spent : 0..TopUnits]
  <2> TAKE k \in DOMAIN counter
  <2>1. counter[k] \in CounterRows /\ counter[k].reserved + counter[k].spent <= counter[k].cap
    BY AuditTypes DEF AuditInv, CounterExact
  <2>2. counter[k].cap \in HourlyCaps /\ counter[k].cap \in Nat /\ counter[k].cap <= TopUnits
    <3>1. counter[k].cap \in HourlyCaps
      BY DEF AuditTyped, CountersTyped
    <3> QED
      BY <3>1, CapsOnTop
  <2>3. counter[k].reserved \in 0..TopUnits /\ counter[k].spent \in 0..TopUnits
    BY <2>1, <2>2, CapsAreNat DEF CounterRows
  <2> QED
    BY <2>1, <2>2, <2>3 DEF CounterRows
<1>2. audit \in [AuditJobs -> [status : {"none", "held", "settled", "released", "manual_review"},
                              hour : Hours, units : AuditUnits \union {0}, actual : 0..TopUnits]]
  BY DEF AuditInv, AuditTyped, JobTyped, AuditRows
<1> QED
  BY <1>1, <1>2 DEF AuditTypeOK, AuditInv, AuditTyped, CountersTyped

LEMMA AuditStaysTyped == AuditSpec => []AuditTypeOK
<1>1. AuditInit => AuditInv /\ AuditTyped
  <2> SUFFICES ASSUME AuditInit PROVE AuditTyped
    BY AuditStarts
  <2>1. \A j \in AuditJobs : audit[j].units = 0 /\ audit[j].actual = 0
    BY DEF AuditInit, NoAudit
  <2> QED
    BY <2>1, CapsAreNat DEF AuditInit, AuditTyped, CountersTyped, JobTyped
<1>2. AuditInv /\ AuditTyped /\ [AuditNext]_auditVars => (AuditInv /\ AuditTyped)'
  BY AuditStep, AuditTypedKept
<1>3. AuditInv /\ AuditTyped => AuditTypeOK
  BY AuditHasTypes
<1> QED
  BY <1>1, <1>2, <1>3, PTL DEF AuditSpec

HIDE AuditAssumption

-----------------------------------------------------------------------------
(* The consents, and the association under them. *)

USE LinkAssumption
USE ConsentAssumption

LinkRows == [id : PairingIds \union {0}, key : Keys, operator : Humans \union {NoHuman}, revoked : BOOLEAN]

LEMMA AssociationTypeKept ==
    ASSUME AssociationTypeOK, AssociationNext \/ UNCHANGED identityVars
    PROVE  AssociationTypeOK'
<1>0. link \in LinkRows /\ key \in Keys /\ retired \subseteq Humans \union {NodeAccount}
  BY DEF AssociationTypeOK, LinkRows
<1>1. CASE Unlink \/ UnlinkFromNode
  <2>1. link' = [link EXCEPT !.revoked = TRUE] /\ UNCHANGED <<key, retired>>
    BY <1>1 DEF Unlink, UnlinkFromNode, Dissociate
  <2>2. link' \in LinkRows
    BY <1>0, <2>1 DEF LinkRows
  <2> QED
    BY <1>0, <2>1, <2>2 DEF AssociationTypeOK, LinkRows
<1>2. ASSUME NEW h \in Humans, NEW id \in PairingIds, Associate(id, h) PROVE AssociationTypeOK'
  <2>1. link' \in LinkRows /\ UNCHANGED <<key, retired>>
    BY <1>0, <1>2 DEF Associate, LinkRows
  <2> QED
    BY <1>0, <2>1 DEF AssociationTypeOK, LinkRows
<1>3. ASSUME NEW k \in Keys, Rotate(k) PROVE AssociationTypeOK'
  BY <1>0, <1>3 DEF Rotate, AssociationTypeOK, LinkRows
<1>4. ASSUME NEW x \in Humans \union {NodeAccount}, RetireAccount(x) PROVE AssociationTypeOK'
  BY <1>0, <1>4 DEF RetireAccount, AssociationTypeOK, LinkRows
<1>5. CASE UNCHANGED identityVars
  BY <1>5 DEF identityVars, AssociationTypeOK
<1> QED
  BY <1>1, <1>2, <1>3, <1>4, <1>5 DEF AssociationNext

RequestRows == [id : RequestIds \union {0}, pairing : PairingIds \union {0},
                operator : Humans \union {NoHuman}, consent : Consents,
                wallet : Consents, node : Consents,
                status : {"none", "awaiting_wallet", "awaiting_node", "review_required", "cancelled"}]
ReadingRows == [id : RequestIds, consent : Consents]
Dossiers == [consent : Consents, wallet : Consents, node : Consents]

LEMMA ConsentColumns ==
    ASSUME ConsentTypeOK
    PROVE  /\ request \in RequestRows /\ recipient \in Consents /\ dossier \subseteq Dossiers
           /\ request.id \in Nat /\ request.consent \in Consents /\ request.wallet \in Consents
           /\ request.node \in Consents /\ request.consent.no \in Nat
           /\ request.id # 0 => request.id \in RequestIds
           /\ \A s \in DOMAIN reading : reading[s] \in ReadingRows /\ reading[s].consent \in Consents
<1>1. /\ request \in RequestRows /\ recipient \in Consents /\ dossier \subseteq Dossiers
      /\ \A s \in DOMAIN reading : reading[s] \in ReadingRows
  BY DEF ConsentTypeOK, RequestRows, Dossiers, ReadingRows
<1>2. /\ request.id \in RequestIds \union {0} /\ request.consent \in Consents /\ request.wallet \in Consents
      /\ request.node \in Consents
  BY <1>1 DEF RequestRows
<1>3. request.consent.no \in Nat
  BY <1>2 DEF Consents, NoConsent
<1> QED
  BY <1>1, <1>2, <1>3 DEF RequestIds, ReadingRows

LEMMA NoConsentTyped == NoConsent \in Consents
BY DEF Consents

\* Only the request is written.
LEMMA RequestWritten ==
    ASSUME ConsentTypeOK, request' \in RequestRows,
           UNCHANGED <<overdue, reading, dossier, recipient, dropped>>
    PROVE  ConsentTypeOK'
BY DEF ConsentTypeOK, RequestRows

LEMMA StartTyped == ASSUME ConsentTypeOK, AssociationTypeOK, StartRequest PROVE ConsentTypeOK'
<1>1. link.id \in PairingIds \union {0} /\ link.operator \in Humans \union {NoHuman}
  BY DEF AssociationTypeOK
<1>2. request.id + 1 \in RequestIds
  BY ConsentColumns DEF StartRequest, RequestIds
<1>3. request' \in RequestRows
  BY <1>1, <1>2, NoConsentTyped DEF StartRequest, RequestRows
<1> QED
  BY <1>3, RequestWritten DEF StartRequest

LEMMA PrepareTyped == ASSUME ConsentTypeOK, NEW to \in Destinations, Prepare(to) PROVE ConsentTypeOK'
<1>1. PICK new : new = [to |-> to, request |-> request.id, no |-> request.consent.no + 1]
  OBVIOUS
<1>2. request.id \in RequestIds /\ request.consent.no + 1 \in 1..MaxConsents
  BY ConsentColumns DEF Prepare, Stands
<1>3. new \in Consents
  BY <1>1, <1>2 DEF Consents
<1>4. request' = [request EXCEPT !.consent = new]
  BY <1>1 DEF Prepare
<1>5. request' \in RequestRows
  BY <1>3, <1>4, ConsentColumns DEF RequestRows
<1> QED
  BY <1>5, RequestWritten DEF Prepare

LEMMA ReadTyped == ASSUME ConsentTypeOK, NEW s \in Sides, ReadConsent(s) PROVE ConsentTypeOK'
<1>1. PICK new : new = [id |-> request.id, consent |-> request.consent]
  OBVIOUS
<1>2. new \in ReadingRows
  BY <1>1, ConsentColumns DEF ReadConsent, Stands, ReadingRows
<1>3. reading' = [t \in DOMAIN reading \union {s} |-> IF t = s THEN new ELSE reading[t]]
  BY <1>1 DEF ReadConsent
<1>4. DOMAIN reading' \subseteq Sides /\ \A t \in DOMAIN reading' : reading'[t] \in ReadingRows
  BY <1>2, <1>3, ConsentColumns DEF ConsentTypeOK
<1> QED
  BY <1>4 DEF ReadConsent, ConsentTypeOK, ReadingRows

LEMMA RecordTyped == ASSUME ConsentTypeOK, NEW s \in Sides, RecordApproval(s) PROVE ConsentTypeOK'
<1>1. PICK new : new = reading[s].consent
  OBVIOUS
<1>2. new \in Consents
  BY <1>1, ConsentColumns DEF RecordApproval
<1>3. \/ request' = [request EXCEPT !.status = "awaiting_node", !.wallet = new]
      \/ request' = [request EXCEPT !.status = "review_required", !.node = new]
      \/ request' = request
  BY <1>1 DEF RecordApproval
<1>4. request' \in RequestRows
  BY <1>2, <1>3, ConsentColumns DEF RequestRows
<1>5. DOMAIN reading' \subseteq Sides /\ \A t \in DOMAIN reading' : reading'[t] \in ReadingRows
  BY ConsentColumns DEF RecordApproval, ConsentTypeOK
<1> QED
  BY <1>4, <1>5 DEF RecordApproval, ConsentTypeOK, RequestRows, ReadingRows

LEMMA CancelTyped == ASSUME ConsentTypeOK, CancelRequest PROVE ConsentTypeOK'
<1>1. request' \in RequestRows
  <2>1. request \in RequestRows /\ request' = [request EXCEPT !.status = "cancelled"]
    BY ConsentColumns DEF CancelRequest
  <2> QED
    BY <2>1 DEF RequestRows
<1>2. request.id \in RequestIds
  BY ConsentColumns DEF CancelRequest, Stands
<1> QED
  BY <1>1, <1>2 DEF CancelRequest, ConsentTypeOK, RequestRows

LEMMA ExportTyped == ASSUME ConsentTypeOK, ExportForReview PROVE ConsentTypeOK'
<1>1. dossier' \subseteq Dossiers
  BY ConsentColumns DEF ExportForReview, Dossiers
<1> QED
  BY <1>1 DEF ExportForReview, ConsentTypeOK, Dossiers

LEMMA BindTyped == ASSUME ConsentTypeOK, NEW d \in dossier, BindRecipient(d) PROVE ConsentTypeOK'
<1>1. recipient' \in Consents
  BY ConsentColumns DEF BindRecipient, Dossiers
<1> QED
  BY <1>1 DEF BindRecipient, ConsentTypeOK

LEMMA ExpiresTyped == ASSUME ConsentTypeOK, RequestExpires PROVE ConsentTypeOK'
<1>1. request.id \in RequestIds
  BY ConsentColumns DEF RequestExpires
<1> QED
  BY <1>1 DEF RequestExpires, ConsentTypeOK

LEMMA ConsentTypeKept ==
    ASSUME AssociationTypeOK, ConsentTypeOK, [ConsentNext]_<<identityVars, consentVars>>
    PROVE  (AssociationTypeOK /\ ConsentTypeOK)'
<1>1. CASE ConsentStep /\ UNCHANGED identityVars
  <2>1. ConsentTypeOK'
    BY <1>1, StartTyped, PrepareTyped, ReadTyped, RecordTyped, CancelTyped, ExportTyped, BindTyped,
       ExpiresTyped DEF ConsentStep
  <2> QED
    BY <1>1, <2>1, AssociationTypeKept
<1>2. CASE (AssociationNext \/ UNCHANGED identityVars) /\ UNCHANGED consentVars
  <2>1. ConsentTypeOK'
    BY <1>2 DEF consentVars, ConsentTypeOK
  <2> QED
    BY <1>2, <2>1, AssociationTypeKept
<1> QED
  BY <1>1, <1>2 DEF ConsentNext

LEMMA ConsentTypeStarts == AssociationInit /\ ConsentInit => AssociationTypeOK /\ ConsentTypeOK
<1> SUFFICES ASSUME AssociationInit, ConsentInit PROVE AssociationTypeOK /\ ConsentTypeOK
  OBVIOUS
<1>1. AssociationTypeOK
  BY DEF AssociationInit, AssociationTypeOK, NoLink
<1>2. request \in RequestRows
  BY NoConsentTyped DEF ConsentInit, NoRequest, RequestRows
<1> QED
  BY <1>1, <1>2, NoConsentTyped DEF ConsentInit, ConsentTypeOK, RequestRows

HIDE ConsentAssumption
HIDE LinkAssumption

-----------------------------------------------------------------------------
(* Campaigns. *)

USE CampaignAssumption

\* What is inductive beside CampaignInv.
CampaignTyped ==
    /\ \A c \in Created : campaign[c].status \in {"open", "finalized"} /\ InCaps(c, campaign[c].paid)
    /\ Len(report) <= MaxReports
    /\ \A w \in work : w.of \in Created
    /\ \A s \in shown : s.of \in Created /\ s.claims \subseteq 1..MaxReports
    /\ changed \subseteq Members

LEMMA OpenTyped == Open.status = "open" /\ \A c : InCaps(c, Open.paid)
BY DEF Open, InCaps

LEMMA CreateTyped ==
    ASSUME CampaignInv, CampaignTyped, NEW c \in Contracts, CreateCampaign(c)
    PROVE  CampaignTyped'
<1>1. /\ campaign' = [d \in Created \union {c} |-> IF d = c THEN Open ELSE campaign[d]]
      /\ UNCHANGED <<report, work, shown, changed>>
  BY DEF CreateCampaign
<1>2. /\ Created' = Created \union {c}
      /\ \A d \in Created' : campaign'[d] = Open \/ (d \in Created /\ campaign'[d] = campaign[d])
  BY <1>1 DEF Created
<1>3. ASSUME NEW d \in Created'
      PROVE  campaign'[d].status \in {"open", "finalized"} /\ InCaps(d, campaign'[d].paid)
  BY <1>2, OpenTyped DEF CampaignTyped
<1>4. \A d \in Created' : InCaps(d, campaign'[d].paid) => InCaps(d, campaign[d].paid)'
  BY DEF InCaps
<1> QED
  BY <1>1, <1>2, <1>3, <1>4 DEF CampaignTyped

LEMMA IncludedRange ==
    ASSUME CampaignInv, NEW c
    PROVE  /\ Included(c) \subseteq 1..Len(report) /\ Len(report) \in Nat
           /\ IsFiniteSet(Included(c))
           /\ \A n \in Included(c) : report[n].operator \in c.members
<1>1. Len(report) \in Nat
  BY DEF CampaignInv
<1>2. Included(c) \subseteq 1..Len(report) /\ Together(c, Included(c))
  BY <1>1, IncludedTogether
<1>3. IsFiniteSet(1..Len(report))
  BY <1>1, FS_Interval
<1>4. IsFiniteSet(Included(c))
  BY <1>2, <1>3, FS_Subset
<1> QED
  BY <1>1, <1>2, <1>4 DEF Together, Eligible

LEMMA PreviewTyped ==
    ASSUME CampaignInv, CampaignTyped, NEW c \in Contracts, Preview(c)
    PROVE  CampaignTyped'
<1>1. PICK K : K = Included(c)
  OBVIOUS
<1>2. K \subseteq 1..Len(report) /\ Len(report) \in Nat
  BY <1>1, IncludedRange
<1>3. K \subseteq 1..MaxReports
  BY <1>2 DEF CampaignTyped
<1>4. shown' = shown \union {[of |-> c, claims |-> K]} /\ c \in Created
  BY <1>1 DEF Preview, Finalizable
<1>5. UNCHANGED <<campaign, report, work, changed>> /\ Created' = Created
  BY DEF Preview, Created
<1> QED
  BY <1>3, <1>4, <1>5 DEF CampaignTyped, InCaps

LEMMA FinalizeTyped ==
    ASSUME CampaignInv, CampaignTyped, NEW c \in Contracts, FinalizeCampaign(c)
    PROVE  CampaignTyped'
<1>1. PICK K : K = Included(c)
  OBVIOUS
<1>2. PICK paid : paid = Allocation(c, K)
  OBVIOUS
<1>3. InCaps(c, paid)
  BY <1>1, <1>2, IncludedRange, AllocationOK
<1>4. /\ campaign' = [campaign EXCEPT ![c] = [status |-> "finalized", paid |-> paid]]
      /\ work' = work \union {[of |-> c, no |-> n] : n \in K}
      /\ c \in Created /\ UNCHANGED <<report, shown, changed>>
  BY <1>1, <1>2 DEF FinalizeCampaign, Finalizable
<1>5. Created' = Created
      /\ \A d \in Created : campaign'[d] = IF d = c THEN [status |-> "finalized", paid |-> paid] ELSE campaign[d]
  BY <1>4 DEF Created
<1>6. ASSUME NEW d \in Created'
      PROVE  campaign'[d].status \in {"open", "finalized"} /\ InCaps(d, campaign'[d].paid)
  BY <1>3, <1>5 DEF CampaignTyped
<1>7. \A d \in Created' : InCaps(d, campaign'[d].paid) => InCaps(d, campaign[d].paid)'
  BY DEF InCaps
<1> QED
  BY <1>4, <1>5, <1>6, <1>7 DEF CampaignTyped

LEMMA OthersTyped ==
    ASSUME CampaignInv, CampaignTyped,
           \/ TimeGoesOn \/ UNCHANGED campaignVars
           \/ \E o \in Members : MemberChanges(o) \/ \E g \in ProbeGroups : ReportArrives(o, g)
    PROVE  CampaignTyped'
<1>1. UNCHANGED <<campaign, work, shown>> /\ Created' = Created
  BY DEF TimeGoesOn, MemberChanges, ReportArrives, campaignVars, Created
<1>2. changed' \subseteq Members
  BY DEF TimeGoesOn, MemberChanges, ReportArrives, campaignVars, CampaignTyped
<1>3. Len(report') <= MaxReports
  <2>1. CASE report' = report
    BY <2>1 DEF CampaignTyped
  <2>2. ASSUME NEW o \in Members, NEW g \in ProbeGroups, ReportArrives(o, g)
        PROVE  Len(report') <= MaxReports
    <3>1. PICK r : r = [operator |-> o, group |-> g, at |-> moment]
      OBVIOUS
    <3>2. report' = Append(report, r) /\ Len(report) < MaxReports
      BY <2>2, <3>1 DEF ReportArrives
    <3>3. Len(report') = Len(report) + 1 /\ Len(report) \in Nat
      BY <3>2 DEF CampaignInv
    <3> QED
      BY <3>2, <3>3 DEF CampaignAssumption
  <2> QED
    BY <2>1, <2>2 DEF TimeGoesOn, MemberChanges, campaignVars
<1> QED
  BY <1>1, <1>2, <1>3 DEF CampaignTyped, InCaps

LEMMA CampaignTypedKept ==
    ASSUME CampaignInv, CampaignTyped, [CampaignNext]_campaignVars
    PROVE  CampaignTyped'
BY CreateTyped, PreviewTyped, FinalizeTyped, OthersTyped DEF CampaignNext

LEMMA CampaignHasTypes == ASSUME CampaignInv, CampaignTyped PROVE CampaignTypeOK
<1>1. work \subseteq [of : Created, no : 1..MaxReports]
  <2> SUFFICES ASSUME NEW w \in work PROVE w \in [of : Created, no : 1..MaxReports]
    OBVIOUS
  <2>1. w = [of |-> w.of, no |-> w.no] /\ w.no \in 1..Len(report) /\ w.of \in Created
    BY DEF CampaignInv, WorkOK, CampaignTyped
  <2>2. Len(report) \in Nat /\ Len(report) <= MaxReports
    BY DEF CampaignInv, CampaignTyped
  <2>3. w.no \in 1..MaxReports
    BY <2>1, <2>2 DEF CampaignAssumption
  <2> QED
    BY <2>1, <2>3
<1> QED
  BY <1>1 DEF CampaignInv, CampaignTyped, CampaignTypeOK, Reports, InCaps

LEMMA CampaignStaysTyped == CampaignSpec => []CampaignTypeOK
<1>1. CampaignInit => CampaignInv /\ CampaignTyped
  <2> SUFFICES ASSUME CampaignInit PROVE CampaignTyped
    BY CampaignStarts
  <2>1. Created = {} /\ report = <<>> /\ work = {} /\ shown = {} /\ changed = {}
    BY DEF CampaignInit, Created
  <2> QED
    BY <2>1 DEF CampaignTyped, CampaignAssumption
<1>2. CampaignInv /\ CampaignTyped /\ [CampaignNext]_campaignVars => (CampaignInv /\ CampaignTyped)'
  BY CampaignKept, CampaignTypedKept
<1>3. CampaignInv /\ CampaignTyped => CampaignTypeOK
  BY CampaignHasTypes
<1> QED
  BY <1>1, <1>2, <1>3, PTL DEF CampaignSpec

HIDE CampaignAssumption

-----------------------------------------------------------------------------
(* Bonded references. *)

USE PoolAssumption

Reviews == [status : {"verified", "rejected", "revoked"}, owner : Owners, group : ControlGroups]

\* What is inductive beside PoolInv: the reviews, the synchronizer's list, the
\* lists of the polls and the bound.
PoolTyped ==
    /\ control \in [Nodes -> Reviews]
    /\ sync.busy \in BOOLEAN /\ sync.wallets \subseteq Owners
    /\ \A p \in Polls : DOMAIN poll[p].list \subseteq Nodes
    /\ edits \in 0..MaxEdits

ListsTyped == \A p \in Polls : DOMAIN poll[p].list \subseteq Nodes

\* One poll is written.
LEMMA ListWritten ==
    ASSUME PoolInv, ListsTyped, NEW p \in Polls, NEW new, poll' = [poll EXCEPT ![p] = new],
           DOMAIN new.list \subseteq Nodes
    PROVE  ListsTyped'
<1>1. \A q \in Polls : poll'[q] = IF q = p THEN new ELSE poll[q]
  BY DEF PoolInv
<1> QED
  BY <1>1 DEF ListsTyped

LEMMA NoListTyped == DOMAIN NoList \subseteq Nodes /\ NewPoll.list = NoList
BY DEF NoList, NewPoll

LEMMA PollListed ==
    ASSUME PoolInv, ListsTyped, NEW p \in Polls,
           \/ EndChoice(p) \/ CommitPoll(p) \/ PollAborts(p)
           \/ \E n \in Nodes : OpenGroup(p, n) \/ TryWitness(p, n)
    PROVE  ListsTyped'
<1>1. PICK old : old = poll[p]
  OBVIOUS
<1>2. /\ old = [target |-> old.target, shared |-> old.shared, locked |-> old.locked, list |-> old.list,
                picked |-> old.picked, groups |-> old.groups]
      /\ DOMAIN old.list \subseteq Nodes
  BY <1>1 DEF PoolInv, PollOK, PollRow, ListsTyped
<1>3. CASE CommitPoll(p) \/ PollAborts(p)
  <2>1. poll' = [poll EXCEPT ![p] = NewPoll]
    BY <1>3 DEF CommitPoll, PollAborts
  <2> QED
    BY <2>1, NoListTyped, ListWritten
<1>4. CASE EndChoice(p)
  <2>1. PICK groups : poll' = [poll EXCEPT ![p].target = 0, ![p].list = NoList, ![p].picked = {}, ![p].groups = groups]
    BY <1>4 DEF EndChoice
  <2>2. PICK new : new = [old EXCEPT !.target = 0, !.list = NoList, !.picked = {}, !.groups = groups]
    OBVIOUS
  <2>3. poll' = [poll EXCEPT ![p] = new]
    BY <1>1, <2>1, <2>2
  <2>4. new.list = NoList
    BY <1>2, <2>2
  <2> QED
    BY <2>3, <2>4, NoListTyped, ListWritten
<1>5. ASSUME NEW n \in Nodes, OpenGroup(p, n) PROVE ListsTyped'
  <2>1. PICK list : list = [m \in {i \in Nodes : Suitable(i, n)} |-> Identity(m)]
    OBVIOUS
  <2>2. DOMAIN list \subseteq Nodes
    BY <2>1
  <2>3. PICK mid : mid = IF Reviewed(n) THEN WithList(p, n) ELSE old
    OBVIOUS
  <2>4. mid = [old EXCEPT !.target = n, !.list = list] \/ mid = old
    BY <1>1, <2>1, <2>3 DEF WithList
  <2>5. PICK new : new = [mid EXCEPT !.shared = @ \union {n}]
    OBVIOUS
  <2>6. poll' = [poll EXCEPT ![p] = new]
    BY <1>1, <1>5, <2>3, <2>5 DEF OpenGroup
  <2>7. mid = [target |-> mid.target, shared |-> mid.shared, locked |-> mid.locked, list |-> mid.list,
               picked |-> mid.picked, groups |-> mid.groups]
        /\ (mid.list = list \/ mid.list = old.list)
    BY <1>2, <2>4
  <2>8. new.list = mid.list
    BY <2>5, <2>7
  <2> QED
    BY <1>2, <2>2, <2>6, <2>7, <2>8, ListWritten
<1>6. ASSUME NEW n \in Nodes, TryWitness(p, n) PROVE ListsTyped'
  <2>1. PICK takes : poll' = [poll EXCEPT
           ![p].list = [m \in DOMAIN @ \ {n} |-> @[m]],
           ![p].locked = @ \union takes,
           ![p].picked = @ \union {m \in takes : StillGood(p, m)}]
    BY <1>6 DEF TryWitness
  <2>2. PICK list : list = [m \in DOMAIN old.list \ {n} |-> old.list[m]]
    OBVIOUS
  <2>3. PICK new : new = [old EXCEPT !.list = list, !.locked = @ \union takes,
                                     !.picked = @ \union {m \in takes : StillGood(p, m)}]
    OBVIOUS
  <2>4. poll' = [poll EXCEPT ![p] = new]
    BY <1>1, <2>1, <2>2, <2>3
  <2>5. new.list = list
    BY <1>2, <2>3
  <2>6. DOMAIN list \subseteq Nodes
    BY <1>2, <2>2
  <2> QED
    BY <2>4, <2>5, <2>6, ListWritten
<1> QED
  BY <1>3, <1>4, <1>5, <1>6

LEMMA SyncTyped ==
    ASSUME PoolInv, PoolTyped,
           StartSync \/ ApplySnapshot \/ SyncFaults \/ SyncDies
    PROVE  sync'.busy \in BOOLEAN /\ sync'.wallets \subseteq Owners
<1>1. CASE StartSync
  <2>1. PICK wallets : wallets = {reference[n].owner : n \in Nodes}
    OBVIOUS
  <2>2. wallets \subseteq Owners
    BY <2>1 DEF PoolInv, References
  <2>3. sync' = [sync EXCEPT !.busy = TRUE, !.wallets = wallets]
    BY <1>1, <2>1 DEF StartSync
  <2>4. PICK old : old = sync /\ old = [busy |-> old.busy, wallets |-> old.wallets, anchor |-> old.anchor]
    BY DEF PoolInv
  <2>5. sync' = [busy |-> TRUE, wallets |-> wallets, anchor |-> old.anchor]
    BY <2>3, <2>4
  <2> QED
    BY <2>2, <2>5
<1>2. CASE ApplySnapshot \/ SyncFaults \/ SyncDies
  <2>1. \E block : SyncOver(block)
    BY <1>2 DEF ApplySnapshot, SyncFaults, SyncDies
  <2> QED
    BY <2>1 DEF SyncOver
<1> QED
  BY <1>1, <1>2

LEMMA EditsTyped == ASSUME PoolTyped, Edits PROVE edits' \in 0..MaxEdits
BY DEF PoolTyped, Edits

LEMMA PoolTypedKept == ASSUME PoolInv, PoolTyped, [PoolNext]_poolVars PROVE PoolTyped'
<1>0. ListsTyped
  BY DEF PoolTyped, ListsTyped
<1>1. ASSUME NEW p \in Polls,
             \/ EndChoice(p) \/ CommitPoll(p) \/ PollAborts(p)
             \/ \E n \in Nodes : OpenGroup(p, n) \/ TryWitness(p, n)
      PROVE  PoolTyped'
  <2>1. UNCHANGED <<control, sync, edits>>
    BY <1>1 DEF EndChoice, CommitPoll, PollAborts, OpenGroup, TryWitness
  <2>2. ListsTyped'
    BY <1>0, <1>1, PollListed
  <2> QED
    BY <2>1, <2>2 DEF PoolTyped, ListsTyped
<1>2. ASSUME NEW n \in Nodes, ReviewControl(n) PROVE PoolTyped'
  <2>1. PICK status \in {"verified", "rejected", "revoked"}, g \in ControlGroups :
          control' = [control EXCEPT ![n] = [status |-> status, owner |-> owner[n], group |-> g]]
    BY <1>2 DEF ReviewControl
  <2>2. [status |-> status, owner |-> owner[n], group |-> g] \in Reviews
    BY DEF PoolInv, Reviews
  <2>3. control' \in [Nodes -> Reviews]
    BY <2>1, <2>2 DEF PoolTyped
  <2>4. UNCHANGED <<sync, poll>> /\ edits' \in 0..MaxEdits
    BY <1>2, EditsTyped DEF ReviewControl
  <2> QED
    BY <2>3, <2>4 DEF PoolTyped
<1>3. ASSUME NEW n \in Nodes, Reconnect(n) \/ ReviewReference(n) \/ SetReference(n) PROVE PoolTyped'
  <2>1. UNCHANGED <<control, sync, poll>>
    BY <1>3 DEF Reconnect, ReviewReference, SetReference
  <2>2. edits' \in 0..MaxEdits
    BY <1>3, EditsTyped DEF Reconnect, ReviewReference, SetReference, PoolTyped
  <2> QED
    BY <2>1, <2>2 DEF PoolTyped
<1>4. CASE BondChanges
  <2>1. UNCHANGED <<control, sync, poll>> /\ edits' \in 0..MaxEdits
    BY <1>4, EditsTyped DEF BondChanges
  <2> QED
    BY <2>1 DEF PoolTyped
<1>5. CASE StartSync \/ ApplySnapshot \/ SyncFaults \/ SyncDies
  <2>1. UNCHANGED <<control, poll, edits>>
    BY <1>5 DEF StartSync, ApplySnapshot, SyncFaults, SyncDies
  <2>2. sync'.busy \in BOOLEAN /\ sync'.wallets \subseteq Owners
    BY <1>5, SyncTyped
  <2> QED
    BY <2>1, <2>2 DEF PoolTyped
<1>6. CASE UNCHANGED poolVars
  BY <1>6 DEF poolVars, PoolTyped
<1> QED
  BY <1>1, <1>2, <1>3, <1>4, <1>5, <1>6 DEF PoolNext

LEMMA PoolHasTypes == ASSUME PoolInv, PoolTyped PROVE PoolTypeOK
<1>1. ASSUME NEW p \in Polls
      PROVE  /\ poll[p].target \in Nodes \union {0}
             /\ poll[p].shared \union poll[p].locked \subseteq Nodes
             /\ poll[p].picked \subseteq poll[p].locked
             /\ \A g \in poll[p].groups : g.target \in poll[p].shared /\ g.by \subseteq poll[p].locked
             /\ IsFiniteSet(poll[p].picked) /\ Cardinality(poll[p].picked) <= 2
  <2>1. PollOK(poll[p])
    BY DEF PoolInv
  <2> QED
    BY <2>1 DEF PollOK, PollRow
<1>2. ASSUME NEW p \in Polls PROVE Witnesses(p) >= 0
  <2>1. Cardinality(poll[p].picked) \in Nat /\ Cardinality(poll[p].picked) <= 2
    BY <1>1, FS_CardinalityType
  <2> QED
    BY <2>1 DEF Witnesses
<1>3. reference \in [Nodes -> [status : {"active", "paused", "revoked"}, owner : Owners,
                               bonded : BOOLEAN, block : 0..Len(bonds)]]
  BY DEF PoolInv, BondOK, References
<1>4. sync \in [busy : BOOLEAN, wallets : SUBSET Owners, anchor : 1..Len(bonds)]
  BY DEF PoolInv, PoolTyped
<1> QED
  BY <1>1, <1>2, <1>3, <1>4 DEF PoolTypeOK, PoolInv, PoolTyped, Reviews

LEMMA PoolStaysTyped == PoolSpec => []PoolTypeOK
<1>1. PoolInit => PoolInv /\ PoolTyped
  <2> SUFFICES ASSUME PoolInit PROVE PoolTyped
    BY PoolStarts
  <2>1. control \in [Nodes -> Reviews]
    BY DEF PoolInit, Reviews
  <2>2. \A p \in Polls : poll[p].list = NoList
    BY NoListTyped DEF PoolInit
  <2> QED
    BY <2>1, <2>2, NoListTyped DEF PoolInit, PoolTyped
<1>2. PoolInv /\ PoolTyped /\ [PoolNext]_poolVars => (PoolInv /\ PoolTyped)'
  BY PoolKept, PoolTypedKept
<1>3. PoolInv /\ PoolTyped => PoolTypeOK
  BY PoolHasTypes
<1> QED
  BY <1>1, <1>2, <1>3, PTL DEF PoolSpec

HIDE PoolAssumption

-----------------------------------------------------------------------------
(* The joint instance. *)

(***************************************************************************)
(* A behaviour of the joint instance is a behaviour of each component that *)
(* shares no state with another: the one under study takes its own steps,  *)
(* the others rest.                                                        *)
(***************************************************************************)
THEOREM StudiesImplement ==
    BooksSpec => /\ FreeSpec /\ LimitSpec /\ SlotSpec /\ PayoutSpec /\ X402Spec /\ DepositSpec
                 /\ QuorumSpec /\ StreamSpec /\ RewardSpec /\ AuditSpec /\ CampaignSpec
                 /\ PoolSpec /\ EnrollSpec
<1>1. BooksInit => /\ FreeInit /\ LimitInit /\ SlotInit /\ PayoutInit /\ X402Init /\ DepositInit
                   /\ QuorumInit /\ StreamInit /\ RewardInit /\ AuditInit /\ CampaignInit
                   /\ PoolInit /\ EnrollInit
  BY DEF BooksInit
<1>2. [BooksNext]_<<study, Parts>> =>
        /\ [FreeNext]_freeVars /\ [LimitNext]_limitVars /\ [SlotNext]_slotVars
        /\ [PayoutNext]_payoutVars /\ [X402Next]_x402Vars /\ [DepositNext]_depositVars
        /\ [QuorumNext]_quorumVars /\ [StreamNext]_streamVars /\ [RewardNext]_rewardVars
        /\ [AuditNext]_auditVars /\ [CampaignNext]_campaignVars /\ [PoolNext]_poolVars
        /\ [EnrollNext]_enrollVars
  <2>1. CASE BooksNext
    BY <2>1 DEF BooksNext
  <2>2. CASE UNCHANGED <<study, Parts>>
    BY <2>2 DEF Parts
  <2> QED
    BY <2>1, <2>2
<1> QED
  BY <1>1, <1>2, PTL DEF BooksSpec, FreeSpec, LimitSpec, SlotSpec, PayoutSpec, X402Spec, DepositSpec,
     QuorumSpec, StreamSpec, RewardSpec, AuditSpec, CampaignSpec, PoolSpec, EnrollSpec

(***************************************************************************)
(* The two components that share the association: a behaviour studies the  *)
(* pairing, or the consents over pairings that are all agreed, or neither. *)
(***************************************************************************)
AllAgreed ==
    /\ link.id # 0 => link.operator \in Humans
    /\ withdrawn = {} /\ approvals = [id : PairingIds, operator : Humans]
    /\ proofs = [id : PairingIds, operator : Humans, key : Keys, by : Keys]

AssociationStudied ==
    /\ ConsentInv
    /\ study = "link" => LinkInv
    /\ study = "consent" => AssociationTypeOK /\ ConsentTypeOK /\ AllAgreed
    /\ study \notin {"link", "consent"} => link = NoLink

USE LinkAssumption
USE ConsentAssumption

LEMMA AssociationStudyStarts == BooksInit => AssociationStudied
<1> SUFFICES ASSUME BooksInit PROVE AssociationStudied
  OBVIOUS
<1>1. AssociationInit /\ ConsentInit /\ IF study = "consent" THEN PairingsAgreed ELSE PairingInit
  BY DEF BooksInit
<1>2. ConsentInv /\ AssociationTypeOK /\ ConsentTypeOK
  BY <1>1, ConsentStarts, ConsentTypeStarts
<1>3. study = "link" => LinkInv
  BY <1>1, LinkInit
<1>4. link = NoLink /\ link.id = 0
  BY <1>1 DEF AssociationInit, NoLink
<1>5. study = "consent" => AllAgreed
  BY <1>1, <1>4 DEF PairingsAgreed, AllAgreed
<1> QED
  BY <1>2, <1>3, <1>4, <1>5 DEF AssociationStudied

\* An association is always with a human.
LEMMA LinkedToHumans ==
    ASSUME AssociationTypeOK, link.id # 0 => link.operator \in Humans,
           AssociationNext \/ UNCHANGED identityVars
    PROVE  link'.id # 0 => link'.operator \in Humans
<1>0. link \in LinkRows
  BY DEF AssociationTypeOK, LinkRows
<1>1. CASE link' = link
  BY <1>1
<1>2. CASE link' = [link EXCEPT !.revoked = TRUE]
  <2>1. link'.id = link.id /\ link'.operator = link.operator
    BY <1>0, <1>2 DEF LinkRows
  <2> QED
    BY <2>1
<1>3. ASSUME NEW h \in Humans, NEW id \in PairingIds, Associate(id, h) PROVE link'.operator \in Humans
  BY <1>3 DEF Associate
<1> QED
  BY <1>1, <1>2, <1>3 DEF AssociationNext, Unlink, UnlinkFromNode, Dissociate, Rotate, RetireAccount, identityVars

LEMMA ConsentStays == ASSUME ConsentInv, UNCHANGED consentVars PROVE ConsentInv'
<1>1. UNCHANGED <<request, dossier, recipient, dropped, reading>>
  BY DEF consentVars
<1>2. \A s \in DOMAIN reading' : reading'[s].consent # NoConsent
  BY <1>1 DEF ConsentInv
<1> QED
  BY <1>1, <1>2, ConsentRests

LEMMA AssociationStudyKept ==
    ASSUME AssociationStudied, [BooksNext]_<<study, Parts>>
    PROVE  AssociationStudied'
<1>0. study' = study
  BY DEF BooksNext
<1>1. /\ study = "link" => [LinkNext]_<<identityVars, pairingVars>> /\ UNCHANGED consentVars
      /\ study = "consent" => [ConsentNext]_<<identityVars, consentVars>> /\ UNCHANGED pairingVars
      /\ study \notin {"link", "consent"} => UNCHANGED <<identityVars, pairingVars, consentVars>>
  <2>1. CASE BooksNext
    BY <2>1 DEF BooksNext
  <2>2. CASE UNCHANGED <<study, Parts>>
    BY <2>2 DEF Parts
  <2> QED
    BY <2>1, <2>2
<1>2. CASE study = "link"
  <2>1. LinkInv'
    BY <1>1, <1>2, LinkStep DEF AssociationStudied
  <2>2. ConsentInv'
    BY <1>1, <1>2, ConsentStays DEF AssociationStudied
  <2> QED
    BY <1>0, <1>2, <2>1, <2>2 DEF AssociationStudied
<1>3. CASE study = "consent"
  <2>1. ConsentInv'
    BY <1>1, <1>3, ConsentKept DEF AssociationStudied
  <2>2. AssociationTypeOK' /\ ConsentTypeOK'
    BY <1>1, <1>3, ConsentTypeKept DEF AssociationStudied
  <2>3. AssociationNext \/ UNCHANGED identityVars
    BY <1>1, <1>3 DEF ConsentNext
  <2>4. AssociationTypeOK /\ AllAgreed
    BY <1>3 DEF AssociationStudied
  <2>5. link'.id # 0 => link'.operator \in Humans
    BY <2>3, <2>4, LinkedToHumans DEF AllAgreed
  <2>6. UNCHANGED <<withdrawn, approvals, proofs>>
    BY <1>1, <1>3 DEF pairingVars
  <2>7. AllAgreed'
    BY <2>4, <2>5, <2>6 DEF AllAgreed
  <2> QED
    BY <1>0, <1>3, <2>1, <2>2, <2>7 DEF AssociationStudied
<1>4. CASE study \notin {"link", "consent"}
  <2>1. ConsentInv'
    BY <1>1, <1>4, ConsentStays DEF AssociationStudied
  <2>2. link' = link
    BY <1>1, <1>4 DEF identityVars
  <2> QED
    BY <1>0, <1>4, <2>1, <2>2 DEF AssociationStudied
<1> QED
  BY <1>2, <1>3, <1>4

LEMMA AssociationIsStudied == BooksSpec => []AssociationStudied
BY AssociationStudyStarts, AssociationStudyKept, PTL DEF BooksSpec

LEMMA StudiedIsMutual ==
    ASSUME AssociationStudied
    PROVE  LinkIsMutual /\ ConsentIsMutual
<1>1. ConsentIsMutual
  BY DEF AssociationStudied, ConsentInv, ConsentIsMutual, Lasts, NoConsent
<1>2. CASE study = "link"
  <2>1. LinkInv
    BY <1>2 DEF AssociationStudied
  <2> QED
    BY <1>1, <2>1 DEF LinkInv
<1>3. CASE study = "consent"
  <2>1. AssociationTypeOK /\ AllAgreed
    BY <1>3 DEF AssociationStudied
  <2>2. link \in LinkRows
    BY <2>1 DEF AssociationTypeOK, LinkRows
  <2>3. link.id # 0 => link.id \in PairingIds /\ link.operator \in Humans /\ link.key \in Keys
    BY <2>1, <2>2 DEF AllAgreed, LinkRows
  <2>4. link.id # 0 => /\ [id |-> link.id, operator |-> link.operator] \in approvals
                       /\ [id |-> link.id, operator |-> link.operator,
                           key |-> link.key, by |-> link.key] \in proofs
    BY <2>1, <2>3 DEF AllAgreed
  <2>5. link.id \notin withdrawn
    BY <2>1 DEF AllAgreed
  <2> QED
    BY <1>1, <2>4, <2>5 DEF LinkIsMutual
<1>4. CASE study \notin {"link", "consent"}
  <2>1. link = NoLink
    BY <1>4 DEF AssociationStudied
  <2>2. link.id = 0
    BY <2>1 DEF NoLink
  <2> QED
    BY <1>1, <2>2 DEF LinkIsMutual
<1> QED
  BY <1>1, <1>2, <1>3, <1>4

HIDE ConsentAssumption
HIDE LinkAssumption

(***************************************************************************)
(* Every component of the joint instance keeps its state what its source's *)
(* columns, keys and status values allow.                                  *)
(***************************************************************************)
THEOREM StudiesAreTyped == BooksSpec => []StudyTypeOK
<1>1. AssociationStudied => /\ study = "link" => PairingTypeOK
                            /\ study = "consent" => AssociationTypeOK /\ ConsentTypeOK
  BY DEF AssociationStudied, LinkInv
<1>2. ASSUME AssociationStudied,
             FreeTypeOK, LimitTypeOK, SlotTypeOK, PayoutTypeOK, X402TypeOK, DepositTypeOK, QuorumTypeOK,
             StreamTypeOK, RewardTypeOK, AuditTypeOK, CampaignTypeOK, PoolTypeOK, EnrollTypeOK
      PROVE  StudyTypeOK
  BY <1>1, <1>2, Zenon DEF StudyTypeOK
<1> QED
  BY <1>2, StudiesImplement, AssociationIsStudied, FreeStaysTyped, LimitStaysTyped, SlotStaysTyped,
     PayoutStaysTyped, X402StaysTyped, DepositStaysTyped, QuorumStaysTyped, StreamStaysTyped,
     RewardStaysTyped, AuditStaysTyped, CampaignStaysTyped, PoolStaysTyped, EnrollStaysTyped, PTL

(***************************************************************************)
(* All that the joint instance checks, at once: the safety of every        *)
(* component holds in every behaviour of it, for every value of their      *)
(* constants.                                                              *)
(***************************************************************************)
THEOREM StudiesAreSafe ==
    BooksSpec =>
        /\ [](AllowanceAccounted /\ CeilingIsExact /\ InFlightBounded /\ PaidAtMostOnce /\ BooksMatchChain)
        /\ [](DepositsExact /\ VerdictBacked /\ DoneIsSettled /\ LinkIsMutual /\ ConsentIsMutual)
        /\ [](RewardPaidOnce /\ AuditsAccounted /\ BudgetHolds /\ WitnessesHold)
        /\ OneKeyPerRig
<1>1. AssociationStudied => LinkIsMutual /\ ConsentIsMutual
  BY StudiedIsMutual
<1> QED
  BY <1>1, StudiesImplement, AssociationIsStudied, FreeCreditIsAccounted, ServiceStaysUnderCeiling,
     SlotsBound, PayoutsPayOnce, BooksAlwaysMatch, DepositsCreditOnce, VerdictsAreBacked,
     DoneMeansSettled, RewardPaysOnce, AuditBudgetsAreExact, CampaignsStayInBudget,
     WitnessesAreIndependent, RigsHaveOneKey, PTL

==============================================================================
