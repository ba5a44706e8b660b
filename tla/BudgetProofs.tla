---------------------------- MODULE BudgetProofs ----------------------------
(***************************************************************************)
(* Proofs about the components of MCBooks that keep amounts: the limits    *)
(* that requests draw on, what users deposit, and what workers and         *)
(* validators are paid. Each section finds the inductive invariant of one  *)
(* component; the sums are SetProofs'.                                     *)
(***************************************************************************)
EXTENDS RewardPayment, Payouts, Deposits, FreeCredits, ServiceLimits, InflightSlots, AuditBudgets,
        Campaigns, SetProofs

-----------------------------------------------------------------------------
(* In-flight slots. *)

USE SlotAssumption

CallStates == [Calls -> {"new", "counted", "over", "refused", "running",
                       "lowered", "done", "lost"}]

\* The requests that own one unit of the counter.
Holding == {c \in Calls : call[c] \in {"counted", "over", "running"}}

CountCovers ==
    broken \/ ( /\ \A c \in Calls : call[c] # "lowered"
                /\ Cardinality(Holding) <= slots )

(***************************************************************************)
(* The inductive invariant. The counter covers every request that owns a   *)
(* unit of it, those over the limit that have not taken theirs back        *)
(* included.                                                               *)
(***************************************************************************)
SlotInv == SlotTypeOK /\ CountCovers /\ InFlightBounded

LEMMA SetsFinite ==
    /\ IsFiniteSet(Holding) /\ IsFiniteSet(InFlight)
    /\ Cardinality(Holding) \in Nat /\ Cardinality(InFlight) \in Nat
    /\ Cardinality(InFlight) <= Cardinality(Holding)
<1>1. Holding \subseteq Calls /\ InFlight \subseteq Holding
  BY DEF Holding, InFlight
<1>2. IsFiniteSet(Holding) /\ IsFiniteSet(InFlight)
  BY <1>1, FS_Subset
<1>3. Cardinality(Holding) \in Nat /\ Cardinality(InFlight) \in Nat
  BY <1>2, FS_CardinalityType
<1>4. Cardinality(InFlight) <= Cardinality(Holding)
  BY <1>1, <1>2, FS_Subset
<1> QED
  BY <1>2, <1>3, <1>4

LEMMA SetsFiniteNext ==
    /\ IsFiniteSet(Holding') /\ IsFiniteSet(InFlight')
    /\ Cardinality(Holding') \in Nat /\ Cardinality(InFlight') \in Nat
    /\ Cardinality(InFlight') <= Cardinality(Holding')
<1>1. Holding' \subseteq Calls /\ InFlight' \subseteq Holding'
  BY DEF Holding, InFlight
<1>2. IsFiniteSet(Holding') /\ IsFiniteSet(InFlight')
  BY <1>1, FS_Subset
<1>3. Cardinality(Holding') \in Nat /\ Cardinality(InFlight') \in Nat
  BY <1>2, FS_CardinalityType
<1>4. Cardinality(InFlight') <= Cardinality(Holding')
  BY <1>1, <1>2, FS_Subset
<1> QED
  BY <1>2, <1>3, <1>4

LEMMA SlotStarts == SlotInit => SlotInv
<1> SUFFICES ASSUME SlotInit PROVE SlotInv
  OBVIOUS
<1>1. Holding = {} /\ InFlight = {}
  BY DEF SlotInit, Holding, InFlight
<1>2. Cardinality(Holding) = 0 /\ Cardinality(InFlight) = 0
  BY <1>1, FS_EmptySet
<1>3. slots \in Int /\ call \in CallStates
  BY DEF SlotInit, CallStates
<1>4. SlotTypeOK
  BY <1>3, Zenon DEF SlotInit, SlotTypeOK, CallStates
<1>5. CountCovers /\ InFlightBounded
  BY <1>2 DEF SlotInit, CountCovers, InFlightBounded
<1> QED
  BY <1>4, <1>5 DEF SlotInv

\* A step that gives nobody a slot and lowers the counter by no more than
\* the slots it frees.
LEMMA NobodyJoins ==
    ASSUME SlotInv, SlotTypeOK', broken' = broken, slots' = slots,
           Holding' \subseteq Holding, InFlight' \subseteq InFlight,
           broken \/ \A c \in Calls : call'[c] # "lowered"
    PROVE  SlotInv'
<1>1. Cardinality(Holding') <= Cardinality(Holding)
  BY SetsFinite, FS_Subset
<1>2. Cardinality(InFlight') <= Cardinality(InFlight)
  BY SetsFinite, FS_Subset
<1> QED
  BY <1>1, <1>2, SetsFinite, SetsFiniteNext DEF SlotInv, SlotTypeOK, CountCovers, InFlightBounded

LEMMA OneLess ==
    ASSUME SlotInv, SlotTypeOK', broken' = broken, slots' = slots - 1,
           NEW c \in Holding, Holding' = Holding \ {c}, InFlight' \subseteq InFlight,
           broken \/ slots = 0 \/ \A d \in Calls : call'[d] # "lowered"
    PROVE  SlotInv'
<1>1. Cardinality(Holding') = Cardinality(Holding) - 1
  BY SetsFinite, FS_RemoveElement
<1>2. Cardinality(InFlight') <= Cardinality(InFlight)
  BY SetsFinite, FS_Subset
<1> QED
  BY <1>1, <1>2, SetsFinite, SetsFiniteNext DEF SlotInv, SlotTypeOK, CountCovers, InFlightBounded

LEMMA AcquireKeeps ==
    ASSUME SlotInv, NEW c \in Calls, Acquire(c)
    PROVE  SlotInv'
<1>1. SlotTypeOK'
  BY DEF SlotInv, SlotTypeOK, Acquire, Moves
<1>2. /\ Holding' = Holding \cup {c} /\ c \notin Holding
      /\ slots + 1 > SlotLimit => InFlight' \subseteq InFlight
      /\ broken \/ \A d \in Calls : call'[d] # "lowered"
  BY DEF SlotInv, SlotTypeOK, CountCovers, Acquire, Moves, Holding, InFlight
<1>3. Cardinality(Holding') = Cardinality(Holding) + 1
  BY <1>2, SetsFinite, FS_AddElement
<1>4. broken' = broken /\ slots' = slots + 1
  BY DEF Acquire
<1>5. CountCovers'
  BY <1>2, <1>3, <1>4, SetsFinite DEF SlotInv, SlotTypeOK, CountCovers
<1>6. slots + 1 > SlotLimit => Cardinality(InFlight') <= Cardinality(InFlight)
  BY <1>2, SetsFinite, FS_Subset
<1>7. InFlightBounded'
  BY <1>4, <1>5, <1>6, SetsFinite, SetsFiniteNext DEF SlotInv, SlotTypeOK, CountCovers, InFlightBounded
<1> QED
  BY <1>1, <1>5, <1>7 DEF SlotInv

LEMMA PassesKeep ==
    ASSUME SlotInv, NEW c \in Calls,
           Start(c) \/ ServerDies(c) \/ ReleaseFails(c) \/ Again(c)
    PROVE  SlotInv'
<1>1. SlotTypeOK'
  BY DEF SlotInv, SlotTypeOK, Start, ServerDies, ReleaseFails, Again, Moves
<1>2. /\ Holding' \subseteq Holding /\ InFlight' \subseteq InFlight
      /\ broken \/ \A d \in Calls : call'[d] # "lowered"
      /\ broken' = broken /\ slots' = slots
  BY DEF SlotInv, SlotTypeOK, CountCovers, Start, ServerDies, ReleaseFails, Again, Moves,
         Holding, InFlight
<1> QED
  BY <1>1, <1>2, NobodyJoins

LEMMA TakeBackKeeps ==
    ASSUME SlotInv, NEW c \in Calls, TakeBack(c)
    PROVE  SlotInv'
<1>1. SlotTypeOK'
  BY DEF SlotInv, SlotTypeOK, TakeBack, Moves
<1>2. /\ c \in Holding /\ Holding' = Holding \ {c} /\ InFlight' \subseteq InFlight
      /\ broken \/ \A d \in Calls : call'[d] # "lowered"
      /\ broken' = broken /\ slots' = slots - 1
  BY DEF SlotInv, SlotTypeOK, CountCovers, TakeBack, Moves, Holding, InFlight
<1> QED
  BY <1>1, <1>2, OneLess

LEMMA LowerKeeps ==
    ASSUME SlotInv, NEW c \in Calls, Lower(c)
    PROVE  SlotInv'
<1>1. SlotTypeOK'
  BY DEF SlotInv, SlotTypeOK, Lower, Moves
<1>2. /\ c \in Holding /\ Holding' = Holding \ {c} /\ InFlight' \subseteq InFlight
      /\ broken' = broken /\ slots' = slots - 1
  BY DEF SlotInv, SlotTypeOK, Lower, Moves, Holding, InFlight
<1>3. Cardinality(Holding) > 0
  BY <1>2, SetsFinite, FS_EmptySet
<1>4. broken \/ slots > 0
  BY <1>3, SetsFinite DEF SlotInv, SlotTypeOK, CountCovers
<1>5. broken \/ \A d \in Calls : call'[d] # "lowered"
  BY <1>4 DEF SlotInv, SlotTypeOK, CountCovers, Lower, Moves
<1> QED
  BY <1>1, <1>2, <1>5, OneLess

LEMMA BreaksKeep ==
    ASSUME SlotInv, NEW c \in Calls, FailOpen(c) \/ Floor(c)
    PROVE  SlotInv'
<1>0. slots' \in Int /\ call' \in CallStates
  BY DEF SlotInv, SlotTypeOK, CallStates, FailOpen, Floor, Moves
<1>1. SlotTypeOK'
  BY <1>0, Zenon DEF SlotInv, SlotTypeOK, CallStates, FailOpen, Floor, Moves
<1>2. broken'
  <2>1. CASE FailOpen(c)
    BY <2>1 DEF FailOpen
  <2>2. CASE Floor(c)
    BY <2>2, Zenon DEF Floor, SlotInv, CountCovers, Moves
  <2> QED
    BY <2>1, <2>2
<1> QED
  BY <1>1, <1>2, Zenon DEF SlotInv, CountCovers, InFlightBounded

LEMMA SlotStep == SlotInv /\ [SlotNext]_slotVars => SlotInv'
<1> SUFFICES ASSUME SlotInv, [SlotNext]_slotVars PROVE SlotInv'
  OBVIOUS
<1>1. ASSUME NEW c \in Calls,
             \/ Acquire(c) \/ Start(c) \/ TakeBack(c) \/ FailOpen(c)
             \/ Lower(c) \/ Floor(c) \/ ServerDies(c) \/ ReleaseFails(c) \/ Again(c)
      PROVE  SlotInv'
  BY <1>1, AcquireKeeps, PassesKeep, TakeBackKeeps, LowerKeeps, BreaksKeep
<1>2. CASE Expires
  BY <1>2 DEF SlotInv, SlotTypeOK, CountCovers, InFlightBounded, Expires
<1>3. CASE UNCHANGED slotVars
  BY <1>3 DEF SlotInv, SlotTypeOK, CountCovers, InFlightBounded, Holding, InFlight, slotVars
<1> QED
  BY <1>1, <1>2, <1>3 DEF SlotNext

(***************************************************************************)
(* No account has more requests in flight than its cap while Redis answers *)
(* and the key lives: for any number of requests and any cap.              *)
(***************************************************************************)
THEOREM SlotsBound == SlotSpec => []InFlightBounded
<1>1. SlotInv => InFlightBounded
  BY DEF SlotInv
<1> QED
  BY <1>1, SlotStarts, SlotStep, PTL DEF SlotSpec

HIDE SlotAssumption

-----------------------------------------------------------------------------
(* Service exposure limits. *)

USE LimitAssumption

Days == 0..FinalDay
Bindings == [exists : BOOLEAN, day : Days, micro : Nat]

\* What the requests still reserve of a day.
ReservedOn(d) ==
    [r \in Exposures |-> IF record[r].exists /\ record[r].day = d THEN record[r].micro ELSE 0]

EveryDayExact == \A d \in Days : usedOn[d] = SumOf(ReservedOn(d), Exposures)

RecordLive(r) == record[r].exists =>
    record[r].day = today \/ (firstHour /\ record[r].day = today - 1)

(***************************************************************************)
(* The inductive invariant says it of every day and not of today only: a   *)
(* late terminal writes the counter of the day the request was bound to. A *)
(* request of yesterday is only there in the first hour, and a finalizer   *)
(* holds a binding that once existed.                                      *)
(***************************************************************************)
LimitInv ==
    /\ LimitTypeOK
    /\ firstHour => today > 0
    /\ EveryDayExact
    /\ \A d \in Days : usedOn[d] <= Ceiling
    /\ \A r \in Exposures : RecordLive(r)
    /\ \A t \in Terminals : ending[t] # Waiting =>
         ending[t].of \in Exposures /\ ending[t].raw.exists /\ ending[t].raw \in Bindings
         /\ ending[t].keep \in Amounts \union {-1, 0}

LEMMA LimitTypes ==
    ASSUME LimitInv
    PROVE  /\ today \in Days /\ today \in Nat
           /\ \A r \in Exposures : record[r] \in Bindings
                /\ record[r].day \in Days /\ record[r].micro \in Nat
           /\ \A d \in Days : usedOn[d] \in Nat /\ d \in Nat
BY DEF LimitInv, LimitTypeOK, Bindings, Days

LEMMA NoRecordTyped ==
    /\ NoRecord \in Bindings /\ ~NoRecord.exists /\ NoRecord.day = 0 /\ NoRecord.micro = 0
    /\ Waiting \in [of : Exposures \union {NoExposure}, keep : Amounts \union {-1, 0}, raw : Bindings]
BY DEF NoRecord, Waiting, Bindings, Days

\* The summands are natural numbers.
LEMMA ReservedTyped ==
    ASSUME \A r \in Exposures : record[r] \in Bindings
    PROVE  \A d \in Days : /\ Numbers(ReservedOn(d), Exposures)
                           /\ \A r \in Exposures : ReservedOn(d)[r] \in Nat
BY DEF ReservedOn, Numbers, Bindings

LEMMA ReservedTypedNext ==
    ASSUME \A r \in Exposures : record'[r] \in Bindings
    PROVE  \A d \in Days : /\ Numbers(ReservedOn(d)', Exposures)
                           /\ \A r \in Exposures : ReservedOn(d)'[r] \in Nat
BY DEF ReservedOn, Numbers, Bindings

LEMMA LimitStarts == LimitInit => LimitInv
<1> SUFFICES ASSUME LimitInit PROVE LimitInv
  OBVIOUS
<1>1. LimitTypeOK
  BY NoRecordTyped, Zenon DEF LimitInit, LimitTypeOK, Bindings, Days
<1>2. ASSUME NEW d \in Days PROVE SumOf(ReservedOn(d), Exposures) = 0
  <2>1. \A r \in Exposures : ReservedOn(d)[r] = 0
    BY NoRecordTyped DEF LimitInit, ReservedOn
  <2> QED
    BY <2>1, SumZero
<1> QED
  BY <1>1, <1>2, NoRecordTyped DEF LimitInit, LimitInv, EveryDayExact, RecordLive, Days

\* One record of a day changes, and the counter of that day with it.
LEMMA OneRecordMoves ==
    ASSUME LimitInv, NEW r \in Exposures, NEW new \in Bindings, NEW d \in Days,
           record' = [record EXCEPT ![r] = new],
           usedOn' = [usedOn EXCEPT ![d] = usedOn[d] + ReservedOn(d)'[r] - ReservedOn(d)[r]],
           \A e \in Days \ {d} : ReservedOn(e)'[r] = ReservedOn(e)[r]
    PROVE  EveryDayExact'
<1>1. \A s \in Exposures : record'[s] \in Bindings /\ (s # r => record'[s] = record[s])
  BY LimitTypes DEF LimitInv, LimitTypeOK
<1>2. SUFFICES ASSUME NEW e \in Days PROVE usedOn'[e] = SumOf(ReservedOn(e)', Exposures)
  BY DEF EveryDayExact
<1>3. /\ Numbers(ReservedOn(e), Exposures) /\ Numbers(ReservedOn(e)', Exposures)
      /\ ReservedOn(e)[r] \in Nat /\ ReservedOn(e)'[r] \in Nat
  BY <1>1, LimitTypes, ReservedTyped, ReservedTypedNext
<1>4. \A s \in Exposures \ {r} : ReservedOn(e)'[s] = ReservedOn(e)[s]
  BY <1>1 DEF ReservedOn
<1>5. SumOf(ReservedOn(e)', Exposures)
        = SumOf(ReservedOn(e), Exposures) + ReservedOn(e)'[r] - ReservedOn(e)[r]
  <2> DEFINE f == ReservedOn(e)
             h == ReservedOn(e)'
  <2>1. SumOf(h, Exposures) = SumOf(f, Exposures) + h[r] - f[r]
    <3> HIDE DEF f, h
    <3>1. Numbers(f, Exposures) /\ Numbers(h, Exposures) /\ \A s \in Exposures \ {r} : h[s] = f[s]
      BY <1>3, <1>4 DEF f, h
    <3> QED
      BY <3>1, SumChange
  <2> QED
    BY <2>1
<1>6. usedOn[e] = SumOf(ReservedOn(e), Exposures) /\ usedOn[e] \in Nat
      /\ usedOn \in [Days -> Nat]
  BY LimitTypes DEF LimitInv, EveryDayExact, LimitTypeOK, Days
<1>7. usedOn'[e] = IF e = d THEN usedOn[d] + ReservedOn(d)'[r] - ReservedOn(d)[r] ELSE usedOn[e]
  BY <1>6
<1>8. CASE e = d
  BY <1>5, <1>6, <1>7, <1>8
<1>9. CASE e # d
  BY <1>3, <1>5, <1>6, <1>7, <1>9
<1> QED
  BY <1>8, <1>9

LEMMA AuthorizeStep ==
    ASSUME LimitInv, NEW r \in Exposures, NEW amount \in Amounts, Authorize(r, amount)
    PROVE  LimitInv'
<1>0. PICK d \in Days : d = today
  BY LimitTypes
<1> DEFINE new == Record(d, amount)
<1>1. amount \in Nat /\ new \in Bindings /\ new.exists /\ new.day = d /\ new.micro = amount
  BY DEF Record, Bindings
<1>2. /\ ~record[r].exists /\ record' = [record EXCEPT ![r] = new]
      /\ usedOn' = [usedOn EXCEPT ![d] = @ + amount]
      /\ usedOn[d] + amount <= Ceiling
      /\ UNCHANGED <<today, firstHour, ending>>
  BY <1>0 DEF Authorize
<1> HIDE DEF new
<1>3. record'[r] = new /\ \A s \in Exposures : s # r => record'[s] = record[s]
  BY <1>2 DEF LimitInv, LimitTypeOK
<1>4. LimitTypeOK'
  <2>1. usedOn \in [Days -> Nat] /\ record \in [Exposures -> Bindings]
    BY DEF LimitInv, LimitTypeOK, Days, Bindings
  <2>2. usedOn[d] + amount \in Nat
    BY <1>1, LimitTypes
  <2>3. usedOn' \in [Days -> Nat]
    BY <1>2, <2>1, <2>2
  <2>4. record' \in [Exposures -> Bindings]
    BY <1>1, <1>2, <2>1
  <2> QED
    BY <1>2, <2>3, <2>4 DEF LimitInv, LimitTypeOK, Days, Bindings
<1>5. EveryDayExact'
  <2>1. ReservedOn(d)'[r] = amount /\ ReservedOn(d)[r] = 0
    BY <1>1, <1>2, <1>3 DEF ReservedOn
  <2>2. \A e \in Days \ {d} : ReservedOn(e)'[r] = ReservedOn(e)[r]
    BY <1>1, <1>2, <1>3 DEF ReservedOn
  <2>3. usedOn[d] + amount = usedOn[d] + ReservedOn(d)'[r] - ReservedOn(d)[r]
    BY <1>1, <2>1, LimitTypes
  <2>4. usedOn' = [usedOn EXCEPT ![d] = usedOn[d] + ReservedOn(d)'[r] - ReservedOn(d)[r]]
    BY <1>2, <2>3
  <2> QED
    BY <1>1, <1>2, <2>2, <2>4, OneRecordMoves
<1>6. \A e \in Days : usedOn'[e] <= Ceiling
  BY <1>1, <1>2, LimitTypes DEF LimitInv, LimitTypeOK, Days
<1>7. \A s \in Exposures : RecordLive(s)'
  BY <1>0, <1>1, <1>2, <1>3 DEF LimitInv, RecordLive
<1> QED
  BY <1>2, <1>4, <1>5, <1>6, <1>7 DEF LimitInv

LEMMA ApplyStep ==
    ASSUME LimitInv, NEW t \in Terminals, Apply(t)
    PROVE  LimitInv'
<1> DEFINE full == ending[t].keep = -1
           keep == IF full THEN 0 ELSE Min({ending[t].keep, ending[t].raw.micro})
<1>1. PICK r \in Exposures, raw \in Bindings, k \in Amounts \union {-1, 0} :
        ending[t].of = r /\ ending[t].raw = raw /\ ending[t].keep = k /\ raw.exists
  BY Zenon DEF LimitInv, Apply
<1>2. /\ ending' = [ending EXCEPT ![t] = Waiting] /\ UNCHANGED <<today, firstHour>>
      /\ ending \in [Terminals -> [of : Exposures \union {NoExposure},
                                 keep : Amounts \union {-1, 0}, raw : Bindings]]
      /\ ending' \in [Terminals -> [of : Exposures \union {NoExposure},
                                 keep : Amounts \union {-1, 0}, raw : Bindings]]
  BY NoRecordTyped DEF Apply, LimitInv, LimitTypeOK, Bindings, Days
<1>3. \A u \in Terminals : ending'[u] # Waiting => ending'[u] = ending[u]
  BY <1>2
<1>4. CASE ~Unchanged(t)
  <2>1. UNCHANGED <<usedOn, record>>
    BY <1>4 DEF Apply
  <2> QED
    <3>1. EveryDayExact' /\ \A s \in Exposures : RecordLive(s)'
      BY <1>2, <2>1 DEF LimitInv, EveryDayExact, ReservedOn, RecordLive
    <3>2. LimitTypeOK'
      BY <1>2, <2>1, Zenon DEF LimitInv, LimitTypeOK, Bindings, Days
    <3> QED
      BY <1>2, <1>3, <2>1, <3>1, <3>2 DEF LimitInv
<1>5. CASE Unchanged(t)
  <2>1. record[r] = raw
    BY <1>1, <1>5 DEF Unchanged
  <2>2. PICK d \in Days : d = raw.day
    BY DEF Bindings
  <2>3. keep \in Nat /\ keep <= raw.micro /\ raw.micro \in Nat
    <3>1. raw.micro \in Nat /\ raw.micro \in Int /\ k \in Int /\ (k # -1 => k \in Nat)
      BY DEF Bindings
    <3>2. Min({k, raw.micro}) = IF k >= raw.micro THEN raw.micro ELSE k
      BY <3>1, TwoOf, Zenon
    <3>3. keep = IF k = -1 THEN 0 ELSE Min({k, raw.micro})
      BY <1>1
    <3> HIDE DEF keep
    <3> QED
      BY <3>1, <3>2, <3>3
  <2> DEFINE new == IF full THEN NoRecord ELSE Record(d, keep)
  <2>4. new \in Bindings /\ (new.exists => new.day = d) /\ (IF new.exists THEN new.micro ELSE 0) = keep
    BY <2>3, NoRecordTyped DEF Record, Bindings
  <2>5. /\ usedOn' = [usedOn EXCEPT ![d] = Max({@ - (raw.micro - keep), 0})]
        /\ record' = [record EXCEPT ![r] = new]
    BY <1>1, <1>5, <2>2 DEF Apply
  <2> HIDE DEF full, keep, new
  <2>6. record'[r] = new /\ \A s \in Exposures : s # r => record'[s] = record[s]
    BY <2>5 DEF LimitInv, LimitTypeOK
  <2>7. ReservedOn(d)[r] = raw.micro /\ ReservedOn(d)'[r] = keep
    BY <1>1, <2>1, <2>2, <2>4, <2>6 DEF ReservedOn
  <2>8. usedOn[d] >= raw.micro /\ usedOn[d] \in Nat
    <3>1. \A s \in Exposures : ReservedOn(d)[s] \in Nat
      BY LimitTypes, ReservedTyped
    <3>2. ReservedOn(d)[r] <= SumOf(ReservedOn(d), Exposures)
      <4> DEFINE f == ReservedOn(d)
      <4> HIDE DEF f
      <4>1. \A s \in Exposures : f[s] \in Nat
        BY <3>1 DEF f
      <4>2. f[r] <= SumOf(f, Exposures)
        BY <4>1, SumNat
      <4> QED
        BY <4>2 DEF f
    <3> QED
      BY <2>7, <3>2, LimitTypes DEF LimitInv, EveryDayExact
  <2>9. Max({usedOn[d] - (raw.micro - keep), 0}) = usedOn[d] + keep - raw.micro
    BY <2>3, <2>8, TwoOf
  <2>10. usedOn' = [usedOn EXCEPT ![d] = usedOn[d] + keep - raw.micro]
    BY <2>5, <2>9
  <2>11. LimitTypeOK'
    <3>1. usedOn \in [Days -> Nat] /\ record \in [Exposures -> Bindings]
      BY DEF LimitInv, LimitTypeOK, Days, Bindings
    <3>2. usedOn[d] + keep - raw.micro \in Nat
      BY <2>3, <2>8
    <3>3. usedOn' \in [Days -> Nat]
      BY <2>10, <3>1, <3>2
    <3>4. record' \in [Exposures -> Bindings]
      BY <2>4, <2>5, <3>1
    <3> QED
      BY <1>2, <3>3, <3>4 DEF LimitInv, LimitTypeOK, Days, Bindings
  <2>12. EveryDayExact'
    <3>1. \A e \in Days \ {d} : ReservedOn(e)'[r] = ReservedOn(e)[r]
      BY <2>1, <2>2, <2>4, <2>6 DEF ReservedOn
    <3>2. usedOn' = [usedOn EXCEPT ![d] = usedOn[d] + ReservedOn(d)'[r] - ReservedOn(d)[r]]
      BY <2>7, <2>10
    <3> QED
      BY <2>4, <2>5, <3>1, <3>2, OneRecordMoves
  <2>13. \A e \in Days : usedOn'[e] <= Ceiling
    <3>1. usedOn \in [Days -> Nat] /\ \A e \in Days : usedOn[e] <= Ceiling
      BY DEF LimitInv, LimitTypeOK, Days
    <3> QED
      BY <2>3, <2>8, <2>10, <3>1
  <2>14. \A s \in Exposures : RecordLive(s)'
    <3>1. \A s \in Exposures : RecordLive(s)
      BY DEF LimitInv
    <3>2. raw.day = d /\ raw.exists /\ UNCHANGED <<today, firstHour>>
      BY <1>1, <1>2, <2>2
    <3> QED
      BY <2>1, <2>4, <2>6, <3>1, <3>2 DEF RecordLive
  <2> QED
    BY <1>2, <1>3, <2>11, <2>12, <2>13, <2>14 DEF LimitInv
<1> QED
  BY <1>4, <1>5

LEMMA TerminalStep ==
    ASSUME LimitInv, NEW t \in Terminals,
           \/ TerminalDies(t)
           \/ \E r \in Exposures, keep \in Amounts \union {-1, 0} : ReadRecord(t, r, keep)
    PROVE  LimitInv'
<1> DEFINE Endings == [of : Exposures \union {NoExposure}, keep : Amounts \union {-1, 0}, raw : Bindings]
<1>1. UNCHANGED <<today, firstHour, usedOn, record>>
  BY DEF TerminalDies, ReadRecord
<1>2. ending \in [Terminals -> Endings]
  BY DEF LimitInv, LimitTypeOK, Bindings, Days
<1> DEFINE Replaced == \E new \in Endings : /\ ending' = [ending EXCEPT ![t] = new]
                                            /\ new # Waiting => new.of \in Exposures /\ new.raw.exists
<1>3. Replaced
  <2>1. CASE TerminalDies(t)
    <3> DEFINE w == Waiting
    <3>1. w \in Endings /\ ending' = [ending EXCEPT ![t] = w] /\ w = Waiting
      BY <2>1, NoRecordTyped DEF TerminalDies
    <3> HIDE DEF Endings, w
    <3> QED
      BY <3>1, Zenon
  <2>2. ASSUME NEW r \in Exposures, NEW keep \in Amounts \union {-1, 0}, ReadRecord(t, r, keep)
        PROVE  Replaced
    <3> DEFINE new == [of |-> r, keep |-> keep, raw |-> record[r]]
    <3>1. new \in Endings /\ new.of = r /\ new.raw = record[r]
      BY LimitTypes
    <3>2. record[r].exists /\ ending' = [ending EXCEPT ![t] = new]
      BY <2>2 DEF ReadRecord
    <3> HIDE DEF new, Endings
    <3> QED
      BY <3>1, <3>2
  <2> HIDE DEF Replaced
  <2> QED
    BY <2>1, <2>2
<1>4. ending' \in [Terminals -> Endings]
  <2> HIDE DEF Endings
  <2> QED
    BY <1>2, <1>3
<1>5. \A u \in Terminals : ending'[u] # Waiting =>
         ending'[u].of \in Exposures /\ ending'[u].raw.exists /\ ending'[u].raw \in Bindings
         /\ ending'[u].keep \in Amounts \union {-1, 0}
  <2>1. \A e \in Endings : e.raw \in Bindings /\ e.keep \in Amounts \union {-1, 0}
    OBVIOUS
  <2>2. \A u \in Terminals : ending[u] # Waiting => ending[u].of \in Exposures /\ ending[u].raw.exists
    BY DEF LimitInv
  <2> HIDE DEF Endings
  <2> QED
    BY <1>2, <1>3, <1>4, <2>1, <2>2
<1>6. LimitTypeOK'
  BY <1>1, <1>4 DEF LimitInv, LimitTypeOK, Bindings, Days
<1>7. EveryDayExact' /\ \A r \in Exposures : RecordLive(r)'
  BY <1>1 DEF LimitInv, EveryDayExact, ReservedOn, RecordLive
<1> QED
  BY <1>1, <1>5, <1>6, <1>7 DEF LimitInv

LEMMA NewDayStep == ASSUME LimitInv, NewDay PROVE LimitInv'
<1>1. /\ ~firstHour /\ today < FinalDay /\ today' = today + 1 /\ firstHour' = TRUE
      /\ UNCHANGED <<usedOn, record, ending>>
  BY DEF NewDay
<1>2. today' \in Days /\ today' > 0
  BY <1>1, LimitTypes DEF Days
<1>3. LimitTypeOK'
  <2>1. firstHour' \in BOOLEAN
    BY <1>1, Zenon
  <2> QED
    BY <1>1, <1>2, <2>1 DEF LimitInv, LimitTypeOK, Days
<1>4. EveryDayExact' /\ (\A r \in Exposures : RecordLive(r)') /\ \A d \in Days : usedOn'[d] <= Ceiling
  BY <1>1, LimitTypes DEF LimitInv, EveryDayExact, ReservedOn, RecordLive
<1> QED
  BY <1>1, <1>2, <1>3, <1>4 DEF LimitInv

LEMMA OldDayExpiresStep == ASSUME LimitInv, OldDayExpires PROVE LimitInv'
<1>1. PICK d \in Days : d = today - 1 /\ today > 0
  BY LimitTypes DEF LimitInv, OldDayExpires, Days
<1>2. /\ firstHour' = FALSE /\ usedOn' = [usedOn EXCEPT ![d] = 0]
      /\ record' = [r \in Exposures |-> IF record[r].day < today THEN NoRecord ELSE record[r]]
      /\ UNCHANGED <<today, ending>>
  BY <1>1 DEF OldDayExpires
<1>3. \A r \in Exposures :
        /\ record[r].exists /\ record[r].day # today => record'[r] = NoRecord
        /\ record[r].exists /\ record[r].day = today => record'[r] = record[r]
        /\ ~record[r].exists => ~record'[r].exists
        /\ record'[r].exists => record'[r].day = today
  BY <1>1, <1>2, LimitTypes, NoRecordTyped DEF LimitInv, RecordLive
<1>4. LimitTypeOK'
  <2>1. usedOn' \in [Days -> Nat]
    BY <1>2 DEF LimitInv, LimitTypeOK, Days
  <2>2. record' \in [Exposures -> Bindings]
    BY <1>2, LimitTypes, NoRecordTyped
  <2>3. firstHour' \in BOOLEAN
    BY <1>2, Zenon
  <2> QED
    BY <1>2, <2>1, <2>2, <2>3 DEF LimitInv, LimitTypeOK, Days, Bindings
<1>5. ASSUME NEW e \in Days PROVE usedOn'[e] = SumOf(ReservedOn(e)', Exposures)
  <2>1. CASE e = today
    <3>1. usedOn'[e] = usedOn[e] /\ usedOn[e] = SumOf(ReservedOn(e), Exposures)
      BY <1>1, <1>2, <2>1, LimitTypes DEF LimitInv, EveryDayExact, LimitTypeOK, Days
    <3>2. \A r \in Exposures : ReservedOn(e)'[r] = ReservedOn(e)[r]
      BY <1>3, <2>1, NoRecordTyped DEF ReservedOn
    <3>3. Numbers(ReservedOn(e), Exposures)
      BY LimitTypes, ReservedTyped
    <3>4. SumOf(ReservedOn(e), Exposures) = SumOf(ReservedOn(e)', Exposures)
      <4> DEFINE f == ReservedOn(e)
                 h == ReservedOn(e)'
      <4>1. SumOf(f, Exposures) = SumOf(h, Exposures)
        <5> HIDE DEF f, h
        <5>1. Numbers(f, Exposures) /\ \A r \in Exposures : h[r] = f[r]
          BY <3>2, <3>3 DEF f, h
        <5> QED
          BY <5>1, SumAlike
      <4> QED
        BY <4>1
    <3> QED
      BY <3>1, <3>4
  <2>2. CASE e # today
    <3>1. SumOf(ReservedOn(e)', Exposures) = 0
      <4>1. \A r \in Exposures : ReservedOn(e)'[r] = 0
        BY <1>3, <2>2 DEF ReservedOn
      <4> QED
        BY <4>1, SumZero
    <3>2. usedOn'[e] = 0
      <4>1. CASE e = d
        BY <1>2, <4>1 DEF LimitInv, LimitTypeOK, Days
      <4>2. CASE e # d
        <5>1. usedOn'[e] = usedOn[e] /\ usedOn[e] = SumOf(ReservedOn(e), Exposures)
          BY <1>2, <4>2 DEF LimitInv, EveryDayExact, LimitTypeOK, Days
        <5>2. \A r \in Exposures : ReservedOn(e)[r] = 0
          BY <1>1, <2>2, <4>2 DEF LimitInv, RecordLive, ReservedOn
        <5>3. SumOf(ReservedOn(e), Exposures) = 0
          BY <5>2, SumZero
        <5> QED
          BY <5>1, <5>3
      <4> QED
        BY <4>1, <4>2
    <3> QED
      BY <3>1, <3>2
  <2> QED
    BY <2>1, <2>2
<1>6. \A e \in Days : usedOn'[e] <= Ceiling
  BY <1>2 DEF LimitInv, LimitTypeOK, Days
<1>7. \A r \in Exposures : RecordLive(r)'
  BY <1>2, <1>3 DEF RecordLive
<1>8. EveryDayExact'
  BY <1>5 DEF EveryDayExact
<1> QED
  BY <1>1, <1>2, <1>4, <1>6, <1>7, <1>8 DEF LimitInv

LEMMA LimitStep == LimitInv /\ [LimitNext]_limitVars => LimitInv'
<1> SUFFICES ASSUME LimitInv, [LimitNext]_limitVars PROVE LimitInv'
  OBVIOUS
<1>1. CASE UNCHANGED limitVars
  BY <1>1 DEF LimitInv, LimitTypeOK, EveryDayExact, ReservedOn, RecordLive, limitVars
<1> QED
  BY <1>1, AuthorizeStep, ApplyStep, TerminalStep, NewDayStep, OldDayExpiresStep DEF LimitNext

LEMMA LimitSafe == LimitInv => CeilingIsExact
<1> SUFFICES ASSUME LimitInv PROVE CeilingIsExact
  OBVIOUS
<1> DEFINE T == {r \in Exposures : record[r].exists /\ record[r].day = today}
           g == [r \in T |-> record[r].micro]
<1>1. IsFiniteSet(T) /\ T \in SUBSET Exposures /\ \A r \in T : record[r].micro \in Int
  BY FS_Subset, LimitTypes
<1>2. \A r \in T : g[r] = ReservedOn(today)[r]
  BY DEF ReservedOn
<1>3. \A r \in Exposures \ T : ReservedOn(today)[r] = 0
  BY DEF ReservedOn
<1>4. usedOn[today] = SumOf(ReservedOn(today), Exposures) /\ usedOn[today] <= Ceiling
  BY LimitTypes DEF LimitInv, EveryDayExact
<1>5. Numbers(ReservedOn(today), Exposures)
  BY LimitTypes, ReservedTyped
<1>6. SumOf(ReservedOn(today), Exposures) = SumOf(g, T)
  <2> HIDE DEF T, g
  <2>1. SumOf(ReservedOn(today), Exposures) = SumOf(ReservedOn(today), T)
    BY <1>1, <1>3, <1>5, SumRest
  <2>2. Numbers(ReservedOn(today), T)
    BY <1>1, <1>5 DEF Numbers
  <2> QED
    BY <1>1, <1>2, <2>1, <2>2, SumAlike
<1>7. MapThenSumSet(LAMBDA r : record[r].micro, T) = SumOf(g, T)
  <2> HIDE DEF T
  <2> QED
    BY <1>1, MicroSum
<1> QED
  BY <1>4, <1>6, <1>7 DEF CeilingIsExact, MapThenSumSet, MapThenFoldSet

(***************************************************************************)
(* The counter of the day is what its requests still reserve and stays     *)
(* under the ceiling: for any number of requests, finalizers and sweepers, *)
(* whatever they retry and however late they come.                         *)
(***************************************************************************)
THEOREM ServiceStaysUnderCeiling == LimitSpec => []CeilingIsExact
<1> QED
  BY LimitStarts, LimitStep, LimitSafe, PTL DEF LimitSpec

HIDE LimitAssumption

-----------------------------------------------------------------------------
(* Daily free credits. *)

USE FreeAssumption

Draft == [exists : BOOLEAN, micro : Nat, day : 0..LastDay]

OfToday(r) == drawnOn[r].exists /\ drawnOn[r].day = day

\* What each request keeps of what it drew today.
KeptOf == [r \in Draws |-> IF OfToday(r) THEN drawnOn[r].micro ELSE 0]

Kept == SumOf(KeptOf, Draws)

DrawOK(r) ==
    /\ drawnOn[r].day <= day
    /\ takenBy[r].exists => drawnOn[r].exists
    /\ OfToday(r) => takenBy[r] = drawnOn[r]

(***************************************************************************)
(* The inductive invariant ties the two records of a draw: what a request  *)
(* took is what the counter drew on for it, as long as the day has not     *)
(* turned.                                                                 *)
(***************************************************************************)
FreeInv ==
    /\ FreeTypeOK
    /\ \A r \in Draws : DrawOK(r)
    /\ Kept <= Max(DayCaps) + late
    /\ Kept <= spentKey.micro + late

LEMMA FreeTypes ==
    ASSUME FreeTypeOK
    PROVE  /\ day \in 0..LastDay /\ day \in Nat /\ late \in Nat
           /\ spentKey \in [exists : BOOLEAN, micro : Nat] /\ spentKey.micro \in Nat
           /\ takenBy \in [Draws -> Draft] /\ drawnOn \in [Draws -> Draft]
           /\ \A r \in Draws : /\ takenBy[r] \in Draft /\ drawnOn[r] \in Draft
                               /\ takenBy[r].micro \in Nat /\ drawnOn[r].micro \in Nat
                               /\ takenBy[r].day \in Nat /\ drawnOn[r].day \in Nat
BY DEF FreeTypeOK, Draft

\* Two records of a draw are the same when their fields are.
LEMMA SameDraft ==
    \A x, y \in Draft : x.exists = y.exists /\ x.micro = y.micro /\ x.day = y.day => x = y
<1> SUFFICES ASSUME NEW x \in Draft, NEW y \in Draft,
                    x.exists = y.exists, x.micro = y.micro, x.day = y.day
             PROVE  x = y
  OBVIOUS
<1>1. /\ x = [exists |-> x.exists, micro |-> x.micro, day |-> x.day]
      /\ y = [exists |-> y.exists, micro |-> y.micro, day |-> y.day]
  BY Zenon DEF Draft
<1> QED
  BY <1>1, Zenon

LEMMA NoDrawTyped == NoDraw \in Draft /\ ~NoDraw.exists /\ NoDraw.day = 0 /\ NoDraw.micro = 0
BY DEF NoDraw, Draft

LEMMA KeptTyped ==
    ASSUME FreeTypeOK
    PROVE  Numbers(KeptOf, Draws) /\ (\A r \in Draws : KeptOf[r] \in Nat) /\ Kept \in Int
<1>1. \A r \in Draws : KeptOf[r] \in Nat
  BY FreeTypes DEF KeptOf
<1>2. Numbers(KeptOf, Draws)
  BY <1>1 DEF Numbers
<1> QED
  BY <1>1, <1>2, SumTyped DEF Kept

LEMMA KeptTypedNext ==
    ASSUME FreeTypeOK'
    PROVE  Numbers(KeptOf', Draws) /\ (\A r \in Draws : KeptOf'[r] \in Nat) /\ Kept' \in Int
<1>0. drawnOn' \in [Draws -> Draft]
  BY DEF FreeTypeOK, Draft
<1>1. \A r \in Draws : KeptOf'[r] \in Nat
  BY <1>0 DEF KeptOf, Draft
<1>2. Numbers(KeptOf', Draws)
  BY <1>1 DEF Numbers
<1>3. SumOf(KeptOf', Draws) \in Int
  <2> DEFINE f == KeptOf'
  <2> HIDE DEF f
  <2>1. Numbers(f, Draws)
    BY <1>2 DEF f
  <2>2. SumOf(f, Draws) \in Int
    BY <2>1, SumTyped
  <2> QED
    BY <2>2 DEF f
<1> QED
  BY <1>1, <1>2, <1>3 DEF Kept

LEMMA MaxCap == Max(DayCaps) \in Nat /\ \A cap \in DayCaps : cap <= Max(DayCaps)
<1>1. DayCaps \subseteq Int
  OBVIOUS
<1> QED
  BY <1>1, MaxOf

\* One request's share of today changes.
LEMMA KeptMoves ==
    ASSUME FreeTypeOK, FreeTypeOK', NEW r \in Draws, day' = day,
           \A s \in Draws \ {r} : drawnOn'[s] = drawnOn[s]
    PROVE  Kept' = Kept + KeptOf'[r] - KeptOf[r]
<1>1. \A s \in Draws \ {r} : KeptOf'[s] = KeptOf[s]
  BY DEF KeptOf, OfToday
<1> DEFINE f == KeptOf
           h == KeptOf'
<1>2. Numbers(f, Draws) /\ Numbers(h, Draws) /\ \A s \in Draws \ {r} : h[s] = f[s]
  BY <1>1, KeptTyped, KeptTypedNext
<1>3. SumOf(h, Draws) = SumOf(f, Draws) + h[r] - f[r]
  <2> HIDE DEF f, h
  <2> QED
    BY <1>2, SumChange
<1> QED
  BY <1>3 DEF Kept

LEMMA FreeStarts == FreeInit => FreeInv
<1> SUFFICES ASSUME FreeInit PROVE FreeInv
  OBVIOUS
<1>1. FreeTypeOK
  <2>1. day \in 0..LastDay /\ late \in Nat
    BY DEF FreeInit
  <2> QED
    BY <2>1, NoDrawTyped, Zenon DEF FreeInit, FreeTypeOK, Draft
<1>2. Kept = 0
  <2>1. \A r \in Draws : KeptOf[r] = 0
    BY NoDrawTyped DEF FreeInit, KeptOf, OfToday
  <2> QED
    BY <2>1, SumZero DEF Kept
<1>3. \A r \in Draws : DrawOK(r)
  BY NoDrawTyped DEF FreeInit, DrawOK, OfToday
<1> QED
  BY <1>1, <1>2, <1>3, MaxCap, FreeTypes DEF FreeInv, FreeInit

LEMMA ConsumeStep ==
    ASSUME FreeInv, NEW r \in Draws, NEW cap \in DayCaps, NEW want \in Wants, Consume(r, cap, want)
    PROVE  FreeInv'
<1>1. PICK left \in Int : left = cap - spentKey.micro
  BY FreeTypes DEF FreeInv
<1>2. PICK room \in Nat : room = Max({left, 0}) /\ (room = 0 \/ room = left)
  <2>1. Max({left, 0}) = IF left >= 0 THEN left ELSE 0
    BY TwoOf
  <2> QED
    BY <2>1
<1>3. PICK take \in Nat : take = Min({want, room}) /\ take <= room
  <2>1. Min({want, room}) = IF want >= room THEN room ELSE want
    BY TwoOf
  <2> QED
    BY <2>1
<1>4. Take(cap, want) = take
  BY <1>1, <1>2, <1>3 DEF Take
<1>5. PICK d \in 0..LastDay : d = day
  BY FreeTypes DEF FreeInv
<1> DEFINE new == [exists |-> TRUE, micro |-> take, day |-> d]
<1>6. new \in Draft /\ new.exists /\ new.micro = take /\ new.day = d
  BY DEF Draft
<1>7. /\ ~takenBy[r].exists
      /\ spentKey' = IF take > 0 THEN [exists |-> TRUE, micro |-> spentKey.micro + take] ELSE spentKey
      /\ takenBy' = [takenBy EXCEPT ![r] = new] /\ drawnOn' = [drawnOn EXCEPT ![r] = new]
      /\ UNCHANGED <<day, early, late>>
  BY <1>4, <1>5 DEF Consume
<1> HIDE DEF new
<1>8. /\ takenBy'[r] = new /\ drawnOn'[r] = new
      /\ \A s \in Draws \ {r} : takenBy'[s] = takenBy[s] /\ drawnOn'[s] = drawnOn[s]
  BY <1>7, FreeTypes DEF FreeInv
<1>9. spentKey' \in [exists : BOOLEAN, micro : Nat] /\ spentKey'.micro = spentKey.micro + take
  BY <1>7, FreeTypes DEF FreeInv
<1>10. FreeTypeOK'
  <2>1. takenBy' \in [Draws -> Draft] /\ drawnOn' \in [Draws -> Draft]
    BY <1>6, <1>7, FreeTypes DEF FreeInv
  <2> QED
    BY <1>7, <1>9, <2>1 DEF FreeInv, FreeTypeOK, Draft
<1>11. \A s \in Draws : DrawOK(s)'
  BY <1>5, <1>6, <1>7, <1>8, FreeTypes DEF FreeInv, DrawOK, OfToday
<1>12. KeptOf[r] = 0 /\ KeptOf'[r] = take
  BY <1>5, <1>6, <1>7, <1>8 DEF FreeInv, DrawOK, KeptOf, OfToday
<1>13. Kept' = Kept + take
  BY <1>7, <1>8, <1>10, <1>12, KeptMoves, KeptTyped DEF FreeInv
<1>14. take = 0 \/ spentKey.micro + take <= Max(DayCaps)
  BY <1>1, <1>2, <1>3, MaxCap, FreeTypes DEF FreeInv
<1>15. /\ Kept' <= Max(DayCaps) + late' /\ Kept' <= spentKey'.micro + late'
  BY <1>7, <1>9, <1>13, <1>14, MaxCap, FreeTypes, KeptTyped DEF FreeInv
<1> QED
  BY <1>10, <1>11, <1>15 DEF FreeInv

LEMMA ReleaseStep ==
    ASSUME FreeInv, NEW r \in Draws, NEW keep \in Wants \union {0}, Release(r, keep)
    PROVE  FreeInv'
<1>1. PICK delta \in Nat : delta = takenBy[r].micro - keep /\ delta > 0
  BY FreeTypes DEF FreeInv, Release
<1>2. PICK d \in 0..LastDay : d = day
  BY FreeTypes DEF FreeInv
<1> DEFINE new == [exists |-> TRUE, micro |-> keep, day |-> d]
<1>3. new \in Draft /\ new.exists /\ new.micro = keep /\ new.day = d /\ keep \in Nat
  BY DEF Draft
<1>4. /\ takenBy[r].exists
      /\ spentKey' = IF spentKey.exists THEN [spentKey EXCEPT !.micro = Max({@ - delta, 0})] ELSE spentKey
      /\ takenBy' = [takenBy EXCEPT ![r] = new] /\ drawnOn' = [drawnOn EXCEPT ![r].micro = keep]
      /\ late' = IF drawnOn[r].day = day THEN late ELSE late + delta
      /\ UNCHANGED <<day, early>>
  BY <1>1, <1>2 DEF Release
<1> HIDE DEF new
<1>5. /\ takenBy'[r] = new
      /\ drawnOn'[r].exists = drawnOn[r].exists /\ drawnOn'[r].day = drawnOn[r].day /\ drawnOn'[r].micro = keep
      /\ drawnOn'[r] \in Draft
      /\ \A s \in Draws \ {r} : takenBy'[s] = takenBy[s] /\ drawnOn'[s] = drawnOn[s]
  BY <1>3, <1>4, FreeTypes DEF FreeInv, Draft
<1>6. spentKey' \in [exists : BOOLEAN, micro : Nat] /\ spentKey'.micro >= spentKey.micro - delta
  <2>1. Max({spentKey.micro - delta, 0}) \in Nat /\ Max({spentKey.micro - delta, 0}) >= spentKey.micro - delta
    <3>1. PICK left \in Int : left = spentKey.micro - delta
      BY FreeTypes DEF FreeInv
    <3>2. Max({left, 0}) = IF left >= 0 THEN left ELSE 0
      BY TwoOf
    <3> QED
      BY <3>1, <3>2
  <2> QED
    BY <1>4, <2>1, FreeTypes DEF FreeInv
<1>7. late' \in Nat
  BY <1>4, FreeTypes DEF FreeInv
<1>8. FreeTypeOK'
  <2>1. takenBy' \in [Draws -> Draft] /\ drawnOn' \in [Draws -> Draft]
    BY <1>3, <1>4, FreeTypes DEF FreeInv, Draft
  <2> QED
    BY <1>4, <1>6, <1>7, <2>1 DEF FreeInv, FreeTypeOK, Draft
<1>9. \A s \in Draws : DrawOK(s)'
  <2>1. ASSUME NEW s \in Draws \ {r} PROVE DrawOK(s)'
    BY <1>4, <1>5 DEF FreeInv, DrawOK, OfToday
  <2>2. drawnOn'[r].day <= day'
    BY <1>4, <1>5 DEF FreeInv, DrawOK
  <2>3. drawnOn'[r].exists
    BY <1>4, <1>5 DEF FreeInv, DrawOK
  <2>4. OfToday(r)' => takenBy'[r] = drawnOn'[r]
    <3>1. SUFFICES ASSUME OfToday(r)' PROVE new = drawnOn'[r]
      BY <1>5
    <3>2. new.day = drawnOn'[r].day /\ new.micro = drawnOn'[r].micro
      BY <1>2, <1>3, <1>4, <1>5, <3>1 DEF OfToday
    <3>3. new.exists = TRUE /\ drawnOn'[r].exists = TRUE
      BY <1>3, <1>5, <2>3 DEF Draft
    <3> QED
      BY <1>3, <1>5, <3>2, <3>3, SameDraft
  <2> QED
    BY <2>1, <2>2, <2>3, <2>4 DEF DrawOK
<1>10. Kept' <= Kept /\ (drawnOn[r].day # day => Kept' = Kept) /\ (drawnOn[r].day = day => Kept' = Kept - delta)
  <2>1. Kept' = Kept + KeptOf'[r] - KeptOf[r]
    BY <1>4, <1>5, <1>8, KeptMoves DEF FreeInv
  <2>2. CASE drawnOn[r].day # day
    <3>1. KeptOf'[r] = 0 /\ KeptOf[r] = 0
      BY <1>4, <1>5, <2>2 DEF KeptOf, OfToday
    <3> QED
      BY <2>1, <2>2, <3>1, KeptTyped DEF FreeInv
  <2>3. CASE drawnOn[r].day = day
    <3>1. OfToday(r) /\ takenBy[r] = drawnOn[r]
      BY <1>4, <2>3 DEF FreeInv, DrawOK, OfToday
    <3>2. KeptOf'[r] = keep /\ KeptOf[r] = takenBy[r].micro
      BY <1>4, <1>5, <3>1 DEF KeptOf, OfToday
    <3> QED
      BY <1>1, <1>3, <2>1, <2>3, <3>2, KeptTyped, FreeTypes DEF FreeInv
  <2> QED
    BY <2>2, <2>3
<1>11. Kept' <= Max(DayCaps) + late' /\ Kept' <= spentKey'.micro + late'
  <2>1. spentKey'.micro \in Nat
    BY <1>6
  <2> QED
    BY <1>1, <1>4, <1>6, <1>7, <1>10, <2>1, MaxCap, FreeTypes, KeptTyped DEF FreeInv
<1> QED
  BY <1>8, <1>9, <1>11 DEF FreeInv

LEMMA MidnightStep == ASSUME FreeInv, Midnight PROVE FreeInv'
<1>1. FreeTypeOK'
  <2>1. day' \in 0..LastDay /\ late' \in Nat
    BY FreeTypes DEF FreeInv, Midnight
  <2>2. early' \in BOOLEAN /\ spentKey' \in [exists : BOOLEAN, micro : Nat]
    BY Zenon DEF Midnight
  <2> QED
    BY <2>1, <2>2 DEF FreeInv, FreeTypeOK, Midnight
<1>2. day' > day /\ UNCHANGED <<takenBy, drawnOn>> /\ late' = 0 /\ spentKey'.micro = 0
  BY FreeTypes DEF FreeInv, Midnight
<1>3. \A r \in Draws : drawnOn[r].day < day'
  <2>1. day' \in Nat /\ \A r \in Draws : drawnOn[r].day <= day
    BY <1>1 DEF FreeInv, FreeTypeOK, DrawOK
  <2> QED
    BY <1>2, <2>1, FreeTypes DEF FreeInv
<1>4. \A r \in Draws : DrawOK(r)'
  <2>1. \A r \in Draws : drawnOn'[r].day <= day' /\ ~OfToday(r)'
    BY <1>1, <1>2, <1>3, FreeTypes DEF FreeInv, FreeTypeOK, OfToday
  <2> QED
    BY <1>2, <2>1 DEF FreeInv, DrawOK
<1>5. Kept' = 0
  <2>1. \A r \in Draws : KeptOf'[r] = 0
    BY <1>2, <1>3, <1>1, FreeTypes DEF FreeInv, KeptOf, OfToday
  <2> DEFINE f == KeptOf'
  <2>2. SumOf(f, Draws) = 0
    <3>1. \A r \in Draws : f[r] = 0
      BY <2>1
    <3> HIDE DEF f
    <3> QED
      BY <3>1, SumZero
  <2> QED
    BY <2>2 DEF Kept
<1> QED
  BY <1>1, <1>2, <1>4, <1>5, MaxCap DEF FreeInv

LEMMA FirstHourStep == ASSUME FreeInv, FirstHourPasses PROVE FreeInv'
<1>1. /\ early' = FALSE /\ UNCHANGED <<day, spentKey, drawnOn, late>>
      /\ takenBy' = [r \in Draws |-> IF takenBy[r].day < day THEN NoDraw ELSE takenBy[r]]
  BY DEF FirstHourPasses
<1>2. FreeTypeOK'
  <2>1. takenBy' \in [Draws -> Draft]
    BY <1>1, FreeTypes, NoDrawTyped DEF FreeInv
  <2>2. early' \in BOOLEAN
    BY <1>1, Zenon
  <2> QED
    BY <1>1, <2>1, <2>2 DEF FreeInv, FreeTypeOK, Draft
<1>3. \A r \in Draws : DrawOK(r)'
  BY <1>1, FreeTypes, NoDrawTyped DEF FreeInv, DrawOK, OfToday
<1>4. Kept' = Kept
  BY <1>1 DEF Kept, KeptOf, OfToday
<1> QED
  BY <1>1, <1>2, <1>3, <1>4 DEF FreeInv

LEMMA FreeStep == FreeInv /\ [FreeNext]_freeVars => FreeInv'
<1> SUFFICES ASSUME FreeInv, [FreeNext]_freeVars PROVE FreeInv'
  OBVIOUS
<1>1. CASE UNCHANGED freeVars
  BY <1>1 DEF FreeInv, FreeTypeOK, DrawOK, OfToday, Kept, KeptOf, freeVars
<1> QED
  BY <1>1, ConsumeStep, ReleaseStep, MidnightStep, FirstHourStep DEF FreeNext

LEMMA FreeSafe == FreeInv => AllowanceAccounted
<1> SUFFICES ASSUME FreeInv PROVE AllowanceAccounted
  OBVIOUS
<1> DEFINE T == {r \in Draws : drawnOn[r].exists /\ drawnOn[r].day = day}
           g == [r \in T |-> drawnOn[r].micro]
<1>1. IsFiniteSet(T) /\ T \in SUBSET Draws /\ \A r \in T : drawnOn[r].micro \in Int
  BY FS_Subset, FreeTypes DEF FreeInv
<1>2. (\A r \in T : g[r] = KeptOf[r]) /\ \A r \in Draws \ T : KeptOf[r] = 0
  BY DEF KeptOf, OfToday
<1>3. Numbers(KeptOf, Draws)
  BY KeptTyped DEF FreeInv
<1>4. SumOf(KeptOf, Draws) = SumOf(g, T)
  <2> HIDE DEF T, g
  <2>1. SumOf(KeptOf, Draws) = SumOf(KeptOf, T)
    BY <1>1, <1>2, <1>3, SumRest
  <2>2. Numbers(KeptOf, T)
    BY <1>1, <1>3 DEF Numbers
  <2> QED
    BY <1>1, <1>2, <2>1, <2>2, SumAlike
<1>5. MapThenSumSet(LAMBDA r : drawnOn[r].micro, T) = SumOf(g, T)
  <2> HIDE DEF T
  <2> QED
    BY <1>1, MicroSum
<1>6. KeptToday = Kept
  BY <1>4, <1>5 DEF Kept, KeptToday, MapThenSumSet, MapThenFoldSet
<1> QED
  BY <1>6 DEF FreeInv, AllowanceAccounted

(***************************************************************************)
(* What requests keep of today's allowance is within the cap and within    *)
(* what the counter says, but for late releases of earlier days: for any   *)
(* number of requests and any caps the day may have.                       *)
(***************************************************************************)
THEOREM FreeCreditIsAccounted == FreeSpec => []AllowanceAccounted
<1> QED
  BY FreeStarts, FreeStep, FreeSafe, PTL DEF FreeSpec

HIDE FreeAssumption

-----------------------------------------------------------------------------
(* Deposits. *)

USE DepositAssumption

\* The sum over a set of receipts.
LEMMA RowSum ==
    ASSUME NEW T, IsFiniteSet(T), \A r \in T : r.micro \in Int
    PROVE  MapThenSumSet(LAMBDA r : r.micro, T) = SumOf([r \in T |-> r.micro], T)
<1> DEFINE f == [r \in T |-> r.micro]
           Iter(k) == k = [s \in SUBSET T |-> IF s = {} THEN 0
                              ELSE LET x == CHOOSE x \in s : TRUE IN x.micro + k[s \ {x}]]
           it == CHOOSE k : Iter(k)
<1>1. \A s \in SUBSET T : s # {} => Pick(s) \in T /\ f[Pick(s)] = Pick(s).micro
  BY PickIn
<1>2. \E k : Iter(k)
  <2>0. Numbers(f, T)
    BY DEF Numbers
  <2>1. PICK k \in [SUBSET T -> Int] : Adds(k, f, T)
    BY <2>0, AddsExists
  <2>2. Iter(k)
    BY <1>1, <2>1, ZenonT(60) DEF Adds, Pick
  <2> HIDE DEF Iter
  <2> QED
    BY <2>2
<1>3. Iter(it)
  <2> HIDE DEF Iter
  <2> QED
    BY <1>2
<1>4. MapThenSumSet(LAMBDA r : r.micro, T) = it[T]
  BY DEF MapThenSumSet, MapThenFoldSet
<1>5. Adds(it, f, T)
  <2>1. \A s \in SUBSET T : it[s] = IF s = {} THEN 0 ELSE Pick(s).micro + it[s \ {Pick(s)}]
    <3> HIDE DEF it
    <3> QED
      BY <1>3 DEF Pick
  <2> HIDE DEF it, f
  <2> QED
    BY <1>1, <2>1 DEF Adds
<1>6. SumOf(f, T) = it[T]
  <2>1. Numbers(f, T)
    BY DEF Numbers
  <2> HIDE DEF it, f
  <2> QED
    BY <1>5, <2>1, SumIs
<1> QED
  BY <1>4, <1>6

-----------------------------------------------------------------------------
ReceiptRows == [tx : Transfers, account : Funders, micro : Credits, on : 0..FinalDate]
ClaimRows == [phase : {"idle", "verified", "locked", "capped"},
              funder : Funders \union {NoFunder},
              tx : Transfers \union {NoTx}, micro : Credits \union {0}]

MicroOf(T) == [r \in T |-> r.micro]

\* Sets of receipts.
LEMMA RowsAdd ==
    ASSUME NEW T, IsFiniteSet(T), T \subseteq ReceiptRows
    PROVE  /\ DepositSum(T) \in Nat
           /\ T = {} => DepositSum(T) = 0
           /\ \A d \in ReceiptRows \ T : DepositSum(T \union {d}) = DepositSum(T) + d.micro
<1>1. \A r \in ReceiptRows : r.micro \in Nat
  BY DEF ReceiptRows
<1>2. ASSUME NEW S, IsFiniteSet(S), S \subseteq ReceiptRows
      PROVE  DepositSum(S) = SumOf(MicroOf(S), S) /\ Numbers(MicroOf(S), S)
  <2>1. \A r \in S : r.micro \in Int
    BY <1>1, <1>2
  <2>2. MapThenSumSet(LAMBDA r : r.micro, S) = SumOf([r \in S |-> r.micro], S)
    BY <1>2, <2>1, RowSum
  <2>3. DepositSum(S) = SumOf([r \in S |-> r.micro], S)
    BY <2>2 DEF DepositSum, MapThenSumSet, MapThenFoldSet
  <2> QED
    BY <2>1, <2>3 DEF MicroOf, Numbers
<1>3. DepositSum(T) = SumOf(MicroOf(T), T) /\ Numbers(MicroOf(T), T)
  BY <1>2
<1>4. SumOf(MicroOf(T), T) \in Nat
  <2>1. \A r \in T : MicroOf(T)[r] \in Nat
    BY <1>1 DEF MicroOf
  <2> QED
    BY <2>1, SumNat
<1>5. T = {} => SumOf(MicroOf(T), T) = 0
  BY <1>3, SumTyped
<1>6. ASSUME NEW d \in ReceiptRows \ T
      PROVE  DepositSum(T \union {d}) = DepositSum(T) + d.micro
  <2> DEFINE U == T \union {d}
  <2>1. IsFiniteSet(U) /\ U \subseteq ReceiptRows /\ d \in U /\ U \ {d} = T
    BY FS_AddElement
  <2> HIDE DEF U
  <2>2. DepositSum(U) = SumOf(MicroOf(U), U) /\ Numbers(MicroOf(U), U)
    BY <1>2, <2>1
  <2>3. SumOf(MicroOf(U), U) = MicroOf(U)[d] + SumOf(MicroOf(U), T)
    BY <2>1, <2>2, SumTake
  <2>4. \A r \in T : MicroOf(U)[r] = MicroOf(T)[r]
    BY <2>1 DEF MicroOf
  <2>5. SumOf(MicroOf(T), T) = SumOf(MicroOf(U), T)
    BY <1>3, <2>4, SumAlike
  <2>6. MicroOf(U)[d] = d.micro
    BY <2>1 DEF MicroOf
  <2>7. DepositSum(U) = DepositSum(T) + d.micro
    BY <1>1, <1>3, <1>4, <2>2, <2>3, <2>5, <2>6
  <2> QED
    BY <2>7 DEF U
<1> QED
  BY <1>3, <1>4, <1>5, <1>6

-----------------------------------------------------------------------------
OnDay(rows, n) == {d \in rows : d.on = n}
OfAccount(rows, n, f) == {d \in rows : d.on = n /\ d.account = f}

CapsHold ==
    \A n \in 0..FinalDate :
        /\ DepositSum(OnDay(deposits, n)) <= NetworkDayMax
        /\ \A f \in Funders : DepositSum(OfAccount(deposits, n, f)) <= AccountDayMax

\* What a claim has been granted fits on the current day, whichever it is.
ClaimOK(c) ==
    /\ claim[c].phase # "idle" =>
         claim[c].funder \in Funders /\ claim[c].tx \in Transfers /\ claim[c].micro \in Credits
    /\ claim[c].phase = "capped" =>
         /\ DepositSum(OnDay(deposits, date)) + claim[c].micro <= NetworkDayMax
         /\ DepositSum(OfAccount(deposits, date, canonical[claim[c].funder])) + claim[c].micro
                <= AccountDayMax

(***************************************************************************)
(* The inductive invariant. Besides what the property says: no receipt is  *)
(* of a later day; at most one claim is between its cap statement and its  *)
(* insert, and what that claim read of the day's sums still has room for   *)
(* it, because the cap lock is held from the one to the other.             *)
(***************************************************************************)
DepositInv ==
    /\ DepositTypeOK
    /\ IsFiniteSet(deposits)
    /\ \A d, e \in deposits : d.tx = e.tx => d = e
    /\ \A d \in deposits : d.on <= date
    /\ SumOf(funded, Funders) = DepositSum(deposits)
    /\ CapsHold
    /\ \A c \in Claims : ClaimOK(c)
    /\ \A c, e \in Claims : claim[c].phase = "capped" /\ claim[e].phase = "capped" => c = e

LEMMA DepositTypes ==
    ASSUME DepositInv
    PROVE  /\ deposits \subseteq ReceiptRows /\ IsFiniteSet(deposits) /\ date \in 0..FinalDate /\ date \in Nat
           /\ funded \in [Funders -> Nat] /\ canonical \in [Funders -> Funders]
           /\ claim \in [Claims -> ClaimRows]
           /\ \A c \in Claims : claim[c] \in ClaimRows
           /\ \A r \in ReceiptRows : r.micro \in Nat /\ r.on \in 0..FinalDate
<1>1. /\ deposits \subseteq ReceiptRows /\ IsFiniteSet(deposits) /\ date \in 0..FinalDate
      /\ funded \in [Funders -> Nat] /\ canonical \in [Funders -> Funders]
      /\ claim \in [Claims -> ClaimRows]
  BY DEF DepositInv, DepositTypeOK, ReceiptRows, ClaimRows
<1>2. \A r \in ReceiptRows : r.micro \in Nat /\ r.on \in 0..FinalDate
  BY DEF ReceiptRows
<1> QED
  BY <1>1, <1>2

LEMMA NoClaimTyped == NoClaim \in ClaimRows /\ NoClaim.phase = "idle"
BY DEF NoClaim, ClaimRows

\* The sums of a day.
LEMMA DaySums ==
    ASSUME NEW D, D \subseteq ReceiptRows, IsFiniteSet(D), NEW n, NEW f
    PROVE  /\ OnDay(D, n) \subseteq ReceiptRows /\ IsFiniteSet(OnDay(D, n))
           /\ OfAccount(D, n, f) \subseteq ReceiptRows /\ IsFiniteSet(OfAccount(D, n, f))
           /\ DepositSum(OnDay(D, n)) \in Nat
           /\ DepositSum(OfAccount(D, n, f)) \in Nat
<1>1. OnDay(D, n) \subseteq D /\ OfAccount(D, n, f) \subseteq D
  BY DEF OnDay, OfAccount
<1>2. IsFiniteSet(OnDay(D, n)) /\ IsFiniteSet(OfAccount(D, n, f))
  BY <1>1, FS_Subset
<1> QED
  BY <1>1, <1>2, RowsAdd

LEMMA DepositStarts == DepositInit => DepositInv
<1> SUFFICES ASSUME DepositInit PROVE DepositInv
  OBVIOUS
<1>1. DepositTypeOK
  BY NoClaimTyped DEF DepositInit, DepositTypeOK, ClaimRows
<1>2. IsFiniteSet(deposits) /\ deposits = {}
  BY FS_EmptySet DEF DepositInit
<1>3. SumOf(funded, Funders) = 0
  <2>1. \A f \in Funders : funded[f] = 0
    BY DEF DepositInit
  <2> QED
    BY <2>1, SumZero
<1>4. DepositSum({}) = 0
  BY FS_EmptySet, RowsAdd
<1>5. CapsHold
  <2>1. \A n, f : OnDay(deposits, n) = {} /\ OfAccount(deposits, n, f) = {}
    BY <1>2 DEF OnDay, OfAccount
  <2> QED
    BY <1>4, <2>1 DEF CapsHold
<1>6. \A c \in Claims : claim[c] = NoClaim
  BY DEF DepositInit
<1> QED
  BY <1>1, <1>2, <1>3, <1>4, <1>5, <1>6, NoClaimTyped DEF DepositInv, ClaimOK

\* A claim moves to a phase in which nothing is promised.
LEMMA ClaimMoves ==
    ASSUME DepositInv, UNCHANGED <<date, canonical, funded, deposits>>, NEW c \in Claims,
           NEW new \in ClaimRows, claim' = [claim EXCEPT ![c] = new], new.phase # "capped",
           new.phase # "idle" => new.funder \in Funders /\ new.tx \in Transfers /\ new.micro \in Credits
    PROVE  DepositInv'
<1>1. claim' \in [Claims -> ClaimRows] /\ claim'[c] = new /\ \A e \in Claims \ {c} : claim'[e] = claim[e]
  BY DepositTypes
<1>2. DepositTypeOK'
  BY <1>1 DEF DepositInv, DepositTypeOK, ClaimRows
<1>3. CapsHold'
  BY DEF DepositInv, CapsHold, OnDay, OfAccount
<1>4. \A e \in Claims : ClaimOK(e)'
  BY <1>1 DEF DepositInv, ClaimOK, OnDay, OfAccount
<1> QED
  BY <1>1, <1>2, <1>3, <1>4 DEF DepositInv

LEMMA ClaimEndsStep ==
    ASSUME DepositInv, UNCHANGED <<date, canonical, funded, deposits>>, NEW c \in Claims,
           claim' = [claim EXCEPT ![c] = NoClaim]
    PROVE  DepositInv'
<1>1. PICK new \in ClaimRows : new = NoClaim
  BY NoClaimTyped
<1> QED
  BY <1>1, NoClaimTyped, ClaimMoves

LEMMA VerifyStep ==
    ASSUME DepositInv, NEW c \in Claims, NEW f \in Funders, NEW t \in Transfers, Verify(c, f, t)
    PROVE  DepositInv'
<1>1. PICK micro \in Credits :
        claim' = [claim EXCEPT ![c] = [phase |-> "verified", funder |-> f, tx |-> t, micro |-> micro]]
  BY DEF Verify
<1> DEFINE new == [phase |-> "verified", funder |-> f, tx |-> t, micro |-> micro]
<1>2. new \in ClaimRows /\ new.phase = "verified" /\ new.funder = f /\ new.tx = t /\ new.micro = micro
  BY DEF ClaimRows
<1>3. UNCHANGED <<date, canonical, funded, deposits>>
  BY DEF Verify
<1> HIDE DEF new
<1>4. claim' = [claim EXCEPT ![c] = new]
  BY <1>1 DEF new
<1> QED
  BY <1>2, <1>3, <1>4, ClaimMoves

\* The claim with another phase.
LEMMA PhaseChanges ==
    ASSUME DepositInv, NEW c \in Claims, NEW phase \in {"locked", "capped"}, claim[c].phase # "idle"
    PROVE  \E new \in ClaimRows :
             /\ [claim EXCEPT ![c].phase = phase] = [claim EXCEPT ![c] = new] /\ new.phase = phase
             /\ new.funder = claim[c].funder /\ new.tx = claim[c].tx /\ new.micro = claim[c].micro
<1> DEFINE new == [claim[c] EXCEPT !.phase = phase]
<1>1. new \in ClaimRows /\ new.phase = phase
      /\ new.funder = claim[c].funder /\ new.tx = claim[c].tx /\ new.micro = claim[c].micro
  BY DepositTypes DEF ClaimRows
<1>2. [claim EXCEPT ![c].phase = phase] = [claim EXCEPT ![c] = new]
  OBVIOUS
<1> HIDE DEF new
<1> QED
  BY <1>1, <1>2

LEMMA LockAccountStep ==
    ASSUME DepositInv, NEW c \in Claims, LockAccount(c)
    PROVE  DepositInv'
<1>1. UNCHANGED <<date, canonical, funded, deposits>> /\ claim[c].phase = "verified"
  BY DEF LockAccount
<1>2. CASE claim' = [claim EXCEPT ![c] = NoClaim]
  BY <1>1, <1>2, ClaimEndsStep
<1>3. CASE claim' = [claim EXCEPT ![c].phase = "locked"]
  <2>1. PICK new \in ClaimRows :
             /\ [claim EXCEPT ![c].phase = "locked"] = [claim EXCEPT ![c] = new] /\ new.phase = "locked"
             /\ new.funder = claim[c].funder /\ new.tx = claim[c].tx /\ new.micro = claim[c].micro
    BY <1>1, PhaseChanges
  <2>2. claim' = [claim EXCEPT ![c] = new]
    BY <1>3, <2>1
  <2>3. new.funder \in Funders /\ new.tx \in Transfers /\ new.micro \in Credits
    BY <1>1, <2>1 DEF DepositInv, ClaimOK
  <2> QED
    BY <1>1, <2>1, <2>2, <2>3, ClaimMoves
<1> QED
  BY <1>2, <1>3 DEF LockAccount

LEMMA EnforceCapsStep ==
    ASSUME DepositInv, NEW c \in Claims, EnforceCaps(c)
    PROVE  DepositInv'
<1>1. UNCHANGED <<date, canonical, funded, deposits>> /\ claim[c].phase = "locked" /\ CapsFree
  BY DEF EnforceCaps
<1>2. CASE claim' = [claim EXCEPT ![c] = NoClaim]
  BY <1>1, <1>2, ClaimEndsStep
<1> DEFINE here == {d \in deposits : d.on = date}
           own   == {d \in here : d.account = canonical[claim[c].funder]}
<1>3. CASE /\ claim' = [claim EXCEPT ![c].phase = "capped"]
           /\ DepositSum(own) + claim[c].micro <= AccountDayMax
           /\ DepositSum(here) + claim[c].micro <= NetworkDayMax
  <2>1. PICK new \in ClaimRows :
             /\ [claim EXCEPT ![c].phase = "capped"] = [claim EXCEPT ![c] = new] /\ new.phase = "capped"
             /\ new.funder = claim[c].funder /\ new.tx = claim[c].tx /\ new.micro = claim[c].micro
    BY <1>1, PhaseChanges
  <2>2. claim' = [claim EXCEPT ![c] = new]
    BY <1>3, <2>1
  <2>3. claim' \in [Claims -> ClaimRows] /\ claim'[c] = new /\ \A e \in Claims \ {c} : claim'[e] = claim[e]
    BY <2>2, DepositTypes
  <2>4. new.funder \in Funders /\ new.tx \in Transfers /\ new.micro \in Credits
    BY <1>1, <2>1 DEF DepositInv, ClaimOK
  <2>5. here = OnDay(deposits, date) /\ own = OfAccount(deposits, date, canonical[new.funder])
    BY <2>1 DEF OnDay, OfAccount
  <2>6. DepositTypeOK'
    BY <1>1, <2>3 DEF DepositInv, DepositTypeOK, ClaimRows
  <2>7. CapsHold'
    BY <1>1 DEF DepositInv, CapsHold, OnDay, OfAccount
  <2>8. ClaimOK(c)'
    <3> HIDE DEF here, own
    <3>1. /\ DepositSum(OnDay(deposits, date)) + new.micro <= NetworkDayMax
          /\ DepositSum(OfAccount(deposits, date, canonical[new.funder])) + new.micro <= AccountDayMax
      BY <1>3, <2>1, <2>5
    <3>2. /\ OnDay(deposits, date)' = OnDay(deposits, date)
          /\ OfAccount(deposits, date, canonical[claim[c].funder])'
               = OfAccount(deposits, date, canonical[new.funder])
      BY <1>1, <2>3 DEF OnDay, OfAccount
    <3> QED
      BY <2>3, <2>4, <3>1, <3>2 DEF ClaimOK
  <2>9. \A e \in Claims \ {c} : ClaimOK(e)'
    BY <1>1, <2>3 DEF DepositInv, ClaimOK, OnDay, OfAccount
  <2>10. \A e \in Claims \ {c} : claim'[e].phase # "capped"
    BY <1>1, <2>3 DEF CapsFree
  <2> QED
    BY <1>1, <2>6, <2>7, <2>8, <2>9, <2>10 DEF DepositInv
<1> QED
  BY <1>2, <1>3 DEF EnforceCaps

LEMMA RecordAndCreditStep ==
    ASSUME DepositInv, NEW c \in Claims, RecordAndCredit(c)
    PROVE  DepositInv'
<1>0. PICK f \in Funders, t \in Transfers, micro \in Credits, n \in 0..FinalDate :
        /\ f = canonical[claim[c].funder] /\ t = claim[c].tx /\ micro = claim[c].micro /\ n = date
  BY DepositTypes DEF DepositInv, ClaimOK, RecordAndCredit
<1>1. /\ UNCHANGED <<date, canonical>> /\ claim[c].phase = "capped"
      /\ claim' = [claim EXCEPT ![c] = NoClaim]
  BY DEF RecordAndCredit
<1>2. CASE Receipted(t, f)
  BY <1>0, <1>1, <1>2, ClaimEndsStep DEF RecordAndCredit
<1>3. CASE ~Receipted(t, f)
  <2> DEFINE new == [tx |-> t, account |-> f, micro |-> micro, on |-> n]
  <2>1. deposits' = deposits \union {new} /\ funded' = [funded EXCEPT ![f] = @ + micro]
    BY <1>0, <1>3 DEF RecordAndCredit
  <2>2. /\ new \in ReceiptRows /\ new \notin deposits /\ new.on = n /\ new.account = f
        /\ new.micro = micro /\ new.tx = t /\ micro \in Nat
        /\ \A d \in deposits : d.tx # new.tx
    BY <1>3 DEF ReceiptRows, Receipted
  <2> HIDE DEF new
  <2>3. deposits' \subseteq ReceiptRows /\ IsFiniteSet(deposits')
    BY <2>1, <2>2, DepositTypes, FS_AddElement
  <2>4. /\ claim' \in [Claims -> ClaimRows] /\ claim'[c].phase = "idle"
        /\ \A e \in Claims \ {c} : claim'[e] = claim[e] /\ claim[e].phase # "capped"
    BY <1>1, DepositTypes, NoClaimTyped DEF DepositInv
  <2>5. DepositTypeOK'
    <3>1. funded' \in [Funders -> Nat]
      BY <2>1, <2>2, DepositTypes
    <3> QED
      BY <1>1, <2>3, <2>4, <3>1 DEF DepositInv, DepositTypeOK, ReceiptRows, ClaimRows
  <2>6. \A d, e \in deposits' : d.tx = e.tx => d = e
    BY <2>1, <2>2 DEF DepositInv
  <2>7. \A d \in deposits' : d.on <= date'
    BY <1>0, <1>1, <2>1, <2>2 DEF DepositInv
  <2>8. DepositSum(deposits') = DepositSum(deposits) + micro
    BY <2>1, <2>2, DepositTypes, RowsAdd
  <2>9. SumOf(funded', Funders) = SumOf(funded, Funders) + micro
    <3> DEFINE h == funded'
    <3>1. Numbers(funded, Funders) /\ Numbers(h, Funders) /\ h[f] = funded[f] + micro
          /\ \A g \in Funders \ {f} : h[g] = funded[g]
      BY <2>1, <2>2, DepositTypes DEF Numbers
    <3>2. SumOf(h, Funders) = SumOf(funded, Funders) + h[f] - funded[f]
      <4> HIDE DEF h
      <4> QED
        BY <3>1, SumChange
    <3>3. SumOf(funded, Funders) \in Int /\ funded[f] \in Nat
      BY <3>1, SumTyped, DepositTypes
    <3>4. SumOf(h, Funders) = SumOf(funded, Funders) + micro
      <4> HIDE DEF h
      <4> QED
        BY <2>2, <3>1, <3>2, <3>3
    <3> QED
      BY <3>4
  <2>10. SumOf(funded', Funders) = DepositSum(deposits')
    BY <2>8, <2>9 DEF DepositInv
  <2>11. CapsHold'
    <3>1. SUFFICES ASSUME NEW m \in 0..FinalDate, NEW g \in Funders
                   PROVE  /\ DepositSum(OnDay(deposits', m)) <= NetworkDayMax
                          /\ DepositSum(OfAccount(deposits', m, g)) <= AccountDayMax
      BY DEF CapsHold
    <3>2. /\ DepositSum(OnDay(deposits, m)) <= NetworkDayMax
          /\ DepositSum(OfAccount(deposits, m, g)) <= AccountDayMax
      BY DEF DepositInv, CapsHold
    <3>3. m # n => OnDay(deposits', m) = OnDay(deposits, m)
      BY <2>1, <2>2 DEF OnDay
    <3>4. m # n \/ g # f => OfAccount(deposits', m, g) = OfAccount(deposits, m, g)
      BY <2>1, <2>2 DEF OfAccount
    <3>5. /\ DepositSum(OnDay(deposits, n)) + micro <= NetworkDayMax
          /\ DepositSum(OfAccount(deposits, n, f)) + micro <= AccountDayMax
      BY <1>0, <1>1 DEF DepositInv, ClaimOK
    <3>6. DepositSum(OnDay(deposits', n)) = DepositSum(OnDay(deposits, n)) + micro
      <4>1. OnDay(deposits', n) = OnDay(deposits, n) \union {new} /\ new \notin OnDay(deposits, n)
        BY <2>1, <2>2 DEF OnDay
      <4>2. OnDay(deposits, n) \subseteq ReceiptRows /\ IsFiniteSet(OnDay(deposits, n))
        BY DepositTypes, DaySums
      <4> QED
        BY <2>2, <4>1, <4>2, RowsAdd
    <3>7. DepositSum(OfAccount(deposits', n, f)) = DepositSum(OfAccount(deposits, n, f)) + micro
      <4>1. OfAccount(deposits', n, f) = OfAccount(deposits, n, f) \union {new}
            /\ new \notin OfAccount(deposits, n, f)
        BY <2>1, <2>2 DEF OfAccount
      <4>2. OfAccount(deposits, n, f) \subseteq ReceiptRows /\ IsFiniteSet(OfAccount(deposits, n, f))
        BY DepositTypes, DaySums
      <4> QED
        BY <2>2, <4>1, <4>2, RowsAdd
    <3>8. DepositSum(OnDay(deposits', m)) <= NetworkDayMax
      BY <3>2, <3>3, <3>5, <3>6
    <3>9. DepositSum(OfAccount(deposits', m, g)) <= AccountDayMax
      BY <3>2, <3>4, <3>5, <3>7
    <3> QED
      BY <3>8, <3>9
  <2>12. \A e \in Claims : ClaimOK(e)'
    BY <1>1, <2>4 DEF DepositInv, ClaimOK
  <2> QED
    BY <2>3, <2>4, <2>5, <2>6, <2>7, <2>10, <2>11, <2>12 DEF DepositInv
<1> QED
  BY <1>2, <1>3

LEMMA ClaimDiesStep ==
    ASSUME DepositInv, NEW c \in Claims, ClaimDies(c)
    PROVE  DepositInv'
BY ClaimEndsStep DEF ClaimDies

LEMMA MergeFundersStep ==
    ASSUME DepositInv, NEW dst \in Funders, NEW src \in Funders, MergeFunders(dst, src)
    PROVE  DepositInv'
<1>1. /\ dst # src /\ \A c \in Claims : {dst, src} \intersect LockedBy(c) = {}
      /\ canonical' = [f \in Funders |-> IF canonical[f] = src THEN dst ELSE canonical[f]]
      /\ funded' = [funded EXCEPT ![dst] = @ + funded[src], ![src] = 0]
      /\ UNCHANGED <<date, deposits, claim>>
  BY DEF MergeFunders
<1>2. DepositTypeOK'
  <2>1. canonical' \in [Funders -> Funders] /\ funded' \in [Funders -> Nat]
    BY <1>1, DepositTypes
  <2> QED
    BY <1>1, <2>1 DEF DepositInv, DepositTypeOK
<1>3. SumOf(funded', Funders) = SumOf(funded, Funders)
  <2> DEFINE h == funded'
             g == [funded EXCEPT ![dst] = @ + funded[src]]
  <2>1. /\ Numbers(funded, Funders) /\ Numbers(g, Funders) /\ Numbers(h, Funders)
        /\ g[dst] = funded[dst] + funded[src] /\ g[src] = funded[src] /\ h[src] = 0
        /\ \A f \in Funders \ {dst} : g[f] = funded[f]
        /\ \A f \in Funders \ {src} : h[f] = g[f]
    BY <1>1, DepositTypes DEF Numbers
  <2>2. funded[src] \in Nat /\ funded[dst] \in Nat
    BY DepositTypes
  <2> HIDE DEF h, g
  <2>3. SumOf(g, Funders) = SumOf(funded, Funders) + g[dst] - funded[dst]
    BY <2>1, SumChange
  <2>4. SumOf(h, Funders) = SumOf(g, Funders) + h[src] - g[src]
    BY <2>1, SumChange
  <2>5. SumOf(funded, Funders) \in Int
    BY <2>1, SumTyped
  <2>6. SumOf(h, Funders) = SumOf(funded, Funders)
    BY <2>1, <2>2, <2>3, <2>4, <2>5
  <2> QED
    BY <2>6 DEF h
<1>4. CapsHold'
  BY <1>1 DEF DepositInv, CapsHold, OnDay, OfAccount
<1>5. ASSUME NEW c \in Claims PROVE ClaimOK(c)'
  <2>1. CASE claim[c].phase # "capped"
    BY <1>1, <2>1 DEF DepositInv, ClaimOK
  <2>2. CASE claim[c].phase = "capped"
    <3>1. claim[c].funder \in Funders /\ canonical[claim[c].funder] # src
      BY <1>1, <2>2 DEF DepositInv, ClaimOK, LockedBy
    <3>2. canonical'[claim'[c].funder] = canonical[claim[c].funder]
      BY <1>1, <3>1
    <3> QED
      BY <1>1, <3>2 DEF DepositInv, ClaimOK, OnDay, OfAccount
  <2> QED
    BY <2>1, <2>2
<1> QED
  BY <1>1, <1>2, <1>3, <1>4, <1>5 DEF DepositInv

LEMMA NextDateStep == ASSUME DepositInv, NextDate PROVE DepositInv'
<1>1. /\ date' = date + 1 /\ date' \in 0..FinalDate /\ UNCHANGED <<canonical, funded, deposits, claim>>
  BY DepositTypes DEF NextDate
<1>2. DepositTypeOK'
  BY <1>1 DEF DepositInv, DepositTypeOK
<1>3. \A d \in deposits : d.on < date'
  BY <1>1, DepositTypes DEF DepositInv
<1>4. CapsHold'
  BY <1>1 DEF DepositInv, CapsHold, OnDay, OfAccount
<1>5. ASSUME NEW c \in Claims PROVE ClaimOK(c)'
  <2>1. CASE claim[c].phase # "capped"
    BY <1>1, <2>1 DEF DepositInv, ClaimOK
  <2>2. CASE claim[c].phase = "capped"
    <3>1. claim[c].micro \in Nat /\ claim[c].micro \in Credits
      BY <2>2 DEF DepositInv, ClaimOK
    <3>2. PICK f : f = canonical[claim[c].funder]
      OBVIOUS
    <3>3. PICK n \in 0..FinalDate : n = date
      BY DepositTypes
    <3>4. DepositSum(OnDay(deposits, n)) \in Nat /\ DepositSum(OfAccount(deposits, n, f)) \in Nat
      BY DepositTypes, DaySums
    <3>5. claim[c].micro <= NetworkDayMax /\ claim[c].micro <= AccountDayMax
      BY <2>2, <3>1, <3>2, <3>3, <3>4 DEF DepositInv, ClaimOK
    <3>6. OnDay(deposits', date') = {} /\ OfAccount(deposits', date', f) = {}
      BY <1>1, <1>3, DepositTypes DEF OnDay, OfAccount
    <3>7. DepositSum({}) = 0
      BY FS_EmptySet, RowsAdd
    <3>8. /\ DepositSum(OnDay(deposits', date')) + claim'[c].micro <= NetworkDayMax
          /\ DepositSum(OfAccount(deposits', date', canonical'[claim'[c].funder])) + claim'[c].micro
               <= AccountDayMax
      BY <1>1, <3>1, <3>2, <3>5, <3>6, <3>7
    <3> QED
      BY <1>1, <2>2, <3>8 DEF DepositInv, ClaimOK
  <2> QED
    BY <2>1, <2>2
<1>6. \A d \in deposits' : d.on <= date'
  BY <1>1, <1>3, DepositTypes
<1> QED
  BY <1>1, <1>2, <1>4, <1>5, <1>6 DEF DepositInv

LEMMA DepositStep == DepositInv /\ [DepositNext]_depositVars => DepositInv'
<1> SUFFICES ASSUME DepositInv, [DepositNext]_depositVars PROVE DepositInv'
  OBVIOUS
<1>1. CASE UNCHANGED depositVars
  <2>1. UNCHANGED <<date, canonical, funded, deposits, claim>>
    BY <1>1 DEF depositVars
  <2>2. DepositTypeOK'
    BY <2>1 DEF DepositInv, DepositTypeOK
  <2>3. CapsHold' /\ \A c \in Claims : ClaimOK(c)'
    BY <2>1 DEF DepositInv, CapsHold, ClaimOK, OnDay, OfAccount
  <2> QED
    BY <2>1, <2>2, <2>3 DEF DepositInv
<1> QED
  BY <1>1, VerifyStep, LockAccountStep, EnforceCapsStep, RecordAndCreditStep, ClaimDiesStep,
     MergeFundersStep, NextDateStep DEF DepositNext

LEMMA DepositSafe == DepositInv => DepositsExact
<1> SUFFICES ASSUME DepositInv PROVE DepositsExact
  OBVIOUS
<1>1. SumOf(funded, Funders) = DepositSum(deposits)
  BY DEF DepositInv
<1>2. \A n \in 0..FinalDate :
        LET rows == {d \in deposits : d.on = n} IN
        /\ DepositSum(rows) <= NetworkDayMax
        /\ \A f \in Funders : DepositSum({d \in rows : d.account = f}) <= AccountDayMax
  <2>1. TAKE n \in 0..FinalDate
  <2>2. DepositSum({d \in deposits : d.on = n}) <= NetworkDayMax
    BY DEF DepositInv, CapsHold, OnDay
  <2>3. ASSUME NEW f \in Funders
        PROVE  DepositSum({d \in {d \in deposits : d.on = n} : d.account = f}) <= AccountDayMax
    <3>1. {d \in {d \in deposits : d.on = n} : d.account = f} = OfAccount(deposits, n, f)
      BY DEF OfAccount
    <3> QED
      BY <3>1 DEF DepositInv, CapsHold
  <2> QED
    BY <2>2, <2>3
<1>3. \A d, e \in deposits : d.tx = e.tx => d = e
  BY DEF DepositInv
<1> QED
  BY <1>1, <1>2, <1>3 DEF DepositsExact, SumOf, MapThenSumSet, MapThenFoldSet

(***************************************************************************)
(* A transfer is credited once whoever claims it, balances are what the    *)
(* receipts say, and no day passes a cap: for any number of funders,       *)
(* claims, transfers and days, any order of their statements, and any      *)
(* merge of accounts between them.                                         *)
(***************************************************************************)
THEOREM DepositsCreditOnce == DepositSpec => []DepositsExact
<1> QED
  BY DepositStarts, DepositStep, DepositSafe, PTL DEF DepositSpec

HIDE DepositAssumption

-----------------------------------------------------------------------------
(* Worker payouts. *)

USE PayoutAssumption

\* What a sender may have listed.
Seens == UNION {[D -> Rows] : D \in SUBSET Payees}
SenderRows == [phase : {"off", "rows", "signed", "recorded", "waiting"}, seen : Seens,
               payee : Payees \union {NoPayee}, nonce : Nonces, tx : 0..MaxTries]
ChainRows == [payee : Payees \union {NoPayee}, tx : 0..MaxTries, ok : BOOLEAN]

PayoutTyped ==
    /\ row \in [Payees -> Rows] /\ wallet \in [Payees -> BOOLEAN]
    /\ mempool \subseteq [payee : Payees, nonce : Nonces, tx : 1..MaxTries]
    /\ chain \in Seq(ChainRows)
    /\ lock \in Senders \union {NoSender} /\ alone \in BOOLEAN
    /\ sender \in [Senders -> SenderRows]

(***************************************************************************)
(* The inductive invariant.  Whatever reached the network for an account   *)
(* carries the nonce its row is bound to, and that is never rebound; so at *)
(* most one of its transfers can be mined.                                 *)
(***************************************************************************)
RowOK(p) ==
    /\ row[p].status = "none" => row[p].nonce = Unbound
    /\ row[p].status = "sent" =>
         /\ row[p].nonce \in 0..(Len(chain) - 1)
         /\ chain[row[p].nonce + 1].payee = p /\ chain[row[p].nonce + 1].ok

MempoolOK == \A t \in mempool : t.nonce # Unbound /\ row[t.payee].nonce = t.nonce

ChainOK == \A n \in 1..Len(chain) : \A p \in Payees :
    chain[n].payee = p => row[p].nonce = n - 1

\* While no sender lost its lock, nonces are told apart.
Apart == alone => \A p, q \in Payees :
    p # q /\ row[p].nonce # Unbound => row[q].nonce # row[p].nonce

SenderOK(s) ==
    /\ \A p \in DOMAIN sender[s].seen :
         sender[s].seen[p].nonce # Unbound => row[p].nonce = sender[s].seen[p].nonce
    /\ sender[s].phase \in {"signed", "recorded", "waiting"} =>
         sender[s].payee \in Payees /\ sender[s].nonce # Unbound
    /\ sender[s].phase \in {"recorded", "waiting"} =>
         row[sender[s].payee].nonce = sender[s].nonce /\ sender[s].tx # 0
    /\ sender[s].phase = "signed" => sender[s].tx # 0
    /\ alone /\ sender[s].phase = "signed" =>
         \A q \in Payees \ {sender[s].payee} : row[q].nonce # sender[s].nonce
    /\ alone /\ sender[s].phase # "off" => lock = s

PayoutInv ==
    /\ PayoutTyped
    /\ \A p \in Payees : RowOK(p)
    /\ MempoolOK /\ ChainOK /\ Apart
    /\ \A s \in Senders : SenderOK(s)

LEMMA NoncesAreInts == Nonces \subseteq Int /\ Unbound \in Nonces
<1>1. Cardinality(Payees) \in Nat
  BY FS_CardinalityType
<1> QED
  BY <1>1 DEF Nonces, Unbound

LEMMA SeenTyped ==
    ASSUME NEW D \in SUBSET Payees, NEW f \in [D -> Rows]
    PROVE  f \in Seens
BY DEF Seens

LEMMA ListingTyped ==
    ASSUME NEW phase \in {"off", "rows"}, NEW seen \in Seens
    PROVE  /\ Listing(phase, seen) \in SenderRows
           /\ Listing(phase, seen).phase = phase /\ Listing(phase, seen).seen = seen
BY NoncesAreInts DEF Listing, SenderRows

LEMMA OffTyped == Off \in SenderRows /\ Off.phase = "off" /\ DOMAIN Off.seen = {}
<1>1. [p \in {} |-> Unplanned] \in Seens
  <2>1. {} \in SUBSET Payees /\ [p \in {} |-> Unplanned] \in [{} -> Rows]
    OBVIOUS
  <2> QED
    BY <2>1, SeenTyped
<1> QED
  BY <1>1, ListingTyped DEF Off

\* A row as a sender may list it.
LEMMA RowsTyped ==
    ASSUME PayoutInv
    PROVE  /\ \A p \in Payees : row[p] \in Rows /\ row[p].nonce \in Nonces /\ row[p].tx \in 0..MaxTries
           /\ \A s \in Senders :
                /\ sender[s] \in SenderRows /\ sender[s].seen \in Seens
                /\ sender[s].nonce \in Nonces /\ sender[s].tx \in 0..MaxTries
                /\ DOMAIN sender[s].seen \subseteq Payees
                /\ \A p \in DOMAIN sender[s].seen :
                     sender[s].seen[p] \in Rows /\ sender[s].seen[p].nonce \in Nonces
BY DEF PayoutInv, PayoutTyped, Rows, SenderRows, Seens

LEMMA PayoutStarts == PayoutInit => PayoutInv
<1> SUFFICES ASSUME PayoutInit PROVE PayoutInv
  OBVIOUS
<1>1. Unplanned \in Rows /\ Unplanned.status = "none" /\ Unplanned.nonce = Unbound
  BY NoncesAreInts DEF Unplanned, Rows
<1>2. PayoutTyped
  BY <1>1, OffTyped DEF PayoutInit, PayoutTyped
<1>3. Len(chain) = 0
  BY DEF PayoutInit
<1> QED
  BY <1>1, <1>2, <1>3, OffTyped
  DEF PayoutInit, PayoutInv, RowOK, MempoolOK, ChainOK, Apart, SenderOK

-----------------------------------------------------------------------------
(* What a step of one sender has to respect. *)

OnlySender(s) ==
    sender' \in [Senders -> SenderRows] /\ \A u \in Senders : u # s => sender'[u] = sender[u]

\* The rows stay rows and keep the nonces they have.
RowsKeep ==
    /\ row' \in [Payees -> Rows] /\ \A p \in Payees : row'[p].nonce = row[p].nonce
    /\ \A p \in Payees : RowOK(p)'

LEMMA SenderMoves ==
    ASSUME PayoutInv, NEW s \in Senders, UNCHANGED <<wallet, chain, lock, alone>>,
           RowsKeep, OnlySender(s), SenderOK(s)',
           \/ mempool' = mempool
           \/ sender[s].phase = "recorded" /\ mempool' = mempool \union {Own(s)}
    PROVE  PayoutInv'
<1>0. mempool' \subseteq [payee : Payees, nonce : Nonces, tx : 1..MaxTries] /\ MempoolOK'
  <2>1. \A t \in mempool : t \in [payee : Payees, nonce : Nonces, tx : 1..MaxTries] /\ t.nonce # Unbound
                           /\ row'[t.payee].nonce = t.nonce
    BY DEF PayoutInv, PayoutTyped, MempoolOK, RowsKeep
  <2>2. CASE mempool' = mempool
    BY <2>1, <2>2 DEF MempoolOK
  <2>3. CASE sender[s].phase = "recorded" /\ mempool' = mempool \union {Own(s)}
    <3>1. /\ sender[s].payee \in Payees /\ sender[s].nonce \in Nonces /\ sender[s].tx \in 1..MaxTries
          /\ sender[s].nonce # Unbound /\ row[sender[s].payee].nonce = sender[s].nonce
      BY <2>3, RowsTyped DEF PayoutInv, SenderOK
    <3>2. /\ Own(s) \in [payee : Payees, nonce : Nonces, tx : 1..MaxTries]
          /\ Own(s).payee = sender[s].payee /\ Own(s).nonce = sender[s].nonce
      BY <3>1 DEF Own
    <3>3. row'[Own(s).payee].nonce = Own(s).nonce /\ Own(s).nonce # Unbound
      BY <3>1, <3>2 DEF RowsKeep
    <3> QED
      BY <2>1, <2>3, <3>2, <3>3 DEF MempoolOK
  <2> QED
    BY <2>2, <2>3
<1>1. PayoutTyped'
  BY <1>0 DEF PayoutInv, PayoutTyped, RowsKeep, OnlySender
<1>2. \A u \in Senders : SenderOK(u)'
  <2> SUFFICES ASSUME NEW u \in Senders, u # s PROVE SenderOK(u)'
    OBVIOUS
  <2>1. SenderOK(u) /\ sender'[u] = sender[u]
    BY DEF PayoutInv, OnlySender
  <2>2. \A p \in Payees : row'[p].nonce = row[p].nonce
    BY DEF RowsKeep
  <2> QED
    BY <2>1, <2>2, RowsTyped DEF SenderOK
<1>3. ChainOK' /\ Apart'
  BY DEF PayoutInv, PayoutTyped, ChainOK, Apart, RowsKeep
<1> QED
  BY <1>0, <1>1, <1>2, <1>3 DEF PayoutInv, RowsKeep

\* A write that binds no new nonce.
LEMMA WriteKeeps ==
    ASSUME PayoutInv, UNCHANGED chain, NEW p \in Payees,
           NEW status \in {"pending", "failed", "sent", "manual_review"}, NEW nonce, NEW tx \in 0..MaxTries,
           Write(p, status, nonce, tx), nonce \in {Unbound, row[p].nonce},
           status = "sent" => /\ row[p].nonce \in 0..(Len(chain) - 1)
                              /\ chain[row[p].nonce + 1].payee = p /\ chain[row[p].nonce + 1].ok
    PROVE  RowsKeep
<1>1. row \in [Payees -> Rows]
  BY DEF PayoutInv, PayoutTyped
<1>2. CASE row' = row
  BY <1>1, <1>2 DEF RowsKeep, PayoutInv, RowOK
<1>3. CASE row' # row
  <2>1. row' = [row EXCEPT ![p] = [status |-> status, tx |-> tx,
                   nonce |-> IF nonce = Unbound THEN @.nonce ELSE nonce]]
    BY <1>3 DEF Write
  <2>2. row' = [row EXCEPT ![p] = [status |-> status, tx |-> tx, nonce |-> row[p].nonce]]
    BY <2>1
  <2>3. [status |-> status, tx |-> tx, nonce |-> row[p].nonce] \in Rows
    BY <1>1 DEF Rows
  <2>4. row' \in [Payees -> Rows]
    BY <1>1, <2>2, <2>3
  <2>5. row'[p].status = status /\ row'[p].nonce = row[p].nonce /\ \A q \in Payees : q # p => row'[q] = row[q]
    BY <1>1, <2>2
  <2> QED
    BY <2>4, <2>5 DEF RowsKeep, PayoutInv, RowOK
<1> QED
  BY <1>2, <1>3

LEMMA LeavesMoves ==
    ASSUME PayoutInv, NEW s \in Senders, NEW p \in Payees, Leaves(s, p)
    PROVE  /\ OnlySender(s) /\ sender'[s].phase = "rows"
           /\ DOMAIN sender'[s].seen = DOMAIN sender[s].seen \ {p}
           /\ \A q \in DOMAIN sender'[s].seen : sender'[s].seen[q] = sender[s].seen[q]
<1> DEFINE rest == [q \in DOMAIN sender[s].seen \ {p} |-> sender[s].seen[q]]
           next == Listing("rows", rest)
<1>1. sender \in [Senders -> SenderRows]
  BY DEF PayoutInv, PayoutTyped
<1>2. rest \in Seens
  <2>1. DOMAIN sender[s].seen \ {p} \in SUBSET Payees /\ rest \in [DOMAIN sender[s].seen \ {p} -> Rows]
    BY RowsTyped
  <2> HIDE DEF rest
  <2> QED
    BY <2>1, SeenTyped
<1>3. sender' = [sender EXCEPT ![s] = next]
  BY DEF Leaves
<1>5. next \in SenderRows /\ next.phase = "rows" /\ next.seen = rest
  BY <1>2, ListingTyped
<1>6. DOMAIN rest = DOMAIN sender[s].seen \ {p} /\ \A q \in DOMAIN rest : rest[q] = sender[s].seen[q]
  OBVIOUS
<1> HIDE DEF rest, next
<1> QED
  BY <1>1, <1>3, <1>5, <1>6 DEF OnlySender

LEMMA EntersMoves ==
    ASSUME PayoutInv, NEW s \in Senders, NEW phase \in {"recorded", "waiting"}, EntersPhase(s, phase)
    PROVE  /\ OnlySender(s) /\ sender'[s].phase = phase
           /\ sender'[s].seen = sender[s].seen /\ sender'[s].payee = sender[s].payee
           /\ sender'[s].nonce = sender[s].nonce /\ sender'[s].tx = sender[s].tx
<1>1. sender \in [Senders -> SenderRows] /\ sender[s] \in SenderRows
  BY DEF PayoutInv, PayoutTyped
<1>2. sender' = [sender EXCEPT ![s] = [sender[s] EXCEPT !.phase = phase]]
  BY DEF EntersPhase
<1>3. [sender[s] EXCEPT !.phase = phase] \in SenderRows
  BY <1>1 DEF SenderRows
<1>4. sender'[s] = [sender[s] EXCEPT !.phase = phase] /\ \A u \in Senders : u # s => sender'[u] = sender[u]
  BY <1>1, <1>2
<1>5. sender' \in [Senders -> SenderRows]
  BY <1>1, <1>2, <1>3
<1> QED
  BY <1>1, <1>4, <1>5 DEF OnlySender, SenderRows

\* A sender done with a row lists the others as before.
LEMMA LeavesKeeps ==
    ASSUME PayoutInv, NEW s \in Senders, NEW p \in Payees, Leaves(s, p), RowsKeep,
           sender[s].phase # "off", UNCHANGED <<lock, alone>>
    PROVE  OnlySender(s) /\ SenderOK(s)'
<1>1. \A q \in Payees : row'[q].nonce = row[q].nonce
  BY DEF RowsKeep
<1>2. SenderOK(s) /\ DOMAIN sender[s].seen \subseteq Payees
  BY RowsTyped DEF PayoutInv
<1> QED
  BY <1>1, <1>2, LeavesMoves DEF SenderOK

-----------------------------------------------------------------------------
(* The steps of the chain, the plan and the lock. *)

LEMMA ExtendsStep ==
    ASSUME PayoutInv, NEW block \in ChainRows, Extends(block),
           \A p \in Payees : block.payee = p => row[p].nonce = Len(chain)
    PROVE  PayoutInv'
<1>1. /\ chain' = Append(chain, block) /\ mempool' \subseteq mempool
      /\ UNCHANGED <<row, wallet, lock, alone, sender>> /\ chain \in Seq(ChainRows)
  BY DEF Extends, PayoutInv, PayoutTyped
<1>2. /\ chain' \in Seq(ChainRows) /\ Len(chain') = Len(chain) + 1 /\ Len(chain) \in Nat
      /\ \A n \in 1..Len(chain) : chain'[n] = chain[n]
      /\ chain'[Len(chain) + 1] = block
  BY <1>1
<1>3. PayoutTyped'
  BY <1>1, <1>2 DEF PayoutInv, PayoutTyped
<1>4. \A p \in Payees : RowOK(p)'
  BY <1>1, <1>2 DEF PayoutInv, RowOK
<1>5. ChainOK'
  <2> SUFFICES ASSUME NEW n \in 1..Len(chain'), NEW p \in Payees, chain'[n].payee = p
               PROVE  row'[p].nonce = n - 1
    BY DEF ChainOK
  <2>1. CASE n \in 1..Len(chain)
    BY <1>1, <1>2, <2>1 DEF PayoutInv, ChainOK
  <2>2. CASE n = Len(chain) + 1
    BY <1>1, <1>2, <2>2
  <2> QED
    BY <1>2, <2>1, <2>2
<1>6. MempoolOK' /\ Apart' /\ \A s \in Senders : SenderOK(s)'
  BY <1>1 DEF PayoutInv, MempoolOK, Apart, SenderOK
<1> QED
  BY <1>3, <1>4, <1>5, <1>6 DEF PayoutInv

LEMMA MineStep == ASSUME PayoutInv, Mine PROVE PayoutInv'
<1>1. PICK t \in mempool, ok \in BOOLEAN :
        t.nonce = NonceCount /\ Extends([payee |-> t.payee, tx |-> t.tx, ok |-> ok])
  BY DEF Mine
<1> DEFINE block == [payee |-> t.payee, tx |-> t.tx, ok |-> ok]
<1>2. t \in [payee : Payees, nonce : Nonces, tx : 1..MaxTries] /\ row[t.payee].nonce = t.nonce
  BY DEF PayoutInv, PayoutTyped, MempoolOK
<1>3. block \in ChainRows
  BY <1>2 DEF ChainRows
<1>4. \A p \in Payees : block.payee = p => row[p].nonce = Len(chain)
  BY <1>1, <1>2 DEF NonceCount
<1> QED
  BY <1>1, <1>3, <1>4, ExtendsStep

LEMMA MineForeignStep == ASSUME PayoutInv, MineForeign PROVE PayoutInv'
<1>1. [payee |-> NoPayee, tx |-> 0, ok |-> TRUE] \in ChainRows
  BY DEF ChainRows
<1> QED
  BY <1>1, ExtendsStep DEF MineForeign

LEMMA SetWalletStep == ASSUME PayoutInv, NEW p \in Payees, SetWallet(p) PROVE PayoutInv'
BY DEF SetWallet, PayoutInv, PayoutTyped, RowOK, MempoolOK, ChainOK, Apart, SenderOK

\* Before the plan is frozen nothing is bound, and so nothing is under way.
LEMMA FreezeStep == ASSUME PayoutInv, Freeze PROVE PayoutInv'
<1>1. UNCHANGED <<wallet, mempool, chain, lock, alone, sender>> /\ \A p \in Payees : row[p].status = "none"
  BY DEF Freeze
<1>2. \A p \in Payees : row[p].nonce = Unbound
  BY <1>1 DEF PayoutInv, RowOK
<1>3. \A p \in Payees : row'[p] \in Rows /\ row'[p].nonce = Unbound /\ row'[p].status \in {"pending", "accrued"}
  BY NoncesAreInts DEF Freeze, Unplanned, Rows
<1>4. row' \in [Payees -> Rows]
  BY <1>3 DEF Freeze
<1>5. PayoutTyped' /\ \A p \in Payees : RowOK(p)'
  BY <1>1, <1>3, <1>4 DEF PayoutInv, PayoutTyped, RowOK
<1>6. MempoolOK' /\ ChainOK' /\ Apart'
  BY <1>1, <1>2, <1>3 DEF PayoutInv, PayoutTyped, MempoolOK, ChainOK, Apart
<1>7. ASSUME NEW s \in Senders PROVE SenderOK(s)'
  <2>1. SenderOK(s) /\ DOMAIN sender[s].seen \subseteq Payees
    BY RowsTyped DEF PayoutInv
  <2> QED
    BY <1>1, <1>2, <1>3, <2>1 DEF SenderOK
<1> QED
  BY <1>5, <1>6, <1>7 DEF PayoutInv

\* A sender starts or stops; the rows and the chain stay.
LEMMA WorkerMoves ==
    ASSUME PayoutInv, NEW s \in Senders, UNCHANGED <<row, wallet, mempool, chain, alone>>,
           OnlySender(s), SenderOK(s)', lock' \in Senders \union {NoSender},
           \A u \in Senders : u # s /\ alone /\ lock = u => lock' = u
    PROVE  PayoutInv'
<1>1. \A u \in Senders : SenderOK(u)'
  BY DEF PayoutInv, OnlySender, SenderOK
<1> QED
  BY <1>1 DEF PayoutInv, PayoutTyped, OnlySender, RowOK, MempoolOK, ChainOK, Apart

LEMMA BeginStep == ASSUME PayoutInv, NEW s \in Senders, Begin(s) PROVE PayoutInv'
<1>1. /\ UNCHANGED <<row, wallet, mempool, chain, alone>> /\ lock' = s /\ lock = NoSender
      /\ sender \in [Senders -> SenderRows]
  BY DEF Begin, PayoutInv, PayoutTyped
<1> DEFINE seen == [p \in Listed |-> row[p]]
<1>2. seen \in Seens
  <2>1. Listed \in SUBSET Payees
    BY DEF Listed
  <2>2. seen \in [Listed -> Rows]
    BY <2>1, RowsTyped
  <2> HIDE DEF seen
  <2> QED
    BY <2>1, <2>2, SeenTyped
<1>3. sender' = [sender EXCEPT ![s] = Listing("rows", seen)]
  BY DEF Begin
<1>4. DOMAIN seen \subseteq Payees /\ \A p \in DOMAIN seen : seen[p] = row[p]
  BY DEF Listed
<1> HIDE DEF seen
<1>5. OnlySender(s) /\ sender'[s].phase = "rows" /\ sender'[s].seen = seen
  BY <1>1, <1>2, <1>3, ListingTyped DEF OnlySender
<1>6. SenderOK(s)'
  BY <1>1, <1>4, <1>5 DEF SenderOK
<1> QED
  BY <1>1, <1>5, <1>6, WorkerMoves

LEMMA StopStep == ASSUME PayoutInv, NEW s \in Senders, End(s) \/ Dies(s) PROVE PayoutInv'
<1>1. /\ UNCHANGED <<row, wallet, mempool, chain, alone>>
      /\ lock' = IF lock = s THEN NoSender ELSE lock
      /\ sender' = [sender EXCEPT ![s] = Off] /\ sender \in [Senders -> SenderRows]
      /\ lock \in Senders \union {NoSender}
  BY DEF End, Dies, PayoutInv, PayoutTyped
<1>2. OnlySender(s) /\ sender'[s].phase = "off" /\ DOMAIN sender'[s].seen = {}
  BY <1>1, OffTyped DEF OnlySender
<1>3. SenderOK(s)'
  BY <1>2 DEF SenderOK
<1> QED
  BY <1>1, <1>2, <1>3, WorkerMoves

LEMMA LosesLockStep == ASSUME PayoutInv, NEW s \in Senders, LosesLock(s) PROVE PayoutInv'
<1>1. /\ UNCHANGED <<row, wallet, mempool, chain, sender>> /\ lock' = NoSender /\ alone' = FALSE
  BY DEF LosesLock
<1>2. PayoutTyped'
  BY <1>1 DEF PayoutInv, PayoutTyped
<1>3. \A u \in Senders : SenderOK(u)'
  BY <1>1 DEF PayoutInv, SenderOK
<1> QED
  BY <1>1, <1>2, <1>3 DEF PayoutInv, RowOK, MempoolOK, ChainOK, Apart

-----------------------------------------------------------------------------
(* The steps of a sender with a row. *)

LEMMA BindWalletStep ==
    ASSUME PayoutInv, NEW s \in Senders, NEW p \in Payees, BindWallet(s, p) PROVE PayoutInv'
<1>1. /\ UNCHANGED <<wallet, mempool, chain, lock, alone>> /\ p \in DOMAIN sender[s].seen
      /\ sender[s].phase = "rows" /\ sender \in [Senders -> SenderRows]
  BY DEF BindWallet, PayoutInv, PayoutTyped
<1>2. RowsKeep
  BY <1>1, RowsTyped, WriteKeeps DEF BindWallet
<1>3. CASE MayWrite(p, "pending", Unbound)
  <2> DEFINE seen == [sender[s].seen EXCEPT ![p].status = "pending"]
  <2>1. sender' = [sender EXCEPT ![s].seen = seen]
    BY <1>3 DEF BindWallet
  <2>2. /\ DOMAIN seen = DOMAIN sender[s].seen
        /\ \A q \in DOMAIN seen : seen[q] \in Rows /\ seen[q].nonce = sender[s].seen[q].nonce
    BY <1>1, RowsTyped DEF Rows
  <2>3. seen \in Seens
    <3>1. seen \in [DOMAIN sender[s].seen -> Rows] /\ DOMAIN sender[s].seen \in SUBSET Payees
      BY <2>2, RowsTyped
    <3> HIDE DEF seen
    <3> QED
      BY <3>1, SeenTyped
  <2> HIDE DEF seen
  <2>4. [sender[s] EXCEPT !.seen = seen] \in SenderRows
    BY <1>1, <2>3 DEF SenderRows
  <2>5. /\ OnlySender(s) /\ sender'[s].phase = "rows" /\ sender'[s].seen = seen
    BY <1>1, <2>1, <2>4 DEF OnlySender, SenderRows
  <2>6. SenderOK(s)'
    BY <1>1, <1>2, <2>2, <2>5, RowsTyped DEF PayoutInv, SenderOK, RowsKeep
  <2> QED
    BY <1>1, <1>2, <2>5, <2>6, SenderMoves
<1>4. CASE ~MayWrite(p, "pending", Unbound)
  <2>1. Leaves(s, p)
    BY <1>4 DEF BindWallet
  <2> QED
    BY <1>1, <1>2, <2>1, LeavesKeeps, SenderMoves
<1> QED
  BY <1>3, <1>4

LEMMA CheckChainStep ==
    ASSUME PayoutInv, NEW s \in Senders, NEW p \in Payees, CheckChain(s, p) PROVE PayoutInv'
<1> DEFINE n == sender[s].seen[p].nonce
<1>1. /\ UNCHANGED <<wallet, mempool, chain, lock, alone>> /\ Leaves(s, p)
      /\ sender[s].phase = "rows" /\ p \in DOMAIN sender[s].seen
      /\ n # Unbound /\ NonceCount > n
      /\ \/ Write(p, "manual_review", n, row[p].tx)
         \/ Proves(p, n, sender[s].seen[p].tx) /\ Write(p, "sent", n, row[p].tx)
  BY DEF CheckChain, Takes
<1>2. row[p].nonce = n /\ n \in Nonces /\ row[p].tx \in 0..MaxTries
  BY <1>1, RowsTyped DEF PayoutInv, SenderOK
<1>3. n \in 0..(Len(chain) - 1)
  <2>1. Len(chain) \in Nat /\ n >= Unbound /\ n \in Int
    BY <1>2, NoncesAreInts DEF PayoutInv, PayoutTyped, Nonces
  <2> QED
    BY <1>1, <2>1 DEF NonceCount, Unbound
<1> HIDE DEF n
<1>4. Proves(p, n, sender[s].seen[p].tx) => chain[n + 1].payee = p /\ chain[n + 1].ok
  BY DEF Proves, Mined
<1>5. RowsKeep
  BY <1>1, <1>2, <1>3, <1>4, WriteKeeps
<1> QED
  BY <1>1, <1>5, LeavesKeeps, SenderMoves

LEMMA ScreenHoldsStep ==
    ASSUME PayoutInv, NEW s \in Senders, NEW p \in Payees, ScreenHolds(s, p) PROVE PayoutInv'
<1>1. /\ UNCHANGED <<wallet, mempool, chain, lock, alone>> /\ Leaves(s, p)
      /\ sender[s].phase = "rows" /\ p \in DOMAIN sender[s].seen
      /\ Write(p, "manual_review", sender[s].seen[p].nonce, row[p].tx)
  BY DEF ScreenHolds, Takes
<1>2. sender[s].seen[p].nonce \in {Unbound, row[p].nonce} /\ row[p].tx \in 0..MaxTries
  BY <1>1, RowsTyped DEF PayoutInv, SenderOK
<1>3. RowsKeep
  BY <1>1, <1>2, WriteKeeps
<1> QED
  BY <1>1, <1>3, LeavesKeeps, SenderMoves

\* A fresh nonce is above all that were ever assigned.
LEMMA FreshIsUnassigned ==
    ASSUME PayoutInv, NEW pending \in Int
    PROVE  FreshNonce(pending) \in Int /\ \A q \in Payees : row[q].nonce < FreshNonce(pending)
<1> DEFINE Above == {row[q].nonce + 1 : q \in Payees}
           All == {pending} \union Above
<1>1. \A q \in Payees : row[q].nonce \in Int
  BY RowsTyped, NoncesAreInts
<1>2. IsFiniteSet(Above)
  <2> DEFINE f == [q \in Payees |-> row[q].nonce + 1]
  <2>1. Above = {f[q] : q \in Payees}
    OBVIOUS
  <2> HIDE DEF f
  <2> QED
    BY <2>1, ImageFinite, ZenonT(60)
<1>3. Above \subseteq Int /\ \A q \in Payees : row[q].nonce + 1 \in Above
  BY <1>1
<1> HIDE DEF Above
<1>4. All \subseteq Int /\ All # {} /\ IsFiniteSet(All)
  <2>1. IsFiniteSet({pending})
    BY FS_Singleton
  <2> QED
    BY <1>2, <1>3, <2>1, FS_Union
<1>5. Max(All) \in All /\ \A n \in All : n <= Max(All)
  <2> HIDE DEF All
  <2> QED
    BY <1>4, MaxOf
<1>6. FreshNonce(pending) = Max(All)
  BY DEF FreshNonce, Above
<1>7. \A q \in Payees : row[q].nonce + 1 \in All
  BY <1>3
<1> HIDE DEF All
<1>8. Max(All) \in Int /\ \A q \in Payees : row[q].nonce + 1 <= Max(All)
  BY <1>4, <1>5, <1>7
<1> QED
  BY <1>1, <1>6, <1>8

LEMMA SignStep ==
    ASSUME PayoutInv, NEW s \in Senders, NEW p \in Payees, Sign(s, p) PROVE PayoutInv'
<1>1. /\ UNCHANGED <<row, wallet, mempool, chain, lock, alone>> /\ row[p].tx < MaxTries
      /\ sender[s].phase = "rows" /\ p \in DOMAIN sender[s].seen
      /\ sender \in [Senders -> SenderRows]
  BY DEF Sign, Takes, PayoutInv, PayoutTyped
<1>2. PICK nonce \in {NonceFor(s, p, pending) : pending \in 0..PendingCount} \intersect Nonces :
        sender' = [sender EXCEPT ![s] = [phase |-> "signed", seen |-> @.seen, payee |-> p,
                                         nonce |-> nonce, tx |-> row[p].tx + 1]]
  BY DEF Sign
<1>3. nonce \in Nonces /\ row[p].tx + 1 \in 1..MaxTries
  BY <1>1, RowsTyped
<1>4. /\ OnlySender(s) /\ sender'[s].phase = "signed" /\ sender'[s].payee = p
      /\ sender'[s].tx = row[p].tx + 1 /\ sender'[s].nonce = nonce
      /\ sender'[s].seen = sender[s].seen
  <2> DEFINE r == [phase |-> "signed", seen |-> sender[s].seen, payee |-> p,
                   nonce |-> nonce, tx |-> row[p].tx + 1]
  <2>1. r \in SenderRows
    BY <1>3, RowsTyped DEF SenderRows
  <2>2. sender' = [sender EXCEPT ![s] = r]
    BY <1>2
  <2>3. sender'[s] = r /\ OnlySender(s)
    <3> HIDE DEF r
    <3> QED
      BY <1>1, <2>1, <2>2 DEF OnlySender
  <2> QED
    BY <2>3
<1>5. nonce # Unbound /\ (alone => \A q \in Payees \ {p} : row[q].nonce # nonce)
  <2> DEFINE bound == sender[s].seen[p].nonce
  <2>1. PICK pending \in 0..PendingCount : nonce = IF bound # Unbound THEN bound ELSE FreshNonce(pending)
    BY <1>2 DEF NonceFor
  <2>2. CASE bound # Unbound
    <3>1. nonce = bound /\ row[p].nonce = bound
      BY <1>1, <2>1, <2>2 DEF PayoutInv, SenderOK
    <3> HIDE DEF bound
    <3> QED
      BY <2>2, <3>1 DEF PayoutInv, Apart
  <2>3. CASE bound = Unbound
    <3>1. nonce = FreshNonce(pending) /\ pending \in Int
      BY <2>1, <2>3
    <3>2. nonce \in Int /\ \A q \in Payees : row[q].nonce < nonce /\ row[q].nonce \in Nonces
      BY <3>1, FreshIsUnassigned, RowsTyped
    <3>3. \A k \in Nonces : k \in Int /\ k >= -1
      BY NoncesAreInts DEF Nonces, Unbound
    <3> QED
      BY <3>2, <3>3 DEF Unbound
  <2> QED
    BY <2>2, <2>3
<1>6. SenderOK(s)'
  BY <1>1, <1>3, <1>4, <1>5, RowsTyped DEF PayoutInv, SenderOK
<1>7. RowsKeep
  BY <1>1 DEF RowsKeep, PayoutInv, PayoutTyped, RowOK
<1> QED
  BY <1>1, <1>4, <1>6, <1>7, SenderMoves

\* Recording binds a nonce for good: a bound row keeps its own.
LEMMA RecordNonceStep ==
    ASSUME PayoutInv, NEW s \in Senders, RecordNonce(s) PROVE PayoutInv'
<1> DEFINE p == sender[s].payee
           n == sender[s].nonce
<1>1. /\ UNCHANGED <<wallet, mempool, chain, lock, alone>> /\ sender[s].phase = "signed"
      /\ Write(p, "pending", n, sender[s].tx)
      /\ IF MayWrite(p, "pending", n) THEN EntersPhase(s, "recorded") ELSE Leaves(s, p)
  BY DEF RecordNonce
<1>2. /\ p \in Payees /\ n # Unbound /\ n \in Nonces /\ sender[s].tx \in 0..MaxTries /\ sender[s].tx # 0
      /\ row \in [Payees -> Rows]
      /\ alone => lock = s /\ \A q \in Payees \ {p} : row[q].nonce # n
  BY <1>1, RowsTyped DEF PayoutInv, PayoutTyped, SenderOK
<1> HIDE DEF p, n
<1>3. CASE ~MayWrite(p, "pending", n)
  <2>1. row' = row /\ Leaves(s, p)
    BY <1>1, <1>3 DEF Write
  <2>2. RowsKeep
    BY <1>1, <1>2, <2>1 DEF RowsKeep, PayoutInv, RowOK
  <2> QED
    BY <1>1, <1>2, <2>1, <2>2, LeavesKeeps, SenderMoves
<1>4. CASE MayWrite(p, "pending", n)
  <2>1. EntersPhase(s, "recorded") /\ row' = [row EXCEPT ![p] = [status |-> "pending", tx |-> sender[s].tx, nonce |-> n]]
    BY <1>1, <1>2, <1>4 DEF Write
  <2>2. /\ OnlySender(s) /\ sender'[s].phase = "recorded" /\ sender'[s].payee = p /\ sender'[s].nonce = n
        /\ sender'[s].tx = sender[s].tx /\ sender'[s].seen = sender[s].seen
    BY <2>1, EntersMoves DEF p, n
  <2>3. /\ row' \in [Payees -> Rows] /\ row'[p].status = "pending" /\ row'[p].nonce = n
        /\ \A q \in Payees : q # p => row'[q] = row[q]
    <3> DEFINE r == [status |-> "pending", tx |-> sender[s].tx, nonce |-> n]
    <3>1. r \in Rows /\ r.status = "pending" /\ r.nonce = n
      BY <1>2 DEF Rows
    <3> HIDE DEF r
    <3>2. row' = [row EXCEPT ![p] = r]
      BY <2>1 DEF r
    <3> QED
      BY <1>2, <3>1, <3>2
  <2>4. \A q \in Payees : row[q].nonce # Unbound => row'[q].nonce = row[q].nonce
    BY <1>4, <2>3, <1>2 DEF MayWrite
  <2>5. PayoutTyped'
    BY <1>1, <2>2, <2>3 DEF PayoutInv, PayoutTyped, OnlySender
  <2>6. \A q \in Payees : RowOK(q)'
    BY <1>1, <2>3 DEF PayoutInv, RowOK
  <2>7. MempoolOK'
    BY <1>1, <2>4 DEF PayoutInv, PayoutTyped, MempoolOK
  <2>8. ChainOK'
    <3> SUFFICES ASSUME NEW k \in 1..Len(chain), NEW q \in Payees, chain[k].payee = q PROVE row'[q].nonce = k - 1
      BY <1>1 DEF ChainOK
    <3>1. row[q].nonce = k - 1
      BY DEF PayoutInv, ChainOK
    <3>2. k - 1 # Unbound
      BY DEF PayoutInv, PayoutTyped, Unbound
    <3> QED
      BY <2>4, <3>1, <3>2
  <2>9. Apart'
    <3> SUFFICES ASSUME alone, NEW q1 \in Payees, NEW q2 \in Payees, q1 # q2, row'[q1].nonce # Unbound
                 PROVE  row'[q2].nonce # row'[q1].nonce
      BY <1>1 DEF Apart
    <3>1. CASE q1 = p
      BY <1>2, <2>3, <3>1
    <3>2. CASE q2 = p
      BY <1>2, <2>3, <3>2
    <3>3. CASE q1 # p /\ q2 # p
      BY <2>3, <3>3 DEF PayoutInv, Apart
    <3> QED
      BY <3>1, <3>2, <3>3
  <2>10. ASSUME NEW u \in Senders PROVE SenderOK(u)'
    <3>1. SenderOK(u) /\ DOMAIN sender[u].seen \subseteq Payees
      BY RowsTyped DEF PayoutInv
    <3>2. CASE u = s
      BY <1>1, <1>2, <2>2, <2>3, <2>4, <3>1, <3>2 DEF SenderOK
    <3>3. CASE u # s
      <4>1. sender'[u] = sender[u] /\ (alone => sender[u].phase = "off")
        BY <1>2, <2>2, <3>1, <3>3 DEF OnlySender, SenderOK
      <4> QED
        BY <1>1, <2>4, <3>1, <4>1 DEF SenderOK
    <3> QED
      BY <3>2, <3>3
  <2> QED
    BY <2>5, <2>6, <2>7, <2>8, <2>9, <2>10 DEF PayoutInv
<1> QED
  BY <1>3, <1>4

\* A recorded transaction carries the nonce of its row.
LEMMA RecordedHolds ==
    ASSUME PayoutInv, NEW s \in Senders, sender[s].phase \in {"recorded", "waiting"}
    PROVE  /\ sender[s].payee \in Payees /\ sender[s].nonce = row[sender[s].payee].nonce
           /\ sender[s].nonce \in Nonces /\ sender[s].nonce # Unbound
           /\ sender[s].tx \in 0..MaxTries /\ row[sender[s].payee].tx \in 0..MaxTries
BY RowsTyped DEF PayoutInv, SenderOK

LEMMA BroadcastStep ==
    ASSUME PayoutInv, NEW s \in Senders, Broadcast(s) PROVE PayoutInv'
<1> DEFINE p == sender[s].payee
<1>1. /\ UNCHANGED <<wallet, chain, lock, alone>> /\ sender[s].phase = "recorded"
      /\ \/ mempool' = mempool
         \/ sender[s].phase = "recorded" /\ mempool' = mempool \union {Own(s)}
      /\ \/ Write(p, "failed", sender[s].nonce, row[p].tx) /\ Leaves(s, p)
         \/ row' = row /\ EntersPhase(s, "waiting")
  BY DEF Broadcast
<1>2. /\ p \in Payees /\ sender[s].nonce = row[p].nonce /\ row[p].tx \in 0..MaxTries
  BY <1>1, RecordedHolds
<1> HIDE DEF p
<1>3. CASE Write(p, "failed", sender[s].nonce, row[p].tx) /\ Leaves(s, p)
  <2>1. RowsKeep
    BY <1>1, <1>2, <1>3, WriteKeeps
  <2> QED
    BY <1>1, <1>2, <1>3, <2>1, LeavesKeeps, SenderMoves
<1>4. CASE row' = row /\ EntersPhase(s, "waiting")
  <2>1. RowsKeep
    BY <1>1, <1>4 DEF RowsKeep, PayoutInv, PayoutTyped, RowOK
  <2>2. SenderOK(s)'
    BY <1>1, <1>4, EntersMoves DEF PayoutInv, SenderOK
  <2> QED
    BY <1>1, <1>4, <2>1, <2>2, EntersMoves, SenderMoves
<1> QED
  BY <1>1, <1>3, <1>4

LEMMA ConfirmStep ==
    ASSUME PayoutInv, NEW s \in Senders, Confirm(s) PROVE PayoutInv'
<1> DEFINE p == sender[s].payee
           n == sender[s].nonce
           ok == chain[n + 1].ok
<1>1. /\ UNCHANGED <<wallet, mempool, chain, lock, alone>> /\ sender[s].phase = "waiting" /\ Leaves(s, p)
      /\ \/ /\ n < Len(chain) /\ chain[n + 1].payee = p
            /\ Write(p, IF ok THEN "sent" ELSE "failed", n, sender[s].tx)
         \/ row' = row
  BY DEF Confirm, NonceCount, Mined
<1>2. /\ p \in Payees /\ n = row[p].nonce /\ sender[s].tx \in 0..MaxTries /\ n \in Nonces /\ n # Unbound
  BY <1>1, RecordedHolds
<1>3. n \in Nat /\ Len(chain) \in Nat
  BY <1>2, NoncesAreInts DEF PayoutInv, PayoutTyped, Nonces, Unbound
<1> HIDE DEF p, n, ok
<1>4. RowsKeep
  <2>1. CASE row' = row
    BY <1>1, <2>1 DEF RowsKeep, PayoutInv, PayoutTyped, RowOK
  <2>2. CASE row' # row
    <3>1. n \in 0..(Len(chain) - 1) /\ chain[n + 1].payee = p
      BY <1>1, <1>3, <2>2
    <3>2. CASE ok
      <4>1. Write(p, "sent", n, sender[s].tx)
        BY <1>1, <2>2, <3>2
      <4>2. row[p].nonce \in 0..(Len(chain) - 1) /\ chain[row[p].nonce + 1].payee = p /\ chain[row[p].nonce + 1].ok
        BY <1>2, <3>1, <3>2 DEF ok
      <4> QED
        BY <1>1, <1>2, <4>1, <4>2, WriteKeeps
    <3>3. CASE ~ok
      <4>1. Write(p, "failed", n, sender[s].tx)
        BY <1>1, <2>2, <3>3
      <4> QED
        BY <1>1, <1>2, <4>1, WriteKeeps
    <3> QED
      BY <3>2, <3>3
  <2> QED
    BY <2>1, <2>2
<1> QED
  BY <1>1, <1>2, <1>4, LeavesKeeps, SenderMoves

LEMMA PayoutNextKeeps == PayoutInv /\ [PayoutNext]_payoutVars => PayoutInv'
<1> SUFFICES ASSUME PayoutInv, [PayoutNext]_payoutVars PROVE PayoutInv'
  OBVIOUS
<1>1. CASE Mine \/ MineForeign \/ Freeze
  BY <1>1, MineStep, MineForeignStep, FreezeStep
<1>2. ASSUME NEW p \in Payees, SetWallet(p) PROVE PayoutInv'
  BY <1>2, SetWalletStep
<1>3. ASSUME NEW s \in Senders,
             Begin(s) \/ End(s) \/ Dies(s) \/ LosesLock(s) \/ RecordNonce(s) \/ Broadcast(s) \/ Confirm(s)
      PROVE  PayoutInv'
  BY <1>3, BeginStep, StopStep, LosesLockStep, RecordNonceStep, BroadcastStep, ConfirmStep
<1>4. ASSUME NEW s \in Senders, NEW p \in Payees,
             BindWallet(s, p) \/ CheckChain(s, p) \/ ScreenHolds(s, p) \/ Sign(s, p)
      PROVE  PayoutInv'
  BY <1>4, BindWalletStep, CheckChainStep, ScreenHoldsStep, SignStep
<1>5. CASE UNCHANGED payoutVars
  BY <1>5 DEF payoutVars, PayoutInv, PayoutTyped, RowOK, MempoolOK, ChainOK, Apart, SenderOK
<1> QED
  BY <1>1, <1>2, <1>3, <1>4, <1>5 DEF PayoutNext

LEMMA PayoutSafe == PayoutInv => PaidAtMostOnce
<1> SUFFICES ASSUME PayoutInv, NEW p \in Payees
             PROVE  /\ Cardinality(TransfersTo(p)) <= 1
                    /\ row[p].status = "sent" => TransfersTo(p) = {row[p].nonce}
                    /\ alone /\ row[p].nonce # Unbound => \A q \in Payees \ {p} : row[q].nonce # row[p].nonce
  BY DEF PaidAtMostOnce
<1>1. Len(chain) \in Nat
  BY DEF PayoutInv, PayoutTyped
<1>2. ASSUME NEW n \in TransfersTo(p) PROVE n = row[p].nonce
  <2>1. n + 1 \in 1..Len(chain) /\ n \in Int /\ chain[n + 1].payee = p
    BY <1>1 DEF TransfersTo, NonceCount, Mined
  <2>2. row[p].nonce = (n + 1) - 1
    BY <2>1 DEF PayoutInv, ChainOK
  <2> QED
    BY <2>1, <2>2
<1>3. Cardinality(TransfersTo(p)) <= 1
  <2>1. TransfersTo(p) \subseteq {row[p].nonce}
    BY <1>2
  <2>2. TransfersTo(p) = {} \/ TransfersTo(p) = {row[p].nonce}
    BY <2>1
  <2>3. Cardinality({}) = 0 /\ Cardinality({row[p].nonce}) = 1
    BY FS_EmptySet, FS_Singleton
  <2> QED
    BY <2>2, <2>3
<1>4. row[p].status = "sent" => row[p].nonce \in TransfersTo(p)
  BY DEF PayoutInv, RowOK, TransfersTo, NonceCount, Mined
<1> QED
  BY <1>2, <1>3, <1>4 DEF PayoutInv, Apart

(***************************************************************************)
(* No account is paid twice for a period, for any number of accounts and   *)
(* senders, retries, late answers and lost locks; a payout recorded as     *)
(* sent is on chain at its row's nonce; and two payouts never wait for one *)
(* nonce unless a sender lost its lock.                                    *)
(***************************************************************************)
THEOREM PayoutsPayOnce == PayoutSpec => []PaidAtMostOnce
BY PayoutStarts, PayoutNextKeeps, PayoutSafe, PTL DEF PayoutSpec

HIDE PayoutAssumption

-----------------------------------------------------------------------------
(* Validator reward payments. *)

USE RewardAssumption

\* The one transaction is final and succeeded.
RewardFinal ==
    /\ reward.nonce \in 0..(final - 1)
    /\ blocks[reward.nonce + 1] = [reward |-> TRUE, ok |-> TRUE]

(***************************************************************************)
(* The inductive invariant.                                                *)
(***************************************************************************)
RewardRunOK(x) ==
    /\ run[x].at \in {"bound", "clear", "submitted", "decided"} => reward.status # "none"
    /\ run[x].at = "decided" =>
         /\ run[x].verdict \in {"pending", "manual_review", "sent"}
         /\ run[x].verdict = "sent" => RewardFinal

RailOK ==
    /\ rail.nonces \subseteq 0..(MaxHeight - 1) /\ reward.nonce \notin rail.nonces
    /\ rail.at = "chosen" => rail.pick \in 0..(MaxHeight - 1) /\ rail.pick # reward.nonce

RewardInv ==
    /\ RewardTypeOK
    /\ reward.status = "none" <=> reward.nonce = NoNonce
    /\ reward.nonce <= MaxHeight
    /\ pool # {} => reward.status # "none"
    /\ pool \subseteq {reward.nonce}
    /\ \A n \in 1..Len(blocks) : blocks[n].reward => reward.nonce = n - 1
    /\ RailOK
    /\ reward.status = "sent" => RewardFinal
    /\ reward.status = best
    /\ \A x \in Runs : RewardRunOK(x)

Blocks == [reward : BOOLEAN, ok : BOOLEAN]

RunRows == [at : {"off", "planned", "priced", "bound", "clear", "submitted", "decided"},
            pending : 0..MaxHeight, seen : RewardStatuses, verdict : RewardStatuses]

\* Nothing is bound at the start.
LEMMA RewardStarts == RewardInit => RewardInv
<1> SUFFICES ASSUME RewardInit PROVE RewardInv
  OBVIOUS
<1>1. NoNonce \in TreasuryNonces /\ Len(<<>>) = 0 /\ 0 \in 0..MaxHeight
  BY DEF NoNonce, TreasuryNonces
<1>2. RewardTypeOK
  BY <1>1 DEF RewardInit, RewardTypeOK, Resting, RewardStatuses
<1> QED
  BY <1>1, <1>2 DEF RewardInit, RewardInv, RewardRunOK, RailOK, Resting, NoNonce

-----------------------------------------------------------------------------
(* What the steps of a call do to it. *)

OnlyRun(x) == run' \in [Runs -> RunRows] /\ \A y \in Runs : y # x => run'[y] = run[y]

LEMMA EntersRun ==
    ASSUME RewardTypeOK, NEW x \in Runs, NEW at, Enters(x, at),
           at \in {"planned", "clear", "submitted"}
    PROVE  OnlyRun(x) /\ run'[x].at = at
BY DEF RewardTypeOK, Enters, OnlyRun, RunRows

LEMMA HasRowRun ==
    ASSUME RewardTypeOK, NEW x \in Runs, NEW status \in RewardStatuses, HasRow(x, status)
    PROVE  OnlyRun(x) /\ run'[x].at = "bound"
BY DEF RewardTypeOK, HasRow, OnlyRun, RunRows

LEMMA DecidesRun ==
    ASSUME RewardTypeOK, NEW x \in Runs, NEW verdict \in RewardStatuses, Decides(x, verdict)
    PROVE  OnlyRun(x) /\ run'[x].at = "decided" /\ run'[x].verdict = verdict
BY DEF RewardTypeOK, Decides, OnlyRun, RunRows

LEMMA RestsRun ==
    ASSUME RewardTypeOK, NEW x \in Runs, run' = [run EXCEPT ![x] = Resting]
    PROVE  OnlyRun(x) /\ run'[x].at = "off"
BY DEF RewardTypeOK, OnlyRun, RunRows, Resting, RewardStatuses

\* A call goes on and moves nothing else.
LEMMA CallMoves ==
    ASSUME RewardInv, NEW x \in Runs, UNCHANGED <<reward, best, pool, blocks, final, rail>>,
           OnlyRun(x), RewardRunOK(x)'
    PROVE  RewardInv'
<1>1. \A y \in Runs : RewardRunOK(y)'
  BY DEF RewardInv, OnlyRun, RewardRunOK, RewardFinal
<1>2. RewardTypeOK'
  BY DEF RewardInv, RewardTypeOK, OnlyRun, RunRows
<1> QED
  BY <1>1, <1>2 DEF RewardInv, RailOK, RewardFinal

\* The calls keep what they know when the row stays bound and a final success final.
LEMMA CallsKeep ==
    ASSUME RewardInv, UNCHANGED run, RewardFinal => RewardFinal',
           reward.status # "none" => reward'.status # "none"
    PROVE  \A y \in Runs : RewardRunOK(y)'
BY DEF RewardInv, RewardRunOK

\* What the receipt says.
LEMMA ReceiptSays ==
    ASSUME RewardInv, reward.status # "none"
    PROVE  /\ Receipt \in {"not_mined", "pending", "manual_review", "sent"}
           /\ Receipt = "sent" => RewardFinal
<1>1. reward.nonce \in 0..(MaxHeight + 1) /\ Len(blocks) \in Nat /\ final \in 0..Len(blocks)
  BY DEF RewardInv, RewardTypeOK, TreasuryNonces, NoNonce
<1> DEFINE b == blocks[reward.nonce + 1]
<1>2. reward.nonce < Len(blocks) => b \in Blocks
  <2>1. blocks \in Seq(Blocks)
    BY DEF RewardInv, RewardTypeOK, Blocks
  <2> QED
    BY <1>1, <2>1
<1>3. b \in Blocks /\ b.reward /\ b.ok => b = [reward |-> TRUE, ok |-> TRUE]
  <2> HIDE DEF b
  <2> QED
    BY Zenon DEF Blocks
<1> HIDE DEF b
<1>4. Receipt = IF reward.nonce >= Len(blocks) THEN "not_mined"
                ELSE IF ~b.reward THEN "manual_review"
                ELSE IF reward.nonce >= final THEN "pending"
                ELSE IF b.ok THEN "sent" ELSE "manual_review"
  BY DEF Receipt, b
<1>5. Receipt \in {"not_mined", "pending", "manual_review", "sent"}
  BY <1>4, Zenon
<1>6. Receipt = "sent" => ~ (reward.nonce >= Len(blocks)) /\ b.reward /\ ~ (reward.nonce >= final) /\ b.ok
  BY <1>4, Zenon
<1> QED
  BY <1>1, <1>2, <1>3, <1>5, <1>6 DEF b, RewardFinal

\* A fresh nonce is above the reward's own and above those of the workers' rows.
LEMMA FreshIsAbove ==
    ASSUME RewardInv, NEW pending \in 0..MaxHeight
    PROVE  /\ NextNonce(pending) \in 0..(MaxHeight + 1)
           /\ NextNonce(pending) > reward.nonce /\ NextNonce(pending) \notin rail.nonces
           /\ reward.nonce = NoNonce => NextNonce(pending) <= MaxHeight
<1> DEFINE Above == {n + 1 : n \in rail.nonces}
           All == {pending, reward.nonce + 1} \union Above
<1>1. /\ rail.nonces \subseteq 0..(MaxHeight - 1)
      /\ reward.nonce \in NoNonce..(MaxHeight + 1) /\ reward.nonce <= MaxHeight
  BY DEF RewardInv, RailOK, RewardTypeOK, TreasuryNonces
<1>2. All \subseteq 0..(MaxHeight + 1)
  BY <1>1 DEF NoNonce
<1>3. IsFiniteSet(0..(MaxHeight + 1))
  BY FS_Interval
<1>4. All \subseteq Int /\ IsFiniteSet(All) /\ All # {}
  <2>1. pending \in All
    OBVIOUS
  <2> HIDE DEF All
  <2>2. IsFiniteSet(All)
    BY <1>2, <1>3, FS_Subset
  <2> QED
    BY <1>2, <2>1, <2>2
<1>5. Max(All) \in All /\ \A n \in All : n <= Max(All)
  <2> HIDE DEF All
  <2> QED
    BY <1>4, MaxOf
<1>6. NextNonce(pending) = Max(All)
  BY DEF NextNonce
<1>7. \A n \in rail.nonces : n + 1 \in All
  OBVIOUS
<1>8. reward.nonce + 1 \in All /\ (reward.nonce = NoNonce => \A n \in All : n <= MaxHeight)
  BY <1>1 DEF NoNonce
<1> HIDE DEF All
<1>9. Max(All) \in 0..(MaxHeight + 1)
  BY <1>2, <1>5
<1> QED
  BY <1>1, <1>5, <1>6, <1>7, <1>8, <1>9 DEF NoNonce

-----------------------------------------------------------------------------
(* The steps. *)

LEMMA MineTreasuryStep == ASSUME RewardInv, MineTreasury PROVE RewardInv'
<1>0. PICK block \in Blocks :
        /\ IF block.reward THEN Len(blocks) \in pool ELSE block.ok
        /\ blocks' = Append(blocks, block)
  BY DEF MineTreasury, Blocks
<1>1. blocks \in Seq(Blocks) /\ final \in 0..Len(blocks) /\ Len(blocks) < MaxHeight
  BY DEF RewardInv, RewardTypeOK, MineTreasury, Blocks
<1>2. /\ blocks' \in Seq(Blocks) /\ Len(blocks') = Len(blocks) + 1
      /\ \A n \in 1..Len(blocks) : blocks'[n] = blocks[n]
      /\ blocks'[Len(blocks) + 1] = block
  BY <1>0, <1>1
<1>3. UNCHANGED <<reward, best, pool, final, rail, run>>
  BY DEF MineTreasury
<1>4. RewardFinal => RewardFinal'
  BY <1>1, <1>2, <1>3, SMTT(30) DEF RewardFinal
<1>5. \A x \in Runs : RewardRunOK(x)'
  BY <1>3, <1>4, CallsKeep
<1>6. RewardTypeOK'
  BY <1>1, <1>2, <1>3 DEF RewardInv, RewardTypeOK, Blocks
<1>7. \A n \in 1..Len(blocks') : blocks'[n].reward => reward'.nonce = n - 1
  <2> SUFFICES ASSUME NEW n \in 1..Len(blocks'), blocks'[n].reward PROVE reward'.nonce = n - 1
    OBVIOUS
  <2>1. CASE n \in 1..Len(blocks)
    BY <1>2, <1>3, <2>1 DEF RewardInv
  <2>2. CASE n = Len(blocks) + 1
    BY <1>0, <1>1, <1>2, <1>3, <2>2 DEF RewardInv
  <2> QED
    BY <1>1, <1>2, <2>1, <2>2
<1> QED
  BY <1>3, <1>4, <1>5, <1>6, <1>7 DEF RewardInv, RailOK

LEMMA FinalizeStep == ASSUME RewardInv, Finalize PROVE RewardInv'
<1>1. UNCHANGED <<reward, best, pool, blocks, rail, run>> /\ final' = final + 1 /\ final < Len(blocks)
  BY DEF Finalize
<1>2. final \in 0..Len(blocks) /\ Len(blocks) \in Nat
  BY DEF RewardInv, RewardTypeOK
<1>3. RewardFinal => RewardFinal'
  BY <1>1, <1>2 DEF RewardFinal
<1>4. \A x \in Runs : RewardRunOK(x)'
  BY <1>1, <1>3, CallsKeep
<1>5. RewardTypeOK'
  BY <1>1, <1>2 DEF RewardInv, RewardTypeOK
<1> QED
  BY <1>1, <1>3, <1>4, <1>5 DEF RewardInv, RailOK

LEMMA ReorganizeStep == ASSUME RewardInv, Reorganize PROVE RewardInv'
<1>1. /\ UNCHANGED <<reward, best, pool, final, rail, run>>
      /\ blocks' = SubSeq(blocks, 1, Len(blocks) - 1) /\ final < Len(blocks)
  BY DEF Reorganize
<1>2. blocks \in Seq(Blocks) /\ final \in 0..Len(blocks) /\ Len(blocks) <= MaxHeight
  BY DEF RewardInv, RewardTypeOK, Blocks
<1>3. /\ blocks' \in Seq(Blocks) /\ Len(blocks') = Len(blocks) - 1
      /\ \A n \in 1..(Len(blocks) - 1) : blocks'[n] = blocks[n]
  BY <1>1, <1>2, DropLast
<1>4. RewardFinal => RewardFinal'
  BY <1>1, <1>2, <1>3 DEF RewardFinal
<1>5. \A x \in Runs : RewardRunOK(x)'
  BY <1>1, <1>4, CallsKeep
<1>6. RewardTypeOK'
  BY <1>1, <1>2, <1>3 DEF RewardInv, RewardTypeOK, Blocks
<1>7. \A n \in 1..Len(blocks') : blocks'[n].reward => reward'.nonce = n - 1
  BY <1>1, <1>2, <1>3 DEF RewardInv
<1> QED
  BY <1>1, <1>4, <1>5, <1>6, <1>7 DEF RewardInv, RailOK

\* The worker sender moves.
LEMMA RailMoves ==
    ASSUME RewardInv, UNCHANGED <<reward, best, pool, blocks, final, run>>, RailOK',
           rail' \in [at : {"free", "locked", "chosen"}, pick : TreasuryNonces,
                      nonces : SUBSET TreasuryNonces]
    PROVE  RewardInv'
<1>1. RewardTypeOK'
  BY DEF RewardInv, RewardTypeOK
<1>2. RewardFinal' = RewardFinal
  BY DEF RewardFinal
<1>3. \A x \in Runs : RewardRunOK(x)'
  BY <1>2, CallsKeep
<1> QED
  BY <1>1, <1>2, <1>3 DEF RewardInv

LEMMA RailSteps == ASSUME RewardInv, RailLocks \/ RailChooses \/ RailEnds PROVE RewardInv'
<1>1. /\ rail \in [at : {"free", "locked", "chosen"}, pick : TreasuryNonces,
                   nonces : SUBSET TreasuryNonces]
      /\ RailOK /\ Len(blocks) \in 0..MaxHeight
  BY DEF RewardInv, RewardTypeOK
<1>2. CASE RailLocks
  BY <1>1, <1>2, RailMoves DEF RailLocks, RailOK
<1>3. CASE RailChooses
  <2>1. PICK pending \in 0..Len(blocks) :
          /\ NextNonce(pending) < MaxHeight
          /\ rail' = [rail EXCEPT !.at = "chosen", !.pick = NextNonce(pending)]
    BY <1>3 DEF RailChooses
  <2> DEFINE n == NextNonce(pending)
  <2>2. n \in 0..(MaxHeight - 1) /\ n > reward.nonce /\ reward.nonce \in Int
    BY <1>1, <2>1, FreshIsAbove DEF RewardInv, RewardTypeOK, TreasuryNonces, NoNonce
  <2>3. n \in TreasuryNonces
    BY <2>2 DEF TreasuryNonces, NoNonce
  <2>4. rail'.at = "chosen" /\ rail'.pick = n /\ rail'.nonces = rail.nonces
    BY <1>1, <2>1
  <2>5. rail' \in [at : {"free", "locked", "chosen"}, pick : TreasuryNonces,
                   nonces : SUBSET TreasuryNonces]
    BY <1>1, <2>1, <2>3
  <2> HIDE DEF n
  <2>6. UNCHANGED <<reward, best, pool, blocks, final, run>>
    BY <1>3 DEF RailChooses
  <2>7. RailOK'
    BY <1>1, <2>2, <2>4, <2>6 DEF RailOK
  <2> QED
    BY <2>5, <2>6, <2>7, RailMoves
<1>4. CASE RailEnds
  <2>1. PICK recorded \in BOOLEAN :
          /\ recorded => rail.at = "chosen"
          /\ rail' = [at |-> "free", pick |-> NoNonce,
                      nonces |-> IF recorded THEN rail.nonces \union {rail.pick} ELSE rail.nonces]
    BY <1>4 DEF RailEnds
  <2>2. /\ rail'.at = "free" /\ rail'.pick = NoNonce
        /\ rail'.nonces \in {rail.nonces, rail.nonces \union {rail.pick}}
        /\ rail'.nonces # rail.nonces => rail.at = "chosen"
    BY <2>1
  <2>3. NoNonce \in TreasuryNonces
    BY DEF TreasuryNonces, NoNonce
  <2>4. rail' \in [at : {"free", "locked", "chosen"}, pick : TreasuryNonces,
                   nonces : SUBSET TreasuryNonces]
    BY <1>1, <2>1, <2>3
  <2>5. UNCHANGED <<reward, best, pool, blocks, final, run>>
    BY <1>4 DEF RailEnds
  <2>6. RailOK'
    BY <1>1, <2>2, <2>5 DEF RailOK
  <2> QED
    BY <2>4, <2>5, <2>6, RailMoves
<1> QED
  BY <1>2, <1>3, <1>4

LEMMA StartSendStep ==
    ASSUME RewardInv, NEW x \in Runs, StartSend(x) PROVE RewardInv'
<1>1. UNCHANGED <<reward, best, pool, blocks, final, rail>> /\ RewardTypeOK
  BY DEF StartSend, RewardInv
<1>2. CASE reward.status = "none"
  <2>1. OnlyRun(x) /\ run'[x].at = "planned"
    BY <1>1, <1>2, EntersRun DEF StartSend
  <2> QED
    BY <1>1, <2>1, CallMoves DEF RewardRunOK
<1>3. CASE reward.status # "none"
  <2>1. OnlyRun(x) /\ run'[x].at = "bound"
    BY <1>1, <1>3, HasRowRun DEF StartSend, RewardTypeOK
  <2> QED
    BY <1>1, <1>3, <2>1, CallMoves DEF RewardRunOK
<1> QED
  BY <1>2, <1>3

LEMMA ReadPendingStep ==
    ASSUME RewardInv, NEW x \in Runs, ReadPending(x) PROVE RewardInv'
<1>1. UNCHANGED <<reward, best, pool, blocks, final, rail>> /\ RewardTypeOK
  BY DEF ReadPending, RewardInv
<1>2. PICK pending \in 0..Len(blocks) :
        run' = [run EXCEPT ![x].at = "priced", ![x].pending = pending]
  BY DEF ReadPending
<1>3. pending \in 0..MaxHeight
  BY <1>1 DEF RewardTypeOK
<1>4. OnlyRun(x) /\ run'[x].at = "priced"
  BY <1>1, <1>2, <1>3 DEF OnlyRun, RewardTypeOK, RunRows
<1> QED
  BY <1>1, <1>4, CallMoves DEF RewardRunOK

LEMMA BindRewardStep ==
    ASSUME RewardInv, NEW x \in Runs, BindReward(x) PROVE RewardInv'
<1>1. UNCHANGED <<pool, blocks, final, rail>> /\ RewardTypeOK /\ rail.at = "free"
  BY DEF BindReward, RewardInv
<1>2. CASE reward.status # "none"
  <2>1. UNCHANGED <<reward, best>>
    BY <1>2 DEF BindReward
  <2>2. OnlyRun(x) /\ run'[x].at = "bound"
    BY <1>1, <1>2, HasRowRun DEF BindReward, RewardTypeOK
  <2> QED
    BY <1>1, <1>2, <2>1, <2>2, CallMoves DEF RewardRunOK
<1>3. CASE reward.status = "none"
  <2> DEFINE n == NextNonce(run[x].pending)
  <2>1. reward' = [status |-> "pending", nonce |-> n] /\ best' = "pending" /\ HasRow(x, "pending")
    BY <1>3 DEF BindReward
  <2>2. OnlyRun(x) /\ run'[x].at = "bound"
    BY <1>1, <2>1, HasRowRun DEF RewardStatuses
  <2>3. reward.nonce = NoNonce /\ pool = {}
    BY <1>3 DEF RewardInv
  <2>4. n \in 0..MaxHeight /\ n \notin rail.nonces
    <3>1. run[x].pending \in 0..MaxHeight
      BY <1>1 DEF RewardTypeOK
    <3> QED
      BY <2>3, <3>1, FreshIsAbove
  <2> HIDE DEF n
  <2>5. reward'.status = "pending" /\ reward'.nonce = n /\ n \in TreasuryNonces /\ n # NoNonce
    BY <2>1, <2>4 DEF TreasuryNonces, NoNonce
  <2>6. RewardTypeOK'
    BY <1>1, <2>1, <2>2, <2>5 DEF RewardTypeOK, OnlyRun, RunRows, RewardStatuses
  <2>7. RailOK'
    BY <1>1, <2>4, <2>5 DEF RewardInv, RailOK
  <2>8. \A k \in 1..Len(blocks') : blocks'[k].reward => reward'.nonce = k - 1
    <3>1. \A k \in 1..Len(blocks) : blocks[k].reward => NoNonce = k - 1
      BY <2>3 DEF RewardInv
    <3>2. \A k \in 1..Len(blocks) : k - 1 # NoNonce
      BY <1>1 DEF RewardTypeOK, NoNonce
    <3> QED
      BY <1>1, <3>1, <3>2
  <2>9. \A y \in Runs : RewardRunOK(y)'
    <3> SUFFICES ASSUME NEW y \in Runs PROVE RewardRunOK(y)'
      OBVIOUS
    <3>1. CASE y = x
      BY <2>2, <2>5, <3>1 DEF RewardRunOK
    <3>2. CASE y # x
      <4>1. RewardRunOK(y) /\ run'[y] = run[y]
        BY <2>2, <3>2 DEF RewardInv, OnlyRun
      <4>2. run[y].at \notin {"bound", "clear", "submitted", "decided"}
        BY <1>3, <4>1 DEF RewardRunOK
      <4> QED
        BY <4>1, <4>2 DEF RewardRunOK
    <3> QED
      BY <3>1, <3>2
  <2> QED
    BY <1>1, <2>1, <2>3, <2>4, <2>5, <2>6, <2>7, <2>8, <2>9 DEF RewardInv
<1> QED
  BY <1>2, <1>3

LEMMA DecisionStep ==
    ASSUME RewardInv, NEW x \in Runs,
           ReadReceipt(x) \/ HoldForReview(x) \/ ReadReceiptAgain(x) \/ ReceiptUnavailable(x)
    PROVE  RewardInv'
<1>1. /\ UNCHANGED <<reward, best, pool, blocks, final, rail>> /\ RewardTypeOK
      /\ run[x].at \in {"bound", "clear", "submitted"} /\ reward.status # "none"
  BY DEF ReadReceipt, HoldForReview, ReadReceiptAgain, ReceiptUnavailable, RewardInv, RewardRunOK
<1> DEFINE told == IF Receipt = "not_mined" THEN "pending" ELSE Receipt
<1>2. told \in {"pending", "manual_review", "sent"} /\ (told = "sent" => RewardFinal)
  BY <1>1, ReceiptSays
<1>3. \/ Enters(x, "clear")
      \/ \E v \in {told, "pending", "manual_review"} : Decides(x, v)
  BY DEF ReadReceipt, HoldForReview, ReadReceiptAgain, ReceiptUnavailable
<1> HIDE DEF told
<1>4. CASE Enters(x, "clear")
  <2>1. OnlyRun(x) /\ run'[x].at = "clear"
    BY <1>1, <1>4, EntersRun
  <2> QED
    BY <1>1, <2>1, CallMoves DEF RewardRunOK
<1>5. ASSUME NEW v \in {told, "pending", "manual_review"}, Decides(x, v) PROVE RewardInv'
  <2>1. v \in RewardStatuses /\ v \in {"pending", "manual_review", "sent"}
        /\ (v = "sent" => RewardFinal)
    BY <1>2 DEF RewardStatuses
  <2>2. OnlyRun(x) /\ run'[x].at = "decided" /\ run'[x].verdict = v
    BY <1>1, <1>5, <2>1, DecidesRun
  <2>3. RewardFinal' = RewardFinal
    BY <1>1 DEF RewardFinal
  <2> QED
    BY <1>1, <2>1, <2>2, <2>3, CallMoves DEF RewardRunOK
<1> QED
  BY <1>3, <1>4, <1>5

LEMMA BroadcastRewardStep ==
    ASSUME RewardInv, NEW x \in Runs, BroadcastReward(x) PROVE RewardInv'
<1>1. /\ UNCHANGED <<reward, best, blocks, final, rail>> /\ RewardTypeOK
      /\ pool' \in {pool, pool \union {reward.nonce}} /\ reward.status # "none"
  BY DEF BroadcastReward, RewardInv, RewardRunOK
<1>2. OnlyRun(x) /\ run'[x].at \in {"submitted", "decided"}
      /\ (run'[x].at = "decided" => run'[x].verdict = "pending")
  BY <1>1, EntersRun, DecidesRun DEF BroadcastReward, RewardStatuses
<1>3. \A y \in Runs : RewardRunOK(y)'
  BY <1>1, <1>2 DEF RewardInv, OnlyRun, RewardRunOK, RewardFinal
<1>4. RewardTypeOK'
  BY <1>1, <1>2 DEF RewardTypeOK, OnlyRun, RunRows
<1> QED
  BY <1>1, <1>3, <1>4 DEF RewardInv, RailOK, RewardFinal

LEMMA WriteStatusStep ==
    ASSUME RewardInv, NEW x \in Runs, WriteStatus(x) PROVE RewardInv'
<1> DEFINE v == run[x].verdict
<1>1. /\ UNCHANGED <<pool, blocks, final, rail>> /\ RewardTypeOK
      /\ reward.status # "none" /\ v \in {"pending", "manual_review", "sent"}
      /\ v = "sent" => RewardFinal
  BY DEF WriteStatus, RewardInv, RewardRunOK
<1>2. OnlyRun(x) /\ run'[x].at = "off"
  BY <1>1, RestsRun DEF WriteStatus
<1>3. /\ reward'.nonce = reward.nonce /\ reward' \in [status : RewardStatuses, nonce : TreasuryNonces]
      /\ reward'.status = IF Allowed(v) THEN v ELSE reward.status
  BY <1>1 DEF WriteStatus, RewardTypeOK, RewardStatuses
<1>4. best' = IF best = "sent" \/ v = "pending" THEN best
              ELSE IF v = "sent" THEN "sent" ELSE "manual_review"
  BY DEF WriteStatus
<1>5. reward.status \in {"pending", "manual_review", "sent"} /\ best = reward.status
  BY <1>1 DEF RewardInv, RewardTypeOK, RewardStatuses
<1> HIDE DEF v
<1>6. reward'.status = best' /\ reward'.status \in {"pending", "manual_review", "sent"}
  BY <1>1, <1>3, <1>4, <1>5 DEF Allowed
<1>7. reward'.status = "sent" => v = "sent" \/ reward.status = "sent"
  BY <1>3
<1>8. RewardFinal' = RewardFinal
  BY <1>1, <1>3 DEF RewardFinal
<1>9. \A y \in Runs : RewardRunOK(y)'
  BY <1>1, <1>2, <1>6, <1>8 DEF RewardInv, OnlyRun, RewardRunOK
<1>10. RewardTypeOK'
  BY <1>1, <1>2, <1>3, <1>6 DEF RewardTypeOK, OnlyRun, RunRows, RewardStatuses
<1> QED
  BY <1>1, <1>3, <1>6, <1>7, <1>8, <1>9, <1>10 DEF RewardInv, RailOK

LEMMA SendStopsStep ==
    ASSUME RewardInv, NEW x \in Runs, SendStops(x) PROVE RewardInv'
<1>1. UNCHANGED <<reward, best, pool, blocks, final, rail>> /\ RewardTypeOK
  BY DEF SendStops, RewardInv
<1>2. OnlyRun(x) /\ run'[x].at = "off"
  BY <1>1, RestsRun DEF SendStops
<1> QED
  BY <1>1, <1>2, CallMoves DEF RewardRunOK

LEMMA RewardNextKeeps == RewardInv /\ [RewardNext]_rewardVars => RewardInv'
<1> SUFFICES ASSUME RewardInv, [RewardNext]_rewardVars PROVE RewardInv'
  OBVIOUS
<1>1. CASE MineTreasury
  BY <1>1, MineTreasuryStep
<1>2. CASE Finalize
  BY <1>2, FinalizeStep
<1>3. CASE Reorganize
  BY <1>3, ReorganizeStep
<1>4. CASE RailLocks \/ RailChooses \/ RailEnds
  BY <1>4, RailSteps
<1>5. ASSUME NEW x \in Runs,
             \/ StartSend(x) \/ ReadPending(x) \/ BindReward(x) \/ ReadReceipt(x)
             \/ HoldForReview(x) \/ BroadcastReward(x) \/ ReadReceiptAgain(x)
             \/ ReceiptUnavailable(x) \/ WriteStatus(x) \/ SendStops(x)
      PROVE  RewardInv'
  BY <1>5, StartSendStep, ReadPendingStep, BindRewardStep, DecisionStep, BroadcastRewardStep,
     WriteStatusStep, SendStopsStep
<1>6. CASE UNCHANGED rewardVars
  BY <1>6, CallsKeep DEF rewardVars, RewardInv, RewardTypeOK, RailOK, RewardFinal
<1> QED
  BY <1>1, <1>2, <1>3, <1>4, <1>5, <1>6 DEF RewardNext

(***************************************************************************)
(* A validator reward is one transaction at one nonce of the treasury that *)
(* no worker payout has; sent means final and successful; and no late      *)
(* observer takes back a proof or clears a hold: for any number of calls   *)
(* and any order of mining, reorganisations and crashes.                   *)
(***************************************************************************)
THEOREM RewardPaysOnce == RewardSpec => []RewardPaidOnce
<1>1. RewardInv => RewardPaidOnce
  <2> SUFFICES ASSUME RewardInv PROVE RewardPaidOnce
    OBVIOUS
  <2>1. reward.status = "sent" => reward.nonce < final
    BY DEF RewardInv, RewardFinal, RewardTypeOK
  <2> QED
    BY <2>1 DEF RewardInv, RewardPaidOnce, RailOK, RewardFinal
<1> QED
  BY <1>1, RewardStarts, RewardNextKeeps, PTL DEF RewardSpec

HIDE RewardAssumption

-----------------------------------------------------------------------------
(* Validator audit budgets. *)

USE AuditAssumption

LEMMA UnitsSum ==
    ASSUME NEW D, NEW T, IsFiniteSet(T), \A r \in T : D[r].units \in Int
    PROVE  MapThenSumSet(LAMBDA r : D[r].units, T) = SumOf([r \in T |-> D[r].units], T)
<1> DEFINE f == [r \in T |-> D[r].units]
           Iter(k) == k = [s \in SUBSET T |-> IF s = {} THEN 0
                              ELSE LET x == CHOOSE x \in s : TRUE IN D[x].units + k[s \ {x}]]
           it == CHOOSE k : Iter(k)
<1>1. \A s \in SUBSET T : s # {} => Pick(s) \in T /\ f[Pick(s)] = D[Pick(s)].units
  BY PickIn
<1>2. \E k : Iter(k)
  <2>0. Numbers(f, T)
    BY DEF Numbers
  <2>1. PICK k \in [SUBSET T -> Int] : Adds(k, f, T)
    BY <2>0, AddsExists
  <2>2. Iter(k)
    BY <1>1, <2>1, ZenonT(60) DEF Adds, Pick
  <2> HIDE DEF Iter
  <2> QED
    BY <2>2
<1>3. Iter(it)
  <2> HIDE DEF Iter
  <2> QED
    BY <1>2
<1>4. MapThenSumSet(LAMBDA r : D[r].units, T) = it[T]
  BY DEF MapThenSumSet, MapThenFoldSet
<1>5. Adds(it, f, T)
  <2>1. \A s \in SUBSET T : it[s] = IF s = {} THEN 0 ELSE D[Pick(s)].units + it[s \ {Pick(s)}]
    <3> HIDE DEF it
    <3> QED
      BY <1>3 DEF Pick
  <2> HIDE DEF it, f
  <2> QED
    BY <1>1, <2>1 DEF Adds
<1>6. SumOf(f, T) = it[T]
  <2>1. Numbers(f, T)
    BY DEF Numbers
  <2> HIDE DEF it, f
  <2> QED
    BY <1>5, <2>1, SumIs
<1> QED
  BY <1>4, <1>6

LEMMA ActualSum ==
    ASSUME NEW D, NEW T, IsFiniteSet(T), \A r \in T : D[r].actual \in Int
    PROVE  MapThenSumSet(LAMBDA r : D[r].actual, T) = SumOf([r \in T |-> D[r].actual], T)
<1> DEFINE f == [r \in T |-> D[r].actual]
           Iter(k) == k = [s \in SUBSET T |-> IF s = {} THEN 0
                              ELSE LET x == CHOOSE x \in s : TRUE IN D[x].actual + k[s \ {x}]]
           it == CHOOSE k : Iter(k)
<1>1. \A s \in SUBSET T : s # {} => Pick(s) \in T /\ f[Pick(s)] = D[Pick(s)].actual
  BY PickIn
<1>2. \E k : Iter(k)
  <2>0. Numbers(f, T)
    BY DEF Numbers
  <2>1. PICK k \in [SUBSET T -> Int] : Adds(k, f, T)
    BY <2>0, AddsExists
  <2>2. Iter(k)
    BY <1>1, <2>1, ZenonT(60) DEF Adds, Pick
  <2> HIDE DEF Iter
  <2> QED
    BY <2>2
<1>3. Iter(it)
  <2> HIDE DEF Iter
  <2> QED
    BY <1>2
<1>4. MapThenSumSet(LAMBDA r : D[r].actual, T) = it[T]
  BY DEF MapThenSumSet, MapThenFoldSet
<1>5. Adds(it, f, T)
  <2>1. \A s \in SUBSET T : it[s] = IF s = {} THEN 0 ELSE D[Pick(s)].actual + it[s \ {Pick(s)}]
    <3> HIDE DEF it
    <3> QED
      BY <1>3 DEF Pick
  <2> HIDE DEF it, f
  <2> QED
    BY <1>1, <2>1 DEF Adds
<1>6. SumOf(f, T) = it[T]
  <2>1. Numbers(f, T)
    BY DEF Numbers
  <2> HIDE DEF it, f
  <2> QED
    BY <1>5, <2>1, SumIs
<1> QED
  BY <1>4, <1>6


-----------------------------------------------------------------------------
AuditRows == [status : {"none", "held", "settled", "released", "manual_review"},
              hour : Hours, units : Nat, actual : Nat]
CounterRows == [cap : Nat, reserved : Nat, spent : Nat]

Holds(j) == audit[j].status \in {"held", "manual_review"}

\* What each audit holds of a counter, and what it has spent of it.
HeldOf(k) == [j \in AuditJobs |->
    IF Holds(j) /\ k \in CountersIn(audit[j].hour, j) THEN audit[j].units ELSE 0]
SpentOf(k) == [j \in AuditJobs |->
    IF audit[j].actual > 0 /\ k \in CountersIn(audit[j].hour, j) THEN audit[j].actual ELSE 0]

CounterExact(k) ==
    /\ counter[k].reserved = SumOf(HeldOf(k), AuditJobs)
    /\ counter[k].spent = SumOf(SpentOf(k), AuditJobs)
    /\ counter[k].reserved + counter[k].spent <= counter[k].cap

JobOK(j) ==
    /\ audit[j].status # "none" => CountersIn(audit[j].hour, j) \subseteq DOMAIN counter
    /\ audit[j].actual > 0 => audit[j].status = "settled"
    /\ terminal[j] = "audit" <=> audit[j].status = "settled"
    /\ j \in demand => audit[j].status = "none"

(***************************************************************************)
(* The inductive invariant. Each counter is the sum over all jobs of what  *)
(* each holds of it and of what each has spent of it; the property's sums  *)
(* run over the jobs that hold or have spent only.                         *)
(***************************************************************************)
AuditInv ==
    /\ hour \in Hours
    /\ audit \in [AuditJobs -> AuditRows]
    /\ counter \in [DOMAIN counter -> CounterRows]
    /\ terminal \in [AuditJobs -> {"none", "unreserved", "demand", "audit"}]
    /\ \A k \in DOMAIN counter : CounterExact(k)
    /\ \A j \in AuditJobs : JobOK(j)

LEMMA AuditTypes ==
    ASSUME AuditInv
    PROVE  /\ \A j \in AuditJobs : audit[j] \in AuditRows /\ audit[j].units \in Nat /\ audit[j].actual \in Nat
           /\ \A k \in DOMAIN counter : /\ counter[k] \in CounterRows /\ counter[k].cap \in Nat
                                        /\ counter[k].reserved \in Nat /\ counter[k].spent \in Nat
BY DEF AuditInv, AuditRows, CounterRows

LEMMA CapsAreNat == HourlyCaps \subseteq Nat /\ AuditUnits \subseteq Nat /\ TopUnits \in Nat
<1>1. /\ AuditUnits \union HourlyCaps \subseteq Nat /\ AuditUnits \union HourlyCaps \subseteq Int
      /\ AuditUnits \union HourlyCaps # {}
  OBVIOUS
<1>2. IsFiniteSet(AuditUnits \union HourlyCaps)
  BY FS_Union
<1>3. Max(AuditUnits \union HourlyCaps) \in AuditUnits \union HourlyCaps
  BY <1>1, <1>2, MaxOf
<1> QED
  BY <1>1, <1>3 DEF TopUnits

LEMMA ShareTyped ==
    ASSUME audit \in [AuditJobs -> AuditRows], NEW k
    PROVE  /\ Numbers(HeldOf(k), AuditJobs) /\ Numbers(SpentOf(k), AuditJobs)
           /\ \A j \in AuditJobs : HeldOf(k)[j] \in Nat /\ SpentOf(k)[j] \in Nat
BY DEF HeldOf, SpentOf, Numbers, AuditRows

LEMMA ShareTypedNext ==
    ASSUME audit' \in [AuditJobs -> AuditRows], NEW k
    PROVE  /\ Numbers(HeldOf(k)', AuditJobs) /\ Numbers(SpentOf(k)', AuditJobs)
           /\ \A j \in AuditJobs : HeldOf(k)'[j] \in Nat /\ SpentOf(k)'[j] \in Nat
BY DEF HeldOf, SpentOf, Numbers, AuditRows

\* One audit changes: the sums follow.
LEMMA SharesMove ==
    ASSUME audit \in [AuditJobs -> AuditRows], audit' \in [AuditJobs -> AuditRows],
           NEW j \in AuditJobs, \A i \in AuditJobs \ {j} : audit'[i] = audit[i], NEW k
    PROVE  /\ SumOf(HeldOf(k), AuditJobs) \in Nat /\ SumOf(SpentOf(k), AuditJobs) \in Nat
           /\ SumOf(HeldOf(k)', AuditJobs)
                = SumOf(HeldOf(k), AuditJobs) + HeldOf(k)'[j] - HeldOf(k)[j]
           /\ SumOf(SpentOf(k)', AuditJobs)
                = SumOf(SpentOf(k), AuditJobs) + SpentOf(k)'[j] - SpentOf(k)[j]
<1> DEFINE f == HeldOf(k)
           h == HeldOf(k)'
           u == SpentOf(k)
           v == SpentOf(k)'
<1>1. /\ Numbers(f, AuditJobs) /\ Numbers(h, AuditJobs) /\ Numbers(u, AuditJobs) /\ Numbers(v, AuditJobs)
      /\ \A i \in AuditJobs : f[i] \in Nat /\ u[i] \in Nat
  BY ShareTyped, ShareTypedNext
<1>2. \A i \in AuditJobs \ {j} : h[i] = f[i] /\ v[i] = u[i]
  BY DEF HeldOf, SpentOf, Holds
<1>3. SumOf(f, AuditJobs) \in Nat /\ SumOf(u, AuditJobs) \in Nat
  <2> HIDE DEF f, u
  <2> QED
    BY <1>1, SumNat
<1>4. /\ SumOf(h, AuditJobs) = SumOf(f, AuditJobs) + h[j] - f[j]
      /\ SumOf(v, AuditJobs) = SumOf(u, AuditJobs) + v[j] - u[j]
  <2> HIDE DEF f, h, u, v
  <2>1. SumOf(h, AuditJobs) = SumOf(f, AuditJobs) + h[j] - f[j]
    BY <1>1, <1>2, SumChange
  <2>2. SumOf(v, AuditJobs) = SumOf(u, AuditJobs) + v[j] - u[j]
    BY <1>1, <1>2, SumChange
  <2> QED
    BY <2>1, <2>2
<1> QED
  BY <1>3, <1>4

LEMMA AuditStarts == AuditInit => AuditInv
<1> SUFFICES ASSUME AuditInit PROVE AuditInv
  OBVIOUS
<1>1. NoAudit \in AuditRows /\ NoAudit.status = "none" /\ NoAudit.actual = 0
  BY DEF NoAudit, AuditRows, Hours
<1>2. DOMAIN counter = {} /\ counter \in [DOMAIN counter -> CounterRows]
  BY DEF AuditInit
<1>3. audit \in [AuditJobs -> AuditRows] /\ \A j \in AuditJobs : audit[j] = NoAudit
  BY <1>1 DEF AuditInit
<1> QED
  BY <1>1, <1>2, <1>3 DEF AuditInit, AuditInv, JobOK, Hours

\* A step that leaves budgets and audits alone.
LEMMA NothingMoves ==
    ASSUME AuditInv, UNCHANGED <<audit, counter>>, hour' \in Hours,
           terminal' \in [AuditJobs -> {"none", "unreserved", "demand", "audit"}],
           \A j \in AuditJobs : /\ j \in demand' => j \in demand \/ audit[j].status = "none"
                                /\ terminal'[j] = terminal[j] \/ (terminal[j] # "audit" /\ terminal'[j] # "audit")
    PROVE  AuditInv'
<1>1. \A k \in DOMAIN counter' : CounterExact(k)'
  BY DEF AuditInv, CounterExact, HeldOf, SpentOf, Holds
<1>2. \A j \in AuditJobs : JobOK(j)'
  BY DEF AuditInv, JobOK
<1> QED
  BY <1>1, <1>2 DEF AuditInv

LEMMA ReserveAuditStep ==
    ASSUME AuditInv, NEW j \in AuditJobs, NEW units \in AuditUnits, NEW cap \in HourlyCaps,
           ReserveAudit(j, units, cap)
    PROVE  AuditInv'
<1>0. PICK h \in Hours : h = hour
  BY DEF AuditInv
<1> DEFINE new == [status |-> "held", hour |-> h, units |-> units, actual |-> 0]
           Its == CountersIn(h, j)
<1>1. /\ audit[j].status = "none" /\ j \notin demand
      /\ \A k \in Its : Opened(k, cap).reserved + Opened(k, cap).spent + units <= Opened(k, cap).cap
      /\ counter' = [k \in DOMAIN counter \union Its |->
           IF k \in Its THEN [Opened(k, cap) EXCEPT !.reserved = @ + units] ELSE counter[k]]
      /\ audit' = [audit EXCEPT ![j] = new]
      /\ UNCHANGED <<hour, demand, terminal>>
  BY <1>0 DEF ReserveAudit
<1>2. new \in AuditRows /\ new.status = "held" /\ new.hour = h /\ new.units = units /\ new.actual = 0
      /\ units \in Nat /\ cap \in Nat
  BY CapsAreNat DEF AuditRows
<1> HIDE DEF new, Its
<1>3. audit' \in [AuditJobs -> AuditRows] /\ audit'[j] = new /\ \A i \in AuditJobs \ {j} : audit'[i] = audit[i]
  BY <1>1, <1>2 DEF AuditInv
<1>4. \A k : Opened(k, cap) \in CounterRows
  BY <1>2, AuditTypes DEF Opened, CounterRows
<1>5. \A k \in Its : /\ counter'[k] \in CounterRows
                      /\ counter'[k].reserved = Opened(k, cap).reserved + units
                      /\ counter'[k].spent = Opened(k, cap).spent /\ counter'[k].cap = Opened(k, cap).cap
  BY <1>1, <1>2, <1>4 DEF CounterRows
<1>6. DOMAIN counter' = DOMAIN counter \union Its
      /\ \A k \in DOMAIN counter \ Its : counter'[k] = counter[k]
  BY <1>1
<1>7. counter' \in [DOMAIN counter' -> CounterRows]
  <2>1. \A k \in DOMAIN counter' : counter'[k] \in CounterRows
    BY <1>5, <1>6, AuditTypes
  <2>2. counter' = [k \in DOMAIN counter' |-> counter'[k]]
    BY <1>1
  <2> QED
    BY <2>1, <2>2
<1>8. ASSUME NEW k \in DOMAIN counter' PROVE CounterExact(k)'
  <2>1. /\ SumOf(HeldOf(k), AuditJobs) \in Nat /\ SumOf(SpentOf(k), AuditJobs) \in Nat
        /\ SumOf(HeldOf(k)', AuditJobs) = SumOf(HeldOf(k), AuditJobs) + HeldOf(k)'[j] - HeldOf(k)[j]
        /\ SumOf(SpentOf(k)', AuditJobs) = SumOf(SpentOf(k), AuditJobs) + SpentOf(k)'[j] - SpentOf(k)[j]
    BY <1>3, SharesMove DEF AuditInv
  <2>2. /\ HeldOf(k)[j] = 0 /\ SpentOf(k)[j] = 0 /\ SpentOf(k)'[j] = 0
        /\ HeldOf(k)'[j] = IF k \in Its THEN units ELSE 0
    BY <1>1, <1>2, <1>3, AuditTypes DEF AuditInv, JobOK, HeldOf, SpentOf, Holds, Its
  <2>3. CASE k \notin Its
    <3>1. k \in DOMAIN counter /\ counter'[k] = counter[k]
      BY <1>6, <2>3
    <3> QED
      BY <2>1, <2>2, <2>3, <3>1, AuditTypes DEF AuditInv, CounterExact
  <2>4. CASE k \in Its
    <3>1. /\ Opened(k, cap).reserved = SumOf(HeldOf(k), AuditJobs)
          /\ Opened(k, cap).spent = SumOf(SpentOf(k), AuditJobs)
      <4>1. CASE k \in DOMAIN counter
        BY <4>1 DEF AuditInv, CounterExact, Opened
      <4>2. CASE k \notin DOMAIN counter
        <5>1. \A i \in AuditJobs : HeldOf(k)[i] = 0 /\ SpentOf(k)[i] = 0
          BY <4>2 DEF AuditInv, JobOK, HeldOf, SpentOf, Holds
        <5>2. SumOf(HeldOf(k), AuditJobs) = 0 /\ SumOf(SpentOf(k), AuditJobs) = 0
          BY <5>1, SumZero
        <5> QED
          BY <4>2, <5>2 DEF Opened
      <4> QED
        BY <4>1, <4>2
    <3>2. Opened(k, cap).reserved + Opened(k, cap).spent + units <= Opened(k, cap).cap
      BY <1>1, <2>4
    <3> QED
      BY <1>2, <1>4, <1>5, <2>1, <2>2, <2>4, <3>1, <3>2 DEF CounterExact, CounterRows
  <2> QED
    BY <2>3, <2>4
<1>9. \A i \in AuditJobs : JobOK(i)'
  BY <1>1, <1>2, <1>3, <1>6 DEF AuditInv, JobOK, Its
<1> QED
  BY <1>1, <1>3, <1>7, <1>8, <1>9 DEF AuditInv

\* A held audit gives back what it holds, and keeps what it was paid for.
LEMMA HoldReturns ==
    ASSUME AuditInv, NEW j \in AuditJobs, audit[j].status = "held", NEW actual \in Nat,
           actual <= audit[j].units, Returned(j, actual), UNCHANGED <<hour, demand>>,
           NEW new \in AuditRows, audit' = [audit EXCEPT ![j] = new],
           new.hour = audit[j].hour, new.actual = actual,
           IF new.status = "settled" THEN terminal' = [terminal EXCEPT ![j] = "audit"]
           ELSE new.status = "released" /\ actual = 0 /\ terminal' = terminal
    PROVE  AuditInv'
<1> DEFINE Its == CountersIn(audit[j].hour, j)
<1>1. audit' \in [AuditJobs -> AuditRows] /\ audit'[j] = new /\ \A i \in AuditJobs \ {j} : audit'[i] = audit[i]
  BY DEF AuditInv
<1>2. audit[j].units \in Nat /\ audit[j].actual = 0
  BY AuditTypes DEF AuditInv, JobOK
<1>3. /\ DOMAIN counter' = DOMAIN counter
      /\ \A k \in DOMAIN counter \ Its : counter'[k] = counter[k]
      /\ \A k \in DOMAIN counter \intersect Its :
           counter'[k] = [cap |-> counter[k].cap, reserved |-> counter[k].reserved - audit[j].units,
                          spent |-> counter[k].spent + actual]
  BY DEF Returned
<1>4. \A k \in DOMAIN counter \intersect Its :
        /\ counter'[k].reserved = counter[k].reserved - audit[j].units
        /\ counter'[k].spent = counter[k].spent + actual
        /\ counter'[k].cap = counter[k].cap
        /\ counter'[k].reserved \in Nat => counter'[k] \in CounterRows
  BY <1>3, AuditTypes DEF CounterRows
<1>5. ASSUME NEW k \in DOMAIN counter
      PROVE  /\ SumOf(HeldOf(k), AuditJobs) \in Nat /\ SumOf(SpentOf(k), AuditJobs) \in Nat
             /\ SumOf(HeldOf(k)', AuditJobs)
                  = SumOf(HeldOf(k), AuditJobs) - (IF k \in Its THEN audit[j].units ELSE 0)
             /\ SumOf(SpentOf(k)', AuditJobs)
                  = SumOf(SpentOf(k), AuditJobs) + (IF k \in Its THEN actual ELSE 0)
             /\ k \in Its => audit[j].units <= SumOf(HeldOf(k), AuditJobs)
  <2>1. /\ SumOf(HeldOf(k), AuditJobs) \in Nat /\ SumOf(SpentOf(k), AuditJobs) \in Nat
        /\ SumOf(HeldOf(k)', AuditJobs) = SumOf(HeldOf(k), AuditJobs) + HeldOf(k)'[j] - HeldOf(k)[j]
        /\ SumOf(SpentOf(k)', AuditJobs) = SumOf(SpentOf(k), AuditJobs) + SpentOf(k)'[j] - SpentOf(k)[j]
    BY <1>1, SharesMove DEF AuditInv
  <2>2. HeldOf(k)[j] = (IF k \in Its THEN audit[j].units ELSE 0) /\ HeldOf(k)'[j] = 0
    BY <1>1 DEF HeldOf, Holds
  <2>3. SpentOf(k)[j] = 0 /\ SpentOf(k)'[j] = (IF k \in Its THEN actual ELSE 0)
    BY <1>1, <1>2 DEF SpentOf
  <2>4. HeldOf(k)[j] <= SumOf(HeldOf(k), AuditJobs)
    <3> DEFINE f == HeldOf(k)
    <3>1. \A i \in AuditJobs : f[i] \in Nat
      BY ShareTyped DEF AuditInv
    <3>2. f[j] <= SumOf(f, AuditJobs)
      <4> HIDE DEF f
      <4> QED
        BY <3>1, SumNat
    <3> QED
      BY <3>2
  <2> HIDE DEF Its
  <2> QED
    BY <1>2, <2>1, <2>2, <2>3, <2>4
<1>6. \A k \in DOMAIN counter \intersect Its : counter'[k] \in CounterRows
  <2>1. \A k \in DOMAIN counter : counter[k].reserved = SumOf(HeldOf(k), AuditJobs)
    BY DEF AuditInv, CounterExact
  <2> HIDE DEF Its
  <2> QED
    BY <1>2, <1>4, <1>5, <2>1
<1>7. counter' \in [DOMAIN counter' -> CounterRows]
  <2>1. \A k \in DOMAIN counter' : counter'[k] \in CounterRows
    BY <1>3, <1>6, AuditTypes
  <2>2. counter' = [k \in DOMAIN counter' |-> counter'[k]]
    BY DEF Returned
  <2> QED
    BY <2>1, <2>2
<1>8. ASSUME NEW k \in DOMAIN counter' PROVE CounterExact(k)'
  <2>1. k \in DOMAIN counter /\ CounterExact(k)
    BY <1>3 DEF AuditInv
  <2> HIDE DEF Its
  <2> QED
    BY <1>2, <1>3, <1>4, <1>5, <2>1, AuditTypes DEF CounterExact
<1>9. \A i \in AuditJobs : JobOK(i)'
  <2>1. terminal' \in [AuditJobs -> {"none", "unreserved", "demand", "audit"}]
        /\ \A i \in AuditJobs \ {j} : terminal'[i] = terminal[i]
    BY DEF AuditInv
  <2>2. ASSUME NEW i \in AuditJobs \ {j} PROVE JobOK(i)'
    BY <1>1, <1>3, <2>1 DEF AuditInv, JobOK
  <2>3. JobOK(j)'
    BY <1>1, <1>2, <1>3, <2>1 DEF AuditInv, JobOK
  <2> QED
    BY <2>2, <2>3
<1> QED
  BY <1>1, <1>7, <1>8, <1>9 DEF AuditInv

LEMMA ReleaseHeld ==
    ASSUME AuditInv, NEW j \in AuditJobs, audit[j].status = "held",
           Close(j, "released"), Returned(j, 0), UNCHANGED <<hour, demand, terminal>>
    PROVE  AuditInv'
<1> DEFINE new == [audit[j] EXCEPT !.status = "released"]
<1>1. /\ new \in AuditRows /\ new.status = "released" /\ new.hour = audit[j].hour
      /\ new.units = audit[j].units /\ new.actual = audit[j].actual
  BY AuditTypes DEF AuditRows
<1>2. audit' = [audit EXCEPT ![j] = new]
  BY DEF Close
<1>3. audit[j].actual = 0 /\ 0 <= audit[j].units
  BY AuditTypes DEF AuditInv, JobOK
<1> HIDE DEF new
<1>4. IF new.status = "settled" THEN terminal' = [terminal EXCEPT ![j] = "audit"]
      ELSE new.status = "released" /\ 0 = 0 /\ terminal' = terminal
  BY <1>1
<1>5. Returned(j, 0) /\ UNCHANGED <<hour, demand>> /\ 0 \in Nat /\ new.actual = 0 /\ new.hour = audit[j].hour
  BY <1>1, <1>3
<1> QED
  BY <1>1, <1>2, <1>3, <1>4, <1>5, HoldReturns, Zenon

LEMMA AuditTerminalStep ==
    ASSUME AuditInv, NEW j \in AuditJobs, NEW actual \in 1..TopUnits, AuditTerminal(j, actual)
    PROVE  AuditInv'
<1> DEFINE new == [status |-> "settled", hour |-> audit[j].hour, units |-> audit[j].units,
                   actual |-> actual]
<1>0. actual \in Nat
  BY CapsAreNat
<1>1. /\ new \in AuditRows /\ new.status = "settled" /\ new.hour = audit[j].hour
      /\ new.units = audit[j].units /\ new.actual = actual
  BY <1>0, AuditTypes DEF AuditRows
<1>3. audit' = [audit EXCEPT ![j] = new]
  <2>1. audit' = [audit EXCEPT ![j].status = "settled", ![j].actual = actual]
    BY DEF AuditTerminal
  <2>2. \A i \in AuditJobs \ {j} : audit'[i] = audit[i]
    BY <2>1 DEF AuditInv
  <2>3. audit'[j] = new
    BY <2>1, AuditTypes DEF AuditInv, AuditRows
  <2>4. audit' \in [AuditJobs -> AuditRows]
    <3> HIDE DEF new
    <3>1. DOMAIN audit' = AuditJobs /\ audit' = [i \in AuditJobs |-> audit'[i]]
      BY <2>1 DEF AuditInv
    <3>2. \A i \in AuditJobs : audit'[i] \in AuditRows
      BY <1>1, <2>2, <2>3, AuditTypes
    <3> QED
      BY <3>1, <3>2
  <2> HIDE DEF new
  <2> QED
    BY <2>2, <2>3, <2>4 DEF AuditInv
<1>2. /\ terminal' = [terminal EXCEPT ![j] = "audit"]
      /\ Returned(j, actual) /\ audit[j].status = "held" /\ actual <= audit[j].units
      /\ UNCHANGED <<hour, demand>>
  BY DEF AuditTerminal
<1> HIDE DEF new
<1> QED
  BY <1>0, <1>1, <1>2, <1>3, HoldReturns

\* A held audit goes to review with its hold.
LEMMA ReviewHeld ==
    ASSUME AuditInv, NEW j \in AuditJobs, audit[j].status = "held",
           Close(j, "manual_review"), UNCHANGED <<hour, counter, demand, terminal>>
    PROVE  AuditInv'
<1> DEFINE new == [audit[j] EXCEPT !.status = "manual_review"]
<1>1. /\ new \in AuditRows /\ new.status = "manual_review" /\ new.hour = audit[j].hour
      /\ new.units = audit[j].units /\ new.actual = audit[j].actual
  BY AuditTypes DEF AuditRows
<1>2. audit' = [audit EXCEPT ![j] = new]
  BY DEF Close
<1> HIDE DEF new
<1>3. audit' \in [AuditJobs -> AuditRows] /\ audit'[j] = new /\ \A i \in AuditJobs \ {j} : audit'[i] = audit[i]
  BY <1>1, <1>2 DEF AuditInv
<1>4. ASSUME NEW k \in DOMAIN counter' PROVE CounterExact(k)'
  <2>1. HeldOf(k)' = HeldOf(k) /\ SpentOf(k)' = SpentOf(k)
    BY <1>1, <1>3 DEF HeldOf, SpentOf, Holds
  <2> QED
    BY <2>1 DEF AuditInv, CounterExact
<1>5. \A i \in AuditJobs : JobOK(i)'
  BY <1>1, <1>3 DEF AuditInv, JobOK
<1> QED
  BY <1>3, <1>4, <1>5 DEF AuditInv

LEMMA SweepAuditStep ==
    ASSUME AuditInv, NEW j \in AuditJobs, SweepAudit(j)
    PROVE  AuditInv'
<1>1. UNCHANGED <<hour, demand, terminal>>
  BY DEF SweepAudit
<1>2. CASE ~StillHeld(j)
  BY <1>1, <1>2, NothingMoves DEF SweepAudit, AuditInv
<1>3. CASE StillHeld(j) /\ terminal[j] # "none"
  BY <1>1, <1>3, ReviewHeld DEF SweepAudit, StillHeld
<1>4. CASE StillHeld(j) /\ terminal[j] = "none"
  BY <1>1, <1>4, ReleaseHeld DEF SweepAudit, StillHeld
<1> QED
  BY <1>2, <1>3, <1>4

LEMMA ReconcileDuplicateStep ==
    ASSUME AuditInv, NEW j \in AuditJobs, ReconcileDuplicate(j)
    PROVE  AuditInv'
<1>1. UNCHANGED <<hour, counter, demand, terminal>>
  BY DEF ReconcileDuplicate
<1>2. CASE audit[j].status = "held"
  BY <1>1, <1>2, ReviewHeld DEF ReconcileDuplicate
<1>3. CASE audit[j].status # "held"
  BY <1>1, <1>3, NothingMoves DEF ReconcileDuplicate, AuditInv
<1> QED
  BY <1>2, <1>3

LEMMA OtherSteps ==
    ASSUME AuditInv, NEW j \in AuditJobs,
           ReserveDemand(j) \/ OtherTerminal(j) \/ DuplicateTerminal(j) \/ AuditExpires(j)
    PROVE  AuditInv'
<1>1. UNCHANGED <<hour, audit, counter>>
  BY DEF ReserveDemand, OtherTerminal, DuplicateTerminal, AuditExpires
<1>2. /\ terminal' \in [AuditJobs -> {"none", "unreserved", "demand", "audit"}]
      /\ \A i \in AuditJobs :
           terminal'[i] = terminal[i] \/ (terminal[i] # "audit" /\ terminal'[i] # "audit")
  <2>1. CASE OtherTerminal(j)
    BY <2>1 DEF AuditInv, OtherTerminal
  <2>2. CASE terminal' = terminal
    BY <2>2 DEF AuditInv
  <2> QED
    BY <2>1, <2>2 DEF ReserveDemand, DuplicateTerminal, AuditExpires
<1>3. \A i \in AuditJobs : i \in demand' => i \in demand \/ audit[i].status = "none"
  BY DEF ReserveDemand, OtherTerminal, DuplicateTerminal, AuditExpires
<1> QED
  BY <1>1, <1>2, <1>3, NothingMoves DEF AuditInv

LEMMA AuditStep == AuditInv /\ [AuditNext]_auditVars => AuditInv'
<1> SUFFICES ASSUME AuditInv, [AuditNext]_auditVars PROVE AuditInv'
  OBVIOUS
<1>1. CASE ListExpired \/ SweepStops \/ NextHour \/ UNCHANGED auditVars
  <2>1. UNCHANGED <<audit, counter, demand, terminal>> /\ hour' \in Hours
    BY <1>1 DEF ListExpired, SweepStops, NextHour, auditVars, AuditInv, Hours
  <2> QED
    BY <2>1, NothingMoves DEF AuditInv
<1>2. ASSUME NEW j \in AuditJobs, ReleaseAudit(j) PROVE AuditInv'
  BY <1>2, ReleaseHeld DEF ReleaseAudit
<1>3. ASSUME NEW j \in AuditJobs,
             \/ \E units \in AuditUnits, cap \in HourlyCaps : ReserveAudit(j, units, cap)
             \/ \E actual \in 1..TopUnits : AuditTerminal(j, actual)
             \/ ReserveDemand(j) \/ OtherTerminal(j) \/ DuplicateTerminal(j)
             \/ ReconcileDuplicate(j) \/ ReleaseAudit(j) \/ AuditExpires(j) \/ SweepAudit(j)
      PROVE  AuditInv'
  BY <1>2, <1>3, ReserveAuditStep, AuditTerminalStep, OtherSteps, ReconcileDuplicateStep, SweepAuditStep
<1> QED
  BY <1>1, <1>3 DEF AuditNext

\* The sums of the property run over the jobs that hold or have spent.
LEMMA SumsAgree ==
    ASSUME AuditInv, NEW k
    PROVE  /\ UnitsIn(k, {"held", "manual_review"}) = SumOf(HeldOf(k), AuditJobs)
           /\ SpentIn(k) = SumOf(SpentOf(k), AuditJobs)
<1>0. Numbers(HeldOf(k), AuditJobs) /\ Numbers(SpentOf(k), AuditJobs)
  BY ShareTyped DEF AuditInv
<1>1. UnitsIn(k, {"held", "manual_review"}) = SumOf(HeldOf(k), AuditJobs)
  <2> DEFINE T == {j \in AuditJobs : /\ audit[j].status \in {"held", "manual_review"}
                                     /\ k \in CountersIn(audit[j].hour, j)}
             g == [j \in T |-> audit[j].units]
  <2>1. IsFiniteSet(T) /\ T \in SUBSET AuditJobs /\ \A j \in T : audit[j].units \in Int
    BY FS_Subset, AuditTypes
  <2>2. (\A j \in T : g[j] = HeldOf(k)[j]) /\ \A j \in AuditJobs \ T : HeldOf(k)[j] = 0
    BY DEF HeldOf, Holds
  <2>3. SumOf(HeldOf(k), AuditJobs) = SumOf(g, T)
    <3> HIDE DEF T, g
    <3>1. SumOf(HeldOf(k), AuditJobs) = SumOf(HeldOf(k), T)
      BY <1>0, <2>1, <2>2, SumRest
    <3>2. Numbers(HeldOf(k), T)
      BY <1>0, <2>1 DEF Numbers
    <3> QED
      BY <2>1, <2>2, <3>1, <3>2, SumAlike
  <2>4. MapThenSumSet(LAMBDA j : audit[j].units, T) = SumOf(g, T)
    <3> HIDE DEF T
    <3> QED
      BY <2>1, UnitsSum
  <2> QED
    BY <2>3, <2>4 DEF UnitsIn, MapThenSumSet, MapThenFoldSet
<1>2. SpentIn(k) = SumOf(SpentOf(k), AuditJobs)
  <2> DEFINE T == {j \in AuditJobs : audit[j].actual > 0 /\ k \in CountersIn(audit[j].hour, j)}
             g == [j \in T |-> audit[j].actual]
  <2>1. IsFiniteSet(T) /\ T \in SUBSET AuditJobs /\ \A j \in T : audit[j].actual \in Int
    BY FS_Subset, AuditTypes
  <2>2. (\A j \in T : g[j] = SpentOf(k)[j]) /\ \A j \in AuditJobs \ T : SpentOf(k)[j] = 0
    BY DEF SpentOf
  <2>3. SumOf(SpentOf(k), AuditJobs) = SumOf(g, T)
    <3> HIDE DEF T, g
    <3>1. SumOf(SpentOf(k), AuditJobs) = SumOf(SpentOf(k), T)
      BY <1>0, <2>1, <2>2, SumRest
    <3>2. Numbers(SpentOf(k), T)
      BY <1>0, <2>1 DEF Numbers
    <3> QED
      BY <2>1, <2>2, <3>1, <3>2, SumAlike
  <2>4. MapThenSumSet(LAMBDA j : audit[j].actual, T) = SumOf(g, T)
    <3> HIDE DEF T
    <3> QED
      BY <2>1, ActualSum
  <2> QED
    BY <2>3, <2>4 DEF SpentIn, MapThenSumSet, MapThenFoldSet
<1> QED
  BY <1>1, <1>2

LEMMA AuditSafe == AuditInv => AuditsAccounted
BY SumsAgree DEF AuditInv, AuditsAccounted, CounterExact, JobOK

(***************************************************************************)
(* Each budget counter is what its audits hold and have spent, within its  *)
(* cap, and an audit is paid as one exactly when it was settled: for any   *)
(* number of jobs, workers, hours and caps.                                *)
(***************************************************************************)
THEOREM AuditBudgetsAreExact == AuditSpec => []AuditsAccounted
<1> QED
  BY AuditStarts, AuditStep, AuditSafe, PTL DEF AuditSpec

HIDE AuditAssumption

-----------------------------------------------------------------------------
(* Validator campaigns. *)

USE CampaignAssumption

\* What a member is worth beside those that were kept before it.
Joins(c, kept, n) ==
    /\ Eligible(c, n)
    /\ \A k \in kept : Paired(k) # Paired(n)
    /\ Cardinality({k \in kept : report[k].operator = report[n].operator
                                 /\ report[k].at = report[n].at}) < DailyUnits

\* Reports a campaign may claim together.
Together(c, K) ==
    /\ \A n \in K : Eligible(c, n)
    /\ \A m, n \in K : m # n => Paired(m) # Paired(n)

LEMMA IncludedTogether ==
    ASSUME NEW c, Len(report) \in Nat
    PROVE  Included(c) \subseteq 1..Len(report) /\ Together(c, Included(c))
<1> DEFINE S == 1..Len(report)
           ok == [kept \in SUBSET S |-> [n \in S |-> Joins(c, kept, n)]]
           all == [n \in 1..Len(report) |-> n]
           Iter(k) == k = [s \in SUBSET DOMAIN all |-> IF s = {} THEN {}
                              ELSE LET x == Max(s) IN
                                   IF Joins(c, k[s \ {x}], all[x]) THEN k[s \ {x}] \union {all[x]}
                                   ELSE k[s \ {x}]]
           it == CHOOSE k : Iter(k)
<1>1. Integers(S) /\ IsFiniteSet(S) /\ S \in SUBSET S
  BY FS_Interval DEF Integers
<1>2. \A s \in SUBSET S : s # {} => Max(s) \in s
  <2> HIDE DEF S
  <2> QED
    BY <1>1, MaxIn
<1>10. DOMAIN all = S /\ \A s \in SUBSET S : s # {} => all[Max(s)] = Max(s)
  BY <1>2
<1>3. \E k : Iter(k)
  <2>1. PICK k \in [SUBSET S -> SUBSET S] : Chooses(k, ok, S)
    <3> HIDE DEF S, ok
    <3> QED
      BY <1>1, ChoosesExists
  <2>2. ASSUME NEW s \in SUBSET S, s # {}
        PROVE  ok[k[s \ {Max(s)}]][Max(s)] = Joins(c, k[s \ {Max(s)}], Max(s))
    BY <1>2, <2>1, <2>2
  <2>3. Iter(k)
    <3> HIDE DEF S, ok, all
    <3>1. ASSUME NEW s \in SUBSET S
          PROVE  k[s] = IF s = {} THEN {}
                        ELSE LET x == Max(s) IN
                             IF Joins(c, k[s \ {x}], all[x]) THEN k[s \ {x}] \union {all[x]}
                             ELSE k[s \ {x}]
      <4>1. CASE s = {}
        BY <2>1, <4>1 DEF Chooses
      <4>2. CASE s # {}
        <5>1. k[s] = Taken(ok, k[s \ {Max(s)}], Max(s)) /\ all[Max(s)] = Max(s)
          BY <2>1, <1>10, <4>2 DEF Chooses
        <5>2. ok[k[s \ {Max(s)}]][Max(s)] = Joins(c, k[s \ {Max(s)}], Max(s))
          BY <2>2, <4>2
        <5> QED
          BY <4>2, <5>1, <5>2 DEF Taken
      <4> QED
        BY <4>1, <4>2
    <3>2. k = [s \in SUBSET DOMAIN all |-> k[s]]
      BY <2>1, <1>10
    <3> QED
      BY <1>10, <3>1, <3>2
  <2> HIDE DEF Iter
  <2> QED
    BY <2>3
<1>4. Iter(it)
  <2> HIDE DEF Iter
  <2> QED
    BY <1>3
<1>9. Included(c) = it[DOMAIN all]
  BY DEF Included, FoldLeft, MapThenFoldSet, Joins
<1> HIDE DEF it, ok, all
<1>5. Included(c) = it[S]
  BY <1>9, <1>10
<1>11. \A s \in SUBSET DOMAIN all :
         it[s] = IF s = {} THEN {}
                 ELSE LET x == Max(s) IN
                      IF Joins(c, it[s \ {x}], all[x]) THEN it[s \ {x}] \union {all[x]} ELSE it[s \ {x}]
  BY <1>4
<1> HIDE DEF Iter
<1> DEFINE Fine(t) == it[t] \subseteq t /\ Together(c, it[t])
           C == {t \in SUBSET S : ~Fine(t)}
<1>6. ASSUME C # {} PROVE FALSE
  <2>1. PICK t \in C : \A v \in C : v \subseteq t => v = t
    <3>1. C \in SUBSET (SUBSET S)
      OBVIOUS
    <3> HIDE DEF C, S
    <3> QED
      BY <1>1, <1>6, <3>1, LeastSubset
  <2>2. t # {}
    <3>1. it[{}] = {}
      BY <1>11, <1>10
    <3> QED
      BY <3>1 DEF Together
  <2> DEFINE x == Max(t)
             r == t \ {x}
  <2>3. x \in t /\ r \in SUBSET S /\ r \subseteq t /\ r # t
    BY <1>2, <2>2
  <2>4. Fine(r)
    BY <2>1, <2>3
  <2>5. it[t] = IF Joins(c, it[r], x) THEN it[r] \union {x} ELSE it[r]
    <3>1. t \in SUBSET DOMAIN all /\ all[x] = x
      BY <1>10, <2>1, <2>2
    <3> HIDE DEF S, C
    <3> QED
      <4>1. it[t] = IF t = {} THEN {}
                    ELSE IF Joins(c, it[r], all[x]) THEN it[r] \union {all[x]} ELSE it[r]
        BY <1>11, <3>1, Zenon
      <4> HIDE DEF x, r
      <4> QED
        BY <2>2, <3>1, <4>1
  <2> HIDE DEF x, r, S
  <2>6. it[t] \subseteq t
    BY <2>3, <2>4, <2>5
  <2>7. Together(c, it[t])
    BY <2>4, <2>5 DEF Together, Joins
  <2> QED
    BY <2>1, <2>6, <2>7
<1>7. Fine(S)
  <2> HIDE DEF Fine, S
  <2> QED
    BY <1>1, <1>6
<1> QED
  BY <1>5, <1>7

-----------------------------------------------------------------------------
\* The sum of the budgets of some contracts.
LEMMA BudgetSum ==
    ASSUME NEW T, IsFiniteSet(T), \A c \in T : c.budget \in Int
    PROVE  MapThenSumSet(LAMBDA c : c.budget, T) = SumOf([c \in T |-> c.budget], T)
<1> DEFINE f == [c \in T |-> c.budget]
           Iter(k) == k = [s \in SUBSET T |-> IF s = {} THEN 0
                              ELSE LET x == CHOOSE x \in s : TRUE IN x.budget + k[s \ {x}]]
           it == CHOOSE k : Iter(k)
<1>1. \A s \in SUBSET T : s # {} => Pick(s) \in T /\ f[Pick(s)] = Pick(s).budget
  BY PickIn
<1>2. \E k : Iter(k)
  <2>0. Numbers(f, T)
    BY DEF Numbers
  <2>1. PICK k \in [SUBSET T -> Int] : Adds(k, f, T)
    BY <2>0, AddsExists
  <2>2. Iter(k)
    BY <1>1, <2>1 DEF Adds, Pick
  <2> HIDE DEF Iter
  <2> QED
    BY <2>2
<1>3. Iter(it)
  <2> HIDE DEF Iter
  <2> QED
    BY <1>2
<1>4. MapThenSumSet(LAMBDA c : c.budget, T) = it[T]
  BY DEF MapThenSumSet, MapThenFoldSet
<1>5. Adds(it, f, T)
  <2>1. \A s \in SUBSET T : it[s] = IF s = {} THEN 0 ELSE Pick(s).budget + it[s \ {Pick(s)}]
    <3> HIDE DEF it
    <3> QED
      BY <1>3 DEF Pick
  <2> HIDE DEF it, f
  <2> QED
    BY <1>1, <2>1 DEF Adds
<1>6. SumOf(f, T) = it[T]
  <2>1. Numbers(f, T)
    BY DEF Numbers
  <2> HIDE DEF it, f
  <2> QED
    BY <1>5, <2>1, SumIs
<1> QED
  BY <1>4, <1>6

\* The sum of what some campaigns have allocated.
LEMMA PaidSum ==
    ASSUME NEW T, IsFiniteSet(T), \A c \in T : PaidBy(c) \in Int
    PROVE  MapThenSumSet(PaidBy, T) = SumOf([c \in T |-> PaidBy(c)], T)
<1> DEFINE f == [c \in T |-> PaidBy(c)]
           Iter(k) == k = [s \in SUBSET T |-> IF s = {} THEN 0
                              ELSE LET x == CHOOSE x \in s : TRUE IN PaidBy(x) + k[s \ {x}]]
           it == CHOOSE k : Iter(k)
<1>1. \A s \in SUBSET T : s # {} => Pick(s) \in T /\ f[Pick(s)] = PaidBy(Pick(s))
  BY PickIn
<1>2. \E k : Iter(k)
  <2>0. Numbers(f, T)
    BY DEF Numbers
  <2>1. PICK k \in [SUBSET T -> Int] : Adds(k, f, T)
    BY <2>0, AddsExists
  <2>2. Iter(k)
    BY <1>1, <2>1 DEF Adds, Pick
  <2> HIDE DEF Iter
  <2> QED
    BY <2>2
<1>3. Iter(it)
  <2> HIDE DEF Iter
  <2> QED
    BY <1>2
<1>4. MapThenSumSet(PaidBy, T) = it[T]
  BY DEF MapThenSumSet, MapThenFoldSet
<1>5. Adds(it, f, T)
  <2>1. \A s \in SUBSET T : it[s] = IF s = {} THEN 0 ELSE PaidBy(Pick(s)) + it[s \ {Pick(s)}]
    <3> HIDE DEF it
    <3> QED
      BY <1>3 DEF Pick
  <2> HIDE DEF it, f
  <2> QED
    BY <1>1, <2>1 DEF Adds
<1>6. SumOf(f, T) = it[T]
  <2>1. Numbers(f, T)
    BY DEF Numbers
  <2> HIDE DEF it, f
  <2> QED
    BY <1>5, <2>1, SumIs
<1> QED
  BY <1>4, <1>6

-----------------------------------------------------------------------------
Reports == [operator : Members, group : ProbeGroups, at : Moments]
Children(p) == {s \in Created : s.parent = p.id}
BudgetsOf(T) == SumOf([c \in T |-> c.budget], T)

\* An allocation within what the members of a campaign can draw.
PaidOK(c, paid) ==
    /\ IsFiniteSet(DOMAIN paid) /\ \A o \in DOMAIN paid : paid[o] \in Nat
    /\ SumOf(paid, DOMAIN paid) <= Maximum(c)

\* Members are paid, and each within the cap.
InCaps(c, paid) == DOMAIN paid \subseteq c.members /\ \A o \in DOMAIN paid : paid[o] \in 0..c.cap

FamilyOK(p) == p.parent = NoParent =>
    Children(p) = {} \/ Maximum(p) + BudgetsOf(Children(p)) <= p.budget

HasParent(c) == c.parent # NoParent => \E p \in Created : p.id = c.parent /\ p.parent = NoParent

WorkOK ==
    /\ \A w \in work : w = [of |-> w.of, no |-> w.no] /\ w.no \in 1..Len(report)
    /\ \A v, w \in work : v # w => v.no # w.no /\ Paired(v.no) # Paired(w.no)

(***************************************************************************)
(* The inductive invariant. A campaign without a parent leaves its         *)
(* supplements what it can never reach itself, its maximum being the       *)
(* budget or the caps of all its members; no allocation is above the       *)
(* maximum; and no two claims are of one report or of one operator and     *)
(* group.                                                                  *)
(***************************************************************************)
CampaignInv ==
    /\ campaign = [c \in Created |-> campaign[c]] /\ Created \subseteq Contracts
    /\ \A c, d \in Created : c.id = d.id => c = d
    /\ \A c \in Created : HasParent(c)
    /\ \A p \in Created : FamilyOK(p)
    /\ \A c \in Created : PaidOK(c, campaign[c].paid)
    /\ moment \in Moments /\ report \in Seq(Reports)
    /\ WorkOK

LEMMA ContractTypes ==
    ASSUME NEW c \in Contracts
    PROVE  /\ c.budget \in Nat /\ c.cap \in Nat /\ IsFiniteSet(c.members) /\ Cardinality(c.members) \in Nat
           /\ Maximum(c) \in Nat /\ Maximum(c) <= c.budget
           /\ Maximum(c) <= Cardinality(c.members) * c.cap
           /\ Maximum(c) = c.budget \/ Maximum(c) = Cardinality(c.members) * c.cap
<1>1. c.budget \in Nat /\ c.cap \in Nat /\ IsFiniteSet(c.members) /\ Cardinality(c.members) \in Nat
  BY FS_CardinalityType DEF CampaignAssumption
<1> DEFINE m == Cardinality(c.members) * c.cap
<1>2. m \in Nat
  BY <1>1, ProductNat
<1>3. Maximum(c) = IF c.budget >= m THEN m ELSE c.budget
  <2> HIDE DEF m
  <2>0. c.budget \in Int /\ m \in Int
    BY <1>1, <1>2
  <2>1. Min({c.budget, m}) = IF c.budget >= m THEN m ELSE c.budget
    BY <2>0, TwoOf
  <2> QED
    BY <2>1 DEF Maximum, m
<1> HIDE DEF m
<1>4. /\ Maximum(c) \in Nat /\ Maximum(c) <= c.budget /\ Maximum(c) <= m
      /\ Maximum(c) = c.budget \/ Maximum(c) = m
  BY <1>1, <1>2, <1>3
<1> QED
  BY <1>1, <1>4 DEF m

LEMMA CampaignStarts == CampaignInit => CampaignInv
<1> SUFFICES ASSUME CampaignInit PROVE CampaignInv
  OBVIOUS
<1>1. Created = {} /\ report = <<>> /\ work = {}
  BY DEF CampaignInit, Created
<1>2. campaign = [c \in Created |-> campaign[c]]
  BY <1>1 DEF CampaignInit
<1> QED
  BY <1>1, <1>2 DEF CampaignInv, WorkOK, CampaignInit, Moments, CampaignAssumption

\* Shares rounded down and capped stay within the budget and the caps.
LEMMA AllocationOK ==
    ASSUME NEW c \in Contracts, NEW K, IsFiniteSet(K),
           \A n \in K : report[n].operator \in c.members
    PROVE  PaidOK(c, Allocation(c, K)) /\ InCaps(c, Allocation(c, K))
<1> DEFINE own == [n \in K |-> report[n].operator]
           D == {own[n] : n \in K}
           k == Cardinality(K)
           paid == Allocation(c, K)
<1>1. IsFiniteSet(D) /\ D \subseteq c.members /\ k \in Nat
  <2> HIDE DEF own
  <2>1. IsFiniteSet(D)
    BY ImageFinite
  <2>2. D \subseteq c.members
    BY DEF own
  <2> QED
    BY <2>1, <2>2, FS_CardinalityType
<1>2. DOMAIN paid = D
  BY DEF Allocation
<1>3. ASSUME NEW o \in D
      PROVE  /\ paid[o] \in Nat /\ paid[o] <= c.cap
             /\ k * paid[o] <= c.budget * Cardinality(Belongs(K, own, {o}))
  <2> DEFINE u == UnitsOf(K, o)
             w == c.budget * u
             q == w \div k
  <2>1. Belongs(K, own, {o}) = {n \in K : report[n].operator = o}
    BY DEF Belongs
  <2>2. u = Cardinality(Belongs(K, own, {o})) /\ u \in Nat
    <3>1. IsFiniteSet(Belongs(K, own, {o}))
      BY FS_Subset DEF Belongs
    <3> QED
      BY <2>1, <3>1, FS_CardinalityType DEF UnitsOf
  <2>3. k > 0
    <3>1. K # {}
      OBVIOUS
    <3> QED
      BY <1>1, <3>1, FS_EmptySet
  <2>4. paid[o] = Min({c.cap, q})
    BY <1>2 DEF Allocation
  <2>5. w \in Nat
    <3> HIDE DEF u
    <3> QED
      BY <2>2, ContractTypes, ProductNat
  <2>6. q \in Nat /\ k * q <= w
    <3> HIDE DEF w, k
    <3> QED
      BY <1>1, <2>3, <2>5, WholeShare
  <2> HIDE DEF q, w, k, u, paid
  <2>7. paid[o] = IF c.cap >= q THEN q ELSE c.cap
    <3>1. c.cap \in Int /\ q \in Int
      BY <2>6, ContractTypes
    <3>2. Min({c.cap, q}) = IF c.cap >= q THEN q ELSE c.cap
      BY <3>1, TwoOf
    <3> QED
      BY <2>4, <3>2
  <2>8. paid[o] \in Nat /\ paid[o] <= c.cap /\ paid[o] <= q
    BY <2>6, <2>7, ContractTypes
  <2>9. k * paid[o] <= k * q /\ k * paid[o] \in Nat /\ k * q \in Nat
    <3>1. paid[o] * k <= q * k
      BY <1>1, <2>6, <2>8, ProductMonotone
    <3>2. k * paid[o] \in Nat /\ k * q \in Nat
      BY <1>1, <2>6, <2>8, ProductNat
    <3>3. paid[o] * k = k * paid[o] /\ q * k = k * q
      BY <1>1, <2>6, <2>8
    <3> QED
      BY <3>1, <3>2, <3>3
  <2>10. k * paid[o] <= w
    BY <2>5, <2>6, <2>9
  <2> QED
    BY <2>2, <2>8, <2>10 DEF w
<1> HIDE DEF paid
<1>4. SumOf(paid, D) \in Nat
  <2> HIDE DEF D
  <2> QED
    BY <1>1, <1>3, SumNat
<1>5. SumOf(paid, D) <= Cardinality(c.members) * c.cap
  <2>1. SumOf(paid, D) <= Cardinality(D) * c.cap
    <3> HIDE DEF D
    <3> QED
      BY <1>1, <1>3, ContractTypes, SumBounded
  <2>2. Cardinality(D) \in Nat /\ Cardinality(D) <= Cardinality(c.members)
    <3> HIDE DEF D
    <3> QED
      BY <1>1, ContractTypes, FS_Subset, FS_CardinalityType
  <2>3. Cardinality(D) * c.cap <= Cardinality(c.members) * c.cap
    <3> HIDE DEF D
    <3> QED
      BY <2>2, ContractTypes, ProductMonotone
  <2>4. Cardinality(D) * c.cap \in Nat /\ Cardinality(c.members) * c.cap \in Nat
    <3> HIDE DEF D
    <3> QED
      BY <2>2, ContractTypes, ProductNat
  <2> HIDE DEF D
  <2> QED
    BY <1>4, <2>1, <2>3, <2>4
<1>6. SumOf(paid, D) <= c.budget
  <2>1. CASE K = {}
    <3>1. D = {}
      BY <2>1
    <3>2. SumOf(paid, D) = 0
      <4> HIDE DEF D
      <4> QED
        BY <3>1, SumTyped, FS_EmptySet DEF Numbers
    <3> QED
      BY <3>2, ContractTypes
  <2>2. CASE K # {}
    <3>1. k * SumOf(paid, D) <= c.budget * Cardinality(Belongs(K, own, D))
      <4> HIDE DEF D, own
      <4> QED
        BY <1>1, <1>3, ContractTypes, SharesAdd
    <3>2. Belongs(K, own, D) = K
      BY DEF Belongs
    <3>3. k > 0
      BY <1>1, <2>2, FS_EmptySet
    <3>4. k * SumOf(paid, D) <= c.budget * k
      BY <3>1, <3>2
    <3> HIDE DEF k, D
    <3> QED
      BY <1>1, <1>4, <3>3, <3>4, ContractTypes, ProductCancels
  <2> QED
    BY <2>1, <2>2
<1>7. SumOf(paid, D) <= Maximum(c)
  <2> HIDE DEF D
  <2> QED
    BY <1>4, <1>5, <1>6, ContractTypes
<1> HIDE DEF D
<1>8. PaidOK(c, paid)
  BY <1>1, <1>2, <1>3, <1>7 DEF PaidOK
<1>9. InCaps(c, paid)
  <2>1. c.cap \in Nat
    BY ContractTypes
  <2>2. ASSUME NEW o \in D PROVE paid[o] \in 0..c.cap
    <3>1. paid[o] \in Nat /\ paid[o] <= c.cap
      BY <1>3, Zenon
    <3> QED
      BY <2>1, <3>1
  <2>3. DOMAIN paid \subseteq c.members /\ \A o \in DOMAIN paid : paid[o] \in 0..c.cap
    BY <1>1, <1>2, <2>2
  <2> QED
    BY <2>3 DEF InCaps
<1> QED
  BY <1>8, <1>9 DEF paid

\* The families are those of the campaigns there are.
LEMMA FamiliesStay ==
    ASSUME CampaignInv, Created' = Created
    PROVE  /\ \A c, d \in Created' : c.id = d.id => c = d
           /\ \A c \in Created' : HasParent(c)'
           /\ \A p \in Created' : FamilyOK(p)'
<1>1. \A p : Children(p)' = Children(p)
  BY DEF Children
<1>2. \A p : BudgetsOf(Children(p))' = BudgetsOf(Children(p))
  <2> SUFFICES ASSUME NEW p PROVE BudgetsOf(Children(p))' = BudgetsOf(Children(p))
    OBVIOUS
  <2> QED
    BY <1>1 DEF BudgetsOf
<1> QED
  BY <1>1, <1>2 DEF CampaignInv, HasParent, FamilyOK, Maximum

LEMMA CampaignsRest ==
    ASSUME CampaignInv, UNCHANGED <<campaign, report, work>>, moment' \in Moments
    PROVE  CampaignInv'
<1>1. Created' = Created
  BY DEF Created
<1>2. WorkOK'
  BY DEF CampaignInv, WorkOK, Paired
<1>3. \A c \in Created' : PaidOK(c, campaign[c].paid)'
  BY <1>1 DEF CampaignInv, PaidOK, Maximum
<1> QED
  BY <1>1, <1>2, <1>3, FamiliesStay DEF CampaignInv

LEMMA ReportArrivesStep ==
    ASSUME CampaignInv, NEW o \in Members, NEW group \in ProbeGroups, ReportArrives(o, group)
    PROVE  CampaignInv'
<1> DEFINE r == [operator |-> o, group |-> group, at |-> moment]
<1>1. r \in Reports /\ report \in Seq(Reports)
  BY DEF CampaignInv, Reports
<1>2. report' = Append(report, r) /\ UNCHANGED <<campaign, work, moment>>
  BY DEF ReportArrives
<1> HIDE DEF r
<1>3. /\ report' \in Seq(Reports) /\ Len(report') = Len(report) + 1 /\ Len(report) \in Nat
      /\ \A n \in 1..Len(report) : report'[n] = report[n]
  BY <1>1, <1>2
<1>4. Created' = Created
  BY <1>2 DEF Created
<1>5. WorkOK'
  <2>1. \A n \in 1..Len(report) : n \in 1..Len(report') /\ Paired(n)' = Paired(n)
    BY <1>3 DEF Paired
  <2> QED
    BY <1>2, <2>1 DEF CampaignInv, WorkOK
<1>6. \A c \in Created' : PaidOK(c, campaign[c].paid)'
  BY <1>2, <1>4 DEF CampaignInv, PaidOK, Maximum
<1> QED
  BY <1>2, <1>3, <1>4, <1>5, <1>6, FamiliesStay DEF CampaignInv

LEMMA FinalizeCampaignStep ==
    ASSUME CampaignInv, NEW c \in Contracts, FinalizeCampaign(c)
    PROVE  CampaignInv'
<1>1. c \in Created /\ UNCHANGED <<moment, report>>
  BY DEF FinalizeCampaign, Finalizable
<1>2. PICK K : K = Included(c)
  OBVIOUS
<1>3. Len(report) \in Nat
  BY DEF CampaignInv
<1>4. /\ IsFiniteSet(K) /\ K \subseteq 1..Len(report) /\ Together(c, K)
      /\ \A n \in K : report[n].operator \in c.members
  <2>1. K \subseteq 1..Len(report) /\ Together(c, K)
    BY <1>2, <1>3, IncludedTogether
  <2>2. IsFiniteSet(1..Len(report))
    BY <1>3, FS_Interval
  <2>3. IsFiniteSet(K)
    BY <2>1, <2>2, FS_Subset
  <2> QED
    BY <2>1, <2>3 DEF Together, Eligible
<1>5. PICK paid : paid = Allocation(c, K)
  OBVIOUS
<1>6. /\ campaign' = [campaign EXCEPT ![c] = [status |-> "finalized", paid |-> paid]]
      /\ work' = work \union {[of |-> c, no |-> n] : n \in K}
  BY <1>2, <1>5 DEF FinalizeCampaign
<1>7. PaidOK(c, paid)
  BY <1>4, <1>5, AllocationOK
<1>8. Created' = Created /\ campaign' = [d \in Created' |-> campaign'[d]]
  BY <1>6 DEF Created
<1>9. \A d \in Created' : PaidOK(d, campaign[d].paid)'
  <2>1. \A d \in Created : campaign'[d] = IF d = c THEN [status |-> "finalized", paid |-> paid] ELSE campaign[d]
    BY <1>6 DEF Created
  <2>2. \A d \in Created : PaidOK(d, campaign[d].paid)
    BY DEF CampaignInv
  <2>3. \A d \in Created : PaidOK(d, campaign'[d].paid)
    BY <1>7, <2>1, <2>2
  <2> QED
    BY <1>8, <2>3 DEF PaidOK, Maximum
<1>10. WorkOK'
  <2>1. \A w \in work' : w \in work \/ (w = [of |-> c, no |-> w.no] /\ w.no \in K)
    BY <1>6
  <2>2. \A w \in work : w.no \in Claimed
    BY DEF Claimed
  <2>3. \A n \in K : \A k \in Claimed : n # k /\ Paired(k) # Paired(n)
    BY <1>4 DEF Together, Eligible
  <2>4. \A m, n \in K : m # n => Paired(m) # Paired(n)
    BY <1>4 DEF Together
  <2>5. \A n : Paired(n)' = Paired(n)
    BY <1>1 DEF Paired
  <2>6. ASSUME NEW v \in work', NEW w \in work', v # w PROVE v.no # w.no /\ Paired(v.no) # Paired(w.no)
    <3>1. CASE v \in work /\ w \in work
      BY <2>6, <3>1 DEF CampaignInv, WorkOK
    <3>2. CASE v \in work /\ w \notin work
      BY <2>1, <2>2, <2>3, <3>2
    <3>3. CASE v \notin work /\ w \in work
      BY <2>1, <2>2, <2>3, <3>3
    <3>4. CASE v \notin work /\ w \notin work
      BY <2>1, <2>4, <2>6, <3>4
    <3> QED
      BY <3>1, <3>2, <3>3, <3>4
  <2>7. \A w \in work' : w = [of |-> w.of, no |-> w.no] /\ w.no \in 1..Len(report)
    <3>1. \A w \in work : w = [of |-> w.of, no |-> w.no] /\ w.no \in 1..Len(report)
      BY DEF CampaignInv, WorkOK
    <3> QED
      BY <1>4, <1>6, <3>1
  <2> QED
    BY <1>1, <2>5, <2>6, <2>7 DEF WorkOK
<1> QED
  BY <1>1, <1>8, <1>9, <1>10, FamiliesStay DEF CampaignInv

LEMMA CreateCampaignStep ==
    ASSUME CampaignInv, NEW c \in Contracts, CreateCampaign(c)
    PROVE  CampaignInv'
<1>1. /\ \A d \in Created : d.id # c.id
      /\ c.parent # NoParent => WithinParent(c)
      /\ campaign' = [d \in Created \union {c} |-> IF d = c THEN Open ELSE campaign[d]]
      /\ UNCHANGED <<moment, report, work>>
  BY DEF CreateCampaign
<1>2. /\ c \notin Created /\ Created' = Created \union {c} /\ Created' \subseteq Contracts
      /\ campaign' = [d \in Created' |-> campaign'[d]]
  BY <1>1 DEF Created, CampaignInv
<1>3. \A d, e \in Created' : d.id = e.id => d = e
  BY <1>1, <1>2 DEF CampaignInv
<1>4. \A d \in Created' : HasParent(d)'
  <2>1. HasParent(c)'
    BY <1>1, <1>2 DEF HasParent, WithinParent
  <2>2. \A d \in Created : HasParent(d)'
    BY <1>2 DEF HasParent, CampaignInv
  <2> QED
    BY <1>2, <2>1, <2>2
<1>5. WorkOK'
  BY <1>1 DEF CampaignInv, WorkOK, Paired
<1>6. \A d \in Created' : PaidOK(d, campaign[d].paid)'
  <2>1. \A d \in Created : PaidOK(d, campaign[d].paid)
    BY DEF CampaignInv
  <2>2. PaidOK(c, Open.paid)
    <3>1. DOMAIN Open.paid = {}
      BY DEF Open
    <3>2. SumOf(Open.paid, {}) = 0
      BY SumTyped, FS_EmptySet DEF Numbers
    <3> QED
      BY <3>1, <3>2, FS_EmptySet, ContractTypes DEF PaidOK
  <2>3. \A d \in Created' : campaign'[d] = IF d = c THEN Open ELSE campaign[d]
    BY <1>1, <1>2
  <2>4. \A d \in Created' : PaidOK(d, campaign'[d].paid)
    BY <1>2, <2>1, <2>2, <2>3
  <2> QED
    BY <2>4 DEF PaidOK, Maximum
<1>7. ASSUME NEW p \in Created', p.parent = NoParent
      PROVE  Children(p)' = {} \/ Maximum(p) + BudgetsOf(Children(p)') <= p.budget
  <2>1. CASE p = c
    <3>1. \A s \in Created : s.parent # c.id
      <4>1. c.id # NoParent
        BY DEF CampaignAssumption
      <4> QED
        BY <1>1, <4>1 DEF CampaignInv, HasParent
    <3>2. c.parent # c.id
      BY <1>7, <2>1 DEF CampaignAssumption
    <3>3. Children(p)' = {}
      BY <1>2, <2>1, <3>1, <3>2 DEF Children
    <3> QED
      BY <3>3
  <2>2. CASE p # c /\ c.parent # p.id
    <3>1. p \in Created /\ Children(p)' = Children(p)
      BY <1>2, <2>2 DEF Children
    <3>2. FamilyOK(p)
      BY <3>1 DEF CampaignInv
    <3> QED
      BY <1>7, <3>1, <3>2 DEF FamilyOK
  <2>3. CASE p # c /\ c.parent = p.id
    <3>1. p \in Created /\ c.parent # NoParent
      BY <1>2, <2>3 DEF CampaignAssumption, CampaignInv
    <3>2. Maximum(p) + Reserved(c) + c.budget <= p.budget
      <4>1. PICK q \in Created : q.id = c.parent /\ Maximum(q) + Reserved(c) + c.budget <= q.budget
        BY <1>1, <3>1 DEF WithinParent
      <4>2. q = p
        BY <2>3, <3>1, <4>1 DEF CampaignInv
      <4> QED
        BY <4>1, <4>2
    <3> DEFINE T == Siblings(c)
               U == Children(p)'
    <3>3. T \subseteq Contracts /\ c \notin T /\ U = T \union {c} /\ U \ {c} = T
      BY <1>2, <2>3, <3>1 DEF Siblings, Children, CampaignInv
    <3>4. IsFiniteSet(U) /\ IsFiniteSet(T) /\ c \in U /\ U \subseteq Contracts /\ \A d \in U : d.budget \in Nat
      <4>1. U \subseteq Contracts /\ c \in U
        BY <3>3
      <4> HIDE DEF U, T
      <4> QED
        BY <4>1, <3>3, FS_Subset, ContractTypes DEF CampaignAssumption
    <3>5. BudgetsOf(U) = c.budget + Reserved(c) /\ Reserved(c) \in Int
      <4> DEFINE f == [d \in U |-> d.budget]
                 h == [d \in T |-> d.budget]
      <4>1. Reserved(c) = SumOf(h, T)
        <5>1. \A d \in T : d.budget \in Int
          BY <3>3, <3>4
        <5> HIDE DEF T
        <5>2. MapThenSumSet(LAMBDA d : d.budget, T) = SumOf([d \in T |-> d.budget], T)
          BY <3>4, <5>1, BudgetSum
        <5> QED
          BY <5>2 DEF Reserved, T, MapThenSumSet, MapThenFoldSet
      <4>2. Numbers(f, U) /\ Numbers(h, T) /\ (\A d \in T : f[d] = h[d]) /\ f[c] = c.budget
        BY <3>3, <3>4 DEF Numbers
      <4> HIDE DEF f, h, T, U
      <4>3. SumOf(f, U) = f[c] + SumOf(f, U \ {c})
        BY <3>4, <4>2, SumTake
      <4>4. SumOf(h, T) = SumOf(f, T) /\ SumOf(h, T) \in Int
        BY <3>4, <4>2, SumAlike, SumTyped
      <4>5. BudgetsOf(U) = SumOf(f, U)
        BY DEF BudgetsOf, f
      <4> QED
        BY <3>3, <4>1, <4>2, <4>3, <4>4, <4>5
    <3>6. Maximum(p) \in Nat /\ p.budget \in Nat /\ c.budget \in Nat
      BY <3>1, ContractTypes DEF CampaignInv
    <3> HIDE DEF U
    <3>7. Maximum(p) + BudgetsOf(U) <= p.budget
      BY <3>2, <3>5, <3>6
    <3> QED
      BY <3>7 DEF U
  <2> QED
    BY <2>1, <2>2, <2>3
<1>8. \A p \in Created' : FamilyOK(p)'
  <2>1. \A p : BudgetsOf(Children(p))' = BudgetsOf(Children(p)')
    BY DEF BudgetsOf
  <2> QED
    BY <1>7, <2>1 DEF FamilyOK, Maximum
<1> QED
  BY <1>1, <1>2, <1>3, <1>4, <1>5, <1>6, <1>8 DEF CampaignInv

LEMMA CampaignKept == ASSUME CampaignInv, [CampaignNext]_campaignVars PROVE CampaignInv'
<1>1. ASSUME TimeGoesOn \/ (\E c \in Contracts : Preview(c)) \/ (\E o \in Members : MemberChanges(o))
             \/ UNCHANGED campaignVars
      PROVE  CampaignInv'
  <2>1. UNCHANGED <<campaign, report, work>>
    BY <1>1 DEF TimeGoesOn, Preview, MemberChanges, campaignVars
  <2>2. moment' \in Moments
    BY <1>1 DEF TimeGoesOn, Preview, MemberChanges, campaignVars, Moments, CampaignInv, CampaignAssumption
  <2> QED
    BY <2>1, <2>2, CampaignsRest
<1> QED
  BY <1>1, CreateCampaignStep, FinalizeCampaignStep, ReportArrivesStep DEF CampaignNext

LEMMA CampaignSafe == ASSUME CampaignInv PROVE BudgetHolds
<1>1. \A c \in Created : /\ c \in Contracts /\ PaidBy(c) \in Nat /\ PaidBy(c) <= Maximum(c)
                         /\ Maximum(c) \in Nat /\ Maximum(c) <= c.budget /\ c.budget \in Nat
  <2> SUFFICES ASSUME NEW c \in Created
               PROVE  /\ c \in Contracts /\ PaidBy(c) \in Nat /\ PaidBy(c) <= Maximum(c)
                      /\ Maximum(c) \in Nat /\ Maximum(c) <= c.budget /\ c.budget \in Nat
    OBVIOUS
  <2>1. c \in Contracts /\ PaidOK(c, campaign[c].paid)
    BY DEF CampaignInv
  <2>2. PaidBy(c) = SumOf(campaign[c].paid, DOMAIN campaign[c].paid)
    BY DEF PaidBy, SumOf, MapThenSumSet, MapThenFoldSet
  <2>3. SumOf(campaign[c].paid, DOMAIN campaign[c].paid) \in Nat
    BY <2>1, SumNat DEF PaidOK
  <2> QED
    BY <2>1, <2>2, <2>3, ContractTypes DEF PaidOK
<1>2. ASSUME NEW p \in Created, p.parent = NoParent
      PROVE  PaidBy(p) + MapThenSumSet(PaidBy, {s \in Created : s.parent = p.id}) <= p.budget
  <2> DEFINE T == Children(p)
             f == [s \in T |-> PaidBy(s)]
             h == [s \in T |-> s.budget]
  <2>1. IsFiniteSet(T) /\ T \subseteq Created
    <3>1. T \subseteq Created /\ T \subseteq Contracts
      BY DEF Children, CampaignInv
    <3> HIDE DEF T
    <3> QED
      BY <3>1, FS_Subset DEF CampaignAssumption
  <2>2. Numbers(f, T) /\ Numbers(h, T) /\ \A s \in T : f[s] <= h[s]
    <3> HIDE DEF T
    <3> QED
      BY <1>1, <2>1 DEF Numbers
  <2>3. MapThenSumSet(PaidBy, T) = SumOf(f, T)
    <3>1. \A s \in T : PaidBy(s) \in Int
      BY <1>1, <2>1
    <3> HIDE DEF T
    <3>2. MapThenSumSet(PaidBy, T) = SumOf([s \in T |-> PaidBy(s)], T)
      BY <2>1, <3>1, PaidSum
    <3> QED
      BY <3>2
  <2>4. SumOf(f, T) <= SumOf(h, T) /\ SumOf(f, T) \in Int /\ SumOf(h, T) \in Int
    <3> HIDE DEF T, f, h
    <3> QED
      BY <2>1, <2>2, SumMonotone, SumTyped
  <2>5. T = {} => SumOf(f, T) = 0
    <3> HIDE DEF T, f
    <3> QED
      BY <2>1, <2>2, SumTyped
  <2>6. T = {} \/ Maximum(p) + SumOf(h, T) <= p.budget
    BY <1>2 DEF CampaignInv, FamilyOK, BudgetsOf
  <2> HIDE DEF f, h
  <2>7. PaidBy(p) + MapThenSumSet(PaidBy, T) <= p.budget
    <3> HIDE DEF T
    <3> QED
      BY <1>1, <2>3, <2>4, <2>5, <2>6
  <2> QED
    BY <2>7 DEF Children
<1> QED
  BY <1>2 DEF BudgetHolds, CampaignInv, WorkOK

(***************************************************************************)
(* A campaign and its supplements never allocate more than the budget it   *)
(* was funded with, and no report is claimed twice: for any contracts,     *)
(* members, groups and reports, whatever changes between a preview and its *)
(* application.                                                            *)
(***************************************************************************)
THEOREM CampaignsStayInBudget == CampaignSpec => []BudgetHolds
BY CampaignStarts, CampaignKept, CampaignSafe, PTL DEF CampaignSpec

HIDE CampaignAssumption

=============================================================================
