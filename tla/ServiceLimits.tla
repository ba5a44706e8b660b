--------------------------- MODULE ServiceLimits ---------------------------
(***************************************************************************)
(* The daily exposure ceiling of one service client: a Redis counter per   *)
(* UTC day, and per request a record "day:amount" of what it reserved.  A  *)
(* release or a reconciliation reads the record, and a script applies it   *)
(* only while the record is still what was read.                           *)
(***************************************************************************)
EXTENDS Integers, FiniteSetsExt

CONSTANTS
    Exposures,      \* requests of the service
    Terminals,      \* finalizers and sweepers that end a request
    Ceiling,        \* daily_micro of the policy
    PerRequest,     \* per_request_micro of the policy
    Amounts,        \* what a request may cost
    FinalDay,       \* bound of this model
    NoExposure

ASSUME LimitAssumption ==
    /\ Ceiling \in Nat \ {0} /\ PerRequest \in 1..Ceiling
    /\ Amounts \subseteq Nat /\ FinalDay \in Nat
    /\ IsFiniteSet(Exposures) /\ NoExposure \notin Exposures

VARIABLES
    today, firstHour,   \* the UTC day, and whether it is before 01:00
    usedOn,             \* the counter of each day
    record,             \* the record of each request
    ending              \* what each terminal ends: its request, and the record it read

limitVars == <<today, firstHour, usedOn, record, ending>>

NoRecord == [exists |-> FALSE, day |-> 0, micro |-> 0]
Record(d, amount) == [exists |-> TRUE, day |-> d, micro |-> amount]
Waiting == [of |-> NoExposure, keep |-> 0, raw |-> NoRecord]

LimitTypeOK ==
    /\ today \in 0..FinalDay /\ firstHour \in BOOLEAN
    /\ usedOn \in [0..FinalDay -> Nat]
    /\ record \in [Exposures -> [exists : BOOLEAN, day : 0..FinalDay, micro : Nat]]
    /\ ending \in [Terminals -> [of : Exposures \union {NoExposure},
                                 keep : Amounts \union {-1, 0},
                                 raw : [exists : BOOLEAN, day : 0..FinalDay, micro : Nat]]]

LimitInit ==
    /\ today = 0 /\ firstHour = FALSE
    /\ usedOn = [d \in 0..FinalDay |-> 0]
    /\ record = [r \in Exposures |-> NoRecord]
    /\ ending = [t \in Terminals |-> Waiting]

\* authorize with _LUA: a request that has a record is let through again.
Authorize(r, amount) ==
    /\ amount <= PerRequest
    /\ ~record[r].exists
    /\ usedOn[today] + amount <= Ceiling
    /\ usedOn' = [usedOn EXCEPT ![today] = @ + amount]
    /\ record' = [record EXCEPT ![r] = Record(today, amount)]
    /\ UNCHANGED <<today, firstHour, ending>>

\* The GET of release (keep = -1) and of reconcile.
ReadRecord(t, r, keep) ==
    /\ ending[t] = Waiting /\ record[r].exists
    /\ ending' = [ending EXCEPT ![t] = [of |-> r, keep |-> keep, raw |-> record[r]]]
    /\ UNCHANGED <<today, firstHour, usedOn, record>>

\* (mutant) any record of the request will do
StillThere(t) == record[ending[t].of].exists

Unchanged(t) == record[ending[t].of] = ending[t].raw

\* _RELEASE_LUA or _RECONCILE_LUA on the day the record was bound to.
Apply(t) ==
    LET r    == ending[t].of
        raw  == ending[t].raw
        full == ending[t].keep = -1
        keep == IF full THEN 0 ELSE Min({ending[t].keep, raw.micro}) IN
    /\ ending[t] # Waiting
    /\ IF Unchanged(t)
       THEN /\ usedOn' = [usedOn EXCEPT ![raw.day] = Max({@ - (raw.micro - keep), 0})]
            /\ record' = [record EXCEPT ![r] = IF full THEN NoRecord ELSE Record(raw.day, keep)]
       ELSE UNCHANGED <<usedOn, record>>
    /\ ending' = [ending EXCEPT ![t] = Waiting]
    /\ UNCHANGED <<today, firstHour>>

\* A terminal that dies between the two leaves the reservation to expire.
TerminalDies(t) ==
    /\ ending[t] # Waiting
    /\ ending' = [ending EXCEPT ![t] = Waiting]
    /\ UNCHANGED <<today, firstHour, usedOn, record>>

NewDay ==
    /\ ~firstHour /\ today < FinalDay
    /\ today' = today + 1 /\ firstHour' = TRUE
    /\ UNCHANGED <<usedOn, record, ending>>

\* Counter and records of the day before expire together at one o'clock.
OldDayExpires ==
    /\ firstHour /\ firstHour' = FALSE
    /\ usedOn' = [usedOn EXCEPT ![today - 1] = 0]
    /\ record' = [r \in Exposures |-> IF record[r].day < today THEN NoRecord ELSE record[r]]
    /\ UNCHANGED <<today, ending>>

LimitNext ==
    \/ \E r \in Exposures, amount \in Amounts : Authorize(r, amount)
    \/ \E t \in Terminals :
         \/ Apply(t) \/ TerminalDies(t)
         \/ \E r \in Exposures, keep \in Amounts \union {-1, 0} : ReadRecord(t, r, keep)
    \/ NewDay
    \/ OldDayExpires

LimitSpec == LimitInit /\ [][LimitNext]_limitVars

(***************************************************************************)
(* The counter of the current day is exactly what its requests still       *)
(* reserve, and stays under the ceiling, although a finalizer and a        *)
(* sweeper may both end a request, late, after a retry of it, or after     *)
(* midnight: nothing is given back twice, to another request, or to        *)
(* another day (service_limits.py, release and reconcile).                 *)
(***************************************************************************)
CeilingIsExact ==
    /\ usedOn[today] = MapThenSumSet(LAMBDA r : record[r].micro,
                                     {r \in Exposures : record[r].exists /\ record[r].day = today})
    /\ usedOn[today] <= Ceiling
=============================================================================
