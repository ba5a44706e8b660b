---------------------------- MODULE FreeCredits ----------------------------
(***************************************************************************)
(* The daily free allowance of one account: a Redis counter per UTC day    *)
(* and, per request, a record of what the request took.  The counter of a  *)
(* day expires at its midnight, the record one hour later.  Time is the    *)
(* day and whether its first hour has passed.                              *)
(***************************************************************************)
EXTENDS Integers, FiniteSetsExt

CONSTANTS
    Draws,      \* requests that ask for free credit
    DayCaps,    \* caps a day can have: the verified base, or base and bonus
    Wants,      \* what a request may ask for
    LastDay     \* bound of this model

ASSUME FreeAssumption ==
    /\ DayCaps \subseteq Nat /\ IsFiniteSet(DayCaps) /\ DayCaps # {}
    /\ Wants \subseteq Nat \ {0} /\ LastDay \in Nat /\ IsFiniteSet(Draws)

VARIABLES
    day, early,     \* the UTC day, and whether it is before 01:00
    spentKey,       \* today's counter: does the key exist, and its value
    takenBy,        \* what a request recorded, and the day it was last written
    drawnOn,        \* history: the day a request drew, and how much it keeps
    late            \* history: what was released today of draws of earlier days

freeVars == <<day, early, spentKey, takenBy, drawnOn, late>>

NoDraw == [exists |-> FALSE, micro |-> 0, day |-> 0]

FreeTypeOK ==
    /\ day \in 0..LastDay /\ early \in BOOLEAN
    /\ spentKey \in [exists : BOOLEAN, micro : Nat]
    /\ takenBy \in [Draws -> [exists : BOOLEAN, micro : Nat, day : 0..LastDay]]
    /\ drawnOn \in [Draws -> [exists : BOOLEAN, micro : Nat, day : 0..LastDay]]
    /\ late \in Nat

FreeInit ==
    /\ day = 0 /\ early = FALSE
    /\ spentKey = [exists |-> FALSE, micro |-> 0]
    /\ takenBy = [r \in Draws |-> NoDraw]
    /\ drawnOn = [r \in Draws |-> NoDraw] /\ late = 0

\* (mutant) a cap that shrank below what is spent is not clamped
TakeUnclamped(cap, want) == Min({want, cap - spentKey.micro})

\* Up to what is left under the cap; a cap that shrank leaves nothing.
Take(cap, want) == Min({want, Max({cap - spentKey.micro, 0})})

\* _CONSUME_LUA.  A request with a record gets the same answer again.
Consume(r, cap, want) ==
    /\ cap > 0
    /\ ~takenBy[r].exists
    /\ LET take == Take(cap, want) IN
         /\ spentKey' = IF take > 0
                        THEN [exists |-> TRUE, micro |-> spentKey.micro + take]
                        ELSE spentKey
         /\ takenBy' = [takenBy EXCEPT ![r] = [exists |-> TRUE, micro |-> take, day |-> day]]
         /\ drawnOn' = [drawnOn EXCEPT ![r] = [exists |-> TRUE, micro |-> take, day |-> day]]
    /\ UNCHANGED <<day, early, late>>

\* (mutant) the record is not rewritten
ReleaseUnrecorded(r, keep) ==
    LET delta == takenBy[r].micro - keep IN
    /\ takenBy[r].exists /\ delta > 0
    /\ spentKey' = IF spentKey.exists
                   THEN [spentKey EXCEPT !.micro = Max({@ - delta, 0})]
                   ELSE spentKey
    /\ drawnOn' = [drawnOn EXCEPT ![r].micro = keep]
    /\ UNCHANGED <<day, early, takenBy, late>>

\* _RELEASE_LUA: the counter it lowers is today's, whatever day was drawn from.
Release(r, keep) ==
    LET delta == takenBy[r].micro - keep IN
    /\ takenBy[r].exists /\ delta > 0
    /\ spentKey' = IF spentKey.exists
                   THEN [spentKey EXCEPT !.micro = Max({@ - delta, 0})]
                   ELSE spentKey
    /\ takenBy' = [takenBy EXCEPT ![r] = [exists |-> TRUE, micro |-> keep, day |-> day]]
    /\ drawnOn' = [drawnOn EXCEPT ![r].micro = keep]
    /\ late' = IF drawnOn[r].day = day THEN late ELSE late + delta
    /\ UNCHANGED <<day, early>>

\* Midnight: the counter of the old day is gone, the records are not.
Midnight ==
    /\ ~early /\ day < LastDay
    /\ day' = day + 1 /\ early' = TRUE
    /\ spentKey' = [exists |-> FALSE, micro |-> 0] /\ late' = 0
    /\ UNCHANGED <<takenBy, drawnOn>>

\* One o'clock: records not written today expire.
FirstHourPasses ==
    /\ early /\ early' = FALSE
    /\ takenBy' = [r \in Draws |-> IF takenBy[r].day < day THEN NoDraw ELSE takenBy[r]]
    /\ UNCHANGED <<day, spentKey, drawnOn, late>>

FreeNext ==
    \/ \E r \in Draws, cap \in DayCaps, want \in Wants : Consume(r, cap, want)
    \/ \E r \in Draws, keep \in Wants \union {0} : Release(r, keep)
    \/ Midnight
    \/ FirstHourPasses

FreeSpec == FreeInit /\ [][FreeNext]_freeVars

KeptToday == MapThenSumSet(LAMBDA r : drawnOn[r].micro,
                           {r \in Draws : drawnOn[r].exists /\ drawnOn[r].day = day})

(***************************************************************************)
(* The counter accounts for all that requests drew today and keep, and     *)
(* their sum passes the cap only by what was released today of draws of    *)
(* earlier days: a repeated release, a cap that changes during the day, or *)
(* a draw and a release at once restore nothing twice (free_credits.py).   *)
(***************************************************************************)
AllowanceAccounted ==
    /\ KeptToday <= Max(DayCaps) + late
    /\ KeptToday <= spentKey.micro + late
=============================================================================
