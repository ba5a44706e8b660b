--------------------------- MODULE InflightSlots ---------------------------
(***************************************************************************)
(* The cap on an account's requests in flight: a Redis counter shared by   *)
(* all server processes, incremented first and checked afterwards.  Every  *)
(* command is a step of its own, each may fail, and a failure lets the     *)
(* request pass.  The counter expires when it is not touched for long.     *)
(***************************************************************************)
EXTENDS Integers, FiniteSets

CONSTANTS
    Calls,      \* requests of the account
    SlotLimit,  \* the cap
    MaxSlots    \* bound of this model: leaked slots, and lost resets, add up

ASSUME SlotAssumption ==
    SlotLimit \in Nat \ {0} /\ MaxSlots \in Nat /\ IsFiniteSet(Calls)

VARIABLES
    slots,      \* the counter; an absent key counts as 0
    call,       \* what each request does
    broken      \* has a command failed, or the counter expired

slotVars == <<slots, call, broken>>

SlotTypeOK ==
    /\ slots \in Int
    /\ call \in [Calls -> {"new", "counted", "over", "refused", "running",
                           "lowered", "done", "lost"}]
    /\ broken \in BOOLEAN

SlotInit ==
    /\ slots = 0
    /\ call = [c \in Calls |-> "new"]
    /\ broken = FALSE

Moves(c, from, to) == call[c] = from /\ call' = [call EXCEPT ![c] = to]

\* (mutant) the limit is compared with the count before the increment
AcquireLate(c) ==
    /\ slots < MaxSlots
    /\ slots' = slots + 1
    /\ Moves(c, "new", IF slots > SlotLimit THEN "over" ELSE "counted")
    /\ UNCHANGED broken

\* INCR; its answer decides.
Acquire(c) ==
    /\ slots < MaxSlots
    /\ slots' = slots + 1
    /\ Moves(c, "new", IF slots + 1 > SlotLimit THEN "over" ELSE "counted")
    /\ UNCHANGED broken

\* EXPIRE has run: the request may start.
Start(c) == Moves(c, "counted", "running") /\ UNCHANGED <<slots, broken>>

\* The request over the limit takes its count back.
TakeBack(c) ==
    /\ Moves(c, "over", "refused")
    /\ slots' = slots - 1
    /\ UNCHANGED broken

\* A command of acquire fails: the request passes, counted or not.
FailOpen(c) ==
    /\ \E from \in {"new", "counted", "over"} : Moves(c, from, "running")
    /\ broken' = TRUE
    /\ UNCHANGED slots

\* DECR of release, then SET 0 if that went below zero.
Lower(c) ==
    /\ slots > -MaxSlots
    /\ slots' = slots - 1
    /\ Moves(c, "running", IF slots - 1 < 0 THEN "lowered" ELSE "done")
    /\ UNCHANGED broken

Floor(c) ==
    /\ Moves(c, "lowered", "done")
    /\ slots' = 0
    /\ UNCHANGED broken

\* The server process dies with the request: its slot leaks.
ServerDies(c) ==
    /\ call[c] \in {"counted", "over", "running", "lowered"}
    /\ call' = [call EXCEPT ![c] = "lost"]
    /\ UNCHANGED <<slots, broken>>

\* The release fails: the slot leaks although the request ended.
ReleaseFails(c) == Moves(c, "running", "done") /\ UNCHANGED <<slots, broken>>

Expires ==
    /\ slots # 0
    /\ slots' = 0 /\ broken' = TRUE
    /\ UNCHANGED call

Again(c) == \E from \in {"refused", "done", "lost"} :
                Moves(c, from, "new") /\ UNCHANGED <<slots, broken>>

SlotNext ==
    \/ \E c \in Calls : \/ Acquire(c) \/ Start(c) \/ TakeBack(c) \/ FailOpen(c)
                        \/ Lower(c) \/ Floor(c) \/ ServerDies(c) \/ ReleaseFails(c)
                        \/ Again(c)
    \/ Expires

SlotSpec == SlotInit /\ [][SlotNext]_slotVars

InFlight == {c \in Calls : call[c] \in {"counted", "running"}}

(***************************************************************************)
(* While Redis answers and the counter has not expired, no account has     *)
(* more requests in flight than its cap, across all processes, refused     *)
(* requests, crashes and lost releases (concurrency.py).                   *)
(***************************************************************************)
InFlightBounded == broken \/ Cardinality(InFlight) <= SlotLimit
=============================================================================
