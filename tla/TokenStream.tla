---------------------------- MODULE TokenStream ----------------------------
(***************************************************************************)
(* What the client of one text job is told, and what becomes of its hold.  *)
(* Every delivery of the job is served by a worker connection, which       *)
(* appends the tokens it relays, and in the end a terminator, to the one   *)
(* buffer of the job; a reader replays the buffer to the client.  Several  *)
(* deliveries may be served at once, after a slow holder was reclaimed.    *)
(* The buffer outlives its reader: both last 300 s from the last event.    *)
(***************************************************************************)
EXTENDS Integers, Sequences, FiniteSets

CONSTANTS
    Carriers,       \* connections that serve deliveries of the job
    MaxEntries,     \* bound of this model: deliveries of the job
    MaxRelayed      \* bound of this model: tokens of a delivery

ASSUME StreamAssumption ==
    MaxEntries \in Nat \ {0} /\ MaxRelayed \in Nat /\ IsFiniteSet(Carriers)

VARIABLES
    entry,      \* the job's live delivery
    serving,    \* what each connection does
    events,     \* grid:tokens:{job}
    tab,        \* the hold, the worker ledger row, and the tokens charged
    reader      \* the client's reader and its cursor

streamVars == <<entry, serving, events, tab, reader>>

Unserved == [phase |-> "idle", entry |-> 0, sent |-> 0]

Event(kind, c) == [kind |-> kind, by |-> serving[c].entry, units |-> serving[c].sent]

StreamTypeOK ==
    /\ entry \in [id : 1..MaxEntries, state : {"new", "pending", "acked"}]
    /\ serving \in [Carriers -> [phase : {"idle", "running", "paid", "stale", "unsettled",
                                          "failing", "closing", "acking", "refusing", "releasing"},
                                 entry : 0..MaxEntries, sent : 0..MaxRelayed]]
    /\ events \in Seq([kind : {"token", "done", "error"}, by : 1..MaxEntries,
                       units : 0..MaxRelayed])
    /\ tab \in [hold : {"held", "settled", "refunded"}, paid : BOOLEAN, units : 0..MaxRelayed]
    /\ reader \in [state : {"reading", "completed", "failed", "left"}, cursor : 0..Len(events)]

StreamInit ==
    /\ entry = [id |-> 1, state |-> "new"]
    /\ serving = [c \in Carriers |-> Unserved]
    /\ events = <<>>
    /\ tab = [hold |-> "held", paid |-> FALSE, units |-> 0]
    /\ reader = [state |-> "reading", cursor |-> 0]

At(c, phases) == serving[c].phase \in phases
Turns(c, phase) == serving' = [serving EXCEPT ![c].phase = phase]
Yields(c) == serving' = [serving EXCEPT ![c] = Unserved]
Publishes(e) == events' = Append(events, e)

-----------------------------------------------------------------------------
(* Deliveries: one is live, and a copy replaces it. *)

IsLive(c) == entry = [id |-> serving[c].entry, state |-> "pending"]

Replaced == entry' = [id |-> entry.id + 1, state |-> "new"]

Serve(c) ==
    /\ At(c, {"idle"}) /\ entry.state = "new"
    /\ entry' = [entry EXCEPT !.state = "pending"]
    /\ serving' = [serving EXCEPT ![c] = [phase |-> "running", entry |-> entry.id, sent |-> 0]]
    /\ UNCHANGED <<events, tab, reader>>

\* The stale reclaim, from a dead connection or a slow one.
Reclaim ==
    /\ entry.state = "pending" /\ entry.id < MaxEntries
    /\ Replaced
    /\ UNCHANGED <<serving, events, tab, reader>>

\* The worker failed without output, or its connection was lost at any point:
\* another delivery, or, at the limit of retries, the end.
Requeue(c) ==
    /\ At(c, {"running"})
    /\ \/ ~IsLive(c) /\ Yields(c) /\ UNCHANGED entry
       \/ IsLive(c) /\ entry.id < MaxEntries /\ Replaced /\ Yields(c)
       \/ IsLive(c) /\ entry' = [entry EXCEPT !.state = "acked"] /\ Turns(c, "closing")
    /\ UNCHANGED <<events, tab, reader>>

AckEntry(c) ==
    /\ At(c, {"acking", "refusing"})
    /\ entry' = IF IsLive(c) THEN [entry EXCEPT !.state = "acked"] ELSE entry
    /\ IF At(c, {"acking"}) THEN Yields(c) ELSE Turns(c, "releasing")
    /\ UNCHANGED <<events, tab, reader>>

-----------------------------------------------------------------------------
(* A generation and its end. *)

RelayToken(c) ==
    /\ At(c, {"running"}) /\ serving[c].sent < MaxRelayed
    /\ serving' = [serving EXCEPT ![c].sent = @ + 1]
    /\ Publishes(Event("token", c))
    /\ UNCHANGED <<entry, tab, reader>>

\* (mutant) a job that is settled already counts as paid
VerdictRepeated == IF tab.hold = "refunded" THEN "stale" ELSE "paid"

\* The settlement's answer: only the first counts as paid.
Verdict == IF tab.paid THEN "acking"                   \* duplicate
           ELSE IF tab.hold = "held" THEN "paid"
           ELSE "stale"                                \* stale_no_payout

\* What Core received: a worker that streamed nothing may hand its text in at
\* the end, and one that was cancelled may have none.
Received(c) == IF serving[c].sent > 0 THEN {serving[c].sent} ELSE 0..MaxRelayed

\* record_and_settle before anything is said; the charge is what was received.
\* The transaction may fail.
RecordAndSettle(c) ==
    /\ At(c, {"running"})
    /\ \/ \E units \in Received(c) :
            /\ serving' = [serving EXCEPT ![c].phase = Verdict, ![c].sent = units]
            /\ tab' = IF Verdict = "paid"
                      THEN [hold |-> "settled", paid |-> TRUE, units |-> units]
                      ELSE tab
       \/ Turns(c, "unsettled") /\ tab' = tab
    /\ UNCHANGED <<entry, events, reader>>

PublishDone(c) ==
    /\ At(c, {"paid"})
    /\ Publishes(Event("done", c))
    /\ Turns(c, "acking")
    /\ UNCHANGED <<entry, tab, reader>>

\* The request was bad, or the worker failed after its first token.
FailsVisibly(c) ==
    /\ At(c, {"running"})
    /\ Turns(c, "failing")
    /\ UNCHANGED <<entry, events, tab, reader>>

\* A settlement that failed leaves the delivery pending; the other errors are
\* followed by an acknowledgement or a refund.
PublishError(c) ==
    /\ At(c, {"stale", "unsettled", "failing", "closing"})
    /\ Publishes(Event("error", c))
    /\ CASE At(c, {"stale"})     -> Turns(c, "acking")
         [] At(c, {"failing"})   -> Turns(c, "refusing")
         [] At(c, {"closing"})   -> Turns(c, "releasing")
         [] At(c, {"unsettled"}) -> Yields(c)
    /\ UNCHANGED <<entry, tab, reader>>

ReleaseHold(c) ==
    /\ At(c, {"releasing"})
    /\ tab' = IF tab.hold = "held" THEN [tab EXCEPT !.hold = "refunded"] ELSE tab
    /\ Yields(c)
    /\ UNCHANGED <<entry, events, reader>>

\* The process dies: the delivery stays as it is.
ServerCrash(c) ==
    /\ ~At(c, {"idle"})
    /\ Yields(c)
    /\ UNCHANGED <<entry, events, tab, reader>>

\* The stale-hold sweeper.
SweepTab ==
    /\ tab.hold = "held"
    /\ tab' = [tab EXCEPT !.hold = "refunded"]
    /\ UNCHANGED <<entry, serving, events, reader>>

-----------------------------------------------------------------------------
(* The reader: one cursor over the buffer. *)

Read ==
    /\ reader.state = "reading" /\ reader.cursor < Len(events)
    /\ LET e == events[reader.cursor + 1] IN
         reader' = [cursor |-> reader.cursor + 1,
                    state  |-> CASE e.kind = "done"  -> "completed"
                                 [] e.kind = "error" -> "failed"
                                 [] e.kind = "token" -> "reading"]
    /\ UNCHANGED <<entry, serving, events, tab>>

\* 300 s without an event: the loop ends as it does after a terminator, and the
\* answer is closed with [DONE], or returned as it stands.
IdleTimeout ==
    /\ reader.state = "reading" /\ reader.cursor = Len(events)
    /\ reader' = [reader EXCEPT !.state = "completed"]
    /\ UNCHANGED <<entry, serving, events, tab>>

ClientLeaves ==
    /\ reader.state = "reading"
    /\ reader' = [reader EXCEPT !.state = "left"]
    /\ UNCHANGED <<entry, serving, events, tab>>

StreamNext ==
    \/ \E c \in Carriers :
         \/ Serve(c) \/ Requeue(c) \/ AckEntry(c) \/ RelayToken(c) \/ RecordAndSettle(c)
         \/ PublishDone(c) \/ FailsVisibly(c) \/ PublishError(c) \/ ReleaseHold(c)
         \/ ServerCrash(c)
    \/ Reclaim \/ SweepTab \/ Read \/ IdleTimeout \/ ClientLeaves

StreamSpec == StreamInit /\ [][StreamNext]_streamVars

-----------------------------------------------------------------------------
TokensBefore(i, by) ==
    Cardinality({k \in 1..(i - 1) : events[k].kind = "token" /\ events[k].by = by})

(***************************************************************************)
(* A job's success is announced once, never before it is paid, and what    *)
(* the announcement holds is what the client is charged for, and all that  *)
(* its own delivery streamed, if it did: whichever deliveries of the job   *)
(* crash, fail, are refunded or overlap (worker_ws.py, "the client never   *)
(* gets a success terminator on an unsettled job").                        *)
(***************************************************************************)
DoneIsSettled == \A i \in DOMAIN events : events[i].kind = "done" =>
    /\ tab = [hold |-> "settled", paid |-> TRUE, units |-> events[i].units]
    /\ TokensBefore(i, events[i].by) \in {0, events[i].units}
    /\ \A k \in DOMAIN events \ {i} : events[k].kind # "done"

(***************************************************************************)
(* A client whose answer ended as a success has a settled job: "the client *)
(* never gets a success terminator on an unsettled job" (worker_ws.py,     *)
(* _handle_worker_generation).                                             *)
(***************************************************************************)
SuccessIsSettled == reader.state = "completed" => tab.hold = "settled"
=============================================================================
