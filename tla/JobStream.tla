------------------------------ MODULE JobStream ------------------------------
(***************************************************************************)
(* The job stream of grid_api/services/job_queue.py: one Redis stream read *)
(* by one consumer group.  An entry is a delivery of a job; a retry never  *)
(* edits it but appends a replacement and acknowledges the original in one *)
(* script.  Routing moves an entry to another consumer in place and leaves *)
(* a hint in that worker's inbox.                                          *)
(***************************************************************************)
EXTENDS Integers, Sequences

CONSTANTS
    Jobs, Workers,
    NoWorker,       \* the owner of an entry nobody has read
    Reclaimer,      \* the consumer name of claim_stale_jobs
    MaxRequeue,     \* mismatch bounces, and retries after a disconnect
    MaxGeneration,  \* retries after an empty generation
    MaxAffinity     \* bounces towards a targeted worker

ASSUME StreamAssumption ==
    /\ NoWorker \notin Workers /\ Reclaimer \notin Workers /\ NoWorker # Reclaimer
    /\ MaxRequeue \in Nat /\ MaxGeneration \in 0..MaxRequeue /\ MaxAffinity \in Nat

VARIABLES
    stream,     \* the entries, in the order of their ids
    sent,       \* (history) entries ever made for each job
    recovered   \* (history) entries of each job made by stale recovery

streamVars == <<stream, sent, recovered>>

Entries == [job : Jobs, state : {"new", "pending", "acked", "expired"},
            owner : Workers \cup {NoWorker, Reclaimer},
            hint : Workers \cup {NoWorker}, routed : BOOLEAN, late : BOOLEAN,
            requeues : Nat, passes : Nat, failures : Nat]

StreamTypeOK ==
    /\ stream \in Seq(Entries)
    /\ sent \in [Jobs -> Nat]
    /\ recovered \in [Jobs -> Nat]

StreamInit ==
    /\ stream = <<>>
    /\ sent = [j \in Jobs |-> 0]
    /\ recovered = [j \in Jobs |-> 0]

Ids     == DOMAIN stream
Live(k) == stream[k].state \in {"new", "pending"}

\* XPENDING: still on the pending list, of this consumer.
Pending(k)  == stream[k].state = "pending"
Owned(k, w) == Pending(k) /\ stream[k].owner = w

Submitted(j) == [job |-> j, state |-> "new", owner |-> NoWorker, hint |-> NoWorker,
                 routed |-> FALSE, late |-> FALSE, requeues |-> 0, passes |-> 0, failures |-> 0]

\* submit_job
AddJob(j) ==
    /\ sent[j] = 0
    /\ stream' = Append(stream, Submitted(j))
    /\ sent' = [sent EXCEPT ![j] = 1]
    /\ UNCHANGED recovered

\* (mutant) a consumer also reads what is already on its pending list
ReadNewOrOwn(k, w) ==
    /\ stream[k].state = "new" \/ Owned(k, w)
    /\ stream' = [stream EXCEPT ![k].state = "pending", ![k].owner = w]
    /\ UNCHANGED <<sent, recovered>>

\* XREADGROUP hands out entries in order, each to one consumer.
ReadNew(k, w) ==
    /\ stream[k].state = "new"
    /\ \A n \in Ids : stream[n].state = "new" => k <= n
    /\ stream' = [stream EXCEPT ![k].state = "pending", ![k].owner = w]
    /\ UNCHANGED <<sent, recovered>>

\* Off the pending list an entry has no owner; a hint for it is discarded.
Gone(k, how) == [stream EXCEPT ![k].state = how, ![k].owner = NoWorker, ![k].hint = NoWorker]

\* _TAKE_ROUTED: a hint counts once and only for the owner it names; past the
\* deadline the entry is acknowledged and its holder must fail the job.
TakeRouted(k, w) ==
    /\ Owned(k, w) /\ stream[k].hint = w
    /\ stream' = IF stream[k].late THEN Gone(k, "expired")
                  ELSE [stream EXCEPT ![k].hint = NoWorker, ![k].routed = TRUE]
    /\ UNCHANGED <<sent, recovered>>

\* XACK does not ask who owns the entry.
Acked(k) == IF Pending(k) THEN Gone(k, "acked") ELSE stream

Ack(k) == stream' = Acked(k) /\ UNCHANGED <<sent, recovered>>

-----------------------------------------------------------------------------
(***************************************************************************)
(* _HANDOFF: the replacement carries the fields and counters of the entry, *)
(* in one indivisible script with the acknowledgement.                     *)
(***************************************************************************)
Requeued(k) == [stream[k] EXCEPT !.state = "new", !.owner = NoWorker, !.hint = NoWorker,
                                 !.routed = FALSE]

\* (mutant) the replacement is rebuilt by the caller, without its counters
RequeuedAfresh(k, e) == Append(Acked(k), Submitted(e.job))

\* (mutant) the append and the acknowledgement are two calls, the second lost
RequeuedUnacked(k, e) == Append(stream, e)

Replaced(k, e) == Append(Acked(k), e)

Replace(k, e) ==
    /\ stream' = Replaced(k, e)
    /\ sent' = [sent EXCEPT ![stream[k].job] = @ + 1]

\* (mutant) the affinity counter counts down
BounceEntryDown(k) ==
    /\ Replace(k, [Requeued(k) EXCEPT !.passes = @ - 1])
    /\ UNCHANGED recovered

\* mode "affinity", below its limit
BounceEntry(k) ==
    /\ Replace(k, [Requeued(k) EXCEPT !.passes = @ + 1])
    /\ UNCHANGED recovered

\* mode "mismatch", below its limit
MismatchEntry(k) ==
    /\ Replace(k, [Requeued(k) EXCEPT !.requeues = @ + 1])
    /\ UNCHANGED recovered

\* mode "failure", below its limit: a retry opens a new wait for capacity
RetryEntry(k) ==
    /\ Replace(k, [Requeued(k) EXCEPT !.failures = @ + 1, !.requeues = @ + 1, !.late = FALSE])
    /\ UNCHANGED recovered

\* mode "stale"
RecoverEntry(k) ==
    /\ Replace(k, Requeued(k))
    /\ recovered' = [recovered EXCEPT ![stream[k].job] = @ + 1]

\* _ROUTE, to a registered peer: the hint first, then XCLAIM.
RouteEntry(k, w) ==
    stream' = [stream EXCEPT ![k].hint = w, ![k].owner = w] /\ UNCHANGED <<sent, recovered>>

\* (mutant) entries waiting in a routing inbox are not reclaimed
ClaimStaleRead(k) ==
    /\ Pending(k) /\ stream[k].owner # Reclaimer /\ stream[k].hint = NoWorker
    /\ stream' = [stream EXCEPT ![k].owner = Reclaimer]
    /\ UNCHANGED <<sent, recovered>>

\* XAUTOCLAIM of an idle entry by the reclaimer
ClaimStale(k) ==
    /\ Pending(k) /\ stream[k].owner # Reclaimer
    /\ stream' = [stream EXCEPT ![k].owner = Reclaimer]
    /\ UNCHANGED <<sent, recovered>>

\* The dispatch deadline of an entry passes.
Lapse(k) ==
    /\ Live(k) /\ ~stream[k].late
    /\ stream' = [stream EXCEPT ![k].late = TRUE]
    /\ UNCHANGED <<sent, recovered>>
=============================================================================
