---------------------------- MODULE DispatchProps ----------------------------
(***************************************************************************)
(* What the job stream and the worker loop promise together, and the       *)
(* fairness their liveness needs: connected handlers keep running and the  *)
(* reclaimer loop of main.py (_stale_job_reclaimer) never stops.           *)
(***************************************************************************)
EXTENDS WorkerSocket

(***************************************************************************)
(* However often a job is bounced, routed, retried, reclaimed or requeued  *)
(* by a closing connection, at most one delivery of it is in the stream    *)
(* unread or on the pending list (_HANDOFF appends and acknowledges in one *)
(* script).                                                                *)
(***************************************************************************)
OneLiveDelivery == \A k, n \in Ids :
    Live(k) /\ Live(n) /\ Job(k) = Job(n) => k = n

(***************************************************************************)
(* No two connections ever hold the same delivery, although routing moves  *)
(* a delivery in place and two connections of one worker read under one    *)
(* consumer name.                                                          *)
(***************************************************************************)
HeldOnce == \A c, d \in Conns : c # d => Holding(c) \cap Holding(d) = {}

(***************************************************************************)
(* Two workers generate one job at the same time only after the reclaimer  *)
(* took it from a silent holder: no bounce, route, retry or disconnect     *)
(* doubles the work ("each job goes to exactly one worker", pop_job).       *)
(***************************************************************************)
SoleRunner == \A c, d \in Conns :
    c # d /\ At(c, "running") /\ At(d, "running") /\ Job(conn[c].job) = Job(conn[d].job)
        => recovered[Job(conn[c].job)] > 0

(***************************************************************************)
(* The retry counters travel with the job: apart from stale recoveries a   *)
(* job is delivered a bounded number of times, whichever workers, modes    *)
(* and processes retried it.                                               *)
(***************************************************************************)
RetryBudget == \A j \in Jobs :
    sent[j] <= 1 + recovered[j] + MaxAffinity + 2 * MaxRequeue

\* No delivery of job j is left.
Dead(j) == \A k \in Ids : Job(k) = j => ~Live(k)

(***************************************************************************)
(* A queue verdict that closes a job (limit reached, deadline passed) is   *)
(* the last word: while its holder goes on to fail and refund the job, no  *)
(* other delivery of it can reach a worker.  A superseded holder never     *)
(* gets there.                                                             *)
(***************************************************************************)
LastWord(c) ==
    /\ At(c, "closing")        => Dead(Job(conn[c].job))
    /\ At(c, "closingCurrent") => Dead(Job(conn[c].current))
    /\ At(c, "closingSlot")    => Dead(Job(conn[c].slot))

VerdictIsLast == \A c \in Conns : LastWord(c)

(***************************************************************************)
(* Until a connection is lost every submitted job whose hold is open has a *)
(* live delivery or a handler that is about to close it: nothing is        *)
(* acknowledged, dropped or superseded into nowhere.                       *)
(***************************************************************************)
Closer(c, j) ==
    \/ conn[c].step \in {"closing", "failing"} /\ Job(conn[c].job) = j
    \/ \E k \in Holding(c) : stream[k].state = "expired" /\ Job(k) = j

Cared(j) == (\E k \in Ids : Live(k) /\ Job(k) = j) \/ (\E c \in Conns : Closer(c, j))

NeverStranded == drops = 0 => \A j \in Jobs : sent[j] > 0 /\ hold[j] = "open" => Cared(j)

-----------------------------------------------------------------------------
(***************************************************************************)
(* The stream and its consumers implement DeliveryLife: a job whose        *)
(* delivery is gone never gets another one, and the retry budget is never  *)
(* exceeded.                                                               *)
(***************************************************************************)
Phase(j) == CASE sent[j] = 0 -> "unsent"
              [] \E k \in Ids : Job(k) = j /\ Live(k) -> "live"
              [] OTHER -> "gone"

Life == INSTANCE DeliveryLife WITH
            Budget <- 1 + MaxAffinity + 2 * MaxRequeue,
            phase  <- [j \in Jobs |-> Phase(j)],
            made   <- sent,
            saved  <- recovered

ImplementsDelivery == Life!DeliverySpec

-----------------------------------------------------------------------------
(***************************************************************************)
(* The inductive invariant.  Of the stream: one live delivery a job, whose *)
(* counters account for every entry made of it, and none for a job without *)
(* submission; an expired entry was the last of its job.                   *)
(***************************************************************************)
Counted(k) ==
    /\ stream[k].passes <= MaxAffinity
    /\ stream[k].failures <= MaxRequeue
    /\ stream[k].requeues <= MaxRequeue + stream[k].failures
    /\ Live(k) => sent[Job(k)] = 1 + recovered[Job(k)] + stream[k].passes + stream[k].requeues

StreamInv ==
    /\ OneLiveDelivery
    /\ RetryBudget
    /\ \A j \in Jobs : sent[j] = 0 => recovered[j] = 0 /\ \A k \in Ids : Job(k) # j
    /\ \A k \in Ids : Counted(k)
    /\ \A k \in Ids : stream[k].state = "expired" => Dead(Job(k))
    /\ \A k \in Ids : stream[k].state = "new" => stream[k].hint = NoWorker

(***************************************************************************)
(* Of a connection: what it holds was read and is in no inbox, its places  *)
(* hold different deliveries, and only a recovery takes a delivery from    *)
(* the pending list before the connection has ended with it.               *)
(***************************************************************************)
Before == {"fetched", "targeting", "bouncing", "unserved", "mismatched", "routing"}
Chosen == Before \ {"fetched"}
After  == {"running", "acking", "closing", "failing"}

PlacesInv(c) ==
    /\ {conn[c].job, conn[c].current, conn[c].slot, conn[c].poller} \subseteq Ids \cup {None}
    /\ conn[c].job # None <=> conn[c].step \in Before \cup After
    /\ At(c, "off") => Holding(c) = {}
    /\ At(c, "closingCurrent") => conn[c].current # None
    /\ At(c, "closingSlot") => conn[c].slot # None
    /\ conn[c].slot # None => conn[c].slot \notin {conn[c].job, conn[c].current, conn[c].poller}
    /\ conn[c].poller # None => conn[c].poller \notin {conn[c].job, conn[c].current}
    /\ conn[c].step \in Before => conn[c].job # conn[c].current

HeldInv(c) == \A k \in Holding(c) : stream[k].state # "new" /\ stream[k].hint = NoWorker

Unrecovered(k) == recovered[Job(k)] = 0

WorkInv(c) ==
    /\ \A k \in {conn[c].slot, conn[c].poller} \ {None} :
          Unrecovered(k) /\ ~At(c, "closingSlot") => stream[k].state \in {"pending", "expired"}
    /\ At(c, "fetched") /\ Unrecovered(conn[c].job) =>
          stream[conn[c].job].state \in {"pending", "expired"}
    /\ conn[c].step \in Chosen \cup {"running"} /\ Unrecovered(conn[c].job) => Pending(conn[c].job)

ConnInv(c) == PlacesInv(c) /\ HeldInv(c) /\ WorkInv(c) /\ LastWord(c)

DispatchInv ==
    /\ TypeOK
    /\ StreamInv
    /\ HeldOnce
    /\ \A c \in Conns : ConnInv(c)

(***************************************************************************)
(* While no connection was lost: what a connection works on has not        *)
(* expired under it, and what it acknowledges last is settled.             *)
(***************************************************************************)
WholeInv(c) ==
    /\ conn[c].step \notin Cleanup
    /\ conn[c].step \in Chosen \cup {"running"} => stream[conn[c].job].state # "expired"
    /\ conn[c].current # None => stream[conn[c].current].state # "expired"
    /\ At(c, "acking") => hold[Job(conn[c].job)] # "open"

UnlostInv == drops = 0 =>
    /\ \A c \in Conns : WholeInv(c)
    /\ \A j \in Jobs : sent[j] > 0 /\ hold[j] = "open" => Cared(j)

-----------------------------------------------------------------------------
(***************************************************************************)
(* An empty generation ends a job only after its retries were used up:     *)
(* MaxGeneration retries are that many more attempts at a backend (the     *)
(* comment on MAX_GENERATION_REQUEUE).                                     *)
(***************************************************************************)
RetriesAreAttempts == [][\A c \in Conns : FailsEmpty(c) /\ conn'[c].step = "closing" =>
    attempts[Job(conn[c].job)] > MaxGeneration]_vars

-----------------------------------------------------------------------------
Fairness ==
    /\ \A c \in Conns :
        /\ WF_vars(LoopStep(c)) /\ WF_vars(CleanupStep(c))
        /\ WF_vars(Prefetch(c)) /\ WF_vars(\E k \in Ids : Polls(c, k))
    /\ \A w \in Workers : WF_vars(RegistryExpires(w))
    /\ WF_vars(\E k \in Ids : Claim(k) /\ ~Attended(k))
    /\ WF_vars(\E k \in Ids : Recover(k))

FairSpec == Spec /\ Fairness
=============================================================================
