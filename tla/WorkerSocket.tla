----------------------------- MODULE WorkerSocket -----------------------------
(***************************************************************************)
(* The dispatch of text jobs: the loop worker_websocket runs for each      *)
(* connection (grid_api/routers/worker_ws.py), over the job stream, with    *)
(* the stale reclaimer and the disconnect cleanup.  Every Redis call and   *)
(* every database transaction is one action, so the stream may change      *)
(* between any two of them.  A connection holds up to four deliveries: one *)
(* the poller waits to put down, one in the prefetch slot, the one it      *)
(* dispatches, and one it still has to requeue when it closes.             *)
(***************************************************************************)
EXTENDS JobStream

CONSTANTS
    Conns,      \* WebSocket connections
    WorkerOf,   \* the worker behind each connection: reconnects share it
    Serves,     \* the jobs each worker's models, formats and features cover
    Target,     \* the worker a job prefers or must run on, or NoWorker
    Hard,       \* jobs bound to their target (probes, canaries)
    Lapsing,    \* jobs whose dispatch deadline may pass
    MaxSlow,    \* bound: claims of an entry whose holder is still at work
    MaxOutages, \* bound: settlements the database refuses
    MaxDrops    \* bound: lost connections and crashed processes

ASSUME SocketAssumption ==
    /\ WorkerOf \in [Conns -> Workers]
    /\ Serves \in [Workers -> SUBSET Jobs]
    /\ Target \in [Jobs -> Workers \cup {NoWorker}]
    /\ Hard \subseteq Jobs /\ Lapsing \subseteq Jobs
    /\ MaxSlow \in Nat /\ MaxOutages \in Nat /\ MaxDrops \in Nat

VARIABLES
    conn,       \* the locals of each connection's handler
    online,     \* grid:workers:active
    hold,       \* the reservation of each job (see JobMoney)
    attempts,   \* (history) dispatches of each job to a backend
    slow, outages, drops

socketVars == <<conn, online, hold, attempts, slow, outages, drops>>
vars       == <<streamVars, socketVars>>

None == 0   \* no delivery: stream ids start at 1

Loop    == {"idle", "fetched", "targeting", "bouncing", "unserved", "mismatched",
            "routing", "running", "acking", "closing", "failing"}
Cleanup == {"requeueing", "closingCurrent", "draining", "closingSlot"}

Handlers == [step : {"off"} \cup Loop \cup Cleanup, job : Nat, current : Nat,
             slot : Nat, poller : Nat, peers : SUBSET Workers]

TypeOK ==
    /\ StreamTypeOK
    /\ conn \in [Conns -> Handlers]
    /\ online \subseteq Workers
    /\ hold \in [Jobs -> {"open", "charged", "released"}]
    /\ attempts \in [Jobs -> Nat]
    /\ slow \in Nat /\ outages \in Nat /\ drops \in Nat

Closed == [step |-> "off", job |-> None, current |-> None, slot |-> None,
           poller |-> None, peers |-> {}]

Init ==
    /\ StreamInit
    /\ conn = [c \in Conns |-> Closed]
    /\ online = {}
    /\ hold = [j \in Jobs |-> "open"]
    /\ attempts = [j \in Jobs |-> 0]
    /\ slow = 0 /\ outages = 0 /\ drops = 0

Job(k)   == stream[k].job
At(c, s) == conn[c].step = s

\* The deliveries a connection holds.
Holding(c) == {conn[c].job, conn[c].current, conn[c].slot, conn[c].poller} \ {None}

Becomes(c, r) == conn' = [conn EXCEPT ![c] = r]
GoTo(c, s)    == Becomes(c, [conn[c] EXCEPT !.step = s])
Finish(c)     == Becomes(c, [conn[c] EXCEPT !.step = "idle", !.job = None, !.peers = {}])

\* release_job and record_and_settle close a reservation once (JobMoney).
Settled(j, how) == [hold EXCEPT ![j] = IF @ = "open" THEN how ELSE @]

-----------------------------------------------------------------------------
Submit(j) == AddJob(j) /\ UNCHANGED socketVars

Connect(c) ==
    /\ At(c, "off")
    /\ GoTo(c, "idle")
    /\ online' = online \cup {WorkerOf[c]}
    /\ UNCHANGED <<streamVars, hold, attempts, slow, outages, drops>>

(***************************************************************************)
(* _poll_jobs: pop_job looks in the routing inbox, then in the stream, and *)
(* puts what it got in the slot when the loop has taken the last one.       *)
(***************************************************************************)
Polls(c, k) ==
    /\ conn[c].step \in Loop /\ conn[c].poller = None
    /\ TakeRouted(k, WorkerOf[c]) \/ ReadNew(k, WorkerOf[c])
    /\ Becomes(c, [conn[c] EXCEPT !.poller = k])
    /\ UNCHANGED <<online, hold, attempts, slow, outages, drops>>

Prefetch(c) ==
    /\ conn[c].step \in Loop /\ conn[c].poller # None /\ conn[c].slot = None
    /\ Becomes(c, [conn[c] EXCEPT !.slot = conn[c].poller, !.poller = None])
    /\ UNCHANGED <<streamVars, online, hold, attempts, slow, outages, drops>>

\* The loop takes the slot and refreshes the registration.
Take(c) ==
    /\ At(c, "idle") /\ conn[c].slot # None
    /\ Becomes(c, [conn[c] EXCEPT !.step = "fetched", !.job = conn[c].slot, !.slot = None])
    /\ online' = online \cup {WorkerOf[c]}
    /\ UNCHANGED <<streamVars, hold, attempts, slow, outages, drops>>

\* _keepalive_registry
Refresh(c) ==
    /\ conn[c].step \in Loop /\ WorkerOf[c] \notin online
    /\ online' = online \cup {WorkerOf[c]}
    /\ UNCHANGED <<streamVars, conn, hold, attempts, slow, outages, drops>>

\* routed_dispatch_status: ownership and deadline are checked again for a
\* routed delivery, after the time it spent in the slot.
Recheck(c) ==
    LET k == conn[c].job IN
    /\ At(c, "fetched")
    /\ \/ stream[k].state = "expired" /\ GoTo(c, "closing") /\ UNCHANGED streamVars
       \/ stream[k].state # "expired" /\ ~stream[k].routed
          /\ GoTo(c, "targeting") /\ UNCHANGED streamVars
       \/ stream[k].state # "expired" /\ stream[k].routed
          /\ IF ~Owned(k, WorkerOf[c]) THEN Finish(c) /\ UNCHANGED streamVars
             ELSE IF stream[k].late THEN Ack(k) /\ GoTo(c, "closing")
             ELSE GoTo(c, "targeting") /\ UNCHANGED streamVars
    /\ UNCHANGED <<online, hold, attempts, slow, outages, drops>>

\* Compatible here: send the job; otherwise look for a peer.
Dispatch(c) ==
    LET k == conn[c].job IN
    IF Job(k) \in Serves[WorkerOf[c]]
    THEN /\ Becomes(c, [conn[c] EXCEPT !.step = "running", !.current = k])
         /\ attempts' = [attempts EXCEPT ![Job(k)] = @ + 1]
    ELSE GoTo(c, "mismatched") /\ UNCHANGED attempts

ElsewhereBound(c) ==
    LET t == Target[Job(conn[c].job)] IN t # NoWorker /\ t # WorkerOf[c]

IsHard(c) == Job(conn[c].job) \in Hard

Choose(c) ==
    /\ At(c, "targeting")
    /\ IF ElsewhereBound(c) /\ Target[Job(conn[c].job)] \in online
       THEN GoTo(c, "bouncing") /\ UNCHANGED attempts
       ELSE IF ElsewhereBound(c) /\ IsHard(c) THEN GoTo(c, "unserved") /\ UNCHANGED attempts
       ELSE Dispatch(c)
    /\ UNCHANGED <<streamVars, online, hold, slow, outages, drops>>

\* bounce_for_affinity: at the limit a soft preference runs here.
Bounce(c) ==
    LET k == conn[c].job IN
    /\ At(c, "bouncing")
    /\ IF ~Owned(k, WorkerOf[c]) THEN Finish(c) /\ UNCHANGED <<streamVars, attempts>>
       ELSE IF stream[k].passes < MaxAffinity
            THEN BounceEntry(k) /\ Finish(c) /\ UNCHANGED attempts
       ELSE /\ UNCHANGED streamVars
            /\ IF IsHard(c) THEN GoTo(c, "unserved") /\ UNCHANGED attempts ELSE Dispatch(c)
    /\ UNCHANGED <<online, hold, slow, outages, drops>>

\* The target did not claim the job: acknowledged here, whoever owns it.
Unserved(c) ==
    /\ At(c, "unserved")
    /\ Ack(conn[c].job)
    /\ GoTo(c, "failing")
    /\ UNCHANGED <<online, hold, attempts, slow, outages, drops>>

-----------------------------------------------------------------------------
(***************************************************************************)
(* _requeue_incompatible_job: a compatible registered peer gets the        *)
(* delivery itself; without one it goes back to the stream, a bounded      *)
(* number of times.                                                        *)
(***************************************************************************)
Compatible(c, w) ==
    LET j == Job(conn[c].job) IN
    /\ w # WorkerOf[c] /\ j \in Serves[w]
    /\ j \in Hard => Target[j] \in {w, NoWorker}

FindPeers(c) ==
    /\ At(c, "mismatched")
    /\ Becomes(c, [conn[c] EXCEPT !.step = "routing",
                                  !.peers = {w \in online : Compatible(c, w)}])
    /\ UNCHANGED <<streamVars, online, hold, attempts, slow, outages, drops>>

RouteTo(c, w) ==
    LET k == conn[c].job IN
    /\ At(c, "routing") /\ w \in conn[c].peers
    /\ IF ~Owned(k, WorkerOf[c]) THEN Finish(c) /\ UNCHANGED streamVars
       ELSE IF stream[k].late THEN Ack(k) /\ GoTo(c, "closing")
       ELSE IF w \in online THEN RouteEntry(k, w) /\ Finish(c)
       ELSE Becomes(c, [conn[c] EXCEPT !.peers = @ \ {w}]) /\ UNCHANGED streamVars
    /\ UNCHANGED <<online, hold, attempts, slow, outages, drops>>

Mismatch(c) ==
    LET k == conn[c].job IN
    /\ At(c, "routing") /\ conn[c].peers = {}
    /\ IF ~Owned(k, WorkerOf[c]) THEN Finish(c) /\ UNCHANGED streamVars
       ELSE IF stream[k].requeues < MaxRequeue THEN MismatchEntry(k) /\ Finish(c)
       ELSE Ack(k) /\ GoTo(c, "closing")
    /\ UNCHANGED <<online, hold, attempts, slow, outages, drops>>

-----------------------------------------------------------------------------
(***************************************************************************)
(* The end of a generation.  A success is settled before it is             *)
(* acknowledged; a settlement that failed is left for the reclaimer, and    *)
(* current_job still names it.                                             *)
(***************************************************************************)
Succeeds(c) ==
    /\ At(c, "running")
    /\ hold' = Settled(Job(conn[c].job), "charged")
    /\ Becomes(c, [conn[c] EXCEPT !.step = "acking", !.current = None])
    /\ UNCHANGED <<streamVars, online, attempts, slow, outages, drops>>

\* (mutant) a failed settlement is acknowledged like a success
SettleFailsAcked(c) ==
    /\ At(c, "running") /\ outages < MaxOutages
    /\ Ack(conn[c].job)
    /\ Finish(c)
    /\ outages' = outages + 1
    /\ UNCHANGED <<online, hold, attempts, slow, drops>>

SettleFails(c) ==
    /\ At(c, "running") /\ outages < MaxOutages
    /\ Finish(c)
    /\ outages' = outages + 1
    /\ UNCHANGED <<streamVars, online, hold, attempts, slow, drops>>

AckPaid(c) ==
    /\ At(c, "acking")
    /\ Ack(conn[c].job)
    /\ Finish(c)
    /\ UNCHANGED <<online, hold, attempts, slow, outages, drops>>

\* The request was bad, or the worker failed after the first token.
FailsVisibly(c) ==
    /\ At(c, "running")
    /\ Ack(conn[c].job)
    /\ GoTo(c, "failing")
    /\ UNCHANGED <<online, hold, attempts, slow, outages, drops>>

\* (mutant) a superseded retry counts as a closed one
FailsEmptyHasty(c) ==
    LET k == conn[c].job IN
    /\ At(c, "running")
    /\ IF Pending(k) /\ stream[k].failures < MaxGeneration
       THEN RetryEntry(k) /\ Becomes(c, [conn[c] EXCEPT !.step = "idle", !.job = None, !.current = None])
       ELSE Ack(k) /\ GoTo(c, "closing")
    /\ UNCHANGED <<online, hold, attempts, slow, outages, drops>>

\* (mutant) a retry does not ask whether the delivery is still pending
FailsEmptyAnyway(c) ==
    LET k == conn[c].job IN
    /\ At(c, "running")
    /\ IF stream[k].failures < MaxGeneration
       THEN RetryEntry(k) /\ Becomes(c, [conn[c] EXCEPT !.step = "idle", !.job = None, !.current = None])
       ELSE Ack(k) /\ GoTo(c, "closing")
    /\ UNCHANGED <<online, hold, attempts, slow, outages, drops>>

\* Nothing was generated: requeue_job, which asks only that it be pending.
FailsEmpty(c) ==
    LET k == conn[c].job IN
    /\ At(c, "running")
    /\ IF ~Pending(k) \/ stream[k].failures < MaxGeneration
       THEN /\ IF Pending(k) THEN RetryEntry(k) ELSE UNCHANGED streamVars
            /\ Becomes(c, [conn[c] EXCEPT !.step = "idle", !.job = None, !.current = None])
       ELSE Ack(k) /\ GoTo(c, "closing")
    /\ UNCHANGED <<online, hold, attempts, slow, outages, drops>>

\* release_job after a terminal error.
Release(c) ==
    LET k == conn[c].job IN
    /\ conn[c].step \in {"closing", "failing"}
    /\ hold' = Settled(Job(k), "released")
    /\ Becomes(c, [conn[c] EXCEPT !.step = "idle", !.job = None, !.peers = {},
                                  !.current = IF @ = k THEN None ELSE @])
    /\ UNCHANGED <<streamVars, online, attempts, slow, outages, drops>>

-----------------------------------------------------------------------------
(***************************************************************************)
(* A lost socket, an eviction or an exception ends the loop: the poller is *)
(* cancelled with what it holds, the registration goes unless a newer      *)
(* connection of the worker has it, current_job and the slot are requeued. *)
(***************************************************************************)
Alone(c) == \A d \in Conns \ {c} : WorkerOf[d] = WorkerOf[c] => At(d, "off")

Disconnect(c) ==
    /\ conn[c].step \in Loop /\ drops < MaxDrops
    /\ Becomes(c, [conn[c] EXCEPT !.step = "requeueing", !.job = None,
                                  !.poller = None, !.peers = {}])
    /\ \/ online' = online \ {WorkerOf[c]}
       \/ ~Alone(c) /\ UNCHANGED online
    /\ drops' = drops + 1
    /\ UNCHANGED <<streamVars, hold, attempts, slow, outages>>

RequeueCurrent(c) ==
    LET k == conn[c].current IN
    /\ At(c, "requeueing")
    /\ IF k = None \/ ~Pending(k) THEN GoTo(c, "draining") /\ UNCHANGED streamVars
       ELSE IF stream[k].failures < MaxRequeue THEN RetryEntry(k) /\ GoTo(c, "draining")
       ELSE Ack(k) /\ GoTo(c, "closingCurrent")
    /\ UNCHANGED <<online, hold, attempts, slow, outages, drops>>

ReleaseCurrent(c) ==
    /\ At(c, "closingCurrent")
    /\ hold' = Settled(Job(conn[c].current), "released")
    /\ GoTo(c, "draining")
    /\ UNCHANGED <<streamVars, online, attempts, slow, outages, drops>>

\* A slot that holds another delivery of the current job is left alone.
SameJob(c) == conn[c].current # None /\ Job(conn[c].slot) = Job(conn[c].current)

Drain(c) ==
    LET k == conn[c].slot IN
    /\ At(c, "draining")
    /\ IF k = None \/ SameJob(c) \/ ~Pending(k) THEN Becomes(c, Closed) /\ UNCHANGED streamVars
       ELSE IF stream[k].failures < MaxRequeue THEN RetryEntry(k) /\ Becomes(c, Closed)
       ELSE Ack(k) /\ GoTo(c, "closingSlot")
    /\ UNCHANGED <<online, hold, attempts, slow, outages, drops>>

ReleaseSlot(c) ==
    /\ At(c, "closingSlot")
    /\ hold' = Settled(Job(conn[c].slot), "released")
    /\ Becomes(c, Closed)
    /\ UNCHANGED <<streamVars, online, attempts, slow, outages, drops>>

\* The API process dies: no cleanup, the registration outlives it for a minute.
Crash(c) ==
    /\ ~At(c, "off") /\ drops < MaxDrops
    /\ Becomes(c, Closed)
    /\ drops' = drops + 1
    /\ UNCHANGED <<streamVars, online, hold, attempts, slow, outages>>

\* Still registered although its last connection is gone.
Lingers(w) == w \in online /\ \A c \in Conns : WorkerOf[c] = w => conn[c].step \notin Loop

RegistryExpires(w) ==
    /\ Lingers(w)
    /\ online' = online \ {w}
    /\ UNCHANGED <<streamVars, conn, hold, attempts, slow, outages, drops>>

-----------------------------------------------------------------------------
(***************************************************************************)
(* claim_stale_jobs: an entry idle for five minutes is claimed, then        *)
(* replaced.  Its holder may be gone or only slow; a dead one's            *)
(* registration (60 seconds) has expired by then.                          *)
(***************************************************************************)
Attended(k) ==
    \/ \E c \in Conns : k \in Holding(c)
    \/ \E c \in Conns : conn[c].step \in Loop /\ Owned(k, WorkerOf[c]) /\ stream[k].hint = WorkerOf[c]

Claim(k) ==
    /\ ClaimStale(k)
    /\ ~Lingers(stream[k].owner)
    /\ IF Attended(k) THEN slow < MaxSlow /\ slow' = slow + 1 ELSE UNCHANGED slow
    /\ UNCHANGED <<conn, online, hold, attempts, outages, drops>>

Recover(k) ==
    /\ Owned(k, Reclaimer)
    /\ RecoverEntry(k)
    /\ UNCHANGED socketVars

LapseOne(k) == Job(k) \in Lapsing /\ Lapse(k) /\ UNCHANGED socketVars

-----------------------------------------------------------------------------
LoopStep(c) ==
    \/ Prefetch(c) \/ Take(c) \/ Recheck(c) \/ Choose(c) \/ Bounce(c) \/ Unserved(c)
    \/ FindPeers(c) \/ (\E w \in Workers : RouteTo(c, w)) \/ Mismatch(c)
    \/ Succeeds(c) \/ SettleFails(c) \/ AckPaid(c) \/ FailsVisibly(c) \/ FailsEmpty(c)
    \/ Release(c)

CleanupStep(c) == RequeueCurrent(c) \/ ReleaseCurrent(c) \/ Drain(c) \/ ReleaseSlot(c)

ConnStep(c) ==
    \/ Connect(c) \/ (\E k \in Ids : Polls(c, k)) \/ Refresh(c)
    \/ LoopStep(c) \/ CleanupStep(c) \/ Disconnect(c) \/ Crash(c)

Next ==
    \/ \E j \in Jobs : Submit(j)
    \/ \E c \in Conns : ConnStep(c)
    \/ \E w \in Workers : RegistryExpires(w)
    \/ \E k \in Ids : Claim(k) \/ Recover(k) \/ LapseOne(k)

Spec == Init /\ [][Next]_vars
=============================================================================
