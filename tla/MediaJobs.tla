----------------------------- MODULE MediaJobs -----------------------------
(***************************************************************************)
(* The journal of asynchronous video jobs.  A job's hold and its journal   *)
(* row are admitted together; an outbox publishes the job to the stream    *)
(* as often as its attempts allow; the first worker connection to commit   *)
(* the execution fence renders it; a connection that loses its lease is    *)
(* replaced by another one of the same worker, which resumes the render    *)
(* and never starts it afresh.                                             *)
(*                                                                         *)
(* A lease is live or lapsed: a live one may lapse at any time.  Every     *)
(* action is one database transaction, one Redis call or one frame.        *)
(***************************************************************************)
EXTENDS Integers, FiniteSets

CONSTANTS
    Videos,         \* the jobs
    Executors,      \* the workers
    Sockets,        \* worker connections, each reused after a reconnect
    SocketWorker,   \* the worker a connection authenticated as
    Instances,      \* API processes that run the outbox
    MaxAttempts,    \* MAX_DISPATCH_ATTEMPTS
    HeldLimit,      \* held asynchronous jobs an account may have
    MaxTokens,      \* bound of this model: execution tokens issued for a job
    Nobody

ASSUME MediaAssumption ==
    /\ SocketWorker \in [Sockets -> Executors]
    /\ Nobody \notin Executors \union Videos
    /\ MaxAttempts \in Nat /\ HeldLimit \in Nat /\ MaxTokens \in Nat

VARIABLES
    demand,     \* the reservation's status
    payout,     \* is there a worker ledger row
    journal,    \* dispatch_state, dispatch_attempts, is dispatch_deadline ahead
    published,  \* may the stream still deliver the job
    fence,      \* execution_worker_id, execution_token, its lease, and its age
    socket,     \* what each connection does
    outbox,     \* the row each outbox is working on
    renders,    \* frames without resume sent for the job
    closer      \* who closed the hold: a worker, a sweep, or a give-up

mediaVars == <<demand, payout, journal, published, fence, socket, outbox,
               renders, closer>>

Resting == [phase |-> "idle", job |-> Nobody, attempt |-> 0]

MediaTypeOK ==
    /\ demand \in [Videos -> {"none", "held", "charged", "refunded"}]
    /\ payout \in [Videos -> BOOLEAN]
    /\ journal \in [Videos -> [state : {"none", "pending", "dispatching", "queued"},
                               attempts : 0..MaxAttempts, leased : BOOLEAN]]
    /\ published \in [Videos -> BOOLEAN]
    /\ fence \in [Videos -> [worker : Executors \union {Nobody}, token : 0..MaxTokens,
                             live : BOOLEAN, old : BOOLEAN]]
    /\ socket \in [Sockets ->
         [phase : {"idle", "offered", "resumed", "granted", "running", "leaving"},
          job : Videos \union {Nobody}, token : 0..MaxTokens, resume : BOOLEAN,
          open : BOOLEAN]]
    /\ outbox \in [Instances -> [phase : {"idle", "listed", "adding", "added"},
                                 job : Videos \union {Nobody}, attempt : 0..MaxAttempts]]
    /\ renders \in [Videos -> Nat]
    /\ closer \in [Videos -> {"nobody", "worker", "sweep", "giveup"}]

MediaInit ==
    /\ demand    = [j \in Videos |-> "none"]
    /\ payout    = [j \in Videos |-> FALSE]
    /\ journal   = [j \in Videos |-> [state |-> "none", attempts |-> 0, leased |-> FALSE]]
    /\ published = [j \in Videos |-> FALSE]
    /\ fence     = [j \in Videos |-> [worker |-> Nobody, token |-> 0,
                                      live |-> FALSE, old |-> FALSE]]
    /\ socket    = [s \in Sockets |-> [phase |-> "idle", job |-> Nobody, token |-> 0,
                                       resume |-> FALSE, open |-> TRUE]]
    /\ outbox    = [i \in Instances |-> Resting]
    /\ renders   = [j \in Videos |-> 0]
    /\ closer    = [j \in Videos |-> "nobody"]

Started(j) == fence[j].worker # Nobody

-----------------------------------------------------------------------------
\* One hold ends, by whom and how: a release refunds, a terminal charges.
CloseHold(j, status, who) ==
    /\ demand' = [demand EXCEPT ![j] = status]
    /\ closer' = [closer EXCEPT ![j] = who]

KeepHold == UNCHANGED <<demand, closer>>

\* (mutant) a job that was started is given up as well
ReleaseAnyway(j) ==
    IF demand[j] = "held" THEN CloseHold(j, "refunded", "giveup") ELSE KeepHold

\* Release restricted to a job nobody started: decided under the job's lock.
ReleaseUnstarted(j) ==
    IF demand[j] = "held" /\ ~Started(j)
    THEN CloseHold(j, "refunded", "giveup")
    ELSE KeepHold

\* Hold and journal row commit together, behind the account's row lock.
Admit(j) ==
    /\ demand[j] = "none"
    /\ Cardinality({k \in Videos : demand[k] = "held"}) < HeldLimit
    /\ demand' = [demand EXCEPT ![j] = "held"]
    /\ journal' = [journal EXCEPT ![j].state = "pending"]
    /\ UNCHANGED <<payout, published, fence, socket, outbox, renders, closer>>

-----------------------------------------------------------------------------
(* The outbox. *)

\* dispatch_batch lists rows in a transaction of its own.
List(i, j) ==
    /\ outbox[i].phase = "idle"
    /\ demand[j] = "held" /\ ~Started(j) /\ ~journal[j].leased
    /\ outbox' = [outbox EXCEPT ![i] = [phase |-> "listed", job |-> j,
                                        attempt |-> journal[j].attempts]]
    /\ UNCHANGED <<demand, payout, journal, published, fence, socket, renders, closer>>

\* (mutant) one attempt more than there are
SpentLate(attempts) == attempts > MaxAttempts

Spent(attempts) == attempts >= MaxAttempts

\* The attempts it listed are used up: give the job up, unless it started.
Exhaust(i) ==
    /\ outbox[i].phase = "listed" /\ Spent(outbox[i].attempt)
    /\ ReleaseUnstarted(outbox[i].job)
    /\ outbox' = [outbox EXCEPT ![i] = Resting]
    /\ UNCHANGED <<payout, journal, published, fence, socket, renders>>

\* First transaction of dispatch_one: it rereads the row under the lock.
Lease(i) ==
    LET j == outbox[i].job IN
    /\ outbox[i].phase = "listed" /\ ~Spent(outbox[i].attempt)
    /\ IF /\ demand[j] = "held" /\ ~Started(j) /\ ~journal[j].leased
          /\ journal[j].attempts < MaxAttempts
       THEN /\ journal' = [journal EXCEPT ![j] = [state |-> "dispatching",
                              attempts |-> @.attempts + 1, leased |-> TRUE]]
            /\ outbox' = [outbox EXCEPT ![i] = [phase |-> "adding", job |-> j,
                              attempt |-> journal[j].attempts + 1]]
       ELSE journal' = journal /\ outbox' = [outbox EXCEPT ![i] = Resting]
    /\ UNCHANGED <<demand, payout, published, fence, socket, renders, closer>>

\* The append to the stream: it and its reply may each be lost.
Add(i) ==
    /\ outbox[i].phase = "adding"
    /\ \E appended, answered \in BOOLEAN :
         /\ answered => appended
         /\ published' = [published EXCEPT ![outbox[i].job] = @ \/ appended]
         /\ outbox' = [outbox EXCEPT ![i] =
              IF answered THEN [@ EXCEPT !.phase = "added"] ELSE Resting]
    /\ UNCHANGED <<demand, payout, journal, fence, socket, renders, closer>>

\* Second transaction: it counts only while no later attempt took the row.
Confirm(i) ==
    LET j == outbox[i].job IN
    /\ outbox[i].phase = "added"
    /\ journal' = IF journal[j].attempts = outbox[i].attempt
                  THEN [journal EXCEPT ![j].state = "queued"] ELSE journal
    /\ outbox' = [outbox EXCEPT ![i] = Resting]
    /\ UNCHANGED <<demand, payout, published, fence, socket, renders, closer>>

OutboxStops(i) ==
    /\ outbox[i].phase # "idle"
    /\ outbox' = [outbox EXCEPT ![i] = Resting]
    /\ UNCHANGED <<demand, payout, journal, published, fence, socket, renders, closer>>

DispatchLapses(j) ==
    /\ journal[j].leased
    /\ journal' = [journal EXCEPT ![j].leased = FALSE]
    /\ UNCHANGED <<demand, payout, published, fence, socket, outbox, renders, closer>>

\* The last copy is acknowledged, trimmed, or lost with Redis.
Unpublish(j) ==
    /\ published[j]
    /\ published' = [published EXCEPT ![j] = FALSE]
    /\ UNCHANGED <<demand, payout, journal, fence, socket, outbox, renders, closer>>

-----------------------------------------------------------------------------
(* Worker connections. *)

Goes(s, phase) == socket' = [socket EXCEPT ![s].phase = phase]

\* Back to the loop; a connection that was closed meanwhile stays closed.
Rests(s, open) == socket' = [socket EXCEPT ![s] =
    [phase |-> "idle", job |-> Nobody, token |-> 0, resume |-> FALSE, open |-> open]]

\* A delivery, possibly a copy of one another connection holds.
Offer(s, j) ==
    /\ socket[s].phase = "idle" /\ socket[s].open
    /\ published[j]
    /\ socket' = [socket EXCEPT ![s].phase = "offered", ![s].job = j]
    /\ UNCHANGED <<demand, payout, journal, published, fence, outbox, renders, closer>>

\* The claim fails before it commits, or the queue closes the delivery instead
\* of handing it to the worker.
GiveUp(s) ==
    /\ socket[s].phase = "offered"
    /\ ReleaseUnstarted(socket[s].job) \/ KeepHold
    /\ Rests(s, socket[s].open)
    /\ UNCHANGED <<payout, journal, published, fence, outbox, renders>>

\* (mutant) an open hold is enough
ClaimableHeld(j) == demand[j] = "held"

Claimable(j) == demand[j] = "held" /\ ~Started(j)

\* claim_execution: the fence commits before the job is sent.  A lost answer
\* leaves the fence set and the connection without the job.
ClaimExecution(s) ==
    LET j == socket[s].job
        token == fence[j].token + 1 IN
    /\ socket[s].phase = "offered"
    /\ IF Claimable(j)
       THEN /\ token <= MaxTokens
            /\ fence' = [fence EXCEPT ![j] = [worker |-> SocketWorker[s], token |-> token,
                                              live |-> TRUE, old |-> FALSE]]
            /\ \/ socket' = [socket EXCEPT ![s].phase = "granted", ![s].token = token]
               \/ Rests(s, socket[s].open)
       ELSE fence' = fence /\ Rests(s, socket[s].open)
    /\ UNCHANGED <<demand, payout, journal, published, outbox, renders, closer>>

\* claim_resumption, tried first in every round of the loop, also by a
\* connection whose socket was just closed: the same worker, a fresh token.
ClaimResumption(s, j) ==
    LET token == fence[j].token + 1 IN
    /\ socket[s].phase = "idle"
    /\ fence[j].worker = SocketWorker[s] /\ demand[j] = "held"
    /\ ~fence[j].live /\ ~fence[j].old
    /\ token <= MaxTokens
    /\ fence' = [fence EXCEPT ![j].token = token, ![j].live = TRUE]
    /\ \/ socket' = [socket EXCEPT ![s] = [phase |-> "resumed", job |-> j, token |-> token,
                                           resume |-> TRUE, open |-> @.open]]
       \/ Rests(s, FALSE)
    /\ UNCHANGED <<demand, payout, journal, published, outbox, renders, closer>>

\* The session's token still holds a live lease on a held job.
Renewable(s) ==
    LET j == socket[s].job IN
    /\ fence[j].token = socket[s].token /\ fence[j].live
    /\ demand[j] = "held"

\* A resumed job is renewed once more before anything is sent.
RenewResumed(s) ==
    /\ socket[s].phase = "resumed"
    /\ IF Renewable(s) THEN Goes(s, "granted") ELSE Rests(s, FALSE)
    /\ UNCHANGED <<demand, payout, journal, published, fence, outbox, renders, closer>>

\* The frame to the worker; only a first claim asks it to render.
SendJob(s) ==
    /\ socket[s].phase = "granted" /\ socket[s].open
    /\ Goes(s, "running")
    /\ renders' = IF socket[s].resume THEN renders
                  ELSE [renders EXCEPT ![socket[s].job] = @ + 1]
    /\ UNCHANGED <<demand, payout, journal, published, fence, outbox, closer>>

\* terminal_authorized_in_session: the current token, and a live lease while
\* the hold is open.
Authorized(s) ==
    LET j == socket[s].job IN
    /\ fence[j].token = socket[s].token
    /\ demand[j] = "held" => fence[j].live

\* (mutant) the hold may have been closed before
SettlesClosed(j) == demand[j] # "none"

\* record_and_settle: payout row and hold commit together or not at all.
Settles(j) == demand[j] = "held"

Finish(s) ==
    LET j == socket[s].job IN
    /\ socket[s].phase = "running"
    /\ IF Authorized(s) /\ ~payout[j] /\ Settles(j)
       THEN CloseHold(j, "charged", "worker") /\ payout' = [payout EXCEPT ![j] = TRUE]
       ELSE KeepHold /\ payout' = payout
    /\ socket' = [socket EXCEPT ![s].phase = "leaving", ![s].open = @ /\ Authorized(s)]
    /\ UNCHANGED <<journal, published, fence, outbox, renders>>

\* The worker fails, or its output or receipt does not verify: refund, if this
\* session may.  A job that got no upload slots is refunded before it is sent.
Fail(s) ==
    LET j == socket[s].job
        refunds == Authorized(s) /\ demand[j] = "held" IN
    /\ socket[s].phase \in {"granted", "running"}
    /\ IF refunds THEN CloseHold(j, "refunded", "worker") ELSE KeepHold
    /\ socket' = [socket EXCEPT ![s].phase = "leaving", ![s].open = @ /\ refunds]
    /\ UNCHANGED <<payout, journal, published, fence, outbox, renders>>

\* The session ends without a verdict: its renewal failed, the socket or the
\* database did, or the closed socket refused the frame.
Break(s) ==
    /\ socket[s].phase \in {"granted", "running"}
    /\ socket' = [socket EXCEPT ![s].phase = "leaving", ![s].open = FALSE]
    /\ UNCHANGED <<demand, payout, journal, published, fence, outbox, renders, closer>>

\* Its lease ends with it, unless a later session has the token; the detach
\* itself may fail.
Detach(s) ==
    LET j == socket[s].job IN
    /\ socket[s].phase = "leaving"
    /\ fence' \in {fence, IF fence[j].token = socket[s].token
                          THEN [fence EXCEPT ![j].live = FALSE] ELSE fence}
    /\ Rests(s, socket[s].open)
    /\ UNCHANGED <<demand, payout, journal, published, outbox, renders, closer>>

\* The process dies: nothing is detached.
SocketCrash(s) ==
    /\ socket[s].phase # "idle"
    /\ Rests(s, FALSE)
    /\ UNCHANGED <<demand, payout, journal, published, fence, outbox, renders, closer>>

Reconnect(s) ==
    /\ socket[s].phase = "idle" /\ ~socket[s].open
    /\ Rests(s, TRUE)
    /\ UNCHANGED <<demand, payout, journal, published, fence, outbox, renders, closer>>

\* The cleanup of a connection requeues its delivery, which may give up.
CleanupGivesUp(s) ==
    /\ socket[s].phase \in {"offered", "granted", "running"} /\ ~socket[s].resume
    /\ ReleaseUnstarted(socket[s].job)
    /\ Rests(s, FALSE)
    /\ UNCHANGED <<payout, journal, published, fence, outbox, renders>>

\* execution_deadline passes, at the latest 1800 s after the first claim.
ExecutionLapses(j) ==
    /\ fence[j].live \/ (Started(j) /\ ~fence[j].old)
    /\ \E old \in BOOLEAN : fence' = [fence EXCEPT ![j].live = FALSE,
                                                   ![j].old = @ \/ old]
    /\ UNCHANGED <<demand, payout, journal, published, socket, outbox, renders, closer>>

\* The stale-hold sweeper refunds an old hold whatever the journal says: a
\* hold ages from its admission, not from the start of the execution.
SweepHold(j) ==
    /\ demand[j] = "held" /\ ~payout[j]
    /\ CloseHold(j, "refunded", "sweep")
    /\ UNCHANGED <<payout, journal, published, fence, socket, outbox, renders>>

-----------------------------------------------------------------------------
OutboxStep(i) == Exhaust(i) \/ Lease(i) \/ Add(i) \/ Confirm(i)

SocketStep(s) ==
    \/ GiveUp(s) \/ ClaimExecution(s) \/ RenewResumed(s) \/ SendJob(s)
    \/ Finish(s) \/ Fail(s) \/ Break(s) \/ Detach(s)
    \/ SocketCrash(s) \/ Reconnect(s) \/ CleanupGivesUp(s)

MediaNext ==
    \/ \E j \in Videos : Admit(j) \/ DispatchLapses(j) \/ Unpublish(j)
                         \/ ExecutionLapses(j) \/ SweepHold(j)
    \/ \E i \in Instances : OutboxStep(i) \/ OutboxStops(i) \/ \E j \in Videos : List(i, j)
    \/ \E s \in Sockets : SocketStep(s)
                          \/ \E j \in Videos : Offer(s, j) \/ ClaimResumption(s, j)

\* One instance keeps running its outbox: _media_job_outbox loops for ever,
\* errors are caught, and a dispatch lease is a bounded time.  Strong fairness:
\* a restart may interrupt any round, but not every one.
MediaFairness == \E i \in Instances : \A j \in Videos :
    /\ SF_mediaVars(List(i, j))
    /\ SF_mediaVars(OutboxStep(i) /\ outbox[i].job = j)
    /\ WF_mediaVars(DispatchLapses(j))

MediaSpec == MediaInit /\ [][MediaNext]_mediaVars /\ MediaFairness
-----------------------------------------------------------------------------
(***************************************************************************)
(* A video is rendered once: however often the job is published, delivered *)
(* or resumed, one frame at most asks a worker to render it, and only the  *)
(* worker of the fence ever works on it (claim_execution,                  *)
(* claim_resumption).                                                      *)
(***************************************************************************)
RenderedOnce == \A j \in Videos :
    /\ renders[j] <= 1
    /\ \A s \in Sockets : socket[s].job = j /\ socket[s].phase \in {"granted", "running"}
                           => SocketWorker[s] = fence[j].worker

(***************************************************************************)
(* A hold refunded because nobody could serve it was never handed to a     *)
(* worker, and never will be: the give-ups of the outbox, the queue and    *)
(* the cleanup of a connection are decided under the lock of the claim     *)
(* (release_job only_if_unstarted_media).                                  *)
(***************************************************************************)
GivenUpUnstarted == \A j \in Videos :
    closer[j] = "giveup" => renders[j] = 0 /\ ~Started(j)

(***************************************************************************)
(* Of all the connections that ever work on a video, one at most may end   *)
(* it: a session whose lease another one took over is refused, however     *)
(* late its terminal comes and whatever became of the job                  *)
(* (terminal_authorized_in_session).                                       *)
(***************************************************************************)
MayEnd(s) == socket[s].phase \in {"resumed", "granted", "running"} /\ Authorized(s)

OneMayEnd == \A s, t \in Sockets :
    s # t /\ MayEnd(s) /\ MayEnd(t) => socket[s].job # socket[t].job

(***************************************************************************)
(* An execution stays with the worker that started it, its tokens only go  *)
(* up, and attempts to publish are never forgotten: no lapse, crash or     *)
(* reconnect brings an earlier session back.                               *)
(***************************************************************************)
FencesAdvance == [][\A j \in Videos :
    /\ Started(j) => fence'[j].worker = fence[j].worker
    /\ fence[j].token <= fence'[j].token
    /\ journal[j].attempts <= journal'[j].attempts]_mediaVars

(***************************************************************************)
(* An admitted video does not stay undecided: even if every publication is *)
(* lost, some worker starts it or the hold is closed (dispatch_batch,      *)
(* exhaustion).                                                            *)
(***************************************************************************)
DecidedInTheEnd == \A j \in Videos :
    (demand[j] = "held" /\ ~Started(j)) ~> (demand[j] # "held" \/ Started(j))

(***************************************************************************)
(* The money of a video job is that of JobMoney, the specification         *)
(* Reservations implements for the other jobs: its hold ends once, with    *)
(* the worker paid and the customer charged together or with neither, in   *)
(* spite of late terminals, refunds of superseded sessions and sweeps.     *)
(***************************************************************************)
Money == INSTANCE JobMoney WITH
    Jobs   <- Videos,
    phase  <- [j \in Videos |-> IF demand[j] = "none" THEN "open" ELSE demand[j]],
    worker <- payout,
    cost   <- [j \in Videos |-> IF demand[j] \in {"held", "charged"} THEN 1 ELSE 0]

ImplementsVideoMoney == Money!MoneySpec
=============================================================================
