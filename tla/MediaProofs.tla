---------------------------- MODULE MediaProofs ----------------------------
(***************************************************************************)
(* The journal of asynchronous video jobs renders each video once, gives   *)
(* up only what nobody started, and implements JobMoney.                   *)
(***************************************************************************)
EXTENDS MediaJobs, TLAPS

USE MediaAssumption

(***************************************************************************)
(* The inductive invariant.  A fence keeps its worker, so every session    *)
(* works for it; a session that was not resumed is the first one, and as   *)
(* long as it has not sent its frame nobody has; a worker is paid with the *)
(* charge; and what was given up is refunded and was never started.        *)
(***************************************************************************)
Sessions == {"resumed", "granted", "running", "leaving"}

SessionOK(s) ==
    /\ socket[s].phase # "idle" => socket[s].job \in Videos
    /\ socket[s].phase = "resumed" => socket[s].resume
    /\ socket[s].phase \in Sessions => fence[socket[s].job].worker = SocketWorker[s]

\* About to send the first frame of a job.
FirstFrame(s, j) == socket[s].job = j /\ socket[s].phase = "granted" /\ ~socket[s].resume

FirstOK(j) ==
    /\ renders[j] \in {0, 1}
    /\ renders[j] = 1 => Started(j)
    /\ \A s \in Sockets : FirstFrame(s, j) =>
         renders[j] = 0 /\ \A t \in Sockets \ {s} : ~FirstFrame(t, j)

MoneyOK(j) ==
    /\ payout[j] <=> demand[j] = "charged"
    /\ closer[j] = "giveup" => demand[j] = "refunded" /\ ~Started(j)

MediaInv ==
    /\ MediaTypeOK
    /\ \A s \in Sockets : SessionOK(s)
    /\ \A i \in Instances : outbox[i].phase # "idle" => outbox[i].job \in Videos
    /\ \A j \in Videos : FirstOK(j) /\ MoneyOK(j)

\* Nothing is admitted, and every connection is idle, at the start.
LEMMA MediaInitSafe == MediaInit => MediaInv
BY DEF MediaInit, MediaInv, MediaTypeOK, SessionOK, FirstOK, FirstFrame, MoneyOK, Started,
       Resting, Sessions

-----------------------------------------------------------------------------
(* What a step has to respect. *)

\* A fence is set for a held job, and keeps its worker.
FencesKeep == \A j \in Videos :
    /\ Started(j) => fence'[j].worker = fence[j].worker
    /\ Started(j)' => Started(j) \/ (demand[j] = "held" /\ demand'[j] = "held")

\* No first frame is about to be sent that was not before, nor is one sent.
NoNewFrame ==
    /\ UNCHANGED renders
    /\ \A s \in Sockets, j \in Videos : FirstFrame(s, j)' => FirstFrame(s, j)

MoneyRests == UNCHANGED <<demand, payout, closer>>

\* Only connection s moves.
OnlyMoves(s) == \A t \in Sockets : t # s => socket'[t] = socket[t]

LEMMA SessionsKept ==
    ASSUME MediaInv, FencesKeep, NEW s \in Sockets, OnlyMoves(s), SessionOK(s)'
    PROVE  \A t \in Sockets : SessionOK(t)'
<1> SUFFICES ASSUME NEW t \in Sockets, t # s PROVE SessionOK(t)'
  OBVIOUS
<1>1. SessionOK(t) /\ socket'[t] = socket[t]
  BY DEF MediaInv, OnlyMoves
<1>2. CASE socket[t].phase \in Sessions
  <2>1. socket[t].job \in Videos /\ fence[socket[t].job].worker = SocketWorker[t]
    BY <1>1, <1>2 DEF SessionOK, Sessions
  <2>2. Started(socket[t].job)
    BY <2>1 DEF Started
  <2> QED
    BY <1>1, <2>1, <2>2 DEF SessionOK, FencesKeep
<1>3. CASE socket[t].phase \notin Sessions
  BY <1>1, <1>3 DEF SessionOK
<1> QED
  BY <1>2, <1>3

LEMMA SessionsRest ==
    ASSUME MediaInv, FencesKeep, UNCHANGED socket
    PROVE  \A t \in Sockets : SessionOK(t)'
<1> SUFFICES ASSUME NEW t \in Sockets PROVE SessionOK(t)'
  OBVIOUS
<1>1. SessionOK(t)
  BY DEF MediaInv
<1>2. CASE socket[t].phase \in Sessions
  <2>1. socket[t].job \in Videos /\ fence[socket[t].job].worker = SocketWorker[t]
    BY <1>1, <1>2 DEF SessionOK, Sessions
  <2>2. Started(socket[t].job)
    BY <2>1 DEF Started
  <2> QED
    BY <1>1, <2>1, <2>2 DEF SessionOK, FencesKeep
<1>3. CASE socket[t].phase \notin Sessions
  BY <1>1, <1>3 DEF SessionOK
<1> QED
  BY <1>2, <1>3

LEMMA FirstKept ==
    ASSUME MediaInv, FencesKeep, NoNewFrame
    PROVE  \A j \in Videos : FirstOK(j)'
<1> SUFFICES ASSUME NEW j \in Videos PROVE FirstOK(j)'
  OBVIOUS
<1>1. FirstOK(j) /\ renders' = renders
  BY DEF MediaInv, NoNewFrame
<1>2. Started(j) => Started(j)'
  BY DEF FencesKeep, Started
<1>3. \A s \in Sockets : FirstFrame(s, j)' => FirstFrame(s, j)
  BY DEF NoNewFrame
<1> QED
  BY <1>1, <1>2, <1>3 DEF FirstOK

LEMMA MoneyKept ==
    ASSUME MediaInv, FencesKeep, MoneyRests
    PROVE  \A j \in Videos : MoneyOK(j)'
BY DEF MediaInv, MoneyOK, FencesKeep, MoneyRests

\* A step that leaves fences, connections and frames alone.
LEMMA Aside ==
    ASSUME MediaInv, UNCHANGED <<fence, socket, renders>>
    PROVE  /\ FencesKeep /\ (\A t \in Sockets : SessionOK(t)')
           /\ \A j \in Videos : FirstOK(j)'
<1>1. FencesKeep
  BY DEF FencesKeep, Started
<1>2. NoNewFrame
  BY DEF NoNewFrame, FirstFrame
<1> QED
  BY <1>1, <1>2, SessionsRest, FirstKept

LEMMA AsideSafe ==
    ASSUME MediaInv, MediaTypeOK', UNCHANGED <<fence, socket, renders>>,
           \A k \in Videos : MoneyOK(k)',
           \A i \in Instances : outbox'[i].phase # "idle" => outbox'[i].job \in Videos
    PROVE  MediaInv'
BY Aside DEF MediaInv

LEMMA AsideQuietly ==
    ASSUME MediaInv, MediaTypeOK', UNCHANGED <<fence, socket, renders>>, MoneyRests,
           \A i \in Instances : outbox'[i].phase # "idle" => outbox'[i].job \in Videos
    PROVE  MediaInv'
BY Aside, AsideSafe, MoneyKept

\* A hold that ends is refunded, or charged with the worker paid.
LEMMA HoldEnds ==
    ASSUME MediaInv, NEW j \in Videos, NEW who \in {"worker", "sweep", "giveup"},
           NEW status \in {"charged", "refunded"}, demand[j] = "held",
           UNCHANGED fence, CloseHold(j, status, who),
           who = "giveup" => status = "refunded" /\ ~Started(j),
           payout' = IF status = "charged" THEN [payout EXCEPT ![j] = TRUE] ELSE payout
    PROVE  /\ \A k \in Videos : MoneyOK(k)'
           /\ demand' \in [Videos -> {"none", "held", "charged", "refunded"}]
           /\ closer' \in [Videos -> {"nobody", "worker", "sweep", "giveup"}]
           /\ payout' \in [Videos -> BOOLEAN]
<1>1. /\ demand' = [demand EXCEPT ![j] = status] /\ closer' = [closer EXCEPT ![j] = who]
      /\ demand \in [Videos -> {"none", "held", "charged", "refunded"}]
      /\ closer \in [Videos -> {"nobody", "worker", "sweep", "giveup"}]
      /\ payout \in [Videos -> BOOLEAN]
  BY DEF CloseHold, MediaInv, MediaTypeOK
<1>2. \A k \in Videos : MoneyOK(k)
  BY DEF MediaInv
<1>3. ~payout[j]
  BY <1>2 DEF MoneyOK
<1>4. MoneyOK(j)'
  BY <1>1, <1>3 DEF MoneyOK, Started
<1>5. ASSUME NEW k \in Videos, k # j PROVE MoneyOK(k)'
  <2>1. demand'[k] = demand[k] /\ closer'[k] = closer[k] /\ payout'[k] = payout[k]
    BY <1>1, <1>5
  <2> QED
    BY <1>2, <2>1 DEF MoneyOK, Started
<1> QED
  BY <1>1, <1>4, <1>5

LEMMA GivesUp ==
    ASSUME MediaInv, NEW j \in Videos, ReleaseUnstarted(j) \/ KeepHold,
           UNCHANGED <<payout, fence>>
    PROVE  /\ \A k \in Videos : MoneyOK(k)'
           /\ demand' \in [Videos -> {"none", "held", "charged", "refunded"}]
           /\ closer' \in [Videos -> {"nobody", "worker", "sweep", "giveup"}]
<1>1. CASE demand[j] = "held" /\ ~Started(j) /\ CloseHold(j, "refunded", "giveup")
  BY <1>1, HoldEnds
<1>2. CASE KeepHold
  BY <1>2 DEF KeepHold, MediaInv, MediaTypeOK, MoneyOK, Started
<1> QED
  BY <1>1, <1>2 DEF ReleaseUnstarted

-----------------------------------------------------------------------------
(* Connections. *)

SocketRows == [phase : {"idle", "offered", "resumed", "granted", "running", "leaving"},
               job : Videos \union {Nobody}, token : 0..MaxTokens, resume : BOOLEAN,
               open : BOOLEAN]

\* A connection that rests, or only leaves its session, is no danger to any.
LEMMA RestsSafe ==
    ASSUME MediaInv, NEW s \in Sockets, NEW open \in BOOLEAN, Rests(s, open)
    PROVE  /\ socket' \in [Sockets -> SocketRows] /\ OnlyMoves(s) /\ SessionOK(s)'
           /\ UNCHANGED renders => NoNewFrame
<1>1. socket \in [Sockets -> SocketRows]
  BY DEF MediaInv, MediaTypeOK, SocketRows
<1>2. [phase |-> "idle", job |-> Nobody, token |-> 0, resume |-> FALSE, open |-> open]
        \in SocketRows
  BY DEF SocketRows
<1>3. socket'[s].phase = "idle" /\ OnlyMoves(s)
  BY <1>1 DEF Rests, OnlyMoves
<1> QED
  BY <1>1, <1>2, <1>3 DEF Rests, SessionOK, NoNewFrame, FirstFrame, OnlyMoves, Sessions

LEMMA LeavesSafe ==
    ASSUME MediaInv, NEW s \in Sockets, NEW open \in BOOLEAN, UNCHANGED fence,
           socket[s].phase \in {"granted", "running"},
           socket' = [socket EXCEPT ![s].phase = "leaving", ![s].open = open]
    PROVE  /\ socket' \in [Sockets -> SocketRows] /\ OnlyMoves(s) /\ SessionOK(s)'
           /\ UNCHANGED renders => NoNewFrame
<1>1. socket \in [Sockets -> SocketRows]
  BY DEF MediaInv, MediaTypeOK, SocketRows
<1>2. [socket[s] EXCEPT !.phase = "leaving", !.open = open] \in SocketRows
  BY <1>1 DEF SocketRows
<1>3. socket' = [socket EXCEPT ![s] = [socket[s] EXCEPT !.phase = "leaving", !.open = open]]
  BY <1>1
<1>4. socket' \in [Sockets -> SocketRows] /\ OnlyMoves(s)
  BY <1>1, <1>2, <1>3 DEF OnlyMoves
<1>5. socket'[s].phase = "leaving" /\ socket'[s].job = socket[s].job
  BY <1>1, <1>3 DEF SocketRows
<1>6. SessionOK(s)'
  BY <1>5 DEF MediaInv, SessionOK, Sessions
<1> QED
  BY <1>4, <1>5, <1>6 DEF NoNewFrame, FirstFrame, OnlyMoves

\* A session goes on; no first frame comes into being.
LEMMA GoesSafe ==
    ASSUME MediaInv, NEW s \in Sockets, NEW phase \in {"granted", "running"}, UNCHANGED fence,
           socket[s].phase \in {"resumed", "granted"}, Goes(s, phase),
           socket[s].resume \/ phase = "running"
    PROVE  /\ socket' \in [Sockets -> SocketRows] /\ OnlyMoves(s) /\ SessionOK(s)'
           /\ \A t \in Sockets, j \in Videos : FirstFrame(t, j)' => FirstFrame(t, j) /\ t # s
<1>1. socket \in [Sockets -> SocketRows]
  BY DEF MediaInv, MediaTypeOK, SocketRows
<1>2. [socket[s] EXCEPT !.phase = phase] \in SocketRows
  BY <1>1 DEF SocketRows
<1>3. socket' = [socket EXCEPT ![s] = [socket[s] EXCEPT !.phase = phase]]
  BY <1>1 DEF Goes
<1>4. socket' \in [Sockets -> SocketRows] /\ OnlyMoves(s)
  BY <1>1, <1>2, <1>3 DEF OnlyMoves
<1>5. /\ socket'[s].phase = phase /\ socket'[s].job = socket[s].job
      /\ socket'[s].resume = socket[s].resume
  BY <1>1, <1>3 DEF SocketRows
<1>6. SessionOK(s)'
  BY <1>5 DEF MediaInv, SessionOK, Sessions
<1> QED
  BY <1>4, <1>5, <1>6 DEF FirstFrame, OnlyMoves

JournalRows == [state : {"none", "pending", "dispatching", "queued"},
                attempts : 0..MaxAttempts, leased : BOOLEAN]

OutboxRows == [phase : {"idle", "listed", "adding", "added"},
               job : Videos \union {Nobody}, attempt : 0..MaxAttempts]

\* What an outbox keeps when its job is added, and when it rests.
LEMMA OutboxTyped ==
    ASSUME MediaInv, NEW i \in Instances
    PROVE  [outbox[i] EXCEPT !.phase = "added"] \in OutboxRows /\ Resting \in OutboxRows
<1>1. outbox[i] \in OutboxRows
  BY DEF MediaInv, MediaTypeOK, OutboxRows
<1>2. [outbox[i] EXCEPT !.phase = "added"] \in OutboxRows
  BY <1>1 DEF OutboxRows
<1>3. Resting \in OutboxRows
  BY DEF OutboxRows, Resting
<1> QED
  BY <1>2, <1>3

\* The journal row of a job takes a state, or its dispatch lease ends.
LEMMA JournalTyped ==
    ASSUME MediaInv, NEW j \in Videos
    PROVE  /\ [journal EXCEPT ![j].state = "queued"] \in [Videos -> JournalRows]
           /\ [journal EXCEPT ![j].leased = FALSE] \in [Videos -> JournalRows]
<1>1. journal \in [Videos -> JournalRows]
  BY DEF MediaInv, MediaTypeOK, JournalRows
<1>2. /\ [journal[j] EXCEPT !.state = "queued"] \in JournalRows
      /\ [journal[j] EXCEPT !.leased = FALSE] \in JournalRows
  BY <1>1 DEF JournalRows
<1>3. /\ [journal EXCEPT ![j] = [journal[j] EXCEPT !.state = "queued"]] \in [Videos -> JournalRows]
      /\ [journal EXCEPT ![j] = [journal[j] EXCEPT !.leased = FALSE]] \in [Videos -> JournalRows]
  BY <1>1, <1>2
<1> QED
  BY <1>1, <1>3

FenceRows == [worker : Executors \union {Nobody}, token : 0..MaxTokens,
              live : BOOLEAN, old : BOOLEAN]

\* A lapsed lease is the same fence.
LEMMA FenceLapses ==
    ASSUME MediaInv, NEW j \in Videos, NEW old \in BOOLEAN,
           \/ fence' = [fence EXCEPT ![j].live = FALSE]
           \/ fence' = [fence EXCEPT ![j].live = FALSE, ![j].old = @ \/ old]
    PROVE  fence' \in [Videos -> FenceRows] /\ \A k \in Videos : fence'[k].worker = fence[k].worker
<1>1. fence \in [Videos -> FenceRows]
  BY DEF MediaInv, MediaTypeOK, FenceRows
<1>2. ASSUME NEW o \in BOOLEAN,
             fence' = [fence EXCEPT ![j] = [fence[j] EXCEPT !.live = FALSE, !.old = o]]
      PROVE  fence' \in [Videos -> FenceRows] /\ \A k \in Videos : fence'[k].worker = fence[k].worker
  <2>1. [fence[j] EXCEPT !.live = FALSE, !.old = o] \in FenceRows
    <3>1. fence[j] \in FenceRows
      BY <1>1
    <3> HIDE DEF MediaInv, MediaTypeOK
    <3> QED
      BY <3>1, ZenonT(60) DEF FenceRows
  <2>2. [fence[j] EXCEPT !.live = FALSE, !.old = o].worker = fence[j].worker
    BY <1>1 DEF FenceRows
  <2> QED
    BY <1>1, <1>2, <2>1, <2>2
<1>3. \E o \in BOOLEAN :
        fence' = [fence EXCEPT ![j] = [fence[j] EXCEPT !.live = FALSE, !.old = o]]
  <2>1. fence[j] \in FenceRows /\ fence[j].old \in BOOLEAN /\ (fence[j].old \/ old) \in BOOLEAN
    BY <1>1 DEF FenceRows
  <2>2. CASE fence' = [fence EXCEPT ![j].live = FALSE]
    <3>1. [fence[j] EXCEPT !.live = FALSE] = [fence[j] EXCEPT !.live = FALSE, !.old = fence[j].old]
      BY <2>1 DEF FenceRows
    <3> QED
      BY <1>1, <2>1, <2>2, <3>1
  <2>3. CASE fence' = [fence EXCEPT ![j].live = FALSE, ![j].old = @ \/ old]
    BY <1>1, <2>1, <2>3
  <2> QED
    BY <2>2, <2>3
<1> QED
  BY <1>2, <1>3

-----------------------------------------------------------------------------
(* One lemma per group of actions. *)

LEMMA OutboxSafe ==
    ASSUME MediaInv, NEW i \in Instances,
           OutboxStep(i) \/ OutboxStops(i) \/ (\E j \in Videos : List(i, j))
    PROVE  MediaInv'
<1> USE DEF MediaInv, MediaTypeOK
<1>0. UNCHANGED <<fence, socket, renders>>
  BY DEF OutboxStep, Exhaust, Lease, Add, Confirm, OutboxStops, List
<1>1. CASE Exhaust(i)
  <2>1. outbox[i].job \in Videos
    BY <1>1 DEF Exhaust
  <2>2. /\ \A k \in Videos : MoneyOK(k)'
        /\ demand' \in [Videos -> {"none", "held", "charged", "refunded"}]
        /\ closer' \in [Videos -> {"nobody", "worker", "sweep", "giveup"}]
    BY <1>0, <1>1, <2>1, GivesUp DEF Exhaust
  <2> QED
    BY <1>0, <1>1, <2>2, Aside DEF Exhaust, Resting
<1>2. CASE Lease(i)
  <2> DEFINE j == outbox[i].job
  <2>1. j \in Videos
    BY <1>2 DEF Lease
  <2>2. MoneyRests
    BY <1>2 DEF Lease, MoneyRests
  <2>3. /\ journal' \in [Videos -> [state : {"none", "pending", "dispatching", "queued"},
                                    attempts : 0..MaxAttempts, leased : BOOLEAN]]
        /\ outbox' \in [Instances -> [phase : {"idle", "listed", "adding", "added"},
                                      job : Videos \union {Nobody}, attempt : 0..MaxAttempts]]
        /\ \A k \in Instances : outbox'[k].phase # "idle" => outbox'[k].job \in Videos
    <3>1. CASE journal' = journal /\ outbox' = [outbox EXCEPT ![i] = Resting]
      BY <3>1 DEF Resting
    <3>2. CASE /\ journal[j].attempts < MaxAttempts
               /\ journal' = [journal EXCEPT ![j] = [state |-> "dispatching",
                                attempts |-> @.attempts + 1, leased |-> TRUE]]
               /\ outbox' = [outbox EXCEPT ![i] = [phase |-> "adding", job |-> j,
                                attempt |-> journal[j].attempts + 1]]
      <4>1. journal[j].attempts + 1 \in 0..MaxAttempts
        BY <2>1, <3>2
      <4> QED
        BY <2>1, <3>2, <4>1
    <3> QED
      BY <1>2, <3>1, <3>2 DEF Lease
  <2> QED
    BY <1>0, <1>2, <2>2, <2>3, AsideQuietly DEF Lease, MoneyRests
<1>3. CASE Add(i)
  <2>1. MoneyRests
    BY <1>3 DEF Add, MoneyRests
  <2>2. MediaTypeOK'
    <3>1. outbox[i].job \in Videos
      BY <1>3 DEF Add
    <3>2. published' \in [Videos -> BOOLEAN]
      <4>1. ASSUME NEW appended \in BOOLEAN PROVE (published[outbox[i].job] \/ appended) \in BOOLEAN
        OBVIOUS
      <4> QED
        BY <1>3, <3>1, <4>1 DEF Add
    <3>3. outbox' \in [Instances -> [phase : {"idle", "listed", "adding", "added"},
                                    job : Videos \union {Nobody}, attempt : 0..MaxAttempts]]
      <4>1. [outbox[i] EXCEPT !.phase = "added"] \in OutboxRows /\ Resting \in OutboxRows
        BY OutboxTyped
      <4>2. \/ outbox' = [outbox EXCEPT ![i] = [outbox[i] EXCEPT !.phase = "added"]]
            \/ outbox' = [outbox EXCEPT ![i] = Resting]
        BY <1>3 DEF Add
      <4> QED
        BY <4>1, <4>2 DEF OutboxRows
    <3> QED
      BY <1>0, <1>3, <2>1, <3>2, <3>3 DEF Add, MoneyRests
  <2>3. \A k \in Instances : outbox'[k].phase # "idle" => outbox'[k].job \in Videos
    BY <1>3 DEF Add, Resting
  <2> HIDE DEF MediaInv, MediaTypeOK
  <2> QED
    BY <1>0, <2>1, <2>2, <2>3, AsideQuietly
<1>4. CASE Confirm(i)
  <2>1. MoneyRests
    BY <1>4 DEF Confirm, MoneyRests
  <2>2. MediaTypeOK'
    <3>1. outbox[i].job \in Videos
      BY <1>4 DEF Confirm
    <3>2. journal' \in [Videos -> JournalRows]
      BY <1>4, <3>1, JournalTyped DEF Confirm, JournalRows
    <3>3. outbox' \in [Instances -> [phase : {"idle", "listed", "adding", "added"},
                                    job : Videos \union {Nobody}, attempt : 0..MaxAttempts]]
      BY <1>4 DEF Confirm, Resting
    <3> QED
      BY <1>0, <1>4, <2>1, <3>2, <3>3 DEF Confirm, MoneyRests, JournalRows
  <2>3. \A k \in Instances : outbox'[k].phase # "idle" => outbox'[k].job \in Videos
    BY <1>4 DEF Confirm, Resting
  <2> HIDE DEF MediaInv, MediaTypeOK
  <2> QED
    BY <1>0, <2>1, <2>2, <2>3, AsideQuietly
<1>5. CASE OutboxStops(i)
  <2>1. MoneyRests
    BY <1>5 DEF OutboxStops, MoneyRests
  <2>2. MediaTypeOK'
    BY <1>0, <1>5, <2>1 DEF OutboxStops, Resting, MoneyRests
  <2>3. \A k \in Instances : outbox'[k].phase # "idle" => outbox'[k].job \in Videos
    BY <1>5 DEF OutboxStops, Resting
  <2> HIDE DEF MediaInv, MediaTypeOK
  <2> QED
    BY <1>0, <2>1, <2>2, <2>3, AsideQuietly
<1>6. ASSUME NEW j \in Videos, List(i, j) PROVE MediaInv'
  <2>1. MoneyRests
    BY <1>6 DEF List, MoneyRests
  <2>2. MediaTypeOK'
    BY <1>0, <1>6, <2>1 DEF List, MoneyRests
  <2>3. \A k \in Instances : outbox'[k].phase # "idle" => outbox'[k].job \in Videos
    BY <1>6 DEF List
  <2> HIDE DEF MediaInv, MediaTypeOK
  <2> QED
    BY <1>0, <2>1, <2>2, <2>3, AsideQuietly
<1> QED
  BY <1>1, <1>2, <1>3, <1>4, <1>5, <1>6 DEF OutboxStep

LEMMA JobSafe ==
    ASSUME MediaInv, NEW j \in Videos,
           \/ Admit(j) \/ DispatchLapses(j) \/ Unpublish(j) \/ ExecutionLapses(j)
           \/ SweepHold(j)
    PROVE  MediaInv'
<1> USE DEF MediaInv, MediaTypeOK
<1>1. CASE Admit(j)
  <2>1. \A k \in Videos : MoneyOK(k)'
    BY <1>1 DEF Admit, MoneyOK, Started
  <2>2. MediaTypeOK'
    <3>1. journal' \in [Videos -> [state : {"none", "pending", "dispatching", "queued"},
                                   attempts : 0..MaxAttempts, leased : BOOLEAN]]
      <4> DEFINE Rows == [state : {"none", "pending", "dispatching", "queued"},
                          attempts : 0..MaxAttempts, leased : BOOLEAN]
      <4>1. journal \in [Videos -> Rows] /\ journal' = [journal EXCEPT ![j].state = "pending"]
        BY <1>1 DEF Admit
      <4> HIDE DEF MediaInv, MediaTypeOK
      <4>2. [journal[j] EXCEPT !.state = "pending"] \in Rows
        BY <4>1
      <4> QED
        BY <4>1, <4>2
    <3>2. demand' \in [Videos -> {"none", "held", "charged", "refunded"}]
      BY <1>1 DEF Admit
    <3>3. UNCHANGED <<payout, published, fence, socket, outbox, renders, closer>>
      BY <1>1 DEF Admit
    <3> QED
      BY <3>1, <3>2, <3>3
  <2>3. \A i \in Instances : outbox'[i].phase # "idle" => outbox'[i].job \in Videos
    BY <1>1 DEF Admit
  <2>4. UNCHANGED <<fence, socket, renders>>
    BY <1>1 DEF Admit
  <2>5. MediaInv
    OBVIOUS
  <2> HIDE DEF MediaInv, MediaTypeOK
  <2> QED
    BY <2>1, <2>2, <2>3, <2>4, <2>5, AsideSafe
<1>2. CASE DispatchLapses(j)
  <2>1. MoneyRests
    BY <1>2 DEF DispatchLapses, MoneyRests
  <2>2. MediaTypeOK'
    BY <1>2, <2>1, JournalTyped DEF DispatchLapses, MoneyRests, JournalRows
  <2> QED
    BY <1>2, <2>1, <2>2, AsideQuietly DEF DispatchLapses
<1>3. CASE Unpublish(j)
  <2>1. MoneyRests
    BY <1>3 DEF Unpublish, MoneyRests
  <2>2. MediaTypeOK'
    BY <1>3, <2>1 DEF Unpublish, MoneyRests
  <2> QED
    BY <1>3, <2>1, <2>2, AsideQuietly DEF Unpublish
<1>4. CASE ExecutionLapses(j)
  <2>0. PICK old \in BOOLEAN : fence' = [fence EXCEPT ![j].live = FALSE, ![j].old = @ \/ old]
    BY <1>4 DEF ExecutionLapses
  <2>1. fence' \in [Videos -> FenceRows] /\ \A k \in Videos : fence'[k].worker = fence[k].worker
    BY <2>0, FenceLapses
  <2>2. FencesKeep
    BY <2>1 DEF FencesKeep, Started
  <2>3. NoNewFrame /\ MoneyRests /\ UNCHANGED socket
    BY <1>4 DEF ExecutionLapses, NoNewFrame, MoneyRests, FirstFrame
  <2>4. MediaTypeOK'
    BY <1>4, <2>1 DEF ExecutionLapses, FenceRows
  <2> QED
    BY <1>4, <2>2, <2>3, <2>4, SessionsRest, FirstKept, MoneyKept DEF ExecutionLapses
<1>5. CASE SweepHold(j)
  <2>1. /\ \A k \in Videos : MoneyOK(k)'
        /\ demand' \in [Videos -> {"none", "held", "charged", "refunded"}]
        /\ closer' \in [Videos -> {"nobody", "worker", "sweep", "giveup"}]
    BY <1>5, HoldEnds DEF SweepHold
  <2> QED
    BY <1>5, <2>1, Aside DEF SweepHold
<1> QED
  BY <1>1, <1>2, <1>3, <1>4, <1>5

LEMMA ClaimSafe ==
    ASSUME MediaInv, NEW s \in Sockets, ClaimExecution(s)
    PROVE  MediaInv'
<1> PICK j \in Videos : j = socket[s].job
  BY DEF MediaInv, ClaimExecution, SessionOK
<1> DEFINE token == fence[j].token + 1
<1>0. /\ socket \in [Sockets -> SocketRows] /\ socket[s].phase = "offered"
      /\ MoneyRests /\ UNCHANGED <<renders, journal, published, outbox>>
  BY DEF MediaInv, MediaTypeOK, SessionOK, ClaimExecution, SocketRows, MoneyRests
<1>1. CASE ~Claimable(j)
  <2>1. fence' = fence /\ Rests(s, socket[s].open)
    BY <1>1 DEF ClaimExecution
  <2>2. FencesKeep
    BY <2>1 DEF FencesKeep, Started
  <2>3. /\ socket' \in [Sockets -> SocketRows] /\ OnlyMoves(s) /\ SessionOK(s)'
        /\ NoNewFrame
    BY <1>0, <2>1, RestsSafe DEF SocketRows
  <2> QED
    BY <1>0, <2>1, <2>2, <2>3, SessionsKept, FirstKept, MoneyKept
       DEF MediaInv, MediaTypeOK, MoneyRests, SocketRows
<1>2. CASE Claimable(j)
  <2>1. /\ demand[j] = "held" /\ ~Started(j) /\ token \in 0..MaxTokens
        /\ fence' = [fence EXCEPT ![j] = [worker |-> SocketWorker[s], token |-> token,
                                          live |-> TRUE, old |-> FALSE]]
    BY <1>0, <1>2 DEF Claimable, ClaimExecution, MediaInv, MediaTypeOK
  <2>2. fence'[j].worker = SocketWorker[s] /\ \A k \in Videos : k # j => fence'[k] = fence[k]
    BY <1>0, <2>1 DEF MediaInv, MediaTypeOK
  <2>3. FencesKeep
    BY <1>0, <2>1, <2>2 DEF FencesKeep, Started, MoneyRests
  <2>4. MediaTypeOK' <=> socket' \in [Sockets -> SocketRows]
    BY <1>0, <2>1 DEF MediaInv, MediaTypeOK, MoneyRests, SocketRows
  <2>5. CASE Rests(s, socket[s].open)
    <3>1. /\ socket' \in [Sockets -> SocketRows] /\ OnlyMoves(s) /\ SessionOK(s)'
          /\ NoNewFrame
      BY <1>0, <2>5, RestsSafe DEF SocketRows
    <3> QED
      BY <1>0, <2>3, <2>4, <3>1, SessionsKept, FirstKept, MoneyKept DEF MediaInv
  <2>6. CASE socket' = [socket EXCEPT ![s].phase = "granted", ![s].token = token]
    <3>1. [socket[s] EXCEPT !.phase = "granted", !.token = token] \in SocketRows
      BY <1>0, <2>1 DEF SocketRows
    <3>2. socket' = [socket EXCEPT ![s] = [socket[s] EXCEPT !.phase = "granted", !.token = token]]
      BY <1>0, <2>6
    <3>3. socket' \in [Sockets -> SocketRows] /\ OnlyMoves(s)
      BY <1>0, <3>1, <3>2 DEF OnlyMoves
    <3>4. socket'[s].phase = "granted" /\ socket'[s].job = j
      BY <1>0, <3>2 DEF SocketRows
    <3>5. SessionOK(s)'
      BY <1>0, <2>2, <3>4 DEF SessionOK, Sessions
    <3>6. \A t \in Sockets : ~FirstFrame(t, j)
      BY <1>0, <2>1 DEF FirstFrame, MediaInv, SessionOK, Sessions, Started
    <3>7. renders[j] = 0
      BY <1>0, <2>1 DEF MediaInv, FirstOK
    <3>8. \A t \in Sockets : t # s => socket'[t] = socket[t]
      BY <3>3 DEF OnlyMoves
    <3>9. FirstOK(j)'
      <4>1. Started(j)'
        BY <2>2 DEF Started
      <4>2. \A t \in Sockets \ {s} : ~FirstFrame(t, j)'
        BY <3>6, <3>8 DEF FirstFrame
      <4> QED
        BY <1>0, <3>7, <4>1, <4>2 DEF FirstOK
    <3>10. ASSUME NEW k \in Videos, k # j PROVE FirstOK(k)'
      <4>1. FirstOK(k) /\ (Started(k)' <=> Started(k)) /\ renders'[k] = renders[k]
        BY <1>0, <2>2, <3>10 DEF MediaInv, Started
      <4>2. \A t \in Sockets : FirstFrame(t, k)' => FirstFrame(t, k)
        BY <3>4, <3>8, <3>10 DEF FirstFrame
      <4> QED
        BY <4>1, <4>2 DEF FirstOK
    <3> QED
      BY <1>0, <2>3, <2>4, <3>3, <3>5, <3>9, <3>10, SessionsKept, MoneyKept DEF MediaInv
  <2> QED
    BY <1>2, <2>5, <2>6 DEF ClaimExecution
<1> QED
  BY <1>1, <1>2

LEMMA ResumptionSafe ==
    ASSUME MediaInv, NEW s \in Sockets, NEW j \in Videos, ClaimResumption(s, j)
    PROVE  MediaInv'
<1> DEFINE token == fence[j].token + 1
<1>0. /\ socket \in [Sockets -> SocketRows] /\ socket[s].phase = "idle" /\ MoneyRests
      /\ UNCHANGED <<renders, journal, published, outbox>>
      /\ fence[j].worker = SocketWorker[s] /\ token \in 0..MaxTokens
      /\ fence' = [fence EXCEPT ![j].token = token, ![j].live = TRUE]
  BY DEF MediaInv, MediaTypeOK, ClaimResumption, SocketRows, MoneyRests
<1>1. fence' \in [Videos -> FenceRows] /\ \A k \in Videos : fence'[k].worker = fence[k].worker
  <2>1. fence \in [Videos -> FenceRows]
    BY DEF MediaInv, MediaTypeOK, FenceRows
  <2>2. [fence[j] EXCEPT !.token = token, !.live = TRUE] \in FenceRows
    BY <1>0, <2>1 DEF FenceRows
  <2>3. fence' = [fence EXCEPT ![j] = [fence[j] EXCEPT !.token = token, !.live = TRUE]]
    BY <1>0, <2>1
  <2>4. fence'[j].worker = fence[j].worker
    BY <2>1, <2>3 DEF FenceRows
  <2> QED
    BY <2>1, <2>2, <2>3, <2>4
<1>2. FencesKeep
  BY <1>1 DEF FencesKeep, Started
<1>3. MediaTypeOK' <=> socket' \in [Sockets -> SocketRows]
  BY <1>0, <1>1 DEF MediaInv, MediaTypeOK, MoneyRests, SocketRows, FenceRows
<1>4. CASE Rests(s, FALSE)
  <2>1. /\ socket' \in [Sockets -> SocketRows] /\ OnlyMoves(s) /\ SessionOK(s)'
        /\ NoNewFrame
    BY <1>0, <1>4, RestsSafe
  <2> QED
    BY <1>0, <1>2, <1>3, <2>1, SessionsKept, FirstKept, MoneyKept DEF MediaInv
<1>5. CASE socket' = [socket EXCEPT ![s] = [phase |-> "resumed", job |-> j, token |-> token,
                                            resume |-> TRUE, open |-> @.open]]
  <2>1. /\ socket' \in [Sockets -> SocketRows] /\ OnlyMoves(s)
        /\ socket'[s].phase = "resumed" /\ socket'[s].job = j /\ socket'[s].resume
    BY <1>0, <1>5 DEF SocketRows, OnlyMoves
  <2>2. SessionOK(s)'
    BY <1>0, <1>1, <2>1 DEF SessionOK
  <2>3. NoNewFrame
    BY <1>0, <2>1 DEF NoNewFrame, FirstFrame, OnlyMoves
  <2> QED
    BY <1>0, <1>2, <1>3, <2>1, <2>2, <2>3, SessionsKept, FirstKept, MoneyKept DEF MediaInv
<1> QED
  BY <1>4, <1>5 DEF ClaimResumption

\* A connection moves, without frames or fences.
LEMMA MovesSafe ==
    ASSUME MediaInv, NEW s \in Sockets, socket' \in [Sockets -> SocketRows],
           OnlyMoves(s), SessionOK(s)', NoNewFrame,
           UNCHANGED <<fence, journal, published, outbox>>,
           \A k \in Videos : MoneyOK(k)',
           demand' \in [Videos -> {"none", "held", "charged", "refunded"}],
           closer' \in [Videos -> {"nobody", "worker", "sweep", "giveup"}],
           payout' \in [Videos -> BOOLEAN]
    PROVE  MediaInv'
<1>1. FencesKeep
  BY DEF FencesKeep, Started
<1>2. MediaTypeOK'
  BY DEF MediaInv, MediaTypeOK, SocketRows, NoNewFrame
<1> QED
  BY <1>1, <1>2, SessionsKept, FirstKept DEF MediaInv

LEMMA MovesQuietly ==
    ASSUME MediaInv, NEW s \in Sockets, socket' \in [Sockets -> SocketRows],
           OnlyMoves(s), SessionOK(s)', NoNewFrame, MoneyRests,
           UNCHANGED <<fence, journal, published, outbox>>
    PROVE  MediaInv'
<1>1. FencesKeep
  BY DEF FencesKeep, Started
<1> QED
  BY <1>1, MovesSafe, MoneyKept DEF MediaInv, MediaTypeOK, MoneyRests

LEMMA SessionSafe ==
    ASSUME MediaInv, NEW s \in Sockets,
           SocketStep(s) \/ (\E j \in Videos : Offer(s, j))
    PROVE  MediaInv'
<1>0. socket[s] \in SocketRows /\ socket \in [Sockets -> SocketRows] /\ SessionOK(s)
  BY DEF MediaInv, MediaTypeOK, SocketRows
<1>1. ASSUME NEW j \in Videos, Offer(s, j) PROVE MediaInv'
  <2>1. [socket[s] EXCEPT !.phase = "offered", !.job = j] \in SocketRows
    BY <1>0 DEF SocketRows
  <2>2. socket' = [socket EXCEPT ![s] = [socket[s] EXCEPT !.phase = "offered", !.job = j]]
    BY <1>0, <1>1 DEF Offer
  <2>3. /\ socket' \in [Sockets -> SocketRows] /\ OnlyMoves(s)
        /\ socket'[s].phase = "offered" /\ socket'[s].job = j
    BY <1>0, <2>1, <2>2 DEF OnlyMoves, SocketRows
  <2>4. SessionOK(s)' /\ NoNewFrame
    BY <1>1, <2>3 DEF Offer, SessionOK, Sessions, NoNewFrame, FirstFrame, OnlyMoves
  <2> QED
    BY <1>1, <2>3, <2>4, MovesQuietly DEF Offer, MoneyRests
<1>2. CASE GiveUp(s) \/ CleanupGivesUp(s)
  <2>1. socket[s].job \in Videos
    BY <1>0, <1>2 DEF GiveUp, CleanupGivesUp, SessionOK
  <2>2. PICK open \in BOOLEAN : Rests(s, open)
    BY <1>0, <1>2 DEF GiveUp, CleanupGivesUp, SocketRows
  <2>3. /\ \A k \in Videos : MoneyOK(k)'
        /\ demand' \in [Videos -> {"none", "held", "charged", "refunded"}]
        /\ closer' \in [Videos -> {"nobody", "worker", "sweep", "giveup"}]
    BY <1>2, <2>1, GivesUp DEF GiveUp, CleanupGivesUp
  <2>4. UNCHANGED <<payout, fence, journal, published, outbox, renders>>
    BY <1>2 DEF GiveUp, CleanupGivesUp
  <2>5. socket' \in [Sockets -> SocketRows] /\ OnlyMoves(s) /\ SessionOK(s)' /\ NoNewFrame
    BY <2>2, <2>4, RestsSafe
  <2>6. payout' \in [Videos -> BOOLEAN]
    BY <2>4 DEF MediaInv, MediaTypeOK
  <2> QED
    BY <2>3, <2>4, <2>5, <2>6, MovesSafe
<1>3. CASE ClaimExecution(s)
  BY <1>3, ClaimSafe
<1>4. CASE RenewResumed(s)
  <2>1. MoneyRests /\ UNCHANGED <<fence, journal, published, outbox, renders>>
    BY <1>4 DEF RenewResumed, MoneyRests
  <2>2. CASE Rests(s, FALSE)
    BY <2>1, <2>2, RestsSafe, MovesQuietly
  <2>3. CASE Goes(s, "granted")
    <3>1. /\ socket' \in [Sockets -> SocketRows] /\ OnlyMoves(s) /\ SessionOK(s)'
          /\ \A t \in Sockets, j \in Videos : FirstFrame(t, j)' => FirstFrame(t, j)
      BY <1>0, <1>4, <2>1, <2>3, GoesSafe DEF RenewResumed, SessionOK
    <3> QED
      BY <2>1, <3>1, MovesQuietly DEF NoNewFrame
  <2> QED
    BY <1>4, <2>2, <2>3 DEF RenewResumed
<1>5. CASE SendJob(s)
  <2> PICK j \in Videos : j = socket[s].job
    BY <1>0, <1>5 DEF SendJob, SessionOK
  <2>1. /\ MoneyRests /\ UNCHANGED <<fence, journal, published, outbox>>
        /\ socket[s].phase = "granted"
    BY <1>5 DEF SendJob, MoneyRests
  <2>2. /\ socket' \in [Sockets -> SocketRows] /\ OnlyMoves(s) /\ SessionOK(s)'
        /\ \A t \in Sockets, k \in Videos : FirstFrame(t, k)' => FirstFrame(t, k) /\ t # s
    BY <1>5, <2>1, GoesSafe DEF SendJob
  <2>3. CASE socket[s].resume
    BY <1>5, <2>1, <2>2, <2>3, MovesQuietly DEF SendJob, NoNewFrame
  <2>4. CASE ~socket[s].resume
    <3>1. FirstFrame(s, j)
      BY <2>1, <2>4 DEF FirstFrame
    <3>2. renders[j] = 0 /\ \A t \in Sockets \ {s} : ~FirstFrame(t, j)
      BY <2>1, <3>1 DEF MediaInv, FirstOK
    <3>3. renders' = [renders EXCEPT ![j] = @ + 1] /\ renders \in [Videos -> Nat]
      BY <1>5, <2>4 DEF SendJob, MediaInv, MediaTypeOK
    <3>4. renders'[j] = 1 /\ \A k \in Videos : k # j => renders'[k] = renders[k]
      BY <2>1, <3>2, <3>3
    <3>5. FencesKeep /\ \A k \in Videos : Started(k)' <=> Started(k)
      BY <2>1 DEF FencesKeep, Started
    <3>6. Started(j)
      BY <1>0, <2>1 DEF SessionOK, Sessions, Started
    <3>7. \A t \in Sockets : ~FirstFrame(t, j)'
      BY <2>1, <2>2, <3>2
    <3>8. FirstOK(j)'
      BY <2>1, <3>4, <3>5, <3>6, <3>7 DEF FirstOK
    <3>9. ASSUME NEW k \in Videos, k # j PROVE FirstOK(k)'
      BY <2>2, <3>4, <3>5, <3>9 DEF FirstOK, MediaInv
    <3>10. MediaTypeOK'
      BY <2>1, <2>2, <3>3 DEF MediaInv, MediaTypeOK, MoneyRests, SocketRows
    <3> QED
      BY <2>1, <2>2, <3>5, <3>8, <3>9, <3>10, SessionsKept, MoneyKept DEF MediaInv
  <2> QED
    BY <2>3, <2>4
<1>6. CASE Finish(s)
  <2> DEFINE j == socket[s].job
             open == socket[s].open /\ Authorized(s)
  <2>1. /\ UNCHANGED <<fence, journal, published, outbox, renders>> /\ j \in Videos
        /\ socket' = [socket EXCEPT ![s].phase = "leaving", ![s].open = open]
        /\ socket[s].phase = "running" /\ open \in BOOLEAN
    BY <1>0, <1>6 DEF Finish, SessionOK, SocketRows
  <2>2. socket' \in [Sockets -> SocketRows] /\ OnlyMoves(s) /\ SessionOK(s)' /\ NoNewFrame
    BY <2>1, LeavesSafe
  <2>3. CASE demand[j] = "held" /\ CloseHold(j, "charged", "worker")
             /\ payout' = [payout EXCEPT ![j] = TRUE]
    <3>1. /\ \A k \in Videos : MoneyOK(k)'
          /\ demand' \in [Videos -> {"none", "held", "charged", "refunded"}]
          /\ closer' \in [Videos -> {"nobody", "worker", "sweep", "giveup"}]
          /\ payout' \in [Videos -> BOOLEAN]
      BY <2>1, <2>3, HoldEnds
    <3> QED
      BY <2>1, <2>2, <3>1, MovesSafe
  <2>4. CASE MoneyRests
    BY <2>1, <2>2, <2>4, MovesQuietly
  <2> QED
    BY <1>6, <2>3, <2>4 DEF Finish, Settles, KeepHold, MoneyRests
<1>7. CASE Fail(s)
  <2> DEFINE j == socket[s].job
             open == socket[s].open /\ Authorized(s) /\ demand[j] = "held"
  <2>1. /\ UNCHANGED <<payout, fence, journal, published, outbox, renders>> /\ j \in Videos
        /\ socket' = [socket EXCEPT ![s].phase = "leaving", ![s].open = open]
        /\ socket[s].phase \in {"granted", "running"} /\ open \in BOOLEAN
    BY <1>0, <1>7 DEF Fail, SessionOK, SocketRows
  <2>2. socket' \in [Sockets -> SocketRows] /\ OnlyMoves(s) /\ SessionOK(s)' /\ NoNewFrame
    BY <2>1, LeavesSafe
  <2>3. CASE demand[j] = "held" /\ CloseHold(j, "refunded", "worker")
    <3>1. /\ \A k \in Videos : MoneyOK(k)'
          /\ demand' \in [Videos -> {"none", "held", "charged", "refunded"}]
          /\ closer' \in [Videos -> {"nobody", "worker", "sweep", "giveup"}]
          /\ payout' \in [Videos -> BOOLEAN]
      BY <2>1, <2>3, HoldEnds
    <3> QED
      BY <2>1, <2>2, <3>1, MovesSafe
  <2>4. CASE MoneyRests
    BY <2>1, <2>2, <2>4, MovesQuietly
  <2> QED
    BY <1>7, <2>1, <2>3, <2>4 DEF Fail, KeepHold, MoneyRests
<1>8. CASE Break(s)
  <2>1. socket' \in [Sockets -> SocketRows] /\ OnlyMoves(s) /\ SessionOK(s)' /\ NoNewFrame
    BY <1>8, LeavesSafe DEF Break
  <2> QED
    BY <1>8, <2>1, MovesQuietly DEF Break, MoneyRests
<1>9. CASE Detach(s)
  <2>1. MoneyRests /\ UNCHANGED <<journal, published, outbox, renders>>
    BY <1>9 DEF Detach, MoneyRests
  <2>2. socket' \in [Sockets -> SocketRows] /\ OnlyMoves(s) /\ SessionOK(s)' /\ NoNewFrame
    BY <1>0, <1>9, <2>1, RestsSafe DEF Detach, SocketRows
  <2> PICK j \in Videos : j = socket[s].job
    BY <1>0, <1>9 DEF Detach, SessionOK
  <2>3. fence' \in [Videos -> FenceRows] /\ \A k \in Videos : fence'[k].worker = fence[k].worker
    <3>1. fence' = fence \/ fence' = [fence EXCEPT ![j].live = FALSE]
      BY <1>9 DEF Detach
    <3> QED
      BY <3>1, FenceLapses DEF MediaInv, MediaTypeOK, FenceRows
  <2>4. FencesKeep
    BY <2>3 DEF FencesKeep, Started
  <2>5. MediaTypeOK'
    BY <2>1, <2>2, <2>3 DEF MediaInv, MediaTypeOK, MoneyRests, SocketRows, FenceRows
  <2> QED
    BY <2>1, <2>2, <2>4, <2>5, SessionsKept, FirstKept, MoneyKept DEF MediaInv
<1>10. CASE SocketCrash(s) \/ Reconnect(s)
  <2>1. MoneyRests /\ UNCHANGED <<fence, journal, published, outbox, renders>>
    BY <1>10 DEF SocketCrash, Reconnect, MoneyRests
  <2>2. PICK open \in BOOLEAN : Rests(s, open)
    BY <1>10 DEF SocketCrash, Reconnect
  <2> QED
    BY <2>1, <2>2, RestsSafe, MovesQuietly
<1> QED
  BY <1>1, <1>2, <1>3, <1>4, <1>5, <1>6, <1>7, <1>8, <1>9, <1>10 DEF SocketStep

LEMMA MediaStep == MediaInv /\ [MediaNext]_mediaVars => MediaInv'
<1> SUFFICES ASSUME MediaInv, [MediaNext]_mediaVars PROVE MediaInv'
  OBVIOUS
<1>1. CASE UNCHANGED mediaVars
  BY <1>1 DEF mediaVars, MediaInv, MediaTypeOK, SessionOK, FirstOK, FirstFrame, MoneyOK, Started
<1>2. CASE MediaNext
  BY <1>2, OutboxSafe, JobSafe, SessionSafe, ResumptionSafe DEF MediaNext
<1> QED
  BY <1>1, <1>2

-----------------------------------------------------------------------------
(* Theorems. *)

(***************************************************************************)
(* MediaInv is inductive: for any number of jobs, connections, outboxes,   *)
(* publications and resumptions, and whatever of them is lost.             *)
(***************************************************************************)
THEOREM MediaInductive == MediaSpec => []MediaInv
BY MediaInitSafe, MediaStep, PTL DEF MediaSpec

\* A session's worker is its fence's; nobody but a started job has a frame.
LEMMA InvIsSafe == MediaInv => RenderedOnce /\ GivenUpUnstarted
<1> SUFFICES ASSUME MediaInv PROVE RenderedOnce /\ GivenUpUnstarted
  OBVIOUS
<1>1. RenderedOnce
  BY DEF MediaInv, FirstOK, SessionOK, Sessions, RenderedOnce
<1>2. GivenUpUnstarted
  BY DEF MediaInv, FirstOK, MoneyOK, GivenUpUnstarted
<1> QED
  BY <1>1, <1>2

(***************************************************************************)
(* No video is rendered twice, and only the fence's worker works on it     *)
(* (media_journal.py, claim_execution and claim_resumption).               *)
(***************************************************************************)
THEOREM VideosRenderedOnce == MediaSpec => []RenderedOnce
BY MediaInductive, InvIsSafe, PTL

(***************************************************************************)
(* No hold is given up whose job a worker was ever asked to render.        *)
(***************************************************************************)
THEOREM GiveUpsAreUnstarted == MediaSpec => []GivenUpUnstarted
BY MediaInductive, InvIsSafe, PTL

-----------------------------------------------------------------------------
(***************************************************************************)
(* The tokens.  A session's token is at most its video's, and no two       *)
(* sessions of a video share one: a claim takes the next token for one     *)
(* connection and every other step takes none.                             *)
(***************************************************************************)
TokenInv ==
    /\ \A s \in Sockets : socket[s].phase \in Sessions =>
         socket[s].token <= fence[socket[s].job].token
    /\ \A s, t \in Sockets : s # t /\ socket[s].phase \in Sessions /\ socket[t].phase \in Sessions
                              /\ socket[s].job = socket[t].job => socket[s].token # socket[t].token

\* A session there is afterwards is the one there was before.
KeepsSession(t) == socket'[t].phase \in Sessions =>
    /\ socket[t].phase \in Sessions
    /\ socket'[t].job = socket[t].job /\ socket'[t].token = socket[t].token

TokensStay == \A j \in Videos : fence'[j].token = fence[j].token

\* Connection s takes the next token of video j, or loses it at once.
TakesToken(s, j) ==
    /\ fence'[j].token = fence[j].token + 1
    /\ \A k \in Videos \ {j} : fence'[k].token = fence[k].token
    /\ \A t \in Sockets \ {s} : KeepsSession(t)
    /\ socket'[s].phase \in Sessions => socket'[s].job = j /\ socket'[s].token = fence'[j].token

LEMMA RestKeeps == ASSUME UNCHANGED socket PROVE \A t \in Sockets : KeepsSession(t)
BY DEF KeepsSession

LEMMA MoveKeeps ==
    ASSUME NEW s \in Sockets, OnlyMoves(s), KeepsSession(s)
    PROVE  \A t \in Sockets : KeepsSession(t)
BY DEF OnlyMoves, KeepsSession

LEMMA IdleKeeps ==
    ASSUME MediaInv, NEW s \in Sockets, NEW open, Rests(s, open)
    PROVE  OnlyMoves(s) /\ KeepsSession(s) /\ socket'[s].phase \notin Sessions
<1>1. socket \in [Sockets -> SocketRows]
  BY DEF MediaInv, MediaTypeOK, SocketRows
<1>2. socket'[s].phase = "idle" /\ OnlyMoves(s)
  BY <1>1 DEF Rests, OnlyMoves
<1> QED
  BY <1>2 DEF KeepsSession, Sessions

\* A connection in a session goes on with it, in another phase.
LEMMA PhaseKeeps ==
    ASSUME MediaInv, NEW s \in Sockets, socket[s].phase \in Sessions, NEW phase, NEW open,
           \/ socket' = [socket EXCEPT ![s].phase = phase]
           \/ socket' = [socket EXCEPT ![s].phase = phase, ![s].open = open]
    PROVE  OnlyMoves(s) /\ KeepsSession(s)
<1>1. socket \in [Sockets -> SocketRows] /\ socket[s] \in SocketRows
  BY DEF MediaInv, MediaTypeOK, SocketRows
<1>2. CASE socket' = [socket EXCEPT ![s].phase = phase]
  <2>1. socket'[s] = [socket[s] EXCEPT !.phase = phase] /\ OnlyMoves(s)
    BY <1>1, <1>2 DEF OnlyMoves
  <2>2. socket'[s].job = socket[s].job /\ socket'[s].token = socket[s].token
    BY <1>1, <2>1 DEF SocketRows
  <2> QED
    BY <2>1, <2>2 DEF KeepsSession
<1>3. CASE socket' = [socket EXCEPT ![s].phase = phase, ![s].open = open]
  <2>1. socket'[s] = [socket[s] EXCEPT !.phase = phase, !.open = open] /\ OnlyMoves(s)
    BY <1>1, <1>3 DEF OnlyMoves
  <2>2. socket'[s].job = socket[s].job /\ socket'[s].token = socket[s].token
    BY <1>1, <2>1 DEF SocketRows
  <2> QED
    BY <2>1, <2>2 DEF KeepsSession
<1> QED
  BY <1>2, <1>3

LEMMA TokenSame ==
    ASSUME MediaInv, NEW j \in Videos, NEW live, NEW old,
           \/ fence' = [fence EXCEPT ![j].live = live]
           \/ fence' = [fence EXCEPT ![j].live = live, ![j].old = old]
    PROVE  TokensStay
<1>1. fence \in [Videos -> FenceRows] /\ fence[j] \in FenceRows
  BY DEF MediaInv, MediaTypeOK, FenceRows
<1>2. CASE fence' = [fence EXCEPT ![j].live = live]
  <2>1. fence'[j] = [fence[j] EXCEPT !.live = live] /\ \A k \in Videos \ {j} : fence'[k] = fence[k]
    BY <1>1, <1>2
  <2>2. fence'[j].token = fence[j].token
    BY <1>1, <2>1 DEF FenceRows
  <2> QED
    BY <2>1, <2>2 DEF TokensStay
<1>3. CASE fence' = [fence EXCEPT ![j].live = live, ![j].old = old]
  <2>1. fence'[j] = [fence[j] EXCEPT !.live = live, !.old = old] /\ \A k \in Videos \ {j} : fence'[k] = fence[k]
    BY <1>1, <1>3
  <2>2. fence'[j].token = fence[j].token
    BY <1>1, <2>1 DEF FenceRows
  <2> QED
    BY <2>1, <2>2 DEF TokensStay
<1> QED
  BY <1>2, <1>3

\* A connection takes a token, or none is taken and no session begins.
TokensFair ==
    \/ TokensStay /\ \A t \in Sockets : KeepsSession(t)
    \/ \E s \in Sockets, j \in Videos : TakesToken(s, j)

LEMMA ClaimTokens == ASSUME MediaInv, NEW s \in Sockets, ClaimExecution(s) PROVE TokensFair
<1> DEFINE j == socket[s].job
           token == fence[j].token + 1
<1>1. j \in Videos /\ socket \in [Sockets -> SocketRows] /\ fence \in [Videos -> FenceRows]
  BY DEF MediaInv, MediaTypeOK, SocketRows, FenceRows, ClaimExecution, SessionOK
<1> HIDE DEF j
<1>2. CASE Claimable(j)
  <2>1. /\ fence' = [fence EXCEPT ![j] = [worker |-> SocketWorker[s], token |-> token,
                                          live |-> TRUE, old |-> FALSE]]
        /\ \/ socket' = [socket EXCEPT ![s].phase = "granted", ![s].token = token]
           \/ Rests(s, socket[s].open)
    BY <1>2 DEF ClaimExecution, j
  <2>2. fence'[j].token = fence[j].token + 1 /\ \A k \in Videos \ {j} : fence'[k] = fence[k]
    BY <1>1, <2>1
  <2>3. CASE Rests(s, socket[s].open)
    <3>1. OnlyMoves(s) /\ socket'[s].phase \notin Sessions
      BY <2>3, IdleKeeps
    <3>2. TakesToken(s, j)
      BY <2>2, <3>1 DEF TakesToken, KeepsSession, OnlyMoves
    <3> QED
      BY <1>1, <3>2 DEF TokensFair
  <2>4. CASE socket' = [socket EXCEPT ![s].phase = "granted", ![s].token = token]
    <3>1. /\ socket'[s] = [socket[s] EXCEPT !.phase = "granted", !.token = token]
          /\ \A t \in Sockets \ {s} : socket'[t] = socket[t]
      BY <1>1, <2>4
    <3>2. socket'[s].job = socket[s].job /\ socket'[s].token = token
      BY <1>1, <3>1 DEF SocketRows
    <3>3. TakesToken(s, j)
      BY <2>2, <3>1, <3>2 DEF TakesToken, KeepsSession, j
    <3> QED
      BY <1>1, <3>3 DEF TokensFair
  <2> QED
    BY <2>1, <2>3, <2>4
<1>3. CASE ~Claimable(j)
  <2>1. fence' = fence /\ Rests(s, socket[s].open)
    BY <1>3 DEF ClaimExecution, j
  <2> QED
    BY <2>1, IdleKeeps, MoveKeeps DEF TokensFair, TokensStay
<1> QED
  BY <1>2, <1>3

LEMMA ResumptionTokens ==
    ASSUME MediaInv, NEW s \in Sockets, NEW j \in Videos, ClaimResumption(s, j)
    PROVE  TokensFair
<1> DEFINE token == fence[j].token + 1
<1>1. socket \in [Sockets -> SocketRows] /\ fence \in [Videos -> FenceRows] /\ fence[j] \in FenceRows
  BY DEF MediaInv, MediaTypeOK, SocketRows, FenceRows
<1>2. fence' = [fence EXCEPT ![j].token = token, ![j].live = TRUE]
  BY DEF ClaimResumption
<1>3. /\ fence'[j] = [fence[j] EXCEPT !.token = token, !.live = TRUE]
      /\ \A k \in Videos \ {j} : fence'[k] = fence[k]
  BY <1>1, <1>2
<1>4. fence'[j].token = fence[j].token + 1
  BY <1>1, <1>3 DEF FenceRows
<1>5. CASE Rests(s, FALSE)
  <2>1. OnlyMoves(s) /\ socket'[s].phase \notin Sessions
    BY <1>5, IdleKeeps
  <2>2. TakesToken(s, j)
    BY <1>3, <1>4, <2>1 DEF TakesToken, KeepsSession, OnlyMoves
  <2> QED
    BY <2>2 DEF TokensFair
<1>6. CASE socket' = [socket EXCEPT ![s] = [phase |-> "resumed", job |-> j, token |-> token,
                                            resume |-> TRUE, open |-> @.open]]
  <2>1. /\ socket'[s].job = j /\ socket'[s].token = token
        /\ \A t \in Sockets \ {s} : socket'[t] = socket[t]
    BY <1>1, <1>6
  <2>2. TakesToken(s, j)
    BY <1>3, <1>4, <2>1 DEF TakesToken, KeepsSession
  <2> QED
    BY <2>2 DEF TokensFair
<1> QED
  BY <1>5, <1>6 DEF ClaimResumption

LEMMA SessionTokens ==
    ASSUME MediaInv, NEW s \in Sockets, SocketStep(s) \/ (\E j \in Videos : Offer(s, j))
    PROVE  TokensFair
<1>1. CASE ClaimExecution(s)
  BY <1>1, ClaimTokens
<1>2. CASE GiveUp(s) \/ CleanupGivesUp(s) \/ SocketCrash(s) \/ Reconnect(s)
  <2>1. UNCHANGED fence /\ \E open \in {TRUE, FALSE, socket[s].open} : Rests(s, open)
    BY <1>2 DEF GiveUp, CleanupGivesUp, SocketCrash, Reconnect
  <2> QED
    BY <2>1, IdleKeeps, MoveKeeps DEF TokensFair, TokensStay
<1>3. CASE Finish(s) \/ Fail(s) \/ Break(s)
  <2>1. /\ UNCHANGED fence /\ socket[s].phase \in Sessions
        /\ \E open : socket' = [socket EXCEPT ![s].phase = "leaving", ![s].open = open]
    <3>1. CASE Finish(s)
      BY <3>1 DEF Finish, Sessions
    <3>2. CASE Fail(s)
      BY <3>2 DEF Fail, Sessions
    <3>3. CASE Break(s)
      BY <3>3 DEF Break, Sessions
    <3> QED
      BY <1>3, <3>1, <3>2, <3>3
  <2> QED
    BY <2>1, PhaseKeeps, MoveKeeps DEF TokensFair, TokensStay
<1>4. CASE RenewResumed(s) \/ SendJob(s)
  <2>1. UNCHANGED fence /\ socket[s].phase \in Sessions
    BY <1>4 DEF RenewResumed, SendJob, Sessions
  <2>2. Rests(s, FALSE) \/ \E phase : socket' = [socket EXCEPT ![s].phase = phase]
    BY <1>4 DEF RenewResumed, SendJob, Goes
  <2> QED
    BY <2>1, <2>2, IdleKeeps, PhaseKeeps, MoveKeeps DEF TokensFair, TokensStay
<1>5. CASE Detach(s)
  <2>1. Rests(s, socket[s].open) /\ socket[s].job \in Videos
    BY <1>5 DEF Detach, MediaInv, SessionOK
  <2>2. fence' = fence \/ fence' = [fence EXCEPT ![socket[s].job].live = FALSE]
    BY <1>5 DEF Detach
  <2>3. TokensStay
    BY <2>1, <2>2, TokenSame DEF TokensStay
  <2> QED
    BY <2>1, <2>3, IdleKeeps, MoveKeeps DEF TokensFair
<1>6. ASSUME NEW j \in Videos, Offer(s, j) PROVE TokensFair
  <2>1. socket \in [Sockets -> SocketRows] /\ socket[s] \in SocketRows
    BY DEF MediaInv, MediaTypeOK, SocketRows
  <2>2. UNCHANGED fence /\ socket' = [socket EXCEPT ![s].phase = "offered", ![s].job = j]
    BY <1>6 DEF Offer
  <2>3. socket'[s] = [socket[s] EXCEPT !.phase = "offered", !.job = j] /\ OnlyMoves(s)
    BY <2>1, <2>2 DEF OnlyMoves
  <2>4. socket'[s].phase = "offered"
    BY <2>1, <2>3 DEF SocketRows
  <2> QED
    BY <2>2, <2>3, <2>4, MoveKeeps DEF TokensFair, TokensStay, KeepsSession, Sessions
<1> QED
  BY <1>1, <1>2, <1>3, <1>4, <1>5, <1>6 DEF SocketStep

LEMMA StepTokens == ASSUME MediaInv, [MediaNext]_mediaVars PROVE TokensFair
<1>1. CASE UNCHANGED <<socket, fence>>
  BY <1>1, RestKeeps DEF TokensFair, TokensStay
<1>2. ASSUME NEW j \in Videos, Admit(j) \/ DispatchLapses(j) \/ Unpublish(j) \/ SweepHold(j)
      PROVE  UNCHANGED <<socket, fence>>
  BY <1>2 DEF Admit, DispatchLapses, Unpublish, SweepHold
<1>3. ASSUME NEW j \in Videos, ExecutionLapses(j) PROVE TokensFair
  <2>1. PICK old \in BOOLEAN : fence' = [fence EXCEPT ![j].live = FALSE, ![j].old = @ \/ old]
    BY <1>3 DEF ExecutionLapses
  <2>2. fence' = [fence EXCEPT ![j].live = FALSE, ![j].old = (fence[j].old \/ old)]
    BY <2>1
  <2>3. TokensStay
    BY <2>2, TokenSame
  <2>4. UNCHANGED socket
    BY <1>3 DEF ExecutionLapses
  <2> QED
    BY <2>3, <2>4, RestKeeps DEF TokensFair
<1>4. ASSUME NEW i \in Instances, OutboxStep(i) \/ OutboxStops(i) \/ (\E j \in Videos : List(i, j))
      PROVE  UNCHANGED <<socket, fence>>
  BY <1>4 DEF OutboxStep, Exhaust, Lease, Add, Confirm, OutboxStops, List
<1>5. CASE UNCHANGED mediaVars
  BY <1>1, <1>5 DEF mediaVars
<1>6. CASE MediaNext
  BY <1>1, <1>2, <1>3, <1>4, <1>6, SessionTokens, ResumptionTokens DEF MediaNext
<1> QED
  BY <1>5, <1>6

LEMMA TokensKept == ASSUME MediaInv, MediaInv', TokenInv, TokensFair PROVE TokenInv'
<1>1. /\ \A j \in Videos : fence[j].token \in Int
      /\ \A s \in Sockets : socket[s].token \in Int
      /\ \A s \in Sockets : socket[s].phase \in Sessions => socket[s].job \in Videos
  <2>1. \A j \in Videos : fence[j].token \in Int
    BY DEF MediaInv, MediaTypeOK
  <2>2. \A s \in Sockets : socket[s].token \in Int
    BY DEF MediaInv, MediaTypeOK
  <2>3. \A s \in Sockets : socket[s].phase \in Sessions => socket[s].job \in Videos
    BY DEF MediaInv, SessionOK, Sessions
  <2> QED
    BY <2>1, <2>2, <2>3
<1>2. CASE TokensStay /\ \A t \in Sockets : KeepsSession(t)
  <2>1. ASSUME NEW s \in Sockets, socket'[s].phase \in Sessions
        PROVE  socket'[s].token <= fence'[socket'[s].job].token
    BY <1>1, <1>2, <2>1 DEF TokenInv, TokensStay, KeepsSession
  <2>2. ASSUME NEW s \in Sockets, NEW t \in Sockets, s # t, socket'[s].phase \in Sessions,
               socket'[t].phase \in Sessions, socket'[s].job = socket'[t].job
        PROVE  socket'[s].token # socket'[t].token
    BY <1>2, <2>2 DEF TokenInv, KeepsSession
  <2> QED
    BY <2>1, <2>2 DEF TokenInv
<1>3. ASSUME NEW s \in Sockets, NEW j \in Videos, TakesToken(s, j) PROVE TokenInv'
  <2>1. fence'[j].token = fence[j].token + 1 /\ \A k \in Videos : k # j => fence'[k].token = fence[k].token
    BY <1>3 DEF TakesToken
  <2>2. socket'[s].phase \in Sessions => socket'[s].job = j /\ socket'[s].token = fence[j].token + 1
    BY <1>3 DEF TakesToken
  <2>3. ASSUME NEW t \in Sockets, t # s, socket'[t].phase \in Sessions
        PROVE  /\ socket[t].phase \in Sessions /\ socket'[t].job = socket[t].job
               /\ socket'[t].token = socket[t].token /\ socket[t].job \in Videos
               /\ socket[t].token <= fence[socket[t].job].token
    BY <1>1, <1>3, <2>3 DEF TakesToken, KeepsSession, TokenInv
  <2>4. ASSUME NEW t \in Sockets, socket'[t].phase \in Sessions
        PROVE  socket'[t].token <= fence'[socket'[t].job].token
    <3>1. CASE t = s
      BY <1>1, <2>1, <2>2, <2>4, <3>1
    <3>2. CASE t # s
      <4>1. socket[t].job \in Videos /\ socket'[t].job = socket[t].job /\ socket'[t].token = socket[t].token
            /\ socket[t].token <= fence[socket[t].job].token
        BY <2>3, <2>4, <3>2
      <4>2. CASE socket[t].job = j
        BY <1>1, <2>1, <4>1, <4>2
      <4>3. CASE socket[t].job # j
        BY <1>1, <2>1, <4>1, <4>3
      <4> QED
        BY <4>2, <4>3
    <3> QED
      BY <3>1, <3>2
  <2>5. ASSUME NEW a \in Sockets, NEW t \in Sockets, a # t, socket'[a].phase \in Sessions,
               socket'[t].phase \in Sessions, socket'[a].job = socket'[t].job
        PROVE  socket'[a].token # socket'[t].token
    <3>1. CASE a # s /\ t # s
      BY <2>3, <2>5, <3>1 DEF TokenInv
    <3>2. CASE a = s
      <4>1. socket'[a].token = fence[j].token + 1 /\ socket'[a].job = j
        BY <2>2, <2>5, <3>2
      <4>2. socket'[t].token <= fence[j].token /\ socket'[t].token \in Int
        BY <1>1, <2>3, <2>5, <3>2, <4>1
      <4> QED
        BY <1>1, <4>1, <4>2
    <3>3. CASE t = s
      <4>1. socket'[t].token = fence[j].token + 1 /\ socket'[t].job = j
        BY <2>2, <2>5, <3>3
      <4>2. socket'[a].token <= fence[j].token /\ socket'[a].token \in Int
        BY <1>1, <2>3, <2>5, <3>3, <4>1
      <4> QED
        BY <1>1, <4>1, <4>2
    <3> QED
      BY <3>1, <3>2, <3>3
  <2> QED
    BY <2>4, <2>5 DEF TokenInv
<1> QED
  BY <1>2, <1>3 DEF TokensFair

(***************************************************************************)
(* Of the connections that work on a video, one at most may end it: for    *)
(* any number of workers, connections, publications and resumptions.       *)
(***************************************************************************)
THEOREM OneSessionEnds == MediaSpec => []OneMayEnd
<1>1. MediaInit => TokenInv
  BY DEF MediaInit, TokenInv, Sessions
<1>2. MediaInv /\ MediaInv' /\ TokenInv /\ [MediaNext]_mediaVars => TokenInv'
  BY StepTokens, TokensKept
<1>3. TokenInv => OneMayEnd
  BY DEF TokenInv, OneMayEnd, MayEnd, Authorized, Sessions
<1> QED
  BY <1>1, <1>2, <1>3, MediaInductive, PTL DEF MediaSpec

\* The worker of an execution stays, and attempts are not forgotten.
LEMMA WorkersStay ==
    ASSUME MediaInv, [MediaNext]_mediaVars
    PROVE  \A j \in Videos : Started(j) => fence'[j].worker = fence[j].worker
<1>0. fence \in [Videos -> FenceRows] /\ socket \in [Sockets -> SocketRows]
  BY DEF MediaInv, MediaTypeOK, FenceRows, SocketRows
<1>1. CASE UNCHANGED fence
  BY <1>1
<1>2. ASSUME NEW k \in Videos, NEW row, fence' = [fence EXCEPT ![k] = row],
             Started(k) => row.worker = fence[k].worker
      PROVE  \A j \in Videos : Started(j) => fence'[j].worker = fence[j].worker
  BY <1>0, <1>2
<1>3. ASSUME NEW s \in Sockets, ClaimExecution(s)
      PROVE  \A j \in Videos : Started(j) => fence'[j].worker = fence[j].worker
  <2>1. socket[s].job \in Videos
    BY <1>3 DEF ClaimExecution, MediaInv, SessionOK
  <2> DEFINE row == [worker |-> SocketWorker[s], token |-> fence[socket[s].job].token + 1,
                     live |-> TRUE, old |-> FALSE]
  <2>2. \/ fence' = fence
        \/ ~Started(socket[s].job) /\ fence' = [fence EXCEPT ![socket[s].job] = row]
    BY <1>3 DEF ClaimExecution, Claimable
  <2> HIDE DEF row
  <2> QED
    BY <1>1, <1>2, <2>1, <2>2
<1>4. ASSUME NEW s \in Sockets, NEW k \in Videos, ClaimResumption(s, k)
      PROVE  \A j \in Videos : Started(j) => fence'[j].worker = fence[j].worker
  <2> DEFINE row == [fence[k] EXCEPT !.token = fence[k].token + 1, !.live = TRUE]
  <2>1. fence' = [fence EXCEPT ![k] = row] /\ row.worker = fence[k].worker
    BY <1>0, <1>4 DEF ClaimResumption, FenceRows
  <2> HIDE DEF row
  <2> QED
    BY <1>2, <2>1
<1>5. ASSUME NEW k \in Videos, ExecutionLapses(k)
      PROVE  \A j \in Videos : Started(j) => fence'[j].worker = fence[j].worker
  BY <1>5, FenceLapses DEF ExecutionLapses
<1>6. ASSUME NEW s \in Sockets, Detach(s)
      PROVE  \A j \in Videos : Started(j) => fence'[j].worker = fence[j].worker
  <2>1. socket[s].job \in Videos
    BY <1>6 DEF Detach, MediaInv, SessionOK
  <2>2. fence' = fence \/ fence' = [fence EXCEPT ![socket[s].job].live = FALSE]
    BY <1>6 DEF Detach
  <2> QED
    BY <1>1, <2>1, <2>2, FenceLapses, Zenon
<1>7. ASSUME NEW s \in Sockets,
             \/ GiveUp(s) \/ RenewResumed(s) \/ SendJob(s) \/ Finish(s) \/ Fail(s) \/ Break(s)
             \/ SocketCrash(s) \/ Reconnect(s) \/ CleanupGivesUp(s) \/ \E j \in Videos : Offer(s, j)
      PROVE  UNCHANGED fence
  BY <1>7 DEF GiveUp, RenewResumed, SendJob, Finish, Fail, Break, SocketCrash, Reconnect,
              CleanupGivesUp, Offer
<1>8. ASSUME NEW j \in Videos, Admit(j) \/ DispatchLapses(j) \/ Unpublish(j) \/ SweepHold(j)
      PROVE  UNCHANGED fence
  BY <1>8 DEF Admit, DispatchLapses, Unpublish, SweepHold
<1>9. ASSUME NEW i \in Instances, OutboxStep(i) \/ OutboxStops(i) \/ (\E j \in Videos : List(i, j))
      PROVE  UNCHANGED fence
  BY <1>9 DEF OutboxStep, Exhaust, Lease, Add, Confirm, OutboxStops, List
<1>10. CASE UNCHANGED mediaVars
  BY <1>1, <1>10 DEF mediaVars
<1>11. CASE \E s \in Sockets : SocketStep(s) \/ \E j \in Videos : Offer(s, j) \/ ClaimResumption(s, j)
  BY <1>1, <1>3, <1>4, <1>6, <1>7, <1>11 DEF SocketStep
<1>12. CASE \E j \in Videos : Admit(j) \/ DispatchLapses(j) \/ Unpublish(j) \/ ExecutionLapses(j) \/ SweepHold(j)
  BY <1>1, <1>5, <1>8, <1>12
<1>13. CASE \E i \in Instances : OutboxStep(i) \/ OutboxStops(i) \/ \E j \in Videos : List(i, j)
  BY <1>1, <1>9, <1>13
<1> QED
  BY <1>10, <1>11, <1>12, <1>13 DEF MediaNext

LEMMA AttemptsGrow ==
    ASSUME MediaInv, [MediaNext]_mediaVars
    PROVE  \A j \in Videos : journal[j].attempts <= journal'[j].attempts
<1>0. journal \in [Videos -> JournalRows] /\ \A j \in Videos : journal[j].attempts \in Int
  <2>1. journal \in [Videos -> JournalRows]
    BY DEF MediaInv, MediaTypeOK, JournalRows
  <2> QED
    BY <2>1 DEF JournalRows
<1>1. CASE UNCHANGED journal
  BY <1>0, <1>1
<1>2. ASSUME NEW k \in Videos, NEW row, journal' = [journal EXCEPT ![k] = row],
             journal[k].attempts <= row.attempts
      PROVE  \A j \in Videos : journal[j].attempts <= journal'[j].attempts
  BY <1>0, <1>2
<1>3. ASSUME NEW k \in Videos, Admit(k) \/ DispatchLapses(k)
      PROVE  \A j \in Videos : journal[j].attempts <= journal'[j].attempts
  <2> DEFINE pending == [journal[k] EXCEPT !.state = "pending"]
             lapsed == [journal[k] EXCEPT !.leased = FALSE]
  <2>1. pending.attempts = journal[k].attempts /\ lapsed.attempts = journal[k].attempts
    BY <1>0 DEF JournalRows
  <2>2. journal' = [journal EXCEPT ![k] = pending] \/ journal' = [journal EXCEPT ![k] = lapsed]
    BY <1>0, <1>3 DEF Admit, DispatchLapses
  <2> HIDE DEF pending, lapsed
  <2>3. journal[k].attempts <= pending.attempts /\ journal[k].attempts <= lapsed.attempts
    BY <1>0, <2>1
  <2>4. CASE journal' = [journal EXCEPT ![k] = pending]
    BY <1>2, <2>3, <2>4
  <2>5. CASE journal' = [journal EXCEPT ![k] = lapsed]
    BY <1>2, <2>3, <2>5
  <2> QED
    BY <2>2, <2>4, <2>5
<1>4. ASSUME NEW i \in Instances, Lease(i) \/ Confirm(i)
      PROVE  \A j \in Videos : journal[j].attempts <= journal'[j].attempts
  <2> DEFINE k == outbox[i].job
             row == [state |-> "dispatching", attempts |-> journal[k].attempts + 1, leased |-> TRUE]
             queued == [journal[k] EXCEPT !.state = "queued"]
  <2>1. k \in Videos
    BY <1>4 DEF MediaInv, Lease, Confirm
  <2>2. queued.attempts = journal[k].attempts /\ row.attempts = journal[k].attempts + 1
    BY <1>0, <2>1 DEF JournalRows
  <2>3. \/ journal' = journal
        \/ journal' = [journal EXCEPT ![k] = row]
        \/ journal' = [journal EXCEPT ![k] = queued]
    BY <1>0, <1>4, <2>1 DEF Lease, Confirm
  <2> HIDE DEF k, row, queued
  <2>4. journal[k].attempts <= row.attempts /\ journal[k].attempts <= queued.attempts
    BY <1>0, <2>1, <2>2
  <2> QED
    BY <1>1, <1>2, <2>1, <2>3, <2>4
<1>5. ASSUME NEW i \in Instances, Exhaust(i) \/ Add(i) \/ OutboxStops(i) \/ (\E j \in Videos : List(i, j))
      PROVE  UNCHANGED journal
  BY <1>5 DEF Exhaust, Add, OutboxStops, List
<1>6. ASSUME NEW j \in Videos, Unpublish(j) \/ ExecutionLapses(j) \/ SweepHold(j)
      PROVE  UNCHANGED journal
  BY <1>6 DEF Unpublish, ExecutionLapses, SweepHold
<1>7. ASSUME NEW s \in Sockets, SocketStep(s) \/ \E j \in Videos : Offer(s, j) \/ ClaimResumption(s, j)
      PROVE  UNCHANGED journal
  BY <1>7 DEF SocketStep, GiveUp, ClaimExecution, RenewResumed, SendJob, Finish, Fail, Break, Detach,
              SocketCrash, Reconnect, CleanupGivesUp, Offer, ClaimResumption
<1>8. CASE UNCHANGED mediaVars
  BY <1>1, <1>8 DEF mediaVars
<1> QED
  BY <1>1, <1>3, <1>4, <1>5, <1>6, <1>7, <1>8 DEF MediaNext, OutboxStep

(***************************************************************************)
(* A started video stays with its worker, and tokens and attempts only go  *)
(* up: nothing brings back a session that another one replaced.            *)
(***************************************************************************)
THEOREM FencesOnlyAdvance == MediaSpec => FencesAdvance
<1>1. ASSUME MediaInv, [MediaNext]_mediaVars
      PROVE  \A j \in Videos : fence[j].token <= fence'[j].token
  <2>1. \A j \in Videos : fence[j].token \in Int
    <3>1. fence \in [Videos -> FenceRows]
      BY <1>1 DEF MediaInv, MediaTypeOK, FenceRows
    <3> QED
      BY <3>1 DEF FenceRows
  <2>2. CASE TokensStay
    BY <2>1, <2>2 DEF TokensStay
  <2>3. ASSUME NEW s \in Sockets, NEW k \in Videos, TakesToken(s, k)
        PROVE  \A j \in Videos : fence[j].token <= fence'[j].token
    <3>1. fence'[k].token = fence[k].token + 1 /\ \A j \in Videos : j # k => fence'[j].token = fence[j].token
      BY <2>3 DEF TakesToken
    <3> QED
      BY <2>1, <3>1
  <2> QED
    BY <1>1, <2>2, <2>3, StepTokens DEF TokensFair
<1>2. MediaInv /\ [MediaNext]_mediaVars =>
        [\A j \in Videos : /\ Started(j) => fence'[j].worker = fence[j].worker
                           /\ fence[j].token <= fence'[j].token
                           /\ journal[j].attempts <= journal'[j].attempts]_mediaVars
  BY <1>1, WorkersStay, AttemptsGrow
<1> QED
  BY <1>2, MediaInductive, PTL DEF MediaSpec, FencesAdvance

-----------------------------------------------------------------------------
(* The refinement of JobMoney. *)

Phase(j) == IF demand[j] = "none" THEN "open" ELSE demand[j]
Cost(j)  == IF demand[j] \in {"held", "charged"} THEN 1 ELSE 0

\* A step changes the money of no job, or that of one job in one of three ways.
OthersRest(j) == \A k \in Videos : k # j => demand'[k] = demand[k] /\ payout'[k] = payout[k]
MoneyMoves(j) ==
    /\ OthersRest(j)
    /\ \/ demand[j] = "none" /\ demand'[j] = "held" /\ ~payout'[j]
       \/ demand[j] = "held" /\ demand'[j] = "charged" /\ payout'[j]
       \/ demand[j] = "held" /\ demand'[j] = "refunded" /\ ~payout'[j]

LEMMA ClosesMove ==
    ASSUME MediaInv, NEW j \in Videos, NEW who, NEW status \in {"charged", "refunded"},
           demand[j] = "held", CloseHold(j, status, who),
           payout' = IF status = "charged" THEN [payout EXCEPT ![j] = TRUE] ELSE payout
    PROVE  MoneyMoves(j)
<1>1. demand \in [Videos -> {"none", "held", "charged", "refunded"}] /\ payout \in [Videos -> BOOLEAN]
  BY DEF MediaInv, MediaTypeOK
<1>2. ~payout[j]
  BY DEF MediaInv, MoneyOK
<1> QED
  BY <1>1, <1>2 DEF CloseHold, MoneyMoves, OthersRest

LEMMA ReleaseMoves ==
    ASSUME MediaInv, NEW j \in Videos, ReleaseUnstarted(j), UNCHANGED payout
    PROVE  UNCHANGED <<demand, payout>> \/ MoneyMoves(j)
BY ClosesMove DEF ReleaseUnstarted, KeepHold

LEMMA MoneySteps ==
    ASSUME MediaInv, [MediaNext]_mediaVars
    PROVE  UNCHANGED <<demand, payout>> \/ \E j \in Videos : MoneyMoves(j)
<1>1. ASSUME NEW j \in Videos, Admit(j) PROVE MoneyMoves(j)
  BY <1>1 DEF Admit, MoneyMoves, OthersRest, MediaInv, MediaTypeOK, MoneyOK
<1>2. ASSUME NEW j \in Videos, SweepHold(j) PROVE MoneyMoves(j)
  BY <1>2, ClosesMove DEF SweepHold
<1>3. ASSUME NEW j \in Videos, DispatchLapses(j) \/ Unpublish(j) \/ ExecutionLapses(j)
      PROVE  UNCHANGED <<demand, payout>>
  BY <1>3 DEF DispatchLapses, Unpublish, ExecutionLapses
<1>4. ASSUME NEW i \in Instances, Exhaust(i)
      PROVE  UNCHANGED <<demand, payout>> \/ \E j \in Videos : MoneyMoves(j)
  <2>1. outbox[i].job \in Videos /\ ReleaseUnstarted(outbox[i].job) /\ UNCHANGED payout
    BY <1>4 DEF Exhaust, MediaInv
  <2> QED
    BY <2>1, ReleaseMoves
<1>5. ASSUME NEW i \in Instances,
             Lease(i) \/ Add(i) \/ Confirm(i) \/ OutboxStops(i) \/ \E j \in Videos : List(i, j)
      PROVE  UNCHANGED <<demand, payout>>
  BY <1>5 DEF Lease, Add, Confirm, OutboxStops, List
<1>6. ASSUME NEW s \in Sockets, GiveUp(s) \/ CleanupGivesUp(s)
      PROVE  UNCHANGED <<demand, payout>> \/ \E j \in Videos : MoneyMoves(j)
  <2>1. /\ socket[s].job \in Videos /\ (ReleaseUnstarted(socket[s].job) \/ KeepHold)
        /\ UNCHANGED payout
    BY <1>6 DEF GiveUp, CleanupGivesUp, MediaInv, SessionOK
  <2> QED
    BY <2>1, ReleaseMoves DEF KeepHold
<1>7. ASSUME NEW s \in Sockets, Finish(s)
      PROVE  UNCHANGED <<demand, payout>> \/ \E j \in Videos : MoneyMoves(j)
  <2>1. socket[s].job \in Videos
    BY <1>7 DEF Finish, MediaInv, SessionOK
  <2>2. \/ UNCHANGED <<demand, payout>>
        \/ /\ demand[socket[s].job] = "held" /\ CloseHold(socket[s].job, "charged", "worker")
           /\ payout' = [payout EXCEPT ![socket[s].job] = TRUE]
    BY <1>7 DEF Finish, Settles, KeepHold
  <2> QED
    BY <2>1, <2>2, ClosesMove
<1>8. ASSUME NEW s \in Sockets, Fail(s)
      PROVE  UNCHANGED <<demand, payout>> \/ \E j \in Videos : MoneyMoves(j)
  <2>1. socket[s].job \in Videos
    BY <1>8 DEF Fail, MediaInv, SessionOK
  <2>2. \/ UNCHANGED <<demand, payout>>
        \/ /\ demand[socket[s].job] = "held" /\ CloseHold(socket[s].job, "refunded", "worker")
           /\ payout' = payout
    BY <1>8 DEF Fail, KeepHold
  <2> QED
    BY <2>1, <2>2, ClosesMove
<1>9. ASSUME NEW s \in Sockets,
             \/ ClaimExecution(s) \/ RenewResumed(s) \/ SendJob(s) \/ Break(s) \/ Detach(s)
             \/ SocketCrash(s) \/ Reconnect(s)
             \/ \E j \in Videos : Offer(s, j) \/ ClaimResumption(s, j)
      PROVE  UNCHANGED <<demand, payout>>
  BY <1>9 DEF ClaimExecution, RenewResumed, SendJob, Break, Detach, SocketCrash, Reconnect,
              Offer, ClaimResumption
<1>10. CASE UNCHANGED mediaVars
  BY <1>10 DEF mediaVars
<1> QED
  BY <1>1, <1>2, <1>3, <1>4, <1>5, <1>6, <1>7, <1>8, <1>9, <1>10
     DEF MediaNext, OutboxStep, SocketStep

\* Only job j's money changes, as JobMoney has it.
LEMMA MovesBecome ==
    ASSUME MediaInv, MediaInv', NEW j \in Videos, MoneyMoves(j), NEW p, NEW w \in BOOLEAN,
           Phase(j)' = p, payout'[j] = w
    PROVE  Money!Becomes(j, p, w)
<1>1. /\ payout \in [Videos -> BOOLEAN] /\ payout' \in [Videos -> BOOLEAN]
  BY DEF MediaInv, MediaTypeOK
<1>2. \A k \in Videos : k # j =>
        Phase(k)' = Phase(k) /\ Cost(k)' = Cost(k) /\ payout'[k] = payout[k]
  BY DEF MoneyMoves, OthersRest, Phase, Cost
<1>3. [k \in Videos |-> Phase(k)]' = [[k \in Videos |-> Phase(k)] EXCEPT ![j] = p]
  BY <1>2
<1>4. payout' = [payout EXCEPT ![j] = w]
  BY <1>1, <1>2
<1>5. [k \in Videos |-> Cost(k)]' =
        [[k \in Videos |-> Cost(k)] EXCEPT ![j] = [k \in Videos |-> Cost(k)]'[j]]
  BY <1>2
<1> QED
  BY <1>3, <1>4, <1>5 DEF Money!Becomes, Phase, Cost

LEMMA MoneyRefines ==
    MediaInv /\ MediaInv' /\ [MediaNext]_mediaVars => [Money!MoneyNext]_(Money!moneyVars)
<1> SUFFICES ASSUME MediaInv, MediaInv', [MediaNext]_mediaVars
             PROVE  [Money!MoneyNext]_(Money!moneyVars)
  OBVIOUS
<1>1. CASE UNCHANGED <<demand, payout>>
  BY <1>1 DEF Money!moneyVars
<1>2. ASSUME NEW j \in Videos, MoneyMoves(j) PROVE Money!MoneyNext
  <2>1. payout'[j] \in BOOLEAN
    BY DEF MediaInv, MediaTypeOK
  <2>2. payout[j] <=> demand[j] = "charged"
    BY DEF MediaInv, MoneyOK
  <2>3. CASE demand[j] = "none" /\ demand'[j] = "held" /\ ~payout'[j]
    <3>1. Phase(j) = "open" /\ Phase(j)' = "held" /\ Cost(j)' = 1 /\ payout'[j] = FALSE /\ ~payout[j]
      BY <2>2, <2>3 DEF Phase, Cost, MediaInv, MediaTypeOK
    <3>2. Money!Becomes(j, "held", FALSE)
      BY <1>2, <2>1, <3>1, MovesBecome
    <3>3. Money!HoldMoney(j)
      BY <3>1, <3>2 DEF Money!HoldMoney, Phase, Cost
    <3> QED
      BY <3>3 DEF Money!MoneyNext
  <2>4. CASE demand[j] = "held" /\ demand'[j] = "charged" /\ payout'[j]
    <3>1. Phase(j) = "held" /\ Phase(j)' = "charged" /\ Cost(j)' = 1 /\ payout'[j] = TRUE
      BY <2>4 DEF Phase, Cost, MediaInv, MediaTypeOK
    <3>2. Money!Becomes(j, "charged", TRUE)
      BY <1>2, <2>1, <3>1, MovesBecome
    <3>3. Money!ChargeMoney(j)
      BY <3>1, <3>2 DEF Money!ChargeMoney, Phase, Cost
    <3> QED
      BY <3>3 DEF Money!MoneyNext
  <2>5. CASE demand[j] = "held" /\ demand'[j] = "refunded" /\ ~payout'[j]
    <3>1. /\ Phase(j) = "held" /\ Phase(j)' = "refunded" /\ Cost(j)' = 0 /\ payout'[j] = FALSE
          /\ ~payout[j]
      BY <2>2, <2>5 DEF Phase, Cost, MediaInv, MediaTypeOK
    <3>2. Money!Becomes(j, "refunded", FALSE)
      BY <1>2, <2>1, <3>1, MovesBecome
    <3>3. Money!RefundMoney(j)
      BY <3>1, <3>2 DEF Money!RefundMoney, Phase, Cost
    <3> QED
      BY <3>3 DEF Money!MoneyNext
  <2> QED
    BY <1>2, <2>3, <2>4, <2>5 DEF MoneyMoves
<1> QED
  BY <1>1, <1>2, MoneySteps

LEMMA MoneyStarts == MediaInit => Money!MoneyInit
BY DEF MediaInit, Money!MoneyInit

(***************************************************************************)
(* The money of every video job is JobMoney's: held once, and then charged *)
(* with the worker paid or refunded with nobody paid, for good.            *)
(***************************************************************************)
THEOREM MediaImplements == MediaSpec => ImplementsVideoMoney
BY MoneyStarts, MoneyRefines, MediaInductive, PTL
   DEF MediaSpec, ImplementsVideoMoney, Money!MoneySpec
=============================================================================
