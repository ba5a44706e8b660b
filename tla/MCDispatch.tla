------------------------------ MODULE MCDispatch ------------------------------
(***************************************************************************)
(* Small instances of WorkerSocket for TLC.                                *)
(***************************************************************************)
EXTENDS DispatchProps

CONSTANTS c1, c2, j1, j2, w1, w2

OneJob     == {j1}
TwoJobs    == {j1, j2}
TwoWorkers == {w1, w2}
OneConn    == {c1}
TwoConns   == {c1, c2}
EachItsOwn == [c \in Conns |-> IF c = c1 THEN w1 ELSE w2]
SameWorker == [c \in Conns |-> w1]
ServesAll  == [w \in Workers |-> Jobs]
OnlySecond == [w \in Workers |-> IF w = w2 THEN Jobs ELSE {}]
NoTarget   == [j \in Jobs |-> NoWorker]
OnSecond   == [j \in Jobs |-> w2]

(***************************************************************************)
(* A delivery some worker has read is eventually off the pending list,     *)
(* although its worker crashes, its connection closes with it in the       *)
(* poller, or the hint of a route reaches nobody.                          *)
(***************************************************************************)
PendingIsResolved == \A k \in 1..10 :
    (k \in Ids /\ Pending(k)) ~> ~(k \in Ids /\ Pending(k))
=============================================================================
