------------------------------ MODULE MCMedia ------------------------------
(***************************************************************************)
(* A small instance of MediaJobs for TLC.                                  *)
(***************************************************************************)
EXTENDS MediaJobs

CONSTANTS v1, w1, w2, s1, s2, s3

OnWorkers == [s \in Sockets |-> IF s = s3 THEN w2 ELSE w1]
=============================================================================
