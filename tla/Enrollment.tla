----------------------------- MODULE Enrollment -----------------------------
(***************************************************************************)
(* Enrollment of one rig.  Its manager makes a key and asks; the owner of  *)
(* an account prepares and approves with the signature of a wallet; the    *)
(* manager fetches the certificate and acknowledges it, which makes the    *)
(* key permanent and revokes the rig's older keys.  An enrollment is a     *)
(* Redis record under a lock of thirty seconds, a key is a database row:   *)
(* every call to either is a step, and the rows an activation writes stay  *)
(* locked until it commits.                                                *)
(***************************************************************************)
EXTENDS Integers

CONSTANTS
    Enrollments,    \* of one rig, each with a key of its own
    RigOwners,      \* accounts that may approve them
    RigSource,      \* the one that may be merged away
    Visits,         \* requests that work on enrollments
    MaxFaults,      \* bound of this model: lapsed locks and lost answers of Redis
    Nobody

ASSUME EnrollmentAssumption ==
    /\ RigSource \in RigOwners /\ MaxFaults \in Nat
    /\ Nobody \notin RigOwners \union Visits \union Enrollments

VARIABLES
    ticket,     \* the enrollment in Redis, and who prepared it
    guard,      \* who holds its lock
    rigKey,     \* the row in grid_api_keys
    rowLock,    \* which activation has written it
    visit,      \* the requests
    faults, mergedAway

enrollVars == <<ticket, guard, rigKey, rowLock, visit, faults, mergedAway>>

Asked  == [status |-> "pending", owner |-> Nobody]
NoKey  == [status |-> "none", owner |-> Nobody]
Away   == [kind |-> "none", step |-> "away", at |-> Nobody, owner |-> Nobody]
Kinds  == {"prepare", "approve", "ack"}

EnrollTypeOK ==
    /\ ticket \in [Enrollments ->
         [status : {"pending", "prepared", "complete", "activated", "gone"},
          owner : RigOwners \union {Nobody}]]
    /\ guard \in [Enrollments -> Visits \union {Nobody}]
    /\ rigKey \in [Enrollments -> [status : {"none", "temporary", "permanent", "revoked"},
                                owner : RigOwners \union {Nobody}]]
    /\ rowLock \in [Enrollments -> Visits \union {Nobody}]
    /\ visit \in [Visits -> [kind : Kinds \union {"none"},
         step : {"away", "loaded", "installed", "undoing", "named", "written", "done"},
         at : Enrollments \union {Nobody}, owner : RigOwners \union {Nobody}]]
    /\ faults \in 0..MaxFaults /\ mergedAway \in BOOLEAN

EnrollInit ==
    /\ ticket = [e \in Enrollments |-> Asked] /\ guard = [e \in Enrollments |-> Nobody]
    /\ rigKey = [e \in Enrollments |-> NoKey] /\ rowLock = [e \in Enrollments |-> Nobody]
    /\ visit = [v \in Visits |-> Away] /\ faults = 0 /\ mergedAway = FALSE

-----------------------------------------------------------------------------
(* Requests. *)

AtStep(v, kind, step) == visit[v].kind = kind /\ visit[v].step = step
GoesTo(v, step) == visit' = [visit EXCEPT ![v].step = step]
NoFault == UNCHANGED <<faults, mergedAway>>
Fault == faults < MaxFaults /\ faults' = faults + 1 /\ UNCHANGED mergedAway

\* The lock is released only by the token that took it.
GoesAway(v) ==
    /\ visit' = [visit EXCEPT ![v] = Away]
    /\ guard' = [e \in Enrollments |-> IF guard[e] = v THEN Nobody ELSE guard[e]]
    /\ rowLock' = [e \in Enrollments |-> IF rowLock[e] = v THEN Nobody ELSE rowLock[e]]

\* What the record must say for the request to go on.
Accepts(e, kind) == ticket[e].status =
    CASE kind = "prepare" -> "pending" [] kind = "approve" -> "prepared" [] kind = "ack" -> "complete"

\* Who it works for: the sender was authenticated before, perhaps as an
\* account that is merged away by now.
OnBehalf(e, kind) == IF kind = "prepare" THEN RigOwners ELSE {ticket[e].owner}

\* It takes the lock and reads the record.
Loads(v, e, kind) ==
    /\ visit[v] = Away /\ guard[e] = Nobody /\ Accepts(e, kind)
    /\ guard' = [guard EXCEPT ![e] = v]
    /\ \E a \in OnBehalf(e, kind) :
         visit' = [visit EXCEPT ![v] = [kind |-> kind, step |-> "loaded", at |-> e, owner |-> a]]
    /\ UNCHANGED <<ticket, rigKey, rowLock>> /\ NoFault

\* It is refused, fails, or dies with its process: the lock is free again
\* after thirty seconds at the latest, its transaction is rolled back.
Ends(v) ==
    /\ visit[v].step # "away" /\ GoesAway(v)
    /\ UNCHANGED <<ticket, rigKey>> /\ NoFault

\* It takes longer than its lock.
Lapses(e) ==
    /\ guard[e] # Nobody /\ Fault
    /\ guard' = [guard EXCEPT ![e] = Nobody]
    /\ UNCHANGED <<ticket, rigKey, rowLock, visit>>

RecordExpires(e) ==
    /\ ticket' = [ticket EXCEPT ![e].status = "gone"]
    /\ UNCHANGED <<guard, rigKey, rowLock, visit>> /\ NoFault

Writes(v, status) ==
    ticket' = [ticket EXCEPT ![visit[v].at] = [status |-> status, owner |-> visit[v].owner]]

-----------------------------------------------------------------------------
(* The owner. *)

\* It writes nothing once the enrollment's own time is over; an activated
\* record is gone sooner.
SavePrepared(v) ==
    /\ AtStep(v, "prepare", "loaded")
    /\ \/ Writes(v, "prepared")
       \/ ticket[visit[v].at].status = "gone" /\ ticket' = ticket
    /\ GoesAway(v)
    /\ UNCHANGED rigKey /\ NoFault

\* A key that is there must be live and of this account.
Installs(v) ==
    LET e == visit[v].at IN
    \/ /\ rigKey[e].status = "none"
       /\ rigKey' = [rigKey EXCEPT ![e] = [status |-> "temporary", owner |-> visit[v].owner]]
    \/ /\ rigKey[e].status \in {"temporary", "permanent"} /\ rigKey[e].owner = visit[v].owner
       /\ rigKey' = rigKey

InstallKey(v) ==
    /\ AtStep(v, "approve", "loaded") /\ Installs(v) /\ GoesTo(v, "installed")
    /\ UNCHANGED <<ticket, guard, rowLock>> /\ NoFault

\* The commit happened, but nobody heard of it.
InstallUnheard(v) ==
    /\ AtStep(v, "approve", "loaded") /\ Installs(v) /\ GoesAway(v)
    /\ UNCHANGED ticket /\ NoFault

PublishCertificate(v) ==
    /\ AtStep(v, "approve", "installed") /\ Writes(v, "complete") /\ GoesAway(v)
    /\ UNCHANGED rigKey /\ NoFault

\* An error does not say whether Redis has it.
PublishFails(v) ==
    /\ AtStep(v, "approve", "installed") /\ Fault
    /\ Writes(v, "complete") \/ ticket' = ticket
    /\ GoesTo(v, "undoing")
    /\ UNCHANGED <<guard, rigKey, rowLock>>

Revokes(e) == rowLock[e] = Nobody /\ rigKey' = [rigKey EXCEPT ![e].status = "revoked"]

UndoInstall(v) ==
    /\ AtStep(v, "approve", "undoing") /\ Revokes(visit[v].at) /\ GoesAway(v)
    /\ UNCHANGED ticket /\ NoFault

-----------------------------------------------------------------------------
(* The manager. *)

Usable(e, a) == rigKey[e].status \in {"temporary", "permanent"} /\ rigKey[e].owner = a

\* The activation reads the rig's name from its row.
ReadLabel(v) ==
    /\ AtStep(v, "ack", "loaded") /\ Usable(visit[v].at, visit[v].owner)
    /\ GoesTo(v, "named")
    /\ UNCHANGED <<ticket, guard, rigKey, rowLock>> /\ NoFault

\* (mutant) the row counts as it was read
AsRead(v) == rowLock[visit[v].at] = Nobody

\* The update looks at the row again once it has its lock.
StillUsable(v) == rowLock[visit[v].at] = Nobody /\ Usable(visit[v].at, visit[v].owner)

WriteOwnRow(v) ==
    /\ AtStep(v, "ack", "named") /\ StillUsable(v)
    /\ rowLock' = [rowLock EXCEPT ![visit[v].at] = v] /\ GoesTo(v, "written")
    /\ UNCHANGED <<ticket, guard, rigKey>> /\ NoFault

Older(v) == {f \in Enrollments \ {visit[v].at} : Usable(f, visit[v].owner)}

\* Two activations may wait for each other: the database ends one (Ends).
RevokeOlder(v) ==
    /\ AtStep(v, "ack", "written") /\ \A f \in Older(v) : rowLock[f] = Nobody
    /\ rigKey' = [e \in Enrollments |->
         IF e = visit[v].at THEN [rigKey[e] EXCEPT !.status = "permanent"]
         ELSE IF e \in Older(v) THEN [rigKey[e] EXCEPT !.status = "revoked"] ELSE rigKey[e]]
    /\ rowLock' = [rowLock EXCEPT ![visit[v].at] = Nobody] /\ GoesTo(v, "done")
    /\ UNCHANGED <<ticket, guard>> /\ NoFault

PublishActivated(v) ==
    /\ AtStep(v, "ack", "done") /\ Writes(v, "activated") /\ GoesAway(v)
    /\ UNCHANGED rigKey /\ NoFault

-----------------------------------------------------------------------------
\* The owner ends a key in the console.
OwnerRevokes(e) ==
    /\ rigKey[e].status \in {"temporary", "permanent"} /\ Revokes(e)
    /\ UNCHANGED <<ticket, guard, rowLock, visit>> /\ NoFault

\* merge_accounts revokes the keys of the account that is merged away.
MergeOwner ==
    /\ ~mergedAway /\ mergedAway' = TRUE
    /\ \A e \in Enrollments : rigKey[e].owner = RigSource => rowLock[e] = Nobody
    /\ rigKey' = [e \in Enrollments |->
         IF rigKey[e].owner = RigSource THEN [rigKey[e] EXCEPT !.status = "revoked"] ELSE rigKey[e]]
    /\ UNCHANGED <<ticket, guard, rowLock, visit, faults>>

EnrollNext ==
    \/ \E v \in Visits :
         \/ \E e \in Enrollments, kind \in Kinds : Loads(v, e, kind)
         \/ Ends(v) \/ SavePrepared(v)
         \/ InstallKey(v) \/ InstallUnheard(v)
         \/ PublishCertificate(v) \/ PublishFails(v) \/ UndoInstall(v)
         \/ ReadLabel(v) \/ WriteOwnRow(v) \/ RevokeOlder(v) \/ PublishActivated(v)
    \/ \E e \in Enrollments : Lapses(e) \/ RecordExpires(e) \/ OwnerRevokes(e)
    \/ MergeOwner

EnrollSpec == EnrollInit /\ [][EnrollNext]_enrollVars

-----------------------------------------------------------------------------
(***************************************************************************)
(* An account has one permanent key for a rig, the last one acknowledged   *)
(* ("activate one rig key and revoke older keys"); a revoked key never     *)
(* works again, although approvals, acknowledgements and their retries     *)
(* race the revocation; and a manager is told "activated" only of a key    *)
(* that does not run out.                                                  *)
(***************************************************************************)
OneKeyPerRig == [][\A e \in Enrollments :
    /\ rigKey[e].status = "revoked" => rigKey'[e] = rigKey[e]
    /\ rigKey'[e].status = "permanent" =>
         \A f \in Enrollments \ {e} : rigKey'[f] # rigKey'[e]
    /\ ticket'[e].status = "activated" /\ ticket[e].status # "activated" =>
         rigKey'[e].status \in {"permanent", "revoked"}]_enrollVars
=============================================================================
