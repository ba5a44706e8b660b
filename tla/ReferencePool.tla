--------------------------- MODULE ReferencePool ---------------------------
(***************************************************************************)
(* Witnesses of media probes.  Polls of validators open probe groups: each *)
(* group compares its target worker with two bonded references, chosen     *)
(* from an unlocked list and locked one by one until the poll commits.     *)
(* Meanwhile workers reconnect under other wallets, maintainers review who *)
(* controls a worker and which workers are references, and the bond        *)
(* synchronizer refreshes every reference from the finalized chain.        *)
(*                                                                         *)
(* A poll goes through its targets in one order, but the rows of its       *)
(* witnesses are locked in another: two polls may wait for each other,     *)
(* and the database then aborts one (PollAborts).                          *)
(***************************************************************************)
EXTENDS Integers, Sequences, FiniteSets

CONSTANTS
    Nodes,          \* workers, numbered in the order of their ids
    Owners,         \* an account and its payout wallet, which are compared alike
    ControlGroups,  \* reviewed operator groups
    FirstOwner,     \* whose a worker is, and its group, when the pool is new
    FirstGroup,
    Polls,          \* assignment polls
    MaxEdits        \* bound of this model: what workers, maintainers and chain change

ASSUME PoolAssumption ==
    /\ Nodes \subseteq Nat \ {0} /\ MaxEdits \in Nat
    /\ FirstOwner \in [Nodes -> Owners] /\ FirstGroup \in [Nodes -> ControlGroups]

VARIABLES
    owner,      \* grid_workers: whose a worker is now
    control,    \* grid_worker_control_reviews
    reference,  \* grid_validator_reference_workers
    bonds,      \* who is bonded, by finalized block of the chain
    sync,       \* the synchronizer, and its last healthy block
    poll,       \* the transaction of each poll
    edits

poolVars == <<owner, control, reference, bonds, sync, poll, edits>>

NoList == [n \in {} |-> n]
NewPoll == [target |-> 0, shared |-> {}, locked |-> {}, list |-> NoList, picked |-> {},
            groups |-> {}]
Witnesses(p) == 2 - Cardinality(poll[p].picked)

PoolTypeOK ==
    /\ owner \in [Nodes -> Owners]
    /\ control \in [Nodes -> [status : {"verified", "rejected", "revoked"}, owner : Owners,
                              group : ControlGroups]]
    /\ reference \in [Nodes -> [status : {"active", "paused", "revoked"}, owner : Owners,
                                bonded : BOOLEAN, block : 0..Len(bonds)]]
    /\ bonds \in Seq(SUBSET Owners) /\ edits \in 0..MaxEdits
    /\ sync \in [busy : BOOLEAN, wallets : SUBSET Owners, anchor : 1..Len(bonds)]
    /\ \A p \in Polls :
         /\ poll[p].target \in Nodes \union {0}
         /\ poll[p].shared \union poll[p].locked \subseteq Nodes
         /\ poll[p].picked \subseteq poll[p].locked /\ Witnesses(p) >= 0
         /\ DOMAIN poll[p].list \subseteq Nodes
         /\ \A g \in poll[p].groups : g.target \in poll[p].shared /\ g.by \subseteq poll[p].locked

\* A pool in service: every worker is reviewed, and bonded.
PoolInit ==
    /\ owner = FirstOwner
    /\ control = [n \in Nodes |-> [status |-> "verified", owner |-> owner[n],
                                   group |-> FirstGroup[n]]]
    /\ bonds = <<{owner[n] : n \in Nodes}>>
    /\ reference = [n \in Nodes |-> [status |-> "active", owner |-> owner[n], bonded |-> TRUE,
                                     block |-> 1]]
    /\ sync = [busy |-> FALSE, wallets |-> {}, anchor |-> 1]
    /\ poll = [p \in Polls |-> NewPoll] /\ edits = 0

-----------------------------------------------------------------------------
(* A poll. *)

Reviewed(n) == control[n].status = "verified" /\ control[n].owner = owner[n]

\* eligibility: the target's review is share-locked, and named its owner.
Suitable(n, t) ==
    /\ n # t
    /\ reference[n].status = "active" /\ reference[n].bonded
    /\ reference[n].owner = owner[n] /\ Reviewed(n)
    /\ owner[n] # control[t].owner /\ control[n].group # control[t].group

Identity(n) == [owner |-> reference[n].owner, group |-> control[n].group]

\* _independent_from_selected
Independent(identity, nodes) ==
    \A m \in nodes : Identity(m).owner # identity.owner /\ Identity(m).group # identity.group

IsNext(p, n) ==
    /\ poll[p].target = 0 /\ \A m \in poll[p].shared : m < n
    /\ \A q \in Polls : n \notin poll[q].shared

WithList(p, t) ==
    [poll[p] EXCEPT !.target = t,
                    !.list = [n \in {m \in Nodes : Suitable(m, t)} |-> Identity(n)]]

\* The next target without an open group to join: its advisory lock, the share
\* lock of its review, and the list of its witnesses.
OpenGroup(p, n) ==
    /\ IsNext(p, n) /\ \A q \in Polls \ {p} : n \notin poll[q].locked
    /\ LET row == IF Reviewed(n) THEN WithList(p, n) ELSE poll[p] IN
         poll' = [poll EXCEPT ![p] = [row EXCEPT !.shared = @ \union {n}]]
    /\ UNCHANGED <<owner, control, reference, bonds, sync, edits>>

Candidate(p, n) ==
    n \in DOMAIN poll[p].list /\ Independent(poll[p].list[n], poll[p].picked)

Lockable(p, n) == \A q \in Polls \ {p} : n \notin poll[q].locked \union poll[q].shared

\* (mutant) independence is not compared again under the lock
StillSuitable(p, n) == Suitable(n, poll[p].target)

\* What is read under the lock decides.
StillGood(p, n) == Suitable(n, poll[p].target) /\ Independent(Identity(n), poll[p].picked)

\* One row of reference and one of review, locked together or skipped.
TryWitness(p, n) ==
    /\ poll[p].target # 0 /\ Witnesses(p) > 0 /\ Candidate(p, n)
    /\ LET takes == IF Lockable(p, n) /\ Suitable(n, poll[p].target) THEN {n} ELSE {} IN
         poll' = [poll EXCEPT
           ![p].list = [m \in DOMAIN @ \ {n} |-> @[m]],
           ![p].locked = @ \union takes,
           ![p].picked = @ \union {m \in takes : StillGood(p, m)}]
    /\ UNCHANGED <<owner, control, reference, bonds, sync, edits>>

\* The group is inserted, or the pool is unavailable; the locks stay.
EndChoice(p) ==
    /\ poll[p].target # 0
    /\ Witnesses(p) = 0 \/ \A n \in Nodes : ~Candidate(p, n)
    /\ poll' = [poll EXCEPT
         ![p].target = 0, ![p].list = NoList, ![p].picked = {},
         ![p].groups = IF Witnesses(p) = 0
                       THEN @ \union {[target |-> poll[p].target, by |-> poll[p].picked]} ELSE @]
    /\ UNCHANGED <<owner, control, reference, bonds, sync, edits>>

CommitPoll(p) ==
    /\ poll[p].target = 0 /\ poll[p].shared # {}
    /\ poll' = [poll EXCEPT ![p] = NewPoll]
    /\ UNCHANGED <<owner, control, reference, bonds, sync, edits>>

\* Its process dies, or the database breaks a deadlock.
PollAborts(p) ==
    /\ poll[p].shared # {}
    /\ poll' = [poll EXCEPT ![p] = NewPoll]
    /\ UNCHANGED <<owner, control, reference, bonds, sync, edits>>

-----------------------------------------------------------------------------
(* Workers, maintainers and the chain. *)

Edits == edits < MaxEdits /\ edits' = edits + 1

\* A worker reconnects under the payout wallet its account has now.
Reconnect(n) ==
    /\ Edits
    /\ \E o \in Owners \ {owner[n]} : owner' = [owner EXCEPT ![n] = o]
    /\ UNCHANGED <<control, reference, bonds, sync, poll>>

ReviewUnlocked(n) == \A p \in Polls : n \notin poll[p].locked \union poll[p].shared
ReferenceUnlocked(n) == \A p \in Polls : n \notin poll[p].locked

\* A maintainer applies a review whose preview still holds; revoked is for good.
ReviewControl(n) ==
    /\ Edits /\ ReviewUnlocked(n) /\ control[n].status # "revoked"
    /\ \E status \in {"verified", "rejected", "revoked"}, g \in ControlGroups :
         control' = [control EXCEPT ![n] = [status |-> status, owner |-> owner[n], group |-> g]]
    /\ UNCHANGED <<owner, reference, bonds, sync, poll>>

\* A new owner starts without a bond.
Refreshed(n) ==
    IF reference[n].owner # owner[n]
    THEN [status |-> "paused", owner |-> owner[n], bonded |-> FALSE, block |-> 0]
    ELSE IF reference[n].bonded /\ Reviewed(n) THEN reference[n]
    ELSE [reference[n] EXCEPT !.status = "paused"]

ReviewReference(n) ==
    /\ ReferenceUnlocked(n) /\ ReviewUnlocked(n) /\ reference[n].status # "revoked"
    /\ reference' = [reference EXCEPT ![n] = Refreshed(n)]
    /\ UNCHANGED <<owner, control, bonds, sync, poll, edits>>

SetReference(n) ==
    /\ Edits /\ ReferenceUnlocked(n) /\ ReviewUnlocked(n) /\ reference[n].status # "revoked"
    /\ reference[n].owner = owner[n]
    /\ \E status \in {"active", "paused", "revoked"} :
         /\ status = "active" => reference[n].bonded /\ Reviewed(n)
         /\ reference' = [reference EXCEPT ![n].status = status]
    /\ UNCHANGED <<owner, control, bonds, sync, poll>>

\* A block is final in which somebody has bonded or unbonded.
BondChanges ==
    /\ Edits
    /\ \E o \in Owners : bonds' = Append(bonds, (bonds[Len(bonds)] \ {o})
                                                \union ({o} \ bonds[Len(bonds)]))
    /\ UNCHANGED <<owner, control, reference, sync, poll>>

\* One synchronizer at a time: it lists the wallets, then asks two nodes.
StartSync ==
    /\ ~sync.busy
    /\ sync' = [sync EXCEPT !.busy = TRUE, !.wallets = {reference[n].owner : n \in Nodes}]
    /\ UNCHANGED <<owner, control, reference, bonds, poll, edits>>

SyncOver(block) == sync' = [busy |-> FALSE, wallets |-> {}, anchor |-> block]

\* Both agree on a block, not behind the last one; rows are then read again.
ApplySnapshot ==
    /\ sync.busy /\ \A n \in Nodes : ReferenceUnlocked(n)
    /\ \E block \in sync.anchor..Len(bonds) :
         /\ reference' = [n \in Nodes |-> [reference[n] EXCEPT
              !.block = block,
              !.bonded = /\ owner[n] = reference[n].owner
                         /\ reference[n].owner \in sync.wallets \intersect bonds[block]]]
         /\ SyncOver(block)
    /\ UNCHANGED <<owner, control, bonds, poll, edits>>

\* They disagree, lag or do not answer: no bond counts any more.
SyncFaults ==
    /\ sync.busy /\ \A n \in Nodes : reference[n].bonded => ReferenceUnlocked(n)
    /\ reference' = [n \in Nodes |-> [reference[n] EXCEPT !.bonded = FALSE]]
    /\ SyncOver(sync.anchor)
    /\ UNCHANGED <<owner, control, bonds, poll, edits>>

SyncDies ==
    /\ sync.busy /\ SyncOver(sync.anchor)
    /\ UNCHANGED <<owner, control, reference, bonds, poll, edits>>

PoolNext ==
    \/ \E p \in Polls :
         \/ EndChoice(p) \/ CommitPoll(p) \/ PollAborts(p)
         \/ \E n \in Nodes : OpenGroup(p, n) \/ TryWitness(p, n)
    \/ \E n \in Nodes : Reconnect(n) \/ ReviewControl(n) \/ ReviewReference(n) \/ SetReference(n)
    \/ BondChanges \/ StartSync \/ ApplySnapshot \/ SyncFaults \/ SyncDies

PoolSpec == PoolInit /\ [][PoolNext]_poolVars

-----------------------------------------------------------------------------
(***************************************************************************)
(* The witnesses of a group are under control of nobody who controls its   *)
(* target or each other, by the reviews in force until the group commits,  *)
(* and each is an active reference.  A reference counts as bonded only as  *)
(* long as the chain said so of its own owner at its recorded block.       *)
(* Relies on _choose_reference_workers comparing identities again under    *)
(* its locks, on the share lock of the target's review, and on             *)
(* review_reference dropping the bond of a former owner.                   *)
(***************************************************************************)
WitnessesHold ==
    /\ \A p \in Polls : \A g \in poll[p].groups :
         /\ control[g.target].status = "verified" /\ Cardinality(g.by) = 2
         /\ \A n \in g.by :
              /\ reference[n].status = "active" /\ reference[n].bonded
              /\ Identity(n).owner # control[g.target].owner
              /\ Independent(Identity(n), g.by \ {n})
              /\ Identity(n).group # control[g.target].group
    /\ \A n \in Nodes : reference[n].bonded =>
         reference[n].block # 0 /\ reference[n].owner \in bonds[reference[n].block]
=============================================================================
