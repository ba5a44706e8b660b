------------------------------ MODULE NodeLink ------------------------------
(***************************************************************************)
(* The association of a validator node with the account of the human who   *)
(* runs it.  The node opens a pairing in its one replaceable slot, the     *)
(* human approves it, the node signs what was approved and confirms; either*)
(* side may withdraw.  Meanwhile the node may rotate its wallet and either *)
(* account may be merged away.  Every operation is one transaction under   *)
(* the lock of the node's row; what is read before the lock, and what was  *)
(* signed before the call, may be old.                                     *)
(***************************************************************************)
EXTENDS Association

VARIABLES
    slot,       \* the row of validator_pairings
    asking,     \* the pairing a human's approval, past its first check, is for
    proofs,     \* pairing payloads the node has signed
    approvals,  \* history: what was approved, and by whom
    withdrawn   \* history: pairings cancelled or unlinked

pairingVars == <<slot, asking, proofs, approvals, withdrawn>>

NoSlot == [id |-> 0, key |-> FirstKey, operator |-> NoHuman, status |-> "none", late |-> FALSE]

PairingTypeOK ==
    /\ AssociationTypeOK
    /\ slot \in [id : PairingIds \union {0}, key : Keys, operator : Humans \union {NoHuman},
                 status : {"none", "pending", "approved", "linked", "cancelled"}, late : BOOLEAN]
    /\ asking \in [Humans -> PairingIds \union {0}]
    /\ proofs \subseteq [id : PairingIds, operator : Humans, key : Keys, by : Keys]
    /\ approvals \subseteq [id : PairingIds, operator : Humans]
    /\ withdrawn \subseteq PairingIds

PairingInit ==
    /\ slot = NoSlot /\ asking = [h \in Humans |-> 0]
    /\ proofs = {} /\ approvals = {} /\ withdrawn = {}

-----------------------------------------------------------------------------
\* (mutant) the node may have changed its wallet meanwhile
ValidForAnyKey == slot.status \notin {"none", "cancelled"} /\ ~slot.late

\* _valid
Valid == slot.status \notin {"none", "cancelled"} /\ ~slot.late /\ slot.key = key

Reusable == slot.status \in {"pending", "approved"} /\ ~slot.late /\ slot.key = key

\* create: a live pairing of this identity is returned, any other replaced.
CreatePairing ==
    /\ NodeKnown /\ ~Live /\ ~Reusable /\ slot.id < MaxPairings
    /\ slot' = [NoSlot EXCEPT !.id = slot.id + 1, !.key = key, !.status = "pending"]
    /\ UNCHANGED <<identityVars, asking, proofs, approvals, withdrawn>>

\* approve, up to its lock: the account is checked, and the node located.
AskApproval(h) ==
    /\ h \notin retired /\ asking[h] = 0 /\ slot.id # 0
    /\ asking' = [asking EXCEPT ![h] = slot.id]
    /\ UNCHANGED <<identityVars, slot, proofs, approvals, withdrawn>>

\* approve, under the lock: the slot is read again.
Approve(h) ==
    /\ asking[h] # 0
    /\ asking' = [asking EXCEPT ![h] = 0]
    /\ IF NodeKnown /\ slot.id = asking[h] /\ Valid /\ slot.status = "pending"
       THEN /\ slot' = [slot EXCEPT !.operator = h, !.status = "approved"]
            /\ approvals' = approvals \union {[id |-> slot.id, operator |-> h]}
       ELSE UNCHANGED <<slot, approvals>>
    /\ UNCHANGED <<identityVars, proofs, withdrawn>>

\* poll shows an approved pairing to the node, which signs its payload.
SignPairing ==
    /\ NodeKnown /\ Valid /\ slot.status = "approved"
    /\ proofs' = proofs \union {[id |-> slot.id, operator |-> slot.operator,
                                 key |-> slot.key, by |-> key]}
    /\ UNCHANGED <<identityVars, slot, asking, approvals, withdrawn>>

\* A completed pairing is answered again without a change.
ConfirmPairing ==
    /\ Valid /\ slot.status = "approved"
    /\ [id |-> slot.id, operator |-> slot.operator, key |-> slot.key, by |-> key] \in proofs
    /\ Associate(slot.id, slot.operator)
    /\ slot' = [slot EXCEPT !.status = "linked"]
    /\ UNCHANGED <<asking, proofs, approvals, withdrawn>>

\* cancel, by the node.
CancelPairing ==
    /\ NodeKnown /\ slot.status \in {"pending", "approved"}
    /\ slot' = [slot EXCEPT !.status = "cancelled"]
    /\ withdrawn' = withdrawn \union {slot.id}
    /\ UNCHANGED <<identityVars, asking, proofs, approvals>>

\* unlink and unlink_from_node also close the pairing, if it is still there.
RemoveLink ==
    /\ Unlink \/ UnlinkFromNode
    /\ slot' = IF slot.id = link.id THEN [slot EXCEPT !.status = "cancelled"] ELSE slot
    /\ withdrawn' = withdrawn \union {link.id}
    /\ UNCHANGED <<asking, proofs, approvals>>

PairingExpires ==
    /\ slot.status \in {"pending", "approved"} /\ ~slot.late
    /\ slot' = [slot EXCEPT !.late = TRUE]
    /\ UNCHANGED <<identityVars, asking, proofs, approvals, withdrawn>>

LinkNext ==
    \/ CreatePairing \/ SignPairing \/ ConfirmPairing \/ CancelPairing \/ PairingExpires \/ RemoveLink
    \/ \E h \in Humans : AskApproval(h) \/ Approve(h)
    \/ (\E k \in Keys : Rotate(k)) /\ UNCHANGED pairingVars
    \/ (\E x \in Humans \union {NodeAccount} : RetireAccount(x)) /\ UNCHANGED pairingVars

LinkSpec == AssociationInit /\ PairingInit /\ [][LinkNext]_<<identityVars, pairingVars>>

-----------------------------------------------------------------------------
(***************************************************************************)
(* An association in force has two parties: its human approved the very    *)
(* pairing it came from, the node signed that approval with the wallet the *)
(* association names, and neither has withdrawn since.  No old approval,   *)
(* proof, replaced pairing or change of wallet makes or revives one        *)
(* ("Two-party ... association", validator_pairing.py:4).                  *)
(***************************************************************************)
LinkIsMutual ==
    link.id # 0 /\ ~link.revoked =>
        /\ [id |-> link.id, operator |-> link.operator] \in approvals
        /\ [id |-> link.id, operator |-> link.operator,
            key |-> link.key, by |-> link.key] \in proofs
        /\ link.id \notin withdrawn

(***************************************************************************)
(* The pairing protocol does to the association only what Association lets *)
(* its readers assume (_live_link, validator_pairing.py:145): it is made   *)
(* once per pairing and only where none is live, and a revoked one stays.  *)
(***************************************************************************)
ImplementsAssociation == AssociationInit /\ [][AssociationNext]_identityVars
=============================================================================
