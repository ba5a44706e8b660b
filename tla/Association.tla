---------------------------- MODULE Association ----------------------------
(***************************************************************************)
(* What the rest of the system sees of the association of a validator node *)
(* with the account of the human who runs it: the one row of               *)
(* validator_account_links, and what it is compared with whenever it is    *)
(* read: the node's registered wallet and the accounts merged away.        *)
(***************************************************************************)
EXTENDS Integers, FiniteSets

CONSTANTS
    Humans,         \* accounts that may be associated
    NodeAccount,    \* the account the node is registered under
    Keys,           \* signing wallets the node may be registered with
    FirstKey,
    MaxPairings,    \* bounds of this model: pairings opened
    MaxMerges,      \*                       and accounts merged away
    NoHuman

ASSUME LinkAssumption ==
    /\ NodeAccount \notin Humans /\ NoHuman \notin Humans
    /\ FirstKey \in Keys /\ MaxPairings \in Nat /\ MaxMerges \in Nat

VARIABLES
    key,        \* the registered signing wallet
    retired,    \* accounts merged into another
    link        \* the association: its pairing, its two identities, is it revoked

identityVars == <<key, retired, link>>

PairingIds == 1..MaxPairings
NoLink == [id |-> 0, key |-> FirstKey, operator |-> NoHuman, revoked |-> FALSE]

AssociationTypeOK ==
    /\ key \in Keys /\ retired \subseteq Humans \union {NodeAccount}
    /\ link \in [id : PairingIds \union {0}, key : Keys, operator : Humans \union {NoHuman},
                 revoked : BOOLEAN]

AssociationInit == key = FirstKey /\ retired = {} /\ link = NoLink

\* _node: the node's calls go by its registered account and wallet.
NodeKnown == NodeAccount \notin retired

\* _live_link: the association still names this identity and a real account.
Live == link.id # 0 /\ ~link.revoked /\ link.key = key /\ link.operator \notin retired

\* What confirm commits.
Associate(id, h) ==
    /\ NodeKnown /\ ~Live /\ h \notin retired
    /\ link' = [id |-> id, key |-> key, operator |-> h, revoked |-> FALSE]
    /\ UNCHANGED <<key, retired>>

Dissociate ==
    /\ link.id # 0 /\ ~link.revoked
    /\ link' = [link EXCEPT !.revoked = TRUE]
    /\ UNCHANGED <<key, retired>>

\* unlink needs no active node, unlink_from_node a fresh proof of its wallet.
Unlink == link.operator \notin retired /\ Dissociate
UnlinkFromNode == NodeKnown /\ link.key = key /\ Dissociate

\* rotate_validator; a wallet may come back.
Rotate(k) == key # k /\ key' = k /\ UNCHANGED <<retired, link>>

\* merge_accounts, of a human's or of the node's account.
RetireAccount(x) ==
    /\ x \notin retired /\ Cardinality(retired) < MaxMerges
    /\ retired' = retired \union {x}
    /\ UNCHANGED <<key, link>>

AssociationNext ==
    \/ Unlink \/ UnlinkFromNode
    \/ \E h \in Humans, id \in PairingIds : id > link.id /\ Associate(id, h)
    \/ \E k \in Keys : Rotate(k)
    \/ \E x \in Humans \union {NodeAccount} : RetireAccount(x)
=============================================================================
