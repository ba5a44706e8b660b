--------------------------- MODULE RewardConsent ---------------------------
(***************************************************************************)
(* Where a validator's reward goes.  The associated human proposes a       *)
(* payout wallet for one finalized allocation; that wallet and then the    *)
(* node sign the same consent; a maintainer exports the signed request and *)
(* binds the recipient for good.  An approval verifies its signature       *)
(* between two transactions, without a lock: in the gap the consent may be *)
(* replaced, the request cancelled, restarted or run out, the association  *)
(* removed or replaced and the wallet rotated (Association).               *)
(***************************************************************************)
EXTENDS Association

CONSTANTS
    Destinations,   \* wallets the reward may go to
    MaxRequests,    \* bounds of this model: requests opened
    MaxConsents,    \*                       and consents proposed
    NoDestination

ASSUME ConsentAssumption ==
    MaxRequests \in Nat /\ MaxConsents \in Nat /\ NoDestination \notin Destinations

VARIABLES
    request,    \* the replaceable row of validator_compensation_requests
    overdue,    \* requests, and the consents under them, whose 24 hours are over
    reading,    \* what the approval of a side has read and is verifying
    dossier,    \* what a maintainer has exported: a consent and two signatures
    recipient,  \* the row of validator_compensation_recipients: the bound consent
    dropped     \* history: requests the node cancelled

consentVars == <<request, overdue, reading, dossier, recipient, dropped>>

Sides == {"wallet", "node"}
RequestIds == 1..MaxRequests
NoConsent == [to |-> NoDestination, request |-> 0, no |-> 0]
NoRequest == [id |-> 0, pairing |-> 0, operator |-> NoHuman, status |-> "none",
              consent |-> NoConsent, wallet |-> NoConsent, node |-> NoConsent]

\* A consent carries the expiry of its request and its own time of issue; a
\* signature (of the payout wallet, of the node) is the consent it is over.
Consents == [to : Destinations, request : RequestIds, no : 1..MaxConsents] \union {NoConsent}

ConsentTypeOK ==
    /\ request \in [id : RequestIds \union {0}, pairing : PairingIds \union {0},
                    operator : Humans \union {NoHuman}, consent : Consents,
                    wallet : Consents, node : Consents,
                    status : {"none", "awaiting_wallet", "awaiting_node", "review_required",
                              "cancelled"}]
    /\ overdue \subseteq RequestIds /\ dropped \subseteq RequestIds
    /\ DOMAIN reading \subseteq Sides
    /\ \A s \in DOMAIN reading : reading[s] \in [id : RequestIds, consent : Consents]
    /\ dossier \subseteq [consent : Consents, wallet : Consents, node : Consents]
    /\ recipient \in Consents

ConsentInit ==
    /\ request = NoRequest /\ overdue = {} /\ dropped = {}
    /\ reading = [s \in {} |-> NoRequest] /\ dossier = {} /\ recipient = NoConsent

-----------------------------------------------------------------------------
\* _snapshot: the campaign pays the identity it was agreed with.
Beneficiary == NodeKnown /\ key = FirstKey

\* _request: this very request, under the association it was opened with.
Stands(id) ==
    /\ Beneficiary /\ Live
    /\ id # 0 /\ request.id = id
    /\ request.pairing = link.id /\ request.operator = link.operator
    /\ recipient = NoConsent

\* _fresh
Fresh == request.status # "cancelled" /\ request.id \notin overdue

\* start: a running request is returned, a finished one replaced.
StartRequest ==
    /\ Beneficiary /\ Live /\ recipient = NoConsent
    /\ request.id = 0 \/ ~Fresh
    /\ request.id < MaxRequests
    /\ request' = [id |-> request.id + 1, pairing |-> link.id, operator |-> link.operator,
                   status |-> "awaiting_wallet", consent |-> NoConsent, wallet |-> NoConsent,
                   node |-> NoConsent]
    /\ UNCHANGED <<overdue, reading, dossier, recipient, dropped>>

\* prepare: the human proposes a wallet, again until one has signed.
Prepare(to) ==
    /\ Stands(request.id) /\ Fresh /\ request.status = "awaiting_wallet"
    /\ request.consent.no < MaxConsents
    /\ request' = [request EXCEPT !.consent =
                     [to |-> to, request |-> request.id, no |-> @.no + 1]]
    /\ UNCHANGED <<overdue, reading, dossier, recipient, dropped>>

\* approve, first transaction: the call names the row's consent, and its
\* signature over it is verified from here on.
ReadConsent(s) ==
    /\ s \notin DOMAIN reading
    /\ Stands(request.id) /\ Fresh /\ request.consent # NoConsent
    /\ reading' = [t \in DOMAIN reading \union {s} |->
         IF t = s THEN [id |-> request.id, consent |-> request.consent] ELSE reading[t]]
    /\ UNCHANGED <<request, overdue, dossier, recipient, dropped>>

\* (mutant) the row's consent is not compared again
SameRequest(s) == Stands(reading[s].id) /\ Fresh

\* What the second transaction finds again before it writes.
Unmoved(s) == Stands(reading[s].id) /\ Fresh /\ request.consent = reading[s].consent

\* approve, second transaction, under the node's lock.
RecordApproval(s) ==
    /\ s \in DOMAIN reading
    /\ reading' = [t \in DOMAIN reading \ {s} |-> reading[t]]
    /\ request' = CASE Unmoved(s) /\ s = "wallet" /\ request.status = "awaiting_wallet"
                         -> [request EXCEPT !.status = "awaiting_node",
                                           !.wallet = reading[s].consent]
                    [] Unmoved(s) /\ s = "node" /\ request.status = "awaiting_node"
                         -> [request EXCEPT !.status = "review_required",
                                           !.node = reading[s].consent]
                    [] OTHER -> request
    /\ UNCHANGED <<overdue, dossier, recipient, dropped>>

\* cancel, by the node.
CancelRequest ==
    /\ Stands(request.id) /\ request.status \in {"awaiting_wallet", "awaiting_node"}
    /\ request' = [request EXCEPT !.status = "cancelled"]
    /\ dropped' = dropped \union {request.id}
    /\ UNCHANGED <<overdue, reading, dossier, recipient>>

\* export_for_review
ExportForReview ==
    /\ request.status = "review_required" /\ Fresh
    /\ dossier' = dossier \union {[consent |-> request.consent, wallet |-> request.wallet,
                                   node |-> request.node]}
    /\ UNCHANGED <<request, overdue, reading, recipient, dropped>>

\* bind_recipient, any time later, verifies both signatures again; a bound
\* recipient is immutable.
BindRecipient(d) ==
    /\ recipient = NoConsent
    /\ Beneficiary /\ d.consent.request \notin overdue
    /\ d.wallet = d.consent /\ d.node = d.consent
    /\ recipient' = d.consent
    /\ UNCHANGED <<request, overdue, reading, dossier, dropped>>

RequestExpires ==
    /\ request.id # 0 /\ Fresh
    /\ overdue' = overdue \union {request.id}
    /\ UNCHANGED <<request, reading, dossier, recipient, dropped>>

ConsentStep ==
    \/ StartRequest \/ CancelRequest \/ ExportForReview \/ RequestExpires
    \/ \E to \in Destinations : Prepare(to)
    \/ \E s \in Sides : ReadConsent(s) \/ RecordApproval(s)
    \/ \E d \in dossier : BindRecipient(d)

ConsentNext ==
    \/ ConsentStep /\ UNCHANGED identityVars
    \/ AssociationNext /\ UNCHANGED consentVars

ConsentSpec == AssociationInit /\ ConsentInit /\ [][ConsentNext]_<<identityVars, consentVars>>

-----------------------------------------------------------------------------
(***************************************************************************)
(* A reward has the destination both wallets asked for: the signatures a   *)
(* request waits with are over the consent it carries, and no recipient is *)
(* bound from a request the node has cancelled, whatever was replaced,     *)
(* restarted or removed while a signature was verified ("dual-signature    *)
(* collection", validator_compensation_operator.py:4).                     *)
(***************************************************************************)
ConsentIsMutual ==
    /\ request.status \in {"awaiting_node", "review_required"} => request.wallet = request.consent
    /\ request.status = "review_required" => request.node = request.consent
    /\ recipient.request \notin dropped
=============================================================================
