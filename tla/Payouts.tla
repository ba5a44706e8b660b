------------------------------ MODULE Payouts ------------------------------
(***************************************************************************)
(* Worker payouts of one frozen period: token transfers from one treasury  *)
(* account whose nonces order them on chain.  A sender lists the rows and  *)
(* settles them one by one: check the chain, screen, choose a nonce, record*)
(* it, broadcast, wait for a receipt.  Every database transaction and every*)
(* call to the chain is a step; the sender may die between any two, answers*)
(* of the chain may be old, and the advisory lock that keeps two senders   *)
(* apart is lost with its database connection.                             *)
(***************************************************************************)
EXTENDS Integers, Sequences, FiniteSets, FiniteSetsExt

CONSTANTS
    Payees,     \* the accounts of the plan
    Senders,    \* processes that may run a sender
    MaxTries,   \* bound of this model: transactions signed for a row,
    MaxSigned,  \*                      for all rows together,
    MaxBlocks,  \*                      and mined
    NoSender, NoPayee

ASSUME PayoutAssumption ==
    /\ IsFiniteSet(Payees) /\ NoPayee \notin Payees
    /\ NoSender \notin Senders
    /\ MaxTries \in Nat /\ MaxSigned \in Nat /\ MaxBlocks \in Nat

VARIABLES
    row,        \* the payout rows: status, bound nonce, recorded transaction
    wallet,     \* has the account a payout wallet
    mempool,    \* transactions that reached the network
    chain,      \* the treasury's mined transactions, by nonce
    lock,       \* who holds the advisory lock
    alone,      \* has no sender lost it while working
    sender      \* what each sender does

payoutVars == <<row, wallet, mempool, chain, lock, alone, sender>>

Unbound == -1
Unplanned == [status |-> "none", nonce |-> Unbound, tx |-> 0]
\* What a sender has listed and not yet settled is the domain of "seen".
Listing(phase, seen) ==
    [phase |-> phase, seen |-> seen, payee |-> NoPayee, nonce |-> Unbound, tx |-> 0]
Off == Listing("off", [p \in {} |-> Unplanned])

Nonces == Unbound..(MaxBlocks + Cardinality(Payees))
Rows   == [status : {"none", "accrued", "pending", "failed", "sent", "manual_review"},
           nonce : Nonces, tx : 0..MaxTries]

PayoutTypeOK ==
    /\ row \in [Payees -> Rows] /\ wallet \in [Payees -> BOOLEAN]
    /\ mempool \subseteq [payee : Payees, nonce : Nonces, tx : 1..MaxTries]
    /\ chain \in Seq([payee : Payees \union {NoPayee}, tx : 0..MaxTries, ok : BOOLEAN])
    /\ lock \in Senders \union {NoSender} /\ alone \in BOOLEAN
    /\ \A s \in Senders :
         /\ DOMAIN sender[s].seen \subseteq Payees
         /\ \A p \in DOMAIN sender[s].seen : sender[s].seen[p] \in Rows
         /\ sender[s].phase \in {"off", "rows", "signed", "recorded", "waiting"}
         /\ sender[s].payee \in Payees \union {NoPayee}
         /\ sender[s].nonce \in Nonces /\ sender[s].tx \in 0..MaxTries

PayoutInit ==
    /\ row = [p \in Payees |-> Unplanned]
    /\ wallet \in [Payees -> BOOLEAN]
    /\ mempool = {} /\ chain = <<>>
    /\ lock = NoSender /\ alone = TRUE
    /\ sender = [s \in Senders |-> Off]

-----------------------------------------------------------------------------
(* The chain, and the accounts' owners: external. *)

NonceCount == Len(chain)
Mined(n) == chain[n + 1]

\* A used nonce drops whatever else waited for it.
Extends(block) ==
    /\ NonceCount < MaxBlocks
    /\ chain' = Append(chain, block)
    /\ mempool' = {t \in mempool : t.nonce # NonceCount}
    /\ UNCHANGED <<row, wallet, lock, alone, sender>>

Mine == \E t \in mempool, ok \in BOOLEAN :
    /\ t.nonce = NonceCount
    /\ Extends([payee |-> t.payee, tx |-> t.tx, ok |-> ok])

\* The treasury key also pays by other means.
MineForeign == Extends([payee |-> NoPayee, tx |-> 0, ok |-> TRUE])

SetWallet(p) ==
    /\ ~wallet[p] /\ wallet' = [wallet EXCEPT ![p] = TRUE]
    /\ UNCHANGED <<row, mempool, chain, lock, alone, sender>>

\* What the node answers may be any earlier state of the truth.
PendingCount == Min({n \in 0..(MaxBlocks + Cardinality(Payees)) :
                       n >= NonceCount /\ \A t \in mempool : t.nonce # n})

-----------------------------------------------------------------------------
\* freeze: the plan and all its rows in one transaction, once.
Freeze ==
    /\ \A p \in Payees : row[p].status = "none"
    /\ row' = [p \in Payees |-> [Unplanned EXCEPT !.status =
                                   IF wallet[p] THEN "pending" ELSE "accrued"]]
    /\ UNCHANGED <<wallet, mempool, chain, lock, alone, sender>>

Listed == {p \in Payees : \/ row[p].status \in {"pending", "failed"}
                          \/ row[p].status = "accrued" /\ wallet[p]}

\* A sender takes the lock and lists the rows it will work on.
Begin(s) ==
    /\ sender[s].phase = "off" /\ lock = NoSender
    /\ Listed # {}
    /\ lock' = s
    /\ sender' = [sender EXCEPT ![s] = Listing("rows", [p \in Listed |-> row[p]])]
    /\ UNCHANGED <<row, wallet, mempool, chain, alone>>

End(s) ==
    /\ sender[s].phase = "rows" /\ DOMAIN sender[s].seen = {}
    /\ sender' = [sender EXCEPT ![s] = Off]
    /\ lock' = IF lock = s THEN NoSender ELSE lock
    /\ UNCHANGED <<row, wallet, mempool, chain, alone>>

\* The process dies; its lock goes with its connection.
Dies(s) ==
    /\ sender[s].phase # "off"
    /\ sender' = [sender EXCEPT ![s] = Off]
    /\ lock' = IF lock = s THEN NoSender ELSE lock
    /\ UNCHANGED <<row, wallet, mempool, chain, alone>>

\* Only the connection dies, once in this model; the sender works on.
LosesLock(s) ==
    /\ lock = s /\ alone
    /\ lock' = NoSender /\ alone' = FALSE
    /\ UNCHANGED <<row, wallet, mempool, chain, sender>>

\* _write: a recorded nonce is never rebound, a completed row never reopened.
MayWrite(p, status, nonce) ==
    /\ row[p].nonce # Unbound /\ nonce # Unbound => nonce = row[p].nonce
    /\ row[p].status = "sent" => status = "sent"

Write(p, status, nonce, tx) ==
    row' = IF MayWrite(p, status, nonce)
           THEN [row EXCEPT ![p] = [status |-> status, tx |-> tx,
                   nonce |-> IF nonce = Unbound THEN @.nonce ELSE nonce]]
           ELSE row

EntersPhase(s, phase) == sender' = [sender EXCEPT ![s].phase = phase]
Leaves(s, p) == sender' = [sender EXCEPT ![s] =
    Listing("rows", [q \in DOMAIN sender[s].seen \ {p} |-> sender[s].seen[q]])]

\* pay_accrued binds the new wallet first.
BindWallet(s, p) ==
    /\ sender[s].phase = "rows" /\ p \in DOMAIN sender[s].seen
    /\ sender[s].seen[p].status = "accrued"
    /\ Write(p, "pending", Unbound, row[p].tx)
    /\ IF MayWrite(p, "pending", Unbound)
       THEN sender' = [sender EXCEPT ![s].seen[p].status = "pending"]
       ELSE Leaves(s, p)
    /\ UNCHANGED <<wallet, mempool, chain, lock, alone>>

\* The receipt of the transaction the sender knows shows the transfer; an
\* unreachable node proves nothing.
Proves(p, nonce, tx) == Mined(nonce) = [payee |-> p, tx |-> tx, ok |-> TRUE]

\* The row a sender takes up next.
Takes(s, p) ==
    /\ sender[s].phase = "rows" /\ p \in DOMAIN sender[s].seen
    /\ sender[s].seen[p].status \in {"pending", "failed"}

\* (1) A bound nonce that is used up is proven or reviewed, never sent again;
\* but a count that is old does not show the use, and the row is sent (Sign).
CheckChain(s, p) ==
    LET seen == sender[s].seen[p] IN
    /\ Takes(s, p) /\ seen.nonce # Unbound /\ NonceCount > seen.nonce
    /\ \/ Write(p, "manual_review", seen.nonce, row[p].tx)
       \/ Proves(p, seen.nonce, seen.tx) /\ Write(p, "sent", seen.nonce, row[p].tx)
    /\ Leaves(s, p)
    /\ UNCHANGED <<wallet, mempool, chain, lock, alone>>

\* The screening holds the payment before anything is signed.
ScreenHolds(s, p) ==
    /\ Takes(s, p) /\ Write(p, "manual_review", sender[s].seen[p].nonce, row[p].tx)
    /\ Leaves(s, p)
    /\ UNCHANGED <<wallet, mempool, chain, lock, alone>>

\* (mutant) the node's pending count alone
FreshFromNode(pending) == pending

\* (2) The bound nonce again, or one above all that was ever assigned.
FreshNonce(pending) == Max({pending} \union {row[p].nonce + 1 : p \in Payees})

\* The nonce of a transaction for this row: the bound one if there is one.
NonceFor(s, p, pending) ==
    LET bound == sender[s].seen[p].nonce IN
    IF bound # Unbound THEN bound ELSE FreshNonce(pending)

SignedSoFar == MapThenSumSet(LAMBDA p : row[p].tx, Payees)

Sign(s, p) ==
    /\ Takes(s, p) /\ row[p].tx < MaxTries /\ SignedSoFar < MaxSigned
    /\ \E nonce \in {NonceFor(s, p, pending) : pending \in 0..PendingCount} \intersect Nonces :
         sender' = [sender EXCEPT ![s] = [phase |-> "signed", seen |-> @.seen, payee |-> p,
                                          nonce |-> nonce, tx |-> row[p].tx + 1]]
    /\ UNCHANGED <<row, wallet, mempool, chain, lock, alone>>

\* (3) Nonce and hash are recorded before the transaction can leave.
RecordNonce(s) ==
    LET p == sender[s].payee IN
    /\ sender[s].phase = "signed"
    /\ Write(p, "pending", sender[s].nonce, sender[s].tx)
    /\ IF MayWrite(p, "pending", sender[s].nonce)
       THEN EntersPhase(s, "recorded") ELSE Leaves(s, p)
    /\ UNCHANGED <<wallet, mempool, chain, lock, alone>>

Own(s) == [payee |-> sender[s].payee, nonce |-> sender[s].nonce, tx |-> sender[s].tx]

\* (4) Any error, unless it says the nonce is already in use, fails the row,
\* whether or not the network got the transaction.
Broadcast(s) ==
    LET p == sender[s].payee IN
    /\ sender[s].phase = "recorded"
    /\ \E reached, failed \in BOOLEAN :
         /\ mempool' = IF reached /\ sender[s].nonce >= NonceCount
                       THEN mempool \union {Own(s)} ELSE mempool
         /\ IF failed
            THEN Write(p, "failed", sender[s].nonce, row[p].tx) /\ Leaves(s, p)
            ELSE row' = row /\ EntersPhase(s, "waiting")
    /\ UNCHANGED <<wallet, chain, lock, alone>>

\* (5) The receipt of this very transaction decides; without one the row
\* stays pending.
Confirm(s) ==
    LET p == sender[s].payee
        n == sender[s].nonce
        included == n < NonceCount /\ Mined(n).payee = p /\ Mined(n).tx = sender[s].tx IN
    /\ sender[s].phase = "waiting"
    /\ \/ included /\ Write(p, IF Mined(n).ok THEN "sent" ELSE "failed", n, sender[s].tx)
       \/ row' = row
    /\ Leaves(s, p)
    /\ UNCHANGED <<wallet, mempool, chain, lock, alone>>

PayoutNext ==
    \/ Mine \/ MineForeign \/ Freeze
    \/ \E p \in Payees : SetWallet(p)
    \/ \E s \in Senders :
         \/ Begin(s) \/ End(s) \/ Dies(s) \/ LosesLock(s)
         \/ RecordNonce(s) \/ Broadcast(s) \/ Confirm(s)
         \/ \E p \in Payees : BindWallet(s, p) \/ CheckChain(s, p) \/ ScreenHolds(s, p) \/ Sign(s, p)

PayoutSpec == PayoutInit /\ [][PayoutNext]_payoutVars

-----------------------------------------------------------------------------
TransfersTo(p) == {n \in 0..(NonceCount - 1) : Mined(n).payee = p /\ Mined(n).ok}

(***************************************************************************)
(* No account is paid twice for a period, whatever is retried, replaced or *)
(* answered late, and even when two senders work at once because one lost  *)
(* its lock ("Double-pay-proof", _settle_one); a payout recorded as sent   *)
(* is on chain at the nonce its row is bound to ("mark 'sent' ONLY after   *)
(* PROVING"); and two payouts never wait for the same nonce, where one     *)
(* would displace the other, as long as no sender lost its lock: fresh     *)
(* nonces stay above all assigned ones although the node's count is old    *)
(* (_max_assigned_nonce).                                                  *)
(***************************************************************************)
PaidAtMostOnce == \A p \in Payees :
    /\ Cardinality(TransfersTo(p)) <= 1
    /\ row[p].status = "sent" => TransfersTo(p) = {row[p].nonce}
    /\ alone /\ row[p].nonce # Unbound => \A q \in Payees \ {p} : row[q].nonce # row[p].nonce
=============================================================================
