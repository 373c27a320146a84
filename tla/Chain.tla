------------------------------- MODULE Chain --------------------------------
(***************************************************************************)
(* The Ethereum node and the EntryPoint, as far as the relayer depends on  *)
(* them: the relayer account's nonces and pending transactions, which of   *)
(* its transactions are mined, and with what outcome.  None of this is     *)
(* under src/; it is modelled from the calls RelayerService and            *)
(* ConfirmationCheckProcessor make (getTransactionCount, writeContract,    *)
(* getTransactionReceipt, estimateContractGas).                            *)
(*                                                                         *)
(* A transaction is identified with its hash.  There are no reorganisations.*)
(***************************************************************************)
EXTENDS Transactions

CONSTANT PriceBump   \* percent by which a replacement must outbid (10 in geth)

VARIABLES nextNonce,  \* nonce of the relayer account's next mined transaction
          pool,       \* the node's pending transactions, at most one per nonce
          sent,       \* every transaction a node ever accepted
          mined,      \* [tx, ok] of every mined transaction
          void        \* operations whose validation now fails: the sponsorship
                      \* expired, or the account's nonce was used elsewhere

chainVars == <<nextNonce, pool, sent, mined, void>>

ChainTypeOK ==
    /\ nextNonce \in Nat
    /\ pool \subseteq sent
    /\ sent \subseteq Txs
    /\ mined \subseteq [tx : sent, ok : BOOLEAN]
    /\ void \subseteq Ops

ChainInit ==
    /\ nextNonce = 0
    /\ pool = {}
    /\ sent = {}
    /\ mined = {}
    /\ void = {}
-----------------------------------------------------------------------------
Executed(op) == \E m \in mined : m.tx.op = op /\ m.ok

\* A receipt for tx, if there is one.
MinedOk(tx) == [tx |-> tx, ok |-> TRUE] \in mined
MinedReverted(tx) == [tx |-> tx, ok |-> FALSE] \in mined
Mined(tx) == MinedOk(tx) \/ MinedReverted(tx)

\* handleOps would revert: validation fails, or the account nonce is used.
WouldRevert(op) == op \in void \/ Executed(op)

PendingAt(n) == {tx \in pool : tx.nonce = n}

\* getTransactionCount with blockTag 'pending': the first nonce with neither
\* a mined nor a pending transaction.
IsPendingNonce(n) ==
    /\ n >= nextNonce
    /\ PendingAt(n) = {}
    /\ \A k \in nextNonce .. n - 1 : PendingAt(k) # {}

Outbids(tx, old) == 100 * tx.fee >= (100 + PriceBump) * old.fee

\* eth_sendRawTransaction: not "nonce too low", and not "replacement
\* transaction underpriced" or "already known".
Accepts(tx) ==
    /\ tx.nonce >= nextNonce
    /\ \A old \in PendingAt(tx.nonce) : tx.fee > old.fee /\ Outbids(tx, old)

Send(tx) ==
    /\ Accepts(tx)
    /\ pool' = (pool \ PendingAt(tx.nonce)) \cup {tx}
    /\ sent' = sent \cup {tx}
    /\ UNCHANGED <<nextNonce, mined, void>>
-----------------------------------------------------------------------------
\* A block includes tx.  Other nodes may still hold a transaction this node
\* has replaced or evicted, so any transaction ever sent may be the one.
Mine(tx) ==
    /\ tx \in sent
    /\ tx.nonce = nextNonce
    /\ mined' = mined \cup {[tx |-> tx, ok |-> ~WouldRevert(tx.op)]}
    /\ nextNonce' = nextNonce + 1
    /\ pool' = pool \ PendingAt(nextNonce)
    /\ UNCHANGED <<sent, void>>

\* The node drops a pending transaction (restart, full pool, expiry).
Evict(tx) ==
    /\ tx \in pool
    /\ pool' = pool \ {tx}
    /\ UNCHANGED <<nextNonce, sent, mined, void>>

\* validUntil passes, or the account uses the operation's nonce elsewhere.
Void(op) ==
    /\ op \notin void
    /\ void' = void \cup {op}
    /\ UNCHANGED <<nextNonce, pool, sent, mined>>
=============================================================================
