-------------------------- MODULE BlockRules --------------------------
(***************************************************************************)
(* The decision of Blockchain.add_block on a candidate block, and the      *)
(* candidates and bounds that every specification of the ledger shares.    *)
(***************************************************************************)
EXTENDS Mempool

CONSTANTS
    Times,                  \* the clock readings and timestamps considered
    Rewards,                \* coinbase amounts tried, fair or not
    MaxBlockTransactions,   \* bound on regular transactions in a candidate
    MaxHeight               \* bound on the height of the chain

ASSUME TimesAssumption == Times \subseteq Nat

ASSUME RewardsAssumption == Rewards \subseteq Nat

ASSUME BodyAssumption == MaxBlockTransactions \in Nat

ASSUME HeightAssumption == MaxHeight \in Nat

\* Bodies a peer or a miner may send: any coinbase, or none, before any
\* regular transactions, valid or not.
Bodies ==
    {prefix \o txs :
        prefix \in {<<>>} \cup
                   {<<CreateCoinbase(a, t, r)>> :
                       a \in Addresses, t \in Times, r \in Rewards},
        txs \in BoundedSeq(Transactions, MaxBlockTransactions)}

\* The blocks add_block may be offered on this chain: on top of any of its
\* blocks, with any body and timestamp, with or without a sound header.
Candidates(chain) ==
    [previous_block_hash : {BlockHash(chain[i]) : i \in DOMAIN chain},
     timestamp : Times, transactions : Bodies, header_ok : BOOLEAN]

\* The decision of add_block on a candidate.
Accepts(chain, st, time, block) ==
    /\ ValidBlock(block, chain[Len(chain)], st, time)
    /\ \A i \in DOMAIN chain : BlockHash(chain[i]) # BlockHash(block)

StateAfter(st, block) == ApplyBlockTransactions(block, st).state
=============================================================================
