----------------------------- MODULE BlockValue -----------------------------
(***************************************************************************)
(* Amounts: what validate_block_value and validate_tx of litc-core ask of  *)
(* the transactions of a block, with u64 amounts, and what follows for the *)
(* supply.  A script with its witness and signature is one bit of a        *)
(* transaction; that the inputs are unspent and mature is BlockTree!Valid. *)
(***************************************************************************)
EXTENDS ChainState, Sequences, Powers

CONSTANTS
    TxList,         \* [Block -> Seq(Transaction)]: block.txs
    Value,          \* [Coin -> Nat]: TxOut.value
    BaseSubsidy,    \* BASE_SUBSIDY
    HalvingInterval,\* ChainParams.halving_interval
    AmountBits      \* the 64 bits of a u64

\* A coinbase has no inputs.
Transaction == [inputs : Seq(Coin), outputs : Seq(Coin), signed : BOOLEAN]

TooMuch == TwoTo[AmountBits]
ValueIn(tx) == SumFunction([i \in DOMAIN tx.inputs |-> Value[tx.inputs[i]]])

\* The iterator's sum: a release build wraps around.
ValueOut(tx) == SumFunction([i \in DOMAIN tx.outputs |-> Value[tx.outputs[i]]]) % TooMuch

\* block_subsidy_with: a shift by the whole width would be no shift.
Subsidy(height) ==
    LET epoch == height \div HalvingInterval
    IN  IF epoch >= AmountBits THEN 0 ELSE BaseSubsidy \div TwoTo[epoch]

\* validate_tx: every input is signed for, the sum of the inputs fits, and the
\* outputs are not more.
TxValueOK(tx) ==
    /\ tx.signed
    /\ ValueIn(tx) < TooMuch
    /\ ValueOut(tx) <= ValueIn(tx)

Coinbases(txs) == {i \in DOMAIN txs : txs[i].inputs = <<>>}
Payments(txs) == DOMAIN txs \ Coinbases(txs)
Fees(txs) == SumFunction([i \in Payments(txs) |-> ValueIn(txs[i]) - ValueOut(txs[i])])

\* Mutant of CoinbaseValueOK: the inputs count as fees.
CoinbaseTakesInputs(txs, height) ==
    Coinbases(txs) # {} =>
        /\ txs[1].outputs # <<>>
        /\ ValueOut(txs[1]) <= Subsidy(height) + SumFunction([i \in Payments(txs) |-> ValueIn(txs[i])])

\* A coinbase has outputs and takes no more than the subsidy and the fees.  A
\* block without one is no error: nobody takes them.
CoinbaseValueOK(txs, height) ==
    Coinbases(txs) # {} =>
        /\ txs[1].outputs # <<>>
        /\ Subsidy(height) + Fees(txs) < TooMuch
        /\ ValueOut(txs[1]) <= Subsidy(height) + Fees(txs)

\* No transaction has an input of an earlier one; its own inputs are not
\* compared with each other.
NoDoubleSpend(txs) ==
    \A i, j \in Payments(txs) : i < j => Range(txs[i].inputs) \cap Range(txs[j].inputs) = {}

\* validate_block_value.
BlockValueOK(b) ==
    LET txs == TxList[b]
    IN  /\ Coinbases(txs) \subseteq {1}
        /\ NoDoubleSpend(txs)
        /\ \A i \in Payments(txs) : TxValueOK(txs[i])
        /\ Fees(txs) < TooMuch
        /\ CoinbaseValueOK(txs, Height[b])

ASSUME ValueAssumption ==
    /\ TxList \in [Block -> Seq(Transaction)]
    /\ Value \in [Coin -> 0..(TooMuch - 1)]
    /\ BaseSubsidy \in Nat /\ HalvingInterval \in Nat \ {0} /\ AmountBits \in Nat \ {0}

\* The spends and outputs of a block are those of its transactions, and ValueOK
\* is what validate_block_value says of them.
BlocksAreTheirTxs ==
    \A b \in Block :
        LET txs == TxList[b]
        IN  /\ Spends[b] = UNION {Range(txs[i].inputs) : i \in DOMAIN txs}
            /\ Creates[b] = UNION {Range(txs[i].outputs) : i \in DOMAIN txs}
            /\ CoinbaseOf[b] = UNION {Range(txs[i].outputs) : i \in Coinbases(txs)}
            /\ ValueOK[b] = BlockValueOK(b)

-----------------------------------------------------------------------------
(* Properties.                                                             *)

\* No transaction names an input twice or has outputs that wrap around: the
\* code asks for neither.
PlainTxs ==
    \A b \in Block : \A i \in DOMAIN TxList[b] :
        LET tx == TxList[b][i]
        IN  /\ IsInjective(tx.inputs)
            /\ SumFunction([k \in DOMAIN tx.outputs |-> Value[tx.outputs[k]]]) < TooMuch

\* What is unspent on the active chain is never more than the subsidies of its
\* blocks, whatever blocks arrive and whatever reorganisations fail half way:
\* nothing but a coinbase creates value, and a coinbase only the subsidy.
Supply ==
    SumFunctionOnSet(Value, Ledger[tip].utxo)
        <= SumFunctionOnSet([b \in Block |-> Subsidy(Height[b])], Path[tip])
=============================================================================
