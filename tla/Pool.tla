-------------------------------- MODULE Pool --------------------------------
(***************************************************************************)
(* The mining pool in litc-node's RPC server: workers and sessions, the    *)
(* credit for a submitted block, withdrawals and payouts, and the event    *)
(* stream of a session.                                                    *)
(*                                                                         *)
(* Every RPC method holds the node lock from its start to its end, so each *)
(* is one action; the thread of an event stream takes the lock only to     *)
(* read.  A block is accepted in one step here, as HeaviestChain allows.   *)
(* The blocks of this module hold no payments of the pool: what becomes of *)
(* a payment that is written to its file is the subject of NodeChain.      *)
(***************************************************************************)
EXTENDS Blocks, FiniteSets, Sequences, SequencesExt

CONSTANTS
    Account,        \* the addresses that register sessions
    Worker,         \* names of workers without a session, and session labels
    BaseSubsidy,    \* BASE_SUBSIDY
    Halving,        \* HALVING_INTERVAL
    NetHalving,     \* ChainParams.halving_interval
    FeePct,         \* PoolConfig.fee_pct
    KnownMax,       \* KNOWN_MAX
    Addr,           \* payout addresses of workers: "none", "valid" and others
    MinPayouts,     \* the payout thresholds sessions ask for
    Amounts,        \* the amounts that are withdrawn, 0 for the whole balance
    MaxEvents,      \* bound: the events a session has when it registers again
    MaxFound        \* bound: the blocks that are credited

ASSUME PoolAssumption ==
    /\ {BaseSubsidy, FeePct} \subseteq Nat /\ FeePct <= 100
    /\ {Halving, NetHalving, KnownMax} \subseteq Nat \ {0}
    /\ Amounts \subseteq Nat /\ MinPayouts \subseteq Nat
    /\ Account \cap Worker = {} /\ IsFiniteSet(Account \cup Worker)
    /\ "none" \in Addr

VARIABLES
    known,          \* the blocks in the store
    knownBlocks,    \* Node.known_blocks
    tip,            \* Node.tip
    sessions,       \* Node.pool_sessions, by address
    workers,        \* Node.pool_workers, by name
    stream,         \* the event stream of each address, one at a time
    signed          \* the total of the payments signed and written, by payee

chain == <<known, knownBlocks, tip>>
poolVars == <<chain, sessions, workers, stream, signed>>

Payee == Account \cup Worker
Event == {"registered", "block_found", "auto_payout_triggered", "payout"}
NoSession == [open |-> FALSE, label |-> "", min |-> 0, balance |-> 0,
              earned |-> 0, found |-> 0, events |-> <<>>]
NoWorker == [seen |-> FALSE, found |-> 0, earned |-> 0, addr |-> "none"]
Closed == [on |-> FALSE, sent |-> 0, batch |-> <<>>, out |-> <<>>]

Init ==
    /\ known = {}
    /\ knownBlocks = {}
    /\ tip = Zero
    /\ sessions = [a \in Account |-> NoSession]
    /\ workers = [n \in Worker |-> NoWorker]
    /\ stream = [a \in Account |-> Closed]
    /\ signed = [p \in Payee |-> 0]

-----------------------------------------------------------------------------
(* Blocks.                                                                 *)

\* BASE_SUBSIDY >> n, a halving at a time.
Shifted[n \in Nat] == IF n = 0 THEN BaseSubsidy ELSE Shifted[n - 1] \div 2

\* block_subsidy_with.
Subsidy(height, interval) ==
    IF height \div interval >= 64 THEN 0 ELSE Shifted[height \div interval]

\* Node::best_height: the height of the next block.
NextHeight(t) == IF t = Zero THEN 0 ELSE Height[t] + 1

\* Mutant of CanAccept: known_blocks is not asked.
CanAcceptAgain(b) == Parent[b] \in known \cup {Zero} /\ HeaderOK(known, b)

\* The refusals of accept_block.
CanAccept(b) ==
    /\ b \notin knownBlocks
    /\ Parent[b] \in known \cup {Zero}
    /\ HeaderOK(known, b)

\* accept_block: remember the block and move to the best chain.  All blocks of
\* an epoch have the same work.
AcceptBlock(b) ==
    /\ CanAccept(b)
    /\ known' = known \cup {b}
    /\ knownBlocks' = (IF Cardinality(knownBlocks) >= KnownMax THEN {} ELSE knownBlocks) \cup {b}
    /\ \E t \in known' : IsBest([a \in known' |-> Height[a] + 1], t) /\ tip' = t

\* A peer or the node's own miner brings a block.
RelayBlock(b) == AcceptBlock(b) /\ UNCHANGED <<sessions, workers, stream, signed>>

\* The blocks that each payee is credited with.
Found == [p \in Payee |->
    IF p \in Account THEN sessions[p].found ELSE workers[p].found]

\* What handle_submitblock credits: the subsidy of mainnet at the height that
\* comes after the tip, less the fee.
Reward == (Subsidy(NextHeight(tip'), Halving) * (100 - FeePct)) \div 100

\* A session is credited, and told when its threshold is reached.
Credited(s) ==
    [s EXCEPT !.found = @ + 1, !.balance = @ + Reward, !.earned = @ + Reward,
              !.events = @ \o IF s.balance + Reward >= s.min
                              THEN <<"block_found", "auto_payout_triggered">>
                              ELSE <<"block_found">>]

\* handle_submitblock with the token of a session.
SubmitForSession(b, a) ==
    /\ AcceptBlock(b)
    /\ sessions[a].open
    /\ SumFunctionOnSet(Found, Payee) < MaxFound
    /\ sessions' = [sessions EXCEPT ![a] = Credited(@)]
    /\ UNCHANGED <<workers, stream, signed>>

\* An address that comes with a worker's request replaces the one before.
NewAddr(old, addr) == IF addr = "none" THEN old ELSE addr

\* handle_submitblock with a worker's name, and perhaps a payout address.
SubmitForWorker(b, n, addr) ==
    /\ AcceptBlock(b)
    /\ SumFunctionOnSet(Found, Payee) < MaxFound
    /\ workers' = [workers EXCEPT ![n] =
           [seen |-> TRUE, found |-> @.found + 1, earned |-> @.earned + Reward,
            addr |-> NewAddr(@.addr, addr)]]
    /\ UNCHANGED <<sessions, stream, signed>>

\* handle_getblocktemplate with a worker's name.
GetBlockTemplate(n, addr) ==
    /\ workers' = [workers EXCEPT ![n].seen = TRUE, ![n].addr = NewAddr(@, addr)]
    /\ UNCHANGED <<chain, sessions, stream, signed>>

-----------------------------------------------------------------------------
(* Sessions and payments.                                                  *)

\* handle_pool_register, with a proof that the caller owns the address.
Register(a, label, min) ==
    /\ Len(sessions[a].events) <= MaxEvents
    /\ sessions' = [sessions EXCEPT
           ![a].open = TRUE, ![a].label = label, ![a].min = min,
           ![a].events = Append(@, "registered")]
    /\ UNCHANGED <<chain, workers, stream, signed>>

\* The outputs that spend_from may pick: coinbases of the active chain.
CoinValue(b) == Subsidy(Height[b], NetHalving)

\* Mutant of MayWithdraw: only spend_from looks at the amount.
MayWithdrawAny(s, amount) == amount > 0

\* The refusals of handle_pool_withdraw.
MayWithdraw(s, amount) == amount > 0 /\ amount <= s.balance

\* handle_pool_withdraw.
Withdraw(a, asked, coin) ==
    LET amount == IF asked = 0 THEN sessions[a].balance ELSE asked
        left == sessions[a].balance - amount
    IN  /\ sessions[a].open
        /\ MayWithdraw(sessions[a], amount)
        /\ amount <= CoinValue(coin)
        /\ sessions' = [sessions EXCEPT
               ![a].balance = IF left < 0 THEN 0 ELSE left,
               ![a].events = Append(@, "payout")]
        /\ signed' = [signed EXCEPT ![a] = @ + amount]
        /\ UNCHANGED <<chain, workers, stream>>

\* Whom handle_pool_payout pays when it spends from coin, and how much; names
\* are the worker names and session labels it was asked for.
Owed == [p \in Payee |->
    IF p \in Account THEN sessions[p].balance ELSE workers[p].earned]
Payees(names, coin) ==
    {n \in Worker : workers[n].addr = "valid" /\ n \in names /\ Owed[n] \in 1..CoinValue(coin)}
    \cup {a \in Account : sessions[a].label \in names /\ Owed[a] \in 1..CoinValue(coin)}

\* Mutant of PayOut: the earnings of workers are not set back.
PayOutSessions(names, coin) ==
    LET paid == Payees(names, coin)
    IN  /\ paid # {}
        /\ sessions' = [a \in Account |->
               IF a \in paid THEN [sessions[a] EXCEPT !.balance = 0] ELSE sessions[a]]
        /\ signed' = [p \in Payee |-> signed[p] + IF p \in paid THEN Owed[p] ELSE 0]
        /\ UNCHANGED <<chain, workers, stream>>

\* handle_pool_payout: all payments spend from the same, unchanged store.
PayOut(names, coin) ==
    LET paid == Payees(names, coin)
    IN  /\ paid # {}
        /\ sessions' = [a \in Account |->
               IF a \in paid THEN [sessions[a] EXCEPT !.balance = 0] ELSE sessions[a]]
        /\ workers' = [n \in Worker |->
               IF n \in paid THEN [workers[n] EXCEPT !.earned = 0] ELSE workers[n]]
        /\ signed' = [p \in Payee |-> signed[p] + IF p \in paid THEN Owed[p] ELSE 0]
        /\ UNCHANGED <<chain, stream>>

-----------------------------------------------------------------------------
(* The thread of an event stream.                                          *)

\* handle_sse, up to its loop.
OpenStream(a) ==
    /\ sessions[a].open
    /\ ~stream[a].on
    /\ stream' = [stream EXCEPT ![a] = [Closed EXCEPT !.on = TRUE]]
    /\ UNCHANGED <<chain, sessions, workers, signed>>

\* Mutant of ReadEvents: the last event that was sent is copied again.
ReadEventsAgain(a) ==
    LET s == stream[a]
        fresh == SubSeq(sessions[a].events, IF s.sent = 0 THEN 1 ELSE s.sent, Len(sessions[a].events))
    IN  /\ s.on
        /\ s.batch = <<>>
        /\ fresh # <<>>
        /\ stream' = [stream EXCEPT ![a].batch = fresh]
        /\ UNCHANGED <<chain, sessions, workers, signed>>

\* Under the lock: copy the events that were not sent yet.
ReadEvents(a) ==
    LET s == stream[a]
        fresh == SubSeq(sessions[a].events, s.sent + 1, Len(sessions[a].events))
    IN  /\ s.on
        /\ s.batch = <<>>
        /\ fresh # <<>>
        /\ stream' = [stream EXCEPT ![a].batch = fresh]
        /\ UNCHANGED <<chain, sessions, workers, signed>>

\* Mutant of SendEvents: the events that came in meanwhile count as sent.
SendEventsUpToNow(a) ==
    /\ stream[a].batch # <<>>
    /\ stream' = [stream EXCEPT ![a].sent = Len(sessions[a].events),
                                ![a].out = @ \o stream[a].batch, ![a].batch = <<>>]
    /\ UNCHANGED <<chain, sessions, workers, signed>>

\* Without the lock: write them to the socket and count them.
SendEvents(a) ==
    /\ stream[a].batch # <<>>
    /\ stream' = [stream EXCEPT ![a].sent = @ + Len(stream[a].batch),
                                ![a].out = @ \o stream[a].batch, ![a].batch = <<>>]
    /\ UNCHANGED <<chain, sessions, workers, signed>>

\* A write fails: the miner is gone, and may come back with a new stream.
BreakStream(a) ==
    /\ stream[a].on
    /\ stream' = [stream EXCEPT ![a] = Closed]
    /\ UNCHANGED <<chain, sessions, workers, signed>>

StreamStep(a) == ReadEvents(a) \/ SendEvents(a)

Next ==
    \/ \E b \in Block :
           \/ RelayBlock(b)
           \/ \E a \in Account : SubmitForSession(b, a)
           \/ \E n \in Worker, addr \in Addr : SubmitForWorker(b, n, addr)
    \/ \E n \in Worker, addr \in Addr : GetBlockTemplate(n, addr)
    \/ \E a \in Account, label \in Worker, min \in MinPayouts : Register(a, label, min)
    \/ \E a \in Account, asked \in Amounts, coin \in Path[tip] : Withdraw(a, asked, coin)
    \/ \E names \in {{n} : n \in Worker} \cup {Worker}, coin \in Path[tip] : PayOut(names, coin)
    \/ \E a \in Account : OpenStream(a) \/ StreamStep(a) \/ BreakStream(a)

Spec == Init /\ [][Next]_poolVars

\* The thread of a stream runs as long as its connection stands.
FairSpec == Spec /\ \A a \in Account : WF_poolVars(StreamStep(a))

-----------------------------------------------------------------------------
(* Properties.                                                             *)

\* Every variable of the pool has its type, and a stream holds no more than
\* its session's events.
PoolTypeOK ==
    /\ knownBlocks \subseteq known /\ known \subseteq Block /\ tip \in known \cup {Zero}
    /\ sessions \in [Account -> [open : BOOLEAN, label : Worker \cup {""}, min : Nat,
           balance : Nat, earned : Nat, found : Nat, events : Seq(Event)]]
    /\ workers \in [Worker -> [seen : BOOLEAN, found : Nat, earned : Nat, addr : Addr]]
    /\ \A a \in Account : stream[a].sent + Len(stream[a].batch) <= Len(sessions[a].events)
    /\ signed \in [Payee -> Nat]

\* What a session has ever earned is its balance and what was signed for it,
\* whether by withdrawals or by batch payouts: nothing is paid twice or lost.
SessionBooks ==
    \A a \in Account : sessions[a].earned = sessions[a].balance + signed[a]

\* A block is credited at most once, however often it is submitted or relayed,
\* as long as known_blocks had room for every block.
CreditedOnce ==
    Cardinality(known) <= KnownMax => SumFunctionOnSet(Found, Payee) <= Cardinality(known)

\* On a chain without forks the pool never owes or signs more than the
\* coinbases it holds: rewards, withdrawals and payouts keep the books solvent.
Solvent ==
    /\ known = Path[tip]
    /\ Cardinality(known) <= KnownMax
    /\ NetHalving = Halving
    => SumFunctionOnSet(Owed, Payee) + SumFunctionOnSet(signed, Payee)
           <= SumFunctionOnSet([b \in known |-> CoinValue(b)], known)

\* A stream shows the events of its session in their order, none left out and
\* none twice, although it counts them outside the lock.
StreamInOrder == \A a \in Account : IsPrefix(stream[a].out, sessions[a].events)

\* While its connection stands a stream shows every event sooner or later.
EventuallyShown ==
    \A a \in Account, n \in 1..(2 * MaxEvents) :
        stream[a].on /\ Len(sessions[a].events) >= n
            ~> ~stream[a].on \/ Len(stream[a].out) >= n
=============================================================================
