-------------------------------- MODULE Sync --------------------------------
(***************************************************************************)
(* Initial chain synchronisation and block relay between nodes that run    *)
(* the same program: GetBlocks, Inv, GetData, Block, GetAddr and Addr in   *)
(* on_message, the part of accept_block that decides whether a block is    *)
(* taken, the miner loop, and the pool miner of the command line and the   *)
(* GUI, over the connections of Peers.  A handler takes the node's lock,   *)
(* gives it back and sends afterwards, so each is two steps or more.       *)
(* A reorganisation is one step here (ChainState has its steps), every     *)
(* block is otherwise valid, no body is pruned, no node stops, and         *)
(* known_blocks never fills up.                                            *)
(***************************************************************************)
EXTENDS Peers, Blocks, Selection

CONSTANTS
    Work,           \* [Block -> Nat]: cumulative work
    Miner,          \* [Block -> Node]: who may find a block nobody has yet
    MaxSyncInv,     \* MAX_SYNC_INV
    PeerBlockLimit, \* PEER_BLOCK_LIMIT
    Starts          \* the situations in which nodes are started: the
                    \* connections that are dialled (--connect) and those
                    \* that a learnt address leads to (the others are a
                    \* bound), the tip and the blocks of each store, the
                    \* nodes that mine, and those that have a pool miner

ASSUME SyncAssumption ==
    /\ Work \in [Block -> Nat \ {0}]
    /\ Miner \in [Block -> Node]
    /\ \A b \in Block : Height[b] = IF Parent[b] = Zero THEN 0 ELSE Height[Parent[b]] + 1
    /\ MaxSyncInv \in Nat \ {0} /\ PeerBlockLimit \in Nat \ {0}
    /\ \A s \in Starts :
           /\ s.dialled \subseteq Conn /\ s.learnt \subseteq Conn /\ s.mining \subseteq Node
           /\ s.pool \subseteq Node \ s.mining
           /\ s.tip \in [Node -> Block \cup {Zero}]
           /\ s.have \in [Node -> SUBSET Block]
           /\ \A n \in Node : /\ Path[s.tip[n]] \subseteq s.have[n]
                              /\ \A b \in s.have[n] : Path[b] \subseteq s.have[n]

VARIABLES
    have,           \* the blocks in the store of each node
    known,          \* Node.known_blocks
    tip,            \* Node.tip
    rate,           \* Node.peer_block: how many blocks were taken from the IP
                    \* of each other node within the window; the entry of the
                    \* node itself is 0.0.0.0, the source of what RPC hands in
    todo,           \* what the thread of each end has yet to send
    miner,          \* what the miner thread or the pool miner of each node
                    \* is doing
    addrs,          \* the AddrSet of each node, as nodes
    start,          \* the situation in which the nodes were started
    why             \* history: what may keep nodes from the same chain

syncVars == <<have, known, tip, rate, todo, miner, addrs, start, why>>
vars == <<peerVars, syncVars>>

\* The nodes have accepted their blocks before the connections come up.
SyncInit ==
    \E s \in Starts :
        /\ InitWith(s.dialled)
        /\ have = s.have
        /\ tip = s.tip
        /\ start = s
        /\ addrs = [n \in Node |-> {c.to : c \in {d \in s.dialled : d.from = n}}]
        /\ known = s.have
        /\ rate = [n \in Node |-> [m \in Node |-> 0]]
        /\ todo = [e \in Ends |-> <<>>]
        /\ miner = [n \in Node |-> <<"idle">>]
        /\ why = {}

-----------------------------------------------------------------------------
(* Sending: a message goes to a peer with which the handshake is done.     *)

Ready(n) == {a \in DOMAIN peers[n] : peers[n][a].handshaked}

\* The messages with m written to the sockets of n for the addresses in to.
Written(n, to, m) ==
    [e \in Ends |-> IF \E a \in to : Remote(peers[n][a].end) = e
                    THEN Append(inbox[e], m) ELSE inbox[e]]

Untouched == <<peers, connecting, cut, start>>

\* What is left to do of a handler: send a message back, or announce a block
\* to everyone else.
Reply(m) == [wide |-> FALSE, msg |-> m]
Announcement(b) == <<"inv", <<b>>>>
Relay(b) == [wide |-> TRUE, msg |-> Announcement(b)]

\* send_msg or broadcast: the peer table is locked for all of it.
SendNext(e) ==
    /\ thread[e] = "send"
    /\ LET next == Head(todo[e])
           to == IF next.wide THEN Ready(Owner(e)) \ {Addr(e)} ELSE Ready(Owner(e)) \cap {Addr(e)}
       IN  /\ inbox' = Written(Owner(e), to, next.msg)
           /\ why' = IF next.wide /\ to # {} THEN why \cup {"relayed"} ELSE why
    /\ todo' = [todo EXCEPT ![e] = Tail(@)]
    /\ Goto(e, IF Tail(todo[e]) = <<>> THEN "read" ELSE "send")
    /\ UNCHANGED <<have, known, tip, rate, miner, addrs, Untouched>>

\* A handler ends with the messages in out to be sent.
Answer(e, out) ==
    /\ inbox' = [inbox EXCEPT ![e] = Tail(@)]
    /\ todo' = [todo EXCEPT ![e] = out]
    /\ Goto(e, IF out = <<>> THEN "read" ELSE "send")

Payload(e) == Head(inbox[e])[2]

-----------------------------------------------------------------------------
(* Asking for blocks, and for the data of blocks.                          *)

\* Verack: the handshake is done ...
SyncVerack(e) ==
    /\ HandshakeDone(e)
    /\ Goto(e, "tip")
    /\ UNCHANGED <<connecting, cut, syncVars>>

\* Mutant of AskPeer: no addresses are asked for.
AskPeerForBlocks(e) ==
    /\ thread[e] = "tip"
    /\ todo' = [todo EXCEPT ![e] = <<Reply(<<"getblocks", tip[Owner(e)]>>)>>]
    /\ Goto(e, "send")
    /\ UNCHANGED <<inbox, have, known, tip, rate, miner, addrs, why, Untouched>>

\* ... and the peer is asked for what comes after the tip of this moment, and
\* for the addresses it knows.
AskPeer(e) ==
    /\ thread[e] = "tip"
    /\ todo' = [todo EXCEPT ![e] = <<Reply(<<"getblocks", tip[Owner(e)]>>), Reply(<<"getaddr">>)>>]
    /\ Goto(e, "send")
    /\ UNCHANGED <<inbox, have, known, tip, rate, miner, addrs, why, Untouched>>

\* Node.chain: the block of the best chain of n at height h.
TipHeight(n) == IF tip[n] = Zero THEN 0 ELSE Height[tip[n]]
OnBestChain(n, h) == CHOOSE b \in Path[tip[n]] : Height[b] = h

\* Mutant of FirstHeight: the locator's own successor is passed over.
FirstHeightOneOn(n, locator) ==
    IF locator \in have[n] /\ Height[locator] < TipHeight(n) THEN Height[locator] + 2 ELSE 0

\* A locator that is not in the store, or not below the tip, is no help.
FirstHeight(n, locator) ==
    IF locator \in have[n] /\ Height[locator] < TipHeight(n) THEN Height[locator] + 1 ELSE 0

\* How many blocks of the best chain of n there are from a height on.
CountFrom(n, h) == IF tip[n] = Zero THEN 0 ELSE Height[tip[n]] + 1 - h

\* block_inv_from_locator.
BlockInv(n, locator) ==
    LET from == FirstHeight(n, locator)
        count == CountFrom(n, from)
    IN  [i \in 1..(IF count < MaxSyncInv THEN count ELSE MaxSyncInv) |->
            OnBestChain(n, from + i - 1)]

\* The answer stops short, or starts above a block that the peer may lack.
BlockInvGaps(n, locator) ==
    LET from == FirstHeight(n, locator)
    IN  (IF CountFrom(n, from) > MaxSyncInv THEN {"cap"} ELSE {})
        \cup (IF from > 0 /\ locator \notin Path[tip[n]] THEN {"side"} ELSE {})

ReadGetBlocks(e) ==
    /\ Reads(e, "getblocks")
    /\ LET inv == BlockInv(Owner(e), Payload(e))
       IN  Answer(e, IF inv = <<>> THEN <<>> ELSE <<Reply(<<"inv", inv>>)>>)
    /\ why' = why \cup BlockInvGaps(Owner(e), Payload(e))
    /\ UNCHANGED <<have, known, tip, rate, miner, addrs, Untouched>>

\* Inv: ask for what has not been accepted since the start.
ReadInv(e) ==
    /\ Reads(e, "inv")
    /\ LET want == Selected(Payload(e), Block \ known[Owner(e)])
       IN  Answer(e, IF want = <<>> THEN <<>> ELSE <<Reply(<<"getdata", want>>)>>)
    /\ UNCHANGED <<have, known, tip, rate, miner, addrs, why, Untouched>>

\* Mutant of ReadGetData: the blocks are sent in the reverse order.
ReadGetDataBackwards(e) ==
    /\ Reads(e, "getdata")
    /\ LET out == Selected(Payload(e), have[Owner(e)])
       IN  Answer(e, [i \in DOMAIN out |-> Reply(<<"block", out[Len(out) + 1 - i]>>)])
    /\ UNCHANGED <<have, known, tip, rate, miner, addrs, why, Untouched>>

\* GetData: each block that is in the store, in the order asked for.
ReadGetData(e) ==
    /\ Reads(e, "getdata")
    /\ LET out == Selected(Payload(e), have[Owner(e)])
       IN  Answer(e, [i \in DOMAIN out |-> Reply(<<"block", out[i]>>)])
    /\ UNCHANGED <<have, known, tip, rate, miner, addrs, why, Untouched>>

-----------------------------------------------------------------------------
(* Taking blocks: accept_block.                                            *)

\* The checks passed: record the block and go to the heaviest chain.
Take(n, b) ==
    /\ have' = [have EXCEPT ![n] = @ \cup {b}]
    /\ known' = [known EXCEPT ![n] = @ \cup {b}]
    /\ \E best \in have[n] \cup {b} :
           /\ \A a \in (have[n] \cup {b}) \ {best} : Better(Work, best, a)
           /\ tip' = [tip EXCEPT ![n] = best]

\* A block from a peer that is taken, and announced to the other peers.
AcceptBlock(e) ==
    LET n == Owner(e) from == Owner(Remote(e)) b == Payload(e)
    IN  /\ Reads(e, "block")
        /\ b \notin known[n]
        /\ rate[n][from] < PeerBlockLimit
        /\ HeaderOK(have[n], b)
        /\ Take(n, b)
        /\ rate' = [rate EXCEPT ![n][from] = @ + 1]
        /\ Answer(e, <<Relay(b)>>)
        /\ UNCHANGED <<miner, addrs, why, Untouched>>

\* A block from a peer that is dropped.  Nothing remembers it or asks again.
DropBlock(e) ==
    LET n == Owner(e) b == Payload(e)
        seen == b \in known[n]
        limited == rate[n][Owner(Remote(e))] >= PeerBlockLimit
    IN  /\ Reads(e, "block")
        /\ seen \/ limited \/ ~HeaderOK(have[n], b)
        /\ Answer(e, <<>>)
        /\ why' = why \cup (IF seen THEN {} ELSE IF limited THEN {"limit"} ELSE {"orphan"})
        /\ UNCHANGED <<have, known, tip, rate, miner, addrs, Untouched>>

\* The window passes the earliest blocks taken from a peer at its limit.
WindowMoves(n, from) ==
    /\ rate[n][from] = PeerBlockLimit
    /\ \E k \in 0..(PeerBlockLimit - 1) : rate' = [rate EXCEPT ![n][from] = k]
    /\ UNCHANGED <<peerVars, have, known, tip, todo, miner, addrs, start, why>>

-----------------------------------------------------------------------------
(* Addresses.  A node listens on 0.0.0.0 and says so in its Version, which *)
(* no node takes for an address: only what was dialled is ever passed on.  *)

\* GetAddr: the addresses known, the node's own unspecified one left out.
ReadGetAddr(e) ==
    /\ Reads(e, "getaddr")
    /\ LET list == addrs[Owner(e)]
       IN  Answer(e, IF list = {} THEN <<>> ELSE <<Reply(<<"addr", list>>)>>)
    /\ UNCHANGED <<have, known, tip, rate, miner, addrs, why, Untouched>>

\* Addr: each new address is dialled, once.  (No list is longer than
\* MAX_ADDR_PER_MSG here.)
ReadAddr(e) ==
    LET n == Owner(e) new == Payload(e) \ addrs[n]
    IN  /\ Reads(e, "addr")
        /\ addrs' = [addrs EXCEPT ![n] = @ \cup new]
        /\ thread' = [d \in Ends |->
               IF d \in start.learnt \X {"out"} /\ d[1].from = n /\ d[1].to \in new
               THEN "none" ELSE thread[d]]
        /\ inbox' = [inbox EXCEPT ![e] = Tail(@)]
        /\ UNCHANGED <<have, known, tip, rate, todo, miner, why, Untouched>>

-----------------------------------------------------------------------------
(* Miners.                                                                 *)

\* make_template: a block on the tip, of those that this miner can find.
Template(n, b) ==
    /\ miner[n] = <<"idle">>
    /\ Miner[b] = n /\ Parent[b] = tip[n]
    /\ \A m \in Node : b \notin have[m]
    /\ UNCHANGED <<peerVars, have, known, tip, rate, todo, addrs, start, why>>

\* The miner loop takes a template.
TakeTemplate(n, b) ==
    n \in start.mining /\ Template(n, b) /\ miner' = [miner EXCEPT ![n] = <<"search", b>>]

\* The block is found, and accepted as a local one.
FindBlock(n) ==
    /\ miner[n][1] = "search"
    /\ Take(n, miner[n][2])
    /\ miner' = [miner EXCEPT ![n] = <<"found", miner[n][2]>>]
    /\ UNCHANGED <<peerVars, rate, todo, addrs, start, why>>

\* broadcast to every peer.
AnnounceFound(n) ==
    /\ miner[n][1] = "found"
    /\ inbox' = Written(n, Ready(n), Announcement(miner[n][2]))
    /\ why' = IF Ready(n) # {} THEN why \cup {"relayed"} ELSE why
    /\ miner' = [miner EXCEPT ![n] = <<"idle">>]
    /\ UNCHANGED <<thread, have, known, tip, rate, todo, addrs, Untouched>>

\* getblocktemplate: a pool miner fetches a template.
FetchTemplate(n, b) ==
    n \in start.pool /\ Template(n, b) /\ miner' = [miner EXCEPT ![n] = <<"pool", b>>]

\* submitblock: the block of the pool miner is accepted like one from a peer at
\* 0.0.0.0, and not announced.
SubmitBlock(n) ==
    /\ miner[n][1] = "pool"
    /\ rate[n][n] < PeerBlockLimit
    /\ Take(n, miner[n][2])
    /\ rate' = [rate EXCEPT ![n][n] = @ + 1]
    /\ miner' = [miner EXCEPT ![n] = <<"idle">>]
    /\ why' = IF DOMAIN peers[n] = {} THEN why ELSE why \cup {"silent"}
    /\ UNCHANGED <<peerVars, todo, addrs, start>>

\* "block rejected": all pool miners together have reached the limit of a peer,
\* and the block is lost.
RejectBlock(n) ==
    /\ miner[n][1] = "pool"
    /\ rate[n][n] >= PeerBlockLimit
    /\ miner' = [miner EXCEPT ![n] = <<"idle">>]
    /\ UNCHANGED <<peerVars, have, known, tip, rate, todo, addrs, start, why>>

-----------------------------------------------------------------------------

\* What the thread of an end does by itself about blocks.
SyncStep(e) ==
    \/ SyncVerack(e) \/ AskPeer(e) \/ ReadGetBlocks(e) \/ ReadInv(e) \/ ReadGetData(e)
    \/ AcceptBlock(e) \/ DropBlock(e) \/ SendNext(e) \/ ReadGetAddr(e) \/ ReadAddr(e)

SyncNext ==
    \/ ConnNext /\ UNCHANGED syncVars
    \/ \E e \in Ends : SyncStep(e)
    \/ \E n \in Node :
           \/ \E m \in Node : WindowMoves(n, m)
           \/ \E b \in Block : TakeTemplate(n, b) \/ FetchTemplate(n, b)
           \/ FindBlock(n) \/ AnnounceFound(n) \/ SubmitBlock(n) \/ RejectBlock(n)

SyncSpec == SyncInit /\ [][SyncNext]_vars

\* What runs by itself: dialling, the network, and the threads.
Running ==
    \/ ConnRuns /\ UNCHANGED syncVars
    \/ \E e \in Ends : SyncStep(e)
    \/ \E n \in Node : AnnounceFound(n)

\* As long as a thread can run some thread does.  A miner need never find a
\* block, and nothing has to go wrong.
FairSyncSpec == SyncSpec /\ WF_vars(Running)

-----------------------------------------------------------------------------
(* Properties.                                                             *)

\* What may keep two connected nodes apart for good: a block dropped over the
\* limit, an answer cut at its limit or begun above a fork, a pool miner's block
\* that those who are connected already are not told of, or an announced
\* block that arrived before its parent.
KeptApart == why \cap {"limit", "cap", "side", "silent"} # {} \/ {"orphan", "relayed"} \subseteq why

\* Two nodes of which one dials the other end up on the same chain, whatever
\* chains they start with, whatever is mined and relayed meanwhile and however
\* handshake, answers and announcements interleave, unless something goes
\* wrong with the connection, they part, or one of the five things above happens.
EventuallySynced ==
    <>[](\A c \in Conn :
             Dials(c) => \/ cut \cap Between(c) # {}
                         \/ Parted(c) \/ KeptApart
                         \/ tip[c.from] = tip[c.to])

\* A block never arrives before its parent through the initial exchange alone:
\* only an announcement, the limit per peer or a locator off the chain can do
\* that.  An answer cut at its limit cannot, and neither can whatever miners
\* hand in while an answer is under way.
ParentsFirst == "orphan" \in why => why \cap {"relayed", "limit", "side"} # {}

\* A node learns every address that a node it is connected with was started
\* with, and so can reach the network through one peer.
LearnsSeeds ==
    <>[](\A c \in Conn, s \in start.dialled :
             \/ ~Dials(c) \/ cut \cap Between(c) # {} \/ Parted(c)
             \/ /\ s.from = c.to => s.to \in addrs[c.from]
                /\ s.from = c.from => s.to \in addrs[c.to])
=============================================================================
