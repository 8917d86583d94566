------------------------------- MODULE Locks -------------------------------
(***************************************************************************)
(* The mutexes of one litc-node process and the order in which its threads *)
(* take them.  A handler is the sequence of the locks it takes and gives   *)
(* back; what it does with the data is the subject of the other modules.   *)
(***************************************************************************)
EXTENDS Naturals, Sequences, FiniteSets

CONSTANTS
    Thread,     \* the threads that run at the same time
    Handlers,   \* [Thread -> SUBSET Handler]: what each of them does
    Miner       \* the thread of miner_loop

\* The node, the peer table, the addresses in connecting and in known, and the
\* writers of the peers, as one.
Mutex == {"node", "peers", "connecting", "known", "writer"}
Free == "free"

Around(m, inner) == <<[op |-> "lock", m |-> m]>> \o inner \o <<[op |-> "unlock", m |-> m]>>
Section(m) == Around(m, <<>>)

\* send_msg and broadcast write to the sockets with the peer table locked.
SendMsg == Around("peers", Section("writer"))

\* connect_to, until it spawns the thread that dials.
ConnectTo == Around("peers", Section("connecting"))

\* The dialling thread: the address is known now, or given up.
DialSucceeds == Section("known")
DialFails == Section("connecting")

\* handle_conn before its loop: the entry, then height, nonce, magic, Version.
Register == Section("peers") \o Section("node") \o Section("node") \o Section("node") \o SendMsg

\* on_message reads the magic first.
OnMessage(rest) == Section("node") \o rest

\* A Version: the two nonce checks with the table locked, the nonce, the
\* address to gossip, the Verack.
OnVersion == OnMessage(Around("peers", Section("node")) \o Section("peers") \o Section("known")
                           \o SendMsg)

OnVerack == OnMessage(Section("peers") \o Section("node") \o SendMsg \o SendMsg)

\* Inv and GetBlocks read the node, then answer; GetData answers with one
\* message per item (one here: more repeat what the table's lock already does).
OnRequest == OnMessage(Section("node") \o SendMsg)

\* Block and Tx: accept_block or accept_tx, then the inv to the others.
OnPayload == OnMessage(Section("node") \o SendMsg)

OnGetAddr == OnMessage(Section("known") \o SendMsg)

OnAddr == OnMessage(Section("known") \o Section("peers") \o ConnectTo)

\* After each read, until the handshake is done: is the peer handshaked?
AfterRead == Section("peers")

\* Mutant of EndOfConnection: the two entries go in one step.
EndOfConnectionNested == Around("connecting", Section("peers"))

\* handle_conn, after its loop.
EndOfConnection == Section("peers") \o Section("connecting")

\* The listener looks at the number of peers.
Listen == Section("peers")

\* miner_loop before its first round, on an empty chain.
MinerWait == Around("node", Section("peers"))

\* A round of miner_loop: the switch, the template, accept_block, the inv.
MinerLoop == Section("node") \o Section("node") \o Section("node") \o SendMsg

\* load_mempool: the magic, then accept_tx and the inv of each file.
LoadMempool == Section("node") \o Section("node") \o SendMsg

\* The status line of the main thread.
Status == Around("node", Section("peers"))

\* handle_request: one lock of the node around every method, and
\* getinfo, getpeerinfo and getconnectioncount look at the peers within it.
RpcRequest == Section("node")
RpcPeers == Around("node", Section("peers"))

\* The locks each handler takes, in order, on its longest way through; an
\* early return leaves out whole sections at the end.
Program == [
    register    |-> Register,
    version     |-> OnVersion,
    verack      |-> OnVerack,
    request     |-> OnRequest,
    payload     |-> OnPayload,
    getAddr     |-> OnGetAddr,
    addr        |-> OnAddr,
    afterRead   |-> AfterRead,
    end         |-> EndOfConnection,
    listen      |-> Listen,
    dial        |-> DialSucceeds,
    dialFails   |-> DialFails,
    minerWait   |-> MinerWait,
    mine        |-> MinerLoop,
    loadMempool |-> LoadMempool,
    status      |-> Status,
    rpc         |-> RpcRequest,
    rpcPeers    |-> RpcPeers]

Handler == DOMAIN Program

ASSUME LocksAssumption ==
    /\ Miner \in Thread /\ Free \notin Thread
    /\ Handlers \in [Thread -> SUBSET Handler]

VARIABLES
    holder,     \* who has each mutex
    todo        \* what is left of the handler each thread is in

lockVars == <<holder, todo>>

Init ==
    /\ holder = [m \in Mutex |-> Free]
    /\ todo = [t \in Thread |-> <<>>]

\* A thread turns to its next message, request or round.
Begin(t, h) ==
    /\ todo[t] = <<>>
    /\ todo' = [todo EXCEPT ![t] = Program[h]]
    /\ UNCHANGED holder

Wants(t, m) == todo[t] # <<>> /\ Head(todo[t]) = [op |-> "lock", m |-> m]

\* Mutant of Lock: the mutex is taken although another thread has it.
LockAnyway(t, m) ==
    /\ Wants(t, m)
    /\ holder' = [holder EXCEPT ![m] = t]
    /\ todo' = [todo EXCEPT ![t] = Tail(@)]

Lock(t, m) ==
    /\ Wants(t, m)
    /\ holder[m] = Free
    /\ holder' = [holder EXCEPT ![m] = t]
    /\ todo' = [todo EXCEPT ![t] = Tail(@)]

Unlock(t, m) ==
    /\ todo[t] # <<>> /\ Head(todo[t]) = [op |-> "unlock", m |-> m]
    /\ holder' = [holder EXCEPT ![m] = Free]
    /\ todo' = [todo EXCEPT ![t] = Tail(@)]

Next ==
    \E t \in Thread :
        \/ \E h \in Handlers[t] : Begin(t, h)
        \/ \E m \in Mutex : Lock(t, m) \/ Unlock(t, m)

Spec == Init /\ [][Next]_lockVars

\* A thread runs when it can, the miner comes round again, and a mutex that is
\* free again and again is some time given to each thread that waits for it.
FairSpec ==
    /\ Spec
    /\ WF_lockVars(\E h \in Handlers[Miner] : Begin(Miner, h))
    /\ \A t \in Thread : WF_lockVars(\E m \in Mutex : Unlock(t, m))
    /\ \A t \in Thread : SF_lockVars(\E m \in Mutex : Lock(t, m))

-----------------------------------------------------------------------------
(* Properties.                                                             *)

\* What a thread holds is what it has still to give back.
HoldersOweUnlock ==
    \A m \in Mutex, t \in Thread :
        holder[m] = t <=>
            Cardinality({i \in DOMAIN todo[t] : todo[t][i] = [op |-> "unlock", m |-> m]})
                > Cardinality({i \in DOMAIN todo[t] : todo[t][i] = [op |-> "lock", m |-> m]})

WaitsFor(t, u) == \E m \in Mutex : Wants(t, m) /\ holder[m] = u

\* Threads that wait for each other.
Circle(S) == S # {} /\ \A t \in S : \E u \in S : WaitsFor(t, u)

\* A Version handler that has the peer table and waits for the node.
InVersion(t) == holder["peers"] = t /\ Wants(t, "node")

\* Wherever threads wait for each other for ever, one of them checks the nonce
\* of a Version message: no other two handlers take locks in opposite orders.
OnlyVersionBlocks == \A S \in SUBSET Thread : Circle(S) => \E t \in S : InVersion(t)

\* Mining goes on for ever, whatever the peers, the wallet and the operator
\* do, unless a Version handler is in such a circle.
MiningStopsOnlyAtVersion ==
    \/ []<>(todo[Miner] = <<>>)
    \/ <>(\E S \in SUBSET Thread : Circle(S) /\ \E t \in S : InVersion(t))
=============================================================================
