------------------------------- MODULE Peers -------------------------------
(***************************************************************************)
(* Peer connections in litc-node: connect_to, the listener, handle_conn    *)
(* and the version handshake of on_message, between nodes that run the     *)
(* same program.  Every end of a connection has a thread; the peer table   *)
(* and the connecting set of a node are shared by its threads and locked   *)
(* for one step at a time.  Module Sync adds what is said once a handshake *)
(* is done, and has the next-state relation of both.                       *)
(***************************************************************************)
EXTENDS Naturals, Sequences, FiniteSets, Functions

CONSTANTS
    Node,           \* a node stands for its nonce too
    Conn,           \* the connections that may be dialled: [from, to, id]
    MaxPeers,       \* MAX_PEERS
    Fragile,        \* bound: the connections with which something may go wrong
    MaxErrors       \* bound: with how many of them it does

ASSUME ConnAssumption ==
    /\ Conn \subseteq [from : Node, to : Node, id : Nat]
    /\ "listens" \notin Node
    /\ MaxPeers \in Nat
    /\ Fragile \subseteq Conn /\ MaxErrors \in Nat

VARIABLES
    peers,      \* PeerMap of each node: [address -> Peer]
    connecting, \* the connecting set of each node
    thread,     \* where the thread of each end is
    inbox,      \* the messages on the way to each end
    cut         \* history: the connections that something went wrong with

peerVars == <<peers, connecting, thread, inbox, cut>>

None == "none"
Ends == Conn \X {"out", "in"}
Owner(e) == IF e[2] = "out" THEN e[1].from ELSE e[1].to
Remote(e) == <<e[1], IF e[2] = "out" THEN "in" ELSE "out">>

\* The address under which the owner knows the other side: the one it dialled,
\* or the ephemeral address of the socket, which no other connection has.
Listening(n) == <<n, "listens", 0>>
Addr(e) == IF e[2] = "out" THEN Listening(e[1].to) ELSE <<e[1].from, e[1].to, e[1].id>>
Table(e) == peers[Owner(e)]
HasEntry(e) == Addr(e) \in DOMAIN Table(e)

\* Peer, with the end whose socket its writer is.
NewPeer(e) == [end |-> e, handshaked |-> FALSE, nonce |-> None]

\* A socket is open while its thread or a writer in the table holds it.
Open(e) ==
    \/ thread[e] \notin {"gone", "lost"}
    \/ HasEntry(e) /\ Table(e)[Addr(e)].end = e

Goto(e, place) == thread' = [thread EXCEPT ![e] = place]
SetEntry(e, p) ==
    peers' = [peers EXCEPT ![Owner(e)] =
                 [a \in DOMAIN @ \cup {Addr(e)} |-> IF a = Addr(e) THEN p ELSE @[a]]]

\* send_msg: to the writer that the table has for the address.
Send(e, m) ==
    inbox' = IF HasEntry(e) THEN [inbox EXCEPT ![Remote(Table(e)[Addr(e)].end)] = Append(@, m)]
             ELSE inbox

\* The nodes are started, and are going to dial some of the connections.
InitWith(dialled) ==
    /\ peers = [n \in Node |-> [a \in {} |-> None]]
    /\ connecting = [n \in Node |-> {}]
    /\ thread = [e \in Ends |-> IF e[1] \in dialled THEN "none" ELSE "unused"]
    /\ inbox = [e \in Ends |-> <<>>]
    /\ cut = {}

\* Something goes wrong with the connection c.
Cut(c) == c \in Fragile /\ cut' = cut \cup {c} /\ Cardinality(cut') <= MaxErrors

-----------------------------------------------------------------------------
\* Mutant of Dial: the connecting set is not looked at.
DialAgain(c) ==
    /\ thread[<<c, "out">>] = "none"
    /\ Listening(c.to) \notin DOMAIN peers[c.from]
    /\ connecting' = [connecting EXCEPT ![c.from] = @ \cup {Listening(c.to)}]
    /\ Goto(<<c, "out">>, "dialling")
    /\ UNCHANGED <<peers, inbox, cut>>

\* connect_to, for a seed or a gossiped address: not when there is a peer with
\* the address, nor when it is being dialled or has been and is still connected.
Dial(c) ==
    /\ thread[<<c, "out">>] = "none"
    /\ Listening(c.to) \notin DOMAIN peers[c.from] \cup connecting[c.from]
    /\ connecting' = [connecting EXCEPT ![c.from] = @ \cup {Listening(c.to)}]
    /\ Goto(<<c, "out">>, "dialling")
    /\ UNCHANGED <<peers, inbox, cut>>

\* connect_to returns at once, and the address is not tried again.
Skip(c) ==
    /\ thread[<<c, "out">>] = "none"
    /\ Listening(c.to) \in DOMAIN peers[c.from] \cup connecting[c.from]
    /\ Goto(<<c, "out">>, "gone")
    /\ UNCHANGED <<peers, connecting, inbox, cut>>

\* connect_timeout succeeds: the connection waits for the listener.
Established(c) ==
    /\ thread[<<c, "out">>] = "dialling"
    /\ thread' = [thread EXCEPT ![<<c, "out">>] = "start", ![<<c, "in">>] = "backlog"]
    /\ UNCHANGED <<peers, connecting, inbox, cut>>

\* Mutant of ConnectFails: the address stays in the connecting set.
ConnectFailsQuietly(c) ==
    /\ thread[<<c, "out">>] = "dialling"
    /\ Goto(<<c, "out">>, "gone")
    /\ Cut(c)
    /\ UNCHANGED <<peers, connecting, inbox>>

ConnectFails(c) ==
    /\ thread[<<c, "out">>] = "dialling"
    /\ connecting' = [connecting EXCEPT ![c.from] = @ \ {Listening(c.to)}]
    /\ Goto(<<c, "out">>, "gone")
    /\ Cut(c)
    /\ UNCHANGED <<peers, inbox>>

\* The listener: a thread for the connection, or at the limit nothing.
Listen(c) ==
    /\ thread[<<c, "in">>] = "backlog"
    /\ Goto(<<c, "in">>, IF Cardinality(DOMAIN peers[c.to]) >= MaxPeers THEN "gone" ELSE "start")
    /\ UNCHANGED <<peers, connecting, inbox, cut>>

\* handle_conn: enter the table, send version, read.
Register(e) ==
    /\ thread[e] = "start"
    /\ SetEntry(e, NewPeer(e))
    /\ Goto(e, "hello")
    /\ UNCHANGED <<connecting, inbox, cut>>

\* Mutant of Hello: only the side that dialled sends version.
HelloFromDialler(e) ==
    /\ thread[e] = "hello"
    /\ IF e[2] = "out" THEN Send(e, <<"version", Owner(e)>>) ELSE UNCHANGED inbox
    /\ Goto(e, "read")
    /\ UNCHANGED <<peers, connecting, cut>>

Hello(e) ==
    /\ thread[e] = "hello"
    /\ Send(e, <<"version", Owner(e)>>)
    /\ Goto(e, "read")
    /\ UNCHANGED <<peers, connecting, cut>>

\* A message m of the given kind is read.
Reads(e, kind) ==
    /\ thread[e] = "read"
    /\ inbox[e] # <<>>
    /\ Head(inbox[e])[1] = kind

\* Mutant of Refused: the node's own nonce is not looked at.
RefusedDuplicate(e, nonce) ==
    \E a \in DOMAIN Table(e) \ {Addr(e)} : Table(e)[a].nonce = nonce

\* The nonce is the node's own, or that of another peer in the table.
Refused(e, nonce) ==
    \/ nonce = Owner(e)
    \/ \E a \in DOMAIN Table(e) \ {Addr(e)} : Table(e)[a].nonce = nonce

\* Version, up to where the locks are released.
CheckVersion(e) ==
    /\ Reads(e, "version")
    /\ Goto(e, IF Refused(e, Head(inbox[e])[2]) THEN "leave" ELSE "checked")
    /\ UNCHANGED <<peers, connecting, inbox, cut>>

\* The rest of it: keep the nonce and send verack.
StoreNonce(e) ==
    /\ thread[e] = "checked"
    /\ LET nonce == Head(inbox[e])[2]
           to == Remote(Table(e)[Addr(e)].end)
       IN  IF HasEntry(e)
           THEN /\ SetEntry(e, [Table(e)[Addr(e)] EXCEPT !.nonce = nonce])
                /\ inbox' = [inbox EXCEPT ![e] = Tail(@), ![to] = Append(@, <<"verack", Owner(e)>>)]
           ELSE inbox' = [inbox EXCEPT ![e] = Tail(@)] /\ UNCHANGED peers
    /\ Goto(e, "read")
    /\ UNCHANGED <<connecting, cut>>

\* Verack: the peer has answered.
HandshakeDone(e) ==
    /\ Reads(e, "verack")
    /\ IF HasEntry(e) THEN SetEntry(e, [Table(e)[Addr(e)] EXCEPT !.handshaked = TRUE])
       ELSE UNCHANGED peers
    /\ inbox' = [inbox EXCEPT ![e] = Tail(@)]

\* The read ends: the other side has closed its socket.
ReadEnds(e) ==
    /\ thread[e] = "read"
    /\ inbox[e] = <<>>
    /\ ~Open(Remote(e))
    /\ Goto(e, "leave")
    /\ UNCHANGED <<peers, connecting, inbox, cut>>

\* Nothing came in time, and the handshake is not done.
ReadTimesOut(e) ==
    /\ thread[e] = "read"
    /\ inbox[e] = <<>>
    /\ HasEntry(e) => ~Table(e)[Addr(e)].handshaked
    /\ Goto(e, "leave")
    /\ Cut(e[1])
    /\ UNCHANGED <<peers, connecting, inbox>>

\* A frame that does not parse: handle_conn returns at once.
WireError(e) ==
    /\ thread[e] = "read"
    /\ Goto(e, "lost")
    /\ Cut(e[1])
    /\ UNCHANGED <<peers, connecting, inbox>>

\* The end of handle_conn: leave the table, then the connecting set.
LeaveTable(e) ==
    /\ thread[e] = "leave"
    /\ peers' = [peers EXCEPT ![Owner(e)] = Restrict(@, DOMAIN @ \ {Addr(e)})]
    /\ Goto(e, "left")
    /\ UNCHANGED <<connecting, inbox, cut>>

LeaveConnecting(e) ==
    /\ thread[e] = "left"
    /\ connecting' = [connecting EXCEPT ![Owner(e)] = @ \ {Addr(e)}]
    /\ Goto(e, "gone")
    /\ UNCHANGED <<peers, inbox, cut>>

\* What a thread does by itself about its connection.
ConnStep(e) ==
    \/ Register(e) \/ Hello(e) \/ CheckVersion(e) \/ StoreNonce(e)
    \/ ReadEnds(e) \/ LeaveTable(e) \/ LeaveConnecting(e)

\* What happens to the connections of the nodes, and the part of it that
\* happens by itself: nothing has to go wrong.
ConnNext ==
    \/ \E c \in Conn : Dial(c) \/ Skip(c) \/ Established(c) \/ ConnectFails(c) \/ Listen(c)
    \/ \E e \in Ends : ConnStep(e) \/ ReadTimesOut(e) \/ WireError(e)
ConnRuns ==
    \/ \E c \in Conn : Dial(c) \/ Established(c) \/ Listen(c)
    \/ \E e \in Ends : ConnStep(e)

-----------------------------------------------------------------------------
(* Properties.                                                             *)

\* Where a thread has its entry in the table ("tip" and "send" are of Sync).
InTable == {"hello", "read", "checked", "tip", "send", "leave"}

\* The table of a node has an entry for exactly the connections that a thread
\* reads, and for those it has lost on a frame that did not parse: none is
\* forgotten, none is left behind, none belongs to another.
TableIsThreads ==
    /\ \A n \in Node : \A a \in DOMAIN peers[n] :
           LET e == peers[n][a].end
           IN  Owner(e) = n /\ Addr(e) = a /\ thread[e] \in InTable \cup {"lost"}
    /\ \A e \in Ends :
           thread[e] \in InTable \cup {"lost"} => HasEntry(e) /\ Table(e)[Addr(e)].end = e

\* An address is kept from being dialled only while a thread dials it or is
\* connected to it: a failed or closed connection can be dialled again.
ConnectingIsThreads ==
    \A n \in Node : \A a \in connecting[n] :
        \E e \in Ends : Owner(e) = n /\ Addr(e) = a /\ thread[e] \notin {"none", "gone", "unused"}

\* A node never completes a handshake with itself, whatever address it dialled.
NoSelfPeer ==
    \A n \in Node : \A a \in DOMAIN peers[n] :
        peers[n][a].handshaked => LET c == peers[n][a].end[1] IN c.from # c.to

Connected(e) == HasEntry(e) /\ Table(e)[Addr(e)].handshaked /\ thread[e] = "read"

\* The connections between the nodes of c.
Between(c) == {d \in Conn : {d.from, d.to} = {c.from, c.to}}

\* The nodes of c are two, and the first dials the second.
Dials(c) == c.from # c.to /\ thread[<<c, "out">>] # "unused"

\* Both nodes of c dial each other and have parted: each has dropped, as a
\* duplicate, the connection that the other kept.
Parted(c) ==
    /\ \E d \in Between(c) : Dials(d) /\ d.from = c.to
    /\ \A d \in Between(c) : thread[<<d, "out">>] \in {"unused", "gone"}
                              /\ thread[<<d, "in">>] \in {"unused", "gone"}

\* Two nodes of which one dials the other are in the end connected for good,
\* unless something goes wrong with a connection between them; if they dial
\* each other they may end up with no connection, but never with half of one.
EventuallyPeers ==
    <>[](\A c \in Conn :
             Dials(c) => \/ cut \cap Between(c) # {}
                         \/ \E d \in Between(c) : Connected(<<d, "out">>) /\ Connected(<<d, "in">>)
                         \/ Parted(c))
=============================================================================
