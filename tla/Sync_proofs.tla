----------------------------- MODULE Sync_proofs -----------------------------
(***************************************************************************)
(* Proofs about Peers and Sync, for any number of nodes and connections,   *)
(* any tree of blocks and any situation to start in.                       *)
(***************************************************************************)
EXTENDS Sync, DataTheorems, SequenceTheorems

(***************************************************************************)
(* The tree of blocks.                                                     *)
(***************************************************************************)

\* The chain to b has one block at each height up to its own, and with a block
\* it has its ancestors.
ChainTo(b) ==
    /\ \A a \in Path[b] : /\ a \in Block
                          /\ Height[a] <= Height[b]
                          /\ Height[a] = Height[b] => a = b
                          /\ Path[a] \subseteq Path[b]
                          /\ Parent[a] \in Path[b] \cup {Zero}
    /\ \A a, c \in Path[b] : Height[a] = Height[c] => a = c
    /\ \A h \in 0..Height[b] : \E a \in Path[b] : Height[a] = h

\* Every chain is one: by induction on the height.
LEMMA Chains == \A b \in Block : ChainTo(b)
  <1> DEFINE Good == {h \in Nat : \A b \in Block : Height[b] = h => ChainTo(b)}
  <1>0. /\ Zero \notin Block /\ Path[Zero] = {}
        /\ \A b \in Block : /\ Height[b] \in Nat
                            /\ Parent[b] \in Block \cup {Zero}
                            /\ Path[b] = Path[Parent[b]] \cup {b}
                            /\ Path[b] \subseteq Block
                            /\ Height[b] = IF Parent[b] = Zero THEN 0 ELSE Height[Parent[b]] + 1
    BY TreeAssumption, PathAssumption, SyncAssumption
  <1>1. ASSUME NEW b \in Block, Parent[b] = Zero PROVE ChainTo(b)
    <2>1. Path[b] = {b} /\ Height[b] = 0
      BY <1>0, <1>1
    <2> QED
      BY <1>0, <1>1, <2>1 DEF ChainTo
  <1>2. ASSUME NEW b \in Block, Parent[b] # Zero, ChainTo(Parent[b]) PROVE ChainTo(b)
    <2> DEFINE p == Parent[b]
    <2>1. /\ p \in Block /\ Height[p] \in Nat /\ Height[b] = Height[p] + 1
          /\ Path[b] = Path[p] \cup {b} /\ p \in Path[p] /\ Path[p] \subseteq Block
      BY <1>0, <1>2
    <2>2. /\ \A a \in Path[p] : /\ Height[a] <= Height[p]
                                /\ Path[a] \subseteq Path[p]
                                /\ Parent[a] \in Path[p] \cup {Zero}
          /\ \A a, c \in Path[p] : Height[a] = Height[c] => a = c
          /\ \A h \in 0..Height[p] : \E a \in Path[p] : Height[a] = h
      BY <1>2 DEF ChainTo
    <2> HIDE DEF p
    <2>3. \A a \in Path[p] : Height[a] < Height[b] /\ Height[a] \in Nat
      BY <1>0, <2>1, <2>2
    <2>4. \A a \in Path[b] : /\ a \in Block
                             /\ Height[a] <= Height[b]
                             /\ Height[a] = Height[b] => a = b
                             /\ Path[a] \subseteq Path[b]
      BY <1>0, <2>1, <2>2, <2>3
    <2>5. \A a \in Path[b] : Parent[a] \in Path[b] \cup {Zero}
      BY <2>1, <2>2 DEF p
    <2>6. \A a, c \in Path[b] : Height[a] = Height[c] => a = c
      BY <1>0, <2>1, <2>2, <2>3
    <2>7. \A h \in 0..Height[b] : \E a \in Path[b] : Height[a] = h
      <3>1. \A h \in 0..Height[b] : h \in 0..Height[p] \/ h = Height[b]
        BY <2>1
      <3> QED
        BY <2>1, <2>2, <3>1
    <2> QED
      BY <2>4, <2>5, <2>6, <2>7 DEF ChainTo
  <1>3. 0 \in Good
    <2>1. \A b \in Block : Height[b] = 0 => Parent[b] = Zero
      BY <1>0
    <2> QED
      BY <1>1, <2>1
  <1>4. ASSUME NEW h \in Nat, h \in Good PROVE h + 1 \in Good
    <2>1. ASSUME NEW b \in Block, Height[b] = h + 1 PROVE ChainTo(b)
      <3>1. Parent[b] # Zero
        BY <1>0, <2>1
      <3>2. Parent[b] \in Block /\ Height[Parent[b]] = h
        BY <1>0, <2>1, <3>1
      <3> QED
        BY <1>2, <1>4, <3>1, <3>2
    <2> QED
      BY <2>1
  <1> HIDE DEF Good
  <1>5. \A h \in Nat : h \in Good
    BY <1>3, <1>4, NatSetInduction
  <1> QED
    BY <1>0, <1>5 DEF Good

(***************************************************************************)
(* Types.                                                                  *)
(***************************************************************************)

Message ==
    ({"version", "verack"} \X Node) \cup ({"getblocks"} \X (Block \cup {Zero}))
        \cup ({"inv", "getdata"} \X Seq(Block)) \cup ({"block"} \X Block)
        \cup {<<"getaddr">>} \cup ({"addr"} \X SUBSET Node)
Task == [wide : BOOLEAN, msg : Message]
Messages == Seq(Message)
Tasks == Seq(Task)
Places == {"unused", "none", "gone", "dialling", "backlog", "start", "left", "lost"} \cup InTable
Peer == [end : Ends, handshaked : BOOLEAN, nonce : Node \cup {None}]

TypesInv ==
    /\ DOMAIN peers = Node
    /\ \A n \in Node : \A a \in DOMAIN peers[n] : peers[n][a] \in Peer
    /\ connecting \in [Node -> SUBSET {Listening(n) : n \in Node}]
    /\ thread \in [Ends -> Places]
    /\ inbox \in [Ends -> Messages]
    /\ todo \in [Ends -> Tasks]
    /\ addrs \in [Node -> SUBSET Node]
    /\ have \in [Node -> SUBSET Block] /\ known = have
    /\ tip \in [Node -> Block \cup {Zero}]
    /\ miner \in [Node -> {<<"idle">>} \cup ({"search", "pool", "found"} \X Block)]
    /\ start \in Starts

\* What a message of each kind carries.
LEMMA MessageParts ==
    /\ \A m \in Message :
          /\ m[1] \in {"version", "verack"} => m[2] \in Node
          /\ m[1] = "getblocks" => m[2] \in Block \cup {Zero}
          /\ m[1] \in {"inv", "getdata"} => m[2] \in Seq(Block)
          /\ m[1] = "block" => m[2] \in Block
          /\ m[1] = "addr" => m[2] \in SUBSET Node
    /\ \A n \in Node : <<"version", n>> \in Message /\ <<"verack", n>> \in Message
    /\ \A b \in Block \cup {Zero} : <<"getblocks", b>> \in Message
    /\ \A s \in Seq(Block) : <<"inv", s>> \in Message /\ <<"getdata", s>> \in Message
    /\ \A b \in Block : <<"block", b>> \in Message
    /\ \A s \in SUBSET Node : <<"addr", s>> \in Message
    /\ <<"getaddr">> \in Message
  <1> DEFINE Lists == Seq(Block)
  <1> HIDE DEF Lists
  <1>1. \A m \in Message :
          /\ m[1] \in {"version", "verack"} => m[2] \in Node
          /\ m[1] = "getblocks" => m[2] \in Block \cup {Zero}
          /\ m[1] \in {"inv", "getdata"} => m[2] \in Lists
          /\ m[1] = "block" => m[2] \in Block
          /\ m[1] = "addr" => m[2] \in SUBSET Node
    BY DEF Message, Lists
  <1>2. \A s \in Lists : <<"inv", s>> \in Message /\ <<"getdata", s>> \in Message
    BY DEF Message, Lists
  <1>3. /\ \A n \in Node : <<"version", n>> \in Message /\ <<"verack", n>> \in Message
        /\ \A b \in Block \cup {Zero} : <<"getblocks", b>> \in Message
        /\ \A b \in Block : <<"block", b>> \in Message
        /\ \A s \in SUBSET Node : <<"addr", s>> \in Message
        /\ <<"getaddr">> \in Message
    BY DEF Message
  <1> QED
    BY <1>1, <1>2, <1>3 DEF Lists

\* What is put at the end of a queue, and what is left when its first is taken.
LEMMA Queues ==
    ASSUME NEW X
    PROVE  /\ <<>> \in Seq(X)
           /\ \A x \in X : <<x>> \in Seq(X)
           /\ \A x, y \in X : <<x, y>> \in Seq(X)
           /\ \A q \in Seq(X) :
                 /\ Len(q) \in Nat
                 /\ \A i \in 1..Len(q) : q[i] \in X
                 /\ \A x \in X : /\ Append(q, x) \in Seq(X)
                                 /\ Len(Append(q, x)) = Len(q) + 1
                                 /\ Append(q, x)[Len(q) + 1] = x
                                 /\ \A i \in 1..Len(q) : Append(q, x)[i] = q[i]
                 /\ q # <<>> => /\ Len(q) > 0
                                /\ Head(q) \in X /\ Head(q) = q[1]
                                /\ Tail(q) \in Seq(X) /\ Len(Tail(q)) = Len(q) - 1
                                /\ \A i \in 1..Len(Tail(q)) : Tail(q)[i] = q[i + 1]
  <1>1. ASSUME NEW q \in Seq(X), NEW x \in X
        PROVE  /\ Append(q, x) \in Seq(X)
               /\ Len(Append(q, x)) = Len(q) + 1
               /\ Append(q, x)[Len(q) + 1] = x
               /\ \A i \in 1..Len(q) : Append(q, x)[i] = q[i]
    OBVIOUS
  <1>2. ASSUME NEW q \in Seq(X), q # <<>>
        PROVE  /\ Len(q) > 0
               /\ Head(q) \in X /\ Head(q) = q[1]
               /\ Tail(q) \in Seq(X) /\ Len(Tail(q)) = Len(q) - 1
               /\ \A i \in 1..Len(Tail(q)) : Tail(q)[i] = q[i + 1]
    BY <1>2, EmptySeq, HeadTailProperties
  <1>3. \A q \in Seq(X) : Len(q) \in Nat /\ \A i \in 1..Len(q) : q[i] \in X
    OBVIOUS
  <1>4. <<>> \in Seq(X) /\ (\A x \in X : <<x>> \in Seq(X)) /\ \A x, y \in X : <<x, y>> \in Seq(X)
    OBVIOUS
  <1> QED
    BY <1>1, <1>2, <1>3, <1>4

\* The two ends of a connection; the addresses of an owner's connections differ
\* unless it has dialled the same node with both.
LEMMA EndFacts ==
    /\ \A e \in Ends : /\ Owner(e) \in Node
                       /\ Remote(e) \in Ends /\ Remote(Remote(e)) = e /\ Remote(e) # e
                       /\ e[1] \in Conn /\ e[2] \in {"out", "in"} /\ e = <<e[1], e[2]>>
                       /\ e[2] = "out" => Addr(e) \in {Listening(n) : n \in Node}
                       /\ e[2] = "in" => Addr(e) \notin {Listening(n) : n \in Node}
    /\ \A c \in Conn : /\ c.from \in Node /\ c.to \in Node
                       /\ <<c, "out">> \in Ends /\ <<c, "in">> \in Ends
                       /\ Owner(<<c, "out">>) = c.from /\ Owner(<<c, "in">>) = c.to
                       /\ Addr(<<c, "out">>) = Listening(c.to)
                       /\ Remote(<<c, "out">>) = <<c, "in">> /\ Remote(<<c, "in">>) = <<c, "out">>
    /\ \A d, e \in Ends : d[2] = "in" /\ Addr(d) = Addr(e) => d = e
    /\ \A m, n \in Node : Listening(m) = Listening(n) => m = n
  <1>1. \A c \in Conn : /\ c.from \in Node /\ c.to \in Node /\ c.id \in Nat
                        /\ c = [from |-> c.from, to |-> c.to, id |-> c.id]
    BY ConnAssumption
  <1>2. "listens" \notin Node
    BY ConnAssumption
  <1>3. \A e \in Ends : e[1] \in Conn /\ e[2] \in {"out", "in"} /\ e = <<e[1], e[2]>>
    BY DEF Ends
  <1>4. \A c \in Conn : <<c, "out">> \in Ends /\ <<c, "in">> \in Ends
    BY DEF Ends
  <1>5. \A c \in Conn : <<c.from, c.to, c.id>> \notin {Listening(n) : n \in Node}
    BY <1>1, <1>2 DEF Listening
  <1>6. \A e \in Ends : /\ Owner(e) \in Node
                        /\ Remote(e) \in Ends /\ Remote(Remote(e)) = e /\ Remote(e) # e
                        /\ e[2] = "out" => Addr(e) \in {Listening(n) : n \in Node}
                        /\ e[2] = "in" => Addr(e) \notin {Listening(n) : n \in Node}
    BY <1>1, <1>3, <1>4, <1>5 DEF Owner, Remote, Addr
  <1>7. \A d, e \in Ends : d[2] = "in" /\ Addr(d) = Addr(e) => d = e
    <2> SUFFICES ASSUME NEW d \in Ends, NEW e \in Ends, d[2] = "in", Addr(d) = Addr(e)
                 PROVE  d = e
      OBVIOUS
    <2>1. e[2] = "in"
      BY <1>3, <1>6
    <2>2. d[1] = e[1]
      BY <1>1, <1>3, <2>1 DEF Addr
    <2> QED
      BY <1>3, <2>1, <2>2
  <1>8. \A m, n \in Node : Listening(m) = Listening(n) => m = n
    BY DEF Listening
  <1>9. \A c \in Conn : /\ Owner(<<c, "out">>) = c.from /\ Owner(<<c, "in">>) = c.to
                        /\ Addr(<<c, "out">>) = Listening(c.to)
                        /\ Remote(<<c, "out">>) = <<c, "in">> /\ Remote(<<c, "in">>) = <<c, "out">>
    BY DEF Owner, Addr, Remote
  <1> QED
    BY <1>1, <1>3, <1>4, <1>6, <1>7, <1>8, <1>9

(***************************************************************************)
(* Which steps change what.                                                *)
(***************************************************************************)

\* The steps that put something into a queue or take something from one.
QueueStep(e) ==
    \/ (Hello(e) \/ StoreNonce(e)) /\ UNCHANGED syncVars
    \/ SyncStep(e)

\* All others leave the queues alone.
LEMMA QueueSteps ==
    [SyncNext]_vars => \/ UNCHANGED <<inbox, todo>>
                       \/ \E e \in Ends : QueueStep(e)
                       \/ \E n \in Node : AnnounceFound(n)
  <1> SUFFICES ASSUME [SyncNext]_vars, ~UNCHANGED <<inbox, todo>>,
                      ~(\E e \in Ends : QueueStep(e)),
                      ~(\E n \in Node : AnnounceFound(n))
               PROVE  FALSE
    OBVIOUS
  <1>1. CASE ConnNext /\ UNCHANGED syncVars
    <2>1. UNCHANGED inbox \/ \E e \in Ends : Hello(e) \/ StoreNonce(e)
      BY <1>1 DEF ConnNext, ConnStep, Dial, Skip, Established, ConnectFails, Listen, Register,
                  CheckVersion, ReadEnds, LeaveTable, LeaveConnecting, ReadTimesOut, WireError
    <2> QED
      BY <1>1, <2>1 DEF QueueStep, syncVars
  <1>2. CASE \E e \in Ends : SyncStep(e)
    BY <1>2 DEF QueueStep
  <1>3. CASE \E n \in Node : \/ \E m \in Node : WindowMoves(n, m)
                             \/ \E b \in Block : TakeTemplate(n, b) \/ FetchTemplate(n, b)
                             \/ FindBlock(n) \/ SubmitBlock(n) \/ RejectBlock(n)
    BY <1>3 DEF WindowMoves, TakeTemplate, FetchTemplate, Template, FindBlock, SubmitBlock,
                RejectBlock, peerVars
  <1> QED
    BY <1>1, <1>2, <1>3 DEF SyncNext, vars, peerVars, syncVars

\* A thread in its table's keeping goes on, or is lost on a bad frame; entries
\* keep their connections.
Kept ==
    \A n \in Node :
        /\ DOMAIN peers'[n] = DOMAIN peers[n]
        /\ \A a \in DOMAIN peers[n] : peers'[n][a].end = peers[n][a].end
Inside(e) ==
    /\ thread[e] \in InTable
    /\ \E place \in InTable \cup {"lost"} : Goto(e, place)
    /\ Kept /\ UNCHANGED <<connecting, addrs>>


\* The steps by which a connection begins and ends.
Opens(c) == Dial(c) \/ Skip(c) \/ Established(c) \/ ConnectFails(c) \/ Listen(c)
Moves(e) == Register(e) \/ LeaveTable(e) \/ LeaveConnecting(e)

\* An entry that is replaced by one for the same connection.
LEMMA EntryKept ==
    ASSUME TypesInv, NEW e \in Ends, HasEntry(e),
           NEW p, p.end = Table(e)[Addr(e)].end, SetEntry(e, p)
    PROVE  Kept
  <1>1. DOMAIN peers = Node /\ Owner(e) \in Node
    BY EndFacts DEF TypesInv
  <1>2. \A n \in Node : peers'[n] = IF n = Owner(e)
            THEN [a \in DOMAIN peers[n] \cup {Addr(e)} |-> IF a = Addr(e) THEN p ELSE peers[n][a]]
            ELSE peers[n]
    BY <1>1 DEF SetEntry
  <1> QED
    BY <1>1, <1>2 DEF Kept, HasEntry, Table

\* What a step does to the table, the threads and the addresses.
LEMMA TableSteps ==
    ASSUME TypesInv, TableIsThreads
    PROVE  [SyncNext]_vars => \/ UNCHANGED <<peers, thread, connecting, addrs>>
                              \/ \E e \in Ends : Inside(e)
                              \/ \E e \in Ends : ReadAddr(e)
                              \/ \E c \in Conn : Opens(c) /\ UNCHANGED addrs
                              \/ \E e \in Ends : Moves(e) /\ UNCHANGED addrs
  <1> SUFFICES ASSUME [SyncNext]_vars, ~UNCHANGED <<peers, thread, connecting, addrs>>,
                      ~(\E e \in Ends : Inside(e)),
                      ~(\E e \in Ends : ReadAddr(e)),
                      ~(\E c \in Conn : Opens(c) /\ UNCHANGED addrs),
                      ~(\E e \in Ends : Moves(e) /\ UNCHANGED addrs)
               PROVE  FALSE
    OBVIOUS
  <1>0. thread \in [Ends -> Places]
    BY DEF TypesInv
  <1>2. peers' = peers => Kept
    BY DEF Kept
  <1>3. \A e \in Ends : thread[e] \in InTable => HasEntry(e) /\ Table(e)[Addr(e)].end = e
    BY DEF TableIsThreads
  <1>4. CASE ConnNext /\ UNCHANGED syncVars
    <2>1. UNCHANGED addrs
      BY <1>4 DEF syncVars
    <2>2. \E e \in Ends : \/ Hello(e) \/ CheckVersion(e) \/ StoreNonce(e)
                          \/ ReadEnds(e) \/ ReadTimesOut(e) \/ WireError(e)
      BY <1>4, <2>1 DEF ConnNext, ConnStep, Opens, Moves
    <2>3. ASSUME NEW e \in Ends, StoreNonce(e) PROVE Inside(e)
      <3>1. thread[e] \in InTable /\ Goto(e, "read") /\ UNCHANGED <<connecting, addrs>>
        BY <2>1, <2>3 DEF StoreNonce, InTable
      <3>2. Kept
        <4>1. HasEntry(e)
          BY <1>3, <3>1
        <4> DEFINE p == [Table(e)[Addr(e)] EXCEPT !.nonce = Head(inbox[e])[2]]
        <4>2. SetEntry(e, p)
          BY <2>3, <4>1 DEF StoreNonce
        <4>3. p.end = Table(e)[Addr(e)].end
          BY <4>1, EndFacts DEF TypesInv, HasEntry, Table, Peer
        <4> QED
          BY <4>1, <4>2, <4>3, EntryKept
      <3> QED
        BY <3>1, <3>2 DEF Inside, InTable
    <2>4. ASSUME NEW e \in Ends,
                 Hello(e) \/ CheckVersion(e) \/ ReadEnds(e) \/ ReadTimesOut(e) \/ WireError(e)
          PROVE  Inside(e)
      <3>1. /\ UNCHANGED <<peers, connecting>> /\ thread[e] \in InTable
            /\ \E place \in InTable \cup {"lost"} : Goto(e, place)
        BY <2>4 DEF Hello, CheckVersion, ReadEnds, ReadTimesOut, WireError, Reads, InTable
      <3> QED
        BY <1>2, <2>1, <3>1 DEF Inside
    <2> QED
      BY <2>2, <2>3, <2>4
  <1>5. CASE \E e \in Ends : SyncStep(e)
    <2>1. PICK e \in Ends : SyncStep(e) /\ ~ReadAddr(e)
      BY <1>5
    <2>2. CASE SyncVerack(e)
      <3>1. /\ thread[e] \in InTable /\ Goto(e, "tip") /\ UNCHANGED <<connecting, addrs>>
        BY <2>2 DEF SyncVerack, HandshakeDone, Reads, InTable, syncVars
      <3>2. Kept
        <4>1. HasEntry(e)
          BY <1>3, <3>1
        <4> DEFINE p == [Table(e)[Addr(e)] EXCEPT !.handshaked = TRUE]
        <4>2. SetEntry(e, p)
          BY <2>2, <4>1 DEF SyncVerack, HandshakeDone
        <4>3. p.end = Table(e)[Addr(e)].end
          BY <4>1, EndFacts DEF TypesInv, HasEntry, Table, Peer
        <4> QED
          BY <4>1, <4>2, <4>3, EntryKept
      <3> QED
        BY <3>1, <3>2 DEF Inside, InTable
    <2>3. CASE AskPeer(e) \/ SendNext(e)
      <3>1. /\ UNCHANGED <<peers, connecting, addrs>> /\ thread[e] \in InTable
            /\ \E place \in InTable \cup {"lost"} : Goto(e, place)
        BY <2>3 DEF AskPeer, SendNext, Untouched, InTable
      <3> QED
        BY <1>2, <3>1 DEF Inside
    <2>4. CASE ReadGetBlocks(e) \/ ReadInv(e) \/ ReadGetData(e) \/ AcceptBlock(e) \/ DropBlock(e)
               \/ ReadGetAddr(e)
      <3>1. /\ UNCHANGED <<peers, connecting, addrs>> /\ thread[e] \in InTable
            /\ \E out : Answer(e, out)
        BY <2>4 DEF ReadGetBlocks, ReadInv, ReadGetData, AcceptBlock, DropBlock, ReadGetAddr,
                    Reads, Untouched, InTable
      <3>2. \E place \in InTable \cup {"lost"} : Goto(e, place)
        BY <3>1 DEF Answer, InTable
      <3> QED
        BY <1>2, <3>1, <3>2 DEF Inside
    <2> QED
      BY <2>1, <2>2, <2>3, <2>4 DEF SyncStep
  <1>6. CASE \E n \in Node : \/ \E m \in Node : WindowMoves(n, m)
                             \/ \E b \in Block : TakeTemplate(n, b) \/ FetchTemplate(n, b)
                             \/ FindBlock(n) \/ AnnounceFound(n) \/ SubmitBlock(n) \/ RejectBlock(n)
    BY <1>6 DEF WindowMoves, TakeTemplate, FetchTemplate, Template, FindBlock, AnnounceFound,
                SubmitBlock, RejectBlock, peerVars, Untouched
  <1> QED
    BY <1>4, <1>5, <1>6 DEF SyncNext, vars, peerVars, syncVars

(***************************************************************************)
(* Types are kept.                                                         *)
(***************************************************************************)

\* An entry written by SetEntry is in the table and the others stay.
LEMMA SetEntryTypes ==
    ASSUME TypesInv, NEW e \in Ends, NEW p \in Peer, SetEntry(e, p)
    PROVE  /\ DOMAIN peers' = Node
           /\ \A n \in Node : \A a \in DOMAIN peers'[n] : peers'[n][a] \in Peer
  <1>1. DOMAIN peers = Node /\ Owner(e) \in Node
    BY EndFacts DEF TypesInv
  <1>2. \A n \in Node : peers'[n] = IF n = Owner(e)
            THEN [a \in DOMAIN peers[n] \cup {Addr(e)} |-> IF a = Addr(e) THEN p ELSE peers[n][a]]
            ELSE peers[n]
    BY <1>1 DEF SetEntry
  <1>3. DOMAIN peers' = Node
    BY <1>1 DEF SetEntry
  <1> HIDE DEF Peer
  <1>4. ASSUME NEW n \in Node, NEW a \in DOMAIN peers'[n] PROVE peers'[n][a] \in Peer
    <2>1. CASE n = Owner(e)
      <3>1. a \in DOMAIN peers[n] \cup {Addr(e)}
        BY <1>2, <1>4, <2>1
      <3>2. peers'[n][a] = IF a = Addr(e) THEN p ELSE peers[n][a]
        BY <1>2, <2>1, <3>1
      <3> QED
        BY <3>1, <3>2 DEF TypesInv
    <2>2. CASE n # Owner(e)
      BY <1>2, <1>4, <2>2 DEF TypesInv
    <2> QED
      BY <2>1, <2>2
  <1> QED
    BY <1>3, <1>4

\* What is on the way: a version carries the nonce of the other side, a verack
\* comes only from another node, and a thread sends as long as it has to.
MsgInv ==
    \A e \in Ends :
        /\ \A i \in 1..Len(inbox[e]) :
              /\ inbox[e][i][1] = "version" => inbox[e][i][2] = Owner(Remote(e))
              /\ inbox[e][i][1] = "verack" => Owner(e) # Owner(Remote(e))
        /\ \A i \in 1..Len(todo[e]) : todo[e][i].msg[1] \notin {"version", "verack"}
        /\ thread[e] = "checked" => /\ inbox[e] # <<>>
                                    /\ Head(inbox[e])[1] = "version"
                                    /\ Owner(e) # Owner(Remote(e))
        /\ thread[e] = "send" <=> todo[e] # <<>>

\* The table of a node holds peers.
LEMMA PeersTypes ==
    ASSUME TypesInv, TableIsThreads, MsgInv, [SyncNext]_vars
    PROVE  /\ DOMAIN peers' = Node
           /\ \A n \in Node : \A a \in DOMAIN peers'[n] : peers'[n][a] \in Peer
  <1>0. /\ DOMAIN peers = Node
        /\ \A n \in Node : \A a \in DOMAIN peers[n] : peers[n][a] \in Peer
        /\ inbox \in [Ends -> Messages]
    BY DEF TypesInv
  <1>1. ASSUME NEW e \in Ends, HasEntry(e)
        PROVE  /\ [Table(e)[Addr(e)] EXCEPT !.handshaked = TRUE] \in Peer
               /\ \A m \in Node : [Table(e)[Addr(e)] EXCEPT !.nonce = m] \in Peer
    <2>1. Table(e)[Addr(e)] \in Peer
      BY <1>0, <1>1, EndFacts DEF HasEntry, Table
    <2> QED
      BY <2>1 DEF Peer
  <1>2. ASSUME NEW e \in Ends, Register(e)
        PROVE  \E p \in Peer : SetEntry(e, p)
    <2>1. NewPeer(e) \in Peer
      BY DEF NewPeer, Peer
    <2> QED
      BY <1>2, <2>1 DEF Register
  <1>3. ASSUME NEW e \in Ends, SyncVerack(e), peers' # peers
        PROVE  \E p \in Peer : SetEntry(e, p)
    BY <1>1, <1>3 DEF SyncVerack, HandshakeDone
  <1>4. ASSUME NEW e \in Ends, StoreNonce(e), peers' # peers
        PROVE  \E p \in Peer : SetEntry(e, p)
    <2>1. inbox[e] \in Seq(Message) /\ inbox[e] # <<>> /\ Head(inbox[e])[1] = "version"
      BY <1>0, <1>4 DEF MsgInv, StoreNonce, Messages
    <2>2. Head(inbox[e]) \in Message
      BY <2>1, Queues
    <2>3. Head(inbox[e])[2] \in Node
      BY <2>1, <2>2, MessageParts
    <2> QED
      BY <1>1, <1>4, <2>3 DEF StoreNonce
  <1>5. ASSUME NEW e \in Ends, LeaveTable(e)
        PROVE  /\ DOMAIN peers' = Node
               /\ \A n \in Node : \A a \in DOMAIN peers'[n] : peers'[n][a] \in Peer
    <2>1. \A n \in Node : peers'[n] = IF n = Owner(e)
              THEN [a \in DOMAIN peers[n] \ {Addr(e)} |-> peers[n][a]] ELSE peers[n]
      BY <1>0, <1>5 DEF LeaveTable, Restrict
    <2>2. DOMAIN peers' = Node
      BY <1>0, <1>5 DEF LeaveTable
    <2>3. ASSUME NEW n \in Node, NEW a \in DOMAIN peers'[n]
          PROVE  a \in DOMAIN peers[n] /\ peers'[n][a] = peers[n][a]
      <3>1. CASE n = Owner(e)
        <4>1. a \in DOMAIN peers[n] \ {Addr(e)}
          BY <2>1, <2>3, <3>1
        <4> QED
          BY <2>1, <3>1, <4>1
      <3>2. CASE n # Owner(e)
        BY <2>1, <2>3, <3>2
      <3> QED
        BY <3>1, <3>2
    <2> QED
      BY <1>0, <2>2, <2>3
  <1> HIDE DEF Peer
  <1>6. ASSUME NEW e \in Ends, NEW p \in Peer, SetEntry(e, p)
        PROVE  /\ DOMAIN peers' = Node
               /\ \A n \in Node : \A a \in DOMAIN peers'[n] : peers'[n][a] \in Peer
    BY <1>6, SetEntryTypes
  <1>7. SUFFICES ASSUME peers' # peers,
                        ~(\E e \in Ends : Register(e) \/ SyncVerack(e) \/ StoreNonce(e)
                                          \/ LeaveTable(e))
                 PROVE  FALSE
    BY <1>0, <1>2, <1>3, <1>4, <1>5, <1>6
  <1>8. CASE ConnNext /\ UNCHANGED syncVars
    BY <1>7, <1>8 DEF ConnNext, ConnStep, Dial, Skip, Established, ConnectFails, Listen, Hello,
           CheckVersion, ReadEnds, LeaveConnecting, ReadTimesOut, WireError
  <1>9. CASE \E e \in Ends : SyncStep(e)
    BY <1>7, <1>9 DEF SyncStep, AskPeer, ReadGetBlocks, ReadInv, ReadGetData, AcceptBlock,
           DropBlock, SendNext, ReadGetAddr, ReadAddr, Untouched
  <1>10. CASE \E n \in Node : \/ \E m \in Node : WindowMoves(n, m)
                              \/ \E b \in Block : TakeTemplate(n, b) \/ FetchTemplate(n, b)
                              \/ FindBlock(n) \/ AnnounceFound(n) \/ SubmitBlock(n) \/ RejectBlock(n)
    BY <1>7, <1>10 DEF WindowMoves, TakeTemplate, FetchTemplate, Template, FindBlock, AnnounceFound,
                SubmitBlock, RejectBlock, peerVars, Untouched
  <1> QED
    BY <1>7, <1>8, <1>9, <1>10 DEF SyncNext, vars, peerVars

\* The threads, the addresses that are dialled and those that are known.
LEMMA ThreadTypes ==
    ASSUME TypesInv, TableIsThreads, [SyncNext]_vars
    PROVE  /\ connecting' \in [Node -> SUBSET {Listening(n) : n \in Node}]
           /\ thread' \in [Ends -> Places]
           /\ addrs' \in [Node -> SUBSET Node]
           /\ start' \in Starts
  <1>0. /\ connecting \in [Node -> SUBSET {Listening(n) : n \in Node}]
        /\ thread \in [Ends -> Places]
        /\ addrs \in [Node -> SUBSET Node]
        /\ start \in Starts
        /\ inbox \in [Ends -> Messages]
    BY DEF TypesInv
  <1>1. start' \in Starts
    <2>1. start' = start
      BY DEF SyncNext, vars, syncVars, SyncStep, SyncVerack, AskPeer, ReadGetBlocks, ReadInv,
             ReadGetData, AcceptBlock, DropBlock, SendNext, ReadGetAddr, ReadAddr, Untouched,
             WindowMoves, TakeTemplate, FetchTemplate, Template, FindBlock, AnnounceFound,
             SubmitBlock, RejectBlock
    <2> QED
      BY <1>0, <2>1
  <1>2. CASE UNCHANGED <<peers, thread, connecting, addrs>>
    BY <1>0, <1>1, <1>2
  <1>3. CASE \E e \in Ends : Inside(e)
    BY <1>0, <1>1, <1>3 DEF Inside, Goto, Places
  <1>4. ASSUME NEW e \in Ends, ReadAddr(e)
        PROVE  /\ connecting' \in [Node -> SUBSET {Listening(n) : n \in Node}]
               /\ thread' \in [Ends -> Places]
               /\ addrs' \in [Node -> SUBSET Node]
    <2>1. Payload(e) \in SUBSET Node
      <3>1. inbox[e] \in Seq(Message) /\ inbox[e] # <<>> /\ Head(inbox[e])[1] = "addr"
        BY <1>0, <1>4 DEF ReadAddr, Reads, Messages
      <3> QED
        BY <3>1, Queues, MessageParts DEF Payload
    <2>2. connecting' = connecting
      BY <1>4 DEF ReadAddr, Untouched
    <2>3. thread' \in [Ends -> Places]
      BY <1>0, <1>4 DEF ReadAddr, Places
    <2>4. addrs' \in [Node -> SUBSET Node]
      BY <1>0, <1>4, <2>1 DEF ReadAddr
    <2> QED
      BY <1>0, <2>2, <2>3, <2>4
  <1>5. ASSUME NEW c \in Conn, Opens(c), UNCHANGED addrs
        PROVE  /\ connecting' \in [Node -> SUBSET {Listening(n) : n \in Node}]
               /\ thread' \in [Ends -> Places]
    <2>1. thread' \in [Ends -> Places]
      BY <1>0, <1>5, EndFacts DEF Opens, Dial, Skip, Established, ConnectFails, Listen, Goto, Places
    <2>2. connecting' \in [Node -> SUBSET {Listening(n) : n \in Node}]
      <3> DEFINE All == {Listening(n) : n \in Node}
      <3>1. Listening(c.to) \in All /\ c.from \in Node
        BY EndFacts
      <3>2. connecting \in [Node -> SUBSET All]
        BY <1>0
      <3> HIDE DEF All
      <3>3. connecting' \in [Node -> SUBSET All]
        BY <1>5, <3>1, <3>2 DEF Opens, Dial, Skip, Established, ConnectFails, Listen
      <3> QED
        BY <3>3 DEF All
    <2> QED
      BY <2>1, <2>2
  <1>6. ASSUME NEW e \in Ends, Moves(e), UNCHANGED addrs
        PROVE  /\ connecting' \in [Node -> SUBSET {Listening(n) : n \in Node}]
               /\ thread' \in [Ends -> Places]
    <2>1. thread' \in [Ends -> Places]
      BY <1>0, <1>6 DEF Moves, Register, LeaveTable, LeaveConnecting, Goto, Places, InTable
    <2>2. connecting' \in [Node -> SUBSET {Listening(n) : n \in Node}]
      BY <1>0, <1>6 DEF Moves, Register, LeaveTable, LeaveConnecting
    <2> QED
      BY <2>1, <2>2
  <1> QED
    BY <1>0, <1>1, <1>2, <1>3, <1>4, <1>5, <1>6, TableSteps

\* A block that is taken into a store.
LEMMA TakeTypes ==
    ASSUME TypesInv, NEW n \in Node, NEW b \in Block, Take(n, b)
    PROVE  /\ have' \in [Node -> SUBSET Block] /\ known' = have'
           /\ tip' \in [Node -> Block \cup {Zero}]
  <1>1. /\ have \in [Node -> SUBSET Block] /\ known = have
        /\ tip \in [Node -> Block \cup {Zero}]
    BY DEF TypesInv
  <1>2. PICK best \in have[n] \cup {b} : tip' = [tip EXCEPT ![n] = best]
    BY DEF Take
  <1>3. best \in Block
    BY <1>1, <1>2
  <1> QED
    BY <1>1, <1>2, <1>3 DEF Take

\* The store of each node and its miner.
LEMMA StoreTypes ==
    ASSUME TypesInv, [SyncNext]_vars
    PROVE  /\ have' \in [Node -> SUBSET Block] /\ known' = have'
           /\ tip' \in [Node -> Block \cup {Zero}]
           /\ miner' \in [Node -> {<<"idle">>} \cup ({"search", "pool", "found"} \X Block)]
  <1>0. /\ have \in [Node -> SUBSET Block] /\ known = have
        /\ tip \in [Node -> Block \cup {Zero}]
        /\ miner \in [Node -> {<<"idle">>} \cup ({"search", "pool", "found"} \X Block)]
        /\ inbox \in [Ends -> Messages]
    BY DEF TypesInv
  <1>1. CASE UNCHANGED <<have, known, tip, miner>>
    BY <1>0, <1>1
  <1>2. ASSUME NEW e \in Ends, AcceptBlock(e)
        PROVE  /\ have' \in [Node -> SUBSET Block] /\ known' = have'
               /\ tip' \in [Node -> Block \cup {Zero}]
               /\ miner' = miner
    <2>1. Payload(e) \in Block
      <3>1. inbox[e] \in Seq(Message) /\ inbox[e] # <<>> /\ Head(inbox[e])[1] = "block"
        BY <1>0, <1>2 DEF AcceptBlock, Reads, Messages
      <3> QED
        BY <3>1, Queues, MessageParts DEF Payload
    <2> QED
      BY <1>2, <2>1, TakeTypes, EndFacts DEF AcceptBlock
  <1>3. ASSUME NEW n \in Node, FindBlock(n) \/ SubmitBlock(n)
        PROVE  /\ have' \in [Node -> SUBSET Block] /\ known' = have'
               /\ tip' \in [Node -> Block \cup {Zero}]
               /\ miner' \in [Node -> {<<"idle">>} \cup ({"search", "pool", "found"} \X Block)]
    <2>1. miner[n][2] \in Block
      BY <1>0, <1>3 DEF FindBlock, SubmitBlock
    <2>2. Take(n, miner[n][2])
      BY <1>3 DEF FindBlock, SubmitBlock
    <2>3. miner' \in [Node -> {<<"idle">>} \cup ({"search", "pool", "found"} \X Block)]
      BY <1>0, <1>3, <2>1 DEF FindBlock, SubmitBlock
    <2> QED
      BY <2>1, <2>2, <2>3, TakeTypes
  <1>4. ASSUME NEW n \in Node,
               \/ AnnounceFound(n) \/ RejectBlock(n)
               \/ \E b \in Block : TakeTemplate(n, b) \/ FetchTemplate(n, b)
        PROVE  /\ have' = have /\ known' = known /\ tip' = tip
               /\ miner' \in [Node -> {<<"idle">>} \cup ({"search", "pool", "found"} \X Block)]
    BY <1>0, <1>4 DEF AnnounceFound, RejectBlock, TakeTemplate, FetchTemplate, Template
  <1>5. CASE ConnNext /\ UNCHANGED syncVars
    BY <1>0, <1>5 DEF syncVars
  <1>6. ASSUME NEW e \in Ends, SyncStep(e), ~AcceptBlock(e)
        PROVE  UNCHANGED <<have, known, tip, miner>>
    BY <1>6 DEF SyncStep, SyncVerack, AskPeer, ReadGetBlocks, ReadInv,
             ReadGetData, DropBlock, SendNext, ReadGetAddr, ReadAddr, syncVars
  <1>7. ASSUME NEW n \in Node, \E m \in Node : WindowMoves(n, m)
        PROVE  UNCHANGED <<have, known, tip, miner>>
    BY <1>7 DEF WindowMoves
  <1>8. CASE UNCHANGED vars
    BY <1>0, <1>8 DEF vars, syncVars
  <1> QED
    BY <1>0, <1>1, <1>2, <1>3, <1>4, <1>5, <1>6, <1>7, <1>8 DEF SyncNext

\* The best chain of a node, block by block.
LEMMA BestChain ==
    ASSUME TypesInv, NEW n \in Node, tip[n] # Zero, NEW h \in 0..Height[tip[n]]
    PROVE  /\ OnBestChain(n, h) \in Path[tip[n]] /\ OnBestChain(n, h) \in Block
           /\ Height[OnBestChain(n, h)] = h
           /\ h = 0 => Parent[OnBestChain(n, h)] = Zero
           /\ h > 0 => Parent[OnBestChain(n, h)] = OnBestChain(n, h - 1)
  <1>0. tip[n] \in Block
    BY DEF TypesInv
  <1>1. /\ \A a \in Path[tip[n]] : a \in Block /\ Parent[a] \in Path[tip[n]] \cup {Zero}
        /\ \A a, c \in Path[tip[n]] : Height[a] = Height[c] => a = c
        /\ \A i \in 0..Height[tip[n]] : \E a \in Path[tip[n]] : Height[a] = i
    BY <1>0, Chains DEF ChainTo
  <1>2. \A i \in 0..Height[tip[n]] : /\ OnBestChain(n, i) \in Path[tip[n]]
                                     /\ Height[OnBestChain(n, i)] = i
    BY <1>1 DEF OnBestChain
  <1> DEFINE b == OnBestChain(n, h)
  <1>3. b \in Path[tip[n]] /\ b \in Block /\ Height[b] = h
    BY <1>1, <1>2
  <1> HIDE DEF b
  <1>4. /\ Height[b] = IF Parent[b] = Zero THEN 0 ELSE Height[Parent[b]] + 1
        /\ \A a \in Block : Height[a] \in Nat
    BY <1>3, SyncAssumption, TreeAssumption
  <1>5. h = 0 => Parent[b] = Zero
    <2>1. ASSUME Parent[b] # Zero PROVE h # 0
      <3>1. Parent[b] \in Block /\ h = Height[Parent[b]] + 1
        BY <1>1, <1>3, <1>4, <2>1
      <3>2. Height[Parent[b]] \in Nat
        BY <1>4, <3>1
      <3> QED
        BY <3>1, <3>2
    <2> QED
      BY <2>1
  <1>6. ASSUME h > 0 PROVE Parent[b] = OnBestChain(n, h - 1)
    <2>1. Parent[b] \in Path[tip[n]] /\ Height[Parent[b]] = h - 1
      BY <1>1, <1>3, <1>4, <1>6
    <2>2. h - 1 \in 0..Height[tip[n]]
      BY <1>0, <1>6, TreeAssumption
    <2> QED
      BY <1>1, <1>2, <2>1, <2>2
  <1> QED
    BY <1>3, <1>5, <1>6 DEF b

\* The answer to a locator: a part of the best chain, from the first height on.
LEMMA InvParts ==
    ASSUME TypesInv, NEW n \in Node, NEW locator \in Block \cup {Zero}
    PROVE  /\ FirstHeight(n, locator) \in Nat
           /\ BlockInv(n, locator) \in Seq(Block)
           /\ \A i \in 1..Len(BlockInv(n, locator)) :
                 /\ tip[n] # Zero
                 /\ FirstHeight(n, locator) + i - 1 \in 0..Height[tip[n]]
                 /\ BlockInv(n, locator)[i] = OnBestChain(n, FirstHeight(n, locator) + i - 1)
  <1> DEFINE from == FirstHeight(n, locator)
             count == CountFrom(n, from)
             most == IF count < MaxSyncInv THEN count ELSE MaxSyncInv
  <1>0. MaxSyncInv \in Nat \ {0} /\ tip[n] \in Block \cup {Zero} /\ have[n] \in SUBSET Block
    BY SyncAssumption DEF TypesInv
  <1>1. from \in Nat
    BY <1>0, TreeAssumption DEF FirstHeight
  <1>2. tip[n] # Zero => Height[tip[n]] \in Nat
    BY <1>0, TreeAssumption
  <1> HIDE DEF from
  <1>3. count \in Int /\ (count > 0 => tip[n] # Zero /\ count = Height[tip[n]] + 1 - from)
    BY <1>1, <1>2 DEF CountFrom
  <1> HIDE DEF count
  <1>4. most \in Int /\ most <= count
    BY <1>0, <1>3
  <1> HIDE DEF most
  <1>5. \A i \in 1..most : /\ tip[n] # Zero
                           /\ from + i - 1 \in 0..Height[tip[n]]
    BY <1>1, <1>2, <1>3, <1>4
  <1>6. \A i \in 1..most : OnBestChain(n, from + i - 1) \in Block
    BY <1>5, BestChain
  <1>7. BlockInv(n, locator) = [i \in 1..most |-> OnBestChain(n, from + i - 1)]
    BY DEF BlockInv, from, count, most
  <1> DEFINE inv == BlockInv(n, locator)
  <1> HIDE DEF inv
  <1>8. inv \in Seq(Block)
    <2>0. inv = [i \in 1..most |-> OnBestChain(n, from + i - 1)]
      BY <1>7 DEF inv
    <2>1. CASE most < 1
      <3>1. 1..most = {}
        BY <1>4, <2>1
      <3>2. inv = <<>>
        BY <2>0, <3>1
      <3> QED
        BY <3>2, Queues
    <2>2. CASE most >= 1
      BY <1>4, <1>6, <2>0, <2>2
    <2> QED
      BY <1>4, <2>1, <2>2
  <1>9. DOMAIN inv = 1..most /\ \A i \in 1..most : inv[i] = OnBestChain(n, from + i - 1)
    BY <1>7 DEF inv
  <1>10. 1..Len(inv) = 1..most
    BY <1>8, <1>9
  <1> QED
    BY <1>1, <1>5, <1>8, <1>9, <1>10 DEF from, inv

\* Tasks.
LEMMA TaskTypes ==
    /\ \A m \in Message : Reply(m) \in Task /\ Reply(m).msg = m /\ ~Reply(m).wide
    /\ \A b \in Block : /\ Relay(b) \in Task /\ Relay(b).wide /\ Relay(b).msg = <<"inv", <<b>>>>
    /\ \A t \in Task : t.msg \in Message /\ t.wide \in BOOLEAN
  <1>1. \A b \in Block : <<b>> \in Seq(Block)
    OBVIOUS
  <1>2. \A b \in Block : <<"inv", <<b>>>> \in Message
    BY <1>1, MessageParts
  <1> HIDE DEF Message
  <1> QED
    BY <1>2 DEF Reply, Relay, Announcement, Task

\* What the handler of a message may leave to be sent.
Answers(e) ==
    \/ ReadGetBlocks(e) \/ ReadInv(e) \/ ReadGetData(e) \/ AcceptBlock(e) \/ DropBlock(e)
    \/ ReadGetAddr(e)

\* The message that is answered.
LEMMA FirstMessage ==
    ASSUME TypesInv, NEW e \in Ends, inbox[e] # <<>>
    PROVE  /\ Head(inbox[e]) \in Message /\ Head(inbox[e]) = inbox[e][1]
           /\ Len(inbox[e]) \in Nat /\ Len(inbox[e]) > 0
           /\ Tail(inbox[e]) \in Messages
           /\ Len(Tail(inbox[e])) = Len(inbox[e]) - 1
           /\ \A i \in 1..Len(Tail(inbox[e])) : Tail(inbox[e])[i] = inbox[e][i + 1]
  <1>1. inbox[e] \in Seq(Message)
    BY DEF TypesInv, Messages
  <1> QED
    BY <1>1, Queues DEF Messages

\* Answers are tasks, and a version or a verack is none.
LEMMA AnswerTypes ==
    ASSUME TypesInv, NEW e \in Ends, Answers(e)
    PROVE  /\ thread[e] = "read" /\ inbox[e] # <<>>
           /\ \E out \in Tasks :
                 /\ Answer(e, out)
                 /\ \A i \in 1..Len(out) : out[i].msg[1] \notin {"version", "verack"}
  <1> DEFINE Fine(out) == /\ out \in Seq(Task)
                          /\ \A i \in 1..Len(out) : out[i].msg[1] \notin {"version", "verack"}
  <1>1. thread[e] = "read" /\ inbox[e] # <<>>
    BY DEF Answers, ReadGetBlocks, ReadInv, ReadGetData, AcceptBlock, DropBlock, ReadGetAddr, Reads
  <1>2. Head(inbox[e]) \in Message /\ Owner(e) \in Node
    BY <1>1, FirstMessage, EndFacts
  <1>3. ASSUME NEW t \in Task, t.msg[1] \notin {"version", "verack"} PROVE Fine(<<t>>)
    BY <1>3
  <1>4. Fine(<<>>)
    OBVIOUS
  <1>5. ASSUME NEW m \in Message, m[1] \notin {"version", "verack"} PROVE Fine(<<Reply(m)>>)
    BY <1>3, <1>5, TaskTypes
  <1> HIDE DEF Fine
  <1>6. CASE ReadGetBlocks(e)
    <2>1. Payload(e) \in Block \cup {Zero}
      BY <1>2, <1>6, MessageParts DEF ReadGetBlocks, Reads, Payload
    <2> DEFINE inv == BlockInv(Owner(e), Payload(e))
    <2>2. inv \in Seq(Block)
      BY <1>2, <2>1, InvParts
    <2>3. Answer(e, IF inv = <<>> THEN <<>> ELSE <<Reply(<<"inv", inv>>)>>)
      BY <1>6 DEF ReadGetBlocks
    <2> HIDE DEF inv
    <2>4. <<"inv", inv>> \in Message /\ <<"inv", inv>>[1] \notin {"version", "verack"}
      BY <2>2, MessageParts
    <2> QED
      BY <1>1, <1>4, <1>5, <2>3, <2>4 DEF Fine, Tasks
  <1>7. CASE ReadInv(e)
    <2>1. Payload(e) \in Seq(Block)
      BY <1>2, <1>7, MessageParts DEF ReadInv, Reads, Payload
    <2> DEFINE want == Selected(Payload(e), Block \ known[Owner(e)])
    <2>2. want \in Seq(Block)
      BY <2>1, SelectedProperties
    <2>3. Answer(e, IF want = <<>> THEN <<>> ELSE <<Reply(<<"getdata", want>>)>>)
      BY <1>7 DEF ReadInv
    <2> HIDE DEF want
    <2>4. <<"getdata", want>> \in Message /\ <<"getdata", want>>[1] \notin {"version", "verack"}
      BY <2>2, MessageParts
    <2> QED
      BY <1>1, <1>4, <1>5, <2>3, <2>4 DEF Fine, Tasks
  <1>8. CASE ReadGetData(e)
    <2>1. Payload(e) \in Seq(Block)
      BY <1>2, <1>8, MessageParts DEF ReadGetData, Reads, Payload
    <2> DEFINE out == Selected(Payload(e), have[Owner(e)])
               sent == [i \in DOMAIN out |-> Reply(<<"block", out[i]>>)]
    <2>2. out \in Seq(Block)
      BY <2>1, SelectedProperties
    <2>3. Answer(e, sent)
      BY <1>8 DEF ReadGetData
    <2> HIDE DEF out
    <2>4. /\ DOMAIN out = 1..Len(out) /\ Len(out) \in Nat
          /\ \A i \in 1..Len(out) : out[i] \in Block
      BY <2>2
    <2>5. \A i \in 1..Len(out) : /\ Reply(<<"block", out[i]>>) \in Task
                                 /\ Reply(<<"block", out[i]>>).msg = <<"block", out[i]>>
      BY <2>4, MessageParts, TaskTypes
    <2>6. sent \in Seq(Task) /\ Len(sent) = Len(out)
      BY <2>4, <2>5
    <2>7. \A i \in 1..Len(sent) : sent[i].msg = <<"block", out[i]>>
      BY <2>4, <2>5, <2>6
    <2> HIDE DEF sent
    <2>8. \A i \in 1..Len(sent) : sent[i].msg[1] = "block"
      BY <2>7
    <2> QED
      BY <1>1, <2>3, <2>6, <2>8 DEF Tasks
  <1>9. CASE AcceptBlock(e) \/ DropBlock(e)
    <2>1. Payload(e) \in Block
      BY <1>2, <1>9, MessageParts DEF AcceptBlock, DropBlock, Reads, Payload
    <2>2. Answer(e, <<Relay(Payload(e))>>) \/ Answer(e, <<>>)
      BY <1>9 DEF AcceptBlock, DropBlock
    <2>3. Relay(Payload(e)) \in Task /\ Relay(Payload(e)).msg[1] = "inv"
      BY <2>1, TaskTypes
    <2> QED
      BY <1>1, <1>3, <1>4, <2>2, <2>3 DEF Fine, Tasks
  <1>10. CASE ReadGetAddr(e)
    <2> DEFINE list == addrs[Owner(e)]
    <2>1. list \in SUBSET Node
      BY <1>2 DEF TypesInv
    <2>2. Answer(e, IF list = {} THEN <<>> ELSE <<Reply(<<"addr", list>>)>>)
      BY <1>10 DEF ReadGetAddr
    <2> HIDE DEF list
    <2>3. <<"addr", list>> \in Message /\ <<"addr", list>>[1] \notin {"version", "verack"}
      BY <2>1, MessageParts
    <2> QED
      BY <1>1, <1>4, <1>5, <2>2, <2>3 DEF Fine, Tasks
  <1> QED
    BY <1>6, <1>7, <1>8, <1>9, <1>10 DEF Answers

(***************************************************************************)
(* The peer table, the connecting set and the addresses agree with the     *)
(* threads.                                                                *)
(***************************************************************************)

\* From the dial or the listener's accept to the end of handle_conn.
Alive == {"dialling", "start", "left", "lost"} \cup InTable

UniqueInv ==
    \A d, e \in Ends : /\ Owner(d) = Owner(e) /\ Addr(d) = Addr(e)
                       /\ thread[d] \in Alive /\ thread[e] \in Alive
                       => d = e

ConnectingInv ==
    /\ \A c \in Conn : thread[<<c, "out">>] \in Alive => Listening(c.to) \in connecting[c.from]
    /\ \A n \in Node : \A a \in connecting[n] :
          \E c \in Conn : c.from = n /\ Listening(c.to) = a /\ thread[<<c, "out">>] \in Alive

DialledInv ==
    \A c \in Conn :
        /\ thread[<<c, "out">>] # "unused" => c.to \in addrs[c.from]
        /\ thread[<<c, "out">>] \in {"unused", "none", "dialling"} =>
               thread[<<c, "in">>] \in {"unused", "none"}
        /\ thread[<<c, "out">>] # "backlog" /\ thread[<<c, "in">>] # "dialling"

\* An address that is learnt is dialled once: the thread had no connection.
LEMMA LearnsUnused ==
    ASSUME TypesInv, DialledInv, NEW e \in Ends, ReadAddr(e)
    PROVE  /\ thread[e] = "read" /\ thread'[e] = "read"
           /\ \A d \in Ends : \/ thread'[d] = thread[d]
                              \/ /\ thread[d] = "unused" /\ thread'[d] = "none"
                                 /\ d[2] = "out" /\ d[1].to \in addrs'[d[1].from]
           /\ \A n \in Node : addrs[n] \subseteq addrs'[n]
  <1>0. DOMAIN addrs = Node /\ thread[e] = "read" /\ thread \in [Ends -> Places]
    BY DEF TypesInv, ReadAddr, Reads
  <1>1. \A n \in Node : addrs'[n] = IF n = Owner(e) THEN addrs[n] \cup (Payload(e) \ addrs[n])
                                    ELSE addrs[n]
    BY <1>0 DEF ReadAddr
  <1>2. \A n \in Node : addrs[n] \subseteq addrs'[n]
    BY <1>1
  <1>3. ASSUME NEW d \in Ends, thread'[d] # thread[d]
        PROVE  /\ thread[d] = "unused" /\ thread'[d] = "none"
               /\ d[2] = "out" /\ d[1].to \in addrs'[d[1].from]
    <2>1. /\ d[2] = "out" /\ d[1].from = Owner(e) /\ thread'[d] = "none"
          /\ d[1].to \in Payload(e) \ addrs[Owner(e)]
      BY <1>3 DEF ReadAddr
    <2>2. d = <<d[1], "out">> /\ d[1] \in Conn /\ Owner(e) \in Node
      BY <2>1, EndFacts
    <2>3. thread[<<d[1], "out">>] = "unused"
      BY <2>1, <2>2 DEF DialledInv
    <2>4. d[1].to \in addrs'[d[1].from]
      BY <1>1, <2>1, <2>2
    <2> QED
      BY <2>1, <2>2, <2>3, <2>4
  <1>4. thread'[e] = "read"
    BY <1>0, <1>3
  <1> QED
    BY <1>0, <1>2, <1>3, <1>4

\* What a step of Opens does to the threads of its connection.
LEMMA OpensThreads ==
    ASSUME TypesInv, DialledInv, NEW c \in Conn, Opens(c)
    PROVE  /\ peers' = peers
           /\ \A d \in Ends : d[1] # c => thread'[d] = thread[d]
           /\ Dial(c) =>
                 /\ thread[<<c, "out">>] = "none" /\ thread'[<<c, "out">>] = "dialling"
                 /\ thread'[<<c, "in">>] = thread[<<c, "in">>]
           /\ Skip(c) =>
                 /\ thread[<<c, "out">>] = "none" /\ thread'[<<c, "out">>] = "gone"
                 /\ thread'[<<c, "in">>] = thread[<<c, "in">>] /\ UNCHANGED connecting
           /\ Established(c) =>
                 /\ thread[<<c, "out">>] = "dialling" /\ thread'[<<c, "out">>] = "start"
                 /\ thread[<<c, "in">>] \in {"unused", "none"} /\ thread'[<<c, "in">>] = "backlog"
                 /\ UNCHANGED connecting
           /\ ConnectFails(c) =>
                 /\ thread[<<c, "out">>] = "dialling" /\ thread'[<<c, "out">>] = "gone"
                 /\ thread'[<<c, "in">>] = thread[<<c, "in">>]
           /\ Listen(c) =>
                 /\ thread[<<c, "in">>] = "backlog" /\ thread'[<<c, "in">>] \in {"gone", "start"}
                 /\ thread'[<<c, "out">>] = thread[<<c, "out">>] /\ UNCHANGED connecting
  <1>0. thread \in [Ends -> Places] /\ <<c, "out">> \in Ends /\ <<c, "in">> \in Ends
    BY EndFacts DEF TypesInv
  <1>1. <<c, "out">> # <<c, "in">> /\ <<c, "out">>[1] = c /\ <<c, "in">>[1] = c
    OBVIOUS
  <1>2. thread[<<c, "out">>] = "dialling" => thread[<<c, "in">>] \in {"unused", "none"}
    BY DEF DialledInv
  <1>3. \A d \in Ends : d[1] # c => thread'[d] = thread[d]
    BY <1>0, <1>1 DEF Opens, Dial, Skip, Established, ConnectFails, Listen, Goto
  <1>4. peers' = peers
    BY DEF Opens, Dial, Skip, Established, ConnectFails, Listen
  <1>5. Dial(c) => /\ thread[<<c, "out">>] = "none" /\ thread'[<<c, "out">>] = "dialling"
                   /\ thread'[<<c, "in">>] = thread[<<c, "in">>]
    BY <1>0, <1>1 DEF Dial, Goto
  <1>6. Skip(c) => /\ thread[<<c, "out">>] = "none" /\ thread'[<<c, "out">>] = "gone"
                   /\ thread'[<<c, "in">>] = thread[<<c, "in">>] /\ UNCHANGED connecting
    BY <1>0, <1>1 DEF Skip, Goto
  <1>7. Established(c) =>
            /\ thread[<<c, "out">>] = "dialling" /\ thread'[<<c, "out">>] = "start"
            /\ thread[<<c, "in">>] \in {"unused", "none"} /\ thread'[<<c, "in">>] = "backlog"
            /\ UNCHANGED connecting
    BY <1>0, <1>1, <1>2 DEF Established
  <1>8. ConnectFails(c) =>
            /\ thread[<<c, "out">>] = "dialling" /\ thread'[<<c, "out">>] = "gone"
            /\ thread'[<<c, "in">>] = thread[<<c, "in">>]
    BY <1>0, <1>1 DEF ConnectFails, Goto
  <1>9. Listen(c) =>
            /\ thread[<<c, "in">>] = "backlog" /\ thread'[<<c, "in">>] \in {"gone", "start"}
            /\ thread'[<<c, "out">>] = thread[<<c, "out">>] /\ UNCHANGED connecting
    BY <1>0, <1>1 DEF Listen, Goto
  <1> QED
    BY <1>3, <1>4, <1>5, <1>6, <1>7, <1>8, <1>9

\* What a step of Moves does to its thread and its entry.
LEMMA MovesThread ==
    ASSUME TypesInv, NEW e \in Ends, Moves(e)
    PROVE  /\ \A d \in Ends \ {e} : thread'[d] = thread[d]
           /\ Register(e) => /\ thread[e] = "start" /\ thread'[e] = "hello"
                             /\ SetEntry(e, NewPeer(e)) /\ UNCHANGED connecting
           /\ LeaveTable(e) => /\ thread[e] = "leave" /\ thread'[e] = "left"
                               /\ UNCHANGED connecting
           /\ LeaveConnecting(e) => /\ thread[e] = "left" /\ thread'[e] = "gone"
                                    /\ UNCHANGED peers
  <1>0. thread \in [Ends -> Places]
    BY DEF TypesInv
  <1>1. \A d \in Ends \ {e} : thread'[d] = thread[d]
    BY <1>0 DEF Moves, Register, LeaveTable, LeaveConnecting, Goto
  <1>2. Register(e) => /\ thread[e] = "start" /\ thread'[e] = "hello"
                       /\ SetEntry(e, NewPeer(e)) /\ UNCHANGED connecting
    BY <1>0 DEF Register, Goto
  <1>3. LeaveTable(e) => thread[e] = "leave" /\ thread'[e] = "left" /\ UNCHANGED connecting
    BY <1>0 DEF LeaveTable, Goto
  <1>4. LeaveConnecting(e) => thread[e] = "left" /\ thread'[e] = "gone" /\ UNCHANGED peers
    BY <1>0 DEF LeaveConnecting, Goto
  <1> QED
    BY <1>1, <1>2, <1>3, <1>4

\* A thread that is inside stays inside, or is lost.
LEMMA InsideThread ==
    ASSUME TypesInv, NEW e \in Ends, Inside(e)
    PROVE  /\ \A d \in Ends \ {e} : thread'[d] = thread[d]
           /\ thread[e] \in InTable /\ thread'[e] \in InTable \cup {"lost"}
  BY DEF TypesInv, Inside, Goto

\* Connections and their dialling ends.
LEMMA OutEnds ==
    /\ \A c, d \in Conn : c # d => /\ <<c, "out">> # <<d, "out">> /\ <<c, "in">> # <<d, "in">>
                                   /\ <<c, "out">> # <<d, "in">>
    /\ \A e \in Ends : e[1] \in Conn /\ (e = <<e[1], "out">> \/ e = <<e[1], "in">>)
    /\ \A e \in Ends : e[2] = "out" => e = <<e[1], "out">>
    /\ \A c \in Conn : /\ <<c, "out">>[1] = c /\ <<c, "in">>[1] = c
                       /\ <<c, "out">>[2] = "out" /\ <<c, "in">>[2] = "in"
                       /\ <<c, "out">> # <<c, "in">>
  BY DEF Ends

\* Two connections of a node have not the same address.
LEMMA UniqueStep ==
    ASSUME TypesInv, TableIsThreads, UniqueInv, ConnectingInv, DialledInv, [SyncNext]_vars
    PROVE  UniqueInv'
  <1>1. ASSUME \A d \in Ends : thread'[d] \in Alive => thread[d] \in Alive
        PROVE  UniqueInv'
    BY <1>1 DEF UniqueInv
  <1>2. CASE UNCHANGED <<peers, thread, connecting, addrs>>
    BY <1>1, <1>2
  <1>3. ASSUME NEW e \in Ends, Inside(e) PROVE UniqueInv'
    BY <1>1, <1>3, InsideThread DEF Alive
  <1>4. ASSUME NEW e \in Ends, ReadAddr(e) PROVE UniqueInv'
    BY <1>1, <1>4, LearnsUnused DEF Alive, InTable
  <1>5. ASSUME NEW e \in Ends, Moves(e) PROVE UniqueInv'
    <2>1. thread[e] \in Alive
      BY <1>5, MovesThread DEF Moves, Alive, InTable
    <2> QED
      BY <1>1, <1>5, <2>1, MovesThread
  <1>6. ASSUME NEW c \in Conn, Opens(c) PROVE UniqueInv'
    <2>0. \A d \in Ends : d[1] # c => thread'[d] = thread[d]
      BY <1>6, OpensThreads
    <2>1. CASE Dial(c)
      <3> DEFINE e == <<c, "out">>
      <3>1. /\ e \in Ends /\ Owner(e) = c.from /\ Addr(e) = Listening(c.to) /\ c.from \in Node
            /\ c.to \in Node
        BY EndFacts
      <3>2. /\ thread[e] = "none" /\ thread'[<<c, "in">>] = thread[<<c, "in">>]
        BY <1>6, <2>1, OpensThreads
      <3>3. \A d \in Ends : d # e => thread'[d] = thread[d]
        BY <2>0, <3>2, OutEnds
      <3>4. ASSUME NEW d \in Ends, Owner(d) = Owner(e), Addr(d) = Addr(e), thread[d] \in Alive
            PROVE  FALSE
        <4>1. d[2] = "out"
          BY <3>1, <3>4, EndFacts
        <4>2. d = <<d[1], "out">> /\ d[1] \in Conn
          BY <4>1, EndFacts
        <4>3. Listening(d[1].to) \in connecting[d[1].from]
          BY <3>4, <4>2 DEF ConnectingInv
        <4>4. Addr(d) = Listening(d[1].to) /\ Owner(d) = d[1].from
          BY <4>2, EndFacts
        <4> QED
          BY <2>1, <3>1, <3>4, <4>3, <4>4 DEF Dial
      <3> QED
        BY <3>1, <3>3, <3>4 DEF UniqueInv
    <2>2. CASE Listen(c)
      <3> DEFINE e == <<c, "in">>
      <3>1. e \in Ends /\ e[2] = "in"
        BY EndFacts
      <3>2. \A d \in Ends : d # e => thread'[d] = thread[d]
        <4>1. thread'[<<c, "out">>] = thread[<<c, "out">>]
          BY <1>6, <2>2, OpensThreads
        <4> QED
          BY <2>0, <4>1, OutEnds
      <3>3. \A d \in Ends : Addr(d) = Addr(e) => d = e
        BY <3>1, EndFacts
      <3> QED
        BY <3>1, <3>2, <3>3 DEF UniqueInv
    <2>3. CASE Skip(c) \/ Established(c) \/ ConnectFails(c)
      <3>1. \A d \in {<<c, "out">>, <<c, "in">>} : thread'[d] \in Alive => thread[d] \in Alive
        <4>1. \/ thread'[<<c, "out">>] \notin Alive
              \/ thread[<<c, "out">>] \in Alive
          BY <1>6, <2>3, OpensThreads DEF Alive, InTable
        <4>2. \/ thread'[<<c, "in">>] \notin Alive
              \/ thread[<<c, "in">>] \in Alive
          BY <1>6, <2>3, OpensThreads DEF Alive, InTable
        <4> QED
          BY <4>1, <4>2
      <3>2. \A d \in Ends : d[1] = c => d \in {<<c, "out">>, <<c, "in">>}
        BY OutEnds
      <3> QED
        BY <1>1, <2>0, <3>1, <3>2
    <2> QED
      BY <1>6, <2>1, <2>2, <2>3 DEF Opens
  <1> QED
    BY <1>2, <1>3, <1>4, <1>5, <1>6, TableSteps

\* Steps in which no dialled connection becomes alive or dies.
LEMMA ConnectingKept ==
    ASSUME ConnectingInv, connecting' = connecting,
           \A c \in Conn : thread'[<<c, "out">>] \in Alive <=> thread[<<c, "out">>] \in Alive
    PROVE  ConnectingInv'
  BY DEF ConnectingInv

\* The address of a connection that ends is given back.
LEMMA ConnectingReturned ==
    ASSUME TypesInv, UniqueInv, ConnectingInv, NEW c \in Conn,
           thread[<<c, "out">>] \in Alive, thread'[<<c, "out">>] \notin Alive,
           \A d \in Conn \ {c} : thread'[<<d, "out">>] = thread[<<d, "out">>],
           connecting' = [connecting EXCEPT ![c.from] = @ \ {Listening(c.to)}]
    PROVE  ConnectingInv'
  <1>0. c.from \in Node /\ DOMAIN connecting = Node
    BY EndFacts DEF TypesInv
  <1>1. \A n \in Node : connecting'[n] = IF n = c.from THEN connecting[n] \ {Listening(c.to)}
                                         ELSE connecting[n]
    BY <1>0
  <1>2. ASSUME NEW d \in Conn, thread'[<<d, "out">>] \in Alive
        PROVE  Listening(d.to) \in connecting'[d.from]
    <2>1. d # c /\ thread[<<d, "out">>] \in Alive
      BY <1>2
    <2>2. Listening(d.to) \in connecting[d.from] /\ d.from \in Node
      BY <2>1, EndFacts DEF ConnectingInv
    <2>3. d.from = c.from => Listening(d.to) # Listening(c.to)
      <3>1. <<d, "out">> # <<c, "out">>
        BY <2>1, OutEnds
      <3>2. /\ <<d, "out">> \in Ends /\ <<c, "out">> \in Ends
            /\ Owner(<<d, "out">>) = d.from /\ Owner(<<c, "out">>) = c.from
            /\ Addr(<<d, "out">>) = Listening(d.to) /\ Addr(<<c, "out">>) = Listening(c.to)
        BY EndFacts
      <3>3. ~(Owner(<<d, "out">>) = Owner(<<c, "out">>) /\ Addr(<<d, "out">>) = Addr(<<c, "out">>))
        BY <2>1, <3>1, <3>2 DEF UniqueInv
      <3> QED
        BY <3>2, <3>3
    <2> QED
      BY <1>1, <2>2, <2>3
  <1>3. ASSUME NEW n \in Node, NEW a \in connecting'[n]
        PROVE  \E d \in Conn : d.from = n /\ Listening(d.to) = a /\ thread'[<<d, "out">>] \in Alive
    <2>1. a \in connecting[n] /\ (n = c.from => a # Listening(c.to))
      BY <1>1, <1>3
    <2>2. PICK d \in Conn : d.from = n /\ Listening(d.to) = a /\ thread[<<d, "out">>] \in Alive
      BY <2>1 DEF ConnectingInv
    <2>3. d # c
      BY <2>1, <2>2
    <2> QED
      BY <2>2, <2>3
  <1> QED
    BY <1>2, <1>3 DEF ConnectingInv

\* The connecting set has the addresses of the dialled connections that live.
LEMMA ConnectingStep ==
    ASSUME TypesInv, TableIsThreads, UniqueInv, ConnectingInv, DialledInv, [SyncNext]_vars
    PROVE  ConnectingInv'
  <1>0. \A c \in Conn : <<c, "out">> \in Ends /\ <<c, "out">>[1] = c /\ <<c, "out">>[2] = "out"
    BY EndFacts
  <1>1. CASE UNCHANGED <<peers, thread, connecting, addrs>>
    BY <1>1, ConnectingKept
  <1>2. ASSUME NEW e \in Ends, Inside(e) PROVE ConnectingInv'
    <2>1. \A d \in Ends : thread'[d] \in Alive <=> thread[d] \in Alive
      BY <1>2, InsideThread DEF Alive
    <2> QED
      BY <1>0, <1>2, <2>1, ConnectingKept DEF Inside
  <1>3. ASSUME NEW e \in Ends, ReadAddr(e) PROVE ConnectingInv'
    <2>1. \A d \in Ends : thread'[d] \in Alive <=> thread[d] \in Alive
      BY <1>3, LearnsUnused DEF Alive, InTable
    <2> QED
      BY <1>0, <1>3, <2>1, ConnectingKept DEF ReadAddr, Untouched
  <1>4. ASSUME NEW e \in Ends, Moves(e) PROVE ConnectingInv'
    <2>1. CASE Register(e) \/ LeaveTable(e)
      <3>1. \A d \in Ends : thread'[d] \in Alive <=> thread[d] \in Alive
        <4>1. thread'[e] \in Alive /\ thread[e] \in Alive
          BY <1>4, <2>1, MovesThread DEF Alive, InTable
        <4> QED
          BY <1>4, <4>1, MovesThread
      <3> QED
        BY <1>0, <2>1, <3>1, ConnectingKept DEF Register, LeaveTable
    <2>2. CASE LeaveConnecting(e)
      <3>1. /\ thread[e] \in Alive /\ thread'[e] \notin Alive
            /\ \A d \in Ends \ {e} : thread'[d] = thread[d]
            /\ connecting' = [connecting EXCEPT ![Owner(e)] = @ \ {Addr(e)}]
        BY <1>4, <2>2, MovesThread DEF LeaveConnecting, Alive, InTable
      <3>2. CASE e[2] = "out"
        <4>1. e = <<e[1], "out">> /\ e[1] \in Conn
          BY <3>2, EndFacts
        <4>2. \A d \in Conn \ {e[1]} : thread'[<<d, "out">>] = thread[<<d, "out">>]
          BY <1>0, <3>1
        <4> QED
          BY <3>1, <4>1, <4>2, ConnectingReturned, EndFacts
      <3>3. CASE e[2] = "in"
        <4>1. connecting' = connecting
          <5>1. Addr(e) \notin connecting[Owner(e)] /\ connecting \in [Node -> SUBSET {Listening(n) : n \in Node}]
            BY <3>3, EndFacts DEF TypesInv
          <5> QED
            BY <3>1, <5>1
        <4>2. \A c \in Conn : <<c, "out">> # e
          BY <3>3
        <4> QED
          BY <1>0, <3>1, <4>1, <4>2, ConnectingKept
      <3> QED
        BY <3>2, <3>3, EndFacts
    <2> QED
      BY <1>4, <2>1, <2>2 DEF Moves
  <1>5. ASSUME NEW c \in Conn, Opens(c) PROVE ConnectingInv'
    <2>0. \A d \in Conn \ {c} : thread'[<<d, "out">>] = thread[<<d, "out">>]
      <3>1. \A d \in Ends : d[1] # c => thread'[d] = thread[d]
        BY <1>5, OpensThreads
      <3> QED
        BY <1>0, <3>1
    <2>1. CASE Dial(c)
      <3>1. /\ thread'[<<c, "out">>] \in Alive
            /\ thread[<<c, "out">>] \notin Alive
        BY <1>5, <2>1, OpensThreads DEF Alive, InTable
      <3>2. c.from \in Node /\ DOMAIN connecting = Node
        BY EndFacts DEF TypesInv
      <3>3. \A n \in Node : connecting'[n] = IF n = c.from THEN connecting[n] \cup {Listening(c.to)}
                                             ELSE connecting[n]
        BY <2>1, <3>2 DEF Dial
      <3>4. ASSUME NEW d \in Conn, thread'[<<d, "out">>] \in Alive
            PROVE  Listening(d.to) \in connecting'[d.from]
        <4>1. d.from \in Node
          BY EndFacts
        <4> QED
          BY <2>0, <3>3, <3>4, <4>1 DEF ConnectingInv
      <3>5. ASSUME NEW n \in Node, NEW a \in connecting'[n]
            PROVE  \E d \in Conn : d.from = n /\ Listening(d.to) = a /\ thread'[<<d, "out">>] \in Alive
        <4>1. CASE n = c.from /\ a = Listening(c.to)
          BY <3>1, <4>1
        <4>2. CASE a \in connecting[n]
          <5>1. PICK d \in Conn : d.from = n /\ Listening(d.to) = a /\ thread[<<d, "out">>] \in Alive
            BY <4>2 DEF ConnectingInv
          <5> QED
            BY <2>0, <3>1, <5>1
        <4> QED
          BY <3>3, <3>5, <4>1, <4>2
      <3> QED
        BY <3>4, <3>5 DEF ConnectingInv
    <2>2. CASE ConnectFails(c)
      <3>1. thread[<<c, "out">>] \in Alive /\ thread'[<<c, "out">>] \notin Alive
        BY <1>5, <2>2, OpensThreads DEF Alive, InTable
      <3> QED
        BY <2>0, <2>2, <3>1, ConnectingReturned DEF ConnectFails
    <2>3. CASE Skip(c) \/ Established(c) \/ Listen(c)
      <3>1. /\ thread'[<<c, "out">>] \in Alive <=> thread[<<c, "out">>] \in Alive
            /\ UNCHANGED connecting
        BY <1>5, <2>3, OpensThreads DEF Alive, InTable
      <3> QED
        BY <2>0, <3>1, ConnectingKept
    <2> QED
      BY <1>5, <2>1, <2>2, <2>3 DEF Opens
  <1> QED
    BY <1>1, <1>2, <1>3, <1>4, <1>5, TableSteps

\* A connection whose address is not known has not been dialled.
LEMMA DialledStep ==
    ASSUME TypesInv, TableIsThreads, DialledInv, [SyncNext]_vars
    PROVE  DialledInv'
  <1>0. \A c \in Conn : /\ <<c, "out">> \in Ends /\ <<c, "in">> \in Ends
                        /\ <<c, "out">> # <<c, "in">>
                        /\ <<c, "out">>[1] = c /\ <<c, "in">>[1] = c /\ <<c, "in">>[2] = "in"
    BY EndFacts
  <1>1. CASE UNCHANGED <<peers, thread, connecting, addrs>>
    BY <1>1 DEF DialledInv
  <1>2. ASSUME NEW e \in Ends, Inside(e) PROVE DialledInv'
    <2>1. addrs' = addrs
      BY <1>2 DEF Inside
    <2>2. \A c \in Conn : /\ \/ thread'[<<c, "out">>] = thread[<<c, "out">>]
                             \/ /\ thread[<<c, "out">>] \in InTable
                                /\ thread'[<<c, "out">>] \in InTable \cup {"lost"}
                          /\ \/ thread'[<<c, "in">>] = thread[<<c, "in">>]
                             \/ /\ thread[<<c, "in">>] \in InTable
                                /\ thread'[<<c, "in">>] \in InTable \cup {"lost"}
      BY <1>0, <1>2, InsideThread
    <2> QED
      BY <2>1, <2>2 DEF DialledInv, InTable
  <1>3. ASSUME NEW e \in Ends, ReadAddr(e) PROVE DialledInv'
    <2>1. \A c \in Conn : c.from \in Node /\ addrs[c.from] \subseteq addrs'[c.from]
      BY <1>3, LearnsUnused, EndFacts
    <2>2. \A c \in Conn : /\ \/ thread'[<<c, "out">>] = thread[<<c, "out">>]
                             \/ /\ thread[<<c, "out">>] = "unused"
                                /\ thread'[<<c, "out">>] = "none"
                                /\ c.to \in addrs'[c.from]
                          /\ thread'[<<c, "in">>] = thread[<<c, "in">>]
      <3> SUFFICES ASSUME NEW c \in Conn
                   PROVE  /\ \/ thread'[<<c, "out">>] = thread[<<c, "out">>]
                             \/ /\ thread[<<c, "out">>] = "unused"
                                /\ thread'[<<c, "out">>] = "none"
                                /\ c.to \in addrs'[c.from]
                          /\ thread'[<<c, "in">>] = thread[<<c, "in">>]
        OBVIOUS
      <3>1. thread'[<<c, "in">>] = thread[<<c, "in">>]
        BY <1>0, <1>3, LearnsUnused
      <3>2. \/ thread'[<<c, "out">>] = thread[<<c, "out">>]
            \/ /\ thread[<<c, "out">>] = "unused" /\ thread'[<<c, "out">>] = "none"
               /\ <<c, "out">>[1].to \in addrs'[<<c, "out">>[1].from]
        BY <1>0, <1>3, LearnsUnused
      <3> QED
        BY <3>1, <3>2
    <2> QED
      BY <2>1, <2>2 DEF DialledInv
  <1>4. ASSUME NEW e \in Ends, Moves(e), UNCHANGED addrs PROVE DialledInv'
    <2>0. \A d \in Ends : \/ thread'[d] = thread[d]
                          \/ /\ thread[d] \in {"start", "leave", "left"}
                             /\ thread'[d] \in {"hello", "left", "gone"}
      <3>1. thread[e] \in {"start", "leave", "left"} /\ thread'[e] \in {"hello", "left", "gone"}
        BY <1>4, MovesThread DEF Moves
      <3> QED
        BY <1>4, <3>1, MovesThread
    <2>1. \A c \in Conn : /\ \/ thread'[<<c, "out">>] = thread[<<c, "out">>]
                             \/ /\ thread[<<c, "out">>] \in {"start", "leave", "left"}
                                /\ thread'[<<c, "out">>] \in {"hello", "left", "gone"}
                          /\ \/ thread'[<<c, "in">>] = thread[<<c, "in">>]
                             \/ /\ thread[<<c, "in">>] \in {"start", "leave", "left"}
                                /\ thread'[<<c, "in">>] \in {"hello", "left", "gone"}
      BY <1>0, <2>0
    <2> QED
      BY <1>4, <2>1 DEF DialledInv
  <1>5. ASSUME NEW c \in Conn, Opens(c), UNCHANGED addrs PROVE DialledInv'
    <2>1. \A d \in Conn \ {c} : /\ thread'[<<d, "out">>] = thread[<<d, "out">>]
                                /\ thread'[<<d, "in">>] = thread[<<d, "in">>]
      <3>1. \A d \in Ends : d[1] # c => thread'[d] = thread[d]
        BY <1>5, OpensThreads
      <3> QED
        BY <1>0, <3>1
    <2>2. /\ \/ thread'[<<c, "out">>] = "unused" /\ thread[<<c, "out">>] = "unused"
             \/ thread'[<<c, "out">>] # "unused" /\ thread[<<c, "out">>] # "unused"
          /\ thread'[<<c, "out">>] \in {"unused", "none", "dialling"} =>
                 thread'[<<c, "in">>] \in {"unused", "none"}
          /\ thread'[<<c, "out">>] # "backlog" /\ thread'[<<c, "in">>] # "dialling"
      BY <1>5, OpensThreads DEF DialledInv, Opens
    <2> QED
      BY <1>5, <2>1, <2>2 DEF DialledInv
  <1> QED
    BY <1>1, <1>2, <1>3, <1>4, <1>5, TableSteps

\* The entry of an end, after SetEntry.
LEMMA EntrySet ==
    ASSUME TypesInv, NEW e \in Ends, NEW p, SetEntry(e, p)
    PROVE  /\ Addr(e) \in DOMAIN peers'[Owner(e)] /\ peers'[Owner(e)][Addr(e)] = p
           /\ \A n \in Node : \A a : n # Owner(e) \/ a # Addr(e) =>
                 /\ a \in DOMAIN peers'[n] <=> a \in DOMAIN peers[n]
                 /\ a \in DOMAIN peers[n] => peers'[n][a] = peers[n][a]
  <1>1. DOMAIN peers = Node /\ Owner(e) \in Node
    BY EndFacts DEF TypesInv
  <1>2. \A n \in Node : peers'[n] = IF n = Owner(e)
            THEN [a \in DOMAIN peers[n] \cup {Addr(e)} |-> IF a = Addr(e) THEN p ELSE peers[n][a]]
            ELSE peers[n]
    BY <1>1 DEF SetEntry
  <1>3. /\ DOMAIN peers'[Owner(e)] = DOMAIN peers[Owner(e)] \cup {Addr(e)}
        /\ \A a \in DOMAIN peers[Owner(e)] \cup {Addr(e)} :
              peers'[Owner(e)][a] = IF a = Addr(e) THEN p ELSE peers[Owner(e)][a]
    BY <1>1, <1>2
  <1>4. \A n \in Node : n # Owner(e) => peers'[n] = peers[n]
    BY <1>2
  <1> QED
    BY <1>1, <1>3, <1>4

\* Steps that leave the entries and the threads that have one as they are.
LEMMA TableKept ==
    ASSUME TypesInv, TableIsThreads, Kept,
           \A e \in Ends : thread'[e] \in InTable \cup {"lost"} <=> thread[e] \in InTable \cup {"lost"}
    PROVE  TableIsThreads'
  <1>1. \A e \in Ends : Owner(e) \in Node
    BY EndFacts
  <1>2. \A n \in Node : \A a \in DOMAIN peers[n] : peers[n][a].end \in Ends
    BY DEF TypesInv, Peer
  <1>3. ASSUME NEW n \in Node, NEW a \in DOMAIN peers'[n]
        PROVE  LET e == peers'[n][a].end
               IN  Owner(e) = n /\ Addr(e) = a /\ thread'[e] \in InTable \cup {"lost"}
    <2>1. a \in DOMAIN peers[n] /\ peers'[n][a].end = peers[n][a].end
      BY <1>3 DEF Kept
    <2> QED
      BY <1>2, <2>1 DEF TableIsThreads
  <1>4. ASSUME NEW e \in Ends, thread'[e] \in InTable \cup {"lost"}
        PROVE  Addr(e) \in DOMAIN peers'[Owner(e)] /\ peers'[Owner(e)][Addr(e)].end = e
    <2>1. Addr(e) \in DOMAIN peers[Owner(e)] /\ peers[Owner(e)][Addr(e)].end = e
      BY <1>4 DEF TableIsThreads, HasEntry, Table
    <2> QED
      BY <1>1, <2>1 DEF Kept
  <1> QED
    BY <1>3, <1>4 DEF TableIsThreads, HasEntry, Table

\* The entries of a table are the threads that have one.
LEMMA TableStep ==
    ASSUME TypesInv, TableIsThreads, UniqueInv, DialledInv, [SyncNext]_vars
    PROVE  TableIsThreads'
  <1>0. peers' = peers => Kept
    BY DEF Kept
  <1>1. CASE UNCHANGED <<peers, thread, connecting, addrs>>
    BY <1>0, <1>1, TableKept
  <1>2. ASSUME NEW e \in Ends, Inside(e) PROVE TableIsThreads'
    BY <1>2, InsideThread, TableKept DEF Inside
  <1>3. ASSUME NEW e \in Ends, ReadAddr(e) PROVE TableIsThreads'
    <2>1. peers' = peers
      BY <1>3 DEF ReadAddr, Untouched
    <2>2. \A d \in Ends : thread'[d] \in InTable \cup {"lost"} <=> thread[d] \in InTable \cup {"lost"}
      BY <1>3, LearnsUnused DEF InTable
    <2> QED
      BY <1>0, <2>1, <2>2, TableKept
  <1>4. ASSUME NEW c \in Conn, Opens(c) PROVE TableIsThreads'
    <2>1. peers' = peers /\ \A d \in Ends : d[1] # c => thread'[d] = thread[d]
      BY <1>4, OpensThreads
    <2>2. /\ thread'[<<c, "out">>] \in InTable \cup {"lost"}
                <=> thread[<<c, "out">>] \in InTable \cup {"lost"}
          /\ thread'[<<c, "in">>] \in InTable \cup {"lost"}
                <=> thread[<<c, "in">>] \in InTable \cup {"lost"}
      BY <1>4, OpensThreads DEF Opens, InTable
    <2>3. \A d \in Ends : thread'[d] \in InTable \cup {"lost"} <=> thread[d] \in InTable \cup {"lost"}
      BY <2>1, <2>2, OutEnds
    <2> QED
      BY <1>0, <2>1, <2>3, TableKept
  <1>5. ASSUME NEW e \in Ends, Moves(e) PROVE TableIsThreads'
    <2>0. /\ \A d \in Ends \ {e} : thread'[d] = thread[d]
          /\ Owner(e) \in Node
          /\ \A n \in Node : \A a \in DOMAIN peers[n] : peers[n][a].end \in Ends
          /\ DOMAIN peers = Node
      BY <1>5, MovesThread, EndFacts DEF TypesInv, Peer
    <2>1. ASSUME thread[e] \in Alive, NEW d \in Ends \ {e}, thread[d] \in InTable \cup {"lost"}
          PROVE  Owner(d) # Owner(e) \/ Addr(d) # Addr(e)
      BY <2>1 DEF UniqueInv, Alive
    <2>2. \A n \in Node : \A a \in DOMAIN peers[n] :
             LET d == peers[n][a].end
             IN  Owner(d) = n /\ Addr(d) = a /\ thread[d] \in InTable \cup {"lost"}
      BY DEF TableIsThreads
    <2>3. \A d \in Ends : thread[d] \in InTable \cup {"lost"} =>
             Addr(d) \in DOMAIN peers[Owner(d)] /\ peers[Owner(d)][Addr(d)].end = d
      BY DEF TableIsThreads, HasEntry, Table
    <2>4. \A d \in Ends : Owner(d) \in Node
      BY EndFacts
    <2>5. CASE Register(e)
      <3>1. /\ thread[e] = "start" /\ thread'[e] = "hello" /\ SetEntry(e, NewPeer(e))
            /\ NewPeer(e).end = e
        BY <1>5, <2>5, MovesThread DEF NewPeer
      <3>2. /\ Addr(e) \in DOMAIN peers'[Owner(e)] /\ peers'[Owner(e)][Addr(e)] = NewPeer(e)
            /\ \A n \in Node : \A a : n # Owner(e) \/ a # Addr(e) =>
                  /\ a \in DOMAIN peers'[n] <=> a \in DOMAIN peers[n]
                  /\ a \in DOMAIN peers[n] => peers'[n][a] = peers[n][a]
        BY <3>1, EntrySet
      <3>3. ASSUME NEW n \in Node, NEW a \in DOMAIN peers'[n]
            PROVE  LET d == peers'[n][a].end
                   IN  Owner(d) = n /\ Addr(d) = a /\ thread'[d] \in InTable \cup {"lost"}
        <4>1. CASE n = Owner(e) /\ a = Addr(e)
          BY <3>1, <3>2, <4>1 DEF InTable
        <4>2. CASE n # Owner(e) \/ a # Addr(e)
          <5>1. a \in DOMAIN peers[n] /\ peers'[n][a] = peers[n][a]
            BY <3>2, <3>3, <4>2
          <5>2. peers[n][a].end # e
            BY <2>2, <4>2, <5>1
          <5> QED
            BY <2>0, <2>2, <5>1, <5>2
        <4> QED
          BY <4>1, <4>2
      <3>4. ASSUME NEW d \in Ends, thread'[d] \in InTable \cup {"lost"}
            PROVE  Addr(d) \in DOMAIN peers'[Owner(d)] /\ peers'[Owner(d)][Addr(d)].end = d
        <4>1. CASE d = e
          BY <3>1, <3>2, <4>1
        <4>2. CASE d # e
          <5>1. thread[d] \in InTable \cup {"lost"} /\ thread[e] \in Alive
            BY <2>0, <3>1, <3>4, <4>2 DEF Alive
          <5>2. Owner(d) # Owner(e) \/ Addr(d) # Addr(e)
            BY <2>1, <4>2, <5>1
          <5> QED
            BY <2>3, <2>4, <3>2, <5>1, <5>2
        <4> QED
          BY <4>1, <4>2
      <3> QED
        BY <3>3, <3>4 DEF TableIsThreads, HasEntry, Table
    <2>6. CASE LeaveTable(e)
      <3>1. /\ thread[e] = "leave" /\ thread'[e] = "left"
        BY <1>5, <2>6, MovesThread
      <3>2. \A n \in Node : peers'[n] = IF n = Owner(e)
              THEN [a \in DOMAIN peers[n] \ {Addr(e)} |-> peers[n][a]] ELSE peers[n]
        BY <2>0, <2>6 DEF LeaveTable, Restrict
      <3>3. ASSUME NEW n \in Node, NEW a \in DOMAIN peers'[n]
            PROVE  /\ a \in DOMAIN peers[n] /\ peers'[n][a] = peers[n][a]
                   /\ n # Owner(e) \/ a # Addr(e)
        <4>1. CASE n = Owner(e)
          <5>1. a \in DOMAIN peers[n] \ {Addr(e)}
            BY <3>2, <3>3, <4>1
          <5> QED
            BY <3>2, <4>1, <5>1
        <4>2. CASE n # Owner(e)
          BY <3>2, <3>3, <4>2
        <4> QED
          BY <4>1, <4>2
      <3>4. ASSUME NEW n \in Node, NEW a \in DOMAIN peers'[n]
            PROVE  LET d == peers'[n][a].end
                   IN  Owner(d) = n /\ Addr(d) = a /\ thread'[d] \in InTable \cup {"lost"}
        <4>1. a \in DOMAIN peers[n] /\ peers'[n][a] = peers[n][a] /\ (n # Owner(e) \/ a # Addr(e))
          BY <3>3
        <4>2. peers[n][a].end # e
          BY <2>2, <4>1
        <4> QED
          BY <2>0, <2>2, <4>1, <4>2
      <3>5. ASSUME NEW d \in Ends, thread'[d] \in InTable \cup {"lost"}
            PROVE  Addr(d) \in DOMAIN peers'[Owner(d)] /\ peers'[Owner(d)][Addr(d)].end = d
        <4>1. d # e
          BY <3>1, <3>5 DEF InTable
        <4>2. thread[d] \in InTable \cup {"lost"} /\ thread[e] \in Alive
          BY <2>0, <3>1, <3>5, <4>1 DEF Alive, InTable
        <4>3. Owner(d) # Owner(e) \/ Addr(d) # Addr(e)
          BY <2>1, <4>1, <4>2
        <4>4. Addr(d) \in DOMAIN peers[Owner(d)] /\ peers[Owner(d)][Addr(d)].end = d
          BY <2>3, <4>2
        <4>5. Addr(d) \in DOMAIN peers'[Owner(d)] /\ peers'[Owner(d)][Addr(d)] = peers[Owner(d)][Addr(d)]
          <5>1. CASE Owner(d) = Owner(e)
            BY <2>4, <3>2, <4>3, <4>4, <5>1
          <5>2. CASE Owner(d) # Owner(e)
            BY <2>4, <3>2, <4>4, <5>2
          <5> QED
            BY <5>1, <5>2
        <4> QED
          BY <4>4, <4>5
      <3> QED
        BY <3>4, <3>5 DEF TableIsThreads, HasEntry, Table
    <2>7. CASE LeaveConnecting(e)
      <3>1. /\ peers' = peers /\ thread[e] = "left" /\ thread'[e] = "gone"
        BY <1>5, <2>7, MovesThread
      <3>2. \A d \in Ends :
               thread'[d] \in InTable \cup {"lost"} <=> thread[d] \in InTable \cup {"lost"}
        BY <2>0, <3>1 DEF InTable
      <3> QED
        BY <1>0, <3>1, <3>2, TableKept
    <2> QED
      BY <1>5, <2>5, <2>6, <2>7 DEF Moves
  <1> QED
    BY <1>1, <1>2, <1>3, <1>4, <1>5, TableSteps

(***************************************************************************)
(* The queues.                                                             *)
(***************************************************************************)

\* What may be put on the way to an end.
Fits(d, m) == /\ m[1] = "version" => m[2] = Owner(Remote(d))
              /\ m[1] = "verack" => Owner(d) # Owner(Remote(d))

\* What a step may do to the messages on the way to d.
InboxStep(d) ==
    \/ inbox'[d] = inbox[d]
    \/ /\ inbox[d] # <<>> /\ inbox'[d] = Tail(inbox[d])
       /\ thread[d] \in {"read", "checked"} /\ thread'[d] # "checked"
    \/ \E m \in Message : Fits(d, m) /\ inbox'[d] = Append(inbox[d], m)

\* The steps of a thread, with the place it goes to and what it does to its queues.
LEMMA StepParts ==
    ASSUME TypesInv, TableIsThreads, MsgInv, NEW e \in Ends
    PROVE  /\ Hello(e) =>
                 /\ thread[e] = "hello" /\ Goto(e, "read")
                 /\ inbox' = [inbox EXCEPT ![Remote(e)] = Append(@, <<"version", Owner(e)>>)]
           /\ StoreNonce(e) =>
                 /\ thread[e] = "checked" /\ Goto(e, "read")
                 /\ inbox' = [inbox EXCEPT ![e] = Tail(@),
                                           ![Remote(e)] = Append(@, <<"verack", Owner(e)>>)]
           /\ SyncVerack(e) =>
                 /\ thread[e] = "read" /\ Goto(e, "tip") /\ inbox[e] # <<>>
                 /\ inbox' = [inbox EXCEPT ![e] = Tail(@)] /\ todo' = todo
           /\ AskPeer(e) =>
                 /\ thread[e] = "tip" /\ Goto(e, "send") /\ inbox' = inbox
                 /\ todo' = [todo EXCEPT ![e] = <<Reply(<<"getblocks", tip[Owner(e)]>>),
                                                  Reply(<<"getaddr">>)>>]
           /\ ReadAddr(e) =>
                 /\ thread[e] = "read" /\ inbox[e] # <<>>
                 /\ inbox' = [inbox EXCEPT ![e] = Tail(@)] /\ todo' = todo
  <1>1. thread[e] \in InTable => HasEntry(e) /\ Table(e)[Addr(e)].end = e
    BY DEF TableIsThreads
  <1>2. Hello(e) =>
            /\ thread[e] = "hello" /\ Goto(e, "read")
            /\ inbox' = [inbox EXCEPT ![Remote(e)] = Append(@, <<"version", Owner(e)>>)]
    BY <1>1 DEF Hello, Send, InTable
  <1>3. StoreNonce(e) =>
            /\ thread[e] = "checked" /\ Goto(e, "read")
            /\ inbox' = [inbox EXCEPT ![e] = Tail(@),
                                      ![Remote(e)] = Append(@, <<"verack", Owner(e)>>)]
    BY <1>1 DEF StoreNonce, InTable
  <1> QED
    BY <1>2, <1>3 DEF SyncVerack, HandshakeDone, Reads, AskPeer, ReadAddr, syncVars

\* A message that is sent back goes to the other end, if the handshake is done;
\* one that is announced may go to any end.
LEMMA SendParts ==
    ASSUME TypesInv, TableIsThreads, MsgInv, NEW e \in Ends, SendNext(e)
    PROVE  /\ thread[e] = "send" /\ todo[e] # <<>>
           /\ Head(todo[e]) \in Task /\ Head(todo[e]) = todo[e][1]
           /\ Tail(todo[e]) \in Tasks /\ Len(Tail(todo[e])) = Len(todo[e]) - 1
           /\ \A i \in 1..Len(Tail(todo[e])) : Tail(todo[e])[i] = todo[e][i + 1]
           /\ todo' = [todo EXCEPT ![e] = Tail(@)]
           /\ Goto(e, IF Tail(todo[e]) = <<>> THEN "read" ELSE "send")
           /\ inbox' \in [Ends -> Messages]
           /\ \A d \in Ends : \/ inbox'[d] = inbox[d]
                              \/ inbox'[d] = Append(inbox[d], Head(todo[e]).msg)
           /\ ~Head(todo[e]).wide =>
                 \A d \in Ends :
                    inbox'[d] = IF d = Remote(e) /\ Table(e)[Addr(e)].handshaked
                                THEN Append(inbox[d], Head(todo[e]).msg) ELSE inbox[d]
           /\ Head(todo[e]).wide /\ "relayed" \notin why' => inbox' = inbox
  <1>0. /\ thread[e] = "send" /\ todo[e] \in Seq(Task) /\ Owner(e) \in Node
        /\ inbox \in [Ends -> Messages] /\ DOMAIN peers = Node
    BY EndFacts DEF SendNext, TypesInv, Tasks
  <1>1. todo[e] # <<>>
    BY <1>0 DEF MsgInv
  <1>2. /\ Head(todo[e]) \in Task /\ Head(todo[e]) = todo[e][1]
        /\ Tail(todo[e]) \in Tasks /\ Len(Tail(todo[e])) = Len(todo[e]) - 1
        /\ \A i \in 1..Len(Tail(todo[e])) : Tail(todo[e])[i] = todo[e][i + 1]
    BY <1>0, <1>1, Queues DEF Tasks
  <1> DEFINE next == Head(todo[e])
             to == IF next.wide THEN Ready(Owner(e)) \ {Addr(e)} ELSE Ready(Owner(e)) \cap {Addr(e)}
  <1>3. /\ inbox' = Written(Owner(e), to, next.msg)
        /\ why' = IF next.wide /\ to # {} THEN why \cup {"relayed"} ELSE why
        /\ todo' = [todo EXCEPT ![e] = Tail(@)]
        /\ Goto(e, IF Tail(todo[e]) = <<>> THEN "read" ELSE "send")
    BY DEF SendNext
  <1>4. next.msg \in Message /\ next.wide \in BOOLEAN
    BY <1>2, TaskTypes
  <1>5. HasEntry(e) /\ Table(e)[Addr(e)].end = e
    BY <1>0 DEF TableIsThreads, InTable
  <1>6. ~next.wide => to = IF Table(e)[Addr(e)].handshaked THEN {Addr(e)} ELSE {}
    BY <1>5 DEF Ready, HasEntry, Table
  <1> HIDE DEF to, next
  <1>7. \A d \in Ends : inbox'[d] = IF \E a \in to : Remote(peers[Owner(e)][a].end) = d
                                    THEN Append(inbox[d], next.msg) ELSE inbox[d]
    BY <1>3 DEF Written
  <1>8. \A d \in Ends : inbox[d] \in Seq(Message) /\ Append(inbox[d], next.msg) \in Messages
    BY <1>0, <1>4, Queues DEF Messages
  <1>9. inbox' \in [Ends -> Messages]
    <2>1. inbox' = [d \in Ends |-> inbox'[d]]
      BY <1>3 DEF Written
    <2>2. \A d \in Ends : inbox'[d] \in Messages
      BY <1>0, <1>7, <1>8
    <2> QED
      BY <2>1, <2>2
  <1>10. ASSUME ~next.wide, NEW d \in Ends
         PROVE  inbox'[d] = IF d = Remote(e) /\ Table(e)[Addr(e)].handshaked
                            THEN Append(inbox[d], next.msg) ELSE inbox[d]
    <2>1. peers[Owner(e)][Addr(e)].end = e
      BY <1>5 DEF Table
    <2> QED
      BY <1>6, <1>7, <1>10, <2>1
  <1>11. ASSUME next.wide, "relayed" \notin why' PROVE inbox' = inbox
    <2>1. to = {}
      BY <1>3, <1>11
    <2>2. \A d \in Ends : inbox'[d] = inbox[d]
      BY <1>7, <2>1
    <2> QED
      BY <1>0, <1>9, <2>2
  <1> QED
    BY <1>0, <1>1, <1>2, <1>3, <1>7, <1>9, <1>10, <1>11 DEF next

\* A found block is announced to every peer.
LEMMA AnnounceParts ==
    ASSUME TypesInv, NEW n \in Node, AnnounceFound(n)
    PROVE  /\ inbox' \in [Ends -> Messages] /\ todo' = todo /\ thread' = thread
           /\ \A d \in Ends : \/ inbox'[d] = inbox[d]
                              \/ inbox'[d] = Append(inbox[d], Announcement(miner[n][2]))
           /\ Announcement(miner[n][2]) \in Message /\ Announcement(miner[n][2])[1] = "inv"
           /\ "relayed" \notin why' => inbox' = inbox
  <1>1. miner[n][2] \in Block /\ inbox \in [Ends -> Messages]
    BY DEF TypesInv, AnnounceFound
  <1> DEFINE m == Announcement(miner[n][2])
  <1>2. m \in Message /\ m[1] = "inv"
    BY <1>1, TaskTypes, MessageParts DEF Announcement, Relay
  <1>3. inbox' = Written(n, Ready(n), m) /\ todo' = todo /\ thread' = thread
    BY DEF AnnounceFound
  <1>4. why' = IF Ready(n) # {} THEN why \cup {"relayed"} ELSE why
    BY DEF AnnounceFound
  <1> HIDE DEF m
  <1>5. \A d \in Ends : inbox'[d] = IF \E a \in Ready(n) : Remote(peers[n][a].end) = d
                                    THEN Append(inbox[d], m) ELSE inbox[d]
    BY <1>3 DEF Written
  <1>6. \A d \in Ends : inbox[d] \in Seq(Message) /\ Append(inbox[d], m) \in Messages
    BY <1>1, <1>2, Queues DEF Messages
  <1>7. inbox' \in [Ends -> Messages]
    <2>1. inbox' = [d \in Ends |-> inbox'[d]]
      BY <1>3 DEF Written
    <2>2. \A d \in Ends : inbox'[d] \in Messages
      BY <1>1, <1>5, <1>6
    <2> QED
      BY <2>1, <2>2
  <1>8. ASSUME "relayed" \notin why' PROVE inbox' = inbox
    <2>1. Ready(n) = {}
      BY <1>4, <1>8
    <2>2. \A d \in Ends : inbox'[d] = inbox[d]
      BY <1>5, <2>1
    <2> QED
      BY <1>1, <1>7, <2>2
  <1> QED
    BY <1>2, <1>3, <1>5, <1>7, <1>8 DEF m

\* Every step changes the queues in these ways only.
LEMMA InboxSteps ==
    ASSUME TypesInv, TableIsThreads, MsgInv, DialledInv, [SyncNext]_vars
    PROVE  inbox' \in [Ends -> Messages] /\ \A d \in Ends : InboxStep(d)
  <1>0. /\ inbox \in [Ends -> Messages] /\ thread \in [Ends -> Places]
        /\ \A d \in Ends : inbox[d] \in Seq(Message) /\ Owner(d) \in Node /\ Remote(d) \in Ends
        /\ \A d \in Ends : Remote(d) # d /\ Remote(Remote(d)) = d
    BY EndFacts DEF TypesInv, Messages
  <1>1. /\ \A q \in Seq(Message) : \A m \in Message : Append(q, m) \in Seq(Message)
        /\ \A q \in Seq(Message) : q # <<>> => Tail(q) \in Seq(Message)
    BY Queues
  <1>2. CASE UNCHANGED <<inbox, todo>>
    BY <1>0, <1>2 DEF InboxStep
  <1>3. ASSUME NEW e \in Ends, Hello(e)
        PROVE  inbox' \in [Ends -> Messages] /\ \A d \in Ends : InboxStep(d)
    <2> DEFINE m == <<"version", Owner(e)>>
    <2>1. m \in Message /\ Fits(Remote(e), m)
      BY <1>0, MessageParts DEF Fits
    <2>2. inbox' = [inbox EXCEPT ![Remote(e)] = Append(@, m)]
      BY <1>3, StepParts
    <2> HIDE DEF m
    <2> QED
      BY <1>0, <1>1, <2>1, <2>2 DEF InboxStep, Messages
  <1>4. ASSUME NEW e \in Ends, StoreNonce(e)
        PROVE  inbox' \in [Ends -> Messages] /\ \A d \in Ends : InboxStep(d)
    <2> DEFINE m == <<"verack", Owner(e)>>
    <2>1. inbox[e] # <<>> /\ Owner(e) # Owner(Remote(e)) /\ thread[e] = "checked"
      BY <1>4, StepParts DEF MsgInv
    <2>2. m \in Message /\ Fits(Remote(e), m)
      BY <1>0, <2>1, MessageParts DEF Fits
    <2>3. inbox' = [inbox EXCEPT ![e] = Tail(@), ![Remote(e)] = Append(@, m)]
      BY <1>4, StepParts
    <2>4. thread'[e] # "checked"
      BY <1>0, <1>4, StepParts DEF Goto
    <2> HIDE DEF m
    <2> QED
      BY <1>0, <1>1, <2>1, <2>2, <2>3, <2>4 DEF InboxStep, Messages
  <1>5. ASSUME NEW e \in Ends, inbox[e] # <<>>, thread[e] = "read", thread'[e] # "checked",
               inbox' = [inbox EXCEPT ![e] = Tail(@)]
        PROVE  inbox' \in [Ends -> Messages] /\ \A d \in Ends : InboxStep(d)
    BY <1>0, <1>1, <1>5 DEF InboxStep, Messages
  <1>6. ASSUME NEW e \in Ends, SyncVerack(e)
        PROVE  inbox' \in [Ends -> Messages] /\ \A d \in Ends : InboxStep(d)
    <2>1. thread'[e] # "checked"
      BY <1>0, <1>6, StepParts DEF Goto
    <2> QED
      BY <1>5, <1>6, <2>1, StepParts
  <1>7. ASSUME NEW e \in Ends, ReadAddr(e)
        PROVE  inbox' \in [Ends -> Messages] /\ \A d \in Ends : InboxStep(d)
    <2>1. thread'[e] # "checked"
      BY <1>7, LearnsUnused
    <2> QED
      BY <1>5, <1>7, <2>1, StepParts
  <1>8. ASSUME NEW e \in Ends, Answers(e)
        PROVE  inbox' \in [Ends -> Messages] /\ \A d \in Ends : InboxStep(d)
    <2>1. PICK out \in Tasks : Answer(e, out)
      BY <1>8, AnswerTypes
    <2>2. thread'[e] # "checked"
      BY <1>0, <2>1 DEF Answer, Goto
    <2>3. thread[e] = "read" /\ inbox[e] # <<>>
      BY <1>8, AnswerTypes
    <2> QED
      BY <1>5, <2>1, <2>2, <2>3 DEF Answer
  <1>9. ASSUME NEW e \in Ends, AskPeer(e)
        PROVE  inbox' \in [Ends -> Messages] /\ \A d \in Ends : InboxStep(d)
    BY <1>0, <1>9, StepParts DEF InboxStep
  <1>10. ASSUME NEW e \in Ends, SendNext(e)
         PROVE  inbox' \in [Ends -> Messages] /\ \A d \in Ends : InboxStep(d)
    <2>1. todo[e] # <<>> /\ todo[e] \in Seq(Task) /\ Head(todo[e]) = todo[e][1]
      BY <1>10, SendParts DEF TypesInv, Tasks
    <2>2. 1 \in 1..Len(todo[e])
      BY <2>1, Queues
    <2> DEFINE m == Head(todo[e]).msg
    <2>3. m \in Message
      BY <1>10, SendParts, TaskTypes
    <2>4. m[1] \notin {"version", "verack"}
      BY <2>1, <2>2 DEF MsgInv
    <2>5. \A d \in Ends : Fits(d, m)
      BY <2>4 DEF Fits
    <2>6. /\ inbox' \in [Ends -> Messages]
          /\ \A d \in Ends : inbox'[d] = inbox[d] \/ inbox'[d] = Append(inbox[d], m)
      BY <1>10, SendParts
    <2> HIDE DEF m
    <2> QED
      BY <2>3, <2>5, <2>6 DEF InboxStep
  <1>11. ASSUME NEW n \in Node, AnnounceFound(n)
         PROVE  inbox' \in [Ends -> Messages] /\ \A d \in Ends : InboxStep(d)
    <2> DEFINE m == Announcement(miner[n][2])
    <2>1. m \in Message /\ \A d \in Ends : Fits(d, m)
      BY <1>11, AnnounceParts DEF Fits
    <2>2. /\ inbox' \in [Ends -> Messages]
          /\ \A d \in Ends : inbox'[d] = inbox[d] \/ inbox'[d] = Append(inbox[d], m)
      BY <1>11, AnnounceParts
    <2> HIDE DEF m
    <2> QED
      BY <2>1, <2>2 DEF InboxStep
  <1> QED
    BY <1>2, <1>3, <1>4, <1>6, <1>7, <1>8, <1>9, <1>10, <1>11, QueueSteps
       DEF QueueStep, SyncStep, Answers

\* Which threads send, and which hold a version they have checked, changes only
\* in the steps named.
LEMMA PlaceSteps ==
    ASSUME TypesInv, TableIsThreads, MsgInv, DialledInv, [SyncNext]_vars
    PROVE  \/ \E e \in Ends : AskPeer(e) \/ Answers(e) \/ SendNext(e)
           \/ /\ todo' = todo
              /\ \A d \in Ends : /\ thread'[d] = "send" <=> thread[d] = "send"
                                 /\ thread'[d] = "checked" => thread[d] = "checked" \/ CheckVersion(d)
  <1> DEFINE Same == \A d \in Ends :
                        /\ thread'[d] = "send" <=> thread[d] = "send"
                        /\ thread'[d] = "checked" => thread[d] = "checked" \/ CheckVersion(d)
  <1>0. thread \in [Ends -> Places]
    BY DEF TypesInv
  <1>1. ASSUME NEW e \in Ends, NEW place \in {"read", "leave", "lost", "tip"},
               thread[e] \in {"hello", "read", "checked"}, Goto(e, place)
        PROVE  Same
    BY <1>0, <1>1 DEF Goto
  <1>2. thread' = thread => Same
    OBVIOUS
  <1>3. ASSUME NEW c \in Conn, Opens(c) PROVE Same
    <2>1. \A d \in Ends : d[1] # c => thread'[d] = thread[d]
      BY <1>3, OpensThreads
    <2>2. /\ thread'[<<c, "out">>] # thread[<<c, "out">>] =>
                /\ thread[<<c, "out">>] \in {"none", "dialling"}
                /\ thread'[<<c, "out">>] \in {"dialling", "gone", "start"}
          /\ thread'[<<c, "in">>] # thread[<<c, "in">>] =>
                /\ thread[<<c, "in">>] \in {"unused", "none", "backlog"}
                /\ thread'[<<c, "in">>] \in {"backlog", "gone", "start"}
      BY <1>3, OpensThreads DEF Opens
    <2> QED
      BY <2>1, <2>2, OutEnds
  <1>4. ASSUME NEW e \in Ends, Moves(e) PROVE Same
    <2>1. thread[e] \in {"start", "leave", "left"} /\ thread'[e] \in {"hello", "left", "gone"}
      BY <1>4, MovesThread DEF Moves
    <2> QED
      BY <1>4, <2>1, MovesThread
  <1>5. ASSUME NEW e \in Ends, CheckVersion(e) PROVE Same
    <2>1. thread[e] = "read" /\ thread'[e] \in {"leave", "checked"}
      BY <1>0, <1>5 DEF CheckVersion, Reads, Goto
    <2>2. \A d \in Ends \ {e} : thread'[d] = thread[d]
      BY <1>0, <1>5 DEF CheckVersion, Goto
    <2> QED
      BY <1>5, <2>1, <2>2
  <1>6. ASSUME NEW e \in Ends,
               Hello(e) \/ StoreNonce(e) \/ ReadEnds(e) \/ ReadTimesOut(e) \/ WireError(e)
        PROVE  Same
    <2>1. /\ thread[e] \in {"hello", "read", "checked"}
          /\ \E place \in {"read", "leave", "lost", "tip"} : Goto(e, place)
      BY <1>6 DEF Hello, StoreNonce, ReadEnds, ReadTimesOut, WireError
    <2> HIDE DEF Same
    <2> QED
      BY <1>1, <2>1
  <1>7. ASSUME NEW e \in Ends, SyncVerack(e) PROVE Same /\ todo' = todo
    <2>1. thread[e] = "read" /\ Goto(e, "tip") /\ todo' = todo
      BY <1>7, StepParts
    <2> HIDE DEF Same
    <2> QED
      BY <1>1, <2>1
  <1>8. ASSUME NEW e \in Ends, ReadAddr(e) PROVE Same /\ todo' = todo
    <2>1. \A d \in Ends : thread'[d] = thread[d] \/ (thread[d] = "unused" /\ thread'[d] = "none")
      BY <1>8, LearnsUnused
    <2>2. todo' = todo
      BY <1>8 DEF ReadAddr
    <2> QED
      BY <2>1, <2>2
  <1> HIDE DEF Same
  <1>9. CASE ConnNext /\ UNCHANGED syncVars
    <2>1. todo' = todo
      BY <1>9 DEF syncVars
    <2>2. Same
      BY <1>3, <1>4, <1>5, <1>6, <1>9 DEF ConnNext, ConnStep, Opens, Moves
    <2> QED
      BY <2>1, <2>2 DEF Same
  <1>10. CASE \E e \in Ends : SyncStep(e)
    BY <1>7, <1>8, <1>10 DEF SyncStep, Answers, Same
  <1>11. CASE \E n \in Node : \/ \E m \in Node : WindowMoves(n, m)
                              \/ \E b \in Block : TakeTemplate(n, b) \/ FetchTemplate(n, b)
                              \/ FindBlock(n) \/ AnnounceFound(n) \/ SubmitBlock(n) \/ RejectBlock(n)
    <2>1. thread' = thread /\ todo' = todo
      BY <1>11 DEF WindowMoves, TakeTemplate, FetchTemplate, Template, FindBlock, AnnounceFound,
                   SubmitBlock, RejectBlock, peerVars
    <2> QED
      BY <1>2, <2>1 DEF Same
  <1>12. CASE UNCHANGED vars
    <2>1. thread' = thread /\ todo' = todo
      BY <1>12 DEF vars, peerVars, syncVars
    <2> QED
      BY <1>2, <2>1 DEF Same
  <1> QED
    BY <1>9, <1>10, <1>11, <1>12 DEF SyncNext

\* What is to be sent stays typed, and a thread sends as long as it has to.
LEMMA TodoStep ==
    ASSUME TypesInv, TableIsThreads, MsgInv, DialledInv, [SyncNext]_vars
    PROVE  /\ todo' \in [Ends -> Tasks]
           /\ \A d \in Ends :
                 /\ \A i \in 1..Len(todo'[d]) : todo'[d][i].msg[1] \notin {"version", "verack"}
                 /\ thread'[d] = "send" <=> todo'[d] # <<>>
                 /\ thread'[d] = "checked" => thread[d] = "checked" \/ CheckVersion(d)
  <1> DEFINE Fine(s) == \A i \in 1..Len(s) : s[i].msg[1] \notin {"version", "verack"}
  <1>0. /\ todo \in [Ends -> Tasks] /\ thread \in [Ends -> Places]
        /\ \A d \in Ends : Fine(todo[d]) /\ (thread[d] = "send" <=> todo[d] # <<>>)
    BY DEF TypesInv, MsgInv
  <1> HIDE DEF Fine
  <1>1. ASSUME NEW e \in Ends, NEW s \in Tasks, todo' = [todo EXCEPT ![e] = s], Fine(s),
               NEW place \in {"read", "send"}, Goto(e, place), place = "send" <=> s # <<>>
        PROVE  /\ todo' \in [Ends -> Tasks]
               /\ \A d \in Ends :
                     /\ Fine(todo'[d])
                     /\ thread'[d] = "send" <=> todo'[d] # <<>>
                     /\ thread'[d] = "checked" => thread[d] = "checked" \/ CheckVersion(d)
    <2>1. \A d \in Ends : /\ todo'[d] = IF d = e THEN s ELSE todo[d]
                          /\ thread'[d] = IF d = e THEN place ELSE thread[d]
      BY <1>0, <1>1 DEF Goto
    <2>2. todo' \in [Ends -> Tasks]
      BY <1>0, <1>1
    <2> QED
      BY <1>0, <1>1, <2>1, <2>2
  <1>2. ASSUME NEW e \in Ends, AskPeer(e)
        PROVE  \E s \in Tasks, place \in {"read", "send"} :
                  /\ todo' = [todo EXCEPT ![e] = s] /\ Fine(s)
                  /\ Goto(e, place) /\ (place = "send" <=> s # <<>>)
    <2> DEFINE m == <<"getblocks", tip[Owner(e)]>>
               k == <<"getaddr">>
               s == <<Reply(m), Reply(k)>>
    <2>1. m \in Message /\ k \in Message
      BY EndFacts, MessageParts DEF TypesInv
    <2>2. Reply(m) \in Task /\ Reply(k) \in Task /\ Reply(m).msg = m /\ Reply(k).msg = k
      BY <2>1, TaskTypes
    <2>3. s \in Tasks /\ s # <<>> /\ Len(s) = 2
      BY <2>2 DEF Tasks
    <2>4. Fine(s)
      BY <2>2 DEF Fine
    <2>5. todo' = [todo EXCEPT ![e] = s] /\ Goto(e, "send")
      BY <1>2, StepParts
    <2> HIDE DEF s
    <2> QED
      BY <2>3, <2>4, <2>5
  <1>3. ASSUME NEW e \in Ends, Answers(e)
        PROVE  \E s \in Tasks, place \in {"read", "send"} :
                  /\ todo' = [todo EXCEPT ![e] = s] /\ Fine(s)
                  /\ Goto(e, place) /\ (place = "send" <=> s # <<>>)
    <2>1. PICK out \in Tasks : Answer(e, out) /\ Fine(out)
      BY <1>3, AnswerTypes DEF Fine
    <2>2. todo' = [todo EXCEPT ![e] = out] /\ Goto(e, IF out = <<>> THEN "read" ELSE "send")
      BY <2>1 DEF Answer
    <2> QED
      BY <2>1, <2>2
  <1>4. ASSUME NEW e \in Ends, SendNext(e)
        PROVE  \E s \in Tasks, place \in {"read", "send"} :
                  /\ todo' = [todo EXCEPT ![e] = s] /\ Fine(s)
                  /\ Goto(e, place) /\ (place = "send" <=> s # <<>>)
    <2> DEFINE s == Tail(todo[e])
    <2>1. /\ s \in Tasks /\ Len(s) = Len(todo[e]) - 1
          /\ \A i \in 1..Len(s) : s[i] = todo[e][i + 1]
          /\ todo' = [todo EXCEPT ![e] = s]
          /\ Goto(e, IF s = <<>> THEN "read" ELSE "send")
      BY <1>4, SendParts
    <2> HIDE DEF s
    <2>2. Len(todo[e]) \in Nat
      BY <1>0, Queues DEF Tasks
    <2>3. \A i \in 1..Len(s) : i + 1 \in 1..Len(todo[e])
      BY <2>1, <2>2
    <2>4. Fine(s)
      BY <1>0, <2>1, <2>3 DEF Fine
    <2> QED
      BY <2>1, <2>4
  <1>5. ASSUME todo' = todo,
               \A d \in Ends : /\ thread'[d] = "send" <=> thread[d] = "send"
                               /\ thread'[d] = "checked" => thread[d] = "checked" \/ CheckVersion(d)
        PROVE  /\ todo' \in [Ends -> Tasks]
               /\ \A d \in Ends :
                     /\ Fine(todo'[d])
                     /\ thread'[d] = "send" <=> todo'[d] # <<>>
                     /\ thread'[d] = "checked" => thread[d] = "checked" \/ CheckVersion(d)
    BY <1>0, <1>5
  <1> QED
    BY <1>1, <1>2, <1>3, <1>4, <1>5, PlaceSteps DEF Fine

\* What is on the way stays in order.
LEMMA MsgStep ==
    ASSUME TypesInv, TableIsThreads, MsgInv, DialledInv, [SyncNext]_vars
    PROVE  MsgInv'
  <1>0. /\ \A d \in Ends : inbox[d] \in Seq(Message)
        /\ \A d \in Ends : InboxStep(d)
    BY InboxSteps DEF TypesInv, Messages
  <1>1. \A d \in Ends :
           /\ \A i \in 1..Len(todo'[d]) : todo'[d][i].msg[1] \notin {"version", "verack"}
           /\ thread'[d] = "send" <=> todo'[d] # <<>>
    BY TodoStep
  <1>2. ASSUME NEW d \in Ends, NEW i \in 1..Len(inbox'[d]) PROVE Fits(d, inbox'[d][i])
    <2>0. \A j \in 1..Len(inbox[d]) : Fits(d, inbox[d][j])
      BY DEF MsgInv, Fits
    <2>1. CASE inbox'[d] = inbox[d]
      BY <1>2, <2>0, <2>1
    <2>2. CASE inbox[d] # <<>> /\ inbox'[d] = Tail(inbox[d])
      <3>1. /\ Len(inbox[d]) \in Nat /\ Len(inbox'[d]) = Len(inbox[d]) - 1
            /\ inbox'[d][i] = inbox[d][i + 1]
        BY <1>0, <1>2, <2>2, Queues
      <3>2. i + 1 \in 1..Len(inbox[d])
        BY <1>2, <3>1
      <3> QED
        BY <2>0, <3>1, <3>2
    <2>3. ASSUME NEW m \in Message, Fits(d, m), inbox'[d] = Append(inbox[d], m)
          PROVE  Fits(d, inbox'[d][i])
      <3>1. /\ Len(inbox[d]) \in Nat /\ Len(inbox'[d]) = Len(inbox[d]) + 1
            /\ inbox'[d][Len(inbox[d]) + 1] = m
            /\ \A j \in 1..Len(inbox[d]) : inbox'[d][j] = inbox[d][j]
        BY <1>0, <2>3, Queues
      <3>2. i \in 1..Len(inbox[d]) \/ i = Len(inbox[d]) + 1
        BY <1>2, <3>1
      <3> QED
        BY <2>0, <2>3, <3>1, <3>2
    <2> QED
      BY <1>0, <2>1, <2>2, <2>3 DEF InboxStep
  <1>3. ASSUME NEW d \in Ends, thread'[d] = "checked"
        PROVE  /\ inbox'[d] # <<>> /\ Head(inbox'[d])[1] = "version"
               /\ Owner(d) # Owner(Remote(d))
    <2>1. CASE thread[d] = "checked"
      <3>1. inbox[d] # <<>> /\ Head(inbox[d])[1] = "version" /\ Owner(d) # Owner(Remote(d))
        BY <2>1 DEF MsgInv
      <3>2. CASE inbox'[d] = inbox[d]
        BY <3>1, <3>2
      <3>3. ASSUME NEW m \in Message, inbox'[d] = Append(inbox[d], m)
            PROVE  inbox'[d] # <<>> /\ Head(inbox'[d]) = Head(inbox[d])
        <4>1. inbox'[d] \in Seq(Message) /\ Len(inbox'[d]) = Len(inbox[d]) + 1 /\ Len(inbox[d]) > 0
              /\ Len(inbox[d]) \in Nat /\ inbox'[d][1] = inbox[d][1] /\ Head(inbox[d]) = inbox[d][1]
          BY <1>0, <3>1, <3>3, Queues
        <4>2. inbox'[d] # <<>>
          BY <4>1
        <4>3. Head(inbox'[d]) = inbox'[d][1]
          BY <4>1, <4>2, Queues
        <4> QED
          BY <4>1, <4>2, <4>3
      <3> QED
        BY <1>0, <1>3, <3>1, <3>2, <3>3 DEF InboxStep
    <2>2. CASE CheckVersion(d)
      <3>1. /\ inbox[d] # <<>> /\ Head(inbox[d])[1] = "version" /\ inbox' = inbox
            /\ thread'[d] = IF Refused(d, Head(inbox[d])[2]) THEN "leave" ELSE "checked"
        BY <2>2 DEF CheckVersion, Reads, Goto, TypesInv
      <3>2. Head(inbox[d])[2] # Owner(d)
        BY <1>3, <3>1 DEF Refused
      <3>3. Head(inbox[d]) = inbox[d][1] /\ 1 \in 1..Len(inbox[d])
        BY <1>0, <3>1, Queues
      <3>4. Head(inbox[d])[2] = Owner(Remote(d))
        BY <3>1, <3>3 DEF MsgInv
      <3> QED
        BY <3>1, <3>2, <3>4
    <2> QED
      BY <1>3, <2>1, <2>2, TodoStep
  <1> QED
    BY <1>1, <1>2, <1>3 DEF MsgInv, Fits

\* A handshake that is done has two nodes.
ShakeInv ==
    \A n \in Node : \A a \in DOMAIN peers[n] :
        peers[n][a].handshaked =>
            Owner(peers[n][a].end) # Owner(Remote(peers[n][a].end))

\* An entry that is replaced keeps it.
LEMMA ShakeSet ==
    ASSUME TypesInv, ShakeInv, NEW e \in Ends, NEW p, SetEntry(e, p),
           p.handshaked => Owner(p.end) # Owner(Remote(p.end))
    PROVE  ShakeInv'
  <1>1. /\ Addr(e) \in DOMAIN peers'[Owner(e)] /\ peers'[Owner(e)][Addr(e)] = p
        /\ \A n \in Node : \A a : n # Owner(e) \/ a # Addr(e) =>
              /\ a \in DOMAIN peers'[n] <=> a \in DOMAIN peers[n]
              /\ a \in DOMAIN peers[n] => peers'[n][a] = peers[n][a]
    BY EntrySet
  <1> QED
    BY <1>1 DEF ShakeInv

\* Every step keeps it.
LEMMA ShakeStep ==
    ASSUME TypesInv, TableIsThreads, MsgInv, ShakeInv, [SyncNext]_vars
    PROVE  ShakeInv'
  <1>0. peers' = peers => ShakeInv'
    BY DEF ShakeInv
  <1>1. ASSUME NEW e \in Ends, Register(e) PROVE ShakeInv'
    <2>1. SetEntry(e, NewPeer(e)) /\ ~NewPeer(e).handshaked
      BY <1>1 DEF Register, NewPeer
    <2> QED
      BY <2>1, ShakeSet
  <1>2. ASSUME NEW e \in Ends, StoreNonce(e) PROVE ShakeInv'
    <2>1. thread[e] \in InTable
      BY <1>2, StepParts DEF InTable
    <2>2. HasEntry(e) /\ Table(e)[Addr(e)].end = e /\ Table(e)[Addr(e)] \in Peer
      BY <2>1, EndFacts DEF TableIsThreads, TypesInv, HasEntry, Table
    <2> DEFINE p == [Table(e)[Addr(e)] EXCEPT !.nonce = Head(inbox[e])[2]]
    <2>3. SetEntry(e, p)
      BY <1>2, <2>2 DEF StoreNonce
    <2>4. p.end = e /\ p.handshaked = Table(e)[Addr(e)].handshaked
      BY <2>2 DEF Peer
    <2>5. p.handshaked => Owner(p.end) # Owner(Remote(p.end))
      BY <2>2, <2>4, EndFacts DEF ShakeInv, HasEntry, Table
    <2> HIDE DEF p
    <2> QED
      BY <2>3, <2>5, ShakeSet
  <1>3. ASSUME NEW e \in Ends, SyncVerack(e) PROVE ShakeInv'
    <2>1. thread[e] \in InTable /\ inbox[e] # <<>> /\ Head(inbox[e])[1] = "verack"
      BY <1>3 DEF SyncVerack, HandshakeDone, Reads, InTable
    <2>2. HasEntry(e) /\ Table(e)[Addr(e)].end = e /\ Table(e)[Addr(e)] \in Peer
      BY <2>1, EndFacts DEF TableIsThreads, TypesInv, HasEntry, Table
    <2> DEFINE p == [Table(e)[Addr(e)] EXCEPT !.handshaked = TRUE]
    <2>3. SetEntry(e, p)
      BY <1>3, <2>2 DEF SyncVerack, HandshakeDone
    <2>4. p.end = e
      BY <2>2 DEF Peer
    <2>5. Head(inbox[e]) = inbox[e][1] /\ 1 \in 1..Len(inbox[e])
      BY <2>1, FirstMessage
    <2>6. Owner(e) # Owner(Remote(e))
      BY <2>1, <2>5 DEF MsgInv
    <2> HIDE DEF p
    <2> QED
      BY <2>3, <2>4, <2>6, ShakeSet
  <1>4. ASSUME NEW e \in Ends, LeaveTable(e) PROVE ShakeInv'
    <2>0. DOMAIN peers = Node
      BY DEF TypesInv
    <2>1. \A n \in Node : peers'[n] = IF n = Owner(e)
              THEN [a \in DOMAIN peers[n] \ {Addr(e)} |-> peers[n][a]] ELSE peers[n]
      BY <1>4, <2>0 DEF LeaveTable, Restrict
    <2>2. ASSUME NEW n \in Node, NEW a \in DOMAIN peers'[n]
          PROVE  a \in DOMAIN peers[n] /\ peers'[n][a] = peers[n][a]
      <3>1. CASE n = Owner(e)
        <4>1. a \in DOMAIN peers[n] \ {Addr(e)}
          BY <2>1, <2>2, <3>1
        <4> QED
          BY <2>1, <3>1, <4>1
      <3>2. CASE n # Owner(e)
        BY <2>1, <2>2, <3>2
      <3> QED
        BY <3>1, <3>2
    <2> QED
      BY <2>2 DEF ShakeInv
  <1>5. SUFFICES ASSUME peers' # peers,
                        ~(\E e \in Ends : Register(e) \/ SyncVerack(e) \/ StoreNonce(e)
                                          \/ LeaveTable(e))
                 PROVE  FALSE
    BY <1>0, <1>1, <1>2, <1>3, <1>4
  <1>6. CASE ConnNext /\ UNCHANGED syncVars
    BY <1>5, <1>6 DEF ConnNext, ConnStep, Dial, Skip, Established, ConnectFails, Listen, Hello,
           CheckVersion, ReadEnds, LeaveConnecting, ReadTimesOut, WireError
  <1>7. CASE \E e \in Ends : SyncStep(e)
    BY <1>5, <1>7 DEF SyncStep, AskPeer, ReadGetBlocks, ReadInv, ReadGetData, AcceptBlock,
           DropBlock, SendNext, ReadGetAddr, ReadAddr, Untouched
  <1>8. CASE \E n \in Node : \/ \E m \in Node : WindowMoves(n, m)
                             \/ \E b \in Block : TakeTemplate(n, b) \/ FetchTemplate(n, b)
                             \/ FindBlock(n) \/ AnnounceFound(n) \/ SubmitBlock(n) \/ RejectBlock(n)
    BY <1>5, <1>8 DEF WindowMoves, TakeTemplate, FetchTemplate, Template, FindBlock, AnnounceFound,
                SubmitBlock, RejectBlock, peerVars, Untouched
  <1> QED
    BY <1>5, <1>6, <1>7, <1>8 DEF SyncNext, vars, peerVars

\* The inductive invariant of the connections.
ConnInv ==
    /\ TypesInv /\ TableIsThreads /\ UniqueInv /\ ConnectingInv /\ DialledInv /\ MsgInv
    /\ ShakeInv

\* It holds at first.
LEMMA ConnInvInit == SyncInit => ConnInv
  <1> SUFFICES ASSUME SyncInit PROVE ConnInv
    OBVIOUS
  <1>1. PICK s \in Starts :
          /\ InitWith(s.dialled) /\ have = s.have /\ tip = s.tip /\ start = s /\ known = s.have
          /\ addrs = [n \in Node |-> {c.to : c \in {d \in s.dialled : d.from = n}}]
          /\ todo = [e \in Ends |-> <<>>] /\ miner = [n \in Node |-> <<"idle">>]
    BY DEF SyncInit
  <1>2. s.dialled \subseteq Conn /\ s.have \in [Node -> SUBSET Block]
        /\ s.tip \in [Node -> Block \cup {Zero}]
    BY SyncAssumption
  <1>3. /\ peers = [n \in Node |-> [a \in {} |-> None]]
        /\ connecting = [n \in Node |-> {}]
        /\ thread = [e \in Ends |-> IF e[1] \in s.dialled THEN "none" ELSE "unused"]
        /\ inbox = [e \in Ends |-> <<>>]
    BY <1>1 DEF InitWith
  <1>4. /\ DOMAIN peers = Node /\ \A n \in Node : DOMAIN peers[n] = {}
        /\ \A n \in Node : connecting[n] = {}
        /\ \A e \in Ends : /\ thread[e] = IF e[1] \in s.dialled THEN "none" ELSE "unused"
                           /\ inbox[e] = <<>> /\ todo[e] = <<>>
    BY <1>1, <1>3
  <1>5. <<>> \in Messages /\ <<>> \in Tasks
    BY Queues DEF Messages, Tasks
  <1>6. \A c \in Conn : c.from \in Node /\ c.to \in Node
    BY EndFacts
  <1>7. TypesInv
    <2>1. addrs \in [Node -> SUBSET Node]
      BY <1>1, <1>2, <1>6
    <2>2. thread \in [Ends -> Places] /\ inbox \in [Ends -> Messages] /\ todo \in [Ends -> Tasks]
      BY <1>1, <1>3, <1>5 DEF Places
    <2>3. connecting \in [Node -> SUBSET {Listening(n) : n \in Node}]
      BY <1>3
    <2>4. miner \in [Node -> {<<"idle">>} \cup ({"search", "pool", "found"} \X Block)]
      BY <1>1
    <2> QED
      BY <1>1, <1>2, <1>4, <2>1, <2>2, <2>3, <2>4 DEF TypesInv
  <1>8. \A e \in Ends : thread[e] \in {"none", "unused"} /\ Owner(e) \in Node
    BY <1>4, EndFacts
  <1>9. TableIsThreads /\ UniqueInv /\ ShakeInv
    BY <1>4, <1>8 DEF TableIsThreads, UniqueInv, ShakeInv, Alive, InTable
  <1>10. ConnectingInv
    BY <1>4, <1>8, EndFacts DEF ConnectingInv, Alive, InTable
  <1>11. DialledInv
    <2> SUFFICES ASSUME NEW c \in Conn
                 PROVE  /\ thread[<<c, "out">>] # "unused" => c.to \in addrs[c.from]
                        /\ thread[<<c, "in">>] \in {"none", "unused"}
                        /\ thread[<<c, "out">>] \in {"none", "unused"}
      BY DEF DialledInv
    <2>1. <<c, "out">> \in Ends /\ <<c, "in">> \in Ends /\ c.from \in Node
      BY EndFacts
    <2>2. thread[<<c, "out">>] # "unused" => c \in s.dialled
      BY <1>4, <2>1
    <2>3. addrs[c.from] = {d.to : d \in {x \in s.dialled : x.from = c.from}}
      BY <1>1, <2>1
    <2> QED
      BY <1>8, <2>1, <2>2, <2>3
  <1>12. MsgInv
    BY <1>4, <1>8 DEF MsgInv
  <1> QED
    BY <1>7, <1>9, <1>10, <1>11, <1>12 DEF ConnInv

\* Every step keeps it.
LEMMA ConnInvStep == ConnInv /\ [SyncNext]_vars => ConnInv'
  <1> SUFFICES ASSUME ConnInv, [SyncNext]_vars PROVE ConnInv'
    OBVIOUS
  <1>0. /\ TypesInv /\ TableIsThreads /\ UniqueInv /\ ConnectingInv /\ DialledInv /\ MsgInv
        /\ ShakeInv
    BY DEF ConnInv
  <1>1. TypesInv'
    <2>1. /\ DOMAIN peers' = Node
          /\ \A n \in Node : \A a \in DOMAIN peers'[n] : peers'[n][a] \in Peer
      BY <1>0, PeersTypes
    <2>2. /\ connecting' \in [Node -> SUBSET {Listening(n) : n \in Node}]
          /\ thread' \in [Ends -> Places] /\ addrs' \in [Node -> SUBSET Node]
          /\ start' \in Starts
      BY <1>0, ThreadTypes
    <2>3. /\ have' \in [Node -> SUBSET Block] /\ known' = have'
          /\ tip' \in [Node -> Block \cup {Zero}]
          /\ miner' \in [Node -> {<<"idle">>} \cup ({"search", "pool", "found"} \X Block)]
      BY <1>0, StoreTypes
    <2>4. inbox' \in [Ends -> Messages] /\ todo' \in [Ends -> Tasks]
      BY <1>0, InboxSteps, TodoStep
    <2> QED
      BY <2>1, <2>2, <2>3, <2>4 DEF TypesInv
  <1>2. TableIsThreads' /\ UniqueInv' /\ ConnectingInv' /\ DialledInv'
    BY <1>0, TableStep, UniqueStep, ConnectingStep, DialledStep
  <1>3. MsgInv' /\ ShakeInv'
    BY <1>0, MsgStep, ShakeStep
  <1> QED
    BY <1>1, <1>2, <1>3 DEF ConnInv

\* It holds in every reachable state.
THEOREM ConnInvariant == SyncSpec => []ConnInv
  BY ConnInvInit, ConnInvStep, PTL DEF SyncSpec

\* The peer table of a node has an entry for exactly the connections that a
\* thread reads, and for those it has lost on a frame that did not parse.
THEOREM TableCorrect == SyncSpec => []TableIsThreads
  <1>1. ConnInv => TableIsThreads
    BY DEF ConnInv
  <1> QED
    BY <1>1, ConnInvariant, PTL

\* An address is kept from being dialled only while a thread dials it or is
\* connected to it, whatever fails.
THEOREM ConnectingCorrect == SyncSpec => []ConnectingIsThreads
  <1>1. ConnInv => ConnectingIsThreads
    <2> SUFFICES ASSUME ConnInv, NEW n \in Node, NEW a \in connecting[n]
                 PROVE  \E e \in Ends : /\ Owner(e) = n /\ Addr(e) = a
                                        /\ thread[e] \notin {"none", "gone", "unused"}
      BY DEF ConnectingIsThreads
    <2>1. PICK c \in Conn : c.from = n /\ Listening(c.to) = a /\ thread[<<c, "out">>] \in Alive
      BY DEF ConnInv, ConnectingInv
    <2>2. thread[<<c, "out">>] \notin {"none", "gone", "unused"}
      BY <2>1 DEF Alive, InTable
    <2> QED
      BY <2>1, <2>2, EndFacts
  <1> QED
    BY <1>1, ConnInvariant, PTL

\* No node completes a handshake with itself, whatever address it dialled.
THEOREM NeverSelf == SyncSpec => []NoSelfPeer
  <1>1. ConnInv => NoSelfPeer
    <2> SUFFICES ASSUME ConnInv, NEW n \in Node, NEW a \in DOMAIN peers[n],
                        peers[n][a].handshaked
                 PROVE  peers[n][a].end[1].from # peers[n][a].end[1].to
      BY DEF NoSelfPeer
    <2> DEFINE e == peers[n][a].end
    <2>1. e \in Ends /\ Owner(e) # Owner(Remote(e))
      BY DEF ConnInv, TypesInv, Peer, ShakeInv
    <2> HIDE DEF e
    <2>2. e = <<e[1], "out">> \/ e = <<e[1], "in">>
      BY <2>1, OutEnds
    <2>3. e[1].from # e[1].to
      BY <2>1, <2>2 DEF Owner, Remote
    <2> QED
      BY <2>3 DEF e
  <1> QED
    BY <1>1, ConnInvariant, PTL

(***************************************************************************)
(* Parents first.                                                          *)
(***************************************************************************)

\* The store of a node has the ancestors of what it has.
StoreInv ==
    \A n \in Node :
        /\ tip[n] \in have[n] \cup {Zero}
        /\ \A b \in have[n] : Path[b] \subseteq have[n]
        /\ miner[n][1] \in {"search", "pool"} => Parent[miner[n][2]] \in have[n] \cup {Zero}

\* A header is accepted as soon as the parent is there.
LEMMA HeaderNeedsParent ==
    ASSUME NEW H, NEW b \in Block, Zero \notin H
    PROVE  HeaderOK(H, b) <=> Parent[b] \in H \cup {Zero}
  <1>1. /\ Height[b] = IF Parent[b] = Zero THEN 0 ELSE Height[Parent[b]] + 1
        /\ Parent[b] # Zero => Height[Parent[b]] \in Nat
    BY TreeAssumption, SyncAssumption
  <1> QED
    BY <1>1 DEF HeaderOK

\* A block whose parent is in the store.
LEMMA TakeKeepsStore ==
    ASSUME TypesInv, StoreInv, NEW n \in Node, NEW b \in Block, Take(n, b),
           Parent[b] \in have[n] \cup {Zero}
    PROVE  \A k \in Node : /\ have[k] \subseteq have'[k]
                           /\ tip'[k] \in have'[k] \cup {Zero}
                           /\ \A a \in have'[k] : Path[a] \subseteq have'[k]
                           /\ k = n => b \in have'[k]
  <1>1. /\ have \in [Node -> SUBSET Block] /\ tip \in [Node -> Block \cup {Zero}]
        /\ have' = [have EXCEPT ![n] = @ \cup {b}]
        /\ \E best \in have[n] \cup {b} : tip' = [tip EXCEPT ![n] = best]
    BY DEF Take, TypesInv
  <1>2. Path[b] = Path[Parent[b]] \cup {b} /\ Path[Zero] = {}
    BY PathAssumption
  <1>3. Path[b] \subseteq have[n] \cup {b}
    BY <1>2 DEF StoreInv
  <1>4. \A k \in Node : have'[k] = IF k = n THEN have[k] \cup {b} ELSE have[k]
    BY <1>1
  <1> QED
    BY <1>1, <1>3, <1>4 DEF StoreInv

\* Every step keeps the store in order, and nothing leaves it.
LEMMA StoreStep ==
    ASSUME TypesInv, StoreInv, [SyncNext]_vars
    PROVE  StoreInv' /\ \A n \in Node : have[n] \subseteq have'[n]
  <1>0. /\ inbox \in [Ends -> Messages] /\ \A n \in Node : have[n] \in SUBSET Block
        /\ miner \in [Node -> {<<"idle">>} \cup ({"search", "pool", "found"} \X Block)]
        /\ Zero \notin Block
    BY TreeAssumption DEF TypesInv
  <1>1. ASSUME UNCHANGED <<have, tip, miner>>
        PROVE  StoreInv' /\ \A n \in Node : have[n] \subseteq have'[n]
    BY <1>1 DEF StoreInv
  <1>2. ASSUME NEW e \in Ends, AcceptBlock(e)
        PROVE  StoreInv' /\ \A n \in Node : have[n] \subseteq have'[n]
    <2> DEFINE n == Owner(e)
               b == Payload(e)
    <2>1. /\ inbox[e] # <<>> /\ Head(inbox[e])[1] = "block" /\ Take(n, b) /\ HeaderOK(have[n], b)
          /\ miner' = miner
      BY <1>2 DEF AcceptBlock, Reads
    <2>2. n \in Node
      BY EndFacts
    <2>3. b \in Block
      BY <2>1, FirstMessage, MessageParts DEF Payload
    <2> HIDE DEF n, b
    <2>4. Parent[b] \in have[n] \cup {Zero}
      BY <1>0, <2>1, <2>2, <2>3, HeaderNeedsParent
    <2>5. \A k \in Node : /\ have[k] \subseteq have'[k]
                          /\ tip'[k] \in have'[k] \cup {Zero}
                          /\ \A a \in have'[k] : Path[a] \subseteq have'[k]
      BY <2>1, <2>2, <2>3, <2>4, TakeKeepsStore
    <2> QED
      BY <2>1, <2>5 DEF StoreInv
  <1>3. ASSUME NEW n \in Node, FindBlock(n) \/ SubmitBlock(n)
        PROVE  StoreInv' /\ \A k \in Node : have[k] \subseteq have'[k]
    <2> DEFINE b == miner[n][2]
    <2>1. /\ miner[n][1] \in {"search", "pool"} /\ Take(n, b)
          /\ miner' \in {[miner EXCEPT ![n] = <<"idle">>], [miner EXCEPT ![n] = <<"found", b>>]}
      BY <1>3 DEF FindBlock, SubmitBlock
    <2>2. b \in Block /\ Parent[b] \in have[n] \cup {Zero}
      BY <1>0, <2>1 DEF StoreInv
    <2>3. \A k \in Node : miner'[k] = miner[k] \/ (k = n /\ miner'[k][1] \in {"idle", "found"})
      BY <1>0, <2>1
    <2> HIDE DEF b
    <2>4. \A k \in Node : /\ have[k] \subseteq have'[k]
                          /\ tip'[k] \in have'[k] \cup {Zero}
                          /\ \A a \in have'[k] : Path[a] \subseteq have'[k]
      BY <2>1, <2>2, TakeKeepsStore
    <2> QED
      BY <2>3, <2>4 DEF StoreInv
  <1>4. ASSUME NEW n \in Node, NEW b \in Block, TakeTemplate(n, b) \/ FetchTemplate(n, b)
        PROVE  StoreInv' /\ \A k \in Node : have[k] \subseteq have'[k]
    <2>1. /\ Parent[b] = tip[n] /\ UNCHANGED <<have, tip>>
          /\ miner' \in {[miner EXCEPT ![n] = <<"search", b>>], [miner EXCEPT ![n] = <<"pool", b>>]}
      BY <1>4 DEF TakeTemplate, FetchTemplate, Template
    <2>2. \A k \in Node : miner'[k] = miner[k] \/ (k = n /\ miner'[k][2] = b)
      BY <1>0, <2>1
    <2> QED
      BY <2>1, <2>2 DEF StoreInv
  <1>5. ASSUME NEW n \in Node, AnnounceFound(n) \/ RejectBlock(n)
        PROVE  StoreInv' /\ \A k \in Node : have[k] \subseteq have'[k]
    <2>1. UNCHANGED <<have, tip>> /\ miner' = [miner EXCEPT ![n] = <<"idle">>]
      BY <1>5 DEF AnnounceFound, RejectBlock
    <2>2. \A k \in Node : miner'[k] = miner[k] \/ (k = n /\ miner'[k][1] = "idle")
      BY <1>0, <2>1
    <2> QED
      BY <2>1, <2>2 DEF StoreInv
  <1>6. CASE ConnNext /\ UNCHANGED syncVars
    BY <1>1, <1>6 DEF syncVars
  <1>7. ASSUME NEW e \in Ends, SyncStep(e), ~AcceptBlock(e)
        PROVE  UNCHANGED <<have, tip, miner>>
    BY <1>7 DEF SyncStep, SyncVerack, AskPeer, ReadGetBlocks, ReadInv,
             ReadGetData, DropBlock, SendNext, ReadGetAddr, ReadAddr, syncVars
  <1>8. ASSUME NEW n \in Node, \E m \in Node : WindowMoves(n, m)
        PROVE  UNCHANGED <<have, tip, miner>>
    BY <1>8 DEF WindowMoves
  <1>9. CASE UNCHANGED vars
    BY <1>1, <1>9 DEF vars, syncVars
  <1> QED
    BY <1>1, <1>2, <1>3, <1>4, <1>5, <1>6, <1>7, <1>8, <1>9 DEF SyncNext

\* A list of blocks in which each comes after its parent, unless that is in H.
GoodList(s, H) ==
    \A i \in 1..Len(s) :
        Parent[s[i]] \in H \cup {Zero} \/ \E j \in 1..(i - 1) : s[j] = Parent[s[i]]

\* What n may be told by m, with the stores N and M: a locator that m has, a list
\* of blocks of m that n can take in its order, or a request for blocks of n
\* whose answer m can take.
Said(M, N, msg) ==
    /\ msg[1] = "getblocks" => msg[2] \in M \cup {Zero}
    /\ msg[1] = "inv" => /\ GoodList(msg[2], N)
                         /\ \A i \in 1..Len(msg[2]) : msg[2][i] \in M
    /\ msg[1] = "getdata" => /\ GoodList(msg[2], M)
                             /\ \A i \in 1..Len(msg[2]) : msg[2][i] \in N
SaidTo(m, n, msg) == Said(have[m], have[n], msg)

\* It stays so while stores grow.
LEMMA SaidStays ==
    ASSUME NEW M, NEW N, NEW msg, Said(M, N, msg), NEW P, NEW Q, M \subseteq P, N \subseteq Q
    PROVE  Said(P, Q, msg)
  <1>1. \A s : GoodList(s, M) => GoodList(s, P)
    BY DEF GoodList
  <1>2. \A s : GoodList(s, N) => GoodList(s, Q)
    BY DEF GoodList
  <1> QED
    BY <1>1, <1>2 DEF Said

\* The blocks among the messages in q, and among those in s that are to follow
\* them, each come after their parents, unless those are in H.
BlockMsg(b) == <<"block", b>>
Coming(q, H) ==
    \A i \in 1..Len(q) : q[i][1] = "block" =>
        \/ Parent[q[i][2]] \in H
        \/ \E j \in 1..(i - 1) : q[j] = BlockMsg(Parent[q[i][2]])
Following(s, q, H) ==
    \A i \in 1..Len(s) : ~s[i].wide /\ s[i].msg[1] = "block" =>
        \/ Parent[s[i].msg[2]] \in H
        \/ \E j \in 1..Len(q) : q[j] = BlockMsg(Parent[s[i].msg[2]])
        \/ \E j \in 1..(i - 1) : ~s[j].wide /\ s[j].msg = BlockMsg(Parent[s[i].msg[2]])

\* More blocks are there.
LEMMA ComingGrows ==
    ASSUME NEW q, NEW s, NEW H, NEW G, H \subseteq G
    PROVE  /\ Coming(q, H) => Coming(q, G)
           /\ Following(s, q, H) => Following(s, q, G)
  BY DEF Coming, Following

\* The first message is taken: a block that is then there.
LEMMA ComingTail ==
    ASSUME NEW q \in Seq(Message), q # <<>>, NEW s, NEW H,
           q[1][1] = "block" => q[1][2] \in H
    PROVE  /\ Coming(q, H) => Coming(Tail(q), H)
           /\ Following(s, q, H) => Following(s, Tail(q), H)
  <1>1. /\ Len(q) \in Nat /\ Len(q) > 0 /\ Len(Tail(q)) = Len(q) - 1
        /\ \A i \in 1..Len(Tail(q)) : Tail(q)[i] = q[i + 1]
    BY Queues
  <1> DEFINE t == Tail(q)
  <1> HIDE DEF t
  <1>2. Len(t) = Len(q) - 1 /\ \A i \in 1..Len(t) : t[i] = q[i + 1]
    BY <1>1 DEF t
  <1>3. \A b : q[1] = BlockMsg(b) => b \in H
    BY DEF BlockMsg
  <1>4. ASSUME NEW k \in 1..Len(q) + 1, NEW b, b \notin H, \E j \in 1..(k - 1) : q[j] = BlockMsg(b)
        PROVE  \E j \in 1..(k - 2) : t[j] = BlockMsg(b)
    <2>1. PICK j \in 1..(k - 1) : q[j] = BlockMsg(b)
      BY <1>4
    <2>2. j # 1
      BY <1>3, <1>4, <2>1
    <2>3. j - 1 \in 1..(k - 2) /\ j - 1 \in 1..Len(t) /\ (j - 1) + 1 = j
      BY <1>1, <1>2, <2>2
    <2>4. t[j - 1] = BlockMsg(b)
      BY <1>2, <2>1, <2>3
    <2> QED
      BY <2>3, <2>4
  <1>5. ASSUME Coming(q, H) PROVE Coming(t, H)
    <2> SUFFICES ASSUME NEW i \in 1..Len(t), t[i][1] = "block", Parent[t[i][2]] \notin H
                 PROVE  \E j \in 1..(i - 1) : t[j] = BlockMsg(Parent[t[i][2]])
      BY DEF Coming
    <2>1. i + 1 \in 1..Len(q) /\ t[i] = q[i + 1] /\ (i + 1) - 2 = i - 1 /\ (i + 1) - 1 = i
          /\ i + 1 \in 1..Len(q) + 1
      BY <1>1, <1>2
    <2>2. \E j \in 1..((i + 1) - 1) : q[j] = BlockMsg(Parent[t[i][2]])
      BY <1>5, <2>1 DEF Coming
    <2>3. \E j \in 1..((i + 1) - 2) : t[j] = BlockMsg(Parent[t[i][2]])
      BY <1>4, <2>1, <2>2
    <2> QED
      BY <2>1, <2>3
  <1>6. ASSUME Following(s, q, H) PROVE Following(s, t, H)
    <2>1. Len(q) + 1 \in 1..Len(q) + 1 /\ (Len(q) + 1) - 1 = Len(q) /\ (Len(q) + 1) - 2 = Len(t)
      BY <1>1, <1>2
    <2>2. \A b : b \notin H /\ (\E j \in 1..((Len(q) + 1) - 1) : q[j] = BlockMsg(b)) =>
                     \E j \in 1..((Len(q) + 1) - 2) : t[j] = BlockMsg(b)
      BY <1>4, <2>1
    <2>3. \A b : b \notin H /\ (\E j \in 1..Len(q) : q[j] = BlockMsg(b)) =>
                     \E j \in 1..Len(t) : t[j] = BlockMsg(b)
      BY <2>1, <2>2
    <2> QED
      BY <1>6, <2>3 DEF Following
  <1> QED
    BY <1>5, <1>6 DEF t

\* A message is put at the end.
LEMMA ComingAppend ==
    ASSUME NEW q \in Seq(Message), NEW m \in Message, NEW s, NEW H,
           m[1] = "block" => \/ Parent[m[2]] \in H
                             \/ \E j \in 1..Len(q) : q[j] = BlockMsg(Parent[m[2]])
    PROVE  /\ Coming(q, H) => Coming(Append(q, m), H)
           /\ Following(s, q, H) => Following(s, Append(q, m), H)
  <1> DEFINE t == Append(q, m)
  <1>1. /\ Len(q) \in Nat /\ Len(t) = Len(q) + 1 /\ t[Len(q) + 1] = m
        /\ \A i \in 1..Len(q) : t[i] = q[i]
    BY Queues
  <1> HIDE DEF t
  <1>2. ASSUME Coming(q, H) PROVE Coming(t, H)
    <2> SUFFICES ASSUME NEW i \in 1..Len(t), t[i][1] = "block", Parent[t[i][2]] \notin H
                 PROVE  \E j \in 1..(i - 1) : t[j] = BlockMsg(Parent[t[i][2]])
      BY DEF Coming
    <2>1. CASE i \in 1..Len(q)
      <3>1. PICK j \in 1..(i - 1) : q[j] = BlockMsg(Parent[q[i][2]])
        BY <1>1, <1>2, <2>1 DEF Coming
      <3>2. t[j] = q[j] /\ t[i] = q[i]
        BY <1>1, <2>1
      <3> QED
        BY <3>1, <3>2
    <2>2. CASE i = Len(q) + 1
      <3>1. PICK j \in 1..Len(q) : q[j] = BlockMsg(Parent[m[2]])
        BY <1>1, <2>2
      <3>2. j \in 1..(i - 1) /\ t[j] = q[j] /\ t[i] = m
        BY <1>1, <2>2
      <3> QED
        BY <3>1, <3>2
    <2> QED
      BY <1>1, <2>1, <2>2
  <1>3. ASSUME Following(s, q, H) PROVE Following(s, t, H)
    <2>1. \A j \in 1..Len(q) : j \in 1..Len(t) /\ t[j] = q[j]
      BY <1>1
    <2> QED
      BY <1>3, <2>1 DEF Following
  <1> QED
    BY <1>2, <1>3 DEF t

\* The first task is done: it is put at the end of the messages, if it is not an
\* announcement.
LEMMA FollowingTail ==
    ASSUME NEW q \in Seq(Message), NEW s \in Seq(Task), s # <<>>, NEW H,
           Following(s, q, H), NEW p \in Seq(Message),
           p = IF s[1].wide THEN q ELSE Append(q, s[1].msg)
    PROVE  /\ Following(Tail(s), p, H)
           /\ Coming(q, H) => Coming(p, H)
  <1> DEFINE t == Tail(s)
             m == s[1].msg
  <1>1. /\ Len(s) \in Nat /\ Len(s) > 0 /\ Len(t) = Len(s) - 1 /\ 1 \in 1..Len(s) /\ s[1] \in Task
        /\ \A i \in 1..Len(t) : t[i] = s[i + 1]
    BY Queues
  <1>2. m \in Message
    BY <1>1, TaskTypes
  <1> HIDE DEF t
  <1>3. /\ Len(q) \in Nat /\ Len(Append(q, m)) = Len(q) + 1 /\ Append(q, m)[Len(q) + 1] = m
        /\ \A i \in 1..Len(q) : Append(q, m)[i] = q[i]
    BY <1>2, Queues
  <1> HIDE DEF m
  <1>4. ASSUME ~s[1].wide, m[1] = "block"
        PROVE  \/ Parent[m[2]] \in H
               \/ \E j \in 1..Len(q) : q[j] = BlockMsg(Parent[m[2]])
    <2>1. ~(\E j \in 1..(1 - 1) : TRUE)
      OBVIOUS
    <2> QED
      BY <1>1, <1>4, <2>1 DEF Following, m
  <1>5. Coming(q, H) => Coming(p, H)
    BY <1>2, <1>4, ComingAppend DEF m
  <1>6. \A b : (\E j \in 1..Len(q) : q[j] = BlockMsg(b)) => \E j \in 1..Len(p) : p[j] = BlockMsg(b)
    <2>1. \A j \in 1..Len(q) : j \in 1..Len(p) /\ p[j] = q[j]
      BY <1>3 DEF m
    <2> QED
      BY <2>1
  <1>7. \A b : ~s[1].wide /\ m = BlockMsg(b) => \E j \in 1..Len(p) : p[j] = BlockMsg(b)
    <2>1. ~s[1].wide => Len(q) + 1 \in 1..Len(p) /\ p[Len(q) + 1] = m
      BY <1>3 DEF m
    <2> QED
      BY <2>1
  <1>8. ASSUME NEW i \in 1..Len(t), ~t[i].wide, t[i].msg[1] = "block",
               Parent[t[i].msg[2]] \notin H,
               ~(\E j \in 1..Len(p) : p[j] = BlockMsg(Parent[t[i].msg[2]]))
        PROVE  \E j \in 1..(i - 1) : ~t[j].wide /\ t[j].msg = BlockMsg(Parent[t[i].msg[2]])
    <2>1. i + 1 \in 1..Len(s) /\ t[i] = s[i + 1] /\ (i + 1) - 1 = i
      BY <1>1
    <2> DEFINE b == Parent[t[i].msg[2]]
    <2>2. ~(\E j \in 1..Len(q) : q[j] = BlockMsg(b))
      BY <1>6, <1>8
    <2>3. \E j \in 1..((i + 1) - 1) : ~s[j].wide /\ s[j].msg = BlockMsg(b)
      BY <1>8, <2>1, <2>2 DEF Following
    <2>4. PICK j \in 1..i : ~s[j].wide /\ s[j].msg = BlockMsg(b)
      BY <2>1, <2>3
    <2>5. j # 1
      BY <1>7, <1>8, <2>4 DEF m
    <2>6. j - 1 \in 1..(i - 1) /\ j - 1 \in 1..Len(t) /\ (j - 1) + 1 = j
      BY <1>1, <2>5
    <2>7. t[j - 1] = s[j]
      BY <1>1, <2>6
    <2> QED
      BY <2>4, <2>6, <2>7
  <1>9. Following(t, p, H)
    BY <1>8 DEF Following
  <1> QED
    BY <1>5, <1>9 DEF t

\* The other end has said nothing yet that n cannot use, and what it has said
\* and is about to say has every block after its parent.
Reach(n) == have[n] \cup {Zero}
Hears(e) == HasEntry(e) /\ Table(e)[Addr(e)].handshaked
Quiet == why \cap {"relayed", "limit", "side"} = {}
SaidAt(e) ==
    /\ \A i \in 1..Len(inbox[e]) : SaidTo(Owner(Remote(e)), Owner(e), inbox[e][i])
    /\ \A i \in 1..Len(todo[Remote(e)]) :
          ~todo[Remote(e)][i].wide => SaidTo(Owner(Remote(e)), Owner(e), todo[Remote(e)][i].msg)
    /\ Coming(inbox[e], Reach(Owner(e)))
    /\ Hears(Remote(e)) => Following(todo[Remote(e)], inbox[e], Reach(Owner(e)))

\* The handshake is done while nothing is left to be sent.
LEMMA HearsStep ==
    ASSUME ConnInv, [SyncNext]_vars
    PROVE  \A d \in Ends : Hears(d)' => Hears(d) \/ todo'[d] = <<>>
  <1>0. /\ TypesInv /\ TableIsThreads /\ UniqueInv /\ MsgInv
        /\ \A d \in Ends : Owner(d) \in Node
        /\ DOMAIN peers = Node
    BY EndFacts DEF ConnInv, TypesInv
  <1>1. \A d \in Ends : thread[d] # "send" => todo[d] = <<>>
    BY <1>0 DEF MsgInv
  <1>2. ASSUME peers' = peers PROVE \A d \in Ends : Hears(d)' => Hears(d)
    BY <1>2 DEF Hears, HasEntry, Table
  <1>3. ASSUME NEW e \in Ends, NEW p, SetEntry(e, p), todo' = todo,
               thread[e] \in {"start", "read", "checked"}
        PROVE  \A d \in Ends : Hears(d)' => Hears(d) \/ todo'[d] = <<>>
    <2> TAKE d \in Ends
    <2>1. CASE Owner(d) # Owner(e) \/ Addr(d) # Addr(e)
      <3>1. /\ Addr(d) \in DOMAIN peers'[Owner(d)] <=> Addr(d) \in DOMAIN peers[Owner(d)]
            /\ Addr(d) \in DOMAIN peers[Owner(d)] =>
                  peers'[Owner(d)][Addr(d)] = peers[Owner(d)][Addr(d)]
        BY <1>0, <1>3, <2>1, EntrySet
      <3> QED
        BY <3>1 DEF Hears, HasEntry, Table
    <2>2. CASE Owner(d) = Owner(e) /\ Addr(d) = Addr(e)
      <3>1. thread[d] # "send"
        BY <1>0, <1>3, <2>2 DEF UniqueInv, Alive, InTable
      <3> QED
        BY <1>1, <1>3, <3>1
    <2> QED
      BY <2>1, <2>2
  <1>4. ASSUME NEW e \in Ends, Register(e)
        PROVE  \A d \in Ends : todo' = todo => (Hears(d)' => Hears(d) \/ todo'[d] = <<>>)
    BY <1>3, <1>4 DEF Register
  <1>5. ASSUME NEW e \in Ends, StoreNonce(e)
        PROVE  \A d \in Ends : todo' = todo => (Hears(d)' => Hears(d) \/ todo'[d] = <<>>)
    <2>1. thread[e] \in InTable /\ thread[e] = "checked"
      BY <1>5 DEF InTable, StoreNonce
    <2>2. HasEntry(e)
      BY <1>0, <2>1 DEF TableIsThreads
    <2>3. SetEntry(e, [Table(e)[Addr(e)] EXCEPT !.nonce = Head(inbox[e])[2]])
      BY <1>5, <2>2 DEF StoreNonce
    <2> QED
      BY <1>3, <2>1, <2>3
  <1>6. ASSUME NEW e \in Ends, SyncVerack(e)
        PROVE  \A d \in Ends : Hears(d)' => Hears(d) \/ todo'[d] = <<>>
    <2>1. thread[e] \in InTable /\ thread[e] = "read" /\ todo' = todo
      BY <1>6 DEF SyncVerack, HandshakeDone, Reads, InTable, syncVars
    <2>2. HasEntry(e)
      BY <1>0, <2>1 DEF TableIsThreads
    <2>3. SetEntry(e, [Table(e)[Addr(e)] EXCEPT !.handshaked = TRUE])
      BY <1>6, <2>2 DEF SyncVerack, HandshakeDone
    <2> QED
      BY <1>3, <2>1, <2>3
  <1>7. ASSUME NEW e \in Ends, LeaveTable(e)
        PROVE  \A d \in Ends : Hears(d)' => Hears(d)
    <2>1. \A n \in Node : peers'[n] = IF n = Owner(e)
              THEN [a \in DOMAIN peers[n] \ {Addr(e)} |-> peers[n][a]] ELSE peers[n]
      BY <1>0, <1>7 DEF LeaveTable, Restrict
    <2>2. \A n \in Node : \A a \in DOMAIN peers'[n] :
              a \in DOMAIN peers[n] /\ peers'[n][a] = peers[n][a]
      <3> TAKE n \in Node
      <3> TAKE a \in DOMAIN peers'[n]
      <3>1. CASE n = Owner(e)
        <4>1. a \in DOMAIN peers[n] \ {Addr(e)}
          BY <2>1, <3>1
        <4> QED
          BY <2>1, <3>1, <4>1
      <3>2. CASE n # Owner(e)
        BY <2>1, <3>2
      <3> QED
        BY <3>1, <3>2
    <2> QED
      BY <1>0, <2>2 DEF Hears, HasEntry, Table
  <1>8. CASE ConnNext /\ UNCHANGED syncVars
    <2>1. todo' = todo
      BY <1>8 DEF syncVars
    <2>2. \/ peers' = peers
          \/ \E e \in Ends : Register(e) \/ StoreNonce(e) \/ LeaveTable(e)
      BY <1>8 DEF ConnNext, ConnStep, Dial, Skip, Established, ConnectFails, Listen, Hello,
                  CheckVersion, ReadEnds, LeaveConnecting, ReadTimesOut, WireError
    <2> QED
      BY <1>2, <1>4, <1>5, <1>7, <2>1, <2>2
  <1>9. ASSUME NEW e \in Ends, SyncStep(e), ~SyncVerack(e) PROVE peers' = peers
    BY <1>9 DEF SyncStep, AskPeer, ReadGetBlocks, ReadInv, ReadGetData, AcceptBlock, DropBlock,
                SendNext, ReadGetAddr, ReadAddr, Untouched
  <1>10. ASSUME NEW n \in Node,
                \/ \E m \in Node : WindowMoves(n, m)
                \/ \E b \in Block : TakeTemplate(n, b) \/ FetchTemplate(n, b)
                \/ FindBlock(n) \/ AnnounceFound(n) \/ SubmitBlock(n) \/ RejectBlock(n)
         PROVE  peers' = peers
    BY <1>10 DEF WindowMoves, TakeTemplate, FetchTemplate, Template, FindBlock, AnnounceFound,
                 SubmitBlock, RejectBlock, Untouched, peerVars
  <1>11. UNCHANGED vars => peers' = peers
    BY DEF vars, peerVars
  <1> QED
    BY <1>2, <1>6, <1>8, <1>9, <1>10, <1>11 DEF SyncNext

\* All of r is in s.
PartOf(r, s) == \A k \in 1..Len(r) : \E p \in 1..Len(s) : r[k] = s[p]

\* A filter that drops only what is there keeps a list in order.
LEMMA SelectedGood ==
    ASSUME NEW s \in Seq(Block), NEW S, NEW H, GoodList(s, H),
           \A i \in 1..Len(s) : s[i] \in S \cup H
    PROVE  /\ Selected(s, S) \in Seq(Block)
           /\ GoodList(Selected(s, S), H)
           /\ PartOf(Selected(s, S), s)
  <1> DEFINE kept == Selected(s, S)
  <1>1. kept \in Seq(Block) /\ Ordered(kept, s, S, Len(s)) /\ Len(s) \in Nat
    BY SelectedProperties
  <1> HIDE DEF kept
  <1>2. ASSUME NEW k \in 1..Len(kept)
        PROVE  /\ \E p \in 1..Len(s) : kept[k] = s[p]
               /\ Parent[kept[k]] \in H \cup {Zero} \/ \E j \in 1..(k - 1) : kept[j] = Parent[kept[k]]
    <2>1. PICK p \in 1..Len(s) : kept[k] = s[p] /\ Before(kept, k, s, S, p)
      BY <1>1 DEF Ordered
    <2>2. ASSUME NEW q \in 1..(p - 1), s[q] = Parent[s[p]], Parent[s[p]] \notin H
          PROVE  \E j \in 1..(k - 1) : kept[j] = Parent[kept[k]]
      <3>1. q \in 1..Len(s)
        BY <1>1
      <3>2. s[q] \in S
        BY <2>2, <3>1
      <3> QED
        BY <2>1, <2>2, <3>2 DEF Before
    <2>3. Parent[s[p]] \in H \cup {Zero} \/ \E q \in 1..(p - 1) : s[q] = Parent[s[p]]
      BY DEF GoodList
    <2> QED
      BY <2>1, <2>2, <2>3
  <1> QED
    BY <1>1, <1>2 DEF kept, GoodList, PartOf

\* What the thread of e may leave to be sent to the other end.
GoodAnswer(e, out) ==
    /\ \A i \in 1..Len(out) :
          ~out[i].wide => SaidTo(Owner(e), Owner(Remote(e)), out[i].msg)
    /\ \A q : Following(out, q, Reach(Owner(Remote(e))))

\* Tasks in which there is no list, no locator and no block, and an answer that is one list.
LEMMA PlainAnswers ==
    ASSUME NEW e \in Ends
    PROVE  /\ GoodAnswer(e, <<>>)
           /\ \A t \in Task : t.wide => GoodAnswer(e, <<t>>)
           /\ \A m \in Message :
                 m[1] # "block" /\ SaidTo(Owner(e), Owner(Remote(e)), m) => GoodAnswer(e, <<Reply(m)>>)
  <1>1. GoodAnswer(e, <<>>)
    BY DEF GoodAnswer, Following
  <1>2. \A t : Len(<<t>>) = 1 /\ <<t>>[1] = t /\ \A i \in 1..Len(<<t>>) : i = 1
    OBVIOUS
  <1>3. \A t \in Task : t.wide => GoodAnswer(e, <<t>>)
    BY <1>2 DEF GoodAnswer, Following
  <1>4. ASSUME NEW m \in Message, m[1] # "block", SaidTo(Owner(e), Owner(Remote(e)), m)
        PROVE  GoodAnswer(e, <<Reply(m)>>)
    <2> DEFINE t == Reply(m)
    <2>1. t.msg = m
      BY TaskTypes
    <2> HIDE DEF t
    <2>2. GoodAnswer(e, <<t>>)
      BY <1>2, <1>4, <2>1 DEF GoodAnswer, Following
    <2> QED
      BY <2>2 DEF t
  <1> QED
    BY <1>1, <1>3, <1>4

\* The part of the best chain that answers a locator can be taken in its order,
\* if it begins where the locator ends.
LEMMA InvGood ==
    ASSUME TypesInv, StoreInv, NEW n \in Node, NEW m \in Node, NEW locator \in Block \cup {Zero},
           locator \in have[m] \cup {Zero}, "side" \notin BlockInvGaps(n, locator)
    PROVE  SaidTo(n, m, <<"inv", BlockInv(n, locator)>>)
  <1> DEFINE from == FirstHeight(n, locator)
             inv == BlockInv(n, locator)
  <1>1. /\ from \in Nat /\ inv \in Seq(Block)
        /\ \A i \in 1..Len(inv) : /\ tip[n] # Zero
                                  /\ from + i - 1 \in 0..Height[tip[n]]
                                  /\ inv[i] = OnBestChain(n, from + i - 1)
    BY InvParts
  <1>2. from > 0 => /\ locator \in have[n] /\ locator \in Path[tip[n]]
                    /\ from = Height[locator] + 1
    <2>1. from # 0 => locator \in have[n] /\ from = Height[locator] + 1
      BY DEF FirstHeight
    <2>2. from > 0 => locator \in Path[tip[n]]
      BY DEF BlockInvGaps
    <2> QED
      BY <1>1, <2>1, <2>2
  <1> HIDE DEF from, inv
  <1>3. tip[n] # Zero => tip[n] \in Block /\ Path[tip[n]] \subseteq have[n]
    BY DEF StoreInv, TypesInv
  <1>4. ASSUME NEW i \in 1..Len(inv)
        PROVE  /\ inv[i] \in have[n]
               /\ Parent[inv[i]] \in have[m] \cup {Zero} \/ \E j \in 1..(i - 1) : inv[j] = Parent[inv[i]]
    <2> DEFINE h == from + i - 1
    <2>1. tip[n] # Zero /\ h \in 0..Height[tip[n]] /\ inv[i] = OnBestChain(n, h)
      BY <1>1
    <2>2. /\ OnBestChain(n, h) \in Path[tip[n]]
          /\ h = 0 => Parent[OnBestChain(n, h)] = Zero
          /\ h > 0 => Parent[OnBestChain(n, h)] = OnBestChain(n, h - 1)
      BY <2>1, BestChain
    <2>3. i \in Nat /\ Height[tip[n]] \in Nat /\ i >= 1
      BY <1>3, <2>1, TreeAssumption
    <2>4. CASE i > 1
      <3>1. i - 1 \in 1..Len(inv) /\ from + (i - 1) - 1 = h - 1 /\ h > 0 /\ i - 1 \in 1..(i - 1)
        BY <1>1, <2>3, <2>4
      <3>2. inv[i - 1] = OnBestChain(n, h - 1)
        BY <1>1, <3>1
      <3> QED
        BY <1>3, <2>1, <2>2, <3>1, <3>2
    <2>5. CASE i = 1 /\ from = 0
      <3>1. h = 0
        BY <2>5
      <3> QED
        BY <1>3, <2>1, <2>2, <3>1
    <2>6. CASE i = 1 /\ from > 0
      <3>0. from = Height[locator] + 1 /\ Height[locator] \in Nat
        BY <1>2, <2>6, TreeAssumption DEF TypesInv
      <3> DEFINE g == Height[locator]
      <3> HIDE DEF g
      <3>1. h = from /\ h > 0 /\ h - 1 \in 0..Height[tip[n]] /\ h - 1 = g
        BY <1>1, <2>1, <2>3, <2>6, <3>0 DEF g
      <3>2. OnBestChain(n, h - 1) \in Path[tip[n]] /\ Height[OnBestChain(n, h - 1)] = h - 1
        BY <2>1, <3>1, BestChain
      <3>3. \A a, c \in Path[tip[n]] : Height[a] = Height[c] => a = c
        BY <1>3, <2>1, Chains DEF ChainTo
      <3>4. OnBestChain(n, h - 1) = locator
        BY <1>2, <2>6, <3>1, <3>2, <3>3 DEF g
      <3> QED
        BY <1>3, <2>1, <2>2, <3>1, <3>4
    <2> QED
      BY <1>1, <2>3, <2>4, <2>5, <2>6
  <1>5. GoodList(inv, have[m]) /\ \A i \in 1..Len(inv) : inv[i] \in have[n]
    BY <1>4 DEF GoodList
  <1> QED
    BY <1>5 DEF SaidTo, Said, inv

\* Every handler answers so, unless it answers a locator that is off the chain.
LEMMA AnswersWell ==
    ASSUME TypesInv, StoreInv, NEW e \in Ends, Answers(e), SaidAt(e), "side" \notin why'
    PROVE  \E out \in Tasks : Answer(e, out) /\ GoodAnswer(e, out)
  <1> DEFINE n == Owner(e)
             m == Owner(Remote(e))
             s == Payload(e)
  <1>1. inbox[e] # <<>>
    BY AnswerTypes
  <1>2. /\ Head(inbox[e]) \in Message /\ n \in Node /\ m \in Node
        /\ 1 \in 1..Len(inbox[e]) /\ Head(inbox[e]) = inbox[e][1]
    BY <1>1, FirstMessage, EndFacts
  <1>3. SaidTo(m, n, Head(inbox[e]))
    BY <1>2 DEF SaidAt
  <1>4. <<>> \in Tasks /\ \A t \in Task : <<t>> \in Tasks
    BY Queues DEF Tasks
  <1>5. known = have /\ have \in [Node -> SUBSET Block]
    BY DEF TypesInv
  <1>6. \A t \in Message : t[1] # "block" /\ SaidTo(n, m, t) =>
               <<Reply(t)>> \in Tasks /\ GoodAnswer(e, <<Reply(t)>>)
    BY <1>4, PlainAnswers, TaskTypes
  <1>7. CASE ReadGetBlocks(e)
    <2>1. /\ Head(inbox[e])[1] = "getblocks" /\ "side" \notin BlockInvGaps(n, s)
          /\ Answer(e, IF BlockInv(n, s) = <<>> THEN <<>> ELSE <<Reply(<<"inv", BlockInv(n, s)>>)>>)
      BY <1>7 DEF ReadGetBlocks, Reads
    <2>2. s \in Block \cup {Zero} /\ s \in have[m] \cup {Zero}
      BY <1>2, <1>3, <2>1, MessageParts DEF Payload, SaidTo, Said
    <2> HIDE DEF s
    <2>3. SaidTo(n, m, <<"inv", BlockInv(n, s)>>)
      BY <1>2, <2>1, <2>2, InvGood
    <2>4. BlockInv(n, s) \in Seq(Block)
      BY <1>2, <2>2, InvParts
    <2> DEFINE inv == BlockInv(n, s)
    <2> HIDE DEF inv, n, m
    <2>5. <<"inv", inv>> \in Message /\ <<"inv", inv>>[1] # "block"
      BY <2>4, MessageParts DEF inv
    <2>6. <<Reply(<<"inv", inv>>)>> \in Tasks /\ GoodAnswer(e, <<Reply(<<"inv", inv>>)>>)
      BY <1>6, <2>3, <2>5 DEF inv
    <2> QED
      BY <1>4, <2>1, <2>6, PlainAnswers DEF inv
  <1>8. CASE ReadInv(e)
    <2> DEFINE want == Selected(s, Block \ known[n])
    <2>1. /\ Head(inbox[e])[1] = "inv"
          /\ Answer(e, IF want = <<>> THEN <<>> ELSE <<Reply(<<"getdata", want>>)>>)
      BY <1>8 DEF ReadInv, Reads
    <2>2. /\ s \in Seq(Block) /\ GoodList(s, have[n])
          /\ \A i \in 1..Len(s) : s[i] \in have[m] /\ s[i] \in Block
      BY <1>2, <1>3, <2>1, MessageParts DEF Payload, SaidTo, Said
    <2> HIDE DEF s
    <2>3. \A i \in 1..Len(s) : s[i] \in (Block \ known[n]) \cup have[n]
      BY <1>5, <2>2
    <2>4. /\ want \in Seq(Block) /\ GoodList(want, have[n])
          /\ \A k \in 1..Len(want) : \E p \in 1..Len(s) : want[k] = s[p]
      <3> DEFINE S == Block \ known[n]
                 H == have[n]
      <3>1. /\ s \in Seq(Block) /\ GoodList(s, H)
            /\ \A i \in 1..Len(s) : s[i] \in S \cup H
        BY <2>2, <2>3
      <3> HIDE DEF S, H
      <3>2. /\ Selected(s, S) \in Seq(Block) /\ GoodList(Selected(s, S), H)
            /\ PartOf(Selected(s, S), s)
        BY <3>1, SelectedGood
      <3> QED
        BY <3>2 DEF S, H, PartOf
    <2> HIDE DEF want, n, m
    <2>5. \A k \in 1..Len(want) : want[k] \in have[m]
      BY <2>2, <2>4
    <2>6. SaidTo(n, m, <<"getdata", want>>)
      BY <2>4, <2>5 DEF SaidTo, Said
    <2>7. <<"getdata", want>> \in Message /\ <<"getdata", want>>[1] # "block"
      BY <2>4, MessageParts
    <2>8. <<Reply(<<"getdata", want>>)>> \in Tasks /\ GoodAnswer(e, <<Reply(<<"getdata", want>>)>>)
      BY <1>6, <2>6, <2>7
    <2> QED
      BY <1>4, <2>1, <2>8, PlainAnswers
  <1>9. CASE ReadGetData(e)
    <2> DEFINE out == Selected(s, have[n])
               sent == [i \in DOMAIN out |-> Reply(<<"block", out[i]>>)]
    <2>1. Head(inbox[e])[1] = "getdata" /\ Answer(e, sent)
      BY <1>9 DEF ReadGetData, Reads
    <2>2. /\ s \in Seq(Block) /\ GoodList(s, have[m])
          /\ \A i \in 1..Len(s) : s[i] \in have[n] \cup have[m]
      BY <1>2, <1>3, <2>1, MessageParts DEF Payload, SaidTo, Said
    <2> HIDE DEF s
    <2>3. out \in Seq(Block) /\ GoodList(out, have[m])
      BY <2>2, SelectedGood
    <2> HIDE DEF out
    <2>4. /\ DOMAIN out = 1..Len(out) /\ Len(out) \in Nat
          /\ \A i \in 1..Len(out) : out[i] \in Block
      BY <2>3
    <2>5. \A b \in Block : /\ Reply(BlockMsg(b)) \in Task /\ ~Reply(BlockMsg(b)).wide
                           /\ Reply(BlockMsg(b)).msg = BlockMsg(b)
      BY MessageParts, TaskTypes DEF BlockMsg
    <2>6. sent \in Seq(Task) /\ Len(sent) = Len(out)
      BY <2>4, <2>5 DEF BlockMsg
    <2>7. \A i \in 1..Len(out) : ~sent[i].wide /\ sent[i].msg = BlockMsg(out[i])
      BY <2>4, <2>5 DEF BlockMsg
    <2> HIDE DEF sent, n, m
    <2>8. \A b : /\ BlockMsg(b)[1] = "block" /\ BlockMsg(b)[2] = b
                 /\ SaidTo(n, m, BlockMsg(b))
      BY DEF BlockMsg, SaidTo, Said
    <2>9. \A q : Following(sent, q, Reach(m))
      <3> SUFFICES ASSUME NEW q, NEW i \in 1..Len(sent), Parent[sent[i].msg[2]] \notin Reach(m)
                   PROVE  \E j \in 1..(i - 1) :
                             ~sent[j].wide /\ sent[j].msg = BlockMsg(Parent[sent[i].msg[2]])
        BY DEF Following
      <3>1. i \in 1..Len(out) /\ sent[i].msg[2] = out[i]
        BY <2>6, <2>7, <2>8
      <3>2. PICK j \in 1..(i - 1) : out[j] = Parent[out[i]]
        BY <2>3, <3>1 DEF GoodList, Reach
      <3>3. j \in 1..Len(out)
        BY <2>4, <3>1
      <3> QED
        BY <2>7, <3>1, <3>2, <3>3
    <2>10. GoodAnswer(e, sent)
      BY <2>6, <2>7, <2>8, <2>9 DEF GoodAnswer, n, m
    <2> QED
      BY <2>1, <2>6, <2>10 DEF Tasks
  <1>10. CASE AcceptBlock(e) \/ DropBlock(e)
    <2>1. s \in Block
      BY <1>2, <1>10, MessageParts DEF AcceptBlock, DropBlock, Reads, Payload
    <2>2. Answer(e, <<Relay(s)>>) \/ Answer(e, <<>>)
      BY <1>10 DEF AcceptBlock, DropBlock
    <2>3. Relay(s) \in Task /\ Relay(s).wide
      BY <2>1, TaskTypes
    <2> QED
      BY <1>4, <2>2, <2>3, PlainAnswers
  <1>11. CASE ReadGetAddr(e)
    <2> DEFINE list == addrs[n]
    <2>1. list \in SUBSET Node
      BY <1>2 DEF TypesInv
    <2>2. Answer(e, IF list = {} THEN <<>> ELSE <<Reply(<<"addr", list>>)>>)
      BY <1>11 DEF ReadGetAddr
    <2> HIDE DEF list
    <2>3. <<"addr", list>> \in Message /\ <<"addr", list>>[1] # "block"
      BY <2>1, MessageParts
    <2>4. SaidTo(n, m, <<"addr", list>>)
      BY DEF SaidTo, Said
    <2>5. <<Reply(<<"addr", list>>)>> \in Tasks /\ GoodAnswer(e, <<Reply(<<"addr", list>>)>>)
      BY <1>6, <2>3, <2>4
    <2> QED
      BY <1>4, <2>2, <2>5, PlainAnswers
  <1> QED
    BY <1>7, <1>8, <1>9, <1>10, <1>11 DEF Answers

\* A block that is read is there afterwards, and its parent was there before,
\* unless something may go wrong.
LEMMA BlockTaken ==
    ASSUME TypesInv, StoreInv, NEW e \in Ends, AcceptBlock(e) \/ DropBlock(e), SaidAt(e), Quiet'
    PROVE  /\ Payload(e) \in have'[Owner(e)]
           /\ "orphan" \notin why => "orphan" \notin why'
  <1> DEFINE n == Owner(e)
             b == Payload(e)
  <1>1. inbox[e] # <<>> /\ Head(inbox[e])[1] = "block" /\ n \in Node
    BY EndFacts DEF AcceptBlock, DropBlock, Reads
  <1>2. Head(inbox[e]) \in Message /\ Head(inbox[e]) = inbox[e][1] /\ 1 \in 1..Len(inbox[e])
    BY <1>1, FirstMessage
  <1>3. b \in Block /\ b = inbox[e][1][2]
    BY <1>1, <1>2, MessageParts DEF Payload
  <1>4. Parent[b] \in have[n] \cup {Zero}
    <2>1. ~(\E j \in 1..(1 - 1) : TRUE)
      OBVIOUS
    <2> QED
      BY <1>1, <1>2, <1>3, <2>1 DEF SaidAt, Coming, Reach
  <1>5. have \in [Node -> SUBSET Block] /\ known = have /\ Zero \notin have[n]
    BY <1>1, TreeAssumption DEF TypesInv
  <1>6. HeaderOK(have[n], b)
    BY <1>3, <1>4, <1>5, HeaderNeedsParent
  <1>7. CASE AcceptBlock(e)
    <2>1. have' = [have EXCEPT ![n] = @ \cup {b}] /\ why' = why
      BY <1>7 DEF AcceptBlock, Take
    <2> HIDE DEF n, b
    <2>2. b \in have'[n]
      BY <1>1, <1>5, <2>1
    <2> QED
      BY <2>1, <2>2 DEF n, b
  <1>8. CASE DropBlock(e)
    <2>1. /\ have' = have
          /\ \/ b \in known[n] /\ why' = why \cup {}
             \/ why' = why \cup {"limit"}
      BY <1>6, <1>8 DEF DropBlock
    <2>2. "limit" \notin why'
      BY DEF Quiet
    <2> HIDE DEF n, b
    <2>3. b \in have'[n] /\ why' = why
      BY <1>5, <2>1, <2>2
    <2> QED
      BY <2>3 DEF n, b
  <1> QED
    BY <1>7, <1>8

\* How a step moves what is said to the owner of d, if nothing may go wrong.
Motion(d) ==
    LET r == Remote(d)
    IN  \/ inbox'[d] = inbox[d] /\ todo'[r] = todo[r]
        \/ /\ inbox[d] # <<>> /\ inbox'[d] = Tail(inbox[d]) /\ todo'[r] = todo[r]
           /\ inbox[d][1][1] = "block" => inbox[d][1][2] \in have'[Owner(d)]
        \/ /\ todo'[r] = todo[r]
           /\ \E m \in Message : m[1] \in {"version", "verack"} /\ inbox'[d] = Append(inbox[d], m)
        \/ inbox'[d] = inbox[d] /\ todo'[r] \in Tasks /\ GoodAnswer(r, todo'[r])
        \/ /\ todo[r] # <<>> /\ todo'[r] = Tail(todo[r])
           /\ inbox'[d] = IF ~todo[r][1].wide /\ Hears(r)
                          THEN Append(inbox[d], todo[r][1].msg) ELSE inbox[d]

\* What a message of the initial exchange asks for.
LEMMA AskedWell ==
    ASSUME TypesInv, StoreInv, NEW e \in Ends
    PROVE  LET out == <<Reply(<<"getblocks", tip[Owner(e)]>>), Reply(<<"getaddr">>)>>
           IN  out \in Tasks /\ GoodAnswer(e, out)
  <1> DEFINE m1 == <<"getblocks", tip[Owner(e)]>>
             m2 == <<"getaddr">>
             out == <<Reply(m1), Reply(m2)>>
  <1>1. Owner(e) \in Node /\ tip[Owner(e)] \in have[Owner(e)] \cup {Zero}
        /\ tip[Owner(e)] \in Block \cup {Zero}
    BY EndFacts DEF StoreInv, TypesInv
  <1>2. m1 \in Message /\ m2 \in Message
    BY <1>1, MessageParts
  <1>3. /\ SaidTo(Owner(e), Owner(Remote(e)), m1) /\ m1[1] # "block"
        /\ SaidTo(Owner(e), Owner(Remote(e)), m2) /\ m2[1] # "block"
    BY <1>1 DEF SaidTo, Said
  <1> HIDE DEF m1, m2
  <1>4. /\ Reply(m1) \in Task /\ Reply(m1).msg = m1
        /\ Reply(m2) \in Task /\ Reply(m2).msg = m2
    BY <1>2, TaskTypes
  <1>5. out \in Tasks /\ Len(out) = 2 /\ out[1].msg = m1 /\ out[2].msg = m2
    BY <1>4, Queues DEF Tasks
  <1> HIDE DEF out
  <1>6. \A i \in 1..Len(out) : out[i].msg = m1 \/ out[i].msg = m2
    <2>1. \A i \in 1..2 : i = 1 \/ i = 2
      OBVIOUS
    <2> QED
      BY <1>5, <2>1
  <1>7. GoodAnswer(e, out)
    BY <1>3, <1>6 DEF GoodAnswer, Following
  <1> QED
    BY <1>5, <1>7 DEF out, m1, m2

\* Every step moves it so.
LEMMA Motions ==
    ASSUME ConnInv, StoreInv, [SyncNext]_vars, Quiet', \A d \in Ends : SaidAt(d)
    PROVE  \A d \in Ends : Motion(d)
  <1>0. /\ TypesInv /\ TableIsThreads /\ MsgInv /\ DialledInv
        /\ inbox \in [Ends -> Messages] /\ todo \in [Ends -> Tasks]
        /\ \A d \in Ends : /\ Remote(d) \in Ends /\ Remote(Remote(d)) = d /\ Remote(d) # d
                           /\ Owner(d) \in Node
        /\ "relayed" \notin why' /\ "side" \notin why'
    BY EndFacts DEF ConnInv, TypesInv, Quiet
  <1>1. CASE UNCHANGED <<inbox, todo>>
    BY <1>1 DEF Motion
  <1>2. ASSUME NEW e \in Ends, Hello(e), todo' = todo PROVE \A d \in Ends : Motion(d)
    <2> DEFINE m == <<"version", Owner(e)>>
    <2>1. m \in Message /\ m[1] \in {"version", "verack"}
      BY <1>0, MessageParts
    <2>2. inbox' = [inbox EXCEPT ![Remote(e)] = Append(@, m)]
      BY <1>0, <1>2, StepParts
    <2> HIDE DEF m
    <2>3. \A d \in Ends : inbox'[d] = IF d = Remote(e) THEN Append(inbox[d], m) ELSE inbox[d]
      BY <1>0, <2>2
    <2> QED
      BY <1>2, <2>1, <2>3 DEF Motion
  <1>3. ASSUME NEW e \in Ends, inbox[e] # <<>>, todo' = todo,
               inbox[e][1][1] # "block", inbox' = [inbox EXCEPT ![e] = Tail(@)]
        PROVE  \A d \in Ends : Motion(d)
    <2>1. \A d \in Ends : inbox'[d] = IF d = e THEN Tail(inbox[d]) ELSE inbox[d]
      BY <1>0, <1>3
    <2> QED
      BY <1>3, <2>1 DEF Motion
  <1>4. ASSUME NEW e \in Ends, StoreNonce(e), todo' = todo PROVE \A d \in Ends : Motion(d)
    <2> DEFINE m == <<"verack", Owner(e)>>
    <2>1. m \in Message /\ m[1] \in {"version", "verack"}
      BY <1>0, MessageParts
    <2>2. /\ thread[e] = "checked"
          /\ inbox' = [inbox EXCEPT ![e] = Tail(@), ![Remote(e)] = Append(@, m)]
      BY <1>0, <1>4, StepParts
    <2>3. inbox[e] # <<>> /\ Head(inbox[e])[1] = "version"
      BY <1>0, <2>2 DEF MsgInv
    <2>4. inbox[e][1][1] # "block"
      BY <1>0, <2>3, FirstMessage
    <2> HIDE DEF m
    <2>5. \A d \in Ends : inbox'[d] = IF d = e THEN Tail(inbox[d])
                                      ELSE IF d = Remote(e) THEN Append(inbox[d], m) ELSE inbox[d]
      BY <1>0, <2>2
    <2> QED
      BY <1>4, <2>1, <2>3, <2>4, <2>5 DEF Motion
  <1>5. ASSUME NEW e \in Ends, SyncVerack(e) \/ ReadAddr(e) PROVE \A d \in Ends : Motion(d)
    <2>1. inbox[e] # <<>> /\ inbox' = [inbox EXCEPT ![e] = Tail(@)] /\ todo' = todo
      BY <1>0, <1>5, StepParts
    <2>2. Head(inbox[e])[1] \in {"verack", "addr"}
      BY <1>5 DEF SyncVerack, HandshakeDone, ReadAddr, Reads
    <2>3. inbox[e][1][1] # "block"
      BY <1>0, <2>1, <2>2, FirstMessage
    <2> QED
      BY <1>3, <2>1, <2>3
  <1>6. ASSUME NEW e \in Ends, NEW out \in Tasks, GoodAnswer(e, out),
               todo' = [todo EXCEPT ![e] = out]
        PROVE  /\ \A d \in Ends : inbox'[d] = inbox[d] => Motion(d)
               /\ \A d \in Ends : d # Remote(e) => todo'[Remote(d)] = todo[Remote(d)]
    <2>1. \A d \in Ends : todo'[Remote(d)] = IF d = Remote(e) THEN out ELSE todo[Remote(d)]
      BY <1>0, <1>6
    <2>2. GoodAnswer(Remote(Remote(e)), todo'[Remote(Remote(e))])
      BY <1>0, <1>6, <2>1
    <2> QED
      BY <1>0, <1>6, <2>1, <2>2 DEF Motion
  <1>7. ASSUME NEW e \in Ends, AskPeer(e) PROVE \A d \in Ends : Motion(d)
    <2> DEFINE out == <<Reply(<<"getblocks", tip[Owner(e)]>>), Reply(<<"getaddr">>)>>
    <2>1. out \in Tasks /\ GoodAnswer(e, out)
      BY <1>0, AskedWell
    <2>2. inbox' = inbox /\ todo' = [todo EXCEPT ![e] = out]
      BY <1>0, <1>7, StepParts
    <2> HIDE DEF out
    <2> QED
      BY <1>6, <2>1, <2>2
  <1>8. ASSUME NEW e \in Ends, Answers(e) PROVE \A d \in Ends : Motion(d)
    <2>1. PICK out \in Tasks : Answer(e, out) /\ GoodAnswer(e, out)
      BY <1>0, <1>8, AnswersWell
    <2>2. /\ inbox' = [inbox EXCEPT ![e] = Tail(@)] /\ todo' = [todo EXCEPT ![e] = out]
          /\ inbox[e] # <<>>
      BY <1>0, <1>8, <2>1, AnswerTypes DEF Answer
    <2>3. /\ \A d \in Ends : d # e => Motion(d)
          /\ todo'[Remote(e)] = todo[Remote(e)] /\ inbox'[e] = Tail(inbox[e])
      <3>1. \A d \in Ends : inbox'[d] = IF d = e THEN Tail(inbox[d]) ELSE inbox[d]
        BY <1>0, <2>2
      <3> QED
        BY <1>0, <1>6, <2>1, <2>2, <3>1
    <2>4. inbox[e][1][1] = "block" => inbox[e][1][2] \in have'[Owner(e)]
      <3>1. Head(inbox[e]) = inbox[e][1]
        BY <1>0, <2>2, FirstMessage
      <3>2. CASE AcceptBlock(e) \/ DropBlock(e)
        BY <1>0, <3>1, <3>2, BlockTaken DEF Payload
      <3>3. CASE ~(AcceptBlock(e) \/ DropBlock(e))
        <4>1. Head(inbox[e])[1] # "block"
          BY <1>8, <3>3 DEF Answers, ReadGetBlocks, ReadInv, ReadGetData, ReadGetAddr, Reads
        <4> QED
          BY <3>1, <4>1
      <3> QED
        BY <3>2, <3>3
    <2>5. Motion(e)
      BY <2>2, <2>3, <2>4 DEF Motion
    <2> QED
      BY <2>3, <2>5
  <1>9. ASSUME NEW e \in Ends, SendNext(e) PROVE \A d \in Ends : Motion(d)
    <2>1. /\ thread[e] = "send" /\ todo[e] # <<>> /\ Head(todo[e]) = todo[e][1]
          /\ todo' = [todo EXCEPT ![e] = Tail(@)]
          /\ ~Head(todo[e]).wide =>
                \A d \in Ends :
                    inbox'[d] = IF d = Remote(e) /\ Table(e)[Addr(e)].handshaked
                                THEN Append(inbox[d], Head(todo[e]).msg) ELSE inbox[d]
          /\ Head(todo[e]).wide => inbox' = inbox
      BY <1>0, <1>9, SendParts
    <2>2. HasEntry(e)
      BY <1>0, <2>1 DEF TableIsThreads, InTable
    <2>3. \A d \in Ends : todo'[Remote(d)] = IF d = Remote(e) THEN Tail(todo[e]) ELSE todo[Remote(d)]
      BY <1>0, <2>1
    <2>4. \A d \in Ends : inbox'[d] = IF d = Remote(e) /\ ~todo[e][1].wide /\ Hears(e)
                                      THEN Append(inbox[d], todo[e][1].msg) ELSE inbox[d]
      BY <2>1, <2>2 DEF Hears
    <2>5. \A d \in Ends : d # Remote(e) => Motion(d)
      BY <2>3, <2>4 DEF Motion
    <2>6. Motion(Remote(e))
      BY <1>0, <2>1, <2>3, <2>4 DEF Motion
    <2> QED
      BY <2>5, <2>6
  <1>10. ASSUME NEW n \in Node, AnnounceFound(n) PROVE \A d \in Ends : Motion(d)
    BY <1>0, <1>1, <1>10, AnnounceParts
  <1>11. ASSUME NEW e \in Ends, QueueStep(e) PROVE \A d \in Ends : Motion(d)
    <2>1. CASE (Hello(e) \/ StoreNonce(e)) /\ UNCHANGED syncVars
      BY <1>2, <1>4, <2>1 DEF syncVars
    <2>2. CASE SyncStep(e)
      BY <1>5, <1>7, <1>8, <1>9, <2>2 DEF SyncStep, Answers
    <2> QED
      BY <1>11, <2>1, <2>2 DEF QueueStep
  <1> QED
    BY <1>1, <1>10, <1>11, QueueSteps

\* It stays so at one end.
LEMMA SaidKept ==
    ASSUME TypesInv, NEW d \in Ends, Motion(d), SaidAt(d),
           \A n \in Node : have[n] \subseteq have'[n],
           Hears(Remote(d))' => Hears(Remote(d)) \/ todo'[Remote(d)] = <<>>
    PROVE  SaidAt(d)'
  <1> DEFINE r == Remote(d)
             n == Owner(d)
             m == Owner(r)
             M == have[m]
             N == have[n]
             P == have'[m]
             Q == have'[n]
             H == Reach(n)
             G == Q \cup {Zero}
  <1>1. /\ r \in Ends /\ n \in Node /\ m \in Node /\ Remote(r) = d
        /\ inbox[d] \in Seq(Message) /\ todo[r] \in Seq(Task)
    BY EndFacts DEF TypesInv, Messages, Tasks
  <1>2. M \subseteq P /\ N \subseteq Q /\ H \subseteq G
    BY <1>1 DEF Reach
  <1>3. \A msg : Said(M, N, msg) => Said(P, Q, msg)
    BY <1>2, SaidStays
  <1>4. /\ \A i \in 1..Len(inbox[d]) : Said(M, N, inbox[d][i])
        /\ \A i \in 1..Len(todo[r]) : ~todo[r][i].wide => Said(M, N, todo[r][i].msg)
        /\ Coming(inbox[d], H)
        /\ Hears(r) => Following(todo[r], inbox[d], H)
    BY DEF SaidAt, SaidTo
  <1> DEFINE q == inbox[d]
             s == todo[r]
             p == inbox'[d]
             t == todo'[r]
             Holds == /\ \A i \in 1..Len(p) : Said(P, Q, p[i])
                      /\ \A i \in 1..Len(t) : ~t[i].wide => Said(P, Q, t[i].msg)
                      /\ Coming(p, G)
                      /\ Hears(r)' => Following(t, p, G)
  <1>5. Coming(q, G) /\ (Hears(r) => Following(s, q, G))
    BY <1>2, <1>4, ComingGrows
  <1>6. SUFFICES Holds
    BY DEF SaidAt, SaidTo, Reach
  <1> HIDE DEF M, N, P, Q, H
  <1>7. /\ \A i \in 1..Len(q) : Said(P, Q, q[i])
        /\ \A i \in 1..Len(s) : ~s[i].wide => Said(P, Q, s[i].msg)
    BY <1>3, <1>4
  <1>8. t = s => (Hears(r)' => Following(s, q, G))
    <2>1. s = <<>> => \A x : Following(s, x, G)
      BY DEF Following
    <2> QED
      BY <1>5, <2>1
  <1> HIDE DEF q, s, p, t, G
  <1>9. q \in Seq(Message) /\ s \in Seq(Task)
    BY <1>1 DEF q, s
  <1>10. CASE p = q /\ t = s
    BY <1>5, <1>7, <1>8, <1>10
  <1>11. CASE q # <<>> /\ p = Tail(q) /\ t = s /\ (q[1][1] = "block" => q[1][2] \in have'[n])
    <2>1. q[1][1] = "block" => q[1][2] \in G
      BY <1>11 DEF G, Q
    <2>2. Coming(p, G) /\ (Hears(r)' => Following(t, p, G))
      BY <1>5, <1>8, <1>9, <1>11, <2>1, ComingTail
    <2>3. \A i \in 1..Len(p) : i + 1 \in 1..Len(q) /\ p[i] = q[i + 1]
      BY <1>9, <1>11, Queues
    <2>4. \A i \in 1..Len(p) : Said(P, Q, p[i])
      BY <1>7, <2>3
    <2> QED
      BY <1>7, <1>11, <2>2, <2>4
  <1>12. ASSUME NEW x \in Message, x[1] \in {"version", "verack"}, p = Append(q, x), t = s
         PROVE  Holds
    <2>1. Coming(p, G) /\ (Hears(r)' => Following(t, p, G))
      BY <1>5, <1>8, <1>9, <1>12, ComingAppend
    <2>2. Said(P, Q, x)
      BY <1>12 DEF Said
    <2>3. \A i \in 1..Len(p) : (i \in 1..Len(q) /\ p[i] = q[i]) \/ p[i] = x
      BY <1>9, <1>12, Queues
    <2>4. \A i \in 1..Len(p) : Said(P, Q, p[i])
      BY <1>7, <2>2, <2>3
    <2> QED
      BY <1>7, <1>12, <2>1, <2>4
  <1>13. CASE p = q /\ GoodAnswer(r, t)
    <2>1. /\ \A i \in 1..Len(t) : ~t[i].wide => Said(M, N, t[i].msg)
          /\ Following(t, p, H)
      BY <1>1, <1>13 DEF GoodAnswer, SaidTo, M, N, H
    <2>2. Following(t, p, G)
      BY <1>2, <2>1, ComingGrows
    <2> QED
      BY <1>3, <1>5, <1>7, <1>13, <2>1, <2>2
  <1>14. CASE /\ s # <<>> /\ t = Tail(s)
              /\ p = IF ~s[1].wide /\ Hears(r) THEN Append(q, s[1].msg) ELSE q
    <2>1. /\ \A i \in 1..Len(t) : i + 1 \in 1..Len(s) /\ t[i] = s[i + 1]
          /\ s[1] \in Task /\ 1 \in 1..Len(s)
      BY <1>9, <1>14, Queues
    <2>2. \A i \in 1..Len(t) : ~t[i].wide => Said(P, Q, t[i].msg)
      BY <1>7, <2>1
    <2>3. CASE Hears(r)
      <3>1. s[1].msg \in Message /\ p = IF s[1].wide THEN q ELSE Append(q, s[1].msg)
        BY <1>14, <2>1, <2>3, TaskTypes
      <3>2. p \in Seq(Message)
        BY <1>9, <3>1, Queues
      <3>3. Following(t, p, G) /\ Coming(p, G)
        BY <1>5, <1>9, <1>14, <2>3, <3>1, <3>2, FollowingTail
      <3>4. \A i \in 1..Len(p) : \/ i \in 1..Len(q) /\ p[i] = q[i]
                                 \/ p[i] = s[1].msg /\ ~s[1].wide
        BY <1>9, <3>1, Queues
      <3>5. \A i \in 1..Len(p) : Said(P, Q, p[i])
        BY <1>7, <2>1, <3>4
      <3> QED
        BY <2>2, <3>3, <3>5
    <2>4. CASE ~Hears(r)
      <3>1. Hears(r)' => t = <<>>
        BY <2>4 DEF t
      <3>2. t = <<>> => Following(t, p, G)
        BY DEF Following
      <3> QED
        BY <1>5, <1>7, <1>14, <2>2, <2>4, <3>1, <3>2
    <2> QED
      BY <2>3, <2>4
  <1> QED
    BY <1>10, <1>11, <1>12, <1>13, <1>14 DEF Motion, q, s, p, t

\* What may go wrong has gone wrong for good.
LEMMA WhyGrows == [SyncNext]_vars => why \subseteq why'
  <1> SUFFICES ASSUME [SyncNext]_vars PROVE why \subseteq why'
    OBVIOUS
  <1>1. CASE ConnNext /\ UNCHANGED syncVars
    BY <1>1 DEF syncVars
  <1>2. CASE \E e \in Ends : SyncStep(e)
    BY <1>2 DEF SyncStep, SyncVerack, AskPeer, ReadGetBlocks, ReadInv, ReadGetData, AcceptBlock,
                DropBlock, SendNext, ReadGetAddr, ReadAddr, syncVars
  <1>3. CASE \E n \in Node : \/ \E m \in Node : WindowMoves(n, m)
                             \/ \E b \in Block : TakeTemplate(n, b) \/ FetchTemplate(n, b)
                             \/ FindBlock(n) \/ AnnounceFound(n) \/ SubmitBlock(n) \/ RejectBlock(n)
    BY <1>3 DEF WindowMoves, TakeTemplate, FetchTemplate, Template, FindBlock, AnnounceFound,
                SubmitBlock, RejectBlock
  <1>4. CASE UNCHANGED vars
    BY <1>4 DEF vars, syncVars
  <1> QED
    BY <1>1, <1>2, <1>3, <1>4 DEF SyncNext

\* A block is missed only by DropBlock.
LEMMA OrphanSteps ==
    [SyncNext]_vars /\ "orphan" \notin why /\ "orphan" \in why' => \E e \in Ends : DropBlock(e)
  <1> SUFFICES ASSUME [SyncNext]_vars, "orphan" \notin why, ~\E e \in Ends : DropBlock(e)
               PROVE  "orphan" \notin why'
    OBVIOUS
  <1>1. CASE ConnNext /\ UNCHANGED syncVars
    BY <1>1 DEF syncVars
  <1>2. CASE \E e \in Ends : SyncStep(e)
    BY <1>2 DEF SyncStep, SyncVerack, AskPeer, ReadGetBlocks, BlockInvGaps, ReadInv, ReadGetData,
                AcceptBlock, SendNext, ReadGetAddr, ReadAddr, syncVars
  <1>3. CASE \E n \in Node : \/ \E m \in Node : WindowMoves(n, m)
                             \/ \E b \in Block : TakeTemplate(n, b) \/ FetchTemplate(n, b)
                             \/ FindBlock(n) \/ AnnounceFound(n) \/ SubmitBlock(n) \/ RejectBlock(n)
    BY <1>3 DEF WindowMoves, TakeTemplate, FetchTemplate, Template, FindBlock, AnnounceFound,
                SubmitBlock, RejectBlock
  <1>4. CASE UNCHANGED vars
    BY <1>4 DEF vars, syncVars
  <1> QED
    BY <1>1, <1>2, <1>3, <1>4 DEF SyncNext

\* The inductive invariant of the exchange of blocks.
ExchangeInv ==
    /\ ConnInv
    /\ StoreInv
    /\ Quiet => (\A e \in Ends : SaidAt(e)) /\ "orphan" \notin why

\* It holds at first: the stores that nodes are started with are in order.
LEMMA ExchangeInvInit == SyncInit => ExchangeInv
  <1> SUFFICES ASSUME SyncInit PROVE ExchangeInv
    OBVIOUS
  <1>1. PICK s \in Starts : have = s.have /\ tip = s.tip /\ why = {} /\ InitWith(s.dialled)
                            /\ todo = [e \in Ends |-> <<>>] /\ miner = [n \in Node |-> <<"idle">>]
    BY DEF SyncInit
  <1>2. /\ s.tip \in [Node -> Block \cup {Zero}] /\ s.have \in [Node -> SUBSET Block]
        /\ \A n \in Node : /\ Path[s.tip[n]] \subseteq s.have[n]
                           /\ \A b \in s.have[n] : Path[b] \subseteq s.have[n]
    BY SyncAssumption
  <1>3. \A b \in Block : b \in Path[b]
    BY PathAssumption
  <1>4. StoreInv
    BY <1>1, <1>2, <1>3 DEF StoreInv
  <1>5. \A e \in Ends : SaidAt(e)
    <2> SUFFICES ASSUME NEW e \in Ends PROVE SaidAt(e)
      OBVIOUS
    <2>1. inbox[e] = <<>> /\ todo[Remote(e)] = <<>>
      BY <1>1, EndFacts DEF InitWith
    <2> QED
      BY <2>1 DEF SaidAt, Coming, Following
  <1> QED
    BY <1>1, <1>4, <1>5, ConnInvInit DEF ExchangeInv

\* Every step keeps it.
LEMMA ExchangeInvStep == ExchangeInv /\ [SyncNext]_vars => ExchangeInv'
  <1> SUFFICES ASSUME ExchangeInv, [SyncNext]_vars PROVE ExchangeInv'
    OBVIOUS
  <1>1. ConnInv /\ StoreInv /\ TypesInv
    BY DEF ExchangeInv, ConnInv
  <1>2. ConnInv' /\ StoreInv' /\ \A n \in Node : have[n] \subseteq have'[n]
    BY <1>1, ConnInvStep, StoreStep
  <1>3. ASSUME Quiet' PROVE (\A e \in Ends : SaidAt(e)') /\ "orphan" \notin why'
    <2>1. (\A e \in Ends : SaidAt(e)) /\ "orphan" \notin why
      BY <1>3, WhyGrows DEF Quiet, ExchangeInv
    <2>2. \A e \in Ends : Motion(e)
      BY <1>1, <1>3, <2>1, Motions
    <2>3. \A e \in Ends : Hears(e)' => Hears(e) \/ todo'[e] = <<>>
      BY <1>1, HearsStep
    <2>4. \A e \in Ends : SaidAt(e)'
      BY <1>1, <1>2, <2>1, <2>2, <2>3, SaidKept, EndFacts
    <2>5. "orphan" \notin why'
      BY <1>1, <1>3, <2>1, OrphanSteps, BlockTaken
    <2> QED
      BY <2>4, <2>5
  <1> QED
    BY <1>2, <1>3 DEF ExchangeInv

\* It holds in every reachable state.
THEOREM ExchangeInvariant == SyncSpec => []ExchangeInv
  BY ExchangeInvInit, ExchangeInvStep, PTL DEF SyncSpec

\* A block never arrives before its parent through the initial exchange alone,
\* whatever is mined, handed in or reorganised while an answer is under way.
THEOREM ParentsCorrect == SyncSpec => []ParentsFirst
  <1>1. ExchangeInv => ParentsFirst
    BY DEF ExchangeInv, Quiet, ParentsFirst
  <1> QED
    BY <1>1, ExchangeInvariant, PTL
=============================================================================
