---------------------------- MODULE Locks_proofs ----------------------------
(***************************************************************************)
(* Proofs about Locks, for any number of threads and any choice of the     *)
(* handlers that each of them runs.                                        *)
(***************************************************************************)
EXTENDS Locks, Integers, DataTheorems, SequenceTheorems

Acquire(m) == [op |-> "lock", m |-> m]
Release(m) == [op |-> "unlock", m |-> m]
Op == {Acquire(m) : m \in Mutex} \cup {Release(m) : m \in Mutex}

\* The mutexes a thread may ask for while it has another: all handlers take
\* them in this order, and a Version asks for the node under the peer table.
AskedUnder(h, m) ==
    <<h, m>> \in {<<"node", "peers">>, <<"peers", "node">>, <<"peers", "writer">>,
                  <<"peers", "connecting">>}

\* What a thread has and has still to do, and what it has and has to do after
\* its next operation; C has the second of all its members.
RunsOn(C, H, s) ==
    /\ H \in SUBSET Mutex /\ s \in Seq(Op)
    /\ s = <<>> => H = {}
    /\ s # <<>> => \E m \in Mutex :
           \/ /\ Head(s) = Acquire(m) /\ m \notin H /\ (\A h \in H : AskedUnder(h, m))
              /\ <<H \cup {m}, Tail(s)>> \in C
           \/ Head(s) = Release(m) /\ m \in H /\ <<H \ {m}, Tail(s)>> \in C
Closed(C) == \A p \in C : p = <<p[1], p[2]>> /\ RunsOn(C, p[1], p[2])

\* A thread that has H can run s to its end: it gives back only what it has,
\* asks for nothing that it has, and has nothing in the end.
Runs(H, s) == \E C : Closed(C) /\ <<H, s>> \in C

(***************************************************************************)
(* Every handler runs from nothing to nothing.                             *)
(***************************************************************************)

\* The next operation of a run, and what is left after it.
LEMMA RunsNext ==
    ASSUME NEW H, NEW s, Runs(H, s)
    PROVE  /\ H \in SUBSET Mutex /\ s \in Seq(Op)
           /\ s = <<>> => H = {}
           /\ s # <<>> => \E m \in Mutex :
                  \/ /\ Head(s) = Acquire(m) /\ m \notin H /\ (\A h \in H : AskedUnder(h, m))
                     /\ Runs(H \cup {m}, Tail(s))
                  \/ Head(s) = Release(m) /\ m \in H /\ Runs(H \ {m}, Tail(s))
  <1>1. PICK C : Closed(C) /\ <<H, s>> \in C
    BY DEF Runs
  <1>2. RunsOn(C, H, s)
    BY <1>1 DEF Closed
  <1>3. \A K, r : <<K, r>> \in C => Runs(K, r)
    BY <1>1 DEF Runs
  <1> QED
    BY <1>2, <1>3 DEF RunsOn

\* There is nothing to do for a thread that has nothing.
LEMMA RunsNothing == Runs({}, <<>>)
  <1> DEFINE C == {<<{}, <<>>>>}
  <1>1. RunsOn(C, {}, <<>>)
    BY DEF RunsOn
  <1>2. \A p \in C : p = <<{}, <<>>>> /\ p[1] = {} /\ p[2] = <<>>
    OBVIOUS
  <1> HIDE DEF C
  <1>3. Closed(C)
    BY <1>1, <1>2 DEF Closed
  <1> QED
    BY <1>3 DEF Runs, C

\* A run may be preceded by taking a mutex ...
LEMMA RunsAcquire ==
    ASSUME NEW H \in SUBSET Mutex, NEW m \in Mutex, NEW s, m \notin H,
           \A h \in H : AskedUnder(h, m), Runs(H \cup {m}, s)
    PROVE  Runs(H, <<Acquire(m)>> \o s)
  <1>1. PICK C : Closed(C) /\ <<H \cup {m}, s>> \in C
    BY DEF Runs
  <1> DEFINE r == <<Acquire(m)>> \o s
             D == C \cup {<<H, r>>}
  <1>2. s \in Seq(Op) /\ Acquire(m) \in Op
    BY RunsNext DEF Op
  <1>3. r \in Seq(Op) /\ r # <<>> /\ Head(r) = Acquire(m) /\ Tail(r) = s
    <2> HIDE DEF Op, Acquire
    <2> QED
      BY <1>2
  <1> HIDE DEF r
  <1>4. RunsOn(D, H, r)
    BY <1>1, <1>3 DEF RunsOn
  <1>5. ASSUME NEW p \in C PROVE p = <<p[1], p[2]>> /\ RunsOn(D, p[1], p[2])
    BY <1>1 DEF Closed, RunsOn
  <1>6. Closed(D)
    BY <1>4, <1>5 DEF Closed
  <1> QED
    BY <1>6 DEF Runs, r

\* ... or by giving one back.
LEMMA RunsRelease ==
    ASSUME NEW H \in SUBSET Mutex, NEW m \in Mutex, NEW s, m \notin H, Runs(H, s)
    PROVE  Runs(H \cup {m}, <<Release(m)>> \o s)
  <1>1. PICK C : Closed(C) /\ <<H, s>> \in C
    BY DEF Runs
  <1> DEFINE r == <<Release(m)>> \o s
             D == C \cup {<<H \cup {m}, r>>}
  <1>2. s \in Seq(Op) /\ Release(m) \in Op
    BY RunsNext DEF Op
  <1>3. r \in Seq(Op) /\ r # <<>> /\ Head(r) = Release(m) /\ Tail(r) = s
    <2> HIDE DEF Op, Release
    <2> QED
      BY <1>2
  <1> HIDE DEF r
  <1>4. RunsOn(D, H \cup {m}, r)
    <2>1. (H \cup {m}) \ {m} = H
      OBVIOUS
    <2> QED
      BY <1>1, <1>3, <2>1 DEF RunsOn
  <1>5. ASSUME NEW p \in C PROVE p = <<p[1], p[2]>> /\ RunsOn(D, p[1], p[2])
    BY <1>1 DEF Closed, RunsOn
  <1>6. Closed(D)
    BY <1>4, <1>5 DEF Closed
  <1> QED
    BY <1>6 DEF Runs, r

\* A run that ends with nothing may go on with another that begins with nothing.
LEMMA RunsThen ==
    ASSUME NEW H, NEW s, NEW t, Runs(H, s), Runs({}, t)
    PROVE  Runs(H, s \o t)
  <1>1. PICK C : Closed(C) /\ <<H, s>> \in C
    BY DEF Runs
  <1>2. PICK D : Closed(D) /\ <<{}, t>> \in D
    BY DEF Runs
  <1> DEFINE E == D \cup {<<p[1], p[2] \o t>> : p \in C}
  <1>3. t \in Seq(Op)
    BY RunsNext
  <1>4. ASSUME NEW p \in D PROVE p = <<p[1], p[2]>> /\ RunsOn(E, p[1], p[2])
    BY <1>2 DEF Closed, RunsOn
  <1>5. ASSUME NEW p \in C PROVE RunsOn(E, p[1], p[2] \o t)
    <2> DEFINE K == p[1]
               r == p[2]
    <2>1. RunsOn(C, K, r)
      BY <1>1 DEF Closed
    <2>2. r \in Seq(Op)
      BY <2>1 DEF RunsOn
    <2>3. CASE r = <<>>
      <3>1. K = {} /\ r \o t = t
        BY <1>3, <2>1, <2>3 DEF RunsOn
      <3>2. RunsOn(E, {}, t)
        BY <1>2, <1>4
      <3> QED
        BY <3>1, <3>2
    <2>4. CASE r # <<>>
      <3>1. /\ r \o t \in Seq(Op) /\ r \o t # <<>> /\ Head(r \o t) = Head(r)
            /\ Tail(r \o t) = Tail(r) \o t
        <4> HIDE DEF Op, r
        <4> QED
          BY <1>3, <2>2, <2>4
      <3>2. \A L, q : <<L, q>> \in C => <<L, q \o t>> \in E
        OBVIOUS
      <3> HIDE DEF E, K, r
      <3>3. PICK m \in Mutex :
                \/ /\ Head(r) = Acquire(m) /\ m \notin K /\ (\A h \in K : AskedUnder(h, m))
                   /\ <<K \cup {m}, Tail(r)>> \in C
                \/ Head(r) = Release(m) /\ m \in K /\ <<K \ {m}, Tail(r)>> \in C
        BY <2>1, <2>4 DEF RunsOn
      <3>4. \/ /\ Head(r \o t) = Acquire(m) /\ m \notin K /\ (\A h \in K : AskedUnder(h, m))
               /\ <<K \cup {m}, Tail(r \o t)>> \in E
            \/ Head(r \o t) = Release(m) /\ m \in K /\ <<K \ {m}, Tail(r \o t)>> \in E
        BY <3>1, <3>2, <3>3
      <3>5. K \in SUBSET Mutex
        BY <2>1 DEF RunsOn
      <3> QED
        BY <3>1, <3>4, <3>5 DEF RunsOn, K, r
    <2> QED
      BY <2>3, <2>4
  <1>6. Closed(E)
    <2> SUFFICES ASSUME NEW q \in E PROVE q = <<q[1], q[2]>> /\ RunsOn(E, q[1], q[2])
      BY DEF Closed
    <2>1. CASE q \in D
      BY <1>4, <2>1
    <2>2. ASSUME NEW p \in C, q = <<p[1], p[2] \o t>>
          PROVE  q = <<q[1], q[2]>> /\ RunsOn(E, q[1], q[2])
      <3>1. q[1] = p[1] /\ q[2] = p[2] \o t
        BY <2>2
      <3> HIDE DEF E
      <3> QED
        BY <1>5, <2>2, <3>1
    <2> QED
      BY <2>1, <2>2
  <1>7. <<H, s \o t>> \in E
    <2>1. <<H, s>>[1] = H /\ <<H, s>>[2] = s
      OBVIOUS
    <2> QED
      BY <1>1, <2>1
  <1> QED
    BY <1>6, <1>7 DEF Runs

\* A section runs from nothing.
LEMMA RunsSection == ASSUME NEW m \in Mutex PROVE Runs({}, Section(m))
  <1>1. Runs({} \cup {m}, <<Release(m)>> \o <<>>)
    BY RunsNothing, RunsRelease
  <1>2. Runs({}, <<Acquire(m)>> \o (<<Release(m)>> \o <<>>))
    BY <1>1, RunsAcquire
  <1>3. <<Acquire(m)>> \o (<<Release(m)>> \o <<>>) = Section(m)
    BY DEF Section, Around, Acquire, Release
  <1> QED
    BY <1>2, <1>3

\* So does a section inside another.
LEMMA RunsNested ==
    ASSUME NEW m \in Mutex, NEW n \in Mutex, n # m, AskedUnder(m, n)
    PROVE  Runs({}, Around(m, Section(n)))
  <1> DEFINE last == <<Release(m)>> \o <<>>
             inner == <<Acquire(n)>> \o (<<Release(n)>> \o last)
  <1>1. Runs({m}, last)
    <2>1. Runs({} \cup {m}, last)
      BY RunsNothing, RunsRelease
    <2> QED
      BY <2>1
  <1> HIDE DEF last
  <1>2. Runs({m} \cup {n}, <<Release(n)>> \o last)
    BY <1>1, RunsRelease
  <1>3. Runs({m}, inner)
    BY <1>2, RunsAcquire
  <1> HIDE DEF inner
  <1>4. Runs({} \cup {m}, inner)
    BY <1>3
  <1>5. Runs({}, <<Acquire(m)>> \o inner)
    BY <1>4, RunsAcquire
  <1>6. <<Acquire(m)>> \o inner = Around(m, Section(n))
    BY DEF Section, Around, Acquire, Release, inner, last
  <1> QED
    BY <1>5, <1>6

\* A thread that holds nothing can send a message.
LEMMA RunsSendMsg == Runs({}, SendMsg)
  <1>1. AskedUnder("peers", "writer") /\ {"peers", "writer"} \subseteq Mutex
    BY DEF AskedUnder, Mutex
  <1> QED
    BY <1>1, RunsNested DEF SendMsg

\* Every program of a handler runs from nothing to nothing.
LEMMA ProgramsRun == \A h \in Handler : Runs({}, Program[h])
  <1>1. \A m \in Mutex : Runs({}, Section(m))
    BY RunsSection
  <1>2. \A s, t : Runs({}, s) /\ Runs({}, t) => Runs({}, s \o t)
    BY RunsThen
  <1>3. {"node", "peers", "connecting", "known", "writer"} = Mutex
    BY DEF Mutex
  <1>4. /\ Runs({}, Around("peers", Section("connecting")))
        /\ Runs({}, Around("peers", Section("node")))
        /\ Runs({}, Around("node", Section("peers")))
    BY <1>3, RunsNested DEF AskedUnder
  <1>5. /\ Runs({}, Section("node")) /\ Runs({}, Section("peers")) /\ Runs({}, Section("known"))
        /\ Runs({}, Section("connecting"))
    BY <1>1, <1>3
  <1>6. \A s : Runs({}, s) => Runs({}, OnMessage(s))
    BY <1>2, <1>5 DEF OnMessage
  <1>7. /\ Runs({}, Register) /\ Runs({}, OnVerack) /\ Runs({}, OnRequest) /\ Runs({}, OnPayload)
        /\ Runs({}, OnGetAddr) /\ Runs({}, MinerLoop) /\ Runs({}, LoadMempool)
    BY <1>2, <1>5, <1>6, RunsSendMsg
       DEF Register, OnVerack, OnRequest, OnPayload, OnGetAddr, MinerLoop, LoadMempool
  <1>8. Runs({}, OnVersion) /\ Runs({}, OnAddr) /\ Runs({}, EndOfConnection)
    BY <1>2, <1>4, <1>5, <1>6, RunsSendMsg DEF OnVersion, OnAddr, EndOfConnection, ConnectTo
  <1>9. /\ Runs({}, AfterRead) /\ Runs({}, Listen) /\ Runs({}, DialSucceeds)
        /\ Runs({}, DialFails) /\ Runs({}, MinerWait) /\ Runs({}, Status)
        /\ Runs({}, RpcRequest) /\ Runs({}, RpcPeers)
    BY <1>4, <1>5 DEF AfterRead, Listen, DialSucceeds, DialFails, MinerWait, Status, RpcRequest,
                      RpcPeers
  <1>10. /\ Handler = {"register", "version", "verack", "request", "payload", "getAddr", "addr",
                       "afterRead", "end", "listen", "dial", "dialFails", "minerWait", "mine",
                       "loadMempool", "status", "rpc", "rpcPeers"}
         /\ Program["register"] = Register /\ Program["version"] = OnVersion
         /\ Program["verack"] = OnVerack /\ Program["request"] = OnRequest
         /\ Program["payload"] = OnPayload /\ Program["getAddr"] = OnGetAddr
         /\ Program["addr"] = OnAddr /\ Program["afterRead"] = AfterRead
         /\ Program["end"] = EndOfConnection /\ Program["listen"] = Listen
         /\ Program["dial"] = DialSucceeds /\ Program["dialFails"] = DialFails
         /\ Program["minerWait"] = MinerWait /\ Program["mine"] = MinerLoop
         /\ Program["loadMempool"] = LoadMempool /\ Program["status"] = Status
         /\ Program["rpc"] = RpcRequest /\ Program["rpcPeers"] = RpcPeers
    BY DEF Handler, Program
  <1> QED
    BY <1>7, <1>8, <1>9, <1>10

(***************************************************************************)
(* Every thread has what it needs to run what it has still to do.          *)
(***************************************************************************)

Has(t) == {m \in Mutex : holder[m] = t}

LocksInv ==
    /\ holder \in [Mutex -> Thread \cup {Free}]
    /\ todo \in [Thread -> Seq(Op)]
    /\ \A t \in Thread : Runs(Has(t), todo[t])

\* It holds at first.
LEMMA LocksInvInit == Init => LocksInv
  <1> SUFFICES ASSUME Init PROVE LocksInv
    OBVIOUS
  <1>1. \A t \in Thread : Has(t) = {} /\ todo[t] = <<>>
    BY LocksAssumption DEF Init, Has
  <1>2. todo \in [Thread -> Seq(Op)]
    <2>1. <<>> \in Seq(Op)
      OBVIOUS
    <2> QED
      BY <2>1 DEF Init
  <1> QED
    BY <1>1, <1>2, RunsNothing DEF LocksInv, Init

\* Every step keeps it.
LEMMA LocksInvStep == LocksInv /\ [Next]_lockVars => LocksInv'
  <1> SUFFICES ASSUME LocksInv, [Next]_lockVars PROVE LocksInv'
    OBVIOUS
  <1>0. /\ holder \in [Mutex -> Thread \cup {Free}] /\ todo \in [Thread -> Seq(Op)]
        /\ \A t \in Thread : Runs(Has(t), todo[t])
        /\ Free \notin Thread
    BY LocksAssumption DEF LocksInv
  <1>1. ASSUME NEW t \in Thread, NEW h \in Handlers[t], Begin(t, h) PROVE LocksInv'
    <2>1. h \in Handler
      BY LocksAssumption
    <2>2. Runs({}, Program[h]) /\ Program[h] \in Seq(Op)
      BY <2>1, ProgramsRun, RunsNext
    <2>3. Has(t) = {}
      BY <1>0, <1>1, RunsNext DEF Begin
    <2>4. \A u \in Thread : Has(u)' = Has(u)
      BY <1>1 DEF Begin, Has
    <2> QED
      BY <1>0, <1>1, <2>2, <2>3, <2>4 DEF LocksInv, Begin
  <1>2. ASSUME NEW t \in Thread, todo[t] # <<>>
        PROVE  \E m \in Mutex :
                   \/ /\ Head(todo[t]) = Acquire(m) /\ m \notin Has(t)
                      /\ Runs(Has(t) \cup {m}, Tail(todo[t]))
                   \/ /\ Head(todo[t]) = Release(m) /\ m \in Has(t)
                      /\ Runs(Has(t) \ {m}, Tail(todo[t]))
    BY <1>0, <1>2, RunsNext
  <1>3. \A m, n : /\ Acquire(m) = Acquire(n) => m = n
                  /\ Release(m) = Release(n) => m = n
                  /\ Acquire(m) # Release(n)
    BY DEF Acquire, Release
  <1>4. \A t \in Thread : todo[t] # <<>> => Tail(todo[t]) \in Seq(Op)
    <2> HIDE DEF Op
    <2> QED
      BY <1>0
  <1>5. ASSUME NEW t \in Thread, NEW m \in Mutex, Lock(t, m) PROVE LocksInv'
    <2>1. todo[t] # <<>> /\ Head(todo[t]) = Acquire(m)
      BY <1>5 DEF Lock, Wants, Acquire
    <2>2. Runs(Has(t) \cup {m}, Tail(todo[t]))
      BY <1>2, <1>3, <2>1
    <2>3. Has(t)' = Has(t) \cup {m}
      BY <1>0, <1>5 DEF Lock, Has
    <2>4. \A u \in Thread \ {t} : Has(u)' = Has(u)
      BY <1>0, <1>5 DEF Lock, Has
    <2>5. /\ holder' \in [Mutex -> Thread \cup {Free}] /\ todo' \in [Thread -> Seq(Op)]
          /\ todo'[t] = Tail(todo[t]) /\ \A u \in Thread \ {t} : todo'[u] = todo[u]
      BY <1>0, <1>4, <1>5, <2>1 DEF Lock
    <2> QED
      BY <1>0, <2>2, <2>3, <2>4, <2>5 DEF LocksInv
  <1>6. ASSUME NEW t \in Thread, NEW m \in Mutex, Unlock(t, m) PROVE LocksInv'
    <2>1. todo[t] # <<>> /\ Head(todo[t]) = Release(m)
      BY <1>6 DEF Unlock, Release
    <2>2. m \in Has(t) /\ Runs(Has(t) \ {m}, Tail(todo[t]))
      BY <1>2, <1>3, <2>1
    <2>3. Has(t)' = Has(t) \ {m}
      BY <1>0, <1>6 DEF Unlock, Has
    <2>4. \A u \in Thread \ {t} : Has(u)' = Has(u)
      BY <1>0, <1>6, <2>2 DEF Unlock, Has
    <2>5. /\ holder' \in [Mutex -> Thread \cup {Free}] /\ todo' \in [Thread -> Seq(Op)]
          /\ todo'[t] = Tail(todo[t]) /\ \A u \in Thread \ {t} : todo'[u] = todo[u]
      BY <1>0, <1>4, <1>6, <2>1 DEF Unlock
    <2> QED
      BY <1>0, <2>2, <2>3, <2>4, <2>5 DEF LocksInv
  <1>7. CASE UNCHANGED lockVars
    BY <1>0, <1>7 DEF LocksInv, lockVars, Has
  <1> QED
    BY <1>1, <1>5, <1>6, <1>7 DEF Next

\* A thread can always run to the end what it has begun with what it has.
THEOREM LocksInvariant == Spec => []LocksInv
  BY LocksInvInit, LocksInvStep, PTL DEF Spec

(***************************************************************************)
(* Threads that wait for each other.                                       *)
(***************************************************************************)

\* What a waiting thread has comes before what it waits for.
LEMMA WaitsInOrder ==
    ASSUME LocksInv, NEW t \in Thread, NEW h \in Mutex, holder[h] = t,
           NEW m \in Mutex, Wants(t, m)
    PROVE  AskedUnder(h, m)
  <1>1. Runs(Has(t), todo[t]) /\ h \in Has(t)
    BY DEF LocksInv, Has
  <1>2. todo[t] # <<>> /\ Head(todo[t]) = Acquire(m)
    BY DEF Wants, Acquire
  <1>3. \A n : Acquire(m) # Release(n) /\ (Acquire(m) = Acquire(n) => m = n)
    BY DEF Acquire, Release
  <1>4. PICK n \in Mutex :
            \/ Head(todo[t]) = Acquire(n) /\ \A k \in Has(t) : AskedUnder(k, n)
            \/ Head(todo[t]) = Release(n)
    <2>1. ASSUME NEW H, NEW s, Runs(H, s), s # <<>>
          PROVE  \E n \in Mutex : \/ Head(s) = Acquire(n) /\ \A k \in H : AskedUnder(k, n)
                                  \/ Head(s) = Release(n)
      BY <2>1, RunsNext
    <2> QED
      BY <1>1, <1>2, <2>1
  <1> QED
    BY <1>1, <1>2, <1>3, <1>4

\* The writers and the connecting set come last, the peer table before them,
\* and the node first: a circle of waiting threads would have to go up for
\* ever, unless one of its threads goes back from the table to the node.
THEOREM OnlyVersionMayBlock == Spec => []OnlyVersionBlocks
  <1>1. ASSUME LocksInv PROVE OnlyVersionBlocks
    <2> SUFFICES ASSUME NEW S \in SUBSET Thread, Circle(S), \A t \in S : ~InVersion(t)
                 PROVE  FALSE
      BY DEF OnlyVersionBlocks
    <2>1. \A t \in S : \E u \in S, m \in Mutex : Wants(t, m) /\ holder[m] = u
      BY DEF Circle, WaitsFor
    <2>2. \A t \in S, h, m \in Mutex : holder[h] = t /\ Wants(t, m) =>
              <<h, m>> \in {<<"node", "peers">>, <<"peers", "writer">>, <<"peers", "connecting">>}
      BY <1>1, WaitsInOrder DEF InVersion, AskedUnder
    <2>3. PICK t0 \in S : TRUE
      BY DEF Circle
    <2>4. PICK t1 \in S, m0 \in Mutex : Wants(t0, m0) /\ holder[m0] = t1
      BY <2>1
    <2>5. PICK t2 \in S, m1 \in Mutex : Wants(t1, m1) /\ holder[m1] = t2
      BY <2>1
    <2>6. PICK t3 \in S, m2 \in Mutex : Wants(t2, m2) /\ holder[m2] = t3
      BY <2>1
    <2>7. PICK t4 \in S, m3 \in Mutex : Wants(t3, m3) /\ holder[m3] = t4
      BY <2>1
    <2>8. {<<m0, m1>>, <<m1, m2>>, <<m2, m3>>} \subseteq
              {<<"node", "peers">>, <<"peers", "writer">>, <<"peers", "connecting">>}
      BY <2>2, <2>4, <2>5, <2>6, <2>7
    <2> QED
      BY <2>8
  <1> QED
    BY <1>1, LocksInvariant, PTL

(***************************************************************************)
(* What a thread has, counted.                                             *)
(***************************************************************************)

Places(s, x) == {i \in DOMAIN s : s[i] = x}
Count(s, x) == Cardinality(Places(s, x))

\* The first operation is counted once, the others as in the rest.
LEMMA CountTail ==
    ASSUME NEW S, NEW s \in Seq(S), s # <<>>, NEW x, IsFiniteSet(Places(Tail(s), x))
    PROVE  /\ IsFiniteSet(Places(s, x))
           /\ Count(s, x) = Count(Tail(s), x) + IF Head(s) = x THEN 1 ELSE 0
  <1> DEFINE B == Places(Tail(s), x)
             A == {i + 1 : i \in B}
             f == [i \in B |-> i + 1]
  <1>1. B \subseteq Nat
    BY DEF Places
  <1>2. f \in Bijection(B, A)
    BY <1>1 DEF Bijection, Injection, Surjection, IsInjective
  <1>3. IsFiniteSet(A) /\ Cardinality(A) = Cardinality(B)
    BY <1>2, FS_Bijection DEF ExistsBijection
  <1>4. Len(s) \in Nat /\ Len(s) # 0 /\ Len(Tail(s)) = Len(s) - 1 /\ Head(s) = s[1]
        /\ DOMAIN s = 1..Len(s) /\ DOMAIN Tail(s) = 1..(Len(s) - 1)
        /\ \A i \in 1..(Len(s) - 1) : Tail(s)[i] = s[i + 1]
    OBVIOUS
  <1>5. \A j \in 1..Len(s) : j # 1 => j - 1 \in 1..(Len(s) - 1) /\ (j - 1) + 1 = j
    BY <1>4
  <1>6. \A i \in 1..(Len(s) - 1) : i + 1 \in 1..Len(s) /\ i + 1 # 1
    BY <1>4
  <1>7. A = Places(s, x) \ {1}
    <2>1. ASSUME NEW j \in A PROVE j \in Places(s, x) \ {1}
      <3>1. PICK i \in B : j = i + 1
        OBVIOUS
      <3>2. i \in 1..(Len(s) - 1) /\ Tail(s)[i] = x
        BY <1>4 DEF Places
      <3> QED
        BY <1>4, <1>6, <3>1, <3>2 DEF Places
    <2>2. ASSUME NEW j \in Places(s, x) \ {1} PROVE j \in A
      <3>1. j - 1 \in 1..(Len(s) - 1) /\ (j - 1) + 1 = j /\ s[j] = x
        BY <1>4, <1>5 DEF Places
      <3>2. j - 1 \in B
        BY <1>4, <3>1 DEF Places
      <3> QED
        BY <3>1, <3>2
    <2> QED
      BY <2>1, <2>2
  <1>8. 1 \in Places(s, x) <=> Head(s) = x
    BY <1>4 DEF Places
  <1>9. Cardinality(A) \in Nat
    BY <1>3, FS_CardinalityType
  <1> HIDE DEF A
  <1>10. CASE Head(s) = x
    <2>1. Places(s, x) = A \cup {1} /\ 1 \notin A
      BY <1>7, <1>8, <1>10
    <2> QED
      BY <1>3, <1>9, <1>10, <2>1, FS_AddElement DEF Count
  <1>11. CASE Head(s) # x
    <2>1. Places(s, x) = A
      BY <1>7, <1>8, <1>11
    <2> QED
      BY <1>3, <1>9, <1>11, <2>1 DEF Count
  <1> QED
    BY <1>10, <1>11

\* A run gives back once more than it takes what the thread already has, and
\* as often as it takes it everything else.
LEMMA RunsCount ==
    ASSUME NEW H, NEW s, Runs(H, s), NEW m \in Mutex
    PROVE  /\ IsFiniteSet(Places(s, Release(m))) /\ IsFiniteSet(Places(s, Acquire(m)))
           /\ Count(s, Release(m)) = Count(s, Acquire(m)) + IF m \in H THEN 1 ELSE 0
  <1> DEFINE Counts(K, r) ==
                 /\ IsFiniteSet(Places(r, Release(m))) /\ IsFiniteSet(Places(r, Acquire(m)))
                 /\ Count(r, Release(m)) = Count(r, Acquire(m)) + IF m \in K THEN 1 ELSE 0
             Good == {n \in Nat : \A K, r : Runs(K, r) /\ Len(r) = n => Counts(K, r)}
  <1>1. 0 \in Good
    <2> SUFFICES ASSUME NEW K, NEW r, Runs(K, r), Len(r) = 0 PROVE Counts(K, r)
      OBVIOUS
    <2>1. r = <<>> /\ K = {}
      BY RunsNext
    <2>2. \A x : Places(r, x) = {}
      BY <2>1 DEF Places
    <2>3. \A x : IsFiniteSet(Places(r, x)) /\ Count(r, x) = 0
      BY <2>2, FS_EmptySet DEF Count
    <2>4. m \notin K
      BY <2>1
    <2> QED
      BY <2>3, <2>4
  <1>2. ASSUME NEW n \in Nat, n \in Good PROVE n + 1 \in Good
    <2> SUFFICES ASSUME NEW K, NEW r, Runs(K, r), Len(r) = n + 1 PROVE Counts(K, r)
      OBVIOUS
    <2>1. r \in Seq(Op) /\ r # <<>> /\ Len(Tail(r)) = n
      <3>1. r \in Seq(Op)
        BY RunsNext
      <3> HIDE DEF Op
      <3> QED
        BY <3>1
    <2>2. PICK a \in Mutex :
              \/ Head(r) = Acquire(a) /\ a \notin K /\ Runs(K \cup {a}, Tail(r))
              \/ Head(r) = Release(a) /\ a \in K /\ Runs(K \ {a}, Tail(r))
      BY <2>1, RunsNext
    <2>3. \A b : /\ (Acquire(a) = Acquire(b) <=> a = b) /\ (Release(a) = Release(b) <=> a = b)
                 /\ Acquire(a) # Release(b) /\ Release(a) # Acquire(b)
      BY DEF Acquire, Release
    <2>4. ASSUME NEW x, IsFiniteSet(Places(Tail(r), x))
          PROVE  /\ IsFiniteSet(Places(r, x)) /\ Count(Tail(r), x) \in Nat
                 /\ Count(r, x) = Count(Tail(r), x) + IF Head(r) = x THEN 1 ELSE 0
      BY <2>1, <2>4, CountTail, FS_CardinalityType DEF Count
    <2>5. CASE Head(r) = Acquire(a) /\ a \notin K /\ Runs(K \cup {a}, Tail(r))
      <3>1. Counts(K \cup {a}, Tail(r))
        BY <1>2, <2>1, <2>5
      <3> QED
        BY <2>3, <2>4, <2>5, <3>1
    <2>6. CASE Head(r) = Release(a) /\ a \in K /\ Runs(K \ {a}, Tail(r))
      <3>1. Counts(K \ {a}, Tail(r))
        BY <1>2, <2>1, <2>6
      <3> QED
        BY <2>3, <2>4, <2>6, <3>1
    <2> QED
      BY <2>2, <2>5, <2>6
  <1>3. Len(s) \in Nat
    <2>1. s \in Seq(Op)
      BY RunsNext
    <2> HIDE DEF Op
    <2> QED
      BY <2>1
  <1> HIDE DEF Good
  <1>4. Len(s) \in Good
    BY <1>1, <1>2, <1>3, NatSetInduction
  <1> QED
    BY <1>4 DEF Good

\* A thread has a mutex exactly as long as it has more to give back than to
\* take: no early end of a handler and no order of steps leaves one behind.
THEOREM HoldersGiveBack == Spec => []HoldersOweUnlock
  <1>1. ASSUME LocksInv PROVE HoldersOweUnlock
    <2> SUFFICES ASSUME NEW m \in Mutex, NEW t \in Thread
                 PROVE  holder[m] = t <=> Count(todo[t], Release(m)) > Count(todo[t], Acquire(m))
      BY DEF HoldersOweUnlock, Count, Places, Release, Acquire
    <2>1. Runs(Has(t), todo[t])
      BY <1>1 DEF LocksInv
    <2>2. /\ Count(todo[t], Release(m)) = Count(todo[t], Acquire(m)) + IF m \in Has(t) THEN 1 ELSE 0
          /\ Count(todo[t], Acquire(m)) \in Nat
      BY <2>1, RunsCount, FS_CardinalityType DEF Count
    <2> QED
      BY <2>2 DEF Has
  <1> QED
    BY <1>1, LocksInvariant, PTL

=============================================================================
