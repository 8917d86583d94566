---------------------------- MODULE Pool_proofs ----------------------------
(***************************************************************************)
(* Proofs about Pool, for any finite number of accounts and workers, any   *)
(* blocks, fee, thresholds and amounts.                                    *)
(***************************************************************************)
EXTENDS Pool, DataTheorems, SequenceTheorems

(***************************************************************************)
(* Types.                                                                  *)
(***************************************************************************)

Events == Seq(Event)
SessionType == [open : BOOLEAN, label : Worker \cup {""}, min : Nat, balance : Nat,
                earned : Nat, found : Nat, events : Events]
WorkerType == [seen : BOOLEAN, found : Nat, earned : Nat, addr : Addr]
StreamType == [on : BOOLEAN, sent : Nat, batch : Events, out : Events]

ChainInv ==
    /\ knownBlocks \subseteq known /\ known \subseteq Block /\ tip \in known \cup {Zero}
    /\ IsFiniteSet(known)
    /\ Cardinality(known) <= KnownMax => knownBlocks = known

VarsInv ==
    /\ sessions \in [Account -> SessionType]
    /\ workers \in [Worker -> WorkerType]
    /\ stream \in [Account -> StreamType]
    /\ signed \in [Payee -> Nat]

\* What is on its way to the socket, and what was written to it, are the parts
\* of the session's events that sent tells apart.
PartsOf(s, events) ==
    /\ Len(s.out) = s.sent
    /\ s.sent + Len(s.batch) <= Len(events)
    /\ \A i \in 1..s.sent : s.out[i] = events[i]
    /\ \A i \in 1..Len(s.batch) : s.batch[i] = events[s.sent + i]
StreamParts == \A a \in Account : PartsOf(stream[a], sessions[a].events)

\* What AcceptBlock does to the chain.
LEMMA AcceptedBlock ==
    ASSUME NEW b \in Block, ChainInv, AcceptBlock(b)
    PROVE  /\ ChainInv'
           /\ tip' \in Block
           /\ Height[b] <= Height[tip']
           /\ known' = known \cup {b}
           /\ Cardinality(known') <= KnownMax =>
                  /\ b \notin known
                  /\ Cardinality(known') = Cardinality(known) + 1
                  /\ Cardinality(known) <= KnownMax
  <1>1. PICK t \in known' : IsBest([a \in known' |-> Height[a] + 1], t) /\ tip' = t
    BY DEF AcceptBlock
  <1>2. known' = known \cup {b} /\ known' \subseteq Block
    BY DEF AcceptBlock, ChainInv
  <1>3. Height[b] <= Height[tip']
    <2>1. CASE b = t
      BY <1>1, <2>1, TreeAssumption
    <2>2. CASE b # t
      <3>1. Better([a \in known' |-> Height[a] + 1], t, b)
        BY <1>1, <1>2, <2>2 DEF IsBest
      <3>2. Height[b] \in Nat /\ Height[t] \in Nat
        BY <1>2, TreeAssumption
      <3> QED
        BY <1>1, <1>2, <3>1, <3>2 DEF Better
    <2> QED
      BY <2>1, <2>2
  <1>4. /\ IsFiniteSet(known')
        /\ Cardinality(known') = IF b \in known THEN Cardinality(known) ELSE Cardinality(known) + 1
    BY <1>2, FS_AddElement DEF ChainInv
  <1>5. Cardinality(known) \in Nat /\ Cardinality(known') \in Nat /\ KnownMax \in Nat
    BY <1>4, FS_CardinalityType, PoolAssumption DEF ChainInv
  <1>6. ASSUME Cardinality(known') <= KnownMax
        PROVE  /\ b \notin known /\ Cardinality(known') = Cardinality(known) + 1
               /\ Cardinality(known) <= KnownMax /\ knownBlocks' = known'
    <2>1. knownBlocks = known
      BY <1>4, <1>5, <1>6 DEF ChainInv
    <2>2. b \notin known
      BY <2>1 DEF AcceptBlock, CanAccept
    <2>3. ~(Cardinality(knownBlocks) >= KnownMax)
      BY <1>4, <1>5, <1>6, <2>1, <2>2
    <2> QED
      BY <1>4, <1>5, <1>6, <2>1, <2>2, <2>3 DEF AcceptBlock
  <1>7. knownBlocks' \subseteq known' /\ tip' \in known'
    BY <1>1 DEF AcceptBlock, ChainInv
  <1> QED
    BY <1>1, <1>2, <1>3, <1>4, <1>6, <1>7 DEF ChainInv

(***************************************************************************)
(* The subsidy.  The shift is a function defined by recursion: it exists,  *)
(* and it never grows.                                                     *)
(***************************************************************************)

\* A function on 0..n that follows the equation of Shifted.
ShiftsTo(g, n) == g = [i \in 0..n |-> IF i = 0 THEN BaseSubsidy ELSE g[i - 1] \div 2]

\* Every beginning of Shifted is determined by its equation.
LEMMA ShiftsUnique ==
    ASSUME NEW n \in Nat, NEW m \in Nat, NEW g, NEW h, ShiftsTo(g, n), ShiftsTo(h, m)
    PROVE  \A i \in Nat : i <= n /\ i <= m => g[i] = h[i]
  <1> DEFINE Good == {i \in Nat : i <= n /\ i <= m => g[i] = h[i]}
  <1>1. 0 \in Good
    BY DEF ShiftsTo
  <1>2. ASSUME NEW i \in Nat, i \in Good PROVE i + 1 \in Good
    <2> SUFFICES ASSUME i + 1 <= n, i + 1 <= m PROVE g[i + 1] = h[i + 1]
      OBVIOUS
    <2>1. i + 1 \in 0..n /\ i + 1 \in 0..m /\ i + 1 # 0 /\ (i + 1) - 1 = i
      OBVIOUS
    <2>2. g[i + 1] = g[i] \div 2
      BY <2>1 DEF ShiftsTo
    <2>3. h[i + 1] = h[i] \div 2
      BY <2>1 DEF ShiftsTo
    <2> QED
      BY <1>2, <2>2, <2>3
  <1> HIDE DEF Good
  <1>3. \A i \in Nat : i \in Good
    BY <1>1, <1>2, NatSetInduction
  <1> QED
    BY <1>3 DEF Good

\* Every beginning of Shifted exists.
LEMMA ShiftsExist == \A n \in Nat : \E g : ShiftsTo(g, n)
  <1> DEFINE Good == {n \in Nat : \E g : ShiftsTo(g, n)}
  <1>1. 0 \in Good
    <2>1. ShiftsTo([i \in 0..0 |-> BaseSubsidy], 0)
      BY DEF ShiftsTo
    <2> QED
      BY <2>1
  <1>2. ASSUME NEW n \in Nat, n \in Good PROVE n + 1 \in Good
    <2>1. PICK g : ShiftsTo(g, n)
      BY <1>2
    <2> DEFINE h == [i \in 0..(n + 1) |-> IF i = n + 1 THEN g[n] \div 2 ELSE g[i]]
    <2>2. ASSUME NEW i \in 0..(n + 1)
          PROVE  h[i] = IF i = 0 THEN BaseSubsidy ELSE h[i - 1] \div 2
      BY <2>1 DEF ShiftsTo
    <2>3. ShiftsTo(h, n + 1)
      <3>1. h = [i \in 0..(n + 1) |-> h[i]]
        OBVIOUS
      <3> HIDE DEF h
      <3> QED
        BY <2>2, <3>1 DEF ShiftsTo
    <2> QED
      BY <2>3
  <1> HIDE DEF Good
  <1>3. \A n \in Nat : n \in Good
    BY <1>1, <1>2, NatSetInduction
  <1> QED
    BY <1>3 DEF Good

\* So Shifted is what its equation says.
LEMMA ShiftedDef ==
    \A n \in Nat : Shifted[n] = IF n = 0 THEN BaseSubsidy ELSE Shifted[n - 1] \div 2
  <1> DEFINE Begin(n) == CHOOSE g : ShiftsTo(g, n)
             h == [n \in Nat |-> Begin(n)[n]]
  <1>1. ASSUME NEW n \in Nat
        PROVE  h[n] = IF n = 0 THEN BaseSubsidy ELSE h[n - 1] \div 2
    <2>1. ShiftsTo(Begin(n), n)
      BY ShiftsExist
    <2> HIDE DEF Begin
    <2>2. CASE n = 0
      BY <2>1, <2>2 DEF ShiftsTo
    <2>3. CASE n # 0
      <3>1. n - 1 \in Nat
        BY <2>3
      <3>2. ShiftsTo(Begin(n - 1), n - 1)
        BY <3>1, ShiftsExist DEF Begin
      <3>3. Begin(n)[n - 1] = Begin(n - 1)[n - 1]
        BY <2>1, <3>1, <3>2, ShiftsUnique
      <3>4. Begin(n)[n] = Begin(n)[n - 1] \div 2
        BY <2>1, <2>3 DEF ShiftsTo
      <3> QED
        BY <2>3, <3>1, <3>3, <3>4
    <2> QED
      BY <2>2, <2>3
  <1> DEFINE Equation(g) == g = [n \in Nat |-> IF n = 0 THEN BaseSubsidy ELSE g[n - 1] \div 2]
  <1>2. Equation(h)
    <2>1. h = [n \in Nat |-> h[n]]
      OBVIOUS
    <2> HIDE DEF h
    <2> QED
      BY <1>1, <2>1
  <1>3. Shifted = CHOOSE g : Equation(g)
    BY DEF Shifted
  <1>4. Equation(Shifted)
    <2> HIDE DEF h, Equation
    <2> QED
      BY <1>2, <1>3
  <1> QED
    BY <1>4

\* A shifted subsidy is an amount, and a longer shift gives no more.
LEMMA ShiftedFalls ==
    \A n \in Nat : Shifted[n] \in Nat /\ Shifted[n + 1] <= Shifted[n]
  <1>1. \A x \in Nat : x \div 2 \in Nat /\ x \div 2 <= x
    OBVIOUS
  <1> DEFINE Good == {n \in Nat : Shifted[n] \in Nat}
  <1>2. 0 \in Good
    BY ShiftedDef, PoolAssumption
  <1>3. ASSUME NEW n \in Nat, n \in Good PROVE n + 1 \in Good
    <2>1. Shifted[n + 1] = Shifted[n] \div 2
      BY ShiftedDef
    <2> QED
      BY <1>1, <1>3, <2>1
  <1> HIDE DEF Good
  <1>4. \A n \in Nat : n \in Good
    BY <1>2, <1>3, NatSetInduction
  <1>5. ASSUME NEW n \in Nat PROVE Shifted[n + 1] <= Shifted[n]
    <2>1. Shifted[n + 1] = Shifted[n] \div 2
      BY ShiftedDef
    <2> QED
      BY <1>1, <1>4, <2>1 DEF Good
  <1> QED
    BY <1>4, <1>5 DEF Good

\* The same over any distance.
LEMMA ShiftedAntitone ==
    ASSUME NEW m \in Nat, NEW n \in Nat, m <= n
    PROVE  Shifted[n] <= Shifted[m]
  <1> DEFINE Good == {k \in Nat : Shifted[m + k] <= Shifted[m]}
  <1>1. 0 \in Good
    BY ShiftedFalls
  <1>2. ASSUME NEW k \in Nat, k \in Good PROVE k + 1 \in Good
    <2>1. Shifted[(m + k) + 1] <= Shifted[m + k] /\ (m + k) + 1 = m + (k + 1)
      BY ShiftedFalls
    <2>2. Shifted[m] \in Nat /\ Shifted[m + k] \in Nat /\ Shifted[m + (k + 1)] \in Nat
      BY ShiftedFalls
    <2> QED
      BY <1>2, <2>1, <2>2
  <1> HIDE DEF Good
  <1>3. n - m \in Good
    BY <1>1, <1>2, NatSetInduction
  <1>4. m + (n - m) = n
    OBVIOUS
  <1> QED
    BY <1>3, <1>4 DEF Good

\* The subsidy of a height is an amount, and no higher block has a larger one.
LEMMA SubsidyFalls ==
    ASSUME NEW h \in Nat, NEW k \in Nat, h <= k, NEW interval \in Nat \ {0}
    PROVE  /\ Subsidy(h, interval) \in Nat
           /\ Subsidy(k, interval) <= Subsidy(h, interval)
  <1> DEFINE m == h \div interval
             n == k \div interval
  <1>1. m \in Nat /\ n \in Nat
    OBVIOUS
  <1>2. m <= n
    <2>1. /\ h = interval * m + (h % interval) /\ h % interval \in 0..(interval - 1)
          /\ k = interval * n + (k % interval) /\ k % interval \in 0..(interval - 1)
      OBVIOUS
    <2> HIDE DEF m, n
    <2>2. SUFFICES ASSUME n + 1 <= m PROVE FALSE
      BY <1>1
    <2>3. interval * (n + 1) <= interval * m
      BY <1>1, <2>2
    <2>4. interval * (n + 1) = interval * n + interval
      BY <1>1
    <2> QED
      BY <1>1, <2>1, <2>3, <2>4
  <1>3. /\ Subsidy(h, interval) = IF m >= 64 THEN 0 ELSE Shifted[m]
        /\ Subsidy(k, interval) = IF n >= 64 THEN 0 ELSE Shifted[n]
    BY DEF Subsidy
  <1> HIDE DEF m, n
  <1>4. Shifted[m] \in Nat /\ Shifted[n] \in Nat /\ Shifted[n] <= Shifted[m]
    BY <1>1, <1>2, ShiftedFalls, ShiftedAntitone
  <1> QED
    BY <1>1, <1>2, <1>3, <1>4

\* What a block of the pool earns is an amount, and no more than the coinbase
\* of that block when the two halving intervals agree: the tip after it is at
\* least as high, and the credit is computed for the height above that.
LEMMA RewardBound ==
    ASSUME NEW b \in Block, tip' \in Block, Height[b] <= Height[tip']
    PROVE  /\ Reward \in Nat
           /\ CoinValue(b) \in Nat
           /\ NetHalving = Halving => Reward <= CoinValue(b)
  <1> DEFINE s == Subsidy(NextHeight(tip'), Halving)
  <1>1. /\ Height[b] \in Nat /\ NextHeight(tip') \in Nat
        /\ Height[b] <= NextHeight(tip')
    BY TreeAssumption DEF NextHeight
  <1>2. Halving \in Nat \ {0} /\ NetHalving \in Nat \ {0}
    BY PoolAssumption
  <1>3. s \in Nat /\ s <= Subsidy(Height[b], Halving)
    BY <1>1, <1>2, SubsidyFalls
  <1>4. CoinValue(b) \in Nat
    BY <1>1, <1>2, SubsidyFalls DEF CoinValue
  <1>5. Subsidy(Height[b], Halving) \in Nat
    BY <1>1, <1>2, SubsidyFalls
  <1> HIDE DEF s
  <1>6. Reward \in Nat /\ Reward <= s
    <2>1. Reward = (s * (100 - FeePct)) \div 100
      BY DEF Reward, s
    <2>2. (100 - FeePct) \in Nat /\ 100 - FeePct <= 100
      BY PoolAssumption
    <2>3. \A x, y \in Nat : y <= 100 => (x * y) \div 100 \in Nat /\ (x * y) \div 100 <= x
      BY SMT
    <2> QED
      BY <1>3, <2>1, <2>2, <2>3
  <1>7. NetHalving = Halving => CoinValue(b) = Subsidy(Height[b], Halving)
    BY DEF CoinValue
  <1> QED
    BY <1>3, <1>4, <1>5, <1>6, <1>7

(***************************************************************************)
(* The type of every variable is kept by every step.                       *)
(***************************************************************************)

\* The types of the fields.
LEMMA Fields ==
    /\ \A s \in SessionType : /\ s.balance \in Nat /\ s.earned \in Nat /\ s.found \in Nat
                              /\ s.events \in Events
    /\ \A w \in WorkerType : w.found \in Nat /\ w.earned \in Nat /\ w.addr \in Addr
    /\ \A t \in StreamType : t.sent \in Nat /\ t.batch \in Events /\ t.out \in Events
  BY DEF SessionType, WorkerType, StreamType

\* What the steps make of a session is a session.
LEMMA SessionUpdates ==
    ASSUME NEW s \in SessionType, NEW e \in Events, NEW m \in Nat, NEW n \in Nat, NEW k \in Nat
    PROVE  /\ [s EXCEPT !.found = m, !.balance = n, !.earned = k, !.events = e] \in SessionType
           /\ \A label \in Worker : [s EXCEPT !.open = TRUE, !.label = label, !.min = m,
                                              !.events = e] \in SessionType
           /\ [s EXCEPT !.balance = m, !.events = e] \in SessionType
           /\ [s EXCEPT !.balance = 0] \in SessionType
  BY DEF SessionType

\* The histories that the steps make of a history.
LEMMA EventUpdates ==
    ASSUME NEW e \in Events, NEW d \in Events
    PROVE  /\ e \o d \in Events
           /\ Append(e, "registered") \in Events /\ Append(e, "payout") \in Events
           /\ <<"block_found", "auto_payout_triggered">> \in Events /\ <<"block_found">> \in Events
           /\ \A n \in Nat : SubSeq(e, n + 1, Len(e)) \in Events
  <1>1. {"registered", "payout", "block_found", "auto_payout_triggered"} \subseteq Event
    BY DEF Event
  <1>2. \A n \in Nat : SubSeq(e, n + 1, Len(e)) \in Seq(Event)
    BY DEF Events
  <1> QED
    BY <1>1, <1>2, ConcatProperties, AppendProperties DEF Events

\* A credited session is a session.
LEMMA CreditedType ==
    ASSUME NEW s \in SessionType, Reward \in Nat
    PROVE  Credited(s) \in SessionType
  <1> DEFINE news == IF s.balance + Reward >= s.min
                     THEN <<"block_found", "auto_payout_triggered">> ELSE <<"block_found">>
  <1>1. s.found + 1 \in Nat /\ s.balance + Reward \in Nat /\ s.earned + Reward \in Nat
    BY Fields
  <1>2. news \in Events
    BY Fields, EventUpdates
  <1> HIDE DEF news
  <1>3. s.events \o news \in Events
    BY <1>2, Fields, EventUpdates
  <1>4. Credited(s) = [s EXCEPT !.found = s.found + 1, !.balance = s.balance + Reward,
                                !.earned = s.earned + Reward, !.events = s.events \o news]
    BY DEF Credited, news
  <1>5. \A m, n, k \in Nat, e \in Events :
            [s EXCEPT !.found = m, !.balance = n, !.earned = k, !.events = e] \in SessionType
    BY SessionUpdates
  <1>6. [s EXCEPT !.found = s.found + 1, !.balance = s.balance + Reward,
                  !.earned = s.earned + Reward, !.events = s.events \o news] \in SessionType
    BY <1>1, <1>3, <1>5
  <1> QED
    BY <1>4, <1>6

\* What a step makes of the sessions: one of them changes.
LEMMA RegisterEffect ==
    ASSUME VarsInv, NEW a \in Account, NEW label, NEW min, Register(a, label, min)
    PROVE  sessions' = [sessions EXCEPT ![a] =
               [sessions[a] EXCEPT !.open = TRUE, !.label = label, !.min = min,
                                   !.events = Append(sessions[a].events, "registered")]]
  <1>1. DOMAIN sessions = Account
    BY DEF VarsInv
  <1> QED
    BY <1>1 DEF Register

\* A withdrawal takes its amount from the balance and counts it as signed.
LEMMA WithdrawEffect ==
    ASSUME VarsInv, NEW a \in Account, NEW asked \in Amounts, NEW coin, Withdraw(a, asked, coin)
    PROVE  \E amount \in Nat :
               /\ amount <= sessions[a].balance
               /\ sessions' = [sessions EXCEPT ![a] =
                      [sessions[a] EXCEPT !.balance = sessions[a].balance - amount,
                                          !.events = Append(sessions[a].events, "payout")]]
               /\ signed' = [signed EXCEPT ![a] = signed[a] + amount]
               /\ workers' = workers /\ stream' = stream /\ UNCHANGED chain
  <1> DEFINE amount == IF asked = 0 THEN sessions[a].balance ELSE asked
             left == sessions[a].balance - amount
  <1>1. sessions[a] \in SessionType /\ sessions[a].balance \in Nat
    BY Fields DEF VarsInv
  <1>2. amount \in Nat
    BY <1>1, PoolAssumption
  <1>3. amount <= sessions[a].balance
    BY DEF Withdraw, MayWithdraw
  <1>4. /\ sessions' = [sessions EXCEPT ![a].balance = IF left < 0 THEN 0 ELSE left,
                                        ![a].events = Append(@, "payout")]
        /\ signed' = [signed EXCEPT ![a] = @ + amount]
        /\ workers' = workers /\ stream' = stream /\ UNCHANGED chain
    BY DEF Withdraw
  <1> HIDE DEF amount
  <1>5. (IF left < 0 THEN 0 ELSE left) = sessions[a].balance - amount
    BY <1>1, <1>2, <1>3
  <1> HIDE DEF left
  <1>6. DOMAIN sessions = Account
    BY DEF VarsInv
  <1>7. sessions' = [sessions EXCEPT ![a] =
                      [sessions[a] EXCEPT !.balance = sessions[a].balance - amount,
                                          !.events = Append(sessions[a].events, "payout")]]
    BY <1>4, <1>5, <1>6
  <1> QED
    BY <1>2, <1>3, <1>4, <1>7

\* The types are kept by every step.
LEMMA VarsInvStep == ChainInv /\ VarsInv /\ [Next]_poolVars => VarsInv'
  <1> SUFFICES ASSUME ChainInv, VarsInv, [Next]_poolVars PROVE VarsInv'
    OBVIOUS
  <1> USE DEF VarsInv
  <1>0. /\ \A a \in Account : sessions[a] \in SessionType /\ stream[a] \in StreamType
        /\ \A n \in Worker : workers[n] \in WorkerType
    OBVIOUS
  <1>1. ASSUME NEW b \in Block, RelayBlock(b) PROVE VarsInv'
    BY <1>1 DEF RelayBlock
  <1>2. ASSUME NEW b \in Block, NEW a \in Account, SubmitForSession(b, a) PROVE VarsInv'
    <2>1. Reward \in Nat
      BY <1>2, AcceptedBlock, RewardBound DEF SubmitForSession
    <2>2. Credited(sessions[a]) \in SessionType
      BY <2>1, CreditedType
    <2> QED
      BY <1>2, <2>2 DEF SubmitForSession
  <1>3. ASSUME NEW b \in Block, NEW n \in Worker, NEW addr \in Addr, SubmitForWorker(b, n, addr)
        PROVE  VarsInv'
    <2>1. Reward \in Nat
      BY <1>3, AcceptedBlock, RewardBound DEF SubmitForWorker
    <2>2. workers[n].found + 1 \in Nat /\ workers[n].earned + Reward \in Nat
      BY <2>1, <1>0, Fields
    <2>3. NewAddr(workers[n].addr, addr) \in Addr
      BY <1>0, Fields DEF NewAddr
    <2>4. [seen |-> TRUE, found |-> workers[n].found + 1, earned |-> workers[n].earned + Reward,
           addr |-> NewAddr(workers[n].addr, addr)] \in WorkerType
      BY <2>2, <2>3 DEF WorkerType
    <2> QED
      BY <1>3, <2>4 DEF SubmitForWorker
  <1>4. ASSUME NEW n \in Worker, NEW addr \in Addr, GetBlockTemplate(n, addr) PROVE VarsInv'
    <2>1. NewAddr(workers[n].addr, addr) \in Addr
      BY <1>0, Fields DEF NewAddr
    <2>2. [workers[n] EXCEPT !.seen = TRUE, !.addr = NewAddr(workers[n].addr, addr)] \in WorkerType
      BY <2>1, <1>0 DEF WorkerType
    <2>3. workers' = [workers EXCEPT ![n] =
              [workers[n] EXCEPT !.seen = TRUE, !.addr = NewAddr(workers[n].addr, addr)]]
      BY <1>4 DEF GetBlockTemplate
    <2> QED
      BY <1>4, <2>2, <2>3 DEF GetBlockTemplate
  <1>5. ASSUME NEW a \in Account, NEW label \in Worker, NEW min \in MinPayouts,
               Register(a, label, min)
        PROVE  VarsInv'
    <2>1. [sessions[a] EXCEPT !.open = TRUE, !.label = label, !.min = min,
              !.events = Append(sessions[a].events, "registered")] \in SessionType
      BY <1>0, Fields, EventUpdates, SessionUpdates, PoolAssumption
    <2> QED
      BY <1>5, <2>1, RegisterEffect DEF Register
  <1>6. ASSUME NEW a \in Account, NEW asked \in Amounts, NEW coin \in Path[tip],
               Withdraw(a, asked, coin)
        PROVE  VarsInv'
    <2>1. PICK amount \in Nat :
               /\ amount <= sessions[a].balance
               /\ sessions' = [sessions EXCEPT ![a] =
                      [sessions[a] EXCEPT !.balance = sessions[a].balance - amount,
                                          !.events = Append(sessions[a].events, "payout")]]
               /\ signed' = [signed EXCEPT ![a] = signed[a] + amount]
               /\ workers' = workers /\ stream' = stream /\ UNCHANGED chain
      BY <1>6, WithdrawEffect
    <2>2. sessions[a].balance \in Nat /\ sessions[a].events \in Events
      BY <1>0, Fields
    <2>3. sessions[a].balance - amount \in Nat
      BY <2>1, <2>2
    <2>4. [sessions[a] EXCEPT !.balance = sessions[a].balance - amount,
              !.events = Append(sessions[a].events, "payout")] \in SessionType
      BY <1>0, <2>2, <2>3, EventUpdates, SessionUpdates
    <2>5. a \in Payee /\ signed[a] + amount \in Nat
      BY DEF Payee
    <2> QED
      BY <2>1, <2>4, <2>5
  <1>7. ASSUME NEW names, NEW coin \in Path[tip], PayOut(names, coin) PROVE VarsInv'
    <2>1. \A p \in Payee : Owed[p] \in Nat
      BY <1>0, Fields DEF Owed, Payee
    <2>2. signed' \in [Payee -> Nat]
      BY <1>7, <2>1 DEF PayOut
    <2>3. \A a \in Account : [sessions[a] EXCEPT !.balance = 0] \in SessionType
      BY <1>0 DEF SessionType
    <2>4. \A n \in Worker : [workers[n] EXCEPT !.earned = 0] \in WorkerType
      BY <1>0 DEF WorkerType
    <2> QED
      BY <1>7, <2>2, <2>3, <2>4 DEF PayOut
  <1>8. ASSUME NEW a \in Account, OpenStream(a) \/ BreakStream(a) PROVE VarsInv'
    <2>1. <<>> \in Events
      BY DEF Events
    <2>2. Closed \in StreamType /\ [Closed EXCEPT !.on = TRUE] \in StreamType
      BY <2>1 DEF Closed, StreamType
    <2> QED
      BY <1>8, <2>2 DEF OpenStream, BreakStream
  <1>9. ASSUME NEW a \in Account, ReadEvents(a) PROVE VarsInv'
    <2> DEFINE fresh == SubSeq(sessions[a].events, stream[a].sent + 1, Len(sessions[a].events))
    <2>1. fresh \in Events
      BY <1>0, Fields, EventUpdates
    <2>2. stream' = [stream EXCEPT ![a] = [stream[a] EXCEPT !.batch = fresh]]
      BY <1>9 DEF ReadEvents
    <2> HIDE DEF fresh
    <2>3. [stream[a] EXCEPT !.batch = fresh] \in StreamType
      BY <1>0, <2>1 DEF StreamType
    <2> QED
      BY <1>9, <2>2, <2>3 DEF ReadEvents
  <1>10. ASSUME NEW a \in Account, SendEvents(a) PROVE VarsInv'
    <2> DEFINE all == stream[a].out \o stream[a].batch
               sent == stream[a].sent + Len(stream[a].batch)
    <2>1. all \in Events
      BY <1>0, Fields, EventUpdates
    <2>2. sent \in Nat
      BY <1>0, Fields, LenProperties DEF Events
    <2>3. stream' = [stream EXCEPT ![a] =
              [stream[a] EXCEPT !.sent = sent, !.out = all, !.batch = <<>>]]
      BY <1>10 DEF SendEvents
    <2>4. <<>> \in Events
      BY DEF Events
    <2> HIDE DEF all, sent
    <2>5. [stream[a] EXCEPT !.sent = sent, !.out = all, !.batch = <<>>] \in StreamType
      BY <1>0, <2>1, <2>2, <2>4 DEF StreamType
    <2> QED
      BY <1>10, <2>3, <2>5 DEF SendEvents
  <1>11. CASE UNCHANGED poolVars
    BY <1>11 DEF poolVars
  <1> QED
    BY <1>1, <1>2, <1>3, <1>4, <1>5, <1>6, <1>7, <1>8, <1>9, <1>10, <1>11 DEF Next, StreamStep

(***************************************************************************)
(* Event streams.                                                          *)
(***************************************************************************)

\* The later history f begins with the earlier one.
Grows(e, f) == Len(e) <= Len(f) /\ \A i \in 1..Len(e) : f[i] = e[i]

\* No step takes an event back, and none but the stream's own moves a stream.
LEMMA HistoryGrows ==
    ASSUME ChainInv, VarsInv, [Next]_poolVars
    PROVE  /\ \A a \in Account : Grows(sessions[a].events, sessions'[a].events)
           /\ \/ stream' = stream
              \/ sessions' = sessions /\ \E a \in Account :
                     OpenStream(a) \/ ReadEvents(a) \/ SendEvents(a) \/ BreakStream(a)
  <1> DEFINE AllGrow == \A a \in Account : Grows(sessions[a].events, sessions'[a].events)
  <1>0. \A a \in Account : sessions[a] \in SessionType /\ sessions[a].events \in Events
    BY Fields DEF VarsInv
  <1>1. \A e \in Events : Len(e) \in Nat
    BY LenProperties DEF Events
  <1>2. ASSUME NEW e \in Events
        PROVE  /\ Grows(e, e)
               /\ \A d \in Events : Grows(e, e \o d)
               /\ \A v \in Event : Grows(e, Append(e, v))
    <2>1. \A d \in Events : Grows(e, e \o d)
      BY <1>1, ConcatProperties DEF Events, Grows
    <2>2. \A v \in Event : Grows(e, Append(e, v))
      BY <1>1, AppendProperties DEF Events, Grows
    <2> QED
      BY <1>1, <2>1, <2>2 DEF Grows
  <1>3. ASSUME \A a \in Account : sessions'[a].events = sessions[a].events PROVE AllGrow
    BY <1>0, <1>2, <1>3
  <1>4. ASSUME NEW b \in Block, NEW a \in Account, SubmitForSession(b, a) PROVE AllGrow
    <2> DEFINE news == IF sessions[a].balance + Reward >= sessions[a].min
                       THEN <<"block_found", "auto_payout_triggered">> ELSE <<"block_found">>
    <2>1. news \in Events
      BY <1>0, EventUpdates
    <2>2. Credited(sessions[a]).events = sessions[a].events \o news
      BY <1>0 DEF Credited, SessionType
    <2> HIDE DEF news
    <2>3. sessions' = [sessions EXCEPT ![a] = Credited(sessions[a])]
      BY <1>4 DEF SubmitForSession
    <2> QED
      BY <1>0, <1>2, <2>1, <2>2, <2>3 DEF VarsInv
  <1>5. ASSUME NEW a \in Account, NEW label \in Worker, NEW min \in MinPayouts,
               Register(a, label, min)
        PROVE  AllGrow
    <2>1. [sessions[a] EXCEPT !.open = TRUE, !.label = label, !.min = min,
              !.events = Append(sessions[a].events, "registered")].events
          = Append(sessions[a].events, "registered")
      BY <1>0 DEF SessionType
    <2>2. "registered" \in Event
      BY DEF Event
    <2>3. sessions' = [sessions EXCEPT ![a] =
               [sessions[a] EXCEPT !.open = TRUE, !.label = label, !.min = min,
                                   !.events = Append(sessions[a].events, "registered")]]
      BY <1>5, RegisterEffect
    <2> QED
      BY <1>0, <1>2, <2>1, <2>2, <2>3 DEF VarsInv
  <1>6. ASSUME NEW a \in Account, NEW asked \in Amounts, NEW coin, Withdraw(a, asked, coin)
        PROVE  AllGrow
    <2>1. PICK amount \in Nat : sessions' = [sessions EXCEPT ![a] =
                      [sessions[a] EXCEPT !.balance = sessions[a].balance - amount,
                                          !.events = Append(sessions[a].events, "payout")]]
      BY <1>6, WithdrawEffect
    <2>2. [sessions[a] EXCEPT !.balance = sessions[a].balance - amount,
              !.events = Append(sessions[a].events, "payout")].events
          = Append(sessions[a].events, "payout")
      BY <1>0 DEF SessionType
    <2>3. "payout" \in Event
      BY DEF Event
    <2> QED
      BY <1>0, <1>2, <2>1, <2>2, <2>3 DEF VarsInv
  <1>7. ASSUME NEW names, NEW coin, PayOut(names, coin) PROVE AllGrow
    <2>1. \A a \in Account : [sessions[a] EXCEPT !.balance = 0].events = sessions[a].events
      BY <1>0 DEF SessionType
    <2> QED
      BY <1>3, <1>7, <2>1 DEF PayOut
  <1>8. CASE UNCHANGED poolVars
    BY <1>3, <1>8 DEF poolVars
  <1>9. ASSUME NEW b \in Block, NEW n \in Worker, NEW addr \in Addr,
               RelayBlock(b) \/ SubmitForWorker(b, n, addr) \/ GetBlockTemplate(n, addr)
        PROVE  AllGrow /\ stream' = stream
    BY <1>3, <1>9 DEF RelayBlock, SubmitForWorker, GetBlockTemplate
  <1> QED
    BY <1>3, <1>4, <1>5, <1>6, <1>7, <1>8
       DEF Next, StreamStep, poolVars, RelayBlock, SubmitForWorker, GetBlockTemplate,
           SubmitForSession, Register, Withdraw, PayOut, OpenStream, ReadEvents, SendEvents,
           BreakStream

\* The parts of a stream stay the parts of its session's events.
LEMMA StreamPartsStep ==
    ASSUME ChainInv, VarsInv, StreamParts, [Next]_poolVars
    PROVE  StreamParts'
  <1>0. \A a \in Account : /\ sessions[a].events \in Events /\ sessions'[a].events \in Events
                           /\ stream[a] \in StreamType /\ stream[a].sent \in Nat
                           /\ stream[a].batch \in Events /\ stream[a].out \in Events
    BY Fields, VarsInvStep DEF VarsInv
  <1>1. \A e \in Events : Len(e) \in Nat
    BY LenProperties DEF Events
  <1>2. CASE stream' = stream
    <2>1. ASSUME NEW s \in StreamType, NEW e \in Events, NEW f \in Events,
                 PartsOf(s, e), Grows(e, f)
          PROVE  PartsOf(s, f)
      <3>1. s.sent \in Nat /\ Len(s.batch) \in Nat /\ Len(e) \in Nat /\ Len(f) \in Nat
        BY <1>1, Fields
      <3>2. \A i \in 1..s.sent : f[i] = e[i]
        BY <2>1, <3>1 DEF PartsOf, Grows
      <3>3. \A i \in 1..Len(s.batch) : f[s.sent + i] = e[s.sent + i]
        <4>1. \A i \in 1..Len(s.batch) : s.sent + i \in 1..Len(e)
          BY <2>1, <3>1 DEF PartsOf
        <4> QED
          BY <2>1, <4>1 DEF Grows
      <3> QED
        BY <2>1, <3>1, <3>2, <3>3 DEF PartsOf, Grows
    <2>2. \A a \in Account : Grows(sessions[a].events, sessions'[a].events)
      BY HistoryGrows
    <2> QED
      BY <1>0, <1>2, <2>1, <2>2 DEF StreamParts
  <1> DEFINE Parts(a) == PartsOf(stream'[a], sessions[a].events)
  <1>3. ASSUME sessions' = sessions, NEW a \in Account, Parts(a),
               \A c \in Account \ {a} : stream'[c] = stream[c]
        PROVE  StreamParts'
    BY <1>3 DEF StreamParts
  <1>4. ASSUME sessions' = sessions, NEW a \in Account, OpenStream(a) \/ BreakStream(a)
        PROVE  StreamParts'
    <2>1. stream'[a].sent = 0 /\ stream'[a].batch = <<>> /\ stream'[a].out = <<>>
      BY <1>4 DEF OpenStream, BreakStream, VarsInv, Closed
    <2>2. Parts(a)
      BY <1>0, <1>1, <2>1 DEF PartsOf
    <2> QED
      BY <1>3, <1>4, <2>2 DEF OpenStream, BreakStream, VarsInv
  <1>5. ASSUME sessions' = sessions, NEW a \in Account, ReadEvents(a) PROVE StreamParts'
    <2> DEFINE e == sessions[a].events
               n == stream[a].sent
               fresh == SubSeq(e, n + 1, Len(e))
    <2>1. stream' = [stream EXCEPT ![a] = [stream[a] EXCEPT !.batch = fresh]]
      BY <1>5 DEF ReadEvents
    <2> HIDE DEF fresh
    <2>2. /\ stream'[a].batch = fresh /\ stream'[a].sent = n
          /\ stream'[a].out = stream[a].out
      BY <1>0, <2>1 DEF VarsInv, StreamType
    <2>3. e \in Seq(Event) /\ n \in Nat /\ n <= Len(e) /\ Len(e) \in Nat
      BY <1>0, <1>1 DEF StreamParts, PartsOf, Events
    <2>4. Len(fresh) = Len(e) - n /\ \A i \in 1..Len(fresh) : fresh[i] = e[n + i]
      <3> HIDE DEF e, n
      <3>1. \A i \in (n + 1)..Len(e) : e[i] \in Event
        BY <2>3
      <3>2. /\ Len(fresh) = IF n + 1 <= Len(e) THEN Len(e) - (n + 1) + 1 ELSE 0
            /\ \A i \in 1..(Len(e) - (n + 1) + 1) : fresh[i] = e[(n + 1) + i - 1]
        BY <2>3, <3>1, SubSeqProperties DEF fresh
      <3>3. \A i \in 1..(Len(e) - n) : (n + 1) + i - 1 = n + i
        BY <2>3
      <3> QED
        BY <2>3, <3>2, <3>3
    <2>5. /\ Len(stream[a].out) = n
          /\ \A i \in 1..n : stream[a].out[i] = e[i]
      BY DEF StreamParts, PartsOf
    <2>6. Parts(a)
      BY <2>2, <2>3, <2>4, <2>5 DEF PartsOf
    <2> QED
      BY <1>3, <1>5, <2>1, <2>6 DEF VarsInv
  <1>6. ASSUME sessions' = sessions, NEW a \in Account, SendEvents(a) PROVE StreamParts'
    <2> DEFINE e == sessions[a].events
               n == stream[a].sent
               out == stream[a].out
               batch == stream[a].batch
               all == out \o batch
               m == n + Len(batch)
    <2>1. stream' =
            [stream EXCEPT ![a] = [stream[a] EXCEPT !.sent = m, !.out = all, !.batch = <<>>]]
      BY <1>6 DEF SendEvents
    <2> HIDE DEF all, m
    <2>2. stream'[a].batch = <<>> /\ stream'[a].sent = m /\ stream'[a].out = all
      BY <1>0, <2>1 DEF VarsInv, StreamType
    <2>3. /\ Len(out) = n /\ m <= Len(e)
          /\ \A i \in 1..n : out[i] = e[i]
          /\ \A i \in 1..Len(batch) : batch[i] = e[n + i]
      BY DEF StreamParts, PartsOf, m
    <2>4. n \in Nat /\ Len(batch) \in Nat /\ Len(e) \in Nat
      BY <1>0, <1>1
    <2>5. /\ Len(all) = Len(out) + Len(batch)
          /\ \A i \in 1..(Len(out) + Len(batch)) :
                 all[i] = IF i <= Len(out) THEN out[i] ELSE batch[i - Len(out)]
      BY <1>0, ConcatProperties DEF Events, all
    <2>6. \A i \in 1..m : all[i] = e[i]
      <3> SUFFICES ASSUME NEW i \in 1..m PROVE all[i] = e[i]
        OBVIOUS
      <3> HIDE DEF n, out, batch, e
      <3>1. CASE i <= n
        <4>1. i \in 1..n /\ i \in 1..(Len(out) + Len(batch))
          BY <2>3, <2>4, <3>1 DEF m
        <4> QED
          BY <2>3, <2>5, <4>1
      <3>2. CASE ~(i <= n)
        <4>1. i - n \in 1..Len(batch) /\ n + (i - n) = i
          BY <2>4, <3>2 DEF m
        <4> QED
          BY <2>3, <2>4, <2>5, <3>2, <4>1 DEF m
      <3> QED
        BY <3>1, <3>2
    <2>7. Parts(a)
      BY <2>2, <2>3, <2>4, <2>5, <2>6 DEF PartsOf, m
    <2> QED
      BY <1>3, <1>6, <2>1, <2>7 DEF VarsInv
  <1> QED
    BY <1>2, <1>4, <1>5, <1>6, HistoryGrows

(***************************************************************************)
(* Books.                                                                  *)
(***************************************************************************)

\* What is owed to a payee and what was signed for it.
Due == [p \in Payee |-> Owed[p] + signed[p]]

\* A sum over the payees and the coinbases of the blocks in the store.
Credits == SumFunctionOnSet(Found, Payee)
Dues == SumFunctionOnSet(Due, Payee)
Coins == SumFunctionOnSet([b \in known |-> CoinValue(b)], known)

\* No payee's credits or dues change.
SameBooks == \A p \in Payee : Found'[p] = Found[p] /\ Due'[p] = Due[p]

\* One payee is credited with a block and its reward.
CreditOne ==
    \E q \in Payee :
        /\ Found'[q] = Found[q] + 1 /\ Due'[q] = Due[q] + Reward
        /\ \A p \in Payee \ {q} : Found'[p] = Found[p] /\ Due'[p] = Due[p]

\* Credits and dues are amounts.
LEMMA BooksType ==
    VarsInv => \A p \in Payee : /\ Found[p] \in Nat /\ Owed[p] \in Nat
                                /\ signed[p] \in Nat /\ Due[p] \in Nat
  <1> SUFFICES ASSUME VarsInv
               PROVE  \A p \in Payee : /\ Found[p] \in Nat /\ Owed[p] \in Nat
                                       /\ signed[p] \in Nat /\ Due[p] \in Nat
    OBVIOUS
  <1>1. /\ \A a \in Account : sessions[a] \in SessionType
        /\ \A n \in Worker : workers[n] \in WorkerType
        /\ \A p \in Payee : signed[p] \in Nat
    BY DEF VarsInv
  <1> QED
    BY <1>1, Fields DEF Found, Owed, Due, Payee

\* The same after a step.
LEMMA BooksTypeNext == VarsInv' => \A p \in Payee : Found'[p] \in Nat /\ Due'[p] \in Nat
  <1>1. (VarsInv => \A p \in Payee : /\ Found[p] \in Nat /\ Owed[p] \in Nat
                                     /\ signed[p] \in Nat /\ Due[p] \in Nat)'
    BY BooksType, PTL
  <1> QED
    BY <1>1

\* Only a block of a worker or a session moves the books, and it is accepted.
LEMMA BooksStep ==
    ASSUME ChainInv, VarsInv, [Next]_poolVars
    PROVE  \/ UNCHANGED chain /\ SameBooks
           \/ \E b \in Block : AcceptBlock(b) /\ (SameBooks \/ CreditOne)
  <1>0. /\ \A a \in Account : sessions[a] \in SessionType
        /\ \A n \in Worker : workers[n] \in WorkerType
        /\ \A p \in Payee : signed[p] \in Nat
    BY DEF VarsInv
  <1>a. \A n \in Worker : n \notin Account
    BY PoolAssumption
  <1>1. ASSUME UNCHANGED <<sessions, workers, signed>> PROVE SameBooks
    BY <1>1 DEF SameBooks, Found, Due, Owed
  <1>2. ASSUME NEW b \in Block, NEW a \in Account, SubmitForSession(b, a)
        PROVE  AcceptBlock(b) /\ CreditOne
    <2>1. /\ sessions'[a].found = sessions[a].found + 1
          /\ sessions'[a].balance = sessions[a].balance + Reward
      BY <1>0, <1>2 DEF SubmitForSession, Credited, SessionType, VarsInv
    <2>2. \A c \in Account \ {a} : sessions'[c] = sessions[c]
      BY <1>2 DEF SubmitForSession, VarsInv
    <2>3. Reward \in Nat
      BY <1>2, AcceptedBlock, RewardBound DEF SubmitForSession
    <2>4. sessions[a].balance \in Nat /\ signed[a] \in Nat /\ a \in Payee
      BY <1>0, Fields DEF Payee
    <2>5. workers' = workers /\ signed' = signed /\ AcceptBlock(b)
      BY <1>2 DEF SubmitForSession
    <2>6. Found'[a] = Found[a] + 1 /\ Due'[a] = Due[a] + Reward
      BY <2>1, <2>3, <2>4, <2>5 DEF Found, Due, Owed
    <2>7. \A p \in Payee \ {a} : Found'[p] = Found[p] /\ Due'[p] = Due[p]
      BY <2>2, <2>5 DEF Found, Due, Owed
    <2> QED
      BY <2>4, <2>5, <2>6, <2>7 DEF CreditOne
  <1>3. ASSUME NEW b \in Block, NEW n \in Worker, NEW addr \in Addr, SubmitForWorker(b, n, addr)
        PROVE  AcceptBlock(b) /\ CreditOne
    <2>1. /\ workers'[n].found = workers[n].found + 1
          /\ workers'[n].earned = workers[n].earned + Reward
      BY <1>0, <1>3 DEF SubmitForWorker, WorkerType, VarsInv
    <2>2. \A m \in Worker \ {n} : workers'[m] = workers[m]
      BY <1>3 DEF SubmitForWorker, VarsInv
    <2>3. Reward \in Nat
      BY <1>3, AcceptedBlock, RewardBound DEF SubmitForWorker
    <2>4. workers[n].earned \in Nat /\ signed[n] \in Nat /\ n \in Payee /\ n \notin Account
      BY <1>0, <1>a, Fields DEF Payee
    <2>5. sessions' = sessions /\ signed' = signed /\ AcceptBlock(b)
      BY <1>3 DEF SubmitForWorker
    <2>6. Found'[n] = Found[n] + 1 /\ Due'[n] = Due[n] + Reward
      BY <2>1, <2>3, <2>4, <2>5 DEF Found, Due, Owed
    <2>7. \A p \in Payee \ {n} : Found'[p] = Found[p] /\ Due'[p] = Due[p]
      BY <2>2, <2>5 DEF Found, Due, Owed, Payee
    <2> QED
      BY <2>4, <2>5, <2>6, <2>7 DEF CreditOne
  <1>4. ASSUME NEW n \in Worker, NEW addr \in Addr, GetBlockTemplate(n, addr) PROVE SameBooks
    <2>1. workers' = [workers EXCEPT ![n] =
              [workers[n] EXCEPT !.seen = TRUE, !.addr = NewAddr(workers[n].addr, addr)]]
      BY <1>4 DEF GetBlockTemplate, VarsInv
    <2>2. \A m \in Worker : /\ workers'[m].found = workers[m].found
                            /\ workers'[m].earned = workers[m].earned
      BY <1>0, <2>1 DEF WorkerType, VarsInv
    <2>3. sessions' = sessions /\ signed' = signed
      BY <1>4 DEF GetBlockTemplate
    <2> QED
      BY <2>2, <2>3 DEF SameBooks, Found, Due, Owed, Payee
  <1>5. ASSUME NEW a \in Account, NEW label \in Worker, NEW min \in MinPayouts,
               Register(a, label, min)
        PROVE  SameBooks
    <2>1. sessions' = [sessions EXCEPT ![a] =
               [sessions[a] EXCEPT !.open = TRUE, !.label = label, !.min = min,
                                   !.events = Append(sessions[a].events, "registered")]]
      BY <1>5, RegisterEffect
    <2>2. \A c \in Account : /\ sessions'[c].found = sessions[c].found
                             /\ sessions'[c].balance = sessions[c].balance
      BY <1>0, <2>1 DEF SessionType, VarsInv
    <2>3. workers' = workers /\ signed' = signed
      BY <1>5 DEF Register
    <2> QED
      BY <2>2, <2>3 DEF SameBooks, Found, Due, Owed
  <1>6. ASSUME NEW a \in Account, NEW asked \in Amounts, NEW coin, Withdraw(a, asked, coin)
        PROVE  UNCHANGED chain /\ SameBooks
    <2>1. PICK amount \in Nat :
               /\ amount <= sessions[a].balance
               /\ sessions' = [sessions EXCEPT ![a] =
                      [sessions[a] EXCEPT !.balance = sessions[a].balance - amount,
                                          !.events = Append(sessions[a].events, "payout")]]
               /\ signed' = [signed EXCEPT ![a] = signed[a] + amount]
               /\ workers' = workers /\ stream' = stream /\ UNCHANGED chain
      BY <1>6, WithdrawEffect
    <2>2. /\ sessions'[a].found = sessions[a].found
          /\ sessions'[a].balance = sessions[a].balance - amount
          /\ \A c \in Account \ {a} : sessions'[c] = sessions[c]
      BY <1>0, <2>1 DEF SessionType, VarsInv
    <2>3. /\ a \in Payee
          /\ signed'[a] = signed[a] + amount
          /\ \A p \in Payee \ {a} : signed'[p] = signed[p]
      BY <2>1 DEF VarsInv, Payee
    <2>4. sessions[a].balance \in Nat /\ signed[a] \in Nat
      BY <1>0, <2>3, Fields
    <2>5. Found'[a] = Found[a] /\ Due'[a] = Due[a]
      BY <2>2, <2>3, <2>4 DEF Found, Due, Owed
    <2>6. \A p \in Payee \ {a} : Found'[p] = Found[p] /\ Due'[p] = Due[p]
      BY <2>1, <2>2, <2>3 DEF Found, Due, Owed
    <2> QED
      BY <2>1, <2>5, <2>6 DEF SameBooks
  <1>7. ASSUME NEW names, NEW coin, PayOut(names, coin) PROVE UNCHANGED chain /\ SameBooks
    <2> DEFINE paid == Payees(names, coin)
    <2>1. /\ \A a \in Account : sessions'[a] =
                 IF a \in paid THEN [sessions[a] EXCEPT !.balance = 0] ELSE sessions[a]
          /\ \A n \in Worker : workers'[n] =
                 IF n \in paid THEN [workers[n] EXCEPT !.earned = 0] ELSE workers[n]
          /\ \A p \in Payee : signed'[p] = signed[p] + IF p \in paid THEN Owed[p] ELSE 0
          /\ UNCHANGED chain
      BY <1>7 DEF PayOut
    <2> HIDE DEF paid
    <2>2. \A a \in Account : /\ sessions'[a].found = sessions[a].found
                             /\ sessions'[a].balance = IF a \in paid THEN 0 ELSE sessions[a].balance
      BY <1>0, <2>1 DEF SessionType
    <2>3. \A n \in Worker : /\ workers'[n].found = workers[n].found
                            /\ workers'[n].earned = IF n \in paid THEN 0 ELSE workers[n].earned
      BY <1>0, <2>1 DEF WorkerType
    <2>4. \A p \in Payee : Owed'[p] = IF p \in paid THEN 0 ELSE Owed[p]
      BY <2>2, <2>3 DEF Owed, Payee
    <2>5. \A p \in Payee : Due'[p] = Due[p]
      BY <2>1, <2>4, BooksType DEF Due
    <2>6. \A p \in Payee : Found'[p] = Found[p]
      BY <2>2, <2>3 DEF Found, Payee
    <2> QED
      BY <2>1, <2>5, <2>6 DEF SameBooks
  <1> QED
    BY <1>1, <1>2, <1>3, <1>4, <1>5, <1>6, <1>7
       DEF Next, StreamStep, poolVars, RelayBlock, GetBlockTemplate, Register,
           OpenStream, ReadEvents, SendEvents, BreakStream

\* Crediting one payee raises the sums by one block and one reward.
LEMMA SumsStep ==
    ASSUME VarsInv, VarsInv', Reward \in Nat, SameBooks \/ CreditOne
    PROVE  \/ SameBooks /\ Credits' = Credits /\ Dues' = Dues
           \/ CreditOne /\ Credits' = Credits + 1 /\ Dues' = Dues + Reward
  <1>1. IsFiniteSet(Payee)
    BY PoolAssumption DEF Payee
  <1>2. \A p \in Payee : /\ Found[p] \in Int /\ Due[p] \in Int
                         /\ Found'[p] \in Int /\ Due'[p] \in Int
    <2>1. \A p \in Payee : Found[p] \in Nat /\ Due[p] \in Nat
      BY BooksType
    <2>2. \A p \in Payee : Found'[p] \in Nat /\ Due'[p] \in Nat
      BY BooksTypeNext
    <2> QED
      BY <2>1, <2>2
  <1>3. CASE SameBooks
    BY <1>1, <1>3, SumSame DEF SameBooks, Credits, Dues
  <1>4. CASE CreditOne
    <2>1. PICK q \in Payee :
              /\ Found'[q] = Found[q] + 1 /\ Due'[q] = Due[q] + Reward
              /\ \A p \in Payee \ {q} : Found'[p] = Found[p] /\ Due'[p] = Due[p]
      BY <1>4 DEF CreditOne
    <2>2. ASSUME NEW f, NEW g, \A p \in Payee : f[p] \in Int /\ g[p] \in Int,
                 \A p \in Payee \ {q} : g[p] = f[p]
          PROVE  SumFunctionOnSet(g, Payee) = SumFunctionOnSet(f, Payee) + (g[q] - f[q])
      BY <1>1, <2>2, SumChange
    <2>3. Credits' = Credits + (Found'[q] - Found[q])
      BY <1>2, <2>1, <2>2 DEF Credits
    <2>5. Dues' = Dues + (Due'[q] - Due[q])
      BY <1>2, <2>1, <2>2 DEF Dues
    <2>4. Credits \in Int /\ Dues \in Int
      BY <1>1, <1>2, SumInt DEF Credits, Dues
    <2> QED
      BY <1>2, <1>4, <2>1, <2>3, <2>4, <2>5
  <1> QED
    BY <1>3, <1>4

\* A new block adds its coinbase.
LEMMA CoinsStep ==
    ASSUME ChainInv, NEW b \in Block, b \notin known, known' = known \cup {b}
    PROVE  Coins' = Coins + CoinValue(b)
  <1> DEFINE f == [x \in known |-> CoinValue(x)]
             g == [x \in known' |-> CoinValue(x)]
  <1>1. \A x \in Block : CoinValue(x) \in Nat
    BY SubsidyFalls, TreeAssumption, PoolAssumption DEF CoinValue
  <1>2. \A x \in known' : g[x] \in Int
    BY <1>1 DEF ChainInv
  <1>3. g[b] = CoinValue(b)
    OBVIOUS
  <1>4. \A x \in known : f[x] = g[x]
    OBVIOUS
  <1>5. Coins = SumFunctionOnSet(f, known) /\ Coins' = SumFunctionOnSet(g, known')
    BY DEF Coins
  <1> HIDE DEF f, g
  <1>6. SumFunctionOnSet(g, known) = SumFunctionOnSet(f, known)
    BY <1>4, SumSame DEF ChainInv
  <1>7. SumFunctionOnSet(g, known \cup {b}) = SumFunctionOnSet(g, known) + g[b]
    BY <1>2, SumAddElement DEF ChainInv
  <1> QED
    BY <1>3, <1>5, <1>6, <1>7

\* As long as no known block was forgotten, no more blocks are credited than
\* there are, and no more is due than their coinbases hold.
BooksInv ==
    Cardinality(known) <= KnownMax =>
        /\ Credits <= Cardinality(known)
        /\ NetHalving = Halving => Dues <= Coins

\* Credits and dues are kept in step with the blocks known, whatever is credited,
\* withdrawn or paid out.
LEMMA BooksInvStep ==
    ASSUME ChainInv, ChainInv', VarsInv, VarsInv', BooksInv, [Next]_poolVars
    PROVE  BooksInv'
  <1>1. IsFiniteSet(Payee)
    BY PoolAssumption DEF Payee
  <1>2. \A p \in Payee : Found[p] \in Int /\ Due[p] \in Int
    BY BooksType
  <1>3. Credits \in Int /\ Dues \in Int
    BY <1>1, <1>2, SumInt DEF Credits, Dues
  <1>4. \A x \in Block : CoinValue(x) \in Nat
    BY SubsidyFalls, TreeAssumption, PoolAssumption DEF CoinValue
  <1>5. Coins \in Int
    <2>1. \A x \in known : [b \in known |-> CoinValue(b)][x] \in Int
      BY <1>4 DEF ChainInv
    <2> QED
      BY <2>1, SumInt DEF Coins, ChainInv
  <1>6. Cardinality(known) \in Nat
    BY FS_CardinalityType DEF ChainInv
  <1>7. CASE UNCHANGED chain /\ SameBooks
    <2>1. Coins' = Coins /\ Cardinality(known)' = Cardinality(known)
      BY <1>7 DEF chain, Coins
    <2>2. Credits' = Credits /\ Dues' = Dues
      BY <1>1, <1>7, SumSame DEF SameBooks, Credits, Dues
    <2> QED
      BY <2>1, <2>2, <1>7 DEF BooksInv, chain
  <1>8. ASSUME NEW b \in Block, AcceptBlock(b), SameBooks \/ CreditOne PROVE BooksInv'
    <2> SUFFICES ASSUME Cardinality(known') <= KnownMax
                 PROVE  /\ Credits' <= Cardinality(known')
                        /\ NetHalving = Halving => Dues' <= Coins'
      BY DEF BooksInv
    <2>1. /\ b \notin known /\ known' = known \cup {b}
          /\ Cardinality(known') = Cardinality(known) + 1
          /\ Cardinality(known) <= KnownMax
          /\ tip' \in Block /\ Height[b] <= Height[tip']
      BY <1>8, AcceptedBlock
    <2>2. Reward \in Nat /\ (NetHalving = Halving => Reward <= CoinValue(b))
      BY <2>1, RewardBound
    <2>3. Coins' = Coins + CoinValue(b)
      BY <2>1, CoinsStep
    <2>4. /\ Credits' = Credits \/ Credits' = Credits + 1
          /\ Dues' = Dues \/ Dues' = Dues + Reward
      BY <1>8, <2>2, SumsStep
    <2>5. Credits <= Cardinality(known) /\ (NetHalving = Halving => Dues <= Coins)
      BY <2>1 DEF BooksInv
    <2>6. CoinValue(b) \in Nat
      BY <1>4
    <2> QED
      BY <1>3, <1>5, <1>6, <2>1, <2>2, <2>3, <2>4, <2>5, <2>6
  <1> QED
    BY <1>7, <1>8, BooksStep

(***************************************************************************)
(* The theorems.                                                           *)
(***************************************************************************)

\* What a session earned is what it still has and what was signed for it:
\* every step keeps the books of every session.
LEMMA SessionBooksStep ==
    ASSUME ChainInv, VarsInv, SessionBooks, [Next]_poolVars
    PROVE  SessionBooks'
  <1>0. /\ \A a \in Account : /\ sessions[a] \in SessionType /\ sessions[a].balance \in Nat
                              /\ sessions[a].earned \in Nat
        /\ \A p \in Payee : signed[p] \in Nat
    BY Fields DEF VarsInv
  <1>1. \A a \in Account : a \in Payee
    BY DEF Payee
  <1>2. ASSUME sessions' = sessions, signed' = signed PROVE SessionBooks'
    BY <1>2 DEF SessionBooks
  <1>3. ASSUME NEW b \in Block, NEW a \in Account, SubmitForSession(b, a) PROVE SessionBooks'
    <2>1. /\ sessions'[a].balance = sessions[a].balance + Reward
          /\ sessions'[a].earned = sessions[a].earned + Reward
          /\ \A c \in Account \ {a} : sessions'[c] = sessions[c]
          /\ signed' = signed
      BY <1>0, <1>3 DEF SubmitForSession, Credited, SessionType, VarsInv
    <2>2. Reward \in Nat
      BY <1>3, AcceptedBlock, RewardBound DEF SubmitForSession
    <2>3. sessions'[a].earned = sessions'[a].balance + signed'[a]
      BY <1>0, <1>1, <2>1, <2>2 DEF SessionBooks
    <2> QED
      BY <2>1, <2>3 DEF SessionBooks
  <1>4. ASSUME NEW a \in Account, NEW label \in Worker, NEW min \in MinPayouts,
               Register(a, label, min)
        PROVE  SessionBooks'
    <2>1. sessions' = [sessions EXCEPT ![a] =
               [sessions[a] EXCEPT !.open = TRUE, !.label = label, !.min = min,
                                   !.events = Append(sessions[a].events, "registered")]]
      BY <1>4, RegisterEffect
    <2>2. \A c \in Account : /\ sessions'[c].earned = sessions[c].earned
                             /\ sessions'[c].balance = sessions[c].balance
      BY <1>0, <2>1 DEF SessionType, VarsInv
    <2> QED
      BY <1>4, <2>2 DEF SessionBooks, Register
  <1>5. ASSUME NEW a \in Account, NEW asked \in Amounts, NEW coin, Withdraw(a, asked, coin)
        PROVE  SessionBooks'
    <2>1. PICK amount \in Nat :
               /\ amount <= sessions[a].balance
               /\ sessions' = [sessions EXCEPT ![a] =
                      [sessions[a] EXCEPT !.balance = sessions[a].balance - amount,
                                          !.events = Append(sessions[a].events, "payout")]]
               /\ signed' = [signed EXCEPT ![a] = signed[a] + amount]
      BY <1>5, WithdrawEffect
    <2>2. /\ sessions'[a].earned = sessions[a].earned
          /\ sessions'[a].balance = sessions[a].balance - amount
          /\ \A c \in Account \ {a} : sessions'[c] = sessions[c]
      BY <1>0, <2>1 DEF SessionType, VarsInv
    <2>3. /\ signed'[a] = signed[a] + amount
          /\ \A c \in Account \ {a} : signed'[c] = signed[c]
      BY <1>1, <2>1 DEF VarsInv
    <2>4. sessions'[a].earned = sessions'[a].balance + signed'[a]
      BY <1>0, <1>1, <2>2, <2>3 DEF SessionBooks
    <2> QED
      BY <2>2, <2>3, <2>4 DEF SessionBooks
  <1>6. ASSUME NEW names, NEW coin, PayOut(names, coin) PROVE SessionBooks'
    <2> DEFINE paid == Payees(names, coin)
    <2>1. /\ \A a \in Account : sessions'[a] =
                 IF a \in paid THEN [sessions[a] EXCEPT !.balance = 0] ELSE sessions[a]
          /\ \A a \in Account : signed'[a] =
                 signed[a] + IF a \in paid THEN sessions[a].balance ELSE 0
      BY <1>1, <1>6 DEF PayOut, Owed
    <2> HIDE DEF paid
    <2>2. \A a \in Account : /\ sessions'[a].earned = sessions[a].earned
                             /\ sessions'[a].balance = IF a \in paid THEN 0 ELSE sessions[a].balance
      BY <1>0, <2>1 DEF SessionType
    <2> QED
      BY <1>0, <1>1, <2>1, <2>2 DEF SessionBooks
  <1> QED
    BY <1>2, <1>3, <1>4, <1>5, <1>6
       DEF Next, StreamStep, poolVars, RelayBlock, SubmitForWorker, GetBlockTemplate,
           OpenStream, ReadEvents, SendEvents, BreakStream

\* The inductive invariant.
PoolInv == ChainInv /\ VarsInv /\ StreamParts /\ SessionBooks /\ BooksInv

\* It holds at first.
LEMMA PoolInvInit == Init => PoolInv
  <1> SUFFICES ASSUME Init PROVE PoolInv
    OBVIOUS
  <1>1. IsFiniteSet(Payee)
    BY PoolAssumption DEF Payee
  <1>2. <<>> \in Events
    BY DEF Events
  <1>3. ChainInv
    BY FS_EmptySet DEF Init, ChainInv
  <1>4. VarsInv
    <2>1. NoSession \in SessionType
      BY <1>2 DEF NoSession, SessionType
    <2>2. NoWorker \in WorkerType
      BY PoolAssumption DEF NoWorker, WorkerType
    <2>3. Closed \in StreamType
      BY <1>2 DEF Closed, StreamType
    <2> QED
      BY <2>1, <2>2, <2>3 DEF Init, VarsInv
  <1>a. /\ NoSession.balance = 0 /\ NoSession.earned = 0 /\ NoSession.found = 0
        /\ NoSession.events = <<>> /\ NoWorker.found = 0 /\ NoWorker.earned = 0
        /\ Closed.sent = 0 /\ Closed.batch = <<>> /\ Closed.out = <<>>
    BY DEF NoSession, NoWorker, Closed
  <1>b. /\ \A a \in Account : sessions[a] = NoSession /\ stream[a] = Closed
        /\ \A n \in Worker : workers[n] = NoWorker
        /\ \A p \in Payee : signed[p] = 0
    BY DEF Init
  <1>5. StreamParts
    <2>1. Len(<<>>) = 0
      OBVIOUS
    <2>2. PartsOf(Closed, <<>>)
      BY <1>a, <2>1 DEF PartsOf
    <2> QED
      BY <1>a, <1>b, <2>2 DEF StreamParts
  <1>6. SessionBooks
    BY <1>a, <1>b DEF SessionBooks, Payee
  <1>7. BooksInv
    <2>1. \A p \in Payee : Found[p] = 0 /\ Due[p] = 0
      BY <1>a, <1>b DEF Found, Due, Owed, Payee
    <2>2. \A f : (\A p \in Payee : f[p] = 0) => SumFunctionOnSet(f, Payee) = 0
      BY <1>1, SumZero
    <2>3. Credits = 0 /\ Dues = 0
      BY <2>1, <2>2 DEF Credits, Dues
    <2>4. Coins = 0 /\ Cardinality(known) = 0
      BY SumEmpty, FS_EmptySet DEF Init, Coins
    <2> QED
      BY <2>3, <2>4 DEF BooksInv
  <1> QED
    BY <1>3, <1>4, <1>5, <1>6, <1>7 DEF PoolInv

\* Every step keeps it.
LEMMA PoolInvStep == PoolInv /\ [Next]_poolVars => PoolInv'
  <1> SUFFICES ASSUME PoolInv, [Next]_poolVars PROVE PoolInv'
    OBVIOUS
  <1>1. ChainInv /\ VarsInv /\ StreamParts /\ SessionBooks /\ BooksInv
    BY DEF PoolInv
  <1>2. ChainInv'
    <2>1. CASE UNCHANGED chain
      BY <1>1, <2>1 DEF ChainInv, chain
    <2>2. ASSUME NEW b \in Block, AcceptBlock(b) PROVE ChainInv'
      BY <1>1, <2>2, AcceptedBlock
    <2> QED
      BY <1>1, <2>1, <2>2, BooksStep
  <1>3. VarsInv'
    BY <1>1, VarsInvStep
  <1>4. StreamParts'
    BY <1>1, StreamPartsStep
  <1>5. SessionBooks'
    BY <1>1, SessionBooksStep
  <1>6. BooksInv'
    BY <1>1, <1>2, <1>3, BooksInvStep
  <1> QED
    BY <1>2, <1>3, <1>4, <1>5, <1>6 DEF PoolInv

\* It holds in every reachable state.
THEOREM PoolInvariant == Spec => []PoolInv
  BY PoolInvInit, PoolInvStep, PTL DEF Spec

\* Every variable of the pool has its type, and a stream never claims more
\* events than its session has.
THEOREM PoolTypes == Spec => []PoolTypeOK
  <1>1. PoolInv => PoolTypeOK
    BY DEF PoolInv, ChainInv, VarsInv, StreamParts, PartsOf, PoolTypeOK,
           SessionType, WorkerType, Events
  <1> QED
    BY <1>1, PoolInvariant, PTL

\* Withdrawals, batch payouts and credits in any order keep the books of every
\* session: earned = balance + signed.
THEOREM BooksBalance == Spec => []SessionBooks
  <1>1. PoolInv => SessionBooks
    BY DEF PoolInv
  <1> QED
    BY <1>1, PoolInvariant, PTL

\* However often a block is submitted or relayed, it is credited once, as long
\* as known_blocks has not been cleared.
THEOREM NoDoubleCredit == Spec => []CreditedOnce
  <1>1. PoolInv => CreditedOnce
    BY DEF PoolInv, BooksInv, Credits, CreditedOnce
  <1> QED
    BY <1>1, PoolInvariant, PTL

\* A pool whose chain never forked owes and has signed no more than the
\* coinbases of its blocks, with any fee and any rounding.
THEOREM PoolSolvent == Spec => []Solvent
  <1>1. ASSUME PoolInv PROVE Solvent
    <2>1. VarsInv /\ BooksInv /\ IsFiniteSet(Payee)
      BY <1>1, PoolAssumption DEF PoolInv, Payee
    <2>2. \A p \in Payee : /\ Owed[p] \in Int /\ signed[p] \in Int
                           /\ Due[p] = Owed[p] + signed[p]
      BY <2>1, BooksType DEF Due
    <2>3. Dues = SumFunctionOnSet(Owed, Payee) + SumFunctionOnSet(signed, Payee)
      BY <2>1, <2>2, SumPlus DEF Dues
    <2> QED
      BY <2>1, <2>3 DEF Solvent, BooksInv, Coins
  <1> QED
    BY <1>1, PoolInvariant, PTL

\* What a stream has written is a beginning of its session's events, although
\* the position is advanced outside the lock and handlers add events meanwhile.
THEOREM StreamsInOrder == Spec => []StreamInOrder
  <1>1. ASSUME PoolInv PROVE StreamInOrder
    <2> SUFFICES ASSUME NEW a \in Account
                 PROVE  IsPrefix(stream[a].out, sessions[a].events)
      BY DEF StreamInOrder
    <2> DEFINE out == stream[a].out
               e == sessions[a].events
               n == stream[a].sent
    <2>1. /\ out \in Seq(Event) /\ e \in Seq(Event) /\ n \in Nat
          /\ stream[a].batch \in Seq(Event)
      BY <1>1, Fields DEF PoolInv, VarsInv, Events
    <2>2. PartsOf(stream[a], e)
      BY <1>1 DEF PoolInv, StreamParts
    <2>3. Len(out) = n /\ n <= Len(e) /\ \A i \in 1..n : out[i] = e[i]
      BY <2>1, <2>2, LenProperties DEF PartsOf
    <2> HIDE DEF out, e, n
    <2>4. SubSeq(out, 1, n) = SubSeq(e, 1, n)
      <3>1. \A i \in 1..n : out[i] \in Event /\ e[i] \in Event
        BY <2>1, <2>3
      <3>2. /\ SubSeq(out, 1, n) \in Seq(Event) /\ SubSeq(e, 1, n) \in Seq(Event)
            /\ Len(SubSeq(out, 1, n)) = n /\ Len(SubSeq(e, 1, n)) = n
            /\ \A i \in 1..n : SubSeq(out, 1, n)[i] = SubSeq(e, 1, n)[i]
        BY <2>1, <2>3, <3>1, SubSeqProperties
      <3> QED
        BY <3>2, SeqEqual
    <2> QED
      BY <2>3, <2>4 DEF IsPrefix, out, e
  <1> QED
    BY <1>1, PoolInvariant, PTL

=============================================================================
