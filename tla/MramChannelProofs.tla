------------------------- MODULE MramChannelProofs -------------------------
(***************************************************************************)
(* What holds of the eMRAM channel for every number of ranks and banks,    *)
(* every queue depth, timing and policy.                                   *)
(***************************************************************************)
EXTENDS MramChannel, DataLemmas

(***************************************************************************)
(* The helpers on sequences                                                *)
(***************************************************************************)
\* erase(begin() + i) leaves a list of the same kind, one entry shorter.
LEMMA RemoveAtType ==
    ASSUME NEW S, NEW s \in Seq(S), NEW i \in 1 .. Len(s)
    PROVE  /\ RemoveAt(s, i) \in Seq(S)
           /\ Len(RemoveAt(s, i)) = Len(s) - 1
<1> DEFINE before == SubSeq(s, 1, i - 1)
           after  == SubSeq(s, i + 1, Len(s))
<1>1. /\ before \in Seq(S) /\ Len(before) = i - 1
      /\ after \in Seq(S)  /\ Len(after) = Len(s) - i
      BY SubSeqProperties, LenProperties
<1>2. RemoveAt(s, i) = before \o after
      BY DEF RemoveAt
<1> HIDE DEF before, after
<1>3. before \o after \in Seq(S) /\ Len(before \o after) = Len(s) - 1
      BY <1>1, LenProperties, ConcatProperties
<1> QED BY <1>2, <1>3

\* One pass over a countdown list keeps its packets and takes one cycle off
\* each of them.
LEMMA CountDownType ==
    ASSUME NEW S, NEW s \in Seq([packet : S, left : Int])
    PROVE  /\ CountDown(s) \in Seq([packet : S, left : Int])
           /\ Len(CountDown(s)) = Len(s)
           /\ \A i \in 1 .. Len(s) : /\ CountDown(s)[i].packet = s[i].packet
                                     /\ CountDown(s)[i].left = s[i].left - 1
<1> DEFINE T == [packet : S, left : Int]
<1>1. Len(s) \in Nat
      BY LenProperties
<1>2. \A i \in 1 .. Len(s) : s[i] \in T
      BY ElementOfSeq
<1>3. \A i \in 1 .. Len(s) : /\ [s[i] EXCEPT !.left = @ - 1] \in T
                             /\ [s[i] EXCEPT !.left = @ - 1].packet = s[i].packet
                             /\ [s[i] EXCEPT !.left = @ - 1].left = s[i].left - 1
      BY <1>2, SMTT(60)
<1>4. CountDown(s) \in [1 .. Len(s) -> T]
      BY <1>3 DEF CountDown
<1>5. CountDown(s) \in Seq(T) /\ Len(CountDown(s)) = Len(s)
      BY <1>1, <1>4, IsASeq, LenProperties
<1> QED BY <1>3, <1>5 DEF CountDown

\* Taking the entry that is due off a list leaves a list.
LEMMA EraseDueType ==
    ASSUME NEW S, NEW s \in Seq(S)
    PROVE  EraseDue(s) \in Seq(S)
BY HeadTailProperties DEF EraseDue, HeadDue

\* A bus after its countdown holds what it held, or nothing.
LEMMA AfterCountDownType ==
    ASSUME NEW S, NEW s \in Seq([packet : S, left : Int])
    PROVE  AfterCountDown(s) \in Seq([packet : S, left : Int])
BY CountDownType, EmptySeq DEF AfterCountDown

\* What is due after a countdown was the head, with one cycle left.
LEMMA DueEntry ==
    ASSUME NEW S, NEW s \in Seq([packet : S, left : Int]),
           HeadDue(CountDown(s))
    PROVE  /\ s # <<>> /\ Len(s) >= 1
           /\ s[1].packet \in S /\ s[1].left = 1
           /\ CountDown(s)[1].packet = s[1].packet
<1>1. /\ CountDown(s) # <<>>
      /\ CountDown(s) \in Seq([packet : S, left : Int])
      /\ Len(CountDown(s)) = Len(s)
      BY CountDownType DEF HeadDue
<1>2. Len(s) \in Nat /\ Len(s) # 0
      BY <1>1, EmptySeq, LenProperties
<1>3. 1 \in 1 .. Len(s)
      BY <1>2
<1>4. s[1] \in [packet : S, left : Int]
      BY <1>3, ElementOfSeq
<1>5. CountDown(s)[1].packet = s[1].packet /\ CountDown(s)[1].left = s[1].left - 1
      BY <1>3, CountDownType
<1>6. s[1].left \in Int /\ s[1].packet \in S
      BY <1>4
<1>7. s[1].left = 1
      BY <1>5, <1>6 DEF HeadDue
<1>8. s # <<>>
      BY <1>2, EmptySeq
<1> QED BY <1>2, <1>5, <1>6, <1>7, <1>8

\* One pass of the code over a countdown list: entry i was entry i + k, one
\* cycle farther away, where k tells whether the head was sent.
LEMMA PassOverList ==
    ASSUME NEW S, NEW s \in Seq([packet : S, left : Int])
    PROVE  \E k \in {0, 1} :
               /\ k = 1 <=> HeadDue(CountDown(s))
               /\ Len(EraseDue(CountDown(s))) = Len(s) - k
               /\ \A i \in 1 .. Len(EraseDue(CountDown(s))) :
                      /\ i + k \in 1 .. Len(s)
                      /\ s[i + k].left \in Int
                      /\ EraseDue(CountDown(s))[i].left = s[i + k].left - 1
                      /\ EraseDue(CountDown(s))[i].packet = s[i + k].packet
<1> DEFINE c == CountDown(s)
<1>1. /\ c \in Seq([packet : S, left : Int]) /\ Len(c) = Len(s)
      /\ \A i \in 1 .. Len(s) : /\ c[i].left = s[i].left - 1
                               /\ c[i].packet = s[i].packet
      BY CountDownType
<1>2. Len(s) \in Nat
      BY LenProperties
<1>3. \A i \in 1 .. Len(s) : s[i].left \in Int
  <2> TAKE i \in 1 .. Len(s)
  <2>1. s[i] \in [packet : S, left : Int]
        BY ElementOfSeq
  <2> QED BY <2>1
<1> HIDE DEF c
<1>4. CASE HeadDue(c)
  <2>1. c # <<>> /\ EraseDue(c) = Tail(c)
        BY <1>4 DEF HeadDue, EraseDue
  <2>2. Len(Tail(c)) = Len(c) - 1 /\ \A i \in 1 .. Len(Tail(c)) : Tail(c)[i] = c[i + 1]
        BY <1>1, <2>1, HeadTailProperties
  <2>3. \A i \in 1 .. Len(Tail(c)) : i + 1 \in 1 .. Len(s)
        BY <1>1, <1>2, <2>2
  <2>4. ASSUME NEW i \in 1 .. Len(Tail(c))
        PROVE  /\ i + 1 \in 1 .. Len(s) /\ s[i + 1].left \in Int
               /\ Tail(c)[i].left = s[i + 1].left - 1 /\ Tail(c)[i].packet = s[i + 1].packet
        BY <1>1, <1>3, <2>2, <2>3
  <2>5. Len(Tail(c)) = Len(s) - 1
        BY <1>1, <2>2
  <2>6. \E k \in {0, 1} :
            /\ k = 1 <=> HeadDue(c)
            /\ Len(EraseDue(c)) = Len(s) - k
            /\ \A i \in 1 .. Len(EraseDue(c)) :
                   /\ i + k \in 1 .. Len(s) /\ s[i + k].left \in Int
                   /\ EraseDue(c)[i].left = s[i + k].left - 1
                   /\ EraseDue(c)[i].packet = s[i + k].packet
        BY <1>4, <2>1, <2>4, <2>5
  <2> QED BY <2>6 DEF c
<1>5. CASE ~HeadDue(c)
  <2>1. EraseDue(c) = c
        BY <1>5 DEF EraseDue
  <2>2. \A i \in 1 .. Len(s) : i + 0 = i
        BY <1>2
  <2> QED BY <1>1, <1>2, <1>3, <1>5, <2>1, <2>2 DEF c
<1> QED BY <1>4, <1>5

\* A list whose entries are due at distinct times stays one, and no entry but
\* the head reaches zero.
LEMMA PassStaggered ==
    ASSUME NEW S, NEW s \in Seq([packet : S, left : Int]), Staggered(s),
           NEW n \in Int, AtMost(s, n)
    PROVE  /\ Staggered(EraseDue(CountDown(s)))
           /\ AtMost(EraseDue(CountDown(s)), n - 1)
<1> DEFINE e == EraseDue(CountDown(s))
<1>1. PICK k \in {0, 1} :
          /\ k = 1 <=> HeadDue(CountDown(s))
          /\ Len(e) = Len(s) - k
          /\ \A i \in 1 .. Len(e) : /\ i + k \in 1 .. Len(s)
                                    /\ s[i + k].left \in Int
                                    /\ e[i].left = s[i + k].left - 1
      BY PassOverList
<1>2. Len(s) \in Nat
      BY LenProperties
<1>3. k = 1 => s[1].left = 1
      BY <1>1, DueEntry
<1>4. k = 0 /\ Len(s) >= 1 => s[1].left # 1
  <2> SUFFICES ASSUME k = 0, Len(s) >= 1 PROVE s[1].left # 1
      OBVIOUS
  <2>1. 1 \in 1 .. Len(s)
        BY <1>2
  <2>2. /\ CountDown(s)[1].left = s[1].left - 1
        /\ Len(CountDown(s)) = Len(s) /\ CountDown(s) \in Seq([packet : S, left : Int])
        BY <2>1, CountDownType
  <2>3. CountDown(s) # <<>>
        BY <2>2, EmptySeq, <1>2
  <2>4. CountDown(s)[1].left # 0
        BY <1>1, <2>3 DEF HeadDue
  <2> QED BY <2>2, <2>4
<1> HIDE DEF e
<1>5. \A i \in 1 .. Len(e) : e[i].left <= n - 1
      BY <1>1, <1>2, SMTT(60) DEF AtMost
<1>6. \A i \in 1 .. Len(e), j \in 1 .. Len(e) : i < j => e[i].left < e[j].left
  <2> SUFFICES ASSUME NEW i \in 1 .. Len(e), NEW j \in 1 .. Len(e), i < j
               PROVE  e[i].left < e[j].left
      OBVIOUS
  <2>1. /\ i + k \in 1 .. Len(s) /\ j + k \in 1 .. Len(s) /\ i + k < j + k
        /\ s[i + k].left \in Int /\ s[j + k].left \in Int
        /\ e[i].left = s[i + k].left - 1 /\ e[j].left = s[j + k].left - 1
        BY <1>1, <1>2, SMTT(60)
  <2>2. s[i + k].left < s[j + k].left
        BY <2>1 DEF Staggered
  <2> QED BY <2>1, <2>2, SMTT(60)
<1>7. \A i \in 1 .. Len(e) : e[i].left >= 1
  <2> TAKE i \in 1 .. Len(e)
  <2>1. /\ i + k \in 1 .. Len(s) /\ s[i + k].left \in Int
        /\ e[i].left = s[i + k].left - 1
        BY <1>1
  <2>2. i + k = 1 => s[i + k].left >= 2
        BY <1>2, <1>4, <2>1 DEF Staggered
  <2>3. i + k # 1 => s[1].left < s[i + k].left /\ s[1].left >= 1
        BY <1>2, <2>1 DEF Staggered
  <2>4. 1 \in 1 .. Len(s)
        BY <1>2, <2>1
  <2>5. s[1].left \in Int
    <3>1. s[1] \in [packet : S, left : Int]
          BY <2>4, ElementOfSeq
    <3> QED BY <3>1
  <2> QED BY <2>1, <2>2, <2>3, <2>5
<1> QED BY <1>5, <1>6, <1>7 DEF Staggered, AtMost, e

\* push_back of an entry that is farther away than all others.
LEMMA AppendStaggered ==
    ASSUME NEW S, NEW s \in Seq([packet : S, left : Int]), Staggered(s),
           NEW n \in Nat \ {0}, AtMost(s, n - 1),
           NEW x \in [packet : S, left : Int], x.left = n
    PROVE  Staggered(Append(s, x)) /\ AtMost(Append(s, x), n)
<1> DEFINE a == Append(s, x)
<1>1. /\ Len(a) = Len(s) + 1 /\ a[Len(s) + 1] = x
      /\ \A i \in 1 .. Len(s) : a[i] = s[i]
      BY AppendProperties
<1>2. Len(s) \in Nat
      BY LenProperties
<1>3. \A i \in 1 .. Len(s) : s[i].left \in Int
  <2> TAKE i \in 1 .. Len(s)
  <2>1. s[i] \in [packet : S, left : Int]
        BY ElementOfSeq
  <2> QED BY <2>1
<1> HIDE DEF a
<1>4. AtMost(a, n)
      BY <1>1, <1>2, <1>3, SMTT(60) DEF AtMost
<1>5. Staggered(a)
  <2>1. \A i \in 1 .. Len(s) : s[i].left >= 1 /\ s[i].left < n
        BY <1>3 DEF Staggered, AtMost
  <2>2. \A i \in 1 .. Len(a) : a[i].left >= 1
        BY <1>1, <1>2, <2>1
  <2>3. ASSUME NEW i \in 1 .. Len(a), NEW j \in 1 .. Len(a), i < j
        PROVE  a[i].left < a[j].left
    <3>1. i \in 1 .. Len(s) /\ a[i] = s[i] /\ s[i].left < n
          BY <1>1, <1>2, <2>1, <2>3
    <3>2. CASE j = Len(s) + 1
          BY <1>1, <3>1, <3>2
    <3>3. CASE j # Len(s) + 1
      <4>1. j \in 1 .. Len(s)
            BY <1>1, <1>2, <3>3
      <4>2. s[i].left < s[j].left
            BY <2>3, <3>1, <4>1 DEF Staggered
      <4> QED BY <1>1, <3>1, <4>1, <4>2
    <3> QED BY <3>2, <3>3
  <2> QED BY <2>2, <2>3 DEF Staggered
<1> QED BY <1>4, <1>5 DEF a

(***************************************************************************)
(* Types and queue bounds                                                  *)
(***************************************************************************)
\* The channel starts empty.
LEMMA InitType == Init => TypeOK
<1> SUFFICES ASSUME Init PROVE TypeOK
    OBVIOUS
<1>1. /\ pendingTransactions \in Seq(Request) /\ accepted \in Seq(Request)
      /\ transactionQueue \in Seq(Transaction)
      /\ pendingReadTransactions \in Seq(Transaction)
      /\ returnTransaction \in Seq(DataPacket)
      /\ cmdBus \in Seq(TimedCommand)
      /\ dataBus \in Seq(TimedData) /\ writeDataToSend \in Seq(TimedData)
      BY EmptySeq DEF Init
<1>2. /\ queues \in [Ranks -> [Banks -> Seq(BusPacket)]]
      /\ \A r \in Ranks, b \in Banks : Len(queues[r][b]) <= CMD_QUEUE_DEPTH
      /\ Len(transactionQueue) <= TRANS_QUEUE_DEPTH
      BY EmptySeq, ConfigAssumption DEF Init
<1>3. /\ readReturn \in [Ranks -> Seq(TimedData)]
      /\ rankBus \in [Ranks -> Seq(TimedData)]
      BY EmptySeq DEF Init
<1>4. /\ nextRead \in [Ranks -> [Banks -> Nat]]
      /\ nextWrite \in [Ranks -> [Banks -> Nat]]
      /\ currentBankState \in [Ranks -> [Banks -> {"Idle", "RowActive"}]]
      /\ storage \in [Address -> Nat]
      BY DEF Init
<1>5. turn \in Ranks /\ nextRank \in Ranks /\ nextBank \in Banks
      BY ConfigAssumption DEF Init, Ranks, Banks
<1>6. phase \in Phases /\ error \in Errors /\ sendAct \in BOOLEAN
      BY DEF Init, Phases, Errors
<1>7. landed \in SUBSET Nat /\ returned \in SUBSET [id : Nat, packet : Nat, data : Nat]
      BY DEF Init
<1> QED BY <1>1, <1>2, <1>3, <1>4, <1>5, <1>6, <1>7 DEF TypeOK

\* MemoryController::addTransaction keeps the queue within its depth when it
\* was asked for room.
LEMMA AcceptType ==
    ASSUME TypeOK, WillAcceptTransaction, NEW req \in Request, Accept(req)
    PROVE  /\ transactionQueue' \in Seq(Transaction)
           /\ Len(transactionQueue') <= TRANS_QUEUE_DEPTH
           /\ accepted' \in Seq(Request)
<1> DEFINE new == [transactionType |-> req.transactionType,
                   address |-> req.address, id |-> Len(accepted) + 1]
<1>1. Len(accepted) + 1 \in Nat
      BY LenProperties DEF TypeOK
<1>2. new \in Transaction
      BY <1>1 DEF Request, Transaction
<1>3. transactionQueue' = Append(transactionQueue, new)
      BY DEF Accept
<1>4. accepted' = Append(accepted, req)
      BY DEF Accept
<1> HIDE DEF new
<1>5. /\ transactionQueue' \in Seq(Transaction)
      /\ Len(transactionQueue') = Len(transactionQueue) + 1
      BY <1>2, <1>3, AppendProperties DEF TypeOK
<1>6. Len(transactionQueue') <= TRANS_QUEUE_DEPTH
      BY <1>5, LenProperties, ConfigAssumption DEF WillAcceptTransaction, TypeOK
<1>7. accepted' \in Seq(Request)
      BY <1>4, AppendProperties DEF TypeOK
<1> QED BY <1>5, <1>6, <1>7

\* Arrivals keep the types.
LEMMA ArrivalType == TypeOK /\ (AddTransaction \/ AddPending) => TypeOK'
<1> USE DEF schedVars, mcVars, busVars, bankVars, queueVars, rankVars, histVars
<1>1. ASSUME TypeOK, AddTransaction PROVE TypeOK'
  <2>1. PICK req \in Request : Accept(req)
        BY <1>1 DEF AddTransaction
  <2>2. /\ transactionQueue' \in Seq(Transaction)
        /\ Len(transactionQueue') <= TRANS_QUEUE_DEPTH
        /\ accepted' \in Seq(Request)
        BY <1>1, <2>1, AcceptType DEF AddTransaction
  <2> QED BY <1>1, <2>2 DEF TypeOK, AddTransaction
<1>2. ASSUME TypeOK, AddPending PROVE TypeOK'
  <2>1. pendingTransactions' \in Seq(Request)
        BY <1>2, AppendProperties DEF TypeOK, AddPending
  <2> QED BY <1>2, <2>1 DEF TypeOK, AddPending
<1> QED BY <1>1, <1>2

\* Rank::update keeps the types.
LEMMA RankUpdateType == TypeOK /\ RankUpdate => TypeOK'
<1> SUFFICES ASSUME TypeOK, RankUpdate PROVE TypeOK'
    OBVIOUS
<1> DEFINE waiting == CountDown(readReturn[turn])
           arrives == HeadDue(CountDown(rankBus[turn]))
<1>1. phase' \in Phases /\ turn' \in Ranks
  <2>1. turn \in 0 .. NUM_RANKS - 1 /\ NUM_RANKS \in Nat \ {0}
        BY ConfigAssumption DEF TypeOK, Ranks
  <2>2. CASE turn = NUM_RANKS - 1
        BY <2>1, <2>2 DEF RankUpdate, Phases, Ranks
  <2>3. CASE turn # NUM_RANKS - 1
    <3>1. phase' = phase /\ turn' = turn + 1
          BY <2>3 DEF RankUpdate
    <3> QED BY <2>1, <2>3, <3>1 DEF TypeOK, Ranks
  <2> QED BY <2>2, <2>3
<1>2. /\ turn \in Ranks /\ readReturn[turn] \in Seq(TimedData)
      /\ rankBus[turn] \in Seq(TimedData)
      BY DEF TypeOK
<1>3. waiting \in Seq(TimedData) /\ CountDown(rankBus[turn]) \in Seq(TimedData)
      BY <1>2, CountDownType DEF TimedData
<1>4. returnTransaction' \in Seq(DataPacket)
  <2>1. CASE arrives
    <3>1. rankBus[turn][1].packet \in DataPacket
          BY <2>1, <1>2, DueEntry DEF TimedData
    <3>2. returnTransaction' = Append(returnTransaction, rankBus[turn][1].packet)
          BY <2>1 DEF RankUpdate
    <3> QED BY <3>1, <3>2, AppendProperties DEF TypeOK
  <2>2. CASE ~arrives
        BY <2>2 DEF RankUpdate, TypeOK
  <2> QED BY <2>1, <2>2
<1>5. rankBus' \in [Ranks -> Seq(TimedData)]
  <2> DEFINE new == IF HeadDue(waiting)
                    THEN <<[packet |-> waiting[1].packet, left |-> DataCycles]>>
                    ELSE AfterCountDown(rankBus[turn])
  <2>1. ASSUME HeadDue(waiting) PROVE new \in Seq(TimedData)
    <3>1. waiting[1].packet \in DataPacket
          BY <2>1, <1>2, DueEntry DEF TimedData
    <3>2. DataCycles \in Int
          BY ConfigAssumption DEF DataCycles, BurstCycles
    <3>3. [packet |-> waiting[1].packet, left |-> DataCycles] \in TimedData
          BY <3>1, <3>2 DEF TimedData
    <3> QED BY <3>3, <2>1
  <2>2. ASSUME ~HeadDue(waiting) PROVE new \in Seq(TimedData)
        BY <2>2, <1>2, AfterCountDownType DEF TimedData
  <2>3. new \in Seq(TimedData)
        BY <2>1, <2>2
  <2>4. rankBus' = [rankBus EXCEPT ![turn] = new]
        BY DEF RankUpdate
  <2> HIDE DEF new
  <2> QED BY <2>3, <2>4 DEF TypeOK
<1>6. readReturn' \in [Ranks -> Seq(TimedData)]
  <2>1. EraseDue(waiting) \in Seq(TimedData)
        BY <1>3, EraseDueType
  <2>2. readReturn' = [readReturn EXCEPT ![turn] = EraseDue(waiting)]
        BY DEF RankUpdate
  <2> HIDE DEF waiting
  <2> QED BY <2>1, <2>2 DEF TypeOK
<1> QED BY <1>1, <1>4, <1>5, <1>6
        DEF TypeOK, RankUpdate, busVars, bankVars, queueVars, histVars

\* The overflow list is drained into the queue within its depth.
LEMMA DrainPendingType == TypeOK /\ DrainPending => TypeOK'
<1> SUFFICES ASSUME TypeOK, DrainPending PROVE TypeOK'
    OBVIOUS
<1> USE DEF busVars, bankVars, queueVars, rankVars
<1>1. phase' \in Phases
      BY DEF DrainPending, Phases
<1>2. CASE pendingTransactions # <<>> /\ WillAcceptTransaction
  <2>1. /\ Head(pendingTransactions) \in Request
        /\ Tail(pendingTransactions) \in Seq(Request)
        BY <1>2, HeadTailProperties DEF TypeOK
  <2>2. /\ transactionQueue' \in Seq(Transaction)
        /\ Len(transactionQueue') <= TRANS_QUEUE_DEPTH
        /\ accepted' \in Seq(Request)
        BY <1>2, <2>1, AcceptType DEF DrainPending
  <2>3. pendingTransactions' \in Seq(Request)
        BY <1>2, <2>1 DEF DrainPending
  <2> QED BY <1>1, <2>2, <2>3 DEF TypeOK, DrainPending
<1>3. CASE ~(pendingTransactions # <<>> /\ WillAcceptTransaction)
      BY <1>1, <1>3 DEF TypeOK, DrainPending
<1> QED BY <1>2, <1>3

\* What the address mapping says of a packet.
LEMMA Located ==
    ASSUME NEW p, p.address \in Address
    PROVE  RankOf(p) \in Ranks /\ BankOf(p) \in Banks
BY ConfigAssumption DEF RankOf, BankOf

\* The command bus delivers a command to a rank, which keeps the types.
LEMMA CommandBusType == TypeOK /\ CommandBus => TypeOK'
<1> SUFFICES ASSUME TypeOK, CommandBus PROVE TypeOK'
    OBVIOUS
<1>1. phase' \in Phases
      BY DEF CommandBus, Phases
<1>2. currentBankState' \in [Ranks -> [Banks -> {"Idle", "RowActive"}]]
      BY DEF CommandBus
<1>3. cmdBus' \in Seq(TimedCommand)
      BY AfterCountDownType DEF CommandBus, TypeOK, TimedCommand
<1>4. error' \in Errors /\ readReturn' \in [Ranks -> Seq(TimedData)]
  <2>1. CASE HeadDue(CountDown(cmdBus))
    <3> DEFINE p == cmdBus[1].packet
    <3>3. p \in BusPacket
          BY <2>1, DueEntry DEF TypeOK, TimedCommand
    <3>4. RankReceivesCommand(p)
          BY <2>1 DEF CommandBus
    <3> HIDE DEF p
    <3>5. p.address \in Address /\ p.id \in Nat /\ RankOf(p) \in Ranks
          BY <3>3, Located DEF BusPacket
    <3>6. error' \in Errors
          BY <3>4 DEF RankReceivesCommand, TypeOK, Errors
    <3> DEFINE entry == [packet |-> [address |-> p.address, id |-> p.id,
                                     data |-> BankRead(p)], left |-> RL]
    <3>7. entry \in TimedData
      <4>1. storage \in [Address -> Nat] /\ RL \in Int
            BY ConfigAssumption DEF TypeOK
      <4>2. BankRead(p) \in Nat
            BY <4>1, <3>5 DEF BankRead
      <4> QED BY <4>1, <4>2, <3>5 DEF TimedData, DataPacket
    <3>8. \/ readReturn' = readReturn
          \/ readReturn' = [readReturn EXCEPT ![RankOf(p)] = Append(@, entry)]
          BY <3>4 DEF RankReceivesCommand
    <3> HIDE DEF entry
    <3>9. Append(readReturn[RankOf(p)], entry) \in Seq(TimedData)
          BY <3>5, <3>7, AppendProperties DEF TypeOK
    <3> QED BY <3>6, <3>8, <3>9 DEF TypeOK
  <2>2. CASE ~HeadDue(CountDown(cmdBus))
        BY <2>2 DEF CommandBus, TypeOK
  <2> QED BY <2>1, <2>2
<1> QED BY <1>1, <1>2, <1>3, <1>4
        DEF TypeOK, CommandBus, mcVars, queueVars, histVars

\* The write data bus delivers and is loaded, which keeps the types.
LEMMA DataBusType == TypeOK /\ DataBus => TypeOK'
<1> SUFFICES ASSUME TypeOK, DataBus PROVE TypeOK'
    OBVIOUS
<1> DEFINE waiting == CountDown(writeDataToSend)
           arrives == HeadDue(CountDown(dataBus))
<1>1. phase' \in Phases /\ error' \in Errors
      BY DEF DataBus, TypeOK, Phases, Errors
<1>2. landed' \in SUBSET Nat /\ storage' \in [Address -> Nat]
  <2>1. CASE arrives
    <3> DEFINE p == dataBus[1].packet
    <3>1. p \in DataPacket
          BY <2>1, DueEntry DEF TypeOK, TimedData
    <3>2. landed' = landed \cup {p.id} /\ BankWrite(p)
          BY <2>1 DEF DataBus
    <3> HIDE DEF p
    <3>3. p.id \in Nat /\ p.data \in Nat /\ p.address \in Address
          BY <3>1 DEF DataPacket
    <3>4. landed' \in SUBSET Nat
          BY <3>2, <3>3 DEF TypeOK
    <3>5. storage' = [storage EXCEPT ![p.address] = p.data]
          BY <3>2 DEF BankWrite
    <3>6. storage' \in [Address -> Nat]
          BY <3>3, <3>5 DEF TypeOK
    <3> QED BY <3>4, <3>6
  <2>2. CASE ~arrives
        BY <2>2 DEF DataBus, TypeOK
  <2> QED BY <2>1, <2>2
<1>3. dataBus' \in Seq(TimedData)
  <2>1. CASE HeadDue(waiting)
    <3>1. waiting[1].packet \in DataPacket
          BY <2>1, DueEntry DEF TypeOK, TimedData
    <3>2. DataCycles \in Int
          BY ConfigAssumption DEF DataCycles, BurstCycles
    <3>3. [packet |-> waiting[1].packet, left |-> DataCycles] \in TimedData
          BY <3>1, <3>2 DEF TimedData
    <3>4. dataBus' = <<[packet |-> waiting[1].packet, left |-> DataCycles]>>
          BY <2>1 DEF DataBus
    <3> HIDE DEF waiting
    <3> QED BY <3>3, <3>4
  <2>2. CASE ~HeadDue(waiting)
    <3>1. AfterCountDown(dataBus) \in Seq(TimedData)
          BY AfterCountDownType DEF TypeOK, TimedData
    <3>2. dataBus' = AfterCountDown(dataBus)
          BY <2>2 DEF DataBus
    <3> QED BY <3>1, <3>2
  <2> QED BY <2>1, <2>2
<1>4. writeDataToSend' \in Seq(TimedData)
      BY CountDownType, EraseDueType DEF DataBus, TypeOK, TimedData
<1> QED BY <1>1, <1>2, <1>3, <1>4
        DEF TypeOK, DataBus, mcVars, bankVars, queueVars

\* A queue's place in the table exists.
LEMMA QueueBankType == ASSUME NEW b \in Banks PROVE QueueBank(b) \in Banks
BY ConfigAssumption DEF QueueBank, Banks

\* The timing imposed on the banks only ever raises a distance.
LEMMA DelayType ==
    ASSUME NEW table \in [Ranks -> [Banks -> Nat]], NEW r \in Ranks,
           NEW same \in Nat, NEW other \in Nat
    PROVE  /\ Delay(table, r, same, other) \in [Ranks -> [Banks -> Nat]]
           /\ \A i \in Ranks, b \in Banks :
                  /\ Delay(table, r, same, other)[i][b] >= table[i][b]
                  /\ i = r => Delay(table, r, same, other)[i][b] >= same
<1> DEFINE D(i, j) == IF i = r THEN Larger(same, table[i][j])
                      ELSE IF currentBankState[i][j] = "RowActive"
                           THEN Larger(other, table[i][j])
                      ELSE table[i][j]
<1>1. \A i \in Ranks, j \in Banks : /\ D(i, j) \in Nat
                                    /\ D(i, j) >= table[i][j]
                                    /\ i = r => D(i, j) >= same
      BY DEF Larger
<1>2. Delay(table, r, same, other) = [i \in Ranks |-> [j \in Banks |-> D(i, j)]]
      BY DEF Delay
<1> HIDE DEF D
<1> QED BY <1>1, <1>2

\* The delays between commands are numbers of cycles.
LEMMA DelaysNat ==
    /\ READ_TO_READ_DELAY \in Nat /\ WRITE_TO_WRITE_DELAY \in Nat
    /\ READ_TO_WRITE_DELAY \in Nat /\ WRITE_TO_READ_DELAY_B \in Nat
    /\ WRITE_TO_READ_DELAY_R \in Nat /\ RANK_TO_RANK_DELAY \in Nat
<1>1. BL \in Nat /\ RL \in Nat /\ WL \in Nat /\ tCCD \in Nat /\ tWTR \in Nat
      /\ tRTRS \in Nat
      BY ConfigAssumption
<1>2. BurstCycles \in Nat
      BY <1>1 DEF BurstCycles
<1> QED BY <1>1, <1>2
        DEF READ_TO_READ_DELAY, WRITE_TO_WRITE_DELAY, READ_TO_WRITE_DELAY,
            WRITE_TO_READ_DELAY_B, WRITE_TO_READ_DELAY_R, RANK_TO_RANK_DELAY,
            Larger

\* The timing after a command.
LEMMA UpdateTimingType ==
    ASSUME TypeOK, NEW p, RankOf(p) \in Ranks, UpdateTiming(p)
    PROVE  /\ nextRead' \in [Ranks -> [Banks -> Nat]]
           /\ nextWrite' \in [Ranks -> [Banks -> Nat]]
<1>1. /\ nextRead \in [Ranks -> [Banks -> Nat]]
      /\ nextWrite \in [Ranks -> [Banks -> Nat]]
      BY DEF TypeOK
<1> DEFINE r == RankOf(p)
<1>2. \A same, other \in Nat :
          /\ Delay(nextRead, r, same, other) \in [Ranks -> [Banks -> Nat]]
          /\ Delay(nextWrite, r, same, other) \in [Ranks -> [Banks -> Nat]]
      BY <1>1, DelayType
<1>3. \E s1, o1, s2, o2 \in Nat : /\ nextRead' = Delay(nextRead, r, s1, o1)
                                  /\ nextWrite' = Delay(nextWrite, r, s2, o2)
      BY DelaysNat DEF UpdateTiming
<1> QED BY <1>2, <1>3

\* The round robin stays within the ranks and banks.
LEMMA PointersType ==
    ASSUME NEW slot \in Ranks \X Banks, MovePointers(slot)
    PROVE  nextRank' \in Ranks /\ nextBank' \in Banks /\ sendAct' \in BOOLEAN
<1>1. slot[1] \in Ranks /\ slot[2] \in Banks
      OBVIOUS
<1>2. /\ nextRankAndBank(slot[1], slot[2])[1] \in Ranks
      /\ nextRankAndBank(slot[1], slot[2])[2] \in Banks
      BY <1>1, ConfigAssumption DEF nextRankAndBank, Ranks, Banks
<1>3. CASE AL > 0 /\ sendAct
      BY <1>1, <1>3 DEF MovePointers
<1>4. CASE ~(AL > 0 /\ sendAct)
      BY <1>2, <1>4 DEF MovePointers
<1> QED BY <1>3, <1>4

\* Replacing one queue of the table.
LEMMA QueueTableType ==
    ASSUME TypeOK, NEW r \in Ranks, NEW b \in Banks, NEW q \in Seq(BusPacket),
           Len(q) <= CMD_QUEUE_DEPTH, queues' = [queues EXCEPT ![r][b] = q]
    PROVE  /\ queues' \in [Ranks -> [Banks -> Seq(BusPacket)]]
           /\ \A i \in Ranks, j \in Banks : Len(queues'[i][j]) <= CMD_QUEUE_DEPTH
BY DEF TypeOK

\* The packets that pop may take are packets of its queue.
LEMMA PoppedType ==
    ASSUME TypeOK, NEW slot \in SlotsWithWork,
           NEW i \in Eligible(getCommandQueue(slot[1], slot[2]))
    PROVE  /\ slot \in Ranks \X Banks
           /\ i \in 1 .. Len(getCommandQueue(slot[1], slot[2]))
           /\ getCommandQueue(slot[1], slot[2]) \in Seq(BusPacket)
           /\ getCommandQueue(slot[1], slot[2])[i] \in BusPacket
<1>1. slot \in Ranks \X Banks
      BY DEF SlotsWithWork, Slots, TypeOK
<1>2. slot[1] \in Ranks /\ QueueBank(slot[2]) \in Banks
      BY <1>1, QueueBankType
<1>3. getCommandQueue(slot[1], slot[2]) \in Seq(BusPacket)
      BY <1>2 DEF TypeOK, getCommandQueue
<1>4. i \in 1 .. Len(getCommandQueue(slot[1], slot[2]))
      BY DEF Eligible
<1> QED BY <1>1, <1>3, <1>4, ElementOfSeq

\* CommandQueue::pop, the timing it imposes and the command bus keep the types.
LEMMA IssueCommandType == TypeOK /\ IssueCommand => TypeOK'
<1> SUFFICES ASSUME TypeOK, IssueCommand PROVE TypeOK'
    OBVIOUS
<1> USE DEF mcVars, rankVars, histVars
<1>1. phase' \in Phases
      BY DEF IssueCommand, Phases
<1>2. CASE SlotsWithWork = {}
      BY <1>1, <1>2 DEF TypeOK, IssueCommand, queueVars, bankVars
<1>3. CASE SlotsWithWork # {}
  <2>1. PICK slot \in SlotsWithWork :
            \E i \in Eligible(getCommandQueue(slot[1], slot[2])) : Issue(slot, i)
        BY <1>3 DEF IssueCommand
  <2>2. PICK i \in Eligible(getCommandQueue(slot[1], slot[2])) : Issue(slot, i)
        BY <2>1
  <2> DEFINE q == getCommandQueue(slot[1], slot[2])
             p == q[i]
  <2>3. /\ slot \in Ranks \X Banks /\ i \in 1 .. Len(q)
        /\ q \in Seq(BusPacket) /\ p \in BusPacket
        BY PoppedType
  <2>4. slot[1] \in Ranks /\ slot[2] \in Banks /\ QueueBank(slot[2]) \in Banks
        BY <2>3, QueueBankType
  <2>5. /\ queues' \in [Ranks -> [Banks -> Seq(BusPacket)]]
        /\ \A r \in Ranks, b \in Banks : Len(queues'[r][b]) <= CMD_QUEUE_DEPTH
    <3>1. queues' = [queues EXCEPT ![slot[1]][QueueBank(slot[2])] = RemoveAt(q, i)]
          BY <2>2, <2>4 DEF Issue, getCommandQueue, TypeOK
    <3>2. RemoveAt(q, i) \in Seq(BusPacket) /\ Len(RemoveAt(q, i)) = Len(q) - 1
          BY <2>3, RemoveAtType
    <3>3. Len(q) \in Nat /\ Len(q) <= CMD_QUEUE_DEPTH
          BY <2>3, <2>4, LenProperties DEF TypeOK, getCommandQueue
    <3>4. Len(RemoveAt(q, i)) <= CMD_QUEUE_DEPTH
          BY <3>2, <3>3, ConfigAssumption
    <3> HIDE DEF q
    <3> QED BY <3>1, <3>2, <3>4, <2>4, QueueTableType
  <2>6. nextRank' \in Ranks /\ nextBank' \in Banks /\ sendAct' \in BOOLEAN
        BY <2>2, <2>3, PointersType DEF Issue
  <2> HIDE DEF q
  <2>7. p.address \in Address /\ p.id \in Nat /\ RankOf(p) \in Ranks
        /\ BankOf(p) \in Banks
        BY <2>3, Located DEF BusPacket
  <2>8. writeDataToSend' \in Seq(TimedData)
    <3> DEFINE entry == [packet |-> [address |-> p.address, id |-> p.id,
                                     data |-> p.id], left |-> WL]
    <3>1. WL \in Int
          BY ConfigAssumption
    <3>2. entry \in TimedData
          BY <2>7, <3>1 DEF TimedData, DataPacket
    <3>3. \/ writeDataToSend' = writeDataToSend
          \/ writeDataToSend' = Append(writeDataToSend, entry)
          BY <2>2 DEF Issue, WriteData, q
    <3> HIDE DEF entry
    <3>4. writeDataToSend \in Seq(TimedData)
          BY DEF TypeOK
    <3>5. Append(writeDataToSend, entry) \in Seq(TimedData)
          BY <3>2, <3>4, AppendProperties
    <3> QED BY <3>3, <3>4, <3>5
  <2>9. currentBankState' \in [Ranks -> [Banks -> {"Idle", "RowActive"}]]
    <3>1. \/ currentBankState' = currentBankState
          \/ currentBankState' =
                 [currentBankState EXCEPT ![RankOf(p)][BankOf(p)] = "RowActive"]
          BY <2>2 DEF Issue, q
    <3> HIDE DEF p
    <3>2. currentBankState \in [Ranks -> [Banks -> {"Idle", "RowActive"}]]
          BY DEF TypeOK
    <3> QED BY <3>1, <3>2, <2>7
  <2>10. /\ nextRead' \in [Ranks -> [Banks -> Nat]]
         /\ nextWrite' \in [Ranks -> [Banks -> Nat]]
    <3>1. UpdateTiming(p)
          BY <2>2 DEF Issue, q
    <3> QED BY <3>1, <2>7, UpdateTimingType
  <2>11. error' \in Errors
         BY <2>2 DEF Issue, TypeOK, Errors
  <2>12. cmdBus' \in Seq(TimedCommand)
    <3>1. tCMD \in Int
          BY ConfigAssumption
    <3>2. [packet |-> p, left |-> tCMD] \in TimedCommand
          BY <2>3, <3>1 DEF TimedCommand
    <3>3. cmdBus' = <<[packet |-> p, left |-> tCMD]>>
          BY <2>2 DEF Issue, q
    <3> HIDE DEF p
    <3> QED BY <3>2, <3>3
  <2> QED BY <1>1, <2>5, <2>6, <2>8, <2>9, <2>10, <2>11, <2>12
          DEF TypeOK, IssueCommand
<1> QED BY <1>2, <1>3

\* A transaction becomes a command of a queue that has room for it.
LEMMA ScheduleTransactionType == TypeOK /\ ScheduleTransaction => TypeOK'
<1> SUFFICES ASSUME TypeOK, ScheduleTransaction PROVE TypeOK'
    OBVIOUS
<1> USE DEF busVars, bankVars, rankVars, histVars
<1>1. phase' \in Phases
      BY DEF ScheduleTransaction, Phases
<1>2. CASE Schedulable = {}
      BY <1>1, <1>2 DEF TypeOK, ScheduleTransaction
<1>3. CASE Schedulable # {}
  <2>1. PICK i \in Schedulable :
            /\ Enqueue(transactionQueue[i])
            /\ transactionQueue' = RemoveAt(transactionQueue, i)
            /\ pendingReadTransactions' =
                   IF transactionQueue[i].transactionType = "DATA_READ"
                   THEN Append(pendingReadTransactions, transactionQueue[i])
                   ELSE pendingReadTransactions
        BY <1>3 DEF ScheduleTransaction
  <2> DEFINE t == transactionQueue[i]
             q == getCommandQueue(RankOf(t), BankOf(t))
  <2>2. i \in 1 .. Len(transactionQueue) /\ transactionQueue \in Seq(Transaction)
        BY DEF Schedulable, TypeOK
  <2>3. t \in Transaction
        BY <2>2, ElementOfSeq
  <2>4. hasRoomFor(RankOf(t), BankOf(t))
        BY DEF Schedulable
  <2>5. /\ Enqueue(t)
        /\ \/ pendingReadTransactions' = pendingReadTransactions
           \/ pendingReadTransactions' = Append(pendingReadTransactions, t)
        BY <2>1
  <2>6. /\ transactionQueue' \in Seq(Transaction)
        /\ Len(transactionQueue') <= TRANS_QUEUE_DEPTH
    <3>1. /\ RemoveAt(transactionQueue, i) \in Seq(Transaction)
          /\ Len(RemoveAt(transactionQueue, i)) = Len(transactionQueue) - 1
          BY <2>2, RemoveAtType
    <3>2. Len(transactionQueue) \in Nat /\ Len(transactionQueue) <= TRANS_QUEUE_DEPTH
          BY <2>2, LenProperties DEF TypeOK
    <3> QED BY <3>1, <3>2, <2>1, ConfigAssumption
  <2> HIDE DEF t
  <2>7. pendingReadTransactions' \in Seq(Transaction)
    <3>1. Append(pendingReadTransactions, t) \in Seq(Transaction)
          BY <2>3, AppendProperties DEF TypeOK
    <3> QED BY <3>1, <2>5 DEF TypeOK
  <2>8. /\ t.address \in Address /\ t.id \in Nat /\ RankOf(t) \in Ranks
        /\ BankOf(t) \in Banks /\ QueueBank(BankOf(t)) \in Banks
        BY <2>3, Located, QueueBankType DEF Transaction
  <2>9. q \in Seq(BusPacket) /\ Len(q) \in Nat /\ Len(q) < CMD_QUEUE_DEPTH
        BY <2>4, <2>8, LenProperties DEF TypeOK, getCommandQueue, hasRoomFor
  <2> DEFINE p == [busPacketType |-> getBusPacketType(t),
                   address |-> t.address, id |-> t.id]
  <2>10. p \in BusPacket
         BY <2>8 DEF BusPacket, getBusPacketType, ReadPackets, WritePackets
  <2>11. queues' = [queues EXCEPT ![RankOf(t)][QueueBank(BankOf(t))] = Append(q, p)]
         BY <2>5, <2>8 DEF Enqueue, getCommandQueue, TypeOK
  <2>12. error' = error
    <3>1. error' = IF Len(q) >= CMD_QUEUE_DEPTH
                   THEN "enqueued more than allowed" ELSE error
          BY <2>5 DEF Enqueue
    <3> HIDE DEF q
    <3>2. ~(Len(q) >= CMD_QUEUE_DEPTH)
          BY <2>9, ConfigAssumption
    <3> QED BY <3>1, <3>2
  <2> HIDE DEF q, p
  <2>13. Append(q, p) \in Seq(BusPacket) /\ Len(Append(q, p)) <= CMD_QUEUE_DEPTH
         BY <2>9, <2>10, AppendProperties, ConfigAssumption
  <2>14. /\ queues' \in [Ranks -> [Banks -> Seq(BusPacket)]]
         /\ \A r \in Ranks, b \in Banks : Len(queues'[r][b]) <= CMD_QUEUE_DEPTH
         BY <2>8, <2>11, <2>13, QueueTableType
  <2> QED BY <1>1, <2>6, <2>7, <2>12, <2>14 DEF TypeOK, ScheduleTransaction
<1> QED BY <1>2, <1>3

\* The clock's tick keeps distances natural numbers.
LEMMA TickType ==
    ASSUME NEW table \in [Ranks -> [Banks -> Nat]]
    PROVE  /\ Tick(table) \in [Ranks -> [Banks -> Nat]]
           /\ \A r \in Ranks, b \in Banks : Tick(table)[r][b] >= table[r][b] - 1
<1>1. \A r \in Ranks, b \in Banks : /\ Larger(table[r][b] - 1, 0) \in Nat
                                    /\ Larger(table[r][b] - 1, 0) >= table[r][b] - 1
      BY DEF Larger
<1> QED BY <1>1 DEF Tick

\* The return of a read keeps the types.
LEMMA ReturnReadType == TypeOK /\ ReturnRead => TypeOK'
<1> SUFFICES ASSUME TypeOK, ReturnRead PROVE TypeOK'
    OBVIOUS
<1>1. phase' \in Phases
      BY DEF ReturnRead, Phases
<1>2. /\ nextRead' \in [Ranks -> [Banks -> Nat]]
      /\ nextWrite' \in [Ranks -> [Banks -> Nat]]
      BY TickType DEF ReturnRead, TypeOK
<1>3. /\ returned' \in SUBSET [id : Nat, packet : Nat, data : Nat]
      /\ pendingReadTransactions' \in Seq(Transaction)
      /\ returnTransaction' \in Seq(DataPacket)
      /\ error' \in Errors
  <2> DEFINE ret == Head(returnTransaction)
  <2>1. CASE returnTransaction = <<>>
        BY <2>1 DEF ReturnRead, TypeOK
  <2>2. CASE returnTransaction # <<>> /\ Matching(ret) = {}
        BY <2>2 DEF ReturnRead, TypeOK, Errors
  <2>3. CASE returnTransaction # <<>> /\ Matching(ret) # {}
    <3>1. PICK i \in Matching(ret) : ReturnReadData(i, ret)
          BY <2>3 DEF ReturnRead
    <3>2. returnTransaction' = Tail(returnTransaction) /\ error' = error
          BY <2>3 DEF ReturnRead
    <3>3. ret \in DataPacket /\ Tail(returnTransaction) \in Seq(DataPacket)
          BY <2>3, HeadTailProperties DEF TypeOK
    <3>4. /\ i \in 1 .. Len(pendingReadTransactions)
          /\ pendingReadTransactions \in Seq(Transaction)
          BY DEF Matching, TypeOK
    <3>5. pendingReadTransactions[i] \in Transaction
          BY <3>4, ElementOfSeq
    <3> HIDE DEF ret
    <3>6. pendingReadTransactions' \in Seq(Transaction)
          BY <3>1, <3>4, RemoveAtType DEF ReturnReadData
    <3>7. pendingReadTransactions[i].id \in Nat /\ ret.id \in Nat /\ ret.data \in Nat
          BY <3>3, <3>5 DEF Transaction, DataPacket
    <3>8. returned' \in SUBSET [id : Nat, packet : Nat, data : Nat]
      <4> DEFINE c == [id |-> pendingReadTransactions[i].id,
                       packet |-> ret.id, data |-> ret.data]
      <4>1. c \in [id : Nat, packet : Nat, data : Nat]
            BY <3>7
      <4>2. returned' = returned \cup {c}
            BY <3>1 DEF ReturnReadData
      <4> HIDE DEF c
      <4> QED BY <4>1, <4>2 DEF TypeOK
    <3> QED BY <3>2, <3>3, <3>6, <3>8 DEF TypeOK
  <2> QED BY <2>1, <2>2, <2>3
<1> QED BY <1>1, <1>2, <1>3
        DEF TypeOK, ReturnRead, busVars, queueVars, rankVars

\* Every step keeps the types.
LEMMA NextType == TypeOK /\ [Next]_vars => TypeOK'
<1> SUFFICES ASSUME TypeOK, [Next]_vars PROVE TypeOK'
    OBVIOUS
<1>1. CASE UNCHANGED vars
      BY <1>1 DEF TypeOK, vars, schedVars, mcVars, busVars, bankVars, queueVars,
                  rankVars, histVars
<1> QED BY <1>1, ArrivalType, RankUpdateType, DrainPendingType, CommandBusType,
           DataBusType, IssueCommandType, ScheduleTransactionType, ReturnReadType
        DEF Next, Cycle

\* In every channel the variables keep their types, and the transaction queue
\* and the command queues never exceed their depths: WillAcceptTransaction and
\* hasRoomFor are asked before every push_back.
THEOREM TypeCorrect == Spec => []TypeOK
BY InitType, NextType, PTL DEF Spec

(***************************************************************************)
(* The countdown lists                                                     *)
(***************************************************************************)
\* What popping a command means for the write data and the banks' timing.
LEMMA IssueEffect ==
    ASSUME TypeOK, IssueCommand
    PROVE  \/ UNCHANGED <<writeDataToSend, nextWrite, error>>
           \/ \E p \in BusPacket :
                  /\ isIssuable(p) /\ UpdateTiming(p)
                  /\ writeDataToSend' = IF p.busPacketType \in WritePackets
                                        THEN Append(writeDataToSend, WriteData(p))
                                        ELSE writeDataToSend
                  /\ error' \in {error, "command bus collision"}
<1>1. CASE SlotsWithWork = {}
      BY <1>1 DEF IssueCommand, bankVars
<1>2. CASE SlotsWithWork # {}
  <2>1. PICK slot \in SlotsWithWork :
            \E i \in Eligible(getCommandQueue(slot[1], slot[2])) : Issue(slot, i)
        BY <1>2 DEF IssueCommand
  <2>2. PICK i \in Eligible(getCommandQueue(slot[1], slot[2])) : Issue(slot, i)
        BY <2>1
  <2> DEFINE p == getCommandQueue(slot[1], slot[2])[i]
  <2>3. p \in BusPacket
        BY PoppedType
  <2>4. isIssuable(p)
        BY <2>2 DEF Eligible
  <2>5. UpdateTiming(p) /\ error' \in {error, "command bus collision"}
        BY <2>2 DEF Issue
  <2>6. writeDataToSend' = IF p.busPacketType \in WritePackets
                           THEN Append(writeDataToSend, WriteData(p))
                           ELSE writeDataToSend
        BY <2>2 DEF Issue
  <2> HIDE DEF p
  <2> QED BY <2>3, <2>4, <2>5, <2>6
<1> QED BY <1>1, <1>2

\* A write's data is a timed data packet.
LEMMA WriteDataType ==
    ASSUME NEW p \in BusPacket
    PROVE  WriteData(p) \in TimedData /\ WriteData(p).left = WL
<1>1. p.address \in Address /\ p.id \in Nat /\ WL \in Int
      BY ConfigAssumption DEF BusPacket
<1> QED BY <1>1 DEF WriteData, TimedData, DataPacket

\* A read that a rank receives joins its countdown list, RL cycles away.
LEMMA CommandEffect ==
    ASSUME TypeOK, CommandBus
    PROVE  \/ readReturn' = readReturn
           \/ \E r \in Ranks : \E x \in TimedData :
                  x.left = RL /\ readReturn' = [readReturn EXCEPT ![r] = Append(@, x)]
<1>1. CASE HeadDue(CountDown(cmdBus))
  <2> DEFINE p == cmdBus[1].packet
             x == [packet |-> [address |-> p.address, id |-> p.id,
                               data |-> BankRead(p)], left |-> RL]
  <2>1. p \in BusPacket
        BY <1>1, DueEntry DEF TypeOK, TimedCommand
  <2>2. RankReceivesCommand(p)
        BY <1>1 DEF CommandBus
  <2> HIDE DEF p
  <2>3. p.address \in Address /\ p.id \in Nat /\ RankOf(p) \in Ranks
        BY <2>1, Located DEF BusPacket
  <2>4. storage \in [Address -> Nat] /\ RL \in Int
        BY ConfigAssumption DEF TypeOK
  <2>5. BankRead(p) \in Nat
        BY <2>3, <2>4 DEF BankRead
  <2>6. x \in TimedData /\ x.left = RL
        BY <2>3, <2>4, <2>5 DEF TimedData, DataPacket
  <2>7. \/ readReturn' = readReturn
        \/ readReturn' = [readReturn EXCEPT ![RankOf(p)] = Append(@, x)]
        BY <2>2 DEF RankReceivesCommand
  <2> HIDE DEF x
  <2> QED BY <2>3, <2>6, <2>7
<1>2. CASE ~HeadDue(CountDown(cmdBus))
      BY <1>2 DEF CommandBus
<1> QED BY <1>1, <1>2

\* The lists start empty.
LEMMA InitCountdown == Init => CountdownInv
<1> SUFFICES ASSUME Init PROVE CountdownInv
    OBVIOUS
<1>1. Staggered(<<>>) /\ \A n \in Int : AtMost(<<>>, n)
      BY EmptySeq DEF Staggered, AtMost
<1>2. WL \in Int /\ RL \in Int
      BY ConfigAssumption
<1>3. writeDataToSend = <<>> /\ \A r \in Ranks : readReturn[r] = <<>>
      BY DEF Init
<1>4. phase = "ranks" /\ turn = 0
      BY DEF Init
<1> QED BY <1>1, <1>2, <1>3, <1>4 DEF CountdownInv, CountdownsStaggered

\* Rank::update counts its own list down and leaves the others alone.
LEMMA RankUpdateCountdown == TypeOK /\ CountdownInv /\ RankUpdate => CountdownInv'
<1> SUFFICES ASSUME TypeOK, CountdownInv, RankUpdate PROVE CountdownInv'
    OBVIOUS
<1>1. RL \in Int /\ WL \in Int /\ NUM_RANKS \in Nat \ {0} /\ turn \in Ranks
      BY ConfigAssumption DEF TypeOK
<1>2. writeDataToSend' = writeDataToSend /\ phase = "ranks"
      BY DEF RankUpdate, busVars, Running
<1>3. \/ phase' = "ranks" /\ turn' = turn + 1
      \/ phase' = "pending" /\ turn' = 0 /\ turn = NUM_RANKS - 1
      BY <1>2 DEF RankUpdate
<1>4. readReturn' = [readReturn EXCEPT ![turn] = EraseDue(CountDown(readReturn[turn]))]
      BY DEF RankUpdate
<1>5. ASSUME NEW r \in Ranks
      PROVE  /\ Staggered(readReturn'[r])
             /\ AtMost(readReturn'[r], IF CountedDown(r)' THEN RL - 1 ELSE RL)
  <2>1. readReturn[r] \in Seq([packet : DataPacket, left : Int])
        BY DEF TypeOK, TimedData
  <2>2. Staggered(readReturn[r])
        BY DEF CountdownInv, CountdownsStaggered
  <2>3. CASE r = turn
    <3>1. ~CountedDown(r)
          BY <1>1, <1>2, <2>3 DEF CountedDown, Ranks
    <3>2. AtMost(readReturn[r], RL)
          BY <3>1 DEF CountdownInv
    <3>3. /\ Staggered(EraseDue(CountDown(readReturn[r])))
          /\ AtMost(EraseDue(CountDown(readReturn[r])), RL - 1)
          BY <1>1, <2>1, <2>2, <3>2, PassStaggered
    <3>4. readReturn'[r] = EraseDue(CountDown(readReturn[r]))
          BY <1>4, <2>3 DEF TypeOK
    <3>5. CountedDown(r)'
          BY <1>1, <1>3, <2>3 DEF CountedDown, Ranks
    <3> QED BY <3>3, <3>4, <3>5
  <2>4. CASE r # turn
    <3>1. readReturn'[r] = readReturn[r]
          BY <1>4, <2>4 DEF TypeOK
    <3>2. CountedDown(r)' <=> CountedDown(r)
          BY <1>1, <1>2, <1>3, <2>4 DEF CountedDown, Ranks
    <3>3. AtMost(readReturn[r], IF CountedDown(r) THEN RL - 1 ELSE RL)
          BY DEF CountdownInv
    <3> QED BY <2>2, <3>1, <3>2, <3>3
  <2> QED BY <2>3, <2>4
<1>6. Staggered(writeDataToSend') /\ AtMost(writeDataToSend', IF phase' = "issue" THEN WL - 1 ELSE WL)
      BY <1>2, <1>3 DEF CountdownInv, CountdownsStaggered
<1>7. phase' # "ranks" => turn' = 0
      BY <1>3
<1> QED BY <1>5, <1>6, <1>7 DEF CountdownInv, CountdownsStaggered, Staggered, AtMost

\* A read joins its rank's list after Rank::update has counted it down.
LEMMA CommandBusCountdown == TypeOK /\ CountdownInv /\ CommandBus => CountdownInv'
<1> SUFFICES ASSUME TypeOK, CountdownInv, CommandBus PROVE CountdownInv'
    OBVIOUS
<1>1. /\ phase = "command" /\ phase' = "data" /\ turn' = turn
      /\ writeDataToSend' = writeDataToSend
      BY DEF CommandBus, Running
<1>2. RL \in Nat \ {0} /\ WL \in Int
      BY ConfigAssumption
<1>3. ASSUME NEW r \in Ranks
      PROVE  /\ readReturn[r] \in Seq([packet : DataPacket, left : Int])
             /\ Staggered(readReturn[r]) /\ AtMost(readReturn[r], RL - 1)
      BY <1>1 DEF TypeOK, TimedData, CountdownInv, CountdownsStaggered, CountedDown
<1>4. ASSUME NEW s, AtMost(s, RL - 1), NEW S, s \in Seq([packet : S, left : Int])
      PROVE  AtMost(s, RL)
  <2>1. \A i \in 1 .. Len(s) : s[i] \in [packet : S, left : Int]
        BY <1>4, ElementOfSeq
  <2>2. \A i \in 1 .. Len(s) : s[i].left \in Int
        BY <2>1
  <2> QED BY <1>2, <1>4, <2>2 DEF AtMost
<1>5. ASSUME NEW r \in Ranks
      PROVE  Staggered(readReturn'[r]) /\ AtMost(readReturn'[r], RL)
  <2>1. CASE readReturn' = readReturn
        BY <1>3, <1>4, <2>1
  <2>2. CASE \E q \in Ranks : \E x \in TimedData :
                 x.left = RL /\ readReturn' = [readReturn EXCEPT ![q] = Append(@, x)]
    <3>1. PICK q \in Ranks, x \in TimedData :
              x.left = RL /\ readReturn' = [readReturn EXCEPT ![q] = Append(@, x)]
          BY <2>2
    <3>2. CASE r = q
      <4>1. readReturn'[r] = Append(readReturn[r], x)
            BY <3>1, <3>2 DEF TypeOK
      <4>2. x \in [packet : DataPacket, left : Int]
            BY DEF TimedData
      <4> QED BY <1>2, <1>3, <3>1, <4>1, <4>2, AppendStaggered
    <3>3. CASE r # q
      <4>1. readReturn'[r] = readReturn[r]
            BY <3>1, <3>3 DEF TypeOK
      <4> QED BY <1>3, <1>4, <4>1
    <3> QED BY <3>2, <3>3
  <2> QED BY <2>1, <2>2, CommandEffect
<1>6. turn = 0 /\ Staggered(writeDataToSend) /\ AtMost(writeDataToSend, WL)
      BY <1>1 DEF CountdownInv, CountdownsStaggered
<1>7. \A r \in Ranks : ~CountedDown(r)'
      BY <1>1 DEF CountedDown
<1> QED BY <1>1, <1>5, <1>6, <1>7
        DEF CountdownInv, CountdownsStaggered, Staggered, AtMost

\* MemoryController::update counts the write data down.
LEMMA DataBusCountdown == TypeOK /\ CountdownInv /\ DataBus => CountdownInv'
<1> SUFFICES ASSUME TypeOK, CountdownInv, DataBus PROVE CountdownInv'
    OBVIOUS
<1>1. /\ phase = "data" /\ phase' = "issue" /\ turn' = turn
      /\ readReturn' = readReturn
      /\ writeDataToSend' = EraseDue(CountDown(writeDataToSend))
      BY DEF DataBus, Running
<1>2. writeDataToSend \in Seq([packet : DataPacket, left : Int]) /\ WL \in Int
      BY ConfigAssumption DEF TypeOK, TimedData
<1>3. turn = 0 /\ Staggered(writeDataToSend) /\ AtMost(writeDataToSend, WL)
      BY <1>1 DEF CountdownInv, CountdownsStaggered
<1>4. Staggered(writeDataToSend') /\ AtMost(writeDataToSend', WL - 1)
      BY <1>1, <1>2, <1>3, PassStaggered
<1>5. \A r \in Ranks : ~CountedDown(r) /\ ~CountedDown(r)'
      BY <1>1 DEF CountedDown
<1> QED BY <1>1, <1>3, <1>4, <1>5
        DEF CountdownInv, CountdownsStaggered, Staggered, AtMost

\* A write that is popped joins the list after it has been counted down.
LEMMA IssueCountdown == TypeOK /\ CountdownInv /\ IssueCommand => CountdownInv'
<1> SUFFICES ASSUME TypeOK, CountdownInv, IssueCommand PROVE CountdownInv'
    OBVIOUS
<1>1. /\ phase = "issue" /\ phase' = "schedule" /\ turn' = turn
      /\ readReturn' = readReturn
      BY DEF IssueCommand, Running, rankVars
<1>2. writeDataToSend \in Seq([packet : DataPacket, left : Int]) /\ WL \in Nat \ {0}
      BY ConfigAssumption DEF TypeOK, TimedData
<1>3. turn = 0 /\ Staggered(writeDataToSend) /\ AtMost(writeDataToSend, WL - 1)
      BY <1>1 DEF CountdownInv, CountdownsStaggered
<1>4. AtMost(writeDataToSend, WL)
  <2>1. \A i \in 1 .. Len(writeDataToSend) :
            writeDataToSend[i] \in [packet : DataPacket, left : Int]
        BY <1>2, ElementOfSeq
  <2>2. \A i \in 1 .. Len(writeDataToSend) : writeDataToSend[i].left \in Int
        BY <2>1
  <2> QED BY <1>2, <1>3, <2>2 DEF AtMost
<1>5. Staggered(writeDataToSend') /\ AtMost(writeDataToSend', WL)
  <2>1. CASE writeDataToSend' = writeDataToSend
        BY <1>3, <1>4, <2>1
  <2>2. CASE \E p \in BusPacket :
                 writeDataToSend' = Append(writeDataToSend, WriteData(p))
    <3>1. PICK p \in BusPacket :
              writeDataToSend' = Append(writeDataToSend, WriteData(p))
          BY <2>2
    <3>2. WriteData(p) \in [packet : DataPacket, left : Int] /\ WriteData(p).left = WL
          BY WriteDataType DEF TimedData
    <3> QED BY <1>2, <1>3, <3>1, <3>2, AppendStaggered
  <2> QED BY <2>1, <2>2, IssueEffect
<1>6. \A r \in Ranks : ~CountedDown(r) /\ ~CountedDown(r)'
      BY <1>1 DEF CountedDown
<1> QED BY <1>1, <1>3, <1>5, <1>6
        DEF CountdownInv, CountdownsStaggered, Staggered, AtMost

\* The steps that touch neither list.
LEMMA OtherCountdown ==
    ASSUME TypeOK, CountdownInv,
           UNCHANGED <<writeDataToSend, readReturn, turn>>,
           \/ UNCHANGED phase
           \/ phase = "pending" /\ phase' = "command"
           \/ phase = "schedule" /\ phase' = "return"
           \/ phase = "return" /\ phase' = "ranks"
    PROVE  CountdownInv'
<1>1. turn \in Ranks /\ \A r \in Ranks : ~(r < 0)
      BY ConfigAssumption DEF TypeOK, Ranks
<1>2. \A r \in Ranks : CountedDown(r)' <=> CountedDown(r)
      BY <1>1 DEF CountedDown, CountdownInv
<1>3. phase' = "issue" <=> phase = "issue"
      OBVIOUS
<1>4. phase' # "ranks" => turn' = 0
      BY DEF CountdownInv
<1> QED BY <1>2, <1>3, <1>4 DEF CountdownInv, CountdownsStaggered, Staggered, AtMost

\* Every step keeps the countdown lists staggered.
LEMMA NextCountdown == TypeOK /\ CountdownInv /\ [Next]_vars => CountdownInv'
<1> SUFFICES ASSUME TypeOK, CountdownInv, [Next]_vars PROVE CountdownInv'
    OBVIOUS
<1> USE DEF schedVars, busVars, rankVars
<1>1. CASE AddTransaction
      BY <1>1, OtherCountdown DEF AddTransaction
<1>2. CASE AddPending
      BY <1>2, OtherCountdown DEF AddPending
<1>3. CASE RankUpdate
      BY <1>3, RankUpdateCountdown
<1>4. CASE DrainPending
      BY <1>4, OtherCountdown DEF DrainPending, Running
<1>5. CASE CommandBus
      BY <1>5, CommandBusCountdown
<1>6. CASE DataBus
      BY <1>6, DataBusCountdown
<1>7. CASE IssueCommand
      BY <1>7, IssueCountdown
<1>8. CASE ScheduleTransaction
      BY <1>8, OtherCountdown DEF ScheduleTransaction, Running
<1>9. CASE ReturnRead
      BY <1>9, OtherCountdown DEF ReturnRead, Running
<1>10. CASE UNCHANGED vars
      BY <1>10, OtherCountdown DEF vars
<1> QED BY <1>1, <1>2, <1>3, <1>4, <1>5, <1>6, <1>7, <1>8, <1>9, <1>10
        DEF Next, Cycle

\* For every number of ranks, every timing and every workload, no entry of a
\* countdown list reaches zero behind the head: Rank::update and
\* MemoryController::update may test entry 0 only, and their unsigned counters
\* never wrap around.
THEOREM CountdownTheorem == Spec => []CountdownsStaggered
<1>1. CountdownInv => CountdownsStaggered
      BY DEF CountdownInv
<1> QED BY <1>1, InitType, NextType, InitCountdown, NextCountdown, PTL DEF Spec

(***************************************************************************)
(* The write data bus of a channel with one rank                           *)
(***************************************************************************)
\* What is needed of the configuration: one rank, and tCCD at least a cycle.
OneRankConfig == NUM_RANKS = 1 /\ tCCD >= 1

\* Bursts occupy the bus for at least a cycle, and two writes of a rank are at
\* least a burst apart.
LEMMA WriteDelayCoversBurst ==
    ASSUME OneRankConfig
    PROVE  /\ DataCycles \in Nat \ {0}
           /\ WRITE_TO_WRITE_DELAY >= DataCycles
<1>1. BL \in Nat \ {0} /\ tCCD \in Nat
      BY ConfigAssumption
<1>2. BurstCycles \in Nat /\ (BL > 1 => BurstCycles >= 1)
      BY <1>1 DEF BurstCycles
<1> QED BY <1>1, <1>2 DEF OneRankConfig, DataCycles, WRITE_TO_WRITE_DELAY, Larger

\* The distances in a list of timed data packets are integers.
LEMMA LeftInt ==
    ASSUME NEW s \in Seq(TimedData), NEW i \in 1 .. Len(s)
    PROVE  s[i].left \in Int
<1>1. s[i] \in TimedData
      BY ElementOfSeq
<1> QED BY <1>1 DEF TimedData

\* Both invariants and the property at once.
SpacedInv == WriteDataSpaced /\ NoDataBusCollision

\* The write data bus starts empty.
LEMMA InitSpaced == Init => SpacedInv
<1> SUFFICES ASSUME Init PROVE SpacedInv
    OBVIOUS
<1>1. /\ writeDataToSend = <<>> /\ dataBus = <<>> /\ error = "none"
      /\ Len(writeDataToSend) = 0 /\ Len(dataBus) = 0
      BY EmptySeq DEF Init
<1> QED BY <1>1 DEF SpacedInv, WriteDataSpaced, Spaced, NoDataBusCollision

\* The bus delivers its burst before the next one is due.
LEMMA DataBusSpaced ==
    OneRankConfig /\ TypeOK /\ SpacedInv /\ DataBus => SpacedInv'
<1> SUFFICES ASSUME OneRankConfig, TypeOK, SpacedInv, DataBus PROVE SpacedInv'
    OBVIOUS
<1> DEFINE w == writeDataToSend
           e == EraseDue(CountDown(w))
           D == DataCycles
<1>1. /\ phase = "data" /\ phase' = "issue" /\ w' = e
      /\ nextWrite' = nextWrite
      /\ Slack = 1 /\ Slack' = 0
      BY DEF DataBus, Running, bankVars, Slack
<1>2. /\ w \in Seq([packet : DataPacket, left : Int])
      /\ dataBus \in Seq([packet : DataPacket, left : Int])
      /\ w \in Seq(TimedData) /\ dataBus \in Seq(TimedData)
      /\ Len(w) \in Nat /\ Len(dataBus) \in Nat
      BY LenProperties DEF TypeOK, TimedData
<1>3. /\ D \in Nat \ {0} /\ WL \in Nat
      /\ \A b \in Banks : nextWrite[0][b] \in Nat
      BY WriteDelayCoversBurst, ConfigAssumption DEF TypeOK, OneRankConfig, Ranks
<1>4. PICK k \in {0, 1} :
          /\ k = 1 <=> HeadDue(CountDown(w))
          /\ Len(e) = Len(w) - k
          /\ \A i \in 1 .. Len(e) : /\ i + k \in 1 .. Len(w)
                                    /\ w[i + k].left \in Int
                                    /\ e[i].left = w[i + k].left - 1
      BY <1>2, PassOverList
<1>5. HeadDue(CountDown(w)) => Len(w) >= 1 /\ w[1].left = 1
      BY <1>2, DueEntry
<1>6. /\ \A i \in 1 .. Len(w), j \in 1 .. Len(w) : i < j => w[i].left + D <= w[j].left
      /\ \A i \in 1 .. Len(w), b \in Banks : w[i].left + D <= WL + nextWrite[0][b] + 1
      /\ Len(dataBus) <= 1
      /\ dataBus # <<>> =>
             /\ dataBus[1].left >= 1
             /\ \A i \in 1 .. Len(w) : dataBus[1].left <= w[i].left
             /\ \A b \in Banks : dataBus[1].left <= WL + nextWrite[0][b] + 1
      /\ error # "data bus collision"
      BY <1>1 DEF SpacedInv, WriteDataSpaced, Spaced, NoDataBusCollision
<1> HIDE DEF e, D
<1>7. Spaced(e)
  <2> SUFFICES ASSUME NEW i \in 1 .. Len(e), NEW j \in 1 .. Len(e), i < j
               PROVE  e[i].left + D <= e[j].left
      BY DEF Spaced, D
  <2>1. /\ i + k \in 1 .. Len(w) /\ j + k \in 1 .. Len(w) /\ i + k < j + k
        /\ w[i + k].left \in Int /\ w[j + k].left \in Int
        /\ e[i].left = w[i + k].left - 1 /\ e[j].left = w[j + k].left - 1
        BY <1>2, <1>4, SMTT(60)
  <2>2. w[i + k].left + D <= w[j + k].left
        BY <1>6, <2>1
  <2> QED BY <1>3, <2>1, <2>2, SMTT(60)
<1>8. \A i \in 1 .. Len(e), b \in Banks : e[i].left + D <= WL + nextWrite[0][b]
  <2> TAKE i \in 1 .. Len(e), b \in Banks
  <2>1. /\ i + k \in 1 .. Len(w) /\ w[i + k].left \in Int
        /\ e[i].left = w[i + k].left - 1
        BY <1>4
  <2>2. w[i + k].left + D <= WL + nextWrite[0][b] + 1
        BY <1>6, <2>1
  <2>3. nextWrite[0][b] \in Int /\ WL \in Int /\ D \in Int
        BY <1>3
  <2> DEFINE x == w[i + k].left
             n == nextWrite[0][b]
  <2>4. x \in Int /\ n \in Int /\ e[i].left = x - 1 /\ x + D <= WL + n + 1
        BY <2>1, <2>2, <2>3
  <2> HIDE DEF x, n
  <2>5. e[i].left + D <= WL + n
        BY <2>3, <2>4
  <2> QED BY <2>5 DEF n
\* What is left on the bus after its countdown.
<1> DEFINE bus == AfterCountDown(dataBus)
<1>9. bus # <<>> =>
          /\ dataBus # <<>> /\ Len(bus) <= 1 /\ dataBus[1].left >= 2
          /\ dataBus[1].left \in Int
          /\ bus[1].left = dataBus[1].left - 1
  <2> SUFFICES ASSUME bus # <<>>
               PROVE  /\ dataBus # <<>> /\ Len(bus) <= 1 /\ dataBus[1].left >= 2
                      /\ dataBus[1].left \in Int
                      /\ bus[1].left = dataBus[1].left - 1
      OBVIOUS
  <2>1. bus = CountDown(dataBus) /\ ~HeadDue(CountDown(dataBus))
        BY DEF AfterCountDown
  <2>2. /\ bus \in Seq([packet : DataPacket, left : Int]) /\ Len(bus) = Len(dataBus)
        /\ \A i \in 1 .. Len(dataBus) : bus[i].left = dataBus[i].left - 1
        BY <1>2, <2>1, CountDownType, ZenonT(60)
  <2>3. dataBus # <<>> /\ Len(dataBus) >= 1
        BY <1>2, <2>2, EmptySeq
  <2>4. 1 \in 1 .. Len(dataBus)
        BY <1>2, <2>3
  <2>5. dataBus[1].left \in Int
        BY <1>2, <2>4, LeftInt
  <2>6. bus[1].left # 0
        BY <2>1 DEF HeadDue
  <2>7. bus[1].left = dataBus[1].left - 1 /\ Len(bus) <= 1 /\ dataBus[1].left >= 1
        BY <1>6, <2>2, <2>3, <2>4
  <2> HIDE DEF bus
  <2> QED BY <2>3, <2>5, <2>6, <2>7
<1>10. \/ dataBus' = bus /\ ~HeadDue(CountDown(w)) /\ error' = error
       \/ /\ HeadDue(CountDown(w)) /\ Len(dataBus') = 1 /\ dataBus'[1].left = D
          /\ error' = IF bus # <<>> THEN "data bus collision" ELSE error
  <2>1. CASE HeadDue(CountDown(w))
    <3> DEFINE x == [packet |-> CountDown(w)[1].packet, left |-> DataCycles]
    <3>1. dataBus' = <<x>>
          BY <2>1 DEF DataBus
    <3>2. error' = IF bus # <<>> THEN "data bus collision" ELSE error
          BY <2>1 DEF DataBus
    <3>3. x.left = D
          BY DEF D
    <3> HIDE DEF x
    <3>4. Len(dataBus') = 1 /\ dataBus'[1] = x
          BY <3>1
    <3> QED BY <2>1, <3>2, <3>3, <3>4
  <2>2. CASE ~HeadDue(CountDown(w))
        BY <2>2 DEF DataBus
  <2> QED BY <2>1, <2>2
<1>11. HeadDue(CountDown(w)) => bus = <<>>
  <2> SUFFICES ASSUME HeadDue(CountDown(w)), bus # <<>> PROVE FALSE
      OBVIOUS
  <2>1. 1 \in 1 .. Len(w) /\ w[1].left = 1
        BY <1>2, <1>5
  <2>2. dataBus # <<>> /\ dataBus[1].left >= 2 /\ dataBus[1].left \in Int
        BY <1>9
  <2>3. dataBus[1].left <= w[1].left
        BY <1>6, <2>1, <2>2
  <2> HIDE DEF bus, w
  <2> QED BY <2>1, <2>2, <2>3
<1>12. error' # "data bus collision" /\ Len(dataBus') <= 1
  <2>1. error # "data bus collision"
        BY <1>6
  <2>2. Len(bus) <= 1
    <3>1. CASE bus = <<>>
          BY <3>1
    <3>2. CASE bus # <<>>
          BY <3>2, <1>9
    <3> QED BY <3>1, <3>2
  <2> HIDE DEF bus, w
  <2>3. CASE HeadDue(CountDown(w))
    <3>1. bus = <<>>
          BY <1>11, <2>3
    <3>2. error' = IF bus # <<>> THEN "data bus collision" ELSE error
          BY <1>10, <2>3
    <3>3. error' = error
          BY <3>1, <3>2
    <3>4. Len(dataBus') = 1
          BY <1>10, <2>3
    <3>5. Len(dataBus') <= 1
          BY <3>4
    <3> QED BY <2>1, <3>3, <3>5
  <2>4. CASE ~HeadDue(CountDown(w))
    <3>1. dataBus' = bus /\ error' = error
          BY <1>10, <2>4
    <3> QED BY <2>1, <2>2, <3>1
  <2> QED BY <2>3, <2>4
<1>13. ASSUME dataBus' # <<>>
       PROVE  /\ dataBus'[1].left >= 1
              /\ \A i \in 1 .. Len(e) : dataBus'[1].left <= e[i].left
              /\ \A b \in Banks : dataBus'[1].left <= WL + nextWrite[0][b]
  <2>1. CASE dataBus' = bus /\ ~HeadDue(CountDown(w))
    <3>1. /\ dataBus # <<>> /\ dataBus[1].left >= 2 /\ dataBus[1].left \in Int
          /\ dataBus'[1].left = dataBus[1].left - 1
          BY <1>9, <1>13, <2>1
    <3>2. \A i \in 1 .. Len(e) : dataBus'[1].left <= e[i].left
      <4> TAKE i \in 1 .. Len(e)
      <4>1. /\ i + k \in 1 .. Len(w) /\ w[i + k].left \in Int
            /\ e[i].left = w[i + k].left - 1
            BY <1>4
      <4>2. dataBus[1].left <= w[i + k].left
            BY <1>6, <3>1, <4>1
      <4> QED BY <3>1, <4>1, <4>2
    <3>3. \A b \in Banks : dataBus'[1].left <= WL + nextWrite[0][b]
      <4> TAKE b \in Banks
      <4>1. dataBus[1].left <= WL + nextWrite[0][b] + 1
            BY <1>6, <3>1
      <4>2. nextWrite[0][b] \in Int /\ WL \in Int
            BY <1>3
      <4> QED BY <3>1, <4>1, <4>2
    <3> QED BY <3>1, <3>2, <3>3
  <2>2. CASE HeadDue(CountDown(w)) /\ dataBus'[1].left = D
    <3>1. k = 1 /\ 1 \in 1 .. Len(w) /\ w[1].left = 1
          BY <1>2, <1>4, <1>5, <2>2
    <3>2. \A i \in 1 .. Len(e) : D <= e[i].left
      <4> TAKE i \in 1 .. Len(e)
      <4>1. /\ i + 1 \in 1 .. Len(w) /\ w[i + 1].left \in Int /\ 1 < i + 1
            /\ e[i].left = w[i + 1].left - 1
            BY <1>4, <3>1
      <4>2. w[1].left + D <= w[i + 1].left
            BY <1>6, <3>1, <4>1
      <4> QED BY <1>3, <3>1, <4>1, <4>2
    <3>3. \A b \in Banks : D <= WL + nextWrite[0][b]
      <4> TAKE b \in Banks
      <4>1. w[1].left + D <= WL + nextWrite[0][b] + 1
            BY <1>6, <3>1
      <4> QED BY <1>3, <3>1, <4>1
    <3> QED BY <1>3, <2>2, <3>2, <3>3
  <2> QED BY <1>10, <2>1, <2>2
<1>14. \A b \in Banks : WL + nextWrite[0][b] + Slack' = WL + nextWrite[0][b]
       BY <1>1, <1>3
<1> QED BY <1>1, <1>7, <1>8, <1>12, <1>13, <1>14
        DEF SpacedInv, WriteDataSpaced, NoDataBusCollision, Spaced, D

\* A write is popped only when nextWrite has come: a burst after the others.
LEMMA IssueSpaced ==
    OneRankConfig /\ TypeOK /\ SpacedInv /\ IssueCommand => SpacedInv'
<1> SUFFICES ASSUME OneRankConfig, TypeOK, SpacedInv, IssueCommand PROVE SpacedInv'
    OBVIOUS
<1> DEFINE w == writeDataToSend
           D == DataCycles
<1>1. phase = "issue" /\ phase' = "schedule" /\ dataBus' = dataBus
      /\ Slack = 0 /\ Slack' = 0
      BY DEF IssueCommand, Running, Slack
<1>2. /\ w \in Seq(TimedData) /\ Len(w) \in Nat
      /\ dataBus \in Seq(TimedData) /\ Len(dataBus) \in Nat
      BY LenProperties DEF TypeOK
<1>3. /\ D \in Nat \ {0} /\ WL \in Nat \ {0} /\ WRITE_TO_WRITE_DELAY >= D
      /\ \A b \in Banks : nextWrite[0][b] \in Nat
      /\ 0 \in Ranks /\ \A r \in Ranks : r = 0
      BY WriteDelayCoversBurst, ConfigAssumption DEF TypeOK, OneRankConfig, Ranks
<1>4. \A i \in 1 .. Len(w) : w[i].left \in Int
      BY <1>2, LeftInt
<1>5. dataBus # <<>> => dataBus[1].left \in Int
  <2>1. dataBus # <<>> => 1 \in 1 .. Len(dataBus)
        BY <1>2, EmptySeq
  <2> QED BY <1>2, <2>1, LeftInt
<1>6. /\ \A i \in 1 .. Len(w), j \in 1 .. Len(w) : i < j => w[i].left + D <= w[j].left
      /\ \A i \in 1 .. Len(w), b \in Banks : w[i].left + D <= WL + nextWrite[0][b]
      /\ Len(dataBus) <= 1
      /\ dataBus # <<>> =>
             /\ dataBus[1].left >= 1
             /\ \A i \in 1 .. Len(w) : dataBus[1].left <= w[i].left
             /\ \A b \in Banks : dataBus[1].left <= WL + nextWrite[0][b]
      /\ error # "data bus collision"
  <2>1. \A b \in Banks : WL + nextWrite[0][b] + Slack = WL + nextWrite[0][b]
        BY <1>1, <1>3
  <2> QED BY <2>1 DEF SpacedInv, WriteDataSpaced, Spaced, NoDataBusCollision
<1> HIDE DEF D
<1>7. CASE UNCHANGED <<writeDataToSend, nextWrite, error>>
      BY <1>1, <1>7
         DEF SpacedInv, WriteDataSpaced, Spaced, NoDataBusCollision
<1>8. ASSUME NEW p \in BusPacket, isIssuable(p), UpdateTiming(p),
             writeDataToSend' = IF p.busPacketType \in WritePackets
                                THEN Append(writeDataToSend, WriteData(p))
                                ELSE writeDataToSend,
             error' \in {error, "command bus collision"}
      PROVE  SpacedInv'
  <2>1. RankOf(p) = 0 /\ RankOf(p) \in Ranks /\ BankOf(p) \in Banks
    <3>1. p.address \in Address
          BY DEF BusPacket
    <3> QED BY <1>3, <3>1, Located
  <2>2. nextWrite \in [Ranks -> [Banks -> Nat]]
        BY DEF TypeOK
  <2>3. nextWrite' \in [Ranks -> [Banks -> Nat]]
        BY <1>8, <2>1, UpdateTimingType
  <2>4. /\ \A b \in Banks : nextWrite'[0][b] \in Nat /\ nextWrite'[0][b] >= nextWrite[0][b]
        /\ p.busPacketType \in WritePackets =>
               \A b \in Banks : nextWrite'[0][b] >= WRITE_TO_WRITE_DELAY
    <3>1. \A same, other \in Nat : \A b \in Banks :
              /\ Delay(nextWrite, 0, same, other)[0][b] >= nextWrite[0][b]
              /\ Delay(nextWrite, 0, same, other)[0][b] >= same
          BY <1>3, <2>2, DelayType
    <3>2. CASE p.busPacketType \in WritePackets
      <4>1. p.busPacketType \notin ReadPackets
            BY <3>2 DEF ReadPackets, WritePackets
      <4>2. nextWrite' = Delay(nextWrite, 0, WRITE_TO_WRITE_DELAY, RANK_TO_RANK_DELAY)
            BY <1>8, <2>1, <4>1 DEF UpdateTiming
      <4> QED BY <1>3, <2>3, <3>1, <4>2, DelaysNat
    <3>3. CASE p.busPacketType \notin WritePackets
      <4>1. p.busPacketType \in ReadPackets
            BY <3>3 DEF BusPacket
      <4>2. nextWrite' = Delay(nextWrite, 0, READ_TO_WRITE_DELAY, READ_TO_WRITE_DELAY)
            BY <1>8, <2>1, <4>1 DEF UpdateTiming
      <4> QED BY <1>3, <2>3, <3>1, <3>3, <4>2, DelaysNat
    <3> QED BY <3>2, <3>3
  <2>5. error' # "data bus collision"
        BY <1>6, <1>8
  <2>6. \A i \in 1 .. Len(w), b \in Banks : w[i].left + D <= WL + nextWrite'[0][b]
    <3> TAKE i \in 1 .. Len(w), b \in Banks
    <3>1. w[i].left + D <= WL + nextWrite[0][b] /\ w[i].left \in Int
          BY <1>4, <1>6
    <3>2. /\ nextWrite'[0][b] >= nextWrite[0][b]
          /\ nextWrite'[0][b] \in Int /\ nextWrite[0][b] \in Int
          BY <1>3, <2>4
    <3> DEFINE m == nextWrite[0][b]
               n == nextWrite'[0][b]
               x == w[i].left
    <3>3. x + D <= WL + m /\ x \in Int /\ n >= m /\ n \in Int /\ m \in Int
          BY <3>1, <3>2
    <3> HIDE DEF m, n, x
    <3>4. x + D <= WL + n
          BY <1>3, <3>3
    <3> QED BY <3>4 DEF x, n
  <2>7. dataBus # <<>> => \A b \in Banks : dataBus[1].left <= WL + nextWrite'[0][b]
    <3> SUFFICES ASSUME dataBus # <<>>, NEW b \in Banks
                 PROVE  dataBus[1].left <= WL + nextWrite'[0][b]
        OBVIOUS
    <3> DEFINE m == nextWrite[0][b]
               n == nextWrite'[0][b]
               d == dataBus[1].left
    <3>1. /\ d <= WL + m /\ d \in Int
          /\ n >= m /\ n \in Int /\ m \in Int
      <4>1. d <= WL + m
            BY <1>6
      <4>2. d \in Int
            BY <1>5
      <4>3. n >= m /\ n \in Int /\ m \in Int
            BY <1>3, <2>4
      <4> QED BY <4>1, <4>2, <4>3
    <3> HIDE DEF m, n, d
    <3>2. d <= WL + n
          BY <1>3, <3>1
    <3> QED BY <3>2 DEF d, n
  <2>8. \A b \in Banks : WL + nextWrite'[0][b] + Slack' = WL + nextWrite'[0][b]
        BY <1>1, <1>3, <2>4
  <2>9. CASE p.busPacketType \notin WritePackets
    <3>1. writeDataToSend' = writeDataToSend
          BY <1>8, <2>9
    <3> QED BY <1>1, <1>6, <2>5, <2>6, <2>7, <2>8, <3>1
            DEF SpacedInv, WriteDataSpaced, Spaced, NoDataBusCollision, D
  <2>10. CASE p.busPacketType \in WritePackets
    <3> DEFINE a == Append(w, WriteData(p))
    <3>1. WriteData(p) \in TimedData /\ WriteData(p).left = WL
          BY WriteDataType
    <3>2. /\ Len(a) = Len(w) + 1 /\ a[Len(w) + 1] = WriteData(p)
          /\ \A i \in 1 .. Len(w) : a[i] = w[i]
          BY <1>2, <3>1, AppendProperties
    <3>3. writeDataToSend' = a
          BY <1>8, <2>10
    <3> HIDE DEF a
    <3>4. nextWrite[0][BankOf(p)] = 0
          BY <1>8, <2>1, <2>10 DEF isIssuable
    <3>5. \A i \in 1 .. Len(w) : w[i].left + D <= WL
      <4> TAKE i \in 1 .. Len(w)
      <4>1. w[i].left + D <= WL + nextWrite[0][BankOf(p)]
            BY <1>6, <2>1
      <4> QED BY <1>3, <3>4, <4>1
    <3>6. dataBus # <<>> => dataBus[1].left <= WL
      <4> SUFFICES ASSUME dataBus # <<>> PROVE dataBus[1].left <= WL
          OBVIOUS
      <4>1. dataBus[1].left <= WL + nextWrite[0][BankOf(p)]
            BY <1>6, <2>1
      <4> QED BY <1>3, <3>4, <4>1
    <3>7. \A i \in 1 .. Len(a) : \/ i \in 1 .. Len(w) /\ a[i] = w[i]
                                 \/ i = Len(w) + 1 /\ a[i].left = WL
          BY <1>2, <3>1, <3>2
    <3>8. ASSUME NEW i \in 1 .. Len(a), NEW j \in 1 .. Len(a), i < j
          PROVE  a[i].left + D <= a[j].left
      <4>1. i \in 1 .. Len(w) /\ a[i] = w[i]
            BY <1>2, <3>2, <3>7, <3>8
      <4>2. CASE j = Len(w) + 1 /\ a[j].left = WL
            BY <3>5, <4>1, <4>2
      <4>3. CASE j \in 1 .. Len(w) /\ a[j] = w[j]
            BY <1>6, <3>8, <4>1, <4>3
      <4> QED BY <3>7, <4>2, <4>3
    <3>9. ASSUME NEW i \in 1 .. Len(a), NEW b \in Banks
          PROVE  a[i].left + D <= WL + nextWrite'[0][b]
      <4>1. CASE i \in 1 .. Len(w) /\ a[i] = w[i]
            BY <2>6, <4>1
      <4>2. CASE i = Len(w) + 1 /\ a[i].left = WL
        <5>1. nextWrite'[0][b] >= WRITE_TO_WRITE_DELAY /\ nextWrite'[0][b] \in Nat
              BY <2>4, <2>10
        <5> DEFINE n == nextWrite'[0][b]
        <5>2. n >= D /\ n \in Nat
              BY <1>3, <5>1, DelaysNat
        <5> HIDE DEF n
        <5>3. WL + D <= WL + n
              BY <1>3, <5>2
        <5> QED BY <4>2, <5>3 DEF n
      <4> QED BY <3>7, <4>1, <4>2
    <3>10. dataBus # <<>> => \A i \in 1 .. Len(a) : dataBus[1].left <= a[i].left
           BY <1>6, <3>6, <3>7
    <3> QED BY <1>1, <1>6, <2>5, <2>7, <2>8, <3>3, <3>8, <3>9, <3>10
            DEF SpacedInv, WriteDataSpaced, Spaced, NoDataBusCollision, D
  <2> QED BY <2>9, <2>10
<1> QED BY <1>7, <1>8, IssueEffect

\* The clock's tick brings every write one cycle nearer.
LEMMA ReturnReadSpaced ==
    OneRankConfig /\ TypeOK /\ SpacedInv /\ ReturnRead => SpacedInv'
<1> SUFFICES ASSUME OneRankConfig, TypeOK, SpacedInv, ReturnRead PROVE SpacedInv'
    OBVIOUS
<1> DEFINE w == writeDataToSend
           D == DataCycles
<1>1. /\ phase = "return" /\ phase' = "ranks" /\ dataBus' = dataBus /\ w' = w
      /\ Slack = 0 /\ Slack' = 1 /\ nextWrite' = Tick(nextWrite)
      BY DEF ReturnRead, Running, Slack, busVars
<1>2. /\ w \in Seq(TimedData)
      /\ dataBus \in Seq(TimedData) /\ Len(dataBus) \in Nat
      BY LenProperties DEF TypeOK
<1>3. D \in Int /\ WL \in Int /\ 0 \in Ranks
      BY WriteDelayCoversBurst, ConfigAssumption DEF OneRankConfig, Ranks
<1>4. nextWrite \in [Ranks -> [Banks -> Nat]]
      BY DEF TypeOK
<1>5. ASSUME NEW b \in Banks, NEW x \in Int, x <= WL + nextWrite[0][b] + Slack
      PROVE  x <= WL + nextWrite'[0][b] + Slack'
  <2> DEFINE m == nextWrite[0][b]
             n == nextWrite'[0][b]
  <2>1. n >= m - 1 /\ n \in Int /\ m \in Int
        BY <1>1, <1>3, <1>4, TickType
  <2>2. x <= WL + m + Slack
        BY <1>5
  <2> HIDE DEF m, n
  <2>3. x <= WL + n + Slack'
        BY <1>1, <1>3, <1>5, <2>1, <2>2
  <2> QED BY <2>3 DEF n
<1>6. ASSUME NEW i \in 1 .. Len(w), NEW b \in Banks
      PROVE  w[i].left + D <= WL + nextWrite'[0][b] + Slack'
  <2>1. w[i].left + D <= WL + nextWrite[0][b] + Slack
        BY DEF SpacedInv, WriteDataSpaced
  <2>2. w[i].left \in Int
        BY <1>2, LeftInt
  <2>3. w[i].left + D \in Int
        BY <1>3, <2>2
  <2> QED BY <1>5, <2>1, <2>3
<1>7. ASSUME dataBus # <<>>, NEW b \in Banks
      PROVE  dataBus[1].left <= WL + nextWrite'[0][b] + Slack'
  <2>1. 1 \in 1 .. Len(dataBus)
        BY <1>2, <1>7, EmptySeq
  <2>2. dataBus[1].left \in Int
        BY <1>2, <2>1, LeftInt
  <2>3. dataBus[1].left <= WL + nextWrite[0][b] + Slack
        BY <1>7 DEF SpacedInv, WriteDataSpaced
  <2> QED BY <1>5, <2>2, <2>3
<1>8. error' # "data bus collision"
      BY DEF ReturnRead, SpacedInv, NoDataBusCollision
<1> QED BY <1>1, <1>6, <1>7, <1>8
        DEF SpacedInv, WriteDataSpaced, Spaced, NoDataBusCollision

\* The steps that touch neither the write data nor the timing.
LEMMA OtherSpaced ==
    ASSUME SpacedInv, UNCHANGED <<writeDataToSend, dataBus, nextWrite>>,
           Slack' = Slack, error' # "data bus collision"
    PROVE  SpacedInv'
BY DEF SpacedInv, WriteDataSpaced, Spaced, NoDataBusCollision

\* Every step of a channel with one rank keeps the write data spaced.
LEMMA NextSpaced ==
    OneRankConfig /\ TypeOK /\ SpacedInv /\ [Next]_vars => SpacedInv'
<1> SUFFICES ASSUME OneRankConfig, TypeOK, SpacedInv, [Next]_vars PROVE SpacedInv'
    OBVIOUS
<1> USE DEF schedVars, busVars, bankVars
<1>1. error # "data bus collision"
      BY DEF SpacedInv, NoDataBusCollision
<1>2. CASE AddTransaction
      BY <1>1, <1>2, OtherSpaced DEF AddTransaction, Slack
<1>3. CASE AddPending
      BY <1>1, <1>3, OtherSpaced DEF AddPending, Slack
<1>4. CASE RankUpdate
      BY <1>1, <1>4, OtherSpaced DEF RankUpdate, Running, Slack
<1>5. CASE DrainPending
      BY <1>1, <1>5, OtherSpaced DEF DrainPending, Running, Slack
<1>6. CASE CommandBus
      BY <1>1, <1>6, OtherSpaced
         DEF CommandBus, RankReceivesCommand, Running, Slack
<1>7. CASE DataBus
      BY <1>7, DataBusSpaced
<1>8. CASE IssueCommand
      BY <1>8, IssueSpaced
<1>9. CASE ScheduleTransaction
      BY <1>1, <1>9, OtherSpaced
         DEF ScheduleTransaction, Enqueue, Running, Slack
<1>10. CASE ReturnRead
      BY <1>10, ReturnReadSpaced
<1>11. CASE UNCHANGED vars
      BY <1>1, <1>11, OtherSpaced DEF vars, Slack
<1> QED BY <1>2, <1>3, <1>4, <1>5, <1>6, <1>7, <1>8, <1>9, <1>10, <1>11
        DEF Next, Cycle

\* A channel with one rank never ends in "== Error - Data Bus Collision"
\* (MemoryController::update), whatever its burst length, latencies, queues and
\* policies: WRITE_TO_WRITE_DELAY alone keeps the bursts apart, at the distances
\* WriteDataSpaced names.  With two ranks this is false (run two_ranks).
THEOREM NoCollisionOnOneRank ==
    ASSUME OneRankConfig
    PROVE  Spec => []WriteDataSpaced /\ []NoDataBusCollision
<1>1. TypeOK /\ SpacedInv /\ [Next]_vars => SpacedInv'
      BY NextSpaced
<1>2. SpacedInv => WriteDataSpaced /\ NoDataBusCollision
      BY DEF SpacedInv
<1> QED BY <1>1, <1>2, InitType, NextType, InitSpaced, PTL DEF Spec

(***************************************************************************)
(* Lists in the order of acceptance                                        *)
(***************************************************************************)
\* What erase leaves: the other entries, in their order.
LEMMA RemainingEntries ==
    ASSUME NEW S, NEW s \in Seq(S), NEW p \in 1 .. Len(s)
    PROVE  /\ \A k \in 1 .. Len(RemoveAt(s, p)) :
                  \E i \in 1 .. Len(s) : i # p /\ RemoveAt(s, p)[k] = s[i]
           /\ \A i \in 1 .. Len(s) : i # p =>
                  \E k \in 1 .. Len(RemoveAt(s, p)) : RemoveAt(s, p)[k] = s[i]
<1>1. Len(RemoveAt(s, p)) = Len(s) - 1
      BY RemoveAtProperties
<1>a. Erased(s, RemoveAt(s, p), p)
      BY RemoveAtErases
<1>2. PICK m \in [1 .. Len(s) - 1 -> 1 .. Len(s)] :
        /\ \A k \in 1 .. Len(s) - 1 : m[k] # p /\ RemoveAt(s, p)[k] = s[m[k]]
        /\ \A j, k \in 1 .. Len(s) - 1 : j < k <=> m[j] < m[k]
        /\ \A i \in 1 .. Len(s) : i # p => \E k \in 1 .. Len(s) - 1 : m[k] = i
      BY ONLY <1>a, Zenon DEF Erased
<1>3. ASSUME NEW k \in 1 .. Len(s) - 1
      PROVE  \E i \in 1 .. Len(s) : i # p /\ RemoveAt(s, p)[k] = s[i]
      BY <1>2
<1>4. ASSUME NEW i \in 1 .. Len(s), i # p
      PROVE  \E k \in 1 .. Len(s) - 1 : RemoveAt(s, p)[k] = s[i]
  <2>1. PICK k \in 1 .. Len(s) - 1 : m[k] = i
        BY <1>2, <1>4
  <2> QED BY <1>2, <2>1
<1> QED BY <1>1, <1>3, <1>4

LEMMA RemainingIncreasing ==
    ASSUME NEW S, NEW s \in Seq(S), Increasing(s), NEW p \in 1 .. Len(s)
    PROVE  Increasing(RemoveAt(s, p))
<1>1. Len(RemoveAt(s, p)) = Len(s) - 1
      BY RemoveAtProperties
<1>a. Erased(s, RemoveAt(s, p), p)
      BY RemoveAtErases
<1>2. PICK m \in [1 .. Len(s) - 1 -> 1 .. Len(s)] :
        /\ \A k \in 1 .. Len(s) - 1 : m[k] # p /\ RemoveAt(s, p)[k] = s[m[k]]
        /\ \A j, k \in 1 .. Len(s) - 1 : j < k <=> m[j] < m[k]
        /\ \A i \in 1 .. Len(s) : i # p => \E k \in 1 .. Len(s) - 1 : m[k] = i
      BY ONLY <1>a, Zenon DEF Erased
<1> SUFFICES ASSUME NEW j \in 1 .. Len(s) - 1, NEW k \in 1 .. Len(s) - 1, j < k
             PROVE  RemoveAt(s, p)[j].id < RemoveAt(s, p)[k].id
    BY <1>1 DEF Increasing
<1>3. m[j] \in 1 .. Len(s) /\ m[k] \in 1 .. Len(s) /\ m[j] < m[k]
      BY <1>2
<1>4. s[m[j]].id < s[m[k]].id
      BY <1>3 DEF Increasing
<1>5. RemoveAt(s, p)[j] = s[m[j]] /\ RemoveAt(s, p)[k] = s[m[k]]
      BY <1>2
<1> QED BY <1>4, <1>5

LEMMA AppendedIncreasing ==
    ASSUME NEW S, NEW s \in Seq(S), Increasing(s), NEW x \in S,
           \A i \in 1 .. Len(s) : s[i].id < x.id
    PROVE  Increasing(Append(s, x))
<1>1. /\ Len(Append(s, x)) = Len(s) + 1 /\ Append(s, x)[Len(s) + 1] = x /\ Len(s) \in Nat
      /\ \A i \in 1 .. Len(s) : Append(s, x)[i] = s[i]
      BY AppendProperties, LenProperties
<1> SUFFICES ASSUME NEW i \in 1 .. Len(s) + 1, NEW j \in 1 .. Len(s) + 1, i < j
             PROVE  Append(s, x)[i].id < Append(s, x)[j].id
    BY <1>1 DEF Increasing
<1>2. i \in 1 .. Len(s)
      BY <1>1
<1>3. CASE j = Len(s) + 1
      BY <1>1, <1>2, <1>3
<1>4. CASE j # Len(s) + 1
  <2>1. j \in 1 .. Len(s)
        BY <1>1, <1>4
  <2> QED BY <1>1, <1>2, <2>1 DEF Increasing
<1> QED BY <1>3, <1>4

\* Equal numbers are at equal places.
LEMMA IncreasingUnique ==
    ASSUME NEW S, NEW s \in Seq(S), \A i \in 1 .. Len(s) : s[i].id \in Nat, Increasing(s),
           NEW i \in 1 .. Len(s), NEW j \in 1 .. Len(s), s[i].id = s[j].id
    PROVE  i = j
<1>1. s[i].id \in Nat /\ s[j].id \in Nat
      OBVIOUS
<1>2. ~(i < j) /\ ~(j < i)
      BY <1>1 DEF Increasing
<1> QED BY <1>2

(***************************************************************************)
(* What the actions do to the queues                                       *)
(***************************************************************************)
\* IssueCommand pops packet i of the queue of r and b.
Pops(r, b, i) ==
    LET q == queues[r][b]
        p == queues[r][b][i]
    IN
    /\ i \in Eligible(q) /\ \A j \in Eligible(q) : i <= j
    /\ queues' = [queues EXCEPT ![r][b] = RemoveAt(q, i)]
    /\ writeDataToSend' = IF p.busPacketType \in WritePackets
                          THEN Append(writeDataToSend, WriteData(p)) ELSE writeDataToSend
    /\ UpdateTiming(p)
    /\ error' = IF cmdBus # <<>> THEN "command bus collision" ELSE error
    /\ cmdBus' = <<[packet |-> p, left |-> tCMD]>>

LEMMA IssueMeans ==
    ASSUME TypeOK, IssueCommand
    PROVE  \/ UNCHANGED <<queues, cmdBus, writeDataToSend, bankVars, error>>
           \/ \E r \in Ranks, b \in Banks : \E i \in 1 .. Len(queues[r][b]) : Pops(r, b, i)
<1>1. CASE SlotsWithWork = {}
      BY <1>1 DEF IssueCommand, queueVars
<1>2. CASE SlotsWithWork # {}
  <2> DEFINE Q(s) == getCommandQueue(s[1], s[2])
  <2>1. PICK slot \in SlotsWithWork :
            \E i \in Eligible(Q(slot)) : /\ \A j \in Eligible(Q(slot)) : i <= j
                                         /\ Issue(slot, i)
        BY <1>2 DEF IssueCommand
  <2>2. PICK i \in Eligible(Q(slot)) : /\ \A j \in Eligible(Q(slot)) : i <= j
                                       /\ Issue(slot, i)
        BY <2>1
  <2>3. /\ slot \in Ranks \X Banks /\ i \in 1 .. Len(Q(slot))
        BY PoppedType
  <2>4. slot[1] \in Ranks /\ QueueBank(slot[2]) \in Banks
        BY <2>3, QueueBankType
  <2>5. PICK r \in Ranks, b \in Banks : r = slot[1] /\ b = QueueBank(slot[2])
        BY <2>4
  <2>6. Q(slot) = queues[r][b]
        BY <2>5 DEF getCommandQueue
  <2>7. queues' = [queues EXCEPT ![r][b] = RemoveAt(queues[r][b], i)]
        BY <2>2, <2>5, <2>6 DEF Issue, TypeOK
  <2>8. Pops(r, b, i)
        BY <2>2, <2>6, <2>7 DEF Pops, Issue
  <2> QED BY <2>3, <2>6, <2>8
<1> QED BY <1>1, <1>2

\* What a transaction becomes.
CommandOf(t) == [busPacketType |-> getBusPacketType(t), address |-> t.address, id |-> t.id]

LEMMA CommandOfType ==
    ASSUME NEW t \in Transaction
    PROVE  /\ CommandOf(t) \in BusPacket
           /\ CommandOf(t).address = t.address /\ CommandOf(t).id = t.id
           /\ IsReadPacket(CommandOf(t)) <=> t.transactionType = "DATA_READ"
           /\ SlotOf(CommandOf(t)) = SlotOf(t)
<1>1. /\ t.address \in Address /\ t.id \in Nat /\ t.transactionType \in TransactionType
      BY DEF Transaction
<1>2. /\ getBusPacketType(t) \in ReadPackets \cup WritePackets
      /\ getBusPacketType(t) \in ReadPackets <=> t.transactionType = "DATA_READ"
      BY ConfigAssumption DEF getBusPacketType, ReadPackets, WritePackets
<1>3. CommandOf(t) \in BusPacket
      BY <1>1, <1>2 DEF CommandOf, BusPacket
<1> QED BY <1>1, <1>2, <1>3 DEF CommandOf, IsReadPacket, SlotOf, RankOf, BankOf

\* ScheduleTransaction takes transaction i.
Schedules(i) ==
    LET t == transactionQueue[i] IN
    /\ \A j \in Schedulable : i <= j
    /\ hasRoomFor(RankOf(t), BankOf(t))
    /\ queues' = [queues EXCEPT ![RankOf(t)][QueueBank(BankOf(t))] =
                     Append(queues[RankOf(t)][QueueBank(BankOf(t))], CommandOf(t))]
    /\ error' = error
    /\ transactionQueue' = RemoveAt(transactionQueue, i)
    /\ pendingReadTransactions' = IF t.transactionType = "DATA_READ"
                                  THEN Append(pendingReadTransactions, t)
                                  ELSE pendingReadTransactions

LEMMA ScheduleMeans ==
    ASSUME TypeOK, ScheduleTransaction
    PROVE  \/ UNCHANGED <<queues, error, transactionQueue, pendingReadTransactions>>
           \/ \E i \in 1 .. Len(transactionQueue) : Schedules(i)
<1>1. CASE Schedulable = {}
      BY <1>1 DEF ScheduleTransaction
<1>2. CASE Schedulable # {}
  <2>1. PICK i \in Schedulable :
            /\ \A j \in Schedulable : i <= j
            /\ Enqueue(transactionQueue[i])
            /\ transactionQueue' = RemoveAt(transactionQueue, i)
            /\ pendingReadTransactions' =
                   IF transactionQueue[i].transactionType = "DATA_READ"
                   THEN Append(pendingReadTransactions, transactionQueue[i])
                   ELSE pendingReadTransactions
        BY <1>2 DEF ScheduleTransaction
  <2> DEFINE t == transactionQueue[i]
  <2>2. i \in 1 .. Len(transactionQueue) /\ hasRoomFor(RankOf(t), BankOf(t))
        BY DEF Schedulable
  <2>3. t \in Transaction
        BY <2>2, ElementOfSeq DEF TypeOK
  <2>4. RankOf(t) \in Ranks /\ BankOf(t) \in Banks
        BY <2>3, Located DEF Transaction
  <2>5. QueueBank(BankOf(t)) \in Banks
        BY <2>4, QueueBankType
  <2>6. Len(getCommandQueue(RankOf(t), BankOf(t))) \in Nat
        BY <2>4, <2>5, LenProperties DEF TypeOK, getCommandQueue
  <2>7. error' = error
    <3>1. ~(Len(getCommandQueue(RankOf(t), BankOf(t))) >= CMD_QUEUE_DEPTH)
          BY <2>2, <2>6, ConfigAssumption DEF hasRoomFor
    <3> QED BY <2>1, <3>1 DEF Enqueue
  <2>8. queues' = [queues EXCEPT ![RankOf(t)][QueueBank(BankOf(t))] =
                       Append(queues[RankOf(t)][QueueBank(BankOf(t))], CommandOf(t))]
        BY <2>1, <2>4, <2>5 DEF Enqueue, CommandOf, TypeOK
  <2>9. Schedules(i)
        BY <2>1, <2>2, <2>7, <2>8 DEF Schedules
  <2> QED BY <2>2, <2>9
<1> QED BY <1>1, <1>2

\* A transaction that is accepted is numbered after all others.
LEMMA AcceptMeans ==
    ASSUME TypeOK, NEW req \in Request, Accept(req)
    PROVE  /\ Len(accepted) \in Nat /\ Len(accepted') = Len(accepted) + 1
           /\ \A id \in 1 .. Len(accepted) : accepted'[id] = accepted[id]
           /\ accepted'[Len(accepted) + 1] = req
           /\ \E t \in Transaction :
                  /\ transactionQueue' = Append(transactionQueue, t)
                  /\ t.id = Len(accepted) + 1 /\ t.address = req.address
                  /\ t.transactionType = req.transactionType
<1>1. accepted \in Seq(Request) /\ accepted' = Append(accepted, req)
      BY DEF TypeOK, Accept
<1>2. Len(accepted) \in Nat
      BY <1>1, LenProperties
<1> DEFINE t == [transactionType |-> req.transactionType, address |-> req.address,
                 id |-> Len(accepted) + 1]
<1>3. t \in Transaction
      BY <1>2 DEF Request, Transaction
<1>4. transactionQueue' = Append(transactionQueue, t)
      BY DEF Accept
<1>5. t.id = Len(accepted) + 1 /\ t.address = req.address
      /\ t.transactionType = req.transactionType
      OBVIOUS
<1> HIDE DEF t
<1>6. /\ Len(accepted') = Len(accepted) + 1 /\ accepted'[Len(accepted) + 1] = req
      /\ \A id \in 1 .. Len(accepted) : accepted'[id] = accepted[id]
      BY <1>1, <1>2, AppendProperties
<1> QED BY <1>2, <1>3, <1>4, <1>5, <1>6

LEMMA ArrivalMeans ==
    ASSUME TypeOK, AddTransaction \/ DrainPending
    PROVE  /\ UNCHANGED <<queues, writeDataToSend, dataBus, storage, cmdBus, bankVars,
                          readReturn, rankBus, returnTransaction, returned, error>>
           /\ \/ UNCHANGED <<transactionQueue, accepted>>
              \/ \E req \in Request : Accept(req)
<1>1. CASE AddTransaction
      BY <1>1 DEF AddTransaction, busVars, bankVars, queueVars, rankVars
<1>2. CASE DrainPending
  <2>1. UNCHANGED <<queues, writeDataToSend, dataBus, storage, cmdBus, bankVars,
                    readReturn, rankBus, returnTransaction, returned, error>>
        BY <1>2 DEF DrainPending, busVars, bankVars, queueVars, rankVars
  <2>2. CASE pendingTransactions # <<>> /\ WillAcceptTransaction
    <3>1. Head(pendingTransactions) \in Request
          BY <2>2, HeadTailProperties DEF TypeOK
    <3> QED BY <1>2, <2>1, <2>2, <3>1 DEF DrainPending
  <2>3. CASE ~(pendingTransactions # <<>> /\ WillAcceptTransaction)
        BY <1>2, <2>1, <2>3 DEF DrainPending
  <2> QED BY <2>2, <2>3
<1> QED BY <1>1, <1>2

(***************************************************************************)
(* The queues                                                              *)
(***************************************************************************)
LEMMA QueueTypes ==
    ASSUME TypeOK
    PROVE  /\ transactionQueue \in Seq(Transaction) /\ Len(transactionQueue) \in Nat
           /\ \A j \in 1 .. Len(transactionQueue) :
                  /\ transactionQueue[j] \in Transaction
                  /\ transactionQueue[j].id \in Nat
                  /\ transactionQueue[j].address \in Address
                  /\ RankOf(transactionQueue[j]) \in Ranks
                  /\ QueueBank(BankOf(transactionQueue[j])) \in Banks
           /\ \A r \in Ranks, b \in Banks :
                  /\ queues[r][b] \in Seq(BusPacket) /\ Len(queues[r][b]) \in Nat
                  /\ \A i \in 1 .. Len(queues[r][b]) :
                         /\ queues[r][b][i] \in BusPacket
                         /\ queues[r][b][i].id \in Nat
                         /\ queues[r][b][i].address \in Address
<1>1. transactionQueue \in Seq(Transaction) /\ Len(transactionQueue) \in Nat
      BY LenProperties DEF TypeOK
<1>2. \A j \in 1 .. Len(transactionQueue) : transactionQueue[j] \in Transaction
      BY <1>1, ElementOfSeq
<1>3. \A t \in Transaction : /\ t.id \in Nat /\ t.address \in Address
                             /\ RankOf(t) \in Ranks /\ QueueBank(BankOf(t)) \in Banks
  <2> TAKE t \in Transaction
  <2>1. t.id \in Nat /\ t.address \in Address
        BY DEF Transaction
  <2> QED BY <2>1, Located, QueueBankType
<1>4. \A r \in Ranks, b \in Banks : queues[r][b] \in Seq(BusPacket)
      BY DEF TypeOK
<1>5. \A r \in Ranks, b \in Banks : Len(queues[r][b]) \in Nat
      BY <1>4, LenProperties
<1>6. \A r \in Ranks, b \in Banks : \A i \in 1 .. Len(queues[r][b]) : queues[r][b][i] \in BusPacket
      BY <1>4, ElementOfSeq
<1>7. \A p \in BusPacket : p.id \in Nat /\ p.address \in Address
      BY DEF BusPacket
<1> QED BY <1>1, <1>2, <1>3, <1>4, <1>5, <1>6, <1>7

LEMMA ArrivalQueues ==
    ASSUME TypeOK, QueueInv, NEW req \in Request, Accept(req), queues' = queues
    PROVE  QueueInv'
<1> DEFINE n == Len(accepted)
           tq == transactionQueue
<1>1. PICK t \in Transaction :
          /\ tq' = Append(tq, t) /\ t.id = n + 1 /\ t.address = req.address
          /\ t.transactionType = req.transactionType
      BY AcceptMeans
<1>2. /\ n \in Nat /\ Len(accepted') = n + 1 /\ accepted'[n + 1] = req
      /\ \A id \in 1 .. n : accepted'[id] = accepted[id]
      BY AcceptMeans
<1>3. /\ Len(tq') = Len(tq) + 1 /\ tq'[Len(tq) + 1] = t /\ Len(tq) \in Nat
      /\ \A j \in 1 .. Len(tq) : tq'[j] = tq[j]
      BY <1>1, QueueTypes, AppendProperties
<1>4. \A j \in 1 .. Len(tq) : Recorded(tq[j])
      BY DEF QueueInv
<1>5. \A j \in 1 .. Len(tq) : tq[j].id < t.id
      BY <1>1, <1>2, <1>4, QueueTypes DEF Recorded
<1>6. Increasing(tq')
  <2>1. Increasing(tq)
        BY DEF QueueInv
  <2> QED BY <1>1, <1>5, <2>1, QueueTypes, AppendedIncreasing
<1>7. ASSUME NEW j \in 1 .. Len(tq')
      PROVE  /\ tq'[j].id \in 1 .. Len(accepted')
             /\ accepted'[tq'[j].id].address = tq'[j].address
             /\ tq'[j].transactionType = accepted'[tq'[j].id].transactionType
  <2>1. CASE j = Len(tq) + 1
        BY <1>1, <1>2, <1>3, <2>1
  <2>2. CASE j # Len(tq) + 1
    <3>1. j \in 1 .. Len(tq)
          BY <1>3, <2>2
    <3>2. Recorded(tq[j]) /\ tq[j].transactionType = accepted[tq[j].id].transactionType
          BY <3>1 DEF QueueInv
    <3> QED BY <1>2, <1>3, <3>1, <3>2 DEF Recorded
  <2> QED BY <2>1, <2>2
<1>8. ASSUME NEW r \in Ranks, NEW b \in Banks, NEW i \in 1 .. Len(queues[r][b]),
             NEW p, p = queues[r][b][i]
      PROVE  /\ p.id \in 1 .. Len(accepted') /\ accepted'[p.id].address = p.address
             /\ IsReadPacket(p) <=> accepted'[p.id].transactionType = "DATA_READ"
             /\ SlotOf(p) = <<r, b>>
             /\ \A j \in 1 .. Len(tq') : SlotOf(tq'[j]) = <<r, b>> => p.id < tq'[j].id
  <2>1. /\ Recorded(p) /\ (IsReadPacket(p) <=> IsRead(p.id)) /\ SlotOf(p) = <<r, b>>
        /\ \A j \in 1 .. Len(tq) : SlotOf(tq[j]) = <<r, b>> => p.id < tq[j].id
        BY <1>8 DEF QueueInv
  <2>2. /\ p.id \in 1 .. n /\ p.id \in 1 .. Len(accepted')
        /\ accepted'[p.id].address = p.address
        /\ IsReadPacket(p) <=> accepted'[p.id].transactionType = "DATA_READ"
        BY <1>2, <2>1 DEF Recorded, IsRead
  <2>3. ASSUME NEW j \in 1 .. Len(tq'), SlotOf(tq'[j]) = <<r, b>>
        PROVE  p.id < tq'[j].id
    <3>1. CASE j = Len(tq) + 1
          BY <1>1, <1>2, <1>3, <2>2, <3>1
    <3>2. CASE j # Len(tq) + 1
      <4>1. j \in 1 .. Len(tq)
            BY <1>3, <3>2
      <4> QED BY <1>3, <2>1, <2>3, <4>1
    <3> QED BY <3>1, <3>2
  <2> QED BY <2>1, <2>2, <2>3
<1>9. \A r \in Ranks, b \in Banks : Increasing(queues[r][b])
      BY DEF QueueInv
<1> HIDE DEF n
<1> QED BY <1>6, <1>7, <1>8, <1>9, SMTT(60)
        DEF QueueInv, Recorded, IsRead, Increasing, SlotOf, RankOf, BankOf, IsReadPacket

\* Popping takes one packet out of one queue.
LEMMA PopEntries ==
    ASSUME TypeOK, NEW r \in Ranks, NEW b \in Banks, NEW i \in 1 .. Len(queues[r][b]),
           Pops(r, b, i), NEW s \in Ranks, NEW c \in Banks
    PROVE  /\ \A k \in 1 .. Len(queues'[s][c]) : \E m \in 1 .. Len(queues[s][c]) :
                  ~(s = r /\ c = b /\ m = i) /\ queues'[s][c][k] = queues[s][c][m]
           /\ \A m \in 1 .. Len(queues[s][c]) : ~(s = r /\ c = b /\ m = i) =>
                  \E k \in 1 .. Len(queues'[s][c]) : queues'[s][c][k] = queues[s][c][m]
           /\ Increasing(queues[s][c]) => Increasing(queues'[s][c])
<1>1. /\ queues' = [queues EXCEPT ![r][b] = RemoveAt(queues[r][b], i)]
      /\ queues \in [Ranks -> [Banks -> Seq(BusPacket)]]
      BY DEF Pops, TypeOK
<1>2. CASE s = r /\ c = b
  <2>1. queues'[s][c] = RemoveAt(queues[s][c], i) /\ queues[s][c] \in Seq(BusPacket)
        BY <1>1, <1>2
  <2>2. i \in 1 .. Len(queues[s][c])
        BY <1>2
  <2>0. PICK q, qn : q = queues[s][c] /\ qn = RemoveAt(q, i)
        OBVIOUS
  <2>7. q \in Seq(BusPacket) /\ i \in 1 .. Len(q)
        BY <2>0, <2>1, <2>2
  <2>3. /\ \A k \in 1 .. Len(qn) : \E m \in 1 .. Len(q) : m # i /\ qn[k] = q[m]
        /\ \A m \in 1 .. Len(q) : m # i => \E k \in 1 .. Len(qn) : qn[k] = q[m]
    <3>1. /\ \A k \in 1 .. Len(RemoveAt(q, i)) :
                 \E m \in 1 .. Len(q) : m # i /\ RemoveAt(q, i)[k] = q[m]
          /\ \A m \in 1 .. Len(q) : m # i =>
                 \E k \in 1 .. Len(RemoveAt(q, i)) : RemoveAt(q, i)[k] = q[m]
          BY <2>7, RemainingEntries
    <3> QED BY <2>0, <3>1, Zenon
  <2>4. Increasing(q) => Increasing(qn)
        BY <2>0, <2>1, <2>2, RemainingIncreasing
  <2>5. queues'[s][c] = qn /\ queues[s][c] = q
        BY <2>0, <2>1
  <2>6. \A m : ~(s = r /\ c = b /\ m = i) <=> m # i
        BY <1>2
  <2> QED BY <2>3, <2>4, <2>5, <2>6
<1>3. CASE ~(s = r /\ c = b)
  <2>1. queues'[s][c] = queues[s][c]
        BY <1>1, <1>3
  <2> QED BY <1>3, <2>1
<1> QED BY <1>2, <1>3

LEMMA PopQueues ==
    ASSUME TypeOK, QueueInv, NEW r \in Ranks, NEW b \in Banks,
           NEW i \in 1 .. Len(queues[r][b]), Pops(r, b, i),
           UNCHANGED <<transactionQueue, accepted>>
    PROVE  QueueInv'
<1>1. ASSUME NEW s \in Ranks, NEW c \in Banks, NEW k \in 1 .. Len(queues'[s][c]),
             NEW p, p = queues'[s][c][k]
      PROVE  /\ Recorded(p) /\ (IsReadPacket(p) <=> IsRead(p.id)) /\ SlotOf(p) = <<s, c>>
             /\ \A j \in 1 .. Len(transactionQueue) :
                    SlotOf(transactionQueue[j]) = <<s, c>> => p.id < transactionQueue[j].id
  <2>1. PICK m \in 1 .. Len(queues[s][c]) : p = queues[s][c][m]
        BY <1>1, PopEntries
  <2> QED BY <2>1 DEF QueueInv
<1>2. \A s \in Ranks, c \in Banks : Increasing(queues'[s][c])
      BY PopEntries DEF QueueInv
<1>3. /\ Increasing(transactionQueue)
      /\ \A j \in 1 .. Len(transactionQueue) :
             /\ Recorded(transactionQueue[j])
             /\ transactionQueue[j].transactionType
                    = accepted[transactionQueue[j].id].transactionType
      BY DEF QueueInv
<1>4. (/\ Increasing(transactionQueue)
       /\ \A j \in 1 .. Len(transactionQueue) :
              /\ Recorded(transactionQueue[j])
              /\ transactionQueue[j].transactionType
                     = accepted[transactionQueue[j].id].transactionType)'
      BY <1>3 DEF Increasing, Recorded
<1>5. ASSUME NEW s \in Ranks, NEW c \in Banks, NEW k \in 1 .. Len(queues'[s][c])
      PROVE  (LET p == queues[s][c][k] IN
                  /\ Recorded(p) /\ (IsReadPacket(p) <=> IsRead(p.id))
                  /\ SlotOf(p) = <<s, c>>
                  /\ \A j \in 1 .. Len(transactionQueue) :
                         SlotOf(transactionQueue[j]) = <<s, c>>
                             => p.id < transactionQueue[j].id)'
  <2>1. PICK p : p = queues'[s][c][k]
        OBVIOUS
  <2>2. /\ Recorded(p) /\ (IsReadPacket(p) <=> IsRead(p.id)) /\ SlotOf(p) = <<s, c>>
        /\ \A j \in 1 .. Len(transactionQueue) :
               SlotOf(transactionQueue[j]) = <<s, c>> => p.id < transactionQueue[j].id
        BY <1>1, <2>1
  <2>3. Recorded(queues[s][c][k])'
        BY <2>1, <2>2 DEF Recorded
  <2>4. (IsReadPacket(queues[s][c][k]) <=> IsRead(queues[s][c][k].id))'
        BY <2>1, <2>2 DEF IsReadPacket, IsRead
  <2>5. (SlotOf(queues[s][c][k]) = <<s, c>>)'
        BY <2>1, <2>2 DEF SlotOf, RankOf, BankOf
  <2>6. (\A j \in 1 .. Len(transactionQueue) :
            SlotOf(transactionQueue[j]) = <<s, c>>
                => queues[s][c][k].id < transactionQueue[j].id)'
        BY <2>1, <2>2 DEF SlotOf, RankOf, BankOf
  <2> QED BY <2>3, <2>4, <2>5, <2>6
<1>6. \A s \in Ranks, c \in Banks : Increasing(queues[s][c])'
      BY <1>2 DEF Increasing
<1> QED BY <1>4, <1>5, <1>6 DEF QueueInv

\* The number of a packet that was popped is in no queue any more.
LEMMA PopWaiting ==
    ASSUME TypeOK, QueueInv, NEW r \in Ranks, NEW b \in Banks,
           NEW i \in 1 .. Len(queues[r][b]), Pops(r, b, i),
           UNCHANGED <<transactionQueue, accepted>>,
           NEW id, id = queues[r][b][i].id
    PROVE  /\ Waiting(id) /\ ~Waiting(id)'
           /\ \A w : Waiting(w)' => Waiting(w)
           /\ \A w : Waiting(w) /\ w # id => Waiting(w)'
<1> DEFINE p == queues[r][b][i]
<1>1. /\ Recorded(p) /\ SlotOf(p) = <<r, b>> /\ p.id \in Nat
      /\ \A j \in 1 .. Len(transactionQueue) :
             SlotOf(transactionQueue[j]) = <<r, b>> => p.id < transactionQueue[j].id
      BY QueueTypes DEF QueueInv
<1>2. ASSUME NEW j \in 1 .. Len(transactionQueue), transactionQueue[j].id = p.id
      PROVE  FALSE
  <2>1. transactionQueue[j].address = p.address
        BY <1>1, <1>2 DEF QueueInv, Recorded
  <2>2. SlotOf(transactionQueue[j]) = SlotOf(p)
        BY <2>1 DEF SlotOf, RankOf, BankOf
  <2> QED BY <1>1, <1>2, <2>2
<1>3. ASSUME NEW s \in Ranks, NEW c \in Banks, NEW m \in 1 .. Len(queues[s][c]),
             queues[s][c][m].id = p.id
      PROVE  s = r /\ c = b /\ m = i
  <2>1. Recorded(queues[s][c][m]) /\ SlotOf(queues[s][c][m]) = <<s, c>>
        BY DEF QueueInv
  <2>2. queues[s][c][m].address = p.address
        BY <1>1, <1>3, <2>1 DEF Recorded
  <2>3. SlotOf(queues[s][c][m]) = SlotOf(p)
        BY <2>2 DEF SlotOf, RankOf, BankOf
  <2>4. s = r /\ c = b
        BY <1>1, <2>1, <2>3
  <2>5. Increasing(queues[r][b]) /\ queues[r][b] \in Seq(BusPacket)
        /\ \A k \in 1 .. Len(queues[r][b]) : queues[r][b][k].id \in Nat
        BY QueueTypes DEF QueueInv
  <2> QED BY <1>3, <2>4, <2>5, IncreasingUnique
<1>4. ASSUME NEW s \in Ranks, NEW c \in Banks, NEW k \in 1 .. Len(queues'[s][c])
      PROVE  \E m \in 1 .. Len(queues[s][c]) : /\ queues'[s][c][k] = queues[s][c][m]
                                               /\ queues[s][c][m].id # p.id
      BY <1>3, PopEntries
<1>5. ASSUME NEW s \in Ranks, NEW c \in Banks, NEW m \in 1 .. Len(queues[s][c]),
             queues[s][c][m].id # p.id
      PROVE  \E k \in 1 .. Len(queues'[s][c]) : queues'[s][c][k] = queues[s][c][m]
  <2>1. ~(s = r /\ c = b /\ m = i)
        BY <1>5
  <2> QED BY <2>1, PopEntries
<1>0. p.id = id /\ transactionQueue' = transactionQueue
      OBVIOUS
<1>6. Waiting(id)
      BY DEF Waiting
<1>7. ~Waiting(id)'
  <2>1. ~ \E j \in 1 .. Len(transactionQueue') : transactionQueue'[j].id = id
        BY <1>0, <1>2
  <2>2. ASSUME NEW s \in Ranks, NEW c \in Banks, NEW k \in 1 .. Len(queues'[s][c])
        PROVE  queues'[s][c][k].id # id
    <3>1. PICK m \in 1 .. Len(queues[s][c]) : /\ queues'[s][c][k] = queues[s][c][m]
                                              /\ queues[s][c][m].id # p.id
          BY <1>4
    <3> QED BY <1>0, <3>1
  <2> QED BY <2>1, <2>2 DEF Waiting
<1>8. ASSUME NEW w, Waiting(w)'
      PROVE  Waiting(w)
  <2>1. CASE \E j \in 1 .. Len(transactionQueue') : transactionQueue'[j].id = w
        BY <1>0, <2>1 DEF Waiting
  <2>2. CASE \E s \in Ranks, c \in Banks : \E k \in 1 .. Len(queues'[s][c]) :
                 queues'[s][c][k].id = w
    <3>1. PICK s \in Ranks, c \in Banks : \E k \in 1 .. Len(queues'[s][c]) :
                 queues'[s][c][k].id = w
          BY <2>2
    <3>2. PICK k \in 1 .. Len(queues'[s][c]) : queues'[s][c][k].id = w
          BY <3>1
    <3>3. PICK m \in 1 .. Len(queues[s][c]) : queues'[s][c][k] = queues[s][c][m]
          BY <1>4
    <3> QED BY <3>2, <3>3 DEF Waiting
  <2> QED BY <1>8, <2>1, <2>2 DEF Waiting
<1>9. ASSUME NEW w, Waiting(w), w # id
      PROVE  Waiting(w)'
  <2>1. CASE \E j \in 1 .. Len(transactionQueue) : transactionQueue[j].id = w
        BY <1>0, <2>1 DEF Waiting
  <2>2. CASE \E s \in Ranks, c \in Banks : \E k \in 1 .. Len(queues[s][c]) :
                 queues[s][c][k].id = w
    <3>1. PICK s \in Ranks, c \in Banks : \E k \in 1 .. Len(queues[s][c]) :
                 queues[s][c][k].id = w
          BY <2>2
    <3>2. PICK k \in 1 .. Len(queues[s][c]) : queues[s][c][k].id = w
          BY <3>1
    <3>3. PICK m \in 1 .. Len(queues'[s][c]) : queues'[s][c][m] = queues[s][c][k]
          BY <1>0, <1>5, <1>9, <3>2
    <3> QED BY <3>2, <3>3 DEF Waiting
  <2> QED BY <1>9, <2>1, <2>2 DEF Waiting
<1> QED BY <1>6, <1>7, <1>8, <1>9

LEMMA WaitingRecorded ==
    ASSUME QueueInv, NEW w, Waiting(w)
    PROVE  w \in 1 .. Len(accepted)
BY DEF QueueInv, Waiting, Recorded

\* A transaction that arrives waits, and the others go on waiting.
LEMMA ArrivalWaiting ==
    ASSUME TypeOK, NEW req \in Request, Accept(req), queues' = queues
    PROVE  \A w : Waiting(w)' <=> Waiting(w) \/ w = Len(accepted) + 1
<1> DEFINE tq == transactionQueue
<1>1. PICK t \in Transaction : tq' = Append(tq, t) /\ t.id = Len(accepted) + 1
      BY AcceptMeans
<1>2. /\ Len(tq') = Len(tq) + 1 /\ tq'[Len(tq) + 1] = t /\ Len(tq) \in Nat
      /\ \A j \in 1 .. Len(tq) : tq'[j] = tq[j]
      BY <1>1, QueueTypes, AppendProperties
<1>3. \A w : (\E j \in 1 .. Len(tq') : tq'[j].id = w)
             <=> (\E j \in 1 .. Len(tq) : tq[j].id = w) \/ w = Len(accepted) + 1
  <2> TAKE w
  <2>1. ASSUME NEW j \in 1 .. Len(tq'), tq'[j].id = w
        PROVE  (\E k \in 1 .. Len(tq) : tq[k].id = w) \/ w = Len(accepted) + 1
    <3>1. j = Len(tq) + 1 \/ j \in 1 .. Len(tq)
          BY <1>2
    <3> QED BY <1>1, <1>2, <2>1, <3>1
  <2>2. ASSUME NEW j \in 1 .. Len(tq), tq[j].id = w
        PROVE  \E k \in 1 .. Len(tq') : tq'[k].id = w
    <3>1. j \in 1 .. Len(tq')
          BY <1>2
    <3> QED BY <1>2, <2>2, <3>1
  <2>3. ASSUME w = Len(accepted) + 1
        PROVE  \E k \in 1 .. Len(tq') : tq'[k].id = w
    <3>1. Len(tq) + 1 \in 1 .. Len(tq')
          BY <1>2
    <3> QED BY <1>1, <1>2, <2>3, <3>1
  <2> QED BY <2>1, <2>2, <2>3
<1> QED BY <1>3, ZenonT(60) DEF Waiting

\* Scheduling moves one transaction from the list to the end of its queue.
LEMMA ScheduleEntries ==
    ASSUME TypeOK, NEW i \in 1 .. Len(transactionQueue), Schedules(i),
           NEW t, t = transactionQueue[i], NEW s \in Ranks, NEW c \in Banks
    PROVE  IF SlotOf(t) = <<s, c>>
           THEN queues'[s][c] = Append(queues[s][c], CommandOf(t))
           ELSE queues'[s][c] = queues[s][c]
<1>1. /\ queues' = [queues EXCEPT ![RankOf(t)][QueueBank(BankOf(t))] =
                       Append(queues[RankOf(t)][QueueBank(BankOf(t))], CommandOf(t))]
      /\ queues \in [Ranks -> [Banks -> Seq(BusPacket)]]
      BY DEF Schedules, TypeOK
<1>2. RankOf(t) \in Ranks /\ QueueBank(BankOf(t)) \in Banks
      BY QueueTypes
<1>3. PICK r \in Ranks, b \in Banks : r = RankOf(t) /\ b = QueueBank(BankOf(t))
      BY <1>2
<1>4. queues' = [queues EXCEPT ![r][b] = Append(queues[r][b], CommandOf(t))]
      BY <1>1, <1>3
<1>5. SlotOf(t) = <<s, c>> <=> r = s /\ b = c
      BY <1>3 DEF SlotOf
<1> HIDE DEF CommandOf
<1> QED BY <1>1, <1>4, <1>5

\* The transaction that is scheduled is the first of its slot.
LEMMA ScheduledFirst ==
    ASSUME TypeOK, NEW i \in 1 .. Len(transactionQueue), Schedules(i),
           NEW k \in 1 .. Len(transactionQueue), k # i,
           SlotOf(transactionQueue[k]) = SlotOf(transactionQueue[i])
    PROVE  i < k
<1>1. /\ hasRoomFor(RankOf(transactionQueue[i]), BankOf(transactionQueue[i]))
      /\ \A j \in Schedulable : i <= j
      BY DEF Schedules
<1>2. hasRoomFor(RankOf(transactionQueue[k]), BankOf(transactionQueue[k]))
      BY <1>1 DEF hasRoomFor, getCommandQueue, SlotOf
<1>3. k \in Schedulable
      BY <1>2 DEF Schedulable
<1> QED BY <1>1, <1>3

LEMMA ScheduleQueues ==
    ASSUME TypeOK, QueueInv, NEW i \in 1 .. Len(transactionQueue), Schedules(i),
           accepted' = accepted
    PROVE  QueueInv'
<1> DEFINE tq == transactionQueue
<1>1. PICK t : t = tq[i]
      OBVIOUS
<1>2. /\ t \in Transaction /\ Recorded(t) /\ t.id \in Nat
      /\ t.transactionType = accepted[t.id].transactionType
      BY <1>1, QueueTypes DEF QueueInv
<1>3. PICK p : p = CommandOf(t)
      OBVIOUS
<1>4. /\ p \in BusPacket /\ p.address = t.address /\ p.id = t.id /\ SlotOf(p) = SlotOf(t)
      /\ IsReadPacket(p) <=> t.transactionType = "DATA_READ"
      BY <1>2, <1>3, CommandOfType
<1>5. tq' = RemoveAt(tq, i) /\ tq \in Seq(Transaction) /\ Increasing(tq)
      BY QueueTypes DEF Schedules, QueueInv
<1>6. ASSUME NEW k \in 1 .. Len(tq')
      PROVE  \E j \in 1 .. Len(tq) : j # i /\ tq'[k] = tq[j]
      BY <1>5, RemainingEntries
<1>7. Increasing(tq')
      BY <1>5, RemainingIncreasing
<1>8. ASSUME NEW k \in 1 .. Len(tq'), NEW x, x = tq'[k]
      PROVE  /\ Recorded(x) /\ x.transactionType = accepted[x.id].transactionType
             /\ SlotOf(x) = SlotOf(t) => t.id < x.id
             /\ \A s \in Ranks, c \in Banks : SlotOf(x) = <<s, c>> =>
                    \A m \in 1 .. Len(queues[s][c]) : queues[s][c][m].id < x.id
  <2>1. PICK j \in 1 .. Len(tq) : j # i /\ x = tq[j]
        BY <1>6, <1>8
  <2>2. SlotOf(x) = SlotOf(t) => i < j
        BY <1>1, <2>1, ScheduledFirst
  <2>3. SlotOf(x) = SlotOf(t) => t.id < x.id
        BY <1>1, <1>5, <2>1, <2>2 DEF Increasing
  <2> QED BY <2>1, <2>3 DEF QueueInv
<1>9. ASSUME NEW s \in Ranks, NEW c \in Banks, NEW k \in 1 .. Len(queues'[s][c]),
             NEW x, x = queues'[s][c][k]
      PROVE  /\ Recorded(x) /\ (IsReadPacket(x) <=> IsRead(x.id)) /\ SlotOf(x) = <<s, c>>
             /\ \A j \in 1 .. Len(tq') : SlotOf(tq'[j]) = <<s, c>> => x.id < tq'[j].id
  <2>1. CASE k \in 1 .. Len(queues[s][c]) /\ x = queues[s][c][k]
    <3>1. Recorded(x) /\ (IsReadPacket(x) <=> IsRead(x.id)) /\ SlotOf(x) = <<s, c>>
          BY <2>1 DEF QueueInv
    <3> QED BY <1>8, <2>1, <3>1
  <2>2. CASE SlotOf(t) = <<s, c>> /\ x = p
    <3>1. Recorded(x) /\ (IsReadPacket(x) <=> IsRead(x.id)) /\ SlotOf(x) = <<s, c>>
          BY <1>2, <1>4, <2>2 DEF Recorded, IsRead
    <3>2. x.id = t.id
          BY <1>4, <2>2
    <3> QED BY <1>8, <2>2, <3>1, <3>2
  <2>3. \/ k \in 1 .. Len(queues[s][c]) /\ x = queues[s][c][k]
        \/ SlotOf(t) = <<s, c>> /\ x = p
    <3>1. queues[s][c] \in Seq(BusPacket) /\ Len(queues[s][c]) \in Nat
          BY QueueTypes
    <3>2. CASE SlotOf(t) = <<s, c>>
      <4>1. queues'[s][c] = Append(queues[s][c], p)
            BY <1>1, <1>3, <3>2, ScheduleEntries
      <4>2. /\ Len(queues'[s][c]) = Len(queues[s][c]) + 1
            /\ queues'[s][c][Len(queues[s][c]) + 1] = p
            /\ \A m \in 1 .. Len(queues[s][c]) : queues'[s][c][m] = queues[s][c][m]
            BY <1>4, <3>1, <4>1, AppendProperties
      <4>3. k = Len(queues[s][c]) + 1 \/ k \in 1 .. Len(queues[s][c])
            BY <3>1, <4>2
      <4> QED BY <1>9, <3>2, <4>2, <4>3
    <3>3. CASE SlotOf(t) # <<s, c>>
      <4>1. queues'[s][c] = queues[s][c]
            BY <1>1, <3>3, ScheduleEntries
      <4> QED BY <1>9, <4>1
    <3> QED BY <3>2, <3>3
  <2> QED BY <2>1, <2>2, <2>3
<1>10. ASSUME NEW s \in Ranks, NEW c \in Banks
       PROVE  Increasing(queues'[s][c])
  <2>1. queues[s][c] \in Seq(BusPacket) /\ Increasing(queues[s][c])
        BY QueueTypes DEF QueueInv
  <2>2. CASE SlotOf(t) = <<s, c>>
    <3>1. queues'[s][c] = Append(queues[s][c], p)
          BY <1>1, <1>3, <2>2, ScheduleEntries
    <3>2. \A m \in 1 .. Len(queues[s][c]) : queues[s][c][m].id < p.id
          BY <1>1, <1>4, <2>2 DEF QueueInv
    <3> QED BY <1>4, <2>1, <3>1, <3>2, AppendedIncreasing
  <2>3. CASE SlotOf(t) # <<s, c>>
    <3>1. queues'[s][c] = queues[s][c]
          BY <1>1, <2>3, ScheduleEntries
    <3> QED BY <2>1, <3>1
  <2> QED BY <2>2, <2>3
<1>11. (/\ Increasing(transactionQueue)
        /\ \A j \in 1 .. Len(transactionQueue) :
               /\ Recorded(transactionQueue[j])
               /\ transactionQueue[j].transactionType
                      = accepted[transactionQueue[j].id].transactionType)'
      BY <1>7, <1>8 DEF Increasing, Recorded
<1>12. ASSUME NEW s \in Ranks, NEW c \in Banks, NEW k \in 1 .. Len(queues'[s][c])
       PROVE  (LET x == queues[s][c][k] IN
                   /\ Recorded(x) /\ (IsReadPacket(x) <=> IsRead(x.id))
                   /\ SlotOf(x) = <<s, c>>
                   /\ \A j \in 1 .. Len(transactionQueue) :
                          SlotOf(transactionQueue[j]) = <<s, c>>
                              => x.id < transactionQueue[j].id)'
  <2>1. PICK x : x = queues'[s][c][k]
        OBVIOUS
  <2>2. /\ Recorded(x) /\ (IsReadPacket(x) <=> IsRead(x.id)) /\ SlotOf(x) = <<s, c>>
        /\ \A j \in 1 .. Len(tq') : SlotOf(tq'[j]) = <<s, c>> => x.id < tq'[j].id
        BY <1>9, <2>1
  <2>3. Recorded(queues[s][c][k])'
        BY <2>1, <2>2 DEF Recorded
  <2>4. (IsReadPacket(queues[s][c][k]) <=> IsRead(queues[s][c][k].id))'
        BY <2>1, <2>2 DEF IsReadPacket, IsRead
  <2>5. (SlotOf(queues[s][c][k]) = <<s, c>>)'
        BY <2>1, <2>2 DEF SlotOf, RankOf, BankOf
  <2>6. (\A j \in 1 .. Len(transactionQueue) :
            SlotOf(transactionQueue[j]) = <<s, c>>
                => queues[s][c][k].id < transactionQueue[j].id)'
        BY <2>1, <2>2 DEF SlotOf, RankOf, BankOf
  <2> QED BY <2>3, <2>4, <2>5, <2>6
<1>13. \A s \in Ranks, c \in Banks : Increasing(queues[s][c])'
      BY <1>10 DEF Increasing
<1> QED BY <1>11, <1>12, <1>13 DEF QueueInv

LEMMA ScheduleWaiting ==
    ASSUME TypeOK, NEW i \in 1 .. Len(transactionQueue), Schedules(i)
    PROVE  \A w : Waiting(w)' <=> Waiting(w)
<1> DEFINE tq == transactionQueue
<1>1. PICK t : t = tq[i]
      OBVIOUS
<1>2. PICK p : p = CommandOf(t)
      OBVIOUS
<1>3. t \in Transaction /\ p \in BusPacket /\ p.id = t.id
      BY <1>1, <1>2, QueueTypes, CommandOfType
<1>4. tq' = RemoveAt(tq, i) /\ tq \in Seq(Transaction)
      BY QueueTypes DEF Schedules
<1>5. /\ \A k \in 1 .. Len(tq') : \E j \in 1 .. Len(tq) : j # i /\ tq'[k] = tq[j]
      /\ \A j \in 1 .. Len(tq) : j # i => \E k \in 1 .. Len(tq') : tq'[k] = tq[j]
      BY <1>4, RemainingEntries, ZenonT(60)
<1>6. ASSUME NEW s \in Ranks, NEW c \in Banks
      PROVE  /\ \A k \in 1 .. Len(queues'[s][c]) :
                    \/ \E m \in 1 .. Len(queues[s][c]) : queues'[s][c][k] = queues[s][c][m]
                    \/ queues'[s][c][k] = p
             /\ \A m \in 1 .. Len(queues[s][c]) :
                    \E k \in 1 .. Len(queues'[s][c]) : queues'[s][c][k] = queues[s][c][m]
             /\ SlotOf(t) = <<s, c>> => \E k \in 1 .. Len(queues'[s][c]) : queues'[s][c][k] = p
  <2>1. queues[s][c] \in Seq(BusPacket) /\ Len(queues[s][c]) \in Nat
        BY QueueTypes
  <2>2. CASE SlotOf(t) = <<s, c>>
    <3>1. queues'[s][c] = Append(queues[s][c], p)
          BY <1>1, <1>2, <2>2, ScheduleEntries
    <3>2. /\ Len(queues'[s][c]) = Len(queues[s][c]) + 1
          /\ queues'[s][c][Len(queues[s][c]) + 1] = p
          /\ \A m \in 1 .. Len(queues[s][c]) : queues'[s][c][m] = queues[s][c][m]
          BY <1>3, <2>1, <3>1, AppendProperties
    <3>3. \A k \in 1 .. Len(queues'[s][c]) : k = Len(queues[s][c]) + 1 \/ k \in 1 .. Len(queues[s][c])
          BY <2>1, <3>2
    <3>4. /\ \A m \in 1 .. Len(queues[s][c]) : m \in 1 .. Len(queues'[s][c])
          /\ Len(queues[s][c]) + 1 \in 1 .. Len(queues'[s][c])
          BY <2>1, <3>2
    <3> QED BY <3>2, <3>3, <3>4
  <2>3. CASE SlotOf(t) # <<s, c>>
    <3>1. queues'[s][c] = queues[s][c]
          BY <1>1, <2>3, ScheduleEntries
    <3> QED BY <2>3, <3>1
  <2> QED BY <2>2, <2>3
<1>7. \E s \in Ranks, c \in Banks : SlotOf(t) = <<s, c>>
      BY <1>1, QueueTypes DEF SlotOf
<1> SUFFICES ASSUME NEW w PROVE Waiting(w)' <=> Waiting(w)
    OBVIOUS
<1>8. ASSUME Waiting(w)' PROVE Waiting(w)
  <2>1. CASE \E k \in 1 .. Len(tq') : tq'[k].id = w
    <3>1. PICK k \in 1 .. Len(tq') : tq'[k].id = w
          BY <2>1
    <3>2. PICK m \in 1 .. Len(tq) : tq'[k] = tq[m]
          BY <1>5
    <3>3. tq[m].id = w
          BY <3>1, <3>2
    <3> QED BY <3>3 DEF Waiting
  <2>2. CASE \E s \in Ranks, c \in Banks : \E k \in 1 .. Len(queues'[s][c]) :
                 queues'[s][c][k].id = w
    <3>1. PICK s \in Ranks, c \in Banks : \E k \in 1 .. Len(queues'[s][c]) :
                 queues'[s][c][k].id = w
          BY <2>2
    <3>2. PICK k \in 1 .. Len(queues'[s][c]) : queues'[s][c][k].id = w
          BY <3>1
    <3>3. CASE queues'[s][c][k] = p
          BY <1>1, <1>3, <3>2, <3>3 DEF Waiting
    <3>4. CASE \E m \in 1 .. Len(queues[s][c]) : queues'[s][c][k] = queues[s][c][m]
          BY <3>2, <3>4 DEF Waiting
    <3> QED BY <1>6, <3>3, <3>4
  <2> QED BY <1>8, <2>1, <2>2 DEF Waiting
<1>9. ASSUME Waiting(w) PROVE Waiting(w)'
  <2>1. CASE \E k \in 1 .. Len(tq) : tq[k].id = w
    <3>1. PICK k \in 1 .. Len(tq) : tq[k].id = w
          BY <2>1
    <3>2. CASE k = i
      <4>1. PICK s \in Ranks, c \in Banks : SlotOf(t) = <<s, c>>
            BY <1>7
      <4>2. PICK m \in 1 .. Len(queues'[s][c]) : queues'[s][c][m] = p
            BY <1>6, <4>1
      <4> QED BY <1>1, <1>3, <3>1, <3>2, <4>2 DEF Waiting
    <3>3. CASE k # i
      <4>1. PICK m \in 1 .. Len(tq') : tq'[m] = tq[k]
            BY <1>5, <3>3
      <4> QED BY <3>1, <4>1 DEF Waiting
    <3> QED BY <3>2, <3>3
  <2>2. CASE \E s \in Ranks, c \in Banks : \E k \in 1 .. Len(queues[s][c]) :
                 queues[s][c][k].id = w
    <3>1. PICK s \in Ranks, c \in Banks : \E k \in 1 .. Len(queues[s][c]) :
                 queues[s][c][k].id = w
          BY <2>2
    <3>2. PICK k \in 1 .. Len(queues[s][c]) : queues[s][c][k].id = w
          BY <3>1
    <3>3. PICK m \in 1 .. Len(queues'[s][c]) : queues'[s][c][m] = queues[s][c][k]
          BY <1>6
    <3> QED BY <3>2, <3>3 DEF Waiting
  <2> QED BY <1>9, <2>1, <2>2 DEF Waiting
<1> QED BY <1>8, <1>9

\* The other steps leave the queues alone.
LEMMA QuietSteps ==
    ASSUME AddPending \/ RankUpdate \/ CommandBus \/ DataBus \/ ReturnRead \/ UNCHANGED vars
    PROVE  UNCHANGED <<transactionQueue, queues, accepted>>
BY DEF AddPending, RankUpdate, CommandBus, DataBus, ReturnRead, vars, mcVars, queueVars,
       histVars

LEMMA QuietQueues ==
    ASSUME QueueInv, UNCHANGED <<transactionQueue, queues, accepted>>
    PROVE  QueueInv'
BY SMTT(60) DEF QueueInv, Increasing, Recorded, IsReadPacket, IsRead, SlotOf, RankOf, BankOf

LEMMA QuietWaiting ==
    ASSUME UNCHANGED <<transactionQueue, queues>>
    PROVE  \A w : Waiting(w)' <=> Waiting(w)
BY DEF Waiting

LEMMA InitQueues == Init => QueueInv
<1> SUFFICES ASSUME Init PROVE QueueInv
    OBVIOUS
<1>1. Len(transactionQueue) = 0 /\ \A r \in Ranks, b \in Banks : Len(queues[r][b]) = 0
      BY EmptySeq DEF Init
<1> QED BY <1>1 DEF QueueInv, Increasing

LEMMA NextQueues == TypeOK /\ QueueInv /\ [Next]_vars => QueueInv'
<1> SUFFICES ASSUME TypeOK, QueueInv, [Next]_vars PROVE QueueInv'
    OBVIOUS
<1>1. CASE AddTransaction \/ DrainPending
      BY <1>1, ArrivalMeans, ArrivalQueues, QuietQueues
<1>2. CASE IssueCommand
  <2>1. UNCHANGED <<transactionQueue, accepted>>
        BY <1>2 DEF IssueCommand, mcVars, histVars
  <2>2. CASE queues' = queues
        BY <2>1, <2>2, QuietQueues
  <2>3. CASE \E r \in Ranks, b \in Banks : \E i \in 1 .. Len(queues[r][b]) : Pops(r, b, i)
        BY <2>1, <2>3, PopQueues
  <2> QED BY <1>2, <2>2, <2>3, IssueMeans
<1>3. CASE ScheduleTransaction
  <2>1. accepted' = accepted
        BY <1>3 DEF ScheduleTransaction, histVars
  <2>2. CASE UNCHANGED <<queues, transactionQueue>>
        BY <2>1, <2>2, QuietQueues
  <2>3. CASE \E i \in 1 .. Len(transactionQueue) : Schedules(i)
        BY <2>1, <2>3, ScheduleQueues
  <2> QED BY <1>3, <2>2, <2>3, ScheduleMeans
<1>4. CASE AddPending \/ RankUpdate \/ CommandBus \/ DataBus \/ ReturnRead \/ UNCHANGED vars
      BY <1>4, QuietSteps, QuietQueues
<1> QED BY <1>1, <1>2, <1>3, <1>4 DEF Next, Cycle

(***************************************************************************)
(* What every step does to the history                                     *)
(***************************************************************************)
\* The history only grows, and what waits was waiting or is new.
LEMMA HistoryGrows ==
    ASSUME TypeOK, QueueInv, [Next]_vars
    PROVE  /\ Len(accepted) \in Nat /\ Len(accepted') \in Nat
           /\ Len(accepted) <= Len(accepted')
           /\ \A id \in 1 .. Len(accepted) : accepted'[id] = accepted[id]
           /\ \A w \in 1 .. Len(accepted) : Waiting(w)' => Waiting(w)
<1>0. Len(accepted) \in Nat
      BY LenProperties DEF TypeOK
<1>1. CASE AddTransaction \/ DrainPending
  <2>1. queues' = queues
        BY <1>1, ArrivalMeans
  <2>2. CASE UNCHANGED <<transactionQueue, accepted>>
        BY <1>0, <2>1, <2>2, QuietWaiting
  <2>3. CASE \E req \in Request : Accept(req)
    <3>1. PICK req \in Request : Accept(req)
          BY <2>3
    <3>2. \A w : Waiting(w)' <=> Waiting(w) \/ w = Len(accepted) + 1
          BY <2>1, <3>1, ArrivalWaiting
    <3>3. /\ Len(accepted') = Len(accepted) + 1
          /\ \A id \in 1 .. Len(accepted) : accepted'[id] = accepted[id]
          BY <3>1, AcceptMeans
    <3>4. \A w \in 1 .. Len(accepted) : w # Len(accepted) + 1
          BY <1>0
    <3> QED BY <1>0, <3>2, <3>3, <3>4
  <2> QED BY <1>1, <2>2, <2>3, ArrivalMeans
<1>2. CASE IssueCommand
  <2>1. UNCHANGED <<transactionQueue, accepted>>
        BY <1>2 DEF IssueCommand, mcVars, histVars
  <2>2. CASE queues' = queues
        BY <1>0, <2>1, <2>2, QuietWaiting
  <2>3. CASE \E r \in Ranks, b \in Banks : \E i \in 1 .. Len(queues[r][b]) : Pops(r, b, i)
    <3>1. \A w : Waiting(w)' => Waiting(w)
          BY <2>1, <2>3, PopWaiting
    <3> QED BY <1>0, <2>1, <3>1
  <2> QED BY <1>2, <2>2, <2>3, IssueMeans
<1>3. CASE ScheduleTransaction
  <2>1. accepted' = accepted
        BY <1>3 DEF ScheduleTransaction, histVars
  <2>2. CASE UNCHANGED <<queues, transactionQueue>>
        BY <1>0, <2>1, <2>2, QuietWaiting
  <2>3. CASE \E i \in 1 .. Len(transactionQueue) : Schedules(i)
        BY <1>0, <2>1, <2>3, ScheduleWaiting
  <2> QED BY <1>3, <2>2, <2>3, ScheduleMeans
<1>4. CASE AddPending \/ RankUpdate \/ CommandBus \/ DataBus \/ ReturnRead \/ UNCHANGED vars
      BY <1>0, <1>4, QuietSteps, QuietWaiting
<1> QED BY <1>1, <1>2, <1>3, <1>4 DEF Next, Cycle

\* A bus after its countdown holds the packet it held, one cycle nearer.
LEMMA BusAfter ==
    ASSUME NEW S, NEW s \in Seq([packet : S, left : Int]), Len(s) <= 1
    PROVE  /\ Len(AfterCountDown(s)) \in Nat /\ Len(AfterCountDown(s)) <= Len(s)
           /\ \A i \in 1 .. Len(AfterCountDown(s)) :
                  /\ i \in 1 .. Len(s) /\ s[i] \in [packet : S, left : Int]
                  /\ AfterCountDown(s)[i].packet = s[i].packet
                  /\ AfterCountDown(s)[i].left = s[i].left - 1 /\ s[i].left # 1
<1>1. /\ CountDown(s) \in Seq([packet : S, left : Int]) /\ Len(CountDown(s)) = Len(s)
      /\ \A i \in 1 .. Len(s) : /\ CountDown(s)[i].packet = s[i].packet
                                /\ CountDown(s)[i].left = s[i].left - 1
      BY CountDownType
<1>2. Len(s) \in Nat /\ \A i \in 1 .. Len(s) : i = 1 /\ s[i] \in [packet : S, left : Int]
  <2>1. Len(s) \in Nat
        BY LenProperties
  <2>2. \A i \in 1 .. Len(s) : s[i] \in [packet : S, left : Int]
        BY ElementOfSeq
  <2> QED BY <2>1, <2>2
<1>3. CASE HeadDue(CountDown(s))
      BY <1>2, <1>3, EmptySeq DEF AfterCountDown
<1>4. CASE ~HeadDue(CountDown(s))
  <2>1. AfterCountDown(s) = CountDown(s)
        BY <1>4 DEF AfterCountDown
  <2>2. ASSUME NEW i \in 1 .. Len(s)
        PROVE  s[i].left # 1
    <3>1. CountDown(s) # <<>> /\ i = 1
          BY <1>1, <1>2, EmptySeq
    <3> QED BY <1>1, <1>4, <3>1 DEF HeadDue
  <2> QED BY <1>1, <1>2, <2>1, <2>2
<1> QED BY <1>3, <1>4

(***************************************************************************)
(* Writes land in order                                                    *)
(***************************************************************************)
\* pop takes the writes of one address in the order they were accepted.
LEMMA PoppedWriteFirst ==
    ASSUME TypeOK, QueueInv, NEW r \in Ranks, NEW b \in Banks,
           NEW i \in 1 .. Len(queues[r][b]), Pops(r, b, i),
           NEW p, p = queues[r][b][i], ~IsReadPacket(p),
           NEW w, WaitingWrite(w, p.address), w # p.id
    PROVE  p.id < w
<1> DEFINE q == queues[r][b]
<1>1. /\ p \in BusPacket /\ Recorded(p) /\ SlotOf(p) = <<r, b>>
      /\ \A j \in 1 .. Len(transactionQueue) :
             SlotOf(transactionQueue[j]) = <<r, b>> => p.id < transactionQueue[j].id
      BY QueueTypes DEF QueueInv
<1>2. accepted[w].address = p.address /\ ~IsRead(w) /\ Waiting(w)
      BY DEF WaitingWrite
<1>3. CASE \E j \in 1 .. Len(transactionQueue) : transactionQueue[j].id = w
  <2>1. PICK j \in 1 .. Len(transactionQueue) : transactionQueue[j].id = w
        BY <1>3
  <2>2. transactionQueue[j].address = p.address
        BY <1>2, <2>1 DEF QueueInv, Recorded
  <2>3. SlotOf(transactionQueue[j]) = SlotOf(p)
        BY <2>2 DEF SlotOf, RankOf, BankOf
  <2> QED BY <1>1, <2>1, <2>3
<1>4. CASE \E s \in Ranks, c \in Banks : \E m \in 1 .. Len(queues[s][c]) :
               queues[s][c][m].id = w
  <2>1. PICK s \in Ranks, c \in Banks : \E m \in 1 .. Len(queues[s][c]) :
               queues[s][c][m].id = w
        BY <1>4
  <2>2. PICK m \in 1 .. Len(queues[s][c]) : queues[s][c][m].id = w
        BY <2>1
  <2>3. PICK x : x = queues[s][c][m]
        OBVIOUS
  <2>4. /\ x \in BusPacket /\ x.address = p.address /\ ~IsReadPacket(x)
        /\ SlotOf(x) = <<s, c>>
        BY <1>2, <2>2, <2>3, QueueTypes DEF QueueInv, Recorded
  <2>5. SlotOf(x) = SlotOf(p) /\ RankOf(x) = RankOf(p) /\ BankOf(x) = BankOf(p)
        /\ RowOf(x) = RowOf(p)
        BY <2>4 DEF SlotOf, RankOf, BankOf, RowOf
  <2>6. s = r /\ c = b
        BY <1>1, <2>4, <2>5
  <2>7. m \in 1 .. Len(q) /\ x = q[m] /\ Len(q) \in Nat
        BY <2>3, <2>6, QueueTypes
  <2>8. m # i
        BY <2>2, <2>3, <2>7
  <2>9. CASE i < m
    <3>1. Increasing(q)
          BY DEF QueueInv
    <3> QED BY <2>2, <2>3, <2>7, <2>9, <3>1 DEF Increasing
  <2>10. CASE m < i
    <3>1. i \in Eligible(q) /\ \A j \in Eligible(q) : i <= j
          BY DEF Pops
    <3>2. isIssuable(x) <=> isIssuable(p)
          BY <1>1, <2>4, <2>5 DEF isIssuable, BusPacket, IsReadPacket
    <3>3. isIssuable(q[i])
          BY <3>1 DEF Eligible
    <3>4. isIssuable(q[m])
          BY <2>7, <3>2, <3>3
    <3>5. m \in 1 .. i - 1
          BY <2>7, <2>10
    <3>6. CASE rowBufferPolicy = "OpenPage"
      <4>1. ~ \E j \in 1 .. i - 1 : BankOf(q[j]) = BankOf(q[i]) /\ RowOf(q[j]) = RowOf(q[i])
            BY <3>1, <3>6 DEF Eligible
      <4> QED BY <2>5, <2>7, <3>5, <4>1
    <3>7. CASE rowBufferPolicy = "ClosePage"
      <4>1. queuingStructure = "PerRankPerBank" => i = 1
            BY <3>1, <3>7 DEF Eligible
      <4>2. queuingStructure # "PerRankPerBank"
            BY <2>7, <2>10, <4>1
      <4>3. m \in Eligible(q)
            BY <2>7, <3>4, <3>7, <4>2 DEF Eligible
      <4> QED BY <2>7, <2>10, <3>1, <4>3
    <3> QED BY <3>6, <3>7, ConfigAssumption
  <2> QED BY <2>7, <2>8, <2>9, <2>10
<1> QED BY <1>2, <1>3, <1>4 DEF Waiting

\* A write on its way stays on its way while its address keeps older data.
LEMMA StillOnItsWay ==
    ASSUME TypeOK, QueueInv, [Next]_vars, NEW p, OnItsWay(p), storage'[p.address] <= p.id
    PROVE  OnItsWay(p)'
<1>1. /\ Len(accepted) \in Nat /\ Len(accepted') \in Nat
      /\ Len(accepted) <= Len(accepted')
      /\ \A id \in 1 .. Len(accepted) : accepted'[id] = accepted[id]
      /\ \A w \in 1 .. Len(accepted) : Waiting(w)' => Waiting(w)
      BY HistoryGrows
<1>2. p.id \in 1 .. Len(accepted) /\ accepted[p.id].address = p.address
      /\ ~IsRead(p.id) /\ p.data = p.id
      BY DEF OnItsWay, Recorded
<1>3. p.id \in 1 .. Len(accepted') /\ accepted'[p.id] = accepted[p.id]
      BY <1>1, <1>2
<1>4. Recorded(p)' /\ ~IsRead(p.id)'
      BY <1>2, <1>3 DEF Recorded, IsRead
<1>5. ASSUME NEW w \in 1 .. Len(accepted'), WaitingWrite(w, p.address)'
      PROVE  p.id < w
  <2>1. CASE w \in 1 .. Len(accepted)
    <3>1. accepted'[w] = accepted[w] /\ Waiting(w)
          BY <1>1, <1>5, <2>1 DEF WaitingWrite
    <3>2. WaitingWrite(w, p.address)
          BY <1>5, <3>1 DEF WaitingWrite, IsRead
    <3> QED BY <2>1, <3>2 DEF OnItsWay
  <2>2. CASE w \notin 1 .. Len(accepted)
        BY <1>1, <1>2, <2>2
  <2> QED BY <2>1, <2>2
<1> QED BY <1>2, <1>4, <1>5 DEF OnItsWay

\* So do the data that is stored.
LEMMA StillOlder ==
    ASSUME TypeOK, QueueInv, [Next]_vars, NEW a \in Address, NEW v \in Nat,
           v <= Len(accepted), \A w \in 1 .. Len(accepted) : WaitingWrite(w, a) => v < w
    PROVE  /\ v <= Len(accepted')
           /\ \A w \in 1 .. Len(accepted') : WaitingWrite(w, a)' => v < w
<1>1. /\ Len(accepted) \in Nat /\ Len(accepted') \in Nat
      /\ Len(accepted) <= Len(accepted')
      /\ \A id \in 1 .. Len(accepted) : accepted'[id] = accepted[id]
      /\ \A w \in 1 .. Len(accepted) : Waiting(w)' => Waiting(w)
      BY HistoryGrows
<1>2. ASSUME NEW w \in 1 .. Len(accepted'), WaitingWrite(w, a)'
      PROVE  v < w
  <2>1. CASE w \in 1 .. Len(accepted)
    <3>1. accepted'[w] = accepted[w] /\ Waiting(w)
          BY <1>1, <1>2, <2>1 DEF WaitingWrite
    <3>2. WaitingWrite(w, a)
          BY <1>2, <3>1 DEF WaitingWrite, IsRead
    <3> QED BY <2>1, <3>2
  <2>2. CASE w \notin 1 .. Len(accepted)
        BY <1>1, <2>2
  <2> QED BY <2>1, <2>2
<1> QED BY <1>1, <1>2

\* WriteInv of the next state, said about its packets one at a time.
LEMMA WriteInvNext ==
    ASSUME Len(dataBus') <= 1,
           \A i \in 1 .. Len(dataBus') : \A p : p = dataBus'[i].packet =>
               /\ OnItsWay(p)'
               /\ \A j \in 1 .. Len(writeDataToSend') :
                      writeDataToSend'[j].packet.address = p.address
                          => p.id < writeDataToSend'[j].packet.id,
           \A i \in 1 .. Len(writeDataToSend') : \A p : p = writeDataToSend'[i].packet =>
               /\ OnItsWay(p)'
               /\ \A j \in i + 1 .. Len(writeDataToSend') :
                      writeDataToSend'[j].packet.address = p.address
                          => p.id < writeDataToSend'[j].packet.id,
           \A a \in Address :
               /\ storage'[a] <= Len(accepted')
               /\ \A w \in 1 .. Len(accepted') : WaitingWrite(w, a)' => storage'[a] < w
    PROVE  WriteInv'
<1>1. ASSUME NEW i \in 1 .. Len(dataBus')
      PROVE  (OnItsWay(dataBus[i].packet) /\ NewerFrom(dataBus[i].packet, 1))'
  <2>1. PICK p : p = dataBus'[i].packet
        OBVIOUS
  <2>2. OnItsWay(p)'
        BY <2>1
  <2>3. OnItsWay(dataBus[i].packet)'
        BY <2>1, <2>2 DEF OnItsWay, Recorded, IsRead, WaitingWrite
  <2>4. NewerFrom(dataBus[i].packet, 1)'
        BY <2>1 DEF NewerFrom
  <2> QED BY <2>3, <2>4
<1>2. ASSUME NEW i \in 1 .. Len(writeDataToSend')
      PROVE  (/\ OnItsWay(writeDataToSend[i].packet)
              /\ NewerFrom(writeDataToSend[i].packet, i + 1))'
  <2>1. PICK p : p = writeDataToSend'[i].packet
        OBVIOUS
  <2>2. OnItsWay(p)'
        BY <2>1
  <2>3. OnItsWay(writeDataToSend[i].packet)'
        BY <2>1, <2>2 DEF OnItsWay, Recorded, IsRead, WaitingWrite
  <2>4. NewerFrom(writeDataToSend[i].packet, i + 1)'
        BY <2>1 DEF NewerFrom
  <2> QED BY <2>3, <2>4
<1> QED BY <1>1, <1>2 DEF WriteInv

\* Steps that leave the data of writes where it is.
LEMMA QuietWrites ==
    ASSUME TypeOK, QueueInv, WriteInv, [Next]_vars,
           UNCHANGED <<dataBus, writeDataToSend, storage>>
    PROVE  WriteInv'
<1>1. ASSUME NEW p, OnItsWay(p)
      PROVE  OnItsWay(p)'
  <2>1. storage'[p.address] <= p.id
        BY <1>1 DEF OnItsWay
  <2> QED BY <1>1, <2>1, StillOnItsWay
<1>2. ASSUME NEW a \in Address
      PROVE  /\ storage'[a] <= Len(accepted')
             /\ \A w \in 1 .. Len(accepted') : WaitingWrite(w, a)' => storage'[a] < w
  <2>1. PICK v : v = storage[a]
        OBVIOUS
  <2>2. v \in Nat /\ v <= Len(accepted)
        /\ \A w \in 1 .. Len(accepted) : WaitingWrite(w, a) => v < w
        BY <2>1 DEF WriteInv, TypeOK
  <2>3. /\ v <= Len(accepted')
        /\ \A w \in 1 .. Len(accepted') : WaitingWrite(w, a)' => v < w
        BY <2>2, StillOlder
  <2> QED BY <2>1, <2>3
<1>3. ASSUME NEW i \in 1 .. Len(dataBus'), NEW p, p = dataBus'[i].packet
      PROVE  /\ OnItsWay(p)'
             /\ \A j \in 1 .. Len(writeDataToSend') :
                    writeDataToSend'[j].packet.address = p.address
                        => p.id < writeDataToSend'[j].packet.id
  <2>1. OnItsWay(p) /\ NewerFrom(p, 1)
        BY <1>3 DEF WriteInv
  <2> QED BY <1>1, <2>1 DEF NewerFrom
<1>4. ASSUME NEW i \in 1 .. Len(writeDataToSend'), NEW p, p = writeDataToSend'[i].packet
      PROVE  /\ OnItsWay(p)'
             /\ \A j \in i + 1 .. Len(writeDataToSend') :
                    writeDataToSend'[j].packet.address = p.address
                        => p.id < writeDataToSend'[j].packet.id
  <2>1. OnItsWay(p) /\ NewerFrom(p, i + 1)
        BY <1>4 DEF WriteInv
  <2> QED BY <1>1, <2>1 DEF NewerFrom
<1>5. Len(dataBus') <= 1
      BY DEF WriteInv
<1> QED BY <1>2, <1>3, <1>4, <1>5, WriteInvNext

\* The data of a write that is popped goes to the end of the list.
LEMMA PopWrites ==
    ASSUME TypeOK, QueueInv, WriteInv, [Next]_vars,
           NEW r \in Ranks, NEW b \in Banks, NEW k \in 1 .. Len(queues[r][b]), Pops(r, b, k),
           UNCHANGED <<transactionQueue, accepted, dataBus, storage>>
    PROVE  WriteInv'
<1> DEFINE wd == writeDataToSend
<1>1. PICK c : c = queues[r][b][k]
      OBVIOUS
<1>2. c \in BusPacket /\ Recorded(c) /\ (IsReadPacket(c) <=> IsRead(c.id))
      BY <1>1, QueueTypes DEF QueueInv
<1>3. CASE IsReadPacket(c)
  <2>1. wd' = wd
        BY <1>1, <1>3 DEF Pops, IsReadPacket, ReadPackets, WritePackets
  <2> QED BY <2>1, QuietWrites
<1>4. CASE ~IsReadPacket(c)
  <2>1. wd' = Append(wd, WriteData(c))
        BY <1>1, <1>2, <1>4 DEF Pops, IsReadPacket, BusPacket
  <2>2. PICK x : x = WriteData(c).packet
        OBVIOUS
  <2>3. x.address = c.address /\ x.id = c.id /\ x.data = c.id /\ c.address \in Address
        /\ c.id \in Nat
        BY <1>2, <2>2 DEF WriteData, BusPacket
  <2>4. /\ Len(wd') = Len(wd) + 1 /\ wd'[Len(wd) + 1].packet = x /\ Len(wd) \in Nat
        /\ \A i \in 1 .. Len(wd) : wd'[i] = wd[i]
        BY <1>2, <2>1, <2>2, WriteDataType, AppendProperties, LenProperties DEF TypeOK
  <2>5. Waiting(c.id) /\ ~Waiting(c.id)'
        BY <1>1, PopWaiting
  <2>6. WaitingWrite(c.id, c.address)
        BY <1>2, <1>4, <2>5 DEF WaitingWrite, Recorded
  <2>7. c.id \in 1 .. Len(accepted) /\ accepted[c.id].address = c.address
        BY <1>2 DEF Recorded
  <2>8. storage[c.address] < c.id /\ storage[c.address] \in Nat
        BY <2>3, <2>6, <2>7 DEF WriteInv, TypeOK
  <2>9. ASSUME NEW w \in 1 .. Len(accepted'), WaitingWrite(w, c.address)'
        PROVE  c.id < w
    <3>1. Waiting(w) /\ w # c.id
          BY <1>1, <2>5, <2>9, PopWaiting DEF WaitingWrite
    <3>2. WaitingWrite(w, c.address)
          BY <2>9, <3>1 DEF WaitingWrite, IsRead
    <3> QED BY <1>1, <1>4, <3>1, <3>2, PoppedWriteFirst
  <2>10. OnItsWay(x)'
    <3>1. Recorded(x)' /\ ~IsRead(x.id)'
          BY <1>2, <1>4, <2>3, <2>7 DEF Recorded, IsRead
    <3>2. storage'[x.address] <= x.id
          BY <2>3, <2>8
    <3> QED BY <2>3, <2>9, <3>1, <3>2 DEF OnItsWay
  <2>11. ASSUME NEW p, OnItsWay(p), p.address = c.address
         PROVE  p.id < x.id
         BY <2>3, <2>6, <2>7, <2>11 DEF OnItsWay
  <2>12. ASSUME NEW p, OnItsWay(p)
         PROVE  OnItsWay(p)'
    <3>1. storage'[p.address] <= p.id
          BY <2>12 DEF OnItsWay
    <3> QED BY <2>12, <3>1, StillOnItsWay
  <2>13. ASSUME NEW i \in 1 .. Len(dataBus'), NEW p, p = dataBus'[i].packet
         PROVE  /\ OnItsWay(p)'
                /\ \A j \in 1 .. Len(wd') : wd'[j].packet.address = p.address
                                                => p.id < wd'[j].packet.id
    <3>1. OnItsWay(p) /\ NewerFrom(p, 1)
          BY <2>13 DEF WriteInv
    <3>2. \A j \in 1 .. Len(wd') : j \in 1 .. Len(wd) \/ j = Len(wd) + 1
          BY <2>4
    <3> QED BY <2>3, <2>4, <2>11, <2>12, <3>1, <3>2 DEF NewerFrom
  <2>14. ASSUME NEW i \in 1 .. Len(wd'), NEW p, p = wd'[i].packet
         PROVE  /\ OnItsWay(p)'
                /\ \A j \in i + 1 .. Len(wd') : wd'[j].packet.address = p.address
                                                    => p.id < wd'[j].packet.id
    <3>1. CASE i \in 1 .. Len(wd)
      <4>1. OnItsWay(p) /\ NewerFrom(p, i + 1)
            BY <2>4, <2>14, <3>1 DEF WriteInv
      <4>2. \A j \in i + 1 .. Len(wd') : \/ j \in i + 1 .. Len(wd) /\ j \in 1 .. Len(wd)
                                         \/ j = Len(wd) + 1
            BY <2>4
      <4> QED BY <2>3, <2>4, <2>11, <2>12, <4>1, <4>2 DEF NewerFrom
    <3>2. CASE i \notin 1 .. Len(wd)
      <4>1. i = Len(wd) + 1
            BY <2>4, <3>2
      <4>2. p = x
            BY <2>4, <2>14, <4>1
      <4>3. ~ \E j \in i + 1 .. Len(wd') : TRUE
            BY <2>4, <4>1
      <4> QED BY <2>10, <4>2, <4>3
    <3> QED BY <3>1, <3>2
  <2>15. ASSUME NEW a \in Address
         PROVE  /\ storage'[a] <= Len(accepted')
                /\ \A w \in 1 .. Len(accepted') : WaitingWrite(w, a)' => storage'[a] < w
    <3>1. PICK v : v = storage[a]
          OBVIOUS
    <3>2. v \in Nat /\ v <= Len(accepted)
          /\ \A w \in 1 .. Len(accepted) : WaitingWrite(w, a) => v < w
          BY <3>1 DEF WriteInv, TypeOK
    <3>3. /\ v <= Len(accepted')
          /\ \A w \in 1 .. Len(accepted') : WaitingWrite(w, a)' => v < w
          BY <3>2, StillOlder
    <3> QED BY <3>1, <3>3
  <2>16. Len(dataBus') <= 1
         BY DEF WriteInv
  <2> QED BY <2>13, <2>14, <2>15, <2>16, WriteInvNext
<1> QED BY <1>3, <1>4

LEMMA OneEntry ==
    ASSUME NEW x
    PROVE  /\ Len(<<x>>) = 1 /\ <<x>> # <<>>
           /\ \A i \in 1 .. Len(<<x>>) : i = 1 /\ <<x>>[i] = x
OBVIOUS

\* What the data bus does to the data of writes.
LEMMA DataBusMeans ==
    ASSUME TypeOK, DataBus, Len(dataBus) <= 1
    PROVE  /\ Len(dataBus') <= 1
           /\ \E k \in {0, 1} :
                  /\ Len(writeDataToSend') = Len(writeDataToSend) - k
                  /\ k = 1 => /\ 1 \in 1 .. Len(writeDataToSend)
                              /\ writeDataToSend[1].left = 1
                              /\ dataBus' = <<[packet |-> writeDataToSend[1].packet,
                                               left |-> DataCycles]>>
                              /\ error' = IF AfterCountDown(dataBus) # <<>>
                                          THEN "data bus collision" ELSE error
                  /\ k = 0 => dataBus' = AfterCountDown(dataBus) /\ error' = error
                  /\ \A i \in 1 .. Len(writeDataToSend') :
                         /\ i + k \in 1 .. Len(writeDataToSend)
                         /\ writeDataToSend[i + k].left \in Int
                         /\ writeDataToSend'[i].left = writeDataToSend[i + k].left - 1
                         /\ writeDataToSend'[i].packet = writeDataToSend[i + k].packet
           /\ \/ UNCHANGED <<storage, landed>> /\ ~HeadDue(CountDown(dataBus))
              \/ /\ 1 \in 1 .. Len(dataBus) /\ dataBus[1].left = 1
                 /\ dataBus[1].packet \in DataPacket
                 /\ AfterCountDown(dataBus) = <<>>
                 /\ landed' = landed \cup {dataBus[1].packet.id}
                 /\ storage' = [storage EXCEPT ![dataBus[1].packet.address] =
                                                    dataBus[1].packet.data]
<1> DEFINE wd == writeDataToSend
           db == dataBus
<1>1. /\ wd \in Seq([packet : DataPacket, left : Int]) /\ Len(wd) \in Nat
      /\ db \in Seq([packet : DataPacket, left : Int]) /\ Len(db) \in Nat
  <2>1. wd \in Seq([packet : DataPacket, left : Int]) /\ db \in Seq([packet : DataPacket, left : Int])
        BY DEF TypeOK, TimedData
  <2> QED BY <2>1, LenProperties
<1>2. wd' = EraseDue(CountDown(wd))
      BY DEF DataBus
<1>3. PICK k \in {0, 1} :
          /\ k = 1 <=> HeadDue(CountDown(wd))
          /\ Len(wd') = Len(wd) - k
          /\ \A i \in 1 .. Len(wd') : /\ i + k \in 1 .. Len(wd) /\ wd[i + k].left \in Int
                                      /\ wd'[i].left = wd[i + k].left - 1
                                      /\ wd'[i].packet = wd[i + k].packet
  <2> HIDE DEF wd
  <2> QED BY <1>1, <1>2, PassOverList
<1>4. ASSUME HeadDue(CountDown(wd))
      PROVE  /\ 1 \in 1 .. Len(wd) /\ wd[1].left = 1
             /\ db' = <<[packet |-> wd[1].packet, left |-> DataCycles]>>
             /\ error' = IF AfterCountDown(db) # <<>> THEN "data bus collision" ELSE error
  <2>1. Len(wd) >= 1 /\ wd[1].left = 1 /\ CountDown(wd)[1].packet = wd[1].packet
        BY <1>1, <1>4, DueEntry
  <2>2. 1 \in 1 .. Len(wd)
        BY <1>1, <2>1
  <2>3. /\ db' = <<[packet |-> CountDown(wd)[1].packet, left |-> DataCycles]>>
        /\ error' = IF AfterCountDown(db) # <<>> THEN "data bus collision" ELSE error
        BY <1>4 DEF DataBus
  <2>4. db' = <<[packet |-> wd[1].packet, left |-> DataCycles]>>
        BY ONLY <2>1, <2>3, Zenon
  <2> QED BY <2>1, <2>2, <2>3, <2>4
<1>5. ~HeadDue(CountDown(wd)) => db' = AfterCountDown(db) /\ error' = error
      BY DEF DataBus
<1>6. Len(AfterCountDown(db)) \in Nat /\ Len(AfterCountDown(db)) <= Len(db)
      BY <1>1, BusAfter
<1>7. Len(db') <= 1
  <2>1. CASE HeadDue(CountDown(wd))
    <3>1. db' = <<[packet |-> wd[1].packet, left |-> DataCycles]>>
          BY <1>4, <2>1, Zenon
    <3> QED BY ONLY <3>1, OneEntry
  <2>2. CASE ~HeadDue(CountDown(wd))
        BY <1>1, <1>5, <1>6, <2>2
  <2> QED BY <2>1, <2>2
<1>8. ASSUME HeadDue(CountDown(db))
      PROVE  /\ 1 \in 1 .. Len(db) /\ db[1].left = 1 /\ db[1].packet \in DataPacket
             /\ AfterCountDown(db) = <<>>
             /\ landed' = landed \cup {db[1].packet.id}
             /\ storage' = [storage EXCEPT ![db[1].packet.address] = db[1].packet.data]
  <2>1. Len(db) >= 1 /\ db[1].left = 1 /\ db[1].packet \in DataPacket
        BY <1>1, <1>8, DueEntry
  <2>2. AfterCountDown(db) = <<>>
        BY <1>8 DEF AfterCountDown
  <2> QED BY <1>1, <1>8, <2>1, <2>2 DEF DataBus, BankWrite
<1>9. ~HeadDue(CountDown(db)) => UNCHANGED <<storage, landed>>
      BY DEF DataBus
<1>10. \E n \in {0, 1} :
          /\ Len(wd') = Len(wd) - n
          /\ n = 1 => /\ 1 \in 1 .. Len(wd) /\ wd[1].left = 1
                      /\ db' = <<[packet |-> wd[1].packet, left |-> DataCycles]>>
                      /\ error' = IF AfterCountDown(db) # <<>>
                                  THEN "data bus collision" ELSE error
          /\ n = 0 => db' = AfterCountDown(db) /\ error' = error
          /\ \A i \in 1 .. Len(wd') : /\ i + n \in 1 .. Len(wd) /\ wd[i + n].left \in Int
                                      /\ wd'[i].left = wd[i + n].left - 1
                                      /\ wd'[i].packet = wd[i + n].packet
  <2> WITNESS k \in {0, 1}
  <2>1. CASE k = 1
    <3>1. HeadDue(CountDown(wd))
          BY <1>3, <2>1, Zenon
    <3>2. k # 0
          BY <2>1
    <3> QED BY <1>3, <1>4, <2>1, <3>1, <3>2, Zenon
  <2>2. CASE k = 0
    <3>1. k # 1
          BY <2>2
    <3>2. ~HeadDue(CountDown(wd))
          BY <1>3, <3>1, Zenon
    <3> QED BY <1>3, <1>5, <2>2, <3>1, <3>2, Zenon
  <2> QED BY <2>1, <2>2
<1> HIDE DEF wd, db
<1>11. \/ UNCHANGED <<storage, landed>> /\ ~HeadDue(CountDown(db))
       \/ /\ 1 \in 1 .. Len(db) /\ db[1].left = 1 /\ db[1].packet \in DataPacket
          /\ AfterCountDown(db) = <<>>
          /\ landed' = landed \cup {db[1].packet.id}
          /\ storage' = [storage EXCEPT ![db[1].packet.address] = db[1].packet.data]
       BY <1>8, <1>9
<1> QED BY <1>7, <1>10, <1>11 DEF wd, db

\* The oldest data of the list takes the bus, the data of the bus is stored.
LEMMA DataBusWrites ==
    ASSUME TypeOK, QueueInv, WriteInv, [Next]_vars, DataBus
    PROVE  WriteInv' /\ \A a \in Address : storage'[a] >= storage[a]
<1> DEFINE wd == writeDataToSend
           db == dataBus
<1>1. Len(db) <= 1 /\ Len(db) \in Nat /\ Len(wd) \in Nat
      BY LenProperties DEF WriteInv, TypeOK
<1>2. PICK k \in {0, 1} :
          /\ Len(wd') = Len(wd) - k
          /\ k = 1 => /\ 1 \in 1 .. Len(wd)
                      /\ db' = <<[packet |-> wd[1].packet, left |-> DataCycles]>>
          /\ k = 0 => db' = AfterCountDown(db)
          /\ \A i \in 1 .. Len(wd') : /\ i + k \in 1 .. Len(wd)
                                      /\ wd'[i].packet = wd[i + k].packet
      BY <1>1, DataBusMeans
<1>3. /\ storage \in [Address -> Nat] /\ storage' \in [Address -> Nat]
      /\ db \in Seq([packet : DataPacket, left : Int])
      BY NextType DEF TypeOK, TimedData
<1>4. \/ storage' = storage
      \/ /\ 1 \in 1 .. Len(db) /\ db[1].packet \in DataPacket /\ AfterCountDown(db) = <<>>
         /\ storage' = [storage EXCEPT ![db[1].packet.address] = db[1].packet.data]
      BY <1>1, DataBusMeans
<1>5. ASSUME NEW i \in 1 .. Len(wd), NEW p, p = wd[i].packet
      PROVE  storage'[p.address] <= p.id
  <2>1. OnItsWay(p) /\ p.address \in Address
    <3>1. wd[i] \in TimedData
          BY ElementOfSeq DEF TypeOK
    <3> QED BY <1>5, <3>1 DEF WriteInv, TimedData, DataPacket
  <2>2. CASE storage' = storage
        BY <2>1, <2>2 DEF OnItsWay
  <2>3. CASE /\ 1 \in 1 .. Len(db)
             /\ storage' = [storage EXCEPT ![db[1].packet.address] = db[1].packet.data]
    <3>1. PICK x : x = db[1].packet
          OBVIOUS
    <3>2. OnItsWay(x) /\ NewerFrom(x, 1)
          BY <2>3, <3>1 DEF WriteInv
    <3>3. CASE x.address = p.address
      <4>1. storage'[p.address] = x.id
            BY <1>3, <2>1, <2>3, <3>1, <3>2, <3>3 DEF OnItsWay
      <4>2. x.id < p.id
            BY <1>5, <3>2, <3>3 DEF NewerFrom
      <4>3. x.id \in Nat /\ p.id \in Nat
            BY <1>1, <2>1, <3>2, HistoryGrows DEF OnItsWay, Recorded
      <4> QED BY <4>1, <4>2, <4>3
    <3>4. CASE x.address # p.address
          BY <1>3, <2>1, <2>3, <3>1, <3>4 DEF OnItsWay
    <3> QED BY <3>3, <3>4
  <2> QED BY <1>4, <2>2, <2>3
<1>6. ASSUME NEW i \in 1 .. Len(wd), NEW p, p = wd[i].packet
      PROVE  OnItsWay(p)'
  <2>1. OnItsWay(p) /\ storage'[p.address] <= p.id
        BY <1>5, <1>6 DEF WriteInv
  <2> QED BY <2>1, StillOnItsWay
<1>7. ASSUME NEW i \in 1 .. Len(wd'), NEW p, p = wd'[i].packet
      PROVE  /\ OnItsWay(p)'
             /\ \A j \in i + 1 .. Len(wd') : wd'[j].packet.address = p.address
                                                 => p.id < wd'[j].packet.id
  <2>1. i + k \in 1 .. Len(wd) /\ p = wd[i + k].packet
        BY <1>2, <1>7
  <2>2. NewerFrom(p, i + k + 1)
        BY <2>1 DEF WriteInv
  <2>3. \A j \in i + 1 .. Len(wd') : j + k \in i + k + 1 .. Len(wd) /\ wd'[j].packet = wd[j + k].packet
        BY <1>1, <1>2
  <2> QED BY <1>6, <2>1, <2>2, <2>3 DEF NewerFrom
<1>8. ASSUME NEW i \in 1 .. Len(db'), NEW p, p = db'[i].packet
      PROVE  /\ OnItsWay(p)'
             /\ \A j \in 1 .. Len(wd') : wd'[j].packet.address = p.address
                                             => p.id < wd'[j].packet.id
  <2>1. CASE k = 1
    <3>0. db' = <<[packet |-> wd[1].packet, left |-> DataCycles]>> /\ 1 \in 1 .. Len(wd)
          BY <1>2, <2>1
    <3>1. i = 1 /\ p = wd[1].packet /\ 1 \in 1 .. Len(wd)
          BY <1>8, <3>0, OneEntry
    <3>2. NewerFrom(p, 1 + 1)
          BY <3>1 DEF WriteInv
    <3>3. \A j \in 1 .. Len(wd') : j + k \in 1 + 1 .. Len(wd) /\ wd'[j].packet = wd[j + k].packet
          BY <1>1, <1>2, <2>1
    <3> QED BY <1>6, <3>1, <3>2, <3>3 DEF NewerFrom
  <2>2. CASE k = 0
    <3>0. db' = AfterCountDown(db)
          BY <1>2, <2>2
    <3>a. /\ Len(AfterCountDown(db)) \in Nat
          /\ \A n \in 1 .. Len(AfterCountDown(db)) :
                 n \in 1 .. Len(db) /\ AfterCountDown(db)[n].packet = db[n].packet
          BY <1>1, <1>3, BusAfter
    <3>1. /\ i \in 1 .. Len(db) /\ p = db[i].packet /\ Len(AfterCountDown(db)) >= 1
          BY <1>8, <3>0, <3>a
    <3>2. storage' = storage
          BY <1>4, <3>1, EmptySeq
    <3>3. OnItsWay(p) /\ NewerFrom(p, 1)
          BY <3>1 DEF WriteInv
    <3>4. OnItsWay(p)'
      <4>1. storage'[p.address] <= p.id
            BY <3>2, <3>3 DEF OnItsWay
      <4> QED BY <3>3, <4>1, StillOnItsWay
    <3>5. \A j \in 1 .. Len(wd') : j \in 1 .. Len(wd) /\ wd'[j].packet = wd[j].packet
          BY <1>1, <1>2, <2>2
    <3> QED BY <3>3, <3>4, <3>5 DEF NewerFrom
  <2> QED BY <2>1, <2>2
<1>9. ASSUME NEW a \in Address
      PROVE  /\ storage'[a] >= storage[a] /\ storage'[a] <= Len(accepted)
             /\ \A w \in 1 .. Len(accepted) : WaitingWrite(w, a) => storage'[a] < w
  <2>1. CASE storage' = storage
        BY <1>3, <2>1 DEF WriteInv
  <2>2. CASE /\ 1 \in 1 .. Len(db)
             /\ storage' = [storage EXCEPT ![db[1].packet.address] = db[1].packet.data]
    <3>1. PICK x : x = db[1].packet
          OBVIOUS
    <3>2. OnItsWay(x)
          BY <2>2, <3>1 DEF WriteInv
    <3>3. CASE x.address = a
      <4>1. storage'[a] = x.id
            BY <1>3, <2>2, <3>1, <3>2, <3>3 DEF OnItsWay
      <4>2. x.id \in 1 .. Len(accepted) /\ storage[a] <= x.id
            /\ \A w \in 1 .. Len(accepted) : WaitingWrite(w, a) => x.id < w
            BY <3>2, <3>3 DEF OnItsWay, Recorded
      <4>3. x.id \in Nat /\ storage[a] \in Nat /\ Len(accepted) \in Nat
            BY <1>3, <4>2, HistoryGrows
      <4> QED BY <4>1, <4>2, <4>3
    <3>4. CASE x.address # a
      <4>1. storage'[a] = storage[a]
            BY <1>3, <2>2, <3>1, <3>4
      <4> QED BY <1>3, <4>1 DEF WriteInv
    <3> QED BY <3>3, <3>4
  <2> QED BY <1>4, <2>1, <2>2
<1>10. ASSUME NEW a \in Address
       PROVE  /\ storage'[a] <= Len(accepted')
              /\ \A w \in 1 .. Len(accepted') : WaitingWrite(w, a)' => storage'[a] < w
  <2>1. PICK v \in Nat : v = storage'[a]
        BY <1>3
  <2>2. /\ v <= Len(accepted)
        /\ \A w \in 1 .. Len(accepted) : WaitingWrite(w, a) => v < w
        BY <1>9, <2>1
  <2>3. /\ v <= Len(accepted')
        /\ \A w \in 1 .. Len(accepted') : WaitingWrite(w, a)' => v < w
        BY <2>2, StillOlder
  <2> QED BY <2>1, <2>3
<1>11. Len(db') <= 1
       BY <1>1, DataBusMeans
<1>12. WriteInv'
       BY <1>7, <1>8, <1>10, <1>11, WriteInvNext
<1> QED BY <1>9, <1>12

LEMMA InitWrites == Init => WriteInv
<1> SUFFICES ASSUME Init PROVE WriteInv
    OBVIOUS
<1>1. /\ Len(dataBus) = 0 /\ Len(writeDataToSend) = 0 /\ Len(accepted) = 0
      /\ \A a \in Address : storage[a] = 0
      BY EmptySeq DEF Init
<1> QED BY <1>1 DEF WriteInv

LEMMA NextWrites ==
    ASSUME TypeOK, QueueInv, WriteInv, [Next]_vars
    PROVE  WriteInv' /\ (UNCHANGED storage \/ \A a \in Address : storage'[a] >= storage[a])
<1> USE DEF busVars, rankVars
<1>1. CASE AddTransaction \/ DrainPending
      BY <1>1, ArrivalMeans, QuietWrites
<1>2. CASE AddPending
      BY <1>2, QuietWrites DEF AddPending
<1>3. CASE RankUpdate
      BY <1>3, QuietWrites DEF RankUpdate
<1>4. CASE CommandBus
      BY <1>4, QuietWrites DEF CommandBus
<1>5. CASE DataBus
      BY <1>5, DataBusWrites
<1>6. CASE IssueCommand
  <2>1. UNCHANGED <<transactionQueue, accepted, dataBus, storage>>
        BY <1>6 DEF IssueCommand, mcVars, histVars
  <2>2. CASE writeDataToSend' = writeDataToSend
        BY <2>1, <2>2, QuietWrites
  <2>3. CASE \E r \in Ranks, b \in Banks : \E i \in 1 .. Len(queues[r][b]) : Pops(r, b, i)
        BY <2>1, <2>3, PopWrites
  <2> QED BY <1>6, <2>1, <2>2, <2>3, IssueMeans
<1>7. CASE ScheduleTransaction
      BY <1>7, QuietWrites DEF ScheduleTransaction
<1>8. CASE ReturnRead
      BY <1>8, QuietWrites DEF ReturnRead
<1>9. CASE UNCHANGED vars
      BY <1>9, QuietWrites DEF vars
<1> QED BY <1>1, <1>2, <1>3, <1>4, <1>5, <1>6, <1>7, <1>8, <1>9 DEF Next, Cycle

\* Writes of one address reach the bank in the order they were accepted,
\* whatever the timing, the policies and the number of ranks: pop takes the
\* writes of an address in order and the write data is one list
\* (CommandQueue::pop, MemoryController::update).
THEOREM WritesInOrder == Spec => WritesLandInOrder
<1>1. TypeOK /\ QueueInv /\ WriteInv /\ [Next]_vars => WriteInv'
      BY NextWrites
<1>2. TypeOK /\ QueueInv /\ WriteInv /\ [Next]_vars
          => [\A a \in Address : storage'[a] >= storage[a]]_storage
      BY NextWrites
<1> QED BY <1>1, <1>2, InitType, NextType, InitQueues, NextQueues, InitWrites, PTL
        DEF Spec, WritesLandInOrder

(***************************************************************************)
(* Reads do not overtake writes                                            *)
(***************************************************************************)
\* What is needed of the configuration: closed pages, and delays after which a
\* write may go no later than a read.  RL = 2 and WL = 7 are fixed in
\* SystemConfiguration.h, and every file of ini/ has such delays.
WritesMayGoFirst ==
    /\ rowBufferPolicy = "ClosePage"
    /\ READ_TO_WRITE_DELAY <= READ_TO_READ_DELAY
    /\ WRITE_TO_WRITE_DELAY <= WRITE_TO_READ_DELAY_B

LEMMA InitMayWrite == Init => RankMayWrite
BY DEF Init, RankMayWrite

LEMMA IssueMayWrite ==
    ASSUME TypeOK, WritesMayGoFirst, RankMayWrite, IssueCommand
    PROVE  RankMayWrite'
<1>1. /\ phase' = "schedule"
      /\ \A r \in Ranks, b \in Banks : currentBankState[r][b] = "Idle"
      /\ nextRead \in [Ranks -> [Banks -> Nat]] /\ nextWrite \in [Ranks -> [Banks -> Nat]]
      BY DEF IssueCommand, Running, RankMayWrite, TypeOK
<1>2. CASE UNCHANGED bankVars
      BY <1>1, <1>2 DEF RankMayWrite, bankVars
<1>3. CASE \E r \in Ranks, b \in Banks : \E i \in 1 .. Len(queues[r][b]) : Pops(r, b, i)
  <2>1. PICK r \in Ranks, b \in Banks : \E i \in 1 .. Len(queues[r][b]) : Pops(r, b, i)
        BY <1>3
  <2>2. PICK i \in 1 .. Len(queues[r][b]) : Pops(r, b, i)
        BY <2>1
  <2>3. PICK p : p = queues[r][b][i]
        OBVIOUS
  <2>4. RankOf(p) \in Ranks /\ UpdateTiming(p)
        BY <2>2, <2>3, QueueTypes, Located DEF Pops
  <2>5. PICK k \in Ranks : k = RankOf(p)
        BY <2>4
  <2>6. PICK x \in Nat, y \in Nat :
            /\ x <= y
            /\ \A s \in Ranks, c \in Banks :
                   /\ nextWrite'[s][c] = IF s = k THEN Larger(x, nextWrite[s][c])
                                         ELSE nextWrite[s][c]
                   /\ nextRead'[s][c] = IF s = k THEN Larger(y, nextRead[s][c])
                                        ELSE nextRead[s][c]
    <3>1. CASE p.busPacketType \in ReadPackets
      <4>1. /\ nextRead' = Delay(nextRead, k, READ_TO_READ_DELAY, RANK_TO_RANK_DELAY)
            /\ nextWrite' = Delay(nextWrite, k, READ_TO_WRITE_DELAY, READ_TO_WRITE_DELAY)
            BY <2>4, <2>5, <3>1 DEF UpdateTiming
      <4>2. \A s \in Ranks, c \in Banks :
                /\ nextWrite'[s][c] = IF s = k THEN Larger(READ_TO_WRITE_DELAY, nextWrite[s][c])
                                      ELSE nextWrite[s][c]
                /\ nextRead'[s][c] = IF s = k THEN Larger(READ_TO_READ_DELAY, nextRead[s][c])
                                     ELSE nextRead[s][c]
            BY <1>1, <4>1 DEF Delay
      <4> QED BY <4>2, DelaysNat DEF WritesMayGoFirst
    <3>2. CASE p.busPacketType \notin ReadPackets
      <4>1. /\ nextWrite' = Delay(nextWrite, k, WRITE_TO_WRITE_DELAY, RANK_TO_RANK_DELAY)
            /\ nextRead' = Delay(nextRead, k, WRITE_TO_READ_DELAY_B, WRITE_TO_READ_DELAY_R)
            BY <2>4, <2>5, <3>2 DEF UpdateTiming
      <4>2. \A s \in Ranks, c \in Banks :
                /\ nextWrite'[s][c] = IF s = k THEN Larger(WRITE_TO_WRITE_DELAY, nextWrite[s][c])
                                      ELSE nextWrite[s][c]
                /\ nextRead'[s][c] = IF s = k THEN Larger(WRITE_TO_READ_DELAY_B, nextRead[s][c])
                                     ELSE nextRead[s][c]
            BY <1>1, <4>1 DEF Delay
      <4> QED BY <4>2, DelaysNat DEF WritesMayGoFirst
    <3> QED BY <3>1, <3>2
  <2>7. ASSUME NEW s \in Ranks, NEW c \in Banks, NEW d \in Banks
        PROVE  nextWrite'[s][c] <= nextRead'[s][d]
    <3>1. /\ nextWrite[s][c] <= nextRead[s][d]
          /\ nextWrite[s][c] \in Nat /\ nextRead[s][d] \in Nat
          BY <1>1 DEF RankMayWrite
    <3> QED BY <2>6, <3>1 DEF Larger
  <2> QED BY <1>1, <2>7 DEF RankMayWrite
<1> QED BY <1>2, <1>3, IssueMeans

LEMMA NextMayWrite ==
    ASSUME TypeOK, WritesMayGoFirst, RankMayWrite, [Next]_vars
    PROVE  RankMayWrite'
<1> USE DEF schedVars, bankVars, Running
<1>1. CASE AddTransaction
      BY <1>1 DEF AddTransaction, RankMayWrite
<1>2. CASE AddPending
      BY <1>2 DEF AddPending, RankMayWrite
<1>3. CASE RankUpdate
      BY <1>3 DEF RankUpdate, RankMayWrite
<1>4. CASE DrainPending
      BY <1>4 DEF DrainPending, RankMayWrite
<1>5. CASE CommandBus
      BY <1>5 DEF CommandBus, RankMayWrite
<1>6. CASE DataBus
      BY <1>6 DEF DataBus, RankMayWrite
<1>7. CASE IssueCommand
      BY <1>7, IssueMayWrite
<1>8. CASE ScheduleTransaction
      BY <1>8 DEF ScheduleTransaction, RankMayWrite
<1>9. CASE ReturnRead
  <2>1. /\ phase' = "ranks" /\ nextRead' = Tick(nextRead) /\ nextWrite' = Tick(nextWrite)
        /\ nextRead \in [Ranks -> [Banks -> Nat]] /\ nextWrite \in [Ranks -> [Banks -> Nat]]
        BY <1>9 DEF ReturnRead, TypeOK
  <2>2. ASSUME NEW s \in Ranks, NEW c \in Banks, NEW d \in Banks
        PROVE  nextWrite'[s][c] <= nextRead'[s][d]
    <3>1. /\ nextWrite[s][c] <= nextRead[s][d]
          /\ nextWrite[s][c] \in Nat /\ nextRead[s][d] \in Nat
          BY <2>1 DEF RankMayWrite
    <3>2. /\ nextWrite'[s][c] = Larger(nextWrite[s][c] - 1, 0)
          /\ nextRead'[s][d] = Larger(nextRead[s][d] - 1, 0)
          BY <2>1 DEF Tick
    <3> QED BY <3>1, <3>2 DEF Larger
  <2> QED BY <2>1, <2>2 DEF RankMayWrite
<1>10. CASE UNCHANGED vars
      BY <1>10 DEF vars, RankMayWrite
<1> QED BY <1>1, <1>2, <1>3, <1>4, <1>5, <1>6, <1>7, <1>8, <1>9, <1>10 DEF Next, Cycle

\* A read that is popped is older than every write its queue still holds.
LEMMA PoppedReadFirst ==
    ASSUME TypeOK, QueueInv, WritesMayGoFirst, RankMayWrite,
           NEW r \in Ranks, NEW b \in Banks, NEW i \in 1 .. Len(queues[r][b]),
           Pops(r, b, i), NEW p, p = queues[r][b][i], IsReadPacket(p),
           NEW w, Waiting(w), ~IsRead(w), SlotOf(accepted[w]) = <<r, b>>
    PROVE  p.id < w
<1> DEFINE q == queues[r][b]
<1>1. /\ p \in BusPacket /\ SlotOf(p) = <<r, b>> /\ RankOf(p) = r /\ BankOf(p) \in Banks
      /\ \A j \in 1 .. Len(transactionQueue) :
             SlotOf(transactionQueue[j]) = <<r, b>> => p.id < transactionQueue[j].id
      BY QueueTypes, Located DEF QueueInv, SlotOf
<1>2. CASE \E j \in 1 .. Len(transactionQueue) : transactionQueue[j].id = w
  <2>1. PICK j \in 1 .. Len(transactionQueue) : transactionQueue[j].id = w
        BY <1>2
  <2>2. transactionQueue[j].address = accepted[w].address
        BY <2>1 DEF QueueInv, Recorded
  <2>3. SlotOf(transactionQueue[j]) = SlotOf(accepted[w])
        BY <2>2 DEF SlotOf, RankOf, BankOf
  <2> QED BY <1>1, <2>1, <2>3
<1>3. CASE \E s \in Ranks, c \in Banks : \E m \in 1 .. Len(queues[s][c]) :
               queues[s][c][m].id = w
  <2>1. PICK s \in Ranks, c \in Banks : \E m \in 1 .. Len(queues[s][c]) :
               queues[s][c][m].id = w
        BY <1>3
  <2>2. PICK m \in 1 .. Len(queues[s][c]) : queues[s][c][m].id = w
        BY <2>1
  <2>3. PICK x : x = queues[s][c][m]
        OBVIOUS
  <2>4. /\ x \in BusPacket /\ x.address = accepted[w].address /\ ~IsReadPacket(x)
        /\ SlotOf(x) = <<s, c>> /\ RankOf(x) = s /\ BankOf(x) \in Banks
        BY <2>2, <2>3, QueueTypes, Located DEF QueueInv, Recorded, SlotOf
  <2>5. SlotOf(x) = SlotOf(accepted[w])
        BY <2>4 DEF SlotOf, RankOf, BankOf
  <2>6. s = r /\ c = b
        BY <2>4, <2>5
  <2>7. m \in 1 .. Len(q) /\ x = q[m] /\ Len(q) \in Nat
        BY <2>3, <2>6, QueueTypes
  <2>8. m # i
        BY <2>3, <2>4, <2>7
  <2>9. CASE i < m
    <3>1. Increasing(q)
          BY DEF QueueInv
    <3> QED BY <2>2, <2>3, <2>7, <2>9, <3>1 DEF Increasing
  <2>10. CASE m < i
    <3>1. i \in Eligible(q) /\ \A j \in Eligible(q) : i <= j
          BY DEF Pops
    <3>2. isIssuable(p) /\ (queuingStructure = "PerRankPerBank" => i = 1)
          BY <3>1 DEF Eligible, WritesMayGoFirst
    <3>3. nextRead[r][BankOf(p)] = 0
          BY <1>1, <3>2 DEF isIssuable, IsReadPacket, ReadPackets, WritePackets
    <3>4. nextWrite[r][BankOf(x)] = 0
      <4>1. nextWrite[r][BankOf(x)] <= nextRead[r][BankOf(p)]
            BY <1>1, <2>4 DEF RankMayWrite
      <4>2. nextWrite[r][BankOf(x)] \in Nat
            BY <2>4 DEF TypeOK
      <4> QED BY <3>3, <4>1, <4>2
    <3>5. isIssuable(q[m])
          BY <2>4, <2>6, <2>7, <3>4 DEF isIssuable, BusPacket, IsReadPacket
    <3>6. queuingStructure # "PerRankPerBank"
          BY <2>7, <2>10, <3>2
    <3>7. m \in Eligible(q)
          BY <2>7, <3>5, <3>6 DEF Eligible, WritesMayGoFirst
    <3> QED BY <2>7, <2>10, <3>1, <3>7
  <2> QED BY <2>7, <2>8, <2>9, <2>10
<1> QED BY <1>2, <1>3 DEF Waiting

LEMMA InitNotOvertaken == Init => ReadNeverOvertakesWrite
BY EmptySeq DEF Init, ReadNeverOvertakesWrite

LEMMA NextNotOvertaken ==
    ASSUME TypeOK, QueueInv, WritesMayGoFirst, RankMayWrite, ReadNeverOvertakesWrite,
           [Next]_vars
    PROVE  ReadNeverOvertakesWrite'
<1>1. /\ Len(accepted) \in Nat /\ Len(accepted') \in Nat /\ Len(accepted) <= Len(accepted')
      /\ \A id \in 1 .. Len(accepted) : accepted'[id] = accepted[id]
      /\ \A w \in 1 .. Len(accepted) : Waiting(w)' => Waiting(w)
      BY HistoryGrows
<1> SUFFICES ASSUME NEW w \in 1 .. Len(accepted'), NEW v \in w + 1 .. Len(accepted'),
                    ~IsRead(w)', IsRead(v)', SameQueue(v, w)', Waiting(w)'
             PROVE  Waiting(v)'
    BY DEF ReadNeverOvertakesWrite
<1>2. ASSUME v \in 1 .. Len(accepted)
      PROVE  /\ w \in 1 .. Len(accepted) /\ v \in w + 1 .. Len(accepted) /\ w < v
             /\ ~IsRead(w) /\ IsRead(v) /\ SameQueue(v, w) /\ Waiting(w) /\ Waiting(v)
  <2>1. w \in 1 .. Len(accepted) /\ v \in w + 1 .. Len(accepted) /\ w < v
        BY <1>1, <1>2
  <2>2. accepted'[w] = accepted[w] /\ accepted'[v] = accepted[v]
        BY <1>1, <1>2, <2>1
  <2>3. ~IsRead(w) /\ IsRead(v) /\ SameQueue(v, w) /\ Waiting(w)
        BY <1>1, <2>1, <2>2 DEF IsRead, SameQueue, RankOf, BankOf
  <2> QED BY <2>1, <2>3 DEF ReadNeverOvertakesWrite
<1>3. CASE AddTransaction \/ DrainPending
  <2>1. queues' = queues
        BY <1>3, ArrivalMeans
  <2>2. CASE UNCHANGED <<transactionQueue, accepted>>
        BY <1>2, <2>1, <2>2, QuietWaiting
  <2>3. CASE \E req \in Request : Accept(req)
    <3>1. PICK req \in Request : Accept(req)
          BY <2>3
    <3>2. \A u : Waiting(u)' <=> Waiting(u) \/ u = Len(accepted) + 1
          BY <2>1, <3>1, ArrivalWaiting
    <3>3. Len(accepted') = Len(accepted) + 1
          BY <3>1, AcceptMeans
    <3>4. v \in 1 .. Len(accepted) \/ v = Len(accepted) + 1
          BY <1>1, <3>3
    <3> QED BY <1>2, <3>2, <3>4
  <2> QED BY <1>3, <2>2, <2>3, ArrivalMeans
<1>4. CASE IssueCommand
  <2>1. UNCHANGED <<transactionQueue, accepted>>
        BY <1>4 DEF IssueCommand, mcVars, histVars
  <2>2. v \in 1 .. Len(accepted)
        BY <1>1, <2>1
  <2>3. CASE queues' = queues
        BY <1>2, <2>1, <2>2, <2>3, QuietWaiting
  <2>4. CASE \E r \in Ranks, b \in Banks : \E i \in 1 .. Len(queues[r][b]) : Pops(r, b, i)
    <3>1. PICK r \in Ranks, b \in Banks : \E i \in 1 .. Len(queues[r][b]) : Pops(r, b, i)
          BY <2>4
    <3>2. PICK i \in 1 .. Len(queues[r][b]) : Pops(r, b, i)
          BY <3>1
    <3>3. PICK p : p = queues[r][b][i]
          OBVIOUS
    <3>4. PICK id : id = p.id
          OBVIOUS
    <3>5. \A u : Waiting(u) /\ u # id => Waiting(u)'
          BY <2>1, <3>2, <3>3, <3>4, PopWaiting
    <3>6. ASSUME v = id PROVE FALSE
      <4>1. /\ Recorded(p) /\ (IsReadPacket(p) <=> IsRead(p.id)) /\ SlotOf(p) = <<r, b>>
            BY <3>3 DEF QueueInv
      <4>2. IsReadPacket(p) /\ accepted[v].address = p.address
            BY <1>2, <2>2, <3>4, <3>6, <4>1 DEF Recorded
      <4>3. SlotOf(accepted[v]) = <<r, b>>
            BY <4>1, <4>2 DEF SlotOf, RankOf, BankOf
      <4>4. SlotOf(accepted[w]) = <<r, b>>
            BY <1>2, <2>2, <4>3 DEF SlotOf, SameQueue
      <4>5. p.id < w
            BY <1>2, <2>2, <3>2, <3>3, <4>2, <4>4, PoppedReadFirst
      <4> QED BY <1>1, <1>2, <2>2, <3>4, <3>6, <4>5
    <3> QED BY <1>2, <2>2, <3>5, <3>6
  <2> QED BY <1>4, <2>3, <2>4, IssueMeans
<1>5. CASE ScheduleTransaction
  <2>1. accepted' = accepted
        BY <1>5 DEF ScheduleTransaction, histVars
  <2>2. v \in 1 .. Len(accepted)
        BY <1>1, <2>1
  <2>3. CASE UNCHANGED <<queues, transactionQueue>>
        BY <1>2, <2>2, <2>3, QuietWaiting
  <2>4. CASE \E i \in 1 .. Len(transactionQueue) : Schedules(i)
        BY <1>2, <2>2, <2>4, ScheduleWaiting
  <2> QED BY <1>5, <2>3, <2>4, ScheduleMeans
<1>6. CASE AddPending \/ RankUpdate \/ CommandBus \/ DataBus \/ ReturnRead \/ UNCHANGED vars
  <2>1. UNCHANGED <<transactionQueue, queues, accepted>>
        BY <1>6, QuietSteps
  <2>2. v \in 1 .. Len(accepted)
        BY <1>1, <2>1
  <2> QED BY <1>2, <2>1, <2>2, QuietWaiting
<1> QED BY <1>3, <1>4, <1>5, <1>6 DEF Next, Cycle

\* With closed pages and the delays of the files of ini/, a read is not popped
\* while an older write of its queue waits (CommandQueue::pop), for every number
\* of ranks and banks and both queuing structures: a rank that may read may
\* write (RankMayWrite), so the older write would have been popped.
THEOREM WritesKeepTheirLead ==
    ASSUME WritesMayGoFirst
    PROVE  Spec => []RankMayWrite /\ []ReadNeverOvertakesWrite
<1>1. TypeOK /\ RankMayWrite /\ [Next]_vars => RankMayWrite'
      BY NextMayWrite
<1>2. TypeOK /\ QueueInv /\ RankMayWrite /\ ReadNeverOvertakesWrite /\ [Next]_vars
          => ReadNeverOvertakesWrite'
      BY NextNotOvertaken
<1> QED BY <1>1, <1>2, InitType, NextType, InitQueues, NextQueues, InitMayWrite,
           InitNotOvertaken, PTL DEF Spec

(***************************************************************************)
(* Reads see the writes before them                                        *)
(***************************************************************************)
\* In addition, a burst of one cycle is not over before WRITE_TO_READ_DELAY_B
\* counts it, unless the turnaround or the command takes the missing cycle.
WritesLandBeforeReads == WritesMayGoFirst /\ (BL > 1 \/ tWTR + tCMD > 1)

LEMMA TimedTypes ==
    ASSUME TypeOK
    PROVE  /\ cmdBus \in Seq([packet : BusPacket, left : Int]) /\ Len(cmdBus) \in Nat
           /\ dataBus \in Seq([packet : DataPacket, left : Int]) /\ Len(dataBus) \in Nat
           /\ writeDataToSend \in Seq([packet : DataPacket, left : Int])
           /\ Len(writeDataToSend) \in Nat
           /\ \A i \in 1 .. Len(cmdBus) :
                  /\ cmdBus[i].left \in Int /\ cmdBus[i].packet \in BusPacket
                  /\ cmdBus[i].packet.address \in Address
                  /\ RankOf(cmdBus[i].packet) \in Ranks
           /\ \A i \in 1 .. Len(dataBus) :
                  /\ dataBus[i].left \in Int /\ RankOf(dataBus[i].packet) \in Ranks
           /\ \A i \in 1 .. Len(writeDataToSend) :
                  /\ writeDataToSend[i].left \in Int
                  /\ RankOf(writeDataToSend[i].packet) \in Ranks
<1>1. /\ cmdBus \in Seq([packet : BusPacket, left : Int])
      /\ dataBus \in Seq([packet : DataPacket, left : Int])
      /\ writeDataToSend \in Seq([packet : DataPacket, left : Int])
      BY DEF TypeOK, TimedCommand, TimedData
<1>2. Len(cmdBus) \in Nat /\ Len(dataBus) \in Nat /\ Len(writeDataToSend) \in Nat
      BY <1>1, LenProperties
<1>3. \A p \in DataPacket : RankOf(p) \in Ranks
  <2>1. \A p \in DataPacket : p.address \in Address
        BY DEF DataPacket
  <2> QED BY <2>1, Located
<1>4. \A p \in BusPacket : p.address \in Address /\ RankOf(p) \in Ranks
  <2>1. \A p \in BusPacket : p.address \in Address
        BY DEF BusPacket
  <2> QED BY <2>1, Located
<1>5. ASSUME NEW i \in 1 .. Len(cmdBus) PROVE cmdBus[i] \in [packet : BusPacket, left : Int]
      BY <1>1, ElementOfSeq
<1>6. ASSUME NEW i \in 1 .. Len(dataBus) PROVE dataBus[i] \in [packet : DataPacket, left : Int]
      BY <1>1, ElementOfSeq
<1>7. ASSUME NEW i \in 1 .. Len(writeDataToSend)
      PROVE  writeDataToSend[i] \in [packet : DataPacket, left : Int]
      BY <1>1, ElementOfSeq
<1> QED BY <1>1, <1>2, <1>3, <1>4, <1>5, <1>6, <1>7

\* DataInTime of the next state, said about its packets one at a time.
LEMMA DataInTimeNext ==
    ASSUME \A i \in 1 .. Len(dataBus') : \A n, k :
               n = dataBus'[i].left /\ k = RankOf(dataBus'[i].packet) => InTime(n, k)',
           \A i \in 1 .. Len(writeDataToSend') : \A n, k :
               /\ n = writeDataToSend'[i].left + DataCycles
               /\ k = RankOf(writeDataToSend'[i].packet)
               => InTime(n, k)'
    PROVE  DataInTime'
<1>1. ASSUME NEW i \in 1 .. Len(dataBus')
      PROVE  InTime(dataBus[i].left, RankOf(dataBus[i].packet))'
  <2>1. PICK n, k : n = dataBus'[i].left /\ k = RankOf(dataBus'[i].packet)
        OBVIOUS
  <2>2. InTime(n, k)' /\ k = RankOf(dataBus[i].packet)'
        BY <2>1 DEF RankOf
  <2> QED BY <2>1, <2>2 DEF InTime
<1>2. ASSUME NEW i \in 1 .. Len(writeDataToSend')
      PROVE  InTime(writeDataToSend[i].left + DataCycles, RankOf(writeDataToSend[i].packet))'
  <2>1. PICK n, k : /\ n = writeDataToSend'[i].left + DataCycles
                    /\ k = RankOf(writeDataToSend'[i].packet)
        OBVIOUS
  <2>2. InTime(n, k)' /\ k = RankOf(writeDataToSend[i].packet)'
        BY <2>1 DEF RankOf
  <2> QED BY <2>1, <2>2 DEF InTime
<1> QED BY <1>1, <1>2 DEF DataInTime

\* Steps that leave the data of writes where it is, and its deadlines too.
LEMMA QuietInTime ==
    ASSUME DataInTime, UNCHANGED <<dataBus, writeDataToSend>>,
           \A n \in Int, k \in Ranks : InTime(n, k) => InTime(n, k)', TypeOK
    PROVE  DataInTime'
<1>1. DataCycles \in Nat \ {0}
      BY ConfigAssumption DEF DataCycles, BurstCycles
<1>2. ASSUME NEW i \in 1 .. Len(dataBus'), NEW n, NEW k,
             n = dataBus'[i].left, k = RankOf(dataBus'[i].packet)
      PROVE  InTime(n, k)'
  <2>1. InTime(n, k) /\ n \in Int /\ k \in Ranks
        BY <1>2, TimedTypes DEF DataInTime
  <2> QED BY <2>1
<1>3. ASSUME NEW i \in 1 .. Len(writeDataToSend'), NEW n, NEW k,
             n = writeDataToSend'[i].left + DataCycles,
             k = RankOf(writeDataToSend'[i].packet)
      PROVE  InTime(n, k)'
  <2>1. InTime(n, k) /\ n \in Int /\ k \in Ranks
        BY <1>1, <1>3, TimedTypes DEF DataInTime
  <2> QED BY <2>1
<1> QED BY <1>2, <1>3, DataInTimeNext

LEMMA DataBusInTime ==
    ASSUME TypeOK, CountdownInv, DataInTime, DataBus, [Next]_vars, Len(dataBus) <= 1
    PROVE  DataInTime'
<1> DEFINE wd == writeDataToSend
           db == dataBus
<1>0. DataCycles \in Nat \ {0}
      BY ConfigAssumption DEF DataCycles, BurstCycles
<1>1. /\ phase = "data" /\ phase' = "issue" /\ Slack = 1 /\ Slack' = 0
      /\ UNCHANGED <<nextRead, cmdBus>> /\ nextRead \in [Ranks -> [Banks -> Nat]]
      BY DEF DataBus, Running, Slack, bankVars, TypeOK
<1>2. tCMD \in Nat
      BY ConfigAssumption
<1>3. ASSUME NEW n \in Int, NEW k \in Ranks, InTime(n, k), n - 1 >= 1
      PROVE  InTime(n - 1, k)'
  <2>1. ASSUME NEW b \in Banks PROVE n - 1 < nextRead'[k][b] + tCMD + Slack'
    <3>1. n < nextRead[k][b] + tCMD + Slack /\ nextRead[k][b] \in Nat
          BY <1>1, <1>3 DEF InTime
    <3> QED BY <1>1, <1>2, <3>1
  <2>2. ASSUME NEW i \in 1 .. Len(cmdBus'), IsReadPacket(cmdBus'[i].packet),
               RankOf(cmdBus'[i].packet) = k
        PROVE  n - 1 < cmdBus'[i].left + 0
    <3>1. n < cmdBus[i].left + 1 /\ cmdBus[i].left \in Int
          BY <1>1, <1>3, <2>2, TimedTypes DEF InTime
    <3> QED BY <1>1, <3>1
  <2> QED BY <1>1, <1>3, <2>1, <2>2 DEF InTime, IsReadPacket, RankOf
<1>4. PICK m \in {0, 1} :
          /\ Len(wd') = Len(wd) - m
          /\ m = 1 => /\ 1 \in 1 .. Len(wd) /\ wd[1].left = 1
                      /\ db' = <<[packet |-> wd[1].packet, left |-> DataCycles]>>
          /\ m = 0 => db' = AfterCountDown(db)
          /\ \A i \in 1 .. Len(wd') : /\ i + m \in 1 .. Len(wd)
                                      /\ wd[i + m].left \in Int
                                      /\ wd'[i].left = wd[i + m].left - 1
                                      /\ wd'[i].packet = wd[i + m].packet
      BY DataBusMeans
<1>5. ASSUME NEW i \in 1 .. Len(wd'), NEW n, NEW k, n = wd'[i].left + DataCycles,
             k = RankOf(wd'[i].packet)
      PROVE  InTime(n, k)'
  <2>1. wd'[i].left >= 1
        BY <1>5, NextCountdown DEF CountdownInv, CountdownsStaggered, Staggered
  <2>2. PICK j \in 1 .. Len(wd) : wd[j].left \in Int /\ wd'[i].left = wd[j].left - 1
                                  /\ wd'[i].packet = wd[j].packet
        BY <1>4
  <2>3. InTime(wd[j].left + DataCycles, k) /\ k \in Ranks
        BY <1>5, <2>2, TimedTypes DEF DataInTime
  <2>4. PICK x \in Int : x = wd[j].left + DataCycles /\ n = x - 1 /\ x - 1 >= 1
        BY <1>0, <1>5, <2>1, <2>2
  <2> QED BY <1>3, <2>3, <2>4
<1>6. ASSUME NEW i \in 1 .. Len(db'), NEW n, NEW k, n = db'[i].left,
             k = RankOf(db'[i].packet)
      PROVE  InTime(n, k)'
  <2>1. CASE m = 1
    <3>0. db' = <<[packet |-> wd[1].packet, left |-> DataCycles]>> /\ 1 \in 1 .. Len(wd)
          /\ wd[1].left = 1
          BY <1>4, <2>1
    <3>1. n = DataCycles /\ k = RankOf(wd[1].packet)
          BY <1>6, <3>0, OneEntry
    <3>2. InTime(1 + DataCycles, k) /\ k \in Ranks
          BY <3>0, <3>1, TimedTypes DEF DataInTime
    <3>3. PICK x \in Int : x = 1 + DataCycles /\ n = x - 1 /\ x - 1 >= 1
          BY <1>0, <3>1
    <3> QED BY <1>3, <3>2, <3>3
  <2>2. CASE m = 0
    <3>0. db' = AfterCountDown(db)
          BY <1>4, <2>2
    <3>a. \A j \in 1 .. Len(AfterCountDown(db)) :
              /\ j \in 1 .. Len(db) /\ db[j] \in [packet : DataPacket, left : Int]
              /\ AfterCountDown(db)[j].packet = db[j].packet
              /\ AfterCountDown(db)[j].left = db[j].left - 1 /\ db[j].left # 1
          BY TimedTypes, BusAfter, Zenon
    <3>1. /\ i \in 1 .. Len(db) /\ db'[i].packet = db[i].packet
          /\ db'[i].left = db[i].left - 1 /\ db[i].left # 1
          BY <1>6, <3>0, <3>a
    <3>2. InTime(db[i].left, k) /\ k \in Ranks /\ db[i].left \in Int
          BY <1>6, <3>1, TimedTypes DEF DataInTime
    <3>3. db[i].left >= 1
          BY <3>2 DEF InTime
    <3>4. PICK x \in Int : x = db[i].left /\ n = x - 1 /\ x - 1 >= 1
          BY <1>6, <3>1, <3>2, <3>3
    <3> QED BY <1>3, <3>2, <3>4
  <2> QED BY <2>1, <2>2
<1> QED BY <1>5, <1>6, DataInTimeNext

\* A write's data lands before any read that the write delays, and a read that
\* is popped finds what is left of that delay over.
LEMMA PopInTime ==
    ASSUME TypeOK, QueueInv, WritesLandBeforeReads, DataInTime, phase = "issue",
           phase' = "schedule", dataBus' = dataBus,
           NEW r \in Ranks, NEW b \in Banks, NEW i \in 1 .. Len(queues[r][b]), Pops(r, b, i)
    PROVE  DataInTime'
<1> DEFINE wd == writeDataToSend
<1>0. DataCycles \in Nat \ {0} /\ BurstCycles \in Nat
      /\ DataCycles < BurstCycles + tWTR + tCMD
      /\ tCMD \in Nat \ {0} /\ tWTR \in Nat /\ WL \in Nat
      BY ConfigAssumption DEF DataCycles, BurstCycles, WritesLandBeforeReads
<1>1. PICK p : p = queues[r][b][i]
      OBVIOUS
<1>2. /\ p \in BusPacket /\ p.address \in Address /\ RankOf(p) \in Ranks /\ BankOf(p) \in Banks
      BY <1>1, QueueTypes, Located
<1>3. /\ UpdateTiming(p) /\ isIssuable(p) /\ cmdBus' = <<[packet |-> p, left |-> tCMD]>>
      /\ wd' = IF p.busPacketType \in WritePackets THEN Append(wd, WriteData(p)) ELSE wd
      BY <1>1 DEF Pops, Eligible
<1>4. Slack = 0 /\ Slack' = 0
      BY DEF Slack
<1>5. /\ nextRead \in [Ranks -> [Banks -> Nat]] /\ nextRead' \in [Ranks -> [Banks -> Nat]]
      BY <1>2, <1>3, UpdateTimingType DEF TypeOK
<1>6. \A k \in Ranks, c \in Banks : nextRead'[k][c] >= nextRead[k][c]
  <2>1. \A same, other \in Nat : \A k \in Ranks, c \in Banks :
            Delay(nextRead, RankOf(p), same, other)[k][c] >= nextRead[k][c]
        BY <1>2, <1>5, DelayType
  <2>2. \E same, other \in Nat : nextRead' = Delay(nextRead, RankOf(p), same, other)
        BY <1>3, DelaysNat DEF UpdateTiming
  <2> QED BY <2>1, <2>2
<1>7. \A j \in 1 .. Len(cmdBus') : cmdBus'[j].packet = p /\ cmdBus'[j].left = tCMD
      BY <1>3, OneEntry
<1>8. CASE IsReadPacket(p)
  <2>1. wd' = wd
        BY <1>3, <1>8 DEF IsReadPacket, ReadPackets, WritePackets
  <2>2. ASSUME NEW n \in Int, NEW k \in Ranks, InTime(n, k)
        PROVE  InTime(n, k)'
    <3>1. ASSUME NEW c \in Banks PROVE n < nextRead'[k][c] + tCMD + Slack'
      <4>1. n < nextRead[k][c] + tCMD + Slack /\ nextRead'[k][c] >= nextRead[k][c]
            BY <1>6, <2>2 DEF InTime
      <4>2. nextRead[k][c] \in Nat /\ nextRead'[k][c] \in Nat
            BY <1>5
      <4> QED BY <1>0, <1>4, <4>1, <4>2
    <3>2. ASSUME NEW j \in 1 .. Len(cmdBus'), IsReadPacket(cmdBus'[j].packet),
                 RankOf(cmdBus'[j].packet) = k
          PROVE  n < cmdBus'[j].left + 0
      <4>1. RankOf(p) = k
            BY <1>7, <3>2
      <4>2. nextRead[k][BankOf(p)] = 0
            BY <1>3, <1>8, <4>1 DEF isIssuable, IsReadPacket, ReadPackets, WritePackets
      <4>3. n < nextRead[k][BankOf(p)] + tCMD + Slack
            BY <1>2, <2>2 DEF InTime
      <4> QED BY <1>0, <1>4, <1>7, <4>2, <4>3
    <3>3. n >= 1
          BY <2>2 DEF InTime
    <3> QED BY <3>1, <3>2, <3>3 DEF InTime, IsReadPacket, RankOf
  <2> QED BY <2>1, <2>2, QuietInTime
<1>9. CASE ~IsReadPacket(p)
  <2>1. wd' = Append(wd, WriteData(p))
        BY <1>2, <1>3, <1>9 DEF IsReadPacket, BusPacket
  <2>2. ASSUME NEW j \in 1 .. Len(cmdBus')
        PROVE  ~IsReadPacket(cmdBus[j].packet)'
        BY <1>7, <1>9 DEF IsReadPacket
  <2>3. ASSUME NEW n \in Int, NEW k \in Ranks, InTime(n, k)
        PROVE  InTime(n, k)'
    <3>1. ASSUME NEW c \in Banks PROVE n < nextRead'[k][c] + tCMD + Slack'
      <4>1. n < nextRead[k][c] + tCMD + Slack /\ nextRead'[k][c] >= nextRead[k][c]
            BY <1>6, <2>3 DEF InTime
      <4>2. nextRead[k][c] \in Nat /\ nextRead'[k][c] \in Nat
            BY <1>5
      <4> QED BY <1>0, <1>4, <4>1, <4>2
    <3>2. n >= 1
          BY <2>3 DEF InTime
    <3> QED BY <2>2, <3>1, <3>2 DEF InTime
  <2>4. /\ Len(wd') = Len(wd) + 1 /\ wd'[Len(wd) + 1] = WriteData(p) /\ Len(wd) \in Nat
        /\ \A j \in 1 .. Len(wd) : wd'[j] = wd[j]
        BY <1>2, <2>1, WriteDataType, AppendProperties, LenProperties DEF TypeOK
  <2>5. WriteData(p).left = WL /\ RankOf(WriteData(p).packet) = RankOf(p)
        BY DEF WriteData, RankOf
  <2>6. ASSUME NEW n, NEW k, n = WL + DataCycles, k = RankOf(p)
        PROVE  InTime(n, k)'
    <3>1. ASSUME NEW c \in Banks PROVE n < nextRead'[k][c] + tCMD + Slack'
      <4>1. nextRead' = Delay(nextRead, k, WRITE_TO_READ_DELAY_B, WRITE_TO_READ_DELAY_R)
            BY <1>3, <1>9, <2>6 DEF UpdateTiming, IsReadPacket
      <4>2. nextRead'[k][c] >= WRITE_TO_READ_DELAY_B
            BY <1>2, <1>5, <2>6, <4>1, DelayType, DelaysNat
      <4>3. WRITE_TO_READ_DELAY_B = WL + BurstCycles + tWTR
            BY <1>0 DEF WRITE_TO_READ_DELAY_B, Larger
      <4>4. nextRead'[k][c] \in Nat
            BY <1>2, <1>5, <2>6
      <4> QED BY <1>0, <1>4, <2>6, <4>2, <4>3, <4>4, SMTT(60)
    <3>2. n >= 1
          BY <1>0, <2>6
    <3> QED BY <2>2, <3>1, <3>2 DEF InTime
  <2>7. ASSUME NEW j \in 1 .. Len(wd'), NEW n, NEW k, n = wd'[j].left + DataCycles,
               k = RankOf(wd'[j].packet)
        PROVE  InTime(n, k)'
    <3>1. CASE j \in 1 .. Len(wd)
      <4>1. n = wd[j].left + DataCycles /\ k = RankOf(wd[j].packet)
            BY <2>4, <2>7, <3>1
      <4>2. InTime(n, k) /\ n \in Int /\ k \in Ranks
            BY <1>0, <3>1, <4>1, TimedTypes, SMTT(60) DEF DataInTime
      <4> QED BY <2>3, <4>2
    <3>2. CASE j = Len(wd) + 1
          BY <2>4, <2>5, <2>6, <2>7, <3>2
    <3> QED BY <2>4, <3>1, <3>2
  <2>8. ASSUME NEW j \in 1 .. Len(dataBus'), NEW n, NEW k, n = dataBus'[j].left,
               k = RankOf(dataBus'[j].packet)
        PROVE  InTime(n, k)'
    <3>1. InTime(n, k) /\ n \in Int /\ k \in Ranks
          BY <2>8, TimedTypes DEF DataInTime
    <3> QED BY <2>3, <3>1
  <2> QED BY <2>7, <2>8, DataInTimeNext
<1> QED BY <1>8, <1>9

LEMMA ReturnReadInTime ==
    ASSUME TypeOK, DataInTime, ReturnRead
    PROVE  DataInTime'
<1>1. /\ phase = "return" /\ phase' = "ranks" /\ Slack = 0 /\ Slack' = 1
      /\ nextRead' = Tick(nextRead) /\ nextRead \in [Ranks -> [Banks -> Nat]]
      /\ UNCHANGED <<cmdBus, dataBus, writeDataToSend>> /\ tCMD \in Nat
      BY ConfigAssumption DEF ReturnRead, Running, Slack, busVars, TypeOK
<1>2. ASSUME NEW n \in Int, NEW k \in Ranks, InTime(n, k)
      PROVE  InTime(n, k)'
  <2>1. ASSUME NEW c \in Banks PROVE n < nextRead'[k][c] + tCMD + Slack'
    <3>1. n < nextRead[k][c] + tCMD + Slack /\ nextRead'[k][c] >= nextRead[k][c] - 1
          BY <1>1, <1>2, TickType DEF InTime
    <3>2. nextRead[k][c] \in Nat /\ nextRead'[k][c] \in Nat
          BY <1>1, TickType
    <3> QED BY <1>1, <3>1, <3>2
  <2>2. ASSUME NEW j \in 1 .. Len(cmdBus'), IsReadPacket(cmdBus'[j].packet),
               RankOf(cmdBus'[j].packet) = k
        PROVE  n < cmdBus'[j].left + 0
        BY <1>1, <1>2, <2>2 DEF InTime
  <2> QED BY <1>1, <1>2, <2>1, <2>2 DEF InTime, IsReadPacket, RankOf
<1> QED BY <1>1, <1>2, QuietInTime

LEMMA CommandBusInTime ==
    ASSUME TypeOK, DataInTime, CommandBus, Len(cmdBus) <= 1
    PROVE  DataInTime'
<1>1. /\ phase = "command" /\ phase' = "data" /\ Slack = 1 /\ Slack' = 1
      /\ cmdBus' = AfterCountDown(cmdBus)
      /\ UNCHANGED <<nextRead, dataBus, writeDataToSend>>
      BY DEF CommandBus, Running, Slack
<1>2. \A j \in 1 .. Len(cmdBus') :
          /\ j \in 1 .. Len(cmdBus) /\ cmdBus'[j].packet = cmdBus[j].packet
          /\ cmdBus'[j].left = cmdBus[j].left - 1
  <2>1. \A j \in 1 .. Len(AfterCountDown(cmdBus)) :
            /\ j \in 1 .. Len(cmdBus) /\ cmdBus[j] \in [packet : BusPacket, left : Int]
            /\ AfterCountDown(cmdBus)[j].packet = cmdBus[j].packet
            /\ AfterCountDown(cmdBus)[j].left = cmdBus[j].left - 1 /\ cmdBus[j].left # 1
        BY TimedTypes, BusAfter, Zenon
  <2> QED BY <1>1, <2>1
<1>3. ASSUME NEW n \in Int, NEW k \in Ranks, InTime(n, k)
      PROVE  InTime(n, k)'
  <2>1. n >= 1 /\ \A c \in Banks : n < nextRead'[k][c] + tCMD + Slack'
        BY <1>1, <1>3 DEF InTime
  <2>2. ASSUME NEW j \in 1 .. Len(cmdBus'), IsReadPacket(cmdBus'[j].packet),
               RankOf(cmdBus'[j].packet) = k
        PROVE  n < cmdBus'[j].left + 1
    <3>1. n < cmdBus[j].left + 0 /\ cmdBus[j].left \in Int
          BY <1>1, <1>2, <1>3, <2>2, TimedTypes DEF InTime
    <3> QED BY <1>2, <3>1
  <2> QED BY <1>1, <2>1, <2>2 DEF InTime, IsReadPacket, RankOf
<1> QED BY <1>1, <1>3, QuietInTime

\* The rest of a cycle, and arrivals.
LEMMA OtherInTime ==
    ASSUME TypeOK, DataInTime, UNCHANGED <<nextRead, cmdBus, dataBus, writeDataToSend>>,
           Slack' = Slack, phase # "data", phase' # "data"
    PROVE  DataInTime'
<1>1. \A n \in Int, k \in Ranks : InTime(n, k) => InTime(n, k)'
      BY DEF InTime, IsReadPacket, RankOf
<1> QED BY <1>1, QuietInTime

LEMMA NextInTime ==
    ASSUME TypeOK, QueueInv, CountdownInv, WritesLandBeforeReads, DataInTime, [Next]_vars,
           Len(cmdBus) <= 1, Len(dataBus) <= 1
    PROVE  DataInTime'
<1> USE DEF schedVars, busVars, bankVars, Running, BetweenCycles
<1>1. CASE AddTransaction
      BY <1>1, OtherInTime DEF AddTransaction, Slack
<1>2. CASE AddPending
      BY <1>2, OtherInTime DEF AddPending, Slack
<1>3. CASE RankUpdate
      BY <1>3, OtherInTime DEF RankUpdate, Slack
<1>4. CASE DrainPending
      BY <1>4, OtherInTime DEF DrainPending, Slack
<1>5. CASE CommandBus
      BY <1>5, CommandBusInTime
<1>6. CASE DataBus
      BY <1>6, DataBusInTime
<1>7. CASE IssueCommand
  <2>1. phase = "issue" /\ phase' = "schedule" /\ dataBus' = dataBus
        BY <1>7 DEF IssueCommand
  <2>2. CASE UNCHANGED <<queues, cmdBus, writeDataToSend, bankVars, error>>
        BY <2>1, <2>2, OtherInTime DEF Slack
  <2>3. CASE \E r \in Ranks, b \in Banks : \E i \in 1 .. Len(queues[r][b]) : Pops(r, b, i)
        BY <2>1, <2>3, PopInTime
  <2> QED BY <1>7, <2>2, <2>3, IssueMeans
<1>8. CASE ScheduleTransaction
      BY <1>8, OtherInTime DEF ScheduleTransaction, Slack
<1>9. CASE ReturnRead
      BY <1>9, ReturnReadInTime
<1>10. CASE UNCHANGED vars
  <2>1. Slack' = Slack
        BY <1>10 DEF vars, Slack
  <2>2. \A n \in Int, k \in Ranks : InTime(n, k) => InTime(n, k)'
        BY <1>10, <2>1 DEF vars, InTime, IsReadPacket, RankOf
  <2>3. UNCHANGED <<dataBus, writeDataToSend>>
        BY <1>10 DEF vars
  <2> QED BY <2>2, <2>3, QuietInTime
<1> QED BY <1>1, <1>2, <1>3, <1>4, <1>5, <1>6, <1>7, <1>8, <1>9, <1>10 DEF Next, Cycle

LEMMA InitKept == Init => WritesKept
BY EmptySeq DEF Init, WritesKept

\* A write that was popped is in the list, on the bus or in the bank.
LEMMA PopKeeps ==
    ASSUME TypeOK, QueueInv, UNCHANGED <<transactionQueue, accepted, dataBus>>,
           NEW r \in Ranks, NEW b \in Banks, NEW i \in 1 .. Len(queues[r][b]), Pops(r, b, i),
           NEW w \in 1 .. Len(accepted), ~IsRead(w)
    PROVE  /\ Waiting(w) => Waiting(w)' \/ UnderWay(w)'
           /\ UnderWay(w) => UnderWay(w)'
<1> DEFINE wd == writeDataToSend
<1>1. PICK p : p = queues[r][b][i]
      OBVIOUS
<1>2. p \in BusPacket /\ (IsReadPacket(p) <=> IsRead(p.id))
      BY <1>1, QueueTypes DEF QueueInv
<1>3. PICK id : id = p.id
      OBVIOUS
<1>4. Waiting(w) /\ w # id => Waiting(w)'
      BY <1>1, <1>3, PopWaiting
<1>5. CASE IsReadPacket(p)
  <2>1. wd' = wd
        BY <1>1, <1>5 DEF Pops, IsReadPacket, ReadPackets, WritePackets
  <2>2. w # id
        BY <1>2, <1>3, <1>5
  <2> QED BY <1>4, <2>1, <2>2 DEF UnderWay
<1>6. CASE ~IsReadPacket(p)
  <2>1. wd' = Append(wd, WriteData(p))
        BY <1>1, <1>2, <1>6 DEF Pops, IsReadPacket, BusPacket
  <2>2. /\ Len(wd') = Len(wd) + 1 /\ wd'[Len(wd) + 1] = WriteData(p) /\ Len(wd) \in Nat
        /\ \A j \in 1 .. Len(wd) : wd'[j] = wd[j]
        BY <1>2, <2>1, WriteDataType, AppendProperties, LenProperties DEF TypeOK
  <2>3. WriteData(p).packet.id = id
        BY <1>3 DEF WriteData
  <2>4. Len(wd) + 1 \in 1 .. Len(wd') /\ \A j \in 1 .. Len(wd) : j \in 1 .. Len(wd')
        BY <2>2
  <2>5. UnderWay(id)'
        BY <2>2, <2>3, <2>4 DEF UnderWay
  <2>6. ASSUME UnderWay(w) PROVE UnderWay(w)'
        BY <2>2, <2>4, <2>6 DEF UnderWay
  <2> QED BY <1>4, <2>5, <2>6
<1> QED BY <1>5, <1>6

LEMMA DataBusKeeps ==
    ASSUME TypeOK, QueueInv, WriteInv, [Next]_vars, DataBus, error' = "none", error = "none",
           NEW w \in 1 .. Len(accepted), UnderWay(w)
    PROVE  UnderWay(w)' \/ (w <= storage'[accepted[w].address] /\ w \in landed')
<1> DEFINE wd == writeDataToSend
           db == dataBus
<1>1. Len(db) <= 1 /\ Len(db) \in Nat /\ Len(wd) \in Nat
      BY TimedTypes DEF WriteInv
<1>2. PICK k \in {0, 1} :
          /\ Len(wd') = Len(wd) - k
          /\ k = 1 => /\ 1 \in 1 .. Len(wd)
                      /\ db' = <<[packet |-> wd[1].packet, left |-> DataCycles]>>
                      /\ error' = IF AfterCountDown(db) # <<>>
                                  THEN "data bus collision" ELSE error
          /\ k = 0 => db' = AfterCountDown(db)
          /\ \A i \in 1 .. Len(wd') : /\ i + k \in 1 .. Len(wd)
                                      /\ wd'[i].packet = wd[i + k].packet
  <2>1. Len(dataBus) <= 1
        BY <1>1
  <2> QED BY <2>1, DataBusMeans
<1>3. \/ ~HeadDue(CountDown(db))
      \/ /\ 1 \in 1 .. Len(db) /\ db[1].packet \in DataPacket
         /\ landed' = landed \cup {db[1].packet.id}
         /\ storage' = [storage EXCEPT ![db[1].packet.address] = db[1].packet.data]
      BY <1>1, DataBusMeans
<1>4. CASE \E i \in 1 .. Len(db) : db[i].packet.id = w
  <2>1. 1 \in 1 .. Len(db) /\ db[1].packet.id = w
        BY <1>1, <1>4
  <2>2. CASE ~HeadDue(CountDown(db))
    <3>1. AfterCountDown(db) = CountDown(db)
          BY <2>2 DEF AfterCountDown
    <3>2. /\ Len(CountDown(db)) = Len(db) /\ CountDown(db)[1].packet = db[1].packet
          /\ CountDown(db) \in Seq([packet : DataPacket, left : Int])
          BY <2>1, TimedTypes, CountDownType
    <3>3. AfterCountDown(db) # <<>>
          BY <2>1, <3>1, <3>2, EmptySeq
    <3>4. k # 1
          BY <1>2, <3>3
    <3>5. db' = CountDown(db)
          BY <1>2, <3>1, <3>4
    <3> QED BY <2>1, <3>2, <3>5 DEF UnderWay
  <2>3. CASE /\ db[1].packet \in DataPacket /\ landed' = landed \cup {db[1].packet.id}
             /\ storage' = [storage EXCEPT ![db[1].packet.address] = db[1].packet.data]
    <3>1. OnItsWay(db[1].packet)
          BY <2>1 DEF WriteInv
    <3>2. db[1].packet.data = w /\ accepted[w].address = db[1].packet.address
          BY <2>1, <3>1 DEF OnItsWay, Recorded
    <3>3. storage'[accepted[w].address] = w
          BY <2>3, <3>2 DEF DataPacket, TypeOK
    <3>4. w \in landed'
          BY <2>1, <2>3
    <3> QED BY <3>3, <3>4, HistoryGrows
  <2> QED BY <1>3, <2>2, <2>3
<1>5. CASE \E i \in 1 .. Len(wd) : wd[i].packet.id = w
  <2>1. PICK i \in 1 .. Len(wd) : wd[i].packet.id = w
        BY <1>5
  <2>2. CASE k = 1 /\ i = 1
    <3>1. db' = <<[packet |-> wd[1].packet, left |-> DataCycles]>>
          BY <1>2, <2>2
    <3>2. 1 \in 1 .. Len(db') /\ db'[1].packet = wd[1].packet
          BY <3>1, OneEntry
    <3> QED BY <2>1, <2>2, <3>2 DEF UnderWay
  <2>3. CASE ~(k = 1 /\ i = 1)
    <3>1. PICK j \in 1 .. Len(wd') : j + k = i
      <4>1. i - k \in 1 .. Len(wd') /\ (i - k) + k = i
            BY <1>1, <1>2, <2>3
      <4> QED BY <4>1
    <3>2. wd'[j].packet.id = w
          BY <1>2, <2>1, <3>1
    <3> QED BY <3>2 DEF UnderWay
  <2> QED BY <2>2, <2>3
<1> QED BY <1>4, <1>5 DEF UnderWay

LEMMA NextKept ==
    ASSUME TypeOK, QueueInv, WriteInv, WritesKept, [Next]_vars
    PROVE  WritesKept'
<1> SUFFICES ASSUME error' = "none", NEW w \in 1 .. Len(accepted'), ~IsRead(w)'
             PROVE  Waiting(w)' \/ UnderWay(w)' \/ w <= storage'[accepted'[w].address]
    BY DEF WritesKept
<1>1. /\ Len(accepted) \in Nat /\ Len(accepted') \in Nat /\ Len(accepted) <= Len(accepted')
      /\ \A id \in 1 .. Len(accepted) : accepted'[id] = accepted[id]
      BY HistoryGrows
<1>2. error = "none"
      BY DEF Next, Cycle, AddTransaction, AddPending, RankUpdate, DrainPending, CommandBus,
             DataBus, IssueCommand, ScheduleTransaction, ReturnRead, Running, BetweenCycles,
             vars
<1>3. ASSUME w \in 1 .. Len(accepted)
      PROVE  /\ accepted'[w] = accepted[w] /\ ~IsRead(w)
             /\ Waiting(w) \/ UnderWay(w) \/ w <= storage[accepted[w].address]
  <2>1. accepted'[w] = accepted[w] /\ ~IsRead(w)
        BY <1>1, <1>3 DEF IsRead
  <2> QED BY <1>2, <1>3, <2>1 DEF WritesKept
<1>4. ASSUME UNCHANGED <<dataBus, writeDataToSend, storage>>,
             w \in 1 .. Len(accepted), Waiting(w) => Waiting(w)'
      PROVE  Waiting(w)' \/ UnderWay(w)' \/ w <= storage'[accepted'[w].address]
  <2>1. UnderWay(w) => UnderWay(w)'
        BY <1>4 DEF UnderWay
  <2> QED BY <1>3, <1>4, <2>1
<1>5. CASE AddTransaction \/ DrainPending
  <2>1. UNCHANGED <<queues, dataBus, writeDataToSend, storage>>
        BY <1>5, ArrivalMeans
  <2>2. CASE UNCHANGED <<transactionQueue, accepted>>
        BY <1>4, <2>1, <2>2, QuietWaiting
  <2>3. CASE \E req \in Request : Accept(req)
    <3>1. PICK req \in Request : Accept(req)
          BY <2>3
    <3>2. \A u : Waiting(u)' <=> Waiting(u) \/ u = Len(accepted) + 1
          BY <2>1, <3>1, ArrivalWaiting
    <3>3. Len(accepted') = Len(accepted) + 1
          BY <3>1, AcceptMeans
    <3>4. w \in 1 .. Len(accepted) \/ w = Len(accepted) + 1
          BY <1>1, <3>3
    <3> QED BY <1>4, <2>1, <3>2, <3>4
  <2> QED BY <1>5, <2>2, <2>3, ArrivalMeans
<1>6. CASE IssueCommand
  <2>1. UNCHANGED <<transactionQueue, accepted, dataBus, storage>>
        BY <1>6 DEF IssueCommand, mcVars, histVars, rankVars
  <2>2. w \in 1 .. Len(accepted)
        BY <2>1
  <2>3. CASE UNCHANGED <<queues, writeDataToSend>>
        BY <1>4, <2>1, <2>2, <2>3, QuietWaiting
  <2>4. CASE \E r \in Ranks, b \in Banks : \E i \in 1 .. Len(queues[r][b]) : Pops(r, b, i)
    <3>1. /\ Waiting(w) => Waiting(w)' \/ UnderWay(w)'
          /\ UnderWay(w) => UnderWay(w)'
          BY <1>3, <2>1, <2>2, <2>4, PopKeeps
    <3> QED BY <1>3, <2>1, <2>2, <3>1
  <2> QED BY <1>6, <2>3, <2>4, IssueMeans
<1>7. CASE ScheduleTransaction
  <2>1. UNCHANGED <<accepted, dataBus, writeDataToSend, storage>>
        BY <1>7 DEF ScheduleTransaction, histVars, busVars, rankVars
  <2>2. w \in 1 .. Len(accepted)
        BY <2>1
  <2>3. CASE UNCHANGED <<queues, transactionQueue>>
        BY <1>4, <2>1, <2>2, <2>3, QuietWaiting
  <2>4. CASE \E i \in 1 .. Len(transactionQueue) : Schedules(i)
        BY <1>4, <2>1, <2>2, <2>4, ScheduleWaiting
  <2> QED BY <1>7, <2>3, <2>4, ScheduleMeans
<1>8. CASE DataBus
  <2>1. UNCHANGED <<transactionQueue, queues, accepted>>
        BY <1>8, QuietSteps
  <2>2. w \in 1 .. Len(accepted) /\ (Waiting(w) => Waiting(w)')
        BY <2>1, QuietWaiting
  <2>3. accepted[w].address \in Address
    <3>1. accepted[w] \in Request
          BY <2>2, ElementOfSeq DEF TypeOK
    <3> QED BY <3>1 DEF Request
  <2>4. ASSUME w <= storage[accepted[w].address]
        PROVE  w <= storage'[accepted[w].address]
    <3>1. storage'[accepted[w].address] >= storage[accepted[w].address]
          BY <1>8, <2>3, DataBusWrites
    <3>2. /\ storage'[accepted[w].address] \in Nat /\ storage[accepted[w].address] \in Nat
          BY <2>3, NextType DEF TypeOK
    <3> QED BY <1>1, <2>2, <2>4, <3>1, <3>2
  <2>5. UnderWay(w) => UnderWay(w)' \/ w <= storage'[accepted[w].address]
        BY <1>2, <1>8, <2>2, DataBusKeeps
  <2> QED BY <1>3, <2>1, <2>2, <2>4, <2>5
<1>9. CASE AddPending \/ RankUpdate \/ CommandBus \/ ReturnRead \/ UNCHANGED vars
  <2>1. UNCHANGED <<transactionQueue, queues, accepted>>
        BY <1>9, QuietSteps
  <2>2. UNCHANGED <<dataBus, writeDataToSend, storage>>
        BY <1>9 DEF AddPending, RankUpdate, CommandBus, ReturnRead, vars, busVars, rankVars
  <2> QED BY <1>4, <2>1, <2>2, QuietWaiting
<1> QED BY <1>5, <1>6, <1>7, <1>8, <1>9 DEF Next, Cycle

\* Fresh data stays fresh: later writes do not come before the read.
LEMMA StillFresh ==
    ASSUME TypeOK, QueueInv, [Next]_vars, NEW id \in 1 .. Len(accepted), NEW a, NEW data,
           FreshData(id, a, data)
    PROVE  FreshData(id, a, data)'
<1>1. /\ Len(accepted) \in Nat /\ Len(accepted') \in Nat /\ Len(accepted) <= Len(accepted')
      /\ \A w \in 1 .. Len(accepted) : accepted'[w] = accepted[w]
      BY HistoryGrows
<1>2. \A w \in 1 .. id - 1 : w \in 1 .. Len(accepted)
      BY <1>1
<1> QED BY <1>1, <1>2 DEF FreshData, IsRead

\* ReadInv of the next state, said about its packets one at a time.
LEMMA ReadInvNext ==
    ASSUME TypeOK, QueueInv, [Next]_vars,
           Len(cmdBus') <= 1,
           \A i \in 1 .. Len(cmdBus') : \A p : p = cmdBus'[i].packet =>
               Recorded(p) /\ (IsReadPacket(p) <=> IsRead(p.id)) /\ ~Waiting(p.id)',
           \A r \in Ranks : \A i \in 1 .. Len(readReturn'[r]) : Fresh(readReturn'[r][i].packet),
           \A r \in Ranks : \A i \in 1 .. Len(rankBus'[r]) : Fresh(rankBus'[r][i].packet),
           \A i \in 1 .. Len(returnTransaction') : Fresh(returnTransaction'[i]),
           \A c \in returned' : /\ c.packet \in 1 .. Len(accepted)
                                /\ FreshData(c.packet, accepted[c.packet].address, c.data)
    PROVE  ReadInv'
<1>1. /\ Len(accepted) \in Nat /\ Len(accepted') \in Nat /\ Len(accepted) <= Len(accepted')
      /\ \A w \in 1 .. Len(accepted) : w \in 1 .. Len(accepted') /\ accepted'[w] = accepted[w]
      BY HistoryGrows
<1>2. ASSUME NEW p, Fresh(p)
      PROVE  Fresh(p)'
  <2>1. Recorded(p) /\ FreshData(p.id, p.address, p.data) /\ p.id \in 1 .. Len(accepted)
        BY <1>2 DEF Fresh, Recorded
  <2>a. PICK id \in 1 .. Len(accepted) : id = p.id
        BY <2>1
  <2>2. PICK a, d : id = p.id /\ a = p.address /\ d = p.data
        BY <2>a
  <2>3. FreshData(id, a, d)'
        BY <2>1, <2>2, StillFresh
  <2>4. Recorded(p)'
        BY <1>1, <2>1 DEF Recorded
  <2> QED BY <2>2, <2>3, <2>4 DEF Fresh, FreshData, IsRead
<1>3. ASSUME NEW i \in 1 .. Len(cmdBus')
      PROVE  (LET p == cmdBus[i].packet IN
                  Recorded(p) /\ (IsReadPacket(p) <=> IsRead(p.id)) /\ ~Waiting(p.id))'
  <2>1. PICK p : p = cmdBus'[i].packet
        OBVIOUS
  <2>2. Recorded(p) /\ (IsReadPacket(p) <=> IsRead(p.id)) /\ ~Waiting(p.id)'
        BY <2>1
  <2>3. Recorded(p)' /\ (IsReadPacket(p) <=> IsRead(p.id))'
        BY <1>1, <2>2 DEF Recorded, IsRead
  <2>4. (Recorded(cmdBus[i].packet)
            /\ (IsReadPacket(cmdBus[i].packet) <=> IsRead(cmdBus[i].packet.id)))'
        BY <2>1, <2>3 DEF Recorded, IsReadPacket, IsRead
  <2>5. ~Waiting(cmdBus[i].packet.id)'
        BY <2>1, <2>2 DEF Waiting
  <2> QED BY <2>4, <2>5
<1>4. ASSUME NEW r \in Ranks, NEW i \in 1 .. Len(readReturn'[r])
      PROVE  Fresh(readReturn[r][i].packet)'
  <2>1. PICK p : p = readReturn'[r][i].packet
        OBVIOUS
  <2>2. Fresh(p)'
        BY <1>2, <2>1
  <2> QED BY <2>1, <2>2 DEF Fresh, Recorded, FreshData, IsRead
<1>5. ASSUME NEW r \in Ranks, NEW i \in 1 .. Len(rankBus'[r])
      PROVE  Fresh(rankBus[r][i].packet)'
  <2>1. PICK p : p = rankBus'[r][i].packet
        OBVIOUS
  <2>2. Fresh(p)'
        BY <1>2, <2>1
  <2> QED BY <2>1, <2>2 DEF Fresh, Recorded, FreshData, IsRead
<1>6. ASSUME NEW i \in 1 .. Len(returnTransaction')
      PROVE  Fresh(returnTransaction[i])'
  <2>1. PICK p : p = returnTransaction'[i]
        OBVIOUS
  <2>2. Fresh(p)'
        BY <1>2, <2>1
  <2> QED BY <2>1, <2>2 DEF Fresh, Recorded, FreshData, IsRead
<1>7. ASSUME NEW c \in returned'
      PROVE  (/\ c.packet \in 1 .. Len(accepted)
              /\ FreshData(c.packet, accepted[c.packet].address, c.data))'
  <2>a. PICK id \in 1 .. Len(accepted) : id = c.packet
        BY <1>7
  <2>1. PICK a, d : id = c.packet /\ a = accepted[c.packet].address /\ d = c.data
        BY <2>a
  <2>2. FreshData(id, a, d)'
        BY <1>7, <2>1, StillFresh
  <2>3. id \in 1 .. Len(accepted') /\ a = accepted'[id].address
        BY <1>1, <2>1
  <2> QED BY <2>1, <2>2, <2>3 DEF FreshData, IsRead
<1> QED BY <1>3, <1>4, <1>5, <1>6, <1>7 DEF ReadInv

\* What is on the command bus and does not change keeps not waiting.
LEMMA CommandStays ==
    ASSUME TypeOK, QueueInv, ReadInv, [Next]_vars, cmdBus' = cmdBus
    PROVE  /\ Len(cmdBus') <= 1
           /\ \A i \in 1 .. Len(cmdBus') : \A p : p = cmdBus'[i].packet =>
                  Recorded(p) /\ (IsReadPacket(p) <=> IsRead(p.id)) /\ ~Waiting(p.id)'
<1> SUFFICES ASSUME NEW i \in 1 .. Len(cmdBus), NEW p, p = cmdBus[i].packet
             PROVE  Recorded(p) /\ (IsReadPacket(p) <=> IsRead(p.id)) /\ ~Waiting(p.id)'
    BY DEF ReadInv
<1>1. Recorded(p) /\ (IsReadPacket(p) <=> IsRead(p.id)) /\ ~Waiting(p.id)
      BY DEF ReadInv
<1>2. PICK id \in 1 .. Len(accepted) : id = p.id
      BY <1>1 DEF Recorded
<1>3. ~Waiting(id)'
      BY <1>1, <1>2, HistoryGrows
<1> QED BY <1>1, <1>2, <1>3

LEMMA QuietReads ==
    ASSUME TypeOK, QueueInv, ReadInv, [Next]_vars,
           UNCHANGED <<cmdBus, readReturn, rankBus, returnTransaction, returned>>
    PROVE  ReadInv'
<1>1. /\ \A r \in Ranks : \A i \in 1 .. Len(readReturn'[r]) : Fresh(readReturn'[r][i].packet)
      /\ \A r \in Ranks : \A i \in 1 .. Len(rankBus'[r]) : Fresh(rankBus'[r][i].packet)
      /\ \A i \in 1 .. Len(returnTransaction') : Fresh(returnTransaction'[i])
      /\ \A c \in returned' : /\ c.packet \in 1 .. Len(accepted)
                              /\ FreshData(c.packet, accepted[c.packet].address, c.data)
      BY DEF ReadInv
<1> QED BY <1>1, CommandStays, ReadInvNext

LEMMA PopReads ==
    ASSUME TypeOK, QueueInv, ReadInv, [Next]_vars,
           UNCHANGED <<transactionQueue, accepted, readReturn, rankBus, returnTransaction,
                       returned>>,
           NEW r \in Ranks, NEW b \in Banks, NEW k \in 1 .. Len(queues[r][b]), Pops(r, b, k)
    PROVE  ReadInv'
<1>1. /\ \A s \in Ranks : \A i \in 1 .. Len(readReturn'[s]) : Fresh(readReturn'[s][i].packet)
      /\ \A s \in Ranks : \A i \in 1 .. Len(rankBus'[s]) : Fresh(rankBus'[s][i].packet)
      /\ \A i \in 1 .. Len(returnTransaction') : Fresh(returnTransaction'[i])
      /\ \A c \in returned' : /\ c.packet \in 1 .. Len(accepted)
                              /\ FreshData(c.packet, accepted[c.packet].address, c.data)
      BY DEF ReadInv
<1>2. PICK x : x = queues[r][b][k]
      OBVIOUS
<1>3. Recorded(x) /\ (IsReadPacket(x) <=> IsRead(x.id))
      BY <1>2 DEF QueueInv
<1>4. PICK id : id = x.id
      OBVIOUS
<1>5. ~Waiting(id)'
      BY <1>2, <1>4, PopWaiting
<1>6. cmdBus' = <<[packet |-> x, left |-> tCMD]>>
      BY <1>2 DEF Pops
<1>7. Len(cmdBus') = 1 /\ \A i \in 1 .. Len(cmdBus') : cmdBus'[i].packet = x
      BY <1>6, OneEntry
<1> QED BY <1>1, <1>3, <1>4, <1>5, <1>7, ReadInvNext

\* A read samples its bank when every older write of its address has landed.
LEMMA SampleIsFresh ==
    ASSUME TypeOK, QueueInv, WriteInv, ReadNeverOvertakesWrite, DataInTime, WritesKept,
           ReadInv, error = "none", phase = "command",
           1 \in 1 .. Len(cmdBus), cmdBus[1].left = 1, NEW p, p = cmdBus[1].packet,
           IsReadPacket(p)
    PROVE  Recorded(p) /\ FreshData(p.id, p.address, storage[p.address])
<1>1. Recorded(p) /\ IsRead(p.id) /\ ~Waiting(p.id)
      BY DEF ReadInv
<1>2. p.id \in 1 .. Len(accepted) /\ accepted[p.id].address = p.address
      /\ Len(accepted) \in Nat
      BY <1>1, LenProperties DEF Recorded, TypeOK
<1>3. ASSUME NEW w \in 1 .. p.id - 1, ~IsRead(w), accepted[w].address = p.address
      PROVE  w <= storage[p.address]
  <2>1. w \in 1 .. Len(accepted) /\ p.id \in w + 1 .. Len(accepted)
        BY <1>2
  <2>2. SameQueue(p.id, w)
        BY <1>2, <1>3 DEF SameQueue, RankOf, BankOf
  <2>3. ~Waiting(w)
        BY <1>1, <1>3, <2>1, <2>2 DEF ReadNeverOvertakesWrite
  <2>4. ASSUME NEW n \in Int, NEW x, InTime(n, RankOf(x)), x.address = p.address
        PROVE  FALSE
    <3>1. RankOf(x) = RankOf(p)
          BY <2>4 DEF RankOf
    <3>2. n >= 1 /\ n < 1 + 0
          BY <2>4, <3>1 DEF InTime
    <3> QED BY <3>2
  <2>5. ~UnderWay(w)
    <3>1. ASSUME NEW i \in 1 .. Len(dataBus), dataBus[i].packet.id = w
          PROVE  FALSE
      <4>1. InTime(dataBus[i].left, RankOf(dataBus[i].packet)) /\ dataBus[i].left \in Int
            BY TimedTypes DEF DataInTime
      <4>2. dataBus[i].packet.address = p.address
            BY <1>3, <3>1 DEF WriteInv, OnItsWay, Recorded
      <4> QED BY <2>4, <4>1, <4>2
    <3>2. ASSUME NEW i \in 1 .. Len(writeDataToSend), writeDataToSend[i].packet.id = w
          PROVE  FALSE
      <4>1. /\ InTime(writeDataToSend[i].left + DataCycles, RankOf(writeDataToSend[i].packet))
            /\ writeDataToSend[i].left + DataCycles \in Int
            BY TimedTypes, ConfigAssumption, SMTT(60) DEF DataInTime, DataCycles, BurstCycles
      <4>2. writeDataToSend[i].packet.address = p.address
            BY <1>3, <3>2 DEF WriteInv, OnItsWay, Recorded
      <4> QED BY <2>4, <4>1, <4>2
    <3> QED BY <3>1, <3>2 DEF UnderWay
  <2> QED BY <1>3, <2>1, <2>3, <2>5 DEF WritesKept
<1> QED BY <1>1, <1>3 DEF FreshData

LEMMA CommandBusReads ==
    ASSUME TypeOK, QueueInv, WriteInv, ReadNeverOvertakesWrite, DataInTime, WritesKept,
           ReadInv, [Next]_vars, CommandBus
    PROVE  ReadInv'
<1>1. /\ phase = "command" /\ error = "none" /\ cmdBus' = AfterCountDown(cmdBus)
      /\ UNCHANGED <<rankBus, returnTransaction, returned, transactionQueue, queues, accepted>>
      BY DEF CommandBus, Running, mcVars, histVars, queueVars
<1>2. /\ \A r \in Ranks : \A i \in 1 .. Len(rankBus'[r]) : Fresh(rankBus'[r][i].packet)
      /\ \A i \in 1 .. Len(returnTransaction') : Fresh(returnTransaction'[i])
      /\ \A c \in returned' : /\ c.packet \in 1 .. Len(accepted)
                              /\ FreshData(c.packet, accepted[c.packet].address, c.data)
      BY <1>1 DEF ReadInv
<1>3. Len(cmdBus) <= 1 /\ Len(cmdBus) \in Nat
      BY TimedTypes DEF ReadInv
<1>4. Len(cmdBus') \in Nat /\ Len(cmdBus') <= Len(cmdBus)
      /\ \A i \in 1 .. Len(cmdBus') : i \in 1 .. Len(cmdBus)
                                      /\ cmdBus'[i].packet = cmdBus[i].packet
  <2>1. /\ Len(AfterCountDown(cmdBus)) \in Nat /\ Len(AfterCountDown(cmdBus)) <= Len(cmdBus)
        /\ \A i \in 1 .. Len(AfterCountDown(cmdBus)) :
            /\ i \in 1 .. Len(cmdBus) /\ cmdBus[i] \in [packet : BusPacket, left : Int]
            /\ AfterCountDown(cmdBus)[i].packet = cmdBus[i].packet
            /\ AfterCountDown(cmdBus)[i].left = cmdBus[i].left - 1 /\ cmdBus[i].left # 1
        BY <1>3, TimedTypes, BusAfter, Zenon
  <2> QED BY <1>1, <2>1
<1>5. ASSUME NEW i \in 1 .. Len(cmdBus'), NEW p, p = cmdBus'[i].packet
      PROVE  Recorded(p) /\ (IsReadPacket(p) <=> IsRead(p.id)) /\ ~Waiting(p.id)'
  <2>1. Recorded(p) /\ (IsReadPacket(p) <=> IsRead(p.id)) /\ ~Waiting(p.id)
        BY <1>4, <1>5 DEF ReadInv
  <2>2. PICK id : id = p.id
        OBVIOUS
  <2>3. ~Waiting(id)'
        BY <1>1, <2>1, <2>2, QuietWaiting
  <2> QED BY <2>1, <2>2, <2>3
<1>6. Len(cmdBus') <= 1
      BY <1>3, <1>4
<1>7. ASSUME NEW r \in Ranks, NEW i \in 1 .. Len(readReturn'[r])
      PROVE  Fresh(readReturn'[r][i].packet)
  <2>1. CASE readReturn' = readReturn
        BY <1>7, <2>1 DEF ReadInv
  <2>2. CASE readReturn' # readReturn
    <3>1. PICK p : p = cmdBus[1].packet
          OBVIOUS
    <3>2. HeadDue(CountDown(cmdBus)) /\ RankReceivesCommand(p)
          BY <2>2, <3>1 DEF CommandBus
    <3>3. /\ p.busPacketType = "READ_P"
          /\ readReturn' = [readReturn EXCEPT ![RankOf(p)] =
                    Append(@, [packet |-> [address |-> p.address, id |-> p.id,
                                           data |-> storage[p.address]],
                               left |-> RL])]
          BY <2>2, <3>2 DEF RankReceivesCommand, BankRead
    <3>4. Len(cmdBus) >= 1 /\ p \in BusPacket /\ cmdBus[1].left = 1
          BY <3>1, <3>2, TimedTypes, DueEntry
    <3>5. 1 \in 1 .. Len(cmdBus) /\ IsReadPacket(p)
          BY <1>3, <3>3, <3>4 DEF IsReadPacket, ReadPackets
    <3>6. Recorded(p) /\ FreshData(p.id, p.address, storage[p.address])
          BY <1>1, <3>1, <3>4, <3>5, SampleIsFresh
    <3>7. PICK x : x = [address |-> p.address, id |-> p.id, data |-> storage[p.address]]
          OBVIOUS
    <3>8. Fresh(x)
          BY <3>6, <3>7 DEF Fresh, Recorded
    <3>9. PICK e : e = [packet |-> x, left |-> RL]
          OBVIOUS
    <3>10. e.packet = x /\ e \in TimedData
      <4>1. p.address \in Address /\ p.id \in Nat
            BY <3>4 DEF BusPacket
      <4>2. storage[p.address] \in Nat
            BY <4>1 DEF TypeOK
      <4> QED BY <3>7, <3>9, <4>1, <4>2, ConfigAssumption DEF TimedData, DataPacket
    <3>11. /\ readReturn' = [readReturn EXCEPT ![RankOf(p)] = Append(@, e)]
           /\ readReturn \in [Ranks -> Seq(TimedData)]
           BY <3>3, <3>7, <3>9 DEF TypeOK
    <3>12. CASE r = RankOf(p)
      <4>1. readReturn'[r] = Append(readReturn[r], e)
            BY <3>11, <3>12
      <4>2. readReturn[r] \in Seq(TimedData)
            BY <3>11
      <4>3. /\ Len(readReturn'[r]) = Len(readReturn[r]) + 1 /\ Len(readReturn[r]) \in Nat
            /\ readReturn'[r][Len(readReturn[r]) + 1] = e
            /\ \A j \in 1 .. Len(readReturn[r]) : readReturn'[r][j] = readReturn[r][j]
            BY <3>10, <4>1, <4>2, AppendProperties, LenProperties
      <4>4. CASE i = Len(readReturn[r]) + 1
            BY <3>8, <3>10, <4>3, <4>4
      <4>5. CASE i \in 1 .. Len(readReturn[r])
            BY <4>3, <4>5 DEF ReadInv
      <4> QED BY <4>3, <4>4, <4>5
    <3>13. CASE r # RankOf(p)
      <4>1. readReturn'[r] = readReturn[r]
            BY <3>11, <3>13
      <4> QED BY <1>7, <4>1 DEF ReadInv
    <3> QED BY <3>12, <3>13
  <2> QED BY <2>1, <2>2
<1> QED BY <1>2, <1>5, <1>6, <1>7, ReadInvNext

LEMMA RankUpdateReads ==
    ASSUME TypeOK, QueueInv, ReadInv, [Next]_vars, RankUpdate
    PROVE  ReadInv'
<1>1. UNCHANGED <<cmdBus, returned>> /\ turn \in Ranks
      BY DEF RankUpdate, busVars, histVars, TypeOK
<1>2. PICK k \in Ranks : k = turn
      BY <1>1
<1>3. /\ readReturn \in [Ranks -> Seq([packet : DataPacket, left : Int])]
      /\ rankBus \in [Ranks -> Seq([packet : DataPacket, left : Int])]
      /\ returnTransaction \in Seq(DataPacket)
      BY DEF TypeOK, TimedData
<1>4. PICK rr, rb : rr = readReturn[k] /\ rb = rankBus[k]
      OBVIOUS
<1>5. /\ rr \in Seq([packet : DataPacket, left : Int])
      /\ rb \in Seq([packet : DataPacket, left : Int])
      BY <1>3, <1>4
<1>6. /\ \A i \in 1 .. Len(rr) : Fresh(rr[i].packet)
      /\ \A i \in 1 .. Len(rb) : Fresh(rb[i].packet)
      BY <1>4 DEF ReadInv
<1>7. readReturn' = [readReturn EXCEPT ![k] = EraseDue(CountDown(rr))]
      BY <1>2, <1>4 DEF RankUpdate
<1>8. rankBus' = [rankBus EXCEPT ![k] =
                      IF HeadDue(CountDown(rr))
                      THEN <<[packet |-> CountDown(rr)[1].packet, left |-> DataCycles]>>
                      ELSE AfterCountDown(rb)]
      BY <1>2, <1>4 DEF RankUpdate
<1>9. returnTransaction' = IF HeadDue(CountDown(rb))
                           THEN Append(returnTransaction, rb[1].packet)
                           ELSE returnTransaction
      BY <1>2, <1>4 DEF RankUpdate
<1>10. ASSUME NEW i \in 1 .. Len(EraseDue(CountDown(rr)))
       PROVE  Fresh(EraseDue(CountDown(rr))[i].packet)
  <2>1. PICK m \in {0, 1} : \A j \in 1 .. Len(EraseDue(CountDown(rr))) :
            j + m \in 1 .. Len(rr) /\ EraseDue(CountDown(rr))[j].packet = rr[j + m].packet
        BY <1>5, PassOverList
  <2> QED BY <1>6, <2>1
<1>11. ASSUME NEW r \in Ranks, NEW i \in 1 .. Len(readReturn'[r])
       PROVE  Fresh(readReturn'[r][i].packet)
  <2>1. CASE r = k
    <3>1. readReturn'[r] = EraseDue(CountDown(rr))
          BY <1>3, <1>7, <2>1
    <3> QED BY <1>10, <1>11, <3>1
  <2>2. CASE r # k
    <3>1. readReturn'[r] = readReturn[r]
          BY <1>3, <1>7, <2>2
    <3> QED BY <1>11, <3>1 DEF ReadInv
  <2> QED BY <2>1, <2>2
<1>12. HeadDue(CountDown(rr)) => Fresh(CountDown(rr)[1].packet)
  <2> SUFFICES ASSUME HeadDue(CountDown(rr)) PROVE Fresh(CountDown(rr)[1].packet)
      OBVIOUS
  <2>1. Len(rr) >= 1 /\ CountDown(rr)[1].packet = rr[1].packet
        BY <1>5, DueEntry
  <2>2. 1 \in 1 .. Len(rr)
        BY <1>5, <2>1, LenProperties
  <2> QED BY <1>6, <2>1, <2>2
<1>13. HeadDue(CountDown(rb)) => Fresh(rb[1].packet) /\ rb[1].packet \in DataPacket
  <2> SUFFICES ASSUME HeadDue(CountDown(rb))
               PROVE  Fresh(rb[1].packet) /\ rb[1].packet \in DataPacket
      OBVIOUS
  <2>1. Len(rb) >= 1 /\ rb[1].packet \in DataPacket
        BY <1>5, DueEntry
  <2>2. 1 \in 1 .. Len(rb)
        BY <1>5, <2>1, LenProperties
  <2> QED BY <1>6, <2>1, <2>2
<1>14. ASSUME NEW i \in 1 .. Len(AfterCountDown(rb))
       PROVE  Fresh(AfterCountDown(rb)[i].packet)
  <2>1. CASE HeadDue(CountDown(rb))
        BY <1>14, <2>1, EmptySeq DEF AfterCountDown
  <2>2. CASE ~HeadDue(CountDown(rb))
    <3>1. AfterCountDown(rb) = CountDown(rb)
          BY <2>2 DEF AfterCountDown
    <3>a. /\ Len(CountDown(rb)) = Len(rb)
          /\ \A j \in 1 .. Len(rb) : CountDown(rb)[j].packet = rb[j].packet
          BY <1>5, CountDownType
    <3>2. i \in 1 .. Len(rb) /\ CountDown(rb)[i].packet = rb[i].packet
          BY <1>14, <3>1, <3>a
    <3> QED BY <1>6, <3>1, <3>2
  <2> QED BY <2>1, <2>2
<1>15. ASSUME NEW r \in Ranks, NEW i \in 1 .. Len(rankBus'[r])
       PROVE  Fresh(rankBus'[r][i].packet)
  <2>1. CASE r = k /\ HeadDue(CountDown(rr))
    <3>1. rankBus'[r] = <<[packet |-> CountDown(rr)[1].packet, left |-> DataCycles]>>
          BY <1>3, <1>8, <2>1
    <3>2. rankBus'[r][i].packet = CountDown(rr)[1].packet
          BY <1>15, <3>1, OneEntry
    <3> QED BY <1>12, <2>1, <3>2
  <2>2. CASE r = k /\ ~HeadDue(CountDown(rr))
    <3>1. rankBus'[r] = AfterCountDown(rb)
          BY <1>3, <1>8, <2>2
    <3> QED BY <1>14, <1>15, <3>1
  <2>3. CASE r # k
    <3>1. rankBus'[r] = rankBus[r]
          BY <1>3, <1>8, <2>3
    <3> QED BY <1>15, <3>1 DEF ReadInv
  <2> QED BY <2>1, <2>2, <2>3
<1>16. ASSUME NEW i \in 1 .. Len(returnTransaction')
       PROVE  Fresh(returnTransaction'[i])
  <2>1. CASE HeadDue(CountDown(rb))
    <3>1. /\ Len(returnTransaction') = Len(returnTransaction) + 1
          /\ Len(returnTransaction) \in Nat
          /\ returnTransaction'[Len(returnTransaction) + 1] = rb[1].packet
          /\ \A j \in 1 .. Len(returnTransaction) :
                 returnTransaction'[j] = returnTransaction[j]
          BY <1>3, <1>9, <1>13, <2>1, AppendProperties, LenProperties
    <3>2. CASE i = Len(returnTransaction) + 1
          BY <1>13, <2>1, <3>1, <3>2
    <3>3. CASE i \in 1 .. Len(returnTransaction)
          BY <3>1, <3>3 DEF ReadInv
    <3> QED BY <3>1, <3>2, <3>3
  <2>2. CASE ~HeadDue(CountDown(rb))
        BY <1>9, <1>16, <2>2 DEF ReadInv
  <2> QED BY <2>1, <2>2
<1>17. \A c \in returned' : /\ c.packet \in 1 .. Len(accepted)
                            /\ FreshData(c.packet, accepted[c.packet].address, c.data)
       BY <1>1 DEF ReadInv
<1> QED BY <1>1, <1>11, <1>15, <1>16, <1>17, CommandStays, ReadInvNext

LEMMA ReturnReadReads ==
    ASSUME TypeOK, QueueInv, ReadInv, [Next]_vars, ReturnRead
    PROVE  ReadInv'
<1>1. UNCHANGED <<cmdBus, readReturn, rankBus>>
      BY DEF ReturnRead, busVars, rankVars
<1>2. /\ \A r \in Ranks : \A i \in 1 .. Len(readReturn'[r]) : Fresh(readReturn'[r][i].packet)
      /\ \A r \in Ranks : \A i \in 1 .. Len(rankBus'[r]) : Fresh(rankBus'[r][i].packet)
      BY <1>1 DEF ReadInv
<1>3. CASE UNCHANGED <<returned, returnTransaction>>
      BY <1>1, <1>3, QuietReads
<1>4. CASE ~(UNCHANGED <<returned, returnTransaction>>)
  <2>1. PICK ret : ret = Head(returnTransaction)
        OBVIOUS
  <2>2. /\ returnTransaction # <<>> /\ returnTransaction' = Tail(returnTransaction)
        /\ \E i \in Matching(ret) : ReturnReadData(i, ret)
        BY <1>4, <2>1 DEF ReturnRead
  <2>3. PICK i : returned' = returned \cup {[id |-> pendingReadTransactions[i].id,
                                             packet |-> ret.id, data |-> ret.data]}
        BY <2>2 DEF ReturnReadData
  <2>4. /\ returnTransaction \in Seq(DataPacket) /\ Len(returnTransaction) \in Nat
        /\ Len(returnTransaction) # 0
        BY <2>2, LenProperties, EmptySeq DEF TypeOK
  <2>5. 1 \in 1 .. Len(returnTransaction) /\ ret = returnTransaction[1]
        BY <2>1, <2>2, <2>4, HeadTailProperties
  <2>6. Fresh(ret)
        BY <2>5 DEF ReadInv
  <2>7. ASSUME NEW j \in 1 .. Len(returnTransaction')
        PROVE  Fresh(returnTransaction'[j])
    <3>1. /\ Len(returnTransaction') = Len(returnTransaction) - 1
          /\ \A m \in 1 .. Len(returnTransaction') :
                 returnTransaction'[m] = returnTransaction[m + 1]
          BY <2>2, <2>4, HeadTailProperties
    <3>2. j + 1 \in 1 .. Len(returnTransaction)
          BY <2>4, <3>1
    <3> QED BY <3>1, <3>2 DEF ReadInv
  <2>8. ASSUME NEW c \in returned'
        PROVE  /\ c.packet \in 1 .. Len(accepted)
               /\ FreshData(c.packet, accepted[c.packet].address, c.data)
    <3>1. CASE c \in returned
          BY <3>1 DEF ReadInv
    <3>2. CASE c = [id |-> pendingReadTransactions[i].id, packet |-> ret.id,
                    data |-> ret.data]
      <4>1. c.packet = ret.id /\ c.data = ret.data
            BY <3>2
      <4> QED BY <2>6, <4>1 DEF Fresh, Recorded
    <3> QED BY <2>3, <3>1, <3>2
  <2> QED BY <1>1, <1>2, <2>7, <2>8, CommandStays, ReadInvNext
<1> QED BY <1>3, <1>4

LEMMA InitReads == Init => ReadInv /\ DataInTime
<1> SUFFICES ASSUME Init PROVE ReadInv /\ DataInTime
    OBVIOUS
<1>1. /\ Len(cmdBus) = 0 /\ Len(dataBus) = 0 /\ Len(writeDataToSend) = 0
      /\ Len(returnTransaction) = 0 /\ returned = {}
      /\ \A r \in Ranks : Len(readReturn[r]) = 0 /\ Len(rankBus[r]) = 0
      BY EmptySeq DEF Init
<1>2. ReadInv
      BY <1>1 DEF ReadInv
<1>3. DataInTime
      BY <1>1 DEF DataInTime
<1> QED BY <1>2, <1>3

LEMMA NextReads ==
    ASSUME TypeOK, QueueInv, WriteInv, ReadNeverOvertakesWrite, DataInTime, WritesKept,
           ReadInv, [Next]_vars
    PROVE  ReadInv'
<1> USE DEF busVars, rankVars, mcVars, histVars
<1>1. CASE AddTransaction \/ DrainPending
      BY <1>1, ArrivalMeans, QuietReads
<1>2. CASE AddPending
      BY <1>2, QuietReads DEF AddPending
<1>3. CASE RankUpdate
      BY <1>3, RankUpdateReads
<1>4. CASE CommandBus
      BY <1>4, CommandBusReads
<1>5. CASE DataBus
      BY <1>5, QuietReads DEF DataBus
<1>6. CASE IssueCommand
  <2>1. UNCHANGED <<transactionQueue, accepted, readReturn, rankBus, returnTransaction,
                    returned>>
        BY <1>6 DEF IssueCommand
  <2>2. CASE cmdBus' = cmdBus
        BY <2>1, <2>2, QuietReads
  <2>3. CASE \E r \in Ranks, b \in Banks : \E i \in 1 .. Len(queues[r][b]) : Pops(r, b, i)
        BY <2>1, <2>3, PopReads
  <2> QED BY <1>6, <2>2, <2>3, IssueMeans
<1>7. CASE ScheduleTransaction
      BY <1>7, QuietReads DEF ScheduleTransaction
<1>8. CASE ReturnRead
      BY <1>8, ReturnReadReads
<1>9. CASE UNCHANGED vars
      BY <1>9, QuietReads DEF vars
<1> QED BY <1>1, <1>2, <1>3, <1>4, <1>5, <1>6, <1>7, <1>8, <1>9 DEF Next, Cycle

\* All the invariants of the order of transactions together.
OrderInv ==
    /\ CountdownInv /\ QueueInv /\ WriteInv /\ RankMayWrite /\ ReadNeverOvertakesWrite
    /\ DataInTime /\ WritesKept /\ ReadInv

LEMMA NextOrder ==
    WritesLandBeforeReads => (TypeOK /\ OrderInv /\ [Next]_vars => OrderInv')
<1> SUFFICES ASSUME WritesLandBeforeReads, TypeOK, OrderInv, [Next]_vars PROVE OrderInv'
    OBVIOUS
<1>1. WritesMayGoFirst
      BY DEF WritesLandBeforeReads
<1>2. Len(cmdBus) <= 1 /\ Len(dataBus) <= 1
      BY DEF OrderInv, ReadInv, WriteInv
<1>3. CountdownInv' /\ QueueInv' /\ WriteInv' /\ WritesKept'
      BY NextCountdown, NextQueues, NextWrites, NextKept DEF OrderInv
<1>4. RankMayWrite' /\ ReadNeverOvertakesWrite'
      BY <1>1, NextMayWrite, NextNotOvertaken DEF OrderInv
<1>5. DataInTime' /\ ReadInv'
      BY <1>2, NextInTime, NextReads DEF OrderInv
<1> QED BY <1>3, <1>4, <1>5 DEF OrderInv

\* With the delays of the files of ini/ and closed pages, a read returns data at
\* least as new as the last write accepted before it to its address, whatever
\* the number of ranks and banks, the queues and the workload, and without
\* forwarding: an older write is popped first (ReadNeverOvertakesWrite), none is
\* lost (WritesKept), and its data lands before the read's command is delivered
\* (DataInTime: WRITE_TO_READ_DELAY_B).
THEOREM ReadsAreFresh ==
    ASSUME WritesLandBeforeReads
    PROVE  Spec => []ReadsSeeOlderWrites
<1>1. Init => TypeOK /\ OrderInv
  <2>1. WritesMayGoFirst
        BY DEF WritesLandBeforeReads
  <2> QED BY InitType, InitCountdown, InitQueues, InitWrites, InitMayWrite,
             InitNotOvertaken, InitReads, InitKept DEF OrderInv
<1>2. TypeOK /\ OrderInv /\ [Next]_vars => OrderInv'
      BY NextOrder
<1>3. TypeOK /\ OrderInv => ReadsSeeOlderWrites
      BY DEF OrderInv, ReadInv, FreshData, ReadsSeeOlderWrites
<1> QED BY <1>1, <1>2, <1>3, NextType, PTL DEF Spec

(***************************************************************************)
(* The data of reads                                                       *)
(***************************************************************************)
\* Two reads of a rank are at least a burst apart.
ReadsKeepDistance == DataCycles <= READ_TO_READ_DELAY

LEMMA OneRankKeepsDistance ==
    ASSUME OneRankConfig
    PROVE  ReadsKeepDistance
<1>1. BL \in Nat \ {0} /\ tCCD \in Nat
      BY ConfigAssumption
<1>2. BurstCycles \in Nat /\ (BL > 1 => BurstCycles >= 1)
      BY <1>1 DEF BurstCycles
<1> QED BY <1>1, <1>2 DEF ReadsKeepDistance, OneRankConfig, DataCycles,
           READ_TO_READ_DELAY, Larger

LEMMA RankTypes ==
    ASSUME TypeOK, NEW r \in Ranks
    PROVE  /\ readReturn[r] \in Seq([packet : DataPacket, left : Int])
           /\ rankBus[r] \in Seq([packet : DataPacket, left : Int])
           /\ Len(readReturn[r]) \in Nat /\ Len(rankBus[r]) \in Nat
           /\ \A i \in 1 .. Len(readReturn[r]) :
                  /\ readReturn[r][i].left \in Int
                  /\ readReturn[r][i].packet \in DataPacket
           /\ \A i \in 1 .. Len(rankBus[r]) :
                  /\ rankBus[r][i].left \in Int
                  /\ rankBus[r][i].packet \in DataPacket
<1>1. /\ readReturn[r] \in Seq([packet : DataPacket, left : Int])
      /\ rankBus[r] \in Seq([packet : DataPacket, left : Int])
      BY DEF TypeOK, TimedData
<1>2. Len(readReturn[r]) \in Nat /\ Len(rankBus[r]) \in Nat
      BY <1>1, LenProperties
<1>3. /\ \A i \in 1 .. Len(readReturn[r]) :
             readReturn[r][i] \in [packet : DataPacket, left : Int]
      /\ \A i \in 1 .. Len(rankBus[r]) :
             rankBus[r][i] \in [packet : DataPacket, left : Int]
      BY <1>1, ElementOfSeq
<1> QED BY <1>1, <1>2, <1>3

LEMMA ReadNumbers ==
    ASSUME TypeOK
    PROVE  /\ DataCycles \in Nat \ {0} /\ RL \in Nat \ {0} /\ tCMD \in Nat \ {0}
           /\ \A r \in Ranks : /\ TickAhead(r) \in {0, 1} /\ CommandLate(r) \in {0, 1}
                               /\ \A b \in Banks : nextRead[r][b] \in Nat
<1>1. DataCycles \in Nat \ {0} /\ RL \in Nat \ {0} /\ tCMD \in Nat \ {0}
      BY ConfigAssumption DEF DataCycles, BurstCycles
<1>2. \A r \in Ranks : TickAhead(r) \in {0, 1} /\ CommandLate(r) \in {0, 1}
      BY DEF TickAhead, CommandLate
<1>3. nextRead \in [Ranks -> [Banks -> Nat]]
      BY DEF TypeOK
<1> QED BY <1>1, <1>2, <1>3

\* The phases in which the delays of reads do not move.
LEMMA QuietSpaced ==
    ASSUME ReadDataSpaced, UNCHANGED <<cmdBus, readReturn, rankBus, nextRead>>,
           phase' = "ranks" <=> phase = "ranks",
           phase' \in {"ranks", "pending", "command"}
               <=> phase \in {"ranks", "pending", "command"},
           \A r \in Ranks : CountedDown(r)' <=> CountedDown(r)
    PROVE  ReadDataSpaced'
<1>1. \A r \in Ranks : TickAhead(r)' = TickAhead(r) /\ CommandLate(r)' = CommandLate(r)
      BY DEF TickAhead, CommandLate
<1>2. \A r \in Ranks : \A n : BeforeNextReads(n, r) => BeforeNextReads(n, r)'
      BY <1>1 DEF BeforeNextReads, IsReadPacket, RankOf
<1>3. CommandSpaced'
      BY DEF ReadDataSpaced, CommandSpaced, IsReadPacket, RankOf
<1>4. ASSUME NEW r \in Ranks PROVE RankSpaced(r)'
  <2>1. RankSpaced(r)
        BY DEF ReadDataSpaced
  <2>2. ASSUME NEW i \in 1 .. Len(readReturn'[r])
        PROVE  BeforeNextReads(readReturn[r][i].left + DataCycles, r)'
    <3>1. PICK n : n = readReturn[r][i].left + DataCycles
          OBVIOUS
    <3>2. BeforeNextReads(n, r)'
          BY <1>2, <2>1, <2>2, <3>1 DEF RankSpaced
    <3> QED BY <3>1, <3>2 DEF BeforeNextReads
  <2>3. ASSUME NEW k \in 1 .. Len(rankBus'[r])
        PROVE  BeforeNextReads(rankBus[r][k].left, r)'
    <3>1. PICK n : n = rankBus[r][k].left
          OBVIOUS
    <3>2. BeforeNextReads(n, r)'
          BY <1>2, <2>1, <2>3, <3>1 DEF RankSpaced
    <3> QED BY <3>1, <3>2 DEF BeforeNextReads
  <2> QED BY <2>1, <2>2, <2>3 DEF RankSpaced, Spaced
<1> QED BY <1>3, <1>4 DEF ReadDataSpaced

\* RankSpaced of the next state, said about its entries one at a time.
LEMMA RankSpacedNext ==
    ASSUME NEW r \in Ranks, NEW rr, NEW rb, rr = readReturn'[r], rb = rankBus'[r],
           Spaced(rr), Len(rb) <= 1,
           \A i \in 1 .. Len(rr) : \A n :
               n = rr[i].left + DataCycles => BeforeNextReads(n, r)',
           \A k \in 1 .. Len(rb) :
               /\ rb[k].left >= 1
               /\ \A i \in 1 .. Len(rr) : rb[k].left <= rr[i].left
               /\ \A n : n = rb[k].left => BeforeNextReads(n, r)'
    PROVE  RankSpaced(r)'
<1>1. ASSUME NEW i \in 1 .. Len(readReturn'[r])
      PROVE  BeforeNextReads(readReturn[r][i].left + DataCycles, r)'
  <2>1. PICK n : n = rr[i].left + DataCycles
        OBVIOUS
  <2>2. BeforeNextReads(n, r)'
        BY <1>1, <2>1
  <2> QED BY <2>1, <2>2 DEF BeforeNextReads
<1>2. ASSUME NEW k \in 1 .. Len(rankBus'[r])
      PROVE  BeforeNextReads(rankBus[r][k].left, r)'
  <2>1. PICK n : n = rb[k].left
        OBVIOUS
  <2>2. BeforeNextReads(n, r)'
        BY <1>2, <2>1
  <2> QED BY <2>1, <2>2 DEF BeforeNextReads
<1>3. Spaced(readReturn[r])'
      BY DEF Spaced
<1> QED BY <1>1, <1>2, <1>3 DEF RankSpaced

\* Steps after which a rank has as much time as before.
LEMMA RankSpacedStays ==
    ASSUME NEW r \in Ranks, RankSpaced(r), UNCHANGED <<readReturn[r], rankBus[r]>>,
           \A n \in Int : BeforeNextReads(n, r) => BeforeNextReads(n, r)', TypeOK
    PROVE  RankSpaced(r)'
<1>1. PICK rr, rb : rr = readReturn'[r] /\ rb = rankBus'[r]
      OBVIOUS
<1>2. Spaced(rr) /\ Len(rb) <= 1
      BY <1>1 DEF RankSpaced
<1>3. ASSUME NEW i \in 1 .. Len(rr), NEW n, n = rr[i].left + DataCycles
      PROVE  BeforeNextReads(n, r)'
  <2>1. i \in 1 .. Len(readReturn[r]) /\ rr[i] = readReturn[r][i]
        BY <1>1, <1>3
  <2>2. n = readReturn[r][i].left + DataCycles
        BY <1>3, <2>1
  <2>3. readReturn[r][i].left \in Int /\ DataCycles \in Int
        BY <2>1, RankTypes, ReadNumbers
  <2>4. n \in Int
        BY <2>2, <2>3
  <2>5. BeforeNextReads(n, r)
        BY <2>1, <2>2 DEF RankSpaced
  <2> QED BY <2>4, <2>5
<1>4. ASSUME NEW k \in 1 .. Len(rb)
      PROVE  /\ rb[k].left >= 1
             /\ \A i \in 1 .. Len(rr) : rb[k].left <= rr[i].left
             /\ \A n : n = rb[k].left => BeforeNextReads(n, r)'
      BY <1>1, <1>4, RankTypes DEF RankSpaced
<1> QED BY <1>1, <1>2, <1>3, <1>4, RankSpacedNext

LEMMA RankUpdateSpacedReads ==
    ASSUME TypeOK, CountdownInv, ReadDataSpaced, RankUpdate
    PROVE  ReadDataSpaced'
<1>1. /\ UNCHANGED <<cmdBus, nextRead>> /\ turn \in Ranks /\ phase = "ranks"
      /\ phase' \in {"ranks", "pending"}
      BY DEF RankUpdate, busVars, bankVars, TypeOK, Running
<1>2. CommandSpaced'
      BY <1>1 DEF ReadDataSpaced, CommandSpaced, IsReadPacket, RankOf
<1>3. PICK k \in Ranks : k = turn
      BY <1>1
<1>4. /\ ~CountedDown(k) /\ CountedDown(k)'
      /\ \A r \in Ranks : r # k => (CountedDown(r)' <=> CountedDown(r))
  <2>1. NUM_RANKS \in Nat \ {0} /\ k \in 0 .. NUM_RANKS - 1
        BY <1>3, ConfigAssumption DEF Ranks
  <2>2. CASE turn = NUM_RANKS - 1
    <3>1. phase' = "pending"
          BY <2>2 DEF RankUpdate
    <3> QED BY <1>1, <1>3, <2>1, <2>2, <3>1 DEF CountedDown, Ranks
  <2>3. CASE turn # NUM_RANKS - 1
    <3>1. phase' = "ranks" /\ turn' = turn + 1
          BY <1>1, <2>3 DEF RankUpdate
    <3> QED BY <1>1, <1>3, <2>1, <3>1 DEF CountedDown, Ranks
  <2> QED BY <2>2, <2>3
<1>5. /\ TickAhead(k) = 1 /\ TickAhead(k)' = 0
      /\ CommandLate(k) = 0 /\ CommandLate(k)' = 1
      BY <1>1, <1>4 DEF TickAhead, CommandLate
<1>6. ASSUME NEW n \in Int, BeforeNextReads(n, k) PROVE BeforeNextReads(n - 1, k)'
  <2>1. ASSUME NEW b \in Banks PROVE n - 1 <= RL + tCMD + nextRead'[k][b] + TickAhead(k)'
    <3>1. n <= RL + tCMD + nextRead[k][b] + 1 /\ nextRead[k][b] \in Nat
          BY <1>5, <1>6, ReadNumbers DEF BeforeNextReads
    <3> QED BY <1>1, <1>5, <3>1, ReadNumbers
  <2>2. ASSUME NEW i \in 1 .. Len(cmdBus'), IsReadPacket(cmdBus'[i].packet),
               RankOf(cmdBus'[i].packet) = k
        PROVE  n - 1 <= RL + cmdBus'[i].left - CommandLate(k)'
    <3>1. n <= RL + cmdBus[i].left - 0 /\ cmdBus[i].left \in Int
          BY <1>1, <1>5, <1>6, <2>2, TimedTypes DEF BeforeNextReads
    <3> QED BY <1>1, <1>5, <3>1, ReadNumbers
  <2> QED BY <2>1, <2>2 DEF BeforeNextReads, IsReadPacket, RankOf
<1>7. ASSUME NEW r \in Ranks, r # k PROVE RankSpaced(r)'
  <2>1. phase' = "ranks" \/ CountedDown(r)'
        BY <1>1 DEF CountedDown
  <2>2. TickAhead(r)' = TickAhead(r) /\ CommandLate(r)' = CommandLate(r)
        BY <1>1, <1>4, <1>7, <2>1 DEF TickAhead, CommandLate
  <2>3. \A n \in Int : BeforeNextReads(n, r) => BeforeNextReads(n, r)'
        BY <1>1, <2>2 DEF BeforeNextReads, IsReadPacket, RankOf
  <2>4. readReturn \in [Ranks -> Seq(TimedData)] /\ rankBus \in [Ranks -> Seq(TimedData)]
        BY DEF TypeOK
  <2>5. readReturn'[r] = readReturn[r] /\ rankBus'[r] = rankBus[r]
        BY <1>3, <1>7, <2>4 DEF RankUpdate
  <2> QED BY <2>3, <2>5, RankSpacedStays DEF ReadDataSpaced
<1>8. RankSpaced(k)'
  <2>1. PICK old, bus : old = readReturn[k] /\ bus = rankBus[k]
        OBVIOUS
  <2>2. PICK rr, rb : rr = readReturn'[k] /\ rb = rankBus'[k]
        OBVIOUS
  <2>3. /\ old \in Seq([packet : DataPacket, left : Int])
        /\ bus \in Seq([packet : DataPacket, left : Int])
        /\ Len(old) \in Nat /\ Len(bus) \in Nat
        BY <2>1, RankTypes
  <2>4. /\ Spaced(old) /\ Len(bus) <= 1
        /\ \A i \in 1 .. Len(old) : old[i].left \in Int
                                    /\ BeforeNextReads(old[i].left + DataCycles, k)
        /\ \A j \in 1 .. Len(bus) :
               /\ bus[j].left \in Int /\ bus[j].left >= 1
               /\ \A i \in 1 .. Len(old) : bus[j].left <= old[i].left
               /\ BeforeNextReads(bus[j].left, k)
        BY <2>1, RankTypes DEF ReadDataSpaced, RankSpaced
  <2>5. /\ readReturn \in [Ranks -> Seq(TimedData)] /\ rankBus \in [Ranks -> Seq(TimedData)]
        BY DEF TypeOK
  <2>6. rr = EraseDue(CountDown(old))
        BY <1>3, <2>1, <2>2, <2>5 DEF RankUpdate
  <2>7. rb = IF HeadDue(CountDown(old))
             THEN <<[packet |-> CountDown(old)[1].packet, left |-> DataCycles]>>
             ELSE AfterCountDown(bus)
        BY <1>3, <2>1, <2>2, <2>5 DEF RankUpdate
  <2>8. PICK m \in {0, 1} :
            /\ m = 1 <=> HeadDue(CountDown(old))
            /\ Len(rr) = Len(old) - m
            /\ \A i \in 1 .. Len(rr) : /\ i + m \in 1 .. Len(old)
                                       /\ old[i + m].left \in Int
                                       /\ rr[i].left = old[i + m].left - 1
                                       /\ rr[i].packet = old[i + m].packet
        BY <2>3, <2>6, PassOverList
  <2>a. /\ Len(AfterCountDown(bus)) \in Nat /\ Len(AfterCountDown(bus)) <= Len(bus)
        /\ \A i \in 1 .. Len(AfterCountDown(bus)) :
               /\ i \in 1 .. Len(bus) /\ bus[i] \in [packet : DataPacket, left : Int]
               /\ AfterCountDown(bus)[i].packet = bus[i].packet
               /\ AfterCountDown(bus)[i].left = bus[i].left - 1 /\ bus[i].left # 1
        BY <2>3, <2>4, BusAfter, Zenon
  <2>9. Spaced(rr)
    <3> SUFFICES ASSUME NEW i \in 1 .. Len(rr), NEW j \in 1 .. Len(rr), i < j
                 PROVE  rr[i].left + DataCycles <= rr[j].left
        BY DEF Spaced
    <3>0. i + m \in 1 .. Len(old) /\ j + m \in 1 .. Len(old) /\ i + m < j + m
          BY <2>8
    <3>1. old[i + m].left + DataCycles <= old[j + m].left
          BY <2>4, <3>0 DEF Spaced
    <3>2. /\ rr[i].left = old[i + m].left - 1 /\ rr[j].left = old[j + m].left - 1
          /\ old[i + m].left \in Int /\ old[j + m].left \in Int
          BY <2>8
    <3>3. \A x, y \in Int : x + DataCycles <= y => (x - 1) + DataCycles <= y - 1
          BY ReadNumbers
    <3> QED BY <3>1, <3>2, <3>3
  <2>10. ASSUME NEW i \in 1 .. Len(rr), NEW n, n = rr[i].left + DataCycles
         PROVE  BeforeNextReads(n, k)'
    <3>1. PICK q \in Int : q = old[i + m].left + DataCycles
          BY <2>8, <2>10, ReadNumbers
    <3>a. /\ i + m \in 1 .. Len(old) /\ rr[i].left = old[i + m].left - 1
          /\ old[i + m].left \in Int
          BY <2>8, <2>10
    <3>b. n = q - 1
          BY <2>10, <3>1, <3>a, ReadNumbers, SMTT(60)
    <3>2. BeforeNextReads(q, k) /\ n = q - 1
          BY <2>4, <3>1, <3>a, <3>b
    <3> QED BY <1>6, <3>2
  <2>11. ASSUME NEW j \in 1 .. Len(rb)
         PROVE  /\ rb[j].left >= 1
                /\ \A i \in 1 .. Len(rr) : rb[j].left <= rr[i].left
                /\ \A n : n = rb[j].left => BeforeNextReads(n, k)'
    <3>1. CASE HeadDue(CountDown(old))
      <4>1. rb[j].left = DataCycles
        <5>1. PICK e : e = [packet |-> CountDown(old)[1].packet, left |-> DataCycles]
              OBVIOUS
        <5>2. rb = <<e>> /\ e.left = DataCycles
              BY <2>7, <3>1, <5>1
        <5>3. j \in 1 .. Len(<<e>>)
              BY <2>11, <5>2
        <5> QED BY <5>2, <5>3, OneEntry
      <4>a. old[1].left = 1 /\ Len(old) >= 1
            BY <2>3, <3>1, DueEntry
      <4>2. old[1].left = 1 /\ 1 \in 1 .. Len(old)
            BY <2>3, <4>a
      <4>3. ASSUME NEW i \in 1 .. Len(rr) PROVE DataCycles <= rr[i].left
        <5>1. m = 1
              BY <2>8, <3>1
        <5>2. /\ i + 1 \in 1 .. Len(old) /\ rr[i].left = old[i + 1].left - 1
              /\ old[i + 1].left \in Int
              BY <2>8, <5>1
        <5>3. 1 < i + 1
              OBVIOUS
        <5>4. old[1].left + DataCycles <= old[i + 1].left
              BY <2>4, <4>2, <5>2, <5>3 DEF Spaced
        <5> QED BY <4>2, <5>2, <5>4, ReadNumbers
      <4>4. BeforeNextReads(DataCycles, k)'
        <5>1. PICK q \in Int : q = old[1].left + DataCycles
              BY <4>2, ReadNumbers
        <5>a. q - 1 = DataCycles
              BY <4>2, <5>1, ReadNumbers
        <5>2. BeforeNextReads(q, k) /\ q - 1 = DataCycles
              BY <2>4, <4>2, <5>1, <5>a
        <5>3. BeforeNextReads(q - 1, k)'
              BY <1>6, <5>2
        <5> QED BY <5>2, <5>3 DEF BeforeNextReads
      <4> QED BY <4>1, <4>3, <4>4, ReadNumbers
    <3>2. CASE ~HeadDue(CountDown(old))
      <4>1. rb = AfterCountDown(bus)
            BY <2>7, <3>2
      <4>2. j \in 1 .. Len(bus) /\ rb[j].left = bus[j].left - 1 /\ bus[j].left # 1
            BY <2>a, <2>11, <4>1
      <4>3. bus[j].left - 1 >= 1
            BY <2>4, <4>2
      <4>4. ASSUME NEW i \in 1 .. Len(rr) PROVE rb[j].left <= rr[i].left
        <5>1. /\ i + m \in 1 .. Len(old) /\ rr[i].left = old[i + m].left - 1
              /\ old[i + m].left \in Int
              BY <2>8
        <5>2. bus[j].left <= old[i + m].left /\ bus[j].left \in Int
              BY <2>4, <4>2, <5>1
        <5> QED BY <4>2, <5>1, <5>2
      <4>5. BeforeNextReads(bus[j].left - 1, k)'
            BY <1>6, <2>4, <4>2
      <4> QED BY <4>2, <4>3, <4>4, <4>5
    <3> QED BY <3>1, <3>2
  <2>12. Len(rb) <= 1
    <3>1. CASE HeadDue(CountDown(old))
          BY <2>7, <3>1, OneEntry
    <3>2. CASE ~HeadDue(CountDown(old))
          BY <2>3, <2>4, <2>7, <2>a, <3>2
    <3> QED BY <3>1, <3>2
  <2> QED BY <2>2, <2>9, <2>10, <2>11, <2>12, RankSpacedNext
<1> QED BY <1>2, <1>7, <1>8 DEF ReadDataSpaced

\* The command bus counts down, and a read that it delivers joins the countdown
\* list of its rank.
LEMMA CommandDelivers ==
    ASSUME TypeOK, CommandBus, Len(cmdBus) <= 1
    PROVE  /\ Len(cmdBus') \in Nat /\ Len(cmdBus') <= Len(cmdBus)
           /\ \A i \in 1 .. Len(cmdBus') : /\ i \in 1 .. Len(cmdBus)
                                           /\ cmdBus'[i].packet = cmdBus[i].packet
                                           /\ cmdBus'[i].left = cmdBus[i].left - 1
           /\ \/ /\ readReturn' = readReturn
                 /\ error' = "none" => \A i \in 1 .. Len(cmdBus) :
                        IsReadPacket(cmdBus[i].packet) => i \in 1 .. Len(cmdBus')
              \/ /\ 1 \in 1 .. Len(cmdBus) /\ cmdBus[1].left = 1
                 /\ IsReadPacket(cmdBus[1].packet) /\ Len(cmdBus') = 0
                 /\ \E x \in TimedData :
                        /\ x.left = RL /\ x.packet.id = cmdBus[1].packet.id
                        /\ x.packet.address = cmdBus[1].packet.address
                        /\ readReturn' = [readReturn EXCEPT ![RankOf(cmdBus[1].packet)]
                                              = Append(readReturn[RankOf(cmdBus[1].packet)], x)]
<1>1. cmdBus' = AfterCountDown(cmdBus) /\ cmdBus \in Seq([packet : BusPacket, left : Int])
      /\ Len(cmdBus) \in Nat
      BY TimedTypes DEF CommandBus
<1>2. /\ Len(AfterCountDown(cmdBus)) \in Nat /\ Len(AfterCountDown(cmdBus)) <= Len(cmdBus)
      /\ \A i \in 1 .. Len(AfterCountDown(cmdBus)) :
             /\ i \in 1 .. Len(cmdBus) /\ cmdBus[i] \in [packet : BusPacket, left : Int]
             /\ AfterCountDown(cmdBus)[i].packet = cmdBus[i].packet
             /\ AfterCountDown(cmdBus)[i].left = cmdBus[i].left - 1 /\ cmdBus[i].left # 1
      BY <1>1, BusAfter, Zenon
<1>3. CASE ~HeadDue(CountDown(cmdBus))
  <2>1. readReturn' = readReturn
        BY <1>3 DEF CommandBus
  <2>2. AfterCountDown(cmdBus) = CountDown(cmdBus)
        BY <1>3 DEF AfterCountDown
  <2>3. Len(CountDown(cmdBus)) = Len(cmdBus)
        BY <1>1, CountDownType
  <2> QED BY <1>1, <1>2, <2>1, <2>2, <2>3
<1>4. CASE HeadDue(CountDown(cmdBus))
  <2>1. PICK p : p = cmdBus[1].packet
        OBVIOUS
  <2>2. RankReceivesCommand(p) /\ Len(cmdBus') = 0
        BY <1>1, <1>4, <2>1, EmptySeq DEF CommandBus, AfterCountDown
  <2>3. Len(cmdBus) >= 1 /\ p \in BusPacket /\ cmdBus[1].left = 1
        BY <1>1, <1>4, <2>1, DueEntry
  <2>4. 1 \in 1 .. Len(cmdBus) /\ \A i \in 1 .. Len(cmdBus) : i = 1
        BY <1>1, <2>3
  <2>5. CASE p.busPacketType = "READ_P"
    <3>1. PICK x : x = [packet |-> [address |-> p.address, id |-> p.id,
                                    data |-> storage[p.address]],
                        left |-> RL]
          OBVIOUS
    <3>2. p.address \in Address /\ p.id \in Nat
          BY <2>3 DEF BusPacket
    <3>a. storage[p.address] \in Nat
          BY <3>2 DEF TypeOK
    <3>3. storage[p.address] \in Nat /\ RL \in Int
          BY <3>a, ReadNumbers
    <3>4. x \in TimedData /\ x.left = RL /\ x.packet.id = p.id
          /\ x.packet.address = p.address
          BY <3>1, <3>2, <3>3 DEF TimedData, DataPacket
    <3>5. readReturn' = [readReturn EXCEPT ![RankOf(p)] = Append(readReturn[RankOf(p)], x)]
          BY <2>2, <2>5, <3>1 DEF RankReceivesCommand, BankRead
    <3>6. IsReadPacket(p)
          BY <2>5 DEF IsReadPacket, ReadPackets
    <3> QED BY <1>1, <1>2, <2>1, <2>2, <2>3, <2>4, <3>4, <3>5, <3>6
  <2>6. CASE p.busPacketType # "READ_P"
    <3>1. readReturn' = readReturn
          BY <2>2, <2>6 DEF RankReceivesCommand
    <3>2. error' = "none" => ~IsReadPacket(p)
          BY <2>2, <2>6 DEF RankReceivesCommand, IsReadPacket, ReadPackets
    <3> QED BY <1>1, <1>2, <2>1, <2>4, <3>1, <3>2
  <2> QED BY <2>5, <2>6
<1> QED BY <1>3, <1>4

LEMMA CommandBusSpacedReads ==
    ASSUME TypeOK, ReadDataSpaced, CommandBus
    PROVE  ReadDataSpaced'
<1>0. Len(cmdBus) <= 1 /\ Len(cmdBus) \in Nat
      BY TimedTypes DEF ReadDataSpaced, CommandSpaced
<1>1. /\ phase = "command" /\ phase' = "data" /\ UNCHANGED <<nextRead, rankBus>>
      BY DEF CommandBus, Running
<1>2. \A r \in Ranks : /\ TickAhead(r) = 0 /\ TickAhead(r)' = 0
                       /\ CommandLate(r) = 1 /\ CommandLate(r)' = 0
      BY <1>1 DEF TickAhead, CommandLate, CountedDown
<1>3. /\ Len(cmdBus') \in Nat /\ Len(cmdBus') <= Len(cmdBus)
      /\ \A i \in 1 .. Len(cmdBus') : /\ i \in 1 .. Len(cmdBus)
                                      /\ cmdBus'[i].packet = cmdBus[i].packet
                                      /\ cmdBus'[i].left = cmdBus[i].left - 1
      BY <1>0, CommandDelivers
<1>4. CommandSpaced'
  <2>1. ASSUME NEW i \in 1 .. Len(cmdBus'), IsReadPacket(cmdBus'[i].packet), NEW b \in Banks
        PROVE  cmdBus'[i].left + DataCycles <= tCMD + nextRead'[RankOf(cmdBus'[i].packet)][b] + 0
    <3>1. PICK p : p = cmdBus[i].packet
          OBVIOUS
    <3>2. i \in 1 .. Len(cmdBus) /\ cmdBus'[i].packet = p /\ IsReadPacket(p)
          BY <1>3, <2>1, <3>1
    <3>3. cmdBus[i].left + DataCycles <= tCMD + nextRead[RankOf(p)][b] + 1
          BY <1>1, <3>1, <3>2 DEF ReadDataSpaced, CommandSpaced
    <3>4. nextRead[RankOf(p)][b] \in Nat /\ cmdBus[i].left \in Int
          BY <3>1, <3>2, TimedTypes, ReadNumbers
    <3>5. cmdBus'[i].left = cmdBus[i].left - 1 /\ tCMD \in Nat /\ DataCycles \in Nat
          BY <1>3, <2>1, ReadNumbers
    <3>6. PICK n \in Nat : n = nextRead[RankOf(p)][b]
          BY <3>4
    <3>7. PICK c \in Int : c = cmdBus[i].left
          BY <3>4
    <3>8. c + DataCycles <= tCMD + n + 1 /\ cmdBus'[i].left = c - 1
          BY <3>3, <3>5, <3>6, <3>7
    <3>9. cmdBus'[i].left + DataCycles <= tCMD + n + 0
          BY <3>5, <3>8
    <3> QED BY <1>1, <3>2, <3>6, <3>9
  <2> QED BY <1>0, <1>1, <1>3, <2>1 DEF CommandSpaced, IsReadPacket, RankOf
<1>5. ASSUME NEW r \in Ranks, NEW n \in Int, BeforeNextReads(n, r)
      PROVE  BeforeNextReads(n, r)'
  <2>1. ASSUME NEW i \in 1 .. Len(cmdBus'), IsReadPacket(cmdBus'[i].packet),
               RankOf(cmdBus'[i].packet) = r
        PROVE  n <= RL + cmdBus'[i].left - CommandLate(r)'
    <3>1. i \in 1 .. Len(cmdBus) /\ cmdBus'[i].packet = cmdBus[i].packet
          BY <1>3, <2>1
    <3>2. n <= RL + cmdBus[i].left - 1 /\ cmdBus[i].left \in Int
          BY <1>2, <1>5, <2>1, <3>1, TimedTypes DEF BeforeNextReads
    <3>3. cmdBus'[i].left = cmdBus[i].left - 1 /\ CommandLate(r)' = 0 /\ RL \in Nat
          BY <1>2, <1>3, <2>1, ReadNumbers
    <3> QED BY <3>2, <3>3
  <2> QED BY <1>1, <1>2, <1>5, <2>1 DEF BeforeNextReads, IsReadPacket, RankOf
<1>6. CASE readReturn' = readReturn
      BY <1>1, <1>4, <1>5, <1>6, RankSpacedStays DEF ReadDataSpaced
<1>7. CASE readReturn' # readReturn
  <2>1. PICK k \in Ranks, x \in TimedData :
            /\ 1 \in 1 .. Len(cmdBus) /\ cmdBus[1].left = 1
            /\ IsReadPacket(cmdBus[1].packet) /\ Len(cmdBus') = 0
            /\ k = RankOf(cmdBus[1].packet) /\ x.left = RL
            /\ readReturn' = [readReturn EXCEPT ![k] = Append(readReturn[k], x)]
        BY <1>0, <1>7, CommandDelivers, TimedTypes
  <2>2. readReturn \in [Ranks -> Seq(TimedData)]
        BY DEF TypeOK
  <2>3. ASSUME NEW r \in Ranks, r # k PROVE RankSpaced(r)'
    <3>1. readReturn'[r] = readReturn[r]
          BY <2>1, <2>2, <2>3
    <3> QED BY <1>1, <1>5, <3>1, RankSpacedStays DEF ReadDataSpaced
  <2>4. RankSpaced(k)'
    <3>1. PICK old, rb, rr : old = readReturn[k] /\ rb = rankBus'[k] /\ rr = readReturn'[k]
          OBVIOUS
    <3>2. rr = Append(old, x) /\ old \in Seq(TimedData) /\ Len(old) \in Nat
          BY <2>1, <2>2, <3>1, LenProperties
    <3>3. /\ Len(rr) = Len(old) + 1 /\ rr[Len(old) + 1] = x
          /\ \A i \in 1 .. Len(old) : rr[i] = old[i]
          BY <3>2, AppendProperties
    <3>4. /\ Spaced(old) /\ Len(rb) <= 1
          /\ \A i \in 1 .. Len(old) : /\ old[i].left \in Int
                                      /\ BeforeNextReads(old[i].left + DataCycles, k)
          /\ \A j \in 1 .. Len(rb) :
                 /\ rb[j].left \in Int /\ rb[j].left >= 1
                 /\ \A i \in 1 .. Len(old) : rb[j].left <= old[i].left
                 /\ BeforeNextReads(rb[j].left, k)
          BY <1>1, <3>1, RankTypes DEF ReadDataSpaced, RankSpaced
    <3>5. ASSUME NEW n \in Int, BeforeNextReads(n, k) PROVE n <= RL
      <4>1. n <= RL + cmdBus[1].left - CommandLate(k)
            BY <2>1, <3>5 DEF BeforeNextReads
      <4> QED BY <1>2, <2>1, <4>1, ReadNumbers
    <3>6. ASSUME NEW i \in 1 .. Len(old)
          PROVE  old[i].left + DataCycles <= RL /\ old[i].left + DataCycles \in Int
      <4>1. PICK n \in Int : n = old[i].left + DataCycles
            BY <3>4, ReadNumbers
      <4> QED BY <3>4, <3>5, <4>1
    <3>7. Spaced(rr)
      <4> SUFFICES ASSUME NEW i \in 1 .. Len(rr), NEW j \in 1 .. Len(rr), i < j
                   PROVE  rr[i].left + DataCycles <= rr[j].left
          BY DEF Spaced
      <4>1. i \in 1 .. Len(old)
            BY <3>2, <3>3
      <4>2. CASE j \in 1 .. Len(old)
            BY <3>3, <3>4, <4>1, <4>2 DEF Spaced
      <4>3. CASE j = Len(old) + 1
            BY <2>1, <3>3, <3>6, <4>1, <4>3
      <4> QED BY <3>2, <3>3, <4>2, <4>3
    <3>8. BeforeNextReads(RL + DataCycles, k)'
      <4>1. ASSUME NEW b \in Banks
            PROVE  RL + DataCycles <= RL + tCMD + nextRead'[k][b] + TickAhead(k)'
        <5>1. cmdBus[1].left + DataCycles <= tCMD + nextRead[k][b] + 1
              BY <1>1, <2>1 DEF ReadDataSpaced, CommandSpaced
        <5> QED BY <1>1, <1>2, <2>1, <5>1, ReadNumbers
      <4> QED BY <2>1, <4>1 DEF BeforeNextReads
    <3>9. ASSUME NEW i \in 1 .. Len(rr), NEW n, n = rr[i].left + DataCycles
          PROVE  BeforeNextReads(n, k)'
      <4>1. CASE i \in 1 .. Len(old)
            BY <1>5, <3>3, <3>4, <3>6, <3>9, <4>1
      <4>2. CASE i = Len(old) + 1
        <5>1. n = RL + DataCycles
              BY <2>1, <3>3, <3>9, <4>2
        <5> QED BY <3>8, <5>1 DEF BeforeNextReads
      <4> QED BY <3>2, <3>3, <3>9, <4>1, <4>2
    <3>10. ASSUME NEW j \in 1 .. Len(rb)
           PROVE  /\ rb[j].left >= 1
                  /\ \A i \in 1 .. Len(rr) : rb[j].left <= rr[i].left
                  /\ \A n : n = rb[j].left => BeforeNextReads(n, k)'
      <4>1. rb[j].left <= RL
            BY <3>4, <3>5, <3>10
      <4>2. ASSUME NEW i \in 1 .. Len(rr) PROVE rb[j].left <= rr[i].left
        <5>1. CASE i \in 1 .. Len(old)
              BY <3>3, <3>4, <3>10, <5>1
        <5>2. CASE i = Len(old) + 1
              BY <2>1, <3>3, <4>1, <5>2
        <5> QED BY <3>2, <3>3, <5>1, <5>2
      <4> QED BY <1>5, <3>4, <3>10, <4>2
    <3> QED BY <3>1, <3>4, <3>7, <3>9, <3>10, RankSpacedNext
  <2> QED BY <1>4, <2>3, <2>4 DEF ReadDataSpaced
<1> QED BY <1>6, <1>7

LEMMA PopSpacedReads ==
    ASSUME TypeOK, ReadDataSpaced, ReadsKeepDistance, phase = "issue", phase' = "schedule",
           UNCHANGED <<readReturn, rankBus>>,
           NEW r \in Ranks, NEW b \in Banks, NEW i \in 1 .. Len(queues[r][b]), Pops(r, b, i)
    PROVE  ReadDataSpaced'
<1>1. PICK p : p = queues[r][b][i]
      OBVIOUS
<1>2. /\ p \in BusPacket /\ p.address \in Address /\ RankOf(p) \in Ranks /\ BankOf(p) \in Banks
      BY <1>1, QueueTypes, Located
<1>3. /\ UpdateTiming(p) /\ isIssuable(p) /\ cmdBus' = <<[packet |-> p, left |-> tCMD]>>
      BY <1>1 DEF Pops, Eligible
<1>4. \A k \in Ranks : /\ TickAhead(k) = 0 /\ TickAhead(k)' = 0
                       /\ CommandLate(k) = 0 /\ CommandLate(k)' = 0
      BY DEF TickAhead, CommandLate, CountedDown
<1>5. /\ nextRead \in [Ranks -> [Banks -> Nat]] /\ nextRead' \in [Ranks -> [Banks -> Nat]]
      BY <1>2, <1>3, UpdateTimingType DEF TypeOK
<1>6. \A k \in Ranks, c \in Banks : nextRead'[k][c] >= nextRead[k][c]
  <2>1. \A same, other \in Nat : \A k \in Ranks, c \in Banks :
            Delay(nextRead, RankOf(p), same, other)[k][c] >= nextRead[k][c]
        BY <1>2, <1>5, DelayType
  <2>2. \E same, other \in Nat : nextRead' = Delay(nextRead, RankOf(p), same, other)
        BY <1>3, DelaysNat DEF UpdateTiming
  <2> QED BY <2>1, <2>2
<1>7. Len(cmdBus') = 1 /\ \A j \in 1 .. Len(cmdBus') : cmdBus'[j].packet = p
                                                       /\ cmdBus'[j].left = tCMD
      BY <1>3, OneEntry
<1>8. CommandSpaced'
  <2>1. ASSUME NEW j \in 1 .. Len(cmdBus'), IsReadPacket(cmdBus'[j].packet), NEW c \in Banks
        PROVE  cmdBus'[j].left + DataCycles <= tCMD + nextRead'[RankOf(cmdBus'[j].packet)][c] + 0
    <3>1. IsReadPacket(p) /\ cmdBus'[j].packet = p /\ cmdBus'[j].left = tCMD
          BY <1>7, <2>1
    <3>2. nextRead' = Delay(nextRead, RankOf(p), READ_TO_READ_DELAY, RANK_TO_RANK_DELAY)
          BY <1>3, <3>1 DEF UpdateTiming, IsReadPacket
    <3>3. nextRead'[RankOf(p)][c] >= READ_TO_READ_DELAY
          BY <1>2, <1>5, <3>2, DelayType, DelaysNat
    <3>4. PICK n \in Nat : n = nextRead'[RankOf(p)][c]
          BY <1>2, <1>5
    <3>5. DataCycles <= n /\ DataCycles \in Nat /\ tCMD \in Nat
          BY <3>3, <3>4, ReadNumbers, DelaysNat DEF ReadsKeepDistance
    <3>6. tCMD + DataCycles <= tCMD + n + 0
          BY <3>4, <3>5
    <3> QED BY <3>1, <3>4, <3>6
  <2> QED BY <1>7, <2>1 DEF CommandSpaced, IsReadPacket, RankOf
<1>9. ASSUME NEW k \in Ranks, NEW n \in Int, BeforeNextReads(n, k)
      PROVE  BeforeNextReads(n, k)'
  <2>1. ASSUME NEW c \in Banks PROVE n <= RL + tCMD + nextRead'[k][c] + TickAhead(k)'
    <3>1. n <= RL + tCMD + nextRead[k][c] + 0 /\ nextRead'[k][c] >= nextRead[k][c]
          BY <1>4, <1>6, <1>9 DEF BeforeNextReads
    <3>2. nextRead[k][c] \in Nat /\ nextRead'[k][c] \in Nat
          BY <1>5
    <3> QED BY <1>4, <3>1, <3>2, ReadNumbers
  <2>2. ASSUME NEW j \in 1 .. Len(cmdBus'), IsReadPacket(cmdBus'[j].packet),
               RankOf(cmdBus'[j].packet) = k
        PROVE  n <= RL + cmdBus'[j].left - CommandLate(k)'
    <3>1. RankOf(p) = k /\ IsReadPacket(p) /\ cmdBus'[j].left = tCMD
          BY <1>7, <2>2
    <3>2. nextRead[k][BankOf(p)] = 0
          BY <1>3, <3>1 DEF isIssuable, IsReadPacket, ReadPackets, WritePackets
    <3>3. n <= RL + tCMD + nextRead[k][BankOf(p)] + 0
          BY <1>2, <1>4, <1>9 DEF BeforeNextReads
    <3> QED BY <1>4, <3>1, <3>2, <3>3, ReadNumbers
  <2> QED BY <2>1, <2>2 DEF BeforeNextReads, IsReadPacket, RankOf
<1>10. ASSUME NEW k \in Ranks PROVE RankSpaced(k)'
       BY <1>9, RankSpacedStays DEF ReadDataSpaced
<1> QED BY <1>8, <1>10 DEF ReadDataSpaced

LEMMA ReturnReadSpacedReads ==
    ASSUME TypeOK, CountdownInv, ReadDataSpaced, ReturnRead
    PROVE  ReadDataSpaced'
<1>1. /\ phase = "return" /\ phase' = "ranks" /\ turn' = 0
      /\ UNCHANGED <<cmdBus, readReturn, rankBus>> /\ nextRead' = Tick(nextRead)
      BY DEF ReturnRead, Running, busVars, rankVars, CountdownInv
<1>2. \A k \in Ranks : k >= 0 /\ k \in Int
      BY ConfigAssumption DEF Ranks
<1>3. \A k \in Ranks : /\ TickAhead(k) = 0 /\ TickAhead(k)' = 1
                       /\ CommandLate(k) = 0 /\ CommandLate(k)' = 0
      BY <1>1, <1>2 DEF TickAhead, CommandLate, CountedDown
<1>4. /\ nextRead \in [Ranks -> [Banks -> Nat]] /\ nextRead' \in [Ranks -> [Banks -> Nat]]
      /\ \A k \in Ranks, c \in Banks : nextRead'[k][c] >= nextRead[k][c] - 1
      BY <1>1, TickType DEF TypeOK
<1>5. CommandSpaced'
  <2>1. ASSUME NEW j \in 1 .. Len(cmdBus), NEW p, p = cmdBus[j].packet, IsReadPacket(p),
               NEW c \in Banks
        PROVE  cmdBus[j].left + DataCycles <= tCMD + nextRead'[RankOf(p)][c] + 1
    <3>1. cmdBus[j].left + DataCycles <= tCMD + nextRead[RankOf(p)][c] + 0
          BY <1>1, <2>1 DEF ReadDataSpaced, CommandSpaced
    <3>2. RankOf(p) \in Ranks /\ cmdBus[j].left \in Int
          BY <2>1, TimedTypes
    <3>3. PICK n, m \in Nat : n = nextRead[RankOf(p)][c] /\ m = nextRead'[RankOf(p)][c]
          BY <1>4, <3>2
    <3>4. m >= n - 1
          BY <1>4, <3>2, <3>3
    <3>5. PICK x \in Int : x = cmdBus[j].left
          BY <3>2
    <3>a. x + DataCycles <= tCMD + n + 0
          BY <3>1, <3>3, <3>5
    <3>6. x + DataCycles <= tCMD + m + 1
          BY <3>4, <3>a, ReadNumbers
    <3> QED BY <3>3, <3>5, <3>6
  <2> QED BY <1>1, <2>1 DEF ReadDataSpaced, CommandSpaced, IsReadPacket, RankOf
<1>6. ASSUME NEW k \in Ranks, NEW n \in Int, BeforeNextReads(n, k)
      PROVE  BeforeNextReads(n, k)'
  <2>1. ASSUME NEW c \in Banks PROVE n <= RL + tCMD + nextRead'[k][c] + TickAhead(k)'
    <3>1. n <= RL + tCMD + nextRead[k][c] + 0 /\ nextRead'[k][c] >= nextRead[k][c] - 1
          BY <1>3, <1>4, <1>6 DEF BeforeNextReads
    <3>2. nextRead[k][c] \in Nat /\ nextRead'[k][c] \in Nat
          BY <1>4
    <3> QED BY <1>3, <3>1, <3>2, ReadNumbers
  <2> QED BY <1>1, <1>3, <1>6, <2>1 DEF BeforeNextReads, IsReadPacket, RankOf
<1>7. ASSUME NEW k \in Ranks PROVE RankSpaced(k)'
      BY <1>1, <1>6, RankSpacedStays DEF ReadDataSpaced
<1> QED BY <1>5, <1>7 DEF ReadDataSpaced

LEMMA InitSpacedReads == Init => ReadDataSpaced
<1> SUFFICES ASSUME Init PROVE ReadDataSpaced
    OBVIOUS
<1>1. /\ Len(cmdBus) = 0 /\ \A r \in Ranks : Len(readReturn[r]) = 0 /\ Len(rankBus[r]) = 0
      BY EmptySeq DEF Init
<1> QED BY <1>1 DEF ReadDataSpaced, CommandSpaced, RankSpaced, Spaced

LEMMA NextSpacedReads ==
    ASSUME TypeOK, CountdownInv, ReadsKeepDistance, ReadDataSpaced, [Next]_vars
    PROVE  ReadDataSpaced'
<1> USE DEF schedVars, busVars, bankVars, rankVars
<1>1. CASE AddTransaction
      BY <1>1, QuietSpaced DEF AddTransaction, CountedDown
<1>2. CASE AddPending
      BY <1>2, QuietSpaced DEF AddPending, CountedDown
<1>3. CASE RankUpdate
      BY <1>3, RankUpdateSpacedReads
<1>4. CASE DrainPending
      BY <1>4, QuietSpaced DEF DrainPending, Running, CountedDown
<1>5. CASE CommandBus
      BY <1>5, CommandBusSpacedReads
<1>6. CASE DataBus
      BY <1>6, QuietSpaced DEF DataBus, Running, CountedDown
<1>7. CASE IssueCommand
  <2>1. phase = "issue" /\ phase' = "schedule" /\ UNCHANGED <<readReturn, rankBus>>
        BY <1>7 DEF IssueCommand, Running
  <2>2. CASE UNCHANGED <<cmdBus, bankVars>>
        BY <2>1, <2>2, QuietSpaced DEF CountedDown
  <2>3. CASE \E r \in Ranks, b \in Banks : \E i \in 1 .. Len(queues[r][b]) : Pops(r, b, i)
        BY <2>1, <2>3, PopSpacedReads
  <2> QED BY <1>7, <2>2, <2>3, IssueMeans
<1>8. CASE ScheduleTransaction
      BY <1>8, QuietSpaced DEF ScheduleTransaction, Running, CountedDown
<1>9. CASE ReturnRead
      BY <1>9, ReturnReadSpacedReads
<1>10. CASE UNCHANGED vars
      BY <1>10, QuietSpaced DEF vars, CountedDown
<1> QED BY <1>1, <1>2, <1>3, <1>4, <1>5, <1>6, <1>7, <1>8, <1>9, <1>10 DEF Next, Cycle

(***************************************************************************)
(* The order of reads                                                      *)
(***************************************************************************)
\* pop takes the reads of one address in the order they were accepted.
LEMMA PoppedReadInOrder ==
    ASSUME TypeOK, QueueInv, NEW r \in Ranks, NEW b \in Banks,
           NEW i \in 1 .. Len(queues[r][b]), Pops(r, b, i),
           NEW p, p = queues[r][b][i], IsReadPacket(p),
           NEW w, Waiting(w), IsRead(w), accepted[w].address = p.address, w # p.id
    PROVE  p.id < w
<1> DEFINE q == queues[r][b]
<1>1. /\ p \in BusPacket /\ Recorded(p) /\ SlotOf(p) = <<r, b>>
      /\ \A j \in 1 .. Len(transactionQueue) :
             SlotOf(transactionQueue[j]) = <<r, b>> => p.id < transactionQueue[j].id
      BY QueueTypes DEF QueueInv
<1>3. CASE \E j \in 1 .. Len(transactionQueue) : transactionQueue[j].id = w
  <2>1. PICK j \in 1 .. Len(transactionQueue) : transactionQueue[j].id = w
        BY <1>3
  <2>2. transactionQueue[j].address = p.address
        BY <2>1 DEF QueueInv, Recorded
  <2>3. SlotOf(transactionQueue[j]) = SlotOf(p)
        BY <2>2 DEF SlotOf, RankOf, BankOf
  <2> QED BY <1>1, <2>1, <2>3
<1>4. CASE \E s \in Ranks, c \in Banks : \E m \in 1 .. Len(queues[s][c]) :
               queues[s][c][m].id = w
  <2>1. PICK s \in Ranks, c \in Banks : \E m \in 1 .. Len(queues[s][c]) :
               queues[s][c][m].id = w
        BY <1>4
  <2>2. PICK m \in 1 .. Len(queues[s][c]) : queues[s][c][m].id = w
        BY <2>1
  <2>3. PICK x : x = queues[s][c][m]
        OBVIOUS
  <2>4. /\ x \in BusPacket /\ x.address = p.address /\ IsReadPacket(x)
        /\ SlotOf(x) = <<s, c>>
        BY <2>2, <2>3, QueueTypes DEF QueueInv, Recorded
  <2>5. SlotOf(x) = SlotOf(p) /\ RankOf(x) = RankOf(p) /\ BankOf(x) = BankOf(p)
        /\ RowOf(x) = RowOf(p)
        BY <2>4 DEF SlotOf, RankOf, BankOf, RowOf
  <2>6. s = r /\ c = b
        BY <1>1, <2>4, <2>5
  <2>7. m \in 1 .. Len(q) /\ x = q[m] /\ Len(q) \in Nat
        BY <2>3, <2>6, QueueTypes
  <2>8. m # i
        BY <2>2, <2>3, <2>7
  <2>9. CASE i < m
    <3>1. Increasing(q)
          BY DEF QueueInv
    <3> QED BY <2>2, <2>3, <2>7, <2>9, <3>1 DEF Increasing
  <2>10. CASE m < i
    <3>1. i \in Eligible(q) /\ \A j \in Eligible(q) : i <= j
          BY DEF Pops
    <3>2. isIssuable(x) <=> isIssuable(p)
          BY <2>4, <2>5 DEF isIssuable, IsReadPacket, ReadPackets, WritePackets
    <3>3. isIssuable(q[i])
          BY <3>1 DEF Eligible
    <3>4. isIssuable(q[m])
          BY <2>7, <3>2, <3>3
    <3>5. m \in 1 .. i - 1
          BY <2>7, <2>10
    <3>6. CASE rowBufferPolicy = "OpenPage"
      <4>1. ~ \E j \in 1 .. i - 1 : BankOf(q[j]) = BankOf(q[i]) /\ RowOf(q[j]) = RowOf(q[i])
            BY <3>1, <3>6 DEF Eligible
      <4> QED BY <2>5, <2>7, <3>5, <4>1
    <3>7. CASE rowBufferPolicy = "ClosePage"
      <4>1. queuingStructure = "PerRankPerBank" => i = 1
            BY <3>1, <3>7 DEF Eligible
      <4>2. queuingStructure # "PerRankPerBank"
            BY <2>7, <2>10, <4>1
      <4>3. m \in Eligible(q)
            BY <2>7, <3>4, <3>7, <4>2 DEF Eligible
      <4> QED BY <2>7, <2>10, <3>1, <4>3
    <3> QED BY <3>6, <3>7, ConfigAssumption
  <2> QED BY <2>7, <2>8, <2>9, <2>10
<1> QED BY <1>3, <1>4 DEF Waiting

\* A read that was popped stays ahead of those that wait.
LEMMA StillPopped ==
    ASSUME TypeOK, QueueInv, [Next]_vars, NEW p, Popped(p), Pending(p.id)'
    PROVE  Popped(p)'
<1>1. /\ Len(accepted) \in Nat /\ Len(accepted') \in Nat
      /\ Len(accepted) <= Len(accepted')
      /\ \A id \in 1 .. Len(accepted) : accepted'[id] = accepted[id]
      /\ \A w \in 1 .. Len(accepted) : Waiting(w)' => Waiting(w)
      BY HistoryGrows
<1>2. p.id \in 1 .. Len(accepted) /\ accepted[p.id].address = p.address /\ IsRead(p.id)
      BY DEF Popped, Recorded
<1>3. p.id \in 1 .. Len(accepted') /\ accepted'[p.id] = accepted[p.id]
      BY <1>1, <1>2
<1>4. Recorded(p)' /\ IsRead(p.id)'
      BY <1>2, <1>3 DEF Recorded, IsRead
<1>5. ASSUME NEW v \in 1 .. Len(accepted'), Waiting(v)', IsRead(v)',
             accepted'[v].address = p.address
      PROVE  p.id < v
  <2>1. CASE v \in 1 .. Len(accepted)
    <3>1. accepted'[v] = accepted[v] /\ Waiting(v)
          BY <1>1, <1>5, <2>1
    <3>2. IsRead(v) /\ accepted[v].address = p.address
          BY <1>5, <3>1 DEF IsRead
    <3> QED BY <2>1, <3>1, <3>2 DEF Popped
  <2>2. CASE v \notin 1 .. Len(accepted)
        BY <1>1, <1>2, <2>2
  <2> QED BY <2>1, <2>2
<1> QED BY <1>4, <1>5 DEF Popped

\* ReadsInLine of the next state, said about its packets one at a time.
LEMMA ReadsInLineNext ==
    ASSUME \A i \in 1 .. Len(cmdBus') : \A p :
               p = cmdBus'[i].packet /\ IsReadPacket(p) => Popped(p)',
           \A r \in Ranks : \A i \in 1 .. Len(readReturn'[r]) : \A p :
               p = readReturn'[r][i].packet =>
                   /\ Popped(p)' /\ RankOf(p) = r /\ OlderThanCommand(p)'
                   /\ OlderThan(p, readReturn'[r], i + 1),
           \A r \in Ranks : \A i \in 1 .. Len(rankBus'[r]) : \A p :
               p = rankBus'[r][i].packet =>
                   /\ Popped(p)' /\ RankOf(p) = r /\ OlderThanCommand(p)'
                   /\ OlderThan(p, readReturn'[r], 1),
           \A i \in 1 .. Len(returnTransaction') : \A p :
               p = returnTransaction'[i] =>
                   /\ Popped(p)' /\ OlderThanCommand(p)'
                   /\ OlderThan(p, readReturn'[RankOf(p)], 1)
                   /\ OlderThan(p, rankBus'[RankOf(p)], 1)
                   /\ \A j \in i + 1 .. Len(returnTransaction') :
                          returnTransaction'[j].address = p.address
                              => p.id < returnTransaction'[j].id
    PROVE  ReadsInLine'
<1> USE DEF RankOf, IsReadPacket
<1>2. ASSUME NEW i \in 1 .. Len(cmdBus'), IsReadPacket(cmdBus[i].packet)'
      PROVE  Popped(cmdBus[i].packet)'
  <2>1. PICK p : p = cmdBus'[i].packet
        OBVIOUS
  <2>2. Popped(p)'
        BY <1>2, <2>1
  <2> QED BY <2>1, <2>2 DEF Popped, Recorded, IsRead, Pending
<1>3. ASSUME NEW r \in Ranks, NEW i \in 1 .. Len(readReturn'[r])
      PROVE  (LET p == readReturn[r][i].packet IN
                  /\ Popped(p) /\ RankOf(p) = r
                  /\ OlderThanCommand(p) /\ OlderThan(p, readReturn[r], i + 1))'
  <2>1. PICK p : p = readReturn'[r][i].packet
        OBVIOUS
  <2>2. Popped(p)' /\ RankOf(p) = r /\ OlderThanCommand(p)'
        /\ OlderThan(p, readReturn'[r], i + 1)
        BY <1>3, <2>1
  <2> QED BY <2>1, <2>2 DEF Popped, Recorded, IsRead, Pending, OlderThanCommand, OlderThan
<1>4. ASSUME NEW r \in Ranks, NEW i \in 1 .. Len(rankBus'[r])
      PROVE  (LET p == rankBus[r][i].packet IN
                  /\ Popped(p) /\ RankOf(p) = r
                  /\ OlderThanCommand(p) /\ OlderThan(p, readReturn[r], 1))'
  <2>1. PICK p : p = rankBus'[r][i].packet
        OBVIOUS
  <2>2. Popped(p)' /\ RankOf(p) = r /\ OlderThanCommand(p)'
        /\ OlderThan(p, readReturn'[r], 1)
        BY <1>4, <2>1
  <2> QED BY <2>1, <2>2 DEF Popped, Recorded, IsRead, Pending, OlderThanCommand, OlderThan
<1>5. ASSUME NEW i \in 1 .. Len(returnTransaction')
      PROVE  (LET p == returnTransaction[i] IN
                  /\ Popped(p) /\ OlderThanCommand(p)
                  /\ OlderThan(p, readReturn[RankOf(p)], 1)
                  /\ OlderThan(p, rankBus[RankOf(p)], 1)
                  /\ \A j \in i + 1 .. Len(returnTransaction) :
                         returnTransaction[j].address = p.address
                             => p.id < returnTransaction[j].id)'
  <2>1. PICK p : p = returnTransaction'[i]
        OBVIOUS
  <2>2. /\ Popped(p)' /\ OlderThanCommand(p)'
        /\ OlderThan(p, readReturn'[RankOf(p)], 1)
        /\ OlderThan(p, rankBus'[RankOf(p)], 1)
        /\ \A j \in i + 1 .. Len(returnTransaction') :
               returnTransaction'[j].address = p.address
                   => p.id < returnTransaction'[j].id
        BY <1>5, <2>1
  <2> QED BY <2>1, <2>2 DEF Popped, Recorded, IsRead, Pending, OlderThanCommand, OlderThan
<1> QED BY <1>2, <1>3, <1>4, <1>5 DEF ReadsInLine

LEMMA QuietLine ==
    ASSUME TypeOK, QueueInv, ReadsInLine, [Next]_vars,
           UNCHANGED <<cmdBus, readReturn, rankBus, returnTransaction>>,
           \A id : Pending(id) => Pending(id)'
    PROVE  ReadsInLine'
<1>1. ASSUME NEW p, Popped(p) PROVE Popped(p)'
  <2>1. Pending(p.id)
        BY <1>1 DEF Popped
  <2>2. PICK id : id = p.id
        OBVIOUS
  <2>3. Pending(id)'
        BY <2>1, <2>2
  <2>4. Pending(p.id)'
        BY <2>2, <2>3
  <2> QED BY <1>1, <2>4, StillPopped
<1>2. ASSUME NEW p, OlderThanCommand(p) PROVE OlderThanCommand(p)'
      BY <1>2 DEF OlderThanCommand, IsReadPacket
<1>3. ASSUME NEW i \in 1 .. Len(cmdBus'), NEW p, p = cmdBus'[i].packet, IsReadPacket(p)
      PROVE  Popped(p)'
      BY <1>1, <1>3 DEF ReadsInLine
<1>4. ASSUME NEW r \in Ranks, NEW i \in 1 .. Len(readReturn'[r]), NEW p,
             p = readReturn'[r][i].packet
      PROVE  /\ Popped(p)' /\ RankOf(p) = r /\ OlderThanCommand(p)'
             /\ OlderThan(p, readReturn'[r], i + 1)
      BY <1>1, <1>2, <1>4 DEF ReadsInLine
<1>5. ASSUME NEW r \in Ranks, NEW i \in 1 .. Len(rankBus'[r]), NEW p,
             p = rankBus'[r][i].packet
      PROVE  /\ Popped(p)' /\ RankOf(p) = r /\ OlderThanCommand(p)'
             /\ OlderThan(p, readReturn'[r], 1)
      BY <1>1, <1>2, <1>5 DEF ReadsInLine
<1>6. ASSUME NEW i \in 1 .. Len(returnTransaction'), NEW p, p = returnTransaction'[i]
      PROVE  /\ Popped(p)' /\ OlderThanCommand(p)'
             /\ OlderThan(p, readReturn'[RankOf(p)], 1)
             /\ OlderThan(p, rankBus'[RankOf(p)], 1)
             /\ \A j \in i + 1 .. Len(returnTransaction') :
                    returnTransaction'[j].address = p.address
                        => p.id < returnTransaction'[j].id
      BY <1>1, <1>2, <1>6 DEF ReadsInLine
<1> QED BY <1>3, <1>4, <1>5, <1>6, ReadsInLineNext

\* The read that is popped is the newest of its address that is not waiting.
LEMMA PopLine ==
    ASSUME TypeOK, QueueInv, ReadsInLine, PendingInOrder, [Next]_vars,
           UNCHANGED <<transactionQueue, accepted, readReturn, rankBus, returnTransaction,
                       pendingReadTransactions>>,
           NEW r \in Ranks, NEW b \in Banks, NEW k \in 1 .. Len(queues[r][b]), Pops(r, b, k)
    PROVE  ReadsInLine'
<1>1. PICK c : c = queues[r][b][k]
      OBVIOUS
<1>2. cmdBus' = <<[packet |-> c, left |-> tCMD]>>
      BY <1>1 DEF Pops
<1>3. \A j \in 1 .. Len(cmdBus') : cmdBus'[j].packet = c
      BY <1>2, OneEntry
<1>4. /\ Recorded(c) /\ (IsReadPacket(c) <=> IsRead(c.id))
      /\ IsReadPacket(c) => Pending(c.id)
      BY <1>1 DEF QueueInv, PendingInOrder
<1>5. PICK id : id = c.id
      OBVIOUS
<1>6. /\ Waiting(id) /\ ~Waiting(id)'
      /\ \A w : Waiting(w)' => Waiting(w)
      BY <1>1, <1>5, PopWaiting
<1>7. \A n : Pending(n)' <=> Pending(n)
      BY DEF Pending
<1>8. ASSUME IsReadPacket(c) PROVE Popped(c)'
  <2>1. Recorded(c)' /\ IsRead(c.id)'
        BY <1>4, <1>8 DEF Recorded, IsRead
  <2>2. Pending(id)'
        BY <1>4, <1>5, <1>7, <1>8
  <2>a. Pending(c.id)'
        BY <1>5, <2>2
  <2>3. ASSUME NEW v \in 1 .. Len(accepted'), Waiting(v)', IsRead(v)',
               accepted'[v].address = c.address
        PROVE  c.id < v
    <3>1. Waiting(v) /\ v # c.id
          BY <1>5, <1>6, <2>3
    <3>2. IsRead(v) /\ accepted[v].address = c.address
          BY <2>3 DEF IsRead
    <3> QED BY <1>1, <1>8, <3>1, <3>2, PoppedReadInOrder
  <2> QED BY <2>1, <2>a, <2>3 DEF Popped
<1>9. ASSUME NEW p, Popped(p) PROVE Popped(p)' /\ OlderThanCommand(p)'
  <2>1. PICK n : n = p.id
        OBVIOUS
  <2>2. Pending(n)'
        BY <1>7, <1>9, <2>1 DEF Popped
  <2>3. Pending(p.id)'
        BY <2>1, <2>2
  <2>4. Popped(p)'
        BY <1>9, <2>3, StillPopped
  <2>5. ASSUME IsReadPacket(c), c.address = p.address PROVE p.id < c.id
    <3>1. /\ c.id \in 1 .. Len(accepted) /\ IsRead(c.id) /\ Waiting(c.id)
          /\ accepted[c.id].address = p.address
          BY <1>4, <1>5, <1>6, <2>5 DEF Recorded
    <3> QED BY <1>9, <3>1 DEF Popped
  <2>6. OlderThanCommand(p)'
        BY <1>3, <2>5 DEF OlderThanCommand, IsReadPacket
  <2> QED BY <2>4, <2>6
<1>10. ASSUME NEW i \in 1 .. Len(cmdBus'), NEW p, p = cmdBus'[i].packet, IsReadPacket(p)
      PROVE  Popped(p)'
  <2>1. p = c
        BY <1>3, <1>10
  <2> QED BY <1>8, <1>10, <2>1
<1>11. ASSUME NEW s \in Ranks, NEW i \in 1 .. Len(readReturn'[s]), NEW p,
             p = readReturn'[s][i].packet
      PROVE  /\ Popped(p)' /\ RankOf(p) = s /\ OlderThanCommand(p)'
             /\ OlderThan(p, readReturn'[s], i + 1)
      BY <1>9, <1>11 DEF ReadsInLine
<1>12. ASSUME NEW s \in Ranks, NEW i \in 1 .. Len(rankBus'[s]), NEW p,
             p = rankBus'[s][i].packet
      PROVE  /\ Popped(p)' /\ RankOf(p) = s /\ OlderThanCommand(p)'
             /\ OlderThan(p, readReturn'[s], 1)
      BY <1>9, <1>12 DEF ReadsInLine
<1>13. ASSUME NEW i \in 1 .. Len(returnTransaction'), NEW p, p = returnTransaction'[i]
      PROVE  /\ Popped(p)' /\ OlderThanCommand(p)'
             /\ OlderThan(p, readReturn'[RankOf(p)], 1)
             /\ OlderThan(p, rankBus'[RankOf(p)], 1)
             /\ \A j \in i + 1 .. Len(returnTransaction') :
                    returnTransaction'[j].address = p.address
                        => p.id < returnTransaction'[j].id
      BY <1>9, <1>13 DEF ReadsInLine
<1> QED BY <1>10, <1>11, <1>12, <1>13, ReadsInLineNext

LEMMA CommandBusLine ==
    ASSUME TypeOK, QueueInv, ReadsInLine, [Next]_vars, CommandBus, Len(cmdBus) <= 1
    PROVE  ReadsInLine'
<1>1. UNCHANGED <<rankBus, returnTransaction, pendingReadTransactions, transactionQueue,
                  queues, accepted>>
      BY DEF CommandBus, mcVars, histVars, queueVars
<1>2. ASSUME NEW p, Popped(p) PROVE Popped(p)'
  <2>1. Pending(p.id)'
        BY <1>1, <1>2 DEF Popped, Pending
  <2> QED BY <1>2, <2>1, StillPopped
<1>3. /\ Len(cmdBus') \in Nat /\ Len(cmdBus') <= Len(cmdBus)
      /\ \A i \in 1 .. Len(cmdBus') : i \in 1 .. Len(cmdBus)
                                      /\ cmdBus'[i].packet = cmdBus[i].packet
      BY CommandDelivers
<1>4. ASSUME NEW p, OlderThanCommand(p) PROVE OlderThanCommand(p)'
      BY <1>3, <1>4 DEF OlderThanCommand, IsReadPacket
<1>5. ASSUME NEW i \in 1 .. Len(cmdBus'), NEW p, p = cmdBus'[i].packet, IsReadPacket(p)
      PROVE  Popped(p)'
      BY <1>2, <1>3, <1>5 DEF ReadsInLine
<1>6. CASE readReturn' = readReturn
  <2>1. ASSUME NEW s \in Ranks, NEW i \in 1 .. Len(readReturn'[s]), NEW p,
               p = readReturn'[s][i].packet
        PROVE  /\ Popped(p)' /\ RankOf(p) = s /\ OlderThanCommand(p)'
               /\ OlderThan(p, readReturn'[s], i + 1)
        BY <1>2, <1>4, <1>6, <2>1 DEF ReadsInLine
  <2>2. ASSUME NEW s \in Ranks, NEW i \in 1 .. Len(rankBus'[s]), NEW p,
               p = rankBus'[s][i].packet
        PROVE  /\ Popped(p)' /\ RankOf(p) = s /\ OlderThanCommand(p)'
               /\ OlderThan(p, readReturn'[s], 1)
        BY <1>1, <1>2, <1>4, <1>6, <2>2 DEF ReadsInLine
  <2>3. ASSUME NEW i \in 1 .. Len(returnTransaction'), NEW p, p = returnTransaction'[i]
        PROVE  /\ Popped(p)' /\ OlderThanCommand(p)'
               /\ OlderThan(p, readReturn'[RankOf(p)], 1)
               /\ OlderThan(p, rankBus'[RankOf(p)], 1)
               /\ \A j \in i + 1 .. Len(returnTransaction') :
                      returnTransaction'[j].address = p.address
                          => p.id < returnTransaction'[j].id
        BY <1>1, <1>2, <1>4, <1>6, <2>3 DEF ReadsInLine
  <2> QED BY <1>5, <2>1, <2>2, <2>3, ReadsInLineNext
<1>7. CASE readReturn' # readReturn
  <2>1. PICK c, x : /\ c = cmdBus[1].packet /\ x \in TimedData
                    /\ 1 \in 1 .. Len(cmdBus) /\ IsReadPacket(c) /\ Len(cmdBus') = 0
                    /\ x.packet.id = c.id /\ x.packet.address = c.address
                    /\ readReturn' = [readReturn EXCEPT ![RankOf(c)]
                                          = Append(readReturn[RankOf(c)], x)]
        BY <1>7, CommandDelivers
  <2>2. PICK e : e = x.packet
        OBVIOUS
  <2>3. e.id = c.id /\ e.address = c.address /\ RankOf(e) = RankOf(c) /\ RankOf(c) \in Ranks
        BY <2>1, <2>2, TimedTypes DEF RankOf
  <2>4. Popped(c)
        BY <2>1 DEF ReadsInLine
  <2>5. Popped(e)
        BY <2>3, <2>4 DEF Popped, Recorded
  <2>6. \A p : OlderThanCommand(p)'
        BY <2>1 DEF OlderThanCommand
  <2>7. readReturn \in [Ranks -> Seq(TimedData)]
        BY DEF TypeOK
  <2>8. ASSUME NEW p, OlderThanCommand(p), e.address = p.address PROVE p.id < e.id
        BY <2>1, <2>3, <2>8 DEF OlderThanCommand
  <2>9. ASSUME NEW s \in Ranks
        PROVE  \/ readReturn'[s] = readReturn[s]
               \/ /\ s = RankOf(e) /\ Len(readReturn[s]) \in Nat
                  /\ Len(readReturn'[s]) = Len(readReturn[s]) + 1
                  /\ readReturn'[s][Len(readReturn[s]) + 1].packet = e
                  /\ \A j \in 1 .. Len(readReturn[s]) : readReturn'[s][j] = readReturn[s][j]
    <3>1. CASE s = RankOf(c)
      <4>1. readReturn'[s] = Append(readReturn[s], x) /\ readReturn[s] \in Seq(TimedData)
            BY <2>1, <2>7, <3>1
      <4>2. /\ Len(readReturn'[s]) = Len(readReturn[s]) + 1 /\ Len(readReturn[s]) \in Nat
            /\ readReturn'[s][Len(readReturn[s]) + 1] = x
            /\ \A j \in 1 .. Len(readReturn[s]) : readReturn'[s][j] = readReturn[s][j]
            BY <2>1, <4>1, AppendProperties, LenProperties
      <4> QED BY <2>2, <2>3, <3>1, <4>2
    <3>2. CASE s # RankOf(c)
          BY <2>1, <2>7, <3>2
    <3> QED BY <3>1, <3>2
  <2>10. ASSUME NEW s \in Ranks, NEW p, OlderThanCommand(p), NEW i \in Nat \ {0},
                OlderThan(p, readReturn[s], i)
         PROVE  OlderThan(p, readReturn'[s], i)
    <3> SUFFICES ASSUME NEW j \in i .. Len(readReturn'[s]),
                        readReturn'[s][j].packet.address = p.address
                 PROVE  p.id < readReturn'[s][j].packet.id
        BY DEF OlderThan
    <3>1. CASE readReturn'[s] = readReturn[s]
          BY <2>10, <3>1 DEF OlderThan
    <3>2. CASE readReturn'[s] # readReturn[s]
      <4>1. CASE j = Len(readReturn[s]) + 1
            BY <2>8, <2>9, <2>10, <3>2, <4>1
      <4>2. CASE j # Len(readReturn[s]) + 1
        <5>1. /\ Len(readReturn[s]) \in Nat /\ Len(readReturn'[s]) = Len(readReturn[s]) + 1
              /\ \A m \in 1 .. Len(readReturn[s]) : readReturn'[s][m] = readReturn[s][m]
              BY <2>9, <3>2
        <5>2. j \in i .. Len(readReturn[s]) /\ j \in 1 .. Len(readReturn[s])
              BY <4>2, <5>1
        <5> QED BY <2>10, <5>1, <5>2 DEF OlderThan
      <4> QED BY <4>1, <4>2
    <3> QED BY <3>1, <3>2
  <2>11. ASSUME NEW s \in Ranks, NEW i \in 1 .. Len(readReturn'[s]), NEW p,
                p = readReturn'[s][i].packet
         PROVE  /\ Popped(p)' /\ RankOf(p) = s /\ OlderThanCommand(p)'
                /\ OlderThan(p, readReturn'[s], i + 1)
    <3>1. Len(readReturn[s]) \in Nat
          BY RankTypes
    <3>2. CASE i \in 1 .. Len(readReturn[s])
      <4>1. p = readReturn[s][i].packet
            BY <2>9, <2>11, <3>2
      <4>2. Popped(p) /\ RankOf(p) = s /\ OlderThanCommand(p)
            /\ OlderThan(p, readReturn[s], i + 1)
            BY <3>2, <4>1 DEF ReadsInLine
      <4>3. OlderThan(p, readReturn'[s], i + 1)
        <5>1. PICK m \in Nat \ {0} : m = i + 1
              OBVIOUS
        <5> QED BY <2>10, <4>2, <5>1
      <4> QED BY <1>2, <2>6, <4>2, <4>3
    <3>3. CASE i \notin 1 .. Len(readReturn[s])
      <4>1. /\ i = Len(readReturn[s]) + 1 /\ p = e /\ s = RankOf(e)
            /\ Len(readReturn'[s]) = Len(readReturn[s]) + 1
            BY <2>9, <2>11, <3>1, <3>3
      <4>2. OlderThan(p, readReturn'[s], i + 1)
            BY <3>1, <4>1 DEF OlderThan
      <4>3. Popped(p)'
            BY <1>2, <2>5, <4>1
      <4> QED BY <2>6, <4>1, <4>2, <4>3
    <3> QED BY <3>2, <3>3
  <2>12. ASSUME NEW s \in Ranks, NEW i \in 1 .. Len(rankBus'[s]), NEW p,
                p = rankBus'[s][i].packet
         PROVE  /\ Popped(p)' /\ RankOf(p) = s /\ OlderThanCommand(p)'
                /\ OlderThan(p, readReturn'[s], 1)
    <3>1. Popped(p) /\ RankOf(p) = s /\ OlderThanCommand(p) /\ OlderThan(p, readReturn[s], 1)
          BY <1>1, <2>12 DEF ReadsInLine
    <3>2. OlderThan(p, readReturn'[s], 1)
          BY <2>10, <3>1
    <3> QED BY <1>2, <2>6, <3>1, <3>2
  <2>13. ASSUME NEW i \in 1 .. Len(returnTransaction'), NEW p, p = returnTransaction'[i]
         PROVE  /\ Popped(p)' /\ OlderThanCommand(p)'
                /\ OlderThan(p, readReturn'[RankOf(p)], 1)
                /\ OlderThan(p, rankBus'[RankOf(p)], 1)
                /\ \A j \in i + 1 .. Len(returnTransaction') :
                       returnTransaction'[j].address = p.address
                           => p.id < returnTransaction'[j].id
    <3>1. /\ Popped(p) /\ OlderThanCommand(p)
          /\ OlderThan(p, readReturn[RankOf(p)], 1)
          /\ OlderThan(p, rankBus'[RankOf(p)], 1)
          /\ \A j \in i + 1 .. Len(returnTransaction') :
                 returnTransaction'[j].address = p.address
                     => p.id < returnTransaction'[j].id
          BY <1>1, <2>13 DEF ReadsInLine
    <3>2. RankOf(p) \in Ranks
      <4>1. returnTransaction[i] \in DataPacket
            BY <1>1, <2>13, ElementOfSeq DEF TypeOK
      <4>2. p.address \in Address
            BY <1>1, <2>13, <4>1 DEF DataPacket
      <4> QED BY <4>2, Located
    <3>3. OlderThan(p, readReturn'[RankOf(p)], 1)
          BY <2>10, <3>1, <3>2
    <3> QED BY <1>2, <2>6, <3>1, <3>3
  <2> QED BY <1>5, <2>11, <2>12, <2>13, ReadsInLineNext
<1> QED BY <1>6, <1>7

\* Rank::update of rank k: m tells whether the head of the countdown list goes
\* to the rank's data bus, d whether the packet on that bus goes to the
\* controller.  The bus is free when a packet is put on it.
RankMoves(k, m, d) ==
    /\ \A r \in Ranks : r # k => readReturn'[r] = readReturn[r] /\ rankBus'[r] = rankBus[r]
    /\ Len(readReturn'[k]) = Len(readReturn[k]) - m
    /\ \A i \in 1 .. Len(readReturn'[k]) :
           /\ i + m \in 1 .. Len(readReturn[k])
           /\ readReturn'[k][i].packet = readReturn[k][i + m].packet
    /\ m = 1 => /\ 1 \in 1 .. Len(readReturn[k]) /\ Len(rankBus'[k]) = 1
                /\ rankBus'[k][1].packet = readReturn[k][1].packet
                /\ d = 0 => Len(rankBus[k]) = 0
    /\ m = 0 => /\ \A i \in 1 .. Len(rankBus'[k]) :
                       i \in 1 .. Len(rankBus[k])
                       /\ rankBus'[k][i].packet = rankBus[k][i].packet
                /\ Len(rankBus'[k]) = IF d = 1 THEN 0 ELSE Len(rankBus[k])
    /\ d = 0 => returnTransaction' = returnTransaction
    /\ d = 1 => /\ Len(rankBus[k]) = 1
                /\ Len(returnTransaction) \in Nat
                /\ Len(returnTransaction') = Len(returnTransaction) + 1
                /\ returnTransaction'[Len(returnTransaction) + 1] = rankBus[k][1].packet
                /\ \A i \in 1 .. Len(returnTransaction) :
                       returnTransaction'[i] = returnTransaction[i]

LEMMA RankUpdateMoves ==
    ASSUME TypeOK, ReadDataSpaced, RankUpdate
    PROVE  \E k \in Ranks, m \in {0, 1}, d \in {0, 1} : RankMoves(k, m, d)
<1>1. PICK k \in Ranks : k = turn
      BY DEF TypeOK
<1>2. /\ readReturn \in [Ranks -> Seq([packet : DataPacket, left : Int])]
      /\ rankBus \in [Ranks -> Seq([packet : DataPacket, left : Int])]
      /\ returnTransaction \in Seq(DataPacket)
      BY DEF TypeOK, TimedData
<1>3. PICK rr, rb : rr = readReturn[k] /\ rb = rankBus[k]
      OBVIOUS
<1>4. /\ rr \in Seq([packet : DataPacket, left : Int]) /\ Len(rr) \in Nat
      /\ rb \in Seq([packet : DataPacket, left : Int]) /\ Len(rb) \in Nat
      BY <1>2, <1>3, LenProperties
<1>5. readReturn' = [readReturn EXCEPT ![k] = EraseDue(CountDown(rr))]
      BY <1>1, <1>3 DEF RankUpdate
<1>6. rankBus' = [rankBus EXCEPT ![k] =
                      IF HeadDue(CountDown(rr))
                      THEN <<[packet |-> CountDown(rr)[1].packet, left |-> DataCycles]>>
                      ELSE AfterCountDown(rb)]
      BY <1>1, <1>3 DEF RankUpdate
<1>7. returnTransaction' = IF HeadDue(CountDown(rb))
                           THEN Append(returnTransaction, rb[1].packet)
                           ELSE returnTransaction
      BY <1>1, <1>3 DEF RankUpdate
<1>8. PICK m \in {0, 1} :
          /\ m = 1 <=> HeadDue(CountDown(rr))
          /\ Len(EraseDue(CountDown(rr))) = Len(rr) - m
          /\ \A i \in 1 .. Len(EraseDue(CountDown(rr))) :
                 /\ i + m \in 1 .. Len(rr)
                 /\ EraseDue(CountDown(rr))[i].packet = rr[i + m].packet
      BY <1>4, PassOverList
<1>9. PICK d \in {0, 1} : d = 1 <=> HeadDue(CountDown(rb))
  <2>1. CASE HeadDue(CountDown(rb))
        BY <2>1
  <2>2. CASE ~HeadDue(CountDown(rb))
        BY <2>2
  <2> QED BY <2>1, <2>2
<1>10. readReturn'[k] = EraseDue(CountDown(rr))
       /\ \A r \in Ranks : r # k => readReturn'[r] = readReturn[r] /\ rankBus'[r] = rankBus[r]
       BY <1>2, <1>5, <1>6
<1>11. rankBus'[k] = IF HeadDue(CountDown(rr))
                     THEN <<[packet |-> CountDown(rr)[1].packet, left |-> DataCycles]>>
                     ELSE AfterCountDown(rb)
       BY <1>2, <1>6
<1>12. /\ Len(rb) <= 1
       /\ \A j \in 1 .. Len(rb) : /\ rb[j].left \in Int /\ rb[j].left >= 1
                                  /\ \A i \in 1 .. Len(rr) : rb[j].left <= rr[i].left
       BY <1>3, RankTypes DEF ReadDataSpaced, RankSpaced
<1>13. ASSUME m = 1
       PROVE  /\ 1 \in 1 .. Len(rr) /\ Len(rankBus'[k]) = 1
              /\ rankBus'[k][1].packet = rr[1].packet
              /\ d = 0 => Len(rb) = 0
  <2>1. HeadDue(CountDown(rr))
        BY <1>8, <1>13
  <2>2. Len(rr) >= 1 /\ rr[1].left = 1 /\ CountDown(rr)[1].packet = rr[1].packet
        BY <1>4, <2>1, DueEntry
  <2>3. 1 \in 1 .. Len(rr)
        BY <1>4, <2>2
  <2>4. PICK e : e = [packet |-> CountDown(rr)[1].packet, left |-> DataCycles]
        OBVIOUS
  <2>5. rankBus'[k] = <<e>> /\ e.packet = rr[1].packet
        BY <1>11, <2>1, <2>2, <2>4
  <2>6. Len(rankBus'[k]) = 1 /\ rankBus'[k][1] = e
    <3>1. Len(<<e>>) = 1 /\ 1 \in 1 .. 1
          BY OneEntry
    <3>2. <<e>>[1] = e
          BY <3>1, OneEntry
    <3> QED BY <2>5, <3>1, <3>2
  <2>7. ASSUME d = 0, Len(rb) # 0 PROVE FALSE
    <3>1. 1 \in 1 .. Len(rb) /\ Len(rb) = 1
      <4>1. Len(rb) \in Nat /\ Len(rb) <= 1 /\ Len(rb) # 0
            BY <1>4, <1>12, <2>7, Zenon
      <4>2. PICK n : n = Len(rb)
            OBVIOUS
      <4>3. n \in Nat /\ n <= 1 /\ n # 0
            BY <4>1, <4>2, Zenon
      <4>4. n = 1 /\ 1 \in 1 .. n
            BY <4>3
      <4> QED BY <4>2, <4>4, Zenon
    <3>2. rb[1].left <= rr[1].left /\ rb[1].left >= 1 /\ rb[1].left \in Int
          BY <1>12, <2>3, <3>1
    <3>3. rb[1].left = 1
          BY <2>2, <3>2
    <3>4. /\ CountDown(rb) \in Seq([packet : DataPacket, left : Int])
          /\ Len(CountDown(rb)) = Len(rb)
          /\ CountDown(rb)[1].left = rb[1].left - 1
          BY <1>4, <3>1, CountDownType
    <3>5. HeadDue(CountDown(rb))
      <4>1. CountDown(rb)[1].left = 0
            BY <3>3, <3>4
      <4>2. CountDown(rb) # <<>>
        <5>1. Len(CountDown(rb)) = 1
              BY <3>1, <3>4, Zenon
        <5> QED BY <5>1, SMT
      <4> QED BY <4>1, <4>2 DEF HeadDue
    <3> QED BY <1>9, <2>7, <3>5
  <2> QED BY <2>3, <2>5, <2>6, <2>7
<1>14. ASSUME d = 1
       PROVE  /\ Len(rb) = 1 /\ Len(returnTransaction) \in Nat
              /\ Len(returnTransaction') = Len(returnTransaction) + 1
              /\ returnTransaction'[Len(returnTransaction) + 1] = rb[1].packet
              /\ \A i \in 1 .. Len(returnTransaction) :
                     returnTransaction'[i] = returnTransaction[i]
  <2>1. HeadDue(CountDown(rb))
        BY <1>9, <1>14
  <2>2. Len(rb) >= 1 /\ rb[1].packet \in DataPacket
        BY <1>4, <2>1, DueEntry
  <2>3. returnTransaction' = Append(returnTransaction, rb[1].packet)
        BY <1>7, <2>1
  <2>4. /\ Len(returnTransaction) \in Nat
        /\ Len(returnTransaction') = Len(returnTransaction) + 1
        /\ returnTransaction'[Len(returnTransaction) + 1] = rb[1].packet
        /\ \A i \in 1 .. Len(returnTransaction) :
               returnTransaction'[i] = returnTransaction[i]
        BY <1>2, <2>2, <2>3, AppendProperties, LenProperties
  <2>5. Len(rb) = 1
    <3>1. Len(rb) \in Nat /\ Len(rb) <= 1 /\ Len(rb) >= 1
          BY <1>4, <1>12, <2>2, Zenon
    <3>2. PICK n : n = Len(rb)
          OBVIOUS
    <3>3. n \in Nat /\ n <= 1 /\ n >= 1
          BY <3>1, <3>2, Zenon
    <3>4. n = 1
          BY <3>3
    <3> QED BY <3>2, <3>4, Zenon
  <2> QED BY <2>4, <2>5
<1>15. ASSUME m = 0
       PROVE  /\ \A i \in 1 .. Len(rankBus'[k]) :
                     i \in 1 .. Len(rb) /\ rankBus'[k][i].packet = rb[i].packet
              /\ Len(rankBus'[k]) = IF d = 1 THEN 0 ELSE Len(rb)
  <2>1. rankBus'[k] = AfterCountDown(rb)
        BY <1>8, <1>11, <1>15
  <2>2. CASE d = 1
    <3>1. Len(rankBus'[k]) = 0
          BY <1>9, <2>1, <2>2, EmptySeq DEF AfterCountDown
    <3> QED BY <2>2, <3>1
  <2>3. CASE d = 0
    <3>1. rankBus'[k] = CountDown(rb)
          BY <1>9, <2>1, <2>3 DEF AfterCountDown
    <3>2. /\ Len(CountDown(rb)) = Len(rb)
          /\ \A i \in 1 .. Len(rb) : CountDown(rb)[i].packet = rb[i].packet
          BY <1>4, CountDownType
    <3> QED BY <2>3, <3>1, <3>2
  <2> QED BY <2>2, <2>3
<1>16. d = 0 => returnTransaction' = returnTransaction
       BY <1>7, <1>9
<1>17. RankMoves(k, m, d)
       BY <1>3, <1>8, <1>10, <1>13, <1>14, <1>15, <1>16 DEF RankMoves
<1> QED BY <1>17

LEMMA RankUpdateLine ==
    ASSUME TypeOK, QueueInv, ReadsInLine, ReadDataSpaced, [Next]_vars, RankUpdate
    PROVE  ReadsInLine'
<1>1. /\ UNCHANGED <<cmdBus, pendingReadTransactions, transactionQueue, queues, accepted>>
      BY DEF RankUpdate, busVars, queueVars, histVars
<1>2. ASSUME NEW p, Popped(p) PROVE Popped(p)'
  <2>1. Pending(p.id)'
        BY <1>1, <1>2 DEF Popped, Pending
  <2> QED BY <1>2, <2>1, StillPopped
<1>3. ASSUME NEW p, OlderThanCommand(p) PROVE OlderThanCommand(p)'
      BY <1>1, <1>3 DEF OlderThanCommand, IsReadPacket
<1>4. ASSUME NEW i \in 1 .. Len(cmdBus'), NEW p, p = cmdBus'[i].packet, IsReadPacket(p)
      PROVE  Popped(p)'
      BY <1>1, <1>2, <1>4 DEF ReadsInLine
<1>5. PICK k \in Ranks, m \in {0, 1}, d \in {0, 1} : RankMoves(k, m, d)
      BY RankUpdateMoves
<1>6. \A r \in Ranks : Len(readReturn[r]) \in Nat /\ Len(rankBus[r]) \in Nat
      BY RankTypes
<1>7. ASSUME NEW r \in Ranks, NEW p, NEW i \in Nat \ {0}, NEW q \in Nat \ {0},
             OlderThan(p, readReturn[r], q), i + (IF r = k THEN m ELSE 0) >= q
      PROVE  OlderThan(p, readReturn'[r], i)
  <2> SUFFICES ASSUME NEW j \in i .. Len(readReturn'[r]),
                      readReturn'[r][j].packet.address = p.address
               PROVE  p.id < readReturn'[r][j].packet.id
      BY DEF OlderThan
  <2>1. CASE r = k
    <3>1. j \in 1 .. Len(readReturn'[k])
          BY <2>1
    <3>2. j + m \in 1 .. Len(readReturn[k])
          /\ readReturn'[k][j].packet = readReturn[k][j + m].packet
          BY <1>5, <3>1 DEF RankMoves
    <3>3. j + m \in q .. Len(readReturn[k])
          BY <1>6, <1>7, <2>1, <3>2
    <3> QED BY <1>7, <2>1, <3>2, <3>3 DEF OlderThan
  <2>2. CASE r # k
    <3>1. readReturn'[r] = readReturn[r]
          BY <1>5, <2>2 DEF RankMoves
    <3>2. j \in q .. Len(readReturn[r])
          BY <1>6, <1>7, <2>2, <3>1
    <3> QED BY <1>7, <3>1, <3>2 DEF OlderThan
  <2> QED BY <2>1, <2>2
<1>8. ASSUME NEW r \in Ranks, NEW i \in 1 .. Len(readReturn'[r]), NEW p,
             p = readReturn'[r][i].packet
      PROVE  /\ Popped(p)' /\ RankOf(p) = r /\ OlderThanCommand(p)'
             /\ OlderThan(p, readReturn'[r], i + 1)
  <2>1. PICK n \in {0, 1} : n = IF r = k THEN m ELSE 0
        OBVIOUS
  <2>2. i + n \in 1 .. Len(readReturn[r]) /\ p = readReturn[r][i + n].packet
    <3>1. CASE r = k
          BY <1>5, <1>8, <2>1, <3>1 DEF RankMoves
    <3>2. CASE r # k
          BY <1>5, <1>8, <2>1, <3>2 DEF RankMoves
    <3> QED BY <3>1, <3>2
  <2>3. PICK x \in Nat \ {0} : x = i + n
        BY <2>2
  <2>4. Popped(p) /\ RankOf(p) = r /\ OlderThanCommand(p) /\ OlderThan(p, readReturn[r], x + 1)
        BY <2>2, <2>3 DEF ReadsInLine
  <2>5. PICK q \in Nat \ {0} : q = x + 1
        BY <2>3
  <2>6. PICK y \in Nat \ {0} : y = i + 1
        OBVIOUS
  <2>7. y + (IF r = k THEN m ELSE 0) >= q
        BY <2>1, <2>3, <2>5, <2>6
  <2>8. OlderThan(p, readReturn'[r], y)
        BY <1>7, <2>4, <2>5, <2>7
  <2> QED BY <1>2, <1>3, <2>4, <2>6, <2>8
<1>9. ASSUME NEW r \in Ranks, NEW i \in 1 .. Len(rankBus'[r]), NEW p,
             p = rankBus'[r][i].packet
      PROVE  /\ Popped(p)' /\ RankOf(p) = r /\ OlderThanCommand(p)'
             /\ OlderThan(p, readReturn'[r], 1)
  <2>1. CASE r = k /\ m = 1
    <3>1. 1 \in 1 .. Len(readReturn[k]) /\ p = readReturn[k][1].packet
      <4>1. /\ 1 \in 1 .. Len(readReturn[k]) /\ Len(rankBus'[k]) = 1
            /\ rankBus'[k][1].packet = readReturn[k][1].packet
            BY <1>5, <2>1 DEF RankMoves
      <4>2. i = 1
            BY <1>9, <2>1, <4>1
      <4> QED BY <1>9, <2>1, <4>1, <4>2
    <3>2. Popped(p) /\ RankOf(p) = k /\ OlderThanCommand(p)
          /\ OlderThan(p, readReturn[k], 1 + 1)
          BY <3>1 DEF ReadsInLine
    <3>3. PICK q \in Nat \ {0} : q = 1 + 1
          OBVIOUS
    <3>4. OlderThan(p, readReturn'[k], 1)
      <4>1. 1 + (IF k = k THEN m ELSE 0) >= q /\ 1 \in Nat \ {0}
            BY <2>1, <3>3
      <4> QED BY <1>7, <3>2, <3>3, <4>1
    <3> QED BY <1>2, <1>3, <2>1, <3>2, <3>4
  <2>2. CASE ~(r = k /\ m = 1)
    <3>1. i \in 1 .. Len(rankBus[r]) /\ p = rankBus[r][i].packet
      <4>1. CASE r = k
            BY <1>5, <1>9, <2>2, <4>1 DEF RankMoves
      <4>2. CASE r # k
            BY <1>5, <1>9, <4>2 DEF RankMoves
      <4> QED BY <4>1, <4>2
    <3>2. Popped(p) /\ RankOf(p) = r /\ OlderThanCommand(p) /\ OlderThan(p, readReturn[r], 1)
          BY <3>1 DEF ReadsInLine
    <3>3. 1 + (IF r = k THEN m ELSE 0) >= 1 /\ 1 \in Nat \ {0}
          OBVIOUS
    <3>4. OlderThan(p, readReturn'[r], 1)
          BY <1>7, <3>2, <3>3
    <3> QED BY <1>2, <1>3, <3>2, <3>4
  <2> QED BY <2>1, <2>2
<1>10. ASSUME NEW p, RankOf(p) \in Ranks, OlderThan(p, readReturn[RankOf(p)], 1),
              (RankOf(p) = k /\ m = 0 /\ d = 0) \/ RankOf(p) # k
                  => OlderThan(p, rankBus[RankOf(p)], 1)
       PROVE  /\ OlderThan(p, readReturn'[RankOf(p)], 1)
              /\ OlderThan(p, rankBus'[RankOf(p)], 1)
  <2>1. PICK r \in Ranks : r = RankOf(p)
        BY <1>10
  <2>2. 1 + (IF r = k THEN m ELSE 0) >= 1 /\ 1 \in Nat \ {0}
        OBVIOUS
  <2>3. OlderThan(p, readReturn'[r], 1)
        BY <1>7, <1>10, <2>1, <2>2
  <2>4. OlderThan(p, rankBus'[r], 1)
    <3> SUFFICES ASSUME NEW j \in 1 .. Len(rankBus'[r]),
                        rankBus'[r][j].packet.address = p.address
                 PROVE  p.id < rankBus'[r][j].packet.id
        BY DEF OlderThan
    <3>1. CASE r = k /\ m = 1
      <4>1. /\ 1 \in 1 .. Len(readReturn[k]) /\ Len(rankBus'[k]) = 1
            /\ rankBus'[k][1].packet = readReturn[k][1].packet
            BY <1>5, <3>1 DEF RankMoves
      <4>2. j = 1
            BY <3>1, <4>1
      <4> QED BY <1>10, <2>1, <3>1, <4>1, <4>2 DEF OlderThan
    <3>2. CASE r = k /\ m = 0 /\ d = 0
      <4>1. j \in 1 .. Len(rankBus[k]) /\ rankBus'[k][j].packet = rankBus[k][j].packet
            BY <1>5, <3>2 DEF RankMoves
      <4> QED BY <1>10, <2>1, <3>2, <4>1 DEF OlderThan
    <3>3. CASE r = k /\ m = 0 /\ d = 1
      <4>1. Len(rankBus'[k]) = 0
            BY <1>5, <3>3 DEF RankMoves
      <4> QED BY <3>3, <4>1
    <3>4. CASE r # k
      <4>1. rankBus'[r] = rankBus[r]
            BY <1>5, <3>4 DEF RankMoves
      <4> QED BY <1>10, <2>1, <3>4, <4>1 DEF OlderThan
    <3> QED BY <3>1, <3>2, <3>3, <3>4
  <2> QED BY <2>1, <2>3, <2>4
<1>11. ASSUME NEW i \in 1 .. Len(returnTransaction'), NEW p, p = returnTransaction'[i]
       PROVE  /\ Popped(p)' /\ OlderThanCommand(p)'
              /\ OlderThan(p, readReturn'[RankOf(p)], 1)
              /\ OlderThan(p, rankBus'[RankOf(p)], 1)
              /\ \A j \in i + 1 .. Len(returnTransaction') :
                     returnTransaction'[j].address = p.address
                         => p.id < returnTransaction'[j].id
  <2>0. Len(returnTransaction) \in Nat
        BY LenProperties DEF TypeOK
  <2>1. CASE i \in 1 .. Len(returnTransaction)
    <3>1. p = returnTransaction[i]
          BY <1>5, <1>11, <2>1 DEF RankMoves
    <3>2. /\ Popped(p) /\ OlderThanCommand(p)
          /\ OlderThan(p, readReturn[RankOf(p)], 1)
          /\ OlderThan(p, rankBus[RankOf(p)], 1)
          /\ \A j \in i + 1 .. Len(returnTransaction) :
                 returnTransaction[j].address = p.address => p.id < returnTransaction[j].id
          BY <2>1, <3>1 DEF ReadsInLine
    <3>3. RankOf(p) \in Ranks
      <4>1. returnTransaction[i] \in DataPacket
            BY <2>1, ElementOfSeq DEF TypeOK
      <4>2. p.address \in Address
            BY <3>1, <4>1 DEF DataPacket
      <4> QED BY <4>2, Located
    <3>4. /\ OlderThan(p, readReturn'[RankOf(p)], 1)
          /\ OlderThan(p, rankBus'[RankOf(p)], 1)
          BY <1>10, <3>2, <3>3
    <3>5. ASSUME NEW j \in i + 1 .. Len(returnTransaction'),
                 returnTransaction'[j].address = p.address
          PROVE  p.id < returnTransaction'[j].id
      <4>1. CASE j \in 1 .. Len(returnTransaction)
        <5>1. returnTransaction'[j] = returnTransaction[j]
              BY <1>5, <4>1 DEF RankMoves
        <5>2. j \in i + 1 .. Len(returnTransaction)
              BY <2>0, <4>1
        <5> QED BY <3>2, <3>5, <5>1, <5>2
      <4>2. CASE j \notin 1 .. Len(returnTransaction)
        <5>1. j \in 1 .. Len(returnTransaction')
              BY <3>5
        <5>2. d = 1
              BY <1>5, <4>2, <5>1 DEF RankMoves
        <5>3. /\ Len(rankBus[k]) = 1 /\ j = Len(returnTransaction) + 1
              /\ returnTransaction'[j] = rankBus[k][1].packet
              BY <1>5, <2>0, <4>2, <5>1, <5>2 DEF RankMoves
        <5>4. 1 \in 1 .. Len(rankBus[k])
              BY <5>3
        <5>5. RankOf(rankBus[k][1].packet) = k
              BY <5>4 DEF ReadsInLine
        <5>6. RankOf(p) = k
              BY <3>5, <5>3, <5>5 DEF RankOf
        <5> QED BY <3>2, <3>5, <5>3, <5>4, <5>6 DEF OlderThan
      <4> QED BY <4>1, <4>2
    <3> QED BY <1>2, <1>3, <3>2, <3>4, <3>5
  <2>2. CASE i \notin 1 .. Len(returnTransaction)
    <3>1. d = 1
          BY <1>5, <1>11, <2>2 DEF RankMoves
    <3>2. /\ Len(rankBus[k]) = 1 /\ i = Len(returnTransaction) + 1
          /\ p = rankBus[k][1].packet /\ Len(returnTransaction') = Len(returnTransaction) + 1
          BY <1>5, <1>11, <2>0, <2>2, <3>1 DEF RankMoves
    <3>3. 1 \in 1 .. Len(rankBus[k])
          BY <3>2
    <3>4. Popped(p) /\ RankOf(p) = k /\ OlderThanCommand(p) /\ OlderThan(p, readReturn[k], 1)
          BY <3>2, <3>3 DEF ReadsInLine
    <3>5. /\ OlderThan(p, readReturn'[RankOf(p)], 1)
          /\ OlderThan(p, rankBus'[RankOf(p)], 1)
          BY <1>10, <3>1, <3>4
    <3>6. \A j \in i + 1 .. Len(returnTransaction') : FALSE
          BY <2>0, <3>2
    <3> QED BY <1>2, <1>3, <3>4, <3>5, <3>6
  <2> QED BY <2>1, <2>2
<1> QED BY <1>4, <1>8, <1>9, <1>11, ReadsInLineNext

\* A read is on its way in one place at most: the packet that is returned first
\* is older than all others of its address.
LEMMA ReturnedFirst ==
    ASSUME TypeOK, ReadsInLine, returnTransaction # <<>>,
           NEW ret, ret = returnTransaction[1]
    PROVE  /\ Len(returnTransaction) \in Nat /\ 1 \in 1 .. Len(returnTransaction)
           /\ Popped(ret) /\ ret \in DataPacket
           /\ \A j \in 1 .. Len(cmdBus) : \A p :
             p = cmdBus[j].packet /\ IsReadPacket(p) /\ p.address = ret.address => ret.id < p.id
           /\ \A r \in Ranks : \A j \in 1 .. Len(readReturn[r]) : \A p :
                  p = readReturn[r][j].packet /\ p.address = ret.address => ret.id < p.id
           /\ \A r \in Ranks : \A j \in 1 .. Len(rankBus[r]) : \A p :
                  p = rankBus[r][j].packet /\ p.address = ret.address => ret.id < p.id
           /\ \A j \in 1 .. Len(returnTransaction) : \A p :
                  p = returnTransaction[j] /\ j # 1 /\ p.address = ret.address
                      => ret.id < p.id
<1>1. returnTransaction \in Seq(DataPacket)
      BY DEF TypeOK
<1>2. Len(returnTransaction) \in Nat /\ 1 \in 1 .. Len(returnTransaction)
  <2>1. Len(returnTransaction) \in Nat /\ Len(returnTransaction) # 0
        BY <1>1, EmptySeq, LenProperties
  <2>2. PICK n \in Nat : n = Len(returnTransaction)
        BY <2>1
  <2>3. n # 0 /\ 1 \in 1 .. n
        BY <2>1, <2>2
  <2> QED BY <2>2, <2>3
<1>3. ret \in DataPacket
      BY <1>1, <1>2, ElementOfSeq
<1>4. /\ Popped(ret) /\ OlderThanCommand(ret)
      /\ OlderThan(ret, readReturn[RankOf(ret)], 1)
      /\ OlderThan(ret, rankBus[RankOf(ret)], 1)
      /\ \A j \in 1 + 1 .. Len(returnTransaction) :
             returnTransaction[j].address = ret.address => ret.id < returnTransaction[j].id
      BY <1>2 DEF ReadsInLine
<1>5. ASSUME NEW j \in 1 .. Len(cmdBus), NEW p, p = cmdBus[j].packet,
             IsReadPacket(p), p.address = ret.address
      PROVE  ret.id < p.id
      BY <1>4, <1>5 DEF OlderThanCommand
<1>6. ASSUME NEW r \in Ranks, NEW j \in 1 .. Len(readReturn[r]), NEW p,
             p = readReturn[r][j].packet, p.address = ret.address
      PROVE  ret.id < p.id
  <2>1. RankOf(p) = r
        BY <1>6 DEF ReadsInLine
  <2>2. RankOf(ret) = r
        BY <1>6, <2>1 DEF RankOf
  <2> QED BY <1>4, <1>6, <2>2 DEF OlderThan
<1>7. ASSUME NEW r \in Ranks, NEW j \in 1 .. Len(rankBus[r]), NEW p,
             p = rankBus[r][j].packet, p.address = ret.address
      PROVE  ret.id < p.id
  <2>1. RankOf(p) = r
        BY <1>7 DEF ReadsInLine
  <2>2. RankOf(ret) = r
        BY <1>7, <2>1 DEF RankOf
  <2> QED BY <1>4, <1>7, <2>2 DEF OlderThan
<1>8. ASSUME NEW j \in 1 .. Len(returnTransaction), NEW p, p = returnTransaction[j],
             j # 1, p.address = ret.address
      PROVE  ret.id < p.id
  <2>1. j \in 1 + 1 .. Len(returnTransaction)
        BY <1>2, <1>8
  <2> QED BY <1>4, <1>8, <2>1
<1> QED BY <1>2, <1>3, <1>4, <1>5, <1>6, <1>7, <1>8

\* MemoryController::update finds, by its address, the read whose data came back.
LEMMA OwnRead ==
    ASSUME TypeOK, ReadsInLine, PendingInOrder, ReadsKept, ReturnRead,
           returnTransaction # <<>>, NEW ret, ret = returnTransaction[1]
    PROVE  /\ error' = error
           /\ returnTransaction' = Tail(returnTransaction)
           /\ returned' = returned \cup
                  {[id |-> ret.id, packet |-> ret.id, data |-> ret.data]}
           /\ \E i \in 1 .. Len(pendingReadTransactions) :
                  /\ pendingReadTransactions[i].id = ret.id
                  /\ pendingReadTransactions' = RemoveAt(pendingReadTransactions, i)
<1>1. /\ Len(returnTransaction) \in Nat /\ 1 \in 1 .. Len(returnTransaction)
      /\ Popped(ret) /\ ret \in DataPacket
      BY ReturnedFirst
<1>2. /\ \A j \in 1 .. Len(cmdBus) : \A p :
             p = cmdBus[j].packet /\ IsReadPacket(p) /\ p.address = ret.address => ret.id < p.id
      /\ \A r \in Ranks : \A j \in 1 .. Len(readReturn[r]) : \A p :
             p = readReturn[r][j].packet /\ p.address = ret.address => ret.id < p.id
      /\ \A r \in Ranks : \A j \in 1 .. Len(rankBus[r]) : \A p :
             p = rankBus[r][j].packet /\ p.address = ret.address => ret.id < p.id
      /\ \A j \in 1 .. Len(returnTransaction) : \A p :
             p = returnTransaction[j] /\ j # 1 /\ p.address = ret.address => ret.id < p.id
      BY ReturnedFirst
<1>3. PICK k \in 1 .. Len(pendingReadTransactions) : pendingReadTransactions[k].id = ret.id
      BY <1>1 DEF Popped, Pending
<1>4. \A i \in 1 .. Len(pendingReadTransactions) :
          /\ pendingReadTransactions[i] \in Transaction
          /\ pendingReadTransactions[i].id \in Nat
  <2>1. pendingReadTransactions \in Seq(Transaction)
        BY DEF TypeOK
  <2>2. \A i \in 1 .. Len(pendingReadTransactions) :
            pendingReadTransactions[i] \in Transaction
        BY <2>1, ElementOfSeq
  <2> QED BY <2>2 DEF Transaction
<1>5. pendingReadTransactions[k].address = ret.address
      BY <1>1, <1>3 DEF PendingInOrder, Recorded, Popped
<1>6. k \in Matching(ret)
      BY <1>5 DEF Matching
<1>7. ret = Head(returnTransaction)
      BY <1>1 DEF TypeOK
<1>8. /\ error' = error /\ returnTransaction' = Tail(returnTransaction)
      /\ \E i \in Matching(ret) : (\A j \in Matching(ret) : i <= j) /\ ReturnReadData(i, ret)
      BY <1>6, <1>7 DEF ReturnRead
<1>9. PICK i \in Matching(ret) : (\A j \in Matching(ret) : i <= j) /\ ReturnReadData(i, ret)
      BY <1>8
<1>10. /\ i \in 1 .. Len(pendingReadTransactions)
       /\ pendingReadTransactions[i].address = ret.address
       BY DEF Matching
<1>11. i = k
  <2> SUFFICES ASSUME i # k PROVE FALSE
      OBVIOUS
  <2>1. k \in i + 1 .. Len(pendingReadTransactions)
    <3>1. i <= k
          BY <1>6, <1>9
    <3> QED BY <1>10, <3>1
  <2>2. PICK v : v = pendingReadTransactions[i].id
        OBVIOUS
  <2>3. v < ret.id /\ IsRead(v) /\ v \in 1 .. Len(accepted) /\ accepted[v].address = ret.address
        BY <1>3, <1>5, <1>10, <2>1, <2>2 DEF PendingInOrder, Recorded
  <2>4. v \in Nat /\ ret.id \in Nat
        BY <1>1, <1>4, <1>10, <2>2 DEF DataPacket
  <2>5. ~(ret.id < v) /\ v # ret.id
        BY <2>3, <2>4
  <2>6. InFlight(v)
        BY <1>10, <2>2 DEF ReadsKept, ReturnRead, Running
  <2>7. CASE Waiting(v)
        BY <1>1, <2>3, <2>5, <2>7 DEF Popped
  <2>8. CASE \E j \in 1 .. Len(cmdBus) : IsReadPacket(cmdBus[j].packet) /\ cmdBus[j].packet.id = v
    <3>1. PICK j \in 1 .. Len(cmdBus) : IsReadPacket(cmdBus[j].packet) /\ cmdBus[j].packet.id = v
          BY <2>8
    <3>2. PICK p : p = cmdBus[j].packet
          OBVIOUS
    <3>3. Recorded(p)
          BY <3>1, <3>2 DEF ReadsInLine, Popped
    <3>4. p.address = ret.address
          BY <2>3, <3>1, <3>2, <3>3 DEF Recorded
    <3> QED BY <1>2, <2>5, <3>1, <3>2, <3>4
  <2>9. CASE \E r \in Ranks : \E j \in 1 .. Len(readReturn[r]) : readReturn[r][j].packet.id = v
    <3>0. PICK r \in Ranks : \E j \in 1 .. Len(readReturn[r]) : readReturn[r][j].packet.id = v
          BY <2>9
    <3>1. PICK j \in 1 .. Len(readReturn[r]) : readReturn[r][j].packet.id = v
          BY <3>0
    <3>2. PICK p : p = readReturn[r][j].packet
          OBVIOUS
    <3>3. Recorded(p)
          BY <3>2 DEF ReadsInLine, Popped
    <3>4. p.address = ret.address
          BY <2>3, <3>1, <3>2, <3>3 DEF Recorded
    <3> QED BY <1>2, <2>5, <3>1, <3>2, <3>4
  <2>10. CASE \E r \in Ranks : \E j \in 1 .. Len(rankBus[r]) : rankBus[r][j].packet.id = v
    <3>0. PICK r \in Ranks : \E j \in 1 .. Len(rankBus[r]) : rankBus[r][j].packet.id = v
          BY <2>10
    <3>1. PICK j \in 1 .. Len(rankBus[r]) : rankBus[r][j].packet.id = v
          BY <3>0
    <3>2. PICK p : p = rankBus[r][j].packet
          OBVIOUS
    <3>3. Recorded(p)
          BY <3>2 DEF ReadsInLine, Popped
    <3>4. p.address = ret.address
          BY <2>3, <3>1, <3>2, <3>3 DEF Recorded
    <3> QED BY <1>2, <2>5, <3>1, <3>2, <3>4
  <2>11. CASE \E j \in 1 .. Len(returnTransaction) : returnTransaction[j].id = v
    <3>1. PICK j \in 1 .. Len(returnTransaction) : returnTransaction[j].id = v
          BY <2>11
    <3>2. PICK p : p = returnTransaction[j]
          OBVIOUS
    <3>3. Recorded(p)
          BY <3>2 DEF ReadsInLine, Popped
    <3>4. p.address = ret.address /\ j # 1
          BY <2>3, <2>5, <3>1, <3>2, <3>3 DEF Recorded
    <3> QED BY <1>2, <2>5, <3>1, <3>2, <3>4
  <2> QED BY <2>6, <2>7, <2>8, <2>9, <2>10, <2>11 DEF InFlight
<1> QED BY <1>3, <1>8, <1>9, <1>10, <1>11 DEF ReturnReadData

\* The other reads stay pending.
LEMMA OthersStayPending ==
    ASSUME TypeOK, ReadsInLine, PendingInOrder, ReadsKept, ReturnRead,
           returnTransaction # <<>>, NEW ret, ret = returnTransaction[1],
           NEW id, id # ret.id, Pending(id)
    PROVE  Pending(id)'
<1>1. PICK i \in 1 .. Len(pendingReadTransactions) :
          /\ pendingReadTransactions[i].id = ret.id
          /\ pendingReadTransactions' = RemoveAt(pendingReadTransactions, i)
      BY OwnRead
<1>2. PICK j \in 1 .. Len(pendingReadTransactions) : pendingReadTransactions[j].id = id
      BY DEF Pending
<1>3. j # i
      BY <1>1, <1>2
<1>4. pendingReadTransactions \in Seq(Transaction)
      BY DEF TypeOK
<1>5. \E k \in 1 .. Len(RemoveAt(pendingReadTransactions, i)) :
          RemoveAt(pendingReadTransactions, i)[k] = pendingReadTransactions[j]
      BY <1>3, <1>4, RemainingEntries
<1> QED BY <1>1, <1>2, <1>5 DEF Pending

LEMMA ReturnReadLine ==
    ASSUME TypeOK, QueueInv, ReadsInLine, PendingInOrder, ReadsKept, [Next]_vars, ReturnRead
    PROVE  ReadsInLine'
<1>1. UNCHANGED <<cmdBus, readReturn, rankBus>>
      BY DEF ReturnRead, busVars, rankVars
<1>2. CASE returnTransaction = <<>>
  <2>1. UNCHANGED <<pendingReadTransactions, returnTransaction>>
        BY <1>2 DEF ReturnRead
  <2>2. \A id : Pending(id) => Pending(id)'
        BY <2>1 DEF Pending
  <2> QED BY <1>1, <2>1, <2>2, QuietLine
<1>3. CASE returnTransaction # <<>>
  <2>1. PICK ret : ret = returnTransaction[1]
        OBVIOUS
  <2>2. /\ Len(returnTransaction) \in Nat /\ 1 \in 1 .. Len(returnTransaction)
        /\ Popped(ret) /\ ret \in DataPacket
        BY <1>3, <2>1, ReturnedFirst
  <2>3. /\ \A j \in 1 .. Len(cmdBus) : \A p :
               p = cmdBus[j].packet /\ IsReadPacket(p) /\ p.address = ret.address => ret.id < p.id
        /\ \A r \in Ranks : \A j \in 1 .. Len(readReturn[r]) : \A p :
               p = readReturn[r][j].packet /\ p.address = ret.address => ret.id < p.id
        /\ \A r \in Ranks : \A j \in 1 .. Len(rankBus[r]) : \A p :
               p = rankBus[r][j].packet /\ p.address = ret.address => ret.id < p.id
        /\ \A j \in 1 .. Len(returnTransaction) : \A p :
               p = returnTransaction[j] /\ j # 1 /\ p.address = ret.address => ret.id < p.id
        BY <1>3, <2>1, ReturnedFirst
  <2>4. ASSUME NEW p, Popped(p), p.address = ret.address => ret.id < p.id
        PROVE  Popped(p)'
    <3>1. PICK id : id = p.id
          OBVIOUS
    <3>2. id # ret.id
      <4> SUFFICES ASSUME id = ret.id PROVE FALSE
          OBVIOUS
      <4>1. p.address = ret.address
            BY <2>2, <2>4, <3>1 DEF Popped, Recorded
      <4>2. ret.id < ret.id /\ ret.id \in Nat
            BY <2>2, <2>4, <3>1, <4>1 DEF DataPacket
      <4> QED BY <4>2
    <3>3. Pending(id)
          BY <2>4, <3>1 DEF Popped
    <3>4. Pending(id)'
          BY <1>3, <2>1, <3>2, <3>3, OthersStayPending
    <3>5. Pending(p.id)'
          BY <3>1, <3>4
    <3> QED BY <2>4, <3>5, StillPopped
  <2>5. ASSUME NEW p, OlderThanCommand(p) PROVE OlderThanCommand(p)'
        BY <1>1, <2>5 DEF OlderThanCommand, IsReadPacket
  <2>6. returnTransaction' = Tail(returnTransaction)
        BY <1>3, <2>1, OwnRead
  <2>7. /\ Len(returnTransaction') = Len(returnTransaction) - 1
        /\ \A i \in 1 .. Len(returnTransaction') :
               /\ i + 1 \in 1 .. Len(returnTransaction)
               /\ returnTransaction'[i] = returnTransaction[i + 1]
    <3>1. returnTransaction \in Seq(DataPacket)
          BY DEF TypeOK
    <3>2. /\ Len(Tail(returnTransaction)) = Len(returnTransaction) - 1
          /\ \A i \in 1 .. Len(Tail(returnTransaction)) :
                 Tail(returnTransaction)[i] = returnTransaction[i + 1]
          BY <1>3, <3>1, HeadTailProperties
    <3>3. \A i \in 1 .. Len(returnTransaction) - 1 : i + 1 \in 1 .. Len(returnTransaction)
          BY <2>2
    <3> QED BY <2>6, <3>2, <3>3
  <2>8. ASSUME NEW i \in 1 .. Len(cmdBus'), NEW p, p = cmdBus'[i].packet, IsReadPacket(p)
        PROVE  Popped(p)'
    <3>1. Popped(p)
          BY <1>1, <2>8 DEF ReadsInLine
    <3>2. p.address = ret.address => ret.id < p.id
          BY <1>1, <2>3, <2>8
    <3> QED BY <2>4, <3>1, <3>2
  <2>9. ASSUME NEW r \in Ranks, NEW i \in 1 .. Len(readReturn'[r]), NEW p,
               p = readReturn'[r][i].packet
        PROVE  /\ Popped(p)' /\ RankOf(p) = r /\ OlderThanCommand(p)'
               /\ OlderThan(p, readReturn'[r], i + 1)
    <3>1. /\ Popped(p) /\ RankOf(p) = r /\ OlderThanCommand(p)
          /\ OlderThan(p, readReturn'[r], i + 1)
          BY <1>1, <2>9 DEF ReadsInLine
    <3>2. p.address = ret.address => ret.id < p.id
          BY <1>1, <2>3, <2>9
    <3> QED BY <2>4, <2>5, <3>1, <3>2
  <2>10. ASSUME NEW r \in Ranks, NEW i \in 1 .. Len(rankBus'[r]), NEW p,
                p = rankBus'[r][i].packet
         PROVE  /\ Popped(p)' /\ RankOf(p) = r /\ OlderThanCommand(p)'
                /\ OlderThan(p, readReturn'[r], 1)
    <3>1. /\ Popped(p) /\ RankOf(p) = r /\ OlderThanCommand(p)
          /\ OlderThan(p, readReturn'[r], 1)
          BY <1>1, <2>10 DEF ReadsInLine
    <3>2. p.address = ret.address => ret.id < p.id
          BY <1>1, <2>3, <2>10
    <3> QED BY <2>4, <2>5, <3>1, <3>2
  <2>11. ASSUME NEW i \in 1 .. Len(returnTransaction'), NEW p, p = returnTransaction'[i]
         PROVE  /\ Popped(p)' /\ OlderThanCommand(p)'
                /\ OlderThan(p, readReturn'[RankOf(p)], 1)
                /\ OlderThan(p, rankBus'[RankOf(p)], 1)
                /\ \A j \in i + 1 .. Len(returnTransaction') :
                       returnTransaction'[j].address = p.address
                           => p.id < returnTransaction'[j].id
    <3>1. PICK k \in 1 .. Len(returnTransaction) : k = i + 1 /\ k # 1 /\ p = returnTransaction[k]
          BY <2>7, <2>11
    <3>2. /\ Popped(p) /\ OlderThanCommand(p)
          /\ OlderThan(p, readReturn'[RankOf(p)], 1)
          /\ OlderThan(p, rankBus'[RankOf(p)], 1)
          /\ \A j \in k + 1 .. Len(returnTransaction) :
                 returnTransaction[j].address = p.address => p.id < returnTransaction[j].id
          BY <1>1, <3>1 DEF ReadsInLine
    <3>3. p.address = ret.address => ret.id < p.id
          BY <2>3, <3>1
    <3>4. ASSUME NEW j \in i + 1 .. Len(returnTransaction'),
                 returnTransaction'[j].address = p.address
          PROVE  p.id < returnTransaction'[j].id
      <4>1. j \in 1 .. Len(returnTransaction') /\ j + 1 \in k + 1 .. Len(returnTransaction)
            BY <2>2, <2>7, <3>1
      <4>2. returnTransaction'[j] = returnTransaction[j + 1]
            BY <2>7, <4>1
      <4>3. PICK x : x = j + 1
            OBVIOUS
      <4> QED BY <3>2, <3>4, <4>1, <4>2, <4>3
    <3> QED BY <2>4, <2>5, <3>2, <3>3, <3>4
  <2> QED BY <2>8, <2>9, <2>10, <2>11, ReadsInLineNext
<1> QED BY <1>2, <1>3

(***************************************************************************)
(* The reads that are pending                                              *)
(***************************************************************************)
LEMMA PendingTypes ==
    ASSUME TypeOK
    PROVE  /\ pendingReadTransactions \in Seq(Transaction)
           /\ Len(pendingReadTransactions) \in Nat
           /\ \A i \in 1 .. Len(pendingReadTransactions) :
                  /\ pendingReadTransactions[i] \in Transaction
                  /\ pendingReadTransactions[i].id \in Nat
<1>1. pendingReadTransactions \in Seq(Transaction)
      BY DEF TypeOK
<1>2. \A i \in 1 .. Len(pendingReadTransactions) : pendingReadTransactions[i] \in Transaction
      BY <1>1, ElementOfSeq
<1>3. Len(pendingReadTransactions) \in Nat
      BY <1>1, LenProperties
<1> QED BY <1>1, <1>2, <1>3 DEF Transaction

\* PendingInOrder of the next state, said about its entries one at a time.
LEMMA PendingNext ==
    ASSUME TypeOK, QueueInv, [Next]_vars,
           \A r \in Ranks, b \in Banks : \A i \in 1 .. Len(queues'[r][b]) : \A p :
               p = queues'[r][b][i] /\ IsReadPacket(p) => Pending(p.id)',
           \A i \in 1 .. Len(pendingReadTransactions') : \A t :
               t = pendingReadTransactions'[i] =>
                   /\ Recorded(t) /\ IsRead(t.id)
                   /\ \A j \in i + 1 .. Len(pendingReadTransactions') :
                          pendingReadTransactions'[j].address = t.address
                              => t.id < pendingReadTransactions'[j].id
                   /\ \A j \in 1 .. Len(transactionQueue') :
                          transactionQueue'[j].address = t.address
                              => t.id < transactionQueue'[j].id
    PROVE  PendingInOrder'
<1>1. /\ Len(accepted) \in Nat /\ Len(accepted') \in Nat
      /\ Len(accepted) <= Len(accepted')
      /\ \A id \in 1 .. Len(accepted) : accepted'[id] = accepted[id]
      BY HistoryGrows
<1>2. ASSUME NEW t, Recorded(t), IsRead(t.id) PROVE Recorded(t)' /\ IsRead(t.id)'
  <2>1. t.id \in 1 .. Len(accepted) /\ accepted[t.id].address = t.address
        BY <1>2 DEF Recorded
  <2>2. t.id \in 1 .. Len(accepted') /\ accepted'[t.id] = accepted[t.id]
        BY <1>1, <2>1
  <2> QED BY <1>2, <2>1, <2>2 DEF Recorded, IsRead
<1>3. ASSUME NEW r \in Ranks, NEW b \in Banks, NEW i \in 1 .. Len(queues'[r][b]),
             IsReadPacket(queues'[r][b][i])
      PROVE  Pending(queues[r][b][i].id)'
      BY <1>3 DEF Pending
<1>4. ASSUME NEW i \in 1 .. Len(pendingReadTransactions')
      PROVE  (LET t == pendingReadTransactions[i] IN
              /\ Recorded(t) /\ IsRead(t.id)
              /\ \A j \in i + 1 .. Len(pendingReadTransactions) :
                     pendingReadTransactions[j].address = t.address
                         => t.id < pendingReadTransactions[j].id
              /\ \A j \in 1 .. Len(transactionQueue) :
                     transactionQueue[j].address = t.address => t.id < transactionQueue[j].id)'
  <2>1. PICK t : t = pendingReadTransactions'[i]
        OBVIOUS
  <2>2. /\ Recorded(t) /\ IsRead(t.id)
        /\ \A j \in i + 1 .. Len(pendingReadTransactions') :
               pendingReadTransactions'[j].address = t.address
                   => t.id < pendingReadTransactions'[j].id
        /\ \A j \in 1 .. Len(transactionQueue') :
               transactionQueue'[j].address = t.address => t.id < transactionQueue'[j].id
        BY <2>1
  <2>3. Recorded(t)' /\ IsRead(t.id)'
        BY <1>2, <2>2
  <2> QED BY <2>1, <2>2, <2>3 DEF Recorded, IsRead
<1> QED BY <1>3, <1>4 DEF PendingInOrder, IsReadPacket, Recorded, IsRead

LEMMA QuietPending ==
    ASSUME PendingInOrder,
           UNCHANGED <<queues, transactionQueue, accepted, pendingReadTransactions>>
    PROVE  PendingInOrder'
BY DEF PendingInOrder, Pending, Recorded, IsRead, IsReadPacket

LEMMA ArrivalPending ==
    ASSUME TypeOK, QueueInv, PendingInOrder, [Next]_vars, NEW req \in Request, Accept(req),
           UNCHANGED <<queues, pendingReadTransactions>>
    PROVE  PendingInOrder'
<1>1. PICK x \in Transaction : transactionQueue' = Append(transactionQueue, x)
                               /\ x.id = Len(accepted) + 1
      BY AcceptMeans
<1>2. Len(accepted) \in Nat
      BY AcceptMeans
<1>3. /\ Len(transactionQueue) \in Nat /\ Len(transactionQueue') = Len(transactionQueue) + 1
      /\ transactionQueue'[Len(transactionQueue) + 1] = x
      /\ \A j \in 1 .. Len(transactionQueue) : transactionQueue'[j] = transactionQueue[j]
      BY <1>1, QueueTypes, AppendProperties
<1>4. ASSUME NEW r \in Ranks, NEW b \in Banks, NEW i \in 1 .. Len(queues'[r][b]), NEW p,
             p = queues'[r][b][i], IsReadPacket(p)
      PROVE  Pending(p.id)'
      BY <1>4 DEF PendingInOrder, Pending
<1>5. ASSUME NEW i \in 1 .. Len(pendingReadTransactions'), NEW t,
             t = pendingReadTransactions'[i]
      PROVE  /\ Recorded(t) /\ IsRead(t.id)
             /\ \A j \in i + 1 .. Len(pendingReadTransactions') :
                    pendingReadTransactions'[j].address = t.address
                        => t.id < pendingReadTransactions'[j].id
             /\ \A j \in 1 .. Len(transactionQueue') :
                    transactionQueue'[j].address = t.address => t.id < transactionQueue'[j].id
  <2>1. /\ Recorded(t) /\ IsRead(t.id)
        /\ \A j \in i + 1 .. Len(pendingReadTransactions') :
               pendingReadTransactions'[j].address = t.address
                   => t.id < pendingReadTransactions'[j].id
        /\ \A j \in 1 .. Len(transactionQueue) :
               transactionQueue[j].address = t.address => t.id < transactionQueue[j].id
        BY <1>5 DEF PendingInOrder
  <2>2. t.id < x.id
        BY <1>1, <1>2, <2>1 DEF Recorded
  <2>3. ASSUME NEW j \in 1 .. Len(transactionQueue'), transactionQueue'[j].address = t.address
        PROVE  t.id < transactionQueue'[j].id
    <3>1. CASE j \in 1 .. Len(transactionQueue)
          BY <1>3, <2>1, <2>3, <3>1
    <3>2. CASE j \notin 1 .. Len(transactionQueue)
      <4>1. j = Len(transactionQueue) + 1
            BY <1>3, <3>2
      <4> QED BY <1>3, <2>2, <4>1
    <3> QED BY <3>1, <3>2
  <2> QED BY <2>1, <2>3
<1> QED BY <1>4, <1>5, PendingNext

LEMMA PopPending ==
    ASSUME TypeOK, QueueInv, PendingInOrder, [Next]_vars,
           UNCHANGED <<transactionQueue, accepted, pendingReadTransactions>>,
           NEW r \in Ranks, NEW b \in Banks, NEW k \in 1 .. Len(queues[r][b]), Pops(r, b, k)
    PROVE  PendingInOrder'
<1>1. ASSUME NEW s \in Ranks, NEW c \in Banks, NEW i \in 1 .. Len(queues'[s][c]), NEW p,
             p = queues'[s][c][i], IsReadPacket(p)
      PROVE  Pending(p.id)'
  <2>1. PICK m \in 1 .. Len(queues[s][c]) : queues'[s][c][i] = queues[s][c][m]
        BY PopEntries
  <2> QED BY <1>1, <2>1 DEF PendingInOrder, Pending
<1>2. ASSUME NEW i \in 1 .. Len(pendingReadTransactions'), NEW t,
             t = pendingReadTransactions'[i]
      PROVE  /\ Recorded(t) /\ IsRead(t.id)
             /\ \A j \in i + 1 .. Len(pendingReadTransactions') :
                    pendingReadTransactions'[j].address = t.address
                        => t.id < pendingReadTransactions'[j].id
             /\ \A j \in 1 .. Len(transactionQueue') :
                    transactionQueue'[j].address = t.address => t.id < transactionQueue'[j].id
      BY <1>2 DEF PendingInOrder
<1> QED BY <1>1, <1>2, PendingNext

\* A read that is scheduled joins the pending ones behind the older ones of its
\* address, ahead of those that are still to be scheduled.
LEMMA SchedulePending ==
    ASSUME TypeOK, QueueInv, PendingInOrder, [Next]_vars,
           NEW k \in 1 .. Len(transactionQueue), Schedules(k)
    PROVE  PendingInOrder'
<1>1. PICK x \in Transaction : x = transactionQueue[k]
      BY QueueTypes
<1>2. /\ pendingReadTransactions \in Seq(Transaction) /\ Len(pendingReadTransactions) \in Nat
      BY PendingTypes
<1>3. /\ transactionQueue \in Seq(Transaction) /\ Len(transactionQueue) \in Nat
      /\ transactionQueue' = RemoveAt(transactionQueue, k)
      BY QueueTypes DEF Schedules
<1>4. pendingReadTransactions' = IF x.transactionType = "DATA_READ"
                                 THEN Append(pendingReadTransactions, x)
                                 ELSE pendingReadTransactions
      BY <1>1 DEF Schedules
<1>5. /\ Recorded(x) /\ (x.transactionType = "DATA_READ" => IsRead(x.id))
      BY <1>1 DEF QueueInv, IsRead
<1>6. \A j \in 1 .. Len(pendingReadTransactions) :
          /\ j \in 1 .. Len(pendingReadTransactions')
          /\ pendingReadTransactions'[j] = pendingReadTransactions[j]
  <2>1. CASE x.transactionType = "DATA_READ"
        BY <1>2, <1>4, <2>1, AppendProperties
  <2>2. CASE x.transactionType # "DATA_READ"
        BY <1>2, <1>4, <2>2
  <2> QED BY <2>1, <2>2
<1>7. ASSUME NEW i \in 1 .. Len(pendingReadTransactions'),
             i \notin 1 .. Len(pendingReadTransactions)
      PROVE  /\ x.transactionType = "DATA_READ" /\ pendingReadTransactions'[i] = x
             /\ i = Len(pendingReadTransactions') /\ Len(pendingReadTransactions') \in Nat
  <2>1. x.transactionType = "DATA_READ"
        BY <1>4, <1>7
  <2>2. /\ Len(pendingReadTransactions') = Len(pendingReadTransactions) + 1
        /\ pendingReadTransactions'[Len(pendingReadTransactions) + 1] = x
        BY <1>2, <1>4, <2>1, AppendProperties
  <2>3. i = Len(pendingReadTransactions) + 1
        BY <1>2, <1>7, <2>2
  <2> QED BY <1>2, <2>1, <2>2, <2>3
<1>8. ASSUME NEW id, Pending(id) PROVE Pending(id)'
      BY <1>6, <1>8 DEF Pending
<1>9. x.transactionType = "DATA_READ" => Pending(x.id)'
  <2>1. ASSUME x.transactionType = "DATA_READ" PROVE Pending(x.id)'
    <3>1. /\ Len(pendingReadTransactions') = Len(pendingReadTransactions) + 1
          /\ pendingReadTransactions'[Len(pendingReadTransactions) + 1] = x
          BY <1>2, <1>4, <2>1, AppendProperties
    <3>2. PICK n \in 1 .. Len(pendingReadTransactions') : pendingReadTransactions'[n] = x
          BY <1>2, <3>1
    <3> QED BY <3>2 DEF Pending
  <2> QED BY <2>1
<1>10. ASSUME NEW s \in Ranks, NEW c \in Banks, NEW i \in 1 .. Len(queues'[s][c]), NEW p,
              p = queues'[s][c][i], IsReadPacket(p)
       PROVE  Pending(p.id)'
  <2>1. CASE SlotOf(x) # <<s, c>>
    <3>1. queues'[s][c] = queues[s][c]
          BY <1>1, <2>1, ScheduleEntries
    <3>2. Pending(p.id)
          BY <1>10, <3>1 DEF PendingInOrder
    <3> QED BY <1>8, <3>2
  <2>2. CASE SlotOf(x) = <<s, c>>
    <3>1. queues'[s][c] = Append(queues[s][c], CommandOf(x))
          BY <1>1, <2>2, ScheduleEntries
    <3>2. /\ queues[s][c] \in Seq(BusPacket) /\ Len(queues[s][c]) \in Nat
          BY QueueTypes
    <3>3. /\ CommandOf(x) \in BusPacket /\ CommandOf(x).id = x.id
          /\ IsReadPacket(CommandOf(x)) <=> x.transactionType = "DATA_READ"
          BY CommandOfType
    <3>4. /\ Len(queues'[s][c]) = Len(queues[s][c]) + 1
          /\ queues'[s][c][Len(queues[s][c]) + 1] = CommandOf(x)
          /\ \A j \in 1 .. Len(queues[s][c]) : queues'[s][c][j] = queues[s][c][j]
          BY <3>1, <3>2, <3>3, AppendProperties
    <3>5. CASE i \in 1 .. Len(queues[s][c])
      <4>1. p = queues[s][c][i]
            BY <1>10, <3>4, <3>5
      <4>2. Pending(p.id)
            BY <1>10, <3>5, <4>1 DEF PendingInOrder
      <4> QED BY <1>8, <4>2
    <3>6. CASE i \notin 1 .. Len(queues[s][c])
      <4>1. i = Len(queues[s][c]) + 1
            BY <3>2, <3>4, <3>6, SMTT(60)
      <4>2. p = CommandOf(x)
            BY <1>10, <3>4, <4>1
      <4>3. p.id = x.id /\ x.transactionType = "DATA_READ"
            BY <1>10, <3>3, <4>2
      <4> QED BY <1>9, <4>3
    <3> QED BY <3>5, <3>6
  <2> QED BY <2>1, <2>2
<1>11. \A j \in 1 .. Len(transactionQueue') : \E m \in 1 .. Len(transactionQueue) :
           m # k /\ transactionQueue'[j] = transactionQueue[m]
       BY <1>3, RemainingEntries
<1>12. ASSUME NEW i \in 1 .. Len(pendingReadTransactions'), NEW t,
              t = pendingReadTransactions'[i]
       PROVE  /\ Recorded(t) /\ IsRead(t.id)
              /\ \A j \in i + 1 .. Len(pendingReadTransactions') :
                     pendingReadTransactions'[j].address = t.address
                         => t.id < pendingReadTransactions'[j].id
              /\ \A j \in 1 .. Len(transactionQueue') :
                     transactionQueue'[j].address = t.address => t.id < transactionQueue'[j].id
  <2>1. CASE i \in 1 .. Len(pendingReadTransactions)
    <3>1. t = pendingReadTransactions[i]
          BY <1>6, <1>12, <2>1
    <3>2. /\ Recorded(t) /\ IsRead(t.id)
          /\ \A j \in i + 1 .. Len(pendingReadTransactions) :
                 pendingReadTransactions[j].address = t.address
                     => t.id < pendingReadTransactions[j].id
          /\ \A j \in 1 .. Len(transactionQueue) :
                 transactionQueue[j].address = t.address => t.id < transactionQueue[j].id
          BY <2>1, <3>1 DEF PendingInOrder
    <3>3. ASSUME NEW j \in i + 1 .. Len(pendingReadTransactions'),
                 pendingReadTransactions'[j].address = t.address
          PROVE  t.id < pendingReadTransactions'[j].id
      <4>1. j \in 1 .. Len(pendingReadTransactions')
            BY <2>1
      <4>2. CASE j \in 1 .. Len(pendingReadTransactions)
        <5>1. j \in i + 1 .. Len(pendingReadTransactions)
              BY <2>1, <4>2
        <5> QED BY <1>6, <3>2, <3>3, <4>2, <5>1
      <4>3. CASE j \notin 1 .. Len(pendingReadTransactions)
        <5>1. pendingReadTransactions'[j] = x
              BY <1>7, <4>1, <4>3
        <5> QED BY <1>1, <3>2, <3>3, <5>1
      <4> QED BY <4>2, <4>3
    <3>4. ASSUME NEW j \in 1 .. Len(transactionQueue'), transactionQueue'[j].address = t.address
          PROVE  t.id < transactionQueue'[j].id
          BY <1>11, <3>2, <3>4
    <3> QED BY <3>2, <3>3, <3>4
  <2>2. CASE i \notin 1 .. Len(pendingReadTransactions)
    <3>1. /\ x.transactionType = "DATA_READ" /\ t = x
          /\ i = Len(pendingReadTransactions') /\ Len(pendingReadTransactions') \in Nat
          BY <1>7, <1>12, <2>2
    <3>2. \A j \in i + 1 .. Len(pendingReadTransactions') : FALSE
          BY <3>1
    <3>3. ASSUME NEW j \in 1 .. Len(transactionQueue'), transactionQueue'[j].address = t.address
          PROVE  t.id < transactionQueue'[j].id
      <4>1. PICK m \in 1 .. Len(transactionQueue) :
                m # k /\ transactionQueue'[j] = transactionQueue[m]
            BY <1>11
      <4>2. SlotOf(transactionQueue[m]) = SlotOf(transactionQueue[k])
            BY <1>1, <3>1, <3>3, <4>1 DEF SlotOf, RankOf, BankOf
      <4>3. k < m
            BY <4>1, <4>2, ScheduledFirst
      <4> QED BY <1>1, <3>1, <4>1, <4>3 DEF QueueInv, Increasing
    <3> QED BY <1>5, <3>1, <3>2, <3>3
  <2> QED BY <2>1, <2>2
<1> QED BY <1>10, <1>12, PendingNext

LEMMA ReturnReadPending ==
    ASSUME TypeOK, QueueInv, ReadsInLine, PendingInOrder, ReadsKept, [Next]_vars, ReturnRead
    PROVE  PendingInOrder'
<1>1. UNCHANGED <<queues, transactionQueue, accepted>>
      BY QuietSteps
<1>2. CASE returnTransaction = <<>>
  <2>1. UNCHANGED pendingReadTransactions
        BY <1>2 DEF ReturnRead
  <2> QED BY <1>1, <2>1, QuietPending
<1>3. CASE returnTransaction # <<>>
  <2>1. PICK ret : ret = returnTransaction[1]
        OBVIOUS
  <2>2. Popped(ret) /\ ret \in DataPacket
        BY <1>3, <2>1, ReturnedFirst
  <2>3. PICK n \in 1 .. Len(pendingReadTransactions) :
            pendingReadTransactions' = RemoveAt(pendingReadTransactions, n)
        BY <1>3, <2>1, OwnRead
  <2>4. ASSUME NEW r \in Ranks, NEW b \in Banks, NEW i \in 1 .. Len(queues'[r][b]), NEW p,
               p = queues'[r][b][i], IsReadPacket(p)
        PROVE  Pending(p.id)'
    <3>1. p = queues[r][b][i] /\ i \in 1 .. Len(queues[r][b])
          BY <1>1, <2>4
    <3>2. Recorded(p) /\ IsRead(p.id) /\ Pending(p.id)
          BY <2>4, <3>1 DEF QueueInv, PendingInOrder
    <3>3. Waiting(p.id)
          BY <3>1 DEF Waiting
    <3>4. PICK id : id = p.id
          OBVIOUS
    <3>5. id # ret.id
      <4> SUFFICES ASSUME id = ret.id PROVE FALSE
          OBVIOUS
      <4>1. p.address = ret.address
            BY <2>2, <3>2, <3>4 DEF Popped, Recorded
      <4>2. ret.id < id
            BY <2>2, <3>2, <3>3, <3>4, <4>1 DEF Popped, Recorded
      <4>3. ret.id \in Nat
            BY <2>2 DEF DataPacket
      <4> QED BY <4>2, <4>3
    <3>6. Pending(id)
          BY <3>2, <3>4
    <3>7. Pending(id)'
          BY <1>3, <2>1, <3>5, <3>6, OthersStayPending
    <3> QED BY <3>4, <3>7
  <2>5. /\ pendingReadTransactions \in Seq(Transaction) /\ Len(pendingReadTransactions) \in Nat
        BY PendingTypes
  <2>6. PICK s : s = pendingReadTransactions
        OBVIOUS
  <2>7. s \in Seq(Transaction) /\ n \in 1 .. Len(s) /\ Len(s) \in Nat
        BY <2>3, <2>5, <2>6
  <2>8. PICK m \in [1 .. Len(s) - 1 -> 1 .. Len(s)] :
            /\ \A k \in 1 .. Len(s) - 1 : m[k] # n /\ RemoveAt(s, n)[k] = s[m[k]]
            /\ \A j, k \in 1 .. Len(s) - 1 : j < k <=> m[j] < m[k]
    <3>1. Erased(s, RemoveAt(s, n), n)
          BY <2>7, RemoveAtErases
    <3> QED BY ONLY <3>1, Zenon DEF Erased
  <2>9. Len(RemoveAt(s, n)) = Len(s) - 1
        BY <2>7, RemoveAtProperties
  <2>10. ASSUME NEW i \in 1 .. Len(pendingReadTransactions'), NEW t,
                t = pendingReadTransactions'[i]
         PROVE  /\ Recorded(t) /\ IsRead(t.id)
                /\ \A j \in i + 1 .. Len(pendingReadTransactions') :
                       pendingReadTransactions'[j].address = t.address
                           => t.id < pendingReadTransactions'[j].id
                /\ \A j \in 1 .. Len(transactionQueue') :
                       transactionQueue'[j].address = t.address => t.id < transactionQueue'[j].id
    <3>1. i \in 1 .. Len(s) - 1
          BY <2>3, <2>6, <2>9
    <3>2. m[i] \in 1 .. Len(s) /\ t = s[m[i]]
          BY <2>3, <2>6, <2>8, <2>10, <3>1
    <3>3. /\ Recorded(t) /\ IsRead(t.id)
          /\ \A j \in m[i] + 1 .. Len(s) : s[j].address = t.address => t.id < s[j].id
          /\ \A j \in 1 .. Len(transactionQueue) :
                 transactionQueue[j].address = t.address => t.id < transactionQueue[j].id
          BY <2>6, <3>2 DEF PendingInOrder
    <3>4. ASSUME NEW j \in i + 1 .. Len(pendingReadTransactions'),
                 pendingReadTransactions'[j].address = t.address
          PROVE  t.id < pendingReadTransactions'[j].id
      <4>1. j \in 1 .. Len(s) - 1 /\ i < j
            BY <2>3, <2>6, <2>7, <2>9, <3>1
      <4>2. m[j] \in 1 .. Len(s) /\ m[i] < m[j] /\ pendingReadTransactions'[j] = s[m[j]]
            BY <2>3, <2>6, <2>8, <3>1, <4>1
      <4>3. m[j] \in m[i] + 1 .. Len(s)
            BY <2>7, <3>2, <4>2
      <4> QED BY <3>3, <3>4, <4>2, <4>3
    <3> QED BY <1>1, <3>3, <3>4
  <2> QED BY <2>4, <2>10, PendingNext
<1> QED BY <1>2, <1>3

(***************************************************************************)
(* No read is lost                                                         *)
(***************************************************************************)
LEMMA KeptNext ==
    ASSUME ReadsKept, UNCHANGED pendingReadTransactions,
           error' = "none" => error = "none",
           \A id : error' = "none" /\ Pending(id) /\ InFlight(id) => InFlight(id)'
    PROVE  ReadsKept'
<1> SUFFICES ASSUME error' = "none", NEW i \in 1 .. Len(pendingReadTransactions')
             PROVE  InFlight(pendingReadTransactions[i].id)'
    BY DEF ReadsKept
<1>1. PICK id : id = pendingReadTransactions[i].id
      OBVIOUS
<1>2. InFlight(id) /\ Pending(id)
      BY <1>1 DEF ReadsKept, Pending
<1>3. InFlight(id)'
      BY <1>2
<1>4. id = pendingReadTransactions'[i].id
      BY <1>1
<1> QED BY <1>3, <1>4 DEF InFlight, Waiting

\* The places a read may be in, when only the queues move.
LEMMA QuietFlight ==
    ASSUME UNCHANGED <<cmdBus, readReturn, rankBus, returnTransaction>>,
           \A w : Waiting(w) => Waiting(w)',
           NEW id, InFlight(id)
    PROVE  InFlight(id)'
<1>1. CASE Waiting(id)
  <2>1. Waiting(id)'
        BY <1>1
  <2> QED BY <2>1 DEF InFlight
<1>2. CASE ~Waiting(id)
      BY <1>2 DEF InFlight, IsReadPacket
<1> QED BY <1>1, <1>2

LEMMA QuietKept ==
    ASSUME ReadsKept,
           UNCHANGED <<cmdBus, readReturn, rankBus, returnTransaction, pendingReadTransactions>>,
           error' = "none" => error = "none",
           \A w : Waiting(w) => Waiting(w)'
    PROVE  ReadsKept'
<1>1. \A id : InFlight(id) => InFlight(id)'
      BY QuietFlight
<1> QED BY <1>1, KeptNext

LEMMA ScheduleKept ==
    ASSUME TypeOK, ReadsKept, NEW k \in 1 .. Len(transactionQueue), Schedules(k),
           UNCHANGED <<cmdBus, readReturn, rankBus, returnTransaction>>
    PROVE  ReadsKept'
<1> SUFFICES ASSUME error' = "none", NEW i \in 1 .. Len(pendingReadTransactions')
             PROVE  InFlight(pendingReadTransactions[i].id)'
    BY DEF ReadsKept
<1>1. PICK x \in Transaction : x = transactionQueue[k]
      BY QueueTypes
<1>2. /\ pendingReadTransactions \in Seq(Transaction) /\ Len(pendingReadTransactions) \in Nat
      BY PendingTypes
<1>3. pendingReadTransactions' = IF x.transactionType = "DATA_READ"
                                 THEN Append(pendingReadTransactions, x)
                                 ELSE pendingReadTransactions
      BY <1>1 DEF Schedules
<1>4. PICK id : id = pendingReadTransactions'[i].id
      OBVIOUS
<1>5. InFlight(id)
  <2>1. CASE i \in 1 .. Len(pendingReadTransactions)
    <3>1. pendingReadTransactions'[i] = pendingReadTransactions[i]
      <4>1. CASE x.transactionType = "DATA_READ"
            BY <1>2, <1>3, <2>1, <4>1, AppendProperties
      <4>2. CASE x.transactionType # "DATA_READ"
            BY <1>3, <4>2
      <4> QED BY <4>1, <4>2
    <3>2. error = "none"
          BY DEF Schedules
    <3> QED BY <1>4, <2>1, <3>1, <3>2 DEF ReadsKept
  <2>2. CASE i \notin 1 .. Len(pendingReadTransactions)
    <3>1. x.transactionType = "DATA_READ"
          BY <1>3, <2>2
    <3>2. /\ Len(pendingReadTransactions') = Len(pendingReadTransactions) + 1
          /\ pendingReadTransactions'[Len(pendingReadTransactions) + 1] = x
          BY <1>2, <1>3, <3>1, AppendProperties
    <3>3. pendingReadTransactions'[i] = x
          BY <1>2, <2>2, <3>2
    <3>4. Waiting(id)
          BY <1>1, <1>4, <3>3 DEF Waiting
    <3> QED BY <3>4 DEF InFlight
  <2> QED BY <2>1, <2>2
<1>6. \A w : Waiting(w) => Waiting(w)'
      BY ScheduleWaiting
<1>7. InFlight(id)'
      BY <1>5, <1>6, QuietFlight
<1> QED BY <1>4, <1>7 DEF InFlight, Waiting

LEMMA PopKept ==
    ASSUME TypeOK, QueueInv, PendingInOrder, ReadsKept,
           UNCHANGED <<transactionQueue, accepted, readReturn, rankBus, returnTransaction,
                       pendingReadTransactions>>, error = "none",
           NEW r \in Ranks, NEW b \in Banks, NEW k \in 1 .. Len(queues[r][b]), Pops(r, b, k)
    PROVE  ReadsKept'
<1>1. PICK c : c = queues[r][b][k]
      OBVIOUS
<1>2. cmdBus' = <<[packet |-> c, left |-> tCMD]>> /\ (error' = "none" => cmdBus = <<>>)
      BY <1>1 DEF Pops
<1>3. 1 \in 1 .. Len(cmdBus') /\ cmdBus'[1].packet = c
      BY <1>2, OneEntry
<1>4. PICK x : x = c.id
      OBVIOUS
<1>5. \A w : Waiting(w) /\ w # x => Waiting(w)'
      BY <1>1, <1>4, PopWaiting
<1>6. ASSUME NEW id, error' = "none", Pending(id), InFlight(id) PROVE InFlight(id)'
  <2>1. CASE Waiting(id) /\ id # x
    <3>1. Waiting(id)'
          BY <1>5, <2>1
    <3> QED BY <3>1 DEF InFlight
  <2>2. CASE id = x
    <3>1. IsRead(id)
          BY <1>6 DEF Pending, PendingInOrder
    <3>2. IsReadPacket(c) /\ c.id = id
          BY <1>1, <1>4, <2>2, <3>1 DEF QueueInv
    <3> QED BY <1>3, <3>2 DEF InFlight, IsReadPacket
  <2>3. CASE ~Waiting(id)
    <3>1. cmdBus = <<>>
          BY <1>2, <1>6
    <3>2. \A i \in 1 .. Len(cmdBus) : FALSE
          BY <3>1
    <3> QED BY <1>6, <2>3, <3>2 DEF InFlight
  <2> QED BY <2>1, <2>2, <2>3
<1> QED BY <1>6, KeptNext

LEMMA CommandBusKept ==
    ASSUME TypeOK, ReadsInLine, ReadsKept, CommandBus, Len(cmdBus) <= 1
    PROVE  ReadsKept'
<1>1. /\ UNCHANGED <<rankBus, returnTransaction, pendingReadTransactions, transactionQueue,
                     queues>>
      /\ error = "none"
      BY DEF CommandBus, mcVars, queueVars, Running
<1>2. \A w : Waiting(w) => Waiting(w)'
      BY <1>1, QuietWaiting
<1>3. /\ \A i \in 1 .. Len(cmdBus') : /\ i \in 1 .. Len(cmdBus)
                                      /\ cmdBus'[i].packet = cmdBus[i].packet
      /\ \/ /\ readReturn' = readReturn
            /\ error' = "none" => \A i \in 1 .. Len(cmdBus) :
                   IsReadPacket(cmdBus[i].packet) => i \in 1 .. Len(cmdBus')
         \/ /\ 1 \in 1 .. Len(cmdBus)
            /\ IsReadPacket(cmdBus[1].packet)
            /\ \E x \in TimedData :
                   /\ x.packet.id = cmdBus[1].packet.id
                   /\ readReturn' = [readReturn EXCEPT ![RankOf(cmdBus[1].packet)]
                                         = Append(readReturn[RankOf(cmdBus[1].packet)], x)]
      BY CommandDelivers
<1>4. ASSUME NEW id, error' = "none", InFlight(id) PROVE InFlight(id)'
  <2>1. CASE Waiting(id)
    <3>1. Waiting(id)'
          BY <1>2, <2>1
    <3> QED BY <3>1 DEF InFlight
  <2>2. CASE \/ \E r \in Ranks : \E i \in 1 .. Len(rankBus[r]) : rankBus[r][i].packet.id = id
             \/ \E i \in 1 .. Len(returnTransaction) : returnTransaction[i].id = id
        BY <1>1, <2>2 DEF InFlight
  <2>3. CASE readReturn' = readReturn
             /\ \A i \in 1 .. Len(cmdBus) :
                    IsReadPacket(cmdBus[i].packet) => i \in 1 .. Len(cmdBus')
    <3>1. CASE \E r \in Ranks : \E i \in 1 .. Len(readReturn[r]) :
                   readReturn[r][i].packet.id = id
          BY <2>3, <3>1 DEF InFlight
    <3>2. CASE \E i \in 1 .. Len(cmdBus) :
                   IsReadPacket(cmdBus[i].packet) /\ cmdBus[i].packet.id = id
      <4>1. PICK i \in 1 .. Len(cmdBus) :
                IsReadPacket(cmdBus[i].packet) /\ cmdBus[i].packet.id = id
            BY <3>2
      <4>2. i \in 1 .. Len(cmdBus') /\ cmdBus'[i].packet = cmdBus[i].packet
            BY <1>3, <2>3, <4>1
      <4> QED BY <4>1, <4>2 DEF InFlight, IsReadPacket
    <3> QED BY <1>4, <2>1, <2>2, <3>1, <3>2 DEF InFlight
  <2>4. CASE /\ 1 \in 1 .. Len(cmdBus) /\ IsReadPacket(cmdBus[1].packet)
             /\ \E x \in TimedData :
                    /\ x.packet.id = cmdBus[1].packet.id
                    /\ readReturn' = [readReturn EXCEPT ![RankOf(cmdBus[1].packet)]
                                          = Append(readReturn[RankOf(cmdBus[1].packet)], x)]
    <3>1. PICK x \in TimedData :
              /\ x.packet.id = cmdBus[1].packet.id
              /\ readReturn' = [readReturn EXCEPT ![RankOf(cmdBus[1].packet)]
                                    = Append(readReturn[RankOf(cmdBus[1].packet)], x)]
          BY <2>4
    <3>2. RankOf(cmdBus[1].packet) \in Ranks
      <4>1. cmdBus \in Seq(TimedCommand)
            BY DEF TypeOK
      <4>2. cmdBus[1] \in TimedCommand
            BY <2>4, <4>1, ElementOfSeq
      <4>3. cmdBus[1].packet.address \in Address
            BY <4>2 DEF TimedCommand, BusPacket
      <4> QED BY <4>3, Located
    <3>3. PICK s \in Ranks : s = RankOf(cmdBus[1].packet)
          BY <3>2
    <3>4. readReturn \in [Ranks -> Seq(TimedData)] /\ readReturn[s] \in Seq(TimedData)
          BY DEF TypeOK
    <3>5. /\ readReturn'[s] = Append(readReturn[s], x)
          /\ \A r \in Ranks : r # s => readReturn'[r] = readReturn[r]
          BY <3>1, <3>3, <3>4
    <3>6. /\ Len(readReturn[s]) \in Nat /\ Len(readReturn'[s]) = Len(readReturn[s]) + 1
          /\ readReturn'[s][Len(readReturn[s]) + 1] = x
          /\ \A i \in 1 .. Len(readReturn[s]) : readReturn'[s][i] = readReturn[s][i]
          BY <3>4, <3>5, AppendProperties, LenProperties
    <3>7. \A i \in 1 .. Len(readReturn[s]) : i \in 1 .. Len(readReturn'[s])
          BY <3>6
    <3>8. CASE \E r \in Ranks : \E i \in 1 .. Len(readReturn[r]) :
                   readReturn[r][i].packet.id = id
      <4>1. PICK r \in Ranks : \E i \in 1 .. Len(readReturn[r]) :
                readReturn[r][i].packet.id = id
            BY <3>8
      <4>2. \E i \in 1 .. Len(readReturn'[r]) : readReturn'[r][i].packet.id = id
        <5>1. CASE r = s
              BY <3>6, <3>7, <4>1, <5>1
        <5>2. CASE r # s
              BY <3>5, <4>1, <5>2
        <5> QED BY <5>1, <5>2
      <4> QED BY <4>2 DEF InFlight
    <3>9. CASE \E i \in 1 .. Len(cmdBus) :
                   IsReadPacket(cmdBus[i].packet) /\ cmdBus[i].packet.id = id
      <4>1. PICK i \in 1 .. Len(cmdBus) : cmdBus[i].packet.id = id
            BY <3>9
      <4>2. i = 1
        <5>1. Len(cmdBus) \in Nat
              BY LenProperties DEF TypeOK
        <5> QED BY <5>1, <4>1
      <4>3. PICK n \in 1 .. Len(readReturn'[s]) : readReturn'[s][n] = x
            BY <3>6
      <4>4. readReturn'[s][n].packet.id = id
            BY <3>1, <4>1, <4>2, <4>3
      <4> QED BY <4>4 DEF InFlight
    <3> QED BY <1>4, <2>1, <2>2, <3>8, <3>9 DEF InFlight
  <2> QED BY <1>3, <1>4, <2>3, <2>4
<1> QED BY <1>1, <1>4, KeptNext

LEMMA RankUpdateKept ==
    ASSUME TypeOK, ReadDataSpaced, ReadsKept, RankUpdate
    PROVE  ReadsKept'
<1>1. /\ UNCHANGED <<cmdBus, pendingReadTransactions, transactionQueue, queues>>
      /\ error' = error
      BY DEF RankUpdate, busVars, queueVars
<1>2. \A w : Waiting(w) => Waiting(w)'
      BY <1>1, QuietWaiting
<1>3. PICK k \in Ranks, m \in {0, 1}, d \in {0, 1} : RankMoves(k, m, d)
      BY RankUpdateMoves
<1>4. \A r \in Ranks : Len(readReturn[r]) \in Nat /\ Len(rankBus[r]) \in Nat
      BY RankTypes
<1>5. ASSUME NEW id, InFlight(id) PROVE InFlight(id)'
  <2>1. CASE Waiting(id)
    <3>1. Waiting(id)'
          BY <1>2, <2>1
    <3> QED BY <3>1 DEF InFlight
  <2>2. CASE \E i \in 1 .. Len(cmdBus) :
                 IsReadPacket(cmdBus[i].packet) /\ cmdBus[i].packet.id = id
        BY <1>1, <2>2 DEF InFlight, IsReadPacket
  <2>3. CASE \E i \in 1 .. Len(returnTransaction) : returnTransaction[i].id = id
    <3>1. PICK i \in 1 .. Len(returnTransaction) : returnTransaction[i].id = id
          BY <2>3
    <3>2. i \in 1 .. Len(returnTransaction') /\ returnTransaction'[i] = returnTransaction[i]
      <4>1. CASE d = 0
            BY <1>3, <4>1 DEF RankMoves
      <4>2. CASE d = 1
            BY <1>3, <4>2 DEF RankMoves
      <4> QED BY <4>1, <4>2
    <3> QED BY <3>1, <3>2 DEF InFlight
  <2>4. CASE \E r \in Ranks : r # k /\
                 \/ \E i \in 1 .. Len(readReturn[r]) : readReturn[r][i].packet.id = id
                 \/ \E i \in 1 .. Len(rankBus[r]) : rankBus[r][i].packet.id = id
    <3>1. PICK r \in Ranks : r # k /\
                 \/ \E i \in 1 .. Len(readReturn[r]) : readReturn[r][i].packet.id = id
                 \/ \E i \in 1 .. Len(rankBus[r]) : rankBus[r][i].packet.id = id
          BY <2>4
    <3>2. readReturn'[r] = readReturn[r] /\ rankBus'[r] = rankBus[r]
          BY <1>3, <3>1 DEF RankMoves
    <3> QED BY <3>1, <3>2 DEF InFlight
  <2>5. CASE \E i \in 1 .. Len(readReturn[k]) : readReturn[k][i].packet.id = id
    <3>1. PICK i \in 1 .. Len(readReturn[k]) : readReturn[k][i].packet.id = id
          BY <2>5
    <3>2. Len(readReturn'[k]) = Len(readReturn[k]) - m /\ Len(readReturn[k]) \in Nat
          BY <1>3, <1>4 DEF RankMoves
    <3>3. CASE m = 1 /\ i = 1
      <4>1. Len(rankBus'[k]) = 1 /\ rankBus'[k][1].packet = readReturn[k][1].packet
            BY <1>3, <3>3 DEF RankMoves
      <4>2. 1 \in 1 .. Len(rankBus'[k]) /\ rankBus'[k][1].packet.id = id
            BY <3>1, <3>3, <4>1
      <4> QED BY <4>2 DEF InFlight
    <3>4. CASE ~(m = 1 /\ i = 1)
      <4>1. PICK j \in 1 .. Len(readReturn'[k]) : j + m = i
        <5>1. i - m \in 1 .. Len(readReturn'[k]) /\ (i - m) + m = i
              BY <3>1, <3>2, <3>4
        <5> QED BY <5>1
      <4>2. readReturn'[k][j].packet = readReturn[k][i].packet
            BY <1>3, <4>1 DEF RankMoves
      <4> QED BY <3>1, <4>2 DEF InFlight
    <3> QED BY <3>3, <3>4
  <2>6. CASE \E i \in 1 .. Len(rankBus[k]) : rankBus[k][i].packet.id = id
    <3>1. PICK i \in 1 .. Len(rankBus[k]) : rankBus[k][i].packet.id = id
          BY <2>6
    <3>2. CASE d = 1
      <4>1. /\ Len(rankBus[k]) = 1 /\ Len(returnTransaction) \in Nat
            /\ Len(returnTransaction') = Len(returnTransaction) + 1
            /\ returnTransaction'[Len(returnTransaction) + 1] = rankBus[k][1].packet
            BY <1>3, <3>2 DEF RankMoves
      <4>2. i = 1
            BY <3>1, <4>1
      <4>3. PICK n \in 1 .. Len(returnTransaction') :
                returnTransaction'[n] = rankBus[k][1].packet
            BY <4>1
      <4>4. returnTransaction'[n].id = id
            BY <3>1, <4>2, <4>3
      <4> QED BY <4>4 DEF InFlight
    <3>3. CASE d = 0
      <4>1. m = 0
        <5>1. m = 1 => Len(rankBus[k]) = 0
              BY <1>3, <3>3 DEF RankMoves
        <5> QED BY <1>4, <3>1, <5>1
      <4>2. Len(rankBus'[k]) = Len(rankBus[k])
            BY <1>3, <3>3, <4>1 DEF RankMoves
      <4>3. i \in 1 .. Len(rankBus'[k])
            BY <3>1, <4>2
      <4>4. rankBus'[k][i].packet = rankBus[k][i].packet
            BY <1>3, <4>1, <4>3 DEF RankMoves
      <4> QED BY <3>1, <4>3, <4>4 DEF InFlight
    <3> QED BY <3>2, <3>3
  <2> QED BY <1>5, <2>1, <2>2, <2>3, <2>4, <2>5, <2>6 DEF InFlight
<1> QED BY <1>1, <1>5, KeptNext

LEMMA ReturnReadKept ==
    ASSUME TypeOK, QueueInv, ReadsInLine, PendingInOrder, ReadsKept, ReturnRead
    PROVE  ReadsKept'
<1>1. /\ UNCHANGED <<cmdBus, readReturn, rankBus, transactionQueue, queues>>
      /\ error = "none"
      BY DEF ReturnRead, busVars, rankVars, queueVars, Running
<1>2. \A w : Waiting(w) => Waiting(w)'
      BY <1>1, QuietWaiting
<1>3. CASE returnTransaction = <<>>
  <2>1. UNCHANGED <<pendingReadTransactions, returnTransaction, error>>
        BY <1>3 DEF ReturnRead
  <2> QED BY <1>1, <1>2, <2>1, QuietKept
<1>4. CASE returnTransaction # <<>>
  <2>1. PICK ret : ret = returnTransaction[1]
        OBVIOUS
  <2>2. /\ Len(returnTransaction) \in Nat /\ 1 \in 1 .. Len(returnTransaction)
        /\ Popped(ret) /\ ret \in DataPacket
        BY <1>4, <2>1, ReturnedFirst
  <2>3. PICK n \in 1 .. Len(pendingReadTransactions) :
            /\ pendingReadTransactions[n].id = ret.id
            /\ pendingReadTransactions' = RemoveAt(pendingReadTransactions, n)
        BY <1>4, <2>1, OwnRead
  <2>4. returnTransaction' = Tail(returnTransaction)
        BY <1>4, <2>1, OwnRead
  <2>5. \A j \in 1 .. Len(returnTransaction) : j # 1 =>
            \E k \in 1 .. Len(returnTransaction') : returnTransaction'[k] = returnTransaction[j]
    <3>1. returnTransaction \in Seq(DataPacket)
          BY DEF TypeOK
    <3>2. /\ Len(Tail(returnTransaction)) = Len(returnTransaction) - 1
          /\ \A i \in 1 .. Len(Tail(returnTransaction)) :
                 Tail(returnTransaction)[i] = returnTransaction[i + 1]
          BY <1>4, <3>1, HeadTailProperties
    <3>3. ASSUME NEW j \in 1 .. Len(returnTransaction), j # 1
          PROVE  \E k \in 1 .. Len(returnTransaction') :
                     returnTransaction'[k] = returnTransaction[j]
      <4>1. PICK k \in 1 .. Len(Tail(returnTransaction)) : k + 1 = j
        <5>1. j - 1 \in 1 .. Len(Tail(returnTransaction)) /\ (j - 1) + 1 = j
              BY <2>2, <3>2, <3>3
        <5> QED BY <5>1
      <4>2. Tail(returnTransaction)[k] = returnTransaction[j]
            BY <3>2, <4>1
      <4> QED BY <2>4, <4>2
    <3> QED BY <3>3
  <2> SUFFICES ASSUME error' = "none", NEW i \in 1 .. Len(pendingReadTransactions')
               PROVE  InFlight(pendingReadTransactions[i].id)'
      BY DEF ReadsKept
  <2>6. PICK j \in 1 .. Len(pendingReadTransactions) :
            j # n /\ pendingReadTransactions'[i] = pendingReadTransactions[j]
        BY <2>3, PendingTypes, RemainingEntries
  <2>7. PICK id : id = pendingReadTransactions[j].id
        OBVIOUS
  <2>8. InFlight(id)
        BY <1>1, <2>7 DEF ReadsKept
  <2>9. id # ret.id
    <3> SUFFICES ASSUME id = ret.id PROVE FALSE
        OBVIOUS
    <3>1. pendingReadTransactions[j].address = pendingReadTransactions[n].address
          BY <2>3, <2>7 DEF PendingInOrder, Recorded
    <3>2. Len(pendingReadTransactions) \in Nat /\ id \in Nat
          BY <2>7, PendingTypes
    <3>3. CASE j < n
      <4>1. n \in j + 1 .. Len(pendingReadTransactions)
            BY <3>2, <3>3
      <4>2. id < pendingReadTransactions[n].id
            BY <2>7, <3>1, <4>1 DEF PendingInOrder
      <4> QED BY <2>3, <3>2, <4>2
    <3>4. CASE n < j
      <4>1. j \in n + 1 .. Len(pendingReadTransactions)
            BY <3>2, <3>4
      <4>2. pendingReadTransactions[n].id < id
            BY <2>7, <3>1, <4>1 DEF PendingInOrder
      <4> QED BY <2>3, <3>2, <4>2
    <3> QED BY <2>6, <3>3, <3>4
  <2>10. InFlight(id)'
    <3>1. CASE Waiting(id)
      <4>1. Waiting(id)'
            BY <1>2, <3>1
      <4> QED BY <4>1 DEF InFlight
    <3>2. CASE \E k \in 1 .. Len(returnTransaction) : returnTransaction[k].id = id
      <4>1. PICK k \in 1 .. Len(returnTransaction) : returnTransaction[k].id = id
            BY <3>2
      <4>2. k # 1
            BY <2>1, <2>9, <4>1
      <4>3. \E y \in 1 .. Len(returnTransaction') : returnTransaction'[y] = returnTransaction[k]
            BY <2>5, <4>2
      <4>4. \E y \in 1 .. Len(returnTransaction') : returnTransaction'[y].id = id
            BY <4>1, <4>3
      <4> QED BY <4>4 DEF InFlight
    <3>3. CASE \/ \E k \in 1 .. Len(cmdBus) :
                      IsReadPacket(cmdBus[k].packet) /\ cmdBus[k].packet.id = id
               \/ \E r \in Ranks :
                      \/ \E k \in 1 .. Len(readReturn[r]) : readReturn[r][k].packet.id = id
                      \/ \E k \in 1 .. Len(rankBus[r]) : rankBus[r][k].packet.id = id
          BY <1>1, <3>3 DEF InFlight, IsReadPacket
    <3> QED BY <2>8, <3>1, <3>2, <3>3 DEF InFlight
  <2>11. id = pendingReadTransactions'[i].id
         BY <2>6, <2>7
  <2> QED BY <2>10, <2>11 DEF InFlight, Waiting
<1> QED BY <1>3, <1>4

(***************************************************************************)
(* Reads come back in order                                                *)
(***************************************************************************)
LineInv == /\ ReadDataSpaced /\ ReadsInLine /\ PendingInOrder /\ ReadsKept
           /\ ReadsCreditedInOrder /\ error # "no matching transaction"

LEMMA InitLine == Init => LineInv
<1> SUFFICES ASSUME Init PROVE LineInv
    OBVIOUS
<1>1. /\ Len(cmdBus) = 0 /\ Len(returnTransaction) = 0 /\ returned = {}
      /\ Len(pendingReadTransactions) = 0 /\ error = "none"
      /\ \A r \in Ranks : Len(readReturn[r]) = 0 /\ Len(rankBus[r]) = 0
      /\ \A r \in Ranks, b \in Banks : Len(queues[r][b]) = 0
      BY EmptySeq DEF Init
<1>2. ReadsInLine
      BY <1>1 DEF ReadsInLine
<1>3. PendingInOrder
      BY <1>1 DEF PendingInOrder
<1>4. ReadsKept
      BY <1>1 DEF ReadsKept
<1>5. ReadsCreditedInOrder
      BY <1>1 DEF ReadsCreditedInOrder
<1> QED BY <1>1, <1>2, <1>3, <1>4, <1>5, InitSpacedReads DEF LineInv

\* A step that leaves the places of reads alone.
LEMMA QuietLineInv ==
    ASSUME TypeOK, QueueInv, LineInv, [Next]_vars, ReadDataSpaced', PendingInOrder',
           UNCHANGED <<cmdBus, readReturn, rankBus, returnTransaction, returned>>,
           UNCHANGED pendingReadTransactions,
           error' = "none" => error = "none", error' # "no matching transaction",
           \A w : Waiting(w) => Waiting(w)'
    PROVE  LineInv'
<1>1. \A id : Pending(id) => Pending(id)'
      BY DEF Pending
<1>2. ReadsInLine'
      BY <1>1, QuietLine DEF LineInv
<1>3. ReadsKept'
      BY QuietKept DEF LineInv
<1>4. ReadsCreditedInOrder'
      BY DEF LineInv, ReadsCreditedInOrder
<1> QED BY <1>2, <1>3, <1>4 DEF LineInv

\* Scheduling a transaction leaves every pending read pending.
LEMMA SchedulePends ==
    ASSUME TypeOK, NEW k \in 1 .. Len(transactionQueue), Schedules(k)
    PROVE  \A id : Pending(id) => Pending(id)'
<1>1. PICK x \in Transaction : x = transactionQueue[k]
      BY QueueTypes
<1>2. pendingReadTransactions' = IF x.transactionType = "DATA_READ"
                                 THEN Append(pendingReadTransactions, x)
                                 ELSE pendingReadTransactions
      BY <1>1 DEF Schedules
<1>3. pendingReadTransactions \in Seq(Transaction) /\ Len(pendingReadTransactions) \in Nat
      BY PendingTypes
<1>4. \A j \in 1 .. Len(pendingReadTransactions) :
          /\ j \in 1 .. Len(pendingReadTransactions')
          /\ pendingReadTransactions'[j] = pendingReadTransactions[j]
  <2>1. CASE x.transactionType = "DATA_READ"
        BY <1>2, <1>3, <2>1, AppendProperties
  <2>2. CASE x.transactionType # "DATA_READ"
        BY <1>2, <2>2
  <2> QED BY <2>1, <2>2
<1> QED BY <1>4 DEF Pending

LEMMA NextLine ==
    ASSUME TypeOK, CountdownInv, QueueInv, ReadsKeepDistance, LineInv, [Next]_vars
    PROVE  LineInv'
<1> USE DEF schedVars, mcVars, busVars, bankVars, queueVars, rankVars, histVars
<1>1. ReadDataSpaced'
      BY NextSpacedReads DEF LineInv
<1>2. /\ ReadDataSpaced /\ ReadsInLine /\ PendingInOrder /\ ReadsKept
      /\ ReadsCreditedInOrder /\ error # "no matching transaction"
      BY DEF LineInv
<1>3. CASE AddTransaction \/ DrainPending
  <2>1. /\ UNCHANGED <<queues, cmdBus, readReturn, rankBus, returnTransaction, returned, error>>
        /\ \/ UNCHANGED <<transactionQueue, accepted>>
           \/ \E req \in Request : Accept(req)
        BY <1>3, ArrivalMeans
  <2>2. UNCHANGED pendingReadTransactions
        BY <1>3 DEF AddTransaction, DrainPending
  <2>3. PendingInOrder'
    <3>1. CASE UNCHANGED <<transactionQueue, accepted>>
          BY <1>2, <2>1, <2>2, <3>1, QuietPending
    <3>2. CASE \E req \in Request : Accept(req)
          BY <1>2, <2>1, <2>2, <3>2, ArrivalPending
    <3> QED BY <2>1, <3>1, <3>2
  <2>4. \A w : Waiting(w) => Waiting(w)'
    <3>1. CASE UNCHANGED <<transactionQueue, accepted>>
          BY <2>1, <3>1, QuietWaiting
    <3>2. CASE \E req \in Request : Accept(req)
          BY <2>1, <3>2, ArrivalWaiting
    <3> QED BY <2>1, <3>1, <3>2
  <2> QED BY <1>1, <1>2, <2>1, <2>2, <2>3, <2>4, QuietLineInv
<1>4. CASE AddPending \/ DataBus \/ UNCHANGED vars
  <2>1. UNCHANGED <<transactionQueue, queues, accepted>>
        BY <1>4, QuietSteps
  <2>2. /\ UNCHANGED <<cmdBus, readReturn, rankBus, returnTransaction, returned>>
        /\ UNCHANGED pendingReadTransactions
        BY <1>4 DEF AddPending, DataBus, vars
  <2>3. /\ error' = "none" => error = "none"
        /\ error' # "no matching transaction"
        BY <1>2, <1>4 DEF AddPending, DataBus, vars, Running
  <2>4. PendingInOrder'
        BY <1>2, <2>1, <2>2, QuietPending
  <2>5. \A w : Waiting(w) => Waiting(w)'
        BY <2>1, QuietWaiting
  <2> QED BY <1>1, <2>2, <2>3, <2>4, <2>5, QuietLineInv
<1>5. CASE RankUpdate
  <2>1. /\ UNCHANGED <<transactionQueue, queues, accepted, pendingReadTransactions>>
        /\ UNCHANGED <<error, returned>>
        BY <1>5 DEF RankUpdate
  <2>2. PendingInOrder'
        BY <1>2, <2>1, QuietPending
  <2>3. ReadsInLine' /\ ReadsKept'
        BY <1>2, <1>5, RankUpdateLine, RankUpdateKept
  <2>4. ReadsCreditedInOrder'
        BY <1>2, <2>1 DEF ReadsCreditedInOrder
  <2> QED BY <1>1, <1>2, <2>1, <2>2, <2>3, <2>4 DEF LineInv
<1>6. CASE CommandBus
  <2>1. /\ UNCHANGED <<transactionQueue, queues, accepted, pendingReadTransactions>>
        /\ UNCHANGED returned
        BY <1>6 DEF CommandBus
  <2>2. error' # "no matching transaction"
        BY <1>2, <1>6 DEF CommandBus, RankReceivesCommand
  <2>3. Len(cmdBus) <= 1
        BY <1>2 DEF ReadDataSpaced, CommandSpaced
  <2>4. PendingInOrder'
        BY <1>2, <2>1, QuietPending
  <2>5. ReadsInLine' /\ ReadsKept'
        BY <1>2, <1>6, <2>3, CommandBusLine, CommandBusKept
  <2>6. ReadsCreditedInOrder'
        BY <1>2, <2>1 DEF ReadsCreditedInOrder
  <2> QED BY <1>1, <2>2, <2>4, <2>5, <2>6 DEF LineInv
<1>7. CASE IssueCommand
  <2>1. /\ UNCHANGED <<transactionQueue, accepted, readReturn, rankBus, returnTransaction,
                       pendingReadTransactions>>
        /\ UNCHANGED returned /\ error = "none"
        BY <1>7 DEF IssueCommand, Running
  <2>2. CASE UNCHANGED <<queues, cmdBus, writeDataToSend, bankVars, error>>
    <3>1. PendingInOrder'
          BY <1>2, <2>1, <2>2, QuietPending
    <3>2. \A w : Waiting(w) => Waiting(w)'
          BY <2>1, <2>2, QuietWaiting
    <3> QED BY <1>1, <1>2, <2>1, <2>2, <3>1, <3>2, QuietLineInv
  <2>3. CASE \E r \in Ranks, b \in Banks : \E i \in 1 .. Len(queues[r][b]) : Pops(r, b, i)
    <3>1. PICK r \in Ranks, b \in Banks : \E i \in 1 .. Len(queues[r][b]) : Pops(r, b, i)
          BY <2>3
    <3>2. PICK i \in 1 .. Len(queues[r][b]) : Pops(r, b, i)
          BY <3>1
    <3>3. PendingInOrder'
          BY <1>2, <2>1, <3>2, PopPending
    <3>4. ReadsInLine'
          BY <1>2, <2>1, <3>2, PopLine
    <3>5. ReadsKept'
          BY <1>2, <2>1, <3>2, PopKept
    <3>6. error' # "no matching transaction"
          BY <1>2, <3>2 DEF Pops
    <3>7. ReadsCreditedInOrder'
          BY <1>2, <2>1 DEF ReadsCreditedInOrder
    <3> QED BY <1>1, <3>3, <3>4, <3>5, <3>6, <3>7 DEF LineInv
  <2> QED BY <1>7, <2>2, <2>3, IssueMeans
<1>8. CASE ScheduleTransaction
  <2>1. /\ UNCHANGED <<accepted, cmdBus, readReturn, rankBus, returnTransaction, returned>>
        BY <1>8 DEF ScheduleTransaction
  <2>2. CASE UNCHANGED <<queues, error, transactionQueue, pendingReadTransactions>>
    <3>1. PendingInOrder'
          BY <1>2, <2>1, <2>2, QuietPending
    <3>2. \A w : Waiting(w) => Waiting(w)'
          BY <2>2, QuietWaiting
    <3> QED BY <1>1, <1>2, <2>1, <2>2, <3>1, <3>2, QuietLineInv
  <2>3. CASE \E i \in 1 .. Len(transactionQueue) : Schedules(i)
    <3>1. PICK k \in 1 .. Len(transactionQueue) : Schedules(k)
          BY <2>3
    <3>2. PendingInOrder'
          BY <1>2, <3>1, SchedulePending
    <3>3. ReadsKept'
          BY <1>2, <2>1, <3>1, ScheduleKept
    <3>4. \A id : Pending(id) => Pending(id)'
          BY <3>1, SchedulePends
    <3>5. ReadsInLine'
          BY <1>2, <2>1, <3>4, QuietLine
    <3>6. ReadsCreditedInOrder' /\ error' # "no matching transaction"
          BY <1>2, <2>1, <3>1 DEF ReadsCreditedInOrder, Schedules
    <3> QED BY <1>1, <3>2, <3>3, <3>5, <3>6 DEF LineInv
  <2> QED BY <1>8, <2>2, <2>3, ScheduleMeans
<1>9. CASE ReturnRead
  <2>1. ReadsInLine' /\ PendingInOrder' /\ ReadsKept'
        BY <1>2, <1>9, ReturnReadLine, ReturnReadPending, ReturnReadKept
  <2>2. ReadsCreditedInOrder' /\ error' # "no matching transaction"
    <3>1. CASE returnTransaction = <<>>
      <4>1. UNCHANGED <<returned, error>>
            BY <1>9, <3>1 DEF ReturnRead
      <4> QED BY <1>2, <4>1 DEF ReadsCreditedInOrder
    <3>2. CASE returnTransaction # <<>>
      <4>1. PICK ret : ret = returnTransaction[1]
            OBVIOUS
      <4>2. /\ error' = error
            /\ returned' = returned \cup
                   {[id |-> ret.id, packet |-> ret.id, data |-> ret.data]}
            BY <1>2, <1>9, <3>2, <4>1, OwnRead
      <4>3. PICK x : x = [id |-> ret.id, packet |-> ret.id, data |-> ret.data]
            OBVIOUS
      <4>4. x.id = x.packet
            BY <4>3
      <4>5. \A c \in returned' : c.id = c.packet
            BY <1>2, <4>2, <4>3, <4>4 DEF ReadsCreditedInOrder
      <4> QED BY <1>2, <4>2, <4>5 DEF ReadsCreditedInOrder
    <3> QED BY <3>1, <3>2
  <2> QED BY <1>1, <2>1, <2>2 DEF LineInv
<1> QED BY <1>3, <1>4, <1>5, <1>6, <1>7, <1>8, <1>9 DEF Next, Cycle

\* The read that MemoryController::update finds by its address, tells the CPU
\* and removes is the read whose data came back, for every set of addresses and
\* whatever the ranks, queues, policies and latencies: reads of one address keep
\* their order from the transaction queue to the list of returned packets, and
\* so do the pending transactions.  Without a burst's distance between two reads
\* of a rank (BL = 1 and tCCD = 0) Rank::update would overwrite the packet on
\* its data bus.
THEOREM ReadsComeBackInOrder ==
    ASSUME ReadsKeepDistance
    PROVE  Spec => []ReadsCreditedInOrder
<1>1. TypeOK /\ CountdownInv /\ QueueInv /\ LineInv /\ [Next]_vars => LineInv'
      BY NextLine
<1>2. LineInv => ReadsCreditedInOrder
      BY DEF LineInv
<1> QED BY <1>1, <1>2, InitType, NextType, InitCountdown, NextCountdown,
           InitQueues, NextQueues, InitLine, PTL DEF Spec

(***************************************************************************)
(* Nothing ends the simulation                                             *)
(***************************************************************************)
\* With a close-page policy and commands of one cycle (every file of ini/) a
\* command leaves the bus before the next one is popped, and no bank has to be
\* opened.
QuickCommands == rowBufferPolicy = "ClosePage" /\ tCMD = 1

CommandsLeave ==
    /\ phase \in {"data", "issue"} => cmdBus = <<>>
    /\ Len(cmdBus) <= 1
    /\ \A i \in 1 .. Len(cmdBus) :
           cmdBus[i].left = 1 /\ cmdBus[i].packet.busPacketType \in {"READ_P", "WRITE_P"}
    /\ \A r \in Ranks, b \in Banks : \A i \in 1 .. Len(queues[r][b]) :
           queues[r][b][i].busPacketType \in {"READ_P", "WRITE_P"}
FatalInv == NoFatalError /\ CommandsLeave

LEMMA InitFatal == Init => FatalInv
<1> SUFFICES ASSUME Init PROVE FatalInv
    OBVIOUS
<1>1. /\ cmdBus = <<>> /\ Len(cmdBus) = 0 /\ error = "none"
      /\ \A r \in Ranks, b \in Banks : Len(queues[r][b]) = 0
      BY EmptySeq DEF Init
<1> QED BY <1>1 DEF FatalInv, NoFatalError, CommandsLeave

LEMMA QuietFatal ==
    ASSUME FatalInv, UNCHANGED <<queues, cmdBus, error>>,
           phase' \in {"data", "issue"} => phase \in {"data", "issue"}
    PROVE  FatalInv'
BY DEF FatalInv, NoFatalError, CommandsLeave

LEMMA NextFatal ==
    ASSUME TypeOK, QuickCommands, SpacedInv', LineInv', FatalInv, [Next]_vars
    PROVE  FatalInv'
<1> USE DEF schedVars, mcVars, busVars, bankVars, queueVars, rankVars, histVars
<1>1. /\ error' # "data bus collision" /\ error' # "no matching transaction"
      BY DEF SpacedInv, NoDataBusCollision, LineInv
<1>2. CommandsLeave /\ error = "none"
      BY DEF FatalInv, NoFatalError
<1>3. CASE AddTransaction \/ AddPending \/ RankUpdate \/ DrainPending \/ UNCHANGED vars
      BY <1>3, QuietFatal
         DEF AddTransaction, AddPending, RankUpdate, DrainPending, vars, Running
<1>4. CASE CommandBus
  <2>1. cmdBus \in Seq(TimedCommand) /\ Len(cmdBus) \in Nat
        BY LenProperties DEF TypeOK
  <2>2. cmdBus' = <<>> /\ error' = "none"
    <3>1. CASE cmdBus = <<>>
      <4>1. ~HeadDue(CountDown(cmdBus)) /\ CountDown(cmdBus) = <<>>
            BY <3>1, EmptySeq DEF CountDown, HeadDue
      <4> QED BY <1>2, <1>4, <4>1 DEF CommandBus, AfterCountDown
    <3>2. CASE cmdBus # <<>>
      <4>1. 1 \in 1 .. Len(cmdBus)
            BY <2>1, <3>2, EmptySeq
      <4>2. /\ cmdBus[1].left = 1
            /\ cmdBus[1].packet.busPacketType \in {"READ_P", "WRITE_P"}
            BY <1>2, <4>1 DEF CommandsLeave
      <4>3. HeadDue(CountDown(cmdBus))
        <5>1. CountDown(cmdBus)[1].left = cmdBus[1].left - 1
              /\ Len(CountDown(cmdBus)) = Len(cmdBus)
              /\ CountDown(cmdBus) \in Seq(TimedCommand)
              BY <2>1, <4>1, CountDownType DEF TimedCommand
        <5>2. CountDown(cmdBus)[1].left = 0
              BY <4>2, <5>1
        <5>3. CountDown(cmdBus) # <<>>
              BY <2>1, <4>1, <5>1, EmptySeq
        <5> QED BY <5>2, <5>3 DEF HeadDue
      <4>4. cmdBus' = <<>>
            BY <1>4, <4>3 DEF CommandBus, AfterCountDown
      <4>5. error' = error
        <5>1. RankReceivesCommand(cmdBus[1].packet)
              BY <1>4, <4>3 DEF CommandBus
        <5> QED BY <4>2, <5>1 DEF RankReceivesCommand
      <4> QED BY <1>2, <4>4, <4>5
    <3> QED BY <3>1, <3>2
  <2>3. Len(cmdBus') = 0 /\ queues' = queues
        BY <1>4, <2>2, EmptySeq DEF CommandBus
  <2> QED BY <1>2, <2>2, <2>3 DEF FatalInv, NoFatalError, CommandsLeave
<1>5. CASE DataBus
  <2>1. UNCHANGED <<queues, cmdBus, error>>
        BY <1>1, <1>2, <1>5 DEF DataBus
  <2>2. phase \in {"data", "issue"}
        BY <1>5 DEF DataBus, Running
  <2> QED BY <2>1, <2>2, QuietFatal
<1>6. CASE IssueCommand
  <2>1. phase = "issue" /\ phase' = "schedule" /\ cmdBus = <<>>
        BY <1>2, <1>6 DEF IssueCommand, Running, CommandsLeave
  <2>2. CASE UNCHANGED <<queues, cmdBus, writeDataToSend, bankVars, error>>
        BY <2>1, <2>2, QuietFatal
  <2>3. CASE \E r \in Ranks, b \in Banks : \E i \in 1 .. Len(queues[r][b]) : Pops(r, b, i)
    <3>1. PICK r \in Ranks, b \in Banks : \E i \in 1 .. Len(queues[r][b]) : Pops(r, b, i)
          BY <2>3
    <3>2. PICK i \in 1 .. Len(queues[r][b]) : Pops(r, b, i)
          BY <3>1
    <3>3. PICK c : c = queues[r][b][i]
          OBVIOUS
    <3>4. cmdBus' = <<[packet |-> c, left |-> 1]>> /\ error' = "none"
          BY <1>2, <2>1, <3>2, <3>3 DEF Pops, QuickCommands
    <3>5. c.busPacketType \in {"READ_P", "WRITE_P"}
          BY <1>2, <3>3 DEF CommandsLeave
    <3>6. /\ Len(cmdBus') = 1 /\ \A j \in 1 .. Len(cmdBus') :
                 cmdBus'[j].packet = c /\ cmdBus'[j].left = 1
          BY <3>4, OneEntry
    <3>7. ASSUME NEW s \in Ranks, NEW d \in Banks, NEW k \in 1 .. Len(queues'[s][d])
          PROVE  queues'[s][d][k].busPacketType \in {"READ_P", "WRITE_P"}
      <4>1. PICK m \in 1 .. Len(queues[s][d]) : queues'[s][d][k] = queues[s][d][m]
            BY <3>2, PopEntries
      <4> QED BY <1>2, <4>1 DEF CommandsLeave
    <3>8. Len(cmdBus') <= 1
          BY <3>6
    <3> QED BY <2>1, <3>4, <3>5, <3>6, <3>7, <3>8 DEF FatalInv, NoFatalError, CommandsLeave
  <2> QED BY <1>6, <2>2, <2>3, IssueMeans
<1>7. CASE ScheduleTransaction
  <2>1. phase' = "return" /\ UNCHANGED cmdBus
        BY <1>7 DEF ScheduleTransaction
  <2>2. CASE UNCHANGED <<queues, error, transactionQueue, pendingReadTransactions>>
        BY <2>1, <2>2, QuietFatal
  <2>3. CASE \E i \in 1 .. Len(transactionQueue) : Schedules(i)
    <3>1. PICK k \in 1 .. Len(transactionQueue) : Schedules(k)
          BY <2>3
    <3>2. PICK x \in Transaction : x = transactionQueue[k]
          BY QueueTypes
    <3>3. CommandOf(x).busPacketType \in {"READ_P", "WRITE_P"} /\ CommandOf(x) \in BusPacket
          BY CommandOfType DEF CommandOf, getBusPacketType, QuickCommands
    <3>4. ASSUME NEW s \in Ranks, NEW c \in Banks, NEW i \in 1 .. Len(queues'[s][c])
          PROVE  queues'[s][c][i].busPacketType \in {"READ_P", "WRITE_P"}
      <4>1. CASE SlotOf(x) # <<s, c>>
        <5>1. queues'[s][c] = queues[s][c]
              BY <3>1, <3>2, <4>1, ScheduleEntries
        <5> QED BY <1>2, <5>1 DEF CommandsLeave
      <4>2. CASE SlotOf(x) = <<s, c>>
        <5>1. queues'[s][c] = Append(queues[s][c], CommandOf(x))
              BY <3>1, <3>2, <4>2, ScheduleEntries
        <5>2. /\ queues[s][c] \in Seq(BusPacket) /\ Len(queues[s][c]) \in Nat
              BY QueueTypes
        <5>3. /\ Len(queues'[s][c]) = Len(queues[s][c]) + 1
              /\ queues'[s][c][Len(queues[s][c]) + 1] = CommandOf(x)
              /\ \A j \in 1 .. Len(queues[s][c]) : queues'[s][c][j] = queues[s][c][j]
              BY <3>3, <5>1, <5>2, AppendProperties
        <5>4. CASE i \in 1 .. Len(queues[s][c])
              BY <1>2, <5>3, <5>4 DEF CommandsLeave
        <5>5. CASE i \notin 1 .. Len(queues[s][c])
          <6>1. i = Len(queues[s][c]) + 1
                BY <5>2, <5>3, <5>5, SMTT(60)
          <6> QED BY <3>3, <5>3, <6>1
        <5> QED BY <5>4, <5>5
      <4> QED BY <4>1, <4>2
    <3>5. error' = error
          BY <3>1 DEF Schedules
    <3> QED BY <1>2, <2>1, <3>4, <3>5 DEF FatalInv, NoFatalError, CommandsLeave
  <2> QED BY <1>7, <2>2, <2>3, ScheduleMeans
<1>8. CASE ReturnRead
  <2>1. UNCHANGED <<queues, cmdBus>> /\ phase' = "ranks"
        BY <1>8 DEF ReturnRead
  <2>2. error' = error
        BY <1>1, <1>8 DEF ReturnRead
  <2> QED BY <2>1, <2>2, QuietFatal
<1> QED BY <1>3, <1>4, <1>5, <1>6, <1>7, <1>8 DEF Next, Cycle

\* A channel with one rank, a close-page policy and commands of one cycle never
\* ends the simulation: no bus collides, no rank refuses a command, no queue
\* overflows and every packet that comes back finds its read, whatever the
\* addresses, queues, latencies and burst length.
THEOREM NothingIsFatal ==
    ASSUME OneRankConfig, QuickCommands
    PROVE  Spec => []NoFatalError
<1>1. ReadsKeepDistance
      BY OneRankKeepsDistance
<1>2. TypeOK /\ CountdownInv /\ QueueInv /\ LineInv /\ [Next]_vars => LineInv'
      BY <1>1, NextLine
<1>3. TypeOK /\ SpacedInv /\ [Next]_vars => SpacedInv'
      BY NextSpaced
<1>4. TypeOK /\ SpacedInv' /\ LineInv' /\ FatalInv /\ [Next]_vars => FatalInv'
      BY NextFatal
<1>5. FatalInv => NoFatalError
      BY DEF FatalInv
<1> QED BY <1>2, <1>3, <1>4, <1>5, InitType, NextType, InitCountdown, NextCountdown,
           InitQueues, NextQueues, InitSpaced, InitLine, InitFatal, PTL DEF Spec
=============================================================================
