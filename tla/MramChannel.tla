---------------------------- MODULE MramChannel ----------------------------
(***************************************************************************)
(* One channel of the eMRAM memory simulator (marss-emram/DRAMSim2): a     *)
(* MemorySystem with its MemoryController, CommandQueue and Ranks.         *)
(*                                                                         *)
(* MemorySystem::update runs one memory clock cycle.  It is split here     *)
(* into the steps it performs, forced into the code's order by `phase':    *)
(*   "ranks"    Rank::update of every rank, in index order (`turn')        *)
(*   "pending"  one overflow transaction moves into the controller         *)
(*   "command"  bank states reset, the command bus delivers to a rank      *)
(*   "data"     the write data bus delivers, the next write data goes out  *)
(*   "issue"    CommandQueue::pop and the timing it imposes on the banks   *)
(*   "schedule" one transaction becomes a command                          *)
(*   "return"   one read goes back to the CPU, the clock ticks             *)
(* Transactions arrive between two cycles, as the callers of update do.    *)
(*                                                                         *)
(* Absolute times are kept as distances: nextRead and nextWrite are the    *)
(* cycles left until currentClockCycle reaches the field of BankState.     *)
(* The refresh, activate and precharge machinery is unreachable in this    *)
(* fork (enqueue drops ACTIVATE, no refresh countdown ever moves, every    *)
(* bank is Idle when pop runs, rowAccessCounters stay 0) and is left out.  *)
(***************************************************************************)
EXTENDS Integers, Sequences, FiniteSets, SequencesExt

CONSTANTS
    NUM_RANKS, NUM_BANKS,
    TRANS_QUEUE_DEPTH, CMD_QUEUE_DEPTH,
    RL, WL, BL, AL, tCCD, tWTR, tRTRS, tCMD,
    queuingStructure,   \* "PerRank" or "PerRankPerBank"
    schedulingPolicy,   \* "RankThenBankRoundRobin" or "BankThenRankRoundRobin"
    rowBufferPolicy,    \* "ClosePage" or "OpenPage"
    Address,            \* the physical addresses the workload uses
    addressMapping,     \* address -> its rank, bank and row
    MaxTransactions,    \* bound: transactions of one behaviour
    MaxPending          \* bound: entries of pendingTransactions

Ranks == 0 .. NUM_RANKS - 1
Banks == 0 .. NUM_BANKS - 1

\* The parameters the ini files and the constructors can produce.
ASSUME ConfigAssumption ==
    /\ NUM_RANKS \in Nat \ {0} /\ NUM_BANKS \in Nat \ {0}
    /\ TRANS_QUEUE_DEPTH \in Nat \ {0} /\ CMD_QUEUE_DEPTH \in Nat \ {0}
    /\ RL \in Nat \ {0} /\ WL \in Nat \ {0} /\ BL \in Nat \ {0}
    /\ AL \in Nat /\ tCCD \in Nat /\ tWTR \in Nat /\ tRTRS \in Nat
    /\ tCMD \in Nat \ {0}
    /\ queuingStructure \in {"PerRank", "PerRankPerBank"}
    /\ schedulingPolicy \in {"RankThenBankRoundRobin", "BankThenRankRoundRobin"}
    /\ rowBufferPolicy \in {"ClosePage", "OpenPage"}
    /\ addressMapping \in [Address -> [rank : Ranks, bank : Banks, row : Nat]]
    /\ MaxTransactions \in Nat /\ MaxPending \in Nat

Larger(m, n) == IF m >= n THEN m ELSE n

BurstCycles           == BL \div 2
\* dataCyclesLeft = (BL > 1) ? BL/2 : 1
DataCycles            == IF BL > 1 THEN BurstCycles ELSE 1
\* Fault: consecutive reads are spaced by one cycle, whatever the burst.
DelayOfOneCycle       == 1
READ_TO_READ_DELAY    == Larger(tCCD, BurstCycles)
WRITE_TO_WRITE_DELAY  == Larger(BurstCycles, tCCD)
READ_TO_WRITE_DELAY   == Larger(RL + BurstCycles + tRTRS - WL, 0)
\* Fault: the write latency is forgotten.
DelayWithoutWL        == Larger(BurstCycles + tWTR, 0)
WRITE_TO_READ_DELAY_B == Larger(WL + BurstCycles + tWTR, 0)
WRITE_TO_READ_DELAY_R == Larger(WL + BurstCycles + tRTRS - RL, 0)
RANK_TO_RANK_DELAY    == BurstCycles + tRTRS

TransactionType == {"DATA_READ", "DATA_WRITE"}
ReadPackets     == {"READ", "READ_P"}
WritePackets    == {"WRITE", "WRITE_P"}

\* `id' is the identity of the Transaction object, the order of acceptance.
Request     == [transactionType : TransactionType, address : Address]
Transaction == [transactionType : TransactionType, address : Address, id : Nat]
BusPacket   == [busPacketType : ReadPackets \cup WritePackets,
                address : Address, id : Nat]
\* A packet on a bus or in a countdown list, with the cycles it has left.
TimedCommand == [packet : BusPacket, left : Int]
\* A DATA packet: the data of a write is the write's id, 0 stands for the
\* tracer value a read of a location that was never written returns.
DataPacket   == [address : Address, id : Nat, data : Nat]
TimedData    == [packet : DataPacket, left : Int]

VARIABLES
    phase, turn,
    \* MemorySystem
    pendingTransactions,
    \* MemoryController
    transactionQueue, pendingReadTransactions, returnTransaction,
    cmdBus,             \* outgoingCmdPacket with cmdCyclesLeft, or empty
    dataBus,            \* outgoingDataPacket with dataCyclesLeft, or empty
    writeDataToSend,    \* with writeDataCountdown
    \* BankState of every bank, as the controller sees it
    nextRead, nextWrite, currentBankState,
    \* CommandQueue
    queues, nextRank, nextBank, sendAct,
    \* Rank and Bank
    readReturn,         \* readReturnPacket with readReturnCountdown
    rankBus,            \* outgoingDataPacket with dataCyclesLeft, or empty
    storage,
    \* exit() and abort()
    error,
    \* history: what was accepted, which writes landed, what reads returned
    accepted, landed, returned

schedVars == <<phase, turn>>
mcVars    == <<transactionQueue, pendingReadTransactions, returnTransaction>>
busVars   == <<cmdBus, dataBus, writeDataToSend>>
bankVars  == <<nextRead, nextWrite, currentBankState>>
queueVars == <<queues, nextRank, nextBank, sendAct>>
rankVars  == <<readReturn, rankBus, storage>>
histVars  == <<accepted, landed, returned>>
vars == <<schedVars, pendingTransactions, mcVars, busVars, bankVars,
          queueVars, rankVars, error, histVars>>

Init ==
    /\ phase = "ranks" /\ turn = 0
    /\ pendingTransactions = <<>>
    /\ transactionQueue = <<>>
    /\ pendingReadTransactions = <<>>
    /\ returnTransaction = <<>>
    /\ cmdBus = <<>> /\ dataBus = <<>> /\ writeDataToSend = <<>>
    /\ nextRead  = [r \in Ranks |-> [b \in Banks |-> 0]]
    /\ nextWrite = [r \in Ranks |-> [b \in Banks |-> 0]]
    /\ currentBankState = [r \in Ranks |-> [b \in Banks |-> "Idle"]]
    /\ queues    = [r \in Ranks |-> [b \in Banks |-> <<>>]]
    /\ nextRank = 0 /\ nextBank = 0 /\ sendAct = TRUE
    /\ readReturn = [r \in Ranks |-> <<>>]
    /\ rankBus    = [r \in Ranks |-> <<>>]
    /\ storage    = [a \in Address |-> 0]
    /\ error = "none"
    /\ accepted = <<>> /\ landed = {} /\ returned = {}

(***************************************************************************)
(* Arrival of transactions, between two cycles                             *)
(***************************************************************************)
BetweenCycles == phase = "ranks" /\ turn = 0 /\ error = "none"

Running(p) == phase = p /\ error = "none"

WillAcceptTransaction == Len(transactionQueue) < TRANS_QUEUE_DEPTH

\* MemoryController::addTransaction of a request it has room for.
Accept(req) ==
    /\ transactionQueue' =
           Append(transactionQueue,
                  [transactionType |-> req.transactionType,
                   address |-> req.address, id |-> Len(accepted) + 1])
    /\ accepted' = Append(accepted, req)

\* Either MemorySystem::addTransaction when the controller has room.  When it
\* has none, addTransaction(Transaction *) returns false and changes nothing.
AddTransaction ==
    /\ BetweenCycles
    /\ WillAcceptTransaction
    /\ Len(accepted) + Len(pendingTransactions) < MaxTransactions
    /\ \E req \in Request : Accept(req)
    /\ UNCHANGED <<schedVars, pendingTransactions, pendingReadTransactions,
                   returnTransaction, busVars, bankVars, queueVars, rankVars,
                   error, landed, returned>>

\* MemorySystem::addTransaction(bool, addr) never refuses: a request the
\* controller has no room for is set aside.
AddPending ==
    /\ BetweenCycles
    /\ ~WillAcceptTransaction
    /\ Len(accepted) + Len(pendingTransactions) < MaxTransactions
    /\ Len(pendingTransactions) < MaxPending
    /\ \E req \in Request :
           pendingTransactions' = Append(pendingTransactions, req)
    /\ UNCHANGED <<schedVars, mcVars, busVars, bankVars, queueVars, rankVars,
                   error, histVars>>

(***************************************************************************)
(* Rank::update                                                            *)
(***************************************************************************)
\* Fault: only the entry at the head counts down.
CountDownHead(s) == [i \in 1 .. Len(s) |-> IF i = 1 THEN [s[i] EXCEPT !.left = @ - 1]
                                           ELSE s[i]]
\* One cycle less for every entry of a countdown list.
CountDown(s) == [i \in 1 .. Len(s) |-> [s[i] EXCEPT !.left = @ - 1]]

\* The head of a counted-down list is the only entry the code looks at.
HeadDue(s) == s # <<>> /\ s[1].left = 0

\* Fault: the entry that was sent is not erased.
KeepDue(s) == s
\* A counted-down list without the entry that is due.
EraseDue(s) == IF HeadDue(s) THEN Tail(s) ELSE s

\* What a bus holds after its countdown: the packet leaves when none is left.
AfterCountDown(bus) == IF HeadDue(CountDown(bus)) THEN <<>> ELSE CountDown(bus)

RankUpdate ==
    LET r        == turn
        waiting  == CountDown(readReturn[r])
        arrives  == HeadDue(CountDown(rankBus[r]))
    IN
    /\ Running("ranks")
    /\ IF turn = NUM_RANKS - 1
       THEN phase' = "pending" /\ turn' = 0
       ELSE phase' = phase /\ turn' = turn + 1
    \* MemoryController::receiveFromBus
    /\ returnTransaction' =
           IF arrives THEN Append(returnTransaction, rankBus[r][1].packet)
                      ELSE returnTransaction
    /\ rankBus' =
           [rankBus EXCEPT ![r] =
               IF HeadDue(waiting)
               THEN <<[packet |-> waiting[1].packet, left |-> DataCycles]>>
               ELSE AfterCountDown(@)]
    /\ readReturn' =
           [readReturn EXCEPT ![r] = EraseDue(waiting)]
    /\ UNCHANGED <<pendingTransactions, transactionQueue,
                   pendingReadTransactions, busVars, bankVars, queueVars,
                   storage, error, histVars>>

(***************************************************************************)
(* MemorySystem::update: one overflow transaction enters the controller    *)
(***************************************************************************)
DrainPending ==
    /\ Running("pending")
    /\ phase' = "command"
    /\ IF pendingTransactions # <<>> /\ WillAcceptTransaction
       THEN /\ Accept(Head(pendingTransactions))
            /\ pendingTransactions' = Tail(pendingTransactions)
       ELSE UNCHANGED <<pendingTransactions, transactionQueue, accepted>>
    /\ UNCHANGED <<turn, pendingReadTransactions, returnTransaction, busVars,
                   bankVars, queueVars, rankVars, error, landed, returned>>

(***************************************************************************)
(* MemoryController::update: the command bus                               *)
(***************************************************************************)
RankOf(p) == addressMapping[p.address].rank
BankOf(p) == addressMapping[p.address].bank
RowOf(p)  == addressMapping[p.address].row

\* Bank::read returns the last data written there, Bank::write replaces it.
BankRead(p)  == storage[p.address]
BankWrite(p) == storage' = [storage EXCEPT ![p.address] = p.data]

\* Rank::receiveFromBus of a command.  A READ or WRITE needs a bank that an
\* ACTIVATE opened, and no ACTIVATE reaches a rank; a READ_P samples the bank
\* and starts its countdown; a WRITE_P waits for its data.
RankReceivesCommand(p) ==
    /\ error' = IF p.busPacketType \in {"READ", "WRITE"}
                THEN "rank received a command when not allowed" ELSE error
    /\ readReturn' =
           IF p.busPacketType = "READ_P"
           THEN [readReturn EXCEPT ![RankOf(p)] =
                    Append(@, [packet |-> [address |-> p.address, id |-> p.id,
                                           data |-> BankRead(p)],
                               left |-> RL])]
           ELSE readReturn

CommandBus ==
    /\ Running("command")
    /\ phase' = "data"
    /\ currentBankState' = [r \in Ranks |-> [b \in Banks |-> "Idle"]]
    /\ cmdBus' = AfterCountDown(cmdBus)
    /\ IF HeadDue(CountDown(cmdBus))
       THEN RankReceivesCommand(cmdBus[1].packet)
       ELSE UNCHANGED <<error, readReturn>>
    /\ UNCHANGED <<turn, pendingTransactions, mcVars, dataBus, writeDataToSend,
                   nextRead, nextWrite, queueVars, rankBus, storage, histVars>>

(***************************************************************************)
(* MemoryController::update: the write data bus                            *)
(***************************************************************************)
DataBus ==
    LET arrives == HeadDue(CountDown(dataBus))
        waiting == CountDown(writeDataToSend)
    IN
    /\ Running("data")
    /\ phase' = "issue"
    \* WriteDataDone, then Rank::receiveFromBus and Bank::write
    /\ IF arrives
       THEN /\ landed' = landed \cup {dataBus[1].packet.id}
            /\ BankWrite(dataBus[1].packet)
       ELSE UNCHANGED <<landed, storage>>
    /\ IF HeadDue(waiting)
       THEN /\ error' = IF AfterCountDown(dataBus) # <<>>
                        THEN "data bus collision" ELSE error
            /\ dataBus' = <<[packet |-> waiting[1].packet,
                             left |-> DataCycles]>>
       ELSE /\ error' = error
            /\ dataBus' = AfterCountDown(dataBus)
    /\ writeDataToSend' = EraseDue(waiting)
    /\ UNCHANGED <<turn, pendingTransactions, mcVars, cmdBus, bankVars,
                   queueVars, readReturn, rankBus, accepted, returned>>

(***************************************************************************)
(* CommandQueue::pop                                                       *)
(***************************************************************************)
QueueBank(b) == IF queuingStructure = "PerRankPerBank" THEN b ELSE 0

getCommandQueue(r, b) == queues[r][QueueBank(b)]

isIssuable(p) ==
    IF p.busPacketType \in WritePackets
    THEN nextWrite[RankOf(p)][BankOf(p)] = 0
    ELSE nextRead[RankOf(p)][BankOf(p)] = 0

\* Fault: the queue is searched from its end.
NewestIssuable(q) == {i \in 1 .. Len(q) :
                         /\ isIssuable(q[i])
                         /\ ~ \E j \in i + 1 .. Len(q) : isIssuable(q[j])}
\* The positions of a queue pop may take a packet from.
Eligible(q) ==
    {i \in 1 .. Len(q) :
        /\ isIssuable(q[i])
        /\ CASE rowBufferPolicy = "OpenPage" ->
                    ~ \E j \in 1 .. i - 1 : /\ BankOf(q[j]) = BankOf(q[i])
                                            /\ RowOf(q[j]) = RowOf(q[i])
             [] rowBufferPolicy = "ClosePage" ->
                    queuingStructure = "PerRankPerBank" => i = 1}

\* The queues the round robin visits, and how many it visits before <<r, b>>.
Slots == IF queuingStructure = "PerRank" THEN Ranks \X {nextBank}
                                         ELSE Ranks \X Banks
RoundRobinIndex(r, b) ==
    IF schedulingPolicy = "RankThenBankRoundRobin" THEN b * NUM_RANKS + r
                                                   ELSE r * NUM_BANKS + b
Visits(slot) ==
    IF queuingStructure = "PerRank"
    THEN (slot[1] - nextRank) % NUM_RANKS
    ELSE (RoundRobinIndex(slot[1], slot[2]) -
              RoundRobinIndex(nextRank, nextBank)) % (NUM_RANKS * NUM_BANKS)

SlotsWithWork == {s \in Slots : Eligible(getCommandQueue(s[1], s[2])) # {}}

nextRankAndBank(r, b) ==
    IF schedulingPolicy = "RankThenBankRoundRobin"
    THEN IF r + 1 < NUM_RANKS THEN <<r + 1, b>>
         ELSE <<0, IF b + 1 < NUM_BANKS THEN b + 1 ELSE 0>>
    ELSE IF b + 1 < NUM_BANKS THEN <<r, b + 1>>
         ELSE <<IF r + 1 < NUM_RANKS THEN r + 1 ELSE 0, 0>>

\* The posted-CAS flag keeps the pointers where they are every other pop.
MovePointers(slot) ==
    IF AL > 0 /\ sendAct
    THEN sendAct' = FALSE /\ nextRank' = slot[1] /\ nextBank' = slot[2]
    ELSE LET next == nextRankAndBank(slot[1], slot[2])
         IN sendAct' = TRUE /\ nextRank' = next[1] /\ nextBank' = next[2]

(***************************************************************************)
(* MemoryController::update: timing after a command, and the command bus   *)
(***************************************************************************)
\* The bank table with every field of the command's rank raised to at least
\* `same' and, where the bank counts as active, of the other ranks to `other'.
Delay(table, r, same, other) ==
    [i \in Ranks |-> [j \in Banks |->
        IF i = r THEN Larger(same, table[i][j])
        ELSE IF currentBankState[i][j] = "RowActive"
             THEN Larger(other, table[i][j])
        ELSE table[i][j]]]

\* Fault: the delays after a WRITE are swapped.
SwappedTiming(p) ==
    LET read == p.busPacketType \in ReadPackets IN
    /\ nextRead'  = Delay(nextRead, RankOf(p),
                          IF read THEN READ_TO_READ_DELAY
                                  ELSE WRITE_TO_WRITE_DELAY, RANK_TO_RANK_DELAY)
    /\ nextWrite' = Delay(nextWrite, RankOf(p),
                          IF read THEN READ_TO_WRITE_DELAY
                                  ELSE WRITE_TO_READ_DELAY_B, READ_TO_WRITE_DELAY)
UpdateTiming(p) ==
    IF p.busPacketType \in ReadPackets
    THEN /\ nextRead'  = Delay(nextRead, RankOf(p), READ_TO_READ_DELAY,
                               RANK_TO_RANK_DELAY)
         /\ nextWrite' = Delay(nextWrite, RankOf(p), READ_TO_WRITE_DELAY,
                               READ_TO_WRITE_DELAY)
    ELSE /\ nextWrite' = Delay(nextWrite, RankOf(p), WRITE_TO_WRITE_DELAY,
                               RANK_TO_RANK_DELAY)
         /\ nextRead'  = Delay(nextRead, RankOf(p), WRITE_TO_READ_DELAY_B,
                               WRITE_TO_READ_DELAY_R)

\* The data of a write that is popped, WL cycles away from the data bus.
WriteData(p) == [packet |-> [address |-> p.address, id |-> p.id, data |-> p.id],
                 left |-> WL]

\* Pop packet i of the queue at slot and put it on the command bus.
Issue(slot, i) ==
    LET p == getCommandQueue(slot[1], slot[2])[i]
    IN
    /\ queues' = [queues EXCEPT ![slot[1]][QueueBank(slot[2])] = RemoveAt(@, i)]
    /\ MovePointers(slot)
    /\ writeDataToSend' =
           IF p.busPacketType \in WritePackets
           THEN Append(writeDataToSend, WriteData(p)) ELSE writeDataToSend
    /\ currentBankState' =
           IF p.busPacketType \in {"READ_P", "WRITE_P"}
           THEN [currentBankState EXCEPT ![RankOf(p)][BankOf(p)] = "RowActive"]
           ELSE currentBankState
    /\ UpdateTiming(p)
    /\ error' = IF cmdBus # <<>> THEN "command bus collision" ELSE error
    /\ cmdBus' = <<[packet |-> p, left |-> tCMD]>>

IssueCommand ==
    /\ Running("issue")
    /\ phase' = "schedule"
    /\ IF SlotsWithWork = {}
       THEN UNCHANGED <<queueVars, cmdBus, writeDataToSend, bankVars, error>>
       ELSE \E slot \in SlotsWithWork :
                /\ \A s \in SlotsWithWork : Visits(slot) <= Visits(s)
                /\ \E i \in Eligible(getCommandQueue(slot[1], slot[2])) :
                       /\ \A j \in Eligible(getCommandQueue(slot[1], slot[2])) :
                              i <= j
                       /\ Issue(slot, i)
    /\ UNCHANGED <<turn, pendingTransactions, mcVars, dataBus, rankVars,
                   histVars>>

(***************************************************************************)
(* MemoryController::update: a transaction becomes a command               *)
(***************************************************************************)
\* Faults: a full queue passes for one with room; room is asked for an
\* ACTIVATE as well, as before the fork dropped it.
RoomInFullQueue(r, b) == Len(getCommandQueue(r, b)) <= CMD_QUEUE_DEPTH
RoomForTwo(r, b)      == Len(getCommandQueue(r, b)) + 1 < CMD_QUEUE_DEPTH
hasRoomFor(r, b) == Len(getCommandQueue(r, b)) < CMD_QUEUE_DEPTH

getBusPacketType(t) ==
    IF t.transactionType = "DATA_READ"
    THEN IF rowBufferPolicy = "ClosePage" THEN "READ_P" ELSE "READ"
    ELSE IF rowBufferPolicy = "ClosePage" THEN "WRITE_P" ELSE "WRITE"

\* Fault: the transaction queue is searched from its end.
NewestSchedulable ==
    LET room(i) == hasRoomFor(RankOf(transactionQueue[i]),
                              BankOf(transactionQueue[i]))
    IN  {i \in 1 .. Len(transactionQueue) :
            room(i) /\ ~ \E j \in i + 1 .. Len(transactionQueue) : room(j)}
\* The transactions there is room for; the first of them is scheduled.
Schedulable == {i \in 1 .. Len(transactionQueue) :
                   hasRoomFor(RankOf(transactionQueue[i]),
                              BankOf(transactionQueue[i]))}

\* CommandQueue::enqueue, which exits when the caller did not ask for room.
Enqueue(t) ==
    /\ queues' = [queues EXCEPT ![RankOf(t)][QueueBank(BankOf(t))] =
                     Append(@, [busPacketType |-> getBusPacketType(t),
                                address |-> t.address, id |-> t.id])]
    /\ error' = IF Len(getCommandQueue(RankOf(t), BankOf(t))) >= CMD_QUEUE_DEPTH
                THEN "enqueued more than allowed" ELSE error

ScheduleTransaction ==
    /\ Running("schedule")
    /\ phase' = "return"
    /\ IF Schedulable = {}
       THEN UNCHANGED <<queues, error, transactionQueue,
                        pendingReadTransactions>>
       ELSE \E i \in Schedulable :
                /\ \A j \in Schedulable : i <= j
                /\ Enqueue(transactionQueue[i])
                /\ transactionQueue' = RemoveAt(transactionQueue, i)
                /\ pendingReadTransactions' =
                       IF transactionQueue[i].transactionType = "DATA_READ"
                       THEN Append(pendingReadTransactions, transactionQueue[i])
                       ELSE pendingReadTransactions
    /\ UNCHANGED <<turn, pendingTransactions, returnTransaction, busVars,
                   bankVars, nextRank, nextBank, sendAct, rankVars, histVars>>

(***************************************************************************)
(* MemoryController::update: one read returns; MemorySystem::update: step  *)
(***************************************************************************)
\* Fault: the most recent read of the address takes the data.
MatchingNewest(ret) ==
    {i \in 1 .. Len(pendingReadTransactions) :
        /\ pendingReadTransactions[i].address = ret.address
        /\ ~ \E j \in i + 1 .. Len(pendingReadTransactions) :
                 pendingReadTransactions[j].address = ret.address}
\* The pending reads the data may belong to: all the code compares is addresses.
Matching(ret) == {i \in 1 .. Len(pendingReadTransactions) :
                     pendingReadTransactions[i].address = ret.address}

\* Fault: the read that was told stays among the pending ones.
ReturnAndKeep(i, ret) ==
    /\ returned' = returned \cup
           {[id |-> pendingReadTransactions[i].id,
             packet |-> ret.id, data |-> ret.data]}
    /\ pendingReadTransactions' = pendingReadTransactions
\* returned records which transaction was told, and whose data it was.
ReturnReadData(i, ret) ==
    /\ returned' = returned \cup
           {[id |-> pendingReadTransactions[i].id,
             packet |-> ret.id, data |-> ret.data]}
    /\ pendingReadTransactions' = RemoveAt(pendingReadTransactions, i)

Tick(table) == [r \in Ranks |-> [b \in Banks |-> Larger(table[r][b] - 1, 0)]]

ReturnRead ==
    /\ Running("return")
    /\ phase' = "ranks"
    /\ IF returnTransaction = <<>>
       THEN UNCHANGED <<returned, pendingReadTransactions, returnTransaction,
                        error>>
       ELSE LET ret == Head(returnTransaction) IN
            IF Matching(ret) = {}
            THEN /\ error' = "no matching transaction"
                 /\ UNCHANGED <<returned, pendingReadTransactions,
                                returnTransaction>>
            ELSE /\ \E i \in Matching(ret) :
                        /\ \A j \in Matching(ret) : i <= j
                        /\ ReturnReadData(i, ret)
                 /\ returnTransaction' = Tail(returnTransaction)
                 /\ error' = error
    /\ nextRead' = Tick(nextRead)
    /\ nextWrite' = Tick(nextWrite)
    /\ UNCHANGED <<turn, pendingTransactions, transactionQueue, busVars,
                   currentBankState, queueVars, rankVars, accepted, landed>>

Cycle == \/ RankUpdate \/ DrainPending \/ CommandBus \/ DataBus
         \/ IssueCommand \/ ScheduleTransaction \/ ReturnRead

Next == AddTransaction \/ AddPending \/ Cycle

\* The callers run update for ever: TraceBasedSim's main loop and MARSS's
\* clock never stop between two cycles, so a cycle's next step is not delayed
\* for ever.
Spec     == Init /\ [][Next]_vars
FairSpec == Spec /\ WF_vars(Cycle)
-----------------------------------------------------------------------------
(***************************************************************************)
(* Properties                                                              *)
(***************************************************************************)
Errors == {"none", "rank received a command when not allowed",
           "data bus collision", "command bus collision",
           "enqueued more than allowed", "no matching transaction"}
Phases == {"ranks", "pending", "command", "data", "issue", "schedule", "return"}

\* The types of all variables, and the capacity of the two bounded queues:
\* WillAcceptTransaction and hasRoomFor are asked before every push_back.
TypeOK ==
    /\ phase \in Phases /\ turn \in Ranks
    /\ pendingTransactions \in Seq(Request)
    /\ transactionQueue \in Seq(Transaction)
    /\ Len(transactionQueue) <= TRANS_QUEUE_DEPTH
    /\ pendingReadTransactions \in Seq(Transaction)
    /\ returnTransaction \in Seq(DataPacket)
    /\ cmdBus \in Seq(TimedCommand)
    /\ dataBus \in Seq(TimedData)
    /\ writeDataToSend \in Seq(TimedData)
    /\ nextRead  \in [Ranks -> [Banks -> Nat]]
    /\ nextWrite \in [Ranks -> [Banks -> Nat]]
    /\ currentBankState \in [Ranks -> [Banks -> {"Idle", "RowActive"}]]
    /\ queues \in [Ranks -> [Banks -> Seq(BusPacket)]]
    /\ \A r \in Ranks, b \in Banks : Len(queues[r][b]) <= CMD_QUEUE_DEPTH
    /\ nextRank \in Ranks /\ nextBank \in Banks /\ sendAct \in BOOLEAN
    /\ readReturn \in [Ranks -> Seq(TimedData)]
    /\ rankBus \in [Ranks -> Seq(TimedData)]
    /\ storage \in [Address -> Nat]
    /\ error \in Errors
    /\ accepted \in Seq(Request)
    /\ landed \in SUBSET Nat
    /\ returned \in SUBSET [id : Nat, packet : Nat, data : Nat]

\* None of the checks that end the simulation ever fires: no command or data
\* bus collision (MemoryController::update), no command a rank refuses
\* (Rank::receiveFromBus), no enqueue into a full queue, and every returned
\* packet finds a pending read.
NoFatalError == error = "none"

\* MemoryController::update: "== Error - Data Bus Collision" is never reached.
NoDataBusCollision == error # "data bus collision"

\* The writes' and the reads' countdown lists expire from the head, one entry
\* per cycle: Rank::update and MemoryController::update test entry 0 only, so
\* an entry that reached 0 behind the head would wrap around and be lost.
Staggered(s) == \A i \in 1 .. Len(s) :
                    /\ s[i].left >= 1
                    /\ \A j \in 1 .. Len(s) : i < j => s[i].left < s[j].left
CountdownsStaggered == /\ Staggered(writeDataToSend)
                       /\ \A r \in Ranks : Staggered(readReturn[r])

IsRead(id) == accepted[id].transactionType = "DATA_READ"
Done(id)   == id \in landed \/ \E c \in returned : c.packet = id

\* The places of a channel, by kind and, where there is more than one, by rank
\* and bank, and the positions a transaction has there.  The data of a write
\* travels apart from its command.
Place == ({"transactions", "command", "write data", "data bus", "returned", "done"}
              \X {0} \X {0})
         \cup ({"queue"} \X Ranks \X Banks)
         \cup ({"countdown", "rank bus"} \X Ranks \X {0})

Positions(s, id)      == {i \in 1 .. Len(s) : s[i].id = id}
TimedPositions(s, id) == {i \in 1 .. Len(s) : s[i].packet.id = id}
Standing(place, id) ==
    LET r == place[2] IN
    CASE place[1] = "transactions" -> Positions(transactionQueue, id)
      [] place[1] = "queue"      -> Positions(queues[r][place[3]], id)
      [] place[1] = "command"    -> {i \in TimedPositions(cmdBus, id) :
                                        cmdBus[i].packet.busPacketType \in ReadPackets}
      [] place[1] = "write data" -> TimedPositions(writeDataToSend, id)
      [] place[1] = "data bus"   -> TimedPositions(dataBus, id)
      [] place[1] = "countdown"  -> TimedPositions(readReturn[r], id)
      [] place[1] = "rank bus"   -> TimedPositions(rankBus[r], id)
      [] place[1] = "returned"   -> Positions(returnTransaction, id)
      [] place[1] = "done"       -> IF Done(id) THEN {1} ELSE {}
PlacesOf(id) == UNION {{place} \X Standing(place, id) : place \in Place}

\* Every accepted transaction is in exactly one place of the channel, from the
\* transaction queue through a command queue, a bus and a countdown list to
\* its completion: no packet is dropped, overwritten (Rank::update assigns
\* outgoingDataPacket without looking at it) or sent twice.
NothingLostOrDuplicated ==
    NoFatalError => \A id \in 1 .. Len(accepted) : Cardinality(PlacesOf(id)) = 1

\* The read that MemoryController::update finds by address, credits with the
\* latency and reports to the CPU is the read whose data came back: two reads
\* of one address never overtake each other.
ReadsCreditedInOrder == \A c \in returned : c.id = c.packet

\* A read returns data at least as new as the last write accepted before it to
\* the same address: WRITE_TO_READ_DELAY_B and the order of the queues keep it
\* behind that write's data, with no forwarding and no address comparison.
ReadsSeeOlderWrites ==
    \A c \in returned : \A w \in 1 .. c.packet - 1 :
        /\ ~IsRead(w)
        /\ accepted[w].address = accepted[c.packet].address
        => w <= c.data

\* Writes to one address reach the bank in the order they were accepted.
WritesLandInOrder == [][\A a \in Address : storage'[a] >= storage[a]]_storage

\* A read is not popped while an older write of its rank still waits in the
\* transaction queue or the command queue: CommandQueue::pop takes the first
\* issuable packet, and a rank that may read may also write.
Waiting(id) ==
    \/ \E i \in 1 .. Len(transactionQueue) : transactionQueue[i].id = id
    \/ \E r \in Ranks, b \in Banks : \E i \in 1 .. Len(queues[r][b]) :
           queues[r][b][i].id = id
SameQueue(v, w) ==
    /\ RankOf(accepted[v]) = RankOf(accepted[w])
    /\ QueueBank(BankOf(accepted[v])) = QueueBank(BankOf(accepted[w]))
ReadNeverOvertakesWrite ==
    \A w \in 1 .. Len(accepted) : \A v \in w + 1 .. Len(accepted) :
        /\ ~IsRead(w) /\ IsRead(v) /\ SameQueue(v, w)
        /\ Waiting(w)
        => Waiting(v)

\* The data pins carry one packet at a time, whether the controller or a rank
\* drives them.  The code checks this for the controller's own packets only.
DataBusExclusive ==
    phase \in {"issue", "schedule", "return"} =>
        Len(dataBus) + Cardinality({r \in Ranks : rankBus[r] # <<>>}) <= 1

\* Once the workload stops, every accepted transaction completes, and so does
\* every transaction MemorySystem set aside.
EveryTransactionCompletes ==
    /\ \A id \in 1 .. MaxTransactions : Len(accepted) >= id ~> Done(id)
    /\ pendingTransactions # <<>> ~> pendingTransactions = <<>>

\* What the CPU side has been told of transaction id by the two callbacks: the
\* end of a write's data, and the return of a read.
ReadCallbacks(id) == {c \in returned : c.id = id}

Told(id) ==
    CASE Len(accepted) < id -> "idle"
      [] Len(accepted) >= id /\ ~IsRead(id) ->
             IF id \in landed THEN "answered" ELSE "asked"
      [] OTHER -> CASE ReadCallbacks(id) = {} -> "asked"
                    [] \E c \in returned : ReadCallbacks(id) = {c} -> "answered"
                    [] OTHER -> "answered twice"

Port == INSTANCE RequestPort WITH
            Ids    <- 1 .. MaxTransactions,
            status <- [id \in 1 .. MaxTransactions |-> Told(id)]

\* The channel implements RequestPort: the callbacks registered with
\* MemorySystem tell the end of every accepted transaction once, although
\* MemoryController::update finds the read to be told by its address.
ChannelKeepsPort == Port!Spec

(***************************************************************************)
(* Why they hold: the inductive invariants of MramChannelProofs            *)
(***************************************************************************)
AtMost(s, n) == \A i \in 1 .. Len(s) : s[i].left <= n

\* Rank::update of rank r has run in this cycle and no command has come since.
CountedDown(r) == \/ phase \in {"pending", "command"}
                  \/ phase = "ranks" /\ r < turn

\* A new entry, WL or RL cycles away, is appended after the others have been
\* counted down in the same cycle: it is farther away than all of them.
CountdownInv ==
    /\ CountdownsStaggered
    /\ phase # "ranks" => turn = 0
    /\ AtMost(writeDataToSend, IF phase = "issue" THEN WL - 1 ELSE WL)
    /\ \A r \in Ranks : AtMost(readReturn[r], IF CountedDown(r) THEN RL - 1 ELSE RL)

Spaced(s) == \A i \in 1 .. Len(s), j \in 1 .. Len(s) :
                 i < j => s[i].left + DataCycles <= s[j].left

\* From ReturnRead to DataBus the clock has ticked and the write data not yet.
Slack == IF phase \in {"issue", "schedule", "return"} THEN 0 ELSE 1

\* With one rank, nextWrite keeps the next write far enough behind the write
\* data that waits and behind the burst on the data bus, so that a burst has
\* left the bus when the next one is due.
WriteDataSpaced ==
    /\ Spaced(writeDataToSend)
    /\ \A i \in 1 .. Len(writeDataToSend), b \in Banks :
           writeDataToSend[i].left + DataCycles <= WL + nextWrite[0][b] + Slack
    /\ Len(dataBus) <= 1
    /\ dataBus # <<>> =>
           /\ dataBus[1].left >= 1
           /\ \A i \in 1 .. Len(writeDataToSend) :
                  dataBus[1].left <= writeDataToSend[i].left
           /\ \A b \in Banks : dataBus[1].left <= WL + nextWrite[0][b] + Slack

(***************************************************************************)
(* The order of transactions                                               *)
(***************************************************************************)
Increasing(s) == \A i, j \in 1 .. Len(s) : i < j => s[i].id < s[j].id
SlotOf(p)     == <<RankOf(p), QueueBank(BankOf(p))>>
Recorded(p)   == p.id \in 1 .. Len(accepted) /\ accepted[p.id].address = p.address
IsReadPacket(p) == p.busPacketType \in ReadPackets

\* Transactions stay in the order of acceptance on their way through the
\* transaction queue and their command queue.
QueueInv ==
    /\ Increasing(transactionQueue)
    /\ \A j \in 1 .. Len(transactionQueue) :
           /\ Recorded(transactionQueue[j])
           /\ transactionQueue[j].transactionType
                  = accepted[transactionQueue[j].id].transactionType
    /\ \A r \in Ranks, b \in Banks :
           /\ Increasing(queues[r][b])
           /\ \A i \in 1 .. Len(queues[r][b]) : LET p == queues[r][b][i] IN
                  /\ Recorded(p) /\ (IsReadPacket(p) <=> IsRead(p.id))
                  /\ SlotOf(p) = <<r, b>>
                  /\ \A j \in 1 .. Len(transactionQueue) :
                         SlotOf(transactionQueue[j]) = <<r, b>>
                             => p.id < transactionQueue[j].id

WaitingWrite(w, a) == Waiting(w) /\ ~IsRead(w) /\ accepted[w].address = a

\* The data of a write that was popped: newer than what is stored, older than
\* what waits.
OnItsWay(p) ==
    /\ Recorded(p) /\ ~IsRead(p.id) /\ p.data = p.id
    /\ storage[p.address] <= p.id
    /\ \A w \in 1 .. Len(accepted) : WaitingWrite(w, p.address) => p.id < w

\* The data of the same address from entry i on is newer than p.
NewerFrom(p, i) == \A j \in i .. Len(writeDataToSend) :
    writeDataToSend[j].packet.address = p.address => p.id < writeDataToSend[j].packet.id

WriteInv ==
    /\ Len(dataBus) <= 1
    /\ \A i \in 1 .. Len(dataBus) :
           OnItsWay(dataBus[i].packet) /\ NewerFrom(dataBus[i].packet, 1)
    /\ \A i \in 1 .. Len(writeDataToSend) :
           /\ OnItsWay(writeDataToSend[i].packet)
           /\ NewerFrom(writeDataToSend[i].packet, i + 1)
    /\ \A a \in Address :
           /\ storage[a] <= Len(accepted)
           /\ \A w \in 1 .. Len(accepted) : WaitingWrite(w, a) => storage[a] < w

\* A rank that may read may also write.
RankMayWrite ==
    /\ phase \in {"data", "issue"} =>
           \A r \in Ranks, b \in Banks : currentBankState[r][b] = "Idle"
    /\ \A r \in Ranks : \A b, c \in Banks : nextWrite[r][b] <= nextRead[r][c]

\* Data that lands in n cycles comes before the next read the rank is sent, and
\* before the read on the command bus: commands are delivered before data.
InTime(n, r) ==
    /\ n >= 1
    /\ \A b \in Banks : n < nextRead[r][b] + tCMD + Slack
    /\ \A i \in 1 .. Len(cmdBus) :
           IsReadPacket(cmdBus[i].packet) /\ RankOf(cmdBus[i].packet) = r
               => n < cmdBus[i].left + (IF phase = "data" THEN 1 ELSE 0)

DataInTime ==
    /\ \A i \in 1 .. Len(dataBus) : InTime(dataBus[i].left, RankOf(dataBus[i].packet))
    /\ \A i \in 1 .. Len(writeDataToSend) :
           InTime(writeDataToSend[i].left + DataCycles, RankOf(writeDataToSend[i].packet))

\* No write is lost.
UnderWay(w) == \/ \E i \in 1 .. Len(dataBus) : dataBus[i].packet.id = w
               \/ \E i \in 1 .. Len(writeDataToSend) : writeDataToSend[i].packet.id = w
WritesKept ==
    error = "none" =>
        \A w \in 1 .. Len(accepted) :
            ~IsRead(w) => Waiting(w) \/ UnderWay(w) \/ w <= storage[accepted[w].address]

\* The data of a read is at least as new as the writes before it.
FreshData(id, a, data) == \A w \in 1 .. id - 1 :
    ~IsRead(w) /\ accepted[w].address = a => w <= data
Fresh(p) == Recorded(p) /\ FreshData(p.id, p.address, p.data)

ReadInv ==
    /\ Len(cmdBus) <= 1
    /\ \A i \in 1 .. Len(cmdBus) : LET p == cmdBus[i].packet IN
           Recorded(p) /\ (IsReadPacket(p) <=> IsRead(p.id)) /\ ~Waiting(p.id)
    /\ \A r \in Ranks :
           /\ \A i \in 1 .. Len(readReturn[r]) : Fresh(readReturn[r][i].packet)
           /\ \A i \in 1 .. Len(rankBus[r]) : Fresh(rankBus[r][i].packet)
    /\ \A i \in 1 .. Len(returnTransaction) : Fresh(returnTransaction[i])
    /\ \A c \in returned :
           /\ c.packet \in 1 .. Len(accepted)
           /\ FreshData(c.packet, accepted[c.packet].address, c.data)

\* From the tick of the clock to Rank::update of rank r, the cycle that the
\* tick took from nextRead has not yet been taken from the rank's lists.
TickAhead(r)   == IF phase = "ranks" /\ ~CountedDown(r) THEN 1 ELSE 0
\* A command is counted down after the lists of its rank.
CommandLate(r) == IF CountedDown(r) THEN 1 ELSE 0

\* n cycles are over before the data of the next reads of rank r is due: of the
\* read on the command bus and of any read that may still be popped.
BeforeNextReads(n, r) ==
    /\ \A i \in 1 .. Len(cmdBus) :
           IsReadPacket(cmdBus[i].packet) /\ RankOf(cmdBus[i].packet) = r
               => n <= RL + cmdBus[i].left - CommandLate(r)
    /\ \A b \in Banks : n <= RL + tCMD + nextRead[r][b] + TickAhead(r)

CommandSpaced ==
    /\ Len(cmdBus) <= 1
    /\ \A i \in 1 .. Len(cmdBus) : LET p == cmdBus[i].packet IN
           IsReadPacket(p) => \A b \in Banks :
               cmdBus[i].left + DataCycles <= tCMD + nextRead[RankOf(p)][b]
                   + (IF phase \in {"ranks", "pending", "command"} THEN 1 ELSE 0)
RankSpaced(r) ==
    /\ Spaced(readReturn[r])
    /\ \A i \in 1 .. Len(readReturn[r]) :
           BeforeNextReads(readReturn[r][i].left + DataCycles, r)
    /\ Len(rankBus[r]) <= 1
    /\ \A k \in 1 .. Len(rankBus[r]) :
           /\ rankBus[r][k].left >= 1
           /\ \A i \in 1 .. Len(readReturn[r]) :
                  rankBus[r][k].left <= readReturn[r][i].left
           /\ BeforeNextReads(rankBus[r][k].left, r)

\* READ_TO_READ_DELAY keeps the reads of a rank a burst apart, wherever they
\* are: the rank's data bus is free when the data of the next one is due.
ReadDataSpaced == CommandSpaced /\ \A r \in Ranks : RankSpaced(r)

Pending(id) == \E i \in 1 .. Len(pendingReadTransactions) : pendingReadTransactions[i].id = id

\* A read that was popped: it is pending, and older than the reads of its
\* address that wait.
Popped(p) ==
    /\ Recorded(p) /\ IsRead(p.id) /\ Pending(p.id)
    /\ \A v \in 1 .. Len(accepted) :
           Waiting(v) /\ IsRead(v) /\ accepted[v].address = p.address => p.id < v

\* The packets of a list, from entry i on, of the same address are newer.
OlderThan(p, s, i) == \A j \in i .. Len(s) :
    s[j].packet.address = p.address => p.id < s[j].packet.id
OlderThanCommand(p) == \A j \in 1 .. Len(cmdBus) :
    /\ IsReadPacket(cmdBus[j].packet)
    /\ cmdBus[j].packet.address = p.address
    => p.id < cmdBus[j].packet.id

\* Reads of one address keep their order from the command queue over the
\* command bus, the rank's countdown list and its data bus to the list of
\* returned packets, and so do the pending transactions they are matched with.
ReadsInLine ==
    /\ \A i \in 1 .. Len(cmdBus) :
           IsReadPacket(cmdBus[i].packet) => Popped(cmdBus[i].packet)
    /\ \A r \in Ranks :
           /\ \A i \in 1 .. Len(readReturn[r]) : LET p == readReturn[r][i].packet IN
                  /\ Popped(p) /\ RankOf(p) = r
                  /\ OlderThanCommand(p) /\ OlderThan(p, readReturn[r], i + 1)
           /\ \A i \in 1 .. Len(rankBus[r]) : LET p == rankBus[r][i].packet IN
                  /\ Popped(p) /\ RankOf(p) = r
                  /\ OlderThanCommand(p) /\ OlderThan(p, readReturn[r], 1)
    /\ \A i \in 1 .. Len(returnTransaction) : LET p == returnTransaction[i] IN
           /\ Popped(p) /\ OlderThanCommand(p)
           /\ OlderThan(p, readReturn[RankOf(p)], 1)
           /\ OlderThan(p, rankBus[RankOf(p)], 1)
           /\ \A j \in i + 1 .. Len(returnTransaction) :
                  returnTransaction[j].address = p.address => p.id < returnTransaction[j].id

\* Every read that was scheduled and not returned is pending, in the order of
\* its address.
PendingInOrder ==
    /\ \A r \in Ranks, b \in Banks : \A i \in 1 .. Len(queues[r][b]) :
           IsReadPacket(queues[r][b][i]) => Pending(queues[r][b][i].id)
    /\ \A i \in 1 .. Len(pendingReadTransactions) : LET t == pendingReadTransactions[i] IN
           /\ Recorded(t) /\ IsRead(t.id)
           /\ \A j \in i + 1 .. Len(pendingReadTransactions) :
                  pendingReadTransactions[j].address = t.address
                      => t.id < pendingReadTransactions[j].id
           /\ \A j \in 1 .. Len(transactionQueue) :
                  transactionQueue[j].address = t.address => t.id < transactionQueue[j].id

\* No read is lost.
InFlight(id) ==
    \/ Waiting(id)
    \/ \E i \in 1 .. Len(cmdBus) :
           IsReadPacket(cmdBus[i].packet) /\ cmdBus[i].packet.id = id
    \/ \E r \in Ranks :
           \/ \E i \in 1 .. Len(readReturn[r]) : readReturn[r][i].packet.id = id
           \/ \E i \in 1 .. Len(rankBus[r]) : rankBus[r][i].packet.id = id
    \/ \E i \in 1 .. Len(returnTransaction) : returnTransaction[i].id = id
ReadsKept ==
    error = "none" => \A i \in 1 .. Len(pendingReadTransactions) :
                          InFlight(pendingReadTransactions[i].id)

\* A transaction that is done is nowhere else, and one that is not is on its way.
Returned(id) == \E c \in returned : c.packet = id
DoneOnce ==
    /\ \A id \in landed : /\ id \in 1 .. Len(accepted)
                          /\ ~IsRead(id) /\ ~Waiting(id) /\ ~UnderWay(id)
    /\ \A c \in returned : LET id == c.packet IN
           /\ id \in 1 .. Len(accepted)
           /\ IsRead(id) /\ ~Waiting(id) /\ ~Pending(id)
           /\ \A d \in returned : d.packet = id => d = c
NoneLost ==
    error = "none" => \A id \in 1 .. Len(accepted) :
        \/ Waiting(id)
        \/ IF IsRead(id) THEN Pending(id) \/ Returned(id)
                         ELSE UnderWay(id) \/ id \in landed
\* The cycles from n on in which a packet on a bus holds the data pins, and
\* those in which the packets of a countdown list will.
Burst(n, len)    == n .. n + len - 1
Held(bus, n)     == UNION {Burst(n, bus[i].left) : i \in 1 .. Len(bus)}
Booked(timed, n) == UNION {Burst(n + timed[i].left, DataCycles) : i \in 1 .. Len(timed)}

\* From its own countdown to that of the write data, a list of rank 0 or the
\* command bus is a cycle ahead of the present one.
RankAhead    == IF phase \in {"pending", "command", "data"} THEN 1 ELSE 0
CommandAhead == IF phase = "data" THEN 1 ELSE 0

\* The cycles, counted from the present one, in which the controller and rank 0
\* hold the data pins, as far as what was popped decides.
WriteCycles == Held(dataBus, 0) \cup Booked(writeDataToSend, 0)
CommandCycles ==
    UNION {Burst(CommandAhead + cmdBus[i].left + RL, DataCycles) :
               i \in {j \in 1 .. Len(cmdBus) : IsReadPacket(cmdBus[j].packet)}}
ReadCycles == Held(rankBus[0], RankAhead) \cup Booked(readReturn[0], RankAhead)
                  \cup CommandCycles

\* With one rank, READ_TO_WRITE_DELAY and WRITE_TO_READ_DELAY_B keep the data of
\* the next command behind all data of the other direction.
PinsShared ==
    /\ WriteCycles \cap ReadCycles = {}
    /\ \A c \in ReadCycles, b \in Banks : c < WL + nextWrite[0][b] + Slack
    /\ \A c \in WriteCycles, b \in Banks : c < RL + tCMD + nextRead[0][b] + Slack
=============================================================================
