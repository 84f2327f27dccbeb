----------------------- MODULE MramChannelPortProofs -----------------------
(***************************************************************************)
(* Seen from outside, the eMRAM channel uses its data pins for one packet  *)
(* at a time, loses no transaction, does none twice, and answers as        *)
(* RequestPort.tla promises.                                               *)
(***************************************************************************)
EXTENDS MramChannelProofs

(***************************************************************************)
(* Reads and writes share the data pins                                    *)
(***************************************************************************)
\* The data of a read has left the pins when that of a write can come which is
\* popped as soon as READ_TO_WRITE_DELAY allows it.  The delay leaves out tCMD; with
\* RL = 2 and WL = 7 (SystemConfiguration.h) and tCMD = 1 (every file of ini/) the
\* hypothesis holds for every BL up to 8, and beyond when tRTRS is at least 1.
ReadsLeaveThePins == tCMD + RL + DataCycles <= WL + READ_TO_WRITE_DELAY

LEMMA PinNumbers ==
    /\ DataCycles \in Nat \ {0} /\ RL \in Nat /\ WL \in Nat /\ tCMD \in Nat \ {0}
    /\ WRITE_TO_READ_DELAY_B \in Nat /\ READ_TO_WRITE_DELAY \in Nat
    /\ WL + DataCycles <= RL + tCMD + WRITE_TO_READ_DELAY_B
    /\ RankAhead \in {0, 1} /\ CommandAhead \in {0, 1} /\ Slack \in {0, 1}
<1>1. BL \in Nat \ {0} /\ RL \in Nat \ {0} /\ WL \in Nat /\ tWTR \in Nat /\ tCMD \in Nat \ {0}
      BY ConfigAssumption
<1>2. BurstCycles \in Nat /\ (BL > 1 => BurstCycles >= 1)
      BY <1>1 DEF BurstCycles
<1>3. DataCycles \in Nat \ {0} /\ DataCycles <= BurstCycles + 1
      BY <1>1, <1>2 DEF DataCycles
<1>4. WRITE_TO_READ_DELAY_B \in Nat /\ WRITE_TO_READ_DELAY_B >= WL + BurstCycles + tWTR
      BY <1>1, <1>2 DEF WRITE_TO_READ_DELAY_B, Larger
<1> QED BY <1>1, <1>2, <1>3, <1>4, DelaysNat DEF RankAhead, CommandAhead, Slack

\* What is left on a bus after its countdown held the pins before.
LEMMA HeldAfter ==
    ASSUME NEW s \in Seq(TimedData), Len(s) <= 1,
           NEW n \in {0, 1}, NEW c \in Held(AfterCountDown(s), n)
    PROVE  c \in Int /\ c + 1 - n \in Held(s, 0)
<1>1. s \in Seq([packet : DataPacket, left : Int])
      BY DEF TimedData
<1>2. /\ Len(AfterCountDown(s)) \in Nat /\ Len(AfterCountDown(s)) <= Len(s)
      /\ \A i \in 1 .. Len(AfterCountDown(s)) :
             /\ i \in 1 .. Len(s) /\ s[i] \in [packet : DataPacket, left : Int]
             /\ AfterCountDown(s)[i].packet = s[i].packet
             /\ AfterCountDown(s)[i].left = s[i].left - 1 /\ s[i].left # 1
      BY <1>1, BusAfter, Zenon
<1>3. PICK i \in 1 .. Len(AfterCountDown(s)) : c \in Burst(n, AfterCountDown(s)[i].left)
      BY DEF Held
<1>4. PICK x : x = s[i].left
      OBVIOUS
<1>5. /\ i \in 1 .. Len(s) /\ x \in Int /\ c \in n .. n + (x - 1) - 1
      BY <1>2, <1>3, <1>4 DEF Burst
<1>6. c \in Int /\ c + 1 - n \in 0 .. 0 + x - 1
      BY <1>5
<1> QED BY <1>4, <1>5, <1>6 DEF Held, Burst

\* So were the bursts that are still due after a pass over their list, and
\* that of the entry that is due now.
LEMMA BookedAfter ==
    ASSUME NEW s \in Seq(TimedData), NEW n \in {0, 1}
    PROVE  /\ \A c \in Booked(EraseDue(CountDown(s)), n) :
                  c \in Int /\ c + 1 - n \in Booked(s, 0)
           /\ HeadDue(CountDown(s)) =>
                  \A c \in Burst(n, DataCycles) : c \in Int /\ c + 1 - n \in Booked(s, 0)
<1>1. s \in Seq([packet : DataPacket, left : Int]) /\ Len(s) \in Nat /\ DataCycles \in Nat
      BY LenProperties, PinNumbers DEF TimedData
<1>2. PICK e : e = EraseDue(CountDown(s))
      OBVIOUS
<1>3. PICK k \in {0, 1} :
          /\ Len(e) = Len(s) - k
          /\ \A i \in 1 .. Len(e) : /\ i + k \in 1 .. Len(s)
                                    /\ s[i + k].left \in Int
                                    /\ e[i].left = s[i + k].left - 1
      BY <1>1, <1>2, PassOverList
<1>4. ASSUME NEW c \in Booked(e, n)
      PROVE  c \in Int /\ c + 1 - n \in Booked(s, 0)
  <2>1. PICK i \in 1 .. Len(e) : c \in Burst(n + e[i].left, DataCycles)
        BY DEF Booked
  <2>2. PICK x, j : x = s[i + k].left /\ j = i + k
        OBVIOUS
  <2>3. /\ j \in 1 .. Len(s) /\ x \in Int
        /\ c \in n + (x - 1) .. n + (x - 1) + DataCycles - 1
        BY <1>3, <2>1, <2>2 DEF Burst
  <2>4. c \in Int /\ c + 1 - n \in 0 + x .. 0 + x + DataCycles - 1
        BY <1>1, <2>3
  <2> QED BY <2>2, <2>3, <2>4 DEF Booked, Burst
<1>5. ASSUME HeadDue(CountDown(s)), NEW c \in Burst(n, DataCycles)
      PROVE  c \in Int /\ c + 1 - n \in Booked(s, 0)
  <2>1. Len(s) >= 1 /\ s[1].left = 1
        BY <1>1, <1>5, DueEntry
  <2>2. c \in n .. n + DataCycles - 1
        BY <1>5 DEF Burst
  <2>3. c \in Int /\ c + 1 - n \in 0 + 1 .. 0 + 1 + DataCycles - 1
        BY <1>1, <2>2
  <2>4. 1 \in 1 .. Len(s)
        BY <1>1, <2>1
  <2> QED BY <2>1, <2>3, <2>4 DEF Booked, Burst
<1> QED BY <1>2, <1>4, <1>5

\* A list or bus that is counted ahead of the present cycle.
LEMMA AheadOfPresent ==
    ASSUME NEW s \in Seq(TimedData), NEW n \in Int
    PROVE  /\ \A c \in Held(s, n) : c \in Int /\ c + 1 \in Held(s, n + 1)
           /\ \A c \in Booked(s, n) : c \in Int /\ c + 1 \in Booked(s, n + 1)
<1>1. DataCycles \in Nat
      BY PinNumbers
<1>2. ASSUME NEW c \in Held(s, n)
      PROVE  c \in Int /\ c + 1 \in Held(s, n + 1)
  <2>1. PICK i \in 1 .. Len(s) : c \in Burst(n, s[i].left)
        BY DEF Held
  <2>2. PICK x : x = s[i].left
        OBVIOUS
  <2>3. x \in Int /\ c \in n .. n + x - 1
        BY <2>1, <2>2, LeftInt DEF Burst
  <2>4. c \in Int /\ c + 1 \in n + 1 .. n + 1 + x - 1
        BY <2>3
  <2> QED BY <2>2, <2>4 DEF Held, Burst
<1>3. ASSUME NEW c \in Booked(s, n)
      PROVE  c \in Int /\ c + 1 \in Booked(s, n + 1)
  <2>1. PICK i \in 1 .. Len(s) : c \in Burst(n + s[i].left, DataCycles)
        BY DEF Booked
  <2>2. PICK x : x = s[i].left
        OBVIOUS
  <2>3. x \in Int /\ c \in n + x .. n + x + DataCycles - 1
        BY <2>1, <2>2, LeftInt DEF Burst
  <2>4. c \in Int /\ c + 1 \in n + 1 + x .. n + 1 + x + DataCycles - 1
        BY <1>1, <2>3
  <2> QED BY <2>2, <2>4 DEF Booked, Burst
<1> QED BY <1>2, <1>3

\* Cycles are integers.
LEMMA CyclesInt ==
    ASSUME OneRankConfig, TypeOK
    PROVE  /\ WriteCycles \subseteq Int /\ ReadCycles \subseteq Int
           /\ dataBus \in Seq(TimedData) /\ writeDataToSend \in Seq(TimedData)
           /\ rankBus[0] \in Seq(TimedData) /\ readReturn[0] \in Seq(TimedData)
           /\ \A b \in Banks : nextRead[0][b] \in Nat /\ nextWrite[0][b] \in Nat
<1>1. 0 \in Ranks
      BY DEF OneRankConfig, Ranks
<1>2. /\ dataBus \in Seq(TimedData) /\ writeDataToSend \in Seq(TimedData)
      /\ rankBus[0] \in Seq(TimedData) /\ readReturn[0] \in Seq(TimedData)
      /\ \A b \in Banks : nextRead[0][b] \in Nat /\ nextWrite[0][b] \in Nat
      BY <1>1 DEF TypeOK
<1>3. RankAhead \in Int /\ CommandAhead \in Int /\ RL \in Int /\ DataCycles \in Int
      BY PinNumbers
<1>4. \A c \in WriteCycles : c \in Int
      BY <1>2, AheadOfPresent DEF WriteCycles
<1>5. ASSUME NEW c \in CommandCycles PROVE c \in Int
  <2>1. PICK i \in 1 .. Len(cmdBus) : c \in Burst(CommandAhead + cmdBus[i].left + RL, DataCycles)
        BY DEF CommandCycles
  <2>2. cmdBus[i].left \in Int
        BY TimedTypes
  <2> QED BY <1>3, <2>1, <2>2 DEF Burst
<1>6. \A c \in Held(rankBus[0], RankAhead) \cup Booked(readReturn[0], RankAhead) : c \in Int
      BY <1>2, <1>3, AheadOfPresent
<1> QED BY <1>2, <1>4, <1>5, <1>6 DEF ReadCycles

\* When every cycle that is taken was taken before, k cycles later, and the
\* delays have come nearer by k cycles at most, the pins are still shared.
LEMMA PinsNext ==
    ASSUME OneRankConfig, TypeOK, TypeOK', PinsShared, NEW k \in {0, 1},
           \A c \in WriteCycles' : c \in Int /\ c + k \in WriteCycles,
           \A c \in ReadCycles' : c \in Int /\ c + k \in ReadCycles,
           \A b \in Banks : /\ nextRead'[0][b] + Slack' + k >= nextRead[0][b] + Slack
                            /\ nextWrite'[0][b] + Slack' + k >= nextWrite[0][b] + Slack
    PROVE  PinsShared'
<1>1. 0 \in Ranks /\ RL \in Nat /\ WL \in Nat /\ tCMD \in Nat
      BY PinNumbers DEF OneRankConfig, Ranks
<1>2. /\ \A b \in Banks : nextRead[0][b] \in Nat /\ nextWrite[0][b] \in Nat
      /\ \A b \in Banks : nextRead'[0][b] \in Nat /\ nextWrite'[0][b] \in Nat
      BY <1>1 DEF TypeOK
<1>3. Slack \in Int /\ Slack' \in Int
      BY DEF Slack
<1>4. WriteCycles' \cap ReadCycles' = {}
  <2> SUFFICES ASSUME NEW c \in WriteCycles', c \in ReadCycles' PROVE FALSE
      OBVIOUS
  <2>1. c + k \in WriteCycles /\ c + k \in ReadCycles
        OBVIOUS
  <2> QED BY <2>1 DEF PinsShared
<1>5. ASSUME NEW c \in ReadCycles', NEW b \in Banks
      PROVE  c < WL + nextWrite'[0][b] + Slack'
  <2>1. c \in Int /\ c + k < WL + nextWrite[0][b] + Slack
        BY DEF PinsShared
  <2>2. PICK m, n : m = nextWrite[0][b] /\ n = nextWrite'[0][b]
        OBVIOUS
  <2>3. m \in Int /\ n \in Int /\ n + Slack' + k >= m + Slack /\ c + k < WL + m + Slack
        BY <1>2, <2>1, <2>2
  <2>4. c < WL + n + Slack'
        BY <1>1, <1>3, <2>1, <2>3
  <2> QED BY <2>2, <2>4
<1>6. ASSUME NEW c \in WriteCycles', NEW b \in Banks
      PROVE  c < RL + tCMD + nextRead'[0][b] + Slack'
  <2>1. c \in Int /\ c + k < RL + tCMD + nextRead[0][b] + Slack
        BY DEF PinsShared
  <2>2. PICK m, n : m = nextRead[0][b] /\ n = nextRead'[0][b]
        OBVIOUS
  <2>3. m \in Int /\ n \in Int /\ n + Slack' + k >= m + Slack /\ c + k < RL + tCMD + m + Slack
        BY <1>2, <2>1, <2>2
  <2>4. c < RL + tCMD + n + Slack'
        BY <1>1, <1>3, <2>1, <2>3
  <2> QED BY <2>2, <2>4
<1> QED BY <1>4, <1>5, <1>6 DEF PinsShared

\* The delays of the rank as they are in the present and in the next state.
LEMMA DelayTypes ==
    ASSUME OneRankConfig, TypeOK, TypeOK'
    PROVE  /\ 0 \in Ranks
           /\ \A b \in Banks : /\ nextRead[0][b] \in Nat /\ nextWrite[0][b] \in Nat
                              /\ nextRead'[0][b] \in Nat /\ nextWrite'[0][b] \in Nat
BY DEF OneRankConfig, Ranks, TypeOK

\* The write data moves up by a cycle, and the present one with it.
LEMMA DataBusPins ==
    ASSUME OneRankConfig, TypeOK, TypeOK', PinsShared, Len(dataBus) <= 1, DataBus
    PROVE  PinsShared'
<1>1. /\ phase = "data" /\ phase' = "issue"
      /\ UNCHANGED <<cmdBus, nextRead, nextWrite, readReturn, rankBus>>
      BY DEF DataBus, Running, bankVars
<1>2. /\ RankAhead = 1 /\ RankAhead' = 0 /\ CommandAhead = 1 /\ CommandAhead' = 0
      /\ Slack = 1 /\ Slack' = 0
      BY <1>1 DEF RankAhead, CommandAhead, Slack
<1>3. /\ dataBus \in Seq(TimedData) /\ writeDataToSend \in Seq(TimedData)
      /\ rankBus[0] \in Seq(TimedData) /\ readReturn[0] \in Seq(TimedData)
      BY CyclesInt
<1>4. /\ writeDataToSend' = EraseDue(CountDown(writeDataToSend))
      /\ \/ dataBus' = AfterCountDown(dataBus)
         \/ /\ HeadDue(CountDown(writeDataToSend))
            /\ \E p : dataBus' = <<[packet |-> p, left |-> DataCycles]>>
      BY DEF DataBus
<1>5. ASSUME NEW c \in WriteCycles' PROVE c \in Int /\ c + 1 \in WriteCycles
  <2>1. CASE c \in Booked(writeDataToSend', 0)
    <3>1. c \in Int /\ c + 1 - 0 \in Booked(writeDataToSend, 0)
          BY <1>3, <1>4, <2>1, BookedAfter
    <3> QED BY <3>1 DEF WriteCycles
  <2>2. CASE c \in Held(dataBus', 0) /\ dataBus' = AfterCountDown(dataBus)
    <3>1. c \in Int /\ c + 1 - 0 \in Held(dataBus, 0)
          BY <1>3, <2>2, HeldAfter
    <3> QED BY <3>1 DEF WriteCycles
  <2>3. ASSUME c \in Held(dataBus', 0), HeadDue(CountDown(writeDataToSend)), NEW p,
               dataBus' = <<[packet |-> p, left |-> DataCycles]>>
        PROVE  c \in Int /\ c + 1 \in WriteCycles
    <3>1. PICK x : x = [packet |-> p, left |-> DataCycles]
          OBVIOUS
    <3>2. dataBus' = <<x>> /\ x.left = DataCycles
          BY <2>3, <3>1
    <3>3. PICK i \in 1 .. Len(<<x>>) : c \in Burst(0, <<x>>[i].left)
          BY <2>3, <3>2 DEF Held
    <3>4. c \in Burst(0, DataCycles)
          BY <3>2, <3>3, OneEntry
    <3>5. c \in Int /\ c + 1 - 0 \in Booked(writeDataToSend, 0)
          BY <1>3, <2>3, <3>4, BookedAfter
    <3> QED BY <3>5 DEF WriteCycles
  <2> QED BY <1>4, <2>1, <2>2, <2>3 DEF WriteCycles
<1>6. ASSUME NEW c \in ReadCycles' PROVE c \in Int /\ c + 1 \in ReadCycles
  <2>1. CASE c \in Held(rankBus[0], 0) \cup Booked(readReturn[0], 0)
    <3>1. c \in Int /\ c + 1 \in Held(rankBus[0], 0 + 1) \cup Booked(readReturn[0], 0 + 1)
          BY <1>3, <2>1, AheadOfPresent
    <3> QED BY <1>2, <3>1 DEF ReadCycles
  <2>2. CASE c \in CommandCycles'
    <3>1. PICK i \in 1 .. Len(cmdBus) :
              /\ IsReadPacket(cmdBus[i].packet)
              /\ c \in Burst(0 + cmdBus[i].left + RL, DataCycles)
          BY <1>1, <1>2, <2>2 DEF CommandCycles, IsReadPacket
    <3>2. PICK x : x = cmdBus[i].left
          OBVIOUS
    <3>3. x \in Int /\ RL \in Int /\ DataCycles \in Int
          BY <3>2, TimedTypes, PinNumbers
    <3>4. c \in Int /\ c + 1 \in Burst(1 + x + RL, DataCycles)
          BY <3>1, <3>2, <3>3 DEF Burst
    <3> QED BY <1>2, <3>1, <3>2, <3>4 DEF CommandCycles, ReadCycles
  <2> QED BY <1>1, <1>2, <2>1, <2>2 DEF ReadCycles
<1>7. \A b \in Banks : /\ nextRead'[0][b] + Slack' + 1 >= nextRead[0][b] + Slack
                      /\ nextWrite'[0][b] + Slack' + 1 >= nextWrite[0][b] + Slack
      BY <1>1, <1>2, DelayTypes
<1> QED BY <1>5, <1>6, <1>7, PinsNext

\* The rank's lists move up by a cycle, a cycle ahead of the present one.
LEMMA RankUpdatePins ==
    ASSUME OneRankConfig, TypeOK, TypeOK', PinsShared, Len(rankBus[0]) <= 1, RankUpdate
    PROVE  PinsShared'
<1>1. turn = 0 /\ NUM_RANKS = 1
      BY DEF TypeOK, OneRankConfig, Ranks
<1>2. /\ phase = "ranks" /\ phase' = "pending"
      /\ UNCHANGED <<cmdBus, dataBus, writeDataToSend, nextRead, nextWrite>>
      BY <1>1 DEF RankUpdate, Running, bankVars, busVars
<1>3. /\ RankAhead = 0 /\ RankAhead' = 1 /\ CommandAhead = 0 /\ CommandAhead' = 0
      /\ Slack = 1 /\ Slack' = 1
      BY <1>2 DEF RankAhead, CommandAhead, Slack
<1>4. /\ rankBus[0] \in Seq(TimedData) /\ readReturn[0] \in Seq(TimedData)
      /\ WriteCycles \subseteq Int /\ ReadCycles \subseteq Int
      BY CyclesInt
<1>5. PICK rr, rb : rr = readReturn[0] /\ rb = rankBus[0]
      OBVIOUS
<1>6. /\ readReturn' = [readReturn EXCEPT ![0] = EraseDue(CountDown(rr))]
      /\ rankBus' = [rankBus EXCEPT ![0] =
                         IF HeadDue(CountDown(rr))
                         THEN <<[packet |-> CountDown(rr)[1].packet, left |-> DataCycles]>>
                         ELSE AfterCountDown(rb)]
      BY <1>1, <1>5 DEF RankUpdate
<1>7. /\ readReturn'[0] = EraseDue(CountDown(rr))
      /\ \/ rankBus'[0] = AfterCountDown(rb)
         \/ /\ HeadDue(CountDown(rr))
            /\ \E p : rankBus'[0] = <<[packet |-> p, left |-> DataCycles]>>
      BY <1>6, DelayTypes DEF TypeOK
<1>8. ASSUME NEW c \in ReadCycles' PROVE c \in Int /\ c + 0 \in ReadCycles
  <2>1. c \in Held(rankBus'[0], 1) \cup Booked(readReturn'[0], 1) \cup CommandCycles
        BY <1>2, <1>3 DEF ReadCycles, CommandCycles, IsReadPacket
  <2>2. CASE c \in CommandCycles
    <3>1. c \in ReadCycles
          BY <2>2 DEF ReadCycles
    <3> QED BY <1>4, <3>1
  <2>3. CASE c \in Booked(readReturn'[0], 1)
    <3>1. c \in Int /\ c + 1 - 1 \in Booked(rr, 0)
          BY <1>4, <1>5, <1>7, <2>3, BookedAfter
    <3>2. c + 1 - 1 = c + 0
          BY <3>1
    <3> QED BY <1>3, <1>5, <3>1, <3>2 DEF ReadCycles
  <2>4. CASE c \in Held(rankBus'[0], 1) /\ rankBus'[0] = AfterCountDown(rb)
    <3>1. c \in Int /\ c + 1 - 1 \in Held(rb, 0)
          BY <1>4, <1>5, <2>4, HeldAfter
    <3>2. c + 1 - 1 = c + 0
          BY <3>1
    <3> QED BY <1>3, <1>5, <3>1, <3>2 DEF ReadCycles
  <2>5. ASSUME c \in Held(rankBus'[0], 1), HeadDue(CountDown(rr)), NEW p,
               rankBus'[0] = <<[packet |-> p, left |-> DataCycles]>>
        PROVE  c \in Int /\ c + 0 \in ReadCycles
    <3>1. PICK x : x = [packet |-> p, left |-> DataCycles]
          OBVIOUS
    <3>2. rankBus'[0] = <<x>> /\ x.left = DataCycles
          BY <2>5, <3>1
    <3>3. PICK i \in 1 .. Len(<<x>>) : c \in Burst(1, <<x>>[i].left)
          BY <2>5, <3>2 DEF Held
    <3>4. c \in Burst(1, DataCycles)
          BY <3>2, <3>3, OneEntry
    <3>5. c \in Int /\ c + 1 - 1 \in Booked(rr, 0)
          BY <1>4, <1>5, <2>5, <3>4, BookedAfter
    <3>6. c + 1 - 1 = c + 0
          BY <3>5
    <3> QED BY <1>3, <1>5, <3>5, <3>6 DEF ReadCycles
  <2> QED BY <1>7, <2>1, <2>2, <2>3, <2>4, <2>5
<1>9. ASSUME NEW c \in WriteCycles' PROVE c \in Int /\ c + 0 \in WriteCycles
  <2>1. c \in WriteCycles
        BY <1>2 DEF WriteCycles
  <2> QED BY <1>4, <2>1
<1>10. \A b \in Banks : /\ nextRead'[0][b] + Slack' + 0 >= nextRead[0][b] + Slack
                       /\ nextWrite'[0][b] + Slack' + 0 >= nextWrite[0][b] + Slack
      BY <1>2, <1>3, DelayTypes
<1> QED BY <1>8, <1>9, <1>10, PinsNext

\* The command bus moves up by a cycle; a read that is delivered keeps its place.
LEMMA CommandBusPins ==
    ASSUME OneRankConfig, TypeOK, TypeOK', PinsShared, Len(cmdBus) <= 1, CommandBus
    PROVE  PinsShared'
<1>1. /\ phase = "command" /\ phase' = "data"
      /\ UNCHANGED <<dataBus, writeDataToSend, nextRead, nextWrite, rankBus>>
      BY DEF CommandBus, Running
<1>2. /\ RankAhead = 1 /\ RankAhead' = 1 /\ CommandAhead = 0 /\ CommandAhead' = 1
      /\ Slack = 1 /\ Slack' = 1
      BY <1>1 DEF RankAhead, CommandAhead, Slack
<1>3. /\ readReturn[0] \in Seq(TimedData)
      /\ WriteCycles \subseteq Int /\ ReadCycles \subseteq Int
      /\ RL \in Int /\ DataCycles \in Int
      BY CyclesInt, PinNumbers
<1>4. PICK rr : rr = readReturn[0]
      OBVIOUS
<1>5. ASSUME NEW c \in CommandCycles' PROVE c \in CommandCycles
  <2>1. PICK i \in 1 .. Len(cmdBus') :
            /\ IsReadPacket(cmdBus'[i].packet)
            /\ c \in Burst(1 + cmdBus'[i].left + RL, DataCycles)
        BY <1>2, <1>5 DEF CommandCycles, IsReadPacket
  <2>2. /\ i \in 1 .. Len(cmdBus) /\ cmdBus'[i].packet = cmdBus[i].packet
        /\ cmdBus'[i].left = cmdBus[i].left - 1
        BY <2>1, CommandDelivers
  <2>3. PICK x : x = cmdBus[i].left
        OBVIOUS
  <2>4. x \in Int /\ 1 + (x - 1) + RL = 0 + x + RL
        BY <1>3, <2>2, <2>3, TimedTypes
  <2>5. c \in Burst(0 + cmdBus[i].left + RL, DataCycles) /\ IsReadPacket(cmdBus[i].packet)
        BY <2>1, <2>2, <2>3, <2>4
  <2> QED BY <1>2, <2>2, <2>5 DEF CommandCycles
<1>6. ASSUME NEW c \in Booked(readReturn'[0], 1)
      PROVE  c \in Booked(rr, 1) \cup CommandCycles
  <2>1. CASE readReturn' = readReturn
        BY <1>4, <1>6, <2>1
  <2>2. ASSUME 1 \in 1 .. Len(cmdBus), cmdBus[1].left = 1, IsReadPacket(cmdBus[1].packet),
               NEW x \in TimedData, x.left = RL,
               readReturn' = [readReturn EXCEPT ![RankOf(cmdBus[1].packet)]
                                  = Append(readReturn[RankOf(cmdBus[1].packet)], x)]
        PROVE  c \in Booked(rr, 1) \cup CommandCycles
    <3>1. RankOf(cmdBus[1].packet) = 0
          BY <2>2, TimedTypes DEF OneRankConfig, Ranks
    <3>2. readReturn'[0] = Append(rr, x)
          BY <1>4, <2>2, <3>1, DelayTypes DEF TypeOK
    <3>3. PICK a : a = Append(rr, x)
          OBVIOUS
    <3>4. /\ Len(a) = Len(rr) + 1 /\ a[Len(rr) + 1] = x /\ Len(rr) \in Nat
          /\ \A i \in 1 .. Len(rr) : a[i] = rr[i]
          BY <1>3, <1>4, <2>2, <3>3, AppendProperties, LenProperties
    <3>5. PICK i \in 1 .. Len(a) : c \in Burst(1 + a[i].left, DataCycles)
          BY <1>6, <3>2, <3>3 DEF Booked
    <3>6. CASE i \in 1 .. Len(rr)
      <4>1. c \in Burst(1 + rr[i].left, DataCycles)
            BY <3>4, <3>5, <3>6
      <4> QED BY <3>6, <4>1 DEF Booked
    <3>7. CASE i \notin 1 .. Len(rr)
      <4>1. i = Len(rr) + 1
            BY <3>4, <3>5, <3>7
      <4>2. c \in Burst(1 + RL, DataCycles)
            BY <2>2, <3>4, <3>5, <4>1
      <4>3. 0 + cmdBus[1].left + RL = 1 + RL
            BY <1>3, <2>2
      <4>4. c \in Burst(0 + cmdBus[1].left + RL, DataCycles)
            BY <4>2, <4>3
      <4> QED BY <1>2, <2>2, <4>4 DEF CommandCycles
    <3> QED BY <3>6, <3>7
  <2> QED BY <2>1, <2>2, CommandDelivers
<1>7. ASSUME NEW c \in ReadCycles' PROVE c \in Int /\ c + 0 \in ReadCycles
  <2>1. c \in Held(rankBus[0], 1) \cup Booked(readReturn'[0], 1) \cup CommandCycles'
        BY <1>1, <1>2 DEF ReadCycles
  <2>2. c \in ReadCycles
        BY <1>2, <1>4, <1>5, <1>6, <2>1 DEF ReadCycles
  <2> QED BY <1>3, <2>2
<1>8. ASSUME NEW c \in WriteCycles' PROVE c \in Int /\ c + 0 \in WriteCycles
  <2>1. c \in WriteCycles
        BY <1>1 DEF WriteCycles
  <2> QED BY <1>3, <2>1
<1>9. \A b \in Banks : /\ nextRead'[0][b] + Slack' + 0 >= nextRead[0][b] + Slack
                      /\ nextWrite'[0][b] + Slack' + 0 >= nextWrite[0][b] + Slack
      BY <1>1, <1>2, DelayTypes
<1> QED BY <1>7, <1>8, <1>9, PinsNext

\* A command is popped when no data of the other direction can meet its own,
\* and the delays it imposes keep the other direction behind its data.
LEMMA PopPins ==
    ASSUME OneRankConfig, ReadsLeaveThePins, TypeOK, TypeOK', PinsShared,
           phase = "issue", phase' = "schedule", UNCHANGED <<dataBus, readReturn, rankBus>>,
           NEW r \in Ranks, NEW b \in Banks, NEW i \in 1 .. Len(queues[r][b]), Pops(r, b, i)
    PROVE  PinsShared'
<1>1. PICK p : p = queues[r][b][i]
      OBVIOUS
<1>2. /\ p \in BusPacket /\ p.address \in Address /\ RankOf(p) \in Ranks /\ BankOf(p) \in Banks
      BY <1>1, QueueTypes, Located
<1>3. /\ UpdateTiming(p) /\ isIssuable(p) /\ cmdBus' = <<[packet |-> p, left |-> tCMD]>>
      /\ writeDataToSend' = IF p.busPacketType \in WritePackets
                            THEN Append(writeDataToSend, WriteData(p)) ELSE writeDataToSend
      BY <1>1 DEF Pops, Eligible
<1>4. /\ RankAhead = 0 /\ RankAhead' = 0 /\ CommandAhead = 0 /\ CommandAhead' = 0
      /\ Slack = 0 /\ Slack' = 0
      BY DEF RankAhead, CommandAhead, Slack
<1>5. /\ WriteCycles \subseteq Int /\ ReadCycles \subseteq Int
      /\ writeDataToSend \in Seq(TimedData)
      /\ RankOf(p) = 0 /\ 0 \in Ranks
      BY <1>2, CyclesInt DEF OneRankConfig, Ranks
<1>6. /\ nextRead \in [Ranks -> [Banks -> Nat]] /\ nextWrite \in [Ranks -> [Banks -> Nat]]
      /\ \A c \in Banks : /\ nextRead[0][c] \in Nat /\ nextWrite[0][c] \in Nat
                          /\ nextRead'[0][c] \in Nat /\ nextWrite'[0][c] \in Nat
      BY DelayTypes DEF TypeOK
<1>7. /\ DataCycles \in Nat \ {0} /\ RL \in Nat /\ WL \in Nat /\ tCMD \in Nat \ {0}
      /\ WRITE_TO_READ_DELAY_B \in Nat /\ READ_TO_WRITE_DELAY \in Nat
      /\ WL + DataCycles <= RL + tCMD + WRITE_TO_READ_DELAY_B
      /\ tCMD + RL + DataCycles <= WL + READ_TO_WRITE_DELAY
      BY PinNumbers DEF ReadsLeaveThePins
<1>8. Len(cmdBus') = 1 /\ \A j \in 1 .. Len(cmdBus') : cmdBus'[j].packet = p
                                                       /\ cmdBus'[j].left = tCMD
      BY <1>3, OneEntry
<1>9. /\ \A c \in Banks : /\ nextRead'[0][c] >= nextRead[0][c]
                          /\ nextWrite'[0][c] >= nextWrite[0][c]
      /\ IsReadPacket(p) => \A c \in Banks : nextWrite'[0][c] >= READ_TO_WRITE_DELAY
      /\ ~IsReadPacket(p) => \A c \in Banks : nextRead'[0][c] >= WRITE_TO_READ_DELAY_B
  <2>1. \A same, other \in Nat : \A c \in Banks :
            /\ Delay(nextRead, 0, same, other)[0][c] >= nextRead[0][c]
            /\ Delay(nextRead, 0, same, other)[0][c] >= same
            /\ Delay(nextWrite, 0, same, other)[0][c] >= nextWrite[0][c]
            /\ Delay(nextWrite, 0, same, other)[0][c] >= same
        BY <1>5, <1>6, DelayType
  <2>2. CASE IsReadPacket(p)
    <3>1. /\ nextRead' = Delay(nextRead, 0, READ_TO_READ_DELAY, RANK_TO_RANK_DELAY)
          /\ nextWrite' = Delay(nextWrite, 0, READ_TO_WRITE_DELAY, READ_TO_WRITE_DELAY)
          BY <1>3, <1>5, <2>2 DEF UpdateTiming, IsReadPacket
    <3> QED BY <2>1, <2>2, <3>1, DelaysNat
  <2>3. CASE ~IsReadPacket(p)
    <3>1. /\ nextWrite' = Delay(nextWrite, 0, WRITE_TO_WRITE_DELAY, RANK_TO_RANK_DELAY)
          /\ nextRead' = Delay(nextRead, 0, WRITE_TO_READ_DELAY_B, WRITE_TO_READ_DELAY_R)
          BY <1>3, <1>5, <2>3 DEF UpdateTiming, IsReadPacket
    <3> QED BY <2>1, <2>3, <3>1, DelaysNat
  <2> QED BY <2>2, <2>3
<1>10. /\ \A c \in ReadCycles, a \in Banks : c < WL + nextWrite[0][a]
       /\ \A c \in WriteCycles, a \in Banks : c < RL + tCMD + nextRead[0][a]
  <2>1. ASSUME NEW a \in Banks
        PROVE  /\ WL + nextWrite[0][a] + Slack = WL + nextWrite[0][a]
               /\ RL + tCMD + nextRead[0][a] + Slack = RL + tCMD + nextRead[0][a]
    <3>1. PICK m, n \in Nat : m = nextWrite[0][a] /\ n = nextRead[0][a]
          BY <1>6
    <3> QED BY <1>4, <1>7, <3>1
  <2> QED BY <2>1 DEF PinsShared
\* The cycles before the command keep clear of the later delays.
<1>11. /\ \A c \in ReadCycles, a \in Banks : c < WL + nextWrite'[0][a]
       /\ \A c \in WriteCycles, a \in Banks : c < RL + tCMD + nextRead'[0][a]
  <2>1. ASSUME NEW a \in Banks
        PROVE  /\ WL + nextWrite[0][a] <= WL + nextWrite'[0][a]
               /\ RL + tCMD + nextRead[0][a] <= RL + tCMD + nextRead'[0][a]
               /\ WL + nextWrite[0][a] \in Int /\ WL + nextWrite'[0][a] \in Int
               /\ RL + tCMD + nextRead[0][a] \in Int /\ RL + tCMD + nextRead'[0][a] \in Int
    <3>1. PICK m, n \in Nat : m = nextWrite[0][a] /\ n = nextRead[0][a]
          BY <1>6
    <3>2. PICK v, w \in Nat : v = nextWrite'[0][a] /\ w = nextRead'[0][a]
          BY <1>6
    <3>3. v >= m /\ w >= n
          BY <1>9, <3>1, <3>2
    <3>4. /\ WL + m <= WL + v /\ RL + tCMD + n <= RL + tCMD + w
          /\ WL + m \in Int /\ WL + v \in Int
          /\ RL + tCMD + n \in Int /\ RL + tCMD + w \in Int
          BY <1>7, <3>3
    <3> QED BY <3>1, <3>2, <3>4
  <2>2. ASSUME NEW c \in ReadCycles, NEW a \in Banks PROVE c < WL + nextWrite'[0][a]
    <3>1. PICK m, v \in Int : m = WL + nextWrite[0][a] /\ v = WL + nextWrite'[0][a]
          BY <2>1
    <3>2. c \in Int /\ c < m /\ m <= v
          BY <1>5, <1>10, <2>1, <3>1
    <3> QED BY <3>1, <3>2
  <2>3. ASSUME NEW c \in WriteCycles, NEW a \in Banks PROVE c < RL + tCMD + nextRead'[0][a]
    <3>1. PICK m, v \in Int : m = RL + tCMD + nextRead[0][a] /\ v = RL + tCMD + nextRead'[0][a]
          BY <2>1
    <3>2. c \in Int /\ c < m /\ m <= v
          BY <1>5, <1>10, <2>1, <3>1
    <3> QED BY <3>1, <3>2
  <2> QED BY <2>2, <2>3
<1>12. \A a \in Banks : /\ WL + nextWrite'[0][a] + Slack' = WL + nextWrite'[0][a]
                        /\ RL + tCMD + nextRead'[0][a] + Slack' = RL + tCMD + nextRead'[0][a]
  <2> TAKE a \in Banks
  <2>1. PICK v, w \in Nat : v = nextWrite'[0][a] /\ w = nextRead'[0][a]
        BY <1>6
  <2>2. WL + v + 0 = WL + v /\ RL + tCMD + w + 0 = RL + tCMD + w
        BY <1>7
  <2> QED BY <1>4, <2>1, <2>2
<1>13. ASSUME NEW c \in ReadCycles'
       PROVE  \/ c \in ReadCycles
              \/ IsReadPacket(p) /\ c \in Burst(0 + tCMD + RL, DataCycles)
  <2>1. c \in Held(rankBus[0], 0) \cup Booked(readReturn[0], 0) \cup CommandCycles'
        BY <1>4 DEF ReadCycles
  <2>2. CASE c \in CommandCycles'
    <3>1. PICK j \in 1 .. Len(cmdBus') :
              /\ IsReadPacket(cmdBus'[j].packet)
              /\ c \in Burst(0 + cmdBus'[j].left + RL, DataCycles)
          BY <1>4, <2>2 DEF CommandCycles, IsReadPacket
    <3> QED BY <1>8, <3>1
  <2> QED BY <1>4, <2>1, <2>2 DEF ReadCycles
<1>14. ASSUME NEW c \in WriteCycles'
       PROVE  \/ c \in WriteCycles
              \/ ~IsReadPacket(p) /\ c \in Burst(0 + WL, DataCycles)
  <2>1. CASE IsReadPacket(p)
    <3>1. writeDataToSend' = writeDataToSend
          BY <1>3, <2>1 DEF IsReadPacket, ReadPackets, WritePackets
    <3> QED BY <1>14, <3>1 DEF WriteCycles
  <2>2. CASE ~IsReadPacket(p)
    <3>1. p.busPacketType \in WritePackets
          BY <1>2, <2>2 DEF BusPacket, IsReadPacket
    <3>2. PICK wd, a : wd = writeDataToSend /\ a = writeDataToSend'
          OBVIOUS
    <3>3. PICK x : x = WriteData(p)
          OBVIOUS
    <3>4. a = Append(wd, x) /\ x \in TimedData /\ x.left = WL
          BY <1>2, <1>3, <3>1, <3>2, <3>3, WriteDataType
    <3>5. /\ Len(a) = Len(wd) + 1 /\ a[Len(wd) + 1] = x /\ Len(wd) \in Nat
          /\ \A j \in 1 .. Len(wd) : a[j] = wd[j]
          BY <1>5, <3>2, <3>4, AppendProperties, LenProperties
    <3>6. CASE c \in Held(dataBus, 0)
          BY <3>6 DEF WriteCycles
    <3>7. CASE c \in Booked(a, 0)
      <4>1. PICK j \in 1 .. Len(a) : c \in Burst(0 + a[j].left, DataCycles)
            BY <3>7 DEF Booked
      <4>2. CASE j \in 1 .. Len(wd)
        <5>1. c \in Burst(0 + wd[j].left, DataCycles)
              BY <3>5, <4>1, <4>2
        <5> QED BY <3>2, <4>2, <5>1 DEF Booked, WriteCycles
      <4>3. CASE j \notin 1 .. Len(wd)
        <5>1. j = Len(wd) + 1
              BY <3>5, <4>1, <4>3
        <5> QED BY <2>2, <3>4, <3>5, <4>1, <5>1
      <4> QED BY <4>2, <4>3
    <3> QED BY <1>14, <3>2, <3>6, <3>7 DEF WriteCycles
  <2> QED BY <2>1, <2>2
<1>15. CASE IsReadPacket(p)
  <2>1. nextRead[0][BankOf(p)] = 0
        BY <1>3, <1>5, <1>15 DEF isIssuable, IsReadPacket, ReadPackets, WritePackets
  <2>2. \A c \in WriteCycles : c < RL + tCMD
        BY <1>2, <1>7, <1>10, <2>1
  <2>3. \A c \in Burst(0 + tCMD + RL, DataCycles) : c >= RL + tCMD /\ c < tCMD + RL + DataCycles
        BY <1>7 DEF Burst
  <2>4. \A c \in Burst(0 + tCMD + RL, DataCycles) : c \in Int
        BY <1>7 DEF Burst
  <2>5. \A c \in WriteCycles' : c \in WriteCycles
        BY <1>14, <1>15
  <2>6. \A c \in WriteCycles' : c \notin ReadCycles'
    <3> SUFFICES ASSUME NEW c \in WriteCycles', c \in ReadCycles' PROVE FALSE
        OBVIOUS
    <3>1. c \in WriteCycles /\ c \in Int
          BY <1>5, <2>5
    <3>2. c \notin ReadCycles
          BY <3>1 DEF PinsShared
    <3>3. c \in Burst(0 + tCMD + RL, DataCycles)
          BY <1>13, <3>2
    <3> QED BY <1>7, <2>2, <2>3, <3>1, <3>3
  <2>7. ASSUME NEW c \in ReadCycles', NEW a \in Banks PROVE c < WL + nextWrite'[0][a]
    <3>1. CASE c \in ReadCycles
          BY <1>11, <3>1
    <3>2. CASE c \in Burst(0 + tCMD + RL, DataCycles)
      <4>1. PICK v \in Nat : v = nextWrite'[0][a]
            BY <1>6
      <4>2. v >= READ_TO_WRITE_DELAY
            BY <1>9, <1>15, <4>1
      <4>3. c \in Int /\ c < tCMD + RL + DataCycles
            BY <2>3, <2>4, <3>2
      <4>4. c < WL + v
            BY <1>7, <4>2, <4>3
      <4> QED BY <4>1, <4>4
    <3> QED BY <1>13, <3>1, <3>2
  <2>8. \A c \in WriteCycles', a \in Banks : c < RL + tCMD + nextRead'[0][a]
        BY <1>11, <2>5
  <2> QED BY <1>12, <2>6, <2>7, <2>8 DEF PinsShared
<1>16. CASE ~IsReadPacket(p)
  <2>1. nextWrite[0][BankOf(p)] = 0
        BY <1>2, <1>3, <1>5, <1>16 DEF isIssuable, IsReadPacket, BusPacket
  <2>2. \A c \in ReadCycles : c < WL
        BY <1>2, <1>7, <1>10, <2>1
  <2>3. \A c \in Burst(0 + WL, DataCycles) : c \in Int /\ c >= WL /\ c < WL + DataCycles
        BY <1>7 DEF Burst
  <2>4. \A c \in ReadCycles' : c \in ReadCycles
        BY <1>13, <1>16
  <2>5. \A c \in WriteCycles' : c \notin ReadCycles'
    <3> SUFFICES ASSUME NEW c \in WriteCycles', c \in ReadCycles' PROVE FALSE
        OBVIOUS
    <3>1. c \in ReadCycles /\ c \in Int
          BY <1>5, <2>4
    <3>2. c \notin WriteCycles
          BY <3>1 DEF PinsShared
    <3>3. c \in Burst(0 + WL, DataCycles)
          BY <1>14, <3>2
    <3> QED BY <1>7, <2>2, <2>3, <3>1, <3>3
  <2>6. ASSUME NEW c \in WriteCycles', NEW a \in Banks PROVE c < RL + tCMD + nextRead'[0][a]
    <3>1. CASE c \in WriteCycles
          BY <1>11, <3>1
    <3>2. CASE c \in Burst(0 + WL, DataCycles)
      <4>1. PICK v \in Nat : v = nextRead'[0][a]
            BY <1>6
      <4>2. v >= WRITE_TO_READ_DELAY_B
            BY <1>9, <1>16, <4>1
      <4>3. c \in Int /\ c < WL + DataCycles
            BY <2>3, <3>2
      <4> QED BY <1>7, <4>1, <4>2, <4>3
    <3> QED BY <1>14, <3>1, <3>2
  <2>7. \A c \in ReadCycles', a \in Banks : c < WL + nextWrite'[0][a]
        BY <1>11, <2>4
  <2> QED BY <1>12, <2>5, <2>6, <2>7 DEF PinsShared
<1> QED BY <1>15, <1>16

\* The clock's tick takes a cycle off the delays.
LEMMA ReturnReadPins ==
    ASSUME OneRankConfig, TypeOK, TypeOK', PinsShared, ReturnRead
    PROVE  PinsShared'
<1>1. /\ phase = "return" /\ phase' = "ranks"
      /\ UNCHANGED <<cmdBus, dataBus, writeDataToSend, readReturn, rankBus>>
      /\ nextRead' = Tick(nextRead) /\ nextWrite' = Tick(nextWrite)
      BY DEF ReturnRead, Running, busVars, rankVars
<1>2. /\ RankAhead' = RankAhead /\ CommandAhead' = CommandAhead
      /\ Slack = 0 /\ Slack' = 1
      BY <1>1 DEF RankAhead, CommandAhead, Slack
<1>3. /\ WriteCycles' = WriteCycles /\ ReadCycles' = ReadCycles
      /\ WriteCycles \subseteq Int /\ ReadCycles \subseteq Int
      BY <1>1, <1>2, CyclesInt DEF WriteCycles, ReadCycles, CommandCycles, IsReadPacket
<1>4. \A c \in Int : c + 0 = c
      OBVIOUS
<1>5. /\ \A c \in WriteCycles' : c \in Int /\ c + 0 \in WriteCycles
      /\ \A c \in ReadCycles' : c \in Int /\ c + 0 \in ReadCycles
      BY <1>3, <1>4
<1>6. ASSUME NEW b \in Banks
      PROVE  /\ nextRead'[0][b] + Slack' + 0 >= nextRead[0][b] + Slack
             /\ nextWrite'[0][b] + Slack' + 0 >= nextWrite[0][b] + Slack
  <2>1. /\ 0 \in Ranks /\ nextRead[0][b] \in Nat /\ nextWrite[0][b] \in Nat
        /\ nextRead'[0][b] \in Nat /\ nextWrite'[0][b] \in Nat
        BY DelayTypes
  <2>2. nextRead'[0][b] >= nextRead[0][b] - 1 /\ nextWrite'[0][b] >= nextWrite[0][b] - 1
        BY <1>1, <2>1, TickType DEF TypeOK
  <2>3. PICK m, n, v, w \in Nat : /\ m = nextRead[0][b] /\ n = nextRead'[0][b]
                                  /\ v = nextWrite[0][b] /\ w = nextWrite'[0][b]
        BY <2>1
  <2>4. n + 1 + 0 >= m + 0 /\ w + 1 + 0 >= v + 0
        BY <2>2, <2>3
  <2> QED BY <1>2, <2>3, <2>4
<1> QED BY <1>5, <1>6, PinsNext

\* The phases in which nothing moves that holds the pins.
LEMMA QuietPins ==
    ASSUME PinsShared, RankAhead' = RankAhead, CommandAhead' = CommandAhead, Slack' = Slack,
           UNCHANGED <<cmdBus, dataBus, writeDataToSend, nextRead, nextWrite, readReturn, rankBus>>
    PROVE  PinsShared'
BY DEF PinsShared, WriteCycles, ReadCycles, CommandCycles, IsReadPacket

\* The pins are free at the start.
LEMMA InitPins ==
    ASSUME OneRankConfig, Init
    PROVE  PinsShared
<1>1. 0 \in Ranks
      BY DEF OneRankConfig, Ranks
<1>2. /\ Len(cmdBus) = 0 /\ Len(dataBus) = 0 /\ Len(writeDataToSend) = 0
      /\ Len(readReturn[0]) = 0 /\ Len(rankBus[0]) = 0
      BY <1>1, EmptySeq DEF Init
<1>3. WriteCycles = {} /\ ReadCycles = {}
      BY <1>2 DEF WriteCycles, ReadCycles, CommandCycles, Held, Booked
<1> QED BY <1>3 DEF PinsShared

LEMMA NextPins ==
    ASSUME OneRankConfig, ReadsLeaveThePins, TypeOK, TypeOK', SpacedInv, ReadDataSpaced,
           PinsShared, [Next]_vars
    PROVE  PinsShared'
<1> USE DEF schedVars, busVars, bankVars, rankVars
<1>1. 0 \in Ranks
      BY DEF OneRankConfig, Ranks
<1>2. Len(dataBus) <= 1 /\ Len(cmdBus) <= 1 /\ Len(rankBus[0]) <= 1
      BY <1>1 DEF SpacedInv, WriteDataSpaced, ReadDataSpaced, CommandSpaced, RankSpaced
<1>3. CASE AddTransaction
      BY <1>3, QuietPins DEF AddTransaction, RankAhead, CommandAhead, Slack
<1>4. CASE AddPending
      BY <1>4, QuietPins DEF AddPending, RankAhead, CommandAhead, Slack
<1>5. CASE RankUpdate
      BY <1>2, <1>5, RankUpdatePins
<1>6. CASE DrainPending
      BY <1>6, QuietPins DEF DrainPending, Running, RankAhead, CommandAhead, Slack
<1>7. CASE CommandBus
      BY <1>2, <1>7, CommandBusPins
<1>8. CASE DataBus
      BY <1>2, <1>8, DataBusPins
<1>9. CASE IssueCommand
  <2>1. /\ phase = "issue" /\ phase' = "schedule"
        /\ UNCHANGED <<dataBus, readReturn, rankBus>>
        BY <1>9 DEF IssueCommand, Running
  <2>2. CASE UNCHANGED <<queues, cmdBus, writeDataToSend, bankVars, error>>
        BY <2>1, <2>2, QuietPins DEF RankAhead, CommandAhead, Slack
  <2>3. CASE \E r \in Ranks, b \in Banks : \E i \in 1 .. Len(queues[r][b]) : Pops(r, b, i)
        BY <2>1, <2>3, PopPins
  <2> QED BY <1>9, <2>2, <2>3, IssueMeans
<1>10. CASE ScheduleTransaction
       BY <1>10, QuietPins DEF ScheduleTransaction, Running, RankAhead, CommandAhead, Slack
<1>11. CASE ReturnRead
       BY <1>11, ReturnReadPins
<1>12. CASE UNCHANGED vars
       BY <1>12, QuietPins DEF vars, RankAhead, CommandAhead, Slack
<1> QED BY <1>3, <1>4, <1>5, <1>6, <1>7, <1>8, <1>9, <1>10, <1>11, <1>12 DEF Next, Cycle

\* Two packets on the pins would hold them in the present cycle.
LEMMA PinsExclusive ==
    ASSUME OneRankConfig, TypeOK, SpacedInv, ReadDataSpaced, PinsShared
    PROVE  DataBusExclusive
<1> SUFFICES ASSUME phase \in {"issue", "schedule", "return"}
             PROVE  Len(dataBus) + Cardinality({r \in Ranks : rankBus[r] # <<>>}) <= 1
    BY DEF DataBusExclusive
<1>1. Ranks = {0}
      BY DEF OneRankConfig, Ranks
<1>2. RankAhead = 0
      BY DEF RankAhead
<1>3. Len(dataBus) \in Nat /\ Len(dataBus) <= 1 /\ Len(rankBus[0]) \in Nat /\ Len(rankBus[0]) <= 1
      BY <1>1, TimedTypes, RankTypes
         DEF SpacedInv, WriteDataSpaced, ReadDataSpaced, RankSpaced
<1>4. Cardinality({}) = 0 /\ Cardinality({0}) = 1
      BY FS_EmptySet, FS_Singleton
<1>5. PICK d, m : d = Len(dataBus) /\ m = Len(rankBus[0])
      OBVIOUS
<1>6. d \in {0, 1} /\ m \in {0, 1}
  <2>1. d \in Nat /\ d <= 1 /\ m \in Nat /\ m <= 1
        BY <1>3, <1>5, Zenon
  <2> QED BY <2>1
<1>7. \A n \in {0, 1} : (n = 0 \/ d = 0) => d + n <= 1
      BY <1>6
<1>8. CASE rankBus[0] = <<>>
  <2>1. {r \in Ranks : rankBus[r] # <<>>} = {}
        BY <1>1, <1>8
  <2> QED BY <1>4, <1>5, <1>7, <2>1
<1>9. CASE rankBus[0] # <<>>
  <2>1. {r \in Ranks : rankBus[r] # <<>>} = {0}
        BY <1>1, <1>9
  <2>2. Len(rankBus[0]) = 1
    <3>1. m # 0
          BY <1>1, <1>9, <1>5, RankTypes, EmptySeq
    <3> QED BY <1>5, <1>6, <3>1
  <2>3. rankBus[0][1].left >= 1
        BY <1>1, <2>2 DEF ReadDataSpaced, RankSpaced
  <2>4. PICK x : x = rankBus[0][1].left
        OBVIOUS
  <2>5. x \in Int /\ x >= 1
        BY <1>1, <2>2, <2>3, <2>4, RankTypes
  <2>6. 0 \in Burst(0, x)
        BY <2>5 DEF Burst
  <2>7. 0 \in ReadCycles
        BY <1>2, <2>2, <2>4, <2>6 DEF ReadCycles, Held
  <2>8. ASSUME Len(dataBus) = 1 PROVE FALSE
    <3>1. dataBus # <<>>
          BY <2>8, EmptySeq
    <3>2. dataBus[1].left >= 1
          BY <3>1 DEF SpacedInv, WriteDataSpaced
    <3>3. PICK y : y = dataBus[1].left
          OBVIOUS
    <3>4. y \in Int /\ y >= 1
          BY <2>8, <3>2, <3>3, TimedTypes
    <3>5. 0 \in Burst(0, y)
          BY <3>4 DEF Burst
    <3>6. 0 \in WriteCycles
          BY <2>8, <3>3, <3>5 DEF WriteCycles, Held
    <3> QED BY <2>7, <3>6 DEF PinsShared
  <2>9. Len(dataBus) = 0
        BY <1>5, <1>6, <2>8
  <2> QED BY <1>4, <1>5, <1>7, <2>1, <2>9
<1> QED BY <1>8, <1>9

\* On a channel with one rank whose reads leave the pins before READ_TO_WRITE_DELAY
\* lets the data of a write come, the controller and the rank never drive the
\* data pins in the same cycle, whatever the addresses, queues, latencies and
\* burst length: MemoryController::update checks its own packets only, and need
\* not check those of the rank.
THEOREM PinsNeverShared ==
    ASSUME OneRankConfig, ReadsLeaveThePins
    PROVE  Spec => []DataBusExclusive
<1>1. ReadsKeepDistance
      BY OneRankKeepsDistance
<1>2. TypeOK /\ CountdownInv /\ ReadDataSpaced /\ [Next]_vars => ReadDataSpaced'
      BY <1>1, NextSpacedReads
<1>3. TypeOK /\ SpacedInv /\ [Next]_vars => SpacedInv'
      BY NextSpaced
<1>4. TypeOK /\ TypeOK' /\ SpacedInv /\ ReadDataSpaced /\ PinsShared /\ [Next]_vars
          => PinsShared'
      BY NextPins
<1>5. TypeOK /\ SpacedInv /\ ReadDataSpaced /\ PinsShared => DataBusExclusive
      BY PinsExclusive
<1>6. Init => PinsShared
      BY InitPins
<1> QED BY <1>2, <1>3, <1>4, <1>5, <1>6, InitType, NextType, InitCountdown, NextCountdown,
           InitSpaced, InitSpacedReads, PTL DEF Spec

(***************************************************************************)
(* No transaction is lost, and none is done twice                          *)
(***************************************************************************)
\* The data of a write has been on its way, or its command was in the queues.
LEMMA UnderWayBefore ==
    ASSUME TypeOK, QueueInv, WriteInv, [Next]_vars, NEW w, UnderWay(w)'
    PROVE  UnderWay(w) \/ Waiting(w)
<1> DEFINE wd == writeDataToSend
           db == dataBus
<1>1. CASE UNCHANGED <<writeDataToSend, dataBus>>
      BY <1>1 DEF UnderWay
<1>2. CASE IssueCommand
  <2>1. UNCHANGED <<dataBus, transactionQueue, accepted>>
        BY <1>2 DEF IssueCommand, mcVars, histVars
  <2>2. CASE \E r \in Ranks, b \in Banks : \E i \in 1 .. Len(queues[r][b]) : Pops(r, b, i)
    <3>1. PICK r \in Ranks, b \in Banks : \E i \in 1 .. Len(queues[r][b]) : Pops(r, b, i)
          BY <2>2
    <3>2. PICK i \in 1 .. Len(queues[r][b]) : Pops(r, b, i)
          BY <3>1
    <3>3. PICK p \in BusPacket : p = queues[r][b][i]
          BY QueueTypes
    <3>4. Waiting(p.id)
          BY <3>3 DEF Waiting
    <3>5. CASE wd' = wd
          BY <1>1, <2>1, <3>5
    <3>6. CASE wd' = Append(wd, WriteData(p))
      <4>1. /\ Len(wd') = Len(wd) + 1 /\ wd'[Len(wd) + 1] = WriteData(p) /\ Len(wd) \in Nat
            /\ \A j \in 1 .. Len(wd) : wd'[j] = wd[j]
            BY <3>3, <3>6, WriteDataType, AppendProperties, LenProperties DEF TypeOK
      <4>2. WriteData(p).packet.id = p.id
            BY DEF WriteData
      <4>3. \A j \in 1 .. Len(wd') : j \in 1 .. Len(wd) \/ j = Len(wd) + 1
            BY <4>1
      <4> QED BY <2>1, <3>4, <4>1, <4>2, <4>3 DEF UnderWay
    <3> QED BY <3>2, <3>3, <3>5, <3>6 DEF Pops
  <2> QED BY <1>1, <1>2, <2>1, <2>2, IssueMeans
<1>3. CASE DataBus
  <2>1. Len(db) <= 1
        BY DEF WriteInv
  <2>2. PICK k \in {0, 1} :
            /\ k = 1 => 1 \in 1 .. Len(wd)
                        /\ db' = <<[packet |-> wd[1].packet, left |-> DataCycles]>>
            /\ k = 0 => db' = AfterCountDown(db)
            /\ \A i \in 1 .. Len(wd') : i + k \in 1 .. Len(wd)
                                        /\ wd'[i].packet = wd[i + k].packet
        BY <1>3, <2>1, DataBusMeans
  <2>3. ASSUME NEW i \in 1 .. Len(wd'), wd'[i].packet.id = w PROVE UnderWay(w)
        BY <2>2, <2>3 DEF UnderWay
  <2>4. ASSUME NEW i \in 1 .. Len(db'), db'[i].packet.id = w PROVE UnderWay(w)
    <3>1. CASE k = 1
      <4>1. PICK x : x = [packet |-> wd[1].packet, left |-> DataCycles]
            OBVIOUS
      <4>2. db' = <<x>> /\ x.packet = wd[1].packet
            BY <2>2, <3>1, <4>1
      <4>3. i = 1 /\ db'[i] = x
            BY <4>2, OneEntry
      <4> QED BY <2>2, <2>4, <3>1, <4>2, <4>3 DEF UnderWay
    <3>2. CASE k = 0
      <4>0. db \in Seq([packet : DataPacket, left : Int])
            BY TimedTypes
      <4>1. \A j \in 1 .. Len(AfterCountDown(db)) :
                /\ j \in 1 .. Len(db) /\ db[j] \in [packet : DataPacket, left : Int]
                /\ AfterCountDown(db)[j].packet = db[j].packet
                /\ AfterCountDown(db)[j].left = db[j].left - 1 /\ db[j].left # 1
            BY <2>1, <4>0, BusAfter, Zenon
      <4>2. PICK after : after = AfterCountDown(db)
            OBVIOUS
      <4>3. db' = after
            BY <2>2, <3>2, <4>2
      <4>4. i \in 1 .. Len(db) /\ db'[i].packet = db[i].packet
            BY <2>4, <4>1, <4>2, <4>3
      <4> QED BY <2>4, <4>4 DEF UnderWay
    <3> QED BY <3>1, <3>2
  <2> QED BY <2>3, <2>4 DEF UnderWay
<1> QED BY <1>1, <1>2, <1>3
        DEF Next, Cycle, AddTransaction, AddPending, RankUpdate, DrainPending, CommandBus,
            ScheduleTransaction, ReturnRead, vars, busVars

\* A read that is pending was so before, or waited to be scheduled.
LEMMA PendingBefore ==
    ASSUME TypeOK, ReadsInLine, PendingInOrder, ReadsKept, [Next]_vars, NEW id, Pending(id)'
    PROVE  Pending(id) \/ Waiting(id)
<1> DEFINE s == pendingReadTransactions
<1>1. CASE s' = s
      BY <1>1 DEF Pending
<1>2. CASE ScheduleTransaction
  <2>1. CASE \E k \in 1 .. Len(transactionQueue) : Schedules(k)
    <3>1. PICK k \in 1 .. Len(transactionQueue) : Schedules(k)
          BY <2>1
    <3>2. PICK x \in Transaction : x = transactionQueue[k]
          BY QueueTypes
    <3>3. Waiting(x.id)
          BY <3>2 DEF Waiting
    <3>4. s' = s \/ s' = Append(s, x)
          BY <3>1, <3>2 DEF Schedules
    <3>5. CASE s' = Append(s, x)
      <4>1. /\ Len(s') = Len(s) + 1 /\ s'[Len(s) + 1] = x /\ Len(s) \in Nat
            /\ \A j \in 1 .. Len(s) : s'[j] = s[j]
            BY <3>5, PendingTypes, AppendProperties
      <4>2. \A j \in 1 .. Len(s') : j \in 1 .. Len(s) \/ j = Len(s) + 1
            BY <4>1
      <4> QED BY <3>3, <4>1, <4>2 DEF Pending
    <3> QED BY <1>1, <3>4, <3>5
  <2> QED BY <1>1, <1>2, <2>1, ScheduleMeans
<1>3. CASE ReturnRead
  <2>1. CASE returnTransaction = <<>>
        BY <1>1, <1>3, <2>1 DEF ReturnRead
  <2>2. CASE returnTransaction # <<>>
    <3>1. PICK ret : ret = returnTransaction[1]
          OBVIOUS
    <3>2. PICK i \in 1 .. Len(s) : s' = RemoveAt(s, i)
          BY <1>3, <2>2, <3>1, OwnRead
    <3>3. s \in Seq(Transaction)
          BY PendingTypes
    <3>4. \A k \in 1 .. Len(s') : \E j \in 1 .. Len(s) : s'[k] = s[j]
          BY <3>2, <3>3, RemainingEntries
    <3> QED BY <3>4 DEF Pending
  <2> QED BY <2>1, <2>2
<1> QED BY <1>1, <1>2, <1>3
        DEF Next, Cycle, AddTransaction, AddPending, RankUpdate, DrainPending, CommandBus,
            DataBus, IssueCommand, vars, mcVars

\* A write whose data has landed is nowhere else, and its number was not done before.
LEMMA LandedOnce ==
    ASSUME TypeOK, QueueInv, WriteInv, [Next]_vars, NEW id \in landed', id \notin landed
    PROVE  /\ id \in 1 .. Len(accepted) /\ ~IsRead(id) /\ ~Waiting(id)
           /\ ~UnderWay(id)'
<1> DEFINE wd == writeDataToSend
           db == dataBus
<1>1. DataBus
      BY DEF Next, Cycle, AddTransaction, AddPending, RankUpdate, DrainPending, CommandBus,
             IssueCommand, ScheduleTransaction, ReturnRead, vars, histVars
<1>2. Len(db) <= 1
      BY DEF WriteInv
<1>3. /\ 1 \in 1 .. Len(db) /\ AfterCountDown(db) = <<>>
      /\ landed' = landed \cup {db[1].packet.id}
      BY <1>1, <1>2, DataBusMeans
<1>4. PICK p : p = db[1].packet
      OBVIOUS
<1>5. OnItsWay(p) /\ NewerFrom(p, 1) /\ p.id = id
      BY <1>3, <1>4 DEF WriteInv
<1>6. id \in 1 .. Len(accepted) /\ ~IsRead(id) /\ accepted[id].address = p.address
      BY <1>5 DEF OnItsWay, Recorded
<1>7. ~Waiting(id)
      BY <1>5, <1>6 DEF OnItsWay, WaitingWrite
<1>8. \A i \in 1 .. Len(wd) : wd[i].packet.id # id
  <2> SUFFICES ASSUME NEW i \in 1 .. Len(wd), wd[i].packet.id = id PROVE FALSE
      OBVIOUS
  <2>1. Recorded(wd[i].packet)
        BY DEF WriteInv, OnItsWay
  <2>2. wd[i].packet.address = p.address
        BY <1>6, <2>1 DEF Recorded
  <2>3. p.id < wd[i].packet.id
        BY <1>5, <2>2 DEF NewerFrom
  <2> QED BY <1>5, <1>6, <2>3
<1>9. PICK k \in {0, 1} :
          /\ k = 1 => 1 \in 1 .. Len(wd)
                      /\ db' = <<[packet |-> wd[1].packet, left |-> DataCycles]>>
          /\ k = 0 => db' = AfterCountDown(db)
          /\ \A i \in 1 .. Len(wd') : i + k \in 1 .. Len(wd)
                                      /\ wd'[i].packet = wd[i + k].packet
      BY <1>1, <1>2, DataBusMeans
<1>10. \A i \in 1 .. Len(wd') : wd'[i].packet.id # id
       BY <1>8, <1>9
<1>11. \A i \in 1 .. Len(db') : db'[i].packet.id # id
  <2>1. CASE k = 0
        BY <1>3, <1>9, <2>1, EmptySeq
  <2>2. CASE k = 1
    <3>1. PICK x : x = [packet |-> wd[1].packet, left |-> DataCycles]
          OBVIOUS
    <3>2. db' = <<x>> /\ x.packet = wd[1].packet
          BY <1>9, <2>2, <3>1
    <3>3. \A i \in 1 .. Len(db') : db'[i] = x
          BY <3>2, OneEntry
    <3> QED BY <1>8, <1>9, <2>2, <3>2, <3>3
  <2> QED BY <2>1, <2>2
<1> QED BY <1>6, <1>7, <1>10, <1>11 DEF UnderWay

\* A read that is told to the CPU was pending, and is so no more.
LEMMA ReturnedOnce ==
    ASSUME TypeOK, QueueInv, ReadsInLine, PendingInOrder, ReadsKept, [Next]_vars,
           NEW c \in returned', c \notin returned
    PROVE  /\ c.packet \in 1 .. Len(accepted) /\ IsRead(c.packet) /\ ~Waiting(c.packet)
           /\ Pending(c.packet) /\ ~Pending(c.packet)' /\ returned' = returned \cup {c}
<1> DEFINE s == pendingReadTransactions
<1>1. ReturnRead /\ returnTransaction # <<>>
  <2>1. ReturnRead
        BY DEF Next, Cycle, AddTransaction, AddPending, RankUpdate, DrainPending, CommandBus,
               DataBus, IssueCommand, ScheduleTransaction, vars, histVars
  <2> QED BY <2>1 DEF ReturnRead
<1>2. PICK ret : ret = returnTransaction[1]
      OBVIOUS
<1>3. /\ returned' = returned \cup {[id |-> ret.id, packet |-> ret.id, data |-> ret.data]}
      /\ \E i \in 1 .. Len(s) : s[i].id = ret.id /\ s' = RemoveAt(s, i)
      BY <1>1, <1>2, OwnRead
<1>4. c.packet = ret.id
      BY <1>3
<1>5. Popped(ret)
      BY <1>1, <1>2, ReturnedFirst
<1>6. /\ ret.id \in 1 .. Len(accepted) /\ IsRead(ret.id) /\ accepted[ret.id].address = ret.address
      /\ ~Waiting(ret.id) /\ Pending(ret.id)
      BY <1>5 DEF Popped, Recorded
<1>7. PICK i \in 1 .. Len(s) : s[i].id = ret.id /\ s' = RemoveAt(s, i)
      BY <1>3
<1>8. s \in Seq(Transaction) /\ Len(s) \in Nat /\ \A k \in 1 .. Len(s) : s[k].id \in Nat
      BY PendingTypes
<1>9. ASSUME NEW j \in 1 .. Len(s), j # i PROVE s[j].id # ret.id
  <2> SUFFICES ASSUME s[j].id = ret.id PROVE FALSE
      OBVIOUS
  <2>1. \A k \in 1 .. Len(s) : \A m \in k + 1 .. Len(s) :
            s[m].address = s[k].address => s[k].id < s[m].id
        BY DEF PendingInOrder
  <2>2. Recorded(s[i]) /\ Recorded(s[j])
        BY DEF PendingInOrder
  <2>3. s[i].address = s[j].address
        BY <1>7, <2>2 DEF Recorded
  <2>4. i \in j + 1 .. Len(s) \/ j \in i + 1 .. Len(s)
        BY <1>8, <1>9
  <2> QED BY <1>7, <1>8, <2>1, <2>3, <2>4
<1>10. \A k \in 1 .. Len(s') : \E j \in 1 .. Len(s) : j # i /\ s'[k] = s[j]
  <2>1. PICK rest : rest = RemoveAt(s, i)
        OBVIOUS
  <2>2. \A k \in 1 .. Len(rest) : \E j \in 1 .. Len(s) : j # i /\ rest[k] = s[j]
        BY <1>7, <1>8, <2>1, RemainingEntries, ZenonT(60)
  <2>3. s' = rest
        BY <1>7, <2>1
  <2> QED BY <2>2, <2>3
<1>11. ~Pending(ret.id)'
       BY <1>9, <1>10 DEF Pending
<1>12. PICK id : id = ret.id
       OBVIOUS
<1>13. PICK x : x = [id |-> ret.id, packet |-> ret.id, data |-> ret.data]
       OBVIOUS
<1>14. returned' = returned \cup {c}
       BY <1>3, <1>13
<1> QED BY <1>4, <1>6, <1>11, <1>12, <1>14 DEF Pending

\* What is done stays so, and comes back to no place.
LEMMA NextDone ==
    ASSUME TypeOK, QueueInv, WriteInv, LineInv, DoneOnce, [Next]_vars
    PROVE  DoneOnce'
<1>1. /\ Len(accepted) \in Nat /\ Len(accepted') \in Nat /\ Len(accepted) <= Len(accepted')
      /\ \A id \in 1 .. Len(accepted) : accepted'[id] = accepted[id]
      /\ \A w \in 1 .. Len(accepted) : Waiting(w)' => Waiting(w)
      BY HistoryGrows
<1>2. ReadsInLine /\ PendingInOrder /\ ReadsKept
      BY DEF LineInv
<1>3. ASSUME NEW id \in 1 .. Len(accepted), ~Waiting(id)
      PROVE  id \in 1 .. Len(accepted') /\ ~Waiting(id)' /\ (IsRead(id)' <=> IsRead(id))
      BY <1>1, <1>3 DEF IsRead
<1>4. ASSUME NEW id \in landed'
      PROVE  id \in 1 .. Len(accepted') /\ ~IsRead(id)' /\ ~Waiting(id)' /\ ~UnderWay(id)'
  <2>1. CASE id \in landed
    <3>1. id \in 1 .. Len(accepted) /\ ~IsRead(id) /\ ~Waiting(id) /\ ~UnderWay(id)
          BY <2>1 DEF DoneOnce
    <3>2. ~UnderWay(id)'
          BY <3>1, UnderWayBefore
    <3> QED BY <1>3, <3>1, <3>2
  <2>2. CASE id \notin landed
        BY <1>3, <2>2, LandedOnce
  <2> QED BY <2>1, <2>2
<1>5. ASSUME NEW c \in returned', NEW id, id = c.packet
      PROVE  id \in 1 .. Len(accepted') /\ IsRead(id)' /\ ~Waiting(id)' /\ ~Pending(id)'
  <2>1. CASE c \in returned
    <3>1. id \in 1 .. Len(accepted) /\ IsRead(id) /\ ~Waiting(id) /\ ~Pending(id)
          BY <1>5, <2>1 DEF DoneOnce
    <3>2. ~Pending(id)'
          BY <1>2, <3>1, PendingBefore
    <3> QED BY <1>3, <3>1, <3>2
  <2>2. CASE c \notin returned
    <3>1. /\ c.packet \in 1 .. Len(accepted) /\ IsRead(c.packet) /\ ~Waiting(c.packet)
          /\ ~Pending(c.packet)'
          BY <1>2, <2>2, ReturnedOnce
    <3>2. ~Pending(id)'
          BY <1>5, <3>1 DEF Pending
    <3> QED BY <1>3, <1>5, <3>1, <3>2
  <2> QED BY <2>1, <2>2
<1>6. ASSUME NEW c \in returned', NEW d \in returned', d.packet = c.packet
      PROVE  d = c
  <2>1. CASE c \in returned /\ d \in returned
        BY <1>6, <2>1 DEF DoneOnce
  <2>2. ASSUME NEW e \in returned, NEW f \in returned', f \notin returned
        PROVE  e.packet # f.packet
    <3>1. Pending(f.packet)
          BY <1>2, <2>2, ReturnedOnce
    <3>2. ~Pending(e.packet)
          BY DEF DoneOnce
    <3> QED BY <3>1, <3>2
  <2>3. CASE c \notin returned /\ d \notin returned
    <3>1. returned' = returned \cup {c}
          BY <1>2, <2>3, ReturnedOnce
    <3> QED BY <2>3, <3>1
  <2> QED BY <1>6, <2>1, <2>2, <2>3
<1> QED BY <1>4, <1>5, <1>6 DEF DoneOnce, IsRead, Waiting, Pending

\* A read that is returned stays among the returned ones, and the others stay
\* pending.
LEMMA PendingKeeps ==
    ASSUME TypeOK, ReadsInLine, PendingInOrder, ReadsKept, [Next]_vars
    PROVE  \A id : Pending(id) => Pending(id)' \/ Returned(id)'
<1> DEFINE s == pendingReadTransactions
<1> SUFFICES ASSUME NEW id, Pending(id) PROVE Pending(id)' \/ Returned(id)'
    OBVIOUS
<1>1. CASE s' = s
      BY <1>1 DEF Pending
<1>2. CASE ScheduleTransaction
  <2>1. CASE \E k \in 1 .. Len(transactionQueue) : Schedules(k)
        BY <2>1, SchedulePends
  <2> QED BY <1>1, <1>2, <2>1, ScheduleMeans
<1>3. CASE ReturnRead
  <2>1. CASE returnTransaction = <<>>
        BY <1>1, <1>3, <2>1 DEF ReturnRead
  <2>2. CASE returnTransaction # <<>>
    <3>1. PICK ret : ret = returnTransaction[1]
          OBVIOUS
    <3>2. /\ returned' = returned \cup {[id |-> ret.id, packet |-> ret.id, data |-> ret.data]}
          /\ \E i \in 1 .. Len(s) : s[i].id = ret.id /\ s' = RemoveAt(s, i)
          BY <1>3, <2>2, <3>1, OwnRead
    <3>3. CASE id = ret.id
      <4>1. PICK c : c = [id |-> ret.id, packet |-> ret.id, data |-> ret.data]
            OBVIOUS
      <4>2. c \in returned' /\ c.packet = id
            BY <3>2, <3>3, <4>1
      <4> QED BY <4>2 DEF Returned
    <3>4. CASE id # ret.id
      <4>1. PICK i \in 1 .. Len(s) : s[i].id = ret.id /\ s' = RemoveAt(s, i)
            BY <3>2
      <4>2. PICK j \in 1 .. Len(s) : s[j].id = id
            BY DEF Pending
      <4>3. PICK rest : rest = RemoveAt(s, i)
            OBVIOUS
      <4>4. \A m \in 1 .. Len(s) : m # i => \E k \in 1 .. Len(rest) : rest[k] = s[m]
            BY <4>3, PendingTypes, RemainingEntries, ZenonT(60)
      <4>5. PICK k \in 1 .. Len(rest) : rest[k] = s[j]
            BY <3>4, <4>1, <4>2, <4>4
      <4> QED BY <4>1, <4>2, <4>3, <4>5 DEF Pending
    <3> QED BY <3>3, <3>4
  <2> QED BY <2>1, <2>2
<1> QED BY <1>1, <1>2, <1>3
        DEF Next, Cycle, AddTransaction, AddPending, RankUpdate, DrainPending, CommandBus,
            DataBus, IssueCommand, ScheduleTransaction, ReturnRead, vars, mcVars

\* A write that is under way stays so, or its data is written.
LEMMA UnderWayKeeps ==
    ASSUME TypeOK, QueueInv, WriteInv, [Next]_vars, error' = "none", error = "none",
           NEW w \in 1 .. Len(accepted), ~IsRead(w), UnderWay(w)
    PROVE  UnderWay(w)' \/ w \in landed'
<1>1. CASE UNCHANGED <<dataBus, writeDataToSend>>
      BY <1>1 DEF UnderWay
<1>2. CASE IssueCommand
  <2>1. UNCHANGED <<transactionQueue, accepted, dataBus>>
        BY <1>2 DEF IssueCommand, mcVars, histVars
  <2>2. CASE \E r \in Ranks, b \in Banks : \E i \in 1 .. Len(queues[r][b]) : Pops(r, b, i)
        BY <2>1, <2>2, PopKeeps
  <2> QED BY <1>1, <1>2, <2>1, <2>2, IssueMeans
<1>3. CASE DataBus
      BY <1>3, DataBusKeeps
<1> QED BY <1>1, <1>2, <1>3
        DEF Next, Cycle, AddTransaction, AddPending, RankUpdate, DrainPending, CommandBus,
            ScheduleTransaction, ReturnRead, vars, busVars

\* A transaction that waits goes on waiting, or is on its way.
LEMMA WaitingKeeps ==
    ASSUME TypeOK, QueueInv, WriteInv, LineInv, [Next]_vars,
           NEW w \in 1 .. Len(accepted), Waiting(w)
    PROVE  Waiting(w)' \/ (IF IsRead(w) THEN Pending(w)' ELSE UnderWay(w)')
<1>1. CASE UNCHANGED <<transactionQueue, queues>>
      BY <1>1, QuietWaiting
<1>2. CASE AddTransaction \/ DrainPending
  <2>1. CASE \E req \in Request : Accept(req)
        BY <1>2, <2>1, ArrivalMeans, ArrivalWaiting
  <2> QED BY <1>1, <1>2, <2>1, ArrivalMeans
<1>3. CASE ScheduleTransaction
  <2>1. CASE \E k \in 1 .. Len(transactionQueue) : Schedules(k)
        BY <2>1, ScheduleWaiting
  <2> QED BY <1>1, <1>3, <2>1, ScheduleMeans
<1>4. CASE IssueCommand
  <2>1. UNCHANGED <<transactionQueue, accepted, dataBus, pendingReadTransactions>>
        BY <1>4 DEF IssueCommand, mcVars, histVars
  <2>2. CASE \E r \in Ranks, b \in Banks : \E i \in 1 .. Len(queues[r][b]) : Pops(r, b, i)
    <3>1. CASE ~IsRead(w)
          BY <2>1, <2>2, <3>1, PopKeeps
    <3>2. CASE IsRead(w)
      <4>1. PICK r \in Ranks, b \in Banks : \E i \in 1 .. Len(queues[r][b]) : Pops(r, b, i)
            BY <2>2
      <4>2. PICK i \in 1 .. Len(queues[r][b]) : Pops(r, b, i)
            BY <4>1
      <4>3. PICK p : p = queues[r][b][i]
            OBVIOUS
      <4>4. PICK id : id = p.id
            OBVIOUS
      <4>5. w # id => Waiting(w)'
            BY <2>1, <4>2, <4>3, <4>4, PopWaiting
      <4>6. IsReadPacket(p) <=> IsRead(id)
            BY <4>3, <4>4 DEF QueueInv
      <4>7. IsReadPacket(p) => Pending(id)
            BY <4>3, <4>4 DEF LineInv, PendingInOrder
      <4>8. Pending(id)' <=> Pending(id)
            BY <2>1 DEF Pending
      <4> QED BY <3>2, <4>5, <4>6, <4>7, <4>8
    <3> QED BY <3>1, <3>2
  <2> QED BY <1>1, <1>4, <2>1, <2>2, IssueMeans
<1> QED BY <1>1, <1>2, <1>3, <1>4
        DEF Next, Cycle, AddPending, RankUpdate, CommandBus, DataBus, ReturnRead, vars, mcVars, queueVars

\* What was accepted is waiting, on its way or done.
LEMMA NextNoneLost ==
    ASSUME TypeOK, QueueInv, WriteInv, LineInv, NoneLost, [Next]_vars
    PROVE  NoneLost'
<1> SUFFICES ASSUME error' = "none", NEW w \in 1 .. Len(accepted')
             PROVE  \/ Waiting(w)'
                    \/ IF IsRead(w)' THEN Pending(w)' \/ Returned(w)'
                                     ELSE UnderWay(w)' \/ w \in landed'
    BY DEF NoneLost
<1>1. /\ Len(accepted) \in Nat /\ Len(accepted') \in Nat /\ Len(accepted) <= Len(accepted')
      /\ \A id \in 1 .. Len(accepted) : accepted'[id] = accepted[id]
      BY HistoryGrows
<1>2. error = "none"
      BY DEF Next, Cycle, AddTransaction, AddPending, RankUpdate, DrainPending, CommandBus,
             DataBus, IssueCommand, ScheduleTransaction, ReturnRead, Running, BetweenCycles,
             vars
<1>3. CASE w \in 1 .. Len(accepted)
  <2>1. IsRead(w)' <=> IsRead(w)
        BY <1>1, <1>3 DEF IsRead
  <2>2. CASE Waiting(w)
        BY <1>3, <2>1, <2>2, WaitingKeeps
  <2>3. CASE IsRead(w) /\ Pending(w)
        BY <2>1, <2>3, PendingKeeps DEF LineInv
  <2>4. CASE IsRead(w) /\ Returned(w)
    <3>1. returned \subseteq returned'
      <4>1. CASE ReturnRead
        <5>1. CASE returnTransaction = <<>>
              BY <4>1, <5>1 DEF ReturnRead
        <5>2. CASE returnTransaction # <<>>
              BY <4>1, <5>2, OwnRead DEF LineInv
        <5> QED BY <5>1, <5>2
      <4> QED BY <4>1
              DEF Next, Cycle, AddTransaction, AddPending, RankUpdate, DrainPending,
                  CommandBus, DataBus, IssueCommand, ScheduleTransaction, Accept, vars, histVars
    <3> QED BY <2>1, <2>4, <3>1 DEF Returned
  <2>5. CASE ~IsRead(w) /\ UnderWay(w)
        BY <1>2, <1>3, <2>1, <2>5, UnderWayKeeps
  <2>6. CASE ~IsRead(w) /\ w \in landed
    <3>1. landed \subseteq landed'
      <4>1. CASE DataBus
        <5>1. Len(dataBus) <= 1
              BY DEF WriteInv
        <5> QED BY <4>1, <5>1, DataBusMeans
      <4> QED BY <4>1
              DEF Next, Cycle, AddTransaction, AddPending, RankUpdate, DrainPending, CommandBus,
                  IssueCommand, ScheduleTransaction, ReturnRead, Accept, vars, histVars
    <3> QED BY <2>1, <2>6, <3>1
  <2> QED BY <1>2, <1>3, <2>2, <2>3, <2>4, <2>5, <2>6 DEF NoneLost
<1>4. CASE w \notin 1 .. Len(accepted)
  <2>1. CASE AddTransaction \/ DrainPending
    <3>1. CASE UNCHANGED accepted
          BY <1>4, <3>1
    <3>2. CASE \E req \in Request : Accept(req)
      <4>1. PICK req \in Request : Accept(req)
            BY <3>2
      <4>2. Len(accepted') = Len(accepted) + 1
            BY <4>1, AcceptMeans
      <4>3. w = Len(accepted) + 1
            BY <1>1, <1>4, <4>2
      <4> QED BY <2>1, <4>1, <4>3, ArrivalMeans, ArrivalWaiting
    <3> QED BY <2>1, <3>1, <3>2, ArrivalMeans
  <2>2. CASE ~(AddTransaction \/ DrainPending)
    <3>1. accepted' = accepted
          BY <2>2
             DEF Next, Cycle, AddPending, RankUpdate, CommandBus, DataBus, IssueCommand,
                 ScheduleTransaction, ReturnRead, vars, histVars
    <3> QED BY <1>4, <3>1
  <2> QED BY <2>1, <2>2
<1> QED BY <1>3, <1>4

\* Nothing was accepted and nothing is done at the start.
LEMMA InitDone == Init => DoneOnce /\ NoneLost
<1>1. Init => landed = {} /\ returned = {} /\ Len(accepted) = 0
      BY EmptySeq DEF Init
<1> QED BY <1>1 DEF DoneOnce, NoneLost

\* Where a transaction is: an element of PlacesOf, by what it is doing there.
At(kind, r, b, i) == <<<<kind, r, b>>, i>>
WaitsAt(x, id) ==
    \/ \E i \in 1 .. Len(transactionQueue) :
           x = At("transactions", 0, 0, i) /\ transactionQueue[i].id = id
    \/ \E r \in Ranks, b \in Banks : \E i \in 1 .. Len(queues[r][b]) :
           x = At("queue", r, b, i) /\ queues[r][b][i].id = id
WritesAt(x, id) ==
    \/ \E i \in 1 .. Len(writeDataToSend) :
           x = At("write data", 0, 0, i) /\ writeDataToSend[i].packet.id = id
    \/ \E i \in 1 .. Len(dataBus) :
           x = At("data bus", 0, 0, i) /\ dataBus[i].packet.id = id
ReadsAt(x, id) ==
    \/ \E i \in 1 .. Len(cmdBus) :
           /\ x = At("command", 0, 0, i)
           /\ IsReadPacket(cmdBus[i].packet) /\ cmdBus[i].packet.id = id
    \/ \E r \in Ranks : \E i \in 1 .. Len(readReturn[r]) :
           x = At("countdown", r, 0, i) /\ readReturn[r][i].packet.id = id
    \/ \E r \in Ranks : \E i \in 1 .. Len(rankBus[r]) :
           x = At("rank bus", r, 0, i) /\ rankBus[r][i].packet.id = id
    \/ \E i \in 1 .. Len(returnTransaction) :
           x = At("returned", 0, 0, i) /\ returnTransaction[i].id = id
DoneAt(x, id) == x = At("done", 0, 0, 1) /\ Done(id)

\* The places of a channel, and what is in them, spelled out.
PlainKind == {"transactions", "command", "write data", "data bus", "returned", "done"}

LEMMA PlaceKinds ==
    /\ \A place \in Place :
           \/ \E kind \in PlainKind : place = <<kind, 0, 0>>
           \/ \E r \in Ranks, b \in Banks : place = <<"queue", r, b>>
           \/ \E r \in Ranks : place = <<"countdown", r, 0>> \/ place = <<"rank bus", r, 0>>
    /\ \A kind \in PlainKind : <<kind, 0, 0>> \in Place
    /\ \A r \in Ranks, b \in Banks : <<"queue", r, b>> \in Place
    /\ \A r \in Ranks : <<"countdown", r, 0>> \in Place /\ <<"rank bus", r, 0>> \in Place
<1>1. ASSUME NEW place \in Place
      PROVE  \/ \E kind \in PlainKind : place = <<kind, 0, 0>>
             \/ \E r \in Ranks, b \in Banks : place = <<"queue", r, b>>
             \/ \E r \in Ranks : \/ place = <<"countdown", r, 0>>
                               \/ place = <<"rank bus", r, 0>>
  <2>1. CASE place \in PlainKind \X {0} \X {0}
    <3>1. place = <<place[1], place[2], place[3]>>
          BY <2>1
    <3>2. place[1] \in PlainKind /\ place[2] = 0 /\ place[3] = 0
          BY <2>1
    <3> QED BY <3>1, <3>2
  <2>2. CASE place \in {"queue"} \X Ranks \X Banks
    <3>1. place = <<place[1], place[2], place[3]>>
          BY <2>2
    <3>2. place[1] = "queue" /\ place[2] \in Ranks /\ place[3] \in Banks
          BY <2>2
    <3> QED BY <3>1, <3>2
  <2>3. CASE place \in {"countdown", "rank bus"} \X Ranks \X {0}
    <3>1. \/ place \in {"countdown"} \X Ranks \X {0}
          \/ place \in {"rank bus"} \X Ranks \X {0}
          BY <2>3
    <3>2. ASSUME NEW kind, place \in {kind} \X Ranks \X {0}
          PROVE  \E r \in Ranks : place = <<kind, r, 0>>
      <4>1. place = <<place[1], place[2], place[3]>>
            BY <3>2
      <4>2. place[1] = kind /\ place[2] \in Ranks /\ place[3] = 0
            BY <3>2
      <4> QED BY <4>1, <4>2
    <3> QED BY <3>1, <3>2
  <2> QED BY <2>1, <2>2, <2>3 DEF Place, PlainKind
<1>2. /\ \A kind \in PlainKind : <<kind, 0, 0>> \in Place
      /\ \A r \in Ranks, b \in Banks : <<"queue", r, b>> \in Place
      /\ \A r \in Ranks : <<"countdown", r, 0>> \in Place /\ <<"rank bus", r, 0>> \in Place
      BY DEF Place, PlainKind
<1> QED BY <1>1, <1>2

LEMMA StandingKinds ==
    ASSUME NEW id, NEW r, NEW b
    PROVE  /\ Standing(<<"transactions", 0, 0>>, id) = Positions(transactionQueue, id)
           /\ Standing(<<"queue", r, b>>, id) = Positions(queues[r][b], id)
           /\ Standing(<<"command", 0, 0>>, id) =
                  {i \in TimedPositions(cmdBus, id) : IsReadPacket(cmdBus[i].packet)}
           /\ Standing(<<"write data", 0, 0>>, id) = TimedPositions(writeDataToSend, id)
           /\ Standing(<<"data bus", 0, 0>>, id) = TimedPositions(dataBus, id)
           /\ Standing(<<"countdown", r, 0>>, id) = TimedPositions(readReturn[r], id)
           /\ Standing(<<"rank bus", r, 0>>, id) = TimedPositions(rankBus[r], id)
           /\ Standing(<<"returned", 0, 0>>, id) = Positions(returnTransaction, id)
           /\ Standing(<<"done", 0, 0>>, id) = IF Done(id) THEN {1} ELSE {}
BY DEF Standing, IsReadPacket

LEMMA Whereabouts ==
    ASSUME NEW id, NEW x
    PROVE  x \in PlacesOf(id) <=>
               WaitsAt(x, id) \/ WritesAt(x, id) \/ ReadsAt(x, id) \/ DoneAt(x, id)
<1>1. x \in PlacesOf(id) <=> \E place \in Place : \E i \in Standing(place, id) : x = <<place, i>>
      BY DEF PlacesOf
<1>2. ASSUME NEW place \in Place, NEW i \in Standing(place, id), x = <<place, i>>
      PROVE  WaitsAt(x, id) \/ WritesAt(x, id) \/ ReadsAt(x, id) \/ DoneAt(x, id)
  <2>1. CASE place = <<"transactions", 0, 0>>
        BY <1>2, <2>1, StandingKinds DEF Positions, WaitsAt, At
  <2>2. CASE \E r \in Ranks, b \in Banks : place = <<"queue", r, b>>
    <3>1. PICK r \in Ranks, b \in Banks : place = <<"queue", r, b>>
          BY <2>2
    <3>2. Standing(<<"queue", r, b>>, id) = Positions(queues[r][b], id)
          BY StandingKinds, Zenon
    <3>3. i \in 1 .. Len(queues[r][b]) /\ queues[r][b][i].id = id
          BY <1>2, <3>1, <3>2 DEF Positions
    <3> QED BY <1>2, <3>1, <3>3 DEF WaitsAt, At
  <2>3. CASE place = <<"command", 0, 0>>
        BY <1>2, <2>3, StandingKinds DEF TimedPositions, ReadsAt, At
  <2>4. CASE place = <<"write data", 0, 0>>
        BY <1>2, <2>4, StandingKinds DEF TimedPositions, WritesAt, At
  <2>5. CASE place = <<"data bus", 0, 0>>
        BY <1>2, <2>5, StandingKinds DEF TimedPositions, WritesAt, At
  <2>6. CASE \E r \in Ranks : place = <<"countdown", r, 0>>
    <3>1. PICK r \in Ranks : place = <<"countdown", r, 0>>
          BY <2>6
    <3>2. Standing(<<"countdown", r, 0>>, id) = TimedPositions(readReturn[r], id)
          BY StandingKinds, Zenon
    <3>3. i \in 1 .. Len(readReturn[r]) /\ readReturn[r][i].packet.id = id
          BY <1>2, <3>1, <3>2 DEF TimedPositions
    <3> QED BY <1>2, <3>1, <3>3 DEF ReadsAt, At
  <2>7. CASE \E r \in Ranks : place = <<"rank bus", r, 0>>
    <3>1. PICK r \in Ranks : place = <<"rank bus", r, 0>>
          BY <2>7
    <3>2. Standing(<<"rank bus", r, 0>>, id) = TimedPositions(rankBus[r], id)
          BY StandingKinds, Zenon
    <3>3. i \in 1 .. Len(rankBus[r]) /\ rankBus[r][i].packet.id = id
          BY <1>2, <3>1, <3>2 DEF TimedPositions
    <3> QED BY <1>2, <3>1, <3>3 DEF ReadsAt, At
  <2>8. CASE place = <<"returned", 0, 0>>
        BY <1>2, <2>8, StandingKinds DEF Positions, ReadsAt, At
  <2>9. CASE place = <<"done", 0, 0>>
        BY <1>2, <2>9, StandingKinds DEF DoneAt, At
  <2>10. \/ \E kind \in PlainKind : place = <<kind, 0, 0>>
         \/ \E r \in Ranks, b \in Banks : place = <<"queue", r, b>>
         \/ \E r \in Ranks : place = <<"countdown", r, 0>> \/ place = <<"rank bus", r, 0>>
         BY PlaceKinds, Zenon
  <2> QED BY <2>1, <2>2, <2>3, <2>4, <2>5, <2>6, <2>7, <2>8, <2>9, <2>10 DEF PlainKind
<1>3. ASSUME WaitsAt(x, id)
      PROVE  \E place \in Place : \E i \in Standing(place, id) : x = <<place, i>>
  <2>1. ASSUME NEW i \in 1 .. Len(transactionQueue), x = At("transactions", 0, 0, i),
               transactionQueue[i].id = id
        PROVE  \E place \in Place : i \in Standing(place, id) /\ x = <<place, i>>
    <3>1. <<"transactions", 0, 0>> \in Place /\ i \in Standing(<<"transactions", 0, 0>>, id)
          BY <2>1, PlaceKinds, StandingKinds DEF Positions, PlainKind
    <3> QED BY <2>1, <3>1 DEF At
  <2>2. ASSUME NEW r \in Ranks, NEW b \in Banks, NEW i \in 1 .. Len(queues[r][b]),
               x = At("queue", r, b, i), queues[r][b][i].id = id
        PROVE  \E place \in Place : i \in Standing(place, id) /\ x = <<place, i>>
    <3>1. Standing(<<"queue", r, b>>, id) = Positions(queues[r][b], id) /\ <<"queue", r, b>> \in Place
          BY PlaceKinds, StandingKinds, Zenon
    <3>2. i \in Standing(<<"queue", r, b>>, id)
          BY <2>2, <3>1 DEF Positions
    <3> QED BY <2>2, <3>1, <3>2 DEF At
  <2> QED BY <1>3, <2>1, <2>2 DEF WaitsAt
<1>4. ASSUME WritesAt(x, id)
      PROVE  \E place \in Place : \E i \in Standing(place, id) : x = <<place, i>>
  <2>1. ASSUME NEW i \in 1 .. Len(writeDataToSend), x = At("write data", 0, 0, i),
               writeDataToSend[i].packet.id = id
        PROVE  \E place \in Place : i \in Standing(place, id) /\ x = <<place, i>>
    <3>1. <<"write data", 0, 0>> \in Place /\ i \in Standing(<<"write data", 0, 0>>, id)
          BY <2>1, PlaceKinds, StandingKinds DEF TimedPositions, PlainKind
    <3> QED BY <2>1, <3>1 DEF At
  <2>2. ASSUME NEW i \in 1 .. Len(dataBus), x = At("data bus", 0, 0, i),
               dataBus[i].packet.id = id
        PROVE  \E place \in Place : i \in Standing(place, id) /\ x = <<place, i>>
    <3>1. <<"data bus", 0, 0>> \in Place /\ i \in Standing(<<"data bus", 0, 0>>, id)
          BY <2>2, PlaceKinds, StandingKinds DEF TimedPositions, PlainKind
    <3> QED BY <2>2, <3>1 DEF At
  <2> QED BY <1>4, <2>1, <2>2 DEF WritesAt
<1>5. ASSUME ReadsAt(x, id)
      PROVE  \E place \in Place : \E i \in Standing(place, id) : x = <<place, i>>
  <2>1. ASSUME NEW i \in 1 .. Len(cmdBus), x = At("command", 0, 0, i),
               IsReadPacket(cmdBus[i].packet), cmdBus[i].packet.id = id
        PROVE  \E place \in Place : i \in Standing(place, id) /\ x = <<place, i>>
    <3>1. <<"command", 0, 0>> \in Place /\ i \in Standing(<<"command", 0, 0>>, id)
          BY <2>1, PlaceKinds, StandingKinds DEF TimedPositions, PlainKind
    <3> QED BY <2>1, <3>1 DEF At
  <2>2. ASSUME NEW r \in Ranks, NEW i \in 1 .. Len(readReturn[r]),
               x = At("countdown", r, 0, i), readReturn[r][i].packet.id = id
        PROVE  \E place \in Place : i \in Standing(place, id) /\ x = <<place, i>>
    <3>1. Standing(<<"countdown", r, 0>>, id) = TimedPositions(readReturn[r], id) /\ <<"countdown", r, 0>> \in Place
          BY PlaceKinds, StandingKinds, Zenon
    <3>2. i \in Standing(<<"countdown", r, 0>>, id)
          BY <2>2, <3>1 DEF TimedPositions
    <3> QED BY <2>2, <3>1, <3>2 DEF At
  <2>3. ASSUME NEW r \in Ranks, NEW i \in 1 .. Len(rankBus[r]),
               x = At("rank bus", r, 0, i), rankBus[r][i].packet.id = id
        PROVE  \E place \in Place : i \in Standing(place, id) /\ x = <<place, i>>
    <3>1. Standing(<<"rank bus", r, 0>>, id) = TimedPositions(rankBus[r], id) /\ <<"rank bus", r, 0>> \in Place
          BY PlaceKinds, StandingKinds, Zenon
    <3>2. i \in Standing(<<"rank bus", r, 0>>, id)
          BY <2>3, <3>1 DEF TimedPositions
    <3> QED BY <2>3, <3>1, <3>2 DEF At
  <2>4. ASSUME NEW i \in 1 .. Len(returnTransaction), x = At("returned", 0, 0, i),
               returnTransaction[i].id = id
        PROVE  \E place \in Place : i \in Standing(place, id) /\ x = <<place, i>>
    <3>1. <<"returned", 0, 0>> \in Place /\ i \in Standing(<<"returned", 0, 0>>, id)
          BY <2>4, PlaceKinds, StandingKinds DEF Positions, PlainKind
    <3> QED BY <2>4, <3>1 DEF At
  <2> QED BY <1>5, <2>1, <2>2, <2>3, <2>4 DEF ReadsAt
<1>6. ASSUME DoneAt(x, id)
      PROVE  \E place \in Place : \E i \in Standing(place, id) : x = <<place, i>>
  <2>1. <<"done", 0, 0>> \in Place /\ 1 \in Standing(<<"done", 0, 0>>, id)
        BY <1>6, PlaceKinds, StandingKinds DEF DoneAt, PlainKind
  <2> QED BY <1>6, <2>1 DEF DoneAt, At
<1> QED BY <1>1, <1>2, <1>3, <1>4, <1>5, <1>6

\* A transaction waits in one place.
LEMMA WaitsOnce ==
    ASSUME TypeOK, QueueInv, NEW id, NEW x, NEW y, WaitsAt(x, id), WaitsAt(y, id)
    PROVE  x = y
<1>1. ASSUME NEW i \in 1 .. Len(transactionQueue), NEW j \in 1 .. Len(transactionQueue),
             transactionQueue[i].id = id, transactionQueue[j].id = id
      PROVE  i = j
  <2>1. /\ transactionQueue \in Seq(Transaction)
        /\ \A k \in 1 .. Len(transactionQueue) : transactionQueue[k].id \in Nat
        /\ Increasing(transactionQueue)
        BY QueueTypes DEF QueueInv
  <2> QED BY <1>1, <2>1, IncreasingUnique
<1>2. ASSUME NEW r \in Ranks, NEW b \in Banks, NEW i \in 1 .. Len(queues[r][b]),
             queues[r][b][i].id = id, NEW j \in 1 .. Len(transactionQueue)
      PROVE  transactionQueue[j].id # id
  <2> SUFFICES ASSUME transactionQueue[j].id = id PROVE FALSE
      OBVIOUS
  <2>1. PICK p : p = queues[r][b][i]
        OBVIOUS
  <2>2. PICK t : t = transactionQueue[j]
        OBVIOUS
  <2>3. /\ Recorded(p) /\ Recorded(t) /\ SlotOf(p) = <<r, b>> /\ p.id \in Nat
        /\ SlotOf(t) = <<r, b>> => p.id < t.id
        BY <2>1, <2>2, QueueTypes DEF QueueInv
  <2>4. p.address = t.address
        BY <1>2, <2>1, <2>2, <2>3 DEF Recorded
  <2>5. SlotOf(t) = SlotOf(p)
        BY <2>4 DEF SlotOf, RankOf, BankOf
  <2> QED BY <1>2, <2>1, <2>2, <2>3, <2>5
<1>3. ASSUME NEW r \in Ranks, NEW b \in Banks, NEW i \in 1 .. Len(queues[r][b]),
             NEW s \in Ranks, NEW c \in Banks, NEW j \in 1 .. Len(queues[s][c]),
             queues[r][b][i].id = id, queues[s][c][j].id = id
      PROVE  r = s /\ b = c /\ i = j
  <2>1. PICK p : p = queues[r][b][i]
        OBVIOUS
  <2>2. PICK q : q = queues[s][c][j]
        OBVIOUS
  <2>3. Recorded(p) /\ Recorded(q) /\ SlotOf(p) = <<r, b>> /\ SlotOf(q) = <<s, c>>
        BY <2>1, <2>2 DEF QueueInv
  <2>4. p.address = q.address
        BY <1>3, <2>1, <2>2, <2>3 DEF Recorded
  <2>5. SlotOf(p) = SlotOf(q)
        BY <2>4 DEF SlotOf, RankOf, BankOf
  <2>6. r = s /\ b = c
        BY <2>3, <2>5
  <2>7. /\ Increasing(queues[r][b]) /\ queues[r][b] \in Seq(BusPacket)
        /\ \A k \in 1 .. Len(queues[r][b]) : queues[r][b][k].id \in Nat
        BY QueueTypes DEF QueueInv
  <2>8. i = j
        BY <1>3, <2>6, <2>7, IncreasingUnique
  <2> QED BY <2>6, <2>8
<1> QED BY <1>1, <1>2, <1>3 DEF WaitsAt

\* The data of a write is in one place.
LEMMA WritesOnce ==
    ASSUME TypeOK, WriteInv, NEW id, NEW x, NEW y, WritesAt(x, id), WritesAt(y, id)
    PROVE  x = y
<1>1. ASSUME NEW i \in 1 .. Len(dataBus), NEW j \in 1 .. Len(dataBus)
      PROVE  i = j
      BY TimedTypes DEF WriteInv
<1>2. ASSUME NEW p, NEW q, OnItsWay(p), OnItsWay(q), p.id = q.id
      PROVE  p.address = q.address /\ p.id \in Nat
      BY <1>2 DEF OnItsWay, Recorded
<1>3. ASSUME NEW i \in 1 .. Len(dataBus), dataBus[i].packet.id = id,
             NEW j \in 1 .. Len(writeDataToSend)
      PROVE  writeDataToSend[j].packet.id # id
  <2>1. PICK p : p = dataBus[i].packet
        OBVIOUS
  <2>2. PICK q : q = writeDataToSend[j].packet
        OBVIOUS
  <2>3. OnItsWay(p) /\ OnItsWay(q) /\ NewerFrom(p, 1)
        BY <2>1, <2>2 DEF WriteInv
  <2>4. q.address = p.address => p.id < q.id
        BY <2>2, <2>3 DEF NewerFrom
  <2> QED BY <1>2, <1>3, <2>1, <2>2, <2>3, <2>4
<1>4. ASSUME NEW i \in 1 .. Len(writeDataToSend), NEW j \in i + 1 .. Len(writeDataToSend),
             writeDataToSend[i].packet.id = id, writeDataToSend[j].packet.id = id
      PROVE  FALSE
  <2>1. PICK p : p = writeDataToSend[i].packet
        OBVIOUS
  <2>2. PICK q : q = writeDataToSend[j].packet
        OBVIOUS
  <2>3. j \in 1 .. Len(writeDataToSend)
        BY TimedTypes
  <2>4. OnItsWay(p) /\ OnItsWay(q) /\ NewerFrom(p, i + 1)
        BY <2>1, <2>2, <2>3 DEF WriteInv
  <2>5. q.address = p.address => p.id < q.id
        BY <2>2, <2>4 DEF NewerFrom
  <2> QED BY <1>2, <1>4, <2>1, <2>2, <2>4, <2>5
<1>5. ASSUME NEW i \in 1 .. Len(writeDataToSend), NEW j \in 1 .. Len(writeDataToSend),
             writeDataToSend[i].packet.id = id, writeDataToSend[j].packet.id = id
      PROVE  i = j
  <2>1. i = j \/ j \in i + 1 .. Len(writeDataToSend) \/ i \in j + 1 .. Len(writeDataToSend)
        BY TimedTypes
  <2> QED BY <1>4, <1>5, <2>1
<1> QED BY <1>1, <1>3, <1>5 DEF WritesAt

\* A read that was popped is in one place: reads of its address are older on
\* the way to the list of returned packets.
LEMMA ReadsOnce ==
    ASSUME TypeOK, LineInv, NEW id, NEW x, NEW y, ReadsAt(x, id), ReadsAt(y, id)
    PROVE  x = y
<1>1. ReadsInLine /\ ReadDataSpaced
      BY DEF LineInv
<1>2. ASSUME NEW p, NEW q, Popped(p), Popped(q), p.id = q.id
      PROVE  p.address = q.address /\ p.id \in Nat /\ RankOf(p) = RankOf(q)
  <2>1. p.address = q.address /\ p.id \in Nat
        BY <1>2 DEF Popped, Recorded
  <2> QED BY <2>1 DEF RankOf
<1>3. ASSUME NEW i \in 1 .. Len(cmdBus), NEW j \in 1 .. Len(cmdBus)
      PROVE  i = j
      BY <1>1, TimedTypes DEF ReadDataSpaced, CommandSpaced
<1>4. ASSUME NEW p, Popped(p), p.id = id, OlderThanCommand(p),
             NEW j \in 1 .. Len(cmdBus), IsReadPacket(cmdBus[j].packet),
             cmdBus[j].packet.id = id
      PROVE  FALSE
  <2>1. PICK q : q = cmdBus[j].packet
        OBVIOUS
  <2>2. Popped(q)
        BY <1>1, <1>4, <2>1 DEF ReadsInLine
  <2>3. q.address = p.address => p.id < q.id
        BY <1>4, <2>1 DEF OlderThanCommand
  <2> QED BY <1>2, <1>4, <2>1, <2>2, <2>3
<1>5. ASSUME NEW p, Popped(p), p.id = id, NEW r \in Ranks, NEW m \in Nat,
             OlderThan(p, readReturn[RankOf(p)], m),
             NEW j \in m .. Len(readReturn[r]), j >= 1, readReturn[r][j].packet.id = id
      PROVE  FALSE
  <2>1. PICK q : q = readReturn[r][j].packet
        OBVIOUS
  <2>2. j \in 1 .. Len(readReturn[r])
        BY <1>5, RankTypes
  <2>3. Popped(q) /\ RankOf(q) = r
        BY <1>1, <2>1, <2>2 DEF ReadsInLine
  <2>4. p.address = q.address /\ p.id \in Nat /\ RankOf(p) = r
        BY <1>2, <1>5, <2>1, <2>3
  <2>5. OlderThan(p, readReturn[r], m)
        BY <1>5, <2>4
  <2>6. q.address = p.address => p.id < q.id
        BY <2>1, <2>5 DEF OlderThan
  <2> QED BY <1>5, <2>1, <2>4, <2>6
<1>6. ASSUME NEW p, Popped(p), p.id = id, NEW r \in Ranks,
             OlderThan(p, rankBus[RankOf(p)], 1),
             NEW j \in 1 .. Len(rankBus[r]), rankBus[r][j].packet.id = id
      PROVE  FALSE
  <2>1. PICK q : q = rankBus[r][j].packet
        OBVIOUS
  <2>2. Popped(q) /\ RankOf(q) = r
        BY <1>1, <2>1 DEF ReadsInLine
  <2>3. p.address = q.address /\ p.id \in Nat /\ RankOf(p) = r
        BY <1>2, <1>6, <2>1, <2>2
  <2>4. OlderThan(p, rankBus[r], 1)
        BY <1>6, <2>3
  <2>5. q.address = p.address => p.id < q.id
        BY <2>1, <2>4 DEF OlderThan
  <2> QED BY <1>6, <2>1, <2>3, <2>5
<1>7. ASSUME NEW r \in Ranks, NEW i \in 1 .. Len(readReturn[r]),
             readReturn[r][i].packet.id = id
      PROVE  /\ \A j \in 1 .. Len(cmdBus) :
                    ~(IsReadPacket(cmdBus[j].packet) /\ cmdBus[j].packet.id = id)
             /\ \A s \in Ranks : \A j \in 1 .. Len(readReturn[s]) :
                    readReturn[s][j].packet.id = id => s = r /\ j <= i
  <2>1. PICK p : p = readReturn[r][i].packet
        OBVIOUS
  <2>2. /\ Popped(p) /\ RankOf(p) = r
        /\ OlderThanCommand(p) /\ OlderThan(p, readReturn[r], i + 1)
        BY <1>1, <2>1 DEF ReadsInLine
  <2>3. ASSUME NEW s \in Ranks, NEW j \in 1 .. Len(readReturn[s]),
               readReturn[s][j].packet.id = id
        PROVE  s = r /\ j <= i
    <3>1. PICK q : q = readReturn[s][j].packet
          OBVIOUS
    <3>2. Popped(q) /\ RankOf(q) = s
          BY <1>1, <3>1 DEF ReadsInLine
    <3>3. s = r
          BY <1>2, <1>7, <2>1, <2>2, <2>3, <3>1, <3>2
    <3>4. i + 1 \in Nat /\ OlderThan(p, readReturn[RankOf(p)], i + 1) /\ p.id = id
          BY <1>7, <2>1, <2>2, RankTypes
    <3>5. ASSUME j \in i + 1 .. Len(readReturn[r]) PROVE FALSE
      <4>1. j >= 1
            BY <3>5, RankTypes
      <4>2. readReturn[r][j].packet.id = id
            BY <2>3, <3>3
      <4> QED BY <1>5, <2>2, <3>4, <3>5, <4>1, <4>2
    <3> QED BY <3>3, <3>5, RankTypes
  <2>4. \A j \in 1 .. Len(cmdBus) :
            ~(IsReadPacket(cmdBus[j].packet) /\ cmdBus[j].packet.id = id)
        BY <1>4, <1>7, <2>1, <2>2
  <2> QED BY <2>3, <2>4
<1>8. ASSUME NEW r \in Ranks, NEW i \in 1 .. Len(rankBus[r]), rankBus[r][i].packet.id = id
      PROVE  /\ \A j \in 1 .. Len(cmdBus) :
                    ~(IsReadPacket(cmdBus[j].packet) /\ cmdBus[j].packet.id = id)
             /\ \A s \in Ranks : \A j \in 1 .. Len(readReturn[s]) :
                    readReturn[s][j].packet.id # id
             /\ \A s \in Ranks : \A j \in 1 .. Len(rankBus[s]) :
                    rankBus[s][j].packet.id = id => s = r /\ j = i
  <2>1. PICK p : p = rankBus[r][i].packet
        OBVIOUS
  <2>2. /\ Popped(p) /\ RankOf(p) = r
        /\ OlderThanCommand(p) /\ OlderThan(p, readReturn[RankOf(p)], 1)
        BY <1>1, <2>1 DEF ReadsInLine
  <2>3. ASSUME NEW s \in Ranks, NEW j \in 1 .. Len(rankBus[s]), rankBus[s][j].packet.id = id
        PROVE  s = r /\ j = i
    <3>1. PICK q : q = rankBus[s][j].packet
          OBVIOUS
    <3>2. Popped(q) /\ RankOf(q) = s
          BY <1>1, <3>1 DEF ReadsInLine
    <3>3. s = r
          BY <1>2, <1>8, <2>1, <2>2, <2>3, <3>1, <3>2
    <3>4. Len(rankBus[r]) <= 1 /\ Len(rankBus[r]) \in Nat
          BY <1>1, RankTypes DEF ReadDataSpaced, RankSpaced
    <3> QED BY <3>3, <3>4
  <2>4. \A j \in 1 .. Len(cmdBus) :
            ~(IsReadPacket(cmdBus[j].packet) /\ cmdBus[j].packet.id = id)
        BY <1>4, <1>8, <2>1, <2>2
  <2>5. ASSUME NEW s \in Ranks, NEW j \in 1 .. Len(readReturn[s])
        PROVE  readReturn[s][j].packet.id # id
    <3> SUFFICES ASSUME readReturn[s][j].packet.id = id PROVE FALSE
        OBVIOUS
    <3>1. Popped(p) /\ p.id = id /\ OlderThan(p, readReturn[RankOf(p)], 1)
          BY <1>8, <2>1, <2>2
    <3> QED BY <1>5, <3>1
  <2> QED BY <2>3, <2>4, <2>5
<1>9. ASSUME NEW i \in 1 .. Len(returnTransaction), returnTransaction[i].id = id
      PROVE  /\ \A j \in 1 .. Len(cmdBus) :
                    ~(IsReadPacket(cmdBus[j].packet) /\ cmdBus[j].packet.id = id)
             /\ \A s \in Ranks : \A j \in 1 .. Len(readReturn[s]) :
                    readReturn[s][j].packet.id # id
             /\ \A s \in Ranks : \A j \in 1 .. Len(rankBus[s]) :
                    rankBus[s][j].packet.id # id
             /\ \A j \in i + 1 .. Len(returnTransaction) : returnTransaction[j].id # id
  <2>1. PICK p : p = returnTransaction[i]
        OBVIOUS
  <2>2. /\ Popped(p) /\ OlderThanCommand(p)
        /\ OlderThan(p, readReturn[RankOf(p)], 1)
        /\ OlderThan(p, rankBus[RankOf(p)], 1)
        /\ \A j \in i + 1 .. Len(returnTransaction) :
               returnTransaction[j].address = p.address => p.id < returnTransaction[j].id
        BY <1>1, <2>1 DEF ReadsInLine
  <2>3. ASSUME NEW j \in i + 1 .. Len(returnTransaction), returnTransaction[j].id = id
        PROVE  FALSE
    <3>1. PICK q : q = returnTransaction[j]
          OBVIOUS
    <3>2. j \in 1 .. Len(returnTransaction)
          BY LenProperties DEF TypeOK
    <3>3. Popped(q)
          BY <1>1, <3>1, <3>2 DEF ReadsInLine
    <3> QED BY <1>2, <1>9, <2>1, <2>2, <2>3, <3>1, <3>3
  <2>4. \A j \in 1 .. Len(cmdBus) :
            ~(IsReadPacket(cmdBus[j].packet) /\ cmdBus[j].packet.id = id)
        BY <1>4, <1>9, <2>1, <2>2
  <2>5. ASSUME NEW s \in Ranks, NEW j \in 1 .. Len(readReturn[s])
        PROVE  readReturn[s][j].packet.id # id
        BY <1>5, <1>9, <2>1, <2>2, RankTypes
  <2>6. ASSUME NEW s \in Ranks, NEW j \in 1 .. Len(rankBus[s])
        PROVE  rankBus[s][j].packet.id # id
        BY <1>6, <1>9, <2>1, <2>2
  <2> QED BY <2>3, <2>4, <2>5, <2>6
<1>10. ASSUME NEW i \in 1 .. Len(returnTransaction), NEW j \in 1 .. Len(returnTransaction),
              returnTransaction[i].id = id, returnTransaction[j].id = id
       PROVE  i = j
  <2>1. /\ i = j \/ j \in i + 1 .. Len(returnTransaction)
                 \/ i \in j + 1 .. Len(returnTransaction)
        BY LenProperties DEF TypeOK
  <2> QED BY <1>9, <1>10, <2>1
<1>11. ASSUME NEW r \in Ranks, NEW i \in 1 .. Len(readReturn[r]),
              NEW s \in Ranks, NEW j \in 1 .. Len(readReturn[s]),
              readReturn[r][i].packet.id = id, readReturn[s][j].packet.id = id
       PROVE  r = s /\ i = j
  <2>1. r = s /\ j <= i /\ i <= j
        BY <1>7, <1>11
  <2> QED BY <2>1, RankTypes
<1>12. ASSUME NEW i \in 1 .. Len(cmdBus), x = At("command", 0, 0, i),
              IsReadPacket(cmdBus[i].packet), cmdBus[i].packet.id = id
       PROVE  x = y
       BY <1>3, <1>7, <1>8, <1>9, <1>12 DEF ReadsAt
<1>13. ASSUME NEW r \in Ranks, NEW i \in 1 .. Len(readReturn[r]),
              x = At("countdown", r, 0, i), readReturn[r][i].packet.id = id
       PROVE  x = y
  <2>1. \A j \in 1 .. Len(cmdBus) :
            ~(IsReadPacket(cmdBus[j].packet) /\ cmdBus[j].packet.id = id)
        BY <1>7, <1>13
  <2>2. ASSUME NEW s \in Ranks, NEW j \in 1 .. Len(readReturn[s]),
               y = At("countdown", s, 0, j), readReturn[s][j].packet.id = id
        PROVE  x = y
    <3>1. r = s /\ i = j
          BY <1>11, <1>13, <2>2
    <3> QED BY <1>13, <2>2, <3>1
  <2> QED BY <1>8, <1>9, <1>13, <2>1, <2>2 DEF ReadsAt
<1>14. ASSUME NEW r \in Ranks, NEW i \in 1 .. Len(rankBus[r]),
              x = At("rank bus", r, 0, i), rankBus[r][i].packet.id = id
       PROVE  x = y
  <2>1. ASSUME NEW s \in Ranks, NEW j \in 1 .. Len(rankBus[s]),
               y = At("rank bus", s, 0, j), rankBus[s][j].packet.id = id
        PROVE  x = y
    <3>1. r = s /\ i = j
          BY <1>8, <1>14, <2>1
    <3> QED BY <1>14, <2>1, <3>1
  <2>2. /\ \A j \in 1 .. Len(cmdBus) :
               ~(IsReadPacket(cmdBus[j].packet) /\ cmdBus[j].packet.id = id)
        /\ \A s \in Ranks : \A j \in 1 .. Len(readReturn[s]) : readReturn[s][j].packet.id # id
        BY <1>8, <1>14
  <2> QED BY <1>9, <1>14, <2>1, <2>2 DEF ReadsAt
<1>15. ASSUME NEW i \in 1 .. Len(returnTransaction), x = At("returned", 0, 0, i),
              returnTransaction[i].id = id
       PROVE  x = y
       BY <1>9, <1>10, <1>15 DEF ReadsAt
<1> QED BY <1>12, <1>13, <1>14, <1>15 DEF ReadsAt

\* What stands somewhere is there for a reason: the places of one kind exclude
\* those of the others.
LEMMA AtMeans ==
    ASSUME TypeOK, QueueInv, WriteInv, LineInv, DoneOnce, NEW id, NEW x
    PROVE  /\ WaitsAt(x, id) => Waiting(id)
           /\ WritesAt(x, id) => UnderWay(id) /\ ~IsRead(id) /\ ~Waiting(id)
           /\ ReadsAt(x, id) => Pending(id) /\ IsRead(id) /\ ~Waiting(id)
           /\ DoneAt(x, id) => ~Waiting(id) /\ IF IsRead(id) THEN ~Pending(id) ELSE ~UnderWay(id)
<1>1. ASSUME NEW p, Popped(p), p.id = id PROVE Pending(id) /\ IsRead(id) /\ ~Waiting(id)
  <2>1. /\ id \in 1 .. Len(accepted) /\ accepted[id].address = p.address
        /\ Pending(id) /\ IsRead(id)
        /\ \A v \in 1 .. Len(accepted) :
               Waiting(v) /\ IsRead(v) /\ accepted[v].address = p.address => id < v
        BY <1>1 DEF Popped, Recorded
  <2> QED BY <2>1
<1>2. ASSUME NEW p, OnItsWay(p), p.id = id PROVE ~IsRead(id) /\ ~Waiting(id)
  <2>1. /\ id \in 1 .. Len(accepted) /\ accepted[id].address = p.address /\ ~IsRead(id)
        /\ \A w \in 1 .. Len(accepted) : WaitingWrite(w, p.address) => id < w
        BY <1>2 DEF OnItsWay, Recorded
  <2> QED BY <2>1 DEF WaitingWrite
<1>3. WaitsAt(x, id) => Waiting(id)
      BY DEF WaitsAt, Waiting
<1>4. ASSUME WritesAt(x, id) PROVE UnderWay(id) /\ ~IsRead(id) /\ ~Waiting(id)
  <2>1. UnderWay(id)
        BY <1>4 DEF WritesAt, UnderWay
  <2>2. /\ \A i \in 1 .. Len(dataBus) : OnItsWay(dataBus[i].packet)
        /\ \A i \in 1 .. Len(writeDataToSend) : OnItsWay(writeDataToSend[i].packet)
        BY DEF WriteInv
  <2> QED BY <1>2, <2>1, <2>2 DEF UnderWay
<1>5. ASSUME ReadsAt(x, id) PROVE Pending(id) /\ IsRead(id) /\ ~Waiting(id)
  <2>1. /\ \A i \in 1 .. Len(cmdBus) :
               IsReadPacket(cmdBus[i].packet) => Popped(cmdBus[i].packet)
        /\ \A r \in Ranks : /\ \A i \in 1 .. Len(readReturn[r]) : Popped(readReturn[r][i].packet)
                            /\ \A i \in 1 .. Len(rankBus[r]) : Popped(rankBus[r][i].packet)
        /\ \A i \in 1 .. Len(returnTransaction) : Popped(returnTransaction[i])
        BY DEF LineInv, ReadsInLine
  <2>2. CASE \E i \in 1 .. Len(cmdBus) :
                 IsReadPacket(cmdBus[i].packet) /\ cmdBus[i].packet.id = id
        BY <1>1, <2>1, <2>2
  <2>3. CASE \E r \in Ranks : \E i \in 1 .. Len(readReturn[r]) : readReturn[r][i].packet.id = id
        BY <1>1, <2>1, <2>3
  <2>4. CASE \E r \in Ranks : \E i \in 1 .. Len(rankBus[r]) : rankBus[r][i].packet.id = id
        BY <1>1, <2>1, <2>4
  <2>5. CASE \E i \in 1 .. Len(returnTransaction) : returnTransaction[i].id = id
        BY <1>1, <2>1, <2>5
  <2> QED BY <1>5, <2>2, <2>3, <2>4, <2>5 DEF ReadsAt
<1>6. ASSUME Done(id)
      PROVE  ~Waiting(id) /\ IF IsRead(id) THEN ~Pending(id) ELSE ~UnderWay(id)
      BY <1>6 DEF Done, DoneOnce
<1> QED BY <1>3, <1>4, <1>5, <1>6 DEF DoneAt

\* An accepted transaction is somewhere.
LEMMA SomewhereAt ==
    ASSUME LineInv, NoneLost, error = "none", NEW id \in 1 .. Len(accepted)
    PROVE  \E x : WaitsAt(x, id) \/ WritesAt(x, id) \/ ReadsAt(x, id) \/ DoneAt(x, id)
<1>1. CASE Waiting(id)
      BY <1>1 DEF Waiting, WaitsAt
<1>2. CASE UnderWay(id)
      BY <1>2 DEF UnderWay, WritesAt
<1>3. CASE Returned(id) \/ id \in landed
      BY <1>3 DEF Returned, Done, DoneAt
<1>4. CASE Pending(id)
  <2>1. InFlight(id)
        BY <1>4 DEF Pending, LineInv, ReadsKept
  <2>2. ASSUME NEW i \in 1 .. Len(cmdBus),
               IsReadPacket(cmdBus[i].packet), cmdBus[i].packet.id = id
        PROVE  ReadsAt(At("command", 0, 0, i), id)
        BY <2>2 DEF ReadsAt
  <2>3. ASSUME NEW r \in Ranks, NEW i \in 1 .. Len(readReturn[r]),
               readReturn[r][i].packet.id = id
        PROVE  ReadsAt(At("countdown", r, 0, i), id)
        BY <2>3 DEF ReadsAt
  <2>4. ASSUME NEW r \in Ranks, NEW i \in 1 .. Len(rankBus[r]), rankBus[r][i].packet.id = id
        PROVE  ReadsAt(At("rank bus", r, 0, i), id)
        BY <2>4 DEF ReadsAt
  <2>5. ASSUME NEW i \in 1 .. Len(returnTransaction), returnTransaction[i].id = id
        PROVE  ReadsAt(At("returned", 0, 0, i), id)
        BY <2>5 DEF ReadsAt
  <2> QED BY <1>1, <2>1, <2>2, <2>3, <2>4, <2>5 DEF InFlight
<1> QED BY <1>1, <1>2, <1>3, <1>4 DEF NoneLost

\* Every accepted transaction is in one place.
LEMMA OnePlace ==
    ASSUME TypeOK, QueueInv, WriteInv, LineInv, DoneOnce, NoneLost
    PROVE  NothingLostOrDuplicated
<1> SUFFICES ASSUME error = "none", NEW id \in 1 .. Len(accepted)
             PROVE  Cardinality(PlacesOf(id)) = 1
    BY DEF NothingLostOrDuplicated, NoFatalError
<1>1. PICK x : x \in PlacesOf(id)
      BY SomewhereAt, Whereabouts
<1>2. ASSUME NEW y \in PlacesOf(id) PROVE y = x
  <2>1. /\ WaitsAt(x, id) \/ WritesAt(x, id) \/ ReadsAt(x, id) \/ DoneAt(x, id)
        /\ WaitsAt(y, id) \/ WritesAt(y, id) \/ ReadsAt(y, id) \/ DoneAt(y, id)
        BY <1>1, <1>2, Whereabouts
  <2>2. CASE WaitsAt(x, id)
        BY <2>1, <2>2, AtMeans, WaitsOnce
  <2>3. CASE WritesAt(x, id)
        BY <2>1, <2>3, AtMeans, WritesOnce
  <2>4. CASE ReadsAt(x, id)
        BY <2>1, <2>4, AtMeans, ReadsOnce
  <2>5. CASE DoneAt(x, id)
    <3>1. DoneAt(y, id)
          BY <2>1, <2>5, AtMeans
    <3> QED BY <2>5, <3>1 DEF DoneAt
  <2> QED BY <2>1, <2>2, <2>3, <2>4, <2>5
<1>3. PlacesOf(id) = {x}
      BY <1>1, <1>2
<1> QED BY <1>3, FS_Singleton

\* Every transaction the controller accepted is in exactly one place until the
\* simulation ends with an error, for every set of addresses and whatever the
\* queues, policies and latencies: no packet is dropped by a queue or a bus,
\* overwritten on a rank's data bus, sent twice, or done without leaving the
\* pending transactions.  Two reads of a rank keep the distance of a burst.
THEOREM NothingIsLost ==
    ASSUME ReadsKeepDistance
    PROVE  Spec => []NothingLostOrDuplicated
<1> DEFINE Inv == TypeOK /\ CountdownInv /\ QueueInv /\ WriteInv /\ LineInv /\ DoneOnce /\ NoneLost
<1>1. Init => Inv
      BY InitType, InitCountdown, InitQueues, InitWrites, InitLine, InitDone
<1>2. Inv /\ [Next]_vars => Inv'
  <2> SUFFICES ASSUME Inv, [Next]_vars PROVE Inv'
      OBVIOUS
  <2>1. TypeOK' /\ CountdownInv' /\ QueueInv' /\ WriteInv' /\ LineInv'
        BY NextType, NextCountdown, NextQueues, NextWrites, NextLine
  <2>2. DoneOnce' /\ NoneLost'
        BY NextDone, NextNoneLost
  <2> QED BY <2>1, <2>2
<1>3. Inv => NothingLostOrDuplicated
      BY OnePlace
<1> QED BY <1>1, <1>2, <1>3, PTL DEF Spec

\* What the CPU side has been told, by what became of the transaction.
LEMMA ToldMeans ==
    ASSUME DoneOnce, ReadsCreditedInOrder, NEW id \in Nat \ {0}, Len(accepted) \in Nat
    PROVE  Told(id) = IF Len(accepted) < id THEN "idle"
                      ELSE IF id \in landed \/ Returned(id) THEN "answered" ELSE "asked"
<1>1. \A c \in returned : c.id = c.packet
      BY DEF ReadsCreditedInOrder
<1>2. CASE Len(accepted) < id
      BY <1>2 DEF Told
<1>3. CASE Len(accepted) >= id /\ ~IsRead(id)
  <2>1. ~Returned(id)
        BY <1>3 DEF Returned, DoneOnce
  <2> QED BY <1>3, <2>1 DEF Told
<1>4. CASE Len(accepted) >= id /\ IsRead(id)
  <2>1. id \notin landed
        BY <1>4 DEF DoneOnce
  <2>2. CASE Returned(id)
    <3>1. PICK c \in returned : c.packet = id
          BY <2>2 DEF Returned
    <3>2. ReadCallbacks(id) = {c}
          BY <1>1, <3>1 DEF ReadCallbacks, DoneOnce
    <3> QED BY <1>4, <2>2, <3>2 DEF Told
  <2>3. CASE ~Returned(id)
    <3>1. ReadCallbacks(id) = {}
          BY <1>1, <2>3 DEF Returned, ReadCallbacks
    <3> QED BY <1>4, <2>1, <2>3, <3>1 DEF Told
  <2> QED BY <2>2, <2>3
<1> QED BY <1>2, <1>3, <1>4

\* Transactions and answers are only added.
LEMMA AnswersGrow ==
    ASSUME TypeOK, QueueInv, WriteInv, LineInv, [Next]_vars
    PROVE  landed \subseteq landed' /\ returned \subseteq returned'
<1>1. landed \subseteq landed'
  <2>1. CASE DataBus
    <3>1. Len(dataBus) <= 1
          BY DEF WriteInv
    <3> QED BY <2>1, <3>1, DataBusMeans
  <2> QED BY <2>1
          DEF Next, Cycle, AddTransaction, AddPending, RankUpdate, DrainPending, CommandBus,
              IssueCommand, ScheduleTransaction, ReturnRead, Accept, vars, histVars
<1>2. returned \subseteq returned'
  <2>1. CASE ReturnRead
    <3>1. CASE returnTransaction = <<>>
          BY <2>1, <3>1 DEF ReturnRead
    <3>2. CASE returnTransaction # <<>>
          BY <2>1, <3>2, OwnRead DEF LineInv
    <3> QED BY <3>1, <3>2
  <2> QED BY <2>1
          DEF Next, Cycle, AddTransaction, AddPending, RankUpdate, DrainPending, CommandBus,
              DataBus, IssueCommand, ScheduleTransaction, Accept, vars, histVars
<1> QED BY <1>1, <1>2

\* What is new among the answers was accepted before the step.
LEMMA AnswersWereAsked ==
    ASSUME TypeOK, QueueInv, WriteInv, LineInv, [Next]_vars, NEW id
    PROVE  /\ id \in landed' /\ id \notin landed => id \in 1 .. Len(accepted)
           /\ Returned(id)' /\ ~Returned(id) => id \in 1 .. Len(accepted)
<1>1. ASSUME id \in landed', id \notin landed PROVE id \in 1 .. Len(accepted)
      BY <1>1, LandedOnce
<1>2. ASSUME Returned(id)', ~Returned(id) PROVE id \in 1 .. Len(accepted)
  <2>1. PICK c \in returned' : c.packet = id
        BY <1>2 DEF Returned
  <2>2. c \notin returned
        BY <1>2, <2>1 DEF Returned
  <2> QED BY <2>1, <2>2, ReturnedOnce DEF LineInv
<1> QED BY <1>1, <1>2

\* The channel implements RequestPort: the end of every transaction is told
\* once, to its own caller, and not before it was accepted.  Two reads of a rank
\* keep the distance of a burst.
THEOREM ChannelImplementsPort ==
    ASSUME ReadsKeepDistance
    PROVE  Spec => ChannelKeepsPort
<1> DEFINE Ids == 1 .. MaxTransactions
           st == [id \in Ids |-> Told(id)]
           Account ==
               \A id \in Ids :
                   Told(id) = IF Len(accepted) < id THEN "idle"
                              ELSE IF id \in landed \/ Returned(id) THEN "answered" ELSE "asked"
           Inv == /\ TypeOK /\ CountdownInv /\ QueueInv /\ WriteInv /\ LineInv
                  /\ DoneOnce /\ NoneLost
<1>1. Init => Inv
      BY InitType, InitCountdown, InitQueues, InitWrites, InitLine, InitDone
<1>2. Inv /\ [Next]_vars => Inv'
  <2> SUFFICES ASSUME Inv, [Next]_vars PROVE Inv'
      OBVIOUS
  <2>1. TypeOK' /\ CountdownInv' /\ QueueInv' /\ WriteInv' /\ LineInv'
        BY NextType, NextCountdown, NextQueues, NextWrites, NextLine
  <2>2. DoneOnce' /\ NoneLost'
        BY NextDone, NextNoneLost
  <2> QED BY <2>1, <2>2
<1>3. Init => Port!Init
  <2> SUFFICES ASSUME Init PROVE \A id \in Ids : Told(id) = "idle"
      BY DEF Port!Init
  <2> SUFFICES ASSUME NEW id \in Ids PROVE Told(id) = "idle"
      OBVIOUS
  <2>1. Len(accepted) < id
        BY EmptySeq DEF Init
  <2> QED BY <2>1 DEF Told
<1>4. Inv => Account
  <2>1. TypeOK => Len(accepted) \in Nat
        BY LenProperties DEF TypeOK
  <2>2. LineInv => ReadsCreditedInOrder
        BY DEF LineInv
  <2> QED BY <2>1, <2>2, ToldMeans
<1>5. Inv /\ Inv' /\ Account /\ Account' /\ [Next]_vars
          => [Port!Next]_[id \in 1 .. MaxTransactions |-> Told(id)]
  <2> SUFFICES ASSUME Inv, Inv', Account, Account', [Next]_vars PROVE Port!Next
      OBVIOUS
  <2>1. /\ Len(accepted) \in Nat /\ Len(accepted') \in Nat /\ Len(accepted) <= Len(accepted')
        BY HistoryGrows
  <2>3. ASSUME NEW id \in Ids
        PROVE  /\ st[id] = Told(id) /\ st'[id] = Told(id)'
               /\ st'[id] \in Port!State
               /\ Port!Ask(id) \/ Port!Answer(id) \/ Port!Withdraw(id) \/ Port!Keep(id)
    <3>1. Told(id) = IF Len(accepted) < id THEN "idle"
                     ELSE IF id \in landed \/ Returned(id) THEN "answered" ELSE "asked"
          OBVIOUS
    <3>2. Told(id)' = IF Len(accepted') < id THEN "idle"
                      ELSE IF id \in landed' \/ Returned(id)' THEN "answered" ELSE "asked"
          OBVIOUS
    <3>3. /\ id \in landed => id \in landed'
          /\ Returned(id) => Returned(id)'
          BY AnswersGrow DEF Returned
    <3>4. Len(accepted) < id => ~(id \in landed') /\ ~Returned(id)'
      <4>1. Len(accepted) < id => id \notin landed /\ ~Returned(id)
            BY <2>1 DEF DoneOnce, Returned
      <4> QED BY <2>1, <4>1, AnswersWereAsked
    <3>5. /\ st[id] = Told(id) /\ st'[id] = Told(id)'
          OBVIOUS
    <3>6. \/ st'[id] = st[id]
          \/ st[id] = "idle" /\ st'[id] = "asked"
          \/ st[id] = "asked" /\ st'[id] = "answered"
          BY <2>1, <3>1, <3>2, <3>3, <3>4, <3>5
    <3>7. st'[id] \in Port!State
          BY <3>2, <3>5 DEF Port!State
    <3> QED BY <3>5, <3>6, <3>7 DEF Port!Ask, Port!Answer, Port!Withdraw, Port!Keep
  <2>4. st' \in [Ids -> Port!State]
        BY <2>3
  <2> QED BY <2>3, <2>4 DEF Port!Next
<1> QED BY <1>1, <1>2, <1>3, <1>4, <1>5, PTL DEF Spec, ChannelKeepsPort, Port!Spec

=============================================================================
