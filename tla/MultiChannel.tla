---------------------------- MODULE MultiChannel ----------------------------
(***************************************************************************)
(* MultiChannelMemorySystem of the eMRAM simulator: the choice of a channel*)
(* for every transaction, and the two questions a caller may ask before it *)
(* adds one.  A channel is reduced to what that choice sees of it: how full*)
(* its transaction queue is, and how many transactions MemorySystem has set*)
(* aside in pendingTransactions (module MramChannel has the rest).         *)
(***************************************************************************)
EXTENDS AddressMapping, FiniteSets

CONSTANTS
    Deployments,        \* [scheme, callers]: a system.ini and what calls it
    TRANS_QUEUE_DEPTH,
    Address,            \* the addresses the callers use
    MaxCount            \* bound: transactions of one behaviour

Channels == 0 .. NUM_CHANS - 1

\* "address"  asks willAcceptTransaction(addr), then addTransaction(bool, addr)
\* "any"      asks willAcceptTransaction(), then addTransaction(bool, addr)
\* "retry"    calls addTransaction(Transaction *) until it is not refused
CallerKinds == {"address", "any", "retry"}

ASSUME RoutingAssumption ==
    /\ Deployments \subseteq [scheme : Schemes, callers : SUBSET CallerKinds]
    /\ TRANS_QUEUE_DEPTH \in Nat \ {0}
    /\ Address \subseteq Nat
    /\ MaxCount \in Nat

VARIABLES
    scheme,             \* addressMappingScheme, fixed when the ini file is read
    callers,            \* the kinds of callers this deployment has
    transactionCount,
    queued,             \* channel -> length of its transactionQueue
    setAside,           \* channel -> length of its pendingTransactions
    \* history: where the transactions went
    routed,             \* channel -> number of transactions sent to it
    homes               \* address -> channels its transactions were sent to

deploymentVars == <<scheme, callers>>
vars == <<deploymentVars, transactionCount, queued, setAside, routed, homes>>

Init == /\ \E d \in Deployments : scheme = d.scheme /\ callers = d.callers
        /\ transactionCount = 0
        /\ queued   = [c \in Channels |-> 0]
        /\ setAside = [c \in Channels |-> 0]
        /\ routed   = [c \in Channels |-> 0]
        /\ homes    = [a \in Address |-> {}]

\* Fault: a full queue passes for one with room.
AcceptsWhenFull(c) == queued[c] <= TRANS_QUEUE_DEPTH
\* MemorySystem::WillAcceptTransaction
WillAcceptTransaction(c) == queued[c] < TRANS_QUEUE_DEPTH

willAcceptAddress(addr) ==
    WillAcceptTransaction(addressMapping(addr, scheme, 0).chan)

\* Fault: some channel with room is enough.
willAcceptSome == \E c \in Channels : WillAcceptTransaction(c)
willAcceptAny  == \A c \in Channels : WillAcceptTransaction(c)

\* Fault: a transaction goes where there is room.
channelWithRoom(addr) ==
    CHOOSE c \in Channels : willAcceptSome => WillAcceptTransaction(c)
channelOf(addr) ==
    IF NUM_CHANS = 1 THEN 0 ELSE addressMapping(addr, scheme, transactionCount).chan

\* findChannelNumber counts every transaction it maps, refused ones included;
\* a single channel is a shortcut that does not count.
findChannelNumber(addr) ==
    /\ transactionCount < MaxCount
    /\ transactionCount' = IF NUM_CHANS = 1 THEN transactionCount
                           ELSE transactionCount + 1
    /\ routed' = [routed EXCEPT ![channelOf(addr)] = @ + 1]
    /\ homes'  = [homes EXCEPT ![addr] = @ \cup {channelOf(addr)}]

\* addTransaction(bool, addr): the channel sets aside what it has no room for.
AddAlways(addr) ==
    LET c == channelOf(addr) IN
    /\ findChannelNumber(addr)
    /\ IF WillAcceptTransaction(c)
       THEN queued' = [queued EXCEPT ![c] = @ + 1] /\ UNCHANGED setAside
       ELSE setAside' = [setAside EXCEPT ![c] = @ + 1] /\ UNCHANGED queued
    /\ UNCHANGED deploymentVars

AddAskingAddress(addr) ==
    "address" \in callers /\ willAcceptAddress(addr) /\ AddAlways(addr)

AddAskingAny(addr) ==
    "any" \in callers /\ willAcceptAny /\ AddAlways(addr)

\* addTransaction(Transaction *): the channel may refuse.
AddOrRetry(addr) ==
    LET c == channelOf(addr) IN
    /\ "retry" \in callers
    /\ findChannelNumber(addr)
    /\ queued' = IF WillAcceptTransaction(c)
                 THEN [queued EXCEPT ![c] = @ + 1] ELSE queued
    /\ UNCHANGED <<deploymentVars, setAside>>

\* actual_update: in every channel a transaction that was set aside may enter
\* the queue, and then the controller may schedule one (`busy' are the channels
\* where the command queues have no room).
ActualUpdate ==
    \E busy \in SUBSET Channels :
        LET entered == {c \in Channels :
                            setAside[c] > 0 /\ WillAcceptTransaction(c)}
            afterEntry(c) == queued[c] + (IF c \in entered THEN 1 ELSE 0)
        IN
        /\ setAside' = [c \in Channels |->
                           setAside[c] - (IF c \in entered THEN 1 ELSE 0)]
        /\ queued' = [c \in Channels |->
                         IF c \notin busy /\ afterEntry(c) > 0
                         THEN afterEntry(c) - 1 ELSE afterEntry(c)]
        /\ UNCHANGED <<deploymentVars, transactionCount, routed, homes>>

Next == \/ \E addr \in Address : \/ AddAskingAddress(addr)
                                 \/ AddAskingAny(addr)
                                 \/ AddOrRetry(addr)
        \/ ActualUpdate

Spec == Init /\ [][Next]_vars

-----------------------------------------------------------------------------
\* The types of all variables; no queue exceeds its depth.
TypeOK == /\ [scheme |-> scheme, callers |-> callers] \in Deployments
          /\ transactionCount \in 0 .. MaxCount
          /\ queued   \in [Channels -> 0 .. TRANS_QUEUE_DEPTH]
          /\ setAside \in [Channels -> Nat]
          /\ routed   \in [Channels -> Nat]
          /\ homes    \in [Address -> SUBSET Channels]

\* A caller that was told there is room is right: "if the address is given, we
\* can just map the channel and check just that memory controller", and without
\* an address "we have to assume the worst".  Nothing is then set aside, and
\* later transactions of the channel cannot pass it.
PromisedRoomExists == \A c \in Channels : setAside[c] = 0

\* Under schemes 1 to 7 all transactions of an address go to one channel, which
\* is what lets that channel's queues keep them in order.
OneChannelPerAddress ==
    scheme # 8 => \A a \in Address : Cardinality(homes[a]) <= 1

\* scheme8 deals transactions out evenly whatever their addresses are.  Only
\* the very first, whose count is 0, goes by its address, so two channels may
\* differ by two instead of one.
DealtEvenly ==
    scheme = 8 => \A c, d \in Channels : routed[c] <= routed[d] + 2

-----------------------------------------------------------------------------
(* Why they hold.                                                          *)

One(condition) == IF condition THEN 1 ELSE 0

\* Channel c's share of n transactions dealt out in turn, starting with 0.
Share(c, n) == (n \div NUM_CHANS) + One(c < n % NUM_CHANS)

\* Each channel has its share, but for the first transaction: it went to the
\* channel of its address where the turn was channel 0's.
DealInv ==
    scheme = 8 /\ NUM_CHANS # 1 =>
        \E first \in Channels : \A c \in Channels :
            routed[c] = Share(c, transactionCount)
                        + (IF transactionCount = 0 THEN 0
                           ELSE One(c = first) - One(c = 0))

\* Under the other schemes an address has been sent nowhere but to its channel.
HomeInv == scheme # 8 => \A a \in Address : homes[a] \subseteq {channelOf(a)}
=============================================================================
