# A TLA+ verification of RACER-Artifacts

RACER-Artifacts is the evaluation code of RACER, a processing-in-memory chip.
It compares three systems: RACER itself (a Python simulator), a CPU with eMRAM
as its last-level memory and a CPU with DRAM (both MARSS + DRAMSim2). This
directory holds TLA+ models of the parts that the project wrote or changed, the
TLC runs that check them on small instances, and TLAPS proofs of what holds for
every instance.

## 1. Inventory

| Component | State | Operations | Correct when |
|---|---|---|---|
| eMRAM channel: `MemorySystem`, `MemoryController` (`marss-emram/DRAMSim2`) | transaction queue, overflow list, pending reads, return queue, command bus, write data bus and write countdowns, a `BankState` per bank | `addTransaction` (two forms), `update` | no collision or `exit`/`abort`; nothing lost or duplicated; reads and writes of an address in order; every transaction completes |
| Command queue | a FIFO per rank or per rank and bank, round-robin pointers, posted-CAS flag | `enqueue`, `pop`, `hasRoomFor`, `isIssuable`, `nextRankAndBank` | bounded; issues only what timing allows; no queue forgotten |
| Rank, Bank | read countdown list, the rank's data bus, stored data | `receiveFromBus`, `update`, `read`, `write` | countdowns expire at the head, one per cycle; no packet overwritten |
| Address mapping | none | `addressMapping`, eight schemes | the bijection its comments name |
| Multi-channel memory system | `transactionCount`, the channels | `addTransaction`, `willAcceptTransaction` (two forms of each), `actual_update` | the room that was promised exists; an address keeps its channel |
| Clock domain crosser | two counters | `update` | the memory keeps pace with the CPU for ever |
| RACER-Sim chip | program, pc, mask, per-unit energy, latency, bus counters | `launch`, `configSetup`, `executeEpoch`, `executeOp` | the mask is split into conflict-free sequences; each instruction is charged once per unit; programs finish |
| MARSS memory controller front end (`ptlsim/cache/memoryController.cpp`) | `pendingRequests_` | `handle_interconnect_cb`, `read_return_cb`, `write_return_cb`, `wait_interconnect_cb` | every return of the memory finds its request |
| MARSS shared cache (`cacheController.cpp`) and its link to the memory controller | `pendingRequests_` with dependency chains, line states | request, annulment, access, insert, write-back, answer | a request is answered once or called off; no dirty line is lost; queues drain |
| MARSS coherent caches (`coherentCache.cpp`, `mesiLogic.cpp`) and split-phase bus (`splitPhaseBus.cpp`) | per cache: queue, MESI states; bus: queues, arbitration, pending requests, data bus | local request, snoop, answer, address and data phase, eviction | answers are awaited and never lost; one owner per line; queues drain |
| MARSS CPU controller, MOESI, directory, switch, cores, QEMU, McPAT, DRAM baseline, scripts | | | not modelled, section 8 |

Interactions. A first-level cache asks its L2 cache; the L2 caches and the
shared L3 cache are on the split-phase bus; the L3 cache asks the memory
controller, which adds transactions to the memory simulator and gets callbacks.
Each level keeps a queue of pending requests, posts events for itself and
retries while the queue of the next one is full. MARSS (or the trace front end) adds transactions between two
cycles and calls `update` once per CPU cycle; `ClockDomainCrosser` turns these
into memory cycles; `MultiChannelMemorySystem` sends a transaction to a channel
and updates all of them; `MemorySystem::update` updates its ranks and then its
controller, which asks the command queue for a packet; completions come back by
callbacks. Everything runs in one thread. What is hard is therefore not
preemption but the simulated concurrency: several transactions are in flight in
queues, on buses and in countdown lists, and only the timing constraints that
the controller imposes keep them apart. The code's own checks (collision,
overflow, unmatched return) end the simulation with `exit` or `abort`.
The caches are event-driven: between two events of a request the events of
others run, and a request may be annulled, its frame taken or its line snooped.
RACER-Sim is a sequential interpreter whose difficulty is the order of units in
the mask, two passes that must agree on who charges an instruction, and loop
ends. PROJECT.json lists the hazards with their lines.

## 2. Modules

| Module | Models |
|---|---|
| `MramChannel` | one channel: `MemorySystem`, `MemoryController`, `CommandQueue`, `Rank`, `Bank`; implements `RequestPort` |
| `AddressMapping` | the eight schemes as functions of the field widths |
| `MultiChannel` | choice of a channel; EXTENDS `AddressMapping`; a channel is reduced to how full it is |
| `ClockDomain` | the crosser |
| `RacerChip` | RACER-Sim's interpreter |
| `RequestPort` | abstract: what each level of the memory system promises to the one above |
| `SharedCache` | the L3 cache, its link and the memory controller; implements `RequestPort` |
| `CoherentBus` | the L2 caches and the split bus; implements `RequestPort`, on top of a lower level that does |
| `MramChannelProofs` | TLAPS: types and queue bounds, countdowns, data bus, order of writes and reads, no fatal error |
| `MramChannelPortProofs` | TLAPS: the shared data pins, no transaction lost or done twice, the refinement of `RequestPort` |
| `SharedCacheProofs` | TLAPS: capacity, returns, chains, dirty lines, the refinement of `RequestPort` |
| `RacerChipProofs` | TLAPS: types, the split of the mask, the account of charges |
| `MultiChannelProofs` | TLAPS: all schemes for all widths, routing |
| `ClockDomainProofs` | TLAPS: pace |
| `CoherentBusProofs` | TLAPS: the bookkeeping of the bus, capacities and asserts under a bounded load, the refinement of `RequestPort`, coherence |
| `DataLemmas` | facts about naturals, sequences and counting that several proofs use |
| `MC...` | constants of the small instances |

Definitions keep the code's names (`hasRoomFor`, `isIssuable`,
`nextRankAndBank`, `overlapList`, ...). Definitions introduced by "Fault:" are
plausible mistakes in the definition that follows them; nothing uses them, and
replacing the definition by its fault makes the run in PROJECT.json fail.

### MramChannel

`MemorySystem::update` is one memory cycle. `phase` splits it into the steps the
code performs, in the code's order, so that each is one readable action; nothing
else can happen in between, and transactions arrive only between two cycles
(`BetweenCycles`), which is when the callers call `addTransaction`.

| Action | Code |
|---|---|
| `AddTransaction`, `AddPending` | both `MemorySystem::addTransaction`, with room and without |
| `RankUpdate` (one per rank, `turn`) | `Rank::update`, `MemoryController::receiveFromBus` |
| `DrainPending` | the overflow list in `MemorySystem::update` |
| `CommandBus` | bank states reset; the command bus counts down and delivers: `Rank::receiveFromBus`, `Bank::read` |
| `DataBus` | the write data bus delivers (`Bank::write`, `WriteDataDone`), the next write data goes out, collision check |
| `IssueCommand` | `CommandQueue::pop`, the timing imposed on all banks, the command bus |
| `ScheduleTransaction` | the first transaction with room becomes a command (`enqueue`) |
| `ReturnRead` | one read is matched by address and returned; the clock steps |

Abstractions. Absolute times (`nextRead`, `nextWrite` against
`currentClockCycle`) are kept as cycles left, which loses nothing since the code
only compares them with the current cycle. A bus with its remaining cycles is a
sequence of at most one timed packet, a countdown list a sequence of timed
packets. Transactions carry an identity (their number in order of acceptance)
that the code has as the object's address; a write's data is its identity, so
the storage tells whose write a read saw. `accepted`, `landed` and `returned`
are history. `error` names the check that ended the simulation; after it nothing
happens. Counters that would wrap in C++ are integers here: `CountdownsStaggered`
says they never get below one, so the difference is never seen.

The fork has the refresh, activate, precharge and power-down code of DRAMSim2,
but none of it can run: `enqueue` drops ACTIVATE, the refresh countdowns are
never decremented, every bank is set to Idle before `pop` runs, and row access
counters stay 0. It is left out.

### MultiChannel, AddressMapping, ClockDomain

`addressMapping` peels fields off an address in the order each scheme lists; the
run compares it with the layout in each scheme's comment. `MultiChannel` has one
action per way a caller adds a transaction: asking about an address, asking
about any address, or retrying until accepted. `scheme` and the kinds of callers
are chosen in `Init` from `Deployments` and never change. `ClockDomain` has one
action per iteration of the crosser's loop; `ahead` is the time by which the
memory leads the CPU.

### RacerChip

One action is one iteration of a loop of `configSetup` or `executeEpoch`: mask
instructions, splitting the mask into sequences, collecting the epoch's compute
instructions, the latency pass, and the loop over units. An exception of Python
(index out of range, `list.remove`, missing cost row) is an action of its own
that ends the run. Costs are integers; only sums and products of them are
formed. The program is any sequence over a small repertoire, chosen in `Init`.

### RequestPort, SharedCache, CoherentBus

These follow the machine `xeon_platinum_8253_MRAM` of `config/default.conf`:
L1 caches, MESI L2 caches on a split bus, a write-back L3 cache, a point-to-point
link, the memory controller built with DRAMSIM.

`RequestPort` has one variable, the status of every request: idle, asked, and
then answered or withdrawn, for ever. `Progress` adds that no request stays
asked. Three modules implement it: `MramChannel` (asked: accepted; answered: the
callback of a read, the landing of a write), `SharedCache` (answered: sent up to
the bus; withdrawn: annulled by the bus) and `CoherentBus` (answered: sent up to
the L1 cache). Each level is checked with the level below reduced to this
promise: the memory of `SharedCache` and the shared cache of `CoherentBus`
complete each request once, in any order, and forget one that is called off.

Events. MARSS runs everything from one event queue. A posted event is an enabled
action here, and nothing orders two posted events: latencies, cache ports and
the delay of a retry are abstracted to "later". An event that posts itself again
because a queue is full or a port is taken changes nothing and is an action that
waits for its guard. An event that finds its entry annulled does nothing and
disappears with the entry.

| Action of `SharedCache` | Code |
|---|---|
| `Request`, `AnnulRequest` | `handle_interconnect_cb` from above, `annul_request` |
| `CacheAccess` (`AccessHit`, `AccessMiss`) | `cache_access_cb` with `cache_hit_cb`, `cache_miss_cb` and `send_update_message` |
| `CacheInsert`, `Clear` | `cache_insert_cb`; `cache_insert_complete_cb`, `clear_entry_cb` |
| `SendUp`, `SendDown` | `wait_interconnect_cb`; downwards with the link and `MemoryController::handle_interconnect_cb` |
| `MemoryReturn` | `read_return_cb` or `write_return_cb`, `access_completed_cb`, `wait_interconnect_cb`, and the cache's `handle_interconnect_cb` from below |

An entry is its identity, type, line and set of posted events (`eventFlags`);
the `depends` index is kept as `waitFor` of the other side. A write-back is named
after the entry that made it. `unsaved` is history: the lines whose last write
has not been handed to the memory controller.

| Action of `CoherentBus` | Code |
|---|---|
| `LocalRequest`, `CacheAccess` | `handle_upper_interconnect`, `cache_access_cb` |
| `LocalHit`, `LocalMiss` | `MESILogic::handle_local_hit`, `handle_local_miss` |
| `SendDown`, `SendUp`, `Drain` | `wait_interconnect_cb`, the bus's `controller_request_cb` for a new request, the end of an insert |
| `SnoopHit`, `SnoopMiss`, `SnoopEvict` | `cache_hit_cb`, `handle_interconn_hit`, `handle_interconn_miss`, and `Respond`: the bus's `controller_request_cb` for an answer, with the annulments |
| `BusPoll`, `BusBroadcast`, `BusCompleted` | `broadcast_cb` without and with an entry, `broadcast_completed_cb` and the snoops it creates |
| `DataBroadcast`, `DataCompleted` | `data_broadcast_cb`; `data_broadcast_completed_cb`, the cache's `complete_request`, `set_data_bus` |
| `LowerAnswer` | the answer of the shared cache (environment) |

An entry remembers the frame it found, named by the line in it, because
`cache_hit_cb` uses the frame some cycles after the tag was compared.
`failed` stands for an `assert` of the bus or of `MESILogic`, `late` for an
answer that finds no pending request. `is_line_in_use` compares a line number
with an address, so it is never true for a victim and is left out.

## 3. Runs

| Run | Instance | Shows |
|---|---|---|
| `one_rank` | ST-1.2x timing (RL 2, WL 7, BL 4, tCCD 4, tWTR 6), one rank, two banks, one queue, four transactions | the channel's type invariant and all its safety properties |
| `per_bank` | STT-MRAM timing, two ranks, two banks, a queue of one entry per bank, the other round robin, posted CAS, three transactions, `FairSpec` | ordering across banks and ranks; every transaction completes; `RequestPort` |
| `routing` | four channels of depth one, addresses two of which share a channel, seven transactions | promised room exists; one channel per address; scheme 8 deals evenly |
| `address_mapping` | every address of a memory with 4 channels, 2 ranks, 2 banks, 4 rows, 4 columns | the bijection of the comments, all schemes |
| `clock_domain` | all pairs of frequencies up to 12 | the memory keeps pace; the inductive invariant |
| `racer` | all programs of at most 4 instructions over 12, and those of 5 over 5; 2 clusters of 2 units | sequences, charges and termination |
| `shared_cache` | one frame that holds a modified line, three lines, a queue of four entries, a memory queue of two, three requests, one annulment, `FairSpec` | callbacks find entries; waiters are woken; dirty lines are kept; `RequestPort`; everything drains |
| `coherent_bus` | two caches with one frame each, two lines, four coherent initial contents, six requests of which two are made, queues and reserves so small that broadcasts are held back and given up, `FairSpec` | no answer lost, late or doubled; the data bus never sleeps; no assert; coherence; `RequestPort`; everything drains |
| `two_ranks`, `routing_asked`, `broken_chain`, `stale_copy` | | disagreements, section 6 |

What the properties say:

- `CountdownsStaggered`: the lists that expire at the head only do so in order
  and one entry per cycle. `NothingLostOrDuplicated`: an accepted transaction is
  in exactly one place at any time; this is what notices a packet overwritten on
  a rank's bus. `NoFatalError`: none of the checks that end the simulation fires.
- `ReadsSeeOlderWrites`, `WritesLandInOrder`, `ReadNeverOvertakesWrite`,
  `ReadsCreditedInOrder`: the channel reorders, compares no addresses and
  forwards nothing, yet accesses of one address stay in the order that matters.
- `WriteDataSpaced`: the distances that keep two write bursts apart; the
  inductive invariant of the proof in section 7.
- `DataBusExclusive`: reads and writes share the data pins, and the code checks
  only for writes; the timing constraints are sufficient for one rank.
- `EveryTransactionCompletes`, `WellFormedProgramsFinish`: liveness.
- `PromisedRoomExists`, `OneChannelPerAddress`, `DealtEvenly`: routing.
- `ChannelKeepsPort`, `CacheKeepsPort`, `CachesKeepPort`: the refinements of
  `RequestPort`. A callback made twice, an answer after an annulment, an answer
  nobody asked for are steps the abstract specification does not have.
- `EveryReturnFindsAnEntry`: the memory controller looks a returned access up by
  its address alone, so a read may take the entry of a write-back and the other
  way round; still every return finds an entry, because there are as many
  entries of a line as accesses to it.
- `EveryWaiterHasAWaker`, `EverythingSettles`: requests for one line form a
  chain that annulments cut; nobody is left behind, also with full queues.
- `DirtyLinesAreKept`: a written line is modified in the cache or its write-back
  is in the queue until the memory has taken it. The one step that may let go of
  it is named in the property: the insert of another request for the line, which
  marks a modified line valid. It happens when two requests of a line are under
  way at once, which takes an annulment in the middle of a chain or what
  `broken_chain` shows.
- `DataBusNeverSleeps`, `AnswersAreAwaited`: the bookkeeping of the split bus. An
  answer that arrives while the data bus is busy is announced by nobody, and one
  that arrives for a forgotten request would be broadcast as a new request.
- `NoAssertFails`: room that was tested before the address phase is still there
  after it.
- `CoherentWhenQuiet`: requests that do not overlap leave one owner or several
  readers. It says nothing of overlapping requests: two caches that write a
  shared line at the same time both go ahead, and their EVICTs then invalidate
  both copies (the model has this behaviour; no document excludes it).
- `SequencesSplitTheMask`, `SequencesAreMaximal`, `ChargedOncePerUnit`: what
  RACER-Sim's latency and energy results rest on.

## 4. Bounds

`MaxTransactions` (4 and 3) and `MaxPending` (1) bound the workload. Collisions,
overtaking and lost packets are relations between two transactions; the third
and fourth fill the queues (of depth 1 and 2) so that overflow, set-aside and
round-robin happen. Each workload arrives in every possible spacing of cycles,
so the distances between two commands take all their values. Addresses 0 and 1
in one rank differ in bank; the three addresses of `per_bank` differ in rank, in
bank, and in both. `MaxCount` (7) lets scheme 8 go around four channels almost
twice. `MaxLength` is 4, and 5 for a smaller repertoire: 5 is the shortest length
with two complete epochs and a closing instruction. In
`shared_cache` three requests are what it takes for a chain of two with a third
line that competes for the queue; the queue has one entry in reserve where the
code has four, so that the reserve is used up. In `coherent_bus` two requests
are in flight at once and each makes up to four entries in the two queues; the
initial contents stand for the requests before. The reserves 20, 6 and 4 of the
code are scaled to 5, 4 and 2 of 7 entries; with less than that an assert of the
bus fails in the model, so what is shown is that a sufficient reserve suffices,
not that 20, 6 and 4 do for 256 entries. `stale_copy` needs three caches and one
request. Frequencies up to 12 give
ratios below, at and above one, with and without common factors, and the proof
covers all others.

## 5. Fairness

`FairSpec` of the channel is weak fairness of `Cycle`: MARSS's clock and the
loop of the trace front end call `update` for ever, and within `update` nothing
blocks. Arrivals are not fair: a workload may stop. `FairSpec` of `RacerChip` is
weak fairness of `Next`: a single-threaded loop that runs until it returns. `FairSpec` of
`SharedCache` is weak fairness of all events together: the event queue runs
every posted event when it is due, and the memory completes every transaction
(`EveryTransactionCompletes`); since every event brings some request further,
fairness of the single events is not needed. `CoherentBus` adds the address bus
separately, because blocked requests can keep it busy with giving up and
arbitrating while the caches have something to do, and the other way round. The
L1 caches and the bus above the L3 cache may stop asking. The other
specifications only state safety. Deadlock checking is off for `SharedCache` and
`CoherentBus`, where a finished workload is the end, and `EverythingSettles` says
that it is reached. It is on everywhere else: after a fatal error the channel
has no step, so `NoFatalError` is also what rules a deadlock out.

## 6. Disagreements found

Each is a run whose property quotes the repository and that TLC refutes.

- `two_ranks`: `update` resets every bank to Idle in each cycle, so the delays
  between ranks, imposed on active banks only, never apply; with a burst of
  four, two writes to different ranks collide on the data bus.
- `routing_asked`: under scheme 8 a caller that asks about an address is told
  about another channel than the one its transaction goes to.
- `broken_chain`: `find_dependency` means to return the last entry of the chain
  of a line, but starts from the first entry of the line, which may be a
  write-back that nobody waits for while the chain of requests begins behind it.
  Two requests of the line then run at once, and the insert of one may mark
  valid what the other made dirty.
- `stale_copy`: the bus annuls all other snoops when an L2 cache answers with
  data, the comment says with data and the shared flag. A WRITE of a line with
  two other sharers leaves one of the copies shared beside the modified one.
  With two caches there is no third one to annul, and `coherent_bus` passes.

## 7. Proofs

All theorems are about the modules the runs use, with every constant free. The
assumptions on constants are named in the modules that declare them and TLC
evaluates them on every run: `ConfigAssumption` (positive sizes and latencies, a
mapping into the configured ranks and banks), `FrequencyAssumption`,
`WidthAssumption`, `RoutingAssumption`, `ChipAssumption`, `ProgramAssumption`,
`SharedCacheAssumption`, `CoherentBusAssumption` (sets of
contents that fit the frames; at most two L1 caches, instruction and data, above an
L2 cache). A theorem that needs more of the configuration says so
as a hypothesis. Each inductive invariant is defined at the end of the module it
is about ("Why they hold") and was checked by TLC on the instances of the runs
before it was proved.

**Clock domain.** `CountersKeepTime` and `PaceTheorem`: for all positive
frequencies the memory is never behind the CPU and never a whole cycle ahead.
`MemoryKeepsPace` says nothing while the loop runs and nothing of the counters,
so `IndInv` adds that the counters' difference is the difference of the two
times (clearing both preserves it) and how far behind the loop may start.

**eMRAM channel** (`MramChannelProofs`; `MramChannelPortProofs` for `PinsNeverShared`,
`NothingIsLost` and `ChannelImplementsPort`), for every number of ranks and banks,
depth, timing and policy, under the hypotheses given:

- `TypeCorrect`: `TypeOK`, including the two queue bounds. It is inductive as it
  stands; each action has a lemma.
- `CountdownTheorem`: `CountdownsStaggered`. That an appended entry is farther
  away than all others needs to know that the others have been counted down in
  the same cycle: `CountdownInv` bounds the entries by `WL` and `RL`, and by one
  less between the countdown and the next append (`CountedDown`).
- `NoCollisionOnOneRank`: with one rank and `tCCD >= 1`, `WriteDataSpaced` and
  `NoDataBusCollision`. The collision check is about the bus, the constraint
  about commands `WL` cycles earlier; `WriteDataSpaced` connects them: waiting
  bursts are `DataCycles` apart, and every waiting burst and the one on the bus
  are bounded by `nextWrite` of each bank, with one cycle of slack between the
  clock's tick and the data bus's. `two_ranks` shows that one rank is needed.
- `WritesInOrder`: `WritesLandInOrder`, without hypothesis. `QueueInv`: a
  transaction stays in the order of acceptance through the transaction queue and
  its command queue, although full queues are skipped and whatever is issuable
  is popped; `WriteInv`: what waits is newer than what is on its way, and that
  newer than what is stored.
- `WritesKeepTheirLead`: `ReadNeverOvertakesWrite`, if pages are closed and a
  write may go no later than a read after each kind of command
  (`WritesMayGoFirst`). Then a rank that may read may write (`RankMayWrite`), so
  the search of `pop` finds the older write first. RL = 2 and WL = 7 are
  `#define`d in `SystemConfiguration.h`; with them every file of `ini/` satisfies
  the hypothesis, and `system.ini.example` has `close_page`.
- `ReadsAreFresh`: `ReadsSeeOlderWrites`, with `WritesMayGoFirst` and a burst or
  a turnaround of more than one cycle. An older write was popped before, is not
  lost (`WritesKept`), and its data lands before the read's command is delivered
  (`DataInTime`, the meaning of `WRITE_TO_READ_DELAY_B`); `ReadInv` carries what
  the read found to its callback.
- `ReadsComeBackInOrder`: `ReadsCreditedInOrder`, if two reads of a rank are a
  burst apart (`ReadsKeepDistance`; it fails only for BL = 1 with tCCD = 0).
  `ReadDataSpaced` is the reads' analogue of `WriteDataSpaced` and keeps a packet
  on a rank's bus from being overwritten; `ReadsInLine` and `PendingInOrder` say
  that packets and pending transactions of an address are in the same order at
  every station; `ReadsKept` that no pending read has lost its packet.
- `PinsNeverShared`: `DataBusExclusive`, with one rank, `tCCD >= 1` and
  `ReadsLeaveThePins`. That two packets are not on the pins now says nothing of the
  next cycle, so `PinsShared` looks at all cycles that what was popped has booked,
  counted from the present one: those of the controller (`WriteCycles`) and of the
  rank (`ReadCycles`, from the command bus on) are disjoint, and all lie before the
  data of any command of the other direction that the delays of a bank still let
  come. The lists are counted down at different moments of a cycle; `RankAhead`,
  `CommandAhead` and `Slack` say which are ahead. The hypothesis is needed because
  `READ_TO_WRITE_DELAY` leaves out `tCMD`; with RL = 2, WL = 7 and `tCMD = 1` it holds
  for every file of `ini/` (BL is 1, 4 or 8).
- `NothingIsLost`: `NothingLostOrDuplicated`, with `ReadsKeepDistance`. Counting
  places is not inductive. `NoneLost` says that what was accepted waits, is on its
  way or is done, `DoneOnce` that what is done is nowhere else; that a transaction
  stands in one place of the kind follows from the orders of the theorems above,
  because a packet would otherwise be older than itself (`WaitsOnce`,
  `WritesOnce`, `ReadsOnce`).
- `ChannelImplementsPort`: `ChannelKeepsPort`, with `ReadsKeepDistance`. The same
  invariants and `ReadsCreditedInOrder` give the meaning of `Told`: the read that
  is told is the one that came back, and it was pending, so it was not told
  before.
- `NothingIsFatal`: `NoFatalError` with one rank, close page, `tCCD >= 1` and
  `tCMD = 1` (every file of `ini/`). It collects the above: no collision on
  either bus, no refused command, no full queue, no packet without its read.
  `CommandsLeave` adds that the command bus is free when `pop` runs.

**Address mapping and routing.** `MappingIsDocumented` is the property of the
run for every width: the layout of a comment is a mixed-radix number, peeling
fields off is division by powers of two, and `DivDiv` and `PowerAdds` let the
two meet. `RoutingTypes`, `OneChannel` and `EvenDeal` have no hypothesis;
`HomeInv` says where an address went so far, `DealInv` that each channel has its
exact share but for the first transaction. `RoomIsThere` assumes that nobody asks
about an address under scheme 8; `routing_asked` shows that it must.

**RACER-Sim.** `ChipTypes`, `MaskIsSplit`, `SplitIsMaximal`, `ChargedOnce`, for
every chip, cost table and readable program. `SplitInv` is about the sequences
closed so far with the open one; `CollectInv` says which instructions the epoch
has; `AccountInv` balances the charges of every instruction against what the
latency pass and the loop over units have still to charge. `ChargedOnce` assumes
`WarmupsGoTogether`: the first pass takes an operation for pipelined if either
warm-up cost is not zero, the second only if both are. In
`updatedOperationCosts.csv`, the table that `racer-sim.py` loads, both are or
neither is; `operationExample.csv`, which nothing loads, has a row (RELU16) that
would be charged twice.

**Shared cache.** `CacheInvariant` is the inductive invariant: an entry waits or
has one of eight sets of events posted, and does everything once (`EntryInv`);
identities are unique in both queues and a write-back's is new when it is made;
accesses and controller entries of a line are equally many. It gives
`CacheTypes` (the capacity of both queues), `ReturnsFindEntries`,
`WaitersHaveWakers`, the action property `DirtyLines`, and
`CacheImplementsPort`, the refinement of `RequestPort`, for every order of events
and annulments.

**Coherent caches and bus** (`CoherentBusProofs`), for every number of caches,
lines, frames, capacities and requests. `DataBusNeverSleeps` and
`AnswersAreAwaited` are not inductive: that an answer finds its pending entry
needs to know that no second snoop of the request exists, hence that it is
broadcast once, hence that it is sent once. `BusInv` carries this from one station
of a request to the next:

- `QueueInv`: keys are unique in a queue; an entry has the stages of its role,
  and a request that is still to be sent has left no trace in any other queue
  (`OthersUntouched`) and has made no messages (`NoOffspring`), so the keys of the
  messages it will make are free;
- `BusQueueInv`: a READ or WRITE that waits for the address bus is asked for in
  its cache and not pending yet, and no request waits twice;
- `PendingInv`: a pending request is unique, and its cache still waits for it with
  the entry in stage `asked`; the shared flag is set for a READ only;
- `AddressInv`: from arbitration on the message is there, and a completed
  broadcast has an entry of `pendingRequests_`, since only the address bus
  allocates them.

It gives `DataBusAwake`, `AnswersAwaited` and `CachesImplementPort`, the
refinement of `RequestPort`, without hypothesis. `BusTypes` and `AssertsHold`
assume `Light`: four entries for each request under way, the most a request ever
has in one queue (`OneSlot`), fit beside the reserve. The reserves alone do not
suffice, because `handle_local_hit` makes an EVICT without asking for room: as many
WRITEs to shared lines as `LocalReserve` admits would need twice as many entries.
With the code's 256 entries and a reserve of 4, `Light` holds for up to 62 requests
under way; the instance of `coherent_bus` goes beyond it, and its reserves happen
to suffice.

`CoherentCaches` states `CoherentWhenQuiet` for every number of lines, frames and
requests. What holds while a request runs is `CoherentInv`: everything in the
queues and on the bus belongs to the last request (`Alone`); a line has a writer
beside a reader only while the EVICT of the write hit is on its way to that reader
(`EvictOnWay`); what an entry has found in its cache is still there (`Found`), so
the cache that asked takes its answer into a line it does not hold, or holds
invalid; and a cache that has answered has given the line up, or keeps it shared
for a READ whose answer is flagged shared (`GaveUp`). `CoherentStep` says once
what a step has to show for all four, and each action has a lemma. Two hypotheses
name where the code stops being coherent: `OwnedOnce`, that the caches start with
one owner for each line, and `NoSecondCopy`, that there are two caches or no WRITE.
With three caches a WRITE is the `stale_copy` disagreement: the answer that calls
the others off leaves their copies, and `GaveUp` does not hold of them. Two caches
satisfy both in `coherent_bus`.

Recursion over data is in reach where it is stated with sets: `SetInduction`
(a set of naturals with 0 and successors) follows from the well-foundedness of
the naturals, and `RecursionExists` and `RunningSumExists` from it; with them the
powers of two and the running sums of the layouts are defined for every
argument.

Only model-checked: liveness (`EveryTransactionCompletes`, `EverythingSettles`,
`WellFormedProgramsFinish`), which needs fairness and ENABLED. Every invariant of a
passing run is proved, under the hypotheses named above.

## 8. Not modelled

- The L1 caches: the same class as the L2 caches in another role; here they are
  the environment that asks and takes answers at any time. Prefetching and
  write-through are configured off. The CPU controller above the L1 caches.
- MOESI, the directory, the switch and the plain bus: not in the machine.
- The DRAM baseline (`marss-cpu/DRAMSim2`): the unmodified simulator with
  activates, refresh and open page. Planned.
- `open_page` in the eMRAM channel is modelled and covered by the proofs, but no
  run has it: `enqueue` drops ACTIVATE, so the rank refuses the first command.
- MARSS's cores: third-party pipelines, out of TLC's reach. QEMU: vendored, and
  with it more than nine tenths of the repository's lines.
- McPAT: third-party numerical formulas without state.
- Energy sums, statistics, output files, parsing of ini, trace and program
  files, and the evaluation scripts: no control.

## 9. Plan

Order of the work, the most important behaviour first:

1. Done: the channel, the routing above it, the mapping, the clock crossing and
   RACER-Sim.
2. Done: the MARSS memory controller with the L3 cache, the coherent caches on
   the split bus, and `RequestPort` with the three refinements.
3. Done: the proofs of section 7.
4. The DRAM baseline's channel with activates, refresh and open page, sharing
   the structure of `MramChannel`; properties: refresh is never starved, a
   column command finds its row open.
5. RACER-Sim's loader and the account of its transfers.
