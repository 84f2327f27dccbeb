---------------------------- MODULE SharedCache ----------------------------
(***************************************************************************)
(* The last-level cache and the memory controller of the simulated machine *)
(* (MARSS): the write-back CacheController L3_0, the point-to-point link   *)
(* below it, the MemoryController MEM_0 built with DRAMSIM, and the memory *)
(* simulator as far as the controller sees it.                             *)
(*                                                                         *)
(* The split bus above hands requests of the L2 caches to the cache and    *)
(* expects an answer to every READ and WRITE, unless it calls the request  *)
(* off because an L2 cache had the data.  The simulator's event queue is   *)
(* modelled by leaving every scheduled event enabled until it fires;       *)
(* latencies and ports only decide how late that is.  An event that would  *)
(* find its queue full posts itself again: here it simply stays enabled.   *)
(***************************************************************************)
EXTENDS Integers, FiniteSets, SequencesExt

CONSTANTS
    Line,               \* the cache lines
    Message,            \* the messages of the bus: a type and a line each
    Ways,               \* frames of the cache: all lines share one set
    Contents,           \* what earlier requests have left in the frames
    QueueSize,          \* entries of the cache's pendingRequests_
    Reserve,            \* entries is_full keeps back (4 in the code)
    MemQueueSize,       \* entries of the memory controller's pendingRequests_
    MaxRequests,        \* bound: requests the bus hands over in a behaviour
    MaxAnnulled         \* bound: requests the bus calls off

Type == {"READ", "WRITE", "UPDATE", "EVICT"}
LineState == {"absent", "valid", "modified"}    \* absent: without a frame

ASSUME SharedCacheAssumption ==
    /\ IsFiniteSet(Line) /\ Message \subseteq [type : Type, line : Line]
    /\ Contents \in [Line -> LineState]
    /\ Cardinality({l \in Line : Contents[l] # "absent"}) <= Ways
    /\ Ways \in Nat \ {0} /\ MemQueueSize \in Nat \ {0}
    /\ QueueSize \in Nat /\ Reserve \in 1 .. QueueSize - 1
    /\ MaxRequests \in Nat /\ MaxAnnulled \in Nat

Ids == 1 .. MaxRequests
None == 0

\* An entry makes at most one write-back, when its insert takes the frame of a
\* modified line or when an UPDATE or EVICT misses: the write-back's own entry
\* is named after it.
WriteBackOf(id) == MaxRequests + id
AnyId == 1 .. 2 * MaxRequests

Expected(type) == type \in {"READ", "WRITE"}

\* What is scheduled for an entry.  "up" and "down" are waitInterconnect_ with
\* sendTo the bus or the memory; "response" is the wait for the memory; "clear"
\* stands for cacheInsertComplete_ and the clearEntry_ it posts.
Event == {"access", "up", "down", "response", "insert", "clear"}

Entry == [id : AnyId, type : Type, line : Line, events : SUBSET Event,
          waitFor : AnyId \cup {None}]

VARIABLES
    requests,           \* the messages of the bus so far, in order
    queue,              \* pendingRequests_ of the cache, in list order
    lines,              \* state of every line
    memQueue,           \* pendingRequests_ of the memory controller
    accesses,           \* what the memory simulator works on
    failed,             \* assert(0) of a memory callback
    \* history
    answers,            \* how often each request was answered
    annulled,           \* the requests called off
    unsaved             \* lines written in the cache and not in the memory

vars == <<requests, queue, lines, memQueue, accesses, failed,
          answers, annulled, unsaved>>

\* The cache is idle.
Init ==
    /\ requests = <<>> /\ queue = <<>> /\ memQueue = <<>>
    /\ lines = Contents
    /\ accesses = {} /\ failed = FALSE
    /\ answers = [i \in Ids |-> 0] /\ annulled = {}
    /\ unsaved = {l \in Line : lines[l] = "modified"}
-----------------------------------------------------------------------------
(***************************************************************************)
(* The queue                                                               *)
(***************************************************************************)
In(q, id) == \E k \in DOMAIN q : q[k].id = id
PlaceOf(q, id) == CHOOSE k \in DOMAIN q : q[k].id = id
EntryOf(q, id) == q[PlaceOf(q, id)]

Pending(id, e) == In(queue, id) /\ e \in EntryOf(queue, id).events

\* The entry's events that were due are replaced by the new ones.
Schedule(q, id, due, new) ==
    [k \in DOMAIN q |->
        IF q[k].id = id
        THEN [q[k] EXCEPT !.events = (@ \ due) \cup new] ELSE q[k]]

\* Whoever waits for id waits for nobody now: its cacheAccess_ is posted.
Wake(q, id) ==
    [k \in DOMAIN q |->
        IF q[k].waitFor = id
        THEN [q[k] EXCEPT !.waitFor = None, !.events = {"access"}] ELSE q[k]]

Without(q, id) == RemoveAt(q, PlaceOf(q, id))

\* Fault: the entry that waits for the freed one is forgotten.
ClearAndForget(q, id, due) ==
    LET rest == Schedule(q, id, due, {}) IN
    IF EntryOf(rest, id).events = {} THEN Without(rest, id) ELSE rest
\* clear_entry_cb: the entry is freed once nothing is scheduled for it, and
\* the entry that depends on it goes ahead.
ClearEntry(q, id, due) ==
    LET rest == Schedule(q, id, due, {}) IN
    IF EntryOf(rest, id).events = {} THEN Wake(Without(rest, id), id) ELSE rest

\* find_dependency: the first entry of the line, or the last of those that
\* depend on it one after the other.
ChainEnd(q, first) ==
    LET Follow[n \in 0 .. Len(q)] ==
            IF n = 0 THEN first
            ELSE LET waiting == {k \in DOMAIN q : q[k].waitFor = Follow[n - 1]}
                 IN IF waiting = {} THEN Follow[n - 1]
                    ELSE q[CHOOSE k \in waiting : TRUE].id
    IN Follow[Len(q)]

FindDependency(q, line) ==
    LET same == {k \in DOMAIN q : q[k].line = line} IN
    IF same = {} THEN None
    ELSE ChainEnd(q, q[CHOOSE k \in same : \A j \in same : k <= j].id)

\* Fault: the bus is told that there is always room.
NeverFull == FALSE
\* CacheController::is_full, which the bus asks before it broadcasts
IsFull == Len(queue) >= QueueSize - Reserve
-----------------------------------------------------------------------------
(***************************************************************************)
(* The upper side: messages of the split bus                               *)
(***************************************************************************)
\* handle_interconnect_cb.  The access is made at once when a port is free and
\* one event later otherwise; here it is always the next event.
Request(msg) ==
    LET id  == Len(requests) + 1
        dep == FindDependency(queue, msg.line)
    IN
    /\ Len(requests) < MaxRequests
    /\ ~IsFull
    /\ requests' = Append(requests, msg)
    /\ queue' = Append(queue,
           [id |-> id, type |-> msg.type, line |-> msg.line, waitFor |-> dep,
            events |-> IF dep = None THEN {"access"} ELSE {}])
    /\ UNCHANGED <<lines, memQueue, accesses, failed, answers, annulled, unsaved>>

\* Fault: the entry that waits behind the annulled one is left waiting.
AnnulAndForget(id) == Without(queue, id)
\* Fault: the events posted for the entry run as if nothing had happened.
AnnulTooLate(id) == queue
\* annul_request: all flags are reset and clear_entry_cb is called, so the next
\* entry goes ahead even where the annulled one was waiting itself; events
\* still posted for the entry find it annulled.
AnnulEntry(id) == Wake(Without(queue, id), id)

\* BusInterconnect calls a request off when an L2 cache answered it with data
\* and this cache has not answered yet.
AnnulRequest(id) ==
    /\ Cardinality(annulled) < MaxAnnulled
    /\ In(queue, id) /\ id \in Ids
    /\ Expected(EntryOf(queue, id).type) /\ answers[id] = 0
    /\ queue' = AnnulEntry(id)
    /\ annulled' = annulled \cup {id}
    /\ UNCHANGED <<requests, lines, memQueue, accesses, failed, answers, unsaved>>
-----------------------------------------------------------------------------
(***************************************************************************)
(* The cache: events of an entry                                           *)
(***************************************************************************)
\* send_update_message
WriteBack(id, line) ==
    [id |-> WriteBackOf(id), type |-> "UPDATE", line |-> line, waitFor |-> None,
     events |-> {"down"}]

\* cache_access_cb of an entry whose line has a frame, up to the answer that
\* cache_hit_cb prepares.  An EVICT of another coherent cache is ignored.
AccessHit(id, type, line) ==
    /\ queue' = Schedule(queue, id, {"access"},
                         IF Expected(type) THEN {"up"} ELSE {"clear"})
    /\ IF type \in {"WRITE", "UPDATE"}
       THEN /\ lines' = [lines EXCEPT ![line] = "modified"]
            /\ unsaved' = unsaved \cup {line}
       ELSE UNCHANGED <<lines, unsaved>>

\* cache_access_cb without a frame, up to the request cache_miss_cb sends on.
\* An UPDATE or an EVICT becomes a write-back, for which there must be room.
AccessMiss(id, type, line) ==
    /\ IF Expected(type)
       THEN /\ queue' = Schedule(queue, id, {"access"}, {"down"})
            /\ unsaved' = unsaved
       ELSE /\ Len(queue) < QueueSize
            /\ queue' = Append(Schedule(queue, id, {"access"}, {"clear"}),
                               WriteBack(id, line))
            /\ unsaved' = unsaved \cup (IF type = "UPDATE" THEN {line} ELSE {})
    /\ lines' = lines

CacheAccess(id) ==
    /\ Pending(id, "access")
    /\ LET e == EntryOf(queue, id) IN
       IF lines[e.line] = "absent" THEN AccessMiss(id, e.type, e.line)
                                   ELSE AccessHit(id, e.type, e.line)
    /\ UNCHANGED <<requests, memQueue, accesses, failed, answers, annulled>>

Held == {l \in Line : lines[l] # "absent"}

\* The line whose frame is taken has to be written back.
MustWriteBack(victim) == \E v \in victim : lines[v] = "modified"

\* Fault: the insert does not wait for room in the queue; send_update_message
\* fails without a word.
InsertAnyTime(id) == TRUE
\* cache_insert_cb waits while pendingRequests_ is full.
RoomToInsert(id) == Len(queue) < QueueSize

\* cache_insert_cb.  Frames are used up before a line is replaced (evictmap),
\* and a line that has a frame already keeps it; either way the line is valid
\* and no longer modified.
CacheInsert(id) ==
    /\ Pending(id, "insert")
    /\ RoomToInsert(id)
    /\ LET line    == EntryOf(queue, id).line
           victims == IF line \in Held \/ Cardinality(Held) < Ways
                      THEN {{}} ELSE {{v} : v \in Held}
           done    == Schedule(queue, id, {"insert"}, {"clear"})
       IN \E victim \in victims :
             /\ lines' = [l \in Line |-> CASE l = line     -> "valid"
                                          [] l \in victim -> "absent"
                                          [] OTHER        -> lines[l]]
             /\ queue' = IF MustWriteBack(victim) /\ Len(queue) < QueueSize
                         THEN Append(done, WriteBack(id, CHOOSE v \in victim : TRUE))
                         ELSE done
    /\ UNCHANGED <<requests, memQueue, accesses, failed, answers, annulled, unsaved>>

\* cache_insert_complete_cb and clear_entry_cb
Clear(id) ==
    /\ Pending(id, "clear")
    /\ queue' = ClearEntry(queue, id, {"clear"})
    /\ UNCHANGED <<requests, lines, memQueue, accesses, failed, answers,
                   annulled, unsaved>>

\* wait_interconnect_cb towards the bus, which takes an answer to a pending
\* request at any time.
SendUp(id) ==
    /\ Pending(id, "up")
    /\ answers' = [answers EXCEPT ![id] = @ + 1]
    /\ queue' = ClearEntry(queue, id, {"up"})
    /\ UNCHANGED <<requests, lines, memQueue, accesses, failed, annulled, unsaved>>

\* wait_interconnect_cb towards the memory, the point-to-point link and
\* MemoryController::handle_interconnect_cb.  Every entry is inUse as soon as
\* it is in the queue, so an UPDATE is never merged with an older one.
SendDown(id) ==
    LET e == EntryOf(queue, id) IN
    /\ Pending(id, "down")
    /\ Len(memQueue) < MemQueueSize
    /\ memQueue' = Append(memQueue, [id |-> id, type |-> e.type, line |-> e.line])
    /\ accesses' = accesses \cup {[id |-> id, line |-> e.line]}
    /\ IF e.type = "UPDATE"
       THEN /\ queue' = ClearEntry(queue, id, {"down"})
            /\ unsaved' = unsaved \ {l \in {e.line} : lines[l] # "modified"}
       ELSE /\ queue' = Schedule(queue, id, {"down"}, {"response"})
            /\ unsaved' = unsaved
    /\ UNCHANGED <<requests, lines, failed, answers, annulled>>
-----------------------------------------------------------------------------
(***************************************************************************)
(* The memory controller: callbacks of the memory simulator                *)
(***************************************************************************)
\* read_return_cb and write_return_cb find the entry by the line's address.
MatchingEntries(line) == {k \in DOMAIN memQueue : memQueue[k].line = line}

\* Fault: the entry of an UPDATE stays in the queue.
FreeButUpdates(k) ==
    IF memQueue[k].type = "UPDATE" THEN memQueue ELSE RemoveAt(memQueue, k)
FreeMemEntry(k) == RemoveAt(memQueue, k)

\* CacheController::find_match looks the request up by its identity.
FindMatch(id) == In(queue, id)

\* access_completed_cb and wait_interconnect_cb, then handle_interconnect_cb of
\* the cache: the line is inserted and the answer sent up independently.  An
\* answer to a request that was called off is ignored.
MemoryAnswers(m) ==
    IF m.type # "UPDATE" /\ FindMatch(m.id)
    THEN queue' = Schedule(queue, m.id, {"response"}, {"insert", "up"})
    ELSE queue' = queue

\* The memory simulator completes its accesses in any order.
MemoryReturn(access) ==
    LET found == MatchingEntries(access.line) IN
    /\ access \in accesses
    /\ accesses' = accesses \ {access}
    /\ IF found = {}
       THEN failed' = TRUE /\ UNCHANGED <<memQueue, queue>>
       ELSE \E k \in found :
               /\ \A j \in found : k <= j
               /\ memQueue' = FreeMemEntry(k)
               /\ MemoryAnswers(memQueue[k])
               /\ failed' = failed
    /\ UNCHANGED <<requests, lines, answers, annulled, unsaved>>
-----------------------------------------------------------------------------
EventOf(id) == \/ CacheAccess(id) \/ CacheInsert(id) \/ Clear(id)
               \/ SendUp(id) \/ SendDown(id)

Step == \/ \E id \in AnyId : EventOf(id)
        \/ \E access \in accesses : MemoryReturn(access)

Bus == \/ \E msg \in Message : Request(msg)
       \/ \E id \in Ids : AnnulRequest(id)

Next == ~failed /\ (Step \/ Bus)

\* The main loop runs every event when it is due and the memory simulator
\* completes every access (MramChannel's EveryTransactionCompletes), so neither
\* stops while there is something to do; the bus may stop asking.
Spec     == Init /\ [][Next]_vars
FairSpec == Spec /\ WF_vars(~failed /\ Step)
-----------------------------------------------------------------------------
(***************************************************************************)
(* Properties                                                              *)
(***************************************************************************)
\* The types of all variables; both queues keep within their capacity.
TypeOK ==
    /\ requests \in Seq(Message) /\ Len(requests) <= MaxRequests
    /\ queue \in Seq(Entry) /\ Len(queue) <= QueueSize
    /\ lines \in [Line -> LineState]
    /\ Cardinality(Held) <= Ways
    /\ memQueue \in Seq([id : AnyId, type : Type, line : Line])
    /\ Len(memQueue) <= MemQueueSize
    /\ accesses \subseteq [id : AnyId, line : Line]
    /\ failed \in BOOLEAN /\ answers \in [Ids -> Nat]
    /\ annulled \subseteq Ids /\ unsaved \subseteq Line

\* The callbacks of the memory simulator name an address only, and the entry
\* they free may be another access's.  They never run out of entries, so the
\* assert(0) of read_return_cb and write_return_cb is not reached: at every
\* moment a line has as many entries as accesses, whatever the order in which
\* reads and writes of one line complete.
EveryReturnFindsAnEntry ==
    /\ ~failed
    /\ \A l \in Line : Cardinality(MatchingEntries(l)) =
                       Cardinality({a \in accesses : a.line = l})

\* A request that depends on another is woken by exactly one entry that is
\* still in the queue and came before it, also after requests in the middle of
\* a chain were called off (annul_request) and the chain was broken in two.
WakersIn(q) ==
    \A k \in DOMAIN q : q[k].waitFor # None =>
        /\ \E j \in 1 .. k - 1 : q[j].id = q[k].waitFor /\ q[j].line = q[k].line
        /\ \A j \in DOMAIN q : q[j].waitFor = q[k].waitFor => j = k
EveryWaiterHasAWaker == WakersIn(queue)

\* A line that was written by an L2 cache stays modified in the cache until its
\* write-back is in the queue, and the write-back stays there until the memory
\* has taken it, although cache_insert_cb ignores whether send_update_message
\* found room.  The one step that lets go of a line is the insert of another
\* request for it, which marks a modified line valid.
Kept(l) == \/ l \notin unsaved
           \/ lines[l] = "modified"
           \/ \E k \in DOMAIN queue : queue[k].line = l /\ queue[k].id \notin Ids
DirtyLinesAreKept ==
    [][\A l \in Line : Kept(l) /\ ~Kept(l)' =>
                           lines[l] = "modified" /\ lines'[l] = "valid"]_vars

\* What the comment in find_dependency says the search is for, "to maintain a
\* chain of dependent entries, return the last entry in the chain": unless a
\* request was called off, requests of one line are handled one at a time.
OneRequestOfALine ==
    annulled = {} =>
        \A j, k \in DOMAIN queue :
            /\ j # k /\ queue[j].line = queue[k].line
            /\ queue[j].id \in Ids /\ queue[k].id \in Ids
            => queue[j].waitFor # None \/ queue[k].waitFor # None

\* What has become of a request, as the bus sees it.
Outcome(id) ==
    IF Len(requests) < id \/ ~Expected(requests[id].type) THEN "idle"
    ELSE IF id \in annulled THEN IF answers[id] = 0 THEN "withdrawn" ELSE "both"
    ELSE CASE answers[id] = 0 -> "asked"
           [] answers[id] = 1 -> "answered"
           [] OTHER           -> "answered twice"

Port == INSTANCE RequestPort WITH
            Ids <- Ids, status <- [id \in Ids |-> Outcome(id)]

\* The cache implements RequestPort towards the bus: the two events an answer of
\* the memory posts, requests called off at any moment, and answers that come
\* back for them never make it answer twice or after the bus has lost interest.
CacheKeepsPort == Port!Spec

\* Every READ and WRITE is answered or called off, and when the bus stops
\* asking both queues drain: the insert that waits for room in a full queue,
\* the write-backs that fill it and the memory's queue do not wait for one
\* another in a circle.
EverythingSettles ==
    /\ Port!Progress
    /\ <>[](queue = <<>> /\ memQueue = <<>>)

(***************************************************************************)
(* Why they hold: the inductive invariant of SharedCacheProofs             *)
(***************************************************************************)
UniqueIds(q) == \A j, k \in DOMAIN q : q[j].id = q[k].id => j = k

\* The requests so far and the write-backs they make, at most one each.
Known == 1 .. Len(requests) \cup {WriteBackOf(i) : i \in 1 .. Len(requests)}

Sent(id) == In(memQueue, id) \/ \E x \in accesses : x.id = id

\* What lies before an entry: it has not been sent down yet, has not made its
\* write-back yet, or has not been answered yet.
Ahead(e, events) == e.waitFor # None \/ e.events \cap events # {}
Unsent(e)     == Ahead(e, {"access", "down"})
Unwritten(e)  == e.id \in Ids /\ Ahead(e, {"access", "down", "response", "insert"})
Unanswered(e) == Ahead(e, {"access", "down", "response", "up"})

EventSets == {{"access"}, {"down"}, {"response"}, {"up"}, {"clear"},
              {"insert", "up"}, {"clear", "up"}, {"insert"}}

\* An entry waits for another one or has something scheduled, and it does
\* everything once: its identity is new to the memory when it is sent there, and
\* so is that of its write-back.  While the memory works on it, it waits.
EntryInv(e) ==
    /\ e.id \in Known
    /\ IF e.waitFor = None THEN e.events \in EventSets ELSE e.events = {}
    /\ Unsent(e) => ~Sent(e.id)
    /\ Unwritten(e) => ~Sent(WriteBackOf(e.id))
    /\ \A k \in DOMAIN memQueue :
           memQueue[k].id = e.id /\ memQueue[k].type # "UPDATE" =>
               e.events = {"response"}
    /\ IF e.id \in Ids
       THEN /\ e.type = requests[e.id].type /\ e.id \notin annulled
            /\ Unanswered(e) => answers[e.id] = 0
       ELSE e.type = "UPDATE" /\ e.events = {"down"}

\* The write-back an entry has yet to make is not in the queue.
WriteBacksAreNew(q) ==
    \A j, k \in DOMAIN q : Unwritten(q[j]) => q[k].id # WriteBackOf(q[j].id)

QueueInv == /\ UniqueIds(queue) /\ WriteBacksAreNew(queue)
            /\ \A k \in DOMAIN queue : EntryInv(queue[k])

MemInv == /\ UniqueIds(memQueue) /\ IsFiniteSet(accesses)
          /\ \A x \in accesses : x.id \in Known
          /\ \A k \in DOMAIN memQueue : memQueue[k].id \in Known

AnswerInv ==
    \A i \in Ids : /\ answers[i] \in {0, 1}
                   /\ i \in annulled \/ i > Len(requests) => answers[i] = 0
                   /\ i \in annulled => i <= Len(requests)

CacheInv == /\ TypeOK /\ QueueInv /\ MemInv /\ AnswerInv
            /\ EveryReturnFindsAnEntry /\ EveryWaiterHasAWaker
=============================================================================
