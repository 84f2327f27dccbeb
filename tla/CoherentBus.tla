---------------------------- MODULE CoherentBus ----------------------------
(***************************************************************************)
(* The coherent level of the simulated machine (MARSS): the lowest private *)
(* caches (L2, CoherentCache::CacheController with MESILogic) and the      *)
(* split-phase bus that connects them with the shared cache below.         *)
(*                                                                         *)
(* The address phase broadcasts a request to every other controller, which *)
(* answers with or without data; when all have answered, or an L2 cache    *)
(* has answered with data, the data phase takes the answer to the cache    *)
(* that asked.  The L1 caches above and the shared cache below are the     *)
(* environment; the shared cache keeps RequestPort (SharedCache shows it). *)
(*                                                                         *)
(* Events the simulator has posted stay enabled until they fire, in any    *)
(* order; an event that posts itself again because a queue is full stays.  *)
(***************************************************************************)
EXTENDS Integers, FiniteSets, SequencesExt

CONSTANTS
    NumCaches,          \* the L2 caches; controller NumCaches + 1 is the L3
    Line,
    Ways,               \* frames of an L2 cache: all lines share one set
    Message,            \* what the L1 caches ask: a cache, a type and a line
    Contents,           \* what the caches may hold at the start
    Uppers,             \* L1 caches above an L2 cache
    QueueSize,          \* entries of an L2 cache's pendingRequests_
    LocalReserve,       \* entries kept back from the L1 caches (20)
    SnoopReserve,       \* entries kept back from the bus (6)
    ActReserve,         \* entries a snoop hit or an answer needs (4)
    BusQueueSize,       \* entries of a controller's queue on the bus
    BusPendingSize,     \* entries of the bus's pendingRequests_
    LowerSize,          \* requests the shared cache takes at once
    MaxRequests         \* bound: requests of the L1 caches in a behaviour

Caches == 1 .. NumCaches
Lower  == NumCaches + 1
Controllers == 1 .. Lower
Ids == 1 .. MaxRequests

Type == {"READ", "WRITE", "UPDATE", "EVICT"}
Expected(type) == type \in {"READ", "WRITE"}

\* MESI states; "absent" is a line without a frame.
LineState == {"absent", "I", "S", "E", "M"}
NoLine == "no line"

ASSUME CoherentBusAssumption ==
    /\ NumCaches \in Nat \ {0} /\ Ways \in Nat \ {0} /\ Uppers \in 0 .. 2
    /\ IsFiniteSet(Line) /\ NoLine \notin Line
    /\ Message \subseteq [cache : Caches, type : {"READ", "WRITE", "UPDATE"},
                          line : Line]
    /\ Contents \subseteq [Caches -> [Line -> LineState]]
    /\ \A held \in Contents, c \in Caches :
           Cardinality({l \in Line : held[c][l] # "absent"}) <= Ways
    /\ {QueueSize, LocalReserve, SnoopReserve, ActReserve,
        BusQueueSize, BusPendingSize, LowerSize, MaxRequests} \subseteq Nat

(***************************************************************************)
(* A queue entry of an L2 cache is named by its role and by the L1 request *)
(* that caused it: the request itself, the snoop of a READ or WRITE or of  *)
(* an EVICT, the UPDATE or EVICT sent down to the bus, and the UPDATE or   *)
(* EVICT sent up to each of the L1 caches.                                 *)
(***************************************************************************)
Role == {"local", "snoop", "evict", "down"} \cup {"up1", "up2"}
Key == Role \X Ids
NoKey == <<"none", 0>>

\* What is scheduled for an entry: "answer" and "fill" send it up, and after a
\* fill the insert still has to complete ("drain").
Stage == {"wait", "access", "hit", "miss", "send", "asked", "answer", "fill",
          "drain"}

VARIABLES
    requests,           \* the requests of the L1 caches, in order
    queue,              \* pendingRequests_ of every L2 cache, in list order
    cstate,             \* the state of every line in every L2 cache
    busQueue,           \* requests waiting for the address bus
    address,            \* the event of the address bus
    last,               \* lastAccessQueue
    pending,            \* pendingRequests_ of the bus: broadcast, not answered
    dataBusBusy, dataEvents,
    lower,              \* requests the shared cache still has to answer
    failed,             \* an assert of the code has failed
    late,               \* an answer to a request that is no longer pending
    answers,            \* how often each request was answered to the L1 cache
    overlapped          \* a request came while another was under way

busVars == <<busQueue, address, last, pending, dataBusBusy, dataEvents>>
vars == <<requests, queue, cstate, busVars, lower, failed, late, answers,
          overlapped>>

Init ==
    /\ requests = <<>>
    /\ queue = [c \in Caches |-> <<>>]
    /\ cstate \in Contents
    /\ busQueue = [c \in Caches |-> <<>>]
    /\ address = [event |-> "idle", cache |-> 1]
    /\ last = 1
    /\ pending = <<>> /\ dataBusBusy = FALSE /\ dataEvents = {}
    /\ lower = {} /\ failed = FALSE /\ late = FALSE
    /\ answers = [i \in Ids |-> 0] /\ overlapped = FALSE
-----------------------------------------------------------------------------
(***************************************************************************)
(* The queue of a cache                                                    *)
(***************************************************************************)
In(q, key) == \E k \in DOMAIN q : q[k].key = key
PlaceOf(q, key) == CHOOSE k \in DOMAIN q : q[k].key = key
EntryOf(q, key) == q[PlaceOf(q, key)]
At(c, key, stage) == In(queue[c], key) /\ EntryOf(queue[c], key).stage = stage

NewEntry(key, type, line, stage) ==
    [key |-> key, type |-> type, line |-> line, stage |-> stage,
     frame |-> NoLine, waitFor |-> NoKey]

Move(q, key, stage) ==
    [k \in DOMAIN q |->
        IF q[k].key = key THEN [q[k] EXCEPT !.stage = stage] ELSE q[k]]

Without(q, key) == IF In(q, key) THEN RemoveAt(q, PlaceOf(q, key)) ELSE q

\* Fault: the entry that depends on the freed one is not woken.
ClearAndForget(q, key) == Without(q, key)
\* clear_entry_cb: the entry is freed and the one that depends on it accesses
\* the cache.
ClearEntry(q, key) ==
    LET rest == Without(q, key) IN
    [k \in DOMAIN rest |->
        IF rest[k].waitFor = key
        THEN [rest[k] EXCEPT !.waitFor = NoKey, !.stage = "access"]
        ELSE rest[k]]

\* find_dependency: the first entry of the line, or the last of those that
\* depend on it one after the other.
ChainEnd(q, first) ==
    LET Follow[n \in 0 .. Len(q)] ==
            IF n = 0 THEN first
            ELSE LET waiting == {k \in DOMAIN q : q[k].waitFor = Follow[n - 1]}
                 IN IF waiting = {} THEN Follow[n - 1]
                    ELSE q[CHOOSE k \in waiting : TRUE].key
    IN Follow[Len(q)]

FindDependency(q, line) ==
    LET same == {k \in DOMAIN q : q[k].line = line} IN
    IF same = {} THEN NoKey
    ELSE ChainEnd(q, q[CHOOSE k \in same : \A j \in same : k <= j].key)

Held(c) == {l \in Line : cstate[c][l] # "absent"}

\* send_message to the bus and to the L1 caches
Down(id, type, line) == <<NewEntry(<<"down", id>>, type, line, "send")>>
Up(id, type, line) ==
    [u \in 1 .. Uppers |->
        NewEntry(<<IF u = 1 THEN "up1" ELSE "up2", id>>, type, line, "answer")]

\* is_full(true, ...) of the other controllers, which the bus asks
CanBroadcast(c) ==
    /\ \A x \in Caches \ {c} : Len(queue[x]) < QueueSize - SnoopReserve
    /\ Cardinality(lower) < LowerSize

\* What cache_hit_cb asks before it handles a snoop, and complete_request
\* before it takes the data.
RoomToAct(c) == Len(queue[c]) < QueueSize - ActReserve
-----------------------------------------------------------------------------
(***************************************************************************)
(* The bus: answers of the controllers                                     *)
(***************************************************************************)
AllAnswered(p) == p.got = Controllers

\* Fault: the other controllers are marked but not told.
MarkOnly(q, below, i, rest) == [queue |-> q, lower |-> below]
\* annul_request of the controllers that have not answered: their snoops are
\* freed, and the shared cache forgets the request.
Annul(q, below, i, rest) ==
    [queue |-> [c \in Caches |-> IF c \in rest
                                 THEN ClearEntry(q[c], <<"snoop", i>>) ELSE q[c]],
     lower |-> IF Lower \in rest THEN below \ {i} ELSE below]

\* Fault: an answer that completes the set while the data bus is taken is not
\* looked at again when the bus becomes free.
FreeDataBus(p) == {}
\* set_data_bus looks for the first request all controllers have answered.
NextData(p) == {k \in DOMAIN p : AllAnswered(p[k])
                                 /\ \A j \in 1 .. k - 1 : ~AllAnswered(p[j])}

\* controller_request_cb for an answer of controller c to request i, sent with
\* the queues q and the shared cache's requests below.  Data of an L2 cache
\* calls the other controllers off, whether it came with the shared flag or
\* not.  An answer to a request that is not pending would be queued as a new
\* request.
Respond(c, i, data, shared, q, below) ==
    LET ks == {k \in DOMAIN pending : pending[k].id = i} IN
    IF ks = {}
    THEN /\ late' = TRUE
         /\ queue' = q /\ lower' = below
         /\ UNCHANGED <<pending, dataBusBusy, dataEvents>>
    ELSE LET k    == CHOOSE n \in ks : TRUE
             p    == pending[k]
             rest == Controllers \ (p.got \cup {c})
             off  == data /\ c \in Caches
             new  == [p EXCEPT
                        !.got    = IF off THEN Controllers ELSE @ \cup {c},
                        !.with   = IF data THEN c ELSE @,
                        !.shared = @ \/ (shared /\ c \in Caches)]
             told == IF off THEN Annul(q, below, i, rest)
                            ELSE [queue |-> q, lower |-> below]
         IN
         /\ pending' = [pending EXCEPT ![k] = new]
         /\ queue' = told.queue /\ lower' = told.lower
         /\ IF ~dataBusBusy /\ AllAnswered(new)
            THEN dataBusBusy' = TRUE
                 /\ dataEvents' = dataEvents \cup {<<"broadcast", i>>}
            ELSE UNCHANGED <<dataBusBusy, dataEvents>>
         /\ late' = late
-----------------------------------------------------------------------------
(***************************************************************************)
(* The L2 caches: requests of the L1 caches                                *)
(***************************************************************************)
\* Nothing is under way.
Quiet == /\ \A c \in Caches : queue[c] = <<>> /\ busQueue[c] = <<>>
         /\ pending = <<>>

\* handle_upper_interconnect.  The access that is made at once when a port is
\* free is the next event here.
LocalRequest(msg) ==
    LET c   == msg.cache
        dep == FindDependency(queue[c], msg.line)
        new == NewEntry(<<"local", Len(requests) + 1>>, msg.type, msg.line,
                        IF dep = NoKey THEN "access" ELSE "wait")
    IN
    /\ Len(requests) < MaxRequests
    /\ Len(queue[c]) < QueueSize - LocalReserve
    /\ requests' = Append(requests, msg)
    /\ queue' = [queue EXCEPT ![c] = Append(@, [new EXCEPT !.waitFor = dep])]
    /\ overlapped' = (overlapped \/ ~Quiet)
    /\ UNCHANGED <<cstate, busVars, lower, failed, late, answers>>

\* cache_access_cb: the tag is looked up now, the state is read when the hit is
\* handled.  The entry keeps the frame, named by the line it holds now.
CacheAccess(c, key) ==
    /\ At(c, key, "access")
    /\ LET line == EntryOf(queue[c], key).line
           hit  == line \in Held(c)
       IN queue' = [queue EXCEPT ![c] = [k \in DOMAIN @ |->
              IF @[k].key = key
              THEN [@[k] EXCEPT !.stage = IF hit THEN "hit" ELSE "miss",
                                !.frame = IF hit THEN line ELSE NoLine]
              ELSE @[k]]]
    /\ UNCHANGED <<requests, cstate, busVars, lower, failed, late, answers, overlapped>>

\* handle_local_hit of the lowest private cache.  A WRITE to a shared line goes
\* ahead and an EVICT follows on the bus.
LocalHit(c, id) ==
    LET key == <<"local", id>>
        e   == EntryOf(queue[c], key)
        old == cstate[c][e.frame]
        on  == IF \/ e.type = "UPDATE" /\ old # "M"
                  \/ old = "I" THEN "send" ELSE "answer"
    IN
    /\ At(c, key, "hit")
    /\ cstate' = IF e.type = "WRITE" /\ old # "I"
                 THEN [cstate EXCEPT ![c][e.frame] = "M"] ELSE cstate
    /\ queue' = [queue EXCEPT ![c] = Move(@, key, on)
           \o (IF e.type = "WRITE" /\ old = "S"
               THEN Down(id, "EVICT", e.line) ELSE <<>>)]
    /\ UNCHANGED <<requests, busVars, lower, failed, late, answers, overlapped>>

\* handle_local_miss
LocalMiss(c, id) ==
    /\ At(c, <<"local", id>>, "miss")
    /\ queue' = [queue EXCEPT ![c] = Move(@, <<"local", id>>, "send")]
    /\ UNCHANGED <<requests, cstate, busVars, lower, failed, late, answers, overlapped>>

\* wait_interconnect_cb towards the bus and controller_request_cb: a new
\* request.  A READ or WRITE stays in the queue until its data comes.
SendDown(c, key) ==
    LET e == EntryOf(queue[c], key) IN
    /\ At(c, key, "send")
    /\ Len(busQueue[c]) < BusQueueSize
    /\ busQueue' = [busQueue EXCEPT ![c] =
           Append(@, [id |-> key[2], type |-> e.type, line |-> e.line])]
    /\ address' = IF address.event = "idle"
                  THEN [address EXCEPT !.event = "poll"] ELSE address
    /\ queue' = [queue EXCEPT ![c] =
           IF Expected(e.type) THEN Move(@, key, "asked") ELSE ClearEntry(@, key)]
    /\ UNCHANGED <<requests, cstate, last, pending, dataBusBusy, dataEvents,
                   lower, failed, late, answers, overlapped>>

\* wait_interconnect_cb towards the L1 caches, for answers and for messages.
SendUp(c, key) ==
    LET e == EntryOf(queue[c], key) IN
    /\ \/ /\ At(c, key, "answer")
          /\ queue' = [queue EXCEPT ![c] = ClearEntry(@, key)]
       \/ /\ At(c, key, "fill")
          /\ queue' = [queue EXCEPT ![c] = Move(@, key, "drain")]
    /\ answers' = IF key[1] = "local" /\ Expected(e.type)
                  THEN [answers EXCEPT ![key[2]] = @ + 1] ELSE answers
    /\ UNCHANGED <<requests, cstate, busVars, lower, failed, late, overlapped>>

\* Fault: the completed insert answers once more.
DrainAndAnswer(c, id) ==
    /\ At(c, <<"local", id>>, "drain")
    /\ queue' = [queue EXCEPT ![c] = Move(@, <<"local", id>>, "answer")]
    /\ UNCHANGED <<requests, cstate, busVars, lower, failed, late, answers, overlapped>>
\* cache_insert_cb, cache_insert_complete_cb and clear_entry_cb after a fill
Drain(c, id) ==
    /\ At(c, <<"local", id>>, "drain")
    /\ queue' = [queue EXCEPT ![c] = ClearEntry(@, <<"local", id>>)]
    /\ UNCHANGED <<requests, cstate, busVars, lower, failed, late, answers, overlapped>>
-----------------------------------------------------------------------------
(***************************************************************************)
(* The L2 caches: snoops of the bus                                        *)
(***************************************************************************)
\* Fault: a WRITE of another cache leaves a shared copy in place.
SnoopedKeepsShared(old, type) ==
    IF type = "READ" THEN (IF old = "I" THEN "I" ELSE "S")
                     ELSE (IF old = "S" THEN "S" ELSE "I")
\* handle_interconn_hit: what is left of a line that another cache asks for.
Snooped(old, type) == IF type = "READ" /\ old # "I" THEN "S" ELSE "I"

\* Fault: a shared line is announced as shared to a writer, too.
SharedToAll(old, type) == old = "S" \/ (type = "READ" /\ old # "I")
\* isShared of the answer: the cache keeps a copy.
AnswersShared(old, type) == type = "READ" /\ old # "I"

\* handle_interconn_hit for a READ or WRITE, which needs room for the messages
\* it makes: a modified line goes down, the L1 caches are told, and the answer
\* has the data unless the line is invalid.
SnoopHit(c, id) ==
    LET key == <<"snoop", id>>
        e   == EntryOf(queue[c], key)
        old == cstate[c][e.frame]
        down == IF old = "M" THEN Down(id, "UPDATE", e.line) ELSE <<>>
        up   == IF old # "I" /\ e.type = "WRITE" THEN Up(id, "EVICT", e.line)
                ELSE IF old = "E" THEN Up(id, "UPDATE", e.line) ELSE <<>>
        mine == ClearEntry(queue[c] \o down \o up, key)
    IN
    /\ At(c, key, "hit")
    /\ RoomToAct(c)
    /\ cstate' = [cstate EXCEPT ![c][e.frame] = Snooped(@, e.type)]
    /\ Respond(c, id, old # "I", AnswersShared(old, e.type),
               [queue EXCEPT ![c] = mine], lower)
    /\ UNCHANGED <<requests, busQueue, address, last, failed, answers, overlapped>>

\* handle_interconn_miss
SnoopMiss(c, id) ==
    LET key == <<"snoop", id>> IN
    /\ At(c, key, "miss")
    /\ Respond(c, id, FALSE, FALSE,
               [queue EXCEPT ![c] = ClearEntry(@, key)], lower)
    /\ UNCHANGED <<requests, cstate, busQueue, address, last, failed, answers, overlapped>>

\* The EVICT another cache sends after a WRITE to a shared line: nobody answers.
SnoopEvict(c, id) ==
    LET key == <<"evict", id>>
        e   == EntryOf(queue[c], key)
    IN
    /\ \/ /\ At(c, key, "hit") /\ RoomToAct(c)
          /\ cstate' = [cstate EXCEPT ![c][e.frame] = "I"]
          /\ queue' = [queue EXCEPT ![c] =
                          ClearEntry(@ \o Up(id, "EVICT", e.line), key)]
       \/ /\ At(c, key, "miss")
          /\ queue' = [queue EXCEPT ![c] = ClearEntry(@, key)]
          /\ cstate' = cstate
    /\ UNCHANGED <<requests, busVars, lower, failed, late, answers, overlapped>>

\* The shared cache answers with the data of the line.
LowerAnswer(id) ==
    /\ id \in lower
    /\ Respond(Lower, id, TRUE, FALSE, queue, lower \ {id})
    /\ UNCHANGED <<requests, cstate, busQueue, address, last, failed, answers, overlapped>>
-----------------------------------------------------------------------------
(***************************************************************************)
(* The bus: the address phase                                              *)
(***************************************************************************)
\* arbitrate_round_robin: the first controller after the last one served that
\* has a request; the shared cache never has one.
Granted(q) ==
    LET ready    == {c \in Caches : q[c] # <<>>}
        After(c) == (c - last - 1) % Lower
    IN {c \in ready : \A d \in ready : After(c) <= After(d)}

\* broadcast_cb(NULL): arbitrate, or come back and poll again.
Arbitrate(q) ==
    IF Granted(q) = {}
    THEN address' = [address EXCEPT !.event = "poll"] /\ last' = last
    ELSE \E c \in Granted(q) :
            address' = [event |-> "broadcast", cache |-> c] /\ last' = c

BusPoll ==
    /\ address.event = "poll" /\ Granted(busQueue) # {}
    /\ Arbitrate(busQueue)
    /\ UNCHANGED <<requests, queue, cstate, busQueue, pending, dataBusBusy,
                   dataEvents, lower, failed, late, answers, overlapped>>

\* broadcast_cb with a request: when it cannot be broadcast its turn is over.
BusBroadcast ==
    LET msg == Head(busQueue[address.cache])
        blocked == \/ Len(pending) >= BusPendingSize /\ msg.type # "UPDATE"
                   \/ ~CanBroadcast(address.cache)
    IN
    /\ address.event = "broadcast"
    /\ address' = [address EXCEPT !.event =
                      IF blocked THEN "poll" ELSE "completed"]
    /\ UNCHANGED <<requests, queue, cstate, busQueue, last, pending,
                   dataBusBusy, dataEvents, lower, failed, late, answers, overlapped>>

\* handle_lower_interconnect of the other caches: an UPDATE has data and is
\* ignored, everything else is snooped.
Broadcast(c, msg) ==
    LET role == IF msg.type = "EVICT" THEN "evict" ELSE "snoop"
        snoop == NewEntry(<<role, msg.id>>, msg.type, msg.line, "access")
    IN
    /\ queue' = [x \in Caches |-> IF x = c \/ msg.type = "UPDATE" THEN queue[x]
                                   ELSE Append(queue[x], snoop)]
    /\ lower' = IF Expected(msg.type) THEN lower \cup {msg.id} ELSE lower

\* broadcast_completed_cb.  Room is asked for again, since it may be gone; an
\* entry of pendingRequests_ is not, and must be there.
BusCompleted ==
    LET c    == address.cache
        msg  == Head(busQueue[c])
        rest == [busQueue EXCEPT ![c] = Tail(@)]
    IN
    /\ address.event = "completed"
    /\ IF CanBroadcast(c)
       THEN /\ IF Expected(msg.type)
               THEN /\ failed' = (Len(pending) >= BusPendingSize)
                    /\ pending' = Append(pending,
                          [id |-> msg.id, type |-> msg.type, cache |-> c,
                           got |-> {c}, with |-> 0, shared |-> FALSE])
               ELSE UNCHANGED <<failed, pending>>
            /\ Broadcast(c, msg)
            /\ busQueue' = rest
            /\ Arbitrate(rest)
       ELSE /\ address' = [address EXCEPT !.event = "poll"]
            /\ UNCHANGED <<queue, busQueue, last, pending, lower, failed>>
    /\ UNCHANGED <<requests, cstate, dataBusBusy, dataEvents, late, answers, overlapped>>
-----------------------------------------------------------------------------
(***************************************************************************)
(* The bus: the data phase                                                 *)
(***************************************************************************)
PendingPlace(id) == CHOOSE k \in DOMAIN pending : pending[k].id = id
PendingOf(id)    == pending[PendingPlace(id)]

\* data_broadcast_cb
DataBroadcast(id) ==
    /\ <<"broadcast", id>> \in dataEvents
    /\ CanBroadcast(PendingOf(id).cache)
    /\ dataEvents' = (dataEvents \ {<<"broadcast", id>>})
                     \cup {<<"completed", id>>}
    /\ UNCHANGED <<requests, queue, cstate, busQueue, address, last, pending,
                   dataBusBusy, lower, failed, late, answers, overlapped>>

\* get_new_state: data that comes with the shared flag for a WRITE invalidates an
\* exclusive line and is an assert in the other states.
GetNewState(old, type, shared) ==
    IF type = "WRITE"
    THEN IF ~shared THEN "M" ELSE IF old = "E" THEN "I" ELSE "assert"
    ELSE IF shared THEN "S" ELSE IF old = "I" THEN "E" ELSE old

\* Fault: every line finds an empty frame.
AlwaysEmpty(c, line) == {line}
\* CacheLines::insert: the frame a line gets, named by the line that is in it
\* now: the one the line has, an empty one, or that of a victim.
Frames(c, line) ==
    IF line \in Held(c) \/ Cardinality(Held(c)) < Ways THEN {line} ELSE Held(c)

\* The frames of a cache when `line' takes that of `victim'.
Filled(states, line, victim, state) ==
    [l \in Line |-> IF l = line THEN state
                    ELSE IF l = victim THEN "absent" ELSE states[l]]

\* Entries that have found the victim's frame keep pointing to it; the one that
\* asked gets it, and sends the line up.
Retaken(e, key, line, victim) ==
    [e EXCEPT !.frame = IF @ = victim \/ e.key = key THEN line ELSE @,
              !.stage = IF e.key = key THEN "fill" ELSE @]
Retake(q, key, line, victim) ==
    [k \in DOMAIN q |-> Retaken(q[k], key, line, victim)]

\* CoherentCache complete_request with MESILogic::handle_cache_insert and
\* complete_request.  An entry whose frame does not hold its line takes one.
\* A line that becomes invalid, or the victim, is called off above.
\* The victim's old contents are sent on under its own tag, since
\* is_line_in_use compares a line number with an address and is never true.
CompleteRequest(c, id, shared) ==
    LET key  == <<"local", id>>
        e    == EntryOf(queue[c], key)
        insert == e.frame # e.line
    IN \E victim \in IF insert THEN Frames(c, e.line) ELSE {e.line} :
       LET old  == IF victim \in Held(c) THEN cstate[c][victim] ELSE "I"
           down == IF insert /\ old = "M" THEN Down(id, "UPDATE", victim) ELSE <<>>
           new  == GetNewState(IF insert THEN "I" ELSE old, e.type, shared)
           up   == IF old # "I" /\ (insert \/ new = "I")
                   THEN Up(id, "EVICT", victim) ELSE <<>>
       IN
       /\ cstate' = [cstate EXCEPT ![c] =
             Filled(@, e.line, victim, IF new = "assert" THEN "I" ELSE new)]
       /\ queue' = [queue EXCEPT ![c] =
             Retake(@, key, e.line, victim) \o down \o up]
       /\ failed' = (new = "assert")

\* data_broadcast_completed_cb and set_data_bus.  The cache that asked must
\* take the data: assert(ret).
DataCompleted(id) ==
    LET p    == PendingOf(id)
        rest == RemoveAt(pending, PendingPlace(id))
    IN
    /\ <<"completed", id>> \in dataEvents
    /\ IF RoomToAct(p.cache)
       THEN CompleteRequest(p.cache, id, p.shared)
       ELSE failed' = TRUE /\ UNCHANGED <<queue, cstate>>
    /\ pending' = rest
    /\ dataBusBusy' = (NextData(rest) # {})
    /\ dataEvents' = (dataEvents \ {<<"completed", id>>})
                     \cup {<<"broadcast", rest[k].id>> : k \in NextData(rest)}
    /\ UNCHANGED <<requests, busQueue, address, last, lower, late, answers, overlapped>>
-----------------------------------------------------------------------------
\* An event of an entry of cache c.
EventOf(c, key) ==
    \/ CacheAccess(c, key) \/ SendDown(c, key) \/ SendUp(c, key)
    \/ /\ key[1] = "local"
       /\ LocalHit(c, key[2]) \/ LocalMiss(c, key[2]) \/ Drain(c, key[2])
    \/ key[1] = "snoop" /\ (SnoopHit(c, key[2]) \/ SnoopMiss(c, key[2]))
    \/ key[1] = "evict" /\ SnoopEvict(c, key[2])

AddressBus == ~failed /\ (BusPoll \/ BusBroadcast \/ BusCompleted)

OtherEvent ==
    /\ ~failed
    /\ \/ \E c \in Caches : \E k \in DOMAIN queue[c] : EventOf(c, queue[c][k].key)
       \/ \E ev \in dataEvents : DataBroadcast(ev[2]) \/ DataCompleted(ev[2])
       \/ \E id \in lower : LowerAnswer(id)

Next == \/ ~failed /\ \E msg \in Message : LocalRequest(msg)
        \/ AddressBus \/ OtherEvent

\* The main loop runs every event when it is due: the address bus, which may
\* poll for ever, and the events of caches, data bus and shared cache, each of
\* which brings some request further (SharedCache's EverythingSettles); the L1
\* caches may stop asking.
Spec     == Init /\ [][Next]_vars
FairSpec == Spec /\ WF_vars(AddressBus) /\ WF_vars(OtherEvent)
-----------------------------------------------------------------------------
(***************************************************************************)
(* Properties                                                              *)
(***************************************************************************)
QueueEntry == [key : Key, type : Type, line : Line, stage : Stage,
               frame : Line \cup {NoLine}, waitFor : Key \cup {NoKey}]
BusMessage == [id : Ids, type : Type, line : Line]
DataEvent == {"broadcast", "completed"} \X Ids

Typed ==
    /\ requests \in Seq(Message) /\ Len(requests) <= MaxRequests
    /\ queue \in [Caches -> Seq(QueueEntry)]
    /\ cstate \in [Caches -> [Line -> LineState]]
    /\ busQueue \in [Caches -> Seq(BusMessage)]
    /\ address \in [event : {"idle", "poll", "broadcast", "completed"},
                    cache : Caches]
    /\ last \in Controllers
    /\ pending \in Seq([id : Ids, type : Type, cache : Caches,
                        got : SUBSET Controllers, with : {0} \cup Controllers,
                        shared : BOOLEAN])
    /\ dataBusBusy \in BOOLEAN /\ dataEvents \subseteq DataEvent
    /\ lower \subseteq Ids /\ failed \in BOOLEAN /\ late \in BOOLEAN
    /\ answers \in [Ids -> Nat]
    /\ overlapped \in BOOLEAN

\* The types of all variables, and the capacity of every queue: alloc never
\* returns NULL where the code asserts an entry.
TypeOK ==
    /\ Typed /\ Len(pending) <= BusPendingSize
    /\ \A c \in Caches : /\ Len(queue[c]) <= QueueSize
                         /\ Len(busQueue[c]) <= BusQueueSize
                         /\ Cardinality(Held(c)) <= Ways

\* The data bus carries one answer at a time, and it is never left idle while
\* a request has all its answers: an answer that comes while the bus is busy is
\* not announced again, so set_data_bus must find it.
DataBusNeverSleeps ==
    /\ Cardinality(dataEvents) = IF dataBusBusy THEN 1 ELSE 0
    /\ \A k \in DOMAIN pending : AllAnswered(pending[k]) => dataBusBusy
    /\ \A ev \in dataEvents : \E k \in DOMAIN pending :
           pending[k].id = ev[2] /\ AllAnswered(pending[k])

\* A controller works on a request exactly as long as the bus waits for its
\* answer: an answer of a controller that was called off would find no pending
\* request and be broadcast as a new one, and a controller that has forgotten a
\* request would leave the bus waiting.
AnswersAreAwaited ==
    /\ ~late
    /\ \A id \in Ids, c \in Controllers :
          (IF c = Lower THEN id \in lower ELSE In(queue[c], <<"snoop", id>>))
          <=> \E k \in DOMAIN pending : /\ pending[k].id = id
                                        /\ c \notin pending[k].got

\* No assert of the bus or of MESILogic fails: a request that is broadcast
\* still finds its entry in pendingRequests_, the cache that asked takes its
\* data, and data for a WRITE never comes with the shared flag.
NoAssertFails == ~failed

\* One writer or several readers: a cache that owns a line is the only one that
\* holds it.
SingleOwner ==
    \A c, d \in Caches, l \in Line :
        c # d /\ cstate[c][l] \in {"E", "M"} => cstate[d][l] \in {"absent", "I"}

\* Requests that do not overlap keep the caches coherent: whatever the order in
\* which snoops, EVICTs and write-backs of one request run, when the last of
\* them is over no other cache keeps a copy beside a written line.
CoherentWhenQuiet == Quiet /\ ~overlapped => SingleOwner

Outcome(id) ==
    IF Len(requests) < id \/ ~Expected(requests[id].type) THEN "idle"
    ELSE IF answers[id] > 1 THEN "answered twice"
    ELSE IF answers[id] = 1 THEN "answered" ELSE "asked"

Port == INSTANCE RequestPort WITH
            Ids <- Ids, status <- [id \in Ids |-> Outcome(id)]

\* The L2 caches implement RequestPort towards the L1 caches: whatever other
\* caches ask for the line meanwhile, a READ or WRITE is answered once.
CachesKeepPort == Port!Spec

\* Every READ and WRITE is answered, and when the L1 caches stop asking all
\* queues drain: requests that give up their turn on the address bus because a
\* queue is full get another one.
EverythingSettles == Port!Progress /\ <>[]Quiet
(***************************************************************************)
(* Why they hold: the inductive invariants of CoherentBusProofs            *)
(***************************************************************************)
UniqueKeys(q) == \A j, k \in DOMAIN q : q[j].key = q[k].key => j = k

Offspring == {"down", "up1", "up2"}

\* Cache c has made no messages because of request i, and has not heard of it.
NoOffspring(c, i) == \A r \in Offspring : ~In(queue[c], <<r, i>>)
Untouched(c, i)   == /\ NoOffspring(c, i)
                     /\ ~In(queue[c], <<"snoop", i>>) /\ ~In(queue[c], <<"evict", i>>)
OthersUntouched(c, i) == \A x \in Caches \ {c} : Untouched(x, i)

\* What request i is on the bus: a READ or WRITE, or the EVICT of a write hit.
Heard(type) == type # "UPDATE"
EvictQueued(c, i) == \E m \in ToSet(busQueue[c]) : m.id = i /\ m.type = "EVICT"

Unsent   == {"wait", "access", "hit", "miss", "send"}
LookedUp == {"access", "hit", "miss"}

LocalAt(c, i, stages) ==
    \E e \in ToSet(queue[c]) : e.key = <<"local", i>> /\ e.stage \in stages

\* An entry has the stages of its role and is about the request it is named
\* after.  A request that is still to be sent has left no trace elsewhere.
LocalInv(c, e) == LET i == e.key[2] IN
    /\ requests[i] = [cache |-> c, type |-> e.type, line |-> e.line]
    /\ e.stage \in {"asked", "fill", "drain"} => Expected(e.type)
    /\ answers[i] = IF e.stage = "drain" THEN 1 ELSE 0
    /\ e.stage \in Unsent \cup {"asked"} => NoOffspring(c, i) /\ ~EvictQueued(c, i)
    /\ e.stage \in Unsent => OthersUntouched(c, i)
SnoopInv(c, e) == LET i == e.key[2] IN
    /\ e.stage \in LookedUp
    /\ Expected(e.type) /\ e.type = requests[i].type /\ e.line = requests[i].line
    /\ NoOffspring(c, i) /\ ~In(queue[c], <<"evict", i>>)
EvictInv(c, e) == LET i == e.key[2] IN
    /\ e.stage \in LookedUp /\ e.line = requests[i].line
    /\ NoOffspring(c, i) /\ ~In(queue[c], <<"snoop", i>>)
DownInv(c, e) == LET i == e.key[2] IN
    /\ e.stage = "send" /\ e.type \in {"UPDATE", "EVICT"}
    /\ e.type = "EVICT" => /\ requests[i].cache = c /\ e.line = requests[i].line
                           /\ ~EvictQueued(c, i) /\ OthersUntouched(c, i)

EntryInv(c, e) ==
    /\ e.key[2] \in 1 .. Len(requests)
    /\ e.frame # NoLine => e.frame \in Held(c)
    /\ e.stage = "hit" => e.frame # NoLine
    /\ e.waitFor # NoKey <=> e.stage = "wait"
    /\ e.key[1] \in {"snoop", "evict"} => requests[e.key[2]].cache # c
    /\ e.key[1] = "local" => LocalInv(c, e)
    /\ e.key[1] = "snoop" => SnoopInv(c, e)
    /\ e.key[1] = "evict" => EvictInv(c, e)
    /\ e.key[1] = "down"  => DownInv(c, e)
    /\ e.key[1] \in {"up1", "up2"} => e.stage = "answer"

QueueInv ==
    \A c \in Caches : /\ UniqueKeys(queue[c])
                      /\ \A e \in ToSet(queue[c]) : EntryInv(c, e)

\* A request on its way to the address bus: the cache that made it waits, the
\* others do not know of it.
MessageInv(c, m) ==
    /\ m.id \in 1 .. Len(requests)
    /\ Heard(m.type) =>
           /\ requests[m.id].cache = c /\ m.line = requests[m.id].line
           /\ OthersUntouched(c, m.id)
    /\ Expected(m.type) =>
           /\ m.type = requests[m.id].type /\ LocalAt(c, m.id, {"asked"})
           /\ \A p \in ToSet(pending) : p.id # m.id
BusQueueInv ==
    \A c \in Caches :
        /\ \A m \in ToSet(busQueue[c]) : MessageInv(c, m)
        /\ \A j, k \in DOMAIN busQueue[c] : LET m == busQueue[c][j]
                                                n == busQueue[c][k] IN
               m.id = n.id /\ Heard(m.type) /\ Heard(n.type) => j = k

\* A request that was broadcast: the cache that made it waits for its data.
PendingInv ==
    /\ \A j, k \in DOMAIN pending : pending[j].id = pending[k].id => j = k
    /\ \A p \in ToSet(pending) :
           /\ p.id \in 1 .. Len(requests)
           /\ p.cache = requests[p.id].cache /\ p.type = requests[p.id].type
           /\ LocalAt(p.cache, p.id, {"asked"})
           /\ p.cache \in p.got /\ (p.shared => p.type = "READ")

\* The address bus has a request in hand from the arbitration on, and an entry
\* of pendingRequests_ is free when its broadcast is over.
AddressInv ==
    LET c == address.cache IN
    /\ address.event \in {"broadcast", "completed"} => busQueue[c] # <<>>
    /\ address.event = "completed" /\ Heard(Head(busQueue[c]).type) =>
           Len(pending) < BusPendingSize

AnswerInv == \A i \in Ids : /\ answers[i] \in {0, 1}
                            /\ i > Len(requests) => answers[i] = 0

BusInv == /\ Typed /\ QueueInv /\ BusQueueInv /\ PendingInv /\ AddressInv /\ AnswerInv
          /\ Len(pending) <= BusPendingSize
          /\ \A c \in Caches : /\ Len(busQueue[c]) <= BusQueueSize
                               /\ Cardinality(Held(c)) <= Ways
          /\ DataBusNeverSleeps /\ AnswersAreAwaited

\* The requests that have an entry in some queue, and a load at which the queues
\* have room for what each of them needs in a cache.
UnderWay == {i \in Ids : \E c \in Caches : \E e \in ToSet(queue[c]) : e.key[2] = i}
Light    == 4 * Cardinality(UnderWay) < QueueSize - ActReserve

\* Requests that do not overlap: nothing is about another request than the last,
\* and while that one runs, only its own line may have a writer beside a reader,
\* as long as the EVICT is on its way.
Alone ==
    LET n == Len(requests) IN
    /\ \A c \in Caches : /\ \A e \in ToSet(queue[c]) : e.key[2] = n
                         /\ \A m \in ToSet(busQueue[c]) : m.id = n
    /\ \A p \in ToSet(pending) : p.id = n
\* An EVICT of line l that cache x has sent because of a write hit is yet to
\* reach cache y.
EvictOnWay(x, y, l) ==
    \/ \E e \in ToSet(queue[x]) : e.key[1] = "down" /\ e.type = "EVICT" /\ e.line = l
    \/ \E m \in ToSet(busQueue[x]) : m.type = "EVICT" /\ m.line = l
    \/ \E e \in ToSet(queue[y]) :
           e.key[1] = "evict" /\ e.line = l /\ requests[e.key[2]].cache = x

Gone == {"absent", "I"}
Exclusive(x, y, l) == cstate[x][l] \in {"E", "M"} => cstate[y][l] \in Gone

\* What an entry has found in its cache is still there.
Found(c, e) ==
    /\ e.stage = "hit" => e.frame = e.line
    /\ e.stage = "miss" => e.frame = NoLine /\ cstate[c][e.line] = "absent"
    /\ e.key[1] = "local" /\ e.stage \in {"send", "asked"} /\ Expected(e.type) =>
           IF e.frame = NoLine THEN cstate[c][e.line] = "absent"
           ELSE e.frame = e.line /\ cstate[c][e.line] = "I"

\* A cache that has answered has given the line up, or shares it with a reader.
GaveUp(p) == \A x \in Caches \cap p.got : x # p.cache =>
    LET s == cstate[x][requests[p.id].line] IN
    s \in Gone \/ (p.type = "READ" /\ p.shared /\ s = "S")

OneAtATime ==
    /\ Alone
    /\ \A x, y \in Caches, l \in Line :
           x # y => Exclusive(x, y, l) \/ EvictOnWay(x, y, l)
    /\ \A c \in Caches : \A e \in ToSet(queue[c]) : Found(c, e)
    /\ \A p \in ToSet(pending) : GaveUp(p)
CoherentInv == ~overlapped => OneAtATime

\* What it takes: the caches start with one owner for each line, and a WRITE
\* finds no second copy, which the first answer with data would leave behind.
OwnedOnce == \A held \in Contents : \A c, d \in Caches, l \in Line :
                 c # d /\ held[c][l] \in {"E", "M"} => held[d][l] \in Gone
NoSecondCopy == NumCaches <= 2 \/ \A msg \in Message : msg.type # "WRITE"
=============================================================================
