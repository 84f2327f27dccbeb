------------------------- MODULE SharedCacheProofs -------------------------
(***************************************************************************)
(* What holds of the shared cache and the memory controller below it for   *)
(* every number of lines, frames, queue entries and requests.              *)
(***************************************************************************)
EXTENDS SharedCache, DataLemmas

(***************************************************************************)
(* The operations on the queue                                             *)
(***************************************************************************)
\* The entry with an identity, wherever it stands.
LEMMA PlaceProperties ==
    ASSUME NEW S, NEW q \in Seq(S), NEW id, In(q, id)
    PROVE  /\ PlaceOf(q, id) \in 1 .. Len(q) /\ q[PlaceOf(q, id)].id = id
           /\ EntryOf(q, id) = q[PlaceOf(q, id)]
           /\ UniqueIds(q) => \A k \in 1 .. Len(q) : q[k].id = id => k = PlaceOf(q, id)
<1>1. DOMAIN q = 1 .. Len(q)
      BY LenProperties
<1>2. \E k \in 1 .. Len(q) : q[k].id = id
      BY <1>1 DEF In
<1>3. PlaceOf(q, id) \in 1 .. Len(q) /\ q[PlaceOf(q, id)].id = id
      BY <1>1, <1>2 DEF PlaceOf
<1> QED BY <1>1, <1>3 DEF UniqueIds, EntryOf

\* Other events are due for one entry; nothing else changes.
LEMMA ScheduleProperties ==
    ASSUME NEW q \in Seq(Entry), NEW id, NEW due, NEW new \in SUBSET Event
    PROVE  LET p == Schedule(q, id, due, new) IN
           /\ p \in Seq(Entry) /\ Len(p) = Len(q)
           /\ \A k \in 1 .. Len(q) :
                  /\ p[k].id = q[k].id /\ p[k].type = q[k].type
                  /\ p[k].line = q[k].line /\ p[k].waitFor = q[k].waitFor
                  /\ q[k].id = id => p[k].events = (q[k].events \ due) \cup new
                  /\ q[k].id # id => p[k] = q[k]
<1> DEFINE p == Schedule(q, id, due, new)
<1>1. Len(q) \in Nat /\ DOMAIN q = 1 .. Len(q) /\ \A k \in 1 .. Len(q) : q[k] \in Entry
      BY LenProperties
<1>2. p = [k \in 1 .. Len(q) |->
              IF q[k].id = id
              THEN [q[k] EXCEPT !.events = (q[k].events \ due) \cup new] ELSE q[k]]
      BY <1>1 DEF Schedule
<1>3. ASSUME NEW k \in 1 .. Len(q)
      PROVE  /\ p[k] \in Entry
             /\ p[k].id = q[k].id /\ p[k].type = q[k].type
             /\ p[k].line = q[k].line /\ p[k].waitFor = q[k].waitFor
             /\ q[k].id = id => p[k].events = (q[k].events \ due) \cup new
             /\ q[k].id # id => p[k] = q[k]
  <2>1. q[k] \in Entry /\ (q[k].events \ due) \cup new \in SUBSET Event
        BY <1>1, <1>3 DEF Entry
  <2>2. CASE q[k].id = id
    <3>1. p[k] = [q[k] EXCEPT !.events = (q[k].events \ due) \cup new]
          BY <1>2, <2>2
    <3> HIDE DEF p
    <3> QED BY <2>1, <2>2, <3>1 DEF Entry
  <2>3. CASE q[k].id # id
    <3>1. p[k] = q[k]
          BY <1>2, <2>3
    <3> HIDE DEF p
    <3> QED BY <2>1, <2>3, <3>1
  <2> QED BY <2>2, <2>3
<1>4. p \in [1 .. Len(q) -> Entry]
  <2>1. p = [k \in 1 .. Len(q) |-> p[k]]
        BY <1>2
  <2> HIDE DEF p
  <2> QED BY <1>3, <2>1
<1>5. p \in Seq(Entry) /\ Len(p) = Len(q)
  <2> HIDE DEF p
  <2> QED BY <1>1, <1>4, SeqDef
<1> HIDE DEF p
<1>6. QED
  BY <1>3, <1>5 DEF p

\* p is q after the entry id was freed and whoever waited for it was woken: the
\* others keep their order, their identities, types and lines.
Freed(q, p, id) ==
    \E m \in [1 .. Len(p) -> 1 .. Len(q)] :
        /\ \A j, k \in 1 .. Len(p) : j < k <=> m[j] < m[k]
        /\ \A k \in 1 .. Len(p) :
               /\ p[k].id = q[m[k]].id /\ p[k].id # id /\ p[k].type = q[m[k]].type
               /\ p[k].line = q[m[k]].line
               /\ q[m[k]].waitFor = id => p[k].waitFor = None /\ p[k].events = {"access"}
               /\ q[m[k]].waitFor # id => p[k] = q[m[k]]
        /\ \A i \in 1 .. Len(q) : q[i].id # id => \E k \in 1 .. Len(p) : m[k] = i

LEMMA WakeProperties ==
    ASSUME NEW q \in Seq(Entry), NEW id
    PROVE  LET p == Wake(q, id) IN
           /\ p \in Seq(Entry) /\ Len(p) = Len(q)
           /\ \A k \in 1 .. Len(q) :
                  /\ p[k].id = q[k].id /\ p[k].type = q[k].type
                  /\ p[k].line = q[k].line
                  /\ q[k].waitFor = id => p[k].waitFor = None /\ p[k].events = {"access"}
                  /\ q[k].waitFor # id => p[k] = q[k]
<1> DEFINE p == Wake(q, id)
<1>1. Len(q) \in Nat /\ DOMAIN q = 1 .. Len(q) /\ \A k \in 1 .. Len(q) : q[k] \in Entry
      BY LenProperties
<1>2. p = [k \in 1 .. Len(q) |->
              IF q[k].waitFor = id
              THEN [q[k] EXCEPT !.waitFor = None, !.events = {"access"}] ELSE q[k]]
      BY <1>1 DEF Wake
<1>3. ASSUME NEW k \in 1 .. Len(q)
      PROVE  /\ p[k] \in Entry
             /\ p[k].id = q[k].id /\ p[k].type = q[k].type /\ p[k].line = q[k].line
             /\ q[k].waitFor = id => p[k].waitFor = None /\ p[k].events = {"access"}
             /\ q[k].waitFor # id => p[k] = q[k]
  <2>1. q[k] \in Entry /\ None \in AnyId \cup {None} /\ {"access"} \in SUBSET Event
        BY <1>1, <1>3 DEF Event
  <2>2. CASE q[k].waitFor = id
    <3>1. p[k] = [q[k] EXCEPT !.waitFor = None, !.events = {"access"}]
          BY <1>2, <2>2
    <3> HIDE DEF p
    <3> QED BY <2>1, <2>2, <3>1 DEF Entry
  <2>3. CASE q[k].waitFor # id
    <3>1. p[k] = q[k]
          BY <1>2, <2>3
    <3> HIDE DEF p
    <3> QED BY <2>1, <2>3, <3>1
  <2> QED BY <2>2, <2>3
<1>4. p \in [1 .. Len(q) -> Entry]
  <2>1. p = [k \in 1 .. Len(q) |-> p[k]]
        BY <1>2
  <2> HIDE DEF p
  <2> QED BY <1>3, <2>1
<1>5. p \in Seq(Entry) /\ Len(p) = Len(q)
  <2> HIDE DEF p
  <2> QED BY <1>1, <1>4, SeqDef
<1> HIDE DEF p
<1>6. QED
  BY <1>3, <1>5 DEF p

LEMMA FreeAndWake ==
    ASSUME NEW q \in Seq(Entry), NEW id, UniqueIds(q), In(q, id)
    PROVE  LET p == Wake(Without(q, id), id) IN
           p \in Seq(Entry) /\ Len(p) = Len(q) - 1 /\ Freed(q, p, id)
<1> DEFINE w == Without(q, id)
           p == Wake(w, id)
           place == PlaceOf(q, id)
<1>1. /\ place \in 1 .. Len(q) /\ q[place].id = id
      /\ \A k \in 1 .. Len(q) : q[k].id = id => k = place
      BY PlaceProperties
<1>2. w = RemoveAt(q, place)
      BY DEF Without
<1>3. w \in Seq(Entry) /\ Len(w) = Len(q) - 1
      BY <1>1, <1>2, RemoveAtProperties
<1>4. PICK m \in [1 .. Len(q) - 1 -> 1 .. Len(q)] :
               /\ \A k \in 1 .. Len(q) - 1 : m[k] # place /\ w[k] = q[m[k]]
               /\ \A j, k \in 1 .. Len(q) - 1 : j < k <=> m[j] < m[k]
               /\ \A i \in 1 .. Len(q) : i # place => \E k \in 1 .. Len(q) - 1 : m[k] = i
  <2> HIDE DEF place
  <2>1. Erased(q, RemoveAt(q, place), place)
        BY <1>1, RemoveAtErases
  <2> HIDE DEF w
  <2> QED BY <1>2, <2>1 DEF Erased
<1> HIDE DEF w, place
<1>5. /\ p \in Seq(Entry) /\ Len(p) = Len(w)
      /\ \A k \in 1 .. Len(w) :
                  /\ p[k].id = w[k].id /\ p[k].type = w[k].type
                  /\ p[k].line = w[k].line
                  /\ w[k].waitFor = id => p[k].waitFor = None /\ p[k].events = {"access"}
                  /\ w[k].waitFor # id => p[k] = w[k]
      BY <1>3, WakeProperties
<1> HIDE DEF p
<1>6. Freed(q, p, id)
  <2>1. m \in [1 .. Len(p) -> 1 .. Len(q)]
        BY <1>3, <1>5
  <2>2. \A j, k \in 1 .. Len(p) : j < k <=> m[j] < m[k]
        BY <1>3, <1>4, <1>5
  <2>3. \A i \in 1 .. Len(q) : q[i].id # id => \E k \in 1 .. Len(p) : m[k] = i
        BY <1>1, <1>3, <1>4, <1>5
  <2>4. ASSUME NEW k \in 1 .. Len(p)
        PROVE  /\ p[k].id = q[m[k]].id /\ p[k].id # id /\ p[k].type = q[m[k]].type
               /\ p[k].line = q[m[k]].line
               /\ q[m[k]].waitFor = id => p[k].waitFor = None /\ p[k].events = {"access"}
               /\ q[m[k]].waitFor # id => p[k] = q[m[k]]
    <3>1. k \in 1 .. Len(w) /\ m[k] \in 1 .. Len(q) /\ m[k] # place /\ w[k] = q[m[k]]
          BY <1>3, <1>4, <1>5
    <3> QED BY <1>1, <1>5, <3>1
  <2> QED BY <2>1, <2>2, <2>3, <2>4 DEF Freed
<1> QED BY <1>3, <1>5, <1>6 DEF p, w

\* clear_entry_cb frees the entry, or leaves it with what is still scheduled.
LEMMA ClearProperties ==
    ASSUME NEW q \in Seq(Entry), NEW id, NEW due, UniqueIds(q), In(q, id)
    PROVE  LET p == ClearEntry(q, id, due)
               left == EntryOf(q, id).events \ due IN
           /\ p \in Seq(Entry) /\ Len(p) <= Len(q)
           /\ \/ left = {} /\ Freed(q, p, id)
              \/ left # {} /\ p = Schedule(q, id, due, {})
<1> DEFINE r == Schedule(q, id, due, {})
           p == ClearEntry(q, id, due)
           place == PlaceOf(q, id)
<1>0. Len(q) \in Nat /\ DOMAIN q = 1 .. Len(q)
      BY LenProperties
<1>1. /\ r \in Seq(Entry) /\ Len(r) = Len(q)
      /\ \A k \in 1 .. Len(q) :
                  /\ r[k].id = q[k].id /\ r[k].type = q[k].type
                  /\ r[k].line = q[k].line /\ r[k].waitFor = q[k].waitFor
                  /\ q[k].id = id => r[k].events = (q[k].events \ due) \cup {}
                  /\ q[k].id # id => r[k] = q[k]
      BY ScheduleProperties
<1>2. /\ place \in 1 .. Len(q) /\ q[place].id = id /\ EntryOf(q, id) = q[place]
      /\ \A k \in 1 .. Len(q) : q[k].id = id => k = place
      BY PlaceProperties
<1>3. p = IF EntryOf(r, id).events = {} THEN Wake(Without(r, id), id) ELSE r
      BY DEF ClearEntry
<1> HIDE DEF r, p, place
<1>4. DOMAIN r = 1 .. Len(q) /\ UniqueIds(r) /\ In(r, id)
  <2>1. DOMAIN r = 1 .. Len(q)
        BY <1>1, LenProperties
  <2> QED BY <1>0, <1>1, <1>2, <2>1 DEF UniqueIds, In
<1>5. EntryOf(r, id).events = EntryOf(q, id).events \ due
  <2>1. PlaceOf(r, id) \in 1 .. Len(r) /\ r[PlaceOf(r, id)].id = id
        /\ EntryOf(r, id) = r[PlaceOf(r, id)]
        BY <1>1, <1>4, PlaceProperties
  <2>2. PlaceOf(r, id) = place
        BY <1>1, <1>2, <2>1
  <2> QED BY <1>1, <1>2, <2>1, <2>2
<1>6. CASE EntryOf(r, id).events # {}
      BY <1>0, <1>1, <1>3, <1>5, <1>6 DEF r, p
<1>7. CASE EntryOf(r, id).events = {}
  <2>1. p = Wake(Without(r, id), id)
        BY <1>3, <1>7
  <2>2. p \in Seq(Entry) /\ Len(p) = Len(r) - 1 /\ Freed(r, p, id)
        BY <1>1, <1>4, <2>1, FreeAndWake
  <2>3. Freed(q, p, id)
    <3>1. PICK m \in [1 .. Len(p) -> 1 .. Len(r)] :
        /\ \A j, k \in 1 .. Len(p) : j < k <=> m[j] < m[k]
        /\ \A k \in 1 .. Len(p) :
               /\ p[k].id = r[m[k]].id /\ p[k].id # id /\ p[k].type = r[m[k]].type
               /\ p[k].line = r[m[k]].line
               /\ r[m[k]].waitFor = id => p[k].waitFor = None /\ p[k].events = {"access"}
               /\ r[m[k]].waitFor # id => p[k] = r[m[k]]
        /\ \A i \in 1 .. Len(r) : r[i].id # id => \E k \in 1 .. Len(p) : m[k] = i
          BY <2>2 DEF Freed
    <3>2. \A k \in 1 .. Len(p) : m[k] \in 1 .. Len(q) /\ r[m[k]] = q[m[k]]
      <4> SUFFICES ASSUME NEW k \in 1 .. Len(p)
                   PROVE  m[k] \in 1 .. Len(q) /\ r[m[k]] = q[m[k]]
          OBVIOUS
      <4>1. m[k] \in 1 .. Len(q) /\ r[m[k]].id # id
            BY <1>1, <3>1
      <4> QED BY <1>1, <4>1
    <3>3. m \in [1 .. Len(p) -> 1 .. Len(q)]
          BY <1>1, <3>1
    <3>4. \A i \in 1 .. Len(q) : q[i].id # id => \E k \in 1 .. Len(p) : m[k] = i
          BY <1>1, <3>1
    <3>5. \A k \in 1 .. Len(p) :
               /\ p[k].id = q[m[k]].id /\ p[k].id # id /\ p[k].type = q[m[k]].type
               /\ p[k].line = q[m[k]].line
               /\ q[m[k]].waitFor = id => p[k].waitFor = None /\ p[k].events = {"access"}
               /\ q[m[k]].waitFor # id => p[k] = q[m[k]]
          BY <3>1, <3>2
    <3> QED BY <3>1, <3>3, <3>4, <3>5 DEF Freed
  <2> QED BY <1>0, <1>1, <1>5, <1>7, <2>2, <2>3 DEF p
<1> QED BY <1>6, <1>7

(***************************************************************************)
(* The queue as a whole                                                    *)
(***************************************************************************)
\* Identities are not None.
LEMMA IdFacts == /\ MaxRequests \in Nat /\ Ids \subseteq AnyId /\ None \notin AnyId
                 /\ AnyId \subseteq Nat /\ None \notin Ids
                 /\ \A i \in Ids : WriteBackOf(i) \in AnyId /\ WriteBackOf(i) \notin Ids
                 /\ \A i, j \in Ids : WriteBackOf(i) = WriteBackOf(j) => i = j
BY SharedCacheAssumption DEF Ids, AnyId, None, WriteBackOf

\* What does not depend on the rest of the state.
Shape(q) == UniqueIds(q) /\ WriteBacksAreNew(q) /\ WakersIn(q)

LEMMA EntryFields ==
    ASSUME NEW q \in Seq(Entry), NEW k \in 1 .. Len(q)
    PROVE  /\ q[k] \in Entry /\ q[k].id \in AnyId /\ q[k].type \in Type
           /\ q[k].line \in Line /\ q[k].events \in SUBSET Event
           /\ q[k].waitFor \in AnyId \cup {None}
<1>1. q[k] \in Entry
      BY ElementOfSeq
<1> QED BY <1>1 DEF Entry

\* Freeing an entry keeps the chains of those that wait, wherever it stood.
LEMMA FreedShape ==
    ASSUME NEW q \in Seq(Entry), NEW p \in Seq(Entry), NEW id \in AnyId,
           Shape(q), Freed(q, p, id)
    PROVE  Shape(p)
<1>1. PICK m \in [1 .. Len(p) -> 1 .. Len(q)] :
        /\ \A j, k \in 1 .. Len(p) : j < k <=> m[j] < m[k]
        /\ \A k \in 1 .. Len(p) :
               /\ p[k].id = q[m[k]].id /\ p[k].id # id /\ p[k].type = q[m[k]].type
               /\ p[k].line = q[m[k]].line
               /\ q[m[k]].waitFor = id => p[k].waitFor = None /\ p[k].events = {"access"}
               /\ q[m[k]].waitFor # id => p[k] = q[m[k]]
        /\ \A i \in 1 .. Len(q) : q[i].id # id => \E k \in 1 .. Len(p) : m[k] = i
      BY DEF Freed
<1>2. /\ Len(q) \in Nat /\ DOMAIN q = 1 .. Len(q)
      /\ Len(p) \in Nat /\ DOMAIN p = 1 .. Len(p)
      BY LenProperties
<1>3. \A j, k \in 1 .. Len(p) : m[j] = m[k] => j = k
  <2> SUFFICES ASSUME NEW j \in 1 .. Len(p), NEW k \in 1 .. Len(p), m[j] = m[k], j # k
               PROVE  FALSE
      OBVIOUS
  <2>1. j < k \/ k < j
        BY <1>1
  <2>2. m[j] \in 1 .. Len(q) /\ ~(m[j] < m[j])
        BY <1>1
  <2> QED BY <1>1, <2>1, <2>2
<1>4. UniqueIds(p)
  <2> SUFFICES ASSUME NEW j \in 1 .. Len(p), NEW k \in 1 .. Len(p), p[j].id = p[k].id
               PROVE  j = k
      BY <1>2 DEF UniqueIds
  <2>1. m[j] \in 1 .. Len(q) /\ m[k] \in 1 .. Len(q) /\ q[m[j]].id = q[m[k]].id
        BY <1>1
  <2>2. m[j] = m[k]
        BY <1>2, <2>1 DEF Shape, UniqueIds
  <2> QED BY <1>3, <2>2
<1>5. WriteBacksAreNew(p)
  <2> SUFFICES ASSUME NEW j \in 1 .. Len(p), NEW k \in 1 .. Len(p), Unwritten(p[j])
               PROVE  p[k].id # WriteBackOf(p[j].id)
      BY <1>2 DEF WriteBacksAreNew
  <2>1. m[j] \in 1 .. Len(q) /\ m[k] \in 1 .. Len(q)
        BY <1>1
  <2>2. Unwritten(q[m[j]])
        BY <1>1, IdFacts DEF Unwritten, Ahead
  <2> QED BY <1>1, <1>2, <2>1, <2>2 DEF Shape, WriteBacksAreNew
<1>6. WakersIn(p)
  <2> SUFFICES ASSUME NEW k \in 1 .. Len(p), p[k].waitFor # None
               PROVE  /\ \E j \in 1 .. k - 1 : p[j].id = p[k].waitFor /\ p[j].line = p[k].line
                      /\ \A j \in 1 .. Len(p) : p[j].waitFor = p[k].waitFor => j = k
      BY <1>2 DEF WakersIn
  <2>1. m[k] \in 1 .. Len(q) /\ q[m[k]].waitFor # id /\ p[k] = q[m[k]]
        BY <1>1
  <2>2. PICK i \in 1 .. m[k] - 1 : q[i].id = q[m[k]].waitFor /\ q[i].line = q[m[k]].line
        BY <1>2, <2>1 DEF Shape, WakersIn
  <2>3. i \in 1 .. Len(q) /\ q[i].id # id /\ i < m[k]
        BY <1>2, <2>1, <2>2
  <2>4. PICK j \in 1 .. Len(p) : m[j] = i
        BY <1>1, <2>3
  <2>5. j < k
        BY <1>1, <2>3, <2>4
  <2>6. j \in 1 .. k - 1 /\ p[j].id = p[k].waitFor /\ p[j].line = p[k].line
        BY <1>1, <2>1, <2>2, <2>4, <2>5
  <2>7. ASSUME NEW n \in 1 .. Len(p), p[n].waitFor = p[k].waitFor
        PROVE  n = k
    <3>1. m[n] \in 1 .. Len(q) /\ p[n] = q[m[n]]
          BY <1>1, <2>7
    <3>2. m[n] = m[k]
          BY <1>2, <2>1, <2>7, <3>1 DEF Shape, WakersIn
    <3> QED BY <1>3, <3>2
  <2> QED BY <2>6, <2>7
<1> QED BY <1>4, <1>5, <1>6 DEF Shape

\* An entry that goes on leaves the order of the queue alone.
LEMMA ScheduledShape ==
    ASSUME NEW q \in Seq(Entry), NEW id, NEW due, NEW new \in SUBSET Event, Shape(q),
           \A k \in 1 .. Len(q) : q[k].id = id /\ Unwritten(Schedule(q, id, due, new)[k])
                                      => Unwritten(q[k])
    PROVE  Shape(Schedule(q, id, due, new))
<1> DEFINE p == Schedule(q, id, due, new)
<1>1. /\ p \in Seq(Entry) /\ Len(p) = Len(q)
      /\ \A k \in 1 .. Len(q) :
                  /\ p[k].id = q[k].id /\ p[k].type = q[k].type
                  /\ p[k].line = q[k].line /\ p[k].waitFor = q[k].waitFor
                  /\ q[k].id # id => p[k] = q[k]
      BY ScheduleProperties
<1>2. \A k \in 1 .. Len(q) : Unwritten(p[k]) => Unwritten(q[k])
      BY <1>1
<1>3. Len(q) \in Nat /\ DOMAIN q = 1 .. Len(q) /\ DOMAIN p = 1 .. Len(q)
      BY <1>1, LenProperties
<1> HIDE DEF p
<1>4. UniqueIds(p)
      BY <1>1, <1>3 DEF Shape, UniqueIds
<1>5. WriteBacksAreNew(p)
      BY <1>1, <1>2, <1>3 DEF Shape, WriteBacksAreNew
<1>6. WakersIn(p)
  <2> SUFFICES ASSUME NEW k \in 1 .. Len(q), p[k].waitFor # None
               PROVE  /\ \E j \in 1 .. k - 1 : p[j].id = p[k].waitFor /\ p[j].line = p[k].line
                      /\ \A j \in 1 .. Len(q) : p[j].waitFor = p[k].waitFor => j = k
      BY <1>3 DEF WakersIn
  <2>1. PICK i \in 1 .. k - 1 : q[i].id = q[k].waitFor /\ q[i].line = q[k].line
        BY <1>1, <1>3 DEF Shape, WakersIn
  <2>2. i \in 1 .. Len(q)
        BY <1>3
  <2>3. p[i].id = p[k].waitFor /\ p[i].line = p[k].line
        BY <1>1, <2>1, <2>2
  <2>4. \A j \in 1 .. Len(q) : p[j].waitFor = p[k].waitFor => j = k
        BY <1>1, <1>3 DEF Shape, WakersIn
  <2> QED BY <2>1, <2>3, <2>4
<1> QED BY <1>4, <1>5, <1>6 DEF Shape, p

\* A new entry goes to the end, behind the one it waits for.
LEMMA AppendedShape ==
    ASSUME NEW q \in Seq(Entry), NEW e \in Entry, Shape(q),
           \A k \in 1 .. Len(q) : /\ q[k].id # e.id
                                  /\ Unwritten(q[k]) => e.id # WriteBackOf(q[k].id)
                                  /\ Unwritten(e) => q[k].id # WriteBackOf(e.id),
           e.waitFor # None =>
               /\ \E j \in 1 .. Len(q) : q[j].id = e.waitFor /\ q[j].line = e.line
               /\ \A j \in 1 .. Len(q) : q[j].waitFor # e.waitFor
    PROVE  Shape(Append(q, e))
<1> DEFINE p == Append(q, e)
           n == Len(q) + 1
<1>1. /\ Len(q) \in Nat /\ DOMAIN q = 1 .. Len(q) /\ p \in Seq(Entry) /\ Len(p) = n
      /\ DOMAIN p = 1 .. n /\ p[n] = e /\ \A k \in 1 .. Len(q) : p[k] = q[k]
      BY AppendProperties, LenProperties
<1>2. \A k \in 1 .. n : k = n \/ k \in 1 .. Len(q)
      BY <1>1
<1> HIDE DEF p
<1>3. UniqueIds(p)
  <2> SUFFICES ASSUME NEW j \in 1 .. n, NEW k \in 1 .. n, p[j].id = p[k].id
               PROVE  j = k
      BY <1>1 DEF UniqueIds
  <2>1. CASE j \in 1 .. Len(q) /\ k \in 1 .. Len(q)
        BY <1>1, <2>1 DEF Shape, UniqueIds
  <2>2. CASE j = n \/ k = n
        BY <1>1, <1>2, <2>2
  <2> QED BY <1>2, <2>1, <2>2
<1>4. WriteBacksAreNew(p)
  <2> SUFFICES ASSUME NEW j \in 1 .. n, NEW k \in 1 .. n, Unwritten(p[j])
               PROVE  p[k].id # WriteBackOf(p[j].id)
      BY <1>1 DEF WriteBacksAreNew
  <2>1. CASE j \in 1 .. Len(q) /\ k \in 1 .. Len(q)
        BY <1>1, <2>1 DEF Shape, WriteBacksAreNew
  <2>2. CASE j = n /\ k = n
    <3>1. e.id \in Ids
          BY <1>1, <2>2 DEF Unwritten
    <3> QED BY <1>1, <2>2, <3>1, IdFacts
  <2>3. CASE j \in 1 .. Len(q) /\ k = n
        BY <1>1, <2>3
  <2>4. CASE j = n /\ k \in 1 .. Len(q)
        BY <1>1, <2>4
  <2> QED BY <1>2, <2>1, <2>2, <2>3, <2>4
<1>5. WakersIn(p)
  <2> SUFFICES ASSUME NEW k \in 1 .. n, p[k].waitFor # None
               PROVE  /\ \E j \in 1 .. k - 1 : p[j].id = p[k].waitFor /\ p[j].line = p[k].line
                      /\ \A j \in 1 .. n : p[j].waitFor = p[k].waitFor => j = k
      BY <1>1 DEF WakersIn
  <2>1. CASE k \in 1 .. Len(q)
    <3>1. PICK i \in 1 .. k - 1 : q[i].id = q[k].waitFor /\ q[i].line = q[k].line
          BY <1>1, <2>1 DEF Shape, WakersIn
    <3>2. i \in 1 .. Len(q) /\ p[i].id = p[k].waitFor /\ p[i].line = p[k].line
          BY <1>1, <2>1, <3>1
    <3>3. \A j \in 1 .. Len(q) : p[j].waitFor = p[k].waitFor => j = k
          BY <1>1, <2>1 DEF Shape, WakersIn
    <3>4. p[n].waitFor # p[k].waitFor
          BY <1>1, <2>1
    <3> QED BY <1>2, <3>1, <3>2, <3>3, <3>4
  <2>2. CASE k = n
    <3>1. PICK i \in 1 .. Len(q) : q[i].id = e.waitFor /\ q[i].line = e.line
          BY <1>1, <2>2
    <3>2. i \in 1 .. k - 1 /\ p[i].id = p[k].waitFor /\ p[i].line = p[k].line
          BY <1>1, <2>2, <3>1
    <3>3. \A j \in 1 .. Len(q) : p[j].waitFor # p[k].waitFor
          BY <1>1, <2>2
    <3> QED BY <1>2, <2>2, <3>2, <3>3
  <2> QED BY <1>2, <2>1, <2>2
<1> QED BY <1>3, <1>4, <1>5 DEF Shape, p

\* find_dependency follows the chain to its end: the entry it returns is in the
\* queue, has the line, and nobody waits for it.
LEMMA ChainEndProperties ==
    ASSUME NEW q \in Seq(Entry), Shape(q), NEW s \in 1 .. Len(q)
    PROVE  /\ \E j \in 1 .. Len(q) : /\ q[j].id = ChainEnd(q, q[s].id)
                                     /\ q[j].line = q[s].line
           /\ \A k \in 1 .. Len(q) : q[k].waitFor # ChainEnd(q, q[s].id)
<1> DEFINE first == q[s].id
           waiting(x) == {k \in DOMAIN q : q[k].waitFor = x}
           next(x) == IF waiting(x) = {} THEN x ELSE q[CHOOSE k \in waiting(x) : TRUE].id
           step == [n \in 1 .. Len(q) |-> [x \in AnyId |-> next(x)]]
           Is(g) == g = [n \in 0 .. Len(q) |-> IF n = 0 THEN first ELSE next(g[n - 1])]
           Follow == CHOOSE g : Is(g)
<1>1. Len(q) \in Nat /\ DOMAIN q = 1 .. Len(q) /\ \A k \in 1 .. Len(q) : q[k].id \in AnyId
      BY LenProperties, EntryFields
<1>2. ChainEnd(q, first) = Follow[Len(q)]
      BY DEF ChainEnd
<1>3. \A x : waiting(x) # {} => /\ (CHOOSE k \in waiting(x) : TRUE) \in 1 .. Len(q)
                                /\ q[CHOOSE k \in waiting(x) : TRUE].waitFor = x
      BY <1>1
<1>4. /\ step \in [1 .. Len(q) -> [AnyId -> AnyId]]
      /\ \A n \in 1 .. Len(q), x \in AnyId : step[n][x] = next(x)
      BY <1>1, <1>3
<1>5. \E g : Is(g)
  <2>1. first \in AnyId
        BY <1>1
  <2> HIDE DEF first, step, next
  <2>2. PICK f \in [0 .. Len(q) -> AnyId] : Recursive(f, Len(q), first, step)
        BY <1>1, <1>4, <2>1, RecursionExists
  <2>3. ASSUME NEW i \in 0 .. Len(q), i # 0
        PROVE  f[i - 1] \in AnyId
    <3>1. i - 1 \in 0 .. Len(q)
          BY <1>1, <2>3
    <3> QED BY <3>1
  <2>4. \A i \in 0 .. Len(q) : i # 0 => step[i][f[i - 1]] = next(f[i - 1])
        BY <1>1, <1>4, <2>3
  <2>5. Is(f)
        BY <2>2, <2>4 DEF Recursive
  <2> QED BY <2>5
<1>6. Is(Follow)
  <2> HIDE DEF Is
  <2> QED BY <1>5
<1> HIDE DEF Follow
<1>7. /\ Follow[0] = first
      /\ \A n \in 0 .. Len(q) - 1 : Follow[n + 1] = next(Follow[n])
  <2> HIDE DEF next, first
  <2>1. \A n \in 0 .. Len(q) : Follow[n] = IF n = 0 THEN first ELSE next(Follow[n - 1])
        BY <1>6
  <2>2. Follow[0] = first
        BY <1>1, <2>1
  <2>3. ASSUME NEW n \in 0 .. Len(q) - 1
        PROVE  Follow[n + 1] = next(Follow[n])
    <3>1. n + 1 \in 0 .. Len(q) /\ n + 1 # 0 /\ (n + 1) - 1 = n
          BY <1>1
    <3> QED BY <2>1, <3>1
  <2> QED BY <2>2, <2>3
<1> DEFINE At(n, j) == /\ q[j].id = Follow[n] /\ q[j].line = q[s].line
                       /\ \/ \A k \in 1 .. Len(q) : q[k].waitFor # Follow[n]
                          \/ j >= n + 1
           T == {n \in 0 .. Len(q) : \E j \in 1 .. Len(q) : At(n, j)}
<1>8. 0 \in T
  <2>1. At(0, s)
        BY <1>1, <1>7
  <2> QED BY <1>1, <2>1
<1>9. ASSUME NEW n \in 0 .. Len(q) - 1, n \in T
      PROVE  n + 1 \in T
  <2>1. PICK j \in 1 .. Len(q) : At(n, j)
        BY <1>9
  <2>2. CASE waiting(Follow[n]) = {}
    <3>1. Follow[n + 1] = Follow[n] /\ \A k \in 1 .. Len(q) : q[k].waitFor # Follow[n]
          BY <1>1, <1>7, <2>2
    <3>2. At(n + 1, j)
          BY <2>1, <3>1
    <3> QED BY <1>1, <3>2
  <2>3. CASE waiting(Follow[n]) # {}
    <3> DEFINE w == CHOOSE k \in waiting(Follow[n]) : TRUE
    <3>1. /\ w \in 1 .. Len(q) /\ q[w].waitFor = Follow[n] /\ q[w].id = Follow[n + 1]
          BY <1>3, <1>7, <2>3
    <3> HIDE DEF w
    <3>2. q[w].waitFor # None
          BY <1>1, <2>1, <3>1, IdFacts
    <3>3. PICK i \in 1 .. w - 1 : q[i].id = q[w].waitFor /\ q[i].line = q[w].line
          BY <1>1, <3>1, <3>2 DEF Shape, WakersIn
    <3>4. i = j
          BY <1>1, <2>1, <3>1, <3>3 DEF Shape, UniqueIds
    <3>5. j >= n + 1 /\ w >= (n + 1) + 1
          BY <2>1, <3>1, <3>3, <3>4
    <3>6. At(n + 1, w)
          BY <2>1, <3>1, <3>3, <3>4, <3>5
    <3> QED BY <1>1, <3>1, <3>6
  <2> QED BY <2>2, <2>3
<1>10. Len(q) \in T
  <2> HIDE DEF T
  <2>1. 0 .. Len(q) \subseteq T
        BY <1>1, <1>8, <1>9, SetInduction
  <2> QED BY <1>1, <2>1
<1>11. PICK j \in 1 .. Len(q) : At(Len(q), j)
       BY <1>10
<1>12. \A k \in 1 .. Len(q) : q[k].waitFor # Follow[Len(q)]
       BY <1>1, <1>11
<1> QED BY <1>2, <1>11, <1>12

LEMMA FindDependencyProperties ==
    ASSUME NEW q \in Seq(Entry), Shape(q), NEW line,
           FindDependency(q, line) # None
    PROVE  /\ \E j \in 1 .. Len(q) : /\ q[j].id = FindDependency(q, line)
                                     /\ q[j].line = line
           /\ \A k \in 1 .. Len(q) : q[k].waitFor # FindDependency(q, line)
<1> DEFINE same == {k \in DOMAIN q : q[k].line = line}
           s == CHOOSE k \in same : \A j \in same : k <= j
<1>1. Len(q) \in Nat /\ DOMAIN q = 1 .. Len(q)
      BY LenProperties
<1>2. same # {} /\ FindDependency(q, line) = ChainEnd(q, q[s].id)
      BY DEF FindDependency
<1>3. same \in SUBSET Nat
      BY <1>1
<1>4. \E k \in same : \A j \in same : k <= j
      BY <1>2, <1>3, LeastElement
<1>5. s \in same
      BY <1>4
<1>6. s \in 1 .. Len(q) /\ q[s].line = line
      BY <1>1, <1>5
<1> HIDE DEF s, same
<1> QED BY <1>2, <1>6, ChainEndProperties

(***************************************************************************)
(* The invariant: the initial state and the messages of the bus            *)
(***************************************************************************)
LEMMA InitInv == Init => CacheInv
<1> SUFFICES ASSUME Init PROVE CacheInv
    OBVIOUS
<1>1. TypeOK
  <2>1. /\ requests \in Seq(Message) /\ Len(requests) <= MaxRequests
        /\ queue \in Seq(Entry) /\ Len(queue) <= QueueSize
        /\ memQueue \in Seq([id : AnyId, type : Type, line : Line])
        /\ Len(memQueue) <= MemQueueSize
        BY SharedCacheAssumption, EmptySeq DEF Init
  <2>2. /\ lines \in [Line -> LineState] /\ accesses \subseteq [id : AnyId, line : Line]
        /\ failed \in BOOLEAN /\ answers \in [Ids -> Nat]
        /\ annulled \subseteq Ids /\ unsaved \subseteq Line
        BY SharedCacheAssumption DEF Init
  <2>3. Held = {l \in Line : Contents[l] # "absent"}
        BY DEF Init, Held
  <2>4. Cardinality(Held) <= Ways
        BY <2>3, SharedCacheAssumption
  <2> QED BY <2>1, <2>2, <2>4 DEF TypeOK
<1>2. DOMAIN queue = {} /\ DOMAIN memQueue = {}
      BY DEF Init
<1>3. QueueInv /\ EveryWaiterHasAWaker
      BY <1>2 DEF QueueInv, UniqueIds, WriteBacksAreNew, EveryWaiterHasAWaker, WakersIn
<1>4. MemInv
      BY <1>2, FS_EmptySet DEF MemInv, UniqueIds, Init
<1>5. AnswerInv
      BY DEF AnswerInv, Init
<1>6. EveryReturnFindsAnEntry
  <2>1. ASSUME NEW l \in Line
        PROVE  Cardinality(MatchingEntries(l)) = Cardinality({x \in accesses : x.line = l})
    <3>1. MatchingEntries(l) = {} /\ {x \in accesses : x.line = l} = {}
          BY <1>2 DEF MatchingEntries, Init
    <3> QED BY <3>1
  <2> QED BY <2>1 DEF EveryReturnFindsAnEntry, Init
<1> QED BY <1>1, <1>3, <1>4, <1>5, <1>6 DEF CacheInv

\* The lengths and domains of the queues, the shape of the cache's queue.
LEMMA Basics ==
    ASSUME CacheInv
    PROVE  /\ queue \in Seq(Entry) /\ Len(queue) \in Nat /\ Len(queue) <= QueueSize
           /\ DOMAIN queue = 1 .. Len(queue)
           /\ Len(memQueue) \in Nat /\ DOMAIN memQueue = 1 .. Len(memQueue)
           /\ Len(requests) \in Nat /\ DOMAIN requests = 1 .. Len(requests)
           /\ Len(requests) <= MaxRequests /\ MaxRequests \in Nat
           /\ Shape(queue) /\ UniqueIds(queue)
           /\ \A k \in 1 .. Len(queue) : EntryInv(queue[k])
<1>1. TypeOK /\ QueueInv /\ EveryWaiterHasAWaker
      BY DEF CacheInv
<1>2. /\ Len(queue) \in Nat /\ DOMAIN queue = 1 .. Len(queue)
      /\ Len(memQueue) \in Nat /\ DOMAIN memQueue = 1 .. Len(memQueue)
      /\ Len(requests) \in Nat /\ DOMAIN requests = 1 .. Len(requests)
      BY <1>1, LenProperties DEF TypeOK
<1> QED BY <1>1, <1>2, SharedCacheAssumption
        DEF TypeOK, QueueInv, EveryWaiterHasAWaker, Shape

\* A step that leaves the memory's side alone leaves it in order.
LEMMA SameMemory ==
    ASSUME CacheInv, UNCHANGED <<memQueue, accesses, failed>>,
           Known \subseteq Known'
    PROVE  MemInv' /\ EveryReturnFindsAnEntry'
<1>1. MemInv'
      BY DEF CacheInv, MemInv, UniqueIds
<1>2. EveryReturnFindsAnEntry'
      BY DEF CacheInv, EveryReturnFindsAnEntry, MatchingEntries
<1> QED BY <1>1, <1>2

\* The invariant of the queue, put together from its parts.
LEMMA QueueParts ==
    ASSUME queue' \in Seq(Entry), Shape(queue'),
           \A k \in 1 .. Len(queue') : EntryInv(queue[k])'
    PROVE  QueueInv' /\ EveryWaiterHasAWaker'
<1>1. DOMAIN queue' = 1 .. Len(queue')
      BY LenProperties
<1> QED BY <1>1 DEF QueueInv, EveryWaiterHasAWaker, Shape

LEMMA RequestInv ==
    ASSUME CacheInv, NEW msg \in Message, Request(msg)
    PROVE  CacheInv'
<1> DEFINE n == Len(requests) + 1
           dep == FindDependency(queue, msg.line)
           e == [id |-> n, type |-> msg.type, line |-> msg.line, waitFor |-> dep,
                 events |-> IF dep = None THEN {"access"} ELSE {}]
<1>1. /\ queue' = Append(queue, e) /\ requests' = Append(requests, msg)
      /\ Len(requests) < MaxRequests /\ ~IsFull
      /\ UNCHANGED <<lines, memQueue, accesses, failed, answers, annulled, unsaved>>
      BY DEF Request
<1>2. /\ queue \in Seq(Entry) /\ Len(queue) \in Nat /\ Len(queue) <= QueueSize
      /\ Len(requests) \in Nat /\ MaxRequests \in Nat
      /\ DOMAIN memQueue = 1 .. Len(memQueue)
      /\ Shape(queue) /\ \A k \in 1 .. Len(queue) : EntryInv(queue[k])
      BY Basics
<1>3. msg.type \in Type /\ msg.line \in Line
      BY SharedCacheAssumption
<1>4. /\ dep # None => /\ \E j \in 1 .. Len(queue) : queue[j].id = dep /\ queue[j].line = msg.line
                       /\ \A k \in 1 .. Len(queue) : queue[k].waitFor # dep
      BY <1>2, FindDependencyProperties
<1>5. dep \in AnyId \cup {None}
      BY <1>2, <1>4, EntryFields
<1> HIDE DEF dep
<1>6. e \in Entry
      BY <1>1, <1>2, <1>3, <1>5 DEF Entry, AnyId, Event
<1>7. /\ n \in Ids /\ n \notin Known /\ WriteBackOf(n) \notin Known
      /\ n \in Known' /\ Known \subseteq Known'
  <2>1. Len(requests') = n
        BY <1>1, <1>2, AppendProperties DEF CacheInv, TypeOK
  <2> QED BY <1>1, <1>2, <2>1 DEF Ids, Known, WriteBackOf
<1>8. ~Sent(n) /\ ~Sent(WriteBackOf(n))
      BY <1>7 DEF CacheInv, MemInv, Sent, In
<1>9. answers[n] = 0 /\ n \notin annulled
      BY <1>2, <1>7 DEF CacheInv, AnswerInv
<1>10. /\ queue' \in Seq(Entry) /\ Len(queue') = Len(queue) + 1
       /\ queue'[Len(queue) + 1] = e /\ \A k \in 1 .. Len(queue) : queue'[k] = queue[k]
       BY <1>1, <1>2, <1>6, AppendProperties
<1>11. /\ requests' \in Seq(Message) /\ Len(requests') = n /\ requests'[n] = msg
       /\ \A i \in 1 .. Len(requests) : requests'[i] = requests[i]
       BY <1>1, AppendProperties DEF CacheInv, TypeOK
<1>12. Shape(queue')
  <2>1. \A k \in 1 .. Len(queue) : /\ queue[k].id # e.id
                                   /\ Unwritten(queue[k]) => e.id # WriteBackOf(queue[k].id)
                                   /\ Unwritten(e) => queue[k].id # WriteBackOf(e.id)
    <3> SUFFICES ASSUME NEW k \in 1 .. Len(queue)
                 PROVE  /\ queue[k].id # n
                        /\ Unwritten(queue[k]) => n # WriteBackOf(queue[k].id)
                        /\ queue[k].id # WriteBackOf(n)
        OBVIOUS
    <3>1. queue[k].id \in Known
          BY <1>2 DEF EntryInv
    <3> QED BY <1>7, <3>1, IdFacts DEF Unwritten
  <2> HIDE DEF e
  <2>2. e.waitFor = dep /\ e.line = msg.line
        BY DEF e
  <2> QED BY <1>1, <1>2, <1>4, <1>6, <2>1, <2>2, AppendedShape
<1>13. ASSUME NEW k \in 1 .. Len(queue')
       PROVE  EntryInv(queue[k])'
  <2>1. CASE k \in 1 .. Len(queue)
    <3>1. queue'[k] = queue[k] /\ EntryInv(queue[k])
          BY <1>2, <1>10, <2>1
    <3>2. queue[k].id \in Ids => requests'[queue[k].id] = requests[queue[k].id]
      <4>1. queue[k].id \in Known
            BY <3>1 DEF EntryInv
      <4> QED BY <1>2, <1>11, <4>1, SMTT(60) DEF Known, Ids, WriteBackOf
    <3>3. \A x : Sent(x)' <=> Sent(x)
          BY <1>1 DEF Sent, In
    <3> QED BY <1>1, <1>7, <3>1, <3>2, <3>3 DEF EntryInv, Unsent, Unwritten, Unanswered, Ahead
  <2>2. CASE k = Len(queue) + 1
    <3>1. queue'[k] = e
          BY <1>10, <2>2
    <3>2. \A x : Sent(x)' <=> Sent(x)
          BY <1>1 DEF Sent, In
    <3>3. \A i \in DOMAIN memQueue' : memQueue'[i].id # n
          BY <1>1, <1>8 DEF Sent, In
    <3>4. queue'[k].id = n /\ queue'[k].type = msg.type /\ requests'[n] = msg
          BY <3>1, <1>11
    <3>5. IF queue'[k].waitFor = None THEN queue'[k].events \in EventSets ELSE queue'[k].events = {}
          BY <3>1 DEF EventSets
    <3> QED BY <1>1, <1>7, <1>8, <1>9, <3>2, <3>3, <3>4, <3>5 DEF EntryInv
  <2> QED BY <1>2, <1>10, <2>1, <2>2
<1>14. QueueInv' /\ EveryWaiterHasAWaker'
       BY <1>10, <1>12, <1>13, QueueParts
<1>15. MemInv' /\ EveryReturnFindsAnEntry'
       BY <1>1, <1>7, SameMemory
<1>16. AnswerInv'
  <2>1. \A i \in Ids : /\ answers[i] \in {0, 1}
                       /\ i \in annulled \/ i > Len(requests) => answers[i] = 0
                       /\ i \in annulled => i <= Len(requests)
        BY DEF CacheInv, AnswerInv
  <2>2. Ids \subseteq Nat
        BY DEF Ids
  <2>3. answers' = answers /\ annulled' = annulled /\ Len(requests') = Len(requests) + 1
        BY <1>1, <1>11
  <2> SUFFICES ASSUME NEW i \in Ids
               PROVE  /\ answers[i] \in {0, 1}
                      /\ i \in annulled \/ i > Len(requests') => answers[i] = 0
                      /\ i \in annulled => i <= Len(requests')
      BY <2>3 DEF AnswerInv
  <2>4. i \in Nat /\ (i > Len(requests') => i > Len(requests))
        /\ (i <= Len(requests) => i <= Len(requests'))
        BY <1>2, <2>2, <2>3
  <2> QED BY <2>1, <2>4
<1>17. TypeOK'
  <2>1. Len(queue') <= QueueSize
        BY <1>1, <1>2, <1>10, SharedCacheAssumption DEF IsFull
  <2>2. Len(requests') <= MaxRequests
        BY <1>1, <1>2, <1>11
  <2>3. Held' = Held
        BY <1>1 DEF Held
  <2> QED BY <1>1, <1>10, <1>11, <2>1, <2>2, <2>3 DEF CacheInv, TypeOK
<1> QED BY <1>14, <1>15, <1>16, <1>17 DEF CacheInv

SentAfter(id) == In(memQueue', id) \/ \E x \in accesses' : x.id = id

\* What a step of the entry id may change beside the queue.
OnlyFor(id) ==
    /\ requests' = requests /\ annulled' \subseteq annulled \cup {id}
    /\ \A i \in Ids \ {id} : answers'[i] = answers[i]
    /\ \A i : SentAfter(i) => Sent(i) \/ (i = id /\ In(queue, id))
    /\ \A j \in DOMAIN memQueue' : \/ memQueue'[j].id = id
                                   \/ \E n \in DOMAIN memQueue : memQueue[n] = memQueue'[j]

\* Such a step leaves every other entry, woken or not, in order.
LEMMA OtherEntry ==
    ASSUME CacheInv, NEW id, OnlyFor(id), NEW i \in 1 .. Len(queue), NEW k \in 1 .. Len(queue'),
           queue[i].id # id, queue'[k].id = queue[i].id, queue'[k].type = queue[i].type,
           \/ queue'[k] = queue[i]
           \/ queue[i].waitFor # None /\ queue'[k].waitFor = None /\ queue'[k].events = {"access"}
    PROVE  EntryInv(queue[k])'
<1>1. EntryInv(queue[i]) /\ Known' = Known
      BY Basics DEF OnlyFor, Known
<1>2. Unwritten(queue[i]) => WriteBackOf(queue[i].id) # id \/ ~In(queue, id)
  <2>1. WriteBacksAreNew(queue) /\ DOMAIN queue = 1 .. Len(queue)
        BY Basics DEF Shape
  <2> QED BY <2>1 DEF WriteBacksAreNew, In
<1>3. Unwritten(queue[i]) => ~SentAfter(WriteBackOf(queue[i].id))
      BY <1>1, <1>2 DEF OnlyFor, EntryInv
<1>4. Unsent(queue[i]) => ~SentAfter(queue[i].id)
      BY <1>1 DEF OnlyFor, EntryInv
<1>5. queue[i].id \in Ids =>
          /\ queue[i].type = requests'[queue[i].id].type /\ queue[i].id \notin annulled'
          /\ Unanswered(queue[i]) => answers'[queue[i].id] = 0
      BY <1>1 DEF EntryInv, OnlyFor
<1>6. \A j \in DOMAIN memQueue' :
          memQueue'[j].id = queue[i].id /\ memQueue'[j].type # "UPDATE" =>
              queue[i].events = {"response"}
      BY <1>1 DEF EntryInv, OnlyFor
<1>7. CASE queue'[k] = queue[i]
  <2>1. /\ Unwritten(queue'[k]) => ~SentAfter(WriteBackOf(queue'[k].id))
        /\ Unsent(queue'[k]) => ~SentAfter(queue'[k].id)
        BY <1>3, <1>4, <1>7
  <2> QED BY <1>1, <1>5, <1>6, <1>7, <2>1 DEF EntryInv, Sent, SentAfter, Unsent, Unwritten, Unanswered, Ahead
<1>8. CASE queue[i].waitFor # None /\ queue'[k].waitFor = None /\ queue'[k].events = {"access"}
  <2>1. queue[i].events = {} /\ queue[i].id \in Ids /\ queue[i].id \in Known
        BY <1>1, <1>8 DEF EntryInv
  <2>2. Unsent(queue[i]) /\ Unwritten(queue[i]) /\ Unanswered(queue[i])
        BY <1>8, <2>1 DEF Unsent, Unwritten, Unanswered, Ahead
  <2>3. ~SentAfter(queue'[k].id) /\ ~SentAfter(WriteBackOf(queue'[k].id))
        BY <1>3, <1>4, <2>2
  <2>4. \A j \in DOMAIN memQueue' : memQueue'[j].id # queue'[k].id
        BY <2>3 DEF SentAfter, In
  <2>5. /\ queue'[k].type = requests'[queue'[k].id].type /\ queue'[k].id \notin annulled'
        /\ answers'[queue'[k].id] = 0 /\ queue'[k].id \in Ids /\ queue'[k].id \in Known'
        BY <1>1, <1>5, <2>1, <2>2
  <2> QED BY <1>8, <2>3, <2>4, <2>5 DEF EntryInv, Sent, SentAfter, EventSets
<1> QED BY <1>7, <1>8

\* A step that frees its entry.
LEMMA FreedQueue ==
    ASSUME CacheInv, NEW id \in AnyId, OnlyFor(id), In(queue, id),
           queue' \in Seq(Entry), Freed(queue, queue', id)
    PROVE  QueueInv' /\ EveryWaiterHasAWaker'
<1>1. Shape(queue')
      BY Basics, FreedShape
<1>2. ASSUME NEW k \in 1 .. Len(queue')
      PROVE  EntryInv(queue[k])'
  <2>1. PICK m \in [1 .. Len(queue') -> 1 .. Len(queue)] :
        \A j \in 1 .. Len(queue') :
               /\ queue'[j].id = queue[m[j]].id /\ queue'[j].id # id
               /\ queue'[j].type = queue[m[j]].type
               /\ queue[m[j]].waitFor = id => queue'[j].waitFor = None /\ queue'[j].events = {"access"}
               /\ queue[m[j]].waitFor # id => queue'[j] = queue[m[j]]
        BY ZenonT(60) DEF Freed
  <2>2. m[k] \in 1 .. Len(queue) /\ id # None
        BY <2>1, IdFacts
  <2> QED BY <2>1, <2>2, OtherEntry
<1> QED BY <1>1, <1>2, QueueParts

LEMMA AnnulInv ==
    ASSUME CacheInv, NEW id \in Ids, AnnulRequest(id)
    PROVE  CacheInv'
<1>1. /\ In(queue, id) /\ answers[id] = 0
      /\ queue' = Wake(Without(queue, id), id) /\ annulled' = annulled \cup {id}
      /\ UNCHANGED <<requests, lines, memQueue, accesses, failed, answers, unsaved>>
      BY DEF AnnulRequest, AnnulEntry
<1>2. /\ queue \in Seq(Entry) /\ Len(queue) \in Nat /\ Len(queue) <= QueueSize
      /\ UniqueIds(queue) /\ id \in AnyId /\ Len(requests) \in Nat
      BY Basics, IdFacts
<1>3. queue' \in Seq(Entry) /\ Len(queue') = Len(queue) - 1 /\ Freed(queue, queue', id)
      BY <1>1, <1>2, FreeAndWake
<1>4. OnlyFor(id) /\ Known' = Known
      BY <1>1 DEF OnlyFor, Sent, SentAfter, In, Known
<1>5. QueueInv' /\ EveryWaiterHasAWaker'
      BY <1>1, <1>2, <1>3, <1>4, FreedQueue
<1>6. MemInv' /\ EveryReturnFindsAnEntry'
      BY <1>1, <1>4, SameMemory
<1>7. id <= Len(requests)
  <2>1. PlaceOf(queue, id) \in 1 .. Len(queue) /\ queue[PlaceOf(queue, id)].id = id
        BY <1>1, <1>2, PlaceProperties
  <2>2. id \in Known
        BY <2>1, Basics DEF EntryInv
  <2> QED BY <1>2, <2>2, SharedCacheAssumption DEF Known, Ids, WriteBackOf
<1>8. AnswerInv'
      BY <1>1, <1>2, <1>7 DEF CacheInv, AnswerInv
<1>9. TypeOK'
  <2>1. Held' = Held
        BY <1>1 DEF Held
  <2> QED BY <1>1, <1>2, <1>3, <2>1, SharedCacheAssumption DEF CacheInv, TypeOK
<1> QED BY <1>5, <1>6, <1>8, <1>9 DEF CacheInv

\* The step of an entry that stays in the queue with the events f due.
GoesOn(id, e, f) ==
    /\ e.waitFor = None /\ f \in EventSets /\ id \notin annulled'
    /\ f \cap {"access", "down"} # {} => ~SentAfter(id)
    /\ f \cap {"access", "down", "response", "insert"} # {} => Unwritten(e)
    /\ f \cap {"access", "down", "response", "up"} # {} => answers'[id] = 0
    /\ \A j \in DOMAIN memQueue' :
           memQueue'[j].id = id /\ memQueue'[j].type # "UPDATE" => f = {"response"}

\* It may add the entry's write-back at the end.
LEMMA KeptQueue ==
    ASSUME CacheInv, NEW id \in Ids, OnlyFor(id), In(queue, id),
           NEW due, NEW new \in SUBSET Event, NEW f, f = (EntryOf(queue, id).events \ due) \cup new,
           GoesOn(id, EntryOf(queue, id), f),
           \/ queue' = Schedule(queue, id, due, new)
           \/ /\ Len(queue) < QueueSize /\ Unwritten(EntryOf(queue, id))
              /\ f \cap {"access", "down", "response", "insert"} = {}
              /\ \E line \in Line :
                    queue' = Append(Schedule(queue, id, due, new), WriteBack(id, line))
    PROVE  /\ queue' \in Seq(Entry) /\ Len(queue') <= QueueSize
           /\ QueueInv' /\ EveryWaiterHasAWaker'
<1> DEFINE d == Schedule(queue, id, due, new)
           place == PlaceOf(queue, id)
           n == Len(queue)
<1>1. /\ queue \in Seq(Entry) /\ n \in Nat /\ n <= QueueSize /\ Shape(queue) /\ UniqueIds(queue)
      /\ DOMAIN queue = 1 .. n /\ QueueSize \in Nat
      /\ \A k \in 1 .. n : EntryInv(queue[k])
      BY Basics, SharedCacheAssumption
<1>2. /\ place \in 1 .. n /\ queue[place].id = id /\ EntryOf(queue, id) = queue[place]
      /\ \A k \in 1 .. n : queue[k].id = id => k = place
      BY <1>1, PlaceProperties
<1>3. /\ d \in Seq(Entry) /\ Len(d) = n
      /\ \A k \in 1 .. n :
            /\ d[k].id = queue[k].id /\ d[k].type = queue[k].type
            /\ d[k].line = queue[k].line /\ d[k].waitFor = queue[k].waitFor
            /\ queue[k].id = id => d[k].events = (queue[k].events \ due) \cup new
            /\ queue[k].id # id => d[k] = queue[k]
      BY <1>1, ScheduleProperties
<1>4. /\ d[place].id = id /\ d[place].type = queue[place].type
      /\ d[place].waitFor = None /\ d[place].events = f
      BY <1>2, <1>3 DEF GoesOn
<1>5. Unwritten(d[place]) <=> f \cap {"access", "down", "response", "insert"} # {}
      BY <1>4 DEF Unwritten, Ahead
<1>6. Unwritten(d[place]) => Unwritten(queue[place])
      BY <1>2, <1>5 DEF GoesOn
<1>7. Shape(d)
  <2>1. \A k \in 1 .. n : queue[k].id = id /\ Unwritten(d[k]) => Unwritten(queue[k])
        BY <1>2, <1>6
  <2> QED BY <1>1, <2>1, ScheduledShape
<1>8. Known' = Known /\ requests' = requests
      BY DEF Known, OnlyFor
<1>9. /\ id \in Known /\ queue[place].type = requests[id].type
      /\ Unwritten(queue[place]) => ~SentAfter(WriteBackOf(id))
  <2>1. EntryInv(queue[place])
        BY <1>1, <1>2
  <2>2. id \in Known /\ queue[place].type = requests[id].type
        BY <1>2, <2>1 DEF EntryInv
  <2>3. WriteBackOf(id) # id
        BY IdFacts
  <2>4. Unwritten(queue[place]) => ~SentAfter(WriteBackOf(id))
        BY <1>2, <2>1, <2>3 DEF EntryInv, OnlyFor
  <2> QED BY <2>2, <2>4
<1> HIDE DEF d, place, n
<1>10. ASSUME NEW k \in 1 .. n, k \in 1 .. Len(queue'), queue'[k] = d[k]
       PROVE  EntryInv(queue[k])'
  <2>1. CASE k # place
    <3>1. queue[k].id # id /\ queue'[k] = queue[k]
          BY <1>2, <1>3, <1>10, <2>1
    <3> QED BY <1>10, <3>1, OtherEntry DEF n
  <2>2. CASE k = place
    <3>1. queue'[k].id = id /\ queue'[k].waitFor = None /\ queue'[k].events = f
          /\ queue'[k].type = requests'[id].type
          BY <1>4, <1>8, <1>9, <1>10, <2>2
    <3>2. /\ Unsent(queue'[k]) => ~SentAfter(id)
          /\ Unwritten(queue'[k]) => ~SentAfter(WriteBackOf(id))
          /\ Unanswered(queue'[k]) => answers'[id] = 0
      <4>1. Unsent(queue'[k]) => ~SentAfter(id)
            BY <3>1 DEF GoesOn, Unsent, Ahead
      <4>2. Unwritten(queue'[k]) => ~SentAfter(WriteBackOf(id))
            BY <1>6, <1>9, <1>10, <2>2
      <4>3. Unanswered(queue'[k]) => answers'[id] = 0
            BY <3>1 DEF GoesOn, Unanswered, Ahead
      <4> QED BY <4>1, <4>2, <4>3
    <3>3. /\ id \notin annulled' /\ f \in EventSets
          /\ \A j \in DOMAIN memQueue' :
                memQueue'[j].id = id /\ memQueue'[j].type # "UPDATE" => f = {"response"}
          BY DEF GoesOn
    <3> QED BY <1>8, <1>9, <3>1, <3>2, <3>3
            DEF EntryInv, Sent, SentAfter, Unsent, Unwritten, Unanswered, Ahead
  <2> QED BY <2>1, <2>2
<1>11. CASE queue' = d
  <2>1. \A k \in 1 .. Len(queue') : EntryInv(queue[k])'
        BY <1>3, <1>10, <1>11
  <2>2. QueueInv' /\ EveryWaiterHasAWaker'
        BY <1>3, <1>7, <1>11, <2>1, QueueParts
  <2> QED BY <1>1, <1>3, <1>11, <2>2
<1>12. ASSUME n < QueueSize, Unwritten(queue[place]),
              f \cap {"access", "down", "response", "insert"} = {},
              NEW line \in Line, queue' = Append(d, WriteBack(id, line))
       PROVE  /\ queue' \in Seq(Entry) /\ Len(queue') <= QueueSize
              /\ QueueInv' /\ EveryWaiterHasAWaker'
  <2> DEFINE w == WriteBack(id, line)
  <2>1. /\ w \in Entry /\ w.id = WriteBackOf(id) /\ w.type = "UPDATE" /\ w.waitFor = None
        /\ w.events = {"down"} /\ w.id \notin Ids /\ WriteBackOf(id) \in AnyId
        BY <1>12, IdFacts DEF WriteBack, Entry, Type, Event
  <2> HIDE DEF w
  <2>2. ~Unwritten(w) /\ ~Unwritten(d[place])
        BY <1>5, <1>12, <2>1 DEF Unwritten
  <2>3. Shape(queue')
    <3>1. ASSUME NEW k \in 1 .. Len(d)
          PROVE  /\ d[k].id # w.id
                 /\ Unwritten(d[k]) => w.id # WriteBackOf(d[k].id)
      <4>1. k \in 1 .. n /\ d[k].id = queue[k].id
            BY <1>3
      <4>2. WriteBacksAreNew(queue)
            BY <1>1 DEF Shape
      <4>3. d[k].id # w.id
            BY <1>1, <1>2, <1>12, <2>1, <4>1, <4>2 DEF WriteBacksAreNew
      <4>4. Unwritten(d[k]) => d[k].id \in Ids /\ d[k].id # id
            BY <1>2, <2>2, <4>1 DEF Unwritten
      <4> QED BY <2>1, <4>3, <4>4, IdFacts
    <3> QED BY <1>3, <1>7, <1>12, <2>1, <2>2, <3>1, AppendedShape DEF w
  <2>4. /\ queue' \in Seq(Entry) /\ Len(queue') = n + 1
        /\ queue'[n + 1] = w /\ \A k \in 1 .. n : queue'[k] = d[k]
        BY <1>3, <1>12, <2>1, AppendProperties DEF w
  <2>5. ASSUME NEW k \in 1 .. Len(queue')
        PROVE  EntryInv(queue[k])'
    <3>1. CASE k \in 1 .. n
          BY <1>10, <2>4, <2>5, <3>1
    <3>2. CASE k = n + 1
      <4>1. queue'[k] = w /\ w.id \in Known' /\ ~SentAfter(w.id)
        <5>1. w.id \in Known
          <6>1. Len(requests) \in Nat /\ Len(requests) <= MaxRequests /\ MaxRequests \in Nat
                BY Basics
          <6> QED BY <1>9, <2>1, <6>1 DEF Known, Ids, WriteBackOf
        <5> QED BY <1>8, <1>9, <1>12, <2>1, <2>4, <3>2, <5>1
      <4>2. \A j \in DOMAIN memQueue' : memQueue'[j].id # w.id
            BY <4>1 DEF SentAfter, In
      <4> QED BY <2>1, <2>2, <4>1, <4>2 DEF EntryInv, Sent, SentAfter, EventSets, Unwritten
    <3> QED BY <1>1, <2>4, <3>1, <3>2
  <2>6. QueueInv' /\ EveryWaiterHasAWaker'
        BY <2>3, <2>4, <2>5, QueueParts
  <2> QED BY <1>1, <1>12, <2>4, <2>6
<1> QED BY <1>2, <1>11, <1>12 DEF d, n

(***************************************************************************)
(* The invariant: the events of an entry                                   *)
(***************************************************************************)
\* An entry something is scheduled for waits for nobody.
LEMMA PendingEntry ==
    ASSUME CacheInv, NEW id, NEW event, Pending(id, event)
    PROVE  LET e == EntryOf(queue, id) IN
           /\ In(queue, id) /\ id \in AnyId /\ e.id = id /\ e.line \in Line /\ e.type \in Type
           /\ EntryInv(e) /\ event \in e.events /\ e.waitFor = None /\ e.events \in EventSets
           /\ event # "down" => id \in Ids
<1> DEFINE e == EntryOf(queue, id)
<1>1. In(queue, id) /\ event \in e.events
      BY DEF Pending
<1>2. PICK k \in 1 .. Len(queue) : queue[k].id = id /\ e = queue[k]
      BY <1>1, Basics, PlaceProperties
<1>3. EntryInv(e) /\ e.id = id /\ id \in AnyId /\ e.line \in Line /\ e.type \in Type
      BY <1>2, Basics, EntryFields
<1> HIDE DEF e
<1>4. e.waitFor = None /\ e.events \in EventSets
      BY <1>1, <1>3 DEF EntryInv
<1>5. event # "down" => id \in Ids
      BY <1>1, <1>3 DEF EntryInv
<1> QED BY <1>1, <1>3, <1>4, <1>5 DEF e

\* Which events are scheduled together.
LEMMA Together ==
    ASSUME NEW E \in EventSets
    PROVE  /\ "access" \in E => E = {"access"}
           /\ "down" \in E => E = {"down"}
           /\ "response" \in E => E = {"response"}
           /\ "insert" \in E => E = {"insert"} \/ E = {"insert", "up"}
           /\ "clear" \in E => E = {"clear"} \/ E = {"clear", "up"}
           /\ "up" \in E => E = {"up"} \/ E = {"insert", "up"} \/ E = {"clear", "up"}
BY DEF EventSets

\* A step that touches neither the requests nor the memory.
LEMMA CacheStep ==
    ASSUME CacheInv, UNCHANGED <<requests, memQueue, accesses, failed, answers, annulled>>,
           queue' \in Seq(Entry), Len(queue') <= QueueSize,
           QueueInv', EveryWaiterHasAWaker',
           lines' \in [Line -> LineState], Cardinality(Held') <= Ways, unsaved' \subseteq Line
    PROVE  CacheInv'
<1>1. MemInv' /\ EveryReturnFindsAnEntry'
      BY SameMemory DEF Known
<1>2. AnswerInv'
      BY DEF CacheInv, AnswerInv
<1>3. TypeOK'
      BY DEF CacheInv, TypeOK
<1> QED BY <1>1, <1>2, <1>3 DEF CacheInv

LEMMA OnlyTheQueue ==
    ASSUME NEW id, UNCHANGED <<requests, memQueue, accesses, answers, annulled>>
    PROVE  OnlyFor(id)
<1>1. \A i : SentAfter(i) => Sent(i)
      BY DEF Sent, SentAfter
<1>2. \A j \in DOMAIN memQueue' : \E n \in DOMAIN memQueue : memQueue[n] = memQueue'[j]
      OBVIOUS
<1> QED BY <1>1, <1>2 DEF OnlyFor

LEMMA AccessInv ==
    ASSUME CacheInv, NEW id \in AnyId, CacheAccess(id)
    PROVE  CacheInv'
<1> DEFINE e == EntryOf(queue, id)
<1>1. /\ In(queue, id) /\ e.id = id /\ e.line \in Line /\ e.type \in Type /\ EntryInv(e)
      /\ e.waitFor = None /\ e.events = {"access"} /\ id \in Ids
      BY PendingEntry, Together DEF CacheAccess
<1>2. /\ UNCHANGED <<requests, memQueue, accesses, failed, answers, annulled>>
      /\ IF lines[e.line] = "absent" THEN AccessMiss(id, e.type, e.line)
                                     ELSE AccessHit(id, e.type, e.line)
      BY DEF CacheAccess
<1>3. OnlyFor(id)
      BY <1>2, OnlyTheQueue
<1> HIDE DEF e
<1>4. /\ Unsent(e) /\ Unwritten(e) /\ Unanswered(e) /\ ~Sent(id) /\ answers[id] = 0
      /\ id \notin annulled
  <2>1. Unsent(e) /\ Unwritten(e) /\ Unanswered(e)
        BY <1>1 DEF Unsent, Unwritten, Unanswered, Ahead
  <2> QED BY <1>1, <2>1 DEF EntryInv
<1>5. ~SentAfter(id) /\ \A j \in DOMAIN memQueue' : memQueue'[j].id # id
      BY <1>2, <1>4 DEF SentAfter, Sent, In
<1>6. ASSUME NEW f \in {{"up"}, {"clear"}, {"down"}}
      PROVE  GoesOn(id, e, f) /\ f \in SUBSET Event /\ f = (e.events \ {"access"}) \cup f
  <2>1. f \in EventSets /\ f \in SUBSET Event
        BY DEF EventSets, Event
  <2>2. GoesOn(id, e, f)
        BY <1>1, <1>2, <1>4, <1>5, <2>1 DEF GoesOn
  <2> QED BY <1>1, <2>1, <2>2
<1>7. /\ queue' \in Seq(Entry) /\ Len(queue') <= QueueSize
      /\ QueueInv' /\ EveryWaiterHasAWaker'
  <2>1. \/ \E f \in {{"up"}, {"clear"}, {"down"}} : queue' = Schedule(queue, id, {"access"}, f)
        \/ /\ Len(queue) < QueueSize
           /\ queue' = Append(Schedule(queue, id, {"access"}, {"clear"}), WriteBack(id, e.line))
        BY <1>2 DEF AccessMiss, AccessHit
  <2>2. ASSUME NEW f \in {{"up"}, {"clear"}, {"down"}}, queue' = Schedule(queue, id, {"access"}, f)
        PROVE  /\ queue' \in Seq(Entry) /\ Len(queue') <= QueueSize
               /\ QueueInv' /\ EveryWaiterHasAWaker'
        BY <1>1, <1>3, <1>6, <2>2, KeptQueue DEF e
  <2>3. ASSUME Len(queue) < QueueSize,
               queue' = Append(Schedule(queue, id, {"access"}, {"clear"}), WriteBack(id, e.line))
        PROVE  /\ queue' \in Seq(Entry) /\ Len(queue') <= QueueSize
               /\ QueueInv' /\ EveryWaiterHasAWaker'
    <3>1. {"clear"} \cap {"access", "down", "response", "insert"} = {}
          OBVIOUS
    <3> QED BY <1>1, <1>3, <1>4, <1>6, <2>3, <3>1, KeptQueue DEF e
  <2> QED BY <2>1, <2>2, <2>3
<1>8. lines' \in [Line -> LineState] /\ Held' = Held /\ unsaved' \subseteq Line
  <2>1. lines \in [Line -> LineState] /\ unsaved \subseteq Line
        BY DEF CacheInv, TypeOK
  <2>2. CASE lines' = lines
        BY <1>1, <1>2, <2>1, <2>2 DEF Held, AccessMiss, AccessHit
  <2>3. CASE /\ lines[e.line] # "absent" /\ lines' = [lines EXCEPT ![e.line] = "modified"]
             /\ unsaved' = unsaved \cup {e.line}
        BY <1>1, <2>1, <2>3 DEF Held, LineState
  <2> QED BY <1>2, <2>2, <2>3 DEF AccessMiss, AccessHit
<1>9. Cardinality(Held') <= Ways
      BY <1>8 DEF CacheInv, TypeOK
<1> QED BY <1>2, <1>7, <1>8, <1>9, CacheStep

LEMMA InsertInv ==
    ASSUME CacheInv, NEW id \in AnyId, CacheInsert(id)
    PROVE  CacheInv'
<1> DEFINE e == EntryOf(queue, id)
           f == (e.events \ {"insert"}) \cup {"clear"}
<1>1. /\ In(queue, id) /\ e.id = id /\ e.line \in Line /\ EntryInv(e) /\ id \in Ids
      /\ e.waitFor = None /\ (e.events = {"insert"} \/ e.events = {"insert", "up"})
      BY PendingEntry, Together DEF CacheInsert
<1>2. UNCHANGED <<requests, memQueue, accesses, failed, answers, annulled, unsaved>>
      BY DEF CacheInsert
<1>3. PICK victim \in IF e.line \in Held \/ Cardinality(Held) < Ways
                      THEN {{}} ELSE {{v} : v \in Held} :
             /\ lines' = [l \in Line |-> CASE l = e.line   -> "valid"
                                          [] l \in victim -> "absent"
                                          [] OTHER        -> lines[l]]
             /\ queue' = IF MustWriteBack(victim) /\ Len(queue) < QueueSize
                         THEN Append(Schedule(queue, id, {"insert"}, {"clear"}),
                                     WriteBack(id, CHOOSE v \in victim : TRUE))
                         ELSE Schedule(queue, id, {"insert"}, {"clear"})
      BY DEF CacheInsert
<1>4. OnlyFor(id)
      BY <1>2, OnlyTheQueue
<1> HIDE DEF e
<1>5. f = {"clear"} \/ (f = {"clear", "up"} /\ "up" \in e.events)
      BY <1>1
<1>6. /\ Unwritten(e) /\ id \notin annulled /\ ("up" \in e.events => answers[id] = 0)
      /\ \A j \in DOMAIN memQueue : memQueue[j].id = id => memQueue[j].type = "UPDATE"
  <2>1. Unwritten(e) /\ ("up" \in e.events => Unanswered(e))
        BY <1>1 DEF Unwritten, Unanswered, Ahead
  <2>2. e.events # {"response"}
        BY <1>1
  <2> QED BY <1>1, <2>1, <2>2 DEF EntryInv
<1> HIDE DEF f
<1>7. GoesOn(id, e, f) /\ f \cap {"access", "down", "response", "insert"} = {}
  <2>1. f \in EventSets /\ f \cap {"access", "down", "response", "insert"} = {}
        BY <1>5 DEF EventSets
  <2>2. f \cap {"access", "down", "response", "up"} # {} => answers'[id] = 0
        BY <1>2, <1>5, <1>6
  <2>3. f \cap {"access", "down"} = {}
        BY <1>5
  <2> QED BY <1>1, <1>2, <1>6, <2>1, <2>2, <2>3 DEF GoesOn
<1>8. \A v \in victim : v \in Held
      BY <1>3
<1>9. /\ queue' \in Seq(Entry) /\ Len(queue') <= QueueSize
      /\ QueueInv' /\ EveryWaiterHasAWaker'
  <2>1. CASE queue' = Schedule(queue, id, {"insert"}, {"clear"})
        BY <1>1, <1>4, <1>7, <2>1, KeptQueue DEF e, f, Event
  <2>2. ASSUME MustWriteBack(victim), Len(queue) < QueueSize,
               queue' = Append(Schedule(queue, id, {"insert"}, {"clear"}),
                               WriteBack(id, CHOOSE v \in victim : TRUE))
        PROVE  /\ queue' \in Seq(Entry) /\ Len(queue') <= QueueSize
               /\ QueueInv' /\ EveryWaiterHasAWaker'
    <3> DEFINE v == CHOOSE v \in victim : TRUE
    <3>1. v \in Line
      <4>1. v \in victim
            BY <2>2 DEF MustWriteBack
      <4> QED BY <1>8, <4>1 DEF Held
    <3> HIDE DEF v
    <3>2. \E line \in Line : queue' = Append(Schedule(queue, id, {"insert"}, {"clear"}),
                                             WriteBack(id, line))
          BY <2>2, <3>1 DEF v
    <3>3. {"clear"} \in SUBSET Event
          BY DEF Event
    <3> QED BY <1>1, <1>4, <1>6, <1>7, <2>2, <3>2, <3>3, KeptQueue DEF e, f
  <2> QED BY <1>3, <2>1, <2>2
<1>10. /\ lines \in [Line -> LineState] /\ unsaved \subseteq Line
       /\ Cardinality(Held) <= Ways /\ Ways \in Nat
       /\ IsFiniteSet(Held) /\ Cardinality(Held) \in Nat
  <2>1. IsFiniteSet(Held)
    <3>1. Held \subseteq Line
          BY DEF Held
    <3> QED BY <3>1, SharedCacheAssumption, FS_Subset
  <2> QED BY <2>1, FS_CardinalityType, SharedCacheAssumption DEF CacheInv, TypeOK
<1>11. lines' \in [Line -> LineState]
       BY <1>3, <1>10 DEF LineState
<1>12. Held' = (Held \ victim) \cup {e.line}
  <2>1. \A l \in Line : lines'[l] = CASE l = e.line  -> "valid"
                                     [] l \in victim -> "absent"
                                     [] OTHER        -> lines[l]
        BY <1>3
  <2>2. Held' = {l \in Line : lines'[l] # "absent"}
        BY DEF Held
  <2>3. \A l \in Line : l \in Held' <=> l = e.line \/ (l \in Held /\ l \notin victim)
        BY <2>1, <2>2 DEF Held
  <2>4. Held' \subseteq Line /\ Held \subseteq Line
        BY <2>2 DEF Held
  <2> QED BY <1>1, <2>3, <2>4
<1>13. Cardinality(Held') <= Ways
  <2>1. CASE e.line \in Held \/ Cardinality(Held) < Ways
    <3>1. Held' = Held \cup {e.line}
          BY <1>3, <1>12, <2>1
    <3>2. Cardinality(Held') = IF e.line \in Held THEN Cardinality(Held) ELSE Cardinality(Held) + 1
          BY <1>10, <3>1, FS_AddElement
    <3> QED BY <1>10, <2>1, <3>2
  <2>2. CASE ~(e.line \in Held \/ Cardinality(Held) < Ways)
    <3>1. PICK v \in Held : victim = {v}
          BY <1>3, <2>2
    <3> DEFINE rest == Held \ {v}
    <3>2. IsFiniteSet(rest) /\ Cardinality(rest) = Cardinality(Held) - 1
          BY <1>10, FS_RemoveElement
    <3>3. Held' = rest \cup {e.line} /\ e.line \notin rest
          BY <1>12, <2>2, <3>1
    <3> HIDE DEF rest
    <3>4. Cardinality(Held') = Cardinality(rest) + 1
          BY <3>2, <3>3, FS_AddElement
    <3> QED BY <1>10, <3>2, <3>4
  <2> QED BY <2>1, <2>2
<1> QED BY <1>2, <1>9, <1>10, <1>11, <1>13, CacheStep

LEMMA ClearInv ==
    ASSUME CacheInv, NEW id \in AnyId, Clear(id)
    PROVE  CacheInv'
<1> DEFINE e == EntryOf(queue, id)
<1>1. /\ In(queue, id) /\ e.id = id /\ EntryInv(e) /\ id \in Ids
      /\ e.waitFor = None /\ (e.events = {"clear"} \/ e.events = {"clear", "up"})
      BY PendingEntry, Together DEF Clear
<1>2. /\ UNCHANGED <<requests, lines, memQueue, accesses, failed, answers, annulled, unsaved>>
      /\ queue' = ClearEntry(queue, id, {"clear"})
      BY DEF Clear
<1>3. OnlyFor(id)
      BY <1>2, OnlyTheQueue
<1>4. /\ queue' \in Seq(Entry) /\ Len(queue') <= Len(queue)
      /\ \/ e.events \ {"clear"} = {} /\ Freed(queue, queue', id)
         \/ e.events \ {"clear"} # {} /\ queue' = Schedule(queue, id, {"clear"}, {})
      BY <1>1, <1>2, Basics, ClearProperties
<1> HIDE DEF e
<1>5. QueueInv' /\ EveryWaiterHasAWaker'
  <2>1. CASE Freed(queue, queue', id)
        BY <1>1, <1>3, <1>4, <2>1, FreedQueue
  <2>2. CASE e.events \ {"clear"} # {} /\ queue' = Schedule(queue, id, {"clear"}, {})
    <3>1. (e.events \ {"clear"}) \cup {} = {"up"} /\ "up" \in e.events /\ {} \in SUBSET Event
          BY <1>1, <2>2
    <3>2. /\ id \notin annulled' /\ answers'[id] = 0
          /\ \A j \in DOMAIN memQueue' : memQueue'[j].id = id => memQueue'[j].type = "UPDATE"
      <4>1. Unanswered(e) /\ e.events # {"response"}
            BY <3>1 DEF Unanswered, Ahead
      <4> QED BY <1>1, <1>2, <4>1 DEF EntryInv
    <3>3. GoesOn(id, e, {"up"})
          BY <1>1, <3>2 DEF GoesOn, EventSets
    <3> QED BY <1>1, <1>3, <2>2, <3>1, <3>3, KeptQueue DEF e
  <2> QED BY <1>4, <2>1, <2>2
<1>6. /\ Len(queue') <= QueueSize /\ Held' = Held
      /\ lines \in [Line -> LineState] /\ unsaved \subseteq Line /\ Cardinality(Held) <= Ways
  <2>1. Len(queue) \in Nat /\ Len(queue) <= QueueSize /\ QueueSize \in Nat /\ Len(queue') \in Nat
        BY <1>4, Basics, SharedCacheAssumption, LenProperties
  <2> QED BY <1>2, <1>4, <2>1 DEF Held, CacheInv, TypeOK
<1> QED BY <1>2, <1>4, <1>5, <1>6, CacheStep

LEMMA SendUpInv ==
    ASSUME CacheInv, NEW id \in AnyId, SendUp(id)
    PROVE  /\ CacheInv' /\ id \in Ids /\ answers[id] = 0 /\ id \notin annulled
           /\ id <= Len(requests)
<1> DEFINE e == EntryOf(queue, id)
<1>1. /\ In(queue, id) /\ e.id = id /\ EntryInv(e) /\ id \in Ids /\ e.waitFor = None
      /\ (e.events = {"up"} \/ e.events = {"insert", "up"} \/ e.events = {"clear", "up"})
      BY PendingEntry, Together DEF SendUp
<1>2. /\ UNCHANGED <<requests, lines, memQueue, accesses, failed, annulled, unsaved>>
      /\ answers' = [answers EXCEPT ![id] = @ + 1]
      /\ queue' = ClearEntry(queue, id, {"up"})
      BY DEF SendUp
<1>3. OnlyFor(id)
  <2>1. \A i : SentAfter(i) => Sent(i)
        BY <1>2 DEF Sent, SentAfter
  <2>2. answers \in [Ids -> Nat]
        BY DEF CacheInv, TypeOK
  <2> QED BY <1>2, <2>1, <2>2 DEF OnlyFor
<1>4. /\ queue' \in Seq(Entry) /\ Len(queue') <= Len(queue)
      /\ \/ e.events \ {"up"} = {} /\ Freed(queue, queue', id)
         \/ e.events \ {"up"} # {} /\ queue' = Schedule(queue, id, {"up"}, {})
      BY <1>1, <1>2, Basics, ClearProperties
<1> HIDE DEF e
<1>5. /\ answers[id] = 0 /\ id \notin annulled /\ e.events # {"response"} /\ id \in Known
      /\ \A j \in DOMAIN memQueue' : memQueue'[j].id = id => memQueue'[j].type = "UPDATE"
  <2>1. Unanswered(e) /\ e.events # {"response"}
        BY <1>1 DEF Unanswered, Ahead
  <2> QED BY <1>1, <1>2, <2>1 DEF EntryInv
<1>6. QueueInv' /\ EveryWaiterHasAWaker'
  <2>1. CASE Freed(queue, queue', id)
        BY <1>1, <1>3, <1>4, <2>1, FreedQueue
  <2>2. ASSUME e.events \ {"up"} # {}, queue' = Schedule(queue, id, {"up"}, {})
        PROVE  QueueInv' /\ EveryWaiterHasAWaker'
    <3> DEFINE f == (e.events \ {"up"}) \cup {}
    <3>1. f = {"insert"} \/ f = {"clear"}
          BY <1>1, <2>2
    <3>2. f = {"insert"} => Unwritten(e)
          BY <1>1 DEF Unwritten, Ahead
    <3> HIDE DEF f
    <3>3. GoesOn(id, e, f)
      <4>1. /\ f \in EventSets /\ f \cap {"access", "down"} = {}
            /\ f \cap {"access", "down", "response", "up"} = {}
            /\ f \cap {"access", "down", "response", "insert"} # {} => f = {"insert"}
            BY <3>1 DEF EventSets
      <4> QED BY <1>1, <1>2, <1>5, <3>2, <4>1 DEF GoesOn
    <3> QED BY <1>1, <1>3, <2>2, <3>3, KeptQueue DEF e, f
  <2> QED BY <1>4, <2>1, <2>2
<1>7. MemInv' /\ EveryReturnFindsAnEntry'
      BY <1>2, SameMemory DEF Known
<1>8. id <= Len(requests) /\ Len(requests) \in Nat
  <2>1. Len(requests) \in Nat
        BY Basics
  <2> QED BY <1>1, <1>5, <2>1, SharedCacheAssumption DEF Known, Ids, WriteBackOf
<1>9. AnswerInv'
  <2> SUFFICES ASSUME NEW i \in Ids
               PROVE  /\ answers'[i] \in {0, 1}
                      /\ i \in annulled \/ i > Len(requests) => answers'[i] = 0
                      /\ i \in annulled => i <= Len(requests)
      BY <1>2 DEF AnswerInv
  <2>1. /\ answers[i] \in {0, 1} /\ (i \in annulled \/ i > Len(requests) => answers[i] = 0)
        /\ (i \in annulled => i <= Len(requests)) /\ answers \in [Ids -> Nat]
        BY DEF CacheInv, AnswerInv, TypeOK
  <2>2. CASE i # id
        BY <1>2, <2>1, <2>2
  <2>3. CASE i = id
    <3>1. answers'[i] = 1
          BY <1>1, <1>2, <1>5, <2>1, <2>3
    <3>2. ~(id > Len(requests))
          BY <1>1, <1>8 DEF Ids
    <3> QED BY <1>5, <1>8, <2>3, <3>1, <3>2
  <2> QED BY <2>2, <2>3
<1>10. TypeOK'
  <2>1. Len(queue) \in Nat /\ Len(queue) <= QueueSize /\ QueueSize \in Nat /\ Len(queue') \in Nat
        BY <1>4, Basics, SharedCacheAssumption, LenProperties
  <2>2. Len(queue') <= QueueSize /\ Held' = Held
        BY <1>2, <1>4, <2>1 DEF Held
  <2>3. answers' \in [Ids -> Nat]
        BY <1>1, <1>2 DEF CacheInv, TypeOK
  <2> QED BY <1>2, <1>4, <2>2, <2>3 DEF CacheInv, TypeOK
<1> QED BY <1>1, <1>5, <1>6, <1>7, <1>8, <1>9, <1>10 DEF CacheInv

LEMMA SendDownInv ==
    ASSUME CacheInv, NEW id \in AnyId, SendDown(id)
    PROVE  CacheInv'
<1> DEFINE e == EntryOf(queue, id)
           m == [id |-> id, type |-> e.type, line |-> e.line]
           a == [id |-> id, line |-> e.line]
           n == Len(memQueue)
<1>1. /\ In(queue, id) /\ e.id = id /\ e.line \in Line /\ e.type \in Type /\ EntryInv(e)
      /\ e.waitFor = None /\ e.events = {"down"}
      BY PendingEntry, Together DEF SendDown
<1>2. /\ UNCHANGED <<requests, lines, failed, answers, annulled>>
      /\ n < MemQueueSize /\ memQueue' = Append(memQueue, m)
      /\ accesses' = accesses \cup {a}
      BY DEF SendDown
<1>3. \/ /\ e.type = "UPDATE" /\ queue' = ClearEntry(queue, id, {"down"})
         /\ unsaved' \subseteq unsaved
      \/ /\ e.type # "UPDATE" /\ queue' = Schedule(queue, id, {"down"}, {"response"})
         /\ unsaved' = unsaved
      BY DEF SendDown
<1> HIDE DEF e
<1>4. /\ ~Sent(id) /\ id \in Known
      /\ id \in Ids => Unwritten(e) /\ answers[id] = 0 /\ id \notin annulled
  <2>1. Unsent(e) /\ Unanswered(e) /\ (id \in Ids => Unwritten(e))
        BY <1>1 DEF Unsent, Unwritten, Unanswered, Ahead
  <2> QED BY <1>1, <2>1 DEF EntryInv
<1>5. /\ m \in [id : AnyId, type : Type, line : Line] /\ a \in [id : AnyId, line : Line]
      /\ m.id = id /\ m.line = e.line /\ m.type = e.type /\ a.id = id /\ a.line = e.line
      BY <1>1
<1>6. a \notin accesses /\ \A k \in 1 .. n : memQueue[k].id # id
  <2>1. DOMAIN memQueue = 1 .. n
        BY Basics
  <2> QED BY <1>4, <1>5, <2>1 DEF Sent, In
<1> HIDE DEF m, a
<1>7. /\ n \in Nat /\ memQueue' \in Seq([id : AnyId, type : Type, line : Line])
      /\ Len(memQueue') = n + 1 /\ memQueue'[n + 1] = m
      /\ \A k \in 1 .. n : memQueue'[k] = memQueue[k]
      /\ DOMAIN memQueue = 1 .. n /\ DOMAIN memQueue' = 1 .. n + 1
  <2>1. memQueue \in Seq([id : AnyId, type : Type, line : Line])
        BY DEF CacheInv, TypeOK
  <2> QED BY <1>2, <1>5, <2>1, AppendProperties, LenProperties
<1> HIDE DEF n
<1>8. \A k \in 1 .. n + 1 : k = n + 1 \/ k \in 1 .. n
      BY <1>7
<1>9. OnlyFor(id)
  <2>1. \A j \in DOMAIN memQueue' : \/ memQueue'[j].id = id
                                    \/ \E k \in DOMAIN memQueue : memQueue[k] = memQueue'[j]
        BY <1>5, <1>7, <1>8
  <2>2. \A i : SentAfter(i) => Sent(i) \/ i = id
    <3> SUFFICES ASSUME NEW i, SentAfter(i), i # id PROVE Sent(i)
        OBVIOUS
    <3>1. CASE In(memQueue', i)
          BY <2>1, <3>1 DEF In, Sent
    <3>2. CASE \E x \in accesses' : x.id = i
          BY <1>2, <1>5, <3>2 DEF Sent
    <3> QED BY <3>1, <3>2 DEF SentAfter
  <2> QED BY <1>1, <1>2, <2>1, <2>2 DEF OnlyFor
<1>10. /\ queue' \in Seq(Entry) /\ Len(queue') <= QueueSize
       /\ QueueInv' /\ EveryWaiterHasAWaker'
  <2>1. ASSUME queue' = ClearEntry(queue, id, {"down"})
        PROVE  /\ queue' \in Seq(Entry) /\ Len(queue') <= QueueSize
               /\ QueueInv' /\ EveryWaiterHasAWaker'
    <3>1. /\ queue' \in Seq(Entry) /\ Len(queue') <= Len(queue)
          /\ \/ e.events \ {"down"} = {} /\ Freed(queue, queue', id)
             \/ e.events \ {"down"} # {} /\ queue' = Schedule(queue, id, {"down"}, {})
          BY <1>1, <2>1, Basics, ClearProperties DEF e
    <3>2. Freed(queue, queue', id)
          BY <1>1, <3>1
    <3>3. Len(queue') <= QueueSize
      <4>1. /\ Len(queue) \in Nat /\ Len(queue) <= QueueSize
            /\ QueueSize \in Nat /\ Len(queue') \in Nat
            BY <3>1, Basics, SharedCacheAssumption, LenProperties
      <4> QED BY <3>1, <4>1
    <3> QED BY <1>1, <1>9, <3>1, <3>2, <3>3, FreedQueue
  <2>2. ASSUME e.type # "UPDATE", queue' = Schedule(queue, id, {"down"}, {"response"})
        PROVE  /\ queue' \in Seq(Entry) /\ Len(queue') <= QueueSize
               /\ QueueInv' /\ EveryWaiterHasAWaker'
    <3>1. id \in Ids
          BY <1>1, <2>2 DEF EntryInv
    <3>2. {"response"} = (e.events \ {"down"}) \cup {"response"} /\ {"response"} \in SUBSET Event
          BY <1>1 DEF Event
    <3>3. GoesOn(id, e, {"response"})
      <4>1. {"response"} \in EventSets /\ {"response"} \cap {"access", "down"} = {}
            BY DEF EventSets
      <4> QED BY <1>1, <1>2, <1>4, <3>1, <4>1 DEF GoesOn
    <3> QED BY <1>1, <1>9, <2>2, <3>1, <3>2, <3>3, KeptQueue DEF e
  <2> QED BY <1>3, <2>1, <2>2
<1>11. MemInv'
  <2>1. UniqueIds(memQueue')
    <3> SUFFICES ASSUME NEW j \in 1 .. n + 1, NEW k \in 1 .. n + 1, memQueue'[j].id = memQueue'[k].id
                 PROVE  j = k
        BY <1>7 DEF UniqueIds
    <3>1. CASE j \in 1 .. n /\ k \in 1 .. n
          BY <1>7, <3>1 DEF CacheInv, MemInv, UniqueIds
    <3>2. CASE j = n + 1 \/ k = n + 1
          BY <1>5, <1>6, <1>7, <1>8, <3>2
    <3> QED BY <1>8, <3>1, <3>2
  <2>2. IsFiniteSet(accesses')
        BY <1>2, FS_AddElement DEF CacheInv, MemInv
  <2>3. Known' = Known
        BY <1>2 DEF Known
  <2>4. \A x \in accesses' : x.id \in Known'
        BY <1>2, <1>4, <1>5, <2>3 DEF CacheInv, MemInv
  <2>5. \A k \in DOMAIN memQueue' : memQueue'[k].id \in Known'
        BY <1>4, <1>5, <1>7, <1>8, <2>3 DEF CacheInv, MemInv
  <2> QED BY <2>1, <2>2, <2>4, <2>5 DEF MemInv
<1>12. EveryReturnFindsAnEntry'
  <2>1. ~failed'
        BY <1>2 DEF CacheInv, EveryReturnFindsAnEntry
  <2>2. ASSUME NEW l \in Line
        PROVE  Cardinality(MatchingEntries(l)') = Cardinality({x \in accesses' : x.line = l})
    <3> DEFINE M == {k \in 1 .. n : memQueue[k].line = l}
               A == {x \in accesses : x.line = l}
    <3>1. /\ Cardinality(M) = Cardinality(A) /\ IsFiniteSet(M) /\ IsFiniteSet(A)
      <4>1. M = MatchingEntries(l)
            BY <1>7 DEF MatchingEntries
      <4>2. IsFiniteSet(1 .. n)
            BY <1>7, FS_Interval
      <4>3. M \subseteq 1 .. n /\ A \subseteq accesses
            OBVIOUS
      <4>4. IsFiniteSet(M) /\ IsFiniteSet(A)
            BY <4>2, <4>3, FS_Subset DEF CacheInv, MemInv
      <4> QED BY <4>1, <4>4 DEF CacheInv, EveryReturnFindsAnEntry
    <3>2. MatchingEntries(l)' = {k \in 1 .. n + 1 : memQueue'[k].line = l}
          BY <1>7 DEF MatchingEntries
    <3>3. CASE l # e.line
      <4>1. MatchingEntries(l)' = M
            BY <1>5, <1>7, <1>8, <3>2, <3>3
      <4>2. {x \in accesses' : x.line = l} = A
            BY <1>2, <1>5, <3>3
      <4> QED BY <3>1, <4>1, <4>2
    <3>4. CASE l = e.line
      <4>1. MatchingEntries(l)' = M \cup {n + 1} /\ n + 1 \notin M
            BY <1>5, <1>7, <1>8, <3>2, <3>4
      <4>2. {x \in accesses' : x.line = l} = A \cup {a} /\ a \notin A
            BY <1>2, <1>5, <1>6, <3>4
      <4> HIDE DEF M, A
      <4>3. /\ Cardinality(M \cup {n + 1}) = Cardinality(M) + 1
            /\ Cardinality(A \cup {a}) = Cardinality(A) + 1
            BY <3>1, <4>1, <4>2, FS_AddElement
      <4> QED BY <3>1, <4>1, <4>2, <4>3
    <3> QED BY <3>3, <3>4
  <2> QED BY <2>1, <2>2 DEF EveryReturnFindsAnEntry
<1>13. AnswerInv'
       BY <1>2 DEF CacheInv, AnswerInv
<1>14. TypeOK'
  <2>1. Len(memQueue') <= MemQueueSize
        BY <1>2, <1>7, SharedCacheAssumption DEF n
  <2>2. Held' = Held /\ unsaved' \subseteq Line
        BY <1>2, <1>3 DEF Held, CacheInv, TypeOK
  <2>3. accesses' \subseteq [id : AnyId, line : Line]
        BY <1>2, <1>5 DEF CacheInv, TypeOK
  <2> QED BY <1>2, <1>7, <1>10, <2>1, <2>2, <2>3 DEF CacheInv, TypeOK
<1> QED BY <1>10, <1>11, <1>12, <1>13, <1>14 DEF CacheInv

(***************************************************************************)
(* The invariant: the callbacks of the memory                              *)
(***************************************************************************)
LEMMA MemoryReturnInv ==
    ASSUME CacheInv, NEW access \in accesses, MemoryReturn(access)
    PROVE  CacheInv'
<1> DEFINE n == Len(memQueue)
           Mem == [id : AnyId, type : Type, line : Line]
           M(l) == {j \in 1 .. n : memQueue[j].line = l}
           A(l) == {x \in accesses : x.line = l}
<1>1. /\ n \in Nat /\ memQueue \in Seq(Mem) /\ DOMAIN memQueue = 1 .. n
      /\ access.line \in Line /\ UniqueIds(memQueue) /\ IsFiniteSet(accesses)
      /\ queue \in Seq(Entry) /\ Len(queue) <= QueueSize
  <2>1. /\ memQueue \in Seq(Mem) /\ accesses \subseteq [id : AnyId, line : Line]
        /\ queue \in Seq(Entry) /\ Len(queue) <= QueueSize
        BY DEF CacheInv, TypeOK
  <2> QED BY <2>1, LenProperties DEF CacheInv, MemInv
<1>2. ASSUME NEW l \in Line
      PROVE  /\ MatchingEntries(l) = M(l) /\ Cardinality(M(l)) = Cardinality(A(l))
             /\ IsFiniteSet(M(l)) /\ IsFiniteSet(A(l)) /\ Cardinality(A(l)) \in Nat
  <2>1. MatchingEntries(l) = M(l)
        BY <1>1 DEF MatchingEntries
  <2>2. IsFiniteSet(1 .. n) /\ M(l) \subseteq 1 .. n /\ A(l) \subseteq accesses
        BY <1>1, FS_Interval
  <2>3. IsFiniteSet(M(l)) /\ IsFiniteSet(A(l))
        BY <1>1, <2>2, FS_Subset
  <2>4. Cardinality(A(l)) \in Nat
        BY <2>3, FS_CardinalityType
  <2> QED BY <2>1, <2>3, <2>4 DEF CacheInv, EveryReturnFindsAnEntry
<1>3. MatchingEntries(access.line) # {}
  <2> SUFFICES ASSUME M(access.line) = {} PROVE FALSE
      BY <1>1, <1>2
  <2>1. Cardinality(M(access.line)) = 0
        BY FS_EmptySet
  <2>2. access \in A(access.line)
        OBVIOUS
  <2> HIDE DEF A, M
  <2>3. Cardinality(A(access.line)) = 0 /\ IsFiniteSet(A(access.line))
        BY <1>1, <1>2, <2>1
  <2>4. A(access.line) = {}
        BY <2>3, FS_EmptySet
  <2> QED BY <2>2, <2>4
<1>4. PICK k \in MatchingEntries(access.line) :
          /\ memQueue' = RemoveAt(memQueue, k) /\ MemoryAnswers(memQueue[k]) /\ failed' = failed
      BY <1>3 DEF MemoryReturn, FreeMemEntry
<1>5. /\ accesses' = accesses \ {access}
      /\ UNCHANGED <<requests, lines, answers, annulled, unsaved>>
      BY DEF MemoryReturn
<1>6. k \in 1 .. n /\ memQueue[k].line = access.line
      BY <1>1, <1>2, <1>4
<1>7. memQueue' \in Seq(Mem) /\ Len(memQueue') = n - 1 /\ DOMAIN memQueue' = 1 .. n - 1
  <2>1. memQueue' \in Seq(Mem) /\ Len(memQueue') = n - 1
        BY <1>1, <1>4, <1>6, RemoveAtProperties
  <2> QED BY <2>1, LenProperties
<1>8. PICK s \in [1 .. n - 1 -> 1 .. n] :
               /\ \A j \in 1 .. n - 1 : s[j] # k /\ memQueue'[j] = memQueue[s[j]]
               /\ \A i, j \in 1 .. n - 1 : i < j <=> s[i] < s[j]
               /\ \A i \in 1 .. n : i # k => \E j \in 1 .. n - 1 : s[j] = i
  <2>1. Erased(memQueue, RemoveAt(memQueue, k), k)
        BY <1>1, <1>6, RemoveAtErases
  <2> QED BY <1>4, <2>1 DEF Erased
<1>9. \A i, j \in 1 .. n - 1 : s[i] = s[j] => i = j
  <2> SUFFICES ASSUME NEW i \in 1 .. n - 1, NEW j \in 1 .. n - 1, s[i] = s[j], i # j
               PROVE  FALSE
      OBVIOUS
  <2>1. i < j \/ j < i
        BY <1>1
  <2>2. s[i] \in 1 .. n /\ ~(s[i] < s[i])
        BY <1>1, <1>8
  <2> QED BY <1>8, <2>1, <2>2
<1> HIDE DEF n, Mem, M, A
<1>10. ASSUME NEW i
       PROVE  OnlyFor(i)
  <2>1. \A j \in DOMAIN memQueue' : \E h \in DOMAIN memQueue : memQueue[h] = memQueue'[j]
        BY <1>1, <1>7, <1>8
  <2>2. \A x : SentAfter(x) => Sent(x)
    <3> SUFFICES ASSUME NEW x, SentAfter(x) PROVE Sent(x)
        OBVIOUS
    <3>1. CASE In(memQueue', x)
          BY <2>1, <3>1 DEF In, Sent
    <3>2. CASE \E y \in accesses' : y.id = x
          BY <1>5, <3>2 DEF Sent
    <3> QED BY <3>1, <3>2 DEF SentAfter
  <2> QED BY <1>5, <2>1, <2>2 DEF OnlyFor
<1>11. /\ queue' \in Seq(Entry) /\ Len(queue') <= QueueSize
       /\ QueueInv' /\ EveryWaiterHasAWaker'
  <2> DEFINE id == memQueue[k].id
             e == EntryOf(queue, id)
  <2>1. CASE queue' = queue
    <3>1. ASSUME NEW i \in 1 .. Len(queue')
          PROVE  EntryInv(queue[i])'
      <4>1. i \in 1 .. Len(queue) /\ queue[i].id # None /\ queue'[i] = queue[i]
            BY <1>1, <2>1, EntryFields, IdFacts
      <4> QED BY <1>10, <4>1, OtherEntry
    <3>2. Shape(queue') /\ queue' \in Seq(Entry)
          BY <1>1, <2>1, Basics
    <3>3. QueueInv' /\ EveryWaiterHasAWaker'
          BY <3>1, <3>2, QueueParts
    <3> QED BY <1>1, <2>1, <3>2, <3>3
  <2>2. ASSUME memQueue[k].type # "UPDATE", In(queue, id),
               queue' = Schedule(queue, id, {"response"}, {"insert", "up"})
        PROVE  /\ queue' \in Seq(Entry) /\ Len(queue') <= QueueSize
               /\ QueueInv' /\ EveryWaiterHasAWaker'
    <3>1. EntryInv(e) /\ e.id = id
      <4>1. PICK i \in 1 .. Len(queue) : queue[i].id = id /\ e = queue[i]
            BY <1>1, <2>2, PlaceProperties
      <4> QED BY <4>1, Basics
    <3> HIDE DEF e
    <3>2. e.events = {"response"}
          BY <1>1, <1>6, <2>2, <3>1 DEF EntryInv
    <3>3. id \in Ids /\ e.waitFor = None /\ Unwritten(e) /\ Unanswered(e)
      <4>1. id \in Ids /\ e.waitFor = None
            BY <3>1, <3>2 DEF EntryInv
      <4> QED BY <3>1, <3>2, <4>1 DEF Unwritten, Unanswered, Ahead
    <3>4. answers[id] = 0 /\ id \notin annulled
          BY <3>1, <3>3 DEF EntryInv
    <3>5. \A j \in DOMAIN memQueue' : memQueue'[j].id # id
          BY <1>1, <1>6, <1>7, <1>8 DEF UniqueIds
    <3>6. /\ {"insert", "up"} = (e.events \ {"response"}) \cup {"insert", "up"}
          /\ {"insert", "up"} \in SUBSET Event
          BY <3>2 DEF Event
    <3>7. GoesOn(id, e, {"insert", "up"})
      <4>1. {"insert", "up"} \in EventSets /\ {"insert", "up"} \cap {"access", "down"} = {}
            BY DEF EventSets
      <4> QED BY <1>5, <3>3, <3>4, <3>5, <4>1 DEF GoesOn
    <3> QED BY <1>10, <2>2, <3>3, <3>6, <3>7, KeptQueue DEF e
  <2> QED BY <1>4, <2>1, <2>2 DEF MemoryAnswers, FindMatch
<1>12. MemInv'
  <2>1. UniqueIds(memQueue')
        BY <1>1, <1>7, <1>8, <1>9 DEF UniqueIds
  <2>2. IsFiniteSet(accesses')
        BY <1>1, <1>5, FS_RemoveElement
  <2>3. Known' = Known
        BY <1>5 DEF Known
  <2>4. \A x \in accesses' : x.id \in Known'
        BY <1>5, <2>3 DEF CacheInv, MemInv
  <2>5. \A j \in DOMAIN memQueue' : memQueue'[j].id \in Known'
        BY <1>1, <1>7, <1>8, <2>3 DEF CacheInv, MemInv
  <2> QED BY <2>1, <2>2, <2>4, <2>5 DEF MemInv
<1>13. EveryReturnFindsAnEntry'
  <2>1. ~failed'
        BY <1>4 DEF CacheInv, EveryReturnFindsAnEntry
  <2>2. ASSUME NEW l \in Line
        PROVE  Cardinality(MatchingEntries(l)') = Cardinality({x \in accesses' : x.line = l})
    <3> DEFINE N == {j \in 1 .. n - 1 : memQueue'[j].line = l}
               t == [j \in N |-> s[j]]
    <3>1. MatchingEntries(l)' = N
          BY <1>7 DEF MatchingEntries
    <3>2. IsFiniteSet(N)
      <4>1. N \subseteq 1 .. n - 1 /\ IsFiniteSet(1 .. n - 1)
            BY <1>1, FS_Interval
      <4> QED BY <4>1, FS_Subset
    <3>3. \A j \in N : s[j] \in M(l) \ {k}
          BY <1>8 DEF M
    <3>4. \A i \in M(l) \ {k} : \E j \in N : s[j] = i
          BY <1>8 DEF M
    <3>5. t \in [N -> M(l) \ {k}] /\ \A j \in N : t[j] = s[j]
          BY <3>3
    <3>6. \A i, j \in N : t[i] = t[j] => i = j
          BY <1>9, <3>5
    <3>7. \A i \in M(l) \ {k} : \E j \in N : t[j] = i
          BY <3>4, <3>5
    <3> HIDE DEF t, N
    <3>8. Cardinality(N) = Cardinality(M(l) \ {k})
          BY <3>2, <3>5, <3>6, <3>7, CountByMap
    <3>9. {x \in accesses' : x.line = l} = A(l) \ {access}
          BY <1>5 DEF A
    <3>10. (k \in M(l) <=> l = access.line) /\ (access \in A(l) <=> l = access.line)
           BY <1>6 DEF M, A
    <3>11. Cardinality(M(l) \ {k}) = Cardinality(A(l) \ {access})
      <4>1. Cardinality(M(l) \ {k}) = IF k \in M(l) THEN Cardinality(M(l)) - 1
                                                    ELSE Cardinality(M(l))
            BY <1>2, FS_RemoveElement
      <4>2. Cardinality(A(l) \ {access}) = IF access \in A(l) THEN Cardinality(A(l)) - 1
                                                              ELSE Cardinality(A(l))
            BY <1>2, FS_RemoveElement
      <4> QED BY <1>2, <3>10, <4>1, <4>2
    <3> QED BY <3>1, <3>8, <3>9, <3>11
  <2> QED BY <2>1, <2>2 DEF EveryReturnFindsAnEntry
<1>14. AnswerInv'
       BY <1>5 DEF CacheInv, AnswerInv
<1>15. TypeOK'
  <2>1. Len(memQueue') <= MemQueueSize
    <3>1. n <= MemQueueSize
          BY DEF CacheInv, TypeOK, n
    <3> QED BY <1>1, <1>7, <3>1, SharedCacheAssumption
  <2>2. Held' = Held
        BY <1>5 DEF Held
  <2>3. accesses' \subseteq [id : AnyId, line : Line]
        BY <1>5 DEF CacheInv, TypeOK
  <2> QED BY <1>4, <1>5, <1>7, <1>11, <2>1, <2>2, <2>3 DEF CacheInv, TypeOK, Mem
<1> QED BY <1>11, <1>12, <1>13, <1>14, <1>15 DEF CacheInv

(***************************************************************************)
(* The theorems                                                            *)
(***************************************************************************)
\* Which action a step is.
LEMMA StepOf ==
    ASSUME Next
    PROVE  \/ \E msg \in Message : Request(msg)
           \/ \E id \in Ids : AnnulRequest(id)
           \/ \E id \in AnyId : CacheAccess(id)
           \/ \E id \in AnyId : CacheInsert(id)
           \/ \E id \in AnyId : Clear(id)
           \/ \E id \in AnyId : SendUp(id)
           \/ \E id \in AnyId : SendDown(id)
           \/ \E access \in accesses : MemoryReturn(access)
BY DEF Next, Step, Bus, EventOf

\* The invariant of the cache and the memory controller below it holds
\* throughout, for every capacity and every schedule of the events.
THEOREM CacheInvariant == Spec => []CacheInv
<1>1. CacheInv /\ [Next]_vars => CacheInv'
  <2> SUFFICES ASSUME CacheInv, [Next]_vars PROVE CacheInv'
      OBVIOUS
  <2>1. CASE UNCHANGED vars
    <3>1. TypeOK' /\ EveryWaiterHasAWaker'
          BY <2>1 DEF vars, CacheInv, TypeOK, Held, EveryWaiterHasAWaker
    <3>2. QueueInv'
          BY <2>1 DEF vars, CacheInv, QueueInv, EntryInv, Known, Sent, Unsent, Unwritten,
                      Unanswered, Ahead
    <3>3. MemInv' /\ AnswerInv' /\ EveryReturnFindsAnEntry'
      <4>1. MemInv' /\ EveryReturnFindsAnEntry'
            BY <2>1, SameMemory DEF vars, Known
      <4> QED BY <2>1, <4>1 DEF vars, CacheInv, AnswerInv
    <3> QED BY <3>1, <3>2, <3>3 DEF CacheInv
  <2>2. CASE Next
        BY <2>2, StepOf, RequestInv, AnnulInv, AccessInv, InsertInv, ClearInv, SendUpInv,
           SendDownInv, MemoryReturnInv
  <2> QED BY <2>1, <2>2
<1> QED BY <1>1, InitInv, PTL DEF Spec

\* The types, and the capacity of both queues and of the cache: the room that
\* is_full keeps back is never exceeded, whatever write-backs the entries make.
THEOREM CacheTypes == Spec => []TypeOK
<1>1. CacheInv => TypeOK
      BY DEF CacheInv
<1> QED BY <1>1, CacheInvariant, PTL

\* A callback of the memory simulator always finds an entry of its line, so the
\* assert(0) of read_return_cb and write_return_cb is never reached.
THEOREM ReturnsFindEntries == Spec => []EveryReturnFindsAnEntry
<1>1. CacheInv => EveryReturnFindsAnEntry
      BY DEF CacheInv
<1> QED BY <1>1, CacheInvariant, PTL

\* Whoever waits for an entry is woken by exactly one that is in the queue and
\* came before it, whichever requests were called off.
THEOREM WaitersHaveWakers == Spec => []EveryWaiterHasAWaker
<1>1. CacheInv => EveryWaiterHasAWaker
      BY DEF CacheInv
<1> QED BY <1>1, CacheInvariant, PTL

\* What the bus sees of a request, when nothing is answered twice.
LEMMA Outcomes ==
    ASSUME CacheInv, NEW i \in Ids
    PROVE  Outcome(i) = IF Len(requests) < i \/ ~Expected(requests[i].type) THEN "idle"
                        ELSE IF i \in annulled THEN "withdrawn"
                        ELSE IF answers[i] = 1 THEN "answered" ELSE "asked"
<1>1. answers[i] \in {0, 1} /\ (i \in annulled => answers[i] = 0)
      BY DEF CacheInv, AnswerInv
<1>2. CASE answers[i] = 0
      BY <1>2 DEF Outcome
<1>3. CASE answers[i] = 1
      BY <1>1, <1>3 DEF Outcome
<1> QED BY <1>1, <1>2, <1>3

LEMMA PortStep ==
    ASSUME CacheInv, CacheInv', Next, NEW i \in Ids
    PROVE  \/ Outcome(i)' = Outcome(i)
           \/ Outcome(i) = "idle" /\ Outcome(i)' = "asked"
           \/ Outcome(i) = "asked" /\ Outcome(i)' = "answered"
           \/ Outcome(i) = "asked" /\ Outcome(i)' = "withdrawn"
<1> DEFINE Is(rs, an, as) == IF Len(rs) < i \/ ~Expected(rs[i].type) THEN "idle"
                             ELSE IF i \in an THEN "withdrawn"
                             ELSE IF as[i] = 1 THEN "answered" ELSE "asked"
<1>1. Outcome(i) = Is(requests, annulled, answers)
      BY Outcomes
<1>2. Outcome(i)' = Is(requests', annulled', answers')
  <2>1. answers'[i] \in {0, 1} /\ (i \in annulled' => answers'[i] = 0)
        BY DEF CacheInv, AnswerInv
  <2>2. CASE answers'[i] = 0
        BY <2>2 DEF Outcome
  <2>3. CASE answers'[i] = 1
        BY <2>1, <2>3 DEF Outcome
  <2> QED BY <2>1, <2>2, <2>3
<1>3. ASSUME NEW msg \in Message, Request(msg)
      PROVE  Outcome(i)' = Outcome(i) \/ (Outcome(i) = "idle" /\ Outcome(i)' = "asked")
  <2>1. /\ requests \in Seq(Message) /\ Len(requests) \in Nat /\ i \in Nat
        /\ requests' = Append(requests, msg) /\ UNCHANGED <<answers, annulled>>
        /\ answers[i] \in {0, 1} /\ (i > Len(requests) => answers[i] = 0)
        /\ (i \in annulled => i <= Len(requests))
        BY <1>3, Basics DEF Request, CacheInv, TypeOK, AnswerInv, Ids
  <2>2. /\ Len(requests') = Len(requests) + 1
        /\ \A j \in 1 .. Len(requests) : requests'[j] = requests[j]
        BY <2>1, AppendProperties
  <2>3. CASE i <= Len(requests)
    <3>1. requests'[i] = requests[i] /\ ~(Len(requests) < i) /\ ~(Len(requests') < i)
          BY <2>1, <2>2, <2>3 DEF Ids
    <3> QED BY <1>1, <1>2, <2>1, <3>1
  <2>4. CASE i > Len(requests)
    <3>1. Outcome(i) = "idle" /\ i \notin annulled' /\ answers'[i] # 1
          BY <1>1, <2>1, <2>4
    <3> QED BY <1>2, <3>1
  <2> QED BY <2>1, <2>3, <2>4
<1>4. ASSUME NEW id \in Ids, AnnulRequest(id)
      PROVE  Outcome(i)' = Outcome(i) \/ (Outcome(i) = "asked" /\ Outcome(i)' = "withdrawn")
  <2>1. /\ UNCHANGED <<requests, answers>> /\ annulled' = annulled \cup {id}
        /\ answers[id] = 0 /\ In(queue, id) /\ Expected(EntryOf(queue, id).type)
        BY <1>4 DEF AnnulRequest
  <2>2. CASE i # id
        BY <1>1, <1>2, <2>1, <2>2
  <2>3. CASE i = id
    <3>1. EntryInv(EntryOf(queue, id)) /\ EntryOf(queue, id).id = id
      <4>1. PICK k \in 1 .. Len(queue) : queue[k].id = id /\ EntryOf(queue, id) = queue[k]
            BY <2>1, Basics, PlaceProperties
      <4> QED BY <4>1, Basics
    <3>2. Expected(requests[id].type) /\ id \notin annulled
          BY <2>1, <3>1 DEF EntryInv
    <3>3. CASE Len(requests) < id
          BY <1>1, <1>2, <2>1, <2>3, <3>3
    <3>4. CASE ~(Len(requests) < id)
          BY <1>1, <1>2, <2>1, <2>3, <3>2, <3>4
    <3> QED BY <3>3, <3>4
  <2> QED BY <2>2, <2>3
<1>5. ASSUME NEW id \in AnyId, SendUp(id)
      PROVE  Outcome(i)' = Outcome(i) \/ (Outcome(i) = "asked" /\ Outcome(i)' = "answered")
  <2>1. /\ UNCHANGED <<requests, annulled>> /\ answers' = [answers EXCEPT ![id] = @ + 1]
        /\ answers \in [Ids -> Nat]
        BY <1>5 DEF SendUp, CacheInv, TypeOK
  <2>2. id \in Ids /\ answers[id] = 0 /\ id \notin annulled
        BY <1>5, SendUpInv
  <2>3. CASE i # id
        BY <1>1, <1>2, <2>1, <2>3
  <2>4. CASE i = id
    <3>1. answers[i] = 0 /\ answers'[i] = 1
          BY <2>1, <2>2, <2>4
    <3> QED BY <1>1, <1>2, <2>1, <2>2, <2>4, <3>1
  <2> QED BY <2>3, <2>4
<1>6. CASE UNCHANGED <<requests, answers, annulled>>
      BY <1>1, <1>2, <1>6
<1>7. ASSUME NEW id, CacheAccess(id) \/ CacheInsert(id) \/ Clear(id) \/ SendDown(id)
      PROVE  UNCHANGED <<requests, answers, annulled>>
      BY <1>7 DEF CacheAccess, CacheInsert, Clear, SendDown
<1>8. ASSUME NEW x, MemoryReturn(x)
      PROVE  UNCHANGED <<requests, answers, annulled>>
      BY <1>8 DEF MemoryReturn
<1> QED BY StepOf, <1>3, <1>4, <1>5, <1>6, <1>7, <1>8

\* The cache implements RequestPort towards the bus: it answers a request that
\* was asked, once, and never one that was called off.
THEOREM CacheImplementsPort == Spec => CacheKeepsPort
<1> DEFINE st == [id \in Ids |-> Outcome(id)]
<1>1. Init => Port!Init
  <2> SUFFICES ASSUME Init PROVE \A i \in Ids : Outcome(i) = "idle"
      BY DEF Port!Init
  <2> SUFFICES ASSUME NEW i \in Ids PROVE Outcome(i) = "idle"
      OBVIOUS
  <2>1. Len(requests) < i
        BY DEF Init, Ids
  <2> QED BY <2>1 DEF Outcome
<1>2. CacheInv /\ CacheInv' /\ [Next]_vars => [Port!Next]_[id \in Ids |-> Outcome(id)]
  <2> SUFFICES ASSUME CacheInv, CacheInv', [Next]_vars PROVE Port!Next \/ st' = st
      OBVIOUS
  <2>1. CASE UNCHANGED vars
        BY <2>1 DEF vars, Outcome
  <2>2. CASE Next
    <3>1. ASSUME NEW i \in Ids
          PROVE  st[i] = Outcome(i) /\ st'[i] = Outcome(i)' /\ st'[i] \in Port!State
      <4>1. answers'[i] \in {0, 1} /\ (i \in annulled' => answers'[i] = 0)
            BY DEF CacheInv, AnswerInv
      <4>2. answers'[i] = 0 \/ answers'[i] = 1
            BY <4>1
      <4>3. Outcome(i)' \in Port!State
            BY <4>1, <4>2 DEF Outcome, Port!State
      <4> QED BY <4>3
    <3>2. st' \in [Ids -> Port!State]
          BY <3>1
    <3>3. ASSUME NEW i \in Ids
          PROVE  Port!Ask(i) \/ Port!Answer(i) \/ Port!Withdraw(i) \/ Port!Keep(i)
      <4>1. \/ st'[i] = st[i]
            \/ st[i] = "idle" /\ st'[i] = "asked"
            \/ st[i] = "asked" /\ st'[i] = "answered"
            \/ st[i] = "asked" /\ st'[i] = "withdrawn"
            BY <2>2, <3>1, PortStep
      <4> QED BY <4>1 DEF Port!Ask, Port!Answer, Port!Withdraw, Port!Keep
    <3> QED BY <3>2, <3>3 DEF Port!Next
  <2> QED BY <2>1, <2>2
<1> QED BY <1>1, <1>2, CacheInvariant, PTL DEF Spec, CacheKeepsPort, Port!Spec

\* A step of an entry leaves the write-backs in the queue, but for the one that
\* is sent down.
LEMMA WriteBackStays ==
    ASSUME queue \in Seq(Entry), queue' \in Seq(Entry), NEW k \in 1 .. Len(queue),
           \/ \E id \in AnyId : Freed(queue, queue', id) /\ queue[k].id # id
           \/ /\ Len(queue) <= Len(queue') /\ queue'[k].id = queue[k].id
              /\ queue'[k].line = queue[k].line
    PROVE  \E j \in DOMAIN queue' : queue'[j].id = queue[k].id /\ queue'[j].line = queue[k].line
<1>1. /\ Len(queue) \in Nat /\ Len(queue') \in Nat /\ DOMAIN queue' = 1 .. Len(queue')
      BY LenProperties
<1>2. ASSUME NEW id \in AnyId, Freed(queue, queue', id), queue[k].id # id
      PROVE  \E j \in DOMAIN queue' : queue'[j].id = queue[k].id /\ queue'[j].line = queue[k].line
  <2>1. PICK m \in [1 .. Len(queue') -> 1 .. Len(queue)] :
        /\ \A j \in 1 .. Len(queue') :
               queue'[j].id = queue[m[j]].id /\ queue'[j].line = queue[m[j]].line
        /\ \A i \in 1 .. Len(queue) : queue[i].id # id => \E j \in 1 .. Len(queue') : m[j] = i
        BY <1>2 DEF Freed
  <2>2. PICK j \in 1 .. Len(queue') : m[j] = k
        BY <1>2, <2>1
  <2> QED BY <1>1, <2>1, <2>2
<1>3. CASE /\ Len(queue) <= Len(queue') /\ queue'[k].id = queue[k].id
           /\ queue'[k].line = queue[k].line
      BY <1>1, <1>3
<1> QED BY <1>2, <1>3

\* The entries of a queue after Schedule, and after a further Append.
LEMMA StaysInPlace ==
    ASSUME queue \in Seq(Entry), NEW id, NEW due, NEW new \in SUBSET Event,
           \/ queue' = Schedule(queue, id, due, new)
           \/ \E e \in Entry : queue' = Append(Schedule(queue, id, due, new), e)
    PROVE  /\ queue' \in Seq(Entry) /\ Len(queue) <= Len(queue')
           /\ \A k \in 1 .. Len(queue) :
                  queue'[k].id = queue[k].id /\ queue'[k].line = queue[k].line
<1> DEFINE d == Schedule(queue, id, due, new)
<1>1. /\ d \in Seq(Entry) /\ Len(d) = Len(queue) /\ Len(queue) \in Nat
      /\ \A k \in 1 .. Len(queue) : d[k].id = queue[k].id /\ d[k].line = queue[k].line
      BY ScheduleProperties, LenProperties
<1> HIDE DEF d
<1>2. CASE queue' = d
      BY <1>1, <1>2
<1>3. ASSUME NEW e \in Entry, queue' = Append(d, e)
      PROVE  /\ queue' \in Seq(Entry) /\ Len(queue) <= Len(queue')
             /\ \A k \in 1 .. Len(queue) :
                    queue'[k].id = queue[k].id /\ queue'[k].line = queue[k].line
  <2>1. /\ queue' \in Seq(Entry) /\ Len(queue') = Len(d) + 1
        /\ \A k \in 1 .. Len(d) : queue'[k] = d[k]
        BY <1>1, <1>3, AppendProperties
  <2> QED BY <1>1, <2>1
<1> QED BY <1>2, <1>3 DEF d

\* What the step of an entry does to the others' write-backs: none is lost but
\* the one sent down, and a new one is at the end.
LEMMA QueueSteps ==
    ASSUME CacheInv, Next
    PROVE  /\ queue' \in Seq(Entry)
           /\ \A k \in 1 .. Len(queue) :
                  \/ \E j \in DOMAIN queue' :
                         queue'[j].id = queue[k].id /\ queue'[j].line = queue[k].line
                  \/ queue[k].id \in Ids
                  \/ SendDown(queue[k].id)
<1> DEFINE Stays(k) == \E j \in DOMAIN queue' :
                         queue'[j].id = queue[k].id /\ queue'[j].line = queue[k].line
<1>1. CacheInv' /\ queue \in Seq(Entry) /\ queue' \in Seq(Entry)
  <2>1. CacheInv'
        BY StepOf, RequestInv, AnnulInv, AccessInv, InsertInv, ClearInv, SendUpInv,
           SendDownInv, MemoryReturnInv
  <2> QED BY <2>1 DEF CacheInv, TypeOK
<1>2. ASSUME NEW msg \in Message, Request(msg), NEW k \in 1 .. Len(queue)
      PROVE  Stays(k)
  <2>1. PICK e : queue' = Append(queue, e)
        BY <1>2 DEF Request
  <2>2. Len(queue') = Len(queue) + 1 /\ queue'[k] = queue[k] /\ DOMAIN queue' = 1 .. Len(queue')
        /\ Len(queue) \in Nat
        BY <1>1, <1>2, <2>1, LenProperties
  <2> QED BY <1>2, <2>2
<1>3. ASSUME NEW id \in Ids, AnnulRequest(id), NEW k \in 1 .. Len(queue)
      PROVE  Stays(k) \/ queue[k].id \in Ids
  <2>1. Freed(queue, queue', id) /\ id \in AnyId
        BY <1>3, FreeAndWake, Basics, IdFacts DEF AnnulRequest, AnnulEntry
  <2> QED BY <1>1, <1>3, <2>1, WriteBackStays
<1>4. ASSUME NEW id, NEW due, NEW new \in SUBSET Event, NEW k \in 1 .. Len(queue),
             \/ queue' = Schedule(queue, id, due, new)
             \/ \E e \in Entry : queue' = Append(Schedule(queue, id, due, new), e)
      PROVE  Stays(k)
      BY <1>1, <1>4, StaysInPlace, WriteBackStays
<1>5. ASSUME NEW id \in AnyId, NEW due, queue' = ClearEntry(queue, id, due), In(queue, id),
             NEW k \in 1 .. Len(queue)
      PROVE  Stays(k) \/ queue[k].id = id
  <2>1. \/ Freed(queue, queue', id)
        \/ queue' = Schedule(queue, id, due, {})
        BY <1>1, <1>5, ClearProperties, Basics
  <2>2. CASE Freed(queue, queue', id)
        BY <1>1, <1>5, <2>2, WriteBackStays
  <2>3. CASE queue' = Schedule(queue, id, due, {})
        BY <1>4, <1>5, <2>3
  <2> QED BY <2>1, <2>2, <2>3
<1>6. ASSUME NEW id \in Ids, NEW line \in Line
      PROVE  WriteBack(id, line) \in Entry
      BY <1>6, IdFacts DEF WriteBack, Entry, Type, Event
<1>7. ASSUME NEW id \in AnyId, CacheAccess(id), NEW k \in 1 .. Len(queue)
      PROVE  Stays(k)
  <2> DEFINE e == EntryOf(queue, id)
  <2>1. id \in Ids /\ e.line \in Line
        BY <1>7, PendingEntry DEF CacheAccess
  <2>2. IF lines[e.line] = "absent" THEN AccessMiss(id, e.type, e.line)
                                    ELSE AccessHit(id, e.type, e.line)
        BY <1>7 DEF CacheAccess
  <2> HIDE DEF e
  <2>3. \/ \E f \in {{"up"}, {"clear"}, {"down"}} : queue' = Schedule(queue, id, {"access"}, f)
        \/ queue' = Append(Schedule(queue, id, {"access"}, {"clear"}), WriteBack(id, e.line))
        BY <2>2 DEF AccessMiss, AccessHit
  <2>4. \A f \in {{"up"}, {"clear"}, {"down"}} : f \in SUBSET Event
        BY DEF Event
  <2> HIDE DEF Stays
  <2> QED BY <1>4, <1>6, <1>7, <2>1, <2>3, <2>4
<1>8. ASSUME NEW id \in AnyId, CacheInsert(id), NEW k \in 1 .. Len(queue)
      PROVE  Stays(k)
  <2>1. id \in Ids /\ {"clear"} \in SUBSET Event
        BY <1>8, PendingEntry DEF CacheInsert, Event
  <2>2. \/ queue' = Schedule(queue, id, {"insert"}, {"clear"})
        \/ \E v \in Line : queue' = Append(Schedule(queue, id, {"insert"}, {"clear"}),
                                           WriteBack(id, v))
    <3> DEFINE line == EntryOf(queue, id).line
    <3>1. PICK victim \in IF line \in Held \/ Cardinality(Held) < Ways
                          THEN {{}} ELSE {{v} : v \in Held} :
             queue' = IF MustWriteBack(victim) /\ Len(queue) < QueueSize
                      THEN Append(Schedule(queue, id, {"insert"}, {"clear"}),
                                     WriteBack(id, CHOOSE v \in victim : TRUE))
                      ELSE Schedule(queue, id, {"insert"}, {"clear"})
          BY <1>8 DEF CacheInsert
    <3>2. victim \subseteq Held
          BY <3>1
    <3>3. MustWriteBack(victim) => (CHOOSE v \in victim : TRUE) \in Line
          BY <3>2 DEF MustWriteBack, Held
    <3> QED BY <3>1, <3>3
  <2> HIDE DEF Stays
  <2> QED BY <1>4, <1>6, <1>8, <2>1, <2>2
<1>9. ASSUME NEW id \in AnyId, Clear(id) \/ SendUp(id), NEW k \in 1 .. Len(queue)
      PROVE  Stays(k) \/ queue[k].id \in Ids
  <2>1. id \in Ids /\ In(queue, id) /\ \E due : queue' = ClearEntry(queue, id, due)
        BY <1>9, PendingEntry DEF Clear, SendUp
  <2> HIDE DEF Stays
  <2> QED BY <1>5, <1>9, <2>1
<1>10. ASSUME NEW id \in AnyId, SendDown(id), NEW k \in 1 .. Len(queue)
       PROVE  Stays(k) \/ queue[k].id = id
  <2>1. /\ In(queue, id) /\ {"response"} \in SUBSET Event
        /\ \/ queue' = ClearEntry(queue, id, {"down"})
           \/ queue' = Schedule(queue, id, {"down"}, {"response"})
        BY <1>10, PendingEntry DEF SendDown, Event
  <2> HIDE DEF Stays
  <2> QED BY <1>4, <1>5, <1>10, <2>1
<1>11. ASSUME NEW access, MemoryReturn(access), NEW k \in 1 .. Len(queue)
       PROVE  Stays(k)
  <2>1. \/ queue' = queue
        \/ \E id : queue' = Schedule(queue, id, {"response"}, {"insert", "up"})
        BY <1>11 DEF MemoryReturn, MemoryAnswers
  <2>2. CASE queue' = queue
        BY <1>1, <1>11, <2>2, LenProperties
  <2>3. {"insert", "up"} \in SUBSET Event
        BY DEF Event
  <2> HIDE DEF Stays
  <2> QED BY <1>4, <1>11, <2>1, <2>2, <2>3
<1> HIDE DEF Stays
<1>12. ASSUME NEW k \in 1 .. Len(queue)
       PROVE  Stays(k) \/ queue[k].id \in Ids \/ SendDown(queue[k].id)
       BY StepOf, <1>2, <1>3, <1>7, <1>8, <1>9, <1>10, <1>11
<1> QED BY <1>1, <1>12 DEF Stays

LEMMA KeptStep ==
    ASSUME CacheInv, Next, NEW l \in Line, Kept(l)
    PROVE  Kept(l)' \/ (lines[l] = "modified" /\ lines'[l] = "valid")
<1> DEFINE InQueue == \E k \in DOMAIN queue' : queue'[k].line = l /\ queue'[k].id \notin Ids
<1>1. Kept(l)' <=> l \notin unsaved' \/ lines'[l] = "modified" \/ InQueue
      BY DEF Kept
<1>2. /\ lines \in [Line -> LineState] /\ queue' \in Seq(Entry)
      /\ DOMAIN queue = 1 .. Len(queue) /\ DOMAIN queue' = 1 .. Len(queue')
      BY Basics, QueueSteps, LenProperties DEF CacheInv, TypeOK
<1>3. ASSUME NEW id \in AnyId, CacheAccess(id)
      PROVE  /\ lines[l] = "modified" => lines'[l] = "modified"
             /\ l \in unsaved' => l \in unsaved \/ lines'[l] = "modified" \/ InQueue
  <2> DEFINE e == EntryOf(queue, id)
  <2>1. id \in Ids /\ e.line \in Line
        BY <1>3, PendingEntry DEF CacheAccess
  <2>2. IF lines[e.line] = "absent" THEN AccessMiss(id, e.type, e.line)
                                    ELSE AccessHit(id, e.type, e.line)
        BY <1>3 DEF CacheAccess
  <2> HIDE DEF e
  <2>3. CASE AccessHit(id, e.type, e.line)
        BY <1>2, <2>1, <2>3 DEF AccessHit
  <2>4. CASE AccessMiss(id, e.type, e.line)
    <3>1. lines' = lines
          BY <2>4 DEF AccessMiss
    <3>2. ASSUME l \in unsaved', l \notin unsaved
          PROVE  InQueue
      <4> DEFINE d == Schedule(queue, id, {"access"}, {"clear"})
      <4>1. l = e.line /\ queue' = Append(d, WriteBack(id, e.line))
            BY <2>4, <3>2 DEF AccessMiss
      <4>2. d \in Seq(Entry)
        <5>1. {"clear"} \in SUBSET Event /\ queue \in Seq(Entry)
              BY Basics DEF Event
        <5> QED BY <5>1, ScheduleProperties
      <4> HIDE DEF d
      <4>3. WriteBack(id, l).line = l /\ WriteBack(id, l).id \notin Ids
            BY <2>1, IdFacts DEF WriteBack
      <4>4. Len(d) \in Nat /\ Len(queue') = Len(d) + 1 /\ queue'[Len(d) + 1] = WriteBack(id, l)
            BY <4>1, <4>2, LenProperties
      <4> QED BY <1>2, <4>3, <4>4
    <3> QED BY <3>1, <3>2
  <2> QED BY <2>2, <2>3, <2>4
<1>4. ASSUME NEW id \in AnyId, CacheInsert(id), lines[l] = "modified"
      PROVE  lines'[l] = "valid" \/ lines'[l] = "modified" \/ InQueue
  <2> DEFINE line == EntryOf(queue, id).line
             d == Schedule(queue, id, {"insert"}, {"clear"})
  <2>1. Len(queue) < QueueSize /\ id \in Ids
        BY <1>4, PendingEntry DEF CacheInsert, RoomToInsert
  <2>2. PICK victim \in IF line \in Held \/ Cardinality(Held) < Ways
                        THEN {{}} ELSE {{v} : v \in Held} :
             /\ lines' = [x \in Line |-> CASE x = line     -> "valid"
                                          [] x \in victim -> "absent"
                                          [] OTHER        -> lines[x]]
             /\ queue' = IF MustWriteBack(victim) /\ Len(queue) < QueueSize
                         THEN Append(d, WriteBack(id, CHOOSE v \in victim : TRUE))
                         ELSE d
        BY <1>4 DEF CacheInsert
  <2>3. line \notin victim
        BY <2>2
  <2>4. d \in Seq(Entry)
    <3>1. {"clear"} \in SUBSET Event /\ queue \in Seq(Entry)
          BY Basics DEF Event
    <3> QED BY <3>1, ScheduleProperties
  <2> HIDE DEF line, d
  <2>5. lines'[l] = CASE l = line     -> "valid"
                      [] l \in victim -> "absent"
                      [] OTHER        -> lines[l]
        BY <2>2
  <2>6. CASE l \notin victim
    <3>1. CASE l = line
          BY <2>5, <2>6, <3>1
    <3>2. CASE l # line
          BY <1>4, <2>5, <2>6, <3>2
    <3> QED BY <3>1, <3>2
  <2>7. CASE l \in victim
    <3>1. victim = {l} /\ MustWriteBack(victim)
          BY <1>4, <2>2, <2>7 DEF MustWriteBack
    <3>2. (CHOOSE v \in victim : TRUE) = l
          BY <3>1
    <3>3. queue' = Append(d, WriteBack(id, l))
          BY <2>1, <2>2, <3>1, <3>2
    <3>4. WriteBack(id, l).line = l /\ WriteBack(id, l).id \notin Ids
          BY <2>1, IdFacts DEF WriteBack
    <3>5. Len(d) \in Nat /\ Len(queue') = Len(d) + 1 /\ queue'[Len(d) + 1] = WriteBack(id, l)
          BY <2>4, <3>3, LenProperties
    <3> QED BY <1>2, <3>4, <3>5
  <2> QED BY <2>6, <2>7
<1>5. \/ UNCHANGED <<lines, unsaved>>
      \/ \E id \in AnyId : CacheAccess(id)
      \/ UNCHANGED unsaved /\ \E id \in AnyId : CacheInsert(id)
      \/ UNCHANGED lines /\ unsaved' \subseteq unsaved /\ \E id \in AnyId : SendDown(id)
  <2>1. \A msg \in Message : Request(msg) => UNCHANGED <<lines, unsaved>>
        BY DEF Request
  <2>2. \A id \in Ids : AnnulRequest(id) => UNCHANGED <<lines, unsaved>>
        BY DEF AnnulRequest
  <2>3. \A id \in AnyId : Clear(id) \/ SendUp(id) => UNCHANGED <<lines, unsaved>>
        BY DEF Clear, SendUp
  <2>4. \A id \in AnyId : CacheInsert(id) => UNCHANGED unsaved
        BY DEF CacheInsert
  <2>5. \A id \in AnyId : SendDown(id) => UNCHANGED lines /\ unsaved' \subseteq unsaved
        BY DEF SendDown
  <2>6. \A access \in accesses : MemoryReturn(access) => UNCHANGED <<lines, unsaved>>
        BY DEF MemoryReturn
  <2> QED BY StepOf, <2>1, <2>2, <2>3, <2>4, <2>5, <2>6
<1>6. CASE l \notin unsaved
      BY <1>1, <1>3, <1>5, <1>6
<1>7. CASE lines[l] = "modified"
      BY <1>1, <1>3, <1>4, <1>5, <1>7
<1>8. ASSUME NEW k \in DOMAIN queue, queue[k].line = l, queue[k].id \notin Ids
      PROVE  Kept(l)'
  <2>1. CASE \E j \in DOMAIN queue' :
                queue'[j].id = queue[k].id /\ queue'[j].line = queue[k].line
        BY <1>1, <1>8, <2>1
  <2>2. CASE SendDown(queue[k].id)
    <3> DEFINE e == EntryOf(queue, queue[k].id)
    <3>1. e = queue[k] /\ e.type = "UPDATE"
      <4>1. In(queue, queue[k].id)
            BY <1>8 DEF In
      <4>2. e = queue[k]
            BY <1>2, <1>8, <4>1, Basics, PlaceProperties
      <4>3. EntryInv(queue[k])
            BY <1>2, <1>8, Basics
      <4> QED BY <1>8, <4>2, <4>3 DEF EntryInv
    <3>2. /\ UNCHANGED lines
          /\ e.type = "UPDATE" => unsaved' = unsaved \ {x \in {e.line} : lines[x] # "modified"}
          BY <2>2 DEF SendDown
    <3> HIDE DEF e
    <3> QED BY <1>1, <1>8, <3>1, <3>2
  <2> QED BY <1>2, <1>8, <2>1, <2>2, QueueSteps
<1> QED BY <1>6, <1>7, <1>8 DEF Kept

\* A line with data the memory has not seen stays modified, or its write-back
\* in the queue, but for the insert of a second request of the line.
THEOREM DirtyLines == Spec => DirtyLinesAreKept
<1>1. CacheInv /\ [Next]_vars =>
          [\A l \in Line : Kept(l) /\ ~Kept(l)' =>
                               lines[l] = "modified" /\ lines'[l] = "valid"]_vars
  <2> SUFFICES ASSUME CacheInv, Next, NEW l \in Line, Kept(l), ~Kept(l)'
               PROVE  lines[l] = "modified" /\ lines'[l] = "valid"
      OBVIOUS
  <2> QED BY KeptStep
<1> QED BY <1>1, CacheInvariant, PTL DEF Spec, DirtyLinesAreKept
=============================================================================
