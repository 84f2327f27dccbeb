-------------------------- MODULE CoherentBusProofs --------------------------
(***************************************************************************)
(* What CoherentBus promises, for any number of caches, lines and requests *)
(***************************************************************************)
EXTENDS CoherentBus, DataLemmas

(***************************************************************************)
(* A queue as the set of its entries                                       *)
(***************************************************************************)
LEMMA EntryFields ==
    ASSUME NEW e \in QueueEntry
    PROVE  /\ e.key \in Key /\ e.key[1] \in Role /\ e.key[2] \in Ids
           /\ e.key = <<e.key[1], e.key[2]>> /\ e.key # NoKey
           /\ e.type \in Type /\ e.line \in Line /\ e.stage \in Stage
           /\ e.frame \in Line \cup {NoLine} /\ e.waitFor \in Key \cup {NoKey}
<1>1. e.key \in Role \X Ids
      BY DEF QueueEntry, Key
<1>2. "none" \notin Role
      BY DEF Role
<1> QED BY <1>1, <1>2 DEF QueueEntry, Key, NoKey

\* The members of a sequence: those of its places, and those of its range.
LEMMA Elements ==
    ASSUME NEW S, NEW q \in Seq(S)
    PROVE  /\ Len(q) \in Nat /\ DOMAIN q = 1 .. Len(q)
           /\ \A k \in 1 .. Len(q) : q[k] \in S /\ q[k] \in ToSet(q)
           /\ \A e \in ToSet(q) : e \in S /\ \E k \in 1 .. Len(q) : e = q[k]
<1>1. Len(q) \in Nat /\ DOMAIN q = 1 .. Len(q) /\ \A k \in 1 .. Len(q) : q[k] \in S
      BY LenProperties, ElementOfSeq
<1> QED BY <1>1 DEF ToSet

\* A key is in a queue exactly if one of its entries has it.
LEMMA InSet ==
    ASSUME NEW S, NEW q \in Seq(S), NEW key
    PROVE  In(q, key) <=> \E e \in ToSet(q) : e.key = key
BY Elements DEF In

\* Entries with the same key are the same.
LEMMA OneEntry ==
    ASSUME NEW S, NEW q \in Seq(S), UniqueKeys(q),
           NEW d \in ToSet(q), NEW e \in ToSet(q), d.key = e.key
    PROVE  d = e
<1>1. PICK j \in 1 .. Len(q), k \in 1 .. Len(q) : d = q[j] /\ e = q[k]
      BY Elements
<1> QED BY <1>1, Elements DEF UniqueKeys

\* PlaceOf and EntryOf find the entry of a key.
LEMMA PlaceProperties ==
    ASSUME NEW S, NEW q \in Seq(S), NEW key, In(q, key)
    PROVE  /\ PlaceOf(q, key) \in 1 .. Len(q) /\ q[PlaceOf(q, key)].key = key
           /\ EntryOf(q, key) = q[PlaceOf(q, key)]
           /\ EntryOf(q, key) \in ToSet(q) /\ EntryOf(q, key).key = key
           /\ UniqueKeys(q) =>
                  /\ \A k \in 1 .. Len(q) : q[k].key = key => k = PlaceOf(q, key)
                  /\ \A e \in ToSet(q) : e.key = key => e = EntryOf(q, key)
<1>1. PlaceOf(q, key) \in 1 .. Len(q) /\ q[PlaceOf(q, key)].key = key
      BY Elements DEF In, PlaceOf
<1>2. EntryOf(q, key) = q[PlaceOf(q, key)]
      BY DEF EntryOf
<1>3. EntryOf(q, key) \in ToSet(q) /\ EntryOf(q, key).key = key
      BY <1>1, <1>2, Elements
<1>4. ASSUME UniqueKeys(q)
      PROVE  \A k \in 1 .. Len(q) : q[k].key = key => k = PlaceOf(q, key)
      BY <1>1, <1>4, Elements DEF UniqueKeys
<1>5. ASSUME UniqueKeys(q)
      PROVE  \A e \in ToSet(q) : e.key = key => e = EntryOf(q, key)
      BY <1>3, <1>5, OneEntry
<1> QED BY <1>1, <1>2, <1>3, <1>4, <1>5

\* An entry that a step leaves in the queue: as it was, or woken.
Same(e, f) ==
    /\ f.key = e.key /\ f.type = e.type /\ f.line = e.line /\ f.frame = e.frame
    /\ \/ f.stage = e.stage /\ f.waitFor = e.waitFor
       \/ e.waitFor # NoKey /\ f.waitFor = NoKey /\ f.stage = "access"

\* The queue r has the entries of q whose key is not in gone, and the new ones.
Passes(q, r, gone, new) ==
    /\ r \in Seq(QueueEntry) /\ UniqueKeys(r)
    /\ \A e \in ToSet(q) : e.key \notin gone => \E f \in ToSet(r) : Same(e, f)
    /\ \A f \in ToSet(r) :
           f \in new \/ \E e \in ToSet(q) : e.key \notin gone /\ Same(e, f)
    /\ new \subseteq ToSet(r)

\* A step of the queue of one cache, and of all queues.
Advances(c, gone, new) == /\ queue' = [queue EXCEPT ![c] = queue'[c]]
                          /\ Passes(queue[c], queue'[c], gone, new)
Changed(gone, new) == \A x \in Caches : Passes(queue[x], queue'[x], gone[x], new[x])

\* An entry left as it was.
LEMMA SameRefl == ASSUME NEW e PROVE Same(e, e)
BY DEF Same

\* The keys of a queue after a step.
LEMMA PassesIn ==
    ASSUME NEW q \in Seq(QueueEntry), NEW r, NEW gone, NEW new, Passes(q, r, gone, new),
           NEW key
    PROVE  In(r, key) <=> \/ \E e \in new : e.key = key
                          \/ In(q, key) /\ key \notin gone
<1>1. r \in Seq(QueueEntry)
      BY DEF Passes
<1>2. ASSUME In(r, key), ~\E e \in new : e.key = key
      PROVE  In(q, key) /\ key \notin gone
  <2>1. PICK f \in ToSet(r) : f.key = key
        BY <1>1, <1>2, InSet
  <2>2. PICK e \in ToSet(q) : e.key \notin gone /\ Same(e, f)
        BY <1>2, <2>1 DEF Passes
  <2>3. e.key = key
        BY <2>1, <2>2 DEF Same
  <2> QED BY <2>2, <2>3, InSet
<1>3. ASSUME NEW e \in new, e.key = key PROVE In(r, key)
  <2>1. e \in ToSet(r)
        BY DEF Passes
  <2> QED BY <1>1, <1>3, <2>1, InSet
<1>4. ASSUME In(q, key), key \notin gone PROVE In(r, key)
  <2>1. PICK e \in ToSet(q) : e.key = key
        BY <1>4, InSet
  <2>2. PICK f \in ToSet(r) : Same(e, f)
        BY <1>4, <2>1 DEF Passes
  <2>3. f.key = key
        BY <2>1, <2>2 DEF Same
  <2> QED BY <1>1, <2>2, <2>3, InSet
<1> QED BY <1>2, <1>3, <1>4

\* A queue that is left alone.
LEMMA PassesStay ==
    ASSUME NEW q \in Seq(QueueEntry), UniqueKeys(q)
    PROVE  Passes(q, q, {}, {})
BY SameRefl DEF Passes

\* Two steps of a queue, one after the other; the second must not wake what the
\* first has added.
LEMMA PassesThrough ==
    ASSUME NEW q, NEW r, NEW s, NEW gone, NEW new, NEW gone2, NEW new2,
           Passes(q, r, gone, new), Passes(r, s, gone2, new2),
           \A e \in new : e.key \notin gone2 => e.waitFor = NoKey
    PROVE  Passes(q, s, gone \cup gone2, {e \in new : e.key \notin gone2} \cup new2)
<1>1. ASSUME NEW e, NEW f, NEW g, Same(e, f), Same(f, g)
      PROVE  Same(e, g) /\ e.key = f.key
      BY <1>1 DEF Same
<1>1a. ASSUME NEW f, NEW g, Same(f, g), f.waitFor = NoKey, f \in QueueEntry, g \in QueueEntry
       PROVE  f = g
  <2>1. /\ f.key = g.key /\ f.type = g.type /\ f.line = g.line /\ f.stage = g.stage
        /\ f.frame = g.frame /\ f.waitFor = g.waitFor
        BY <1>1a DEF Same
  <2> QED BY <1>1a, <2>1 DEF QueueEntry
<1>2. r \in Seq(QueueEntry) /\ s \in Seq(QueueEntry) /\ UniqueKeys(s)
      BY DEF Passes
<1>3. ASSUME NEW e \in ToSet(q), e.key \notin gone \cup gone2
      PROVE  \E g \in ToSet(s) : Same(e, g)
  <2>1. PICK f \in ToSet(r) : Same(e, f)
        BY <1>3 DEF Passes
  <2>2. PICK g \in ToSet(s) : Same(f, g)
        BY <1>3, <2>1 DEF Passes, Same
  <2> QED BY <1>1, <2>1, <2>2
<1>4. ASSUME NEW g \in ToSet(s), g \notin new2
      PROVE  \/ g \in {e \in new : e.key \notin gone2}
             \/ \E e \in ToSet(q) : e.key \notin gone \cup gone2 /\ Same(e, g)
  <2>1. PICK f \in ToSet(r) : f.key \notin gone2 /\ Same(f, g)
        BY <1>4 DEF Passes
  <2>2. CASE f \in new
    <3>1. f.waitFor = NoKey
          BY <2>1, <2>2
    <3>2. f = g
          BY <1>1a, <1>2, <2>1, <3>1, Elements
    <3> QED BY <2>1, <2>2, <3>2
  <2>3. CASE f \notin new
    <3>1. PICK e \in ToSet(q) : e.key \notin gone /\ Same(e, f)
          BY <2>3 DEF Passes
    <3>2. Same(e, g) /\ e.key = f.key
          BY <1>1, <2>1, <3>1
    <3> QED BY <2>1, <3>1, <3>2
  <2> QED BY <2>2, <2>3
<1>5. ASSUME NEW e \in new, e.key \notin gone2
      PROVE  e \in ToSet(s)
  <2>1. e \in ToSet(r)
        BY DEF Passes
  <2>2. PICK g \in ToSet(s) : Same(e, g)
        BY <1>5, <2>1 DEF Passes
  <2>3. e = g
        BY <1>1a, <1>2, <1>5, <2>1, <2>2, Elements
  <2> QED BY <2>2, <2>3
<1> QED BY <1>2, <1>3, <1>4, <1>5 DEF Passes

\* An entry is added.
LEMMA AppendPasses ==
    ASSUME NEW q \in Seq(QueueEntry), UniqueKeys(q), NEW e \in QueueEntry, ~In(q, e.key)
    PROVE  Passes(q, Append(q, e), {}, {e})
<1> DEFINE r == Append(q, e)
<1>1. /\ r \in Seq(QueueEntry) /\ Len(r) = Len(q) + 1 /\ r[Len(q) + 1] = e
      /\ \A k \in 1 .. Len(q) : r[k] = q[k]
      BY AppendProperties
<1>2. Len(q) \in Nat /\ DOMAIN q = 1 .. Len(q) /\ DOMAIN r = 1 .. Len(q) + 1
      BY <1>1, Elements
<1> HIDE DEF r
<1>3. UniqueKeys(r)
  <2> SUFFICES ASSUME NEW j \in 1 .. Len(q) + 1, NEW k \in 1 .. Len(q) + 1,
                      r[j].key = r[k].key
               PROVE  j = k
      BY <1>2 DEF UniqueKeys
  <2>1. \A n \in 1 .. Len(q) : q[n].key # e.key
        BY <1>2 DEF In
  <2>2. CASE j = Len(q) + 1 \/ k = Len(q) + 1
        BY <1>1, <1>2, <2>1, <2>2
  <2>3. CASE j \in 1 .. Len(q) /\ k \in 1 .. Len(q)
        BY <1>1, <1>2, <2>3 DEF UniqueKeys
  <2> QED BY <1>2, <2>2, <2>3
<1>4. ToSet(r) = ToSet(q) \cup {e}
  <2>1. \A k \in 1 .. Len(q) + 1 : k = Len(q) + 1 \/ k \in 1 .. Len(q)
        BY <1>2
  <2>2. Len(q) + 1 \in 1 .. Len(q) + 1 /\ \A k \in 1 .. Len(q) : k \in 1 .. Len(q) + 1
        BY <1>2
  <2> QED BY <1>1, <1>2, <2>1, <2>2 DEF ToSet
<1>5. Passes(q, r, {}, {e})
      BY <1>1, <1>3, <1>4, SameRefl DEF Passes
<1> QED BY <1>5 DEF r

\* An entry is rewritten in its place.
LEMMA ReplacePasses ==
    ASSUME NEW q \in Seq(QueueEntry), UniqueKeys(q), NEW r \in Seq(QueueEntry),
           Len(r) = Len(q), NEW p \in 1 .. Len(q), r[p].key = q[p].key,
           \A k \in 1 .. Len(q) : k # p => r[k] = q[k]
    PROVE  Passes(q, r, {q[p].key}, {r[p]})
<1>1. Len(q) \in Nat /\ DOMAIN q = 1 .. Len(q) /\ DOMAIN r = 1 .. Len(q)
      BY Elements
<1>2. \A k \in 1 .. Len(q) : r[k].key = q[k].key
      OBVIOUS
<1>3. UniqueKeys(r)
      BY <1>1, <1>2 DEF UniqueKeys
<1>4. ASSUME NEW e \in ToSet(q), e.key # q[p].key
      PROVE  \E f \in ToSet(r) : Same(e, f)
  <2>1. PICK k \in 1 .. Len(q) : e = q[k]
        BY Elements
  <2>2. r[k] = e /\ r[k] \in ToSet(r)
        BY <1>1, <1>4, <2>1, Elements
  <2> QED BY <2>2, SameRefl
<1>5. ASSUME NEW f \in ToSet(r), f # r[p]
      PROVE  \E e \in ToSet(q) : e.key # q[p].key /\ Same(e, f)
  <2>1. PICK k \in 1 .. Len(q) : f = r[k]
        BY <1>1, Elements
  <2>2. k # p /\ q[k] = f /\ q[k] \in ToSet(q)
        BY <1>1, <1>5, <2>1, Elements
  <2>3. q[k].key # q[p].key
        BY <1>1, <2>2 DEF UniqueKeys
  <2> QED BY <2>2, <2>3, SameRefl
<1>6. r[p] \in ToSet(r)
      BY Elements
<1> QED BY <1>3, <1>4, <1>5, <1>6 DEF Passes

\* Move gives one entry its next stage.
LEMMA MovePasses ==
    ASSUME NEW q \in Seq(QueueEntry), UniqueKeys(q), NEW key, In(q, key), NEW stage \in Stage
    PROVE  /\ [EntryOf(q, key) EXCEPT !.stage = stage] \in QueueEntry
           /\ Passes(q, Move(q, key, stage), {key}, {[EntryOf(q, key) EXCEPT !.stage = stage]})
           /\ Len(Move(q, key, stage)) = Len(q)
<1> DEFINE p == PlaceOf(q, key)
           r == Move(q, key, stage)
<1>1. Len(q) \in Nat /\ DOMAIN q = 1 .. Len(q) /\ \A k \in 1 .. Len(q) : q[k] \in QueueEntry
      BY Elements
<1>2. /\ p \in 1 .. Len(q) /\ q[p].key = key /\ EntryOf(q, key) = q[p]
      /\ \A k \in 1 .. Len(q) : q[k].key = key => k = p
      BY PlaceProperties
<1> HIDE DEF p
<1>3. \A k \in 1 .. Len(q) : /\ [q[k] EXCEPT !.stage = stage] \in QueueEntry
                             /\ [q[k] EXCEPT !.stage = stage].key = q[k].key
      BY <1>1 DEF QueueEntry
<1>4. r = [k \in 1 .. Len(q) |->
              IF q[k].key = key THEN [q[k] EXCEPT !.stage = stage] ELSE q[k]]
      BY <1>1 DEF Move
<1> HIDE DEF r
<1>5. r \in Seq(QueueEntry) /\ Len(r) = Len(q)
      BY <1>1, <1>3, <1>4, IsASeq, LenProperties
<1>6. /\ r[p] = [q[p] EXCEPT !.stage = stage] /\ r[p].key = q[p].key
      /\ \A k \in 1 .. Len(q) : k # p => r[k] = q[k]
      BY <1>2, <1>3, <1>4
<1>7. Passes(q, r, {q[p].key}, {r[p]})
      BY <1>2, <1>5, <1>6, ReplacePasses
<1> QED BY <1>2, <1>3, <1>5, <1>6, <1>7 DEF r

\* ClearEntry takes one entry away and wakes the one that waits for it.
LEMMA ClearPasses ==
    ASSUME NEW q \in Seq(QueueEntry), UniqueKeys(q), NEW key, key # NoKey
    PROVE  /\ Passes(q, ClearEntry(q, key), {key}, {})
           /\ Len(ClearEntry(q, key)) <= Len(q)
<1> DEFINE s == Without(q, key)
           Woken(e) == IF e.waitFor = key
                       THEN [e EXCEPT !.waitFor = NoKey, !.stage = "access"] ELSE e
           r == ClearEntry(q, key)
<1>1. Len(q) \in Nat /\ DOMAIN q = 1 .. Len(q) /\ \A k \in 1 .. Len(q) : q[k] \in QueueEntry
      BY Elements
<1>2. \E m \in [1 .. Len(s) -> 1 .. Len(q)] :
         /\ s \in Seq(QueueEntry) /\ Len(s) \in Nat /\ Len(s) <= Len(q)
         /\ \A k \in 1 .. Len(s) : s[k] = q[m[k]] /\ q[m[k]].key # key
         /\ \A j, k \in 1 .. Len(s) : m[j] = m[k] => j = k
         /\ \A i \in 1 .. Len(q) : q[i].key # key => \E k \in 1 .. Len(s) : m[k] = i
  <2>1. CASE ~In(q, key)
    <3>1. s = q
          BY <2>1 DEF Without
    <3>2. \A i \in 1 .. Len(q) : q[i].key # key
          BY <1>1, <2>1 DEF In
    <3> DEFINE m == [k \in 1 .. Len(q) |-> k]
    <3>3. m \in [1 .. Len(s) -> 1 .. Len(q)] /\ \A k \in 1 .. Len(q) : m[k] = k
          BY <3>1
    <3> HIDE DEF m
    <3> QED BY <1>1, <3>1, <3>2, <3>3
  <2>2. CASE In(q, key)
    <3> DEFINE p == PlaceOf(q, key)
    <3>1. /\ p \in 1 .. Len(q) /\ q[p].key = key
          /\ \A k \in 1 .. Len(q) : q[k].key = key => k = p
          BY <2>2, PlaceProperties
    <3>2. s = RemoveAt(q, p)
          BY <2>2 DEF Without
    <3> HIDE DEF p, s
    <3>3. s \in Seq(QueueEntry) /\ Len(s) = Len(q) - 1
          BY <3>1, <3>2, RemoveAtProperties
    <3>4. PICK m \in [1 .. Len(q) - 1 -> 1 .. Len(q)] :
             /\ \A k \in 1 .. Len(q) - 1 : m[k] # p /\ s[k] = q[m[k]]
             /\ \A j, k \in 1 .. Len(q) - 1 : j < k <=> m[j] < m[k]
             /\ \A i \in 1 .. Len(q) : i # p => \E k \in 1 .. Len(q) - 1 : m[k] = i
      <4>1. Erased(q, s, p)
            BY <3>1, <3>2, RemoveAtErases
      <4> QED BY <4>1 DEF Erased
    <3>5. \A j, k \in 1 .. Len(q) - 1 : m[j] = m[k] => j = k
      <4> SUFFICES ASSUME NEW j \in 1 .. Len(q) - 1, NEW k \in 1 .. Len(q) - 1, m[j] = m[k]
                   PROVE  j = k
          OBVIOUS
      <4>1. ~(m[j] < m[k]) /\ ~(m[k] < m[j])
            BY <1>1
      <4> QED BY <3>4, <4>1
    <3>6. Len(s) \in Nat /\ Len(s) <= Len(q)
          BY <1>1, <3>1, <3>3
    <3>7. \A k \in 1 .. Len(s) : s[k] = q[m[k]] /\ q[m[k]].key # key
          BY <1>1, <3>1, <3>3, <3>4
    <3>8. \A i \in 1 .. Len(q) : q[i].key # key => \E k \in 1 .. Len(s) : m[k] = i
          BY <3>1, <3>3, <3>4
    <3>9. /\ m \in [1 .. Len(s) -> 1 .. Len(q)]
          /\ \A j, k \in 1 .. Len(s) : m[j] = m[k] => j = k
          BY <3>3, <3>5
    <3> HIDE <3>4, <3>5
    <3> QED BY <3>3, <3>6, <3>7, <3>8, <3>9
  <2> QED BY <2>1, <2>2
<1>3. PICK m \in [1 .. Len(s) -> 1 .. Len(q)] :
         /\ s \in Seq(QueueEntry) /\ Len(s) \in Nat /\ Len(s) <= Len(q)
         /\ \A k \in 1 .. Len(s) : s[k] = q[m[k]] /\ q[m[k]].key # key
         /\ \A j, k \in 1 .. Len(s) : m[j] = m[k] => j = k
         /\ \A i \in 1 .. Len(q) : q[i].key # key => \E k \in 1 .. Len(s) : m[k] = i
      BY <1>2
<1> HIDE DEF s
<1>4. ASSUME NEW e \in QueueEntry, e.key # key
      PROVE  Woken(e) \in QueueEntry /\ Woken(e).key = e.key /\ Same(e, Woken(e))
  <2>1. CASE e.waitFor = key
    <3> DEFINE f == [e EXCEPT !.waitFor = NoKey, !.stage = "access"]
    <3>1. f \in QueueEntry /\ f.key = e.key /\ f.type = e.type /\ f.line = e.line
          /\ f.frame = e.frame /\ f.waitFor = NoKey /\ f.stage = "access"
          BY DEF QueueEntry, Stage
    <3>2. e.waitFor # NoKey
          BY <2>1
    <3> QED BY <2>1, <3>1, <3>2 DEF Same
  <2>2. CASE e.waitFor # key
        BY <2>2, SameRefl
  <2> QED BY <2>1, <2>2
<1>5. r = [k \in 1 .. Len(s) |-> Woken(s[k])]
      BY <1>3, Elements DEF ClearEntry, s
<1> HIDE DEF Woken, r
<1>6. \A k \in 1 .. Len(s) : /\ m[k] \in 1 .. Len(q) /\ q[m[k]] \in QueueEntry
                             /\ r[k] = Woken(q[m[k]]) /\ r[k] \in QueueEntry
                             /\ r[k].key = q[m[k]].key /\ Same(q[m[k]], r[k])
      BY <1>1, <1>3, <1>4, <1>5
<1>7. r \in Seq(QueueEntry) /\ Len(r) = Len(s) /\ DOMAIN r = 1 .. Len(s)
      BY <1>3, <1>5, <1>6, IsASeq, LenProperties
<1>8. UniqueKeys(r)
  <2> SUFFICES ASSUME NEW j \in 1 .. Len(s), NEW k \in 1 .. Len(s), r[j].key = r[k].key
               PROVE  j = k
      BY <1>7 DEF UniqueKeys
  <2>1. m[j] = m[k]
        BY <1>1, <1>6 DEF UniqueKeys
  <2> QED BY <1>3, <2>1
<1>9. ASSUME NEW e \in ToSet(q), e.key # key
      PROVE  \E f \in ToSet(r) : Same(e, f)
  <2>1. PICK i \in 1 .. Len(q) : e = q[i]
        BY Elements
  <2>2. PICK k \in 1 .. Len(s) : m[k] = i
        BY <1>3, <1>9, <2>1
  <2>3. Same(e, r[k]) /\ r[k] \in ToSet(r)
        BY <1>6, <1>7, <2>1, <2>2, Elements
  <2> QED BY <2>3
<1>10. ASSUME NEW f \in ToSet(r)
       PROVE  \E e \in ToSet(q) : e.key # key /\ Same(e, f)
  <2>1. PICK k \in 1 .. Len(s) : f = r[k]
        BY <1>7, Elements
  <2>2. q[m[k]] \in ToSet(q) /\ q[m[k]].key # key /\ Same(q[m[k]], f)
        BY <1>3, <1>6, <2>1, Elements
  <2> QED BY <2>2
<1>11. Passes(q, r, {key}, {})
       BY <1>7, <1>8, <1>9, <1>10 DEF Passes
<1> QED BY <1>3, <1>7, <1>11 DEF r

\* Messages are added behind the entries of a queue.
LEMMA ConcatPasses ==
    ASSUME NEW q \in Seq(QueueEntry), UniqueKeys(q), NEW d \in Seq(QueueEntry), UniqueKeys(d),
           \A k \in 1 .. Len(d) : ~In(q, d[k].key)
    PROVE  Passes(q, q \o d, {}, ToSet(d)) /\ Len(q \o d) = Len(q) + Len(d)
<1> DEFINE r == q \o d
<1>1. /\ Len(q) \in Nat /\ DOMAIN q = 1 .. Len(q) /\ Len(d) \in Nat /\ DOMAIN d = 1 .. Len(d)
      BY Elements
<1>2. /\ r \in Seq(QueueEntry) /\ Len(r) = Len(q) + Len(d)
      /\ \A i \in 1 .. Len(q) + Len(d) : r[i] = IF i <= Len(q) THEN q[i] ELSE d[i - Len(q)]
      BY ConcatProperties
<1>3. DOMAIN r = 1 .. Len(q) + Len(d)
      BY <1>2, Elements
<1> HIDE DEF r
<1>4. \A i \in 1 .. Len(q) : i \in 1 .. Len(q) + Len(d) /\ r[i] = q[i]
      BY <1>1, <1>2
<1>5. \A i \in 1 .. Len(d) : Len(q) + i \in 1 .. Len(q) + Len(d) /\ r[Len(q) + i] = d[i]
  <2> SUFFICES ASSUME NEW i \in 1 .. Len(d)
               PROVE  Len(q) + i \in 1 .. Len(q) + Len(d) /\ r[Len(q) + i] = d[i]
      OBVIOUS
  <2>1. Len(q) + i \in 1 .. Len(q) + Len(d) /\ ~(Len(q) + i <= Len(q)) /\ (Len(q) + i) - Len(q) = i
        BY <1>1
  <2> QED BY <1>2, <2>1
<1>6. \A i \in 1 .. Len(q) + Len(d) : \/ i \in 1 .. Len(q)
                                      \/ \E j \in 1 .. Len(d) : i = Len(q) + j
  <2> SUFFICES ASSUME NEW i \in 1 .. Len(q) + Len(d), i \notin 1 .. Len(q)
               PROVE  \E j \in 1 .. Len(d) : i = Len(q) + j
      OBVIOUS
  <2>1. i - Len(q) \in 1 .. Len(d) /\ i = Len(q) + (i - Len(q))
        BY <1>1
  <2> QED BY <2>1
<1>7. ToSet(r) = ToSet(q) \cup ToSet(d)
  <2>1. ASSUME NEW f \in ToSet(r) PROVE f \in ToSet(q) \cup ToSet(d)
    <3>1. PICK i \in 1 .. Len(q) + Len(d) : f = r[i]
          BY <1>2, Elements
    <3>2. CASE i \in 1 .. Len(q)
          BY <1>4, <3>1, <3>2, Elements
    <3>3. CASE i \notin 1 .. Len(q)
      <4>1. PICK j \in 1 .. Len(d) : i = Len(q) + j
            BY <1>6, <3>3
      <4>2. f = d[j]
            BY <1>5, <3>1, <4>1
      <4> QED BY <4>2, Elements
    <3> QED BY <3>2, <3>3
  <2>2. ASSUME NEW f \in ToSet(q) PROVE f \in ToSet(r)
    <3>1. PICK i \in 1 .. Len(q) : f = q[i]
          BY Elements
    <3> QED BY <1>2, <1>4, <3>1, Elements
  <2>3. ASSUME NEW f \in ToSet(d) PROVE f \in ToSet(r)
    <3>1. PICK i \in 1 .. Len(d) : f = d[i]
          BY Elements
    <3> QED BY <1>2, <1>5, <3>1, Elements
  <2> QED BY <2>1, <2>2, <2>3
<1>8. UniqueKeys(r)
  <2> SUFFICES ASSUME NEW i \in 1 .. Len(q) + Len(d), NEW j \in 1 .. Len(q) + Len(d),
                      r[i].key = r[j].key
               PROVE  i = j
      BY <1>3 DEF UniqueKeys
  <2>1. \A a \in 1 .. Len(q), b \in 1 .. Len(d) : q[a].key # d[b].key
        BY <1>1 DEF In
  <2>2. CASE i \in 1 .. Len(q) /\ j \in 1 .. Len(q)
        BY <1>1, <1>4, <2>2 DEF UniqueKeys
  <2>3. CASE i \notin 1 .. Len(q) /\ j \notin 1 .. Len(q)
    <3>1. PICK a \in 1 .. Len(d), b \in 1 .. Len(d) : i = Len(q) + a /\ j = Len(q) + b
          BY <1>6, <2>3
    <3>2. d[a].key = d[b].key
          BY <1>5, <3>1
    <3> QED BY <1>1, <3>1, <3>2 DEF UniqueKeys
  <2>4. CASE i \in 1 .. Len(q) /\ j \notin 1 .. Len(q)
    <3>1. PICK b \in 1 .. Len(d) : j = Len(q) + b
          BY <1>6, <2>4
    <3>2. r[i] = q[i] /\ r[j] = d[b]
          BY <1>4, <1>5, <2>4, <3>1
    <3> QED BY <2>1, <2>4, <3>2
  <2>5. CASE i \notin 1 .. Len(q) /\ j \in 1 .. Len(q)
    <3>1. PICK b \in 1 .. Len(d) : i = Len(q) + b
          BY <1>6, <2>5
    <3>2. r[j] = q[j] /\ r[i] = d[b]
          BY <1>4, <1>5, <2>5, <3>1
    <3> QED BY <2>1, <2>5, <3>2
  <2> QED BY <2>2, <2>3, <2>4, <2>5
<1>9. Passes(q, r, {}, ToSet(d))
      BY <1>2, <1>7, <1>8, SameRefl DEF Passes
<1> QED BY <1>2, <1>9 DEF r

\* The fields of a new entry.
LEMMA NewEntryType ==
    ASSUME NEW key \in Key, NEW type \in Type, NEW line \in Line, NEW stage \in Stage
    PROVE  LET e == NewEntry(key, type, line, stage) IN
           /\ e \in QueueEntry /\ e.key = key /\ e.type = type /\ e.line = line
           /\ e.stage = stage /\ e.frame = NoLine /\ e.waitFor = NoKey
BY DEF NewEntry, QueueEntry

\* No message at all.
LEMMA EmptyMessages ==
    /\ <<>> \in Seq(QueueEntry) /\ UniqueKeys(<<>>) /\ Len(<<>>) = 0 /\ ToSet(<<>>) = {}
BY DEF UniqueKeys, ToSet

\* The message to the bus.
LEMMA DownProperties ==
    ASSUME NEW id \in Ids, NEW type \in Type, NEW line \in Line
    PROVE  LET d == Down(id, type, line)
               e == NewEntry(<<"down", id>>, type, line, "send")
           IN /\ e \in QueueEntry
              /\ d \in Seq(QueueEntry) /\ UniqueKeys(d) /\ Len(d) = 1 /\ d[1] = e
              /\ ToSet(d) = {e}
<1> DEFINE e == NewEntry(<<"down", id>>, type, line, "send")
<1>1. <<"down", id>> \in Key /\ "send" \in Stage
      BY DEF Key, Role, Stage
<1>2. e \in QueueEntry
      BY <1>1, NewEntryType
<1> HIDE DEF e
<1>3. Down(id, type, line) = <<e>>
      BY DEF Down, e
<1>4. <<e>> \in Seq(QueueEntry) /\ Len(<<e>>) = 1 /\ <<e>>[1] = e
      BY <1>2
<1>5. ToSet(<<e>>) = {e}
      BY <1>4, Elements DEF ToSet
<1>6. UniqueKeys(<<e>>)
      BY <1>4, Elements DEF UniqueKeys
<1> QED BY <1>2, <1>3, <1>4, <1>5, <1>6 DEF e

\* The messages to the L1 caches, at most one for each of two.
LEMMA UpProperties ==
    ASSUME NEW id \in Ids, NEW type \in Type, NEW line \in Line
    PROVE  LET d == Up(id, type, line) IN
           /\ d \in Seq(QueueEntry) /\ UniqueKeys(d) /\ Len(d) = Uppers /\ Len(d) <= 2
           /\ \A e \in ToSet(d) :
                 /\ e.key = <<"up1", id>> \/ e.key = <<"up2", id>>
                 /\ e.type = type /\ e.line = line /\ e.stage = "answer"
                 /\ e.frame = NoLine /\ e.waitFor = NoKey
<1> DEFINE d == Up(id, type, line)
           key(u) == <<IF u = 1 THEN "up1" ELSE "up2", id>>
<1>1. Uppers \in 0 .. 2 /\ \A u \in 1 .. Uppers : u \in 1 .. 2
      BY CoherentBusAssumption
<1>2. /\ \A u \in 1 .. Uppers : key(u) \in Key /\ (key(u) = <<"up1", id>> \/ key(u) = <<"up2", id>>)
      /\ "answer" \in Stage
      BY DEF Key, Role, Stage
<1>3. \A u, v \in 1 .. 2 : key(u) = key(v) => u = v
      OBVIOUS
<1> HIDE DEF key
<1>4. d = [u \in 1 .. Uppers |-> NewEntry(key(u), type, line, "answer")]
      BY DEF Up, key
<1> HIDE DEF d
<1>5. \A u \in 1 .. Uppers : /\ d[u] \in QueueEntry /\ d[u].key = key(u)
                             /\ d[u].type = type /\ d[u].line = line /\ d[u].stage = "answer"
                             /\ d[u].frame = NoLine /\ d[u].waitFor = NoKey
      BY <1>2, <1>4, NewEntryType
<1>6. d \in Seq(QueueEntry) /\ Len(d) = Uppers
      BY <1>1, <1>4, <1>5, IsASeq, LenProperties
<1>7. DOMAIN d = 1 .. Uppers
      BY <1>6, Elements
<1>8. UniqueKeys(d)
      BY <1>1, <1>3, <1>5, <1>7 DEF UniqueKeys
<1>9. \A e \in ToSet(d) : \E u \in 1 .. Uppers : e = d[u]
      BY <1>6, Elements
<1> QED BY <1>1, <1>2, <1>5, <1>6, <1>8, <1>9 DEF d

\* find_dependency returns an entry's key, or nothing.
LEMMA FindDependencyType ==
    ASSUME NEW q \in Seq(QueueEntry), NEW line
    PROVE  FindDependency(q, line) \in Key \cup {NoKey}
<1>1. /\ Len(q) \in Nat /\ DOMAIN q = 1 .. Len(q)
      /\ \A k \in 1 .. Len(q) : q[k].key \in Key
      BY Elements, EntryFields
<1>2. ASSUME NEW first \in Key PROVE ChainEnd(q, first) \in Key
  <2> DEFINE waiting(x) == {k \in DOMAIN q : q[k].waitFor = x}
             next(x) == IF waiting(x) = {} THEN x ELSE q[CHOOSE k \in waiting(x) : TRUE].key
             step == [n \in 1 .. Len(q) |-> [x \in Key |-> next(x)]]
             Is(g) == g = [n \in 0 .. Len(q) |-> IF n = 0 THEN first ELSE next(g[n - 1])]
             Follow == CHOOSE g : Is(g)
  <2>1. ChainEnd(q, first) = Follow[Len(q)]
        BY DEF ChainEnd
  <2>2. \A x : waiting(x) # {} => (CHOOSE k \in waiting(x) : TRUE) \in 1 .. Len(q)
        BY <1>1
  <2>3. \A x \in Key : next(x) \in Key
        BY <1>1, <2>2
  <2>4. /\ step \in [1 .. Len(q) -> [Key -> Key]]
        /\ \A n \in 1 .. Len(q), x \in Key : step[n][x] = next(x)
        BY <2>3
  <2>5. \E g : Is(g)
    <3> HIDE DEF step, next
    <3>1. PICK f \in [0 .. Len(q) -> Key] : Recursive(f, Len(q), first, step)
          BY <1>1, <1>2, <2>4, RecursionExists
    <3>2. ASSUME NEW i \in 0 .. Len(q), i # 0
          PROVE  f[i - 1] \in Key
      <4>1. i - 1 \in 0 .. Len(q)
            BY <1>1, <3>2
      <4> QED BY <4>1
    <3>3. \A i \in 0 .. Len(q) : i # 0 => step[i][f[i - 1]] = next(f[i - 1])
          BY <1>1, <2>4, <3>2
    <3>4. Is(f)
          BY <3>1, <3>3 DEF Recursive
    <3> QED BY <3>4
  <2>6. Is(Follow)
    <3> HIDE DEF Is
    <3> QED BY <2>5
  <2> HIDE DEF Follow, next
  <2>7. \A n \in 0 .. Len(q) : Follow[n] = IF n = 0 THEN first ELSE next(Follow[n - 1])
        BY <2>6
  <2> DEFINE T == {n \in 0 .. Len(q) : Follow[n] \in Key}
  <2>8. 0 \in T
        BY <1>1, <1>2, <2>7
  <2>9. ASSUME NEW n \in 0 .. Len(q) - 1, n \in T
        PROVE  n + 1 \in T
    <3>1. n + 1 \in 0 .. Len(q) /\ n + 1 # 0 /\ (n + 1) - 1 = n
          BY <1>1
    <3>2. Follow[n + 1] = next(Follow[n])
          BY <2>7, <3>1
    <3> QED BY <2>3, <2>9, <3>1, <3>2
  <2>10. 0 .. Len(q) \subseteq T
    <3> HIDE DEF T
    <3> QED BY <1>1, <2>8, <2>9, SetInduction
  <2> QED BY <1>1, <2>1, <2>10
<1> DEFINE same == {k \in DOMAIN q : q[k].line = line}
           k0 == CHOOSE k \in same : \A j \in same : k <= j
<1>3. CASE same = {}
      BY <1>3 DEF FindDependency
<1>4. CASE same # {}
  <2>1. same \in SUBSET Nat
        BY <1>1
  <2>2. k0 \in same
    <3>1. \E x \in same : \A y \in same : x <= y
          BY <1>4, <2>1, LeastElement
    <3> QED BY <3>1
  <2>3. q[k0].key \in Key
        BY <1>1, <2>2
  <2>4. FindDependency(q, line) = ChainEnd(q, q[k0].key)
        BY <1>4 DEF FindDependency
  <2> QED BY <1>2, <2>3, <2>4
<1> QED BY <1>3, <1>4

(***************************************************************************)
(* What a step leaves as it is                                             *)
(***************************************************************************)
LEMMA Constants ==
    /\ NumCaches \in Nat \ {0} /\ Caches \subseteq Controllers /\ Lower \in Controllers
    /\ Lower \notin Caches /\ Controllers = Caches \cup {Lower}
    /\ MaxRequests \in Nat /\ Ids \subseteq Nat /\ NoLine \notin Line
    /\ QueueSize \in Nat /\ BusQueueSize \in Nat /\ BusPendingSize \in Nat
    /\ ActReserve \in Nat /\ LocalReserve \in Nat /\ SnoopReserve \in Nat
BY CoherentBusAssumption DEF Caches, Controllers, Lower, Ids

\* What the invariant says of every queue and every entry.
LEMMA Basics ==
    ASSUME BusInv
    PROVE  /\ Typed /\ Len(requests) \in Nat
           /\ \A c \in Caches : /\ queue[c] \in Seq(QueueEntry) /\ UniqueKeys(queue[c])
                                /\ \A e \in ToSet(queue[c]) : e \in QueueEntry /\ EntryInv(c, e)
<1>1. Typed /\ Len(requests) \in Nat
      BY LenProperties DEF BusInv, Typed
<1>2. \A c \in Caches : queue[c] \in Seq(QueueEntry)
      BY <1>1 DEF Typed
<1> QED BY <1>1, <1>2, Elements DEF BusInv, QueueInv

PendingRequest == [id : Ids, type : Type, cache : Caches, got : SUBSET Controllers,
                   with : {0} \cup Controllers, shared : BOOLEAN]

\* The types of the requests that were broadcast.
LEMMA PendingTypes ==
    ASSUME BusInv
    PROVE  /\ pending \in Seq(PendingRequest)
           /\ \A p \in ToSet(pending) : /\ p \in PendingRequest /\ p.id \in Ids
                                        /\ p.cache \in Caches /\ p.got \subseteq Controllers
<1>1. pending \in Seq(PendingRequest)
      BY DEF BusInv, Typed, PendingRequest
<1>2. \A p \in ToSet(pending) : p \in PendingRequest
      BY <1>1, Elements
<1> QED BY <1>1, <1>2 DEF PendingRequest

RequestsKept == /\ Len(requests) <= Len(requests') /\ Len(requests') \in Nat
                /\ \A i \in 1 .. Len(requests) : requests'[i] = requests[i]

\* Cache x has more to do because of request i than before.
Fresh(x, i) == \E r \in Role \ {"local"} :
                   In(queue'[x], <<r, i>>) /\ ~In(queue[x], <<r, i>>)

\* Entries that tell something of the rest of their cache, or of the others.
Private(e) == \/ e.key[1] \in {"snoop", "evict"}
              \/ e.key[1] = "local" /\ e.stage \in Unsent \cup {"asked"}
              \/ e.key[1] = "down" /\ e.type = "EVICT"
Public(e)  == \/ e.key[1] = "local" /\ e.stage \in Unsent
              \/ e.key[1] = "down" /\ e.type = "EVICT"

Undisturbed(x, e) ==
    LET i == e.key[2] IN
    /\ e.key[1] = "local" => answers'[i] = answers[i]
    /\ Private(e) => ~Fresh(x, i) /\ (EvictQueued(x, i)' => EvictQueued(x, i))
    /\ Public(e) => \A y \in Caches \ {x} : ~Fresh(y, i)

\* A cache with nothing more to do for a request is as untouched by it as before.
LEMMA NotFresh ==
    ASSUME NEW x, NEW i, ~Fresh(x, i)
    PROVE  /\ NoOffspring(x, i) => NoOffspring(x, i)'
           /\ Untouched(x, i) => Untouched(x, i)'
           /\ ~In(queue[x], <<"snoop", i>>) => ~In(queue'[x], <<"snoop", i>>)
           /\ ~In(queue[x], <<"evict", i>>) => ~In(queue'[x], <<"evict", i>>)
<1>1. \A r \in {"snoop", "evict", "down", "up1", "up2"} :
          In(queue'[x], <<r, i>>) => In(queue[x], <<r, i>>)
      BY DEF Fresh, Role
<1> QED BY <1>1 DEF NoOffspring, Untouched, Offspring

\* An entry that a step leaves in the queue, in the frame it had or another one.
LEMMA EntryReframed ==
    ASSUME BusInv, NEW x \in Caches, NEW e \in ToSet(queue[x]), NEW f \in QueueEntry,
           Same(e, [f EXCEPT !.frame = e.frame]), RequestsKept, Undisturbed(x, e),
           f.frame # NoLine => f.frame \in Held(x)', e.frame # NoLine => f.frame # NoLine
    PROVE  EntryInv(x, f)'
<1> DEFINE i == e.key[2]
<1>1. EntryInv(x, e) /\ e \in QueueEntry /\ Len(requests) \in Nat
      BY Basics
<1>2. /\ i \in 1 .. Len(requests) /\ i \in 1 .. Len(requests') /\ requests'[i] = requests[i]
      BY <1>1 DEF EntryInv, RequestsKept
<1>3. f.key = e.key /\ f.type = e.type /\ f.line = e.line
      BY DEF Same, QueueEntry
<1>4. (f.stage = e.stage /\ f.waitFor = e.waitFor)
         \/ (e.waitFor # NoKey /\ e.stage = "wait" /\ f.waitFor = NoKey /\ f.stage = "access")
      BY <1>1 DEF Same, EntryInv, QueueEntry
<1>5. /\ f.frame # NoLine => f.frame \in Held(x)'
      /\ f.stage = "hit" => f.frame # NoLine
      /\ f.waitFor # NoKey <=> f.stage = "wait"
      BY <1>1, <1>3, <1>4 DEF EntryInv
<1>6. e.key[1] \in {"snoop", "evict"} => requests'[i].cache # x
      BY <1>1, <1>2 DEF EntryInv
<1>7. ASSUME e.key[1] = "local" PROVE LocalInv(x, f)'
  <2>1. LocalInv(x, e)
        BY <1>1, <1>7 DEF EntryInv
  <2>2. /\ requests'[i] = [cache |-> x, type |-> f.type, line |-> f.line]
        /\ f.stage \in {"asked", "fill", "drain"} => Expected(f.type)
        /\ answers'[i] = IF f.stage = "drain" THEN 1 ELSE 0
        BY <1>2, <1>3, <1>4, <1>7, <2>1 DEF LocalInv, Undisturbed
  <2>3. /\ f.stage \in Unsent => e.stage \in Unsent
        /\ f.stage \in Unsent \cup {"asked"} => e.stage \in Unsent \cup {"asked"}
        BY <1>4 DEF Unsent
  <2>4. f.stage \in Unsent \cup {"asked"} => NoOffspring(x, i)' /\ ~EvictQueued(x, i)'
        BY <1>7, <2>1, <2>3, NotFresh DEF LocalInv, Undisturbed, Private
  <2>5. f.stage \in Unsent => OthersUntouched(x, i)'
        BY <1>7, <2>1, <2>3, NotFresh DEF LocalInv, Undisturbed, Public, OthersUntouched
  <2> QED BY <1>3, <2>2, <2>4, <2>5 DEF LocalInv
<1>8. ASSUME e.key[1] = "snoop" PROVE SnoopInv(x, f)'
  <2>1. SnoopInv(x, e) /\ ~Fresh(x, i)
        BY <1>1, <1>8 DEF EntryInv, Undisturbed, Private
  <2>2. f.stage \in LookedUp
        BY <1>4, <2>1 DEF SnoopInv, LookedUp
  <2> QED BY <1>2, <1>3, <2>1, <2>2, NotFresh DEF SnoopInv
<1>9. ASSUME e.key[1] = "evict" PROVE EvictInv(x, f)'
  <2>1. EvictInv(x, e) /\ ~Fresh(x, i)
        BY <1>1, <1>9 DEF EntryInv, Undisturbed, Private
  <2>2. f.stage \in LookedUp
        BY <1>4, <2>1 DEF EvictInv, LookedUp
  <2> QED BY <1>2, <1>3, <2>1, <2>2, NotFresh DEF EvictInv
<1>10. ASSUME e.key[1] = "down" PROVE DownInv(x, f)'
  <2>1. DownInv(x, e)
        BY <1>1, <1>10 DEF EntryInv
  <2>2. f.stage = "send" /\ f.type \in {"UPDATE", "EVICT"}
        BY <1>3, <1>4, <2>1 DEF DownInv
  <2>3. ASSUME f.type = "EVICT"
        PROVE  /\ requests'[i].cache = x /\ f.line = requests'[i].line
               /\ ~EvictQueued(x, i)' /\ OthersUntouched(x, i)'
    <3>1. /\ requests[i].cache = x /\ e.line = requests[i].line
          /\ ~EvictQueued(x, i) /\ OthersUntouched(x, i)
          BY <1>3, <2>1, <2>3 DEF DownInv
    <3>2. /\ EvictQueued(x, i)' => EvictQueued(x, i)
          /\ \A y \in Caches \ {x} : ~Fresh(y, i)
          BY <1>3, <1>10, <2>3 DEF Undisturbed, Private, Public
    <3> QED BY <1>2, <1>3, <3>1, <3>2, NotFresh DEF OthersUntouched
  <2> QED BY <1>3, <2>2, <2>3 DEF DownInv
<1>11. e.key[1] \in {"up1", "up2"} => f.stage = "answer"
       BY <1>1, <1>4 DEF EntryInv
<1> QED BY <1>2, <1>3, <1>5, <1>6, <1>7, <1>8, <1>9, <1>10, <1>11 DEF EntryInv

\* An entry that a step leaves alone, but for waking it, keeps its invariant.
LEMMA EntryKept ==
    ASSUME BusInv, NEW x \in Caches, NEW e \in ToSet(queue[x]), NEW f \in QueueEntry,
           Same(e, f), RequestsKept, Undisturbed(x, e),
           e.frame \in Held(x) => e.frame \in Held(x)'
    PROVE  EntryInv(x, f)'
<1>1. f.frame = e.frame /\ [f EXCEPT !.frame = e.frame] = f
      BY DEF Same, QueueEntry
<1>2. f.frame # NoLine => f.frame \in Held(x)'
      BY <1>1, Basics DEF EntryInv
<1> QED BY <1>1, <1>2, EntryReframed

\* The entries of all queues keep their invariant if those that a step adds have
\* it and it does not disturb the others.
LEMMA QueueKept ==
    ASSUME BusInv, RequestsKept, NEW gone, NEW new,
           \A x \in Caches : Passes(queue[x], queue'[x], gone[x], new[x]),
           \A x \in Caches : \A e \in ToSet(queue[x]) :
               e.key \notin gone[x] /\ e.frame \in Held(x) => e.frame \in Held(x)',
           \A x \in Caches : \A e \in ToSet(queue[x]) : e.key \notin gone[x] => Undisturbed(x, e),
           \A x \in Caches : \A f \in new[x] : EntryInv(x, f)'
    PROVE  QueueInv'
<1> SUFFICES ASSUME NEW x \in Caches
             PROVE  UniqueKeys(queue'[x]) /\ \A f \in ToSet(queue'[x]) : EntryInv(x, f)'
    BY DEF QueueInv
<1>1. queue'[x] \in Seq(QueueEntry) /\ UniqueKeys(queue'[x])
      BY DEF Passes
<1>2. ASSUME NEW f \in ToSet(queue'[x]), f \notin new[x]
      PROVE  EntryInv(x, f)'
  <2>1. PICK e \in ToSet(queue[x]) : e.key \notin gone[x] /\ Same(e, f)
        BY <1>2 DEF Passes
  <2>2. Undisturbed(x, e) /\ f \in QueueEntry
        BY <1>1, <2>1, Elements
  <2> QED BY <2>1, <2>2, EntryKept
<1> QED BY <1>1, <1>2

\* The entry of a request that was sent down stays if the step is not about it.
LEMMA LocalStays ==
    ASSUME BusInv, NEW x \in Caches, NEW i, LocalAt(x, i, {"asked"}), NEW gone, NEW new,
           Passes(queue[x], queue'[x], gone, new), <<"local", i>> \notin gone
    PROVE  LocalAt(x, i, {"asked"})'
<1>1. PICK e \in ToSet(queue[x]) : e.key = <<"local", i>> /\ e.stage \in {"asked"}
      BY DEF LocalAt
<1>2. EntryInv(x, e)
      BY Basics
<1>3. e.waitFor = NoKey
      BY <1>1, <1>2 DEF EntryInv
<1>4. PICK f \in ToSet(queue'[x]) : Same(e, f)
      BY <1>1 DEF Passes
<1>5. f.key = <<"local", i>> /\ f.stage \in {"asked"}
      BY <1>1, <1>3, <1>4 DEF Same
<1> QED BY <1>4, <1>5 DEF LocalAt

\* A message keeps its invariant when no other cache has more to do for it.
LEMMA MessageKept ==
    ASSUME BusInv, NEW x \in Caches, NEW m \in ToSet(busQueue[x]), RequestsKept,
           Heard(m.type) => \A y \in Caches \ {x} : ~Fresh(y, m.id),
           Expected(m.type) => /\ LocalAt(x, m.id, {"asked"})'
                               /\ \A p \in ToSet(pending') : p.id # m.id
    PROVE  MessageInv(x, m)'
<1>1. MessageInv(x, m) /\ Len(requests) \in Nat
      BY Basics DEF BusInv, BusQueueInv
<1>2. m.id \in 1 .. Len(requests) /\ m.id \in 1 .. Len(requests') /\ requests'[m.id] = requests[m.id]
      BY <1>1 DEF MessageInv, RequestsKept
<1>3. Heard(m.type) => OthersUntouched(x, m.id)'
      BY <1>1, NotFresh DEF MessageInv, OthersUntouched
<1> QED BY <1>1, <1>2, <1>3 DEF MessageInv

\* What a cache has more to do comes from the entries that a step adds.
LEMMA FreshIsNew ==
    ASSUME NEW x, NEW i, queue[x] \in Seq(QueueEntry), NEW gone, NEW new,
           Passes(queue[x], queue'[x], gone, new), Fresh(x, i)
    PROVE  \E f \in new : /\ f.key[2] = i /\ f.key[1] # "local" /\ ~In(queue[x], f.key)
<1>1. PICK r \in Role \ {"local"} : In(queue'[x], <<r, i>>) /\ ~In(queue[x], <<r, i>>)
      BY DEF Fresh
<1>2. PICK f \in new : f.key = <<r, i>>
      BY <1>1, PassesIn
<1> QED BY <1>1, <1>2

\* A step of one queue.
LEMMA OneQueue ==
    ASSUME BusInv, NEW c \in Caches, NEW r, queue' = [queue EXCEPT ![c] = r],
           NEW gone, NEW new, Passes(queue[c], r, gone, new)
    PROVE  /\ queue' \in [Caches -> Seq(QueueEntry)] /\ queue'[c] = r
           /\ \A x \in Caches \ {c} : queue'[x] = queue[x]
           /\ \A x \in Caches : Passes(queue[x], queue'[x],
                                       [y \in Caches |-> IF y = c THEN gone ELSE {}][x],
                                       [y \in Caches |-> IF y = c THEN new ELSE {}][x])
           /\ \A x \in Caches \ {c} : \A i : ~Fresh(x, i)
<1>1. queue \in [Caches -> Seq(QueueEntry)] /\ r \in Seq(QueueEntry)
      BY Basics DEF Typed, Passes
<1>2. /\ queue' \in [Caches -> Seq(QueueEntry)] /\ queue'[c] = r
      /\ \A x \in Caches \ {c} : queue'[x] = queue[x]
      BY <1>1
<1>3. \A x \in Caches \ {c} : Passes(queue[x], queue'[x], {}, {})
      BY <1>2, Basics, PassesStay
<1>4. \A x \in Caches \ {c} : \A i : ~Fresh(x, i)
      BY <1>2 DEF Fresh
<1> QED BY <1>2, <1>3, <1>4

\* The steps of a cache that the bus does not see.
LEMMA QueueStep ==
    ASSUME BusInv, UNCHANGED <<busVars, lower, late>>, RequestsKept,
           requests' \in Seq(Message), Len(requests') <= MaxRequests,
           NEW c \in Caches, NEW r, queue' = [queue EXCEPT ![c] = r],
           NEW gone, NEW new, Passes(queue[c], r, gone, new),
           \A i \in Ids : In(r, <<"snoop", i>>) <=> In(queue[c], <<"snoop", i>>),
           \A i \in Ids : <<"local", i>> \in gone => ~LocalAt(c, i, {"asked"}),
           \A i \in Ids : Fresh(c, i) =>
               /\ \A y \in Caches \ {c} : \A m \in ToSet(busQueue[y]) : m.id = i => ~Heard(m.type)
               /\ \A e \in ToSet(queue[c]) : e.key \notin gone /\ e.key[2] = i => ~Private(e)
               /\ \A y \in Caches \ {c} : \A e \in ToSet(queue[y]) : e.key[2] = i => ~Public(e),
           \A x \in Caches : \A e \in ToSet(queue[x]) :
               e.key[1] = "local" /\ ~(x = c /\ e.key \in gone) => answers'[e.key[2]] = answers[e.key[2]],
           \A f \in new : EntryInv(c, f)',
           cstate' \in [Caches -> [Line -> LineState]], \A x \in Caches : Held(x)' = Held(x),
           answers' \in [Ids -> Nat], AnswerInv', failed' \in BOOLEAN, overlapped' \in BOOLEAN
    PROVE  BusInv'
<1> DEFINE g == [y \in Caches |-> IF y = c THEN gone ELSE {}]
           n == [y \in Caches |-> IF y = c THEN new ELSE {}]
<1>1. /\ queue' \in [Caches -> Seq(QueueEntry)] /\ queue'[c] = r
      /\ \A x \in Caches \ {c} : queue'[x] = queue[x]
      /\ \A x \in Caches : Passes(queue[x], queue'[x], g[x], n[x])
      /\ \A x \in Caches \ {c} : \A i : ~Fresh(x, i)
      BY OneQueue
<1>2. g[c] = gone /\ n[c] = new /\ \A x \in Caches \ {c} : g[x] = {} /\ n[x] = {}
      OBVIOUS
<1> HIDE DEF g, n
<1>3. /\ busQueue' = busQueue /\ address' = address /\ last' = last
      /\ pending' = pending /\ dataBusBusy' = dataBusBusy /\ dataEvents' = dataEvents
      /\ lower' = lower /\ late' = late
      BY DEF busVars
<1>4. Typed /\ Typed'
  <2>1. Typed /\ Len(requests) \in Nat
        BY Basics
  <2> QED BY <1>1, <1>3, <2>1 DEF Typed
<1>5. \A x, i : EvictQueued(x, i)' <=> EvictQueued(x, i)
      BY <1>3 DEF EvictQueued
<1>6. ASSUME NEW x \in Caches, NEW e \in ToSet(queue[x]), e.key \notin g[x]
      PROVE  Undisturbed(x, e)
  <2>1. e.key[2] \in Ids
        BY Basics, EntryFields
  <2>2. e.key[1] = "local" => answers'[e.key[2]] = answers[e.key[2]]
        BY <1>2, <1>6
  <2>3. Private(e) => ~Fresh(x, e.key[2])
        BY <1>1, <1>2, <1>6, <2>1
  <2>4. Public(e) => \A y \in Caches \ {x} : ~Fresh(y, e.key[2])
        BY <1>1, <2>1
  <2> QED BY <1>5, <2>2, <2>3, <2>4 DEF Undisturbed
<1>7. QueueInv'
  <2>1. \A x \in Caches : \A f \in n[x] : EntryInv(x, f)'
        BY <1>2
  <2> QED BY <1>1, <1>4, <1>6, <2>1, QueueKept
<1>8. \A x \in Caches, i \in Ids : LocalAt(x, i, {"asked"}) => LocalAt(x, i, {"asked"})'
  <2> SUFFICES ASSUME NEW x \in Caches, NEW i \in Ids, LocalAt(x, i, {"asked"})
               PROVE  LocalAt(x, i, {"asked"})'
      OBVIOUS
  <2>1. <<"local", i>> \notin g[x]
        BY <1>2
  <2> QED BY <1>1, <2>1, LocalStays
<1>9. \A x \in Caches : \A m \in ToSet(busQueue[x]) : m \in BusMessage
      BY <1>4, Elements DEF Typed
<1>10. BusQueueInv'
  <2> SUFFICES ASSUME NEW x \in Caches, NEW m \in ToSet(busQueue[x]) PROVE MessageInv(x, m)'
      BY <1>3 DEF BusInv, BusQueueInv
  <2>1. MessageInv(x, m) /\ m.id \in Ids
        BY <1>9 DEF BusInv, BusQueueInv, BusMessage
  <2>2. Heard(m.type) => \A y \in Caches \ {x} : ~Fresh(y, m.id)
        BY <1>1, <2>1
  <2>3. Expected(m.type) => /\ LocalAt(x, m.id, {"asked"})'
                            /\ \A p \in ToSet(pending') : p.id # m.id
        BY <1>3, <1>8, <2>1 DEF MessageInv
  <2> QED BY <1>4, <2>2, <2>3, MessageKept
<1>11. PendingInv'
  <2>1. \A p \in ToSet(pending) : p.id \in Ids /\ p.cache \in Caches
        BY PendingTypes
  <2>2. \A p \in ToSet(pending) : p.id \in 1 .. Len(requests) => /\ p.id \in 1 .. Len(requests')
                                                                 /\ requests'[p.id] = requests[p.id]
        BY Basics DEF RequestsKept
  <2> QED BY <1>3, <1>8, <2>1, <2>2 DEF BusInv, PendingInv
<1>12. AddressInv' /\ Len(pending') <= BusPendingSize
       /\ \A x \in Caches : Len(busQueue'[x]) <= BusQueueSize /\ Cardinality(Held(x)') <= Ways
       BY <1>3 DEF BusInv, AddressInv
<1>13. DataBusNeverSleeps'
       BY <1>3 DEF BusInv, DataBusNeverSleeps
<1>14. AnswersAreAwaited'
  <2>1. \A x \in Caches, i \in Ids : In(queue'[x], <<"snoop", i>>) <=> In(queue[x], <<"snoop", i>>)
        BY <1>1
  <2>2. \A x \in Controllers : x # Lower => x \in Caches
        BY Constants
  <2> QED BY <1>3, <2>1, <2>2 DEF BusInv, AnswersAreAwaited
<1> QED BY <1>4, <1>7, <1>10, <1>11, <1>12, <1>13, <1>14 DEF BusInv

\* A step of one cache that does not touch the bus.
LEMMA CacheOnly ==
    ASSUME BusInv, UNCHANGED <<requests, busVars, lower, late>>,
           NEW c \in Caches, NEW r, queue' = [queue EXCEPT ![c] = r],
           NEW gone, NEW new, Passes(queue[c], r, gone, new),
           \A i \in Ids : In(r, <<"snoop", i>>) <=> In(queue[c], <<"snoop", i>>),
           \A i \in Ids : <<"local", i>> \in gone => ~LocalAt(c, i, {"asked"}),
           \A i \in Ids : Fresh(c, i) =>
               /\ \A y \in Caches \ {c} : \A m \in ToSet(busQueue[y]) : m.id = i => ~Heard(m.type)
               /\ \A e \in ToSet(queue[c]) : e.key \notin gone /\ e.key[2] = i => ~Private(e)
               /\ \A y \in Caches \ {c} : \A e \in ToSet(queue[y]) : e.key[2] = i => ~Public(e),
           \A x \in Caches : \A e \in ToSet(queue[x]) :
               e.key[1] = "local" /\ ~(x = c /\ e.key \in gone) => answers'[e.key[2]] = answers[e.key[2]],
           \A f \in new : EntryInv(c, f)',
           cstate' \in [Caches -> [Line -> LineState]], \A x \in Caches : Held(x)' = Held(x),
           answers' \in [Ids -> Nat], AnswerInv', failed' \in BOOLEAN, overlapped' \in BOOLEAN
    PROVE  BusInv'
<1>1. Typed /\ Len(requests) \in Nat
      BY Basics
<1>2. /\ RequestsKept /\ requests' \in Seq(Message) /\ Len(requests') <= MaxRequests
      /\ UNCHANGED <<busVars, lower, late>>
      BY <1>1 DEF RequestsKept, Typed
<1> QED BY <1>2, QueueStep

\* An entry at some stage, by name.
LEMMA AtProperties ==
    ASSUME BusInv, NEW c \in Caches, NEW key, NEW stage, At(c, key, stage)
    PROVE  \E e \in QueueEntry :
           /\ e = EntryOf(queue[c], key)
           /\ e \in ToSet(queue[c]) /\ e.key = key /\ e.stage = stage
           /\ EntryInv(c, e) /\ key \in Key /\ key # NoKey /\ In(queue[c], key)
           /\ key[1] \in Role /\ key[2] \in Ids /\ key = <<key[1], key[2]>>
           /\ \A f \in ToSet(queue[c]) : f.key = key => f = e
<1> DEFINE e == EntryOf(queue[c], key)
<1>1. In(queue[c], key) /\ e.stage = stage
      BY DEF At
<1>2. queue[c] \in Seq(QueueEntry) /\ UniqueKeys(queue[c])
      BY Basics
<1>3. /\ e \in ToSet(queue[c]) /\ e.key = key
      /\ \A f \in ToSet(queue[c]) : f.key = key => f = e
      BY <1>1, <1>2, PlaceProperties
<1>4. e \in QueueEntry /\ EntryInv(c, e)
      BY <1>3, Basics
<1>5. key \in Key /\ key # NoKey /\ key[1] \in Role /\ key[2] \in Ids /\ key = <<key[1], key[2]>>
      BY <1>3, <1>4, EntryFields
<1> QED BY <1>1, <1>3, <1>4, <1>5

\* The entry of an event has only its own stage to change, and what follows of it.
LEMMA NothingFresh ==
    ASSUME BusInv, NEW c \in Caches, NEW r, queue' = [queue EXCEPT ![c] = r],
           NEW gone, NEW new, Passes(queue[c], r, gone, new),
           \A f \in new : f.key[1] = "local" \/ In(queue[c], f.key)
    PROVE  \A x \in Caches : \A i : ~Fresh(x, i)
<1>1. queue'[c] = r /\ queue[c] \in Seq(QueueEntry)
      BY OneQueue, Basics
<1>2. ASSUME NEW i, Fresh(c, i) PROVE FALSE
      BY <1>1, <1>2, FreshIsNew
<1>3. \A x \in Caches \ {c} : \A i : ~Fresh(x, i)
      BY OneQueue
<1> QED BY <1>2, <1>3

\* A step that makes no messages and no answers.
LEMMA CalmStep ==
    ASSUME BusInv, UNCHANGED <<requests, busVars, cstate, lower, failed, late, overlapped>>,
           NEW c \in Caches, NEW r, queue' = [queue EXCEPT ![c] = r],
           NEW gone, NEW new, Passes(queue[c], r, gone, new),
           \A f \in new : f.key[1] = "local" \/ In(queue[c], f.key),
           \A i \in Ids : In(r, <<"snoop", i>>) <=> In(queue[c], <<"snoop", i>>),
           \A i \in Ids : <<"local", i>> \in gone => ~LocalAt(c, i, {"asked"}),
           \A x \in Caches : \A e \in ToSet(queue[x]) :
               e.key[1] = "local" /\ ~(x = c /\ e.key \in gone) => answers'[e.key[2]] = answers[e.key[2]],
           \A f \in new : EntryInv(c, f)',
           answers' \in [Ids -> Nat], AnswerInv'
    PROVE  BusInv'
<1>1. \A i \in Ids : ~Fresh(c, i)
      BY NothingFresh
<1>2. /\ cstate' \in [Caches -> [Line -> LineState]] /\ failed' \in BOOLEAN
      /\ overlapped' \in BOOLEAN /\ cstate' = cstate
      BY Basics DEF Typed
<1>3. \A x \in Caches : Held(x)' = Held(x)
      BY <1>2 DEF Held
<1>4. UNCHANGED <<requests, busVars, lower, late>>
      OBVIOUS
<1>5. \A i \in Ids : Fresh(c, i) =>
               /\ \A y \in Caches \ {c} : \A m \in ToSet(busQueue[y]) : m.id = i => ~Heard(m.type)
               /\ \A e \in ToSet(queue[c]) : e.key \notin gone /\ e.key[2] = i => ~Private(e)
               /\ \A y \in Caches \ {c} : \A e \in ToSet(queue[y]) : e.key[2] = i => ~Public(e)
      BY <1>1
<1> QED BY <1>2, <1>3, <1>4, <1>5, CacheOnly

\* What the lookup makes of an entry.
LooksUp(c, key, e, f) ==
    /\ e.key = key /\ Advances(c, {key}, {f})
    /\ f.key = key /\ f.type = e.type /\ f.line = e.line
    /\ IF e.line \in Held(c) THEN f.stage = "hit" /\ f.frame = e.line
                             ELSE f.stage = "miss" /\ f.frame = NoLine

\* cache_access_cb keeps the invariant.
LEMMA AccessInv ==
    ASSUME BusInv, NEW c \in Caches, NEW key, CacheAccess(c, key)
    PROVE  BusInv' /\ \E e \in ToSet(queue[c]), f \in QueueEntry : LooksUp(c, key, e, f)
<1> DEFINE q == queue[c]
           p == PlaceOf(q, key)
<1>1. /\ At(c, key, "access")
      /\ UNCHANGED <<requests, cstate, busVars, lower, failed, late, answers, overlapped>>
      BY DEF CacheAccess
<1>2. PICK e \in QueueEntry :
      /\ e = EntryOf(queue[c], key)
      /\ e \in ToSet(q) /\ e.key = key /\ e.stage = "access"
      /\ EntryInv(c, e) /\ key \in Key /\ key # NoKey /\ In(q, key)
      /\ \A d \in ToSet(q) : d.key = key => d = e
      BY <1>1, AtProperties
<1> DEFINE hit == e.line \in Held(c)
           Looked(d) == [d EXCEPT !.stage = IF hit THEN "hit" ELSE "miss",
                                  !.frame = IF hit THEN e.line ELSE NoLine]
           r == [k \in DOMAIN q |-> IF q[k].key = key THEN Looked(q[k]) ELSE q[k]]
<1>0. queue' = [queue EXCEPT ![c] = r]
      BY <1>2 DEF CacheAccess
<1>3. q \in Seq(QueueEntry) /\ UniqueKeys(q)
      BY Basics
<1>4. /\ Len(q) \in Nat /\ DOMAIN q = 1 .. Len(q) /\ \A k \in 1 .. Len(q) : q[k] \in QueueEntry
      /\ p \in 1 .. Len(q) /\ q[p] = e /\ \A k \in 1 .. Len(q) : q[k].key = key => k = p
      BY <1>2, <1>3, Elements, PlaceProperties
<1> HIDE DEF p, q
<1>5. ASSUME NEW d \in QueueEntry
      PROVE  /\ Looked(d) \in QueueEntry /\ Looked(d).key = d.key /\ Looked(d).type = d.type
             /\ Looked(d).line = d.line /\ Looked(d).waitFor = d.waitFor
             /\ Looked(d).stage = IF hit THEN "hit" ELSE "miss"
             /\ Looked(d).frame = IF hit THEN e.line ELSE NoLine
      BY <1>2 DEF QueueEntry, Stage
<1> HIDE DEF Looked
<1>f. PICK f \in QueueEntry : f = Looked(e)
      BY <1>5
<1>6. r \in Seq(QueueEntry) /\ Len(r) = Len(q) /\ r[p] = f /\ r[p].key = q[p].key
      /\ \A k \in 1 .. Len(q) : k # p => r[k] = q[k]
  <2>1. r = [k \in 1 .. Len(q) |-> IF q[k].key = key THEN Looked(q[k]) ELSE q[k]]
        BY <1>4
  <2> HIDE DEF r
  <2>2. \A k \in 1 .. Len(q) : r[k] \in QueueEntry
        BY <1>4, <1>5, <2>1
  <2> QED BY <1>2, <1>f, <1>4, <1>5, <2>1, <2>2, IsASeq, LenProperties
<1> HIDE DEF r
<1>7. Passes(q, r, {key}, {f})
      BY <1>2, <1>3, <1>4, <1>6, ReplacePasses
<1>7a. f.key = key
      BY <1>2, <1>5, <1>f
<1>8. \A x : In(r, x) <=> In(q, x)
      BY <1>2, <1>3, <1>7a, <1>7, PassesIn
<1>11. \A x \in Caches : \A i : ~Fresh(x, i)
      BY <1>0, <1>2, <1>7, <1>7a, NothingFresh DEF q
<1>12. Undisturbed(c, e)
      BY <1>1, <1>11 DEF Undisturbed, EvictQueued, busVars
<1>13. EntryInv(c, f)'
  <2>1. RequestsKept /\ Held(c) \subseteq Held(c)'
        BY <1>1, Basics DEF RequestsKept, Held
  <2>2. EntryInv(c, e)'
        BY <1>2, <1>12, <2>1, SameRefl, EntryKept DEF q
  <2>3. /\ f.key = e.key /\ f.type = e.type /\ f.line = e.line /\ f.waitFor = e.waitFor
        /\ f.stage \in {"hit", "miss"} /\ (f.stage = "hit" => f.frame # NoLine)
        /\ (f.frame # NoLine => f.frame \in Held(c)')
        BY <1>1, <1>2, <1>5, <1>f, EntryFields, Constants DEF Held
  <2>4. ASSUME e.key[1] = "local" PROVE LocalInv(c, f)'
        BY <1>2, <2>2, <2>3, <2>4 DEF EntryInv, LocalInv, Unsent
  <2>5. ASSUME e.key[1] = "snoop" PROVE SnoopInv(c, f)'
        BY <1>2, <2>2, <2>3, <2>5 DEF EntryInv, SnoopInv, LookedUp
  <2>6. ASSUME e.key[1] = "evict" PROVE EvictInv(c, f)'
        BY <1>2, <2>2, <2>3, <2>6 DEF EntryInv, EvictInv, LookedUp
  <2>7. e.key[1] # "down" /\ e.key[1] \notin {"up1", "up2"}
        BY <1>2 DEF EntryInv, DownInv
  <2> QED BY <1>2, <2>2, <2>3, <2>4, <2>5, <2>6, <2>7 DEF EntryInv
<1>14. \A i \in Ids : <<"local", i>> \in {key} => ~LocalAt(c, i, {"asked"})
      BY <1>2 DEF LocalAt, q
<1>15. answers' \in [Ids -> Nat] /\ AnswerInv' /\ answers' = answers
       BY <1>1, Basics DEF Typed, BusInv, AnswerInv
<1>17. UNCHANGED <<requests, busVars, cstate, lower, failed, late, overlapped>>
       BY <1>1
<1> DEFINE gone == {key}
           new  == {f}
<1>19. /\ Passes(queue[c], r, gone, new)
       /\ \A i \in Ids : In(r, <<"snoop", i>>) <=> In(queue[c], <<"snoop", i>>)
       /\ \A i \in Ids : <<"local", i>> \in gone => ~LocalAt(c, i, {"asked"})
       /\ \A g \in new : EntryInv(c, g)'
       /\ \A g \in new : g.key[1] = "local" \/ In(queue[c], g.key)
       BY <1>2, <1>7, <1>7a, <1>8, <1>13, <1>14 DEF q
<1>20. BusInv'
  <2> HIDE DEF gone, new
  <2> QED BY <1>0, <1>15, <1>17, <1>19, CalmStep
<1>21. queue'[c] = r
  <2>1. Passes(queue[c], r, {key}, {f})
        BY <1>7 DEF q
  <2> QED BY <1>0, <2>1, OneQueue
<1>22. Advances(c, {key}, {f})
       BY <1>0, <1>7, <1>21 DEF q, Advances
<1>23. /\ f.key = key /\ f.type = e.type /\ f.line = e.line
       /\ IF e.line \in Held(c) THEN f.stage = "hit" /\ f.frame = e.line
                                ELSE f.stage = "miss" /\ f.frame = NoLine
       BY <1>2, <1>5, <1>f
<1>24. e \in ToSet(queue[c]) /\ e.key = key
       BY <1>2 DEF q
<1> HIDE DEF hit
<1>25. LooksUp(c, key, e, f)
       BY <1>22, <1>23, <1>24 DEF LooksUp
<1> QED BY <1>20, <1>24, <1>25

\* The entry of an event, moved to another stage.
LEMMA Moved ==
    ASSUME BusInv, NEW c \in Caches, NEW e \in ToSet(queue[c]), NEW stage \in Stage
    PROVE  \E f \in QueueEntry :
              /\ f = [e EXCEPT !.stage = stage]
              /\ f.key = e.key /\ f.type = e.type /\ f.line = e.line /\ f.stage = stage
              /\ f.frame = e.frame /\ f.waitFor = e.waitFor
<1>1. e \in QueueEntry
      BY Basics
<1> DEFINE f == [e EXCEPT !.stage = stage]
<1>2. /\ f \in QueueEntry
      /\ f.key = e.key /\ f.type = e.type /\ f.line = e.line /\ f.stage = stage
      /\ f.frame = e.frame /\ f.waitFor = e.waitFor
      BY <1>1 DEF QueueEntry
<1> QED BY <1>2

\* An entry that moves on keeps its place.
LEMMA MovedIn ==
    ASSUME NEW q \in Seq(QueueEntry), NEW r, NEW key, NEW f, f.key = key, In(q, key),
           Passes(q, r, {key}, {f})
    PROVE  \A x : In(r, x) <=> In(q, x)
<1> SUFFICES ASSUME NEW x PROVE In(r, x) <=> In(q, x)
    OBVIOUS
<1>1. In(r, x) <=> \/ \E e \in {f} : e.key = x
                   \/ In(q, x) /\ x \notin {key}
      BY PassesIn
<1> QED BY <1>1

\* A miss goes down to the bus.
LEMMA LocalMissInv ==
    ASSUME BusInv, NEW c \in Caches, NEW id, LocalMiss(c, id)
    PROVE  BusInv'
<1> DEFINE key == <<"local", id>>
           q == queue[c]
           r == Move(q, key, "send")
<1>1. /\ At(c, key, "miss") /\ queue' = [queue EXCEPT ![c] = r]
      /\ UNCHANGED <<requests, cstate, busVars, lower, failed, late, answers, overlapped>>
      BY DEF LocalMiss
<1>2. PICK e \in QueueEntry :
      /\ e = EntryOf(q, key)
      /\ e \in ToSet(q) /\ e.key = key /\ e.stage = "miss"
      /\ EntryInv(c, e) /\ key \in Key /\ In(q, key)
      /\ \A d \in ToSet(q) : d.key = key => d = e
      BY <1>1, AtProperties
<1>3. "send" \in Stage
      BY DEF Stage
<1>4. PICK f \in QueueEntry :
              /\ f = [e EXCEPT !.stage = "send"]
              /\ f.key = e.key /\ f.type = e.type /\ f.line = e.line /\ f.stage = "send"
              /\ f.frame = e.frame /\ f.waitFor = e.waitFor
      BY <1>2, <1>3, Moved
<1> DEFINE gone == {key}
           new  == {f}
<1>5. Passes(q, r, gone, new)
      BY <1>2, <1>3, <1>4, Basics, MovePasses
<1>6. \A x : In(r, x) <=> In(q, x)
  <2>1. q \in Seq(QueueEntry) /\ f.key = key /\ In(q, key) /\ Passes(q, r, {key}, {f})
        BY <1>2, <1>4, <1>5, Basics
  <2> HIDE DEF r, q, key
  <2> QED BY <2>1, MovedIn
<1>7. \A g \in new : g.key[1] = "local" \/ In(q, g.key)
      BY <1>2, <1>4
<1> HIDE DEF r
<1>8. \A x \in Caches : \A i : ~Fresh(x, i)
  <2> HIDE DEF gone, new
  <2> QED BY <1>1, <1>5, <1>7, NothingFresh
<1>9. EntryInv(c, e)'
  <2>1. Undisturbed(c, e) /\ RequestsKept /\ Held(c) \subseteq Held(c)'
        BY <1>1, <1>8, Basics DEF Undisturbed, EvictQueued, busVars, RequestsKept, Held
  <2> QED BY <1>2, <2>1, SameRefl, EntryKept
<1>10. EntryInv(c, f)'
  <2>1. LocalInv(c, e)'
        BY <1>2, <1>9 DEF EntryInv
  <2>2. LocalInv(c, f)'
        BY <1>2, <1>4, <2>1 DEF LocalInv, Unsent
  <2> QED BY <1>2, <1>4, <1>9, <2>2 DEF EntryInv
<1>11. \A i \in Ids : <<"local", i>> \in gone => ~LocalAt(c, i, {"asked"})
       BY <1>2 DEF LocalAt
<1>12. answers' \in [Ids -> Nat] /\ AnswerInv' /\ answers' = answers
       BY <1>1, Basics DEF Typed, BusInv, AnswerInv
<1>13. UNCHANGED <<requests, busVars, cstate, lower, failed, late, overlapped>>
       BY <1>1
<1>14. \A g \in new : EntryInv(c, g)'
       BY <1>10
<1> HIDE DEF gone, new
<1> QED BY <1>1, <1>5, <1>6, <1>7, <1>11, <1>12, <1>13, <1>14, CalmStep

\* The completed insert of a fill frees its entry.
LEMMA DrainInv ==
    ASSUME BusInv, NEW c \in Caches, NEW id, Drain(c, id)
    PROVE  BusInv'
<1> DEFINE key == <<"local", id>>
           q == queue[c]
           r == ClearEntry(q, key)
<1>1. /\ At(c, key, "drain") /\ queue' = [queue EXCEPT ![c] = r]
      /\ UNCHANGED <<requests, cstate, busVars, lower, failed, late, answers, overlapped>>
      BY DEF Drain
<1>2. PICK e \in QueueEntry :
      /\ e = EntryOf(q, key)
      /\ e \in ToSet(q) /\ e.key = key /\ e.stage = "drain"
      /\ EntryInv(c, e) /\ key \in Key /\ key # NoKey /\ In(q, key)
      /\ \A d \in ToSet(q) : d.key = key => d = e
      BY <1>1, AtProperties
<1> DEFINE gone == {key}
           new  == {}
<1>5. Passes(q, r, gone, new)
      BY <1>2, Basics, ClearPasses
<1>6. \A i \in Ids : In(r, <<"snoop", i>>) <=> In(q, <<"snoop", i>>)
      BY <1>2, <1>5, Basics, PassesIn
<1> HIDE DEF r
<1>11. \A i \in Ids : <<"local", i>> \in gone => ~LocalAt(c, i, {"asked"})
       BY <1>2 DEF LocalAt
<1>12. answers' \in [Ids -> Nat] /\ AnswerInv' /\ answers' = answers
       BY <1>1, Basics DEF Typed, BusInv, AnswerInv
<1>13. UNCHANGED <<requests, busVars, cstate, lower, failed, late, overlapped>>
       BY <1>1
<1>14. \A g \in new : EntryInv(c, g)' /\ (g.key[1] = "local" \/ In(q, g.key))
       OBVIOUS
<1> HIDE DEF gone, new
<1> QED BY <1>1, <1>5, <1>6, <1>11, <1>12, <1>13, <1>14, CalmStep

\* The request of a local entry belongs to its cache alone.
LEMMA OwnLocal ==
    ASSUME BusInv, NEW x \in Caches, NEW y \in Caches,
           NEW d \in ToSet(queue[x]), NEW e \in ToSet(queue[y]),
           d.key[1] = "local", e.key[1] = "local", d.key[2] = e.key[2]
    PROVE  x = y /\ d = e
<1>1. EntryInv(x, d) /\ EntryInv(y, e) /\ d \in QueueEntry /\ e \in QueueEntry
      BY Basics
<1>2. LocalInv(x, d) /\ LocalInv(y, e)
      BY <1>1 DEF EntryInv
<1>3. x = y
      BY <1>2 DEF LocalInv
<1>4. d.key = e.key
      BY <1>1, EntryFields
<1> QED BY <1>3, <1>4, Basics, OneEntry

\* Entries and messages sent up: a READ or WRITE is answered for the first time.
LEMMA SendUpInv ==
    ASSUME BusInv, NEW c \in Caches, NEW key, SendUp(c, key)
    PROVE  /\ BusInv'
           /\ \/ answers' = answers
              \/ /\ key[2] \in Ids /\ answers[key[2]] = 0
                 /\ key[2] \in 1 .. Len(requests) /\ Expected(requests[key[2]].type)
                 /\ answers' = [answers EXCEPT ![key[2]] = 1]
<1> DEFINE q == queue[c]
<1>1. /\ UNCHANGED <<requests, cstate, busVars, lower, failed, late, overlapped>>
      BY DEF SendUp
<1>2. PICK stage \in {"answer", "fill"} :
         /\ At(c, key, stage)
         /\ queue' = [queue EXCEPT ![c] = IF stage = "answer" THEN ClearEntry(q, key)
                                          ELSE Move(q, key, "drain")]
      BY DEF SendUp
<1> DEFINE r == IF stage = "answer" THEN ClearEntry(q, key) ELSE Move(q, key, "drain")
<1>3. PICK e \in QueueEntry :
      /\ e = EntryOf(q, key)
      /\ e \in ToSet(q) /\ e.key = key /\ e.stage = stage
      /\ EntryInv(c, e) /\ key \in Key /\ key # NoKey /\ In(q, key) /\ key[2] \in Ids
      /\ \A d \in ToSet(q) : d.key = key => d = e
      BY <1>2, AtProperties
<1> DEFINE i == key[2]
           counts == key[1] = "local" /\ Expected(e.type)
<1>4. answers' = IF counts THEN [answers EXCEPT ![i] = @ + 1] ELSE answers
      BY <1>3 DEF SendUp
<1>5. answers \in [Ids -> Nat] /\ AnswerInv /\ i \in 1 .. Len(requests) /\ Len(requests) \in Nat
      BY <1>3, Basics DEF BusInv, Typed, EntryInv
<1>6. key[1] = "local" => /\ LocalInv(c, e) /\ answers[i] = 0 /\ requests[i].type = e.type
                          /\ requests[i].cache = c
      BY <1>3 DEF EntryInv, LocalInv
<1>7. /\ answers' \in [Ids -> Nat] /\ AnswerInv' /\ \A j \in Ids : j # i => answers'[j] = answers[j]
      /\ ~counts => answers' = answers
      /\ counts => answers'[i] = 1 /\ answers' = [answers EXCEPT ![i] = 1]
  <2>1. CASE counts
    <3>1. answers' = [answers EXCEPT ![i] = 1]
      <4>1. answers' = [answers EXCEPT ![i] = answers[i] + 1] /\ answers[i] = 0
            BY <1>4, <1>6, <2>1
      <4>2. answers[i] + 1 = 1
            BY <4>1
      <4> QED BY <4>1, <4>2
    <3>2. answers' \in [Ids -> Nat] /\ answers'[i] = 1 /\ \A j \in Ids : j # i => answers'[j] = answers[j]
          BY <1>3, <1>5, <3>1
    <3>3. AnswerInv'
          BY <1>1, <1>3, <1>5, <3>2 DEF AnswerInv
    <3> QED BY <2>1, <3>1, <3>2, <3>3
  <2>2. CASE ~counts
    <3>1. answers' = answers
          BY <1>4, <2>2
    <3> HIDE DEF counts
    <3> QED BY <1>1, <1>5, <2>2, <3>1 DEF AnswerInv
  <2> QED BY <2>1, <2>2
<1>8. \A x \in Caches : \A d \in ToSet(queue[x]) :
          d.key[1] = "local" /\ ~(x = c /\ d.key = key) => answers'[d.key[2]] = answers[d.key[2]]
  <2> SUFFICES ASSUME NEW x \in Caches, NEW d \in ToSet(queue[x]), d.key[1] = "local",
                      ~(x = c /\ d.key = key)
               PROVE  answers'[d.key[2]] = answers[d.key[2]]
      OBVIOUS
  <2>1. d.key[2] \in Ids
        BY Basics, EntryFields
  <2>2. CASE d.key[2] # i
        BY <1>7, <2>1, <2>2
  <2>3. CASE d.key[2] = i
    <3>1. key[1] # "local"
          BY <1>3, <2>3, OwnLocal
    <3> QED BY <1>7, <3>1
  <2> QED BY <2>2, <2>3
<1>9. \A j \in Ids : <<"local", j>> \in {key} => ~LocalAt(c, j, {"asked"})
      BY <1>3 DEF LocalAt
<1>10. CASE stage = "answer"
  <2> DEFINE gone == {key}
             new  == {}
  <2>1. r = ClearEntry(q, key)
        BY <1>10
  <2>2. Passes(q, r, gone, new)
        BY <1>3, <2>1, Basics, ClearPasses
  <2>3. key[1] # "snoop"
        BY <1>3, <1>10 DEF EntryInv, SnoopInv, LookedUp
  <2>4. \A j \in Ids : In(r, <<"snoop", j>>) <=> In(q, <<"snoop", j>>)
        BY <2>2, <2>3, Basics, PassesIn
  <2>5. \A g \in new : EntryInv(c, g)' /\ (g.key[1] = "local" \/ In(q, g.key))
        OBVIOUS
  <2>6. \A x \in Caches : \A d \in ToSet(queue[x]) :
           d.key[1] = "local" /\ ~(x = c /\ d.key \in gone) => answers'[d.key[2]] = answers[d.key[2]]
        BY <1>8
  <2>7. \A j \in Ids : <<"local", j>> \in gone => ~LocalAt(c, j, {"asked"})
        BY <1>9
  <2> HIDE DEF gone, new, r
  <2>8. queue' = [queue EXCEPT ![c] = r]
        BY <1>2 DEF r
  <2>9. BusInv'
        BY <1>1, <1>7, <2>2, <2>4, <2>5, <2>6, <2>7, <2>8, CalmStep
  <2> QED BY <1>3, <1>5, <1>6, <1>7, <2>9
<1>11. CASE stage = "fill"
  <2> DEFINE gone == {key}
  <2>1. r = Move(q, key, "drain") /\ "drain" \in Stage
        BY <1>11 DEF Stage
  <2>2. PICK f \in QueueEntry :
              /\ f = [e EXCEPT !.stage = "drain"]
              /\ f.key = e.key /\ f.type = e.type /\ f.line = e.line /\ f.stage = "drain"
              /\ f.frame = e.frame /\ f.waitFor = e.waitFor
        BY <1>3, <2>1, Moved
  <2> DEFINE new == {f}
  <2>3. Passes(q, r, gone, new)
        BY <1>3, <2>1, <2>2, Basics, MovePasses
  <2>4. \A x : In(r, x) <=> In(q, x)
    <3>1. q \in Seq(QueueEntry) /\ f.key = key /\ In(q, key) /\ Passes(q, r, {key}, {f})
          BY <1>3, <2>2, <2>3, Basics
    <3> HIDE DEF r, q
    <3> QED BY <3>1, MovedIn
  <2>5. key[1] = "local" /\ Expected(e.type)
    <3>1. key[1] = "local"
          BY <1>3, <1>11 DEF EntryInv, SnoopInv, EvictInv, DownInv, LookedUp, Key, Role
    <3> QED BY <1>3, <1>6, <1>11, <3>1 DEF LocalInv
  <2>6. EntryInv(c, f)'
    <3>1. LocalInv(c, f)'
          BY <1>1, <1>3, <1>6, <1>7, <2>2, <2>5 DEF LocalInv, Unsent
    <3>2. Held(c)' = Held(c) /\ requests' = requests
          BY <1>1 DEF Held
    <3> QED BY <1>3, <1>11, <2>2, <2>5, <3>1, <3>2 DEF EntryInv
  <2>7. \A g \in new : EntryInv(c, g)' /\ (g.key[1] = "local" \/ In(q, g.key))
        BY <1>3, <2>2, <2>6
  <2>8. \A x \in Caches : \A d \in ToSet(queue[x]) :
           d.key[1] = "local" /\ ~(x = c /\ d.key \in gone) => answers'[d.key[2]] = answers[d.key[2]]
        BY <1>8
  <2>9. \A j \in Ids : <<"local", j>> \in gone => ~LocalAt(c, j, {"asked"})
        BY <1>9
  <2> HIDE DEF gone, new, r
  <2>10. queue' = [queue EXCEPT ![c] = r]
        BY <1>2 DEF r
  <2>11. BusInv'
        BY <1>1, <1>7, <2>3, <2>4, <2>7, <2>8, <2>9, <2>10, CalmStep
  <2> QED BY <1>3, <1>5, <1>6, <1>7, <2>11
<1> QED BY <1>10, <1>11

\* Messages are put behind the entries.
LEMMA WithMessages ==
    ASSUME NEW q \in Seq(QueueEntry), NEW r, NEW gone, NEW new, Passes(q, r, gone, new),
           \A e \in new : e.waitFor = NoKey,
           NEW d \in Seq(QueueEntry), UniqueKeys(d), \A e \in ToSet(d) : ~In(r, e.key)
    PROVE  Passes(q, r \o d, gone, new \cup ToSet(d))
<1>1. r \in Seq(QueueEntry) /\ UniqueKeys(r)
      BY DEF Passes
<1>2. \A k \in 1 .. Len(d) : ~In(r, d[k].key)
      BY Elements
<1>3. Passes(r, r \o d, {}, ToSet(d))
      BY <1>1, <1>2, ConcatPasses
<1>4. Passes(q, r \o d, gone \cup {}, {e \in new : e.key \notin {}} \cup ToSet(d))
      BY <1>3, PassesThrough
<1>5. gone \cup {} = gone /\ {e \in new : e.key \notin {}} = new
      OBVIOUS
<1> QED BY <1>4, <1>5

\* An entry makes its messages and is freed.
LEMMA MessagesThenClear ==
    ASSUME NEW q \in Seq(QueueEntry), UniqueKeys(q), NEW key, key # NoKey,
           NEW d \in Seq(QueueEntry), UniqueKeys(d),
           \A e \in ToSet(d) : ~In(q, e.key) /\ e.key # key /\ e.waitFor = NoKey
    PROVE  Passes(q, ClearEntry(q \o d, key), {key}, ToSet(d))
<1>1. Passes(q, q, {}, {})
      BY PassesStay
<1>2. Passes(q, q \o d, {}, {} \cup ToSet(d))
      BY <1>1, WithMessages
<1> DEFINE s == q \o d
           t == ClearEntry(s, key)
           D == ToSet(d)
<1>3. Passes(q, s, {}, D)
  <2>1. {} \cup D = D
        OBVIOUS
  <2> QED BY <1>2, <2>1
<1>4. s \in Seq(QueueEntry) /\ UniqueKeys(s)
      BY <1>3 DEF Passes
<1> HIDE DEF s
<1>5. Passes(s, t, {key}, {})
      BY <1>4, ClearPasses
<1> HIDE DEF t
<1>6. \A e \in D : e.waitFor = NoKey /\ e.key \notin {key}
      OBVIOUS
<1> HIDE DEF D
<1>7. Passes(q, t, {} \cup {key}, {e \in D : e.key \notin {key}} \cup {})
      BY <1>3, <1>5, <1>6, PassesThrough
<1>8. {} \cup {key} = {key} /\ {e \in D : e.key \notin {key}} \cup {} = D
      BY <1>6
<1> QED BY <1>7, <1>8 DEF s, t, D

\* A line that changes its state keeps its frame.
LEMMA HeldSame ==
    ASSUME BusInv, NEW c \in Caches, NEW l \in Held(c), NEW s \in LineState \ {"absent"},
           cstate' = [cstate EXCEPT ![c][l] = s]
    PROVE  cstate' \in [Caches -> [Line -> LineState]] /\ \A x \in Caches : Held(x)' = Held(x)
<1>1. cstate \in [Caches -> [Line -> LineState]] /\ l \in Line /\ cstate[c][l] # "absent"
      BY Basics DEF Typed, Held
<1>2. cstate' \in [Caches -> [Line -> LineState]]
      BY <1>1
<1>3. ASSUME NEW x \in Caches, NEW m \in Line
      PROVE  cstate'[x][m] # "absent" <=> cstate[x][m] # "absent"
      BY <1>1
<1> QED BY <1>2, <1>3 DEF Held

\* A request that is snooped is nowhere else on its way to be heard, and is all
\* that the cache has of it.
LEMMA Snooping ==
    ASSUME BusInv, NEW c \in Caches, NEW i \in Ids, NEW role \in {"snoop", "evict"},
           In(queue[c], <<role, i>>)
    PROVE  /\ \A y \in Caches : \A m \in ToSet(busQueue[y]) : m.id = i => ~Heard(m.type)
           /\ \A e \in ToSet(queue[c]) : e.key[2] = i => e.key = <<role, i>>
           /\ \A y \in Caches : \A e \in ToSet(queue[y]) : e.key[2] = i => ~Public(e)
<1>1. PICK s \in ToSet(queue[c]) : s.key = <<role, i>>
      BY Basics, InSet
<1>2. /\ requests[i].cache # c /\ NoOffspring(c, i) /\ ~Untouched(c, i)
      /\ role = "snoop" => ~In(queue[c], <<"evict", i>>)
      /\ role = "evict" => ~In(queue[c], <<"snoop", i>>)
  <2>1. EntryInv(c, s) /\ s.key[1] = role /\ s.key[2] = i
        BY <1>1, Basics
  <2> QED BY <2>1 DEF EntryInv, SnoopInv, EvictInv, Untouched
<1>3. ASSUME NEW y \in Caches, NEW m \in ToSet(busQueue[y]), m.id = i, Heard(m.type)
      PROVE  FALSE
  <2>1. MessageInv(y, m)
        BY DEF BusInv, BusQueueInv
  <2>2. requests[i].cache = y /\ OthersUntouched(y, i)
        BY <1>3, <2>1 DEF MessageInv
  <2> QED BY <1>2, <2>2 DEF OthersUntouched
<1>4. ASSUME NEW e \in ToSet(queue[c]), e.key[2] = i PROVE e.key = <<role, i>>
  <2>1. EntryInv(c, e) /\ e \in QueueEntry /\ In(queue[c], e.key)
        BY Basics, InSet
  <2>2. e.key = <<e.key[1], i>> /\ e.key[1] \in Role
        BY <1>4, <2>1, EntryFields
  <2>3. e.key[1] # "local"
        BY <1>2, <1>4, <2>1 DEF EntryInv, LocalInv
  <2>4. e.key[1] \notin Offspring
        BY <1>2, <2>1, <2>2 DEF NoOffspring
  <2>5. e.key[1] = role
        BY <1>2, <2>1, <2>2, <2>3, <2>4 DEF Role, Offspring
  <2> QED BY <2>2, <2>5
<1>5. ASSUME NEW y \in Caches, NEW e \in ToSet(queue[y]), e.key[2] = i, Public(e)
      PROVE  FALSE
  <2>1. EntryInv(y, e)
        BY Basics
  <2>2. requests[i].cache = y /\ OthersUntouched(y, i)
        BY <1>5, <2>1 DEF Public, EntryInv, LocalInv, DownInv
  <2> QED BY <1>2, <2>2 DEF OthersUntouched
<1> QED BY <1>3, <1>4, <1>5

\* The messages to the L1 caches tell nothing of anything else.
LEMMA UpMessages ==
    ASSUME NEW c \in Caches, NEW id \in Ids, NEW type \in Type, NEW line \in Line,
           id \in 1 .. Len(requests')
    PROVE  \A f \in ToSet(Up(id, type, line)) :
               EntryInv(c, f)' /\ f.key[1] \in {"up1", "up2"} /\ f.key[2] = id /\ f.waitFor = NoKey
<1> SUFFICES ASSUME NEW f \in ToSet(Up(id, type, line))
             PROVE  EntryInv(c, f)' /\ f.key[1] \in {"up1", "up2"} /\ f.key[2] = id /\ f.waitFor = NoKey
    OBVIOUS
<1>1. /\ f.key = <<"up1", id>> \/ f.key = <<"up2", id>>
      /\ f.stage = "answer" /\ f.frame = NoLine /\ f.waitFor = NoKey
      BY UpProperties
<1>2. f.key[1] \in {"up1", "up2"} /\ f.key[2] = id
      BY <1>1
<1> QED BY <1>1, <1>2 DEF EntryInv

\* The EVICT of another cache invalidates the line.
LEMMA SnoopEvictInv ==
    ASSUME BusInv, NEW c \in Caches, NEW id, SnoopEvict(c, id)
    PROVE  /\ BusInv'
           /\ \E new : /\ Advances(c, {<<"evict", id>>}, new)
                       /\ \A f \in new : f.key[1] \in {"up1", "up2"} /\ f.key[2] = id
<1> DEFINE key == <<"evict", id>>
           q == queue[c]
<1>1. UNCHANGED <<requests, busVars, lower, failed, late, answers, overlapped>>
      BY DEF SnoopEvict
<1>2. q \in Seq(QueueEntry) /\ UniqueKeys(q)
      BY Basics
<1>3. \A i \in Ids : <<"local", i>> \in {key} => ~LocalAt(c, i, {"asked"})
      OBVIOUS
<1>4. answers' \in [Ids -> Nat] /\ AnswerInv' /\ answers' = answers
      BY <1>1, Basics DEF Typed, BusInv, AnswerInv
<1>5. CASE /\ At(c, key, "miss")
           /\ queue' = [queue EXCEPT ![c] = ClearEntry(q, key)]
           /\ cstate' = cstate
  <2> DEFINE r == ClearEntry(q, key)
             gone == {key}
             new  == {}
  <2>1. key # NoKey
        BY <1>5, AtProperties
  <2>2. Passes(q, r, gone, new)
        BY <1>2, <2>1, ClearPasses
  <2>3. \A i \in Ids : In(r, <<"snoop", i>>) <=> In(q, <<"snoop", i>>)
        BY <1>2, <2>2, PassesIn
  <2>4. \A g \in new : EntryInv(c, g)' /\ (g.key[1] = "local" \/ In(q, g.key))
        OBVIOUS
  <2>5. \A i \in Ids : <<"local", i>> \in gone => ~LocalAt(c, i, {"asked"})
        BY <1>3
  <2>6. queue' = [queue EXCEPT ![c] = r] /\ queue'[c] = r
    <3>1. queue' = [queue EXCEPT ![c] = r]
          BY <1>5
    <3> QED BY <2>2, <3>1, OneQueue
  <2>7. Advances(c, gone, new) /\ \A f \in new : f.key[1] \in {"up1", "up2"} /\ f.key[2] = id
        BY <2>2, <2>6 DEF Advances
  <2> HIDE DEF new, r
  <2>8. BusInv'
    <3> HIDE DEF gone
    <3> QED BY <1>1, <1>4, <1>5, <2>2, <2>3, <2>4, <2>5, <2>6, CalmStep
  <2> QED BY <2>7, <2>8
<1>6. CASE /\ At(c, key, "hit")
           /\ cstate' = [cstate EXCEPT ![c][EntryOf(q, key).frame] = "I"]
           /\ queue' = [queue EXCEPT ![c] =
                 ClearEntry(q \o Up(id, "EVICT", EntryOf(q, key).line), key)]
  <2>1. PICK e \in QueueEntry :
          /\ e = EntryOf(q, key)
          /\ e \in ToSet(q) /\ e.key = key /\ e.stage = "hit"
          /\ EntryInv(c, e) /\ key # NoKey /\ In(q, key) /\ id \in Ids
        BY <1>6, AtProperties
  <2> DEFINE d == Up(id, "EVICT", e.line)
             r == ClearEntry(q \o d, key)
             gone == {key}
             new  == ToSet(d)
  <2>2. id \in 1 .. Len(requests') /\ e.frame \in Held(c) /\ e.line \in Line /\ "EVICT" \in Type
        BY <1>1, <2>1, EntryFields DEF EntryInv, Type
  <2>3. d \in Seq(QueueEntry) /\ UniqueKeys(d)
        BY <2>1, <2>2, UpProperties
  <2>4. \A f \in new : /\ EntryInv(c, f)' /\ f.key[1] \in {"up1", "up2"} /\ f.key[2] = id
                       /\ f.waitFor = NoKey
        BY <2>1, <2>2, UpMessages
  <2>5. /\ \A y \in Caches : \A m \in ToSet(busQueue[y]) : m.id = id => ~Heard(m.type)
        /\ \A f \in ToSet(q) : f.key[2] = id => f.key = key
        /\ \A y \in Caches : \A f \in ToSet(queue[y]) : f.key[2] = id => ~Public(f)
        BY <2>1, Snooping
  <2>6. \A f \in new : ~In(q, f.key) /\ f.key # key
    <3> SUFFICES ASSUME NEW f \in new PROVE ~In(q, f.key) /\ f.key # key
        OBVIOUS
    <3>1. f.key # key
          BY <2>4
    <3>2. \A g \in ToSet(q) : g.key # f.key
          BY <2>4, <2>5, <3>1
    <3> QED BY <1>2, <3>1, <3>2, InSet
  <2>7. Passes(q, r, gone, new)
        BY <1>2, <2>1, <2>3, <2>4, <2>6, MessagesThenClear
  <2>8. queue' = [queue EXCEPT ![c] = r] /\ queue'[c] = r
    <3>1. queue' = [queue EXCEPT ![c] = r]
          BY <1>6, <2>1
    <3> QED BY <3>1, <2>7, OneQueue
  <2> HIDE DEF d, r
  <2>9. \A i \in Ids : In(r, <<"snoop", i>>) <=> In(q, <<"snoop", i>>)
    <3> SUFFICES ASSUME NEW i \in Ids PROVE In(r, <<"snoop", i>>) <=> In(q, <<"snoop", i>>)
        OBVIOUS
    <3>1. ~\E f \in new : f.key = <<"snoop", i>>
          BY <2>4
    <3> HIDE DEF new
    <3> QED BY <1>2, <2>7, <3>1, PassesIn
  <2>10. \A i : Fresh(c, i) => i = id
    <3>1. Passes(queue[c], queue'[c], gone, new) /\ queue[c] \in Seq(QueueEntry)
          BY <1>2, <2>7, <2>8
    <3> HIDE DEF gone, new
    <3>2. ASSUME NEW i, Fresh(c, i)
          PROVE  \E f \in new : f.key[2] = i /\ f.key[1] # "local" /\ ~In(queue[c], f.key)
          BY <3>1, <3>2, FreshIsNew
    <3> QED BY <2>4, <3>2
  <2>11. \A i \in Ids : Fresh(c, i) =>
               /\ \A y \in Caches \ {c} : \A m \in ToSet(busQueue[y]) : m.id = i => ~Heard(m.type)
               /\ \A f \in ToSet(queue[c]) : f.key \notin gone /\ f.key[2] = i => ~Private(f)
               /\ \A y \in Caches \ {c} : \A f \in ToSet(queue[y]) : f.key[2] = i => ~Public(f)
         BY <2>5, <2>10
  <2>12. cstate' \in [Caches -> [Line -> LineState]] /\ \A x \in Caches : Held(x)' = Held(x)
    <3>1. "I" \in LineState \ {"absent"} /\ cstate' = [cstate EXCEPT ![c][e.frame] = "I"]
          BY <1>6, <2>1 DEF LineState
    <3> QED BY <2>2, <3>1, HeldSame
  <2>13. \A i \in Ids : <<"local", i>> \in gone => ~LocalAt(c, i, {"asked"})
         BY <1>3
  <2>14. /\ UNCHANGED <<requests, busVars, lower, late>>
         /\ failed' \in BOOLEAN /\ overlapped' \in BOOLEAN
         /\ \A f \in new : EntryInv(c, f)'
         BY <1>1, <2>4, Basics DEF Typed
  <2>15. Advances(c, gone, new) /\ \A f \in new : f.key[1] \in {"up1", "up2"} /\ f.key[2] = id
         BY <2>4, <2>7, <2>8 DEF Advances
  <2> HIDE DEF new
  <2>16. BusInv'
    <3> HIDE DEF gone
    <3> QED BY <1>4, <2>7, <2>8, <2>9, <2>11, <2>12, <2>13, <2>14, CacheOnly
  <2> QED BY <2>15, <2>16
<1> QED BY <1>5, <1>6 DEF SnoopEvict

\* A hit leaves the entry on its way up or down, the line with its writer, and an
\* EVICT behind if it was shared.
HitLeaves(c, id, e, f, dn) ==
    LET old == cstate[c][e.frame] IN
    /\ e.key = <<"local", id>> /\ e.stage = "hit"
    /\ Advances(c, {<<"local", id>>}, {f} \cup dn)
    /\ f.key = e.key /\ f.type = e.type /\ f.line = e.line /\ f.frame = e.frame
    /\ f.stage = "answer" \/ (f.stage = "send" /\ (Expected(f.type) => old = "I"))
    /\ \A g \in dn : /\ g.key = <<"down", id>> /\ g.type = "EVICT"
                     /\ g.line = e.line /\ g.stage = "send"
    /\ e.type = "WRITE" /\ old = "S" => dn # {}
    /\ cstate' = IF e.type = "WRITE" /\ old # "I"
                 THEN [cstate EXCEPT ![c][e.frame] = "M"] ELSE cstate

\* A hit, and the EVICT that follows a WRITE to a shared line.
LEMMA LocalHitInv ==
    ASSUME BusInv, NEW c \in Caches, NEW id, LocalHit(c, id)
    PROVE  /\ BusInv'
           /\ \E e \in ToSet(queue[c]), f \in QueueEntry, dn \in SUBSET QueueEntry :
                 HitLeaves(c, id, e, f, dn)
<1> DEFINE key == <<"local", id>>
           q == queue[c]
<1>1. /\ At(c, key, "hit")
      /\ UNCHANGED <<requests, busVars, lower, failed, late, answers, overlapped>>
      BY DEF LocalHit
<1>2. q \in Seq(QueueEntry) /\ UniqueKeys(q)
      BY Basics
<1>3. PICK e \in QueueEntry :
        /\ e = EntryOf(q, key)
        /\ e \in ToSet(q) /\ e.key = key /\ e.stage = "hit"
        /\ EntryInv(c, e) /\ key # NoKey /\ In(q, key) /\ id \in Ids
        /\ \A f \in ToSet(q) : f.key = key => f = e
      BY <1>1, AtProperties
<1> DEFINE old == cstate[c][e.frame]
<1>4. PICK on \in {"send", "answer"} :
         on = IF \/ e.type = "UPDATE" /\ old # "M"
                 \/ old = "I" THEN "send" ELSE "answer"
      OBVIOUS
<1> DEFINE d == IF e.type = "WRITE" /\ old = "S" THEN Down(id, "EVICT", e.line) ELSE <<>>
           m == Move(q, key, on)
           r == m \o d
<1>5. /\ queue' = [queue EXCEPT ![c] = r]
      /\ cstate' = IF e.type = "WRITE" /\ old # "I"
                   THEN [cstate EXCEPT ![c][e.frame] = "M"] ELSE cstate
      BY <1>3, <1>4 DEF LocalHit
<1>6. /\ id \in 1 .. Len(requests) /\ e.frame \in Held(c) /\ e.line \in Line /\ e.waitFor = NoKey
      /\ requests[id] = [cache |-> c, type |-> e.type, line |-> e.line] /\ answers[id] = 0
      /\ NoOffspring(c, id) /\ ~EvictQueued(c, id) /\ OthersUntouched(c, id)
      BY <1>3, EntryFields DEF EntryInv, LocalInv, Unsent
<1>7. cstate' \in [Caches -> [Line -> LineState]] /\ \A x \in Caches : Held(x)' = Held(x)
  <2>1. CASE e.type = "WRITE" /\ old # "I"
    <3>1. "M" \in LineState \ {"absent"} /\ cstate' = [cstate EXCEPT ![c][e.frame] = "M"]
          BY <1>5, <2>1 DEF LineState
    <3> QED BY <1>6, <3>1, HeldSame
  <2>2. CASE ~(e.type = "WRITE" /\ old # "I")
        BY <1>5, <2>2, Basics DEF Held, Typed
  <2> QED BY <2>1, <2>2
<1>8. on \in Stage
      BY DEF Stage
<1>9. PICK f \in QueueEntry :
              /\ f = [e EXCEPT !.stage = on]
              /\ f.key = e.key /\ f.type = e.type /\ f.line = e.line /\ f.stage = on
              /\ f.frame = e.frame /\ f.waitFor = e.waitFor
      BY <1>3, <1>8, Moved
<1>10. Passes(q, m, {key}, {f})
      BY <1>2, <1>3, <1>8, <1>9, MovePasses
<1>11. \A x : In(m, x) <=> In(q, x)
  <2>1. f.key = key
        BY <1>3, <1>9
  <2> HIDE DEF m, q, key
  <2> QED BY <1>2, <1>3, <1>10, <2>1, MovedIn
<1>12. PICK dn \in SUBSET QueueEntry :
          /\ dn = ToSet(d) /\ d \in Seq(QueueEntry) /\ UniqueKeys(d)
          /\ e.type = "WRITE" /\ old = "S" => dn # {}
          /\ \A g \in dn : /\ e.type = "WRITE" /\ on = "answer"
                           /\ g.key = <<"down", id>> /\ g.type = "EVICT"
                           /\ g.line = e.line /\ g.stage = "send"
                           /\ g.frame = NoLine /\ g.waitFor = NoKey
  <2>1. CASE e.type = "WRITE" /\ old = "S"
    <3>1. "EVICT" \in Type /\ <<"down", id>> \in Key /\ "send" \in Stage /\ on = "answer"
          BY <1>3, <1>4, <2>1 DEF Type, Key, Role, Stage
    <3> DEFINE g == NewEntry(<<"down", id>>, "EVICT", e.line, "send")
    <3>2. /\ g \in QueueEntry /\ d \in Seq(QueueEntry) /\ UniqueKeys(d) /\ ToSet(d) = {g}
          BY <1>3, <1>6, <2>1, <3>1, DownProperties
    <3>3. /\ g.key = <<"down", id>> /\ g.type = "EVICT" /\ g.line = e.line /\ g.stage = "send"
          /\ g.frame = NoLine /\ g.waitFor = NoKey
          BY <1>6, <3>1, NewEntryType
    <3> HIDE DEF g, d
    <3>4. ToSet(d) # {}
          BY <3>2
    <3> QED BY <2>1, <3>1, <3>2, <3>3, <3>4
  <2>2. CASE ~(e.type = "WRITE" /\ old = "S")
    <3>1. d = <<>>
          BY <2>2
    <3> QED BY <2>2, <3>1, EmptyMessages
  <2> QED BY <2>1, <2>2
<1>12a. /\ f.key = <<"local", id>> /\ f.key[1] = "local"
        /\ \A g \in dn : g.key = <<"down", id>> /\ g.key[2] = id
      BY <1>3, <1>9, <1>12
<1> HIDE DEF d, m
<1> DEFINE gone == {key}
           new  == {f} \cup dn
<1>13. Passes(q, r, gone, new)
  <2>1. \A g \in ToSet(d) : ~In(m, g.key)
        BY <1>6, <1>11, <1>12 DEF NoOffspring, Offspring
  <2>2. \A g \in {f} : g.waitFor = NoKey
        BY <1>6, <1>9
  <2> QED BY <1>2, <1>10, <1>12, <2>1, <2>2, WithMessages
<1>14. queue'[c] = r /\ \A x \in Caches \ {c} : \A i : ~Fresh(x, i)
  <2> HIDE DEF gone, new, r
  <2> QED BY <1>5, <1>13, OneQueue
<1> HIDE DEF r
<1>15. \A i : Fresh(c, i) => i = id /\ dn # {}
  <2>1. Passes(queue[c], queue'[c], gone, new) /\ queue[c] \in Seq(QueueEntry)
        BY <1>2, <1>13, <1>14
  <2>2. \A g \in new : g.key[1] # "local" => g.key[2] = id /\ dn # {}
        BY <1>12a
  <2> HIDE DEF gone, new
  <2>3. ASSUME NEW i, Fresh(c, i)
        PROVE  \E g \in new : g.key[2] = i /\ g.key[1] # "local"
        BY <2>1, <2>3, FreshIsNew
  <2> QED BY <2>2, <2>3
<1>16. \A i \in Ids : In(r, <<"snoop", i>>) <=> In(q, <<"snoop", i>>)
  <2> SUFFICES ASSUME NEW i \in Ids PROVE In(r, <<"snoop", i>>) <=> In(q, <<"snoop", i>>)
      OBVIOUS
  <2>1. ~\E g \in new : g.key = <<"snoop", i>>
        BY <1>12a
  <2>2. <<"snoop", i>> \notin gone
        OBVIOUS
  <2> HIDE DEF new, gone
  <2> QED BY <1>2, <1>13, <2>1, <2>2, PassesIn
<1>17. \A i \in Ids : <<"local", i>> \in gone => ~LocalAt(c, i, {"asked"})
      BY <1>3 DEF LocalAt
<1>18. ASSUME NEW i \in Ids, Fresh(c, i)
       PROVE  /\ \A y \in Caches \ {c} : \A x \in ToSet(busQueue[y]) : x.id = i => ~Heard(x.type)
              /\ \A g \in ToSet(queue[c]) : g.key \notin gone /\ g.key[2] = i => ~Private(g)
              /\ \A y \in Caches \ {c} : \A g \in ToSet(queue[y]) : g.key[2] = i => ~Public(g)
  <2>1. i = id
        BY <1>15, <1>18
  <2>2. ASSUME NEW y \in Caches \ {c}, NEW x \in ToSet(busQueue[y]), x.id = i, Heard(x.type)
        PROVE  FALSE
    <3>1. MessageInv(y, x)
          BY DEF BusInv, BusQueueInv
    <3> QED BY <1>6, <2>1, <2>2, <3>1 DEF MessageInv
  <2>3. ASSUME NEW g \in ToSet(queue[c]), g.key \notin gone, g.key[2] = i, Private(g)
        PROVE  FALSE
    <3>1. EntryInv(c, g) /\ g \in QueueEntry /\ In(queue[c], g.key)
          BY Basics, InSet
    <3>2. g.key = <<g.key[1], id>>
          BY <2>1, <2>3, <3>1, EntryFields
    <3>3. g.key[1] # "local"
          BY <2>3, <3>2
    <3>4. g.key[1] # "down"
          BY <1>6, <3>1, <3>2 DEF NoOffspring, Offspring
    <3>5. g.key[1] \notin {"snoop", "evict"}
          BY <1>6, <2>1, <2>3, <3>1 DEF EntryInv
    <3> QED BY <2>3, <3>3, <3>4, <3>5 DEF Private
  <2>4. ASSUME NEW y \in Caches \ {c}, NEW g \in ToSet(queue[y]), g.key[2] = i, Public(g)
        PROVE  FALSE
    <3>1. EntryInv(y, g)
          BY Basics
    <3> QED BY <1>6, <2>1, <2>4, <3>1 DEF Public, EntryInv, LocalInv, DownInv
  <2> QED BY <2>2, <2>3, <2>4
<1>19. requests' = requests /\ answers' = answers /\ busQueue' = busQueue
       BY <1>1 DEF busVars
<1>20. OthersUntouched(c, id)' /\ ~EvictQueued(c, id)'
  <2>1. OthersUntouched(c, id)'
        BY <1>6, <1>14, NotFresh DEF OthersUntouched
  <2> QED BY <1>6, <1>19, <2>1 DEF EvictQueued
<1>21. EntryInv(c, f)'
  <2>1. on = "send" => NoOffspring(c, id)'
    <3>1. on = "send" => ~Fresh(c, id)
          BY <1>12, <1>15
    <3> QED BY <1>6, <3>1, NotFresh
  <2>2. LocalInv(c, f)'
        BY <1>3, <1>6, <1>9, <1>19, <1>20, <2>1 DEF LocalInv, Unsent
  <2>3. f.key[1] = "local" /\ f.key[2] = id
        BY <1>3, <1>9
  <2> QED BY <1>3, <1>6, <1>7, <1>9, <1>19, <2>2, <2>3, Constants DEF EntryInv
<1>22. \A g \in dn : EntryInv(c, g)'
  <2> SUFFICES ASSUME NEW g \in dn PROVE EntryInv(c, g)'
      OBVIOUS
  <2>1. g.key[1] = "down" /\ g.key[2] = id
        BY <1>12
  <2>2. DownInv(c, g)'
        BY <1>6, <1>12, <1>19, <1>20, <2>1 DEF DownInv
  <2> QED BY <1>6, <1>12, <1>19, <2>1, <2>2 DEF EntryInv
<1>23. \A g \in new : EntryInv(c, g)'
       BY <1>21, <1>22
<1>24. /\ UNCHANGED <<requests, busVars, lower, late>>
       /\ failed' \in BOOLEAN /\ overlapped' \in BOOLEAN
       /\ answers' \in [Ids -> Nat] /\ AnswerInv'
       BY <1>1, <1>19, Basics DEF Typed, BusInv, AnswerInv
<1>25. BusInv'
  <2> HIDE DEF gone, new
  <2> QED BY <1>5, <1>7, <1>13, <1>16, <1>17, <1>18, <1>19, <1>23, <1>24, CacheOnly
<1>26. Advances(c, {<<"local", id>>}, {f} \cup dn)
       BY <1>5, <1>13, <1>14 DEF Advances
<1>27. f.stage = "answer" \/ (f.stage = "send" /\ (Expected(f.type) => old = "I"))
       BY <1>4, <1>9 DEF Expected
<1>28. HitLeaves(c, id, e, f, dn)
  <2> HIDE DEF gone, new
  <2> QED BY <1>3, <1>5, <1>9, <1>12, <1>26, <1>27 DEF HitLeaves
<1> QED BY <1>3, <1>25, <1>28

\* Nothing is about a request that was not made.
LEMMA KnownIds ==
    ASSUME BusInv
    PROVE  /\ \A x \in Caches, i \in Ids : \A r : In(queue[x], <<r, i>>) => i \in 1 .. Len(requests)
           /\ \A x \in Caches : \A m \in ToSet(busQueue[x]) : m.id \in 1 .. Len(requests)
<1>1. ASSUME NEW x \in Caches, NEW i \in Ids, NEW r, In(queue[x], <<r, i>>)
      PROVE  i \in 1 .. Len(requests)
  <2>1. PICK e \in ToSet(queue[x]) : e.key = <<r, i>>
        BY <1>1, Basics, InSet
  <2>2. EntryInv(x, e) /\ e.key[2] = i
        BY <2>1, Basics
  <2> QED BY <2>2 DEF EntryInv
<1> QED BY <1>1 DEF BusInv, BusQueueInv, MessageInv

\* A request of an L1 cache is taken in.
LEMMA LocalRequestInv ==
    ASSUME BusInv, NEW msg \in Message, LocalRequest(msg)
    PROVE  BusInv'
<1> DEFINE c == msg.cache
           q == queue[c]
           dep == FindDependency(q, msg.line)
<1>0. PICK n \in Nat : n = Len(requests) + 1
      BY Basics
<1>1. /\ Len(requests) < MaxRequests /\ requests' = Append(requests, msg)
      /\ UNCHANGED <<cstate, busVars, lower, failed, late, answers>>
      /\ overlapped' = (overlapped \/ ~Quiet)
      BY DEF LocalRequest
<1>2. /\ c \in Caches /\ msg.type \in {"READ", "WRITE", "UPDATE"} /\ msg.line \in Line
      /\ msg = [cache |-> c, type |-> msg.type, line |-> msg.line]
      BY CoherentBusAssumption
<1>3. Typed /\ Len(requests) \in Nat /\ q \in Seq(QueueEntry) /\ UniqueKeys(q)
      BY <1>2, Basics
<1>4. /\ requests' \in Seq(Message) /\ Len(requests') = n /\ requests'[n] = msg /\ RequestsKept
      /\ Len(requests') <= MaxRequests /\ n \in Ids
  <2>1. requests \in Seq(Message)
        BY <1>3 DEF Typed
  <2>2. /\ requests' \in Seq(Message) /\ Len(requests') = n /\ requests'[n] = msg
        /\ \A i \in 1 .. Len(requests) : requests'[i] = requests[i]
        BY <1>0, <1>1, <2>1, AppendProperties
  <2> QED BY <1>0, <1>1, <1>3, <2>2, Constants DEF RequestsKept, Ids
<1>5. PICK e \in QueueEntry :
         /\ queue' = [queue EXCEPT ![c] = Append(q, e)]
         /\ e.key = <<"local", n>> /\ e.type = msg.type /\ e.line = msg.line /\ e.frame = NoLine
         /\ e.stage \in {"access", "wait"} /\ (e.waitFor # NoKey <=> e.stage = "wait")
  <2> DEFINE new == NewEntry(<<"local", n>>, msg.type, msg.line,
                             IF dep = NoKey THEN "access" ELSE "wait")
             e == [new EXCEPT !.waitFor = dep]
  <2>1. dep \in Key \cup {NoKey}
        BY <1>3, FindDependencyType
  <2>2. <<"local", n>> \in Key /\ msg.type \in Type /\ {"access", "wait"} \subseteq Stage
        BY <1>2, <1>4 DEF Key, Role, Type, Stage
  <2> HIDE DEF dep
  <2>3. /\ new \in QueueEntry /\ new.key = <<"local", n>> /\ new.type = msg.type
        /\ new.line = msg.line /\ new.frame = NoLine /\ new.waitFor = NoKey
        /\ new.stage = IF dep = NoKey THEN "access" ELSE "wait"
        BY <1>2, <2>2, NewEntryType
  <2> HIDE DEF new
  <2>4. /\ e \in QueueEntry /\ e.key = new.key /\ e.type = new.type /\ e.line = new.line
        /\ e.frame = new.frame /\ e.stage = new.stage /\ e.waitFor = dep
        BY <2>1, <2>3 DEF QueueEntry
  <2>5. queue' = [queue EXCEPT ![c] = Append(q, e)]
        BY <1>0 DEF LocalRequest, new, dep
  <2> HIDE DEF e
  <2> QED BY <2>3, <2>4, <2>5
<1> HIDE DEF dep
<1> DEFINE r == Append(q, e)
           gone == {}
           new == {e}
<1>6. \A x \in Caches : \A role : ~In(queue[x], <<role, n>>)
      BY <1>0, <1>3, <1>4, KnownIds
<1>7. Passes(q, r, gone, new)
      BY <1>2, <1>3, <1>5, <1>6, AppendPasses
<1> HIDE DEF r
<1>8. \A i \in Ids : In(r, <<"snoop", i>>) <=> In(q, <<"snoop", i>>)
      BY <1>3, <1>5, <1>7, PassesIn
<1>9. \A x \in Caches : \A i : ~Fresh(x, i)
  <2>1. \A f \in new : f.key[1] = "local" \/ In(q, f.key)
        BY <1>5
  <2>2. queue' = [queue EXCEPT ![c] = r]
        BY <1>5 DEF r
  <2> HIDE DEF gone, new, c
  <2> QED BY <1>2, <1>7, <2>1, <2>2, NothingFresh
<1>10. \A i \in Ids : Fresh(c, i) =>
               /\ \A y \in Caches \ {c} : \A m \in ToSet(busQueue[y]) : m.id = i => ~Heard(m.type)
               /\ \A f \in ToSet(queue[c]) : f.key \notin gone /\ f.key[2] = i => ~Private(f)
               /\ \A y \in Caches \ {c} : \A f \in ToSet(queue[y]) : f.key[2] = i => ~Public(f)
      BY <1>2, <1>9
<1>11. /\ cstate' \in [Caches -> [Line -> LineState]] /\ cstate' = cstate
       /\ answers' \in [Ids -> Nat] /\ answers' = answers /\ failed' \in BOOLEAN
       /\ overlapped' \in BOOLEAN /\ busQueue' = busQueue
       BY <1>1, <1>3 DEF Typed, busVars
<1>12. \A x \in Caches : Held(x)' = Held(x)
       BY <1>11 DEF Held
<1>13. AnswerInv'
       BY <1>0, <1>3, <1>4, <1>11, Constants DEF BusInv, AnswerInv
<1>14. EntryInv(c, e)'
  <2>1. \A x \in Caches : Untouched(x, n)'
    <3>1. \A x \in Caches : Untouched(x, n)
          BY <1>6 DEF Untouched, NoOffspring
    <3> QED BY <1>9, <3>1, NotFresh
  <2>2. NoOffspring(c, n)' /\ OthersUntouched(c, n)'
        BY <1>2, <2>1 DEF Untouched, OthersUntouched
  <2>3. ~EvictQueued(c, n)'
    <3>1. \A m \in ToSet(busQueue[c]) : m.id # n
          BY <1>0, <1>2, <1>3, KnownIds
    <3> QED BY <1>11, <3>1 DEF EvictQueued
  <2>4. answers'[n] = 0
        BY <1>0, <1>3, <1>4, <1>11, Constants DEF BusInv, AnswerInv
  <2>5. e.key[1] = "local" /\ e.key[2] = n
        BY <1>5
  <2>6. LocalInv(c, e)'
        BY <1>2, <1>4, <1>5, <2>2, <2>3, <2>4, <2>5 DEF LocalInv, Unsent
  <2>7. n \in 1 .. Len(requests')
        BY <1>0, <1>3, <1>4
  <2> QED BY <1>5, <2>5, <2>6, <2>7 DEF EntryInv
<1>15. \A f \in new : EntryInv(c, f)'
       BY <1>14
<1>16. UNCHANGED <<busVars, lower, late>> /\ queue' = [queue EXCEPT ![c] = r]
       BY <1>1, <1>5 DEF r
<1>17. \A i \in Ids : <<"local", i>> \in gone => ~LocalAt(c, i, {"asked"})
       OBVIOUS
<1>18. \A x \in Caches : \A f \in ToSet(queue[x]) :
          f.key[1] = "local" /\ ~(x = c /\ f.key \in gone) => answers'[f.key[2]] = answers[f.key[2]]
       BY <1>11
<1>19. RequestsKept /\ requests' \in Seq(Message) /\ Len(requests') <= MaxRequests /\ c \in Caches
       BY <1>2, <1>4
<1> HIDE DEF gone, new, c, q
<1>20. Passes(queue[c], r, gone, new)
       BY <1>7 DEF q
<1>21. \A i \in Ids : In(r, <<"snoop", i>>) <=> In(queue[c], <<"snoop", i>>)
       BY <1>8 DEF q
<1> QED BY <1>10, <1>11, <1>12, <1>13, <1>15, <1>16, <1>17, <1>18, <1>19, <1>20, <1>21, QueueStep

\* What Append does to a queue of the bus.
LEMMA AppendFacts ==
    ASSUME NEW S, NEW s \in Seq(S), NEW m \in S
    PROVE  /\ Append(s, m) \in Seq(S) /\ Len(Append(s, m)) = Len(s) + 1
           /\ Append(s, m)[Len(s) + 1] = m /\ \A k \in 1 .. Len(s) : Append(s, m)[k] = s[k]
           /\ ToSet(Append(s, m)) = ToSet(s) \cup {m}
           /\ Append(s, m) # <<>>
           /\ s # <<>> => Head(Append(s, m)) = Head(s)
<1> DEFINE t == Append(s, m)
<1>1. /\ t \in Seq(S) /\ Len(t) = Len(s) + 1 /\ t[Len(s) + 1] = m
      /\ \A k \in 1 .. Len(s) : t[k] = s[k]
      BY AppendProperties
<1>2. Len(s) \in Nat /\ DOMAIN s = 1 .. Len(s) /\ DOMAIN t = 1 .. Len(s) + 1
      BY <1>1, Elements
<1> HIDE DEF t
<1>3. ToSet(t) = ToSet(s) \cup {m}
  <2>1. \A k \in 1 .. Len(s) + 1 : k = Len(s) + 1 \/ k \in 1 .. Len(s)
        BY <1>2
  <2>2. Len(s) + 1 \in 1 .. Len(s) + 1 /\ \A k \in 1 .. Len(s) : k \in 1 .. Len(s) + 1
        BY <1>2
  <2> QED BY <1>1, <1>2, <2>1, <2>2 DEF ToSet
<1>4. t # <<>>
      BY <1>1, <1>2
<1>5. ASSUME s # <<>> PROVE Head(t) = Head(s)
  <2>1. Len(s) # 0
        BY <1>5, EmptySeq
  <2>2. 1 \in 1 .. Len(s)
        BY <1>2, <2>1
  <2>3. Head(t) = t[1] /\ Head(s) = s[1]
        BY <1>1, <1>4, <1>5, HeadTailProperties
  <2> QED BY <1>1, <2>2, <2>3
<1> QED BY <1>1, <1>3, <1>4, <1>5 DEF t

\* A request that a cache has still to send down is in no queue of the bus.
LEMMA SendDownFacts ==
    ASSUME BusInv, NEW c \in Caches, NEW e \in ToSet(queue[c]), e.stage = "send"
    PROVE  LET i == e.key[2] IN
           /\ e.key[1] \in {"local", "down"} /\ i \in Ids /\ i \in 1 .. Len(requests)
           /\ e.type = "EVICT" => e.key[1] = "down" /\ ~EvictQueued(c, i) /\ requests[i].cache = c
           /\ Expected(e.type) => /\ e.key[1] = "local" /\ e.type = requests[i].type
                                  /\ ~EvictQueued(c, i) /\ ~LocalAt(c, i, {"asked"})
           /\ Heard(e.type) => /\ requests[i].cache = c /\ e.line = requests[i].line
                               /\ OthersUntouched(c, i)
                               /\ \A m \in ToSet(busQueue[c]) : m.id = i => ~Heard(m.type)
           /\ e.type = "EVICT" => \A g \in ToSet(queue[c]) :
                                      g.key[2] = i /\ g.key # e.key => ~Private(g)
<1> DEFINE i == e.key[2]
<1>1. e \in QueueEntry /\ EntryInv(c, e) /\ i \in Ids /\ e.key[1] \in Role /\ e.type \in Type
      /\ e.key = <<e.key[1], i>>
      BY Basics, EntryFields
<1>2. e.key[1] \in {"local", "down"} /\ i \in 1 .. Len(requests)
      BY <1>1 DEF EntryInv, SnoopInv, EvictInv, LookedUp, Role
<1>3. requests[i].type \in {"READ", "WRITE", "UPDATE"}
  <2>1. requests[i] \in Message
        BY <1>2, Basics, ElementOfSeq DEF Typed
  <2> QED BY <2>1, CoherentBusAssumption
<1>4. ASSUME e.key[1] = "local"
      PROVE  /\ e.type = requests[i].type /\ e.line = requests[i].line /\ requests[i].cache = c
             /\ NoOffspring(c, i) /\ ~EvictQueued(c, i) /\ OthersUntouched(c, i)
             /\ ~LocalAt(c, i, {"asked"})
  <2>1. LocalInv(c, e)
        BY <1>1, <1>4 DEF EntryInv
  <2>2. ~LocalAt(c, i, {"asked"})
        BY <1>1, <1>4, Basics, OneEntry DEF LocalAt
  <2> QED BY <2>1, <2>2 DEF LocalInv, Unsent
<1>5. ASSUME e.key[1] = "down"
      PROVE  /\ e.type \in {"UPDATE", "EVICT"} /\ In(queue[c], <<"down", i>>)
             /\ e.type = "EVICT" => /\ requests[i].cache = c /\ e.line = requests[i].line
                                    /\ ~EvictQueued(c, i) /\ OthersUntouched(c, i)
             /\ ~LocalAt(c, i, {"asked"})
  <2>1. DownInv(c, e)
        BY <1>1, <1>5 DEF EntryInv
  <2>2. In(queue[c], <<"down", i>>)
        BY <1>1, <1>5, Basics, InSet
  <2>3. ~LocalAt(c, i, {"asked"})
    <3> SUFFICES ASSUME NEW g \in ToSet(queue[c]), g.key = <<"local", i>>, g.stage = "asked"
                 PROVE  FALSE
        BY DEF LocalAt
    <3>1. EntryInv(c, g) /\ g.key[1] = "local" /\ g.key[2] = i
          BY Basics
    <3>2. NoOffspring(c, i)
          BY <3>1 DEF EntryInv, LocalInv
    <3> QED BY <2>2, <3>2 DEF NoOffspring, Offspring
  <2> QED BY <2>1, <2>2, <2>3 DEF DownInv
<1>6. e.type = "EVICT" => e.key[1] = "down"
      BY <1>2, <1>3, <1>4
<1>7. Expected(e.type) => e.key[1] = "local"
      BY <1>2, <1>5 DEF Expected
<1>8. Heard(e.type) /\ e.key[1] = "down" => e.type = "EVICT"
      BY <1>5 DEF Heard
<1>9. ASSUME Heard(e.type), NEW m \in ToSet(busQueue[c]), m.id = i, Heard(m.type)
      PROVE  FALSE
  <2>1. MessageInv(c, m) /\ m.type \in Type
    <3>1. m \in BusMessage
          BY Basics, Elements DEF Typed
    <3> QED BY <3>1 DEF BusInv, BusQueueInv, BusMessage
  <2>2. ~EvictQueued(c, i) /\ ~LocalAt(c, i, {"asked"})
        BY <1>2, <1>4, <1>5, <1>8, <1>9
  <2>3. m.type # "EVICT"
        BY <1>9, <2>2 DEF EvictQueued
  <2>4. ~Expected(m.type)
        BY <1>9, <2>1, <2>2 DEF MessageInv
  <2> QED BY <1>9, <2>1, <2>3, <2>4 DEF Heard, Expected, Type
<1>10. ASSUME e.type = "EVICT", NEW g \in ToSet(queue[c]), g.key[2] = i, g.key # e.key, Private(g)
       PROVE  FALSE
  <2>1. EntryInv(c, g) /\ g \in QueueEntry
        BY Basics
  <2>2. g.key = <<g.key[1], i>>
        BY <1>10, <2>1, EntryFields
  <2>3. In(queue[c], <<"down", i>>) /\ requests[i].cache = c
        BY <1>5, <1>6, <1>10
  <2>4. g.key[1] \notin {"snoop", "evict"}
        BY <1>10, <2>1, <2>3 DEF EntryInv
  <2>5. ~(g.key[1] = "local" /\ g.stage \in Unsent \cup {"asked"})
        BY <1>10, <2>1, <2>3 DEF EntryInv, LocalInv, NoOffspring, Offspring
  <2>6. g.key[1] # "down"
        BY <1>1, <1>6, <1>10, <2>2
  <2> QED BY <1>10, <2>4, <2>5, <2>6 DEF Private
<1> HIDE DEF i
<1>11. /\ e.type = "EVICT" => e.key[1] = "down" /\ ~EvictQueued(c, i) /\ requests[i].cache = c
       /\ Expected(e.type) => /\ e.key[1] = "local" /\ e.type = requests[i].type
                              /\ ~EvictQueued(c, i) /\ ~LocalAt(c, i, {"asked"})
       /\ Heard(e.type) => /\ requests[i].cache = c /\ e.line = requests[i].line
                           /\ OthersUntouched(c, i)
       BY <1>2, <1>4, <1>5, <1>6, <1>7, <1>8
<1> QED BY <1>1, <1>2, <1>9, <1>10, <1>11 DEF i

\* A message leaves for the bus, and its entry waits or is freed.
LEMMA SendDownInv ==
    ASSUME BusInv, NEW c \in Caches, NEW key, SendDown(c, key)
    PROVE  BusInv'
<1> DEFINE q == queue[c]
<1>1. /\ At(c, key, "send") /\ Len(busQueue[c]) < BusQueueSize
      /\ UNCHANGED <<requests, cstate, last, pending, dataBusBusy, dataEvents,
                     lower, failed, late, answers, overlapped>>
      /\ address' = IF address.event = "idle"
                    THEN [address EXCEPT !.event = "poll"] ELSE address
      BY DEF SendDown
<1>2. q \in Seq(QueueEntry) /\ UniqueKeys(q)
      BY Basics
<1>3. PICK e \in QueueEntry :
        /\ e = EntryOf(q, key)
        /\ e \in ToSet(q) /\ e.key = key /\ e.stage = "send"
        /\ EntryInv(c, e) /\ key # NoKey /\ In(q, key) /\ key[2] \in Ids /\ key = <<key[1], key[2]>>
        /\ \A f \in ToSet(q) : f.key = key => f = e
      BY <1>1, AtProperties
<1> DEFINE i == key[2]
<1>4. /\ key[1] \in {"local", "down"} /\ i \in 1 .. Len(requests)
      /\ e.type = "EVICT" => key[1] = "down" /\ ~EvictQueued(c, i) /\ requests[i].cache = c
      /\ Expected(e.type) => /\ key[1] = "local" /\ e.type = requests[i].type
                             /\ ~EvictQueued(c, i) /\ ~LocalAt(c, i, {"asked"})
      /\ Heard(e.type) => /\ requests[i].cache = c /\ e.line = requests[i].line
                          /\ OthersUntouched(c, i)
                          /\ \A x \in ToSet(busQueue[c]) : x.id = i => ~Heard(x.type)
      /\ e.type = "EVICT" => \A g \in ToSet(queue[c]) :
                                 g.key[2] = i /\ g.key # key => ~Private(g)
      BY <1>3, SendDownFacts
<1>5. PICK m \in BusMessage :
         /\ m = [id |-> i, type |-> e.type, line |-> e.line]
         /\ m.id = i /\ m.type = e.type /\ m.line = e.line
  <2> DEFINE m == [id |-> i, type |-> e.type, line |-> e.line]
  <2>1. m \in BusMessage /\ m.id = i /\ m.type = e.type /\ m.line = e.line
        BY <1>3, EntryFields DEF BusMessage
  <2> QED BY <2>1
<1> DEFINE r == IF Expected(e.type) THEN Move(q, key, "asked") ELSE ClearEntry(q, key)
           b == busQueue[c]
<1>6. /\ queue' = [queue EXCEPT ![c] = r]
      /\ busQueue' = [busQueue EXCEPT ![c] = Append(b, m)]
      BY <1>3, <1>5 DEF SendDown
<1>7. Typed /\ b \in Seq(BusMessage) /\ Len(requests) \in Nat /\ Len(b) \in Nat
      BY Basics, LenProperties DEF Typed
<1>8. /\ Append(b, m) \in Seq(BusMessage) /\ Len(Append(b, m)) = Len(b) + 1
      /\ Append(b, m)[Len(b) + 1] = m /\ \A k \in 1 .. Len(b) : Append(b, m)[k] = b[k]
      /\ ToSet(Append(b, m)) = ToSet(b) \cup {m} /\ Append(b, m) # <<>>
      /\ b # <<>> => Head(Append(b, m)) = Head(b)
      BY <1>7, AppendFacts
<1> DEFINE t == Append(b, m)
<1>8a. /\ t \in Seq(BusMessage) /\ Len(t) = Len(b) + 1
       /\ t[Len(b) + 1] = m /\ \A k \in 1 .. Len(b) : t[k] = b[k]
       /\ ToSet(t) = ToSet(b) \cup {m} /\ t # <<>> /\ (b # <<>> => Head(t) = Head(b))
      BY <1>8
<1> HIDE DEF t
<1>9. /\ busQueue' \in [Caches -> Seq(BusMessage)] /\ busQueue'[c] = t
      /\ \A x \in Caches \ {c} : busQueue'[x] = busQueue[x]
      BY <1>6, <1>7, <1>8 DEF Typed, t
<1>10. PICK new \in SUBSET QueueEntry :
          /\ Passes(q, r, {key}, new)
          /\ Expected(e.type) => \E f \in new : f.key = key /\ f.stage = "asked"
          /\ \A f \in new : /\ Expected(e.type)
                            /\ f.key = key /\ f.type = e.type /\ f.line = e.line /\ f.stage = "asked"
                            /\ f.frame = e.frame /\ f.waitFor = e.waitFor
  <2>1. CASE Expected(e.type)
    <3>1. "asked" \in Stage /\ r = Move(q, key, "asked")
          BY <2>1 DEF Stage
    <3>2. PICK f \in QueueEntry :
              /\ f = [e EXCEPT !.stage = "asked"]
              /\ f.key = e.key /\ f.type = e.type /\ f.line = e.line /\ f.stage = "asked"
              /\ f.frame = e.frame /\ f.waitFor = e.waitFor
          BY <1>3, <3>1, Moved
    <3>3. Passes(q, r, {key}, {f})
          BY <1>2, <1>3, <3>1, <3>2, MovePasses
    <3> HIDE DEF r, q
    <3> DEFINE new == {f}
    <3>4. /\ new \in SUBSET QueueEntry /\ Passes(q, r, {key}, new)
          /\ f \in new /\ f.key = key /\ \A g \in new : g = f
          BY <1>3, <3>2, <3>3
    <3> HIDE DEF new
    <3> QED BY <2>1, <3>2, <3>4
  <2>2. CASE ~Expected(e.type)
    <3>1. r = ClearEntry(q, key)
          BY <2>2
    <3>2. Passes(q, r, {key}, {})
          BY <1>2, <1>3, <3>1, ClearPasses
    <3> HIDE DEF r, q
    <3> QED BY <2>2, <3>2
  <2> QED BY <2>1, <2>2
<1> HIDE DEF r
<1> DEFINE gone == {key}
           G == [y \in Caches |-> IF y = c THEN gone ELSE {}]
           N == [y \in Caches |-> IF y = c THEN new ELSE {}]
<1>11. /\ queue' \in [Caches -> Seq(QueueEntry)] /\ queue'[c] = r
       /\ \A x \in Caches \ {c} : queue'[x] = queue[x]
       /\ \A x \in Caches : Passes(queue[x], queue'[x], G[x], N[x])
  <2> HIDE DEF gone
  <2> QED BY <1>6, <1>10, OneQueue DEF gone
<1>12. \A x \in Caches : \A j : ~Fresh(x, j)
  <2>1. \A f \in new : f.key[1] = "local" \/ In(q, f.key)
        BY <1>3, <1>10
  <2> QED BY <1>6, <1>10, <2>1, NothingFresh
<1>13. G[c] = {key} /\ N[c] = new /\ \A x \in Caches \ {c} : G[x] = {} /\ N[x] = {}
       OBVIOUS
<1> HIDE DEF G, N
<1>14. RequestsKept /\ requests' = requests /\ answers' = answers /\ pending' = pending
       /\ Held(c)' = Held(c) /\ \A x \in Caches : Held(x)' = Held(x)
       BY <1>1, <1>7 DEF RequestsKept, Held
<1>15. \A x \in Caches : \A j :
           EvictQueued(x, j)' => EvictQueued(x, j) \/ (x = c /\ j = i /\ e.type = "EVICT")
  <2> SUFFICES ASSUME NEW x \in Caches, NEW j, EvictQueued(x, j)', ~EvictQueued(x, j)
               PROVE  x = c /\ j = i /\ e.type = "EVICT"
      OBVIOUS
  <2>1. PICK y \in ToSet(busQueue'[x]) : y.id = j /\ y.type = "EVICT"
        BY DEF EvictQueued
  <2>2. x = c
        BY <1>9, <2>1 DEF EvictQueued
  <2>3. y = m
        BY <1>8a, <1>9, <2>1, <2>2 DEF EvictQueued
  <2> QED BY <1>5, <2>1, <2>2, <2>3
<1>16. ASSUME NEW x \in Caches, NEW g \in ToSet(queue[x]), g.key \notin G[x]
       PROVE  Undisturbed(x, g)
  <2>1. Private(g) => (EvictQueued(x, g.key[2])' => EvictQueued(x, g.key[2]))
        BY <1>4, <1>13, <1>15, <1>16
  <2> QED BY <1>12, <1>14, <2>1 DEF Undisturbed
<1>17. \A f \in new : EntryInv(c, f)'
  <2> SUFFICES ASSUME NEW f \in new PROVE EntryInv(c, f)'
      OBVIOUS
  <2>1. /\ Expected(e.type) /\ f.key = key /\ f.key[1] = "local" /\ f.type = e.type
        /\ f.line = e.line /\ f.stage = "asked" /\ f.frame = e.frame /\ f.waitFor = e.waitFor
        BY <1>4, <1>10
  <2>2. LocalInv(c, e) /\ e.waitFor = NoKey
        BY <1>3, <2>1 DEF EntryInv
  <2>3. NoOffspring(c, i)' /\ ~EvictQueued(c, i)'
    <3>1. NoOffspring(c, i)
          BY <1>3, <2>2 DEF LocalInv, Unsent
    <3>2. e.type # "EVICT"
          BY <2>1 DEF Expected
    <3> QED BY <1>4, <1>12, <1>15, <2>1, <3>1, <3>2, NotFresh
  <2>4. LocalInv(c, f)'
        BY <1>3, <1>14, <2>1, <2>2, <2>3 DEF LocalInv, Unsent
  <2> QED BY <1>3, <1>4, <1>14, <2>1, <2>2, <2>4 DEF EntryInv
<1>18. QueueInv'
  <2>1. \A x \in Caches : \A f \in N[x] : EntryInv(x, f)'
        BY <1>13, <1>17
  <2>2. \A x \in Caches : Held(x) \subseteq Held(x)'
        BY <1>14
  <2> QED BY <1>11, <1>14, <1>16, <2>1, <2>2, QueueKept
<1>19. \A x \in Caches, j \in Ids : LocalAt(x, j, {"asked"}) => LocalAt(x, j, {"asked"})'
  <2> SUFFICES ASSUME NEW x \in Caches, NEW j \in Ids, LocalAt(x, j, {"asked"})
               PROVE  LocalAt(x, j, {"asked"})'
      OBVIOUS
  <2>1. <<"local", j>> \notin G[x]
        BY <1>3, <1>13 DEF LocalAt
  <2> QED BY <1>11, <2>1, LocalStays
<1>20. ASSUME NEW x \in Caches, NEW y \in ToSet(busQueue[x])
       PROVE  MessageInv(x, y)'
  <2>1. MessageInv(x, y) /\ y.id \in Ids
    <3>1. y \in BusMessage
          BY <1>7, Elements DEF Typed
    <3> QED BY <3>1 DEF BusInv, BusQueueInv, BusMessage
  <2>2. Expected(y.type) => /\ LocalAt(x, y.id, {"asked"})'
                            /\ \A p \in ToSet(pending') : p.id # y.id
        BY <1>14, <1>19, <2>1 DEF MessageInv
  <2> QED BY <1>12, <1>14, <2>2, MessageKept
<1>21. MessageInv(c, m)'
  <2>1. Heard(m.type) => OthersUntouched(c, i)'
        BY <1>4, <1>5, <1>12, NotFresh DEF OthersUntouched
  <2>2. ASSUME Expected(m.type)
        PROVE  LocalAt(c, i, {"asked"})' /\ \A p \in ToSet(pending) : p.id # i
    <3>1. PICK f \in new : f.key = key /\ f.stage = "asked"
          BY <1>5, <1>10, <2>2
    <3>2. f \in ToSet(queue'[c])
          BY <1>10, <1>11 DEF Passes
    <3>3. LocalAt(c, i, {"asked"})'
          BY <1>3, <1>4, <1>5, <2>2, <3>1, <3>2 DEF LocalAt
    <3>4. Heard(m.type)
          BY <2>2 DEF Expected, Heard
    <3>5. ~LocalAt(c, i, {"asked"}) /\ requests[i].cache = c
          BY <1>4, <1>5, <2>2, <3>4
    <3>6. \A p \in ToSet(pending) : p.id # i
          BY <3>5 DEF BusInv, PendingInv
    <3> QED BY <3>3, <3>6
  <2> QED BY <1>4, <1>5, <1>14, <2>1, <2>2 DEF MessageInv
<1>22. BusQueueInv'
  <2>1. ASSUME NEW x \in Caches, NEW y \in ToSet(busQueue'[x]) PROVE MessageInv(x, y)'
    <3>1. y \in ToSet(busQueue[x]) \/ (x = c /\ y = m)
          BY <1>8a, <1>9
    <3> QED BY <1>20, <1>21, <3>1
  <2>2. ASSUME NEW x \in Caches, NEW j \in DOMAIN busQueue'[x], NEW k \in DOMAIN busQueue'[x],
               busQueue'[x][j].id = busQueue'[x][k].id,
               Heard(busQueue'[x][j].type), Heard(busQueue'[x][k].type)
        PROVE  j = k
    <3>1. CASE x # c
          BY <1>9, <2>2, <3>1 DEF BusInv, BusQueueInv
    <3>2. CASE x = c
      <4>1. /\ DOMAIN t = 1 .. Len(b) + 1 /\ DOMAIN b = 1 .. Len(b) /\ busQueue'[x] = t
            /\ t[Len(b) + 1] = m /\ \A n \in 1 .. Len(b) : t[n] = b[n]
            BY <1>7, <1>8, <1>9, <3>2, Elements DEF t
      <4>2. \A n \in 1 .. Len(b) : b[n].id = i /\ Heard(m.type) => ~Heard(b[n].type)
            BY <1>4, <1>5, <1>7, Elements
      <4>3. CASE j \in 1 .. Len(b) /\ k \in 1 .. Len(b)
            BY <2>2, <3>2, <4>1, <4>3 DEF BusInv, BusQueueInv
      <4>4. CASE j = Len(b) + 1 /\ k \in 1 .. Len(b)
            BY <1>5, <2>2, <4>1, <4>2, <4>4
      <4>5. CASE k = Len(b) + 1 /\ j \in 1 .. Len(b)
            BY <1>5, <2>2, <4>1, <4>2, <4>5
      <4>6. CASE k = Len(b) + 1 /\ j = Len(b) + 1
            BY <4>6
      <4>7. \A n \in 1 .. Len(b) + 1 : n \in 1 .. Len(b) \/ n = Len(b) + 1
            BY <1>7
      <4> QED BY <2>2, <4>1, <4>3, <4>4, <4>5, <4>6, <4>7
    <3> QED BY <3>1, <3>2
  <2> QED BY <2>1, <2>2 DEF BusQueueInv
<1>23. PendingInv'
  <2>1. \A p \in ToSet(pending) : p.id \in Ids /\ p.cache \in Caches
        BY PendingTypes
  <2> QED BY <1>14, <1>19, <2>1 DEF BusInv, PendingInv
<1>24. /\ address' \in [event : {"idle", "poll", "broadcast", "completed"}, cache : Caches]
       /\ address'.cache = address.cache
       /\ address'.event \in {"broadcast", "completed"} => address'.event = address.event
       BY <1>1, <1>7 DEF Typed
<1>25. AddressInv'
  <2>1. AddressInv /\ address.cache \in Caches
        BY <1>7 DEF BusInv, Typed
  <2>2. busQueue[address.cache] # <<>> => /\ busQueue'[address.cache] # <<>>
                                          /\ Head(busQueue'[address.cache]) = Head(busQueue[address.cache])
    <3>1. CASE address.cache = c
          BY <1>8a, <1>9, <3>1
    <3>2. CASE address.cache # c
          BY <1>9, <2>1, <3>2
    <3> QED BY <3>1, <3>2
  <2>3. CASE address'.event \in {"broadcast", "completed"}
    <3>1. address.event = address'.event /\ address'.cache = address.cache
          BY <1>24, <2>3
    <3>2. busQueue[address.cache] # <<>>
          BY <2>1, <2>3, <3>1 DEF AddressInv
    <3>3. /\ busQueue'[address'.cache] # <<>>
          /\ Head(busQueue'[address'.cache]) = Head(busQueue[address.cache])
          BY <2>2, <3>1, <3>2
    <3>4. address'.event = "completed" /\ Heard(Head(busQueue'[address'.cache]).type)
              => Len(pending') < BusPendingSize
          BY <1>14, <2>1, <3>1, <3>3 DEF AddressInv
    <3> QED BY <3>3, <3>4 DEF AddressInv
  <2>4. CASE address'.event \notin {"broadcast", "completed"}
        BY <2>4 DEF AddressInv
  <2> QED BY <2>3, <2>4
<1>26. /\ Len(pending') <= BusPendingSize
       /\ \A x \in Caches : Len(busQueue'[x]) <= BusQueueSize /\ Cardinality(Held(x)') <= Ways
  <2>1. Len(t) <= BusQueueSize
        BY <1>1, <1>7, <1>8, Constants DEF t
  <2> QED BY <1>9, <1>14, <2>1 DEF BusInv
<1>27. Typed'
       BY <1>1, <1>7, <1>9, <1>11, <1>24 DEF Typed
<1>28. DataBusNeverSleeps'
       BY <1>1 DEF BusInv, DataBusNeverSleeps
<1>29. AnswersAreAwaited'
  <2>1. \A j \in Ids : In(r, <<"snoop", j>>) <=> In(q, <<"snoop", j>>)
    <3> SUFFICES ASSUME NEW j \in Ids PROVE In(r, <<"snoop", j>>) <=> In(q, <<"snoop", j>>)
        OBVIOUS
    <3>1. <<"snoop", j>> \notin {key} /\ ~\E f \in new : f.key = <<"snoop", j>>
          BY <1>4, <1>10
    <3> QED BY <1>2, <1>10, <3>1, PassesIn
  <2>2. \A x \in Caches, j \in Ids : In(queue'[x], <<"snoop", j>>) <=> In(queue[x], <<"snoop", j>>)
        BY <1>11, <2>1
  <2>3. \A x \in Controllers : x # Lower => x \in Caches
        BY Constants
  <2> QED BY <1>1, <2>2, <2>3 DEF BusInv, AnswersAreAwaited
<1>30. AnswerInv'
       BY <1>14 DEF BusInv, AnswerInv
<1> QED BY <1>18, <1>22, <1>23, <1>25, <1>26, <1>27, <1>28, <1>29, <1>30 DEF BusInv

(***************************************************************************)
(* The address phase                                                       *)
(***************************************************************************)
LEMMA SameQueues ==
    ASSUME BusInv, UNCHANGED <<requests, queue, cstate, answers, busQueue, pending, lower, late>>
    PROVE  /\ QueueInv' /\ BusQueueInv' /\ PendingInv' /\ AnswerInv' /\ AnswersAreAwaited'
           /\ Len(pending') <= BusPendingSize
           /\ \A x \in Caches : Len(busQueue'[x]) <= BusQueueSize /\ Cardinality(Held(x)') <= Ways
<1>1. \A x : \A i : ~Fresh(x, i)
      BY DEF Fresh
<1>2. RequestsKept /\ \A x \in Caches : Held(x)' = Held(x)
      BY Basics DEF RequestsKept, Held
<1> DEFINE G == [y \in Caches |-> {}]
<1>3. \A x \in Caches : Passes(queue[x], queue'[x], G[x], G[x])
      BY Basics, PassesStay
<1>4. \A x \in Caches : \A e \in ToSet(queue[x]) : Undisturbed(x, e)
      BY <1>1 DEF Undisturbed, EvictQueued
<1>5. \A x \in Caches : \A f \in G[x] : EntryInv(x, f)'
      OBVIOUS
<1> HIDE DEF G
<1>6. QueueInv'
      BY <1>2, <1>3, <1>4, <1>5, QueueKept
<1>7. \A x \in Caches : \A i : LocalAt(x, i, {"asked"}) => LocalAt(x, i, {"asked"})'
      BY DEF LocalAt
<1>8. ASSUME NEW x \in Caches, NEW m \in ToSet(busQueue[x]) PROVE MessageInv(x, m)'
  <2>1. MessageInv(x, m)
        BY DEF BusInv, BusQueueInv
  <2>2. Expected(m.type) => /\ LocalAt(x, m.id, {"asked"})'
                            /\ \A p \in ToSet(pending') : p.id # m.id
        BY <1>7, <2>1 DEF MessageInv
  <2> QED BY <1>1, <1>2, <2>2, MessageKept
<1>9. BusQueueInv'
      BY <1>8 DEF BusInv, BusQueueInv
<1>10. PendingInv'
      BY <1>7, PendingTypes DEF BusInv, PendingInv
<1> QED BY <1>2, <1>6, <1>9, <1>10 DEF BusInv, AnswerInv, AnswersAreAwaited

\* Arbitration grants the bus to a cache with a message.
LEMMA GrantedReady ==
    ASSUME NEW q, NEW c \in Granted(q)
    PROVE  c \in Caches /\ q[c] # <<>>
BY DEF Granted

\* Arbitration keeps the invariant.
LEMMA BusPollInv ==
    ASSUME BusInv, BusPoll
    PROVE  BusInv'
<1>1. /\ UNCHANGED <<requests, queue, cstate, busQueue, pending, dataBusBusy,
                     dataEvents, lower, failed, late, answers, overlapped>>
      BY DEF BusPoll
<1>2. PICK c \in Granted(busQueue) : address' = [event |-> "broadcast", cache |-> c] /\ last' = c
      BY DEF BusPoll, Arbitrate
<1>3. c \in Caches /\ busQueue[c] # <<>>
      BY <1>2, GrantedReady
<1>4. AddressInv'
      BY <1>1, <1>2, <1>3 DEF AddressInv
<1>5. Typed'
  <2>1. Typed /\ c \in Controllers
        BY <1>3, Basics, Constants
  <2>2. address' \in [event : {"idle", "poll", "broadcast", "completed"}, cache : Caches]
        BY <1>2, <1>3
  <2> QED BY <1>1, <1>2, <2>1, <2>2 DEF Typed
<1>6. DataBusNeverSleeps'
      BY <1>1 DEF BusInv, DataBusNeverSleeps
<1> QED BY <1>1, <1>4, <1>5, <1>6, SameQueues DEF BusInv

\* The start of a broadcast keeps the invariant.
LEMMA BusBroadcastInv ==
    ASSUME BusInv, BusBroadcast
    PROVE  BusInv'
<1>1. /\ UNCHANGED <<requests, queue, cstate, busQueue, last, pending, dataBusBusy,
                     dataEvents, lower, failed, late, answers, overlapped>>
      /\ address.event = "broadcast"
      BY DEF BusBroadcast
<1> DEFINE c == address.cache
           msg == Head(busQueue[c])
           blocked == \/ Len(pending) >= BusPendingSize /\ msg.type # "UPDATE"
                      \/ ~CanBroadcast(c)
<1>2. address' = [address EXCEPT !.event = IF blocked THEN "poll" ELSE "completed"]
      BY DEF BusBroadcast
<1>3. Typed /\ Len(pending) \in Nat /\ BusPendingSize \in Nat
      BY Basics, LenProperties, Constants DEF Typed
<1>4. /\ address' \in [event : {"idle", "poll", "broadcast", "completed"}, cache : Caches]
      /\ address'.cache = c /\ (address'.event = "completed" => ~blocked)
      /\ address'.event \in {"poll", "completed"}
      BY <1>2, <1>3 DEF Typed
<1>5. AddressInv'
  <2>1. busQueue'[address'.cache] # <<>>
        BY <1>1, <1>4 DEF BusInv, AddressInv
  <2>2. address'.event = "completed" /\ Heard(Head(busQueue'[address'.cache]).type)
            => Len(pending') < BusPendingSize
        BY <1>1, <1>3, <1>4 DEF Heard
  <2> QED BY <2>1, <2>2 DEF AddressInv
<1>6. Typed'
      BY <1>1, <1>3, <1>4 DEF Typed
<1>7. DataBusNeverSleeps'
      BY <1>1 DEF BusInv, DataBusNeverSleeps
<1> QED BY <1>1, <1>5, <1>6, <1>7, SameQueues DEF BusInv

\* What Head and Tail make of a queue of the bus.
LEMMA TailFacts ==
    ASSUME NEW S, NEW s \in Seq(S), s # <<>>
    PROVE  /\ Head(s) \in ToSet(s) /\ Head(s) \in S /\ Tail(s) \in Seq(S)
           /\ Head(s) = s[1] /\ 1 \in 1 .. Len(s)
           /\ Len(Tail(s)) = Len(s) - 1 /\ Len(s) \in Nat /\ Len(Tail(s)) \in Nat
           /\ DOMAIN Tail(s) = 1 .. Len(s) - 1
           /\ \A k \in 1 .. Len(s) - 1 : k + 1 \in 1 .. Len(s) /\ k + 1 # 1 /\ Tail(s)[k] = s[k + 1]
           /\ ToSet(Tail(s)) \subseteq ToSet(s)
           /\ \A e \in ToSet(s) : e = Head(s) \/ e \in ToSet(Tail(s))
<1> DEFINE t == Tail(s)
<1>1. /\ Head(s) = s[1] /\ t \in Seq(S) /\ Len(t) = Len(s) - 1
      /\ \A k \in 1 .. Len(t) : t[k] = s[k + 1]
      BY HeadTailProperties
<1>2. Len(s) \in Nat /\ Len(s) # 0 /\ DOMAIN s = 1 .. Len(s) /\ Len(t) \in Nat /\ DOMAIN t = 1 .. Len(t)
      BY <1>1, Elements, EmptySeq
<1> HIDE DEF t
<1>3. 1 \in 1 .. Len(s) /\ \A k \in 1 .. Len(s) - 1 : k + 1 \in 1 .. Len(s) /\ k + 1 # 1
      BY <1>2
<1>4. s[1] \in S /\ s[1] \in ToSet(s)
      BY <1>3, Elements
<1>5. ASSUME NEW e \in ToSet(t) PROVE e \in ToSet(s)
  <2>1. PICK k \in 1 .. Len(t) : e = t[k]
        BY <1>1, Elements
  <2>2. e = s[k + 1] /\ k + 1 \in 1 .. Len(s)
        BY <1>1, <1>3, <2>1
  <2> QED BY <2>2, Elements
<1>6. ASSUME NEW e \in ToSet(s), e # Head(s) PROVE e \in ToSet(t)
  <2>1. PICK k \in 1 .. Len(s) : e = s[k]
        BY Elements
  <2>2. k # 1
        BY <1>1, <1>6, <2>1
  <2>3. k - 1 \in 1 .. Len(t) /\ (k - 1) + 1 = k
        BY <1>1, <1>2, <2>2
  <2>4. t[k - 1] = s[k]
        BY <1>1, <2>3
  <2> QED BY <1>1, <2>1, <2>3, <2>4, Elements
<1> QED BY <1>1, <1>2, <1>3, <1>4, <1>5, <1>6 DEF t

\* A request in hand is heard of by nobody else, and not waited for.
LEMMA InHand ==
    ASSUME BusInv, NEW c \in Caches, NEW m \in ToSet(busQueue[c]), Heard(m.type)
    PROVE  /\ m.id \in Ids /\ m.id \in 1 .. Len(requests)
           /\ requests[m.id].cache = c /\ m.line = requests[m.id].line
           /\ \A x \in Caches \ {c} : /\ Untouched(x, m.id)
                                      /\ \A e \in ToSet(queue[x]) : e.key[2] # m.id
           /\ \A e \in ToSet(queue[c]) : e.key[2] = m.id => ~Public(e)
           /\ ~In(queue[c], <<"snoop", m.id>>)
           /\ m.type # "EVICT" => /\ Expected(m.type) /\ m.type = requests[m.id].type
                                  /\ LocalAt(c, m.id, {"asked"})
                                  /\ \A p \in ToSet(pending) : p.id # m.id
<1> DEFINE i == m.id
<1>1. MessageInv(c, m) /\ m \in BusMessage /\ i \in Ids /\ m.type \in Type
  <2>1. m \in BusMessage
        BY Basics, Elements DEF Typed
  <2> QED BY <2>1 DEF BusInv, BusQueueInv, BusMessage
<1>2. /\ i \in 1 .. Len(requests) /\ requests[i].cache = c /\ m.line = requests[i].line
      /\ OthersUntouched(c, i)
      BY <1>1 DEF MessageInv
<1>3. m.type # "EVICT" => /\ Expected(m.type) /\ m.type = requests[i].type
                          /\ LocalAt(c, i, {"asked"}) /\ \A p \in ToSet(pending) : p.id # i
      BY <1>1 DEF MessageInv, Expected, Heard, Type
<1>4. ASSUME NEW x \in Caches \ {c}, NEW e \in ToSet(queue[x]), e.key[2] = i PROVE FALSE
  <2>1. EntryInv(x, e) /\ e \in QueueEntry /\ In(queue[x], e.key)
        BY Basics, InSet
  <2>2. e.key = <<e.key[1], i>> /\ e.key[1] \in Role
        BY <1>4, <2>1, EntryFields
  <2>3. e.key[1] # "local"
        BY <1>2, <1>4, <2>1 DEF EntryInv, LocalInv
  <2>4. Untouched(x, i)
        BY <1>2 DEF OthersUntouched
  <2> QED BY <2>1, <2>2, <2>3, <2>4 DEF Untouched, NoOffspring, Offspring, Role
<1>5. ASSUME NEW e \in ToSet(queue[c]), e.key[2] = i, Public(e) PROVE FALSE
  <2>1. EntryInv(c, e) /\ e \in QueueEntry
        BY Basics
  <2>1a. In(queue[c], e.key) /\ e.key = <<e.key[1], i>>
        BY <1>5, <2>1, Basics, InSet, EntryFields
  <2>2. ~EvictQueued(c, i)
        BY <1>5, <2>1 DEF Public, EntryInv, LocalInv, DownInv
  <2>3. m.type # "EVICT"
        BY <2>2 DEF EvictQueued
  <2>4. PICK a \in ToSet(queue[c]) : a.key = <<"local", i>> /\ a.stage = "asked"
        BY <1>3, <2>3 DEF LocalAt
  <2>5. CASE e.key[1] = "local"
    <3>1. e = a
          BY <2>1a, <2>4, <2>5, Basics, OneEntry
    <3> QED BY <1>5, <2>4, <2>5, <3>1 DEF Public, Unsent
  <2>6. CASE e.key[1] = "down"
    <3>1. EntryInv(c, a) /\ a.key[1] = "local" /\ a.key[2] = i
          BY <2>4, Basics
    <3>2. NoOffspring(c, i)
          BY <2>4, <3>1 DEF EntryInv, LocalInv
    <3> QED BY <2>1a, <2>6, <3>2 DEF NoOffspring, Offspring
  <2> QED BY <1>5, <2>5, <2>6 DEF Public
<1>6. ~In(queue[c], <<"snoop", i>>)
  <2> SUFFICES ASSUME NEW e \in ToSet(queue[c]), e.key = <<"snoop", i>> PROVE FALSE
      BY Basics, InSet
  <2>1. EntryInv(c, e) /\ e.key[1] = "snoop" /\ e.key[2] = i
        BY Basics
  <2> QED BY <1>2, <2>1 DEF EntryInv
<1>7. \A x \in Caches \ {c} : Untouched(x, i)
      BY <1>2 DEF OthersUntouched
<1> QED BY <1>1, <1>2, <1>3, <1>4, <1>5, <1>6, <1>7

\* The broadcast of the request m of cache c is over: every other cache that
\* hears of it has a snoop.
BroadcastOver(c, m, snoop, gone, new) ==
    /\ m \in ToSet(busQueue[c]) /\ Changed(gone, new)
    /\ \A x \in Caches : /\ gone[x] = {}
                         /\ new[x] = IF x # c /\ Heard(m.type) THEN {snoop} ELSE {}
    /\ snoop.key = <<IF m.type = "EVICT" THEN "evict" ELSE "snoop", m.id>>
    /\ snoop.type = m.type /\ snoop.line = m.line /\ snoop.stage = "access"
    /\ \A x \in Caches : ToSet(busQueue'[x]) \subseteq ToSet(busQueue[x])
    /\ \A x \in Caches : \A y \in ToSet(busQueue[x]) :
           y \in ToSet(busQueue'[x]) \/ (x = c /\ y = m)
    /\ \A p \in ToSet(pending') :
           p \in ToSet(pending) \/ (p.id = m.id /\ p.cache = c /\ p.got = {c})

\* The end of a broadcast: every other cache gets its snoop, and the bus waits
\* for the answers.
LEMMA BusCompletedInv ==
    ASSUME BusInv, BusCompleted
    PROVE  /\ BusInv'
           /\ \/ UNCHANGED <<queue, busQueue, pending>>
              \/ \E c \in Caches : \E m, snoop, gone, new : BroadcastOver(c, m, snoop, gone, new)
<1>1. /\ UNCHANGED <<requests, cstate, dataBusBusy, dataEvents, late, answers, overlapped>>
      /\ address.event = "completed"
      BY DEF BusCompleted
<1>2. Typed /\ Len(pending) \in Nat /\ BusPendingSize \in Nat /\ AddressInv /\ Len(requests) \in Nat
      BY Basics, LenProperties, Constants DEF Typed, BusInv
<1>3. PICK c \in Caches : c = address.cache
      BY <1>2 DEF Typed
<1> DEFINE b == busQueue[c]
<1>4. b \in Seq(BusMessage) /\ b # <<>>
      BY <1>1, <1>2, <1>3 DEF Typed, AddressInv
<1>5. PICK m \in BusMessage : m = Head(b) /\ m \in ToSet(b) /\ m = b[1]
      BY <1>4, TailFacts
<1> DEFINE i == m.id
           rest == [busQueue EXCEPT ![c] = Tail(b)]
<1>6. CASE ~CanBroadcast(c)
  <2>1. /\ address' = [address EXCEPT !.event = "poll"]
        /\ UNCHANGED <<queue, busQueue, last, pending, lower, failed>>
        BY <1>3, <1>6 DEF BusCompleted
  <2>2. /\ address' \in [event : {"idle", "poll", "broadcast", "completed"}, cache : Caches]
        /\ address'.event = "poll"
        BY <1>2, <2>1 DEF Typed
  <2>3. AddressInv'
        BY <2>2 DEF AddressInv
  <2>4. Typed'
        BY <1>1, <1>2, <2>1, <2>2 DEF Typed
  <2>5. DataBusNeverSleeps'
        BY <1>1, <2>1 DEF BusInv, DataBusNeverSleeps
  <2>6. BusInv'
        BY <1>1, <2>1, <2>3, <2>4, <2>5, SameQueues DEF BusInv
  <2> QED BY <2>1, <2>6
<1>7. CASE CanBroadcast(c)
  <2>1. /\ busQueue' = rest /\ Arbitrate(rest) /\ Broadcast(c, m)
        /\ IF Expected(m.type)
           THEN /\ failed' = (Len(pending) >= BusPendingSize)
                /\ pending' = Append(pending,
                      [id |-> i, type |-> m.type, cache |-> c,
                       got |-> {c}, with |-> 0, shared |-> FALSE])
           ELSE UNCHANGED <<failed, pending>>
        BY <1>3, <1>5, <1>7 DEF BusCompleted
  <2>2. /\ busQueue' \in [Caches -> Seq(BusMessage)] /\ busQueue'[c] = Tail(b)
        /\ \A x \in Caches \ {c} : busQueue'[x] = busQueue[x]
        /\ \A x \in Caches : ToSet(busQueue'[x]) \subseteq ToSet(busQueue[x])
        /\ \A x \in Caches : Len(busQueue'[x]) <= BusQueueSize
        /\ \A y \in ToSet(b) : y \in ToSet(Tail(b)) \/ y = m
    <3>1. Tail(b) \in Seq(BusMessage) /\ ToSet(Tail(b)) \subseteq ToSet(b)
          /\ Len(Tail(b)) = Len(b) - 1 /\ Len(b) \in Nat
          /\ \A y \in ToSet(b) : y \in ToSet(Tail(b)) \/ y = m
          BY <1>4, <1>5, TailFacts
    <3>2. /\ busQueue' \in [Caches -> Seq(BusMessage)] /\ busQueue'[c] = Tail(b)
          /\ \A x \in Caches \ {c} : busQueue'[x] = busQueue[x]
          BY <1>2, <2>1, <3>1 DEF Typed
    <3>3. Len(Tail(b)) <= BusQueueSize /\ \A x \in Caches : Len(busQueue[x]) <= BusQueueSize
          BY <3>1, Constants DEF BusInv
    <3> QED BY <3>1, <3>2, <3>3
  <2>3. \A x \in Caches : \A y \in ToSet(busQueue'[x]) : Heard(m.type) /\ Heard(y.type) => y.id # i
    <3> SUFFICES ASSUME NEW x \in Caches, NEW y \in ToSet(busQueue'[x]),
                        Heard(m.type), Heard(y.type), y.id = i
                 PROVE  FALSE
        OBVIOUS
    <3>1. y \in ToSet(busQueue[x])
          BY <2>2
    <3>2. requests[i].cache = x /\ requests[i].cache = c
      <4>1. requests[y.id].cache = x
            BY <3>1, InHand
      <4>2. requests[m.id].cache = c
            BY <1>5, InHand
      <4> QED BY <4>1, <4>2
    <3>3. y \in ToSet(Tail(b))
          BY <2>2, <3>2
    <3>4. PICK k \in 1 .. Len(b) - 1 : y = Tail(b)[k]
      <4> DEFINE t == Tail(b)
      <4>1. t \in Seq(BusMessage) /\ Len(t) = Len(b) - 1 /\ y \in ToSet(t)
            BY <1>4, <3>3, TailFacts
      <4> HIDE DEF t
      <4>2. PICK k \in 1 .. Len(t) : y = t[k]
            BY <4>1, Elements
      <4>3. k \in 1 .. Len(b) - 1
            BY <4>1, <4>2
      <4> QED BY <4>2, <4>3 DEF t
    <3>5. y = b[k + 1] /\ k + 1 \in 1 .. Len(b) /\ k + 1 # 1 /\ 1 \in 1 .. Len(b)
          BY <1>4, <3>4, TailFacts
    <3>6. DOMAIN b = 1 .. Len(b)
          BY <1>4, Elements
    <3> QED BY <1>5, <3>5, <3>6 DEF BusInv, BusQueueInv
  <2>4. PICK snoop \in QueueEntry :
          /\ queue' = [x \in Caches |-> IF x = c \/ m.type = "UPDATE" THEN queue[x]
                                         ELSE Append(queue[x], snoop)]
          /\ snoop.key = <<IF m.type = "EVICT" THEN "evict" ELSE "snoop", i>>
          /\ snoop.type = m.type /\ snoop.line = m.line /\ snoop.stage = "access"
          /\ snoop.frame = NoLine /\ snoop.waitFor = NoKey
    <3> DEFINE key == <<IF m.type = "EVICT" THEN "evict" ELSE "snoop", i>>
               s == NewEntry(key, m.type, m.line, "access")
    <3>1. key \in Key /\ "access" \in Stage /\ m.type \in Type /\ m.line \in Line
          BY DEF BusMessage, Key, Role, Stage
    <3>2. /\ s \in QueueEntry /\ s.key = key /\ s.type = m.type /\ s.line = m.line
          /\ s.stage = "access" /\ s.frame = NoLine /\ s.waitFor = NoKey
          BY <3>1, NewEntryType
    <3>3. queue' = [x \in Caches |-> IF x = c \/ m.type = "UPDATE" THEN queue[x]
                                      ELSE Append(queue[x], s)]
          BY <2>1 DEF Broadcast
    <3> HIDE DEF s
    <3> QED BY <3>2, <3>3
  <2>5. ASSUME Heard(m.type)
        PROVE  /\ i \in Ids /\ i \in 1 .. Len(requests)
               /\ requests[i].cache = c /\ m.line = requests[i].line
               /\ \A x \in Caches \ {c} : /\ Untouched(x, i)
                                          /\ \A e \in ToSet(queue[x]) : e.key[2] # i
               /\ \A e \in ToSet(queue[c]) : e.key[2] = i => ~Public(e)
               /\ ~In(queue[c], <<"snoop", i>>)
               /\ m.type # "EVICT" => /\ Expected(m.type) /\ m.type = requests[i].type
                                      /\ LocalAt(c, i, {"asked"})
                                      /\ \A p \in ToSet(pending) : p.id # i
        BY <1>5, <2>5, InHand
  <2> DEFINE heard(x) == x # c /\ Heard(m.type)
             N == [x \in Caches |-> IF heard(x) THEN {snoop} ELSE {}]
             G == [x \in Caches |-> {}]
  <2>6. snoop.key[2] = i /\ snoop.key[1] \in {"snoop", "evict"}
        /\ (snoop.key[1] = "snoop" <=> m.type # "EVICT")
        BY <2>4
  <2>7. \A x \in Caches : Passes(queue[x], queue'[x], G[x], N[x])
    <3> SUFFICES ASSUME NEW x \in Caches PROVE Passes(queue[x], queue'[x], G[x], N[x])
        OBVIOUS
    <3>1. CASE heard(x)
      <4>1. queue'[x] = Append(queue[x], snoop) /\ N[x] = {snoop} /\ G[x] = {}
            BY <2>4, <3>1 DEF Heard
      <4>2. ~In(queue[x], snoop.key)
            BY <2>5, <2>6, <3>1, Basics, InSet
      <4> QED BY <4>1, <4>2, Basics, AppendPasses
    <3>2. CASE ~heard(x)
      <4>1. queue'[x] = queue[x] /\ N[x] = {} /\ G[x] = {}
            BY <2>4, <3>2 DEF Heard
      <4> QED BY <4>1, Basics, PassesStay
    <3> QED BY <3>1, <3>2
  <2>8. \A x \in Caches : G[x] = {} /\ (~heard(x) => N[x] = {}) /\ (heard(x) => N[x] = {snoop})
        OBVIOUS
  <2> HIDE DEF N, G
  <2>9. \A x \in Caches : \A j : Fresh(x, j) => j = i /\ heard(x)
    <3> SUFFICES ASSUME NEW x \in Caches, NEW j, Fresh(x, j) PROVE j = i /\ heard(x)
        OBVIOUS
    <3>1. PICK f \in N[x] : f.key[2] = j /\ f.key[1] # "local" /\ ~In(queue[x], f.key)
          BY <2>7, Basics, FreshIsNew
    <3> QED BY <2>6, <2>8, <3>1
  <2>10. \A x \in Caches : \A j : EvictQueued(x, j)' => EvictQueued(x, j)
         BY <2>2 DEF EvictQueued
  <2>11. /\ requests' = requests /\ answers' = answers /\ RequestsKept
         /\ \A x \in Caches : Held(x)' = Held(x)
         BY <1>1, <1>2 DEF RequestsKept, Held
  <2>12. ASSUME NEW x \in Caches, NEW e \in ToSet(queue[x])
         PROVE  Undisturbed(x, e)
    <3>1. ~Fresh(x, e.key[2])
          BY <2>5, <2>9
    <3>2. Public(e) => \A y \in Caches \ {x} : ~Fresh(y, e.key[2])
      <4> SUFFICES ASSUME Public(e), NEW y \in Caches \ {x}, Fresh(y, e.key[2]) PROVE FALSE
          OBVIOUS
      <4>1. e.key[2] = i /\ Heard(m.type)
            BY <2>9
      <4>2. x = c
            BY <2>5, <4>1
      <4> QED BY <2>5, <4>1, <4>2
    <3> QED BY <2>10, <2>11, <3>1, <3>2 DEF Undisturbed
  <2>13. ASSUME NEW x \in Caches, heard(x)
         PROVE  EntryInv(x, snoop)'
    <3>1. Untouched(x, i) /\ requests[i].cache # x
          BY <2>5, <2>13
    <3>2. \A key : In(queue'[x], key) => key = snoop.key \/ In(queue[x], key)
      <4> SUFFICES ASSUME NEW key, In(queue'[x], key), key # snoop.key PROVE In(queue[x], key)
          OBVIOUS
      <4>1. ~\E e \in N[x] : e.key = key
            BY <2>8, <2>13
      <4> QED BY <2>7, <4>1, Basics, PassesIn
    <3>3. NoOffspring(x, i)'
          BY <2>6, <3>1, <3>2 DEF NoOffspring, Untouched, Offspring
    <3>4. CASE m.type # "EVICT"
      <4>1. ~In(queue'[x], <<"evict", i>>)
            BY <2>6, <3>1, <3>2, <3>4 DEF Untouched
      <4>2. SnoopInv(x, snoop)'
            BY <2>4, <2>5, <2>6, <2>11, <2>13, <3>3, <3>4, <4>1 DEF SnoopInv, LookedUp
      <4> QED BY <2>4, <2>5, <2>6, <2>11, <2>13, <3>1, <3>4, <4>2 DEF EntryInv
    <3>5. CASE m.type = "EVICT"
      <4>1. ~In(queue'[x], <<"snoop", i>>)
            BY <2>6, <3>1, <3>2, <3>5 DEF Untouched
      <4>2. EvictInv(x, snoop)'
            BY <2>4, <2>5, <2>6, <2>11, <2>13, <3>3, <3>5, <4>1 DEF EvictInv, LookedUp
      <4> QED BY <2>4, <2>5, <2>6, <2>11, <2>13, <3>1, <3>5, <4>2 DEF EntryInv
    <3> QED BY <3>4, <3>5
  <2>14. QueueInv'
    <3>1. \A x \in Caches : \A f \in N[x] : EntryInv(x, f)'
          BY <2>8, <2>13
    <3>2. \A x \in Caches : Held(x) \subseteq Held(x)'
          BY <2>11
    <3> QED BY <2>7, <2>11, <2>12, <3>1, <3>2, QueueKept
  <2>15. \A x \in Caches, j \in Ids : LocalAt(x, j, {"asked"}) => LocalAt(x, j, {"asked"})'
    <3> SUFFICES ASSUME NEW x \in Caches, NEW j \in Ids, LocalAt(x, j, {"asked"})
                 PROVE  LocalAt(x, j, {"asked"})'
        OBVIOUS
    <3>1. <<"local", j>> \notin G[x]
          BY <2>8
    <3> QED BY <2>7, <3>1, LocalStays
  <2>16. PICK p \in PendingRequest :
           /\ p = [id |-> i, type |-> m.type, cache |-> c, got |-> {c}, with |-> 0, shared |-> FALSE]
           /\ p.id = i /\ p.type = m.type /\ p.cache = c /\ p.got = {c} /\ p.shared = FALSE
    <3> DEFINE p == [id |-> i, type |-> m.type, cache |-> c, got |-> {c}, with |-> 0, shared |-> FALSE]
    <3>1. p \in PendingRequest
          BY Constants DEF PendingRequest, BusMessage
    <3> QED BY <3>1
  <2>17. pending \in Seq(PendingRequest)
         BY PendingTypes
  <2> DEFINE Rest == /\ AnswersAreAwaited' /\ PendingInv' /\ DataBusNeverSleeps'
                     /\ Len(pending') <= BusPendingSize /\ pending' \in Seq(PendingRequest)
                     /\ lower' \subseteq Ids /\ failed' \in BOOLEAN
                     /\ \A a \in ToSet(pending') : a \in ToSet(pending) \/ (a = p /\ Heard(m.type))
  <2>18. ASSUME ~Expected(m.type) PROVE Rest
    <3>1. UNCHANGED <<failed, pending>>
          BY <2>1, <2>18
    <3>2. lower' = lower
          BY <2>1, <2>18 DEF Broadcast
    <3>3. \A x \in Caches, j \in Ids : In(queue'[x], <<"snoop", j>>) <=> In(queue[x], <<"snoop", j>>)
      <4> SUFFICES ASSUME NEW x \in Caches, NEW j \in Ids
                   PROVE  In(queue'[x], <<"snoop", j>>) <=> In(queue[x], <<"snoop", j>>)
          OBVIOUS
      <4>1. m.type # "EVICT" => ~Heard(m.type)
            BY <2>18, <2>5
      <4>2. \A e \in N[x] : e.key # <<"snoop", j>>
            BY <2>6, <2>8, <4>1
      <4> QED BY <2>7, <2>8, <4>2, Basics, PassesIn
    <3>4. AnswersAreAwaited'
      <4>1. \A x \in Controllers : x # Lower => x \in Caches
            BY Constants
      <4> QED BY <1>1, <3>1, <3>2, <3>3, <4>1 DEF BusInv, AnswersAreAwaited
    <3>5. PendingInv' /\ DataBusNeverSleeps' /\ Len(pending') <= BusPendingSize
      <4>1. PendingInv'
            BY <2>11, <2>15, <3>1, PendingTypes DEF BusInv, PendingInv
      <4> QED BY <1>1, <3>1, <4>1 DEF BusInv, DataBusNeverSleeps
    <3> QED BY <1>2, <2>17, <3>1, <3>2, <3>4, <3>5 DEF Typed
  <2>19. ASSUME Expected(m.type) PROVE Rest
    <3> DEFINE n == Len(pending) + 1
    <3>1. Heard(m.type) /\ m.type # "EVICT" /\ m.type # "UPDATE"
          BY <2>19 DEF Expected, Heard
    <3>2. /\ i \in Ids /\ i \in 1 .. Len(requests) /\ requests[i].cache = c
          /\ ~In(queue[c], <<"snoop", i>>) /\ m.type = requests[i].type
          /\ LocalAt(c, i, {"asked"}) /\ \A a \in ToSet(pending) : a.id # i
          BY <2>5, <3>1
    <3>3. pending' = Append(pending, p) /\ failed' \in BOOLEAN
          BY <2>1, <2>16, <2>19
    <3>4. /\ pending' \in Seq(PendingRequest) /\ Len(pending') = n /\ pending'[n] = p
          /\ \A k \in 1 .. Len(pending) : pending'[k] = pending[k]
          /\ ToSet(pending') = ToSet(pending) \cup {p}
          BY <2>17, <3>3, AppendFacts
    <3>5. /\ DOMAIN pending' = 1 .. n /\ DOMAIN pending = 1 .. Len(pending)
          /\ \A k \in 1 .. n : k = n \/ k \in 1 .. Len(pending)
          /\ n \in 1 .. n /\ \A k \in 1 .. Len(pending) : k \in 1 .. n
          BY <1>2, <2>17, <3>4, Elements
    <3>6. \A k \in 1 .. Len(pending) : pending[k].id # i
          BY <2>17, <3>2, Elements
    <3>7. PendingInv'
      <4>1. ASSUME NEW j \in 1 .. n, NEW k \in 1 .. n, pending'[j].id = pending'[k].id
            PROVE  j = k
        <5>1. CASE j = n /\ k = n
              BY <5>1
        <5>2. CASE j \in 1 .. Len(pending) /\ k \in 1 .. Len(pending)
              BY <3>4, <3>5, <4>1, <5>2 DEF BusInv, PendingInv
        <5>3. CASE j = n /\ k \in 1 .. Len(pending)
              BY <2>16, <3>4, <3>6, <4>1, <5>3
        <5>4. CASE k = n /\ j \in 1 .. Len(pending)
              BY <2>16, <3>4, <3>6, <4>1, <5>4
        <5> QED BY <3>5, <5>1, <5>2, <5>3, <5>4
      <4>2. ASSUME NEW a \in ToSet(pending)
            PROVE  /\ a.id \in 1 .. Len(requests')
                   /\ a.cache = requests'[a.id].cache /\ a.type = requests'[a.id].type
                   /\ LocalAt(a.cache, a.id, {"asked"})'
                   /\ a.cache \in a.got /\ (a.shared => a.type = "READ")
            BY <2>11, <2>15, PendingTypes DEF BusInv, PendingInv
      <4>3. /\ p.id \in 1 .. Len(requests')
            /\ p.cache = requests'[p.id].cache /\ p.type = requests'[p.id].type
            /\ LocalAt(p.cache, p.id, {"asked"})'
            /\ p.cache \in p.got /\ (p.shared => p.type = "READ")
        <5>1. LocalAt(c, i, {"asked"})'
              BY <2>15, <3>2
        <5> QED BY <2>11, <2>16, <3>2, <5>1
      <4>4. \A a \in ToSet(pending') : a \in ToSet(pending) \/ a = p
            BY <3>4
      <4> QED BY <3>5, <4>1, <4>2, <4>3, <4>4 DEF PendingInv
    <3>8. ~AllAnswered(p)
          BY <2>16, Constants DEF AllAnswered
    <3>9. DataBusNeverSleeps'
      <4>1. /\ Cardinality(dataEvents) = IF dataBusBusy THEN 1 ELSE 0
            /\ \A k \in 1 .. Len(pending) : AllAnswered(pending[k]) => dataBusBusy
            /\ \A ev \in dataEvents : \E k \in 1 .. Len(pending) :
                   pending[k].id = ev[2] /\ AllAnswered(pending[k])
            BY <3>5 DEF BusInv, DataBusNeverSleeps
      <4>2. \A k \in 1 .. n : AllAnswered(pending'[k]) => dataBusBusy
            BY <3>4, <3>5, <3>8, <4>1
      <4>3. \A ev \in dataEvents : \E k \in 1 .. n :
                   pending'[k].id = ev[2] /\ AllAnswered(pending'[k])
            BY <3>4, <3>5, <4>1
      <4> QED BY <1>1, <3>5, <4>1, <4>2, <4>3 DEF DataBusNeverSleeps, AllAnswered
    <3>10. lower' = lower \cup {i}
           BY <2>1, <2>19 DEF Broadcast
    <3>11. AnswersAreAwaited'
      <4> DEFINE Waits(x, j) == \E k \in DOMAIN pending : pending[k].id = j /\ x \notin pending[k].got
                 WaitsN(x, j) == \E k \in DOMAIN pending' : pending'[k].id = j /\ x \notin pending'[k].got
      <4>1. \A x \in Controllers, j \in Ids : j # i => (WaitsN(x, j) <=> Waits(x, j))
            BY <2>16, <3>4, <3>5
      <4>2. \A x \in Controllers : WaitsN(x, i) <=> x # c
            BY <2>16, <3>4, <3>5, <3>6
      <4>3. \A x \in Caches, j \in Ids :
               In(queue'[x], <<"snoop", j>>) <=> (In(queue[x], <<"snoop", j>>) \/ (j = i /\ x # c))
        <5> SUFFICES ASSUME NEW x \in Caches, NEW j \in Ids
                     PROVE  In(queue'[x], <<"snoop", j>>) <=> (In(queue[x], <<"snoop", j>>) \/ (j = i /\ x # c))
            OBVIOUS
        <5>1. In(queue'[x], <<"snoop", j>>) <=>
                 (\/ \E e \in N[x] : e.key = <<"snoop", j>>
                  \/ In(queue[x], <<"snoop", j>>) /\ <<"snoop", j>> \notin G[x])
              BY <2>7, Basics, PassesIn
        <5>2. snoop.key = <<"snoop", i>>
              BY <2>4, <3>1
        <5>3. (\E e \in N[x] : e.key = <<"snoop", j>>) <=> (j = i /\ x # c)
              BY <2>8, <3>1, <5>2
        <5> QED BY <2>8, <5>1, <5>3
      <4>4. \A x \in Controllers : x # Lower => x \in Caches
            BY Constants
      <4>5. c # Lower
            BY Constants
      <4>6. ~late /\ \A j \in Ids, x \in Controllers :
                (IF x = Lower THEN j \in lower ELSE In(queue[x], <<"snoop", j>>)) <=> Waits(x, j)
            BY DEF BusInv, AnswersAreAwaited
      <4>7. \A x \in Caches : In(queue'[x], <<"snoop", i>>) <=> x # c
            BY <3>2, <4>3
      <4> HIDE DEF Waits, WaitsN
      <4>8. \A j \in Ids, x \in Controllers :
                (IF x = Lower THEN j \in lower' ELSE In(queue'[x], <<"snoop", j>>)) <=> WaitsN(x, j)
        <5> SUFFICES ASSUME NEW j \in Ids, NEW x \in Controllers
                     PROVE (IF x = Lower THEN j \in lower' ELSE In(queue'[x], <<"snoop", j>>)) <=> WaitsN(x, j)
            OBVIOUS
        <5>1. CASE j = i
              BY <3>10, <4>2, <4>4, <4>5, <4>7, <5>1
        <5>2. CASE j # i
              BY <3>10, <4>1, <4>3, <4>4, <4>6, <5>2
        <5> QED BY <5>1, <5>2
      <4> QED BY <1>1, <4>6, <4>8 DEF AnswersAreAwaited, WaitsN
    <3>12. Len(pending') <= BusPendingSize
      <4>1. Len(pending) < BusPendingSize
            BY <1>1, <1>2, <1>3, <1>5, <3>1 DEF AddressInv
      <4> QED BY <1>2, <3>4, <4>1
    <3> QED BY <1>2, <2>16, <3>1, <3>2, <3>3, <3>4, <3>7, <3>9, <3>10, <3>11, <3>12 DEF Typed
  <2>20. Rest
         BY <2>18, <2>19
  <2>21. ASSUME NEW x \in Caches, NEW y \in ToSet(busQueue'[x]) PROVE MessageInv(x, y)'
    <3>1. y \in ToSet(busQueue[x]) /\ MessageInv(x, y) /\ y.id \in Ids
      <4>1. y \in ToSet(busQueue[x])
            BY <2>2
      <4>2. y \in BusMessage
            BY <1>2, <4>1, Elements DEF Typed
      <4> QED BY <4>1, <4>2 DEF BusInv, BusQueueInv, BusMessage
    <3>2. Heard(y.type) => \A z \in Caches \ {x} : ~Fresh(z, y.id)
          BY <2>3, <2>9
    <3>3. ASSUME Expected(y.type)
          PROVE  LocalAt(x, y.id, {"asked"})' /\ \A a \in ToSet(pending') : a.id # y.id
      <4>1. LocalAt(x, y.id, {"asked"})' /\ \A a \in ToSet(pending) : a.id # y.id
            BY <2>15, <3>1, <3>3 DEF MessageInv
      <4>2. Heard(y.type)
            BY <3>3 DEF Expected, Heard
      <4> QED BY <2>3, <2>16, <2>20, <4>1, <4>2
    <3> QED BY <2>11, <3>1, <3>2, <3>3, MessageKept
  <2>22. BusQueueInv'
    <3>1. ASSUME NEW x \in Caches, NEW j \in DOMAIN busQueue'[x], NEW k \in DOMAIN busQueue'[x],
                 busQueue'[x][j].id = busQueue'[x][k].id,
                 Heard(busQueue'[x][j].type), Heard(busQueue'[x][k].type)
          PROVE  j = k
      <4>1. CASE x # c
            BY <2>2, <3>1, <4>1 DEF BusInv, BusQueueInv
      <4>2. CASE x = c
        <5>1. /\ DOMAIN Tail(b) = 1 .. Len(b) - 1 /\ DOMAIN b = 1 .. Len(b) /\ Len(b) \in Nat
              /\ \A a \in 1 .. Len(b) - 1 : a + 1 \in 1 .. Len(b) /\ Tail(b)[a] = b[a + 1]
              BY <1>4, TailFacts, Elements
        <5>2. j \in 1 .. Len(b) - 1 /\ k \in 1 .. Len(b) - 1
              BY <2>2, <3>1, <4>2, <5>1
        <5>2a. /\ b[j + 1].id = b[k + 1].id /\ Heard(b[j + 1].type) /\ Heard(b[k + 1].type)
               /\ j + 1 \in DOMAIN b /\ k + 1 \in DOMAIN b
              BY <2>2, <3>1, <4>2, <5>1, <5>2
        <5>3. j + 1 = k + 1
              BY <5>2a DEF BusInv, BusQueueInv
        <5> QED BY <5>1, <5>2, <5>3
      <4> QED BY <4>1, <4>2
    <3> QED BY <2>21, <3>1 DEF BusQueueInv
  <2>23. /\ address' \in [event : {"idle", "poll", "broadcast", "completed"}, cache : Caches]
         /\ last' \in Controllers /\ AddressInv'
    <3>1. CASE Granted(rest) = {}
      <4>1. address' = [address EXCEPT !.event = "poll"] /\ last' = last
            BY <2>1, <3>1 DEF Arbitrate
      <4>2. /\ address' \in [event : {"idle", "poll", "broadcast", "completed"}, cache : Caches]
            /\ address'.event = "poll"
            BY <1>2, <4>1 DEF Typed
      <4> QED BY <1>2, <4>1, <4>2 DEF Typed, AddressInv
    <3>2. CASE Granted(rest) # {}
      <4>1. PICK d \in Granted(rest) : address' = [event |-> "broadcast", cache |-> d] /\ last' = d
            BY <2>1, <3>2 DEF Arbitrate
      <4>2. d \in Caches /\ rest[d] # <<>>
            BY <4>1, GrantedReady
      <4>3. address'.event = "broadcast" /\ address'.cache = d
            BY <4>1
      <4>4. AddressInv'
            BY <2>1, <4>2, <4>3 DEF AddressInv
      <4> QED BY <4>1, <4>2, <4>4, Constants
    <3> QED BY <3>1, <3>2
  <2>24. Typed'
    <3>1. queue' \in [Caches -> Seq(QueueEntry)]
      <4>1. \A x \in Caches : queue'[x] \in Seq(QueueEntry)
            BY <2>7 DEF Passes
      <4>2. queue' = [x \in Caches |-> queue'[x]]
            BY <2>4
      <4> QED BY <4>1, <4>2
    <3> QED BY <1>1, <1>2, <2>2, <2>20, <2>23, <3>1 DEF Typed, PendingRequest
  <2>25. \A x \in Caches : Len(busQueue'[x]) <= BusQueueSize /\ Cardinality(Held(x)') <= Ways
         BY <2>2, <2>11 DEF BusInv
  <2>26. AnswerInv'
         BY <2>11 DEF BusInv, AnswerInv
  <2>27. BusInv'
         BY <2>14, <2>20, <2>22, <2>23, <2>24, <2>25, <2>26 DEF BusInv
  <2>28. BroadcastOver(c, m, snoop, G, N)
    <3>1. /\ \A x \in Caches : /\ G[x] = {}
                               /\ N[x] = IF x # c /\ Heard(m.type) THEN {snoop} ELSE {}
          /\ Changed(G, N)
          BY <2>7, <2>8 DEF Changed
    <3>2. \A x \in Caches : \A y \in ToSet(busQueue[x]) :
             y \in ToSet(busQueue'[x]) \/ (x = c /\ y = m)
          BY <2>2
    <3>3. \A a \in ToSet(pending') :
             a \in ToSet(pending) \/ (a.id = m.id /\ a.cache = c /\ a.got = {c})
          BY <2>16, <2>20
    <3> QED BY <1>5, <2>2, <2>4, <3>1, <3>2, <3>3 DEF BroadcastOver
  <2> QED BY <2>27, <2>28
<1> QED BY <1>6, <1>7

(***************************************************************************)
(* Answers on the bus                                                      *)
(***************************************************************************)
\* The bus waits for an answer of controller x to request j.
Awaited(x, j) == \E k \in DOMAIN pending : pending[k].id = j /\ x \notin pending[k].got

\* The events of the data bus are few enough to be counted.
LEMMA EventsFinite ==
    ASSUME BusInv
    PROVE  /\ IsFiniteSet(dataEvents) /\ dataEvents \subseteq DataEvent
           /\ ~dataBusBusy => dataEvents = {}
           /\ dataBusBusy => \E ev \in DataEvent : dataEvents = {ev}
<1>1. IsFiniteSet(Ids)
      BY Constants, FS_Interval DEF Ids
<1>2. IsFiniteSet({"broadcast", "completed"})
  <2>1. IsFiniteSet({"broadcast"}) /\ IsFiniteSet({"completed"})
        BY FS_Singleton
  <2>2. IsFiniteSet({"broadcast"} \cup {"completed"})
        BY <2>1, FS_Union
  <2>3. {"broadcast", "completed"} = {"broadcast"} \cup {"completed"}
        OBVIOUS
  <2> QED BY <2>2, <2>3
<1>3. IsFiniteSet(DataEvent)
      BY <1>1, <1>2, FS_Product DEF DataEvent
<1>4. dataEvents \subseteq DataEvent /\ Cardinality(dataEvents) = IF dataBusBusy THEN 1 ELSE 0
      BY DEF BusInv, Typed, DataBusNeverSleeps
<1>5. IsFiniteSet(dataEvents)
      BY <1>3, <1>4, FS_Subset
<1>6. ~dataBusBusy => dataEvents = {}
      BY <1>4, <1>5, FS_EmptySet
<1>7. dataBusBusy => \E ev \in dataEvents : dataEvents = {ev}
      BY <1>4, <1>5, FS_Singleton
<1> QED BY <1>4, <1>5, <1>6, <1>7

\* A pending request before and after an answer of controller c to request i: data
\* of an L2 cache stands for the answers of all.
HasAnswer(p, o, c, i, data, shared) ==
    /\ p.shared => o.shared
    /\ p.id = i => /\ \A x \in o.got : x \in p.got \/ x = c \/ (data /\ c \in Caches)
                   /\ shared /\ c \in Caches => o.shared

\* What the bus does with an awaited answer: the request has it, the others are
\* called off if data came from an L2 cache, and the data bus is taken when all
\* answers are there.
LEMMA RespondBus ==
    ASSUME BusInv, NEW c \in Controllers, NEW i \in Ids, NEW data \in BOOLEAN,
           NEW shared \in BOOLEAN, NEW q, NEW below, Awaited(c, i),
           shared /\ c \in Caches => requests[i].type = "READ",
           Respond(c, i, data, shared, q, below)
    PROVE  \E rest \in SUBSET Controllers, off \in BOOLEAN :
           /\ queue' = IF off THEN [x \in Caches |-> IF x \in rest
                                       THEN ClearEntry(q[x], <<"snoop", i>>) ELSE q[x]]
                              ELSE q
           /\ lower' = IF off /\ Lower \in rest THEN below \ {i} ELSE below
           /\ late' = late
           /\ c \notin rest /\ \A x \in Controllers \ {c} : x \notin rest => ~Awaited(x, i)
           /\ pending' \in Seq(PendingRequest) /\ Len(pending') = Len(pending)
           /\ \A k \in 1 .. Len(pending) :
                 /\ pending'[k].id = pending[k].id /\ pending'[k].cache = pending[k].cache
                 /\ pending'[k].type = pending[k].type
                 /\ pending[k].got \subseteq pending'[k].got
                 /\ pending'[k].shared => pending[k].type = "READ"
                 /\ HasAnswer(pending[k], pending'[k], c, i, data, shared)
           /\ \A x \in Controllers, j \in Ids :
                 Awaited(x, j)' <=> (Awaited(x, j) /\ ~(j = i /\ (x = c \/ off)))
           /\ dataBusBusy' \in BOOLEAN /\ dataEvents' \subseteq DataEvent
           /\ DataBusNeverSleeps'
<1>1. /\ pending \in Seq(PendingRequest) /\ Len(pending) \in Nat /\ DOMAIN pending = 1 .. Len(pending)
      /\ \A k \in 1 .. Len(pending) : pending[k] \in PendingRequest /\ pending[k] \in ToSet(pending)
      BY PendingTypes, Elements
<1>2. /\ \A j, k \in DOMAIN pending : pending[j].id = pending[k].id => j = k
      /\ \A k \in 1 .. Len(pending) : /\ pending[k].type = requests[pending[k].id].type
                                      /\ pending[k].shared => pending[k].type = "READ"
      BY <1>1 DEF BusInv, PendingInv
<1> DEFINE ks == {n \in DOMAIN pending : pending[n].id = i}
<1>3. PICK k \in 1 .. Len(pending) : pending[k].id = i /\ c \notin pending[k].got
      BY <1>1 DEF Awaited
<1>4. ks = {k} /\ (CHOOSE n \in ks : TRUE) = k
  <2>1. \A n \in ks : n = k
        BY <1>1, <1>2, <1>3
  <2>2. k \in ks
        BY <1>1, <1>3
  <2> HIDE DEF ks
  <2> QED BY <2>1, <2>2
<1> DEFINE p    == pending[k]
           rest == Controllers \ (p.got \cup {c})
           off  == data /\ c \in Caches
           new  == [p EXCEPT !.got    = IF off THEN Controllers ELSE @ \cup {c},
                             !.with   = IF data THEN c ELSE @,
                             !.shared = @ \/ (shared /\ c \in Caches)]
           told == IF off THEN Annul(q, below, i, rest)
                          ELSE [queue |-> q, lower |-> below]
<1>5. /\ pending' = [pending EXCEPT ![k] = new]
      /\ queue' = told.queue /\ lower' = told.lower
      /\ IF ~dataBusBusy /\ AllAnswered(new)
         THEN dataBusBusy' = TRUE
              /\ dataEvents' = dataEvents \cup {<<"broadcast", i>>}
         ELSE UNCHANGED <<dataBusBusy, dataEvents>>
      /\ late' = late
  <2> HIDE DEF ks
  <2>1. (CHOOSE n \in ks : TRUE) = k /\ ks # {}
        BY <1>4
  <2> QED BY <2>1 DEF Respond, ks
<1>6. /\ p \in PendingRequest /\ new \in PendingRequest
      /\ new.id = p.id /\ new.cache = p.cache /\ new.type = p.type
      /\ new.got = IF off THEN Controllers ELSE p.got \cup {c}
      /\ new.shared = (p.shared \/ (shared /\ c \in Caches))
      /\ p.got \subseteq Controllers
      BY <1>1 DEF PendingRequest
<1>7. queue' = (IF off THEN [x \in Caches |-> IF x \in rest
                                 THEN ClearEntry(q[x], <<"snoop", i>>) ELSE q[x]]
                       ELSE q)
      /\ lower' = (IF off /\ Lower \in rest THEN below \ {i} ELSE below)
      BY <1>5 DEF Annul
<1> HIDE DEF new, told, rest, off
<1>8. /\ pending' \in Seq(PendingRequest) /\ Len(pending') = Len(pending)
      /\ pending'[k] = new /\ \A n \in 1 .. Len(pending) : n # k => pending'[n] = pending[n]
      /\ DOMAIN pending' = 1 .. Len(pending)
      BY <1>1, <1>5, <1>6
<1>9. \A n \in 1 .. Len(pending) :
                 /\ pending'[n].id = pending[n].id /\ pending'[n].cache = pending[n].cache
                 /\ pending'[n].type = pending[n].type
                 /\ pending[n].got \subseteq pending'[n].got
                 /\ pending'[n].shared => pending[n].type = "READ"
  <2>1. p.got \subseteq new.got
        BY <1>6
  <2>2. new.shared => p.type = "READ"
        BY <1>2, <1>3, <1>6
  <2>3. ASSUME NEW n \in 1 .. Len(pending)
        PROVE  /\ pending'[n].id = pending[n].id /\ pending'[n].cache = pending[n].cache
               /\ pending'[n].type = pending[n].type
               /\ pending[n].got \subseteq pending'[n].got
               /\ pending'[n].shared => pending[n].type = "READ"
    <3>1. CASE n = k
          BY <1>6, <1>8, <2>1, <2>2, <3>1
    <3>2. CASE n # k
          BY <1>2, <1>8, <3>2
    <3> QED BY <3>1, <3>2
  <2> QED BY <2>3
<1>10. ASSUME NEW x \in Controllers, NEW j \in Ids
       PROVE  Awaited(x, j)' <=> (Awaited(x, j) /\ ~(j = i /\ (x = c \/ off)))
  <2>1. Awaited(x, i) <=> x \notin p.got
        BY <1>1, <1>2, <1>3 DEF Awaited
  <2>2. Awaited(x, i)' <=> x \notin new.got
        BY <1>1, <1>2, <1>3, <1>6, <1>8, <1>9 DEF Awaited
  <2>3. j # i => (Awaited(x, j)' <=> Awaited(x, j))
    <3>1. \A n \in 1 .. Len(pending) : pending[n].id = j /\ j # i => pending'[n] = pending[n]
          BY <1>3, <1>8
    <3> QED BY <1>1, <1>8, <1>9, <3>1 DEF Awaited
  <2> QED BY <1>6, <2>1, <2>2, <2>3
<1>11. \A x \in Controllers \ {c} : x \notin rest => ~Awaited(x, i)
       BY <1>1, <1>2, <1>3 DEF rest, Awaited
<1>12. dataBusBusy' \in BOOLEAN /\ dataEvents' \subseteq DataEvent
  <2>1. <<"broadcast", i>> \in DataEvent
        BY DEF DataEvent
  <2>2. dataBusBusy \in BOOLEAN /\ dataEvents \subseteq DataEvent
        BY EventsFinite, Basics DEF Typed
  <2> QED BY <1>5, <2>1, <2>2
<1>13. DataBusNeverSleeps'
  <2>1. /\ Cardinality(dataEvents) = IF dataBusBusy THEN 1 ELSE 0
        /\ \A n \in 1 .. Len(pending) : AllAnswered(pending[n]) => dataBusBusy
        /\ \A ev \in dataEvents : \E n \in 1 .. Len(pending) :
               pending[n].id = ev[2] /\ AllAnswered(pending[n])
        BY <1>1 DEF BusInv, DataBusNeverSleeps
  <2>2. \A n \in 1 .. Len(pending) : AllAnswered(pending[n]) => AllAnswered(pending'[n])
    <3>1. AllAnswered(p) => AllAnswered(new)
          BY <1>6 DEF AllAnswered
    <3> QED BY <1>8, <3>1
  <2>3. \A ev \in dataEvents : \E n \in 1 .. Len(pending) :
               pending'[n].id = ev[2] /\ AllAnswered(pending'[n])
        BY <1>9, <2>1, <2>2
  <2>4. CASE ~dataBusBusy /\ AllAnswered(new)
    <3>1. dataEvents' = {<<"broadcast", i>>} /\ dataBusBusy' = TRUE
          BY <1>5, <2>4, EventsFinite
    <3>2. Cardinality(dataEvents') = 1
          BY <3>1, FS_Singleton
    <3>3. pending'[k].id = i /\ AllAnswered(pending'[k])
          BY <1>3, <1>8, <1>9, <2>4
    <3>4. \A ev \in dataEvents' : \E n \in 1 .. Len(pending) :
               pending'[n].id = ev[2] /\ AllAnswered(pending'[n])
          BY <3>1, <3>3
    <3> QED BY <1>8, <3>1, <3>2, <3>4 DEF DataBusNeverSleeps, AllAnswered
  <2>5. CASE dataBusBusy \/ ~AllAnswered(new)
    <3>1. UNCHANGED <<dataBusBusy, dataEvents>>
          BY <1>5, <2>5
    <3>2. \A n \in 1 .. Len(pending) : AllAnswered(pending'[n]) => dataBusBusy
          BY <1>8, <2>1, <2>5
    <3> QED BY <1>8, <2>1, <2>3, <3>1, <3>2 DEF DataBusNeverSleeps, AllAnswered
  <2> QED BY <2>4, <2>5
<1>14. rest \in SUBSET Controllers /\ c \notin rest /\ off \in BOOLEAN
       BY DEF rest, off
<1>15. ASSUME NEW n \in 1 .. Len(pending)
       PROVE  HasAnswer(pending[n], pending'[n], c, i, data, shared)
  <2>1. CASE n = k
    <3>1. off => data /\ c \in Caches
          BY DEF off
    <3> QED BY <1>6, <1>8, <2>1, <3>1 DEF HasAnswer
  <2>2. CASE n # k
    <3>1. pending'[n] = pending[n] /\ pending[n].id # i
          BY <1>1, <1>2, <1>3, <1>8, <2>2
    <3> QED BY <3>1 DEF HasAnswer
  <2> QED BY <2>1, <2>2
<1> QED BY <1>5, <1>7, <1>8, <1>9, <1>10, <1>11, <1>12, <1>13, <1>14, <1>15

\* A controller that works on a request is awaited, and the other way round.
LEMMA WorksOn ==
    ASSUME BusInv
    PROVE  /\ ~late
           /\ \A x \in Caches, j \in Ids : In(queue[x], <<"snoop", j>>) <=> Awaited(x, j)
           /\ \A j \in Ids : j \in lower <=> Awaited(Lower, j)
           /\ \A j \in Ids : j \in lower => j \in 1 .. Len(requests)
<1>1. /\ ~late
      /\ \A j \in Ids, x \in Controllers :
            (IF x = Lower THEN j \in lower ELSE In(queue[x], <<"snoop", j>>)) <=> Awaited(x, j)
      BY DEF BusInv, AnswersAreAwaited, Awaited
<1>2. \A x \in Caches : x \in Controllers /\ x # Lower
      BY Constants
<1>3. \A j \in Ids : Awaited(Lower, j) => j \in 1 .. Len(requests)
  <2>1. pending \in Seq(PendingRequest)
        BY PendingTypes
  <2>2. \A k \in DOMAIN pending : pending[k] \in ToSet(pending)
        BY <2>1, Elements
  <2> QED BY <2>2 DEF Awaited, BusInv, PendingInv
<1>4. Lower \in Controllers
      BY Constants
<1> QED BY <1>1, <1>2, <1>3, <1>4

\* An answer, with all that the bus makes of it: the controller that answers has
\* no snoop of the request any more and may leave messages, and those that are
\* called off have none either.
Answering(c, i, data, shared, q, below, r, new) ==
    /\ c \in Controllers /\ i \in Ids /\ data \in BOOLEAN /\ shared \in BOOLEAN
    /\ c \in Caches => /\ q = [queue EXCEPT ![c] = r] /\ below = lower
                       /\ In(queue[c], <<"snoop", i>>)
                       /\ Passes(queue[c], r, {<<"snoop", i>>}, new)
    /\ c \notin Caches => q = queue /\ below = lower \ {i} /\ i \in lower
    /\ \A f \in new : EntryInv(c, f)' /\ f.key[1] \in Offspring /\ f.key[2] = i
    /\ shared => requests[i].type = "READ"
    /\ Respond(c, i, data, shared, q, below)
    /\ UNCHANGED <<requests, busQueue, address, last, failed, answers, overlapped>>
    /\ cstate' \in [Caches -> [Line -> LineState]]
    /\ \A x \in Caches : Held(x)' = Held(x)

\* The answer of a controller keeps the invariant.
LEMMA RespondInv ==
    ASSUME BusInv, NEW c, NEW i, NEW data, NEW shared, NEW q, NEW below, NEW r, NEW new,
           Answering(c, i, data, shared, q, below, r, new)
    PROVE  /\ BusInv'
           /\ \E G, N : /\ Changed(G, N)
                        /\ \A x \in Caches : /\ G[x] \subseteq {<<"snoop", i>>}
                                             /\ N[x] \subseteq IF x = c THEN new ELSE {}
           /\ \A o \in ToSet(pending') : \E p \in ToSet(pending) :
                 /\ o.id = p.id /\ o.cache = p.cache /\ o.type = p.type
                 /\ HasAnswer(p, o, c, i, data, shared)
<1> USE DEF Answering
<1> DEFINE key == <<"snoop", i>>
<1>1. Typed /\ Len(requests) \in Nat /\ queue \in [Caches -> Seq(QueueEntry)] /\ lower \subseteq Ids
      BY Basics DEF Typed
<1>2. c \notin Caches => c = Lower
      BY Constants
<1>3. Awaited(c, i)
      BY <1>2, WorksOn
<1>4. PICK rest \in SUBSET Controllers, off \in BOOLEAN :
           /\ queue' = IF off THEN [x \in Caches |-> IF x \in rest
                                       THEN ClearEntry(q[x], <<"snoop", i>>) ELSE q[x]]
                              ELSE q
           /\ lower' = IF off /\ Lower \in rest THEN below \ {i} ELSE below
           /\ late' = late
           /\ c \notin rest /\ \A x \in Controllers \ {c} : x \notin rest => ~Awaited(x, i)
           /\ pending' \in Seq(PendingRequest) /\ Len(pending') = Len(pending)
           /\ \A k \in 1 .. Len(pending) :
                 /\ pending'[k].id = pending[k].id /\ pending'[k].cache = pending[k].cache
                 /\ pending'[k].type = pending[k].type
                 /\ pending[k].got \subseteq pending'[k].got
                 /\ pending'[k].shared => pending[k].type = "READ"
                 /\ HasAnswer(pending[k], pending'[k], c, i, data, shared)
           /\ \A x \in Controllers, j \in Ids :
                 Awaited(x, j)' <=> (Awaited(x, j) /\ ~(j = i /\ (x = c \/ off)))
           /\ dataBusBusy' \in BOOLEAN /\ dataEvents' \subseteq DataEvent
           /\ DataBusNeverSleeps'
      BY <1>3, RespondBus
<1> DEFINE annulled(x) == off /\ x \in rest
           G == [x \in Caches |-> IF x = c \/ annulled(x) THEN {key} ELSE {}]
           N == [x \in Caches |-> IF x = c THEN new ELSE {}]
<1>5. /\ \A x \in Caches : G[x] \subseteq {key} /\ ((x = c \/ annulled(x)) => G[x] = {key})
      /\ \A x \in Caches : ~(x = c \/ annulled(x)) => G[x] = {}
      /\ \A x \in Caches : IF x = c THEN N[x] = new ELSE N[x] = {}
      OBVIOUS
<1> HIDE DEF G, N
<1>6. key # NoKey
      BY DEF NoKey
<1>7. ASSUME NEW x \in Caches PROVE Passes(queue[x], queue'[x], G[x], N[x])
  <2>1. CASE x = c
    <3>1. r \in Seq(QueueEntry) /\ q[c] = r
          BY <1>1, <2>1 DEF Passes
    <3>2. queue'[c] = r
          BY <1>1, <1>4, <2>1, <3>1
    <3>3. Passes(queue[c], r, {key}, new)
          BY <2>1
    <3> QED BY <1>5, <2>1, <3>2, <3>3
  <2>2. CASE x # c
    <3>1. q[x] = queue[x]
          BY <1>1, <2>2
    <3>2. CASE annulled(x)
      <4>1. queue'[x] = ClearEntry(queue[x], key)
            BY <1>4, <3>1, <3>2
      <4>2. Passes(queue[x], ClearEntry(queue[x], key), {key}, {})
            BY <1>6, Basics, ClearPasses
      <4> QED BY <1>5, <2>2, <3>2, <4>1, <4>2
    <3>3. CASE ~annulled(x)
      <4>1. queue'[x] = queue[x]
            BY <1>1, <1>4, <3>1, <3>3
      <4>2. Passes(queue[x], queue[x], {}, {})
            BY Basics, PassesStay
      <4> QED BY <1>5, <2>2, <3>3, <4>1, <4>2
    <3> QED BY <3>2, <3>3
  <2> QED BY <2>1, <2>2
<1>8. queue' \in [Caches -> Seq(QueueEntry)]
  <2>1. \A x \in Caches : queue'[x] \in Seq(QueueEntry)
        BY <1>7 DEF Passes
  <2>2. queue' = [x \in Caches |-> queue'[x]]
    <3>1. q = [x \in Caches |-> q[x]]
          BY <1>1
    <3> QED BY <1>4, <3>1
  <2> QED BY <2>1, <2>2
<1>9. \A x \in Caches : \A j : Fresh(x, j) => x = c /\ j = i
  <2> SUFFICES ASSUME NEW x \in Caches, NEW j, Fresh(x, j) PROVE x = c /\ j = i
      OBVIOUS
  <2>1. PICK f \in N[x] : f.key[2] = j /\ f.key[1] # "local" /\ ~In(queue[x], f.key)
        BY <1>7, Basics, FreshIsNew
  <2> QED BY <1>5, <2>1
<1>10. c \in Caches =>
           /\ \A y \in Caches : \A m \in ToSet(busQueue[y]) : m.id = i => ~Heard(m.type)
           /\ \A e \in ToSet(queue[c]) : e.key[2] = i => e.key = key
           /\ \A y \in Caches : \A e \in ToSet(queue[y]) : e.key[2] = i => ~Public(e)
       BY Snooping
<1>11. /\ RequestsKept /\ requests' = requests /\ answers' = answers /\ busQueue' = busQueue
       /\ \A x, j : EvictQueued(x, j)' <=> EvictQueued(x, j)
       BY <1>1 DEF RequestsKept, EvictQueued
<1>12. ASSUME NEW x \in Caches, NEW e \in ToSet(queue[x]), e.key \notin G[x]
       PROVE  Undisturbed(x, e)
  <2>1. Private(e) => ~Fresh(x, e.key[2])
        BY <1>5, <1>9, <1>10, <1>12
  <2>2. Public(e) => \A y \in Caches \ {x} : ~Fresh(y, e.key[2])
        BY <1>9, <1>10
  <2> QED BY <1>11, <2>1, <2>2 DEF Undisturbed
<1>13. QueueInv'
  <2>1. \A x \in Caches : \A f \in N[x] : EntryInv(x, f)'
        BY <1>5
  <2> QED BY <1>7, <1>11, <1>12, <2>1, QueueKept
<1>14. \A x \in Caches, j \in Ids : LocalAt(x, j, {"asked"}) => LocalAt(x, j, {"asked"})'
  <2> SUFFICES ASSUME NEW x \in Caches, NEW j \in Ids, LocalAt(x, j, {"asked"})
               PROVE  LocalAt(x, j, {"asked"})'
      OBVIOUS
  <2>1. <<"local", j>> \notin G[x]
        BY <1>5
  <2> QED BY <1>7, <2>1, LocalStays
<1>15. /\ pending \in Seq(PendingRequest) /\ DOMAIN pending = 1 .. Len(pending)
       /\ DOMAIN pending' = 1 .. Len(pending) /\ Len(pending) \in Nat
       /\ \A p \in ToSet(pending') : \E k \in 1 .. Len(pending) : p = pending'[k]
       /\ \A k \in 1 .. Len(pending) : pending[k] \in ToSet(pending)
       BY <1>4, PendingTypes, Elements
<1>16. \A p \in ToSet(pending') : \E o \in ToSet(pending) :
           /\ p.id = o.id /\ p.cache = o.cache /\ p.type = o.type /\ o.got \subseteq p.got
           /\ p.shared => p.type = "READ"
       BY <1>4, <1>15
<1>17. PendingInv'
  <2>1. \A j, k \in DOMAIN pending' : pending'[j].id = pending'[k].id => j = k
        BY <1>4, <1>15 DEF BusInv, PendingInv
  <2>2. ASSUME NEW p \in ToSet(pending')
        PROVE  /\ p.id \in 1 .. Len(requests')
               /\ p.cache = requests'[p.id].cache /\ p.type = requests'[p.id].type
               /\ LocalAt(p.cache, p.id, {"asked"})'
               /\ p.cache \in p.got /\ (p.shared => p.type = "READ")
    <3>1. PICK o \in ToSet(pending) :
              /\ p.id = o.id /\ p.cache = o.cache /\ p.type = o.type /\ o.got \subseteq p.got
              /\ p.shared => p.type = "READ"
          BY <1>16
    <3>2. o.id \in Ids /\ o.cache \in Caches
          BY PendingTypes
    <3>3. /\ o.id \in 1 .. Len(requests)
          /\ o.cache = requests[o.id].cache /\ o.type = requests[o.id].type
          /\ LocalAt(o.cache, o.id, {"asked"}) /\ o.cache \in o.got
          BY DEF BusInv, PendingInv
    <3>4. LocalAt(o.cache, o.id, {"asked"})'
          BY <1>14, <3>2, <3>3
    <3> QED BY <1>11, <3>1, <3>3, <3>4
  <2> QED BY <2>1, <2>2 DEF PendingInv
<1>18. BusQueueInv'
  <2> SUFFICES ASSUME NEW x \in Caches, NEW m \in ToSet(busQueue[x]) PROVE MessageInv(x, m)'
      BY <1>11 DEF BusInv, BusQueueInv
  <2>1. MessageInv(x, m) /\ m.id \in Ids
    <3>1. m \in BusMessage
          BY <1>1, Elements DEF Typed
    <3> QED BY <3>1 DEF BusInv, BusQueueInv, BusMessage
  <2>2. Heard(m.type) => \A y \in Caches \ {x} : ~Fresh(y, m.id)
        BY <1>9, <1>10
  <2>3. Expected(m.type) => /\ LocalAt(x, m.id, {"asked"})'
                            /\ \A p \in ToSet(pending') : p.id # m.id
        BY <1>14, <1>16, <2>1 DEF MessageInv
  <2> QED BY <1>11, <2>2, <2>3, MessageKept
<1>19. AnswersAreAwaited'
  <2>1. ASSUME NEW x \in Caches, NEW j \in Ids
        PROVE  In(queue'[x], <<"snoop", j>>) <=> Awaited(x, j)'
    <3>1. ~\E f \in N[x] : f.key = <<"snoop", j>>
          BY <1>5 DEF Offspring
    <3>2. In(queue'[x], <<"snoop", j>>) <=> (In(queue[x], <<"snoop", j>>) /\ <<"snoop", j>> \notin G[x])
      <4> DEFINE qq == queue[x]
                 rr == queue'[x]
                 gg == G[x]
                 nn == N[x]
      <4>1. qq \in Seq(QueueEntry) /\ Passes(qq, rr, gg, nn) /\ ~\E f \in nn : f.key = <<"snoop", j>>
            BY <1>7, <3>1, Basics
      <4> HIDE DEF qq, rr, gg, nn
      <4>2. In(rr, <<"snoop", j>>) <=> (In(qq, <<"snoop", j>>) /\ <<"snoop", j>> \notin gg)
            BY <4>1, PassesIn
      <4> QED BY <4>2 DEF qq, rr, gg, nn
    <3>3. <<"snoop", j>> \in G[x] <=> j = i /\ (x = c \/ annulled(x))
          BY <1>5
    <3>4. x \in Controllers /\ (In(queue[x], <<"snoop", j>>) <=> Awaited(x, j))
          BY Constants, WorksOn
    <3>5. Awaited(x, j)' <=> (Awaited(x, j) /\ ~(j = i /\ (x = c \/ off)))
          BY <1>4, <3>4
    <3>6. x # c /\ off /\ x \notin rest => ~Awaited(x, i)
          BY <1>4, <3>4
    <3> QED BY <3>2, <3>3, <3>4, <3>5, <3>6
  <2>2. ASSUME NEW j \in Ids
        PROVE  j \in lower' <=> Awaited(Lower, j)'
    <3>1. Lower \in Controllers /\ Lower \notin Caches /\ (j \in lower <=> Awaited(Lower, j))
          BY Constants, WorksOn
    <3>2. Awaited(Lower, j)' <=> (Awaited(Lower, j) /\ ~(j = i /\ (Lower = c \/ off)))
          BY <1>4, <3>1
    <3>3. Lower # c /\ off /\ Lower \notin rest => ~Awaited(Lower, i)
          BY <1>4, <3>1
    <3>4. lower' = IF off /\ Lower \in rest THEN below \ {i} ELSE below
          BY <1>4
    <3>5. CASE Lower = c
      <4>1. below = lower \ {i}
            BY <3>1, <3>5
      <4> QED BY <3>1, <3>2, <3>4, <3>5, <4>1
    <3>6. CASE Lower # c
      <4>1. below = lower
            BY <1>2, <3>6
      <4> QED BY <3>1, <3>2, <3>3, <3>4, <3>6, <4>1
    <3> QED BY <3>5, <3>6
  <2>3. ~late' /\ \A x \in Controllers : x = Lower \/ x \in Caches
        BY <1>4, WorksOn, Constants
  <2> QED BY <2>1, <2>2, <2>3 DEF AnswersAreAwaited, Awaited
<1>20. Typed'
  <2>1. lower' \subseteq Ids
        BY <1>1, <1>4, <1>2
  <2> QED BY <1>1, <1>4, <1>8, <1>11, <2>1 DEF Typed, PendingRequest
<1>21. AddressInv' /\ Len(pending') <= BusPendingSize /\ AnswerInv'
       /\ \A x \in Caches : Len(busQueue'[x]) <= BusQueueSize /\ Cardinality(Held(x)') <= Ways
       BY <1>4, <1>11 DEF BusInv, AddressInv, AnswerInv
<1>22. BusInv'
       BY <1>4, <1>13, <1>17, <1>18, <1>19, <1>20, <1>21 DEF BusInv
<1>23. /\ Changed(G, N)
       /\ \A x \in Caches : /\ G[x] \subseteq {<<"snoop", i>>}
                            /\ N[x] \subseteq IF x = c THEN new ELSE {}
       BY <1>5, <1>7 DEF Changed
<1>24. ASSUME NEW o \in ToSet(pending')
       PROVE  \E p \in ToSet(pending) :
                 /\ o.id = p.id /\ o.cache = p.cache /\ o.type = p.type
                 /\ HasAnswer(p, o, c, i, data, shared)
  <2>1. PICK k \in 1 .. Len(pending') : o = pending'[k]
        BY <1>4, Elements
  <2>2. k \in 1 .. Len(pending) /\ pending[k] \in ToSet(pending)
        BY <1>4, PendingTypes, Elements
  <2> QED BY <1>4, <2>1, <2>2
<1> QED BY <1>22, <1>23, <1>24

\* The shared cache answers with data.
LEMMA LowerAnswers ==
    ASSUME BusInv, NEW id, LowerAnswer(id)
    PROVE  \E q, below, r, new : Answering(Lower, id, TRUE, FALSE, q, below, r, new)
<1>1. /\ id \in lower /\ Respond(Lower, id, TRUE, FALSE, queue, lower \ {id})
      /\ UNCHANGED <<requests, cstate, busQueue, address, last, failed, answers, overlapped>>
      BY DEF LowerAnswer
<1>2. Lower \in Controllers /\ Lower \notin Caches /\ id \in Ids
      BY <1>1, Constants, Basics DEF Typed
<1>3. cstate' \in [Caches -> [Line -> LineState]] /\ \A x \in Caches : Held(x)' = Held(x)
      BY <1>1, Basics DEF Typed, Held
<1> DEFINE q == queue
           below == lower \ {id}
           new == {}
<1>4. Lower \in Caches => /\ q = [queue EXCEPT ![Lower] = queue] /\ below = lower
                           /\ In(queue[Lower], <<"snoop", id>>)
                           /\ Passes(queue[Lower], queue, {<<"snoop", id>>}, new)
      BY <1>2
<1>5. \A f \in new : EntryInv(Lower, f)' /\ f.key[1] \in Offspring /\ f.key[2] = id
      OBVIOUS
<1>6. Lower \notin Caches => q = queue /\ below = lower \ {id} /\ id \in lower
      BY <1>1
<1>7. Respond(Lower, id, TRUE, FALSE, q, below)
      BY <1>1
<1> HIDE DEF q, below, new
<1>8. Answering(Lower, id, TRUE, FALSE, q, below, queue, new)
      BY <1>1, <1>2, <1>3, <1>4, <1>5, <1>6, <1>7 DEF Answering
<1> QED BY <1>8

\* It keeps the invariant.
LEMMA LowerAnswerInv ==
    ASSUME BusInv, NEW id, LowerAnswer(id)
    PROVE  BusInv'
<1>1. PICK q, below, r, new : Answering(Lower, id, TRUE, FALSE, q, below, r, new)
      BY LowerAnswers
<1> QED BY <1>1, RespondInv

\* A cache without the line answers without data.
LEMMA SnoopMissAnswers ==
    ASSUME BusInv, NEW c \in Caches, NEW id, SnoopMiss(c, id)
    PROVE  \E q, r, new : Answering(c, id, FALSE, FALSE, q, lower, r, new)
<1> DEFINE key == <<"snoop", id>>
           r == ClearEntry(queue[c], key)
           q == [queue EXCEPT ![c] = r]
           new == {}
<1>1. /\ At(c, key, "miss") /\ Respond(c, id, FALSE, FALSE, q, lower)
      /\ UNCHANGED <<requests, cstate, busQueue, address, last, failed, answers, overlapped>>
      BY DEF SnoopMiss
<1>2. key # NoKey /\ In(queue[c], key) /\ id \in Ids
      BY <1>1, AtProperties
<1>3. cstate' \in [Caches -> [Line -> LineState]] /\ \A x \in Caches : Held(x)' = Held(x)
      BY <1>1, Basics DEF Typed, Held
<1>4. Passes(queue[c], r, {key}, new)
      BY <1>2, Basics, ClearPasses
<1>5. /\ c \in Caches => /\ q = [queue EXCEPT ![c] = r] /\ lower = lower
                         /\ In(queue[c], key) /\ Passes(queue[c], r, {key}, new)
      /\ c \notin Caches => q = queue /\ lower = lower \ {id} /\ id \in lower
      BY <1>2, <1>4
<1>6. \A f \in new : EntryInv(c, f)' /\ f.key[1] \in Offspring /\ f.key[2] = id
      OBVIOUS
<1>7. c \in Controllers
      BY Constants
<1> HIDE DEF q, r, new
<1>8. Answering(c, id, FALSE, FALSE, q, lower, r, new)
      BY <1>1, <1>2, <1>3, <1>5, <1>6, <1>7 DEF Answering
<1> QED BY <1>8

\* It keeps the invariant.
LEMMA SnoopMissInv ==
    ASSUME BusInv, NEW c \in Caches, NEW id, SnoopMiss(c, id)
    PROVE  BusInv'
<1>1. PICK q, r, new : Answering(c, id, FALSE, FALSE, q, lower, r, new)
      BY SnoopMissAnswers
<1> QED BY <1>1, RespondInv

\* Messages of two kinds.
LEMMA TwoMessages ==
    ASSUME NEW q \in Seq(QueueEntry), UniqueKeys(q),
           NEW d \in Seq(QueueEntry), UniqueKeys(d), NEW u \in Seq(QueueEntry), UniqueKeys(u),
           \A e \in ToSet(d) \cup ToSet(u) : ~In(q, e.key) /\ e.waitFor = NoKey,
           \A e \in ToSet(d), f \in ToSet(u) : e.key # f.key
    PROVE  Passes(q, q \o d \o u, {}, ToSet(d) \cup ToSet(u))
<1> DEFINE s == q \o d
           D == ToSet(d)
           U == ToSet(u)
<1>1. Passes(q, q, {}, {})
      BY PassesStay
<1>2. Passes(q, s, {}, D)
  <2>1. Passes(q, s, {}, {} \cup D)
        BY <1>1, WithMessages
  <2>2. {} \cup D = D
        OBVIOUS
  <2> QED BY <2>1, <2>2
<1>3. \A e \in U : ~In(s, e.key)
  <2> SUFFICES ASSUME NEW e \in U PROVE ~In(s, e.key)
      OBVIOUS
  <2>1. ~\E f \in D : f.key = e.key
        OBVIOUS
  <2> HIDE DEF s, D
  <2> QED BY <1>2, <2>1, PassesIn
<1>4. \A e \in D : e.waitFor = NoKey
      OBVIOUS
<1> HIDE DEF s
<1>5. Passes(q, s \o u, {}, D \cup U)
  <2> HIDE DEF D
  <2> QED BY <1>2, <1>3, <1>4, WithMessages
<1> QED BY <1>5 DEF s

\* Messages of two kinds, and the entry is freed.
LEMMA TwoMessagesThenClear ==
    ASSUME NEW q \in Seq(QueueEntry), UniqueKeys(q), NEW key, key # NoKey,
           NEW d \in Seq(QueueEntry), UniqueKeys(d), NEW u \in Seq(QueueEntry), UniqueKeys(u),
           \A e \in ToSet(d) \cup ToSet(u) : ~In(q, e.key) /\ e.key # key /\ e.waitFor = NoKey,
           \A e \in ToSet(d), f \in ToSet(u) : e.key # f.key
    PROVE  Passes(q, ClearEntry(q \o d \o u, key), {key}, ToSet(d) \cup ToSet(u))
<1> DEFINE t == q \o d \o u
           D == ToSet(d)
           U == ToSet(u)
           n == D \cup U
<1>1. Passes(q, t, {}, n)
      BY TwoMessages
<1>2. t \in Seq(QueueEntry) /\ UniqueKeys(t)
      BY <1>1 DEF Passes
<1> HIDE DEF t
<1>3. Passes(t, ClearEntry(t, key), {key}, {})
      BY <1>2, ClearPasses
<1>4. \A e \in n : e.key \notin {key} /\ e.waitFor = NoKey
      OBVIOUS
<1> HIDE DEF n
<1>5. Passes(q, ClearEntry(t, key), {} \cup {key}, {e \in n : e.key \notin {key}} \cup {})
  <2> DEFINE z == ClearEntry(t, key)
  <2> HIDE DEF z
  <2> QED BY <1>1, <1>3, <1>4, PassesThrough DEF z
<1>6. {} \cup {key} = {key} /\ {e \in n : e.key \notin {key}} \cup {} = n
      BY <1>4
<1> QED BY <1>5, <1>6 DEF t, n

\* A cache with the line answers, with data unless the line is invalid.
LEMMA SnoopHitAnswers ==
    ASSUME BusInv, NEW c \in Caches, NEW id, SnoopHit(c, id)
    PROVE  \E e \in ToSet(queue[c]), old \in LineState :
           /\ e.key = <<"snoop", id>> /\ e.stage = "hit"
           /\ e.frame \in Held(c) /\ old = cstate[c][e.frame]
           /\ cstate' = [cstate EXCEPT ![c][e.frame] = Snooped(old, e.type)]
           /\ \E q, r, new :
                 Answering(c, id, old # "I", AnswersShared(old, e.type), q, lower, r, new)
<1> DEFINE key == <<"snoop", id>>
           q == queue[c]
<1>1. /\ At(c, key, "hit")
      /\ UNCHANGED <<requests, busQueue, address, last, failed, answers, overlapped>>
      BY DEF SnoopHit
<1>2. q \in Seq(QueueEntry) /\ UniqueKeys(q)
      BY Basics
<1>3. PICK e \in QueueEntry :
        /\ e = EntryOf(q, key)
        /\ e \in ToSet(q) /\ e.key = key /\ e.stage = "hit"
        /\ EntryInv(c, e) /\ key # NoKey /\ In(q, key) /\ id \in Ids
      BY <1>1, AtProperties
<1>4. PICK old \in LineState : old = cstate[c][e.frame] /\ old # "absent" /\ e.frame \in Held(c)
  <2>1. e.frame \in Held(c)
        BY <1>3 DEF EntryInv
  <2> QED BY <2>1, Basics DEF Typed, Held
<1> DEFINE d == IF old = "M" THEN Down(id, "UPDATE", e.line) ELSE <<>>
           u == IF old # "I" /\ e.type = "WRITE" THEN Up(id, "EVICT", e.line)
                ELSE IF old = "E" THEN Up(id, "UPDATE", e.line) ELSE <<>>
           r == ClearEntry(q \o d \o u, key)
           Q == [queue EXCEPT ![c] = r]
           new == ToSet(d) \cup ToSet(u)
           sh == AnswersShared(old, e.type)
<1>5. /\ cstate' = [cstate EXCEPT ![c][e.frame] = Snooped(old, e.type)]
      /\ Respond(c, id, old # "I", sh, Q, lower)
      BY <1>3, <1>4 DEF SnoopHit
<1>6. cstate' \in [Caches -> [Line -> LineState]] /\ \A x \in Caches : Held(x)' = Held(x)
  <2>1. Snooped(old, e.type) \in LineState \ {"absent"}
        BY DEF Snooped, LineState
  <2> QED BY <1>4, <1>5, <2>1, HeldSame
<1>7. /\ id \in 1 .. Len(requests) /\ requests' = requests
      /\ e.type = requests[id].type /\ e.line \in Line
      /\ {"UPDATE", "EVICT"} \subseteq Type
  <2>1. id \in 1 .. Len(requests) /\ e.type = requests[id].type
        BY <1>3 DEF EntryInv, SnoopInv
  <2> QED BY <1>1, <1>3, <2>1, EntryFields DEF Type
<1>8. d = <<>> \/ d = Down(id, "UPDATE", e.line)
      OBVIOUS
<1>9. u = <<>> \/ u = Up(id, "EVICT", e.line) \/ u = Up(id, "UPDATE", e.line)
      OBVIOUS
<1>10. /\ d \in Seq(QueueEntry) /\ UniqueKeys(d)
       /\ \A f \in ToSet(d) : /\ EntryInv(c, f)' /\ f.key = <<"down", id>> /\ f.waitFor = NoKey
  <2>1. CASE d = <<>>
        BY <2>1, EmptyMessages
  <2>2. CASE d = Down(id, "UPDATE", e.line)
    <3>1. PICK f \in QueueEntry : f = NewEntry(<<"down", id>>, "UPDATE", e.line, "send")
                                  /\ d \in Seq(QueueEntry) /\ UniqueKeys(d) /\ ToSet(d) = {f}
          BY <1>3, <1>7, <2>2, DownProperties
    <3>2. /\ f.key = <<"down", id>> /\ f.type = "UPDATE" /\ f.stage = "send"
          /\ f.frame = NoLine /\ f.waitFor = NoKey
          BY <3>1 DEF NewEntry
    <3>3. EntryInv(c, f)'
      <4>1. f.key[1] = "down" /\ f.key[2] = id
            BY <3>2
      <4> QED BY <1>7, <3>2, <4>1 DEF EntryInv, DownInv
    <3> QED BY <3>1, <3>2, <3>3
  <2> QED BY <1>8, <2>1, <2>2
<1>11. /\ u \in Seq(QueueEntry) /\ UniqueKeys(u)
       /\ \A f \in ToSet(u) : /\ EntryInv(c, f)' /\ f.key[1] \in {"up1", "up2"} /\ f.key[2] = id
                              /\ f.waitFor = NoKey
  <2>1. CASE u = <<>>
        BY <2>1, EmptyMessages
  <2>2. CASE u = Up(id, "EVICT", e.line)
    <3>1. \A f \in ToSet(Up(id, "EVICT", e.line)) :
               EntryInv(c, f)' /\ f.key[1] \in {"up1", "up2"} /\ f.key[2] = id /\ f.waitFor = NoKey
          BY <1>3, <1>7, UpMessages
    <3>2. Up(id, "EVICT", e.line) \in Seq(QueueEntry) /\ UniqueKeys(Up(id, "EVICT", e.line))
          BY <1>3, <1>7, UpProperties
    <3> QED BY <2>2, <3>1, <3>2
  <2>3. CASE u = Up(id, "UPDATE", e.line)
    <3>1. \A f \in ToSet(Up(id, "UPDATE", e.line)) :
               EntryInv(c, f)' /\ f.key[1] \in {"up1", "up2"} /\ f.key[2] = id /\ f.waitFor = NoKey
          BY <1>3, <1>7, UpMessages
    <3>2. Up(id, "UPDATE", e.line) \in Seq(QueueEntry) /\ UniqueKeys(Up(id, "UPDATE", e.line))
          BY <1>3, <1>7, UpProperties
    <3> QED BY <2>3, <3>1, <3>2
  <2> HIDE DEF u
  <2> QED BY <1>9, <2>1, <2>2, <2>3
<1> HIDE DEF d, u
<1>12. \A f \in new : /\ EntryInv(c, f)' /\ f.key[1] \in Offspring /\ f.key[2] = id
                      /\ f.waitFor = NoKey
       BY <1>10, <1>11 DEF Offspring
<1>13. \A f \in new : ~In(q, f.key) /\ f.key # key
  <2> SUFFICES ASSUME NEW f \in new PROVE ~In(q, f.key) /\ f.key # key
      OBVIOUS
  <2>1. f.key # key /\ f.key[2] = id
        BY <1>12 DEF Offspring
  <2>2. \A g \in ToSet(q) : g.key[2] = id => g.key = key
        BY <1>3, Snooping
  <2>3. \A g \in ToSet(q) : g.key # f.key
        BY <2>1, <2>2
  <2> QED BY <1>2, <2>1, <2>3, InSet
<1>14. \A f \in ToSet(d), g \in ToSet(u) : f.key # g.key
       BY <1>10, <1>11
<1>15. Passes(q, r, {key}, new)
       BY <1>2, <1>3, <1>10, <1>11, <1>12, <1>13, <1>14, TwoMessagesThenClear
<1>16. sh \in BOOLEAN /\ (sh => requests[id].type = "READ") /\ (old # "I") \in BOOLEAN
       BY <1>7 DEF AnswersShared
<1>17. /\ c \in Caches => /\ Q = [queue EXCEPT ![c] = r] /\ lower = lower
                          /\ In(queue[c], key) /\ Passes(queue[c], r, {key}, new)
       /\ c \notin Caches => Q = queue /\ lower = lower \ {id} /\ id \in lower
       BY <1>3, <1>15
<1>18. \A f \in new : EntryInv(c, f)' /\ f.key[1] \in Offspring /\ f.key[2] = id
       BY <1>12
<1>19. c \in Controllers
       BY Constants
<1> DEFINE data == old # "I"
<1>20. data \in BOOLEAN /\ Respond(c, id, data, sh, Q, lower)
       BY <1>5
<1> HIDE DEF Q, r, new, sh, data
<1>21. Answering(c, id, data, sh, Q, lower, r, new)
       BY <1>1, <1>3, <1>6, <1>16, <1>17, <1>18, <1>19, <1>20 DEF Answering
<1>22. \E q0, r0, new0 :
          Answering(c, id, old # "I", AnswersShared(old, e.type), q0, lower, r0, new0)
       BY <1>21 DEF data, sh
<1> QED BY <1>3, <1>4, <1>5, <1>22

\* It keeps the invariant.
LEMMA SnoopHitInv ==
    ASSUME BusInv, NEW c \in Caches, NEW id, SnoopHit(c, id)
    PROVE  BusInv'
<1>1. PICK data, shared, q, r, new : Answering(c, id, data, shared, q, lower, r, new)
      BY SnoopHitAnswers
<1> QED BY <1>1, RespondInv

(***************************************************************************)
(* The data phase                                                          *)
(***************************************************************************)
LEMMA DataBroadcastInv ==
    ASSUME BusInv, NEW id, DataBroadcast(id)
    PROVE  BusInv'
<1> DEFINE b == <<"broadcast", id>>
           d == <<"completed", id>>
<1>1. /\ b \in dataEvents /\ dataEvents' = (dataEvents \ {b}) \cup {d}
      /\ UNCHANGED <<requests, queue, cstate, busQueue, address, last, pending,
                     dataBusBusy, lower, failed, late, answers, overlapped>>
      BY DEF DataBroadcast
<1>2. dataBusBusy /\ dataEvents' = {d} /\ d \in DataEvent
  <2>1. b \in DataEvent /\ dataEvents = {b} /\ dataBusBusy
        BY <1>1, EventsFinite, Basics DEF Typed
  <2>2. id \in Ids
        BY <2>1 DEF DataEvent
  <2> QED BY <1>1, <2>1, <2>2 DEF DataEvent
<1>3. DataBusNeverSleeps'
  <2>1. PICK k \in DOMAIN pending : pending[k].id = b[2] /\ AllAnswered(pending[k])
        BY <1>1 DEF BusInv, DataBusNeverSleeps
  <2>2. \A ev \in dataEvents' : pending[k].id = ev[2]
        BY <1>2, <2>1
  <2>3. Cardinality(dataEvents') = 1
        BY <1>2, FS_Singleton
  <2> QED BY <1>1, <1>2, <2>1, <2>2, <2>3 DEF DataBusNeverSleeps, AllAnswered
<1>4. Typed'
      BY <1>1, <1>2, Basics DEF Typed
<1>5. AddressInv'
      BY <1>1 DEF BusInv, AddressInv
<1>6. /\ QueueInv' /\ BusQueueInv' /\ PendingInv' /\ AnswerInv' /\ AnswersAreAwaited'
      /\ Len(pending') <= BusPendingSize
      /\ \A x \in Caches : Len(busQueue'[x]) <= BusQueueSize /\ Cardinality(Held(x)') <= Ways
      BY <1>1, SameQueues
<1> QED BY <1>3, <1>4, <1>5, <1>6 DEF BusInv

\* set_data_bus takes the first request that has all its answers, if there is one.
LEMMA NextDataFirst ==
    ASSUME NEW p \in Seq(PendingRequest)
    PROVE  \/ NextData(p) = {} /\ \A k \in 1 .. Len(p) : ~AllAnswered(p[k])
           \/ \E k \in 1 .. Len(p) : NextData(p) = {k} /\ AllAnswered(p[k])
<1> DEFINE T == {k \in 1 .. Len(p) : AllAnswered(p[k])}
<1>1. Len(p) \in Nat /\ DOMAIN p = 1 .. Len(p)
      BY Elements
<1>2. CASE T = {}
  <2>1. \A k \in 1 .. Len(p) : ~AllAnswered(p[k])
        BY <1>2
  <2> QED BY <1>1, <2>1 DEF NextData
<1>3. CASE T # {}
  <2>1. T \in SUBSET Nat
        BY <1>1
  <2>2. PICK k \in T : \A j \in T : k <= j
        BY <1>3, <2>1, LeastElement
  <2>3. k \in 1 .. Len(p) /\ AllAnswered(p[k])
        OBVIOUS
  <2>4. ASSUME NEW j \in 1 .. k - 1 PROVE ~AllAnswered(p[j])
        BY <1>1, <2>2, <2>3
  <2>5. k \in NextData(p)
        BY <1>1, <2>3, <2>4 DEF NextData
  <2>6. ASSUME NEW n \in NextData(p) PROVE n = k
    <3>1. n \in T /\ \A j \in 1 .. n - 1 : ~AllAnswered(p[j])
          BY <1>1 DEF NextData
    <3>2. k <= n /\ ~(k \in 1 .. n - 1)
          BY <2>2, <2>3, <3>1
    <3> QED BY <1>1, <2>3, <3>1, <3>2
  <2> QED BY <2>3, <2>5, <2>6
<1> QED BY <1>2, <1>3

\* The answer of a request is over: nobody owes the bus anything for it, and the
\* next answer that is complete takes the data bus.
LEMMA CompletedBus ==
    ASSUME BusInv, NEW id, DataCompleted(id)
    PROVE  \E p \in PendingRequest :
           /\ p = PendingOf(id) /\ p \in ToSet(pending) /\ p.id = id /\ id \in Ids
           /\ \A x \in Controllers : ~Awaited(x, id)
           /\ pending' \in Seq(PendingRequest) /\ Len(pending') < Len(pending)
           /\ \A o \in ToSet(pending') : o \in ToSet(pending) /\ o.id # id
           /\ \A j, k \in DOMAIN pending' : pending'[j].id = pending'[k].id => j = k
           /\ \A x \in Controllers, j \in Ids : Awaited(x, j)' <=> Awaited(x, j)
           /\ dataBusBusy' \in BOOLEAN /\ dataEvents' \subseteq DataEvent
           /\ DataBusNeverSleeps'
<1> DEFINE d == <<"completed", id>>
           k == PendingPlace(id)
           rest == RemoveAt(pending, k)
<1>1. /\ d \in dataEvents /\ pending' = rest
      /\ dataBusBusy' = (NextData(rest) # {})
      /\ dataEvents' = (dataEvents \ {d}) \cup {<<"broadcast", rest[n].id>> : n \in NextData(rest)}
      BY DEF DataCompleted
<1>2. /\ pending \in Seq(PendingRequest) /\ Len(pending) \in Nat /\ DOMAIN pending = 1 .. Len(pending)
      /\ \A n \in 1 .. Len(pending) : pending[n] \in PendingRequest /\ pending[n] \in ToSet(pending)
      BY PendingTypes, Elements
<1>3. \A m, n \in 1 .. Len(pending) : pending[m].id = pending[n].id => m = n
      BY <1>2 DEF BusInv, PendingInv
<1>4. dataEvents = {d} /\ id \in Ids
  <2>1. d \in DataEvent /\ dataEvents = {d}
        BY <1>1, EventsFinite, Basics DEF Typed
  <2> QED BY <2>1 DEF DataEvent
<1>5. PICK n \in 1 .. Len(pending) : pending[n].id = id /\ AllAnswered(pending[n])
  <2>1. \E n \in DOMAIN pending : pending[n].id = d[2] /\ AllAnswered(pending[n])
        BY <1>1 DEF BusInv, DataBusNeverSleeps
  <2> QED BY <1>2, <2>1
<1>6. k = n
      BY <1>2, <1>3, <1>5 DEF PendingPlace
<1>7. PendingOf(id) = pending[n]
      BY <1>6 DEF PendingOf
<1> HIDE DEF k, rest
<1>8. /\ pending' \in Seq(PendingRequest) /\ Len(pending') = Len(pending) - 1
      /\ Erased(pending, pending', n)
      BY <1>1, <1>2, <1>6, RemoveAtProperties, RemoveAtErases DEF rest
<1>9. PICK m \in [1 .. Len(pending) - 1 -> 1 .. Len(pending)] :
         /\ \A j \in 1 .. Len(pending) - 1 : m[j] # n /\ pending'[j] = pending[m[j]]
         /\ \A j, i \in 1 .. Len(pending) - 1 : j < i <=> m[j] < m[i]
         /\ \A i \in 1 .. Len(pending) : i # n => \E j \in 1 .. Len(pending) - 1 : m[j] = i
      BY <1>8 DEF Erased
<1>10. DOMAIN pending' = 1 .. Len(pending) - 1
       BY <1>8, Elements
<1>11. \A j \in 1 .. Len(pending) - 1 : m[j] \in 1 .. Len(pending)
       BY <1>9
<1>12. \A o \in ToSet(pending') : o \in ToSet(pending) /\ o.id # id
  <2> SUFFICES ASSUME NEW o \in ToSet(pending') PROVE o \in ToSet(pending) /\ o.id # id
      OBVIOUS
  <2>1. PICK j \in 1 .. Len(pending) - 1 : o = pending'[j]
        BY <1>8, Elements
  <2>2. o = pending[m[j]] /\ m[j] # n
        BY <1>9, <2>1
  <2> QED BY <1>2, <1>3, <1>5, <1>11, <2>2
<1>13. \A j, i \in DOMAIN pending' : pending'[j].id = pending'[i].id => j = i
  <2> SUFFICES ASSUME NEW j \in 1 .. Len(pending) - 1, NEW i \in 1 .. Len(pending) - 1,
                      pending'[j].id = pending'[i].id
               PROVE  j = i
      BY <1>10
  <2>0. pending[m[j]].id = pending[m[i]].id /\ m[j] \in 1 .. Len(pending) /\ m[i] \in 1 .. Len(pending)
        BY <1>9, <1>11
  <2>1. m[j] = m[i]
        BY <1>3, <2>0
  <2>2. ~(j < i) /\ ~(i < j)
        BY <1>2, <1>9, <1>11, <2>1
  <2> QED BY <1>2, <2>2
<1>14. \A x \in Controllers : ~Awaited(x, id)
       BY <1>2, <1>3, <1>5 DEF Awaited, AllAnswered
<1>15. ASSUME NEW x \in Controllers, NEW j \in Ids PROVE Awaited(x, j)' <=> Awaited(x, j)
  <2>1. ASSUME Awaited(x, j)' PROVE Awaited(x, j)
        BY <1>2, <1>9, <1>10, <1>11, <2>1 DEF Awaited
  <2>2. ASSUME Awaited(x, j) PROVE Awaited(x, j)'
    <3>1. PICK i \in 1 .. Len(pending) : pending[i].id = j /\ x \notin pending[i].got
          BY <1>2, <2>2 DEF Awaited
    <3>2. i # n
          BY <1>5, <3>1 DEF AllAnswered
    <3>3. PICK a \in 1 .. Len(pending) - 1 : m[a] = i
          BY <1>9, <3>2
    <3>4. pending'[a] = pending[i]
          BY <1>9, <3>3
    <3> QED BY <1>10, <3>1, <3>4 DEF Awaited
  <2> QED BY <2>1, <2>2
<1>16. /\ dataBusBusy' \in BOOLEAN /\ dataEvents' \subseteq DataEvent /\ DataBusNeverSleeps'
  <2>1. /\ dataBusBusy' = (NextData(pending') # {})
        /\ dataEvents' = {<<"broadcast", pending'[j].id>> : j \in NextData(pending')}
        BY <1>1, <1>4
  <2> DEFINE t == pending'
  <2>2. t \in Seq(PendingRequest) /\ DOMAIN t = 1 .. Len(t)
        BY <1>8, Elements
  <2>3. CASE NextData(t) = {} /\ \A j \in 1 .. Len(t) : ~AllAnswered(t[j])
    <3>1. dataEvents' = {} /\ dataBusBusy' = FALSE
          BY <2>1, <2>3
    <3>2. Cardinality({}) = 0
          BY FS_EmptySet
    <3> QED BY <2>2, <2>3, <3>1, <3>2 DEF DataBusNeverSleeps, AllAnswered
  <2>4. CASE \E j \in 1 .. Len(t) : NextData(t) = {j} /\ AllAnswered(t[j])
    <3>1. PICK j \in 1 .. Len(t) : NextData(t) = {j} /\ AllAnswered(t[j])
          BY <2>4
    <3>2. PICK ev : ev = <<"broadcast", t[j].id>>
          OBVIOUS
    <3>3. dataEvents' = {ev} /\ dataBusBusy' = TRUE
          BY <2>1, <3>1, <3>2
    <3>4. Cardinality({ev}) = 1
          BY FS_Singleton
    <3>5. t[j].id \in Ids
      <4>1. t[j] \in PendingRequest
            BY <2>2
      <4> QED BY <4>1 DEF PendingRequest
    <3>6. ev \in DataEvent /\ ev[2] = t[j].id
          BY <3>2, <3>5 DEF DataEvent
    <3>7. DataBusNeverSleeps'
          BY <2>2, <3>1, <3>3, <3>4, <3>6 DEF DataBusNeverSleeps, AllAnswered
    <3> QED BY <3>3, <3>6, <3>7
  <2>5. \/ NextData(t) = {} /\ \A j \in 1 .. Len(t) : ~AllAnswered(t[j])
        \/ \E j \in 1 .. Len(t) : NextData(t) = {j} /\ AllAnswered(t[j])
    <3> HIDE DEF t
    <3> QED BY <2>2, NextDataFirst
  <2> QED BY <2>3, <2>4, <2>5
<1>17. pending[n] \in PendingRequest /\ pending[n] \in ToSet(pending) /\ Len(pending') < Len(pending)
       BY <1>2, <1>8
<1> QED BY <1>4, <1>5, <1>7, <1>8, <1>12, <1>13, <1>14, <1>15, <1>16, <1>17

\* The request whose data is there, and what its cache and the others have to do
\* with it.
AsksFor(p, c, id) == p \in ToSet(pending) /\ p.cache = c /\ p.id = id

WaitsForData(p, c, id) ==
    /\ c \in Caches /\ id \in Ids /\ id \in 1 .. Len(requests)
    /\ \E a \in QueueEntry :
          /\ a \in ToSet(queue[c]) /\ a = EntryOf(queue[c], <<"local", id>>)
          /\ a.key = <<"local", id>> /\ In(queue[c], a.key)
          /\ a.stage = "asked" /\ a.waitFor = NoKey /\ Expected(a.type) /\ EntryInv(c, a)
          /\ a.type = p.type
          /\ requests[id] = [cache |-> c, type |-> a.type, line |-> a.line]
    /\ answers[id] = 0 /\ NoOffspring(c, id)
    /\ \A e \in ToSet(queue[c]) : Private(e) /\ e.key[2] = id => e.key = <<"local", id>>
    /\ \A y \in Caches \ {c} : \A e \in ToSet(queue[y]) : e.key[2] = id => ~Public(e)
    /\ \A y \in Caches \ {c} : \A m \in ToSet(busQueue[y]) : m.id = id => ~Heard(m.type)
    /\ \A y \in Caches : \A m \in ToSet(busQueue[y]) : m.id = id => ~Expected(m.type)

\* Its cache still waits for it, has made no messages because of it, and no other
\* cache or request says it is on its way.
LEMMA Completing ==
    ASSUME BusInv, NEW p, NEW c, NEW id, AsksFor(p, c, id)
    PROVE  WaitsForData(p, c, id)
<1> DEFINE key == <<"local", id>>
<1>0. p \in ToSet(pending) /\ p.cache = c /\ p.id = id
      BY DEF AsksFor
<1>1. c \in Caches /\ id \in Ids
      BY <1>0, PendingTypes
<1>2. /\ id \in 1 .. Len(requests) /\ c = requests[id].cache /\ LocalAt(c, id, {"asked"})
      /\ p.type = requests[id].type
      BY <1>0 DEF BusInv, PendingInv
<1>3. PICK a \in ToSet(queue[c]) : a.key = key /\ a.stage = "asked"
      BY <1>2 DEF LocalAt
<1>4. a \in QueueEntry /\ EntryInv(c, a) /\ queue[c] \in Seq(QueueEntry) /\ UniqueKeys(queue[c])
      BY <1>1, Basics
<1>5. a.key[1] = "local" /\ a.key[2] = id
      BY <1>3
<1>6. a.waitFor = NoKey /\ LocalInv(c, a)
      BY <1>3, <1>4, <1>5 DEF EntryInv
<1>7. /\ requests[id] = [cache |-> c, type |-> a.type, line |-> a.line]
      /\ Expected(a.type) /\ answers[id] = 0 /\ NoOffspring(c, id)
      BY <1>3, <1>5, <1>6 DEF LocalInv
<1>8. In(queue[c], key) /\ a = EntryOf(queue[c], key)
  <2>1. In(queue[c], key)
        BY <1>3, <1>4, InSet
  <2> QED BY <1>3, <1>4, <2>1, PlaceProperties
<1>9. ASSUME NEW e \in ToSet(queue[c]), Private(e), e.key[2] = id PROVE e.key = key
  <2>1. EntryInv(c, e) /\ e \in QueueEntry /\ In(queue[c], e.key) /\ e.key = <<e.key[1], e.key[2]>>
        BY <1>1, Basics, InSet, EntryFields
  <2>2. e.key[1] \notin {"snoop", "evict"}
        BY <1>2, <1>9, <2>1 DEF EntryInv
  <2>3. e.key[1] # "down"
        BY <1>7, <1>9, <2>1 DEF NoOffspring, Offspring
  <2> QED BY <1>9, <2>1, <2>2, <2>3 DEF Private
<1>10. ASSUME NEW y \in Caches \ {c}, NEW e \in ToSet(queue[y]), e.key[2] = id, Public(e)
       PROVE  FALSE
  <2>1. EntryInv(y, e)
        BY Basics
  <2>2. requests[id].cache = y
        BY <1>10, <2>1 DEF Public, EntryInv, LocalInv, DownInv
  <2> QED BY <1>2, <2>2
<1>11. ASSUME NEW y \in Caches, NEW m \in ToSet(busQueue[y]), m.id = id
       PROVE  (Heard(m.type) => y = c) /\ ~Expected(m.type)
  <2>1. MessageInv(y, m)
        BY DEF BusInv, BusQueueInv
  <2> QED BY <1>0, <1>2, <1>11, <2>1 DEF MessageInv
<1>12. a.type = p.type
       BY <1>2, <1>7
<1> QED BY <1>1, <1>2, <1>3, <1>4, <1>6, <1>7, <1>8, <1>9, <1>10, <1>11, <1>12 DEF WaitsForData

\* The end of a data phase for cache c, whatever it makes of the data.
Ending(id, c, r, gone, new) ==
    /\ DataCompleted(id) /\ c \in Caches /\ c = PendingOf(id).cache
    /\ queue' = [queue EXCEPT ![c] = r] /\ Passes(queue[c], r, gone, new)
    /\ \A j \in Ids : In(r, <<"snoop", j>>) <=> In(queue[c], <<"snoop", j>>)
    /\ \A j : Fresh(c, j) => j = id /\ <<"local", id>> \in gone
    /\ \A j \in Ids : j # id /\ LocalAt(c, j, {"asked"}) => LocalAt(c, j, {"asked"})'
    /\ \A e \in ToSet(queue[c]) :
           e.key \notin gone /\ e.frame \in Held(c) => e.frame \in Held(c)'
    /\ \A f \in new : EntryInv(c, f)'
    /\ \A x \in Caches \ {c} : Held(x)' = Held(x)
    /\ Cardinality(Held(c)') <= Ways
    /\ cstate' \in [Caches -> [Line -> LineState]] /\ failed' \in BOOLEAN

\* Such an end keeps the invariant.
LEMMA CompleteStep ==
    ASSUME BusInv, NEW id, NEW c, NEW r, NEW gone, NEW new, Ending(id, c, r, gone, new)
    PROVE  BusInv'
<1>0. /\ DataCompleted(id) /\ c \in Caches /\ c = PendingOf(id).cache
      /\ queue' = [queue EXCEPT ![c] = r] /\ Passes(queue[c], r, gone, new)
      /\ \A j \in Ids : In(r, <<"snoop", j>>) <=> In(queue[c], <<"snoop", j>>)
      /\ \A j : Fresh(c, j) => j = id /\ <<"local", id>> \in gone
      /\ \A j \in Ids : j # id /\ LocalAt(c, j, {"asked"}) => LocalAt(c, j, {"asked"})'
      /\ \A e \in ToSet(queue[c]) :
            e.key \notin gone /\ e.frame \in Held(c) => e.frame \in Held(c)'
      /\ \A f \in new : EntryInv(c, f)'
      /\ \A x \in Caches \ {c} : Held(x)' = Held(x)
      /\ Cardinality(Held(c)') <= Ways
      /\ cstate' \in [Caches -> [Line -> LineState]] /\ failed' \in BOOLEAN
      BY DEF Ending
<1> USE <1>0
<1> DEFINE g == [y \in Caches |-> IF y = c THEN gone ELSE {}]
           n == [y \in Caches |-> IF y = c THEN new ELSE {}]
<1>1. UNCHANGED <<requests, busQueue, address, last, lower, late, answers, overlapped>>
      BY DEF DataCompleted
<1>2. PICK p \in PendingRequest :
           /\ p = PendingOf(id) /\ p \in ToSet(pending) /\ p.id = id /\ id \in Ids
           /\ \A x \in Controllers : ~Awaited(x, id)
           /\ pending' \in Seq(PendingRequest) /\ Len(pending') < Len(pending)
           /\ \A o \in ToSet(pending') : o \in ToSet(pending) /\ o.id # id
           /\ \A j, k \in DOMAIN pending' : pending'[j].id = pending'[k].id => j = k
           /\ \A x \in Controllers, j \in Ids : Awaited(x, j)' <=> Awaited(x, j)
           /\ dataBusBusy' \in BOOLEAN /\ dataEvents' \subseteq DataEvent
           /\ DataBusNeverSleeps'
      BY CompletedBus
<1>3. p.cache = c /\ p.id = id /\ AsksFor(p, c, id)
      BY <1>2 DEF AsksFor
<1>4. /\ \A e \in ToSet(queue[c]) : Private(e) /\ e.key[2] = id => e.key = <<"local", id>>
      /\ \A y \in Caches \ {c} : \A e \in ToSet(queue[y]) : e.key[2] = id => ~Public(e)
      /\ \A y \in Caches \ {c} : \A m \in ToSet(busQueue[y]) : m.id = id => ~Heard(m.type)
      /\ \A y \in Caches : \A m \in ToSet(busQueue[y]) : m.id = id => ~Expected(m.type)
      BY <1>2, <1>3, Completing DEF WaitsForData
<1>5. /\ queue' \in [Caches -> Seq(QueueEntry)] /\ queue'[c] = r
      /\ \A x \in Caches \ {c} : queue'[x] = queue[x]
      /\ \A x \in Caches : Passes(queue[x], queue'[x], g[x], n[x])
      /\ \A x \in Caches \ {c} : \A i : ~Fresh(x, i)
      BY OneQueue
<1>6. g[c] = gone /\ n[c] = new /\ \A x \in Caches \ {c} : g[x] = {} /\ n[x] = {}
      OBVIOUS
<1> HIDE DEF g, n
<1>7. /\ Typed /\ RequestsKept /\ \A x, j : EvictQueued(x, j)' <=> EvictQueued(x, j)
      BY <1>1, Basics DEF RequestsKept, EvictQueued
<1>8. ASSUME NEW x \in Caches, NEW e \in ToSet(queue[x]), e.key \notin g[x]
      PROVE  Undisturbed(x, e) /\ (e.frame \in Held(x) => e.frame \in Held(x)')
  <2>1. ASSUME Private(e), Fresh(x, e.key[2]) PROVE FALSE
    <3>1. x = c
          BY <1>5, <2>1
    <3>2. e.key[2] = id /\ <<"local", id>> \in gone
          BY <2>1, <3>1
    <3>3. e.key = <<"local", id>>
          BY <1>4, <2>1, <3>1, <3>2
    <3> QED BY <1>6, <1>8, <3>1, <3>2, <3>3
  <2>2. Public(e) => \A y \in Caches \ {x} : ~Fresh(y, e.key[2])
        BY <1>4, <1>5
  <2>3. e.frame \in Held(x) => e.frame \in Held(x)'
        BY <1>6, <1>8
  <2> QED BY <1>1, <1>7, <2>1, <2>2, <2>3 DEF Undisturbed
<1>9. QueueInv'
  <2>1. \A x \in Caches : \A f \in n[x] : EntryInv(x, f)'
        BY <1>6
  <2> QED BY <1>5, <1>7, <1>8, <2>1, QueueKept
<1>10. \A x \in Caches, j \in Ids : j # id /\ LocalAt(x, j, {"asked"}) => LocalAt(x, j, {"asked"})'
       BY <1>5 DEF LocalAt
<1>11. PendingInv'
  <2>1. ASSUME NEW o \in ToSet(pending')
        PROVE  /\ o.id \in 1 .. Len(requests')
               /\ o.cache = requests'[o.id].cache /\ o.type = requests'[o.id].type
               /\ LocalAt(o.cache, o.id, {"asked"})'
               /\ o.cache \in o.got /\ (o.shared => o.type = "READ")
    <3>1. o \in ToSet(pending) /\ o.id # id
          BY <1>2
    <3>2. o.id \in Ids /\ o.cache \in Caches
          BY <3>1, PendingTypes
    <3> QED BY <1>1, <1>10, <3>1, <3>2 DEF BusInv, PendingInv
  <2> QED BY <1>2, <2>1 DEF PendingInv
<1>12. BusQueueInv'
  <2> SUFFICES ASSUME NEW x \in Caches, NEW m \in ToSet(busQueue[x]) PROVE MessageInv(x, m)'
      BY <1>1 DEF BusInv, BusQueueInv
  <2>1. MessageInv(x, m) /\ m.id \in Ids
    <3>1. m \in BusMessage
          BY <1>7, Elements DEF Typed
    <3> QED BY <3>1 DEF BusInv, BusQueueInv, BusMessage
  <2>2. Heard(m.type) => \A y \in Caches \ {x} : ~Fresh(y, m.id)
        BY <1>4, <1>5
  <2>3. Expected(m.type) => /\ LocalAt(x, m.id, {"asked"})'
                            /\ \A o \in ToSet(pending') : o.id # m.id
        BY <1>2, <1>4, <1>10, <2>1 DEF MessageInv
  <2> QED BY <1>7, <2>2, <2>3, MessageKept
<1>13. AnswersAreAwaited'
  <2>1. \A x \in Caches, j \in Ids : In(queue'[x], <<"snoop", j>>) <=> Awaited(x, j)'
    <3>1. \A x \in Caches, j \in Ids : In(queue'[x], <<"snoop", j>>) <=> In(queue[x], <<"snoop", j>>)
          BY <1>5
    <3> QED BY <1>2, <3>1, WorksOn, Constants
  <2>2. \A j \in Ids : j \in lower' <=> Awaited(Lower, j)'
        BY <1>1, <1>2, WorksOn, Constants
  <2>3. ~late' /\ \A x \in Controllers : x = Lower \/ x \in Caches
        BY <1>1, WorksOn, Constants
  <2> QED BY <2>1, <2>2, <2>3 DEF AnswersAreAwaited, Awaited
<1>14. Typed'
       BY <1>1, <1>2, <1>5, <1>7 DEF Typed, PendingRequest
<1>15. Len(pending') <= BusPendingSize
  <2>1. /\ pending \in Seq(PendingRequest) /\ Len(pending) <= BusPendingSize
        /\ BusPendingSize \in Nat
        BY PendingTypes, Constants DEF BusInv
  <2>2. Len(pending) \in Nat /\ Len(pending') \in Nat
        BY <1>2, <2>1, LenProperties
  <2> QED BY <1>2, <2>1, <2>2
<1>16. AddressInv' /\ AnswerInv'
  <2>1. Len(pending') < Len(pending) /\ Len(pending') \in Nat /\ Len(pending) \in Nat
        BY <1>2, PendingTypes, LenProperties
  <2>2. AddressInv /\ BusPendingSize \in Nat
        BY Constants DEF BusInv
  <2> QED BY <1>1, <2>1, <2>2 DEF BusInv, AddressInv, AnswerInv
<1>17. \A x \in Caches : Len(busQueue'[x]) <= BusQueueSize /\ Cardinality(Held(x)') <= Ways
       BY <1>1 DEF BusInv
<1> QED BY <1>2, <1>9, <1>11, <1>12, <1>13, <1>14, <1>15, <1>16, <1>17 DEF BusInv

\* Entries rewritten in place, their keys kept.
LEMMA RewritePasses ==
    ASSUME NEW q \in Seq(QueueEntry), UniqueKeys(q), NEW r \in Seq(QueueEntry),
           Len(r) = Len(q), NEW P \in SUBSET (1 .. Len(q)),
           \A k \in 1 .. Len(q) : r[k].key = q[k].key,
           \A k \in 1 .. Len(q) : k \notin P => r[k] = q[k]
    PROVE  Passes(q, r, {q[k].key : k \in P}, {r[k] : k \in P})
<1> DEFINE gone == {q[k].key : k \in P}
           new  == {r[k] : k \in P}
<1>1. /\ Len(q) \in Nat /\ DOMAIN q = 1 .. Len(q) /\ DOMAIN r = 1 .. Len(q)
      /\ \A k \in 1 .. Len(q) : q[k] \in ToSet(q) /\ r[k] \in ToSet(r)
      BY Elements
<1>2. UniqueKeys(r)
      BY <1>1 DEF UniqueKeys
<1>3. ASSUME NEW e \in ToSet(q), e.key \notin gone PROVE \E f \in ToSet(r) : Same(e, f)
  <2>1. PICK k \in 1 .. Len(q) : e = q[k]
        BY Elements
  <2>2. k \notin P
        BY <1>3, <2>1
  <2> QED BY <1>1, <2>1, <2>2, SameRefl
<1>4. ASSUME NEW f \in ToSet(r), f \notin new
      PROVE  \E e \in ToSet(q) : e.key \notin gone /\ Same(e, f)
  <2>1. PICK k \in 1 .. Len(q) : f = r[k]
        BY Elements
  <2>2. k \notin P
        BY <1>4, <2>1
  <2>3. q[k] = f /\ q[k].key \notin gone
        BY <1>1, <2>1, <2>2 DEF UniqueKeys
  <2> QED BY <1>1, <2>3, SameRefl
<1>5. new \subseteq ToSet(r)
      BY <1>1
<1> HIDE DEF gone, new
<1> QED BY <1>2, <1>3, <1>4, <1>5 DEF Passes, gone, new

\* The first places of a list with messages behind it.
LEMMA WithTwo ==
    ASSUME NEW q \in Seq(QueueEntry), NEW d \in Seq(QueueEntry), NEW u \in Seq(QueueEntry)
    PROVE  /\ q \o d \o u \in Seq(QueueEntry)
           /\ Len(q \o d \o u) = Len(q) + Len(d) + Len(u)
           /\ \A k \in 1 .. Len(q) : (q \o d \o u)[k] = q[k]
           /\ \A k \in 1 .. Len(q) + Len(d) + Len(u) : k \notin 1 .. Len(q) =>
                 (q \o d \o u)[k] = IF k <= Len(q) + Len(d) THEN d[k - Len(q)]
                                                            ELSE u[k - (Len(q) + Len(d))]
<1> DEFINE s == q \o d
<1>1. /\ s \in Seq(QueueEntry) /\ Len(s) = Len(q) + Len(d)
      /\ \A i \in 1 .. Len(q) + Len(d) : s[i] = IF i <= Len(q) THEN q[i] ELSE d[i - Len(q)]
      BY ConcatProperties
<1>2. Len(q) \in Nat /\ Len(d) \in Nat /\ Len(u) \in Nat /\ Len(s) \in Nat
      BY <1>1, LenProperties
<1>3. /\ s \o u \in Seq(QueueEntry) /\ Len(s \o u) = Len(s) + Len(u)
      /\ \A i \in 1 .. Len(s) + Len(u) : (s \o u)[i] = IF i <= Len(s) THEN s[i] ELSE u[i - Len(s)]
  <2> HIDE DEF s
  <2>1. s \in Seq(QueueEntry) /\ u \in Seq(QueueEntry)
        BY <1>1
  <2> QED BY <2>1, ConcatProperties
<1> HIDE DEF s
<1>4. \A k \in 1 .. Len(q) : (s \o u)[k] = q[k]
  <2> SUFFICES ASSUME NEW k \in 1 .. Len(q) PROVE (s \o u)[k] = q[k]
      OBVIOUS
  <2>1. k \in 1 .. Len(s) + Len(u) /\ k <= Len(s) /\ k \in 1 .. Len(q) + Len(d) /\ k <= Len(q)
        BY <1>1, <1>2
  <2> QED BY <1>1, <1>3, <2>1
<1>5. ASSUME NEW k \in 1 .. Len(q) + Len(d) + Len(u), k \notin 1 .. Len(q)
      PROVE  (s \o u)[k] = IF k <= Len(q) + Len(d) THEN d[k - Len(q)]
                                                   ELSE u[k - (Len(q) + Len(d))]
  <2>1. k \in 1 .. Len(s) + Len(u) /\ ~(k <= Len(q)) /\ (k <= Len(s) => k \in 1 .. Len(q) + Len(d))
        BY <1>1, <1>2, <1>5
  <2> QED BY <1>1, <1>3, <2>1
<1> QED BY <1>1, <1>3, <1>4, <1>5 DEF s

\* What a cache may make of data that it takes.
LEMMA NewStates ==
    ASSUME NEW old \in LineState \ {"absent"}, NEW type, NEW shared \in BOOLEAN,
           shared => type = "READ"
    PROVE  GetNewState(old, type, shared) \in LineState \ {"absent", "I"}
BY DEF GetNewState, LineState

\* Cache c takes a line into the frame of the victim.
Refilled(c, line, victim, new) ==
    /\ c \in Caches /\ line \in Line /\ new \in LineState \ {"absent"}
    /\ victim \in Frames(c, line) \/ (victim = line /\ line \in Held(c))
    /\ cstate' = [cstate EXCEPT ![c] = Filled(@, line, victim, new)]

\* It holds the line instead of the victim, and no more lines than frames.
LEMMA FramesAfter ==
    ASSUME BusInv, NEW c, NEW line, NEW victim, NEW new, Refilled(c, line, victim, new)
    PROVE  /\ victim \in Line
           /\ cstate' \in [Caches -> [Line -> LineState]]
           /\ \A x \in Caches \ {c} : Held(x)' = Held(x)
           /\ Held(c)' = (Held(c) \ {victim}) \cup {line}
           /\ Cardinality(Held(c)') <= Ways
<1>0. /\ c \in Caches /\ line \in Line /\ new \in LineState \ {"absent"}
      /\ victim \in Frames(c, line) \/ (victim = line /\ line \in Held(c))
      /\ cstate' = [cstate EXCEPT ![c] = Filled(@, line, victim, new)]
      BY DEF Refilled
<1> USE <1>0
<1>1. /\ cstate \in [Caches -> [Line -> LineState]] /\ Held(c) \subseteq Line
      /\ Cardinality(Held(c)) <= Ways /\ Ways \in Nat
      BY Basics, CoherentBusAssumption DEF BusInv, Typed, Held
<1>2. IsFiniteSet(Held(c)) /\ Cardinality(Held(c)) \in Nat
      BY <1>1, CoherentBusAssumption, FS_Subset, FS_CardinalityType
<1>3. victim = line \/ (victim \in Held(c) /\ line \notin Held(c))
      BY DEF Frames
<1>4. victim \in Line /\ "absent" \in LineState
      BY <1>1, <1>3 DEF LineState
<1>5. cstate' \in [Caches -> [Line -> LineState]]
      BY <1>1, <1>4 DEF Filled
<1>6. \A x \in Caches \ {c} : Held(x)' = Held(x)
      BY <1>1 DEF Held
<1>7. \A l \in Line : cstate'[c][l] = IF l = line THEN new
                                      ELSE IF l = victim THEN "absent" ELSE cstate[c][l]
      BY <1>1 DEF Filled
<1>8. Held(c)' = (Held(c) \ {victim}) \cup {line}
  <2>1. \A l \in Line : cstate'[c][l] # "absent" <=>
                           (l = line \/ (l # victim /\ cstate[c][l] # "absent"))
        BY <1>7
  <2> QED BY <2>1 DEF Held
<1>9. PICK H : H = Held(c)
      OBVIOUS
<1>10. Cardinality((H \ {victim}) \cup {line}) <= Ways
  <2>1. CASE victim = line /\ line \in H
    <3>1. (H \ {victim}) \cup {line} = H
          BY <2>1
    <3>2. Cardinality(H) <= Ways
          BY <1>1, <1>9
    <3> QED BY <3>1, <3>2
  <2>2. CASE victim = line /\ line \notin H
    <3>1. (H \ {victim}) \cup {line} = H \cup {line}
          BY <2>2
    <3>2. Cardinality(H) < Ways
          BY <1>1, <1>2, <1>9, <2>2 DEF Frames
    <3>3. Cardinality(H \cup {line}) = Cardinality(H) + 1 /\ Cardinality(H) \in Nat
          BY <1>2, <1>9, <2>2, FS_AddElement
    <3>4. Cardinality(H \cup {line}) <= Ways
          BY <1>1, <3>2, <3>3
    <3> QED BY <3>1, <3>4
  <2>3. CASE victim \in H /\ line \notin H
    <3>1. PICK K : K = H \ {victim}
          OBVIOUS
    <3>2. IsFiniteSet(K) /\ Cardinality(K) = Cardinality(H) - 1 /\ Cardinality(H) \in Nat
          BY <1>2, <1>9, <2>3, <3>1, FS_RemoveElement
    <3>3. line \notin K
          BY <2>3, <3>1
    <3>4. Cardinality(K \cup {line}) = Cardinality(K) + 1
          BY <3>2, <3>3, FS_AddElement
    <3>5. Cardinality(K \cup {line}) <= Ways
          BY <1>1, <1>9, <3>2, <3>4
    <3> QED BY <3>1, <3>5
  <2> QED BY <1>3, <1>9, <2>1, <2>2, <2>3
<1>11. Held(c)' = (H \ {victim}) \cup {line}
       BY <1>8, <1>9
<1>12. Cardinality(Held(c)') <= Ways
       BY <1>10, <1>11
<1> QED BY <1>4, <1>5, <1>6, <1>8, <1>12

\* An entry of the cache that takes the data follows its line to the frame it
\* gets, and the entry that asked sends it up.
TakenOver(e, f, key, line, victim) ==
    /\ f \in QueueEntry /\ f.key = e.key /\ f.type = e.type /\ f.line = e.line
    /\ f.waitFor = e.waitFor
    /\ f.frame = IF e.frame = victim \/ e.key = key THEN line ELSE e.frame
    /\ f.stage = IF e.key = key THEN "fill" ELSE e.stage
    /\ [f EXCEPT !.frame = e.frame] = IF e.key = key THEN [e EXCEPT !.stage = "fill"] ELSE e

\* Its fields.
LEMMA RetakenFields ==
    ASSUME NEW e \in QueueEntry, NEW key, NEW line \in Line, NEW victim
    PROVE  TakenOver(e, Retaken(e, key, line, victim), key, line, victim)
BY DEF Retaken, TakenOver, QueueEntry, Stage

\* The entries of the cache that takes the data, in their places.
LEMMA RetakeProperties ==
    ASSUME NEW q \in Seq(QueueEntry), NEW key, NEW line \in Line, NEW victim
    PROVE  /\ Retake(q, key, line, victim) \in Seq(QueueEntry)
           /\ Len(Retake(q, key, line, victim)) = Len(q)
           /\ \A k \in 1 .. Len(q) :
                 TakenOver(q[k], Retake(q, key, line, victim)[k], key, line, victim)
<1> DEFINE Ret(k) == Retaken(q[k], key, line, victim)
<1>1. Len(q) \in Nat /\ DOMAIN q = 1 .. Len(q) /\ \A k \in 1 .. Len(q) : q[k] \in QueueEntry
      BY Elements
<1>2. \A k \in 1 .. Len(q) : TakenOver(q[k], Ret(k), key, line, victim)
      BY <1>1, RetakenFields
<1>3. \A k \in 1 .. Len(q) : Ret(k) \in QueueEntry
      BY <1>2 DEF TakenOver
<1>4. PICK r : r = [k \in 1 .. Len(q) |-> Ret(k)]
      OBVIOUS
<1>5. r = Retake(q, key, line, victim)
      BY <1>1, <1>4 DEF Retake
<1> HIDE DEF Ret
<1>6. r \in Seq(QueueEntry) /\ Len(r) = Len(q) /\ \A k \in 1 .. Len(q) : r[k] = Ret(k)
      BY <1>1, <1>3, <1>4, IsASeq, LenProperties
<1> QED BY <1>2, <1>5, <1>6

\* The cache that asked has the line, which it does not own when others share it,
\* and the entry that asked sends it up.
DataTaken(p, victim, new) ==
    LET c == p.cache
        key == <<"local", p.id>> IN
    /\ cstate' = [cstate EXCEPT ![c] = Filled(@, requests[p.id].line, victim, new)]
    /\ new \in {"E", "M"} => ~p.shared
    /\ \A x \in Caches \ {c} : queue'[x] = queue[x]
    /\ \A f \in ToSet(queue'[c]) : /\ f.key = key => f.stage = "fill"
                                   /\ f.key[2] = p.id \/ In(queue[c], f.key)

\* The cache that asked takes the data.
LEMMA TakesDataInv ==
    ASSUME BusInv, NEW id, DataCompleted(id), NEW c \in Caches, NEW p \in ToSet(pending),
           p = PendingOf(id), p.id = id, p.cache = c, CompleteRequest(c, id, p.shared)
    PROVE  BusInv' /\ failed' = FALSE /\ \E victim, new : DataTaken(p, victim, new)
<1>k. PICK key : key = <<"local", id>>
      OBVIOUS
<1>0. WaitsForData(p, c, id)
  <2>1. AsksFor(p, c, id)
        BY DEF AsksFor
  <2> QED BY <2>1, Completing
<1>1. /\ id \in Ids /\ id \in 1 .. Len(requests)
      /\ answers[id] = 0 /\ NoOffspring(c, id)
      /\ \A e \in ToSet(queue[c]) : Private(e) /\ e.key[2] = id => e.key = <<"local", id>>
      /\ \A y \in Caches \ {c} : \A e \in ToSet(queue[y]) : e.key[2] = id => ~Public(e)
      BY <1>0 DEF WaitsForData
<1>2. PICK a \in QueueEntry :
         /\ a \in ToSet(queue[c]) /\ a = EntryOf(queue[c], key) /\ a.key = key
         /\ In(queue[c], a.key)
         /\ a.stage = "asked" /\ a.waitFor = NoKey /\ Expected(a.type) /\ EntryInv(c, a)
         /\ a.type = p.type
         /\ requests[id] = [cache |-> c, type |-> a.type, line |-> a.line]
      BY <1>0, <1>k DEF WaitsForData
<1>3. PICK q \in Seq(QueueEntry) : q = queue[c] /\ UniqueKeys(q)
      BY Basics
<1>4. PICK line \in Line, insert \in BOOLEAN : line = a.line /\ insert = (a.frame # a.line)
      BY <1>2, EntryFields
<1> DEFINE e0 == EntryOf(queue[c], <<"local", id>>)
<1>5. PICK victim \in IF e0.frame # e0.line THEN Frames(c, e0.line) ELSE {e0.line} :
       LET old  == IF victim \in Held(c) THEN cstate[c][victim] ELSE "I"
           down == IF e0.frame # e0.line /\ old = "M" THEN Down(id, "UPDATE", victim) ELSE <<>>
           new  == GetNewState(IF e0.frame # e0.line THEN "I" ELSE old, e0.type, p.shared)
           up   == IF old # "I" /\ (e0.frame # e0.line \/ new = "I")
                   THEN Up(id, "EVICT", victim) ELSE <<>>
       IN
       /\ cstate' = [cstate EXCEPT ![c] =
             Filled(@, e0.line, victim, IF new = "assert" THEN "I" ELSE new)]
       /\ queue' = [queue EXCEPT ![c] = Retake(@, <<"local", id>>, e0.line, victim) \o down \o up]
       /\ failed' = (new = "assert")
      BY Zenon DEF CompleteRequest
<1>e. a = e0 /\ e0.line = line /\ insert = (e0.frame # e0.line)
      BY <1>2, <1>4, <1>k
<1> HIDE DEF e0
<1>6. PICK old \in LineState \ {"absent"} :
          old = IF victim \in Held(c) THEN cstate[c][victim] ELSE "I"
  <2>1. victim \in Held(c) => victim \in Line /\ cstate[c][victim] \in LineState \ {"absent"}
        BY Basics DEF Typed, Held
  <2> QED BY <2>1 DEF LineState
<1>d. PICK d : d = IF insert /\ old = "M" THEN Down(id, "UPDATE", victim) ELSE <<>>
      OBVIOUS
<1>u. PICK u : u = IF insert /\ old # "I" THEN Up(id, "EVICT", victim) ELSE <<>>
      OBVIOUS
<1>m. PICK m : m = Retake(q, key, line, victim)
      OBVIOUS
<1> DEFINE r == m \o d \o u
<1>7. PICK new \in LineState \ {"absent", "I"} :
          /\ new = GetNewState(IF insert THEN "I" ELSE old, a.type, p.shared)
          /\ new \in {"E", "M"} => ~p.shared
  <2>1. p.shared \in BOOLEAN /\ (p.shared => a.type = "READ")
    <3>1. p \in PendingRequest
          BY PendingTypes
    <3>2. p.shared => p.type = "READ"
          BY DEF BusInv, PendingInv
    <3> QED BY <1>2, <3>1, <3>2 DEF PendingRequest
  <2>2. (IF insert THEN "I" ELSE old) \in LineState \ {"absent"}
        BY DEF LineState
  <2>3. p.shared => GetNewState(IF insert THEN "I" ELSE old, a.type, p.shared) = "S"
        BY <2>1 DEF GetNewState
  <2> QED BY <2>1, <2>2, <2>3, NewStates
<1>8. new # "assert"
      BY DEF LineState
<1>9. /\ queue' = [queue EXCEPT ![c] = r] /\ failed' = FALSE
      /\ cstate' = [cstate EXCEPT ![c] = Filled(@, line, victim, new)]
      /\ victim \in IF insert THEN Frames(c, line) ELSE {line}
      BY <1>3, <1>5, <1>6, <1>7, <1>8, <1>e, <1>k, <1>d, <1>u, <1>m
<1>10. /\ victim \in Line
       /\ cstate' \in [Caches -> [Line -> LineState]]
       /\ \A x \in Caches \ {c} : Held(x)' = Held(x)
       /\ Held(c)' = (Held(c) \ {victim}) \cup {line}
       /\ Cardinality(Held(c)') <= Ways
  <2>1. ~insert => line \in Held(c)
        BY <1>2, <1>4, Constants DEF EntryInv
  <2>2. Refilled(c, line, victim, new)
        BY <1>4, <1>5, <1>7, <1>9, <2>1 DEF Refilled
  <2> QED BY <2>2, FramesAfter
<1>11. /\ m \in Seq(QueueEntry) /\ Len(m) = Len(q)
       /\ \A k \in 1 .. Len(q) : TakenOver(q[k], m[k], key, line, victim)
       BY <1>3, <1>4, <1>m, RetakeProperties
<1>12. d = <<>> \/ d = Down(id, "UPDATE", victim)
       BY <1>d
<1>13. u = <<>> \/ u = Up(id, "EVICT", victim)
       BY <1>u
<1>14. {"UPDATE", "EVICT"} \subseteq Type /\ requests' = requests /\ answers' = answers
       /\ Len(requests) \in Nat
       BY Basics DEF Type, DataCompleted
<1>15. /\ d \in Seq(QueueEntry) /\ UniqueKeys(d)
       /\ \A f \in ToSet(d) : /\ EntryInv(c, f)' /\ f.key = <<"down", id>> /\ f.waitFor = NoKey
  <2>1. CASE d = <<>>
        BY <2>1, EmptyMessages
  <2>2. CASE d = Down(id, "UPDATE", victim)
    <3>1. PICK f \in QueueEntry : f = NewEntry(<<"down", id>>, "UPDATE", victim, "send")
                                  /\ d \in Seq(QueueEntry) /\ UniqueKeys(d) /\ ToSet(d) = {f}
          BY <1>1, <1>10, <1>14, <2>2, DownProperties
    <3>2. /\ f.key = <<"down", id>> /\ f.type = "UPDATE" /\ f.stage = "send"
          /\ f.frame = NoLine /\ f.waitFor = NoKey
          BY <3>1 DEF NewEntry
    <3>3. EntryInv(c, f)'
      <4>1. f.key[1] = "down" /\ f.key[2] = id
            BY <3>2
      <4> QED BY <1>1, <1>14, <3>2, <4>1 DEF EntryInv, DownInv
    <3> QED BY <3>1, <3>2, <3>3
  <2> QED BY <1>12, <2>1, <2>2
<1>16. /\ u \in Seq(QueueEntry) /\ UniqueKeys(u)
       /\ \A f \in ToSet(u) : /\ EntryInv(c, f)' /\ f.key[1] \in {"up1", "up2"} /\ f.key[2] = id
                              /\ f.waitFor = NoKey
  <2>1. CASE u = <<>>
        BY <2>1, EmptyMessages
  <2>2. CASE u = Up(id, "EVICT", victim)
    <3>1. \A f \in ToSet(Up(id, "EVICT", victim)) :
               EntryInv(c, f)' /\ f.key[1] \in {"up1", "up2"} /\ f.key[2] = id /\ f.waitFor = NoKey
          BY <1>1, <1>10, <1>14, UpMessages
    <3>2. Up(id, "EVICT", victim) \in Seq(QueueEntry) /\ UniqueKeys(Up(id, "EVICT", victim))
          BY <1>1, <1>10, <1>14, UpProperties
    <3> QED BY <2>2, <3>1, <3>2
  <2> QED BY <1>13, <2>1, <2>2
<1> DEFINE DU == ToSet(d) \cup ToSet(u)
<1>17. \A f \in DU : /\ EntryInv(c, f)' /\ f.key[2] = id /\ f.waitFor = NoKey
                     /\ ~In(q, f.key) /\ f.key # <<"snoop", f.key[2]>>
  <2>1. \A f \in DU : \E role \in Offspring : f.key = <<role, id>>
    <3>1. \A f \in ToSet(u) : f.key = <<"up1", id>> \/ f.key = <<"up2", id>>
      <4>1. CASE u = <<>>
            BY <4>1, EmptyMessages
      <4>2. CASE u = Up(id, "EVICT", victim)
            BY <1>1, <1>10, <1>14, <4>2, UpProperties
      <4> QED BY <1>13, <4>1, <4>2
    <3> QED BY <1>15, <3>1 DEF Offspring
  <2>2. \A role \in Offspring : ~In(q, <<role, id>>) /\ role # "snoop"
        BY <1>1, <1>3 DEF NoOffspring, Offspring
  <2>3. \A f \in DU : EntryInv(c, f)' /\ f.waitFor = NoKey
        BY <1>15, <1>16
  <2> SUFFICES ASSUME NEW f \in DU
               PROVE  f.key[2] = id /\ ~In(q, f.key) /\ f.key # <<"snoop", f.key[2]>>
      BY <2>3
  <2>4. PICK role \in Offspring : f.key = <<role, id>>
        BY <2>1
  <2> QED BY <2>2, <2>4
<1> DEFINE s == q \o d \o u
           P == 1 .. Len(q)
           G == {s[k].key : k \in P}
           N == {r[k] : k \in P}
<1>18. Passes(q, s, {}, DU)
  <2>1. \A f \in ToSet(d), g \in ToSet(u) : f.key # g.key
        BY <1>15, <1>16
  <2> QED BY <1>3, <1>15, <1>16, <1>17, <2>1, TwoMessages
<1>19. /\ s \in Seq(QueueEntry) /\ r \in Seq(QueueEntry) /\ Len(r) = Len(s) /\ P \subseteq 1 .. Len(s)
       /\ \A k \in P : s[k] = q[k] /\ q[k] \in QueueEntry /\ TakenOver(q[k], r[k], key, line, victim)
       /\ \A k \in 1 .. Len(s) : k \notin P => r[k] = s[k]
  <2>1. Len(q) \in Nat /\ Len(d) \in Nat /\ Len(u) \in Nat /\ \A k \in P : q[k] \in QueueEntry
        BY <1>3, <1>15, <1>16, Elements
  <2>2. /\ s \in Seq(QueueEntry) /\ Len(s) = Len(q) + Len(d) + Len(u)
        /\ \A k \in 1 .. Len(q) : s[k] = q[k]
        /\ \A k \in 1 .. Len(q) + Len(d) + Len(u) : k \notin 1 .. Len(q) =>
              s[k] = IF k <= Len(q) + Len(d) THEN d[k - Len(q)] ELSE u[k - (Len(q) + Len(d))]
        BY <1>3, <1>15, <1>16, WithTwo
  <2>3. /\ r \in Seq(QueueEntry) /\ Len(r) = Len(m) + Len(d) + Len(u)
        /\ \A k \in 1 .. Len(m) : r[k] = m[k]
        /\ \A k \in 1 .. Len(m) + Len(d) + Len(u) : k \notin 1 .. Len(m) =>
              r[k] = IF k <= Len(m) + Len(d) THEN d[k - Len(m)] ELSE u[k - (Len(m) + Len(d))]
    <3>1. m \in Seq(QueueEntry) /\ d \in Seq(QueueEntry) /\ u \in Seq(QueueEntry)
          BY <1>11, <1>15, <1>16
    <3> QED BY <3>1, WithTwo
  <2>4. Len(m) = Len(q)
        BY <1>11
  <2> HIDE DEF s, r
  <2>5. /\ \A k \in P : s[k] = q[k] /\ r[k] = m[k] /\ q[k] \in QueueEntry
        /\ \A k \in 1 .. Len(s) : k \notin P => r[k] = s[k]
        BY <2>1, <2>2, <2>3, <2>4
  <2>6. Len(r) = Len(s) /\ P \subseteq 1 .. Len(s)
        BY <2>1, <2>2, <2>3, <2>4
  <2> QED BY <1>11, <2>2, <2>3, <2>5, <2>6
<1>20. \A k \in P : r[k].key = s[k].key
       BY <1>19 DEF TakenOver
<1> HIDE DEF s, r
<1>21. Passes(s, r, G, N) /\ UniqueKeys(s)
  <2>1. UniqueKeys(s)
        BY <1>18 DEF Passes
  <2>2. \A k \in 1 .. Len(s) : r[k].key = s[k].key
        BY <1>19, <1>20
  <2> HIDE DEF P
  <2> QED BY <1>19, <2>1, <2>2, RewritePasses
<1> DEFINE gone == {} \cup G
           nn == {e \in DU : e.key \notin G} \cup N
<1>22. Passes(q, r, gone, nn)
  <2>1. \A e \in DU : e.key \notin G => e.waitFor = NoKey
        BY <1>17
  <2> HIDE DEF DU, G, N
  <2> QED BY <1>18, <1>21, <2>1, PassesThrough
<1>23. \A e \in ToSet(q) : e.key \in gone /\ \E k \in P : e = q[k]
  <2> SUFFICES ASSUME NEW e \in ToSet(q) PROVE e.key \in gone /\ \E k \in P : e = q[k]
      OBVIOUS
  <2>1. PICK k \in P : e = q[k]
        BY <1>3, Elements
  <2> QED BY <1>19, <2>1
<1>24. \A x : In(r, x) <=> (In(q, x) \/ \E f \in DU : f.key = x)
  <2>1. DOMAIN r = 1 .. Len(s) /\ DOMAIN s = 1 .. Len(s)
        BY <1>19, Elements
  <2>2. \A x : In(r, x) <=> In(s, x)
        BY <1>19, <1>20, <2>1 DEF In
  <2>3. \A x : In(s, x) <=> (In(q, x) \/ \E f \in DU : f.key = x)
    <3> SUFFICES ASSUME NEW x PROVE In(s, x) <=> (In(q, x) \/ \E f \in DU : f.key = x)
        OBVIOUS
    <3> HIDE DEF DU
    <3>1. In(s, x) <=> ((\E f \in DU : f.key = x) \/ (In(q, x) /\ x \notin {}))
          BY <1>3, <1>18, PassesIn
    <3> QED BY <3>1
  <2> QED BY <2>2, <2>3
<1>25. /\ queue'[c] = r /\ \A x \in Caches \ {c} : queue'[x] = queue[x]
  <2> QED BY <1>9, Basics DEF Typed
<1>26. \A j : Fresh(c, j) => j = id /\ key \in gone
  <2>1. \A role : \A j : In(r, <<role, j>>) /\ ~In(q, <<role, j>>) => j = id
        BY <1>17, <1>24
  <2>2. key \in gone
        BY <1>2, <1>3, <1>23
  <2> HIDE DEF gone, r
  <2> QED BY <1>3, <1>25, <2>1, <2>2 DEF Fresh
<1>27. \A j \in Ids : In(r, <<"snoop", j>>) <=> In(q, <<"snoop", j>>)
  <2>1. \A f \in DU : \A j \in Ids : f.key # <<"snoop", j>>
        BY <1>17
  <2> HIDE DEF DU
  <2> QED BY <1>24, <2>1
<1>28. ASSUME NEW j \in Ids, j # id, LocalAt(c, j, {"asked"}) PROVE LocalAt(c, j, {"asked"})'
  <2>1. PICK e \in ToSet(q) : e.key = <<"local", j>> /\ e.stage = "asked"
        BY <1>3, <1>28 DEF LocalAt
  <2>2. PICK k \in P : e = q[k]
        BY <1>23
  <2>3. r[k].key = <<"local", j>> /\ r[k].stage = "asked"
    <3>1. TakenOver(e, r[k], key, line, victim)
          BY <1>19, <2>2
    <3>2. e.key # key
          BY <1>28, <1>k, <2>1
    <3> QED BY <2>1, <3>1, <3>2 DEF TakenOver
  <2>4. r[k] \in ToSet(r)
        BY <1>19, <2>2, Elements
  <2> QED BY <1>25, <2>3, <2>4 DEF LocalAt
<1>29. ASSUME NEW k \in P PROVE EntryInv(c, r[k])'
  <2>1. PICK e \in QueueEntry : e = q[k] /\ e \in ToSet(q) /\ EntryInv(c, e)
        BY <1>3, <1>19, Elements, Basics
  <2>2. PICK f \in QueueEntry :
           /\ f = r[k] /\ f.key = e.key /\ f.type = e.type /\ f.line = e.line
           /\ f.waitFor = e.waitFor
           /\ f.frame = IF e.frame = victim \/ e.key = key THEN line ELSE e.frame
           /\ f.stage = IF e.key = key THEN "fill" ELSE e.stage
           /\ [f EXCEPT !.frame = e.frame] = IF e.key = key THEN [e EXCEPT !.stage = "fill"] ELSE e
        BY <1>19, <2>1 DEF TakenOver
  <2>3. f.frame # NoLine => f.frame \in Held(c)'
        BY <1>10, <2>1, <2>2 DEF EntryInv
  <2>4. CASE e.key = key
    <3>1. e = a
          BY <1>2, <1>3, <2>1, <2>4, OneEntry
    <3>2. f.key[1] = "local" /\ f.key[2] = id /\ f.stage = "fill" /\ f.waitFor = NoKey
      <4>1. f.key = key /\ f.stage = "fill"
            BY <2>2, <2>4
      <4>2. f.waitFor = NoKey
            BY <1>2, <2>2, <3>1
      <4>3. key[1] = "local" /\ key[2] = id
            BY <1>k
      <4> QED BY <4>1, <4>2, <4>3
    <3>3. LocalInv(c, f)'
      <4>1. f.type = a.type /\ f.line = a.line
            BY <2>2, <3>1
      <4> QED BY <1>1, <1>2, <1>14, <3>2, <4>1 DEF LocalInv, Unsent
    <3> QED BY <1>1, <1>14, <2>2, <2>3, <3>2, <3>3 DEF EntryInv
  <2>5. CASE e.key # key
    <3>1. Same(e, [f EXCEPT !.frame = e.frame])
          BY <2>2, <2>5, SameRefl
    <3>2. e.frame # NoLine => f.frame # NoLine
          BY <2>2, Constants
    <3>3. Undisturbed(c, e)
      <4>1. \A x, i : EvictQueued(x, i)' <=> EvictQueued(x, i)
            BY DEF DataCompleted, EvictQueued
      <4>2. \A y \in Caches \ {c} : \A i : ~Fresh(y, i)
            BY <1>25 DEF Fresh
      <4>3. Private(e) => ~Fresh(c, e.key[2])
            BY <1>1, <1>3, <1>26, <1>k, <2>1, <2>5
      <4> QED BY <1>14, <4>1, <4>2, <4>3 DEF Undisturbed
    <3>4. RequestsKept
          BY <1>14 DEF RequestsKept
    <3>5. e \in ToSet(queue[c]) /\ f \in QueueEntry
          BY <1>3, <2>1, <2>2
    <3>6. EntryInv(c, f)'
          BY <2>3, <3>1, <3>2, <3>3, <3>4, <3>5, EntryReframed
    <3> QED BY <2>2, <3>6
  <2> QED BY <2>4, <2>5
<1>30. \A f \in nn : EntryInv(c, f)'
       BY <1>17, <1>29
<1>31. \A e \in ToSet(q) : e.key \notin gone /\ e.frame \in Held(c) => e.frame \in Held(c)'
       BY <1>23
<1>32. \A j \in Ids : j # id /\ LocalAt(c, j, {"asked"}) => LocalAt(c, j, {"asked"})'
       BY <1>28
<1>t. ASSUME NEW f \in ToSet(queue'[c])
      PROVE  /\ f.key = <<"local", id>> => f.stage = "fill"
             /\ f.key[2] = id \/ In(queue[c], f.key)
  <2>1. f \in nn
    <3>1. f \in ToSet(r)
          BY <1>25, <1>t
    <3> HIDE DEF gone, nn
    <3> QED BY <1>22, <1>23, <3>1 DEF Passes
  <2>2. CASE f \in DU
    <3>1. f.key # key
          BY <1>2, <1>3, <1>17, <2>2
    <3> QED BY <1>17, <1>k, <2>2, <3>1
  <2>3. CASE f \in N
    <3>1. PICK k \in P : f = r[k]
          BY <2>3
    <3>2. q[k] \in ToSet(q) /\ TakenOver(q[k], f, key, line, victim)
          BY <1>3, <1>19, <3>1, Elements
    <3>3. f.key = q[k].key /\ (q[k].key = key => f.stage = "fill")
          BY <3>2 DEF TakenOver
    <3> QED BY <1>3, <1>k, <3>2, <3>3, InSet
  <2> QED BY <2>1, <2>2, <2>3
<1>x. DataTaken(p, victim, new)
  <2>1. requests[p.id].line = line
        BY <1>2, <1>4
  <2>2. \A x \in Caches \ {c} : queue'[x] = queue[x]
        BY <1>25
  <2> QED BY <1>7, <1>9, <1>t, <2>1, <2>2 DEF DataTaken
<1> HIDE DEF gone, nn
<1>33. Ending(id, c, r, gone, nn)
  <2>1. Passes(queue[c], r, gone, nn) /\ c = PendingOf(id).cache /\ failed' \in BOOLEAN
        BY <1>3, <1>9, <1>22
  <2>2. \A j : Fresh(c, j) => j = id /\ <<"local", id>> \in gone
        BY <1>26, <1>k
  <2>3. \A j \in Ids : In(r, <<"snoop", j>>) <=> In(queue[c], <<"snoop", j>>)
        BY <1>3, <1>27
  <2>4. \A e \in ToSet(queue[c]) :
           e.key \notin gone /\ e.frame \in Held(c) => e.frame \in Held(c)'
        BY <1>3, <1>31
  <2> QED BY <1>9, <1>10, <1>30, <1>32, <2>1, <2>2, <2>3, <2>4 DEF Ending
<1> QED BY <1>9, <1>33, <1>x, CompleteStep

\* The end of a data phase keeps the invariant, and with room in the cache that
\* asked no assert fails.
LEMMA DataCompletedInv ==
    ASSUME BusInv, NEW id, DataCompleted(id)
    PROVE  BusInv' /\ (RoomToAct(PendingOf(id).cache) => failed' = FALSE)
<1>1. PICK p \in ToSet(pending) : p = PendingOf(id) /\ p.id = id
      BY CompletedBus
<1>2. PICK c \in Caches : c = p.cache
      BY PendingTypes
<1>3. CASE RoomToAct(c)
  <2>1. CompleteRequest(c, id, p.shared)
        BY <1>1, <1>2, <1>3 DEF DataCompleted
  <2> QED BY <1>1, <1>2, <2>1, TakesDataInv
<1>4. CASE ~RoomToAct(c)
  <2>1. failed' = TRUE /\ UNCHANGED <<queue, cstate>>
        BY <1>1, <1>2, <1>4 DEF DataCompleted
  <2> DEFINE r == queue[c]
             gone == {}
             new == {}
  <2>2. queue' = [queue EXCEPT ![c] = r]
        BY <2>1, Basics DEF Typed
  <2>3. Passes(queue[c], r, gone, new)
        BY Basics, PassesStay
  <2>4. /\ \A j : ~Fresh(c, j)
        /\ \A j \in Ids : LocalAt(c, j, {"asked"}) => LocalAt(c, j, {"asked"})'
        BY <2>1 DEF Fresh, LocalAt
  <2>5. /\ \A x \in Caches : Held(x)' = Held(x) /\ Cardinality(Held(x)') <= Ways
        /\ cstate' \in [Caches -> [Line -> LineState]] /\ failed' \in BOOLEAN
        BY <2>1, Basics DEF BusInv, Typed, Held
  <2>6. \A f \in new : EntryInv(c, f)'
        OBVIOUS
  <2>7. \A j \in Ids : In(r, <<"snoop", j>>) <=> In(queue[c], <<"snoop", j>>)
        OBVIOUS
  <2> HIDE DEF r, gone, new
  <2>8. Ending(id, c, r, gone, new)
        BY <1>1, <1>2, <2>2, <2>3, <2>4, <2>5, <2>6, <2>7 DEF Ending
  <2>9. BusInv'
        BY <2>8, CompleteStep
  <2> QED BY <1>1, <1>2, <1>4, <2>9
<1> QED BY <1>3, <1>4

(***************************************************************************)
(* The theorems                                                            *)
(***************************************************************************)
\* At the start nothing is under way, and the caches hold what Contents says.
LEMMA InitInv == Init => BusInv
<1> SUFFICES ASSUME Init PROVE BusInv
    OBVIOUS
<1>1. /\ requests = <<>> /\ pending = <<>> /\ lower = {} /\ dataEvents = {}
      /\ queue = [c \in Caches |-> <<>>] /\ busQueue = [c \in Caches |-> <<>>]
      /\ answers = [i \in Ids |-> 0] /\ last = 1 /\ cstate \in Contents
      /\ address = [event |-> "idle", cache |-> 1]
      /\ dataBusBusy = FALSE /\ failed = FALSE /\ late = FALSE /\ overlapped = FALSE
      BY DEF Init
<1>2. \A S : <<>> \in Seq(S) /\ Len(<<>>) = 0 /\ DOMAIN <<>> = {}
      OBVIOUS
<1>3. ToSet(<<>>) = {}
      BY DEF ToSet
<1>4. 1 \in Caches /\ 1 \in Controllers /\ MaxRequests \in Nat
      BY Constants DEF Caches
<1>5. cstate \in [Caches -> [Line -> LineState]]
      BY <1>1, CoherentBusAssumption
<1>6. Typed
  <2>1. /\ requests \in Seq(Message) /\ Len(requests) <= MaxRequests
        /\ queue \in [Caches -> Seq(QueueEntry)] /\ busQueue \in [Caches -> Seq(BusMessage)]
        BY <1>1, <1>2, <1>4
  <2>2. pending \in Seq(PendingRequest) /\ answers \in [Ids -> Nat]
        BY <1>1, <1>2
  <2>3. address \in [event : {"idle", "poll", "broadcast", "completed"}, cache : Caches]
        BY <1>1, <1>4
  <2> QED BY <1>1, <1>4, <1>5, <2>1, <2>2, <2>3 DEF Typed, PendingRequest
<1>7. QueueInv /\ BusQueueInv /\ PendingInv /\ AddressInv /\ AnswerInv
  <2>1. QueueInv
        BY <1>1, <1>2, <1>3 DEF QueueInv, UniqueKeys
  <2>2. BusQueueInv
        BY <1>1, <1>2, <1>3 DEF BusQueueInv
  <2>3. PendingInv
        BY <1>1, <1>2, <1>3 DEF PendingInv
  <2>4. AddressInv /\ AnswerInv
        BY <1>1 DEF AddressInv, AnswerInv
  <2> QED BY <2>1, <2>2, <2>3, <2>4
<1>8. /\ Len(pending) <= BusPendingSize
      /\ \A c \in Caches : Len(busQueue[c]) <= BusQueueSize
      BY <1>1, <1>2, Constants
<1>9. ASSUME NEW c \in Caches PROVE Cardinality(Held(c)) <= Ways
      BY <1>1, CoherentBusAssumption DEF Held
<1>10. DataBusNeverSleeps
  <2>1. Cardinality(dataEvents) = 0
        BY <1>1, FS_EmptySet
  <2> QED BY <1>1, <1>2, <2>1 DEF DataBusNeverSleeps
<1>11. AnswersAreAwaited
  <2>1. \A c \in Caches : queue[c] = <<>>
        BY <1>1
  <2>2. \A key : ~In(<<>>, key)
        BY <1>2 DEF In
  <2>3. \A c \in Controllers : c = Lower \/ c \in Caches
        BY Constants
  <2> QED BY <1>1, <1>2, <2>1, <2>2, <2>3 DEF AnswersAreAwaited
<1> QED BY <1>6, <1>7, <1>8, <1>9, <1>10, <1>11 DEF BusInv

\* Which action a step is.
LEMMA StepOf ==
    ASSUME Next
    PROVE  \/ \E msg \in Message : LocalRequest(msg)
           \/ BusPoll \/ BusBroadcast \/ BusCompleted
           \/ \E id : DataBroadcast(id) \/ DataCompleted(id) \/ LowerAnswer(id)
           \/ \E c \in Caches : \E key : CacheAccess(c, key) \/ SendDown(c, key) \/ SendUp(c, key)
           \/ \E c \in Caches : \E id :
                 \/ LocalHit(c, id) \/ LocalMiss(c, id) \/ Drain(c, id)
                 \/ SnoopHit(c, id) \/ SnoopMiss(c, id) \/ SnoopEvict(c, id)
<1>1. CASE OtherEvent
  <2>1. CASE \E c \in Caches : \E k \in DOMAIN queue[c] : EventOf(c, queue[c][k].key)
    <3>1. PICK c \in Caches : \E key : EventOf(c, key)
          BY <2>1
    <3>2. PICK key : EventOf(c, key)
          BY <3>1
    <3> QED BY <3>2 DEF EventOf
  <2>2. CASE \E ev \in dataEvents : DataBroadcast(ev[2]) \/ DataCompleted(ev[2])
        BY <2>2
  <2>3. CASE \E id \in lower : LowerAnswer(id)
        BY <2>3
  <2> QED BY <1>1, <2>1, <2>2, <2>3 DEF OtherEvent
<1>2. CASE AddressBus
      BY <1>2 DEF AddressBus
<1>3. CASE \E msg \in Message : LocalRequest(msg)
      BY <1>3
<1> QED BY <1>1, <1>2, <1>3 DEF Next

\* Nothing happens.
LEMMA StutterInv ==
    ASSUME BusInv, UNCHANGED vars
    PROVE  BusInv'
<1>1. /\ QueueInv' /\ BusQueueInv' /\ PendingInv' /\ AnswerInv' /\ AnswersAreAwaited'
      /\ Len(pending') <= BusPendingSize
      /\ \A x \in Caches : Len(busQueue'[x]) <= BusQueueSize /\ Cardinality(Held(x)') <= Ways
      BY SameQueues DEF vars, busVars
<1>2. Typed' /\ AddressInv' /\ DataBusNeverSleeps'
      BY DEF vars, busVars, BusInv, Typed, AddressInv, DataBusNeverSleeps
<1> QED BY <1>1, <1>2 DEF BusInv

\* A step of the bus and the caches keeps the invariant.
LEMMA StepInv ==
    ASSUME BusInv, Next
    PROVE  BusInv'
<1>1. CASE \E msg \in Message : LocalRequest(msg)
      BY <1>1, LocalRequestInv
<1>2. CASE BusPoll \/ BusBroadcast \/ BusCompleted
      BY <1>2, BusPollInv, BusBroadcastInv, BusCompletedInv
<1>3. CASE \E id : DataBroadcast(id) \/ DataCompleted(id) \/ LowerAnswer(id)
      BY <1>3, DataBroadcastInv, DataCompletedInv, LowerAnswerInv
<1>4. CASE \E c \in Caches : \E key : CacheAccess(c, key) \/ SendDown(c, key) \/ SendUp(c, key)
      BY <1>4, AccessInv, SendDownInv, SendUpInv
<1>5. CASE \E c \in Caches : \E id : LocalHit(c, id) \/ LocalMiss(c, id) \/ Drain(c, id)
      BY <1>5, LocalHitInv, LocalMissInv, DrainInv
<1>6. CASE \E c \in Caches : \E id : SnoopHit(c, id) \/ SnoopMiss(c, id) \/ SnoopEvict(c, id)
      BY <1>6, SnoopHitInv, SnoopMissInv, SnoopEvictInv
<1> QED BY <1>1, <1>2, <1>3, <1>4, <1>5, <1>6, StepOf

\* The invariant of the caches and the bus holds throughout, for every number of
\* caches, every capacity and every schedule of the events.
THEOREM BusInvariant == Spec => []BusInv
<1>1. BusInv /\ [Next]_vars => BusInv'
      BY StepInv, StutterInv
<1> QED BY <1>1, InitInv, PTL DEF Spec

\* The data bus carries one answer at a time, and set_data_bus finds every
\* request that was completed while the bus was taken.
THEOREM DataBusAwake == Spec => []DataBusNeverSleeps
<1>1. BusInv => DataBusNeverSleeps
      BY DEF BusInv
<1> QED BY <1>1, BusInvariant, PTL

\* A controller works on a request exactly as long as the bus waits for its
\* answer, whichever controllers annul_request has called off meanwhile.
THEOREM AnswersAwaited == Spec => []AnswersAreAwaited
<1>1. BusInv => AnswersAreAwaited
      BY DEF BusInv
<1> QED BY <1>1, BusInvariant, PTL

\* What an L1 cache sees of a request, when nothing is answered twice.
LEMMA Outcomes ==
    ASSUME BusInv, NEW i \in Ids
    PROVE  Outcome(i) = IF Len(requests) < i \/ ~Expected(requests[i].type) THEN "idle"
                        ELSE IF answers[i] = 1 THEN "answered" ELSE "asked"
<1>1. answers[i] \in {0, 1}
      BY DEF BusInv, AnswerInv
<1>2. CASE answers[i] = 0
      BY <1>2 DEF Outcome
<1>3. CASE answers[i] = 1
      BY <1>1, <1>3 DEF Outcome
<1> QED BY <1>1, <1>2, <1>3

\* Only an answer that is sent up counts as one.
LEMMA AnswersKept ==
    ASSUME Next
    PROVE  \/ \E msg \in Message : LocalRequest(msg)
           \/ \E c \in Caches : \E key : SendUp(c, key)
           \/ UNCHANGED <<requests, answers>>
<1>1. CASE BusPoll \/ BusBroadcast \/ BusCompleted
      BY <1>1 DEF BusPoll, BusBroadcast, BusCompleted
<1>2. CASE \E id : DataBroadcast(id) \/ DataCompleted(id) \/ LowerAnswer(id)
      BY <1>2 DEF DataBroadcast, DataCompleted, LowerAnswer
<1>3. CASE \E c \in Caches : \E key : CacheAccess(c, key) \/ SendDown(c, key)
      BY <1>3 DEF CacheAccess, SendDown
<1>4. CASE \E c \in Caches : \E id : LocalHit(c, id) \/ LocalMiss(c, id) \/ Drain(c, id)
      BY <1>4 DEF LocalHit, LocalMiss, Drain
<1>5. CASE \E c \in Caches : \E id : SnoopHit(c, id) \/ SnoopMiss(c, id) \/ SnoopEvict(c, id)
      BY <1>5 DEF SnoopHit, SnoopMiss, SnoopEvict
<1> QED BY <1>1, <1>2, <1>3, <1>4, <1>5, StepOf

\* What becomes of a request in a step.
LEMMA PortStep ==
    ASSUME BusInv, BusInv', Next, NEW i \in Ids
    PROVE  \/ Outcome(i)' = Outcome(i)
           \/ Outcome(i) = "idle" /\ Outcome(i)' = "asked"
           \/ Outcome(i) = "asked" /\ Outcome(i)' = "answered"
<1> DEFINE Is(rs, as) == IF Len(rs) < i \/ ~Expected(rs[i].type) THEN "idle"
                         ELSE IF as[i] = 1 THEN "answered" ELSE "asked"
<1>1. Outcome(i) = Is(requests, answers)
      BY Outcomes
<1>2. Outcome(i)' = Is(requests', answers')
  <2>1. answers'[i] \in {0, 1}
        BY DEF BusInv, AnswerInv
  <2>2. CASE answers'[i] = 0
        BY <2>2 DEF Outcome
  <2>3. CASE answers'[i] = 1
        BY <2>1, <2>3 DEF Outcome
  <2> QED BY <2>1, <2>2, <2>3
<1>3. ASSUME NEW msg \in Message, LocalRequest(msg)
      PROVE  Outcome(i)' = Outcome(i) \/ (Outcome(i) = "idle" /\ Outcome(i)' = "asked")
  <2>1. /\ requests \in Seq(Message) /\ Len(requests) \in Nat /\ i \in Nat /\ i >= 1
        /\ requests' = Append(requests, msg) /\ UNCHANGED answers
        /\ answers[i] \in {0, 1} /\ (i > Len(requests) => answers[i] = 0)
    <3>1. requests \in Seq(Message) /\ Len(requests) \in Nat
          BY LenProperties DEF BusInv, Typed
    <3>2. i \in Nat /\ i >= 1
          BY Constants DEF Ids
    <3>3. requests' = Append(requests, msg) /\ UNCHANGED answers
          BY <1>3 DEF LocalRequest
    <3> QED BY <3>1, <3>2, <3>3 DEF BusInv, AnswerInv
  <2>2. /\ Len(requests') = Len(requests) + 1
        /\ \A j \in 1 .. Len(requests) : requests'[j] = requests[j]
        BY <2>1, AppendProperties
  <2>3. CASE i <= Len(requests)
    <3>1. requests'[i] = requests[i] /\ ~(Len(requests) < i) /\ ~(Len(requests') < i)
          BY <2>1, <2>2, <2>3
    <3> QED BY <1>1, <1>2, <2>1, <3>1
  <2>4. CASE i > Len(requests)
    <3>1. Outcome(i) = "idle" /\ answers'[i] # 1
          BY <1>1, <2>1, <2>4
    <3> QED BY <1>2, <3>1
  <2> QED BY <2>1, <2>3, <2>4
<1>4. ASSUME NEW c \in Caches, NEW key, SendUp(c, key)
      PROVE  Outcome(i)' = Outcome(i) \/ (Outcome(i) = "asked" /\ Outcome(i)' = "answered")
  <2>1. requests' = requests /\ answers \in [Ids -> Nat]
        BY <1>4, Basics DEF SendUp, Typed
  <2>2. \/ answers' = answers
        \/ /\ key[2] \in Ids /\ answers[key[2]] = 0
           /\ key[2] \in 1 .. Len(requests) /\ Expected(requests[key[2]].type)
           /\ answers' = [answers EXCEPT ![key[2]] = 1]
        BY <1>4, SendUpInv
  <2>3. CASE answers' = answers
        BY <1>1, <1>2, <2>1, <2>3
  <2>4. CASE /\ key[2] \in Ids /\ answers[key[2]] = 0
             /\ key[2] \in 1 .. Len(requests) /\ Expected(requests[key[2]].type)
             /\ answers' = [answers EXCEPT ![key[2]] = 1]
    <3>1. CASE i # key[2]
          BY <1>1, <1>2, <2>1, <2>4, <3>1
    <3>2. CASE i = key[2]
      <4>1. answers[i] = 0 /\ answers'[i] = 1 /\ i <= Len(requests) /\ Len(requests) \in Nat
            BY <2>1, <2>4, <3>2, Basics
      <4>2. ~(Len(requests) < i) /\ Expected(requests[i].type)
            BY <2>4, <3>2, <4>1, Constants
      <4> QED BY <1>1, <1>2, <2>1, <4>1, <4>2
    <3> QED BY <3>1, <3>2
  <2> QED BY <2>2, <2>3, <2>4
<1>5. CASE UNCHANGED <<requests, answers>>
      BY <1>1, <1>2, <1>5
<1> QED BY AnswersKept, <1>3, <1>4, <1>5

\* The L2 caches implement RequestPort towards the L1 caches: a READ or WRITE is
\* answered once, and never without having been asked, whatever the other caches
\* do with the line meanwhile.
THEOREM CachesImplementPort == Spec => CachesKeepPort
<1> DEFINE st == [id \in Ids |-> Outcome(id)]
<1>1. Init => Port!Init
  <2> SUFFICES ASSUME Init PROVE \A i \in Ids : Outcome(i) = "idle"
      BY DEF Port!Init
  <2> SUFFICES ASSUME NEW i \in Ids PROVE Outcome(i) = "idle"
      OBVIOUS
  <2>1. Len(requests) < i
        BY DEF Init, Ids
  <2> QED BY <2>1 DEF Outcome
<1>2. BusInv /\ BusInv' /\ [Next]_vars => [Port!Next]_[id \in Ids |-> Outcome(id)]
  <2> SUFFICES ASSUME BusInv, BusInv', [Next]_vars PROVE Port!Next \/ st' = st
      OBVIOUS
  <2>1. CASE UNCHANGED vars
        BY <2>1 DEF vars, Outcome
  <2>2. CASE Next
    <3>1. ASSUME NEW i \in Ids
          PROVE  st[i] = Outcome(i) /\ st'[i] = Outcome(i)' /\ st'[i] \in Port!State
      <4>1. answers'[i] = 0 \/ answers'[i] = 1
            BY DEF BusInv, AnswerInv
      <4>2. Outcome(i)' \in Port!State
            BY <4>1 DEF Outcome, Port!State
      <4> QED BY <4>2
    <3>2. st' \in [Ids -> Port!State]
          BY <3>1
    <3>3. ASSUME NEW i \in Ids
          PROVE  Port!Ask(i) \/ Port!Answer(i) \/ Port!Withdraw(i) \/ Port!Keep(i)
      <4>1. \/ st'[i] = st[i]
            \/ st[i] = "idle" /\ st'[i] = "asked"
            \/ st[i] = "asked" /\ st'[i] = "answered"
            BY <2>2, <3>1, PortStep
      <4> QED BY <4>1 DEF Port!Ask, Port!Answer, Port!Keep
    <3> QED BY <3>2, <3>3 DEF Port!Next
  <2> QED BY <2>1, <2>2
<1> QED BY <1>1, <1>2, BusInvariant, PTL DEF Spec, CachesKeepPort, Port!Spec

(***************************************************************************)
(* What a request needs in a cache.  An entry of the request itself, of    *)
(* its snoop and of its EVICT exclude each other, so four places are       *)
(* enough for each request that is under way.                              *)
(***************************************************************************)
Slots == {"main", "down", "up1", "up2"}
SlotOf(role) == IF role \in Offspring THEN role ELSE "main"

\* Two entries of a cache do not claim the same place.
LEMMA OneSlot ==
    ASSUME BusInv, NEW c \in Caches, NEW e \in ToSet(queue[c]), NEW f \in ToSet(queue[c]),
           e.key[2] = f.key[2], SlotOf(e.key[1]) = SlotOf(f.key[1])
    PROVE  e.key = f.key
<1> DEFINE i == e.key[2]
<1>1. e \in QueueEntry /\ f \in QueueEntry /\ EntryInv(c, e) /\ EntryInv(c, f)
      BY Basics
<1>2. /\ e.key[1] \in Role /\ f.key[1] \in Role
      /\ e.key = <<e.key[1], i>> /\ f.key = <<f.key[1], i>>
      BY <1>1, EntryFields
<1>3. In(queue[c], e.key) /\ In(queue[c], f.key)
      BY Basics, InSet
<1>4. e.key[1] = f.key[1] \/ {e.key[1], f.key[1]} \subseteq {"local", "snoop", "evict"}
      BY <1>2 DEF SlotOf, Offspring, Role
<1>5. \A g \in ToSet(queue[c]) : EntryInv(c, g) /\ g.key[2] = i =>
          /\ g.key[1] = "local" => requests[i].cache = c
          /\ g.key[1] \in {"snoop", "evict"} => requests[i].cache # c
          /\ g.key[1] = "snoop" => ~In(queue[c], <<"evict", i>>)
      BY DEF EntryInv, LocalInv, SnoopInv
<1>6. e.key[1] = f.key[1]
      BY <1>1, <1>2, <1>3, <1>4, <1>5
<1> QED BY <1>2, <1>6

\* The entries of a queue are at most four for every request under way.
LEMMA QueueLoad ==
    ASSUME BusInv, NEW c \in Caches
    PROVE  /\ Len(queue[c]) \in Nat /\ Cardinality(UnderWay) \in Nat
           /\ Len(queue[c]) <= 4 * Cardinality(UnderWay)
<1>1. PICK q \in Seq(QueueEntry) : q = queue[c] /\ UniqueKeys(q)
      BY Basics
<1>2. /\ Len(q) \in Nat /\ DOMAIN q = 1 .. Len(q)
      /\ \A k \in 1 .. Len(q) : q[k] \in ToSet(q) /\ q[k] \in QueueEntry
      BY Elements
<1>3. PICK U : U = UnderWay
      OBVIOUS
<1>4. IsFiniteSet(U) /\ Cardinality(U) \in Nat
  <2>1. U \subseteq Ids /\ IsFiniteSet(1 .. MaxRequests)
        BY <1>3, Constants, FS_Interval DEF UnderWay
  <2> QED BY <2>1, FS_Subset, FS_CardinalityType DEF Ids
<1>5. IsFiniteSet(Slots) /\ Cardinality(Slots) = 4
  <2>1. PICK R, S, T : R = {"main"} /\ S = R \cup {"down"} /\ T = S \cup {"up1"}
        OBVIOUS
  <2>2. "down" \notin R /\ "up1" \notin S /\ "up2" \notin T
        BY <2>1
  <2>3. IsFiniteSet(R) /\ Cardinality(R) = 1
        BY <2>1, FS_Singleton
  <2>4. IsFiniteSet(S) /\ Cardinality(S) = 2
    <3>1. IsFiniteSet(R \cup {"down"}) /\ Cardinality(R \cup {"down"}) = 2
      <4>1. IsFiniteSet(R) /\ "down" \notin R /\ Cardinality(R) + 1 = 2
            BY <2>2, <2>3
      <4> QED BY <4>1, FS_AddElement
    <3> QED BY <2>1, <3>1
  <2>5. IsFiniteSet(T) /\ Cardinality(T) = 3
    <3>1. IsFiniteSet(S \cup {"up1"}) /\ Cardinality(S \cup {"up1"}) = 3
          BY <2>2, <2>4, FS_AddElement
    <3> QED BY <2>1, <3>1
  <2>6. IsFiniteSet(T \cup {"up2"}) /\ Cardinality(T \cup {"up2"}) = 4
        BY <2>2, <2>5, FS_AddElement
  <2>7. Slots = T \cup {"up2"}
        BY <2>1 DEF Slots
  <2> QED BY <2>6, <2>7
<1>6. PICK f : f = [k \in 1 .. Len(q) |-> <<SlotOf(q[k].key[1]), q[k].key[2]>>]
      OBVIOUS
<1>7. f \in Injection(1 .. Len(q), Slots \X U)
  <2>1. ASSUME NEW k \in 1 .. Len(q) PROVE f[k] \in Slots \X U
    <3>1. q[k].key[2] \in Ids
          BY <1>2, EntryFields
    <3>2. q[k].key[2] \in U
          BY <1>1, <1>2, <1>3, <3>1 DEF UnderWay
    <3>3. SlotOf(q[k].key[1]) \in Slots
          BY DEF SlotOf, Slots, Offspring
    <3> QED BY <1>6, <3>2, <3>3
  <2>2. ASSUME NEW j \in 1 .. Len(q), NEW k \in 1 .. Len(q), f[j] = f[k] PROVE j = k
    <3>1. SlotOf(q[j].key[1]) = SlotOf(q[k].key[1]) /\ q[j].key[2] = q[k].key[2]
          BY <1>6, <2>2
    <3>2. q[j].key = q[k].key
          BY <1>1, <1>2, <3>1, OneSlot
    <3> QED BY <1>1, <1>2, <3>2 DEF UniqueKeys
  <2>3. f \in [1 .. Len(q) -> Slots \X U]
        BY <1>6, <2>1
  <2> QED BY <2>2, <2>3 DEF Injection, IsInjective
<1>8. IsFiniteSet(Slots \X U) /\ Cardinality(Slots \X U) = 4 * Cardinality(U)
      BY <1>4, <1>5, FS_Product
<1>9. Cardinality(1 .. Len(q)) <= Cardinality(Slots \X U)
      BY <1>7, <1>8, FS_Injection
<1>10. Cardinality(1 .. Len(q)) = Len(q)
       BY <1>2, FS_Interval
<1> QED BY <1>1, <1>2, <1>3, <1>4, <1>8, <1>9, <1>10

\* As long as few requests are under way, every queue has room for what an entry
\* that is handled makes.
LEMMA LightRoom ==
    ASSUME BusInv, Light, NEW c \in Caches
    PROVE  RoomToAct(c) /\ Len(queue[c]) <= QueueSize
<1>1. /\ Len(queue[c]) \in Nat /\ Cardinality(UnderWay) \in Nat
      /\ Len(queue[c]) <= 4 * Cardinality(UnderWay)
      BY QueueLoad
<1>2. 4 * Cardinality(UnderWay) < QueueSize - ActReserve
      BY DEF Light
<1> QED BY <1>1, <1>2, Constants DEF RoomToAct

\* The types, and the capacity of every queue: as long as few requests are under
\* way, alloc never returns NULL, whatever messages the requests make.
THEOREM BusTypes == Spec /\ []Light => []TypeOK
<1>1. BusInv /\ Light => TypeOK
      BY LightRoom DEF BusInv, TypeOK
<1> QED BY <1>1, BusInvariant, PTL

\* No assert of the bus and of MESILogic fails, as long as few requests are
\* under way: a broadcast finds its entry in pendingRequests_, the cache that
\* asked takes its data, and data for a WRITE never comes with the shared flag.
THEOREM AssertsHold == Spec /\ []Light => []NoAssertFails
<1>1. Init => NoAssertFails
      BY DEF Init, NoAssertFails
<1>2. BusInv /\ Light /\ NoAssertFails /\ [Next]_vars => NoAssertFails'
  <2> SUFFICES ASSUME BusInv, Light, NoAssertFails, [Next]_vars PROVE NoAssertFails'
      OBVIOUS
  <2>1. CASE failed' = failed
        BY <2>1 DEF NoAssertFails
  <2>2. CASE UNCHANGED vars
        BY <2>1, <2>2 DEF vars
  <2>3. ASSUME BusCompleted PROVE NoAssertFails'
    <3>1. CASE UNCHANGED failed
          BY <2>1, <3>1
    <3>2. CASE /\ CanBroadcast(address.cache) /\ Expected(Head(busQueue[address.cache]).type)
               /\ failed' = (Len(pending) >= BusPendingSize)
      <4>1. Heard(Head(busQueue[address.cache]).type) /\ address.event = "completed"
            BY <2>3, <3>2 DEF BusCompleted, Expected, Heard
      <4>2. Len(pending) < BusPendingSize
            BY <4>1 DEF BusInv, AddressInv
      <4>3. Len(pending) \in Nat
            BY PendingTypes, LenProperties
      <4>4. ~(Len(pending) >= BusPendingSize)
            BY <4>2, <4>3, Constants
      <4>5. ~(failed')
            BY <3>2, <4>4
      <4> QED BY <4>5 DEF NoAssertFails
    <3> QED BY <2>3, <3>1, <3>2 DEF BusCompleted
  <2>4. ASSUME NEW id, DataCompleted(id) PROVE NoAssertFails'
    <3>1. PICK p \in ToSet(pending) : p = PendingOf(id)
          BY <2>4, CompletedBus
    <3>2. RoomToAct(p.cache)
          BY <3>1, PendingTypes, LightRoom
    <3>3. RoomToAct(PendingOf(id).cache) => failed' = FALSE
          BY <2>4, DataCompletedInv
    <3>4. failed' = FALSE
          BY <3>1, <3>2, <3>3
    <3>5. ~(failed')
          BY <3>4
    <3> QED BY <3>5 DEF NoAssertFails
  <2>5. CASE Next
    <3>1. CASE \E msg \in Message : LocalRequest(msg)
          BY <2>1, <3>1 DEF LocalRequest
    <3>2. CASE BusPoll \/ BusBroadcast
          BY <2>1, <3>2 DEF BusPoll, BusBroadcast
    <3>3. CASE \E id : DataBroadcast(id) \/ LowerAnswer(id)
          BY <2>1, <3>3 DEF DataBroadcast, LowerAnswer
    <3>4. CASE \E c \in Caches : \E key : CacheAccess(c, key) \/ SendDown(c, key) \/ SendUp(c, key)
          BY <2>1, <3>4 DEF CacheAccess, SendDown, SendUp
    <3>5. CASE \E c \in Caches : \E id : LocalHit(c, id) \/ LocalMiss(c, id) \/ Drain(c, id)
          BY <2>1, <3>5 DEF LocalHit, LocalMiss, Drain
    <3>6. CASE \E c \in Caches : \E id : SnoopHit(c, id) \/ SnoopMiss(c, id) \/ SnoopEvict(c, id)
          BY <2>1, <3>6 DEF SnoopHit, SnoopMiss, SnoopEvict
    <3> QED BY <2>3, <2>4, <2>5, <3>1, <3>2, <3>3, <3>4, <3>5, <3>6, StepOf
  <2> QED BY <2>2, <2>5
<1> QED BY <1>1, <1>2, BusInvariant, PTL DEF Spec

(***************************************************************************)
(* Requests that do not overlap                                            *)
(***************************************************************************)
\* A writer and a reader of a line: not both, unless the EVICT is on its way.
Safe(x, y, l) == Exclusive(x, y, l) \/ EvictOnWay(x, y, l)

\* Entries that count on what they have found in their cache.
Relies(e) == \/ e.stage = "miss"
             \/ e.key[1] = "local" /\ e.stage \in {"send", "asked"} /\ Expected(e.type)

\* An EVICT is sent by the cache of the request that is under way.
LEMMA EvictOwner ==
    ASSUME BusInv, Alone, NEW x \in Caches, NEW y \in Caches, NEW l, EvictOnWay(x, y, l)
    PROVE  requests[Len(requests)].cache = x
<1>1. CASE \E e \in ToSet(queue[x]) : e.key[1] = "down" /\ e.type = "EVICT" /\ e.line = l
  <2>1. PICK e \in ToSet(queue[x]) : e.key[1] = "down" /\ e.type = "EVICT"
        BY <1>1
  <2>2. EntryInv(x, e) /\ e.key[2] = Len(requests)
        BY Basics DEF Alone
  <2> QED BY <2>1, <2>2 DEF EntryInv, DownInv
<1>2. CASE \E m \in ToSet(busQueue[x]) : m.type = "EVICT" /\ m.line = l
  <2>1. PICK m \in ToSet(busQueue[x]) : m.type = "EVICT"
        BY <1>2
  <2>2. m.id = Len(requests) /\ Heard(m.type)
        BY <2>1 DEF Alone, Heard
  <2>3. requests[m.id].cache = x
        BY <2>2, InHand
  <2> QED BY <2>2, <2>3
<1>3. CASE \E e \in ToSet(queue[y]) :
              e.key[1] = "evict" /\ e.line = l /\ requests[e.key[2]].cache = x
      BY <1>3 DEF Alone
<1> QED BY <1>1, <1>2, <1>3 DEF EvictOnWay

\* An entry that has been left in the queue, seen from before.
LEMMA PassesKeeps ==
    ASSUME NEW q, NEW r, NEW gone, NEW new, Passes(q, r, gone, new)
    PROVE  /\ \A e \in ToSet(q) : e.key \notin gone =>
                 \E f \in ToSet(r) : f.key = e.key /\ f.type = e.type /\ f.line = e.line
           /\ \A f \in new : f \in ToSet(r)
BY DEF Passes, Same

\* An EVICT on its way stays on its way, unless the step does what it was for.
LEMMA EvictStays ==
    ASSUME NEW x \in Caches, NEW y \in Caches, NEW l \in Line, EvictOnWay(x, y, l),
           requests' = requests, NEW gone, NEW new, Changed(gone, new),
           \A e \in ToSet(queue[x]) :
               e.key \in gone[x] /\ e.key[1] = "down" /\ e.type = "EVICT" /\ e.line = l
                   => Safe(x, y, l)',
           \A m \in ToSet(busQueue[x]) : m.type = "EVICT" /\ m.line = l =>
               m \in ToSet(busQueue'[x]) \/ Safe(x, y, l)',
           \A e \in ToSet(queue[y]) : e.key \in gone[y] /\ e.key[1] = "evict" /\ e.line = l
                   => Safe(x, y, l)'
    PROVE  Safe(x, y, l)'
<1>1. CASE \E e \in ToSet(queue[x]) : e.key[1] = "down" /\ e.type = "EVICT" /\ e.line = l
  <2>1. PICK e \in ToSet(queue[x]) : e.key[1] = "down" /\ e.type = "EVICT" /\ e.line = l
        BY <1>1
  <2>2. CASE e.key \notin gone[x]
    <3>1. Passes(queue[x], queue'[x], gone[x], new[x])
          BY DEF Changed
    <3>2. PICK f \in ToSet(queue'[x]) : f.key = e.key /\ f.type = e.type /\ f.line = e.line
          BY <2>2, <3>1, PassesKeeps
    <3> QED BY <2>1, <3>2 DEF EvictOnWay, Safe
  <2> QED BY <2>1, <2>2
<1>2. CASE \E m \in ToSet(busQueue[x]) : m.type = "EVICT" /\ m.line = l
  <2>1. PICK m \in ToSet(busQueue[x]) : m.type = "EVICT" /\ m.line = l
        BY <1>2
  <2> QED BY <2>1 DEF EvictOnWay, Safe
<1>3. CASE \E e \in ToSet(queue[y]) :
              e.key[1] = "evict" /\ e.line = l /\ requests[e.key[2]].cache = x
  <2>1. PICK e \in ToSet(queue[y]) :
              e.key[1] = "evict" /\ e.line = l /\ requests[e.key[2]].cache = x
        BY <1>3
  <2>2. CASE e.key \notin gone[y]
    <3>1. Passes(queue[y], queue'[y], gone[y], new[y])
          BY DEF Changed
    <3>2. PICK f \in ToSet(queue'[y]) : f.key = e.key /\ f.type = e.type /\ f.line = e.line
          BY <2>2, <3>1, PassesKeeps
    <3> QED BY <2>1, <3>2 DEF EvictOnWay, Safe
  <2> QED BY <2>1, <2>2
<1> QED BY <1>1, <1>2, <1>3 DEF EvictOnWay

\* A pair of caches stays safe for a line whose state changes in neither.
LEMMA SafeStays ==
    ASSUME NEW x \in Caches, NEW y \in Caches, NEW l \in Line, Safe(x, y, l),
           requests' = requests, NEW gone, NEW new, Changed(gone, new),
           cstate'[x][l] = cstate[x][l], cstate'[y][l] = cstate[y][l],
           \A e \in ToSet(queue[x]) :
               e.key \in gone[x] /\ e.key[1] = "down" /\ e.type = "EVICT" /\ e.line = l
                   => Safe(x, y, l)',
           \A m \in ToSet(busQueue[x]) : m.type = "EVICT" /\ m.line = l =>
               m \in ToSet(busQueue'[x]) \/ Safe(x, y, l)',
           \A e \in ToSet(queue[y]) : e.key \in gone[y] /\ e.key[1] = "evict" /\ e.line = l
                   => Safe(x, y, l)'
    PROVE  Safe(x, y, l)'
<1>1. CASE Exclusive(x, y, l)
      BY <1>1 DEF Exclusive, Safe
<1>2. CASE EvictOnWay(x, y, l)
      BY <1>2, EvictStays
<1> QED BY <1>1, <1>2 DEF Safe

\* What a step has to show: the new entries and the requests on the bus are those
\* of the last request, nothing an entry counts on changes, and all is safe.
OneStep(gone, new) ==
    /\ requests' = requests /\ Changed(gone, new)
    /\ \A x \in Caches : \A f \in new[x] : f.key[2] = Len(requests) /\ Found(x, f)'
    /\ \A x \in Caches : \A e \in ToSet(queue[x]) :
           e.key \notin gone[x] /\ Relies(e) => cstate'[x][e.line] = cstate[x][e.line]
    /\ \A x \in Caches : \A m \in ToSet(busQueue'[x]) : m.id = Len(requests)
    /\ \A p \in ToSet(pending') : p.id = Len(requests) /\ GaveUp(p)'
    /\ \A x, y \in Caches, l \in Line : x # y => Safe(x, y, l)'

\* An entry finds what it has found before.
LEMMA FoundKept ==
    ASSUME NEW x \in Caches, NEW e, NEW f, Same(e, f), Found(x, e),
           Relies(e) => cstate'[x][e.line] = cstate[x][e.line]
    PROVE  Found(x, f)'
BY DEF Same, Found, Relies

\* Such a step keeps the caches coherent.
LEMMA CoherentStep ==
    ASSUME OneAtATime, NEW gone, NEW new, OneStep(gone, new)
    PROVE  OneAtATime'
<1>1. ASSUME NEW x \in Caches, NEW f \in ToSet(queue'[x])
      PROVE  f.key[2] = Len(requests) /\ Found(x, f)'
  <2>1. Passes(queue[x], queue'[x], gone[x], new[x])
        BY DEF OneStep, Changed
  <2>2. CASE f \in new[x]
        BY <2>2 DEF OneStep
  <2>3. CASE \E e \in ToSet(queue[x]) : e.key \notin gone[x] /\ Same(e, f)
    <3>1. PICK e \in ToSet(queue[x]) : e.key \notin gone[x] /\ Same(e, f)
          BY <2>3
    <3>2. Found(x, e) /\ e.key[2] = Len(requests) /\ f.key = e.key
          BY <3>1 DEF OneAtATime, Alone, Same
    <3>3. Relies(e) => cstate'[x][e.line] = cstate[x][e.line]
          BY <3>1 DEF OneStep
    <3> QED BY <3>1, <3>2, <3>3, FoundKept
  <2> QED BY <2>1, <2>2, <2>3 DEF Passes
<1>2. Alone'
      BY <1>1 DEF OneStep, Alone
<1>3. \A x, y \in Caches, l \in Line :
           x # y => Exclusive(x, y, l)' \/ EvictOnWay(x, y, l)'
      BY DEF OneStep, Safe
<1>4. \A p \in ToSet(pending') : GaveUp(p)'
      BY DEF OneStep
<1> QED BY <1>1, <1>2, <1>3, <1>4 DEF OneAtATime

\* A step of one queue, as a step of all queues.
LEMMA OneAdvances ==
    ASSUME BusInv, NEW c \in Caches, NEW gone, NEW new, Advances(c, gone, new)
    PROVE  \E G, N : /\ Changed(G, N) /\ G[c] = gone /\ N[c] = new
                     /\ \A x \in Caches \ {c} : G[x] = {} /\ N[x] = {} /\ queue'[x] = queue[x]
                     /\ \A f \in new : f \in ToSet(queue'[c])
<1> DEFINE G == [y \in Caches |-> IF y = c THEN gone ELSE {}]
           N == [y \in Caches |-> IF y = c THEN new ELSE {}]
<1>1. PICK r : r = queue'[c]
      OBVIOUS
<1>2. queue' = [queue EXCEPT ![c] = r] /\ Passes(queue[c], r, gone, new)
      BY <1>1 DEF Advances
<1>3. /\ \A x \in Caches \ {c} : queue'[x] = queue[x]
      /\ \A x \in Caches : Passes(queue[x], queue'[x], G[x], N[x])
      BY <1>2, OneQueue
<1>4. /\ G[c] = gone /\ N[c] = new
      /\ \A x \in Caches \ {c} : G[x] = {} /\ N[x] = {}
      OBVIOUS
<1>5. \A f \in new : f \in ToSet(queue'[c])
      BY <1>1, <1>2 DEF Passes
<1> HIDE DEF G, N
<1> QED BY <1>3, <1>4, <1>5 DEF Changed

\* A step of one cache that leaves the lines and the bus alone, and carries on the
\* EVICTs.
LEMMA CalmCoherent ==
    ASSUME BusInv, OneAtATime, UNCHANGED <<requests, cstate, busQueue, pending>>,
           NEW c \in Caches, NEW gone, NEW new, Advances(c, gone, new),
           \A f \in new : f.key[2] = Len(requests) /\ Found(c, f)',
           \A e \in ToSet(queue[c]) :
               e.key \in gone /\ (e.key[1] = "evict" \/ (e.key[1] = "down" /\ e.type = "EVICT")) =>
                   \E f \in new : f.key = e.key /\ f.type = e.type /\ f.line = e.line
    PROVE  OneAtATime'
<1>1. PICK G, N : /\ Changed(G, N) /\ G[c] = gone /\ N[c] = new
                  /\ \A x \in Caches \ {c} : G[x] = {} /\ N[x] = {} /\ queue'[x] = queue[x]
                  /\ \A f \in new : f \in ToSet(queue'[c])
      BY OneAdvances
<1>2. ASSUME NEW x \in Caches, NEW y \in Caches, NEW l \in Line, x # y PROVE Safe(x, y, l)'
  <2>1. Safe(x, y, l)
        BY <1>2 DEF OneAtATime, Safe
  <2>2. ASSUME NEW e \in ToSet(queue[x]), e.key \in G[x],
               e.key[1] = "down", e.type = "EVICT", e.line = l
        PROVE  Safe(x, y, l)'
    <3>1. x = c
          BY <1>1, <2>2
    <3>2. PICK f \in new : f.key = e.key /\ f.type = e.type /\ f.line = e.line
          BY <1>1, <2>2, <3>1
    <3>3. f \in ToSet(queue'[x])
          BY <1>1, <3>1
    <3> QED BY <2>2, <3>2, <3>3 DEF Safe, EvictOnWay
  <2>3. ASSUME NEW e \in ToSet(queue[y]), e.key \in G[y], e.key[1] = "evict", e.line = l
        PROVE  Safe(x, y, l)'
    <3>1. y = c
          BY <1>1, <2>3
    <3>2. PICK f \in new : f.key = e.key /\ f.type = e.type /\ f.line = e.line
          BY <1>1, <2>3, <3>1
    <3>3. f \in ToSet(queue'[y])
          BY <1>1, <3>1
    <3>4. CASE requests[e.key[2]].cache = x
          BY <2>3, <3>2, <3>3, <3>4 DEF Safe, EvictOnWay
    <3>5. CASE requests[e.key[2]].cache # x
      <4>1. ~EvictOnWay(x, y, l)
            BY <1>2, <3>5, EvictOwner DEF OneAtATime, Alone
      <4>2. Exclusive(x, y, l)'
            BY <2>1, <4>1 DEF Safe, Exclusive
      <4> QED BY <4>2 DEF Safe
    <3> QED BY <3>4, <3>5
  <2> QED BY <1>1, <2>1, <2>2, <2>3, SafeStays
<1>3. \A x \in Caches : \A f \in N[x] : f.key[2] = Len(requests) /\ Found(x, f)'
      BY <1>1
<1>4. \A p \in ToSet(pending') : p.id = Len(requests) /\ GaveUp(p)'
      BY DEF OneAtATime, Alone, GaveUp
<1>5. \A x \in Caches : \A m \in ToSet(busQueue'[x]) : m.id = Len(requests)
      BY DEF OneAtATime, Alone
<1>6. OneStep(G, N)
      BY <1>1, <1>2, <1>3, <1>4, <1>5 DEF OneStep
<1> QED BY <1>6, CoherentStep

\* A step that touches neither the queues nor the lines.
LEMMA StillCoherent ==
    ASSUME OneAtATime, UNCHANGED <<requests, queue, cstate, busQueue, pending>>
    PROVE  OneAtATime'
BY DEF OneAtATime, Alone, Exclusive, EvictOnWay, Found, GaveUp

\* Tag lookup, a miss that goes on, and what is sent up: the bus is not involved.
LEMMA AccessCoherent ==
    ASSUME BusInv, OneAtATime, NEW c \in Caches, NEW key, CacheAccess(c, key)
    PROVE  OneAtATime'
<1>0. PICK e \in ToSet(queue[c]), f \in QueueEntry : LooksUp(c, key, e, f)
      BY AccessInv
<1>1. /\ e.key = key /\ Advances(c, {key}, {f})
      /\ f.key = key /\ f.type = e.type /\ f.line = e.line
      /\ IF e.line \in Held(c) THEN f.stage = "hit" /\ f.frame = e.line
                               ELSE f.stage = "miss" /\ f.frame = NoLine
      BY <1>0 DEF LooksUp
<1>2. UNCHANGED <<requests, cstate, busQueue, pending>>
      BY DEF CacheAccess, busVars
<1>3. e.key[2] = Len(requests) /\ e.line \in Line
      BY <1>1, Basics, EntryFields DEF OneAtATime, Alone
<1>4. Found(c, f)'
      BY <1>1, <1>2, <1>3 DEF Found, Held
<1>5. \A d \in ToSet(queue[c]) : d.key \in {key} => d = e
      BY <1>1, Basics, OneEntry
<1> DEFINE gone == {key}
           new == {f}
<1>6. \A d \in ToSet(queue[c]) :
         d.key \in gone /\ (d.key[1] = "evict" \/ (d.key[1] = "down" /\ d.type = "EVICT")) =>
             \E g \in new : g.key = d.key /\ g.type = d.type /\ g.line = d.line
      BY <1>1, <1>5
<1>7. \A g \in new : g.key[2] = Len(requests) /\ Found(c, g)'
      BY <1>1, <1>3, <1>4
<1>8. Advances(c, gone, new)
      BY <1>1
<1> HIDE DEF gone, new
<1> QED BY <1>2, <1>6, <1>7, <1>8, CalmCoherent

\* The entry of an event moves on, or is freed.
LEMMA MoveAdvances ==
    ASSUME BusInv, NEW c \in Caches, NEW e \in ToSet(queue[c]), NEW stage \in Stage,
           queue' = [queue EXCEPT ![c] = Move(queue[c], e.key, stage)]
    PROVE  \E f \in QueueEntry :
              /\ f.key = e.key /\ f.type = e.type /\ f.line = e.line /\ f.stage = stage
              /\ f.frame = e.frame
              /\ Advances(c, {e.key}, {f})
<1>1. PICK f \in QueueEntry :
         /\ f = [e EXCEPT !.stage = stage]
         /\ f.key = e.key /\ f.type = e.type /\ f.line = e.line /\ f.stage = stage
         /\ f.frame = e.frame
      BY Moved
<1>2. queue[c] \in Seq(QueueEntry) /\ UniqueKeys(queue[c])
      BY Basics
<1>3. In(queue[c], e.key) /\ EntryOf(queue[c], e.key) = e
  <2>1. In(queue[c], e.key)
        BY <1>2, InSet
  <2> QED BY <1>2, <2>1, PlaceProperties
<1> DEFINE r == Move(queue[c], e.key, stage)
<1>4. Passes(queue[c], r, {e.key}, {f})
      BY <1>1, <1>2, <1>3, MovePasses
<1>5. queue'[c] = r
      BY Basics DEF Typed
<1> QED BY <1>1, <1>4, <1>5 DEF Advances

\* The entry of an event is freed.
LEMMA ClearAdvances ==
    ASSUME BusInv, NEW c \in Caches, NEW e \in ToSet(queue[c]),
           queue' = [queue EXCEPT ![c] = ClearEntry(queue[c], e.key)]
    PROVE  Advances(c, {e.key}, {})
<1>1. queue[c] \in Seq(QueueEntry) /\ UniqueKeys(queue[c]) /\ e.key # NoKey
      BY Basics, EntryFields
<1> DEFINE r == ClearEntry(queue[c], e.key)
<1>2. Passes(queue[c], r, {e.key}, {})
      BY <1>1, ClearPasses
<1>3. queue'[c] = r
      BY Basics DEF Typed
<1> QED BY <1>2, <1>3 DEF Advances

\* An entry at a stage that no EVICT has.
LEMMA MoveCoherent ==
    ASSUME BusInv, OneAtATime, UNCHANGED <<requests, cstate, busQueue, pending>>,
           NEW c \in Caches, NEW e \in ToSet(queue[c]), NEW stage \in Stage,
           queue' = [queue EXCEPT ![c] = Move(queue[c], e.key, stage)],
           e.key[1] = "local", stage = "send" => e.stage = "miss",
           stage \in {"send", "drain"}
    PROVE  OneAtATime'
<1>1. PICK f \in QueueEntry :
         /\ f.key = e.key /\ f.type = e.type /\ f.line = e.line /\ f.stage = stage
         /\ f.frame = e.frame /\ Advances(c, {e.key}, {f})
      BY MoveAdvances
<1>2. e.key[2] = Len(requests) /\ Found(c, e)
      BY DEF OneAtATime, Alone
<1>3. Found(c, f)'
      BY <1>1, <1>2 DEF Found
<1> DEFINE gone == {e.key}
           new == {f}
<1>4. \A d \in ToSet(queue[c]) :
         d.key \in gone /\ (d.key[1] = "evict" \/ (d.key[1] = "down" /\ d.type = "EVICT")) =>
             \E g \in new : g.key = d.key /\ g.type = d.type /\ g.line = d.line
      BY <1>1
<1>5. \A g \in new : g.key[2] = Len(requests) /\ Found(c, g)'
      BY <1>1, <1>2, <1>3
<1>6. Advances(c, gone, new)
      BY <1>1
<1> HIDE DEF gone, new
<1> QED BY <1>4, <1>5, <1>6, CalmCoherent

\* An entry that is freed, and was no EVICT.
LEMMA ClearCoherent ==
    ASSUME BusInv, OneAtATime, UNCHANGED <<requests, cstate, busQueue, pending>>,
           NEW c \in Caches, NEW e \in ToSet(queue[c]),
           queue' = [queue EXCEPT ![c] = ClearEntry(queue[c], e.key)],
           e.stage \in {"answer", "drain"}
    PROVE  OneAtATime'
<1>1. Advances(c, {e.key}, {})
      BY ClearAdvances
<1>2. EntryInv(c, e)
      BY Basics
<1>3. e.key[1] # "evict" /\ e.key[1] # "down"
      BY <1>2 DEF EntryInv, EvictInv, DownInv, LookedUp
<1> DEFINE gone == {e.key}
           new == {}
<1>4. \A d \in ToSet(queue[c]) :
         d.key \in gone /\ (d.key[1] = "evict" \/ (d.key[1] = "down" /\ d.type = "EVICT")) =>
             \E g \in new : g.key = d.key /\ g.type = d.type /\ g.line = d.line
      BY <1>3
<1>5. \A g \in new : g.key[2] = Len(requests) /\ Found(c, g)'
      OBVIOUS
<1>6. Advances(c, gone, new)
      BY <1>1
<1> HIDE DEF gone, new
<1> QED BY <1>4, <1>5, <1>6, CalmCoherent

\* A miss goes down, an answer or a message goes up, and a fill ends.
LEMMA ThroughCoherent ==
    ASSUME BusInv, OneAtATime, NEW c \in Caches, NEW key,
           \/ key[1] = "local" /\ key = <<"local", key[2]>>
                 /\ (LocalMiss(c, key[2]) \/ Drain(c, key[2]))
           \/ SendUp(c, key)
    PROVE  OneAtATime'
<1>1. UNCHANGED <<requests, cstate, busQueue, pending>>
      BY DEF LocalMiss, Drain, SendUp, busVars
<1>2. PICK stage \in {"miss", "drain", "answer", "fill"} :
         /\ At(c, key, stage)
         /\ queue' = [queue EXCEPT ![c] =
                         IF stage = "miss" THEN Move(queue[c], key, "send")
                         ELSE IF stage = "fill" THEN Move(queue[c], key, "drain")
                         ELSE ClearEntry(queue[c], key)]
         /\ stage = "miss" => key[1] = "local"
      BY DEF LocalMiss, Drain, SendUp
<1>3. PICK e \in ToSet(queue[c]) : e.key = key /\ e.stage = stage /\ EntryInv(c, e)
      BY <1>2, AtProperties
<1>4. stage = "fill" => key[1] = "local"
  <2>1. e.key[1] \in Role
        BY <1>3, Basics, EntryFields
  <2> QED BY <1>3, <2>1 DEF EntryInv, SnoopInv, EvictInv, DownInv, LookedUp, Role
<1>5. {"send", "drain"} \subseteq Stage
      BY DEF Stage
<1>6. CASE stage = "miss"
      BY <1>1, <1>2, <1>3, <1>5, <1>6, MoveCoherent
<1>7. CASE stage = "fill"
      BY <1>1, <1>2, <1>3, <1>4, <1>5, <1>7, MoveCoherent
<1>8. CASE stage \in {"answer", "drain"}
      BY <1>1, <1>2, <1>3, <1>8, ClearCoherent
<1> QED BY <1>2, <1>6, <1>7, <1>8

\* Messages have found nothing in the cache.
LEMMA OffspringFound ==
    ASSUME NEW c, NEW f, EntryInv(c, f), f.key[1] \in Offspring
    PROVE  ~Relies(f) /\ Found(c, f)
BY DEF EntryInv, DownInv, Offspring, Relies, Found

\* What a cache has of the request of one of its own L1 caches: the request
\* itself, and the messages it has made.
LEMMA OwnEntries ==
    ASSUME BusInv, Alone, NEW c \in Caches, requests[Len(requests)].cache = c,
           NEW e \in ToSet(queue[c])
    PROVE  e.key = <<"local", Len(requests)>> \/ e.key[1] \in Offspring
<1>1. EntryInv(c, e) /\ e.key = <<e.key[1], e.key[2]>> /\ e.key[1] \in Role
      BY Basics, EntryFields
<1>2. e.key[2] = Len(requests)
      BY DEF Alone
<1>3. e.key[1] \notin {"snoop", "evict"}
      BY <1>1, <1>2 DEF EntryInv
<1> QED BY <1>1, <1>2, <1>3 DEF Role, Offspring

\* A hit: a writer takes the line from those it shares it with by the EVICT it
\* sends, and has it from nobody else.
LEMMA HitCoherent ==
    ASSUME BusInv, BusInv', OneAtATime, NEW c \in Caches, NEW id, LocalHit(c, id)
    PROVE  OneAtATime'
<1>1. PICK e \in ToSet(queue[c]), f \in QueueEntry, dn \in SUBSET QueueEntry :
         HitLeaves(c, id, e, f, dn)
      BY LocalHitInv
<1>2. UNCHANGED <<requests, busQueue, pending>>
      BY DEF LocalHit, busVars
<1>n. PICK n : n = Len(requests)
      OBVIOUS
<1>3. PICK l \in Line : l = e.line
      BY Basics, EntryFields
<1>4. PICK old : old = cstate[c][l]
      OBVIOUS
<1>5. e.key = <<"local", n>> /\ id = n /\ e.stage = "hit" /\ e.frame = l /\ l \in Held(c)
  <2>1. e.key = <<"local", id>> /\ e.stage = "hit" /\ EntryInv(c, e)
        BY <1>1, Basics DEF HitLeaves
  <2>2. e.key[2] = n /\ e.frame = l
        BY <1>3, <1>n, <2>1 DEF OneAtATime, Alone, Found
  <2> QED BY <1>3, <2>1, <2>2, Constants DEF EntryInv
<1>6. /\ Advances(c, {<<"local", n>>}, {f} \cup dn)
      /\ f.key = e.key /\ f.type = e.type /\ f.line = l /\ f.frame = l
      /\ f.stage = "answer" \/ (f.stage = "send" /\ (Expected(f.type) => old = "I"))
      /\ \A g \in dn : /\ g.key = <<"down", n>> /\ g.type = "EVICT"
                       /\ g.line = l /\ g.stage = "send"
      /\ e.type = "WRITE" /\ old = "S" => dn # {}
      /\ cstate' = IF e.type = "WRITE" /\ old # "I" THEN [cstate EXCEPT ![c][l] = "M"] ELSE cstate
      BY <1>1, <1>3, <1>4, <1>5 DEF HitLeaves
<1>7. old # "absent" /\ old \in LineState /\ cstate \in [Caches -> [Line -> LineState]]
      BY <1>4, <1>5, Basics DEF Typed, Held
<1>8. requests[n].cache = c
  <2>1. EntryInv(c, e) /\ e.key[1] = "local" /\ e.key[2] = n
        BY <1>5, Basics
  <2> QED BY <2>1 DEF EntryInv, LocalInv
<1> DEFINE gone == {<<"local", n>>}
           new == {f} \cup dn
<1>9. PICK G, N : /\ Changed(G, N) /\ G[c] = gone /\ N[c] = new
                  /\ \A x \in Caches \ {c} : G[x] = {} /\ N[x] = {} /\ queue'[x] = queue[x]
                  /\ \A g \in new : g \in ToSet(queue'[c])
  <2>1. Advances(c, gone, new)
        BY <1>6
  <2> HIDE DEF gone, new
  <2> QED BY <2>1, OneAdvances
<1>10. \A x \in Caches, k \in Line : x # c \/ k # l => cstate'[x][k] = cstate[x][k]
       BY <1>6, <1>7
<1>11. \A g \in new : g.key[2] = n /\ Found(c, g)'
  <2>1. Found(c, f)'
    <3>1. old = "I" => cstate'[c][l] = "I"
          BY <1>4, <1>6
    <3> QED BY <1>3, <1>6, <3>1, Constants DEF Found
  <2>2. \A g \in dn : g.key[2] = n /\ Found(c, g)'
        BY <1>6 DEF Found
  <2> QED BY <1>5, <1>6, <2>1, <2>2
<1>12. ASSUME NEW x \in Caches, NEW d \in ToSet(queue[x]), d.key \notin G[x], Relies(d)
       PROVE  cstate'[x][d.line] = cstate[x][d.line]
  <2>1. d.line \in Line
        BY Basics, EntryFields
  <2>2. x # c
    <3> SUFFICES ASSUME x = c PROVE FALSE
        OBVIOUS
    <3>1. d.key[1] \in Offspring
          BY <1>n, <1>8, <1>9, <1>12, OwnEntries DEF OneAtATime
    <3>2. EntryInv(c, d)
          BY Basics
    <3> QED BY <1>12, <3>1, <3>2, OffspringFound
  <2> QED BY <1>10, <2>1, <2>2
<1>13. \A p \in ToSet(pending) : FALSE
  <2> SUFFICES ASSUME NEW p \in ToSet(pending) PROVE FALSE
      OBVIOUS
  <2>1. p.id = n /\ p.cache = requests[p.id].cache /\ LocalAt(p.cache, p.id, {"asked"})
        BY <1>n DEF OneAtATime, Alone, BusInv, PendingInv
  <2>2. PICK d \in ToSet(queue[c]) : d.key = <<"local", n>> /\ d.stage = "asked"
        BY <1>8, <2>1 DEF LocalAt
  <2>3. d = e
        BY <1>5, <2>2, Basics, OneEntry
  <2> QED BY <1>5, <2>2, <2>3
<1>14. ASSUME NEW x \in Caches, NEW y \in Caches, NEW k \in Line, x # y
       PROVE  Safe(x, y, k)'
  <2>1. Safe(x, y, k)
        BY <1>14 DEF OneAtATime, Safe
  <2>2. /\ \A d \in ToSet(queue[x]) : d.key \in G[x] => d.key[1] # "down"
        /\ \A d \in ToSet(queue[y]) : d.key \in G[y] => d.key[1] # "evict"
        BY <1>9
  <2>3. CASE cstate'[x][k] = cstate[x][k] /\ cstate'[y][k] = cstate[y][k]
        BY <1>2, <1>9, <2>1, <2>2, <2>3, SafeStays
  <2>4. CASE k = l /\ x = c /\ old = "S" /\ e.type = "WRITE"
    <3>1. PICK g \in dn : TRUE
          BY <1>6, <2>4
    <3>2. g \in ToSet(queue'[x]) /\ g.key[1] = "down" /\ g.type = "EVICT" /\ g.line = k
          BY <1>6, <1>9, <2>4, <3>1
    <3> QED BY <3>2 DEF Safe, EvictOnWay
  <2>5. CASE EvictOnWay(x, y, k)
        BY <1>2, <1>9, <2>2, <2>5, EvictStays
  <2>6. CASE k = l /\ x = c /\ old \in {"E", "M"} /\ Exclusive(x, y, k)
    <3>1. cstate[y][k] \in Gone /\ cstate'[y][k] = cstate[y][k]
          BY <1>4, <1>10, <1>14, <2>6 DEF Exclusive
    <3> QED BY <3>1 DEF Safe, Exclusive
  <2>7. CASE k = l /\ y = c /\ old \in {"S", "E", "M"} /\ Exclusive(x, y, k)
    <3>1. cstate[x][k] \notin {"E", "M"} /\ cstate'[x][k] = cstate[x][k]
          BY <1>4, <1>10, <1>14, <2>7 DEF Exclusive, Gone
    <3> QED BY <3>1 DEF Safe, Exclusive
  <2>8. old = "I" \/ e.type # "WRITE" => cstate' = cstate
        BY <1>6
  <2>9. old \in {"I", "S", "E", "M"}
        BY <1>7 DEF LineState
  <2> QED BY <1>10, <2>1, <2>3, <2>4, <2>5, <2>6, <2>7, <2>8, <2>9 DEF Safe
<1>15. \A x \in Caches : \A g \in N[x] : g.key[2] = n /\ Found(x, g)'
       BY <1>9, <1>11
<1>16. \A x \in Caches : \A m \in ToSet(busQueue'[x]) : m.id = n
       BY <1>2, <1>n DEF OneAtATime, Alone
<1>17. OneStep(G, N)
       BY <1>2, <1>n, <1>9, <1>12, <1>13, <1>14, <1>15, <1>16 DEF OneStep
<1> QED BY <1>17, CoherentStep

\* A message on its way to the bus: an EVICT goes on as a request.
LEMMA SendDownCoherent ==
    ASSUME BusInv, OneAtATime, NEW c \in Caches, NEW key, SendDown(c, key)
    PROVE  OneAtATime'
<1>n. PICK n : n = Len(requests)
      OBVIOUS
<1>1. /\ At(c, key, "send")
      /\ UNCHANGED <<requests, cstate, pending>>
      BY DEF SendDown
<1>2. PICK e \in QueueEntry :
        /\ e = EntryOf(queue[c], key)
        /\ e \in ToSet(queue[c]) /\ e.key = key /\ e.stage = "send" /\ EntryInv(c, e)
      BY <1>1, AtProperties
<1>3. key[2] = n /\ Found(c, e)
      BY <1>n, <1>2 DEF OneAtATime, Alone
<1>4. PICK m \in BusMessage : m = [id |-> n, type |-> e.type, line |-> e.line]
  <2>1. n \in Ids /\ e.type \in Type /\ e.line \in Line
        BY <1>2, <1>3, EntryFields
  <2> QED BY <2>1 DEF BusMessage
<1>5. /\ busQueue' = [busQueue EXCEPT ![c] = Append(@, m)]
      /\ queue' = [queue EXCEPT ![c] = IF Expected(e.type) THEN Move(@, key, "asked")
                                                           ELSE ClearEntry(@, key)]
      BY <1>2, <1>3, <1>4 DEF SendDown
<1>6. \A x \in Caches : /\ ToSet(busQueue[x]) \subseteq ToSet(busQueue'[x])
                        /\ \A y \in ToSet(busQueue'[x]) : y \in ToSet(busQueue[x]) \/ y = m
                        /\ x = c => m \in ToSet(busQueue'[x])
  <2>1. busQueue \in [Caches -> Seq(BusMessage)]
        BY Basics DEF Typed
  <2>2. ToSet(Append(busQueue[c], m)) = ToSet(busQueue[c]) \cup {m}
        BY <2>1, AppendFacts
  <2>3. busQueue'[c] = Append(busQueue[c], m) /\ \A x \in Caches \ {c} : busQueue'[x] = busQueue[x]
        BY <1>5, <2>1
  <2> QED BY <2>2, <2>3
<1>7. \E new : /\ Advances(c, {key}, new)
               /\ \A f \in new : f.key[2] = n /\ Found(c, f)'
  <2>1. CASE Expected(e.type)
    <3>1. queue' = [queue EXCEPT ![c] = Move(queue[c], e.key, "asked")] /\ "asked" \in Stage
          BY <1>2, <1>5, <2>1 DEF Stage
    <3>2. PICK f \in QueueEntry :
             /\ f.key = e.key /\ f.type = e.type /\ f.line = e.line /\ f.stage = "asked"
             /\ f.frame = e.frame /\ Advances(c, {e.key}, {f})
          BY <1>2, <3>1, MoveAdvances
    <3>3. f.key[2] = n /\ Found(c, f)'
          BY <1>1, <1>2, <1>3, <3>2 DEF Found
    <3> DEFINE new == {f}
    <3>4. Advances(c, {key}, new) /\ \A g \in new : g.key[2] = n /\ Found(c, g)'
          BY <1>2, <3>2, <3>3
    <3> HIDE DEF new
    <3> QED BY <3>4
  <2>2. CASE ~Expected(e.type)
    <3>1. queue' = [queue EXCEPT ![c] = ClearEntry(queue[c], e.key)]
          BY <1>2, <1>5, <2>2
    <3> DEFINE new == {}
    <3>2. Advances(c, {key}, new) /\ \A g \in new : g.key[2] = n /\ Found(c, g)'
          BY <1>2, <3>1, ClearAdvances
    <3> HIDE DEF new
    <3> QED BY <3>2
  <2> QED BY <2>1, <2>2
<1>8. PICK new : /\ Advances(c, {key}, new)
                 /\ \A f \in new : f.key[2] = n /\ Found(c, f)'
      BY <1>7
<1> DEFINE gone == {key}
<1>9. PICK G, N : /\ Changed(G, N) /\ G[c] = gone /\ N[c] = new
                  /\ \A x \in Caches \ {c} : G[x] = {} /\ N[x] = {} /\ queue'[x] = queue[x]
  <2>1. Advances(c, gone, new)
        BY <1>8
  <2> HIDE DEF gone
  <2> QED BY <2>1, OneAdvances
<1>10. ASSUME NEW x \in Caches, NEW y \in Caches, NEW l \in Line, x # y
       PROVE  Safe(x, y, l)'
  <2>1. Safe(x, y, l)
        BY <1>10 DEF OneAtATime, Safe
  <2>2. ASSUME NEW d \in ToSet(queue[x]), d.key \in G[x], d.type = "EVICT", d.line = l
        PROVE  Safe(x, y, l)'
    <3>1. x = c /\ d = e
      <4>1. x = c /\ d.key = key
            BY <1>9, <2>2
      <4> QED BY <1>2, <2>2, <4>1, Basics, OneEntry
    <3>2. m \in ToSet(busQueue'[x]) /\ m.type = "EVICT" /\ m.line = l
          BY <1>4, <1>6, <2>2, <3>1
    <3> QED BY <3>2 DEF Safe, EvictOnWay
  <2>3. ASSUME NEW d \in ToSet(queue[y]), d.key \in G[y], d.key[1] = "evict"
        PROVE  FALSE
    <3>1. y = c /\ e.key[1] = "evict"
          BY <1>2, <1>9, <2>3
    <3> QED BY <1>2, <3>1 DEF EntryInv, EvictInv, LookedUp
  <2>4. \A y1 \in ToSet(busQueue[x]) : y1 \in ToSet(busQueue'[x])
        BY <1>6
  <2> QED BY <1>1, <1>9, <2>1, <2>2, <2>3, <2>4, SafeStays
<1>11. \A x \in Caches : \A f \in N[x] : f.key[2] = n /\ Found(x, f)'
       BY <1>8, <1>9
<1>12. \A p \in ToSet(pending') : p.id = n /\ GaveUp(p)'
       BY <1>1, <1>n DEF OneAtATime, Alone, GaveUp
<1>13. \A x \in Caches : \A y \in ToSet(busQueue'[x]) : y.id = n
       BY <1>4, <1>6, <1>n DEF OneAtATime, Alone
<1>14. OneStep(G, N)
       BY <1>1, <1>n, <1>9, <1>10, <1>11, <1>12, <1>13 DEF OneStep
<1> QED BY <1>14, CoherentStep

\* The EVICT of a writer takes the line from another cache.
LEMMA EvictCoherent ==
    ASSUME BusInv, OneAtATime, NEW c \in Caches, NEW id, SnoopEvict(c, id)
    PROVE  OneAtATime'
<1> DEFINE key == <<"evict", id>>
<1>n. PICK n : n = Len(requests)
      OBVIOUS
<1>1. UNCHANGED <<requests, busQueue, pending>>
      BY DEF SnoopEvict, busVars
<1>2. PICK stage \in {"hit", "miss"} :
         /\ At(c, key, stage)
         /\ LET e == EntryOf(queue[c], key) IN
            cstate' = IF stage = "hit" THEN [cstate EXCEPT ![c][e.frame] = "I"] ELSE cstate
      BY DEF SnoopEvict
<1>3. PICK e \in QueueEntry :
        /\ e = EntryOf(queue[c], key)
        /\ e \in ToSet(queue[c]) /\ e.key = key /\ e.stage = stage /\ EntryInv(c, e)
      BY <1>2, AtProperties
<1>4. /\ id = n /\ Found(c, e) /\ e.line \in Line /\ e.key[1] = "evict" /\ e.key[2] = n
      /\ e.line = requests[n].line
      BY <1>3, <1>n, EntryFields DEF OneAtATime, Alone, EntryInv, EvictInv
<1>5. PICK l \in Line : l = e.line
      BY <1>4
<1>6. /\ cstate'[c][l] \in Gone
      /\ \A x \in Caches, k \in Line : x # c \/ k # l => cstate'[x][k] = cstate[x][k]
  <2>1. cstate \in [Caches -> [Line -> LineState]]
        BY Basics DEF Typed
  <2>2. CASE stage = "hit"
    <3>1. cstate' = [cstate EXCEPT ![c][l] = "I"]
          BY <1>2, <1>3, <1>4, <1>5, <2>2 DEF Found
    <3> QED BY <2>1, <3>1 DEF Gone
  <2>3. CASE stage = "miss"
    <3>1. cstate' = cstate /\ cstate[c][l] = "absent"
          BY <1>2, <1>3, <1>4, <1>5, <2>3 DEF Found
    <3> QED BY <3>1 DEF Gone
  <2> QED BY <2>2, <2>3
<1>7. PICK new : /\ Advances(c, {key}, new)
                 /\ \A f \in new : f.key[1] \in {"up1", "up2"} /\ f.key[2] = id
      BY SnoopEvictInv
<1> DEFINE gone == {key}
<1>8. PICK G, N : /\ Changed(G, N) /\ G[c] = gone /\ N[c] = new
                  /\ \A x \in Caches \ {c} : G[x] = {} /\ N[x] = {} /\ queue'[x] = queue[x]
                  /\ \A f \in new : f \in ToSet(queue'[c])
  <2>1. Advances(c, gone, new)
        BY <1>7
  <2> HIDE DEF gone
  <2> QED BY <2>1, OneAdvances
<1>9. \A f \in new : f.key[2] = n /\ Found(c, f)'
  <2> SUFFICES ASSUME NEW f \in new PROVE f.key[2] = n /\ Found(c, f)'
      OBVIOUS
  <2>1. EntryInv(c, f)'
    <3>1. BusInv'
          BY SnoopEvictInv
    <3>2. f \in ToSet(queue'[c])
          BY <1>8
    <3> QED BY <3>1, <3>2 DEF BusInv, QueueInv
  <2>2. f.stage = "answer" /\ f.key[2] = n
        BY <1>4, <1>7, <2>1 DEF EntryInv
  <2> QED BY <1>7, <2>2 DEF Found
<1>10. ASSUME NEW x \in Caches, NEW y \in Caches, NEW k \in Line, x # y
       PROVE  Safe(x, y, k)'
  <2>1. Safe(x, y, k)
        BY <1>10 DEF OneAtATime, Safe
  <2>2. CASE k = l /\ (x = c \/ y = c)
        BY <1>6, <2>2 DEF Safe, Exclusive, Gone
  <2>3. CASE ~(k = l /\ (x = c \/ y = c))
    <3>1. cstate'[x][k] = cstate[x][k] /\ cstate'[y][k] = cstate[y][k]
          BY <1>6, <2>3
    <3>2. \A d \in ToSet(queue[x]) : d.key \in G[x] => d.key[1] # "down"
          BY <1>8
    <3>3. ASSUME NEW d \in ToSet(queue[y]), d.key \in G[y], d.line = k PROVE FALSE
      <4>1. y = c /\ d.key = e.key
            BY <1>3, <1>8, <3>3
      <4>2. d = e
            BY <1>3, <4>1, Basics, OneEntry
      <4> QED BY <1>5, <2>3, <3>3, <4>1, <4>2
    <3> QED BY <1>1, <1>8, <2>1, <3>1, <3>2, <3>3, SafeStays
  <2> QED BY <2>2, <2>3
<1>11. ASSUME NEW x \in Caches, NEW d \in ToSet(queue[x]), d.key \notin G[x], Relies(d)
       PROVE  cstate'[x][d.line] = cstate[x][d.line]
  <2>1. d.line \in Line /\ d.key[2] = n
        BY <1>n, Basics, EntryFields DEF OneAtATime, Alone
  <2>2. x # c
    <3> SUFFICES ASSUME x = c PROVE FALSE
        OBVIOUS
    <3>1. In(queue[c], <<"evict", n>>) /\ n \in Ids
          BY <1>3, <1>4, Basics, InSet, EntryFields
    <3>2. d.key = <<"evict", n>>
          BY <2>1, <3>1, Snooping
    <3> QED BY <1>4, <1>8, <1>11, <3>2
  <2> QED BY <1>6, <2>1, <2>2
<1>12. \A p \in ToSet(pending') : p.id = n /\ GaveUp(p)'
  <2> SUFFICES ASSUME NEW p \in ToSet(pending) PROVE p.id = n /\ GaveUp(p)'
      BY <1>1
  <2>1. p.id = n /\ GaveUp(p)
        BY <1>n DEF OneAtATime, Alone
  <2> QED BY <1>1, <1>4, <1>5, <1>6, <2>1 DEF GaveUp
<1>13. \A x \in Caches : \A f \in N[x] : f.key[2] = n /\ Found(x, f)'
       BY <1>8, <1>9
<1>14. \A x \in Caches : \A m \in ToSet(busQueue'[x]) : m.id = n
       BY <1>1, <1>n DEF OneAtATime, Alone
<1>15. OneStep(G, N)
       BY <1>1, <1>n, <1>8, <1>10, <1>11, <1>12, <1>13, <1>14 DEF OneStep
<1> QED BY <1>15, CoherentStep

\* A broadcast: the EVICT reaches the queues of all other caches at once.
LEMMA BroadcastCoherent ==
    ASSUME BusInv, OneAtATime, BusCompleted
    PROVE  OneAtATime'
<1>n. PICK n : n = Len(requests)
      OBVIOUS
<1>1. UNCHANGED <<requests, cstate>>
      BY DEF BusCompleted
<1>2. CASE UNCHANGED <<queue, busQueue, pending>>
      BY <1>1, <1>2, StillCoherent
<1>3. ASSUME NEW c \in Caches, NEW m, NEW snoop, NEW G, NEW N, BroadcastOver(c, m, snoop, G, N)
      PROVE  OneAtATime'
  <2>1. /\ m \in ToSet(busQueue[c]) /\ Changed(G, N)
        /\ \A x \in Caches : /\ G[x] = {}
                             /\ N[x] = IF x # c /\ Heard(m.type) THEN {snoop} ELSE {}
        /\ snoop.key = <<IF m.type = "EVICT" THEN "evict" ELSE "snoop", m.id>>
        /\ snoop.line = m.line /\ snoop.stage = "access"
        /\ \A x \in Caches : ToSet(busQueue'[x]) \subseteq ToSet(busQueue[x])
        /\ \A x \in Caches : \A y \in ToSet(busQueue[x]) :
               y \in ToSet(busQueue'[x]) \/ (x = c /\ y = m)
        /\ \A p \in ToSet(pending') :
               p \in ToSet(pending) \/ (p.id = m.id /\ p.cache = c /\ p.got = {c})
        BY <1>3 DEF BroadcastOver
  <2>2. m.id = n
        BY <1>n, <2>1 DEF OneAtATime, Alone
  <2>3. \A x \in Caches : \A f \in N[x] : f.key[2] = n /\ Found(x, f)'
        BY <2>1, <2>2 DEF Found
  <2>4. \A p \in ToSet(pending') : p.id = n /\ GaveUp(p)'
    <3> SUFFICES ASSUME NEW p \in ToSet(pending') PROVE p.id = n /\ GaveUp(p)'
        OBVIOUS
    <3>1. CASE p \in ToSet(pending)
          BY <1>1, <1>n, <3>1 DEF OneAtATime, Alone, GaveUp
    <3>2. CASE p.id = m.id /\ p.cache = c /\ p.got = {c}
          BY <2>2, <3>2 DEF GaveUp
    <3> QED BY <2>1, <3>1, <3>2
  <2>5. ASSUME NEW x \in Caches, NEW y \in Caches, NEW l \in Line, x # y
        PROVE  Safe(x, y, l)'
    <3>1. Safe(x, y, l)
          BY <2>5 DEF OneAtATime, Safe
    <3>2. ASSUME x = c, m.type = "EVICT", m.line = l
          PROVE  Safe(x, y, l)'
      <4>1. Heard(m.type)
            BY <3>2 DEF Heard
      <4>2. requests[m.id].cache = c
            BY <2>1, <4>1, InHand
      <4>3. N[y] = {snoop} /\ Passes(queue[y], queue'[y], G[y], N[y])
            BY <2>1, <2>5, <3>2, <4>1 DEF Changed
      <4>4. snoop \in ToSet(queue'[y])
            BY <4>3, PassesKeeps
      <4>5. snoop.key[1] = "evict" /\ snoop.line = l /\ requests'[snoop.key[2]].cache = x
            BY <1>1, <2>1, <3>2, <4>2
      <4> QED BY <4>4, <4>5 DEF Safe, EvictOnWay
    <3>3. \A a \in ToSet(busQueue[x]) : a.type = "EVICT" /\ a.line = l =>
             a \in ToSet(busQueue'[x]) \/ Safe(x, y, l)'
          BY <2>1, <3>2
    <3> QED BY <1>1, <2>1, <2>5, <3>1, <3>3, SafeStays
  <2>6. \A x \in Caches : \A a \in ToSet(busQueue'[x]) : a.id = n
        BY <1>n, <2>1 DEF OneAtATime, Alone
  <2>7. OneStep(G, N)
        BY <1>1, <1>n, <2>1, <2>3, <2>4, <2>5, <2>6 DEF OneStep
  <2> QED BY <2>7, CoherentStep
<1>4. \/ UNCHANGED <<queue, busQueue, pending>>
      \/ \E c \in Caches : \E m, snoop, gone, new : BroadcastOver(c, m, snoop, gone, new)
      BY BusCompletedInv
<1> QED BY <1>2, <1>3, <1>4

\* What a cache that answers request i does with the line: it keeps at most a
\* shared copy, and says so if it has the data.  The shared cache has no copy.
GivesUp(c, i, data, shared) ==
    LET l == requests[i].line
        s == cstate[c][l]
    IN /\ c \notin Caches => cstate' = cstate
       /\ c \in Caches =>
             /\ cstate' = IF s = "absent" THEN cstate
                          ELSE [cstate EXCEPT ![c][l] = Snooped(s, requests[i].type)]
             /\ s \in Gone => ~data
             /\ s \notin Gone /\ requests[i].type = "READ" => shared

\* Its line afterwards.
LEMMA AfterAnswer ==
    ASSUME BusInv, NEW c \in Controllers, NEW i \in 1 .. Len(requests), NEW data, NEW shared,
           GivesUp(c, i, data, shared)
    PROVE  LET l == requests[i].line
               s == cstate'[c][l] IN
           /\ l \in Line
           /\ \A x \in Caches, k \in Line : x # c \/ k # l => cstate'[x][k] = cstate[x][k]
           /\ c \in Caches =>
                 /\ s \in Gone \/ (s = "S" /\ requests[i].type = "READ" /\ cstate[c][l] \notin Gone)
                 /\ cstate[c][l] \in Gone => s \in Gone
<1>1. requests[i] \in Message
      BY Basics, ElementOfSeq DEF Typed
<1>2. requests[i].line \in Line /\ cstate \in [Caches -> [Line -> LineState]]
      BY <1>1, CoherentBusAssumption, Basics DEF Typed
<1>3. PICK l \in Line : l = requests[i].line
      BY <1>2
<1>4. CASE c \notin Caches
      BY <1>2, <1>4 DEF GivesUp
<1>5. CASE c \in Caches /\ cstate[c][l] = "absent"
      BY <1>2, <1>3, <1>5 DEF GivesUp, Gone
<1>6. CASE c \in Caches /\ cstate[c][l] # "absent"
  <2>1. cstate' = [cstate EXCEPT ![c][l] = Snooped(cstate[c][l], requests[i].type)]
        BY <1>3, <1>6 DEF GivesUp
  <2>2. cstate'[c][l] = Snooped(cstate[c][l], requests[i].type)
        BY <1>2, <1>6, <2>1
  <2>3. \A x \in Caches, k \in Line : x # c \/ k # l => cstate'[x][k] = cstate[x][k]
        BY <1>2, <2>1
  <2> QED BY <1>2, <1>3, <1>6, <2>2, <2>3 DEF Snooped, Gone
<1> QED BY <1>3, <1>4, <1>5, <1>6

\* The line of a controller that has answered is given up, and so is that of the
\* others when it has called them off.
LEMMA AllGaveUp ==
    ASSUME BusInv, NoSecondCopy, OneAtATime, requests' = requests,
           NEW c \in Controllers, NEW i \in Ids, i = Len(requests),
           NEW data, NEW shared, GivesUp(c, i, data, shared), c \in Caches => requests[i].cache # c,
           NEW p \in ToSet(pending), NEW o, o.id = p.id, o.cache = p.cache, o.type = p.type,
           HasAnswer(p, o, c, i, data, shared)
    PROVE  GaveUp(o)'
<1>1. /\ p.id = i /\ GaveUp(p) /\ p.id \in 1 .. Len(requests)
      /\ p.cache = requests[i].cache /\ p.type = requests[i].type /\ p.cache \in Caches
      BY PendingTypes DEF OneAtATime, Alone, BusInv, PendingInv
<1>2. i \in 1 .. Len(requests)
      BY <1>1
<1>3. PICK l \in Line :
         /\ l = requests[i].line
         /\ \A x \in Caches : x # c => cstate'[x][l] = cstate[x][l]
         /\ c \in Caches =>
               /\ \/ cstate'[c][l] \in Gone
                  \/ /\ cstate'[c][l] = "S" /\ requests[i].type = "READ"
                     /\ cstate[c][l] \notin Gone
               /\ cstate[c][l] \in Gone => cstate'[c][l] \in Gone
      BY <1>2, AfterAnswer
<1>4. /\ p.shared => o.shared
      /\ \A x \in o.got : x \in p.got \/ x = c \/ (data /\ c \in Caches)
      /\ shared /\ c \in Caches => o.shared
      BY <1>1 DEF HasAnswer
<1>5. SUFFICES ASSUME NEW x \in Caches \cap o.got, x # p.cache
               PROVE  \/ cstate'[x][l] \in Gone
                      \/ p.type = "READ" /\ o.shared /\ cstate'[x][l] = "S"
      BY <1>1, <1>3 DEF GaveUp
<1>6. CASE x = c
  <2>1. CASE cstate[c][l] \in Gone
        BY <1>3, <1>6, <2>1
  <2>2. CASE cstate[c][l] \notin Gone
    <3>1. requests[i].type = "READ" => shared
          BY <1>3, <1>6, <2>2 DEF GivesUp
    <3> QED BY <1>1, <1>3, <1>4, <1>6, <3>1
  <2> QED BY <2>1, <2>2
<1>7. CASE x # c /\ x \in p.got
  <2>1. cstate'[x][l] = cstate[x][l]
        BY <1>3, <1>7
  <2>2. cstate[x][l] \in Gone \/ (p.type = "READ" /\ p.shared /\ cstate[x][l] = "S")
        BY <1>1, <1>3, <1>5, <1>7 DEF GaveUp
  <2> QED BY <1>4, <2>1, <2>2
<1>8. CASE x # c /\ data /\ c \in Caches
  <2>1. cstate'[x][l] = cstate[x][l] /\ cstate[c][l] \notin Gone
        BY <1>3, <1>8 DEF GivesUp
  <2>2. x # c /\ c # p.cache /\ x # p.cache
        BY <1>1, <1>5, <1>8
  <2>3. requests[i].type # "WRITE"
    <3>1. requests[i] \in Message
          BY <1>2, Basics, ElementOfSeq DEF Typed
    <3>2. ~(NumCaches <= 2)
          BY <1>1, <1>8, <2>2, Constants DEF Caches
    <3> QED BY <3>1, <3>2 DEF NoSecondCopy
  <2>4. p.type = "READ"
    <3>1. p.type \in {"READ", "WRITE"}
      <4>1. LocalAt(p.cache, i, {"asked"})
            BY <1>1 DEF BusInv, PendingInv
      <4>2. PICK e \in ToSet(queue[p.cache]) : e.key = <<"local", i>> /\ e.stage = "asked"
            BY <4>1 DEF LocalAt
      <4>3. EntryInv(p.cache, e) /\ e.key[1] = "local" /\ e.key[2] = i
            BY <1>1, <4>2, Basics
      <4>4. LocalInv(p.cache, e)
            BY <4>3 DEF EntryInv
      <4>5. Expected(e.type) /\ requests[i].type = e.type
            BY <4>2, <4>3, <4>4 DEF LocalInv
      <4> QED BY <1>1, <4>5 DEF Expected
    <3> QED BY <1>1, <2>3, <3>1
  <2>5. o.shared
    <3>1. shared
          BY <1>1, <1>3, <1>8, <2>1, <2>4 DEF GivesUp
    <3> QED BY <1>4, <1>8, <3>1
  <2>6. cstate[x][l] \notin {"E", "M"}
    <3> SUFFICES ASSUME cstate[x][l] \in {"E", "M"} PROVE FALSE
        OBVIOUS
    <3>1. EvictOnWay(x, c, l)
          BY <1>3, <1>8, <2>1 DEF OneAtATime, Exclusive
    <3>2. requests[Len(requests)].cache = x
          BY <1>8, <3>1, EvictOwner DEF OneAtATime
    <3> QED BY <1>1, <2>2, <3>2
  <2>7. cstate[x][l] \in LineState
        BY Basics DEF Typed
  <2> QED BY <2>1, <2>4, <2>5, <2>6, <2>7 DEF LineState, Gone
<1> QED BY <1>4, <1>5, <1>6, <1>7, <1>8

\* An answer keeps the lines coherent.
LEMMA AnswerCoherent ==
    ASSUME BusInv, NoSecondCopy, OneAtATime,
           NEW c, NEW i, NEW data, NEW shared, NEW q, NEW below, NEW r, NEW new,
           Answering(c, i, data, shared, q, below, r, new), GivesUp(c, i, data, shared)
    PROVE  OneAtATime'
<1>1. /\ c \in Controllers /\ i \in Ids
      /\ \A f \in new : EntryInv(c, f)' /\ f.key[1] \in Offspring /\ f.key[2] = i
      /\ UNCHANGED <<requests, busQueue>>
      /\ c \in Caches => In(queue[c], <<"snoop", i>>)
      /\ c \notin Caches => i \in lower
      BY DEF Answering
<1>2. i = Len(requests) /\ i \in 1 .. Len(requests)
  <2>1. CASE c \in Caches
    <3>1. PICK e \in ToSet(queue[c]) : e.key = <<"snoop", i>>
          BY <1>1, <2>1, Basics, InSet
    <3>2. e.key[2] = i
          BY <3>1
    <3>3. i = Len(requests)
          BY <2>1, <3>2 DEF OneAtATime, Alone
    <3>4. i \in 1 .. Len(requests)
          BY <2>1, <3>2, Basics DEF EntryInv
    <3> QED BY <3>3, <3>4
  <2>2. CASE c \notin Caches
    <3>1. Awaited(Lower, i)
          BY <1>1, <2>2, WorksOn
    <3>2. PICK p \in ToSet(pending) : p.id = i
          BY <3>1, PendingTypes, Elements DEF Awaited
    <3> QED BY <3>2 DEF OneAtATime, Alone, BusInv, PendingInv
  <2> QED BY <2>1, <2>2
<1>3. c \in Caches => requests[i].cache # c
  <2> SUFFICES ASSUME c \in Caches PROVE requests[i].cache # c
      OBVIOUS
  <2>1. PICK e \in ToSet(queue[c]) : e.key = <<"snoop", i>>
        BY <1>1, Basics, InSet
  <2>2. EntryInv(c, e) /\ e.key[1] = "snoop" /\ e.key[2] = i
        BY <2>1, Basics
  <2> QED BY <2>2 DEF EntryInv
<1>4. /\ BusInv'
      /\ \E G, N : /\ Changed(G, N)
                   /\ \A x \in Caches : /\ G[x] \subseteq {<<"snoop", i>>}
                                        /\ N[x] \subseteq IF x = c THEN new ELSE {}
      /\ \A o \in ToSet(pending') : \E p \in ToSet(pending) :
            /\ o.id = p.id /\ o.cache = p.cache /\ o.type = p.type
            /\ HasAnswer(p, o, c, i, data, shared)
      BY RespondInv
<1>5. PICK G, N : /\ Changed(G, N)
                  /\ \A x \in Caches : /\ G[x] \subseteq {<<"snoop", i>>}
                                       /\ N[x] \subseteq IF x = c THEN new ELSE {}
      BY <1>4
<1>6. PICK l \in Line :
         /\ l = requests[i].line
         /\ \A x \in Caches, k \in Line : x # c \/ k # l => cstate'[x][k] = cstate[x][k]
         /\ c \in Caches =>
               /\ \/ cstate'[c][l] \in Gone
                  \/ /\ cstate'[c][l] = "S" /\ requests[i].type = "READ"
                     /\ cstate[c][l] \notin Gone
               /\ cstate[c][l] \in Gone => cstate'[c][l] \in Gone
      BY <1>1, <1>2, AfterAnswer
<1>7. \A x \in Caches : \A f \in N[x] : f.key[2] = Len(requests) /\ Found(x, f)'
  <2> SUFFICES ASSUME NEW x \in Caches, NEW f \in N[x]
               PROVE  f.key[2] = Len(requests) /\ Found(x, f)'
      OBVIOUS
  <2>1. x = c /\ f \in new
        BY <1>5
  <2>2. EntryInv(c, f)' /\ f.key[1] \in Offspring /\ f.key[2] = i
        BY <1>1, <2>1
  <2>3. Found(c, f)'
        BY <2>2 DEF EntryInv, DownInv, Offspring, Found
  <2> QED BY <1>2, <2>1, <2>2, <2>3
<1>8. ASSUME NEW x \in Caches, NEW d \in ToSet(queue[x]), d.key \notin G[x], Relies(d)
      PROVE  cstate'[x][d.line] = cstate[x][d.line]
  <2>1. d.line \in Line /\ d.key[2] = i
        BY <1>2, Basics, EntryFields DEF OneAtATime, Alone
  <2>2. CASE x # c
        BY <1>6, <2>1, <2>2
  <2>3. CASE x = c
    <3>1. d.key = <<"snoop", i>>
          BY <1>1, <2>1, <2>3, Snooping
    <3>2. cstate[c][d.line] = "absent" /\ d.line = l
      <4>1. Found(c, d) /\ EntryInv(c, d) /\ d.key[1] = "snoop"
            BY <2>3, <3>1, Basics DEF OneAtATime
      <4>2. d.stage = "miss"
            BY <1>8, <4>1 DEF Relies
      <4> QED BY <1>6, <2>1, <4>1, <4>2 DEF Found, EntryInv, SnoopInv
    <3>3. cstate' = cstate
          BY <1>6, <2>3, <3>2 DEF GivesUp
    <3> QED BY <3>3
  <2> QED BY <2>2, <2>3
<1>9. \A x \in Caches : \A m \in ToSet(busQueue'[x]) : m.id = Len(requests)
      BY <1>1 DEF OneAtATime, Alone
<1>10. \A o \in ToSet(pending') : o.id = Len(requests) /\ GaveUp(o)'
  <2> SUFFICES ASSUME NEW o \in ToSet(pending') PROVE o.id = Len(requests) /\ GaveUp(o)'
      OBVIOUS
  <2>1. PICK p \in ToSet(pending) :
            /\ o.id = p.id /\ o.cache = p.cache /\ o.type = p.type
            /\ HasAnswer(p, o, c, i, data, shared)
        BY <1>4
  <2>2. o.id = Len(requests)
        BY <2>1 DEF OneAtATime, Alone
  <2>3. GaveUp(o)'
        BY <1>1, <1>2, <1>3, <2>1, AllGaveUp
  <2> QED BY <2>2, <2>3
<1>11. ASSUME NEW x \in Caches, NEW y \in Caches, NEW k \in Line, x # y
       PROVE  Safe(x, y, k)'
  <2>1. Safe(x, y, k)
        BY <1>11 DEF OneAtATime, Safe
  <2>2. /\ \A d \in ToSet(queue[x]) : d.key \in G[x] => d.key[1] # "down"
        /\ \A d \in ToSet(queue[y]) : d.key \in G[y] => d.key[1] # "evict"
    <3>1. ASSUME NEW z \in Caches, NEW d \in ToSet(queue[z]), d.key \in G[z]
          PROVE  d.key[1] = "snoop"
      <4>1. d.key \in {<<"snoop", i>>}
            BY <1>5, <3>1
      <4> QED BY <4>1
    <3> QED BY <3>1
  <2>3. CASE EvictOnWay(x, y, k)
        BY <1>1, <1>5, <2>2, <2>3, EvictStays
  <2>4. CASE Exclusive(x, y, k) /\ k = l /\ x = c
        BY <1>6, <2>4 DEF Safe, Exclusive, Gone
  <2>5. CASE Exclusive(x, y, k) /\ k = l /\ y = c
        BY <1>6, <1>11, <2>5 DEF Safe, Exclusive
  <2>6. CASE Exclusive(x, y, k) /\ ~(k = l /\ (x = c \/ y = c))
        BY <1>6, <2>6 DEF Safe, Exclusive
  <2> QED BY <2>1, <2>3, <2>4, <2>5, <2>6 DEF Safe
<1>12. OneStep(G, N)
       BY <1>1, <1>5, <1>7, <1>8, <1>9, <1>10, <1>11 DEF OneStep
<1> QED BY <1>12, CoherentStep

\* The answers of the caches and of the shared cache.
LEMMA SnoopCoherent ==
    ASSUME BusInv, NoSecondCopy, OneAtATime, NEW c \in Caches, NEW id,
           SnoopHit(c, id) \/ SnoopMiss(c, id)
    PROVE  OneAtATime'
<1>1. CASE SnoopHit(c, id)
  <2>1. PICK e \in ToSet(queue[c]), old \in LineState :
           /\ e.key = <<"snoop", id>> /\ e.stage = "hit"
           /\ e.frame \in Held(c) /\ old = cstate[c][e.frame]
           /\ cstate' = [cstate EXCEPT ![c][e.frame] = Snooped(old, e.type)]
           /\ \E q, r, new :
                 Answering(c, id, old # "I", AnswersShared(old, e.type), q, lower, r, new)
        BY <1>1, SnoopHitAnswers
  <2>2. PICK data, shared : /\ data = (old # "I") /\ shared = AnswersShared(old, e.type)
                            /\ \E q, r, new : Answering(c, id, data, shared, q, lower, r, new)
        BY <2>1
  <2>3. PICK q, r, new : Answering(c, id, data, shared, q, lower, r, new)
        BY <2>2
  <2>4. e.frame = e.line /\ e.line = requests[id].line /\ e.type = requests[id].type
    <3>1. EntryInv(c, e) /\ e.key[1] = "snoop" /\ e.key[2] = id /\ Found(c, e)
          BY <2>1, Basics DEF OneAtATime
    <3> QED BY <2>1, <3>1 DEF Found, EntryInv, SnoopInv
  <2>5. old # "absent"
        BY <2>1 DEF Held
  <2>6. /\ old \in Gone => ~data
        /\ old \notin Gone /\ e.type = "READ" => shared
        BY <2>2, <2>5 DEF Gone, AnswersShared
  <2>7. GivesUp(c, id, data, shared)
        BY <2>1, <2>4, <2>5, <2>6 DEF GivesUp
  <2> QED BY <2>3, <2>7, AnswerCoherent
<1>2. CASE SnoopMiss(c, id)
  <2>1. PICK q, r, new : Answering(c, id, FALSE, FALSE, q, lower, r, new)
        BY <1>2, SnoopMissAnswers
  <2>2. At(c, <<"snoop", id>>, "miss") /\ cstate' = cstate
        BY <1>2 DEF SnoopMiss
  <2>3. PICK e \in ToSet(queue[c]) : e.key = <<"snoop", id>> /\ e.stage = "miss" /\ EntryInv(c, e)
        BY <2>2, AtProperties
  <2>4. cstate[c][requests[id].line] = "absent"
    <3>1. e.key[1] = "snoop" /\ e.key[2] = id /\ Found(c, e)
          BY <2>3 DEF OneAtATime
    <3> QED BY <2>3, <3>1 DEF Found, EntryInv, SnoopInv
  <2>5. GivesUp(c, id, FALSE, FALSE)
        BY <2>2, <2>4 DEF GivesUp, Gone
  <2> QED BY <2>1, <2>5, AnswerCoherent
<1> QED BY <1>1, <1>2

\* The answer of the shared cache, which calls off nobody.
LEMMA LowerCoherent ==
    ASSUME BusInv, NoSecondCopy, OneAtATime, NEW id, LowerAnswer(id)
    PROVE  OneAtATime'
<1>1. PICK q, below, r, new : Answering(Lower, id, TRUE, FALSE, q, below, r, new)
      BY LowerAnswers
<1>2. GivesUp(Lower, id, TRUE, FALSE)
      BY Constants DEF LowerAnswer, GivesUp
<1> QED BY <1>1, <1>2, AnswerCoherent

\* The data arrives: all other caches have given the line up, or share it.
LEMMA DataCoherent ==
    ASSUME BusInv, OneAtATime, NEW id, DataCompleted(id)
    PROVE  OneAtATime'
<1>1. PICK p \in PendingRequest :
         /\ p = PendingOf(id) /\ p \in ToSet(pending) /\ p.id = id /\ id \in Ids
         /\ \A x \in Controllers : ~Awaited(x, id)
         /\ \A o \in ToSet(pending') : o \in ToSet(pending) /\ o.id # id
      BY CompletedBus
<1>2. PICK c \in Caches : c = p.cache
      BY <1>1, PendingTypes
<1>3. UNCHANGED <<requests, busQueue>>
      BY DEF DataCompleted
<1>4. /\ id = Len(requests) /\ id \in 1 .. Len(requests) /\ requests[id].cache = c /\ GaveUp(p)
      /\ p.type = requests[id].type
      BY <1>1, <1>2 DEF OneAtATime, Alone, BusInv, PendingInv
<1>5. \A o \in ToSet(pending') : FALSE
      BY <1>1, <1>4 DEF OneAtATime, Alone
<1>6. CASE UNCHANGED <<queue, cstate>>
      BY <1>3, <1>5, <1>6 DEF OneAtATime, Alone, Exclusive, EvictOnWay, Found
<1>7. ASSUME NEW victim, NEW new, DataTaken(p, victim, new), BusInv' PROVE OneAtATime'
  <2>1. PICK l \in Line : l = requests[id].line
    <3>1. requests[id] \in Message
          BY <1>4, Basics, ElementOfSeq DEF Typed
    <3> QED BY <3>1, CoherentBusAssumption
  <2>2. /\ cstate' = [cstate EXCEPT ![c] = Filled(@, l, victim, new)]
        /\ new \in {"E", "M"} => ~p.shared
        /\ \A x \in Caches \ {c} : queue'[x] = queue[x]
        /\ \A f \in ToSet(queue'[c]) : /\ f.key = <<"local", id>> => f.stage = "fill"
                                       /\ f.key[2] = id \/ In(queue[c], f.key)
        BY <1>1, <1>2, <1>7, <2>1 DEF DataTaken
  <2>3. /\ \A x \in Caches \ {c} : cstate'[x] = cstate[x]
        /\ \A k \in Line : cstate'[c][k] = IF k = l THEN new
                                           ELSE IF k = victim THEN "absent" ELSE cstate[c][k]
        BY <2>2, Basics DEF Typed, Filled
  <2>4. \A x \in Caches \ {c} : cstate[x][l] \in Gone \/ (p.shared /\ cstate[x][l] = "S")
    <3> SUFFICES ASSUME NEW x \in Caches \ {c}
                 PROVE  cstate[x][l] \in Gone \/ (p.shared /\ cstate[x][l] = "S")
        OBVIOUS
    <3>1. x \in p.got
      <4>1. PICK k \in DOMAIN pending : p = pending[k]
            BY <1>1, PendingTypes, Elements
      <4> QED BY <1>1, <4>1, Constants DEF Awaited
    <3> QED BY <1>1, <1>2, <1>4, <2>1, <3>1 DEF GaveUp
  <2>5. ASSUME NEW f \in ToSet(queue'[c]) PROVE f.key[2] = id /\ Found(c, f)'
    <3>1. f.key[2] = id
      <4>1. CASE In(queue[c], f.key)
        <5>1. PICK e \in ToSet(queue[c]) : e.key = f.key
              BY <4>1, Basics, InSet
        <5> QED BY <1>4, <5>1 DEF OneAtATime, Alone
      <4> QED BY <2>2, <2>5, <4>1
    <3>2. EntryInv(c, f)' /\ f \in QueueEntry
      <4>1. queue'[c] \in Seq(QueueEntry)
            BY <1>7 DEF BusInv, Typed
      <4>2. f \in QueueEntry
            BY <2>5, <4>1, Elements
      <4> QED BY <1>7, <2>5, <4>2 DEF BusInv, QueueInv
    <3>3. f.key[1] \in Role /\ f.key = <<f.key[1], id>>
          BY <3>1, <3>2, EntryFields
    <3>4. f.key[1] \notin {"snoop", "evict"}
          BY <1>3, <1>4, <3>1, <3>2 DEF EntryInv
    <3>5. f.key[1] = "local" => f.stage = "fill"
          BY <2>2, <2>5, <3>3
    <3>6. f.key[1] \in Offspring => f.stage \in {"send", "answer"}
          BY <3>2 DEF EntryInv, DownInv, Offspring
    <3> QED BY <3>1, <3>3, <3>4, <3>5, <3>6 DEF Found, Role, Offspring
  <2>6. \A x \in Caches : \A e \in ToSet(queue'[x]) : e.key[2] = id /\ Found(x, e)'
    <3>1. ASSUME NEW x \in Caches \ {c}, NEW e \in ToSet(queue[x])
          PROVE  e.key[2] = id /\ Found(x, e)'
          BY <1>4, <2>3, <3>1 DEF OneAtATime, Alone, Found
    <3> QED BY <2>2, <2>5, <3>1
  <2>7. Alone'
        BY <1>3, <1>4, <1>5, <2>6 DEF OneAtATime, Alone
  <2>8. ASSUME NEW x \in Caches, NEW y \in Caches, NEW k \in Line, x # y
        PROVE  Exclusive(x, y, k)' \/ EvictOnWay(x, y, k)'
    <3>1. CASE EvictOnWay(x, y, k)
      <4>1. x = c
            BY <1>4, <3>1, EvictOwner DEF OneAtATime
      <4>2. WaitsForData(p, c, id)
        <5>1. AsksFor(p, c, id)
              BY <1>1, <1>2 DEF AsksFor
        <5> QED BY <5>1, Completing
      <4>3. ASSUME NEW e \in ToSet(queue[c]), e.key[1] = "down" PROVE FALSE
        <5>1. e.key = <<"down", id>> /\ In(queue[c], e.key)
          <6>1. e.key = <<e.key[1], e.key[2]>> /\ In(queue[c], e.key)
                BY Basics, EntryFields, InSet
          <6> QED BY <1>4, <4>3, <6>1 DEF OneAtATime, Alone
        <5> QED BY <4>2, <5>1 DEF WaitsForData, NoOffspring, Offspring
      <4>4. EvictOnWay(x, y, k)'
            BY <1>3, <2>2, <2>8, <3>1, <4>1, <4>3 DEF EvictOnWay
      <4> QED BY <4>4
    <3>2. CASE Exclusive(x, y, k)
      <4>1. CASE k = l /\ x = c
            BY <2>2, <2>3, <2>4, <2>8, <4>1 DEF Exclusive
      <4>2. CASE k = l /\ y = c
        <5>1. cstate[x][k] \notin {"E", "M"} /\ cstate'[x] = cstate[x]
              BY <2>3, <2>4, <2>8, <4>2 DEF Gone
        <5> QED BY <5>1 DEF Exclusive
      <4>3. CASE ~(k = l /\ (x = c \/ y = c))
            BY <2>3, <2>8, <3>2, <4>3 DEF Exclusive, Gone
      <4> QED BY <4>1, <4>2, <4>3
    <3> QED BY <2>8, <3>1, <3>2 DEF OneAtATime
  <2> QED BY <1>5, <2>6, <2>7, <2>8 DEF OneAtATime
<1>8. CASE RoomToAct(c)
  <2>1. CompleteRequest(c, id, p.shared)
        BY <1>1, <1>2, <1>8 DEF DataCompleted
  <2>2. BusInv' /\ \E victim, new : DataTaken(p, victim, new)
        BY <1>1, <1>2, <2>1, TakesDataInv
  <2> QED BY <1>7, <2>2
<1>9. CASE ~RoomToAct(c)
      BY <1>1, <1>2, <1>6, <1>9 DEF DataCompleted
<1> QED BY <1>8, <1>9

\* Without an EVICT on its way no line has a writer beside a reader.
LEMMA QuietExclusive ==
    ASSUME OneAtATime, Quiet
    PROVE  \A x, y \in Caches, l \in Line : x # y => Exclusive(x, y, l)
<1>1. ToSet(<<>>) = {}
      BY DEF ToSet
<1>2. \A c \in Caches : ToSet(queue[c]) = {} /\ ToSet(busQueue[c]) = {}
      BY <1>1 DEF Quiet
<1> QED BY <1>2 DEF OneAtATime, EvictOnWay

\* A request that comes when nothing is under way is the only one.
LEMMA RequestCoherent ==
    ASSUME BusInv, CoherentInv, NEW msg \in Message, LocalRequest(msg)
    PROVE  CoherentInv'
<1> SUFFICES ASSUME ~overlapped' PROVE OneAtATime'
    BY DEF CoherentInv
<1> DEFINE c == msg.cache
           dep == FindDependency(queue[c], msg.line)
           new == NewEntry(<<"local", Len(requests) + 1>>, msg.type, msg.line,
                           IF dep = NoKey THEN "access" ELSE "wait")
<1>1. /\ requests' = Append(requests, msg) /\ overlapped' = (overlapped \/ ~Quiet)
      /\ UNCHANGED <<cstate, busQueue, pending>>
      BY DEF LocalRequest, busVars
<1>2. OneAtATime /\ Quiet
      BY <1>1 DEF CoherentInv
<1>3. PICK e : e = [new EXCEPT !.waitFor = dep]
      OBVIOUS
<1>4. queue' = [queue EXCEPT ![c] = Append(queue[c], e)]
      BY <1>3 DEF LocalRequest
<1>5. e.key[2] = Len(requests) + 1 /\ e.key[1] = "local" /\ e.stage \in {"access", "wait"}
  <2> HIDE DEF dep
  <2>1. /\ e.key = <<"local", Len(requests) + 1>>
        /\ e.stage = IF dep = NoKey THEN "access" ELSE "wait"
        BY <1>3 DEF NewEntry
  <2> QED BY <2>1
<1> HIDE DEF dep, new
<1>6. c \in Caches /\ queue \in [Caches -> Seq(QueueEntry)]
      BY Basics, CoherentBusAssumption DEF Typed
<1>7. queue'[c] = Append(queue[c], e) /\ \A x \in Caches \ {c} : queue'[x] = queue[x]
      BY <1>4, <1>6
<1>8. ToSet(<<>>) = {}
      BY DEF ToSet
<1>9. /\ ToSet(queue'[c]) = {e} /\ \A x \in Caches \ {c} : ToSet(queue'[x]) = {}
      /\ \A x \in Caches : ToSet(busQueue'[x]) = {}
      /\ ToSet(pending') = {}
  <2>1. PICK S : S = {e}
        OBVIOUS
  <2>2. PICK s \in Seq(S) : s = <<>>
    <3>1. <<>> \in Seq(S)
          OBVIOUS
    <3> QED BY <3>1
  <2>3. ToSet(Append(s, e)) = ToSet(s) \cup {e}
        BY <2>1, <2>2, AppendFacts
  <2> QED BY <1>1, <1>2, <1>6, <1>7, <1>8, <2>2, <2>3 DEF Quiet
<1>10. Len(requests') = Len(requests) + 1
  <2>1. requests \in Seq(Message)
        BY Basics DEF Typed
  <2> QED BY <1>1, <2>1, AppendFacts
<1>11. Alone'
      BY <1>5, <1>6, <1>9, <1>10 DEF Alone
<1>12. \A x, y \in Caches, l \in Line : x # y => Exclusive(x, y, l)'
       BY <1>1, <1>2, QuietExclusive DEF Exclusive
<1>13. Found(c, e)'
       BY <1>5 DEF Found
<1>14. \A x \in Caches : \A f \in ToSet(queue'[x]) : Found(x, f)'
       BY <1>6, <1>9, <1>13
<1> HIDE DEF c
<1> QED BY <1>9, <1>11, <1>12, <1>14 DEF OneAtATime

\* No step leaves a writer beside a reader, as long as requests do not overlap.
LEMMA NextCoherent ==
    ASSUME BusInv, NoSecondCopy, CoherentInv, Next
    PROVE  CoherentInv'
<1>1. BusInv'
      BY StepInv
<1>2. CASE \E msg \in Message : LocalRequest(msg)
      BY <1>2, RequestCoherent
<1>3. SUFFICES ASSUME ~\E msg \in Message : LocalRequest(msg), ~overlapped, OneAtATime
      PROVE  OneAtATime'
  <2>1. overlapped' => ~(~overlapped')
        OBVIOUS
  <2>2. overlapped' = overlapped \/ \E msg \in Message : LocalRequest(msg)
    <3>1. CASE BusPoll \/ BusBroadcast \/ BusCompleted
          BY <3>1 DEF BusPoll, BusBroadcast, BusCompleted
    <3>2. CASE \E id : DataBroadcast(id) \/ DataCompleted(id) \/ LowerAnswer(id)
          BY <3>2 DEF DataBroadcast, DataCompleted, LowerAnswer
    <3>3. CASE \E c \in Caches : \E key : CacheAccess(c, key) \/ SendDown(c, key) \/ SendUp(c, key)
          BY <3>3 DEF CacheAccess, SendDown, SendUp
    <3>4. CASE \E c \in Caches : \E id : LocalHit(c, id) \/ LocalMiss(c, id) \/ Drain(c, id)
          BY <3>4 DEF LocalHit, LocalMiss, Drain
    <3>5. CASE \E c \in Caches : \E id : SnoopHit(c, id) \/ SnoopMiss(c, id) \/ SnoopEvict(c, id)
          BY <3>5 DEF SnoopHit, SnoopMiss, SnoopEvict
    <3> QED BY <3>1, <3>2, <3>3, <3>4, <3>5, StepOf
  <2> QED BY <1>2, <2>2 DEF CoherentInv
<1>4. CASE BusPoll \/ BusBroadcast \/ BusCompleted
  <2>1. CASE BusPoll \/ BusBroadcast
        BY <1>3, <2>1, StillCoherent DEF BusPoll, BusBroadcast
  <2>2. CASE BusCompleted
        BY <1>3, <2>2, BroadcastCoherent
  <2> QED BY <1>4, <2>1, <2>2
<1>5. CASE \E id : DataBroadcast(id) \/ DataCompleted(id) \/ LowerAnswer(id)
  <2>1. ASSUME NEW id, DataBroadcast(id) PROVE OneAtATime'
        BY <1>3, <2>1, StillCoherent DEF DataBroadcast
  <2> QED BY <1>3, <1>5, <2>1, DataCoherent, LowerCoherent
<1>6. CASE \E c \in Caches : \E key : CacheAccess(c, key) \/ SendDown(c, key) \/ SendUp(c, key)
      BY <1>3, <1>6, AccessCoherent, SendDownCoherent, ThroughCoherent
<1>7. CASE \E c \in Caches : \E id : LocalHit(c, id) \/ LocalMiss(c, id) \/ Drain(c, id)
  <2>1. ASSUME NEW c \in Caches, NEW id, LocalMiss(c, id) \/ Drain(c, id) PROVE OneAtATime'
    <3>1. PICK key : key = <<"local", id>>
          OBVIOUS
    <3>2. key[1] = "local" /\ key[2] = id
          BY <3>1
    <3> QED BY <1>3, <2>1, <3>1, <3>2, ThroughCoherent
  <2> QED BY <1>1, <1>3, <1>7, <2>1, HitCoherent
<1>8. CASE \E c \in Caches : \E id : SnoopHit(c, id) \/ SnoopMiss(c, id) \/ SnoopEvict(c, id)
      BY <1>3, <1>8, SnoopCoherent, EvictCoherent
<1> QED BY <1>3, <1>4, <1>5, <1>6, <1>7, <1>8, StepOf

\* At the start each line has one owner, and nothing is under way.
LEMMA InitCoherent ==
    ASSUME Init, OwnedOnce
    PROVE  CoherentInv
<1>1. ToSet(<<>>) = {}
      BY DEF ToSet
<1>2. /\ \A c \in Caches : ToSet(queue[c]) = {} /\ ToSet(busQueue[c]) = {}
      /\ ToSet(pending) = {}
      BY <1>1 DEF Init
<1>3. \A x, y \in Caches, l \in Line : x # y => Exclusive(x, y, l)
      BY DEF Init, OwnedOnce, Exclusive
<1> QED BY <1>2, <1>3 DEF CoherentInv, OneAtATime, Alone

\* Requests that do not overlap keep the caches coherent, for every number of
\* lines and caches, every capacity and every order of the events: when the last
\* event is over, a cache that owns a line is the only one that holds it.  The
\* caches start with one owner for each line; with three caches the requests are
\* READs and UPDATEs, since a WRITE that finds two copies leaves one of them when
\* the first answer with data calls the other cache off.
THEOREM CoherentCaches ==
    ASSUME OwnedOnce, NoSecondCopy
    PROVE  Spec => []CoherentWhenQuiet
<1>1. Init => CoherentInv
      BY InitCoherent
<1>2. BusInv /\ CoherentInv /\ [Next]_vars => CoherentInv'
  <2> SUFFICES ASSUME BusInv, CoherentInv, [Next]_vars PROVE CoherentInv'
      OBVIOUS
  <2>1. CASE UNCHANGED vars
    <3>1. UNCHANGED <<requests, queue, cstate, busQueue, pending, overlapped>>
          BY <2>1 DEF vars, busVars
    <3> QED BY <3>1, StillCoherent DEF CoherentInv
  <2> QED BY <2>1, NextCoherent
<1>3. CoherentInv => CoherentWhenQuiet
      BY QuietExclusive
         DEF CoherentInv, CoherentWhenQuiet, SingleOwner, Exclusive, Gone
<1> QED BY <1>1, <1>2, <1>3, BusInvariant, PTL DEF Spec
=============================================================================
