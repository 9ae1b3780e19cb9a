--------------------------- MODULE InformerProofs ---------------------------
(***************************************************************************)
(* What a reconciler may rely on however far its cache lags: a cached      *)
(* object that no event is under way to is the stored one.                 *)
(***************************************************************************)
EXTENDS Informer, SequenceTheorems, TLAPS

\* No later event is about the same object.
LastEvent(watch, n) == \A m \in DOMAIN watch : m > n => watch[m].key # watch[n].key

\* The cache of the objects named keys agrees with the store but for the events under
\* way, the last of which, for every object, carries the stored one.
Coherent(keys, store, cache, watch) ==
  \A k \in keys :
    /\ Quiet(watch, k)  => cache[k] = store[k]
    /\ ~Quiet(watch, k) => \E n \in DOMAIN watch :
                             LastEvent(watch, n) /\ watch[n] = Event(k, store[k])

\* An informer that has just listed is coherent.
LEMMA ListCoherent ==
  ASSUME NEW keys, NEW store
  PROVE  Coherent(keys, store, store, <<>>)
BY DEF Coherent, Quiet

\* The events of a watch are about its own objects.
LEMMA EventKeys ==
  ASSUME NEW keys, NEW V, NEW watch \in Seq([key : keys, val : V])
  PROVE  \A n \in DOMAIN watch : watch[n].key \in keys
<1> TAKE n \in DOMAIN watch
<1>1. n \in 1..Len(watch)
  OBVIOUS
<1>2. watch[n] \in [key : keys, val : V]
  BY <1>1, ElementOfSeq
<1> QED
  BY <1>2

\* A write and the event that announces it keep an informer coherent.
LEMMA WriteCoherent ==
  ASSUME NEW keys, NEW V, NEW store, keys \subseteq DOMAIN store, NEW cache,
         NEW watch \in Seq([key : keys, val : V]), Coherent(keys, store, cache, watch),
         NEW k \in keys, NEW v \in V
  PROVE  Coherent(keys, [store EXCEPT ![k] = v], cache, Append(watch, Event(k, v)))
<1> DEFINE L == Len(watch)
           e == Event(k, v)
           after == Append(watch, e)
           store2 == [store EXCEPT ![k] = v]
<1>1. e \in [key : keys, val : V] /\ e.key = k /\ e.val = v
  BY DEF Event
<1>2. /\ store2[k] = v
      /\ \A j \in keys : j # k => store2[j] = store[j]
  OBVIOUS
<1> HIDE DEF e, store2
<1>3. /\ L \in Nat /\ DOMAIN watch = 1..L /\ DOMAIN after = 1..(L + 1)
      /\ \A n \in 1..L : after[n] = watch[n]
      /\ after[L + 1] = e
  BY <1>1, AppendProperties
<1>4. \A n \in 1..L : watch[n].key \in keys
  BY <1>3, EventKeys
<1> HIDE DEF L, after
<1>5. ASSUME NEW j \in keys, Quiet(after, j) PROVE cache[j] = store2[j]
  <2>1. j # k
    BY <1>1, <1>3, <1>5 DEF Quiet
  <2>2. Quiet(watch, j)
    BY <1>3, <1>5 DEF Quiet
  <2> QED
    BY <1>2, <2>1, <2>2 DEF Coherent
<1>6. ASSUME NEW j \in keys, ~Quiet(after, j)
      PROVE  \E n \in DOMAIN after : LastEvent(after, n) /\ after[n] = Event(j, store2[j])
  <2>1. CASE j = k
    <3>1. LastEvent(after, L + 1) /\ after[L + 1] = Event(k, store2[k])
      BY <1>2, <1>3 DEF LastEvent, e
    <3> QED
      BY <1>3, <2>1, <3>1
  <2>2. CASE j # k
    <3>1. ~Quiet(watch, j)
      BY <1>1, <1>3, <1>6, <2>2 DEF Quiet
    <3> PICK n \in 1..L : LastEvent(watch, n) /\ watch[n] = Event(j, store[j])
      BY <1>3, <3>1 DEF Coherent
    <3>2. LastEvent(after, n)
      BY <1>1, <1>3, <2>2 DEF LastEvent, Event
    <3> QED
      BY <1>2, <1>3, <2>2, <3>2
  <2> QED
    BY <2>1, <2>2
<1> QED
  BY <1>5, <1>6 DEF Coherent, after, store2, e

\* So does a delivery, to the cache and to the rest of the watch.
LEMMA DeliverCoherent ==
  ASSUME NEW keys, NEW V, NEW store, NEW cache, keys \subseteq DOMAIN cache,
         NEW watch \in Seq([key : keys, val : V]), watch # <<>>,
         Coherent(keys, store, cache, watch)
  PROVE  Coherent(keys, store, Apply(cache, Head(watch)), Tail(watch))
<1> DEFINE L == Len(watch)
           e == Head(watch)
           rest == Tail(watch)
           cache2 == Apply(cache, e)
           R == [key : keys, val : V]
<1> HIDE DEF cache2, R
<1>0. watch \in Seq(R)
  BY DEF R
<1>1. /\ L \in Nat \ {0} /\ DOMAIN watch = 1..L /\ DOMAIN rest = 1..(L - 1)
      /\ \A n \in 1..(L - 1) : rest[n] = watch[n + 1]
      /\ e = watch[1] /\ e \in R
  BY <1>0, HeadTailProperties
<1> HIDE DEF L, e, rest
<1>2. /\ e.key \in keys /\ cache2[e.key] = e.val
      /\ \A j \in keys : j # e.key => cache2[j] = cache[j]
  BY <1>1 DEF Apply, cache2, R
\* What is left of the events of j, and the event that announces the stored j.
<1>3. ASSUME NEW j \in keys
      PROVE  /\ \A n \in 1..(L - 1) : rest[n].key = j => n + 1 \in 1..L /\ watch[n + 1].key = j
             /\ \A n \in 2..L : n - 1 \in 1..(L - 1) /\ rest[n - 1] = watch[n]
             /\ ~Quiet(watch, j) =>
                  \E n \in 1..L : LastEvent(watch, n) /\ watch[n] = Event(j, store[j])
  BY <1>1 DEF Coherent
<1>4. ASSUME NEW j \in keys, Quiet(rest, j) PROVE cache2[j] = store[j]
  <2>1. \A n \in 2..L : watch[n].key # j
    BY <1>1, <1>3, <1>4 DEF Quiet
  <2>2. CASE e.key = j
    <3>1. ~Quiet(watch, j)
      BY <1>1, <2>2 DEF Quiet
    <3> PICK n \in 1..L : watch[n] = Event(j, store[j])
      BY <1>3, <3>1
    <3>2. n = 1
      BY <1>1, <2>1 DEF Event
    <3> QED
      BY <1>1, <1>2, <2>2, <3>2 DEF Event
  <2>3. CASE e.key # j
    <3>1. Quiet(watch, j)
      BY <1>1, <2>1, <2>3 DEF Quiet
    <3> QED
      BY <1>2, <2>3, <3>1 DEF Coherent
  <2> QED
    BY <2>2, <2>3
<1>5. ASSUME NEW j \in keys, ~Quiet(rest, j)
      PROVE  \E n \in DOMAIN rest : LastEvent(rest, n) /\ rest[n] = Event(j, store[j])
  <2> PICK m \in 1..(L - 1) : rest[m].key = j
    BY <1>1, <1>5 DEF Quiet
  <2>1. m + 1 \in 1..L /\ watch[m + 1].key = j
    BY <1>3
  <2>2. ~Quiet(watch, j)
    BY <1>1, <2>1 DEF Quiet
  <2> PICK n \in 1..L : LastEvent(watch, n) /\ watch[n] = Event(j, store[j])
    BY <1>3, <2>2
  <2>3. n # 1
    <3>1. watch[n].key = j
      BY DEF Event
    <3>2. m + 1 \in DOMAIN watch /\ m + 1 > 1
      BY <1>1, <2>1
    <3> QED
      BY <2>1, <3>1, <3>2 DEF LastEvent
  <2>4. n - 1 \in 1..(L - 1) /\ rest[n - 1] = watch[n]
    BY <1>3, <2>3
  <2>5. LastEvent(rest, n - 1)
    <3> SUFFICES ASSUME NEW i \in 1..(L - 1), i > n - 1 PROVE rest[i].key # watch[n].key
      BY <1>1, <2>4 DEF LastEvent
    <3>1. i + 1 \in 1..L /\ i + 1 > n /\ rest[i] = watch[i + 1]
      BY <1>1
    <3> QED
      BY <1>1, <3>1 DEF LastEvent
  <2> QED
    BY <1>1, <2>4, <2>5
<1> QED
  BY <1>4, <1>5 DEF Coherent, rest, cache2, e

\* The events under way when one more was sent.
LEMMA SentEvents ==
  ASSUME NEW keys, NEW V, NEW watch \in Seq([key : keys, val : V]), NEW k \in keys, NEW v \in V,
         NEW after, after = Append(watch, Event(k, v))
  PROVE  /\ \A n \in DOMAIN watch : n \in DOMAIN after /\ after[n] = watch[n]
         /\ \E n \in DOMAIN after : after[n] = Event(k, v)
         /\ \A n \in DOMAIN after : after[n] = Event(k, v) \/ (n \in DOMAIN watch /\ after[n] = watch[n])
<1> DEFINE L == Len(watch)
           e == Event(k, v)
<1>1. e \in [key : keys, val : V] /\ after = Append(watch, e)
  BY DEF Event
<1> HIDE DEF e
<1>2. /\ L \in Nat /\ DOMAIN watch = 1..L /\ DOMAIN after = 1..(L + 1)
      /\ \A n \in 1..L : after[n] = watch[n]
      /\ after[L + 1] = e
  BY <1>1, AppendProperties
<1> HIDE DEF L
<1>3. L + 1 \in DOMAIN after /\ \A n \in DOMAIN after : n = L + 1 \/ n \in 1..L
  BY <1>2
<1> QED
  BY <1>2, <1>3 DEF e

\* The events under way when the first was delivered.
LEMMA DeliveredEvents ==
  ASSUME NEW keys, NEW V, NEW watch \in Seq([key : keys, val : V]), watch # <<>>
  PROVE  /\ Head(watch) \in [key : keys, val : V]
         /\ 1 \in DOMAIN watch /\ watch[1] = Head(watch)
         /\ \A n \in DOMAIN Tail(watch) : n + 1 \in DOMAIN watch /\ Tail(watch)[n] = watch[n + 1]
         /\ \A n \in DOMAIN watch : watch[n] # Head(watch) =>
              n - 1 \in DOMAIN Tail(watch) /\ Tail(watch)[n - 1] = watch[n]
<1> DEFINE L == Len(watch)
           R == [key : keys, val : V]
<1> HIDE DEF R
<1>0. watch \in Seq(R)
  BY DEF R
<1>1. /\ L \in Nat \ {0} /\ DOMAIN watch = 1..L /\ DOMAIN Tail(watch) = 1..(L - 1)
      /\ \A n \in 1..(L - 1) : Tail(watch)[n] = watch[n + 1]
      /\ Head(watch) = watch[1] /\ Head(watch) \in R
  BY <1>0, HeadTailProperties
<1> HIDE DEF L
<1>2. 1 \in DOMAIN watch /\ \A n \in 1..(L - 1) : n + 1 \in 1..L
  BY <1>1
<1>3. ASSUME NEW n \in DOMAIN watch, n # 1
      PROVE  n - 1 \in DOMAIN Tail(watch) /\ Tail(watch)[n - 1] = watch[n]
  BY <1>1, <1>3
<1> QED
  BY <1>1, <1>2, <1>3 DEF R

\* An event that is sent is under way, and so are those sent before it.
LEMMA SentIsUnderWay ==
  ASSUME NEW keys, NEW V, NEW watch \in Seq([key : keys, val : V]), NEW k \in keys, NEW v \in V
  PROVE  /\ ~Quiet(Append(watch, Event(k, v)), k)
         /\ \A j : ~Quiet(watch, j) => ~Quiet(Append(watch, Event(k, v)), j)
<1> PICK after : after = Append(watch, Event(k, v))
  OBVIOUS
<1>1. /\ \A n \in DOMAIN watch : n \in DOMAIN after /\ after[n] = watch[n]
      /\ \E n \in DOMAIN after : after[n] = Event(k, v)
  BY SentEvents
<1>2. ~Quiet(after, k) /\ \A j : ~Quiet(watch, j) => ~Quiet(after, j)
  BY <1>1 DEF Quiet, Event
<1> QED
  BY <1>2

\* An event under way is the next to be delivered, or stays under way.
LEMMA DeliveredOrUnderWay ==
  ASSUME NEW keys, NEW V, NEW watch \in Seq([key : keys, val : V]), watch # <<>>,
         NEW j, ~Quiet(watch, j)
  PROVE  Head(watch).key = j \/ ~Quiet(Tail(watch), j)
<1>1. \A n \in DOMAIN watch : watch[n] # Head(watch) =>
         n - 1 \in DOMAIN Tail(watch) /\ Tail(watch)[n - 1] = watch[n]
  BY DeliveredEvents
<1> QED
  BY <1>1 DEF Quiet

-----------------------------------------------------------------------------
(* A kind of which there is one object *)

\* The last event under way, or else the copy in the cache, shows v.
Shows(copy, watch, v) == IF watch = <<>> THEN copy = v ELSE watch[Len(watch)] = v

\* The delivery of an event leaves what is shown alone.
LEMMA DeliveryShows ==
  ASSUME NEW V, NEW watch \in Seq(V), watch # <<>>, NEW copy, NEW v, Shows(copy, watch, v)
  PROVE  Shows(Head(watch), Tail(watch), v)
<1> DEFINE L == Len(watch)
           rest == Tail(watch)
<1>1. /\ L \in Nat \ {0} /\ Len(rest) = L - 1 /\ rest \in Seq(V)
      /\ \A n \in 1..(L - 1) : rest[n] = watch[n + 1]
      /\ Head(watch) = watch[1]
  BY HeadTailProperties
<1>2. Len(rest) = 0 <=> rest = <<>>
  BY <1>1, EmptySeq
<1> HIDE DEF L, rest
<1>3. IF L = 1 THEN rest = <<>> /\ Head(watch) = watch[L]
               ELSE rest # <<>> /\ rest[L - 1] = watch[L]
  <2>1. CASE L = 1
    BY <1>1, <1>2, <2>1
  <2>2. CASE L # 1
    <3>1. L - 1 \in 1..(L - 1) /\ (L - 1) + 1 = L /\ L - 1 # 0
      BY <1>1, <2>2
    <3> QED
      BY <1>1, <1>2, <2>2, <3>1
  <2> QED
    BY <2>1, <2>2
<1>4. watch[L] = v
  BY DEF Shows, L
<1>5. Shows(Head(watch), rest, v)
  BY <1>1, <1>3, <1>4 DEF Shows
<1> QED
  BY <1>5 DEF rest

\* A write shows what it wrote.
LEMMA WriteShows ==
  ASSUME NEW V, NEW watch \in Seq(V), NEW v \in V, NEW copy
  PROVE  Shows(copy, Append(watch, v), v)
BY AppendProperties DEF Shows

=============================================================================
