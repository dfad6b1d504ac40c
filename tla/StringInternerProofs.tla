------------------------ MODULE StringInternerProofs ------------------------
(***************************************************************************)
(* Proofs about StringInterner for every set of strings, every hash        *)
(* function, every initial size and every load factor below 1.             *)
(***************************************************************************)
EXTENDS StringInterner, SequenceTheorems, FiniteSetTheorems, TLAPS

-----------------------------------------------------------------------------
(* The inductive invariant                                                 *)

\* The ids in the occupied buckets of bs behind the first n.
IdsFrom(bs, n) == {bs[k].id : k \in {j \in n + 1 .. Len(bs) : ~ IsEmpty(bs[j])}}

\* No id occupies two of the buckets of bs behind the first n.
OneEach(bs, n) ==
  \A j, k \in n + 1 .. Len(bs) :
    ~ IsEmpty(bs[j]) /\ bs[j].id = bs[k].id => j = k

\* An occupied bucket holds the hash of the string it stands for.
TrueHashes(bs) ==
  \A k \in 1 .. Len(bs) : ~ IsEmpty(bs[k]) => bs[k].hash = Hash[arena[bs[k].id]]

\* What the control state says of the locals of intern() and rehash().
Locals ==
  /\ pc # "idle" => call_s \in Strings /\ Len(arena) < MaxStrings
  /\ pc \in {"idle", "probe"} => call_old = << >> /\ call_next = 0
  /\ pc = "place" => call_next < Len(call_old) /\ ~ IsEmpty(call_old[call_next + 1])

\* Every id is in exactly one bucket, of the table or of the rest of the old
\* table that rehash() has yet to deal with.
Placed ==
  /\ OneEach(buckets, 0)
  /\ OneEach(call_old, call_next)
  /\ IdsFrom(buckets, 0) \cap IdsFrom(call_old, call_next) = {}
  /\ IdsFrom(buckets, 0) \cup IdsFrom(call_old, call_next) = 1 .. Len(arena)

\* No probe is cut short: from the home bucket of an occupied bucket to that
\* bucket there is no empty one.
ChainsWhole ==
  \A p \in 0 .. Size - 1 :
    ~ IsEmpty(Bucket(p)) => Reached(Home(Bucket(p).hash, Size), p)

\* The running loop has passed occupied buckets only, none of which matched.
Walked ==
  /\ pc = "probe" =>
       \A q \in 0 .. Size - 1 :
         Before(Home(Hash[call_s], Size), call_idx, q)
           => ~ IsEmpty(Bucket(q)) /\ ~ Matches(Bucket(q), call_s)
  /\ pc = "place" => Reached(Home(call_old[call_next + 1].hash, Size), call_idx)

\* used_buckets_ counts the occupied buckets, in the middle of a rehash too.
Counted == used_buckets = Cardinality(IdsFrom(buckets, 0))

\* The table is larger than the number of strings whenever a loop runs.
Sized ==
  /\ Len(arena) <= Size
  /\ pc # "idle" => Len(arena) < Size

IInv ==
  /\ TypeOK
  /\ IdsDistinct
  /\ TrueHashes(buckets) /\ TrueHashes(call_old)
  /\ Locals
  /\ Placed
  /\ ChainsWhole
  /\ Walked
  /\ Counted
  /\ Sized

-----------------------------------------------------------------------------
(* The walk around the table                                               *)

\* A hash has a home bucket in the table, and the bucket after one is one.
LEMMA HomeInTable ==
  ASSUME NEW h \in Nat, NEW n \in Nat \ {0}
  PROVE  Home(h, n) \in 0 .. n - 1
BY DEF Home

LEMMA AfterInTable ==
  ASSUME NEW n \in Nat, NEW idx \in 0 .. n - 1
  PROVE  After(idx, n) \in 0 .. n - 1
BY DEF After

\* A step of the walk adds the bucket it leaves to those visited, unless it
\* comes back to where it started.
LEMMA BeforeAfter ==
  ASSUME NEW n \in Nat, NEW home \in 0 .. n - 1, NEW idx \in 0 .. n - 1,
         NEW q \in 0 .. n - 1, Before(home, After(idx, n), q)
  PROVE  Before(home, idx, q) \/ q = idx
BY DEF Before, After

\* Of two buckets one is visited before the other.
LEMMA BeforeTotal ==
  ASSUME NEW n \in Nat, NEW home \in 0 .. n - 1, NEW p \in 0 .. n - 1,
         NEW q \in 0 .. n - 1
  PROVE  /\ p = q \/ Before(home, p, q) \/ Before(home, q, p)
         /\ ~ Before(home, p, p)
         /\ ~ Before(home, home, q)
BY DEF Before

-----------------------------------------------------------------------------
(* Ids in buckets                                                          *)

\* Dealing with one more bucket takes its id from those that are left, and no
\* other.
LEMMA IdsFromNext ==
  ASSUME NEW bs, NEW n \in Nat, Len(bs) \in Nat, n < Len(bs), OneEach(bs, n)
  PROVE  /\ OneEach(bs, n + 1)
         /\ IsEmpty(bs[n + 1]) => IdsFrom(bs, n + 1) = IdsFrom(bs, n)
         /\ ~ IsEmpty(bs[n + 1]) =>
              /\ IdsFrom(bs, n + 1) = IdsFrom(bs, n) \ {bs[n + 1].id}
              /\ bs[n + 1].id \in IdsFrom(bs, n)
<1>1. n + 1 \in n + 1 .. Len(bs)
  OBVIOUS
<1>2. \A k : k \in n + 1 .. Len(bs) <=> k = n + 1 \/ k \in n + 1 + 1 .. Len(bs)
  OBVIOUS
<1>3. n + 1 \notin n + 1 + 1 .. Len(bs)
  OBVIOUS
<1>4. OneEach(bs, n + 1)
  BY <1>2 DEF OneEach
<1>5. ASSUME IsEmpty(bs[n + 1]) PROVE IdsFrom(bs, n + 1) = IdsFrom(bs, n)
  BY <1>2, <1>5 DEF IdsFrom
<1>6. ASSUME ~ IsEmpty(bs[n + 1])
      PROVE  /\ IdsFrom(bs, n + 1) = IdsFrom(bs, n) \ {bs[n + 1].id}
             /\ bs[n + 1].id \in IdsFrom(bs, n)
  BY <1>1, <1>2, <1>3, <1>6 DEF IdsFrom, OneEach
<1>7. QED
  BY <1>4, <1>5, <1>6

\* Storing an entry in an empty bucket adds its id and moves no other.
LEMMA IdsFromStore ==
  ASSUME NEW B, NEW bs \in Seq(B), NEW k \in 1 .. Len(bs), IsEmpty(bs[k]),
         NEW b \in B, ~ IsEmpty(b), OneEach(bs, 0), b.id \notin IdsFrom(bs, 0)
  PROVE  /\ IdsFrom([bs EXCEPT ![k] = b], 0) = IdsFrom(bs, 0) \cup {b.id}
         /\ OneEach([bs EXCEPT ![k] = b], 0)
<1> DEFINE bt == [bs EXCEPT ![k] = b]
<1>1. /\ Len(bt) = Len(bs) /\ Len(bs) \in Nat
      /\ \A j \in 1 .. Len(bs) : bt[j] = IF j = k THEN b ELSE bs[j]
  OBVIOUS
<1> HIDE DEF bt
<1>2. \A j : j \in 0 + 1 .. Len(bs) <=> j \in 1 .. Len(bs)
  BY <1>1
<1>3. IdsFrom(bt, 0) = IdsFrom(bs, 0) \cup {b.id}
  <2>1. IdsFrom(bt, 0) = {bt[j].id : j \in {i \in 1 .. Len(bs) : ~ IsEmpty(bt[i])}}
    BY <1>1, <1>2 DEF IdsFrom
  <2>2. IdsFrom(bs, 0) = {bs[j].id : j \in {i \in 1 .. Len(bs) : ~ IsEmpty(bs[i])}}
    BY <1>2 DEF IdsFrom
  <2>3. QED
    BY <1>1, <2>1, <2>2
<1>4. \A j \in 1 .. Len(bs) : ~ IsEmpty(bs[j]) => bs[j].id \in IdsFrom(bs, 0)
  BY <1>2 DEF IdsFrom
<1>5. OneEach(bt, 0)
  <2> SUFFICES ASSUME NEW i \in 1 .. Len(bs), NEW j \in 1 .. Len(bs),
                      ~ IsEmpty(bt[i]), bt[i].id = bt[j].id
               PROVE  i = j
    BY <1>1, <1>2 DEF OneEach
  <2>1. ~ IsEmpty(bt[j])
    BY DEF IsEmpty
  <2>2. QED
    BY <1>1, <1>2, <1>4, <2>1 DEF OneEach
<1>6. QED
  BY <1>3, <1>5 DEF bt

\* An id between 1 and Len(arena) marks an occupied bucket.
LEMMA IdsValid ==
  ASSUME IInv
  PROVE  /\ Len(arena) \in Nat
         /\ \A i \in 1 .. Len(arena) : i # kInvalidStringId
         /\ IsFiniteSet(IdsFrom(buckets, 0))
<1>1. Len(arena) \in Nat /\ Len(arena) <= MaxStrings
  BY DEF IInv, TypeOK
<1>2. IdsFrom(buckets, 0) \in SUBSET (1 .. Len(arena))
  BY DEF IInv, Placed
<1>3. IsFiniteSet(1 .. Len(arena))
  BY <1>1, FS_Interval
<1>4. IsFiniteSet(IdsFrom(buckets, 0))
  BY <1>2, <1>3, FS_Subset
<1>5. QED
  BY <1>1, <1>4, StringInternerAssumption

\* A new table is empty.
LEMMA InitBucketsEmpty ==
  ASSUME NEW n \in Nat, NEW ids
  PROVE  /\ InitBuckets(n) \in Seq([hash: Nat, id: ids \cup {kInvalidStringId}])
         /\ Len(InitBuckets(n)) = n
         /\ \A k \in 1 .. n : IsEmpty(InitBuckets(n)[k])
         /\ IdsFrom(InitBuckets(n), 0) = {}
         /\ OneEach(InitBuckets(n), 0)
         /\ Cardinality(IdsFrom(InitBuckets(n), 0)) = 0
<1>1. /\ InitBuckets(n) \in Seq([hash: Nat, id: ids \cup {kInvalidStringId}])
      /\ Len(InitBuckets(n)) = n
      /\ \A k \in 1 .. n : InitBuckets(n)[k].id = kInvalidStringId
  BY DEF InitBuckets, EmptyBucket
<1>2. \A k \in 1 .. n : IsEmpty(InitBuckets(n)[k])
  BY <1>1 DEF IsEmpty
<1>3. IdsFrom(InitBuckets(n), 0) = {} /\ OneEach(InitBuckets(n), 0)
  BY <1>1, <1>2 DEF IdsFrom, OneEach
<1>4. QED
  BY <1>1, <1>2, <1>3, FS_EmptySet

\* There is nothing in no buckets.
LEMMA NoBuckets ==
  ASSUME NEW n \in Nat
  PROVE  IdsFrom(<< >>, n) = {} /\ OneEach(<< >>, n) /\ TrueHashes(<< >>)
BY DEF IdsFrom, OneEach, TrueHashes

-----------------------------------------------------------------------------
(* Every step keeps the invariant                                          *)

LEMMA InitIInv == Init => IInv
<1> SUFFICES ASSUME Init PROVE IInv
  OBVIOUS
<1> USE StringInternerAssumption DEF Init
<1>1. InitialBuckets \in Nat /\ InitialBuckets > 0
  OBVIOUS
<1>2. /\ buckets \in Seq([hash: Nat, id: 1 .. Len(arena) \cup {kInvalidStringId}])
      /\ Len(buckets) = InitialBuckets
      /\ \A k \in 1 .. InitialBuckets : IsEmpty(buckets[k])
      /\ IdsFrom(buckets, 0) = {}
      /\ OneEach(buckets, 0)
      /\ Cardinality(IdsFrom(buckets, 0)) = 0
  BY <1>1, InitBucketsEmpty
<1>3. IdsFrom(call_old, call_next) = {} /\ OneEach(call_old, call_next)
      /\ TrueHashes(call_old)
  BY NoBuckets
<1>4. TypeOK
  BY <1>1, <1>2 DEF TypeOK, Size
<1>5. IdsDistinct /\ Locals /\ Walked
  BY DEF IdsDistinct, Locals, Walked
<1>6. TrueHashes(buckets)
  BY <1>1, <1>2 DEF TrueHashes
<1>7. Placed
  BY <1>2, <1>3 DEF Placed
<1>8. ChainsWhole
  BY <1>1, <1>2 DEF ChainsWhole, Bucket, Size
<1>9. Counted /\ Sized
  BY <1>1, <1>2 DEF Counted, Sized, Size
<1>10. QED
  BY <1>3, <1>4, <1>5, <1>6, <1>7, <1>8, <1>9 DEF IInv

\* A step that leaves arena, table and the rest of the old table alone keeps
\* what is said of them.
LEMMA SameTable ==
  ASSUME IInv, UNCHANGED <<arena, table, call_old, call_next>>
  PROVE  /\ IdsDistinct' /\ TrueHashes(buckets)' /\ TrueHashes(call_old)'
         /\ Placed' /\ ChainsWhole' /\ Counted'
<1>1. /\ arena' = arena /\ buckets' = buckets /\ used_buckets' = used_buckets
      /\ call_old' = call_old /\ call_next' = call_next
  BY DEF table
<1>2. IdsDistinct'
  BY <1>1 DEF IInv, IdsDistinct
<1>3. TrueHashes(buckets)' /\ TrueHashes(call_old)'
  BY <1>1 DEF IInv, TrueHashes
<1>4. Placed'
  BY <1>1 DEF IInv, Placed
<1>5. ChainsWhole'
  BY <1>1 DEF IInv, ChainsWhole, Reached, Bucket, Size
<1>6. Counted'
  BY <1>1 DEF IInv, Counted
<1>7. QED
  BY <1>2, <1>3, <1>4, <1>5, <1>6

LEMMA EmptyStringIInv == IInv /\ InternEmptyString => IInv'
<1> SUFFICES ASSUME IInv, InternEmptyString PROVE IInv'
  OBVIOUS
<1>1. UNCHANGED <<arena, table, pc, call_s, call_idx, call_old, call_next>>
      /\ pc = "idle" /\ answer' = 0
  BY DEF InternEmptyString, kEmptyStringId
<1>2. /\ IdsDistinct' /\ TrueHashes(buckets)' /\ TrueHashes(call_old)'
      /\ Placed' /\ ChainsWhole' /\ Counted'
  BY <1>1, SameTable
<1>3. TypeOK'
  BY <1>1 DEF IInv, TypeOK, table, Size
<1>4. Locals' /\ Walked' /\ Sized'
  BY <1>1 DEF IInv, Locals, Walked, Sized, table, Size
<1>5. QED
  BY <1>2, <1>3, <1>4 DEF IInv

\* A table that is not overloaded has room.
LEMMA LoadBelowOne ==
  ASSUME NEW used \in Nat, NEW size \in Nat, size > 0, NEW num \in Nat,
         NEW den \in Nat, num < den, ~ (used * den > num * size)
  PROVE  used < size
<1> SUFFICES ASSUME used >= size PROVE FALSE
  OBVIOUS
<1>1. used * den >= size * den
  OBVIOUS
<1>2. size * den > size * num
  OBVIOUS
<1>3. size * num = num * size
  OBVIOUS
<1>4. used * den \in Nat /\ size * den \in Nat /\ num * size \in Nat
  OBVIOUS
<1>5. QED
  BY <1>1, <1>2, <1>3, <1>4

\* Outside rehash() every id is in the table, and counted.
LEMMA AllInTable ==
  ASSUME IInv, pc \in {"idle", "probe"}
  PROVE  IdsFrom(buckets, 0) = 1 .. Len(arena) /\ used_buckets = Len(arena)
<1>1. IdsFrom(buckets, 0) = 1 .. Len(arena)
  BY NoBuckets DEF IInv, Locals, Placed
<1>2. Len(arena) \in Nat /\ Len(arena) \in Int /\ 1 \in Int
  BY DEF IInv, TypeOK
<1>3. Cardinality(1 .. Len(arena))
        = IF 1 > Len(arena) THEN 0 ELSE Len(arena) - 1 + 1
  BY <1>2, FS_Interval, Zenon
<1>4. QED
  BY <1>1, <1>2, <1>3 DEF IInv, Counted

LEMMA InternProbeIInv ==
  ASSUME IInv, NEW s \in Strings, InternProbe(s)
  PROVE  IInv'
<1> USE StringInternerAssumption
<1>1. /\ UNCHANGED <<arena, table, call_old, call_next, answer>>
      /\ pc = "idle" /\ pc' = "probe" /\ call_s' = s /\ ~ Overloaded
      /\ call_idx' = Home(Hash[s], Size)
  BY DEF InternProbe
<1>2. /\ IdsDistinct' /\ TrueHashes(buckets)' /\ TrueHashes(call_old)'
      /\ Placed' /\ ChainsWhole' /\ Counted'
  BY <1>1, SameTable
<1>3. Size \in Nat /\ Size > 0 /\ Size' = Size /\ Hash[s] \in Nat
  BY <1>1 DEF IInv, TypeOK, Size, table
<1>4. call_idx' \in 0 .. Size - 1
  BY <1>1, <1>3, HomeInTable
<1>5. TypeOK'
  BY <1>1, <1>3, <1>4 DEF IInv, TypeOK, table, Size
<1>6. Locals'
  BY <1>1 DEF IInv, Locals, InternProbe
<1>7. Walked'
  BY <1>1, <1>3, <1>4, BeforeTotal DEF Walked
<1>8. Sized'
  <2>1. used_buckets = Len(arena)
    BY <1>1, AllInTable
  <2>2. Len(arena) < Size
    BY <1>1, <1>3, <2>1, LoadBelowOne DEF IInv, TypeOK, Overloaded
  <2>3. QED
    BY <1>1, <1>3, <2>2 DEF Sized, IInv, TypeOK
<1>9. QED
  BY <1>2, <1>5, <1>6, <1>7, <1>8 DEF IInv

LEMMA InternRehashIInv ==
  ASSUME IInv, NEW s \in Strings, InternRehash(s)
  PROVE  IInv'
<1> USE StringInternerAssumption
<1>1. /\ UNCHANGED <<arena, call_idx, answer>>
      /\ pc = "idle" /\ pc' = "rehash" /\ call_s' = s
      /\ call_old' = buckets /\ call_next' = 0
      /\ buckets' = InitBuckets(Size * 2) /\ used_buckets' = 0
  BY DEF InternRehash
<1>2. Size \in Nat /\ Size > 0 /\ Size * 2 \in Nat
  BY DEF IInv, TypeOK, Size
<1>3. /\ buckets' \in Seq([hash: Nat, id: 1 .. Len(arena) \cup {kInvalidStringId}])
      /\ Len(buckets') = Size * 2
      /\ \A k \in 1 .. Size * 2 : IsEmpty(buckets'[k])
      /\ IdsFrom(buckets', 0) = {}
      /\ OneEach(buckets', 0)
      /\ Cardinality(IdsFrom(buckets', 0)) = 0
  BY <1>1, <1>2, InitBucketsEmpty
<1>4. TypeOK'
  BY <1>1, <1>2, <1>3, SMTT(30) DEF IInv, TypeOK, Size
<1>5. IdsDistinct' /\ Locals' /\ Walked'
  BY <1>1 DEF IInv, IdsDistinct, Locals, Walked, InternRehash
<1>6. TrueHashes(buckets)' /\ TrueHashes(call_old)'
  BY <1>1, <1>3 DEF IInv, TrueHashes
<1>7. Placed'
  <2>1. IdsFrom(buckets, 0) = 1 .. Len(arena)
    BY <1>1, AllInTable
  <2>2. IdsFrom(call_old', call_next') = IdsFrom(buckets, 0)
        /\ OneEach(call_old', call_next')
    BY <1>1 DEF IInv, Placed
  <2>3. QED
    BY <1>1, <1>3, <2>1, <2>2 DEF Placed
<1>8. ChainsWhole'
  BY <1>2, <1>3 DEF ChainsWhole, Bucket, Size
<1>9. Counted'
  BY <1>1, <1>3 DEF Counted
<1>10. Sized'
  BY <1>1, <1>2, <1>3, SMTT(30) DEF IInv, TypeOK, Sized, Size
<1>11. QED
  BY <1>4, <1>5, <1>6, <1>7, <1>8, <1>9, <1>10 DEF IInv

\* What is known of the table and of an occupied bucket of it.
LEMMA BucketFacts ==
  ASSUME IInv
  PROVE  /\ Len(arena) \in Nat /\ Size \in Nat /\ Size > 0
         /\ call_idx \in 0 .. Size - 1
         /\ \A q \in 0 .. Size - 1 : ~ IsEmpty(Bucket(q)) =>
              /\ Bucket(q).id \in 1 .. Len(arena)
              /\ Bucket(q).hash = Hash[arena[Bucket(q).id]]
              /\ Reached(Home(Bucket(q).hash, Size), q)
<1> USE StringInternerAssumption
<1>1. /\ Len(arena) \in Nat /\ Size \in Nat /\ Size > 0
      /\ call_idx \in 0 .. Size - 1
  BY DEF IInv, TypeOK, Size
<1>2. ASSUME NEW q \in 0 .. Size - 1, ~ IsEmpty(Bucket(q))
      PROVE  /\ Bucket(q).id \in 1 .. Len(arena)
             /\ Bucket(q).hash = Hash[arena[Bucket(q).id]]
             /\ Reached(Home(Bucket(q).hash, Size), q)
  <2> DEFINE B == [hash: Nat, id: 1 .. Len(arena) \cup {kInvalidStringId}]
  <2>1. q + 1 \in 1 .. Len(buckets) /\ buckets \in Seq(B)
    BY <1>1 DEF IInv, TypeOK, Size
  <2> HIDE DEF B
  <2>2. buckets[q + 1] \in B
    BY <2>1
  <2> USE DEF B
  <2>3. Bucket(q).hash = Hash[arena[Bucket(q).id]]
    BY <1>2, <2>1 DEF IInv, TrueHashes, Bucket, Size
  <2>4. Reached(Home(Bucket(q).hash, Size), q)
    BY <1>2 DEF IInv, ChainsWhole
  <2>5. Bucket(q).id \in 1 .. Len(arena)
    BY <1>2, <2>2 DEF Bucket, IsEmpty
  <2>6. QED
    BY <2>3, <2>4, <2>5
<1>3. QED
  BY <1>1, <1>2

\* A string that has an id is in a bucket that a probe from its home reaches.
LEMMA StringHasBucket ==
  ASSUME IInv, pc \in {"idle", "probe"}, NEW i \in 1 .. Len(arena)
  PROVE  \E p \in 0 .. Size - 1 :
           /\ ~ IsEmpty(Bucket(p))
           /\ Bucket(p).id = i
           /\ Matches(Bucket(p), arena[i])
           /\ Reached(Home(Hash[arena[i]], Size), p)
<1>1. i \in IdsFrom(buckets, 0)
  BY AllInTable
<1>2. PICK k \in 0 + 1 .. Len(buckets) : ~ IsEmpty(buckets[k]) /\ buckets[k].id = i
  BY <1>1 DEF IdsFrom
<1>3. Size \in Nat /\ k - 1 \in 0 .. Size - 1 /\ Bucket(k - 1) = buckets[k]
  BY <1>2, BucketFacts DEF Bucket, Size
<1>4. QED
  BY <1>2, <1>3, BucketFacts DEF Matches

\* A probe that stops at an empty bucket has looked everywhere the string
\* could be.
LEMMA ProbeMissIsNew ==
  ASSUME IInv, pc = "probe", IsEmpty(Bucket(call_idx)), NEW i \in 1 .. Len(arena)
  PROVE  arena[i] # call_s
<1> SUFFICES ASSUME arena[i] = call_s PROVE FALSE
  OBVIOUS
<1> USE StringInternerAssumption
<1> DEFINE home == Home(Hash[call_s], Size)
<1>1. PICK p \in 0 .. Size - 1 : /\ ~ IsEmpty(Bucket(p))
                                 /\ Matches(Bucket(p), call_s)
                                 /\ Reached(home, p)
  BY StringHasBucket
<1>2. Size \in Nat \ {0} /\ call_idx \in 0 .. Size - 1 /\ Hash[call_s] \in Nat
  BY BucketFacts DEF IInv, Locals
<1>3. home \in 0 .. Size - 1
  BY <1>2, HomeInTable
<1> HIDE DEF home
<1>4. ~ Before(home, p, call_idx)
  BY <1>1, <1>2 DEF Reached
<1>5. ~ Before(home, call_idx, p)
  BY <1>1, <1>2 DEF IInv, Walked, home
<1>6. p # call_idx
  BY <1>1
<1>7. QED
  BY <1>2, <1>3, <1>4, <1>5, <1>6, BeforeTotal

\* Storing an entry in the first empty bucket on the way from its home cuts no
\* probe short.
LEMMA StoreKeepsChains ==
  ASSUME IInv, NEW b, ~ IsEmpty(b), IsEmpty(Bucket(call_idx)),
         Reached(Home(b.hash, Size), call_idx),
         buckets' = [buckets EXCEPT ![call_idx + 1] = b]
  PROVE  /\ Size' = Size
         /\ \A q \in 0 .. Size - 1 :
              buckets'[q + 1] = IF q = call_idx THEN b ELSE buckets[q + 1]
         /\ ChainsWhole'
<1>1. Size \in Nat /\ call_idx \in 0 .. Size - 1
  BY BucketFacts
<1>2. Size' = Size
  BY DEF IInv, TypeOK, Size
<1>3. ASSUME NEW q \in 0 .. Size - 1
      PROVE  buckets'[q + 1] = IF q = call_idx THEN b ELSE buckets[q + 1]
  <2>1. q + 1 \in 1 .. Len(buckets) /\ call_idx + 1 \in 1 .. Len(buckets)
        /\ (q + 1 = call_idx + 1 <=> q = call_idx)
    BY <1>1 DEF Size
  <2>2. QED
    BY <2>1 DEF IInv, TypeOK
<1>4. ASSUME NEW p \in 0 .. Size - 1, ~ IsEmpty(buckets'[p + 1]),
             NEW q \in 0 .. Size - 1,
             Before(Home(buckets'[p + 1].hash, Size), p, q)
      PROVE  ~ IsEmpty(buckets'[q + 1])
  <2>1. Reached(Home(buckets'[p + 1].hash, Size), p)
    BY <1>3, <1>4 DEF IInv, ChainsWhole, Bucket
  <2>2. ~ IsEmpty(buckets[q + 1])
    BY <1>4, <2>1 DEF Reached, Bucket
  <2>3. QED
    BY <1>3, <2>2
<1>5. ChainsWhole'
  BY <1>2, <1>4 DEF ChainsWhole, Reached, Bucket
<1>6. QED
  BY <1>2, <1>3, <1>5

LEMMA ProbeInsertIInv == IInv /\ ProbeInsert => IInv'
<1> SUFFICES ASSUME IInv, ProbeInsert PROVE IInv'
  OBVIOUS
<1> USE StringInternerAssumption
<1> DEFINE L == Len(arena)
           b == [hash |-> Hash[call_s], id |-> L + 1]
           B(n) == [hash: Nat, id: 1 .. n \cup {kInvalidStringId}]
<1>1. /\ pc = "probe" /\ pc' = "idle"
      /\ IsEmpty(Bucket(call_idx))
      /\ arena' = Append(arena, call_s)
      /\ buckets' = [buckets EXCEPT ![call_idx + 1] = b]
      /\ used_buckets' = used_buckets + 1
      /\ answer' = L + 1 /\ call_s' = EmptyString /\ call_idx' = 0
      /\ call_old' = call_old /\ call_next' = call_next
  BY DEF ProbeInsert, Return
<1>2. /\ L \in Nat /\ L < MaxStrings /\ L < Size
      /\ Size \in Nat \ {0} /\ call_idx \in 0 .. Size - 1
      /\ call_s \in Strings /\ Hash[call_s] \in Nat
      /\ call_old = << >> /\ call_next = 0
      /\ buckets \in Seq(B(L))
      /\ used_buckets = L
      /\ IdsFrom(buckets, 0) = 1 .. L
  BY <1>1, BucketFacts, AllInTable DEF IInv, TypeOK, Locals, Sized
<1>3. /\ arena' \in Seq(Strings) /\ Len(arena') = L + 1
      /\ arena'[L + 1] = call_s
      /\ \A i \in 1 .. L : arena'[i] = arena[i]
  BY <1>1, <1>2 DEF IInv, TypeOK
<1>4. ~ IsEmpty(b)
  BY <1>2 DEF IsEmpty
<1>5. Reached(Home(b.hash, Size), call_idx)
  BY <1>1 DEF IInv, Walked, Reached
<1> HIDE DEF b
<1>6. /\ Size' = Size
      /\ \A q \in 0 .. Size - 1 :
           buckets'[q + 1] = IF q = call_idx THEN b ELSE buckets[q + 1]
      /\ ChainsWhole'
  BY <1>1, <1>4, <1>5, StoreKeepsChains
<1>7. b \in B(L + 1) /\ b.id = L + 1 /\ b.hash = Hash[call_s]
  BY <1>2 DEF b
<1>8. B(L) \in SUBSET B(L + 1)
  BY <1>2
<1>9. call_idx + 1 \in 1 .. Len(buckets) /\ IsEmpty(buckets[call_idx + 1])
  BY <1>1, <1>2 DEF Size, Bucket
<1> HIDE DEF B
<1>10. buckets \in Seq(B(L + 1))
  BY <1>2, <1>8
<1>11. /\ IdsFrom(buckets', 0) = 1 .. L \cup {b.id}
       /\ OneEach(buckets', 0)
  <2>1. OneEach(buckets, 0) /\ b.id \notin IdsFrom(buckets, 0)
    BY <1>2, <1>7 DEF IInv, Placed
  <2> DEFINE C == B(L + 1)
  <2>2. b \in C /\ buckets \in Seq(C)
    BY <1>7, <1>10
  <2> HIDE DEF C
  <2>3. LET bt == [buckets EXCEPT ![call_idx + 1] = b]
        IN  IdsFrom(bt, 0) = IdsFrom(buckets, 0) \cup {b.id} /\ OneEach(bt, 0)
    BY <1>4, <1>9, <2>1, <2>2, IdsFromStore
  <2>4. QED
    BY <1>1, <1>2, <2>3
<1>12. /\ buckets' \in Seq(B(L + 1)) /\ Len(buckets') = Size
       /\ \A k \in 1 .. Size :
            buckets'[k] = IF k = call_idx + 1 THEN b ELSE buckets[k]
  BY <1>1, <1>7, <1>9, <1>10 DEF Size
<1>13. TypeOK'
  BY <1>1, <1>2, <1>3, <1>6, <1>12 DEF TypeOK, B, Size
<1>14. IdsDistinct'
  <2>1. \A i \in 1 .. L : arena[i] # call_s
    BY <1>1, ProbeMissIsNew
  <2>2. \A i \in 1 .. L + 1 : i \in 1 .. L \/ i = L + 1
    BY <1>2
  <2>3. QED
    BY <1>2, <1>3, <2>1, <2>2 DEF IInv, IdsDistinct
<1>15. TrueHashes(call_old)'
  BY <1>1, <1>2 DEF TrueHashes
<1>16. TrueHashes(buckets)'
  <2> SUFFICES ASSUME NEW k \in 1 .. Size, ~ IsEmpty(buckets'[k])
               PROVE  buckets'[k].hash = Hash[arena'[buckets'[k].id]]
    BY <1>12 DEF TrueHashes
  <2>1. CASE k = call_idx + 1
    BY <1>3, <1>7, <1>12, <2>1
  <2>2. CASE k # call_idx + 1
    <3>1. /\ buckets'[k] = buckets[k]
          /\ k - 1 \in 0 .. Size - 1 /\ Bucket(k - 1) = buckets[k]
      BY <1>2, <1>12, <2>2 DEF Bucket
    <3>2. buckets[k].id \in 1 .. L /\ buckets[k].hash = Hash[arena[buckets[k].id]]
      BY <3>1, BucketFacts
    <3>3. QED
      BY <1>3, <3>1, <3>2
  <2>3. QED
    BY <2>1, <2>2
<1>17. Locals' /\ Walked'
  BY <1>1, <1>2 DEF Locals, Walked
<1>18. Placed'
  <2>1. IdsFrom(call_old', call_next') = {} /\ OneEach(call_old', call_next')
    BY <1>1, <1>2, NoBuckets
  <2>2. 1 .. L \cup {L + 1} = 1 .. L + 1
    BY <1>2
  <2>3. QED
    BY <1>3, <1>7, <1>11, <2>1, <2>2 DEF Placed
<1>19. Counted'
  <2>1. IsFiniteSet(1 .. L) /\ Cardinality(1 .. L) = L
    BY <1>2, IdsValid DEF IInv, Counted
  <2>2. L + 1 \notin 1 .. L
    BY <1>2
  <2>3. Cardinality(1 .. L \cup {L + 1}) = L + 1
    BY <2>1, <2>2, FS_AddElement
  <2>4. QED
    BY <1>1, <1>2, <1>7, <1>11, <2>3 DEF Counted
<1>20. Sized'
  BY <1>1, <1>2, <1>3, <1>6 DEF Sized
<1>21. QED
  BY <1>6, <1>13, <1>14, <1>15, <1>16, <1>17, <1>18, <1>19, <1>20 DEF IInv

LEMMA ProbeFoundIInv == IInv /\ ProbeFound => IInv'
<1> SUFFICES ASSUME IInv, ProbeFound PROVE IInv'
  OBVIOUS
<1>1. /\ UNCHANGED <<arena, table, call_old, call_next>>
      /\ pc = "probe" /\ pc' = "idle"
      /\ call_s' = EmptyString /\ call_idx' = 0 /\ answer' = Bucket(call_idx).id
      /\ ~ IsEmpty(Bucket(call_idx))
  BY DEF ProbeFound, Return
<1>2. /\ IdsDistinct' /\ TrueHashes(buckets)' /\ TrueHashes(call_old)'
      /\ Placed' /\ ChainsWhole' /\ Counted'
  BY <1>1, SameTable
<1>3. answer' \in 1 .. Len(arena) /\ Size \in Nat /\ Size > 0
  BY <1>1, BucketFacts
<1>4. TypeOK'
  BY <1>1, <1>3 DEF IInv, TypeOK, table, Size
<1>5. Locals' /\ Walked' /\ Sized'
  BY <1>1 DEF IInv, Locals, Walked, Sized, table, Size
<1>6. QED
  BY <1>2, <1>4, <1>5 DEF IInv

LEMMA ProbeNextIInv == IInv /\ ProbeNext => IInv'
<1> SUFFICES ASSUME IInv, ProbeNext PROVE IInv'
  OBVIOUS
<1> USE StringInternerAssumption
<1>1. /\ UNCHANGED <<arena, table, pc, call_s, call_old, call_next, answer>>
      /\ pc = "probe" /\ call_idx' = After(call_idx, Size)
      /\ ~ IsEmpty(Bucket(call_idx)) /\ ~ Matches(Bucket(call_idx), call_s)
  BY DEF ProbeNext
<1>2. /\ IdsDistinct' /\ TrueHashes(buckets)' /\ TrueHashes(call_old)'
      /\ Placed' /\ ChainsWhole' /\ Counted'
  BY <1>1, SameTable
<1>3. /\ Size \in Nat \ {0} /\ call_idx \in 0 .. Size - 1
      /\ call_idx' \in 0 .. Size - 1 /\ Hash[call_s] \in Nat
  BY <1>1, BucketFacts, AfterInTable DEF IInv, Locals
<1>4. TypeOK'
  BY <1>1, <1>3 DEF IInv, TypeOK, table, Size
<1>5. Locals' /\ Sized'
  BY <1>1 DEF IInv, Locals, Sized, table, Size
<1>6. Walked'
  <2> DEFINE home == Home(Hash[call_s], Size)
  <2>1. home \in 0 .. Size - 1
    BY <1>3, HomeInTable
  <2> HIDE DEF home
  <2>2. ASSUME NEW q \in 0 .. Size - 1, Before(home, call_idx', q)
        PROVE  ~ IsEmpty(Bucket(q)) /\ ~ Matches(Bucket(q), call_s)
    <3>1. Before(home, call_idx, q) \/ q = call_idx
      BY <1>1, <1>3, <2>1, <2>2, BeforeAfter
    <3>2. QED
      BY <1>1, <3>1 DEF IInv, Walked, home
  <2>3. QED
    BY <1>1, <2>2 DEF Walked, home, Size, Bucket, Matches, table
<1>7. QED
  BY <1>2, <1>4, <1>5, <1>6 DEF IInv

\* The locals of a rehash() that runs.
LEMMA RehashFacts ==
  ASSUME IInv, pc \in {"rehash", "place"}
  PROVE  /\ Len(arena) \in Nat /\ Size \in Nat \ {0} /\ call_idx \in 0 .. Size - 1
         /\ Len(call_old) \in Nat /\ call_next \in Nat /\ call_next <= Len(call_old)
         /\ call_s \in Strings /\ Hash[call_s] \in Nat
BY StringInternerAssumption DEF IInv, TypeOK, Locals, Size

\* The entry that rehash() moves is a true one.
LEMMA EntryFacts ==
  ASSUME IInv, pc \in {"rehash", "place"}, call_next < Len(call_old),
         ~ IsEmpty(call_old[call_next + 1])
  PROVE  /\ call_old[call_next + 1]
              \in [hash: Nat, id: 1 .. Len(arena) \cup {kInvalidStringId}]
         /\ call_old[call_next + 1].hash \in Nat
         /\ call_old[call_next + 1].id \in 1 .. Len(arena)
         /\ call_old[call_next + 1].hash = Hash[arena[call_old[call_next + 1].id]]
<1> DEFINE B == [hash: Nat, id: 1 .. Len(arena) \cup {kInvalidStringId}]
<1>1. call_next + 1 \in 1 .. Len(call_old)
  BY RehashFacts
<1>2. call_old \in Seq(B) /\ TrueHashes(call_old)
  BY DEF IInv, TypeOK
<1>3. call_old[call_next + 1].hash = Hash[arena[call_old[call_next + 1].id]]
  BY <1>1, <1>2 DEF TrueHashes
<1> HIDE DEF B
<1>4. call_old[call_next + 1] \in B
  BY <1>1, <1>2
<1>5. QED
  BY <1>3, <1>4 DEF B, IsEmpty

LEMMA RehashSkipIInv == IInv /\ RehashSkip => IInv'
<1> SUFFICES ASSUME IInv, RehashSkip PROVE IInv'
  OBVIOUS
<1>1. /\ UNCHANGED <<arena, table, pc, call_s, call_idx, call_old, answer>>
      /\ pc = "rehash" /\ call_next' = call_next + 1
      /\ call_next < Len(call_old) /\ IsEmpty(call_old[call_next + 1])
  BY DEF RehashSkip
<1>2. Len(call_old) \in Nat /\ call_next \in Nat
  BY <1>1, RehashFacts
<1>3. /\ IdsFrom(call_old', call_next') = IdsFrom(call_old, call_next)
      /\ OneEach(call_old', call_next')
  BY <1>1, <1>2, IdsFromNext DEF IInv, Placed
<1>4. TypeOK' /\ Locals'
  BY <1>1, <1>2 DEF IInv, TypeOK, Locals, table, Size
<1>5. IdsDistinct' /\ TrueHashes(buckets)' /\ TrueHashes(call_old)'
  BY <1>1 DEF IInv, IdsDistinct, TrueHashes, table
<1>6. Placed'
  BY <1>1, <1>3 DEF IInv, Placed, table
<1>7. ChainsWhole' /\ Counted' /\ Sized'
  BY <1>1 DEF IInv, ChainsWhole, Reached, Bucket, Counted, Sized, Size, table
<1>8. Walked'
  BY <1>1 DEF Walked
<1>9. QED
  BY <1>4, <1>5, <1>6, <1>7, <1>8 DEF IInv

LEMMA RehashTakeIInv == IInv /\ RehashTake => IInv'
<1> SUFFICES ASSUME IInv, RehashTake PROVE IInv'
  OBVIOUS
<1> DEFINE e == call_old[call_next + 1]
<1>1. /\ UNCHANGED <<arena, table, call_s, call_old, call_next, answer>>
      /\ pc = "rehash" /\ pc' = "place" /\ call_idx' = Home(e.hash, Size)
      /\ call_next < Len(call_old) /\ ~ IsEmpty(e)
  BY DEF RehashTake
<1>2. /\ IdsDistinct' /\ TrueHashes(buckets)' /\ TrueHashes(call_old)'
      /\ Placed' /\ ChainsWhole' /\ Counted'
  BY <1>1, SameTable
<1>3. Size \in Nat \ {0}
  BY <1>1, RehashFacts
<1>4. e.hash \in Nat
  BY <1>1, EntryFacts
<1>5. call_idx' \in 0 .. Size - 1
  BY <1>1, <1>3, <1>4, HomeInTable
<1>6. TypeOK'
  BY <1>1, <1>5 DEF IInv, TypeOK, table, Size
<1>7. Locals' /\ Sized'
  BY <1>1 DEF IInv, Locals, Sized, table, Size
<1>8. Walked'
  <2>1. \A q \in 0 .. Size - 1 : ~ Before(call_idx', call_idx', q)
    BY <1>3, <1>5, BeforeTotal
  <2>2. Size' = Size
    BY <1>1 DEF Size, table
  <2>3. QED
    BY <1>1, <2>1, <2>2 DEF Walked, Reached
<1>9. QED
  BY <1>2, <1>6, <1>7, <1>8 DEF IInv

LEMMA PlaceNextIInv == IInv /\ PlaceNext => IInv'
<1> SUFFICES ASSUME IInv, PlaceNext PROVE IInv'
  OBVIOUS
<1> DEFINE e == call_old[call_next + 1]
<1>1. /\ UNCHANGED <<arena, table, pc, call_s, call_old, call_next, answer>>
      /\ pc = "place" /\ call_idx' = After(call_idx, Size)
      /\ ~ IsEmpty(Bucket(call_idx))
  BY DEF PlaceNext
<1>2. /\ IdsDistinct' /\ TrueHashes(buckets)' /\ TrueHashes(call_old)'
      /\ Placed' /\ ChainsWhole' /\ Counted'
  BY <1>1, SameTable
<1>3. /\ Size \in Nat \ {0} /\ call_idx \in 0 .. Size - 1
      /\ call_idx' \in 0 .. Size - 1
  BY <1>1, RehashFacts, AfterInTable
<1>4. e.hash \in Nat
  BY <1>1, EntryFacts DEF IInv, Locals
<1>5. TypeOK'
  BY <1>1, <1>3 DEF IInv, TypeOK, table, Size
<1>6. Locals' /\ Sized'
  BY <1>1 DEF IInv, Locals, Sized, table, Size
<1>7. Walked'
  <2> DEFINE home == Home(e.hash, Size)
  <2>1. home \in 0 .. Size - 1
    BY <1>3, <1>4, HomeInTable
  <2>2. Reached(home, call_idx)
    BY <1>1 DEF IInv, Walked
  <2> HIDE DEF home
  <2>3. ASSUME NEW q \in 0 .. Size - 1, Before(home, call_idx', q)
        PROVE  ~ IsEmpty(Bucket(q))
    <3>1. Before(home, call_idx, q) \/ q = call_idx
      BY <1>1, <1>3, <2>1, <2>3, BeforeAfter
    <3>2. QED
      BY <1>1, <2>2, <3>1 DEF Reached
  <2>4. QED
    BY <1>1, <2>3 DEF Walked, Reached, home, Size, Bucket, table
<1>8. QED
  BY <1>2, <1>5, <1>6, <1>7 DEF IInv

LEMMA PlaceStoreIInv == IInv /\ PlaceStore => IInv'
<1> SUFFICES ASSUME IInv, PlaceStore PROVE IInv'
  OBVIOUS
<1> USE StringInternerAssumption
<1> DEFINE b == call_old[call_next + 1]
           B == [hash: Nat, id: 1 .. Len(arena) \cup {kInvalidStringId}]
<1>1. /\ UNCHANGED <<arena, call_s, call_idx, call_old, answer>>
      /\ pc = "place" /\ pc' = "rehash"
      /\ IsEmpty(Bucket(call_idx))
      /\ buckets' = [buckets EXCEPT ![call_idx + 1] = b]
      /\ used_buckets' = used_buckets + 1
      /\ call_next' = call_next + 1
  BY DEF PlaceStore
<1>2. /\ call_next < Len(call_old) /\ ~ IsEmpty(b)
      /\ Reached(Home(b.hash, Size), call_idx)
      /\ buckets \in Seq(B)
  BY <1>1 DEF IInv, Locals, Walked, TypeOK
<1>3. /\ Size \in Nat \ {0} /\ call_idx \in 0 .. Size - 1 /\ Len(arena) \in Nat
      /\ Len(call_old) \in Nat /\ call_next \in Nat
  BY <1>1, RehashFacts
<1>4. /\ b \in B /\ b.id \in 1 .. Len(arena)
      /\ b.hash = Hash[arena[b.id]]
  BY <1>1, <1>2, EntryFacts
<1>5. /\ IdsFrom(call_old', call_next') = IdsFrom(call_old, call_next) \ {b.id}
      /\ b.id \in IdsFrom(call_old, call_next)
      /\ OneEach(call_old', call_next')
  BY <1>1, <1>2, <1>3, IdsFromNext DEF IInv, Placed
<1> HIDE DEF b, B
<1>6. /\ Size' = Size
      /\ \A q \in 0 .. Size - 1 :
           buckets'[q + 1] = IF q = call_idx THEN b ELSE buckets[q + 1]
      /\ ChainsWhole'
  BY <1>1, <1>2, StoreKeepsChains
<1>7. call_idx + 1 \in 1 .. Len(buckets) /\ IsEmpty(buckets[call_idx + 1])
  BY <1>1, <1>3 DEF Size, Bucket
<1>8. OneEach(buckets, 0) /\ b.id \notin IdsFrom(buckets, 0)
  BY <1>5 DEF IInv, Placed
<1>9. IdsFrom(buckets', 0) = IdsFrom(buckets, 0) \cup {b.id} /\ OneEach(buckets', 0)
  <2>1. LET bt == [buckets EXCEPT ![call_idx + 1] = b]
        IN  IdsFrom(bt, 0) = IdsFrom(buckets, 0) \cup {b.id} /\ OneEach(bt, 0)
    BY <1>2, <1>4, <1>7, <1>8, IdsFromStore
  <2>2. QED
    BY <1>1, <2>1
<1>10. /\ buckets' \in Seq(B) /\ Len(buckets') = Size
       /\ \A k \in 1 .. Size :
            buckets'[k] = IF k = call_idx + 1 THEN b ELSE buckets[k]
  BY <1>1, <1>2, <1>4, <1>7 DEF Size
<1>11. TypeOK'
  BY <1>1, <1>2, <1>3, <1>6, <1>10 DEF IInv, TypeOK, B, Size
<1>12. TrueHashes(buckets)'
  BY <1>1, <1>4, <1>10 DEF IInv, TrueHashes, Size
<1>13. IdsDistinct' /\ TrueHashes(call_old)' /\ Locals' /\ Walked'
  BY <1>1 DEF IInv, IdsDistinct, TrueHashes, Locals, Walked
<1>14. Placed'
  BY <1>1, <1>5, <1>9 DEF IInv, Placed
<1>15. Counted'
  <2>1. Cardinality(IdsFrom(buckets, 0) \cup {b.id})
          = Cardinality(IdsFrom(buckets, 0)) + 1
    BY <1>8, IdsValid, FS_AddElement
  <2>2. QED
    BY <1>1, <1>9, <2>1 DEF IInv, Counted
<1>16. Sized'
  BY <1>1, <1>6 DEF IInv, Sized
<1>17. QED
  BY <1>6, <1>11, <1>12, <1>13, <1>14, <1>15, <1>16 DEF IInv

LEMMA RehashDoneIInv == IInv /\ RehashDone => IInv'
<1> SUFFICES ASSUME IInv, RehashDone PROVE IInv'
  OBVIOUS
<1>1. /\ UNCHANGED <<arena, table, call_s, answer>>
      /\ pc = "rehash" /\ pc' = "probe" /\ call_idx' = Home(Hash[call_s], Size)
      /\ call_old' = << >> /\ call_next' = 0 /\ call_next = Len(call_old)
  BY DEF RehashDone
<1>2. /\ Size \in Nat \ {0} /\ call_s \in Strings /\ Hash[call_s] \in Nat
      /\ call_next \in Nat
  BY <1>1, RehashFacts
<1>3. call_idx' \in 0 .. Size - 1
  BY <1>1, <1>2, HomeInTable
<1>4. TypeOK' /\ Locals' /\ Sized'
  BY <1>1, <1>3 DEF IInv, TypeOK, Locals, Sized, table, Size
<1>5. IdsDistinct' /\ TrueHashes(buckets)' /\ TrueHashes(call_old)'
  BY <1>1 DEF IInv, IdsDistinct, TrueHashes, table
<1>6. Placed'
  <2>1. IdsFrom(call_old, call_next) = {}
    BY <1>1, <1>2 DEF IdsFrom
  <2>2. IdsFrom(call_old', call_next') = {} /\ OneEach(call_old', call_next')
    BY <1>1, NoBuckets
  <2>3. QED
    BY <1>1, <2>1, <2>2 DEF IInv, Placed, table
<1>7. ChainsWhole' /\ Counted'
  BY <1>1 DEF IInv, ChainsWhole, Reached, Bucket, Counted, Size, table
<1>8. Walked'
  <2>1. \A q \in 0 .. Size - 1 : ~ Before(call_idx', call_idx', q)
    BY <1>2, <1>3, BeforeTotal
  <2>2. Size' = Size
    BY <1>1 DEF Size, table
  <2>3. QED
    BY <1>1, <2>1, <2>2 DEF Walked
<1>9. QED
  BY <1>4, <1>5, <1>6, <1>7, <1>8 DEF IInv

LEMMA NextIInv == IInv /\ [Next]_vars => IInv'
<1> SUFFICES ASSUME IInv, [Next]_vars PROVE IInv'
  OBVIOUS
<1>1. CASE UNCHANGED vars
  <2>1. UNCHANGED <<arena, table, pc, call_s, call_idx, call_old, call_next, answer>>
    BY <1>1 DEF vars
  <2>2. /\ IdsDistinct' /\ TrueHashes(buckets)' /\ TrueHashes(call_old)'
        /\ Placed' /\ ChainsWhole' /\ Counted'
    BY <2>1, SameTable
  <2>3. TypeOK' /\ Locals' /\ Sized'
    BY <2>1 DEF IInv, TypeOK, Locals, Sized, table, Size
  <2>4. Walked'
    BY <2>1 DEF IInv, Walked, Reached, Matches, Bucket, table, Size
  <2>5. QED
    BY <2>2, <2>3, <2>4 DEF IInv
<1>2. CASE InternEmptyString
  BY <1>2, EmptyStringIInv
<1>3. ASSUME NEW s \in Strings, InternProbe(s) PROVE IInv'
  BY <1>3, InternProbeIInv
<1>4. ASSUME NEW s \in Strings, InternRehash(s) PROVE IInv'
  BY <1>4, InternRehashIInv
<1>5. CASE Running
  BY <1>5, ProbeInsertIInv, ProbeFoundIInv, ProbeNextIInv, RehashSkipIInv,
     RehashTakeIInv, PlaceNextIInv, PlaceStoreIInv, RehashDoneIInv DEF Running
<1>6. QED
  BY <1>1, <1>2, <1>3, <1>4, <1>5 DEF Next

-----------------------------------------------------------------------------
(* What the invariant says to a caller                                     *)

\* lookup() of an interned string finds the one bucket it is in.
LEMMA LookupFinds ==
  ASSUME IInv, pc = "idle", NEW i \in 1 .. Len(arena)
  PROVE  LookupString(arena[i]) = i
<1> DEFINE s == arena[i]
           hits == {p \in 0 .. Size - 1 :
                      /\ ~ IsEmpty(Bucket(p))
                      /\ Matches(Bucket(p), s)
                      /\ Reached(Home(Hash[s], Size), p)}
           first == CHOOSE p \in hits :
                      \A q \in hits : ~ Before(Home(Hash[s], Size), p, q)
<1>1. LookupString(s) = IF hits = {} THEN kInvalidStringId ELSE Bucket(first).id
  BY DEF LookupString
<1>2. PICK p \in 0 .. Size - 1 : /\ ~ IsEmpty(Bucket(p))
                                 /\ Bucket(p).id = i
                                 /\ Matches(Bucket(p), s)
                                 /\ Reached(Home(Hash[s], Size), p)
  BY StringHasBucket
<1>3. ASSUME NEW q \in hits PROVE q = p
  <2>1. ~ IsEmpty(Bucket(q)) /\ arena[Bucket(q).id] = s
    BY DEF Matches
  <2>2. Bucket(q).id \in 1 .. Len(arena)
    BY <2>1, BucketFacts
  <2>3. Bucket(q).id = Bucket(p).id
    BY <1>2, <2>1, <2>2 DEF IInv, IdsDistinct
  <2>4. q + 1 \in 0 + 1 .. Len(buckets) /\ p + 1 \in 0 + 1 .. Len(buckets)
    BY BucketFacts DEF Size
  <2>5. q + 1 = p + 1
    BY <2>1, <2>3, <2>4 DEF IInv, Placed, OneEach, Bucket
  <2>6. QED
    BY <2>5, BucketFacts
<1>4. hits = {p}
  BY <1>2, <1>3
<1>5. \A q \in hits : ~ Before(Home(Hash[s], Size), p, q)
  BY <1>4, BucketFacts DEF Before
<1> HIDE DEF hits
<1>6. first = p
  BY <1>4, <1>5
<1>7. QED
  BY <1>1, <1>2, <1>4, <1>6

\* lookup() of any other string finds nothing.
LEMMA LookupMisses ==
  ASSUME IInv, NEW s, \A i \in 1 .. Len(arena) : arena[i] # s
  PROVE  LookupString(s) = kInvalidStringId
<1> DEFINE hits == {p \in 0 .. Size - 1 :
                      /\ ~ IsEmpty(Bucket(p))
                      /\ Matches(Bucket(p), s)
                      /\ Reached(Home(Hash[s], Size), p)}
<1>1. hits = {}
  BY BucketFacts DEF Matches
<1>2. QED
  BY <1>1 DEF LookupString

LEMMA InvLookupAgrees == IInv => LookupAgrees
<1> SUFFICES ASSUME IInv, pc = "idle", NEW s \in Strings
             PROVE  IF \E i \in 1 .. Len(arena) : arena[i] = s
                    THEN /\ LookupString(s) \in 1 .. Len(arena)
                         /\ LookupId(LookupString(s)) = s
                    ELSE LookupString(s) = kInvalidStringId
  BY DEF LookupAgrees
<1>1. CASE \E i \in 1 .. Len(arena) : arena[i] = s
  <2>1. PICK i \in 1 .. Len(arena) : arena[i] = s
    BY <1>1
  <2>2. LookupString(s) = i
    BY <2>1, LookupFinds
  <2>3. QED
    BY <1>1, <2>1, <2>2 DEF LookupId
<1>2. CASE ~ \E i \in 1 .. Len(arena) : arena[i] = s
  BY <1>2, LookupMisses
<1>3. QED
  BY <1>1, <1>2

\* With fewer strings than buckets, and one bucket for each, one is left.
LEMMA InvRoomLeft == IInv => RoomLeft
<1> SUFFICES ASSUME IInv, pc \in {"place", "probe"},
                    \A p \in 0 .. Size - 1 : ~ IsEmpty(Bucket(p))
             PROVE  FALSE
  BY DEF RoomLeft
<1> DEFINE L == Len(arena)
           f == [k \in 1 .. Size |-> buckets[k].id]
<1>1. L \in Nat /\ Size \in Nat /\ L < Size
  BY BucketFacts DEF IInv, Sized
<1>2. ASSUME NEW k \in 1 .. Size
      PROVE  ~ IsEmpty(buckets[k]) /\ buckets[k].id \in 1 .. L
  <2>1. k - 1 \in 0 .. Size - 1 /\ Bucket(k - 1) = buckets[k]
    BY <1>1 DEF Bucket
  <2>2. QED
    BY <2>1, BucketFacts
<1>3. f \in [1 .. Size -> 1 .. L]
  BY <1>2
<1>4. /\ IsFiniteSet(1 .. L) /\ Cardinality(1 .. L) = L
      /\ IsFiniteSet(1 .. Size) /\ Cardinality(1 .. Size) = Size
  <2>1. L \in Int /\ Size \in Int /\ 1 \in Int
    BY <1>1
  <2>2. /\ IsFiniteSet(1 .. L)
        /\ Cardinality(1 .. L) = IF 1 > L THEN 0 ELSE L - 1 + 1
        /\ IsFiniteSet(1 .. Size)
        /\ Cardinality(1 .. Size) = IF 1 > Size THEN 0 ELSE Size - 1 + 1
    BY <2>1, FS_Interval, Zenon
  <2>3. QED
    BY <1>1, <2>2
<1>5. Cardinality(1 .. L) < Cardinality(1 .. Size)
  BY <1>1, <1>4
<1> HIDE DEF f
<1>6. PICK j, k \in 1 .. Size : j # k /\ f[j] = f[k]
  BY <1>3, <1>4, <1>5, FS_PigeonHole
<1>7. j \in 0 + 1 .. Len(buckets) /\ k \in 0 + 1 .. Len(buckets)
  BY <1>1 DEF Size
<1>8. QED
  BY <1>2, <1>6, <1>7 DEF f, IInv, Placed, OneEach

-----------------------------------------------------------------------------
(* Theorems                                                                *)

\* The invariant holds of every reachable state.
LEMMA Invariance == Spec => []IInv
<1>1. Init => IInv
  BY InitIInv
<1>2. IInv /\ [Next]_vars => IInv'
  BY NextIInv
<1>3. QED
  BY <1>1, <1>2, PTL DEF Spec

\* The variables of the interner, and the locals of the call that runs, keep
\* their types; above all no index leaves the table it indexes.
THEOREM TypeCorrect == Spec => []TypeOK
<1>1. IInv => TypeOK
  BY DEF IInv
<1>2. QED
  BY <1>1, Invariance, PTL

\* Arena, table and count of intern() and rehash() agree in every state: no
\* two ids for a string, lookup() finds every interned string and no other,
\* used_buckets_ is the number of strings, and the probing loops have an empty
\* bucket to stop at.
THEOREM TableCorrect == Spec => []TableAgrees
<1>1. IInv => TableAgrees
  BY AllInTable, InvLookupAgrees, InvRoomLeft DEF IInv, TableAgrees, UsedIsTrue
<1>2. QED
  BY <1>1, Invariance, PTL

\* Each step of intern() and rehash() is a step of the interner's promise or
\* none at all.
LEMMA StepRefines == IInv /\ [Next]_vars => [Pool!Next]_(Pool!vars)
<1> SUFFICES ASSUME IInv, [Next]_vars, ~ UNCHANGED <<arena, answer>>
             PROVE  Pool!Next
  BY DEF Pool!vars
<1>1. CASE UNCHANGED vars
  BY <1>1 DEF vars
<1>2. CASE InternEmptyString
  BY <1>2 DEF InternEmptyString, Pool!Next, Pool!InternEmpty
<1>3. ASSUME NEW s \in Strings, InternProbe(s) \/ InternRehash(s)
      PROVE  Pool!Next
  BY <1>3 DEF InternProbe, InternRehash
<1>4. CASE ProbeInsert
  <2>1. call_s \in Strings
    BY <1>4 DEF ProbeInsert, IInv, Locals
  <2>2. ~ Pool!Known(call_s)
    BY <1>4, ProbeMissIsNew DEF ProbeInsert, Pool!Known
  <2>3. Pool!InternNew(call_s)
    BY <1>4, <2>2 DEF ProbeInsert, Return, Pool!InternNew
  <2>4. QED
    BY <2>1, <2>3 DEF Pool!Next
<1>5. CASE ProbeFound
  <2>1. call_s \in Strings
    BY <1>5 DEF ProbeFound, IInv, Locals
  <2>2. /\ Bucket(call_idx).id \in 1 .. Len(arena)
        /\ arena[Bucket(call_idx).id] = call_s
    BY <1>5, BucketFacts DEF ProbeFound, Matches
  <2>3. Pool!InternKnown(call_s)
    BY <1>5, <2>2 DEF ProbeFound, Return, Pool!InternKnown
  <2>4. QED
    BY <2>1, <2>3 DEF Pool!Next
<1>6. CASE ProbeNext \/ RehashSkip \/ RehashTake \/ PlaceNext \/ PlaceStore
             \/ RehashDone
  BY <1>6 DEF ProbeNext, RehashSkip, RehashTake, PlaceNext, PlaceStore, RehashDone
<1>7. QED
  BY <1>1, <1>2, <1>3, <1>4, <1>5, <1>6 DEF Next, Running

\* StringInterner implements the abstract interner: seen through its arena
\* and its answers the hash table gives every string one id, for good and in
\* the order of interning, whatever the hash function and through any number
\* of rehashes.
THEOREM Refinement == Spec => ImplementsInternPool
<1>1. Init => Pool!Init
  BY DEF Init, Pool!Init
<1>2. IInv /\ [Next]_vars => [Pool!Next]_(Pool!vars)
  BY StepRefines
<1>3. QED
  BY <1>1, <1>2, Invariance, PTL DEF Spec, ImplementsInternPool, Pool!Spec
=============================================================================
