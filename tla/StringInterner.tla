--------------------------- MODULE StringInterner ---------------------------
(***************************************************************************)
(* base::StringInterner over base::StringArena: an open-addressing hash    *)
(* table with linear probing whose buckets hold a string's full hash and   *)
(* its id, the id being the string's position in the arena.                *)
(*                                                                         *)
(* The loops of intern() and rehash() run one iteration per action, so     *)
(* that a probe that never ends shows as a behaviour that never returns.   *)
(* pc says which loop is running; the call_* variables are the locals of   *)
(* intern() and of the rehash() it calls.  A string's bytes and their      *)
(* FNV-1a hash are abstracted to a value and the constant function Hash,   *)
(* which may map different strings to one hash.                            *)
(***************************************************************************)
EXTENDS Integers, Sequences

CONSTANTS
  Strings,           \* the non-empty strings that may be interned
  Hash,              \* hash_sv
  InitialBuckets,    \* the 64 of the constructor
  MaxLoadNum,        \* max_load_factor_ is the fraction
  MaxLoadDen,        \*   MaxLoadNum / MaxLoadDen
  MaxStrings,        \* bound on the strings interned
  kInvalidStringId

EmptyString == ""

kEmptyStringId == 0

\* At a load factor of 1 or more intern() would probe a full table for ever;
\* the only value the program uses is 0.75.  Ids stay below the invalid one.
ASSUME StringInternerAssumption ==
  /\ EmptyString \notin Strings
  /\ Hash \in [Strings -> Nat]
  /\ InitialBuckets \in Nat \ {0}
  /\ MaxLoadNum \in Nat
  /\ MaxLoadDen \in Nat
  /\ MaxLoadNum < MaxLoadDen
  /\ MaxStrings \in Nat
  /\ kInvalidStringId \in Nat
  /\ MaxStrings < kInvalidStringId

VARIABLES
  arena,          \* arena_: the interned strings, the i-th having id i
  buckets,        \* buckets_: bucket p of the code is buckets[p + 1]
  used_buckets,   \* used_buckets_
  pc,             \* "idle", "rehash", "place" or "probe"
  call_s,         \* the string being interned
  call_idx,       \* idx of the probing loop that runs
  call_old,       \* rehash(): the buckets to reinsert ...
  call_next,      \* ... and how many of them have been dealt with
  answer          \* what the last intern() returned

table == <<buckets, used_buckets>>
vars == <<arena, table, pc, call_s, call_idx, call_old, call_next, answer>>

EmptyBucket == [hash |-> 0, id |-> kInvalidStringId]

IsEmpty(b) == b.id = kInvalidStringId

\* init_buckets(n), for the powers of two that are all the code asks for.
InitBuckets(n) == [i \in 1 .. n |-> EmptyBucket]

Size == Len(buckets)

Bucket(p) == buckets[p + 1]

\* hash & mask, and (idx + 1) & mask, in a table of n buckets.
Home(hash, n) == hash % n
After(idx, n) == IF idx + 1 = n THEN 0 ELSE idx + 1

\* Wrong versions, one plausible slip each, to see the properties notice it.
Overloaded_OnlyWhenFull == used_buckets > Size

\* load_factor() > max_load_factor_
Overloaded == used_buckets * MaxLoadDen > MaxLoadNum * Size

Matches(b, s) == b.hash = Hash[s] /\ arena[b.id] = s

Init ==
  /\ arena = << >>
  /\ buckets = InitBuckets(InitialBuckets)
  /\ used_buckets = 0
  /\ pc = "idle"
  /\ call_s = EmptyString
  /\ call_idx = 0
  /\ call_old = << >>
  /\ call_next = 0
  /\ answer = kInvalidStringId

-----------------------------------------------------------------------------
(* intern()                                                                *)

InternEmptyString ==
  /\ pc = "idle"
  /\ answer' = kEmptyStringId
  /\ UNCHANGED <<arena, table, pc, call_s, call_idx, call_old, call_next>>

\* The table is not overloaded: ensure_load_factor() does nothing and the
\* probe starts at the string's home bucket.
InternProbe(s) ==
  /\ pc = "idle"
  /\ ~ Overloaded
  /\ Len(arena) < MaxStrings
  /\ pc' = "probe"
  /\ call_s' = s
  /\ call_idx' = Home(Hash[s], Size)
  /\ UNCHANGED <<arena, table, call_old, call_next, answer>>

\* The table is overloaded: ensure_load_factor() starts a rehash() into an
\* empty table of twice the size.
InternRehash(s) ==
  /\ pc = "idle"
  /\ Overloaded
  /\ Len(arena) < MaxStrings
  /\ pc' = "rehash"
  /\ call_s' = s
  /\ call_old' = buckets
  /\ call_next' = 0
  /\ buckets' = InitBuckets(Size * 2)
  /\ used_buckets' = 0
  /\ UNCHANGED <<arena, call_idx, answer>>

Return(id) ==
  /\ pc' = "idle"
  /\ answer' = id
  /\ call_s' = EmptyString
  /\ call_idx' = 0
  /\ UNCHANGED <<call_old, call_next>>

ProbeInsert_IdBeforeAppend ==
  /\ pc = "probe"
  /\ IsEmpty(Bucket(call_idx))
  /\ arena' = Append(arena, call_s)
  /\ buckets' = [buckets EXCEPT ![call_idx + 1] =
                   [hash |-> Hash[call_s], id |-> Len(arena)]]
  /\ used_buckets' = used_buckets + 1
  /\ Return(Len(arena))

ProbeInsert ==
  /\ pc = "probe"
  /\ IsEmpty(Bucket(call_idx))
  /\ arena' = Append(arena, call_s)
  /\ buckets' = [buckets EXCEPT ![call_idx + 1] =
                   [hash |-> Hash[call_s], id |-> Len(arena) + 1]]
  /\ used_buckets' = used_buckets + 1
  /\ Return(Len(arena) + 1)

ProbeFound_ReturnsIndex ==
  /\ pc = "probe"
  /\ ~ IsEmpty(Bucket(call_idx))
  /\ Matches(Bucket(call_idx), call_s)
  /\ Return(call_idx)
  /\ UNCHANGED <<arena, table>>

ProbeFound ==
  /\ pc = "probe"
  /\ ~ IsEmpty(Bucket(call_idx))
  /\ Matches(Bucket(call_idx), call_s)
  /\ Return(Bucket(call_idx).id)
  /\ UNCHANGED <<arena, table>>

ProbeNext ==
  /\ pc = "probe"
  /\ ~ IsEmpty(Bucket(call_idx))
  /\ ~ Matches(Bucket(call_idx), call_s)
  /\ call_idx' = After(call_idx, Size)
  /\ UNCHANGED <<arena, table, pc, call_s, call_old, call_next, answer>>

-----------------------------------------------------------------------------
(* rehash()                                                                *)

RehashSkip ==
  /\ pc = "rehash"
  /\ call_next < Len(call_old)
  /\ IsEmpty(call_old[call_next + 1])
  /\ call_next' = call_next + 1
  /\ UNCHANGED <<arena, table, pc, call_s, call_idx, call_old, answer>>

RehashTake_OldMask ==
  /\ pc = "rehash"
  /\ call_next < Len(call_old)
  /\ ~ IsEmpty(call_old[call_next + 1])
  /\ pc' = "place"
  /\ call_idx' = Home(call_old[call_next + 1].hash, Len(call_old))
  /\ UNCHANGED <<arena, table, call_s, call_old, call_next, answer>>

RehashTake ==
  /\ pc = "rehash"
  /\ call_next < Len(call_old)
  /\ ~ IsEmpty(call_old[call_next + 1])
  /\ pc' = "place"
  /\ call_idx' = Home(call_old[call_next + 1].hash, Size)
  /\ UNCHANGED <<arena, table, call_s, call_old, call_next, answer>>

PlaceNext ==
  /\ pc = "place"
  /\ ~ IsEmpty(Bucket(call_idx))
  /\ call_idx' = After(call_idx, Size)
  /\ UNCHANGED <<arena, table, pc, call_s, call_old, call_next, answer>>

PlaceStore ==
  /\ pc = "place"
  /\ IsEmpty(Bucket(call_idx))
  /\ buckets' = [buckets EXCEPT ![call_idx + 1] = call_old[call_next + 1]]
  /\ used_buckets' = used_buckets + 1
  /\ call_next' = call_next + 1
  /\ pc' = "rehash"
  /\ UNCHANGED <<arena, call_s, call_idx, call_old, answer>>

\* rehash() returns and intern() goes on to probe the new table.
RehashDone ==
  /\ pc = "rehash"
  /\ call_next = Len(call_old)
  /\ pc' = "probe"
  /\ call_idx' = Home(Hash[call_s], Size)
  /\ call_old' = << >>
  /\ call_next' = 0
  /\ UNCHANGED <<arena, table, call_s, answer>>

-----------------------------------------------------------------------------
Running ==
  \/ ProbeInsert \/ ProbeFound \/ ProbeNext
  \/ RehashSkip \/ RehashTake \/ PlaceNext \/ PlaceStore \/ RehashDone

Next ==
  \/ InternEmptyString
  \/ \E s \in Strings : InternProbe(s) \/ InternRehash(s)
  \/ Running

Spec == Init /\ [][Next]_vars

\* intern() runs on its caller's thread: once called it goes on executing.
FairSpec == Spec /\ WF_vars(Running)

-----------------------------------------------------------------------------
(* Queries                                                                 *)

\* The buckets a probe for a string of home bucket `home' visits before p.
Before(home, p, q) == IF home <= p THEN home <= q /\ q < p
                                   ELSE home <= q \/ q < p

\* Bucket p is what a probe from its home reaches: nothing on the way is empty.
Reached(home, p) ==
  \A q \in 0 .. Size - 1 : Before(home, p, q) => ~ IsEmpty(Bucket(q))

\* lookup(std::string_view): the id of the first match of a probe that stops
\* at an empty bucket or after a full turn.
LookupString(s) ==
  LET hits == {p \in 0 .. Size - 1 :
                 /\ ~ IsEmpty(Bucket(p))
                 /\ Matches(Bucket(p), s)
                 /\ Reached(Home(Hash[s], Size), p)}
      first == CHOOSE p \in hits :
                 \A q \in hits : ~ Before(Home(Hash[s], Size), p, q)
  IN IF hits = {} THEN kInvalidStringId ELSE Bucket(first).id

\* lookup(StringId), by way of StringArena::operator[].
LookupId(id) == IF id \in 1 .. Len(arena) THEN arena[id] ELSE EmptyString

-----------------------------------------------------------------------------
(* Properties                                                              *)

TypeOK ==
  /\ arena \in Seq(Strings)
  /\ Len(arena) <= MaxStrings
  /\ buckets \in Seq([hash: Nat, id: 1 .. Len(arena) \cup {kInvalidStringId}])
  /\ Size > 0
  /\ used_buckets \in Nat
  /\ pc \in {"idle", "rehash", "place", "probe"}
  /\ call_s \in Strings \cup {EmptyString}
  /\ call_idx \in 0 .. Size - 1
  /\ call_old \in Seq([hash: Nat, id: 1 .. Len(arena) \cup {kInvalidStringId}])
  /\ call_next \in 0 .. Len(call_old)
  /\ answer \in 0 .. Len(arena) \cup {kInvalidStringId}

\* No string is stored twice: two ids never stand for the same text.
IdsDistinct ==
  \A i, j \in 1 .. Len(arena) : arena[i] = arena[j] => i = j

\* Between calls lookup() of a string agrees with the arena for every string:
\* each interned one is found under its id, through collisions, wrap-around
\* at the end of the table and any number of rehashes, and no other one is.
LookupAgrees ==
  pc = "idle" =>
    \A s \in Strings :
      IF \E i \in 1 .. Len(arena) : arena[i] = s
      THEN /\ LookupString(s) \in 1 .. Len(arena)
           /\ LookupId(LookupString(s)) = s
      ELSE LookupString(s) = kInvalidStringId

\* Outside rehash() used_buckets_ counts the strings, so the load factor that
\* decides about the next rehash is the true one.
UsedIsTrue == pc \in {"idle", "probe"} => used_buckets = Len(arena)

\* A loop that looks for a bucket finds one: while intern() probes and while
\* rehash() places an entry, an empty bucket is left to stop at.
RoomLeft == pc \in {"place", "probe"} => \E p \in 0 .. Size - 1 : IsEmpty(Bucket(p))

\* Arena, table and count agree, whatever has been interned and rehashed: one
\* id for each string, each string found and no other, the true count, and a
\* bucket left to stop at.
TableAgrees == IdsDistinct /\ LookupAgrees /\ UsedIsTrue /\ RoomLeft

\* A call of intern() returns: the load factor keeps a bucket empty for every
\* probe that finds no match to stop at.
InternReturns == pc # "idle" ~> pc = "idle"

\* The hash table implements the interner's promise: ids are stable, unique
\* and dense, whatever the hash function.
Pool == INSTANCE InternPool WITH
  pool <- arena, EmptyId <- kEmptyStringId, NoId <- kInvalidStringId

ImplementsInternPool == Pool!Spec
=============================================================================
