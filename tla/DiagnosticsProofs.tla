------------------------- MODULE DiagnosticsProofs --------------------------
(***************************************************************************)
(* Proofs about Result and DiagnosticEngine as Diagnostics uses them, for  *)
(* every number of results, payloads, entries, labels and calls, and any   *)
(* sources and languages: where each payload is, and where each entry is   *)
(* and in which order they are shown.                                      *)
(***************************************************************************)
EXTENDS Diagnostics, FiniteSetTheorems, TLAPS

-----------------------------------------------------------------------------
(* Payloads of results: the inductive invariant                            *)

\* The payloads in place s.
Own(s) == IF Alive(s) THEN Range(slots[s].value) ELSE {}

\* Place s holds no Result, or one whose flag names the member that was
\* constructed; its value is a sequence of payloads of that member.
SlotTyped(s) ==
  \/ slots[s] = NoResult
  \/ \E is_ok \in BOOLEAN, value \in Seq(Nat) :
       /\ slots[s] = ResultOf(s, is_ok, value)
       /\ is_ok /\ s \in VoidSlots => value = << >>
       /\ IsInjective(value)
       /\ \A i \in 1 .. Len(value) :
            value[i] \in 1 .. Len(kinds) /\ kinds[value[i]] = MemberFor(s, is_ok)

ResultsTyped ==
  /\ kinds \in Seq({"ok", "err", "entry"})
  /\ slots = [s \in ResultSlots |-> slots[s]]
  /\ \A s \in ResultSlots : SlotTyped(s)

Payloads == {n \in 1 .. Len(kinds) : kinds[n] # "entry"}

\* Each payload is in one place, or taken, or destroyed.
OwnedOnce ==
  /\ \A s, t \in ResultSlots : s # t => Own(s) \cap Own(t) = {}
  /\ \A s \in ResultSlots : Own(s) \cap (taken \cup destroyed) = {}
  /\ taken \cap destroyed = {}
  /\ (UNION {Own(s) : s \in ResultSlots}) \cup taken \cup destroyed = Payloads

ResultInv == ResultsTyped /\ OwnedOnce

\* What is said of payloads is what these two say.
LEMMA InvOwned == ResultInv => PayloadsOwned
<1> SUFFICES ASSUME ResultInv PROVE PayloadsOwned
  OBVIOUS
<1>1. InSlots = UNION {Own(s) : s \in ResultSlots}
  BY DEF InSlots, Own
<1>2. DOMAIN kinds = 1 .. Len(kinds)
  BY DEF ResultInv, ResultsTyped
<1>3. ASSUME NEW s \in ResultSlots, Alive(s)
      PROVE  /\ slots[s].member = MemberFor(s, slots[s].is_ok)
             /\ \A i \in DOMAIN slots[s].value :
                  kinds[slots[s].value[i]] = slots[s].member
             /\ IsInjective(slots[s].value)
  <2>1. PICK is_ok \in BOOLEAN, value \in Seq(Nat) :
          /\ slots[s] = ResultOf(s, is_ok, value)
          /\ IsInjective(value)
          /\ \A i \in 1 .. Len(value) :
               value[i] \in 1 .. Len(kinds) /\ kinds[value[i]] = MemberFor(s, is_ok)
    BY <1>3 DEF ResultInv, ResultsTyped, SlotTyped, Alive, NoResult
  <2>2. /\ slots[s].member = MemberFor(s, is_ok) /\ slots[s].is_ok = is_ok
        /\ slots[s].value = value
    BY <2>1 DEF ResultOf
  <2>3. QED
    BY <2>1, <2>2
<1>4. ASSUME NEW s \in ResultSlots, NEW t \in ResultSlots \ {s}, Alive(s), Alive(t)
      PROVE  Range(slots[s].value) \cap Range(slots[t].value) = {}
  BY <1>4 DEF ResultInv, OwnedOnce, Own
<1>5. InSlots \cap taken = {} /\ InSlots \cap destroyed = {}
      /\ taken \cap destroyed = {}
  BY <1>1 DEF ResultInv, OwnedOnce
<1>6. InSlots \cup taken \cup destroyed = {n \in DOMAIN kinds : kinds[n] # "entry"}
  BY <1>1, <1>2 DEF ResultInv, OwnedOnce, Payloads
<1>7. QED
  BY <1>3, <1>4, <1>5, <1>6 DEF PayloadsOwned

-----------------------------------------------------------------------------
(* How places change                                                       *)

\* New payloads are numbered behind all others, each once.
LEMMA FreshNew ==
  ASSUME kinds \in Seq({"ok", "err", "entry"}), NEW n \in Nat
  PROVE  /\ Fresh(n) \in Seq(Nat) /\ Len(Fresh(n)) = n
         /\ IsInjective(Fresh(n))
         /\ Range(Fresh(n)) = Len(kinds) + 1 .. Len(kinds) + n
         /\ \A i \in 1 .. n : Fresh(n)[i] = Len(kinds) + i
<1>1. Len(kinds) \in Nat
  OBVIOUS
<1>2. /\ Fresh(n) \in Seq(Nat) /\ Len(Fresh(n)) = n /\ DOMAIN Fresh(n) = 1 .. n
      /\ \A i \in 1 .. n : Fresh(n)[i] = Len(kinds) + i
  BY <1>1 DEF Fresh
<1>3. IsInjective(Fresh(n))
  BY <1>1, <1>2 DEF IsInjective
<1>4. Range(Fresh(n)) = Len(kinds) + 1 .. Len(kinds) + n
  <2>1. \A x \in Len(kinds) + 1 .. Len(kinds) + n :
          x - Len(kinds) \in 1 .. n /\ Fresh(n)[x - Len(kinds)] = x
    BY <1>1, <1>2
  <2>2. Range(Fresh(n)) = {Fresh(n)[i] : i \in 1 .. n}
    BY <1>2 DEF Range
  <2>3. \A i \in 1 .. n : Fresh(n)[i] \in Len(kinds) + 1 .. Len(kinds) + n
    BY <1>1, <1>2
  <2>4. QED
    BY <2>1, <2>2, <2>3
<1>5. QED
  BY <1>2, <1>3, <1>4

\* Creating payloads changes the kind of none that exists.
LEMMA CreatesNew ==
  ASSUME kinds \in Seq({"ok", "err", "entry"}), NEW n \in Nat,
         NEW kind, n > 0 => kind \in {"ok", "err", "entry"}, Creates(kind, n)
  PROVE  /\ kinds' \in Seq({"ok", "err", "entry"})
         /\ Len(kinds') = Len(kinds) + n
         /\ \A i \in 1 .. Len(kinds) : kinds'[i] = kinds[i]
         /\ \A i \in Len(kinds) + 1 .. Len(kinds) + n : kinds'[i] = kind
<1> DEFINE K == {"ok", "err", "entry"}
           new == [i \in 1 .. n |-> kind]
<1>1. new \in Seq(K) /\ Len(new) = n /\ \A i \in 1 .. n : new[i] = kind
  OBVIOUS
<1>2. kinds' = kinds \o new
  BY DEF Creates
<1>3. kinds \in Seq(K)
  OBVIOUS
<1> HIDE DEF K, new
<1>4. kinds \o new \in Seq(K)
  BY <1>1, <1>3
<1>5. /\ Len(kinds) \in Nat /\ Len(kinds \o new) = Len(kinds) + n
      /\ \A i \in 1 .. Len(kinds) + n :
           (kinds \o new)[i] = IF i <= Len(kinds) THEN kinds[i]
                              ELSE new[i - Len(kinds)]
  BY <1>1, <1>3
<1>6. \A i \in Len(kinds) + 1 .. Len(kinds) + n : i - Len(kinds) \in 1 .. n
  BY <1>5
<1>7. QED
  BY <1>1, <1>2, <1>4, <1>5, <1>6 DEF K

\* What a place holds when a Result is constructed in it.
LEMMA SlotFilled ==
  ASSUME NEW s \in ResultSlots, NEW is_ok \in BOOLEAN, NEW value \in Seq(Nat),
         slots'[s] = ResultOf(s, is_ok, value),
         is_ok /\ s \in VoidSlots => value = << >>,
         IsInjective(value),
         \A i \in 1 .. Len(value) :
           value[i] \in 1 .. Len(kinds') /\ kinds'[value[i]] = MemberFor(s, is_ok)
  PROVE  SlotTyped(s)' /\ Own(s)' = Range(value)
<1>1. SlotTyped(s)'
  BY DEF SlotTyped
<1>2. slots'[s].alive /\ slots'[s].value = value
  BY DEF ResultOf
<1>3. Own(s)' = Range(value)
  BY <1>2 DEF Own, Alive
<1>4. QED
  BY <1>1, <1>3

\* What a place holds when the value of its Result was moved from.
LEMMA SlotEmptied ==
  ASSUME NEW s \in ResultSlots, NEW is_ok \in BOOLEAN,
         slots'[s] = ResultOf(s, is_ok, << >>)
  PROVE  SlotTyped(s)' /\ Own(s)' = {}
<1> DEFINE none == << >>
<1>1. /\ none \in Seq(Nat) /\ IsInjective(none) /\ Range(none) = {}
      /\ \A i \in 1 .. Len(none) : FALSE
  BY DEF IsInjective, Range
<1>2. slots'[s] = ResultOf(s, is_ok, none) /\ (is_ok /\ s \in VoidSlots => none = << >>)
  OBVIOUS
<1> HIDE DEF none
<1>3. \A i \in 1 .. Len(none) :
        none[i] \in 1 .. Len(kinds') /\ kinds'[none[i]] = MemberFor(s, is_ok)
  BY <1>1
<1>4. QED
  BY <1>1, <1>2, <1>3, SlotFilled

\* Only the value is moved from.
LEMMA Emptied ==
  ASSUME NEW s, NEW is_ok, NEW value
  PROVE  [ResultOf(s, is_ok, value) EXCEPT !.value = << >>] = ResultOf(s, is_ok, << >>)
<1> DEFINE a == [ResultOf(s, is_ok, value) EXCEPT !.value = << >>]
           b == ResultOf(s, is_ok, << >>)
<1>1. DOMAIN a = DOMAIN b
  BY DEF ResultOf
<1>2. \A f \in DOMAIN a : a[f] = b[f]
  <2>1. DOMAIN a = {"alive", "is_ok", "member", "value"}
    BY DEF ResultOf
  <2>2. a["alive"] = b["alive"]
    BY DEF ResultOf
  <2>3. a["is_ok"] = b["is_ok"]
    BY DEF ResultOf
  <2>4. a["member"] = b["member"]
    BY DEF ResultOf
  <2>5. a["value"] = b["value"]
    BY DEF ResultOf
  <2> HIDE DEF a, b
  <2>6. QED
    BY <2>1, <2>2, <2>3, <2>4, <2>5
<1>3. a = [f \in DOMAIN a |-> a[f]] /\ b = [f \in DOMAIN b |-> b[f]]
  BY DEF ResultOf
<1> HIDE DEF a, b
<1>4. a = b
  BY <1>1, <1>2, <1>3
<1>5. QED
  BY <1>4 DEF a, b

\* A place that is left alone holds what it held, whatever is created.
LEMMA SlotKept ==
  ASSUME NEW s \in ResultSlots, SlotTyped(s), slots'[s] = slots[s],
         Len(kinds) \in Nat, Len(kinds') \in Nat, Len(kinds) <= Len(kinds'),
         \A i \in 1 .. Len(kinds) : kinds'[i] = kinds[i]
  PROVE  SlotTyped(s)' /\ Own(s)' = Own(s)
<1>1. Own(s)' = Own(s)
  BY DEF Own, Alive
<1>2. CASE slots[s] = NoResult
  BY <1>1, <1>2 DEF SlotTyped
<1>3. ASSUME NEW is_ok \in BOOLEAN, NEW value \in Seq(Nat),
             /\ slots[s] = ResultOf(s, is_ok, value)
             /\ is_ok /\ s \in VoidSlots => value = << >>
             /\ IsInjective(value)
             /\ \A i \in 1 .. Len(value) :
                  value[i] \in 1 .. Len(kinds) /\ kinds[value[i]] = MemberFor(s, is_ok)
      PROVE  SlotTyped(s)'
  <2>1. \A i \in 1 .. Len(value) :
          value[i] \in 1 .. Len(kinds') /\ kinds'[value[i]] = MemberFor(s, is_ok)
    BY <1>3
  <2>2. QED
    BY <1>3, <2>1 DEF SlotTyped
<1>4. QED
  BY <1>1, <1>2, <1>3 DEF SlotTyped

\* What a living Result is, and that a destructor finds what it holds.
LEMMA LivingSlot ==
  ASSUME ResultInv, NEW s \in ResultSlots, Alive(s)
  PROVE  /\ slots[s].is_ok \in BOOLEAN /\ slots[s].value \in Seq(Nat)
         /\ slots[s] = ResultOf(s, slots[s].is_ok, slots[s].value)
         /\ slots[s].member = MemberFor(s, slots[s].is_ok)
         /\ slots[s].is_ok /\ s \in VoidSlots => slots[s].value = << >>
         /\ IsInjective(slots[s].value)
         /\ \A i \in 1 .. Len(slots[s].value) :
              /\ slots[s].value[i] \in 1 .. Len(kinds)
              /\ kinds[slots[s].value[i]] = MemberFor(s, slots[s].is_ok)
         /\ Own(s) = Range(slots[s].value) /\ Destructed(s) = Own(s)
<1>1. PICK is_ok \in BOOLEAN, value \in Seq(Nat) :
        /\ slots[s] = ResultOf(s, is_ok, value)
        /\ is_ok /\ s \in VoidSlots => value = << >>
        /\ IsInjective(value)
        /\ \A i \in 1 .. Len(value) :
             value[i] \in 1 .. Len(kinds) /\ kinds[value[i]] = MemberFor(s, is_ok)
  BY DEF ResultInv, ResultsTyped, SlotTyped, Alive, NoResult
<1>2. /\ slots[s].is_ok = is_ok /\ slots[s].value = value
      /\ slots[s].member = MemberFor(s, is_ok)
  BY <1>1 DEF ResultOf
<1>3. Own(s) = Range(slots[s].value) /\ Destructed(s) = Own(s)
  BY <1>2 DEF Own, Destructed
<1>4. QED
  BY <1>1, <1>2, <1>3

\* Payloads are handed on: those of s and t and the new ones are then in s, or
\* taken, or destroyed, each once.
LEMMA HandedOn ==
  ASSUME OwnedOnce, NEW s \in ResultSlots, NEW t \in ResultSlots,
         NEW new, NEW stay, NEW out, NEW gone,
         new \cap Payloads = {}, Payloads' = Payloads \cup new,
         taken' = taken \cup out, destroyed' = destroyed \cup gone,
         \A x \in ResultSlots \ {s, t} : Own(x)' = Own(x),
         Own(s)' = stay, s # t => Own(t)' = {},
         stay \cap out = {}, stay \cap gone = {}, out \cap gone = {},
         stay \cup out \cup gone = Own(s) \cup Own(t) \cup new
  PROVE  OwnedOnce'
<1>1. \A x \in ResultSlots : Own(x)' = IF x = s THEN stay
                                       ELSE IF x = t THEN {} ELSE Own(x)
  OBVIOUS
<1>2. \A x \in ResultSlots : Own(x) \subseteq Payloads
  BY DEF OwnedOnce
<1>3. taken \subseteq Payloads /\ destroyed \subseteq Payloads
  BY DEF OwnedOnce
<1>4. ASSUME NEW x \in ResultSlots, NEW y \in ResultSlots, x # y
      PROVE  Own(x)' \cap Own(y)' = {}
  BY <1>1, <1>2, <1>4 DEF OwnedOnce
<1>5. ASSUME NEW x \in ResultSlots
      PROVE  Own(x)' \cap (taken' \cup destroyed') = {}
  BY <1>1, <1>2, <1>3 DEF OwnedOnce
<1>6. taken' \cap destroyed' = {}
  BY <1>2, <1>3 DEF OwnedOnce
<1>7. ASSUME NEW n
      PROVE  (\E x \in ResultSlots : n \in Own(x)') \/ n \in taken' \/ n \in destroyed'
               <=> n \in Payloads \/ n \in new
  <2>1. (\E x \in ResultSlots : n \in Own(x)) \/ n \in taken \/ n \in destroyed
          <=> n \in Payloads
    BY DEF OwnedOnce
  <2>2. (\E x \in ResultSlots : n \in Own(x)')
          <=> n \in stay \/ \E x \in ResultSlots \ {s, t} : n \in Own(x)
    BY <1>1
  <2>3. QED
    BY <2>1, <2>2
<1>8. (UNION {Own(x)' : x \in ResultSlots}) \cup taken' \cup destroyed' = Payloads'
  BY <1>7
<1>9. QED
  BY <1>4, <1>5, <1>6, <1>8 DEF OwnedOnce

\* The numbers of the next n payloads.
New(n) == Len(kinds) + 1 .. Len(kinds) + n

\* A payload that is created is one, and was none.
LEMMA PayloadsNew ==
  ASSUME kinds \in Seq({"ok", "err", "entry"}), NEW n \in Nat,
         NEW kind, n > 0 => kind \in {"ok", "err"}, Creates(kind, n)
  PROVE  New(n) \cap Payloads = {} /\ Payloads' = Payloads \cup New(n)
<1>1. /\ Len(kinds') = Len(kinds) + n
      /\ \A i \in 1 .. Len(kinds) : kinds'[i] = kinds[i]
      /\ \A i \in Len(kinds) + 1 .. Len(kinds) + n : kinds'[i] = kind
  BY CreatesNew
<1>2. Len(kinds) \in Nat
  OBVIOUS
<1>3. New(n) \cap Payloads = {}
  BY <1>2 DEF New, Payloads
<1>4. ASSUME NEW i
      PROVE  i \in Payloads' <=> i \in Payloads \cup New(n)
  <2>1. i \in 1 .. Len(kinds) + n <=> i \in 1 .. Len(kinds) \/ i \in New(n)
    BY <1>2 DEF New
  <2>2. i \in New(n) => n > 0 /\ kinds'[i] = kind
    BY <1>1, <1>2 DEF New
  <2>3. i \in New(n) => kinds'[i] # "entry"
    BY <2>2
  <2>4. QED
    BY <1>1, <2>1, <2>3 DEF Payloads
<1>5. QED
  BY <1>3, <1>4

\* Without a new payload, the kinds stay as they are.
LEMMA CreatesNone ==
  ASSUME kinds \in Seq({"ok", "err", "entry"}), kinds' = kinds, NEW kind
  PROVE  Creates(kind, 0)
<1>1. [i \in 1 .. 0 |-> kind] = << >>
  OBVIOUS
<1>2. kinds \o << >> = kinds
  OBVIOUS
<1>3. QED
  BY <1>1, <1>2 DEF Creates

\* Of all places, only s and t change.
LEMMA OthersKept ==
  ASSUME ResultsTyped, NEW s \in ResultSlots, NEW t \in ResultSlots,
         NEW n \in Nat, NEW kind, n > 0 => kind \in {"ok", "err", "entry"},
         Creates(kind, n),
         slots' = [x \in ResultSlots |-> slots'[x]],
         \A x \in ResultSlots \ {s, t} : slots'[x] = slots[x],
         SlotTyped(s)', SlotTyped(t)'
  PROVE  ResultsTyped' /\ \A x \in ResultSlots \ {s, t} : Own(x)' = Own(x)
<1>1. kinds \in Seq({"ok", "err", "entry"})
  BY DEF ResultsTyped
<1>2. /\ kinds' \in Seq({"ok", "err", "entry"})
      /\ Len(kinds') = Len(kinds) + n
      /\ \A i \in 1 .. Len(kinds) : kinds'[i] = kinds[i]
  BY <1>1, CreatesNew
<1>3. Len(kinds) \in Nat /\ Len(kinds') \in Nat /\ Len(kinds) <= Len(kinds')
  BY <1>1, <1>2
<1>4. ASSUME NEW x \in ResultSlots \ {s, t}
      PROVE  SlotTyped(x)' /\ Own(x)' = Own(x)
  <2>1. SlotTyped(x) /\ slots'[x] = slots[x]
    BY DEF ResultsTyped
  <2>2. QED
    BY <1>2, <1>3, <2>1, SlotKept
<1>5. \A x \in ResultSlots : SlotTyped(x)'
  BY <1>4
<1>6. QED
  BY <1>2, <1>4, <1>5 DEF ResultsTyped

-----------------------------------------------------------------------------
(* What each operation on Results does to the invariant                    *)

\* A Result of new payloads is put where none was, or over one that is
\* destroyed first.
LEMMA Renewed ==
  ASSUME ResultInv, NEW s \in ResultSlots, NEW is_ok \in BOOLEAN, NEW n \in Nat,
         is_ok /\ s \in VoidSlots => n = 0,
         NEW kind, n > 0 => kind = MemberFor(s, is_ok),
         slots' = [slots EXCEPT ![s] = ResultOf(s, is_ok, Fresh(n))],
         Creates(kind, n), taken' = taken, destroyed' = destroyed \cup Own(s)
  PROVE  ResultInv'
<1>1. kinds \in Seq({"ok", "err", "entry"}) /\ Len(kinds) \in Nat
  BY DEF ResultInv, ResultsTyped
<1>2. n > 0 => kind \in {"ok", "err"}
  BY DEF MemberFor
<1>3. /\ Len(kinds') = Len(kinds) + n
      /\ \A i \in Len(kinds) + 1 .. Len(kinds) + n : kinds'[i] = kind
  BY <1>1, <1>2, CreatesNew
<1>4. /\ Fresh(n) \in Seq(Nat) /\ Len(Fresh(n)) = n /\ IsInjective(Fresh(n))
      /\ Range(Fresh(n)) = New(n)
      /\ \A i \in 1 .. n : Fresh(n)[i] = Len(kinds) + i
  BY <1>1, FreshNew DEF New
<1>5. New(n) \cap Payloads = {} /\ Payloads' = Payloads \cup New(n)
  BY <1>1, <1>2, PayloadsNew
<1>6. /\ slots' = [x \in ResultSlots |-> slots'[x]]
      /\ slots'[s] = ResultOf(s, is_ok, Fresh(n))
      /\ \A x \in ResultSlots \ {s} : slots'[x] = slots[x]
  BY DEF ResultInv, ResultsTyped
<1>7. SlotTyped(s)' /\ Own(s)' = New(n)
  <2>1. \A i \in 1 .. Len(Fresh(n)) :
          Fresh(n)[i] \in 1 .. Len(kinds') /\ kinds'[Fresh(n)[i]] = MemberFor(s, is_ok)
    BY <1>1, <1>3, <1>4
  <2>2. is_ok /\ s \in VoidSlots => Fresh(n) = << >>
    BY <1>4
  <2>3. QED
    BY <1>4, <1>6, <2>1, <2>2, SlotFilled
<1>8. ResultsTyped' /\ \A x \in ResultSlots \ {s} : Own(x)' = Own(x)
  <2>1. ResultsTyped
    BY DEF ResultInv
  <2>2. \A x \in ResultSlots \ {s, s} : slots'[x] = slots[x]
    BY <1>6
  <2>3. ResultsTyped' /\ \A x \in ResultSlots \ {s, s} : Own(x)' = Own(x)
    BY <1>2, <1>6, <1>7, <2>1, <2>2, OthersKept
  <2>4. QED
    BY <2>3
<1>9. OwnedOnce'
  <2>1. OwnedOnce /\ taken' = taken \cup {}
    BY DEF ResultInv
  <2>2. Own(s) \cap New(n) = {}
    BY <1>5, <2>1 DEF OwnedOnce
  <2>3. \A x \in ResultSlots \ {s, s} : Own(x)' = Own(x)
    BY <1>8
  <2>4. New(n) \cup {} \cup Own(s) = Own(s) \cup Own(s) \cup New(n)
    OBVIOUS
  <2>5. New(n) \cap {} = {} /\ New(n) \cap Own(s) = {} /\ {} \cap Own(s) = {}
    BY <2>2
  <2>6. QED
    BY <1>5, <1>7, <2>1, <2>3, <2>4, <2>5, HandedOn
<1>10. QED
  BY <1>8, <1>9 DEF ResultInv

\* A Result is moved to another place, where none was or one that is destroyed.
LEMMA MovedOver ==
  ASSUME ResultInv, NEW s \in ResultSlots, NEW t \in ResultSlots, s # t,
         Alive(t), SameType(s, t), Moved(s, t),
         kinds' = kinds, taken' = taken, destroyed' = destroyed \cup Own(s)
  PROVE  ResultInv'
<1> DEFINE ok == slots[t].is_ok
           value == slots[t].value
<1>1. /\ ok \in BOOLEAN /\ value \in Seq(Nat) /\ slots[t] = ResultOf(t, ok, value)
      /\ ok /\ t \in VoidSlots => value = << >>
      /\ IsInjective(value) /\ Own(t) = Range(value)
      /\ \A i \in 1 .. Len(value) :
           value[i] \in 1 .. Len(kinds) /\ kinds[value[i]] = MemberFor(t, ok)
  BY LivingSlot
<1>2. MemberFor(s, ok) = MemberFor(t, ok) /\ (s \in VoidSlots <=> t \in VoidSlots)
  BY DEF SameType, MemberFor
<1>3. /\ slots' = [x \in ResultSlots |-> slots'[x]]
      /\ slots'[s] = ResultOf(s, ok, value)
      /\ slots'[t] = [slots[t] EXCEPT !.value = << >>]
      /\ \A x \in ResultSlots \ {s, t} : slots'[x] = slots[x]
  BY DEF ResultInv, ResultsTyped, Moved
<1> HIDE DEF ok, value
<1>4. slots'[t] = ResultOf(t, ok, << >>)
  BY <1>1, <1>3, Emptied
<1>5. SlotTyped(s)' /\ Own(s)' = Own(t)
  BY <1>1, <1>2, <1>3, SlotFilled
<1>6. SlotTyped(t)' /\ Own(t)' = {}
  BY <1>1, <1>4, SlotEmptied
<1>7. kinds \in Seq({"ok", "err", "entry"}) /\ ResultsTyped /\ OwnedOnce
  BY DEF ResultInv, ResultsTyped
<1>8. ResultsTyped' /\ \A x \in ResultSlots \ {s, t} : Own(x)' = Own(x)
  <2>1. Creates("ok", 0)
    BY <1>7, CreatesNone
  <2>2. QED
    BY <1>3, <1>5, <1>6, <1>7, <2>1, OthersKept
<1>9. OwnedOnce'
  <2>1. Payloads' = Payloads \cup {} /\ {} \cap Payloads = {}
    BY DEF Payloads
  <2>2. taken' = taken \cup {}
    OBVIOUS
  <2>3. Own(t) \cap Own(s) = {}
    BY <1>7 DEF OwnedOnce
  <2>4. /\ Own(t) \cap {} = {} /\ {} \cap Own(s) = {}
        /\ Own(t) \cup {} \cup Own(s) = Own(s) \cup Own(t) \cup {}
    OBVIOUS
  <2>5. /\ OwnedOnce /\ destroyed' = destroyed \cup Own(s)
        /\ Own(s)' = Own(t) /\ Own(t)' = {}
        /\ \A x \in ResultSlots \ {s, t} : Own(x)' = Own(x)
    BY <1>5, <1>6, <1>7, <1>8
  <2>6. QED
    BY ONLY <2>1, <2>2, <2>3, <2>4, <2>5, HandedOn, ZenonT(60)
<1>10. QED
  BY <1>8, <1>9 DEF ResultInv

\* A Result ends, and what it holds ends with it.
LEMMA Ended ==
  ASSUME ResultInv, NEW s \in ResultSlots, EndResult(s)
  PROVE  ResultInv'
<1>1. Alive(s) /\ Destructed(s) = Own(s)
  BY LivingSlot DEF EndResult
<1>2. /\ slots' = [x \in ResultSlots |-> slots'[x]] /\ slots'[s] = NoResult
      /\ \A x \in ResultSlots \ {s, s} : slots'[x] = slots[x]
      /\ destroyed' = destroyed \cup Own(s) /\ taken' = taken \cup {}
      /\ kinds' = kinds
  BY <1>1 DEF ResultInv, ResultsTyped, EndResult
<1>3. SlotTyped(s)' /\ Own(s)' = {}
  BY <1>2 DEF SlotTyped, Own, Alive, NoResult
<1>4. kinds \in Seq({"ok", "err", "entry"}) /\ ResultsTyped /\ OwnedOnce
  BY DEF ResultInv, ResultsTyped
<1>5. ResultsTyped' /\ \A x \in ResultSlots \ {s, s} : Own(x)' = Own(x)
  <2>1. Creates("ok", 0)
    BY <1>2, <1>4, CreatesNone
  <2>2. QED
    BY <1>2, <1>3, <1>4, <2>1, OthersKept
<1>6. OwnedOnce'
  <2>1. Payloads' = Payloads \cup {} /\ {} \cap Payloads = {}
    BY <1>2 DEF Payloads
  <2>2. /\ {} \cap {} = {} /\ {} \cap Own(s) = {}
        /\ {} \cup {} \cup Own(s) = Own(s) \cup Own(s) \cup {}
    OBVIOUS
  <2>3. QED
    BY <1>2, <1>3, <1>4, <1>5, <2>1, <2>2, HandedOn
<1>7. QED
  BY <1>5, <1>6 DEF ResultInv

\* What a Result holds is taken out, and n new payloads are destroyed.
LEMMA TakenOut ==
  ASSUME ResultInv, NEW s \in ResultSlots, Alive(s), Taken(s),
         NEW n \in Nat, Creates("ok", n), destroyed' = destroyed \cup New(n)
  PROVE  ResultInv'
<1>1. /\ slots[s].is_ok \in BOOLEAN
      /\ slots[s] = ResultOf(s, slots[s].is_ok, slots[s].value)
      /\ Own(s) = Range(slots[s].value)
  BY LivingSlot
<1>2. /\ slots' = [x \in ResultSlots |-> slots'[x]]
      /\ slots'[s] = [slots[s] EXCEPT !.value = << >>]
      /\ \A x \in ResultSlots \ {s, s} : slots'[x] = slots[x]
      /\ taken' = taken \cup Own(s)
  BY <1>1 DEF ResultInv, ResultsTyped, Taken
<1>3. slots'[s] = ResultOf(s, slots[s].is_ok, << >>)
  BY <1>1, <1>2, Emptied
<1>4. SlotTyped(s)' /\ Own(s)' = {}
  BY <1>1, <1>3, SlotEmptied
<1>5. kinds \in Seq({"ok", "err", "entry"}) /\ ResultsTyped /\ OwnedOnce
  BY DEF ResultInv, ResultsTyped
<1>6. ResultsTyped' /\ \A x \in ResultSlots \ {s, s} : Own(x)' = Own(x)
  BY <1>2, <1>4, <1>5, OthersKept
<1>7. New(n) \cap Payloads = {} /\ Payloads' = Payloads \cup New(n)
  BY <1>5, PayloadsNew
<1>8. OwnedOnce'
  <2>1. Own(s) \cap New(n) = {}
    BY <1>5, <1>7 DEF OwnedOnce
  <2>2. /\ {} \cap Own(s) = {} /\ {} \cap New(n) = {}
        /\ {} \cup Own(s) \cup New(n) = Own(s) \cup Own(s) \cup New(n)
    OBVIOUS
  <2>3. QED
    BY <1>2, <1>4, <1>5, <1>6, <1>7, <2>1, <2>2, HandedOn
<1>9. QED
  BY <1>6, <1>8 DEF ResultInv

\* Nothing is done to a Result.
LEMMA ResultsUntouched ==
  ASSUME ResultInv, UNCHANGED resultVars
  PROVE  ResultInv'
<1>1. slots' = slots /\ kinds' = kinds /\ taken' = taken /\ destroyed' = destroyed
  BY DEF resultVars
<1>2. \A s \in ResultSlots : (SlotTyped(s)' <=> SlotTyped(s)) /\ Own(s)' = Own(s)
  BY <1>1 DEF SlotTyped, Own, Alive
<1>3. ResultsTyped'
  BY <1>1, <1>2 DEF ResultInv, ResultsTyped
<1>4. OwnedOnce'
  BY <1>1, <1>2 DEF ResultInv, OwnedOnce, Payloads
<1>5. QED
  BY <1>3, <1>4 DEF ResultInv

\* What unwrapping hands out is what the Result held.
LEMMA Unwrapped ==
  ASSUME ResultInv, NEW s \in ResultSlots, Alive(s), Taken(s),
         kinds' = kinds, destroyed' = destroyed
  PROVE  ResultInv'
<1>1. kinds \in Seq({"ok", "err", "entry"}) /\ Len(kinds) \in Nat
  BY DEF ResultInv, ResultsTyped
<1>2. Creates("ok", 0)
  BY <1>1, CreatesNone
<1>3. destroyed' = destroyed \cup New(0)
  BY <1>1 DEF New
<1>4. QED
  BY <1>2, <1>3, TakenOut

\* A Result is constructed.
LEMMA ConstructKeeps ==
  ASSUME ResultInv, NEW s \in ResultSlots, NEW n \in Nat,
         ConstructOk(s, n) \/ ConstructErr(s, n)
  PROVE  ResultInv'
<1>1. Own(s) = {}
  BY DEF ConstructOk, ConstructErr, Own
<1>2. taken' = taken /\ destroyed' = destroyed \cup Own(s)
  BY <1>1 DEF ConstructOk, ConstructErr
<1>3. CASE ConstructOk(s, n)
  <2>1. /\ s \in VoidSlots => n = 0
        /\ slots' = [slots EXCEPT ![s] = ResultOf(s, TRUE, Fresh(n))]
        /\ Creates("ok", n)
    BY <1>3 DEF ConstructOk
  <2>2. n > 0 => "ok" = MemberFor(s, TRUE)
    BY <2>1 DEF MemberFor
  <2>3. QED
    BY <1>2, <2>1, <2>2, Renewed
<1>4. CASE ConstructErr(s, n)
  <2>1. /\ slots' = [slots EXCEPT ![s] = ResultOf(s, FALSE, Fresh(n))]
        /\ Creates("err", n)
    BY <1>4 DEF ConstructErr
  <2>2. n > 0 => "err" = MemberFor(s, FALSE)
    BY DEF MemberFor
  <2>3. QED
    BY <1>2, <2>1, <2>2, Renewed
<1>5. QED
  BY <1>3, <1>4

\* A Result is moved from.
LEMMA MoveKeeps ==
  ASSUME ResultInv, NEW s \in ResultSlots, NEW t \in ResultSlots,
         MoveConstruct(s, t) \/ MoveAssign(s, t)
  PROVE  ResultInv'
<1>1. CASE MoveConstruct(s, t)
  <2>1. s # t /\ Alive(t) /\ SameType(s, t) /\ Moved(s, t)
    BY <1>1 DEF MoveConstruct
  <2>2. Own(s) = {}
    BY <1>1 DEF MoveConstruct, Own
  <2>3. kinds' = kinds /\ taken' = taken /\ destroyed' = destroyed \cup Own(s)
    BY <1>1, <2>2 DEF MoveConstruct
  <2>4. QED
    BY <2>1, <2>3, MovedOver
<1>2. CASE MoveAssign(s, t) /\ s # t
  <2>1. Alive(s) /\ Alive(t) /\ SameType(s, t) /\ Moved(s, t)
    BY <1>2 DEF MoveAssign
  <2>2. Destructed(s) = Own(s)
    BY <2>1, LivingSlot
  <2>3. kinds' = kinds /\ taken' = taken /\ destroyed' = destroyed \cup Own(s)
    BY <1>2, <2>2 DEF MoveAssign
  <2>4. QED
    BY <1>2, <2>1, <2>3, MovedOver
<1>3. CASE MoveAssign(s, t) /\ s = t
  <2>1. UNCHANGED resultVars
    BY <1>3 DEF MoveAssign, resultVars
  <2>2. QED
    BY <2>1, ResultsUntouched
<1>4. QED
  BY <1>1, <1>2, <1>3

\* A Result is copied.
LEMMA CopyKeeps ==
  ASSUME ResultInv, NEW s \in ResultSlots, NEW t \in ResultSlots,
         CopyConstruct(s, t) \/ CopyAssign(s, t)
  PROVE  ResultInv'
<1>1. ASSUME Alive(t), SameType(s, t), Copied(s, t),
             taken' = taken, destroyed' = destroyed \cup Own(s)
      PROVE  ResultInv'
  <2> DEFINE ok == slots[t].is_ok
             n == Len(slots[t].value)
             kind == slots[t].member
  <2>1. /\ ok \in BOOLEAN /\ slots[t].value \in Seq(Nat)
        /\ kind = MemberFor(t, ok)
        /\ ok /\ t \in VoidSlots => slots[t].value = << >>
    BY <1>1, LivingSlot
  <2>2. n \in Nat /\ (ok /\ t \in VoidSlots => n = 0)
    BY <2>1
  <2>3. /\ slots' = [slots EXCEPT ![s] = ResultOf(s, ok, Fresh(n))]
        /\ Creates(kind, n)
    BY <1>1 DEF Copied
  <2> HIDE DEF ok, n, kind
  <2>4. kind = MemberFor(s, ok) /\ (ok /\ s \in VoidSlots => n = 0)
    BY <1>1, <2>1, <2>2 DEF SameType, MemberFor
  <2>5. QED
    BY <1>1, <2>1, <2>2, <2>3, <2>4, Renewed
<1>2. CASE CopyConstruct(s, t)
  <2>1. Own(s) = {}
    BY <1>2 DEF CopyConstruct, Own
  <2>2. /\ Alive(t) /\ SameType(s, t) /\ Copied(s, t)
        /\ taken' = taken /\ destroyed' = destroyed \cup Own(s)
    BY <1>2, <2>1 DEF CopyConstruct
  <2>3. QED
    BY <1>1, <2>2
<1>3. CASE CopyAssign(s, t) /\ s # t
  <2>1. Alive(s) /\ Alive(t) /\ SameType(s, t) /\ Copied(s, t)
    BY <1>3 DEF CopyAssign
  <2>2. Destructed(s) = Own(s)
    BY <2>1, LivingSlot
  <2>3. taken' = taken /\ destroyed' = destroyed \cup Own(s)
    BY <1>3, <2>2 DEF CopyAssign
  <2>4. QED
    BY <1>1, <2>1, <2>3
<1>4. CASE CopyAssign(s, t) /\ s = t
  <2>1. UNCHANGED resultVars
    BY <1>4 DEF CopyAssign, resultVars
  <2>2. QED
    BY <2>1, ResultsUntouched
<1>5. QED
  BY <1>2, <1>3, <1>4

\* A Result is unwrapped.
LEMMA UnwrapKeeps ==
  ASSUME ResultInv, NEW s \in ResultSlots,
         Unwrap(s) \/ UnwrapErr(s) \/ UnwrapOr(s, 1)
  PROVE  ResultInv'
<1>1. CASE Unwrap(s) \/ UnwrapErr(s)
  BY <1>1, Unwrapped DEF Unwrap, UnwrapErr
<1>2. CASE UnwrapOr(s, 1)
  <2>1. kinds \in Seq({"ok", "err", "entry"}) /\ ResultsTyped /\ OwnedOnce
    BY DEF ResultInv, ResultsTyped
  <2>2. Range(Fresh(1)) = New(1)
    BY <2>1, FreshNew DEF New
  <2>3. Alive(s) /\ Creates("ok", 1)
    BY <1>2 DEF UnwrapOr
  <2>4. CASE slots[s].is_ok
    <3>1. Taken(s) /\ destroyed' = destroyed \cup New(1)
      BY <1>2, <2>2, <2>4 DEF UnwrapOr
    <3>2. QED
      BY <2>3, <3>1, TakenOut
  <2>5. CASE ~ slots[s].is_ok
    <3>1. taken' = taken \cup New(1) /\ slots' = slots /\ destroyed' = destroyed \cup {}
      BY <1>2, <2>2, <2>5 DEF UnwrapOr
    <3>2. /\ slots' = [x \in ResultSlots |-> slots'[x]] /\ slots'[s] = slots[s]
          /\ \A x \in ResultSlots \ {s, s} : slots'[x] = slots[x]
      BY <2>1, <3>1 DEF ResultsTyped
    <3>3. /\ Len(kinds') = Len(kinds) + 1 /\ Len(kinds) \in Nat
          /\ \A i \in 1 .. Len(kinds) : kinds'[i] = kinds[i]
      BY <2>1, <2>3, CreatesNew
    <3>4. SlotTyped(s)' /\ Own(s)' = Own(s)
      BY <2>1, <3>2, <3>3, SlotKept DEF ResultsTyped
    <3>5. ResultsTyped' /\ \A x \in ResultSlots \ {s, s} : Own(x)' = Own(x)
      BY <2>1, <2>3, <3>2, <3>4, OthersKept
    <3>6. New(1) \cap Payloads = {} /\ Payloads' = Payloads \cup New(1)
      BY <2>1, <2>3, PayloadsNew
    <3>7. Own(s) \cap New(1) = {}
      BY <2>1, <3>6 DEF OwnedOnce
    <3>8. /\ Own(s) \cap {} = {} /\ New(1) \cap {} = {}
          /\ Own(s) \cup New(1) \cup {} = Own(s) \cup Own(s) \cup New(1)
      OBVIOUS
    <3>9. OwnedOnce'
      BY <2>1, <3>1, <3>4, <3>5, <3>6, <3>7, <3>8, HandedOn
    <3>10. QED
      BY <3>5, <3>9 DEF ResultInv
  <2>6. QED
    BY <2>4, <2>5
<1>3. QED
  BY <1>1, <1>2

\* An entry that is written by hand is a payload of no Result.
LEMMA EntryKeeps ==
  ASSUME ResultInv, Creates("entry", 1), UNCHANGED <<slots, taken, destroyed>>
  PROVE  ResultInv'
<1>1. kinds \in Seq({"ok", "err", "entry"}) /\ ResultsTyped /\ OwnedOnce
  BY DEF ResultInv, ResultsTyped
<1>2. /\ kinds' \in Seq({"ok", "err", "entry"}) /\ Len(kinds') = Len(kinds) + 1
      /\ Len(kinds) \in Nat /\ Len(kinds') \in Nat /\ Len(kinds) <= Len(kinds')
      /\ \A i \in 1 .. Len(kinds) : kinds'[i] = kinds[i]
      /\ kinds'[Len(kinds) + 1] = "entry"
  BY <1>1, CreatesNew
<1>3. \A s \in ResultSlots : SlotTyped(s)' /\ Own(s)' = Own(s)
  BY <1>1, <1>2, SlotKept DEF ResultsTyped
<1>4. ResultsTyped'
  BY <1>1, <1>2, <1>3 DEF ResultsTyped
<1>5. Payloads' = Payloads
  BY <1>2 DEF Payloads
<1>6. OwnedOnce'
  BY <1>1, <1>3, <1>5 DEF OwnedOnce
<1>7. QED
  BY <1>4, <1>6 DEF ResultInv

-----------------------------------------------------------------------------
(* Payloads of results: the theorem                                        *)

LEMMA ResultsStart == Init => ResultInv
<1> SUFFICES ASSUME Init PROVE ResultInv
  OBVIOUS
<1>1. /\ slots = [s \in ResultSlots |-> NoResult] /\ kinds = << >>
      /\ taken = {} /\ destroyed = {}
  BY DEF Init
<1>2. ResultsTyped
  BY <1>1 DEF ResultsTyped, SlotTyped
<1>3. \A s \in ResultSlots : Own(s) = {}
  BY <1>1 DEF Own, Alive, NoResult
<1>4. Payloads = {}
  BY <1>1 DEF Payloads
<1>5. OwnedOnce
  BY <1>1, <1>3, <1>4 DEF OwnedOnce
<1>6. QED
  BY <1>2, <1>5 DEF ResultInv

\* Every step keeps the payloads where the invariant has them.
LEMMA ResultsGoOn == ResultInv /\ [Next]_vars => ResultInv'
<1> SUFFICES ASSUME ResultInv, [Next]_vars PROVE ResultInv'
  OBVIOUS
<1>1. {"init", "tokens", "parsed"} \subseteq ResultSlots
      /\ \A n \in {MaxEntries, MaxErrors} : n \in Nat
  BY DiagnosticsAssumption
<1>2. CASE Builds
  <2>1. Creates("entry", 1) /\ UNCHANGED <<slots, taken, destroyed>>
    BY <1>2 DEF Builds, Working, NoResults, Build
  <2>2. QED
    BY <2>1, EntryKeeps
<1>3. CASE Begins \/ AddsLabel \/ Annotates \/ Pushes \/ Clears \/ Formats
            \/ Unloads \/ Configures \/ UNCHANGED vars
  <2>1. UNCHANGED resultVars
    BY <1>3 DEF Begins, AddsLabel, Annotates, Pushes, Clears, Formats, Unloads,
                Configures, vars, Working, NoResults, resultVars
  <2>2. QED
    BY <2>1, ResultsUntouched
<1>4. CASE Results
  <2>1. \/ \E s \in ResultSlots : EndResult(s) \/ Unwrap(s) \/ UnwrapErr(s)
        \/ \E s, t \in ResultSlots : MoveConstruct(s, t) \/ MoveAssign(s, t)
        \/ \E s \in ResultSlots, n \in 0 .. 2 : ConstructOk(s, n) \/ ConstructErr(s, n)
        \/ \E s, t \in ResultSlots : CopyConstruct(s, t) \/ CopyAssign(s, t)
        \/ \E s \in ResultSlots : UnwrapOr(s, 1)
    BY <1>4 DEF Results
  <2>2. QED
    BY <2>1, Ended, UnwrapKeeps, MoveKeeps, ConstructKeeps, CopyKeeps
<1>5. CASE Pipeline
  <2>1. CASE LexerInitInvalid \/ PushConverted \/ UnloadSource \/ PrintErrors
    <3>1. UNCHANGED resultVars
      BY <2>1 DEF LexerInitInvalid, PushConverted, UnloadSource, PrintErrors
    <3>2. QED
      BY <3>1, ResultsUntouched
  <2>2. CASE LexerInitOk \/ LexerInitNotFound
    BY <1>1, <2>2, ConstructKeeps DEF LexerInitOk, LexerInitNotFound
  <2>3. CASE TokenizeOk \/ TokenizeErr
    <3>1. CASE TokenizeOk
      <4>1. ConstructOk("tokens", 1)
        BY <3>1 DEF TokenizeOk
      <4>2. QED
        BY <1>1, <4>1, ConstructKeeps
    <3>2. CASE TokenizeErr
      <4>1. PICK n \in 1 .. MaxErrors : ConstructErr("tokens", n)
        BY <3>2 DEF TokenizeErr
      <4>2. n \in Nat
        BY <1>1
      <4>3. QED
        BY <1>1, <4>1, <4>2, ConstructKeeps
    <3>3. QED
      BY <2>3, <3>1, <3>2
  <2>4. CASE ParseOk \/ ParseErr
    <3>1. CASE ParseOk
      <4>1. ConstructOk("parsed", 1)
        BY <3>1 DEF ParseOk
      <4>2. QED
        BY <1>1, <4>1, ConstructKeeps
    <3>2. CASE ParseErr
      <4>1. PICK n \in 1 .. MaxErrors : ConstructErr("parsed", n)
        BY <3>2 DEF ParseErr
      <4>2. n \in Nat
        BY <1>1
      <4>3. QED
        BY <1>1, <4>1, <4>2, ConstructKeeps
    <3>3. QED
      BY <2>4, <3>1, <3>2
  <2>5. CASE PushInitError \/ TakeErrors \/ TakeTokens \/ PushParseErrors \/ TakeContext
    <3>1. \E s \in {"init", "tokens", "parsed"} : Unwrap(s) \/ UnwrapErr(s)
      BY <2>5 DEF PushInitError, TakeErrors, TakeTokens, PushParseErrors, TakeContext
    <3>2. QED
      BY <1>1, <3>1, UnwrapKeeps
  <2>6. CASE Return
    <3>1. \E s \in {"init", "tokens", "parsed"} : EndResult(s)
      BY <2>6 DEF Return
    <3>2. QED
      BY <1>1, <3>1, Ended
  <2>7. QED
    BY <1>5, <2>1, <2>2, <2>3, <2>4, <2>5, <2>6 DEF Pipeline
<1>6. QED
  BY <1>2, <1>3, <1>4, <1>5 DEF Next

\* However results are constructed, copied, moved, assigned to themselves or
\* over one another, unwrapped and destroyed, and wherever the pipeline hands
\* them: each payload is in exactly one Result, or was handed out once, or
\* destroyed once, and the flag names the member of the union that holds one.
THEOREM PayloadsCorrect == Spec => []PayloadsOwned
<1>1. Init => ResultInv
  BY ResultsStart
<1>2. ResultInv /\ [Next]_vars => ResultInv'
  BY ResultsGoOn
<1>3. ResultInv => PayloadsOwned
  BY InvOwned
<1>4. QED
  BY <1>1, <1>2, <1>3, PTL DEF Spec

-----------------------------------------------------------------------------
(* Entries: the inductive invariant                                        *)

\* The payloads that are errors, taken out of their Result or not.
Errs == {n \in DOMAIN kinds : kinds[n] = "err"}

Injective(s) == s \in Seq(Nat) /\ IsInjective(s)

Apart ==
  /\ Range(built) \cap Range(entries) = {} /\ Range(built) \cap Range(shown) = {}
  /\ Range(entries) \cap Range(shown) = {}
  /\ cleared \cap Range(built) = {} /\ cleared \cap Range(entries) = {}
  /\ cleared \cap Range(shown) = {}

\* Each entry is in one place, and all that were pushed are known in order.
EntriesOnce ==
  /\ Injective(built) /\ Injective(entries) /\ Injective(shown) /\ Injective(pushed)
  /\ IsFiniteSet(cleared)
  /\ Apart
  /\ Range(built) \cup Range(pushed) = Built
  /\ Range(pushed) = Range(entries) \cup Range(shown) \cup cleared

\* What the last call has returned is right as long as nothing is pushed.
PageRight ==
  /\ page.kind = "batch" => InPushOrder(page.numbers) /\ entries = << >>
  /\ page.kind = "pop" =>
       \A n \in Range(entries) : Position(n) < Position(page.numbers[1])

\* The vectors of the driver, phase by phase.
VectorsAt ==
  /\ phase # "convert" => built = << >>
  /\ phase \notin {"convert", "report", "return"} => pushed = << >>
  /\ phase # "return" => shown = << >>
  /\ phase = "return" => entries = << >> /\ InPushOrder(shown)

\* The errors of the compilation, phase by phase.
ErrorsAt ==
  /\ phase \in {"init", "tokenize", "tokenized", "parse"} => Errs = {}
  /\ phase = "init_failed" => Errs = Own("init")
  /\ phase = "tokens_failed" => Errs = Own("tokens")
  /\ phase \in {"parsed", "unloaded"} =>
       Alive("parsed") /\ Errs = IF slots["parsed"].is_ok THEN {} ELSE Own("parsed")
  /\ phase \in {"convert", "report", "return"} => Errs \subseteq taken

PipelineInv ==
  /\ \A n \in DOMAIN kinds : kinds[n] # "entry"
  /\ cleared = {}
  /\ VectorsAt
  /\ ErrorsAt

EntriesInv ==
  /\ role \in {"render", "engine", "pipeline", "result"}
  /\ role # "result" => EntriesOnce /\ InPushOrder(entries) /\ PageRight
  /\ role = "pipeline" => PipelineInv

-----------------------------------------------------------------------------
(* Sequences that hold each number once                                    *)

LEMMA RangeIs ==
  ASSUME NEW s \in Seq(Nat)
  PROVE  /\ \A i \in 1 .. Len(s) : s[i] \in Range(s)
         /\ \A n \in Range(s) : \E i \in 1 .. Len(s) : s[i] = n
         /\ Range(s) \subseteq Nat
BY DEF Range

LEMMA NoneInEmpty == Injective(<< >>) /\ Range(<< >>) = {}
BY DEF Injective, IsInjective, Range

LEMMA EmptyIs ==
  ASSUME NEW s \in Seq(Nat)
  PROVE  s = << >> <=> Len(s) = 0
<1>1. s = << >> => Len(s) = 0
  OBVIOUS
<1>2. Len(s) = 0 => s = << >>
  OBVIOUS
<1>3. QED
  BY <1>1, <1>2

LEMMA RangeEmpty ==
  ASSUME NEW s \in Seq(Nat), Range(s) = {}
  PROVE  s = << >>
<1>1. Len(s) \in Nat /\ \A i \in 1 .. Len(s) : FALSE
  BY RangeIs
<1>2. Len(s) > 0 => 1 \in 1 .. Len(s)
  BY <1>1
<1>3. Len(s) = 0
  BY <1>1, <1>2
<1>4. QED
  BY <1>3, EmptyIs

LEMMA InjectiveIs ==
  ASSUME NEW s, Injective(s)
  PROVE  /\ s \in Seq(Nat) /\ Len(s) \in Nat /\ DOMAIN s = 1 .. Len(s)
         /\ \A i, j \in 1 .. Len(s) : s[i] = s[j] => i = j
<1>1. s \in Seq(Nat) /\ DOMAIN s = 1 .. Len(s)
  BY DEF Injective
<1>2. Len(s) \in Nat
  BY <1>1
<1>3. \A i, j \in DOMAIN s : s[i] = s[j] => i = j
  BY DEF Injective, IsInjective
<1>4. QED
  BY <1>1, <1>2, <1>3

LEMMA OneInjective ==
  ASSUME NEW n \in Nat
  PROVE  Injective(<<n>>) /\ Range(<<n>>) = {n}
<1>1. <<n>> \in Seq(Nat) /\ DOMAIN <<n>> = 1 .. 1 /\ <<n>>[1] = n
  OBVIOUS
<1>2. IsInjective(<<n>>)
  BY <1>1 DEF IsInjective
<1>3. Range(<<n>>) = {n}
  BY <1>1 DEF Range
<1>4. QED
  BY <1>1, <1>2, <1>3 DEF Injective

\* What is appended comes behind.
LEMMA Appended ==
  ASSUME NEW s, NEW t, Injective(s), Injective(t), Range(s) \cap Range(t) = {}
  PROVE  /\ Injective(s \o t) /\ Range(s \o t) = Range(s) \cup Range(t)
         /\ Len(s \o t) = Len(s) + Len(t)
         /\ \A i \in 1 .. Len(s) : (s \o t)[i] = s[i]
         /\ \A i \in 1 .. Len(t) : (s \o t)[Len(s) + i] = t[i]
<1>1. s \in Seq(Nat) /\ t \in Seq(Nat) /\ Len(s) \in Nat /\ Len(t) \in Nat
  BY InjectiveIs
<1> DEFINE u == s \o t
<1>2. /\ u \in Seq(Nat) /\ Len(u) = Len(s) + Len(t) /\ DOMAIN u = 1 .. Len(s) + Len(t)
      /\ \A i \in 1 .. Len(s) + Len(t) : u[i] = IF i <= Len(s) THEN s[i] ELSE t[i - Len(s)]
  BY <1>1
<1> HIDE DEF u
<1>3. \A i \in 1 .. Len(s) : u[i] = s[i]
  BY <1>1, <1>2
<1>4. ASSUME NEW i \in 1 .. Len(t) PROVE u[Len(s) + i] = t[i]
  <2>1. /\ Len(s) + i \in 1 .. Len(s) + Len(t) /\ ~ (Len(s) + i <= Len(s))
        /\ Len(s) + i - Len(s) = i
    BY <1>1
  <2>2. QED
    BY <1>2, <2>1
<1>5. \A i \in 1 .. Len(s) + Len(t) :
        \/ i \in 1 .. Len(s) /\ u[i] = s[i] /\ u[i] \in Range(s)
        \/ i - Len(s) \in 1 .. Len(t) /\ u[i] = t[i - Len(s)] /\ u[i] \in Range(t)
  BY <1>1, <1>2, RangeIs
<1>6. ASSUME NEW i \in DOMAIN u, NEW j \in DOMAIN u, u[i] = u[j]
      PROVE  i = j
  <2>1. i \in 1 .. Len(s) + Len(t) /\ j \in 1 .. Len(s) + Len(t)
    BY <1>2
  <2>2. CASE i \in 1 .. Len(s) /\ u[i] = s[i] /\ u[i] \in Range(s)
    <3>1. j \in 1 .. Len(s) /\ u[j] = s[j]
      BY <1>5, <1>6, <2>1, <2>2
    <3>2. QED
      BY <1>6, <2>2, <3>1, InjectiveIs
  <2>3. CASE i - Len(s) \in 1 .. Len(t) /\ u[i] = t[i - Len(s)] /\ u[i] \in Range(t)
    <3>1. j - Len(s) \in 1 .. Len(t) /\ u[j] = t[j - Len(s)]
      BY <1>5, <1>6, <2>1, <2>3
    <3>2. i - Len(s) = j - Len(s)
      BY <1>6, <2>3, <3>1, InjectiveIs
    <3>3. QED
      BY <1>1, <2>1, <3>2
  <2>4. QED
    BY <1>5, <2>1, <2>2, <2>3
<1>7. Range(u) = Range(s) \cup Range(t)
  <2>1. ASSUME NEW n PROVE n \in Range(u) => n \in Range(s) \cup Range(t)
    BY <1>2, <1>5, RangeIs
  <2>2. ASSUME NEW n \in Range(s) PROVE n \in Range(u)
    <3>1. PICK i \in 1 .. Len(s) : s[i] = n
      BY <1>1, RangeIs
    <3>2. i \in 1 .. Len(u)
      BY <1>1, <1>2
    <3>3. QED
      BY <1>2, <1>3, <3>1, <3>2, RangeIs
  <2>3. ASSUME NEW n \in Range(t) PROVE n \in Range(u)
    <3>1. PICK i \in 1 .. Len(t) : t[i] = n
      BY <1>1, RangeIs
    <3>2. Len(s) + i \in 1 .. Len(u)
      BY <1>1, <1>2
    <3>3. QED
      BY <1>2, <1>4, <3>1, <3>2, RangeIs
  <2>4. QED
    BY <2>1, <2>2, <2>3
<1>8. Injective(u)
  BY <1>2, <1>6 DEF Injective, IsInjective
<1>9. QED
  BY <1>2, <1>3, <1>4, <1>7, <1>8 DEF u

\* The first is taken out.
LEMMA HeadTaken ==
  ASSUME NEW s, Injective(s), s # << >>
  PROVE  /\ Head(s) \in Nat /\ Injective(Tail(s))
         /\ Head(s) \notin Range(Tail(s)) /\ Range(s) = Range(Tail(s)) \cup {Head(s)}
         /\ Len(s) = 1 <=> Tail(s) = << >>
<1>1. s \in Seq(Nat) /\ Len(s) \in Nat \ {0} /\ DOMAIN s = 1 .. Len(s)
      /\ \A i, j \in 1 .. Len(s) : s[i] = s[j] => i = j
  BY InjectiveIs, EmptyIs
<1> DEFINE t == Tail(s)
<1>2. /\ t \in Seq(Nat) /\ Len(t) = Len(s) - 1 /\ DOMAIN t = 1 .. Len(s) - 1
      /\ \A i \in 1 .. Len(s) - 1 : t[i] = s[i + 1]
      /\ Head(s) = s[1] /\ s[1] \in Nat
  BY <1>1
<1>3. Len(s) = 1 <=> t = << >>
  <2>1. t \in Seq(Nat) /\ Len(t) = Len(s) - 1
    BY <1>2
  <2>2. t = << >> <=> Len(t) = 0
    BY <2>1, EmptyIs
  <2> HIDE DEF t
  <2>3. QED
    BY <1>1, <2>1, <2>2
<1> HIDE DEF t
<1>4. \A i \in 1 .. Len(s) - 1 : i + 1 \in 1 .. Len(s) /\ i + 1 # 1
  BY <1>1
<1>5. IsInjective(t)
  <2>1. SUFFICES ASSUME NEW i \in 1 .. Len(s) - 1, NEW j \in 1 .. Len(s) - 1, t[i] = t[j]
                 PROVE  i = j
    BY <1>2 DEF IsInjective
  <2>2. i + 1 = j + 1
    BY <1>1, <1>2, <1>4, <2>1
  <2>3. QED
    BY <1>1, <2>2
<1>6. s[1] \notin Range(t)
  <2>1. ASSUME NEW i \in 1 .. Len(s) - 1 PROVE t[i] # s[1]
    BY <1>1, <1>2, <1>4
  <2>2. QED
    BY <1>2, <2>1, RangeIs
<1>7. ASSUME NEW n PROVE n \in Range(s) <=> n \in Range(t) \cup {s[1]}
  <2>1. ASSUME n \in Range(s) PROVE n \in Range(t) \cup {s[1]}
    <3>1. PICK i \in 1 .. Len(s) : s[i] = n
      BY <1>1, <2>1, RangeIs
    <3>2. i = 1 \/ i - 1 \in 1 .. Len(s) - 1
      BY <1>1
    <3>3. i - 1 \in 1 .. Len(s) - 1 => t[i - 1] = n
      BY <1>1, <1>2, <3>1
    <3>4. QED
      BY <1>2, <3>1, <3>2, <3>3, RangeIs
  <2>2. ASSUME n \in Range(t) PROVE n \in Range(s)
    <3>1. PICK i \in 1 .. Len(s) - 1 : t[i] = n
      BY <1>2, <2>2, RangeIs, SMTT(30)
    <3>2. QED
      BY <1>1, <1>2, <1>4, <3>1, RangeIs, SMTT(30)
  <2>3. s[1] \in Range(s)
    BY <1>1, RangeIs
  <2>4. QED
    BY <2>1, <2>2, <2>3
<1>8. QED
  BY <1>2, <1>3, <1>5, <1>6, <1>7 DEF t, Injective

\* The last is taken out.
LEMMA LastTaken ==
  ASSUME NEW s, Injective(s), s # << >>
  PROVE  /\ Last(s) \in Nat /\ Injective(Front(s))
         /\ Last(s) \notin Range(Front(s)) /\ Range(s) = Range(Front(s)) \cup {Last(s)}
         /\ Len(Front(s)) = Len(s) - 1 /\ Len(s) \in Nat \ {0}
         /\ \A i \in 1 .. Len(s) - 1 : Front(s)[i] = s[i]
<1>1. s \in Seq(Nat) /\ Len(s) \in Nat \ {0} /\ DOMAIN s = 1 .. Len(s)
      /\ \A i, j \in 1 .. Len(s) : s[i] = s[j] => i = j
  BY InjectiveIs, EmptyIs
<1> DEFINE t == Front(s)
           k == Len(s)
<1>2. /\ t \in Seq(Nat) /\ Len(t) = k - 1 /\ DOMAIN t = 1 .. k - 1
      /\ \A i \in 1 .. k - 1 : t[i] = s[i]
      /\ Last(s) = s[k] /\ s[k] \in Nat
  BY <1>1 DEF Front, Last
<1>3. k \in Nat \ {0}
  BY <1>1
<1> HIDE DEF t
<1>4. k \in 1 .. k /\ \A i \in 1 .. k - 1 : i \in 1 .. k /\ i # k
  <2> HIDE DEF k
  <2>1. QED
    BY <1>3
<1>5. IsInjective(t)
  BY <1>1, <1>2, <1>4 DEF IsInjective
<1>6. s[k] \notin Range(t)
  <2>1. ASSUME NEW i \in 1 .. k - 1 PROVE t[i] # s[k]
    BY <1>1, <1>2, <1>3, <1>4
  <2>2. QED
    BY <1>2, <2>1, RangeIs
<1>7. ASSUME NEW n PROVE n \in Range(s) <=> n \in Range(t) \cup {s[k]}
  <2>1. ASSUME n \in Range(s) PROVE n \in Range(t) \cup {s[k]}
    <3>1. PICK i \in 1 .. k : s[i] = n
      BY <1>1, <2>1, RangeIs
    <3>2. i = k \/ i \in 1 .. k - 1
      BY <1>3
    <3>3. QED
      BY <1>2, <3>1, <3>2, RangeIs
  <2>2. ASSUME n \in Range(t) PROVE n \in Range(s)
    <3>1. PICK i \in 1 .. k - 1 : t[i] = n
      BY <1>2, <2>2, RangeIs
    <3>2. QED
      BY <1>1, <1>2, <1>3, <3>1, RangeIs
  <2>3. s[k] \in Range(s)
    BY <1>1, <1>4, RangeIs
  <2>4. QED
    BY <2>1, <2>2, <2>3
<1>8. QED
  BY <1>2, <1>3, <1>5, <1>6, <1>7 DEF t, Injective

\* A sequence that holds each number once is as long as the set of them is large.
LEMMA RangeCounted ==
  ASSUME NEW s, Injective(s)
  PROVE  IsFiniteSet(Range(s)) /\ Cardinality(Range(s)) = Len(s) /\ Len(s) \in Nat
<1>1. s \in Seq(Nat) /\ Len(s) \in Nat /\ IsInjective(s)
  BY DEF Injective
<1>2. s \in [1 .. Len(s) -> Range(s)]
  BY <1>1 DEF Range
<1>3. s \in Injection(1 .. Len(s), Range(s))
  BY <1>1, <1>2 DEF Injection
<1>4. s \in Surjection(1 .. Len(s), Range(s))
  BY <1>1, <1>2, RangeIs DEF Surjection
<1>5. s \in Bijection(1 .. Len(s), Range(s))
  BY <1>3, <1>4 DEF Bijection
<1>6. ExistsBijection(1 .. Len(s), Range(s))
  BY <1>5 DEF ExistsBijection
<1>7. 1 \in Int /\ Len(s) \in Int
  BY <1>1
<1>8. IsFiniteSet(1 .. Len(s))
      /\ Cardinality(1 .. Len(s)) = IF 1 > Len(s) THEN 0 ELSE Len(s) - 1 + 1
  BY <1>7, FS_Interval, Zenon
<1>9. Cardinality(1 .. Len(s)) = Len(s)
  BY <1>1, <1>8
<1>10. QED
  BY <1>1, <1>6, <1>8, <1>9, FS_Bijection

-----------------------------------------------------------------------------
(* The order of the entries                                                *)

\* Where n is in a sequence q.
PositionIn(q, n) == CHOOSE i \in DOMAIN q : q[i] = n

\* The members of s are in the order q has them in.
Ordered(q, s) ==
  \A i, j \in DOMAIN s : i < j => PositionIn(q, s[i]) < PositionIn(q, s[j])

LEMMA OrderIs == \A s : InPushOrder(s) <=> Ordered(pushed, s)
BY DEF InPushOrder, Ordered, Position, PositionIn

\* In a sequence that holds each number once there is one place to find it.
LEMMA PositionFound ==
  ASSUME NEW q, Injective(q), NEW i \in 1 .. Len(q)
  PROVE  PositionIn(q, q[i]) = i
<1>1. /\ Len(q) \in Nat /\ DOMAIN q = 1 .. Len(q)
      /\ \A k, j \in 1 .. Len(q) : q[k] = q[j] => k = j
  BY InjectiveIs
<1>2. \E j \in DOMAIN q : q[j] = q[i]
  BY <1>1
<1> DEFINE c == PositionIn(q, q[i])
<1>3. c \in DOMAIN q /\ q[c] = q[i]
  BY <1>2 DEF PositionIn
<1> HIDE DEF c
<1>4. c = i
  BY <1>1, <1>3
<1>5. QED
  BY <1>4 DEF c

\* What was pushed keeps its place, and what is pushed comes behind it.
LEMMA PositionKept ==
  ASSUME NEW q, NEW m, Injective(q), Injective(m), Range(q) \cap Range(m) = {}
  PROVE  /\ \A n \in Range(q) :
              PositionIn(q \o m, n) = PositionIn(q, n) /\ PositionIn(q, n) \in 1 .. Len(q)
         /\ \A i \in 1 .. Len(m) : PositionIn(q \o m, m[i]) = Len(q) + i
<1>1. /\ Len(q) \in Nat /\ Len(m) \in Nat
      /\ q \in Seq(Nat) /\ m \in Seq(Nat)
  BY InjectiveIs
<1> DEFINE u == q \o m
<1>2. /\ Injective(u) /\ Len(u) = Len(q) + Len(m)
      /\ \A i \in 1 .. Len(q) : u[i] = q[i]
      /\ \A i \in 1 .. Len(m) : u[Len(q) + i] = m[i]
  BY Appended
<1> HIDE DEF u
<1>3. ASSUME NEW n \in Range(q)
      PROVE  PositionIn(u, n) = PositionIn(q, n) /\ PositionIn(q, n) \in 1 .. Len(q)
  <2>1. PICK i \in 1 .. Len(q) : q[i] = n
    BY <1>1, RangeIs
  <2>2. i \in 1 .. Len(u) /\ u[i] = n
    BY <1>1, <1>2, <2>1
  <2>3. PositionIn(q, n) = i
    BY <2>1, PositionFound
  <2>4. PositionIn(u, n) = i
    BY <1>2, <2>2, PositionFound
  <2>5. QED
    BY <2>3, <2>4
<1>4. ASSUME NEW i \in 1 .. Len(m)
      PROVE  PositionIn(u, m[i]) = Len(q) + i
  <2>1. Len(q) + i \in 1 .. Len(u) /\ u[Len(q) + i] = m[i]
    BY <1>1, <1>2
  <2>2. PositionIn(u, u[Len(q) + i]) = Len(q) + i
    BY <1>2, <2>1, PositionFound
  <2>3. QED
    BY <2>1, <2>2
<1>5. QED
  BY <1>3, <1>4 DEF u

\* Pushing keeps what is in the engine in order.
LEMMA OrderedPush ==
  ASSUME NEW q, NEW s, NEW m, Injective(q), Injective(s), Injective(m),
         Range(s) \subseteq Range(q), Range(q) \cap Range(m) = {}, Ordered(q, s)
  PROVE  Ordered(q \o m, s \o m)
<1>1. Range(s) \cap Range(m) = {}
  OBVIOUS
<1>2. /\ Len(s) \in Nat /\ Len(m) \in Nat /\ Len(q) \in Nat
      /\ s \in Seq(Nat) /\ DOMAIN s = 1 .. Len(s)
  BY InjectiveIs
<1> DEFINE u == s \o m
           r == q \o m
<1>3. /\ Injective(u) /\ Len(u) = Len(s) + Len(m)
      /\ \A i \in 1 .. Len(s) : u[i] = s[i]
      /\ \A i \in 1 .. Len(m) : u[Len(s) + i] = m[i]
  BY <1>1, Appended
<1>4. /\ \A n \in Range(q) :
           PositionIn(r, n) = PositionIn(q, n) /\ PositionIn(q, n) \in 1 .. Len(q)
      /\ \A i \in 1 .. Len(m) : PositionIn(r, m[i]) = Len(q) + i
  BY PositionKept
<1> HIDE DEF u, r
<1>5. DOMAIN u = 1 .. Len(s) + Len(m)
  BY <1>3, InjectiveIs
<1>6. \A i \in 1 .. Len(s) :
        PositionIn(r, u[i]) = PositionIn(q, s[i]) /\ PositionIn(r, u[i]) \in 1 .. Len(q)
  BY <1>2, <1>3, <1>4, RangeIs
<1>7. ASSUME NEW i \in 1 .. Len(s) + Len(m), ~ i \in 1 .. Len(s)
      PROVE  PositionIn(r, u[i]) = Len(q) + (i - Len(s)) /\ i - Len(s) \in 1 .. Len(m)
  <2>1. i - Len(s) \in 1 .. Len(m) /\ Len(s) + (i - Len(s)) = i
    BY <1>2, <1>7
  <2>2. u[i] = m[i - Len(s)]
    BY <1>3, <2>1
  <2>3. QED
    BY <1>4, <2>1, <2>2
<1>8. ASSUME NEW i \in DOMAIN u, NEW j \in DOMAIN u, i < j
      PROVE  PositionIn(r, u[i]) < PositionIn(r, u[j])
  <2>1. i \in 1 .. Len(s) + Len(m) /\ j \in 1 .. Len(s) + Len(m)
    BY <1>5
  <2>2. CASE j \in 1 .. Len(s)
    <3>1. i \in 1 .. Len(s)
      BY <1>2, <1>8, <2>1, <2>2
    <3>2. PositionIn(q, s[i]) < PositionIn(q, s[j])
      BY <1>2, <1>8, <2>2, <3>1 DEF Ordered
    <3>3. QED
      BY <1>6, <2>2, <3>1, <3>2
  <2>3. CASE i \in 1 .. Len(s) /\ ~ j \in 1 .. Len(s)
    <3>1. PositionIn(r, u[i]) \in 1 .. Len(q)
      BY <1>6, <2>3
    <3>2. PositionIn(r, u[j]) = Len(q) + (j - Len(s)) /\ j - Len(s) \in 1 .. Len(m)
      BY <1>7, <2>1, <2>3
    <3>3. QED
      BY <1>2, <3>1, <3>2
  <2>4. CASE ~ i \in 1 .. Len(s) /\ ~ j \in 1 .. Len(s)
    <3>1. PositionIn(r, u[i]) = Len(q) + (i - Len(s))
      BY <1>7, <2>1, <2>4
    <3>2. PositionIn(r, u[j]) = Len(q) + (j - Len(s))
      BY <1>7, <2>1, <2>4
    <3>3. QED
      BY <1>2, <1>8, <2>1, <3>1, <3>2
  <2>5. QED
    BY <2>2, <2>3, <2>4
<1>9. QED
  BY <1>8 DEF Ordered, u, r

\* Popping keeps the others in order, and the popped one was behind them all.
LEMMA OrderedPop ==
  ASSUME NEW q, NEW s, Injective(s), s # << >>, Ordered(q, s)
  PROVE  /\ Ordered(q, Front(s))
         /\ \A n \in Range(Front(s)) : PositionIn(q, n) < PositionIn(q, Last(s))
<1> DEFINE t == Front(s)
           k == Len(s)
<1>1. /\ Injective(t) /\ Len(t) = k - 1 /\ k \in Nat \ {0}
      /\ \A i \in 1 .. k - 1 : t[i] = s[i]
  BY LastTaken
<1>2. DOMAIN s = 1 .. k
  BY InjectiveIs
<1>3. Last(s) = s[k]
  BY DEF Last
<1> HIDE DEF t, k
<1>4. DOMAIN t = 1 .. k - 1 /\ t \in Seq(Nat)
  BY <1>1, InjectiveIs
<1>5. k \in 1 .. k /\ \A i \in 1 .. k - 1 : i \in 1 .. k /\ i < k
  BY <1>1
<1>6. Ordered(q, t)
  BY <1>1, <1>2, <1>4, <1>5 DEF Ordered
<1>7. \A i \in 1 .. k - 1 : PositionIn(q, t[i]) < PositionIn(q, s[k])
  BY <1>1, <1>2, <1>5 DEF Ordered
<1>8. \A n \in Range(t) : PositionIn(q, n) < PositionIn(q, s[k])
  BY <1>1, <1>4, <1>7, RangeIs
<1>9. QED
  BY <1>3, <1>6, <1>8 DEF t

-----------------------------------------------------------------------------
(* Which entries there are                                                 *)

LEMMA KindsAre ==
  ASSUME ResultInv
  PROVE  /\ kinds \in Seq({"ok", "err", "entry"}) /\ Len(kinds) \in Nat
         /\ DOMAIN kinds = 1 .. Len(kinds)
         /\ Built \subseteq 1 .. Len(kinds) /\ Errs \subseteq 1 .. Len(kinds)
         /\ taken \subseteq 1 .. Len(kinds)
<1>1. kinds \in Seq({"ok", "err", "entry"}) /\ DOMAIN kinds = 1 .. Len(kinds)
  BY DEF ResultInv, ResultsTyped
<1>2. Len(kinds) \in Nat
  BY <1>1
<1>3. taken \subseteq 1 .. Len(kinds)
  BY DEF ResultInv, OwnedOnce, Payloads
<1>4. QED
  BY <1>1, <1>2, <1>3 DEF Built, Errs

\* Nothing is created and nothing taken out.
LEMMA BuiltStays ==
  ASSUME UNCHANGED <<kinds, taken>>
  PROVE  Built' = Built /\ Errs' = Errs
BY DEF Built, Errs

\* A Result that is constructed holds no entry yet.
LEMMA BuiltConstruct ==
  ASSUME ResultInv, NEW s \in ResultSlots, NEW n \in Nat,
         ConstructOk(s, n) \/ ConstructErr(s, n)
  PROVE  /\ Built' = Built
         /\ ConstructOk(s, n) => Errs' = Errs
         /\ ConstructErr(s, n) => Errs' = Errs \cup Own(s)'
         /\ (\A i \in DOMAIN kinds : kinds[i] # "entry")
              => \A i \in DOMAIN kinds' : kinds'[i] # "entry"
<1> DEFINE kind == IF ConstructOk(s, n) THEN "ok" ELSE "err"
<1>1. kind \in {"ok", "err"} /\ Creates(kind, n) /\ taken' = taken
  BY DEF ConstructOk, ConstructErr
<1>2. /\ ConstructOk(s, n) => kind = "ok"
      /\ ConstructErr(s, n) => kind = "err"
  <2>1. ConstructOk(s, n) => slots'[s].is_ok
    BY DEF ConstructOk, ResultOf, ResultInv, ResultsTyped
  <2>2. ConstructErr(s, n) => ~ slots'[s].is_ok
    BY DEF ConstructErr, ResultOf, ResultInv, ResultsTyped
  <2>3. QED
    BY <2>1, <2>2
<1> HIDE DEF kind
<1>3. /\ kinds \in Seq({"ok", "err", "entry"}) /\ Len(kinds) \in Nat
      /\ DOMAIN kinds = 1 .. Len(kinds) /\ taken \subseteq 1 .. Len(kinds)
  BY KindsAre
<1>4. /\ kinds' \in Seq({"ok", "err", "entry"}) /\ Len(kinds') = Len(kinds) + n
      /\ \A i \in 1 .. Len(kinds) : kinds'[i] = kinds[i]
      /\ \A i \in New(n) : kinds'[i] = kind
  BY <1>1, <1>3, CreatesNew DEF New
<1>5. DOMAIN kinds' = (1 .. Len(kinds)) \cup New(n)
      /\ (1 .. Len(kinds)) \cap New(n) = {}
  BY <1>3, <1>4 DEF New
<1>6. Built' = Built
  BY <1>1, <1>3, <1>4, <1>5 DEF Built
<1>7. ConstructOk(s, n) => Errs' = Errs
  BY <1>2, <1>3, <1>4, <1>5 DEF Errs
<1>8. ASSUME ConstructErr(s, n) PROVE Errs' = Errs \cup Own(s)'
  <2>1. Errs' = Errs \cup New(n)
    BY <1>2, <1>3, <1>4, <1>5, <1>8 DEF Errs
  <2>2. Own(s)' = Range(Fresh(n))
    BY <1>8 DEF ConstructErr, Own, Alive, ResultOf, ResultInv, ResultsTyped
  <2>3. QED
    BY <1>3, <2>1, <2>2, FreshNew DEF New
<1>9. (\A i \in DOMAIN kinds : kinds[i] # "entry")
        => \A i \in DOMAIN kinds' : kinds'[i] # "entry"
  BY <1>1, <1>3, <1>4, <1>5
<1>10. QED
  BY <1>6, <1>7, <1>8, <1>9

\* The errors that are unwrapped are entries from then on, and were none.
LEMMA BuiltUnwrapErr ==
  ASSUME ResultInv, NEW s \in ResultSlots, UnwrapErr(s)
  PROVE  /\ Built' = Built \cup Own(s) /\ Built \cap Own(s) = {}
         /\ Errs' = Errs /\ taken' = taken \cup Own(s)
         /\ Injective(slots[s].value) /\ Range(slots[s].value) = Own(s)
<1>1. Alive(s) /\ ~ slots[s].is_ok /\ kinds' = kinds
      /\ taken' = taken \cup Range(slots[s].value)
  BY DEF UnwrapErr, Taken
<1>2. /\ slots[s].value \in Seq(Nat) /\ IsInjective(slots[s].value)
      /\ \A i \in 1 .. Len(slots[s].value) :
           /\ slots[s].value[i] \in 1 .. Len(kinds)
           /\ kinds[slots[s].value[i]] = MemberFor(s, slots[s].is_ok)
      /\ Own(s) = Range(slots[s].value)
  BY <1>1, LivingSlot
<1>3. \A n \in Own(s) : n \in 1 .. Len(kinds) /\ kinds[n] = "err"
  BY <1>1, <1>2, RangeIs DEF MemberFor
<1>4. Own(s) \cap taken = {}
  BY DEF ResultInv, OwnedOnce
<1>5. DOMAIN kinds = 1 .. Len(kinds)
  BY KindsAre
<1>6. Built' = Built \cup Own(s) /\ Built \cap Own(s) = {}
  BY <1>1, <1>2, <1>3, <1>4, <1>5 DEF Built
<1>7. Errs' = Errs
  BY <1>1 DEF Errs
<1>8. QED
  BY <1>1, <1>2, <1>6, <1>7 DEF Injective

\* A value that is unwrapped is no entry.
LEMMA BuiltUnwrap ==
  ASSUME ResultInv, NEW s \in ResultSlots, Unwrap(s)
  PROVE  Built' = Built /\ Errs' = Errs /\ taken' = taken \cup Own(s)
<1>1. Alive(s) /\ slots[s].is_ok /\ kinds' = kinds
      /\ taken' = taken \cup Range(slots[s].value)
  BY DEF Unwrap, Taken
<1>2. /\ slots[s].value \in Seq(Nat)
      /\ \A i \in 1 .. Len(slots[s].value) :
           kinds[slots[s].value[i]] = MemberFor(s, slots[s].is_ok)
      /\ Own(s) = Range(slots[s].value)
  BY <1>1, LivingSlot
<1>3. \A n \in Own(s) : kinds[n] # "err"
  BY <1>1, <1>2, RangeIs DEF MemberFor
<1>4. QED
  BY <1>1, <1>2, <1>3 DEF Built, Errs

\* A builder makes a new entry.
LEMMA BuiltByHand ==
  ASSUME ResultInv, Creates("entry", 1), taken' = taken
  PROVE  Built' = Built \cup {Len(kinds) + 1} /\ Len(kinds) + 1 \notin Built
<1>1. /\ kinds \in Seq({"ok", "err", "entry"}) /\ Len(kinds) \in Nat
      /\ DOMAIN kinds = 1 .. Len(kinds) /\ Built \subseteq 1 .. Len(kinds)
  BY KindsAre
<1>2. /\ kinds' \in Seq({"ok", "err", "entry"}) /\ Len(kinds') = Len(kinds) + 1
      /\ \A i \in 1 .. Len(kinds) : kinds'[i] = kinds[i]
      /\ kinds'[Len(kinds) + 1] = "entry"
  BY <1>1, CreatesNew
<1>3. DOMAIN kinds' = (1 .. Len(kinds)) \cup {Len(kinds) + 1}
      /\ Len(kinds) + 1 \notin 1 .. Len(kinds)
  BY <1>1, <1>2
<1>4. QED
  BY <1>1, <1>2, <1>3 DEF Built

-----------------------------------------------------------------------------
(* What each operation on entries does to the invariant                    *)

EntriesRight == EntriesOnce /\ InPushOrder(entries) /\ PageRight

\* A step that moves no entry keeps what is known of them.
LEMMA EntriesStay ==
  ASSUME EntriesRight, UNCHANGED <<built, entries, shown, pushed, cleared>>,
         Built' = Built, page' = page \/ page' = NoPage
  PROVE  EntriesRight'
<1>1. EntriesOnce'
  BY DEF EntriesRight, EntriesOnce, Apart
<1>2. InPushOrder(entries)'
  BY DEF EntriesRight, InPushOrder, Position
<1>3. PageRight'
  <2>1. CASE page' = page
    BY <2>1 DEF EntriesRight, PageRight, InPushOrder, Position
  <2>2. CASE page' = NoPage
    BY <2>2 DEF PageRight, NoPage
  <2>3. QED
    BY <2>1, <2>2
<1>4. QED
  BY <1>1, <1>2, <1>3 DEF EntriesRight

\* The vector outside of the engine gets entries that are new.
LEMMA EntriesBuilt ==
  ASSUME EntriesRight, NEW numbers, Injective(numbers),
         Range(numbers) \cap Built = {}, Built' = Built \cup Range(numbers),
         built' = built \o numbers,
         UNCHANGED <<entries, shown, pushed, cleared, page>>
  PROVE  EntriesRight'
<1>1. /\ Injective(built) /\ Range(built) \cup Range(pushed) = Built
      /\ Range(pushed) = Range(entries) \cup Range(shown) \cup cleared
  BY DEF EntriesRight, EntriesOnce
<1>2. Injective(built)' /\ Range(built)' = Range(built) \cup Range(numbers)
  <2>1. Range(built) \cap Range(numbers) = {}
    BY <1>1
  <2>2. QED
    BY <1>1, <2>1, Appended DEF Injective
<1>3. EntriesOnce'
  BY <1>1, <1>2 DEF EntriesRight, EntriesOnce, Apart, Injective
<1>4. InPushOrder(entries)' /\ PageRight'
  BY DEF EntriesRight, InPushOrder, Position, PageRight
<1>5. QED
  BY <1>3, <1>4 DEF EntriesRight

\* Entries that are new to the engine are pushed.
LEMMA EntriesPushed ==
  ASSUME EntriesRight, NEW numbers, Injective(numbers), PushEach(numbers),
         Injective(built)', Range(numbers) \cap Range(pushed) = {},
         Range(built)' \cap (Range(numbers) \cup Range(pushed)) = {},
         Built' = Range(built)' \cup Range(numbers) \cup Range(pushed),
         UNCHANGED <<shown, cleared>>
  PROVE  /\ EntriesRight'
         /\ entries' = entries \o numbers /\ pushed' = pushed \o numbers
         /\ Range(entries)' = Range(entries) \cup Range(numbers)
<1>1. /\ Injective(entries) /\ Injective(pushed) /\ Injective(shown)
      /\ IsFiniteSet(cleared) /\ Apart
      /\ Range(pushed) = Range(entries) \cup Range(shown) \cup cleared
  BY DEF EntriesRight, EntriesOnce
<1>2. entries' = entries \o numbers /\ pushed' = pushed \o numbers /\ page' = NoPage
  BY DEF PushEach
<1>3. /\ Injective(entries') /\ Range(entries') = Range(entries) \cup Range(numbers)
      /\ Injective(pushed') /\ Range(pushed') = Range(pushed) \cup Range(numbers)
  BY <1>1, <1>2, Appended
<1>4. EntriesOnce'
  <2>1. Injective(shown)' /\ IsFiniteSet(cleared)'
    BY <1>1 DEF Injective
  <2>2. Injective(entries)' /\ Injective(pushed)'
    BY <1>3 DEF Injective
  <2>3. Apart'
    BY <1>1, <1>3 DEF Apart
  <2>4. (Range(built) \cup Range(pushed) = Built)'
    BY <1>3
  <2>5. (Range(pushed) = Range(entries) \cup Range(shown) \cup cleared)'
    BY <1>1, <1>3
  <2>6. QED
    BY <2>1, <2>2, <2>3, <2>4, <2>5 DEF EntriesOnce
<1>5. InPushOrder(entries)'
  <2>1. Ordered(pushed, entries)
    BY OrderIs DEF EntriesRight
  <2>2. Ordered(pushed', entries')
    BY <1>1, <1>2, <2>1, OrderedPush
  <2>3. QED
    BY <2>2 DEF InPushOrder, Ordered, Position, PositionIn
<1>6. PageRight'
  BY <1>2 DEF PageRight, NoPage
<1>7. QED
  BY <1>2, <1>3, <1>4, <1>5, <1>6 DEF EntriesRight

\* One is taken from the vector outside and pushed.
LEMMA OnePushed ==
  ASSUME EntriesRight, PushOne, Built' = Built, UNCHANGED <<shown, cleared>>
  PROVE  EntriesRight' /\ (built' = << >> <=> Len(built) = 1)
<1>1. /\ Injective(built) /\ Range(built) \cup Range(pushed) = Built
      /\ Range(built) \cap Range(pushed) = {}
  BY DEF EntriesRight, EntriesOnce, Apart
<1>2. built # << >> /\ PushEach(<<Head(built)>>) /\ built' = Tail(built)
  BY DEF PushOne
<1>3. /\ Head(built) \in Nat /\ Injective(built') /\ Head(built) \notin Range(built')
      /\ Range(built) = Range(built') \cup {Head(built)}
      /\ Len(built) = 1 <=> built' = << >>
  BY <1>1, <1>2, HeadTaken
<1>4. Injective(<<Head(built)>>) /\ Range(<<Head(built)>>) = {Head(built)}
  BY <1>3, OneInjective
<1>5. Injective(built)'
  BY <1>3 DEF Injective
<1>6. EntriesRight'
  BY <1>1, <1>2, <1>3, <1>4, <1>5, EntriesPushed
<1>7. QED
  BY <1>3, <1>6

\* The engine is cleared.
LEMMA EntriesCleared ==
  ASSUME EntriesRight, Clear, Built' = Built, UNCHANGED <<built, shown, pushed>>
  PROVE  EntriesRight'
<1>1. /\ Injective(entries) /\ Injective(pushed) /\ Injective(shown) /\ Injective(built)
      /\ IsFiniteSet(cleared) /\ Apart /\ Range(built) \cup Range(pushed) = Built
      /\ Range(pushed) = Range(entries) \cup Range(shown) \cup cleared
  BY DEF EntriesRight, EntriesOnce
<1>2. cleared' = cleared \cup Range(entries) /\ entries' = << >> /\ page' = NoPage
  BY DEF Clear
<1>3. Injective(entries') /\ Range(entries') = {}
  BY <1>2, NoneInEmpty
<1>4. IsFiniteSet(cleared')
  BY <1>1, <1>2, RangeCounted, FS_Union
<1>5. EntriesOnce'
  BY <1>1, <1>2, <1>3, <1>4 DEF EntriesOnce, Apart, Injective
<1>6. InPushOrder(entries)' /\ PageRight'
  BY <1>2 DEF InPushOrder, PageRight, NoPage
<1>7. QED
  BY <1>5, <1>6 DEF EntriesRight

\* What formatting shows and returns.
LEMMA FormatShows ==
  ASSUME NEW numbers, NEW kind, Format(numbers, kind)
  PROVE  shown' = shown \o numbers /\ page'.kind = kind /\ page'.numbers = numbers
BY DEF Format

\* The newest is popped and shown.
LEMMA EntriesPopped ==
  ASSUME EntriesRight, PopAndFormat, Built' = Built,
         UNCHANGED <<built, pushed, cleared>>
  PROVE  EntriesRight'
<1>1. /\ Injective(entries) /\ Injective(pushed) /\ Injective(shown) /\ Injective(built)
      /\ IsFiniteSet(cleared) /\ Apart /\ Range(built) \cup Range(pushed) = Built
      /\ Range(pushed) = Range(entries) \cup Range(shown) \cup cleared
  BY DEF EntriesRight, EntriesOnce
<1>2. entries # << >> /\ entries' = Front(entries) /\ Format(<<Last(entries)>>, "pop")
  BY DEF PopAndFormat
<1>3. /\ shown' = shown \o <<Last(entries)>> /\ page'.kind = "pop"
      /\ page'.numbers = <<Last(entries)>>
  BY <1>2, FormatShows
<1>4. /\ Last(entries) \in Nat /\ Injective(entries') /\ Last(entries) \notin Range(entries')
      /\ Range(entries) = Range(entries') \cup {Last(entries)}
  BY <1>1, <1>2, LastTaken
<1>5. Injective(<<Last(entries)>>) /\ Range(<<Last(entries)>>) = {Last(entries)}
  BY <1>4, OneInjective
<1>6. Injective(shown') /\ Range(shown') = Range(shown) \cup {Last(entries)}
  <2>1. Range(shown) \cap Range(<<Last(entries)>>) = {}
    BY <1>1, <1>4, <1>5 DEF Apart
  <2>2. QED
    BY <1>1, <1>3, <1>5, <2>1, Appended
<1>7. EntriesOnce'
  <2>1. Injective(built)' /\ Injective(entries)' /\ Injective(shown)' /\ Injective(pushed)'
    BY <1>1, <1>4, <1>6 DEF Injective
  <2>2. Apart'
    BY <1>1, <1>4, <1>6 DEF Apart
  <2>3. (Range(pushed) = Range(entries) \cup Range(shown) \cup cleared)'
    BY <1>1, <1>4, <1>6
  <2>4. QED
    BY <1>1, <2>1, <2>2, <2>3 DEF EntriesOnce
<1>8. /\ Ordered(pushed, entries')
      /\ \A n \in Range(entries') : PositionIn(pushed, n) < PositionIn(pushed, Last(entries))
  BY <1>1, <1>2, OrderedPop, OrderIs DEF EntriesRight
<1>9. InPushOrder(entries)'
  BY <1>8 DEF InPushOrder, Ordered, Position, PositionIn
<1>10. PageRight'
  <2>1. page'.numbers[1] = Last(entries)
    BY <1>3
  <2>2. QED
    BY <1>3, <1>8, <2>1 DEF PageRight, Position, PositionIn
<1>11. QED
  BY <1>7, <1>9, <1>10 DEF EntriesRight

\* All that are in the engine are shown, in the order they were pushed.
LEMMA EntriesFlushed ==
  ASSUME EntriesRight, FormatBatchAndClear, Built' = Built,
         UNCHANGED <<built, pushed, cleared>>
  PROVE  EntriesRight' /\ shown' = shown \o entries /\ entries' = << >>
<1>1. /\ Injective(entries) /\ Injective(pushed) /\ Injective(shown) /\ Injective(built)
      /\ IsFiniteSet(cleared) /\ Apart /\ Range(built) \cup Range(pushed) = Built
      /\ Range(pushed) = Range(entries) \cup Range(shown) \cup cleared
  BY DEF EntriesRight, EntriesOnce
<1>2. entries' = << >> /\ Format(entries, "batch")
  BY DEF FormatBatchAndClear
<1>3. shown' = shown \o entries /\ page'.kind = "batch" /\ page'.numbers = entries
  BY <1>2, FormatShows
<1>4. Injective(entries') /\ Range(entries') = {}
  BY <1>2, NoneInEmpty
<1>5. Injective(shown') /\ Range(shown') = Range(shown) \cup Range(entries)
  <2>1. Range(shown) \cap Range(entries) = {}
    BY <1>1 DEF Apart
  <2>2. QED
    BY <1>1, <1>3, <2>1, Appended
<1>6. EntriesOnce'
  <2>1. Injective(built)' /\ Injective(entries)' /\ Injective(shown)' /\ Injective(pushed)'
    BY <1>1, <1>4, <1>5 DEF Injective
  <2>2. Apart'
    BY <1>1, <1>4, <1>5 DEF Apart
  <2>3. (Range(pushed) = Range(entries) \cup Range(shown) \cup cleared)'
    BY <1>1, <1>4, <1>5
  <2>4. QED
    BY <1>1, <2>1, <2>2, <2>3 DEF EntriesOnce
<1>7. InPushOrder(entries)'
  BY <1>2 DEF InPushOrder
<1>8. PageRight'
  <2>1. InPushOrder(page.numbers)'
    BY <1>3 DEF EntriesRight, InPushOrder, Position
  <2>2. QED
    BY <1>2, <1>3, <2>1 DEF PageRight
<1>9. QED
  BY <1>2, <1>3, <1>6, <1>7, <1>8 DEF EntriesRight

-----------------------------------------------------------------------------
(* What is said of the entries follows from the invariant                  *)

\* Sets that share nothing are counted one by one.
LEMMA ApartCounted ==
  ASSUME NEW S, NEW T, IsFiniteSet(S), IsFiniteSet(T), S \cap T = {}
  PROVE  IsFiniteSet(S \cup T) /\ Cardinality(S \cup T) = Cardinality(S) + Cardinality(T)
<1>1. /\ IsFiniteSet(S \cup T)
      /\ Cardinality(S \cup T) = Cardinality(S) + Cardinality(T) - Cardinality(S \cap T)
  BY FS_Union
<1>2. Cardinality(S \cap T) = 0
  BY FS_EmptySet
<1>3. Cardinality(S) \in Nat /\ Cardinality(T) \in Nat
  BY FS_CardinalityType
<1>4. Cardinality(S) + Cardinality(T) - 0 = Cardinality(S) + Cardinality(T)
  BY <1>3
<1>5. QED
  BY <1>1, <1>2, <1>4

LEMMA InvKept ==
  ASSUME ResultInv, EntriesInv
  PROVE  EntriesKept
<1>1. ASSUME EntriesRight PROVE EntriesPlaced
  <2>1. /\ Injective(entries) /\ Injective(pushed) /\ Injective(shown) /\ Injective(built)
        /\ IsFiniteSet(cleared) /\ Apart /\ Range(built) \cup Range(pushed) = Built
        /\ Range(pushed) = Range(entries) \cup Range(shown) \cup cleared
    BY <1>1 DEF EntriesRight, EntriesOnce
  <2> DEFINE B == Range(built)
             E == Range(entries)
             S == Range(shown)
  <2>2. /\ IsFiniteSet(B) /\ Cardinality(B) = Len(built) /\ Len(built) \in Nat
        /\ IsFiniteSet(E) /\ Cardinality(E) = Len(entries) /\ Len(entries) \in Nat
        /\ IsFiniteSet(S) /\ Cardinality(S) = Len(shown) /\ Len(shown) \in Nat
    BY <2>1, RangeCounted
  <2>3. /\ B \cap E = {} /\ (B \cup E) \cap S = {} /\ (B \cup E \cup S) \cap cleared = {}
        /\ Built = B \cup E \cup S \cup cleared
    BY <2>1 DEF Apart
  <2> HIDE DEF B, E, S
  <2>4. IsFiniteSet(B \cup E) /\ Cardinality(B \cup E) = Len(built) + Len(entries)
    <3>1. IsFiniteSet(B \cup E) /\ Cardinality(B \cup E) = Cardinality(B) + Cardinality(E)
      BY <2>2, <2>3, ApartCounted, Zenon
    <3>2. QED
      BY <2>2, <3>1
  <2>5. /\ IsFiniteSet(B \cup E \cup S)
        /\ Cardinality(B \cup E \cup S) = Len(built) + Len(entries) + Len(shown)
    <3>1. /\ IsFiniteSet(B \cup E \cup S)
          /\ Cardinality(B \cup E \cup S) = Cardinality(B \cup E) + Cardinality(S)
      BY <2>2, <2>3, <2>4, ApartCounted, Zenon
    <3>2. QED
      BY <2>2, <2>4, <3>1
  <2>6. Cardinality(B \cup E \cup S \cup cleared)
          = Len(built) + Len(entries) + Len(shown) + Cardinality(cleared)
    BY <2>1, <2>3, <2>5, ApartCounted
  <2>7. Cardinality(Built)
          = Len(built) + Len(entries) + Len(shown) + Cardinality(cleared)
    BY <2>3, <2>6
  <2>8. \A s \in {built, entries, shown} : IsInjective(s)
    BY <2>1 DEF Injective
  <2>9. B \cup E \cup S \cup cleared = Built
    BY <2>3
  <2>10. /\ InPushOrder(entries)
         /\ page.kind = "batch" => InPushOrder(page.numbers) /\ entries = << >>
         /\ page.kind = "pop" =>
              \A n \in Range(entries) : Position(n) < Position(page.numbers[1])
    BY <1>1 DEF EntriesRight, PageRight
  <2>11. QED
    BY <2>7, <2>8, <2>9, <2>10 DEF EntriesPlaced, B, E, S
<1>2. role # "result" => EntriesPlaced
  BY <1>1 DEF EntriesInv, EntriesRight
<1>3. ASSUME role = "pipeline", phase = "return"
      PROVE  Errs = Range(shown) /\ InPushOrder(shown)
  <2>1. PipelineInv /\ EntriesOnce
    BY <1>3 DEF EntriesInv
  <2>2. /\ built = << >> /\ entries = << >> /\ cleared = {} /\ InPushOrder(shown)
        /\ Errs \subseteq taken
    BY <1>3, <2>1 DEF PipelineInv, VectorsAt, ErrorsAt
  <2>3. Built = Errs
    BY <2>1, <2>2 DEF PipelineInv, Built, Errs
  <2>4. Built = Range(shown)
    BY <2>1, <2>2, NoneInEmpty DEF EntriesOnce
  <2>5. QED
    BY <2>2, <2>3, <2>4
<1>4. QED
  BY <1>2, <1>3 DEF EntriesKept, Errs

-----------------------------------------------------------------------------
(* The steps                                                               *)

LEMMA EntriesStart == Init => EntriesInv
<1> SUFFICES ASSUME Init PROVE EntriesInv
  OBVIOUS
<1>1. /\ built = << >> /\ entries = << >> /\ pushed = << >> /\ shown = << >>
      /\ cleared = {} /\ page = NoPage /\ kinds = << >> /\ taken = {} /\ phase = "init"
      /\ role \in {"render", "engine", "pipeline", "result"}
  BY DEF Init, EngineInit
<1>2. Built = {} /\ Errs = {} /\ DOMAIN kinds = {}
  BY <1>1 DEF Built, Errs
<1>3. EntriesOnce
  BY <1>1, <1>2, NoneInEmpty, FS_EmptySet DEF EntriesOnce, Apart
<1>4. InPushOrder(entries) /\ PageRight
  BY <1>1 DEF InPushOrder, PageRight, NoPage
<1>5. PipelineInv
  BY <1>1, <1>2 DEF PipelineInv, VectorsAt, ErrorsAt
<1>6. QED
  BY <1>1, <1>3, <1>4, <1>5 DEF EntriesInv

\* Building, formatting and what goes on around it.
LEMMA WorkGoesOn ==
  ASSUME ResultInv, EntriesInv,
         \/ Begins \/ AddsLabel \/ Annotates \/ Builds \/ Pushes \/ Clears \/ Formats
         \/ Unloads \/ Configures
  PROVE  EntriesInv'
<1>1. Working
  BY DEF Begins, AddsLabel, Annotates, Builds, Pushes, Clears, Formats, Unloads, Configures
<1>2. role \in {"render", "engine"} /\ role' = role /\ taken' = taken
  BY <1>1 DEF Working, NoResults, NoPipeline
<1>3. EntriesRight
  BY <1>2 DEF EntriesInv, EntriesRight
<1>4. CASE Begins \/ AddsLabel \/ Annotates \/ Unloads \/ Configures
  <2>1. /\ UNCHANGED <<built, entries, shown, pushed, cleared, kinds>>
        /\ page' = page \/ page' = NoPage
    BY <1>4 DEF Begins, AddsLabel, Annotates, Unloads, Configures
  <2>2. Built' = Built
    BY <1>2, <2>1, BuiltStays
  <2>3. QED
    BY <1>2, <1>3, <2>1, <2>2, EntriesStay DEF EntriesInv, EntriesRight
<1>5. CASE Builds
  <2>1. /\ built' = Append(built, Len(kinds) + 1) /\ Creates("entry", 1)
        /\ UNCHANGED <<entries, shown, pushed, cleared, page>>
    BY <1>5 DEF Builds, Build
  <2>2. Built' = Built \cup {Len(kinds) + 1} /\ Len(kinds) + 1 \notin Built
    BY <1>2, <2>1, BuiltByHand
  <2> DEFINE numbers == <<Len(kinds) + 1>>
  <2>3. Len(kinds) + 1 \in Nat
    BY KindsAre
  <2>4. Injective(numbers) /\ Range(numbers) = {Len(kinds) + 1}
    BY <2>3, OneInjective
  <2>5. built' = built \o numbers
    <3>1. built \in Seq(Nat)
      BY <1>3 DEF EntriesRight, EntriesOnce, Injective
    <3>2. QED
      BY <2>1, <2>3, <3>1
  <2> HIDE DEF numbers
  <2>6. EntriesRight'
    BY <1>3, <2>1, <2>2, <2>4, <2>5, EntriesBuilt
  <2>7. QED
    BY <1>2, <2>6 DEF EntriesInv, EntriesRight
<1>6. CASE Pushes
  <2>1. /\ Injective(built) /\ Range(built) \cup Range(pushed) = Built
        /\ Range(built) \cap Range(pushed) = {} /\ UNCHANGED <<shown, cleared, kinds>>
    BY <1>3, <1>6 DEF EntriesRight, EntriesOnce, Apart, Pushes
  <2>2. Built' = Built
    BY <1>2, <2>1, BuiltStays
  <2>3. ASSUME PushOne PROVE EntriesRight'
    BY <1>3, <2>1, <2>2, <2>3, OnePushed
  <2>4. ASSUME PushAll PROVE EntriesRight'
    <3>1. PushEach(built) /\ built' = << >>
      BY <2>4 DEF PushAll
    <3>2. Injective(built)' /\ Range(built)' = {}
      BY <3>1, NoneInEmpty DEF Injective
    <3>3. QED
      BY <1>3, <2>1, <2>2, <3>1, <3>2, EntriesPushed
  <2>5. EntriesRight'
    BY <1>6, <2>3, <2>4 DEF Pushes
  <2>6. QED
    BY <1>2, <2>5 DEF EntriesInv, EntriesRight
<1>7. CASE Clears
  <2>1. Clear /\ UNCHANGED <<built, pushed, shown, kinds>>
    BY <1>7 DEF Clears
  <2>2. EntriesRight'
    BY <1>2, <1>3, <2>1, BuiltStays, EntriesCleared
  <2>3. QED
    BY <1>2, <2>2 DEF EntriesInv, EntriesRight
<1>8. CASE Formats
  <2>1. /\ PopAndFormat \/ FormatBatchAndClear
        /\ UNCHANGED <<built, pushed, cleared, kinds>>
    BY <1>8 DEF Formats
  <2>2. EntriesRight'
    BY <1>2, <1>3, <2>1, BuiltStays, EntriesPopped, EntriesFlushed
  <2>3. QED
    BY <1>2, <2>2 DEF EntriesInv, EntriesRight
<1>9. QED
  BY <1>4, <1>5, <1>6, <1>7, <1>8

-----------------------------------------------------------------------------
(* The steps of the pipeline                                               *)

\* A step of the driver that leaves the engine alone.
LEMMA DriverQuiet ==
  ASSUME EntriesRight, PipelineInv, role' = role, role = "pipeline", InEngineOnly,
         cleared' = cleared, Built' = Built,
         \A n \in DOMAIN kinds' : kinds'[n] # "entry",
         phase \notin {"convert", "report", "return"},
         phase' \notin {"convert", "report", "return"},
         ErrorsAt'
  PROVE  EntriesInv'
<1>1. EntriesRight'
  BY EntriesStay DEF InEngineOnly
<1>2. VectorsAt'
  BY DEF PipelineInv, VectorsAt, InEngineOnly
<1>3. PipelineInv'
  BY <1>2 DEF PipelineInv
<1>4. QED
  BY <1>1, <1>3 DEF EntriesInv, EntriesRight

LEMMA ConstructStep ==
  ASSUME ResultInv, EntriesInv,
         \/ LexerInitOk \/ LexerInitNotFound \/ TokenizeOk \/ TokenizeErr
         \/ ParseOk \/ ParseErr
  PROVE  EntriesInv'
<1>1. /\ role = "pipeline" /\ role' = role /\ cleared' = cleared /\ InEngineOnly
      /\ phase \in {"init", "tokenize", "parse"}
      /\ phase' \in {"init_failed", "tokenize", "tokenized", "tokens_failed", "parsed"}
  BY DEF LexerInitOk, LexerInitNotFound, TokenizeOk, TokenizeErr, ParseOk, ParseErr, At
<1>2. EntriesRight /\ PipelineInv /\ Errs = {}
      /\ \A n \in DOMAIN kinds : kinds[n] # "entry"
  BY <1>1 DEF EntriesInv, EntriesRight, PipelineInv, ErrorsAt
<1>3. {"init", "tokens", "parsed"} \subseteq ResultSlots /\ 1 .. MaxErrors \subseteq Nat
  BY DiagnosticsAssumption
<1>4. ASSUME NEW s \in {"init", "tokens", "parsed"}, NEW n \in Nat, ConstructOk(s, n)
      PROVE  /\ Built' = Built /\ Errs' = {}
             /\ \A i \in DOMAIN kinds' : kinds'[i] # "entry"
             /\ slots'[s].alive /\ slots'[s].is_ok
  <2>1. s \in ResultSlots
    BY <1>3
  <2>2. slots'[s].alive /\ slots'[s].is_ok
    BY <1>4, <2>1 DEF ConstructOk, ResultOf, ResultInv, ResultsTyped
  <2>3. QED
    BY <1>2, <1>4, <2>1, <2>2, BuiltConstruct
<1>5. ASSUME NEW s \in {"init", "tokens", "parsed"}, NEW n \in Nat, ConstructErr(s, n)
      PROVE  /\ Built' = Built /\ Errs' = Own(s)'
             /\ \A i \in DOMAIN kinds' : kinds'[i] # "entry"
             /\ slots'[s].alive /\ ~ slots'[s].is_ok
  <2>1. s \in ResultSlots
    BY <1>3
  <2>2. slots'[s].alive /\ ~ slots'[s].is_ok
    BY <1>5, <2>1 DEF ConstructErr, ResultOf, ResultInv, ResultsTyped
  <2>3. QED
    BY <1>2, <1>5, <2>1, <2>2, BuiltConstruct
<1>6. /\ Built' = Built /\ \A i \in DOMAIN kinds' : kinds'[i] # "entry"
      /\ ErrorsAt'
  <2>1. CASE LexerInitOk
    <3>1. phase' = "tokenize" /\ ConstructOk("init", 0)
      BY <2>1 DEF LexerInitOk, At
    <3>2. QED
      BY <1>4, <3>1 DEF ErrorsAt
  <2>2. CASE LexerInitNotFound
    <3>1. phase' = "init_failed" /\ ConstructErr("init", 1)
      BY <2>2 DEF LexerInitNotFound, At
    <3>2. QED
      BY <1>5, <3>1 DEF ErrorsAt
  <2>3. CASE TokenizeOk
    <3>1. phase' = "tokenized" /\ ConstructOk("tokens", 1)
      BY <2>3 DEF TokenizeOk, At
    <3>2. QED
      BY <1>4, <3>1 DEF ErrorsAt
  <2>4. CASE TokenizeErr
    <3>1. phase' = "tokens_failed" /\ \E n \in 1 .. MaxErrors : ConstructErr("tokens", n)
      BY <2>4 DEF TokenizeErr, At
    <3>2. QED
      BY <1>3, <1>5, <3>1 DEF ErrorsAt
  <2>5. CASE ParseOk
    <3>1. phase' = "parsed" /\ ConstructOk("parsed", 1)
      BY <2>5 DEF ParseOk, At
    <3>2. Errs' = {} /\ slots'["parsed"].alive /\ slots'["parsed"].is_ok
      BY <1>4, <3>1
    <3>3. ErrorsAt'
      BY <3>1, <3>2 DEF ErrorsAt, Alive
    <3>4. QED
      BY <1>4, <3>1, <3>3
  <2>6. CASE ParseErr
    <3>1. phase' = "parsed" /\ \E n \in 1 .. MaxErrors : ConstructErr("parsed", n)
      BY <2>6 DEF ParseErr, At
    <3>2. Errs' = Own("parsed")' /\ slots'["parsed"].alive /\ ~ slots'["parsed"].is_ok
      BY <1>3, <1>5, <3>1
    <3>3. ErrorsAt'
      BY <3>1, <3>2 DEF ErrorsAt, Alive
    <3>4. QED
      BY <1>3, <1>5, <3>1, <3>3
  <2>7. QED
    BY <2>1, <2>2, <2>3, <2>4, <2>5, <2>6
<1>7. QED
  BY <1>1, <1>2, <1>6, DriverQuiet

\* The errors of a Result that has failed are pushed one after the other.
LEMMA PushErrorStep ==
  ASSUME ResultInv, EntriesInv, NEW s \in {"init", "parsed"},
         role = "pipeline", role' = role, cleared' = cleared, UnwrapErr(s),
         PushEach(slots[s].value), UNCHANGED <<built, shown>>,
         phase \notin {"convert", "report", "return"}, phase' = "report",
         Errs = Own(s)
  PROVE  EntriesInv'
<1>1. EntriesRight /\ PipelineInv
  BY DEF EntriesInv, EntriesRight
<1>2. s \in ResultSlots
  BY DiagnosticsAssumption
<1>3. /\ Built' = Built \cup Own(s) /\ Built \cap Own(s) = {}
      /\ Errs' = Errs /\ taken' = taken \cup Own(s)
      /\ Injective(slots[s].value) /\ Range(slots[s].value) = Own(s)
  BY <1>2, BuiltUnwrapErr
<1>4. built = << >> /\ shown = << >>
  BY <1>1 DEF PipelineInv, VectorsAt
<1>5. Injective(built)' /\ Range(built)' = {} /\ Range(built) = {}
  BY <1>4, NoneInEmpty DEF Injective
<1>6. Built = Range(pushed)
  BY <1>1, <1>5 DEF EntriesRight, EntriesOnce
<1>7. EntriesRight'
  <2>1. /\ Range(slots[s].value) \cap Range(pushed) = {}
        /\ Built' = Range(built)' \cup Range(slots[s].value) \cup Range(pushed)
        /\ Range(built)' \cap (Range(slots[s].value) \cup Range(pushed)) = {}
    BY <1>3, <1>5, <1>6
  <2>2. QED
    BY <1>1, <1>3, <1>5, <2>1, EntriesPushed
<1>8. VectorsAt' /\ ErrorsAt'
  BY <1>3, <1>4 DEF VectorsAt, ErrorsAt
<1>9. PipelineInv'
  <2>1. kinds' = kinds
    BY DEF UnwrapErr
  <2>2. QED
    BY <1>1, <1>8, <2>1 DEF PipelineInv
<1>10. QED
  BY <1>7, <1>9 DEF EntriesInv, EntriesRight

\* The errors of the lexer are converted, and pushed one by one.
LEMMA ConvertStep ==
  ASSUME ResultInv, EntriesInv, TakeErrors \/ PushConverted
  PROVE  EntriesInv'
<1>1. role = "pipeline" /\ role' = role /\ cleared' = cleared /\ shown' = shown
  BY DEF TakeErrors, PushConverted, At
<1>2. EntriesRight /\ PipelineInv
  BY <1>1 DEF EntriesInv, EntriesRight
<1>3. CASE TakeErrors
  <2> DEFINE value == slots["tokens"].value
  <2>1. /\ phase = "tokens_failed" /\ phase' = "convert" /\ UnwrapErr("tokens")
        /\ built' = value /\ UNCHANGED <<entries, shown, pushed, cleared, page>>
    BY <1>1, <1>3 DEF TakeErrors, At
  <2>2. "tokens" \in ResultSlots
    BY DiagnosticsAssumption
  <2>3. /\ Built' = Built \cup Own("tokens") /\ Built \cap Own("tokens") = {}
        /\ Errs' = Errs /\ taken' = taken \cup Own("tokens")
        /\ Injective(value) /\ Range(value) = Own("tokens")
    BY <2>1, <2>2, BuiltUnwrapErr
  <2>4. built = << >> /\ shown = << >> /\ Errs = Own("tokens")
    BY <1>2, <2>1 DEF PipelineInv, VectorsAt, ErrorsAt
  <2> HIDE DEF value
  <2>5. built' = built \o value
    BY <2>1, <2>3, <2>4 DEF Injective
  <2>6. EntriesRight'
    BY <1>2, <2>1, <2>3, <2>5, EntriesBuilt
  <2>7. VectorsAt' /\ ErrorsAt'
    BY <2>1, <2>3, <2>4 DEF VectorsAt, ErrorsAt
  <2>8. kinds' = kinds
    BY <2>1 DEF UnwrapErr
  <2>9. PipelineInv'
    BY <1>1, <1>2, <2>7, <2>8 DEF PipelineInv
  <2>10. QED
    BY <1>1, <2>6, <2>9 DEF EntriesInv, EntriesRight
<1>4. CASE PushConverted
  <2>1. /\ phase = "convert" /\ phase' = IF Len(built) = 1 THEN "report" ELSE "convert"
        /\ PushOne /\ kinds' = kinds /\ taken' = taken
    BY <1>4 DEF PushConverted, At, resultVars
  <2>2. Built' = Built /\ Errs' = Errs
    BY <2>1, BuiltStays
  <2>3. EntriesRight' /\ (built' = << >> <=> Len(built) = 1)
    BY <1>1, <1>2, <2>1, <2>2, OnePushed
  <2>4. shown = << >> /\ Errs \subseteq taken
    BY <1>2, <2>1 DEF PipelineInv, VectorsAt, ErrorsAt
  <2>5. VectorsAt' /\ ErrorsAt'
    BY <1>1, <2>1, <2>2, <2>3, <2>4 DEF VectorsAt, ErrorsAt
  <2>6. PipelineInv'
    BY <1>1, <1>2, <2>1, <2>5 DEF PipelineInv
  <2>7. QED
    BY <1>1, <2>3, <2>6 DEF EntriesInv, EntriesRight
<1>5. QED
  BY <1>3, <1>4

\* What was compiled is taken on, and the source unloaded before its errors are.
LEMMA QuietStep ==
  ASSUME ResultInv, EntriesInv, LexerInitInvalid \/ TakeTokens \/ UnloadSource
  PROVE  EntriesInv'
<1>1. /\ role = "pipeline" /\ role' = role /\ cleared' = cleared
      /\ kinds' = kinds
      /\ phase \notin {"convert", "report", "return"}
      /\ phase' \notin {"convert", "report", "return"}
      /\ UNCHANGED <<built, entries, shown, pushed, page>>
  BY DEF LexerInitInvalid, TakeTokens, UnloadSource, At, InEngineOnly, resultVars, Unwrap
<1>2. EntriesRight /\ PipelineInv
  BY <1>1 DEF EntriesInv, EntriesRight
<1>3. "tokens" \in ResultSlots
  BY DiagnosticsAssumption
<1>4. Built' = Built /\ Errs' = Errs
  <2>1. CASE LexerInitInvalid \/ UnloadSource
    BY <2>1, BuiltStays DEF LexerInitInvalid, UnloadSource, resultVars
  <2>2. CASE TakeTokens
    BY <1>3, <2>2, BuiltUnwrap DEF TakeTokens
  <2>3. QED
    BY <2>1, <2>2
<1>5. ErrorsAt'
  <2>1. CASE LexerInitInvalid
    BY <2>1 DEF LexerInitInvalid, At, ErrorsAt
  <2>2. CASE TakeTokens
    BY <1>2, <1>4, <2>2 DEF TakeTokens, At, ErrorsAt, PipelineInv
  <2>3. CASE UnloadSource
    <3>1. phase = "parsed" /\ phase' = "unloaded" /\ slots' = slots
      BY <2>3 DEF UnloadSource, At, resultVars
    <3>2. Own("parsed")' = Own("parsed") /\ (Alive("parsed")' <=> Alive("parsed"))
      BY <3>1 DEF Own, Alive
    <3>3. QED
      BY <1>2, <1>4, <3>1, <3>2 DEF ErrorsAt, PipelineInv
  <2>4. QED
    BY <2>1, <2>2, <2>3
<1>6. EntriesRight'
  BY <1>1, <1>2, <1>4, EntriesStay
<1>7. VectorsAt'
  BY <1>1, <1>2 DEF VectorsAt, PipelineInv
<1>8. PipelineInv'
  BY <1>1, <1>2, <1>5, <1>7 DEF PipelineInv
<1>9. QED
  BY <1>1, <1>6, <1>8 DEF EntriesInv, EntriesRight

\* The compilation comes to its end, and its Results after it.
LEMMA EndStep ==
  ASSUME ResultInv, EntriesInv, TakeContext \/ PrintErrors \/ Return
  PROVE  EntriesInv'
<1>1. /\ role = "pipeline" /\ role' = role /\ cleared' = cleared /\ phase' = "return"
      /\ phase \in {"unloaded", "report", "return"} /\ built' = built /\ pushed' = pushed
  BY DEF TakeContext, PrintErrors, Return, At, InEngineOnly
<1>2. EntriesRight /\ PipelineInv
  BY <1>1 DEF EntriesInv, EntriesRight
<1>3. built = << >>
  BY <1>1, <1>2 DEF PipelineInv, VectorsAt
<1>4. CASE TakeContext
  <2>1. /\ phase = "unloaded" /\ slots["parsed"].is_ok /\ Unwrap("parsed")
        /\ UNCHANGED <<entries, shown, page>> /\ kinds' = kinds
    BY <1>4 DEF TakeContext, At, InEngineOnly, Unwrap
  <2>2. "parsed" \in ResultSlots
    BY DiagnosticsAssumption
  <2>3. Built' = Built /\ Errs' = Errs
    BY <2>1, <2>2, BuiltUnwrap
  <2>4. Errs = {} /\ pushed = << >> /\ shown = << >>
    BY <1>2, <2>1 DEF PipelineInv, VectorsAt, ErrorsAt
  <2>5. entries = << >>
    <3>1. Injective(entries) /\ Range(entries) \subseteq Range(pushed)
      BY <1>2 DEF EntriesRight, EntriesOnce
    <3>2. entries \in Seq(Nat) /\ Range(entries) = {}
      BY <2>4, <3>1, NoneInEmpty DEF Injective
    <3>3. QED
      BY <3>2, RangeEmpty
  <2>6. EntriesRight'
    BY <1>1, <1>2, <2>1, <2>3, EntriesStay
  <2>7. VectorsAt'
    BY <1>1, <1>3, <2>1, <2>4, <2>5 DEF VectorsAt, InPushOrder
  <2>8. ErrorsAt'
    BY <1>1, <2>3, <2>4 DEF ErrorsAt
  <2>9. PipelineInv'
    BY <1>1, <1>2, <2>1, <2>7, <2>8 DEF PipelineInv
  <2>10. QED
    BY <1>1, <2>6, <2>9 DEF EntriesInv, EntriesRight
<1>5. CASE PrintErrors
  <2>1. /\ phase = "report" /\ FormatBatchAndClear /\ kinds' = kinds /\ taken' = taken
    BY <1>5 DEF PrintErrors, At, resultVars
  <2>2. Built' = Built /\ Errs' = Errs
    BY <2>1, BuiltStays
  <2>3. shown = << >> /\ Errs \subseteq taken
    BY <1>2, <2>1 DEF PipelineInv, VectorsAt, ErrorsAt
  <2>4. EntriesRight' /\ shown' = shown \o entries /\ entries' = << >>
    BY <1>1, <1>2, <2>1, <2>2, EntriesFlushed
  <2>5. shown' = entries
    <3>1. entries \in Seq(Nat)
      BY <1>2 DEF EntriesRight, EntriesOnce, Injective
    <3>2. QED
      BY <2>3, <2>4, <3>1
  <2>6. InPushOrder(shown)'
    BY <1>1, <1>2, <2>5 DEF EntriesRight, InPushOrder, Position
  <2>7. VectorsAt' /\ ErrorsAt'
    BY <1>1, <1>3, <2>1, <2>2, <2>3, <2>4, <2>6 DEF VectorsAt, ErrorsAt
  <2>8. PipelineInv'
    BY <1>1, <1>2, <2>1, <2>7 DEF PipelineInv
  <2>9. QED
    BY <1>1, <2>4, <2>8 DEF EntriesInv, EntriesRight
<1>6. CASE Return
  <2>1. /\ phase = "return" /\ kinds' = kinds /\ taken' = taken
        /\ UNCHANGED <<entries, shown, page>>
    BY <1>6 DEF Return, At, EndResult, InEngineOnly
  <2>2. Built' = Built /\ Errs' = Errs
    BY <2>1, BuiltStays
  <2>3. EntriesRight'
    BY <1>1, <1>2, <2>1, <2>2, EntriesStay
  <2>4. VectorsAt'
    BY <1>1, <1>2, <2>1 DEF VectorsAt, PipelineInv, InPushOrder, Position
  <2>5. ErrorsAt'
    BY <1>1, <1>2, <2>1, <2>2 DEF ErrorsAt, PipelineInv
  <2>6. PipelineInv'
    BY <1>1, <1>2, <2>1, <2>4, <2>5 DEF PipelineInv
  <2>7. QED
    BY <1>1, <2>3, <2>6 DEF EntriesInv, EntriesRight
<1>7. QED
  BY <1>4, <1>5, <1>6

LEMMA EntriesGoOn == ResultInv /\ EntriesInv /\ [Next]_vars => EntriesInv'
<1> SUFFICES ASSUME ResultInv, EntriesInv, [Next]_vars PROVE EntriesInv'
  OBVIOUS
<1>1. CASE \/ Begins \/ AddsLabel \/ Annotates \/ Builds \/ Pushes \/ Clears \/ Formats
           \/ Unloads \/ Configures
  BY <1>1, WorkGoesOn
<1>2. CASE Results
  BY <1>2 DEF Results, NoPipeline, EntriesInv
<1>3. CASE \/ LexerInitOk \/ LexerInitNotFound \/ TokenizeOk \/ TokenizeErr
           \/ ParseOk \/ ParseErr
  BY <1>3, ConstructStep
<1>4. CASE PushInitError
  <2>1. /\ role = "pipeline" /\ role' = role /\ cleared' = cleared
        /\ phase = "init_failed" /\ phase' = "report" /\ UnwrapErr("init")
        /\ PushEach(slots["init"].value) /\ UNCHANGED <<built, shown>>
    BY <1>4 DEF PushInitError, At
  <2>2. Errs = Own("init")
    BY <2>1 DEF EntriesInv, PipelineInv, ErrorsAt
  <2>3. QED
    BY <2>1, <2>2, PushErrorStep
<1>5. CASE PushParseErrors
  <2>1. /\ role = "pipeline" /\ role' = role /\ cleared' = cleared
        /\ phase = "unloaded" /\ phase' = "report" /\ UnwrapErr("parsed")
        /\ PushEach(slots["parsed"].value) /\ UNCHANGED <<built, shown>>
        /\ ~ slots["parsed"].is_ok
    BY <1>5 DEF PushParseErrors, At
  <2>2. Errs = Own("parsed")
    BY <2>1 DEF EntriesInv, PipelineInv, ErrorsAt
  <2>3. QED
    BY <2>1, <2>2, PushErrorStep
<1>6. CASE TakeErrors \/ PushConverted
  BY <1>6, ConvertStep
<1>7. CASE LexerInitInvalid \/ TakeTokens \/ UnloadSource
  BY <1>7, QuietStep
<1>8. CASE TakeContext \/ PrintErrors \/ Return
  BY <1>8, EndStep
<1>9. CASE UNCHANGED vars
  <2>1. /\ UNCHANGED <<built, entries, shown, pushed, cleared, page, role, phase>>
        /\ UNCHANGED <<slots, kinds, taken>>
    BY <1>9 DEF vars, engineVars, resultVars
  <2>2. Built' = Built /\ Errs' = Errs
    BY <2>1, BuiltStays
  <2>3. \A s : Own(s)' = Own(s) /\ (Alive(s)' <=> Alive(s))
    BY <2>1 DEF Own, Alive
  <2>4. EntriesRight => EntriesRight'
    BY <2>1, <2>2, EntriesStay
  <2>5. PipelineInv => PipelineInv'
    BY <2>1, <2>2, <2>3 DEF PipelineInv, VectorsAt, ErrorsAt, InPushOrder, Position
  <2>6. QED
    BY <2>1, <2>4, <2>5 DEF EntriesInv, EntriesRight
<1>10. QED
  BY <1>1, <1>2, <1>3, <1>4, <1>5, <1>6, <1>7, <1>8, <1>9 DEF Next, Pipeline

-----------------------------------------------------------------------------
(* The theorem                                                             *)

\* However entries are built, pushed, popped, formatted and cleared, each is in
\* one place and shown in order, and a compilation that has failed has shown
\* every error it was given by the time it returns, in the order they came.
THEOREM EntriesCorrect == Spec => []EntriesKept
<1>1. Init => ResultInv /\ EntriesInv
  BY ResultsStart, EntriesStart
<1>2. ResultInv /\ EntriesInv /\ [Next]_vars => ResultInv' /\ EntriesInv'
  BY ResultsGoOn, EntriesGoOn
<1>3. ResultInv /\ EntriesInv => EntriesKept
  BY InvKept
<1>4. QED
  BY <1>1, <1>2, <1>3, PTL DEF Spec
=============================================================================
