------------------------------- MODULE Result -------------------------------
(***************************************************************************)
(* diagnostic::Result<T, E>: a flag and a union, constructed, copied,      *)
(* moved, assigned, unwrapped and destroyed by hand.                       *)
(*                                                                         *)
(* Payloads are numbered in the order they are created, copies included,   *)
(* so that each can be followed to where it ends.  A value is a sequence   *)
(* of them, as T and E are vectors or single objects; moved from, it is    *)
(* empty.  map(), map_err() and and_then() are not here: no instance of    *)
(* them compiles, a Result having no constructor from a bare error.        *)
(***************************************************************************)
EXTENDS Naturals, Sequences, SequencesExt

CONSTANTS
  ResultSlots,  \* the places a Result may live in
  VoidSlots     \* those of a Result<void, E>

ASSUME ResultAssumption == VoidSlots \subseteq ResultSlots

VARIABLES
  slots,      \* the Result in each place
  kinds,      \* what each payload was created as
  taken,      \* the payloads that were unwrapped
  destroyed   \* the payloads whose destructor ran

resultVars == <<slots, kinds, taken, destroyed>>

NoResult == [alive |-> FALSE]

MemberFor(s, is_ok) ==
  IF ~ is_ok THEN "err" ELSE IF s \in VoidSlots THEN "none" ELSE "ok"

ResultOf(s, is_ok, value) ==
  [alive |-> TRUE, is_ok |-> is_ok, member |-> MemberFor(s, is_ok), value |-> value]

Alive(s) == slots[s].alive
SameType(s, t) == s \in VoidSlots <=> t \in VoidSlots

Fresh(n) == [i \in 1 .. n |-> Len(kinds) + i]
Creates(kind, n) == kinds' = kinds \o [i \in 1 .. n |-> kind]

\* The destructor goes by the flag, and destroys nothing it can find if that
\* names another member than the one that was constructed.
Destructed(s) ==
  IF slots[s].member = MemberFor(s, slots[s].is_ok)
  THEN Range(slots[s].value) ELSE {}

----------------------------------------------------------------------------

ConstructOk(s, n) ==
  /\ ~ Alive(s)
  /\ s \in VoidSlots => n = 0
  /\ slots' = [slots EXCEPT ![s] = ResultOf(s, TRUE, Fresh(n))]
  /\ Creates("ok", n)
  /\ UNCHANGED <<taken, destroyed>>

ConstructErr(s, n) ==
  /\ ~ Alive(s)
  /\ slots' = [slots EXCEPT ![s] = ResultOf(s, FALSE, Fresh(n))]
  /\ Creates("err", n)
  /\ UNCHANGED <<taken, destroyed>>

EndResult(s) ==
  /\ Alive(s)
  /\ slots' = [slots EXCEPT ![s] = NoResult]
  /\ destroyed' = destroyed \cup Destructed(s)
  /\ UNCHANGED <<kinds, taken>>

\* The flag of the source stays, and its value is one that was moved from.
Moved(s, t) ==
  slots' = [slots EXCEPT ![s] = ResultOf(s, slots[t].is_ok, slots[t].value),
                         ![t].value = << >>]

Copied(s, t) ==
  /\ slots' = [slots EXCEPT ![s] = ResultOf(s, slots[t].is_ok,
                                            Fresh(Len(slots[t].value)))]
  /\ Creates(slots[t].member, Len(slots[t].value))

MoveConstruct(s, t) ==
  /\ ~ Alive(s) /\ Alive(t) /\ SameType(s, t)
  /\ Moved(s, t)
  /\ UNCHANGED <<kinds, taken, destroyed>>

CopyConstruct(s, t) ==
  /\ ~ Alive(s) /\ Alive(t) /\ SameType(s, t)
  /\ Copied(s, t)
  /\ UNCHANGED <<taken, destroyed>>

\* A wrong version: the value that is replaced is not destroyed.
MoveAssign_NoDestructor(s, t) ==
  /\ Alive(s) /\ Alive(t) /\ SameType(s, t)
  /\ IF s = t THEN UNCHANGED slots ELSE Moved(s, t)
  /\ UNCHANGED <<kinds, taken, destroyed>>

MoveAssign(s, t) ==
  /\ Alive(s) /\ Alive(t) /\ SameType(s, t)
  /\ IF s = t THEN UNCHANGED <<slots, destroyed>>
     ELSE Moved(s, t) /\ destroyed' = destroyed \cup Destructed(s)
  /\ UNCHANGED <<kinds, taken>>

CopyAssign(s, t) ==
  /\ Alive(s) /\ Alive(t) /\ SameType(s, t)
  /\ IF s = t THEN UNCHANGED <<slots, kinds, destroyed>>
     ELSE Copied(s, t) /\ destroyed' = destroyed \cup Destructed(s)
  /\ UNCHANGED taken

\* unwrap() and unwrap_err() of a Result about to end, which is asked first
\* whether it has what is taken out.
Taken(s) ==
  /\ slots' = [slots EXCEPT ![s].value = << >>]
  /\ taken' = taken \cup Range(slots[s].value)

Unwrap(s) ==
  /\ Alive(s) /\ slots[s].is_ok
  /\ Taken(s)
  /\ UNCHANGED <<kinds, destroyed>>

UnwrapErr(s) ==
  /\ Alive(s) /\ ~ slots[s].is_ok
  /\ Taken(s)
  /\ UNCHANGED <<kinds, destroyed>>

\* The default is an object of the caller's, taken when it is needed and
\* destroyed when it is not.
UnwrapOr(s, n) ==
  /\ Alive(s) /\ s \notin VoidSlots
  /\ Creates("ok", n)
  /\ IF slots[s].is_ok
     THEN Taken(s) /\ destroyed' = destroyed \cup Range(Fresh(n))
     ELSE taken' = taken \cup Range(Fresh(n)) /\ UNCHANGED <<slots, destroyed>>

----------------------------------------------------------------------------

InSlots == UNION {Range(slots[s].value) : s \in {t \in ResultSlots : Alive(t)}}

\* However results are constructed, copied, moved, assigned to themselves or
\* over one another, unwrapped and destroyed: each payload is in exactly one
\* Result, or was handed to the caller once, or destroyed once, and the flag of
\* a Result names the member of its union that holds one.
PayloadsOwned ==
  /\ \A s \in {t \in ResultSlots : Alive(t)} :
       /\ slots[s].member = MemberFor(s, slots[s].is_ok)
       /\ \A i \in DOMAIN slots[s].value : kinds[slots[s].value[i]] = slots[s].member
       /\ IsInjective(slots[s].value)
       /\ \A t \in ResultSlots \ {s} :
            Alive(t) => Range(slots[s].value) \cap Range(slots[t].value) = {}
  /\ InSlots \cup taken \cup destroyed = {n \in DOMAIN kinds : kinds[n] # "entry"}
  /\ InSlots \cap taken = {} /\ InSlots \cap destroyed = {} /\ taken \cap destroyed = {}
============================================================================
