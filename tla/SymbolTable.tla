---------------------------- MODULE SymbolTable ----------------------------
(***************************************************************************)
(* resolver::SymbolTable: the declarations of every open scope in one      *)
(* vector, the newest declaration of each name reachable in one step       *)
(* through top_of_name, and the declaration it shadows through prev.       *)
(*                                                                         *)
(* The vectors keep the code's 0-based indices, with None (-1) for "no     *)
(* entry": entry i of the code is symbols[i + 1].  pop_scope is a loop;    *)
(* each of its iterations is an action (PopSymbol), and `unwind' holds the *)
(* loop's local variable `marker' while it runs, so that the state between *)
(* two iterations is visible.  No other operation runs meanwhile.          *)
(***************************************************************************)
EXTENDS Integers, Sequences

CONSTANTS
  MaxName,            \* string ids that name symbols are 0 .. MaxName
  kInvalidStringId,   \* the id StringInterner::lookup gives an unknown string
  Targets,            \* the hir::NodeIds a symbol can be declared with
  kInvalidNodeId,     \* what resolve() returns for an unknown name
  kInt32Max,          \* the largest index declare()'s int32_t can hold
  MaxSymbols,         \* bound on live declarations
  MaxScopes           \* bound on nested scopes

\* declare() casts symbols_.size() to int32_t, which is the identity while the
\* table has no more than kInt32Max entries.
ASSUME SymbolTableAssumption ==
  /\ MaxName \in Nat
  /\ kInvalidStringId \in Nat
  /\ MaxName < kInvalidStringId
  /\ MaxSymbols \in Nat
  /\ kInt32Max \in Nat
  /\ MaxSymbols <= kInt32Max
  /\ MaxScopes \in Nat

Names == 0 .. MaxName

None == -1
Idle == -1

VARIABLES
  symbols,         \* symbols_: sequence of [name, target, prev]
  top_of_name,     \* top_of_name_: name -> index of its newest entry or None
  scope_markers,   \* scope_markers_: size of symbols_ at each push_scope
  unwind           \* Idle, or the marker a running pop_scope pops back to

vars == <<symbols, top_of_name, scope_markers, unwind>>

SymbolEntry ==
  [name: Names, target: Targets, prev: None .. MaxSymbols - 1]

Init ==
  /\ symbols = << >>
  /\ top_of_name = [n \in {} |-> None]
  /\ scope_markers = << >>
  /\ unwind = Idle

-----------------------------------------------------------------------------
(* Operations                                                              *)

PushScope ==
  /\ unwind = Idle
  /\ Len(scope_markers) < MaxScopes
  /\ scope_markers' = Append(scope_markers, Len(symbols))
  /\ UNCHANGED <<symbols, top_of_name, unwind>>

\* Wrong versions, one plausible slip each, to see the properties notice it.
EnsureTopSize_OneTooMany(name) ==
  [n \in DOMAIN top_of_name \cup 0 .. name + 1 |->
     IF n \in DOMAIN top_of_name THEN top_of_name[n] ELSE None]

\* ensure_top_size: the vector only ever grows, filled with -1.
EnsureTopSize(name) ==
  [n \in DOMAIN top_of_name \cup 0 .. name |->
     IF n \in DOMAIN top_of_name THEN top_of_name[n] ELSE None]

Declare_ForgetsShadowed(name, target) ==
  /\ unwind = Idle
  /\ Len(symbols) < MaxSymbols
  /\ LET top == EnsureTopSize(name) IN
       /\ symbols' = Append(symbols, [name   |-> name,
                                      target |-> target,
                                      prev   |-> None])
       /\ top_of_name' = [top EXCEPT ![name] = Len(symbols)]
  /\ UNCHANGED <<scope_markers, unwind>>

Declare_SizeAfterPush(name, target) ==
  /\ unwind = Idle
  /\ Len(symbols) < MaxSymbols
  /\ LET top == EnsureTopSize(name) IN
       /\ symbols' = Append(symbols, [name   |-> name,
                                      target |-> target,
                                      prev   |-> top[name]])
       /\ top_of_name' = [top EXCEPT ![name] = Len(symbols) + 1]
  /\ UNCHANGED <<scope_markers, unwind>>

Declare(name, target) ==
  /\ unwind = Idle
  /\ Len(symbols) < MaxSymbols
  /\ LET top == EnsureTopSize(name) IN
       /\ symbols' = Append(symbols, [name   |-> name,
                                      target |-> target,
                                      prev   |-> top[name]])
       /\ top_of_name' = [top EXCEPT ![name] = Len(symbols)]
  /\ UNCHANGED <<scope_markers, unwind>>

PopScope_OutermostMarker ==
  /\ unwind = Idle
  /\ scope_markers # << >>
  /\ unwind' = scope_markers[1]
  /\ scope_markers' = SubSeq(scope_markers, 1, Len(scope_markers) - 1)
  /\ UNCHANGED <<symbols, top_of_name>>

\* pop_scope up to its loop.  DCHECK(!scope_markers_.empty()) is the guard.
PopScope ==
  /\ unwind = Idle
  /\ scope_markers # << >>
  /\ unwind' = scope_markers[Len(scope_markers)]
  /\ scope_markers' = SubSeq(scope_markers, 1, Len(scope_markers) - 1)
  /\ UNCHANGED <<symbols, top_of_name>>

PopSymbol_DropsName ==
  /\ unwind # Idle
  /\ Len(symbols) > unwind
  /\ top_of_name' = [top_of_name EXCEPT ![symbols[Len(symbols)].name] = None]
  /\ symbols' = SubSeq(symbols, 1, Len(symbols) - 1)
  /\ UNCHANGED <<scope_markers, unwind>>

\* One iteration of pop_scope's loop.
PopSymbol ==
  /\ unwind # Idle
  /\ Len(symbols) > unwind
  /\ LET e == symbols[Len(symbols)] IN
       top_of_name' = [top_of_name EXCEPT ![e.name] = e.prev]
  /\ symbols' = SubSeq(symbols, 1, Len(symbols) - 1)
  /\ UNCHANGED <<scope_markers, unwind>>

\* pop_scope's loop condition fails and the call returns.
PopReturn ==
  /\ unwind # Idle
  /\ Len(symbols) <= unwind
  /\ unwind' = Idle
  /\ UNCHANGED <<symbols, top_of_name, scope_markers>>

Resolve_ZeroIsNone(id) ==
  IF id \notin DOMAIN top_of_name \/ top_of_name[id] <= 0
  THEN kInvalidNodeId
  ELSE symbols[top_of_name[id] + 1].target

Resolve(id) ==
  IF id \notin DOMAIN top_of_name \/ top_of_name[id] < 0
  THEN kInvalidNodeId
  ELSE symbols[top_of_name[id] + 1].target

Next ==
  \/ PushScope
  \/ \E name \in Names, target \in Targets : Declare(name, target)
  \/ PopScope
  \/ PopSymbol
  \/ PopReturn

Spec == Init /\ [][Next]_vars

-----------------------------------------------------------------------------
(* Properties                                                              *)

\* Every vector holds what its C++ type says, and never more than its bound.
TypeOK ==
  /\ symbols \in Seq(SymbolEntry)
  /\ Len(symbols) <= MaxSymbols
  /\ DOMAIN top_of_name \in SUBSET Names
  /\ \A n \in DOMAIN top_of_name : top_of_name[n] \in None .. MaxSymbols - 1
  /\ scope_markers \in Seq(0 .. MaxSymbols)
  /\ Len(scope_markers) <= MaxScopes
  /\ unwind \in Idle .. MaxSymbols

\* i is where, among the first m entries of s, the newest one named n is: 0
\* if there is none.
IsLast(s, i, n, m) ==
  /\ i \in 0 .. m
  /\ i > 0 => s[i].name = n
  /\ \A j \in i + 1 .. m : s[j].name # n

LastDecl(s, n, m) == CHOOSE i \in 0 .. m : IsLast(s, i, n, m)

\* The environment made by the first m declarations of s.
EnvOf(s, m) ==
  [n \in Names |-> IF LastDecl(s, n, m) = 0
                   THEN kInvalidNodeId
                   ELSE s[LastDecl(s, n, m)].target]

\* Following prev from any live entry reaches the declaration it shadows and
\* skips none, so that popping entries one by one can restore top_of_name.
\* This has to survive entries being popped and their slots reused.
ShadowChainIntact ==
  \A k \in 1 .. Len(symbols) :
    IsLast(symbols, symbols[k].prev + 1, symbols[k].name, k - 1)

\* top_of_name agrees with the declarations, also between two iterations of
\* pop_scope: no stale index survives the entry it pointed at.
TopIsNewest ==
  \A n \in Names :
    IsLast(symbols, IF n \in DOMAIN top_of_name THEN top_of_name[n] + 1 ELSE 0,
           n, Len(symbols))

\* resolve() answers with the innermost live declaration of a name, for every
\* id a caller can pass: an id no declaration ever used, and the
\* kInvalidStringId that StringInterner::lookup returns for unknown text
\* (resolve_by_name passes it on unchecked), denote nothing.
ResolveIsInnermost ==
  /\ \A n \in Names : Resolve(n) = EnvOf(symbols, Len(symbols))[n]
  /\ Resolve(kInvalidStringId) = kInvalidNodeId

\* The markers of open scopes never decrease inwards and never point past the
\* declarations that are left, also while an inner scope is being unwound.
MarkersNested ==
  /\ \A i, j \in 1 .. Len(scope_markers) :
       i <= j => scope_markers[i] <= scope_markers[j]
  /\ \A i \in 1 .. Len(scope_markers) :
       /\ scope_markers[i] <= Len(symbols)
       /\ unwind # Idle => scope_markers[i] <= unwind
  /\ unwind <= Len(symbols)

\* The table implements nested environments: leaving a scope, however many
\* names it declared or shadowed and however often, brings back the
\* environment in force when the scope was entered.  The environment is what
\* resolve() answers; while pop_scope runs, and nobody can ask, it is the one
\* pop_scope works towards, so the abstract Leave happens when pop_scope takes
\* its marker and unwinding is a stutter.
EnvNow == IF unwind = Idle THEN [n \in Names |-> Resolve(n)]
                           ELSE EnvOf(symbols, unwind)

EnvsSaved == [i \in 1 .. Len(scope_markers) |-> EnvOf(symbols, scope_markers[i])]

Env == INSTANCE ScopedEnv WITH
  NoTarget <- kInvalidNodeId, env <- EnvNow, saved <- EnvsSaved

ImplementsScopedEnv == Env!Spec
=============================================================================
