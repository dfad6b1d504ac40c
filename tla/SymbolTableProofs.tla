------------------------- MODULE SymbolTableProofs -------------------------
(***************************************************************************)
(* Proofs about SymbolTable for every number of names, nodes, symbols and  *)
(* scopes.                                                                 *)
(***************************************************************************)
EXTENDS SymbolTable, SequenceTheorems, TLAPS

\* Each prefix of the declarations has a newest entry for each name (or none,
\* 0): what makes LastDecl a value and not an arbitrary choice.
LastExists ==
  \A n \in Names, m \in 0 .. Len(symbols) :
    \E i \in 0 .. m : IsLast(symbols, i, n, m)

IInv ==
  /\ TypeOK
  /\ ShadowChainIntact
  /\ TopIsNewest
  /\ MarkersNested
  /\ LastExists

\* The newest entry of a name is unique, so LastDecl returns it.
LEMMA LastDeclIsLast ==
  ASSUME NEW s, NEW n, NEW m \in Nat, NEW i \in 0 .. m, IsLast(s, i, n, m)
  PROVE  LastDecl(s, n, m) = i
<1>1. IsLast(s, LastDecl(s, n, m), n, m) /\ LastDecl(s, n, m) \in 0 .. m
  BY DEF LastDecl
<1>2. QED
  BY <1>1 DEF IsLast

\* Appending an entry leaves the earlier ones in place.
LEMMA AppendKeeps ==
  ASSUME NEW S, NEW s \in Seq(S), NEW e \in S
  PROVE  /\ Append(s, e) \in Seq(S)
         /\ Len(Append(s, e)) = Len(s) + 1
         /\ \A i \in 1 .. Len(s) : Append(s, e)[i] = s[i]
         /\ Append(s, e)[Len(s) + 1] = e
  OBVIOUS

\* pop_back leaves the earlier entries in place.
LEMMA PopBackKeeps ==
  ASSUME NEW S, NEW s \in Seq(S), Len(s) > 0
  PROVE  /\ SubSeq(s, 1, Len(s) - 1) \in Seq(S)
         /\ Len(SubSeq(s, 1, Len(s) - 1)) = Len(s) - 1
         /\ \A i \in 1 .. Len(s) - 1 : SubSeq(s, 1, Len(s) - 1)[i] = s[i]
<1>1. Len(s) \in Nat
  OBVIOUS
<1>2. \A i \in 1 .. Len(s) - 1 : s[i] \in S
  BY <1>1
<1> DEFINE n == Len(s) - 1
<1>3. n \in Int /\ 1 \in Int /\ n - 1 + 1 = n
  BY <1>1
<1>4. /\ SubSeq(s, 1, n) \in Seq(S)
      /\ Len(SubSeq(s, 1, n)) = IF 1 <= n THEN n - 1 + 1 ELSE 0
      /\ \A i \in 1 .. n - 1 + 1 : SubSeq(s, 1, n)[i] = s[1 + i - 1]
  BY <1>2, <1>3, SubSeqProperties
<1>5. QED
  BY <1>1, <1>3, <1>4

LEMMA InitIInv == Init => IInv
<1> SUFFICES ASSUME Init PROVE IInv
  OBVIOUS
<1> USE SymbolTableAssumption DEF Init, Names, None, Idle
<1>1. TypeOK
  BY DEF TypeOK
<1>2. ShadowChainIntact
  BY DEF ShadowChainIntact
<1>3. TopIsNewest
  BY DEF TopIsNewest, IsLast
<1>4. MarkersNested
  BY DEF MarkersNested
<1>5. LastExists
  BY DEF LastExists, IsLast
<1>6. QED
  BY <1>1, <1>2, <1>3, <1>4, <1>5 DEF IInv

\* What is newest among the first m entries does not depend on the others.
LEMMA IsLastStable ==
  ASSUME NEW s, NEW t, NEW n, NEW m \in Nat, NEW i,
         \A j \in 1 .. m : t[j] = s[j]
  PROVE  IsLast(t, i, n, m) <=> IsLast(s, i, n, m)
BY DEF IsLast

\* Steps that leave the declarations and the index alone keep what is said of
\* them; only the markers need an argument.
LEMMA SameTable ==
  ASSUME IInv, UNCHANGED <<symbols, top_of_name>>
  PROVE  ShadowChainIntact' /\ TopIsNewest' /\ LastExists'
<1>1. \A n, i, m : IsLast(symbols', i, n, m) <=> IsLast(symbols, i, n, m)
  BY DEF IsLast
<1>2. symbols' = symbols /\ top_of_name' = top_of_name
  OBVIOUS
<1>3. ShadowChainIntact'
  BY <1>2 DEF IInv, ShadowChainIntact, IsLast
<1>4. TopIsNewest'
  BY <1>2 DEF IInv, TopIsNewest, IsLast, Names
<1>5. LastExists'
  BY <1>1, <1>2 DEF IInv, LastExists, Names
<1>6. QED
  BY <1>3, <1>4, <1>5

LEMMA PushScopeIInv == IInv /\ PushScope => IInv'
<1> SUFFICES ASSUME IInv, PushScope PROVE IInv'
  OBVIOUS
<1> USE SymbolTableAssumption DEF IInv, Idle, None
<1>1. /\ Len(symbols) \in 0 .. MaxSymbols
      /\ scope_markers' \in Seq(0 .. MaxSymbols)
      /\ Len(scope_markers') = Len(scope_markers) + 1
      /\ \A i \in 1 .. Len(scope_markers) :
           scope_markers'[i] = scope_markers[i]
      /\ scope_markers'[Len(scope_markers) + 1] = Len(symbols)
  BY AppendKeeps DEF PushScope, TypeOK
<1>2. TypeOK'
  BY <1>1 DEF PushScope, TypeOK, SymbolEntry, Names
<1>3. UNCHANGED <<symbols, top_of_name>>
  BY DEF PushScope
<1>4. ShadowChainIntact' /\ TopIsNewest' /\ LastExists'
  BY <1>3, SameTable
<1>5. MarkersNested'
  <2> DEFINE K == Len(scope_markers)
  <2>1. K \in Nat /\ unwind' = Idle /\ Len(symbols') = Len(symbols)
    BY DEF PushScope, TypeOK
  <2>2. \A i \in 1 .. K : scope_markers[i] \in Int /\ scope_markers[i] <= Len(symbols)
    BY DEF MarkersNested, TypeOK
  <2>3. \A i \in 1 .. K + 1 :
          scope_markers'[i] = IF i <= K THEN scope_markers[i] ELSE Len(symbols)
    BY <1>1, <2>1
  <2>4. \A i, j \in 1 .. K + 1 :
          i <= j => scope_markers'[i] <= scope_markers'[j]
    <3> TAKE i, j \in 1 .. K + 1
    <3> HAVE i <= j
    <3>1. CASE j <= K
      BY <2>1, <2>3, <3>1 DEF MarkersNested
    <3>2. CASE j = K + 1
      BY <1>1, <2>1, <2>2, <2>3, <3>2
    <3>3. QED
      BY <2>1, <3>1, <3>2
  <2>5. \A i \in 1 .. K + 1 : scope_markers'[i] <= Len(symbols')
    BY <1>1, <2>1, <2>2, <2>3
  <2>6. QED
    BY <1>1, <2>1, <2>4, <2>5 DEF MarkersNested
<1>6. QED
  BY <1>2, <1>4, <1>5

\* The facts about one Declare that every part of the invariant needs.
LEMMA DeclareFacts ==
  ASSUME IInv, NEW name \in Names, NEW target \in Targets,
         Declare(name, target)
  PROVE  /\ Len(symbols) \in 0 .. MaxSymbols - 1
         /\ symbols' \in Seq(SymbolEntry)
         /\ Len(symbols') = Len(symbols) + 1
         /\ \A i \in 1 .. Len(symbols) : symbols'[i] = symbols[i]
         /\ symbols'[Len(symbols) + 1].name = name
         /\ symbols'[Len(symbols) + 1].target = target
         /\ symbols'[Len(symbols) + 1].prev
              = IF name \in DOMAIN top_of_name THEN top_of_name[name] ELSE None
         /\ name \in DOMAIN top_of_name'
         /\ top_of_name'[name] = Len(symbols)
         /\ DOMAIN top_of_name' \in SUBSET Names
         /\ \A n \in Names \ {name} :
              (IF n \in DOMAIN top_of_name' THEN top_of_name'[n] ELSE None)
                = (IF n \in DOMAIN top_of_name THEN top_of_name[n] ELSE None)
<1> USE SymbolTableAssumption DEF Names, None
<1> DEFINE top == EnsureTopSize(name)
           e == [name |-> name, target |-> target, prev |-> top[name]]
<1>1. Len(symbols) \in 0 .. MaxSymbols - 1
  BY DEF Declare, IInv, TypeOK
<1>2. /\ name \in DOMAIN top
      /\ DOMAIN top \in SUBSET Names
      /\ \A n \in DOMAIN top :
           top[n] = IF n \in DOMAIN top_of_name THEN top_of_name[n] ELSE None
      /\ DOMAIN top_of_name \in SUBSET DOMAIN top
  BY DEF EnsureTopSize, IInv, TypeOK
<1>3. top[name] \in None .. MaxSymbols - 1
  BY <1>2 DEF IInv, TypeOK
<1>4. e \in SymbolEntry
  BY <1>3 DEF SymbolEntry
<1>5. symbols' = Append(symbols, e) /\ top_of_name' = [top EXCEPT ![name] = Len(symbols)]
  BY DEF Declare
<1> HIDE DEF top
<1>6. /\ symbols' \in Seq(SymbolEntry)
      /\ Len(symbols') = Len(symbols) + 1
      /\ \A i \in 1 .. Len(symbols) : symbols'[i] = symbols[i]
      /\ symbols'[Len(symbols) + 1] = e
  BY <1>4, <1>5, AppendKeeps DEF IInv, TypeOK
<1>7. /\ name \in DOMAIN top_of_name'
      /\ top_of_name'[name] = Len(symbols)
      /\ DOMAIN top_of_name' \in SUBSET Names
      /\ \A n \in Names \ {name} :
           (IF n \in DOMAIN top_of_name' THEN top_of_name'[n] ELSE None)
             = (IF n \in DOMAIN top_of_name THEN top_of_name[n] ELSE None)
  BY <1>2, <1>5
<1>8. QED
  BY <1>1, <1>2, <1>6, <1>7

LEMMA DeclareIInv ==
  ASSUME IInv, NEW name \in Names, NEW target \in Targets,
         Declare(name, target)
  PROVE  IInv'
<1> USE SymbolTableAssumption DEF Idle, None
<1>0. PICK L \in Nat : L = Len(symbols)
  BY DEF IInv, TypeOK
<1>1. /\ L \in 0 .. MaxSymbols - 1
      /\ symbols' \in Seq(SymbolEntry)
      /\ Len(symbols') = L + 1
      /\ \A i \in 1 .. L : symbols'[i] = symbols[i]
      /\ symbols'[L + 1].name = name
      /\ symbols'[L + 1].prev
           = IF name \in DOMAIN top_of_name THEN top_of_name[name] ELSE None
      /\ name \in DOMAIN top_of_name'
      /\ top_of_name'[name] = L
      /\ DOMAIN top_of_name' \in SUBSET Names
      /\ \A n \in Names \ {name} :
           (IF n \in DOMAIN top_of_name' THEN top_of_name'[n] ELSE None)
             = (IF n \in DOMAIN top_of_name THEN top_of_name[n] ELSE None)
  BY <1>0, DeclareFacts
<1>2. unwind' = unwind /\ scope_markers' = scope_markers /\ unwind = Idle
  BY DEF Declare
<1>3. TypeOK'
  <2>1. \A n \in DOMAIN top_of_name' :
          top_of_name'[n] \in None .. MaxSymbols - 1
    <3> SUFFICES ASSUME NEW n \in DOMAIN top_of_name'
                 PROVE  top_of_name'[n] \in None .. MaxSymbols - 1
      OBVIOUS
    <3>1. CASE n = name
      BY <1>1, <3>1
    <3>2. CASE n # name
      <4>1. n \in Names \ {name}
        BY <1>1, <3>2
      <4>2. top_of_name'[n]
              = IF n \in DOMAIN top_of_name THEN top_of_name[n] ELSE None
        BY <1>1, <4>1
      <4>3. QED
        BY <1>1, <4>2 DEF IInv, TypeOK
    <3>3. QED
      BY <3>1, <3>2
  <2>2. QED
    BY <1>1, <1>2, <2>1 DEF IInv, TypeOK, SymbolEntry, Names
<1>4. \A n, i : \A m \in 0 .. L : IsLast(symbols', i, n, m) <=> IsLast(symbols, i, n, m)
  BY <1>1, IsLastStable
<1>5. \A n \in Names :
        IsLast(symbols, IF n \in DOMAIN top_of_name THEN top_of_name[n] + 1 ELSE 0, n, L)
  BY <1>0 DEF IInv, TopIsNewest
<1>6. ShadowChainIntact'
  <2> SUFFICES ASSUME NEW k \in 1 .. L + 1
               PROVE  IsLast(symbols', symbols'[k].prev + 1, symbols'[k].name, k - 1)
    BY <1>1 DEF ShadowChainIntact
  <2>1. CASE k \in 1 .. L
    <3>1. IsLast(symbols, symbols[k].prev + 1, symbols[k].name, k - 1)
      BY <1>0, <2>1 DEF IInv, ShadowChainIntact
    <3>2. QED
      BY <1>1, <2>1, <3>1 DEF IsLast
  <2>2. CASE k = L + 1
    <3>1. PICK i \in Int : i = symbols'[k].prev + 1
      BY <1>1, <2>2 DEF IInv, TypeOK
    <3>2. i = IF name \in DOMAIN top_of_name THEN top_of_name[name] + 1 ELSE 0
      BY <1>1, <2>2, <3>1
    <3>3. IsLast(symbols, i, name, L)
      BY <1>5, <3>2
    <3>4. IsLast(symbols', i, name, L)
      BY <1>4, <3>3
    <3>5. QED
      BY <1>1, <2>2, <3>1, <3>4
  <2>3. QED
    BY <1>1, <2>1, <2>2
<1>7. TopIsNewest'
  <2> SUFFICES ASSUME NEW n \in Names
               PROVE  IsLast(symbols', IF n \in DOMAIN top_of_name'
                                       THEN top_of_name'[n] + 1 ELSE 0,
                             n, Len(symbols'))
    BY DEF TopIsNewest, Names
  <2>1. CASE n = name
    BY <1>1, <2>1 DEF IsLast
  <2>2. CASE n # name
    <3>1. PICK i \in Int : i = IF n \in DOMAIN top_of_name
                               THEN top_of_name[n] + 1 ELSE 0
      BY DEF IInv, TypeOK
    <3>2. i = IF n \in DOMAIN top_of_name' THEN top_of_name'[n] + 1 ELSE 0
      BY <1>1, <2>2, <3>1 DEF IInv, TypeOK
    <3>3. IsLast(symbols, i, n, L)
      BY <1>5, <3>1
    <3>4. IsLast(symbols', i, n, L)
      BY <1>4, <3>3
    <3>5. IsLast(symbols', i, n, L + 1)
      BY <1>1, <2>2, <3>4 DEF IsLast
    <3>6. QED
      BY <1>1, <3>2, <3>5
  <2>3. QED
    BY <2>1, <2>2
<1>8. MarkersNested'
  BY <1>0, <1>1, <1>2 DEF IInv, MarkersNested, TypeOK
<1>9. LastExists'
  <2> SUFFICES ASSUME NEW n \in Names, NEW m \in 0 .. L + 1
               PROVE  \E i \in 0 .. m : IsLast(symbols', i, n, m)
    BY <1>1 DEF LastExists, Names
  <2>1. CASE m \in 0 .. L
    BY <1>0, <1>4, <2>1 DEF IInv, LastExists
  <2>2. CASE m = L + 1
    <3>1. PICK i \in 0 .. L : IsLast(symbols', i, n, L)
      BY <1>0, <1>4 DEF IInv, LastExists
    <3>2. CASE n = name
      BY <1>1, <2>2, <3>2 DEF IsLast
    <3>3. CASE n # name
      BY <1>1, <2>2, <3>1, <3>3 DEF IsLast
    <3>4. QED
      BY <3>2, <3>3
  <2>3. QED
    BY <2>1, <2>2
<1>10. QED
  BY <1>3, <1>6, <1>7, <1>8, <1>9 DEF IInv

LEMMA PopScopeIInv == IInv /\ PopScope => IInv'
<1> SUFFICES ASSUME IInv, PopScope PROVE IInv'
  OBVIOUS
<1> USE SymbolTableAssumption DEF Idle, None
<1>1. /\ Len(scope_markers) \in Nat \ {0}
      /\ unwind' = scope_markers[Len(scope_markers)]
      /\ unwind' \in 0 .. MaxSymbols
      /\ scope_markers' \in Seq(0 .. MaxSymbols)
      /\ Len(scope_markers') = Len(scope_markers) - 1
      /\ \A i \in 1 .. Len(scope_markers) - 1 :
           scope_markers'[i] = scope_markers[i]
  <2>1. Len(scope_markers) \in Nat \ {0} /\ scope_markers \in Seq(0 .. MaxSymbols)
    BY DEF PopScope, IInv, TypeOK
  <2>2. scope_markers[Len(scope_markers)] \in 0 .. MaxSymbols
    BY <2>1
  <2>3. QED
    BY <2>1, <2>2, PopBackKeeps DEF PopScope
<1>2. UNCHANGED <<symbols, top_of_name>>
  BY DEF PopScope
<1>3. TypeOK'
  BY <1>1, <1>2 DEF IInv, TypeOK, SymbolEntry, Names
<1>4. MarkersNested'
  <2> DEFINE K == Len(scope_markers)
  <2>1. symbols' = symbols /\ \A i \in 1 .. K : scope_markers[i] \in 0 .. MaxSymbols
    BY <1>2 DEF IInv, TypeOK
  <2>2. \A i, j \in 1 .. K : i <= j => scope_markers[i] <= scope_markers[j]
    BY DEF IInv, MarkersNested
  <2>3. \A i \in 1 .. K : scope_markers[i] <= Len(symbols)
    BY DEF IInv, MarkersNested
  <2>4. \A i \in 1 .. K - 1 :
          /\ scope_markers'[i] <= Len(symbols')
          /\ scope_markers'[i] <= unwind'
    <3> TAKE i \in 1 .. K - 1
    <3>1. K \in 1 .. K /\ i \in 1 .. K /\ i <= K
      BY <1>1
    <3>2. scope_markers'[i] = scope_markers[i] /\ unwind' = scope_markers[K]
      BY <1>1
    <3>3. scope_markers[i] <= Len(symbols) /\ scope_markers[i] <= scope_markers[K]
      BY <2>2, <2>3, <3>1
    <3>4. QED
      BY <2>1, <3>2, <3>3
  <2>5. \A i, j \in 1 .. K - 1 :
          i <= j => scope_markers'[i] <= scope_markers'[j]
    <3> TAKE i, j \in 1 .. K - 1
    <3>1. i \in 1 .. K /\ j \in 1 .. K
      BY <1>1
    <3>2. scope_markers'[i] = scope_markers[i] /\ scope_markers'[j] = scope_markers[j]
      BY <1>1
    <3>3. QED
      BY <2>2, <3>1, <3>2
  <2>6. unwind' <= Len(symbols')
    BY <1>1, <2>1, <2>3
  <2>7. QED
    BY <1>1, <2>4, <2>5, <2>6 DEF MarkersNested
<1>5. QED
  BY <1>2, <1>3, <1>4, SameTable DEF IInv

LEMMA PopReturnIInv == IInv /\ PopReturn => IInv'
<1> SUFFICES ASSUME IInv, PopReturn PROVE IInv'
  OBVIOUS
<1> USE SymbolTableAssumption DEF Idle, None
<1>1. /\ symbols' = symbols
      /\ top_of_name' = top_of_name
      /\ scope_markers' = scope_markers
      /\ unwind' = Idle
  BY DEF PopReturn
<1>2. TypeOK'
  BY <1>1 DEF IInv, TypeOK, SymbolEntry, Names
<1>3. MarkersNested'
  <2>1. Len(symbols') \in Nat
    BY <1>1 DEF IInv, TypeOK
  <2>2. \A i, j \in 1 .. Len(scope_markers') :
          i <= j => scope_markers'[i] <= scope_markers'[j]
    BY <1>1 DEF IInv, MarkersNested
  <2>3. \A i \in 1 .. Len(scope_markers') : scope_markers'[i] <= Len(symbols')
    BY <1>1 DEF IInv, MarkersNested
  <2>4. unwind' <= Len(symbols')
    BY <1>1, <2>1
  <2>5. QED
    BY <1>1, <2>2, <2>3, <2>4 DEF MarkersNested
<1>4. QED
  BY <1>1, <1>2, <1>3, SameTable DEF IInv

\* One iteration of the unwinding loop.  The entry it removes is the newest of
\* its name, so the index entry it overwrites pointed at it, and prev is where
\* the newest of the remaining ones is.
LEMMA PopSymbolIInv == IInv /\ PopSymbol => IInv'
<1> SUFFICES ASSUME IInv, PopSymbol PROVE IInv'
  OBVIOUS
<1> USE SymbolTableAssumption DEF Idle, None
<1>0. PICK L \in Nat : L + 1 = Len(symbols)
  BY DEF IInv, TypeOK, PopSymbol
<1>e. symbols[L + 1] \in SymbolEntry
  BY <1>0 DEF IInv, TypeOK
<1>1. PICK name \in Names : name = symbols[L + 1].name
  BY <1>e DEF SymbolEntry
<1>2. /\ symbols' \in Seq(SymbolEntry)
      /\ Len(symbols') = L
      /\ \A i \in 1 .. L : symbols'[i] = symbols[i]
      /\ L + 1 <= MaxSymbols
  BY <1>0, PopBackKeeps DEF PopSymbol, IInv, TypeOK
<1>3. symbols[L + 1].prev \in None .. MaxSymbols - 1
  BY <1>e DEF SymbolEntry
<1>4. name \in DOMAIN top_of_name
  <2>1. IsLast(symbols, IF name \in DOMAIN top_of_name
               THEN top_of_name[name] + 1 ELSE 0, name, L + 1)
    BY <1>0, <1>1 DEF IInv, TopIsNewest
  <2>2. ~ IsLast(symbols, 0, name, L + 1)
    BY <1>1 DEF IsLast
  <2>3. QED
    BY <2>1, <2>2
<1>5. top_of_name' = [top_of_name EXCEPT ![name] = symbols[L + 1].prev]
  BY <1>0, <1>1 DEF PopSymbol
<1>6. unwind' = unwind /\ scope_markers' = scope_markers /\ unwind <= L
  BY <1>0 DEF PopSymbol, IInv, TypeOK
<1>7. TypeOK'
  <2>1. DOMAIN top_of_name' = DOMAIN top_of_name
    BY <1>5
  <2>2. \A n \in DOMAIN top_of_name : top_of_name'[n] \in None .. MaxSymbols - 1
    BY <1>3, <1>5 DEF IInv, TypeOK
  <2>3. Len(symbols') <= MaxSymbols
    BY <1>2
  <2>4. QED
    BY <1>2, <1>6, <2>1, <2>2, <2>3 DEF IInv, TypeOK
<1>8. \A n, i : \A m \in 0 .. L : IsLast(symbols', i, n, m) <=> IsLast(symbols, i, n, m)
  BY <1>2, IsLastStable
<1>9. ShadowChainIntact'
  <2> SUFFICES ASSUME NEW k \in 1 .. L
               PROVE  IsLast(symbols', symbols'[k].prev + 1, symbols'[k].name, k - 1)
    BY <1>2 DEF ShadowChainIntact
  <2>1. IsLast(symbols, symbols[k].prev + 1, symbols[k].name, k - 1)
    BY <1>0 DEF IInv, ShadowChainIntact
  <2>2. QED
    BY <1>2, <2>1 DEF IsLast
<1>10. TopIsNewest'
  <2> SUFFICES ASSUME NEW n \in Names
               PROVE  IsLast(symbols', IF n \in DOMAIN top_of_name'
                                       THEN top_of_name'[n] + 1 ELSE 0,
                             n, Len(symbols'))
    BY DEF TopIsNewest, Names
  <2>1. CASE n = name
    <3>1. IsLast(symbols, symbols[L + 1].prev + 1, name, L)
      BY <1>0, <1>1 DEF IInv, ShadowChainIntact
    <3>2. PICK i \in Int : i = symbols[L + 1].prev + 1
      BY <1>3
    <3>3. IsLast(symbols', i, name, L)
      BY <1>8, <3>1, <3>2
    <3>4. top_of_name'[name] + 1 = i /\ name \in DOMAIN top_of_name'
      BY <1>4, <1>5, <3>2
    <3>5. QED
      BY <1>2, <2>1, <3>3, <3>4
  <2>2. CASE n # name
    <3>1. PICK i \in Int : i = IF n \in DOMAIN top_of_name
                               THEN top_of_name[n] + 1 ELSE 0
      BY DEF IInv, TypeOK
    <3>2. i = IF n \in DOMAIN top_of_name' THEN top_of_name'[n] + 1 ELSE 0
      BY <1>5, <2>2, <3>1
    <3>3. IsLast(symbols, i, n, L + 1)
      BY <1>0, <3>1 DEF IInv, TopIsNewest
    <3>4. IsLast(symbols, i, n, L)
      BY <1>1, <2>2, <3>3 DEF IsLast
    <3>5. IsLast(symbols', i, n, L)
      BY <1>8, <3>4
    <3>6. QED
      BY <1>2, <3>2, <3>5
  <2>3. QED
    BY <2>1, <2>2
<1>11. MarkersNested'
  BY <1>0, <1>2, <1>6 DEF IInv, MarkersNested, TypeOK, PopSymbol
<1>12. LastExists'
  <2> SUFFICES ASSUME NEW n \in Names, NEW m \in 0 .. L
               PROVE  \E i \in 0 .. m : IsLast(symbols', i, n, m)
    BY <1>2 DEF LastExists, Names
  <2>1. PICK i \in 0 .. m : IsLast(symbols, i, n, m)
    BY <1>0 DEF IInv, LastExists
  <2>2. QED
    BY <1>8, <2>1
<1>13. QED
  BY <1>7, <1>9, <1>10, <1>11, <1>12 DEF IInv

LEMMA StepIInv == IInv /\ [Next]_vars => IInv'
<1> SUFFICES ASSUME IInv, [Next]_vars PROVE IInv'
  OBVIOUS
<1>1. CASE PushScope
  BY <1>1, PushScopeIInv
<1>2. ASSUME NEW name \in Names, NEW target \in Targets, Declare(name, target)
      PROVE  IInv'
  BY <1>2, DeclareIInv
<1>3. CASE PopScope
  BY <1>3, PopScopeIInv
<1>4. CASE PopSymbol
  BY <1>4, PopSymbolIInv
<1>5. CASE PopReturn
  BY <1>5, PopReturnIInv
<1>6. CASE UNCHANGED vars
  <2>1. UNCHANGED <<symbols, top_of_name>> /\ UNCHANGED <<scope_markers, unwind>>
    BY <1>6 DEF vars
  <2>2. TypeOK'
    BY <2>1 DEF IInv, TypeOK, SymbolEntry, Names
  <2>3. MarkersNested'
    BY <2>1 DEF IInv, MarkersNested
  <2>4. QED
    BY <2>1, <2>2, <2>3, SameTable DEF IInv
<1>7. QED
  BY <1>1, <1>2, <1>3, <1>4, <1>5, <1>6 DEF Next

THEOREM SpecIInv == Spec => []IInv
BY InitIInv, StepIInv, PTL DEF Spec

-----------------------------------------------------------------------------
(* The properties of SymbolTable, from the inductive invariant.            *)

\* The vectors of the table hold what they should and stay in their bounds.
THEOREM TypeCorrect == Spec => []TypeOK
<1>1. IInv => TypeOK
  BY DEF IInv
<1>2. QED
  BY <1>1, SpecIInv, PTL

\* The prev chain of SymbolEntry skips no declaration, whatever was popped.
THEOREM ChainCorrect == Spec => []ShadowChainIntact
<1>1. IInv => ShadowChainIntact
  BY DEF IInv
<1>2. QED
  BY <1>1, SpecIInv, PTL

\* top_of_name points at the newest live entry of every name, in the middle
\* of pop_scope too.
THEOREM TopCorrect == Spec => []TopIsNewest
<1>1. IInv => TopIsNewest
  BY DEF IInv
<1>2. QED
  BY <1>1, SpecIInv, PTL

\* The markers push_scope left are ordered and point into the table.
THEOREM MarkersCorrect == Spec => []MarkersNested
<1>1. IInv => MarkersNested
  BY DEF IInv
<1>2. QED
  BY <1>1, SpecIInv, PTL

\* resolve() walks one step, from the name to its newest entry.
LEMMA ResolveFromInv == IInv => ResolveIsInnermost
<1> SUFFICES ASSUME IInv PROVE ResolveIsInnermost
  OBVIOUS
<1> USE SymbolTableAssumption DEF None
<1>1. Resolve(kInvalidStringId) = kInvalidNodeId
  BY DEF Resolve, IInv, TypeOK, Names
<1>2. ASSUME NEW n \in Names
      PROVE  Resolve(n) = EnvOf(symbols, Len(symbols))[n]
  <2>1. PICK i \in 0 .. Len(symbols) :
          i = IF n \in DOMAIN top_of_name THEN top_of_name[n] + 1 ELSE 0
    BY DEF IInv, TopIsNewest, IsLast
  <2>2. IsLast(symbols, i, n, Len(symbols))
    BY <2>1 DEF IInv, TopIsNewest
  <2>3. LastDecl(symbols, n, Len(symbols)) = i
    BY <2>2, LastDeclIsLast DEF IInv, TypeOK
  <2>4. n \in DOMAIN top_of_name => top_of_name[n] \in None .. MaxSymbols - 1
    BY DEF IInv, TypeOK
  <2>5. Resolve(n) = IF i = 0 THEN kInvalidNodeId ELSE symbols[i].target
    BY <2>1, <2>4 DEF Resolve
  <2>6. QED
    BY <2>3, <2>5 DEF EnvOf
<1>3. QED
  BY <1>1, <1>2 DEF ResolveIsInnermost

\* resolve() gives the innermost live declaration, and nothing for ids that
\* never named a symbol.
THEOREM ResolveCorrect == Spec => []ResolveIsInnermost
BY ResolveFromInv, SpecIInv, PTL

-----------------------------------------------------------------------------
(* Refinement of ScopedEnv.                                                *)

\* Tables that agree on the first m declarations agree on their environment.
LEMMA EnvOfStable ==
  ASSUME NEW s, NEW t, NEW m \in Nat,
         \A j \in 1 .. m : t[j] = s[j],
         \A n \in Names : \E i \in 0 .. m : IsLast(s, i, n, m)
  PROVE  EnvOf(t, m) = EnvOf(s, m)
<1>1. ASSUME NEW n \in Names
      PROVE  /\ LastDecl(t, n, m) = LastDecl(s, n, m)
             /\ LastDecl(s, n, m) \in 0 .. m
  <2>1. PICK i \in 0 .. m : IsLast(s, i, n, m)
    OBVIOUS
  <2>2. IsLast(t, i, n, m)
    BY <2>1, IsLastStable
  <2>3. QED
    BY <2>1, <2>2, LastDeclIsLast
<1>2. QED
  BY <1>1 DEF EnvOf

\* A step that keeps the declarations of the open scopes keeps the
\* environments saved for them.
LEMMA EnvsSavedStable ==
  ASSUME IInv, scope_markers' = scope_markers,
         NEW L \in 0 .. Len(symbols),
         \A i \in 1 .. Len(scope_markers) : scope_markers[i] <= L,
         \A j \in 1 .. L : symbols'[j] = symbols[j]
  PROVE  EnvsSaved' = EnvsSaved
<1>1. ASSUME NEW i \in 1 .. Len(scope_markers)
      PROVE  EnvOf(symbols', scope_markers[i]) = EnvOf(symbols, scope_markers[i])
  <2>0. scope_markers[i] \in 0 .. MaxSymbols
    BY SymbolTableAssumption DEF IInv, TypeOK
  <2>1. PICK m \in 0 .. L : m = scope_markers[i]
    BY <2>0, SymbolTableAssumption DEF IInv, TypeOK
  <2>2. m \in Nat /\ m \in 0 .. Len(symbols)
    BY DEF IInv, TypeOK
  <2>3. EnvOf(symbols', m) = EnvOf(symbols, m)
    BY <2>2, EnvOfStable DEF IInv, LastExists
  <2>4. QED
    BY <2>1, <2>3
<1>2. QED
  BY <1>1 DEF EnvsSaved

\* When no scope is being left, the environment is the one the declarations
\* make.
LEMMA EnvNowIdle == IInv /\ unwind = Idle => EnvNow = EnvOf(symbols, Len(symbols))
<1> SUFFICES ASSUME IInv, unwind = Idle
             PROVE  EnvNow = EnvOf(symbols, Len(symbols))
  OBVIOUS
<1>1. \A n \in Names : Resolve(n) = EnvOf(symbols, Len(symbols))[n]
  BY ResolveFromInv DEF ResolveIsInnermost
<1>2. QED
  BY <1>1 DEF EnvNow, EnvOf

\* EnvNowIdle in the state after a step.
LEMMA EnvNowIdleNext ==
  IInv /\ [Next]_vars /\ (unwind = Idle)'
    => EnvNow' = EnvOf(symbols', Len(symbols'))
<1>1. (IInv /\ unwind = Idle => EnvNow = EnvOf(symbols, Len(symbols)))'
  BY EnvNowIdle, PTL
<1>2. QED
  BY <1>1, StepIInv

LEMMA InitRefines == Init => Env!Init
<1> SUFFICES ASSUME Init PROVE Env!Init
  OBVIOUS
<1>1. \A n \in Names : Resolve(n) = kInvalidNodeId
  BY DEF Init, Resolve
<1>2. EnvNow = [n \in Names |-> kInvalidNodeId]
  BY <1>1 DEF EnvNow, Init
<1>3. EnvsSaved = << >>
  BY DEF EnvsSaved, Init
<1>4. QED
  BY <1>2, <1>3 DEF Env!Init

\* What EnvsSaved is a sequence of.
LEMMA EnvsSavedSeq ==
  ASSUME IInv
  PROVE  /\ EnvsSaved \in Seq({EnvOf(symbols, m) : m \in 0 .. MaxSymbols})
         /\ Len(EnvsSaved) = Len(scope_markers)
<1>1. \A i \in 1 .. Len(scope_markers) : scope_markers[i] \in 0 .. MaxSymbols
  BY SymbolTableAssumption DEF IInv, TypeOK
<1>2. Len(scope_markers) \in Nat
  BY DEF IInv, TypeOK
<1>3. QED
  BY <1>1, <1>2 DEF EnvsSaved

LEMMA PushScopeRefines == IInv /\ PushScope => Env!Enter
<1> SUFFICES ASSUME IInv, PushScope PROVE Env!Enter
  OBVIOUS
<1> DEFINE K == Len(scope_markers)
<1>1. /\ unwind = Idle /\ unwind' = Idle
      /\ symbols' = symbols
      /\ K \in Nat
      /\ Len(scope_markers') = K + 1
      /\ \A i \in 1 .. K : scope_markers'[i] = scope_markers[i]
      /\ scope_markers'[K + 1] = Len(symbols)
  <2>1. Len(symbols) \in 0 .. MaxSymbols /\ scope_markers \in Seq(0 .. MaxSymbols)
    BY SymbolTableAssumption DEF IInv, TypeOK
  <2>2. QED
    BY <2>1, AppendKeeps DEF PushScope
<1>2. [Next]_vars
  BY DEF Next
<1>3. EnvNow = EnvOf(symbols, Len(symbols)) /\ EnvNow' = EnvNow
  BY <1>1, <1>2, EnvNowIdle, EnvNowIdleNext
<1>4. EnvsSaved' = Append(EnvsSaved, EnvNow)
  <2>1. EnvsSaved' = [i \in 1 .. K + 1 |-> EnvOf(symbols, scope_markers'[i])]
    BY <1>1 DEF EnvsSaved
  <2>2. EnvsSaved = [i \in 1 .. K |-> EnvOf(symbols, scope_markers[i])]
    BY DEF EnvsSaved
  <2> HIDE DEF K
  <2>3. Append(EnvsSaved, EnvNow)
          = [i \in 1 .. K + 1 |-> IF i = K + 1 THEN EnvNow ELSE EnvsSaved[i]]
    BY <1>1, <2>2
  <2>4. \A i \in 1 .. K + 1 :
          EnvOf(symbols, scope_markers'[i])
            = IF i = K + 1 THEN EnvNow ELSE EnvsSaved[i]
    BY <1>1, <1>3, <2>2
  <2>5. QED
    BY <2>1, <2>3, <2>4
<1>5. QED
  BY <1>3, <1>4 DEF Env!Enter

LEMMA DeclareRefines ==
  ASSUME IInv, NEW name \in Names, NEW target \in Targets,
         Declare(name, target)
  PROVE  Env!Bind(name, target)
<1> USE SymbolTableAssumption DEF Idle
<1>0. PICK L \in Nat : L = Len(symbols)
  BY DEF IInv, TypeOK
<1>1. /\ Len(symbols') = L + 1
      /\ \A i \in 1 .. L : symbols'[i] = symbols[i]
      /\ symbols'[L + 1].name = name
      /\ symbols'[L + 1].target = target
      /\ unwind = Idle /\ unwind' = Idle
      /\ scope_markers' = scope_markers
  BY <1>0, DeclareFacts DEF Declare
<1>2. EnvNow = EnvOf(symbols, L) /\ EnvNow' = EnvOf(symbols', L + 1)
  <2>1. [Next]_vars
    BY DEF Next
  <2>2. QED
    BY <1>0, <1>1, <2>1, EnvNowIdle, EnvNowIdleNext
<1>3. ASSUME NEW n \in Names
      PROVE  EnvOf(symbols', L + 1)[n]
               = IF n = name THEN target ELSE EnvOf(symbols, L)[n]
  <2>1. CASE n = name
    <3>1. IsLast(symbols', L + 1, n, L + 1)
      BY <1>1, <2>1 DEF IsLast
    <3>2. LastDecl(symbols', n, L + 1) = L + 1
      BY <3>1, LastDeclIsLast
    <3>3. QED
      BY <1>1, <2>1, <3>2 DEF EnvOf
  <2>2. CASE n # name
    <3>1. PICK i \in 0 .. L : IsLast(symbols, i, n, L)
      BY <1>0 DEF IInv, LastExists
    <3>2. IsLast(symbols', i, n, L)
      BY <1>1, <3>1, IsLastStable
    <3>3. IsLast(symbols', i, n, L + 1)
      BY <1>1, <2>2, <3>2 DEF IsLast
    <3>4. LastDecl(symbols, n, L) = i /\ LastDecl(symbols', n, L + 1) = i
      BY <3>1, <3>3, LastDeclIsLast
    <3>5. QED
      BY <1>1, <2>2, <3>4 DEF EnvOf
  <2>3. QED
    BY <2>1, <2>2
<1>4. EnvNow' = [EnvNow EXCEPT ![name] = target]
  BY <1>2, <1>3 DEF EnvOf
<1>5. EnvsSaved' = EnvsSaved
  BY <1>0, <1>1, EnvsSavedStable DEF IInv, MarkersNested
<1>6. QED
  BY <1>4, <1>5 DEF Env!Bind

LEMMA PopScopeRefines == IInv /\ PopScope => Env!Leave
<1> SUFFICES ASSUME IInv, PopScope PROVE Env!Leave
  OBVIOUS
<1> USE SymbolTableAssumption DEF Idle
<1> DEFINE K == Len(scope_markers)
<1>1. /\ K \in Nat \ {0}
      /\ unwind' = scope_markers[K]
      /\ unwind' \in 0 .. MaxSymbols
      /\ Len(scope_markers') = K - 1
      /\ \A i \in 1 .. K - 1 : scope_markers'[i] = scope_markers[i]
      /\ symbols' = symbols
  <2>1. K \in Nat \ {0} /\ scope_markers \in Seq(0 .. MaxSymbols)
    BY DEF PopScope, IInv, TypeOK
  <2>2. scope_markers[K] \in 0 .. MaxSymbols
    BY <2>1
  <2>3. QED
    BY <2>1, <2>2, PopBackKeeps DEF PopScope
<1>2. EnvNow' = EnvOf(symbols, scope_markers[K])
  BY <1>1 DEF EnvNow
<1>3. /\ EnvsSaved = [i \in 1 .. K |-> EnvOf(symbols, scope_markers[i])]
      /\ EnvsSaved' = [i \in 1 .. K - 1 |-> EnvOf(symbols, scope_markers'[i])]
  BY <1>1 DEF EnvsSaved
<1>4. Len(EnvsSaved) = K
  BY EnvsSavedSeq
<1>5. EnvsSaved # << >> /\ EnvNow' = EnvsSaved[Len(EnvsSaved)]
  BY <1>1, <1>2, <1>3, <1>4
<1>6. EnvsSaved' = SubSeq(EnvsSaved, 1, Len(EnvsSaved) - 1)
  <2> HIDE DEF K
  <2>1. SubSeq(EnvsSaved, 1, K - 1) = [i \in 1 .. K - 1 |-> EnvsSaved[i]]
    BY <1>1
  <2>2. \A i \in 1 .. K - 1 :
          EnvOf(symbols, scope_markers'[i]) = EnvsSaved[i]
    BY <1>1, <1>3
  <2>3. QED
    BY <1>3, <1>4, <2>1, <2>2
<1>7. QED
  BY <1>5, <1>6 DEF Env!Leave

LEMMA PopSymbolStutters == IInv /\ PopSymbol => UNCHANGED Env!vars
<1> SUFFICES ASSUME IInv, PopSymbol PROVE UNCHANGED Env!vars
  OBVIOUS
<1> USE SymbolTableAssumption DEF Idle
<1>0. PICK L \in Nat : L + 1 = Len(symbols)
  BY DEF IInv, TypeOK, PopSymbol
<1>1. /\ \A i \in 1 .. L : symbols'[i] = symbols[i]
      /\ scope_markers' = scope_markers
      /\ unwind # Idle /\ unwind' = unwind
      /\ unwind \in 0 .. L
  BY <1>0, PopBackKeeps DEF PopSymbol, IInv, TypeOK
<1>2. EnvNow = EnvOf(symbols, unwind) /\ EnvNow' = EnvOf(symbols', unwind)
  BY <1>1 DEF EnvNow
<1>3. EnvOf(symbols', unwind) = EnvOf(symbols, unwind)
  <2>1. PICK m \in 0 .. L : m = unwind
    BY <1>1
  <2>2. m \in Nat /\ m \in 0 .. Len(symbols)
    BY <1>0
  <2>3. EnvOf(symbols', m) = EnvOf(symbols, m)
    BY <1>1, <2>2, EnvOfStable DEF IInv, LastExists
  <2>4. QED
    BY <2>1, <2>3
<1>4. \A i \in 1 .. Len(scope_markers) : scope_markers[i] <= unwind
  BY <1>1 DEF IInv, MarkersNested
<1>5. EnvsSaved' = EnvsSaved
  <2>1. PICK m \in 0 .. L : m = unwind
    BY <1>1
  <2>2. m \in 0 .. Len(symbols) /\ \A j \in 1 .. m : symbols'[j] = symbols[j]
    BY <1>0, <1>1
  <2>3. QED
    BY <1>1, <1>4, <2>1, <2>2, EnvsSavedStable
<1>6. QED
  BY <1>2, <1>3, <1>5 DEF Env!vars

LEMMA PopReturnStutters == IInv /\ PopReturn => UNCHANGED Env!vars
<1> SUFFICES ASSUME IInv, PopReturn PROVE UNCHANGED Env!vars
  OBVIOUS
<1> USE SymbolTableAssumption DEF Idle
<1>1. /\ symbols' = symbols /\ scope_markers' = scope_markers
      /\ unwind' = Idle /\ unwind # Idle /\ unwind = Len(symbols)
  BY DEF PopReturn, IInv, TypeOK, MarkersNested
<1>2. EnvNow' = EnvNow
  <2>1. [Next]_vars
    BY DEF Next
  <2>2. EnvNow' = EnvOf(symbols', Len(symbols'))
    BY <1>1, <2>1, EnvNowIdleNext
  <2>3. QED
    BY <1>1, <2>2 DEF EnvNow
<1>3. EnvsSaved' = EnvsSaved
  BY <1>1 DEF EnvsSaved
<1>4. QED
  BY <1>2, <1>3 DEF Env!vars

\* The symbol table implements nested environments: pop_scope brings back the
\* bindings in force at the matching push_scope.
THEOREM Refinement == Spec => ImplementsScopedEnv
<1>1. IInv /\ [Next]_vars => [Env!Next]_(Env!vars)
  <2> SUFFICES ASSUME IInv, [Next]_vars PROVE [Env!Next]_(Env!vars)
    OBVIOUS
  <2>1. CASE PushScope
    BY <2>1, PushScopeRefines DEF Env!Next
  <2>2. ASSUME NEW name \in Names, NEW target \in Targets,
               Declare(name, target)
        PROVE  Env!Next
    BY <2>2, DeclareRefines DEF Env!Next
  <2>3. CASE PopScope
    BY <2>3, PopScopeRefines DEF Env!Next
  <2>4. CASE PopSymbol
    BY <2>4, PopSymbolStutters
  <2>5. CASE PopReturn
    BY <2>5, PopReturnStutters
  <2>6. CASE UNCHANGED vars
    BY <2>6 DEF vars, Env!vars, EnvNow, EnvsSaved, Resolve
  <2>7. QED
    BY <2>1, <2>2, <2>3, <2>4, <2>5, <2>6 DEF Next
<1>2. QED
  BY InitRefines, <1>1, SpecIInv, PTL DEF Spec, Env!Spec, ImplementsScopedEnv
=============================================================================
