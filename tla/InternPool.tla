----------------------------- MODULE InternPool -----------------------------
(***************************************************************************)
(* What an interner promises, with no hash table in it: every string gets  *)
(* one id the first time it is interned and the same id ever after, no two *)
(* strings share an id, and ids are handed out in order.                   *)
(***************************************************************************)
EXTENDS Naturals, Sequences

CONSTANTS
  Strings,      \* the non-empty strings
  EmptyId,      \* the id of the empty string
  NoId          \* nothing has been returned yet

VARIABLES
  pool,         \* the strings interned, in the order of their ids
  answer        \* what the last call of intern returned

vars == <<pool, answer>>

Init == pool = << >> /\ answer = NoId

Known(s) == \E i \in 1 .. Len(pool) : pool[i] = s

InternEmpty ==
  /\ answer' = EmptyId
  /\ UNCHANGED pool

InternKnown(s) ==
  /\ \E i \in 1 .. Len(pool) : pool[i] = s /\ answer' = i
  /\ UNCHANGED pool

InternNew(s) ==
  /\ ~ Known(s)
  /\ pool' = Append(pool, s)
  /\ answer' = Len(pool) + 1

Next ==
  \/ InternEmpty
  \/ \E s \in Strings : InternKnown(s) \/ InternNew(s)

Spec == Init /\ [][Next]_vars
=============================================================================
