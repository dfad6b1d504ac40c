----------------------------- MODULE ScopedEnv -----------------------------
(***************************************************************************)
(* What a symbol table with lexical scopes promises, with no table in it:  *)
(* an environment maps every name to the node it denotes, entering a scope *)
(* remembers the environment, and leaving the scope brings back exactly    *)
(* the environment that was remembered.                                    *)
(***************************************************************************)
EXTENDS Naturals, Sequences

CONSTANTS
  Names,      \* the names that can be declared
  Targets,    \* the nodes a name can denote
  NoTarget    \* what an undeclared name denotes

VARIABLES
  env,        \* the environment in force
  saved       \* the environments to come back to, outermost first

vars == <<env, saved>>

Init ==
  /\ env = [n \in Names |-> NoTarget]
  /\ saved = << >>

Enter ==
  /\ saved' = Append(saved, env)
  /\ UNCHANGED env

Bind(n, t) ==
  /\ env' = [env EXCEPT ![n] = t]
  /\ UNCHANGED saved

Leave ==
  /\ saved # << >>
  /\ env' = saved[Len(saved)]
  /\ saved' = SubSeq(saved, 1, Len(saved) - 1)

Next ==
  \/ Enter
  \/ \E n \in Names, t \in Targets : Bind(n, t)
  \/ Leave

Spec == Init /\ [][Next]_vars
=============================================================================
