----------------------------- MODULE MCKeyFile -----------------------------
(***************************************************************************)
(* Two shells run key commands on two names, one of them typed with blanks, *)
(* and a blank name; three keys are generated at most.                      *)
(***************************************************************************)
EXTENDS KeyFile, TLC
CONSTANTS c1, c2, k1, k2, k3, env
MCCommand == {c1, c2}
MCTrim == [a \in {"a", " a", "b", " "} |-> CASE a = " a" -> "a" [] a = " " -> "" [] OTHER -> a]
MCKey == {k1, k2, k3}
Symmetry == Permutations(MCCommand) \cup Permutations(MCKey)
=============================================================================
