----------------------------- MODULE MCInventory -----------------------------
(* Settings and symmetry for the model checker: all requests of a behaviour name
   one gNB, or all name one UPF.  The two kinds share their transactions, so only
   UPFs are also tried without sessions.                                      *)
EXTENDS Inventory, TLC

MCSettings == {[sessions |-> TRUE, entries |-> {e}] : e \in Entries}
              \union {[sessions |-> FALSE, entries |-> {u}] : u \in Upfs}

Symmetry == Permutations(Workers) \union Permutations(Slices) \union Permutations(Values)
=============================================================================
