---------------------------- MODULE ServedConfig ----------------------------
(* What the NFConfig service promises to the network functions that poll it,
   and nothing of how it keeps the promise.  A version of a collection is the
   number of writes made to it; a served field is known by the versions of the
   collections it was computed from.                                          *)
EXTENDS Naturals

CONSTANTS Collections, \* the collections of the database the service reads
          Fields       \* the fields of the configuration it serves

VARIABLES stored,   \* the version of each collection in the database
          promised, \* the version the administrator may count on being served
          served    \* for each field, the versions it was computed from

view == <<stored, promised, served>>

Init == /\ stored   = [c \in Collections |-> 0]
        /\ promised = [c \in Collections |-> 0]
        /\ served   = [f \in Fields |-> [c \in Collections |-> 0]]

(* A request writes a document of collection c. *)
Store(c) == /\ stored' = [stored EXCEPT ![c] = @ + 1]
            /\ UNCHANGED <<promised, served>>

(* A write request succeeds: everything stored so far will be served. *)
Promise == /\ promised' = stored
           /\ UNCHANGED <<stored, served>>

(* The served configuration moves forward, towards what is stored. *)
Serve == /\ served' \in [Fields -> [Collections -> Nat]]
         /\ \A f \in Fields, c \in Collections :
               served[f][c] <= served'[f][c] /\ served'[f][c] <= stored[c]
         /\ UNCHANGED <<stored, promised>>

Next == (\E c \in Collections : Store(c)) \/ Promise \/ Serve

SafeSpec == Init /\ [][Next]_view

(* What is promised of a collection is served by every field that reads it. *)
Kept(reads, v) ==
    \A f \in Fields : \A c \in reads[f] :
        (promised[c] >= v) ~> (served[f][c] >= v)
=============================================================================
