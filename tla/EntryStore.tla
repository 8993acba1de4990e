------------------------------ MODULE EntryStore ------------------------------
(* What the inventory handlers promise about the gNB and UPF documents
   themselves: a request takes effect at most once, at one instant between its
   arrival and its answer, a creation only where there is no entry, and a request
   that succeeds has taken effect.  A request that fails may have.            *)
CONSTANTS Workers, Entries, None

VARIABLES stored, \* the value of each entry, or None
          asked   \* the request of each worker and how far it is

Init == /\ stored = [e \in Entries |-> None]
        /\ asked = [w \in Workers |-> None]

Becomes(w, status) == asked' = [asked EXCEPT ![w].status = status]

Ask(w) == /\ asked[w] = None /\ asked'[w] # None
          /\ asked' = [asked EXCEPT ![w] = asked'[w]]
          /\ asked'[w].status = "pending"
          /\ UNCHANGED stored

Effect(w) == /\ asked[w] # None /\ asked[w].status = "pending"
             /\ asked[w].op = "post" => stored[asked[w].entry] = None
             /\ stored' = [stored EXCEPT ![asked[w].entry] = asked[w].value]
             /\ \E status \in {"done", "succeeded", "failed"} : Becomes(w, status)

Succeed(w) == /\ asked[w] # None /\ asked[w].status = "done"
              /\ Becomes(w, "succeeded")
              /\ UNCHANGED stored

Fail(w) == /\ asked[w] # None /\ asked[w].status \in {"pending", "done"}
           /\ Becomes(w, "failed")
           /\ UNCHANGED stored

Leave(w) == /\ asked[w] # None /\ asked[w].status \in {"succeeded", "failed"}
            /\ asked' = [asked EXCEPT ![w] = None]
            /\ UNCHANGED stored

(* The server goes away with all requests. *)
Lose == asked' = [w \in Workers |-> None] /\ UNCHANGED stored

Next == \/ \E w \in Workers :
              /\ asked'[w] # asked[w]
              /\ Ask(w) \/ Effect(w) \/ Succeed(w) \/ Fail(w) \/ Leave(w)
        \/ Lose

Spec == Init /\ [][Next]_<<stored, asked>>
=============================================================================
