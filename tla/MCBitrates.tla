----------------------------- MODULE MCBitrates -----------------------------
(* Requests for the model checker: rates at the edges of the words. *)
EXTENDS Bitrates

MCRuleRequests == {[rate |-> r, unit |-> u] :
                      r \in -Half32..MaxInt32, u \in {"bps", "kbps", "mbps", "gbps"}}

Domain(rate, unit, qci) == [rate |-> rate, unit |-> unit, qci |-> qci]

Domains == {Domain(r, u, None) : r \in {-1, 1, 20, MaxInt64}, u \in {"bps", "gbps"}}
           \union {Domain(MaxInt64 \div 2, "bps", 7), Domain(5, "kbps", 5),
                   Domain(20, "mbps", 9)}

(* Up to three IP domains of one device group. *)
MCGroupRequests == {<<>>} \union {<<d>> : d \in Domains} \union (Domains \X Domains)
                   \union {<<d, d, e>> : d, e \in Domains}
=============================================================================
