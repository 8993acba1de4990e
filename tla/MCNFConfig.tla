----------------------------- MODULE MCNFConfig -----------------------------
(* Small slices and device groups for the model checker.  Of the SST texts, "1"
   and "01" are one number, "wide" is that number plus the word size, "x" is
   none.                                                                      *)
EXTENDS NFConfig

MCSstOf == [t \in {"1", "01", "wide", "x"} |->
               CASE t \in {"1", "01"} -> 1 [] t = "wide" -> WordSize + 1 [] t = "x" -> None]

Doc(plmn, sst, sd, gs, gnbs, upf, rules) ==
    [plmn |-> plmn, sst |-> sst, sd |-> sd, groups |-> gs, gnbs |-> gnbs, upf |-> upf,
     rules |-> rules]

GnbA == [name |-> 1, tac |-> 1]
GnbB == [name |-> 2, tac |-> 2]

(* For the endpoints about slices: PLMN, identifier and gNBs vary. *)
SliceVariety ==
    {Doc(p, t, sd, <<>>, gnbs, None, <<>>) :
        p \in {1, 2}, t \in {"1", "01", "x"}, sd \in {0, 1}, gnbs \in {{}, {GnbA}, {GnbA, GnbB}}}
    \union {Doc(1, "wide", 0, <<>>, {GnbB}, None, <<>>)}

(* For the endpoints about device groups: those of the slice vary. *)
GroupVariety ==
    {Doc(1, "1", sd, gs, {}, [host |-> 1, port |-> 80], <<>>) :
        sd \in {0, 1}, gs \in {<<>>, <<1>>, <<2>>, <<1, 2>>}}
    \union {Doc(1, "1", 0, <<1, 2>>, {}, [host |-> 1, port |-> 70000],
                <<[precedence |-> 2, id |-> 1], [precedence |-> 1, id |-> 2]>>)}

Dom(dnn, qos) == [dnn |-> dnn, qos |-> qos]

MCGroupDocs ==
    {[imsis |-> imsis, domains |-> d] : imsis \in {{1}, {1, 2}},
        d \in {<<>>, <<Dom(1, "q1")>>, <<Dom(1, None), Dom(2, "q1")>>,
               <<Dom(2, "q2"), Dom(1, "q2")>>, <<Dom(1, "q1"), Dom(1, "q2")>>}}

MCVarieties == {[slices |-> SliceVariety, groups |-> {}],
                [slices |-> GroupVariety, groups |-> MCGroupDocs]}
=============================================================================
