--------------------------- MODULE MCSubscriberView ---------------------------
(* An instance of SubscriberView for TLC. *)
EXTENDS SubscriberView, TLC

OnePlmn == {CHOOSE p \in Plmns : TRUE}

(* Provisioned device groups, under one PLMN. *)
Plain == [workers |-> Workers, ops |-> Ops, imsis |-> Imsis, groups |-> Groups,
          plmns |-> OnePlmn, ssts |-> {TRUE}, kinds |-> {"full"}, faults |-> 0,
          viewed |-> {}]

(* Few operations, for handlers that overlap and store documents twice. *)
Fewer == {{"putSlice", "deleteSlice", "putGroup", "deleteGroup"},
          {"putSlice", "putGroup", "postSub"},
          {"putGroup", "postSub", "putSub", "deleteSub"}}

(* Handlers that overlap; one handler with failures, and all PLMNs or all kinds of
   device groups; one handler and a client that views.  Closed under Symmetry, so
   that symmetry stays sound.                                                 *)
Overlap ==
    {Plain} \union {[Plain EXCEPT !.ops = o] : o \in Fewer} \union
    UNION {{[Plain EXCEPT !.workers = {w}, !.faults = 1, !.plmns = Plmns,
                          !.kinds = {"none", "full"}],
            [Plain EXCEPT !.workers = {w}, !.faults = 1, !.ssts = Ssts, !.kinds = Kinds],
            [Plain EXCEPT !.workers = {w}, !.kinds = {"none", "full"}, !.viewed = Imsis]} :
              w \in Workers}

(* Bound: with all operations, not beyond a state that has a document twice, and
   with few, not beyond one that has two documents besides the first.         *)
MaxExtra == 1
Followed == Single \/ (scope.ops \in Fewer /\ BagCardinality(extra) <= MaxExtra)

(* Sound for safety only. *)
Symmetry == Permutations(Workers)
=============================================================================
