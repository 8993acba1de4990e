------------------------------- MODULE Bitrates -------------------------------
(* Bit rates on their way through the webconsole: a request gives a rate and its
   unit, the handlers store bit/s, a device group's QoS profiles are added up,
   and the sum is written as text for the core network.  Words have their width
   as a parameter: Half32 stands for 2^31, Half64 for 2^63, K for 1000.  Uplink
   and downlink are treated alike, so there is one rate.                      *)
EXTENDS Integers, FiniteSets, SequencesExt

CONSTANTS K, Half32, Half64,
          GroupRequests, \* sequences of IP domains: DNN, rate, unit, QCI or None
          RuleRequests,  \* rates and units of application filtering rules
          None

ASSUME BitratesAssumption ==
    /\ K \in Nat \ {0} /\ Half32 \in Nat \ {0} /\ Half64 \in Nat \ {0}
    /\ Half32 * K * K * K <= Half64

VARIABLES group,      \* the IP domains of the stored device group
          groupAsked, \* history: as the client sent them
          rule,       \* the stored application filtering rule, or None
          ruleAsked   \* history

vars == <<group, groupAsked, rule, ruleAsked>>

MaxInt32 == Half32 - 1
MaxInt64 == Half64 - 1
Word32 == -Half32..MaxInt32
Word64 == -Half64..MaxInt64

(* The fields of a request have the types of the Go structures. *)
ASSUME RequestsAssumption ==
    /\ GroupRequests \subseteq Seq([rate : Word64, unit : STRING, qci : Nat \union {None}])
    /\ RuleRequests \subseteq [rate : Word32, unit : STRING]

(* What is left of an integer in a signed 64-bit word, and in an unsigned one. *)
Wrap(v) == ((v + Half64) % (2 * Half64)) - Half64

(* Variant: a negative number is none. *)
ZeroIfNegative(v) == IF v < 0 THEN 0 ELSE v

Uint64(v) == v % (2 * Half64)

Factor(unit) == CASE unit = "kbps" -> K
                  [] unit = "mbps" -> K * K
                  [] unit = "gbps" -> K * K * K
                  [] OTHER -> 1

ConvertToBps(val, unit) == Wrap(val * Factor(unit))

(* Variant: the sign of the product is not looked at. *)
GroupRateUnchecked(val, unit) == ConvertToBps(val, unit)

(* deviceGroupPostHelper *)
GroupRate(val, unit) ==
    LET bps == ConvertToBps(val, unit) IN IF bps < 0 THEN MaxInt64 ELSE bps

(* Variant: a rate too large is cut to its lower half. *)
TruncateToInt32(bitrate) == ((bitrate + Half32) % (2 * Half32)) - Half32

ConvertBitrateToInt32(bitrate) ==
    IF bitrate < 0 \/ bitrate > MaxInt32 THEN MaxInt32 ELSE bitrate

-----------------------------------------------------------------------------
(* aggregateQoS: the sum, and the lowest QCI. *)

(* Variant: the first traffic class wins. *)
FirstQci(acc, q) == IF acc.qci = None THEN q.qci ELSE acc.qci

BetterQci(acc, q) == IF q.qci # None /\ (acc.qci = None \/ q.qci < acc.qci) THEN q.qci
                                                                        ELSE acc.qci

AggregateQoS(list) ==
    FoldLeft(LAMBDA acc, q : [rate |-> Wrap(acc.rate + q.rate), qci |-> BetterQci(acc, q)],
             [rate |-> 0, qci |-> None], list)

(* The quotient in the largest unit it is not zero in. *)
ConvertToString(val) ==
    LET g == val \div (K * K * K)
        m == val \div (K * K)
        k == val \div K
    IN  CASE g # 0 -> [amount |-> g, unit |-> "gbps"]
          [] g = 0 /\ m # 0 -> [amount |-> m, unit |-> "mbps"]
          [] g = 0 /\ m = 0 /\ k # 0 -> [amount |-> k, unit |-> "kbps"]
          [] OTHER -> [amount |-> val, unit |-> "bps"]

(* processDeviceGroup: the profiles of all DNNs in the order of a map. *)
Profiles(domains) == {[i \in DOMAIN q |-> domains[q[i]]] : q \in SetToSeqs(DOMAIN domains)}

Ambr(list) == ConvertToString(Uint64(AggregateQoS(list).rate))

-----------------------------------------------------------------------------
Init == group = <<>> /\ groupAsked = <<>> /\ rule = None /\ ruleAsked = None

StoreGroup(domains) ==
    group' = [i \in DOMAIN domains |->
                 [domains[i] EXCEPT !.rate = GroupRate(@, domains[i].unit)]]

PutGroup == /\ \E r \in GroupRequests : StoreGroup(r) /\ groupAsked' = r
            /\ UNCHANGED <<rule, ruleAsked>>

(* A client writes back what it has read. *)
PutGroupBack == /\ StoreGroup(group) /\ groupAsked' = group
                /\ UNCHANGED <<rule, ruleAsked>>

(* normalizeApplicationFilteringRules; the unit stays. *)
StoreRule(r) ==
    rule' = [r EXCEPT !.rate = ConvertBitrateToInt32(ConvertToBps(@, r.unit))]

PutRule == /\ \E r \in RuleRequests : StoreRule(r) /\ ruleAsked' = r
           /\ UNCHANGED <<group, groupAsked>>

PutRuleBack == /\ rule # None /\ StoreRule(rule) /\ ruleAsked' = rule
               /\ UNCHANGED <<group, groupAsked>>

Next == PutGroup \/ PutGroupBack \/ PutRule \/ PutRuleBack

Spec == Init /\ [][Next]_vars

-----------------------------------------------------------------------------
Sum(list) == FoldLeft(LAMBDA acc, q : acc + q.rate, 0, list)
Qcis(list) == {q.qci : q \in ToSet(list)} \ {None}

(* A rule's rate is what was asked for, or as much as 32 bits hold: the product
   never wraps, and a negative rate counts as no limit.                       *)
RuleSaturates ==
    rule # None =>
        LET exact == ruleAsked.rate * Factor(ruleAsked.unit)
        IN  rule.rate = IF exact \in 0..MaxInt32 THEN exact ELSE MaxInt32

(* A device group's rate is never negative, and it is the rate asked for whenever
   that has 63 bits.  A product with more bits may have any rate.             *)
GroupRateKept ==
    \A i \in DOMAIN group :
        LET exact == groupAsked[i].rate * Factor(groupAsked[i].unit)
        IN  /\ group[i].rate >= 0
            /\ exact \in 0..MaxInt64 => group[i].rate = exact

(* The AMBR written for one or two QoS profiles is their true sum, cut to whole
   units, although the 64-bit addition may overflow on the way.               *)
AmbrOfTwo ==
    Len(group) <= 2 =>
        LET ambr == Ambr(group)
            unit == Factor(ambr.unit)
        IN  ambr.amount * unit <= Sum(group) /\ Sum(group) < (ambr.amount + 1) * unit

(* The AMBR is the same in whatever order the DNNs of a device group are collected,
   and the QCI of a list of profiles is the lowest in it.                     *)
AggregateOrderIrrelevant ==
    \A list \in Profiles(group) :
        /\ Ambr(list) = Ambr(group)
        /\ LET qci == AggregateQoS(list).qci
           IN  IF Qcis(list) = {} THEN qci = None
               ELSE qci \in Qcis(list) /\ \A q \in Qcis(list) : qci <= q

=============================================================================
