------------------------------- MODULE NFConfig -------------------------------
(* What one sync computes: six lists for the network functions, from the stored
   slices, in the order the database returns them, and the device groups, in a
   map.  Where the code iterates a map or sorts by a key that ties, any order is
   possible; each derivation is therefore the set of lists it may produce.

   Names, PLMNs, SDs and TACs are numbers in the order of the strings they stand
   for; an SST is a text, and SstOf what strconv.ParseInt makes of it.        *)
EXTENDS Integers, FiniteSets, SequencesExt

CONSTANTS SliceNames, GroupNames, Imsis,
          Varieties, \* slices and device groups, without their names, that are
                     \* stored together
          SstOf,     \* the number each SST text stands for, or None
          WordSize,  \* 2^32
          MaxPort,   \* 65535
          None

(* A stored slice without its name, and a stored device group. *)
SliceType == [plmn : Nat, sst : DOMAIN SstOf, sd : Nat, groups : Seq(GroupNames),
              gnbs : SUBSET [name : Nat, tac : Nat],
              upf : {None} \union [host : {None} \union Nat, port : {None} \union Int],
              rules : Seq([precedence : Int, id : Nat])]
GroupType == [imsis : SUBSET Imsis,
              domains : Seq([dnn : Nat, qos : {None} \union STRING])]

ASSUME NFConfigAssumption ==
    /\ SliceNames \subseteq Nat /\ IsFiniteSet(SliceNames)
    /\ GroupNames \subseteq Nat /\ IsFiniteSet(GroupNames)
    /\ \A v \in Varieties : v.slices \subseteq SliceType /\ v.groups \subseteq GroupType
    /\ \A t \in DOMAIN SstOf : SstOf[t] \in Int \union {None}
    /\ WordSize \in Nat /\ WordSize % 2 = 0 /\ WordSize > 0

VARIABLES slices, \* sequence of stored slices
          groups, \* function from the names of stored device groups
          mem     \* inMemoryConfig, or None before the first sync

vars == <<slices, groups, mem>>

(* a comes before b, both being tuples of numbers of one length. *)
Before(a, b) == \E i \in DOMAIN a : a[i] < b[i] /\ \A k \in 1..i - 1 : a[k] = b[k]

(* sort.Slice on the elements of a set, which come in no order *)
Sorted(S, Key(_)) == {q \in SetToSeqs(S) :
                        \A i, k \in DOMAIN q : i < k => ~Before(Key(q[k]), Key(q[i]))}

(* sort.Slice on a short sequence, where it is an insertion sort and stable *)
StablySorted(s, Key(_)) ==
    LET orders == Sorted(DOMAIN s, LAMBDA i : Append(Key(s[i]), i))
    IN  {[i \in DOMAIN q |-> s[q[i]]] : q \in orders}

Map(q, f(_)) == [i \in DOMAIN q |-> f(q[i])]

(* The elements of s that pass a test, in the order of s *)
Where(s, Test(_)) ==
    LET order == CHOOSE q \in Sorted({i \in DOMAIN s : Test(s[i])}, LAMBDA i : <<i>>) : TRUE
    IN  Map(order, LAMBDA i : s[i])

(* int32 of an int64 *)
Int32(v) == LET r == v % WordSize IN IF r < WordSize \div 2 THEN r ELSE r - WordSize

Parses(s) == SstOf[s.sst] # None
Snssai(s) == <<Int32(SstOf[s.sst]), s.sd>>
Parsed(ss) == Where(ss, Parses)

-----------------------------------------------------------------------------
(* PLMNs, and their S-NSSAIs *)

PlmnLists(ss) == Sorted({s.plmn : s \in ToSet(ss)}, LAMBDA p : <<p>>)

SliceId(s) == [plmn |-> s.plmn, sst |-> s.sst, sd |-> s.sd]

PlmnSnssaiLists(ss) ==
    LET ids == {SliceId(s) : s \in ToSet(Parsed(ss))}
        SnssaiList(p) == Map(CHOOSE q \in Sorted({k \in ids : k.plmn = p}, Snssai) : TRUE,
                             Snssai)
    IN  {Map(q, LAMBDA p : [plmn |-> p, snssais |-> SnssaiList(p)]) :
            q \in Sorted({k.plmn : k \in ids}, LAMBDA p : <<p>>)}

-----------------------------------------------------------------------------
(* Access and mobility: TACs by PLMN and slice identifier, as it is written *)

(* Variant: a duplicate replaces what was there. *)
LastTacs(ss, id) == LET last == CHOOSE i \in DOMAIN ss : /\ SliceId(ss[i]) = id
                                    /\ \A k \in DOMAIN ss : SliceId(ss[k]) = id => k <= i
                    IN  {g.tac : g \in ss[last].gnbs}

Tacs(ss, id) == UNION {{g.tac : g \in s.gnbs} : s \in {t \in ToSet(ss) : SliceId(t) = id}}

(* Variant: a slice without gNBs is left out. *)
AccessMobilityWithGnbs(ss) ==
    LET ids == {SliceId(s) : s \in {t \in ToSet(Parsed(ss)) : t.gnbs # {}}}
    IN  {Map(q, LAMBDA id : [plmn |-> id.plmn, snssai |-> Snssai(id), tacs |-> Tacs(ss, id)]) :
            q \in Sorted(ids, LAMBDA id : <<id.plmn>> \o Snssai(id))}

AccessMobilityLists(ss) ==
    LET ids == {SliceId(s) : s \in ToSet(Parsed(ss))}
    IN  {Map(q, LAMBDA id : [plmn |-> id.plmn, snssai |-> Snssai(id), tacs |-> Tacs(ss, id)]) :
            q \in Sorted(ids, LAMBDA id : <<id.plmn>> \o Snssai(id))}

-----------------------------------------------------------------------------
(* Session management: one entry per slice *)

(* The IP domains of the slice's device groups, those that are stored. *)
Domains(s, gs) ==
    LET known == Where(s.groups, LAMBDA g : g \in DOMAIN gs)
    IN  FlattenSeq(Map(known, LAMBDA g : gs[g].domains))

(* A UPF without a name is none, a port out of range is left out. *)
Upf(s) == IF s.upf = None \/ s.upf.host = None THEN None
          ELSE [s.upf EXCEPT !.port = IF @ # None /\ @ \in 0..MaxPort THEN @ ELSE None]

Session(s, gs) == [name |-> s.name, plmn |-> s.plmn, snssai |-> Snssai(s),
                   dnns |-> Map(Domains(s, gs), LAMBDA d : d.dnn),
                   upf |-> Upf(s),
                   gnbs |-> {g.name : g \in s.gnbs}]

(* Variant: not sorted, in the order of a map. *)
UnsortedSessions(ss, gs) == SetToSeqs({Session(s, gs) : s \in ToSet(Parsed(ss))})

SessionLists(ss, gs) == StablySorted(Map(Parsed(ss), LAMBDA s : Session(s, gs)),
                                     LAMBDA e : <<e.name>>)

-----------------------------------------------------------------------------
(* Policy control: one entry per slice *)

DefaultRule == [precedence |-> 255, id |-> 0]

(* Rules come sorted, and a slice without any has the default one. *)
Rules(s) == IF s.rules = <<>> THEN <<DefaultRule>>
            ELSE CHOOSE q \in StablySorted(s.rules, LAMBDA r : <<r.precedence, r.id>>) : TRUE

(* Variant: each once. *)
DistinctDnns(s, gs) == CHOOSE q \in Sorted({d.dnn : d \in ToSet(Domains(s, gs))},
                                           LAMBDA d : <<d>>) : TRUE

SupportedDnns(s, gs) == CHOOSE q \in StablySorted(Map(Domains(s, gs), LAMBDA d : d.dnn),
                                                  LAMBDA d : <<d>>) : TRUE

Policy(s, gs) == [plmn |-> s.plmn, snssai |-> Snssai(s), rules |-> Rules(s),
                  dnns |-> SupportedDnns(s, gs)]

(* Entries of one S-NSSAI keep the order of the database. *)
PolicyLists(ss, gs) == StablySorted(Map(Parsed(ss), LAMBDA s : Policy(s, gs)),
                                    LAMBDA e : <<e.plmn>> \o e.snssai)

-----------------------------------------------------------------------------
(* QoS of an IMSI: one entry per IP domain that has a QoS with traffic class *)

(* Variant: a domain without QoS hides the ones after it. *)
FirstQosDomains(g, gs) == {i \in DOMAIN gs[g].domains :
                              \A k \in 1..i : gs[g].domains[k].qos # None}

QosDomains(g, gs) == {i \in DOMAIN gs[g].domains : gs[g].domains[i].qos # None}

ImsiQosLists(gs) ==
    LET entries == UNION {{<<g, i>> : i \in QosDomains(g, gs)} : g \in DOMAIN gs}
        Domain(e) == gs[e[1]].domains[e[2]]
    IN  {Map(q, LAMBDA e : [imsis |-> gs[e[1]].imsis, dnn |-> Domain(e).dnn,
                            qos |-> Domain(e).qos]) :
            q \in Sorted(entries, LAMBDA e : <<Domain(e).dnn>>)}

(* GetImsiQosConfig: the first entry that matches; None is 404. *)
ImsiQos(list, imsi, dnn) ==
    LET found == {i \in DOMAIN list : list[i].dnn = dnn /\ imsi \in list[i].imsis}
    IN  IF found = {} THEN None ELSE list[Min(found)].qos

-----------------------------------------------------------------------------
Named(name, d) == [name |-> name, plmn |-> d.plmn, sst |-> d.sst, sd |-> d.sd,
                   groups |-> d.groups, gnbs |-> d.gnbs, upf |-> d.upf, rules |-> d.rules]

(* The process starts with nothing in memory; any configuration may be stored:
   slices in any order, with device groups that exist or not, sorted as the handler
   of slices leaves them.                                                     *)
Init == /\ \E v \in Varieties :
              /\ \E names \in SUBSET SliceNames : \E order \in SetToSeqs(names) :
                    \E doc \in [names -> v.slices] :
                       slices = [i \in DOMAIN order |-> Named(order[i], doc[order[i]])]
              /\ \E names \in SUBSET GroupNames : groups \in [names -> v.groups]
        /\ mem = None

(* syncInMemoryConfig *)
Sync == /\ \E a \in PlmnLists(slices), b \in PlmnSnssaiLists(slices),
              c \in AccessMobilityLists(slices), d \in SessionLists(slices, groups),
              e \in PolicyLists(slices, groups), f \in ImsiQosLists(groups) :
              mem' = [plmn |-> a, plmnSnssai |-> b, accessAndMobility |-> c,
                      sessionManagement |-> d, policyControl |-> e, imsiQos |-> f]
        /\ UNCHANGED <<slices, groups>>

Spec == Init /\ [][Sync]_vars

-----------------------------------------------------------------------------
Synced == mem # None
Served(field) == ToSet(mem[field])

(* Two slices of one PLMN whose identifiers are written differently and mean the
   same S-NSSAI, and an IMSI with two QoS for one DNN.                        *)
Ambiguous == \E s, t \in ToSet(Parsed(slices)) :
                s.plmn = t.plmn /\ Snssai(s) = Snssai(t) /\ SliceId(s) # SliceId(t)

QosOf(imsi, dnn) ==
    {d.qos : d \in UNION {{x \in ToSet(groups[g].domains) : x.dnn = dnn} :
                             g \in {h \in DOMAIN groups : imsi \in groups[h].imsis}}} \ {None}

Dnns == {d.dnn : d \in UNION {ToSet(groups[g].domains) : g \in DOMAIN groups}}

(* The four endpoints that speak of slices speak of the same ones, and the PLMN
   endpoint has the PLMN of each.                                             *)
EndpointsAgree == Synced =>
    LET sessions == {<<e.plmn, e.snssai>> : e \in Served("sessionManagement")}
    IN  /\ sessions = {<<e.plmn, e.snssai>> : e \in Served("policyControl")}
        /\ sessions = {<<e.plmn, e.snssai>> : e \in Served("accessAndMobility")}
        /\ sessions = UNION {{<<e.plmn, id>> : id \in ToSet(e.snssais)} :
                                e \in Served("plmnSnssai")}
        /\ {k[1] : k \in sessions} \subseteq Served("plmn")
        /\ Len(mem.sessionManagement) = Len(mem.policyControl)

(* The AMF is served the TAC of every gNB of a slice under the slice's PLMN and
   S-NSSAI, and no other.                                                     *)
TacsServed == Synced =>
    \A k \in {<<s.plmn, Snssai(s)>> : s \in ToSet(Parsed(slices))} :
        UNION {e.tacs : e \in {x \in Served("accessAndMobility") : <<x.plmn, x.snssai>> = k}}
          = UNION {{g.tac : g \in s.gnbs} :
                      s \in {t \in ToSet(Parsed(slices)) : <<t.plmn, Snssai(t)>> = k}}

(* For each slice the PCF is served the DNNs whose IP domains the SMF is served,
   and as many times.                                                         *)
DnnsAgree == Synced =>
    \A e \in Served("sessionManagement") : \E p \in Served("policyControl") :
        /\ <<p.plmn, p.snssai>> = <<e.plmn, e.snssai>>
        /\ p.dnns \in StablySorted(e.dnns, LAMBDA d : <<d>>)

(* A request for the QoS of an IMSI in a DNN is answered with one that a device
   group of the IMSI configures for the DNN, and 404 only if there is none.   *)
QosServed == Synced =>
    \A imsi \in Imsis, dnn \in Dnns :
        LET qos == QosOf(imsi, dnn)
        IN  ImsiQos(mem.imsiQos, imsi, dnn) \in IF qos = {} THEN {None} ELSE qos

(* While what is stored does not change, neither does what is served, whatever
   order maps are iterated in: but for access and mobility when one S-NSSAI is
   written in two ways, and for the QoS of an IMSI that has two for the DNN.  *)
ServedStable ==
    [][Synced =>
          /\ \A f \in {"plmn", "plmnSnssai", "sessionManagement", "policyControl"} :
                mem'[f] = mem[f]
          /\ Ambiguous \/ mem'.accessAndMobility = mem.accessAndMobility
          /\ \A imsi \in Imsis, dnn \in Dnns : Cardinality(QosOf(imsi, dnn)) <= 1 =>
                ImsiQos(mem'.imsiQos, imsi, dnn) = ImsiQos(mem.imsiQos, imsi, dnn)]_vars

=============================================================================
