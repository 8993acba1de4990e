---------------------------- MODULE SubscriberView ----------------------------
(* A client that asks for one subscriber while others are served: the handler
   reads six collections one after the other, takes no lock, and no two of the
   answers need to be of the same moment.                                     *)
EXTENDS Provisioning

(* A scope bounds the requests of a behaviour: who serves them, the operations, what
   they name, the PLMNs and SSTs of their slices, the kinds of their device groups,
   the faults, and the IMSIs that the client asks for.                        *)
CONSTANT Scopes

ASSUME ScopesAssumption ==
    Scopes \subseteq [workers : SUBSET Workers, ops : SUBSET Ops, imsis : SUBSET Imsis,
                      groups : SUBSET Groups,
                      plmns : SUBSET Plmns, ssts : SUBSET Ssts, kinds : SUBSET Kinds,
                      faults : 0..MaxFaults, viewed : SUBSET Imsis]

VARIABLES scope,  \* one of Scopes, which no step changes
          reader, \* the request, and whether it has read anything
          absent  \* history: at some moment of it nothing was stored for the IMSI

view == <<reader, absent>>
rvars == <<vars, scope>>
vvars == <<rvars, view>>

(* In the order GetSubscriberByID reads them. *)
Collections == <<"auth", "amData", "smData", "smfSel", "amPolicy", "smPolicy">>

NoReader == [at |-> 0, imsi |-> None, found |-> FALSE, status |-> 0]

StoredFor(i) == (IF i \in auth THEN {"auth"} ELSE {}) \union {d[1] : d \in {e \in docs : e[2] = i}}

VInit == Init /\ scope \in Scopes /\ reader = NoReader /\ absent = FALSE

GetSubscriber(i) ==
    /\ reader = NoReader
    /\ reader' = [NoReader EXCEPT !.at = 1, !.imsi = i]
    /\ absent' = (StoredFor(i) = {})
    /\ UNCHANGED rvars

(* Variant: what the last collection holds decides. *)
ReadLast ==
    LET c == Collections[reader.at]
    IN  /\ reader.at \in DOMAIN Collections
        /\ reader' = [reader EXCEPT !.at = @ + 1, !.found = c \in StoredFor(reader.imsi)]
        /\ UNCHANGED <<rvars, absent>>

(* The handler never looks whether one answer fits the others. *)
Read ==
    LET c == Collections[reader.at]
    IN  /\ reader.at \in DOMAIN Collections
        /\ reader' = [reader EXCEPT !.at = @ + 1,
                                    !.found = @ \/ c \in StoredFor(reader.imsi)]
        /\ UNCHANGED <<rvars, absent>>

ReadFailed == /\ reader.at \in DOMAIN Collections
              /\ reader' = [reader EXCEPT !.at = 7, !.status = 500]
              /\ UNCHANGED <<rvars, absent>>

Answer == /\ reader.at = 7 /\ reader.status = 0
          /\ reader' = [reader EXCEPT !.status = IF reader.found THEN 200 ELSE 404]
          /\ UNCHANGED <<rvars, absent>>

Answered == /\ reader.status # 0
            /\ reader' = NoReader /\ absent' = FALSE
            /\ UNCHANGED rvars

InScope(j) ==
    /\ j.op \in scope.ops \union {"none"}
    /\ j.arg \in scope.imsis \union scope.groups \union {None}
    /\ j.op = "putSlice" => /\ j.new.groups \subseteq scope.groups
                           /\ j.new.plmn \in scope.plmns /\ j.new.sst \in scope.ssts
    /\ j.op = "putGroup" => /\ j.name \in scope.groups
                           /\ j.new.imsis \subseteq scope.imsis /\ j.new.kind \in scope.kinds

(* A step of Provisioning, by one of the handlers of the scope. *)
Others == /\ \/ \E w \in scope.workers : /\ Arrive(w) \/ Locks(w) \/ Proceed(w) \/ Fails(w)
                                         /\ InScope(job'[w])
             \/ Restart
          /\ faults' <= scope.faults
          /\ UNCHANGED <<scope, reader>>
          /\ absent' = (absent \/ (reader.at # 0 /\ StoredFor(reader.imsi)' = {}))

VNext == \/ \E i \in scope.viewed : GetSubscriber(i)
         \/ Read \/ ReadFailed \/ Answer \/ Answered \/ Others

VSpec == VInit /\ [][VNext]_vvars

-----------------------------------------------------------------------------
(* Although the six reads are of six moments, 404 is only answered when at some
   moment of the request there was nothing: as long as handlers that write come
   one by one and without failures, under one PLMN.                           *)
NotFoundTrue == reader.status = 404 => absent
=============================================================================
