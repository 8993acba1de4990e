---------------------------- MODULE Provisioning ----------------------------
(* The handlers that configure network slices, device groups and subscribers,
   and the five documents per IMSI they derive for the core network: AM policy
   and SM policy, keyed by the IMSI, and AM data, SM data and SMF selection,
   keyed by the IMSI and the serving PLMN.

   Every database call is a step of its own, so handlers interleave wherever
   rwLock does not keep them apart.  An upsert is two calls, a find and then an
   update or an insertion, and no index keeps two documents of one name apart.
   A slice is its device groups, its PLMN and whether its SST parses; a device
   group its IMSIs and what its IP domains allow to derive; a derived document
   only whether it is there.                                                  *)
EXTENDS Naturals, Bags

CONSTANTS Workers, \* goroutines that serve requests, one after the other
          Imsis, Groups, Slices, Plmns,
          Kinds,     \* the kinds of IP domains device groups have
          Ssts,      \* whether the SST of slices parses
          Ops,       \* the operations clients call
          MaxFaults, \* bound: database calls that fail, ends of the process
          None

ASSUME ProvisioningAssumption ==
    /\ None \notin Workers \union Imsis \union Plmns
    /\ Kinds \subseteq {"none", "full", "noQos", "noClass"} /\ "none" \in Kinds
    /\ Ssts \subseteq BOOLEAN
    /\ Ops \subseteq {"putSlice", "deleteSlice", "putGroup", "deleteGroup", "postSub",
                      "putSub", "deleteSub"}
    /\ MaxFaults \in Nat

VARIABLES
    auth,   \* IMSIs with authentication data
    groups, \* the device groups, of each name the document stored first
    slices, \* the network slices, likewise
    docs,   \* the derived documents <<collection, IMSI, PLMN or None>>
    extra,  \* the bag of the documents stored besides the first of their name
    rwLock, \* its holder
    job,    \* the request each worker serves, and its local variables
    faults,
    broken,     \* history: a write or removal of derived documents has failed
    calm        \* history: requests came one by one and were all answered 2xx

vars == <<auth, groups, slices, docs, extra, rwLock, job, faults, broken, calm>>
store == <<auth, groups, slices, docs, extra>>
history == <<faults, broken, calm>>

(* What a read returns when there is no document: json.Unmarshal leaves the
   zero value, a slice without groups or a group without IMSIs and IP domains. *)
NoSlice == [groups |-> {}, plmn |-> None, sst |-> FALSE]
NoGroup == [imsis |-> {}, kind |-> "missing"]

SliceDocs == [groups : SUBSET Groups, plmn : Plmns, sst : Ssts]
GroupDocs == [imsis : SUBSET Imsis, kind : Kinds]

Idle == [pc |-> "idle", op |-> "none", arg |-> None, work |-> {},
         name |-> None, new |-> None, prev |-> None, plmn |-> None,
         left |-> {}, imsis |-> {}, gone |-> {}, cur |-> None, k |-> 0,
         extent |-> 0, seen |-> None, err |-> FALSE, hurt |-> FALSE, alone |-> FALSE]

Init == /\ auth = {}
        /\ groups = [g \in Groups |-> NoGroup]
        /\ slices = [s \in Slices |-> NoSlice]
        /\ docs = {}
        /\ extra = EmptyBag
        /\ rwLock = None
        /\ job = [w \in Workers |-> Idle]
        /\ faults = 0
        /\ broken = FALSE
        /\ calm = TRUE

-----------------------------------------------------------------------------
(* The derived documents. *)

(* In the order updatePolicyAndProvisionedData writes them. *)
Derived == <<"amPolicy", "smPolicy", "amData", "smData", "smfSel">>

Key(c, i, p) == IF c \in {"amPolicy", "smPolicy"} THEN <<c, i, None>> ELSE <<c, i, p>>

(* removeSubscriberEntriesRelatedToDeviceGroups, one transaction.  It deletes one
   document of each key.                                                      *)
KeysOf(i, p) == {Key(Derived[k], i, p) : k \in DOMAIN Derived}

(* One document of each of these keys less. *)
Without(keys) == docs \ (keys \ DOMAIN extra)

AmData(i) == {d \in docs : d[1] = "amData" /\ d[2] = i}
Provided(i, p) == \A k \in DOMAIN Derived : Key(Derived[k], i, p) \in docs

OnSlice(j) == j.op \in {"putSlice", "deleteSlice", "deleteGroup"}
Looping(j) == j.op \in {"deleteGroup", "deleteSub"}

(* How many documents are written for an IMSI: a DNN without traffic class stops
   at the SM data.  A DNN without QoS has none, and a device group's own update
   leaves such a DNN out.                                                     *)
Extent(j, kind) == IF kind = "noClass" \/ (kind = "noQos" /\ OnSlice(j)) THEN 3 ELSE 5

-----------------------------------------------------------------------------
(* Requests arrive. *)

(* Every document is stored once, and AM data without a PLMN only alone. *)
Single == /\ extra = EmptyBag
          /\ \A i \in Imsis, p \in Plmns :
                ~({<<"amData", i, None>>, <<"amData", i, p>>} \subseteq docs)

Begin(w, j) ==
    LET alone == \A v \in Workers \ {w} : job[v].pc = "idle"
    IN  /\ job[w].pc = "idle" /\ j.op \in Ops
        /\ job' = [v \in Workers |-> IF v = w THEN [j EXCEPT !.alone = alone /\ Single]
                                              ELSE [job[v] EXCEPT !.alone = FALSE]]
        /\ calm' = (calm /\ alone)
        /\ UNCHANGED <<store, rwLock, faults, broken>>

PutSlice(w, s, d) == Begin(w, [Idle EXCEPT !.op = "putSlice", !.pc = "prev",
                                           !.name = s, !.new = d])
DeleteSlice(w, s) == Begin(w, [Idle EXCEPT !.op = "deleteSlice", !.pc = "prev",
                                           !.name = s, !.new = NoSlice])
PutGroup(w, g, d) == Begin(w, [Idle EXCEPT !.op = "putGroup", !.pc = "prev",
                                           !.name = g, !.new = d])
DeleteGroup(w, g) == Begin(w, [Idle EXCEPT !.op = "deleteGroup", !.pc = "list", !.arg = g])
PostSub(w, i)     == Begin(w, [Idle EXCEPT !.op = "postSub", !.pc = "exists", !.arg = i])
PutSub(w, i)      == Begin(w, [Idle EXCEPT !.op = "putSub", !.pc = "exists", !.arg = i])
DeleteSub(w, i)   == Begin(w, [Idle EXCEPT !.op = "deleteSub", !.pc = "list", !.arg = i])

(* The answer; a panic is answered 500 as well. *)
End(w) == /\ job[w].pc = "end"
          /\ job' = [job EXCEPT ![w] = Idle]
          /\ calm' = (calm /\ ~job[w].err)
          /\ UNCHANGED <<store, rwLock, faults, broken>>

-----------------------------------------------------------------------------
(* Writing one slice or device group: read the stored document, write the new
   one, and then take rwLock to bring the derived documents in line.          *)

ReadPrev(w) ==
    /\ job[w].pc = "prev"
    /\ job' = [job EXCEPT ![w].pc = "post",
                          ![w].prev = IF OnSlice(job[w]) THEN slices[job[w].name]
                                                         ELSE groups[job[w].name]]
    /\ UNCHANGED <<store, rwLock, history>>

(* What the find of an upsert looks for is there: the slice or device group of
   that name, AM data of the PLMN or without one; when a subscriber is created or
   updated, its AM data and its authentication data.                          *)
Matching(i, p) == docs \intersect {<<"amData", i, p>>, <<"amData", i, None>>}

Present(j) ==
    CASE j.pc = "store" -> (IF AmData(j.arg) # {} THEN {"doc"} ELSE {})
                              \union (IF j.arg \in auth THEN {"auth"} ELSE {})
      [] j.pc = "post" /\ OnSlice(j) -> IF slices[j.name] # NoSlice THEN {"doc"} ELSE {}
      [] j.pc = "post" /\ ~OnSlice(j) -> IF groups[j.name] # NoGroup THEN {"doc"} ELSE {}
      [] OTHER -> IF Matching(j.cur, j.plmn) # {} THEN {"doc"} ELSE {}

(* The find.  The other derived documents are upserted as well, but all by the
   holder of rwLock, so that what their finds saw still holds.                *)
Upserts(j) == \/ j.pc = "post" /\ j.op # "deleteSlice"
              \/ j.pc = "store"
              \/ j.cur # None /\ Derived[j.k] = "amData"

(* A find has been made, and its transaction can write: the server refuses to update
   a document that is gone since, and the driver repeats the transaction.     *)
Sure(j) == j.seen # None /\ (j.pc = "store" => j.seen \subseteq Present(j))

Find(w) == /\ Upserts(job[w]) /\ ~Sure(job[w])
           /\ job' = [job EXCEPT ![w].seen = Present(job[w])]
           /\ UNCHANGED <<store, rwLock, history>>

(* $set merges: IP domains the request leaves out stay in the document. *)
Merged(old, new) == IF new.kind = "none" THEN [new EXCEPT !.kind = old.kind] ELSE new

(* An insertion is made even if a document has been inserted since the find, and
   an update changes the first document, if there still is one.               *)
Posted(j) == IF j.seen = {} \/ OnSlice(j) THEN j.new ELSE Merged(groups[j.name], j.new)

Post(w) ==
    LET j == job[w]
        first == (Present(j) = {}) = (j.seen = {})
    IN  /\ j.pc = "post" /\ j.seen # None
        /\ job' = [job EXCEPT ![w].pc = "lock", ![w].seen = None]
        /\ slices' = IF first /\ OnSlice(j) THEN [slices EXCEPT ![j.name] = Posted(j)]
                                            ELSE slices
        /\ groups' = IF first /\ ~OnSlice(j) THEN [groups EXCEPT ![j.name] = Posted(j)]
                                             ELSE groups
        /\ extra' = IF j.seen = {} /\ ~first
                      THEN extra (+) SetToBag({<<IF OnSlice(j) THEN "slice" ELSE "group",
                                                 j.name, j.new>>})
                      ELSE extra
        /\ UNCHANGED <<auth, docs, rwLock, history>>

(* A deletion takes the first document of the name, and another is the first then. *)
Extra(c, n) == {e \in DOMAIN extra : e[1] = c /\ e[2] = n}

DeleteSliceDoc(w) ==
    LET j == job[w]
    IN  /\ j.pc = "post" /\ j.op = "deleteSlice"
        /\ job' = [job EXCEPT ![w].pc = "lock"]
        /\ \/ /\ Extra("slice", j.name) = {}
              /\ slices' = [slices EXCEPT ![j.name] = NoSlice]
              /\ UNCHANGED extra
           \/ \E e \in Extra("slice", j.name) :
                 slices' = [slices EXCEPT ![j.name] = e[3]] /\ extra' = extra (-) SetToBag({e})
        /\ UNCHANGED <<auth, groups, docs, rwLock, history>>

(* Variant: every device group the slice had before is cleaned up. *)
AllDeviceGroups(new, prev) == prev.groups

DeletedDeviceGroups(new, prev) == prev.groups \ new.groups

(* Variant: without waiting for rwLock. *)
LockSliceAnyway(w) ==
    LET j == job[w]
    IN  /\ j.pc = "lock" /\ OnSlice(j)
        /\ rwLock' = w
        /\ job' = CASE j.op = "deleteSlice" ->
                         [job EXCEPT ![w].pc = "cleanup", ![w].plmn = j.prev.plmn,
                                     ![w].left = DeletedDeviceGroups(j.new, j.prev)]
                    [] j.op # "deleteSlice" /\ j.new.sst ->
                         [job EXCEPT ![w].pc = "derive", ![w].plmn = j.new.plmn,
                                     ![w].left = j.new.groups]
                    [] OTHER -> [job EXCEPT ![w].pc = "unlock", ![w].err = TRUE]
        /\ UNCHANGED <<store, history>>

(* syncSubscribersOnSliceCreateOrUpdate and syncSubscribersOnSliceDelete *)
LockSlice(w) ==
    LET j == job[w]
    IN  /\ j.pc = "lock" /\ OnSlice(j)
        /\ rwLock = None /\ rwLock' = w
        /\ job' = CASE j.op = "deleteSlice" ->
                         [job EXCEPT ![w].pc = "cleanup", ![w].plmn = j.prev.plmn,
                                     ![w].left = DeletedDeviceGroups(j.new, j.prev)]
                    [] j.op # "deleteSlice" /\ j.new.sst ->
                         [job EXCEPT ![w].pc = "derive", ![w].plmn = j.new.plmn,
                                     ![w].left = j.new.groups]
                    [] OTHER -> [job EXCEPT ![w].pc = "unlock", ![w].err = TRUE]
        /\ UNCHANGED <<store, history>>

(* What a read of a whole collection returns. *)
AllSlices == {<<s, slices[s]>> : s \in Slices} \union
             {<<e[2], e[3]>> : e \in {x \in DOMAIN extra : x[1] = "slice"}}
AllGroups == {<<g, groups[g]>> : g \in Groups} \union
             {<<e[2], e[3]>> : e \in {x \in DOMAIN extra : x[1] = "group"}}

(* syncDeviceGroupSubscriber: the first slice of the collection that has the
   device group, in no order; without one there is nothing to do.             *)
LockGroup(w) ==
    LET j == job[w]
        found == {d \in AllSlices : j.name \in d[2].groups}
    IN  /\ j.pc = "lock" /\ ~OnSlice(j)
        /\ rwLock = None /\ rwLock' = w
        /\ \/ /\ found = {}
              /\ job' = [job EXCEPT ![w].pc = "unlock"]
           \/ \E d \in found :
                 job' = IF d[2].sst
                          THEN [job EXCEPT ![w].pc = "derive",
                                           ![w].plmn = d[2].plmn,
                                           ![w].imsis = j.new.imsis,
                                           ![w].extent = Extent(j, j.new.kind)]
                          ELSE [job EXCEPT ![w].pc = "unlock", ![w].err = TRUE]
        /\ UNCHANGED <<store, history>>

-----------------------------------------------------------------------------
(* Under rwLock: derive the documents of the IMSIs. *)

(* Slices: the next device group; one without IP domains is skipped. *)
ReadGroup(w) ==
    LET j == job[w]
    IN  /\ j.pc = "derive" /\ j.imsis = {} /\ j.cur = None
        /\ \E g \in j.left :
              job' = [job EXCEPT ![w].left = @ \ {g},
                                 ![w].imsis = IF groups[g].kind = "none" THEN {}
                                                ELSE groups[g].imsis,
                                 ![w].extent = Extent(j, groups[g].kind)]
        /\ UNCHANGED <<store, rwLock, history>>

(* Variant: an IMSI that has a policy counts as provisioned. *)
CheckAuthOnce(w) ==
    /\ job[w].pc = "derive" /\ job[w].cur = None
    /\ \E i \in job[w].imsis :
          LET write == i \in auth /\ Key("amPolicy", i, None) \notin docs
          IN  job' = [job EXCEPT ![w].imsis = @ \ {i},
                                 ![w].cur = IF write THEN i ELSE None,
                                 ![w].k = IF write THEN 1 ELSE 0]
    /\ UNCHANGED <<store, rwLock, history>>

(* Only an IMSI with authentication data gets documents. *)
CheckAuth(w) ==
    /\ job[w].pc = "derive" /\ job[w].cur = None
    /\ \E i \in job[w].imsis :
          job' = [job EXCEPT ![w].imsis = @ \ {i},
                             ![w].cur = IF i \in auth THEN i ELSE None,
                             ![w].k = IF i \in auth THEN 1 ELSE 0]
    /\ UNCHANGED <<store, rwLock, history>>

(* A slice's update stops at the first error, a device group's goes on. *)
Stopped(j) == IF OnSlice(j)
                THEN [j EXCEPT !.err = TRUE, !.pc = "unlock", !.cur = None, !.k = 0, !.seen = None,
                               !.imsis = {}, !.left = {}, !.gone = {}]
                ELSE [j EXCEPT !.err = TRUE, !.cur = None, !.k = 0, !.seen = None]

(* AM data: an insertion, or an update of the first match, if there still is one. *)
InsertAmData(i, p) ==
    /\ docs' = docs \union {<<"amData", i, p>>}
    /\ extra' = extra (+) SetToBag(docs \intersect {<<"amData", i, p>>})

UpdateAmData(i, p) ==
    \/ Matching(i, p) # {<<"amData", i, None>>} /\ UNCHANGED <<docs, extra>>
    \/ LET bare == <<"amData", i, None>>
       IN  /\ bare \in docs
           /\ docs' = Without({bare}) \union {<<"amData", i, p>>}
           /\ extra' = (extra (-) SetToBag({bare}))
                         (+) SetToBag(docs \intersect {<<"amData", i, p>>})

Upsert(j) ==
    IF Derived[j.k] = "amData"
      THEN /\ j.seen # None
           /\ IF j.seen = {} THEN InsertAmData(j.cur, j.plmn) ELSE UpdateAmData(j.cur, j.plmn)
      ELSE /\ docs' = docs \union {Key(Derived[j.k], j.cur, j.plmn)}
           /\ UNCHANGED extra

(* Variant: one document too many. *)
WriteDocPast(w) ==
    LET j == job[w]
    IN  /\ j.cur # None
        /\ Upsert(j)
        /\ job' = [job EXCEPT ![w] = IF j.k > j.extent THEN [j EXCEPT !.cur = None, !.k = 0]
                                                      ELSE [j EXCEPT !.k = @ + 1, !.seen = None]]
        /\ UNCHANGED <<auth, groups, slices, rwLock, faults, broken, calm>>

WriteDoc(w) ==
    LET j == job[w]
        last == j.k = j.extent
    IN  /\ j.cur # None
        /\ Upsert(j)
        /\ job' = [job EXCEPT ![w] =
                     CASE ~last -> [j EXCEPT !.k = @ + 1, !.seen = None]
                       [] last /\ j.extent = 5 -> [j EXCEPT !.cur = None, !.k = 0]
                       [] OTHER -> Stopped(j)]
        /\ broken' = (broken \/ (last /\ j.extent < 5))
        /\ UNCHANGED <<auth, groups, slices, rwLock, faults, calm>>

(* Variant: the two lists are swapped. *)
AddedImsis(new, prev) == new.imsis \ prev.imsis

DeletedImsis(new, prev) == prev.imsis \ new.imsis

(* Then clean up: a slice's update after the device groups it no longer has,
   under the PLMN it had, a device group's after the IMSIs it no longer has.  *)
StartCleanup(w) ==
    LET j == job[w]
    IN  /\ j.pc = "derive" /\ j.left = {} /\ j.imsis = {} /\ j.cur = None
        /\ job' = IF OnSlice(j)
                    THEN [job EXCEPT ![w].pc = "cleanup", ![w].plmn = j.prev.plmn,
                                     ![w].left = DeletedDeviceGroups(j.new, j.prev)]
                    ELSE [job EXCEPT ![w].pc = "cleanup",
                                     ![w].gone = DeletedImsis(j.new, j.prev)]
        /\ UNCHANGED <<store, rwLock, history>>

CleanGroup(w) ==
    /\ job[w].pc = "cleanup" /\ job[w].gone = {}
    /\ \E g \in job[w].left : job' = [job EXCEPT ![w].left = @ \ {g},
                                                 ![w].gone = groups[g].imsis]
    /\ UNCHANGED <<store, rwLock, history>>

Remove(w) ==
    /\ job[w].pc = "cleanup"
    /\ \E i \in job[w].gone :
          LET keys == KeysOf(i, job[w].plmn)
          IN  /\ docs' = Without(keys) /\ extra' = extra (-) SetToBag(keys)
              /\ job' = [job EXCEPT ![w].gone = @ \ {i}]
    /\ UNCHANGED <<auth, groups, slices, rwLock, history>>

Unlock(w) ==
    LET j == job[w]
    IN  /\ j.pc = "unlock" \/ (j.pc = "cleanup" /\ j.left = {} /\ j.gone = {})
        /\ rwLock' = None
        /\ job' = [job EXCEPT ![w].pc = IF Looping(j) THEN "next" ELSE "end"]
        /\ UNCHANGED <<store, history>>

-----------------------------------------------------------------------------
(* Deleting a device group takes it out of every slice first, deleting a
   subscriber takes its IMSI out of every device group first.                 *)

(* Variant: slices are not asked for. *)
ListNothing(w) == /\ job[w].pc = "list"
                  /\ job' = [job EXCEPT ![w].pc = "next"]
                  /\ UNCHANGED <<store, rwLock, history>>

(* Variant: the deletion takes rwLock before it writes the slices. *)
ListLocked(w) ==
    LET j == job[w]
    IN  /\ j.pc = "list"
        /\ rwLock = None /\ rwLock' = w
        /\ job' = [job EXCEPT ![w].pc = "next", ![w].work =
              {<<d[1], [d[2] EXCEPT !.groups = @ \ {j.arg}]>> :
                  d \in {e \in AllSlices : j.arg \in e[2].groups}}]
        /\ UNCHANGED <<store, history>>

List(w) ==
    LET j == job[w]
    IN  /\ j.pc = "list"
        /\ job' = [job EXCEPT ![w].pc = "next", ![w].work =
              IF j.op = "deleteGroup"
                THEN {<<d[1], [d[2] EXCEPT !.groups = @ \ {j.arg}]>> :
                        d \in {e \in AllSlices : j.arg \in e[2].groups}}
                ELSE {<<d[1], [d[2] EXCEPT !.imsis = @ \ {j.arg}]>> :
                        d \in {e \in AllGroups : j.arg \in e[2].imsis}}]
        /\ UNCHANGED <<store, rwLock, history>>

(* A slice that fails does not stop the loop, a device group does. *)
NextDoc(w) ==
    LET j == job[w]
    IN  /\ j.pc = "next" /\ ~(j.op = "deleteSub" /\ j.err)
        /\ \E d \in j.work :
              job' = [job EXCEPT ![w] = [j EXCEPT !.pc = "prev", !.work = @ \ {d},
                                                  !.name = d[1], !.new = d[2]]]
        /\ UNCHANGED <<store, rwLock, history>>

(* Any error, in the end, keeps the device group or the subscriber. *)
GiveUp(w) ==
    /\ job[w].pc = "next" /\ job[w].err
    /\ job[w].op = "deleteSub" \/ job[w].work = {}
    /\ job' = [job EXCEPT ![w].pc = "end"]
    /\ UNCHANGED <<store, rwLock, history>>

(* Variant: errors are forgotten. *)
FinishingAnyway(w, op) == /\ job[w].pc = "next" /\ job[w].op = op
                          /\ job[w].work = {}

Finishing(w, op) == /\ job[w].pc = "next" /\ job[w].op = op
                    /\ job[w].work = {} /\ ~job[w].err

(* handleDeviceGroupDelete, which holds rwLock for its one call *)
DeleteGroupDoc(w) ==
    /\ Finishing(w, "deleteGroup")
    /\ rwLock = None
    /\ job' = [job EXCEPT ![w].pc = "end"]
    /\ LET g == job[w].arg
       IN  \/ /\ Extra("group", g) = {}
              /\ groups' = [groups EXCEPT ![g] = NoGroup]
              /\ UNCHANGED extra
           \/ \E e \in Extra("group", g) :
                 groups' = [groups EXCEPT ![g] = e[3]] /\ extra' = extra (-) SetToBag({e})
    /\ UNCHANGED <<auth, slices, docs, rwLock, history>>

(* One transaction; it deletes one document of authentication data and one of AM
   data of the IMSI.                                                          *)
DeleteAuth(w) ==
    LET i == job[w].arg
        key == <<"auth", i, None>>
    IN  /\ Finishing(w, "deleteSub")
        /\ auth' = IF key \in DOMAIN extra THEN auth ELSE auth \ {i}
        /\ \/ /\ AmData(i) = {}
              /\ extra' = extra (-) SetToBag({key})
              /\ UNCHANGED docs
           \/ \E d \in AmData(i) : /\ docs' = Without({d})
                                   /\ extra' = extra (-) SetToBag({key, d})
        /\ job' = [job EXCEPT ![w].pc = "end"]
        /\ UNCHANGED <<groups, slices, rwLock, history>>

-----------------------------------------------------------------------------
(* Creating and updating a subscriber: 409 or 404 by its AM data, and then one
   transaction for the authentication data and a bare AM data document.       *)
Exists(w) ==
    LET j == job[w]
        passes == (AmData(j.arg) = {}) = (j.op = "postSub")
    IN  /\ j.pc = "exists"
        /\ job' = [job EXCEPT ![w].pc = IF passes THEN "store" ELSE "end",
                              ![w].err = ~passes]
        /\ UNCHANGED <<store, rwLock, history>>

(* It writes by what it saw when it began: it updates only what is still there, and
   nothing refuses an insertion.                                              *)
Store(w) ==
    LET j == job[w]
        i == j.arg
        bare == <<"amData", i, None>>
        twice == (IF "doc" \in j.seen THEN {} ELSE docs \intersect {bare}) \union
                 (IF "auth" \in j.seen \/ i \notin auth THEN {} ELSE {<<"auth", i, None>>})
    IN  /\ j.pc = "store" /\ j.seen # None
        /\ j.seen \subseteq Present(j)
        /\ auth' = auth \union {i}
        /\ docs' = IF "doc" \in j.seen THEN docs ELSE docs \union {bare}
        /\ extra' = extra (+) SetToBag(twice)
        /\ job' = [job EXCEPT ![w].pc = "end", ![w].seen = None]
        /\ UNCHANGED <<groups, slices, rwLock, faults, broken, calm>>

-----------------------------------------------------------------------------
(* Failing database calls. *)

Fault == faults < MaxFaults /\ faults' = faults + 1

(* A failed read of the stored document counts as none, except in the loop over
   slices, which dereferences nil: the handler panics.                        *)
ReadPrevFails(w) ==
    /\ job[w].pc = "prev" /\ Fault
    /\ job' = IF job[w].op = "deleteGroup"
                THEN [job EXCEPT ![w].pc = "end", ![w].err = TRUE, ![w].work = {},
                                 ![w].hurt = TRUE]
                ELSE [job EXCEPT ![w].pc = "post", ![w].hurt = TRUE,
                                 ![w].prev = IF OnSlice(job[w]) THEN NoSlice ELSE NoGroup]
    /\ UNCHANGED <<store, rwLock, broken, calm>>

(* The answer is 500, or the loop remembers the error. *)
CallFails(w) ==
    /\ job[w].pc \in {"list", "post", "exists", "store", "next"}
    /\ job[w].pc = "next" => Finishing(w, "deleteGroup") \/ Finishing(w, "deleteSub")
    /\ Fault
    /\ job' = [job EXCEPT ![w].err = TRUE, ![w].hurt = TRUE, ![w].seen = None,
                          ![w].pc = IF job[w].pc = "post" /\ Looping(job[w])
                                      THEN "next" ELSE "end"]
    /\ UNCHANGED <<store, rwLock, broken, calm>>

(* Under rwLock a read that fails counts as nothing found, and says nothing. *)
ReadFails(w) ==
    LET j == job[w]
    IN  /\ Fault
        /\ \/ /\ j.pc = "lock" /\ ~OnSlice(j) /\ rwLock = None
              /\ rwLock' = w
              /\ job' = [job EXCEPT ![w].pc = "unlock", ![w].hurt = TRUE]
           \/ /\ j.pc = "derive" /\ j.imsis = {} /\ j.cur = None
              /\ \E g \in j.left : job' = [job EXCEPT ![w].left = @ \ {g}, ![w].hurt = TRUE]
              /\ UNCHANGED rwLock
           \/ /\ j.pc = "derive" /\ j.cur = None
              /\ \E i \in j.imsis : job' = [job EXCEPT ![w].imsis = @ \ {i}, ![w].hurt = TRUE]
              /\ UNCHANGED rwLock
           \/ /\ j.pc = "cleanup" /\ j.gone = {}
              /\ \E g \in j.left : job' = [job EXCEPT ![w].left = @ \ {g}, ![w].hurt = TRUE]
              /\ UNCHANGED rwLock
        /\ UNCHANGED <<store, broken, calm>>

WriteFails(w) ==
    LET j == job[w]
    IN  /\ Fault
        /\ \/ /\ j.cur # None
              /\ job' = [job EXCEPT ![w] = Stopped([j EXCEPT !.hurt = TRUE])]
           \/ /\ j.pc = "cleanup"
              /\ \E i \in j.gone :
                    job' = [job EXCEPT ![w] = Stopped([j EXCEPT !.gone = @ \ {i},
                                                                !.hurt = TRUE])]
        /\ broken' = TRUE
        /\ UNCHANGED <<store, rwLock, calm>>

(* The process ends and starts again; the database stays as it is. *)
Restart == /\ Fault
           /\ job' = [w \in Workers |-> Idle]
           /\ rwLock' = None
           /\ broken' = TRUE
           /\ calm' = FALSE
           /\ UNCHANGED store

-----------------------------------------------------------------------------
Arrive(w) == \/ \E s \in Slices : DeleteSlice(w, s) \/ \E d \in SliceDocs : PutSlice(w, s, d)
             \/ \E g \in Groups : DeleteGroup(w, g) \/ \E d \in GroupDocs : PutGroup(w, g, d)
             \/ \E i \in Imsis : PostSub(w, i) \/ PutSub(w, i) \/ DeleteSub(w, i)

Locks(w) == LockSlice(w) \/ LockGroup(w) \/ DeleteGroupDoc(w)

Proceed(w) == \/ ReadPrev(w) \/ Find(w) \/ Post(w) \/ DeleteSliceDoc(w) \/ ReadGroup(w)
              \/ CheckAuth(w) \/ WriteDoc(w) \/ StartCleanup(w) \/ CleanGroup(w) \/ Remove(w) \/ Unlock(w)
              \/ List(w) \/ NextDoc(w) \/ GiveUp(w) \/ DeleteAuth(w)
              \/ Exists(w) \/ Store(w) \/ End(w)

Fails(w) == ReadPrevFails(w) \/ CallFails(w) \/ ReadFails(w) \/ WriteFails(w)

Next == \/ \E w \in Workers : Arrive(w) \/ Locks(w) \/ Proceed(w) \/ Fails(w)
        \/ Restart

Spec == Init /\ [][Next]_vars

(* Handlers run, and a goroutine that waits for rwLock gets it although others
   keep taking it: sync.RWMutex hands it to waiters in turn.                  *)
FairSpec == Spec /\ \A w \in Workers : WF_vars(Proceed(w)) /\ SF_vars(Locks(w))

-----------------------------------------------------------------------------
Quiet == \A w \in Workers : job[w].pc = "idle"
InSlices(i) == \E s \in Slices : \E g \in slices[s].groups : i \in groups[g].imsis

TypeOK == /\ auth \subseteq Imsis
          /\ groups \in [Groups -> GroupDocs \union {NoGroup}]
          /\ slices \in [Slices -> SliceDocs \union {NoSlice}]
          /\ docs \subseteq {Derived[k] : k \in DOMAIN Derived} \X Imsis \X (Plmns \union {None})
          /\ rwLock \in Workers \union {None}
          /\ \A w \in Workers : job[w].cur # None => job[w].k \in 1..job[w].extent
          /\ faults \in 0..MaxFaults

(* Between two holders of rwLock no IMSI has half of its documents: however
   requests interleave, and as long as no write or removal has failed, AM and SM
   policy come together, SM data and SMF selection come together, and a policy
   comes with the data of some PLMN.                                          *)
DocsTogether ==
    (rwLock = None /\ ~broken) => \A i \in Imsis :
        /\ Key("amPolicy", i, None) \in docs <=> Key("smPolicy", i, None) \in docs
        /\ \A p \in Plmns : Key("smData", i, p) \in docs <=> Key("smfSel", i, p) \in docs
        /\ Key("smPolicy", i, None) \in docs => \E p \in Plmns : Key("smData", i, p) \in docs

(* With one PLMN, requests that come one by one and succeed leave no document
   of an IMSI that is in no device group of any slice.                        *)
NoOrphans ==
    (calm /\ Quiet /\ faults = 0 /\ \A p, q \in Plmns : p = q) =>
        \A d \in docs : d = <<"amData", d[2], None>> \/ InSlices(d[2])

(* Whatever fails, a request that runs alone deletes a device group only when no
   slice has it any more, and a subscriber only when no device group has it, so
   that a deletion that was cut short can be repeated.  Of a document stored
   twice by overlapping creations it would write back the first only.         *)
ReferencesFirst ==
    [][\A w \in Workers : LET j == job[w] IN j.alone =>
          /\ (j.op = "deleteGroup" /\ groups'[j.arg] # groups[j.arg]) =>
                \A d \in AllSlices : j.arg \notin d[2].groups
          /\ (j.op = "deleteSub" /\ auth' # auth) =>
                \A d \in AllGroups : j.arg \notin d[2].imsis]_vars

(* What requests achieve after a history that may contain anything: failed calls,
   ends of the process in the middle of a request, requests that overlapped.
   Nothing in the webconsole completes or repairs what such a history left, so
   all depends on the next request for op that has run alone, found every
   document stored once, met no failure, and is answered 2xx.                 *)
Succeeds(w, op) == /\ job[w].pc = "end" /\ job[w].op = op
                   /\ job[w].alone /\ ~job[w].err /\ ~job[w].hurt

(* Writing a slice again completes what an earlier request left half done: all
   subscribers of its device groups have all documents, but for those that a
   device group it has just lost has in common with one it keeps.             *)
SliceRepairs ==
    \A w \in Workers : LET j == job[w] IN
        Succeeds(w, "putSlice") =>
            \A g \in j.new.groups : groups[g].kind # "none" =>
                \A i \in groups[g].imsis \intersect auth :
                    \/ Provided(i, j.new.plmn)
                    \/ \E h \in j.prev.groups \ j.new.groups : i \in groups[h].imsis

(* So does writing a device group that is in one slice only, and the IMSIs it loses
   by that keep no document.                                                  *)
GroupRepairs ==
    \A w \in Workers : LET j == job[w] IN
        Succeeds(w, "putGroup") =>
            \A s \in Slices :
                {t \in Slices : j.name \in slices[t].groups} = {s} =>
                    /\ \A i \in j.new.imsis \intersect auth : Provided(i, slices[s].plmn)
                    /\ \A i \in j.prev.imsis \ j.new.imsis :
                          docs \intersect KeysOf(i, slices[s].plmn) = {}

(* A deletion that was cut short can be repeated: in the end the device group or
   the subscriber is gone, and nothing refers to it any more.                 *)
DeletionsRepair ==
    \A w \in Workers : LET j == job[w] IN
        /\ Succeeds(w, "deleteGroup") =>
              /\ \A d \in AllGroups : d[1] = j.arg => d[2] = NoGroup
              /\ \A d \in AllSlices : j.arg \notin d[2].groups
        /\ Succeeds(w, "deleteSub") =>
              j.arg \notin auth /\ \A d \in AllGroups : j.arg \notin d[2].imsis

(* Every request comes to its end: the nested writes of the deletions never take
   rwLock twice, and nobody keeps it.                                         *)
RequestsEnd == \A w \in Workers : job[w].pc # "idle" ~> job[w].pc = "idle"

(* PostSubscriberByID, "Check if the IMSI already exists in the database": an
   IMSI with authentication data is found.                                    *)
SubscribersFound == Quiet => \A i \in auth : AmData(i) # {}
=============================================================================
