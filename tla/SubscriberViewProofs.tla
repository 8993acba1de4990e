------------------------ MODULE SubscriberViewProofs ------------------------
(* Proofs about SubscriberView: a client that is answered 404 while handlers
   write.                                                                     *)
EXTENDS SubscriberView, ProvisioningProofs

(* In a scope with a client that views, one handler writes, without failures, slices
   of one PLMN and device groups for which all documents can be derived.      *)
Mild(c) == /\ c.faults = 0
           /\ \A v, w \in c.workers : v = w
           /\ \A p, q \in c.plmns : p = q
           /\ c.ssts \subseteq {TRUE} /\ c.kinds \subseteq {"none", "full"}

OneByOne == \A c \in Scopes : c.viewed # {} => Mild(c)

(* What is stored, and what a request is about to store, keeps to the scope. *)
SliceIn(d) == /\ d.plmn \in scope.plmns \union {None}
              /\ d.groups # {} => d.sst \in scope.ssts
GroupIn(d) == d.kind \in scope.kinds \union {"none", "missing"}

StoreIn == /\ \A s \in Slices : SliceIn(slices[s])
           /\ \A g \in Groups : GroupIn(groups[g])
           /\ \A d \in docs : d[3] \in scope.plmns \union {None}

JobIn(j) ==
    /\ j.op \in SliceOps =>
          /\ \A d \in j.work : SliceIn(d[2])
          /\ j.pc \in Writing => SliceIn(j.new)
          /\ j.pc \in Writing \ {"prev"} => SliceIn(j.prev)
    /\ j.op \in GroupOps =>
          /\ \A d \in j.work : GroupIn(d[2])
          /\ j.pc \in Writing => GroupIn(j.new)
    /\ j.pc \in {"derive", "cleanup"} => j.plmn \in scope.plmns \union {None}

(* Only the creation or the update of a subscriber is refused, and nothing that a
   request is about to store or derive gives an error.                        *)
Unerring(j) ==
    /\ j.err => j.pc = "end" /\ j.op \in SubOps
    /\ j.pc \in {"prev", "post", "lock"} /\ j.op \in {"putSlice", "deleteGroup"} => j.new.sst
    /\ j.op = "deleteGroup" => \A d \in j.work : d[2].sst
    /\ j.imsis # {} \/ j.cur # None => j.extent = 5

Tidy == \A d \in docs : Bare(d) \/ InSlices(d[2])
Owned == \A d \in docs : d[2] \in auth

Serving(j) ==
    /\ j.alone /\ InStep(j) /\ Documented(j) /\ Unerring(j)
    /\ j.op \in SubOps => Tidy
    /\ j.cur # None => j.cur \in auth

(* What handlers leave in a scope with a client that views: no IMSI has documents
   without authentication data.                                               *)
WritersInv == scope.viewed # {} =>
    /\ faults = 0 /\ StoreIn /\ Single
    /\ \A w \in Workers : job[w].pc # "idle" =>
          w \in scope.workers /\ Serving(job[w]) /\ JobIn(job[w])
    /\ Quiet => Tidy
    /\ Owned

Statuses == {0, 200, 404, 500}
Readers == [at : 0..7, imsi : Imsis \union {None}, found : BOOLEAN, status : Statuses]

(* What the client has been told so far, which is nothing only if at some moment
   nothing was stored.                                                        *)
ReaderInv ==
    /\ scope \in Scopes
    /\ reader \in Readers
    /\ reader.at # 0 => scope.viewed # {}
    /\ reader.at # 0 /\ StoredFor(reader.imsi) = {} => absent
    /\ reader.at \in 2..7 /\ ~reader.found /\ reader.status # 500 => absent
    /\ reader.status # 0 => reader.at = 7
    /\ reader.status = 404 => ~reader.found

ViewInv == WritersInv /\ ReaderInv

-----------------------------------------------------------------------------
(* Requests give no error that leaves the derived documents half done. *)
LEMMA ExtentFive == ASSUME Mild(scope), NEW j, NEW d, GroupIn(d) PROVE Extent(j, d.kind) = 5
BY DEF Mild, GroupIn, Extent

(* A slice that has a device group was stored by a client, and its SST parses. *)
LEMMA SliceParses ==
    ASSUME Mild(scope), NEW d, SliceIn(d), NEW g \in d.groups PROVE d.sst
<1>1. d.sst = TRUE
  BY DEF Mild, SliceIn
<1> QED BY <1>1

LEMMA ReadGroupExtent ==
    ASSUME Mild(scope), BaseInv, StoreIn, NEW w \in Workers, ReadGroup(w)
    PROVE  job'[w].extent = 5
<1>1. PICK g \in job[w].left :
         job' = [job EXCEPT ![w].left = @ \ {g},
                            ![w].imsis = IF groups[g].kind = "none" THEN {} ELSE groups[g].imsis,
                            ![w].extent = Extent(job[w], groups[g].kind)]
  BY DEF ReadGroup
<1>2. GroupIn(groups[g])
  BY DEF BaseInv, PlanInv, PlanOK, StoreIn
<1>3. Extent(job[w], groups[g].kind) = 5
  BY <1>2, ExtentFive
<1>4. DOMAIN job[w] = JobFields /\ DOMAIN job = Workers
  BY Fields DEF BaseInv
<1> DEFINE e == Extent(job[w], groups[g].kind)
           m == IF groups[g].kind = "none" THEN {} ELSE groups[g].imsis
<1>5. e = 5 /\ job' = [job EXCEPT ![w].left = @ \ {g}, ![w].imsis = m, ![w].extent = e]
  BY <1>1, <1>3
<1> HIDE DEF e, m
<1> QED BY <1>4, <1>5 DEF JobFields

LEMMA CheckAuthExtent ==
    ASSUME BaseInv, NEW w \in Workers, CheckAuth(w)
    PROVE  /\ job'[w].extent = job[w].extent /\ job[w].imsis # {}
           /\ job'[w].cur # None => job'[w].cur \in auth
<1>1. PICK i \in job[w].imsis :
         job' = [job EXCEPT ![w].imsis = @ \ {i},
                            ![w].cur = IF i \in auth THEN i ELSE None,
                            ![w].k = IF i \in auth THEN 1 ELSE 0]
  BY DEF CheckAuth
<1> DEFINE c == IF i \in auth THEN i ELSE None
           m == IF i \in auth THEN 1 ELSE 0
<1>2. /\ job' = [job EXCEPT ![w].imsis = @ \ {i}, ![w].cur = c, ![w].k = m]
      /\ c # None => c \in auth
  BY <1>1
<1>3. DOMAIN job[w] = JobFields /\ DOMAIN job = Workers
  BY Fields DEF BaseInv
<1> HIDE DEF c, m
<1>4. job'[w].cur = c /\ job'[w].extent = job[w].extent
  BY <1>2, <1>3 DEF JobFields
<1> QED BY <1>2, <1>4

LEMMA LockSliceErr ==
    ASSUME BaseInv, NEW w \in Workers, LockSlice(w), Unerring(job[w])
    PROVE  job'[w].err = job[w].err
<1>1. OnSlice(job[w]) /\ job[w].pc = "lock" /\ DOMAIN job[w] = JobFields /\ DOMAIN job = Workers
  BY Fields DEF BaseInv, LockSlice
<1>2. job[w].op # "deleteSlice" => job[w].new.sst
  BY <1>1 DEF Unerring, OnSlice
<1>3. \E p : \E l : \E q : job' = [job EXCEPT ![w].pc = q, ![w].plmn = p, ![w].left = l]
  BY <1>2 DEF LockSlice
<1>4. PICK p, l, q : job' = [job EXCEPT ![w].pc = q, ![w].plmn = p, ![w].left = l]
  BY <1>3
<1> QED BY <1>1, <1>4 DEF JobFields

LEMMA LockGroupErr ==
    ASSUME Mild(scope), BaseInv, StoreIn, NEW w \in Workers, LockGroup(w), JobIn(job[w]),
           job[w].alone
    PROVE  /\ job'[w].err = job[w].err
           /\ job'[w].pc = "derive" => job'[w].extent = 5
<1>1. /\ ~OnSlice(job[w]) /\ job[w].pc = "lock"
      /\ DOMAIN job[w] = JobFields /\ DOMAIN job = Workers
  BY Fields DEF BaseInv, LockGroup
<1>2. GroupIn(job[w].new)
  <2>1. RequestOK(job[w])
    BY DEF BaseInv, RequestInv
  <2> QED BY <1>1, <2>1 DEF RequestOK, JobIn, OnSlice, SliceOps, GroupOps, SubOps, Writing
<1>3. Extent(job[w], job[w].new.kind) = 5
  BY <1>2, ExtentFive
<1>4. \A d \in AllSlices : job[w].name \in d[2].groups => d[2].sst
  BY SliceParses, Once, AllOnce DEF StoreIn
<1> DEFINE e == Extent(job[w], job[w].new.kind)
<1>5. \/ job' = [job EXCEPT ![w].pc = "unlock"]
      \/ \E p : job' = [job EXCEPT ![w].pc = "derive", ![w].plmn = p,
                                   ![w].imsis = job[w].new.imsis, ![w].extent = e]
  BY <1>4 DEF LockGroup
<1>6. e = 5
  BY <1>3
<1> HIDE DEF e
<1>7. CASE job' = [job EXCEPT ![w].pc = "unlock"]
  BY <1>1, <1>7 DEF JobFields
<1>8. ASSUME NEW p, job' = [job EXCEPT ![w].pc = "derive", ![w].plmn = p,
                                       ![w].imsis = job[w].new.imsis, ![w].extent = e]
      PROVE  job'[w].err = job[w].err /\ job'[w].extent = e
  BY <1>1, <1>8 DEF JobFields
<1> QED BY <1>5, <1>6, <1>7, <1>8

LEMMA WriteDocErr ==
    ASSUME BaseInv, NEW w \in Workers, WriteDoc(w), Unerring(job[w])
    PROVE  /\ job'[w].err = job[w].err /\ job'[w].extent = 5
           /\ job'[w].cur \in {job[w].cur, None}
<1>1. job[w].extent = 5 /\ DOMAIN job[w] = JobFields /\ DOMAIN job = Workers
  BY Fields DEF BaseInv, WriteDoc, Unerring
<1>2. \/ job' = [job EXCEPT ![w] = [job[w] EXCEPT !.k = @ + 1, !.seen = None]]
      \/ job' = [job EXCEPT ![w] = [job[w] EXCEPT !.cur = None, !.k = 0]]
  BY <1>1 DEF WriteDoc
<1> QED BY <1>1, <1>2 DEF JobFields

LEMMA ListUnerring ==
    ASSUME Mild(scope), BaseInv, StoreIn, NEW w \in Workers, List(w), job[w].alone
    PROVE  job'[w].op = "deleteGroup" => \A d \in job'[w].work : d[2].sst
<1>1. KeptRequest(job'[w], job[w]) /\ job'[w].work = Found(job[w])
  BY ListShape DEF BaseInv
<1> SUFFICES ASSUME job[w].op = "deleteGroup", NEW d \in Found(job[w]) PROVE d[2].sst
  BY <1>1 DEF KeptRequest
<1>2. PICK s \in Slices : /\ job[w].arg \in slices[s].groups
                          /\ d = <<s, [slices[s] EXCEPT !.groups = @ \ {job[w].arg}]>>
  <2>1. AllSlices = {<<s, slices[s]>> : s \in Slices}
    BY Once, AllOnce
  <2> QED BY <2>1 DEF Found
<1>3. slices[s].sst
  BY <1>2, SliceParses DEF StoreIn
<1>4. "sst" \in DOMAIN slices[s]
  BY DEF BaseInv, StoreInv, SliceLike, SliceDocs, NoSlice
<1> QED BY <1>2, <1>3, <1>4

LEMMA NextDocUnerring ==
    ASSUME BaseInv, NEW w \in Workers, NextDoc(w), Unerring(job[w])
    PROVE  /\ job'[w].op \in {"putSlice", "deleteGroup"} => job'[w].new.sst
           /\ job'[w].op = "deleteGroup" => \A d \in job'[w].work : d[2].sst
<1> DEFINE j == job[w]
           n == job'[w]
<1>1. /\ KeptRequest(n, j) /\ j.pc = "next"
      /\ \E d \in j.work : n.work = j.work \ {d} /\ n.name = d[1] /\ n.new = d[2]
  BY NextDocShape DEF BaseInv
<1>2. j.op # "putSlice"
  <2>1. Storing(j)
    BY DEF BaseInv, ControlInv, JobInv, JobOK
  <2> QED BY <1>1, <2>1 DEF Storing, Looping
<1>3. j.op = "deleteGroup" => \A d \in j.work : d[2].sst
  BY DEF Unerring
<1> HIDE DEF j, n
<1>4. n.op \in {"putSlice", "deleteGroup"} => n.new.sst
  BY <1>1, <1>2, <1>3 DEF KeptRequest
<1>5. n.op = "deleteGroup" => \A d \in n.work : d[2].sst
  BY <1>1, <1>3 DEF KeptRequest
<1> QED BY <1>4, <1>5 DEF n

(* The error and the extent that a step leaves. *)
LEMMA KeptUnerring ==
    ASSUME Mild(scope), BaseInv, StoreIn, NEW w \in Workers,
           Kept(w) \/ Posts(w) \/ DeleteGroupDoc(w), Unerring(job[w]), JobIn(job[w]),
           job[w].alone
    PROVE  Unerring(job'[w])
<1> DEFINE j == job[w]
           n == job'[w]
<1>1. Acts(w) /\ ControlInv
  BY DEF Acts, Locks, Proceed, Kept, Posts, Find, BaseInv
<1>2. PlanOK(j) /\ RequestOK(j) /\ PlanOK(n)
  BY <1>1, ActsGood DEF JobGood, BaseInv, PlanInv, RequestInv
<1>3. Unerring(j) /\ n.op = j.op
  BY ServedOrphan DEF KeptRequest
<1>4. CASE Exists(w)
  <2>1. KeptButErr(n, j) /\ j.pc = "exists" /\ n.pc \in {"store", "end"}
        /\ (n.pc = "store" => n.err = FALSE)
    <3>1. job'[w].pc = "store" => job'[w].err = FALSE
      <4>1. DOMAIN job[w] = JobFields /\ DOMAIN job = Workers
        BY <1>1, Fields
      <4> DEFINE passes == (AmData(job[w].arg) = {}) = (job[w].op = "postSub")
                 p == IF passes THEN "store" ELSE "end"
                 e == ~passes
      <4>2. job' = [job EXCEPT ![w].pc = p, ![w].err = e] /\ (p = "store" => e = FALSE)
        BY <1>4 DEF Exists
      <4> HIDE DEF passes, p, e
      <4> QED BY <4>1, <4>2 DEF JobFields
    <3> QED BY <1>1, <1>4, <3>1, ExistsShape
  <2> HIDE DEF j, n
  <2>2. Unerring(n)
    BY <1>2, <1>3, <2>1 DEF Unerring, KeptButErr, KeptTask, RequestOK,
                              PlanOK
  <2> QED BY <2>2 DEF n
<1>5. CASE List(w)
  <2>1. /\ j.pc = "list" /\ n.pc = "next" /\ n.err = j.err
        /\ n.op = "deleteGroup" => \A d \in n.work : d[2].sst
    BY <1>1, <1>5, ListShape, ListUnerring DEF KeptErr
  <2> HIDE DEF j, n
  <2>2. Unerring(n)
    BY <1>2, <1>3, <2>1 DEF Unerring, PlanOK
  <2> QED BY <2>2 DEF n
<1>6. CASE NextDoc(w)
  <2>1. /\ j.pc = "next" /\ n.pc = "prev" /\ n.err = j.err
        /\ n.op \in {"putSlice", "deleteGroup"} => n.new.sst
        /\ n.op = "deleteGroup" => \A d \in n.work : d[2].sst
    BY <1>1, <1>6, NextDocShape, NextDocUnerring DEF KeptErr
  <2> HIDE DEF j, n
  <2>2. Unerring(n)
    BY <1>2, <1>3, <2>1 DEF Unerring, PlanOK
  <2> QED BY <2>2 DEF n
<1>7. ASSUME /\ j.pc # "end" /\ n.err = j.err /\ KeptTask(n, j)
             /\ n.pc \in {"prev", "post", "lock"} => j.pc \in {"prev", "post", "lock"}
             /\ n.pc = "derive" =>
                   n.extent = 5 \/ (n.imsis = {} /\ n.cur = None)
      PROVE  Unerring(n)
  <2> HIDE DEF j, n
  <2> QED BY <1>2, <1>3, <1>7 DEF Unerring, PlanOK, KeptTask
<1>8. CASE Posts(w) \/ DeleteGroupDoc(w) \/ GiveUp(w) \/ DeleteAuth(w) \/ Store(w) \/ Unlock(w)
  BY <1>1, <1>7, <1>8, PostShape, DeleteGroupDocShape, GiveUpShape, DeleteAuthShape, StoreShape,
     UnlockShape DEF KeptAll, KeptButErr, KeptErr
<1>9. CASE ReadPrev(w) \/ StartCleanup(w) \/ CleanGroup(w) \/ Remove(w)
  BY <1>1, <1>7, <1>9, ReadPrevShape, StartCleanupShape, CleanGroupShape, RemoveShape DEF KeptErr
<1>10. CASE ReadGroup(w)
  BY <1>1, <1>7, <1>10, ReadGroupShape, ReadGroupExtent DEF KeptErr
<1>11. CASE CheckAuth(w)
  <2>1. n.extent = 5
    BY <1>3, <1>11, CheckAuthExtent DEF Unerring
  <2> QED BY <1>1, <1>7, <1>11, <2>1, CheckAuthShape DEF KeptErr
<1>12. CASE WriteDoc(w)
  <2>1. n.extent = 5 /\ n.err = j.err
    BY <1>3, <1>12, WriteDocErr
  <2>2. KeptTask(n, j) /\ j.pc = "derive" /\ n.pc \in {"derive", "unlock"}
    BY <1>1, <1>12, WriteDocShape DEF StopOf
  <2> QED BY <1>7, <2>1, <2>2
<1>13. CASE LockSlice(w)
  <2>1. n.err = j.err
    BY <1>3, <1>13, LockSliceErr
  <2>2. KeptTask(n, j) /\ j.pc = "lock" /\ n.imsis = j.imsis /\ n.cur = j.cur
    BY <1>1, <1>13, LockSliceShape DEF KeptPlace
  <2>3. j.imsis = {} /\ j.cur = None
    BY <1>2, <2>2 DEF PlanOK
  <2> QED BY <1>7, <2>1, <2>2, <2>3
<1>14. CASE LockGroup(w)
  <2>1. n.err = j.err /\ (n.pc = "derive" => n.extent = 5)
    BY <1>14, LockGroupErr
  <2>2. KeptTask(n, j) /\ j.pc = "lock"
    BY <1>1, <1>14, LockGroupShape
  <2> QED BY <1>7, <2>1, <2>2
<1>15. CASE Find(w)
  <2>1. KeptAll(n, j) /\ n.pc = j.pc
    BY <1>1, <1>15, FindShape
  <2>2. j.pc # "end"
    BY <1>2, <1>15 DEF Find, Upserts, PlanOK
  <2>3. n.pc = "derive" => n.extent = 5 \/ (n.imsis = {} /\ n.cur = None)
    BY <1>3, <2>1 DEF KeptAll, KeptButErr, KeptPlan, KeptPlace, Unerring
  <2> QED BY <1>7, <2>1, <2>2, <2>3 DEF KeptAll, KeptButErr, KeptErr
<1> QED BY <1>4, <1>5, <1>6, <1>8, <1>9, <1>10, <1>11, <1>12, <1>13, <1>14, <1>15 DEF Kept

(* A request that arrives has not failed, and the SST of its slice parses. *)
LEMMA ArriveUnerring ==
    ASSUME Mild(scope), BaseInv, NEW w \in Workers, Arrive(w), InScope(job'[w])
    PROVE  Unerring(job'[w])
<1>1. Fresh(job'[w])
  BY ArriveShape DEF BaseInv
<1>2. job'[w].op = "putSlice" => job'[w].new.sst = TRUE
  BY DEF InScope, Mild
<1> QED BY <1>1, <1>2 DEF Fresh, Unerring, SubOps

-----------------------------------------------------------------------------
(* What handlers write for one IMSI. *)
DocsKept(w) == Arrive(w) \/ End(w) \/ ReadPrev(w) \/ Find(w) \/ ReadGroup(w) \/ CheckAuth(w)
               \/ StartCleanup(w) \/ CleanGroup(w) \/ Unlock(w) \/ List(w) \/ NextDoc(w) \/ GiveUp(w) \/ Exists(w)
               \/ LockSlice(w) \/ LockGroup(w) \/ Posts(w) \/ DeleteGroupDoc(w)

LEMMA DocsOnlyKept == ASSUME NEW w, DocsKept(w) PROVE auth' = auth /\ docs' = docs
<1>1. CASE Arrive(w)
  <2>1. PICK j : Begin(w, j)
    BY <1>1 DEF Arrive, PutSlice, DeleteSlice, PutGroup, DeleteGroup, PostSub, PutSub, DeleteSub
  <2> QED BY <2>1 DEF Begin, store
<1>2. CASE ~Arrive(w)
  BY <1>2 DEF DocsKept, End, ReadPrev, ReadGroup, CheckAuth, StartCleanup, CleanGroup, Unlock, List,
     NextDoc, GiveUp, Exists, LockSlice, LockGroup, Posts, Post, DeleteSliceDoc, DeleteGroupDoc,
     Find, store
<1> QED BY <1>1, <1>2

(* The deletion of a subscriber removes the last document with the authentication
   data: no device group of a slice has the IMSI any more.                    *)
LEMMA DeleteAuthOwned ==
    ASSUME BaseInv, DeletionInv, NEW w \in Workers, DeleteAuth(w), job[w].alone,
           Documented(job[w]), Owned
    PROVE  Owned'
<1> DEFINE j == job[w]
           i == j.arg
<1>1. j.pc = "next" /\ j.op = "deleteSub" /\ j.work = {} /\ ~j.err
  BY DeleteAuthShape DEF BaseInv
<1>2. SubDeletion(j) /\ Documented(j)
  BY <1>1 DEF DeletionInv
<1>3. /\ auth' = auth \ {i}
      /\ \/ AmData(i) = {} /\ docs' = docs
         \/ \E d \in AmData(i) : docs' = docs \ {d}
  <2>1. DOMAIN extra = {} /\ auth' = auth \ {i}
    BY Once, DeleteAuthOnce
  <2> QED BY <2>1, WithoutOnce DEF DeleteAuth
<1>4. \A s \in Slices : slices[s].groups \subseteq Groups
  BY SlicePlmn DEF BaseInv, StoreInv
<1> HIDE DEF j
<1>5. \A g \in Groups : i \notin groups[g].imsis
  BY <1>1, <1>2 DEF SubDeletion, ToWrite
<1>6. ~InSlices(i) /\ ~Pending(j, i)
  BY <1>1, <1>4, <1>5 DEF InSlices, Pending
<1>7. \A d \in docs : d[2] = i => d = <<"amData", i, None>>
  BY <1>2, <1>6 DEF Documented, Bare
<1>8. \A d \in docs : d[2] = i => d \in AmData(i)
  BY <1>7 DEF AmData
<1>9. \A d \in docs' : d \in docs /\ d[2] # i
  BY <1>3, <1>7, <1>8 DEF AmData
<1> QED BY <1>3, <1>9 DEF Owned

LEMMA OwnedStep ==
    ASSUME BaseInv, DeletionInv, NEW w \in Workers,
           DocsKept(w) \/ WriteDoc(w) \/ Remove(w) \/ Store(w) \/ DeleteAuth(w),
           job[w].pc # "idle" => Serving(job[w]), Owned
    PROVE  Owned'
<1>1. CASE DocsKept(w)
  BY <1>1, DocsOnlyKept DEF Owned
<1>2. CASE WriteDoc(w)
  <2> DEFINE i == job[w].cur
             e == Key(Derived[job[w].k], i, job[w].plmn)
  <2>0. job[w].alone
    BY <1>2, WriteDocShape DEF Serving, BaseInv
  <2>1. docs' \subseteq docs \union {e} /\ auth' = auth
    BY <1>2, <2>0, WriteDocOnce DEF Upserted
  <2>2. e[2] = i
    BY DEF Key
  <2>3. i \in auth
    BY <1>2, WriteDocShape DEF Serving, BaseInv
  <2> QED BY <2>1, <2>2, <2>3 DEF Owned
<1>3. CASE Remove(w)
  BY <1>3 DEF Remove, Without, Owned
<1>4. CASE Store(w)
  <2>1. auth \subseteq auth' /\ job[w].arg \in auth' /\ docs' \subseteq docs \union {<<"amData", job[w].arg, None>>}
    <3>1. RequestOK(job[w]) /\ job[w].pc = "store"
      BY <1>4 DEF Store, BaseInv, RequestInv
    <3> QED BY <1>4, <3>1 DEF Store
  <2> QED BY <2>1 DEF Owned
<1>5. CASE DeleteAuth(w)
  <2>1. job[w].alone /\ Documented(job[w])
    BY <1>5, DeleteAuthShape DEF Serving, BaseInv
  <2> QED BY <1>5, <2>1, DeleteAuthOwned
<1> QED BY <1>1, <1>2, <1>3, <1>4, <1>5

-----------------------------------------------------------------------------
(* What handlers store keeps to their scope. *)
LEMMA Looped == ASSUME BaseInv, NEW w \in Workers, job[w].pc \in {"list", "next"}
                PROVE  job[w].op \in {"deleteGroup", "deleteSub"}
<1>1. Storing(job[w])
  BY DEF BaseInv, ControlInv, JobInv, JobOK
<1> QED BY <1>1 DEF Storing, Looping

LEMMA KeptIn ==
    ASSUME NEW j, NEW n, JobIn(j), KeptTask(n, j), n.op = j.op, n.prev = j.prev,
           n.pc \in Writing => j.pc \in Writing,
           n.pc \in Writing \ {"prev"} => j.pc \in Writing \ {"prev"},
           n.pc \in {"derive", "cleanup"} => n.plmn \in scope.plmns \union {None}
    PROVE  JobIn(n)
BY DEF JobIn, KeptTask

LEMMA ReadPrevIn ==
    ASSUME BaseInv, StoreIn, NEW w \in Workers, ReadPrev(w), JobIn(job[w]) PROVE JobIn(job'[w])
<1> DEFINE j == job[w]
           n == job'[w]
<1>1. /\ j.pc = "prev" /\ n.pc = "post" /\ n.op = j.op /\ KeptTask(n, j)
      /\ n.prev = IF OnSlice(j) THEN slices[j.name] ELSE groups[j.name]
  BY ReadPrevShape DEF BaseInv, KeptRequest
<1>2. JobIn(j) /\ TaskOK(j)
  BY DEF BaseInv, TaskInv
<1> HIDE DEF j, n
<1>3. j.op \in SliceOps => SliceIn(n.prev)
  BY <1>1, <1>2 DEF TaskOK, Writing, OnSlice, SliceOps, StoreIn
<1>4. JobIn(n)
  BY <1>1, <1>2, <1>3 DEF JobIn, KeptTask, Writing
<1> QED BY <1>4 DEF n

LEMMA ListIn ==
    ASSUME BaseInv, StoreIn, NEW w \in Workers, List(w), job[w].alone PROVE JobIn(job'[w])
<1> DEFINE j == job[w]
           n == job'[w]
<1>1. n.pc = "next" /\ n.op = j.op /\ n.work = Found(j)
  BY ListShape DEF BaseInv, KeptRequest
<1>2. j.op \in {"deleteGroup", "deleteSub"}
  BY Looped DEF List
<1>3. /\ groups \in [Groups -> GroupLike] /\ slices \in [Slices -> SliceLike]
      /\ AllSlices = {<<s, slices[s]>> : s \in Slices}
      /\ AllGroups = {<<g, groups[g]>> : g \in Groups}
  BY Once, AllOnce DEF BaseInv, StoreInv
<1> HIDE DEF j, n
<1>4. ASSUME NEW s \in Slices, j.arg \in slices[s].groups
      PROVE  SliceIn([slices[s] EXCEPT !.groups = @ \ {j.arg}])
  <2> DEFINE d == slices[s]
             e == [d EXCEPT !.groups = @ \ {j.arg}]
  <2>1. SliceIn(d) /\ DOMAIN d = {"groups", "plmn", "sst"} /\ d.groups # {}
    BY <1>3, <1>4 DEF StoreIn, SliceLike, SliceDocs, NoSlice
  <2>2. e.plmn = d.plmn /\ e.sst = d.sst
    BY <2>1
  <2> QED BY <2>1, <2>2 DEF SliceIn
<1>5. ASSUME NEW g \in Groups PROVE GroupIn([groups[g] EXCEPT !.imsis = @ \ {j.arg}])
  <2>1. GroupIn(groups[g]) /\ DOMAIN groups[g] = {"imsis", "kind"}
    BY <1>3 DEF StoreIn, GroupDocs, GroupLike, NoGroup
  <2> QED BY <2>1 DEF GroupIn
<1>6. CASE j.op = "deleteGroup"
  <2>1. ASSUME NEW d \in Found(j) PROVE SliceIn(d[2])
    BY <1>3, <1>4, <1>6, <2>1 DEF Found
  <2> QED BY <1>1, <1>6, <2>1 DEF JobIn, n, Writing, Inside, SliceOps, GroupOps
<1>7. CASE j.op = "deleteSub"
  <2>1. ASSUME NEW d \in Found(j) PROVE GroupIn(d[2])
    BY <1>3, <1>5, <1>7, <2>1 DEF Found
  <2> QED BY <1>1, <1>7, <2>1 DEF JobIn, n, Writing, Inside, SliceOps, GroupOps
<1> QED BY <1>2, <1>6, <1>7

LEMMA NextDocIn ==
    ASSUME BaseInv, NEW w \in Workers, NextDoc(w), JobIn(job[w]) PROVE JobIn(job'[w])
<1> DEFINE j == job[w]
           n == job'[w]
<1>1. /\ n.pc = "prev" /\ n.op = j.op
      /\ \E d \in j.work : n.work = j.work \ {d} /\ n.new = d[2]
  BY NextDocShape DEF BaseInv, KeptRequest
<1>2. JobIn(j)
  OBVIOUS
<1> HIDE DEF j, n
<1>3. PICK d \in j.work : n.work = j.work \ {d} /\ n.new = d[2]
  BY <1>1
<1>4. JobIn(n)
  BY <1>1, <1>2, <1>3 DEF JobIn, Writing
<1> QED BY <1>4 DEF n

(* The PLMN of a derivation or clean-up is that of a slice as stored or to be stored. *)
LEMMA LocksIn ==
    ASSUME BaseInv, StoreIn, NEW w \in Workers, LockSlice(w) \/ LockGroup(w) \/ StartCleanup(w),
           JobIn(job[w]), job[w].alone
    PROVE  JobIn(job'[w])
<1> DEFINE j == job[w]
           n == job'[w]
<1>1. JobIn(j) /\ (j.pc = "lock" \/ j.pc = "derive")
  BY DEF LockSlice, LockGroup, StartCleanup
<1>2. KeptTask(n, j) /\ n.op = j.op /\ n.prev = j.prev /\ n.pc \in {"derive", "cleanup", "unlock"}
  BY LockSliceShape, LockGroupShape, StartCleanupShape DEF BaseInv, KeptRequest
<1>3. n.pc \in {"derive", "cleanup"} =>
         \/ j.op \in SliceOps /\ n.plmn \in {j.new.plmn, j.prev.plmn}
         \/ \E s \in Slices : n.plmn = slices[s].plmn
         \/ j.pc = "derive" /\ n.plmn = j.plmn
  <2>1. AllSlices = {<<s, slices[s]>> : s \in Slices}
    BY Once, AllOnce
  <2>2. CASE LockGroup(w)
    <3>1. n.pc = "derive" => \E d \in AllSlices : n.plmn = d[2].plmn
      BY <2>2, LockGroupShape DEF BaseInv
    <3>2. n.pc # "cleanup"
      BY <2>2, LockGroupShape DEF BaseInv
    <3> QED BY <2>1, <3>1, <3>2
  <2>3. CASE LockSlice(w) \/ StartCleanup(w)
    BY <2>3, LockSliceShape, StartCleanupShape DEF BaseInv, OnSlice, SliceOps
  <2> QED BY <2>2, <2>3
<1> HIDE DEF j, n
<1>4. j.op \in SliceOps => SliceIn(j.new) /\ SliceIn(j.prev)
  BY <1>1 DEF JobIn, Writing, Inside
<1>5. n.pc \in {"derive", "cleanup"} => n.plmn \in scope.plmns \union {None}
  BY <1>1, <1>3, <1>4 DEF JobIn, SliceIn, StoreIn
<1>6. JobIn(n)
  BY <1>1, <1>2, <1>5, KeptIn DEF Writing, Inside
<1> QED BY <1>6 DEF n

LEMMA JobInStep ==
    ASSUME BaseInv, StoreIn, NEW w \in Workers, Kept(w) \/ Posts(w) \/ DeleteGroupDoc(w),
           JobIn(job[w]), job[w].alone
    PROVE  JobIn(job'[w])
<1> DEFINE j == job[w]
           n == job'[w]
<1>1. JobIn(j) /\ ControlInv
  BY DEF BaseInv
<1>2. ASSUME KeptTask(n, j), n.op = j.op, n.prev = j.prev,
             n.pc \in {"next", "end", "store"}
                \/ (n.pc = j.pc /\ n.plmn = j.plmn) \/ (n.pc = "lock" /\ j.pc = "post")
                \/ (n.pc = "unlock" /\ j.pc = "derive")
      PROVE  JobIn(n)
  <2> HIDE DEF j, n
  <2>1. n.pc \in {"derive", "cleanup"} => n.plmn \in scope.plmns \union {None}
    BY <1>1, <1>2 DEF JobIn
  <2> QED BY <1>1, <1>2, <2>1, KeptIn DEF Writing, Inside
<1>3. CASE Posts(w) \/ DeleteGroupDoc(w) \/ GiveUp(w) \/ DeleteAuth(w) \/ Store(w) \/ Unlock(w)
           \/ Exists(w) \/ Find(w)
  BY <1>1, <1>2, <1>3, PostShape, DeleteGroupDocShape, GiveUpShape, DeleteAuthShape, StoreShape,
     UnlockShape, ExistsShape, FindShape DEF KeptPlan, KeptAll, KeptButErr, KeptRequest
<1>4. CASE ReadGroup(w) \/ CheckAuth(w) \/ CleanGroup(w) \/ Remove(w)
  BY <1>1, <1>2, <1>4, ReadGroupShape, CheckAuthShape, CleanGroupShape, RemoveShape
     DEF KeptRequest
<1>5. CASE WriteDoc(w)
  BY <1>1, <1>2, <1>5, WriteDocShape DEF KeptRequest, KeptPlan, StopOf
<1>6. CASE ReadPrev(w) \/ List(w) \/ NextDoc(w)
  BY <1>6, ReadPrevIn, ListIn, NextDocIn
<1>7. CASE LockSlice(w) \/ LockGroup(w) \/ StartCleanup(w)
  BY <1>7, LocksIn
<1> QED BY <1>3, <1>4, <1>5, <1>6, <1>7 DEF Kept

(* A request that arrives names nothing outside of the scope. *)
LEMMA ArriveIn ==
    ASSUME BaseInv, NEW w \in Workers, Arrive(w), InScope(job'[w]) PROVE JobIn(job'[w])
<1> DEFINE n == job'[w]
<1>1. Fresh(n) /\ InScope(n)
  BY ArriveShape DEF BaseInv
<1> HIDE DEF n
<1>2. n.op = "putSlice" => SliceIn(n.new)
  BY <1>1 DEF InScope, SliceIn
<1>3. n.op = "deleteSlice" => SliceIn(n.new)
  BY <1>1 DEF Fresh, SliceIn, NoSlice
<1>4. n.op = "putGroup" => GroupIn(n.new)
  BY <1>1 DEF InScope, GroupIn
<1>5. JobIn(n)
  BY <1>1, <1>2, <1>3, <1>4 DEF JobIn, Fresh, Writing, Inside, SliceOps, GroupOps, SubOps
<1> QED BY <1>5 DEF n

LEMMA PostIn ==
    ASSUME BaseInv, StoreIn, NEW w \in Workers, Posts(w), JobIn(job[w]), job[w].alone
    PROVE  /\ \A s \in Slices : SliceIn(slices'[s])
           /\ \A g \in Groups : GroupIn(groups'[g])
<1> DEFINE j == job[w]
<1>1. RequestOK(j) /\ j.pc = "post" /\ JobIn(j)
  BY DEF Posts, Post, DeleteSliceDoc, BaseInv, RequestInv
<1>2. groups \in [Groups -> GroupLike] /\ slices \in [Slices -> SliceLike]
  BY DEF BaseInv, StoreInv
<1>3. CASE OnSlice(j)
  <2>1. slices' = [slices EXCEPT ![j.name] = j.new] /\ groups' = groups
    BY <1>3, PostOnce
  <2> HIDE DEF j
  <2>2. SliceIn(j.new)
    BY <1>1, <1>3 DEF JobIn, OnSlice, SliceOps, Writing
  <2> QED BY <1>2, <2>1, <2>2 DEF StoreIn
<1>4. CASE ~OnSlice(j)
  <2>1. /\ slices' = slices
        /\ \/ groups' = groups
           \/ groups' = [groups EXCEPT ![j.name] = j.new]
           \/ groups' = [groups EXCEPT ![j.name] = Merged(groups[j.name], j.new)]
    BY <1>4 DEF Posts, Post, DeleteSliceDoc, Posted, OnSlice
  <2>2. j.name \in Groups
    BY <1>1, <1>4, Known, Places DEF TaskOK, Writing
  <2> HIDE DEF j
  <2>3. GroupIn(j.new)
    BY <1>1, <1>4 DEF JobIn, RequestOK, OnSlice, SliceOps, GroupOps, SubOps, Writing
  <2>4. GroupIn(Merged(groups[j.name], j.new))
    <3> DEFINE old == groups[j.name]
               new == j.new
    <3>1. GroupIn(old) /\ GroupIn(new)
      BY <2>2, <2>3 DEF StoreIn
    <3>2. "kind" \in DOMAIN new
      BY <1>1, <1>4, Known, Places DEF TaskOK, Writing, GroupDocs, j
    <3> HIDE DEF old, new
    <3>3. Merged(old, new).kind \in {old.kind, new.kind}
      BY <3>2 DEF Merged
    <3>4. GroupIn(Merged(old, new))
      BY <3>1, <3>3 DEF GroupIn
    <3> QED BY <3>4 DEF old, new
  <2> QED BY <1>2, <2>1, <2>3, <2>4 DEF StoreIn
<1> QED BY <1>3, <1>4

LEMMA StoreInStep ==
    ASSUME BaseInv, StoreIn, NEW w \in Workers, UNCHANGED scope,
           Arrive(w) \/ Kept(w) \/ Posts(w) \/ DeleteGroupDoc(w) \/ End(w),
           job[w].pc # "idle" => JobIn(job[w]) /\ job[w].alone
    PROVE  StoreIn'
<1>1. SUFFICES /\ \A s \in Slices : SliceIn(slices'[s])
               /\ \A g \in Groups : GroupIn(groups'[g])
               /\ \A d \in docs' : d[3] \in scope.plmns \union {None}
  BY DEF StoreIn, SliceIn, GroupIn
<1>2. (\A d \in docs' : d[3] \in scope.plmns \union {None})
  <2>1. CASE WriteDoc(w)
    <3> DEFINE c == Derived[job[w].k]
               p == job[w].plmn
               e == Key(c, job[w].cur, p)
    <3>1. docs' \subseteq docs \union {e}
      <4>1. job[w].alone
        BY <2>1, WriteDocShape DEF BaseInv
      <4> QED BY <2>1, <4>1, WriteDocOnce DEF Upserted
    <3>2. p \in scope.plmns \union {None}
      BY <2>1, WriteDocShape DEF BaseInv, JobIn
    <3>3. e[3] \in {p, None}
      BY DEF Key
    <3> QED BY <3>1, <3>2, <3>3 DEF StoreIn
  <2>2. CASE Store(w)
    <3>1. docs' \subseteq docs \union {<<"amData", job[w].arg, None>>}
      BY <2>2 DEF Store
    <3> QED BY <3>1 DEF StoreIn
  <2>3. CASE Remove(w) \/ DeleteAuth(w)
    <3>1. docs' \subseteq docs
      BY <2>3 DEF Remove, DeleteAuth, Without
    <3> QED BY <3>1 DEF StoreIn
  <2>4. CASE DocsKept(w)
    BY <2>4, DocsOnlyKept DEF StoreIn
  <2> QED BY <2>1, <2>2, <2>3, <2>4 DEF DocsKept, Kept
<1>3. CASE Arrive(w)
  <2>1. PICK j : Begin(w, j)
    BY <1>3, ArriveStep
  <2> QED BY <1>2, <2>1 DEF Begin, store, StoreIn
<1>4. CASE Posts(w)
  <2>1. job[w].pc # "idle"
    BY <1>4, PostShape DEF BaseInv
  <2> QED BY <1>2, <1>4, <2>1, PostIn DEF StoreIn
<1>5. CASE DeleteGroupDoc(w)
  <2>1. groups' = [groups EXCEPT ![job[w].arg] = NoGroup] /\ slices' = slices
    <3>1. job[w].alone
      BY <1>5, DeleteGroupDocShape DEF BaseInv
    <3> QED BY <1>5, <3>1, DeleteGroupDocOnce
  <2>2. DOMAIN groups = Groups /\ GroupIn(NoGroup)
    BY DEF BaseInv, StoreInv, GroupIn, NoGroup
  <2> QED BY <1>2, <2>1, <2>2 DEF StoreIn
<1>6. CASE ~Arrive(w) /\ ~Posts(w) /\ ~DeleteGroupDoc(w)
  <2>1. Acts(w)
    BY <1>6 DEF Acts, Locks, Proceed, Kept, Posts, Find
  <2>2. UNCHANGED <<groups, slices>>
    BY <1>6, <2>1, GroupsKept
  <2> QED BY <1>2, <2>2 DEF StoreIn
<1> QED BY <1>3, <1>4, <1>5, <1>6

-----------------------------------------------------------------------------
(* An IMSI that a derivation has in hand has authentication data. *)
LEMMA KeptCur ==
    ASSUME BaseInv, NEW w \in Workers, Kept(w) \/ Posts(w) \/ DeleteGroupDoc(w),
           Unerring(job[w]), job[w].cur # None => job[w].cur \in auth, job'[w].cur # None
    PROVE  job'[w].cur \in auth'
<1>1. Acts(w) /\ ControlInv
  BY DEF Acts, Locks, Proceed, Kept, Posts, Find, BaseInv
<1>2. PlanOK(job[w]) /\ PlanOK(job'[w])
  BY <1>1, ActsGood DEF JobGood, BaseInv, PlanInv
<1>3. job'[w].pc = "derive"
  BY <1>2 DEF PlanOK
<1>4. LockSlice(w) \/ LockGroup(w) \/ ReadGroup(w) \/ CheckAuth(w) \/ WriteDoc(w) \/ Find(w)
  <2>1. ~(Posts(w) \/ DeleteGroupDoc(w) \/ GiveUp(w) \/ DeleteAuth(w) \/ Store(w) \/ Unlock(w))
    BY <1>1, <1>3, PostShape, DeleteGroupDocShape, GiveUpShape, DeleteAuthShape, StoreShape,
       UnlockShape
  <2>2. ~(ReadPrev(w) \/ StartCleanup(w) \/ CleanGroup(w) \/ Remove(w) \/ Exists(w) \/ List(w)
          \/ NextDoc(w))
    BY <1>1, <1>3, ReadPrevShape, StartCleanupShape, CleanGroupShape, RemoveShape, ExistsShape,
       ListShape, NextDocShape
  <2> QED BY <2>1, <2>2 DEF Kept
<1>5. auth' = auth
  BY <1>4 DEF LockSlice, LockGroup, ReadGroup, CheckAuth, WriteDoc, Find, store
<1>6. CASE LockSlice(w) \/ LockGroup(w)
  BY <1>1, <1>2, <1>6, LockSliceShape, LockGroupShape DEF KeptPlace, PlanOK
<1>7. CASE ReadGroup(w)
  BY <1>1, <1>7, ReadGroupShape DEF KeptPlace
<1>8. CASE CheckAuth(w)
  BY <1>5, <1>8, CheckAuthExtent
<1>9. CASE WriteDoc(w)
  BY <1>5, <1>9, WriteDocErr
<1>10. CASE Find(w)
  BY <1>1, <1>5, <1>10, FindShape DEF KeptAll, KeptButErr, KeptPlace
<1> QED BY <1>4, <1>6, <1>7, <1>8, <1>9, <1>10

(* Creating or updating a subscriber changes no slice and no device group. *)
LEMMA SubTidy ==
    ASSUME BaseInv, NEW w \in Workers, Exists(w) \/ Find(w) \/ Store(w), Tidy PROVE Tidy'
<1>1. UNCHANGED <<groups, slices>> /\ \A d \in docs' : d \in docs \/ Bare(d)
  BY DEF Exists, Find, Store, store, Bare
<1>2. \A i : InSlices(i)' <=> InSlices(i)
  BY <1>1 DEF InSlices
<1>3. ASSUME NEW d \in docs' PROVE Bare(d) \/ InSlices(d[2])'
  BY <1>1, <1>2, <1>3 DEF Tidy
<1> QED BY <1>3 DEF Tidy, Bare

(* All documents are those that a removal can find. *)
LEMMA MildPlmn ==
    ASSUME Mild(scope), BaseInv, StoreIn, NEW w \in Workers, Remove(w), JobIn(job[w])
    PROVE  InPlmn(job[w].plmn)
<1>1. job[w].plmn \in Plmns /\ job[w].pc = "cleanup"
  <2>1. PlanOK(job[w]) /\ job[w].pc = "cleanup" /\ job[w].gone # {}
    BY DEF Remove, BaseInv, PlanInv
  <2> QED BY <2>1 DEF PlanOK
<1>2. job[w].plmn \in scope.plmns
  BY <1>1, ProvisioningAssumption DEF JobIn
<1> QED BY <1>2 DEF InPlmn, StoreIn, Mild

(* A request that is served alone and without failures goes on so. *)
LEMMA KeptServing ==
    ASSUME Mild(scope), BaseInv, DeletionInv, StoreIn, NEW w \in Workers,
           Kept(w) \/ Posts(w) \/ DeleteGroupDoc(w), Serving(job[w]), JobIn(job[w])
    PROVE  Serving(job[w])' /\ job'[w].pc # "idle"
<1>1. /\ job[w].alone /\ InStep(job[w]) /\ Documented(job[w]) /\ Unerring(job[w])
      /\ job[w].op \in SubOps => Tidy
      /\ job[w].cur # None => job[w].cur \in auth
  BY DEF Serving
<1>2. /\ job'[w].pc # "idle" /\ job'[w].alone /\ job'[w].op = job[w].op
  BY <1>1, ServedOrphan DEF KeptRequest
<1>3. InStep(job[w])' /\ Documented(job[w])'
  <2>1. CASE DeleteGroupDoc(w)
    <3>1. job[w].op = "deleteGroup"
      BY <2>1, DeleteGroupDocShape DEF BaseInv
    <3> QED BY <1>1, <2>1, <3>1, DeleteGroupDocOrphan DEF DeletionInv
  <2>2. CASE Posts(w)
    BY <1>1, <2>2, PostSliceOrphan, PostGroupOrphan
  <2>3. CASE Kept(w)
    BY <1>1, <2>3, KeptOrphan, MildPlmn
  <2> QED BY <2>1, <2>2, <2>3
<1>4. Unerring(job'[w])
  BY <1>1, KeptUnerring
<1>5. job'[w].cur # None => job'[w].cur \in auth'
  BY <1>1, KeptCur
<1>6. job'[w].op \in SubOps => Tidy'
  <2> SUFFICES ASSUME job[w].op \in SubOps PROVE Tidy'
    BY <1>2
  <2>1. job[w].pc \in {"exists", "store", "end"}
    BY DEF BaseInv, RequestInv, RequestOK
  <2>2. Exists(w) \/ Find(w) \/ Store(w)
    <3>1. ControlInv
      BY DEF BaseInv
    <3>2. ~(Posts(w) \/ DeleteGroupDoc(w) \/ GiveUp(w) \/ DeleteAuth(w) \/ Unlock(w) \/ ReadPrev(w)
            \/ StartCleanup(w) \/ CleanGroup(w) \/ Remove(w))
      BY <2>1, <3>1, PostShape, DeleteGroupDocShape, GiveUpShape, DeleteAuthShape, UnlockShape,
         ReadPrevShape, StartCleanupShape, CleanGroupShape, RemoveShape
    <3>3. ~(List(w) \/ NextDoc(w) \/ ReadGroup(w) \/ CheckAuth(w))
      BY <2>1, <3>1, ListShape, NextDocShape, ReadGroupShape, CheckAuthShape
    <3>4. ~(WriteDoc(w) \/ LockSlice(w) \/ LockGroup(w))
      BY <2>1, <3>1, WriteDocShape, LockSliceShape, LockGroupShape
    <3> QED BY <3>2, <3>3, <3>4 DEF Kept
  <2> QED BY <1>1, <2>2, SubTidy
<1> QED BY <1>2, <1>3, <1>4, <1>5, <1>6 DEF Serving, Unerring

(* One handler after the other: what arrives finds all tidy, and what is answered
   leaves all tidy.                                                           *)
LEMMA ArriveServing ==
    ASSUME Mild(scope), BaseInv, NEW w \in Workers, Arrive(w), InScope(job'[w]), Quiet, Tidy,
           Single
    PROVE  Serving(job[w])' /\ job'[w].pc # "idle"
<1>1. /\ Fresh(job'[w])
      /\ job'[w].alone
  BY ArriveShape DEF BaseInv, Quiet
<1>2. UNCHANGED store
  <2>1. PICK j : Begin(w, j)
    BY ArriveStep
  <2> QED BY <2>1 DEF Begin
<1>3. job'[w].pc \in {"prev", "list", "exists"} /\ ~job'[w].err /\ job'[w].cur = None
  BY <1>1 DEF Fresh
<1>4. InStep(job'[w]) /\ DocumentedThen(job'[w])
  BY <1>2, <1>3 DEF InStep, DocumentedThen, store, Tidy
<1>5. InStep(job[w])' /\ Documented(job[w])'
  BY <1>2, <1>4, StoreKeptOrphan DEF store
<1>6. \A i : InSlices(i)' <=> InSlices(i)
  BY <1>2 DEF InSlices, store
<1>7. Tidy'
  BY <1>2, <1>6 DEF Tidy, store, Bare
<1>8. Unerring(job'[w])
  BY ArriveUnerring
<1> QED BY <1>1, <1>3, <1>5, <1>7, <1>8 DEF Serving, Unerring

LEMMA EndTidy ==
    ASSUME BaseInv, NEW w \in Workers, End(w), Serving(job[w])
    PROVE  Tidy' /\ job'[w].pc = "idle"
<1>1. job[w].pc = "end" /\ job'[w] = Idle /\ UNCHANGED store
  BY EndShape DEF BaseInv, End
<1>2. Tidy
  <2>1. CASE job[w].err
    BY <2>1 DEF Serving, Unerring
  <2>2. CASE ~job[w].err
    <3>1. \A i : ~Pending(job[w], i)
      BY <1>1, <2>2 DEF Pending
    <3> QED BY <3>1 DEF Serving, Documented, Tidy
  <2> QED BY <2>1, <2>2
<1>3. \A i : InSlices(i)' <=> InSlices(i)
  BY <1>1 DEF InSlices, store
<1> QED BY <1>1, <1>2, <1>3 DEF Tidy, store, Bare, Idle

(* What a handler of a scope with a client that views leaves behind. *)
LEMMA WriterStep ==
    ASSUME Mild(scope), UNCHANGED scope, BaseInv, DeletionInv, StoreIn, NEW w \in Workers,
           Arrive(w) \/ Kept(w) \/ Posts(w) \/ DeleteGroupDoc(w) \/ End(w), InScope(job'[w]),
           \A v \in Workers \ {w} : job[v].pc = "idle",
           job[w].pc # "idle" => Serving(job[w]) /\ JobIn(job[w]), Quiet => Tidy, Owned,
           Single
    PROVE  /\ \A v \in Workers \ {w} : job'[v].pc = "idle"
           /\ job'[w].pc # "idle" => Serving(job[w])' /\ JobIn(job'[w]) /\ ~Quiet'
           /\ job'[w].pc = "idle" => Tidy'
           /\ Owned' /\ StoreIn' /\ Single'
<1>1. Owned' /\ StoreIn' /\ Single'
  <2>1. Owned'
    BY OwnedStep DEF DocsKept, Kept
  <2>2. StoreIn'
    BY StoreInStep DEF Serving
  <2>3. CASE Arrive(w)
    <3>1. PICK j : Begin(w, j)
      BY <2>3, ArriveStep
    <3>2. UNCHANGED <<docs, extra>>
      BY <3>1 DEF Begin, store
    <3> QED BY <2>1, <2>2, <3>2 DEF Single
  <2>4. CASE ~Arrive(w)
    <3>1. Acts(w)
      BY <2>4 DEF Acts, Locks, Proceed, Kept, Posts, Find
    <3>2. job[w].pc # "idle"
      BY <3>1, ActsGood
    <3>3. job[w].alone
      BY <3>2 DEF Serving
    <3> QED BY <2>1, <2>2, <3>1, <3>3, SingleStep
  <2> QED BY <2>1, <2>2, <2>3, <2>4
<1>2. CASE Arrive(w)
  <2>1. job[w].pc = "idle" /\ \A v \in Workers \ {w} : job'[v].pc = job[v].pc
    BY <1>2, ArriveShape DEF BaseInv, Lowered
  <2>2. Quiet /\ Tidy
    BY <2>1 DEF Quiet
  <2>3. Serving(job[w])' /\ job'[w].pc # "idle"
    BY <1>2, <2>2, ArriveServing
  <2>4. JobIn(job'[w])
    BY <1>2, ArriveIn
  <2> QED BY <1>1, <2>1, <2>3, <2>4 DEF Quiet
<1>3. CASE ~Arrive(w)
  <2>1. Acts(w)
    BY <1>3 DEF Acts, Locks, Proceed, Kept, Posts, Find
  <2>2. job[w].pc # "idle" /\ \A v \in Workers \ {w} : job'[v].pc = "idle"
    BY <2>1, ActsGood DEF OnlyJob
  <2>3. CASE End(w)
    BY <1>1, <2>2, <2>3, EndTidy
  <2>4. CASE ~End(w)
    <3>1. Serving(job[w])' /\ job'[w].pc # "idle"
      BY <1>3, <2>2, <2>4, KeptServing
    <3>2. JobIn(job'[w])
      BY <1>3, <2>2, <2>4, JobInStep DEF Serving
    <3> QED BY <1>1, <2>2, <3>1, <3>2 DEF Quiet
  <2> QED BY <2>3, <2>4
<1> QED BY <1>2, <1>3

(* The client's own steps, and those that do nothing, leave what handlers work on. *)
LEMMA StillWriters == ASSUME WritersInv, UNCHANGED rvars PROVE WritersInv'
<1> USE DEF rvars, vars
<1>1. \A i : InSlices(i)' <=> InSlices(i)
  BY DEF InSlices
<1>2. \A w \in Workers : InStep(job[w])' <=> InStep(job[w])
  BY DEF InStep, InSlices, Having, OnSlice
<1>3. \A w \in Workers : Documented(job[w])' <=> Documented(job[w])
  BY DEF Documented, Pending, Bare, InSlices, Having, OnSlice, Lost, LostGroups
<1>4. Tidy' <=> Tidy
  BY <1>1 DEF Tidy, Bare
<1>5. \A w \in Workers : Serving(job[w])' <=> Serving(job[w])
  BY <1>2, <1>3, <1>4 DEF Serving, Unerring
<1>6. Quiet' <=> Quiet
  BY DEF Quiet
<1>7. Owned' <=> Owned
  BY DEF Owned
<1>8. StoreIn' <=> StoreIn
  BY DEF StoreIn, SliceIn, GroupIn
<1>9. \A w \in Workers : JobIn(job[w])' <=> JobIn(job[w])
  BY DEF JobIn, SliceIn, GroupIn
<1>10. Single' <=> Single
  BY DEF Single
<1> QED BY <1>4, <1>5, <1>6, <1>7, <1>8, <1>9, <1>10 DEF WritersInv

LEMMA ScopeIn ==
    ASSUME scope \in Scopes PROVE scope.workers \subseteq Workers /\ scope.viewed \subseteq Imsis
BY ScopesAssumption

LEMMA ViewNext == ASSUME scope \in Scopes, [VNext]_vvars PROVE [Next]_vars
<1>1. CASE Others
  BY <1>1, ScopeIn DEF Others, Next
<1>2. CASE ~Others
  BY <1>2 DEF VNext, vvars, rvars, GetSubscriber, Read, ReadFailed, Answer, Answered
<1> QED BY <1>1, <1>2

LEMMA WritersStep ==
    ASSUME OneByOne, BaseInv, BaseInv', DeletionInv, scope \in Scopes, WritersInv, [VNext]_vvars
    PROVE  WritersInv'
<1>1. CASE ~Others
  <2>1. UNCHANGED rvars
    BY <1>1 DEF VNext, vvars, GetSubscriber, Read, ReadFailed, Answer, Answered
  <2> QED BY <2>1, StillWriters
<1>2. CASE Others
  <2> SUFFICES ASSUME scope.viewed # {} PROVE WritersInv'
    BY <1>2 DEF Others, WritersInv
  <2>1. /\ faults = 0 /\ StoreIn /\ Single /\ (Quiet => Tidy) /\ Owned
        /\ \A v \in Workers : job[v].pc # "idle" =>
              v \in scope.workers /\ Serving(job[v]) /\ JobIn(job[v])
    BY DEF WritersInv
  <2>2. Mild(scope) /\ scope.faults = 0 /\ \A u, v \in scope.workers : u = v
    BY DEF OneByOne, Mild
  <2>3. faults' = 0
    <3>1. faults' \in Nat /\ faults' <= 0
      BY <1>2, <2>2, ProvisioningAssumption DEF Others, BaseInv, StoreInv
    <3> QED BY <3>1
  <2>4. ~Fault
    BY <2>1, <2>3 DEF Fault
  <2>5. ~Restart /\ \A v \in Workers : ~Fails(v)
    BY <2>4 DEF Restart, Fails, ReadPrevFails, CallFails, ReadFails, WriteFails
  <2>6. PICK w \in scope.workers : (Arrive(w) \/ Locks(w) \/ Proceed(w)) /\ InScope(job'[w])
    BY <1>2, <2>5, ScopeIn DEF Others
  <2>7. w \in Workers /\ (\A v \in Workers \ {w} : job[v].pc = "idle")
    BY <2>1, <2>2, ScopeIn
  <2>8. Arrive(w) \/ Kept(w) \/ Posts(w) \/ DeleteGroupDoc(w) \/ End(w)
    BY <2>6 DEF Locks, Proceed, Kept, Posts, Find
  <2>9. UNCHANGED scope
    BY <1>2 DEF Others
  <2>10. /\ \A v \in Workers \ {w} : job'[v].pc = "idle"
         /\ job'[w].pc # "idle" => Serving(job[w])' /\ JobIn(job'[w]) /\ ~Quiet'
         /\ job'[w].pc = "idle" => Tidy'
         /\ Owned' /\ StoreIn' /\ Single'
    BY <2>1, <2>2, <2>6, <2>7, <2>8, <2>9, WriterStep
  <2>11. JobIn(job'[w]) <=> JobIn(job[w])'
    BY <2>9 DEF JobIn, SliceIn, GroupIn
  <2>12. ASSUME NEW v \in Workers, job'[v].pc # "idle"
         PROVE  v \in scope.workers /\ Serving(job[v])' /\ JobIn(job[v])'
    BY <2>6, <2>10, <2>11, <2>12
  <2>13. Quiet' => Tidy'
    BY <2>10, <2>7 DEF Quiet
  <2> QED BY <2>3, <2>9, <2>10, <2>12, <2>13 DEF WritersInv
<1> QED BY <1>1, <1>2

-----------------------------------------------------------------------------
(* What the client learns. *)
ReaderIs(r, a, i, f, s) == r \in Readers /\ r.at = a /\ r.imsi = i /\ r.found = f /\ r.status = s

LEMMA ReaderFound ==
    ASSUME NEW r \in Readers, NEW a \in 0..7, NEW f \in BOOLEAN
    PROVE  ReaderIs([r EXCEPT !.at = a, !.found = f], a, r.imsi, f, r.status)
<1>1. [r EXCEPT !.at = a, !.found = f] \in Readers
  BY DEF Readers
<1> QED BY <1>1 DEF Readers, ReaderIs

LEMMA ReaderStatus ==
    ASSUME NEW r \in Readers, NEW a \in 0..7, NEW s \in Statuses
    PROVE  ReaderIs([r EXCEPT !.at = a, !.status = s], a, r.imsi, r.found, s)
<1>1. [r EXCEPT !.at = a, !.status = s] \in Readers
  BY DEF Readers
<1> QED BY <1>1 DEF Readers, ReaderIs

LEMMA ReaderAnswers ==
    ASSUME NEW r \in Readers, NEW s \in Statuses
    PROVE  ReaderIs([r EXCEPT !.status = s], r.at, r.imsi, r.found, s)
<1>1. [r EXCEPT !.status = s] \in Readers
  BY DEF Readers
<1> QED BY <1>1 DEF Readers, ReaderIs

LEMMA ReaderNone == ReaderIs(NoReader, 0, None, FALSE, 0)
<1>1. 0 \in Statuses
  BY DEF Statuses
<1> QED BY <1>1 DEF NoReader, Readers, ReaderIs

LEMMA ReaderStarts ==
    ASSUME NEW r \in Readers, NEW a \in 0..7, NEW i \in Imsis
    PROVE  ReaderIs([r EXCEPT !.at = a, !.imsi = i], a, i, r.found, r.status)
<1>1. [r EXCEPT !.at = a, !.imsi = i] \in Readers
  BY DEF Readers
<1> QED BY <1>1 DEF Readers, ReaderIs

LEMMA ReaderNew ==
    ASSUME NEW i \in Imsis
    PROVE  ReaderIs([NoReader EXCEPT !.at = 1, !.imsi = i], 1, i, FALSE, 0)
<1> DEFINE a == 1
<1>1. NoReader \in Readers /\ NoReader.found = FALSE /\ NoReader.status = 0 /\ a \in 0..7
  BY ReaderNone DEF ReaderIs
<1> HIDE DEF a
<1>2. ReaderIs([NoReader EXCEPT !.at = a, !.imsi = i], a, i, FALSE, 0)
  BY <1>1, ReaderStarts
<1> QED BY <1>2 DEF a

LEMMA ReaderStep ==
    ASSUME ReaderInv, WritersInv, [VNext]_vvars PROVE ReaderInv'
<1>1. /\ scope \in Scopes /\ reader \in Readers
      /\ reader.at # 0 => scope.viewed # {}
      /\ reader.at # 0 /\ StoredFor(reader.imsi) = {} => absent
      /\ reader.at \in 2..7 /\ ~reader.found /\ reader.status # 500 => absent
      /\ reader.status # 0 => reader.at = 7
      /\ reader.status = 404 => ~reader.found
      /\ reader.at \in 0..7 /\ reader.imsi \in Imsis \union {None} /\ reader.found \in BOOLEAN
      /\ reader.status \in Statuses
  BY DEF ReaderInv, Readers
<1>2. CASE UNCHANGED vvars
  BY <1>1, <1>2 DEF vvars, rvars, vars, view, ReaderInv, StoredFor
<1>3. CASE Others
  <2> DEFINE gone == reader.at # 0 /\ StoredFor(reader.imsi)' = {}
  <2>1. scope' = scope /\ reader' = reader /\ absent' = (absent \/ gone)
    BY <1>3 DEF Others
  <2>2. reader.at # 0 /\ StoredFor(reader.imsi)' = {} => gone
    OBVIOUS
  <2> HIDE DEF gone
  <2>3. reader'.at # 0 /\ StoredFor(reader.imsi)' = {} => absent'
    BY <2>1, <2>2
  <2>4. absent => absent'
    BY <2>1
  <2> QED BY <1>1, <2>1, <2>3, <2>4 DEF ReaderInv
<1>4. ASSUME NEW i \in scope.viewed, GetSubscriber(i) PROVE ReaderInv'
  <2>2. i \in Imsis /\ scope' = scope /\ absent' = (StoredFor(i) = {}) /\ UNCHANGED <<auth, docs>>
    BY <1>1, <1>4, ScopeIn DEF GetSubscriber, rvars, vars
  <2>3. reader' \in Readers /\ reader'.at = 1 /\ reader'.imsi = i /\ ~reader'.found /\ reader'.status = 0
    BY <1>4, <2>2, ReaderNew DEF GetSubscriber, ReaderIs
  <2>4. StoredFor(reader.imsi)' = StoredFor(i)
    BY <2>2, <2>3 DEF StoredFor
  <2>5. StoredFor(reader.imsi)' = {} => absent'
    BY <2>2, <2>4
  <2>6. scope'.viewed # {}
    BY <1>4, <2>2
  <2>7. scope' \in Scopes /\ reader'.at \notin 2..7
    BY <1>1, <2>2, <2>3
  <2> QED BY <2>3, <2>5, <2>6, <2>7 DEF ReaderInv
<1>5. ASSUME NEW a \in 1..7, NEW f \in BOOLEAN, NEW s \in Statuses,
             ReaderIs(reader', a, reader.imsi, f, s),
             UNCHANGED <<rvars, absent>>, reader.at # 0, s # 0 => a = 7, s = 404 => ~f,
             a \in 2..7 /\ ~f /\ s # 500 => absent
      PROVE  ReaderInv'
  <2>1. /\ reader' \in Readers /\ reader'.at = a /\ reader'.imsi = reader.imsi
        /\ reader'.found = f /\ reader'.status = s
    BY <1>5 DEF ReaderIs
  <2>2. scope' = scope /\ absent' = absent /\ UNCHANGED <<auth, docs>>
    BY <1>5 DEF rvars, vars
  <2>3. StoredFor(reader.imsi)' = StoredFor(reader.imsi)
    BY <2>1, <2>2 DEF StoredFor
  <2> QED BY <1>1, <1>5, <2>1, <2>2, <2>3 DEF ReaderInv
<1>6. CASE Read
  <2> DEFINE c == Collections[reader.at]
             f == reader.found \/ c \in StoredFor(reader.imsi)
  <2>1. reader.at \in 1..6 /\ reader.status = 0
    BY <1>1, <1>6 DEF Read, Collections
  <2>2. /\ reader' = [reader EXCEPT !.at = reader.at + 1, !.found = f]
        /\ UNCHANGED <<rvars, absent>>
    BY <1>6 DEF Read
  <2>3. ~f => absent
    <3>1. CASE reader.at \in 2..6
      BY <1>1, <2>1, <3>1
    <3>2. CASE reader.at = 1
      <4>1. c = "auth"
        BY <3>2 DEF Collections
      <4>2. ~f => reader.imsi \notin auth
        BY <4>1 DEF StoredFor
      <4>3. Owned
        BY <1>1, <3>2 DEF WritersInv
      <4>4. ~f => StoredFor(reader.imsi) = {}
        BY <4>2, <4>3 DEF Owned, StoredFor
      <4> QED BY <1>1, <3>2, <4>4
    <3> QED BY <2>1, <3>1, <3>2
  <2>4. f \in BOOLEAN
    BY <1>1
  <2> HIDE DEF c, f
  <2>5. reader.at + 1 \in 1..7 /\ reader.at + 1 \in 0..7 /\ 0 \in Statuses
    BY <2>1 DEF Statuses
  <2>6. ReaderIs(reader', reader.at + 1, reader.imsi, f, 0)
    BY <1>1, <2>1, <2>2, <2>4, <2>5, ReaderFound
  <2> QED BY <1>5, <2>1, <2>2, <2>3, <2>4, <2>5, <2>6
<1>7. CASE ReadFailed
  <2> DEFINE a == 7
             s == 500
  <2>1. /\ reader' = [reader EXCEPT !.at = a, !.status = s]
        /\ reader.at \in 1..6 /\ UNCHANGED <<rvars, absent>>
    BY <1>7 DEF ReadFailed, Collections
  <2>2. s = 500 /\ a = 7 /\ a \in 1..7 /\ s \in Statuses
    BY DEF Statuses
  <2>3. s \in Statuses /\ a \in 0..7 /\ reader \in Readers
    BY <1>1, <2>2
  <2> HIDE DEF a, s
  <2>4. ReaderIs([reader EXCEPT !.at = a, !.status = s], a, reader.imsi, reader.found, s)
    BY <2>3, ReaderStatus, Zenon
  <2>5. ReaderIs(reader', a, reader.imsi, reader.found, s)
    BY <2>1, <2>4
  <2> QED BY <1>1, <1>5, <2>1, <2>2, <2>5
<1>8. CASE Answer
  <2> DEFINE s == IF reader.found THEN 200 ELSE 404
  <2>1. /\ reader' = [reader EXCEPT !.status = s]
        /\ reader.at = 7 /\ reader.status = 0 /\ UNCHANGED <<rvars, absent>>
    BY <1>8 DEF Answer
  <2>2. s \in Statuses /\ s # 500 /\ (s = 404 => ~reader.found)
    BY DEF Statuses
  <2> HIDE DEF s
  <2>3. ReaderIs(reader', 7, reader.imsi, reader.found, s)
    BY <1>1, <2>1, <2>2, ReaderAnswers
  <2> QED BY <1>1, <1>5, <2>1, <2>2, <2>3
<1>9. CASE Answered
  <2>1. reader' = NoReader /\ scope' = scope
    BY <1>9 DEF Answered, rvars
  <2>2. reader' \in Readers /\ reader'.at = 0 /\ reader'.status = 0
    BY <2>1, ReaderNone DEF ReaderIs
  <2> QED BY <1>1, <2>1, <2>2 DEF ReaderInv
<1> QED BY <1>2, <1>3, <1>4, <1>6, <1>7, <1>8, <1>9 DEF VNext

-----------------------------------------------------------------------------
LEMMA ViewAlways == ASSUME OneByOne PROVE VSpec => [](BaseInv /\ DeletionInv /\ ViewInv)
<1>1. VInit => BaseInv /\ DeletionInv /\ ViewInv
  <2> SUFFICES ASSUME VInit PROVE BaseInv /\ DeletionInv /\ ViewInv
    OBVIOUS
  <2>1. BaseInv
    BY InitBase DEF VInit
  <2>2. DeletionInv
    BY DEF VInit, Init, DeletionInv, Idle
  <2>3. WritersInv
    <3>1. VInit => StoreIn
      BY DEF VInit, Init, StoreIn, SliceIn, GroupIn, NoSlice, NoGroup
    <3>2. VInit => Single
      BY DEF VInit, Init, Single
    <3> QED BY <3>1, <3>2 DEF VInit, Init, WritersInv, Idle, Tidy, Owned
  <2>4. ReaderInv
    BY ReaderNone DEF VInit, ReaderInv, ReaderIs
  <2> QED BY <2>1, <2>2, <2>3, <2>4 DEF ViewInv
<1>2. BaseInv /\ DeletionInv /\ ViewInv /\ [VNext]_vvars => (BaseInv /\ DeletionInv /\ ViewInv)'
  <2> SUFFICES ASSUME BaseInv, DeletionInv, ViewInv, [VNext]_vvars
               PROVE  BaseInv' /\ DeletionInv' /\ ViewInv'
    OBVIOUS
  <2>1. scope \in Scopes /\ WritersInv /\ ReaderInv
    BY DEF ViewInv, ReaderInv
  <2>2. [Next]_vars
    BY <2>1, ViewNext
  <2>3. BaseInv' /\ DeletionInv'
    BY <2>2, BaseStep, DeletionStep
  <2>4. WritersInv' /\ ReaderInv'
    BY <2>1, <2>3, WritersStep, ReaderStep
  <2> QED BY <2>3, <2>4 DEF ViewInv
<1> QED BY <1>1, <1>2, PTL DEF VSpec

(* GET of a subscriber reads six collections one after the other and takes no lock.
   As long as handlers that write come one by one and without failures, with
   slices of one PLMN and device groups whose documents can be derived, it still
   never answers 404 unless at some moment of the request nothing was stored for
   the IMSI: no handler leaves documents of an IMSI without its authentication
   data, which is read first.                                                 *)
THEOREM NotFoundAlwaysTrue == ASSUME OneByOne PROVE VSpec => []NotFoundTrue
<1>1. ViewInv => NotFoundTrue
  BY DEF ViewInv, ReaderInv, NotFoundTrue
<1> QED BY <1>1, ViewAlways, PTL

=============================================================================
