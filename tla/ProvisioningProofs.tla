------------------------- MODULE ProvisioningProofs -------------------------
(* Proofs about Provisioning, for every number of handlers, every set of IMSIs,
   device groups, slices and PLMNs, and any number of faults.                 *)
EXTENDS Provisioning, TLAPS

JobFields == {"pc", "op", "arg", "work", "name", "new", "prev", "plmn", "left",
              "imsis", "gone", "cur", "k", "extent", "seen", "err", "hurt", "alone"}

(* What is inside a slice, stored or about to be stored. *)
SliceLike == SliceDocs \union {NoSlice}

(* A job has all its fields, and what it is about to store in a slice is a slice. *)
Storing(j) ==
    /\ (j.pc \in {"prev", "post", "lock"} /\ OnSlice(j)) => j.new \in SliceLike
    /\ j.op = "deleteGroup" => \A d \in j.work : d[2] \in SliceLike
    /\ j.pc \in {"list", "next"} => Looping(j)

(* It derives documents for a PLMN, up to one of two extents. *)
Deriving(j) ==
    /\ j.pc = "derive" => j.plmn \in Plmns
    /\ j.imsis # {} => j.extent \in {3, 5}
    /\ j.cur # None => j.pc = "derive" /\ j.extent \in {3, 5} /\ j.k \in 1..j.extent

JobOK(j) == DOMAIN j = JobFields /\ Storing(j) /\ Deriving(j)

JobInv == /\ DOMAIN slices = Slices
          /\ \A s \in Slices : slices[s] \in SliceLike
          /\ DOMAIN job = Workers
          /\ \A w \in Workers : JobOK(job[w])

(* What may be stored twice; a slice that is, is a slice as well. *)
ExtraInv == \A e \in DOMAIN extra : /\ e[1] \in {"slice", "group", "amData", "auth"}
                                    /\ e[1] = "slice" => e[3] \in SliceLike

Inside == {"derive", "cleanup", "unlock"}

(* The workers at a step under rwLock are those that hold it. *)
LockInv == \A w \in Workers : job[w].pc \in Inside <=> rwLock = w

ControlInv == JobInv /\ LockInv

(* The documents of an IMSI of which the first k - 1 have just been written. *)
Has(c, i, p) == Key(c, i, p) \in docs

Partial(i, k, p) ==
    /\ k = 1 => (Has("amPolicy", i, None) <=> Has("smPolicy", i, None))
    /\ k >= 2 => Has("amPolicy", i, None)
    /\ k >= 3 => Has("smPolicy", i, None)
    /\ k < 3 => (Has("smPolicy", i, None) => \E q \in Plmns : Has("smData", i, q))
    /\ k = 5 => Has("smData", i, p)
    /\ \A q \in Plmns : (k = 5 /\ q = p) \/ (Has("smData", i, q) <=> Has("smfSel", i, q))

Together(i) ==
    /\ Has("amPolicy", i, None) <=> Has("smPolicy", i, None)
    /\ \A p \in Plmns : Has("smData", i, p) <=> Has("smfSel", i, p)
    /\ Has("smPolicy", i, None) => \E p \in Plmns : Has("smData", i, p)

(* Every IMSI has its documents together, but for the one the holder of rwLock
   is writing, which has the first of them.                                   *)
DocsInv ==
    ~broken => /\ \A w \in Workers : job[w].cur \in Imsis =>
                     Partial(job[w].cur, job[w].k, job[w].plmn)
               /\ \A i \in Imsis : (\A w \in Workers : job[w].cur # i) => Together(i)

-----------------------------------------------------------------------------
(* The bag of documents stored besides the first of their name. *)

LEMMA BagFacts ==
    ASSUME NEW B, NEW S
    PROVE  /\ DOMAIN (B (+) SetToBag(S)) = DOMAIN B \union S
           /\ DOMAIN (B (-) SetToBag(S)) \subseteq DOMAIN B
           /\ DOMAIN EmptyBag = {}
BY DEF (+), (-), SetToBag, EmptyBag

LEMMA BagMore ==
    ASSUME NEW B, NEW S, NEW e \in DOMAIN (B (+) SetToBag(S)) PROVE e \in DOMAIN B \/ e \in S
BY DEF (+), SetToBag

LEMMA BagLess ==
    ASSUME NEW B, NEW S, NEW e \in DOMAIN (B (-) SetToBag(S)) PROVE e \in DOMAIN B
BY DEF (-), SetToBag

LEMMA NoneLess == ASSUME NEW S PROVE EmptyBag (-) SetToBag(S) = EmptyBag
BY DEF (-), SetToBag, EmptyBag

LEMMA NoneMore == EmptyBag (+) SetToBag({}) = EmptyBag
BY DEF (+), SetToBag, EmptyBag

(* A second slice or device group of a name is what a handler was storing. *)
LEMMA ExtraOnly ==
    ASSUME NEW w \in Workers, Locks(w) \/ Proceed(w) \/ Fails(w), NEW e \in DOMAIN extra'
    PROVE  \/ e \in DOMAIN extra
           \/ e[1] \in {"amData", "auth"}
           \/ /\ job[w].pc = "post"
              /\ e = <<IF OnSlice(job[w]) THEN "slice" ELSE "group", job[w].name, job[w].new>>
<1> DEFINE j == job[w]
           Old == \/ e \in DOMAIN extra
                  \/ e[1] \in {"amData", "auth"}
           New == <<IF OnSlice(j) THEN "slice" ELSE "group", j.name, j.new>>
<1>0. ASSUME NEW S, extra' = extra (+) SetToBag(S), \A x \in S : x[1] \in {"amData", "auth"}
      PROVE  Old
  <2>1. e \in DOMAIN extra \/ e \in S
    BY <1>0, BagMore
  <2> QED
    BY <1>0, <2>1
<1>9. ASSUME NEW S, extra' = extra (-) SetToBag(S) PROVE Old
  BY <1>9, BagLess
<1>8. CASE extra' = extra
  BY <1>8
<1>1. CASE Post(w)
  <2>1. extra' = extra \/ extra' = extra (+) SetToBag({New})
    BY <1>1 DEF Post
  <2>2. CASE extra' = extra (+) SetToBag({New})
    <3>1. e \in DOMAIN extra \/ e \in {New}
      BY <2>2, BagMore
    <3> QED
      BY <1>1, <3>1 DEF Post
  <2> QED
    BY <1>8, <2>1, <2>2
<1>2. CASE DeleteSliceDoc(w)
  BY <1>2, <1>8, <1>9 DEF DeleteSliceDoc
<1>3. CASE WriteDoc(w)
  <2>2. CASE InsertAmData(j.cur, j.plmn)
    <3>1. extra' = extra (+) SetToBag(docs \intersect {<<"amData", j.cur, j.plmn>>})
      BY <2>2 DEF InsertAmData
    <3> QED
      BY <1>0, <3>1
  <2>3. CASE UpdateAmData(j.cur, j.plmn)
    <3> DEFINE key == <<"amData", j.cur, j.plmn>>
               bare == <<"amData", j.cur, None>>
               mid == extra (-) SetToBag({bare})
    <3>1. CASE extra' = mid (+) SetToBag(docs \intersect {key})
      <4>1. e \in DOMAIN mid \/ e \in docs \intersect {key}
        BY <3>1, BagMore
      <4>2. CASE e \in DOMAIN mid
        BY <4>2, BagLess
      <4> QED
        BY <4>1, <4>2
    <3> QED
      BY <1>8, <2>3, <3>1 DEF UpdateAmData
  <2> QED
    BY <1>3, <1>8, <2>2, <2>3 DEF WriteDoc, Upsert
<1>4. CASE Remove(w)
  BY <1>4, <1>9 DEF Remove
<1>5. CASE DeleteGroupDoc(w)
  BY <1>5, <1>8, <1>9 DEF DeleteGroupDoc
<1>6. CASE DeleteAuth(w)
  BY <1>6, <1>9 DEF DeleteAuth
<1>7. CASE Store(w)
  <2> DEFINE twice == (IF "doc" \in j.seen THEN {} ELSE docs \intersect {<<"amData", j.arg, None>>})
                        \union (IF "auth" \in j.seen \/ j.arg \notin auth THEN {}
                                  ELSE {<<"auth", j.arg, None>>})
  <2>1. extra' = extra (+) SetToBag(twice)
    BY <1>7 DEF Store
  <2>2. \A x \in twice : x[1] \in {"amData", "auth"}
    OBVIOUS
  <2> QED
    BY <1>0, <2>1, <2>2
<1> QED
  BY <1>1, <1>2, <1>3, <1>4, <1>5, <1>6, <1>7, <1>8
     DEF Locks, Proceed, Fails, LockSlice, LockGroup, ReadPrev, Find, ReadGroup, CheckAuth,
         StartCleanup, CleanGroup, Unlock, List, NextDoc, GiveUp, Exists, End,
         ReadPrevFails, CallFails, ReadFails, WriteFails, store

LEMMA ExtraKept == ControlInv /\ ExtraInv /\ [Next]_vars => ExtraInv'
<1> SUFFICES ASSUME ControlInv, ExtraInv, [Next]_vars, NEW e \in DOMAIN extra'
             PROVE  /\ e[1] \in {"slice", "group", "amData", "auth"}
                    /\ e[1] = "slice" => e[3] \in SliceLike
  BY DEF ExtraInv
<1> DEFINE Good == /\ e[1] \in {"slice", "group", "amData", "auth"}
                   /\ e[1] = "slice" => e[3] \in SliceLike
<1>1. ASSUME NEW w \in Workers, Locks(w) \/ Proceed(w) \/ Fails(w) PROVE Good
  <2>1. CASE e \in DOMAIN extra
    BY <2>1 DEF ExtraInv
  <2>2. ASSUME job[w].pc = "post",
               e = <<IF OnSlice(job[w]) THEN "slice" ELSE "group", job[w].name, job[w].new>>
        PROVE  Good
    BY <2>2 DEF ControlInv, JobInv, JobOK, Storing
  <2> QED
    BY <1>1, <2>1, <2>2, ExtraOnly
<1>2. CASE extra' = extra
  BY <1>2 DEF ExtraInv
<1>3. ASSUME NEW w \in Workers, Arrive(w) PROVE extra' = extra
  BY <1>3 DEF Arrive, PutSlice, DeleteSlice, PutGroup, DeleteGroup, PostSub, PutSub, DeleteSub,
              Begin, store
<1> QED
  BY <1>1, <1>2, <1>3 DEF Next, Restart, vars, store

-----------------------------------------------------------------------------
(* The control of the handlers. *)

(* A step of one worker keeps what holds of the others. *)
LEMMA OneWorker ==
    ASSUME ControlInv, NEW w \in Workers,
           DOMAIN job' = Workers, \A v \in Workers \ {w} : job'[v] = job[v],
           JobOK(job[w])', \A s \in Slices : slices'[s] \in SliceLike, DOMAIN slices' = Slices,
           \/ rwLock' = rwLock /\ (job'[w].pc \in Inside <=> job[w].pc \in Inside)
           \/ rwLock = None /\ rwLock' = w /\ job'[w].pc \in Inside
           \/ rwLock = w /\ rwLock' = None /\ job'[w].pc \notin Inside
    PROVE  ControlInv'
<1>1. \A v \in Workers : JobOK(job'[v])
  BY DEF ControlInv, JobInv, JobOK
<1>2. LockInv'
  BY ProvisioningAssumption DEF ControlInv, LockInv
<1> QED
  BY <1>1, <1>2 DEF ControlInv, JobInv

(* The steps with more than one outcome, one lemma each: first the job of the
   worker, then what holds of all of them.                                    *)
LEMMA LockSliceJob == ASSUME NEW w \in Workers, LockSlice(w), JobInv PROVE JobOK(job[w])'
<1> DEFINE j == job[w]
           n == job'[w]
<1> USE DEF JobFields
<1>1. JobOK(j) /\ DOMAIN job = Workers
  BY DEF JobInv
<1>2. j.pc = "lock" /\ OnSlice(j)
  BY DEF LockSlice
<1>3. j.new \in SliceLike
  BY <1>1, <1>2 DEF JobOK, Storing
<1>4. j.new.sst => j.new.plmn \in Plmns
  BY <1>3 DEF SliceLike, SliceDocs, NoSlice
<1>5. /\ DOMAIN n = JobFields /\ n.op = j.op /\ n.cur = j.cur /\ n.work = j.work
      /\ n.imsis = j.imsis /\ n.extent = j.extent
      /\ \/ n.pc \in {"cleanup", "unlock"}
         \/ n.pc = "derive" /\ j.new.sst /\ n.plmn = j.new.plmn
  <2>1. CASE j.op = "deleteSlice"
    BY <1>1, <2>1 DEF LockSlice, JobOK
  <2>2. CASE j.op # "deleteSlice" /\ j.new.sst
    BY <1>1, <2>2 DEF LockSlice, JobOK
  <2>3. CASE j.op # "deleteSlice" /\ ~j.new.sst
    BY <1>1, <2>3 DEF LockSlice, JobOK
  <2> QED
    BY <2>1, <2>2, <2>3
<1> QED
  BY <1>1, <1>2, <1>4, <1>5 DEF JobOK, Storing, Deriving

LEMMA AllSlicesOK ==
    ASSUME JobInv, ExtraInv, NEW d \in AllSlices
    PROVE  d = <<d[1], d[2]>> /\ d[2] \in SliceLike
BY DEF AllSlices, JobInv, ExtraInv

LEMMA LockGroupJob ==
    ASSUME NEW w \in Workers, LockGroup(w), JobInv, ExtraInv PROVE JobOK(job[w])'
<1> DEFINE j == job[w]
           n == job'[w]
<1> USE DEF JobFields
<1>1. JobOK(j) /\ DOMAIN job = Workers /\ j.pc = "lock"
  BY DEF JobInv, LockGroup
<1>2. ASSUME NEW d \in AllSlices, d[2].sst,
             job' = [job EXCEPT ![w].pc = "derive", ![w].plmn = d[2].plmn,
                                ![w].imsis = j.new.imsis,
                                ![w].extent = Extent(j, j.new.kind)]
      PROVE  JobOK(n)
  <2>1. d[2].plmn \in Plmns
    BY <1>2, AllSlicesOK DEF SliceLike, SliceDocs, NoSlice
  <2>2. Extent(j, j.new.kind) \in {3, 5}
    BY DEF Extent
  <2>3. /\ DOMAIN n = JobFields /\ n.op = j.op /\ n.cur = j.cur /\ n.work = j.work
        /\ n.pc = "derive" /\ n.plmn = d[2].plmn /\ n.extent = Extent(j, j.new.kind)
    BY <1>1, <1>2 DEF JobOK
  <2> QED
    BY <1>1, <2>1, <2>2, <2>3 DEF JobOK, Storing, Deriving
<1>3. ASSUME \/ job' = [job EXCEPT ![w].pc = "unlock"]
             \/ job' = [job EXCEPT ![w].pc = "unlock", ![w].err = TRUE]
      PROVE  JobOK(n)
  BY <1>1, <1>3 DEF JobOK, Storing, Deriving
<1> QED
  BY <1>2, <1>3 DEF LockGroup

LEMMA NextDocJob == ASSUME NEW w \in Workers, NextDoc(w), JobInv PROVE JobOK(job[w])'
<1> DEFINE j == job[w]
           n == job'[w]
<1> USE DEF JobFields
<1>1. JobOK(j) /\ DOMAIN job = Workers /\ j.pc = "next"
  BY DEF JobInv, NextDoc
<1>2. PICK d \in j.work :
         job' = [job EXCEPT ![w] = [j EXCEPT !.pc = "prev", !.work = @ \ {d},
                                            !.name = d[1], !.new = d[2]]]
  BY DEF NextDoc
<1>3. /\ DOMAIN n = JobFields /\ n.op = j.op /\ n.cur = j.cur /\ n.extent = j.extent
      /\ n.imsis = j.imsis /\ n.pc = "prev" /\ n.work = j.work \ {d} /\ n.new = d[2]
  BY <1>1, <1>2 DEF JobOK
<1> QED
  BY <1>1, <1>3 DEF JobOK, Storing, Deriving, OnSlice, Looping

LEMMA WriteFailsJob == ASSUME NEW w \in Workers, WriteFails(w), JobInv PROVE JobOK(job[w])'
<1> DEFINE j == job[w]
           n == job'[w]
<1> USE DEF JobFields
<1>1. JobOK(j) /\ DOMAIN job = Workers
  BY DEF JobInv
<1>2. ASSUME NEW x, DOMAIN x = JobFields, Storing(x), Deriving(x), x.pc \in Inside
      PROVE  JobOK(Stopped(x))
  BY <1>2 DEF Stopped, JobOK, Storing, Deriving, Inside
<1>3. ASSUME j.cur # None, job' = [job EXCEPT ![w] = Stopped([j EXCEPT !.hurt = TRUE])]
      PROVE  JobOK(n)
  <2> DEFINE x == [j EXCEPT !.hurt = TRUE]
  <2>1. DOMAIN x = JobFields /\ Storing(x) /\ Deriving(x) /\ x.pc \in Inside
    BY <1>1, <1>3 DEF JobOK, Storing, Deriving, OnSlice, Inside
  <2>2. n = Stopped(x)
    BY <1>1, <1>3
  <2> HIDE DEF x
  <2> QED
    BY <1>2, <2>1, <2>2
<1>4. ASSUME j.pc = "cleanup", NEW i \in j.gone,
             job' = [job EXCEPT ![w] = Stopped([j EXCEPT !.gone = @ \ {i}, !.hurt = TRUE])]
      PROVE  JobOK(n)
  <2> DEFINE x == [j EXCEPT !.gone = @ \ {i}, !.hurt = TRUE]
  <2>1. DOMAIN x = JobFields /\ Storing(x) /\ Deriving(x) /\ x.pc \in Inside
    BY <1>1, <1>4 DEF JobOK, Storing, Deriving, OnSlice, Inside
  <2>2. n = Stopped(x)
    BY <1>1, <1>4
  <2> HIDE DEF x
  <2> QED
    BY <1>2, <2>1, <2>2
<1> QED
  BY <1>3, <1>4 DEF WriteFails

LEMMA ReadFailsJob ==
    ASSUME NEW w \in Workers, ReadFails(w), JobInv
    PROVE  /\ JobOK(job[w])'
           /\ DOMAIN job' = Workers /\ \A v \in Workers \ {w} : job'[v] = job[v]
           /\ \/ rwLock' = rwLock /\ job'[w].pc = job[w].pc
              \/ rwLock = None /\ rwLock' = w /\ job'[w].pc = "unlock"
           /\ \A f \in {"cur", "k", "plmn"} : job'[w][f] = job[w][f]
<1> DEFINE j == job[w]
           n == job'[w]
           Same == /\ DOMAIN n = JobFields /\ n.op = j.op /\ n.work = j.work /\ n.new = j.new
                   /\ n.cur = j.cur /\ n.k = j.k /\ n.plmn = j.plmn /\ n.extent = j.extent
                   /\ j.imsis = {} => n.imsis = {}
                   /\ DOMAIN job' = Workers /\ \A v \in Workers \ {w} : job'[v] = job[v]
<1> USE DEF JobFields
<1>1. JobOK(j) /\ DOMAIN job = Workers
  BY DEF JobInv
<1>2. ASSUME j.pc = "lock", ~OnSlice(j), rwLock = None, rwLock' = w,
             job' = [job EXCEPT ![w].pc = "unlock", ![w].hurt = TRUE]
      PROVE  Same /\ n.pc = "unlock" /\ JobOK(n)
  <2>1. Same /\ n.pc = "unlock" /\ n.imsis = j.imsis
    BY <1>1, <1>2 DEF JobOK
  <2> QED
    BY <1>1, <1>2, <2>1 DEF JobOK, Storing, Deriving
<1>3. ASSUME NEW g, job' = [job EXCEPT ![w].left = @ \ {g}, ![w].hurt = TRUE]
      PROVE  Same /\ n.pc = j.pc /\ JobOK(n)
  <2>1. Same /\ n.pc = j.pc /\ n.imsis = j.imsis
    BY <1>1, <1>3 DEF JobOK
  <2> QED
    BY <1>1, <2>1 DEF JobOK, Storing, Deriving, OnSlice, Looping
<1>4. ASSUME NEW i, job' = [job EXCEPT ![w].imsis = @ \ {i}, ![w].hurt = TRUE]
      PROVE  Same /\ n.pc = j.pc /\ JobOK(n)
  <2>1. Same /\ n.pc = j.pc
    BY <1>1, <1>4 DEF JobOK
  <2> QED
    BY <1>1, <2>1 DEF JobOK, Storing, Deriving, OnSlice, Looping
<1> QED
  BY <1>2, <1>3, <1>4 DEF ReadFails

LEMMA LockGroupCtl == ASSUME ControlInv, NEW w \in Workers, LockGroup(w), JobOK(job[w])' PROVE ControlInv'
<1>1. JobOK(job[w]) /\ DOMAIN job = Workers
  BY DEF ControlInv, JobInv
<1>2. /\ DOMAIN job' = Workers /\ \A v \in Workers \ {w} : job'[v] = job[v]
      /\ rwLock = None /\ rwLock' = w /\ slices' = slices
  BY <1>1 DEF LockGroup, store
<1>3. job'[w].pc \in Inside
  <2>1. ASSUME NEW d,
               job' = [job EXCEPT ![w].pc = "derive", ![w].plmn = d[2].plmn,
                                  ![w].imsis = job[w].new.imsis,
                                  ![w].extent = Extent(job[w], job[w].new.kind)]
        PROVE  job'[w].pc = "derive"
    BY <1>1, <2>1 DEF JobOK, JobFields
  <2>2. ASSUME \/ job' = [job EXCEPT ![w].pc = "unlock"]
               \/ job' = [job EXCEPT ![w].pc = "unlock", ![w].err = TRUE]
        PROVE  job'[w].pc = "unlock"
    BY <1>1, <2>2 DEF JobOK, JobFields
  <2> QED
    BY <2>1, <2>2 DEF LockGroup, Inside
<1> QED
  BY <1>2, <1>3, OneWorker DEF ControlInv, JobInv

LEMMA ReadGroupCtl == ASSUME ControlInv, NEW w \in Workers, ReadGroup(w), JobOK(job[w])' PROVE ControlInv'
<1>1. JobOK(job[w]) /\ DOMAIN job = Workers
  BY DEF ControlInv, JobInv
<1>2. /\ DOMAIN job' = Workers /\ \A v \in Workers \ {w} : job'[v] = job[v]
      /\ job'[w].pc = job[w].pc /\ rwLock' = rwLock /\ slices' = slices
  BY <1>1 DEF ReadGroup, JobOK, JobFields, store
<1> QED
  BY <1>2, OneWorker DEF ControlInv, JobInv

LEMMA CheckAuthCtl == ASSUME ControlInv, NEW w \in Workers, CheckAuth(w), JobOK(job[w])' PROVE ControlInv'
<1>1. JobOK(job[w]) /\ DOMAIN job = Workers
  BY DEF ControlInv, JobInv
<1>2. /\ DOMAIN job' = Workers /\ \A v \in Workers \ {w} : job'[v] = job[v]
      /\ job'[w].pc = job[w].pc /\ rwLock' = rwLock /\ slices' = slices
  BY <1>1 DEF CheckAuth, JobOK, JobFields, store
<1> QED
  BY <1>2, OneWorker DEF ControlInv, JobInv

LEMMA WriteDocCtl == ASSUME ControlInv, NEW w \in Workers, WriteDoc(w), JobOK(job[w])' PROVE ControlInv'
<1>1. JobOK(job[w]) /\ DOMAIN job = Workers
  BY DEF ControlInv, JobInv
<1>2. /\ DOMAIN job' = Workers /\ \A v \in Workers \ {w} : job'[v] = job[v]
      /\ rwLock' = rwLock /\ slices' = slices
  BY <1>1 DEF WriteDoc
<1>3. job[w].pc = "derive"
  BY <1>1 DEF WriteDoc, JobOK, Deriving
<1>4. job'[w].pc \in {"derive", "unlock"}
  BY <1>1, <1>3 DEF WriteDoc, Stopped, JobOK, JobFields
<1> QED
  BY <1>2, <1>3, <1>4, OneWorker DEF ControlInv, JobInv, Inside

LEMMA WriteFailsCtl == ASSUME ControlInv, NEW w \in Workers, WriteFails(w), JobOK(job[w])' PROVE ControlInv'
<1>1. JobOK(job[w]) /\ DOMAIN job = Workers
  BY DEF ControlInv, JobInv
<1>2. /\ DOMAIN job' = Workers /\ \A v \in Workers \ {w} : job'[v] = job[v]
      /\ rwLock' = rwLock /\ slices' = slices
  BY <1>1 DEF WriteFails, store
<1>3. job[w].pc \in Inside
  BY <1>1 DEF WriteFails, JobOK, Deriving, Inside
<1>4. ASSUME NEW x, DOMAIN x = JobFields, x.pc \in Inside PROVE Stopped(x).pc \in Inside
  BY <1>4 DEF Stopped, JobFields, Inside
<1>5. \/ job'[w] = Stopped([job[w] EXCEPT !.hurt = TRUE])
      \/ \E i \in job[w].gone : job'[w] = Stopped([job[w] EXCEPT !.gone = @ \ {i},
                                                               !.hurt = TRUE])
  BY <1>1 DEF WriteFails
<1>6. /\ LET x == [job[w] EXCEPT !.hurt = TRUE]
         IN  DOMAIN x = JobFields /\ x.pc \in Inside
      /\ \A i : LET x == [job[w] EXCEPT !.gone = @ \ {i}, !.hurt = TRUE]
               IN  DOMAIN x = JobFields /\ x.pc \in Inside
  BY <1>1, <1>3 DEF JobOK, JobFields, Inside
<1>7. job'[w].pc \in Inside
  <2>1. CASE job'[w] = Stopped([job[w] EXCEPT !.hurt = TRUE])
    BY <1>4, <1>6, <2>1
  <2>2. ASSUME NEW i, job'[w] = Stopped([job[w] EXCEPT !.gone = @ \ {i}, !.hurt = TRUE])
        PROVE  job'[w].pc \in Inside
    BY <1>4, <1>6, <2>2
  <2> QED
    BY <1>5, <2>1, <2>2
<1> QED
  BY <1>2, <1>3, <1>7, OneWorker DEF ControlInv, JobInv

LEMMA IdleOK == JobOK(Idle) /\ Idle.pc = "idle" /\ Idle.cur = None
BY DEF JobOK, JobFields, Idle, Storing, Deriving, OnSlice, Looping

(* The flag alone is of no account. *)
LEMMA AloneOK ==
    ASSUME NEW j, JobOK(j), NEW b
    PROVE  LET n == [j EXCEPT !.alone = b]
           IN  /\ JobOK(n) /\ n.pc = j.pc /\ n.cur = j.cur /\ n.k = j.k /\ n.plmn = j.plmn
BY DEF JobOK, JobFields, Storing, Deriving, OnSlice, Looping

(* A worker is idle, and its next job is in order. *)
LEMMA BeginStep ==
    ASSUME ControlInv, NEW w \in Workers, NEW j, Begin(w, j),
           JobOK(j), j.pc \notin Inside
    PROVE  ControlInv'
<1> DEFINE a == (\A v \in Workers \ {w} : job[v].pc = "idle") /\ Single
           n(v) == IF v = w THEN [j EXCEPT !.alone = a] ELSE [job[v] EXCEPT !.alone = FALSE]
<1>1. job' = [v \in Workers |-> n(v)] /\ rwLock' = rwLock /\ slices' = slices
  BY DEF Begin, store
<1>2. job[w].pc = "idle"
  BY DEF Begin
<1>3. \A v \in Workers : JobOK(job[v])
  BY DEF ControlInv, JobInv
<1>4. ASSUME NEW v \in Workers
      PROVE  JobOK(n(v)) /\ (n(v).pc \in Inside <=> job[v].pc \in Inside)
  <2>1. CASE v = w
    BY <2>1, <1>2, AloneOK DEF Inside
  <2>2. CASE v # w
    BY <2>2, <1>3, AloneOK
  <2> QED
    BY <2>1, <2>2
<1> HIDE DEF n
<1>5. DOMAIN job' = Workers /\ \A v \in Workers : job'[v] = n(v)
  BY <1>1
<1> QED
  BY <1>1, <1>4, <1>5 DEF ControlInv, JobInv, LockInv

(* Every request starts a job that is in order. *)
LEMMA ArriveStep ==
    ASSUME NEW w \in Workers, Arrive(w)
    PROVE  \E j : Begin(w, j) /\ JobOK(j) /\ j.pc \notin Inside /\ j.cur = None
<1> DEFINE Fresh(j) == JobOK(j) /\ j.pc \notin Inside /\ j.cur = None
<1>1. ASSUME NEW s, NEW d \in SliceLike, NEW op \in {"putSlice", "deleteSlice"}
      PROVE  Fresh([Idle EXCEPT !.op = op, !.pc = "prev", !.name = s, !.new = d])
  BY DEF Idle, JobOK, JobFields, Storing, Deriving, Looping, Inside
<1>2. ASSUME NEW g, NEW d
      PROVE  Fresh([Idle EXCEPT !.op = "putGroup", !.pc = "prev", !.name = g, !.new = d])
  BY DEF Idle, JobOK, JobFields, Storing, Deriving, OnSlice, Looping, Inside
<1>3. ASSUME NEW a, NEW op \in {"deleteGroup", "deleteSub"}
      PROVE  Fresh([Idle EXCEPT !.op = op, !.pc = "list", !.arg = a])
  BY DEF Idle, JobOK, JobFields, Storing, Deriving, Looping, Inside
<1>4. ASSUME NEW a, NEW op \in {"postSub", "putSub"}
      PROVE  Fresh([Idle EXCEPT !.op = op, !.pc = "exists", !.arg = a])
  BY DEF Idle, JobOK, JobFields, Storing, Deriving, Looping, Inside
<1> HIDE DEF Fresh
<1>5. ASSUME NEW s \in Slices, DeleteSlice(w, s)
      PROVE  \E j : Begin(w, j) /\ Fresh(j)
  BY <1>1, <1>5 DEF DeleteSlice, SliceLike
<1>6. ASSUME NEW s \in Slices, NEW d \in SliceDocs, PutSlice(w, s, d)
      PROVE  \E j : Begin(w, j) /\ Fresh(j)
  BY <1>1, <1>6 DEF PutSlice, SliceLike
<1>7. ASSUME NEW g \in Groups, DeleteGroup(w, g)
      PROVE  \E j : Begin(w, j) /\ Fresh(j)
  BY <1>3, <1>7 DEF DeleteGroup
<1>8. ASSUME NEW g \in Groups, NEW d \in GroupDocs, PutGroup(w, g, d)
      PROVE  \E j : Begin(w, j) /\ Fresh(j)
  BY <1>2, <1>8 DEF PutGroup
<1>9. ASSUME NEW i \in Imsis, PostSub(w, i) \/ PutSub(w, i) \/ DeleteSub(w, i)
      PROVE  \E j : Begin(w, j) /\ Fresh(j)
  BY <1>3, <1>4, <1>9 DEF PostSub, PutSub, DeleteSub
<1>10. \E j : Begin(w, j) /\ Fresh(j)
  BY <1>5, <1>6, <1>7, <1>8, <1>9 DEF Arrive
<1> QED
  BY <1>10 DEF Fresh

LEMMA RestartCtl == ASSUME ControlInv, Restart PROVE ControlInv'
<1>1. DOMAIN job' = Workers /\ \A w \in Workers : job'[w] = Idle
  BY DEF Restart
<1>2. rwLock' = None /\ slices' = slices
  BY DEF Restart, store
<1> QED
  BY <1>1, <1>2, IdleOK, ProvisioningAssumption DEF ControlInv, JobInv, LockInv, Inside

LEMMA InitCtl == Init => ControlInv /\ ExtraInv
<1> SUFFICES ASSUME Init PROVE ControlInv /\ ExtraInv
  OBVIOUS
<1>1. DOMAIN job = Workers /\ \A w \in Workers : job[w] = Idle
  BY DEF Init
<1>2. DOMAIN slices = Slices /\ \A s \in Slices : slices[s] \in SliceLike
  BY DEF Init, SliceLike
<1>3. rwLock = None /\ DOMAIN extra = {}
  BY BagFacts DEF Init
<1> QED
  BY <1>1, <1>2, <1>3, IdleOK, ProvisioningAssumption
     DEF ControlInv, ExtraInv, JobInv, LockInv, Inside

LEMMA ControlStep == ControlInv /\ ExtraInv /\ [Next]_vars => ControlInv'
<1> SUFFICES ASSUME ControlInv, ExtraInv, [Next]_vars PROVE ControlInv'
  OBVIOUS
<1>1. JobInv /\ DOMAIN job = Workers /\ \A w \in Workers : JobOK(job[w])
  BY DEF ControlInv, JobInv
<1>2. ASSUME NEW w \in Workers, ReadPrev(w) PROVE ControlInv'
  <2>1. JobOK(job[w])'
    BY <1>1, <1>2, ProvisioningAssumption
       DEF JobInv, ReadPrev, JobOK, JobFields, Storing, Deriving, OnSlice, Looping
  <2> QED
    BY <1>1, <1>2, <2>1, OneWorker
       DEF ControlInv, JobInv, LockInv, ReadPrev, JobOK, JobFields, Inside, store, OnSlice,
           Storing
<1>3. ASSUME NEW w \in Workers, Post(w) PROVE ControlInv'
  <2>1. JobOK(job[w])'
    BY <1>1, <1>3, ProvisioningAssumption
       DEF JobInv, Post, JobOK, JobFields, Storing, Deriving, OnSlice, Looping
  <2>2. /\ DOMAIN job' = Workers /\ \A v \in Workers \ {w} : job'[v] = job[v]
        /\ job'[w].pc = "lock" /\ job[w].pc = "post" /\ rwLock' = rwLock
    BY <1>1, <1>3 DEF Post, JobOK, JobFields
  <2>3. \/ slices' = slices
        \/ /\ job[w].new \in SliceLike
           /\ slices' = [slices EXCEPT ![job[w].name] = job[w].new]
    BY <1>1, <1>3 DEF Post, Posted, JobOK, Storing
  <2> QED
    BY <1>1, <2>1, <2>2, <2>3, OneWorker DEF JobInv, Inside
<1>4. ASSUME NEW w \in Workers, StartCleanup(w) PROVE ControlInv'
  <2>1. JobOK(job[w])'
    BY <1>1, <1>4, ProvisioningAssumption
       DEF JobInv, StartCleanup, JobOK, JobFields, Storing, Deriving, OnSlice, Looping
  <2>2. /\ DOMAIN job' = Workers /\ \A v \in Workers \ {w} : job'[v] = job[v]
        /\ job'[w].pc \in Inside <=> job[w].pc \in Inside
        /\ rwLock' = rwLock /\ slices' = slices
    BY <1>1, <1>4 DEF StartCleanup, JobOK, JobFields, Inside, store
  <2> QED
    BY <1>1, <2>1, <2>2, OneWorker DEF JobInv
<1>5. ASSUME NEW w \in Workers, CleanGroup(w) PROVE ControlInv'
  <2>1. JobOK(job[w])'
    BY <1>1, <1>5, ProvisioningAssumption
       DEF JobInv, CleanGroup, JobOK, JobFields, Storing, Deriving, OnSlice, Looping
  <2>2. /\ DOMAIN job' = Workers /\ \A v \in Workers \ {w} : job'[v] = job[v]
        /\ job'[w].pc \in Inside <=> job[w].pc \in Inside
        /\ rwLock' = rwLock /\ slices' = slices
    BY <1>1, <1>5 DEF CleanGroup, JobOK, JobFields, Inside, store
  <2> QED
    BY <1>1, <2>1, <2>2, OneWorker DEF JobInv
<1>6. ASSUME NEW w \in Workers, Remove(w) PROVE ControlInv'
  <2>1. JobOK(job[w])'
    BY <1>1, <1>6, ProvisioningAssumption
       DEF JobInv, Remove, JobOK, JobFields, Storing, Deriving, OnSlice, Looping
  <2> QED
    BY <1>1, <1>6, <2>1, OneWorker
       DEF ControlInv, JobInv, LockInv, Remove, JobOK, JobFields, Inside, store, OnSlice,
           Storing
<1>7. ASSUME NEW w \in Workers, Unlock(w) PROVE ControlInv'
  <2>1. JobOK(job[w])'
    BY <1>1, <1>7, ProvisioningAssumption
       DEF JobInv, Unlock, JobOK, JobFields, Storing, Deriving, OnSlice, Looping
  <2> QED
    BY <1>1, <1>7, <2>1, OneWorker
       DEF ControlInv, JobInv, LockInv, Unlock, JobOK, JobFields, Inside, store, OnSlice,
           Storing
<1>8. ASSUME NEW w \in Workers, List(w) PROVE ControlInv'
  <2>1. JobOK(job[w])'
    BY <1>1, <1>8, AllSlicesOK, ProvisioningAssumption
       DEF JobInv, List, JobOK, JobFields, Storing, Deriving, OnSlice, Looping, SliceLike, SliceDocs, NoSlice
  <2> QED
    BY <1>1, <1>8, <2>1, OneWorker
       DEF ControlInv, JobInv, LockInv, List, JobOK, JobFields, Inside, store, OnSlice,
           Storing, SliceLike, SliceDocs, NoSlice
<1>9. ASSUME NEW w \in Workers, GiveUp(w) PROVE ControlInv'
  <2>1. JobOK(job[w])'
    BY <1>1, <1>9, ProvisioningAssumption
       DEF JobInv, GiveUp, JobOK, JobFields, Storing, Deriving, OnSlice, Looping
  <2> QED
    BY <1>1, <1>9, <2>1, OneWorker
       DEF ControlInv, JobInv, LockInv, GiveUp, JobOK, JobFields, Inside, store, OnSlice,
           Storing
<1>10. ASSUME NEW w \in Workers, DeleteGroupDoc(w) PROVE ControlInv'
  <2>1. JobOK(job[w])'
    BY <1>1, <1>10, ProvisioningAssumption
       DEF JobInv, DeleteGroupDoc, JobOK, JobFields, Storing, Deriving, OnSlice, Looping, Finishing
  <2> QED
    BY <1>1, <1>10, <2>1, OneWorker
       DEF ControlInv, JobInv, LockInv, DeleteGroupDoc, JobOK, JobFields, Inside, store, OnSlice,
           Storing, Finishing
<1>11. ASSUME NEW w \in Workers, DeleteAuth(w) PROVE ControlInv'
  <2>1. JobOK(job[w])'
    BY <1>1, <1>11, ProvisioningAssumption
       DEF JobInv, DeleteAuth, JobOK, JobFields, Storing, Deriving, OnSlice, Looping, Finishing
  <2> QED
    BY <1>1, <1>11, <2>1, OneWorker
       DEF ControlInv, JobInv, LockInv, DeleteAuth, JobOK, JobFields, Inside, store, OnSlice,
           Storing, Finishing
<1>12. ASSUME NEW w \in Workers, Exists(w) PROVE ControlInv'
  <2>1. JobOK(job[w])'
    BY <1>1, <1>12, ProvisioningAssumption
       DEF JobInv, Exists, JobOK, JobFields, Storing, Deriving, OnSlice, Looping
  <2> QED
    BY <1>1, <1>12, <2>1, OneWorker
       DEF ControlInv, JobInv, LockInv, Exists, JobOK, JobFields, Inside, store, OnSlice,
           Storing
<1>13. ASSUME NEW w \in Workers, Store(w) PROVE ControlInv'
  <2>1. JobOK(job[w])'
    BY <1>1, <1>13, ProvisioningAssumption
       DEF JobInv, Store, JobOK, JobFields, Storing, Deriving, OnSlice, Looping
  <2> QED
    BY <1>1, <1>13, <2>1, OneWorker
       DEF ControlInv, JobInv, LockInv, Store, JobOK, JobFields, Inside, store, OnSlice,
           Storing
<1>14. ASSUME NEW w \in Workers, End(w) PROVE ControlInv'
  <2>1. JobOK(job[w])'
    BY <1>1, <1>14, ProvisioningAssumption
       DEF JobInv, End, JobOK, JobFields, Storing, Deriving, OnSlice, Looping, Idle
  <2> QED
    BY <1>1, <1>14, <2>1, OneWorker
       DEF ControlInv, JobInv, LockInv, End, JobOK, JobFields, Inside, store, OnSlice,
           Storing, Idle
<1>15. ASSUME NEW w \in Workers, ReadPrevFails(w) PROVE ControlInv'
  <2>1. JobOK(job[w])'
    BY <1>1, <1>15, ProvisioningAssumption
       DEF JobInv, ReadPrevFails, JobOK, JobFields, Storing, Deriving, OnSlice, Looping
  <2>2. /\ DOMAIN job' = Workers /\ \A v \in Workers \ {w} : job'[v] = job[v]
        /\ job'[w].pc \in Inside <=> job[w].pc \in Inside
        /\ rwLock' = rwLock /\ slices' = slices
    BY <1>1, <1>15 DEF ReadPrevFails, JobOK, JobFields, Inside, store
  <2> QED
    BY <1>1, <2>1, <2>2, OneWorker DEF JobInv
<1>16. ASSUME NEW w \in Workers, CallFails(w) PROVE ControlInv'
  <2>1. JobOK(job[w])'
    BY <1>1, <1>16, ProvisioningAssumption
       DEF JobInv, CallFails, JobOK, JobFields, Storing, Deriving, OnSlice, Looping, Finishing
  <2> QED
    BY <1>1, <1>16, <2>1, OneWorker
       DEF ControlInv, JobInv, LockInv, CallFails, JobOK, JobFields, Inside, store, OnSlice,
           Storing, Finishing
<1>17. ASSUME NEW w \in Workers, ReadFails(w) PROVE ControlInv'
  <2>1. slices' = slices
    BY <1>17 DEF ReadFails, store
  <2> QED
    BY <1>1, <1>17, <2>1, ReadFailsJob, OneWorker DEF JobInv, Inside
<1>18. ASSUME NEW w \in Workers, ReadGroup(w) PROVE ControlInv'
  <2>1. JobOK(job[w])'
    BY <1>1, <1>18, ProvisioningAssumption
       DEF JobInv, ReadGroup, JobOK, JobFields, Storing, Deriving, OnSlice, Looping, Extent
  <2> QED
    BY <1>18, <2>1, ReadGroupCtl
<1>19. ASSUME NEW w \in Workers, CheckAuth(w) PROVE ControlInv'
  <2>1. JobOK(job[w])'
    BY <1>1, <1>19, ProvisioningAssumption
       DEF JobInv, CheckAuth, JobOK, JobFields, Storing, Deriving, OnSlice, Looping
  <2> QED
    BY <1>19, <2>1, CheckAuthCtl
<1>20. ASSUME NEW w \in Workers, WriteDoc(w) PROVE ControlInv'
  <2>1. JobOK(job[w])'
    BY <1>1, <1>20, ProvisioningAssumption
       DEF JobInv, WriteDoc, JobOK, JobFields, Storing, Deriving, OnSlice, Looping, Stopped
  <2> QED
    BY <1>20, <2>1, WriteDocCtl
<1>21. ASSUME NEW w \in Workers, LockGroup(w) PROVE ControlInv'
  BY <1>1, <1>21, LockGroupJob, LockGroupCtl
<1>22. ASSUME NEW w \in Workers, WriteFails(w) PROVE ControlInv'
  BY <1>1, <1>22, WriteFailsJob, WriteFailsCtl
<1>23. ASSUME NEW w \in Workers, LockSlice(w) PROVE ControlInv'
  <2>1. JobOK(job[w])'
    BY <1>1, <1>23, LockSliceJob
  <2> QED
    BY <1>1, <1>23, <2>1, OneWorker
       DEF ControlInv, JobInv, LockInv, LockSlice, JobOK, JobFields, Inside, store
<1>24. ASSUME NEW w \in Workers, NextDoc(w) PROVE ControlInv'
  <2>1. JobOK(job[w])'
    BY <1>1, <1>24, NextDocJob
  <2> QED
    BY <1>1, <1>24, <2>1, OneWorker
       DEF ControlInv, JobInv, LockInv, NextDoc, JobOK, JobFields, Inside, store
<1>25. ASSUME NEW w \in Workers, Arrive(w) PROVE ControlInv'
  BY <1>25, ArriveStep, BeginStep
<1>28. ASSUME NEW w \in Workers, Find(w) PROVE ControlInv'
  <2>1. JobOK(job[w])'
    BY <1>1, <1>28, ProvisioningAssumption
       DEF JobInv, Find, JobOK, JobFields, Storing, Deriving, OnSlice, Looping
  <2>2. /\ DOMAIN job' = Workers /\ \A v \in Workers \ {w} : job'[v] = job[v]
        /\ job'[w].pc = job[w].pc /\ rwLock' = rwLock /\ slices' = slices
    BY <1>1, <1>28 DEF Find, JobOK, JobFields, store
  <2> QED
    BY <1>1, <2>1, <2>2, OneWorker DEF JobInv
<1>29. ASSUME NEW w \in Workers, DeleteSliceDoc(w) PROVE ControlInv'
  <2>1. JobOK(job[w])'
    BY <1>1, <1>29, ProvisioningAssumption
       DEF JobInv, DeleteSliceDoc, JobOK, JobFields, Storing, Deriving, OnSlice, Looping
  <2>2. /\ DOMAIN job' = Workers /\ \A v \in Workers \ {w} : job'[v] = job[v]
        /\ job'[w].pc = "lock" /\ job[w].pc = "post" /\ rwLock' = rwLock
    BY <1>1, <1>29 DEF DeleteSliceDoc, JobOK, JobFields
  <2>3. \E d \in SliceLike : slices' = [slices EXCEPT ![job[w].name] = d]
    BY <1>29 DEF DeleteSliceDoc, Extra, ExtraInv, SliceLike
  <2> QED
    BY <1>1, <2>1, <2>2, <2>3, OneWorker DEF JobInv, Inside
<1>26. CASE Restart
  BY <1>26, RestartCtl
<1>27. CASE UNCHANGED vars
  BY <1>27 DEF vars, ControlInv, JobInv, LockInv, JobOK, Storing, Deriving, OnSlice, Looping
<1> QED
    BY <1>2, <1>3, <1>4, <1>5, <1>6, <1>7, <1>8, <1>9, <1>10, <1>11, <1>12,
     <1>13, <1>14, <1>15, <1>16, <1>17, <1>18, <1>19, <1>20, <1>21, <1>22,
     <1>23, <1>24, <1>25, <1>26, <1>27, <1>28, <1>29
     DEF Next, Locks, Proceed, Fails

(* However many handlers there are and whatever fails, exactly the holder of
   rwLock is at a step that derives or removes documents.                     *)
THEOREM MutualExclusion == Spec => []LockInv
<1>1. ControlInv => LockInv
  BY DEF ControlInv
<1> QED
  BY <1>1, InitCtl, ControlStep, ExtraKept, PTL DEF Spec

-----------------------------------------------------------------------------
(* The documents. *)

LEMMA DerivedValues ==
    /\ DOMAIN Derived = 1..5
    /\ Derived[1] = "amPolicy" /\ Derived[2] = "smPolicy" /\ Derived[3] = "amData"
    /\ Derived[4] = "smData" /\ Derived[5] = "smfSel"
BY DEF Derived

(* The documents other than AM data, which no conjunct of DocsInv is about. *)
Unchanged(d) == d \in docs' <=> d \in docs

(* The documents after the upsert of one, and after the removal of those of an
   IMSI, when none is stored twice.                                           *)
Upserted(c, i, p) ==
    (IF c = "amData" THEN docs \ {<<c, i, None>>} ELSE docs) \union {Key(c, i, p)}
Removed(i, p) == docs \ KeysOf(i, p)

(* AM data apart, the documents are D after the step. *)
Then(D) == \A d : d[1] # "amData" => (d \in docs' <=> d \in D)

(* A step that writes no document but AM data and no worker's place in the five. *)
LEMMA Undisturbed ==
    ASSUME DocsInv, broken' = broken,
           \A v \in Workers :
              /\ job'[v].cur = job[v].cur
              /\ job[v].cur # None => job'[v].k = job[v].k /\ job'[v].plmn = job[v].plmn,
           \A c \in {"amPolicy", "smPolicy", "smData", "smfSel"} : \A i, p :
              Unchanged(<<c, i, p>>),
           None \notin Imsis
    PROVE  DocsInv'
<1>1. \A c \in {"amPolicy", "smPolicy", "smData", "smfSel"} : \A i, p : Has(c, i, p)' <=> Has(c, i, p)
  BY DEF Has, Key, Unchanged
<1>2. \A i : Together(i)' <=> Together(i)
  BY <1>1 DEF Together
<1>3. \A i, k, p : Partial(i, k, p)' <=> Partial(i, k, p)
  BY <1>1 DEF Partial
<1> QED
  BY <1>2, <1>3 DEF DocsInv

(* The documents of one IMSI are not those of another. *)
LEMMA OtherImsi ==
    ASSUME NEW i, NEW e, e # i, Together(e),
           \A c \in {"amPolicy", "smPolicy", "smData", "smfSel"} : \A p : Unchanged(<<c, e, p>>)
    PROVE  Together(e)'
BY DEF Together, Has, Key, Unchanged

LEMMA RemovedKeys ==
    ASSUME NEW i, NEW p
    PROVE  Removed(i, p) = docs \ {<<"amPolicy", i, None>>, <<"smPolicy", i, None>>,
                                   <<"amData", i, p>>, <<"smData", i, p>>, <<"smfSel", i, p>>}
<1>1. {Key(Derived[k], i, p) : k \in DOMAIN Derived} =
         {<<"amPolicy", i, None>>, <<"smPolicy", i, None>>,
          <<"amData", i, p>>, <<"smData", i, p>>, <<"smfSel", i, p>>}
  <2>1. DOMAIN Derived = {1, 2, 3, 4, 5}
    BY DerivedValues
  <2> QED
    BY <2>1, DerivedValues DEF Key
<1> QED
  BY <1>1 DEF Removed, KeysOf

LEMMA RemovedTogether ==
    ASSUME NEW i, NEW p, NEW e, Together(e), Then(Removed(i, p))
    PROVE  Together(e)'
<1> USE DEF Then
<1>1. CASE e # i
  <2>1. \A c \in {"amPolicy", "smPolicy", "smData", "smfSel"} : \A q : Unchanged(<<c, e, q>>)
    BY <1>1, RemovedKeys DEF Unchanged
  <2> QED
    BY <1>1, <2>1, OtherImsi
<1>2. CASE e = i
  <2>1. ~Has("amPolicy", e, None)' /\ ~Has("smPolicy", e, None)'
    BY <1>2, RemovedKeys DEF Has, Key
  <2>2. ASSUME NEW q \in Plmns PROVE Has("smData", e, q)' <=> Has("smfSel", e, q)'
    BY <1>2, RemovedKeys DEF Has, Key, Together
  <2> QED
    BY <2>1, <2>2 DEF Together
<1> QED
  BY <1>1, <1>2

(* Writing one document takes the IMSI being written one step further. *)
LEMMA UpsertedPartial ==
    ASSUME NEW i, NEW p \in Plmns, NEW k \in 1..4, Partial(i, k, p),
           Then(Upserted(Derived[k], i, p))
    PROVE  Partial(i, k + 1, p)'
<1> USE DerivedValues DEF Has, Key, Upserted, Then
<1>1. CASE k = 1
  BY <1>1 DEF Partial
<1>2. CASE k = 2
  BY <1>2 DEF Partial
<1>3. CASE k = 3
  BY <1>3 DEF Partial
<1>4. CASE k = 4
  BY <1>4 DEF Partial
<1> QED
  BY <1>1, <1>2, <1>3, <1>4

LEMMA UpsertedTogether ==
    ASSUME NEW i, NEW p \in Plmns, Partial(i, 5, p), Then(Upserted(Derived[5], i, p))
    PROVE  Together(i)'
BY DerivedValues DEF Has, Key, Upserted, Then, Partial, Together

LEMMA UpsertedOther ==
    ASSUME NEW i, NEW p, NEW k \in 1..5, Then(Upserted(Derived[k], i, p)),
           NEW e, e # i, Together(e)
    PROVE  Together(e)'
<1>1. \A c \in {"amPolicy", "smPolicy", "smData", "smfSel"} : \A q : Unchanged(<<c, e, q>>)
  BY DerivedValues DEF Upserted, Then, Key, Unchanged
<1> QED
  BY <1>1, OtherImsi

(* A worker's place in the five documents of an IMSI stays the same. *)
Stays(v) == /\ job'[v].cur = job[v].cur
            /\ job[v].cur # None => job'[v].k = job[v].k /\ job'[v].plmn = job[v].plmn

LEMMA ReadPrevDocs == ASSUME JobInv, NEW w \in Workers, ReadPrev(w)
  PROVE  /\ \A v \in Workers : Stays(v)
         /\ docs' = docs /\ broken' = broken
<1>1. JobOK(job[w]) /\ DOMAIN job = Workers
  BY DEF JobInv
<1>2. \A v \in Workers \ {w} : Stays(v)
  BY <1>1 DEF ReadPrev, Stays
<1>3. Stays(w)
  BY <1>1 DEF ReadPrev, Stays, JobOK, JobFields, Deriving
<1> QED
  BY <1>2, <1>3 DEF ReadPrev, store, history

LEMMA PostDocs == ASSUME JobInv, NEW w \in Workers, Post(w)
  PROVE  /\ \A v \in Workers : Stays(v)
         /\ docs' = docs /\ broken' = broken
<1>1. JobOK(job[w]) /\ DOMAIN job = Workers
  BY DEF JobInv
<1>2. \A v \in Workers \ {w} : Stays(v)
  BY <1>1 DEF Post, Stays
<1>3. Stays(w)
  BY <1>1 DEF Post, Stays, JobOK, JobFields, Deriving
<1> QED
  BY <1>2, <1>3 DEF Post, store, history

LEMMA FindDocs == ASSUME JobInv, NEW w \in Workers, Find(w)
  PROVE  /\ \A v \in Workers : Stays(v)
         /\ docs' = docs /\ broken' = broken
<1>1. JobOK(job[w]) /\ DOMAIN job = Workers
  BY DEF JobInv
<1>2. \A v \in Workers \ {w} : Stays(v)
  BY <1>1 DEF Find, Stays
<1>3. Stays(w)
  BY <1>1 DEF Find, Stays, JobOK, JobFields, Deriving
<1> QED
  BY <1>2, <1>3 DEF Find, store, history

LEMMA DeleteSliceDocDocs == ASSUME JobInv, NEW w \in Workers, DeleteSliceDoc(w)
  PROVE  /\ \A v \in Workers : Stays(v)
         /\ docs' = docs /\ broken' = broken
<1>1. JobOK(job[w]) /\ DOMAIN job = Workers
  BY DEF JobInv
<1>2. \A v \in Workers \ {w} : Stays(v)
  BY <1>1 DEF DeleteSliceDoc, Stays
<1>3. Stays(w)
  BY <1>1 DEF DeleteSliceDoc, Stays, JobOK, JobFields, Deriving
<1> QED
  BY <1>2, <1>3 DEF DeleteSliceDoc, store, history

LEMMA LockSliceDocs == ASSUME JobInv, NEW w \in Workers, LockSlice(w)
  PROVE  /\ \A v \in Workers : Stays(v)
         /\ docs' = docs /\ broken' = broken
<1>1. JobOK(job[w]) /\ DOMAIN job = Workers
  BY DEF JobInv
<1>2. \A v \in Workers \ {w} : Stays(v)
  BY <1>1 DEF LockSlice, Stays
<1>3. Stays(w)
  BY <1>1 DEF LockSlice, Stays, JobOK, JobFields, Deriving
<1> QED
  BY <1>2, <1>3 DEF LockSlice, store, history

LEMMA LockGroupDocs == ASSUME JobInv, NEW w \in Workers, LockGroup(w)
  PROVE  /\ \A v \in Workers : Stays(v)
         /\ docs' = docs /\ broken' = broken
<1>1. JobOK(job[w]) /\ DOMAIN job = Workers
  BY DEF JobInv
<1>2. \A v \in Workers \ {w} : job'[v] = job[v]
  BY <1>1 DEF LockGroup
<1>3. job[w].cur = None
  BY <1>1 DEF LockGroup, JobOK, Deriving
<1>4. job'[w].cur = None
  <2>1. ASSUME NEW d, job' = [job EXCEPT ![w].pc = "derive", ![w].plmn = d[2].plmn,
                                         ![w].imsis = job[w].new.imsis,
                                         ![w].extent = Extent(job[w], job[w].new.kind)]
        PROVE  job'[w].cur = None
    BY <1>1, <1>3, <2>1 DEF JobOK, JobFields
  <2>2. ASSUME \/ job' = [job EXCEPT ![w].pc = "unlock"]
               \/ job' = [job EXCEPT ![w].pc = "unlock", ![w].err = TRUE]
        PROVE  job'[w].cur = None
    BY <1>1, <1>3, <2>2 DEF JobOK, JobFields
  <2> QED
    BY <2>1, <2>2 DEF LockGroup
<1> QED
  BY <1>2, <1>3, <1>4 DEF LockGroup, Stays, store, history

LEMMA ReadGroupDocs == ASSUME JobInv, NEW w \in Workers, ReadGroup(w)
  PROVE  /\ \A v \in Workers : Stays(v)
         /\ docs' = docs /\ broken' = broken
<1>1. JobOK(job[w]) /\ DOMAIN job = Workers
  BY DEF JobInv
<1>2. \A v \in Workers \ {w} : Stays(v)
  BY <1>1 DEF ReadGroup, Stays
<1>3. Stays(w)
  BY <1>1 DEF ReadGroup, Stays, JobOK, JobFields, Deriving
<1> QED
  BY <1>2, <1>3 DEF ReadGroup, store, history

LEMMA StartCleanupDocs == ASSUME JobInv, NEW w \in Workers, StartCleanup(w)
  PROVE  /\ \A v \in Workers : Stays(v)
         /\ docs' = docs /\ broken' = broken
<1>1. JobOK(job[w]) /\ DOMAIN job = Workers
  BY DEF JobInv
<1>2. \A v \in Workers \ {w} : Stays(v)
  BY <1>1 DEF StartCleanup, Stays
<1>3. Stays(w)
  BY <1>1 DEF StartCleanup, Stays, JobOK, JobFields, Deriving
<1> QED
  BY <1>2, <1>3 DEF StartCleanup, store, history

LEMMA CleanGroupDocs == ASSUME JobInv, NEW w \in Workers, CleanGroup(w)
  PROVE  /\ \A v \in Workers : Stays(v)
         /\ docs' = docs /\ broken' = broken
<1>1. JobOK(job[w]) /\ DOMAIN job = Workers
  BY DEF JobInv
<1>2. \A v \in Workers \ {w} : Stays(v)
  BY <1>1 DEF CleanGroup, Stays
<1>3. Stays(w)
  BY <1>1 DEF CleanGroup, Stays, JobOK, JobFields, Deriving
<1> QED
  BY <1>2, <1>3 DEF CleanGroup, store, history

LEMMA UnlockDocs == ASSUME JobInv, NEW w \in Workers, Unlock(w)
  PROVE  /\ \A v \in Workers : Stays(v)
         /\ docs' = docs /\ broken' = broken
<1>1. JobOK(job[w]) /\ DOMAIN job = Workers
  BY DEF JobInv
<1>2. \A v \in Workers \ {w} : Stays(v)
  BY <1>1 DEF Unlock, Stays
<1>3. Stays(w)
  BY <1>1 DEF Unlock, Stays, JobOK, JobFields, Deriving
<1> QED
  BY <1>2, <1>3 DEF Unlock, store, history

LEMMA ListDocs == ASSUME JobInv, NEW w \in Workers, List(w)
  PROVE  /\ \A v \in Workers : Stays(v)
         /\ docs' = docs /\ broken' = broken
<1>1. JobOK(job[w]) /\ DOMAIN job = Workers
  BY DEF JobInv
<1>2. \A v \in Workers \ {w} : Stays(v)
  BY <1>1 DEF List, Stays
<1>3. Stays(w)
  BY <1>1 DEF List, Stays, JobOK, JobFields, Deriving
<1> QED
  BY <1>2, <1>3 DEF List, store, history

LEMMA NextDocDocs == ASSUME JobInv, NEW w \in Workers, NextDoc(w)
  PROVE  /\ \A v \in Workers : Stays(v)
         /\ docs' = docs /\ broken' = broken
<1>1. JobOK(job[w]) /\ DOMAIN job = Workers
  BY DEF JobInv
<1>2. \A v \in Workers \ {w} : Stays(v)
  BY <1>1 DEF NextDoc, Stays
<1>3. Stays(w)
  BY <1>1 DEF NextDoc, Stays, JobOK, JobFields, Deriving
<1> QED
  BY <1>2, <1>3 DEF NextDoc, store, history

LEMMA GiveUpDocs == ASSUME JobInv, NEW w \in Workers, GiveUp(w)
  PROVE  /\ \A v \in Workers : Stays(v)
         /\ docs' = docs /\ broken' = broken
<1>1. JobOK(job[w]) /\ DOMAIN job = Workers
  BY DEF JobInv
<1>2. \A v \in Workers \ {w} : Stays(v)
  BY <1>1 DEF GiveUp, Stays
<1>3. Stays(w)
  BY <1>1 DEF GiveUp, Stays, JobOK, JobFields, Deriving
<1> QED
  BY <1>2, <1>3 DEF GiveUp, store, history

LEMMA DeleteGroupDocDocs == ASSUME JobInv, NEW w \in Workers, DeleteGroupDoc(w)
  PROVE  /\ \A v \in Workers : Stays(v)
         /\ docs' = docs /\ broken' = broken
<1>1. JobOK(job[w]) /\ DOMAIN job = Workers
  BY DEF JobInv
<1>2. \A v \in Workers \ {w} : Stays(v)
  BY <1>1 DEF DeleteGroupDoc, Stays
<1>3. Stays(w)
  BY <1>1 DEF DeleteGroupDoc, Stays, JobOK, JobFields, Deriving, Finishing
<1> QED
  BY <1>2, <1>3 DEF DeleteGroupDoc, store, history

LEMMA ExistsDocs == ASSUME JobInv, NEW w \in Workers, Exists(w)
  PROVE  /\ \A v \in Workers : Stays(v)
         /\ docs' = docs /\ broken' = broken
<1>1. JobOK(job[w]) /\ DOMAIN job = Workers
  BY DEF JobInv
<1>2. \A v \in Workers \ {w} : Stays(v)
  BY <1>1 DEF Exists, Stays
<1>3. Stays(w)
  BY <1>1 DEF Exists, Stays, JobOK, JobFields, Deriving
<1> QED
  BY <1>2, <1>3 DEF Exists, store, history

LEMMA EndDocs == ASSUME JobInv, NEW w \in Workers, End(w)
  PROVE  /\ \A v \in Workers : Stays(v)
         /\ docs' = docs /\ broken' = broken
<1>1. JobOK(job[w]) /\ DOMAIN job = Workers
  BY DEF JobInv
<1>2. \A v \in Workers \ {w} : Stays(v)
  BY <1>1 DEF End, Stays
<1>3. Stays(w)
  BY <1>1 DEF End, Stays, JobOK, JobFields, Deriving, Idle
<1> QED
  BY <1>2, <1>3 DEF End, store, history

LEMMA ReadPrevFailsDocs == ASSUME JobInv, NEW w \in Workers, ReadPrevFails(w)
  PROVE  /\ \A v \in Workers : Stays(v)
         /\ docs' = docs /\ broken' = broken
<1>1. JobOK(job[w]) /\ DOMAIN job = Workers
  BY DEF JobInv
<1>2. \A v \in Workers \ {w} : Stays(v)
  BY <1>1 DEF ReadPrevFails, Stays
<1>3. Stays(w)
  BY <1>1 DEF ReadPrevFails, Stays, JobOK, JobFields, Deriving
<1> QED
  BY <1>2, <1>3 DEF ReadPrevFails, store, history

LEMMA CallFailsDocs == ASSUME JobInv, NEW w \in Workers, CallFails(w)
  PROVE  /\ \A v \in Workers : Stays(v)
         /\ docs' = docs /\ broken' = broken
<1>1. JobOK(job[w]) /\ DOMAIN job = Workers
  BY DEF JobInv
<1>2. \A v \in Workers \ {w} : Stays(v)
  BY <1>1 DEF CallFails, Stays
<1>3. Stays(w)
  BY <1>1 DEF CallFails, Stays, JobOK, JobFields, Deriving, Finishing
<1> QED
  BY <1>2, <1>3 DEF CallFails, store, history

LEMMA ReadFailsDocs == ASSUME JobInv, NEW w \in Workers, ReadFails(w)
  PROVE  /\ \A v \in Workers : Stays(v)
         /\ docs' = docs /\ broken' = broken
<1>1. JobOK(job[w]) /\ DOMAIN job = Workers
  BY DEF JobInv
<1>2. \A v \in Workers \ {w} : Stays(v)
  BY <1>1 DEF ReadFails, Stays
<1>3. Stays(w)
  BY <1>1, ReadFailsJob DEF Stays
<1> QED
  BY <1>2, <1>3 DEF ReadFails, store, history

(* Requests begin with no place. *)
LEMMA ArriveDocs == ASSUME JobInv, NEW w \in Workers, Arrive(w)
  PROVE  /\ \A v \in Workers : Stays(v)
         /\ docs' = docs /\ broken' = broken
<1>1. \A v \in Workers : JobOK(job[v])
  BY DEF JobInv
<1>2. PICK j : Begin(w, j) /\ JobOK(j) /\ j.cur = None
  BY ArriveStep
<1>3. job[w].cur = None
  BY <1>1, <1>2 DEF Begin, JobOK, Deriving
<1>4. PICK a : job' = [v \in Workers |-> IF v = w THEN [j EXCEPT !.alone = a]
                                         ELSE [job[v] EXCEPT !.alone = FALSE]]
  BY <1>2 DEF Begin
<1>5. Stays(w)
  BY ZenonT(60), <1>2, <1>3, <1>4, AloneOK DEF Stays
<1>6. \A v \in Workers \ {w} : Stays(v)
  BY <1>1, <1>4, AloneOK DEF Stays
<1> QED
  BY <1>2, <1>5, <1>6 DEF Begin, store

(* Subscribers are stored and deleted without rwLock, and touch AM data only. *)
LEMMA SubscriberDocs == ASSUME JobInv, NEW w \in Workers, DeleteAuth(w) \/ Store(w)
  PROVE  /\ \A v \in Workers : Stays(v)
         /\ broken' = broken
         /\ \A d : d[1] # "amData" => Unchanged(d)
<1>1. JobOK(job[w]) /\ DOMAIN job = Workers
  BY DEF JobInv
<1>2. \A v \in Workers \ {w} : Stays(v)
  BY <1>1 DEF DeleteAuth, Store, Stays
<1>3. Stays(w)
  BY <1>1 DEF DeleteAuth, Finishing, Store, Stays, JobOK, JobFields, Deriving
<1>4. \A d : d[1] # "amData" => Unchanged(d)
  <2>1. ASSUME NEW e \in AmData(job[w].arg), docs' = Without({e}), NEW d, d[1] # "amData"
        PROVE  Unchanged(d)
    BY <2>1 DEF AmData, Without, Unchanged
  <2>2. CASE DeleteAuth(w)
    BY <2>1, <2>2 DEF DeleteAuth, Unchanged
  <2>3. CASE Store(w)
    <3>1. docs' \subseteq docs \union {<<"amData", job[w].arg, None>>} /\ docs \subseteq docs'
      BY <2>3 DEF Store
    <3> QED
      BY <3>1 DEF Unchanged
  <2> QED
    BY <2>2, <2>3
<1> QED
  BY <1>2, <1>3, <1>4 DEF DeleteAuth, Store, history

(* While a worker is at a step under rwLock, no other has a place. *)
LEMMA OneWriter ==
    ASSUME ControlInv, NEW w \in Workers, job[w].pc \in Inside, NEW v \in Workers \ {w}
    PROVE  job[v].cur = None
<1>1. job[v].pc \notin Inside
  BY DEF ControlInv, LockInv
<1> QED
  BY <1>1 DEF ControlInv, JobInv, JobOK, Deriving, Inside

LEMMA CheckAuthDocs ==
    ASSUME ControlInv, DocsInv, NEW w \in Workers, CheckAuth(w) PROVE DocsInv'
<1>1. JobOK(job[w]) /\ DOMAIN job = Workers
  BY DEF ControlInv, JobInv
<1>2. job[w].cur = None /\ job[w].pc = "derive" /\ docs' = docs /\ broken' = broken
  BY DEF CheckAuth, store, history
<1>3. \A v \in Workers \ {w} : job[v].cur = None /\ job'[v] = job[v]
  BY <1>1, <1>2, OneWriter DEF CheckAuth, Inside
<1>4. job'[w].cur # None => job'[w].k = 1
  BY <1>1 DEF CheckAuth, JobOK, JobFields
<1>5. \A i : Together(i)' <=> Together(i)
  BY <1>2 DEF Together, Has
<1>6. \A i, p : Together(i) => Partial(i, 1, p)'
  BY <1>2 DEF Together, Partial, Has
<1>7. ~broken => \A i \in Imsis : Together(i)
  BY <1>2, <1>3, ProvisioningAssumption DEF DocsInv
<1> QED
  BY <1>2, <1>3, <1>4, <1>5, <1>6, <1>7, ProvisioningAssumption DEF DocsInv

LEMMA UpsertThen ==
    ASSUME NEW w \in Workers, WriteDoc(w)
    PROVE  Then(Upserted(Derived[job[w].k], job[w].cur, job[w].plmn))
<1> DEFINE j == job[w]
<1>1. CASE Derived[j.k] # "amData"
  BY <1>1 DEF WriteDoc, Upsert, Upserted, Then
<1>2. CASE Derived[j.k] = "amData"
  <2>1. InsertAmData(j.cur, j.plmn) \/ UpdateAmData(j.cur, j.plmn)
    BY <1>2 DEF WriteDoc, Upsert
  <2>2. \A d : d[1] # "amData" => Unchanged(d)
    BY <2>1 DEF InsertAmData, UpdateAmData, Without, Unchanged
  <2> QED
    BY <1>2, <2>2 DEF Upserted, Then, Unchanged, Key
<1> QED
  BY <1>1, <1>2

LEMMA WriteDocDocs ==
    ASSUME ControlInv, DocsInv, NEW w \in Workers, WriteDoc(w) PROVE DocsInv'
<1> DEFINE j == job[w]
<1>1. JobOK(j) /\ DOMAIN job = Workers
  BY DEF ControlInv, JobInv
<1>2. j.pc = "derive" /\ j.extent \in {3, 5} /\ j.k \in 1..j.extent /\ j.plmn \in Plmns
  BY <1>1 DEF WriteDoc, JobOK, Deriving
<1>3. \A v \in Workers \ {w} : job[v].cur = None /\ job'[v] = job[v]
  BY <1>1, <1>2, OneWriter DEF WriteDoc, Inside
<1>4. Then(Upserted(Derived[j.k], j.cur, j.plmn))
  BY UpsertThen
<1>5. SUFFICES ASSUME ~broken' PROVE DocsInv'
  BY DEF DocsInv
<1>6. ~broken /\ (j.k = j.extent => j.extent = 5)
  <2>1. broken' = (broken \/ (j.k = j.extent /\ j.extent < 5))
    BY DEF WriteDoc
  <2>2. ~broken /\ ~(j.k = j.extent /\ j.extent < 5)
    BY <1>5, <2>1, Zenon
  <2> QED
    BY <1>2, <2>2
<1>7. PICK i, k, p : i = j.cur /\ k = j.k /\ p = j.plmn
  OBVIOUS
<1>8. i \in Imsis => Partial(i, k, p)
  BY <1>6, <1>7 DEF DocsInv
<1>9. \A e \in Imsis : e # i => Together(e)'
  <2>1. \A e \in Imsis : e # i => Together(e)
    BY <1>3, <1>6, <1>7, ProvisioningAssumption DEF DocsInv
  <2>2. k \in 1..5 /\ Then(Upserted(Derived[k], i, p))
    BY <1>2, <1>4, <1>7
  <2> QED
    BY <2>1, <2>2, UpsertedOther
<1>10. CASE j.k # j.extent
  <2>1. job'[w].cur = i /\ job'[w].k = k + 1 /\ job'[w].plmn = p
    BY <1>1, <1>7, <1>10 DEF WriteDoc, JobOK, JobFields
  <2>2. k \in 1..4 /\ p \in Plmns /\ Then(Upserted(Derived[k], i, p))
    BY <1>2, <1>4, <1>7, <1>10
  <2>3. i \in Imsis => Partial(i, k + 1, p)'
    BY <1>8, <2>2, UpsertedPartial
  <2> QED
    BY <1>3, <1>9, <2>1, <2>3, ProvisioningAssumption DEF DocsInv
<1>11. CASE j.k = j.extent
  <2>1. k = 5 /\ p \in Plmns /\ Then(Upserted(Derived[k], i, p))
    BY <1>2, <1>4, <1>6, <1>7, <1>11
  <2>2. job'[w].cur = None
    BY <1>1, <1>6, <1>11 DEF WriteDoc, JobOK, JobFields
  <2>3. i \in Imsis => Together(i)'
    BY <1>8, <2>1, UpsertedTogether
  <2> QED
    BY <1>3, <1>9, <2>2, <2>3, ProvisioningAssumption DEF DocsInv
<1> QED
  BY <1>10, <1>11

LEMMA RemoveDocs ==
    ASSUME ControlInv, ExtraInv, DocsInv, NEW w \in Workers, Remove(w) PROVE DocsInv'
<1>1. JobOK(job[w]) /\ DOMAIN job = Workers
  BY DEF ControlInv, JobInv
<1>2. job[w].pc = "cleanup" /\ broken' = broken
  BY DEF Remove, history
<1>3. PICK i : Then(Removed(i, job[w].plmn))
  <2>1. PICK i : docs' = Without(KeysOf(i, job[w].plmn))
    BY DEF Remove
  <2> DEFINE keys == KeysOf(i, job[w].plmn)
  <2>2. \A d \in keys : d[1] # "amData" => d \notin DOMAIN extra
    <3>1. \A d \in keys : d[1] \in {"amPolicy", "smPolicy", "amData", "smData", "smfSel"}
      BY DEF KeysOf, Key, Derived
    <3> QED
      BY <3>1 DEF ExtraInv
  <2>3. \A d : d[1] # "amData" => (d \in docs' <=> d \in docs \ keys)
    BY <2>1, <2>2 DEF Without
  <2> QED
    BY <2>3 DEF Then, Removed
<1>4. \A v \in Workers \ {w} : job[v].cur = None /\ job'[v] = job[v]
  BY <1>1, <1>2, OneWriter DEF Remove, Inside
<1>5. job[w].cur = None /\ job'[w].cur = None
  BY <1>1, <1>2 DEF Remove, JobOK, JobFields, Deriving
<1>6. ~broken => \A e \in Imsis : Together(e)
  BY <1>4, <1>5, ProvisioningAssumption DEF DocsInv
<1>7. ~broken => \A e \in Imsis : Together(e)'
  BY <1>3, <1>6, RemovedTogether
<1> QED
  BY <1>2, <1>4, <1>5, <1>7, ProvisioningAssumption DEF DocsInv

LEMMA DocsStep == ControlInv /\ ExtraInv /\ DocsInv /\ [Next]_vars => DocsInv'
<1> SUFFICES ASSUME ControlInv, ExtraInv, DocsInv, [Next]_vars PROVE DocsInv'
  OBVIOUS
<1>1. JobInv /\ None \notin Imsis
  BY ProvisioningAssumption DEF ControlInv
<1>2. ASSUME \A v \in Workers : Stays(v), docs' = docs, broken' = broken PROVE DocsInv'
  BY <1>1, <1>2, Undisturbed DEF Stays, Unchanged
<1>3. ASSUME NEW w \in Workers,
             \/ Arrive(w) \/ LockSlice(w) \/ LockGroup(w) \/ DeleteGroupDoc(w)
             \/ ReadPrev(w) \/ Post(w) \/ ReadGroup(w) \/ StartCleanup(w)
             \/ CleanGroup(w) \/ Unlock(w) \/ List(w) \/ NextDoc(w) \/ GiveUp(w)
             \/ Exists(w) \/ End(w) \/ ReadPrevFails(w) \/ CallFails(w) \/ ReadFails(w)
             \/ Find(w) \/ DeleteSliceDoc(w)
      PROVE  DocsInv'
  <2>1. /\ \A v \in Workers : Stays(v)
        /\ docs' = docs /\ broken' = broken
    BY <1>1, <1>3, ArriveDocs, LockSliceDocs, LockGroupDocs, DeleteGroupDocDocs,
       ReadPrevDocs, PostDocs, ReadGroupDocs, StartCleanupDocs, CleanGroupDocs,
       UnlockDocs, ListDocs, NextDocDocs, GiveUpDocs, ExistsDocs, EndDocs,
       ReadPrevFailsDocs, CallFailsDocs, ReadFailsDocs, FindDocs, DeleteSliceDocDocs
  <2> QED
    BY <1>2, <2>1
<1>4. ASSUME NEW w \in Workers, DeleteAuth(w) \/ Store(w) PROVE DocsInv'
  <2>1. /\ \A v \in Workers : Stays(v)
        /\ broken' = broken
        /\ \A d : d[1] # "amData" => Unchanged(d)
    BY <1>1, <1>4, SubscriberDocs
  <2>2. \A c \in {"amPolicy", "smPolicy", "smData", "smfSel"} : \A i, p : Unchanged(<<c, i, p>>)
    BY <2>1
  <2> QED
    BY <1>1, <2>1, <2>2, Undisturbed DEF Stays
<1>5. ASSUME NEW w \in Workers, CheckAuth(w) \/ WriteDoc(w) \/ Remove(w) PROVE DocsInv'
  BY <1>5, CheckAuthDocs, WriteDocDocs, RemoveDocs
<1>6. ASSUME NEW w \in Workers, WriteFails(w) PROVE DocsInv'
  BY <1>6 DEF WriteFails, DocsInv
<1>7. CASE Restart
  BY <1>7 DEF Restart, DocsInv
<1>8. CASE UNCHANGED vars
  BY <1>2, <1>8 DEF vars, Stays
<1> QED
  BY <1>3, <1>4, <1>5, <1>6, <1>7, <1>8 DEF Next, Locks, Proceed, Fails

LEMMA DocsAlways == Spec => [](ControlInv /\ ExtraInv /\ DocsInv)
<1>1. Init => DocsInv
  <2> SUFFICES ASSUME Init PROVE DocsInv
    OBVIOUS
  <2>1. \A w \in Workers : job[w].cur = None
    BY DEF Init, Idle
  <2>2. \A i \in Imsis : Together(i)
    BY DEF Init, Together, Has
  <2> QED
    BY <2>1, <2>2, ProvisioningAssumption DEF DocsInv
<1> QED
  BY <1>1, InitCtl, ControlStep, ExtraKept, DocsStep, PTL DEF Spec

(* For every number of handlers, IMSIs, device groups, slices and PLMNs and
   every interleaving, no IMSI is left with half of its documents when rwLock is
   free, unless a write or removal has failed.                                *)
THEOREM DocsStayTogether == Spec => []DocsTogether
<1>1. ControlInv /\ DocsInv => DocsTogether
  <2> SUFFICES ASSUME ControlInv, DocsInv, rwLock = None, ~broken
               PROVE  \A i \in Imsis : Together(i)
    BY DEF DocsTogether, Together, Has
  <2>1. \A w \in Workers : job[w].cur = None
    BY ProvisioningAssumption DEF ControlInv, JobInv, LockInv, JobOK, Deriving, Inside
  <2> QED
    BY <2>1, ProvisioningAssumption DEF DocsInv
<1> QED
  BY <1>1, DocsAlways, PTL

-----------------------------------------------------------------------------
(* What a request achieves when it runs alone, after any number of faults. *)

SliceOps == {"putSlice", "deleteSlice", "deleteGroup"}
GroupOps == {"putGroup", "deleteSub"}
SubOps   == {"postSub", "putSub"}
GroupLike == GroupDocs \union {NoGroup}

(* A request writes a slice, or a device group, or a subscriber. *)
RequestOK(j) ==
    /\ j.op \in {"none"} \union SliceOps \union GroupOps \union SubOps
    /\ j.op = "none" => j.pc = "idle" /\ ~j.alone
    /\ j.op \in SubOps => j.pc \in {"exists", "store", "end"} /\ j.arg \in Imsis
    /\ j.pc \in {"exists", "store"} => j.op \in SubOps
    /\ j.op = "deleteGroup" => j.arg \in Groups
    /\ j.op = "deleteSub" => j.arg \in Imsis

(* What it is writing, and what was stored before. *)
Writing == {"prev", "post", "lock"} \union Inside

TaskOK(j) ==
    /\ j.op = "deleteSlice" => j.new = NoSlice
    /\ j.op \in SliceOps =>
          /\ \A d \in j.work : d[1] \in Slices /\ d[2] \in SliceLike
          /\ j.pc \in Writing => j.name \in Slices /\ j.new \in SliceLike
          /\ j.pc \in Writing \ {"prev"} => j.prev \in SliceLike
    /\ j.op \in GroupOps =>
          /\ \A d \in j.work : d[1] \in Groups /\ d[2] \in GroupDocs
          /\ j.pc \in Writing => j.name \in Groups /\ j.new \in GroupDocs
          /\ j.pc \in Writing \ {"prev"} => j.prev \in GroupLike

(* The device groups and IMSIs it has yet to derive for or to clean up. *)
PlanOK(j) ==
    /\ j.left \subseteq Groups /\ j.imsis \subseteq Imsis /\ j.gone \subseteq Imsis
    /\ j.cur \in Imsis \union {None}
    /\ j.pc # "derive" => j.imsis = {} /\ j.cur = None
    /\ j.pc # "cleanup" => j.gone = {}
    /\ j.pc \notin {"derive", "cleanup"} \/ j.op \notin SliceOps => j.left = {}
    /\ j.pc = "cleanup" /\ (j.left # {} \/ j.gone # {}) => j.plmn \in Plmns

Keys == ({"amPolicy", "smPolicy"} \X Imsis \X {None})
           \union ({"amData"} \X Imsis \X (Plmns \union {None}))
           \union ({"smData", "smfSel"} \X Imsis \X Plmns)

StoreInv == /\ auth \subseteq Imsis
            /\ groups \in [Groups -> GroupLike]
            /\ slices \in [Slices -> SliceLike]
            /\ docs \subseteq Keys
            /\ \A e \in DOMAIN extra :
                  /\ e[1] = "slice" => e[2] \in Slices /\ e[3] \in SliceLike
                  /\ e[1] = "group" => e[2] \in Groups /\ e[3] \in GroupDocs
            /\ rwLock \in Workers \union {None}
            /\ faults \in 0..MaxFaults

RequestInv == \A w \in Workers : RequestOK(job[w])
TaskInv == \A w \in Workers : TaskOK(job[w])
PlanInv == \A w \in Workers : PlanOK(job[w])

(* A find has been made only for an upsert to come, and if the request has run
   alone the store is still as it was then.                                   *)
SeenInv == \A w \in Workers : LET j == job[w] IN
    j.seen # None => Upserts(j) /\ (j.alone => j.seen = Present(j))

(* Who has run alone is the only one to serve a request, and every document is
   stored once.                                                               *)
AloneInv ==
    /\ \A w \in Workers : job[w].alone =>
          Single /\ \A v \in Workers \ {w} : job[v].pc = "idle"
    /\ calm => Single /\ \A w \in Workers : job[w].pc # "idle" => job[w].alone

BaseInv == /\ ControlInv /\ ExtraInv /\ StoreInv /\ RequestInv /\ TaskInv /\ PlanInv
           /\ SeenInv /\ AloneInv

-----------------------------------------------------------------------------
(* What is left to write, of the slices or device groups a deletion has found. *)
ToWrite(j) == {d[1] : d \in j.work} \union (IF j.pc \in {"prev", "post"} THEN {j.name} ELSE {})

(* A deletion that runs alone has yet to write whatever still refers to what it
   deletes, and will write it without.                                        *)
GroupDeletion(j) ==
    /\ \A d \in j.work : j.arg \notin d[2].groups
    /\ j.pc \in {"prev", "post"} => j.arg \notin j.new.groups
    /\ j.pc # "list" /\ ~j.err =>
          \A s \in Slices : j.arg \in slices[s].groups => s \in ToWrite(j)
    /\ j.pc = "end" /\ ~j.err => j.work = {} /\ groups[j.arg] = NoGroup

SubDeletion(j) ==
    /\ \A d \in j.work : j.arg \notin d[2].imsis
    /\ j.pc \in {"prev", "post"} => j.arg \notin j.new.imsis
    /\ j.pc # "list" /\ ~j.err =>
          \A g \in Groups : j.arg \in groups[g].imsis => g \in ToWrite(j)
    /\ j.pc = "end" /\ ~j.err => j.work = {} /\ j.arg \notin auth

DeletionInv == \A w \in Workers : LET j == job[w] IN
    /\ j.alone /\ j.op = "deleteGroup" => GroupDeletion(j)
    /\ j.alone /\ j.op = "deleteSub" => SubDeletion(j)

-----------------------------------------------------------------------------
(* The documents an IMSI has when the k-th is about to be written. *)
Begun(i, k, p) == \A m \in 1..(k - 1) : Key(Derived[m], i, p) \in docs

InProgress(j, i) == i \in j.imsis \/ (i = j.cur /\ Begun(i, j.k, j.plmn))

(* What is left to do for the subscribers of a slice that is written alone. *)
LostGroups(j) == j.prev.groups \ j.new.groups
Lost(j, i) == \E h \in LostGroups(j) : i \in groups[h].imsis

(* What becomes of an IMSI of a device group of the slice. *)
Settled(j, g, i) ==
    \/ groups[g].kind = "none"
    \/ Provided(i, j.new.plmn)
    \/ j.pc = "derive" /\ (g \in j.left \/ InProgress(j, i))
    \/ j.pc # "derive" /\ Lost(j, i)

SliceProgress(j) ==
    /\ j.pc # "unlock"
    /\ j.pc = "derive" => j.plmn = j.new.plmn
    /\ j.pc = "cleanup" => j.left \subseteq LostGroups(j) /\ \A i \in j.gone : Lost(j, i)
    /\ j.pc \in {"derive", "cleanup", "end"} =>
          \A g \in j.new.groups : \A i \in groups[g].imsis \intersect auth : Settled(j, g, i)

(* The same for a device group, when it is in one slice only. *)
GroupProgress(j, p) ==
    /\ j.pc # "unlock"
    /\ j.pc \in {"derive", "cleanup"} => j.plmn = p
    /\ j.pc \in {"derive", "cleanup", "end"} =>
          \A i \in j.new.imsis \intersect auth :
             Provided(i, p) \/ (j.pc = "derive" /\ InProgress(j, i))
    /\ j.pc = "cleanup" => j.gone \subseteq j.prev.imsis \ j.new.imsis
    /\ j.pc \in {"cleanup", "end"} =>
          \A i \in (j.prev.imsis \ j.new.imsis) \ j.gone : docs = Removed(i, p)

Having(g) == {t \in Slices : g \in slices[t].groups}
Unhurt(j) == j.alone /\ ~j.err /\ ~j.hurt

ProgressInv == \A w \in Workers : LET j == job[w] IN
    /\ Unhurt(j) /\ j.op = "putSlice" => SliceProgress(j)
    /\ Unhurt(j) /\ j.op = "putGroup" =>
          \A s \in Slices : Having(j.name) = {s} => GroupProgress(j, slices[s].plmn)

-----------------------------------------------------------------------------
(* An IMSI in no device group of any slice whose documents are about to go. *)
Pending(j, i) ==
    \/ j.err
    \/ OnSlice(j) /\ j.pc \in {"lock", "derive"} /\ Lost(j, i)
    \/ OnSlice(j) /\ j.pc = "cleanup" /\ (i \in j.gone \/ \E h \in j.left : i \in groups[h].imsis)
    \/ /\ ~OnSlice(j) /\ j.pc \in {"lock", "derive"} /\ i \in j.prev.imsis \ j.new.imsis
       /\ j.pc = "lock" => Having(j.name) # {}
    \/ ~OnSlice(j) /\ j.pc = "cleanup" /\ i \in j.gone

Bare(d) == d = <<"amData", d[2], None>>
Documented(j) == \A d \in docs : Bare(d) \/ InSlices(d[2]) \/ Pending(j, d[2])

(* What a request that runs alone knows is what is stored, and it derives
   documents only for IMSIs of device groups that slices have.                *)
InStep(j) ==
    /\ j.pc = "exists" => ~j.err
    /\ j.pc = "post" => j.prev = IF OnSlice(j) THEN slices[j.name] ELSE groups[j.name]
    /\ j.pc \in {"lock", "derive"} => IF OnSlice(j) THEN slices[j.name] = j.new
                                       ELSE groups[j.name].imsis = j.new.imsis
    /\ j.pc = "derive" => /\ OnSlice(j) \/ Having(j.name) # {}
                          /\ \A g \in j.left : Having(g) # {}
                          /\ \A i \in Imsis : i \in j.imsis \/ i = j.cur => InSlices(i)

Peaceful == calm /\ faults = 0 /\ \A p, q \in Plmns : p = q

OrphanInv == Peaceful =>
    /\ \A w \in Workers : LET j == job[w] IN
          j.pc # "idle" => j.alone /\ InStep(j) /\ Documented(j)
    /\ Quiet => \A d \in docs : Bare(d) \/ InSlices(d[2])

-----------------------------------------------------------------------------
(* What a step makes of the job of its worker, field by field. *)

KeptRequest(n, j) == /\ DOMAIN n = JobFields
                     /\ n.op = j.op /\ n.arg = j.arg /\ n.alone = j.alone
KeptTask(n, j) == n.work = j.work /\ n.name = j.name /\ n.new = j.new
KeptPlan(n, j) == /\ n.plmn = j.plmn /\ n.left = j.left /\ n.imsis = j.imsis
                  /\ n.gone = j.gone /\ n.extent = j.extent
KeptPlace(n, j) == n.cur = j.cur /\ n.k = j.k
KeptErr(n, j) == n.err = j.err /\ n.hurt = j.hurt

(* All but the point reached, and what is named apart. *)
KeptButErr(n, j) == /\ KeptRequest(n, j) /\ KeptTask(n, j) /\ n.prev = j.prev
                    /\ KeptPlan(n, j) /\ KeptPlace(n, j)
KeptAll(n, j) == KeptButErr(n, j) /\ KeptErr(n, j)

OnlyJob(w) == DOMAIN job' = Workers /\ \A v \in Workers \ {w} : job'[v] = job[v]

LEMMA Fields == ASSUME ControlInv, NEW w \in Workers
                PROVE  DOMAIN job[w] = JobFields /\ DOMAIN job = Workers
BY DEF ControlInv, JobInv, JobOK

(* A request as it arrives. *)
Fresh(n) ==
    /\ DOMAIN n = JobFields /\ n.op \in Ops
    /\ n.work = {} /\ n.left = {} /\ n.imsis = {} /\ n.gone = {} /\ n.cur = None
    /\ n.seen = None /\ ~n.err /\ ~n.hurt
    /\ n.op = "deleteSlice" => n.new = NoSlice
    /\ \/ n.op \in {"putSlice", "deleteSlice"} /\ n.pc = "prev" /\ n.name \in Slices /\ n.new \in SliceLike
       \/ n.op = "putGroup" /\ n.pc = "prev" /\ n.name \in Groups /\ n.new \in GroupDocs
       \/ n.op = "deleteGroup" /\ n.pc = "list" /\ n.arg \in Groups
       \/ n.op = "deleteSub" /\ n.pc = "list" /\ n.arg \in Imsis
       \/ n.op \in SubOps /\ n.pc = "exists" /\ n.arg \in Imsis

(* A job of which only alone may have changed, and not to TRUE. *)
Lowered(n, j) == /\ DOMAIN n = JobFields /\ n.op = j.op /\ n.arg = j.arg /\ n.alone = FALSE
                 /\ n.pc = j.pc /\ n.prev = j.prev /\ n.seen = j.seen
                 /\ KeptTask(n, j) /\ KeptPlan(n, j) /\ KeptPlace(n, j) /\ KeptErr(n, j)

LEMMA FreshAlone ==
    ASSUME NEW j, Fresh(j), NEW b
    PROVE  LET n == [j EXCEPT !.alone = b] IN Fresh(n) /\ n.alone = b
BY DEF Fresh, JobFields

LEMMA LoweredAlone ==
    ASSUME NEW j, DOMAIN j = JobFields
    PROVE  Lowered([j EXCEPT !.alone = FALSE], j)
BY DEF Lowered, KeptTask, KeptPlan, KeptPlace, KeptErr, JobFields

LEMMA ArriveFresh ==
    ASSUME NEW w \in Workers, Arrive(w) PROVE \E j : Begin(w, j) /\ Fresh(j)
<1> DEFINE Slice(s, d, op) == [Idle EXCEPT !.op = op, !.pc = "prev", !.name = s, !.new = d]
           Group(g, d) == [Idle EXCEPT !.op = "putGroup", !.pc = "prev", !.name = g, !.new = d]
           Del(op, a) == [Idle EXCEPT !.op = op, !.pc = "list", !.arg = a]
           Sub(op, a) == [Idle EXCEPT !.op = op, !.pc = "exists", !.arg = a]
<1>1. ASSUME NEW s \in Slices, NEW d \in SliceLike, NEW op \in {"putSlice", "deleteSlice"}, op \in Ops,
             op = "deleteSlice" => d = NoSlice
      PROVE  Fresh(Slice(s, d, op))
  BY <1>1 DEF Idle, Fresh, JobFields
<1>2. ASSUME NEW g \in Groups, NEW d \in GroupDocs, "putGroup" \in Ops
      PROVE  Fresh(Group(g, d))
  BY <1>2 DEF Idle, Fresh, JobFields
<1>3. ASSUME NEW g \in Groups, "deleteGroup" \in Ops
      PROVE  Fresh(Del("deleteGroup", g))
  BY <1>3 DEF Idle, Fresh, JobFields
<1>4. ASSUME NEW i \in Imsis, "deleteSub" \in Ops
      PROVE  Fresh(Del("deleteSub", i))
  BY <1>4 DEF Idle, Fresh, JobFields
<1>5. ASSUME NEW i \in Imsis, NEW op \in SubOps, op \in Ops
      PROVE  Fresh(Sub(op, i))
  BY <1>5 DEF Idle, Fresh, JobFields, SubOps
<1>6. \A j : Begin(w, j) => j.op \in Ops
  BY DEF Begin
<1>7. /\ \A s, d, op : Slice(s, d, op).op = op
      /\ \A g, d : Group(g, d).op = "putGroup"
      /\ \A op, a : Del(op, a).op = op /\ Sub(op, a).op = op
  BY DEF Idle
<1>9. /\ \A s, d : PutSlice(w, s, d) => Begin(w, Slice(s, d, "putSlice"))
      /\ \A s : DeleteSlice(w, s) => Begin(w, Slice(s, NoSlice, "deleteSlice"))
      /\ \A g, d : PutGroup(w, g, d) => Begin(w, Group(g, d))
      /\ \A g : DeleteGroup(w, g) => Begin(w, Del("deleteGroup", g))
      /\ \A i : DeleteSub(w, i) => Begin(w, Del("deleteSub", i))
      /\ \A i : PostSub(w, i) => Begin(w, Sub("postSub", i))
      /\ \A i : PutSub(w, i) => Begin(w, Sub("putSub", i))
  BY DEF PutSlice, DeleteSlice, PutGroup, DeleteGroup, DeleteSub, PostSub, PutSub
<1> HIDE DEF Slice, Group, Del, Sub
<1>8. /\ \A s \in Slices : \A d \in SliceLike : \A op \in {"putSlice", "deleteSlice"} :
            Begin(w, Slice(s, d, op)) /\ (op = "deleteSlice" => d = NoSlice) => Fresh(Slice(s, d, op))
      /\ \A g \in Groups : \A d \in GroupDocs : Begin(w, Group(g, d)) => Fresh(Group(g, d))
      /\ \A g \in Groups : Begin(w, Del("deleteGroup", g)) => Fresh(Del("deleteGroup", g))
      /\ \A i \in Imsis : Begin(w, Del("deleteSub", i)) => Fresh(Del("deleteSub", i))
      /\ \A i \in Imsis : \A op \in SubOps : Begin(w, Sub(op, i)) => Fresh(Sub(op, i))
  <2>1. \A s \in Slices : \A d \in SliceLike : \A op \in {"putSlice", "deleteSlice"} :
            Begin(w, Slice(s, d, op)) /\ (op = "deleteSlice" => d = NoSlice) => Fresh(Slice(s, d, op))
    BY <1>1, <1>6, <1>7
  <2>2. \A g \in Groups : \A d \in GroupDocs : Begin(w, Group(g, d)) => Fresh(Group(g, d))
    BY <1>2, <1>6, <1>7
  <2>3. \A g \in Groups : Begin(w, Del("deleteGroup", g)) => Fresh(Del("deleteGroup", g))
    BY <1>3, <1>6, <1>7
  <2>4. \A i \in Imsis : Begin(w, Del("deleteSub", i)) => Fresh(Del("deleteSub", i))
    BY <1>4, <1>6, <1>7
  <2>5. \A i \in Imsis : \A op \in SubOps : Begin(w, Sub(op, i)) => Fresh(Sub(op, i))
    BY <1>5, <1>6, <1>7
  <2> QED BY <2>1, <2>2, <2>3, <2>4, <2>5
<1>10. NoSlice \in SliceLike /\ SliceDocs \subseteq SliceLike /\ SubOps = {"postSub", "putSub"}
  BY DEF SliceLike, SubOps
<1>11. CASE \E s \in Slices : DeleteSlice(w, s) \/ \E d \in SliceDocs : PutSlice(w, s, d)
  BY <1>8, <1>9, <1>10, <1>11
<1>12. CASE \E g \in Groups : DeleteGroup(w, g) \/ \E d \in GroupDocs : PutGroup(w, g, d)
  BY <1>8, <1>9, <1>12
<1>13. CASE \E i \in Imsis : PostSub(w, i) \/ PutSub(w, i) \/ DeleteSub(w, i)
  BY <1>8, <1>9, <1>10, <1>13
<1> QED BY <1>11, <1>12, <1>13 DEF Arrive

LEMMA ArriveShape ==
    ASSUME ControlInv, NEW w \in Workers, Arrive(w)
    PROVE  /\ DOMAIN job' = Workers /\ job[w].pc = "idle" /\ Fresh(job'[w])
           /\ \A v \in Workers \ {w} : Lowered(job'[v], job[v])
           /\ job'[w].alone = ((\A v \in Workers \ {w} : job[v].pc = "idle") /\ Single)
           /\ calm' = (calm /\ \A v \in Workers \ {w} : job[v].pc = "idle")
<1>1. PICK j : Begin(w, j) /\ Fresh(j)
  BY ArriveFresh
<1> DEFINE i == \A v \in Workers \ {w} : job[v].pc = "idle"
           a == i /\ Single
<1>2. /\ job' = [v \in Workers |-> IF v = w THEN [j EXCEPT !.alone = a]
                                            ELSE [job[v] EXCEPT !.alone = FALSE]]
      /\ calm' = (calm /\ i) /\ job[w].pc = "idle"
  BY <1>1 DEF Begin
<1> HIDE DEF a, i
<1>3. DOMAIN job' = Workers /\ job'[w] = [j EXCEPT !.alone = a]
      /\ \A v \in Workers \ {w} : job'[v] = [job[v] EXCEPT !.alone = FALSE]
  BY <1>2
<1>4. Fresh(job'[w]) /\ job'[w].alone = a
  BY <1>1, <1>3, FreshAlone
<1>5. \A v \in Workers \ {w} : Lowered(job'[v], job[v])
  BY <1>3, LoweredAlone, Fields
<1> QED BY <1>2, <1>3, <1>4, <1>5 DEF a, i

LEMMA ReadPrevShape ==
    ASSUME ControlInv, NEW w \in Workers, ReadPrev(w)
    PROVE  LET j == job[w]
               n == job'[w]
           IN  /\ OnlyJob(w) /\ j.pc = "prev" /\ n.pc = "post"
               /\ KeptRequest(n, j) /\ KeptTask(n, j) /\ KeptPlan(n, j) /\ KeptPlace(n, j)
               /\ KeptErr(n, j)
               /\ n.prev = IF OnSlice(j) THEN slices[j.name] ELSE groups[j.name]
<1> DEFINE prev == IF OnSlice(job[w]) THEN slices[job[w].name] ELSE groups[job[w].name]
<1>1. job' = [job EXCEPT ![w].pc = "post", ![w].prev = prev] /\ job[w].pc = "prev"
  BY DEF ReadPrev
<1> HIDE DEF prev
<1>2. LET j == job[w]
          n == job'[w]
      IN  /\ OnlyJob(w) /\ n.pc = "post" /\ n.prev = prev
          /\ KeptRequest(n, j) /\ KeptTask(n, j) /\ KeptPlan(n, j) /\ KeptPlace(n, j)
          /\ KeptErr(n, j)
  BY <1>1, Fields
     DEF OnlyJob, KeptRequest, KeptTask, KeptPlan, KeptPlace, KeptErr, JobFields
<1> QED BY <1>1, <1>2 DEF prev

(* The document of a slice or device group is written or deleted. *)
Posts(w) == Post(w) \/ DeleteSliceDoc(w)

LEMMA PostShape ==
    ASSUME ControlInv, NEW w \in Workers, Posts(w)
    PROVE  /\ OnlyJob(w) /\ job[w].pc = "post" /\ job'[w].pc = "lock"
           /\ KeptAll(job'[w], job[w])
<1>1. /\ job[w].pc = "post"
      /\ \/ job' = [job EXCEPT ![w].pc = "lock"]
         \/ job' = [job EXCEPT ![w].pc = "lock", ![w].seen = None]
  BY DEF Posts, Post, DeleteSliceDoc
<1> QED
  BY <1>1, Fields DEF OnlyJob, KeptAll, KeptButErr, KeptRequest, KeptTask, KeptPlan, KeptPlace,
                      KeptErr, JobFields

LEMMA FindShape ==
    ASSUME ControlInv, NEW w \in Workers, Find(w)
    PROVE  /\ OnlyJob(w) /\ Upserts(job[w]) /\ job'[w].pc = job[w].pc
           /\ KeptAll(job'[w], job[w])
           /\ UNCHANGED <<store, rwLock, history>>
<1>1. /\ Upserts(job[w]) /\ \E x : job' = [job EXCEPT ![w].seen = x]
      /\ UNCHANGED <<store, rwLock, history>>
  BY DEF Find, Upserts
<1> QED
  BY <1>1, Fields DEF OnlyJob, KeptAll, KeptButErr, KeptRequest, KeptTask, KeptPlan, KeptPlace,
                      KeptErr, JobFields

(* The plan of a derivation or clean-up, and the point where it starts. *)
LEMMA LockSliceShape ==
    ASSUME ControlInv, NEW w \in Workers, LockSlice(w)
    PROVE  LET j == job[w]
               n == job'[w]
           IN  /\ OnlyJob(w) /\ j.pc = "lock" /\ OnSlice(j)
               /\ KeptRequest(n, j) /\ KeptTask(n, j) /\ KeptPlace(n, j) /\ n.prev = j.prev
               /\ n.hurt = j.hurt /\ n.gone = j.gone /\ n.imsis = j.imsis
               /\ \/ /\ n.pc = "cleanup" /\ j.op = "deleteSlice" /\ n.plmn = j.prev.plmn
                     /\ n.left = DeletedDeviceGroups(j.new, j.prev) /\ n.err = j.err
                  \/ /\ n.pc = "derive" /\ j.op # "deleteSlice" /\ j.new.sst
                     /\ n.plmn = j.new.plmn /\ n.left = j.new.groups /\ n.err = j.err
                  \/ /\ n.pc = "unlock" /\ n.err = TRUE /\ n.left = j.left
                     /\ j.op # "deleteSlice"
<1> DEFINE j == job[w]
           left == DeletedDeviceGroups(j.new, j.prev)
<1>1. DOMAIN j = JobFields /\ DOMAIN job = Workers /\ j.pc = "lock" /\ OnSlice(j)
  BY Fields DEF LockSlice
<1>2. \/ /\ j.op = "deleteSlice"
         /\ job' = [job EXCEPT ![w].pc = "cleanup", ![w].plmn = j.prev.plmn, ![w].left = left]
      \/ /\ j.op # "deleteSlice" /\ j.new.sst
         /\ job' = [job EXCEPT ![w].pc = "derive", ![w].plmn = j.new.plmn,
                               ![w].left = j.new.groups]
      \/ /\ j.op # "deleteSlice"
         /\ job' = [job EXCEPT ![w].pc = "unlock", ![w].err = TRUE]
  <2>1. CASE j.op = "deleteSlice"
    BY <2>1 DEF LockSlice
  <2>2. CASE j.op # "deleteSlice" /\ j.new.sst
    BY <2>2 DEF LockSlice
  <2>3. CASE j.op # "deleteSlice" /\ ~j.new.sst
    BY <2>3 DEF LockSlice
  <2> QED BY <2>1, <2>2, <2>3
<1> USE DEF OnlyJob, KeptRequest, KeptTask, KeptPlace, JobFields
<1> HIDE DEF left
<1>3. CASE /\ j.op = "deleteSlice"
           /\ job' = [job EXCEPT ![w].pc = "cleanup", ![w].plmn = j.prev.plmn, ![w].left = left]
  <2>1. LET n == job'[w]
        IN  /\ OnlyJob(w)
            /\ KeptRequest(n, j) /\ KeptTask(n, j) /\ KeptPlace(n, j) /\ n.prev = j.prev
            /\ n.hurt = j.hurt /\ n.gone = j.gone /\ n.imsis = j.imsis
            /\ n.pc = "cleanup" /\ n.plmn = j.prev.plmn /\ n.left = left /\ n.err = j.err
    BY <1>1, <1>3
  <2> QED BY <1>1, <1>3, <2>1 DEF left
<1>4. CASE /\ j.op # "deleteSlice" /\ j.new.sst
           /\ job' = [job EXCEPT ![w].pc = "derive", ![w].plmn = j.new.plmn,
                                 ![w].left = j.new.groups]
  BY <1>1, <1>4
<1>5. CASE /\ j.op # "deleteSlice"
           /\ job' = [job EXCEPT ![w].pc = "unlock", ![w].err = TRUE]
  BY <1>1, <1>5
<1> QED BY <1>2, <1>3, <1>4, <1>5

LEMMA LockGroupShape ==
    ASSUME ControlInv, NEW w \in Workers, LockGroup(w)
    PROVE  LET j == job[w]
               n == job'[w]
           IN  /\ OnlyJob(w) /\ j.pc = "lock" /\ ~OnSlice(j)
               /\ KeptRequest(n, j) /\ KeptTask(n, j) /\ KeptPlace(n, j) /\ n.prev = j.prev
               /\ n.hurt = j.hurt /\ n.gone = j.gone /\ n.left = j.left
               /\ \/ /\ n.pc = "unlock" /\ Having(j.name) = {} /\ n.err = j.err
                     /\ n.imsis = j.imsis
                  \/ n.pc = "unlock" /\ n.err = TRUE /\ n.imsis = j.imsis
                  \/ /\ n.pc = "derive" /\ n.err = j.err /\ n.imsis = j.new.imsis
                     /\ \E d \in AllSlices :
                           j.name \in d[2].groups /\ d[2].sst /\ n.plmn = d[2].plmn
<1> DEFINE j == job[w]
<1> DEFINE Derives(n, p) ==
                 /\ OnlyJob(w)
                 /\ KeptRequest(n, j) /\ KeptTask(n, j) /\ KeptPlace(n, j) /\ n.prev = j.prev
                 /\ n.hurt = j.hurt /\ n.gone = j.gone /\ n.left = j.left
                 /\ n.pc = "derive" /\ n.err = j.err /\ n.imsis = j.new.imsis
                 /\ n.plmn = p
<1>1. DOMAIN j = JobFields /\ DOMAIN job = Workers /\ j.pc = "lock" /\ ~OnSlice(j)
  BY Fields DEF LockGroup
<1> USE DEF OnlyJob, KeptRequest, KeptTask, KeptPlace, JobFields
<1>2. CASE Having(j.name) = {} /\ job' = [job EXCEPT ![w].pc = "unlock"]
  BY <1>1, <1>2
<1>3. CASE job' = [job EXCEPT ![w].pc = "unlock", ![w].err = TRUE]
  BY <1>1, <1>3
<1>4. ASSUME NEW d, NEW e,
             job' = [job EXCEPT ![w].pc = "derive", ![w].plmn = d[2].plmn,
                                ![w].imsis = j.new.imsis, ![w].extent = e]
      PROVE  Derives(job'[w], d[2].plmn)
  BY <1>1, <1>4
<1>5. \/ Having(j.name) = {} /\ job' = [job EXCEPT ![w].pc = "unlock"]
      \/ job' = [job EXCEPT ![w].pc = "unlock", ![w].err = TRUE]
      \/ \E d \in AllSlices : \E e :
            /\ j.name \in d[2].groups /\ d[2].sst
            /\ job' = [job EXCEPT ![w].pc = "derive", ![w].plmn = d[2].plmn,
                                  ![w].imsis = j.new.imsis, ![w].extent = e]
  <2>1. CASE {d \in AllSlices : j.name \in d[2].groups} = {}
    <3>1. ASSUME NEW s \in Slices PROVE j.name \notin slices[s].groups
      <4>1. <<s, slices[s]>> \in AllSlices
        BY DEF AllSlices
      <4> QED
        BY <2>1, <4>1
    <3>2. Having(j.name) = {}
      BY <3>1 DEF Having
    <3> QED
      BY <2>1, <3>2 DEF LockGroup
  <2>2. CASE {d \in AllSlices : j.name \in d[2].groups} # {}
    BY <2>2 DEF LockGroup
  <2> QED
    BY <2>1, <2>2
<1>6. CASE \E d \in AllSlices : \E e :
              /\ j.name \in d[2].groups /\ d[2].sst
              /\ job' = [job EXCEPT ![w].pc = "derive", ![w].plmn = d[2].plmn,
                                    ![w].imsis = j.new.imsis, ![w].extent = e]
  <2>1. PICK d \in AllSlices : \E e :
              /\ j.name \in d[2].groups /\ d[2].sst
              /\ job' = [job EXCEPT ![w].pc = "derive", ![w].plmn = d[2].plmn,
                                    ![w].imsis = j.new.imsis, ![w].extent = e]
    BY <1>6
  <2>2. PICK e :
              /\ j.name \in d[2].groups /\ d[2].sst
              /\ job' = [job EXCEPT ![w].pc = "derive", ![w].plmn = d[2].plmn,
                                    ![w].imsis = j.new.imsis, ![w].extent = e]
    BY <2>1
  <2> HIDE DEF OnlyJob, KeptRequest, KeptTask, KeptPlace, JobFields, Derives
  <2>3. Derives(job'[w], d[2].plmn)
    BY <1>4, <2>1, <2>2
  <2> QED BY <1>1, <2>1, <2>2, <2>3 DEF Derives
<1> QED BY <1>2, <1>3, <1>5, <1>6

LEMMA ReadGroupShape ==
    ASSUME ControlInv, NEW w \in Workers, ReadGroup(w)
    PROVE  LET j == job[w]
               n == job'[w]
           IN  /\ OnlyJob(w) /\ j.pc = "derive" /\ j.imsis = {} /\ j.cur = None
               /\ n.pc = "derive" /\ n.prev = j.prev /\ n.plmn = j.plmn /\ n.gone = j.gone
               /\ KeptRequest(n, j) /\ KeptTask(n, j) /\ KeptPlace(n, j) /\ KeptErr(n, j)
               /\ \E g \in j.left :
                     /\ n.left = j.left \ {g}
                     /\ n.imsis = IF groups[g].kind = "none" THEN {} ELSE groups[g].imsis
<1> DEFINE i(g) == IF groups[g].kind = "none" THEN {} ELSE groups[g].imsis
           e(g) == Extent(job[w], groups[g].kind)
<1>1. PICK g \in job[w].left :
         job' = [job EXCEPT ![w].left = @ \ {g}, ![w].imsis = i(g), ![w].extent = e(g)]
  BY DEF ReadGroup
<1> HIDE DEF i, e
<1>3. job[w].pc = "derive" /\ job[w].imsis = {} /\ job[w].cur = None
  BY DEF ReadGroup
<1>4. LET j == job[w]
          n == job'[w]
      IN  /\ OnlyJob(w)
          /\ n.pc = j.pc /\ n.prev = j.prev /\ n.plmn = j.plmn /\ n.gone = j.gone
          /\ KeptRequest(n, j) /\ KeptTask(n, j) /\ KeptPlace(n, j) /\ KeptErr(n, j)
          /\ n.left = j.left \ {g} /\ n.imsis = i(g)
  BY <1>1, Fields DEF OnlyJob, KeptRequest, KeptTask, KeptPlace, KeptErr, JobFields
<1> QED BY <1>3, <1>4 DEF i

LEMMA CheckAuthShape ==
    ASSUME ControlInv, NEW w \in Workers, CheckAuth(w)
    PROVE  LET j == job[w]
               n == job'[w]
           IN  /\ OnlyJob(w) /\ j.pc = "derive" /\ j.cur = None
               /\ n.pc = "derive" /\ n.prev = j.prev /\ n.plmn = j.plmn /\ n.gone = j.gone
               /\ n.left = j.left
               /\ KeptRequest(n, j) /\ KeptTask(n, j) /\ KeptErr(n, j)
               /\ \E i \in j.imsis :
                     /\ n.imsis = j.imsis \ {i}
                     /\ \/ i \in auth /\ n.cur = i /\ n.k = 1
                        \/ i \notin auth /\ n.cur = None
<1> DEFINE c(i) == IF i \in auth THEN i ELSE None
           m(i) == IF i \in auth THEN 1 ELSE 0
<1>1. PICK i \in job[w].imsis :
         job' = [job EXCEPT ![w].imsis = @ \ {i}, ![w].cur = c(i), ![w].k = m(i)]
  BY DEF CheckAuth
<1> HIDE DEF c, m
<1>3. job[w].pc = "derive" /\ job[w].cur = None
  BY DEF CheckAuth
<1>4. LET j == job[w]
          n == job'[w]
      IN  /\ OnlyJob(w)
          /\ n.pc = j.pc /\ n.prev = j.prev /\ n.plmn = j.plmn /\ n.gone = j.gone
          /\ n.left = j.left
          /\ KeptRequest(n, j) /\ KeptTask(n, j) /\ KeptErr(n, j)
          /\ n.imsis = j.imsis \ {i} /\ n.cur = c(i) /\ n.k = m(i)
  BY <1>1, Fields DEF OnlyJob, KeptRequest, KeptTask, KeptErr, JobFields
<1> QED BY <1>3, <1>4 DEF c, m

(* What the first error of a derivation or clean-up makes of the job. *)
StopOf(n, j) ==
    /\ KeptRequest(n, j) /\ KeptTask(n, j) /\ n.prev = j.prev /\ n.plmn = j.plmn
    /\ n.err = TRUE /\ n.cur = None
    /\ \/ OnSlice(j) /\ n.pc = "unlock" /\ n.imsis = {} /\ n.left = {} /\ n.gone = {}
       \/ /\ ~OnSlice(j) /\ n.pc = j.pc /\ n.imsis = j.imsis /\ n.left = j.left
          /\ n.gone \subseteq j.gone

LEMMA StoppedShape ==
    ASSUME NEW j, DOMAIN j = JobFields PROVE StopOf(Stopped(j), j) /\ Stopped(j).hurt = j.hurt
<1>1. CASE OnSlice(j)
  BY <1>1 DEF StopOf, Stopped, KeptRequest, KeptTask, JobFields
<1>2. CASE ~OnSlice(j)
  BY <1>2 DEF StopOf, Stopped, KeptRequest, KeptTask, JobFields
<1> QED BY <1>1, <1>2

LEMMA WriteDocShape ==
    ASSUME ControlInv, NEW w \in Workers, WriteDoc(w)
    PROVE  LET j == job[w]
               n == job'[w]
           IN  /\ OnlyJob(w) /\ j.cur # None /\ j.pc = "derive" /\ j.plmn \in Plmns
               /\ j.k \in 1..5 /\ n.hurt = j.hurt
               /\ \/ /\ KeptRequest(n, j) /\ KeptTask(n, j) /\ KeptPlan(n, j) /\ KeptErr(n, j)
                     /\ n.prev = j.prev /\ n.pc = j.pc /\ n.cur = j.cur /\ n.k = j.k + 1
                     /\ j.k < 5
                  \/ /\ KeptRequest(n, j) /\ KeptTask(n, j) /\ KeptPlan(n, j) /\ KeptErr(n, j)
                     /\ n.prev = j.prev /\ n.pc = j.pc /\ n.cur = None /\ j.k = 5
                  \/ StopOf(n, j)
<1> DEFINE j == job[w]
           n == job'[w]
<1>1. DOMAIN j = JobFields /\ DOMAIN job = Workers
  BY Fields
<1>2. j.cur # None
  BY DEF WriteDoc
<1>3. j.pc = "derive" /\ j.extent \in {3, 5} /\ j.k \in 1..j.extent /\ j.plmn \in Plmns
  BY <1>2 DEF ControlInv, JobInv, JobOK, Deriving
<1> USE DEF OnlyJob, KeptRequest, KeptTask, KeptPlan, KeptErr, JobFields
<1>4. CASE j.k # j.extent
  <2>1. job' = [job EXCEPT ![w] = [j EXCEPT !.k = j.k + 1, !.seen = None]]
    BY <1>4 DEF WriteDoc
  <2>2. j.k < 5
    BY <1>3, <1>4
  <2>3. j.k \in 1..5
    BY <1>3
  <2>4. /\ OnlyJob(w) /\ n.hurt = j.hurt
        /\ KeptRequest(n, j) /\ KeptTask(n, j) /\ KeptPlan(n, j) /\ KeptErr(n, j)
        /\ n.prev = j.prev /\ n.pc = j.pc /\ n.cur = j.cur /\ n.k = j.k + 1
    BY <1>1, <2>1
  <2> QED BY <1>2, <1>3, <2>2, <2>3, <2>4
<1>5. CASE j.k = j.extent /\ j.extent = 5
  <2>1. job' = [job EXCEPT ![w] = [j EXCEPT !.cur = None, !.k = 0]]
    BY <1>5 DEF WriteDoc
  <2>2. /\ OnlyJob(w) /\ n.hurt = j.hurt
        /\ KeptRequest(n, j) /\ KeptTask(n, j) /\ KeptPlan(n, j) /\ KeptErr(n, j)
        /\ n.prev = j.prev /\ n.pc = j.pc /\ n.cur = None
    BY <1>1, <2>1
  <2> QED BY <1>2, <1>3, <1>5, <2>2
<1>6. CASE j.k = j.extent /\ j.extent # 5
  <2>1. job' = [job EXCEPT ![w] = Stopped(j)]
    BY <1>6 DEF WriteDoc
  <2>2. OnlyJob(w) /\ n = Stopped(j)
    BY <1>1, <2>1
  <2>3. StopOf(n, j) /\ n.hurt = j.hurt
    BY <1>1, <2>2, StoppedShape
  <2>4. j.k \in 1..5
    BY <1>3
  <2> QED BY <1>2, <1>3, <2>2, <2>3, <2>4
<1> QED BY <1>4, <1>5, <1>6

LEMMA StartCleanupShape ==
    ASSUME ControlInv, NEW w \in Workers, StartCleanup(w)
    PROVE  LET j == job[w]
               n == job'[w]
           IN  /\ OnlyJob(w) /\ j.pc = "derive" /\ n.pc = "cleanup"
               /\ j.left = {} /\ j.imsis = {} /\ j.cur = None
               /\ KeptRequest(n, j) /\ KeptTask(n, j) /\ KeptPlace(n, j) /\ KeptErr(n, j)
               /\ n.prev = j.prev /\ n.imsis = j.imsis
               /\ \/ /\ OnSlice(j) /\ n.plmn = j.prev.plmn /\ n.gone = j.gone
                     /\ n.left = DeletedDeviceGroups(j.new, j.prev)
                  \/ /\ ~OnSlice(j) /\ n.plmn = j.plmn /\ n.left = j.left
                     /\ n.gone = DeletedImsis(j.new, j.prev)
<1> DEFINE j == job[w]
           left == DeletedDeviceGroups(j.new, j.prev)
           gone == DeletedImsis(j.new, j.prev)
<1>1. DOMAIN j = JobFields /\ DOMAIN job = Workers
  BY Fields
<1>2. /\ j.pc = "derive" /\ j.left = {} /\ j.imsis = {} /\ j.cur = None
      /\ \/ /\ OnSlice(j)
            /\ job' = [job EXCEPT ![w].pc = "cleanup", ![w].plmn = j.prev.plmn, ![w].left = left]
         \/ ~OnSlice(j) /\ job' = [job EXCEPT ![w].pc = "cleanup", ![w].gone = gone]
  BY DEF StartCleanup
<1> HIDE DEF left, gone
<1> USE DEF OnlyJob, KeptRequest, KeptTask, KeptPlace, KeptErr, JobFields
<1>3. CASE /\ OnSlice(j)
           /\ job' = [job EXCEPT ![w].pc = "cleanup", ![w].plmn = j.prev.plmn, ![w].left = left]
  <2>1. LET n == job'[w]
        IN  /\ OnlyJob(w) /\ n.pc = "cleanup"
            /\ KeptRequest(n, j) /\ KeptTask(n, j) /\ KeptPlace(n, j) /\ KeptErr(n, j)
            /\ n.prev = j.prev /\ n.imsis = j.imsis
            /\ n.plmn = j.prev.plmn /\ n.gone = j.gone /\ n.left = left
    BY <1>1, <1>3
  <2> QED BY <1>2, <1>3, <2>1 DEF left
<1>4. CASE ~OnSlice(j) /\ job' = [job EXCEPT ![w].pc = "cleanup", ![w].gone = gone]
  <2>1. LET n == job'[w]
        IN  /\ OnlyJob(w) /\ n.pc = "cleanup"
            /\ KeptRequest(n, j) /\ KeptTask(n, j) /\ KeptPlace(n, j) /\ KeptErr(n, j)
            /\ n.prev = j.prev /\ n.imsis = j.imsis
            /\ n.plmn = j.plmn /\ n.gone = gone /\ n.left = j.left
    BY <1>1, <1>4
  <2> QED BY <1>2, <1>4, <2>1 DEF gone
<1> QED BY <1>2, <1>3, <1>4

LEMMA CleanGroupShape ==
    ASSUME ControlInv, NEW w \in Workers, CleanGroup(w)
    PROVE  LET j == job[w]
               n == job'[w]
           IN  /\ OnlyJob(w) /\ j.pc = "cleanup" /\ j.gone = {} /\ n.pc = "cleanup"
               /\ KeptRequest(n, j) /\ KeptTask(n, j) /\ KeptPlace(n, j) /\ KeptErr(n, j)
               /\ n.prev = j.prev /\ n.plmn = j.plmn /\ n.imsis = j.imsis
               /\ \E g \in j.left : n.left = j.left \ {g} /\ n.gone = groups[g].imsis
<1>1. PICK g \in job[w].left :
         job' = [job EXCEPT ![w].left = @ \ {g}, ![w].gone = groups[g].imsis]
  BY DEF CleanGroup
<1>2. job[w].pc = "cleanup" /\ job[w].gone = {}
  BY DEF CleanGroup
<1>3. LET j == job[w]
          n == job'[w]
      IN  /\ OnlyJob(w) /\ n.pc = j.pc
          /\ KeptRequest(n, j) /\ KeptTask(n, j) /\ KeptPlace(n, j) /\ KeptErr(n, j)
          /\ n.prev = j.prev /\ n.plmn = j.plmn /\ n.imsis = j.imsis
          /\ n.left = j.left \ {g} /\ n.gone = groups[g].imsis
  BY <1>1, Fields DEF OnlyJob, KeptRequest, KeptTask, KeptPlace, KeptErr, JobFields
<1> QED BY <1>1, <1>2, <1>3

LEMMA RemoveShape ==
    ASSUME ControlInv, NEW w \in Workers, Remove(w)
    PROVE  LET j == job[w]
               n == job'[w]
           IN  /\ OnlyJob(w) /\ j.pc = "cleanup" /\ n.pc = "cleanup"
               /\ KeptRequest(n, j) /\ KeptTask(n, j) /\ KeptPlace(n, j) /\ KeptErr(n, j)
               /\ n.prev = j.prev /\ n.plmn = j.plmn /\ n.imsis = j.imsis /\ n.left = j.left
               /\ \E i \in j.gone : n.gone = j.gone \ {i} /\ docs' = Without(KeysOf(i, j.plmn))
<1>1. PICK i \in job[w].gone : /\ docs' = Without(KeysOf(i, job[w].plmn))
                               /\ job' = [job EXCEPT ![w].gone = @ \ {i}]
  BY DEF Remove
<1>2. job[w].pc = "cleanup"
  BY DEF Remove
<1>3. LET j == job[w]
          n == job'[w]
      IN  /\ OnlyJob(w) /\ n.pc = j.pc
          /\ KeptRequest(n, j) /\ KeptTask(n, j) /\ KeptPlace(n, j) /\ KeptErr(n, j)
          /\ n.prev = j.prev /\ n.plmn = j.plmn /\ n.imsis = j.imsis /\ n.left = j.left
          /\ n.gone = j.gone \ {i}
  BY <1>1, Fields DEF OnlyJob, KeptRequest, KeptTask, KeptPlace, KeptErr, JobFields
<1> QED BY <1>1, <1>2, <1>3

LEMMA UnlockShape ==
    ASSUME ControlInv, NEW w \in Workers, Unlock(w)
    PROVE  LET j == job[w]
               n == job'[w]
           IN  /\ OnlyJob(w) /\ KeptAll(n, j)
               /\ j.pc = "unlock" \/ (j.pc = "cleanup" /\ j.left = {} /\ j.gone = {})
               /\ \/ n.pc = "next" /\ Looping(j)
                  \/ n.pc = "end" /\ ~Looping(j)
<1>1. job[w].pc = "unlock" \/ (job[w].pc = "cleanup" /\ job[w].left = {} /\ job[w].gone = {})
  BY DEF Unlock
<1>2. CASE Looping(job[w])
  <2>1. job' = [job EXCEPT ![w].pc = "next"]
    BY <1>2 DEF Unlock
  <2>2. OnlyJob(w) /\ KeptAll(job'[w], job[w]) /\ job'[w].pc = "next"
    BY <2>1, Fields DEF OnlyJob, KeptAll, KeptButErr, KeptRequest, KeptTask, KeptPlan, KeptPlace,
                        KeptErr, JobFields
  <2> QED BY <1>1, <1>2, <2>2
<1>3. CASE ~Looping(job[w])
  <2>1. job' = [job EXCEPT ![w].pc = "end"]
    BY <1>3 DEF Unlock
  <2>2. OnlyJob(w) /\ KeptAll(job'[w], job[w]) /\ job'[w].pc = "end"
    BY <2>1, Fields DEF OnlyJob, KeptAll, KeptButErr, KeptRequest, KeptTask, KeptPlan, KeptPlace,
                        KeptErr, JobFields
  <2> QED BY <1>1, <1>3, <2>2
<1> QED BY <1>2, <1>3

(* What a deletion finds to write. *)
Found(j) == IF j.op = "deleteGroup"
              THEN {<<d[1], [d[2] EXCEPT !.groups = @ \ {j.arg}]>> :
                      d \in {e \in AllSlices : j.arg \in e[2].groups}}
              ELSE {<<d[1], [d[2] EXCEPT !.imsis = @ \ {j.arg}]>> :
                      d \in {e \in AllGroups : j.arg \in e[2].imsis}}

LEMMA ListShape ==
    ASSUME ControlInv, NEW w \in Workers, List(w)
    PROVE  LET j == job[w]
               n == job'[w]
           IN  /\ OnlyJob(w) /\ j.pc = "list" /\ n.pc = "next"
               /\ KeptRequest(n, j) /\ KeptPlan(n, j) /\ KeptPlace(n, j) /\ KeptErr(n, j)
               /\ n.prev = j.prev /\ n.name = j.name /\ n.new = j.new /\ n.work = Found(j)
<1> DEFINE found == Found(job[w])
<1>1. job' = [job EXCEPT ![w].pc = "next", ![w].work = found] /\ job[w].pc = "list"
  BY DEF List, Found
<1> HIDE DEF found
<1>2. LET j == job[w]
          n == job'[w]
      IN  /\ OnlyJob(w) /\ n.pc = "next"
          /\ KeptRequest(n, j) /\ KeptPlan(n, j) /\ KeptPlace(n, j) /\ KeptErr(n, j)
          /\ n.prev = j.prev /\ n.name = j.name /\ n.new = j.new /\ n.work = found
  BY <1>1, Fields DEF OnlyJob, KeptRequest, KeptPlan, KeptPlace, KeptErr, JobFields
<1> QED BY <1>1, <1>2 DEF found

LEMMA NextDocShape ==
    ASSUME ControlInv, NEW w \in Workers, NextDoc(w)
    PROVE  LET j == job[w]
               n == job'[w]
           IN  /\ OnlyJob(w) /\ j.pc = "next" /\ n.pc = "prev"
               /\ KeptRequest(n, j) /\ KeptPlan(n, j) /\ KeptPlace(n, j) /\ KeptErr(n, j)
               /\ n.prev = j.prev
               /\ \E d \in j.work : n.work = j.work \ {d} /\ n.name = d[1] /\ n.new = d[2]
<1>1. PICK d \in job[w].work :
         job' = [job EXCEPT ![w] = [job[w] EXCEPT !.pc = "prev", !.work = @ \ {d},
                                                  !.name = d[1], !.new = d[2]]]
  BY DEF NextDoc
<1>2. job[w].pc = "next"
  BY DEF NextDoc
<1>3. LET j == job[w]
          n == job'[w]
      IN  /\ OnlyJob(w) /\ n.pc = "prev"
          /\ KeptRequest(n, j) /\ KeptPlan(n, j) /\ KeptPlace(n, j) /\ KeptErr(n, j)
          /\ n.prev = j.prev
          /\ n.work = j.work \ {d} /\ n.name = d[1] /\ n.new = d[2]
  BY <1>1, Fields DEF OnlyJob, KeptRequest, KeptPlan, KeptPlace, KeptErr, JobFields
<1> QED BY <1>1, <1>2, <1>3

(* The steps that only move on. *)
LEMMA MovedShape ==
    ASSUME ControlInv, NEW w \in Workers, NEW p, job' = [job EXCEPT ![w].pc = p]
    PROVE  OnlyJob(w) /\ KeptAll(job'[w], job[w]) /\ job'[w].pc = p
BY Fields DEF OnlyJob, KeptAll, KeptButErr, KeptRequest, KeptTask, KeptPlan, KeptPlace, KeptErr,
              JobFields

LEMMA GiveUpShape ==
    ASSUME ControlInv, NEW w \in Workers, GiveUp(w)
    PROVE  LET j == job[w]
               n == job'[w]
           IN  /\ OnlyJob(w) /\ KeptAll(n, j) /\ j.pc = "next" /\ n.pc = "end" /\ j.err
BY MovedShape DEF GiveUp

LEMMA DeleteGroupDocShape ==
    ASSUME ControlInv, NEW w \in Workers, DeleteGroupDoc(w)
    PROVE  LET j == job[w]
               n == job'[w]
           IN  /\ OnlyJob(w) /\ KeptAll(n, j) /\ j.pc = "next" /\ n.pc = "end"
               /\ j.op = "deleteGroup" /\ j.work = {} /\ ~j.err
BY MovedShape DEF DeleteGroupDoc, Finishing

LEMMA DeleteAuthShape ==
    ASSUME ControlInv, NEW w \in Workers, DeleteAuth(w)
    PROVE  LET j == job[w]
               n == job'[w]
           IN  /\ OnlyJob(w) /\ KeptAll(n, j) /\ j.pc = "next" /\ n.pc = "end"
               /\ j.op = "deleteSub" /\ j.work = {} /\ ~j.err
BY MovedShape DEF DeleteAuth, Finishing

LEMMA StoreShape ==
    ASSUME ControlInv, NEW w \in Workers, Store(w)
    PROVE  LET j == job[w]
               n == job'[w]
           IN  OnlyJob(w) /\ KeptAll(n, j) /\ j.pc = "store" /\ n.pc = "end"
<1>1. job[w].pc = "store" /\ job' = [job EXCEPT ![w].pc = "end", ![w].seen = None]
  BY DEF Store
<1> QED
  BY <1>1, Fields DEF OnlyJob, KeptAll, KeptButErr, KeptRequest, KeptTask, KeptPlan, KeptPlace,
                      KeptErr, JobFields

LEMMA ExistsShape ==
    ASSUME ControlInv, NEW w \in Workers, Exists(w)
    PROVE  LET j == job[w]
               n == job'[w]
           IN  /\ OnlyJob(w) /\ KeptButErr(n, j) /\ n.hurt = j.hurt
               /\ j.pc = "exists" /\ n.pc \in {"store", "end"}
<1>1. \E b : job' = [job EXCEPT ![w].pc = IF b THEN "store" ELSE "end", ![w].err = ~b]
  BY DEF Exists
<1>2. PICK b : job' = [job EXCEPT ![w].pc = IF b THEN "store" ELSE "end", ![w].err = ~b]
  BY <1>1
<1> DEFINE p == IF b THEN "store" ELSE "end"
           e == ~b
<1>3. job' = [job EXCEPT ![w].pc = p, ![w].err = e] /\ p \in {"store", "end"}
  BY <1>2
<1>4. job[w].pc = "exists"
  BY DEF Exists
<1> HIDE DEF p, e
<1>5. OnlyJob(w) /\ KeptButErr(job'[w], job[w]) /\ job'[w].hurt = job[w].hurt /\ job'[w].pc = p
  BY <1>3, Fields DEF OnlyJob, KeptButErr, KeptRequest, KeptTask, KeptPlan, KeptPlace, JobFields
<1> QED BY <1>3, <1>4, <1>5

LEMMA EndShape ==
    ASSUME ControlInv, NEW w \in Workers, End(w)
    PROVE  OnlyJob(w) /\ job[w].pc = "end" /\ job'[w] = Idle
BY Fields DEF End, OnlyJob

LEMMA ReadPrevFailsShape ==
    ASSUME ControlInv, NEW w \in Workers, ReadPrevFails(w)
    PROVE  LET j == job[w]
               n == job'[w]
           IN  /\ OnlyJob(w) /\ j.pc = "prev" /\ n.hurt = TRUE
               /\ KeptRequest(n, j) /\ KeptPlan(n, j) /\ KeptPlace(n, j)
               /\ n.name = j.name /\ n.new = j.new
               /\ \/ /\ n.pc = "end" /\ j.op = "deleteGroup" /\ n.work = {} /\ n.err = TRUE
                     /\ n.prev = j.prev
                  \/ /\ n.pc = "post" /\ j.op # "deleteGroup" /\ n.work = j.work
                     /\ n.err = j.err /\ n.prev = IF OnSlice(j) THEN NoSlice ELSE NoGroup
<1> DEFINE prev == IF OnSlice(job[w]) THEN NoSlice ELSE NoGroup
<1>1. job[w].pc = "prev"
  BY DEF ReadPrevFails
<1>2. \/ /\ job[w].op = "deleteGroup"
         /\ job' = [job EXCEPT ![w].pc = "end", ![w].err = TRUE, ![w].work = {},
                               ![w].hurt = TRUE]
      \/ /\ job[w].op # "deleteGroup"
         /\ job' = [job EXCEPT ![w].pc = "post", ![w].hurt = TRUE, ![w].prev = prev]
  BY DEF ReadPrevFails
<1> HIDE DEF prev
<1>3. CASE /\ job[w].op = "deleteGroup"
           /\ job' = [job EXCEPT ![w].pc = "end", ![w].err = TRUE, ![w].work = {},
                                 ![w].hurt = TRUE]
  <2>1. LET j == job[w]
            n == job'[w]
        IN  /\ OnlyJob(w) /\ n.hurt = TRUE
            /\ KeptRequest(n, j) /\ KeptPlan(n, j) /\ KeptPlace(n, j)
            /\ n.name = j.name /\ n.new = j.new
            /\ n.pc = "end" /\ n.work = {} /\ n.err = TRUE /\ n.prev = j.prev
    BY <1>3, Fields DEF OnlyJob, KeptRequest, KeptPlan, KeptPlace, JobFields
  <2> QED BY <1>1, <1>3, <2>1
<1>4. CASE /\ job[w].op # "deleteGroup"
           /\ job' = [job EXCEPT ![w].pc = "post", ![w].hurt = TRUE, ![w].prev = prev]
  <2>1. LET j == job[w]
            n == job'[w]
        IN  /\ OnlyJob(w) /\ n.hurt = TRUE
            /\ KeptRequest(n, j) /\ KeptPlan(n, j) /\ KeptPlace(n, j)
            /\ n.name = j.name /\ n.new = j.new
            /\ n.pc = "post" /\ n.work = j.work /\ n.err = j.err /\ n.prev = prev
    BY <1>4, Fields DEF OnlyJob, KeptRequest, KeptPlan, KeptPlace, JobFields
  <2> QED BY <1>1, <1>4, <2>1 DEF prev
<1> QED BY <1>2, <1>3, <1>4

LEMMA CallFailsShape ==
    ASSUME ControlInv, NEW w \in Workers, CallFails(w)
    PROVE  LET j == job[w]
               n == job'[w]
           IN  /\ OnlyJob(w) /\ KeptButErr(n, j) /\ n.err = TRUE /\ n.hurt = TRUE
               /\ \/ j.pc = "post" /\ Looping(j) /\ n.pc = "next"
                  \/ j.pc \in {"list", "post", "exists", "store", "next"} /\ n.pc = "end"
<1>1. job[w].pc \in {"list", "post", "exists", "store", "next"}
  BY DEF CallFails
<1>2. CASE job[w].pc = "post" /\ Looping(job[w])
  <2>1. job' = [job EXCEPT ![w].err = TRUE, ![w].hurt = TRUE,
                             ![w].seen = None, ![w].pc = "next"]
    BY <1>2 DEF CallFails
  <2>2. LET n == job'[w]
        IN  /\ OnlyJob(w) /\ KeptButErr(n, job[w]) /\ n.err = TRUE /\ n.hurt = TRUE
            /\ n.pc = "next"
    BY <2>1, Fields DEF OnlyJob, KeptButErr, KeptRequest, KeptTask, KeptPlan, KeptPlace, JobFields
  <2> QED BY <1>1, <1>2, <2>2
<1>3. CASE ~(job[w].pc = "post" /\ Looping(job[w]))
  <2>1. job' = [job EXCEPT ![w].err = TRUE, ![w].hurt = TRUE,
                             ![w].seen = None, ![w].pc = "end"]
    BY <1>3 DEF CallFails
  <2>2. LET n == job'[w]
        IN  /\ OnlyJob(w) /\ KeptButErr(n, job[w]) /\ n.err = TRUE /\ n.hurt = TRUE
            /\ n.pc = "end"
    BY <2>1, Fields DEF OnlyJob, KeptButErr, KeptRequest, KeptTask, KeptPlan, KeptPlace, JobFields
  <2> QED BY <1>1, <1>3, <2>2
<1> QED BY <1>2, <1>3

LEMMA ReadFailsShape ==
    ASSUME ControlInv, NEW w \in Workers, ReadFails(w)
    PROVE  LET j == job[w]
               n == job'[w]
           IN  /\ OnlyJob(w) /\ n.hurt = TRUE /\ n.err = j.err
               /\ KeptRequest(n, j) /\ KeptTask(n, j) /\ KeptPlace(n, j) /\ n.prev = j.prev
               /\ n.plmn = j.plmn /\ n.gone = j.gone
               /\ n.left \subseteq j.left /\ n.imsis \subseteq j.imsis
               /\ \/ j.pc = "lock" /\ n.pc = "unlock" /\ n.left = j.left /\ n.imsis = j.imsis
                  \/ j.pc \in {"derive", "cleanup"} /\ n.pc = j.pc
<1> DEFINE j == job[w]
           n == job'[w]
           Same == /\ OnlyJob(w) /\ n.hurt = TRUE /\ n.err = j.err
                   /\ KeptRequest(n, j) /\ KeptTask(n, j) /\ KeptPlace(n, j) /\ n.prev = j.prev
                   /\ n.plmn = j.plmn /\ n.gone = j.gone
<1>1. \/ j.pc = "lock" /\ job' = [job EXCEPT ![w].pc = "unlock", ![w].hurt = TRUE]
      \/ /\ j.pc \in {"derive", "cleanup"}
         /\ \E g : job' = [job EXCEPT ![w].left = @ \ {g}, ![w].hurt = TRUE]
      \/ /\ j.pc = "derive"
         /\ \E i : job' = [job EXCEPT ![w].imsis = @ \ {i}, ![w].hurt = TRUE]
  BY DEF ReadFails
<1>2. CASE j.pc = "lock" /\ job' = [job EXCEPT ![w].pc = "unlock", ![w].hurt = TRUE]
  <2>1. Same /\ n.pc = "unlock" /\ n.left = j.left /\ n.imsis = j.imsis
    BY <1>2, Fields DEF OnlyJob, KeptRequest, KeptTask, KeptPlace, JobFields
  <2> QED BY <1>2, <2>1
<1>3. ASSUME j.pc \in {"derive", "cleanup"}, NEW g,
             job' = [job EXCEPT ![w].left = @ \ {g}, ![w].hurt = TRUE]
      PROVE  Same /\ n.pc = j.pc /\ n.left = j.left \ {g} /\ n.imsis = j.imsis
  BY <1>3, Fields DEF OnlyJob, KeptRequest, KeptTask, KeptPlace, JobFields
<1>4. ASSUME j.pc = "derive", NEW i,
             job' = [job EXCEPT ![w].imsis = @ \ {i}, ![w].hurt = TRUE]
      PROVE  Same /\ n.pc = j.pc /\ n.left = j.left /\ n.imsis = j.imsis \ {i}
  BY <1>4, Fields DEF OnlyJob, KeptRequest, KeptTask, KeptPlace, JobFields
<1> HIDE DEF j, n
<1>5. CASE /\ j.pc \in {"derive", "cleanup"}
           /\ \E g : job' = [job EXCEPT ![w].left = @ \ {g}, ![w].hurt = TRUE]
  <2>1. \E g : Same /\ n.pc = j.pc /\ n.left = j.left \ {g} /\ n.imsis = j.imsis
    BY <1>3, <1>5
  <2>2. Same /\ n.pc = j.pc /\ n.left \subseteq j.left /\ n.imsis \subseteq j.imsis
    BY <2>1
  <2> QED BY <1>5, <2>2 DEF j, n
<1>6. CASE /\ j.pc = "derive"
           /\ \E i : job' = [job EXCEPT ![w].imsis = @ \ {i}, ![w].hurt = TRUE]
  <2>1. \E i : Same /\ n.pc = j.pc /\ n.left = j.left /\ n.imsis = j.imsis \ {i}
    BY <1>4, <1>6
  <2>2. Same /\ n.pc = j.pc /\ n.left \subseteq j.left /\ n.imsis \subseteq j.imsis
    BY <2>1
  <2> QED BY <1>6, <2>2 DEF j, n
<1> QED BY <1>1, <1>2, <1>5, <1>6

LEMMA WriteFailsShape ==
    ASSUME ControlInv, NEW w \in Workers, WriteFails(w)
    PROVE  LET j == job[w]
               n == job'[w]
           IN  OnlyJob(w) /\ StopOf(n, j) /\ n.hurt = TRUE /\ j.pc \in {"derive", "cleanup"}
<1> DEFINE j == job[w]
           n == job'[w]
           a == [j EXCEPT !.hurt = TRUE]
           b(i) == [j EXCEPT !.gone = @ \ {i}, !.hurt = TRUE]
<1>1. j.pc \in {"derive", "cleanup"}
  BY DEF WriteFails, ControlInv, JobInv, JobOK, Deriving
<1>2. \/ job' = [job EXCEPT ![w] = Stopped(a)]
      \/ \E i : job' = [job EXCEPT ![w] = Stopped(b(i))]
  BY DEF WriteFails
<1>3. OnlyJob(w) /\ (n = Stopped(a) \/ \E i : n = Stopped(b(i)))
  <2>1. ASSUME NEW x, job' = [job EXCEPT ![w] = x] PROVE OnlyJob(w) /\ n = x
    BY <2>1, Fields DEF OnlyJob
  <2> HIDE DEF a, b
  <2> QED BY <1>2, <2>1
<1>4. \A x : /\ DOMAIN x = JobFields /\ KeptRequest(x, j) /\ KeptTask(x, j) /\ x.prev = j.prev
             /\ x.plmn = j.plmn /\ x.pc = j.pc /\ x.imsis = j.imsis /\ x.left = j.left
             /\ x.gone \subseteq j.gone /\ x.hurt = TRUE
             => StopOf(Stopped(x), j) /\ Stopped(x).hurt = TRUE
  <2> SUFFICES ASSUME NEW x, DOMAIN x = JobFields, KeptRequest(x, j), KeptTask(x, j),
                      x.prev = j.prev, x.plmn = j.plmn, x.pc = j.pc, x.imsis = j.imsis,
                      x.left = j.left, x.gone \subseteq j.gone, x.hurt = TRUE
               PROVE  StopOf(Stopped(x), j) /\ Stopped(x).hurt = TRUE
    OBVIOUS
  <2>1. StopOf(Stopped(x), x) /\ Stopped(x).hurt = x.hurt
    BY StoppedShape
  <2>2. OnSlice(x) <=> OnSlice(j)
    BY DEF OnSlice, KeptRequest
  <2> DEFINE y == Stopped(x)
  <2> HIDE DEF y
  <2>3. StopOf(y, j)
    BY <2>1, <2>2 DEF StopOf, KeptRequest, KeptTask, y
  <2> QED BY <2>1, <2>3 DEF y
<1>5. /\ DOMAIN a = JobFields /\ KeptRequest(a, j) /\ KeptTask(a, j) /\ a.prev = j.prev
      /\ a.plmn = j.plmn /\ a.pc = j.pc /\ a.imsis = j.imsis /\ a.left = j.left
      /\ a.gone \subseteq j.gone /\ a.hurt = TRUE
  BY Fields DEF KeptRequest, KeptTask, JobFields
<1>6. ASSUME NEW i
      PROVE  /\ DOMAIN b(i) = JobFields /\ KeptRequest(b(i), j) /\ KeptTask(b(i), j)
             /\ b(i).prev = j.prev
             /\ b(i).plmn = j.plmn /\ b(i).pc = j.pc /\ b(i).imsis = j.imsis /\ b(i).left = j.left
             /\ b(i).gone \subseteq j.gone /\ b(i).hurt = TRUE
  <2>1. b(i).gone = j.gone \ {i}
    BY Fields DEF JobFields
  <2> QED BY <2>1, Fields DEF KeptRequest, KeptTask, JobFields
<1> HIDE DEF a, b
<1>7. StopOf(n, j) /\ n.hurt = TRUE
  BY <1>3, <1>4, <1>5, <1>6
<1> QED BY <1>1, <1>3, <1>7

LEMMA RestartShape ==
    ASSUME Restart PROVE DOMAIN job' = Workers /\ \A v \in Workers : job'[v] = Idle
BY DEF Restart

-----------------------------------------------------------------------------
(* The job of the worker that makes a step stays in order. *)

JobGood(j) == RequestOK(j) /\ TaskOK(j) /\ PlanOK(j)

(* Which requests are at which steps. *)
LEMMA Places ==
    ASSUME NEW j, JobOK(j), RequestOK(j)
    PROVE  /\ OnSlice(j) <=> j.op \in SliceOps
           /\ j.pc \in Writing /\ ~OnSlice(j) => j.op \in GroupOps
           /\ j.pc \in {"list", "next"} => j.op \in {"deleteGroup", "deleteSub"}
           /\ j.cur # None => j.pc = "derive"
           /\ j.pc = "derive" => j.plmn \in Plmns
BY DEF JobOK, Storing, Deriving, Looping, RequestOK, OnSlice, Writing, Inside, SliceOps, GroupOps,
       SubOps

LEMMA Known ==
    ASSUME BaseInv, NEW w \in Workers
    PROVE  ControlInv /\ JobOK(job[w]) /\ RequestOK(job[w]) /\ TaskOK(job[w]) /\ PlanOK(job[w])
BY DEF BaseInv, ControlInv, JobInv, RequestInv, TaskInv, PlanInv

LEMMA ArriveGood ==
    ASSUME NEW n, Fresh(n), n.alone \in BOOLEAN PROVE JobGood(n)
<1>1. RequestOK(n)
  BY DEF Fresh, RequestOK, SliceOps, GroupOps, SubOps
<1>2. TaskOK(n)
  BY DEF Fresh, TaskOK, SliceOps, GroupOps, SubOps, Writing, Inside
<1>3. PlanOK(n)
  BY DEF Fresh, PlanOK
<1> QED BY <1>1, <1>2, <1>3 DEF JobGood

(* A job of which only the flag alone has changed. *)
LEMMA LoweredGood ==
    ASSUME NEW n, NEW j, Lowered(n, j), JobGood(j) PROVE JobGood(n)
<1>1. RequestOK(n)
  BY DEF Lowered, JobGood, RequestOK
<1>2. TaskOK(n)
  BY DEF Lowered, KeptTask, JobGood, TaskOK
<1>3. PlanOK(n)
  BY DEF Lowered, KeptPlan, KeptPlace, JobGood, PlanOK
<1> QED BY <1>1, <1>2, <1>3 DEF JobGood

LEMMA ReadPrevGood ==
    ASSUME BaseInv, NEW w \in Workers, ReadPrev(w) PROVE JobGood(job'[w])
<1> DEFINE j == job[w]
           n == job'[w]
<1>1. /\ j.pc = "prev" /\ n.pc = "post"
      /\ KeptRequest(n, j) /\ KeptTask(n, j) /\ KeptPlan(n, j) /\ KeptPlace(n, j)
      /\ n.prev = IF OnSlice(j) THEN slices[j.name] ELSE groups[j.name]
  BY ReadPrevShape DEF BaseInv
<1>2. JobOK(j) /\ RequestOK(j) /\ TaskOK(j) /\ PlanOK(j)
  BY Known
<1>3. \A s \in Slices : slices[s] \in SliceLike
  BY DEF BaseInv, StoreInv
<1>4. \A g \in Groups : groups[g] \in GroupLike
  BY DEF BaseInv, StoreInv
<1>5. OnSlice(j) <=> j.op \in SliceOps
  BY <1>2, Places
<1> HIDE DEF j, n
<1>6. RequestOK(n)
  BY <1>1, <1>2 DEF RequestOK, KeptRequest
<1>7. TaskOK(n)
  BY <1>1, <1>2, <1>3, <1>4, <1>5
     DEF TaskOK, KeptRequest, KeptTask, SliceOps, GroupOps, Writing, Inside
<1>8. PlanOK(n)
  BY <1>1, <1>2 DEF PlanOK, KeptRequest, KeptPlan, KeptPlace
<1> QED BY <1>6, <1>7, <1>8 DEF JobGood, n

LEMMA PostGood ==
    ASSUME BaseInv, NEW w \in Workers, Posts(w) PROVE JobGood(job'[w])
<1> DEFINE j == job[w]
           n == job'[w]
<1>1. j.pc = "post" /\ n.pc = "lock" /\ KeptAll(n, j)
  BY PostShape DEF BaseInv
<1>2. JobOK(j) /\ RequestOK(j) /\ TaskOK(j) /\ PlanOK(j)
  BY Known
<1> HIDE DEF j, n
<1> USE DEF KeptAll, KeptButErr
<1>3. RequestOK(n)
  BY <1>1, <1>2 DEF RequestOK, KeptRequest
<1>4. TaskOK(n)
  BY <1>1, <1>2 DEF TaskOK, KeptRequest, KeptTask, Writing, Inside
<1>5. PlanOK(n)
  BY <1>1, <1>2 DEF PlanOK, KeptRequest, KeptPlan, KeptPlace
<1> QED BY <1>3, <1>4, <1>5 DEF JobGood, n

(* A slice without device groups may have no PLMN. *)
LEMMA SlicePlmn ==
    ASSUME NEW d \in SliceLike
    PROVE  d.groups \subseteq Groups /\ (d.groups # {} \/ d.sst => d.plmn \in Plmns)
BY DEF SliceLike, SliceDocs, NoSlice

LEMMA LockSliceGood ==
    ASSUME BaseInv, NEW w \in Workers, LockSlice(w) PROVE JobGood(job'[w])
<1> DEFINE j == job[w]
           n == job'[w]
<1>1. /\ j.pc = "lock" /\ OnSlice(j)
      /\ KeptRequest(n, j) /\ KeptTask(n, j) /\ KeptPlace(n, j) /\ n.prev = j.prev
      /\ n.gone = j.gone /\ n.imsis = j.imsis
      /\ \/ /\ n.pc = "cleanup" /\ n.plmn = j.prev.plmn
            /\ n.left = DeletedDeviceGroups(j.new, j.prev)
         \/ n.pc = "derive" /\ n.left = j.new.groups
         \/ n.pc = "unlock" /\ n.left = j.left
  BY LockSliceShape DEF BaseInv
<1>2. JobOK(j) /\ RequestOK(j) /\ TaskOK(j) /\ PlanOK(j) /\ j.op \in SliceOps
  BY <1>1, Known, Places
<1>3. /\ j.new \in SliceLike /\ j.prev \in SliceLike
      /\ j.new.groups \subseteq Groups /\ j.prev.groups \subseteq Groups
      /\ j.prev.groups # {} => j.prev.plmn \in Plmns
  BY <1>1, <1>2, SlicePlmn DEF TaskOK, Writing
<1> HIDE DEF j, n
<1>4. RequestOK(n)
  BY <1>1, <1>2 DEF RequestOK, KeptRequest
<1>5. TaskOK(n)
  BY <1>1, <1>2, <1>3 DEF TaskOK, KeptRequest, KeptTask, Writing, Inside
<1>6. PlanOK(n)
  BY <1>1, <1>2, <1>3 DEF PlanOK, KeptRequest, KeptPlace, DeletedDeviceGroups
<1> QED BY <1>4, <1>5, <1>6 DEF JobGood, n

LEMMA LockGroupGood ==
    ASSUME BaseInv, NEW w \in Workers, LockGroup(w) PROVE JobGood(job'[w])
<1> DEFINE j == job[w]
           n == job'[w]
<1>1. /\ j.pc = "lock" /\ ~OnSlice(j)
      /\ KeptRequest(n, j) /\ KeptTask(n, j) /\ KeptPlace(n, j) /\ n.prev = j.prev
      /\ n.gone = j.gone /\ n.left = j.left
      /\ \/ n.pc = "unlock" /\ n.imsis = j.imsis
         \/ n.pc = "derive" /\ n.imsis = j.new.imsis
  BY LockGroupShape DEF BaseInv
<1>2. JobOK(j) /\ RequestOK(j) /\ TaskOK(j) /\ PlanOK(j) /\ j.op \in GroupOps
  BY <1>1, Known, Places DEF Writing
<1>3. j.new \in GroupDocs /\ j.new.imsis \subseteq Imsis
  BY <1>1, <1>2 DEF TaskOK, Writing, GroupDocs
<1> HIDE DEF j, n
<1>4. RequestOK(n)
  BY <1>1, <1>2 DEF RequestOK, KeptRequest
<1>5. TaskOK(n)
  BY <1>1, <1>2, <1>3 DEF TaskOK, KeptRequest, KeptTask, Writing, Inside
<1>6. PlanOK(n)
  BY <1>1, <1>2, <1>3 DEF PlanOK, KeptRequest, KeptPlace
<1> QED BY <1>4, <1>5, <1>6 DEF JobGood, n

LEMMA GroupImsis == ASSUME BaseInv, NEW g \in Groups PROVE groups[g].imsis \subseteq Imsis
<1>1. groups[g] \in GroupLike
  BY DEF BaseInv, StoreInv
<1>2. ASSUME NEW d \in GroupLike PROVE d.imsis \subseteq Imsis
  BY <1>2 DEF GroupLike, GroupDocs, NoGroup
<1> QED
  BY <1>1, <1>2

LEMMA ReadGroupGood ==
    ASSUME BaseInv, NEW w \in Workers, ReadGroup(w) PROVE JobGood(job'[w])
<1> DEFINE j == job[w]
           n == job'[w]
<1>1. /\ j.pc = "derive" /\ n.pc = "derive" /\ n.prev = j.prev /\ n.gone = j.gone
      /\ KeptRequest(n, j) /\ KeptTask(n, j) /\ KeptPlace(n, j)
      /\ \E g \in j.left :
            /\ n.left = j.left \ {g}
            /\ n.imsis = IF groups[g].kind = "none" THEN {} ELSE groups[g].imsis
  BY ReadGroupShape DEF BaseInv
<1>2. JobOK(j) /\ RequestOK(j) /\ TaskOK(j) /\ PlanOK(j)
  BY Known
<1>3. \A g \in Groups : groups[g].imsis \subseteq Imsis
  BY GroupImsis
<1>4. n.left \subseteq j.left /\ n.imsis \subseteq Imsis
  <2>1. PICK g \in j.left :
            /\ n.left = j.left \ {g}
            /\ n.imsis = IF groups[g].kind = "none" THEN {} ELSE groups[g].imsis
    BY <1>1
  <2>2. g \in Groups
    BY <1>2 DEF PlanOK
  <2> HIDE DEF j, n
  <2> QED BY <1>3, <2>1, <2>2
<1>5. j.left # {}
  BY <1>1
<1> HIDE DEF j, n
<1>6. RequestOK(n)
  BY <1>1, <1>2 DEF RequestOK, KeptRequest
<1>7. TaskOK(n)
  BY <1>1, <1>2 DEF TaskOK, KeptRequest, KeptTask
<1>8. PlanOK(n)
  BY <1>1, <1>2, <1>4, <1>5 DEF PlanOK, KeptRequest, KeptPlace
<1> QED BY <1>6, <1>7, <1>8 DEF JobGood, n

LEMMA CheckAuthGood ==
    ASSUME BaseInv, NEW w \in Workers, CheckAuth(w) PROVE JobGood(job'[w])
<1> DEFINE j == job[w]
           n == job'[w]
<1>1. /\ j.pc = "derive" /\ n.pc = "derive" /\ n.prev = j.prev /\ n.gone = j.gone
      /\ n.left = j.left /\ KeptRequest(n, j) /\ KeptTask(n, j)
      /\ \E i \in j.imsis : n.imsis = j.imsis \ {i} /\ n.cur \in {i, None}
  BY CheckAuthShape DEF BaseInv
<1>2. JobOK(j) /\ RequestOK(j) /\ TaskOK(j) /\ PlanOK(j)
  BY Known
<1> HIDE DEF j, n
<1>3. n.imsis \subseteq Imsis /\ n.cur \in Imsis \union {None}
  BY <1>1, <1>2 DEF PlanOK
<1>4. RequestOK(n)
  BY <1>1, <1>2 DEF RequestOK, KeptRequest
<1>5. TaskOK(n)
  BY <1>1, <1>2 DEF TaskOK, KeptRequest, KeptTask
<1>6. PlanOK(n)
  BY <1>1, <1>2, <1>3 DEF PlanOK, KeptRequest
<1> QED BY <1>4, <1>5, <1>6 DEF JobGood, n

(* An error leaves no plan for a slice, and the rest of it for a device group. *)
LEMMA StopGood ==
    ASSUME NEW j, NEW n, JobOK(j), JobGood(j), StopOf(n, j), j.pc \in {"derive", "cleanup"}
    PROVE  JobGood(n)
<1>1. OnSlice(j) <=> j.op \in SliceOps
  BY Places DEF JobGood
<1>2. RequestOK(n)
  BY DEF RequestOK, KeptRequest, StopOf, JobGood
<1>3. TaskOK(n)
  BY DEF TaskOK, KeptRequest, KeptTask, StopOf, JobGood, Writing, Inside
<1>4. CASE OnSlice(j)
  BY <1>2, <1>3, <1>4 DEF PlanOK, StopOf, JobGood, KeptRequest
<1>5. CASE ~OnSlice(j)
  BY <1>1, <1>2, <1>3, <1>5 DEF PlanOK, StopOf, JobGood, KeptRequest
<1> QED BY <1>4, <1>5

LEMMA WriteDocGood ==
    ASSUME BaseInv, NEW w \in Workers, WriteDoc(w) PROVE JobGood(job'[w])
<1> DEFINE j == job[w]
           n == job'[w]
<1>1. /\ j.pc = "derive" /\ j.cur # None
      /\ \/ /\ KeptRequest(n, j) /\ KeptTask(n, j) /\ KeptPlan(n, j)
            /\ n.prev = j.prev /\ n.pc = j.pc /\ n.cur \in {j.cur, None}
         \/ StopOf(n, j)
  BY WriteDocShape DEF BaseInv
<1>2. JobOK(j) /\ RequestOK(j) /\ TaskOK(j) /\ PlanOK(j)
  BY Known
<1> HIDE DEF j, n
<1>3. CASE StopOf(n, j)
  BY <1>1, <1>2, <1>3, StopGood DEF JobGood, n
<1>4. CASE /\ KeptRequest(n, j) /\ KeptTask(n, j) /\ KeptPlan(n, j)
           /\ n.prev = j.prev /\ n.pc = j.pc /\ n.cur \in {j.cur, None}
  <2>1. RequestOK(n)
    BY <1>1, <1>2, <1>4 DEF RequestOK, KeptRequest
  <2>2. TaskOK(n)
    BY <1>1, <1>2, <1>4 DEF TaskOK, KeptRequest, KeptTask
  <2>3. PlanOK(n)
    BY <1>1, <1>2, <1>4 DEF PlanOK, KeptRequest, KeptPlan
  <2> QED BY <2>1, <2>2, <2>3 DEF JobGood, n
<1> QED BY <1>1, <1>3, <1>4

LEMMA StartCleanupGood ==
    ASSUME BaseInv, NEW w \in Workers, StartCleanup(w) PROVE JobGood(job'[w])
<1> DEFINE j == job[w]
           n == job'[w]
<1>1. /\ j.pc = "derive" /\ n.pc = "cleanup"
      /\ j.left = {} /\ j.imsis = {} /\ j.cur = None
      /\ KeptRequest(n, j) /\ KeptTask(n, j) /\ KeptPlace(n, j)
      /\ n.prev = j.prev /\ n.imsis = j.imsis
      /\ \/ /\ OnSlice(j) /\ n.plmn = j.prev.plmn /\ n.gone = j.gone
            /\ n.left = DeletedDeviceGroups(j.new, j.prev)
         \/ /\ ~OnSlice(j) /\ n.plmn = j.plmn /\ n.left = j.left
            /\ n.gone = DeletedImsis(j.new, j.prev)
  BY StartCleanupShape DEF BaseInv
<1>2. JobOK(j) /\ RequestOK(j) /\ TaskOK(j) /\ PlanOK(j)
  BY Known
<1>3. j.plmn \in Plmns
  BY <1>1, <1>2, Places
<1>4. OnSlice(j) => j.prev.groups \subseteq Groups /\ (j.prev.groups # {} => j.prev.plmn \in Plmns)
  BY <1>1, <1>2, Places, SlicePlmn DEF TaskOK, Writing, Inside
<1>5. ~OnSlice(j) => j.prev.imsis \subseteq Imsis
  BY <1>1, <1>2, Places DEF TaskOK, Writing, Inside, GroupLike, GroupDocs, NoGroup
<1> HIDE DEF j, n
<1>6. RequestOK(n)
  BY <1>1, <1>2 DEF RequestOK, KeptRequest
<1>7. TaskOK(n)
  BY <1>1, <1>2 DEF TaskOK, KeptRequest, KeptTask, Writing, Inside
<1>8. OnSlice(j) <=> j.op \in SliceOps
  BY <1>2, Places
<1>9. CASE OnSlice(j)
  <2>1. PlanOK(n)
    BY <1>1, <1>2, <1>4, <1>8, <1>9
       DEF PlanOK, KeptRequest, KeptPlace, DeletedDeviceGroups
  <2> QED BY <1>6, <1>7, <2>1 DEF JobGood, n
<1>10. CASE ~OnSlice(j)
  <2>1. PlanOK(n)
    BY <1>1, <1>2, <1>3, <1>5, <1>8, <1>10 DEF PlanOK, KeptRequest, KeptPlace, DeletedImsis
  <2> QED BY <1>6, <1>7, <2>1 DEF JobGood, n
<1> QED BY <1>9, <1>10

LEMMA CleanGroupGood ==
    ASSUME BaseInv, NEW w \in Workers, CleanGroup(w) PROVE JobGood(job'[w])
<1> DEFINE j == job[w]
           n == job'[w]
<1>1. /\ j.pc = "cleanup" /\ n.pc = "cleanup" /\ n.prev = j.prev /\ n.plmn = j.plmn
      /\ n.imsis = j.imsis
      /\ KeptRequest(n, j) /\ KeptTask(n, j) /\ KeptPlace(n, j)
      /\ \E g \in j.left : n.left = j.left \ {g} /\ n.gone = groups[g].imsis
  BY CleanGroupShape DEF BaseInv
<1>2. JobOK(j) /\ RequestOK(j) /\ TaskOK(j) /\ PlanOK(j)
  BY Known
<1>3. \A g \in Groups : groups[g].imsis \subseteq Imsis
  BY GroupImsis
<1> HIDE DEF j, n
<1>4. n.left \subseteq j.left /\ n.gone \subseteq Imsis /\ j.left # {}
  BY <1>1, <1>2, <1>3 DEF PlanOK
<1>5. RequestOK(n)
  BY <1>1, <1>2 DEF RequestOK, KeptRequest
<1>6. TaskOK(n)
  BY <1>1, <1>2 DEF TaskOK, KeptRequest, KeptTask
<1>7. PlanOK(n)
  BY <1>1, <1>2, <1>4 DEF PlanOK, KeptRequest, KeptPlace
<1> QED BY <1>5, <1>6, <1>7 DEF JobGood, n

LEMMA RemoveGood ==
    ASSUME BaseInv, NEW w \in Workers, Remove(w) PROVE JobGood(job'[w])
<1> DEFINE j == job[w]
           n == job'[w]
<1>1. /\ j.pc = "cleanup" /\ n.pc = "cleanup" /\ n.prev = j.prev /\ n.plmn = j.plmn
      /\ n.imsis = j.imsis /\ n.left = j.left
      /\ KeptRequest(n, j) /\ KeptTask(n, j) /\ KeptPlace(n, j)
      /\ n.gone \subseteq j.gone
  BY RemoveShape DEF BaseInv
<1>2. JobOK(j) /\ RequestOK(j) /\ TaskOK(j) /\ PlanOK(j)
  BY Known
<1> HIDE DEF j, n
<1>3. RequestOK(n)
  BY <1>1, <1>2 DEF RequestOK, KeptRequest
<1>4. TaskOK(n)
  BY <1>1, <1>2 DEF TaskOK, KeptRequest, KeptTask
<1>5. PlanOK(n)
  BY <1>1, <1>2 DEF PlanOK, KeptRequest, KeptPlace
<1> QED BY <1>3, <1>4, <1>5 DEF JobGood, n

LEMMA UnlockGood ==
    ASSUME BaseInv, NEW w \in Workers, Unlock(w) PROVE JobGood(job'[w])
<1> DEFINE j == job[w]
           n == job'[w]
<1>1. /\ KeptAll(n, j) /\ n.pc \in {"next", "end"}
      /\ j.pc = "unlock" \/ (j.pc = "cleanup" /\ j.left = {} /\ j.gone = {})
      /\ n.pc = "next" => Looping(j)
  BY UnlockShape DEF BaseInv
<1>2. JobOK(j) /\ RequestOK(j) /\ TaskOK(j) /\ PlanOK(j)
  BY Known
<1> HIDE DEF j, n
<1> USE DEF KeptAll, KeptButErr
<1>3. RequestOK(n)
  BY <1>1, <1>2 DEF RequestOK, KeptRequest, SubOps, Looping
<1>4. TaskOK(n)
  BY <1>1, <1>2 DEF TaskOK, KeptRequest, KeptTask, Writing, Inside
<1>5. PlanOK(n)
  BY <1>1, <1>2 DEF PlanOK, KeptRequest, KeptPlan, KeptPlace
<1> QED BY <1>3, <1>4, <1>5 DEF JobGood, n

(* What a deletion writes are slices and device groups. *)
LEMMA FoundTyped ==
    ASSUME StoreInv, NEW j
    PROVE  /\ j.op = "deleteGroup" => \A d \in Found(j) :
                 d[1] \in Slices /\ d[2] \in SliceLike /\ j.arg \notin d[2].groups
           /\ j.op = "deleteSub" => \A d \in Found(j) :
                 d[1] \in Groups /\ d[2] \in GroupDocs /\ j.arg \notin d[2].imsis
<1>1. ASSUME NEW e \in AllSlices, j.arg \in e[2].groups
      PROVE  LET x == [e[2] EXCEPT !.groups = @ \ {j.arg}]
             IN  e[1] \in Slices /\ x \in SliceLike /\ j.arg \notin x.groups
  <2>1. e[1] \in Slices /\ e[2] \in SliceLike
    BY DEF StoreInv, AllSlices
  <2>2. e[2] \in SliceDocs
    BY <1>1, <2>1 DEF SliceLike, NoSlice
  <2> QED BY <2>1, <2>2 DEF SliceDocs, SliceLike
<1>2. ASSUME NEW e \in AllGroups, j.arg \in e[2].imsis
      PROVE  LET x == [e[2] EXCEPT !.imsis = @ \ {j.arg}]
             IN  e[1] \in Groups /\ x \in GroupDocs /\ j.arg \notin x.imsis
  <2>1. e[1] \in Groups /\ e[2] \in GroupLike
    BY DEF StoreInv, AllGroups, GroupLike
  <2>2. e[2] \in GroupDocs
    BY <1>2, <2>1 DEF GroupLike, NoGroup
  <2> QED BY <2>1, <2>2 DEF GroupDocs
<1>3. ASSUME j.op = "deleteGroup", NEW d \in Found(j)
      PROVE  d[1] \in Slices /\ d[2] \in SliceLike /\ j.arg \notin d[2].groups
  <2>1. PICK e \in AllSlices : /\ j.arg \in e[2].groups
                              /\ d = <<e[1], [e[2] EXCEPT !.groups = @ \ {j.arg}]>>
    BY <1>3 DEF Found
  <2> DEFINE x == [e[2] EXCEPT !.groups = @ \ {j.arg}]
  <2>2. e[1] \in Slices /\ x \in SliceLike /\ j.arg \notin x.groups
    BY <1>1, <2>1
  <2>3. d = <<e[1], x>>
    BY <2>1
  <2> HIDE DEF x
  <2> QED BY <2>2, <2>3
<1>4. ASSUME j.op = "deleteSub", NEW d \in Found(j)
      PROVE  d[1] \in Groups /\ d[2] \in GroupDocs /\ j.arg \notin d[2].imsis
  <2>1. PICK e \in AllGroups : /\ j.arg \in e[2].imsis
                              /\ d = <<e[1], [e[2] EXCEPT !.imsis = @ \ {j.arg}]>>
    BY <1>4 DEF Found
  <2> DEFINE x == [e[2] EXCEPT !.imsis = @ \ {j.arg}]
  <2>2. e[1] \in Groups /\ x \in GroupDocs /\ j.arg \notin x.imsis
    BY <1>2, <2>1
  <2>3. d = <<e[1], x>>
    BY <2>1
  <2> HIDE DEF x
  <2> QED BY <2>2, <2>3
<1> QED BY <1>3, <1>4

LEMMA ListGood ==
    ASSUME BaseInv, NEW w \in Workers, List(w) PROVE JobGood(job'[w])
<1> DEFINE j == job[w]
           n == job'[w]
<1>1. /\ j.pc = "list" /\ n.pc = "next"
      /\ KeptRequest(n, j) /\ KeptPlan(n, j) /\ KeptPlace(n, j)
      /\ n.work = Found(j)
  BY ListShape DEF BaseInv
<1>2. JobOK(j) /\ RequestOK(j) /\ TaskOK(j) /\ PlanOK(j)
  BY Known
<1>3. j.op \in {"deleteGroup", "deleteSub"}
  BY <1>1, <1>2, Places
<1>4. /\ j.op = "deleteGroup" => \A d \in Found(j) : d[1] \in Slices /\ d[2] \in SliceLike
      /\ j.op = "deleteSub" => \A d \in Found(j) : d[1] \in Groups /\ d[2] \in GroupDocs
  BY FoundTyped DEF BaseInv
<1> HIDE DEF j, n
<1>5. RequestOK(n)
  BY <1>1, <1>2, <1>3 DEF RequestOK, KeptRequest, SubOps
<1>6. TaskOK(n)
  BY <1>1, <1>2, <1>3, <1>4
     DEF TaskOK, KeptRequest, SliceOps, GroupOps, Writing, Inside
<1>7. PlanOK(n)
  BY <1>1, <1>2 DEF PlanOK, KeptRequest, KeptPlan, KeptPlace
<1> QED BY <1>5, <1>6, <1>7 DEF JobGood, n

LEMMA NextDocGood ==
    ASSUME BaseInv, NEW w \in Workers, NextDoc(w) PROVE JobGood(job'[w])
<1> DEFINE j == job[w]
           n == job'[w]
<1>1. /\ j.pc = "next" /\ n.pc = "prev"
      /\ KeptRequest(n, j) /\ KeptPlan(n, j) /\ KeptPlace(n, j)
      /\ \E d \in j.work : n.work = j.work \ {d} /\ n.name = d[1] /\ n.new = d[2]
  BY NextDocShape DEF BaseInv
<1>2. JobOK(j) /\ RequestOK(j) /\ TaskOK(j) /\ PlanOK(j)
  BY Known
<1>3. j.op \in {"deleteGroup", "deleteSub"}
  BY <1>1, <1>2, Places
<1> HIDE DEF j, n
<1>4. PICK d \in j.work : n.work = j.work \ {d} /\ n.name = d[1] /\ n.new = d[2]
  BY <1>1
<1>5. RequestOK(n)
  BY <1>1, <1>2, <1>3 DEF RequestOK, KeptRequest, SubOps
<1>6. TaskOK(n)
  BY <1>1, <1>2, <1>3, <1>4 DEF TaskOK, KeptRequest, SliceOps, GroupOps, Writing, Inside
<1>7. PlanOK(n)
  BY <1>1, <1>2 DEF PlanOK, KeptRequest, KeptPlan, KeptPlace
<1> QED BY <1>5, <1>6, <1>7 DEF JobGood, n

(* A job that moves on to its end, or from the check of a subscriber to its
   storing, has nothing else to do.                                           *)
LEMMA MovedGood ==
    ASSUME NEW j, NEW n, JobOK(j), JobGood(j), KeptButErr(n, j),
           \/ j.pc \in {"next", "store", "list", "post", "exists"} /\ n.pc = "end"
           \/ j.pc = "post" /\ Looping(j) /\ n.pc = "next"
           \/ j.pc = "exists" /\ n.pc = "store"
    PROVE  JobGood(n)
<1> USE DEF KeptButErr
<1>1. RequestOK(n)
  BY DEF JobGood, RequestOK, KeptRequest, SubOps, Looping
<1>2. TaskOK(n)
  BY DEF JobGood, TaskOK, KeptRequest, KeptTask, Writing, Inside
<1>3. PlanOK(n)
  BY DEF JobGood, PlanOK, KeptRequest, KeptPlan, KeptPlace
<1> QED BY <1>1, <1>2, <1>3 DEF JobGood

LEMMA SameGood ==
    ASSUME NEW n, NEW j, KeptAll(n, j), n.pc = j.pc, JobGood(j) PROVE JobGood(n)
<1> USE DEF KeptAll, KeptButErr
<1>1. RequestOK(n)
  BY DEF JobGood, RequestOK, KeptRequest
<1>2. TaskOK(n)
  BY DEF JobGood, TaskOK, KeptRequest, KeptTask
<1>3. PlanOK(n)
  BY DEF JobGood, PlanOK, KeptRequest, KeptPlan, KeptPlace
<1> QED BY <1>1, <1>2, <1>3 DEF JobGood

LEMMA SimpleGood ==
    ASSUME BaseInv, NEW w \in Workers,
           \/ GiveUp(w) \/ DeleteGroupDoc(w) \/ DeleteAuth(w) \/ Store(w) \/ Exists(w)
           \/ CallFails(w) \/ Find(w)
    PROVE  JobGood(job'[w])
<1> DEFINE j == job[w]
           n == job'[w]
<1>1. JobOK(j) /\ JobGood(j) /\ ControlInv
  BY Known DEF JobGood
<1>2. CASE GiveUp(w)
  BY <1>1, <1>2, GiveUpShape, MovedGood DEF KeptAll
<1>3. CASE DeleteGroupDoc(w)
  BY <1>1, <1>3, DeleteGroupDocShape, MovedGood DEF KeptAll
<1>4. CASE DeleteAuth(w)
  BY <1>1, <1>4, DeleteAuthShape, MovedGood DEF KeptAll
<1>5. CASE Store(w)
  BY <1>1, <1>5, StoreShape, MovedGood DEF KeptAll
<1>6. CASE Exists(w)
  BY <1>1, <1>6, ExistsShape, MovedGood
<1>7. CASE CallFails(w)
  BY <1>1, <1>7, CallFailsShape, MovedGood
<1>8. CASE Find(w)
  <2>1. KeptAll(job'[w], job[w]) /\ job'[w].pc = job[w].pc
    BY <1>1, <1>8, FindShape
  <2> QED BY <1>1, <2>1, SameGood
<1> QED BY <1>2, <1>3, <1>4, <1>5, <1>6, <1>7, <1>8

LEMMA IdleGood == JobGood(Idle)
<1>1. RequestOK(Idle)
  BY DEF RequestOK, Idle, SliceOps, GroupOps, SubOps
<1>2. TaskOK(Idle)
  BY DEF TaskOK, Idle, SliceOps, GroupOps
<1>3. PlanOK(Idle)
  BY DEF PlanOK, Idle
<1> QED BY <1>1, <1>2, <1>3 DEF JobGood

LEMMA ReadPrevFailsGood ==
    ASSUME BaseInv, NEW w \in Workers, ReadPrevFails(w) PROVE JobGood(job'[w])
<1> DEFINE j == job[w]
           n == job'[w]
<1>1. /\ j.pc = "prev"
      /\ KeptRequest(n, j) /\ KeptPlan(n, j) /\ KeptPlace(n, j)
      /\ n.name = j.name /\ n.new = j.new
      /\ \/ /\ n.pc = "end" /\ j.op = "deleteGroup" /\ n.work = {}
         \/ /\ n.pc = "post" /\ n.work = j.work
            /\ n.prev = IF OnSlice(j) THEN NoSlice ELSE NoGroup
  BY ReadPrevFailsShape DEF BaseInv
<1>2. JobOK(j) /\ RequestOK(j) /\ TaskOK(j) /\ PlanOK(j)
  BY Known
<1>3. NoSlice \in SliceLike /\ NoGroup \in GroupLike
  BY DEF SliceLike, GroupLike
<1>4. OnSlice(j) <=> j.op \in SliceOps
  BY <1>2, Places
<1> HIDE DEF j, n
<1>5. RequestOK(n)
  BY <1>1, <1>2 DEF RequestOK, KeptRequest, SubOps
<1>6. TaskOK(n)
  BY <1>1, <1>2, <1>3, <1>4 DEF TaskOK, KeptRequest, SliceOps, GroupOps, Writing, Inside
<1>7. PlanOK(n)
  BY <1>1, <1>2 DEF PlanOK, KeptRequest, KeptPlan, KeptPlace
<1> QED BY <1>5, <1>6, <1>7 DEF JobGood, n

LEMMA ReadFailsGood ==
    ASSUME BaseInv, NEW w \in Workers, ReadFails(w) PROVE JobGood(job'[w])
<1> DEFINE j == job[w]
           n == job'[w]
<1>1. /\ KeptRequest(n, j) /\ KeptTask(n, j) /\ KeptPlace(n, j) /\ n.prev = j.prev
      /\ n.plmn = j.plmn /\ n.gone = j.gone
      /\ n.left \subseteq j.left /\ n.imsis \subseteq j.imsis
      /\ \/ j.pc = "lock" /\ n.pc = "unlock"
         \/ j.pc \in {"derive", "cleanup"} /\ n.pc = j.pc
  BY ReadFailsShape DEF BaseInv
<1>2. JobOK(j) /\ RequestOK(j) /\ TaskOK(j) /\ PlanOK(j)
  BY Known
<1> HIDE DEF j, n
<1>3. RequestOK(n)
  BY <1>1, <1>2 DEF RequestOK, KeptRequest, SubOps
<1>4. TaskOK(n)
  BY <1>1, <1>2 DEF TaskOK, KeptRequest, KeptTask, Writing, Inside
<1>5. PlanOK(n)
  BY <1>1, <1>2 DEF PlanOK, KeptRequest, KeptPlace
<1> QED BY <1>3, <1>4, <1>5 DEF JobGood, n

-----------------------------------------------------------------------------
(* Every step of a worker but the arrival of a request. *)
Acts(w) == Locks(w) \/ Proceed(w) \/ Fails(w)

LEMMA ActsGood ==
    ASSUME BaseInv, NEW w \in Workers, Acts(w)
    PROVE  /\ OnlyJob(w) /\ job[w].pc # "idle" /\ JobGood(job'[w])
           /\ KeptRequest(job'[w], job[w]) \/ job'[w] = Idle
<1> DEFINE Good == /\ OnlyJob(w) /\ job[w].pc # "idle" /\ JobGood(job'[w])
                   /\ KeptRequest(job'[w], job[w]) \/ job'[w] = Idle
<1> USE DEF KeptAll, KeptButErr
<1>1. ControlInv
  BY DEF BaseInv
<1>2. CASE LockSlice(w)
  BY <1>1, <1>2, LockSliceShape, LockSliceGood
<1>3. CASE LockGroup(w)
  BY <1>1, <1>3, LockGroupShape, LockGroupGood
<1>4. CASE DeleteGroupDoc(w)
  BY <1>1, <1>4, DeleteGroupDocShape, SimpleGood
<1>5. CASE ReadPrev(w)
  BY <1>1, <1>5, ReadPrevShape, ReadPrevGood
<1>6. CASE Posts(w)
  BY <1>1, <1>6, PostShape, PostGood
<1>7. CASE ReadGroup(w)
  BY <1>1, <1>7, ReadGroupShape, ReadGroupGood
<1>8. CASE CheckAuth(w)
  BY <1>1, <1>8, CheckAuthShape, CheckAuthGood
<1>9. CASE WriteDoc(w)
  BY <1>1, <1>9, WriteDocShape, WriteDocGood DEF StopOf
<1>10. CASE StartCleanup(w)
  BY <1>1, <1>10, StartCleanupShape, StartCleanupGood
<1>11. CASE CleanGroup(w)
  BY <1>1, <1>11, CleanGroupShape, CleanGroupGood
<1>12. CASE Remove(w)
  BY <1>1, <1>12, RemoveShape, RemoveGood
<1>13. CASE Unlock(w)
  BY <1>1, <1>13, UnlockShape, UnlockGood
<1>14. CASE List(w)
  BY <1>1, <1>14, ListShape, ListGood
<1>15. CASE NextDoc(w)
  BY <1>1, <1>15, NextDocShape, NextDocGood
<1>16. CASE GiveUp(w)
  BY <1>1, <1>16, GiveUpShape, SimpleGood
<1>17. CASE DeleteAuth(w)
  BY <1>1, <1>17, DeleteAuthShape, SimpleGood
<1>18. CASE Exists(w)
  BY <1>1, <1>18, ExistsShape, SimpleGood
<1>19. CASE Store(w)
  BY <1>1, <1>19, StoreShape, SimpleGood
<1>20. CASE End(w)
  BY <1>1, <1>20, EndShape, IdleGood
<1>21. CASE ReadPrevFails(w)
  BY <1>1, <1>21, ReadPrevFailsShape, ReadPrevFailsGood
<1>22. CASE CallFails(w)
  BY <1>1, <1>22, CallFailsShape, SimpleGood
<1>23. CASE ReadFails(w)
  BY <1>1, <1>23, ReadFailsShape, ReadFailsGood
<1>24. CASE WriteFails(w)
  <2>1. JobOK(job[w]) /\ JobGood(job[w])
    BY Known DEF JobGood
  <2> QED BY <1>1, <1>24, <2>1, WriteFailsShape, StopGood DEF StopOf
<1>26. CASE Find(w)
  <2>1. job[w].pc # "idle"
    BY <1>1, <1>26, FindShape DEF Upserts, ControlInv, JobInv, JobOK, Deriving
  <2> QED BY <1>1, <1>26, <2>1, FindShape, SimpleGood
<1> HIDE DEF Good
<1>25. Good
  BY <1>2, <1>3, <1>4, <1>5, <1>6, <1>7, <1>8, <1>9, <1>10, <1>11, <1>12, <1>13, <1>14, <1>15,
     <1>16, <1>17, <1>18, <1>19, <1>20, <1>21, <1>22, <1>23, <1>24, <1>26
     DEF Acts, Locks, Proceed, Fails, Posts, Find, Good
<1> QED BY <1>25 DEF Good

(* What the steps make of what is stored. *)
LEMMA KeyTyped ==
    ASSUME NEW k \in DOMAIN Derived, NEW i \in Imsis, NEW p \in Plmns
    PROVE  Key(Derived[k], i, p) \in Keys
BY DEF Derived, Key, Keys

LEMMA PostTyped ==
    ASSUME BaseInv, NEW w \in Workers, Posts(w)
    PROVE  groups' \in [Groups -> GroupLike] /\ slices' \in [Slices -> SliceLike]
<1> DEFINE j == job[w]
<1>1. JobOK(j) /\ RequestOK(j) /\ TaskOK(j) /\ j.pc = "post"
  BY Known DEF Posts, Post, DeleteSliceDoc
<1>2. StoreInv
  BY DEF BaseInv
<1>3. CASE Post(w) /\ OnSlice(j)
  <2>1. j.new \in SliceLike
    BY <1>1, <1>3, Places DEF TaskOK, Writing
  <2>2. slices' \in {slices, [slices EXCEPT ![j.name] = j.new]} /\ groups' = groups
    BY <1>3 DEF Post, Posted
  <2> QED BY <1>2, <2>1, <2>2 DEF StoreInv
<1>4. CASE Post(w) /\ ~OnSlice(j)
  <2>1. j.name \in Groups /\ j.new \in GroupDocs
    BY <1>1, <1>4, Places DEF TaskOK, Writing
  <2>2. /\ slices' = slices
        /\ \/ groups' = groups
           \/ groups' = [groups EXCEPT ![j.name] = Posted(j)] /\ (Present(j) = {}) = (j.seen = {})
    BY <1>4 DEF Post
  <2>3. (Present(j) = {}) = (j.seen = {}) => Posted(j) \in GroupDocs
    <3>1. j.seen # {} /\ Present(j) # {} => groups[j.name] \in GroupDocs
      BY <1>1, <1>2, <1>4, <2>1 DEF Present, StoreInv, GroupLike
    <3>2. ASSUME NEW old \in GroupDocs, NEW new \in GroupDocs PROVE Merged(old, new) \in GroupDocs
      BY DEF Merged, GroupDocs
    <3> QED BY <1>4, <2>1, <3>1, <3>2 DEF Posted
  <2> QED BY <1>2, <2>1, <2>2, <2>3 DEF StoreInv, GroupLike
<1>5. CASE DeleteSliceDoc(w)
  <2>1. groups' = groups /\ \E d \in SliceLike : slices' = [slices EXCEPT ![j.name] = d]
    BY <1>2, <1>5 DEF DeleteSliceDoc, Extra, StoreInv, SliceLike
  <2> QED BY <1>2, <2>1 DEF StoreInv
<1> QED BY <1>3, <1>4, <1>5 DEF Posts

(* What is stored a second time is typed like what is stored first. *)
ExtraTyped(e) == /\ e[1] = "slice" => e[2] \in Slices /\ e[3] \in SliceLike
                 /\ e[1] = "group" => e[2] \in Groups /\ e[3] \in GroupDocs

LEMMA ExtraStaysTyped ==
    ASSUME BaseInv, NEW w \in Workers, Acts(w), NEW e \in DOMAIN extra'
    PROVE  ExtraTyped(e)
<1> DEFINE j == job[w]
<1>1. CASE e \in DOMAIN extra
  BY <1>1 DEF BaseInv, StoreInv, ExtraTyped
<1>2. CASE e[1] \in {"amData", "auth"}
  BY <1>2 DEF ExtraTyped
<1>3. ASSUME j.pc = "post", e = <<IF OnSlice(j) THEN "slice" ELSE "group", j.name, j.new>>
      PROVE  ExtraTyped(e)
  <2>1. JobOK(j) /\ RequestOK(j) /\ TaskOK(j)
    BY Known
  <2>2. OnSlice(j) => j.name \in Slices /\ j.new \in SliceLike
    BY <1>3, <2>1, Places DEF TaskOK, Writing
  <2>3. ~OnSlice(j) => j.name \in Groups /\ j.new \in GroupDocs
    BY <1>3, <2>1, Places DEF TaskOK, Writing
  <2> QED BY <1>3, <2>2, <2>3 DEF ExtraTyped
<1> QED BY <1>1, <1>2, <1>3, ExtraOnly DEF Acts

LEMMA UpsertTyped ==
    ASSUME BaseInv, NEW w \in Workers, WriteDoc(w) PROVE docs' \subseteq Keys
<1> DEFINE j == job[w]
<1>1. j.cur # None /\ j.plmn \in Plmns /\ j.k \in 1..5
  BY WriteDocShape DEF BaseInv
<1>2. j.cur \in Imsis
  BY <1>1, Known DEF PlanOK
<1>3. Key(Derived[j.k], j.cur, j.plmn) \in Keys /\ <<"amData", j.cur, j.plmn>> \in Keys
  BY <1>1, <1>2, KeyTyped DEF Derived, Keys
<1>4. docs' \subseteq docs \union {Key(Derived[j.k], j.cur, j.plmn), <<"amData", j.cur, j.plmn>>}
  BY DEF WriteDoc, Upsert, InsertAmData, UpdateAmData, Without
<1> QED BY <1>3, <1>4 DEF BaseInv, StoreInv

LEMMA StoreStep ==
    ASSUME BaseInv, [Next]_vars PROVE StoreInv'
<1> DEFINE Typed == \A e \in DOMAIN extra' : ExtraTyped(e)
<1>1. StoreInv
  BY DEF BaseInv
<1>2. ASSUME UNCHANGED store, rwLock' \in Workers \union {None}, faults' \in 0..MaxFaults
      PROVE  StoreInv'
  BY <1>1, <1>2 DEF StoreInv, store
<1>3. rwLock \in Workers \union {None} /\ faults \in 0..MaxFaults
  BY <1>1 DEF StoreInv
<1>4. Fault => faults' \in 0..MaxFaults
  BY <1>3, ProvisioningAssumption DEF Fault
<1>17. ASSUME NEW w \in Workers, Acts(w) PROVE Typed
  BY <1>17, ExtraStaysTyped
<1> HIDE DEF Typed
<1>18. ASSUME Typed, auth' \subseteq Imsis, groups' \in [Groups -> GroupLike],
              slices' \in [Slices -> SliceLike], docs' \subseteq Keys, UNCHANGED <<rwLock, faults>>
       PROVE  StoreInv'
  BY <1>1, <1>18 DEF StoreInv, Typed, ExtraTyped
<1>19. /\ auth \subseteq Imsis /\ groups \in [Groups -> GroupLike]
       /\ slices \in [Slices -> SliceLike] /\ docs \subseteq Keys
  BY <1>1 DEF StoreInv
<1>5. ASSUME NEW w \in Workers, Arrive(w) PROVE StoreInv'
  <2>1. PICK j : Begin(w, j)
    BY <1>5, ArriveStep
  <2> QED BY <1>2, <1>3, <2>1 DEF Begin
<1>6. ASSUME NEW w \in Workers, Locks(w) PROVE StoreInv'
  <2>1. CASE LockSlice(w)
    BY <1>2, <1>3, <2>1 DEF LockSlice, history
  <2>2. CASE LockGroup(w)
    BY <1>2, <1>3, <2>2 DEF LockGroup, history
  <2>3. CASE DeleteGroupDoc(w)
    <3>1. /\ \E d \in GroupLike : groups' = [groups EXCEPT ![job[w].arg] = d]
          /\ UNCHANGED <<auth, slices, docs, rwLock, faults>>
      BY <1>1, <2>3 DEF DeleteGroupDoc, Extra, StoreInv, GroupLike, history
    <3>2. groups' \in [Groups -> GroupLike]
      BY <1>19, <3>1
    <3> QED BY <1>17, <1>18, <1>19, <2>3, <3>1, <3>2 DEF Acts, Locks
  <2> QED BY <1>6, <2>1, <2>2, <2>3 DEF Locks
<1>7. ASSUME NEW w \in Workers,
             \/ ReadPrev(w) \/ ReadGroup(w) \/ CheckAuth(w) \/ StartCleanup(w) \/ CleanGroup(w)
             \/ Unlock(w) \/ List(w) \/ NextDoc(w) \/ GiveUp(w) \/ Exists(w) \/ End(w)
             \/ Find(w)
      PROVE  StoreInv'
  <2>1. UNCHANGED <<store, faults>> /\ rwLock' \in {rwLock, None}
    BY <1>7 DEF ReadPrev, ReadGroup, CheckAuth, StartCleanup, CleanGroup, Unlock, List, NextDoc,
                GiveUp, Exists, End, Find, history
  <2> QED BY <1>2, <1>3, <2>1
<1>8. ASSUME NEW w \in Workers, Posts(w) PROVE StoreInv'
  <2>1. UNCHANGED <<auth, docs, rwLock, faults>>
    BY <1>8 DEF Posts, Post, DeleteSliceDoc, history
  <2> QED BY <1>8, <1>17, <1>18, <1>19, <2>1, PostTyped DEF Acts, Proceed, Posts
<1>9. ASSUME NEW w \in Workers, WriteDoc(w) PROVE StoreInv'
  <2>1. UNCHANGED <<auth, groups, slices, rwLock, faults>>
    BY <1>9 DEF WriteDoc
  <2> QED BY <1>9, <1>17, <1>18, <1>19, <2>1, UpsertTyped DEF Acts, Proceed
<1>10. ASSUME NEW w \in Workers, Remove(w) \/ DeleteAuth(w) PROVE StoreInv'
  <2>1. /\ auth' \subseteq auth /\ docs' \subseteq docs
        /\ UNCHANGED <<groups, slices, rwLock, faults>>
    BY <1>10 DEF Remove, DeleteAuth, Without, history
  <2> QED BY <1>10, <1>17, <1>18, <1>19, <2>1 DEF Acts, Proceed
<1>12. ASSUME NEW w \in Workers, Store(w) PROVE StoreInv'
  <2>1. job[w].arg \in Imsis
    BY <1>12, Known DEF Store, RequestOK
  <2>2. /\ auth' = auth \union {job[w].arg}
        /\ docs' \subseteq docs \union {<<"amData", job[w].arg, None>>}
        /\ UNCHANGED <<groups, slices, rwLock, faults>>
    BY <1>12 DEF Store
  <2>3. <<"amData", job[w].arg, None>> \in Keys
    BY <2>1 DEF Keys
  <2> QED BY <1>12, <1>17, <1>18, <1>19, <2>1, <2>2, <2>3 DEF Acts, Proceed
<1>13. ASSUME NEW w \in Workers, Fails(w) PROVE StoreInv'
  <2>1. UNCHANGED store /\ Fault /\ rwLock' \in {rwLock, w}
    BY <1>13 DEF Fails, ReadPrevFails, CallFails, ReadFails, WriteFails
  <2> QED BY <1>2, <1>3, <1>4, <2>1
<1>14. CASE Restart
  BY <1>2, <1>4, <1>14 DEF Restart
<1>15. CASE UNCHANGED vars
  BY <1>2, <1>3, <1>15 DEF vars, store
<1>16. ASSUME NEW w \in Workers, Proceed(w) PROVE StoreInv'
  BY <1>7, <1>8, <1>9, <1>10, <1>12, <1>16 DEF Proceed, Posts
<1> QED BY <1>5, <1>6, <1>13, <1>14, <1>15, <1>16 DEF Next

-----------------------------------------------------------------------------
(* What a find has seen. *)
LEMMA NotSeen ==
    ASSUME BaseInv, NEW w \in Workers, job[w].pc \notin {"post", "store"}, job[w].cur = None
    PROVE  job[w].seen = None
BY DEF BaseInv, SeenInv, Upserts

LEMMA NotSeenInLoop ==
    ASSUME BaseInv, NEW w \in Workers, job[w].pc # "derive", job[w].pc \notin {"post", "store"}
    PROVE  job[w].seen = None
BY NotSeen, Known DEF JobOK, Deriving

(* Only a find sets it; a step of another kind has none, or forgets it. *)
LEMMA SeenOnly ==
    ASSUME BaseInv, NEW w \in Workers, Acts(w)
    PROVE  Find(w) \/ job'[w].seen = None
<1> DEFINE j == job[w]
           n == job'[w]
           Forgets == n.seen = None
<1>1. DOMAIN j = JobFields /\ DOMAIN job = Workers
  BY Fields DEF BaseInv
<1> USE DEF JobFields
<1>2. CASE LockSlice(w)
  <2>1. j.seen = None
    BY <1>2, NotSeenInLoop DEF LockSlice
  <2>2. n.seen = j.seen
    BY <1>1, <1>2 DEF LockSlice
  <2> QED BY <2>1, <2>2
<1>3. CASE LockGroup(w)
  <2>1. j.seen = None
    BY <1>3, NotSeenInLoop DEF LockGroup
  <2>2. ASSUME \/ job' = [job EXCEPT ![w].pc = "unlock"]
               \/ job' = [job EXCEPT ![w].pc = "unlock", ![w].err = TRUE]
               \/ \E p, e : job' = [job EXCEPT ![w].pc = "derive", ![w].plmn = p,
                                               ![w].imsis = j.new.imsis, ![w].extent = e]
        PROVE  n.seen = j.seen
    BY <1>1, <2>2
  <2>3. n.seen = j.seen
    BY <1>3, <2>2 DEF LockGroup
  <2> QED BY <2>1, <2>3
<1>4. CASE \/ DeleteGroupDoc(w) \/ DeleteAuth(w) \/ ReadPrev(w) \/ Unlock(w) \/ List(w)
           \/ GiveUp(w) \/ Exists(w) \/ CleanGroup(w) \/ Remove(w) \/ NextDoc(w)
           \/ ReadPrevFails(w)
  <2>1. j.seen = None
    BY <1>4, NotSeenInLoop
       DEF DeleteGroupDoc, DeleteAuth, Finishing, ReadPrev, Unlock, List, GiveUp, Exists,
           CleanGroup, Remove, NextDoc, ReadPrevFails
  <2>2. CASE DeleteGroupDoc(w) \/ DeleteAuth(w) \/ ReadPrev(w) \/ Unlock(w) \/ List(w)
    BY <1>1, <2>1, <2>2 DEF DeleteGroupDoc, DeleteAuth, ReadPrev, Unlock, List
  <2>3. CASE GiveUp(w) \/ Exists(w) \/ CleanGroup(w) \/ Remove(w)
    BY <1>1, <2>1, <2>3 DEF GiveUp, Exists, CleanGroup, Remove
  <2>4. CASE NextDoc(w)
    <3>1. PICK d : job' = [job EXCEPT ![w] = [j EXCEPT !.pc = "prev", !.work = @ \ {d},
                                                       !.name = d[1], !.new = d[2]]]
      BY <2>4 DEF NextDoc
    <3> QED BY <1>1, <2>1, <3>1
  <2>5. CASE ReadPrevFails(w)
    <3>1. \/ job' = [job EXCEPT ![w].pc = "end", ![w].err = TRUE, ![w].work = {}, ![w].hurt = TRUE]
          \/ \E x : job' = [job EXCEPT ![w].pc = "post", ![w].hurt = TRUE, ![w].prev = x]
      BY <2>5 DEF ReadPrevFails
    <3> QED BY <1>1, <2>1, <3>1
  <2> QED BY <1>4, <2>2, <2>3, <2>4, <2>5
<1>5. CASE ReadGroup(w) \/ CheckAuth(w) \/ StartCleanup(w)
  <2>1. j.seen = None
    BY <1>5, NotSeen DEF ReadGroup, CheckAuth, StartCleanup
  <2>2. CASE ReadGroup(w)
    <3>1. PICK g \in j.left :
             job' = [job EXCEPT ![w].left = @ \ {g},
                                ![w].imsis = IF groups[g].kind = "none" THEN {}
                                               ELSE groups[g].imsis,
                                ![w].extent = Extent(j, groups[g].kind)]
      BY <2>2 DEF ReadGroup
    <3> QED BY <1>1, <2>1, <3>1
  <2>3. CASE CheckAuth(w)
    <3>1. \E i, c, k : job' = [job EXCEPT ![w].imsis = i, ![w].cur = c, ![w].k = k]
      BY <2>3 DEF CheckAuth
    <3> QED BY <1>1, <2>1, <3>1
  <2>4. CASE StartCleanup(w)
    BY <1>1, <2>1, <2>4 DEF StartCleanup
  <2> QED BY <1>5, <2>2, <2>3, <2>4
<1>6. CASE DeleteSliceDoc(w)
  <2>1. j.seen = None
    <3>1. j.cur = None
      BY <1>6, Known DEF JobOK, Deriving, DeleteSliceDoc
    <3> QED BY <1>6, <3>1 DEF BaseInv, SeenInv, Upserts, DeleteSliceDoc
  <2>2. n.seen = j.seen
    BY <1>1, <1>6 DEF DeleteSliceDoc
  <2> QED BY <2>1, <2>2
<1>7. CASE Post(w) \/ Store(w) \/ CallFails(w)
  BY <1>1, <1>7 DEF Post, Store, CallFails
<1>8. CASE WriteDoc(w)
  <2>1. CASE j.k # j.extent
    BY <1>1, <1>8, <2>1 DEF WriteDoc
  <2>2. CASE j.k = j.extent /\ j.extent = 5
    <3>1. j.seen = None
      <4>1. j.pc = "derive" /\ Derived[j.k] # "amData"
        BY <1>8, <2>2, WriteDocShape, DerivedValues DEF BaseInv
      <4> QED BY <4>1 DEF BaseInv, SeenInv, Upserts
    <3>2. n.seen = j.seen
      BY <1>1, <1>8, <2>2 DEF WriteDoc
    <3> QED BY <3>1, <3>2
  <2>3. CASE j.k = j.extent /\ j.extent # 5
    BY <1>1, <1>8, <2>3 DEF WriteDoc, Stopped
  <2> QED BY <2>1, <2>2, <2>3
<1>9. CASE End(w)
  BY <1>1, <1>9 DEF End, Idle
<1>10. CASE ReadFails(w)
  <2>1. j.seen = None
    BY <1>10, NotSeen, Known DEF ReadFails, JobOK, Deriving
  <2>2. n.seen = j.seen
    BY <1>1, <1>10 DEF ReadFails
  <2> QED BY <2>1, <2>2
<1>11. CASE WriteFails(w)
  <2>1. ASSUME NEW x, DOMAIN x = JobFields PROVE Stopped(x).seen = None
    BY <2>1 DEF Stopped
  <2>2. \E x : DOMAIN x = JobFields /\ n = Stopped(x)
    <3>1. CASE j.cur # None /\ job' = [job EXCEPT ![w] = Stopped([j EXCEPT !.hurt = TRUE])]
      <4>1. DOMAIN [j EXCEPT !.hurt = TRUE] = JobFields
        BY <1>1
      <4> QED BY <1>1, <3>1, <4>1
    <3>2. ASSUME NEW i, job' = [job EXCEPT ![w] = Stopped([j EXCEPT !.gone = @ \ {i}, !.hurt = TRUE])]
          PROVE  \E x : DOMAIN x = JobFields /\ n = Stopped(x)
      <4>1. DOMAIN [j EXCEPT !.gone = @ \ {i}, !.hurt = TRUE] = JobFields
        BY <1>1
      <4> QED BY <1>1, <3>2, <4>1
    <3> QED BY <1>11, <3>1, <3>2 DEF WriteFails
  <2> QED BY <2>1, <2>2
<1> QED
  BY <1>2, <1>3, <1>4, <1>5, <1>6, <1>7, <1>8, <1>9, <1>10, <1>11
     DEF Acts, Locks, Proceed, Fails

LEMMA FindSees ==
    ASSUME BaseInv, NEW w \in Workers, Find(w)
    PROVE  Upserts(job'[w]) /\ job'[w].seen = Present(job[w])
<1>1. /\ KeptAll(job'[w], job[w]) /\ job'[w].pc = job[w].pc
      /\ Upserts(job[w])
  BY FindShape DEF BaseInv
<1>2. job'[w].seen = Present(job[w])
  BY Fields DEF BaseInv, Find, JobFields
<1> QED
  BY <1>1, <1>2 DEF KeptAll, KeptButErr, KeptRequest, KeptPlace, Upserts

LEMMA PresentKept ==
    ASSUME NEW w, KeptAll(job'[w], job[w]), job'[w].pc = job[w].pc, UNCHANGED store
    PROVE  Present(job[w])' = Present(job[w])
BY DEF KeptAll, KeptButErr, KeptRequest, KeptTask, KeptPlan, KeptPlace, Present, OnSlice, AmData,
       Matching, store

-----------------------------------------------------------------------------
(* While a request runs alone every document is stored once, and its steps do to
   the documents of a name what they do to the first of them.                 *)
LEMMA Once ==
    ASSUME BaseInv, NEW w \in Workers, job[w].alone
    PROVE  /\ extra = EmptyBag /\ DOMAIN extra = {} /\ Single
           /\ \A v \in Workers \ {w} : job[v].pc = "idle"
           /\ job[w].seen # None => job[w].seen = Present(job[w])
<1>1. extra = EmptyBag /\ Single
  BY DEF BaseInv, AloneInv, Single
<1> QED
  BY <1>1, BagFacts DEF BaseInv, AloneInv, SeenInv

LEMMA WithoutOnce ==
    ASSUME DOMAIN extra = {}, NEW K PROVE Without(K) = docs \ K
BY DEF Without

LEMMA AllOnce ==
    ASSUME DOMAIN extra = {}
    PROVE  /\ AllSlices = {<<s, slices[s]>> : s \in Slices}
           /\ AllGroups = {<<g, groups[g]>> : g \in Groups}
BY DEF AllSlices, AllGroups

LEMMA PostOnce ==
    ASSUME BaseInv, NEW w \in Workers, job[w].alone, Posts(w)
    PROVE  LET j == job[w] IN
           /\ UNCHANGED <<auth, docs, extra, rwLock, history>>
           /\ OnSlice(j) => slices' = [slices EXCEPT ![j.name] = j.new] /\ groups' = groups
           /\ ~OnSlice(j) =>
                 /\ slices' = slices
                 /\ \E d \in GroupDocs : /\ d.imsis = j.new.imsis
                                          /\ groups' = [groups EXCEPT ![j.name] = d]
<1> DEFINE j == job[w]
<1>1. DOMAIN extra = {} /\ (j.seen # None => j.seen = Present(j))
  BY Once
<1>2. CASE Post(w)
  <2>1. j.seen = Present(j) /\ j.pc = "post"
    BY <1>1, <1>2 DEF Post
  <2>2. UNCHANGED <<auth, docs, extra, rwLock, history>>
    BY <1>2, <2>1 DEF Post
  <2>3. OnSlice(j) => slices' = [slices EXCEPT ![j.name] = j.new] /\ groups' = groups
    BY <1>2, <2>1 DEF Post, Posted
  <2>4. ASSUME ~OnSlice(j)
        PROVE  /\ slices' = slices
               /\ \E d \in GroupDocs : d.imsis = j.new.imsis /\ groups' = [groups EXCEPT ![j.name] = d]
    <3>1. j.name \in Groups /\ j.new \in GroupDocs
      BY <2>1, <2>4, Known, Places DEF TaskOK, Writing
    <3>2. slices' = slices /\ groups' = [groups EXCEPT ![j.name] = Posted(j)]
      BY <1>2, <2>1, <2>4 DEF Post
    <3>3. j.seen # {} => groups[j.name] \in GroupDocs
      BY <2>1, <2>4, <3>1 DEF Present, BaseInv, StoreInv, GroupLike
    <3>4. ASSUME NEW old \in GroupDocs
          PROVE  Merged(old, j.new) \in GroupDocs /\ Merged(old, j.new).imsis = j.new.imsis
      BY <3>1 DEF Merged, GroupDocs
    <3>5. Posted(j) \in GroupDocs /\ Posted(j).imsis = j.new.imsis
      BY <2>4, <3>1, <3>3, <3>4 DEF Posted
    <3> QED BY <3>2, <3>5
  <2> QED BY <2>2, <2>3, <2>4
<1>3. CASE DeleteSliceDoc(w)
  <2>1. j.op = "deleteSlice" /\ j.new = NoSlice /\ OnSlice(j)
    BY <1>3, Known DEF DeleteSliceDoc, TaskOK, OnSlice
  <2>2. Extra("slice", j.name) = {}
    BY <1>1 DEF Extra
  <2> QED BY <1>3, <2>1, <2>2 DEF DeleteSliceDoc
<1> QED BY <1>2, <1>3 DEF Posts

LEMMA WriteDocOnce ==
    ASSUME BaseInv, NEW w \in Workers, job[w].alone, WriteDoc(w)
    PROVE  /\ docs' = Upserted(Derived[job[w].k], job[w].cur, job[w].plmn)
           /\ extra' = extra
           /\ UNCHANGED <<auth, groups, slices, rwLock, faults, calm>>
<1> DEFINE j == job[w]
           bare == <<"amData", j.cur, None>>
           full == <<"amData", j.cur, j.plmn>>
<1>1. /\ extra = EmptyBag /\ DOMAIN extra = {} /\ Single
      /\ j.seen # None => j.seen = Present(j)
  BY Once
<1>2. j.pc = "derive" /\ j.plmn \in Plmns /\ j.cur \in Imsis
  BY WriteDocShape, Known DEF BaseInv, PlanOK
<1>3. CASE Derived[j.k] # "amData"
  BY <1>3 DEF WriteDoc, Upsert, Upserted
<1>4. ASSUME Derived[j.k] = "amData"
      PROVE  docs' = Upserted(Derived[j.k], j.cur, j.plmn) /\ extra' = extra
  <2>1. /\ j.seen # None
        /\ IF j.seen = {} THEN InsertAmData(j.cur, j.plmn) ELSE UpdateAmData(j.cur, j.plmn)
    BY <1>4 DEF WriteDoc, Upsert
  <2>2. j.seen = {} <=> Matching(j.cur, j.plmn) = {}
    BY <1>1, <1>2, <2>1 DEF Present
  <2>3. ~(bare \in docs /\ full \in docs)
    BY <1>1, <1>2 DEF Single
  <2>4. Upserted(Derived[j.k], j.cur, j.plmn) = (docs \ {bare}) \union {full}
    BY <1>4 DEF Upserted, Key
  <2>5. CASE Matching(j.cur, j.plmn) = {}
    <3>1. docs' = docs \union {full} /\ extra' = extra (+) SetToBag(docs \intersect {full})
      BY <2>1, <2>2, <2>5 DEF InsertAmData
    <3>2. bare \notin docs /\ docs \intersect {full} = {}
      BY <2>5 DEF Matching
    <3>3. docs' = Upserted(Derived[j.k], j.cur, j.plmn)
      BY <2>4, <3>1, <3>2
    <3>4. extra' = extra
      BY <1>1, <3>1, <3>2, NoneMore
    <3> QED BY <3>3, <3>4
  <2>6. CASE Matching(j.cur, j.plmn) # {} /\ Matching(j.cur, j.plmn) # {bare}
    <3>1. full \in docs /\ bare \notin docs
      BY <2>3, <2>6 DEF Matching
    <3>2. UpdateAmData(j.cur, j.plmn)
      BY <2>1, <2>2, <2>6
    <3>3. docs' = docs /\ extra' = extra
      BY <3>1, <3>2 DEF UpdateAmData
    <3>4. docs = (docs \ {bare}) \union {full}
      BY <3>1
    <3> QED BY <2>4, <3>3, <3>4
  <2>7. CASE Matching(j.cur, j.plmn) = {bare}
    <3>1. bare \in docs /\ docs \intersect {full} = {}
      BY <1>2, <2>3, <2>7 DEF Matching
    <3>2. /\ docs' = Without({bare}) \union {full}
          /\ extra' = (extra (-) SetToBag({bare})) (+) SetToBag(docs \intersect {full})
      BY <2>1, <2>2, <2>7 DEF UpdateAmData
    <3>3. Without({bare}) = docs \ {bare}
      BY <1>1, WithoutOnce
    <3>4. extra (-) SetToBag({bare}) = EmptyBag
      BY <1>1, NoneLess
    <3>5. extra' = EmptyBag (+) SetToBag({})
      BY <3>1, <3>2, <3>4
    <3> QED BY <1>1, <2>4, <3>2, <3>3, <3>5, NoneMore
  <2> QED BY <2>5, <2>6, <2>7
<1> QED BY <1>3, <1>4 DEF WriteDoc

LEMMA RemoveOnce ==
    ASSUME BaseInv, NEW w \in Workers, job[w].alone, Remove(w)
    PROVE  /\ \E i \in job[w].gone : /\ job'[w].gone = job[w].gone \ {i}
                                     /\ docs' = Removed(i, job[w].plmn)
           /\ extra' = extra
           /\ UNCHANGED <<auth, groups, slices, rwLock, history>>
<1>1. extra = EmptyBag /\ DOMAIN extra = {}
  BY Once
<1>2. PICK i \in job[w].gone : /\ job'[w].gone = job[w].gone \ {i}
                               /\ docs' = Without(KeysOf(i, job[w].plmn))
  BY RemoveShape DEF BaseInv
<1>3. docs' = Removed(i, job[w].plmn)
  BY <1>1, <1>2, WithoutOnce DEF Removed
<1>4. extra' = extra
  BY <1>1, NoneLess DEF Remove
<1> QED BY <1>2, <1>3, <1>4 DEF Remove

LEMMA DeleteGroupDocOnce ==
    ASSUME BaseInv, NEW w \in Workers, job[w].alone, DeleteGroupDoc(w)
    PROVE  /\ groups' = [groups EXCEPT ![job[w].arg] = NoGroup]
           /\ UNCHANGED <<auth, slices, docs, extra, rwLock, history>>
<1>1. Extra("group", job[w].arg) = {}
  BY Once DEF Extra
<1> QED BY <1>1 DEF DeleteGroupDoc

LEMMA DeleteAuthOnce ==
    ASSUME BaseInv, NEW w \in Workers, job[w].alone, DeleteAuth(w)
    PROVE  /\ auth' = auth \ {job[w].arg} /\ docs' \subseteq docs
           /\ \A d \in docs \ docs' : d[1] = "amData" /\ d[2] = job[w].arg
           /\ UNCHANGED <<groups, slices, extra, rwLock, history>>
<1>1. extra = EmptyBag /\ DOMAIN extra = {}
  BY Once
<1>2. auth' = auth \ {job[w].arg} /\ UNCHANGED <<groups, slices, rwLock, history>>
  BY <1>1 DEF DeleteAuth
<1>3. extra' = extra
  BY <1>1, NoneLess DEF DeleteAuth
<1>4. docs' \subseteq docs /\ \A d \in docs \ docs' : d[1] = "amData" /\ d[2] = job[w].arg
  BY DEF DeleteAuth, AmData, Without
<1> QED BY <1>2, <1>3, <1>4

LEMMA StoreOnce ==
    ASSUME BaseInv, NEW w \in Workers, job[w].alone, Store(w)
    PROVE  LET i == job[w].arg IN
           /\ auth' = auth \union {i}
           /\ docs' = IF AmData(i) = {} THEN docs \union {<<"amData", i, None>>} ELSE docs
           /\ UNCHANGED <<groups, slices, extra, rwLock, history>>
<1> DEFINE j == job[w]
           bare == <<"amData", j.arg, None>>
           twice == (IF "doc" \in j.seen THEN {} ELSE docs \intersect {bare}) \union
                    (IF "auth" \in j.seen \/ j.arg \notin auth THEN {}
                                                              ELSE {<<"auth", j.arg, None>>})
<1>1. extra = EmptyBag /\ (j.seen # None => j.seen = Present(j))
  BY Once
<1>2. /\ "doc" \in j.seen <=> AmData(j.arg) # {}
      /\ "auth" \in j.seen <=> j.arg \in auth
  BY <1>1 DEF Store, Present
<1>3. AmData(j.arg) = {} => bare \notin docs
  BY DEF AmData
<1>4. twice = {}
  BY <1>2, <1>3
<1>5. extra' = extra (+) SetToBag(twice)
  BY DEF Store
<1>6. extra' = extra
  BY <1>1, <1>4, <1>5, NoneMore
<1> QED BY <1>2, <1>6 DEF Store, history

(* So every document is still stored once. *)
LEMMA SingleStep ==
    ASSUME BaseInv, NEW w \in Workers, job[w].alone, Acts(w)
    PROVE  Single'
<1> DEFINE j == job[w]
<1>1. extra = EmptyBag /\ Single
  BY Once
<1>2. ASSUME extra' = extra, docs' \subseteq docs PROVE Single'
  BY <1>1, <1>2 DEF Single
<1>3. CASE UNCHANGED store
  BY <1>2, <1>3 DEF store
<1>4. CASE Posts(w)
  BY <1>2, <1>4, PostOnce
<1>5. CASE WriteDoc(w)
  <2>1. docs' = Upserted(Derived[j.k], j.cur, j.plmn) /\ extra' = extra
    BY <1>5, WriteDocOnce
  <2>2. CASE Derived[j.k] # "amData"
    <3>1. \A d : d[1] = "amData" => (d \in docs' <=> d \in docs)
      BY <2>1, <2>2, DerivedValues DEF Upserted, Key
    <3> QED BY <1>1, <2>1, <3>1 DEF Single
  <2>3. CASE Derived[j.k] = "amData"
    <3>1. docs' = (docs \ {<<"amData", j.cur, None>>}) \union {<<"amData", j.cur, j.plmn>>}
      BY <2>1, <2>3 DEF Upserted, Key
    <3>2. j.plmn \in Plmns
      BY <1>5, WriteDocShape DEF BaseInv
    <3> QED BY <1>1, <2>1, <3>1, <3>2, ProvisioningAssumption DEF Single
  <2> QED BY <2>2, <2>3
<1>6. CASE Remove(w)
  BY <1>2, <1>6, RemoveOnce DEF Removed
<1>7. CASE DeleteGroupDoc(w)
  BY <1>2, <1>7, DeleteGroupDocOnce
<1>8. CASE DeleteAuth(w)
  BY <1>2, <1>8, DeleteAuthOnce
<1>9. CASE Store(w)
  <2>1. extra' = extra
    BY <1>9, StoreOnce
  <2>2. CASE AmData(j.arg) # {}
    BY <1>2, <1>9, <2>1, <2>2, StoreOnce
  <2>3. CASE AmData(j.arg) = {}
    <3>1. docs' = docs \union {<<"amData", j.arg, None>>}
      BY <1>9, <2>3, StoreOnce
    <3>2. \A p : <<"amData", j.arg, p>> \notin docs
      BY <2>3 DEF AmData
    <3> QED BY <1>1, <2>1, <3>1, <3>2, ProvisioningAssumption DEF Single
  <2> QED BY <2>2, <2>3
<1> QED
  BY <1>3, <1>4, <1>5, <1>6, <1>7, <1>8, <1>9
     DEF Acts, Locks, Proceed, Fails, Posts, LockSlice, LockGroup, ReadPrev, Find, ReadGroup,
         CheckAuth, StartCleanup, CleanGroup, Unlock, List, NextDoc, GiveUp, Exists,
         End, ReadPrevFails, CallFails, ReadFails, WriteFails

LEMMA ActsCalm ==
    ASSUME NEW w \in Workers, Acts(w) PROVE calm' => calm
BY DEF Acts, Locks, Proceed, Fails, LockSlice, LockGroup, DeleteGroupDoc, ReadPrev, Find, Post,
       DeleteSliceDoc, ReadGroup, CheckAuth, WriteDoc, StartCleanup, CleanGroup, Remove, Unlock,
       List, NextDoc, GiveUp, DeleteAuth, Exists, Store, End, ReadPrevFails,
       CallFails, ReadFails, WriteFails, history

LEMMA AloneKept == ASSUME BaseInv, [Next]_vars PROVE AloneInv'
<1>1. Idle.alone = FALSE /\ Idle.pc = "idle"
  BY DEF Idle
<1>2. ASSUME NEW w \in Workers, Arrive(w) PROVE AloneInv'
  <2>1. /\ Fresh(job'[w]) /\ \A v \in Workers \ {w} : Lowered(job'[v], job[v])
        /\ job'[w].alone = ((\A v \in Workers \ {w} : job[v].pc = "idle") /\ Single)
        /\ calm' = (calm /\ \A v \in Workers \ {w} : job[v].pc = "idle")
    BY <1>2, ArriveShape DEF BaseInv
  <2>2. UNCHANGED store
    BY <1>2, ArriveStep DEF Begin
  <2>3. Single' <=> Single
    BY <2>2 DEF Single, store
  <2>4. \A v \in Workers : job'[v].alone =>
           Single' /\ \A u \in Workers \ {v} : job'[u].pc = "idle"
    BY <2>1, <2>3 DEF Lowered
  <2>5. calm' => Single' /\ \A v \in Workers : job'[v].pc # "idle" => job'[v].alone
    BY <2>1, <2>3 DEF Lowered, BaseInv, AloneInv
  <2> QED BY <2>4, <2>5 DEF AloneInv
<1>3. ASSUME NEW w \in Workers, Acts(w) PROVE AloneInv'
  <2>1. /\ OnlyJob(w) /\ job[w].pc # "idle"
        /\ KeptRequest(job'[w], job[w]) \/ job'[w] = Idle
    BY <1>3, ActsGood
  <2>2. ASSUME NEW v \in Workers, job'[v].alone
        PROVE  Single' /\ \A u \in Workers \ {v} : job'[u].pc = "idle"
    <3>1. v = w /\ job[w].alone
      BY <1>1, <2>1, <2>2 DEF OnlyJob, KeptRequest, BaseInv, AloneInv
    <3> QED BY <1>3, <2>1, <3>1, Once, SingleStep DEF OnlyJob
  <2>3. ASSUME calm'
        PROVE  Single' /\ \A v \in Workers : job'[v].pc # "idle" => job'[v].alone
    <3>1. calm /\ job[w].alone
      BY <1>3, <2>1, <2>3, ActsCalm DEF BaseInv, AloneInv
    <3>2. Single' /\ \A v \in Workers \ {w} : job'[v].pc = "idle"
      BY <1>3, <2>1, <3>1, Once, SingleStep DEF OnlyJob
    <3>3. job'[w].pc # "idle" => job'[w].alone
      BY <1>1, <2>1, <3>1 DEF KeptRequest
    <3> QED BY <3>2, <3>3
  <2> QED BY <2>2, <2>3 DEF AloneInv
<1>4. CASE Restart
  BY <1>1, <1>4, RestartShape DEF AloneInv, Restart
<1>5. CASE UNCHANGED vars
  BY <1>5 DEF vars, BaseInv, AloneInv, Single
<1> QED BY <1>2, <1>3, <1>4, <1>5 DEF Next, Acts

LEMMA SeenKept == ASSUME BaseInv, [Next]_vars PROVE SeenInv'
<1> DEFINE SeenOK(v) ==
              job'[v].seen # None =>
                 Upserts(job'[v]) /\ (job'[v].alone => job'[v].seen = Present(job[v])')
<1>1. SUFFICES ASSUME NEW v \in Workers PROVE SeenOK(v)
  BY DEF SeenInv, Upserts
<1>2. ASSUME NEW w \in Workers, Arrive(w) PROVE SeenOK(v)
  <2>1. /\ Fresh(job'[w]) /\ \A u \in Workers \ {w} : Lowered(job'[u], job[u])
    BY <1>2, ArriveShape DEF BaseInv
  <2>2. CASE v = w
    BY <2>1, <2>2 DEF Fresh
  <2>3. CASE v # w
    <3>1. ~job'[v].alone /\ job'[v].seen = job[v].seen /\ (Upserts(job'[v]) <=> Upserts(job[v]))
      BY <2>1, <2>3 DEF Lowered, KeptPlace, Upserts
    <3> QED BY <3>1 DEF BaseInv, SeenInv
  <2> QED BY <2>2, <2>3
<1>3. ASSUME NEW w \in Workers, Acts(w) PROVE SeenOK(v)
  <2>1. OnlyJob(w) /\ job[w].pc # "idle"
    BY <1>3, ActsGood
  <2>2. CASE v # w
    <3>1. ~job[v].alone /\ job'[v] = job[v]
      BY <2>1, <2>2 DEF OnlyJob, BaseInv, AloneInv
    <3> QED BY <3>1 DEF BaseInv, SeenInv
  <2>3. CASE v = w /\ Find(w)
    <3>1. /\ KeptAll(job'[w], job[w]) /\ job'[w].pc = job[w].pc /\ UNCHANGED store
      BY <2>3, FindShape DEF BaseInv
    <3>2. Present(job[w])' = Present(job[w])
      BY <3>1, PresentKept
    <3> QED BY <2>3, <3>2, FindSees
  <2>4. CASE v = w /\ job'[w].seen = None
    BY <2>4
  <2> QED BY <1>3, <2>2, <2>3, <2>4, SeenOnly
<1>4. CASE Restart
  BY <1>4, RestartShape DEF Idle
<1>5. CASE UNCHANGED vars
  <2>1. job'[v] = job[v] /\ Present(job[v])' = Present(job[v])
    BY <1>5 DEF vars, Present, AmData, Matching
  <2> QED BY <2>1 DEF BaseInv, SeenInv
<1> QED BY <1>2, <1>3, <1>4, <1>5 DEF Next, Acts

LEMMA BaseStep == ASSUME BaseInv, [Next]_vars PROVE BaseInv'
<1>1. ControlInv' /\ ExtraInv' /\ StoreInv' /\ SeenInv' /\ AloneInv'
  BY ControlStep, ExtraKept, StoreStep, SeenKept, AloneKept DEF BaseInv
<1>2. SUFFICES ASSUME NEW v \in Workers PROVE JobGood(job'[v])
  BY <1>1 DEF BaseInv, RequestInv, TaskInv, PlanInv, JobGood
<1>3. \A u \in Workers : JobGood(job[u])
  BY Known DEF JobGood
<1>4. ASSUME NEW w \in Workers, Arrive(w) PROVE JobGood(job'[v])
  <2>1. /\ Fresh(job'[w]) /\ \A u \in Workers \ {w} : Lowered(job'[u], job[u])
        /\ job'[w].alone \in BOOLEAN
    BY <1>4, ArriveShape DEF BaseInv
  <2> QED BY <1>3, <2>1, ArriveGood, LoweredGood
<1>5. ASSUME NEW w \in Workers, Acts(w) PROVE JobGood(job'[v])
  BY <1>3, <1>5, ActsGood DEF OnlyJob
<1>6. CASE Restart
  BY <1>6, RestartShape, IdleGood
<1>7. CASE UNCHANGED vars
  BY <1>3, <1>7 DEF vars
<1> QED BY <1>4, <1>5, <1>6, <1>7 DEF Next, Acts

LEMMA InitBase == Init => BaseInv
<1> SUFFICES ASSUME Init PROVE BaseInv
  OBVIOUS
<1>1. DOMAIN job = Workers /\ \A w \in Workers : job[w] = Idle
  BY DEF Init
<1>2. StoreInv
  <2>1. NoGroup \in GroupLike /\ NoSlice \in SliceLike /\ DOMAIN extra = {}
    BY BagFacts DEF SliceLike, GroupLike, Init
  <2>2. auth \subseteq Imsis /\ docs \subseteq Keys /\ rwLock \in Workers \union {None}
    BY DEF Init
  <2>3. groups \in [Groups -> GroupLike] /\ slices \in [Slices -> SliceLike]
    BY <2>1 DEF Init
  <2>4. faults \in 0..MaxFaults
    BY ProvisioningAssumption DEF Init
  <2> QED BY <2>1, <2>2, <2>3, <2>4 DEF StoreInv
<1>3. \A w \in Workers : JobGood(job[w])
  BY <1>1, IdleGood
<1>4. Idle.alone = FALSE /\ Idle.pc = "idle" /\ Idle.seen = None
  BY DEF Idle
<1>5. Single
  BY DEF Init, Single
<1>6. SeenInv /\ AloneInv
  BY <1>1, <1>4, <1>5 DEF SeenInv, AloneInv
<1> QED
  BY <1>2, <1>3, <1>6, InitCtl DEF BaseInv, RequestInv, TaskInv, PlanInv, JobGood

LEMMA BaseAlways == Spec => []BaseInv
BY InitBase, BaseStep, PTL DEF Spec

(* Everything stored is of its type, no document is derived but the five kinds,
   for IMSIs and PLMNs the configuration names, and the documents of an IMSI are
   written one after the other up to the extent its device group allows.      *)
THEOREM TypeCorrect == Spec => []TypeOK
<1>1. BaseInv => TypeOK
  <2> SUFFICES ASSUME BaseInv PROVE TypeOK
    OBVIOUS
  <2>1. StoreInv
    BY DEF BaseInv
  <2>2. \A w \in Workers : job[w].cur # None => job[w].k \in 1..job[w].extent
    BY Known DEF JobOK, Deriving
  <2>3. Keys \subseteq {Derived[k] : k \in DOMAIN Derived} \X Imsis \X (Plmns \union {None})
    BY DEF Keys, Derived
  <2> QED BY <2>1, <2>2, <2>3 DEF TypeOK, StoreInv, GroupLike, SliceLike
<1> QED BY <1>1, BaseAlways, PTL

-----------------------------------------------------------------------------
(* A request that runs alone: nothing but its own steps happens. *)

LEMMA SoloStep ==
    ASSUME BaseInv, [Next]_vars, NEW w \in Workers, job'[w].alone
    PROVE  \/ UNCHANGED vars
           \/ Arrive(w) /\ Fresh(job'[w])
           \/ Acts(w) /\ job[w].alone /\ KeptRequest(job'[w], job[w])
<1>1. Idle.alone = FALSE
  BY DEF Idle
<1>2. \A u \in Workers : job[u].alone => \A x \in Workers \ {u} : job[x].pc = "idle"
  BY DEF BaseInv, AloneInv
<1>3. ASSUME NEW u \in Workers, Arrive(u) PROVE u = w /\ Fresh(job'[w])
  BY <1>3, ArriveShape DEF BaseInv, Lowered
<1>4. ASSUME NEW u \in Workers, Acts(u)
      PROVE  u = w /\ job[w].alone /\ KeptRequest(job'[w], job[w])
  <2>1. /\ OnlyJob(u) /\ job[u].pc # "idle"
        /\ KeptRequest(job'[u], job[u]) \/ job'[u] = Idle
    BY <1>4, ActsGood
  <2> QED BY <1>1, <1>2, <2>1 DEF OnlyJob, KeptRequest
<1>5. ~Restart
  BY <1>1, RestartShape
<1> QED BY <1>3, <1>4, <1>5 DEF Next, Acts

(* While a request that runs alone is served, only its own steps, and requests
   that arrive, change anything.                                              *)
LEMMA AloneStep ==
    ASSUME BaseInv, Next, NEW w \in Workers, job[w].alone, ~Restart, ~Acts(w)
    PROVE  UNCHANGED store
<1>1. ASSUME NEW u \in Workers, Arrive(u) PROVE UNCHANGED store
  <2>1. PICK j : Begin(u, j)
    BY <1>1, ArriveStep
  <2> QED BY <2>1 DEF Begin
<1>2. ASSUME NEW u \in Workers, Acts(u) PROVE u = w
  BY <1>2, ActsGood DEF BaseInv, AloneInv
<1> QED BY <1>1, <1>2 DEF Next, Acts

(* Steps that write neither slices nor device groups. *)
LEMMA GroupsKept ==
    ASSUME NEW w, Acts(w), ~Posts(w), ~DeleteGroupDoc(w)
    PROVE  UNCHANGED <<groups, slices>>
<1>1. CASE LockSlice(w) \/ LockGroup(w) \/ ReadPrev(w) \/ Find(w) \/ ReadGroup(w) \/ CheckAuth(w)
  BY <1>1 DEF LockSlice, LockGroup, ReadPrev, Find, ReadGroup, CheckAuth, store
<1>2. CASE WriteDoc(w) \/ StartCleanup(w) \/ CleanGroup(w) \/ Remove(w) \/ Unlock(w) \/ List(w)
  BY <1>2 DEF WriteDoc, StartCleanup, CleanGroup, Remove, Unlock, List, store
<1>3. CASE NextDoc(w) \/ GiveUp(w) \/ DeleteAuth(w) \/ Exists(w) \/ Store(w) \/ End(w)
  BY <1>3 DEF NextDoc, GiveUp, DeleteAuth, Exists, Store, End, store
<1>4. CASE Fails(w)
  BY <1>4 DEF Fails, ReadPrevFails, CallFails, ReadFails, WriteFails, store
<1> QED BY <1>1, <1>2, <1>3, <1>4 DEF Acts, Locks, Proceed, Posts, Find

(* What a step does that is neither the first, nor the choice of what to write
   next, nor a write: the rest of the work and the document in hand stay, or the
   request goes on or ends with an error.                                     *)
Between(n, j) ==
    \/ n.err /\ n.work \subseteq j.work /\ n.pc \notin {"prev", "post"}
    \/ /\ KeptTask(n, j) /\ n.err = j.err /\ j.pc \notin {"list", "end"} /\ n.pc # "end"
       /\ n.pc \in {"prev", "post"} <=> j.pc \in {"prev", "post"}

LEMMA ActsBetween ==
    ASSUME BaseInv, NEW w \in Workers, Acts(w), Looping(job[w]),
           ~List(w), ~NextDoc(w), ~Posts(w), ~DeleteGroupDoc(w), ~DeleteAuth(w), ~End(w),
           ~ReadPrevFails(w)
    PROVE  Between(job'[w], job[w])
<1> USE DEF Between, KeptAll, KeptButErr
<1>1. ControlInv
  BY DEF BaseInv
<1>2. CASE LockSlice(w)
  BY <1>1, <1>2, LockSliceShape DEF KeptTask
<1>3. CASE LockGroup(w)
  BY <1>1, <1>3, LockGroupShape DEF KeptTask
<1>4. CASE ReadPrev(w)
  BY <1>1, <1>4, ReadPrevShape DEF KeptErr
<1>5. CASE ReadGroup(w)
  BY <1>1, <1>5, ReadGroupShape DEF KeptErr
<1>6. CASE CheckAuth(w)
  BY <1>1, <1>6, CheckAuthShape DEF KeptErr
<1>7. CASE WriteDoc(w)
  BY <1>1, <1>7, WriteDocShape DEF KeptErr, StopOf, KeptTask
<1>8. CASE StartCleanup(w)
  BY <1>1, <1>8, StartCleanupShape DEF KeptErr
<1>9. CASE CleanGroup(w)
  BY <1>1, <1>9, CleanGroupShape DEF KeptErr
<1>10. CASE Remove(w)
  BY <1>1, <1>10, RemoveShape DEF KeptErr
<1>11. CASE Unlock(w)
  BY <1>1, <1>11, UnlockShape DEF KeptErr
<1>12. CASE GiveUp(w)
  BY <1>1, <1>12, GiveUpShape DEF KeptErr, KeptTask
<1>13. CASE Exists(w) \/ Store(w)
  <2>1. RequestOK(job[w]) /\ job[w].op \notin SubOps
    BY Known DEF Looping, SubOps
  <2> QED BY <1>1, <1>13, <2>1, ExistsShape, StoreShape DEF RequestOK
<1>14. CASE CallFails(w)
  BY <1>1, <1>14, CallFailsShape DEF KeptTask
<1>15. CASE ReadFails(w)
  BY <1>1, <1>15, ReadFailsShape
<1>16. CASE WriteFails(w)
  BY <1>1, <1>16, WriteFailsShape DEF StopOf, KeptTask
<1>17. CASE Find(w)
  <2>1. job[w].pc \in {"post", "store", "derive"}
    BY <1>17, FindShape, Known DEF BaseInv, Upserts, JobOK, Deriving
  <2> QED BY <1>1, <1>17, <2>1, FindShape DEF KeptErr
<1> QED
  BY <1>2, <1>3, <1>4, <1>5, <1>6, <1>7, <1>8, <1>9, <1>10, <1>11, <1>12, <1>13, <1>14, <1>15,
     <1>16, <1>17
     DEF Acts, Locks, Proceed, Fails, Posts, Find

LEMMA KeepGroupDeletion ==
    ASSUME NEW w, UNCHANGED <<groups, slices>>, job'[w].arg = job[w].arg,
           Between(job'[w], job[w]), GroupDeletion(job[w])
    PROVE  GroupDeletion(job[w])'
<1> DEFINE j == job[w]
           n == job'[w]
<1>1. n.arg = j.arg /\ Between(n, j) /\ GroupDeletion(j) /\ groups' = groups /\ slices' = slices
  OBVIOUS
<1> HIDE DEF j, n
<1>2. CASE n.err /\ n.work \subseteq j.work /\ n.pc \notin {"prev", "post"}
  <2>1. /\ \A d \in n.work : n.arg \notin d[2].groups
        /\ ~(n.pc \in {"prev", "post"}) /\ n.err
    BY <1>1, <1>2 DEF GroupDeletion
  <2> QED BY <2>1 DEF GroupDeletion, n
<1>3. CASE /\ KeptTask(n, j) /\ n.err = j.err /\ j.pc \notin {"list", "end"} /\ n.pc # "end"
           /\ n.pc \in {"prev", "post"} <=> j.pc \in {"prev", "post"}
  <2>1. ToWrite(n) = ToWrite(j)
    BY <1>3 DEF ToWrite, KeptTask
  <2>2. /\ \A d \in n.work : n.arg \notin d[2].groups
        /\ n.pc \in {"prev", "post"} => n.arg \notin n.new.groups
        /\ ~n.err => \A s \in Slices : n.arg \in slices'[s].groups => s \in ToWrite(n)
        /\ n.pc # "end"
    BY <1>1, <1>3, <2>1 DEF GroupDeletion, KeptTask
  <2> QED BY <2>2 DEF GroupDeletion, ToWrite, n
<1> QED BY <1>1, <1>2, <1>3 DEF Between

LEMMA GroupDeletionStep ==
    ASSUME BaseInv, NEW w \in Workers, Acts(w), job[w].alone, job[w].op = "deleteGroup",
           KeptRequest(job'[w], job[w]), GroupDeletion(job[w])
    PROVE  GroupDeletion(job[w])'
<1> DEFINE j == job[w]
           n == job'[w]
<1>1. ControlInv /\ RequestOK(j) /\ TaskOK(j) /\ n.arg = j.arg /\ j.arg \in Groups
  BY Known DEF KeptRequest, RequestOK
<1>2. Looping(j) /\ OnSlice(j)
  BY DEF Looping, OnSlice
<1>3. GroupDeletion(j)
  OBVIOUS
<1>4. CASE List(w)
  <2>1. n.pc = "next" /\ n.work = Found(j) /\ KeptErr(n, j) /\ slices' = slices
    BY <1>1, <1>4, ListShape DEF List, store
  <2>2. \A d \in Found(j) : j.arg \notin d[2].groups
    BY FoundTyped DEF BaseInv
  <2>3. \A s \in Slices : j.arg \in slices[s].groups => s \in {d[1] : d \in Found(j)}
    <3>1. ASSUME NEW s \in Slices, j.arg \in slices[s].groups
          PROVE  s \in {d[1] : d \in Found(j)}
      <4> DEFINE d == <<s, [slices[s] EXCEPT !.groups = @ \ {j.arg}]>>
      <4>1. d \in Found(j)
        <5> DEFINE e == <<s, slices[s]>>
        <5>1. e \in AllSlices /\ j.arg \in e[2].groups /\ j.op = "deleteGroup"
          BY <3>1 DEF AllSlices
        <5>2. d = <<e[1], [e[2] EXCEPT !.groups = @ \ {j.arg}]>>
          OBVIOUS
        <5> HIDE DEF d, e, j
        <5> QED BY <5>1, <5>2 DEF Found
      <4>2. d[1] = s
        OBVIOUS
      <4> HIDE DEF d
      <4> QED BY <4>1, <4>2
    <3> QED BY <3>1
  <2> HIDE DEF j, n
  <2>4. /\ \A d \in n.work : n.arg \notin d[2].groups
        /\ \A s \in Slices : n.arg \in slices'[s].groups => s \in {d[1] : d \in n.work}
    BY <1>1, <2>1, <2>2, <2>3
  <2> QED BY <2>1, <2>4 DEF GroupDeletion, ToWrite, n
<1>5. CASE NextDoc(w)
  <2>1. /\ j.pc = "next" /\ n.pc = "prev" /\ KeptErr(n, j) /\ slices' = slices
        /\ \E d \in j.work : n.work = j.work \ {d} /\ n.name = d[1] /\ n.new = d[2]
    BY <1>1, <1>5, NextDocShape DEF NextDoc, store
  <2>2. PICK d \in j.work : n.work = j.work \ {d} /\ n.name = d[1] /\ n.new = d[2]
    BY <2>1
  <2> HIDE DEF j, n
  <2>3. {e[1] : e \in j.work} \subseteq {e[1] : e \in n.work} \union {n.name}
    BY <2>2
  <2>4. /\ \A e \in n.work : n.arg \notin e[2].groups
        /\ n.arg \notin n.new.groups
        /\ ~n.err => \A s \in Slices : n.arg \in slices'[s].groups =>
                        s \in {e[1] : e \in n.work} \union {n.name}
    BY <1>1, <1>3, <2>1, <2>2, <2>3 DEF GroupDeletion, ToWrite, KeptErr
  <2> QED BY <2>1, <2>4 DEF GroupDeletion, ToWrite, n
<1>6. CASE Posts(w)
  <2>1. j.pc = "post" /\ n.pc = "lock" /\ KeptTask(n, j) /\ KeptErr(n, j)
    BY <1>1, <1>6, PostShape DEF KeptAll, KeptButErr
  <2>2. slices' = [slices EXCEPT ![j.name] = j.new]
    BY <1>2, <1>6, PostOnce
  <2>3. DOMAIN slices = Slices
    BY DEF BaseInv, StoreInv
  <2> HIDE DEF j, n
  <2>4. /\ \A e \in n.work : n.arg \notin e[2].groups
        /\ j.arg \notin j.new.groups
        /\ ~j.err => \A s \in Slices : j.arg \in slices[s].groups =>
                        s \in {e[1] : e \in j.work} \union {j.name}
    BY <1>1, <1>3, <2>1 DEF GroupDeletion, ToWrite, KeptTask
  <2>5. ~n.err => \A s \in Slices : n.arg \in slices'[s].groups => s \in {e[1] : e \in n.work}
    BY <1>1, <2>1, <2>2, <2>3, <2>4 DEF KeptTask, KeptErr
  <2> QED BY <2>1, <2>4, <2>5 DEF GroupDeletion, ToWrite, n
<1>7. CASE DeleteGroupDoc(w)
  <2>1. /\ j.pc = "next" /\ n.pc = "end" /\ KeptTask(n, j) /\ KeptErr(n, j) /\ j.work = {}
        /\ slices' = slices
    BY <1>1, <1>7, DeleteGroupDocShape DEF KeptAll, KeptButErr, DeleteGroupDoc
  <2>2. groups' = [groups EXCEPT ![j.arg] = NoGroup] /\ DOMAIN groups = Groups
    BY <1>7, DeleteGroupDocOnce DEF BaseInv, StoreInv
  <2>3. groups'[n.arg] = NoGroup
    BY <1>1, <2>2
  <2> HIDE DEF j, n
  <2>4. ~n.err => \A s \in Slices : n.arg \in slices'[s].groups => s \in {e[1] : e \in n.work}
    BY <1>1, <1>3, <2>1 DEF GroupDeletion, ToWrite, KeptTask, KeptErr
  <2>5. n.work = {}
    BY <2>1 DEF KeptTask
  <2> QED BY <2>1, <2>3, <2>4, <2>5 DEF GroupDeletion, ToWrite, n
<1>8. CASE ReadPrevFails(w)
  <2>1. n.pc = "end" /\ n.work = {} /\ n.err
    BY <1>1, <1>8, ReadPrevFailsShape
  <2> HIDE DEF j, n
  <2> QED BY <2>1 DEF GroupDeletion, n
<1>9. ~DeleteAuth(w) /\ ~End(w)
  <2>1. Idle.op # job[w].op
    BY DEF Idle
  <2> QED BY <1>1, <2>1, DeleteAuthShape, EndShape DEF KeptRequest
<1>10. CASE ~List(w) /\ ~NextDoc(w) /\ ~Posts(w) /\ ~DeleteGroupDoc(w) /\ ~ReadPrevFails(w)
  <2>1. Between(n, j)
    BY <1>2, <1>9, <1>10, ActsBetween
  <2>2. UNCHANGED <<groups, slices>>
    BY <1>10, GroupsKept
  <2> QED BY <1>1, <2>1, <2>2, KeepGroupDeletion
<1> QED BY <1>4, <1>5, <1>6, <1>7, <1>8, <1>10

LEMMA KeepSubDeletion ==
    ASSUME NEW w, UNCHANGED <<groups, slices>>, job'[w].arg = job[w].arg,
           Between(job'[w], job[w]), SubDeletion(job[w])
    PROVE  SubDeletion(job[w])'
<1> DEFINE j == job[w]
           n == job'[w]
<1>1. n.arg = j.arg /\ Between(n, j) /\ SubDeletion(j) /\ groups' = groups /\ slices' = slices
  OBVIOUS
<1> HIDE DEF j, n
<1>2. CASE n.err /\ n.work \subseteq j.work /\ n.pc \notin {"prev", "post"}
  <2>1. /\ \A d \in n.work : n.arg \notin d[2].imsis
        /\ ~(n.pc \in {"prev", "post"}) /\ n.err
    BY <1>1, <1>2 DEF SubDeletion
  <2> QED BY <2>1 DEF SubDeletion, n
<1>3. CASE /\ KeptTask(n, j) /\ n.err = j.err /\ j.pc \notin {"list", "end"} /\ n.pc # "end"
           /\ n.pc \in {"prev", "post"} <=> j.pc \in {"prev", "post"}
  <2>1. ToWrite(n) = ToWrite(j)
    BY <1>3 DEF ToWrite, KeptTask
  <2>2. /\ \A d \in n.work : n.arg \notin d[2].imsis
        /\ n.pc \in {"prev", "post"} => n.arg \notin n.new.imsis
        /\ ~n.err => \A g \in Groups : n.arg \in groups'[g].imsis => g \in ToWrite(n)
        /\ n.pc # "end"
    BY <1>1, <1>3, <2>1 DEF SubDeletion, KeptTask
  <2> QED BY <2>2 DEF SubDeletion, ToWrite, n
<1> QED BY <1>1, <1>2, <1>3 DEF Between

LEMMA SubDeletionStep ==
    ASSUME BaseInv, NEW w \in Workers, Acts(w), job[w].alone, job[w].op = "deleteSub",
           KeptRequest(job'[w], job[w]), SubDeletion(job[w])
    PROVE  SubDeletion(job[w])'
<1> DEFINE j == job[w]
           n == job'[w]
<1>1. ControlInv /\ RequestOK(j) /\ TaskOK(j) /\ n.arg = j.arg /\ j.arg \in Imsis
  BY Known DEF KeptRequest, RequestOK
<1>2. Looping(j) /\ ~OnSlice(j)
  BY DEF Looping, OnSlice
<1>3. SubDeletion(j)
  OBVIOUS
<1>4. CASE List(w)
  <2>1. n.pc = "next" /\ n.work = Found(j) /\ KeptErr(n, j) /\ groups' = groups
    BY <1>1, <1>4, ListShape DEF List, store
  <2>2. \A d \in Found(j) : j.arg \notin d[2].imsis
    BY FoundTyped DEF BaseInv
  <2>3. \A g \in Groups : j.arg \in groups[g].imsis => g \in {d[1] : d \in Found(j)}
    <3>1. ASSUME NEW g \in Groups, j.arg \in groups[g].imsis
          PROVE  g \in {d[1] : d \in Found(j)}
      <4> DEFINE d == <<g, [groups[g] EXCEPT !.imsis = @ \ {j.arg}]>>
      <4>1. d \in Found(j)
        <5> DEFINE e == <<g, groups[g]>>
        <5>1. e \in AllGroups /\ j.arg \in e[2].imsis /\ j.op = "deleteSub"
          BY <3>1 DEF AllGroups
        <5>2. d = <<e[1], [e[2] EXCEPT !.imsis = @ \ {j.arg}]>>
          OBVIOUS
        <5> HIDE DEF d, e, j
        <5> QED BY <5>1, <5>2 DEF Found
      <4>2. d[1] = g
        OBVIOUS
      <4> HIDE DEF d
      <4> QED BY <4>1, <4>2
    <3> QED BY <3>1
  <2> HIDE DEF j, n
  <2>4. /\ \A d \in n.work : n.arg \notin d[2].imsis
        /\ \A g \in Groups : n.arg \in groups'[g].imsis => g \in {d[1] : d \in n.work}
    BY <1>1, <2>1, <2>2, <2>3
  <2> QED BY <2>1, <2>4 DEF SubDeletion, ToWrite, n
<1>5. CASE NextDoc(w)
  <2>1. /\ j.pc = "next" /\ n.pc = "prev" /\ KeptErr(n, j) /\ groups' = groups
        /\ \E d \in j.work : n.work = j.work \ {d} /\ n.name = d[1] /\ n.new = d[2]
    BY <1>1, <1>5, NextDocShape DEF NextDoc, store
  <2>2. PICK d \in j.work : n.work = j.work \ {d} /\ n.name = d[1] /\ n.new = d[2]
    BY <2>1
  <2> HIDE DEF j, n
  <2>3. {e[1] : e \in j.work} \subseteq {e[1] : e \in n.work} \union {n.name}
    BY <2>2
  <2>4. /\ \A e \in n.work : n.arg \notin e[2].imsis
        /\ n.arg \notin n.new.imsis
        /\ ~n.err => \A g \in Groups : n.arg \in groups'[g].imsis =>
                        g \in {e[1] : e \in n.work} \union {n.name}
    BY <1>1, <1>3, <2>1, <2>2, <2>3 DEF SubDeletion, ToWrite, KeptErr
  <2> QED BY <2>1, <2>4 DEF SubDeletion, ToWrite, n
<1>6. CASE Posts(w)
  <2>1. j.pc = "post" /\ n.pc = "lock" /\ KeptTask(n, j) /\ KeptErr(n, j)
    BY <1>1, <1>6, PostShape DEF KeptAll, KeptButErr
  <2>2. PICK d \in GroupDocs : d.imsis = j.new.imsis /\ groups' = [groups EXCEPT ![j.name] = d]
    BY <1>2, <1>6, PostOnce
  <2>3. DOMAIN groups = Groups
    BY DEF BaseInv, StoreInv
  <2> HIDE DEF j, n
  <2>5. /\ \A e \in n.work : n.arg \notin e[2].imsis
        /\ j.arg \notin j.new.imsis
        /\ ~j.err => \A g \in Groups : j.arg \in groups[g].imsis =>
                        g \in {e[1] : e \in j.work} \union {j.name}
    BY <1>1, <1>3, <2>1 DEF SubDeletion, ToWrite, KeptTask
  <2>6. \A g \in Groups : groups'[g].imsis = IF g = j.name THEN j.new.imsis ELSE groups[g].imsis
    BY <2>2, <2>3
  <2>7. ~n.err => \A g \in Groups : n.arg \in groups'[g].imsis => g \in {e[1] : e \in n.work}
    BY <1>1, <2>1, <2>5, <2>6 DEF KeptTask, KeptErr
  <2> QED BY <2>1, <2>5, <2>7 DEF SubDeletion, ToWrite, n
<1>7. CASE DeleteAuth(w)
  <2>1. /\ j.pc = "next" /\ n.pc = "end" /\ KeptTask(n, j) /\ KeptErr(n, j) /\ j.work = {}
        /\ groups' = groups /\ auth' = auth \ {j.arg}
    BY <1>1, <1>7, DeleteAuthShape, DeleteAuthOnce DEF KeptAll, KeptButErr
  <2> HIDE DEF j, n
  <2>2. ~n.err => \A g \in Groups : n.arg \in groups'[g].imsis => g \in {e[1] : e \in n.work}
    BY <1>1, <1>3, <2>1 DEF SubDeletion, ToWrite, KeptTask, KeptErr
  <2>3. n.work = {} /\ n.arg \notin auth'
    BY <1>1, <2>1 DEF KeptTask
  <2> QED BY <2>1, <2>2, <2>3 DEF SubDeletion, ToWrite, n
<1>8. CASE ReadPrevFails(w)
  <2>1. /\ j.pc = "prev" /\ n.pc = "post" /\ n.name = j.name /\ n.new = j.new
        /\ n.work = j.work /\ n.err = j.err
    BY <1>1, <1>8, ReadPrevFailsShape
  <2>2. groups' = groups
    BY <1>8 DEF ReadPrevFails, store
  <2> HIDE DEF j, n
  <2>3. /\ \A e \in n.work : n.arg \notin e[2].imsis
        /\ n.arg \notin n.new.imsis
        /\ ~n.err => \A g \in Groups : n.arg \in groups'[g].imsis =>
                        g \in {e[1] : e \in n.work} \union {n.name}
    BY <1>1, <1>3, <2>1, <2>2 DEF SubDeletion, ToWrite
  <2> QED BY <2>1, <2>3 DEF SubDeletion, ToWrite, n
<1>9. ~DeleteGroupDoc(w) /\ ~End(w)
  <2>1. Idle.op # job[w].op
    BY DEF Idle
  <2> QED BY <1>1, <2>1, DeleteGroupDocShape, EndShape DEF KeptRequest
<1>10. CASE ~List(w) /\ ~NextDoc(w) /\ ~Posts(w) /\ ~DeleteAuth(w) /\ ~ReadPrevFails(w)
  <2>1. Between(n, j)
    BY <1>2, <1>9, <1>10, ActsBetween
  <2>2. UNCHANGED <<groups, slices>>
    BY <1>9, <1>10, GroupsKept
  <2> QED BY <1>1, <2>1, <2>2, KeepSubDeletion
<1> QED BY <1>4, <1>5, <1>6, <1>7, <1>8, <1>10

LEMMA DeletionStep == ASSUME BaseInv, DeletionInv, [Next]_vars PROVE DeletionInv'
<1> SUFFICES ASSUME NEW w \in Workers, job'[w].alone
             PROVE  /\ job'[w].op = "deleteGroup" => GroupDeletion(job[w])'
                    /\ job'[w].op = "deleteSub" => SubDeletion(job[w])'
  BY DEF DeletionInv
<1>1. /\ job[w].alone /\ job[w].op = "deleteGroup" => GroupDeletion(job[w])
      /\ job[w].alone /\ job[w].op = "deleteSub" => SubDeletion(job[w])
  BY DEF DeletionInv
<1>2. CASE UNCHANGED vars
  BY <1>1, <1>2 DEF vars, GroupDeletion, SubDeletion, ToWrite
<1>3. CASE Arrive(w) /\ Fresh(job'[w])
  <2>1. job'[w].work = {} /\ (job'[w].op \in {"deleteGroup", "deleteSub"} => job'[w].pc = "list")
    BY <1>3 DEF Fresh, SubOps
  <2> QED BY <2>1 DEF GroupDeletion, SubDeletion
<1>4. CASE Acts(w) /\ job[w].alone /\ KeptRequest(job'[w], job[w])
  <2>1. job'[w].op = job[w].op
    BY <1>4 DEF KeptRequest
  <2> QED BY <1>1, <1>4, <2>1, GroupDeletionStep, SubDeletionStep
<1> QED BY <1>2, <1>3, <1>4, SoloStep

LEMMA DeletionAlways == Spec => [](BaseInv /\ DeletionInv)
<1>1. Init => DeletionInv
  <2>1. Idle.alone = FALSE
    BY DEF Idle
  <2> QED BY <2>1 DEF Init, DeletionInv
<1> QED BY <1>1, InitBase, BaseStep, DeletionStep, PTL DEF Spec

(* A deletion of a device group or of a subscriber that runs alone, found every
   document stored once and is answered with success leaves nothing that refers
   to what it deleted, whatever failed calls, ends of the process and overlapping
   requests had left half done.                                               *)
THEOREM DeletionsAlwaysRepair == Spec => []DeletionsRepair
<1>1. BaseInv /\ DeletionInv => DeletionsRepair
  <2> SUFFICES ASSUME BaseInv, DeletionInv, NEW w \in Workers,
                      job[w].pc = "end", job[w].alone, ~job[w].err
               PROVE  /\ job[w].op = "deleteGroup" =>
                            /\ \A d \in AllGroups : d[1] = job[w].arg => d[2] = NoGroup
                            /\ \A d \in AllSlices : job[w].arg \notin d[2].groups
                      /\ job[w].op = "deleteSub" =>
                            /\ job[w].arg \notin auth
                            /\ \A d \in AllGroups : job[w].arg \notin d[2].imsis
    BY DEF DeletionsRepair, Succeeds
  <2>1. CASE job[w].op = "deleteGroup"
    <3>1. GroupDeletion(job[w])
      BY <2>1 DEF DeletionInv
    <3>2. /\ groups[job[w].arg] = NoGroup
          /\ \A s \in Slices : job[w].arg \notin slices[s].groups
      BY <3>1 DEF GroupDeletion, ToWrite
    <3> QED BY <2>1, <3>2, Once, AllOnce
  <2>2. CASE job[w].op = "deleteSub"
    <3>1. SubDeletion(job[w])
      BY <2>2 DEF DeletionInv
    <3>2. job[w].arg \notin auth /\ \A g \in Groups : job[w].arg \notin groups[g].imsis
      BY <3>1 DEF SubDeletion, ToWrite
    <3> QED BY <2>2, <3>2, Once, AllOnce
  <2> QED BY <2>1, <2>2
<1> QED BY <1>1, DeletionAlways, PTL

(* Whatever fails, a request that runs alone and found every document stored once
   removes the document of a device group only when no slice has it any more, and
   the authentication data of a subscriber only when no device group has its IMSI. *)
THEOREM ReferencesAlwaysFirst == Spec => ReferencesFirst
<1> DEFINE First == \A w \in Workers : LET j == job[w] IN j.alone =>
                       /\ (j.op = "deleteGroup" /\ groups'[j.arg] # groups[j.arg]) =>
                             \A d \in AllSlices : j.arg \notin d[2].groups
                       /\ (j.op = "deleteSub" /\ auth' # auth) =>
                             \A d \in AllGroups : j.arg \notin d[2].imsis
<1>1. BaseInv /\ DeletionInv /\ [Next]_vars => [First]_vars
  <2> SUFFICES ASSUME BaseInv, DeletionInv, Next, NEW w \in Workers, job[w].alone
               PROVE  /\ (job[w].op = "deleteGroup" /\ groups'[job[w].arg] # groups[job[w].arg]) =>
                             \A d \in AllSlices : job[w].arg \notin d[2].groups
                      /\ (job[w].op = "deleteSub" /\ auth' # auth) =>
                             \A d \in AllGroups : job[w].arg \notin d[2].imsis
    BY DEF vars
  <2>1. CASE ~Acts(w) \/ Restart
    <3>1. UNCHANGED store
      BY <2>1, AloneStep DEF Restart
    <3> QED BY <3>1 DEF store
  <2>2. CASE Acts(w) /\ job[w].op = "deleteGroup" /\ groups'[job[w].arg] # groups[job[w].arg]
    <3>1. ~Posts(w)
      BY <2>2, PostOnce DEF OnSlice
    <3>2. DeleteGroupDoc(w)
      BY <2>2, <3>1, GroupsKept
    <3>3. job[w].pc = "next" /\ job[w].work = {} /\ ~job[w].err
      BY <3>2, DeleteGroupDocShape DEF BaseInv
    <3>4. GroupDeletion(job[w])
      BY <2>2 DEF DeletionInv
    <3>5. \A s \in Slices : job[w].arg \notin slices[s].groups
      BY <3>3, <3>4 DEF GroupDeletion, ToWrite
    <3> QED BY <3>5, <2>2, Once, AllOnce
  <2>3. CASE Acts(w) /\ job[w].op = "deleteSub" /\ auth' # auth
    <3>1. RequestOK(job[w]) /\ job[w].op \notin SubOps
      BY <2>3, Known DEF SubOps
    <3>2. ~Store(w)
      BY <3>1 DEF Store, RequestOK
    <3>3. DeleteAuth(w)
      <4>1. CASE LockSlice(w) \/ LockGroup(w) \/ DeleteGroupDoc(w) \/ ReadPrev(w) \/ Posts(w) \/ Find(w)
                 \/ ReadGroup(w) \/ CheckAuth(w)
        BY <2>3, <4>1
           DEF LockSlice, LockGroup, DeleteGroupDoc, ReadPrev, Posts, Post, DeleteSliceDoc, Find,
               Find, ReadGroup, CheckAuth, store
      <4>2. CASE WriteDoc(w) \/ StartCleanup(w) \/ CleanGroup(w) \/ Remove(w) \/ Unlock(w)
        BY <2>3, <4>2 DEF WriteDoc, StartCleanup, CleanGroup, Remove, Unlock, store
      <4>3. CASE List(w) \/ NextDoc(w) \/ GiveUp(w) \/ Exists(w) \/ End(w)
        BY <2>3, <4>3 DEF List, NextDoc, GiveUp, Exists, End, store
      <4>4. CASE Fails(w)
        BY <2>3, <4>4 DEF Fails, ReadPrevFails, CallFails, ReadFails, WriteFails, store
      <4> QED BY <2>3, <3>2, <4>1, <4>2, <4>3, <4>4 DEF Acts, Locks, Proceed, Posts, Find
    <3>4. job[w].pc = "next" /\ job[w].work = {} /\ ~job[w].err
      BY <3>3, DeleteAuthShape DEF BaseInv
    <3>5. SubDeletion(job[w])
      BY <2>3 DEF DeletionInv
    <3>6. \A g \in Groups : job[w].arg \notin groups[g].imsis
      BY <3>4, <3>5 DEF SubDeletion, ToWrite
    <3> QED BY <3>6, <2>3, Once, AllOnce
  <2> QED BY <2>1, <2>2, <2>3
<1>2. [][First]_vars => ReferencesFirst
  BY DEF ReferencesFirst
<1> QED BY <1>1, <1>2, DeletionAlways, PTL DEF Spec

-----------------------------------------------------------------------------
(* The documents that are written and removed. *)

ProvidedThen(i, p) == \A k \in DOMAIN Derived : Key(Derived[k], i, p) \in docs'
BegunThen(i, k, p) == \A m \in 1..(k - 1) : Key(Derived[m], i, p) \in docs'

LEMMA UpsertedDocs ==
    ASSUME NEW i, NEW p \in Plmns, NEW k \in 1..5, docs' = Upserted(Derived[k], i, p)
    PROVE  /\ \A d \in docs : d \in docs' \/ d = <<"amData", i, None>>
           /\ \A d \in docs' : d \in docs \/ d = Key(Derived[k], i, p)
           /\ Key(Derived[k], i, p) \in docs'
           /\ \A m \in 1..5 : \A e : \A q \in Plmns :
                 Key(Derived[m], e, q) \in docs => Key(Derived[m], e, q) \in docs'
<1>1. /\ \A d \in docs : d \in docs' \/ d = <<"amData", i, None>>
      /\ \A d \in docs' : d \in docs \/ d = Key(Derived[k], i, p)
      /\ Key(Derived[k], i, p) \in docs'
  BY DEF Upserted
<1>2. ASSUME NEW m \in 1..5, NEW e, NEW q \in Plmns
      PROVE  Key(Derived[m], e, q) # <<"amData", i, None>>
  BY DerivedValues, ProvisioningAssumption DEF Key
<1> QED BY <1>1, <1>2

LEMMA UpsertedProvided ==
    ASSUME NEW i, NEW p \in Plmns, NEW k \in 1..5, docs' = Upserted(Derived[k], i, p)
    PROVE  /\ \A e : \A q \in Plmns : Provided(e, q) => ProvidedThen(e, q)
           /\ Begun(i, k, p) => BegunThen(i, k + 1, p)
           /\ k = 5 /\ Begun(i, 5, p) => ProvidedThen(i, p)
<1>1. /\ Key(Derived[k], i, p) \in docs'
      /\ \A m \in 1..5 : \A e : \A q \in Plmns :
            Key(Derived[m], e, q) \in docs => Key(Derived[m], e, q) \in docs'
  BY UpsertedDocs
<1>2. DOMAIN Derived = 1..5
  BY DerivedValues
<1>3. \A e : \A q \in Plmns : Provided(e, q) => ProvidedThen(e, q)
  BY <1>1, <1>2 DEF Provided, ProvidedThen
<1>4. ASSUME Begun(i, k, p), NEW m \in 1..k PROVE Key(Derived[m], i, p) \in docs'
  <2>1. m = k \/ (m \in 1..(k - 1) /\ m \in 1..5)
    OBVIOUS
  <2> QED BY <1>1, <1>4, <2>1 DEF Begun
<1>5. k = 5 /\ Begun(i, 5, p) => ProvidedThen(i, p)
  BY <1>2, <1>4 DEF ProvidedThen
<1>6. Begun(i, k, p) => BegunThen(i, k + 1, p)
  <2>1. (k + 1) - 1 = k
    OBVIOUS
  <2> QED BY <1>4, <2>1 DEF BegunThen
<1> QED BY <1>3, <1>5, <1>6

LEMMA RemovedProvided ==
    ASSUME NEW i, NEW p, docs' = Removed(i, p)
    PROVE  /\ docs' \subseteq docs
           /\ \A d \in docs : d[2] # i => d \in docs'
           /\ \A e, q : e # i /\ Provided(e, q) => ProvidedThen(e, q)
           /\ docs' = docs' \ KeysOf(i, p)
           /\ \A e, q : docs = Removed(e, q) => docs' = docs' \ KeysOf(e, q)
<1>1. \A k, e, q : Key(Derived[k], e, q)[2] = e
  BY DEF Key
<1>2. docs' \subseteq docs /\ \A d \in docs : d[2] # i => d \in docs'
  BY <1>1 DEF Removed, KeysOf
<1>3. \A e, q : e # i /\ Provided(e, q) => ProvidedThen(e, q)
  BY <1>1, <1>2 DEF Provided, ProvidedThen
<1>4. /\ docs' = docs' \ KeysOf(i, p)
      /\ \A e, q : docs = Removed(e, q) => docs' = docs' \ KeysOf(e, q)
  BY DEF Removed, KeysOf
<1> QED BY <1>2, <1>3, <1>4

-----------------------------------------------------------------------------
(* Writing one slice or one device group. *)

Plain == {"putSlice", "deleteSlice", "putGroup"}

(* The steps such a request makes when it meets no failure. *)
LEMMA PlainActs ==
    ASSUME BaseInv, NEW w \in Workers, Acts(w), job[w].op \in Plain,
           KeptRequest(job'[w], job[w]), ~job'[w].hurt
    PROVE  \/ ReadPrev(w) \/ Find(w) \/ Posts(w) \/ LockSlice(w) \/ LockGroup(w) \/ ReadGroup(w)
           \/ CheckAuth(w) \/ WriteDoc(w) \/ StartCleanup(w) \/ CleanGroup(w) \/ Remove(w)
           \/ Unlock(w)
<1> DEFINE j == job[w]
<1>1. ControlInv /\ JobOK(j) /\ RequestOK(j)
  BY Known
<1>2. j.pc \notin {"list", "next", "exists", "store"}
  BY <1>1, Places DEF RequestOK, Plain, SubOps
<1>3. ~List(w) /\ ~NextDoc(w) /\ ~GiveUp(w) /\ ~Exists(w) /\ ~Store(w)
  BY <1>2 DEF List, NextDoc, GiveUp, Exists, Store
<1>4. ~DeleteGroupDoc(w) /\ ~DeleteAuth(w)
  BY <1>2 DEF DeleteGroupDoc, DeleteAuth, Finishing
<1>5. ~End(w)
  <2>1. Idle.op \notin Plain
    BY DEF Idle, Plain
  <2> QED BY <1>1, <2>1, EndShape DEF KeptRequest
<1>6. ~Fails(w)
  BY <1>1, ReadPrevFailsShape, CallFailsShape, ReadFailsShape, WriteFailsShape DEF Fails
<1> QED BY <1>3, <1>4, <1>5, <1>6 DEF Acts, Locks, Proceed, Posts, Find

(* The lists of a derivation or clean-up are empty before it starts. *)
LEMMA Started ==
    ASSUME BaseInv, NEW w \in Workers
    PROVE  LET j == job[w]
           IN  /\ j.pc # "derive" => j.imsis = {} /\ j.cur = None
               /\ j.pc # "cleanup" => j.gone = {}
               /\ j.pc \notin {"derive", "cleanup"} \/ ~OnSlice(j) => j.left = {}
               /\ j.left \subseteq Groups /\ j.imsis \subseteq Imsis /\ j.gone \subseteq Imsis
               /\ None \notin Imsis /\ auth \subseteq Imsis /\ None \notin Plmns
<1>1. JobOK(job[w]) /\ RequestOK(job[w]) /\ PlanOK(job[w])
  BY Known
<1>2. OnSlice(job[w]) <=> job[w].op \in SliceOps
  BY <1>1, Places
<1> QED BY <1>1, <1>2, ProvisioningAssumption DEF PlanOK, BaseInv, StoreInv

(* A step that stores nothing keeps what is settled for reasons of its own. *)
LEMMA KeptLost ==
    ASSUME NEW j, NEW n, KeptTask(n, j), n.prev = j.prev
    PROVE  LostGroups(n) = LostGroups(j) /\ (\A i : Lost(n, i) <=> Lost(j, i))
BY DEF LostGroups, Lost, KeptTask

LEMMA SettledThen ==
    ASSUME NEW w, NEW g, NEW i, LET n == job'[w] IN
           \/ groups'[g].kind = "none"
           \/ ProvidedThen(i, n.new.plmn)
           \/ /\ n.pc = "derive"
              /\ g \in n.left \/ i \in n.imsis \/ (i = n.cur /\ BegunThen(i, n.k, n.plmn))
    PROVE  Settled(job[w], g, i)'
BY DEF Settled, Provided, ProvidedThen, InProgress, Begun, BegunThen

LEMMA LockSliceProgress ==
    ASSUME BaseInv, NEW w \in Workers, LockSlice(w), job[w].op = "putSlice",
           ~job'[w].err
    PROVE  SliceProgress(job[w])'
<1> DEFINE j == job[w]
           n == job'[w]
<1>1. /\ KeptTask(n, j) /\ n.pc = "derive" /\ n.plmn = j.new.plmn /\ n.left = j.new.groups
  BY LockSliceShape DEF BaseInv
<1> HIDE DEF j, n
<1>2. n.new = j.new
  BY <1>1 DEF KeptTask
<1> QED BY <1>1, <1>2 DEF SliceProgress, Settled, n

LEMMA ReadGroupProgress ==
    ASSUME BaseInv, NEW w \in Workers, ReadGroup(w), SliceProgress(job[w])
    PROVE  SliceProgress(job[w])'
<1> DEFINE j == job[w]
           n == job'[w]
<1>1. /\ KeptTask(n, j) /\ n.pc = "derive" /\ j.pc = "derive" /\ n.plmn = j.plmn
      /\ j.imsis = {} /\ j.cur = None
      /\ \E g \in j.left :
            /\ n.left = j.left \ {g}
            /\ n.imsis = IF groups[g].kind = "none" THEN {} ELSE groups[g].imsis
  BY ReadGroupShape DEF BaseInv
<1>2. UNCHANGED store
  BY DEF ReadGroup
<1>3. auth \subseteq Imsis /\ None \notin Imsis
  BY Started
<1>4. SliceProgress(j)
  OBVIOUS
<1> HIDE DEF j, n
<1>5. PICK h \in j.left :
            /\ n.left = j.left \ {h}
            /\ n.imsis = IF groups[h].kind = "none" THEN {} ELSE groups[h].imsis
  BY <1>1
<1>6. n.new = j.new /\ n.plmn = n.new.plmn
  BY <1>1, <1>4 DEF KeptTask, SliceProgress
<1>7. ASSUME NEW g \in n.new.groups, NEW i \in groups[g].imsis \intersect auth
      PROVE  \/ groups[g].kind = "none" \/ Provided(i, n.new.plmn)
             \/ g \in n.left \/ i \in n.imsis
  <2>1. Settled(j, g, i)
    BY <1>1, <1>4, <1>6, <1>7 DEF SliceProgress
  <2>2. ~InProgress(j, i)
    BY <1>1, <1>3, <1>7 DEF InProgress
  <2>3. groups[g].kind = "none" \/ Provided(i, j.new.plmn) \/ g \in j.left
    BY <1>1, <2>1, <2>2 DEF Settled
  <2> QED BY <1>5, <1>6, <1>7, <2>3
<1>8. ASSUME NEW g \in n.new.groups, NEW i \in groups'[g].imsis \intersect auth'
      PROVE  \/ groups'[g].kind = "none" \/ ProvidedThen(i, n.new.plmn)
             \/ g \in n.left \/ i \in n.imsis
  BY <1>2, <1>7, <1>8 DEF store, Provided, ProvidedThen
<1> QED BY <1>1, <1>6, <1>8, SettledThen DEF SliceProgress, n

LEMMA CheckAuthProgress ==
    ASSUME BaseInv, NEW w \in Workers, CheckAuth(w), SliceProgress(job[w])
    PROVE  SliceProgress(job[w])'
<1> DEFINE j == job[w]
           n == job'[w]
<1>1. /\ KeptTask(n, j) /\ n.pc = "derive" /\ j.pc = "derive" /\ n.plmn = j.plmn
      /\ j.cur = None /\ n.left = j.left
      /\ \E i \in j.imsis :
            /\ n.imsis = j.imsis \ {i}
            /\ \/ i \in auth /\ n.cur = i /\ n.k = 1
               \/ i \notin auth /\ n.cur = None
  BY CheckAuthShape DEF BaseInv
<1>2. UNCHANGED store
  BY DEF CheckAuth
<1>3. auth \subseteq Imsis /\ None \notin Imsis
  BY Started
<1>4. SliceProgress(j)
  OBVIOUS
<1> HIDE DEF j, n
<1>5. PICK e \in j.imsis :
            /\ n.imsis = j.imsis \ {e}
            /\ \/ e \in auth /\ n.cur = e /\ n.k = 1
               \/ e \notin auth /\ n.cur = None
  BY <1>1
<1>6. n.new = j.new /\ n.plmn = n.new.plmn
  BY <1>1, <1>4 DEF KeptTask, SliceProgress
<1>7. ASSUME NEW g \in n.new.groups, NEW i \in groups[g].imsis \intersect auth
      PROVE  \/ groups[g].kind = "none" \/ Provided(i, n.new.plmn)
             \/ g \in n.left \/ i \in n.imsis \/ (i = n.cur /\ n.k = 1)
  <2>1. Settled(j, g, i)
    BY <1>1, <1>4, <1>6, <1>7 DEF SliceProgress
  <2>2. InProgress(j, i) => i \in j.imsis
    BY <1>1, <1>3, <1>7 DEF InProgress
  <2>3. \/ groups[g].kind = "none" \/ Provided(i, j.new.plmn) \/ g \in j.left \/ i \in j.imsis
    BY <1>1, <2>1, <2>2 DEF Settled
  <2> QED BY <1>1, <1>5, <1>6, <1>7, <2>3
<1>8. ASSUME NEW g \in n.new.groups, NEW i \in groups'[g].imsis \intersect auth'
      PROVE  \/ groups'[g].kind = "none" \/ ProvidedThen(i, n.new.plmn)
             \/ g \in n.left \/ i \in n.imsis \/ (i = n.cur /\ n.k = 1)
  BY <1>2, <1>7, <1>8 DEF store, Provided, ProvidedThen
<1>9. \A i : n.k = 1 => BegunThen(i, n.k, n.plmn)
  BY DEF BegunThen
<1> QED BY <1>1, <1>6, <1>8, <1>9, SettledThen DEF SliceProgress, n

LEMMA WriteDocProgress ==
    ASSUME BaseInv, NEW w \in Workers, job[w].alone, WriteDoc(w), SliceProgress(job[w]), ~job'[w].err
    PROVE  SliceProgress(job[w])'
<1> DEFINE j == job[w]
           n == job'[w]
<1>1. /\ j.pc = "derive" /\ j.plmn \in Plmns /\ j.k \in 1..5
      /\ docs' = Upserted(Derived[j.k], j.cur, j.plmn)
      /\ KeptTask(n, j) /\ KeptPlan(n, j) /\ n.pc = "derive"
      /\ \/ n.cur = j.cur /\ n.k = j.k + 1
         \/ n.cur = None /\ j.k = 5
  BY WriteDocShape, WriteDocOnce DEF BaseInv, StopOf
<1>2. UNCHANGED <<auth, groups>>
  BY WriteDocOnce
<1>3. auth \subseteq Imsis /\ None \notin Imsis
  BY Started
<1>4. SliceProgress(j)
  OBVIOUS
<1> HIDE DEF j, n
<1>5. n.new = j.new /\ n.plmn = j.plmn /\ n.plmn = n.new.plmn
      /\ n.left = j.left /\ n.imsis = j.imsis
  BY <1>1, <1>4 DEF KeptTask, KeptPlan, SliceProgress
<1>6. /\ \A e : \A q \in Plmns : Provided(e, q) => ProvidedThen(e, q)
      /\ Begun(j.cur, j.k, j.plmn) => BegunThen(j.cur, j.k + 1, j.plmn)
      /\ j.k = 5 /\ Begun(j.cur, 5, j.plmn) => ProvidedThen(j.cur, j.plmn)
  BY <1>1, UpsertedProvided
<1>7. Begun(j.cur, j.k, j.plmn) =>
         \/ ProvidedThen(j.cur, j.plmn)
         \/ n.cur = j.cur /\ BegunThen(n.cur, n.k, n.plmn)
  BY <1>1, <1>5, <1>6
<1>8. ASSUME NEW g \in n.new.groups, NEW i \in groups[g].imsis \intersect auth
      PROVE  \/ groups'[g].kind = "none" \/ ProvidedThen(i, n.new.plmn)
             \/ g \in n.left \/ i \in n.imsis
             \/ i = n.cur /\ BegunThen(n.cur, n.k, n.plmn)
  <2>1. Settled(j, g, i)
    BY <1>1, <1>4, <1>5, <1>8 DEF SliceProgress
  <2>2. \/ groups[g].kind = "none" \/ Provided(i, j.plmn)
        \/ g \in j.left \/ i \in j.imsis \/ (i = j.cur /\ Begun(i, j.k, j.plmn))
    BY <1>1, <1>5, <2>1 DEF Settled, InProgress
  <2> QED BY <1>1, <1>2, <1>5, <1>6, <1>7, <2>2
<1> QED BY <1>1, <1>2, <1>5, <1>8, SettledThen DEF SliceProgress, n

(* The clean-up takes the documents of IMSIs the slice has lost, and of no other. *)
SettledClean(n, g, i) == groups[g].kind = "none" \/ ProvidedThen(i, n.new.plmn) \/ Lost(n, i)

LEMMA CleanProgress ==
    ASSUME NEW w, UNCHANGED <<auth, groups>>, LET n == job'[w] IN
           /\ n.pc \in {"cleanup", "end"}
           /\ n.pc = "cleanup" => n.left \subseteq LostGroups(n) /\ \A i \in n.gone : Lost(n, i)
           /\ \A g \in n.new.groups : \A i \in groups[g].imsis \intersect auth :
                 SettledClean(n, g, i)
    PROVE  SliceProgress(job[w])'
<1> DEFINE n == job'[w]
<1>1. \A i : Lost(n, i) => Lost(job[w], i)'
  BY DEF Lost, LostGroups
<1>2. \A i : ProvidedThen(i, n.new.plmn) => Provided(i, job[w].new.plmn)'
  BY DEF Provided, ProvidedThen
<1>3. LostGroups(n) = LostGroups(job[w])'
  BY DEF LostGroups
<1>4. ASSUME NEW g \in n.new.groups, NEW i \in groups'[g].imsis \intersect auth'
      PROVE  Settled(job[w], g, i)'
  <2>1. SettledClean(n, g, i)
    BY <1>4
  <2>2. n.pc # "derive"
    OBVIOUS
  <2> QED BY <1>1, <1>2, <2>1, <2>2 DEF Settled, SettledClean
<1> QED BY <1>1, <1>3, <1>4 DEF SliceProgress

LEMMA StartCleanupProgress ==
    ASSUME BaseInv, NEW w \in Workers, StartCleanup(w), OnSlice(job[w]), SliceProgress(job[w])
    PROVE  SliceProgress(job[w])'
<1> DEFINE j == job[w]
           n == job'[w]
<1>1. /\ j.pc = "derive" /\ n.pc = "cleanup" /\ j.left = {} /\ j.imsis = {} /\ j.cur = None
      /\ KeptTask(n, j) /\ n.prev = j.prev /\ n.gone = j.gone
      /\ n.left = DeletedDeviceGroups(j.new, j.prev)
  BY StartCleanupShape DEF BaseInv
<1>2. UNCHANGED <<auth, groups, docs>>
  BY DEF StartCleanup, store
<1>3. auth \subseteq Imsis /\ None \notin Imsis /\ j.gone = {}
  BY <1>1, Started
<1>4. SliceProgress(j)
  OBVIOUS
<1> HIDE DEF j, n
<1>5. n.left \subseteq LostGroups(n) /\ n.new = j.new
  BY <1>1 DEF LostGroups, DeletedDeviceGroups, KeptTask
<1>6. ASSUME NEW g \in n.new.groups, NEW i \in groups[g].imsis \intersect auth
      PROVE  SettledClean(n, g, i)
  <2>1. Settled(j, g, i)
    BY <1>1, <1>4, <1>5, <1>6 DEF SliceProgress
  <2>2. ~InProgress(j, i)
    BY <1>1, <1>3, <1>6 DEF InProgress
  <2>3. groups[g].kind = "none" \/ Provided(i, n.new.plmn)
    BY <1>1, <1>5, <2>1, <2>2 DEF Settled
  <2> QED BY <1>2, <2>3 DEF SettledClean, Provided, ProvidedThen
<1> QED BY <1>1, <1>2, <1>3, <1>5, <1>6, CleanProgress DEF n

LEMMA CleanGroupProgress ==
    ASSUME BaseInv, NEW w \in Workers, CleanGroup(w), SliceProgress(job[w])
    PROVE  SliceProgress(job[w])'
<1> DEFINE j == job[w]
           n == job'[w]
<1>1. /\ j.pc = "cleanup" /\ n.pc = "cleanup" /\ KeptTask(n, j) /\ n.prev = j.prev
      /\ \E g \in j.left : n.left = j.left \ {g} /\ n.gone = groups[g].imsis
  BY CleanGroupShape DEF BaseInv
<1>2. UNCHANGED <<auth, groups, docs>>
  BY DEF CleanGroup, store
<1>3. SliceProgress(j)
  OBVIOUS
<1> HIDE DEF j, n
<1>4. LostGroups(n) = LostGroups(j) /\ (\A i : Lost(n, i) <=> Lost(j, i)) /\ n.new = j.new
  BY <1>1, KeptLost DEF KeptTask
<1>5. j.left \subseteq LostGroups(j)
  BY <1>1, <1>3 DEF SliceProgress
<1>6. n.left \subseteq LostGroups(n) /\ \A i \in n.gone : Lost(n, i)
  BY <1>1, <1>4, <1>5 DEF Lost
<1>7. ASSUME NEW g \in n.new.groups, NEW i \in groups[g].imsis \intersect auth
      PROVE  SettledClean(n, g, i)
  <2>1. Settled(j, g, i)
    BY <1>1, <1>3, <1>4, <1>7 DEF SliceProgress
  <2>2. groups[g].kind = "none" \/ Provided(i, n.new.plmn) \/ Lost(n, i)
    BY <1>1, <1>4, <2>1 DEF Settled
  <2> QED BY <1>2, <2>2 DEF SettledClean, Provided, ProvidedThen
<1> QED BY <1>1, <1>2, <1>6, <1>7, CleanProgress DEF n

LEMMA RemoveProgress ==
    ASSUME BaseInv, NEW w \in Workers, job[w].alone, Remove(w), SliceProgress(job[w])
    PROVE  SliceProgress(job[w])'
<1> DEFINE j == job[w]
           n == job'[w]
<1>1. /\ j.pc = "cleanup" /\ n.pc = "cleanup" /\ KeptTask(n, j) /\ n.prev = j.prev
      /\ n.left = j.left
      /\ \E i \in j.gone : n.gone = j.gone \ {i} /\ docs' = Removed(i, j.plmn)
  BY RemoveShape, RemoveOnce DEF BaseInv
<1>2. UNCHANGED <<auth, groups>>
  BY RemoveOnce
<1>3. SliceProgress(j)
  OBVIOUS
<1> HIDE DEF j, n
<1>4. LostGroups(n) = LostGroups(j) /\ (\A i : Lost(n, i) <=> Lost(j, i)) /\ n.new = j.new
  BY <1>1, KeptLost DEF KeptTask
<1>5. j.left \subseteq LostGroups(j) /\ \A i \in j.gone : Lost(j, i)
  BY <1>1, <1>3 DEF SliceProgress
<1>6. PICK e \in j.gone : n.gone = j.gone \ {e} /\ docs' = Removed(e, j.plmn)
  BY <1>1
<1>7. n.left \subseteq LostGroups(n) /\ \A i \in n.gone : Lost(n, i)
  BY <1>1, <1>4, <1>5, <1>6
<1>8. Lost(n, e) /\ \A i, q : i # e /\ Provided(i, q) => ProvidedThen(i, q)
  BY <1>4, <1>5, <1>6, RemovedProvided
<1>9. ASSUME NEW g \in n.new.groups, NEW i \in groups[g].imsis \intersect auth
      PROVE  SettledClean(n, g, i)
  <2>1. Settled(j, g, i)
    BY <1>1, <1>3, <1>4, <1>9 DEF SliceProgress
  <2>2. groups[g].kind = "none" \/ Provided(i, n.new.plmn) \/ Lost(n, i)
    BY <1>1, <1>4, <2>1 DEF Settled
  <2> QED BY <1>8, <2>2 DEF SettledClean
<1> QED BY <1>1, <1>2, <1>7, <1>9, CleanProgress DEF n

LEMMA UnlockProgress ==
    ASSUME BaseInv, NEW w \in Workers, Unlock(w), job[w].op \in {"putSlice", "putGroup"},
           SliceProgress(job[w])
    PROVE  SliceProgress(job[w])'
<1> DEFINE j == job[w]
           n == job'[w]
<1>1. /\ KeptAll(n, j) /\ n.pc = "end"
      /\ j.pc = "unlock" \/ j.pc = "cleanup"
  BY UnlockShape DEF BaseInv, Looping
<1>2. UNCHANGED <<auth, groups, docs>>
  BY DEF Unlock, store
<1>3. SliceProgress(j)
  OBVIOUS
<1> HIDE DEF j, n
<1>4. LostGroups(n) = LostGroups(j) /\ (\A i : Lost(n, i) <=> Lost(j, i)) /\ n.new = j.new
  BY <1>1, KeptLost DEF KeptAll, KeptButErr, KeptTask
<1>5. ASSUME NEW g \in n.new.groups, NEW i \in groups[g].imsis \intersect auth
      PROVE  SettledClean(n, g, i)
  <2>1. Settled(j, g, i) /\ j.pc = "cleanup"
    BY <1>1, <1>3, <1>4, <1>5 DEF SliceProgress
  <2>2. groups[g].kind = "none" \/ Provided(i, n.new.plmn) \/ Lost(n, i)
    BY <1>4, <2>1 DEF Settled
  <2> QED BY <1>2, <2>2 DEF SettledClean, Provided, ProvidedThen
<1> QED BY <1>1, <1>2, <1>5, CleanProgress DEF n

LEMMA KeptSliceProgress ==
    ASSUME NEW w, SliceProgress(job[w]), job'[w].pc = job[w].pc, KeptAll(job'[w], job[w]),
           UNCHANGED store
    PROVE  SliceProgress(job[w])'
<1> DEFINE j == job[w]
           n == job'[w]
<1>1. /\ n.pc = j.pc /\ n.plmn = j.plmn /\ n.left = j.left /\ n.imsis = j.imsis /\ n.gone = j.gone
      /\ n.new = j.new /\ n.prev = j.prev /\ n.cur = j.cur /\ n.k = j.k
  BY DEF KeptAll, KeptButErr, KeptTask, KeptPlan, KeptPlace
<1>2. /\ \A i : Lost(j, i)' <=> Lost(j, i)
      /\ LostGroups(j)' = LostGroups(j)
      /\ \A i, q : Provided(i, q)' <=> Provided(i, q)
      /\ \A i : InProgress(j, i)' <=> InProgress(j, i)
  BY <1>1 DEF Lost, LostGroups, Provided, InProgress, Begun, store
<1>3. \A g, i : Settled(j, g, i)' <=> Settled(j, g, i)
  BY <1>1, <1>2 DEF Settled, store
<1> QED BY <1>1, <1>2, <1>3 DEF SliceProgress, store

LEMMA SliceProgressStep ==
    ASSUME BaseInv, NEW w \in Workers, Acts(w), job[w].op = "putSlice",
           KeptRequest(job'[w], job[w]), Unhurt(job'[w]),
           Unhurt(job[w]) => SliceProgress(job[w])
    PROVE  SliceProgress(job[w])'
<1>1. /\ OnSlice(job[w]) /\ job[w].op \in Plain /\ ~job'[w].hurt /\ ~job'[w].err
      /\ ControlInv /\ job[w].alone
  BY DEF OnSlice, Plain, Unhurt, KeptRequest, BaseInv
<1>2. \/ ReadPrev(w) \/ Find(w) \/ Posts(w) \/ LockSlice(w) \/ LockGroup(w) \/ ReadGroup(w)
      \/ CheckAuth(w) \/ WriteDoc(w) \/ StartCleanup(w) \/ CleanGroup(w) \/ Remove(w)
      \/ Unlock(w)
  BY <1>1, PlainActs
<1>3. ASSUME job'[w].pc \in {"post", "lock"} PROVE SliceProgress(job[w])'
  BY <1>3 DEF SliceProgress
<1>4. CASE ReadPrev(w) \/ Posts(w)
  BY <1>1, <1>3, <1>4, ReadPrevShape, PostShape
<1>5. CASE LockSlice(w)
  BY <1>1, <1>5, LockSliceProgress
<1>6. ~LockGroup(w)
  BY <1>1 DEF LockGroup
<1>7. ASSUME KeptErr(job'[w], job[w]) PROVE SliceProgress(job[w])
  BY <1>7 DEF KeptErr, Unhurt, KeptRequest
<1>8. CASE ReadGroup(w)
  BY <1>1, <1>7, <1>8, ReadGroupShape, ReadGroupProgress
<1>9. CASE CheckAuth(w)
  BY <1>1, <1>7, <1>9, CheckAuthShape, CheckAuthProgress
<1>10. CASE WriteDoc(w)
  BY <1>1, <1>7, <1>10, WriteDocShape, WriteDocProgress DEF StopOf
<1>11. CASE StartCleanup(w)
  BY <1>1, <1>7, <1>11, StartCleanupShape, StartCleanupProgress
<1>12. CASE CleanGroup(w)
  BY <1>1, <1>7, <1>12, CleanGroupShape, CleanGroupProgress
<1>13. CASE Remove(w)
  BY <1>1, <1>7, <1>13, RemoveShape, RemoveProgress
<1>14. CASE Unlock(w)
  BY <1>1, <1>7, <1>14, UnlockShape, UnlockProgress DEF KeptAll
<1>15. CASE Find(w)
  <2>1. job'[w].pc = job[w].pc /\ KeptAll(job'[w], job[w]) /\ UNCHANGED store
    BY <1>1, <1>15, FindShape
  <2>2. SliceProgress(job[w])
    BY <1>7, <2>1 DEF KeptAll
  <2> QED BY <2>1, <2>2, KeptSliceProgress
<1> QED BY <1>2, <1>4, <1>5, <1>6, <1>8, <1>9, <1>10, <1>11, <1>12, <1>13, <1>14, <1>15

(* The same for a device group. *)

GroupProgressThen(w, p) ==
    LET n == job'[w]
    IN  /\ n.pc # "unlock"
        /\ n.pc \in {"derive", "cleanup"} => n.plmn = p
        /\ n.pc \in {"derive", "cleanup", "end"} =>
              \A i \in n.new.imsis \intersect auth' :
                 \/ ProvidedThen(i, p)
                 \/ /\ n.pc = "derive"
                    /\ i \in n.imsis \/ (i = n.cur /\ BegunThen(i, n.k, n.plmn))
        /\ n.pc = "cleanup" => n.gone \subseteq n.prev.imsis \ n.new.imsis
        /\ n.pc \in {"cleanup", "end"} =>
              \A i \in (n.prev.imsis \ n.new.imsis) \ n.gone : docs' = docs' \ KeysOf(i, p)

LEMMA LockGroupProgress ==
    ASSUME BaseInv, NEW w \in Workers, job[w].alone, LockGroup(w), ~job'[w].err,
           NEW s, Having(job[w].name) = {s}
    PROVE  GroupProgressThen(w, slices[s].plmn)
<1> DEFINE j == job[w]
           n == job'[w]
<1>1. /\ KeptTask(n, j) /\ n.pc = "derive" /\ n.imsis = j.new.imsis
      /\ \E t \in Having(j.name) : n.plmn = slices[t].plmn
  <2>1. AllSlices = {<<t, slices[t]>> : t \in Slices}
    BY Once, AllOnce
  <2>2. ASSUME NEW d \in AllSlices, j.name \in d[2].groups
        PROVE  \E t \in Having(j.name) : d[2] = slices[t]
    <3>1. PICK t \in Slices : d = <<t, slices[t]>>
      BY <2>1
    <3>2. t \in Having(j.name)
      BY <2>2, <3>1 DEF Having
    <3> QED BY <3>1, <3>2
  <2>3. /\ KeptTask(n, j) /\ n.pc = "derive" /\ n.imsis = j.new.imsis
        /\ \E d \in AllSlices : j.name \in d[2].groups /\ n.plmn = d[2].plmn
    BY LockGroupShape DEF BaseInv
  <2> QED BY <2>2, <2>3
<1>2. Having(j.name) = {s}
  OBVIOUS
<1> HIDE DEF j, n
<1>3. n.plmn = slices[s].plmn /\ n.new = j.new
  BY <1>1, <1>2 DEF KeptTask
<1> QED BY <1>1, <1>3 DEF GroupProgressThen, n

LEMMA CheckAuthGroupProgress ==
    ASSUME BaseInv, NEW w \in Workers, CheckAuth(w), NEW p, GroupProgress(job[w], p)
    PROVE  GroupProgressThen(w, p)
<1> DEFINE j == job[w]
           n == job'[w]
<1>1. /\ KeptTask(n, j) /\ n.pc = "derive" /\ j.pc = "derive" /\ n.plmn = j.plmn
      /\ j.cur = None /\ n.left = j.left
      /\ \E i \in j.imsis :
            /\ n.imsis = j.imsis \ {i}
            /\ \/ i \in auth /\ n.cur = i /\ n.k = 1
               \/ i \notin auth /\ n.cur = None
  BY CheckAuthShape DEF BaseInv
<1>2. auth' = auth /\ docs' = docs
  BY DEF CheckAuth, store
<1>3. auth \subseteq Imsis /\ None \notin Imsis
  BY Started
<1>4. GroupProgress(j, p)
  OBVIOUS
<1> HIDE DEF j, n
<1>5. PICK e \in j.imsis :
            /\ n.imsis = j.imsis \ {e}
            /\ \/ e \in auth /\ n.cur = e /\ n.k = 1
               \/ e \notin auth /\ n.cur = None
  BY <1>1
<1>6. n.new = j.new /\ n.plmn = p
  BY <1>1, <1>4 DEF KeptTask, GroupProgress
<1>7. \A i : n.k = 1 => BegunThen(i, n.k, n.plmn)
  BY DEF BegunThen
<1>8. ASSUME NEW i \in n.new.imsis \intersect auth
      PROVE  \/ ProvidedThen(i, p)
             \/ i \in n.imsis \/ (i = n.cur /\ BegunThen(i, n.k, n.plmn))
  <2>1. Provided(i, p) \/ InProgress(j, i)
    BY <1>1, <1>4, <1>6, <1>8 DEF GroupProgress
  <2>2. InProgress(j, i) => i \in j.imsis
    BY <1>1, <1>3, <1>8 DEF InProgress
  <2>3. Provided(i, p) => ProvidedThen(i, p)
    BY <1>2 DEF Provided, ProvidedThen
  <2> QED BY <1>1, <1>5, <1>6, <1>7, <1>8, <2>1, <2>2, <2>3
<1> QED BY <1>1, <1>2, <1>6, <1>8 DEF GroupProgressThen, n

LEMMA WriteDocGroupProgress ==
    ASSUME BaseInv, NEW w \in Workers, job[w].alone, WriteDoc(w), NEW p, GroupProgress(job[w], p),
           ~job'[w].err
    PROVE  GroupProgressThen(w, p)
<1> DEFINE j == job[w]
           n == job'[w]
<1>1. /\ j.pc = "derive" /\ j.plmn \in Plmns /\ j.k \in 1..5
      /\ docs' = Upserted(Derived[j.k], j.cur, j.plmn)
      /\ KeptTask(n, j) /\ KeptPlan(n, j) /\ n.pc = "derive"
      /\ \/ n.cur = j.cur /\ n.k = j.k + 1
         \/ n.cur = None /\ j.k = 5
  BY WriteDocShape, WriteDocOnce DEF BaseInv, StopOf
<1>2. auth' = auth
  BY WriteDocOnce
<1>3. auth \subseteq Imsis /\ None \notin Imsis
  BY Started
<1>4. GroupProgress(j, p)
  OBVIOUS
<1> HIDE DEF j, n
<1>5. n.new = j.new /\ n.plmn = j.plmn /\ n.plmn = p /\ n.imsis = j.imsis
  BY <1>1, <1>4 DEF KeptTask, KeptPlan, GroupProgress
<1>6. /\ \A e : \A q \in Plmns : Provided(e, q) => ProvidedThen(e, q)
      /\ Begun(j.cur, j.k, j.plmn) => BegunThen(j.cur, j.k + 1, j.plmn)
      /\ j.k = 5 /\ Begun(j.cur, 5, j.plmn) => ProvidedThen(j.cur, j.plmn)
  BY <1>1, UpsertedProvided
<1>7. Begun(j.cur, j.k, j.plmn) =>
         \/ ProvidedThen(j.cur, j.plmn)
         \/ n.cur = j.cur /\ BegunThen(n.cur, n.k, n.plmn)
  BY <1>1, <1>5, <1>6
<1>8. ASSUME NEW i \in n.new.imsis \intersect auth
      PROVE  \/ ProvidedThen(i, p)
             \/ i \in n.imsis \/ (i = n.cur /\ BegunThen(i, n.k, n.plmn))
  <2>1. Provided(i, p) \/ i \in j.imsis \/ (i = j.cur /\ Begun(i, j.k, j.plmn))
    BY <1>1, <1>4, <1>5, <1>8 DEF GroupProgress, InProgress
  <2> QED BY <1>1, <1>5, <1>6, <1>7, <2>1
<1> QED BY <1>1, <1>2, <1>5, <1>8 DEF GroupProgressThen, n

LEMMA StartCleanupGroupProgress ==
    ASSUME BaseInv, NEW w \in Workers, StartCleanup(w), ~OnSlice(job[w]),
           NEW p, GroupProgress(job[w], p)
    PROVE  GroupProgressThen(w, p)
<1> DEFINE j == job[w]
           n == job'[w]
<1>1. /\ j.pc = "derive" /\ n.pc = "cleanup" /\ j.imsis = {} /\ j.cur = None
      /\ KeptTask(n, j) /\ n.prev = j.prev /\ n.plmn = j.plmn
      /\ n.gone = DeletedImsis(j.new, j.prev)
  BY StartCleanupShape DEF BaseInv
<1>2. auth' = auth /\ docs' = docs
  BY DEF StartCleanup, store
<1>3. auth \subseteq Imsis /\ None \notin Imsis
  BY Started
<1>4. GroupProgress(j, p)
  OBVIOUS
<1> HIDE DEF j, n
<1>5. n.new = j.new /\ n.gone = n.prev.imsis \ n.new.imsis /\ n.plmn = p
  BY <1>1, <1>4 DEF DeletedImsis, KeptTask, GroupProgress
<1>6. ASSUME NEW i \in n.new.imsis \intersect auth PROVE ProvidedThen(i, p)
  <2>1. Provided(i, p) \/ InProgress(j, i)
    BY <1>1, <1>4, <1>5, <1>6 DEF GroupProgress
  <2>2. ~InProgress(j, i)
    BY <1>1, <1>3, <1>6 DEF InProgress
  <2> QED BY <1>2, <2>1, <2>2 DEF Provided, ProvidedThen
<1> QED BY <1>1, <1>2, <1>5, <1>6 DEF GroupProgressThen, n

LEMMA RemoveGroupProgress ==
    ASSUME BaseInv, NEW w \in Workers, job[w].alone, Remove(w), NEW p, GroupProgress(job[w], p)
    PROVE  GroupProgressThen(w, p)
<1> DEFINE j == job[w]
           n == job'[w]
<1>1. /\ j.pc = "cleanup" /\ n.pc = "cleanup" /\ KeptTask(n, j) /\ n.prev = j.prev
      /\ n.plmn = j.plmn
      /\ \E i \in j.gone : n.gone = j.gone \ {i} /\ docs' = Removed(i, j.plmn)
  BY RemoveShape, RemoveOnce DEF BaseInv
<1>2. auth' = auth
  BY RemoveOnce
<1>3. GroupProgress(j, p)
  OBVIOUS
<1> HIDE DEF j, n
<1>4. n.new = j.new /\ n.plmn = p /\ j.plmn = p /\ j.gone \subseteq j.prev.imsis \ j.new.imsis
  BY <1>1, <1>3 DEF KeptTask, GroupProgress
<1>5. PICK e \in j.gone : n.gone = j.gone \ {e} /\ docs' = Removed(e, j.plmn)
  BY <1>1
<1>6. /\ docs' = docs' \ KeysOf(e, p)
      /\ \A i : docs = Removed(i, p) => docs' = docs' \ KeysOf(i, p)
      /\ \A i : i # e /\ Provided(i, p) => ProvidedThen(i, p)
  BY <1>4, <1>5, RemovedProvided
<1>7. ASSUME NEW i \in n.new.imsis \intersect auth PROVE ProvidedThen(i, p)
  <2>1. Provided(i, p)
    BY <1>1, <1>3, <1>4, <1>7 DEF GroupProgress
  <2>2. i # e
    BY <1>4, <1>5, <1>7
  <2> QED BY <1>6, <2>1, <2>2
<1>8. ASSUME NEW i \in (n.prev.imsis \ n.new.imsis) \ n.gone PROVE docs' = docs' \ KeysOf(i, p)
  <2>1. CASE i = e
    BY <1>6, <2>1
  <2>2. CASE i # e
    <3>1. docs = Removed(i, p)
      BY <1>1, <1>3, <1>4, <1>5, <1>8, <2>2 DEF GroupProgress
    <3> QED BY <1>6, <3>1
  <2> QED BY <2>1, <2>2
<1>9. n.gone \subseteq n.prev.imsis \ n.new.imsis
  BY <1>1, <1>4, <1>5
<1> QED BY <1>1, <1>2, <1>4, <1>7, <1>8, <1>9 DEF GroupProgressThen, n

LEMMA UnlockGroupProgress ==
    ASSUME BaseInv, NEW w \in Workers, Unlock(w), job[w].op = "putGroup",
           NEW p, GroupProgress(job[w], p)
    PROVE  GroupProgressThen(w, p)
<1> DEFINE j == job[w]
           n == job'[w]
<1>1. /\ KeptAll(n, j) /\ n.pc = "end"
      /\ j.pc = "unlock" \/ (j.pc = "cleanup" /\ j.left = {} /\ j.gone = {})
  BY UnlockShape DEF BaseInv, Looping
<1>2. auth' = auth /\ docs' = docs
  BY DEF Unlock, store
<1>3. GroupProgress(j, p)
  OBVIOUS
<1> HIDE DEF j, n
<1>4. n.new = j.new /\ n.prev = j.prev /\ n.gone = {} /\ j.gone = {} /\ j.pc = "cleanup"
  BY <1>1, <1>3 DEF KeptAll, KeptButErr, KeptTask, KeptPlan, GroupProgress
<1>5. ASSUME NEW i \in n.new.imsis \intersect auth PROVE ProvidedThen(i, p)
  <2>1. Provided(i, p)
    BY <1>3, <1>4, <1>5 DEF GroupProgress
  <2> QED BY <1>2, <2>1 DEF Provided, ProvidedThen
<1>6. ASSUME NEW i \in n.prev.imsis \ n.new.imsis PROVE docs' = docs' \ KeysOf(i, p)
  <2>1. docs = Removed(i, p)
    BY <1>3, <1>4, <1>6 DEF GroupProgress
  <2> QED BY <1>2, <2>1 DEF Removed, KeysOf
<1> QED BY <1>1, <1>2, <1>5, <1>6 DEF GroupProgressThen, n

LEMMA KeptGroupProgress ==
    ASSUME NEW w, NEW p, GroupProgress(job[w], p), job'[w].pc = job[w].pc,
           KeptAll(job'[w], job[w]), UNCHANGED store
    PROVE  GroupProgressThen(w, p)
<1> DEFINE j == job[w]
           n == job'[w]
<1>1. /\ n.pc = j.pc /\ n.plmn = j.plmn /\ n.imsis = j.imsis /\ n.gone = j.gone
      /\ n.new = j.new /\ n.prev = j.prev /\ n.cur = j.cur /\ n.k = j.k
      /\ docs' = docs /\ auth' = auth
  BY DEF KeptAll, KeptButErr, KeptTask, KeptPlan, KeptPlace, store
<1>2. GroupProgress(j, p)
  OBVIOUS
<1>3. /\ \A i : ProvidedThen(i, p) <=> Provided(i, p)
      /\ \A i : BegunThen(i, j.k, j.plmn) <=> Begun(i, j.k, j.plmn)
      /\ \A i : docs = Removed(i, p) <=> docs' = docs' \ KeysOf(i, p)
  BY <1>1 DEF Provided, ProvidedThen, Begun, BegunThen, Removed, KeysOf
<1> HIDE DEF j, n
<1> QED BY <1>1, <1>2, <1>3 DEF GroupProgress, GroupProgressThen, InProgress, n

LEMMA GroupThen ==
    ASSUME NEW w, NEW p, GroupProgressThen(w, p) PROVE GroupProgress(job[w], p)'
<1> DEFINE n == job'[w]
<1>1. \A i : ProvidedThen(i, p) <=> Provided(i, p)'
  BY DEF Provided, ProvidedThen
<1>2. \A i : i \in n.imsis \/ (i = n.cur /\ BegunThen(i, n.k, n.plmn)) <=> InProgress(job[w], i)'
  BY DEF InProgress, Begun, BegunThen
<1>3. \A i : docs' = docs' \ KeysOf(i, p) <=> docs' = Removed(i, p)'
  BY DEF Removed, KeysOf
<1> QED BY <1>1, <1>2, <1>3 DEF GroupProgress, GroupProgressThen

LEMMA GroupProgressStep ==
    ASSUME BaseInv, NEW w \in Workers, Acts(w), job[w].op = "putGroup",
           KeptRequest(job'[w], job[w]), Unhurt(job'[w]),
           NEW s \in Slices, Having(job[w].name)' = {s},
           (Unhurt(job[w]) /\ Having(job[w].name) = {s}) => GroupProgress(job[w], slices[s].plmn)
    PROVE  GroupProgress(job[w], slices[s].plmn)'
<1> DEFINE p == slices[s].plmn
<1>1. /\ ~OnSlice(job[w]) /\ job[w].op \in Plain /\ ~job'[w].hurt /\ ~job'[w].err
      /\ ControlInv /\ job[w].alone
  BY DEF OnSlice, Plain, Unhurt, KeptRequest, BaseInv
<1>2. \/ ReadPrev(w) \/ Find(w) \/ Posts(w) \/ LockSlice(w) \/ LockGroup(w) \/ ReadGroup(w)
      \/ CheckAuth(w) \/ WriteDoc(w) \/ StartCleanup(w) \/ CleanGroup(w) \/ Remove(w)
      \/ Unlock(w)
  BY <1>1, PlainActs
<1>3. slices' = slices
  <2>1. Posts(w) => slices' = slices
    BY <1>1, PostOnce
  <2>2. ~DeleteGroupDoc(w)
    BY DEF DeleteGroupDoc, Finishing
  <2> QED BY <2>1, <2>2, GroupsKept
<1>4. ~LockSlice(w) /\ ~ReadGroup(w) /\ ~CleanGroup(w)
  <2>1. job[w].left = {}
    BY <1>1, Started
  <2> QED BY <1>1, <2>1 DEF LockSlice, ReadGroup, CleanGroup
<1>5. KeptTask(job'[w], job[w])
  BY <1>1, <1>2, <1>4, ReadPrevShape, PostShape, LockGroupShape, CheckAuthShape, WriteDocShape,
     StartCleanupShape, RemoveShape, UnlockShape, FindShape DEF StopOf, KeptAll, KeptButErr
<1>6. Having(job[w].name) = {s}
  <2>1. job'[w].name = job[w].name
    BY <1>5 DEF KeptTask
  <2>2. Having(job[w].name)' = Having(job[w].name)
    BY <1>3, <2>1 DEF Having
  <2> QED BY <2>2
<1>7. ASSUME KeptErr(job'[w], job[w]) PROVE GroupProgress(job[w], p)
  BY <1>6, <1>7 DEF KeptErr, Unhurt, KeptRequest
<1> HIDE DEF p
<1>8. GroupProgressThen(w, p)
  <2>1. CASE ReadPrev(w) \/ Posts(w)
    <3>1. job'[w].pc \in {"post", "lock"}
      BY <1>1, <2>1, ReadPrevShape, PostShape
    <3> QED BY <3>1 DEF GroupProgressThen
  <2>2. CASE LockGroup(w)
    BY <1>1, <1>6, <2>2, LockGroupProgress DEF p
  <2>3. CASE CheckAuth(w)
    BY <1>1, <1>7, <2>3, CheckAuthShape, CheckAuthGroupProgress
  <2>4. CASE WriteDoc(w)
    BY <1>1, <1>7, <2>4, WriteDocShape, WriteDocGroupProgress DEF StopOf
  <2>5. CASE StartCleanup(w)
    BY <1>1, <1>7, <2>5, StartCleanupShape, StartCleanupGroupProgress
  <2>6. CASE Remove(w)
    BY <1>1, <1>7, <2>6, RemoveShape, RemoveGroupProgress
  <2>7. CASE Unlock(w)
    BY <1>1, <1>7, <2>7, UnlockShape, UnlockGroupProgress DEF KeptAll
  <2>8. CASE Find(w)
    <3>1. job'[w].pc = job[w].pc /\ KeptAll(job'[w], job[w]) /\ UNCHANGED store
      BY <1>1, <2>8, FindShape
    <3>2. GroupProgress(job[w], p)
      BY <1>7, <3>1 DEF KeptAll
    <3> QED BY <3>1, <3>2, KeptGroupProgress
  <2> QED BY <1>2, <1>4, <2>1, <2>2, <2>3, <2>4, <2>5, <2>6, <2>7, <2>8
<1>9. slices'[s].plmn = slices[s].plmn
  BY <1>3
<1>10. ASSUME NEW q, q = slices[s].plmn PROVE GroupProgress(job[w], q)'
  BY <1>8, <1>10, GroupThen DEF p
<1> QED BY <1>9, <1>10 DEF GroupProgress, Removed, Provided, InProgress, Begun

LEMMA ProgressStep == ASSUME BaseInv, ProgressInv, [Next]_vars PROVE ProgressInv'
<1> SUFFICES ASSUME NEW w \in Workers, Unhurt(job'[w])
             PROVE  /\ job'[w].op = "putSlice" => SliceProgress(job[w])'
                    /\ job'[w].op = "putGroup" => \A s \in Slices :
                          Having(job[w].name)' = {s} => GroupProgress(job[w], slices[s].plmn)'
  BY DEF ProgressInv, Unhurt
<1>1. /\ Unhurt(job[w]) /\ job[w].op = "putSlice" => SliceProgress(job[w])
      /\ Unhurt(job[w]) /\ job[w].op = "putGroup" => \A s \in Slices :
            Having(job[w].name) = {s} => GroupProgress(job[w], slices[s].plmn)
  BY DEF ProgressInv
<1>2. CASE UNCHANGED vars
  <2> USE <1>2 DEF vars, Unhurt
  <2>1. SliceProgress(job[w])' = SliceProgress(job[w])
    BY DEF SliceProgress, Settled, Lost, LostGroups, InProgress, Begun, Provided
  <2>2. \A s \in Slices :
           GroupProgress(job[w], slices[s].plmn)' = GroupProgress(job[w], slices[s].plmn)
    BY DEF GroupProgress, InProgress, Begun, Provided, Removed
  <2>3. Having(job[w].name)' = Having(job[w].name)
    BY DEF Having
  <2> QED BY <1>1, <2>1, <2>2, <2>3
<1>3. CASE Arrive(w) /\ Fresh(job'[w])
  <2>1. job'[w].op \in {"putSlice", "putGroup"} => job'[w].pc = "prev"
    BY <1>3 DEF Fresh, SubOps
  <2> QED BY <2>1 DEF SliceProgress, GroupProgress
<1>4. CASE Acts(w) /\ job[w].alone /\ KeptRequest(job'[w], job[w])
  <2>1. job'[w].op = job[w].op
    BY <1>4 DEF KeptRequest
  <2>2. job[w].op = "putSlice" => SliceProgress(job[w])'
    BY <1>1, <1>4, SliceProgressStep
  <2>3. ASSUME job[w].op = "putGroup", NEW s \in Slices, Having(job[w].name)' = {s}
        PROVE  GroupProgress(job[w], slices[s].plmn)'
    BY <1>1, <1>4, <2>3, GroupProgressStep
  <2> QED BY <2>1, <2>2, <2>3
<1>5. job'[w].alone
  BY DEF Unhurt
<1> QED BY <1>2, <1>3, <1>4, <1>5, SoloStep

LEMMA ProgressAlways == Spec => [](BaseInv /\ ProgressInv)
<1>1. Init => ProgressInv
  <2>1. Idle.alone = FALSE
    BY DEF Idle
  <2> QED BY <2>1 DEF Init, ProgressInv, Unhurt
<1> QED BY <1>1, InitBase, BaseStep, ProgressStep, PTL DEF Spec

(* Whatever earlier requests left half done, an update of a slice that runs alone,
   found every document stored once, meets no failure and is answered with success gives every subscriber of its
   device groups all documents under its PLMN, but for those that are in a device
   group it has just lost as well.                                            *)
THEOREM SliceAlwaysRepairs == Spec => []SliceRepairs
<1>1. BaseInv /\ ProgressInv => SliceRepairs
  <2> SUFFICES ASSUME ProgressInv, NEW w \in Workers, Succeeds(w, "putSlice"),
                      NEW g \in job[w].new.groups, groups[g].kind # "none",
                      NEW i \in groups[g].imsis \intersect auth
               PROVE  \/ Provided(i, job[w].new.plmn)
                      \/ \E h \in job[w].prev.groups \ job[w].new.groups : i \in groups[h].imsis
    BY DEF SliceRepairs
  <2>1. SliceProgress(job[w]) /\ job[w].pc = "end"
    BY DEF ProgressInv, Unhurt, Succeeds
  <2>2. Settled(job[w], g, i)
    BY <2>1 DEF SliceProgress
  <2> QED BY <2>1, <2>2 DEF Settled, Lost, LostGroups
<1> QED BY <1>1, ProgressAlways, PTL

(* So does an update of a device group that is in one slice only, for the IMSIs
   it has, and those it has lost by it keep no document under the PLMN of the
   slice: no derived document was stored twice when it began.                 *)
THEOREM GroupAlwaysRepairs == Spec => []GroupRepairs
<1>1. BaseInv /\ ProgressInv => GroupRepairs
  <2> SUFFICES ASSUME BaseInv, ProgressInv, NEW w \in Workers, Succeeds(w, "putGroup"),
                      NEW s \in Slices, {t \in Slices : job[w].name \in slices[t].groups} = {s}
               PROVE  /\ \A i \in job[w].new.imsis \intersect auth : Provided(i, slices[s].plmn)
                      /\ \A i \in job[w].prev.imsis \ job[w].new.imsis :
                            docs = Removed(i, slices[s].plmn)
    BY DEF GroupRepairs, Removed
  <2>1. GroupProgress(job[w], slices[s].plmn) /\ job[w].pc = "end"
    BY DEF ProgressInv, Unhurt, Succeeds, Having
  <2>2. job[w].gone = {}
    BY <2>1, Started
  <2> QED BY <2>1, <2>2 DEF GroupProgress
<1> QED BY <1>1, ProgressAlways, PTL

-----------------------------------------------------------------------------
(* Documents go with the slices and device groups they were derived from. *)
DocumentedThen(n) == \A d \in docs' : Bare(d) \/ InSlices(d[2]) \/ Pending(n, d[2])

LEMMA StoreKeptOrphan ==
    ASSUME NEW w, UNCHANGED <<groups, slices>>, InStep(job'[w]), DocumentedThen(job'[w])
    PROVE  InStep(job[w])' /\ Documented(job[w])'
<1>1. /\ \A i : InSlices(i)' <=> InSlices(i)
      /\ \A g : Having(g)' = Having(g)
  BY DEF InSlices, Having
<1>2. InStep(job[w])'
  BY <1>1 DEF InStep, OnSlice, InSlices, Having
<1>3. \A i : Pending(job[w], i)' <=> Pending(job'[w], i)
  BY DEF Pending, OnSlice, Lost, LostGroups, Having
<1>4. ASSUME NEW d \in docs' PROVE Bare(d) \/ InSlices(d[2])' \/ Pending(job[w], d[2])'
  BY <1>1, <1>3, <1>4 DEF DocumentedThen
<1> QED BY <1>2, <1>4 DEF Documented, Bare, InSlices, Pending

(* Steps outside of a derivation: nothing was to be cleaned up, nothing will be. *)
LEMMA IdleOrphan ==
    ASSUME NEW j, NEW n, Documented(j), \A i : Pending(j, i) => n.err,
           n.pc \notin {"exists", "lock", "derive", "cleanup"},
           n.pc = "post" => n.prev = IF OnSlice(n) THEN slices[n.name] ELSE groups[n.name],
           \A d \in docs' : d \in docs \/ Bare(d)
    PROVE  InStep(n) /\ DocumentedThen(n)
<1>1. InStep(n)
  BY DEF InStep
<1>2. \A i : n.err => Pending(n, i)
  BY DEF Pending
<1> QED BY <1>1, <1>2 DEF Documented, DocumentedThen

LEMMA ReadPrevOrphan ==
    ASSUME BaseInv, NEW w \in Workers, ReadPrev(w), Documented(job[w])
    PROVE  InStep(job'[w]) /\ DocumentedThen(job'[w])
<1> DEFINE j == job[w]
           n == job'[w]
<1>1. /\ j.pc = "prev" /\ n.pc = "post" /\ KeptRequest(n, j) /\ KeptTask(n, j) /\ KeptErr(n, j)
      /\ n.prev = IF OnSlice(j) THEN slices[j.name] ELSE groups[j.name]
  BY ReadPrevShape DEF BaseInv
<1>2. docs' = docs /\ Documented(j)
  BY DEF ReadPrev, store
<1> HIDE DEF j, n
<1>3. \A i : Pending(j, i) => n.err
  BY <1>1 DEF Pending, KeptErr
<1>4. n.prev = IF OnSlice(n) THEN slices[n.name] ELSE groups[n.name]
  BY <1>1 DEF OnSlice, KeptRequest, KeptTask
<1>5. InStep(n) /\ DocumentedThen(n)
  BY <1>1, <1>2, <1>3, <1>4, IdleOrphan
<1> QED BY <1>5 DEF n

LEMMA FindOrphan ==
    ASSUME BaseInv, NEW w \in Workers, Find(w), InStep(job[w]), Documented(job[w])
    PROVE  InStep(job'[w]) /\ DocumentedThen(job'[w])
<1> DEFINE j == job[w]
           n == job'[w]
<1>1. /\ n.pc = j.pc /\ n.op = j.op /\ n.name = j.name /\ n.new = j.new /\ n.prev = j.prev
      /\ n.err = j.err /\ n.left = j.left /\ n.imsis = j.imsis /\ n.gone = j.gone /\ n.cur = j.cur
      /\ docs' = docs
  BY FindShape
     DEF BaseInv, KeptAll, KeptButErr, KeptRequest, KeptTask, KeptPlan, KeptPlace, KeptErr, store
<1>2. InStep(j) /\ Documented(j)
  OBVIOUS
<1> HIDE DEF j, n
<1>3. InStep(n)
  BY <1>1, <1>2 DEF InStep, OnSlice
<1>4. \A i : Pending(j, i) => Pending(n, i)
  BY <1>1 DEF Pending, OnSlice, Lost, LostGroups
<1>5. DocumentedThen(n)
  BY <1>1, <1>2, <1>4 DEF Documented, DocumentedThen
<1> QED BY <1>3, <1>5 DEF n

LEMMA WorkOrphan ==
    ASSUME BaseInv, NEW w \in Workers, List(w) \/ NextDoc(w) \/ GiveUp(w), Documented(job[w])
    PROVE  InStep(job'[w]) /\ DocumentedThen(job'[w])
<1> DEFINE j == job[w]
           n == job'[w]
<1>1. /\ j.pc \in {"list", "next"} /\ n.pc \in {"next", "prev", "end"} /\ n.err = j.err
  BY ListShape, NextDocShape, GiveUpShape DEF BaseInv, KeptErr, KeptAll
<1>2. docs' = docs /\ Documented(j)
  BY DEF List, NextDoc, GiveUp, store
<1> HIDE DEF j, n
<1>3. \A i : Pending(j, i) => n.err
  BY <1>1 DEF Pending
<1>5. InStep(n) /\ DocumentedThen(n)
  BY <1>1, <1>2, <1>3, IdleOrphan
<1> QED BY <1>5 DEF n

LEMMA SubscriberOrphan ==
    ASSUME BaseInv, NEW w \in Workers, Exists(w) \/ Store(w) \/ DeleteAuth(w),
           InStep(job[w]), Documented(job[w])
    PROVE  InStep(job'[w]) /\ DocumentedThen(job'[w])
<1> DEFINE j == job[w]
           n == job'[w]
<1>1. /\ j.pc \in {"exists", "store", "next"} /\ n.pc \in {"store", "end"}
      /\ n.err = j.err \/ j.pc = "exists"
  BY ExistsShape, StoreShape, DeleteAuthShape DEF BaseInv, KeptErr, KeptAll
<1>2. \A d \in docs' : d \in docs \/ Bare(d)
  <2>1. CASE Exists(w)
    BY <2>1 DEF Exists, store
  <2>2. CASE Store(w)
    BY <2>2 DEF Store, Bare
  <2>3. CASE DeleteAuth(w)
    BY <2>3 DEF DeleteAuth, Without
  <2> QED BY <2>1, <2>2, <2>3
<1>3. InStep(j) /\ Documented(j)
  OBVIOUS
<1> HIDE DEF j, n
<1>4. \A i : Pending(j, i) => n.err
  BY <1>1, <1>3 DEF Pending, InStep
<1>5. InStep(n) /\ DocumentedThen(n)
  BY <1>1, <1>2, <1>3, <1>4, IdleOrphan
<1> QED BY <1>5 DEF n

LEMMA UnlockOrphan ==
    ASSUME BaseInv, NEW w \in Workers, Unlock(w), Documented(job[w])
    PROVE  InStep(job'[w]) /\ DocumentedThen(job'[w])
<1> DEFINE j == job[w]
           n == job'[w]
<1>1. /\ n.pc \in {"next", "end"} /\ n.err = j.err
      /\ j.pc = "unlock" \/ (j.pc = "cleanup" /\ j.left = {} /\ j.gone = {})
  BY UnlockShape DEF BaseInv, KeptErr, KeptAll
<1>2. docs' = docs /\ Documented(j)
  BY DEF Unlock, store
<1> HIDE DEF j, n
<1>3. \A i : Pending(j, i) => n.err
  BY <1>1 DEF Pending
<1>5. InStep(n) /\ DocumentedThen(n)
  BY <1>1, <1>2, <1>3, IdleOrphan
<1> QED BY <1>5 DEF n

LEMMA LockSliceOrphan ==
    ASSUME BaseInv, NEW w \in Workers, LockSlice(w), InStep(job[w]), Documented(job[w])
    PROVE  InStep(job'[w]) /\ DocumentedThen(job'[w])
<1> DEFINE j == job[w]
           n == job'[w]
<1>1. /\ j.pc = "lock" /\ OnSlice(j) /\ n.op = j.op
      /\ n.name = j.name /\ n.new = j.new /\ n.prev = j.prev
      /\ n.imsis = {} /\ n.cur = None
      /\ \/ n.pc = "cleanup" /\ n.left = LostGroups(j) /\ n.err = j.err
         \/ n.pc = "derive" /\ n.left = j.new.groups /\ n.err = j.err
         \/ n.pc = "unlock" /\ n.err = TRUE
  <2>1. j.pc = "lock" => j.imsis = {} /\ j.cur = None
    BY Started
  <2>2. /\ j.pc = "lock" /\ OnSlice(j)
        /\ KeptRequest(n, j) /\ KeptTask(n, j) /\ KeptPlace(n, j) /\ n.prev = j.prev
        /\ n.imsis = j.imsis
        /\ \/ n.pc = "cleanup" /\ n.left = DeletedDeviceGroups(j.new, j.prev) /\ n.err = j.err
           \/ n.pc = "derive" /\ n.left = j.new.groups /\ n.err = j.err
           \/ n.pc = "unlock" /\ n.err = TRUE
    BY LockSliceShape DEF BaseInv
  <2> HIDE DEF j, n
  <2> QED BY <2>1, <2>2
          DEF KeptRequest, KeptTask, KeptPlace, DeletedDeviceGroups, LostGroups
<1>2. docs' = docs /\ Documented(j) /\ InStep(j) /\ None \notin Imsis
  BY Started DEF LockSlice, store
<1>3. j.name \in Slices
  BY <1>1, Known, Places DEF TaskOK, Writing
<1> HIDE DEF j, n
<1>4. OnSlice(n) /\ slices[n.name] = n.new /\ LostGroups(n) = LostGroups(j)
  BY <1>1, <1>2 DEF OnSlice, InStep, LostGroups
<1>5. \A i : Pending(j, i) => Pending(n, i)
  BY <1>1, <1>4 DEF Pending, Lost
<1>6. InStep(n)
  <2>1. ASSUME NEW g \in j.new.groups PROVE Having(g) # {}
    BY <1>1, <1>3, <1>4, <2>1 DEF Having
  <2> QED BY <1>1, <1>2, <1>4, <2>1 DEF InStep
<1>7. DocumentedThen(n)
  BY <1>2, <1>5 DEF Documented, DocumentedThen
<1> QED BY <1>6, <1>7 DEF n

LEMMA LockGroupOrphan ==
    ASSUME BaseInv, NEW w \in Workers, LockGroup(w), job[w].alone, InStep(job[w]), Documented(job[w])
    PROVE  InStep(job'[w]) /\ DocumentedThen(job'[w])
<1> DEFINE j == job[w]
           n == job'[w]
<1>1. /\ j.pc = "lock" /\ ~OnSlice(j) /\ n.op = j.op
      /\ n.name = j.name /\ n.new = j.new /\ n.prev = j.prev
      /\ n.left = {} /\ n.cur = None
      /\ \/ n.pc = "unlock" /\ Having(j.name) = {} /\ n.err = j.err
         \/ n.pc = "unlock" /\ n.err = TRUE
         \/ n.pc = "derive" /\ n.imsis = j.new.imsis /\ n.err = j.err /\ Having(j.name) # {}
  <2>1. j.pc = "lock" => j.left = {} /\ j.cur = None
    BY Started
  <2>2. /\ j.pc = "lock" /\ ~OnSlice(j)
        /\ KeptRequest(n, j) /\ KeptTask(n, j) /\ KeptPlace(n, j) /\ n.prev = j.prev
        /\ n.left = j.left
        /\ \/ n.pc = "unlock" /\ Having(j.name) = {} /\ n.err = j.err
           \/ n.pc = "unlock" /\ n.err = TRUE
           \/ /\ n.pc = "derive" /\ n.err = j.err /\ n.imsis = j.new.imsis
              /\ \E d \in AllSlices : j.name \in d[2].groups
    BY LockGroupShape DEF BaseInv
  <2>3. ASSUME NEW d \in AllSlices, j.name \in d[2].groups PROVE Having(j.name) # {}
    <3>1. AllSlices = {<<s, slices[s]>> : s \in Slices}
      BY Once, AllOnce
    <3>2. PICK s \in Slices : d = <<s, slices[s]>>
      BY <3>1
    <3> QED BY <2>3, <3>2 DEF Having
  <2> HIDE DEF j, n
  <2> QED BY <2>1, <2>2, <2>3 DEF KeptRequest, KeptTask, KeptPlace
<1>2. docs' = docs /\ Documented(j) /\ InStep(j) /\ None \notin Imsis
  BY Started DEF LockGroup, store
<1> HIDE DEF j, n
<1>4. ~OnSlice(n) /\ groups[n.name].imsis = n.new.imsis
  BY <1>1, <1>2 DEF OnSlice, InStep
<1>5. \A i : Pending(j, i) => Pending(n, i)
  BY <1>1, <1>4 DEF Pending
<1>6. InStep(n)
  <2>1. ASSUME NEW i \in j.new.imsis, Having(j.name) # {} PROVE InSlices(i)
    BY <1>1, <1>4, <2>1 DEF Having, InSlices
  <2> QED BY <1>1, <1>2, <1>4, <2>1 DEF InStep
<1>7. DocumentedThen(n)
  BY <1>2, <1>5 DEF Documented, DocumentedThen
<1> QED BY <1>6, <1>7 DEF n

(* Under rwLock what is pending stays so while documents are derived. *)
LEMMA DerivingOrphan ==
    ASSUME NEW j, NEW n, Documented(j), j.pc = "derive", n.pc = "derive", n.op = j.op,
           n.name = j.name, n.new = j.new, n.prev = j.prev, n.err = j.err,
           \A d \in docs' : d \in docs \/ Bare(d) \/ InSlices(d[2])
    PROVE  DocumentedThen(n)
<1>1. (OnSlice(n) <=> OnSlice(j)) /\ LostGroups(n) = LostGroups(j)
  BY DEF OnSlice, LostGroups
<1>2. \A i : Pending(j, i) => Pending(n, i)
  BY <1>1 DEF Pending, Lost
<1> QED BY <1>2 DEF Documented, DocumentedThen

LEMMA ReadGroupOrphan ==
    ASSUME BaseInv, NEW w \in Workers, ReadGroup(w), InStep(job[w]), Documented(job[w])
    PROVE  InStep(job'[w]) /\ DocumentedThen(job'[w])
<1> DEFINE j == job[w]
           n == job'[w]
<1>1. /\ j.pc = "derive" /\ j.cur = None /\ n.pc = "derive" /\ n.op = j.op
      /\ n.name = j.name /\ n.new = j.new /\ n.prev = j.prev /\ n.cur = None /\ n.err = j.err
      /\ \E g \in j.left :
            /\ n.left = j.left \ {g}
            /\ n.imsis = IF groups[g].kind = "none" THEN {} ELSE groups[g].imsis
  BY ReadGroupShape DEF BaseInv, KeptRequest, KeptTask, KeptPlace, KeptErr
<1>2. docs' = docs /\ Documented(j) /\ InStep(j) /\ None \notin Imsis
  BY Started DEF ReadGroup, store
<1> HIDE DEF j, n
<1>3. PICK g \in j.left : n.left = j.left \ {g} /\ n.imsis \subseteq groups[g].imsis
  BY <1>1
<1>4. \A i \in n.imsis : InSlices(i)
  <2>1. Having(g) # {}
    BY <1>1, <1>2, <1>3 DEF InStep
  <2> QED BY <1>3, <2>1 DEF Having, InSlices
<1>5. InStep(n)
  BY <1>1, <1>2, <1>3, <1>4 DEF InStep, OnSlice
<1>6. DocumentedThen(n)
  BY <1>1, <1>2, DerivingOrphan
<1> QED BY <1>5, <1>6 DEF n

LEMMA CheckAuthOrphan ==
    ASSUME BaseInv, NEW w \in Workers, CheckAuth(w), InStep(job[w]), Documented(job[w])
    PROVE  InStep(job'[w]) /\ DocumentedThen(job'[w])
<1> DEFINE j == job[w]
           n == job'[w]
<1>1. /\ j.pc = "derive" /\ n.pc = "derive" /\ n.op = j.op
      /\ n.name = j.name /\ n.new = j.new /\ n.prev = j.prev /\ n.err = j.err
      /\ n.left = j.left
      /\ \E i \in j.imsis : n.imsis = j.imsis \ {i} /\ n.cur \in {i, None}
  BY CheckAuthShape DEF BaseInv, KeptRequest, KeptTask, KeptErr
<1>2. docs' = docs /\ Documented(j) /\ InStep(j) /\ None \notin Imsis
  BY Started DEF CheckAuth, store
<1> HIDE DEF j, n
<1>3. InStep(n)
  BY <1>1, <1>2 DEF InStep, OnSlice
<1>4. DocumentedThen(n)
  BY <1>1, <1>2, DerivingOrphan
<1> QED BY <1>3, <1>4 DEF n

LEMMA WriteDocOrphan ==
    ASSUME BaseInv, NEW w \in Workers, WriteDoc(w), job[w].alone, InStep(job[w]), Documented(job[w])
    PROVE  InStep(job'[w]) /\ DocumentedThen(job'[w])
<1> DEFINE j == job[w]
           n == job'[w]
<1>1. /\ j.pc = "derive" /\ j.cur # None /\ j.plmn \in Plmns /\ j.k \in 1..5
      /\ docs' = Upserted(Derived[j.k], j.cur, j.plmn)
      /\ n.op = j.op /\ n.name = j.name /\ n.new = j.new /\ n.prev = j.prev
      /\ \/ /\ n.pc = "derive" /\ n.err = j.err /\ n.left = j.left /\ n.imsis = j.imsis
            /\ n.cur \in {j.cur, None}
         \/ /\ n.err = TRUE /\ n.cur = None /\ OnSlice(j) /\ n.pc = "unlock"
         \/ /\ n.err = TRUE /\ n.cur = None /\ n.pc = "derive" /\ n.left = j.left
            /\ n.imsis = j.imsis
  BY WriteDocShape, WriteDocOnce DEF BaseInv, KeptRequest, KeptTask, KeptPlan, KeptErr, StopOf
<1>2. Documented(j) /\ InStep(j) /\ None \notin Imsis /\ PlanOK(j)
  BY Started, Known
<1> HIDE DEF j, n
<1>3. InStep(n)
  BY <1>1, <1>2 DEF InStep, OnSlice
<1>4. \A d \in docs' : d \in docs \/ InSlices(d[2])
  <2>1. InSlices(j.cur)
    BY <1>1, <1>2 DEF InStep, PlanOK
  <2>2. \A d \in docs' : d \in docs \/ d = Key(Derived[j.k], j.cur, j.plmn)
    BY <1>1, UpsertedDocs
  <2>3. Key(Derived[j.k], j.cur, j.plmn)[2] = j.cur
    BY DEF Key
  <2> QED BY <2>1, <2>2, <2>3
<1>5. DocumentedThen(n)
  <2>1. CASE n.err = j.err /\ n.pc = "derive"
    BY <1>1, <1>2, <1>4, <2>1, DerivingOrphan
  <2>2. CASE n.err = TRUE
    BY <2>2 DEF DocumentedThen, Pending
  <2> QED BY <1>1, <2>1, <2>2
<1> QED BY <1>3, <1>5 DEF n

LEMMA StartCleanupOrphan ==
    ASSUME BaseInv, NEW w \in Workers, StartCleanup(w), Documented(job[w])
    PROVE  InStep(job'[w]) /\ DocumentedThen(job'[w])
<1> DEFINE j == job[w]
           n == job'[w]
<1>1. /\ j.pc = "derive" /\ n.pc = "cleanup" /\ n.op = j.op /\ n.err = j.err
      /\ \/ OnSlice(j) /\ n.left = LostGroups(j)
         \/ ~OnSlice(j) /\ n.gone = j.prev.imsis \ j.new.imsis
  BY StartCleanupShape
     DEF BaseInv, KeptRequest, KeptErr, DeletedDeviceGroups, DeletedImsis, LostGroups
<1>2. docs' = docs /\ Documented(j)
  BY DEF StartCleanup, store
<1> HIDE DEF j, n
<1>3. InStep(n)
  BY <1>1 DEF InStep
<1>4. \A i : Pending(j, i) => Pending(n, i)
  BY <1>1 DEF Pending, Lost, OnSlice
<1>5. DocumentedThen(n)
  BY <1>2, <1>4 DEF Documented, DocumentedThen
<1> QED BY <1>3, <1>5 DEF n

LEMMA CleanGroupOrphan ==
    ASSUME BaseInv, NEW w \in Workers, CleanGroup(w), Documented(job[w])
    PROVE  InStep(job'[w]) /\ DocumentedThen(job'[w])
<1> DEFINE j == job[w]
           n == job'[w]
<1>1. /\ j.pc = "cleanup" /\ n.pc = "cleanup" /\ n.op = j.op /\ n.err = j.err /\ j.gone = {}
      /\ \E g \in j.left : n.left = j.left \ {g} /\ n.gone = groups[g].imsis
  BY CleanGroupShape DEF BaseInv, KeptRequest, KeptErr
<1>2. docs' = docs /\ Documented(j)
  BY DEF CleanGroup, store
<1> HIDE DEF j, n
<1>3. InStep(n)
  BY <1>1 DEF InStep
<1>4. \A i : Pending(j, i) => Pending(n, i)
  BY <1>1 DEF Pending, OnSlice
<1>5. DocumentedThen(n)
  BY <1>2, <1>4 DEF Documented, DocumentedThen
<1> QED BY <1>3, <1>5 DEF n

(* With one PLMN no document of an IMSI outlives its removal but the bare one. *)
InPlmn(p) == \A d \in docs : d[3] \in {p, None}

LEMMA OnlyBareLeft ==
    ASSUME docs \subseteq Keys, NEW i, NEW p \in Plmns, InPlmn(p),
           NEW d \in Removed(i, p), d[2] = i
    PROVE  Bare(d)
<1>1. d \in docs /\ \A k \in 1..5 : d # Key(Derived[k], i, p)
  BY DEF Removed, KeysOf, Derived
<1>2. /\ d # <<"amPolicy", i, None>> /\ d # <<"smPolicy", i, None>>
      /\ d # <<"amData", i, p>> /\ d # <<"smData", i, p>> /\ d # <<"smfSel", i, p>>
  BY <1>1 DEF Key, Derived
<1>3. CASE d \in {"amPolicy", "smPolicy"} \X Imsis \X {None}
  BY <1>2, <1>3
<1>4. CASE d \in {"amData"} \X Imsis \X (Plmns \union {None})
  BY <1>1, <1>2, <1>4 DEF Bare, InPlmn
<1>5. CASE d \in {"smData", "smfSel"} \X Imsis \X Plmns
  BY <1>1, <1>2, <1>5, ProvisioningAssumption DEF InPlmn
<1> QED BY <1>1, <1>3, <1>4, <1>5 DEF Keys

LEMMA RemoveOrphan ==
    ASSUME BaseInv, NEW w \in Workers, Remove(w), job[w].alone, Documented(job[w]), InPlmn(job[w].plmn)
    PROVE  InStep(job'[w]) /\ DocumentedThen(job'[w])
<1> DEFINE j == job[w]
           n == job'[w]
<1>1. /\ j.pc = "cleanup" /\ n.pc = "cleanup" /\ n.op = j.op /\ n.err = j.err /\ n.left = j.left
      /\ \E i \in j.gone : n.gone = j.gone \ {i} /\ docs' = Removed(i, j.plmn)
  BY RemoveShape, RemoveOnce DEF BaseInv, KeptRequest, KeptErr
<1>2. Documented(j) /\ PlanOK(j) /\ docs \subseteq Keys /\ InPlmn(j.plmn)
  BY Known DEF BaseInv, StoreInv
<1> HIDE DEF j, n
<1>3. PICK e \in j.gone : n.gone = j.gone \ {e} /\ docs' = Removed(e, j.plmn)
  BY <1>1
<1>4. j.plmn \in Plmns
  BY <1>1, <1>2, <1>3 DEF PlanOK
<1>5. InStep(n)
  BY <1>1 DEF InStep
<1>6. \A i : i # e /\ Pending(j, i) => Pending(n, i)
  BY <1>1, <1>3 DEF Pending, OnSlice
<1>7. \A d \in Removed(e, j.plmn) : d \in docs /\ (d[2] = e => Bare(d))
  <2> DEFINE p == j.plmn
  <2>1. p \in Plmns /\ InPlmn(p) /\ docs \subseteq Keys
    BY <1>2, <1>4
  <2> HIDE DEF p
  <2>2. \A d \in Removed(e, p) : d \in docs /\ (d[2] = e => Bare(d))
    BY <2>1, OnlyBareLeft DEF Removed
  <2> QED BY <2>2 DEF p
<1>8. DocumentedThen(n)
  BY <1>2, <1>3, <1>6, <1>7 DEF Documented, DocumentedThen
<1> QED BY <1>5, <1>8 DEF n

-----------------------------------------------------------------------------
(* The two steps that change device groups or slices. *)
InSlicesThen(i) == \E s \in Slices : \E g \in slices'[s].groups : i \in groups'[g].imsis

LEMMA PostSliceOrphan ==
    ASSUME BaseInv, NEW w \in Workers, Posts(w), job[w].alone, OnSlice(job[w]),
           InStep(job[w]), Documented(job[w])
    PROVE  InStep(job[w])' /\ Documented(job[w])'
<1> DEFINE j == job[w]
           n == job'[w]
<1>1. /\ j.pc = "post" /\ n.pc = "lock" /\ n.op = j.op /\ n.name = j.name /\ n.new = j.new
      /\ n.prev = j.prev /\ n.err = j.err
  BY PostShape DEF BaseInv, KeptAll, KeptButErr, KeptErr, KeptRequest, KeptTask
<1>2. groups' = groups /\ docs' = docs /\ slices' = [slices EXCEPT ![j.name] = j.new]
  BY PostOnce
<1>3. InStep(j) /\ Documented(j) /\ OnSlice(j)
  OBVIOUS
<1>4. j.name \in Slices /\ DOMAIN slices = Slices
  BY <1>1, Known, Places DEF TaskOK, Writing, BaseInv, StoreInv
<1>5. InStep(job[w])' /\ (\A i : InSlices(i)' <=> InSlicesThen(i))
      /\ (\A i : (\E h \in j.prev.groups \ j.new.groups : i \in groups[h].imsis)
                    => Pending(job[w], i)')
      /\ (\A i : j.err => Pending(job[w], i)')
  <2>1. InStep(job[w])'
    BY <1>1, <1>2, <1>3, <1>4 DEF InStep, OnSlice
  <2>2. \A i : InSlices(i)' <=> InSlicesThen(i)
    BY DEF InSlices, InSlicesThen
  <2>3. ASSUME NEW i, \E h \in j.prev.groups \ j.new.groups : i \in groups[h].imsis
        PROVE  Pending(job[w], i)'
    BY <1>1, <1>2, <1>3, <2>3 DEF Pending, OnSlice, Lost, LostGroups
  <2>4. ASSUME NEW i, j.err PROVE Pending(job[w], i)'
    BY <1>1, <2>4 DEF Pending
  <2> QED BY <2>1, <2>2, <2>3, <2>4
<1> HIDE DEF j, n
<1>6. slices[j.name] = j.prev /\ \A i : Pending(j, i) => j.err
  BY <1>1, <1>3 DEF InStep, Pending
<1>7. ASSUME NEW i, InSlices(i)
      PROVE  InSlicesThen(i) \/ \E h \in j.prev.groups \ j.new.groups : i \in groups[h].imsis
  <2>0. PICK s \in Slices : \E g \in slices[s].groups : i \in groups[g].imsis
    BY <1>7 DEF InSlices
  <2>1. PICK g \in slices[s].groups : i \in groups[g].imsis
    BY <2>0
  <2>2. CASE s # j.name
    BY <1>2, <1>4, <2>1, <2>2 DEF InSlicesThen
  <2>3. CASE s = j.name
    <3>1. slices'[s].groups = j.new.groups /\ g \in j.prev.groups
      BY <1>2, <1>4, <1>6, <2>1, <2>3
    <3> QED BY <1>2, <2>1, <3>1 DEF InSlicesThen
  <2> QED BY <2>2, <2>3
<1>8. ASSUME NEW d \in docs' PROVE Bare(d) \/ InSlices(d[2])' \/ Pending(job[w], d[2])'
  <2> DEFINE i == d[2]
  <2>1. Bare(d) \/ InSlices(i) \/ j.err
    BY <1>2, <1>3, <1>6 DEF Documented
  <2> HIDE DEF i
  <2>2. Bare(d) \/ InSlicesThen(i) \/ Pending(job[w], i)'
    BY <1>5, <1>7, <2>1
  <2> QED BY <1>5, <2>2 DEF i
<1> QED BY <1>5, <1>8 DEF Documented, Bare

LEMMA PostGroupOrphan ==
    ASSUME BaseInv, NEW w \in Workers, Posts(w), job[w].alone, ~OnSlice(job[w]),
           InStep(job[w]), Documented(job[w])
    PROVE  InStep(job[w])' /\ Documented(job[w])'
<1> DEFINE j == job[w]
           n == job'[w]
<1>1. /\ j.pc = "post" /\ n.pc = "lock" /\ n.op = j.op /\ n.name = j.name /\ n.new = j.new
      /\ n.prev = j.prev /\ n.err = j.err
  BY PostShape DEF BaseInv, KeptAll, KeptButErr, KeptErr, KeptRequest, KeptTask
<1>2. /\ slices' = slices /\ docs' = docs
      /\ \E x : x.imsis = j.new.imsis /\ groups' = [groups EXCEPT ![j.name] = x]
  BY PostOnce
<1>3. InStep(j) /\ Documented(j) /\ ~OnSlice(j)
  OBVIOUS
<1>4. j.name \in Groups /\ DOMAIN groups = Groups
      /\ \A s \in Slices : slices[s].groups \subseteq Groups
  <2>1. j.name \in Groups
    BY <1>1, <1>3, Known, Places DEF TaskOK, Writing
  <2>2. DOMAIN groups = Groups /\ slices \in [Slices -> SliceLike]
    BY DEF BaseInv, StoreInv
  <2> QED BY <2>1, <2>2, SlicePlmn
<1>5. groups'[j.name].imsis = j.new.imsis
  BY <1>2, <1>4
<1>6. \A g \in Groups \ {j.name} : groups'[g] = groups[g]
  BY <1>2, <1>4
<1>7. InStep(job[w])' /\ (\A i : InSlices(i)' <=> InSlicesThen(i))
      /\ (\A i \in j.prev.imsis \ j.new.imsis : Having(j.name) # {} => Pending(job[w], i)')
      /\ (\A i : j.err => Pending(job[w], i)')
  <2>1. InStep(job[w])'
    BY <1>1, <1>3, <1>5 DEF InStep, OnSlice
  <2>2. \A i : InSlices(i)' <=> InSlicesThen(i)
    BY DEF InSlices, InSlicesThen
  <2>3. ASSUME NEW i \in j.prev.imsis \ j.new.imsis, Having(j.name) # {}
        PROVE  Pending(job[w], i)'
    BY <1>1, <1>2, <1>3, <2>3 DEF Pending, OnSlice, Having
  <2>4. ASSUME NEW i, j.err PROVE Pending(job[w], i)'
    BY <1>1, <2>4 DEF Pending
  <2> QED BY <2>1, <2>2, <2>3, <2>4
<1> HIDE DEF j, n
<1>8. groups[j.name] = j.prev /\ \A i : Pending(j, i) => j.err
  BY <1>1, <1>3 DEF InStep, Pending
<1>9. ASSUME NEW i, InSlices(i)
      PROVE  InSlicesThen(i) \/ (i \in j.prev.imsis \ j.new.imsis /\ Having(j.name) # {})
  <2>0. PICK s \in Slices : \E g \in slices[s].groups : i \in groups[g].imsis
    BY <1>9 DEF InSlices
  <2>1. PICK g \in slices[s].groups : i \in groups[g].imsis
    BY <2>0
  <2>2. CASE g # j.name
    BY <1>2, <1>4, <1>6, <2>1, <2>2 DEF InSlicesThen
  <2>3. CASE g = j.name
    <3>1. i \in j.prev.imsis /\ s \in Having(j.name)
      BY <1>8, <2>1, <2>3 DEF Having
    <3> QED BY <1>2, <1>5, <2>1, <2>3, <3>1 DEF InSlicesThen
  <2> QED BY <2>2, <2>3
<1>10. ASSUME NEW d \in docs' PROVE Bare(d) \/ InSlices(d[2])' \/ Pending(job[w], d[2])'
  <2> DEFINE i == d[2]
  <2>1. Bare(d) \/ InSlices(i) \/ j.err
    BY <1>2, <1>3, <1>8 DEF Documented
  <2> HIDE DEF i
  <2>2. Bare(d) \/ InSlicesThen(i) \/ Pending(job[w], i)'
    BY <1>7, <1>9, <2>1
  <2> QED BY <1>7, <2>2 DEF i
<1> QED BY <1>7, <1>10 DEF Documented, Bare

LEMMA DeleteGroupDocOrphan ==
    ASSUME BaseInv, NEW w \in Workers, DeleteGroupDoc(w), job[w].alone, GroupDeletion(job[w]),
           Documented(job[w])
    PROVE  InStep(job[w])' /\ Documented(job[w])'
<1> DEFINE j == job[w]
           n == job'[w]
<1>1. /\ j.pc = "next" /\ n.pc = "end" /\ j.work = {} /\ ~j.err
  BY DeleteGroupDocShape DEF BaseInv
<1>2. slices' = slices /\ docs' = docs /\ groups' = [groups EXCEPT ![j.arg] = NoGroup]
  BY DeleteGroupDocOnce
<1>3. Documented(j) /\ GroupDeletion(j)
  OBVIOUS
<1>4. DOMAIN groups = Groups /\ \A s \in Slices : slices[s].groups \subseteq Groups
  <2>1. DOMAIN groups = Groups /\ slices \in [Slices -> SliceLike]
    BY DEF BaseInv, StoreInv
  <2> QED BY <2>1, SlicePlmn
<1>5. InStep(job[w])' /\ (\A i : InSlices(i)' <=> InSlicesThen(i))
  BY <1>1 DEF InStep, InSlices, InSlicesThen
<1> HIDE DEF j, n
<1>6. \A i : ~Pending(j, i)
  BY <1>1 DEF Pending
<1>7. \A s \in Slices : j.arg \notin slices[s].groups
  BY <1>1, <1>3 DEF GroupDeletion, ToWrite
<1>8. \A i : InSlices(i) => InSlicesThen(i)
  BY <1>2, <1>4, <1>7 DEF InSlices, InSlicesThen
<1>9. ASSUME NEW d \in docs' PROVE Bare(d) \/ InSlices(d[2])'
  BY <1>2, <1>3, <1>5, <1>6, <1>8 DEF Documented
<1> QED BY <1>5, <1>9 DEF Documented, Bare

-----------------------------------------------------------------------------
Kept(w) == ReadPrev(w) \/ Find(w) \/ ReadGroup(w) \/ CheckAuth(w) \/ WriteDoc(w) \/ StartCleanup(w)
           \/ CleanGroup(w) \/ Remove(w) \/ Unlock(w) \/ List(w) \/ NextDoc(w) \/ GiveUp(w)
           \/ DeleteAuth(w) \/ Exists(w) \/ Store(w) \/ LockSlice(w) \/ LockGroup(w)

(* A request that has neither been answered nor failed goes on. *)
LEMMA ServedOrphan ==
    ASSUME BaseInv, NEW w \in Workers, Kept(w) \/ Posts(w) \/ DeleteGroupDoc(w)
    PROVE  job'[w].pc # "idle" /\ KeptRequest(job'[w], job[w])
<1>1. ControlInv
  BY DEF BaseInv
<1>2. CASE Posts(w) \/ DeleteGroupDoc(w) \/ GiveUp(w) \/ DeleteAuth(w) \/ Exists(w) \/ Store(w)
           \/ Unlock(w)
  BY <1>1, <1>2, PostShape, DeleteGroupDocShape, GiveUpShape, DeleteAuthShape, ExistsShape,
     StoreShape, UnlockShape DEF KeptAll, KeptButErr
<1>3. CASE ReadPrev(w) \/ List(w) \/ NextDoc(w) \/ ReadGroup(w) \/ CheckAuth(w) \/ StartCleanup(w)
           \/ CleanGroup(w) \/ Remove(w)
  BY <1>1, <1>3, ReadPrevShape, ListShape, NextDocShape, ReadGroupShape, CheckAuthShape,
     StartCleanupShape, CleanGroupShape, RemoveShape
<1>4. CASE LockSlice(w)
  BY <1>1, <1>4, LockSliceShape
<1>5. CASE LockGroup(w)
  BY <1>1, <1>5, LockGroupShape
<1>6. CASE WriteDoc(w)
  BY <1>1, <1>6, WriteDocShape DEF StopOf
<1>7. CASE Find(w)
  <2>1. job[w].pc # "idle"
    BY <1>7, Known DEF Find, Upserts, JobOK, Deriving
  <2> QED BY <1>1, <1>7, <2>1, FindShape DEF KeptAll, KeptButErr
<1> QED BY <1>2, <1>3, <1>4, <1>5, <1>6, <1>7 DEF Kept

LEMMA KeptOrphan ==
    ASSUME BaseInv, NEW w \in Workers, Kept(w), job[w].alone, InStep(job[w]), Documented(job[w]),
           Remove(w) => InPlmn(job[w].plmn)
    PROVE  InStep(job[w])' /\ Documented(job[w])'
<1>1. UNCHANGED <<groups, slices>>
  BY DEF Kept, ReadPrev, Find, ReadGroup, CheckAuth, WriteDoc, StartCleanup, CleanGroup, Remove,
         Unlock, List, NextDoc, GiveUp, DeleteAuth, Exists, Store, LockSlice, LockGroup, store
<1>2. InStep(job'[w]) /\ DocumentedThen(job'[w])
  BY ReadPrevOrphan, FindOrphan, ReadGroupOrphan, CheckAuthOrphan, WriteDocOrphan, StartCleanupOrphan,
     CleanGroupOrphan, RemoveOrphan, UnlockOrphan, WorkOrphan, SubscriberOrphan, LockSliceOrphan,
     LockGroupOrphan DEF Kept
<1> QED BY <1>1, <1>2, StoreKeptOrphan

(* With one PLMN, all documents are those that a removal can find. *)
LEMMA OnlyPlmn ==
    ASSUME BaseInv, NEW w \in Workers, Remove(w), \A p, q \in Plmns : p = q
    PROVE  InPlmn(job[w].plmn)
<1>1. job[w].plmn \in Plmns
  <2>1. PlanOK(job[w]) /\ job[w].pc = "cleanup" /\ job[w].gone # {}
    BY DEF Remove, BaseInv, PlanInv
  <2> QED BY <2>1 DEF PlanOK
<1>2. ASSUME NEW d \in docs PROVE d[3] \in Plmns \union {None}
  BY DEF BaseInv, StoreInv, Keys
<1> QED BY <1>1, <1>2 DEF InPlmn

(* As long as all is peaceful, nothing has failed, requests have come one by one
   and none has been answered with an error.                                  *)
LEMMA PeacefulStep ==
    ASSUME BaseInv, [Next]_vars, Peaceful'
    PROVE  /\ Peaceful
           /\ \/ UNCHANGED vars
              \/ \E w \in Workers : \/ Arrive(w)
                                    \/ Kept(w) \/ Posts(w) \/ DeleteGroupDoc(w)
                                    \/ End(w) /\ ~job[w].err
<1>1. calm' /\ faults' = 0 /\ (\A p, q \in Plmns : p = q) /\ faults \in Nat
  BY ProvisioningAssumption DEF Peaceful, BaseInv, StoreInv
<1>2. ~Fault
  BY <1>1 DEF Fault
<1>3. ~Restart /\ \A w \in Workers : ~Fails(w)
  BY <1>2 DEF Restart, Fails, ReadPrevFails, CallFails, ReadFails, WriteFails
<1>4. ASSUME NEW w \in Workers, Arrive(w) PROVE calm /\ faults = 0
  <2>1. PICK j : Begin(w, j)
    BY <1>4, ArriveStep
  <2> QED BY <1>1, <2>1 DEF Begin
<1>5. ASSUME NEW w \in Workers, Kept(w) \/ Posts(w) \/ DeleteGroupDoc(w) PROVE calm /\ faults = 0
  BY <1>1, <1>5
     DEF Kept, ReadPrev, Find, ReadGroup, CheckAuth, WriteDoc, StartCleanup, CleanGroup, Remove,
         Unlock, List, NextDoc, GiveUp, DeleteAuth, Exists, Store, LockSlice, LockGroup,
         Posts, Post, DeleteSliceDoc, DeleteGroupDoc, history
<1>6. ASSUME NEW w \in Workers, End(w) PROVE calm /\ faults = 0 /\ ~job[w].err
  BY <1>1, <1>6 DEF End
<1>7. CASE UNCHANGED vars
  BY <1>1, <1>7 DEF vars, Peaceful
<1>8. \A w \in Workers : Locks(w) \/ Proceed(w) =>
          Kept(w) \/ Posts(w) \/ DeleteGroupDoc(w) \/ End(w)
  BY DEF Locks, Proceed, Kept, Posts, Find
<1> QED BY <1>1, <1>3, <1>4, <1>5, <1>6, <1>7, <1>8 DEF Next, Peaceful

LEMMA OrphanStep == ASSUME BaseInv, DeletionInv, OrphanInv, [Next]_vars PROVE OrphanInv'
<1> SUFFICES ASSUME Peaceful'
             PROVE  /\ \A w \in Workers : job'[w].pc # "idle" =>
                          job'[w].alone /\ InStep(job[w])' /\ Documented(job[w])'
                    /\ Quiet' => \A d \in docs' : Bare(d) \/ InSlices(d[2])'
  BY DEF OrphanInv, Bare
<1>1. /\ Peaceful
      /\ \/ UNCHANGED vars
         \/ \E w \in Workers : \/ Arrive(w)
                               \/ Kept(w) \/ Posts(w) \/ DeleteGroupDoc(w)
                               \/ End(w) /\ ~job[w].err
  BY PeacefulStep
<1>2. /\ \A w \in Workers : job[w].pc # "idle" =>
             job[w].alone /\ InStep(job[w]) /\ Documented(job[w])
      /\ Quiet => \A d \in docs : Bare(d) \/ InSlices(d[2])
  BY <1>1 DEF OrphanInv
<1>3. CASE UNCHANGED vars
  <2> USE <1>3 DEF vars
  <2>1. \A i : InSlices(i)' <=> InSlices(i)
    BY DEF InSlices
  <2>2. \A w \in Workers : InStep(job[w])' <=> InStep(job[w])
    BY DEF InStep, InSlices, Having, OnSlice
  <2>3. \A w \in Workers : Documented(job[w])' <=> Documented(job[w])
    BY DEF Documented, Pending, Bare, InSlices, Having, OnSlice, Lost, LostGroups
  <2>4. Quiet' <=> Quiet
    BY DEF Quiet
  <2> QED BY <1>2, <2>1, <2>2, <2>3, <2>4
<1>4. ASSUME NEW w \in Workers, Arrive(w)
      PROVE  /\ \A v \in Workers \ {w} : job'[v].pc = "idle"
             /\ job'[w].pc # "idle" /\ job'[w].alone /\ InStep(job[w])' /\ Documented(job[w])'
  <2>1. /\ job[w].pc = "idle" /\ Fresh(job'[w])
        /\ \A v \in Workers \ {w} : Lowered(job'[v], job[v])
        /\ job'[w].alone = ((\A v \in Workers \ {w} : job[v].pc = "idle") /\ Single)
        /\ calm' = (calm /\ \A v \in Workers \ {w} : job[v].pc = "idle")
    BY <1>4, ArriveShape DEF BaseInv
  <2>2. \A v \in Workers \ {w} : job[v].pc = "idle"
    BY <2>1 DEF Peaceful
  <2>3. job'[w].alone /\ \A v \in Workers \ {w} : job'[v].pc = "idle"
    <3>1. Single
      BY <1>1 DEF Peaceful, BaseInv, AloneInv
    <3> QED BY <2>1, <2>2, <3>1 DEF Lowered
  <2>4. UNCHANGED store
    <3>1. PICK j : Begin(w, j)
      BY <1>4, ArriveStep
    <3> QED BY <3>1 DEF Begin
  <2>5. \A d \in docs : Bare(d) \/ InSlices(d[2])
    BY <1>2, <2>1, <2>2 DEF Quiet
  <2>6. job'[w].pc \in {"prev", "list", "exists"} /\ ~job'[w].err
    BY <2>1 DEF Fresh
  <2>7. InStep(job'[w]) /\ DocumentedThen(job'[w])
    BY <2>4, <2>5, <2>6 DEF InStep, DocumentedThen, store
  <2>8. InStep(job[w])' /\ Documented(job[w])'
    BY <2>4, <2>7, StoreKeptOrphan DEF store
  <2> QED BY <2>3, <2>6, <2>8
<1>5. ASSUME NEW w \in Workers, Acts(w)
      PROVE  /\ job[w].alone /\ InStep(job[w]) /\ Documented(job[w])
             /\ \A v \in Workers \ {w} : job'[v].pc = "idle"
  <2>1. OnlyJob(w) /\ job[w].pc # "idle"
    BY <1>5, ActsGood
  <2> QED BY <1>2, <2>1 DEF OnlyJob, BaseInv, AloneInv
<1>6. ASSUME NEW w \in Workers, Kept(w) \/ Posts(w) \/ DeleteGroupDoc(w)
      PROVE  /\ \A v \in Workers \ {w} : job'[v].pc = "idle"
             /\ job'[w].pc # "idle" /\ job'[w].alone /\ InStep(job[w])' /\ Documented(job[w])'
  <2>1. Acts(w)
    BY <1>6 DEF Acts, Locks, Proceed, Kept, Posts, Find
  <2>2. job'[w].pc # "idle" /\ job'[w].alone
    BY <1>5, <1>6, <2>1, ServedOrphan DEF KeptRequest
  <2>3. CASE DeleteGroupDoc(w)
    <3>1. job[w].op = "deleteGroup"
      BY <2>3, DeleteGroupDocShape DEF BaseInv
    <3>2. GroupDeletion(job[w])
      BY <1>5, <2>1, <3>1 DEF DeletionInv
    <3> QED BY <1>5, <2>1, <2>2, <2>3, <3>2, DeleteGroupDocOrphan
  <2>4. CASE Posts(w)
    BY <1>5, <2>1, <2>2, <2>4, PostSliceOrphan, PostGroupOrphan
  <2>5. CASE Kept(w)
    <3>1. Remove(w) => InPlmn(job[w].plmn)
      BY <1>1, OnlyPlmn DEF Peaceful
    <3> QED BY <1>5, <2>1, <2>2, <2>5, <3>1, KeptOrphan
  <2> QED BY <1>6, <2>3, <2>4, <2>5
<1>7. ASSUME NEW w \in Workers, End(w), ~job[w].err
      PROVE  /\ \A v \in Workers : job'[v].pc = "idle"
             /\ \A d \in docs' : Bare(d) \/ InSlices(d[2])'
  <2>1. Acts(w) /\ UNCHANGED store
    BY <1>7 DEF Acts, Proceed, End
  <2>2. job[w].pc = "end" /\ job'[w] = Idle
    BY <1>7, EndShape DEF BaseInv
  <2>3. \A v \in Workers : job'[v].pc = "idle"
    BY <1>5, <2>1, <2>2 DEF Idle
  <2>4. \A i : ~Pending(job[w], i)
    BY <1>7, <2>2 DEF Pending
  <2>5. \A d \in docs : Bare(d) \/ InSlices(d[2])
    BY <1>5, <2>1, <2>4 DEF Documented
  <2>6. \A i : InSlices(i)' <=> InSlices(i)
    BY <2>1 DEF InSlices, store
  <2> QED BY <2>1, <2>3, <2>5, <2>6 DEF store
<1>8. ASSUME NEW w \in Workers, \A v \in Workers \ {w} : job'[v].pc = "idle",
             job'[w].pc # "idle" /\ job'[w].alone /\ InStep(job[w])' /\ Documented(job[w])'
      PROVE  /\ \A v \in Workers : job'[v].pc # "idle" =>
                   job'[v].alone /\ InStep(job[v])' /\ Documented(job[v])'
             /\ ~Quiet'
  <2>1. ~Quiet'
    BY <1>8 DEF Quiet
  <2> QED BY <1>8, <2>1
<1> QED BY <1>1, <1>3, <1>4, <1>6, <1>7, <1>8

LEMMA OrphanAlways == Spec => []OrphanInv
<1>1. Init => OrphanInv
  BY DEF Init, OrphanInv, Idle, Quiet
<1> QED BY <1>1, DeletionAlways, OrphanStep, PTL DEF Spec

(* With one PLMN, and as long as no request fails or overlaps another, what is
   derived from slices and device groups goes with them: between requests only
   IMSIs of device groups of slices have documents, the bare one of a subscriber
   that was only created excepted.                                            *)
THEOREM NeverOrphans == Spec => []NoOrphans
<1>1. OrphanInv => NoOrphans
  BY DEF OrphanInv, NoOrphans, Peaceful, Bare
<1> QED BY <1>1, OrphanAlways, PTL
=============================================================================
