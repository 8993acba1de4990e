--------------------------- MODULE InventoryProofs ---------------------------
(* Proofs about Inventory, for every set of workers, entries, slices and values,
   and any number of faults.                                                  *)
EXTENDS Inventory, FiniteSetTheorems, TLAPS

JobFields == {"pc", "op", "entry", "value", "txn", "held", "did", "lost", "work",
              "named", "err", "alone", "apart", "hurt"}

Written == {"list", "next", "synced", "failed"}
Looping == {"next", "synced", "failed"}

(* The request in a job. *)
RequestOK(j) ==
    /\ j.op \in {"none", "post", "put", "delete", "deleteGroup"}
    /\ j.pc = "idle" <=> j.op = "none"
    /\ j.op \in {"none", "deleteGroup"} <=> j.entry = None
    /\ j.entry \in Entries \union {None}
    /\ j.op = "post" => j.value \in Values \union {NoTac}
    /\ j.op = "put" => j.value \in Values
    /\ j.op \in {"none", "delete", "deleteGroup"} => j.value = None

(* How far it is with the document of its entry. *)
WriteOK(j) ==
    /\ j.pc \in {"session", "write"} => j.entry # None /\ ~j.did /\ ~j.lost
    /\ j.pc # "end" /\ j.entry # None => ~j.err
    /\ j.pc \in Written /\ j.entry # None =>
          /\ j.held \/ j.did \/ j.lost
          /\ j.did /\ j.txn => j.op = "delete"
    /\ j.held => /\ j.txn /\ ~j.lost /\ ~j.did
                 /\ j.pc \in Written /\ j.entry # None
    /\ j.lost => j.hurt
    /\ j.txn => setting.sessions
    /\ j.pc \in {"write"} \union Written /\ j.entry # None /\ setting.sessions => j.txn

(* What it has left to write back: slices, each once, that had its entry. *)
WorkOK(j) ==
    /\ j.work \subseteq Slices \X SliceDocs
    /\ \A d, e \in j.work : d[1] = e[1] => d = e
    /\ j.entry # None => \A d \in j.work : d[2].copies[j.entry] # None

JobOK(j) == DOMAIN j = JobFields /\ RequestOK(j) /\ WriteOK(j) /\ WorkOK(j)

JobInv == /\ DOMAIN job = Workers
          /\ \A w \in Workers : JobOK(job[w])
          /\ setting \in Settings

(* At most one transaction has written the document of an entry, and one that
   creates it has seen that there is none.                                    *)
HoldInv ==
    /\ \A v, w \in Workers : job[v].held /\ job[w].held /\ job[v].entry = job[w].entry => v = w
    /\ \A w \in Workers : job[w].held /\ job[w].op = "post" => inv[job[w].entry] = None

(* What the history variables say of the other workers. *)
OverlapInv == \A w \in Workers : \A v \in Workers \ {w} :
    /\ job[w].alone => job[v].pc = "idle"
    /\ job[w].apart /\ job[w].entry # None =>
          job[v].pc = "idle" \/ (job[v].entry = job[w].entry /\ ~job[v].lost)

Left(j) == {d[1] : d \in j.work}

(* A slice that does not agree with an undisturbed request is still to be written. *)
FollowInv == \A w \in Workers : LET j == job[w] IN
    Undisturbed(j) /\ j.entry # None /\ j.pc \in Looping =>
        \A s \in Slices : slices[s].copies[j.entry] \in {j.value, None} \/ s \in Left(j)

(* A deletion has fewer slices left than it started with once it has written one. *)
AdvanceInv == \A w \in Workers : LET j == job[w] IN
    j.alone /\ j.op = "delete" /\ j.pc \in Looping =>
        /\ Cardinality(Left(j)) <= j.named
        /\ j.pc = "failed" => Cardinality(Left(j)) < j.named
        /\ j.named \in Nat

InventoryInv == TypeOK /\ JobInv /\ HoldInv /\ OverlapInv /\ FollowInv /\ AdvanceInv
                       /\ DeletionAdvances

-----------------------------------------------------------------------------
(* What a step makes of the job of its worker, field by field. *)

(* The request and what it knows of the others stay. *)
Kept(n, j) == /\ DOMAIN n = JobFields
              /\ n.op = j.op /\ n.entry = j.entry /\ n.value = j.value
              /\ n.alone = j.alone /\ n.apart = j.apart

KeptTxn(n, j) == n.txn = j.txn /\ n.held = j.held /\ n.did = j.did /\ n.lost = j.lost
KeptWork(n, j) == n.work = j.work /\ n.named = j.named
KeptErr(n, j) == n.err = j.err /\ n.hurt = j.hurt

Refusal(n, j) ==
    /\ Kept(n, j)
    /\ n.pc = "end" /\ n.err = TRUE /\ n.held = FALSE /\ n.work = {}
    /\ n.txn = j.txn /\ n.did = j.did /\ n.lost = j.lost /\ n.named = j.named

OnlyJob(w) == DOMAIN job' = Workers /\ \A v \in Workers \ {w} : job'[v] = job[v]

LEMMA RefusedShape ==
    ASSUME NEW j, DOMAIN j = JobFields
    PROVE  Refusal(Refused(j), j) /\ Refused(j).hurt = j.hurt
BY DEF Refused, Refusal, Kept, JobFields

LEMMA HurtShape ==
    ASSUME NEW j, DOMAIN j = JobFields
    PROVE  LET n == [Refused(j) EXCEPT !.hurt = TRUE]
           IN  Refusal(n, j) /\ n.hurt = TRUE
BY DEF Refused, Refusal, Kept, JobFields

LEMMA OpenShape ==
    ASSUME NEW w \in Workers, JobInv, OpenSession(w)
    PROVE  LET j == job[w]
               n == job'[w]
           IN  /\ OnlyJob(w) /\ Kept(n, j) /\ KeptWork(n, j) /\ KeptErr(n, j)
               /\ j.pc = "session" /\ n.pc = "write"
               /\ n.txn = setting.sessions
               /\ n.held = j.held /\ n.did = j.did /\ n.lost = j.lost
BY DEF JobInv, JobOK, OpenSession, OnlyJob, Kept, KeptWork, KeptErr, JobFields

LEMMA RefuseShape ==
    ASSUME NEW w \in Workers, JobInv, RefuseEntry(w)
    PROVE  LET j == job[w]
               n == job'[w]
           IN  OnlyJob(w) /\ Refusal(n, j) /\ n.hurt = j.hurt /\ j.pc = "write"
<1>1. DOMAIN job[w] = JobFields /\ DOMAIN job = Workers
  BY DEF JobInv, JobOK
<1>2. job' = [job EXCEPT ![w] = Refused(job[w])] /\ job[w].pc = "write"
  BY DEF RefuseEntry
<1>3. QED BY <1>1, <1>2, RefusedShape DEF OnlyJob

LEMMA WriteShape ==
    ASSUME NEW w \in Workers, JobInv, WriteEntry(w)
    PROVE  LET j == job[w]
               n == job'[w]
           IN  /\ OnlyJob(w) /\ Kept(n, j) /\ KeptWork(n, j) /\ KeptErr(n, j)
               /\ j.pc = "write" /\ n.pc = "list"
               /\ n.txn = j.txn /\ n.lost = j.lost
               /\ n.held = (j.txn /\ (j.op # "delete" \/ inv[j.entry] # None))
               /\ n.did = ~(j.txn /\ (j.op # "delete" \/ inv[j.entry] # None))
<1> DEFINE held == job[w].txn /\ (job[w].op # "delete" \/ inv[job[w].entry] # None)
<1>1. /\ job' = [job EXCEPT ![w].pc = "list", ![w].held = held, ![w].did = ~held]
      /\ job[w].pc = "write"
  BY DEF WriteEntry
<1> HIDE DEF held
<1>2. LET j == job[w]
          n == job'[w]
      IN  /\ OnlyJob(w) /\ Kept(n, j) /\ KeptWork(n, j) /\ KeptErr(n, j)
          /\ n.pc = "list" /\ n.txn = j.txn /\ n.lost = j.lost
          /\ n.held = held /\ n.did = ~held
  BY <1>1 DEF JobInv, JobOK, OnlyJob, Kept, KeptWork, KeptErr, JobFields
<1>3. QED BY <1>1, <1>2 DEF held

LEMMA ListShape ==
    ASSUME NEW w \in Workers, JobInv, List(w)
    PROVE  LET j == job[w]
               n == job'[w]
           IN  /\ OnlyJob(w) /\ Kept(n, j) /\ KeptTxn(n, j) /\ KeptErr(n, j)
               /\ j.pc = "list" /\ n.pc = "next"
               /\ \E found \in SUBSET Slices :
                     /\ j.op # "deleteGroup" => found = Naming(j.entry)
                     /\ n.work = {<<s, slices[s]>> : s \in found}
                     /\ n.named = Cardinality(found)
<1>1. PICK found \in IF job[w].op = "deleteGroup" THEN SUBSET Slices
                                                   ELSE {Naming(job[w].entry)} :
         job' = [job EXCEPT ![w].pc = "next",
                            ![w].work = {<<s, slices[s]>> : s \in found},
                            ![w].named = Cardinality(found)]
  BY DEF List
<1>2. found \in SUBSET Slices /\ (job[w].op # "deleteGroup" => found = Naming(job[w].entry))
  BY DEF Naming
<1> DEFINE work == {<<s, slices[s]>> : s \in found}
           size == Cardinality(found)
<1>3. job' = [job EXCEPT ![w].pc = "next", ![w].work = work, ![w].named = size]
  BY <1>1
<1> HIDE DEF work, size
<1>4. LET j == job[w]
          n == job'[w]
      IN  /\ OnlyJob(w) /\ Kept(n, j) /\ KeptTxn(n, j) /\ KeptErr(n, j)
          /\ n.pc = "next" /\ n.work = work /\ n.named = size
  BY <1>3 DEF JobInv, JobOK, OnlyJob, Kept, KeptTxn, KeptErr, JobFields
<1>5. QED BY <1>2, <1>4 DEF work, size, List

LEMMA PatchShape ==
    ASSUME NEW w \in Workers, JobInv, PatchSlice(w)
    PROVE  LET j == job[w]
               n == job'[w]
           IN  /\ OnlyJob(w) /\ Kept(n, j) /\ KeptTxn(n, j) /\ KeptErr(n, j)
               /\ j.pc = "next" /\ j.value # NoTac
               /\ n.pc \in {"synced", "failed"} /\ n.named = j.named
               /\ \E d \in j.work :
                     /\ slices' = [slices EXCEPT ![d[1]] = Patched(j, d[2])]
                     /\ n.work = j.work \ {d}
<1>1. PICK d \in job[w].work :
         /\ slices' = [slices EXCEPT ![d[1]] = Patched(job[w], d[2])]
         /\ job' = [job EXCEPT ![w].pc = IF d[2].sst THEN "synced" ELSE "failed",
                               ![w].work = @ \ {d}]
  BY DEF PatchSlice
<1> DEFINE pc == IF d[2].sst THEN "synced" ELSE "failed"
<1>2. job' = [job EXCEPT ![w].pc = pc, ![w].work = @ \ {d}] /\ pc \in {"synced", "failed"}
  BY <1>1
<1> HIDE DEF pc
<1>3. LET j == job[w]
          n == job'[w]
      IN  /\ OnlyJob(w) /\ Kept(n, j) /\ KeptTxn(n, j) /\ KeptErr(n, j)
          /\ n.pc = pc /\ n.named = j.named /\ n.work = j.work \ {d}
  BY <1>2 DEF JobInv, JobOK, OnlyJob, Kept, KeptTxn, KeptErr, JobFields
<1>4. QED BY <1>1, <1>2, <1>3 DEF PatchSlice

LEMMA PanicShape ==
    ASSUME NEW w \in Workers, JobInv, Panic(w)
    PROVE  LET j == job[w]
               n == job'[w]
           IN  /\ OnlyJob(w) /\ Refusal(n, j) /\ n.hurt = j.hurt
               /\ j.pc = "next" /\ j.value = NoTac
<1>1. DOMAIN job[w] = JobFields /\ DOMAIN job = Workers
  BY DEF JobInv, JobOK
<1>2. job' = [job EXCEPT ![w] = Refused(job[w])] /\ job[w].pc = "next" /\ job[w].value = NoTac
  BY DEF Panic
<1>3. QED BY <1>1, <1>2, RefusedShape DEF OnlyJob

LEMMA ProvisionShape ==
    ASSUME NEW w \in Workers, JobInv, Provision(w)
    PROVE  LET j == job[w]
               n == job'[w]
           IN  /\ OnlyJob(w)
               /\ \/ /\ Kept(n, j) /\ KeptTxn(n, j) /\ KeptWork(n, j) /\ n.hurt = j.hurt
                     /\ n.pc = "next" /\ j.pc \in {"synced", "failed"}
                     /\ n.err = j.err \/ j.op = "deleteGroup"
                     /\ j.pc = "failed" => j.op = "deleteGroup"
                  \/ Refusal(n, j) /\ n.hurt = j.hurt /\ j.pc = "failed"
<1>1. DOMAIN job[w] = JobFields /\ DOMAIN job = Workers
  BY DEF JobInv, JobOK
<1>2. CASE job[w].pc = "synced"
  <2>1. job' = [job EXCEPT ![w] = [job[w] EXCEPT !.pc = "next"]]
    BY <1>2 DEF Provision
  <2>2. QED BY <1>1, <1>2, <2>1 DEF OnlyJob, Kept, KeptTxn, KeptWork, JobFields
<1>3. CASE job[w].pc = "failed" /\ job[w].op = "deleteGroup"
  <2>1. job' = [job EXCEPT ![w] = [job[w] EXCEPT !.pc = "next", !.err = TRUE]]
    BY <1>3 DEF Provision
  <2>2. QED BY <1>1, <1>3, <2>1 DEF OnlyJob, Kept, KeptTxn, KeptWork, JobFields
<1>4. CASE job[w].pc = "failed" /\ job[w].op # "deleteGroup"
  <2>1. job' = [job EXCEPT ![w] = Refused(job[w])]
    BY <1>4 DEF Provision
  <2>2. QED BY <1>1, <1>4, <2>1, RefusedShape DEF OnlyJob
<1>5. QED BY <1>2, <1>3, <1>4 DEF Provision

LEMMA CommitShape ==
    ASSUME NEW w \in Workers, JobInv, Commit(w)
    PROVE  LET j == job[w]
               n == job'[w]
           IN  /\ OnlyJob(w) /\ j.pc = "next" /\ j.work = {} /\ n.hurt = j.hurt
               /\ \/ j.lost /\ Refusal(n, j)
                  \/ /\ ~j.lost /\ Kept(n, j) /\ KeptWork(n, j) /\ KeptErr(n, j)
                     /\ n.pc = "end" /\ n.held = FALSE
                     /\ n.txn = j.txn /\ n.did = j.did /\ n.lost = j.lost
<1>1. DOMAIN job[w] = JobFields /\ DOMAIN job = Workers
  BY DEF JobInv, JobOK
<1>2. job[w].pc = "next" /\ job[w].work = {}
  BY DEF Commit, Finished
<1>3. CASE job[w].lost
  <2>1. job' = [job EXCEPT ![w] = Refused(job[w])]
    BY <1>3 DEF Commit
  <2>2. QED BY <1>1, <1>2, <1>3, <2>1, RefusedShape DEF OnlyJob
<1>4. CASE ~job[w].lost
  <2>1. job' = [job EXCEPT ![w] = [job[w] EXCEPT !.pc = "end", !.held = FALSE]]
    BY <1>4 DEF Commit
  <2>2. QED BY <1>1, <1>2, <1>4, <2>1 DEF OnlyJob, Kept, KeptWork, KeptErr, JobFields
<1>5. QED BY <1>3, <1>4

LEMMA EndShape ==
    ASSUME NEW w \in Workers, JobInv, End(w)
    PROVE  OnlyJob(w) /\ job[w].pc = "end" /\ job'[w] = Idle
BY DEF JobInv, End, OnlyJob

LEMMA CallFailsShape ==
    ASSUME NEW w \in Workers, JobInv, CallFails(w)
    PROVE  LET j == job[w]
               n == job'[w]
           IN  /\ OnlyJob(w) /\ n.hurt = TRUE
               /\ j.pc \in {"session", "write", "list", "next", "synced"}
               /\ \/ Refusal(n, j)
                  \/ /\ j.op = "deleteGroup" /\ Kept(n, j) /\ KeptTxn(n, j)
                     /\ n.pc = "next" /\ n.err = TRUE /\ n.named = j.named
                     /\ n.work \subseteq j.work
<1>1. DOMAIN job[w] = JobFields /\ DOMAIN job = Workers
  BY DEF JobInv, JobOK
<1>2. job[w].pc \in {"session", "write", "list", "next", "synced"}
  BY DEF CallFails, Patching
<1>3. CASE job' = [job EXCEPT ![w] = [Refused(job[w]) EXCEPT !.hurt = TRUE]]
  BY <1>1, <1>2, <1>3, HurtShape DEF OnlyJob
<1>4. ASSUME job[w].op = "deleteGroup", NEW d,
             job' = [job EXCEPT ![w].pc = "next", ![w].err = TRUE,
                                ![w].hurt = TRUE, ![w].work = @ \ {d}]
      PROVE  LET j == job[w]
                 n == job'[w]
             IN  /\ OnlyJob(w) /\ n.hurt = TRUE
                 /\ Kept(n, j) /\ KeptTxn(n, j)
                 /\ n.pc = "next" /\ n.err = TRUE /\ n.named = j.named
                 /\ n.work \subseteq j.work
  BY <1>1, <1>4 DEF OnlyJob, Kept, KeptTxn, JobFields
<1>5. QED BY <1>2, <1>3, <1>4 DEF CallFails

LEMMA CommitFailsShape ==
    ASSUME NEW w \in Workers, JobInv, CommitFails(w)
    PROVE  LET j == job[w]
               n == job'[w]
           IN  OnlyJob(w) /\ Refusal(n, j) /\ n.hurt = TRUE /\ j.pc = "next" /\ j.txn
<1>1. DOMAIN job[w] = JobFields /\ DOMAIN job = Workers
  BY DEF JobInv, JobOK
<1>2. /\ job' = [job EXCEPT ![w] = [Refused(job[w]) EXCEPT !.hurt = TRUE]]
      /\ job[w].pc = "next" /\ job[w].txn
  BY DEF CommitFails, Finished
<1>3. QED BY <1>1, <1>2, HurtShape DEF OnlyJob

-----------------------------------------------------------------------------
(* Steps that reach into the history of other workers. *)

(* At most alone and apart have changed, and have not become true. *)
Lowered(n, j) == /\ DOMAIN n = JobFields
                 /\ n.pc = j.pc /\ n.op = j.op /\ n.entry = j.entry /\ n.value = j.value
                 /\ KeptTxn(n, j) /\ KeptWork(n, j) /\ KeptErr(n, j)
                 /\ n.alone => j.alone
                 /\ n.apart => j.apart

LEMMA IntrudeShape ==
    ASSUME JobInv, Intrude
    PROVE  /\ DOMAIN job' = Workers
           /\ \A v \in Workers : /\ Lowered(job'[v], job[v])
                                 /\ job'[v].alone = FALSE /\ job'[v].apart = FALSE
BY DEF JobInv, JobOK, Intrude, Lowered, KeptTxn, KeptWork, KeptErr, JobFields

LEMMA ExpireShape ==
    ASSUME NEW w \in Workers, JobInv, Expire(w)
    PROVE  LET j == job[w]
               n == job'[w]
           IN  /\ DOMAIN job' = Workers
               /\ \A v \in Workers \ {w} : /\ Lowered(job'[v], job[v])
                                           /\ job'[v].apart = FALSE
               /\ Kept(n, j) /\ KeptWork(n, j) /\ n.err = j.err
               /\ j.txn /\ j.pc \in Written /\ n.pc = j.pc
               /\ n.txn = j.txn /\ n.did = j.did
               /\ n.held = FALSE /\ n.lost = TRUE /\ n.hurt = TRUE
<1>1. \A v \in Workers : DOMAIN job[v] = JobFields
  BY DEF JobInv, JobOK
<1>2. /\ DOMAIN job' = Workers
      /\ job'[w] = [job[w] EXCEPT !.held = FALSE, !.lost = TRUE, !.hurt = TRUE]
      /\ \A v \in Workers \ {w} : job'[v] = [job[v] EXCEPT !.apart = FALSE]
      /\ job[w].txn /\ job[w].pc \in Written
  BY DEF Expire, Written
<1>3. \A v \in Workers \ {w} : Lowered(job'[v], job[v]) /\ job'[v].apart = FALSE
  BY <1>1, <1>2 DEF Lowered, KeptTxn, KeptWork, KeptErr, JobFields
<1>4. LET j == job[w]
          n == job'[w]
      IN  /\ Kept(n, j) /\ KeptWork(n, j) /\ n.err = j.err /\ n.pc = j.pc
          /\ n.txn = j.txn /\ n.did = j.did
          /\ n.held = FALSE /\ n.lost = TRUE /\ n.hurt = TRUE
  <2> DEFINE j == job[w]
  <2>1. /\ DOMAIN j = JobFields
        /\ job'[w] = [j EXCEPT !.held = FALSE, !.lost = TRUE, !.hurt = TRUE]
    BY <1>1, <1>2
  <2> HIDE DEF j
  <2>2. LET n == job'[w]
        IN  /\ Kept(n, j) /\ KeptWork(n, j) /\ n.err = j.err /\ n.pc = j.pc
            /\ n.txn = j.txn /\ n.did = j.did
            /\ n.held = FALSE /\ n.lost = TRUE /\ n.hurt = TRUE
    BY <2>1 DEF Kept, KeptWork, JobFields
  <2>3. QED BY <2>2 DEF j
<1>5. job[w].txn /\ job[w].pc \in Written
  BY <1>2
<1>6. QED BY <1>2, <1>3, <1>4, <1>5, Zenon

(* A request that arrives. *)
Fresh(r) == /\ DOMAIN r = JobFields /\ RequestOK(r)
            /\ \/ r.pc = "session" /\ r.entry # None
               \/ r.pc = "list" /\ r.entry = None
            /\ r.txn = FALSE /\ r.held = FALSE /\ r.did = FALSE /\ r.lost = FALSE
            /\ r.work = {} /\ r.err = FALSE /\ r.hurt = FALSE

LEMMA BeginShape ==
    ASSUME NEW w \in Workers, NEW r, Fresh(r), JobInv, Begin(w, r)
    PROVE  LET n == job'[w]
           IN  /\ DOMAIN job' = Workers
               /\ \A v \in Workers \ {w} :
                     /\ Lowered(job'[v], job[v]) /\ job'[v].alone = FALSE
                     /\ job'[v].apart => /\ r.entry # None /\ job[v].entry = r.entry
                                         /\ ~job[v].lost
               /\ job[w].pc = "idle"
               /\ Fresh(n) /\ n.pc = r.pc /\ n.op = r.op /\ n.entry = r.entry
               /\ n.value = r.value
               /\ n.alone => \A v \in Workers \ {w} : job[v].pc = "idle"
               /\ n.apart => \A v \in Workers \ {w} :
                     \/ job[v].pc = "idle"
                     \/ r.entry # None /\ job[v].entry = r.entry /\ ~job[v].lost
<1> DEFINE others == {v \in Workers \ {w} : Busy(v)}
           alike(v) == r.entry # None /\ job[v].entry = r.entry /\ ~job[v].lost
           alone == others = {}
           apart == \A o \in others : alike(o)
<1>1. /\ \A v \in Workers : DOMAIN job[v] = JobFields
      /\ DOMAIN r = JobFields
  BY DEF JobInv, JobOK, Fresh
<1>2. /\ DOMAIN job' = Workers /\ job[w].pc = "idle"
      /\ job'[w] = [r EXCEPT !.alone = alone, !.apart = apart]
      /\ \A v \in Workers \ {w} :
            job'[v] = [job[v] EXCEPT !.alone = FALSE, !.apart = job[v].apart /\ alike(v)]
  BY DEF Begin, Busy
<1> HIDE DEF alike, others, alone, apart
<1>3. \A v \in Workers \ {w} :
         /\ Lowered(job'[v], job[v]) /\ job'[v].alone = FALSE
         /\ job'[v].apart => alike(v)
  <2> SUFFICES ASSUME NEW v \in Workers \ {w}
               PROVE  /\ Lowered(job'[v], job[v]) /\ job'[v].alone = FALSE
                      /\ job'[v].apart => alike(v)
    OBVIOUS
  <2> DEFINE p == job[v].apart /\ alike(v)
  <2>1. job'[v] = [job[v] EXCEPT !.alone = FALSE, !.apart = p] /\ DOMAIN job[v] = JobFields
    BY <1>1, <1>2
  <2>2. p => job[v].apart /\ alike(v)
    OBVIOUS
  <2> HIDE DEF p
  <2>3. LET j == job[v]
            n == job'[v]
        IN  /\ DOMAIN n = JobFields
            /\ n.pc = j.pc /\ n.op = j.op /\ n.entry = j.entry /\ n.value = j.value
            /\ KeptTxn(n, j) /\ KeptWork(n, j) /\ KeptErr(n, j)
            /\ n.alone = FALSE /\ n.apart = p
    BY <2>1 DEF KeptTxn, KeptWork, KeptErr, JobFields
  <2>4. QED BY <2>2, <2>3 DEF Lowered
<1>4. LET n == job'[w]
      IN  /\ DOMAIN n = JobFields
          /\ n.pc = r.pc /\ n.op = r.op /\ n.entry = r.entry /\ n.value = r.value
          /\ n.txn = r.txn /\ n.held = r.held /\ n.did = r.did /\ n.lost = r.lost
          /\ n.work = r.work /\ n.err = r.err /\ n.hurt = r.hurt
          /\ n.alone = alone /\ n.apart = apart
  BY <1>1, <1>2 DEF JobFields
<1>5. Fresh(job'[w])
  BY <1>4 DEF Fresh, RequestOK
<1>6. alone => \A v \in Workers \ {w} : job[v].pc = "idle"
  BY DEF alone, others, Busy
<1>7. apart => \A v \in Workers \ {w} : job[v].pc = "idle" \/ alike(v)
  BY DEF apart, others, Busy
<1>8. QED BY <1>2, <1>3, <1>4, <1>5, <1>6, <1>7 DEF alike

LEMMA ArriveShape ==
    ASSUME NEW w \in Workers, Arrive(w)
    PROVE  \E r : Fresh(r) /\ Begin(w, r)
<1>1. \A op, e, v : LET r == Request(op, e, v)
                    IN  /\ DOMAIN r = JobFields
                        /\ r.pc = "session" /\ r.op = op /\ r.entry = e /\ r.value = v
                        /\ r.txn = FALSE /\ r.held = FALSE /\ r.did = FALSE
                        /\ r.lost = FALSE /\ r.work = {} /\ r.err = FALSE /\ r.hurt = FALSE
  BY DEF Request, Idle, JobFields
<1>2. ASSUME NEW e \in Entries, NEW v \in Values \union {NoTac}
      PROVE  Fresh(Request("post", e, v))
  BY <1>1, <1>2, InventoryAssumption DEF Fresh, RequestOK
<1>3. ASSUME NEW e \in Entries, NEW v \in Values
      PROVE  Fresh(Request("put", e, v))
  BY <1>1, <1>3, InventoryAssumption DEF Fresh, RequestOK
<1>4. ASSUME NEW e \in Entries
      PROVE  Fresh(Request("delete", e, None))
  BY <1>1, <1>4, InventoryAssumption DEF Fresh, RequestOK
<1>5. Fresh([Idle EXCEPT !.pc = "list", !.op = "deleteGroup"])
  BY InventoryAssumption DEF Fresh, RequestOK, Idle, JobFields
<1>6. ASSUME NEW g \in Gnbs, PostGnb(w, g) \/ PutGnb(w, g) \/ DeleteGnb(w, g)
      PROVE  \E r : Fresh(r) /\ Begin(w, r)
  BY <1>2, <1>3, <1>4, <1>6 DEF PostGnb, PutGnb, DeleteGnb, Entries
<1>7. ASSUME NEW u \in Upfs, PostUpf(w, u) \/ PutUpf(w, u) \/ DeleteUpf(w, u)
      PROVE  \E r : Fresh(r) /\ Begin(w, r)
  BY <1>2, <1>3, <1>4, <1>7 DEF PostUpf, PutUpf, DeleteUpf, Entries
<1>8. DeleteGroup(w) => \E r : Fresh(r) /\ Begin(w, r)
  BY <1>5 DEF DeleteGroup
<1>9. QED BY <1>6, <1>7, <1>8 DEF Arrive

-----------------------------------------------------------------------------
(* Every job stays well-formed. *)

LEMMA LoweredOK ==
    ASSUME NEW j, NEW n, JobOK(j), Lowered(n, j)
    PROVE  JobOK(n)
<1>1. RequestOK(n)
  BY DEF JobOK, Lowered, RequestOK
<1>2. WriteOK(n)
  BY DEF JobOK, Lowered, WriteOK, KeptTxn, KeptErr
<1>3. WorkOK(n)
  BY DEF JobOK, Lowered, WorkOK, KeptWork
<1>4. QED BY <1>1, <1>2, <1>3 DEF JobOK, Lowered

LEMMA RefusalOK ==
    ASSUME NEW j, NEW n, JobOK(j), Refusal(n, j), j.pc # "idle",
           n.hurt = j.hurt \/ n.hurt = TRUE
    PROVE  JobOK(n)
<1>1. RequestOK(n)
  BY DEF JobOK, Refusal, Kept, RequestOK
<1>2. WriteOK(n)
  BY DEF JobOK, Refusal, Kept, WriteOK, Written
<1>3. WorkOK(n)
  BY DEF Refusal, WorkOK
<1>4. QED BY <1>1, <1>2, <1>3 DEF JobOK, Refusal, Kept

LEMMA FreshOK ==
    ASSUME NEW r, Fresh(r)
    PROVE  JobOK(r)
BY DEF Fresh, JobOK, RequestOK, WriteOK, WorkOK, Written

LEMMA IdleOK == JobOK(Idle)
BY InventoryAssumption DEF Idle, JobOK, RequestOK, WriteOK, WorkOK, Written, JobFields

LEMMA KeptRequestOK ==
    ASSUME NEW j, NEW n, RequestOK(j), Kept(n, j), j.pc # "idle", n.pc # "idle"
    PROVE  RequestOK(n)
BY DEF RequestOK, Kept

LEMMA ListedOK ==
    ASSUME NEW j, NEW n, NEW found \in SUBSET Slices, TypeOK,
           j.op # "deleteGroup" => found = Naming(j.entry), RequestOK(j), j.pc # "idle",
           n.entry = j.entry, n.work = {<<s, slices[s]>> : s \in found}
    PROVE  WorkOK(n)
<1>1. slices \in [Slices -> SliceDocs]
  BY DEF TypeOK
<1>2. n.work \subseteq Slices \X SliceDocs
  BY <1>1
<1>3. \A d, e \in n.work : d[1] = e[1] => d = e
  OBVIOUS
<1>4. n.entry # None => \A d \in n.work : d[2].copies[n.entry] # None
  BY DEF RequestOK, Naming
<1>5. QED BY <1>2, <1>3, <1>4 DEF WorkOK

(* The job of the worker that takes a step; others are at most lowered. *)
LEMMA WorkerJob ==
    ASSUME TypeOK, JobInv, NEW w \in Workers, Arrive(w) \/ Proceed(w) \/ Fails(w)
    PROVE  /\ DOMAIN job' = Workers
           /\ JobOK(job'[w])
           /\ \A v \in Workers \ {w} : Lowered(job'[v], job[v])
<1> DEFINE j == job[w]
           n == job'[w]
<1>1. JobOK(j) /\ \A v \in Workers : Lowered(job[v], job[v])
  BY DEF JobInv, JobOK, Lowered, KeptTxn, KeptWork, KeptErr
<1>2. OnlyJob(w) => DOMAIN job' = Workers /\ \A v \in Workers \ {w} : Lowered(job'[v], job[v])
  BY <1>1 DEF OnlyJob
<1>3. CASE Arrive(w)
  BY <1>3, ArriveShape, BeginShape, FreshOK
<1>4. CASE OpenSession(w)
  <2>1. OnlyJob(w) /\ Kept(n, j) /\ KeptWork(n, j) /\ KeptErr(n, j)
        /\ j.pc = "session" /\ n.pc = "write" /\ n.txn = setting.sessions
        /\ n.held = j.held /\ n.did = j.did /\ n.lost = j.lost
    BY <1>4, OpenShape
  <2> HIDE DEF j, n
  <2>2. RequestOK(n)
    BY <1>1, <2>1, KeptRequestOK DEF JobOK
  <2>3. WriteOK(n)
    BY <1>1, <2>1 DEF JobOK, WriteOK, Kept, KeptErr, Written
  <2>4. WorkOK(n)
    BY <1>1, <2>1 DEF JobOK, WorkOK, Kept, KeptWork
  <2>5. QED BY <1>2, <2>1, <2>2, <2>3, <2>4 DEF JobOK, Kept, n
<1>5. CASE RefuseEntry(w)
  BY <1>1, <1>2, <1>5, RefuseShape, RefusalOK
<1>6. CASE WriteEntry(w)
  <2> DEFINE held == j.txn /\ (j.op # "delete" \/ inv[j.entry] # None)
  <2>1. OnlyJob(w) /\ Kept(n, j) /\ KeptWork(n, j) /\ KeptErr(n, j)
        /\ j.pc = "write" /\ n.pc = "list" /\ n.txn = j.txn /\ n.lost = j.lost
        /\ n.held = held /\ n.did = ~held
    BY <1>6, WriteShape
  <2>2. (held => j.txn) /\ (~held => j.op = "delete" \/ ~j.txn)
    OBVIOUS
  <2> HIDE DEF j, n, held
  <2>3. RequestOK(n)
    BY <1>1, <2>1, KeptRequestOK DEF JobOK
  <2>4. j.entry # None /\ ~j.err /\ ~j.lost /\ (j.txn <=> setting.sessions)
    BY <1>1, <2>1 DEF JobOK, WriteOK
  <2>5. WriteOK(n)
    BY <2>1, <2>2, <2>4 DEF WriteOK, Kept, KeptErr, Written
  <2>6. WorkOK(n)
    BY <1>1, <2>1 DEF JobOK, WorkOK, Kept, KeptWork
  <2>7. QED BY <1>2, <2>1, <2>3, <2>5, <2>6 DEF JobOK, Kept, n
<1>7. CASE List(w)
  <2>1. OnlyJob(w) /\ Kept(n, j) /\ KeptTxn(n, j) /\ KeptErr(n, j)
        /\ j.pc = "list" /\ n.pc = "next"
    BY <1>7, ListShape
  <2>2. WorkOK(n)
    BY <1>1, <1>7, <2>1, ListShape, ListedOK DEF JobOK, Kept
  <2> HIDE DEF j, n
  <2>3. RequestOK(n)
    BY <1>1, <2>1, KeptRequestOK DEF JobOK
  <2>4. WriteOK(n)
    BY <1>1, <2>1 DEF JobOK, WriteOK, Kept, KeptTxn, KeptErr, Written
  <2>5. QED BY <1>2, <2>1, <2>2, <2>3, <2>4 DEF JobOK, Kept, n
<1>8. CASE PatchSlice(w)
  <2>1. OnlyJob(w) /\ Kept(n, j) /\ KeptTxn(n, j) /\ KeptErr(n, j)
        /\ j.pc = "next" /\ n.pc \in {"synced", "failed"} /\ n.work \subseteq j.work
    BY <1>8, PatchShape
  <2> HIDE DEF j, n
  <2>2. RequestOK(n)
    BY <1>1, <2>1, KeptRequestOK DEF JobOK
  <2>3. WriteOK(n)
    BY <1>1, <2>1 DEF JobOK, WriteOK, Kept, KeptTxn, KeptErr, Written
  <2>4. WorkOK(n)
    BY <1>1, <2>1 DEF JobOK, WorkOK, Kept
  <2>5. QED BY <1>2, <2>1, <2>2, <2>3, <2>4 DEF JobOK, Kept, n
<1>9. CASE Panic(w)
  BY <1>1, <1>2, <1>9, PanicShape, RefusalOK
<1>10. CASE Provision(w)
  <2>1. CASE Refusal(n, j) /\ n.hurt = j.hurt /\ j.pc = "failed"
    BY <1>1, <1>2, <1>10, <2>1, ProvisionShape, RefusalOK
  <2>2. CASE Kept(n, j) /\ KeptTxn(n, j) /\ KeptWork(n, j) /\ n.hurt = j.hurt
             /\ n.pc = "next" /\ j.pc \in {"synced", "failed"}
             /\ (n.err = j.err \/ j.op = "deleteGroup")
    <3> HIDE DEF j, n
    <3>1. RequestOK(n)
      BY <1>1, <2>2, KeptRequestOK DEF JobOK
    <3>2. WriteOK(n)
      BY <1>1, <2>2 DEF JobOK, RequestOK, WriteOK, Kept, KeptTxn, Written
    <3>3. WorkOK(n)
      BY <1>1, <2>2 DEF JobOK, WorkOK, Kept, KeptWork
    <3>4. QED BY <1>2, <1>10, <2>2, <3>1, <3>2, <3>3, ProvisionShape DEF JobOK, Kept, n
  <2>3. QED BY <1>10, <2>1, <2>2, ProvisionShape
<1>11. CASE Commit(w)
  <2>1. CASE j.lost
    BY <1>1, <1>2, <1>11, <2>1, CommitShape, RefusalOK
  <2>2. CASE ~j.lost
    <3>1. OnlyJob(w) /\ Kept(n, j) /\ KeptWork(n, j) /\ KeptErr(n, j)
          /\ j.pc = "next" /\ n.pc = "end" /\ n.held = FALSE
          /\ n.txn = j.txn /\ n.did = j.did /\ n.lost = j.lost
      BY <1>11, <2>2, CommitShape
    <3> HIDE DEF j, n
    <3>2. RequestOK(n)
      BY <1>1, <3>1, KeptRequestOK DEF JobOK
    <3>3. WriteOK(n)
      BY <1>1, <3>1 DEF JobOK, WriteOK, Kept, KeptErr, Written
    <3>4. WorkOK(n)
      BY <1>1, <3>1 DEF JobOK, WorkOK, Kept, KeptWork
    <3>5. QED BY <1>2, <3>1, <3>2, <3>3, <3>4 DEF JobOK, Kept, n
  <2>3. QED BY <2>1, <2>2
<1>12. CASE End(w)
  BY <1>2, <1>12, EndShape, IdleOK
<1>13. CASE CallFails(w)
  <2>1. CASE Refusal(n, j)
    BY <1>1, <1>2, <1>13, <2>1, CallFailsShape, RefusalOK
  <2>2. CASE ~Refusal(n, j)
    <3>1. OnlyJob(w) /\ n.hurt = TRUE /\ j.op = "deleteGroup"
          /\ Kept(n, j) /\ KeptTxn(n, j) /\ n.pc = "next" /\ n.work \subseteq j.work
          /\ j.pc # "idle"
      BY <1>13, <2>2, CallFailsShape
    <3> HIDE DEF j, n
    <3>2. RequestOK(n)
      BY <1>1, <3>1, KeptRequestOK DEF JobOK
    <3>3. WriteOK(n)
      BY <1>1, <3>1 DEF JobOK, RequestOK, WriteOK, Kept, KeptTxn, Written
    <3>4. WorkOK(n)
      BY <1>1, <3>1 DEF JobOK, WorkOK, Kept
    <3>5. QED BY <1>2, <3>1, <3>2, <3>3, <3>4 DEF JobOK, Kept, n
  <2>3. QED BY <2>1, <2>2
<1>14. CASE CommitFails(w)
  BY <1>1, <1>2, <1>14, CommitFailsShape, RefusalOK
<1>15. CASE Expire(w)
  <2>1. /\ DOMAIN job' = Workers
        /\ \A v \in Workers \ {w} : Lowered(job'[v], job[v])
        /\ Kept(n, j) /\ KeptWork(n, j) /\ n.err = j.err
        /\ j.txn /\ j.pc \in Written /\ n.pc = j.pc
        /\ n.txn = j.txn /\ n.did = j.did
        /\ n.held = FALSE /\ n.lost = TRUE /\ n.hurt = TRUE
    BY <1>15, ExpireShape
  <2> HIDE DEF j, n
  <2>2. RequestOK(n)
    BY <1>1, <2>1, KeptRequestOK DEF JobOK, Written
  <2>3. WriteOK(n)
    BY <1>1, <2>1 DEF JobOK, WriteOK, Kept, Written
  <2>4. WorkOK(n)
    BY <1>1, <2>1 DEF JobOK, WorkOK, Kept, KeptWork
  <2>5. QED BY <2>1, <2>2, <2>3, <2>4 DEF JobOK, Kept, n
<1>16. QED
  BY <1>3, <1>4, <1>5, <1>6, <1>7, <1>8, <1>9, <1>10, <1>11, <1>12, <1>13, <1>14, <1>15
  DEF Proceed, Fails

(* No step changes the setting, and each counts at most one fault. *)
LEMMA WorkerRest ==
    ASSUME NEW w \in Workers, Arrive(w) \/ Proceed(w) \/ Fails(w)
    PROVE  setting' = setting /\ (faults' = faults \/ Fault)
<1>1. CASE Arrive(w)
  BY <1>1, ArriveShape DEF Begin
<1>2. CASE Proceed(w)
  BY <1>2 DEF Proceed, OpenSession, RefuseEntry, WriteEntry, List, PatchSlice, Panic,
              Provision, Commit, End
<1>3. CASE Fails(w)
  BY <1>3 DEF Fails, CallFails, CommitFails, Expire
<1>4. QED BY <1>1, <1>2, <1>3

LEMMA Rest ==
    ASSUME TypeOK, [Next]_vars
    PROVE  setting' = setting /\ faults' \in 0..MaxFaults
<1>1. setting' = setting /\ (faults' = faults \/ Fault)
  <2>1. ASSUME NEW s \in Slices, PutSlice(s) \/ DeleteSlice(s)
        PROVE  setting' = setting /\ faults' = faults
    BY <2>1 DEF PutSlice, DeleteSlice
  <2>2. Restart => setting' = setting /\ Fault
    BY DEF Restart
  <2>3. UNCHANGED vars => setting' = setting /\ faults' = faults
    BY DEF vars
  <2>4. QED BY <2>1, <2>2, <2>3, WorkerRest DEF Next
<1>2. Fault => faults' \in 0..MaxFaults
  <2>1. faults \in 0..MaxFaults /\ MaxFaults \in Nat
    BY InventoryAssumption DEF TypeOK
  <2>2. QED BY <2>1 DEF Fault
<1>3. QED BY <1>1, <1>2 DEF TypeOK

LEMMA JobStep == TypeOK /\ JobInv /\ [Next]_vars => JobInv'
<1> SUFFICES ASSUME TypeOK, JobInv, [Next]_vars
             PROVE  JobInv'
  OBVIOUS
<1>1. \A v \in Workers : JobOK(job[v])
  BY DEF JobInv
<1>2. setting' = setting
  BY Rest
<1>3. DOMAIN job' = Workers /\ \A v \in Workers : JobOK(job'[v])
  <2>1. ASSUME NEW w \in Workers, Arrive(w) \/ Proceed(w) \/ Fails(w)
        PROVE  DOMAIN job' = Workers /\ \A v \in Workers : JobOK(job'[v])
    BY <1>1, <2>1, WorkerJob, LoweredOK
  <2>2. ASSUME NEW s \in Slices, PutSlice(s) \/ DeleteSlice(s)
        PROVE  DOMAIN job' = Workers /\ \A v \in Workers : JobOK(job'[v])
    BY <1>1, <2>2, IntrudeShape, LoweredOK DEF PutSlice, DeleteSlice
  <2>3. CASE Restart
    BY <2>3, IdleOK DEF Restart
  <2>4. CASE UNCHANGED vars
    BY <1>1, <2>4 DEF vars, JobInv
  <2>5. QED BY <2>1, <2>2, <2>3, <2>4 DEF Next
<1>4. \A v \in Workers : JobOK(job[v])'
  BY <1>2, <1>3 DEF JobOK, RequestOK, WriteOK, WorkOK
<1>5. QED BY <1>2, <1>3, <1>4 DEF JobInv

-----------------------------------------------------------------------------
(* The documents and the slices. *)

(* A step changes the document of the entry it is about, if any, and either no
   transaction has written that or its own has.                               *)
LEMMA Document ==
    ASSUME JobInv, NEW w \in Workers, Arrive(w) \/ Proceed(w) \/ Fails(w)
    PROVE  LET j == job[w]
           IN  \/ inv' = inv
               \/ /\ inv' = [inv EXCEPT ![j.entry] = j.value]
                  /\ j.entry \in Entries
                  /\ j.held \/ (~Conflict(w) /\ j.pc = "write")
<1> DEFINE j == job[w]
<1>1. JobOK(j)
  BY DEF JobInv
<1>2. CASE WriteEntry(w)
  BY <1>1, <1>2 DEF WriteEntry, JobOK, WriteOK, RequestOK
<1>3. CASE Commit(w)
  BY <1>1, <1>3 DEF Commit, Effect, JobOK, WriteOK, RequestOK
<1>4. CASE CommitFails(w)
  BY <1>1, <1>4 DEF CommitFails, Effect, JobOK, WriteOK, RequestOK
<1>5. CASE Arrive(w)
  BY <1>5, ArriveShape DEF Begin
<1>6. CASE Proceed(w) /\ ~WriteEntry(w) /\ ~Commit(w)
  BY <1>6 DEF Proceed, OpenSession, RefuseEntry, List, PatchSlice, Panic, Provision, End
<1>7. CASE CallFails(w) \/ Expire(w)
  BY <1>7 DEF CallFails, Expire
<1>8. QED BY <1>2, <1>3, <1>4, <1>5, <1>6, <1>7 DEF Fails

LEMMA Copies ==
    ASSUME NEW w \in Workers, Arrive(w) \/ Proceed(w) \/ Fails(w)
    PROVE  slices' = slices \/ PatchSlice(w)
<1>1. CASE Arrive(w)
  BY <1>1, ArriveShape DEF Begin
<1>2. CASE Proceed(w)
  BY <1>2 DEF Proceed, OpenSession, RefuseEntry, WriteEntry, List, Panic, Provision,
              Commit, End
<1>3. CASE Fails(w)
  BY <1>3 DEF Fails, CallFails, CommitFails, Expire
<1>4. QED BY <1>1, <1>2, <1>3

Upf(copies) == {u \in Upfs : copies[u] # None}

LEMMA UpfFinite ==
    ASSUME NEW c, NEW d, Upf(c) \subseteq Upf(d)
    PROVE  Cardinality(Upf(d)) <= 1 => Cardinality(Upf(c)) <= 1
<1>1. IsFiniteSet(Upf(c)) /\ IsFiniteSet(Upf(d))
  BY InventoryAssumption, FS_Subset DEF Upf
<1>2. Cardinality(Upf(c)) <= Cardinality(Upf(d))
  BY <1>1, FS_Subset
<1>3. Cardinality(Upf(c)) \in Nat /\ Cardinality(Upf(d)) \in Nat
  BY <1>1, FS_CardinalityType
<1>4. QED BY <1>2, <1>3

(* What a request writes back is a slice, and its copy of the entry is the value
   asked for.                                                                 *)
LEMMA PatchedSlice ==
    ASSUME NEW j, JobOK(j), j.pc = "next", j.value # NoTac, NEW d \in j.work
    PROVE  /\ Patched(j, d[2]) \in SliceDocs
           /\ j.entry # None => Patched(j, d[2]).copies[j.entry] = j.value
<1> DEFINE b == d[2]
           p == Patched(j, d[2])
<1>1. b \in SliceDocs
  BY DEF JobOK, WorkOK
<1>2. b.copies \in [Entries -> Values \union {None}] /\ Cardinality(Upf(b.copies)) <= 1
  BY <1>1 DEF SliceDocs, Upf
<1>3. \A q \in [sst : BOOLEAN, copies : [Entries -> Values \union {None}]] :
         Upf(q.copies) \subseteq Upf(b.copies) => q \in SliceDocs
  BY <1>2, UpfFinite DEF SliceDocs, Upf
<1>4. CASE j.op \in {"post", "put"}
  <2>1. p = [b EXCEPT !.copies[j.entry] = j.value] /\ j.entry \in Entries /\ j.value \in Values
        /\ b.copies[j.entry] # None /\ None \notin Values
    BY <1>4, InventoryAssumption DEF JobOK, RequestOK, WorkOK, Patched, With
  <2>2. p \in [sst : BOOLEAN, copies : [Entries -> Values \union {None}]]
        /\ p.copies = [b.copies EXCEPT ![j.entry] = j.value]
    BY <1>1, <1>2, <2>1 DEF SliceDocs
  <2>3. Upf(p.copies) \subseteq Upf(b.copies)
    BY <1>2, <2>1, <2>2 DEF Upf, Entries
  <2>4. QED BY <1>2, <1>3, <2>1, <2>2, <2>3
<1>5. CASE j.op = "delete"
  <2>1. p = [b EXCEPT !.copies[j.entry] = None] /\ j.entry \in Entries /\ j.value = None
    BY <1>5 DEF JobOK, RequestOK, Patched, Without
  <2>2. p \in [sst : BOOLEAN, copies : [Entries -> Values \union {None}]]
        /\ p.copies = [b.copies EXCEPT ![j.entry] = None]
    BY <1>1, <1>2, <2>1 DEF SliceDocs
  <2>3. Upf(p.copies) \subseteq Upf(b.copies)
    BY <1>2, <2>1, <2>2 DEF Upf, Entries
  <2>4. QED BY <1>2, <1>3, <2>1, <2>2, <2>3
<1>6. CASE j.op = "deleteGroup"
  BY <1>1, <1>6 DEF JobOK, RequestOK, Patched
<1>7. QED BY <1>4, <1>5, <1>6 DEF JobOK, RequestOK

LEMMA TypeStep == TypeOK /\ JobInv /\ [Next]_vars => TypeOK'
<1> SUFFICES ASSUME TypeOK, JobInv, [Next]_vars
             PROVE  TypeOK'
  OBVIOUS
<1>1. faults' \in 0..MaxFaults
  BY Rest
<1>2. \A w \in Workers : job'[w].held =>
         job'[w].txn /\ ~job'[w].lost /\ job'[w].pc \in {"list", "next", "synced", "failed"}
  <2>1. JobInv'
    BY JobStep
  <2>2. QED BY <2>1 DEF JobInv, JobOK, WriteOK, Written
<1>3. inv' \in [Entries -> Values \union {NoTac, None}]
  <2>1. inv \in [Entries -> Values \union {NoTac, None}]
    BY DEF TypeOK
  <2>2. ASSUME NEW w \in Workers, Arrive(w) \/ Proceed(w) \/ Fails(w)
        PROVE  inv' \in [Entries -> Values \union {NoTac, None}]
    <3>1. RequestOK(job[w])
      BY DEF JobInv, JobOK
    <3>2. job[w].value \in Values \union {NoTac, None}
      BY <3>1 DEF RequestOK
    <3>3. QED BY <2>1, <2>2, <3>2, Document
  <2>3. ASSUME NEW s \in Slices, PutSlice(s) \/ DeleteSlice(s)
        PROVE  inv' = inv
    BY <2>3 DEF PutSlice, DeleteSlice
  <2>4. Restart \/ UNCHANGED vars => inv' = inv
    BY DEF Restart, vars
  <2>5. QED BY <2>1, <2>2, <2>3, <2>4 DEF Next
<1>4. slices' \in [Slices -> SliceDocs]
  <2>1. slices \in [Slices -> SliceDocs]
    BY DEF TypeOK
  <2>2. ASSUME NEW w \in Workers, PatchSlice(w)
        PROVE  slices' \in [Slices -> SliceDocs]
    <3>1. JobOK(job[w])
      BY DEF JobInv
    <3>2. PICK d \in job[w].work : slices' = [slices EXCEPT ![d[1]] = Patched(job[w], d[2])]
      BY <2>2, PatchShape
    <3>3. job[w].pc = "next" /\ job[w].value # NoTac
      BY <2>2, PatchShape
    <3>4. Patched(job[w], d[2]) \in SliceDocs
      BY <3>1, <3>3, PatchedSlice
    <3>5. QED BY <2>1, <3>2, <3>4
  <2>3. ASSUME NEW s \in Slices, PutSlice(s)
        PROVE  slices' \in [Slices -> SliceDocs]
    BY <2>1, <2>3 DEF PutSlice
  <2>4. ASSUME NEW s \in Slices, DeleteSlice(s)
        PROVE  slices' \in [Slices -> SliceDocs]
    <3>1. NoSlice \in SliceDocs
      <4>1. {u \in Upfs : NoSlice.copies[u] # None} = {}
        BY DEF NoSlice, Entries
      <4>2. QED BY <4>1, FS_EmptySet DEF NoSlice, SliceDocs
    <3>2. QED BY <2>1, <2>4, <3>1 DEF DeleteSlice
  <2>5. Restart \/ UNCHANGED vars => slices' = slices
    BY DEF Restart, vars
  <2>6. QED BY <2>1, <2>2, <2>3, <2>4, <2>5, Copies DEF Next
<1>5. QED BY <1>1, <1>2, <1>3, <1>4 DEF TypeOK

-----------------------------------------------------------------------------
(* One transaction at a time for every entry. *)

(* A worker that has a written document after its step had it before, or nobody
   had; and its step has not changed any document.                            *)
LEMMA Holding ==
    ASSUME JobInv, NEW w \in Workers, Arrive(w) \/ Proceed(w) \/ Fails(w), job'[w].held
    PROVE  /\ inv' = inv
           /\ job'[w].entry = job[w].entry /\ job'[w].op = job[w].op
           /\ job[w].held \/ (~Conflict(w) /\ ~Duplicate(w))
<1> DEFINE j == job[w]
           n == job'[w]
<1>1. CASE Arrive(w)
  BY <1>1, ArriveShape, BeginShape DEF Fresh
<1>2. CASE OpenSession(w)
  BY <1>2, OpenShape DEF OpenSession, Kept
<1>3. CASE RefuseEntry(w)
  BY <1>3, RefuseShape DEF Refusal
<1>4. CASE WriteEntry(w)
  BY <1>4, WriteShape DEF WriteEntry, Kept
<1>5. CASE List(w)
  BY <1>5, ListShape DEF List, Kept, KeptTxn
<1>6. CASE PatchSlice(w)
  BY <1>6, PatchShape DEF PatchSlice, Kept, KeptTxn
<1>7. CASE Panic(w)
  BY <1>7, PanicShape DEF Refusal
<1>8. CASE Provision(w)
  BY <1>8, ProvisionShape DEF Provision, Refusal, Kept, KeptTxn
<1>9. CASE Commit(w)
  BY <1>9, CommitShape DEF Refusal
<1>10. CASE End(w)
  BY <1>10, EndShape DEF Idle
<1>11. CASE CallFails(w)
  BY <1>11, CallFailsShape DEF CallFails, Refusal, Kept, KeptTxn
<1>12. CASE CommitFails(w)
  BY <1>12, CommitFailsShape DEF Refusal
<1>13. CASE Expire(w)
  BY <1>13, ExpireShape
<1>14. QED
  BY <1>1, <1>2, <1>3, <1>4, <1>5, <1>6, <1>7, <1>8, <1>9, <1>10, <1>11, <1>12, <1>13
  DEF Proceed, Fails

LEMMA HoldStep == TypeOK /\ JobInv /\ HoldInv /\ [Next]_vars => HoldInv'
<1> SUFFICES ASSUME TypeOK, JobInv, HoldInv, [Next]_vars
             PROVE  HoldInv'
  OBVIOUS
<1>1. ASSUME NEW w \in Workers, Arrive(w) \/ Proceed(w) \/ Fails(w)
      PROVE  HoldInv'
  <2>1. \A v \in Workers \ {w} :
           job'[v].held = job[v].held /\ job'[v].entry = job[v].entry /\ job'[v].op = job[v].op
    BY <1>1, WorkerJob DEF Lowered, KeptTxn
  <2>2. \A v \in Workers \ {w} : job[v].held /\ job[v].entry = job[w].entry =>
           Conflict(w) /\ ~job[w].held
    BY DEF HoldInv, Conflict
  <2>3. ASSUME NEW u \in Workers, NEW v \in Workers, job'[u].held, job'[v].held,
               job'[u].entry = job'[v].entry
        PROVE  u = v
    BY <1>1, <2>1, <2>2, <2>3, Holding DEF HoldInv
  <2>4. ASSUME NEW v \in Workers, job'[v].held, job'[v].op = "post"
        PROVE  inv'[job'[v].entry] = None
    <3>1. CASE v = w
      BY <1>1, <2>4, <3>1, Holding DEF HoldInv, Duplicate
    <3>2. CASE v # w
      <4>1. job[v].held /\ job[v].op = "post" /\ job'[v].entry = job[v].entry
        BY <2>1, <2>4, <3>2
      <4>2. inv[job[v].entry] = None
        BY <4>1 DEF HoldInv
      <4>3. inv' = inv \/ (inv' = [inv EXCEPT ![job[w].entry] = job[w].value]
                           /\ job[v].entry # job[w].entry)
        BY <1>1, <2>2, <3>2, <4>1, Document
      <4>4. job[v].entry \in DOMAIN inv
        BY <4>1 DEF JobInv, JobOK, WriteOK, RequestOK, TypeOK
      <4>5. QED BY <4>1, <4>2, <4>3, <4>4
    <3>3. QED BY <3>1, <3>2
  <2>5. QED BY <2>3, <2>4 DEF HoldInv
<1>2. ASSUME NEW s \in Slices, PutSlice(s) \/ DeleteSlice(s)
      PROVE  HoldInv'
  <2>1. Intrude /\ inv' = inv
    BY <1>2 DEF PutSlice, DeleteSlice
  <2>2. \A v \in Workers :
           job'[v].held = job[v].held /\ job'[v].entry = job[v].entry /\ job'[v].op = job[v].op
    BY <2>1, IntrudeShape DEF Lowered, KeptTxn
  <2>3. QED BY <2>1, <2>2 DEF HoldInv
<1>3. CASE Restart
  BY <1>3 DEF Restart, HoldInv, Idle
<1>4. CASE UNCHANGED vars
  BY <1>4 DEF vars, HoldInv
<1>5. QED BY <1>1, <1>2, <1>3, <1>4 DEF Next

-----------------------------------------------------------------------------
(* Which requests overlap. *)

LEMMA Progress ==
    ASSUME JobInv, NEW w \in Workers, Proceed(w) \/ CallFails(w) \/ CommitFails(w)
    PROVE  LET j == job[w]
               n == job'[w]
           IN  /\ OnlyJob(w) /\ j.pc # "idle"
               /\ n = Idle \/ (Kept(n, j) /\ n.lost = j.lost)
<1>1. CASE OpenSession(w)
  BY <1>1, OpenShape
<1>2. CASE RefuseEntry(w)
  BY <1>2, RefuseShape DEF Refusal
<1>3. CASE WriteEntry(w)
  BY <1>3, WriteShape
<1>4. CASE List(w)
  BY <1>4, ListShape DEF KeptTxn
<1>5. CASE PatchSlice(w)
  BY <1>5, PatchShape DEF KeptTxn
<1>6. CASE Panic(w)
  BY <1>6, PanicShape DEF Refusal
<1>7. CASE Provision(w)
  BY <1>7, ProvisionShape DEF Refusal, KeptTxn
<1>8. CASE Commit(w)
  BY <1>8, CommitShape DEF Refusal
<1>9. CASE End(w)
  BY <1>9, EndShape
<1>10. CASE CallFails(w)
  BY <1>10, CallFailsShape DEF Refusal, KeptTxn
<1>11. CASE CommitFails(w)
  BY <1>11, CommitFailsShape DEF Refusal
<1>12. QED
  BY <1>1, <1>2, <1>3, <1>4, <1>5, <1>6, <1>7, <1>8, <1>9, <1>10, <1>11 DEF Proceed

LEMMA OverlapStep == JobInv /\ OverlapInv /\ [Next]_vars => OverlapInv'
<1> SUFFICES ASSUME JobInv, OverlapInv, [Next]_vars,
                    NEW a \in Workers, NEW b \in Workers \ {a}
             PROVE  /\ job'[a].alone => job'[b].pc = "idle"
                    /\ job'[a].apart /\ job'[a].entry # None =>
                          \/ job'[b].pc = "idle"
                          \/ job'[b].entry = job'[a].entry /\ ~job'[b].lost
  BY DEF OverlapInv
<1>1. /\ job[a].alone => job[b].pc = "idle"
      /\ job[a].apart /\ job[a].entry # None =>
            job[b].pc = "idle" \/ (job[b].entry = job[a].entry /\ ~job[b].lost)
  BY DEF OverlapInv
<1>2. ASSUME NEW w \in Workers, Arrive(w)
      PROVE  /\ job'[a].alone => job'[b].pc = "idle"
             /\ job'[a].apart /\ job'[a].entry # None =>
                   \/ job'[b].pc = "idle"
                   \/ job'[b].entry = job'[a].entry /\ ~job'[b].lost
  <2>1. PICK r : Fresh(r) /\ Begin(w, r)
    BY <1>2, ArriveShape
  <2>2. \A v \in Workers \ {w} :
           /\ job'[v].pc = job[v].pc /\ job'[v].entry = job[v].entry
           /\ job'[v].lost = job[v].lost /\ job'[v].alone = FALSE
           /\ job'[v].apart => job[v].apart /\ job[v].entry = r.entry
    <3>1. \A v \in Workers \ {w} :
             /\ Lowered(job'[v], job[v]) /\ job'[v].alone = FALSE
             /\ job'[v].apart => job[v].entry = r.entry
      BY <2>1, BeginShape
    <3>2. \A n, j : Lowered(n, j) => /\ n.pc = j.pc /\ n.entry = j.entry /\ n.lost = j.lost
                                     /\ n.apart => j.apart
      BY DEF Lowered, KeptTxn
    <3>3. QED BY <3>1, <3>2
  <2>3. /\ job'[w].entry = r.entry /\ job'[w].lost = FALSE
        /\ job'[w].alone => \A v \in Workers \ {w} : job[v].pc = "idle"
        /\ job'[w].apart => \A v \in Workers \ {w} :
              job[v].pc = "idle" \/ (job[v].entry = r.entry /\ ~job[v].lost)
    <3>1. Fresh(job'[w]) /\ job'[w].entry = r.entry
      BY <2>1, BeginShape
    <3>2. job'[w].alone => \A v \in Workers \ {w} : job[v].pc = "idle"
      BY <2>1, BeginShape
    <3>3. job'[w].apart => \A v \in Workers \ {w} :
             job[v].pc = "idle" \/ (job[v].entry = r.entry /\ ~job[v].lost)
      BY <2>1, BeginShape
    <3>4. QED BY <3>1, <3>2, <3>3 DEF Fresh
  <2>4. CASE a = w
    BY <2>2, <2>3, <2>4
  <2>5. CASE b = w
    BY <2>2, <2>3, <2>5
  <2>6. CASE a # w /\ b # w
    BY <1>1, <2>2, <2>6
  <2>7. QED BY <2>4, <2>5, <2>6
<1>3. ASSUME NEW w \in Workers, Proceed(w) \/ CallFails(w) \/ CommitFails(w)
      PROVE  /\ job'[a].alone => job'[b].pc = "idle"
             /\ job'[a].apart /\ job'[a].entry # None =>
                   \/ job'[b].pc = "idle"
                   \/ job'[b].entry = job'[a].entry /\ ~job'[b].lost
  <2>1. CASE a = w
    BY <1>1, <1>3, <2>1, Progress DEF OnlyJob, Kept, Idle
  <2>2. CASE b = w
    BY <1>1, <1>3, <2>2, Progress DEF OnlyJob, Kept, Idle
  <2>3. CASE a # w /\ b # w
    BY <1>1, <1>3, <2>3, Progress DEF OnlyJob
  <2>4. QED BY <2>1, <2>2, <2>3
<1>4. ASSUME NEW w \in Workers, Expire(w)
      PROVE  /\ job'[a].alone => job'[b].pc = "idle"
             /\ job'[a].apart /\ job'[a].entry # None =>
                   \/ job'[b].pc = "idle"
                   \/ job'[b].entry = job'[a].entry /\ ~job'[b].lost
  <2>1. CASE a = w
    BY <1>1, <1>4, <2>1, ExpireShape DEF Kept, Lowered, KeptTxn
  <2>2. CASE a # w
    BY <1>1, <1>4, <2>2, ExpireShape DEF Lowered
  <2>3. QED BY <2>1, <2>2
<1>5. ASSUME NEW s \in Slices, PutSlice(s) \/ DeleteSlice(s)
      PROVE  ~job'[a].alone /\ ~job'[a].apart
  BY <1>5, IntrudeShape DEF PutSlice, DeleteSlice
<1>6. CASE Restart
  BY <1>6 DEF Restart, Idle
<1>7. CASE UNCHANGED vars
  BY <1>1, <1>7 DEF vars
<1>8. QED BY <1>2, <1>3, <1>4, <1>5, <1>6, <1>7 DEF Next, Fails

(* When a worker takes a step, no other is alone after it. *)
LEMMA NotAlone ==
    ASSUME JobInv, OverlapInv, NEW w \in Workers, Arrive(w) \/ Proceed(w) \/ Fails(w),
           NEW v \in Workers \ {w}
    PROVE  ~job'[v].alone
<1>1. CASE Arrive(w)
  BY <1>1, ArriveShape, BeginShape
<1>2. CASE Proceed(w) \/ CallFails(w) \/ CommitFails(w)
  BY <1>2, Progress DEF OverlapInv, OnlyJob
<1>3. CASE Expire(w)
  BY <1>3, ExpireShape DEF OverlapInv, Lowered, Written
<1>4. QED BY <1>1, <1>2, <1>3 DEF Fails

-----------------------------------------------------------------------------
(* Undisturbed requests and the slices. *)

Follows(docs, j) ==
    Undisturbed(j) /\ j.entry # None /\ j.pc \in Looping =>
        \A s \in Slices : docs[s].copies[j.entry] \in {j.value, None} \/ s \in Left(j)

(* A request whose loop goes on without a write. *)
LEMMA StillFollows ==
    ASSUME NEW docs, NEW j, NEW n, Follows(docs, j), j.pc \in Looping,
           n.entry = j.entry, n.value = j.value, n.work = j.work,
           n.alone => j.alone, n.apart => j.apart, n.held => j.held
    PROVE  Follows(docs, n)
BY DEF Follows, Undisturbed, Left

LEMMA LeftListed ==
    ASSUME NEW n, NEW found, n.work = {<<s, slices[s]>> : s \in found}
    PROVE  Left(n) = found
<1>1. \A s \in found : s \in Left(n)
  <2> SUFFICES ASSUME NEW s \in found
               PROVE  s \in Left(n)
    OBVIOUS
  <2>1. <<s, slices[s]>> \in n.work /\ <<s, slices[s]>>[1] = s
    OBVIOUS
  <2>2. QED BY <2>1 DEF Left
<1>2. \A d \in n.work : d[1] \in found
  OBVIOUS
<1>3. QED BY <1>1, <1>2 DEF Left

(* The step of its own worker. *)
LEMMA OwnFollows ==
    ASSUME TypeOK, JobInv, NEW w \in Workers, Follows(slices, job[w]),
           Arrive(w) \/ Proceed(w) \/ Fails(w)
    PROVE  Follows(slices', job'[w])
<1> DEFINE j == job[w]
           n == job'[w]
<1>1. CASE Arrive(w)
  <2>1. n.pc \in {"session", "list"}
    BY <1>1, ArriveShape, BeginShape DEF Fresh
  <2>2. QED BY <2>1 DEF Follows, Looping
<1>2. CASE n.pc \in {"write", "list", "end", "idle"}
  BY <1>2 DEF Follows, Looping
<1>3. CASE OpenSession(w) \/ RefuseEntry(w) \/ WriteEntry(w) \/ Panic(w) \/ Commit(w) \/ End(w)
           \/ CommitFails(w)
  <2>1. n.pc \in {"write", "list", "end", "idle"}
    <3>1. OpenSession(w) => n.pc = "write"
      BY OpenShape
    <3>2. RefuseEntry(w) => n.pc = "end"
      BY RefuseShape DEF Refusal
    <3>3. WriteEntry(w) => n.pc = "list"
      BY WriteShape
    <3>4. Panic(w) => n.pc = "end"
      BY PanicShape DEF Refusal
    <3>5. Commit(w) => n.pc = "end"
      BY CommitShape DEF Refusal
    <3>6. End(w) => n.pc = "idle"
      BY EndShape DEF Idle
    <3>7. CommitFails(w) => n.pc = "end"
      BY CommitFailsShape DEF Refusal
    <3>8. QED BY <1>3, <3>1, <3>2, <3>3, <3>4, <3>5, <3>6, <3>7
  <2>2. QED BY <1>2, <2>1
<1>4. CASE List(w)
  <2>1. Kept(n, j) /\ slices' = slices /\ RequestOK(j)
    BY <1>4, ListShape DEF List, JobInv, JobOK
  <2>2. PICK found \in SUBSET Slices :
           /\ j.op # "deleteGroup" => found = Naming(j.entry)
           /\ n.work = {<<s, slices[s]>> : s \in found}
    BY <1>4, ListShape
  <2>3. Left(n) = found
    BY <2>2, LeftListed
  <2>4. n.entry # None => found = Naming(n.entry)
    BY <2>1, <2>2 DEF Kept, RequestOK
  <2>5. QED BY <2>1, <2>3, <2>4 DEF Follows, Naming
<1>5. CASE PatchSlice(w)
  <2>1. Kept(n, j) /\ KeptTxn(n, j) /\ j.pc = "next" /\ j.value # NoTac /\ JobOK(j)
    BY <1>5, PatchShape DEF JobInv
  <2>2. PICK d \in j.work : /\ slices' = [slices EXCEPT ![d[1]] = Patched(j, d[2])]
                            /\ n.work = j.work \ {d}
    BY <1>5, PatchShape
  <2>3. d[1] \in Slices /\ DOMAIN slices = Slices
    BY <2>1 DEF JobOK, WorkOK, TypeOK
  <2>4. j.entry # None => Patched(j, d[2]).copies[j.entry] = j.value
    BY <2>1, PatchedSlice
  <2>5. \A s \in Slices : s \in Left(j) => s = d[1] \/ s \in Left(n)
    BY <2>2 DEF Left
  <2>6. \A s \in Slices : slices'[s] = IF s = d[1] THEN Patched(j, d[2]) ELSE slices[s]
    BY <2>2, <2>3
  <2>7. n.entry = j.entry /\ n.value = j.value /\ (Undisturbed(n) => Undisturbed(j))
        /\ j.pc \in Looping
    BY <2>1 DEF Kept, KeptTxn, Undisturbed, Looping
  <2>8. Follows(slices, j)
    OBVIOUS
  <2> HIDE DEF j, n
  <2>9. Follows(slices', n)
    BY <2>4, <2>5, <2>6, <2>7, <2>8 DEF Follows
  <2>10. QED BY <2>9 DEF n
<1>6. CASE Provision(w)
  <2>1. CASE Refusal(n, j)
    BY <1>2, <2>1 DEF Refusal
  <2>2. CASE ~Refusal(n, j)
    <3>1. Kept(n, j) /\ KeptTxn(n, j) /\ KeptWork(n, j) /\ j.pc \in Looping
      BY <1>6, <2>2, ProvisionShape DEF Looping
    <3>2. slices' = slices
      BY <1>6 DEF Provision
    <3>3. Follows(slices, n)
      BY <3>1, StillFollows DEF Kept, KeptTxn, KeptWork
    <3>4. QED BY <3>2, <3>3
  <2>3. QED BY <2>1, <2>2
<1>7. CASE CallFails(w)
  <2>1. CASE Refusal(n, j)
    BY <1>2, <2>1 DEF Refusal
  <2>2. CASE ~Refusal(n, j)
    <3>1. Kept(n, j) /\ j.op = "deleteGroup"
      BY <1>7, <2>2, CallFailsShape
    <3>2. RequestOK(j)
      BY DEF JobInv, JobOK
    <3> HIDE DEF j, n
    <3>3. n.entry = None
      BY <3>1, <3>2 DEF Kept, RequestOK
    <3>4. Follows(slices', n)
      BY <3>3 DEF Follows
    <3>5. QED BY <3>4 DEF n
  <2>3. QED BY <2>1, <2>2
<1>8. CASE Expire(w)
  <2>1. slices' = slices
    BY <1>8 DEF Expire
  <2>2. Kept(n, j) /\ KeptWork(n, j) /\ n.pc = j.pc /\ n.held = FALSE
    BY <1>8, ExpireShape
  <2>3. CASE j.pc \in Looping
    <3>1. Follows(slices, n)
      BY <2>2, <2>3, StillFollows DEF Kept, KeptWork
    <3>2. QED BY <2>1, <3>1
  <2>4. CASE j.pc \notin Looping
    BY <2>2, <2>4 DEF Follows
  <2>5. QED BY <2>3, <2>4
<1>9. QED BY <1>1, <1>3, <1>4, <1>5, <1>6, <1>7, <1>8 DEF Proceed, Fails

(* The step of another worker: one that writes a slice while this request holds
   its entry takes the copy away.                                             *)
LEMMA OtherFollows ==
    ASSUME TypeOK, JobInv, HoldInv, OverlapInv, NEW w \in Workers, NEW v \in Workers \ {w},
           Follows(slices, job[v]), Arrive(w) \/ Proceed(w) \/ Fails(w)
    PROVE  Follows(slices', job'[v])
<1> DEFINE j == job[v]
           n == job'[v]
<1>1. Lowered(n, j) /\ ~n.alone
  BY WorkerJob, NotAlone
<1>2. CASE j.pc \notin Looping
  BY <1>1, <1>2 DEF Follows, Lowered
<1>3. CASE j.pc \in Looping /\ slices' = slices
  <2>1. Follows(slices, n)
    BY <1>1, <1>3, StillFollows DEF Lowered, KeptTxn, KeptWork
  <2>2. QED BY <1>3, <2>1
<1>4. CASE j.pc \in Looping /\ PatchSlice(w)
  <2> SUFFICES ASSUME n.held, n.apart, n.entry # None, NEW s \in Slices
               PROVE  slices'[s].copies[n.entry] \in {n.value, None} \/ s \in Left(n)
    BY <1>1 DEF Follows, Undisturbed
  <2>1. j.held /\ j.apart /\ n.entry = j.entry /\ n.value = j.value /\ n.work = j.work
    BY <1>1 DEF Lowered, KeptTxn, KeptWork
  <2>2. slices[s].copies[n.entry] \in {n.value, None} \/ s \in Left(n)
    BY <1>4, <2>1 DEF Follows, Undisturbed, Left
  <2>3. job[w].pc = "next" /\ job[w].value # NoTac /\ JobOK(job[w]) /\ JobOK(j)
    BY <1>4, PatchShape DEF JobInv
  <2>4. job[w].entry = j.entry /\ ~job[w].lost
    BY <2>1, <2>3 DEF OverlapInv
  <2>5. ~job[w].held
    BY <2>1, <2>4 DEF HoldInv
  <2>6. job[w].did /\ job[w].txn
    BY <2>1, <2>3, <2>4, <2>5 DEF JobOK, WriteOK, Written
  <2>7. job[w].value = None
    BY <2>1, <2>3, <2>4, <2>6 DEF JobOK, WriteOK, RequestOK, Written
  <2>8. PICK d \in job[w].work : slices' = [slices EXCEPT ![d[1]] = Patched(job[w], d[2])]
    BY <1>4, PatchShape
  <2>9. Patched(job[w], d[2]).copies[n.entry] = None
    BY <2>1, <2>3, <2>4, <2>7, PatchedSlice
  <2>10. slices'[s] = Patched(job[w], d[2]) \/ slices'[s] = slices[s]
    BY <2>8 DEF TypeOK
  <2>11. QED BY <2>2, <2>9, <2>10
<1>5. QED BY <1>2, <1>3, <1>4, Copies

LEMMA FollowStep ==
    TypeOK /\ JobInv /\ HoldInv /\ OverlapInv /\ FollowInv /\ [Next]_vars => FollowInv'
<1> SUFFICES ASSUME TypeOK, JobInv, HoldInv, OverlapInv, FollowInv, [Next]_vars,
                    NEW v \in Workers
             PROVE  Follows(slices', job'[v])
  BY DEF FollowInv, Follows, Undisturbed, Left
<1>1. Follows(slices, job[v])
  BY DEF FollowInv, Follows
<1>2. ASSUME NEW w \in Workers, Arrive(w) \/ Proceed(w) \/ Fails(w)
      PROVE  Follows(slices', job'[v])
  BY <1>1, <1>2, OwnFollows, OtherFollows
<1>3. ASSUME NEW s \in Slices, PutSlice(s) \/ DeleteSlice(s)
      PROVE  Follows(slices', job'[v])
  <2>1. ~job'[v].alone /\ ~job'[v].apart
    BY <1>3, IntrudeShape DEF PutSlice, DeleteSlice
  <2>2. QED BY <2>1 DEF Follows, Undisturbed
<1>4. CASE Restart
  BY <1>4 DEF Restart, Idle, Follows
<1>5. CASE UNCHANGED vars
  BY <1>1, <1>5 DEF vars
<1>6. QED BY <1>2, <1>3, <1>4, <1>5 DEF Next

-----------------------------------------------------------------------------
(* Deletions make progress. *)

LEMMA LeftFinite ==
    ASSUME NEW j, JobOK(j)
    PROVE  IsFiniteSet(Left(j)) /\ Cardinality(Left(j)) \in Nat
<1>1. Left(j) \in SUBSET Slices
  BY DEF JobOK, WorkOK, Left
<1>2. IsFiniteSet(Left(j))
  BY <1>1, InventoryAssumption, FS_Subset
<1>3. QED BY <1>2, FS_CardinalityType

Advances(j) ==
    j.alone /\ j.op = "delete" /\ j.pc \in Looping =>
        /\ Cardinality(Left(j)) <= j.named
        /\ j.pc = "failed" => Cardinality(Left(j)) < j.named
        /\ j.named \in Nat

LEMMA OwnAdvances ==
    ASSUME TypeOK, JobInv, NEW w \in Workers, Advances(job[w]),
           Arrive(w) \/ Proceed(w) \/ Fails(w)
    PROVE  Advances(job'[w])
<1> DEFINE j == job[w]
           n == job'[w]
<1>1. CASE Arrive(w)
  <2>1. n.pc \in {"session", "list"}
    BY <1>1, ArriveShape, BeginShape DEF Fresh
  <2>2. QED BY <2>1 DEF Advances, Looping
<1>2. CASE n.pc \in {"write", "list", "end", "idle"}
  BY <1>2 DEF Advances, Looping
<1>3. OpenSession(w) => n.pc = "write"
  BY OpenShape
<1>4. RefuseEntry(w) \/ Panic(w) \/ CommitFails(w) => n.pc = "end"
  BY RefuseShape, PanicShape, CommitFailsShape DEF Refusal
<1>5. WriteEntry(w) => n.pc = "list"
  BY WriteShape
<1>6. Commit(w) => n.pc = "end"
  BY CommitShape DEF Refusal
<1>7. End(w) => n.pc = "idle"
  BY EndShape DEF Idle
<1>8. CASE List(w)
  <2>1. PICK found \in SUBSET Slices : /\ n.work = {<<s, slices[s]>> : s \in found}
                                       /\ n.named = Cardinality(found)
    BY <1>8, ListShape
  <2>2. Left(n) = found
    BY <2>1, LeftListed
  <2>3. Cardinality(found) \in Nat
    BY InventoryAssumption, FS_Subset, FS_CardinalityType
  <2>4. n.pc = "next"
    BY <1>8, ListShape
  <2>5. QED BY <2>1, <2>2, <2>3, <2>4 DEF Advances
<1>9. CASE PatchSlice(w)
  <2>1. Kept(n, j) /\ j.pc = "next" /\ JobOK(j) /\ n.named = j.named
    BY <1>9, PatchShape DEF JobInv
  <2>2. PICK d \in j.work : n.work = j.work \ {d}
    BY <1>9, PatchShape
  <2>3. Left(n) = Left(j) \ {d[1]} /\ d[1] \in Left(j)
    BY <2>1, <2>2 DEF JobOK, WorkOK, Left
  <2>4. IsFiniteSet(Left(j)) /\ Cardinality(Left(j)) \in Nat
    BY <2>1, LeftFinite
  <2>5. Cardinality(Left(n)) = Cardinality(Left(j)) - 1
    BY <2>3, <2>4, FS_RemoveElement
  <2>6. Advances(j) /\ n.alone = j.alone /\ n.op = j.op
    BY <2>1 DEF Kept
  <2> HIDE DEF j, n
  <2>7. Advances(n)
    BY <2>1, <2>4, <2>5, <2>6 DEF Advances, Looping
  <2>8. QED BY <2>7 DEF n
<1>10. CASE Provision(w)
  <2>1. CASE Refusal(n, j)
    BY <1>2, <2>1 DEF Refusal
  <2>2. CASE ~Refusal(n, j)
    <3>1. Kept(n, j) /\ KeptWork(n, j) /\ n.pc = "next" /\ j.pc \in {"synced", "failed"}
      BY <1>10, <2>2, ProvisionShape
    <3>2. QED BY <3>1 DEF Advances, Kept, KeptWork, Left, Looping
  <2>3. QED BY <2>1, <2>2
<1>11. CASE CallFails(w)
  <2>1. CASE Refusal(n, j)
    BY <1>2, <2>1 DEF Refusal
  <2>2. CASE ~Refusal(n, j)
    <3>1. n.op = "deleteGroup"
      BY <1>11, <2>2, CallFailsShape DEF Kept
    <3>2. QED BY <3>1 DEF Advances
  <2>3. QED BY <2>1, <2>2
<1>12. CASE Expire(w)
  BY <1>12, ExpireShape DEF Advances, Kept, KeptWork, Left
<1>13. QED
  BY <1>1, <1>2, <1>3, <1>4, <1>5, <1>6, <1>7, <1>8, <1>9, <1>10, <1>11, <1>12
  DEF Proceed, Fails

LEMMA AdvanceStep ==
    TypeOK /\ JobInv /\ OverlapInv /\ AdvanceInv /\ [Next]_vars => AdvanceInv'
<1> SUFFICES ASSUME TypeOK, JobInv, OverlapInv, AdvanceInv, [Next]_vars,
                    NEW v \in Workers
             PROVE  Advances(job'[v])
  BY DEF AdvanceInv, Advances, Left
<1>1. Advances(job[v])
  BY DEF AdvanceInv, Advances
<1>2. ASSUME NEW w \in Workers, Arrive(w) \/ Proceed(w) \/ Fails(w)
      PROVE  Advances(job'[v])
  <2>1. CASE v = w
    BY <1>1, <1>2, <2>1, OwnAdvances
  <2>2. CASE v # w
    BY <1>2, <2>2, NotAlone DEF Advances
  <2>3. QED BY <2>1, <2>2
<1>3. ASSUME NEW s \in Slices, PutSlice(s) \/ DeleteSlice(s)
      PROVE  ~job'[v].alone
  BY <1>3, IntrudeShape DEF PutSlice, DeleteSlice
<1>4. CASE Restart
  BY <1>4 DEF Restart, Idle, Advances
<1>5. CASE UNCHANGED vars
  BY <1>1, <1>5 DEF vars
<1>6. QED BY <1>2, <1>3, <1>4, <1>5 DEF Next, Advances

NamingIn(docs, e) == {s \in Slices : docs[s].copies[e] # None}

LEMMA DeletionStep ==
    TypeOK /\ JobInv /\ OverlapInv /\ FollowInv /\ AdvanceInv /\ DeletionAdvances /\ [Next]_vars
      => DeletionAdvances'
<1> SUFFICES ASSUME TypeOK, JobInv, OverlapInv, FollowInv, AdvanceInv, DeletionAdvances,
                    [Next]_vars, NEW v \in Workers,
                    job'[v].pc = "end", job'[v].op = "delete", job'[v].err, ~job'[v].hurt,
                    job'[v].alone
             PROVE  Cardinality(NamingIn(slices', job'[v].entry)) < job'[v].named
  BY DEF DeletionAdvances, Naming, NamingIn
<1> DEFINE j == job[v]
           n == job'[v]
<1>1. JobOK(j)
  BY DEF JobInv
<1>2. ASSUME NEW w \in Workers, Arrive(w) \/ Proceed(w) \/ Fails(w)
      PROVE  Cardinality(NamingIn(slices', n.entry)) < n.named
  <2>1. v = w
    BY <1>2, NotAlone
  <2>2. ~Arrive(v)
    BY ArriveShape, BeginShape DEF Fresh
  <2>3. ~OpenSession(v) /\ ~WriteEntry(v) /\ ~List(v) /\ ~PatchSlice(v)
    BY OpenShape, WriteShape, ListShape, PatchShape
  <2>4. ~RefuseEntry(v)
    <3>1. SUFFICES ASSUME RefuseEntry(v) PROVE FALSE
      OBVIOUS
    <3>2. j.alone /\ j.op = "delete"
      BY <3>1, RefuseShape DEF Refusal, Kept
    <3>3. \A u \in Workers \ {v} : ~job[u].held
      BY <3>2 DEF OverlapInv, JobInv, JobOK, WriteOK, Written
    <3>4. QED BY <3>1, <3>2, <3>3 DEF RefuseEntry, Conflict, Duplicate
  <2>5. ~Panic(v)
    BY <1>1, PanicShape, InventoryAssumption DEF Refusal, Kept, JobOK, RequestOK
  <2>6. ~Commit(v)
    <3>1. SUFFICES ASSUME Commit(v) PROVE FALSE
      OBVIOUS
    <3>2. CASE j.lost
      BY <1>1, <3>1, <3>2, CommitShape DEF JobOK, WriteOK
    <3>3. CASE ~j.lost
      BY <1>1, <3>1, <3>3, CommitShape DEF JobOK, WriteOK, RequestOK, Kept, KeptErr
    <3>4. QED BY <3>2, <3>3
  <2>7. ~End(v)
    BY EndShape DEF Idle
  <2>8. ~CallFails(v) /\ ~CommitFails(v)
    BY CallFailsShape, CommitFailsShape
  <2>9. ~Expire(v)
    BY ExpireShape DEF Written
  <2>10. Provision(v)
    BY <1>2, <2>1, <2>2, <2>3, <2>4, <2>5, <2>6, <2>7, <2>8, <2>9 DEF Proceed, Fails
  <2>11. Refusal(n, j) /\ j.pc = "failed"
    BY <2>10, ProvisionShape
  <2>12. n.entry = j.entry /\ n.named = j.named /\ j.alone /\ j.op = "delete"
    BY <2>11 DEF Refusal, Kept
  <2>13. slices' = slices
    BY <2>10 DEF Provision
  <2>14. j.entry # None /\ j.value = None
    BY <1>1, <2>12, InventoryAssumption DEF JobOK, RequestOK
  <2>15. Naming(j.entry) \subseteq Left(j)
    BY <2>11, <2>12, <2>14 DEF FollowInv, Undisturbed, Looping, Naming
  <2>16. Cardinality(Naming(j.entry)) <= Cardinality(Left(j))
         /\ Cardinality(Naming(j.entry)) \in Nat /\ Cardinality(Left(j)) \in Nat
    BY <1>1, <2>15, LeftFinite, FS_Subset, FS_CardinalityType
  <2>17. Cardinality(Left(j)) < j.named /\ j.named \in Nat
    BY <2>11, <2>12 DEF AdvanceInv, Looping
  <2>18. Cardinality(Naming(j.entry)) < j.named
    BY <2>16, <2>17
  <2>19. NamingIn(slices', n.entry) = Naming(j.entry)
    BY <2>12, <2>13 DEF Naming, NamingIn
  <2>20. QED BY <2>12, <2>18, <2>19
<1>3. ASSUME NEW s \in Slices, PutSlice(s) \/ DeleteSlice(s)
      PROVE  FALSE
  BY <1>3, IntrudeShape DEF PutSlice, DeleteSlice
<1>4. ~Restart
  BY DEF Restart, Idle
<1>5. CASE UNCHANGED vars
  BY <1>5 DEF vars, DeletionAdvances, Naming, NamingIn
<1>6. QED BY <1>2, <1>3, <1>4, <1>5 DEF Next

-----------------------------------------------------------------------------
(* The invariant holds in every reachable state. *)
THEOREM InventoryInvariant == Spec => []InventoryInv
<1>1. Init => InventoryInv
  <2> SUFFICES ASSUME Init PROVE InventoryInv
    OBVIOUS
  <2>1. \A w \in Workers : job[w] = Idle
    BY DEF Init
  <2>2. NoSlice \in SliceDocs
    <3>1. {u \in Upfs : NoSlice.copies[u] # None} = {}
      BY DEF NoSlice, Entries
    <3>2. QED BY <3>1, FS_EmptySet DEF NoSlice, SliceDocs
  <2>3. TypeOK
    BY <2>1, <2>2, InventoryAssumption DEF Init, TypeOK, Idle
  <2>4. JobInv
    BY <2>1, IdleOK DEF Init, JobInv
  <2>5. HoldInv /\ OverlapInv /\ FollowInv /\ AdvanceInv /\ DeletionAdvances
    BY <2>1 DEF Idle, HoldInv, OverlapInv, FollowInv, AdvanceInv, DeletionAdvances, Looping
  <2>6. QED BY <2>3, <2>4, <2>5 DEF InventoryInv
<1>2. InventoryInv /\ [Next]_vars => InventoryInv'
  BY TypeStep, JobStep, HoldStep, OverlapStep, FollowStep, AdvanceStep, DeletionStep
  DEF InventoryInv
<1>3. QED BY <1>1, <1>2, PTL DEF Spec

(* The documents, slices and transactions keep their types: in particular no
   patch of a copy gives a slice a second UPF.                                *)
THEOREM TypeCorrect == Spec => []TypeOK
<1>1. InventoryInv => TypeOK
  BY DEF InventoryInv
<1>2. QED BY <1>1, InventoryInvariant, PTL

(* A deletion that ran alone and failed for a slice that cannot be provisioned has
   left fewer slices with the entry.                                          *)
THEOREM DeletionAdvancesAlways == Spec => []DeletionAdvances
<1>1. InventoryInv => DeletionAdvances
  BY DEF InventoryInv
<1>2. QED BY <1>1, InventoryInvariant, PTL

(* When an undisturbed request succeeds, no copy of its entry has another value. *)
THEOREM CopiesAlwaysFollow == Spec => CopiesFollow
<1>1. InventoryInv /\ [Next]_vars =>
         [\A w \in Workers :
            (Succeeds(w) /\ job[w].entry # None /\ Undisturbed(job[w])) =>
               \A s \in Slices : slices'[s].copies[job[w].entry] \in {job[w].value, None}]_vars
  <2> SUFFICES ASSUME InventoryInv, Next, NEW v \in Workers,
                      Succeeds(v), job[v].entry # None, Undisturbed(job[v]),
                      NEW s \in Slices
               PROVE  slices'[s].copies[job[v].entry] \in {job[v].value, None}
    OBVIOUS
  <2> USE DEF InventoryInv
  <2> DEFINE j == job[v]
             n == job'[v]
  <2>1. j.pc # "end" /\ n.pc = "end" /\ ~n.err /\ JobOK(j)
    BY DEF Succeeds, JobInv
  <2>2. ASSUME NEW w \in Workers, Arrive(w) \/ Proceed(w) \/ Fails(w)
        PROVE  slices'[s].copies[j.entry] \in {j.value, None}
    <3>1. v = w
      BY <2>1, <2>2, WorkerJob DEF Lowered
    <3>2. ~Arrive(v)
      BY <2>1, ArriveShape, BeginShape DEF Fresh
    <3>3. ~OpenSession(v) /\ ~WriteEntry(v) /\ ~List(v) /\ ~PatchSlice(v)
      BY <2>1, OpenShape, WriteShape, ListShape, PatchShape
    <3>4. ~RefuseEntry(v) /\ ~Panic(v) /\ ~CommitFails(v)
      BY <2>1, RefuseShape, PanicShape, CommitFailsShape DEF Refusal
    <3>5. ~Provision(v) /\ ~CallFails(v)
      BY <2>1, ProvisionShape, CallFailsShape DEF Refusal
    <3>6. ~End(v) /\ ~Expire(v)
      BY <2>1, EndShape, ExpireShape DEF Idle
    <3>7. Commit(v)
      BY <2>2, <3>1, <3>2, <3>3, <3>4, <3>5, <3>6 DEF Proceed, Fails
    <3>8. j.pc = "next" /\ j.work = {} /\ slices' = slices
      BY <3>7, CommitShape DEF Commit
    <3>9. s \notin Left(j)
      BY <3>8 DEF Left
    <3>10. QED BY <3>8, <3>9 DEF FollowInv, Looping
  <2>3. ASSUME NEW t \in Slices, PutSlice(t) \/ DeleteSlice(t)
        PROVE  FALSE
    BY <2>1, <2>3, IntrudeShape DEF PutSlice, DeleteSlice, Lowered
  <2>4. ~Restart
    BY <2>1 DEF Restart, Idle
  <2>5. QED BY <2>2, <2>3, <2>4 DEF Next
<1>2. QED BY <1>1, InventoryInvariant, PTL DEF Spec, CopiesFollow

-----------------------------------------------------------------------------
(* The documents implement atomic registers. *)

StatusOf(j) == CASE j.pc = "end" -> IF j.err THEN "failed" ELSE "succeeded"
                 [] j.pc # "end" /\ j.did -> "done"
                 [] OTHER -> "pending"

(* A request as EntryStore knows it. *)
View(j) == IF j.entry = None THEN None
           ELSE [op |-> j.op, entry |-> j.entry, value |-> j.value, status |-> StatusOf(j)]

LEMMA AskedView == /\ Asked = [w \in Workers |-> View(job[w])]
                   /\ Asked' = [w \in Workers |-> View(job'[w])]
BY DEF Asked, View, Status, StatusOf

LEMMA ViewType ==
    ASSUME NEW j, JobOK(j), j.entry # None
    PROVE  /\ View(j) # None
           /\ View(j).op = j.op /\ View(j).entry = j.entry /\ View(j).value = j.value
           /\ View(j).status = StatusOf(j)
<1>1. j.op \in {"post", "put", "delete"} /\ j.entry \in Entries
      /\ j.value \in Values \union {NoTac, None}
  BY DEF JobOK, RequestOK
<1>2. StatusOf(j) \in {"pending", "done", "succeeded", "failed"}
  BY DEF StatusOf
<1>3. View(j) = [op |-> j.op, entry |-> j.entry, value |-> j.value, status |-> StatusOf(j)]
  BY DEF View
<1>4. View(j) \in [op : {"post", "put", "delete"}, entry : Entries,
                   value : Values \union {NoTac, None},
                   status : {"pending", "done", "succeeded", "failed"}]
  BY <1>1, <1>2, <1>3
<1>5. QED BY <1>3, <1>4, InventoryAssumption

(* How the view of one request may change: it is asked, fails, takes effect, is
   answered with success, or leaves.                                          *)
Moves(j, n) ==
    \/ /\ j.entry = None /\ n.entry # None /\ StatusOf(n) = "pending"
       /\ inv' = inv
    \/ /\ j.entry # None /\ n.entry = j.entry /\ n.op = j.op /\ n.value = j.value
       /\ \/ /\ StatusOf(j) \in {"pending", "done"} /\ StatusOf(n) = "failed"
             /\ inv' = inv
          \/ /\ StatusOf(j) = "done" /\ StatusOf(n) = "succeeded"
             /\ inv' = inv
          \/ /\ StatusOf(j) = "pending" /\ StatusOf(n) \in {"done", "succeeded", "failed"}
             /\ j.op = "post" => inv[j.entry] = None
             /\ inv' = [inv EXCEPT ![j.entry] = j.value]
    \/ /\ j.entry # None /\ n.entry = None /\ StatusOf(j) \in {"succeeded", "failed"}
       /\ inv' = inv

LEMMA StoreMoves ==
    ASSUME NEW w \in Workers, JobOK(job[w]), JobOK(job'[w]), Moves(job[w], job'[w]),
           \A v \in Workers \ {w} : View(job'[v]) = View(job[v])
    PROVE  Store!Next
<1> DEFINE j == job[w]
           n == job'[w]
<1>1. Asked[w] = View(j) /\ Asked'[w] = View(n)
  BY AskedView
<1>2. \A x : x = View(n) => Asked' = [Asked EXCEPT ![w] = x]
  BY AskedView
<1>3. SUFFICES /\ Asked'[w] # Asked[w]
               /\ \/ Store!Ask(w) \/ Store!Effect(w) \/ Store!Succeed(w) \/ Store!Fail(w)
                  \/ Store!Leave(w)
  BY DEF Store!Next
<1>4. j.entry = None => View(j) = None
  BY DEF View
<1>5. n.entry = None => View(n) = None
  BY DEF View
<1>6. j.entry # None => View(j) # None /\ View(j).op = j.op /\ View(j).entry = j.entry
                        /\ View(j).value = j.value /\ View(j).status = StatusOf(j)
  BY ViewType
<1>7. n.entry # None => View(n) # None /\ View(n).status = StatusOf(n)
  BY ViewType
<1>8. j.entry # None /\ n.entry = j.entry /\ n.op = j.op /\ n.value = j.value =>
         Asked' = [Asked EXCEPT ![w].status = StatusOf(n)]
  <2> SUFFICES ASSUME j.entry # None, n.entry = j.entry, n.op = j.op, n.value = j.value
               PROVE  Asked' = [Asked EXCEPT ![w].status = StatusOf(n)]
    OBVIOUS
  <2>1. View(n) = [View(j) EXCEPT !.status = StatusOf(n)]
    BY DEF View
  <2>2. [Asked EXCEPT ![w].status = StatusOf(n)]
          = [Asked EXCEPT ![w] = [View(j) EXCEPT !.status = StatusOf(n)]]
    BY <1>1
  <2>3. QED BY <1>2, <2>1, <2>2
<1> HIDE DEF j, n
<1>9. CASE j.entry = None /\ n.entry # None /\ StatusOf(n) = "pending" /\ inv' = inv
  BY <1>1, <1>2, <1>4, <1>7, <1>9 DEF Store!Ask
<1>10. CASE j.entry # None /\ n.entry = None /\ StatusOf(j) \in {"succeeded", "failed"}
            /\ inv' = inv
  BY <1>1, <1>2, <1>5, <1>6, <1>10 DEF Store!Leave
<1>11. CASE /\ j.entry # None /\ n.entry = j.entry /\ n.op = j.op /\ n.value = j.value
            /\ StatusOf(j) \in {"pending", "done"} /\ StatusOf(n) = "failed"
            /\ inv' = inv
  BY <1>1, <1>6, <1>7, <1>8, <1>11 DEF Store!Fail, Store!Becomes
<1>12. CASE /\ j.entry # None /\ n.entry = j.entry /\ n.op = j.op /\ n.value = j.value
            /\ StatusOf(j) = "done" /\ StatusOf(n) = "succeeded"
            /\ inv' = inv
  BY <1>1, <1>6, <1>7, <1>8, <1>12 DEF Store!Succeed, Store!Becomes
<1>13. CASE /\ j.entry # None /\ n.entry = j.entry /\ n.op = j.op /\ n.value = j.value
            /\ StatusOf(j) = "pending" /\ StatusOf(n) \in {"done", "succeeded", "failed"}
            /\ j.op = "post" => inv[j.entry] = None
            /\ inv' = [inv EXCEPT ![j.entry] = j.value]
  BY <1>1, <1>6, <1>7, <1>8, <1>13 DEF Store!Effect, Store!Becomes
<1>14. Moves(j, n)
  BY DEF j, n
<1>15. QED BY <1>9, <1>10, <1>11, <1>12, <1>13, <1>14 DEF Moves

LEMMA SameView ==
    ASSUME NEW j, NEW n, n.entry = j.entry, n.op = j.op, n.value = j.value,
           n.entry = None \/ StatusOf(n) = StatusOf(j)
    PROVE  View(n) = View(j)
BY DEF View

LEMMA LoweredView ==
    ASSUME NEW j, NEW n, Lowered(n, j)
    PROVE  View(n) = View(j)
<1>1. StatusOf(n) = StatusOf(j)
  BY DEF StatusOf, Lowered, KeptTxn, KeptErr
<1>2. QED BY <1>1, SameView DEF Lowered

(* A request that is refused has failed. *)
LEMMA RefusalMoves ==
    ASSUME NEW j, NEW n, Refusal(n, j), j.pc # "end", inv' = inv
    PROVE  (View(n) = View(j) /\ inv' = inv) \/ Moves(j, n)
<1>1. StatusOf(n) = "failed" /\ StatusOf(j) \in {"pending", "done"}
  BY DEF StatusOf, Refusal
<1>2. n.entry = j.entry /\ n.op = j.op /\ n.value = j.value
  BY DEF Refusal, Kept
<1>3. CASE j.entry = None
  BY <1>2, <1>3, SameView
<1>4. CASE j.entry # None
  BY <1>1, <1>2, <1>4 DEF Moves
<1>5. QED BY <1>3, <1>4

(* Steps that an observer of the documents does not see. *)
LEMMA QuietView ==
    ASSUME NEW j, NEW n, Kept(n, j), j.pc # "end", n.pc # "end", n.did = j.did
    PROVE  View(n) = View(j)
<1>1. StatusOf(n) = StatusOf(j)
  BY DEF StatusOf
<1>2. QED BY <1>1, SameView DEF Kept

LEMMA OwnMoves ==
    ASSUME InventoryInv, NEW w \in Workers, Arrive(w) \/ Proceed(w) \/ Fails(w)
    PROVE  (View(job'[w]) = View(job[w]) /\ inv' = inv) \/ Moves(job[w], job'[w])
<1> DEFINE j == job[w]
           n == job'[w]
           Done == (View(n) = View(j) /\ inv' = inv) \/ Moves(j, n)
<1>1. JobInv /\ JobOK(j) /\ inv \in [Entries -> Values \union {NoTac, None}]
  BY DEF InventoryInv, JobInv, TypeOK
<1>2. j.entry \in Entries \/ (j.entry = None /\ ~j.held)
  BY <1>1 DEF JobOK, RequestOK, WriteOK
<1>3. Refusal(n, j) /\ j.pc # "end" /\ inv' = inv => Done
  BY RefusalMoves
<1>4. CASE Arrive(w)
  <2>1. PICK r : Fresh(r) /\ Begin(w, r)
    BY <1>4, ArriveShape
  <2>2. Fresh(n) /\ j.pc = "idle" /\ inv' = inv
    BY <1>1, <2>1, BeginShape DEF Begin
  <2>3. j.entry = None
    BY <1>1, <2>2 DEF JobOK, RequestOK
  <2>4. CASE n.entry = None
    BY <2>2, <2>3, <2>4 DEF View
  <2>5. CASE n.entry # None
    <3>1. StatusOf(n) = "pending"
      BY <2>2, <2>5 DEF StatusOf, Fresh
    <3>2. QED BY <2>2, <2>3, <2>5, <3>1 DEF Moves
  <2>6. QED BY <2>4, <2>5
<1>5. CASE OpenSession(w)
  <2>1. Kept(n, j) /\ j.pc = "session" /\ n.pc = "write" /\ n.did = j.did /\ inv' = inv
    BY <1>1, <1>5, OpenShape DEF OpenSession
  <2>2. QED BY <2>1, QuietView
<1>6. CASE RefuseEntry(w)
  BY <1>1, <1>3, <1>6, RefuseShape DEF RefuseEntry
<1>7. CASE WriteEntry(w)
  <2>1. Kept(n, j) /\ j.pc = "write" /\ n.pc = "list"
        /\ n.held = (j.txn /\ (j.op # "delete" \/ inv[j.entry] # None))
        /\ n.did = ~(j.txn /\ (j.op # "delete" \/ inv[j.entry] # None))
    BY <1>1, <1>7, WriteShape
  <2>2. inv' = (IF j.txn THEN inv ELSE [inv EXCEPT ![j.entry] = j.value]) /\ ~Duplicate(w)
    BY <1>7 DEF WriteEntry
  <2>3. ~j.did /\ j.entry \in Entries /\ j.entry # None /\ (j.op = "delete" => j.value = None)
    BY <1>1, <1>2, <2>1 DEF JobOK, WriteOK, RequestOK
  <2>4. StatusOf(j) = "pending"
    BY <2>1, <2>3 DEF StatusOf
  <2>5. CASE n.did
    <3>1. StatusOf(n) = "done"
      BY <2>1, <2>5 DEF StatusOf
    <3>2. inv' = [inv EXCEPT ![j.entry] = j.value]
      <4>1. CASE j.txn
        <5>1. j.op = "delete" /\ inv[j.entry] = None /\ inv' = inv
          BY <2>1, <2>2, <2>5, <4>1
        <5>2. QED BY <1>1, <2>3, <5>1
      <4>2. CASE ~j.txn
        BY <2>2, <4>2
      <4>3. QED BY <4>1, <4>2
    <3>3. QED BY <2>1, <2>2, <2>3, <2>4, <3>1, <3>2 DEF Moves, Kept, Duplicate
  <2>6. CASE ~n.did
    <3>1. inv' = inv
      BY <2>1, <2>2, <2>6
    <3>2. StatusOf(n) = "pending"
      BY <2>1, <2>6 DEF StatusOf
    <3>3. QED BY <2>1, <2>4, <3>1, <3>2, SameView DEF Kept
  <2>7. QED BY <2>5, <2>6
<1>8. CASE List(w)
  <2>1. Kept(n, j) /\ j.pc = "list" /\ n.pc = "next" /\ n.did = j.did /\ inv' = inv
    BY <1>1, <1>8, ListShape DEF List, KeptTxn
  <2>2. QED BY <2>1, QuietView
<1>9. CASE PatchSlice(w)
  <2>1. Kept(n, j) /\ j.pc # "end" /\ n.pc # "end" /\ n.did = j.did /\ inv' = inv
    BY <1>1, <1>9, PatchShape DEF PatchSlice, KeptTxn
  <2>2. QED BY <2>1, QuietView
<1>10. CASE Panic(w)
  BY <1>1, <1>3, <1>10, PanicShape DEF Panic
<1>11. CASE Provision(w)
  <2>1. inv' = inv
    BY <1>11 DEF Provision
  <2>2. CASE Refusal(n, j)
    BY <1>1, <1>3, <1>11, <2>1, <2>2, ProvisionShape
  <2>3. CASE ~Refusal(n, j)
    <3>1. Kept(n, j) /\ j.pc # "end" /\ n.pc # "end" /\ n.did = j.did
      BY <1>1, <1>11, <2>3, ProvisionShape DEF KeptTxn
    <3>2. QED BY <2>1, <3>1, QuietView
  <2>4. QED BY <2>2, <2>3
<1>12. CASE Commit(w)
  <2>1. inv' = Effect(j) /\ j.pc = "next"
    BY <1>12 DEF Commit, Finished
  <2>2. CASE j.lost
    <3>1. ~j.held
      BY <1>1, <2>2 DEF JobOK, WriteOK
    <3>2. QED BY <1>1, <1>3, <1>12, <2>1, <2>2, <3>1, CommitShape DEF Effect
  <2>3. CASE ~j.lost
    <3>1. Kept(n, j) /\ n.pc = "end" /\ n.err = j.err
      BY <1>1, <1>12, <2>3, CommitShape DEF KeptErr
    <3>2. n.entry = j.entry /\ n.op = j.op /\ n.value = j.value
      BY <3>1 DEF Kept
    <3>3. CASE j.entry = None
      BY <1>2, <2>1, <3>2, <3>3, SameView, InventoryAssumption DEF Effect
    <3>4. CASE j.entry # None
      <4>1. ~j.err /\ (j.held \/ j.did) /\ (j.held => ~j.did)
        BY <1>1, <2>1, <2>3, <3>4 DEF JobOK, WriteOK, Written
      <4>2. StatusOf(n) = "succeeded"
        BY <3>1, <4>1 DEF StatusOf
      <4>3. CASE j.held
        <5>1. StatusOf(j) = "pending"
          BY <2>1, <4>1, <4>3 DEF StatusOf
        <5>2. j.op = "post" => inv[j.entry] = None
          BY <4>3 DEF InventoryInv, HoldInv
        <5>3. QED BY <2>1, <3>2, <3>4, <4>2, <4>3, <5>1, <5>2 DEF Moves, Effect
      <4>4. CASE ~j.held
        <5>1. StatusOf(j) = "done"
          BY <2>1, <4>1, <4>4 DEF StatusOf
        <5>2. QED BY <2>1, <3>2, <3>4, <4>2, <4>4, <5>1 DEF Moves, Effect
      <4>5. QED BY <4>3, <4>4
    <3>5. QED BY <3>3, <3>4
  <2>4. QED BY <2>2, <2>3
<1>13. CASE End(w)
  <2>1. n.entry = None /\ j.pc = "end" /\ inv' = inv
    <3>1. n = Idle /\ j.pc = "end"
      BY <1>1, <1>13, EndShape
    <3>2. Idle.entry = None
      BY DEF Idle
    <3>3. QED BY <1>13, <3>1, <3>2 DEF End
  <2>2. CASE j.entry = None
    BY <2>1, <2>2 DEF View
  <2>3. CASE j.entry # None
    <3>1. StatusOf(j) \in {"succeeded", "failed"}
      BY <2>1 DEF StatusOf
    <3>2. QED BY <2>1, <2>3, <3>1 DEF Moves
  <2>4. QED BY <2>2, <2>3
<1>14. CASE CallFails(w)
  <2>1. inv' = inv /\ j.pc # "end"
    BY <1>1, <1>14, CallFailsShape DEF CallFails
  <2>2. CASE Refusal(n, j)
    BY <1>3, <2>1, <2>2
  <2>3. CASE ~Refusal(n, j)
    <3>1. Kept(n, j) /\ n.pc # "end" /\ n.did = j.did
      BY <1>1, <1>14, <2>3, CallFailsShape DEF KeptTxn
    <3>2. QED BY <2>1, <3>1, QuietView
  <2>4. QED BY <2>2, <2>3
<1>15. CASE CommitFails(w)
  <2>1. Refusal(n, j) /\ j.pc = "next"
    BY <1>1, <1>15, CommitFailsShape
  <2>2. CASE inv' = inv
    BY <1>3, <2>1, <2>2
  <2>3. CASE inv' = Effect(j) /\ j.held
    <3>1. j.entry # None /\ ~j.did
      BY <1>1, <2>3 DEF JobOK, WriteOK
    <3>2. StatusOf(j) = "pending" /\ StatusOf(n) = "failed"
      BY <2>1, <3>1 DEF StatusOf, Refusal
    <3>3. j.op = "post" => inv[j.entry] = None
      BY <2>3 DEF InventoryInv, HoldInv
    <3>4. n.entry = j.entry /\ n.op = j.op /\ n.value = j.value
      BY <2>1 DEF Refusal, Kept
    <3>5. QED BY <2>3, <3>1, <3>2, <3>3, <3>4 DEF Moves, Effect
  <2>4. QED BY <1>15, <2>2, <2>3 DEF CommitFails, Effect
<1>16. CASE Expire(w)
  <2>1. Kept(n, j) /\ j.pc # "end" /\ n.pc # "end" /\ n.did = j.did /\ inv' = inv
    BY <1>1, <1>16, ExpireShape DEF Expire, Written
  <2>2. QED BY <2>1, QuietView
<1>17. QED
  BY <1>4, <1>5, <1>6, <1>7, <1>8, <1>9, <1>10, <1>11, <1>12, <1>13, <1>14, <1>15, <1>16
  DEF Proceed, Fails

LEMMA StoreStep == InventoryInv /\ InventoryInv' /\ [Next]_vars => [Store!Next]_<<inv, Asked>>
<1> SUFFICES ASSUME InventoryInv, InventoryInv', [Next]_vars
             PROVE  Store!Next \/ (inv' = inv /\ Asked' = Asked)
  OBVIOUS
<1>1. TypeOK /\ JobInv
  BY DEF InventoryInv
<1>2. \A v \in Workers : JobOK(job[v]) /\ JobOK(job'[v])
  <2>1. JobInv'
    BY DEF InventoryInv
  <2>2. setting' = setting
    BY <1>1, Rest
  <2>3. ASSUME NEW v \in Workers
        PROVE  JobOK(job[v]) /\ JobOK(job'[v])
    <3>1. JobOK(job[v]) /\ JobOK(job[v])'
      BY <1>1, <2>1 DEF JobInv
    <3>2. QED BY <2>2, <3>1 DEF JobOK, RequestOK, WriteOK, WorkOK
  <2>4. QED BY <2>3
<1>3. ASSUME NEW w \in Workers, Arrive(w) \/ Proceed(w) \/ Fails(w)
      PROVE  Store!Next \/ (inv' = inv /\ Asked' = Asked)
  <2>1. \A v \in Workers \ {w} : View(job'[v]) = View(job[v])
    BY <1>1, <1>3, WorkerJob, LoweredView
  <2>2. CASE View(job'[w]) = View(job[w]) /\ inv' = inv
    BY <2>1, <2>2, AskedView
  <2>3. CASE Moves(job[w], job'[w])
    BY <1>2, <2>1, <2>3, StoreMoves
  <2>4. QED BY <1>3, <2>2, <2>3, OwnMoves
<1>4. ASSUME NEW s \in Slices, PutSlice(s) \/ DeleteSlice(s)
      PROVE  inv' = inv /\ Asked' = Asked
  <2>1. Intrude /\ inv' = inv
    BY <1>4 DEF PutSlice, DeleteSlice
  <2>2. \A v \in Workers : View(job'[v]) = View(job[v])
    BY <1>1, <2>1, IntrudeShape, LoweredView
  <2>3. QED BY <2>1, <2>2, AskedView
<1>5. ASSUME Restart
      PROVE  Store!Next
  <2>1. inv' = inv /\ \A w \in Workers : job'[w] = Idle
    BY <1>5 DEF Restart
  <2>2. View(Idle) = None
    BY DEF View, Idle
  <2>3. Asked' = [w \in Workers |-> None]
    BY <2>1, <2>2, AskedView
  <2>4. QED BY <2>1, <2>3 DEF Store!Next, Store!Lose
<1>6. CASE UNCHANGED vars
  <2>1. inv' = inv /\ job' = job
    BY <1>6 DEF vars
  <2>2. QED BY <2>1, AskedView
<1>7. QED BY <1>3, <1>4, <1>5, <1>6 DEF Next

(* The documents of gNBs and UPFs behave like atomic registers: a request takes
   effect at most once, at one instant between its arrival and its answer, a
   creation only where there is no document, and one that succeeds has taken
   effect.                                                                    *)
THEOREM EntriesAlwaysAtomic == Spec => EntriesAtomic
<1>1. Init => Store!Init
  <2>1. View(Idle) = None
    BY DEF View, Idle
  <2>2. Init => Asked = [w \in Workers |-> None]
    BY <2>1, AskedView DEF Init
  <2>3. QED BY <2>2 DEF Init, Store!Init
<1>2. QED BY <1>1, StoreStep, InventoryInvariant, PTL DEF Spec, EntriesAtomic, Store!Spec

=============================================================================
