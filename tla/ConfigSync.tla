----------------------------- MODULE ConfigSync -----------------------------
(* The in-memory configuration of the NFConfig server and everything that
   moves it: the request goroutines of the WebUI server with their trigger
   middleware, the capacity-one syncChan, the sync worker, the syncWithRetry
   goroutines that queue on syncMutex, failing reads, crash and restart.

   The documents are abstracted to the version of their collection (the
   number of writes made to it), and a field of inMemoryConfig to the versions
   it was computed from.                                                      *)
EXTENDS Naturals, FiniteSets

CONSTANTS Requests,    \* the write requests the WebUI server receives
          ApiRequests, \* those routed under /api, which has no middleware
          Tasks,       \* the goroutines the worker can start
          NoTask,
          MaxVersion,  \* bound: writes to one collection
          MaxFaults,   \* bound: database reads that fail
          MaxCrashes   \* bound: ends of the process

ASSUME SyncAssumption ==
    /\ ApiRequests \subseteq Requests
    /\ NoTask \notin Tasks
    /\ MaxVersion \in Nat /\ MaxFaults \in Nat /\ MaxCrashes \in Nat

ASSUME SpareTasks == \* each request sends one trigger at most
    /\ IsFiniteSet(Requests) /\ IsFiniteSet(Tasks)
    /\ Cardinality(Tasks) >= Cardinality(Requests \ ApiRequests)

Collections == {"slices", "groups"}

(* The fields of inMemoryConfig in the order syncInMemoryConfig assigns them,
   and the collections each is computed from.                                 *)
Rank == [plmn |-> 1, plmnSnssai |-> 2, accessAndMobility |-> 3,
         sessionManagement |-> 4, policyControl |-> 5, imsiQos |-> 6]
Fields == DOMAIN Rank
Reads == [plmn              |-> {"slices"},
          plmnSnssai        |-> {"slices"},
          accessAndMobility |-> {"slices"},
          sessionManagement |-> {"slices", "groups"},
          policyControl     |-> {"slices", "groups"},
          imsiQos           |-> {"groups"}]

VARIABLES
    up,        \* the process is running
    db,        \* version of each collection
    mem,       \* inMemoryConfig: for each field the versions it is built from
    pc,        \* where each request is
    chan,      \* number of triggers buffered in syncChan
    cur,       \* the goroutine whose CancelFunc the worker holds
    tpc,       \* where each syncWithRetry goroutine is
    cancelled, \* whether its context is cancelled
    snap,      \* the versions its last reads returned
    todo,      \* the fields it has still to assign
    mutex,     \* the holder of syncMutex
    acked,     \* history: versions present when a trigger was sent
    answered,  \* history: versions present when a request was answered 2xx
    faults, crashes

reqVars  == <<pc, acked, answered>>
taskVars == <<tpc, snap, todo, mutex>>
vars == <<up, db, mem, reqVars, chan, cur, cancelled, taskVars, faults, crashes>>

Zero == [c \in Collections |-> 0]

(* What a field shows of the versions v. *)
Shows(f, v) == [c \in Collections |-> IF c \in Reads[f] THEN v[c] ELSE 0]

Init == /\ up = TRUE
        /\ db = Zero
        /\ mem = [f \in Fields |-> Zero]
        /\ pc = [r \in Requests |-> "new"]
        /\ chan = 0
        /\ cur = NoTask
        /\ tpc = [t \in Tasks |-> "unborn"]
        /\ cancelled = [t \in Tasks |-> FALSE]
        /\ snap = [t \in Tasks |-> Zero]
        /\ todo = [t \in Tasks |-> {}]
        /\ mutex = NoTask
        /\ acked = Zero
        /\ answered = Zero
        /\ faults = 0
        /\ crashes = 0

-----------------------------------------------------------------------------
(* The request goroutines. *)

Arrive(r) == /\ up /\ pc[r] = "new"
             /\ pc' = [pc EXCEPT ![r] = "running"]
             /\ UNCHANGED <<up, db, mem, acked, answered, chan, cur, cancelled,
                            taskVars, faults, crashes>>

(* A handler writes a document.  Under /api only the removal of a subscriber
   writes a collection the service reads: it rewrites the device groups.      *)
Write(r, c) == /\ up /\ pc[r] = "running"
               /\ r \in ApiRequests => c = "groups"
               /\ db[c] < MaxVersion
               /\ db' = [db EXCEPT ![c] = @ + 1]
               /\ UNCHANGED <<up, mem, reqVars, chan, cur, cancelled, taskVars,
                              faults, crashes>>

(* The handler ends with a status other than 2xx, whatever it wrote before. *)
Fail(r) == /\ up /\ pc[r] = "running"
           /\ pc' = [pc EXCEPT ![r] = "done"]
           /\ UNCHANGED <<up, db, mem, acked, answered, chan, cur, cancelled,
                          taskVars, faults, crashes>>

(* The handler ends with 2xx; under /config/v1 the middleware runs next. *)
Succeed(r) == /\ up /\ pc[r] = "running"
              /\ IF r \in ApiRequests
                   THEN /\ pc' = [pc EXCEPT ![r] = "done"]
                        /\ answered' = db
                   ELSE /\ pc' = [pc EXCEPT ![r] = "trigger"]
                        /\ UNCHANGED answered
              /\ UNCHANGED <<up, db, mem, acked, chan, cur, cancelled, taskVars,
                             faults, crashes>>

(* Variant: a channel without a bound on its buffer. *)
SendUnbounded(r) == /\ up /\ pc[r] = "trigger"
                    /\ chan' = chan + 1
                    /\ pc' = [pc EXCEPT ![r] = "done"]
                    /\ acked' = db
                    /\ answered' = db
                    /\ UNCHANGED <<up, db, mem, cur, cancelled, taskVars, faults, crashes>>

(* syncChan <- struct{}{}, which blocks while the buffer is full.  The response
   leaves the server when the middleware has returned.                        *)
Send(r) == /\ up /\ pc[r] = "trigger"
           /\ chan = 0
           /\ chan' = chan + 1
           /\ pc' = [pc EXCEPT ![r] = "done"]
           /\ acked' = db
           /\ answered' = db
           /\ UNCHANGED <<up, db, mem, cur, cancelled, taskVars, faults, crashes>>

-----------------------------------------------------------------------------
(* The worker: take a trigger, cancel the current goroutine (finished or not),
   start the next one.                                                        *)

(* Variant: the worker waits for the goroutine before, and the first has none. *)
ReceiveAfterPrevious ==
    /\ up /\ chan > 0
    /\ cur # NoTask /\ tpc[cur] = "done"
    /\ chan' = chan - 1
    /\ \E t \in Tasks : /\ tpc[t] = "unborn"
                        /\ tpc' = [tpc EXCEPT ![t] = "lock"]
                        /\ cur' = t
    /\ UNCHANGED <<up, db, mem, reqVars, cancelled, snap, todo, mutex, faults, crashes>>

(* Variant: a trigger that arrives while a sync runs is dropped. *)
ReceiveIfIdle == /\ up /\ chan > 0
                 /\ chan' = chan - 1
                 /\ IF cur # NoTask /\ tpc[cur] # "done"
                      THEN UNCHANGED <<cur, tpc>>
                      ELSE \E t \in Tasks : /\ tpc[t] = "unborn"
                                            /\ tpc' = [tpc EXCEPT ![t] = "lock"]
                                            /\ cur' = t
                 /\ UNCHANGED <<up, db, mem, reqVars, cancelled, snap, todo, mutex,
                                faults, crashes>>

Receive == /\ up /\ chan > 0
           /\ chan' = chan - 1
           /\ \E t \in Tasks :
                 /\ tpc[t] = "unborn"
                 /\ tpc' = [tpc EXCEPT ![t] = "lock"]
                 /\ cur' = t
           /\ cancelled' = [t \in Tasks |-> cancelled[t] \/ t = cur]
           /\ UNCHANGED <<up, db, mem, reqVars, snap, todo, mutex, faults, crashes>>

-----------------------------------------------------------------------------
(* syncWithRetry, which holds syncMutex until it returns. *)

(* Variant: without syncMutex. *)
LockNothing(t) == /\ tpc[t] = "lock"
                  /\ mutex' = t
                  /\ tpc' = [tpc EXCEPT ![t] = "select"]
                  /\ UNCHANGED <<up, db, mem, reqVars, chan, cur, cancelled, snap,
                                 todo, faults, crashes>>

Lock(t) == /\ tpc[t] = "lock" /\ mutex = NoTask
           /\ mutex' = t
           /\ tpc' = [tpc EXCEPT ![t] = "select"]
           /\ UNCHANGED <<up, db, mem, reqVars, chan, cur, cancelled, snap, todo,
                          faults, crashes>>

(* The select finds the context cancelled. *)
SelectDone(t) == /\ tpc[t] \in {"select", "backoff"}
                 /\ cancelled[t]
                 /\ tpc' = [tpc EXCEPT ![t] = "return"]
                 /\ UNCHANGED <<up, db, mem, reqVars, chan, cur, cancelled, snap,
                                todo, mutex, faults, crashes>>

(* The select finds the timer expired.  With the initial interval of 0 both
   cases can be ready and Go picks either; with the retry interval of 3 s a
   context cancelled before the select wins, and one cancelled while it waits
   is the order of this step and of Receive.                                  *)
SelectTimer(t) == /\ \/ tpc[t] = "select"
                     \/ tpc[t] = "backoff" /\ ~cancelled[t]
                  /\ tpc' = [tpc EXCEPT ![t] = "slices"]
                  /\ UNCHANGED <<up, db, mem, reqVars, chan, cur, cancelled, snap,
                                 todo, mutex, faults, crashes>>

ReadSlices(t) == /\ tpc[t] = "slices"
                 /\ snap' = [snap EXCEPT ![t]["slices"] = db["slices"]]
                 /\ tpc' = [tpc EXCEPT ![t] = "groups"]
                 /\ UNCHANGED <<up, db, mem, reqVars, chan, cur, cancelled, todo,
                                mutex, faults, crashes>>

ReadGroups(t) == /\ tpc[t] = "groups"
                 /\ snap' = [snap EXCEPT ![t]["groups"] = db["groups"]]
                 /\ todo' = [todo EXCEPT ![t] = Fields]
                 /\ tpc' = [tpc EXCEPT ![t] = "publish"]
                 /\ UNCHANGED <<up, db, mem, reqVars, chan, cur, cancelled, mutex,
                                faults, crashes>>

(* Variant: a failed sync is not retried. *)
ReadFailsForGood(t) == /\ tpc[t] \in {"slices", "groups"}
                       /\ faults < MaxFaults
                       /\ faults' = faults + 1
                       /\ tpc' = [tpc EXCEPT ![t] = "return"]
                       /\ UNCHANGED <<up, db, mem, reqVars, chan, cur, cancelled,
                                      snap, todo, mutex, crashes>>

(* Either read returns an error: nothing is assigned, retry in 3 s. *)
ReadFails(t) == /\ tpc[t] \in {"slices", "groups"}
                /\ faults < MaxFaults
                /\ faults' = faults + 1
                /\ tpc' = [tpc EXCEPT ![t] = "backoff"]
                /\ UNCHANGED <<up, db, mem, reqVars, chan, cur, cancelled, snap,
                               todo, mutex, crashes>>

(* One sync... call computes and assigns the next field. *)
Publish(t) == /\ tpc[t] = "publish"
              /\ \E f \in todo[t] :
                    /\ \A g \in todo[t] : Rank[f] <= Rank[g]
                    /\ mem' = [mem EXCEPT ![f] = Shows(f, snap[t])]
                    /\ todo' = [todo EXCEPT ![t] = @ \ {f}]
                    /\ tpc' = [tpc EXCEPT ![t] = IF todo[t] = {f}
                                                   THEN "return" ELSE "publish"]
              /\ UNCHANGED <<up, db, reqVars, chan, cur, cancelled, snap, mutex,
                             faults, crashes>>

(* Variant: the Unlock is forgotten. *)
ReturnLocked(t) == /\ tpc[t] = "return"
                   /\ tpc' = [tpc EXCEPT ![t] = "done"]
                   /\ UNCHANGED <<up, db, mem, reqVars, chan, cur, cancelled, snap,
                                  todo, mutex, faults, crashes>>

(* return, with the deferred Unlock *)
Return(t) == /\ tpc[t] = "return"
             /\ tpc' = [tpc EXCEPT ![t] = "done"]
             /\ mutex' = NoTask
             /\ UNCHANGED <<up, db, mem, reqVars, chan, cur, cancelled, snap, todo,
                            faults, crashes>>

Task(t) == \/ Lock(t) \/ SelectDone(t) \/ SelectTimer(t) \/ ReadSlices(t)
           \/ ReadGroups(t) \/ Publish(t) \/ Return(t)

-----------------------------------------------------------------------------
(* The process ends: Start returns an error and main returns, or it is killed.
   Requests and goroutines end with it; the worker's ctx.Done branch changes
   nothing that outlives it.                                                  *)
Crash == /\ up /\ crashes < MaxCrashes
         /\ up' = FALSE
         /\ crashes' = crashes + 1
         /\ pc' = [r \in Requests |-> IF pc[r] = "new" THEN "new" ELSE "done"]
         /\ tpc' = [t \in Tasks |-> IF tpc[t] = "unborn" THEN "unborn" ELSE "done"]
         /\ todo' = [t \in Tasks |-> {}]
         /\ chan' = 0
         /\ cur' = NoTask
         /\ mutex' = NoTask
         /\ UNCHANGED <<db, mem, acked, answered, cancelled, snap, faults>>

(* NewNFConfigServer syncs before the channel, the worker and the WebUI server
   exist; when that sync fails the process exits and nothing has changed.     *)
Restart == /\ ~up
           /\ up' = TRUE
           /\ mem' = [f \in Fields |-> Shows(f, db)]
           /\ UNCHANGED <<db, reqVars, chan, cur, cancelled, taskVars, faults,
                          crashes>>

Next == \/ \E r \in Requests : \/ Arrive(r) \/ Fail(r) \/ Succeed(r) \/ Send(r)
                               \/ \E c \in Collections : Write(r, c)
        \/ Receive
        \/ \E t \in Tasks : Task(t) \/ ReadFails(t)
        \/ Crash
        \/ Restart

Spec == Init /\ [][Next]_vars

(* The Go scheduler runs every runnable goroutine, channel senders and mutex
   waiters queue, and a supervisor restarts the process.  Nothing says that a
   handler returns, or that a request arrives.                                *)
Fairness == /\ \A r \in Requests : WF_vars(Send(r))
            /\ WF_vars(Receive)
            /\ \A t \in Tasks : WF_vars(Task(t))
            /\ WF_vars(Restart)

FairSpec == Spec /\ Fairness

-----------------------------------------------------------------------------
TaskPc == {"unborn", "lock", "select", "backoff", "slices", "groups", "publish",
           "return", "done"}
Inside == {"select", "backoff", "slices", "groups", "publish", "return"}

(* The variables keep their types: in particular syncChan never holds more than
   its one buffered trigger (make(chan struct{}, 1)).                         *)
TypeOK == /\ up \in BOOLEAN
          /\ db \in [Collections -> 0..MaxVersion]
          /\ mem \in [Fields -> [Collections -> 0..MaxVersion]]
          /\ pc \in [Requests -> {"new", "running", "trigger", "done"}]
          /\ chan \in 0..1
          /\ cur \in Tasks \union {NoTask}
          /\ tpc \in [Tasks -> TaskPc]
          /\ cancelled \in [Tasks -> BOOLEAN]
          /\ snap \in [Tasks -> [Collections -> 0..MaxVersion]]
          /\ todo \in [Tasks -> SUBSET Fields]
          /\ mutex \in Tasks \union {NoTask}
          /\ acked \in [Collections -> 0..MaxVersion]
          /\ answered \in [Collections -> 0..MaxVersion]
          /\ faults \in 0..MaxFaults
          /\ crashes \in 0..MaxCrashes

(* Goroutine t will still give field f at least version acked[c] of c. *)
WillServe(t, f, c) ==
    \/ tpc[t] \in {"lock", "select", "backoff", "slices"}
    \/ tpc[t] = "groups" /\ (c = "groups" \/ snap[t][c] >= acked[c])
    \/ tpc[t] = "publish" /\ f \in todo[t] /\ snap[t][c] >= acked[c]

(* No trigger is lost: whatever was in the database when a request sent its
   trigger is in the served field, or a trigger is waiting, or the goroutine
   that is current and not cancelled will put it there.  Triggers merge in the
   channel, cancel running syncs and race with the two reads, and none of this
   loses an update.                                                           *)
NoLostTrigger ==
    up => \A f \in Fields : \A c \in Reads[f] :
             \/ mem[f][c] >= acked[c]
             \/ chan > 0
             \/ cur # NoTask /\ ~cancelled[cur] /\ WillServe(cur, f, c)

(* While nobody is inside a sync, all the fields computed from a collection
   come from the same version of it: neither a failed read, a cancelled sync
   nor two overlapping syncs leaves the configuration half updated.           *)
CoherentWhenUnlocked ==
    (up /\ mutex = NoTask) =>
        \A f, g \in Fields : \A c \in Reads[f] \intersect Reads[g] :
            mem[f][c] = mem[g][c]

Served == INSTANCE ServedConfig WITH stored <- db, promised <- acked, served <- mem

(* The service keeps the safety part of its promise: the served configuration
   only moves forward, whatever syncs are cancelled, overlap, fail or restart. *)
ServesForward == Served!SafeSpec

(* Every version present when a trigger was sent is eventually served. *)
PromiseKept == \A v \in 1..MaxVersion : Served!Kept(Reads, v)

(* No request stays blocked on syncChan. *)
TriggerReturns == \A r \in Requests : (pc[r] = "trigger") ~> (pc[r] = "done")

(* No sync goroutine stays behind: each one started by the worker ends. *)
SyncsEnd == \A t \in Tasks : (tpc[t] = "lock") ~> (tpc[t] = "done")

(* README.md, "It is updated whenever a successful write request is made through
   the WebUI service": every version present when any write request was
   answered 2xx is eventually served.                                         *)
SuccessfulWritesServed ==
    \A v \in 1..MaxVersion, f \in Fields : \A c \in Reads[f] :
        (answered[c] >= v) ~> (mem[f][c] >= v)
=============================================================================
