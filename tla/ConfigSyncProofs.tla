-------------------------- MODULE ConfigSyncProofs --------------------------
(* Proofs about ConfigSync, for every set of requests and of goroutines and
   every value of the bounds.                                                 *)
EXTENDS ConfigSync, TLAPS

LEMMA ZeroType == Zero \in [Collections -> 0..MaxVersion]
BY SyncAssumption DEF Zero

LEMMA ShowsType ==
    ASSUME NEW f \in Fields, NEW v \in [Collections -> 0..MaxVersion]
    PROVE  Shows(f, v) \in [Collections -> 0..MaxVersion]
BY SyncAssumption DEF Shows

(* The variables keep their types, syncChan its capacity of one among them. *)
THEOREM TypeCorrect == Spec => []TypeOK
<1>1. Init => TypeOK
  BY SyncAssumption, ZeroType DEF Init, TypeOK, TaskPc
<1>2. TypeOK /\ [Next]_vars => TypeOK'
  <2> SUFFICES ASSUME TypeOK, [Next]_vars PROVE TypeOK'
    OBVIOUS
  <2> USE SyncAssumption DEF TypeOK, TaskPc, reqVars, taskVars
  <2>1. ASSUME NEW r \in Requests, Arrive(r) PROVE TypeOK'
    BY <2>1 DEF Arrive
  <2>2. ASSUME NEW r \in Requests, Fail(r) PROVE TypeOK'
    BY <2>2 DEF Fail
  <2>3. ASSUME NEW r \in Requests, Succeed(r) PROVE TypeOK'
    BY <2>3 DEF Succeed
  <2>4. ASSUME NEW r \in Requests, Send(r) PROVE TypeOK'
    BY <2>4 DEF Send
  <2>5. ASSUME NEW r \in Requests, NEW c \in Collections, Write(r, c) PROVE TypeOK'
    BY <2>5 DEF Write
  <2>6. CASE Receive
    BY <2>6 DEF Receive
  <2>7. ASSUME NEW t \in Tasks, Lock(t) PROVE TypeOK'
    BY <2>7 DEF Lock
  <2>8. ASSUME NEW t \in Tasks, SelectDone(t) PROVE TypeOK'
    BY <2>8 DEF SelectDone
  <2>9. ASSUME NEW t \in Tasks, SelectTimer(t) PROVE TypeOK'
    BY <2>9 DEF SelectTimer
  <2>10. ASSUME NEW t \in Tasks, ReadSlices(t) PROVE TypeOK'
    BY <2>10 DEF ReadSlices, Collections
  <2>11. ASSUME NEW t \in Tasks, ReadGroups(t) PROVE TypeOK'
    BY <2>11 DEF ReadGroups, Collections
  <2>12. ASSUME NEW t \in Tasks, ReadFails(t) PROVE TypeOK'
    BY <2>12 DEF ReadFails
  <2>13. ASSUME NEW t \in Tasks, Publish(t) PROVE TypeOK'
    BY <2>13, ShowsType DEF Publish
  <2>14. ASSUME NEW t \in Tasks, Return(t) PROVE TypeOK'
    BY <2>14 DEF Return
  <2>15. CASE Crash
    <3>1. todo' \in [Tasks -> SUBSET Fields]
      BY <2>15 DEF Crash
    <3>2. tpc' \in [Tasks -> TaskPc] /\ pc' \in [Requests -> {"new", "running", "trigger", "done"}]
      BY <2>15 DEF Crash
    <3>3. UNCHANGED <<db, mem, acked, answered, cancelled, snap, faults>>
      BY <2>15 DEF Crash
    <3>4. chan' = 0 /\ cur' = NoTask /\ mutex' = NoTask
      BY <2>15 DEF Crash
    <3>5. crashes' \in 0..MaxCrashes
      BY <2>15 DEF Crash
    <3>6. up' \in BOOLEAN
      BY <2>15, Zenon DEF Crash
    <3> QED
      BY <3>1, <3>2, <3>3, <3>4, <3>5, <3>6
  <2>16. CASE Restart
    BY <2>16, ShowsType DEF Restart
  <2>17. CASE UNCHANGED vars
    BY <2>17 DEF vars
  <2> QED
    BY <2>1, <2>2, <2>3, <2>4, <2>5, <2>6, <2>7, <2>8, <2>9, <2>10, <2>11, <2>12,
       <2>13, <2>14, <2>15, <2>16, <2>17 DEF Next, Task
<1> QED
  BY <1>1, <1>2, PTL DEF Spec

-----------------------------------------------------------------------------
(* A goroutine is inside syncWithRetry, past its Lock, exactly when it holds
   syncMutex; nothing is inside when the process is down.                     *)
LockInv == /\ \A t \in Tasks : tpc[t] \in Inside <=> mutex = t
           /\ ~up => \A t \in Tasks : tpc[t] \in {"unborn", "done"}

(* Requests and the worker's receive leave the inside of the syncs alone. *)
LEMMA OutsideSteps ==
    ASSUME TypeOK, [Next]_vars,
           ~ \E t \in Tasks : Task(t) \/ ReadFails(t),
           ~ Crash, ~ Restart, ~ Receive
    PROVE  UNCHANGED <<up, mem, cur, cancelled, taskVars>>
<1>1. CASE UNCHANGED vars
  BY <1>1 DEF vars, taskVars
<1>2. ASSUME NEW r \in Requests,
             Arrive(r) \/ Fail(r) \/ Succeed(r) \/ Send(r)
      PROVE  UNCHANGED <<up, mem, cur, cancelled, taskVars>>
  BY <1>2 DEF Arrive, Fail, Succeed, Send
<1>3. ASSUME NEW r \in Requests, NEW c \in Collections, Write(r, c)
      PROVE  UNCHANGED <<up, mem, cur, cancelled, taskVars>>
  BY <1>3 DEF Write
<1> QED
  BY <1>1, <1>2, <1>3 DEF Next

LEMMA LockStep == TypeOK /\ LockInv /\ [Next]_vars => LockInv'
<1> SUFFICES ASSUME TypeOK, LockInv, [Next]_vars PROVE LockInv'
  OBVIOUS
<1> USE SyncAssumption DEF TypeOK, LockInv, Inside, taskVars
<1>1. ASSUME NEW t \in Tasks, Lock(t) PROVE LockInv'
  BY <1>1 DEF Lock
<1>2. ASSUME NEW t \in Tasks,
             SelectDone(t) \/ SelectTimer(t) \/ ReadSlices(t) \/ ReadGroups(t)
               \/ ReadFails(t)
      PROVE  LockInv'
  BY <1>2 DEF SelectDone, SelectTimer, ReadSlices, ReadGroups, ReadFails
<1>3. ASSUME NEW t \in Tasks, Publish(t) PROVE LockInv'
  BY <1>3 DEF Publish
<1>4. ASSUME NEW t \in Tasks, Return(t) PROVE LockInv'
  BY <1>4 DEF Return
<1>5. CASE Crash
  BY <1>5 DEF Crash, TaskPc
<1>6. CASE Restart
  BY <1>6 DEF Restart
<1>7. CASE Receive
  BY <1>7 DEF Receive
<1>8. CASE UNCHANGED <<up, mem, cur, cancelled, taskVars>>
  BY <1>8
<1> QED
  BY <1>1, <1>2, <1>3, <1>4, <1>5, <1>6, <1>7, <1>8, OutsideSteps DEF Task

LEMMA LockAlways == Spec => []LockInv
<1>1. Init => LockInv
  BY SyncAssumption DEF Init, LockInv, Inside
<1> QED
  BY <1>1, LockStep, TypeCorrect, PTL DEF Spec

-----------------------------------------------------------------------------
(* The goroutine whose CancelFunc the worker holds has been started and is not
   cancelled; there is none, and no buffered trigger, when the process is down. *)
CurInv == /\ \A t \in Tasks : tpc[t] = "unborn" => ~cancelled[t]
          /\ cur # NoTask => ~cancelled[cur] /\ tpc[cur] # "unborn"
          /\ ~up => cur = NoTask /\ chan = 0

LEMMA CurStep == TypeOK /\ CurInv /\ LockInv /\ [Next]_vars => CurInv'
<1> SUFFICES ASSUME TypeOK, CurInv, LockInv, [Next]_vars PROVE CurInv'
  OBVIOUS
<1> USE SyncAssumption DEF TypeOK, CurInv, taskVars, reqVars
<1>1. ASSUME NEW t \in Tasks, Task(t) \/ ReadFails(t) PROVE CurInv'
  BY <1>1 DEF Task, Lock, SelectDone, SelectTimer, ReadSlices, ReadGroups,
              ReadFails, Publish, Return
<1>2. CASE Receive
  BY <1>2 DEF Receive
<1>3. CASE Crash
  BY <1>3 DEF Crash
<1>4. CASE Restart
  BY <1>4 DEF Restart
<1>5. ASSUME NEW r \in Requests, Arrive(r) \/ Fail(r) \/ Succeed(r) PROVE CurInv'
  BY <1>5 DEF Arrive, Fail, Succeed
<1>6. ASSUME NEW r \in Requests, Send(r) PROVE CurInv'
  BY <1>6 DEF Send
<1>7. ASSUME NEW r \in Requests, NEW c \in Collections, Write(r, c) PROVE CurInv'
  BY <1>7 DEF Write
<1>8. CASE UNCHANGED vars
  BY <1>8 DEF vars
<1> QED
  BY <1>1, <1>2, <1>3, <1>4, <1>5, <1>6, <1>7, <1>8 DEF Next

LEMMA CurAlways == Spec => []CurInv
<1>1. Init => CurInv
  BY SyncAssumption DEF Init, CurInv
<1> QED
  BY <1>1, CurStep, LockAlways, TypeCorrect, PTL DEF Spec

-----------------------------------------------------------------------------
(* What is in memory is never newer than the snapshot the holder of syncMutex
   is about to publish, and that snapshot never newer than the database.      *)
OrderInv ==
    /\ \A c \in Collections : acked[c] <= db[c]
    /\ \A f \in Fields, c \in Collections : mem[f][c] <= db[c]
    /\ \A f \in Fields, c \in Collections : c \notin Reads[f] => mem[f][c] = 0
    /\ \A t \in Tasks : tpc[t] \in {"groups", "publish"} =>
          /\ snap[t]["slices"] <= db["slices"]
          /\ \A f \in Fields : mem[f]["slices"] <= snap[t]["slices"]
    /\ \A t \in Tasks : tpc[t] = "publish" =>
          /\ snap[t]["groups"] <= db["groups"]
          /\ \A f \in Fields : mem[f]["groups"] <= snap[t]["groups"]

LEMMA ShowsOrder ==
    ASSUME NEW f \in Fields, NEW c \in Collections,
           NEW v \in [Collections -> 0..MaxVersion]
    PROVE  /\ Shows(f, v)[c] <= v[c]
           /\ c \in Reads[f] => Shows(f, v)[c] = v[c]
           /\ c \notin Reads[f] => Shows(f, v)[c] = 0
BY SyncAssumption DEF Shows

LEMMA OrderStep == TypeOK /\ LockInv /\ OrderInv /\ [Next]_vars => OrderInv'
<1> SUFFICES ASSUME TypeOK, LockInv, OrderInv, [Next]_vars PROVE OrderInv'
  OBVIOUS
<1> USE SyncAssumption DEF TypeOK, taskVars, reqVars
<1>1. ASSUME NEW t \in Tasks,
             Lock(t) \/ SelectDone(t) \/ SelectTimer(t) \/ ReadFails(t) \/ Return(t)
      PROVE  OrderInv'
  BY ZenonT(60), <1>1 DEF OrderInv, Lock, SelectDone, SelectTimer, ReadFails, Return
<1>2. ASSUME NEW t \in Tasks, ReadSlices(t) PROVE OrderInv'
  BY <1>2 DEF OrderInv, ReadSlices, Collections
<1>3. ASSUME NEW t \in Tasks, ReadGroups(t) PROVE OrderInv'
  BY <1>3 DEF OrderInv, ReadGroups, Collections
<1>4. ASSUME NEW t \in Tasks, Publish(t) PROVE OrderInv'
  <2>1. PICK f \in Fields :
           /\ mem' = [mem EXCEPT ![f] = Shows(f, snap[t])]
           /\ tpc' = [tpc EXCEPT ![t] = IF todo[t] = {f}
                                          THEN "return" ELSE "publish"]
    BY <1>4 DEF Publish
  <2>2. tpc[t] = "publish" /\ UNCHANGED <<db, snap, acked>>
    BY <1>4 DEF Publish
  <2>3. ASSUME NEW s \in Tasks, s # t PROVE tpc[s] \notin {"groups", "publish"}
    BY <2>2, <2>3 DEF LockInv, Inside
  <2>4. \A c \in Collections : snap[t][c] <= db[c]
    BY <2>2 DEF OrderInv, Collections
  <2>5. \A g \in Fields, c \in Collections :
           /\ mem'[g][c] <= snap[t][c]
           /\ c \notin Reads[g] => mem'[g][c] = 0
    BY <2>1, <2>2, ShowsOrder DEF OrderInv, Collections
  <2>6. \A c \in Collections : acked'[c] <= db'[c]
    BY <2>2 DEF OrderInv
  <2>7. \A g \in Fields, c \in Collections : mem'[g][c] <= db'[c]
    <3> TAKE g \in Fields, c \in Collections
    <3>1. mem'[g][c] \in Nat /\ snap[t][c] \in Nat /\ db[c] \in Nat
      BY <2>1, <2>2, ShowsType
    <3> QED
      BY <2>2, <2>4, <2>5, <3>1
  <2>8. \A s \in Tasks : tpc'[s] \in {"groups", "publish"} => s = t /\ snap'[s] = snap[t]
    BY <2>1, <2>2, <2>3
  <2>9. "slices" \in Collections /\ "groups" \in Collections
    BY DEF Collections
  <2> QED
    BY <2>2, <2>4, <2>5, <2>6, <2>7, <2>8, <2>9 DEF OrderInv
<1>5. CASE Receive
  BY <1>5 DEF OrderInv, Receive
<1>6. CASE Crash
  BY <1>6 DEF OrderInv, Crash
<1>7. CASE Restart
  <2>1. \A f \in Fields : mem'[f] = Shows(f, db)
    BY <1>7 DEF Restart
  <2>2. \A t \in Tasks : tpc'[t] \in {"unborn", "done"}
    BY <1>7 DEF Restart, LockInv
  <2>3. UNCHANGED <<db, acked, snap>>
    BY <1>7 DEF Restart
  <2>4. \A f \in Fields, c \in Collections :
           /\ mem'[f][c] <= db'[c]
           /\ c \notin Reads[f] => mem'[f][c] = 0
    BY <2>1, <2>3, ShowsOrder
  <2>5. \A c \in Collections : acked'[c] <= db'[c]
    BY <2>3 DEF OrderInv
  <2>6. \A t \in Tasks : tpc'[t] \notin {"groups", "publish"}
    BY <2>2
  <2> QED
    BY <2>4, <2>5, <2>6 DEF OrderInv
<1>8. ASSUME NEW r \in Requests, Arrive(r) \/ Fail(r) \/ Succeed(r) \/ Send(r)
      PROVE  OrderInv'
  BY <1>8 DEF OrderInv, Arrive, Fail, Succeed, Send
<1>9. ASSUME NEW r \in Requests, NEW c \in Collections, Write(r, c) PROVE OrderInv'
  BY <1>9 DEF OrderInv, Write, Collections
<1>10. CASE UNCHANGED vars
  BY <1>10 DEF OrderInv, vars
<1> QED
  BY <1>1, <1>2, <1>3, <1>4, <1>5, <1>6, <1>7, <1>8, <1>9, <1>10 DEF Next, Task

LEMMA OrderAlways == Spec => []OrderInv
<1>1. Init => OrderInv
  BY SyncAssumption DEF Init, OrderInv, Zero, Collections
<1> QED
  BY <1>1, OrderStep, LockAlways, TypeCorrect, PTL DEF Spec

-----------------------------------------------------------------------------
(* No step of a goroutine makes a served version older. *)
LEMMA PublishForward ==
    ASSUME TypeOK, OrderInv, NEW t \in Tasks, Publish(t)
    PROVE  \A f \in Fields, c \in Collections :
              /\ mem[f][c] <= mem'[f][c]
              /\ mem'[f][c] <= db[c]
<1>1. PICK f \in Fields : mem' = [mem EXCEPT ![f] = Shows(f, snap[t])]
  BY DEF Publish, TypeOK
<1>2. tpc[t] = "publish"
  BY DEF Publish
<1>3. \A c \in Collections : mem[f][c] <= snap[t][c] /\ snap[t][c] <= db[c]
  BY <1>2 DEF OrderInv, Collections
<1> SUFFICES ASSUME NEW g \in Fields, NEW c \in Collections
             PROVE  mem[g][c] <= mem'[g][c] /\ mem'[g][c] <= db[c]
  OBVIOUS
<1>4. mem[g][c] \in Nat /\ db[c] \in Nat /\ snap[t][c] \in Nat
  BY SyncAssumption DEF TypeOK
<1>5. CASE g # f
  BY <1>1, <1>4, <1>5 DEF TypeOK, OrderInv
<1>6. CASE g = f
  <2>1. mem'[g] = Shows(f, snap[t])
    BY <1>1, <1>6 DEF TypeOK
  <2>2. snap[t] \in [Collections -> 0..MaxVersion]
    BY DEF TypeOK
  <2>3. CASE c \in Reads[f]
    BY <2>1, <2>2, <2>3, <1>3, <1>4, <1>6, ShowsOrder
  <2>4. CASE c \notin Reads[f]
    BY <2>1, <2>2, <2>4, <1>4, <1>6, ShowsOrder DEF OrderInv
  <2> QED
    BY <2>3, <2>4
<1> QED
  BY <1>5, <1>6

LEMMA RestartForward ==
    ASSUME TypeOK, OrderInv, Restart
    PROVE  \A f \in Fields, c \in Collections :
              /\ mem[f][c] <= mem'[f][c]
              /\ mem'[f][c] <= db[c]
              /\ c \in Reads[f] => mem'[f][c] = db[c]
<1> SUFFICES ASSUME NEW f \in Fields, NEW c \in Collections
             PROVE  /\ mem[f][c] <= mem'[f][c]
                    /\ mem'[f][c] <= db[c]
                    /\ c \in Reads[f] => mem'[f][c] = db[c]
  OBVIOUS
<1>1. mem'[f] = Shows(f, db)
  BY DEF Restart
<1>2. db \in [Collections -> 0..MaxVersion] /\ mem[f][c] \in Nat /\ db[c] \in Nat
  BY SyncAssumption DEF TypeOK
<1> QED
  BY <1>1, <1>2, ShowsOrder DEF OrderInv

-----------------------------------------------------------------------------
LEMMA NoLostStep ==
    TypeOK /\ CurInv /\ OrderInv /\ NoLostTrigger /\ [Next]_vars => NoLostTrigger'
<1> DEFINE Held(f, c) == \/ mem[f][c] >= acked[c]
                         \/ chan > 0
                         \/ cur # NoTask /\ ~cancelled[cur] /\ WillServe(cur, f, c)
<1> SUFFICES ASSUME TypeOK, CurInv, OrderInv, NoLostTrigger, [Next]_vars, up',
                    NEW f \in Fields, NEW c \in Reads[f]
             PROVE  Held(f, c)'
  BY DEF NoLostTrigger
<1> USE SyncAssumption DEF TypeOK, taskVars, reqVars
<1>0. c \in Collections
  BY DEF Fields, Rank, Reads, Collections
<1>1. ASSUME NEW t \in Tasks,
             Lock(t) \/ SelectTimer(t) \/ ReadFails(t) \/ Return(t)
      PROVE  Held(f, c)'
  <2>1. CASE Lock(t)
    BY <2>1 DEF NoLostTrigger, WillServe, Lock
  <2>2. CASE SelectTimer(t)
    BY <2>2 DEF NoLostTrigger, WillServe, SelectTimer
  <2>3. CASE ReadFails(t)
    BY <2>3 DEF NoLostTrigger, WillServe, ReadFails
  <2>4. CASE Return(t)
    BY <2>4 DEF NoLostTrigger, WillServe, Return
  <2> QED
    BY <1>1, <2>1, <2>2, <2>3, <2>4
<1>2. ASSUME NEW t \in Tasks, SelectDone(t)
      PROVE  Held(f, c)'
  BY <1>2 DEF NoLostTrigger, WillServe, SelectDone
<1>3. ASSUME NEW t \in Tasks, ReadSlices(t)
      PROVE  Held(f, c)'
  BY <1>0, <1>3 DEF NoLostTrigger, WillServe, ReadSlices, OrderInv, Collections
<1>4. ASSUME NEW t \in Tasks, ReadGroups(t)
      PROVE  Held(f, c)'
  BY <1>0, <1>4 DEF NoLostTrigger, WillServe, ReadGroups, OrderInv, Collections
<1>5. ASSUME NEW t \in Tasks, Publish(t)
      PROVE  Held(f, c)'
  <2>1. PICK g \in todo[t] :
           /\ mem' = [mem EXCEPT ![g] = Shows(g, snap[t])]
           /\ todo' = [todo EXCEPT ![t] = @ \ {g}]
           /\ tpc' = [tpc EXCEPT ![t] = IF todo[t] = {g}
                                          THEN "return" ELSE "publish"]
    BY <1>5 DEF Publish
  <2>2. tpc[t] = "publish" /\ UNCHANGED <<up, acked, chan, cur, cancelled, snap>>
    BY <1>5 DEF Publish
  <2>3. mem[f][c] <= mem'[f][c]
    BY <1>0, <1>5, PublishForward
  <2>4. mem[f][c] \in Nat /\ mem'[f][c] \in Nat /\ acked[c] \in Nat
    BY <1>0, <2>1, ShowsType
  <2>5. CASE mem[f][c] >= acked[c]
    BY <2>2, <2>3, <2>4, <2>5
  <2>6. CASE chan > 0
    BY <2>2, <2>6
  <2>7. CASE cur # NoTask /\ ~cancelled[cur] /\ WillServe(cur, f, c)
    <3>1. CASE cur # t
      BY <2>1, <2>2, <2>7, <3>1 DEF WillServe
    <3>2. CASE cur = t /\ g # f
      BY <2>1, <2>2, <2>7, <3>2 DEF WillServe
    <3>3. CASE cur = t /\ g = f
      <4>1. snap[t][c] >= acked[c]
        BY <2>2, <2>7, <3>3 DEF WillServe
      <4>2. mem'[f][c] = snap[t][c]
        BY <1>0, <2>1, <3>3, ShowsOrder
      <4> QED
        BY <2>2, <4>1, <4>2
    <3> QED
      BY <3>1, <3>2, <3>3
  <2> QED
    BY <2>2, <2>5, <2>6, <2>7 DEF NoLostTrigger
<1>6. CASE Receive
  BY <1>6 DEF NoLostTrigger, WillServe, Receive, CurInv
<1>7. CASE Crash
  BY <1>7 DEF Crash
<1>8. CASE Restart
  <2>1. mem'[f][c] = db[c] /\ acked' = acked
    BY <1>0, <1>8, RestartForward DEF Restart
  <2> QED
    BY <1>0, <2>1 DEF OrderInv
<1>9. ASSUME NEW r \in Requests, Arrive(r) \/ Fail(r) \/ Succeed(r)
      PROVE  Held(f, c)'
  BY <1>9 DEF NoLostTrigger, WillServe, Arrive, Fail, Succeed
<1>10. ASSUME NEW r \in Requests, Send(r) PROVE chan' > 0
  BY <1>10 DEF Send
<1>11. ASSUME NEW r \in Requests, NEW d \in Collections, Write(r, d)
      PROVE  Held(f, c)'
  BY <1>11 DEF NoLostTrigger, WillServe, Write
<1>12. CASE UNCHANGED vars
  BY <1>12 DEF NoLostTrigger, WillServe, vars
<1> QED
  BY <1>1, <1>2, <1>3, <1>4, <1>5, <1>6, <1>7, <1>8, <1>9, <1>10, <1>11, <1>12
  DEF Next, Task

(* No trigger is lost, however many requests, goroutines and failures. *)
THEOREM TriggersAreNotLost == Spec => []NoLostTrigger
<1>1. Init => NoLostTrigger
  BY SyncAssumption DEF Init, NoLostTrigger, Zero, Fields, Rank, Reads, Collections
<1> QED
  BY <1>1, NoLostStep, TypeCorrect, CurAlways, OrderAlways, PTL DEF Spec

-----------------------------------------------------------------------------
(* While a goroutine publishes, the fields it has assigned show its snapshot;
   while none does, all fields agree.                                         *)
Coherent == \A f, g \in Fields : \A c \in Reads[f] \intersect Reads[g] :
                mem[f][c] = mem[g][c]

PublishInv ==
    /\ (up /\ \A t \in Tasks : tpc[t] # "publish") => Coherent
    /\ \A t \in Tasks : tpc[t] = "publish" =>
          \A f \in Fields \ todo[t] : \A c \in Reads[f] : mem[f][c] = snap[t][c]

LEMMA ReadsType == \A f \in Fields : Reads[f] \subseteq Collections
BY DEF Fields, Rank, Reads, Collections

LEMMA PublishStep == TypeOK /\ LockInv /\ PublishInv /\ [Next]_vars => PublishInv'
<1> SUFFICES ASSUME TypeOK, LockInv, PublishInv, [Next]_vars PROVE PublishInv'
  OBVIOUS
<1> USE SyncAssumption DEF TypeOK, taskVars, reqVars
<1>1. ASSUME NEW t \in Tasks,
             Lock(t) \/ SelectDone(t) \/ SelectTimer(t) \/ ReadFails(t) \/ Return(t)
      PROVE  PublishInv'
  <2>1. \A s \in Tasks : tpc'[s] = "publish" <=> tpc[s] = "publish"
    BY <1>1 DEF Lock, SelectDone, SelectTimer, ReadFails, Return
  <2>2. UNCHANGED <<up, mem, snap, todo>>
    BY <1>1 DEF Lock, SelectDone, SelectTimer, ReadFails, Return
  <2> QED
    BY <2>1, <2>2 DEF PublishInv, Coherent
<1>2. ASSUME NEW t \in Tasks, ReadSlices(t) PROVE PublishInv'
  BY <1>2 DEF PublishInv, Coherent, ReadSlices
<1>3. ASSUME NEW t \in Tasks, ReadGroups(t) PROVE PublishInv'
  BY <1>3 DEF PublishInv, Coherent, ReadGroups
<1>4. ASSUME NEW t \in Tasks, Publish(t) PROVE PublishInv'
  <2>1. PICK f \in todo[t] :
           /\ mem' = [mem EXCEPT ![f] = Shows(f, snap[t])]
           /\ todo' = [todo EXCEPT ![t] = @ \ {f}]
           /\ tpc' = [tpc EXCEPT ![t] = IF todo[t] = {f}
                                          THEN "return" ELSE "publish"]
    BY <1>4 DEF Publish
  <2>2. tpc[t] = "publish" /\ snap' = snap
    BY <1>4 DEF Publish
  <2>3. \A s \in Tasks : s # t => tpc[s] # "publish" /\ tpc'[s] # "publish"
    BY <2>1, <2>2 DEF LockInv, Inside
  <2>4. \A g \in Fields \ todo'[t] : \A c \in Reads[g] : mem'[g][c] = snap[t][c]
    <3> SUFFICES ASSUME NEW g \in Fields \ todo'[t], NEW c \in Reads[g]
                 PROVE  mem'[g][c] = snap[t][c]
      OBVIOUS
    <3>1. CASE g = f
      BY <2>1, <3>1, ShowsOrder, ReadsType
    <3>2. CASE g # f
      BY <2>1, <2>2, <3>2 DEF PublishInv
    <3> QED
      BY <3>1, <3>2
  <2>5. CASE todo[t] = {f}
    <3>1. todo'[t] = {} /\ tpc'[t] = "return"
      BY <2>1, <2>5
    <3>2. Coherent'
      BY <2>4, <3>1 DEF Coherent
    <3> QED
      BY <2>3, <3>1, <3>2 DEF PublishInv
  <2>6. CASE todo[t] # {f}
    <3>1. tpc'[t] = "publish"
      BY <2>1, <2>6
    <3> QED
      BY <2>2, <2>3, <2>4, <3>1 DEF PublishInv
  <2> QED
    BY <2>5, <2>6
<1>5. CASE Receive
  BY <1>5 DEF PublishInv, Coherent, Receive
<1>6. CASE Crash
  BY <1>6 DEF PublishInv, Crash
<1>7. CASE Restart
  <2>1. \A f \in Fields : \A c \in Reads[f] : mem'[f][c] = db[c]
    BY <1>7, ShowsOrder, ReadsType DEF Restart
  <2>2. \A t \in Tasks : tpc'[t] # "publish"
    BY <1>7 DEF Restart, LockInv
  <2> QED
    BY <2>1, <2>2 DEF PublishInv, Coherent
<1>8. CASE UNCHANGED <<up, mem, cur, cancelled, taskVars>>
  BY <1>8 DEF PublishInv, Coherent
<1> QED
  BY <1>1, <1>2, <1>3, <1>4, <1>5, <1>6, <1>7, <1>8, OutsideSteps DEF Task

(* Outside a sync, all fields come from the same version of a collection. *)
THEOREM FieldsAgree == Spec => []CoherentWhenUnlocked
<1>1. Init => PublishInv
  BY DEF Init, PublishInv, Coherent, Zero
<1>2. TypeOK /\ LockInv /\ PublishInv => CoherentWhenUnlocked
  BY SyncAssumption DEF LockInv, PublishInv, Coherent, CoherentWhenUnlocked, Inside
<1> QED
  BY <1>1, <1>2, PublishStep, LockAlways, TypeCorrect, PTL DEF Spec

-----------------------------------------------------------------------------
(* ConfigSync implements the safety part of ServedConfig. *)
LEMMA ServeStep ==
    TypeOK /\ OrderInv /\ [Next]_vars => [Served!Next]_(Served!view)
<1> SUFFICES ASSUME TypeOK, OrderInv, [Next]_vars
             PROVE  Served!Next \/ UNCHANGED <<db, acked, mem>>
  BY DEF Served!view
<1> USE DEF taskVars, reqVars
<1>1. ASSUME /\ \A f \in Fields, c \in Collections :
                   mem[f][c] <= mem'[f][c] /\ mem'[f][c] <= db[c]
             /\ mem' \in [Fields -> [Collections -> 0..MaxVersion]]
             /\ UNCHANGED <<db, acked>>
      PROVE  Served!Next
  <2>1. mem' \in [Fields -> [Collections -> Nat]]
    BY <1>1
  <2> QED
    BY <1>1, <2>1 DEF Served!Next, Served!Serve
<1>2. ASSUME NEW t \in Tasks, Publish(t) PROVE Served!Next
  <2>1. mem' \in [Fields -> [Collections -> 0..MaxVersion]]
    BY <1>2, ShowsType DEF Publish, TypeOK
  <2> QED
    BY <1>1, <1>2, <2>1, PublishForward DEF Publish
<1>3. ASSUME NEW t \in Tasks,
             Lock(t) \/ SelectDone(t) \/ SelectTimer(t) \/ ReadSlices(t)
               \/ ReadGroups(t) \/ ReadFails(t) \/ Return(t)
      PROVE  UNCHANGED <<db, acked, mem>>
  BY <1>3 DEF Lock, SelectDone, SelectTimer, ReadSlices, ReadGroups, ReadFails, Return
<1>4. CASE Receive
  BY <1>4 DEF Receive
<1>5. CASE Crash
  BY <1>5 DEF Crash
<1>6. CASE Restart
  <2>1. mem' \in [Fields -> [Collections -> 0..MaxVersion]]
    BY <1>6, ShowsType DEF Restart, TypeOK
  <2> QED
    BY <1>1, <1>6, <2>1, RestartForward DEF Restart
<1>7. ASSUME NEW r \in Requests, Arrive(r) \/ Fail(r) \/ Succeed(r)
      PROVE  UNCHANGED <<db, acked, mem>>
  BY <1>7 DEF Arrive, Fail, Succeed
<1>8. ASSUME NEW r \in Requests, Send(r) PROVE Served!Next
  BY <1>8 DEF Send, Served!Next, Served!Promise
<1>9. ASSUME NEW r \in Requests, NEW c \in Collections, Write(r, c) PROVE Served!Next
  BY <1>9 DEF Write, Served!Next, Served!Store
<1>10. CASE UNCHANGED vars
  BY <1>10 DEF vars
<1> QED
  BY <1>2, <1>3, <1>4, <1>5, <1>6, <1>7, <1>8, <1>9, <1>10 DEF Next, Task

(* The served configuration only moves forward and never past the database. *)
THEOREM ServesForwardHolds == Spec => ServesForward
<1>1. Init => Served!Init
  BY DEF Init, Served!Init, Zero
<1> QED
  BY <1>1, ServeStep, TypeCorrect, OrderAlways, PTL
  DEF Spec, ServesForward, Served!SafeSpec
=============================================================================
