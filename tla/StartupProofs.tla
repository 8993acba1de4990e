---------------------------- MODULE StartupProofs ----------------------------
(* Proofs about Startup, for every set of MongoDB deployments and every set of
   configurations.                                                            *)
EXTENDS Startup, TLAPS

(* What each step of the start has behind it: a step is only reached once the
   common database has answered, has transactions, and has its indexes.       *)
HasIndex(d, i) == <<Server(d), i>> \in indexes

CommonReady == "common" \in client /\ Server("common") \in replicated

Behind ==
    /\ step \in {"connectAuth", "indexUpf", "indexGnb", "connectWebui", "indexUser",
                 "sync", "serve"} => CommonReady
    /\ step \in {"indexGnb", "connectWebui", "indexUser", "sync", "serve"} =>
           HasIndex("common", "indexUpf")
    /\ step \in {"connectWebui", "indexUser", "sync", "serve"} => HasIndex("common", "indexGnb")
    /\ step \in {"connectWebui", "indexUser"} => config.authentication
    /\ (step \in {"sync", "serve"} /\ config.authentication) =>
           "webui" \in client /\ HasIndex("webui", "indexUser")

(* The servers listen after the last step only, and routes follow the configuration. *)
Listening ==
    /\ nf # "off" \/ web # "off" => step = "serve"
    /\ config.authentication => routes # "open"

StartInv == TypeOK /\ Behind /\ Listening

LEMMA StartInit == Init => StartInv
BY StartupAssumption DEF Init, StartInv, TypeOK, Behind, Listening, Loops, Connecting, Indexing

(* An index that has been made. *)
LEMMA IndexMade ==
    ASSUME StartInv, step \in Indexing, Database(step) \in client,
           indexes' = indexes \union {<<Server(Database(step)), step>>}, Go(After(step)),
           UNCHANGED <<config, client, replicated, routes, web, nf>>
    PROVE  StartInv'
<1>1. /\ step' = After(step) /\ selecting' = FALSE /\ fired' = FALSE
      /\ config' = config /\ client' = client /\ replicated' = replicated
      /\ routes' = routes /\ web' = web /\ nf' = nf
  BY DEF Go
<1>2. /\ config \in [authentication : BOOLEAN, server : [Databases -> Servers]]
      /\ Database(step) \in Databases
      /\ step' \in {"indexGnb", "connectWebui", "sync"}
  BY <1>1, StartupAssumption DEF StartInv, TypeOK, Indexing, Databases, Database, After
<1>3. indexes' \subseteq Servers \X Indexing
  <2>1. Server(Database(step)) \in Servers
    BY <1>2 DEF Server
  <2>2. <<Server(Database(step)), step>> \in Servers \X Indexing
    BY <2>1
  <2> QED
    BY <2>2 DEF StartInv, TypeOK
<1>4. TypeOK'
  BY <1>1, <1>2, <1>3 DEF StartInv, TypeOK, Loops, Connecting, Indexing
<1>5. /\ \A d, i : <<Server(d), i>> \in indexes => <<Server(d), i>> \in indexes'
      /\ \A d : Server(d)' = Server(d)
  BY <1>1 DEF Server
<1>6. CommonReady /\ CommonReady'
  BY <1>1 DEF StartInv, Behind, CommonReady, Server, Indexing
<1>7. Behind'
  <2> USE DEF StartInv, Behind, HasIndex
  <2>1. CASE step = "indexUpf"
    <3>1. <<Server("common"), "indexUpf">> \in indexes' /\ step' = "indexGnb"
      BY <1>1, <2>1 DEF Database, After
    <3> QED
      BY <1>5, <1>6, <3>1
  <2>2. CASE step = "indexGnb"
    <3>1. /\ <<Server("common"), "indexUpf">> \in indexes'
          /\ <<Server("common"), "indexGnb">> \in indexes'
      BY <1>5, <2>2 DEF Database
    <3>2. CASE config.authentication
      BY <1>1, <1>5, <1>6, <2>2, <3>1, <3>2 DEF After
    <3>3. CASE ~config.authentication
      BY <1>1, <1>5, <1>6, <2>2, <3>1, <3>3 DEF After
    <3> QED
      BY <3>2, <3>3
  <2>3. CASE step = "indexUser"
    <3>1. /\ <<Server("common"), "indexUpf">> \in indexes'
          /\ <<Server("common"), "indexGnb">> \in indexes'
      BY <1>5, <2>3
    <3>2. /\ <<Server("webui"), "indexUser">> \in indexes'
          /\ "webui" \in client' /\ step' = "sync"
      BY <1>1, <2>3 DEF Database, After
    <3> QED
      BY <1>1, <1>5, <1>6, <2>3, <3>1, <3>2
  <2> QED
    BY <2>1, <2>2, <2>3 DEF Indexing
<1>8. Listening'
  BY <1>1 DEF StartInv, Listening, Indexing
<1> QED
  BY <1>4, <1>7, <1>8 DEF StartInv

(* Every step of the start keeps what the steps before it have made. *)
LEMMA StartStep == StartInv /\ [Next]_vars => StartInv'
<1> SUFFICES ASSUME StartInv, [Next]_vars PROVE StartInv'
  OBVIOUS
<1> USE StartupAssumption
        DEF StartInv, TypeOK, Behind, Listening, CommonReady, HasIndex, Loops, Connecting, Indexing,
            Databases, Database, Server, After, Go, Wait, Stop, Calling, databases, servers
<1>1. CASE Connect
  BY <1>1 DEF Connect
<1>2. CASE Transactions
  BY <1>2 DEF Transactions
<1>3. CASE CreateIndex
  <2>1. CASE Stop /\ UNCHANGED indexes
    BY <1>3, <2>1 DEF CreateIndex
  <2>2. CASE Wait /\ UNCHANGED indexes /\ UNCHANGED servers
    BY <1>3, <2>2 DEF CreateIndex
  <2>3. CASE /\ Database(step) \in client
             /\ indexes' = indexes \union {<<Server(Database(step)), step>>} /\ Go(After(step))
             /\ UNCHANGED servers
    <3>1. step \in Indexing /\ UNCHANGED <<config, client, replicated, routes, web, nf>>
      BY <1>3, <2>3 DEF CreateIndex
    <3> QED
      BY <2>3, <3>1, IndexMade
  <2> QED
    BY <1>3, <2>1, <2>2, <2>3 DEF CreateIndex
<1>4. CASE Sync
  BY <1>4 DEF Sync
<1>5. CASE TimerFires
  BY <1>5 DEF TimerFires
<1>6. CASE Tick
  BY <1>6 DEF Tick
<1>7. CASE Timeout
  BY <1>7 DEF Timeout
<1>8. CASE WebUIRoutes
  BY <1>8 DEF WebUIRoutes
<1>9. CASE WebUIListens
  BY <1>9 DEF WebUIListens
<1>10. CASE WebUIFails
  BY <1>10 DEF WebUIFails
<1>11. CASE NFConfigListens
  BY <1>11 DEF NFConfigListens
<1>12. CASE NFConfigFails
  BY <1>12 DEF NFConfigFails
<1>13. CASE Restart
  BY <1>13 DEF Restart
<1>14. CASE Replicate
  BY <1>14 DEF Replicate
<1>15. CASE UNCHANGED vars
  BY <1>15 DEF vars
<1> QED
  BY <1>1, <1>2, <1>3, <1>4, <1>5, <1>6, <1>7, <1>8, <1>9, <1>10, <1>11, <1>12, <1>13, <1>14, <1>15 DEF Next, Call, Starts

THEOREM StartInvariant == Spec => []StartInv
BY StartInit, StartStep, PTL DEF Spec

(* The variables keep their types. *)
THEOREM TypeCorrect == Spec => []TypeOK
<1>1. StartInv => TypeOK
  BY DEF StartInv
<1> QED
  BY <1>1, StartInvariant, PTL

(* A server that listens has its databases, their transactions and indexes, and
   with authentication no open route, whatever call fails and whichever timer
   fires.                                                                     *)
THEOREM ServesPreparedAlways == Spec => []ServesPrepared
<1>1. StartInv => ServesPrepared
  BY DEF StartInv, Behind, Listening, CommonReady, HasIndex, ServesPrepared
<1> QED
  BY <1>1, StartInvariant, PTL
=============================================================================
