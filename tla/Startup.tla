------------------------------- MODULE Startup -------------------------------
(* From the start of the process to its two servers: three databases are
   connected to, one is asked whether it supports transactions, unique indexes
   are made, the first sync runs, and the WebUI and the NF configuration server
   listen.  A call to a database may succeed or fail at any time; loops repeat
   it at every tick until their timer has fired.                              *)
EXTENDS Naturals

CONSTANTS Servers, \* MongoDB deployments
          Configs  \* configuration files: authentication or not, and where each database is

Databases == {"common", "auth", "webui"}

ASSUME StartupAssumption ==
    Configs \subseteq [authentication : BOOLEAN, server : [Databases -> Servers]]

VARIABLES
    config,
    step,       \* of InitMongoDB and startApplication
    selecting,  \* a loop waits for its ticker or its timer
    fired,      \* the timer of the loop has fired
    client,     \* databases whose client is not nil
    replicated, \* servers that are a replica set or sharded
    indexes,    \* unique indexes that exist
    routes,     \* API routes of the WebUI: none, open, or guarded by a token
    web, nf     \* the two servers

vars == <<config, step, selecting, fired, client, replicated, indexes, routes, web, nf>>
databases == <<replicated, indexes>>
servers == <<routes, web, nf>>

Connecting == {"connectCommon", "connectAuth", "connectWebui"}
Indexing == {"indexUpf", "indexGnb", "indexUser"}
Loops == Connecting \union Indexing \union {"transactions"}

Database(s) == CASE s = "connectAuth" -> "auth"
                 [] s \in {"connectWebui", "indexUser"} -> "webui"
                 [] OTHER -> "common"

Server(d) == config.server[d]

After(s) == CASE s = "connectCommon" -> "transactions"
              [] s = "transactions" -> "connectAuth"
              [] s = "connectAuth" -> "indexUpf"
              [] s = "indexUpf" -> "indexGnb"
              [] s = "indexGnb" -> IF config.authentication THEN "connectWebui" ELSE "sync"
              [] s = "connectWebui" -> "indexUser"
              [] s = "indexUser" -> "sync"
              [] s = "sync" -> "serve"

Init == /\ config \in Configs
        /\ step = "connectCommon" /\ selecting = FALSE /\ fired = FALSE
        /\ client = {}
        /\ replicated \in SUBSET Servers /\ indexes = {}
        /\ routes = "none" /\ web = "off" /\ nf = "off"

-----------------------------------------------------------------------------
(* The steps.  Each loop has a ticker and a timer of its own. *)
Go(s) == step' = s /\ selecting' = FALSE /\ fired' = FALSE
Wait == selecting' = TRUE /\ UNCHANGED <<step, fired>>

(* The process ends, with an error; nothing listens any more. *)
Stop == Go("failed") /\ web' = "off" /\ nf' = "off" /\ UNCHANGED routes

Calling(steps) == step \in steps /\ ~selecting /\ UNCHANGED config

(* ConnectMongo: a failed attempt leaves nil. *)
Connect ==
    /\ Calling(Connecting)
    /\ \/ client' = client \union {Database(step)} /\ Go(After(step))
       \/ client' = client \ {Database(step)} /\ Wait
    /\ UNCHANGED <<databases, servers>>

(* CheckTransactionsSupport, of the common database only *)
Transactions ==
    /\ Calling({"transactions"})
    /\ \/ "common" \notin client /\ Stop
       \/ /\ "common" \in client
          /\ \/ Server("common") \in replicated /\ Go(After(step))
             \/ Wait
          /\ UNCHANGED servers
    /\ UNCHANGED <<databases, client>>

(* createIndexWithRetry: only some errors are worth a retry. *)
CreateIndex ==
    /\ Calling(Indexing)
    /\ \/ /\ Database(step) \in client
          /\ \/ indexes' = indexes \union {<<Server(Database(step)), step>>} /\ Go(After(step))
             \/ Wait /\ UNCHANGED indexes
          /\ UNCHANGED servers
       \/ Stop /\ UNCHANGED indexes
    /\ UNCHANGED <<client, replicated>>

(* NewNFConfigServer: one sync, without a retry *)
Sync == /\ Calling({"sync"})
        /\ \/ Go(After(step)) /\ UNCHANGED servers
           \/ Stop
        /\ UNCHANGED <<databases, client>>

Call == Connect \/ Transactions \/ CreateIndex \/ Sync

TimerFires == /\ step \in Loops /\ ~fired /\ fired' = TRUE
              /\ UNCHANGED <<config, step, selecting, client, databases, servers>>

(* Once both channels are ready, select takes either. *)
Tick == /\ selecting /\ selecting' = FALSE
        /\ UNCHANGED <<config, step, fired, client, databases, servers>>

(* Variant: every loop carries on as ConnectMongo does. *)
TimeoutCarriesOn == /\ selecting /\ fired
                    /\ Go(After(step)) /\ UNCHANGED <<config, client, databases, servers>>

(* Variant: the loop is not left. *)
TimeoutIgnored == /\ selecting /\ fired /\ step' = After(step)
                  /\ UNCHANGED <<config, selecting, fired, client, databases, servers>>

(* Variant: only ConnectMongo looks at its timer. *)
TimeoutOfConnect == /\ selecting /\ fired
                    /\ step \in Connecting /\ Go(After(step))
                    /\ UNCHANGED <<config, client, databases, servers>>

(* ConnectMongo says nothing to its caller, the others give up. *)
Timeout == /\ selecting /\ fired
           /\ \/ step \in Connecting /\ Go(After(step)) /\ UNCHANGED servers
              \/ step \notin Connecting /\ Stop
           /\ UNCHANGED <<config, client, databases>>

-----------------------------------------------------------------------------
(* runWebUIAndNFConfig: the WebUI in a goroutine, the NF configuration server. *)

(* Without a secret for the tokens there are no API routes. *)
WebUIRoutes ==
    /\ step = "serve" /\ web = "off"
    /\ routes' \in IF config.authentication THEN {"guarded", "none"} ELSE {"open"}
    /\ web' = "starting"
    /\ UNCHANGED <<config, step, selecting, fired, client, databases, nf>>

(* The HTTP/2 server may fail to be made, which ends its goroutine only. *)
WebUIListens ==
    /\ web = "starting" /\ web' \in {"up", "gone"}
    /\ UNCHANGED <<config, step, selecting, fired, client, databases, routes, nf>>

WebUIFails == /\ web \in {"starting", "up"} /\ Stop
              /\ UNCHANGED <<config, client, databases>>

NFConfigListens ==
    /\ step = "serve" /\ nf = "off" /\ nf' = "up"
    /\ UNCHANGED <<config, step, selecting, fired, client, databases, routes, web>>

NFConfigFails == /\ step = "serve" /\ Stop
                 /\ UNCHANGED <<config, client, databases>>

(* The process is started again; the databases are as they were. *)
Restart == /\ step = "failed" /\ Go("connectCommon")
           /\ client' = {} /\ routes' = "none"
           /\ UNCHANGED <<config, databases, web, nf>>

(* A replica set is initiated. *)
Replicate == /\ \E s \in Servers \ replicated : replicated' = replicated \union {s}
             /\ UNCHANGED <<config, step, selecting, fired, client, indexes, servers>>

Starts == WebUIRoutes \/ WebUIListens \/ NFConfigListens

Next == \/ Call \/ TimerFires \/ Tick \/ Timeout
        \/ Starts \/ WebUIFails \/ NFConfigFails
        \/ Replicate \/ Restart

Spec == Init /\ [][Next]_vars

(* Calls return, since the driver limits them in time, and timers fire.  The
   select chooses at random, so it does not always prefer the ticker.         *)
FairSpec == Spec /\ WF_vars(Call) /\ WF_vars(TimerFires) /\ SF_vars(Timeout)
                 /\ WF_vars(WebUIRoutes) /\ WF_vars(WebUIListens) /\ WF_vars(NFConfigListens)

-----------------------------------------------------------------------------
TypeOK == /\ config \in Configs
          /\ step \in Loops \union {"sync", "serve", "failed"}
          /\ selecting \in BOOLEAN /\ fired \in BOOLEAN
          /\ selecting => step \in Loops
          /\ client \subseteq Databases
          /\ replicated \subseteq Servers
          /\ indexes \subseteq Servers \X Indexing
          /\ routes \in {"none", "open", "guarded"}
          /\ web \in {"off", "starting", "up", "gone"} /\ nf \in {"off", "up"}

(* Whatever fails and however late a timer fires, a server that listens has a
   common database with transactions and with its unique indexes, and with
   authentication also the one of user names and no open route.               *)
ServesPrepared ==
    (nf # "off" \/ web # "off") =>
        /\ "common" \in client /\ Server("common") \in replicated
        /\ {<<Server("common"), i>> : i \in {"indexUpf", "indexGnb"}} \subseteq indexes
        /\ config.authentication => /\ "webui" \in client /\ routes # "open"
                                    /\ <<Server("webui"), "indexUser">> \in indexes

(* Even if no database ever answers, no start waits forever: in the end the process
   serves, or it has given up.                                                *)
StartDecided == []<>(step = "failed" \/ (nf = "up" /\ web \in {"up", "gone"}))

=============================================================================
