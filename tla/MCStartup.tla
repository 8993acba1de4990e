------------------------------ MODULE MCStartup ------------------------------
(* Configurations for the model checker: one server for all databases, as when
   AuthUrl is left out, or others for authentication data and accounts.       *)
EXTENDS Startup, FiniteSets

MCConfigs == [authentication : BOOLEAN,
              server : {f \in [Databases -> Servers] : f["common"] = CHOOSE s \in Servers : TRUE}]
=============================================================================
