------------------------------ MODULE Bootstrap ------------------------------
(***************************************************************************)
(* infra/lakekeeper/bootstrap.py, which makes a Lakekeeper server ready    *)
(* for the Flink jobs: terms accepted, a project, the warehouse, and in    *)
(* its storage profile no remote signing, which no client of the platform  *)
(* can do.  The script looks and then acts, with a request for either, and *)
(* may be run twice at once, fail between any two requests, or lose the    *)
(* answer to one that the server has carried out.                          *)
(***************************************************************************)
EXTENDS Naturals

CONSTANTS
  Scripts,        \* processes that run the script
  MaxLosses       \* bound: runs that a timeout or an error of the network ends

ASSUME BootAssumption == MaxLosses \in Nat

VARIABLES
  terms,       \* of the server: "open" or "accepted"; with it comes the default project
  warehouse,   \* its profile: "none", or what remote-signing-enabled makes of it,
               \* "signing" (an older version's) or "direct" (_storage_profile)
  script,      \* [Scripts -> the request that a run is at, "idle", "ok" or "failed"]
  losses

bootVars == <<terms, warehouse, script, losses>>

BootInit ==
  /\ terms \in {"open", "accepted"}
  /\ warehouse \in (IF terms = "open" THEN {"none"} ELSE {"none", "signing"})
  /\ script = [s \in Scripts |-> "idle"]
  /\ losses = 0

-----------------------------------------------------------------------------
At(s, pc) == script[s] = pc

StepTo(s, pc) == script' = [script EXCEPT ![s] = pc]

(* A request that changes the server: its answer may be lost.              *)
Answered(s, pc) ==
  \/ StepTo(s, pc) /\ UNCHANGED losses
  \/ losses < MaxLosses /\ losses' = losses + 1 /\ StepTo(s, "failed")

(* Mutant of ensure_server_bootstrapped: an answer of 400 is an error.     *)
ensure_or_raise(s) ==
  /\ At(s, "idle")
  /\ IF terms = "open" THEN terms' = "accepted" /\ Answered(s, "project")
     ELSE StepTo(s, "failed") /\ UNCHANGED <<terms, losses>>
  /\ UNCHANGED warehouse

(* "Already bootstrapped" is as good as done.                              *)
ensure_server_bootstrapped(s) ==
  /\ At(s, "idle")
  /\ terms' = "accepted"
  /\ Answered(s, "project")
  /\ UNCHANGED warehouse

get_default_project_id(s) ==
  /\ At(s, "project")
  /\ StepTo(s, IF terms = "open" THEN "failed" ELSE "look")
  /\ UNCHANGED <<terms, warehouse, losses>>

get_warehouse_id(s) ==
  /\ At(s, "look")
  /\ StepTo(s, IF warehouse = "none" THEN "create" ELSE "update")
  /\ UNCHANGED <<terms, warehouse, losses>>

(* The server refuses a second warehouse of the name.                      *)
create_warehouse(s) ==
  /\ At(s, "create")
  /\ IF warehouse = "none"
     THEN warehouse' = "direct" /\ Answered(s, "ok")
     ELSE StepTo(s, "failed") /\ UNCHANGED <<warehouse, losses>>
  /\ UNCHANGED terms

(* Mutant of update_warehouse_storage: an existing warehouse is left alone. *)
skip_warehouse(s) ==
  /\ At(s, "update")
  /\ StepTo(s, "ok")
  /\ UNCHANGED <<terms, warehouse, losses>>

update_warehouse_storage(s) ==
  /\ At(s, "update")
  /\ warehouse' = "direct"
  /\ Answered(s, "ok")
  /\ UNCHANGED terms

(* A request times out or is refused before the server has acted on it.    *)
ScriptDies(s) ==
  /\ script[s] \notin {"idle", "ok", "failed"}
  /\ losses < MaxLosses
  /\ losses' = losses + 1
  /\ StepTo(s, "failed")
  /\ UNCHANGED <<terms, warehouse>>

RunAgain(s) ==
  /\ script[s] \in {"ok", "failed"}
  /\ StepTo(s, "idle")
  /\ UNCHANGED <<terms, warehouse, losses>>

main(s) ==
  \/ ensure_server_bootstrapped(s)
  \/ get_default_project_id(s)
  \/ get_warehouse_id(s)
  \/ create_warehouse(s)
  \/ update_warehouse_storage(s)

BootNext == \E s \in Scripts : main(s) \/ ScriptDies(s) \/ RunAgain(s)

BootSpec == BootInit /\ [][BootNext]_bootVars

-----------------------------------------------------------------------------
(* A run that reports success leaves a server on which the jobs can read   *)
(* and write the tables: also on a warehouse that an older version made,   *)
(* and while another run is under way.                                     *)
SuccessMeansReady ==
  \A s \in Scripts : script[s] = "ok" => terms = "accepted" /\ warehouse = "direct"

(* A script that is run until it reports success gets there, whatever an   *)
(* earlier run left half done and whoever creates the warehouse first.     *)
BootstrapSettles ==
  \A s \in Scripts : (script[s] # "idle") ~> (script[s] = "ok")
=============================================================================
