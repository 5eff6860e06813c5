--------------------------- MODULE GatewayStartup ---------------------------
(***************************************************************************)
(* main() with the JWKS fetches it waits for.  GatewayProcess lets         *)
(* JwksCache::fetch succeed or fail in one step; here it takes as many as  *)
(* the code has system calls (JwksFetch), against a server that may be     *)
(* slow, silent or gone.  A stalled fetch keeps the gateway from starting, *)
(* and one that throws keeps it from starting at all.                      *)
(***************************************************************************)
EXTENDS GatewayProcess, JwksFetch

startupVars == <<vars, fetchVars>>

StartupInit == Init /\ FetchInit

-----------------------------------------------------------------------------
(* The loop over the policies: one with jwt calls fetch and waits for it.  *)
MainCalls ==
  /\ Fetching
  /\ store.policies[next].jwt # Absent
  /\ Call
  /\ UNCHANGED vars

MainWaits ==
  /\ Fetch
  /\ UNCHANGED vars

(* What fetch returned is entered under the policy's name.                 *)
FetchReturns ==
  /\ Leave
  /\ FetchJwks

(* What it threw is caught, whatever its type: LOG(FATAL).                 *)
FetchThrows ==
  /\ pc = "threw"
  /\ FetchFails
  /\ UNCHANGED fetchVars

MainElse ==
  /\ \/ LoadConfig \/ LoadFails \/ SkipPolicy
     \/ BuildServers \/ BuildFails \/ StartAdmin \/ StartGateway
     \/ JoinGateway \/ StopAdmin \/ JoinAdmin
  /\ UNCHANGED fetchVars

StartupMain == MainCalls \/ MainWaits \/ FetchReturns \/ FetchThrows \/ MainElse

(* The server at jwksUri                                                   *)
JwksServer ==
  /\ ServerSends \/ ServerEnds
  /\ UNCHANGED vars

ThreadStarts ==
  /\ AdminStarts \/ GatewayStarts
  /\ UNCHANGED fetchVars

Around ==
  /\ EditDir \/ Signal \/ Reload
  /\ UNCHANGED fetchVars

StartupNext == StartupMain \/ JwksServer \/ ThreadStarts \/ Around

StartupSpec == StartupInit /\ [][StartupNext]_startupVars

(* The threads run, and every system call that fetch makes returns.        *)
(* Nothing is assumed of the server it talks to.                           *)
StartupFairSpec ==
  /\ StartupSpec
  /\ WF_startupVars(StartupMain)
  /\ WF_startupVars(AdminStarts /\ UNCHANGED fetchVars)
  /\ WF_startupVars(GatewayStarts /\ UNCHANGED fetchVars)
=============================================================================
