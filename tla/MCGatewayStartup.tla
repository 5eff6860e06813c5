-------------------------- MODULE MCGatewayStartup --------------------------
(***************************************************************************)
(* The configurations of MCGatewayProcess and the servers of MCJwksFetch.  *)
(***************************************************************************)
EXTENDS GatewayStartup, MCGatewayProcess, MCJwksFetch
=============================================================================
