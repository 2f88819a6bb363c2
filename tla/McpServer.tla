-------------------------------- MODULE McpServer --------------------------------
(***************************************************************************)
(* A MCP server process: one session and its subscriptions.  Tool calls    *)
(* and subscriptions await the service independently, and the only thing   *)
(* they share is the state of the capability: it is looked at when a feed  *)
(* is to be opened, and may have changed when that feed is open.           *)
(***************************************************************************)
EXTENDS McpSubscriptions

ServerInit == Init /\ FeedInit

ServerNext ==
  /\ running
  /\ \/ Next /\ UNCHANGED feedVars
     \/ FeedNext /\ UNCHANGED vars

ServerSpec == ServerInit /\ [][ServerNext]_<<vars, feedVars>>
================================================================================
