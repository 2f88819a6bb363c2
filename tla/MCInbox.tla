-------------------------------- MODULE MCInbox --------------------------------
(* Model-checking instances of Inbox, by configuration: MCInbox (safety, and  *)
(* liveness for a reader that polls, over the acknowledgement marks) and      *)
(* MCInboxCapped (the command line's --limit).                                *)
EXTENDS Inbox
================================================================================
