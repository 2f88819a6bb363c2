----------------------------- MODULE MCChannelFile -----------------------------
(* Model-checking instance of ChannelFile.                                   *)
EXTENDS ChannelFile
================================================================================
