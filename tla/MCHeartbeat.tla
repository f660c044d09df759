----------------------------- MODULE MCHeartbeat -----------------------------
(* Heartbeat alone, for the comment on the promotion stack that exceptions   *)
(* refute.                                                                   *)
EXTENDS Heartbeat
==============================================================================
