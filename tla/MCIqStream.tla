----------------------------- MODULE MCIqStream -----------------------------
(* IqStream with two lives: one that is stopped and one that follows it.   *)
(* MCIqStream lets no join time out, MCIqLive one.                         *)
EXTENDS IqStream

=============================================================================
