-------------------------- MODULE MCCommandChannel --------------------------
(* Small instance of CommandChannel: every fault, two presses, and a wire  *)
(* sequence that wraps (the initial sequence is any of 0..SeqMod).           *)
EXTENDS CommandChannel
=============================================================================
