---------------------------- MODULE MCEventLoop ----------------------------
(* Instances of EventLoop for TLC: the .cfg files give the bounds. *)
EXTENDS EventLoop
=============================================================================
