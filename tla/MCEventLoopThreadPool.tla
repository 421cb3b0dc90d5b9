------------------------- MODULE MCEventLoopThreadPool -------------------------
(* Small instances of EventLoopThreadPool for TLC. *)
EXTENDS EventLoopThreadPool, TLC

CONSTANTS t1, t2

TwoThreads == t1 :> 0 @@ t2 :> 1
===============================================================================
