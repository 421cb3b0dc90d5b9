------------------------------ MODULE MCEventLoop ------------------------------
(* Small instances of EventLoop for TLC. *)
EXTENDS EventLoop, TLC

CONSTANTS l1, t1, t2, t3

(* Three threads race to start one loop. *)
AllOnOne == t1 :> l1 @@ t2 :> l1 @@ t3 :> l1
===============================================================================
