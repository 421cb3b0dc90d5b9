------------------------------ MODULE MCServices ------------------------------
(* The services that the rest of the library uses, checked side by side:    *)
(* part says which of them a behaviour is about, and the others stay as     *)
(* they are.                                                                *)
EXTENDS ThreadPool, Logger, MemoryPool, GZip, FindSubstr, ArgumentParser, TLC

VARIABLE part
MCVars == <<part, taskVars, logVars, memVars, gzVars, kmpVars, argVars>>

MCBlocks == <<"b1", "b2">>
MCOptions == ("ip" :> TRUE) @@ ("name" :> FALSE)
MCEnabled == ("ipv6" :> FALSE)

MCInit ==
    /\ part \in {"pool", "log", "memory", "gzip", "find", "args"}
    /\ TaskInit /\ LogInit /\ MemInit /\ GzInit /\ KmpInit /\ ArgInit
PoolPart == part = "pool" /\ UNCHANGED <<part, logVars, memVars, gzVars, kmpVars, argVars>>
LogPart == part = "log" /\ UNCHANGED <<part, taskVars, memVars, gzVars, kmpVars, argVars>>
MemPart == part = "memory" /\ UNCHANGED <<part, taskVars, logVars, gzVars, kmpVars, argVars>>
GzPart == part = "gzip" /\ UNCHANGED <<part, taskVars, logVars, memVars, kmpVars, argVars>>
KmpPart == part = "find" /\ UNCHANGED <<part, taskVars, logVars, memVars, gzVars, argVars>>
ArgPart == part = "args" /\ UNCHANGED <<part, taskVars, logVars, memVars, gzVars, kmpVars>>

MCNext ==
    \/ (PoolPart /\ TaskNext) \/ (LogPart /\ LogNext) \/ (MemPart /\ MemNext)
    \/ (GzPart /\ GzNext) \/ (KmpPart /\ KmpNext) \/ (ArgPart /\ ArgNext)

(* Every thread that can run is scheduled: the fairness of ThreadPool, the  *)
(* same for the logger's threads, and loops that go on.                     *)
MCSpec ==
    /\ MCInit /\ [][MCNext]_MCVars
    /\ \A w \in Workers : WF_MCVars(PoolPart /\ WorkerStep(w))
    /\ \A c \in Callers : WF_MCVars(PoolPart /\ NotifyOne(c))
    /\ WF_MCVars(PoolPart /\ (DtorNotifyAll \/ DtorJoin))
    /\ WF_MCVars(LogPart /\ LogThreadStep) /\ WF_MCVars(LogPart /\ LogReleaseStep)
    /\ \A w \in LogWriters : WF_MCVars(LogPart /\ LogWriterStep(w))
    /\ WF_MCVars(GzPart /\ GzStep)
    /\ WF_MCVars(KmpPart /\ KmpTurn)
===============================================================================
