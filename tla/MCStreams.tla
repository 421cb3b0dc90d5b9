------------------------------- MODULE MCStreams -------------------------------
(* What carries bytes over a connection, checked side by side: part says    *)
(* which of the four a behaviour is about, and the others stay as they are. *)
EXTENDS WritePath, ReadPath, Codec, TlsConnection

VARIABLE part
MCVars == <<part, vars, readVars, codecVars, tlsVars>>

P(size, intact, type, parses) == [size |-> size, intact |-> intact, type |-> type, parses |-> parses]
MCPackets ==
    {P(0, TRUE, "unknown", FALSE), P(1, TRUE, "default", TRUE), P(1, TRUE, "unknown", TRUE),
     P(1, FALSE, "registered", TRUE)}
    \cup {P(size, TRUE, "registered", parses) : size \in {1, 2}, parses \in BOOLEAN}

MCInit == part \in {"write", "read", "codec", "tls"} /\ Init /\ ReadInit /\ CodecInit /\ TlsInit
WritePart == part = "write" /\ UNCHANGED <<part, readVars, codecVars, tlsVars>>
ReadPart == part = "read" /\ UNCHANGED <<part, vars, codecVars, tlsVars>>
CodecPart == part = "codec" /\ UNCHANGED <<part, vars, readVars, tlsVars>>
TlsPart == part = "tls" /\ UNCHANGED <<part, vars, readVars, codecVars>>
MCNext ==
    \/ (WritePart /\ Next) \/ (ReadPart /\ ReadNext) \/ (CodecPart /\ CodecNext)
    \/ (TlsPart /\ TlsNext)

(* The fairness of Spec and ReadSpec; the threads of the two TLS            *)
(* connections run.                                                         *)
MCSpec ==
    /\ MCInit /\ [][MCNext]_MCVars
    /\ \A t \in Threads : WF_MCVars(WritePart /\ FlushStep(t))
    /\ WF_MCVars(WritePart /\ OnWriteCallback) /\ WF_MCVars(WritePart /\ PeerReads)
    /\ WF_MCVars(ReadPart /\ LoopStep) /\ \A w \in Workers : WF_MCVars(ReadPart /\ WorkStep(w))
    /\ \A e \in Ends : WF_MCVars(TlsPart /\ TlsLoop(e)) /\ WF_MCVars(TlsPart /\ TlsSendAct(e))
===============================================================================
