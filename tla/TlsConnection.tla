----------------------------- MODULE TlsConnection -----------------------------
(***************************************************************************)
(* Two ladder::TlsConnection objects, a TcpClient's and a TcpServer's,     *)
(* with OpenSSL as an external automaton: the handshake is a number of     *)
(* flights, the client's odd and the server's even (three for TLS 1.3,     *)
(* four before), each of two records.  Send, on a worker or a user's       *)
(* thread, holds data back in pre_write_buffer_ until the handshake is     *)
(* finished; the loop's thread finishes it, takes what was held back and   *)
(* sends it.  Nothing keeps the steps of the two apart.  A call of OpenSSL *)
(* is one step, and the socket takes what it is given (WritePath has the   *)
(* rest).                                                                  *)
(***************************************************************************)
EXTENDS Integers, Sequences

CONSTANTS
    FlightCounts,  \* the numbers of flights that a handshake may have
    MaxTlsSends,   \* bound: calls of Send on each side
    AlertFrom      \* the sides whose peer may break the connection off

Ends == {"client", "server"}

ASSUME TlsAssumption ==
    FlightCounts \subseteq Nat \ (0 .. 2) /\ MaxTlsSends \in Nat /\ AlertFrom \subseteq Ends

Peer(e) == IF e = "client" THEN "server" ELSE "client"

VARIABLES
    flights,  \* flights in this connection's handshake, or 0 before it exists
    flight,   \* flights that each side's engine has sent or received
    rbio,     \* records given to the engine and not yet consumed
    wbio,     \* records it has made and nobody has taken
    net,      \* records on their way to each side
    preWrite, \* pre_write_buffer_
    sending,  \* Send in progress: the decision it took, and its data
    ending,   \* the loop's thread: "no", or to "take" or "send" what was held back
    held,     \* the data it has taken
    alerted,  \* an alert came with the end of the handshake
    tlsRead,  \* read_buffer_: the decrypted data
    tlsShut,  \* shut_down_
    wantOut,  \* EPOLLOUT is asked for
    tlsSent,  \* history: the data given to Send
    late,     \* history: Send held data back after what was held back was taken
    overtook  \* history: Send wrote data before what was held back was sent

tlsSends == <<preWrite, sending, tlsSent, late, overtook>>
tlsEnds == <<ending, held, alerted>>
tlsVars == <<flights, flight, rbio, wbio, net, tlsSends, tlsEnds, tlsRead, tlsShut, wantOut>>

TlsInit ==
    /\ flights = 0 /\ flight = [e \in Ends |-> 0]
    /\ rbio = [e \in Ends |-> <<>>] /\ wbio = rbio /\ net = rbio
    /\ preWrite = rbio /\ sending = rbio /\ tlsRead = rbio /\ tlsSent = rbio
    /\ ending = [e \in Ends |-> "no"] /\ held = rbio
    /\ tlsShut = [e \in Ends |-> FALSE] /\ late = tlsShut /\ overtook = tlsShut
    /\ wantOut = tlsShut /\ alerted = tlsShut

Finished(e) == flight[e] = flights
Record(what, k) == [what |-> what, k |-> k]
FlightRecords(f) == <<Record("hello", f), Record("done", f)>>
MyTurn(e, f) == f < flights /\ (e = "client" <=> f % 2 = 0)

(* SSL_do_handshake: consume the peer's flight when it is complete, and    *)
(* answer it with the next.                                                *)
DoHandshake(e, in) ==
    LET whole == ~MyTurn(e, flight[e]) /\ Len(in) >= 2
        f == IF whole THEN flight[e] + 1 ELSE flight[e]
    IN  [flight |-> IF MyTurn(e, f) THEN f + 1 ELSE f,
         out |-> IF MyTurn(e, f) THEN FlightRecords(f + 1) ELSE <<>>,
         rest |-> IF whole THEN SubSeq(in, 3, Len(in)) ELSE in]

(* The two connections are made: constructor and Init, which asks for both *)
(* reads and writes.                                                       *)
TlsConnect ==
    /\ flights = 0 /\ flights' \in FlightCounts
    /\ wantOut' = [e \in Ends |-> TRUE]
    /\ UNCHANGED <<flight, rbio, wbio, net, tlsSends, tlsEnds, tlsRead, tlsShut>>

IsAlert(in) == \E j \in 1 .. Len(in) : in[j].what = "alert"

(* Encrypt and the flush after it: what the engine made goes out. *)
Encrypt(e, made, in) ==
    /\ wbio' = [wbio EXCEPT ![e] = <<>>]
    /\ net' = [net EXCEPT ![e] = in, ![Peer(e)] = @ \o wbio[e] \o made]
    /\ wantOut' = [wantOut EXCEPT ![e] = FALSE]

(* HandleSslError: WANT_READ flushes what the engine made; an error        *)
(* flushes nothing.                                                        *)
HandleSslError(e, error, made, later) ==
    IF ~error THEN Encrypt(e, made, later)
    ELSE /\ wbio' = [wbio EXCEPT ![e] = @ \o made]
         /\ net' = [net EXCEPT ![e] = later] /\ UNCHANGED wantOut

(* Decrypt: once the handshake is over, what the engine holds is data. *)
Decrypt(e, finished, in) ==
    /\ rbio' = [rbio EXCEPT ![e] = IF finished THEN <<>> ELSE in]
    /\ tlsRead' = [tlsRead EXCEPT ![e] = IF finished THEN @ \o in ELSE @]

(* ReadFromBuffer with the records that came: the handshake goes on, and   *)
(* ends here, or is over and Decrypt comes, with its WANT_READ.  An alert  *)
(* is an error: -2 and OnReadCallback sets shut_down_.                     *)
ReadFromBuffer(e, came, later) ==
    LET in == rbio[e] \o SelectSeq(came, LAMBDA r : r.what # "alert")
        alert == IsAlert(came)
        h == IF Finished(e) THEN [flight |-> flights, out |-> <<>>, rest |-> in] ELSE DoHandshake(e, in)
    IN  /\ flight' = [flight EXCEPT ![e] = h.flight]
        /\ IF h.flight = flights /\ ~Finished(e)
           THEN /\ ending' = [ending EXCEPT ![e] = "take"] /\ alerted' = [alerted EXCEPT ![e] = alert]
                /\ rbio' = [rbio EXCEPT ![e] = h.rest] /\ wbio' = [wbio EXCEPT ![e] = @ \o h.out]
                /\ net' = [net EXCEPT ![e] = later]
                /\ UNCHANGED <<tlsRead, tlsShut, wantOut>>
           ELSE /\ HandleSslError(e, alert, h.out, later)
                /\ Decrypt(e, h.flight = flights, h.rest)
                /\ tlsShut' = [tlsShut EXCEPT ![e] = alert]
                /\ UNCHANGED <<ending, alerted>>
        /\ UNCHANGED <<flights, held, tlsSends>>

(* OnSslHandshakeFinished takes what was held back, ... *)
Mut_TakeHeld(e) ==
    /\ ending[e] = "take" /\ ending' = [ending EXCEPT ![e] = "send"]
    /\ held' = [held EXCEPT ![e] = IF preWrite[e] = <<>> THEN <<>> ELSE <<preWrite[e][Len(preWrite[e])]>>]
    /\ preWrite' = [preWrite EXCEPT ![e] = <<>>]
    /\ UNCHANGED <<flights, flight, rbio, wbio, net, sending, tlsSent, late, overtook, alerted,
                   tlsRead, tlsShut, wantOut>>
TakeHeld(e) ==
    /\ ending[e] = "take" /\ ending' = [ending EXCEPT ![e] = "send"]
    /\ held' = [held EXCEPT ![e] = preWrite[e]]
    /\ preWrite' = [preWrite EXCEPT ![e] = <<>>]
    /\ UNCHANGED <<flights, flight, rbio, wbio, net, sending, tlsSent, late, overtook, alerted,
                   tlsRead, tlsShut, wantOut>>

(* ... and sends it; then ReadFromBuffer goes on to Decrypt. *)
SendHeld(e) ==
    /\ ending[e] = "send" /\ ending' = [ending EXCEPT ![e] = "no"]
    /\ HandleSslError(e, alerted[e] /\ held[e] = <<>>, held[e], net[e])
    /\ Decrypt(e, TRUE, rbio[e])
    /\ held' = [held EXCEPT ![e] = <<>>]
    /\ tlsShut' = [tlsShut EXCEPT ![e] = alerted[e]]
    /\ UNCHANGED <<flights, flight, tlsSends, alerted>>

(* ReadBuffer: the first n records that arrived. *)
TlsReadBuffer(e, n) ==
    /\ ~tlsShut[e] /\ ending[e] = "no" /\ n \in 1 .. Len(net[e])
    /\ ReadFromBuffer(e, SubSeq(net[e], 1, n), SubSeq(net[e], n + 1, Len(net[e])))

(* WriteBuffer on EPOLLOUT, which a client asks for level-triggered: the   *)
(* first call starts the handshake.                                        *)
TlsWriteBuffer(e) ==
    LET h == DoHandshake(e, rbio[e]) IN
    /\ ~tlsShut[e] /\ ending[e] = "no" /\ wantOut[e]
    /\ IF e = "client" /\ ~Finished(e)
       THEN /\ flight' = [flight EXCEPT ![e] = h.flight]
            /\ Encrypt(e, h.out, net[e])
       ELSE wantOut' = [wantOut EXCEPT ![e] = FALSE] /\ UNCHANGED <<flight, wbio, net>>
    /\ UNCHANGED <<flights, rbio, tlsSends, tlsEnds, tlsRead, tlsShut>>

(* Send looks whether the handshake is finished, ... *)
TlsSendCheck(e) ==
    LET d == Record("data", Len(tlsSent[e]) + 1) IN
    /\ flights > 0 /\ sending[e] = <<>> /\ ~tlsShut[e] /\ Len(tlsSent[e]) < MaxTlsSends
    /\ sending' = [sending EXCEPT ![e] = <<IF Finished(e) THEN "write" ELSE "hold", d>>]
    /\ tlsSent' = [tlsSent EXCEPT ![e] = Append(@, d)]
    /\ UNCHANGED <<flights, flight, rbio, wbio, net, preWrite, late, overtook, tlsEnds, tlsRead, tlsShut,
                   wantOut>>

(* ... and then holds the data back, or encrypts and flushes it. *)
TlsSendAct(e) ==
    /\ sending[e] # <<>>
    /\ sending' = [sending EXCEPT ![e] = <<>>]
    /\ IF sending[e][1] = "hold"
       THEN /\ preWrite' = [preWrite EXCEPT ![e] = Append(@, sending[e][2])]
            /\ late' = [late EXCEPT ![e] = @ \/ (Finished(e) /\ ending[e] # "take")]
            /\ UNCHANGED <<wbio, net, wantOut, overtook>>
       ELSE /\ Encrypt(e, <<sending[e][2]>>, net[e])
            /\ overtook' = [overtook EXCEPT ![e] = @ \/ preWrite[e] \o held[e] # <<>>]
            /\ UNCHANGED <<preWrite, late>>
    /\ UNCHANGED <<flights, flight, rbio, tlsSent, tlsEnds, tlsRead, tlsShut>>

(* The other side's engine breaks the connection off. *)
TlsAlert(e) ==
    /\ flights > 0 /\ ~tlsShut[Peer(e)] /\ ~IsAlert(net[e]) /\ ~tlsShut[e]
    /\ net' = [net EXCEPT ![e] = Append(@, Record("alert", 0))]
    /\ tlsShut' = [tlsShut EXCEPT ![Peer(e)] = TRUE]
    /\ UNCHANGED <<flights, flight, rbio, wbio, tlsSends, tlsEnds, tlsRead, wantOut>>

TlsLoop(e) ==
    TlsWriteBuffer(e) \/ TakeHeld(e) \/ SendHeld(e) \/ \E n \in 1 .. Len(net[e]) : TlsReadBuffer(e, n)

TlsNext ==
    \/ TlsConnect
    \/ \E e \in Ends : TlsLoop(e) \/ TlsSendCheck(e) \/ TlsSendAct(e)
    \/ \E e \in AlertFrom : TlsAlert(e)

-------------------------------------------------------------------------------
(* The handshake ends on both sides, no flight staying in an engine, and   *)
(* what was given to Send arrives once, unless a Send held it back after   *)
(* the end of the handshake had taken what was held back, or a side was    *)
(* shut; and in order, data held back for the handshake first, unless a    *)
(* Send wrote between the end of the handshake and the held data.          *)
DataArrives ==
    LET Values(s) == {s[i] : i \in 1 .. Len(s)}
        Once(s, t) == Values(s) = Values(t) /\ Len(s) = Len(t)
        Arrived(e) == IF overtook[e] THEN Once(tlsRead[Peer(e)], tlsSent[e])
                      ELSE tlsRead[Peer(e)] = tlsSent[e]
    IN  flights > 0 ~> \/ \E e \in Ends : tlsShut[e]
                       \/ \A e \in Ends : Finished(e) /\ (late[e] \/ Arrived(e))
===============================================================================
