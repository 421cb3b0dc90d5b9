------------------------------- MODULE TcpClient -------------------------------
(***************************************************************************)
(* TcpClient with its Connector and the Connector's Timer, from Connect to *)
(* the connection or failure callback, with Disconnect and a second        *)
(* Connect.  The user's thread runs Connect while the loop's thread, an    *)
(* EventLoopThread, already handles events of the new socket.  The kernel  *)
(* is a socket that is unconnected, connecting or connected, epoll, and a  *)
(* timerfd.                                                                *)
(***************************************************************************)
EXTENDS Integers, Sequences

CONSTANTS
    MaxRetry,       \* max_retry_
    InitialTimeout, \* retry_initial_timeout, at least kMinRetryInitialTimeout
    MaxConnects     \* bound: calls of Connect

(* retry_timeout_ is a uint16_t: it counts modulo 2^16. *)
Modulus == 65536

ASSUME ClientAssumption ==
    /\ MaxRetry \in Nat
    /\ InitialTimeout \in 5 .. Modulus - 1
    /\ MaxConnects \in Nat

VARIABLES
    tcp,            \* state of the socket: "closed", "syn", "est" or, shut for writing, "fin"
    ss,             \* what connect() has done with it
    serr,           \* SO_ERROR is set
    open,           \* the descriptor is open
    reg, ready,     \* it is in the epoll set, on the ready list
    timer,          \* the timerfd
    status_,        \* TcpClient::status_
    conn_,          \* conn_ is not null
    cbs,            \* whose callbacks the channel has
    retry_,         \* Connector::retry_
    retry_timeout_, \* Connector::retry_timeout_
    user,           \* where the user's thread is
    loop,           \* where the loop's thread is
    batch,          \* active_channels still to be handled
    evts,           \* revents_ of the connection's channel
    stale,          \* the batch is older than the last Connect
    end,            \* how the process ended
    connects,       \* history: calls of Connect
    attempts,       \* history: calls of connect() since then
    ever,           \* history: the socket was established since then
    disconnected    \* history: Disconnect was called since then

kernel == <<tcp, ss, serr>>
object == <<status_, conn_, cbs, retry_, retry_timeout_>>
history == <<connects, attempts, ever, disconnected>>
vars == <<kernel, open, reg, ready, timer, object, user, loop, batch, evts, stale, end, history>>

Init ==
    /\ tcp = "closed" /\ ss = "unconnected" /\ serr = FALSE
    /\ open = FALSE /\ reg = FALSE /\ ready = FALSE
    /\ timer = "off"
    /\ status_ = "kDisconnected" /\ conn_ = FALSE /\ cbs = "none"
    /\ retry_ = 0 /\ retry_timeout_ = InitialTimeout
    /\ user = "idle"
    /\ loop = "poll" /\ batch = <<>> /\ evts = {} /\ stale = FALSE
    /\ end = "no"
    /\ connects = 0 /\ attempts = 0 /\ ever = FALSE /\ disconnected = FALSE

Running == end = "no"

(* What epoll reports of a TCP socket. *)
Mask ==
    CASE tcp = "closed" -> {"Hup", "Out"} \cup (IF serr THEN {"Err"} ELSE {})
      [] tcp \in {"est", "fin"} -> {"Out"}
      [] OTHER          -> {}

-------------------------------------------------------------------------------
(* The kernel: the handshake ends, the peer resets, or answers a FIN with  *)
(* its own, the timer expires.                                             *)
Established ==
    /\ Running /\ tcp = "syn"
    /\ tcp' = "est" /\ ever' = TRUE
    /\ ready' = reg
    /\ UNCHANGED <<ss, serr, open, reg, timer, object, user, loop, batch, evts, stale, end,
                   connects, attempts, disconnected>>

Refused ==
    /\ Running /\ tcp = "syn"
    /\ tcp' = "closed" /\ serr' = TRUE
    /\ ready' = reg
    /\ UNCHANGED <<ss, open, reg, timer, object, user, loop, batch, evts, stale, end, history>>

PeerResets ==
    /\ Running /\ tcp \in {"est", "fin"}
    /\ tcp' = "closed" /\ serr' = TRUE
    /\ ready' = reg
    /\ UNCHANGED <<ss, open, reg, timer, object, user, loop, batch, evts, stale, end, history>>

PeerEnds ==
    /\ Running /\ tcp = "fin"
    /\ tcp' = "closed"
    /\ ready' = reg
    /\ UNCHANGED <<ss, serr, open, reg, timer, object, user, loop, batch, evts, stale, end, history>>

Expires ==
    /\ Running /\ timer = "armed"
    /\ timer' = "expired"
    /\ UNCHANGED <<kernel, open, reg, ready, object, user, loop, batch, evts, stale, end, history>>

-------------------------------------------------------------------------------
(* OnConnectionFailureCallback: conn_, the last owner, closes the socket.  *)
(* With conn_ gone its first line is a null dereference.                   *)
OnConnectionFailure ==
    /\ conn_' = FALSE
    /\ status_' = "kDisconnected"
    /\ open' = FALSE /\ reg' = FALSE
    /\ end' = IF conn_ THEN end ELSE "null"

(* Timer::SetInterval with periodic false: zero disarms the timer, and     *)
(* every call forgets an expiry that was not read.                         *)
SetInterval(interval) == timer' = IF interval = 0 THEN "off" ELSE "armed"

Mut_RetryDoublesFirst ==
    /\ retry_' = retry_ + 1
    /\ IF retry_ + 1 <= MaxRetry
       THEN /\ retry_timeout_' = (2 * retry_timeout_) % Modulus
            /\ SetInterval(retry_timeout_')
            /\ UNCHANGED <<conn_, status_, open, reg, end>>
       ELSE OnConnectionFailure /\ UNCHANGED <<timer, retry_timeout_>>

Mut_RetryLess ==
    /\ retry_' = retry_ + 1
    /\ IF retry_ + 1 < MaxRetry
       THEN /\ SetInterval(retry_timeout_)
            /\ retry_timeout_' = (2 * retry_timeout_) % Modulus
            /\ UNCHANGED <<conn_, status_, open, reg, end>>
       ELSE OnConnectionFailure /\ UNCHANGED <<timer, retry_timeout_>>

(* Connector::Retry: another attempt later, or the failure callback. *)
Retry ==
    /\ retry_' = retry_ + 1
    /\ IF retry_ + 1 <= MaxRetry
       THEN /\ SetInterval(retry_timeout_)
            /\ retry_timeout_' = (2 * retry_timeout_) % Modulus
            /\ UNCHANGED <<conn_, status_, open, reg, end>>
       ELSE OnConnectionFailure /\ UNCHANGED <<timer, retry_timeout_>>

NoRetry == UNCHANGED <<retry_, timer, retry_timeout_, conn_, status_, open, reg, end>>

(* The three steps of Connector::Start, on either thread. *)
SetConnectorCallbacks == cbs' = "connector"

(* EPOLL_CTL_MOD puts the channel on the ready list again. *)
EnableWrite ==
    /\ ready' = reg
    /\ end' = IF reg THEN end ELSE "exit"

(* connect() and the switch on errno. *)
TryConnect ==
    /\ attempts' = attempts + 1
    /\ \/ /\ open /\ ss = "unconnected"
          /\ \/ tcp' = "syn" /\ ss' = "connecting" /\ NoRetry /\ UNCHANGED <<ready, ever>>
             \/ tcp' = "est" /\ ss' = "connected" /\ ever' = TRUE /\ ready' = reg /\ NoRetry
             \/ Retry /\ UNCHANGED <<tcp, ss, ready, ever>>
          /\ serr' = serr
       \/ /\ open /\ ss = "connecting" /\ tcp = "syn"      \* EALREADY
          /\ Retry
          /\ UNCHANGED <<kernel, ready, ever>>
       \/ /\ open /\ ss = "connecting" /\ tcp = "closed"   \* the error of the last attempt
          /\ Retry
          /\ ss' = "unconnected" /\ serr' = FALSE
          /\ ready' = reg
          /\ UNCHANGED <<tcp, ever>>
       \/ /\ open /\ (tcp \in {"est", "fin"} \/ ss = "connected")  \* 0, then EISCONN
          /\ ss' = "connected"
          /\ NoRetry
          /\ UNCHANGED <<tcp, serr, ready, ever>>
       \/ /\ ~open                                         \* EBADF
          /\ Retry
          /\ UNCHANGED <<kernel, ready, ever>>

-------------------------------------------------------------------------------
(* A new Connector, whose new Timer is not set. *)
NewConnector ==
    /\ retry_' = 0 /\ retry_timeout_' = InitialTimeout
    /\ timer' = "off"

(* The user's thread in TcpClient::Connect: a new socket, Connection,      *)
(* Connector and Timer replace the old ones, ...                           *)
Connect ==
    /\ Running /\ user = "idle"
    /\ status_ = "kDisconnected" /\ connects < MaxConnects
    /\ status_' = "kConnecting"
    /\ tcp' = "closed" /\ ss' = "unconnected" /\ serr' = FALSE
    /\ open' = TRUE /\ reg' = FALSE /\ ready' = FALSE
    /\ conn_' = TRUE /\ cbs' = "none"
    /\ NewConnector
    /\ user' = "register"
    /\ stale' = (loop # "poll")
    /\ connects' = connects + 1
    /\ attempts' = 0 /\ ever' = FALSE /\ disconnected' = FALSE
    /\ UNCHANGED <<loop, batch, evts, end>>

(* ... Connection::Init registers the socket and sets its callbacks, ... *)
Register ==
    /\ Running /\ user = "register"
    /\ reg' = TRUE /\ ready' = TRUE
    /\ user' = "callbacks"
    /\ UNCHANGED <<kernel, open, timer, object, loop, batch, evts, stale, end, history>>

SetChannelCallbacks ==
    /\ Running /\ user = "callbacks"
    /\ cbs' = "connection"
    /\ user' = "setters"
    /\ UNCHANGED <<kernel, open, reg, ready, timer, status_, conn_, retry_, retry_timeout_,
                   loop, batch, evts, stale, end, history>>

(* ... and Connector::Start follows. *)
UserSetters ==
    /\ Running /\ user = "setters"
    /\ SetConnectorCallbacks
    /\ user' = "enable"
    /\ UNCHANGED <<kernel, open, reg, ready, timer, status_, conn_, retry_, retry_timeout_,
                   loop, batch, evts, stale, end, history>>

UserEnable ==
    /\ Running /\ user = "enable"
    /\ EnableWrite
    /\ user' = "connect"
    /\ UNCHANGED <<kernel, open, reg, timer, object, loop, batch, evts, stale, history>>

UserConnect ==
    /\ Running /\ user = "connect"
    /\ TryConnect
    /\ user' = "idle"
    /\ UNCHANGED <<cbs, loop, batch, evts, stale, connects, disconnected>>

(* TcpClient::Disconnect: the status becomes kConnecting, and stays so;    *)
(* ShutDownWrite sends a FIN.                                              *)
Disconnect ==
    /\ Running /\ user = "idle"
    /\ status_ = "kConnected"
    /\ status_' = "kConnecting"
    /\ disconnected' = TRUE
    /\ IF tcp = "est" THEN tcp' = "fin" /\ ready' = reg ELSE UNCHANGED <<tcp, ready>>
    /\ UNCHANGED <<ss, serr, open, reg, timer, conn_, cbs, retry_, retry_timeout_, user,
                   loop, batch, evts, stale, end, connects, attempts, ever>>

-------------------------------------------------------------------------------
(* The loop's thread: epoll_wait takes what is ready, in either order. *)
Poll ==
    /\ Running /\ loop = "poll"
    /\ LET fired == (IF timer = "expired" THEN {"timer"} ELSE {})
                      \cup (IF reg /\ ready /\ Mask # {} THEN {"conn"} ELSE {})
       IN  /\ fired # {}
           /\ batch' \in {s \in [1 .. 1 -> fired] \cup [1 .. 2 -> fired] :
                            {s[i] : i \in DOMAIN s} = fired
                              /\ (Len(s) = 2 => s[1] # s[2])}
           /\ evts' = IF "conn" \in fired THEN Mask ELSE {}
    /\ ready' = FALSE
    /\ loop' = "handle"
    /\ UNCHANGED <<kernel, open, reg, timer, object, user, stale, end, history>>

(* The batch is done. *)
Again ==
    /\ Running /\ loop = "handle" /\ batch = <<>>
    /\ loop' = "poll"
    /\ stale' = FALSE
    /\ UNCHANGED <<kernel, open, reg, ready, timer, object, user, batch, evts, end, history>>

(* A channel or Connector of an earlier Connect, destroyed since, is used. *)
HandleStale ==
    /\ Running /\ stale
    /\ loop # "handle" \/ batch # <<>>
    /\ end' = "freed"
    /\ UNCHANGED <<kernel, open, reg, ready, timer, object, user, loop, batch, evts, stale, history>>

(* The loop comes to channel ch of its batch. *)
Turn(ch) == Running /\ loop = "handle" /\ ~stale /\ batch # <<>> /\ Head(batch) = ch

Mut_OnTimerPeriodic ==
    /\ Turn("timer")
    /\ batch' = Tail(batch)
    /\ IF timer = "expired"
       THEN timer' = "armed" /\ loop' = "setters" /\ end' = end
       ELSE timer' = timer /\ loop' = loop /\ end' = "exit"
    /\ UNCHANGED <<kernel, open, reg, ready, object, user, evts, stale, history>>

(* Timer::OnTimer: a timer set anew since epoll_wait has nothing to read,  *)
(* which EXITs; otherwise Connector::Start.                                *)
OnTimer ==
    /\ Turn("timer")
    /\ batch' = Tail(batch)
    /\ IF timer = "expired"
       THEN timer' = "off" /\ loop' = "setters" /\ end' = end
       ELSE timer' = timer /\ loop' = loop /\ end' = "exit"
    /\ UNCHANGED <<kernel, open, reg, ready, object, user, evts, stale, history>>

LoopSetters ==
    /\ Running /\ loop = "setters" /\ ~stale
    /\ SetConnectorCallbacks
    /\ loop' = "enable"
    /\ UNCHANGED <<kernel, open, reg, ready, timer, status_, conn_, retry_, retry_timeout_,
                   user, batch, evts, stale, end, history>>

LoopEnable ==
    /\ Running /\ loop = "enable" /\ ~stale
    /\ EnableWrite
    /\ loop' = "connect"
    /\ UNCHANGED <<kernel, open, reg, timer, object, user, batch, evts, stale, history>>

LoopConnect ==
    /\ Running /\ loop = "connect" /\ ~stale
    /\ TryConnect
    /\ loop' = "handle"
    /\ UNCHANGED <<cbs, user, batch, evts, stale, connects, disconnected>>

HangUp == evts \cap {"Hup", "Err"} # {}

(* HandleEvents with a hang-up or error: Retry, or the Connection's        *)
(* OnCloseCallback, which leaves epoll, or nothing yet.                    *)
HandleHangUp ==
    /\ Turn("conn") /\ HangUp
    /\ batch' = Tail(batch)
    /\ \/ cbs = "connector" /\ Retry /\ ready' = (ready /\ reg')
       \/ /\ cbs = "connection"
          /\ reg' = FALSE /\ ready' = FALSE
          /\ UNCHANGED <<retry_, timer, retry_timeout_, conn_, status_, open, end>>
       \/ cbs = "none" /\ NoRetry /\ ready' = ready
    /\ UNCHANGED <<kernel, cbs, user, loop, evts, stale, history>>

Mut_HandleConnectFirst ==
    /\ Turn("conn") /\ "Out" \in evts
    /\ batch' = Tail(batch)
    /\ IF cbs = "connector"
       THEN /\ serr' = FALSE
            /\ IF serr
               THEN Retry /\ cbs' = cbs
               ELSE /\ status_' = "kConnected"
                    /\ cbs' = "connection"
                    /\ end' = IF conn_ THEN end ELSE "null"
                    /\ UNCHANGED <<retry_, timer, retry_timeout_, conn_, open, reg>>
       ELSE NoRetry /\ UNCHANGED <<serr, cbs>>
    /\ UNCHANGED <<tcp, ss, ready, user, loop, evts, stale, history>>

(* HandleEvents with EPOLLOUT only: Connector::HandleConnect, which takes  *)
(* SO_ERROR, and OnConnectionCallback; or the Connection's write callback. *)
HandleConnect ==
    /\ Turn("conn") /\ ~HangUp
    /\ batch' = Tail(batch)
    /\ IF cbs = "connector"
       THEN /\ serr' = FALSE
            /\ IF serr
               THEN Retry /\ cbs' = cbs
               ELSE /\ status_' = "kConnected"
                    /\ cbs' = "connection"
                    /\ end' = IF conn_ THEN end ELSE "null"
                    /\ UNCHANGED <<retry_, timer, retry_timeout_, conn_, open, reg>>
       ELSE NoRetry /\ UNCHANGED <<serr, cbs>>
    /\ UNCHANGED <<tcp, ss, ready, user, loop, evts, stale, history>>

-------------------------------------------------------------------------------
UserStep == Register \/ SetChannelCallbacks \/ UserSetters \/ UserEnable \/ UserConnect

LoopStep ==
    \/ Poll \/ Again \/ HandleStale \/ OnTimer \/ LoopSetters \/ LoopEnable \/ LoopConnect
    \/ HandleHangUp \/ HandleConnect

Next == UserStep \/ Connect \/ Disconnect \/ LoopStep \/ Established \/ Refused \/ PeerResets
        \/ PeerEnds \/ Expires

SafeSpec == Init /\ [][Next]_vars

(* Both threads are scheduled, a handshake ends (the kernel gives up after *)
(* a time) and timers expire; nobody has to call Connect or Disconnect.    *)
Spec ==
    /\ SafeSpec
    /\ WF_vars(UserStep)
    /\ WF_vars(LoopStep)
    /\ WF_vars(Established \/ Refused)
    /\ WF_vars(Expires)

-------------------------------------------------------------------------------
(* The type invariant; retry_timeout_ stays below 2^16 as it is doubled. *)
TypeOK ==
    /\ tcp \in {"closed", "syn", "est", "fin"}
    /\ ss \in {"unconnected", "connecting", "connected"}
    /\ {serr, open, reg, ready, conn_, stale, ever, disconnected} \subseteq BOOLEAN
    /\ timer \in {"off", "armed", "expired"}
    /\ status_ \in {"kDisconnected", "kConnecting", "kConnected"}
    /\ cbs \in {"none", "connection", "connector"}
    /\ retry_ \in Nat
    /\ retry_timeout_ \in 0 .. Modulus - 1
    /\ user \in {"idle", "register", "callbacks", "setters", "enable", "connect"}
    /\ loop \in {"poll", "handle", "setters", "enable", "connect"}
    /\ batch \in Seq({"timer", "conn"})
    /\ evts \subseteq {"Hup", "Err", "Out"}
    /\ end \in {"no", "exit", "null", "freed"}
    /\ connects \in 0 .. MaxConnects /\ attempts \in Nat

(* The client counts as connected only if its socket was established:      *)
(* HandleEvents looks at EPOLLHUP, which an unconnected socket reports     *)
(* together with EPOLLOUT, before it calls HandleConnect.                  *)
ConnectedIsEstablished == status_ = "kConnected" => ever

(* Whatever mixture of hang-ups, errors and expiries Retry is called for,  *)
(* connect() is called at most once more than max_retry_.                  *)
AttemptsBounded == attempts <= MaxRetry + 1

(* What ends the process is a hang-up during Connect itself, or follows a  *)
(* retry: conn_ is null only for a Retry after the last, and only a second *)
(* Connect destroys what the loop is using.                                *)
EndsOnlyAfterHangUp ==
    /\ end = "exit" => retry_ > 0 \/ (user = "connect" /\ ~reg)
    /\ end = "null" => retry_ > MaxRetry
    /\ end = "freed" => connects > 1

(* Connect comes to an end: the client is connected, or the failure        *)
(* callback has run (or the process has ended).                            *)
ConnectConcludes ==
    (status_ = "kConnecting" /\ ~disconnected) ~> (status_ # "kConnecting" \/ ~Running)
===============================================================================
